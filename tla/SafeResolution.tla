--------------------------- MODULE SafeResolution ---------------------------
(***************************************************************************)
(* From a submitted URL to the URL a tool is given: ResolutionService with *)
(* its wrapper registry, the SafeHTTPClient below it (the HEAD/GET probe   *)
(* and the document fetch, redirects followed by hand) and the binding of  *)
(* the inspection target.                                                  *)
(*                                                                         *)
(* A URL is its host, its scheme and its shape: "main" is the stable path  *)
(* of a provider or the path a wrapper's resolver matches, "alias" another *)
(* spelling of a stable path, "other" anything else.  A name is looked up  *)
(* anew for every check and may answer differently each time; servers,     *)
(* documents and extractors may answer anything.  A step runs from one     *)
(* await to the next.                                                      *)
(***************************************************************************)
EXTENDS Integers, Sequences, FiniteSets

CONSTANTS Urls,          \* URLs that visitors, servers and documents name
          ProviderOf,    \* ProviderRegistry: host -> provider, or NoOwner
          ResolverOf,    \* WrapperResolverRegistry: host -> resolver, or NoOwner
          NoOwner,
          ApexOf,        \* host -> host of the canonical URL
          Extractable,   \* providers of the InspectionExtractorRegistry
          Barred,        \* reserved names and address literals
          PublicAddrs,   \* addresses that are not blocked
          OtherAddrs,    \* addresses that are
          MaxRedirects,  \* url_max_redirects
          MaxDepth       \* wrapper_resolution_max_depth

ASSUME ResolutionAssumption ==
    /\ Urls \subseteq [host : DOMAIN ProviderOf, scheme : {"https", "http"},
                       shape : {"main", "alias", "other"}]
    /\ \A u \in Urls : /\ ProviderOf[u.host] = NoOwner \/ ResolverOf[u.host] = NoOwner
                       /\ ProviderOf[ApexOf[u.host]] = ProviderOf[u.host]
                       /\ ApexOf[ApexOf[u.host]] = ApexOf[u.host]
    /\ MaxRedirects \in Nat /\ MaxDepth \in Nat \ {0}

VARIABLES task,      \* what runs: probe(), resolve(), inspect_draft() or nothing
          pc,        \* the await it is at
          submitted, \* its argument
          wrapper,   \* the wrapper URL the chain is at
          chain,     \* resolution_chain
          seen,      \* fingerprints of the wrappers visited
          fetch,     \* the client's loop: URL, method, redirects followed
          sent,      \* requests of that loop, in order
          lookups,   \* the two connect-time answers of the last request
          response,  \* an httpx response is open
          outcome,   \* the result, or the error
          target     \* the URL given to the extractor

resolutionVars == <<task, pc, submitted, wrapper, chain, seen, fetch, sent, lookups,
                    response, outcome, target>>

NoUrl == [host |-> NoOwner, scheme |-> "https", shape |-> "main"]
NoFetch == [url |-> NoUrl, method |-> "GET", hops |-> 0]
Failed == [kind |-> "error", url |-> NoUrl]
Answer(kind, u) == [kind |-> kind, url |-> u]

\* Exact hosts of the registration that owns the current wrapper.
Scope == {h \in DOMAIN ResolverOf : ResolverOf[h] = ResolverOf[wrapper.host]}

\* _with_stable_provider_identity: an alias becomes the canonical URL, scheme kept.
Canonical(u) == IF u.shape = "other" THEN u
                ELSE [u EXCEPT !.shape = "main", !.host = ApexOf[u.host]]

\* assert_addresses_allowed: no empty answer, no blocked address.
Allowed(addrs) == addrs # {} /\ addrs \subseteq PublicAddrs

\* What the DNS may answer; the empty set stands for every failure.
DnsAnswers == SUBSET (PublicAddrs \cup OtherAddrs)

-----------------------------------------------------------------------------
(* Tasks *)

ResolutionInit ==
    /\ task = "none" /\ pc = "idle" /\ submitted = NoUrl
    /\ wrapper = NoUrl /\ chain = <<>> /\ seen = {}
    /\ fetch = NoFetch /\ sent = <<>> /\ lookups = <<{}, {}>> /\ response = FALSE
    /\ outcome = Failed /\ target = NoUrl

\* A task begins at its first await, or is over before it ("none").
Begin(name, at, u, w, f) ==
    /\ task = "none"
    /\ task' = name /\ pc' = at /\ submitted' = u
    /\ wrapper' = w /\ chain' = <<>> /\ seen' = {}
    /\ fetch' = f /\ sent' = <<>> /\ response' = FALSE
    /\ outcome' = Failed /\ target' = NoUrl /\ lookups' = <<{}, {}>>

\* A task ends: the finally of the loop has closed its response.
End(result) ==
    /\ task' = "none" /\ pc' = "idle" /\ outcome' = result /\ response' = FALSE
    /\ UNCHANGED <<submitted, wrapper, chain, seen, fetch, sent, lookups, target>>

At(place) == pc = place

-----------------------------------------------------------------------------
(* SafeHTTPClient *)

\* probe: URLValidator refuses a name that is no provider's before any lookup.
Probe(u, method) ==
    IF u.host \in Barred \/ ProviderOf[u.host] = NoOwner
    THEN Begin("none", "idle", u, NoUrl, NoFetch)
    ELSE Begin("probe", "validate", u, NoUrl, [url |-> u, method |-> method, hops |-> 0])

\* The (method, URL) pair has not been tried by this loop.
Fresh(f) == \A i \in DOMAIN sent : sent[i] # [url |-> f.url, method |-> f.method]

\* The top of the loop: the attempt is new and the name is about to be looked up.
LoopTop(f) ==
    IF Fresh(f)
    THEN /\ pc' = "connect" /\ fetch' = f /\ response' = FALSE
         /\ UNCHANGED <<task, submitted, wrapper, chain, seen, sent, lookups, outcome, target>>
    ELSE End(Failed)

\* The redirect may lead to any provider.
ValidatedAnyProvider(addrs) ==
    /\ At("validate")
    /\ IF Allowed(addrs) THEN LoopTop(fetch) ELSE End(Failed)

\* URLValidator.validate, or the revalidation of a document's redirect, has its
\* answer: only public addresses, and the provider the probe began with.
Validated(addrs) ==
    /\ At("validate")
    /\ IF /\ Allowed(addrs)
          /\ task = "probe" => ProviderOf[fetch.url.host] = ProviderOf[submitted.host]
       THEN LoopTop(fetch)
       ELSE End(Failed)

\* _connect_time_dns_check and _send: two public answers that share an address,
\* then the request; the response is open.
Connected(pre, con) ==
    /\ At("connect")
    /\ IF Allowed(pre) /\ Allowed(con) /\ pre \cap con # {}
       THEN /\ sent' = Append(sent, [url |-> fetch.url, method |-> fetch.method])
            /\ lookups' = <<pre, con>> /\ response' = TRUE /\ pc' = "headers"
            /\ UNCHANGED <<task, submitted, wrapper, chain, seen, fetch, outcome, target>>
       ELSE End(Failed)

\* Locations the loop lets go to the validator: no downgrade, and for a document
\* a host of the resolver; URLValidator's checks without a lookup for a probe.
Followable(u) ==
    /\ ~(fetch.url.scheme = "https" /\ u.scheme = "http")
    /\ u.host \notin Barred
    /\ IF task = "probe" THEN ProviderOf[u.host] # NoOwner ELSE u.host \in Scope

\* len(hops) < max_redirects
UnderLimit == fetch.hops < MaxRedirects

\* A redirect: the response stays open while the location is validated.
\* 303 turns the method into GET.
Redirected(u, seeOther) ==
    /\ At("headers")
    /\ IF UnderLimit /\ Followable(u)
       THEN /\ pc' = "validate"
            /\ fetch' = [url |-> u, hops |-> fetch.hops + 1,
                         method |-> IF seeOther THEN "GET" ELSE fetch.method]
            /\ UNCHANGED <<task, submitted, wrapper, chain, seen, sent, lookups, response,
                           outcome, target>>
       ELSE End(Failed)

\* A status of head_fallback_statuses: the same URL with GET.
HeadRefused ==
    /\ At("headers") /\ task = "probe" /\ fetch.method = "HEAD"
    /\ LoopTop([fetch EXCEPT !.method = "GET"])

\* A success.  A GET reads its body, bounded, at another await.
HeadersRead ==
    /\ At("headers")
    /\ IF fetch.method = "HEAD"
       THEN End(Answer("probed", fetch.url))
       ELSE /\ pc' = "body"
            /\ UNCHANGED <<task, submitted, wrapper, chain, seen, fetch, sent, lookups,
                           response, outcome, target>>

\* The body of a probe ends the task.
ProbeRead == At("body") /\ task = "probe" /\ End(Answer("probed", fetch.url))

\* outbound_total_timeout_seconds, a timeout or an error of httpx, a bad status,
\* content type or length: every such error ends the task from inside the try.
FetchFails ==
    /\ pc \in {"validate", "connect", "headers", "body"}
    /\ End(Failed)

-----------------------------------------------------------------------------
(* ResolutionService *)

\* _resolve_inner: a provider's URL is validated, a wrapper's starts a chain and
\* any other host is refused without a lookup.
Resolve(u) ==
    IF u.host \in Barred \/ (ProviderOf[u.host] = NoOwner /\ ResolverOf[u.host] = NoOwner)
       \/ (ProviderOf[u.host] = NoOwner /\ u.scheme # "https")
    THEN Begin("none", "idle", u, NoUrl, NoFetch)
    ELSE IF ProviderOf[u.host] # NoOwner
    THEN Begin("resolve", "provider", u, NoUrl, [NoFetch EXCEPT !.url = u])
    ELSE Begin("resolve", "wrapper", u, u, NoFetch)

\* The fingerprint has not been seen.
NewWrapper(u) == u \notin seen

\* The URL's shape is the one the registration matches.
Matches(u) == u.shape = "main"

\* WrapperSafetyValidator.validate has its answer: the wrapper is new and its shape
\* is the resolver's; the resolver then fetches the document.
WrapperValidated(addrs) ==
    /\ At("wrapper")
    /\ IF Allowed(addrs) /\ NewWrapper(wrapper) /\ Matches(wrapper)
       THEN /\ seen' = seen \cup {wrapper}
            /\ pc' = "connect" /\ fetch' = [url |-> wrapper, method |-> "GET", hops |-> 0]
            /\ sent' = <<>>
            /\ UNCHANGED <<task, submitted, wrapper, chain, lookups, response, outcome, target>>
       ELSE End(Failed)

\* The check at the top of the chain's loop.
DeepEnough(links) == Len(links) >= MaxDepth

\* The document is read and names a candidate: a provider's URL ends the chain, a
\* wrapper's continues it, and any other ends in an error.
Candidate(u) ==
    LET links == Append(chain, [from |-> wrapper, to |-> u])
    IN /\ At("body") /\ task = "resolve"
       /\ IF u.scheme = "https" /\ ProviderOf[u.host] # NoOwner
          THEN /\ pc' = "provider" /\ chain' = links /\ response' = FALSE
               /\ fetch' = [NoFetch EXCEPT !.url = u]
               /\ UNCHANGED <<task, submitted, wrapper, seen, sent, lookups, outcome, target>>
          ELSE IF /\ u.scheme = "https" /\ ResolverOf[u.host] # NoOwner
                  /\ NewWrapper(u) /\ ~DeepEnough(links)
          THEN /\ pc' = "wrapper" /\ chain' = links /\ response' = FALSE /\ wrapper' = u
               /\ UNCHANGED <<task, submitted, seen, fetch, sent, lookups, outcome, target>>
          ELSE End(Failed)

\* The last link keeps the URL the document named.
ProviderValidatedAsNamed(addrs) ==
    /\ At("provider")
    /\ IF Allowed(addrs) /\ fetch.url.host \notin Barred
       THEN /\ task' = "none" /\ pc' = "idle"
            /\ outcome' = Answer("resolved", Canonical(fetch.url))
            /\ UNCHANGED <<submitted, wrapper, chain, seen, fetch, sent, lookups, response, target>>
       ELSE End(Failed)

\* URLValidator.validate of the provider's URL: the result is its canonical form,
\* and the chain's last link is made to agree with it.
ProviderValidated(addrs) ==
    /\ At("provider")
    /\ IF Allowed(addrs) /\ fetch.url.host \notin Barred
       THEN /\ task' = "none" /\ pc' = "idle"
            /\ outcome' = Answer("resolved", Canonical(fetch.url))
            /\ chain' = IF chain = <<>> THEN chain
                        ELSE [chain EXCEPT ![Len(chain)].to = Canonical(fetch.url)]
            /\ UNCHANGED <<submitted, wrapper, seen, fetch, sent, lookups, response, target>>
       ELSE End(Failed)

-----------------------------------------------------------------------------
(* MediaInspectionService *)

\* build_canonical_provider_url: https, whatever the visitor's scheme.
ToolUrl(u) == [Canonical(u) EXCEPT !.scheme = "https"]

\* inspect_draft, to the extractor's await: the provider has an extractor and the
\* path is a stable one.
Inspect ==
    /\ task = "none" /\ outcome.kind = "resolved"
    /\ IF /\ ProviderOf[outcome.url.host] \in Extractable
          /\ outcome.url.shape # "other"
       THEN /\ task' = "inspect" /\ pc' = "extract" /\ target' = ToolUrl(outcome.url)
            /\ outcome' = Failed
            /\ UNCHANGED <<submitted, wrapper, chain, seen, fetch, sent, lookups, response>>
       ELSE End(Failed)

\* The extractor's draft, accepted when it is about the target.
Extracted(u) ==
    /\ At("extract")
    /\ IF u = target THEN End(Answer("inspected", u)) ELSE End(Failed)

-----------------------------------------------------------------------------
Working == \/ \E a \in DnsAnswers : Validated(a) \/ WrapperValidated(a) \/ ProviderValidated(a)
           \/ \E a, b \in DnsAnswers : Connected(a, b)
           \/ \E u \in Urls, b \in BOOLEAN : Redirected(u, b)
           \/ HeadRefused \/ HeadersRead \/ ProbeRead \/ FetchFails
           \/ \E u \in Urls : Candidate(u) \/ Extracted(u)

ResolutionNext == \/ \E u \in Urls : (\E m \in {"HEAD", "GET"} : Probe(u, m)) \/ Resolve(u)
                  \/ Inspect
                  \/ Working

\* asyncio resumes a task whose await is over, and every await has a timeout.
ResolutionSpec == ResolutionInit /\ [][ResolutionNext]_resolutionVars /\ WF_resolutionVars(Working)

-----------------------------------------------------------------------------
(* Properties *)

\* Types; a URL of the loop is never of a barred name, and a response is open at
\* the await of a body or while a redirect is being validated (network/client.py).
ResolutionTypeOK ==
    /\ task \in {"none", "probe", "resolve", "inspect"}
    /\ pc \in {"idle", "validate", "connect", "headers", "body", "wrapper", "provider", "extract"}
    /\ (task = "none") <=> (pc = "idle")
    /\ \A u \in {submitted, wrapper, fetch.url} : u \in Urls \cup {NoUrl}
    /\ fetch.hops \in 0..MaxRedirects /\ fetch.method \in {"HEAD", "GET"}
    /\ seen \subseteq Urls
    /\ response = (pc \in {"headers", "body"} \/ (pc = "validate" /\ fetch.hops > 0))

\* Whatever servers answer, a request of a probe stays with the provider that was
\* submitted and one of a document with the hosts of the resolver, no request is
\* plain http after an https one, and the addresses seen just before it were all
\* public and agreed (SafeHTTPClient).
RequestsAreVetted ==
    /\ \A i \in DOMAIN sent :
          /\ IF ProviderOf[submitted.host] # NoOwner
             THEN ProviderOf[sent[i].url.host] = ProviderOf[submitted.host]
             ELSE ResolverOf[sent[i].url.host] \in {ResolverOf[w.host] : w \in seen}
          /\ \A j \in DOMAIN sent :
                j < i /\ sent[j].url.scheme = "https" => sent[i].url.scheme = "https"
    /\ \A n \in {1, 2} : lookups[n] \subseteq PublicAddrs
    /\ response => lookups[1] \cap lookups[2] # {}

\* A loop of the client is finite: no (method, URL) is requested twice, and there
\* are at most MaxRedirects redirects and one fallback to GET.
HopsAreBounded ==
    /\ Cardinality({sent[i] : i \in DOMAIN sent}) = Len(sent)
    /\ Len(sent) <= MaxRedirects + (IF \E i \in DOMAIN sent : sent[i].method = "HEAD" THEN 2 ELSE 1)

\* The resolution chain is a path: from the submitted URL, link by link, over wrappers
\* that differ, to the URL that is the result (ResolutionResult.resolution_chain).
ChainIsAPath ==
    /\ Len(chain) <= MaxDepth
    /\ chain # <<>> => chain[1].from = submitted
    /\ \A i \in 1..(Len(chain) - 1) : chain[i].to = chain[i + 1].from
    /\ Cardinality({chain[i].from : i \in DOMAIN chain}) = Len(chain)
    /\ outcome.kind = "resolved" /\ chain # <<>> => chain[Len(chain)].to = outcome.url

\* The extractor works on an https URL in canonical form, of the provider that was
\* submitted or that the last wrapper named, and a draft is only accepted for it.
ToolGetsTheCanonicalUrl ==
    /\ target # NoUrl =>
          /\ target.scheme = "https" /\ target.shape = "main" /\ Canonical(target) = target
          /\ ProviderOf[target.host] =
                ProviderOf[IF chain = <<>> THEN submitted.host ELSE chain[Len(chain)].to.host]
    /\ outcome.kind = "inspected" => outcome.url = target

\* Whatever servers answer, requests are confined and the loop is finite.
LookupsAreConfined == RequestsAreVetted /\ HopsAreBounded

\* However wrappers lead to each other, the tool is given the canonical URL of the
\* provider at the end of the recorded chain.
ToolGetsTheResolvedUrl == ChainIsAPath /\ ToolGetsTheCanonicalUrl

\* A lookup is over, with a result or an error, however servers redirect and documents
\* refer to each other.
LookupIsOver == task = "none"
=============================================================================
