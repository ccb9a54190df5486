----------------------------- MODULE JobRequests -----------------------------
(***************************************************************************)
(* The API of inspection jobs: POST /media/jobs with the client's own      *)
(* bearer token as idempotency key, and GET /media/jobs/{id}.  Requests    *)
(* run concurrently, each in its transaction; resolving the URL lies       *)
(* between the lookup and the insert.  A client whose answer is lost sends *)
(* the request again.                                                      *)
(***************************************************************************)
EXTENDS Integers, FiniteSets

CONSTANTS Requests, Tokens, Links, NoJob

\* A job is named by the request that made it.
ASSUME RequestAssumption == NoJob \notin Requests

VARIABLES post,     \* request -> where it is, its token and its normalized URL
          answer,   \* request -> what the client was told
          jobs,     \* token -> committed row: the request that made it, its URL
          pending,  \* token -> the uncommitted row's request
          expired,  \* tokens whose job is past its TTL
          read      \* the last answer to a GET

requestVars == <<post, answer, jobs, pending, expired, read>>

NoRow == [by |-> NoJob, link |-> NoJob]
Silence == [kind |-> "none", job |-> NoJob]
Told(kind, job) == [kind |-> kind, job |-> job]

RequestInit ==
    /\ post = [r \in Requests |-> [pc |-> "idle", token |-> NoJob, link |-> NoJob]]
    /\ answer = [r \in Requests |-> Silence]
    /\ jobs = [t \in Tokens |-> NoRow] /\ pending = [t \in Tokens |-> NoJob]
    /\ expired = {} /\ read = [token |-> NoJob, told |-> Silence]

Go(r, pc) == post' = [post EXCEPT ![r].pc = pc]

\* The request is answered and its session closed.
Tell(r, told) == Go(r, "done") /\ answer' = [answer EXCEPT ![r] = told]

Row(r) == jobs[post[r].token]

\* A well-formed token; a malformed one is refused before anything is read.
Post(r, t, u) ==
    /\ post[r].pc = "idle"
    /\ post' = [post EXCEPT ![r] = [pc |-> "lookup", token |-> t, link |-> u]]
    /\ UNCHANGED <<answer, jobs, pending, expired, read>>

\* The token alone decides.
ExistingByToken(r) == Told("job", Row(r).by)

\* An existing row is the answer when the fingerprint, of token and normalized URL,
\* is the same.
Existing(r) == IF Row(r).link = post[r].link THEN Told("job", Row(r).by)
                                              ELSE Told("conflict", NoJob)

\* get_by_credential_hash before anything is resolved.
Lookup(r) ==
    /\ post[r].pc = "lookup"
    /\ IF Row(r) # NoRow THEN Tell(r, Existing(r)) ELSE Go(r, "resolve") /\ UNCHANGED answer
    /\ UNCHANGED <<jobs, pending, expired, read>>

\* resolve, the inspection registry and the media identity: refused, or on to the insert.
Resolved(r) ==
    /\ post[r].pc = "resolve"
    /\ (Go(r, "insert") /\ UNCHANGED answer) \/ Tell(r, Told("error", NoJob))
    /\ UNCHANGED <<jobs, pending, expired, read>>

\* enqueue_or_get: the unique index makes an insert wait for another transaction's
\* row; the savepoint of a refused one is left for the row that was there first.
Insert(r) ==
    /\ post[r].pc = "insert"
    /\ pending[post[r].token] = NoJob
    /\ IF Row(r) # NoRow
       THEN Tell(r, Existing(r)) /\ UNCHANGED pending
       ELSE /\ pending' = [pending EXCEPT ![post[r].token] = r]
            /\ Go(r, "commit") /\ UNCHANGED answer
    /\ UNCHANGED <<jobs, expired, read>>

\* The commit, and the answer or its loss.
Commit(r) ==
    /\ post[r].pc = "commit"
    /\ jobs' = [jobs EXCEPT ![post[r].token] = [by |-> r, link |-> post[r].link]]
    /\ pending' = [pending EXCEPT ![post[r].token] = NoJob]
    /\ Tell(r, Told("job", r)) \/ Tell(r, Told("lost", r))
    /\ UNCHANGED <<expired, read>>

\* The database or the server fails before the commit.
Rollback(r) ==
    /\ post[r].pc = "commit" /\ Tell(r, Told("error", NoJob))
    /\ pending' = [pending EXCEPT ![post[r].token] = NoJob]
    /\ UNCHANGED <<jobs, expired, read>>

\* The job's TTL passes.
PastTtl(t) == /\ jobs[t] # NoRow /\ expired' = expired \cup {t}
              /\ UNCHANGED <<post, answer, jobs, pending, read>>

\* tokens_match(job.credential_hash, credential_hash)
Owns(t, id) == jobs[t] # NoRow /\ jobs[t].by = id

\* get_job: an unknown id and one of another token are the same 404.
Get(t, id) ==
    /\ read' = [token |-> t,
                told |-> IF ~Owns(t, id) THEN Told("not_found", NoJob)
                         ELSE IF t \in expired THEN Told("expired", NoJob)
                         ELSE Told("job", id)]
    /\ UNCHANGED <<post, answer, jobs, pending, expired>>

Serve(r) == Lookup(r) \/ Resolved(r) \/ Insert(r) \/ Commit(r) \/ Rollback(r)

Served == \E r \in Requests : Serve(r)

RequestNext ==
    \/ Served \/ \E r \in Requests, t \in Tokens, u \in Links : Post(r, t, u)
    \/ \E t \in Tokens : PastTtl(t) \/ \E id \in Requests : Get(t, id)

\* The server goes on with the requests it has accepted.
RequestSpec == RequestInit /\ [][RequestNext]_requestVars /\ WF_requestVars(Served)

-----------------------------------------------------------------------------
(* Properties *)

\* Types, and a pending row is the one of the request about to commit it.
RequestTypeOK ==
    /\ \A r \in Requests :
         /\ post[r].pc \in {"idle", "lookup", "resolve", "insert", "commit", "done"}
         /\ (post[r].pc = "done") <=> (answer[r] # Silence)
    /\ \A t \in Tokens :
         pending[t] # NoJob =>
             /\ post[pending[t]].pc = "commit" /\ post[pending[t]].token = t
             /\ jobs[t] = NoRow

\* A token buys one job: every request with it that was told of a job, or whose answer
\* was lost after the commit, was told of the same one, for the URL it had sent; and
\* a conflict is only reported when the token is used for another URL (create_job).
\* A job is only shown to the token that made it (get_job).
OneJobPerToken ==
    \A r \in Requests :
        /\ answer[r].kind \in {"job", "lost"} =>
              jobs[post[r].token] = [by |-> answer[r].job, link |-> post[r].link]
        /\ answer[r].kind = "conflict" => Row(r) # NoRow /\ Row(r).link # post[r].link
        /\ read.told.kind = "job" => jobs[read.token].by = read.told.job

\* Every request is answered, also one that waits for another's transaction.
RequestsAreAnswered == \A r \in Requests : post[r].pc \in {"idle", "done"}
=============================================================================
