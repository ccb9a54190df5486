---------------------------- MODULE MCInspection ----------------------------
(***************************************************************************)
(* The inspection side on small instances: requests of the job API, the    *)
(* queue of one job and two workers, the resolution and inspection of a    *)
(* URL, and one run of an external tool.  A behaviour is one of the four,  *)
(* chosen in its first state.                                              *)
(***************************************************************************)
EXTENDS MediaJobQueue, JobRequests, SafeResolution, ToolRun

VARIABLE part    \* which of the four this behaviour is

allVars == <<vars, requestVars, resolutionVars, toolVars, part>>

\* Two hosts of one provider, a second provider without an extractor, two hosts of
\* one wrapper, a second wrapper, an unknown host and a barred one.
Hosts == {"video", "www.video", "clips", "preview", "m.preview", "short", "other", "local"}

MCProviderOf == [h \in Hosts |->
    CASE h \in {"video", "www.video"} -> "video" [] h = "clips" -> "clips" [] OTHER -> "none"]

MCResolverOf == [h \in Hosts |->
    CASE h \in {"preview", "m.preview"} -> "preview" [] h = "short" -> "short" [] OTHER -> "none"]

MCApexOf == [h \in Hosts |-> IF h = "www.video" THEN "video" ELSE h]

Link(h, scheme, shape) == [host |-> h, scheme |-> scheme, shape |-> shape]

MCUrls == {Link(h, "https", "main") : h \in Hosts}
          \cup {Link("video", "http", "main"), Link("www.video", "https", "alias"),
                Link("video", "https", "other"), Link("preview", "https", "other"),
                Link("short", "http", "main")}

MCInit == /\ Init /\ RequestInit /\ ResolutionInit /\ ToolInit
          /\ part \in {"queue", "requests", "resolution", "tool"}

Queue(A) == part = "queue" /\ A /\ UNCHANGED <<requestVars, resolutionVars, toolVars, part>>

Api(A) == part = "requests" /\ A /\ UNCHANGED <<vars, resolutionVars, toolVars, part>>

Resolution(A) == part = "resolution" /\ A /\ UNCHANGED <<vars, requestVars, toolVars, part>>

Tool(A) == part = "tool" /\ A /\ UNCHANGED <<vars, requestVars, resolutionVars, part>>

MCNext == Queue(Next) \/ Api(RequestNext) \/ Resolution(ResolutionNext) \/ Tool(ToolNext)

\* The fairness of the four specifications.
MCSpec ==
    /\ MCInit /\ [][MCNext]_allVars
    /\ WF_allVars(Queue(Tick))
    /\ \A w \in Workers :
         /\ WF_allVars(Queue(PollHygiene(w))) /\ WF_allVars(Queue(WindDown(w)))
         /\ WF_allVars(Queue(ClaimInspectionJobs(w)))
    /\ WF_allVars(Api(Served))
    /\ WF_allVars(Resolution(Working))
    /\ WF_allVars(Tool(Runner)) /\ WF_allVars(Tool(Writer))

\* Every state is well formed: types; the CHECK constraints of media_jobs; and an
\* attempt left for every queued row.
WellFormed ==
    /\ TypeOK /\ CheckConstraints /\ QueuedHasBudget
    /\ RequestTypeOK /\ ResolutionTypeOK /\ ToolTypeOK

\* Whatever is begun comes to an end: a job past its TTL is expired, a job of a dead
\* worker is taken from it, and a request, a lookup and a run of a tool end.  (What a
\* behaviour does not contain is over from the start, and what is over of a queue
\* stays over when time has ended.)
EverythingEnds ==
    []<>(/\ DueJobsAreExpired /\ OrphansAreRecovered
         /\ RequestsAreAnswered /\ LookupIsOver /\ RunIsOver)
=============================================================================
