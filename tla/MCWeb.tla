------------------------------- MODULE MCWeb -------------------------------
(***************************************************************************)
(* The web client on small instances: the flow of several submissions up   *)
(* to the ready phase, and the grants of the ready phase.  A behaviour is  *)
(* one of the two, chosen in its first state.                              *)
(***************************************************************************)
EXTENDS WebFlow, WebGrants

VARIABLE part    \* which of the two this behaviour is

allVars == <<flowVars, grantVars, part>>

MCInit == FlowInit /\ GrantsInit /\ part \in {"flow", "grants"}

Flow(A) == part = "flow" /\ A /\ UNCHANGED <<grantVars, part>>

Grants(A) == part = "grants" /\ A /\ UNCHANGED <<flowVars, part>>

MCNext == Flow(FlowNext) \/ Grants(GrantsNext)

MCSpec ==
    /\ MCInit /\ [][MCNext]_allVars
    /\ WF_allVars(Flow(Answers))

\* The screen tells the truth about the flow it shows: its job, its download, its link
\* and its tier, however late other answers come.
ScreenIsCoherent ==
    /\ FlowTypeOK /\ GrantsTypeOK
    /\ ShownBelongsToTheFlow /\ LinkIsTheLatest /\ PromotedIsTrue

\* The visitor is never stuck: a busy or working screen has something working behind
\* it, a ready one has a link, a button, or something on its way to one.
AlwaysAWayOn ==
    BusyIsDriven /\ WorkingIsDriven /\ ArmingIsOwned /\ NeverStranded /\ RefreshPrecedesExpiry
=============================================================================
