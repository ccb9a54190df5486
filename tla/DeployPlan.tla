----------------------------- MODULE DeployPlan -----------------------------
(***************************************************************************)
(* run_deploy_plan: the read-only answer to "what would it take to run     *)
(* this release here?", computed without a lock from the journals, the     *)
(* saved state and the live database.                                      *)
(***************************************************************************)
EXTENDS ReleaseState

\* inspect_bootstrap_freshness and classify_healthy_postgres_schema.
Freshness ==
    IF app # None \/ gateway # None THEN "application_present"
    ELSE IF live = NoSchema THEN "uninitialized"
    ELSE "initialized"

\* find_matching_committed_bootstrap
CommittedBootstrap(release) ==
    \E i \in DOMAIN bootstraps :
      bootstraps[i].target = release /\ bootstraps[i].result = "committed"

\* _plan_initial_bootstrap
InitialPlan(release) ==
    IF UnresolvedDeployments # {} \/ UnresolvedBootstraps # {} THEN "refused"
    ELSE IF Freshness = "uninitialized" THEN "bootstrap"
    ELSE IF /\ Freshness = "initialized"
            /\ live = SourceHeads[release]
            /\ CommittedBootstrap(release)
         THEN "first_rollout"
    ELSE "refused"

\* run_deploy_plan: refused, nothing to do, roll out, or migrate first.
Plan(release) ==
    IF UnresolvedMigrations # {} \/ ~Resolvable(current) THEN "refused"
    ELSE IF current = None THEN InitialPlan(release)
    ELSE IF live # current.heads THEN "refused"
    ELSE IF live = SourceHeads[release]
         THEN IF release = current.app THEN "nothing" ELSE "rollout"
    ELSE IF <<live, SourceHeads[release]>> \in Transitions THEN "migrate"
    ELSE "refused"
=============================================================================
