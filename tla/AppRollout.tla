----------------------------- MODULE AppRollout -----------------------------
(***************************************************************************)
(* The application deployment transaction: rollout_release with its        *)
(* automatic rollback and bootstrap cleanup, and recover_deployment.       *)
(* Every journal event is a step of its own, together with the container   *)
(* operation that follows it, because a crash may come between any two.    *)
(***************************************************************************)
EXTENDS ReleaseState

rolloutOnly == <<migrations, bootstraps, configs, backups, made, live, ops>>

Dep(p) == deployments[proc[p].id]

\* Everything before the first container is touched.
BeforeMutation == {"none", "planned", "initializing_storage"}

\* The health gate can only succeed when both tiers run the release's images.
Runs(release) == app = release /\ gateway = release

\* What activate_app_tier may leave when it fails half-way.
HalfActivated(release) == {app, release, Mixed}

-----------------------------------------------------------------------------
(* rollout_release                                                         *)

\* Checks made before the lock: target and current release verify, and the
\* first rollout needs --bootstrap.
RolloutStart(p, release, bootstrap) ==
    /\ Resolvable(current)
    /\ current = None => bootstrap
    /\ Start(p, "rollout", release, IF bootstrap THEN "bootstrap" ELSE "upgrade",
             0, None)
    /\ UNCHANGED <<hostVars, journalVars, backupVars, config, rolloutLock,
                   backupLock, faults>>

\* The gates under the lock.
RolloutAllowed(release, bootstrap) ==
    /\ ~Blocked
    /\ Resolvable(current)
    /\ IF bootstrap
       THEN /\ current = None
            /\ app = None /\ gateway = None
            /\ live = SourceHeads[release]
       ELSE /\ current # None
            /\ current.app # release
            /\ live = current.heads
            /\ Compatible(release, SourceHeads[release], current)

\* The gates pass and plan.json is written.
RolloutPlan(p) ==
    LET release == proc[p].rel
        bootstrap == proc[p].act = "bootstrap" IN
    /\ At(p, "rollout", "lock")
    /\ rolloutLock = None
    /\ RolloutAllowed(release, bootstrap)
    /\ deployments' = Append(deployments,
         [target |-> release, heads |-> live, status |-> "none",
          prev |-> IF current = None THEN None ELSE current.app,
          result |-> "none", resolved |-> FALSE])
    /\ proc' = [proc EXCEPT ![p].pc = "run", ![p].id = Len(deployments) + 1]
    /\ rolloutLock' = p
    /\ UNCHANGED <<current, app, gateway, config, rolloutOnly, backupLock, faults>>

\* A gate refuses, or the release is already active and only its health is
\* verified: nothing is written.
RolloutRefused(p) ==
    /\ At(p, "rollout", "lock")
    /\ rolloutLock = None
    /\ ~RolloutAllowed(proc[p].rel, proc[p].act = "bootstrap")
    /\ Leave(p)
    /\ UNCHANGED <<hostVars, journalVars, backupVars, config, ops, faults>>

\* The next event of a deployment that goes well.
NextEvent(dep) ==
    CASE dep.status = "none" -> "planned"
      [] dep.status = "planned" ->
           IF dep.target \in StorageInit THEN "initializing_storage"
                                         ELSE "activating_app"
      [] dep.status = "initializing_storage" -> "activating_app"
      [] dep.status = "activating_app" -> "app_healthy"
      [] dep.status = "app_healthy" -> "activating_gateway"
      [] dep.status = "activating_gateway" -> "stabilizing"

\* append_event and the operation it announces: storage-init, `compose up' of
\* the application tier, its health wait, `compose up' of the gateway.
RolloutAdvance(p) ==
    LET event == NextEvent(Dep(p)) IN
    /\ At(p, "rollout", "run")
    /\ Dep(p).status # "stabilizing"
    /\ event \in DeployLegal[Dep(p).status]
    /\ deployments' = [deployments EXCEPT ![proc[p].id].status = event]
    /\ app' = IF event = "activating_app" THEN Dep(p).target ELSE app
    /\ gateway' = IF event = "activating_gateway" THEN Dep(p).target ELSE gateway
    /\ config' = IF event \in {"activating_app", "activating_gateway"}
                 THEN Recreated ELSE config
    /\ UNCHANGED <<current, rolloutOnly, proc, rolloutLock, backupLock, faults>>

\* stabilize_full_health succeeds.
RolloutStable(p) ==
    /\ At(p, "rollout", "run")
    /\ Dep(p).status = "stabilizing"
    /\ Runs(Dep(p).target)
    /\ Goto(p, "publish")
    /\ UNCHANGED <<hostVars, journalVars, backupVars, config, ops, faults>>

\* The document a committed rollout publishes.
CommittedState(id) ==
    LET dep == deployments[id] IN
    IF current = None THEN FirstState(dep.target, dep.heads, id)
                      ELSE AfterApp(current, dep.target, id)

\* write_current_state, then the committed event, then result.json.
RolloutPublish(p) ==
    /\ At(p, "rollout", "publish")
    /\ current' = CommittedState(proc[p].id)
    /\ Goto(p, "commit")
    /\ UNCHANGED <<app, gateway, deployments, config, rolloutOnly, faults>>

RolloutCommit(p) ==
    /\ At(p, "rollout", "commit")
    /\ deployments' = [deployments EXCEPT ![proc[p].id].status = "committed"]
    /\ Goto(p, "result")
    /\ UNCHANGED <<current, app, gateway, config, rolloutOnly, faults>>

RolloutResult(p) ==
    /\ At(p, "rollout", "result")
    /\ deployments' = [deployments EXCEPT ![proc[p].id].result = "committed"]
    /\ Leave(p)
    /\ UNCHANGED <<current, app, gateway, config, rolloutOnly, faults>>

\* An error inside the try block: the event may have been written and the
\* operation may have had part of its effect.
RolloutError(p) ==
    LET dep == Dep(p)
        events == IF proc[p].pc = "run" /\ dep.status # "stabilizing"
                  THEN {NextEvent(dep)} ELSE {} IN
    /\ proc[p].op = "rollout"
    /\ proc[p].pc \in {"run", "publish", "commit", "result"}
    /\ dep.status # "none"
    /\ Fault
    /\ \E event \in {dep.status} \union events :
         /\ deployments' = [deployments EXCEPT ![proc[p].id].status = event]
         /\ app' \in IF event = "activating_app" /\ event # dep.status
                     THEN HalfActivated(dep.target) ELSE {app}
         /\ gateway' \in IF event = "activating_gateway" /\ event # dep.status
                         THEN {gateway, dep.target} ELSE {gateway}
    /\ Goto(p, "failed")
    /\ config' \in {config, Recreated}
    /\ UNCHANGED <<current, rolloutOnly>>

\* An error before the try block (first event, image override) leaves the
\* journal as it is.
RolloutErrorEarly(p) ==
    /\ At(p, "rollout", "run")
    /\ Dep(p).status \in {"none", "planned"}
    /\ Fault
    /\ Leave(p)
    /\ UNCHANGED <<hostVars, journalVars, backupVars, config, ops>>

-----------------------------------------------------------------------------
(* The exception handler of rollout_release                                *)

\* Nothing was mutated: terminal failed.
RolloutFailed(p) ==
    /\ At(p, "rollout", "failed")
    /\ Dep(p).status \in BeforeMutation
    /\ deployments' = [deployments EXCEPT ![proc[p].id].status = "failed",
                                          ![proc[p].id].result = "failed"]
    /\ Leave(p)
    /\ UNCHANGED <<current, app, gateway, config, rolloutOnly, faults>>

\* The handler's first event is not legal after `committed': the error leaves
\* rollout_release and the journal keeps no result.
HandlerRefused(p) ==
    /\ At(p, "rollout", "failed")
    /\ Dep(p).status = "committed"
    /\ Leave(p)
    /\ UNCHANGED <<hostVars, journalVars, backupVars, config, ops, faults>>

CleanupStart(p) ==
    /\ At(p, "rollout", "failed")
    /\ proc[p].act = "bootstrap"
    /\ Dep(p).status \notin BeforeMutation \union {"committed"}
    /\ deployments' = [deployments EXCEPT
                         ![proc[p].id].status = "bootstrap_cleanup_started"]
    /\ Goto(p, "cleanup")
    /\ UNCHANGED <<current, app, gateway, config, rolloutOnly, faults>>

\* remove_owned_bootstrap_containers; none found, or a removal that fails, is
\* an error and leaves no result.
CleanupRemove(p) ==
    /\ At(p, "rollout", "cleanup")
    /\ \/ /\ <<app, gateway>> # <<None, None>>
          /\ app' = None /\ gateway' = None
          /\ Goto(p, "cleaned")
          /\ UNCHANGED faults
       \/ /\ <<app, gateway>> = <<None, None>>
          /\ Leave(p)
          /\ UNCHANGED <<app, gateway, faults>>
       \/ /\ Fault
          /\ app' \in {app, None} /\ gateway' \in {gateway, None}
          /\ Leave(p)
    /\ UNCHANGED <<current, deployments, config, rolloutOnly>>

\* publish_bootstrap_failed_after_cleanup
CleanupPublish(p) ==
    /\ At(p, "rollout", "cleaned")
    /\ deployments' = [deployments EXCEPT ![proc[p].id].status = "failed",
                                          ![proc[p].id].result = "failed"]
    /\ Leave(p)
    /\ UNCHANGED <<current, app, gateway, config, rolloutOnly, faults>>

RollbackStart(p) ==
    /\ At(p, "rollout", "failed")
    /\ proc[p].act = "upgrade"
    /\ Dep(p).status \notin BeforeMutation
    /\ "rollback_started" \in DeployLegal[Dep(p).status]
    /\ deployments' = [deployments EXCEPT ![proc[p].id].status = "rollback_started"]
    /\ Goto(p, "rollback")
    /\ UNCHANGED <<current, app, gateway, config, rolloutOnly, faults>>

\* Mutant: the gateway is left on the target.
RollbackSkipsGateway(p) ==
    /\ At(p, "rollout", "rollback_gateway")
    /\ deployments' = [deployments EXCEPT ![proc[p].id].status = "rolled_back"]
    /\ Goto(p, "rollback_result")
    /\ UNCHANGED <<current, app, gateway, config, rolloutOnly, faults>>

\* The gates both rollbacks pass before they touch a container.
RollbackAllowed(dep) ==
    /\ dep.prev # None
    /\ current # None
    /\ Resolvable(current)
    /\ live = current.heads
    /\ Compatible(dep.prev, SourceHeads[dep.prev], current)

\* _perform_rollback: application tier, gateway, health, event and result.
RollbackApp(p) ==
    /\ At(p, "rollout", "rollback")
    /\ RollbackAllowed(Dep(p))
    /\ app' = Dep(p).prev
    /\ Goto(p, "rollback_gateway")
    /\ config' = Recreated
    /\ UNCHANGED <<current, gateway, deployments, rolloutOnly, faults>>

RollbackGateway(p) ==
    /\ At(p, "rollout", "rollback_gateway")
    /\ gateway' = Dep(p).prev
    /\ deployments' = [deployments EXCEPT ![proc[p].id].status = "rolled_back"]
    /\ Goto(p, "rollback_result")
    /\ config' = Recreated
    /\ UNCHANGED <<current, app, rolloutOnly, faults>>

RollbackResult(p) ==
    /\ At(p, "rollout", "rollback_result")
    /\ deployments' = [deployments EXCEPT ![proc[p].id].result = "rolled_back"]
    /\ Leave(p)
    /\ UNCHANGED <<current, app, gateway, config, rolloutOnly, faults>>

\* A failure of the rollback itself, or a gate that refuses it.
RollbackError(p) ==
    /\ proc[p].op = "rollout"
    /\ proc[p].pc \in {"rollback", "rollback_gateway", "rollback_result"}
    /\ IF proc[p].pc = "rollback" /\ ~RollbackAllowed(Dep(p))
       THEN UNCHANGED <<app, gateway, faults>>
       ELSE /\ Fault
            /\ app' \in IF proc[p].pc = "rollback"
                        THEN HalfActivated(Dep(p).prev) ELSE {app}
            /\ gateway' \in IF proc[p].pc = "rollback_gateway"
                            THEN {gateway, Dep(p).prev} ELSE {gateway}
    /\ Goto(p, "rollback_failed")
    /\ config' \in {config, Recreated}
    /\ UNCHANGED <<current, deployments, rolloutOnly>>

\* rollback_failed is recorded; after `rolled_back' the event is illegal, the
\* error is swallowed and the journal keeps no result.
RollbackFailed(p) ==
    /\ At(p, "rollout", "rollback_failed")
    /\ deployments' =
         IF "rollback_failed" \in DeployLegal[Dep(p).status]
         THEN [deployments EXCEPT ![proc[p].id].status = "rollback_failed",
                                  ![proc[p].id].result = "rollback_failed"]
         ELSE deployments
    /\ Leave(p)
    /\ UNCHANGED <<current, app, gateway, config, rolloutOnly, faults>>

-----------------------------------------------------------------------------
(* recover_deployment                                                      *)

RecoverStart(p, id, action) ==
    /\ id \in DOMAIN deployments
    /\ Start(p, "recover", None, action, id, None)
    /\ UNCHANGED <<hostVars, journalVars, backupVars, config, rolloutLock,
                   backupLock, faults>>

\* A journal that recovery may work on.
Recoverable(dep) ==
    \/ dep.result = "none"
    \/ dep.result = "rollback_failed" /\ ~dep.resolved

\* Without a result the stabilizing event is tried and its refusal ignored;
\* a failed rollback gets a recovery sub-journal.
RecoverBegin(p) ==
    /\ At(p, "recover", "lock")
    /\ rolloutLock = None
    /\ UnresolvedMigrations = {}
    /\ Recoverable(Dep(p))
    /\ rolloutLock' = p
    /\ proc' = [proc EXCEPT ![p].pc = proc[p].act]
    /\ deployments' =
         IF Dep(p).result = "none" /\ "stabilizing" \in DeployLegal[Dep(p).status]
         THEN [deployments EXCEPT ![proc[p].id].status = "stabilizing"]
         ELSE deployments
    /\ UNCHANGED <<current, app, gateway, config, rolloutOnly, backupLock, faults>>

RecoverRefused(p) ==
    /\ At(p, "recover", "lock")
    /\ rolloutLock = None
    /\ UnresolvedMigrations # {} \/ ~Recoverable(Dep(p))
    /\ Leave(p)
    /\ UNCHANGED <<hostVars, journalVars, backupVars, config, ops, faults>>

\* _execute_accept_target: the target must already run healthily on the heads
\* of the plan; current.json is published.
AcceptAllowed(dep) ==
    /\ live = dep.heads
    /\ IF current = None THEN dep.prev = None /\ live = SourceHeads[dep.target]
       ELSE /\ Resolvable(current)
            /\ live = current.heads
            /\ Compatible(dep.target, SourceHeads[dep.target], current)
    /\ Runs(dep.target)

RecoverAccept(p) ==
    /\ At(p, "recover", "accept_target")
    /\ AcceptAllowed(Dep(p))
    /\ current' = CommittedState(proc[p].id)
    /\ Goto(p, "resolve")
    /\ UNCHANGED <<app, gateway, deployments, config, rolloutOnly, faults>>

\* _execute_rollback, in the order gates, application tier, gateway and
\* health, current.json.
RecoverRollbackApp(p) ==
    /\ At(p, "recover", "rollback")
    /\ RollbackAllowed(Dep(p))
    /\ app' = Dep(p).prev
    /\ Goto(p, "rollback_gateway")
    /\ config' = Recreated
    /\ UNCHANGED <<current, gateway, deployments, rolloutOnly, faults>>

RecoverRollbackGateway(p) ==
    /\ At(p, "recover", "rollback_gateway")
    /\ gateway' = Dep(p).prev
    /\ Goto(p, "rollback_publish")
    /\ config' = Recreated
    /\ UNCHANGED <<current, app, deployments, rolloutOnly, faults>>

RecoverRollbackPublish(p) ==
    /\ At(p, "recover", "rollback_publish")
    /\ current' = IF current.app = Dep(p).prev THEN current
                  ELSE [current EXCEPT !.app = Dep(p).prev, !.stamp = NextStamp,
                                       !.deployment = proc[p].id]
    /\ Goto(p, "resolve")
    /\ UNCHANGED <<app, gateway, deployments, config, rolloutOnly, faults>>

\* The status a successful recovery records.
RecoveredStatus(p) ==
    IF proc[p].act = "accept_target" THEN "committed" ELSE "rolled_back"

\* The sub-journal of a failed rollback is resolved; a journal without result
\* gets its terminal event if LEGAL_TRANSITIONS allows it, and the error
\* leaves recover_deployment otherwise.
RecoverResolve(p) ==
    /\ At(p, "recover", "resolve")
    /\ IF Dep(p).result = "rollback_failed"
       THEN /\ deployments' = [deployments EXCEPT ![proc[p].id].resolved = TRUE]
            /\ Leave(p)
       ELSE IF RecoveredStatus(p) \in DeployLegal[Dep(p).status]
       THEN /\ deployments' = [deployments EXCEPT
                                 ![proc[p].id].status = RecoveredStatus(p)]
            /\ Goto(p, "result")
       ELSE deployments' = deployments /\ Leave(p)
    /\ UNCHANGED <<current, app, gateway, config, rolloutOnly, faults>>

RecoverResult(p) ==
    /\ At(p, "recover", "result")
    /\ deployments' = [deployments EXCEPT ![proc[p].id].result = RecoveredStatus(p)]
    /\ Leave(p)
    /\ UNCHANGED <<current, app, gateway, config, rolloutOnly, faults>>

\* A gate refuses, or a step fails: the journal stays unresolved.
RecoverError(p) ==
    LET refused == \/ At(p, "recover", "accept_target") /\ ~AcceptAllowed(Dep(p))
                   \/ At(p, "recover", "rollback") /\ ~RollbackAllowed(Dep(p)) IN
    /\ proc[p].op = "recover"
    /\ proc[p].pc \notin {"lock", "idle"}
    /\ \/ refused /\ UNCHANGED <<app, gateway, faults>>
       \/ /\ Fault
          /\ app' \in IF proc[p].pc = "rollback" /\ Dep(p).prev # None
                      THEN HalfActivated(Dep(p).prev) ELSE {app}
          /\ gateway' \in IF proc[p].pc = "rollback_gateway"
                          THEN {gateway, Dep(p).prev} ELSE {gateway}
    /\ Leave(p)
    /\ config' \in {config, Recreated}
    /\ UNCHANGED <<current, deployments, rolloutOnly>>

-----------------------------------------------------------------------------
RolloutNext(p) ==
    \/ \E r \in Releases, b \in BOOLEAN : RolloutStart(p, r, b)
    \/ RolloutPlan(p) \/ RolloutRefused(p) \/ RolloutAdvance(p)
    \/ RolloutStable(p) \/ RolloutPublish(p) \/ RolloutCommit(p)
    \/ RolloutResult(p) \/ RolloutError(p) \/ RolloutErrorEarly(p)
    \/ RolloutFailed(p) \/ HandlerRefused(p)
    \/ CleanupStart(p) \/ CleanupRemove(p) \/ CleanupPublish(p)
    \/ RollbackStart(p) \/ RollbackApp(p) \/ RollbackGateway(p)
    \/ RollbackResult(p) \/ RollbackError(p) \/ RollbackFailed(p)

RecoverNext(p) ==
    \/ \E id \in DOMAIN deployments, a \in {"accept_target", "rollback"} :
         RecoverStart(p, id, a)
    \/ RecoverBegin(p) \/ RecoverRefused(p) \/ RecoverAccept(p)
    \/ RecoverRollbackApp(p) \/ RecoverRollbackGateway(p)
    \/ RecoverRollbackPublish(p) \/ RecoverResolve(p) \/ RecoverResult(p)
    \/ RecoverError(p)
=============================================================================
