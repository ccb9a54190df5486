---------------------------- MODULE DbBootstrap ----------------------------
(***************************************************************************)
(* run_bootstrap_db: the first schema of an empty database, journalled so  *)
(* that a second call with the same release resumes an interrupted one.    *)
(***************************************************************************)
EXTENDS ReleaseState

bootstrapOnly == <<current, app, gateway, deployments, migrations, configs,
                   config, backups, made, ops>>

Boot(p) == bootstraps[proc[p].id]
SetBoot(p, s) == bootstraps' = [bootstraps EXCEPT ![proc[p].id].status = s]

\* BOOTSTRAP_LEGAL_TRANSITIONS
BootLegal(from, to) ==
    <<from, to>> \in
      {<<"none", "planned">>,
       <<"planned", "postgres_started">>, <<"planned", "freshness_verified">>,
       <<"planned", "failed">>,
       <<"postgres_started", "freshness_verified">>,
       <<"postgres_started", "failed">>,
       <<"postgres_started", "requires_recovery">>,
       <<"freshness_verified", "schema_started">>,
       <<"freshness_verified", "committed">>, <<"freshness_verified", "failed">>,
       <<"schema_started", "schema_completed">>,
       <<"schema_started", "requires_recovery">>,
       <<"schema_completed", "target_heads_verified">>,
       <<"schema_completed", "requires_recovery">>,
       <<"target_heads_verified", "committed">>,
       <<"target_heads_verified", "requires_recovery">>}

BootstrapStart(p, release) ==
    /\ current = None
    /\ Start(p, "bootstrap", release, "pre_schema", 0, None)
    /\ UNCHANGED <<hostVars, journalVars, backupVars, config, rolloutLock,
                   backupLock, faults>>

\* _require_current_absent, _require_no_unresolved, no application container.
BootstrapAllowed ==
    /\ current = None
    /\ UnresolvedDeployments = {} /\ UnresolvedMigrations = {}
    /\ app = None /\ gateway = None

\* A single unresolved journal of the same release is resumed; otherwise the
\* database must be empty and no committed journal may exist.
Resumes(release) ==
    \E i \in UnresolvedBootstraps :
      UnresolvedBootstraps = {i} /\ bootstraps[i].target = release
StartsAfresh(release) ==
    /\ UnresolvedBootstraps = {}
    /\ ~\E i \in DOMAIN bootstraps :
          bootstraps[i].target = release /\ bootstraps[i].result = "committed"
    /\ live = NoSchema

BootstrapOpen(p) ==
    LET release == proc[p].rel IN
    /\ At(p, "bootstrap", "lock")
    /\ rolloutLock = None
    /\ BootstrapAllowed
    /\ \/ /\ Resumes(release)
          /\ proc' = [proc EXCEPT ![p].pc = "inspect",
                        ![p].id = CHOOSE i \in UnresolvedBootstraps : TRUE]
          /\ UNCHANGED bootstraps
       \/ /\ StartsAfresh(release)
          /\ bootstraps' = Append(bootstraps,
               [target |-> release, status |-> "none", result |-> "none"])
          /\ proc' = [proc EXCEPT ![p].pc = "plan", ![p].id = Len(bootstraps) + 1]
    /\ rolloutLock' = p
    /\ UNCHANGED <<live, bootstrapOnly, backupLock, faults>>

\* Refused, or committed before and only verified.
BootstrapRefused(p) ==
    /\ At(p, "bootstrap", "lock")
    /\ rolloutLock = None
    /\ ~(BootstrapAllowed /\ (Resumes(proc[p].rel) \/ StartsAfresh(proc[p].rel)))
    /\ Leave(p)
    /\ UNCHANGED <<hostVars, journalVars, backupVars, config, ops, faults>>

BootstrapPlanned(p) ==
    /\ At(p, "bootstrap", "plan")
    /\ SetBoot(p, "planned")
    /\ Goto(p, "inspect")
    /\ UNCHANGED <<live, bootstrapOnly, faults>>

\* start_postgres_only, when postgres is not healthy yet.
BootstrapPostgres(p) ==
    /\ At(p, "bootstrap", "inspect")
    /\ Boot(p).status = "planned"
    /\ SetBoot(p, "postgres_started")
    /\ UNCHANGED <<live, bootstrapOnly, proc, rolloutLock, backupLock, faults>>

\* The database already carries the target's heads: the journal is closed.
\* A result that is already there is kept.
BootstrapAdopt(p) ==
    /\ At(p, "bootstrap", "inspect")
    /\ live = SourceHeads[proc[p].rel]
    /\ bootstraps' = [bootstraps EXCEPT
         ![proc[p].id].status =
            IF @ \in {"planned", "postgres_started", "freshness_verified"}
            THEN "committed" ELSE @,
         ![proc[p].id].result = IF @ = "none" THEN "committed" ELSE @]
    /\ Leave(p)
    /\ UNCHANGED <<live, bootstrapOnly, faults>>

BootstrapFresh(p) ==
    /\ At(p, "bootstrap", "inspect")
    /\ live = NoSchema
    /\ bootstraps' = [bootstraps EXCEPT ![proc[p].id].status =
         IF @ \in {"planned", "postgres_started"} THEN "freshness_verified" ELSE @]
    /\ Goto(p, "schema")
    /\ UNCHANGED <<live, bootstrapOnly, faults>>

\* schema_started is announced unless a resumed journal is past it; Alembic
\* runs in any case.
BootstrapSchema(p) ==
    /\ At(p, "bootstrap", "schema")
    /\ bootstraps' = [bootstraps EXCEPT ![proc[p].id].status =
         IF @ = "freshness_verified" THEN "schema_started" ELSE @]
    /\ live' = SourceHeads[proc[p].rel]
    /\ proc' = [proc EXCEPT ![p].pc = "schema_done", ![p].act = "schema_started"]
    /\ UNCHANGED <<bootstrapOnly, rolloutLock, backupLock, faults>>

BootstrapSchemaDone(p) ==
    /\ At(p, "bootstrap", "schema_done")
    /\ bootstraps' = [bootstraps EXCEPT ![proc[p].id].status =
         IF @ = "schema_started" THEN "schema_completed" ELSE @]
    /\ Goto(p, "verify")
    /\ UNCHANGED <<live, bootstrapOnly, faults>>

\* target_heads_verified; not legal when the earlier events are missing.
BootstrapVerify(p) ==
    /\ At(p, "bootstrap", "verify")
    /\ IF BootLegal(Boot(p).status, "target_heads_verified")
       THEN SetBoot(p, "target_heads_verified") /\ Goto(p, "commit")
       ELSE bootstraps' = bootstraps /\ Goto(p, "failed")
    /\ UNCHANGED <<live, bootstrapOnly, faults>>

BootstrapCommit(p) ==
    /\ At(p, "bootstrap", "commit")
    /\ SetBoot(p, "committed")
    /\ Goto(p, "result")
    /\ UNCHANGED <<live, bootstrapOnly, faults>>

\* _write_terminal keeps an existing result.
BootstrapResult(p) ==
    /\ At(p, "bootstrap", "result")
    /\ bootstraps' = [bootstraps EXCEPT ![proc[p].id].result =
                        IF @ = "none" THEN "committed" ELSE @]
    /\ Leave(p)
    /\ UNCHANGED <<live, bootstrapOnly, faults>>

\* An error, or heads that are neither absent nor the target's.
BootstrapError(p) ==
    /\ proc[p].op = "bootstrap"
    /\ proc[p].pc \notin {"lock", "failed"}
    /\ \/ /\ proc[p].pc = "inspect" /\ live \notin {NoSchema, SourceHeads[proc[p].rel]}
          /\ UNCHANGED <<live, bootstraps, faults>>
          /\ proc' = [proc EXCEPT ![p].pc = "failed"]
       \/ /\ Fault
          /\ proc[p].pc # "schema"
          /\ UNCHANGED <<live, bootstraps>>
          /\ proc' = [proc EXCEPT ![p].pc = "failed"]
       \/ /\ Fault
          /\ proc[p].pc = "schema"
          /\ bootstraps' = [bootstraps EXCEPT ![proc[p].id].status =
               IF @ = "freshness_verified" THEN "schema_started" ELSE @]
          /\ live' \in {live, SourceHeads[proc[p].rel], Partial}
          /\ proc' = [proc EXCEPT ![p].pc = "failed", ![p].act = "schema_started"]
    /\ UNCHANGED <<bootstrapOnly, rolloutLock, backupLock>>

\* The except clause: `failed' before Alembic ran in this call, otherwise
\* `requires_recovery'; an illegal event is ignored, the result is written.
BootstrapTerminal(p) ==
    LET terminal == IF proc[p].act = "schema_started"
                    THEN "requires_recovery" ELSE "failed" IN
    /\ At(p, "bootstrap", "failed")
    /\ bootstraps' = [bootstraps EXCEPT
         ![proc[p].id].status = IF @ # "none" /\ BootLegal(@, terminal)
                                THEN terminal ELSE @,
         ![proc[p].id].result = IF @ = "none" THEN terminal ELSE @]
    /\ Leave(p)
    /\ UNCHANGED <<live, bootstrapOnly, faults>>

BootstrapNext(p) ==
    \/ \E r \in Releases : BootstrapStart(p, r)
    \/ BootstrapOpen(p) \/ BootstrapRefused(p) \/ BootstrapPlanned(p)
    \/ BootstrapPostgres(p) \/ BootstrapAdopt(p) \/ BootstrapFresh(p)
    \/ BootstrapSchema(p) \/ BootstrapSchemaDone(p) \/ BootstrapVerify(p)
    \/ BootstrapCommit(p) \/ BootstrapResult(p) \/ BootstrapError(p)
    \/ BootstrapTerminal(p)
=============================================================================
