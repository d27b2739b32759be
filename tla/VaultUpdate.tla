---------------------------- MODULE VaultUpdate ----------------------------
(***************************************************************************)
(* sickrat vault update and sickrat vault create (apps/cli/src/index.ts):  *)
(* command-line invocations on several machines that work on one vault,    *)
(* through the Cloudflare API.  They share the Worker script, and in the   *)
(* vault's D1 the update lock, the deployment manifest and the table of    *)
(* migrations; each machine keeps the vault's VAPID keys in its own        *)
(* config.json.                                                            *)
(*                                                                         *)
(* Every call of the Cloudflare API is one step.  An invocation may fail   *)
(* at any of them (or be killed): it then stops where it is and leaves the *)
(* lock behind.  Versions are numbers in their semver order; an invocation *)
(* generates at most one key pair, which is named after it.                *)
(***************************************************************************)
EXTENDS Naturals

CONSTANTS
    Runs,        \* invocations of the CLI
    Machines,
    HomeOf,      \* the machine each invocation runs on
    Original,    \* the VAPID keys the vault was created with
    None,        \* null: no manifest, no lock owner, no keys
    MaxVersion,  \* bound on releases, for TLC only
    LockTtl,     \* the 15 minutes of an update lock
    MaxTime,     \* bound on the clock, for TLC only
    WaitTries    \* the 15 attempts of waitForVaultVersion

ASSUME HomeAssumption == HomeOf \in [Runs -> Machines]
ASSUME NamesAssumption == /\ Original \notin Runs
                          /\ None \notin Runs \union {Original}
ASSUME BoundsAssumption == /\ MaxVersion \in Nat \ {0}
                           /\ LockTtl \in Nat \ {0}
                           /\ MaxTime \in Nat
                           /\ WaitTries \in Nat \ {0}

Versions == 1..MaxVersion
Keys     == Runs \union {Original}

VARIABLES
    now,       \* Date.now()
    latest,    \* the latest GitHub release
    lock,      \* the row of sickrat_update_locks
    script,    \* the Worker script last uploaded: its version and VAPID keys
    live,      \* the version that the vault's URL answers with
    manifest,  \* sickrat_meta, key deployment_manifest
    recorded,  \* sickrat_migrations: the versions v with a row deploy_v
    config,    \* the vault's VAPID keys in each machine's config.json
    run,       \* the local state of each invocation
    everLive,  \* history: versions that were live at some time
    overlap,   \* history: two invocations were once at work together
    last       \* history: the last invocation to complete, or to
               \* end after it began to change the vault

vars == <<now, latest, lock, script, live, manifest, recorded, config, run,
          everLive, overlap, last>>

Steps == {"none", "ensure_manifest_tables", "ensure_browser_session_r2",
          "download_artifact", "deploy_worker", "write_manifest"}

LockRow  == [owner : Runs \union {None}, expires : Nat, step : Steps]
Manifest == [version : Versions \union {0}, migrations : SUBSET Versions,
             updated : BOOLEAN]     \* updated: lastUpdate # null

RunState ==
    [pc      : {"new", "read", "look", "break", "acquire", "prepare", "upload",
                "mark", "wait", "manifest", "migrate", "config", "release",
                "done", "stopped"},
     create  : BOOLEAN,               \* vault create, not vault update
     force   : BOOLEAN,               \* --force-unlock
     step    : Steps,                 \* the step last completed
     target  : Versions \union {0},   \* targetVersion, or cliVersion
     seen    : Manifest,              \* existingManifest; version 0 for null
     keys    : Keys \union {None},    \* the vault entry of config, as selected
     tries   : Nat]

NoLock     == [owner |-> None, expires |-> 0, step |-> "none"]
NoManifest == [version |-> 0, migrations |-> {}, updated |-> FALSE]
NewRun     == [pc |-> "new", create |-> FALSE, force |-> FALSE, step |-> "none",
               target |-> 0, seen |-> NoManifest, keys |-> None, tries |-> 0]

AtWork(u) == run[u].pc \notin {"new", "done", "stopped"}

TypeOK ==
    /\ now \in Nat
    /\ latest \in Versions
    /\ lock \in LockRow
    /\ script \in [version : Versions, keys : Keys]
    /\ live \in Versions
    /\ manifest \in Manifest
    /\ recorded \subseteq Versions
    /\ config \in [Machines -> Keys \union {None}]
    /\ run \in [Runs -> RunState]
    /\ everLive \subseteq Versions
    /\ overlap \in BOOLEAN
    /\ last \in Runs \union {None}

\* A vault of the first version, created with or before manifests; a machine
\* knows its keys only if the vault was created or updated there.
Init ==
    /\ now = 0
    /\ latest = 1
    /\ lock = NoLock
    /\ script = [version |-> 1, keys |-> Original]
    /\ live = 1
    /\ manifest \in {NoManifest, [NoManifest EXCEPT !.version = 1]}
    /\ recorded = {}
    /\ config \in [Machines -> {Original, None}]
    /\ run = [u \in Runs |-> NewRun]
    /\ everLive = {1}
    /\ overlap = FALSE
    /\ last = None

-----------------------------------------------------------------------------
(***************************************************************************)
(* The environment: releases, the clock, and Cloudflare rolling an upload  *)
(* out to the vault's URL.                                                 *)
(***************************************************************************)
Release ==
    /\ latest < MaxVersion
    /\ latest' = latest + 1
    /\ UNCHANGED <<now, lock, script, live, manifest, recorded, config, run,
                   everLive, overlap, last>>

Tick ==
    /\ now < MaxTime
    /\ now' = now + 1
    /\ UNCHANGED <<latest, lock, script, live, manifest, recorded, config, run,
                   everLive, overlap, last>>

RollOut ==
    /\ live # script.version
    /\ live' = script.version
    /\ everLive' = everLive \union {script.version}
    /\ UNCHANGED <<now, latest, lock, script, manifest, recorded, config, run,
                   overlap, last>>

-----------------------------------------------------------------------------
Goto(u, pc) == run' = [run EXCEPT ![u].pc = pc]

\* The process exits; nothing is cleaned up but its memory.
Exit(u, pc) == run' = [run EXCEPT ![u] = [NewRun EXCEPT !.pc = pc]]

Start(u, local) ==
    /\ run[u].pc = "new"
    /\ run' = [run EXCEPT ![u] = local]
    /\ overlap' = (overlap \/ \E w \in Runs : AtWork(w))
    /\ UNCHANGED <<now, latest, lock, script, live, manifest, recorded, config,
                   everLive, last>>

\* vault update: select the vault, then ask for the latest release.
StartUpdate(u) ==
    \E force \in BOOLEAN :
        Start(u, [NewRun EXCEPT !.pc = "read", !.force = force,
                                !.target = latest, !.keys = config[HomeOf[u]]])

\* vault create, once more, with a CLI of any released version: it takes no
\* lock and starts with the deployment.
StartCreate(u) ==
    \E version \in 1..latest :
        Start(u, [NewRun EXCEPT !.pc = "upload", !.create = TRUE,
                                !.target = version])

\* readRemoteManifest(...).catch(() => null); the plan and the confirmation.
Read(u) ==
    /\ run[u].pc = "read"
    /\ \E seen \in {manifest, NoManifest} :
            run' = [run EXCEPT ![u] = [@ EXCEPT !.pc = "look", !.seen = seen]]
    /\ UNCHANGED <<now, latest, lock, script, live, manifest, recorded, config,
                   everLive, overlap, last>>

\* acquireUpdateLock: SELECT, [DELETE,] upsert, each a call of its own.
LockIsLive == lock.owner # None /\ lock.expires > now

Look(u) ==
    /\ run[u].pc = "look"
    /\ IF LockIsLive /\ ~run[u].force
       THEN Exit(u, "stopped")
       ELSE Goto(u, IF lock.owner # None /\ run[u].force THEN "break"
                                                         ELSE "acquire")
    /\ UNCHANGED <<now, latest, lock, script, live, manifest, recorded, config,
                   everLive, overlap, last>>

Break(u) ==
    /\ run[u].pc = "break"
    /\ lock' = NoLock
    /\ Goto(u, "acquire")
    /\ UNCHANGED <<now, latest, script, live, manifest, recorded, config,
                   everLive, overlap, last>>

Acquire(u) ==
    /\ run[u].pc = "acquire"
    /\ lock' = [owner |-> u, expires |-> now + LockTtl, step |-> "none"]
    /\ run' = [run EXCEPT ![u] = [@ EXCEPT !.pc = "prepare", !.force = FALSE]]
    /\ UNCHANGED <<now, latest, script, live, manifest, recorded, config,
                   everLive, overlap, last>>

\* markUpdateStep: WHERE id = 'vault-update', whoever owns the row.
MarkLock(step) ==
    lock' = IF lock.owner = None THEN lock ELSE [lock EXCEPT !.step = step]

NextStep(step) ==
    CASE step = "none" -> "ensure_manifest_tables"
      [] step = "ensure_manifest_tables" -> "ensure_browser_session_r2"
      [] OTHER -> "download_artifact"

\* The three preparations: tables and bucket are ensured (they exist, in this
\* vault), the artifact is downloaded, and each is marked.
Prepare(u) ==
    LET step == NextStep(run[u].step)
    IN  /\ run[u].pc = "prepare"
        /\ MarkLock(step)
        /\ run' = [run EXCEPT ![u] = [@ EXCEPT
                      !.step = step,
                      !.pc = IF step = "download_artifact" THEN "upload" ELSE "prepare"]]
        /\ UNCHANGED <<now, latest, script, live, manifest, recorded, config,
                       everLive, overlap, last>>

\* deployVaultWorker: the keys the machine knows, or new ones.
DeployKeys(u) == IF run[u].keys # None THEN run[u].keys ELSE u

Upload(u) ==
    /\ run[u].pc = "upload"
    /\ script' = [version |-> run[u].target, keys |-> DeployKeys(u)]
    /\ run' = [run EXCEPT ![u] = [@ EXCEPT
                  !.keys = DeployKeys(u),
                  !.pc = IF run[u].create THEN "manifest" ELSE "mark"]]
    /\ UNCHANGED <<now, latest, lock, live, manifest, recorded, config,
                   everLive, overlap, last>>

Mark(u) ==
    /\ run[u].pc = "mark"
    /\ MarkLock("deploy_worker")
    /\ run' = [run EXCEPT ![u] = [@ EXCEPT !.step = "deploy_worker", !.pc = "wait"]]
    /\ UNCHANGED <<now, latest, script, live, manifest, recorded, config,
                   everLive, overlap, last>>

\* Mutants: any version will do; there is no last attempt.
AnswersAnyhow(u)    == live # run[u].target + MaxVersion
AttemptsForever(u)  == run[u].tries <= WaitTries

\* waitForVaultVersion: one attempt, and whether it may be repeated.
Answers(u)      == live = run[u].target
AttemptsLeft(u) == run[u].tries + 1 < WaitTries

Wait(u) ==
    /\ run[u].pc = "wait"
    /\ IF Answers(u)
       THEN /\ run' = [run EXCEPT ![u] = [@ EXCEPT !.pc = "manifest", !.tries = 0]]
            /\ UNCHANGED last
       ELSE IF AttemptsLeft(u)
       THEN /\ run' = [run EXCEPT ![u] = [@ EXCEPT
                          !.tries = IF run[u].tries < WaitTries
                                    THEN run[u].tries + 1 ELSE WaitTries]]
            /\ UNCHANGED last
       ELSE /\ Exit(u, "stopped")
            /\ last' = u
    /\ UNCHANGED <<now, latest, lock, script, live, manifest, recorded, config,
                   everLive, overlap>>

\* Mutant: the version of the manifest that was read, not of the target.
ManifestOfRead(u) ==
    [version |-> run[u].seen.version, updated |-> TRUE,
     migrations |-> run[u].seen.migrations \union {run[u].target}]

\* createVaultManifest, from the manifest read before the lock was taken.
ManifestOf(u) ==
    IF run[u].create
    THEN [NoManifest EXCEPT !.version = run[u].target]
    ELSE [version |-> run[u].target, updated |-> TRUE,
          migrations |-> run[u].seen.migrations \union {run[u].target}]

\* writeRemoteManifest: the manifest, then a row for each of its migrations;
\* then the mark, for an update.
WriteManifest(u) ==
    /\ run[u].pc = "manifest"
    /\ manifest' = ManifestOf(u)
    /\ Goto(u, "migrate")
    /\ UNCHANGED <<now, latest, lock, script, live, recorded, config, everLive,
                   overlap, last>>

RecordMigration(u) ==
    /\ run[u].pc = "migrate"
    /\ \E v \in ManifestOf(u).migrations \ recorded :
            recorded' = recorded \union {v}
    /\ UNCHANGED <<now, latest, lock, script, live, manifest, config, run,
                   everLive, overlap, last>>

MigrationsDone(u) ==
    /\ run[u].pc = "migrate"
    /\ ManifestOf(u).migrations \subseteq recorded
    /\ Goto(u, "config")
    /\ IF run[u].create THEN UNCHANGED lock ELSE MarkLock("write_manifest")
    /\ UNCHANGED <<now, latest, script, live, manifest, recorded, config,
                   everLive, overlap, last>>

\* readConfig and writeConfig, for the vault's own entry.
WriteConfig(u) ==
    /\ run[u].pc = "config"
    /\ config' = [config EXCEPT ![HomeOf[u]] = run[u].keys]
    /\ IF run[u].create
       THEN Exit(u, "done") /\ last' = u
       ELSE Goto(u, "release") /\ UNCHANGED last
    /\ UNCHANGED <<now, latest, lock, script, live, manifest, recorded,
                   everLive, overlap>>

\* releaseUpdateLock: DELETE WHERE id = 'vault-update', whoever owns the row.
ReleaseLock(u) ==
    /\ run[u].pc = "release"
    /\ lock' = NoLock
    /\ Exit(u, "done")
    /\ last' = u
    /\ UNCHANGED <<now, latest, script, live, manifest, recorded, config,
                   everLive, overlap>>

\* A call fails, or the process is killed; nothing is cleaned up.
Stop(u) ==
    /\ AtWork(u)
    /\ Exit(u, "stopped")
    /\ last' = u
    /\ UNCHANGED <<now, latest, lock, script, live, manifest, recorded, config,
                   everLive, overlap>>

Continue(u) ==
    \/ Read(u)
    \/ Look(u)
    \/ Break(u)
    \/ Acquire(u)
    \/ Prepare(u)
    \/ Upload(u)
    \/ Mark(u)
    \/ Wait(u)
    \/ WriteManifest(u)
    \/ RecordMigration(u)
    \/ MigrationsDone(u)
    \/ WriteConfig(u)
    \/ ReleaseLock(u)

Next ==
    \/ Release
    \/ Tick
    \/ RollOut
    \/ \E u \in Runs : StartUpdate(u) \/ StartCreate(u) \/ Continue(u) \/ Stop(u)

Spec == Init /\ [][Next]_vars

\* A process that is not killed goes on; Cloudflare need never roll out.
FairSpec == Spec /\ \A u \in Runs : WF_vars(Continue(u))

-----------------------------------------------------------------------------
(***************************************************************************)
(* Properties.                                                             *)
(***************************************************************************)
\* Nothing is recorded before it was verified: the manifest of an update names
\* a version that the vault's URL has answered with, and so does every row of
\* sickrat_migrations, whatever other invocations upload in between.
RecordedWasLive ==
    /\ manifest.updated => manifest.version \in everLive
    /\ recorded \subseteq everLive

\* When invocations never overlapped and the last one completed, all the
\* copies agree: the manifest with the uploaded script (and, after an update,
\* with what the URL answers), the machine's config with the script's keys.
SettledAgreement ==
    /\ ~overlap
    /\ \A u \in Runs : ~AtWork(u)
    /\ last # None
    /\ run[last].pc = "done"
    => /\ manifest.version = script.version
       /\ manifest.updated => live = script.version
       /\ config[HomeOf[last]] = script.keys

\* Every invocation comes to an end, although the version it waits for may
\* never become live (another invocation uploads its own): waitForVaultVersion
\* gives up.
EveryRunEnds == \A u \in Runs : AtWork(u) ~> ~AtWork(u)
=============================================================================
