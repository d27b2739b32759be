------------------------- MODULE VaultUpdate_proofs -------------------------
(***************************************************************************)
(* Theorems about VaultUpdate, for any number of invocations, machines and *)
(* releases.  Nothing is recorded before the vault's URL has answered with *)
(* it, and without overlap the last invocation leaves all parts in         *)
(* agreement.                                                              *)
(***************************************************************************)
EXTENDS VaultUpdate, TLAPS

-----------------------------------------------------------------------------
(***************************************************************************)
(* Type correctness.  An invocation at work has a released target; without *)
(* that, the version 0 of "no manifest" could be uploaded.                 *)
(***************************************************************************)
Working(l)   == l.pc \notin {"new", "done", "stopped"}
Placed(l)    == l \in RunState /\ (Working(l) => l.target \in Versions)
TypeInv      == TypeOK /\ \A u \in Runs : Placed(run[u])

LEMMA NullsTyped ==
    /\ NoLock \in LockRow
    /\ NoManifest \in Manifest
    /\ NewRun \in RunState
<1>1. "none" \in Steps
  BY DEF Steps
<1>2. NoLock \in LockRow
  BY <1>1 DEF NoLock, LockRow
<1>3. NoManifest \in Manifest
  BY DEF NoManifest, Manifest
<1>4. NewRun \in RunState
  BY <1>1, <1>3 DEF NewRun, RunState
<1> QED
  BY <1>2, <1>3, <1>4

\* A step that gives one invocation a well-typed local state.
LEMMA RunType ==
    ASSUME TypeInv, NEW u \in Runs, NEW l, Placed(l), run' = [run EXCEPT ![u] = l]
    PROVE  /\ run' \in [Runs -> RunState]
           /\ \A w \in Runs : Placed(run'[w])
<1>1. run \in [Runs -> RunState]
  BY DEF TypeInv, TypeOK
<1>2. l \in RunState
  BY DEF Placed
<1>3. \A w \in Runs : run'[w] = IF w = u THEN l ELSE run[w]
  BY <1>1
<1> QED
  BY <1>1, <1>2, <1>3 DEF TypeInv

LEMMA ExitPlaced ==
    ASSUME TypeInv, NEW u \in Runs, NEW pc \in {"done", "stopped"}, Exit(u, pc)
    PROVE  /\ run' \in [Runs -> RunState]
           /\ \A w \in Runs : Placed(run'[w])
<1>1. Placed([NewRun EXCEPT !.pc = pc])
  BY NullsTyped DEF NewRun, RunState, Placed, Working
<1> QED
  BY <1>1, RunType DEF Exit

LEMMA GotoPlaced ==
    ASSUME TypeInv, NEW u \in Runs, Working(run[u]),
           NEW pc \in {"break", "acquire", "migrate", "config", "release"}, Goto(u, pc)
    PROVE  /\ run' \in [Runs -> RunState]
           /\ \A w \in Runs : Placed(run'[w])
<1> DEFINE l == [run[u] EXCEPT !.pc = pc]
<1>1. Placed(l)
  BY DEF TypeInv, TypeOK, RunState, Placed, Working
<1>2. run' = [run EXCEPT ![u] = l]
  BY DEF Goto, TypeInv, TypeOK
<1> QED
  BY <1>1, <1>2, RunType

\* The steps of the environment.
LEMMA EnvironmentType ==
    ASSUME TypeInv, Release \/ Tick \/ RollOut
    PROVE  TypeInv'
<1>1. TypeOK /\ \A u \in Runs : Placed(run[u])
  BY DEF TypeInv
<1>2. CASE Release
  <2>1. latest' \in Versions
    BY <1>1, <1>2, BoundsAssumption DEF TypeOK, Release, Versions
  <2> QED
    BY <1>1, <1>2, <2>1 DEF TypeInv, TypeOK, Release
<1>3. CASE Tick
  BY <1>1, <1>3 DEF TypeInv, TypeOK, Tick
<1>4. CASE RollOut
  BY <1>1, <1>4 DEF TypeInv, TypeOK, RollOut
<1> QED
  BY <1>2, <1>3, <1>4

LEMMA StartType ==
    ASSUME TypeInv, NEW u \in Runs, StartUpdate(u) \/ StartCreate(u)
    PROVE  TypeInv'
<1>1. ASSUME NEW l, Placed(l), Start(u, l) PROVE TypeInv'
  <2>1. /\ run' \in [Runs -> RunState]
        /\ \A w \in Runs : Placed(run'[w])
    BY <1>1, RunType DEF Start
  <2>2. overlap' \in BOOLEAN
    BY <1>1 DEF Start, TypeInv, TypeOK
  <2> QED
    BY <1>1, <2>1, <2>2 DEF Start, TypeInv, TypeOK
<1>2. CASE StartUpdate(u)
  <2>1. PICK force \in BOOLEAN :
          Start(u, [NewRun EXCEPT !.pc = "read", !.force = force,
                                  !.target = latest, !.keys = config[HomeOf[u]]])
    BY <1>2 DEF StartUpdate
  <2>2. latest \in Versions /\ config[HomeOf[u]] \in Keys \union {None}
    BY HomeAssumption DEF TypeInv, TypeOK
  <2>3. Placed([NewRun EXCEPT !.pc = "read", !.force = force, !.target = latest,
                              !.keys = config[HomeOf[u]]])
    BY <2>2, NullsTyped DEF NewRun, RunState, Placed
  <2> QED
    BY <1>1, <2>1, <2>3
<1>3. CASE StartCreate(u)
  <2>1. PICK version \in 1 .. latest :
          Start(u, [NewRun EXCEPT !.pc = "upload", !.create = TRUE, !.target = version])
    BY <1>3 DEF StartCreate
  <2>2. version \in Versions
    BY BoundsAssumption DEF TypeInv, TypeOK, Versions
  <2>3. Placed([NewRun EXCEPT !.pc = "upload", !.create = TRUE, !.target = version])
    BY <2>2, NullsTyped DEF NewRun, RunState, Placed
  <2> QED
    BY <1>1, <2>1, <2>3
<1> QED
  BY <1>2, <1>3

LEMMA MarkType ==
    ASSUME TypeInv, NEW step \in Steps, MarkLock(step)
    PROVE  lock' \in LockRow
BY DEF TypeInv, TypeOK, MarkLock, LockRow

LEMMA ManifestType ==
    ASSUME TypeInv, NEW u \in Runs, Working(run[u])
    PROVE  ManifestOf(u) \in Manifest
<1>1. run[u] \in RunState /\ run[u].target \in Versions
  BY DEF TypeInv, Placed
<1> QED
  BY <1>1 DEF ManifestOf, NoManifest, Manifest, RunState

LEMMA ContinueType ==
    ASSUME TypeInv, NEW u \in Runs, Continue(u)
    PROVE  TypeInv'
<1> DEFINE Typed == /\ run' \in [Runs -> RunState]
                    /\ \A w \in Runs : Placed(run'[w])
<1>0. /\ run[u] \in RunState
      /\ Working(run[u]) => run[u].target \in Versions
      /\ TypeOK
  BY DEF TypeInv, Placed
<1>1. CASE Read(u)
  <2>1. PICK seen \in {manifest, NoManifest} :
          run' = [run EXCEPT ![u] = [run[u] EXCEPT !.pc = "look", !.seen = seen]]
    BY <1>1, <1>0 DEF Read, TypeOK
  <2>2. seen \in Manifest
    BY <1>0, NullsTyped DEF TypeOK
  <2>3. Placed([run[u] EXCEPT !.pc = "look", !.seen = seen])
    BY <1>0, <1>1, <2>2 DEF Placed, Working, RunState, Read
  <2> QED
    BY <1>0, <1>1, <2>1, <2>3, RunType DEF TypeInv, TypeOK, Read
<1>2. CASE Look(u)
  <2>1. Typed
    BY <1>2, ExitPlaced, GotoPlaced DEF Look, Working
  <2> QED
    BY <1>0, <1>2, <2>1 DEF TypeInv, TypeOK, Look
<1>3. CASE Break(u)
  <2>1. Typed
    BY <1>3, GotoPlaced DEF Break, Working
  <2> QED
    BY <1>0, <1>3, <2>1, NullsTyped DEF TypeInv, TypeOK, Break
<1>4. CASE Acquire(u)
  <2>1. run' = [run EXCEPT ![u] = [run[u] EXCEPT !.pc = "prepare", !.force = FALSE]]
    BY <1>4, <1>0 DEF Acquire, TypeOK
  <2>2. Placed([run[u] EXCEPT !.pc = "prepare", !.force = FALSE])
    BY <1>0, <1>4 DEF Placed, Working, RunState, Acquire
  <2>3. lock' \in LockRow
    BY <1>0, <1>4, BoundsAssumption DEF Acquire, LockRow, TypeOK, Steps
  <2> QED
    BY <1>0, <1>4, <2>1, <2>2, <2>3, RunType DEF TypeInv, TypeOK, Acquire
<1>5. CASE Prepare(u)
  <2> DEFINE step == NextStep(run[u].step)
             pc   == IF step = "download_artifact" THEN "upload" ELSE "prepare"
  <2>1. run' = [run EXCEPT ![u] = [run[u] EXCEPT !.step = step, !.pc = pc]]
    BY <1>5, <1>0 DEF Prepare, TypeOK, RunState
  <2>2. step \in Steps
    BY DEF NextStep, Steps
  <2>3. pc \in {"upload", "prepare"}
    OBVIOUS
  <2>4. lock' \in LockRow
    BY <1>5, <2>2, MarkType DEF Prepare
  <2> HIDE DEF step, pc
  <2>5. Placed([run[u] EXCEPT !.step = step, !.pc = pc])
    BY <1>0, <1>5, <2>2, <2>3 DEF Placed, Working, RunState, Prepare
  <2> QED
    BY <1>0, <1>5, <2>1, <2>4, <2>5, RunType DEF TypeInv, TypeOK, Prepare
<1>6. CASE Upload(u)
  <2> DEFINE pc == IF run[u].create THEN "manifest" ELSE "mark"
  <2>1. run' = [run EXCEPT ![u] = [run[u] EXCEPT !.keys = DeployKeys(u), !.pc = pc]]
    BY <1>6, <1>0 DEF Upload, TypeOK
  <2>2. DeployKeys(u) \in Keys
    BY <1>0 DEF DeployKeys, Keys, RunState
  <2>3. run[u].target \in Versions
    BY <1>0, <1>6 DEF Upload, Working
  <2>4. pc \in {"manifest", "mark"}
    OBVIOUS
  <2> HIDE DEF pc
  <2>5. Placed([run[u] EXCEPT !.keys = DeployKeys(u), !.pc = pc])
    BY <1>0, <2>2, <2>3, <2>4 DEF Placed, RunState
  <2> QED
    BY <1>0, <1>6, <2>1, <2>2, <2>3, <2>5, RunType DEF TypeInv, TypeOK, Upload
<1>7. CASE Mark(u)
  <2>1. run' = [run EXCEPT ![u] = [run[u] EXCEPT !.step = "deploy_worker", !.pc = "wait"]]
    BY <1>7, <1>0 DEF Mark, TypeOK
  <2>2. "deploy_worker" \in Steps
    BY DEF Steps
  <2>3. Placed([run[u] EXCEPT !.step = "deploy_worker", !.pc = "wait"])
    BY <1>0, <1>7, <2>2 DEF Placed, Working, RunState, Mark
  <2>4. lock' \in LockRow
    BY <1>7, <2>2, MarkType DEF Mark
  <2> QED
    BY <1>0, <1>7, <2>1, <2>3, <2>4, RunType DEF TypeInv, TypeOK, Mark
<1>8. CASE Wait(u)
  <2>1. Typed
    <3>1. CASE Answers(u)
      <4>1. run' = [run EXCEPT ![u] = [run[u] EXCEPT !.pc = "manifest", !.tries = 0]]
        BY <1>8, <3>1, <1>0 DEF Wait, TypeOK
      <4>2. Placed([run[u] EXCEPT !.pc = "manifest", !.tries = 0])
        BY <1>0, <1>8 DEF Placed, Working, RunState, Wait
      <4> QED
        BY <4>1, <4>2, RunType
    <3>2. CASE ~Answers(u) /\ AttemptsLeft(u)
      <4> DEFINE tries == IF run[u].tries < WaitTries THEN run[u].tries + 1
                                                      ELSE WaitTries
      <4>1. run' = [run EXCEPT ![u] = [run[u] EXCEPT !.tries = tries]]
        BY <1>8, <3>2, <1>0 DEF Wait, TypeOK, RunState
      <4>2. tries \in Nat
        BY <1>0, BoundsAssumption DEF RunState
      <4> HIDE DEF tries
      <4>3. Placed([run[u] EXCEPT !.tries = tries])
        BY <1>0, <1>8, <4>2 DEF Placed, Working, RunState, Wait
      <4> QED
        BY <4>1, <4>3, RunType
    <3>3. CASE ~Answers(u) /\ ~AttemptsLeft(u)
      BY <1>8, <3>3, ExitPlaced DEF Wait
    <3> QED
      BY <3>1, <3>2, <3>3
  <2>2. last' \in Runs \union {None}
    BY <1>0, <1>8 DEF Wait, TypeOK
  <2> QED
    BY <1>0, <1>8, <2>1, <2>2 DEF TypeInv, TypeOK, Wait
<1>9. CASE WriteManifest(u)
  <2>1. Typed
    BY <1>9, GotoPlaced DEF WriteManifest, Working
  <2>2. manifest' \in Manifest
    BY <1>9, ManifestType DEF WriteManifest, Working
  <2> QED
    BY <1>0, <1>9, <2>1, <2>2 DEF TypeInv, TypeOK, WriteManifest
<1>10. CASE RecordMigration(u)
  <2>1. ManifestOf(u).migrations \subseteq Versions
    BY <1>10, ManifestType DEF RecordMigration, Working, Manifest
  <2>2. recorded' \subseteq Versions
    BY <1>0, <1>10, <2>1 DEF RecordMigration, TypeOK
  <2> QED
    BY <1>0, <1>10, <2>2 DEF TypeInv, TypeOK, RecordMigration
<1>11. CASE MigrationsDone(u)
  <2>1. Typed
    BY <1>11, GotoPlaced DEF MigrationsDone, Working
  <2>2. "write_manifest" \in Steps
    BY DEF Steps
  <2>3. lock' \in LockRow
    BY <1>0, <1>11, <2>2, MarkType DEF MigrationsDone, TypeOK
  <2> QED
    BY <1>0, <1>11, <2>1, <2>3 DEF TypeInv, TypeOK, MigrationsDone
<1>12. CASE WriteConfig(u)
  <2>1. Typed
    BY <1>12, ExitPlaced, GotoPlaced DEF WriteConfig, Working
  <2>2. last' \in Runs \union {None}
    BY <1>0, <1>12 DEF WriteConfig, TypeOK
  <2>3. config' \in [Machines -> Keys \union {None}]
    BY <1>0, <1>12 DEF WriteConfig, TypeOK, RunState
  <2> QED
    BY <1>0, <1>12, <2>1, <2>2, <2>3 DEF TypeInv, TypeOK, WriteConfig
<1>13. CASE ReleaseLock(u)
  <2>1. Typed
    BY <1>13, ExitPlaced DEF ReleaseLock
  <2> QED
    BY <1>0, <1>13, <2>1, NullsTyped DEF TypeInv, TypeOK, ReleaseLock
<1> QED
  BY <1>1, <1>2, <1>3, <1>4, <1>5, <1>6, <1>7, <1>8, <1>9, <1>10, <1>11, <1>12,
     <1>13 DEF Continue

LEMMA TypeStep ==
    ASSUME TypeInv, [Next]_vars
    PROVE  TypeInv'
<1>1. CASE Release \/ Tick \/ RollOut
  BY <1>1, EnvironmentType
<1>2. ASSUME NEW u \in Runs, StartUpdate(u) \/ StartCreate(u) PROVE TypeInv'
  BY <1>2, StartType
<1>3. ASSUME NEW u \in Runs, Continue(u) PROVE TypeInv'
  BY <1>3, ContinueType
<1>4. ASSUME NEW u \in Runs, Stop(u) PROVE TypeInv'
  BY <1>4, ExitPlaced DEF Stop, TypeInv, TypeOK
<1>5. CASE UNCHANGED vars
  BY <1>5 DEF vars, TypeInv, TypeOK
<1> QED
  BY <1>1, <1>2, <1>3, <1>4, <1>5 DEF Next

LEMMA TypeInit == ASSUME Init PROVE TypeInv
<1>1. 1 \in Versions
  BY BoundsAssumption DEF Versions
<1>2. Placed(NewRun)
  BY NullsTyped DEF Placed, Working, NewRun
<1>3. manifest \in Manifest
  BY <1>1, NullsTyped DEF Init, Manifest
<1> QED
  BY <1>1, <1>2, <1>3, NullsTyped DEF Init, TypeInv, TypeOK, Keys

\* The vault, the machines and the invocations are always well typed.
THEOREM UpdateTypeCorrect == Spec => []TypeOK
<1>1. TypeInv => TypeOK
  BY DEF TypeInv
<1> QED
  BY <1>1, TypeInit, TypeStep, PTL DEF Spec

-----------------------------------------------------------------------------
(***************************************************************************)
(* Nothing is recorded before it was live.  The manifest that an update    *)
(* writes is built from one it read earlier and from the version it waited *)
(* for, so both must be known of the local state of every invocation.      *)
(***************************************************************************)
\* What an invocation carries, against the versions that were live.
Carries(l, seenLive) ==
    /\ l.seen.migrations \subseteq seenLive
    /\ l.pc \in {"manifest", "migrate"} /\ ~l.create => l.target \in seenLive

RecordInv ==
    /\ live \in everLive
    /\ manifest.migrations \subseteq everLive
    /\ RecordedWasLive
    /\ \A u \in Runs : Carries(run[u], everLive)

\* A step that changes one invocation only, whatever it does to the lock, the
\* script, the config and the history.
LEMMA CarriesStep ==
    ASSUME TypeInv, RecordInv, NEW u \in Runs, NEW l,
           run' = [run EXCEPT ![u] = l], Carries(l, everLive),
           UNCHANGED <<live, manifest, recorded, everLive>>
    PROVE  RecordInv'
<1>1. \A w \in Runs : run'[w] = IF w = u THEN l ELSE run[w]
  BY DEF TypeInv, TypeOK
<1> QED
  BY <1>1 DEF RecordInv, RecordedWasLive

LEMMA NewRunCarries ==
    ASSUME NEW E, NEW pc \in {"done", "stopped"}
    PROVE  Carries([NewRun EXCEPT !.pc = pc], E)
BY DEF Carries, NewRun, NoManifest

\* What a completed update may write: its manifest names live versions only.
LEMMA ManifestIsLive ==
    ASSUME TypeInv, RecordInv, NEW u \in Runs, run[u].pc \in {"manifest", "migrate"}
    PROVE  /\ ManifestOf(u).migrations \subseteq everLive
           /\ ManifestOf(u).updated => ManifestOf(u).version \in everLive
<1>1. Carries(run[u], everLive)
  BY DEF RecordInv
<1>2. CASE run[u].create
  BY <1>2 DEF ManifestOf, NoManifest
<1>3. CASE ~run[u].create
  BY <1>1, <1>3 DEF ManifestOf, Carries
<1> QED
  BY <1>2, <1>3

LEMMA RecordContinue ==
    ASSUME TypeInv, RecordInv, NEW u \in Runs, Continue(u)
    PROVE  RecordInv'
<1>0. /\ run[u] \in RunState /\ run \in [Runs -> RunState]
      /\ Carries(run[u], everLive)
  BY DEF TypeInv, TypeOK, RecordInv
<1>g. ASSUME NEW pc \in {"break", "acquire", "config", "release"}, Goto(u, pc),
             UNCHANGED <<live, manifest, recorded, everLive>>
      PROVE  RecordInv'
  <2>1. run' = [run EXCEPT ![u] = [run[u] EXCEPT !.pc = pc]]
    BY <1>g, <1>0 DEF Goto
  <2>2. Carries([run[u] EXCEPT !.pc = pc], everLive)
    BY <1>0 DEF Carries, RunState
  <2> QED
    BY <1>g, <2>1, <2>2, CarriesStep
<1>e. ASSUME NEW pc \in {"done", "stopped"}, Exit(u, pc),
             UNCHANGED <<live, manifest, recorded, everLive>>
      PROVE  RecordInv'
  BY <1>e, NewRunCarries, CarriesStep DEF Exit
<1>1. CASE Read(u)
  <2>1. PICK seen \in {manifest, NoManifest} :
          run' = [run EXCEPT ![u] = [run[u] EXCEPT !.pc = "look", !.seen = seen]]
    BY <1>1, <1>0 DEF Read
  <2>2. seen.migrations \subseteq everLive
    BY DEF RecordInv, NoManifest
  <2>3. Carries([run[u] EXCEPT !.pc = "look", !.seen = seen], everLive)
    BY <1>0, <2>2 DEF Carries, RunState
  <2> QED
    BY <1>1, <2>1, <2>3, CarriesStep DEF Read
<1>2. CASE Look(u)
  BY <1>2, <1>e, <1>g DEF Look
<1>3. CASE Break(u)
  BY <1>3, <1>g DEF Break
<1>4. CASE Acquire(u)
  <2>1. run' = [run EXCEPT ![u] = [run[u] EXCEPT !.pc = "prepare", !.force = FALSE]]
    BY <1>4, <1>0 DEF Acquire
  <2>2. Carries([run[u] EXCEPT !.pc = "prepare", !.force = FALSE], everLive)
    BY <1>0 DEF Carries, RunState
  <2> QED
    BY <1>4, <2>1, <2>2, CarriesStep DEF Acquire
<1>5. CASE Prepare(u)
  <2> DEFINE step == NextStep(run[u].step)
             pc   == IF step = "download_artifact" THEN "upload" ELSE "prepare"
  <2>1. run' = [run EXCEPT ![u] = [run[u] EXCEPT !.step = step, !.pc = pc]]
    BY <1>5, <1>0 DEF Prepare
  <2>2. pc \in {"upload", "prepare"}
    OBVIOUS
  <2> HIDE DEF step, pc
  <2>3. Carries([run[u] EXCEPT !.step = step, !.pc = pc], everLive)
    BY <1>0, <2>2 DEF Carries, RunState
  <2> QED
    BY <1>5, <2>1, <2>3, CarriesStep DEF Prepare
<1>6. CASE Upload(u)
  <2> DEFINE pc == IF run[u].create THEN "manifest" ELSE "mark"
  <2>1. run' = [run EXCEPT ![u] = [run[u] EXCEPT !.keys = DeployKeys(u), !.pc = pc]]
    BY <1>6, <1>0 DEF Upload
  <2>2. pc = "manifest" => run[u].create
    OBVIOUS
  <2>3. pc \in {"manifest", "mark"}
    OBVIOUS
  <2> HIDE DEF pc
  <2>4. Carries([run[u] EXCEPT !.keys = DeployKeys(u), !.pc = pc], everLive)
    BY <1>0, <2>2, <2>3 DEF Carries, RunState
  <2> QED
    BY <1>6, <2>1, <2>4, CarriesStep DEF Upload
<1>7. CASE Mark(u)
  <2>1. run' = [run EXCEPT ![u] = [run[u] EXCEPT !.step = "deploy_worker", !.pc = "wait"]]
    BY <1>7, <1>0 DEF Mark
  <2>2. Carries([run[u] EXCEPT !.step = "deploy_worker", !.pc = "wait"], everLive)
    BY <1>0 DEF Carries, RunState
  <2> QED
    BY <1>7, <2>1, <2>2, CarriesStep DEF Mark
<1>8. CASE Wait(u)
  <2>1. CASE Answers(u)
    <3>1. run' = [run EXCEPT ![u] = [run[u] EXCEPT !.pc = "manifest", !.tries = 0]]
      BY <1>8, <2>1, <1>0 DEF Wait
    <3>2. run[u].target \in everLive
      BY <2>1 DEF Answers, RecordInv
    <3>3. Carries([run[u] EXCEPT !.pc = "manifest", !.tries = 0], everLive)
      BY <1>0, <3>2 DEF Carries, RunState
    <3> QED
      BY <1>8, <3>1, <3>3, CarriesStep DEF Wait
  <2>2. CASE ~Answers(u) /\ AttemptsLeft(u)
    <3> DEFINE tries == IF run[u].tries < WaitTries THEN run[u].tries + 1 ELSE WaitTries
    <3>1. run' = [run EXCEPT ![u] = [run[u] EXCEPT !.tries = tries]]
      BY <1>8, <2>2, <1>0 DEF Wait
    <3> HIDE DEF tries
    <3>2. Carries([run[u] EXCEPT !.tries = tries], everLive)
      BY <1>0 DEF Carries, RunState
    <3> QED
      BY <1>8, <3>1, <3>2, CarriesStep DEF Wait
  <2>3. CASE ~Answers(u) /\ ~AttemptsLeft(u)
    BY <1>8, <2>3, <1>e DEF Wait
  <2> QED
    BY <2>1, <2>2, <2>3
<1>9. CASE WriteManifest(u)
  <2>1. run' = [run EXCEPT ![u] = [run[u] EXCEPT !.pc = "migrate"]]
    BY <1>9, <1>0 DEF WriteManifest, Goto
  <2>2. Carries([run[u] EXCEPT !.pc = "migrate"], everLive)
    BY <1>0, <1>9 DEF Carries, RunState, WriteManifest
  <2>3. \A w \in Runs : Carries(run'[w], everLive)
    BY <1>0, <2>1, <2>2 DEF RecordInv
  <2>4. /\ manifest'.migrations \subseteq everLive
        /\ manifest'.updated => manifest'.version \in everLive
    BY <1>9, ManifestIsLive DEF WriteManifest
  <2> QED
    BY <1>9, <2>3, <2>4 DEF WriteManifest, RecordInv, RecordedWasLive
<1>10. CASE RecordMigration(u)
  <2>1. recorded' \subseteq everLive
    BY <1>10, ManifestIsLive DEF RecordMigration, RecordInv, RecordedWasLive
  <2> QED
    BY <1>10, <2>1 DEF RecordMigration, RecordInv, RecordedWasLive
<1>11. CASE MigrationsDone(u)
  BY <1>11, <1>g DEF MigrationsDone
<1>12. CASE WriteConfig(u)
  BY <1>12, <1>e, <1>g DEF WriteConfig
<1>13. CASE ReleaseLock(u)
  BY <1>13, <1>e DEF ReleaseLock
<1> QED
  BY <1>1, <1>2, <1>3, <1>4, <1>5, <1>6, <1>7, <1>8, <1>9, <1>10, <1>11, <1>12,
     <1>13 DEF Continue

LEMMA RecordStep ==
    ASSUME TypeInv, RecordInv, [Next]_vars
    PROVE  RecordInv'
<1>1. CASE Release \/ Tick
  BY <1>1 DEF Release, Tick, RecordInv, RecordedWasLive
<1>2. CASE RollOut
  <2>1. everLive \subseteq everLive' /\ live' \in everLive'
    BY <1>2 DEF RollOut
  <2>2. \A u \in Runs : Carries(run[u], everLive')
    BY <2>1 DEF RecordInv, Carries
  <2> QED
    BY <1>2, <2>1, <2>2 DEF RollOut, RecordInv, RecordedWasLive
<1>3. ASSUME NEW u \in Runs, StartUpdate(u) \/ StartCreate(u) PROVE RecordInv'
  <2>1. ASSUME NEW l, Start(u, l), Carries(l, everLive) PROVE RecordInv'
    BY <2>1, CarriesStep DEF Start
  <2>2. CASE StartUpdate(u)
    <3>1. PICK force \in BOOLEAN :
            Start(u, [NewRun EXCEPT !.pc = "read", !.force = force,
                                    !.target = latest, !.keys = config[HomeOf[u]]])
      BY <2>2 DEF StartUpdate
    <3>2. Carries([NewRun EXCEPT !.pc = "read", !.force = force, !.target = latest,
                                 !.keys = config[HomeOf[u]]], everLive)
      BY DEF Carries, NewRun, NoManifest
    <3> QED
      BY <2>1, <3>1, <3>2
  <2>3. CASE StartCreate(u)
    <3>1. PICK version \in 1 .. latest :
            Start(u, [NewRun EXCEPT !.pc = "upload", !.create = TRUE,
                                    !.target = version])
      BY <2>3 DEF StartCreate
    <3>2. Carries([NewRun EXCEPT !.pc = "upload", !.create = TRUE,
                                 !.target = version], everLive)
      BY DEF Carries, NewRun, NoManifest
    <3> QED
      BY <2>1, <3>1, <3>2
  <2> QED
    BY <1>3, <2>2, <2>3
<1>4. ASSUME NEW u \in Runs, Continue(u) PROVE RecordInv'
  BY <1>4, RecordContinue
<1>5. ASSUME NEW u \in Runs, Stop(u) PROVE RecordInv'
  BY <1>5, NewRunCarries, CarriesStep DEF Stop, Exit
<1>6. CASE UNCHANGED vars
  BY <1>6 DEF vars, RecordInv, RecordedWasLive
<1> QED
  BY <1>1, <1>2, <1>3, <1>4, <1>5, <1>6 DEF Next

LEMMA RecordInit == ASSUME Init PROVE RecordInv
<1>1. manifest.migrations = {} /\ ~manifest.updated
  BY DEF Init, NoManifest
<1>2. \A u \in Runs : Carries(run[u], everLive)
  BY DEF Init, NewRun, NoManifest, Carries
<1> QED
  BY <1>1, <1>2 DEF Init, RecordInv, RecordedWasLive

\* However many machines update a vault at once, its manifest and its table of
\* migrations name no version that the vault's URL has not answered with.
THEOREM UpdateRecordedWasLive == Spec => []RecordedWasLive
<1>1. RecordInv => RecordedWasLive
  BY DEF RecordInv
<1> QED
  BY <1>1, TypeInit, TypeStep, RecordInit, RecordStep, PTL DEF Spec

-----------------------------------------------------------------------------
(***************************************************************************)
(* Settled copies agree.  While invocations do not overlap, one of them at *)
(* most is at work, and what it has already written agrees with what it    *)
(* carries; until it uploads, the copies are as the last one left them.    *)
(***************************************************************************)
\* From the upload on, an invocation has changed the vault.
Late(l) == l.pc \in {"mark", "wait", "manifest", "migrate", "config", "release"}

\* What the invocation u has written is what it carries.
Progress(u) ==
    LET l == run[u]
    IN  /\ Late(l) => script.version = l.target /\ script.keys = l.keys
        /\ l.pc \in {"manifest", "migrate", "config", "release"} /\ ~l.create =>
              live = l.target
        /\ l.pc \in {"migrate", "config", "release"} =>
              manifest.version = l.target /\ (manifest.updated => ~l.create)
        /\ l.pc = "release" => config[HomeOf[u]] = l.keys

Alone == \A u, w \in Runs : AtWork(u) /\ AtWork(w) => u = w

Agreed(u) ==
    /\ manifest.version = script.version
    /\ manifest.updated => live = script.version
    /\ config[HomeOf[u]] = script.keys

\* With nothing half-way, the copies are those of the last invocation.
LastAgreed ==
    /\ last # None
    /\ run[last].pc = "done"
    /\ \A u \in Runs : ~Late(run[u])
    => Agreed(last)

SettledInv == ~overlap => Alone /\ LastAgreed /\ \A u \in Runs : Progress(u)

LEMMA SettledInit == Init => SettledInv
<1> SUFFICES ASSUME Init PROVE SettledInv
  OBVIOUS
<1>1. last = None /\ \A u \in Runs : run[u].pc = "new"
  BY DEF Init, NewRun
<1> QED
  BY <1>1 DEF SettledInv, Alone, AtWork, LastAgreed, Progress, Late

\* A step of the invocation at work disturbs no other one.
LEMMA SettledMove ==
    ASSUME TypeInv, SettledInv, NEW u \in Runs, AtWork(u), NEW l,
           run' = [run EXCEPT ![u] = l], overlap' = overlap,
           Alone /\ Progress(u) /\ LastAgreed => Progress(u)' /\ LastAgreed'
    PROVE  SettledInv'
<1> SUFFICES ASSUME ~overlap' PROVE (Alone /\ LastAgreed /\ \A w \in Runs : Progress(w))'
  BY DEF SettledInv
<1>1. Alone /\ Progress(u) /\ LastAgreed
  BY DEF SettledInv
<1>2. \A w \in Runs \ {u} : run'[w] = run[w] /\ ~AtWork(w)
  BY <1>1 DEF Alone, TypeInv, TypeOK
<1>3. Alone'
  BY <1>2 DEF Alone, AtWork
<1>4. \A w \in Runs \ {u} : Progress(w)'
  BY <1>2 DEF Progress, Late, AtWork
<1> QED
  BY <1>1, <1>3, <1>4

\* Before its upload an invocation leaves the copies alone.
LEMMA SettledEarly ==
    ASSUME TypeInv, SettledInv, NEW u \in Runs, AtWork(u), ~Late(run[u]), NEW l,
           run' = [run EXCEPT ![u] = l], ~Late(l), l.pc # "done",
           UNCHANGED <<script, live, manifest, config, overlap, last>>
    PROVE  SettledInv'
<1>0. run'[u] = l /\ \A w \in Runs \ {u} : run'[w] = run[w]
  BY DEF TypeInv, TypeOK
<1>1. ASSUME Alone, LastAgreed PROVE LastAgreed'
  <2>1. \A w \in Runs : ~Late(run[w])
    BY <1>1 DEF Alone, AtWork, Late
  <2>2. last \in Runs \union {None}
    BY DEF TypeInv, TypeOK
  <2> QED
    BY <1>0, <1>1, <2>1, <2>2 DEF LastAgreed, Agreed
<1>2. Progress(u)'
  BY <1>0 DEF Progress, Late
<1> QED
  BY <1>1, <1>2, SettledMove

\* While it is half-way, the copies need not agree yet.
LEMMA SettledLate ==
    ASSUME TypeInv, SettledInv, NEW u \in Runs, AtWork(u), NEW l,
           run' = [run EXCEPT ![u] = l], Late(l), overlap' = overlap,
           Progress(u) => Progress(u)'
    PROVE  SettledInv'
<1>1. run'[u] = l
  BY DEF TypeInv, TypeOK
<1>2. LastAgreed'
  BY <1>1 DEF LastAgreed
<1> QED
  BY <1>2, SettledMove

\* It ends: either it has not completed, or the copies agree.
LEMMA SettledExit ==
    ASSUME TypeInv, SettledInv, NEW u \in Runs, AtWork(u),
           NEW pc \in {"done", "stopped"}, Exit(u, pc), last' = u, overlap' = overlap,
           pc = "done" /\ Progress(u) => Agreed(u)'
    PROVE  SettledInv'
<1> DEFINE l == [NewRun EXCEPT !.pc = pc]
<1>1. run' = [run EXCEPT ![u] = l] /\ l.pc = pc
  BY DEF Exit, NewRun
<1> HIDE DEF l
<1>2. run'[u].pc = pc
  BY <1>1 DEF TypeInv, TypeOK
<1>3. Progress(u)'
  BY <1>2 DEF Progress, Late
<1>4. Progress(u) => LastAgreed'
  BY <1>2 DEF LastAgreed, Agreed
<1> QED
  BY <1>1, <1>3, <1>4, SettledMove

LEMMA SettledContinue ==
    ASSUME TypeInv, SettledInv, NEW u \in Runs, Continue(u)
    PROVE  SettledInv'
<1>0. /\ run[u] \in RunState /\ run \in [Runs -> RunState]
      /\ AtWork(u)
  BY DEF TypeInv, TypeOK, Continue, Read, Look, Break, Acquire, Prepare, Upload, Mark,
     Wait, WriteManifest, RecordMigration, MigrationsDone, WriteConfig, ReleaseLock, AtWork
<1>g. ASSUME NEW pc, Goto(u, pc)
      PROVE  /\ run' = [run EXCEPT ![u] = [run[u] EXCEPT !.pc = pc]]
             /\ [run[u] EXCEPT !.pc = pc].pc = pc
             /\ run'[u].pc = pc
             /\ run'[u].create = run[u].create /\ run'[u].keys = run[u].keys
             /\ run'[u].target = run[u].target /\ run'[u].seen = run[u].seen
  BY <1>g, <1>0 DEF Goto, RunState
<1>1. CASE Read(u)
  <2>1. PICK seen \in {manifest, NoManifest} :
          run' = [run EXCEPT ![u] = [run[u] EXCEPT !.pc = "look", !.seen = seen]]
    BY <1>1, <1>0 DEF Read
  <2>2. [run[u] EXCEPT !.pc = "look", !.seen = seen].pc = "look"
    BY <1>0 DEF RunState
  <2> QED
    BY <1>0, <1>1, <2>1, <2>2, SettledEarly DEF Read, Late
<1>2. CASE Look(u)
  <2>1. CASE Exit(u, "stopped")
    <3>1. [NewRun EXCEPT !.pc = "stopped"].pc = "stopped"
      BY DEF NewRun
    <3> QED
      BY <1>0, <1>2, <2>1, <3>1, SettledEarly DEF Look, Exit, Late
  <2>2. ASSUME NEW pc \in {"break", "acquire"}, Goto(u, pc) PROVE SettledInv'
    BY <1>0, <1>2, <2>2, <1>g, SettledEarly DEF Look, Late
  <2> QED
    BY <1>2, <2>1, <2>2 DEF Look
<1>3. CASE Break(u)
  <2>1. Goto(u, "acquire")
    BY <1>3 DEF Break
  <2> QED
    BY <1>0, <1>3, <2>1, <1>g, SettledEarly DEF Break, Late
<1>4. CASE Acquire(u)
  <2>1. run' = [run EXCEPT ![u] = [run[u] EXCEPT !.pc = "prepare", !.force = FALSE]]
    BY <1>4, <1>0 DEF Acquire
  <2>2. [run[u] EXCEPT !.pc = "prepare", !.force = FALSE].pc = "prepare"
    BY <1>0 DEF RunState
  <2> QED
    BY <1>0, <1>4, <2>1, <2>2, SettledEarly DEF Acquire, Late
<1>5. CASE Prepare(u)
  <2> DEFINE step == NextStep(run[u].step)
             pc   == IF step = "download_artifact" THEN "upload" ELSE "prepare"
  <2>1. run' = [run EXCEPT ![u] = [run[u] EXCEPT !.step = step, !.pc = pc]]
    BY <1>5, <1>0 DEF Prepare
  <2>2. pc \in {"upload", "prepare"}
    OBVIOUS
  <2> HIDE DEF step, pc
  <2>3. [run[u] EXCEPT !.step = step, !.pc = pc].pc = pc
    BY <1>0 DEF RunState
  <2> QED
    BY <1>0, <1>5, <2>1, <2>2, <2>3, SettledEarly DEF Prepare, Late
<1>6. CASE Upload(u)
  <2> DEFINE pc == IF run[u].create THEN "manifest" ELSE "mark"
             l  == [run[u] EXCEPT !.keys = DeployKeys(u), !.pc = pc]
  <2>1. run' = [run EXCEPT ![u] = l]
    BY <1>6, <1>0 DEF Upload
  <2>2. pc \in {"manifest", "mark"} /\ (pc = "manifest" => run[u].create)
    OBVIOUS
  <2> HIDE DEF pc
  <2>3. /\ l.pc = pc /\ l.keys = DeployKeys(u) /\ l.target = run[u].target
        /\ l.create = run[u].create
    BY <1>0 DEF RunState
  <2> HIDE DEF l
  <2>4. run'[u] = l /\ script'.version = l.target /\ script'.keys = l.keys
    BY <1>0, <1>6, <2>1, <2>3 DEF Upload
  <2>5. Progress(u)'
    BY <2>2, <2>3, <2>4 DEF Progress
  <2> QED
    BY <1>0, <1>6, <2>1, <2>2, <2>3, <2>5, SettledLate DEF Upload, Late
<1>7. CASE Mark(u)
  <2> DEFINE l == [run[u] EXCEPT !.step = "deploy_worker", !.pc = "wait"]
  <2>1. run' = [run EXCEPT ![u] = l]
    BY <1>7, <1>0 DEF Mark
  <2>2. l.pc = "wait" /\ l.keys = run[u].keys /\ l.target = run[u].target
    BY <1>0 DEF RunState
  <2> HIDE DEF l
  <2>3. run'[u] = l
    BY <1>0, <2>1
  <2>4. Progress(u) => Progress(u)'
    BY <1>7, <2>2, <2>3 DEF Mark, Progress, Late
  <2> QED
    BY <1>0, <1>7, <2>1, <2>2, <2>4, SettledLate DEF Mark, Late
<1>8. CASE Wait(u)
  <2>1. CASE Answers(u)
    <3> DEFINE l == [run[u] EXCEPT !.pc = "manifest", !.tries = 0]
    <3>1. run' = [run EXCEPT ![u] = l]
      BY <1>8, <2>1, <1>0 DEF Wait
    <3>2. l.pc = "manifest" /\ l.keys = run[u].keys /\ l.target = run[u].target
      BY <1>0 DEF RunState
    <3> HIDE DEF l
    <3>3. run'[u] = l
      BY <1>0, <3>1
    <3>4. Progress(u) => Progress(u)'
      BY <1>8, <2>1, <3>2, <3>3 DEF Wait, Answers, Progress, Late
    <3> QED
      BY <1>0, <1>8, <3>1, <3>2, <3>4, SettledLate DEF Wait, Late
  <2>2. CASE ~Answers(u) /\ AttemptsLeft(u)
    <3> DEFINE tries == IF run[u].tries < WaitTries THEN run[u].tries + 1 ELSE WaitTries
               l     == [run[u] EXCEPT !.tries = tries]
    <3>1. run' = [run EXCEPT ![u] = l]
      BY <1>8, <2>2, <1>0 DEF Wait
    <3> HIDE DEF tries
    <3>2. l.pc = "wait" /\ l.keys = run[u].keys /\ l.target = run[u].target
      BY <1>0, <1>8 DEF RunState, Wait
    <3> HIDE DEF l
    <3>3. run'[u] = l
      BY <1>0, <3>1
    <3>4. Progress(u) => Progress(u)'
      BY <1>8, <3>2, <3>3 DEF Wait, Progress, Late
    <3> QED
      BY <1>0, <1>8, <3>1, <3>2, <3>4, SettledLate DEF Wait, Late
  <2>3. CASE ~Answers(u) /\ ~AttemptsLeft(u)
    <3>1. Exit(u, "stopped") /\ last' = u /\ overlap' = overlap
      BY <1>8, <2>3 DEF Wait
    <3> QED
      BY <1>0, <3>1, SettledExit
  <2> QED
    BY <2>1, <2>2, <2>3
<1>9. CASE WriteManifest(u)
  <2>1. Goto(u, "migrate") /\ run[u].pc = "manifest"
    BY <1>9 DEF WriteManifest
  <2>2. /\ ManifestOf(u).version = run[u].target
        /\ ManifestOf(u).updated => ~run[u].create
    BY DEF ManifestOf, NoManifest
  <2>3. Progress(u) => Progress(u)'
    BY <1>9, <2>1, <2>2, <1>g DEF WriteManifest, Progress, Late
  <2> QED
    BY <1>0, <1>9, <2>1, <2>3, <1>g, SettledLate DEF WriteManifest, Late
<1>10. CASE RecordMigration(u)
  BY <1>10
  DEF RecordMigration, SettledInv, Alone, AtWork, LastAgreed, Agreed, Progress
<1>11. CASE MigrationsDone(u)
  <2>1. Goto(u, "config") /\ run[u].pc = "migrate"
    BY <1>11 DEF MigrationsDone
  <2>2. Progress(u) => Progress(u)'
    BY <1>11, <2>1, <1>g DEF MigrationsDone, Progress, Late
  <2> QED
    BY <1>0, <1>11, <2>1, <2>2, <1>g, SettledLate DEF MigrationsDone, Late
<1>12. CASE WriteConfig(u)
  <2>1. config'[HomeOf[u]] = run[u].keys
    BY <1>12, HomeAssumption DEF WriteConfig, TypeInv, TypeOK
  <2>2. CASE run[u].create
    <3>1. Progress(u) => Agreed(u)'
      BY <1>12, <2>1, <2>2 DEF WriteConfig, Progress, Late, Agreed
    <3> QED
      BY <1>0, <1>12, <2>2, <3>1, SettledExit DEF WriteConfig
  <2>3. CASE ~run[u].create
    <3>1. Goto(u, "release") /\ run[u].pc = "config"
      BY <1>12, <2>3 DEF WriteConfig
    <3>2. Progress(u) => Progress(u)'
      BY <1>12, <2>1, <3>1, <1>g DEF WriteConfig, Progress, Late
    <3> QED
      BY <1>0, <1>12, <3>1, <3>2, <1>g, SettledLate DEF WriteConfig, Late
  <2> QED
    BY <2>2, <2>3
<1>13. CASE ReleaseLock(u)
  <2>1. Progress(u) => Agreed(u)'
    BY <1>13 DEF ReleaseLock, Progress, Late, Agreed
  <2> QED
    BY <1>0, <1>13, <2>1, SettledExit DEF ReleaseLock
<1> QED
  BY <1>1, <1>2, <1>3, <1>4, <1>5, <1>6, <1>7, <1>8, <1>9, <1>10, <1>11, <1>12,
     <1>13 DEF Continue

\* A new invocation finds nobody at work, or there is an overlap.
LEMMA SettledStart ==
    ASSUME TypeInv, SettledInv, NEW u \in Runs, StartUpdate(u) \/ StartCreate(u)
    PROVE  SettledInv'
<1>1. ASSUME NEW l, Start(u, l), l.pc \in {"read", "upload"} PROVE SettledInv'
  <2> SUFFICES ASSUME ~overlap'
               PROVE  (Alone /\ LastAgreed /\ \A w \in Runs : Progress(w))'
    BY DEF SettledInv
  <2>1. Alone /\ LastAgreed /\ \A w \in Runs : Progress(w) /\ ~AtWork(w)
    BY <1>1 DEF Start, SettledInv
  <2>2. run'[u] = l /\ \A w \in Runs \ {u} : run'[w] = run[w]
    BY <1>1 DEF Start, TypeInv, TypeOK
  <2>3. Alone'
    BY <2>1, <2>2 DEF Alone, AtWork
  <2>4. \A w \in Runs : ~Late(run[w]) /\ ~Late(run'[w])
    BY <1>1, <2>1, <2>2 DEF AtWork, Late
  <2>5. \A w \in Runs : Progress(w)'
    BY <2>4 DEF Progress, Late
  <2>6. LastAgreed'
    <3>1. last \in Runs \union {None}
      BY DEF TypeInv, TypeOK
    <3> QED
      BY <1>1, <2>1, <2>2, <2>4, <3>1 DEF Start, LastAgreed, Agreed
  <2> QED
    BY <2>3, <2>5, <2>6
<1>2. CASE StartUpdate(u)
  <2>1. PICK force \in BOOLEAN :
          Start(u, [NewRun EXCEPT !.pc = "read", !.force = force,
                                  !.target = latest, !.keys = config[HomeOf[u]]])
    BY <1>2 DEF StartUpdate
  <2>2. [NewRun EXCEPT !.pc = "read", !.force = force, !.target = latest,
                       !.keys = config[HomeOf[u]]].pc = "read"
    BY DEF NewRun
  <2> QED
    BY <1>1, <2>1, <2>2
<1>3. CASE StartCreate(u)
  <2>1. PICK version \in 1 .. latest :
          Start(u, [NewRun EXCEPT !.pc = "upload", !.create = TRUE, !.target = version])
    BY <1>3 DEF StartCreate
  <2>2. [NewRun EXCEPT !.pc = "upload", !.create = TRUE, !.target = version].pc = "upload"
    BY DEF NewRun
  <2> QED
    BY <1>1, <2>1, <2>2
<1> QED
  BY <1>2, <1>3

LEMMA SettledStep ==
    ASSUME TypeInv, SettledInv, [Next]_vars
    PROVE  SettledInv'
<1> USE DEF SettledInv, Alone, AtWork, LastAgreed, Agreed, Progress
<1>1. CASE Release \/ Tick
  BY <1>1 DEF Release, Tick
<1>2. CASE RollOut
  BY <1>2 DEF RollOut, Late
<1>3. ASSUME NEW u \in Runs, StartUpdate(u) \/ StartCreate(u) PROVE SettledInv'
  BY <1>3, SettledStart
<1>4. ASSUME NEW u \in Runs, Continue(u) PROVE SettledInv'
  BY <1>4, SettledContinue
<1>5. ASSUME NEW u \in Runs, Stop(u) PROVE SettledInv'
  BY <1>5, SettledExit DEF Stop
<1>6. CASE UNCHANGED vars
  BY <1>6 DEF vars
<1> QED
  BY <1>1, <1>2, <1>3, <1>4, <1>5, <1>6 DEF Next

\* Whatever updates and creations ran before and wherever they stopped, an
\* invocation that completes without overlap leaves manifest, script, live
\* version and its machine's keys in agreement, and they stay so until the
\* next one.
THEOREM UpdateSettledAgreement == Spec => []SettledAgreement
<1>1. SettledInv => SettledAgreement
  BY DEF SettledInv, SettledAgreement, LastAgreed, Agreed, Late, AtWork
<1> QED
  BY <1>1, TypeInit, TypeStep, SettledInit, SettledStep, PTL DEF Spec
=============================================================================
