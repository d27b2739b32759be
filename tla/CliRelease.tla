----------------------------- MODULE CliRelease -----------------------------
(***************************************************************************)
(* Releases on one machine (index.ts of the CLI): invocations of self      *)
(* update, which replaces the executable they all run from, and of vault   *)
(* create and vault update, which deploy the web artifact of a release     *)
(* from ~/.sickrat/artifacts, one directory for each version.  Nothing is  *)
(* locked.                                                                 *)
(*                                                                         *)
(* What a download yields has been verified against SHA256SUMS or it has   *)
(* failed; the archive is unpacked, file by file, in place.  A file is     *)
(* absent, being written, or whole.  The backup of the executable has the  *)
(* time in its name; no two invocations have the same.  The order of their *)
(* calls at Cloudflare is VaultUpdate.                                     *)
(***************************************************************************)
EXTENDS Naturals

CONSTANTS Updaters,    \* invocations
          MaxVersion   \* bound on the releases

ASSUME ReleaseAssumption == MaxVersion \in Nat \ {0}

VARIABLES
    latest,   \* the newest release
    exe,      \* the version of process.execPath
    bak,      \* the backup that each invocation has made of it
    dir,      \* the files of each web artifact, between absent and whole
    job,      \* the invocations
    spoiled   \* history: directories that two have rewritten at a time, or
              \* one has died over, and that have not been emptied since

releaseVars == <<latest, exe, bak, dir, job, spoiled>>

Versions == 1..MaxVersion
Missing  == 0    \* in place of an executable or a backup

UpdateCommands == {"self", "create", "update", "both"}

\* Of the client there is index.html and another file, of the Worker index.js.
Client == {"index.html", "other"}
Files  == Client \union {"index.js"}
Absent == 0
Whole  == 2

Changing  == {"clear", "fetch", "extract", "discard"}
Reading   == {"check", "list", "send", "worker"}
Gone      == {"done", "current", "given", "failed", "stranded", "killed"}

ReleaseTypeOK ==
    /\ latest \in Versions /\ exe \in Versions \union {Missing}
    /\ bak \in [Updaters -> Versions \union {Missing}]
    /\ dir \in [Versions -> [Files -> Absent..Whole]]
    /\ job \in [Updaters -> [cmd   : UpdateCommands,
                             pc    : {"start", "download", "backup", "install", "restore", "tidy",
                                      "artifact"} \union Changing \union Reading \union Gone,
                             own   : 0..MaxVersion,      \* cliVersion
                             ver   : 0..MaxVersion,      \* the release it installs or deploys
                             files : SUBSET Files,       \* unpacked by its tar, or read whole
                             seen  : SUBSET Client,      \* in the asset manifest
                             doubt : BOOLEAN]]           \* history: spoiled while it was used
    /\ spoiled \subseteq Versions

New(cmd) == [cmd |-> cmd, pc |-> "start", own |-> 0, ver |-> 0, files |-> {}, seen |-> {},
             doubt |-> FALSE]

ReleaseInit ==
    /\ latest = 1 /\ exe = 1
    /\ bak = [p \in Updaters |-> Missing]
    /\ dir = [v \in Versions |-> [f \in Files |-> Absent]]
    /\ job \in [Updaters -> {New(cmd) : cmd \in UpdateCommands}]
    /\ spoiled = {}

-----------------------------------------------------------------------------
SetJob(p, to)  == job' = [job EXCEPT ![p] = to]
Advance(p, pc) == SetJob(p, [job[p] EXCEPT !.pc = pc])

Publish ==
    /\ latest < MaxVersion
    /\ latest' = latest + 1
    /\ UNCHANGED <<exe, bak, dir, job, spoiled>>

\* vault create deploys the release of its own version, the others look for
\* the latest one.
Target(cmd) == IF cmd = "create" THEN exe ELSE latest

\* It runs from the executable there is.
Launch(p) ==
    /\ job[p].pc = "start" /\ exe # Missing
    /\ LET ver == Target(job[p].cmd)
       IN  SetJob(p, [job[p] EXCEPT
               !.own = exe, !.ver = ver,
               !.pc = CASE job[p].cmd \in {"create", "update"} -> "artifact"
                        [] job[p].cmd = "self" /\ exe >= ver   -> "current"
                        [] job[p].cmd = "both" /\ exe >= ver   -> "artifact"
                        [] OTHER                               -> "download"])
    /\ UNCHANGED <<latest, exe, bak, dir, spoiled>>

\* Any call may fail, and Ctrl-C or SIGKILL may end the process (and its tar).
\* A removal that fails half way leaves what a kill leaves.
CallFails(p) ==
    /\ job[p].pc \in {"download", "artifact", "list", "send", "worker"}
    /\ Advance(p, "failed")
    /\ UNCHANGED <<latest, exe, bak, dir, spoiled>>

Interrupted(p) ==
    /\ job[p].pc \notin Gone \union {"start"}
    /\ Advance(p, "killed")
    /\ spoiled' = IF job[p].pc \in Changing THEN spoiled \union {job[p].ver} ELSE spoiled
    /\ UNCHANGED <<latest, exe, bak, dir>>

-----------------------------------------------------------------------------
(***************************************************************************)
(* selfUpdate.                                                             *)
(***************************************************************************)
\* downloadVerifiedReleaseAsset, of the binary or of the web artifact.
Downloaded(p) ==
    /\ \/ job[p].pc = "download" /\ Advance(p, "backup")
       \/ job[p].pc = "fetch" /\ Advance(p, "extract")
    /\ UNCHANGED <<latest, exe, bak, dir, spoiled>>

\* Mutant: the executable is copied to its backup.
MovedCopy == exe

\* rename(currentPath, backupPath)
Moved == Missing

\* If the new binary answers to --version as it should, and can be moved.
Backup(p) ==
    /\ job[p].pc = "backup"
    /\ \/ /\ exe # Missing
          /\ bak' = [bak EXCEPT ![p] = exe]
          /\ exe' = Moved
          /\ Advance(p, "install")
       \/ Advance(p, "failed") /\ UNCHANGED <<exe, bak>>
    /\ UNCHANGED <<latest, dir, spoiled>>

\* rename(nextPath, currentPath) fails, for one, if they are on two devices.
Install(p) ==
    /\ job[p].pc = "install"
    /\ \/ exe' = job[p].ver /\ Advance(p, "tidy")
       \/ Advance(p, "restore") /\ UNCHANGED exe
    /\ UNCHANGED <<latest, bak, dir, spoiled>>

\* rename(backupPath, currentPath), whose failure is swallowed; the command
\* fails in either case.
Restore(p) ==
    /\ job[p].pc = "restore"
    /\ \/ /\ exe' = bak[p]
          /\ bak' = [bak EXCEPT ![p] = Missing]
          /\ Advance(p, "failed")
       \/ Advance(p, "stranded") /\ UNCHANGED <<exe, bak>>
    /\ UNCHANGED <<latest, dir, spoiled>>

\* selfUpdate has returned; updateAll goes on with vault update.
Returned(p) ==
    IF job[p].cmd = "both"
    THEN SetJob(p, [job[p] EXCEPT !.pc = "artifact", !.ver = Target("update")])
    ELSE Advance(p, "done")

\* The backup is removed.
Tidy(p) ==
    /\ job[p].pc = "tidy"
    /\ bak' = [bak EXCEPT ![p] = Missing]
    /\ Returned(p)
    /\ UNCHANGED <<latest, exe, dir, spoiled>>

\* The user did not want the update.
Cancelled(p) ==
    /\ job[p].pc = "download"
    /\ Returned(p)
    /\ UNCHANGED <<latest, exe, bak, dir, spoiled>>

-----------------------------------------------------------------------------
(***************************************************************************)
(* downloadReleaseWebArtifact.                                             *)
(***************************************************************************)
Users(p, pcs) == {q \in Updaters \ {p} : job[q].ver = job[p].ver /\ job[q].pc \in pcs}

Found(v) == \A f \in {"index.js", "index.html"} : dir[v][f] # Absent

\* SICKRAT_WEB_DIST, or vault create in a checkout: the directory is not used.
Given(p) ==
    /\ job[p].pc = "artifact"
    /\ Advance(p, "given")
    /\ UNCHANGED <<latest, exe, bak, dir, spoiled>>

\* What is there will do for vault create, if two files exist.
Reuse(p) ==
    /\ job[p].pc = "artifact" /\ job[p].cmd = "create" /\ Found(job[p].ver)
    /\ SetJob(p, [job[p] EXCEPT !.pc = "list", !.doubt = \/ job[p].ver \in spoiled
                                                         \/ Users(p, Changing) # {}])
    /\ UNCHANGED <<latest, exe, bak, dir, spoiled>>

\* Otherwise the directory is rewritten, under whoever uses it.
Rewrite(p) ==
    LET others == Users(p, Changing \union Reading)
    IN  /\ job[p].pc = "artifact"
        /\ ~(job[p].cmd = "create" /\ Found(job[p].ver))
        /\ job' = [q \in Updaters |->
                     CASE q = p         -> [job[p] EXCEPT !.pc = "clear", !.doubt = others # {}]
                       [] q \in others  -> [job[q] EXCEPT !.doubt = TRUE]
                       [] OTHER         -> job[q]]
        /\ spoiled' = IF others # {} THEN spoiled \union {job[p].ver} ELSE spoiled
        /\ UNCHANGED <<latest, exe, bak, dir>>

NothingIn(v) == \A f \in Files : dir[v][f] = Absent

\* rm, before the download or after a failure; it removes file by file.
RemoveOne(p) ==
    LET v == job[p].ver
    IN  /\ job[p].pc \in {"clear", "discard"}
        /\ \E f \in Files : dir[v][f] # Absent /\ dir' = [dir EXCEPT ![v][f] = Absent]
        /\ UNCHANGED <<latest, exe, bak, job, spoiled>>

Removed(p) ==
    LET v == job[p].ver
    IN  /\ job[p].pc \in {"clear", "discard"} /\ NothingIn(v)
        /\ Advance(p, IF job[p].pc = "clear" THEN "fetch" ELSE "failed")
        /\ spoiled' = IF job[p].doubt THEN spoiled ELSE spoiled \ {v}
        /\ UNCHANGED <<latest, exe, bak, dir>>

\* tar writes a file; over the one that another tar has written, too.
Write(p) ==
    LET v == job[p].ver
    IN  /\ job[p].pc = "extract"
        /\ \E f \in Files \ job[p].files :
              \/ dir[v][f] # 1 /\ dir' = [dir EXCEPT ![v][f] = 1] /\ UNCHANGED job
              \/ /\ dir[v][f] = 1
                 /\ dir' = [dir EXCEPT ![v][f] = Whole]
                 /\ SetJob(p, [job[p] EXCEPT !.files = @ \union {f}])
        /\ UNCHANGED <<latest, exe, bak, spoiled>>

Extracted(p) ==
    /\ job[p].pc = "extract" /\ job[p].files = Files
    /\ Advance(p, "check")
    /\ UNCHANGED <<latest, exe, bak, dir, spoiled>>

\* Mutant: the catch only rethrows.
AfterFailureKept == "failed"

\* The catch removes the directory, and rethrows.
AfterFailure == "discard"

\* The download, its verification or tar fails; or the two files are missing.
ExtractFails(p) ==
    /\ job[p].pc \in {"fetch", "extract", "check"}
    /\ job[p].pc = "check" => ~Found(job[p].ver)
    /\ Advance(p, AfterFailure)
    /\ UNCHANGED <<latest, exe, bak, dir, spoiled>>

Checked(p) ==
    /\ job[p].pc = "check" /\ Found(job[p].ver)
    /\ SetJob(p, [job[p] EXCEPT !.pc = "list", !.files = {}])
    /\ UNCHANGED <<latest, exe, bak, dir, spoiled>>

-----------------------------------------------------------------------------
(***************************************************************************)
(* deployVaultWorker.                                                      *)
(***************************************************************************)
Present(p) == {f \in Files : dir[job[p].ver][f] # Absent}
Intact(p)  == {f \in Files : dir[job[p].ver][f] = Whole}

\* listAssetFiles and createAssetManifest: what is there is what is deployed.
List(p) ==
    /\ job[p].pc = "list"
    /\ IF Present(p) \intersect Client = {} THEN Advance(p, "failed")
       ELSE SetJob(p, [job[p] EXCEPT !.pc = "send", !.seen = Present(p) \intersect Client,
                                     !.files = Intact(p) \intersect Client])
    /\ UNCHANGED <<latest, exe, bak, dir, spoiled>>

\* uploadVaultAssets reads the files once more.
Send(p) ==
    /\ job[p].pc = "send"
    /\ IF job[p].seen \subseteq Present(p)
       THEN SetJob(p, [job[p] EXCEPT !.pc = "worker", !.files = @ \intersect Intact(p)])
       ELSE Advance(p, "failed")
    /\ UNCHANGED <<latest, exe, bak, dir, spoiled>>

\* uploadVaultWorker
Deploy(p) ==
    /\ job[p].pc = "worker"
    /\ IF "index.js" \in Present(p)
       THEN SetJob(p, [job[p] EXCEPT !.pc = "done",
                           !.files = @ \union ({"index.js"} \intersect Intact(p))])
       ELSE Advance(p, "failed")
    /\ UNCHANGED <<latest, exe, bak, dir, spoiled>>

-----------------------------------------------------------------------------
ReleaseNext ==
    \/ Publish
    \/ \E p \in Updaters :
          \/ Launch(p) \/ CallFails(p) \/ Interrupted(p)
          \/ Downloaded(p) \/ Backup(p) \/ Install(p) \/ Restore(p) \/ Tidy(p) \/ Cancelled(p)
          \/ Given(p) \/ Reuse(p) \/ Rewrite(p) \/ RemoveOne(p) \/ Removed(p)
          \/ Write(p) \/ Extracted(p) \/ ExtractFails(p) \/ Checked(p)
          \/ List(p) \/ Send(p) \/ Deploy(p)

ReleaseSpec == ReleaseInit /\ [][ReleaseNext]_releaseVars

-----------------------------------------------------------------------------
(***************************************************************************)
(* Properties.                                                             *)
(***************************************************************************)
\* "Keep a backup of the previous binary until the new one is verified"
\* (docs/vault-updates.md:143), with two invocations at it: one that has moved
\* the executable away finds its place empty until it fills it, so neither
\* installs over the other; and the executable is missing only while one is
\* between its two renames, or when it was killed there or neither the second
\* rename nor the one back was possible; and then its backup is on disk.
ExecutableIsKept ==
    /\ \A p \in Updaters :
          job[p].pc \in {"install", "restore"} => exe = Missing /\ bak[p] # Missing
    /\ exe = Missing => \E p \in Updaters :
                           /\ job[p].pc \in {"install", "restore", "stranded", "killed"}
                           /\ bak[p] # Missing

\* A vault is deployed from all files of a release, each of them whole, however
\* an earlier download or extraction failed; unless the directory was rewritten
\* by two at a time, or by one that was killed.
DeployedIsWhole ==
    \A p \in Updaters :
        job[p].pc = "done" /\ job[p].cmd # "self" => job[p].files = Files \/ job[p].doubt
=============================================================================
