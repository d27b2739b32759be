------------------------ MODULE BrowserSessionChild ------------------------
(***************************************************************************)
(* One approved browser-session command of the CLI: it fetches the         *)
(* session, starts the user's program, hands it the bundle over one pipe,  *)
(* reads one result from another and tells the Worker (index.ts of the     *)
(* CLI, from browserSessionCommand), with the framing and the SDK of       *)
(* packages/browser-session.                                               *)
(*                                                                         *)
(* The result pipe is modelled byte by byte, as a count of bytes written   *)
(* and read, because where a chunk ends is up to the kernel; of the input  *)
(* pipe only whether the child took the frame.  The user's program is      *)
(* anything: it may use the SDK or write what it likes, exit at any point, *)
(* ignore SIGTERM or hang, and leave descriptor 4 to a process of its own. *)
(* Of the Worker there is the lease, which may lapse at any time, and      *)
(* every call to it may be lost on either way.                             *)
(***************************************************************************)
EXTENDS Naturals

CONSTANTS Header,    \* bytes of the length prefix (4)
          MaxBytes,  \* MAX_BROWSER_SESSION_FRAME_BYTES
          Puttable   \* the longest commit whose encryption the Worker takes

ASSUME SizeAssumption ==
    Header \in Nat \ {0} /\ MaxBytes \in Nat /\ Puttable \in 0..MaxBytes

VARIABLES
    access,    \* what was approved
    pc,        \* browserSessionCommand
    own,       \* the config read after the approval names the same Worker
    child,     \* the user's program
    frame,     \* what it announces: the length and the meaning of its payload
    sent,      \* bytes it has written to descriptor 4
    open,      \* somebody holds descriptor 4 for writing
    reader,    \* readLengthPrefixedJson on that pipe
    got,       \* bytes it has consumed
    aborted,   \* controller.signal of runBrowserSessionChild
    force,     \* forceKillTimer
    signalled, \* one of SIGINT, SIGTERM, SIGHUP came
    lease,     \* the transaction, at the Worker
    lost       \* history: how many calls to the Worker, or answers, were lost

pipe == <<frame, sent, open>>
read == <<reader, got>>
stop == <<aborted, force, signalled>>
vars == <<access, pc, own, child, pipe, read, stop, lease, lost>>

Reads   == {"restore", "restore_and_update"}
Modes   == Reads \union {"create", "replace"}
Reasons == {"unchanged", "reauth_required", "user_cancelled", "operation_failed"}
Results == Reasons \union {"commit"}
Told    == {"done", "failed"}            \* the ends of the try block
Ended   == Told \union {"early", "dead"}

\* What a program can announce.  An empty payload is no JSON, and nobody
\* looks at one that is too long.
Frames ==
    [len : 1..MaxBytes, says : Results \union {"invalid", "malformed"}]
        \union [len : {0, MaxBytes + 1}, says : {"malformed"}]

Lease == [st : {"open", "committed", "aborted", "gone"}, why : Results]

Child ==
    [st   : {"none", "running", "ok", "error", "signal", "unborn"},
     sdk  : BOOLEAN,  \* it uses the SDK
     took : BOOLEAN,  \* it has read the input frame
     said : BOOLEAN,  \* finished
     term : BOOLEAN]  \* it was sent SIGTERM

TypeOK ==
    /\ access \in Modes
    /\ pc \in {"config", "get", "spawn", "write", "wait", "abort", "refuse",
               "put", "catch"} \union Ended
    /\ own \in BOOLEAN
    /\ child \in Child
    /\ frame \in Frames
    /\ sent \in Nat /\ got \in 0..sent
    /\ open \in BOOLEAN
    /\ reader \in {"off", "header", "payload", "ok", "truncated", "trailing",
                   "oversized", "malformed", "aborted"}
    /\ aborted \in BOOLEAN /\ force \in BOOLEAN /\ signalled \in BOOLEAN
    /\ lease \in Lease
    /\ lost \in 0..2

Init ==
    /\ access \in Modes
    /\ pc = "config"
    /\ own = TRUE
    /\ child = [st |-> "none", sdk |-> FALSE, took |-> FALSE, said |-> FALSE, term |-> FALSE]
    /\ frame = [len |-> 0, says |-> "malformed"]
    /\ sent = 0 /\ open = FALSE
    /\ reader = "off" /\ got = 0
    /\ aborted = FALSE /\ force = FALSE /\ signalled = FALSE
    /\ lease = [st |-> "open", why |-> "commit"]
    /\ lost = 0

Running == child.st = "running"
Alive   == pc \notin Ended

-----------------------------------------------------------------------------
(***************************************************************************)
(* Framing.                                                                *)
(***************************************************************************)
\* decodeLengthPrefixedJson, of everything the child has written.
Decode ==
    CASE sent < Header                        -> "truncated"
      [] sent >= Header /\ frame.len > MaxBytes -> "oversized"
      [] sent >= Header /\ frame.len <= MaxBytes /\ sent # Header + frame.len -> "length"
      [] OTHER -> IF frame.says = "malformed" THEN "malformed" ELSE "ok"

\* The verdict on a stream that ended during the payload.
AtEnd ==
    CASE aborted -> "aborted"
      [] ~aborted /\ got # Header + frame.len -> "truncated"
      [] OTHER -> IF frame.says = "malformed" THEN "malformed" ELSE "ok"

\* A chunk of n bytes.  In the header phase what exceeds the prefix is put
\* back with unshift and comes again.
ReadChunk(n) ==
    /\ pc = "wait" /\ n \in 1..(sent - got)
    /\ \/ /\ reader = "header"
          /\ IF got + n < Header
             THEN got' = got + n /\ UNCHANGED reader
             ELSE /\ got' = Header
                  /\ reader' = IF frame.len > MaxBytes THEN "oversized" ELSE "payload"
       \/ /\ reader = "payload"
          /\ IF aborted THEN reader' = "aborted" /\ UNCHANGED got
             ELSE IF got + n > Header + frame.len
             THEN reader' = "trailing" /\ UNCHANGED got
             ELSE got' = got + n /\ UNCHANGED reader
    /\ UNCHANGED <<access, pc, own, child, pipe, stop, lease, lost>>

ReadEnd ==
    /\ pc = "wait" /\ ~open /\ got = sent
    /\ \/ reader = "header" /\ reader' = "truncated"
       \/ reader = "payload" /\ reader' = AtEnd
    /\ UNCHANGED <<access, pc, own, child, pipe, got, stop, lease, lost>>

-----------------------------------------------------------------------------
(***************************************************************************)
(* The user's program.                                                     *)
(***************************************************************************)
\* The CLI has not destroyed its end yet.
Talking == Running /\ open /\ pc \in {"write", "wait"}

Take ==
    /\ Running /\ ~child.took /\ pc \in {"write", "wait"}
    /\ child' = [child EXCEPT !.took = TRUE]
    /\ UNCHANGED <<access, pc, own, pipe, read, stop, lease, lost>>

\* frame.writeUInt32BE(payload.length)
Announced(n) == n

\* commit and abort of the SDK: valid, small enough, and once.
Finish(result, n) ==
    /\ Talking /\ child.sdk /\ ~child.said
    /\ result \in Results /\ n \in 1..MaxBytes
    /\ frame' = [len |-> Announced(n), says |-> result]
    /\ child' = [child EXCEPT !.said = TRUE]
    /\ UNCHANGED <<access, pc, own, sent, open, read, stop, lease, lost>>

\* writeLengthPrefixedJson: stream.end(frame), flushed piece by piece; the
\* SDK's own deadline destroys the stream.
Flush(n) ==
    /\ Talking /\ child.sdk /\ child.said
    /\ \/ /\ sent + n <= Header + frame.len
          /\ sent' = sent + n
          /\ open' = (sent' < Header + frame.len)
       \/ UNCHANGED sent /\ open' = FALSE
    /\ UNCHANGED <<access, pc, own, child, frame, read, stop, lease, lost>>

\* A program without the SDK writes any bytes.
Scribble(n) ==
    /\ Talking /\ ~child.sdk
    /\ sent + n <= Header + MaxBytes + 1
    /\ sent' = sent + n
    /\ IF sent = 0 THEN frame' \in Frames ELSE UNCHANGED frame
    /\ \/ UNCHANGED open
       \/ open' = FALSE
    /\ UNCHANGED <<access, pc, own, child, read, stop, lease, lost>>

\* It exits, or a signal ends it.  Its descriptors close, but a process it
\* has started may have inherited them.  The exit handler clears the timer.
Exit(st) ==
    /\ Running
    /\ st \in {"ok", "error", "signal"}
    /\ child' = [child EXCEPT !.st = st]
    /\ \/ open' = FALSE
       \/ UNCHANGED open
    /\ force' = FALSE
    /\ UNCHANGED <<access, pc, own, frame, sent, read, aborted, signalled, lease, lost>>

\* That process closes it, or ends.
Released ==
    /\ child.st \in {"ok", "error", "signal"} /\ open
    /\ open' = FALSE
    /\ UNCHANGED <<access, pc, own, child, frame, sent, read, stop, lease, lost>>

-----------------------------------------------------------------------------
(***************************************************************************)
(* runBrowserSessionChild.                                                 *)
(***************************************************************************)
\* stopChild
Stopped == IF Running THEN [child EXCEPT !.term = TRUE] ELSE child

\* Mutant: the timer for SIGKILL is never set.
ArmedNot == force

\* setTimeout(... SIGKILL ..., 2_000)
Armed == force \/ Running

\* The child could not be spawned: "error" instead of "exit".
Spawn ==
    /\ pc = "spawn"
    /\ \E sdk \in BOOLEAN, st \in {"running", "unborn"} :
          /\ child' = [child EXCEPT !.st = st, !.sdk = sdk]
          /\ open' = (st = "running")
    /\ pc' = "write"
    /\ UNCHANGED <<access, own, frame, sent, read, stop, lease, lost>>

\* The input frame fits the pipe, or the child has taken it, or the stream
\* calls back with an error, which "resolve" does not look at.
Written ==
    /\ pc = "write" /\ ~aborted
    /\ pc' = "wait"
    /\ reader' = "header"
    /\ UNCHANGED <<access, own, child, pipe, got, stop, lease, lost>>

\* The transaction timer.  Only the header phase of the reader has a listener
\* on the signal (onAbort).
Timeout ==
    /\ pc \in {"write", "wait"} /\ ~aborted
    /\ aborted' = TRUE
    /\ child' = Stopped
    /\ force' = Armed
    /\ reader' = IF reader = "header" THEN "aborted" ELSE reader
    /\ UNCHANGED <<access, pc, own, pipe, got, signalled, lease, lost>>

\* process.once(signal, stopChild)
Signal ==
    /\ pc \in {"write", "wait"} /\ ~signalled
    /\ signalled' = TRUE
    /\ child' = Stopped
    /\ force' = Armed
    /\ UNCHANGED <<access, pc, own, pipe, read, aborted, lease, lost>>

ForceKill ==
    /\ force /\ Alive /\ Running
    /\ child' = [child EXCEPT !.st = "signal"]
    /\ \/ open' = FALSE
       \/ UNCHANGED open
    /\ force' = FALSE
    /\ UNCHANGED <<access, pc, own, frame, sent, read, aborted, signalled, lease, lost>>

\* The finally block: clear both timers, controller.abort(), close the
\* channels.  The listener stopChild has run already if the signal is aborted;
\* and it sets no second timer.
CleanedUp ==
    /\ aborted' = TRUE
    /\ child' = IF aborted THEN child ELSE Stopped
    /\ force' = (~aborted /\ ~force /\ Running)

\* Writing the input fails: nobody reads it, or the time is up.
WriteFails ==
    /\ pc = "write"
    /\ aborted \/ ~child.took
    /\ pc' = "catch"
    /\ CleanedUp
    /\ UNCHANGED <<access, own, pipe, read, signalled, lease, lost>>

\* Promise.all rejects with the first of the two that fails.
Fails ==
    /\ pc = "wait"
    /\ reader \notin {"header", "payload", "ok"} \/ child.st \in {"signal", "unborn"}
    /\ pc' = "catch"
    /\ CleanedUp
    /\ UNCHANGED <<access, own, pipe, read, signalled, lease, lost>>

\* Mutant: the exit code is not looked at.
AfterChildAnyExit ==
    CASE frame.says \in Reasons -> "abort"
      [] frame.says = "commit" -> IF access = "restore" THEN "refuse" ELSE "put"
      [] OTHER -> "catch"

\* What the command does with the result, the exit code being known.
AfterChild ==
    CASE child.st = "error" -> "catch"
      [] child.st = "ok" /\ frame.says \in Reasons -> "abort"
      [] child.st = "ok" /\ frame.says = "commit" ->
            IF access = "restore" THEN "refuse" ELSE "put"
      [] OTHER -> "catch"

Joined ==
    /\ pc = "wait"
    /\ reader = "ok" /\ child.st \in {"ok", "error"}
    /\ pc' = AfterChild
    /\ CleanedUp
    /\ UNCHANGED <<access, own, pipe, read, signalled, lease, lost>>

-----------------------------------------------------------------------------
(***************************************************************************)
(* browserSessionCommand, from the approved grant on.                      *)
(***************************************************************************)
\* The config is read again after the approval, outside the try: it may name
\* another Worker by then, or none, and the data key may be malformed.
Configure ==
    /\ pc = "config"
    /\ \/ pc' = "early" /\ UNCHANGED own
       \/ own' \in BOOLEAN /\ pc' = IF access \in Reads THEN "get" ELSE "spawn"
    /\ UNCHANGED <<access, child, pipe, read, stop, lease, lost>>

\* GET artifact, and its decryption; a refusal or a loss ends in the catch.
Get ==
    /\ pc = "get"
    /\ \/ own /\ lease.st = "open" /\ pc' = "spawn"
       \/ pc' = "catch"
    /\ UNCHANGED <<access, own, child, pipe, read, stop, lease, lost>>

\* The abort of a creation deletes the row of its session, which the lease refers
\* to: the Worker's batch is rolled back and answered with 500.  For
\* reauth_required the row has just left the state that is deleted.
RolledBack(l) ==
    l.st = "aborted" /\ access = "create" /\ l.why # "reauth_required"

\* A call that would settle the lease as l, and what the CLI does when it is
\* answered with ok (then) and when it is not (otherwise).
Settle(l, then, otherwise) ==
    \/ /\ own /\ lease.st = "open" /\ ~RolledBack(l)
       /\ lease' = l
       /\ \/ pc' = then /\ UNCHANGED lost
          \/ pc' = otherwise /\ lost' = lost + 1
    \/ /\ ~(own /\ lease.st = "open" /\ ~RolledBack(l))
       /\ pc' = otherwise
       /\ UNCHANGED <<lease, lost>>
    \/ /\ pc' = otherwise
       /\ lost' = lost + 1
       /\ UNCHANGED lease

AbortedFor(why) == [st |-> "aborted", why |-> why]
Benign == {"unchanged", "user_cancelled"}

\* abortBrowserSessionTransaction with the child's reason; the reasons that
\* are no success are thrown, into the catch.
Abort ==
    /\ pc = "abort"
    /\ Settle(AbortedFor(frame.says), IF frame.says \in Benign THEN "done" ELSE "catch", "catch")
    /\ UNCHANGED <<access, own, child, pipe, read, stop>>

\* A read-only command whose child commits.
Refuse ==
    /\ pc = "refuse"
    /\ Settle(AbortedFor("operation_failed"), "catch", "catch")
    /\ UNCHANGED <<access, own, child, pipe, read, stop>>

\* PUT artifact.  The encrypted artifact is longer than the bundle, and the
\* Worker answers one that is too long with 413, before it claims the lease; having
\* claimed it, it may still fail to store the artifact.
Put ==
    /\ pc = "put"
    /\ \/ /\ frame.len <= Puttable
          /\ Settle([st |-> "committed", why |-> "commit"], "done", "catch")
       \/ /\ frame.len > Puttable
          /\ pc' = "catch"
          /\ UNCHANGED <<lease, lost>>
       \/ /\ own /\ lease.st = "open"
          /\ lease' = [lease EXCEPT !.st = "gone"]
          /\ pc' = "catch"
          /\ UNCHANGED lost
    /\ UNCHANGED <<access, own, child, pipe, read, stop>>

\* Mutant: the catch only rethrows.
CatchQuietly ==
    /\ pc = "catch" /\ pc' = "failed"
    /\ UNCHANGED <<access, own, child, pipe, read, stop, lease, lost>>

\* catch: abort with operation_failed, whatever happened, and rethrow;
\* main then exits with 1.
Catch ==
    /\ pc = "catch"
    /\ Settle(AbortedFor("operation_failed"), "failed", "failed")
    /\ UNCHANGED <<access, own, child, pipe, read, stop>>

\* The exit promise is rejected while nobody waits for it: before Promise.all
\* was reached, or when it never will be.  Whether an unhandled rejection ends
\* the process is up to the runtime.
Unhandled ==
    /\ pc \in {"write", "catch"} /\ reader = "off"
    /\ child.st \in {"unborn", "signal"}
    /\ pc' = "dead"
    /\ UNCHANGED <<access, own, child, pipe, read, stop, lease, lost>>

\* Killed: by SIGKILL, by a signal while no handler is installed, or by the
\* second one of a kind.
Die ==
    /\ Alive
    /\ pc' = "dead"
    /\ UNCHANGED <<access, own, child, pipe, read, stop, lease, lost>>

\* The lease expires, or the session is revoked.
Lapse ==
    /\ lease.st = "open"
    /\ lease' = [lease EXCEPT !.st = "gone"]
    /\ UNCHANGED <<access, pc, own, child, pipe, read, stop, lost>>

Cli ==
    \/ Configure \/ Get \/ Spawn \/ Written \/ WriteFails \/ Fails \/ Joined
    \/ Abort \/ Refuse \/ Put \/ Catch
    \/ (\E n \in 1..(Header + MaxBytes + 1) : ReadChunk(n))
    \/ ReadEnd

User ==
    \/ Take
    \/ \E result \in Results, n \in 1..MaxBytes : Finish(result, n)
    \/ \E n \in 1..(Header + MaxBytes + 1) : Flush(n) \/ Scribble(n)
    \/ \E st \in {"ok", "error", "signal"} : Exit(st)
    \/ Released

Next ==
    \/ Cli \/ User \/ Timeout \/ Signal \/ ForceKill \/ Unhandled \/ Die \/ Lapse

Spec == Init /\ [][Next]_vars

\* The CLI is scheduled, its timers fire, and a call to the Worker is
\* answered or fails.  Nothing is asked of the user's program.
FairSpec == Spec /\ WF_vars(Cli) /\ WF_vars(Timeout) /\ WF_vars(ForceKill)

-----------------------------------------------------------------------------
(***************************************************************************)
(* Properties.                                                             *)
(***************************************************************************)
\* What the Worker is given to keep is one whole frame, the only thing the
\* child wrote, announced a commit, came from a child that then exited with 0,
\* and was allowed by what the phone approved.
CommitIsWhole ==
    lease.st = "committed" =>
        /\ Decode = "ok" /\ got = sent /\ ~open
        /\ frame.says = "commit" /\ frame.len <= Puttable
        /\ child.st = "ok"
        /\ access # "restore"

\* The exit code agrees with the lease.  A command that succeeds has committed,
\* or aborted for the reason the child gave and that is no failure.  One that
\* fails has stored nothing, unless the answer to its commit was lost, and has
\* given the lease up, unless a call to the Worker was lost, the config named
\* another Worker by then, or it was a creation: the Worker can take back none
\* but one whose child said reauth_required, although every abort should consume
\* the capability (docs/browser-session-vault.md:543).  A reason the child gave
\* is the one recorded, unless a call was lost.  And a child that is left running
\* was told to stop.
OutcomeIsTold ==
    /\ pc = "done" =>
          \/ lease.st = "committed"
          \/ lease = AbortedFor(frame.says) /\ frame.says \in Benign
    /\ pc = "failed" /\ lease.st = "committed" => lost > 0
    /\ pc \in Told /\ lease.st = "open" =>
          \/ ~own \/ lost > 0
          \/ access = "create" /\ ~(reader = "ok" /\ child.st = "ok"
                                     /\ frame.says = "reauth_required")
    /\ lease.st = "aborted" /\ reader = "ok" /\ child.st = "ok" /\ frame.says \in Reasons =>
          lease.why = frame.says \/ lost > 0
    /\ pc \in Told /\ Running => child.term

\* Every command ends, whatever the user's program does, unless a process that
\* program left behind keeps descriptor 4 open after its length prefix: the
\* payload phase waits for the end of the stream and hears no deadline.
EveryCommandEnds ==
    <>(~Alive) \/ <>[](reader = "payload" /\ open /\ ~Running)
=============================================================================
