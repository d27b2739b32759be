---------------------------- MODULE OAuthHandoff ----------------------------
(***************************************************************************)
(* How an authorization at an OAuth provider gets back to the installed    *)
(* app.  The app stores a handoff in the vault and shows a link; the       *)
(* provider sends whatever browser opened the link to the vault, which     *)
(* seals the result into the handoff; an effect of the app polls the       *)
(* handoff, exchanges the code and saves the connection.                   *)
(*                                                                         *)
(* A flow is one press of "connect": its handoff, key pair and state.  An  *)
(* effect is one run of the polling effect with the closure it keeps; it   *)
(* is stopped when React cleans it up, and gone when the component it      *)
(* belongs to was unmounted.  Both go on with what they have begun.        *)
(***************************************************************************)
EXTENDS Naturals

CONSTANTS Flows, Effects, Browsers,
          Codes,      \* the authorization codes of each flow
          Denied,     \* the provider's error
          None,
          Ttl,        \* oauthHandoffTtlMs
          Retries,    \* completionRetryCount < 3
          MaxTime

ASSUME NoneAssumption ==
    /\ None \notin Flows \union Codes
    /\ Denied \notin Codes \union {None, "pending", "none"}
    /\ Codes \intersect {"pending", "none"} = {}
ASSUME BoundAssumption == Ttl \in Nat /\ Retries \in Nat /\ MaxTime \in Nat

VARIABLES
    now,
    row,         \* oauth_handoffs
    ask,         \* each call of connectOAuthProvider
    storage,     \* sessionStorage "sickrat.oauth.pending"
    pending,     \* pendingOAuthFlow, of the mounted component
    started,     \* oauthCallbackStartedRef, of the mounted component
    link,        \* oauthAuthorization, of the mounted component
    eff,         \* the effects at work
    visit,       \* the browsers at the callback
    issued,      \* the codes the provider made
    redeemed,    \* the codes it exchanged
    conn         \* by flow, the codes whose token was saved as its connection

tab  == <<storage, pending, started, link>>
vars == <<now, row, ask, tab, eff, visit, issued, redeemed, conn>>

Results == Codes \union {Denied}
Row     == [state   : {"absent", "pending", "completed", "consumed"},
            result  : Results \union {None},
            expires : Nat]
Effect  == [pc      : {"idle", "get", "got", "timer", "complete", "save",
                       "consume", "clear", "giveup", "reset"},
            flow    : Flows \union {None},
            stopped : BOOLEAN,
            gone    : BOOLEAN,
            got     : Results \union {None, "pending", "none"},  \* the poll's answer
            token   : Codes \union {None},                      \* progress.token
            had     : Codes \union {None},    \* history: the last token it was given
            retries : 0..Retries]
Ask     == [pc   : {"new", "posting", "inserted", "shown"},
            gone : BOOLEAN]
Visit   == [flow : Flows \union {None}, result : Results \union {None}]

NoRow   == [state |-> "absent", result |-> None, expires |-> 0]
NoVisit == [flow |-> None, result |-> None]
Idle    == [pc |-> "idle", flow |-> None, stopped |-> FALSE, gone |-> FALSE,
            got |-> None, token |-> None, had |-> None, retries |-> 0]
New(f)  == [pc |-> "get", flow |-> f, stopped |-> FALSE, gone |-> FALSE,
            got |-> None, token |-> None, had |-> None, retries |-> 0]

\* An effect knows its flow, and what it needs for its next step.
Placed(l) ==
    /\ l.pc # "idle" => l.flow \in Flows
    /\ l.pc = "complete" => l.got \in Results
    /\ l.pc = "save" => l.token \in Codes

TypeOK ==
    /\ now \in Nat
    /\ row \in [Flows -> Row]
    /\ ask \in [Flows -> Ask]
    /\ storage \in Flows \union {None}
    /\ pending \in Flows \union {None}
    /\ started \in BOOLEAN
    /\ link \in Flows \union {None}
    /\ eff \in [Effects -> Effect]
    /\ \A e \in Effects : Placed(eff[e])
    /\ visit \in [Browsers -> Visit]
    /\ issued \in [Flows -> SUBSET Codes]
    /\ redeemed \in [Flows -> SUBSET Codes]
    /\ conn \in [Flows -> SUBSET Codes]

Init ==
    /\ now = 0
    /\ row = [f \in Flows |-> NoRow]
    /\ ask = [f \in Flows |-> [pc |-> "new", gone |-> FALSE]]
    /\ storage = None /\ pending = None /\ started = FALSE /\ link = None
    /\ eff = [e \in Effects |-> Idle]
    /\ visit = [b \in Browsers |-> NoVisit]
    /\ issued = [f \in Flows |-> {}]
    /\ redeemed = [f \in Flows |-> {}]
    /\ conn = [f \in Flows |-> {}]

-----------------------------------------------------------------------------
(***************************************************************************)
(* The effect's runs.                                                      *)
(***************************************************************************)
Watching == {e \in Effects : eff[e].pc # "idle" /\ ~eff[e].stopped}
Flow(e)  == eff[e].flow
Expired(f) == row[f].expires <= now

\* Mutant: the effect returns no cleanup.
CleanedNot(e) == eff[e]

\* return () => { stopped = true; if (timer) window.clearTimeout(timer); }
\* A stopped effect never retries.
Cleaned(e) == IF eff[e].pc \in {"idle", "timer"} THEN Idle
              ELSE [eff[e] EXCEPT !.stopped = TRUE, !.retries = 0]

\* The component was unmounted as well.
Left(e) == IF Cleaned(e) = Idle THEN Idle ELSE [Cleaned(e) EXCEPT !.gone = TRUE]

\* The effects that were there, and a new one for the flow that is pending.
Watch(old, f) ==
    \/ f = None /\ eff' = old
    \/ /\ f # None
       /\ \E e \in Effects : old[e] = Idle /\ eff' = [old EXCEPT ![e] = New(f)]

\* The providers changed, the effect runs again; it starts nothing while a
\* completion is under way.
Configure ==
    /\ pending # None
    /\ Watch([e \in Effects |-> Cleaned(e)], IF started THEN None ELSE pending)
    /\ UNCHANGED <<now, row, ask, tab, visit, issued, redeemed, conn>>

\* Another route mounts another AppShell, or the page is loaded again, with
\* or without its session.
Remount ==
    /\ storage' \in {storage, None}
    /\ pending' = storage'
    /\ started' = FALSE
    /\ link' = None
    /\ Watch([e \in Effects |-> Left(e)], storage')
    /\ ask' = [f \in Flows |->
                 IF ask[f].pc \in {"posting", "inserted"}
                 THEN [ask[f] EXCEPT !.gone = TRUE] ELSE ask[f]]
    /\ UNCHANGED <<now, row, visit, issued, redeemed, conn>>

-----------------------------------------------------------------------------
(***************************************************************************)
(* connectOAuthProvider.                                                   *)
(***************************************************************************)
AskStep(f, from, to) == ask[f].pc = from /\ ask' = [ask EXCEPT ![f].pc = to]

Connect(f) ==
    /\ AskStep(f, "new", "posting")
    /\ UNCHANGED <<now, row, tab, eff, visit, issued, redeemed, conn>>

\* POST /api/oauth/handoffs deletes what is over, and inserts.
Insert(f) ==
    /\ now + Ttl <= MaxTime
    /\ AskStep(f, "posting", "inserted")
    /\ row' = [g \in Flows |->
                 IF g = f
                 THEN [state |-> "pending", result |-> None, expires |-> now + Ttl]
                 ELSE IF row[g].state = "consumed" \/ Expired(g) THEN NoRow ELSE row[g]]
    /\ UNCHANGED <<now, tab, eff, visit, issued, redeemed, conn>>

\* The answer arrives.  An unmounted component still writes sessionStorage.  A
\* call that fails is one that is never answered: nothing is left of it.
Show(f) ==
    /\ AskStep(f, "inserted", "shown")
    /\ storage' = f
    /\ \/ ask[f].gone /\ UNCHANGED <<pending, started, link, eff>>
       \/ /\ ~ask[f].gone
          /\ pending' = f
          /\ started' = FALSE
          /\ link' = f
          /\ Watch([e \in Effects |-> Cleaned(e)], f)
    /\ UNCHANGED <<now, row, visit, issued, redeemed, conn>>

-----------------------------------------------------------------------------
(***************************************************************************)
(* handleOAuthCallback, in a browser that opened the link of a flow.       *)
(***************************************************************************)
Live(f) == row[f].state \in {"pending", "completed"} /\ ~Expired(f)

Arrive(b, f, r) ==
    /\ visit[b] = NoVisit
    /\ ask[f].pc = "shown" /\ ~ask[f].gone
    /\ r \in Codes => r \notin issued[f]
    /\ Live(f)
    /\ issued' = [issued EXCEPT ![f] = @ \union ({r} \intersect Codes)]
    /\ visit' = [visit EXCEPT ![b] = [flow |-> f, result |-> r]]
    /\ UNCHANGED <<now, row, ask, tab, eff, redeemed, conn>>

\* Mutant: without AND completed_at IS NULL.
OpenTwice(f) == row[f].state \in {"pending", "completed"}

\* WHERE id = ? AND completed_at IS NULL AND consumed_at IS NULL.
Open(f) == row[f].state = "pending"

Deliver(b) ==
    LET f == visit[b].flow
    IN  /\ f # None
        /\ row' = IF Open(f)
                  THEN [row EXCEPT ![f] = [state |-> "completed", result |-> visit[b].result,
                                           expires |-> row[f].expires]]
                  ELSE row
        /\ visit' = [visit EXCEPT ![b] = NoVisit]
        /\ UNCHANGED <<now, ask, tab, eff, issued, redeemed, conn>>

-----------------------------------------------------------------------------
(***************************************************************************)
(* One effect's poll, and the completion it may lead to.                   *)
(***************************************************************************)
Goto(e, pc) == eff' = [eff EXCEPT ![e] = [@ EXCEPT !.pc = pc, !.got = None]]
End(e)      == eff' = [eff EXCEPT ![e] = Idle]

\* Mutant: one retry too many.
MayRetryMore(e) == eff[e].retries <= Retries
MayRetry(e)     == eff[e].retries < Retries

\* Mutant: each attempt begins with an empty completionProgress.
ProgressLost(e) == None
Progress(e)     == eff[e].token

Again(e) == [pc |-> "timer", flow |-> Flow(e), stopped |-> eff[e].stopped,
             gone |-> eff[e].gone, got |-> None, token |-> Progress(e),
             had |-> eff[e].had, retries |-> eff[e].retries + 1]

\* The effect is left with its flow to consume and forget.
Close(e, pc) ==
    eff' = [eff EXCEPT ![e] =
              [pc |-> pc, flow |-> Flow(e), stopped |-> eff[e].stopped,
               gone |-> eff[e].gone, got |-> None, token |-> None, had |-> None,
               retries |-> 0]]

\* catch (error), of an error that is of the network or not.
Throw(e, transient) ==
    LET again == started /\ transient /\ MayRetry(e)
    IN  \/ /\ eff[e].stopped \/ ~started
           /\ End(e)
           /\ UNCHANGED started
        \/ /\ ~eff[e].stopped /\ again
           /\ eff' = [eff EXCEPT ![e] = Again(e)]
           /\ started' = FALSE
        \/ /\ ~eff[e].stopped /\ started /\ ~again
           /\ Close(e, "giveup")
           /\ UNCHANGED started

\* Mutant: an expired handoff is still answered.
AnswerLate(f) == IF row[f].state \in {"absent", "consumed"} THEN "none"
                 ELSE IF row[f].state = "pending" THEN "pending" ELSE row[f].result

\* GET /api/oauth/handoffs/:id; "none" is a 404 or a 410.
Answer(f) == IF row[f].state \in {"absent", "consumed"} \/ Expired(f) THEN "none"
             ELSE IF row[f].state = "pending" THEN "pending" ELSE row[f].result

Get(e) ==
    /\ eff[e].pc = "get"
    /\ \/ /\ eff' = [eff EXCEPT ![e] = [@ EXCEPT !.pc = "got", !.got = Answer(Flow(e))]]
          /\ UNCHANGED started
       \/ Throw(e, FALSE)
    /\ UNCHANGED <<now, row, ask, storage, pending, link, visit, issued, redeemed, conn>>

\* The answer arrives.
Handle(e) ==
    /\ eff[e].pc = "got"
    /\ \/ /\ eff[e].stopped
          /\ End(e)
          /\ UNCHANGED started
       \/ /\ ~eff[e].stopped /\ eff[e].got = "none"
          /\ Close(e, "giveup")
          /\ UNCHANGED started
       \/ /\ ~eff[e].stopped /\ eff[e].got = "pending"
          /\ Goto(e, "timer")
          /\ UNCHANGED started
       \/ /\ ~eff[e].stopped /\ eff[e].got \in Results
          /\ eff' = [eff EXCEPT ![e].pc = "complete"]
          /\ started' = TRUE
    /\ UNCHANGED <<now, row, ask, storage, pending, link, visit, issued, redeemed, conn>>

Timer(e) ==
    /\ eff[e].pc = "timer"
    /\ Goto(e, "get")
    /\ UNCHANGED <<now, row, ask, tab, visit, issued, redeemed, conn>>

\* The code is exchanged, unless an earlier attempt has: the provider takes a
\* code once.  Its answer may be lost.
Exchange(e) ==
    LET f == Flow(e)
        c == eff[e].got
    IN  \/ /\ \E transient \in BOOLEAN : Throw(e, transient)
           /\ UNCHANGED redeemed
        \/ /\ c \notin redeemed[f]
           /\ redeemed' = [redeemed EXCEPT ![f] = @ \union {c}]
           /\ \/ /\ eff' = [eff EXCEPT ![e] = [@ EXCEPT !.pc = "save", !.got = None,
                                                    !.token = c, !.had = c]]
                 /\ UNCHANGED started
              \/ \E transient \in BOOLEAN : Throw(e, transient)

Complete(e) ==
    /\ eff[e].pc = "complete"
    /\ \/ /\ eff[e].got = Denied
          /\ Throw(e, FALSE)
          /\ UNCHANGED redeemed
       \/ /\ eff[e].got # Denied /\ eff[e].token # None
          /\ Goto(e, "save")
          /\ UNCHANGED <<started, redeemed>>
       \/ eff[e].got # Denied /\ eff[e].token = None /\ Exchange(e)
    /\ UNCHANGED <<now, row, ask, storage, pending, link, visit, issued, conn>>

\* The account is verified, the vault unlocked, the token encrypted and saved
\* under progress.connectionId; any of it may fail, and the answer of a save
\* that was done may be lost.
Save(e) ==
    /\ eff[e].pc = "save"
    /\ \/ /\ conn' = [conn EXCEPT ![Flow(e)] = @ \union {eff[e].token}]
          /\ \/ Close(e, "consume") /\ UNCHANGED started
             \/ \E transient \in BOOLEAN : Throw(e, transient)
       \/ /\ UNCHANGED conn
          /\ \E transient \in BOOLEAN : Throw(e, transient)
    /\ UNCHANGED <<now, row, ask, storage, pending, link, visit, issued, redeemed>>

\* DELETE /api/oauth/handoffs/:id, whose failure is ignored.
Consume(e) ==
    /\ \/ eff[e].pc = "consume" /\ Goto(e, "clear")
       \/ eff[e].pc = "giveup" /\ Goto(e, "reset")
    /\ \/ UNCHANGED row
       \/ /\ row[Flow(e)].state \in {"pending", "completed"}
          /\ row' = [row EXCEPT ![Flow(e)].state = "consumed"]
    /\ UNCHANGED <<now, ask, tab, visit, issued, redeemed, conn>>

\* The flow is forgotten, whichever flow that is by now; React cleans up the
\* effect of what was pending.
Forget(e) ==
    /\ eff[e].pc \in {"clear", "reset"}
    /\ storage' = None
    /\ \/ /\ eff[e].gone
          /\ End(e)
          /\ UNCHANGED <<pending, started, link>>
       \/ /\ ~eff[e].gone
          /\ pending' = None
          /\ link' = None
          /\ started' = (started /\ eff[e].pc = "clear")
          /\ eff' = [d \in Effects |-> IF d = e THEN Idle ELSE Cleaned(d)]
    /\ UNCHANGED <<now, row, ask, visit, issued, redeemed, conn>>

\* The page of an unmounted component is gone.
Die(e) ==
    /\ eff[e].gone
    /\ End(e)
    /\ UNCHANGED <<now, row, ask, tab, visit, issued, redeemed, conn>>

Work(e) == Get(e) \/ Handle(e) \/ Timer(e) \/ Complete(e) \/ Save(e) \/ Consume(e)
           \/ Forget(e)

Tick ==
    /\ now < MaxTime
    /\ now' = now + 1
    /\ UNCHANGED <<row, ask, tab, eff, visit, issued, redeemed, conn>>

Next ==
    \/ Tick \/ Configure \/ Remount
    \/ \E f \in Flows : Connect(f) \/ Insert(f) \/ Show(f)
    \/ \E b \in Browsers : \/ \E f \in Flows, r \in Results : Arrive(b, f, r)
                           \/ Deliver(b)
    \/ \E e \in Effects : Work(e) \/ Die(e)

Spec == Init /\ [][Next]_vars

\* Calls return and timers fire; time passes.  Neither the user nor the
\* provider need do anything.
FairSpec == Spec /\ WF_vars(Tick) /\ \A e \in Effects : WF_vars(Work(e))

-----------------------------------------------------------------------------
(***************************************************************************)
(* Properties.                                                             *)
(***************************************************************************)

\* However often the provider sends a browser back, the app is remounted or a
\* call is repeated, one authorization becomes at most one saved token.
OneConnectionPerFlow ==
    \A f \in Flows : \A c, d \in conn[f] : c = d

\* An effect that was given a token sends no code to the provider again: a
\* retry goes on from where the last attempt failed.
CodeSentOnce ==
    \A e \in Effects :
        eff[e].pc = "complete" /\ eff[e].token = None /\ eff[e].got # Denied
            => eff[e].had = None

\* What is polled, and the link on the screen, are of the flow whose key the
\* app holds.
OneFlowAtATime ==
    /\ \A e \in Watching : Flow(e) = pending
    /\ \A d, e \in Watching : d = e
    /\ link # None => link = pending

\* No effect polls, retries or completes for ever.
EveryEffectEnds == \A e \in Effects : eff[e].pc # "idle" ~> eff[e].pc = "idle"
=============================================================================
