------------------------ MODULE OAuthHandoff_proofs ------------------------
(***************************************************************************)
(* Theorems about OAuthHandoff, for every number of flows, effects and     *)
(* codes.                                                                  *)
(***************************************************************************)
EXTENDS OAuthHandoff, TLAPS

USE NoneAssumption, BoundAssumption

-----------------------------------------------------------------------------
(***************************************************************************)
(* What one step of an effect does to its record.                          *)
(***************************************************************************)
EffOK == eff \in [Effects -> Effect] /\ \A e \in Effects : Placed(eff[e])

\* l may come after k: it is over, or is at work for the same flow as before;
\* its codes are k's, or what the handoff holds.
Follows(k, l) ==
    /\ l \in Effect /\ Placed(l)
    /\ \/ l.pc = "idle"
       \/ l.flow = k.flow /\ l.stopped = k.stopped /\ l.gone = k.gone
    /\ l.got \in Codes => l.flow = k.flow /\ l.got \in {k.got, row[k.flow].result}
    /\ l.token \in Codes => l.flow = k.flow /\ l.token \in {k.token, k.got}
    /\ k.had = k.token => l.had = l.token

Moves(e) == \E l \in Effect : Follows(eff[e], l) /\ eff' = [eff EXCEPT ![e] = l]

LEMMA IdleFollows == ASSUME NEW k PROVE Follows(k, Idle)
BY DEF Follows, Idle, Effect, Placed

LEMMA EndMoves == ASSUME NEW e \in Effects, End(e) PROVE Moves(e)
BY IdleFollows DEF End, Moves, Follows

LEMMA GotoMoves ==
    ASSUME EffOK, NEW e \in Effects, eff[e].pc # "idle",
           NEW pc \in {"get", "timer", "clear", "reset", "save"},
           pc = "save" => eff[e].token \in Codes,
           Goto(e, pc)
    PROVE  Moves(e)
<1> DEFINE l == [eff[e] EXCEPT !.pc = pc, !.got = None]
<1>1. eff[e] \in Effect /\ Placed(eff[e])
  BY DEF EffOK
<1>2. l \in Effect /\ Placed(l)
  BY <1>1 DEF Effect, Placed
<1>3. Follows(eff[e], l)
  BY <1>1, <1>2 DEF Follows, Effect, Placed
<1>4. eff' = [eff EXCEPT ![e] = l]
  BY DEF Goto
<1> HIDE DEF l
<1> QED  BY <1>2, <1>3, <1>4 DEF Moves

LEMMA CloseMoves ==
    ASSUME EffOK, NEW e \in Effects, eff[e].pc # "idle",
           NEW pc \in {"giveup", "consume"}, Close(e, pc)
    PROVE  Moves(e)
<1> DEFINE l == [pc |-> pc, flow |-> Flow(e), stopped |-> eff[e].stopped,
                 gone |-> eff[e].gone, got |-> None, token |-> None, had |-> None,
                 retries |-> 0]
<1>1. eff[e] \in Effect /\ Placed(eff[e])
  BY DEF EffOK
<1>3. l \in Effect /\ Placed(l)
  BY <1>1 DEF Effect, Placed, Flow
<1>4. Follows(eff[e], l)
  BY <1>3 DEF Follows, Flow
<1>5. eff' = [eff EXCEPT ![e] = l]
  BY DEF Close
<1> HIDE DEF l
<1> QED  BY <1>3, <1>4, <1>5 DEF Moves

LEMMA AgainFollows ==
    ASSUME EffOK, NEW e \in Effects, eff[e].pc # "idle", MayRetry(e)
    PROVE  Follows(eff[e], Again(e)) /\ Again(e) \in Effect
<1>1. eff[e] \in Effect /\ Placed(eff[e])
  BY DEF EffOK
<1>3. eff[e].retries + 1 \in 0..Retries
  BY <1>1 DEF MayRetry, Effect
<1>4. Again(e) \in Effect /\ Placed(Again(e))
  BY <1>1, <1>3 DEF Effect, Placed, Again, Flow, Progress
<1>5. Follows(eff[e], Again(e))
  BY <1>4 DEF Follows, Again, Flow, Progress
<1> QED  BY <1>4, <1>5

LEMMA ThrowMoves ==
    ASSUME EffOK, started \in BOOLEAN, NEW e \in Effects, eff[e].pc # "idle",
           NEW transient \in BOOLEAN, Throw(e, transient)
    PROVE  Moves(e) /\ started' \in BOOLEAN
<1>1. CASE End(e) /\ UNCHANGED started
  BY <1>1, EndMoves
<1>2. CASE MayRetry(e) /\ eff' = [eff EXCEPT ![e] = Again(e)] /\ started' = FALSE
  BY <1>2, AgainFollows DEF Moves
<1>3. CASE Close(e, "giveup") /\ UNCHANGED started
  BY <1>3, CloseMoves
<1> QED  BY <1>1, <1>2, <1>3 DEF Throw

\* Each step of an effect but the last, which forgets the flow.
Pace(e) == Get(e) \/ Handle(e) \/ Timer(e) \/ Complete(e) \/ Save(e) \/ Consume(e)

LEMMA PaceMoves ==
    ASSUME TypeOK, NEW e \in Effects, Pace(e)
    PROVE  eff[e].pc # "idle" /\ Moves(e) /\ started' \in BOOLEAN
<1>1. eff[e].pc # "idle"
  BY DEF Pace, Get, Handle, Timer, Complete, Save, Consume
<1>2. eff[e] \in Effect /\ Placed(eff[e]) /\ EffOK /\ started \in BOOLEAN
  BY DEF TypeOK, EffOK
<1>3. Flow(e) = eff[e].flow /\ eff[e].flow \in Flows
  BY <1>1, <1>2 DEF Flow, Placed
<1>4. CASE Get(e)
  <2> DEFINE a == Answer(Flow(e))
             l == [eff[e] EXCEPT !.pc = "got", !.got = a]
  <2>1. /\ a \in Results \union {None, "pending", "none"}
        /\ a \in Codes => a = row[eff[e].flow].result
    BY <1>3 DEF Answer, TypeOK, Row, Results
  <2> HIDE DEF a
  <2>2. l \in Effect /\ Placed(l)
    <3>1. l \in Effect
      BY <1>2, <2>1 DEF Effect
    <3>2. l.pc = "got" /\ l.flow = eff[e].flow
      BY <1>2 DEF Effect
    <3> QED  BY <1>3, <3>1, <3>2 DEF Placed
  <2>3. Follows(eff[e], l)
    BY <1>2, <2>1, <2>2 DEF Follows, Effect
  <2>4. CASE eff' = [eff EXCEPT ![e] = l] /\ UNCHANGED started
    <3> HIDE DEF l
    <3> QED  BY <1>1, <1>2, <2>2, <2>3, <2>4 DEF Moves
  <2>5. CASE Throw(e, FALSE)
    BY <1>1, <1>2, <2>5, ThrowMoves
  <2> QED  BY <1>4, <2>4, <2>5 DEF Get, a
<1>5. CASE Handle(e)
  <2> DEFINE l == [eff[e] EXCEPT !.pc = "complete"]
  <2>1. CASE End(e) /\ UNCHANGED started
    BY <1>1, <1>2, <2>1, EndMoves
  <2>2. CASE Close(e, "giveup") /\ UNCHANGED started
    BY <1>1, <1>2, <2>2, CloseMoves
  <2>3. CASE Goto(e, "timer") /\ UNCHANGED started
    BY <1>1, <1>2, <2>3, GotoMoves
  <2>4. CASE eff[e].got \in Results /\ eff' = [eff EXCEPT ![e].pc = "complete"] /\ started'
    <3>0. eff[e].got \in Results
      BY <2>4
    <3>1. l \in Effect /\ Placed(l)
      <4>1. l \in Effect
        BY <1>2 DEF Effect
      <4>2. l.pc = "complete" /\ l.flow = eff[e].flow /\ l.got = eff[e].got
        BY <1>2 DEF Effect
      <4> QED  BY <1>3, <3>0, <4>1, <4>2 DEF Placed
    <3>2. Follows(eff[e], l)
      BY <1>2, <3>1 DEF Follows, Effect
    <3>3. eff' = [eff EXCEPT ![e] = l]
      BY <2>4
    <3> HIDE DEF l
    <3> QED  BY <1>1, <1>2, <2>4, <3>1, <3>2, <3>3 DEF Moves
  <2> QED  BY <1>5, <2>1, <2>2, <2>3, <2>4 DEF Handle
<1>6. CASE Timer(e)
  BY <1>1, <1>2, <1>6, GotoMoves DEF Timer, tab
<1>7. CASE Complete(e)
  <2> DEFINE c == eff[e].got
             l == [eff[e] EXCEPT !.pc = "save", !.got = None, !.token = c, !.had = c]
  <2>1. ASSUME NEW t \in BOOLEAN, Throw(e, t) PROVE Moves(e) /\ started' \in BOOLEAN
    BY <1>1, <1>2, <2>1, ThrowMoves
  <2>2. CASE eff[e].token # None /\ Goto(e, "save") /\ UNCHANGED started
    <3>1. eff[e].token \in Codes
      BY <1>2, <2>2 DEF Effect
    <3> QED  BY <1>1, <1>2, <2>2, <3>1, GotoMoves
  <2>3. CASE c # Denied /\ eff' = [eff EXCEPT ![e] = l] /\ UNCHANGED started
    <3>1. c \in Codes
      BY <1>2, <1>7, <2>3 DEF Complete, Placed, Results
    <3>2. l \in Effect /\ Placed(l)
      <4>1. l \in Effect
        BY <1>2, <3>1 DEF Effect
      <4>2. l.pc = "save" /\ l.flow = eff[e].flow /\ l.token = c
        BY <1>2 DEF Effect
      <4> QED  BY <1>3, <3>1, <4>1, <4>2 DEF Placed
    <3>3. Follows(eff[e], l)
      BY <1>2, <3>1, <3>2 DEF Follows, Effect
    <3> HIDE DEF l
    <3> QED  BY <1>1, <1>2, <2>3, <3>2, <3>3 DEF Moves
  <2> QED  BY <1>7, <2>1, <2>2, <2>3 DEF Complete, Exchange
<1>8. CASE Save(e)
  <2>1. ASSUME NEW t \in BOOLEAN, Throw(e, t) PROVE Moves(e) /\ started' \in BOOLEAN
    BY <1>1, <1>2, <2>1, ThrowMoves
  <2>2. CASE Close(e, "consume") /\ UNCHANGED started
    BY <1>1, <1>2, <2>2, CloseMoves
  <2> QED  BY <1>8, <2>1, <2>2 DEF Save
<1>9. CASE Consume(e)
  BY <1>1, <1>2, <1>9, GotoMoves DEF Consume, tab
<1> QED  BY <1>1, <1>4, <1>5, <1>6, <1>7, <1>8, <1>9 DEF Pace

-----------------------------------------------------------------------------
(***************************************************************************)
(* Type correctness.                                                       *)
(***************************************************************************)

\* What any step may make of an effect, whichever component it is of.
Grows(k, l) ==
    /\ l \in Effect /\ Placed(l)
    /\ l.got \in Codes => l.flow = k.flow /\ l.got \in {k.got, row[k.flow].result}
    /\ l.token \in Codes => l.flow = k.flow /\ l.token \in {k.token, k.got}
    /\ k.had = k.token => l.had = l.token

EffectsGrow == /\ eff' \in [Effects -> Effect]
               /\ \A e \in Effects : Grows(eff[e], eff'[e])

LEMMA IdleGrows == ASSUME NEW k PROVE Grows(k, Idle)
BY DEF Grows, Idle, Effect, Placed

LEMMA SelfGrows == ASSUME NEW k \in Effect, Placed(k) PROVE Grows(k, k)
BY DEF Grows

LEMMA NewGrows == ASSUME NEW k, NEW f \in Flows PROVE Grows(k, New(f))
BY DEF New, Grows, Effect, Placed

LEMMA CleanedGrows ==
    ASSUME EffOK, NEW e \in Effects
    PROVE  /\ Grows(eff[e], Cleaned(e))
           /\ Cleaned(e) # Idle =>
                Cleaned(e) = [eff[e] EXCEPT !.stopped = TRUE, !.retries = 0]
<1> DEFINE l == [eff[e] EXCEPT !.stopped = TRUE, !.retries = 0]
<1>1. eff[e] \in Effect /\ Placed(eff[e])
  BY DEF EffOK
<1>2. l \in Effect
  <2>1. 0 \in 0..Retries
    OBVIOUS
  <2> QED  BY <1>1, <2>1 DEF Effect
<1>3. /\ l.pc = eff[e].pc /\ l.flow = eff[e].flow /\ l.got = eff[e].got
      /\ l.token = eff[e].token /\ l.had = eff[e].had
  BY <1>1 DEF Effect
<1>4. Grows(eff[e], l)
  BY <1>1, <1>2, <1>3 DEF Grows, Placed
<1>5. Cleaned(e) \in {Idle, l}
  BY DEF Cleaned
<1> HIDE DEF l
<1>6. Grows(eff[e], Cleaned(e)) /\ (Cleaned(e) # Idle => Cleaned(e) = l)
  BY <1>4, <1>5, IdleGrows
<1> QED  BY <1>6 DEF l

LEMMA LeftGrows ==
    ASSUME EffOK, NEW e \in Effects
    PROVE  Grows(eff[e], Left(e))
<1> DEFINE k == Cleaned(e)
           l == [k EXCEPT !.gone = TRUE]
<1>1. Grows(eff[e], k) /\ k \in Effect /\ Placed(k)
  BY CleanedGrows DEF Grows
<1>2. Left(e) \in {Idle, l}
  BY DEF Left
<1> HIDE DEF k
<1>3. l \in Effect
  BY <1>1 DEF Effect
<1>4. /\ l.pc = k.pc /\ l.flow = k.flow /\ l.got = k.got /\ l.token = k.token
      /\ l.had = k.had
  BY <1>1 DEF Effect
<1>5. Grows(eff[e], l)
  BY <1>1, <1>3, <1>4 DEF Grows, Placed
<1> HIDE DEF l
<1> QED  BY <1>2, <1>5, IdleGrows

LEMMA WatchGrows ==
    ASSUME NEW old, NEW f \in Flows \union {None}, Watch(old, f),
           old \in [Effects -> Effect], \A e \in Effects : Grows(eff[e], old[e])
    PROVE  EffectsGrow
<1>1. CASE eff' = old
  BY <1>1 DEF EffectsGrow
<1>2. ASSUME f \in Flows, NEW d \in Effects, eff' = [old EXCEPT ![d] = New(f)]
      PROVE  EffectsGrow
  <2>1. \A e \in Effects : Grows(eff[e], New(f))
    BY <1>2, NewGrows
  <2>2. New(f) \in Effect
    BY <1>2, <2>1 DEF Grows
  <2> QED  BY <1>2, <2>1, <2>2 DEF EffectsGrow
<1> QED  BY <1>1, <1>2 DEF Watch

LEMMA MovesGrow ==
    ASSUME EffOK, NEW e \in Effects, Moves(e)
    PROVE  EffectsGrow
<1>1. PICK l \in Effect : Follows(eff[e], l) /\ eff' = [eff EXCEPT ![e] = l]
  BY DEF Moves
<1>2. Grows(eff[e], l)
  BY <1>1 DEF Follows, Grows
<1>3. \A d \in Effects : Grows(eff[d], eff[d])
  BY SelfGrows DEF EffOK
<1> QED  BY <1>1, <1>2, <1>3 DEF EffectsGrow, EffOK

LEMMA ForgetGrows ==
    ASSUME EffOK, NEW e \in Effects, Forget(e)
    PROVE  EffectsGrow
<1>1. CASE End(e)
  BY <1>1, EndMoves, MovesGrow
<1>2. CASE eff' = [d \in Effects |-> IF d = e THEN Idle ELSE Cleaned(d)]
  <2>1. \A d \in Effects : Cleaned(d) \in Effect /\ Grows(eff[d], Cleaned(d))
    BY CleanedGrows DEF Grows
  <2>2. \A d \in Effects : Idle \in Effect /\ Grows(eff[d], Idle)
    BY IdleGrows DEF Grows
  <2> QED  BY <1>2, <2>1, <2>2 DEF EffectsGrow
<1> QED  BY <1>1, <1>2 DEF Forget

LEMMA NextGrows ==
    ASSUME TypeOK, [Next]_vars
    PROVE  EffectsGrow
<1>1. EffOK /\ storage \in Flows \union {None} /\ pending \in Flows \union {None}
  BY DEF TypeOK, EffOK
<1>2. CASE UNCHANGED eff
  BY <1>1, <1>2, SelfGrows DEF EffOK, EffectsGrow
<1>3. ASSUME NEW f \in Flows \union {None}, Watch([e \in Effects |-> Cleaned(e)], f)
      PROVE  EffectsGrow
  <2>1. \A e \in Effects : Cleaned(e) \in Effect /\ Grows(eff[e], Cleaned(e))
    BY <1>1, CleanedGrows DEF Grows
  <2> QED  BY <1>3, <2>1, WatchGrows
<1>4. CASE Configure
  BY <1>1, <1>3, <1>4 DEF Configure
<1>5. CASE Remount
  <2>1. \A e \in Effects : Left(e) \in Effect /\ Grows(eff[e], Left(e))
    BY <1>1, LeftGrows DEF Grows
  <2>2. storage' \in Flows \union {None} /\ Watch([e \in Effects |-> Left(e)], storage')
    BY <1>1, <1>5 DEF Remount
  <2> QED  BY <2>1, <2>2, WatchGrows
<1>6. ASSUME NEW f \in Flows, Show(f) PROVE EffectsGrow
  BY <1>2, <1>3, <1>6 DEF Show
<1>7. ASSUME NEW e \in Effects, Pace(e) PROVE EffectsGrow
  BY <1>1, <1>7, PaceMoves, MovesGrow
<1>8. ASSUME NEW e \in Effects, Forget(e) PROVE EffectsGrow
  BY <1>1, <1>8, ForgetGrows
<1>9. ASSUME NEW e \in Effects, Die(e) PROVE EffectsGrow
  BY <1>1, <1>9, EndMoves, MovesGrow DEF Die
<1> QED
  BY <1>2, <1>4, <1>5, <1>6, <1>7, <1>8, <1>9
     DEF Next, vars, Tick, Connect, Insert, Arrive, Deliver, Work, Pace

LEMMA AskStepType ==
    ASSUME NEW f \in Flows, NEW from, NEW to \in {"posting", "inserted", "shown"},
           ask \in [Flows -> Ask], AskStep(f, from, to)
    PROVE  ask' \in [Flows -> Ask]
<1> DEFINE a == [ask[f] EXCEPT !.pc = to]
<1>1. a \in Ask
  BY DEF Ask
<1>2. ask' = [ask EXCEPT ![f] = a]
  BY DEF AskStep
<1> HIDE DEF a
<1> QED  BY <1>1, <1>2

LEMMA TypeStep == TypeOK /\ [Next]_vars => TypeOK'
<1> SUFFICES ASSUME TypeOK, [Next]_vars PROVE TypeOK'
  OBVIOUS
<1>0. EffectsGrow
  BY NextGrows
<1> DEFINE EffTyped == /\ eff' \in [Effects -> Effect]
                       /\ \A e \in Effects : Placed(eff'[e])
<1>1. EffTyped
  BY <1>0 DEF EffectsGrow, Grows
<1>2. SUFFICES ASSUME EffTyped PROVE TypeOK'
  BY <1>1
<1>3. CASE Tick
  BY <1>2, <1>3 DEF Tick, TypeOK, tab
<1>4. CASE Configure
  BY <1>2, <1>4 DEF Configure, TypeOK, tab
<1>5. CASE Remount
  <2>1. ask' \in [Flows -> Ask]
    <3> DEFINE a(f) == IF ask[f].pc \in {"posting", "inserted"}
                       THEN [ask[f] EXCEPT !.gone = TRUE] ELSE ask[f]
    <3>1. ASSUME NEW f \in Flows PROVE a(f) \in Ask
      <4>1. ask[f] \in Ask
        BY DEF TypeOK
      <4>2. [ask[f] EXCEPT !.gone = TRUE] \in Ask
        BY <4>1 DEF Ask
      <4> QED  BY <4>1, <4>2
    <3>2. ask' = [f \in Flows |-> a(f)]
      BY <1>5 DEF Remount
    <3> HIDE DEF a
    <3> QED  BY <3>1, <3>2
  <2>2. storage' \in Flows \union {None} /\ pending' \in Flows \union {None}
    BY <1>5 DEF Remount, TypeOK
  <2> QED  BY <1>2, <1>5, <2>1, <2>2 DEF Remount, TypeOK
<1>6. ASSUME NEW f \in Flows, Connect(f) PROVE TypeOK'
  <2>1. ask' \in [Flows -> Ask]
    BY <1>6, AskStepType DEF Connect, TypeOK
  <2> QED  BY <1>2, <1>6, <2>1 DEF Connect, TypeOK, tab
<1>7. ASSUME NEW f \in Flows, Insert(f) PROVE TypeOK'
  <2>1. ask' \in [Flows -> Ask]
    BY <1>7, AskStepType DEF Insert, TypeOK
  <2>2. row' \in [Flows -> Row]
    <3>1. [state |-> "pending", result |-> None, expires |-> now + Ttl] \in Row
      BY DEF TypeOK, Row
    <3>2. NoRow \in Row
      BY DEF NoRow, Row
    <3> QED  BY <1>7, <3>1, <3>2 DEF Insert, TypeOK
  <2> QED  BY <1>2, <1>7, <2>1, <2>2 DEF Insert, TypeOK, tab
<1>8. ASSUME NEW f \in Flows, Show(f) PROVE TypeOK'
  <2>1. ask' \in [Flows -> Ask]
    BY <1>8, AskStepType DEF Show, TypeOK
  <2> QED  BY <1>2, <1>8, <2>1 DEF Show, TypeOK
<1>9. ASSUME NEW b \in Browsers, NEW f \in Flows, NEW r \in Results, Arrive(b, f, r)
      PROVE  TypeOK'
  <2>1. [flow |-> f, result |-> r] \in Visit
    BY DEF Visit
  <2>2. issued[f] \union ({r} \intersect Codes) \in SUBSET Codes
    BY DEF TypeOK
  <2> QED  BY <1>2, <1>9, <2>1, <2>2 DEF Arrive, TypeOK, tab
<1>10. ASSUME NEW b \in Browsers, Deliver(b) PROVE TypeOK'
  <2> DEFINE f == visit[b].flow
             w == [state |-> "completed", result |-> visit[b].result,
                   expires |-> row[f].expires]
  <2>1. f \in Flows /\ w \in Row
    BY <1>10 DEF Deliver, TypeOK, Visit, Row
  <2>2. row' = [row EXCEPT ![f] = w] \/ row' = row
    BY <1>10 DEF Deliver
  <2> HIDE DEF w
  <2>3. row' \in [Flows -> Row]
    BY <2>1, <2>2 DEF TypeOK
  <2>4. NoVisit \in Visit
    BY DEF NoVisit, Visit
  <2> QED  BY <1>2, <1>10, <2>3, <2>4 DEF Deliver, TypeOK, tab
<1>11. ASSUME NEW e \in Effects, Pace(e) PROVE TypeOK'
  <2>1. started' \in BOOLEAN /\ Flow(e) \in Flows
    BY <1>11, PaceMoves DEF TypeOK, Placed, Flow
  <2>2. row' \in [Flows -> Row]
    <3> DEFINE w == [row[Flow(e)] EXCEPT !.state = "consumed"]
    <3>0. row[Flow(e)] \in Row
      BY <2>1 DEF TypeOK
    <3>1. w \in Row
      BY <3>0 DEF Row
    <3>2. row' = row \/ row' = [row EXCEPT ![Flow(e)] = w]
      BY <1>11 DEF Pace, Get, Handle, Timer, Complete, Save, Consume
    <3> HIDE DEF w
    <3> QED  BY <2>1, <3>1, <3>2 DEF TypeOK
  <2>3. redeemed' \in [Flows -> SUBSET Codes]
    <3>1. CASE UNCHANGED redeemed
      BY <3>1 DEF TypeOK
    <3>2. CASE Complete(e) /\ eff[e].got # Denied
               /\ redeemed' = [redeemed EXCEPT ![Flow(e)] = @ \union {eff[e].got}]
      <4>1. eff[e].got \in Codes
        BY <3>2 DEF Complete, TypeOK, Placed, Results
      <4> QED  BY <2>1, <3>2, <4>1 DEF TypeOK
    <3> QED  BY <1>11, <3>1, <3>2
             DEF Pace, Get, Handle, Timer, Complete, Exchange, Save, Consume
  <2>4. conn' \in [Flows -> SUBSET Codes]
    <3>1. CASE UNCHANGED conn
      BY <3>1 DEF TypeOK
    <3>2. CASE Save(e) /\ conn' = [conn EXCEPT ![Flow(e)] = @ \union {eff[e].token}]
      <4>1. eff[e].token \in Codes
        BY <3>2 DEF Save, TypeOK, Placed
      <4> QED  BY <2>1, <3>2, <4>1 DEF TypeOK
    <3> QED  BY <1>11, <3>1, <3>2 DEF Pace, Get, Handle, Timer, Complete, Save, Consume
  <2>5. UNCHANGED <<now, ask, storage, pending, link, visit, issued>>
    BY <1>11 DEF Pace, Get, Handle, Timer, Complete, Save, Consume, tab
  <2> QED  BY <1>2, <2>1, <2>2, <2>3, <2>4, <2>5 DEF TypeOK
<1>12. ASSUME NEW e \in Effects, Forget(e) PROVE TypeOK'
  BY <1>2, <1>12 DEF Forget, TypeOK
<1>13. ASSUME NEW e \in Effects, Die(e) PROVE TypeOK'
  BY <1>2, <1>13 DEF Die, TypeOK, tab
<1>14. CASE UNCHANGED vars
  BY <1>2, <1>14 DEF vars, TypeOK, tab
<1> QED
  BY <1>3, <1>4, <1>5, <1>6, <1>7, <1>8, <1>9, <1>10, <1>11, <1>12, <1>13, <1>14
     DEF Next, Work, Pace

\* Every variable keeps its type; an effect that completes holds a result of
\* the handoff, and one that saves a token.
THEOREM HandoffTypeCorrect == Spec => []TypeOK
<1>1. Init => TypeOK
  <2>1. Idle \in Effect /\ Placed(Idle)
    BY DEF Idle, Effect, Placed
  <2>2. NoRow \in Row /\ NoVisit \in Visit /\ [pc |-> "new", gone |-> FALSE] \in Ask
    BY DEF NoRow, Row, NoVisit, Visit, Ask
  <2> SUFFICES ASSUME Init PROVE TypeOK
    OBVIOUS
  <2>3. row \in [Flows -> Row] /\ ask \in [Flows -> Ask] /\ visit \in [Browsers -> Visit]
    BY <2>2 DEF Init
  <2>4. eff \in [Effects -> Effect] /\ \A e \in Effects : Placed(eff[e])
    BY <2>1 DEF Init
  <2>5. /\ issued \in [Flows -> SUBSET Codes]
        /\ redeemed \in [Flows -> SUBSET Codes]
        /\ conn \in [Flows -> SUBSET Codes]
    BY DEF Init
  <2> QED  BY <2>3, <2>4, <2>5 DEF Init, TypeOK
<1> QED  BY <1>1, TypeStep, PTL DEF Spec

-----------------------------------------------------------------------------
(***************************************************************************)
(* A code is sent once.                                                    *)
(***************************************************************************)

\* The strengthening: the token an effect was last given is the one it has.
HadIsToken == \A e \in Effects : eff[e].had = eff[e].token

\* An effect that has been given a token does not send a code again.
THEOREM HandoffCodeSentOnce == Spec => []CodeSentOnce
<1>1. Init => HadIsToken
  BY DEF Init, HadIsToken, Idle
<1>2. TypeOK /\ HadIsToken /\ [Next]_vars => HadIsToken'
  BY NextGrows DEF EffectsGrow, Grows, HadIsToken
<1>3. HadIsToken => CodeSentOnce
  BY DEF HadIsToken, CodeSentOnce
<1> QED  BY <1>1, <1>2, <1>3, HandoffTypeCorrect, PTL DEF Spec

-----------------------------------------------------------------------------
(***************************************************************************)
(* One flow at a time.                                                     *)
(***************************************************************************)

LEMMA WatchIsOfPending ==
    ASSUME NEW old, NEW f \in Flows \union {None}, Watch(old, f),
           old \in [Effects -> Effect],
           \A e \in Effects : old[e].pc = "idle" \/ old[e].stopped,
           f # None => pending' = f,
           link' # None => link' = pending'
    PROVE  OneFlowAtATime'
<1>1. CASE eff' = old
  BY <1>1 DEF OneFlowAtATime, Watching
<1>2. ASSUME f # None, NEW d \in Effects, eff' = [old EXCEPT ![d] = New(f)]
      PROVE  OneFlowAtATime'
  <2>1. eff'[d].flow = f /\ \A e \in Watching' : e = d
    BY <1>2 DEF Watching, New
  <2> QED  BY <1>2, <2>1 DEF OneFlowAtATime, Flow
<1> QED  BY <1>1, <1>2 DEF Watch

LEMMA FewerAreWatching ==
    ASSUME OneFlowAtATime, UNCHANGED <<pending, link>>,
           \A e \in Watching' : e \in Watching /\ eff'[e].flow = eff[e].flow
    PROVE  OneFlowAtATime'
BY DEF OneFlowAtATime, Flow

LEMMA MovesWatch ==
    ASSUME TypeOK, NEW e \in Effects, eff[e].pc # "idle", Moves(e)
    PROVE  \A d \in Watching' : d \in Watching /\ eff'[d].flow = eff[d].flow
<1>1. PICK l \in Effect : Follows(eff[e], l) /\ eff' = [eff EXCEPT ![e] = l]
  BY DEF Moves
<1>2. eff'[e] = l /\ \A d \in Effects \ {e} : eff'[d] = eff[d]
  BY <1>1 DEF TypeOK
<1> QED  BY <1>1, <1>2 DEF Watching, Follows

LEMMA CleanedIsStopped ==
    ASSUME EffOK, NEW e \in Effects
    PROVE  /\ Cleaned(e) \in Effect
           /\ Cleaned(e).pc = "idle" \/ Cleaned(e).stopped
           /\ Left(e) \in Effect
           /\ Left(e).pc = "idle" \/ Left(e).stopped
<1>1. Cleaned(e) \in Effect /\ Left(e) \in Effect
  BY CleanedGrows, LeftGrows DEF Grows
<1>2. Idle.pc = "idle"
  BY DEF Idle
<1>3. Cleaned(e).pc = "idle" \/ Cleaned(e).stopped
  <2> DEFINE l == [eff[e] EXCEPT !.stopped = TRUE, !.retries = 0]
  <2>1. l.stopped
    BY DEF EffOK, Effect
  <2> QED  BY <1>2, <2>1 DEF Cleaned
<1>4. Left(e).pc = "idle" \/ Left(e).stopped
  <2> DEFINE k == Cleaned(e)
             l == [k EXCEPT !.gone = TRUE]
  <2>1. Left(e) \in {Idle, l} /\ (k = Idle => Left(e) = Idle)
    BY DEF Left
  <2>2. k \in Effect /\ (k.pc = "idle" \/ k.stopped)
    BY <1>1, <1>3
  <2> HIDE DEF k
  <2>3. l.pc = k.pc /\ l.stopped = k.stopped
    BY <2>2 DEF Effect
  <2> HIDE DEF l
  <2> QED  BY <1>2, <2>1, <2>2, <2>3
<1> QED  BY <1>1, <1>3, <1>4

LEMMA OneFlowStep == TypeOK /\ OneFlowAtATime /\ [Next]_vars => OneFlowAtATime'
<1> SUFFICES ASSUME TypeOK, OneFlowAtATime, [Next]_vars PROVE OneFlowAtATime'
  OBVIOUS
<1>1. EffOK /\ storage \in Flows \union {None} /\ pending \in Flows \union {None}
  BY DEF TypeOK, EffOK
<1> DEFINE cleaned == [e \in Effects |-> Cleaned(e)]
           left    == [e \in Effects |-> Left(e)]
<1>2. /\ cleaned \in [Effects -> Effect]
      /\ \A e \in Effects : cleaned[e].pc = "idle" \/ cleaned[e].stopped
      /\ left \in [Effects -> Effect]
      /\ \A e \in Effects : left[e].pc = "idle" \/ left[e].stopped
  BY <1>1, CleanedIsStopped
<1>3. CASE UNCHANGED <<pending, link, eff>>
  BY <1>3, FewerAreWatching DEF Watching
<1>4. CASE Configure
  <2> DEFINE f == IF started THEN None ELSE pending
  <2>1. /\ Watch(cleaned, f) /\ f \in Flows \union {None} /\ (f # None => pending' = f)
        /\ link' # None => link' = pending'
    BY <1>1, <1>4 DEF Configure, OneFlowAtATime, tab
  <2> HIDE DEF cleaned, f
  <2> QED  BY <1>2, <2>1, WatchIsOfPending
<1>5. CASE Remount
  <2>1. /\ Watch(left, storage') /\ storage' \in Flows \union {None}
        /\ pending' = storage' /\ link' = None
    BY <1>1, <1>5 DEF Remount
  <2> HIDE DEF left
  <2> QED  BY <1>2, <2>1, WatchIsOfPending
<1>6. ASSUME NEW f \in Flows, Show(f) PROVE OneFlowAtATime'
  <2>1. CASE Watch(cleaned, f) /\ pending' = f /\ link' = f
    <3> HIDE DEF cleaned
    <3> QED  BY <1>2, <2>1, WatchIsOfPending
  <2> QED  BY <1>3, <1>6, <2>1 DEF Show
<1>7. ASSUME NEW e \in Effects, Pace(e) PROVE OneFlowAtATime'
  <2>1. UNCHANGED <<pending, link>>
    BY <1>7 DEF Pace, Get, Handle, Timer, Complete, Save, Consume, tab
  <2> QED  BY <1>7, <2>1, PaceMoves, MovesWatch, FewerAreWatching
<1>8. ASSUME NEW e \in Effects, End(e), UNCHANGED <<pending, link>>
      PROVE  OneFlowAtATime'
  BY <1>1, <1>8, FewerAreWatching DEF End, Watching, Idle, TypeOK
<1>9. ASSUME NEW e \in Effects, Forget(e) PROVE OneFlowAtATime'
  <2>1. CASE link' = None /\ eff' = [d \in Effects |-> IF d = e THEN Idle ELSE Cleaned(d)]
    <3>1. Watching' = {}
      BY <1>1, <2>1, CleanedIsStopped DEF Watching, Idle
    <3> QED  BY <2>1, <3>1 DEF OneFlowAtATime
  <2> QED  BY <1>8, <1>9, <2>1 DEF Forget
<1>10. ASSUME NEW e \in Effects, Die(e) PROVE OneFlowAtATime'
  BY <1>8, <1>10 DEF Die, tab
<1> QED
  BY <1>3, <1>4, <1>5, <1>6, <1>7, <1>9, <1>10
     DEF Next, vars, tab, Tick, Connect, Insert, Arrive, Deliver, Work, Pace

\* Only one effect polls, and it polls the flow whose key the app holds; the
\* link on the screen is of that flow.
THEOREM HandoffOneFlowAtATime == Spec => []OneFlowAtATime
<1>1. Init => OneFlowAtATime
  BY DEF Init, OneFlowAtATime, Watching, Idle
<1> QED  BY <1>1, OneFlowStep, HandoffTypeCorrect, PTL DEF Spec

-----------------------------------------------------------------------------
(***************************************************************************)
(* One connection of a flow.                                               *)
(***************************************************************************)

\* Code c has left the provider for flow f: the handoff, an effect or the
\* connection holds it.
Seen(f, c) ==
    \/ row[f].result = c
    \/ \E e \in Effects : eff[e].flow = f /\ (eff[e].got = c \/ eff[e].token = c)
    \/ c \in conn[f]

\* The callback may still write the handoff, or it is yet to be stored.
Fresh(f) == ask[f].pc \in {"new", "posting"} \/ row[f].state = "pending"

\* The strengthening: before the callback wrote the handoff no code of the
\* flow was seen; since then, no other than the one it wrote.
CodeInv ==
    /\ \A f \in Flows : ask[f].pc \in {"new", "posting"} => row[f] = NoRow
    /\ \A f \in Flows, c \in Codes : Seen(f, c) => ~Fresh(f)
    /\ \A f \in Flows : \A c, d \in Codes : Seen(f, c) /\ Seen(f, d) => c = d

\* A step that writes no result into a handoff.
LEMMA FadingStep ==
    ASSUME TypeOK, CodeInv, EffectsGrow,
           \A f \in Flows : ask'[f].pc \in {"new", "posting"}
                              => ask[f].pc \in {"new", "posting"} /\ row'[f] = NoRow,
           \A f \in Flows : row'[f].state = "pending" => Fresh(f),
           \A f \in Flows : row'[f].result \in Codes => row'[f].result = row[f].result,
           \A f \in Flows : \A c \in conn'[f] : Seen(f, c)
    PROVE  CodeInv'
<1>1. ASSUME NEW f \in Flows, NEW c \in Codes, Seen(f, c)' PROVE Seen(f, c)
  <2>1. CASE row'[f].result = c
    BY <2>1 DEF Seen
  <2>2. CASE c \in conn'[f]
    BY <2>2
  <2>3. ASSUME NEW e \in Effects, eff'[e].flow = f, eff'[e].got = c PROVE Seen(f, c)
    BY <2>3 DEF EffectsGrow, Grows, Seen
  <2>4. ASSUME NEW e \in Effects, eff'[e].flow = f, eff'[e].token = c PROVE Seen(f, c)
    BY <2>4 DEF EffectsGrow, Grows, Seen
  <2> QED  BY <1>1, <2>1, <2>2, <2>3, <2>4 DEF Seen
<1>2. \A f \in Flows : Fresh(f)' => Fresh(f)
  BY DEF Fresh
<1>3. \A f \in Flows : ask'[f].pc \in {"new", "posting"} => row'[f] = NoRow
  OBVIOUS
<1>4. \A f \in Flows, c \in Codes : Seen(f, c)' => ~Fresh(f)'
  BY <1>1, <1>2 DEF CodeInv
<1>5. \A f \in Flows : \A c, d \in Codes : Seen(f, c)' /\ Seen(f, d)' => c = d
  BY <1>1 DEF CodeInv
<1> QED  BY <1>3, <1>4, <1>5 DEF CodeInv

LEMMA CodeStep == TypeOK /\ CodeInv /\ [Next]_vars => CodeInv'
<1> SUFFICES ASSUME TypeOK, CodeInv, [Next]_vars PROVE CodeInv'
  OBVIOUS
<1>0. EffectsGrow
  BY NextGrows
<1>1. CASE UNCHANGED <<row, ask, conn>>
  BY <1>0, <1>1, FadingStep DEF CodeInv, Fresh, Seen
<1>2. CASE Remount
  <2>1. \A f \in Flows : ask'[f].pc = ask[f].pc
    BY <1>2 DEF Remount, TypeOK, Ask
  <2>2. UNCHANGED <<row, conn>>
    BY <1>2 DEF Remount
  <2> QED  BY <1>0, <2>1, <2>2, FadingStep DEF CodeInv, Fresh, Seen
<1>3. ASSUME NEW f \in Flows, Connect(f) \/ Show(f) PROVE CodeInv'
  <2>1. /\ \A g \in Flows : ask'[g].pc \in {"new", "posting"}
                              => ask[g].pc \in {"new", "posting"}
        /\ UNCHANGED <<row, conn>>
    BY <1>3 DEF Connect, Show, AskStep, TypeOK, Ask
  <2> QED  BY <1>0, <2>1, FadingStep DEF CodeInv, Fresh, Seen
<1>4. ASSUME NEW f \in Flows, Insert(f) PROVE CodeInv'
  <2>1. /\ ask[f].pc = "posting" /\ ask'[f].pc = "inserted"
        /\ \A g \in Flows \ {f} : ask'[g] = ask[g]
    BY <1>4 DEF Insert, AskStep, TypeOK, Ask
  <2>2. /\ row'[f].state = "pending" /\ row'[f].result = None
        /\ \A g \in Flows \ {f} : row'[g] \in {NoRow, row[g]}
        /\ UNCHANGED conn
    BY <1>4 DEF Insert
  <2>3. \A g \in Flows : row'[g].state = "pending" => Fresh(g)
    BY <2>1, <2>2 DEF Fresh, NoRow
  <2>4. \A g \in Flows : row'[g].result \in Codes => row'[g].result = row[g].result
    BY <2>2 DEF NoRow
  <2>5. \A g \in Flows : ask'[g].pc \in {"new", "posting"}
                           => ask[g].pc \in {"new", "posting"} /\ row'[g] = NoRow
    BY <2>1, <2>2 DEF CodeInv
  <2> QED  BY <1>0, <2>2, <2>3, <2>4, <2>5, FadingStep DEF Seen
<1>5. ASSUME NEW b \in Browsers, Deliver(b) PROVE CodeInv'
  <2>0. PICK f \in Flows : f = visit[b].flow
    BY <1>5 DEF Deliver, TypeOK, Visit
  <2> DEFINE w == [state |-> "completed", result |-> visit[b].result,
                   expires |-> row[f].expires]
  <2>1. UNCHANGED <<ask, eff, conn>>
    BY <1>5 DEF Deliver
  <2>2. CASE row' = row
    BY <1>1, <2>1, <2>2
  <2>3. CASE row[f].state = "pending" /\ row' = [row EXCEPT ![f] = w]
    <3>1. /\ row'[f].state = "completed"
          /\ \A g \in Flows \ {f} : row'[g] = row[g]
      BY <2>1, <2>3 DEF TypeOK
    <3>2. ~(ask[f].pc \in {"new", "posting"})
      BY <2>1, <2>3 DEF CodeInv, NoRow
    <3>3. \A c \in Codes : ~Seen(f, c)
      BY <2>1, <2>3 DEF CodeInv, Fresh
    <3>4. \A c \in Codes : Seen(f, c)' => c = row'[f].result
      BY <2>1, <3>3 DEF Seen
    <3>5. \A g \in Flows \ {f} : /\ \A c \in Codes : Seen(g, c)' => Seen(g, c)
                                 /\ Fresh(g)' => Fresh(g)
      BY <2>1, <3>1 DEF Seen, Fresh
    <3>6. ~Fresh(f)'
      BY <2>1, <3>1, <3>2 DEF Fresh
    <3>7. \A g \in Flows : ask'[g].pc \in {"new", "posting"} => row'[g] = NoRow
      BY <2>1, <3>1, <3>2 DEF CodeInv
    <3>8. \A g \in Flows, c \in Codes : Seen(g, c)' => ~Fresh(g)'
      BY <3>5, <3>6 DEF CodeInv
    <3>9. \A g \in Flows : \A c, d \in Codes : Seen(g, c)' /\ Seen(g, d)' => c = d
      BY <3>4, <3>5 DEF CodeInv
    <3> QED  BY <3>7, <3>8, <3>9 DEF CodeInv
  <2> QED  BY <1>5, <2>0, <2>2, <2>3 DEF Deliver, Open
<1>6. ASSUME NEW e \in Effects, Save(e) PROVE CodeInv'
  <2>1. UNCHANGED <<row, ask>>
    BY <1>6 DEF Save
  <2>2. eff[e].token \in Codes /\ Flow(e) \in Flows
    BY <1>6 DEF Save, TypeOK, Placed, Flow
  <2>3. \A f \in Flows : \A c \in conn'[f] : Seen(f, c)
    BY <1>6, <2>2 DEF Save, TypeOK, Seen, Flow
  <2> QED  BY <1>0, <2>1, <2>3, FadingStep DEF CodeInv, Fresh
<1>7. ASSUME NEW e \in Effects, Consume(e) PROVE CodeInv'
  <2>1. UNCHANGED <<ask, conn>>
    BY <1>7 DEF Consume
  <2>2. CASE UNCHANGED row
    BY <1>1, <2>1, <2>2
  <2>3. CASE /\ row[Flow(e)].state \in {"pending", "completed"}
             /\ row' = [row EXCEPT ![Flow(e)].state = "consumed"]
    <3>1. Flow(e) \in Flows
      BY <1>7 DEF Consume, TypeOK, Placed, Flow
    <3>2. /\ row'[Flow(e)].state = "consumed"
          /\ row'[Flow(e)].result = row[Flow(e)].result
          /\ \A g \in Flows \ {Flow(e)} : row'[g] = row[g]
      BY <2>3, <3>1 DEF TypeOK, Row
    <3>3. ~(ask[Flow(e)].pc \in {"new", "posting"})
      BY <2>3, <3>1 DEF CodeInv, NoRow
    <3>4. \A g \in Flows : ask'[g].pc \in {"new", "posting"}
                             => ask[g].pc \in {"new", "posting"} /\ row'[g] = NoRow
      BY <2>1, <3>2, <3>3 DEF CodeInv
    <3>5. \A g \in Flows : row'[g].state = "pending" => Fresh(g)
      BY <3>2 DEF Fresh
    <3>6. \A g \in Flows : row'[g].result = row[g].result
      BY <3>2
    <3> QED  BY <1>0, <2>1, <3>4, <3>5, <3>6, FadingStep DEF Seen
  <2> QED  BY <1>7, <2>2, <2>3 DEF Consume
<1> QED
  BY <1>1, <1>2, <1>3, <1>4, <1>5, <1>6, <1>7
     DEF Next, vars, Tick, Configure, Arrive, Work, Get, Handle, Timer, Complete,
         Forget, Die

\* One authorization becomes at most one saved token, however many results the
\* provider sends to the callback and however many effects complete the flow.
THEOREM HandoffOneConnectionPerFlow == Spec => []OneConnectionPerFlow
<1>1. Init => CodeInv
  BY DEF Init, CodeInv, Seen, Fresh, NoRow, Idle
<1>2. TypeOK /\ CodeInv => OneConnectionPerFlow
  BY DEF TypeOK, CodeInv, Seen, OneConnectionPerFlow
<1> QED  BY <1>1, <1>2, CodeStep, HandoffTypeCorrect, PTL DEF Spec
=============================================================================
