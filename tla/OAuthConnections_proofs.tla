---------------------- MODULE OAuthConnections_proofs ----------------------
(***************************************************************************)
(* Theorems about OAuthConnections, for any number of connections, names,  *)
(* grants, tabs, rotations and saves.                                      *)
(***************************************************************************)
EXTENDS OAuthConnections, TLAPS

USE NoneAssumption, BoundAssumption

-----------------------------------------------------------------------------
(***************************************************************************)
(* Type correctness, in four parts: the table, the tabs' operations, the   *)
(* completions, and the rest.                                              *)
(***************************************************************************)
ConnOK == /\ conn \in [Conns -> ConnRow]
          /\ \A c \in Conns : conn[c].state # "absent" => conn[c].grant \in Grants

OpOK == /\ op \in [Tabs -> Operation]
        /\ \A t \in Tabs : Placed(op[t])

FlowOK == /\ flow \in [Grants -> Completion]
          /\ \A g \in Grants : Begun(g)

RestOK == /\ issued \in [Grants -> 0..MaxRotations \union {None}]
          /\ cached \in [Tabs -> [Conns -> Names \union {None}]]
          /\ lost \subseteq Grants /\ saved \subseteq Grants /\ again \subseteq Grants

LEMMA TypeParts == TypeOK => ConnOK /\ OpOK /\ FlowOK /\ RestOK
BY DEF TypeOK, ConnOK, OpOK, FlowOK, RestOK

LEMMA NextTypeParts == ConnOK' /\ OpOK' /\ FlowOK' /\ RestOK' => TypeOK'
BY DEF TypeOK, ConnOK, OpOK, FlowOK, RestOK

\* An action that leaves flow and issued alone.
LEMMA FlowStays == FlowOK /\ UNCHANGED <<issued, flow>> => FlowOK'
BY DEF FlowOK, Begun

\* What one completion may do to flow and keep its type.
LEMMA FlowType ==
    ASSUME FlowOK, NEW g \in Grants, NEW l \in Completion,
           l.pc # "none", l.tries # 0,
           l.tab \in Tabs, l.name \in Names,
           \A i \in Saves : l.posts[i] # "none" => i <= l.tries,
           issued'[g] # None, \A h \in Grants \ {g} : issued'[h] = issued[h],
           flow' = [flow EXCEPT ![g] = l]
    PROVE  FlowOK'
<1>1. flow' \in [Grants -> Completion]
  BY DEF FlowOK
<1>2. ASSUME NEW h \in Grants PROVE Begun(h)'
  BY <1>2 DEF FlowOK, Begun
<1> QED  BY <1>1, <1>2 DEF FlowOK

\* A completion whose next POST has been made.
LEMMA PostedType ==
    ASSUME NEW l \in Completion, l.tries < MaxSaves,
           \A i \in Saves : l.posts[i] # "none" => i <= l.tries
    PROVE  /\ Posted(l) \in Completion
           /\ Posted(l).pc = "save" /\ Posted(l).tries = l.tries + 1
           /\ Posted(l).tab = l.tab /\ Posted(l).conn = l.conn /\ Posted(l).name = l.name
           /\ \A i \in Saves : Posted(l).posts[i] # "none" => i <= l.tries + 1
<1>1. l.tries \in Nat /\ l.tries + 1 \in Saves /\ l.tries + 1 \in 0..MaxSaves
  BY DEF Completion, Saves
<1> DEFINE posts == [l.posts EXCEPT ![l.tries + 1] = "check"]
<1>2. posts \in [Saves -> {"none", "check", "write"}]
  BY <1>1 DEF Completion
<1>3. \A i \in Saves : posts[i] # "none" => i <= l.tries + 1
  BY <1>1 DEF Completion, Saves
<1>4. Posted(l) = [l EXCEPT !.pc = "save", !.tries = l.tries + 1, !.posts = posts]
  BY DEF Posted
<1> HIDE DEF posts
<1> QED  BY <1>1, <1>2, <1>3, <1>4 DEF Completion

Started(t, c, n) == [NoFlow EXCEPT !.tab = t, !.conn = c, !.name = n]

\* A completion before its first one.
LEMMA FirstType ==
    ASSUME NEW t \in Tabs, NEW c \in Conns \union {None}, NEW n \in Names
    PROVE  /\ Started(t, c, n) \in Completion /\ Started(t, c, n).tries = 0
           /\ Started(t, c, n).tab = t
           /\ Started(t, c, n).conn = c /\ Started(t, c, n).name = n
           /\ \A i \in Saves : Started(t, c, n).posts[i] = "none"
<1>1. NoFlow \in Completion /\ NoFlow.tries = 0 /\ \A i \in Saves : NoFlow.posts[i] = "none"
  BY DEF NoFlow, Completion
<1> QED  BY <1>1 DEF Started, Completion

\* A step of the handler of one save, which may end its completion.
LEMMA SaveSteps ==
    ASSUME FlowOK, NEW g \in Grants, NEW i \in Saves, UNCHANGED issued,
           NEW v \in {"none", "write"}, NEW pc \in {flow[g].pc, "ended"},
           flow[g].posts[i] # "none",
           flow' = [flow EXCEPT ![g] = [flow[g] EXCEPT !.pc = pc,
                                        !.posts = [flow[g].posts EXCEPT ![i] = v]]]
    PROVE  /\ FlowOK'
           /\ flow'[g].posts = [flow[g].posts EXCEPT ![i] = v]
           /\ flow'[g].tries = flow[g].tries
           /\ \A h \in Grants \ {g} : flow'[h] = flow[h]
<1> DEFINE posts == [flow[g].posts EXCEPT ![i] = v]
           l == [flow[g] EXCEPT !.pc = pc, !.posts = posts]
<1>1. /\ flow[g] \in Completion /\ Begun(g)
      /\ i <= flow[g].tries /\ i \in Nat /\ i > 0 /\ flow[g].tries \in Nat
  BY DEF FlowOK, Begun, Completion, Saves
<1>2. flow[g].pc # "none" /\ flow[g].tries # 0 /\ issued[g] # None
  BY <1>1 DEF Begun
<1>3. /\ flow[g].tab \in Tabs /\ flow[g].name \in Names
      /\ \A j \in Saves : flow[g].posts[j] # "none" => j <= flow[g].tries
  BY <1>1, <1>2 DEF Begun
<1>4. /\ posts \in [Saves -> {"none", "check", "write"}]
      /\ \A j \in Saves : posts[j] # "none" => j <= flow[g].tries
  BY <1>1, <1>3 DEF Completion
<1>5. flow' = [flow EXCEPT ![g] = l]
  OBVIOUS
<1> HIDE DEF posts
<1>6. /\ l \in Completion /\ l.pc = pc /\ l.posts = posts /\ l.tab = flow[g].tab
      /\ l.conn = flow[g].conn /\ l.name = flow[g].name /\ l.tries = flow[g].tries
  BY <1>1, <1>4 DEF Completion
<1> HIDE DEF l
<1>7. FlowOK'
  BY <1>2, <1>3, <1>4, <1>5, <1>6, FlowType
<1>8. flow'[g] = l /\ \A h \in Grants \ {g} : flow'[h] = flow[h]
  BY <1>5 DEF FlowOK
<1> QED  BY <1>6, <1>7, <1>8 DEF posts

LEMMA SaveMoves ==
    ASSUME FlowOK, NEW g \in Grants, NEW i \in Saves,
           CheckSave(g, i) \/ WriteSave(g, i) \/ LoseSave(g, i)
    PROVE  /\ FlowOK'
           /\ \E v \in {"none", "write"} :
                /\ flow'[g].posts = [flow[g].posts EXCEPT ![i] = v]
                /\ WriteSave(g, i) => v = "none"
           /\ flow'[g].tries = flow[g].tries
           /\ \A h \in Grants \ {g} : flow'[h] = flow[h]
<1>1. PICK v \in {"none", "write"}, pc \in {flow[g].pc, "ended"} :
        /\ flow' = [flow EXCEPT ![g] = [flow[g] EXCEPT !.pc = pc,
                                         !.posts = [flow[g].posts EXCEPT ![i] = v]]]
        /\ WriteSave(g, i) => v = "none"
  <2> DEFINE F(v, pc) == [flow EXCEPT ![g] = [flow[g] EXCEPT !.pc = pc,
                                              !.posts = [flow[g].posts EXCEPT ![i] = v]]]
  <2>1. CASE ~WriteSave(g, i)
    <3>1. PICK v \in {"none", "write"} :
            flow' = [flow EXCEPT ![g] = [flow[g] EXCEPT
                       !.posts = [flow[g].posts EXCEPT ![i] = v]]]
      BY <2>1 DEF CheckSave, LoseSave
    <3>2. flow' = F(v, flow[g].pc)
      BY <3>1 DEF FlowOK, Completion
    <3> QED  BY <2>1, <3>2
  <2>2. CASE WriteSave(g, i)
    <3>1. CASE flow' = [flow EXCEPT ![g].posts[i] = "none", ![g].pc = "ended"]
      <4>1. flow' = F("none", "ended")
        BY <3>1 DEF FlowOK, Completion
      <4> QED  BY <4>1
    <3>2. CASE flow' = [flow EXCEPT ![g].posts[i] = "none"]
      <4>1. flow' = F("none", flow[g].pc)
        BY <3>2 DEF FlowOK, Completion
      <4> QED  BY <4>1
    <3> QED  BY <2>2, <3>1, <3>2 DEF WriteSave
  <2> QED  BY <2>1, <2>2
<1>2. UNCHANGED issued /\ flow[g].posts[i] # "none"
  BY DEF CheckSave, WriteSave, LoseSave
<1> QED  BY <1>1, <1>2, SaveSteps

\* What one tab may do to op and keep its type.
LEMMA OpType ==
    ASSUME OpOK, NEW t \in Tabs, NEW l \in Operation, Placed(l),
           op' = [op EXCEPT ![t] = l]
    PROVE  OpOK'
BY DEF OpOK, Placed

\* So it does when a tab moves from a check to the write that follows it.
LEMMA GotoType ==
    ASSUME OpOK, NEW t \in Tabs,
           NEW pc \in {"write", "nameWrite"},
           op[t].pc \in {"check", "nameCheck"},
           pc = "write" => op[t].pc = "check",
           op' = [op EXCEPT ![t] = [op[t] EXCEPT !.pc = pc]]
    PROVE  OpOK'
<1> DEFINE l == [op[t] EXCEPT !.pc = pc]
<1>1. op[t] \in Operation /\ Placed(op[t])
  BY DEF OpOK
<1>2. l \in Operation
  BY <1>1 DEF Operation
<1>3. Placed(l)
  BY <1>1 DEF Placed, Operation
<1>4. op' = [op EXCEPT ![t] = l]
  OBVIOUS
<1> HIDE DEF l
<1> QED  BY <1>2, <1>3, <1>4, OpType

LEMMA NoOpType == NoOp \in Operation /\ Placed(NoOp)
BY DEF NoOp, Operation, Placed

LEMMA AbandonType ==
    ASSUME TypeOK, NEW t \in Tabs, Abandon(t)
    PROVE  OpOK' /\ lost' \subseteq Grants
<1>1. OpOK'
  BY TypeParts, NoOpType, OpType DEF Abandon
<1>2. lost' \subseteq Grants
  BY DEF Abandon, TypeOK, Placed
<1> QED  BY <1>1, <1>2

\* Every step keeps the types.
LEMMA TypeStep == TypeOK /\ [Next]_vars => TypeOK'
<1> SUFFICES ASSUME TypeOK, [Next]_vars PROVE TypeOK'
  OBVIOUS
<1>0. ConnOK /\ OpOK /\ FlowOK /\ RestOK
  BY TypeParts
<1>stay. UNCHANGED <<issued, flow>> => FlowOK'
  BY <1>0, FlowStays
<1>1. ASSUME NEW t \in Tabs, Reload(t) PROVE TypeOK'
  <2>1. ActiveNames \in [Conns -> Names \union {None}]
    BY <1>0 DEF ActiveNames, ConnOK, ConnRow
  <2>2. RestOK'
    BY <1>0, <1>1, <2>1 DEF Reload, RestOK
  <2> QED  BY <1>0, <1>1, <1>stay, <2>2, NextTypeParts DEF Reload, ConnOK, OpOK
<1>2. ASSUME NEW t \in Tabs, NEW g \in Grants, NEW n \in Names, Connect(t, g, n)
      PROVE  TypeOK'
  <2>0. Listed(t, n) \subseteq Conns \union {None}
    BY DEF Listed
  <2>1. PICK c \in Conns \union {None} :
          flow' = [flow EXCEPT ![g] = Posted(Started(t, c, n))]
    BY <1>2, <2>0 DEF Connect, Started
  <2> DEFINE l == Posted(Started(t, c, n))
  <2>2. /\ l \in Completion /\ l.pc = "save" /\ l.tries = 1
        /\ l.tab = t /\ l.conn = c /\ l.name = n
        /\ \A i \in Saves : l.posts[i] # "none" => i <= l.tries
    <3>1. /\ Started(t, c, n) \in Completion /\ Started(t, c, n).tries = 0
          /\ Started(t, c, n).tab = t
          /\ Started(t, c, n).conn = c /\ Started(t, c, n).name = n
          /\ \A i \in Saves : Started(t, c, n).posts[i] = "none"
      BY FirstType
    <3> QED  BY <3>1, PostedType
  <2>3. /\ l.pc # "none" /\ l.tries # 0
        /\ l.tab \in Tabs /\ l.name \in Names
    BY <2>2
  <2>4. flow' = [flow EXCEPT ![g] = l]
    BY <2>1
  <2> HIDE DEF l
  <2>5. issued'[g] # None /\ \A h \in Grants \ {g} : issued'[h] = issued[h]
    BY <1>0, <1>2 DEF Connect, RestOK
  <2>6. FlowOK'
    BY <1>0, <2>2, <2>3, <2>4, <2>5, FlowType
  <2> QED  BY <1>0, <1>2, <2>6, NextTypeParts DEF Connect, ConnOK, OpOK, RestOK
<1>3. ASSUME NEW t \in Tabs, NEW c \in Conns, StartRefresh(t, c) PROVE TypeOK'
  <2> DEFINE l == [pc |-> "resolve", conn |-> c, name |-> cached[t][c],
                   grant |-> None, num |-> 0]
  <2>1. l \in Operation /\ Placed(l)
    BY <1>0, <1>3 DEF StartRefresh, RestOK, Operation, Placed
  <2>2. op' = [op EXCEPT ![t] = l]
    BY <1>3 DEF StartRefresh
  <2> HIDE DEF l
  <2> QED  BY <1>0, <1>3, <2>1, <2>2, <1>stay, OpType, NextTypeParts
              DEF StartRefresh, ConnOK, RestOK
<1>4. ASSUME NEW t \in Tabs, Resolve(t) PROVE TypeOK'
  <2> DEFINE c == op[t].conn
             l == IF Active(c)
                  THEN [pc |-> "exchange", conn |-> c, name |-> op[t].name,
                        grant |-> conn[c].grant, num |-> conn[c].num]
                  ELSE NoOp
  <2>1. l \in Operation /\ Placed(l)
    BY <1>0, <1>4, NoOpType
       DEF Resolve, Active, OpOK, ConnOK, ConnRow, Operation, Placed
  <2>2. op' = [op EXCEPT ![t] = l]
    BY <1>4 DEF Resolve
  <2> HIDE DEF l
  <2> QED  BY <1>0, <1>4, <2>1, <2>2, <1>stay, OpType, NextTypeParts
              DEF Resolve, ConnOK, RestOK
<1>5. ASSUME NEW t \in Tabs, Exchange(t) PROVE TypeOK'
  <2> DEFINE g == op[t].grant
             l == [pc |-> "check", conn |-> op[t].conn, name |-> op[t].name,
                   grant |-> g, num |-> op[t].num + 1]
  <2>1. CASE op' = [op EXCEPT ![t] = NoOp] /\ UNCHANGED issued
    BY <1>0, <1>5, <2>1, <1>stay, NoOpType, OpType, NextTypeParts
       DEF Exchange, ConnOK, RestOK
  <2>2. CASE /\ issued[g] = op[t].num /\ op[t].num < MaxRotations
             /\ issued' = [issued EXCEPT ![g] = op[t].num + 1]
             /\ op' = [op EXCEPT ![t] = l]
    <3>1. /\ op[t].num + 1 \in 0..MaxRotations
          /\ g \in Grants
          /\ op[t].conn \in Conns /\ op[t].name \in Names
      BY <1>0, <1>5, <2>2 DEF Exchange, OpOK, Operation, Placed
    <3>2. l \in Operation /\ Placed(l)
      BY <3>1 DEF Operation, Placed
    <3> HIDE DEF l
    <3>3. OpOK'
      BY <1>0, <2>2, <3>2, OpType
    <3>4. RestOK'
      BY <1>0, <1>5, <2>2, <3>1 DEF Exchange, RestOK
    <3>5. issued[g] # None
      <4>1. op[t].num \in Nat
        BY <1>0 DEF OpOK, Operation
      <4>2. issued[g] = op[t].num
        BY <2>2
      <4> QED  BY <4>1, <4>2
    <3>6. FlowOK'
      BY <1>0, <1>5, <2>2, <3>1, <3>5 DEF Exchange, FlowOK, Begun, RestOK
    <3> QED  BY <1>0, <1>5, <3>3, <3>4, <3>6, NextTypeParts DEF Exchange, ConnOK
  <2>3. \/ op' = [op EXCEPT ![t] = NoOp] /\ UNCHANGED issued
        \/ /\ issued[g] = op[t].num /\ op[t].num < MaxRotations
           /\ issued' = [issued EXCEPT ![g] = op[t].num + 1]
           /\ op' = [op EXCEPT ![t] = l]
    BY <1>5 DEF Exchange, TokenReturned
  <2> HIDE DEF g, l
  <2> QED  BY <2>1, <2>2, <2>3
<1>6. ASSUME NEW t \in Tabs, GiveUp(t) PROVE TypeOK'
  BY <1>0, <1>6, <1>stay, AbandonType, NextTypeParts DEF GiveUp, ConnOK, RestOK
<1>7. ASSUME NEW t \in Tabs, Check(t) PROVE TypeOK'
  <2>1. CASE Abandon(t)
    BY <1>0, <1>7, <2>1, <1>stay, AbandonType, NextTypeParts DEF Check, ConnOK, RestOK
  <2>2. CASE Goto(t, "write") /\ UNCHANGED lost
    <3>1. op[t].pc = "check" /\ UNCHANGED <<conn, issued, cached, flow, lost, saved, again>>
      BY <1>7, <2>2 DEF Check
    <3>2. op' = [op EXCEPT ![t] = [op[t] EXCEPT !.pc = "write"]]
      BY <2>2 DEF Goto
    <3>3. OpOK'
      BY <1>0, <3>1, <3>2, GotoType
    <3> QED  BY <1>0, <1>stay, <3>1, <3>3, NextTypeParts DEF ConnOK, RestOK
  <2> QED  BY <1>7, <2>1, <2>2 DEF Check
<1>8. ASSUME NEW t \in Tabs, Write(t) PROVE TypeOK'
  <2> DEFINE c == op[t].conn
             r == [state |-> "active", name |-> op[t].name,
                   grant |-> op[t].grant, num |-> op[t].num]
  <2>1. CASE /\ conn' = [conn EXCEPT ![c] = r]
             /\ Show(t, c, op[t].name) \/ UNCHANGED cached
             /\ op' = [op EXCEPT ![t] = NoOp]
             /\ UNCHANGED lost
    <3>1. /\ c \in Conns /\ op[t].name \in Names /\ op[t].grant \in Grants
          /\ r \in ConnRow
      BY <1>0, <1>8 DEF Write, OpOK, Operation, Placed, ConnRow
    <3>2. ConnOK'
      BY <1>0, <2>1, <3>1 DEF ConnOK
    <3>3. OpOK'
      BY <1>0, <2>1, NoOpType, OpType
    <3>4. RestOK'
      BY <1>0, <1>8, <2>1, <3>1 DEF Write, Show, RestOK
    <3> QED  BY <1>8, <1>stay, <3>2, <3>3, <3>4, NextTypeParts DEF Write
  <2>2. CASE Abandon(t) /\ UNCHANGED <<conn, cached>>
    BY <1>0, <1>8, <2>2, <1>stay, AbandonType, NextTypeParts DEF Write, ConnOK, RestOK
  <2> QED  BY <1>8, <2>1, <2>2 DEF Write, Upsert
<1>9. ASSUME NEW t \in Tabs, NEW c \in Conns, NEW n \in Names,
             StartRename(t, c, n)
      PROVE  TypeOK'
  <2> DEFINE l == [pc |-> "nameCheck", conn |-> c, name |-> n,
                   grant |-> None, num |-> 0]
  <2>1. l \in Operation /\ Placed(l)
    BY DEF Operation, Placed
  <2>2. op' = [op EXCEPT ![t] = l]
    BY <1>9 DEF StartRename
  <2> HIDE DEF l
  <2> QED  BY <1>0, <1>9, <2>1, <2>2, <1>stay, OpType, NextTypeParts
              DEF StartRename, ConnOK, RestOK
<1>10. ASSUME NEW t \in Tabs, NameCheck(t) PROVE TypeOK'
  <2>1. CASE op' = [op EXCEPT ![t] = NoOp]
    BY <1>0, <1>10, <2>1, <1>stay, NoOpType, OpType, NextTypeParts DEF NameCheck, ConnOK, RestOK
  <2>2. CASE op' = [op EXCEPT ![t] = [op[t] EXCEPT !.pc = "nameWrite"]]
    <3>1. op[t].pc = "nameCheck" /\ UNCHANGED <<conn, issued, cached, flow, lost, saved, again>>
      BY <1>10 DEF NameCheck
    <3>2. OpOK'
      BY <1>0, <2>2, <3>1, GotoType
    <3> QED  BY <1>0, <1>stay, <3>1, <3>2, NextTypeParts DEF ConnOK, RestOK
  <2> QED  BY <1>10, <2>1, <2>2 DEF NameCheck
<1>11. ASSUME NEW t \in Tabs, NameWrite(t) PROVE TypeOK'
  <2> DEFINE c == op[t].conn
  <2>1. c \in Conns /\ op[t].name \in Names
    BY <1>0, <1>11 DEF NameWrite, OpOK, Placed
  <2>2. OpOK'
    BY <1>0, <1>11, NoOpType, OpType DEF NameWrite
  <2>3. ConnOK'
    BY <1>0, <1>11, <2>1 DEF NameWrite, ConnOK, ConnRow
  <2>4. RestOK'
    BY <1>0, <1>11, <2>1 DEF NameWrite, Show, RestOK
  <2> QED  BY <1>11, <1>stay, <2>2, <2>3, <2>4, NextTypeParts DEF NameWrite
<1>12. ASSUME NEW t \in Tabs, NEW c \in Conns, Revoke(t, c) PROVE TypeOK'
  <2>1. ConnOK'
    BY <1>0, <1>12 DEF Revoke, Active, ConnOK, ConnRow
  <2>2. RestOK'
    BY <1>0, <1>12 DEF Revoke, Show, RestOK
  <2> QED  BY <1>0, <1>12, <2>1, <2>2, <1>stay, NextTypeParts DEF Revoke, OpOK
<1>13. ASSUME NEW g \in Grants, SaveAgain(g) PROVE TypeOK'
  <2>1. /\ flow[g] \in Completion /\ flow[g].pc = "save" /\ flow[g].tries < MaxSaves
        /\ flow[g].tries \in Nat /\ issued[g] # None
        /\ flow[g].tab \in Tabs /\ flow[g].name \in Names
        /\ \A i \in Saves : flow[g].posts[i] # "none" => i <= flow[g].tries
    BY <1>0, <1>13 DEF SaveAgain, FlowOK, Begun, Completion
  <2> DEFINE l == Posted(flow[g])
  <2>2. /\ l \in Completion /\ l.pc = "save" /\ l.tries = flow[g].tries + 1
        /\ l.tab = flow[g].tab /\ l.conn = flow[g].conn /\ l.name = flow[g].name
        /\ \A i \in Saves : l.posts[i] # "none" => i <= l.tries
    BY <2>1, PostedType
  <2>3. flow' = [flow EXCEPT ![g] = l]
    BY <1>13 DEF SaveAgain
  <2> HIDE DEF l
  <2>4. /\ l.pc # "none" /\ l.tries # 0
        /\ l.tab \in Tabs /\ l.name \in Names
        /\ \A i \in Saves : l.posts[i] # "none" => i <= l.tries
    BY <2>1, <2>2
  <2>5. issued'[g] # None /\ \A h \in Grants \ {g} : issued'[h] = issued[h]
    BY <1>13, <2>1 DEF SaveAgain
  <2>6. FlowOK'
    BY <1>0, <2>2, <2>3, <2>4, <2>5, FlowType
  <2> QED  BY <1>0, <1>13, <2>6, NextTypeParts DEF SaveAgain, ConnOK, OpOK, RestOK
<1>14. ASSUME NEW g \in Grants, StopFlow(g) PROVE TypeOK'
  <2> DEFINE l == [flow[g] EXCEPT !.pc = "ended"]
  <2>1. /\ flow[g] \in Completion /\ flow[g].pc = "save" /\ flow[g].tries # 0
        /\ issued[g] # None
        /\ flow[g].tab \in Tabs /\ flow[g].name \in Names
        /\ \A i \in Saves : flow[g].posts[i] # "none" => i <= flow[g].tries
    BY <1>0, <1>14 DEF StopFlow, FlowOK, Begun
  <2>2. /\ l \in Completion /\ l.pc = "ended" /\ l.tries = flow[g].tries
        /\ l.tab = flow[g].tab /\ l.conn = flow[g].conn /\ l.name = flow[g].name
        /\ l.posts = flow[g].posts
    BY <2>1 DEF Completion
  <2>3. flow' = [flow EXCEPT ![g] = l]
    BY <1>14 DEF StopFlow
  <2> HIDE DEF l
  <2>4. /\ l.pc # "none" /\ l.tries # 0
        /\ l.tab \in Tabs /\ l.name \in Names
        /\ \A i \in Saves : l.posts[i] # "none" => i <= l.tries
    BY <2>1, <2>2
  <2>5. issued'[g] # None /\ \A h \in Grants \ {g} : issued'[h] = issued[h]
    BY <1>14, <2>1 DEF StopFlow
  <2>6. FlowOK'
    BY <1>0, <2>2, <2>3, <2>4, <2>5, FlowType
  <2> QED  BY <1>0, <1>14, <2>6, NextTypeParts DEF StopFlow, ConnOK, OpOK, RestOK
<1>15. ASSUME NEW g \in Grants, NEW i \in Saves,
              CheckSave(g, i) \/ LoseSave(g, i)
       PROVE  TypeOK'
  <2>1. FlowOK'
    BY <1>0, <1>15, SaveMoves
  <2> QED  BY <1>0, <1>15, <2>1, NextTypeParts
              DEF CheckSave, LoseSave, ConnOK, OpOK, RestOK
<1>16. ASSUME NEW g \in Grants, NEW i \in Saves, WriteSave(g, i) PROVE TypeOK'
  <2> DEFINE r == [state |-> "active", name |-> flow[g].name, grant |-> g, num |-> 0]
  <2>1. FlowOK'
    BY <1>0, <1>16, SaveMoves
  <2>2. flow[g].tab \in Tabs /\ flow[g].name \in Names
    BY <1>0, <1>16 DEF WriteSave, FlowOK, Begun, Completion, Saves
  <2>3. Rows(flow[g].conn) \subseteq Conns
    BY <1>0 DEF Rows, FlowOK, Completion
  <2>4. PICK c \in Conns : /\ conn' = [conn EXCEPT ![c] = r]
                           /\ Show(flow[g].tab, c, flow[g].name) \/ UNCHANGED cached
    BY <1>16, <2>3 DEF WriteSave, Upsert
  <2>5. r \in ConnRow
    BY <2>2 DEF ConnRow
  <2>6. ConnOK'
    BY <1>0, <2>4, <2>5 DEF ConnOK
  <2>7. RestOK'
    BY <1>0, <1>16, <2>2, <2>4 DEF WriteSave, Show, RestOK
  <2> QED  BY <1>0, <1>16, <2>1, <2>6, <2>7, NextTypeParts DEF WriteSave, OpOK
<1>17. CASE UNCHANGED vars
  BY <1>17 DEF TypeOK, Begun, vars
<1> QED
  BY <1>1, <1>2, <1>3, <1>4, <1>5, <1>6, <1>7, <1>8, <1>9, <1>10, <1>11, <1>12,
     <1>13, <1>14, <1>15, <1>16, <1>17 DEF Next, Complete, Operate

\* Every variable keeps its type; an operation that holds a token knows the
\* grant it belongs to.
THEOREM OAuthTypeCorrect == Spec => []TypeOK
<1>1. Init => TypeOK
  BY NoOpType DEF Init, TypeOK, NoConn, ConnRow, NoFlow, Completion, Begun
<1> QED  BY <1>1, TypeStep, PTL DEF Spec

-----------------------------------------------------------------------------
(***************************************************************************)
(* Names.                                                                  *)
(***************************************************************************)
\* A statement that writes an active row needs its name to be free.
LEMMA NamesStep == TypeOK /\ ActiveNamesUnique /\ [Next]_vars => ActiveNamesUnique'
<1> SUFFICES ASSUME TypeOK, ActiveNamesUnique, [Next]_vars
             PROVE  ActiveNamesUnique'
  OBVIOUS
<1>1. CASE UNCHANGED conn
  BY <1>1 DEF ActiveNamesUnique, Active
<1>2. ASSUME NEW t \in Tabs, Write(t), ~UNCHANGED conn PROVE ActiveNamesUnique'
  <2> DEFINE c == op[t].conn
  <2>1. /\ c \in Conns
        /\ NameFree(c, op[t].name)
        /\ \A d \in Conns \ {c} : conn'[d] = conn[d]
        /\ conn'[c].name = op[t].name
    BY <1>2 DEF Write, Upsert, TypeOK, Placed
  <2> QED  BY <2>1 DEF ActiveNamesUnique, Active, NameFree, NameTaken
<1>3. ASSUME NEW t \in Tabs, NameWrite(t), ~UNCHANGED conn
      PROVE  ActiveNamesUnique'
  <2> DEFINE c == op[t].conn
  <2>1. /\ c \in Conns
        /\ Active(c) => NameFree(c, op[t].name)
        /\ \A d \in Conns \ {c} : conn'[d] = conn[d]
        /\ conn'[c].name = op[t].name /\ conn'[c].state = conn[c].state
    <3>1. c \in Conns
      BY <1>3 DEF NameWrite, TypeOK, Placed
    <3>2. /\ Active(c) => NameFree(c, op[t].name)
          /\ conn' = [conn EXCEPT ![c] = [conn[c] EXCEPT !.name = op[t].name]]
      BY <1>3 DEF NameWrite
    <3> DEFINE r == [conn[c] EXCEPT !.name = op[t].name]
    <3>3. r.name = op[t].name /\ r.state = conn[c].state
      BY <3>1 DEF TypeOK, ConnRow
    <3>4. conn' = [conn EXCEPT ![c] = r]
      BY <3>2
    <3> HIDE DEF r
    <3> QED  BY <3>1, <3>2, <3>3, <3>4 DEF TypeOK
  <2> QED  BY <2>1 DEF ActiveNamesUnique, Active, NameFree, NameTaken
<1>4. ASSUME NEW t \in Tabs, NEW c \in Conns, Revoke(t, c)
      PROVE  ActiveNamesUnique'
  BY <1>4 DEF Revoke, TypeOK, ConnRow, ActiveNamesUnique, Active
<1>5. ASSUME NEW g \in Grants, NEW i \in Saves, WriteSave(g, i)
      PROVE  ActiveNamesUnique'
  <2> DEFINE l == flow[g]
  <2>1. l.conn \in Conns \union {None} /\ NameFree(l.conn, l.name)
    BY <1>5 DEF WriteSave, TypeOK, Completion
  <2>2. PICK c \in Rows(l.conn) :
          conn' = [conn EXCEPT ![c] = [state |-> "active", name |-> l.name,
                                       grant |-> g, num |-> 0]]
    BY <1>5 DEF WriteSave, Upsert
  <2>3. c \in Conns /\ (l.conn = None \/ l.conn = c)
    BY <2>1, <2>2 DEF Rows
  <2>4. /\ \A d \in Conns \ {c} : conn'[d] = conn[d]
        /\ conn'[c].name = l.name
    BY <2>2, <2>3 DEF TypeOK
  <2>5. \A d \in Conns \ {c} : Active(d) => conn[d].name # l.name
    BY <2>1, <2>3 DEF NameFree, NameTaken
  <2> QED  BY <2>3, <2>4, <2>5 DEF ActiveNamesUnique, Active
<1> QED
  BY <1>1, <1>2, <1>3, <1>4, <1>5
     DEF Next, Complete, Operate, vars, Reload, Connect, SaveAgain, StopFlow,
         CheckSave, LoseSave, StartRefresh, Resolve, Exchange, GiveUp, Check,
         StartRename, NameCheck

\* Two active connections never share a name.
THEOREM OAuthActiveNamesUnique == Spec => []ActiveNamesUnique
<1>1. Init => ActiveNamesUnique
  BY DEF Init, ActiveNamesUnique, Active, NoConn
<1> QED  BY <1>1, NamesStep, OAuthTypeCorrect, PTL DEF Spec

-----------------------------------------------------------------------------
(***************************************************************************)
(* Tokens.  A row carries the token it stores, an operation the token it   *)
(* was given or holds.  Nobody carries a number above the provider's; a    *)
(* grant that was stored once belongs to one connection, and nobody        *)
(* carries one that was not stored; whoever holds the provider's           *)
(* answer is alone in that, holds the valid token, and all other carriers  *)
(* of its grant are behind.                                                *)
(***************************************************************************)
RowCarries(c) == conn[c].state # "absent"
OpCarries(t)  == op[t].pc \in {"exchange", "check", "write"}

Issued ==
    /\ \A c \in Conns : RowCarries(c) =>
         /\ issued[conn[c].grant] # None
         /\ conn[c].num <= issued[conn[c].grant]
    /\ \A t \in Tabs : OpCarries(t) =>
         /\ issued[op[t].grant] # None
         /\ op[t].num <= issued[op[t].grant]

OneConnPerGrant ==
    /\ \A c, d \in Conns :
          /\ RowCarries(c) /\ RowCarries(d) /\ conn[c].grant = conn[d].grant
          /\ conn[c].grant \notin again
          => c = d
    /\ \A c \in Conns, t \in Tabs :
          /\ RowCarries(c) /\ OpCarries(t) /\ conn[c].grant = op[t].grant
          /\ op[t].grant \notin again
          => op[t].conn = c
    /\ \A t, u \in Tabs :
          /\ OpCarries(t) /\ OpCarries(u) /\ op[t].grant = op[u].grant
          /\ op[t].grant \notin again
          => op[t].conn = op[u].conn

\* Its first save is on the way, and there was no other.
First(g) == flow[g].tries < 2 /\ \E i \in Saves : flow[g].posts[i] # "none"

FirstSave ==
    \A g \in Grants :
        /\ First(g) \/ issued[g] = None => g \notin saved
        /\ g \notin saved =>
              /\ issued[g] \in {None, 0}
              /\ \A c \in Conns : RowCarries(c) => conn[c].grant # g
              /\ \A t \in Tabs : OpCarries(t) => op[t].grant # g

HolderIsAhead ==
    \A t \in Tabs : Holding(t) =>
        /\ \A c \in Conns : RowCarries(c) /\ conn[c].grant = op[t].grant =>
             conn[c].num < issued[op[t].grant]
        /\ \A u \in Tabs : op[u].pc = "exchange" /\ op[u].grant = op[t].grant =>
             op[u].num < issued[op[t].grant]

OneHolderPerGrant ==
    \A t \in Tabs : Holding(t) =>
        /\ op[t].num > 0 /\ issued[op[t].grant] = op[t].num
        /\ \A u \in Tabs : Holding(u) /\ op[u].grant = op[t].grant => u = t

TokenInv == /\ Issued
            /\ OneConnPerGrant
            /\ FirstSave
            /\ HolderIsAhead
            /\ OneHolderPerGrant
            /\ StoredTokenIsValid

\* What tab t carries stays the same, or it carries nothing any more, in
\* which case a token it held is recorded as lost.
Fades(t) ==
    IF op'[t].pc \in {"exchange", "check", "write"}
    THEN /\ OpCarries(t)
         /\ op'[t].conn = op[t].conn
         /\ op'[t].grant = op[t].grant
         /\ op'[t].num = op[t].num
         /\ op'[t].pc \in {"check", "write"} <=> Holding(t)
    ELSE Holding(t) => op[t].grant \in lost'

\* The completion of g goes on, or makes another save.
GoesOn(g) == /\ flow[g].tries > 1 => flow'[g].tries > 1
             /\ First(g)' => First(g)

LEMMA FlowGoesOn == UNCHANGED flow => \A g \in Grants : GoesOn(g)
BY DEF GoesOn, First

\* A step after which no row or operation carries anything new.
LEMMA FadingStep ==
    ASSUME TypeOK, TokenInv, UNCHANGED <<issued, saved, again>>, lost \subseteq lost',
           \A g \in Grants : GoesOn(g),
           \A c \in Conns : /\ conn'[c].grant = conn[c].grant
                            /\ conn'[c].num = conn[c].num
                            /\ conn'[c].state # "absent" => RowCarries(c)
                            /\ conn'[c].state = "active" => Active(c),
           \A t \in Tabs : Fades(t)
    PROVE  TokenInv'
<1>1. Issued'
  BY DEF TokenInv, Issued, RowCarries, OpCarries, Fades
<1>2. OneConnPerGrant'
  <2>1. \A c \in Conns : RowCarries(c)' => RowCarries(c)
    BY DEF RowCarries
  <2>2. \A t \in Tabs : OpCarries(t)' =>
          OpCarries(t) /\ op'[t].conn = op[t].conn /\ op'[t].grant = op[t].grant
    BY DEF OpCarries, Fades
  <2> QED  BY <2>1, <2>2 DEF TokenInv, OneConnPerGrant
<1>3. HolderIsAhead'
  BY DEF TokenInv, HolderIsAhead, RowCarries, Holding, Fades, OpCarries
<1>4. OneHolderPerGrant'
  BY DEF TokenInv, OneHolderPerGrant, Holding, Fades
<1>5. FirstSave'
  BY DEF TokenInv, FirstSave, RowCarries, OpCarries, Fades, GoesOn
<1>6. StoredTokenIsValid'
  <2>0. \A g \in again' : flow'[g].tries > 1
    BY DEF TypeOK, TokenInv, StoredTokenIsValid, GoesOn
  <2> SUFFICES ASSUME NEW c \in Conns, Active(c)'
               PROVE  \/ issued'[conn'[c].grant] = conn'[c].num
                      \/ conn'[c].grant \in lost' \union again'
                      \/ \E t \in Tabs : Holding(t)' /\ op'[t].grant = conn'[c].grant
    BY <2>0 DEF StoredTokenIsValid
  <2>1. \/ issued[conn[c].grant] = conn[c].num
        \/ conn[c].grant \in lost \union again
        \/ \E t \in Tabs : Holding(t) /\ op[t].grant = conn[c].grant
    BY DEF Active, TokenInv, StoredTokenIsValid
  <2>2. ASSUME NEW t \in Tabs, Holding(t), op[t].grant = conn[c].grant
        PROVE  \/ conn'[c].grant \in lost'
               \/ Holding(t)' /\ op'[t].grant = conn'[c].grant
    BY <2>2 DEF Holding, Fades
  <2> QED  BY <2>1, <2>2
<1> QED  BY <1>1, <1>2, <1>3, <1>4, <1>5, <1>6 DEF TokenInv

\* An operation that is abandoned only fades.
LEMMA AbandonFades ==
    ASSUME TypeOK, TokenInv, NEW t \in Tabs, Abandon(t)
    PROVE  lost \subseteq lost' /\ \A u \in Tabs : Fades(u)
<1>1. /\ op'[t] = NoOp
      /\ \A u \in Tabs \ {t} : op'[u] = op[u]
  BY DEF Abandon, TypeOK
<1>2. Holding(t) => op[t].grant \in lost'
  BY DEF Holding, Abandon, TokenInv, OneHolderPerGrant
<1> QED  BY <1>1, <1>2 DEF Abandon, Fades, NoOp, OpCarries, Holding

\* A grant that was not authorized before is carried by nobody.
LEMMA NewGrant ==
    ASSUME TypeOK, TokenInv, NEW g \in Grants, issued[g] = None
    PROVE  /\ \A c \in Conns : RowCarries(c) => conn[c].grant # g
           /\ \A t \in Tabs : OpCarries(t) => op[t].grant # g
BY DEF TokenInv, Issued

\* Every step keeps the invariant.
LEMMA TokenStep == TypeOK /\ TokenInv /\ [Next]_vars => TokenInv'
<1> SUFFICES ASSUME TypeOK, TokenInv, [Next]_vars PROVE TokenInv'
  OBVIOUS
<1>1. ASSUME NEW t \in Tabs, Reload(t) PROVE TokenInv'
  BY <1>1, FlowGoesOn, FadingStep
     DEF Reload, Fades, OpCarries, Holding, RowCarries, Active
<1>2. ASSUME NEW t \in Tabs, NEW g \in Grants, NEW n \in Names, Connect(t, g, n)
      PROVE  TokenInv'
  <2>1. /\ issued[g] = None /\ issued'[g] = 0
        /\ \A f \in Grants \ {g} : issued'[f] = issued[f] /\ flow'[f] = flow[f]
        /\ UNCHANGED <<conn, op, lost, saved, again>>
    BY <1>2 DEF Connect, TypeOK
  <2>2. /\ \A d \in Conns : RowCarries(d) => conn[d].grant \in Grants \ {g}
        /\ \A u \in Tabs : OpCarries(u) => op[u].grant \in Grants \ {g}
    BY <1>2, NewGrant DEF Connect, TypeOK, Placed, RowCarries, OpCarries
  <2>3. g \notin again
    BY <2>1 DEF TypeOK, Begun, TokenInv, StoredTokenIsValid
  <2>4. Issued'
    BY <2>1, <2>2 DEF TokenInv, Issued, RowCarries, OpCarries
  <2>5. OneConnPerGrant'
    BY <2>1, <2>2 DEF TokenInv, OneConnPerGrant, RowCarries, OpCarries
  <2>6. FirstSave'
    BY <2>1, <2>2 DEF TokenInv, FirstSave, First, RowCarries, OpCarries
  <2>7. HolderIsAhead'
    BY <2>1, <2>2 DEF TokenInv, HolderIsAhead, RowCarries, OpCarries, Holding
  <2>8. OneHolderPerGrant'
    BY <2>1, <2>2 DEF TokenInv, OneHolderPerGrant, OpCarries, Holding
  <2>9. StoredTokenIsValid'
    BY <2>1, <2>2, <2>3 DEF TypeOK, TokenInv, StoredTokenIsValid, RowCarries, Active,
                            OpCarries, Holding
  <2> QED  BY <2>4, <2>5, <2>6, <2>7, <2>8, <2>9 DEF TokenInv
<1>3. ASSUME NEW t \in Tabs, NEW c \in Conns, StartRefresh(t, c) PROVE TokenInv'
  <2>1. \A u \in Tabs : Fades(u)
    BY <1>3 DEF StartRefresh, TypeOK, Fades, OpCarries, Holding
  <2> QED  BY <1>3, <2>1, FlowGoesOn, FadingStep DEF StartRefresh, RowCarries, Active
<1>4. ASSUME NEW t \in Tabs, Resolve(t) PROVE TokenInv'
  <2> DEFINE c == op[t].conn
  <2>1. CASE Active(c)
    <3>1. /\ c \in Conns
          /\ RowCarries(c)
          /\ \A u \in Tabs \ {t} : op'[u] = op[u]
          /\ op'[t].pc = "exchange"
          /\ op'[t].conn = c
          /\ op'[t].grant = conn[c].grant
          /\ op'[t].num = conn[c].num
          /\ UNCHANGED <<conn, issued, flow, lost, saved, again>>
          /\ ~Holding(t)
      BY <1>4, <2>1 DEF Resolve, TypeOK, Placed, Holding, RowCarries, Active
    <3>2. Issued'
      BY <3>1 DEF TokenInv, Issued, RowCarries, OpCarries
    <3>3. OneConnPerGrant'
      BY <3>1 DEF TokenInv, OneConnPerGrant, RowCarries, OpCarries
    <3>4. HolderIsAhead'
      BY <3>1 DEF TokenInv, HolderIsAhead, RowCarries, Holding
    <3>5. OneHolderPerGrant'
      BY <3>1 DEF TokenInv, OneHolderPerGrant, Holding
    <3>6. StoredTokenIsValid'
      BY <3>1 DEF TokenInv, StoredTokenIsValid, Active, Holding
    <3>7. FirstSave'
      BY <3>1 DEF TokenInv, FirstSave, First, RowCarries, OpCarries
    <3> QED  BY <3>2, <3>3, <3>4, <3>5, <3>6, <3>7 DEF TokenInv
  <2>2. CASE ~Active(c)
    <3>1. \A u \in Tabs : Fades(u)
      BY <1>4, <2>2 DEF Resolve, TypeOK, Fades, OpCarries, Holding, NoOp
    <3> QED  BY <1>4, <3>1, FlowGoesOn, FadingStep DEF Resolve, RowCarries, Active
  <2> QED  BY <2>1, <2>2
<1>5. ASSUME NEW t \in Tabs, Exchange(t) PROVE TokenInv'
  <2> DEFINE g == op[t].grant
             n == op[t].num
  <2>1. CASE op' = [op EXCEPT ![t] = NoOp] /\ UNCHANGED issued
    <3>1. \A u \in Tabs : Fades(u)
      BY <1>5, <2>1 DEF Exchange, TypeOK, Fades, OpCarries, Holding, NoOp
    <3> QED  BY <1>5, <2>1, <3>1, FlowGoesOn, FadingStep DEF Exchange, RowCarries, Active
  <2>2. CASE /\ issued[g] = n
             /\ issued' = [issued EXCEPT ![g] = n + 1]
             /\ op' = [op EXCEPT ![t] =
                          [pc |-> "check", conn |-> op[t].conn,
                           name |-> op[t].name, grant |-> g, num |-> n + 1]]
    <3>1. /\ g \in Grants
          /\ n \in Nat /\ issued[g] = n
          /\ OpCarries(t)
          /\ ~Holding(t)
          /\ op[t].pc = "exchange"
          /\ UNCHANGED <<conn, flow, lost, saved, again>>
      BY <1>5, <2>2 DEF Exchange, TypeOK, Placed, OpCarries, Holding, Operation
    <3>2. /\ \A u \in Tabs \ {t} : op'[u] = op[u]
          /\ op'[t].pc = "check" /\ op'[t].conn = op[t].conn
          /\ op'[t].grant = g /\ op'[t].num = n + 1
          /\ issued'[g] = n + 1
          /\ \A f \in Grants \ {g} : issued'[f] = issued[f]
      BY <2>2, <3>1 DEF TypeOK
    <3>3. /\ \A c \in Conns : RowCarries(c) =>
               conn[c].grant \in Grants /\ conn[c].num \in Nat
          /\ \A u \in Tabs : OpCarries(u) =>
               op[u].grant \in Grants /\ op[u].num \in Nat
      BY DEF TypeOK, ConnRow, Operation, Placed, RowCarries, OpCarries
    <3>4. \A u \in Tabs : Holding(u) => op[u].grant # g
      BY <3>1 DEF TokenInv, HolderIsAhead
    <3>5. Issued'
      BY <3>1, <3>2, <3>3 DEF TokenInv, Issued, RowCarries, OpCarries
    <3>6. OneConnPerGrant'
      BY <3>1, <3>2 DEF TokenInv, OneConnPerGrant, RowCarries, OpCarries
    <3>7. HolderIsAhead'
      BY <3>1, <3>2, <3>3, <3>4
         DEF TokenInv, Issued, HolderIsAhead, RowCarries, OpCarries, Holding
    <3>8. OneHolderPerGrant'
      BY <3>1, <3>2, <3>3, <3>4 DEF TokenInv, OneHolderPerGrant, OpCarries, Holding
    <3>9. StoredTokenIsValid'
      BY <3>1, <3>2, <3>3 DEF TokenInv, StoredTokenIsValid, RowCarries, Active, Holding
    <3>10. FirstSave'
      BY <3>1, <3>2 DEF TokenInv, FirstSave, First, RowCarries, OpCarries
    <3> QED  BY <3>5, <3>6, <3>7, <3>8, <3>9, <3>10 DEF TokenInv
  <2> QED  BY <1>5, <2>1, <2>2 DEF Exchange, TokenReturned
<1>6. ASSUME NEW t \in Tabs, GiveUp(t) PROVE TokenInv'
  BY <1>6, AbandonFades, FlowGoesOn, FadingStep DEF GiveUp, RowCarries, Active
<1>7. ASSUME NEW t \in Tabs, Check(t) PROVE TokenInv'
  <2>1. CASE Abandon(t)
    BY <1>7, <2>1, AbandonFades, FlowGoesOn, FadingStep DEF Check, RowCarries, Active
  <2>2. CASE Goto(t, "write") /\ UNCHANGED lost
    <3>1. \A u \in Tabs : Fades(u)
      BY <1>7, <2>2 DEF Check, Goto, TypeOK, Operation, Fades, OpCarries, Holding
    <3> QED  BY <1>7, <2>2, <3>1, FlowGoesOn, FadingStep DEF Check, RowCarries, Active
  <2> QED  BY <1>7, <2>1, <2>2 DEF Check
<1>8. ASSUME NEW t \in Tabs, Write(t) PROVE TokenInv'
  <2> DEFINE c == op[t].conn
             g == op[t].grant
             n == op[t].num
  <2>1. CASE /\ conn' = [conn EXCEPT ![c] = [state |-> "active",
                                             name |-> op[t].name,
                                             grant |-> g, num |-> n]]
             /\ op' = [op EXCEPT ![t] = NoOp]
             /\ UNCHANGED <<issued, flow, lost, saved, again>>
    <3>1. /\ c \in Conns /\ g \in Grants
          /\ Holding(t) /\ OpCarries(t)
          /\ issued[g] = n
          /\ issued[g] # None
      BY <1>8 DEF Write, TypeOK, Placed, Holding, OpCarries, TokenInv,
                  OneHolderPerGrant, Issued
    <3>2. /\ \A d \in Conns \ {c} : conn'[d] = conn[d]
          /\ conn'[c].state = "active"
          /\ conn'[c].grant = g /\ conn'[c].num = n
          /\ \A u \in Tabs \ {t} : op'[u] = op[u]
          /\ op'[t].pc = "idle"
      BY <2>1, <3>1 DEF TypeOK, NoOp
    <3>3. n \in Nat
      BY DEF TypeOK, Operation
    <3>4. \A u \in Tabs \ {t} : Holding(u) => op[u].grant # g
      BY <3>1 DEF TokenInv, OneHolderPerGrant
    <3>5. g \notin again =>
            \A d \in Conns \ {c} : RowCarries(d) => conn[d].grant # g
      BY <3>1 DEF TokenInv, OneConnPerGrant
    <3>6. Issued'
      BY <2>1, <3>1, <3>2, <3>3 DEF TokenInv, Issued, RowCarries, OpCarries
    <3>7. OneConnPerGrant'
      BY <2>1, <3>1, <3>2, <3>5 DEF TokenInv, OneConnPerGrant, RowCarries, OpCarries
    <3>8. HolderIsAhead'
      BY <2>1, <3>1, <3>2, <3>4 DEF TokenInv, HolderIsAhead, RowCarries, Holding
    <3>9. OneHolderPerGrant'
      BY <2>1, <3>2 DEF TokenInv, OneHolderPerGrant, Holding
    <3>10. StoredTokenIsValid'
      BY <2>1, <3>1, <3>2, <3>5
         DEF TokenInv, StoredTokenIsValid, RowCarries, Active, Holding
    <3>11. FirstSave'
      BY <2>1, <3>1, <3>2 DEF TokenInv, FirstSave, First, RowCarries, OpCarries
    <3> QED  BY <3>6, <3>7, <3>8, <3>9, <3>10, <3>11 DEF TokenInv
  <2>2. CASE Abandon(t) /\ UNCHANGED conn
    BY <1>8, <2>2, AbandonFades, FlowGoesOn, FadingStep DEF Write, RowCarries, Active
  <2> QED  BY <1>8, <2>1, <2>2 DEF Write, Upsert
<1>9. ASSUME NEW t \in Tabs, NEW c \in Conns, NEW n \in Names,
             StartRename(t, c, n)
      PROVE  TokenInv'
  <2>1. \A u \in Tabs : Fades(u)
    BY <1>9 DEF StartRename, TypeOK, Fades, OpCarries, Holding
  <2> QED  BY <1>9, <2>1, FlowGoesOn, FadingStep DEF StartRename, RowCarries, Active
<1>10. ASSUME NEW t \in Tabs, NameCheck(t) PROVE TokenInv'
  <2>1. op[t].pc = "nameCheck" /\ op'[t].pc \in {"nameWrite", "idle"}
        /\ \A u \in Tabs \ {t} : op'[u] = op[u]
    BY <1>10 DEF NameCheck, TypeOK, Operation, NoOp
  <2>2. \A u \in Tabs : Fades(u)
    BY <2>1 DEF Fades, OpCarries, Holding
  <2> QED  BY <1>10, <2>2, FlowGoesOn, FadingStep DEF NameCheck, RowCarries, Active
<1>11. ASSUME NEW t \in Tabs, NameWrite(t) PROVE TokenInv'
  <2> DEFINE c == op[t].conn
             r == [conn[c] EXCEPT !.name = op[t].name]
  <2>1. \A u \in Tabs : Fades(u)
    BY <1>11 DEF NameWrite, TypeOK, Fades, OpCarries, Holding, NoOp
  <2>2. CASE conn' = [conn EXCEPT ![c] = r]
    <3>1. /\ r.state = conn[c].state
          /\ r.grant = conn[c].grant
          /\ r.num = conn[c].num
      BY <1>11 DEF NameWrite, TypeOK, Placed, ConnRow
    <3> HIDE DEF r
    <3>2. \A d \in Conns : /\ conn'[d].state = conn[d].state
                           /\ conn'[d].grant = conn[d].grant
                           /\ conn'[d].num = conn[d].num
      BY <2>2, <3>1 DEF TypeOK
    <3> QED  BY <1>11, <2>1, <3>2, FlowGoesOn, FadingStep DEF NameWrite, RowCarries, Active
  <2>3. CASE UNCHANGED conn
    BY <1>11, <2>1, <2>3, FlowGoesOn, FadingStep DEF NameWrite, RowCarries, Active
  <2> QED  BY <1>11, <2>2, <2>3 DEF NameWrite
<1>12. ASSUME NEW t \in Tabs, NEW c \in Conns, Revoke(t, c) PROVE TokenInv'
  <2> DEFINE r == [conn[c] EXCEPT !.state = IF Active(c) THEN "revoked"
                                            ELSE conn[c].state]
  <2>1. /\ r.state # "absent" => RowCarries(c)
        /\ r.state # "active"
        /\ r.grant = conn[c].grant
        /\ r.num = conn[c].num
    BY DEF TypeOK, ConnRow, RowCarries, Active
  <2>2. conn' = [conn EXCEPT ![c] = r]
    BY <1>12 DEF Revoke
  <2> HIDE DEF r
  <2>3. \A d \in Conns : /\ conn'[d].grant = conn[d].grant
                         /\ conn'[d].num = conn[d].num
                         /\ conn'[d].state # "absent" => RowCarries(d)
                         /\ conn'[d].state = "active" => Active(d)
    BY <2>1, <2>2 DEF TypeOK, RowCarries, Active
  <2>4. \A u \in Tabs : Fades(u)
    BY <1>12 DEF Revoke, Fades, OpCarries, Holding
  <2> QED  BY <1>12, <2>3, <2>4, FlowGoesOn, FadingStep DEF Revoke
<1>13. ASSUME NEW g \in Grants, SaveAgain(g) \/ StopFlow(g) PROVE TokenInv'
  <2>1. UNCHANGED <<conn, issued, op, lost, saved, again>>
    BY <1>13 DEF SaveAgain, StopFlow
  <2>2. flow[g] \in Completion /\ flow[g].tries # 0
    BY <1>13 DEF SaveAgain, StopFlow, TypeOK, Begun
  <2>3. GoesOn(g)
    <3>1. CASE SaveAgain(g)
      <4>1. flow'[g] = Posted(flow[g])
        BY <3>1 DEF SaveAgain, TypeOK
      <4>2. flow'[g].tries = flow[g].tries + 1
        BY <2>2, <4>1 DEF Posted, Completion
      <4> QED  BY <2>2, <4>2 DEF GoesOn, First, Completion
    <3>2. CASE StopFlow(g)
      <4>1. flow'[g] = [flow[g] EXCEPT !.pc = "ended"]
        BY <3>2 DEF StopFlow, TypeOK
      <4> QED  BY <2>2, <4>1 DEF GoesOn, First, Completion
    <3> QED  BY <1>13, <3>1, <3>2
  <2>4. \A f \in Grants \ {g} : flow'[f] = flow[f]
    BY <1>13 DEF SaveAgain, StopFlow, TypeOK
  <2>5. \A f \in Grants : GoesOn(f)
    BY <2>3, <2>4 DEF GoesOn, First
  <2>6. \A t \in Tabs : Fades(t)
    BY <2>1 DEF Fades, OpCarries, Holding
  <2> QED  BY <2>1, <2>5, <2>6, FadingStep DEF RowCarries, Active
<1>14. ASSUME NEW g \in Grants, NEW i \in Saves, CheckSave(g, i) \/ LoseSave(g, i)
       PROVE  TokenInv'
  <2>1. UNCHANGED <<conn, issued, op, lost, saved, again>> /\ flow[g].posts[i] # "none"
    BY <1>14 DEF CheckSave, LoseSave
  <2>2. PICK v \in {"none", "write"} : flow'[g].posts = [flow[g].posts EXCEPT ![i] = v]
    BY <1>14, SaveMoves, TypeParts
  <2>3. /\ flow'[g].tries = flow[g].tries
        /\ \A f \in Grants \ {g} : flow'[f] = flow[f]
    BY <1>14, SaveMoves, TypeParts
  <2>4. \A f \in Grants : GoesOn(f)
    BY <2>1, <2>3 DEF GoesOn, First
  <2>5. \A t \in Tabs : Fades(t)
    BY <2>1 DEF Fades, OpCarries, Holding
  <2> QED  BY <2>1, <2>4, <2>5, FadingStep DEF RowCarries, Active
<1>15. ASSUME NEW g \in Grants, NEW i \in Saves, WriteSave(g, i) PROVE TokenInv'
  <2>1. /\ i \in Nat /\ i > 0 /\ flow[g].tries \in Nat
        /\ flow[g].posts[i] = "write"
        /\ \A j \in Saves : flow[g].posts[j] # "none" => j <= flow[g].tries
        /\ flow[g].posts \in [Saves -> {"none", "check", "write"}]
        /\ Begun(g)
    BY <1>15 DEF WriteSave, TypeOK, Begun, Completion, Saves
  <2>2. flow[g].tries # 0
    BY <2>1
  <2>3. /\ issued[g] \in Nat
        /\ UNCHANGED <<issued, op, lost>>
        /\ saved' = saved \union {g}
        /\ again' = IF g \in saved THEN again \union {g} ELSE again
    BY <1>15, <2>1, <2>2 DEF WriteSave, TypeOK, Begun
  <2>4. PICK c \in Conns : /\ \A d \in Conns \ {c} : conn'[d] = conn[d]
                           /\ conn'[c].state = "active"
                           /\ conn'[c].grant = g /\ conn'[c].num = 0
    <3>1. Rows(flow[g].conn) \subseteq Conns
      BY DEF Rows, TypeOK, Completion
    <3> QED  BY <1>15, <3>1 DEF WriteSave, Upsert, TypeOK
  <2>5. /\ flow'[g].posts = [flow[g].posts EXCEPT ![i] = "none"]
        /\ flow'[g].tries = flow[g].tries
        /\ \A f \in Grants \ {g} : flow'[f] = flow[f]
    BY <1>15, SaveMoves, TypeParts
  <2>6. ~First(g)'
    <3>1. flow[g].tries < 2 => \A j \in Saves : flow[g].posts[j] # "none" => j = i
      BY <2>1 DEF Saves
    <3> QED  BY <2>1, <2>5, <3>1 DEF First
  <2>7. g \in saved => flow[g].tries > 1
    BY <2>1 DEF First, TokenInv, FirstSave
  <2>8. g \notin saved =>
          /\ issued[g] = 0
          /\ \A d \in Conns : RowCarries(d) => conn[d].grant # g
          /\ \A t \in Tabs : OpCarries(t) => op[t].grant # g
    BY <2>3 DEF TokenInv, FirstSave
  <2>9. Issued'
    BY <2>3, <2>4 DEF TokenInv, Issued, RowCarries, OpCarries
  <2>10. OneConnPerGrant'
    BY <2>3, <2>4, <2>8 DEF TokenInv, OneConnPerGrant, RowCarries, OpCarries
  <2>11. FirstSave'
    <3>1. \A f \in Grants \ {g} : First(f)' <=> First(f)
      BY <2>5 DEF First
    <3> QED  BY <2>3, <2>4, <2>6, <3>1 DEF TokenInv, FirstSave, RowCarries, OpCarries
  <2>12. HolderIsAhead'
    BY <2>3, <2>4 DEF TokenInv, HolderIsAhead, OneHolderPerGrant, RowCarries, Holding
  <2>13. OneHolderPerGrant'
    BY <2>3 DEF TokenInv, OneHolderPerGrant, Holding
  <2>14. StoredTokenIsValid'
    <3>1. \A f \in again' : flow'[f].tries > 1
      BY <2>3, <2>5, <2>7 DEF TypeOK, TokenInv, StoredTokenIsValid
    <3> QED  BY <2>3, <2>4, <2>8, <3>1 DEF TokenInv, StoredTokenIsValid, Active, Holding
  <2> QED  BY <2>9, <2>10, <2>11, <2>12, <2>13, <2>14 DEF TokenInv
<1>16. CASE UNCHANGED vars
  <2>1. \A u \in Tabs : Fades(u)
    BY <1>16 DEF vars, Fades, OpCarries, Holding
  <2> QED  BY <1>16, <2>1, FlowGoesOn, FadingStep DEF vars, RowCarries, Active
<1> QED
  BY <1>1, <1>2, <1>3, <1>4, <1>5, <1>6, <1>7, <1>8, <1>9, <1>10, <1>11, <1>12,
     <1>13, <1>14, <1>15, <1>16 DEF Next, Complete, Operate

LEMMA TokenInvariant == Spec => []TokenInv
<1>1. Init => TokenInv
  BY DEF Init, TokenInv, Issued, OneConnPerGrant, FirstSave, First, HolderIsAhead,
         OneHolderPerGrant, StoredTokenIsValid, RowCarries, OpCarries, Holding,
         Active, NoConn, NoOp, NoFlow
<1> QED  BY <1>1, TokenStep, OAuthTypeCorrect, PTL DEF Spec

\* A connection stores the provider's valid token, unless a refresh holds a newer
\* one, a refresh that failed has thrown it away, or a completion that saved more
\* than once has stored the first token again.
THEOREM OAuthStoredTokenIsValid == Spec => []StoredTokenIsValid
<1>1. TokenInv => StoredTokenIsValid
  BY DEF TokenInv
<1> QED  BY <1>1, TokenInvariant, PTL
=============================================================================
