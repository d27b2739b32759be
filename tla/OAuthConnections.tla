-------------------------- MODULE OAuthConnections --------------------------
(***************************************************************************)
(* The OAuth connections of one provider: the table oauth_connections and  *)
(* its handlers (apps/web/src/worker/index.ts), the provider's token       *)
(* endpoint (external), and the tabs of the PWA (apps/web/src/main.tsx)    *)
(* that connect, rename, revoke and, for each approval, refresh.           *)
(*                                                                         *)
(* The provider rotates: a refresh answers with a new refresh token and    *)
(* spends the one it was given.  A token is a grant (one authorization by  *)
(* the user) with the number of rotations it has behind it.  What a tab    *)
(* shows comes from a cached list.  Beside the one operation of a tab      *)
(* (busy) there are the completions of its authorizations, which save what *)
(* they were given again when the network fails.  Two operations at a time *)
(* (a completion that polls resets busy) are those of two tabs here.       *)
(***************************************************************************)
EXTENDS Naturals

CONSTANTS
    Conns,         \* connection ids (crypto.randomUUID in the Worker)
    Names,         \* connection names
    Grants,        \* authorizations the user may give
    Tabs,
    MaxRotations,  \* bound on the refreshes of a grant, for TLC only
    MaxSaves,      \* how often a completion saves (4)
    None           \* null

ASSUME NoneAssumption == None \notin Conns \union Names \union Grants \union Nat
ASSUME BoundAssumption == MaxRotations \in Nat /\ MaxSaves \in Nat \ {0}

VARIABLES
    conn,    \* oauth_connections, by id
    issued,  \* at the provider: the number of each grant's valid token, or
             \* None before the user has authorized it
    cached,  \* query data of each tab: the name of each active connection
    op,      \* the operation of each tab, with its Worker handler
    flow,    \* the completion of each authorization, with the handlers of
             \* its saves
    lost,    \* history: grants whose valid token was thrown away
    saved,   \* history: grants that their completion has stored
    again    \* history: grants that it has stored more than once

vars == <<conn, issued, cached, op, flow, lost, saved, again>>

ConnRow == [state : {"absent", "active", "revoked"},
            name  : Names \union {None},
            grant : Grants \union {None},
            num   : 0..MaxRotations]

\* grant and num: the refresh token the operation holds.
Operation == [pc    : {"idle", "resolve", "exchange", "check", "write",
                       "nameCheck", "nameWrite"},
              conn  : Conns \union {None},
              name  : Names \union {None},
              grant : Grants \union {None},
              num   : 0..MaxRotations]

Saves == 1..MaxSaves

\* progress is kept across the saves; conn is None for an id that it has made up.
\* A handler may outlive the call that its tab has given up.
Completion == [pc    : {"none", "save", "ended"},
               tab   : Tabs \union {None},
               conn  : Conns \union {None},
               name  : Names \union {None},
               tries : 0..MaxSaves,
               posts : [Saves -> {"none", "check", "write"}]]

NoConn == [state |-> "absent", name |-> None, grant |-> None, num |-> 0]
NoOp   == [pc |-> "idle", conn |-> None, name |-> None, grant |-> None,
           num |-> 0]
NoFlow == [pc |-> "none", tab |-> None, conn |-> None, name |-> None,
           tries |-> 0, posts |-> [i \in Saves |-> "none"]]

\* An operation knows its connection, and the grant of the token it holds.
Placed(l) ==
    /\ l.pc # "idle" => l.conn \in Conns /\ l.name \in Names
    /\ l.pc \in {"exchange", "check", "write"} => l.grant \in Grants

\* A completion has a tab, a name and a token.
Begun(g) ==
    /\ flow[g].pc # "none" =>
          flow[g].tab \in Tabs /\ flow[g].name \in Names
    /\ flow[g].pc = "none" <=> issued[g] = None
    /\ flow[g].pc = "none" <=> flow[g].tries = 0
    /\ \A i \in Saves : flow[g].posts[i] # "none" => i <= flow[g].tries

TypeOK ==
    /\ conn \in [Conns -> ConnRow]
    /\ issued \in [Grants -> 0..MaxRotations \union {None}]
    /\ cached \in [Tabs -> [Conns -> Names \union {None}]]
    /\ op \in [Tabs -> Operation]
    /\ \A c \in Conns : conn[c].state # "absent" => conn[c].grant \in Grants
    /\ \A t \in Tabs : Placed(op[t])
    /\ flow \in [Grants -> Completion]
    /\ \A g \in Grants : Begun(g)
    /\ lost \subseteq Grants /\ saved \subseteq Grants /\ again \subseteq Grants

Init ==
    /\ conn = [c \in Conns |-> NoConn]
    /\ issued = [g \in Grants |-> None]
    /\ cached = [t \in Tabs |-> [c \in Conns |-> None]]
    /\ op = [t \in Tabs |-> NoOp]
    /\ flow = [g \in Grants |-> NoFlow]
    /\ lost = {} /\ saved = {} /\ again = {}

-----------------------------------------------------------------------------
Active(c)   == conn[c].state = "active"
Goto(t, pc) == op' = [op EXCEPT ![t].pc = pc]

\* GET /api/oauth/connections.
ActiveNames == [c \in Conns |-> IF Active(c) THEN conn[c].name ELSE None]

Reload(t) ==
    /\ cached' = [cached EXCEPT ![t] = ActiveNames]
    /\ UNCHANGED <<conn, issued, op, flow, lost, saved, again>>

\* An operation ends; the token it holds is thrown away unless it was saved.
\* Only the grant's valid token is worth anything.
Abandon(t) ==
    /\ op' = [op EXCEPT ![t] = NoOp]
    /\ lost' = IF op[t].pc \in {"check", "write"} /\ issued[op[t].grant] = op[t].num
               THEN lost \union {op[t].grant} ELSE lost

-----------------------------------------------------------------------------
(***************************************************************************)
(* Connecting: the user has authorized, and the effect that polled the     *)
(* handoff (OAuthHandoff) has exchanged the code.  It saves the token      *)
(* under the id of the connection that has the name in its list, or a new  *)
(* one, and keeps token and id for further attempts.  Its list may be      *)
(* older than its tab's, as if that had not been loaded since.             *)
(***************************************************************************)
\* The next POST of the token.
Posted(l) == [l EXCEPT !.pc = "save", !.tries = @ + 1,
                       !.posts = [@ EXCEPT ![l.tries + 1] = "check"]]

Saving(t) == \E g \in Grants : flow[g].tab = t /\ flow[g].pc = "save"

\* The connection of the list that has the name, if any.
Listed(t, n) == LET named == {c \in Conns : cached[t][c] = n}
                IN  IF named = {} THEN {None} ELSE named

Connect(t, g, n) ==
    /\ issued[g] = None /\ ~Saving(t)
    /\ issued' = [issued EXCEPT ![g] = 0]
    /\ \E c \in Listed(t, n) :
          flow' = [flow EXCEPT ![g] =
                     Posted([NoFlow EXCEPT !.tab = t, !.conn = c, !.name = n])]
    /\ UNCHANGED <<conn, cached, op, lost, saved, again>>

\* The call of a save fails as the network does, before or after its handler
\* did anything, and some seconds later it is made again.
SaveAgain(g) ==
    /\ flow[g].pc = "save" /\ flow[g].tries < MaxSaves
    /\ flow' = [flow EXCEPT ![g] = Posted(@)]
    /\ UNCHANGED <<conn, issued, cached, op, lost, saved, again>>

\* It fails for good, or the effect is stopped, or the tab is closed.
StopFlow(g) ==
    /\ flow[g].pc = "save"
    /\ flow' = [flow EXCEPT ![g].pc = "ended"]
    /\ UNCHANGED <<conn, issued, cached, op, lost, saved, again>>

(***************************************************************************)
(* An approval that asks for an access token: resolve the connection, have *)
(* the provider exchange the refresh token, save the new one.              *)
(***************************************************************************)
StartRefresh(t, c) ==
    /\ op[t].pc = "idle"
    /\ cached[t][c] # None
    /\ op' = [op EXCEPT ![t] = [pc |-> "resolve", conn |-> c, name |-> cached[t][c],
                                grant |-> None, num |-> 0]]
    /\ UNCHANGED <<conn, issued, cached, flow, lost, saved, again>>

\* GET /api/oauth/connections/:id/resolve.
Resolve(t) ==
    LET c == op[t].conn
    IN  /\ op[t].pc = "resolve"
        /\ op' = [op EXCEPT ![t] =
                    IF Active(c)
                    THEN [pc |-> "exchange", conn |-> c, name |-> op[t].name,
                          grant |-> conn[c].grant, num |-> conn[c].num]
                    ELSE NoOp]
        /\ UNCHANGED <<conn, issued, cached, flow, lost, saved, again>>

\* Mutant: the refresh token that was sent, not the one that came back.
TokenSent(t) == op[t].num

\* token.refreshToken, of the provider's answer.
TokenReturned(t) == op[t].num + 1

\* POST /api/oauth/token, action refresh_token.
Exchange(t) ==
    LET g == op[t].grant
    IN  /\ op[t].pc = "exchange"
        /\ IF issued[g] # op[t].num
           THEN op' = [op EXCEPT ![t] = NoOp] /\ UNCHANGED issued
           ELSE /\ op[t].num < MaxRotations
                /\ issued' = [issued EXCEPT ![g] = op[t].num + 1]
                /\ op' = [op EXCEPT ![t] =
                            [pc |-> "check", conn |-> op[t].conn, name |-> op[t].name,
                             grant |-> g, num |-> TokenReturned(t)]]
        /\ UNCHANGED <<conn, cached, flow, lost, saved, again>>

\* The tab is closed, a call of a refresh or a renaming fails, or the answer has
\* fewer scopes than were granted, which throws before the token is saved.
GiveUp(t) ==
    /\ op[t].pc # "idle"
    /\ Abandon(t)
    /\ UNCHANGED <<conn, issued, cached, flow, saved, again>>

-----------------------------------------------------------------------------
(***************************************************************************)
(* POST /api/oauth/connections: conflicting name, then the upsert.         *)
(***************************************************************************)
\* The SELECT of the handlers for a conflicting name.
NameTaken(c, n) == \E d \in Conns \ {c} : Active(d) /\ conn[d].name = n

NameFreeNoIndex(c, n) == n \in Names \* mutant: the UNIQUE index is missing

\* What the UNIQUE index on active names lets the statement do.
NameFree(c, n) == ~NameTaken(c, n)

Check(t) ==
    /\ op[t].pc = "check"
    /\ IF NameTaken(op[t].conn, op[t].name)
       THEN Abandon(t)
       ELSE Goto(t, "write") /\ UNCHANGED lost
    /\ UNCHANGED <<conn, issued, cached, flow, saved, again>>

\* ON CONFLICT(id) DO UPDATE SET ..., revoked_at = NULL
Upsert(c, n, g, k) ==
    conn' = [conn EXCEPT ![c] = [state |-> "active", name |-> n, grant |-> g, num |-> k]]

\* The answer comes to the list of its tab.
Show(t, c, n) == cached' = [cached EXCEPT ![t] = [@ EXCEPT ![c] = n]]

\* The answer to a refresh may be lost; then the approval fails.
Write(t) ==
    LET c == op[t].conn
    IN  /\ op[t].pc = "write"
        /\ IF NameFree(c, op[t].name)
           THEN /\ Upsert(c, op[t].name, op[t].grant, op[t].num)
                /\ Show(t, c, op[t].name) \/ UNCHANGED cached
                /\ op' = [op EXCEPT ![t] = NoOp]
                /\ UNCHANGED lost
           ELSE Abandon(t) /\ UNCHANGED <<conn, cached>>
        /\ UNCHANGED <<issued, flow, saved, again>>

\* The same handler for the i-th save of a completion.
CheckSave(g, i) ==
    /\ flow[g].posts[i] = "check"
    /\ flow' = [flow EXCEPT ![g].posts[i] =
                  IF NameTaken(flow[g].conn, flow[g].name) THEN "none" ELSE "write"]
    /\ UNCHANGED <<conn, issued, cached, op, lost, saved, again>>

\* To an id it does not know the Worker prefers another new one.
Rows(c) == IF c = None THEN {d \in Conns : conn[d].state = "absent"} ELSE {c}

WriteSave(g, i) ==
    LET l == flow[g]
    IN  /\ l.posts[i] = "write" /\ NameFree(l.conn, l.name)
        /\ \E c \in Rows(l.conn) :
              /\ Upsert(c, l.name, g, 0)
              /\ \/ /\ i = l.tries
                    /\ flow' = [flow EXCEPT ![g].posts[i] = "none", ![g].pc = "ended"]
                    /\ Show(l.tab, c, l.name)
                 \/ flow' = [flow EXCEPT ![g].posts[i] = "none"] /\ UNCHANGED cached
        /\ saved' = saved \union {g}
        /\ again' = IF g \in saved THEN again \union {g} ELSE again
        /\ UNCHANGED <<issued, op, lost>>

\* The request never comes, its handler dies, or the index refuses the row.
LoseSave(g, i) ==
    /\ flow[g].posts[i] # "none"
    /\ flow' = [flow EXCEPT ![g].posts[i] = "none"]
    /\ UNCHANGED <<conn, issued, cached, op, lost, saved, again>>

-----------------------------------------------------------------------------
(***************************************************************************)
(* POST .../:id/name and POST .../:id/revoke.                              *)
(***************************************************************************)
StartRename(t, c, n) ==
    /\ op[t].pc = "idle"
    /\ cached[t][c] \notin {None, n}
    /\ op' = [op EXCEPT ![t] = [pc |-> "nameCheck", conn |-> c, name |-> n,
                                grant |-> None, num |-> 0]]
    /\ UNCHANGED <<conn, issued, cached, flow, lost, saved, again>>

NameCheck(t) ==
    LET c == op[t].conn
    IN  /\ op[t].pc = "nameCheck"
        /\ op' = [op EXCEPT ![t] =
                    IF Active(c) /\ ~NameTaken(c, op[t].name)
                    THEN [@ EXCEPT !.pc = "nameWrite"] ELSE NoOp]
        /\ UNCHANGED <<conn, issued, cached, flow, lost, saved, again>>

\* UPDATE ... WHERE id = ?: a connection revoked meanwhile is renamed, too.
NameWrite(t) ==
    LET c == op[t].conn
    IN  /\ op[t].pc = "nameWrite"
        /\ op' = [op EXCEPT ![t] = NoOp]
        /\ IF Active(c) => NameFree(c, op[t].name)
           THEN /\ conn' = [conn EXCEPT ![c] = [@ EXCEPT !.name = op[t].name]]
                /\ \/ Show(t, c, IF Active(c) THEN op[t].name ELSE None)
                   \/ UNCHANGED cached
           ELSE UNCHANGED <<conn, cached>>
        /\ UNCHANGED <<issued, flow, lost, saved, again>>

Revoke(t, c) ==
    /\ op[t].pc = "idle"
    /\ cached[t][c] # None
    /\ conn' = [conn EXCEPT ![c] = [@ EXCEPT
                  !.state = IF Active(c) THEN "revoked" ELSE conn[c].state]]
    /\ Show(t, c, None) \/ UNCHANGED cached
    /\ UNCHANGED <<issued, op, flow, lost, saved, again>>

Complete(g) ==
    \/ SaveAgain(g) \/ StopFlow(g)
    \/ \E i \in Saves : CheckSave(g, i) \/ WriteSave(g, i) \/ LoseSave(g, i)

Operate(t) ==
    \/ Reload(t)
    \/ \E g \in Grants, n \in Names : Connect(t, g, n)
    \/ \E c \in Conns : StartRefresh(t, c) \/ Revoke(t, c)
    \/ \E c \in Conns, n \in Names : StartRename(t, c, n)
    \/ Resolve(t) \/ Exchange(t) \/ GiveUp(t)
    \/ Check(t) \/ Write(t)
    \/ NameCheck(t) \/ NameWrite(t)

Next ==
    \/ \E g \in Grants : Complete(g)
    \/ \E t \in Tabs : Operate(t)

Spec == Init /\ [][Next]_vars

-----------------------------------------------------------------------------
(***************************************************************************)
(* Properties.                                                             *)
(***************************************************************************)
\* Two active connections never have the same name, so that a request for a
\* named connection has one answer, although every handler looks for a
\* conflicting name one statement before it writes.
ActiveNamesUnique ==
    \A c, d \in Conns :
        Active(c) /\ Active(d) /\ conn[c].name = conn[d].name => c = d

Holding(t) == op[t].pc \in {"check", "write"}

\* A connection keeps working: the token it stores is the one the provider
\* takes, unless a tab is about to save a newer one, the newer one was thrown
\* away by a refresh that failed after the exchange, or a completion stored the
\* first token more than once: after a refresh had spent it, or in a second
\* connection.  This last takes a completion that saves again.  In particular
\* two refreshes at once, or one that overtakes another, never break it, and
\* neither does a save that is made once.
StoredTokenIsValid ==
    /\ \A c \in Conns :
          Active(c) =>
              \/ issued[conn[c].grant] = conn[c].num
              \/ conn[c].grant \in lost \union again
              \/ \E t \in Tabs : Holding(t) /\ op[t].grant = conn[c].grant
    /\ \A g \in again : flow[g].tries > 1

\* A refresh does not bring back a revoked connection (docs/oauth-gateway.md:372
\* "Revoking a connection should prevent future grants ...").
RefreshRevivesNothing ==
    [][\A t \in Tabs :
         Write(t) /\ conn[op[t].conn].state = "revoked"
         => conn'[op[t].conn].state = "revoked"]_vars
=============================================================================
