------------------------- MODULE MCOAuthConnections -------------------------
(* Instances of OAuthConnections for TLC; the values of each set play the   *)
(* same part.                                                               *)
EXTENDS OAuthConnections, FiniteSets, TLC

CONSTANTS k1, k2, n1, n2, g1, g2, t1, t2

Symmetric == Permutations({k1, k2}) \union Permutations({n1, n2})
             \union Permutations({g1, g2}) \union Permutations({t1, t2})

\* A completion that is given up or has succeeded, and none of whose handlers is
\* left: of it nobody reads more than how often it has saved.
Over(g) == flow[g].pc = "ended" /\ \A i \in Saves : flow[g].posts[i] = "none"
Flows == [g \in Grants |-> IF Over(g) THEN [NoFlow EXCEPT !.pc = "ended"] ELSE flow[g]]
View  == <<conn, issued, cached, op, Flows, [g \in Grants |-> flow[g].tries],
           lost, saved, again>>

AtWork == {t \in Tabs : op[t].pc # "idle"}
          \union {g \in Grants : Flows[g].pc # "none" /\ ~Over(g)}

NamesUsed == ({conn[c].name : c \in Conns} \union {op[t].name : t \in Tabs}
              \union {Flows[g].name : g \in Grants}
              \union {cached[t][c] : t \in Tabs, c \in Conns}) \ {None}

\* Three at work under one name, completions that save again among them; or two
\* under any names, whose completions save once.
Few == \/ Cardinality(NamesUsed) < 2 /\ Cardinality(AtWork) < 4
       \/ Cardinality(AtWork) < 3 /\ \A g \in Grants : flow[g].tries < 2
=============================================================================
