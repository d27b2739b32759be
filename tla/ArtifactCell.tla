---------------------------- MODULE ArtifactCell ----------------------------
(***************************************************************************)
(* What the browser-session vault promises about one artifact per session, *)
(* with no database, clock or handler in sight: a cell that is written     *)
(* only by someone who held the exclusive right to write it, who gave that *)
(* right up for this one write, and who was issued the right against the   *)
(* version that the write replaces.                                        *)
(***************************************************************************)
CONSTANTS Requests, SessionIds, None

VARIABLES
    cell,    \* the stored version of each session, None if there is none
    writer,  \* who may claim the right to write it, None if nobody
    claims,  \* writes under way: pairs of a request and a session
    basis    \* the version against which each request was issued its right

cellVars == <<cell, writer, claims, basis>>

\* Versions may have been stored before.
Init ==
    /\ cell \in [SessionIds -> Requests \union {None}]
    /\ writer = [s \in SessionIds |-> None]
    /\ claims = {}
    /\ basis = [r \in Requests |-> None]

\* r is issued a capability for s, against version v, with or without the
\* exclusive right; it is never re-issued against another version.
Issue(r, s, v) ==
    /\ basis[r] \in {None, v}
    /\ basis' = [basis EXCEPT ![r] = v]
    /\ \/ UNCHANGED writer
       \/ writer[s] = None /\ writer' = [writer EXCEPT ![s] = r]
    /\ UNCHANGED <<cell, claims>>

\* The right lapses, is given back or is taken away.
Release(S) ==
    /\ writer' = [s \in SessionIds |-> IF s \in S THEN None ELSE writer[s]]
    /\ UNCHANGED <<cell, claims, basis>>

Claim(r, s) ==
    /\ writer[s] = r
    /\ writer' = [writer EXCEPT ![s] = None]
    /\ claims' = claims \union {<<r, s>>}
    /\ UNCHANGED <<cell, basis>>

Store(r, s) ==
    /\ <<r, s>> \in claims
    /\ cell[s] = basis[r]
    /\ cell' = [cell EXCEPT ![s] = r]
    /\ claims' = claims \ {<<r, s>>}
    /\ UNCHANGED <<writer, basis>>

Abandon(r, s) ==
    /\ claims' = claims \ {<<r, s>>}
    /\ UNCHANGED <<cell, writer, basis>>

Erase(s) ==
    /\ cell' = [cell EXCEPT ![s] = None]
    /\ UNCHANGED <<writer, claims, basis>>

Next ==
    \/ \E r \in Requests, s \in SessionIds :
          \/ \E v \in Requests \union {None} : Issue(r, s, v)
          \/ Claim(r, s)
          \/ Store(r, s)
          \/ Abandon(r, s)
    \/ \E S \in SUBSET SessionIds : Release(S)
    \/ \E s \in SessionIds : Erase(s)

Spec == Init /\ [][Next]_cellVars
=============================================================================
