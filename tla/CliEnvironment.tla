--------------------------- MODULE CliEnvironment ---------------------------
(***************************************************************************)
(* What "sickrat run" puts into the environment of its child, and what it  *)
(* asks the phone for, from the assignments in --env-file files and --env  *)
(* options (runWithSecrets and resource-requests.ts of the CLI).  An       *)
(* assignment has a key and what parseSickratUri makes of its value: a     *)
(* secret, an OAuth token or, if the value is no sickrat:// URI, text.     *)
(* Malformed ones stop the command before it asks for anything.            *)
(***************************************************************************)
EXTENDS Sequences, SequencesExt

CONSTANTS Keys,   \* environment variables
          Names,  \* of secrets and connections, and texts
          Unset

ASSUME UnsetAssumption == Unset \notin Names

VARIABLE assigned  \* in env files, and in options after them

Assignments == [key : Keys, kind : {"secret", "oauth", "text"}, name : Names]

Nothing == [k \in Keys |-> Unset]
Nowhere == [ref |-> Nothing, oauth |-> Nothing, plain |-> Nothing]

\* A line of an env file: one of refByKey, oauthByKey and env takes the key.
\* The env map may keep an earlier text, which is overwritten at the end.
FromFile(m, a) ==
    [ref   |-> [m.ref EXCEPT ![a.key] = IF a.kind = "secret" THEN a.name ELSE Unset],
     oauth |-> [m.oauth EXCEPT ![a.key] = IF a.kind = "oauth" THEN a.name ELSE Unset],
     plain |-> [m.plain EXCEPT ![a.key] = IF a.kind = "text" THEN a.name ELSE @]]

\* Mutant: the key stays in oauthByKey.
FromOptionBoth(m, a) ==
    [m EXCEPT !.ref[a.key] = IF a.kind = "oauth" THEN Unset ELSE a.name,
              !.oauth[a.key] = IF a.kind = "oauth" THEN a.name ELSE @]

\* An --env option: a text is the name of a secret.
FromOption(m, a) ==
    [m EXCEPT !.ref[a.key] = IF a.kind = "oauth" THEN Unset ELSE a.name,
              !.oauth[a.key] = IF a.kind = "oauth" THEN a.name ELSE Unset]

Bindings(files, options) ==
    FoldLeft(FromOption, FoldLeft(FromFile, Nowhere, files), options)

\* The loops over refByKey and then oauthByKey, after the grant.
Injected(m) ==
    [k \in Keys |-> CASE m.oauth[k] # Unset                     -> <<"token", m.oauth[k]>>
                      [] m.oauth[k] = Unset /\ m.ref[k] # Unset -> <<"secret", m.ref[k]>>
                      [] OTHER                                  -> <<"text", m.plain[k]>>]

\* uniqueRefs and the resource requests.
AskedRefs(m)  == {m.ref[k] : k \in Keys} \ {Unset}
AskedOAuth(m) == {[env |-> k, name |-> m.oauth[k]] : k \in {j \in Keys : m.oauth[j] # Unset}}

\* What "sickrat run" and "sickrat reveal" ask for (CliGrants).
RunAsk(m, provider, scopes) ==
    [cached |-> TRUE, refs |-> AskedRefs(m),
     oauth  |-> {[env |-> q.env, provider |-> provider, name |-> q.name, scopes |-> scopes] :
                    q \in AskedOAuth(m)}]
RevealAsk(ref) == [cached |-> FALSE, refs |-> {ref}, oauth |-> {}]

\* The assignments of one command line do not change.
EnvInit == assigned \in [files : Seq(Assignments), options : Seq(Assignments)]
EnvSpec == EnvInit /\ [][UNCHANGED assigned]_assigned

-----------------------------------------------------------------------------
(***************************************************************************)
(* The reference: the last assignment to a key decides, and options come   *)
(* after files.                                                            *)
(***************************************************************************)
LastOf(s, k) == SelectLastInSeq(s, LAMBDA a : a.key = k)

Meant(files, options, k) ==
    LET o == LastOf(options, k)
        f == LastOf(files, k)
    IN  CASE o # 0 -> IF options[o].kind = "oauth" THEN <<"token", options[o].name>>
                                                  ELSE <<"secret", options[o].name>>
          [] o = 0 /\ f # 0 -> IF files[f].kind = "oauth" THEN <<"token", files[f].name>>
                               ELSE <<files[f].kind, files[f].name>>
          [] OTHER -> <<"text", Unset>>

\* Every variable is given what its last assignment says, and the phone is
\* asked for exactly the secrets and tokens that are given to the child: none
\* that an assignment further down has replaced.
EnvIsAsAssigned ==
    LET m == Bindings(assigned.files, assigned.options)
    IN  /\ \A k \in Keys : Injected(m)[k] = Meant(assigned.files, assigned.options, k)
        /\ AskedRefs(m) = {n \in Names : \E k \in Keys : Injected(m)[k] = <<"secret", n>>}
        /\ AskedOAuth(m) = {[env |-> k, name |-> Injected(m)[k][2]] :
                               k \in {j \in Keys : Injected(m)[j][1] = "token"}}
=============================================================================
