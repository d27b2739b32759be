------------------------------ MODULE JsonFile ------------------------------
(***************************************************************************)
(* A JSON file of the CLI, ~/.sickrat/config.json or grant-cache.json, as  *)
(* its processes see it.  readFile and JSON.parse either give the value    *)
(* that one writeFile stored or fail, and every reader takes a failure for *)
(* an empty file.  writeFile truncates the file first and writes the text  *)
(* after that; no process locks anything.                                  *)
(***************************************************************************)
EXTENDS Naturals, Sequences

\* The text is the value that can be parsed from it, or nothing.
Unreadable    == <<>>
Files(values) == [text : {t \in Seq(values) : Len(t) <= 1}, fresh : BOOLEAN]

\* "fresh" is TRUE from a truncation to the next write of a text.
Stored(value) == [text |-> <<value>>, fresh |-> FALSE]

\* What a reader makes of the file, if "empty" is its default.
Read(file, empty) == IF file.text = Unreadable THEN empty ELSE file.text[1]

Truncated == [text |-> Unreadable, fresh |-> TRUE]
Torn      == [text |-> Unreadable, fresh |-> FALSE]

\* The text is written from the start.  If another process has written one
\* since the truncation, and a longer one, its tail is left behind.
Filled(file, value) == {Stored(value)} \union (IF file.fresh THEN {} ELSE {Torn})
=============================================================================
