---------------------------- MODULE JournalFile ----------------------------
(***************************************************************************)
(* One generation of a line journal, as the writers of the commerce data   *)
(* directory leave it: the records its readable lines spell, whether the   *)
(* last byte is a newline, the record an unterminated last line spells     *)
(* (none when the line is torn), and its length in lines.  A line that     *)
(* does not parse is nobody's record: every reader skips it.               *)
(***************************************************************************)
EXTENDS Naturals

File(Record) ==
  [lines : SUBSET Record, tail : SUBSET Record, open : BOOLEAN, size : Nat]

Blank == [lines |-> {}, tail |-> {}, open |-> FALSE, size |-> 0]

\* A line written behind an unterminated one becomes part of it: what both
\* spell together is not a record.
Extended(f, separated) ==
  IF f.open /\ ~separated THEN f.lines \ f.tail ELSE f.lines

Spelled(f, r, separated) ==
  IF f.open /\ ~separated THEN {} ELSE {r}

\* r and its newline are written at the end, behind a newline of its own when
\* the last line lacks one and the writer separates.
Appended(f, r, separated) ==
  [lines |-> Extended(f, separated) \cup Spelled(f, r, separated),
   tail |-> {}, open |-> FALSE, size |-> f.size + 1]

\* The write stops after some of the bytes of r.
Torn(f, separated) ==
  [lines |-> Extended(f, separated), tail |-> {}, open |-> TRUE, size |-> f.size + 1]

\* The write stops between the last byte of r and its newline.
Unterminated(f, r, separated) ==
  [lines |-> Extended(f, separated) \cup Spelled(f, r, separated),
   tail |-> Spelled(f, r, separated), open |-> TRUE, size |-> f.size + 1]

\* What a write of r that reports an error may have done: nothing, a part, all.
Cuts(f, r, separated) ==
  {f, Torn(f, separated), Unterminated(f, r, separated), Appended(f, r, separated)}
=============================================================================
