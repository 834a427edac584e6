------------------------------- MODULE EventLog -------------------------------
(***************************************************************************)
(* The append-only JSONL file that TargetQueue (queue.py) and Ratchet      *)
(* (ratchet.py) both keep: one JSON object per line, opened in append      *)
(* mode, written, flushed and fsynced once per event, and read back line   *)
(* by line with json.loads.                                                *)
(*                                                                         *)
(* A file is its sequence of lines and a flag that says whether the last   *)
(* line still lacks its newline.  Torn is a line json.loads refuses: an    *)
(* interrupted write, or two records run together because the first one    *)
(* never got its newline.  Whether a proper prefix of an object, or an     *)
(* object followed by anything, parses is not a matter of its contents: it *)
(* never does.                                                             *)
(***************************************************************************)
EXTENDS Naturals, Sequences

CONSTANT Torn

(* What the disk may hold when the write of one line does not return: none
   of it, some of it, all but the newline, or all of it. *)
Outcomes == {"nothing", "prefix", "unterminated", "complete"}

(* Those after which no reader finds the record. *)
Unwritten == {"nothing", "prefix"}

Files(Record) ==
  {f \in [lines : Seq(Record \cup {Torn}), open : BOOLEAN] : f.open => f.lines # <<>>}

EmptyFile == [lines |-> <<>>, open |-> FALSE]

(* _read_log calls json.loads on every line and lets its error escape, so one
   bad line anywhere makes the whole log unreadable. *)
Readable(file) == \A i \in DOMAIN file.lines : file.lines[i] # Torn

(* Text added after an unterminated line joins that line. *)
AddLine(file, line, open) ==
  [lines |-> IF file.open
               THEN [file.lines EXCEPT ![Len(file.lines)] = Torn]
               ELSE Append(file.lines, line),
   open  |-> open]

Written(file, e) == AddLine(file, e, FALSE)

Interrupted(file, e, w) ==
  CASE w = "nothing"      -> file
    [] w = "prefix"       -> AddLine(file, Torn, TRUE)
    [] w = "unterminated" -> AddLine(file, e, TRUE)
    [] w = "complete"     -> AddLine(file, e, FALSE)

(* Several lines, each with an append of its own that returned: only the first
   can meet an unterminated line. *)
WrittenAll(file, es) ==
  IF es = <<>> THEN file
  ELSE [lines |-> Written(file, Head(es)).lines \o Tail(es), open |-> FALSE]

(* The last of a set of positions in a log. *)
IsLast(S, i) == i \in S /\ \A j \in S : j <= i

LastOf(S) == CHOOSE i \in S : IsLast(S, i)

(* The lines _read_log has parsed when it meets one it refuses, or ends. *)
Whole(lines) ==
  LET torn == {i \in DOMAIN lines : lines[i] = Torn}
  IN IF torn = {} THEN lines
     ELSE SubSeq(lines, 1, (CHOOSE i \in torn : \A j \in torn : i <= j) - 1)
===============================================================================
