------------------------------ MODULE ByteRange ------------------------------
(***************************************************************************)
(* api/range.rs: how the two audio endpoints answer a Range header, for a  *)
(* file whose bytes they hold as a sequence.                               *)
(***************************************************************************)
EXTENDS Integers, Sequences

(* One end of "bytes=from-to": left out, a number, or anything else *)
Bound == [kind : {"absent", "number", "other"}, n : Nat]

(* A header is read when it names one range of bytes; without one, with another
   unit, several ranges or no dash it is ignored *)
Header == [read : BOOLEAN, from : Bound, to : Bound]

Whole == [kind |-> "whole", start |-> 0, end |-> 0]
Unsatisfiable == [kind |-> "unsatisfiable", start |-> 0, end |-> 0]
Slice(start, end, total) ==
  IF start > end \/ start >= total THEN Unsatisfiable
  ELSE [kind |-> "slice", start |-> start, end |-> end]

Lesser(a, b) == IF a < b THEN a ELSE b
Greater(a, b) == IF a > b THEN a ELSE b

(* "bytes=N-", "bytes=N-M", and "bytes=-N" for the last N *)
Parse(h, total) ==
  LET from == h.from.kind  to == h.to.kind
  IN CASE ~h.read \/ total = 0 \/ (from = "absent" /\ to = "absent") -> Whole
       [] h.read /\ total > 0 /\ from = "absent" /\ to = "number" /\ h.to.n > 0 ->
            Slice(Greater(total - h.to.n, 0), total - 1, total)
       [] h.read /\ total > 0 /\ from = "number" /\ to = "absent" ->
            Slice(h.from.n, total - 1, total)
       [] h.read /\ total > 0 /\ from = "number" /\ to = "number" ->
            Slice(h.from.n, Lesser(h.to.n, total - 1), total)
       [] OTHER -> Unsatisfiable

AudioResponse(h, bytes) ==
  LET r == Parse(h, Len(bytes))
  IN CASE r.kind = "whole" -> [status |-> 200, body |-> bytes]
       [] r.kind = "slice" -> [status |-> 206, body |-> SubSeq(bytes, r.start + 1, r.end + 1)]
       [] r.kind = "unsatisfiable" -> [status |-> 416, body |-> <<>>]
=============================================================================
