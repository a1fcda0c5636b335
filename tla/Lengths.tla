------------------------------ MODULE Lengths ------------------------------
(***************************************************************************)
(* Where the pieces of a stream end.  The framing modules count a peer's   *)
(* data by it: which message a position in the stream belongs to.          *)
(***************************************************************************)
EXTENDS Integers, Sequences

\* Ends(lens)[n] is the length of the first n pieces, of lengths lens.
Ends(lens) ==
    LET end[n \in 0 .. Len(lens)] == IF n = 0 THEN 0 ELSE end[n - 1] + lens[n]
    IN  end
=============================================================================
