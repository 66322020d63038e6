------------------------------ MODULE ByteStream ------------------------------
(***************************************************************************)
(* What a reassembler promises its consumer (the Reassembler trait and     *)
(* StreamChunks of src/src/reassembler.rs): one direction of a connection  *)
(* as cells in stream order, each the byte sent at that place or a gap,    *)
(* from the first position the capture saw to at most the last one sent.   *)
(* What was given is never taken back, moved or given again.               *)
(***************************************************************************)
EXTENDS Integers, Sequences

CONSTANTS Gap, None

VARIABLES
  given,   \* the cells the consumer has
  first,   \* the position of the first cell, None before the stream is anchored
  total    \* the length of the sender's stream

vars == <<given, first, total>>

Init == given = <<>> /\ first \in {None, 0} /\ total \in Nat

\* The stream is anchored once, and grows at its end.
Give ==
  /\ UNCHANGED total
  /\ first' = first \/ (first = None /\ first' \in 0..total)
  /\ Len(given') >= Len(given)
  /\ SubSeq(given', 1, Len(given)) = given
  /\ given' # <<>> => first' # None /\ first' + Len(given') <= total
  /\ \A i \in Len(given) + 1..Len(given') : given'[i] \in {Gap, first' + i - 1}

Spec == Init /\ [][Give]_vars

==============================================================================
