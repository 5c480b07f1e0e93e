----------------------------- MODULE MCBytePage -----------------------------
(***************************************************************************)
(* Pages of a few bytes, with records whose bytes are all ones: a record   *)
(* written over a flag, or a flag over a record, would show.               *)
(***************************************************************************)
EXTENDS BytePage

AllOnes == {[j \in 0 .. slot_size - 1 |-> 0 .. 7]}

=============================================================================
