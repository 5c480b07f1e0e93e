----------------------------- MODULE MCPrograms -----------------------------
(***************************************************************************)
(* Two attributes of two bytes.  The lines have attributes that are too    *)
(* short, that fit and that are cut, empty fields that strtok skips, and a *)
(* newline that becomes part of the last attribute or is cut off with it.  *)
(***************************************************************************)
EXTENDS Programs

A == 97
B == 98
Newline == 10

Short == <<A, Comma, B, Newline>>
Long == <<Comma, B, A, Comma, Comma, A, B, B, Newline>>
Plain == <<B, Comma, A, A>>

MCFiles == {<<Short>>, <<Long, Plain>>, <<Plain, Long, Short>>}
MCValues == {<<A>>, <<B, A, A>>}
MCLeftovers == {<<Digit0 + 1, B>>, <<A>>}
MCBlank == [i \in 1 .. NUM_ATTR * ATTRIBUTE_SIZE |-> NUL]
MCRecord == [1 .. NUM_ATTR * ATTRIBUTE_SIZE -> {NUL, A, B, Newline, Digit0, Digit0 + 1}]

=============================================================================
