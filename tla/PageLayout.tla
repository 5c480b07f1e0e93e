----------------------------- MODULE PageLayout -----------------------------
(***************************************************************************)
(* The geometry of a fixed-length page (a1/page.cpp): how many slots a     *)
(* page of page_size bytes holds, and which byte and which bit of the      *)
(* slot directory at the end of the page flags a slot.                     *)
(*                                                                         *)
(*      0        slot_size                               page_size         *)
(*      | slot 0 | slot 1 | ... | slot cap-1 | unused |  directory |       *)
(*                                                                         *)
(* The directory grows downwards from the last byte of the page: slots     *)
(* 0..7 are the bits of byte page_size - 1, slots 8..15 those of byte      *)
(* page_size - 2, and so on.                                               *)
(***************************************************************************)
EXTENDS Integers

\* ceil(n / 8.0) for an integer n >= 0
CeilDiv8(n) == (n + 7) \div 8

\* page.cpp, assert (0 < slot_size && slot_size < page_size)
ValidGeometry(page_size, slot_size) ==
  /\ page_size \in Nat
  /\ slot_size \in Nat
  /\ 0 < slot_size
  /\ slot_size < page_size

\* Mutant: the number of directory bytes is rounded down.
directorySizeFloor(page_size, slot_size) == (page_size \div slot_size) \div 8

directorySize(page_size, slot_size) == CeilDiv8(page_size \div slot_size)

fixed_len_page_capacity(page_size, slot_size) ==
  (page_size - directorySize(page_size, slot_size)) \div slot_size

\* The byte that write, read and delete_fixed_len_page compute for a slot's flag.
FlagByte(page_size, slot) == page_size - CeilDiv8(slot + 1)

\* The byte in which the loops of freeslots and add meet the slot: its outer
\* loop variable is i, the inner loop visits eight slots for each i.
LoopFlagByte(page_size, slot) == LET i == slot \div 8 + 1 IN page_size - i

\* Mutant: counts slots from one.
NextFlagByteFromOne(page_size, slot) == page_size - 1 - ((slot + 1) \div 8)

\* The byte that get_next_filled_slot computes for a slot's flag.
NextFlagByte(page_size, slot) == page_size - 1 - (slot \div 8)

\* Mutant: the bit is not taken within its byte.
FlagBitUnreduced(slot) == slot

FlagBit(slot) == slot % 8

=============================================================================
