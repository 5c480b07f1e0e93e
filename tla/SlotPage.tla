------------------------------ MODULE SlotPage ------------------------------
(***************************************************************************)
(* A fixed-length page (a1/page.cpp) as the code above it sees it: for     *)
(* each slot the flag bit of the slot directory and the record stored in   *)
(* the slot's bytes.  Deleting a record clears the flag only, so a slot    *)
(* keeps the bytes of its last record; a slot never written holds Blank,   *)
(* the zero bytes of a new page.  Module BytePage has the bytes and is     *)
(* shown to implement this view of them.                                   *)
(***************************************************************************)
EXTENDS Integers, FiniteSets

CONSTANTS
  Capacity,  \* fixed_len_page_capacity of the page
  Record,    \* the records a slot can hold
  Blank      \* the content of a slot never written

ASSUME CapacityAssumption == Capacity \in Nat \ {0}

Slots == 0 .. Capacity - 1

Page == [flag : [Slots -> BOOLEAN], rec : [Slots -> Record \cup {Blank}]]

\* The smallest element of a set of slots: the loops of page.cpp go upwards.
First(S) == CHOOSE s \in S : \A t \in S : s <= t

init_fixed_len_page ==
  [flag |-> [s \in Slots |-> FALSE], rec |-> [s \in Slots |-> Blank]]

Filled(page) == {s \in Slots : page.flag[s]}

fixed_len_page_freeslots(page) == Capacity - Cardinality(Filled(page))

write_fixed_len_page(page, slot, r) ==
  [flag |-> [page.flag EXCEPT ![slot] = TRUE], rec |-> [page.rec EXCEPT ![slot] = r]]

read_fixed_len_page(page, slot) == page.rec[slot]

delete_fixed_len_page(page, slot) ==
  [flag |-> [page.flag EXCEPT ![slot] = FALSE], rec |-> page.rec]

\* The page after the call; a full page is left alone (the call returns -1).
add_fixed_len_page(page, r) ==
  LET free == Slots \ Filled(page)
  IN  IF free = {} THEN page ELSE write_fixed_len_page(page, First(free), r)

\* Mutant: starts at the current slot.
nextSlotFromCurrent(page, slot) ==
  LET later == {s \in Filled(page) : s >= slot}
  IN  IF later = {} THEN -1 ELSE First(later)

get_next_filled_slot(page, slot) ==
  LET later == {s \in Filled(page) : s > slot}
  IN  IF later = {} THEN -1 ELSE First(later)

=============================================================================
