------------------------------ MODULE PageSpec ------------------------------
(***************************************************************************)
(* What a page promises its users: a fixed number of slots, each with a    *)
(* record and a flag, changed only by the three updating calls of page.h.  *)
(***************************************************************************)
EXTENDS SlotPage

VARIABLE page

Init == page = init_fixed_len_page

Next ==
  \/ \E r \in Record : page' = add_fixed_len_page(page, r)
  \/ \E slot \in Slots, r \in Record : page' = write_fixed_len_page(page, slot, r)
  \/ \E slot \in Slots : page' = delete_fixed_len_page(page, slot)

Spec == Init /\ [][Next]_page

=============================================================================
