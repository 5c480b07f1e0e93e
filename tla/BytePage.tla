------------------------------ MODULE BytePage ------------------------------
(***************************************************************************)
(* A fixed-length page as page.cpp keeps it: an array of page_size bytes   *)
(* with the records at the front and one flag bit per slot at the back.    *)
(* A byte is the set of its bits that are 1.  A record is what             *)
(* fixed_len_write stores, slot_size bytes.                                *)
(***************************************************************************)
EXTENDS PageLayout, FiniteSets

CONSTANTS page_size, slot_size, Record

Byte == SUBSET (0 .. 7)

\* The assert of init_fixed_len_page.
ASSUME GeometryAssumption == ValidGeometry(page_size, slot_size)
ASSUME RecordAssumption == Record \subseteq [0 .. slot_size - 1 -> Byte]

VARIABLE data

Capacity == fixed_len_page_capacity(page_size, slot_size)

Slots == 0 .. Capacity - 1

\* `new char[page_size]()` zeroes the page.
Init == data = [b \in 0 .. page_size - 1 |-> {}]

SlotBytes(slot) == slot * slot_size .. slot * slot_size + slot_size - 1

read_fixed_len_page(slot) == [j \in 0 .. slot_size - 1 |-> data[slot * slot_size + j]]

\* fixed_len_write to the slot's bytes, and then the slot's flag.
write_fixed_len_page(slot, r) ==
  LET stored == [b \in 0 .. page_size - 1 |->
                   IF b \in SlotBytes(slot) THEN r[b - slot * slot_size] ELSE data[b]]
  IN  data' = [stored EXCEPT ![FlagByte(page_size, slot)] = @ \cup {FlagBit(slot)}]

delete_fixed_len_page(slot) ==
  data' = [data EXCEPT ![FlagByte(page_size, slot)] = @ \ {FlagBit(slot)}]

\* The slots whose bit is set where the loops of freeslots and add look for it.
LoopFilled == {s \in Slots : FlagBit(s) \in data[LoopFlagByte(page_size, s)]}

fixed_len_page_freeslots == Capacity - Cardinality(LoopFilled)

add_fixed_len_page(r) ==
  LET free == Slots \ LoopFilled
  IN  IF free = {}
        THEN UNCHANGED data
        ELSE write_fixed_len_page(CHOOSE s \in free : \A t \in free : s <= t, r)

\* The slots that get_next_filled_slot finds.
ScanFilled == {s \in Slots : FlagBit(s) \in data[NextFlagByte(page_size, s)]}

Next ==
  \/ \E r \in Record : add_fixed_len_page(r)
  \/ \E slot \in Slots, r \in Record : write_fixed_len_page(slot, r)
  \/ \E slot \in Slots : delete_fixed_len_page(slot)

Spec == Init /\ [][Next]_data

-----------------------------------------------------------------------------
TypeOK == data \in [0 .. page_size - 1 -> Byte]

\* The slots and flags that the bytes stand for.
AbstractPage ==
  [flag |-> [s \in Slots |-> FlagBit(s) \in data[FlagByte(page_size, s)]],
   rec  |-> [s \in Slots |-> read_fixed_len_page(s)]]

Abstract == INSTANCE PageSpec WITH
  Blank <- [j \in 0 .. slot_size - 1 |-> {}],
  page  <- AbstractPage

\* The bytes of page.cpp implement a page of independent slots: writing,
\* adding or deleting a record changes that slot and that flag and no other.
ImplementsPage == Abstract!Spec

\* The free-slot count that goes into the heap file's directory and the slots
\* that a scan visits are those of the flags that write and delete maintain.
CountMatchesFlags ==
  /\ fixed_len_page_freeslots = Capacity - Cardinality(Abstract!Filled(AbstractPage))
  /\ ScanFilled = Abstract!Filled(AbstractPage)

=============================================================================
