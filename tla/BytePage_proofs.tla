--------------------------- MODULE BytePage_proofs ---------------------------
(***************************************************************************)
(* The page geometry of a1/page.cpp, and the bytes of a page as an         *)
(* implementation of its slots, for every page size and slot size that the *)
(* code accepts and every set of records.                                  *)
(***************************************************************************)
EXTENDS BytePage, NumberFacts

-----------------------------------------------------------------------------
(* The geometry of a page *)

\* What ceil(n / 8.0) computes.
LEMMA CeilDiv8Bounds ==
  ASSUME NEW n \in Nat
  PROVE  /\ CeilDiv8(n) \in Nat
         /\ n <= 8 * CeilDiv8(n)
         /\ 8 * CeilDiv8(n) < n + 8
BY DEF CeilDiv8

\* The slot directory takes less than the page and leaves room for one slot,
\* so fixed_len_page_capacity never returns 0 for a geometry that the assert
\* in init_fixed_len_page accepts.
THEOREM CapacityPositive ==
  ASSUME NEW page_bytes \in Nat, NEW slot_bytes \in Nat,
         ValidGeometry(page_bytes, slot_bytes)
  PROVE  /\ fixed_len_page_capacity(page_bytes, slot_bytes) \in Nat
         /\ fixed_len_page_capacity(page_bytes, slot_bytes) >= 1
<1> DEFINE n == page_bytes \div slot_bytes
           d == directorySize(page_bytes, slot_bytes)
<1>1. n \in Nat /\ slot_bytes * n <= page_bytes /\ page_bytes < slot_bytes * n + slot_bytes
  BY QuotientBounds DEF ValidGeometry
<1>2. n >= 1
  BY <1>1, Z3 DEF ValidGeometry
<1>3. d \in Nat /\ 8 * d < n + 8
  BY <1>1, CeilDiv8Bounds DEF directorySize
<1>4. slot_bytes <= page_bytes - d
  <2>1. CASE n = 1
    BY <2>1, <1>3 DEF ValidGeometry
  <2>2. CASE n >= 2
    <3>1. slot_bytes * n >= slot_bytes + (n - 1)
      BY <2>2, <1>1, Z3 DEF ValidGeometry
    <3>2. d <= n - 1
      BY <2>2, <1>1, <1>3
    <3> QED BY <3>1, <3>2, <1>1, <1>3 DEF ValidGeometry
  <2> QED BY <2>1, <2>2, <1>1, <1>2
<1>5. page_bytes - d \in Nat
  BY <1>3, <1>4 DEF ValidGeometry
<1> HIDE DEF n, d
<1>6. (page_bytes - d) \div slot_bytes >= 1
  <2> DEFINE q == (page_bytes - d) \div slot_bytes
  <2>1. q \in Nat /\ page_bytes - d < slot_bytes * q + slot_bytes
    BY <1>5, QuotientBounds DEF ValidGeometry
  <2> HIDE DEF q
  <2>2. q # 0
    BY <2>1, <1>4, <1>5, <1>3, Z3 DEF ValidGeometry
  <2> QED BY <2>1, <2>2 DEF q
<1>7. (page_bytes - d) \div slot_bytes \in Nat
  BY <1>5, QuotientBounds DEF ValidGeometry
<1> QED BY <1>6, <1>7 DEF d, fixed_len_page_capacity

\* The slots end before the bytes that flag them begin: no record written to
\* a slot can overwrite a flag, and no flag can overwrite a record.
THEOREM SlotsBeforeDirectory ==
  ASSUME NEW page_bytes \in Nat, NEW slot_bytes \in Nat,
         ValidGeometry(page_bytes, slot_bytes)
  PROVE  LET cap == fixed_len_page_capacity(page_bytes, slot_bytes)
         IN  cap * slot_bytes + CeilDiv8(cap) <= page_bytes
<1> DEFINE n == page_bytes \div slot_bytes
           d == directorySize(page_bytes, slot_bytes)
           cap == fixed_len_page_capacity(page_bytes, slot_bytes)
<1>1. n \in Nat /\ slot_bytes * n <= page_bytes /\ page_bytes < slot_bytes * n + slot_bytes
  BY QuotientBounds DEF ValidGeometry
<1>2. d \in Nat /\ n <= 8 * d /\ 8 * d < n + 8
  BY <1>1, CeilDiv8Bounds DEF directorySize
<1>3. cap \in Nat /\ cap >= 1
  BY CapacityPositive
<1>4. page_bytes - d \in Nat
  <2>1. n <= page_bytes
    BY <1>1, Z3 DEF ValidGeometry
  <2> QED BY <2>1, <1>1, <1>2 DEF ValidGeometry
<1>5. slot_bytes * cap <= page_bytes - d
  BY <1>4, QuotientBounds DEF ValidGeometry, fixed_len_page_capacity
<1> HIDE DEF n, d, cap
<1>6. cap <= n
  <2>1. ASSUME cap >= n + 1 PROVE FALSE
    <3>1. slot_bytes * (n + 1) <= slot_bytes * cap
      BY <2>1, <1>1, <1>3, ProductMonotone DEF ValidGeometry
    <3>2. slot_bytes * (n + 1) = slot_bytes * n + slot_bytes
      BY <1>1, Z3
    <3>3. slot_bytes * n \in Nat /\ slot_bytes * cap \in Nat
      BY <1>1, <1>3, Z3
    <3> QED BY <3>1, <3>2, <3>3, <1>1, <1>2, <1>5 DEF ValidGeometry
  <2> QED BY <2>1, <1>1, <1>3
<1>7. CeilDiv8(cap) <= d
  BY <1>6, <1>3, <1>1, <1>2, CeilDiv8Bounds
<1>8. cap * slot_bytes = slot_bytes * cap
  BY <1>3 DEF ValidGeometry
<1>9. CeilDiv8(cap) \in Nat
  BY <1>3, CeilDiv8Bounds
<1> QED BY <1>5, <1>7, <1>8, <1>9, <1>2, <1>3 DEF cap, ValidGeometry

\* write, read and delete_fixed_len_page, the loops of freeslots and add, and
\* get_next_filled_slot compute the byte of a slot's flag in three ways; all
\* three find the same byte.
THEOREM FlagAddressesAgree ==
  ASSUME NEW page_bytes \in Nat, NEW slot \in Nat
  PROVE  /\ FlagByte(page_bytes, slot) = NextFlagByte(page_bytes, slot)
         /\ FlagByte(page_bytes, slot) = LoopFlagByte(page_bytes, slot)
BY DEF FlagByte, NextFlagByte, LoopFlagByte, CeilDiv8

\* Two slots never share a flag.
THEOREM FlagsDistinct ==
  ASSUME NEW page_bytes \in Nat, NEW s \in Nat, NEW t \in Nat,
         FlagByte(page_bytes, s) = FlagByte(page_bytes, t), FlagBit(s) = FlagBit(t)
  PROVE  s = t
BY DEF FlagByte, FlagBit, CeilDiv8

\* The flag of every slot of the page lies inside the page, behind the bytes
\* of every slot.
THEOREM FlagsInDirectory ==
  ASSUME NEW page_bytes \in Nat, NEW slot_bytes \in Nat,
         ValidGeometry(page_bytes, slot_bytes),
         NEW slot \in 0 .. fixed_len_page_capacity(page_bytes, slot_bytes) - 1
  PROVE  /\ FlagByte(page_bytes, slot) \in 0 .. page_bytes - 1
         /\ fixed_len_page_capacity(page_bytes, slot_bytes) * slot_bytes
              <= FlagByte(page_bytes, slot)
<1> DEFINE cap == fixed_len_page_capacity(page_bytes, slot_bytes)
<1>1. cap \in Nat /\ cap >= 1
  BY CapacityPositive
<1>2. cap * slot_bytes + CeilDiv8(cap) <= page_bytes
  BY SlotsBeforeDirectory
<1>3. cap * slot_bytes \in Nat
  BY <1>1, Z3
<1> HIDE DEF cap
<1>4. slot \in Nat /\ slot + 1 <= cap
  BY <1>1 DEF cap
<1>5. CeilDiv8(slot + 1) <= CeilDiv8(cap) /\ 1 <= CeilDiv8(slot + 1)
      /\ CeilDiv8(cap) \in Nat /\ CeilDiv8(slot + 1) \in Nat
  BY <1>4, <1>1 DEF CeilDiv8
<1> QED BY <1>1, <1>2, <1>3, <1>5 DEF FlagByte, cap

-----------------------------------------------------------------------------
(* The slots of a page *)

\* The place of a slot and of its flag in the page.
LEMMA Places ==
  /\ page_size \in Nat /\ slot_size \in Nat /\ slot_size > 0
  /\ Capacity \in Nat
  /\ \A s \in Slots :
       /\ s \in Nat
       /\ FlagByte(page_size, s) \in 0 .. page_size - 1
       /\ LoopFlagByte(page_size, s) = FlagByte(page_size, s)
       /\ NextFlagByte(page_size, s) = FlagByte(page_size, s)
       /\ FlagBit(s) \in 0 .. 7
  /\ \A s, t \in Slots :
       /\ FlagByte(page_size, t) \notin SlotBytes(s)
       /\ FlagByte(page_size, s) = FlagByte(page_size, t) /\ FlagBit(s) = FlagBit(t) => s = t
<1>1. page_size \in Nat /\ slot_size \in Nat /\ slot_size > 0
  BY GeometryAssumption DEF ValidGeometry
<1>2. Capacity \in Nat
  BY <1>1, GeometryAssumption, CapacityPositive DEF Capacity
<1>3. ASSUME NEW s \in Slots
      PROVE  /\ s \in Nat
             /\ FlagByte(page_size, s) \in 0 .. page_size - 1
             /\ Capacity * slot_size <= FlagByte(page_size, s)
             /\ LoopFlagByte(page_size, s) = FlagByte(page_size, s)
             /\ NextFlagByte(page_size, s) = FlagByte(page_size, s)
             /\ FlagBit(s) \in 0 .. 7
  <2>1. s \in Nat
    BY <1>2 DEF Slots
  <2>2. FlagByte(page_size, s) \in 0 .. page_size - 1
        /\ Capacity * slot_size <= FlagByte(page_size, s)
    BY <1>1, GeometryAssumption, FlagsInDirectory DEF Slots, Capacity
  <2>3. LoopFlagByte(page_size, s) = FlagByte(page_size, s)
        /\ NextFlagByte(page_size, s) = FlagByte(page_size, s)
    BY <1>1, <2>1, FlagAddressesAgree
  <2>4. FlagBit(s) \in 0 .. 7
    BY <2>1 DEF FlagBit
  <2> QED BY <2>1, <2>2, <2>3, <2>4
<1>4. ASSUME NEW s \in Slots, NEW t \in Slots
      PROVE  FlagByte(page_size, t) \notin SlotBytes(s)
  <2>1. slot_size * (s + 1) <= slot_size * Capacity
    BY <1>1, <1>2, <1>3, ProductMonotone DEF Slots
  <2>2. /\ slot_size * (s + 1) = s * slot_size + slot_size
        /\ slot_size * Capacity = Capacity * slot_size
        /\ s * slot_size \in Nat
        /\ Capacity * slot_size \in Nat
    BY <1>1, <1>2, <1>3, Z3
  <2>3. Capacity * slot_size <= FlagByte(page_size, t) /\ FlagByte(page_size, t) \in Nat
    BY <1>1, <1>3
  <2> QED BY <2>1, <2>2, <2>3, <1>1 DEF SlotBytes
<1>5. ASSUME NEW s \in Slots, NEW t \in Slots,
             FlagByte(page_size, s) = FlagByte(page_size, t), FlagBit(s) = FlagBit(t)
      PROVE  s = t
  BY <1>1, <1>3, <1>5, FlagsDistinct
<1> QED BY <1>1, <1>2, <1>3, <1>4, <1>5

\* The bytes of a slot lie in the page, and no byte belongs to two slots.
LEMMA SlotsApart ==
  /\ \A s \in Slots, j \in 0 .. slot_size - 1 :
       /\ s * slot_size + j \in 0 .. page_size - 1
       /\ s * slot_size + j \in SlotBytes(s)
       /\ (s * slot_size + j) - s * slot_size = j
  /\ \A s, t \in Slots, j \in 0 .. slot_size - 1 :
       s * slot_size + j \in SlotBytes(t) => s = t
<1>1. ASSUME NEW s \in Slots
      PROVE  /\ s \in Nat /\ s * slot_size \in Nat
             /\ s * slot_size + slot_size <= page_size
  <2>1. s \in Nat /\ s + 1 <= Capacity
    BY Places DEF Slots
  <2>2. slot_size * (s + 1) <= slot_size * Capacity
    BY <2>1, Places, ProductMonotone
  <2>3. Capacity * slot_size + CeilDiv8(Capacity) <= page_size /\ CeilDiv8(Capacity) \in Nat
    BY Places, GeometryAssumption, SlotsBeforeDirectory, CeilDiv8Bounds DEF Capacity
  <2>4. /\ slot_size * (s + 1) = s * slot_size + slot_size
        /\ slot_size * Capacity = Capacity * slot_size
        /\ s * slot_size \in Nat
        /\ Capacity * slot_size \in Nat
    BY <2>1, Places, Z3
  <2> QED BY <2>1, <2>2, <2>3, <2>4, Places
<1>2. ASSUME NEW s \in Slots, NEW t \in Slots, NEW j \in 0 .. slot_size - 1,
             s * slot_size + j \in SlotBytes(t)
      PROVE  s = t
  <2>1. ASSUME NEW u \in Slots, NEW v \in Slots, u < v
        PROVE  u * slot_size + slot_size <= v * slot_size
    <3>1. slot_size * (u + 1) <= slot_size * v
      BY <1>1, <2>1, Places, ProductMonotone
    <3>2. slot_size * (u + 1) = u * slot_size + slot_size /\ slot_size * v = v * slot_size
      BY <1>1, Places, Z3
    <3> QED BY <3>1, <3>2
  <2>2. ~ (s < t)
    BY <1>1, <1>2, <2>1, Places DEF SlotBytes
  <2>3. ~ (t < s)
    BY <1>1, <1>2, <2>1, Places DEF SlotBytes
  <2> QED BY <2>2, <2>3, <1>1
<1>3. ASSUME NEW s \in Slots, NEW j \in 0 .. slot_size - 1
      PROVE  /\ s * slot_size + j \in 0 .. page_size - 1
             /\ s * slot_size + j \in SlotBytes(s)
             /\ (s * slot_size + j) - s * slot_size = j
  BY <1>1, Places DEF SlotBytes
<1> QED BY <1>2, <1>3

-----------------------------------------------------------------------------
\* Writing a slot changes that slot and its flag only.
LEMMA WriteImplements ==
  ASSUME TypeOK, NEW slot \in Slots, NEW r \in Record, write_fixed_len_page(slot, r)
  PROVE  TypeOK' /\ AbstractPage' = Abstract!write_fixed_len_page(AbstractPage, slot, r)
<1> DEFINE F(s) == FlagByte(page_size, s)
           stored == [b \in 0 .. page_size - 1 |->
                        IF b \in SlotBytes(slot) THEN r[b - slot * slot_size] ELSE data[b]]
<1>1. \A b \in SlotBytes(slot) : b - slot * slot_size \in 0 .. slot_size - 1
  BY Places DEF SlotBytes, Slots
<1>2. r \in [0 .. slot_size - 1 -> Byte]
  BY RecordAssumption
<1>3. stored \in [0 .. page_size - 1 -> Byte]
  BY <1>1, <1>2 DEF TypeOK
<1>4. data' = [stored EXCEPT ![F(slot)] = @ \cup {FlagBit(slot)}]
  BY DEF write_fixed_len_page
<1>5. F(slot) \in 0 .. page_size - 1 /\ FlagBit(slot) \in 0 .. 7
  BY Places
<1>6. TypeOK'
  BY <1>3, <1>4, <1>5 DEF TypeOK, Byte
<1>7. ASSUME NEW s \in Slots
      PROVE  FlagBit(s) \in data'[F(s)] <=> s = slot \/ FlagBit(s) \in data[F(s)]
  <2>1. F(s) \in 0 .. page_size - 1 /\ F(s) \notin SlotBytes(slot)
    BY Places
  <2>2. stored[F(s)] = data[F(s)]
    BY <2>1
  <2>3. data'[F(s)] = IF F(s) = F(slot) THEN data[F(s)] \cup {FlagBit(slot)} ELSE data[F(s)]
    BY <2>1, <2>2, <1>3, <1>4
  <2>4. F(s) = F(slot) /\ FlagBit(s) = FlagBit(slot) => s = slot
    BY Places
  <2> HIDE DEF F
  <2> QED BY <2>3, <2>4
<1>8. ASSUME NEW s \in Slots, NEW j \in 0 .. slot_size - 1
      PROVE  data'[s * slot_size + j] = IF s = slot THEN r[j] ELSE data[s * slot_size + j]
  <2>0. s * slot_size + j \in 0 .. page_size - 1 /\ s * slot_size + j \in SlotBytes(s)
    BY SlotsApart
  <2>1. s * slot_size + j \in 0 .. page_size - 1 /\ s * slot_size + j # F(slot)
    BY Places, <2>0
  <2>2. data'[s * slot_size + j] = stored[s * slot_size + j]
    BY <2>1, <1>3, <1>4
  <2>3. s * slot_size + j \in SlotBytes(slot) <=> s = slot
    BY SlotsApart
  <2>4. (s * slot_size + j) - s * slot_size = j
    BY SlotsApart
  <2> QED BY <2>1, <2>2, <2>3, <2>4
<1>9. AbstractPage'.flag = [AbstractPage.flag EXCEPT ![slot] = TRUE]
  <2> DEFINE old == [s \in Slots |-> FlagBit(s) \in data[F(s)]]
             new == [s \in Slots |-> FlagBit(s) \in data'[F(s)]]
  <2>1. AbstractPage.flag = old /\ AbstractPage'.flag = new
    BY DEF AbstractPage
  <2>2. ASSUME NEW s \in Slots
        PROVE  new[s] = [old EXCEPT ![slot] = TRUE][s]
    <3>1. CASE s = slot
      <4>1. (FlagBit(s) \in data'[F(s)]) = TRUE
        BY <3>1, <1>7
      <4> QED BY <4>1, <3>1, Zenon
    <3>2. CASE s # slot
      <4>1. (FlagBit(s) \in data'[F(s)]) = (FlagBit(s) \in data[F(s)])
        BY <3>2, <1>7
      <4> QED BY <4>1, <3>2, Zenon
    <3> QED BY <3>1, <3>2
  <2>3. new = [old EXCEPT ![slot] = TRUE]
    BY <2>2, Zenon
  <2> QED BY <2>1, <2>3
<1>10. ASSUME NEW s \in Slots
       PROVE  read_fixed_len_page(s)' = IF s = slot THEN r ELSE read_fixed_len_page(s)
  <2>1. CASE s = slot
    BY <2>1, <1>2, <1>8 DEF read_fixed_len_page
  <2>2. CASE s # slot
    BY <2>2, <1>8 DEF read_fixed_len_page
  <2> QED BY <2>1, <2>2
<1>11. AbstractPage'.rec = [AbstractPage.rec EXCEPT ![slot] = r]
  BY <1>10, Zenon DEF AbstractPage
<1>12. AbstractPage' = [flag |-> AbstractPage'.flag, rec |-> AbstractPage'.rec]
  BY DEF AbstractPage
<1> QED BY <1>6, <1>9, <1>11, <1>12 DEF AbstractPage, Abstract!write_fixed_len_page

\* Deleting a record clears its flag and changes nothing else.
LEMMA DeleteImplements ==
  ASSUME TypeOK, NEW slot \in Slots, delete_fixed_len_page(slot)
  PROVE  TypeOK' /\ AbstractPage' = Abstract!delete_fixed_len_page(AbstractPage, slot)
<1> DEFINE F(s) == FlagByte(page_size, s)
<1>1. data' = [data EXCEPT ![F(slot)] = @ \ {FlagBit(slot)}]
  BY DEF delete_fixed_len_page
<1>2. TypeOK'
  BY <1>1 DEF TypeOK, Byte
<1>3. ASSUME NEW s \in Slots
      PROVE  FlagBit(s) \in data'[F(s)] <=> s # slot /\ FlagBit(s) \in data[F(s)]
  <2>1. F(s) \in 0 .. page_size - 1
    BY Places
  <2>2. data'[F(s)] = IF F(s) = F(slot) THEN data[F(s)] \ {FlagBit(slot)} ELSE data[F(s)]
    BY <2>1, <1>1 DEF TypeOK
  <2>3. F(s) = F(slot) /\ FlagBit(s) = FlagBit(slot) => s = slot
    BY Places
  <2> HIDE DEF F
  <2> QED BY <2>2, <2>3
<1>4. AbstractPage'.flag = [AbstractPage.flag EXCEPT ![slot] = FALSE]
  <2> DEFINE old == [s \in Slots |-> FlagBit(s) \in data[F(s)]]
             new == [s \in Slots |-> FlagBit(s) \in data'[F(s)]]
  <2>1. AbstractPage.flag = old /\ AbstractPage'.flag = new
    BY DEF AbstractPage
  <2>2. ASSUME NEW s \in Slots
        PROVE  new[s] = [old EXCEPT ![slot] = FALSE][s]
    <3>1. CASE s = slot
      <4>1. (FlagBit(s) \in data'[F(s)]) = FALSE
        BY <3>1, <1>3
      <4> QED BY <4>1, <3>1, Zenon
    <3>2. CASE s # slot
      <4>1. (FlagBit(s) \in data'[F(s)]) = (FlagBit(s) \in data[F(s)])
        BY <3>2, <1>3
      <4> QED BY <4>1, <3>2, Zenon
    <3> QED BY <3>1, <3>2
  <2>3. new = [old EXCEPT ![slot] = FALSE]
    BY <2>2, Zenon
  <2> QED BY <2>1, <2>3
<1>5. AbstractPage'.rec = AbstractPage.rec
  <2>1. ASSUME NEW s \in Slots, NEW j \in 0 .. slot_size - 1
        PROVE  data'[s * slot_size + j] = data[s * slot_size + j]
    <3>1. s * slot_size + j \in 0 .. page_size - 1 /\ s * slot_size + j \in SlotBytes(s)
      BY SlotsApart
    <3>2. s * slot_size + j # F(slot)
      BY <3>1, Places
    <3> QED BY <3>1, <3>2, <1>1 DEF TypeOK
  <2>2. \A s \in Slots : read_fixed_len_page(s)' = read_fixed_len_page(s)
    BY <2>1 DEF read_fixed_len_page
  <2> QED BY <2>2, Zenon DEF AbstractPage
<1>6. AbstractPage' = [flag |-> AbstractPage'.flag, rec |-> AbstractPage'.rec]
  BY DEF AbstractPage
<1> QED BY <1>2, <1>4, <1>5, <1>6 DEF Abstract!delete_fixed_len_page

\* The loops of freeslots and add, and get_next_filled_slot, see the flags that
\* write and delete maintain.
LEMMA FlagsSeen ==
  LoopFilled = Abstract!Filled(AbstractPage) /\ ScanFilled = Abstract!Filled(AbstractPage)
<1>1. \A s \in Slots : AbstractPage.flag[s] = (FlagBit(s) \in data[FlagByte(page_size, s)])
  BY Zenon DEF AbstractPage
<1>2. Abstract!Slots = Slots
  BY DEF Abstract!Slots, Slots
<1>3. \A s \in Slots : /\ LoopFlagByte(page_size, s) = FlagByte(page_size, s)
                       /\ NextFlagByte(page_size, s) = FlagByte(page_size, s)
  BY Places
<1> QED BY <1>1, <1>2, <1>3, Zenon DEF LoopFilled, ScanFilled, Abstract!Filled

\* Adding a record writes the first slot whose flag is clear, if there is one.
LEMMA AddImplements ==
  ASSUME TypeOK, NEW r \in Record, add_fixed_len_page(r)
  PROVE  TypeOK' /\ AbstractPage' = Abstract!add_fixed_len_page(AbstractPage, r)
<1> DEFINE free == Slots \ LoopFilled
           slot == CHOOSE s \in free : \A t \in free : s <= t
<1>1. free = Abstract!Slots \ Abstract!Filled(AbstractPage)
  BY FlagsSeen DEF Abstract!Slots, Slots
<1>2. CASE free = {}
  <2>1. data' = data
    BY <1>2 DEF add_fixed_len_page
  <2>2. TypeOK' /\ AbstractPage' = AbstractPage
    BY <2>1 DEF TypeOK, AbstractPage, read_fixed_len_page
  <2> QED BY <1>1, <1>2, <2>2 DEF Abstract!add_fixed_len_page
<1>3. CASE free # {}
  <2>1. slot \in Slots
    <3>1. free \subseteq Nat
      BY Places
    <3>2. \E s \in free : \A t \in free : s <= t
      BY <1>3, <3>1, LeastElement
    <3> QED BY <3>2
  <2>2. write_fixed_len_page(slot, r)
    BY <1>3 DEF add_fixed_len_page
  <2>3. TypeOK' /\ AbstractPage' = Abstract!write_fixed_len_page(AbstractPage, slot, r)
    BY <2>1, <2>2, WriteImplements
  <2>4. slot = Abstract!First(free)
    BY DEF Abstract!First
  <2> HIDE DEF slot
  <2>5. Abstract!add_fixed_len_page(AbstractPage, r)
          = Abstract!write_fixed_len_page(AbstractPage, slot, r)
    BY <1>1, <1>3, <2>4 DEF Abstract!add_fixed_len_page
  <2> QED BY <2>3, <2>5
<1> QED BY <1>2, <1>3

\* A new page has no record and no flag.
LEMMA InitImplements == Init => TypeOK /\ Abstract!Init
<1> SUFFICES ASSUME Init PROVE TypeOK /\ Abstract!Init
  OBVIOUS
<1> DEFINE Zero == [j \in 0 .. slot_size - 1 |-> {}]
<1>1. TypeOK
  BY DEF Init, TypeOK, Byte
<1>2. \A s \in Slots : (FlagBit(s) \in data[FlagByte(page_size, s)]) = FALSE
  BY Places DEF Init
<1>3. AbstractPage.flag = [s \in Slots |-> FALSE]
  BY <1>2, Zenon DEF AbstractPage
<1>4. \A s \in Slots, j \in 0 .. slot_size - 1 : data[s * slot_size + j] = {}
  BY SlotsApart DEF Init
<1>5. \A s \in Slots : read_fixed_len_page(s) = Zero
  BY <1>4 DEF read_fixed_len_page
<1>6. AbstractPage.rec = [s \in Slots |-> Zero]
  BY <1>5, Zenon DEF AbstractPage
<1>7. AbstractPage = [flag |-> AbstractPage.flag, rec |-> AbstractPage.rec]
  BY DEF AbstractPage
<1> HIDE DEF Zero
<1>8. AbstractPage = [flag |-> [s \in Slots |-> FALSE], rec |-> [s \in Slots |-> Zero]]
  BY <1>3, <1>6, <1>7
<1> QED
  BY <1>1, <1>8, Zenon
  DEF Zero, Abstract!Init, Abstract!init_fixed_len_page, Abstract!Slots, Slots

\* Every call is one of the calls of the abstract page.
LEMMA StepImplements ==
  ASSUME TypeOK, [Next]_data
  PROVE  TypeOK' /\ [Abstract!Next]_AbstractPage
<1>1. ASSUME NEW r \in Record, add_fixed_len_page(r)
      PROVE  TypeOK' /\ Abstract!Next
  BY <1>1, AddImplements DEF Abstract!Next
<1>2. ASSUME NEW slot \in Slots, NEW r \in Record, write_fixed_len_page(slot, r)
      PROVE  TypeOK' /\ Abstract!Next
  BY <1>2, WriteImplements DEF Abstract!Next, Abstract!Slots, Slots
<1>3. ASSUME NEW slot \in Slots, delete_fixed_len_page(slot)
      PROVE  TypeOK' /\ Abstract!Next
  BY <1>3, DeleteImplements DEF Abstract!Next, Abstract!Slots, Slots
<1>4. CASE UNCHANGED data
  BY <1>4 DEF TypeOK, AbstractPage, read_fixed_len_page
<1> QED BY <1>1, <1>2, <1>3, <1>4 DEF Next

\* A page stays an array of page_size bytes: no call of page.cpp reaches
\* outside it.
THEOREM BytePageTypeOK == Spec => []TypeOK
<1>1. Init => TypeOK
  BY InitImplements
<1>2. TypeOK /\ [Next]_data => TypeOK'
  BY StepImplements
<1> QED BY <1>1, <1>2, PTL DEF Spec

\* The bytes of page.cpp implement a page of independent slots, for every page
\* size and slot size that init_fixed_len_page accepts.
THEOREM BytePageImplementsPage == Spec => ImplementsPage
<1>1. Init => Abstract!Init
  BY InitImplements
<1>2. TypeOK /\ [Next]_data => [Abstract!Next]_AbstractPage
  BY StepImplements
<1> QED BY <1>1, <1>2, BytePageTypeOK, PTL DEF Spec, ImplementsPage, Abstract!Spec

\* fixed_len_page_freeslots counts, and get_next_filled_slot visits, exactly
\* the slots that write and delete flag.
THEOREM BytePageCountMatchesFlags == Spec => []CountMatchesFlags
<1>1. CountMatchesFlags
  BY FlagsSeen, Zenon
  DEF CountMatchesFlags, fixed_len_page_freeslots
<1> QED BY <1>1, PTL

==============================================================================
