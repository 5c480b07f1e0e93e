-------------------------- MODULE MergeSort_proofs --------------------------
(***************************************************************************)
(* msort sorts: while its ints do not overflow, every pass keeps the       *)
(* records, writes none from a read buffer that was refilled, and merges   *)
(* sorted segments into sorted segments that are k times as long.          *)
(***************************************************************************)
EXTENDS MergeSort, FiniteSetTheorems, SequenceTheorems, NumberFacts, TLAPS

USE SMTT(30), ZenonT(30)

-----------------------------------------------------------------------------
(* Numbers *)

\* The segment of length b that place a is in, counted from 0
LEMMA SegmentOf ==
  ASSUME NEW a \in Nat, NEW b \in Nat, b > 0, NEW q \in Nat
  PROVE  a \div b = q <=> (q * b <= a /\ a < q * b + b)
<1> DEFINE d == a \div b
<1>1. d \in Nat /\ b * d <= a /\ a < b * d + b
  BY QuotientBounds
<1> HIDE DEF d
<1>2. ASSUME q < d PROVE q * b + b <= b * d
  <2>1. b * (q + 1) <= b * d
    BY <1>1, <1>2, ProductMonotone
  <2>2. b * (q + 1) = q * b + b
    BY Z3
  <2> QED BY <2>1, <2>2
<1>3. ASSUME d < q PROVE b * d + b <= q * b
  <2>1. b * (d + 1) <= b * q
    BY <1>1, <1>3, ProductMonotone
  <2>2. b * (d + 1) = b * d + b /\ b * q = q * b
    BY <1>1, Z3
  <2> QED BY <2>1, <2>2
<1>4. q * b \in Nat /\ b * d \in Nat /\ q * b = b * q
  BY <1>1, Z3
<1>5. d = q <=> (q * b <= a /\ a < q * b + b)
  BY <1>1, <1>2, <1>3, <1>4
<1> QED BY <1>5 DEF d

\* A place is at or after the beginning of its segment.
LEMMA SegmentAfter ==
  ASSUME NEW a \in Nat, NEW b \in Nat, b > 0, NEW q \in Nat
  PROVE  a \div b \in Nat /\ (q * b <= a <=> q <= a \div b)
<1> DEFINE d == a \div b
<1>1. d \in Nat /\ b * d <= a /\ a < b * d + b
  BY QuotientBounds
<1> HIDE DEF d
<1>2. ASSUME q <= d PROVE q * b <= a
  BY <1>1, <1>2, ProductMonotone
<1>3. ASSUME d < q PROVE a < q * b
  <2>1. b * (d + 1) <= b * q
    BY <1>1, <1>3, ProductMonotone
  <2>2. b * (d + 1) = b * d + b /\ b * q = q * b
    BY <1>1, Z3
  <2> QED BY <1>1, <2>1, <2>2
<1>4. q * b \in Nat
  BY Z3
<1>5. d \in Nat /\ (q * b <= a <=> q <= d)
  BY <1>1, <1>2, <1>3, <1>4
<1> QED BY <1>5 DEF d

\* Where in a buffer of b records place a is, when q buffers have been read and a
\* is in the last of them or is the next place to read
LEMMA PlaceInBuffer ==
  ASSUME NEW a \in Nat, NEW b \in Nat, b > 0, NEW q \in Nat, a <= q * b, q * b < a + b
  PROVE  /\ a = q * b => a % b = 0
         /\ a # q * b => a % b = a + b - q * b
<1> DEFINE c == q * b
<1>1. a % b = a - b * (a \div b)
  BY Z3
<1>2. c \in Nat /\ b * q = c
  BY Z3
<1>3. CASE a = c
  <2>1. a \div b = q
    BY <1>3, SegmentOf
  <2> QED BY <1>1, <1>2, <1>3, <2>1
<1>4. CASE a # c
  <2>1. q > 0
    <3>1. q = 0 => c = 0
      BY Z3
    <3> QED BY <1>4, <3>1
  <2>2. (q - 1) * b = c - b /\ b * (q - 1) = c - b /\ q - 1 \in Nat
    BY <2>1, Z3
  <2> HIDE DEF c
  <2>3. (q - 1) * b <= a /\ a < (q - 1) * b + b
    BY <1>2, <1>4, <2>2 DEF c
  <2>4. a \div b = q - 1
    BY <2>2, <2>3, SegmentOf
  <2>5. a % b = a + b - c
    BY <1>1, <1>2, <2>2, <2>4
  <2> QED BY <1>4, <2>5 DEF c
<1> QED BY <1>3, <1>4

-----------------------------------------------------------------------------
(* How often a record occurs *)

\* The places of a record are finitely many.
LEMMA PlacesFinite ==
  ASSUME NEW s \in Seq(Records), NEW rec
  PROVE  /\ IsFiniteSet({i \in DOMAIN s : s[i] = rec})
         /\ Count(s, rec) \in Nat
<1>1. IsFiniteSet(1 .. Len(s))
  BY FS_Interval
<1>2. {i \in DOMAIN s : s[i] = rec} \in SUBSET (1 .. Len(s))
  OBVIOUS
<1>3. IsFiniteSet({i \in DOMAIN s : s[i] = rec})
  BY <1>1, <1>2, FS_Subset
<1> QED BY <1>3, FS_CardinalityType DEF Count

\* fwrite adds one occurrence of the record it writes.
LEMMA CountAppend ==
  ASSUME NEW s \in Seq(Records), NEW r \in Records, NEW rec
  PROVE  Count(Append(s, r), rec) = Count(s, rec) + (IF r = rec THEN 1 ELSE 0)
<1> DEFINE P == {i \in DOMAIN s : s[i] = rec}
           Q == {i \in DOMAIN Append(s, r) : Append(s, r)[i] = rec}
           e == Len(s) + 1
<1>1. IsFiniteSet(P) /\ Cardinality(P) \in Nat
  BY PlacesFinite, Zenon DEF Count
<1>2. e \notin P
  OBVIOUS
<1>3. CASE r = rec
  <2>1. Q = P \cup {e}
    BY <1>3, AppendProperties
  <2>2. Cardinality(P \cup {e}) = Cardinality(P) + 1
    <3> HIDE DEF P, e
    <3> QED BY <1>1, <1>2, FS_AddElement, Zenon
  <2> QED BY <1>3, <2>1, <2>2, Zenon DEF Count
<1>4. CASE r # rec
  <2>1. Q = P
    BY <1>4, AppendProperties
  <2> HIDE DEF P, Q
  <2>2. Count(Append(s, r), rec) = Cardinality(Q) /\ Count(s, rec) = Cardinality(P)
    BY DEF Count, P, Q
  <2> QED BY <1>1, <1>4, <2>1, <2>2
<1> QED BY <1>3, <1>4

\* A file to which a run is added has the occurrences of both.
LEMMA CountConcat ==
  ASSUME NEW s \in Seq(Records), NEW t \in Seq(Records), NEW rec
  PROVE  Count(s \o t, rec) = Count(s, rec) + Count(t, rec)
<1> DEFINE P == {i \in DOMAIN s : s[i] = rec}
           T == {i \in DOMAIN t : t[i] = rec}
           M == {i \in Len(s) + 1 .. Len(s) + Len(t) : t[i - Len(s)] = rec}
           f == [i \in T |-> i + Len(s)]
<1>1. IsFiniteSet(P) /\ Cardinality(P) \in Nat /\ IsFiniteSet(T) /\ Cardinality(T) \in Nat
  BY PlacesFinite, Zenon DEF Count
<1>2. IsFiniteSet(M) /\ Cardinality(M) = Cardinality(T)
  <2>1. f \in Injection(T, M)
    BY DEF Injection, IsInjective
  <2>2. f \in Surjection(T, M)
    <3>1. f \in [T -> M]
      OBVIOUS
    <3>2. ASSUME NEW m \in M PROVE \E i \in T : f[i] = m
      <4>1. m - Len(s) \in T /\ f[m - Len(s)] = m
        OBVIOUS
      <4> QED BY <4>1
    <3> HIDE DEF f, T, M
    <3> QED BY <3>1, <3>2 DEF Surjection
  <2>3. f \in Bijection(T, M)
    BY <2>1, <2>2 DEF Bijection
  <2> HIDE DEF f, T, M
  <2>4. ExistsBijection(T, M)
    BY <2>3 DEF ExistsBijection
  <2> QED BY <1>1, <2>4, FS_Bijection
<1>3. {i \in DOMAIN (s \o t) : (s \o t)[i] = rec} = P \cup M
  BY ConcatProperties
<1>4. P \cap M = {}
  OBVIOUS
<1>5. Cardinality(P \cup M) = Cardinality(P) + Cardinality(M)
  <2> HIDE DEF P, M
  <2>1. Cardinality(P \cup M) = Cardinality(P) + Cardinality(M) - Cardinality(P \cap M)
    BY <1>1, <1>2, FS_Union
  <2>2. Cardinality(P \cap M) = 0
    BY <1>4, FS_EmptySet, Zenon
  <2> QED BY <1>1, <1>2, <2>1, <2>2
<1>6. Count(s \o t, rec) = Cardinality(P \cup M) /\ Count(s, rec) = Cardinality(P)
        /\ Count(t, rec) = Cardinality(T)
  BY <1>3, Zenon DEF Count
<1> QED BY <1>2, <1>5, <1>6

-----------------------------------------------------------------------------
(* The temporary files *)

File == [data : Seq(Records), at : Nat]

\* fwrite adds the record to what was written in front of the position, also
\* when it overwrites a record of an earlier pass.
LEMMA WriteAppends ==
  ASSUME NEW file \in File, file.at <= Len(file.data), NEW r \in Records
  PROVE  /\ Write(file, r) \in File
         /\ Write(file, r).at = file.at + 1
         /\ Write(file, r).at <= Len(Write(file, r).data)
         /\ Len(Write(file, r).data) =
              (IF file.at = Len(file.data) THEN file.at + 1 ELSE Len(file.data))
         /\ Write(file, r).data[file.at + 1] = r
         /\ \A i \in 1 .. file.at : Write(file, r).data[i] = file.data[i]
<1> DEFINE d == Write(file, r).data
<1>1. file.data \in Seq(Records) /\ file.at \in Nat /\ Len(file.data) \in Nat
  BY DEF File
<1>2. Write(file, r).at = file.at + 1 /\ Write(file, r) \in [data : {d}, at : {file.at + 1}]
  BY DEF Write
<1>3. /\ d \in Seq(Records)
      /\ Len(d) = (IF file.at = Len(file.data) THEN file.at + 1 ELSE Len(file.data))
      /\ d[file.at + 1] = r
      /\ \A i \in 1 .. file.at : d[i] = file.data[i]
  <2>1. CASE file.at = Len(file.data)
    <3>1. d = Append(file.data, r)
      BY <2>1 DEF Write
    <3> HIDE DEF d
    <3> QED BY <1>1, <2>1, <3>1, AppendProperties
  <2>2. CASE file.at # Len(file.data)
    <3>1. d = [file.data EXCEPT ![file.at + 1] = r]
      BY <2>2 DEF Write
    <3>2. file.at + 1 \in 1 .. Len(file.data)
      BY <1>1, <2>2
    <3> HIDE DEF d
    <3> QED BY <1>1, <2>2, <3>1, <3>2, ExceptSeq
  <2> QED BY <2>1, <2>2
<1> HIDE DEF d
<1>4. Write(file, r) \in File
  BY <1>1, <1>2, <1>3 DEF File
<1> QED BY <1>1, <1>2, <1>3, <1>4 DEF d

\* The same for what is in front of the position
LEMMA WriteExtends ==
  ASSUME NEW file \in File, file.at <= Len(file.data), NEW r \in Records
  PROVE  /\ SubSeq(file.data, 1, file.at) \in Seq(Records)
         /\ SubSeq(Write(file, r).data, 1, Write(file, r).at)
              = Append(SubSeq(file.data, 1, file.at), r)
<1> DEFINE s == SubSeq(file.data, 1, file.at)
           w == Write(file, r)
           t == SubSeq(w.data, 1, w.at)
<1>1. /\ file.data \in Seq(Records) /\ file.at \in Nat /\ Len(file.data) \in Nat
      /\ w.data \in Seq(Records) /\ w.at = file.at + 1 /\ w.at <= Len(w.data)
      /\ w.data[file.at + 1] = r
      /\ \A i \in 1 .. file.at : w.data[i] = file.data[i]
  <2> HIDE DEF w
  <2>1. /\ w \in File /\ w.at = file.at + 1 /\ w.at <= Len(w.data)
        /\ w.data[file.at + 1] = r
        /\ \A i \in 1 .. file.at : w.data[i] = file.data[i]
    BY WriteAppends DEF w
  <2>2. /\ file.data \in Seq(Records) /\ file.at \in Nat /\ Len(file.data) \in Nat
        /\ w.data \in Seq(Records)
    BY <2>1 DEF File
  <2> QED BY <2>1, <2>2
<1> HIDE DEF w
<1>2. s \in Seq(Records) /\ Len(s) = file.at /\ \A i \in 1 .. file.at : s[i] = file.data[i]
  BY <1>1, SubSeqProperties
<1>3. t \in Seq(Records) /\ Len(t) = file.at + 1 /\ \A i \in 1 .. file.at + 1 : t[i] = w.data[i]
  BY <1>1, SubSeqProperties
<1> HIDE DEF s, t
<1>4. /\ Append(s, r) \in Seq(Records) /\ Len(Append(s, r)) = file.at + 1
      /\ \A i \in 1 .. file.at : Append(s, r)[i] = s[i]
      /\ Append(s, r)[file.at + 1] = r
  BY <1>2, AppendProperties
<1>5. ASSUME NEW i \in 1 .. file.at + 1 PROVE t[i] = Append(s, r)[i]
  <2>1. CASE i = file.at + 1
    BY <1>1, <1>3, <1>4, <2>1
  <2>2. CASE i \in 1 .. file.at
    BY <1>1, <1>2, <1>3, <1>4, <2>2
  <2>3. file.at \in Nat
    BY <1>1
  <2>4. i = file.at + 1 \/ i \in 1 .. file.at
    BY <2>3
  <2> QED BY <2>1, <2>2, <2>4, Zenon
<1>6. t = Append(s, r)
  BY <1>3, <1>4, <1>5, SeqEqual
<1> QED BY <1>2, <1>6, Zenon DEF s, t, w

-----------------------------------------------------------------------------
(* RunIterator *)

Iterator ==
  [start_pos : Nat, run_length : Nat, pos : Nat, buf_no : Nat,
   read_buf : [0 .. rec_per_buf - 1 -> Records \cup {Uninitialized}]]

\* The read buffer has what is in the file from the place of the last buffer on.
IteratorOK(it, data) ==
  /\ it \in Iterator
  /\ it.pos <= it.run_length
  /\ it.run_length > 0 => it.start_pos + it.run_length <= Len(data)
  /\ it.pos <= it.buf_no * rec_per_buf
  /\ it.buf_no * rec_per_buf < it.pos + rec_per_buf
  /\ it.pos > 0 =>
       \A j \in 0 .. rec_per_buf - 1 :
         it.start_pos + it.buf_no * rec_per_buf - rec_per_buf + j < Len(data) =>
           it.read_buf[j] = data[it.start_pos + it.buf_no * rec_per_buf - rec_per_buf + j + 1]

\* The pointer that kway_merge has from an iterator
PointerOK(it, pointer) ==
  /\ pointer = NULL => it.pos = it.run_length
  /\ pointer # NULL =>
       it.pos > 0 /\ pointer = it.pos - 1 + rec_per_buf - it.buf_no * rec_per_buf

\* The constructor of RunIterator
LEMMA NewRunIteratorOK ==
  ASSUME rec_per_buf \in Nat, rec_per_buf > 0,
         NEW data \in Seq(Records), NEW start \in Nat, NEW length \in Nat,
         length > 0 => start + length <= Len(data)
  PROVE  /\ IteratorOK(NewRunIterator(start, length), data)
         /\ NewRunIterator(start, length).start_pos = start
         /\ NewRunIterator(start, length).run_length = length
         /\ NewRunIterator(start, length).pos = 0
<1> DEFINE it == NewRunIterator(start, length)
<1>1. /\ it \in Iterator
      /\ it.start_pos = start /\ it.run_length = length /\ it.pos = 0 /\ it.buf_no = 0
  BY DEF NewRunIterator, Iterator
<1> HIDE DEF it
<1>2. it.buf_no * rec_per_buf = 0
  BY <1>1
<1>3. IteratorOK(it, data)
  BY <1>1, <1>2 DEF IteratorOK
<1> QED BY <1>1, <1>3 DEF it

\* The pointer is to the record of the file that the iterator came to last.
LEMMA PointedTo ==
  ASSUME rec_per_buf \in Nat, rec_per_buf > 0,
         NEW data \in Seq(Records), NEW it, IteratorOK(it, data),
         NEW pointer, PointerOK(it, pointer), pointer # NULL
  PROVE  /\ it.start_pos + it.pos \in 1 .. Len(data)
         /\ it.start_pos + it.pos <= it.start_pos + it.run_length
         /\ it.read_buf[pointer] = data[it.start_pos + it.pos]
<1> DEFINE c == it.buf_no * rec_per_buf
<1>1. /\ it.start_pos \in Nat /\ it.run_length \in Nat /\ it.pos \in Nat /\ it.buf_no \in Nat
  BY DEF IteratorOK, Iterator
<1>2. c \in Nat
  BY <1>1, Z3
<1>3. /\ it.pos > 0 /\ it.pos <= it.run_length /\ it.pos <= c /\ c < it.pos + rec_per_buf
      /\ pointer = it.pos - 1 + rec_per_buf - c
      /\ it.start_pos + it.run_length <= Len(data)
  BY <1>1 DEF IteratorOK, PointerOK
<1>4. \A j \in 0 .. rec_per_buf - 1 :
        it.start_pos + c - rec_per_buf + j < Len(data) =>
          it.read_buf[j] = data[it.start_pos + c - rec_per_buf + j + 1]
  BY <1>3 DEF IteratorOK
<1> HIDE DEF c
<1>5. pointer \in 0 .. rec_per_buf - 1 /\ Len(data) \in Nat
  BY <1>1, <1>2, <1>3
<1>6. /\ it.start_pos + c - rec_per_buf + pointer < Len(data)
      /\ it.start_pos + c - rec_per_buf + pointer + 1 = it.start_pos + it.pos
  BY <1>1, <1>2, <1>3, <1>5
<1>7. it.read_buf[pointer] = data[it.start_pos + it.pos]
  BY <1>4, <1>5, <1>6
<1> QED BY <1>1, <1>3, <1>5, <1>7

\* `has_next() ? next() : NULL` moves an iterator to its next record, and refills
\* the buffer exactly when all of it has been given.
LEMMA AdvanceOK ==
  ASSUME rec_per_buf \in Nat, rec_per_buf > 0,
         NEW data \in Seq(Records), NEW it, IteratorOK(it, data)
  PROVE  /\ IteratorOK(Advance(it, data), data)
         /\ PointerOK(Advance(it, data), Fetched(it))
         /\ Advance(it, data).start_pos = it.start_pos
         /\ Advance(it, data).run_length = it.run_length
         /\ Advance(it, data).pos = (IF Fetched(it) = NULL THEN it.pos ELSE it.pos + 1)
<1> DEFINE c == it.buf_no * rec_per_buf
           nx == Advance(it, data)
<1>1. /\ it \in Iterator
      /\ it.start_pos \in Nat /\ it.run_length \in Nat /\ it.pos \in Nat /\ it.buf_no \in Nat
      /\ it.read_buf \in [0 .. rec_per_buf - 1 -> Records \cup {Uninitialized}]
      /\ Len(data) \in Nat
  BY DEF IteratorOK, Iterator
<1>2. c \in Nat /\ (it.buf_no + 1) * rec_per_buf = c + rec_per_buf
  BY <1>1, Z3
<1>3. /\ it.pos <= it.run_length /\ it.pos <= c /\ c < it.pos + rec_per_buf
      /\ it.run_length > 0 => it.start_pos + it.run_length <= Len(data)
  BY DEF IteratorOK
<1>4. ASSUME it.pos > 0, NEW j \in 0 .. rec_per_buf - 1,
             it.start_pos + c - rec_per_buf + j < Len(data)
      PROVE  it.read_buf[j] = data[it.start_pos + c - rec_per_buf + j + 1]
  BY <1>4 DEF IteratorOK
<1>c. c = it.buf_no * rec_per_buf
  OBVIOUS
<1> HIDE DEF c
<1>5. /\ it.pos = c => it.pos % rec_per_buf = 0
      /\ it.pos # c => it.pos % rec_per_buf = it.pos + rec_per_buf - c
  <2>1. /\ it.pos \in Nat /\ it.buf_no \in Nat /\ c \in Nat
        /\ it.pos <= c /\ c < it.pos + rec_per_buf
    BY <1>1, <1>2, <1>3
  <2>2. /\ it.pos <= it.buf_no * rec_per_buf
        /\ it.buf_no * rec_per_buf < it.pos + rec_per_buf
    BY <1>c, <2>1
  <2> QED BY <1>c, <2>1, <2>2, PlaceInBuffer, Zenon
<1>6. CASE ~ has_next(it)
  <2>1. nx = it /\ Fetched(it) = NULL
    BY <1>6 DEF Advance, Fetched
  <2>2. it.pos = it.run_length
    BY <1>1, <1>3, <1>6 DEF has_next
  <2>3. PointerOK(nx, Fetched(it))
    BY <2>1, <2>2 DEF PointerOK
  <2> QED BY <2>1, <2>3
<1>7. CASE has_next(it)
  <2>1. Fetched(it) = it.pos % rec_per_buf /\ it.pos < it.run_length
    BY <1>7 DEF Fetched, has_next
  <2>2. nx = next(it, data)
    BY <1>7 DEF Advance
  <2>3. Fetched(it) # NULL
    BY <1>1, <1>2, <1>3, <1>5, <2>1 DEF NULL
  <2>4. CASE it.pos = c
    <3> DEFINE fread == [j \in 0 .. rec_per_buf - 1 |->
                          IF it.start_pos + c + j < Len(data) THEN data[it.start_pos + c + j + 1]
                                                              ELSE it.read_buf[j]]
    <3>1. Refills(it) /\ SeekPos(it) = it.start_pos + c
      BY <1>5, <1>c, <2>4 DEF Refills, SeekPos
    <3>2. nx = [it EXCEPT !.pos = @ + 1, !.buf_no = @ + 1, !.read_buf = fread]
      BY <2>2, <3>1 DEF next
    <3>3. fread \in [0 .. rec_per_buf - 1 -> Records \cup {Uninitialized}]
      <4>1. ASSUME NEW j \in 0 .. rec_per_buf - 1, it.start_pos + c + j < Len(data)
            PROVE  data[it.start_pos + c + j + 1] \in Records
        <5>1. it.start_pos + c + j + 1 \in 1 .. Len(data)
          BY <1>1, <1>2, <4>1
        <5> QED BY <5>1, ElementOfSeq
      <4> QED BY <1>1, <4>1
    <3>f. \A j \in 0 .. rec_per_buf - 1 :
            it.start_pos + c + j < Len(data) => fread[j] = data[it.start_pos + c + j + 1]
      OBVIOUS
    <3> HIDE DEF fread, nx
    <3>4. /\ nx \in Iterator
          /\ nx.start_pos = it.start_pos /\ nx.run_length = it.run_length
          /\ nx.pos = it.pos + 1 /\ nx.buf_no = it.buf_no + 1 /\ nx.read_buf = fread
      <4>1. /\ nx.start_pos = it.start_pos /\ nx.run_length = it.run_length
            /\ nx.pos = it.pos + 1 /\ nx.buf_no = it.buf_no + 1 /\ nx.read_buf = fread
        BY <1>1, <3>2 DEF Iterator
      <4>2. it.pos + 1 \in Nat /\ it.buf_no + 1 \in Nat
        BY <1>1
      <4>3. nx \in Iterator
        BY <1>1, <3>2, <3>3, <4>2 DEF Iterator
      <4> QED BY <4>1, <4>3
    <3>5. nx.buf_no * rec_per_buf = c + rec_per_buf
      BY <1>2, <3>4
    <3>6. ASSUME NEW j \in 0 .. rec_per_buf - 1,
                 nx.start_pos + nx.buf_no * rec_per_buf - rec_per_buf + j < Len(data)
          PROVE  nx.read_buf[j]
                   = data[nx.start_pos + nx.buf_no * rec_per_buf - rec_per_buf + j + 1]
      <4>1. nx.start_pos + nx.buf_no * rec_per_buf - rec_per_buf + j = it.start_pos + c + j
        BY <1>1, <1>2, <3>4, <3>5
      <4> QED BY <3>4, <3>6, <3>f, <4>1
    <3>7. IteratorOK(nx, data)
      BY <1>1, <1>2, <1>3, <2>1, <2>4, <3>4, <3>5, <3>6 DEF IteratorOK
    <3>8. PointerOK(nx, Fetched(it))
      BY <1>1, <1>2, <1>5, <2>1, <2>3, <2>4, <3>4, <3>5 DEF PointerOK
    <3> QED BY <2>3, <3>4, <3>7, <3>8 DEF nx
  <2>5. CASE it.pos # c
    <3>1. ~ Refills(it)
      BY <1>1, <1>2, <1>3, <1>5, <2>5 DEF Refills
    <3>2. nx = [it EXCEPT !.pos = @ + 1]
      BY <1>1, <2>2, <3>1, Zenon DEF next, Iterator
    <3>3. /\ nx \in Iterator
          /\ nx.start_pos = it.start_pos /\ nx.run_length = it.run_length
          /\ nx.pos = it.pos + 1 /\ nx.buf_no = it.buf_no /\ nx.read_buf = it.read_buf
      BY <1>1, <3>2 DEF Iterator
    <3>4. it.pos > 0
      <4>1. 0 % rec_per_buf = 0
        BY Z3
      <4> QED BY <1>1, <1>2, <1>3, <1>5, <2>5, <4>1
    <3> HIDE DEF nx
    <3>5. nx.buf_no * rec_per_buf = c
      BY <1>c, <3>3
    <3>6. ASSUME NEW j \in 0 .. rec_per_buf - 1,
                 nx.start_pos + nx.buf_no * rec_per_buf - rec_per_buf + j < Len(data)
          PROVE  nx.read_buf[j]
                   = data[nx.start_pos + nx.buf_no * rec_per_buf - rec_per_buf + j + 1]
      BY <1>4, <3>3, <3>4, <3>5, <3>6
    <3>7. IteratorOK(nx, data)
      BY <1>1, <1>2, <1>3, <2>1, <2>5, <3>3, <3>5, <3>6 DEF IteratorOK
    <3>8. PointerOK(nx, Fetched(it))
      BY <1>1, <1>2, <1>5, <2>1, <2>3, <2>5, <3>3, <3>5 DEF PointerOK
    <3> QED BY <2>3, <3>3, <3>7, <3>8 DEF nx
  <2> QED BY <2>4, <2>5
<1> QED BY <1>6, <1>7

-----------------------------------------------------------------------------
(* The runs of a group *)

\* What is left of x records after i runs of m
Rest(x, i, m) == IF i * m <= x THEN x - i * m ELSE 0

\* One round of the loop takes a run from what is left.
LEMMA RestStep ==
  ASSUME NEW x \in Nat, NEW i \in Nat, NEW m \in Nat, i > 0
  PROVE  /\ Rest(x, i, m) \in Nat /\ Rest(x, i - 1, m) \in Nat
         /\ Rest(x, i, m) = (IF Rest(x, i - 1, m) < m THEN 0 ELSE Rest(x, i - 1, m) - m)
<1> DEFINE c == (i - 1) * m
<1>1. c \in Nat /\ i * m = c + m /\ i - 1 \in Nat
  BY Z3
<1> HIDE DEF c
<1>2. Rest(x, i - 1, m) = (IF c <= x THEN x - c ELSE 0)
  BY DEF Rest, c
<1>3. Rest(x, i, m) = (IF c + m <= x THEN x - (c + m) ELSE 0)
  BY <1>1 DEF Rest
<1> QED BY <1>1, <1>2, <1>3

\* `unprocessed` in each round of the loop that makes the iterators
LEMMA UnprocessedIs ==
  ASSUME unprocessed \in Nat, n \in Nat, k \in Nat
  PROVE  \A i \in 0 .. k : Unprocessed[i] = Rest(unprocessed, i, n)
<1> DEFINE Step(f, i) ==
             IF i = 0 THEN unprocessed ELSE IF f[i - 1] < n THEN 0 ELSE f[i - 1] - n
           Solves(f) == f = [i \in 0 .. k |-> Step(f, i)]
           rest == [i \in 0 .. k |-> Rest(unprocessed, i, n)]
<1>1. Rest(unprocessed, 0, n) = unprocessed
  <2>1. 0 * n = 0
    OBVIOUS
  <2> QED BY <2>1 DEF Rest
<1>2. Solves(rest)
  <2> SUFFICES ASSUME NEW i \in 0 .. k PROVE Rest(unprocessed, i, n) = Step(rest, i)
    OBVIOUS
  <2>1. CASE i = 0
    BY <1>1, <2>1
  <2>2. CASE i # 0
    <3>1. i \in Nat /\ i > 0 /\ i - 1 \in 0 .. k
      BY <2>2
    <3>2. rest[i - 1] = Rest(unprocessed, i - 1, n)
      BY <3>1
    <3> HIDE DEF rest
    <3> QED BY <2>2, <3>1, <3>2, RestStep
  <2> QED BY <2>1, <2>2
<1>3. Unprocessed = CHOOSE f : Solves(f)
  BY DEF Unprocessed
<1> HIDE DEF Solves, rest
<1>4. Solves(Unprocessed)
  BY <1>2, <1>3
<1>5. \A i \in 0 .. k : Unprocessed[i] = Step(Unprocessed, i)
  BY <1>4 DEF Solves
<1> DEFINE bad == {i \in Nat : i \in 0 .. k /\ Unprocessed[i] # Rest(unprocessed, i, n)}
<1>6. ASSUME bad # {} PROVE FALSE
  <2>1. PICK i \in bad : \A j \in bad : i <= j
    <3>1. bad \subseteq Nat
      OBVIOUS
    <3> HIDE DEF bad
    <3> QED BY <1>6, <3>1, LeastElement, Zenon
  <2>2. i \in 0 .. k /\ i \in Nat /\ Unprocessed[i] # Rest(unprocessed, i, n)
    OBVIOUS
  <2>3. i # 0
    BY <1>1, <1>5, <2>2
  <2>4. i - 1 \in 0 .. k /\ i - 1 \in Nat /\ i - 1 \notin bad /\ i > 0
    BY <2>1, <2>2, <2>3
  <2>5. Unprocessed[i - 1] = Rest(unprocessed, i - 1, n)
    BY <2>4
  <2>6. Unprocessed[i] = Step(Unprocessed, i)
    BY <1>5, <2>2
  <2> DEFINE r == Rest(unprocessed, i - 1, n)
  <2>7. Rest(unprocessed, i, n) = (IF r < n THEN 0 ELSE r - n)
    BY <2>2, <2>4, RestStep
  <2>8. Unprocessed[i] = (IF r < n THEN 0 ELSE r - n)
    BY <2>3, <2>5, <2>6
  <2> QED BY <2>2, <2>7, <2>8
<1> QED BY <1>6

\* `length` is the shorter of n and what is left.
LEMMA LengthIs ==
  ASSUME NEW left \in Nat, n \in Nat, n > 0
  PROVE  Length(left) = (IF left < n THEN left ELSE n)
<1>1. left < n => left % n = left
  BY Z3
<1> QED BY <1>1 DEF Length

-----------------------------------------------------------------------------
(* The least record *)

\* The loop of kway_merge over the records in buf finds one that none is less than.
LEMMA LeastHeld ==
  ASSUME k \in Nat, Holding # {}, \A i \in Holding : Held(i) \in Records
  PROVE  min_idx \in Holding /\ \A j \in Holding : Compare(Held(min_idx), Held(j)) <= 0
<1> DEFINE C(i, j) == Compare(Held(i), Held(j))
           S(m) == {i \in Holding : i < m}
           Least(T, i) == \A j \in T : C(i, j) <= 0
<1>1. /\ \A i, j \in Holding : C(i, j) \in Int /\ (C(i, j) < 0 <=> C(j, i) > 0)
      /\ \A i, j, l \in Holding : C(i, j) <= 0 /\ C(j, l) <= 0 => C(i, l) <= 0
  BY CompareAssumption
<1>h. Holding \subseteq 0 .. k - 1 /\ Holding \subseteq Nat
  BY DEF Holding
<1> DEFINE bad == {m \in Nat : S(m) # {} /\ ~ \E i \in S(m) : Least(S(m), i)}
<1>c. min_idx = CHOOSE i \in Holding : \A j \in Holding :
                  IF j < i THEN C(i, j) < 0 ELSE ~ (C(j, i) < 0)
  BY DEF min_idx, rec_cmp
<1> HIDE DEF C
<1>2. ASSUME bad # {} PROVE FALSE
  <2>1. PICK m \in bad : \A j \in bad : m <= j
    <3>1. bad \subseteq Nat
      OBVIOUS
    <3> HIDE DEF bad
    <3> QED BY <1>2, <3>1, LeastElement, Zenon
  <2>2. m \in Nat /\ S(m) # {} /\ ~ \E i \in S(m) : Least(S(m), i)
    OBVIOUS
  <2>3. m > 0
    <3>1. PICK i \in S(m) : TRUE
      BY <2>2
    <3>2. i \in Nat /\ i < m
      BY <1>h, <3>1
    <3> QED BY <2>2, <3>2
  <2>4. m - 1 \in Nat /\ m - 1 \notin bad
    BY <2>1, <2>2, <2>3
  <2>5. \A i \in Holding : i < m <=> (i < m - 1 \/ i = m - 1)
    BY <1>h, <2>2
  <2>6. CASE S(m - 1) = {}
    <3>1. m - 1 \in Holding /\ \A i \in S(m) : i = m - 1
      BY <2>2, <2>5, <2>6
    <3>2. C(m - 1, m - 1) <= 0
      BY <1>1, <3>1
    <3> QED BY <2>2, <2>5, <3>1, <3>2
  <2>7. CASE S(m - 1) # {}
    <3>1. PICK i \in S(m - 1) : Least(S(m - 1), i)
      BY <2>4, <2>7
    <3>2. i \in Holding /\ i \in S(m)
      BY <2>5
    <3>3. CASE m - 1 \notin Holding \/ C(i, m - 1) <= 0
      <4>1. Least(S(m), i)
        BY <2>5, <3>1, <3>3
      <4> QED BY <2>2, <3>2, <4>1
    <3>4. CASE m - 1 \in Holding /\ ~ (C(i, m - 1) <= 0)
      <4>1. C(m - 1, i) <= 0 /\ C(m - 1, m - 1) <= 0
        BY <1>1, <3>2, <3>4
      <4>2. ASSUME NEW j \in S(m) PROVE C(m - 1, j) <= 0
        <5>1. CASE j = m - 1
          BY <4>1, <5>1
        <5>2. CASE j < m - 1
          <6>1. C(i, j) <= 0 /\ j \in Holding
            BY <3>1, <5>2
          <6> QED BY <1>1, <3>2, <3>4, <4>1, <6>1
        <5> QED BY <2>5, <5>1, <5>2
      <4>3. m - 1 \in S(m)
        BY <2>5, <3>4
      <4> QED BY <2>2, <4>2, <4>3
    <3> QED BY <3>3, <3>4
  <2> QED BY <2>6, <2>7
<1>3. S(k) = Holding
  <2>1. ASSUME NEW i \in Holding PROVE i < k
    BY <1>h
  <2> QED BY <2>1
<1>4. \E i \in Holding : Least(Holding, i)
  <2>1. k \notin bad
    BY <1>2
  <2> QED BY <1>3, <2>1
<1> DEFINE M == {i \in Holding : Least(Holding, i)}
<1>5. PICK i \in M : \A j \in M : i <= j
  <2>1. M \subseteq Nat /\ M # {}
    BY <1>4, <1>h, Zenon
  <2> HIDE DEF M
  <2> QED BY <2>1, LeastElement, Zenon
<1>6. ASSUME NEW j \in Holding PROVE IF j < i THEN C(i, j) < 0 ELSE ~ (C(j, i) < 0)
  <2>1. C(i, j) <= 0 /\ i \in Holding
    BY <1>5
  <2>2. CASE j < i
    <3>1. j \notin M /\ i \in Nat /\ j \in Nat
      BY <1>5, <1>h, <2>1, <2>2
    <3>2. PICK l \in Holding : ~ (C(j, l) <= 0)
      BY <3>1
    <3>3. C(i, l) <= 0
      BY <1>5
    <3>4. ASSUME ~ (C(i, j) < 0) PROVE FALSE
      <4>1. C(j, i) <= 0
        BY <1>1, <2>1, <3>4
      <4> QED BY <1>1, <2>1, <3>2, <3>3, <4>1
    <3> QED BY <2>2, <3>4
  <2>3. CASE ~ (j < i)
    BY <1>1, <2>1, <2>3
  <2> QED BY <2>2, <2>3
<1> DEFINE W(x) == \A j \in Holding : IF j < x THEN C(x, j) < 0 ELSE ~ (C(j, x) < 0)
<1>7. i \in Holding /\ W(i)
  BY <1>6
<1>d. min_idx = CHOOSE x \in Holding : W(x)
  BY <1>c
<1> HIDE DEF W
<1>8. min_idx \in Holding /\ W(min_idx)
  BY <1>7, <1>d
<1>9. ASSUME NEW j \in Holding PROVE C(min_idx, j) <= 0
  BY <1>1, <1>8 DEF W
<1> QED BY <1>8, <1>9 DEF C

-----------------------------------------------------------------------------
(* The inductive invariant *)

\* The length of the i-th of the runs of m that x records are cut into
RunLength(x, i, m) == IF Rest(x, i, m) < m THEN Rest(x, i, m) ELSE m

ArgumentsFixed ==
  \E a \in Arguments :
    input \in [1 .. a.size -> Records] /\ mem_capacity = a.mem_capacity /\ k = a.k

\* In mk_runs: full runs, and the last one
RunsInv ==
  /\ tmp_in = [data |-> <<>>, at |-> 0]
  /\ in_at \in 0 .. Len(input)
  /\ tmp_out.at = in_at /\ Len(tmp_out.data) = in_at /\ num_records = in_at
  /\ Permutes(tmp_out.data, SubSeq(input, 1, in_at))
  /\ run_length = 0 => in_at = 0
  /\ run_length > 0 => /\ in_at = Len(input) \/ in_at % run_length = 0
                       /\ SegmentsSorted(tmp_out.data, run_length)

\* In the loop over n
PassInv ==
  /\ n \in Nat
  /\ num_records = Len(tmp_in.data)
  /\ Len(tmp_out.data) <= num_records
  /\ run_length = 0 => num_records = 0
  /\ run_length > 0 => /\ num_records = Len(input) /\ n > 0
                       /\ Permutes(tmp_in.data, input)
                       /\ SegmentsSorted(tmp_in.data, n)

\* In the loop over offset
GroupInv ==
  /\ run_length > 0
  /\ n < Len(input) * k
  /\ offset \in Nat /\ offset % (n * k) = 0
  /\ SegmentsSorted(Written, n * k)
  /\ Conserved

BetweenGroups ==
  /\ tmp_out.at = (IF offset <= Len(input) THEN offset ELSE Len(input))
  /\ unprocessed = (IF offset <= Len(input) THEN Len(input) - offset ELSE 0)

\* In kway_merge: the iterators are at the runs of the group, and nothing that
\* they still have to give is less than what the group has written.
IteratorsInv ==
  /\ iterators \in [0 .. k - 1 -> Iterator]
  /\ buf \in [0 .. k - 1 -> Int]
  /\ \A i \in 0 .. k - 1 :
       /\ IteratorOK(iterators[i], tmp_in.data) /\ PointerOK(iterators[i], buf[i])
       /\ iterators[i].start_pos = offset + i * n
       /\ iterators[i].run_length = RunLength(Len(input) - offset, i, n)

MergeInv ==
  /\ rec_per_buf > 0
  /\ offset < Len(input)
  /\ unprocessed = Rest(Len(input) - offset, k, n)
  /\ tmp_out.at >= offset
  /\ tmp_out.at + Cardinality(ToMerge) = Len(input)
  /\ IteratorsInv
  /\ \A w \in offset + 1 .. tmp_out.at : \A i \in 0 .. k - 1 : \A p \in Pending(i) :
       Compare(tmp_out.data[w], tmp_in.data[p]) <= 0

IInv ==
  /\ ArgumentsFixed
  /\ tmp_in \in File /\ tmp_out \in File /\ tmp_out.at <= Len(tmp_out.data)
  /\ pc \in {"mk_runs", "pass", "group", "merge", "done", "exit"}
  /\ pc = "mk_runs" => RunsInv
  /\ pc \in {"pass", "group", "merge"} => PassInv
  /\ pc = "pass" => tmp_out.at = 0
  /\ pc \in {"group", "merge"} => GroupInv
  /\ pc = "group" => BetweenGroups
  /\ pc = "merge" => MergeInv
  /\ OutputSorted

-----------------------------------------------------------------------------
(* What follows from the arguments *)

\* A quotient is not more than the dividend.
LEMMA QuotientSmall ==
  ASSUME NEW a \in Nat, NEW b \in Nat, b > 0
  PROVE  a \div b \in 0 .. a
<1>1. a \div b \in Nat /\ b * (a \div b) <= a
  BY QuotientBounds
<1> DEFINE d == a \div b
<1> HIDE DEF d
<1>2. d \in Nat => d <= b * d
  BY Z3
<1> QED BY <1>1, <1>2 DEF d

\* The ints computed from the arguments, while they do not overflow
LEMMA ArgumentFacts ==
  ASSUME ArgumentsFixed, NoOverflow
  PROVE  /\ input \in Seq(Records) /\ Len(input) \in Nat
         /\ k \in Nat /\ k >= 2
         /\ run_length \in Nat /\ ToInt(run_length) = run_length
         /\ rec_per_buf \in Nat
         /\ \A x \in 0 .. Len(input) * k * k + Len(input) : ToInt(x) = x
<1>1. PICK a \in Arguments :
        input \in [1 .. a.size -> Records] /\ mem_capacity = a.mem_capacity /\ k = a.k
  BY DEF ArgumentsFixed
<1>2. /\ a.size \in Nat /\ a.mem_capacity \in Nat /\ a.k \in Nat /\ a.k >= 2
  BY ArgumentAssumption
<1>3. /\ \A x \in 0 .. a.mem_capacity : ToInt(x) = x
      /\ \A x \in 0 .. a.size * a.k * a.k + a.size : ToInt(x) = x
  BY DEF NoOverflow
<1>4. input \in Seq(Records) /\ Len(input) = a.size
  BY <1>1, <1>2
<1>5. mem_capacity \in Nat /\ k \in Nat /\ k >= 2 /\ record_size \in Nat /\ record_size > 0
  BY <1>1, <1>2, SizeAssumption
<1>6. run_length \in 0 .. mem_capacity
  BY <1>5, QuotientSmall DEF run_length
<1>7. mem_capacity \div (k + 1) \in 0 .. mem_capacity
  <2>1. k + 1 \in Nat /\ k + 1 > 0
    BY <1>5
  <2> QED BY <1>5, <2>1, QuotientSmall
<1>8. buf_size \in Nat
  BY <1>1, <1>3, <1>5, <1>7 DEF buf_size
<1>9. rec_per_buf \in Nat
  BY <1>5, <1>8, QuotientSmall DEF rec_per_buf
<1>10. ToInt(run_length) = run_length /\ run_length \in Nat
  BY <1>1, <1>3, <1>5, <1>6
<1> QED BY <1>1, <1>2, <1>3, <1>4, <1>5, <1>9, <1>10

\* Multiples of the length of a segment, as the code finds them and as a product
LEMMA MultipleOf ==
  ASSUME NEW a \in Nat, NEW b \in Nat, b > 0
  PROVE  a % b = 0 => a \div b \in Nat /\ a = (a \div b) * b
<1>1. a % b = a - b * (a \div b) /\ a \div b \in Nat
  BY Z3
<1> DEFINE d == a \div b
<1> HIDE DEF d
<1>2. d \in Nat => b * d = d * b /\ b * d \in Nat
  BY Z3
<1> QED BY <1>1, <1>2 DEF d

\* The next group begins at a multiple of its length again.
LEMMA NextMultiple ==
  ASSUME NEW a \in Nat, NEW b \in Nat, b > 0, a % b = 0
  PROVE  (a + b) % b = 0
<1> DEFINE q == a \div b
<1>1. q \in Nat /\ a = q * b
  BY MultipleOf
<1> HIDE DEF q
<1>2. q + 1 \in Nat /\ a + b = (q + 1) * b
  BY <1>1, Z3
<1> QED BY <1>2, PlaceInBuffer

\* The places of the i-th run of a group that begins after place o
LEMMA RunOf ==
  ASSUME NEW o \in Nat, NEW x \in Nat, NEW m \in Nat, m > 0, NEW i \in Nat, NEW p \in Int
  PROVE  /\ RunLength(x, i, m) \in Nat
         /\ RunLength(x, i, m) > 0 => (o + i * m) + RunLength(x, i, m) <= o + x
         /\ p \in (o + i * m) + 1 .. (o + i * m) + RunLength(x, i, m)
              <=> p \in o + 1 .. o + x /\ (p - 1 - o) \div m = i
<1> DEFINE c == i * m
           l == RunLength(x, i, m)
<1>1. c \in Nat
  BY Z3
<1>2. l = (IF c <= x THEN IF x - c < m THEN x - c ELSE m ELSE 0)
  <2>1. 0 < m
    OBVIOUS
  <2> QED BY <2>1 DEF RunLength, Rest
<1>3. ASSUME p - 1 - o \in Nat
      PROVE  (p - 1 - o) \div m = i <=> (c <= p - 1 - o /\ p - 1 - o < c + m)
  BY <1>3, SegmentOf
<1> DEFINE d == (p - 1 - o) \div m
<1> HIDE DEF c, l, d
<1>4. l \in Nat /\ (l > 0 => (o + c) + l <= o + x)
  BY <1>1, <1>2
<1>5. CASE p - 1 - o \in Nat
  <2>1. d = i <=> (c <= p - 1 - o /\ p - 1 - o < c + m)
    BY <1>3, <1>5 DEF d
  <2>2. p \in (o + c) + 1 .. (o + c) + l <=> p \in o + 1 .. o + x /\ d = i
    BY <1>1, <1>2, <1>4, <1>5, <2>1
  <2> QED BY <1>4, <2>2 DEF c, l, d
<1>6. CASE p - 1 - o \notin Nat
  <2>1. p \notin o + 1 .. o + x /\ p \notin (o + c) + 1 .. (o + c) + l
    BY <1>1, <1>4, <1>6
  <2> QED BY <1>4, <2>1 DEF c, l
<1> QED BY <1>5, <1>6

-----------------------------------------------------------------------------
(* mk_runs *)

\* The arguments do not change.
LEMMA ArgumentsKept ==
  ASSUME ArgumentsFixed, UNCHANGED args
  PROVE  /\ ArgumentsFixed' /\ input' = input /\ k' = k
         /\ run_length' = run_length /\ rec_per_buf' = rec_per_buf
BY DEF ArgumentsFixed, args, run_length, rec_per_buf, buf_size, ToInt

\* What qsort leaves in memory
LEMMA QsortRun ==
  ASSUME NEW s \in Seq(Records), NEW run \in Qsort(s)
  PROVE  run \in Seq(Records) /\ Len(run) = Len(s) /\ Sorted(run) /\ Permutes(s, run)
<1>1. run \in [1 .. Len(s) -> Records] /\ Sorted(run) /\ Permutes(s, run) /\ Len(s) \in Nat
  BY DEF Qsort
<1> QED BY <1>1

\* A sorted run after full segments
LEMMA SegmentsConcat ==
  ASSUME NEW s \in Seq(Records), NEW t \in Seq(Records), NEW m \in Nat, m > 0,
         Len(s) % m = 0, SegmentsSorted(s, m), Sorted(t)
  PROVE  SegmentsSorted(s \o t, m)
<1> DEFINE u == s \o t
           a == Len(s)
           q == a \div m
<1>1. /\ u \in Seq(Records) /\ Len(u) = Len(s) + Len(t) /\ a \in Nat /\ Len(t) \in Nat
      /\ \A i \in 1 .. a + Len(t) : u[i] = IF i <= a THEN s[i] ELSE t[i - a]
  BY ConcatProperties
<1>2. q \in Nat /\ a = q * m
  BY MultipleOf
<1> HIDE DEF u, a, q
<1>d. DOMAIN u = 1 .. a + Len(t)
  BY <1>1 DEF a
<1>s. SUFFICES SegmentsSorted(u, m)
  BY DEF u
<1>3. SUFFICES ASSUME NEW i \in 1 .. a + Len(t), NEW j \in 1 .. a + Len(t), i < j,
                      (i - 1) \div m = (j - 1) \div m
               PROVE  Compare(u[i], u[j]) <= 0
  BY <1>d DEF SegmentsSorted
<1>4. CASE j <= a
  <2>1. u[i] = s[i] /\ u[j] = s[j] /\ i \in DOMAIN s /\ j \in DOMAIN s
    BY <1>1, <1>3, <1>4 DEF a
  <2> QED BY <1>3, <2>1 DEF SegmentsSorted
<1>5. CASE i > a
  <2>1. /\ u[i] = t[i - a] /\ u[j] = t[j - a] /\ i - a < j - a
        /\ i - a \in DOMAIN t /\ j - a \in DOMAIN t
    BY <1>1, <1>3, <1>5
  <2> QED BY <2>1 DEF Sorted
<1>6. CASE i <= a /\ a < j
  <2>1. i - 1 \in Nat /\ j - 1 \in Nat /\ q * m <= j - 1 /\ ~ (q * m <= i - 1)
    BY <1>1, <1>2, <1>6
  <2>2. /\ (i - 1) \div m \in Nat /\ (q * m <= i - 1 <=> q <= (i - 1) \div m)
        /\ (j - 1) \div m \in Nat /\ (q * m <= j - 1 <=> q <= (j - 1) \div m)
    BY <1>2, <2>1, SegmentAfter
  <2> QED BY <1>3, <2>1, <2>2
<1> QED BY <1>1, <1>4, <1>5, <1>6

\* msort starts with nothing read and nothing written.
LEMMA InitInv ==
  ASSUME Init, NoOverflow
  PROVE  IInv
<1>1. ArgumentsFixed
  BY DEF Init, ArgumentsFixed
<1>2. input \in Seq(Records) /\ Len(input) \in Nat /\ run_length \in Nat
  BY <1>1, ArgumentFacts
<1>3. /\ pc = "mk_runs" /\ in_at = 0 /\ num_records = 0
      /\ tmp_in = [data |-> <<>>, at |-> 0] /\ tmp_out = [data |-> <<>>, at |-> 0]
  BY DEF Init
<1>4. tmp_in \in File /\ tmp_out \in File /\ tmp_out.at <= Len(tmp_out.data)
  BY <1>3, EmptySeq DEF File
<1>5. Permutes(tmp_out.data, SubSeq(input, 1, in_at))
  <2>1. SubSeq(input, 1, 0) = <<>>
    BY SubSeqEmpty
  <2> QED BY <1>3, <2>1, Zenon DEF Permutes
<1>6. SegmentsSorted(tmp_out.data, run_length)
  BY <1>3 DEF SegmentsSorted
<1>7. run_length > 0 => 0 % run_length = 0
  BY <1>2, Z3
<1>8. RunsInv
  BY <1>2, <1>3, <1>5, <1>6, <1>7 DEF RunsInv
<1> QED BY <1>1, <1>3, <1>4, <1>8 DEF IInv, OutputSorted

\* mk_runs adds a sorted run with the records it has read, after full runs.
LEMMA MakeRunInv ==
  ASSUME IInv, NoOverflow, MakeRun
  PROVE  IInv'
<1> DEFINE left == Len(input) - in_at
           rd == IF left < run_length THEN left ELSE run_length
           seg == SubSeq(input, in_at + 1, in_at + rd)
<1>1. /\ ArgumentsFixed /\ tmp_in \in File /\ tmp_out \in File
      /\ pc = "mk_runs" /\ RunsInv
  BY DEF IInv, MakeRun
<1>2. /\ input \in Seq(Records) /\ Len(input) \in Nat /\ run_length \in Nat
      /\ k \in Nat /\ k >= 2
      /\ \A x \in 0 .. Len(input) * k * k + Len(input) : ToInt(x) = x
  BY <1>1, ArgumentFacts
<1>3. /\ in_at \in Nat /\ in_at <= Len(input)
      /\ tmp_out.data \in Seq(Records) /\ Len(tmp_out.data) = in_at /\ tmp_out.at = in_at
      /\ num_records = in_at
  BY <1>1, <1>2 DEF RunsInv, File
<1>4. /\ rd # 0 /\ in_at' = in_at + rd /\ num_records' = ToInt(num_records + rd)
      /\ UNCHANGED <<args, pc, tmp_in>>
      /\ \E run \in Qsort(seg) : tmp_out' = [data |-> tmp_out.data \o run, at |-> tmp_out.at + rd]
  BY Zenon DEF MakeRun
<1>5. rd \in Nat /\ rd > 0 /\ rd <= run_length /\ in_at + rd <= Len(input) /\ run_length > 0
  BY <1>2, <1>3, <1>4
<1>6. rd = run_length \/ in_at + rd = Len(input)
  BY <1>2, <1>3
<1> HIDE DEF rd, left
<1>7. seg \in Seq(Records) /\ Len(seg) = rd
  BY <1>2, <1>3, <1>5, SubSeqProperties
<1>8. PICK run \in Qsort(seg) : tmp_out' = [data |-> tmp_out.data \o run, at |-> tmp_out.at + rd]
  BY <1>4, Zenon
<1>9. run \in Seq(Records) /\ Len(run) = rd /\ Sorted(run) /\ Permutes(seg, run)
  BY <1>7, QsortRun, Zenon
<1>10. tmp_out'.data = tmp_out.data \o run /\ tmp_out'.at = in_at + rd
  BY <1>3, <1>8
<1>11. tmp_out.data \o run \in Seq(Records) /\ Len(tmp_out.data \o run) = in_at + rd
  BY <1>3, <1>9, ConcatProperties, Zenon
<1>12. in_at % run_length = 0 /\ SegmentsSorted(tmp_out.data, run_length)
  BY <1>1, <1>3, <1>5 DEF RunsInv
<1>13. SegmentsSorted(tmp_out.data \o run, run_length)
  BY <1>2, <1>3, <1>5, <1>9, <1>12, SegmentsConcat
<1>14. in_at + rd = Len(input) \/ (in_at + rd) % run_length = 0
  <2>1. (in_at + run_length) % run_length = 0
    BY <1>2, <1>3, <1>5, <1>12, NextMultiple, Zenon
  <2> QED BY <1>6, <2>1
<1>15. Permutes(tmp_out.data \o run, SubSeq(input, 1, in_at + rd))
  <2> DEFINE before == SubSeq(input, 1, in_at)
  <2>1. before \in Seq(Records)
    BY <1>2, <1>3, SubSeqProperties
  <2>2. before \o seg = SubSeq(input, 1, in_at + rd)
    <3>1. /\ 1 \in 1 .. Len(input) + 1 /\ in_at \in 1 - 1 .. Len(input)
          /\ in_at + rd \in in_at .. Len(input)
      BY <1>2, <1>3, <1>5
    <3> QED BY <1>2, <3>1, ConcatAdjacentSubSeq, Zenon
  <2>3. Permutes(tmp_out.data, before)
    BY <1>1 DEF RunsInv
  <2> HIDE DEF before, seg
  <2>4. SUFFICES ASSUME NEW rec \in Records
                 PROVE  Count(tmp_out.data \o run, rec) = Count(before \o seg, rec)
    BY <2>2 DEF Permutes
  <2>5. Count(tmp_out.data, rec) = Count(before, rec) /\ Count(seg, rec) = Count(run, rec)
    BY <1>9, <2>3 DEF Permutes
  <2>6. Count(tmp_out.data \o run, rec) = Count(tmp_out.data, rec) + Count(run, rec)
    BY <1>3, <1>9, CountConcat
  <2>7. Count(before \o seg, rec) = Count(before, rec) + Count(seg, rec)
    BY <1>7, <2>1, CountConcat
  <2> QED BY <2>5, <2>6, <2>7
<1>16. num_records' = in_at + rd
  <2>1. Len(input) * k * k \in Nat
    BY <1>2, Z3
  <2>2. in_at + rd \in 0 .. Len(input) * k * k + Len(input)
    BY <1>2, <1>3, <1>5, <2>1
  <2> QED BY <1>2, <1>3, <1>4, <2>2
<1>17. ArgumentsFixed' /\ input' = input /\ run_length' = run_length
  BY <1>1, <1>4, ArgumentsKept
<1>18. RunsInv'
  <2>1. tmp_in' = [data |-> <<>>, at |-> 0]
    BY <1>1, <1>4 DEF RunsInv
  <2>2. in_at' = in_at + rd /\ in_at + rd \in 0 .. Len(input)
    BY <1>2, <1>3, <1>4, <1>5
  <2> QED BY <1>5, <1>10, <1>11, <1>13, <1>14, <1>15, <1>16, <1>17, <2>1, <2>2 DEF RunsInv
<1>19. tmp_out' \in File /\ tmp_out'.at <= Len(tmp_out'.data)
  BY <1>3, <1>5, <1>8, <1>10, <1>11 DEF File
<1>20. pc' = "mk_runs" /\ tmp_in' \in File
  BY <1>1, <1>4
<1> QED BY <1>17, <1>18, <1>19, <1>20 DEF IInv, OutputSorted

\* When mk_runs has read the file, all of it is in runs of run_length records.
LEMMA RunsMadeInv ==
  ASSUME IInv, NoOverflow, RunsMade
  PROVE  IInv'
<1>1. /\ ArgumentsFixed /\ tmp_in \in File /\ tmp_out \in File /\ RunsInv
      /\ in_at = Len(input) \/ run_length = 0
      /\ tmp_in' = tmp_out /\ tmp_out' = tmp_in /\ n' = ToInt(run_length) /\ pc' = "pass"
      /\ UNCHANGED <<args, num_records>>
  BY DEF IInv, RunsMade
<1>2. /\ input \in Seq(Records) /\ Len(input) \in Nat
      /\ run_length \in Nat /\ ToInt(run_length) = run_length
  BY <1>1, ArgumentFacts
<1>3. ArgumentsFixed' /\ input' = input /\ run_length' = run_length
  BY <1>1, ArgumentsKept
<1>4. tmp_out'.at = 0 /\ Len(tmp_out'.data) = 0
  BY <1>1, EmptySeq DEF RunsInv
<1>5. num_records' = Len(tmp_in'.data) /\ num_records' = in_at /\ in_at \in Nat
  BY <1>1, <1>2 DEF RunsInv
<1>6. run_length = 0 => num_records' = 0
  BY <1>1, <1>5 DEF RunsInv
<1>7. ASSUME run_length > 0
      PROVE  /\ num_records' = Len(input) /\ Permutes(tmp_in'.data, input)
             /\ SegmentsSorted(tmp_in'.data, run_length)
  <2>1. in_at = Len(input)
    BY <1>1, <1>7
  <2>2. SubSeq(input, 1, Len(input)) = input
    BY <1>2, SubSeqFull
  <2>3. Permutes(tmp_out.data, SubSeq(input, 1, in_at)) /\ SegmentsSorted(tmp_out.data, run_length)
    BY <1>1, <1>7 DEF RunsInv
  <2> QED BY <1>1, <1>5, <2>1, <2>2, <2>3, Zenon
<1>8. PassInv'
  BY <1>1, <1>2, <1>3, <1>4, <1>5, <1>6, <1>7 DEF PassInv
<1>9. tmp_in' \in File /\ tmp_out' \in File /\ tmp_out'.at <= Len(tmp_out'.data)
  BY <1>1, <1>4
<1> QED BY <1>1, <1>3, <1>4, <1>8, <1>9 DEF IInv, OutputSorted

-----------------------------------------------------------------------------
(* The loop over n *)

\* The numbers in the condition of the loop are exact.
LEMMA PassFacts ==
  ASSUME ArgumentsFixed, NoOverflow, PassInv
  PROVE  /\ n \in Nat
         /\ MorePasses <=> (run_length > 0 /\ n < Len(input) * k)
<1>1. /\ Len(input) \in Nat /\ k \in Nat /\ k >= 2 /\ run_length \in Nat
      /\ \A x \in 0 .. Len(input) * k * k + Len(input) : ToInt(x) = x
  BY ArgumentFacts
<1> DEFINE N == Len(input)
<1> HIDE DEF N
<1>2. N \in Nat => /\ N * k \in 0 .. N * k * k + N
                   /\ 0 \in 0 .. N * k * k + N
  <2>1. ASSUME N \in Nat PROVE N * k \in Nat /\ N * k * k \in Nat
    BY <1>1, <2>1, Z3
  <2>2. ASSUME NEW x \in Nat PROVE x <= x * k
    BY <1>1, Z3
  <2> QED BY <1>1, <2>1, <2>2
<1>3. ToInt(Len(input) * k) = Len(input) * k /\ ToInt(0) = 0
  BY <1>1, <1>2 DEF N
<1>4. n \in Nat
  BY DEF PassInv
<1>5. CASE run_length > 0
  <2>1. num_records = Len(input)
    BY <1>5 DEF PassInv
  <2> QED BY <1>3, <1>4, <1>5, <2>1 DEF MorePasses
<1>6. CASE ~ (run_length > 0)
  <2>1. num_records = 0
    BY <1>1, <1>6 DEF PassInv
  <2>2. num_records * k = 0
    BY <1>1, <2>1
  <2> QED BY <1>3, <1>4, <1>6, <2>2 DEF MorePasses
<1> QED BY <1>5, <1>6

\* The numbers of a pass are exact.
LEMMA GroupFacts ==
  ASSUME ArgumentsFixed, NoOverflow, PassInv, n < Len(input) * k, run_length > 0
  PROVE  /\ n * k \in Nat /\ n * k > 0 /\ ToInt(n * k) = n * k
         /\ \A o \in 0 .. Len(input) - 1 : ToInt(o + n * k) = o + n * k
         /\ \A o \in 0 .. Len(input) - 1 : \A i \in 0 .. k - 1 :
              o + i * n \in Nat /\ ToInt(o + i * n) = o + i * n
<1>1. /\ Len(input) \in Nat /\ k \in Nat /\ k >= 2
      /\ \A x \in 0 .. Len(input) * k * k + Len(input) : ToInt(x) = x
  BY ArgumentFacts
<1>2. n \in Nat /\ n > 0
  BY DEF PassInv
<1> DEFINE N == Len(input)
<1>t. N \in Nat /\ n < N * k
  BY <1>1
<1> HIDE DEF N
<1> DEFINE c == N * k
<1>3. c \in Nat
  BY <1>1, <1>t, Z3
<1> HIDE DEF c
<1>4. n * k \in Nat /\ n * k > 0 /\ c * k \in Nat /\ n * k <= c * k
  <2>1. n * k \in Nat /\ n * k > 0 /\ c * k \in Nat
    BY <1>1, <1>2, <1>3, Z3
  <2>2. k * n <= k * c
    BY <1>1, <1>2, <1>3, <1>t, ProductMonotone DEF c
  <2>3. k * n = n * k /\ k * c = c * k
    BY <1>1, <1>2, <1>3, Z3
  <2> QED BY <2>1, <2>2, <2>3
<1>5. \A x \in 0 .. c * k + N : ToInt(x) = x
  BY <1>1 DEF c, N
<1>6. ASSUME NEW o \in 0 .. N - 1, NEW i \in 0 .. k - 1
      PROVE  o + i * n \in 0 .. c * k + N
  <2>1. i * n \in Nat
    BY <1>1, <1>2, Z3
  <2>2. n * i <= n * k
    BY <1>1, <1>2, ProductMonotone
  <2>3. n * i = i * n
    BY <1>1, <1>2, Z3
  <2> QED BY <1>1, <1>4, <1>t, <2>1, <2>2, <2>3
<1>7. ToInt(n * k) = n * k
  BY <1>4, <1>5, <1>t
<1>8. \A o \in 0 .. N - 1 : ToInt(o + n * k) = o + n * k
  BY <1>4, <1>5, <1>t
<1>9. \A o \in 0 .. N - 1 : \A i \in 0 .. k - 1 : o + i * n \in Nat /\ ToInt(o + i * n) = o + i * n
  BY <1>4, <1>5, <1>6, <1>t
<1> QED BY <1>4, <1>7, <1>8, <1>9 DEF N

\* A pass of the loop over n begins with nothing written and everything to merge.
LEMMA StartPassInv ==
  ASSUME IInv, NoOverflow, StartPass
  PROVE  IInv'
<1>1. /\ ArgumentsFixed /\ tmp_in \in File /\ tmp_out \in File
      /\ tmp_out.at <= Len(tmp_out.data) /\ PassInv /\ tmp_out.at = 0 /\ MorePasses
      /\ unprocessed' = num_records /\ offset' = 0 /\ pc' = "group"
      /\ UNCHANGED <<args, tmp_in, tmp_out, num_records, n>>
  BY DEF IInv, StartPass
<1>2. Len(input) \in Nat /\ k \in Nat /\ k >= 2
  BY <1>1, ArgumentFacts
<1>3. ArgumentsFixed' /\ input' = input /\ k' = k /\ run_length' = run_length
  BY <1>1, ArgumentsKept
<1>4. n \in Nat /\ n > 0 /\ run_length > 0 /\ n < Len(input) * k
  BY <1>1, PassFacts DEF PassInv
<1>5. n * k \in Nat /\ n * k > 0
  BY <1>1, <1>4, GroupFacts
<1>6. num_records = Len(input) /\ Len(tmp_in.data) = Len(input) /\ Permutes(tmp_in.data, input)
  BY <1>1, <1>4 DEF PassInv
<1>7. Written' = <<>>
  <2>1. SubSeq(tmp_out.data, 1, 0) = <<>>
    BY SubSeqEmpty
  <2> QED BY <1>1, <2>1 DEF Written
<1>8. ToMerge' = 0 + 1 .. Len(input)
  BY <1>1, <1>6 DEF ToMerge
<1>9. Conserved'
  <2>1. ASSUME NEW rec \in Records
        PROVE  Count(Written', rec) + Cardinality({p \in ToMerge' : tmp_in'.data[p] = rec})
                 = Count(input', rec)
    <3> DEFINE P == {p \in DOMAIN tmp_in.data : tmp_in.data[p] = rec}
               Q == {p \in ToMerge' : tmp_in'.data[p] = rec}
    <3>1. Q = P
      <4>1. DOMAIN tmp_in.data = 0 + 1 .. Len(input)
        BY <1>1, <1>2, <1>6 DEF File
      <4> QED BY <1>1, <1>8, <4>1
    <3>2. Count(tmp_in.data, rec) = Cardinality(P)
      BY DEF Count
    <3>3. Count(tmp_in.data, rec) \in Nat
      BY <1>1, PlacesFinite, Zenon DEF File
    <3>4. Count(<<>>, rec) = 0
      <4>1. {i \in DOMAIN <<>> : <<>>[i] = rec} = {}
        OBVIOUS
      <4> QED BY <4>1, FS_EmptySet DEF Count
    <3>5. Count(tmp_in.data, rec) = Count(input, rec)
      BY <1>6 DEF Permutes
    <3> HIDE DEF P, Q
    <3>6. Count(Written', rec) + Cardinality(Q) = Count(input', rec)
      BY <1>3, <1>7, <3>1, <3>2, <3>3, <3>4, <3>5
    <3> QED BY <3>6 DEF Q
  <2> QED BY <2>1 DEF Conserved
<1>10. 0 % (n * k) = 0
  <2> DEFINE m == n * k
  <2>1. m \in Nat /\ m > 0
    BY <1>5
  <2> HIDE DEF m
  <2>2. 0 % m = 0
    BY <2>1, Z3
  <2> QED BY <2>2 DEF m
<1>11. SegmentsSorted(Written', n * k)
  BY <1>7 DEF SegmentsSorted
<1>12. GroupInv'
  BY <1>1, <1>3, <1>4, <1>9, <1>10, <1>11 DEF GroupInv
<1>13. BetweenGroups'
  BY <1>1, <1>2, <1>3, <1>6 DEF BetweenGroups
<1>14. PassInv'
  BY <1>1, <1>3 DEF PassInv
<1> QED BY <1>1, <1>3, <1>12, <1>13, <1>14 DEF IInv, OutputSorted

\* When the loop ends, the whole file is one sorted segment.
LEMMA CopyOutInv ==
  ASSUME IInv, NoOverflow, CopyOut
  PROVE  IInv'
<1>1. /\ ArgumentsFixed /\ tmp_in \in File /\ tmp_out \in File
      /\ tmp_out.at <= Len(tmp_out.data) /\ PassInv /\ ~ MorePasses
      /\ pc' = "done" /\ UNCHANGED <<args, tmp_in, tmp_out>>
  BY DEF IInv, CopyOut
<1>2. Len(input) \in Nat /\ k \in Nat /\ k >= 2 /\ run_length \in Nat
  BY <1>1, ArgumentFacts
<1>3. ArgumentsFixed' /\ input' = input /\ run_length' = run_length
  BY <1>1, ArgumentsKept
<1>4. ASSUME run_length > 0 PROVE Permutes(tmp_in.data, input) /\ Sorted(tmp_in.data)
  <2> DEFINE N == Len(input)
             data == tmp_in.data
  <2>1. /\ n \in Nat /\ n > 0 /\ ~ (n < N * k) /\ Len(data) = N
        /\ Permutes(data, input) /\ SegmentsSorted(data, n)
    BY <1>1, <1>4, PassFacts DEF PassInv
  <2>2. N \in Nat /\ data \in Seq(Records)
    BY <1>1, <1>2 DEF File
  <2> HIDE DEF N, data
  <2>3. N <= n
    <3>1. N * k \in Nat /\ N <= N * k
      BY <1>2, <2>2, Z3
    <3> QED BY <2>1, <2>2, <3>1
  <2>4. ASSUME NEW i \in 1 .. N PROVE (i - 1) \div n = 0
    <3>1. i - 1 \in Nat /\ 0 * n <= i - 1 /\ i - 1 < 0 * n + n
      BY <2>1, <2>2, <2>3
    <3> QED BY <2>1, <3>1, SegmentOf
  <2>5. DOMAIN data = 1 .. N
    BY <2>1, <2>2
  <2>6. Sorted(data)
    BY <2>1, <2>4, <2>5 DEF Sorted, SegmentsSorted
  <2> QED BY <2>1, <2>6 DEF data
<1>5. OutputSorted'
  BY <1>1, <1>3, <1>4 DEF OutputSorted
<1> QED BY <1>1, <1>3, <1>5 DEF IInv

\* At the end of a pass the output has all the records in segments of kn, and the
\* files change places.
LEMMA EndPassInv ==
  ASSUME IInv, NoOverflow, EndPass
  PROVE  IInv'
<1> DEFINE data == tmp_out.data
<1>1. /\ ArgumentsFixed /\ tmp_in \in File /\ tmp_out \in File
      /\ tmp_out.at <= Len(data) /\ PassInv /\ GroupInv /\ BetweenGroups
      /\ pc = "group" /\ offset >= num_records
      /\ tmp_in' = Rewind(tmp_out) /\ tmp_out' = Rewind(tmp_in)
      /\ n' = ToInt(n * k) /\ pc' = "pass"
      /\ UNCHANGED <<args, num_records>>
  BY DEF IInv, EndPass
<1>2. Len(input) \in Nat /\ k \in Nat /\ k >= 2
  BY <1>1, ArgumentFacts
<1>3. ArgumentsFixed' /\ input' = input /\ run_length' = run_length
  BY <1>1, ArgumentsKept
<1>4. /\ run_length > 0 /\ n < Len(input) * k /\ offset \in Nat
      /\ SegmentsSorted(Written, n * k) /\ Conserved
  BY <1>1 DEF GroupInv
<1>5. n * k \in Nat /\ n * k > 0 /\ n' = n * k
  BY <1>1, <1>4, GroupFacts
<1>6. /\ num_records = Len(input) /\ Len(tmp_in.data) = Len(input)
      /\ Len(data) <= Len(input)
  BY <1>1, <1>4 DEF PassInv
<1>7. data \in Seq(Records) /\ Len(data) \in Nat /\ tmp_in.data \in Seq(Records)
  BY <1>1 DEF File
<1>8. tmp_out.at = Len(input) /\ Len(data) = Len(input)
  BY <1>1, <1>2, <1>4, <1>6, <1>7 DEF BetweenGroups
<1>9. Written = data
  <2>1. SubSeq(data, 1, Len(data)) = data
    BY <1>7, SubSeqFull
  <2> QED BY <1>8, <2>1 DEF Written
<1>10. Permutes(data, input)
  <2>1. ToMerge = {}
    BY <1>1, <1>2, <1>4, <1>6 DEF ToMerge
  <2>2. ASSUME NEW rec \in Records PROVE Count(data, rec) = Count(input, rec)
    <3>1. Count(Written, rec) + Cardinality({p \in ToMerge : tmp_in.data[p] = rec})
            = Count(input, rec)
      BY <1>1, <1>4 DEF Conserved
    <3>2. {p \in ToMerge : tmp_in.data[p] = rec} = {}
      BY <2>1
    <3>3. Cardinality({p \in ToMerge : tmp_in.data[p] = rec}) = 0
      BY <3>2, FS_EmptySet
    <3>4. Count(data, rec) \in Nat
      BY <1>7, PlacesFinite, Zenon
    <3> QED BY <1>9, <3>1, <3>3, <3>4
  <2> QED BY <2>2 DEF Permutes
<1>11. tmp_in' = [data |-> data, at |-> 0] /\ tmp_out' = [data |-> tmp_in.data, at |-> 0]
  BY <1>1 DEF Rewind
<1>12. tmp_in'.data = data /\ tmp_out'.data = tmp_in.data /\ tmp_out'.at = 0
  BY <1>11
<1>13. tmp_in' \in File /\ tmp_out' \in File
  BY <1>7, <1>11 DEF File
<1>14. SegmentsSorted(data, n * k)
  BY <1>4, <1>9
<1>15. PassInv'
  BY <1>1, <1>2, <1>3, <1>4, <1>5, <1>6, <1>8, <1>10, <1>12, <1>14 DEF PassInv
<1> QED BY <1>1, <1>2, <1>3, <1>6, <1>12, <1>13, <1>15 DEF IInv, OutputSorted

-----------------------------------------------------------------------------
(* kway_merge *)

\* The places of the i-th run of the group
Run(i) ==
  (offset + i * n) + 1 .. (offset + i * n) + RunLength(Len(input) - offset, i, n)

\* The numbers and the files in a group
LEMMA GroupState ==
  ASSUME IInv, NoOverflow, pc \in {"group", "merge"}
  PROVE  /\ ArgumentsFixed /\ PassInv /\ GroupInv
         /\ Len(input) \in Nat /\ k \in Nat /\ k >= 2 /\ rec_per_buf \in Nat
         /\ n \in Nat /\ n > 0 /\ n < Len(input) * k /\ n * k \in Nat /\ n * k > 0
         /\ offset \in Nat /\ offset % (n * k) = 0
         /\ num_records = Len(input) /\ run_length > 0
         /\ tmp_in.data \in Seq(Records) /\ Len(tmp_in.data) = Len(input)
         /\ tmp_out \in File /\ tmp_out.at \in Nat /\ tmp_out.data \in Seq(Records)
         /\ Len(tmp_out.data) \in Nat
         /\ tmp_out.at <= Len(tmp_out.data) /\ Len(tmp_out.data) <= Len(input)
<1>1. /\ ArgumentsFixed /\ PassInv /\ GroupInv /\ tmp_in \in File /\ tmp_out \in File
      /\ tmp_out.at <= Len(tmp_out.data)
  BY DEF IInv
<1>2. Len(input) \in Nat /\ k \in Nat /\ k >= 2 /\ rec_per_buf \in Nat
  BY <1>1, ArgumentFacts
<1>3. /\ run_length > 0 /\ n < Len(input) * k /\ offset \in Nat /\ offset % (n * k) = 0
  BY <1>1 DEF GroupInv
<1>4. /\ n \in Nat /\ n > 0 /\ num_records = Len(input) /\ Len(tmp_in.data) = Len(input)
      /\ Len(tmp_out.data) <= Len(input)
  BY <1>1, <1>3 DEF PassInv
<1>5. n * k \in Nat /\ n * k > 0
  BY <1>1, <1>3, GroupFacts
<1>6. /\ tmp_in.data \in Seq(Records) /\ tmp_out.data \in Seq(Records) /\ tmp_out.at \in Nat
      /\ Len(tmp_out.data) \in Nat
  BY <1>1 DEF File
<1> QED BY <1>1, <1>2, <1>3, <1>4, <1>5, <1>6

\* The runs of a group are consecutive, and each is within a segment of tmp_in.
LEMMA RunPlaces ==
  ASSUME IInv, NoOverflow, pc \in {"group", "merge"}, offset < Len(input),
         NEW i \in 0 .. k - 1
  PROVE  /\ RunLength(Len(input) - offset, i, n) \in Nat
         /\ RunLength(Len(input) - offset, i, n) > 0 =>
              (offset + i * n) + RunLength(Len(input) - offset, i, n) <= Len(input)
         /\ \A p \in Int :
              p \in Run(i) <=> p \in offset + 1 .. Len(input) /\ (p - 1 - offset) \div n = i
         /\ \A p \in Run(i) : p \in Nat /\ p <= offset + n * k
         /\ \A p, q \in Run(i) : (p - 1) \div n = (q - 1) \div n
<1> DEFINE N == Len(input)
           x == N - offset
           g == offset \div (n * k)
<1>1. /\ N \in Nat /\ k \in Nat /\ n \in Nat /\ n > 0 /\ offset \in Nat /\ i \in Nat /\ i < k
      /\ n * k \in Nat /\ n * k > 0 /\ x \in Nat /\ offset + x = N
      /\ offset % (n * k) = 0
  BY GroupState
<1>2. /\ RunLength(x, i, n) \in Nat
      /\ RunLength(x, i, n) > 0 => (offset + i * n) + RunLength(x, i, n) <= N
      /\ \A p \in Int :
           p \in Run(i) <=> p \in offset + 1 .. N /\ (p - 1 - offset) \div n = i
  <2> HIDE DEF x
  <2>1. ASSUME NEW p \in Int
        PROVE  /\ RunLength(x, i, n) \in Nat
               /\ RunLength(x, i, n) > 0 => (offset + i * n) + RunLength(x, i, n) <= offset + x
               /\ p \in (offset + i * n) + 1 .. (offset + i * n) + RunLength(x, i, n)
                    <=> p \in offset + 1 .. offset + x /\ (p - 1 - offset) \div n = i
    BY <1>1, RunOf
  <2>2. 0 \in Int
    OBVIOUS
  <2> QED BY <1>1, <2>1, <2>2 DEF Run, x
<1>3. g \in Nat /\ offset = g * (n * k)
  BY <1>1, MultipleOf
<1> HIDE DEF g, N, x
<1>4. ASSUME NEW p \in Run(i)
      PROVE  /\ p \in Nat /\ p >= offset + 1 /\ i * n <= p - 1 - offset /\ p - 1 - offset < i * n + n
  <2>1. p \in Int
    BY DEF Run
  <2>2. p \in offset + 1 .. N /\ (p - 1 - offset) \div n = i /\ p - 1 - offset \in Nat
    BY <1>1, <1>2, <2>1
  <2>3. i * n <= p - 1 - offset /\ p - 1 - offset < i * n + n
    BY <1>1, <2>2, SegmentOf
  <2> QED BY <1>1, <2>2, <2>3
<1>5. i * n \in Nat /\ i * n + n <= n * k
  <2>1. n * (i + 1) <= n * k
    BY <1>1, ProductMonotone
  <2>2. n * (i + 1) = i * n + n /\ i * n \in Nat
    BY <1>1, Z3
  <2> QED BY <2>1, <2>2
<1>6. ASSUME NEW p \in Run(i) PROVE p \in Nat /\ p <= offset + n * k
  <2>1. p \in Nat /\ p - 1 - offset < i * n + n
    BY <1>4
  <2>2. ASSUME NEW c \in Nat, NEW d \in Nat, c + n <= d, p - 1 - offset < c + n
        PROVE  p <= offset + d
    BY <1>1, <2>1, <2>2
  <2> QED BY <1>1, <1>5, <2>1, <2>2
<1>7. ASSUME NEW p \in Run(i) PROVE (p - 1) \div n = g * k + i
  <2>1. g * k + i \in Nat /\ (g * k + i) * n = g * (n * k) + i * n
    BY <1>1, <1>3, Z3
  <2>2. p - 1 \in Nat /\ (g * k + i) * n <= p - 1 /\ p - 1 < (g * k + i) * n + n
    BY <1>1, <1>3, <1>4, <1>5, <2>1
  <2> QED BY <1>1, <2>1, <2>2, SegmentOf
<1>8. \A p, q \in Run(i) : (p - 1) \div n = (q - 1) \div n
  BY <1>7
<1> QED BY <1>2, <1>6, <1>8 DEF N, x

\* What an iterator still has to give is the rest of its run, from the record
\* that kway_merge has a pointer to.
LEMMA PendingPlaces ==
  ASSUME IInv, NoOverflow, pc = "merge", NEW i \in 0 .. k - 1
  PROVE  /\ Pending(i) \subseteq Run(i)
         /\ i \notin Holding => Pending(i) = {}
         /\ i \in Holding =>
              LET p == iterators[i].start_pos + iterators[i].pos
              IN  /\ Pending(i) = p .. iterators[i].start_pos + iterators[i].run_length
                  /\ p \in Pending(i) /\ p \in 1 .. Len(tmp_in.data)
                  /\ Held(i) = tmp_in.data[p]
<1> DEFINE it == iterators[i]
           data == tmp_in.data
           p == it.start_pos + it.pos
<1>1. /\ IteratorsInv /\ rec_per_buf > 0 /\ offset < Len(input)
  BY DEF IInv, MergeInv
<1>2. rec_per_buf \in Nat /\ data \in Seq(Records) /\ k \in Nat
  BY GroupState
<1>3. /\ IteratorOK(it, data) /\ PointerOK(it, buf[i])
      /\ it.start_pos = offset + i * n
      /\ it.run_length = RunLength(Len(input) - offset, i, n)
  BY <1>1 DEF IteratorsInv
<1>4. it.start_pos \in Nat /\ it.run_length \in Nat /\ it.pos \in Nat
  BY <1>3 DEF IteratorOK, Iterator
<1>5. Pending(i) = it.start_pos + (IF buf[i] = NULL THEN it.pos ELSE it.pos - 1) + 1
                     .. it.start_pos + it.run_length
  BY DEF Pending
<1>6. Run(i) = it.start_pos + 1 .. it.start_pos + it.run_length
  BY <1>3 DEF Run
<1>7. i \in Holding <=> buf[i] # NULL
  BY DEF Holding
<1>8. Held(i) = it.read_buf[buf[i]]
  BY DEF Held
<1> HIDE DEF it, data
<1>9. CASE buf[i] = NULL
  <2>1. it.pos = it.run_length
    BY <1>3, <1>9 DEF PointerOK
  <2>2. Pending(i) = {}
    BY <1>4, <1>5, <1>9, <2>1
  <2> QED BY <1>7, <1>9, <2>2
<1>10. CASE buf[i] # NULL
  <2>1. p \in 1 .. Len(data) /\ p <= it.start_pos + it.run_length /\ it.read_buf[buf[i]] = data[p]
    BY <1>1, <1>2, <1>3, <1>10, PointedTo
  <2>2. it.pos > 0
    BY <1>3, <1>10 DEF PointerOK
  <2>3. Pending(i) = p .. it.start_pos + it.run_length
    BY <1>4, <1>5, <1>10
  <2>4. p \in Pending(i) /\ Pending(i) \subseteq Run(i)
    BY <1>4, <1>6, <2>1, <2>2, <2>3
  <2> QED BY <1>7, <1>8, <1>10, <2>1, <2>3, <2>4 DEF it, data
<1> QED BY <1>9, <1>10

\* A merge that leaves the files alone and the places to merge the same keeps
\* what the loop over offset has established.
LEMMA GroupKept ==
  ASSUME IInv, NoOverflow, pc \in {"group", "merge"}, pc' \in {"group", "merge"},
         UNCHANGED <<args, tmp_in, tmp_out, num_records, n>>,
         offset' \in Nat, offset' % (n * k) = 0, ToMerge' = ToMerge
  PROVE  /\ ArgumentsFixed' /\ PassInv' /\ GroupInv' /\ OutputSorted'
         /\ input' = input /\ k' = k /\ rec_per_buf' = rec_per_buf
<1>1. ArgumentsFixed /\ PassInv /\ GroupInv
  BY GroupState
<1>2. /\ ArgumentsFixed' /\ input' = input /\ k' = k
      /\ run_length' = run_length /\ rec_per_buf' = rec_per_buf
  BY <1>1, ArgumentsKept
<1>3. Written' = Written
  BY DEF Written
<1>4. Conserved'
  BY <1>1, <1>2, <1>3 DEF GroupInv, Conserved
<1>5. GroupInv'
  BY <1>1, <1>2, <1>3, <1>4 DEF GroupInv
<1>6. PassInv'
  BY <1>1, <1>2 DEF PassInv
<1>7. OutputSorted'
  BY DEF OutputSorted
<1> QED BY <1>1, <1>2, <1>5, <1>6, <1>7

\* How many places follow place c
LEMMA IntervalSize ==
  ASSUME NEW c \in Nat, NEW d \in Nat
  PROVE  /\ IsFiniteSet(c + 1 .. d)
         /\ Cardinality(c + 1 .. d) = (IF c < d THEN d - c ELSE 0)
<1> DEFINE e == c + 1
<1>1. e \in Int /\ d \in Int
  OBVIOUS
<1> HIDE DEF e
<1>2. IsFiniteSet(e .. d) /\ Cardinality(e .. d) = (IF e > d THEN 0 ELSE d - e + 1)
  BY <1>1, FS_Interval
<1> QED BY <1>2 DEF e

\* When no iterator has a record left the group is in tmp_out.
LEMMA EndMergeInv ==
  ASSUME IInv, NoOverflow, EndMerge
  PROVE  IInv'
<1> DEFINE N == Len(input)
           b == n * k
<1>1. /\ pc = "merge" /\ Holding = {} /\ offset' = ToInt(offset + ToInt(n * k)) /\ pc' = "group"
      /\ UNCHANGED <<args, tmp_in, tmp_out, num_records, n, unprocessed>>
  BY DEF EndMerge
<1>2. /\ ArgumentsFixed /\ PassInv /\ GroupInv /\ N \in Nat /\ k \in Nat /\ n \in Nat /\ n > 0
      /\ b \in Nat /\ b > 0 /\ offset \in Nat /\ offset % b = 0 /\ num_records = N
      /\ tmp_out.at \in Nat
  BY <1>1, GroupState
<1>3. /\ offset < N /\ unprocessed = Rest(N - offset, k, n)
      /\ tmp_out.at + Cardinality(ToMerge) = N
  BY <1>1 DEF IInv, MergeInv
<1>4. offset' = offset + b
  BY <1>1, <1>2, <1>3, GroupFacts DEF GroupInv
<1>5. ToMerge = offset + b + 1 .. N
  <2>1. \A i \in 0 .. k - 1 : Pending(i) = {}
    BY <1>1, PendingPlaces
  <2>2. UNION {Pending(i) : i \in 0 .. k - 1} = {}
    BY <2>1
  <2> QED BY <1>1, <1>2, <2>2 DEF ToMerge
<1>6. k * n = b
  BY <1>2, Z3
<1> HIDE DEF b
<1>7. ToMerge' = offset' + 1 .. N
  BY <1>1, <1>2 DEF ToMerge
<1>8. ToMerge' = ToMerge
  BY <1>4, <1>5, <1>7
<1>9. offset' \in Nat /\ offset' % b = 0
  <2>1. (offset + b) % b = 0
    BY <1>2, NextMultiple, Zenon
  <2> QED BY <1>2, <1>4, <2>1
<1>10. /\ ArgumentsFixed' /\ PassInv' /\ GroupInv' /\ OutputSorted' /\ input' = input
  BY <1>1, <1>8, <1>9, GroupKept DEF b
<1>11. Cardinality(offset + b + 1 .. N) = (IF offset + b < N THEN N - (offset + b) ELSE 0)
  <2>1. offset + b \in Nat /\ N \in Nat
    BY <1>2
  <2> QED BY <2>1, IntervalSize
<1>12. tmp_out.at = (IF offset + b <= N THEN offset + b ELSE N)
  BY <1>2, <1>3, <1>5, <1>11
<1>13. unprocessed = (IF offset + b <= N THEN N - (offset + b) ELSE 0)
  <2>1. unprocessed = (IF b <= N - offset THEN (N - offset) - b ELSE 0)
    BY <1>3, <1>6 DEF Rest
  <2> QED BY <1>2, <2>1
<1>14. BetweenGroups'
  BY <1>1, <1>4, <1>10, <1>12, <1>13 DEF BetweenGroups
<1> QED BY <1>1, <1>10, <1>14 DEF IInv

\* The runs of a group are all that follows in tmp_in, up to the next group.
LEMMA RunsCover ==
  ASSUME IInv, NoOverflow, pc \in {"group", "merge"}, offset < Len(input)
  PROVE  (offset + n * k + 1 .. Len(input)) \cup UNION {Run(i) : i \in 0 .. k - 1}
           = offset + 1 .. Len(input)
<1> DEFINE N == Len(input)
           b == n * k
           L == (offset + b + 1 .. N) \cup UNION {Run(i) : i \in 0 .. k - 1}
<1>1. /\ N \in Nat /\ k \in Nat /\ n \in Nat /\ n > 0 /\ b \in Nat /\ offset \in Nat
  BY GroupState
<1>2. k * n = b
  BY <1>1, Z3
<1>3. \A i \in 0 .. k - 1 : \A p \in Int :
        p \in Run(i) <=> p \in offset + 1 .. N /\ (p - 1 - offset) \div n = i
  BY RunPlaces
<1> HIDE DEF b, N
<1>4. ASSUME NEW p \in offset + 1 .. N PROVE p \in L
  <2> DEFINE i == (p - 1 - offset) \div n
  <2>1. p - 1 - offset \in Nat
    BY <1>1
  <2>2. i \in Nat /\ (k * n <= p - 1 - offset <=> k <= i)
    BY <1>1, <2>1, SegmentAfter
  <2> HIDE DEF i
  <2>3. CASE k <= i
    BY <1>1, <1>2, <2>2, <2>3
  <2>4. CASE i < k
    <3>1. p \in Run(i)
      BY <1>1, <1>3, <2>2, <2>4 DEF i
    <3> QED BY <1>1, <2>2, <2>4, <3>1
  <2> QED BY <1>1, <2>2, <2>3, <2>4
<1>5. ASSUME NEW p \in L PROVE p \in offset + 1 .. N
  <2>1. CASE p \in offset + b + 1 .. N
    BY <1>1, <2>1
  <2>2. CASE p \in UNION {Run(i) : i \in 0 .. k - 1}
    <3>1. PICK i \in 0 .. k - 1 : p \in Run(i)
      BY <2>2
    <3>2. p \in Int
      BY <3>1 DEF Run
    <3> QED BY <1>3, <3>1, <3>2
  <2> QED BY <2>1, <2>2
<1>6. L = offset + 1 .. N
  BY <1>4, <1>5, Zenon
<1> QED BY <1>6 DEF b, N

\* The iterators that kway_merge makes, and their first records
LEMMA FirstRecords ==
  ASSUME IInv, NoOverflow, StartMerge, pc' = "merge"
  PROVE  /\ unprocessed' = Rest(Len(input) - offset, k, n)
         /\ IteratorsInv'
         /\ \A i \in 0 .. k - 1 : Pending(i)' = Run(i)
<1> DEFINE N == Len(input)
           L(i) == RunLength(N - offset, i, n)
           made == [i \in 0 .. k - 1 |->
                      NewRunIterator(ToInt(offset + i * n), Length(Unprocessed[i]))]
           it(i) == NewRunIterator(offset + i * n, L(i))
<1>1. /\ pc = "group" /\ offset < num_records /\ ~ (rec_per_buf < 1)
      /\ unprocessed' = Unprocessed[k]
      /\ iterators' = [i \in 0 .. k - 1 |-> Advance(made[i], tmp_in.data)]
      /\ buf' = [i \in 0 .. k - 1 |-> Fetched(made[i])]
      /\ UNCHANGED <<args, tmp_in, tmp_out, num_records, n, offset>>
  BY DEF StartMerge
<1>2. /\ ArgumentsFixed /\ PassInv /\ GroupInv /\ N \in Nat /\ k \in Nat /\ n \in Nat /\ n > 0
      /\ offset \in Nat /\ num_records = N /\ rec_per_buf \in Nat /\ rec_per_buf > 0
      /\ tmp_in.data \in Seq(Records) /\ Len(tmp_in.data) = N /\ k >= 2
  BY <1>1, GroupState
<1>3. /\ input' = input /\ k' = k /\ rec_per_buf' = rec_per_buf
  BY <1>1, <1>2, ArgumentsKept
<1>4. unprocessed = N - offset /\ unprocessed \in Nat
  BY <1>1, <1>2 DEF IInv, BetweenGroups
<1>5. \A i \in 0 .. k : Unprocessed[i] = Rest(N - offset, i, n)
  BY <1>2, <1>4, UnprocessedIs
<1>6. ASSUME NEW i \in 0 .. k - 1 PROVE made[i] = it(i)
  <2>1. ToInt(offset + i * n) = offset + i * n
    <3>1. n < Len(input) * k /\ run_length > 0
      BY <1>2 DEF GroupInv
    <3>2. \A o \in 0 .. Len(input) - 1 : \A j \in 0 .. k - 1 :
            o + j * n \in Nat /\ ToInt(o + j * n) = o + j * n
      BY <1>2, <3>1, GroupFacts
    <3>3. offset \in 0 .. Len(input) - 1
      BY <1>1, <1>2
    <3> QED BY <3>2, <3>3
  <2>2. Rest(N - offset, i, n) \in Nat
    <3>1. i * n \in Nat
      BY <1>2, Z3
    <3> QED BY <1>1, <1>2, <3>1 DEF Rest
  <2>3. Length(Rest(N - offset, i, n)) = L(i)
    BY <1>2, <2>2, LengthIs DEF RunLength
  <2>4. Unprocessed[i] = Rest(N - offset, i, n)
    BY <1>2, <1>5
  <2>5. made[i] = NewRunIterator(ToInt(offset + i * n), Length(Unprocessed[i]))
    OBVIOUS
  <2> QED BY <2>1, <2>3, <2>4, <2>5
<1>7. ASSUME NEW i \in 0 .. k - 1
      PROVE  iterators'[i] = Advance(it(i), tmp_in.data) /\ buf'[i] = Fetched(it(i))
  BY <1>1, <1>6
<1>8. ASSUME NEW i \in 0 .. k - 1
      PROVE  /\ IteratorOK(it(i), tmp_in.data)
             /\ it(i).start_pos = offset + i * n /\ it(i).run_length = L(i) /\ it(i).pos = 0
             /\ offset + i * n \in Nat /\ L(i) \in Nat
  <2>1. L(i) \in Nat /\ (L(i) > 0 => (offset + i * n) + L(i) <= Len(tmp_in.data))
    BY <1>1, <1>2, RunPlaces
  <2>2. offset + i * n \in Nat
    BY <1>2, Z3
  <2> QED BY <1>2, <2>1, <2>2, NewRunIteratorOK
<1>9. ASSUME NEW i \in 0 .. k - 1
      PROVE  /\ IteratorOK(iterators'[i], tmp_in.data) /\ PointerOK(iterators'[i], buf'[i])
             /\ iterators'[i].start_pos = offset + i * n /\ iterators'[i].run_length = L(i)
             /\ iterators'[i].pos = (IF buf'[i] = NULL THEN 0 ELSE 1)
             /\ buf'[i] \in Int
  <2> HIDE DEF it, L, made
  <2>1. /\ IteratorOK(Advance(it(i), tmp_in.data), tmp_in.data)
        /\ PointerOK(Advance(it(i), tmp_in.data), Fetched(it(i)))
        /\ Advance(it(i), tmp_in.data).start_pos = it(i).start_pos
        /\ Advance(it(i), tmp_in.data).run_length = it(i).run_length
        /\ Advance(it(i), tmp_in.data).pos =
             (IF Fetched(it(i)) = NULL THEN it(i).pos ELSE it(i).pos + 1)
    BY <1>2, <1>8, AdvanceOK
  <2>2. Fetched(it(i)) \in Int
    BY <1>2, <1>8 DEF Fetched, NULL
  <2>3. iterators'[i] = Advance(it(i), tmp_in.data) /\ buf'[i] = Fetched(it(i))
    BY <1>7
  <2>4. it(i).start_pos = offset + i * n /\ it(i).run_length = L(i) /\ it(i).pos = 0
    BY <1>8
  <2>5. /\ IteratorOK(iterators'[i], tmp_in.data) /\ PointerOK(iterators'[i], buf'[i])
        /\ iterators'[i].start_pos = it(i).start_pos
        /\ iterators'[i].run_length = it(i).run_length
        /\ buf'[i] \in Int
    BY ONLY <2>1, <2>2, <2>3
  <2>6. iterators'[i].pos = (IF buf'[i] = NULL THEN it(i).pos ELSE it(i).pos + 1)
    BY ONLY <2>1, <2>3
  <2>7. iterators'[i].pos = (IF buf'[i] = NULL THEN 0 ELSE 1)
    BY ONLY <2>4, <2>6
  <2> QED BY ONLY <2>4, <2>5, <2>7
<1> HIDE DEF made, it
<1>10. IteratorsInv'
  <2>1. iterators' \in [0 .. k - 1 -> Iterator]
    BY <1>1, <1>9 DEF IteratorOK
  <2>2. buf' \in [0 .. k - 1 -> Int]
    BY <1>1, <1>9
  <2>3. \A i \in 0 .. k - 1 :
          /\ IteratorOK(iterators[i], tmp_in.data)' /\ PointerOK(iterators[i], buf[i])'
          /\ iterators'[i].start_pos = offset' + i * n'
          /\ iterators'[i].run_length = RunLength(Len(input') - offset', i, n')
    BY <1>1, <1>3, <1>9, Zenon DEF IteratorOK, PointerOK, Iterator
  <2>4. Iterator' = Iterator
    BY <1>3 DEF Iterator
  <2> QED BY <1>3, <2>1, <2>2, <2>3, <2>4 DEF IteratorsInv
<1>11. ASSUME NEW i \in 0 .. k - 1 PROVE Pending(i)' = Run(i)
  <2>1. Pending(i)' = (offset + i * n) +
            (IF buf'[i] = NULL THEN iterators'[i].pos ELSE iterators'[i].pos - 1) + 1
              .. (offset + i * n) + L(i)
    BY <1>9 DEF Pending
  <2>2. (IF buf'[i] = NULL THEN iterators'[i].pos ELSE iterators'[i].pos - 1) = 0
    BY <1>9
  <2>3. (offset + i * n) + 0 + 1 = (offset + i * n) + 1
    BY <1>8
  <2> QED BY <2>1, <2>2, <2>3 DEF Run
<1>12. unprocessed' = Rest(N - offset, k, n)
  BY <1>1, <1>2, <1>5
<1> QED BY <1>10, <1>11, <1>12

\* A group begins with the records of its runs, and nothing of it written.
LEMMA StartMergeInv ==
  ASSUME IInv, NoOverflow, StartMerge
  PROVE  IInv'
<1> DEFINE N == Len(input)
<1>1. /\ pc = "group" /\ offset < num_records
      /\ \/ pc' = "exit"
         \/ pc' = "merge" /\ ~ (rec_per_buf < 1)
      /\ UNCHANGED <<args, tmp_in, tmp_out, num_records, n, offset>>
  BY DEF StartMerge
<1>2. /\ ArgumentsFixed /\ tmp_in \in File /\ tmp_out \in File
      /\ tmp_out.at <= Len(tmp_out.data)
  BY DEF IInv
<1>3. CASE pc' = "exit"
  <2>1. ArgumentsFixed'
    BY <1>1, <1>2, ArgumentsKept
  <2> QED BY <1>1, <1>2, <1>3, <2>1 DEF IInv, OutputSorted
<1>4. CASE pc' = "merge"
  <2>1. /\ N \in Nat /\ k \in Nat /\ n \in Nat /\ n * k \in Nat
        /\ offset \in Nat /\ offset % (n * k) = 0 /\ num_records = N /\ rec_per_buf \in Nat
        /\ tmp_out.at \in Nat
    BY <1>1, GroupState
  <2>2. tmp_out.at = offset
    BY <1>1, <2>1 DEF IInv, BetweenGroups
  <2>3. /\ unprocessed' = Rest(N - offset, k, n) /\ IteratorsInv'
        /\ \A i \in 0 .. k - 1 : Pending(i)' = Run(i)
    BY <1>4, FirstRecords
  <2>4. input' = input /\ k' = k /\ rec_per_buf' = rec_per_buf
    BY <1>1, <1>2, ArgumentsKept
  <2>5. ToMerge = offset + 1 .. N
    BY <1>1, <2>1 DEF ToMerge
  <2>6. ToMerge' = ToMerge
    <3>1. ToMerge' = (offset + n * k + 1 .. N) \cup UNION {Pending(i)' : i \in 0 .. k - 1}
      BY <1>1, <1>4, <2>1, <2>4 DEF ToMerge
    <3>2. {Pending(i)' : i \in 0 .. k - 1} = {Run(i) : i \in 0 .. k - 1}
      BY <2>3
    <3>3. (offset + n * k + 1 .. N) \cup UNION {Run(i) : i \in 0 .. k - 1} = offset + 1 .. N
      BY <1>1, <2>1, RunsCover
    <3> QED BY <2>5, <3>1, <3>2, <3>3, Zenon
  <2>7. ArgumentsFixed' /\ PassInv' /\ GroupInv' /\ OutputSorted'
    BY <1>1, <1>4, <2>1, <2>6, GroupKept
  <2>8. tmp_out.at + Cardinality(ToMerge') = N
    <3>1. Cardinality(offset + 1 .. N) = N - offset
      BY <1>1, <2>1, IntervalSize
    <3> QED BY <2>1, <2>2, <2>5, <2>6, <3>1
  <2>9. offset + 1 .. tmp_out.at = {}
    BY <2>1, <2>2
  <2>10. MergeInv'
    <3>1. /\ rec_per_buf' > 0 /\ offset' < Len(input')
          /\ unprocessed' = Rest(Len(input') - offset', k', n')
          /\ tmp_out'.at >= offset' /\ tmp_out'.at + Cardinality(ToMerge') = Len(input')
      BY <1>1, <1>4, <2>1, <2>2, <2>3, <2>4, <2>8
    <3>2. offset' + 1 .. tmp_out'.at = {}
      BY <1>1, <2>9
    <3> QED BY <2>3, <3>1, <3>2 DEF MergeInv
  <2> QED BY <1>1, <1>2, <1>4, <2>7, <2>10 DEF IInv
<1> QED BY <1>1, <1>3, <1>4

\* The place in tmp_in of the record that kway_merge writes next
LeastPlace == iterators[min_idx].start_pos + iterators[min_idx].pos

\* The record that kway_merge writes next is the first of what its iterator still
\* has to give, and nothing that any iterator still has to give is less.
LEMMA LeastOfAll ==
  ASSUME IInv, NoOverflow, pc = "merge", Holding # {}
  PROVE  /\ min_idx \in Holding /\ min_idx \in 0 .. k - 1
         /\ LeastPlace \in Pending(min_idx) /\ LeastPlace \in 1 .. Len(tmp_in.data)
         /\ Held(min_idx) = tmp_in.data[LeastPlace] /\ Held(min_idx) \in Records
         /\ \A i \in 0 .. k - 1 : \A p \in Pending(i) :
              p \in 1 .. Len(tmp_in.data) /\ Compare(Held(min_idx), tmp_in.data[p]) <= 0
<1> DEFINE data == tmp_in.data
           P(i) == iterators[i].start_pos + iterators[i].pos
<1>1. /\ k \in Nat /\ data \in Seq(Records) /\ PassInv /\ n \in Nat /\ n > 0 /\ run_length > 0
      /\ Len(input) \in Nat /\ Len(data) = Len(input) /\ offset \in Nat
  BY GroupState
<1>2. offset < Len(input) /\ IteratorsInv
  BY DEF IInv, MergeInv
<1>3. ASSUME NEW i \in Holding
      PROVE  /\ i \in 0 .. k - 1 /\ P(i) \in Pending(i) /\ P(i) \in 1 .. Len(data)
             /\ Held(i) = data[P(i)] /\ Held(i) \in Records
             /\ Pending(i) = P(i) .. iterators[i].start_pos + iterators[i].run_length
  <2>1. i \in 0 .. k - 1
    BY DEF Holding
  <2>2. /\ P(i) \in Pending(i) /\ P(i) \in 1 .. Len(data) /\ Held(i) = data[P(i)]
        /\ Pending(i) = P(i) .. iterators[i].start_pos + iterators[i].run_length
    BY <2>1, PendingPlaces
  <2> QED BY <1>1, <2>1, <2>2
<1>4. min_idx \in Holding /\ \A j \in Holding : Compare(Held(min_idx), Held(j)) <= 0
  BY <1>1, <1>3, LeastHeld
<1>5. SegmentsSorted(data, n)
  BY <1>1 DEF PassInv
<1> HIDE DEF data
<1>6. ASSUME NEW i \in 0 .. k - 1, NEW p \in Pending(i)
      PROVE  p \in 1 .. Len(data) /\ Compare(Held(min_idx), data[p]) <= 0
  <2>1. i \in Holding /\ Pending(i) \subseteq Run(i)
    BY PendingPlaces
  <2>2. /\ P(i) \in 1 .. Len(data) /\ Held(i) = data[P(i)] /\ Held(i) \in Records
        /\ P(i) \in Pending(i)
        /\ Pending(i) = P(i) .. iterators[i].start_pos + iterators[i].run_length
    BY <1>3, <2>1
  <2> HIDE DEF P
  <2>3. /\ \A q \in Int :
             q \in Run(i) <=> q \in offset + 1 .. Len(input) /\ (q - 1 - offset) \div n = i
        /\ \A a, b \in Run(i) : (a - 1) \div n = (b - 1) \div n
    BY <1>2, RunPlaces
  <2>4. p \in Int /\ p \in Run(i) /\ P(i) \in Run(i) /\ P(i) <= p
    BY <2>1, <2>2
  <2>5. p \in 1 .. Len(data)
    BY <1>1, <2>3, <2>4
  <2>6. Compare(data[P(i)], data[p]) <= 0
    <3>1. CASE P(i) = p
      BY <2>2, <3>1, CompareAssumption
    <3>2. CASE P(i) < p
      <4>1. (P(i) - 1) \div n = (p - 1) \div n
        BY <2>3, <2>4, Zenon
      <4>2. P(i) \in DOMAIN data /\ p \in DOMAIN data
        BY <1>1, <2>2, <2>5
      <4> QED BY <1>5, <3>2, <4>1, <4>2 DEF SegmentsSorted
    <3> QED BY <2>2, <2>4, <3>1, <3>2
  <2>7. Compare(Held(min_idx), Held(i)) <= 0 /\ Held(min_idx) \in Records
    BY <1>3, <1>4, <2>1
  <2>8. data[p] \in Records
    BY <1>1, <2>5
  <2> QED BY <2>2, <2>5, <2>6, <2>7, <2>8, CompareAssumption
<1>7. P(min_idx) = LeastPlace
  BY DEF LeastPlace
<1> HIDE DEF P
<1> QED BY <1>3, <1>4, <1>6, <1>7 DEF data

\* next takes one place from what its iterator has to give, and none from the others.
LEMMA AdvanceLeast ==
  ASSUME IInv, NoOverflow, MergeStep
  PROVE  /\ pc' = "merge" /\ IteratorsInv'
         /\ \A i \in 0 .. k - 1 :
              Pending(i)' = (IF i = min_idx THEN Pending(i) \ {LeastPlace} ELSE Pending(i))
<1> DEFINE j == min_idx
           it == iterators[j]
           data == tmp_in.data
<1>1. /\ pc = "merge" /\ Holding # {}
      /\ IF SeekFails(it)
           THEN pc' = "exit" /\ UNCHANGED <<iterators, buf>>
           ELSE /\ iterators' = [iterators EXCEPT ![j] = Advance(it, data)]
                /\ buf' = [buf EXCEPT ![j] = Fetched(it)]
                /\ UNCHANGED pc
      /\ UNCHANGED <<args, tmp_in, num_records, n, offset, unprocessed>>
  BY DEF MergeStep
<1>2. IteratorsInv /\ rec_per_buf > 0
  BY <1>1 DEF IInv, MergeInv
<1>3. /\ ArgumentsFixed /\ k \in Nat /\ rec_per_buf \in Nat /\ data \in Seq(Records)
  BY <1>1, GroupState
<1>4. input' = input /\ k' = k /\ rec_per_buf' = rec_per_buf
  BY <1>1, <1>3, ArgumentsKept
<1>5. j \in Holding /\ j \in 0 .. k - 1
  BY <1>1, LeastOfAll
<1>6. /\ IteratorOK(it, data) /\ PointerOK(it, buf[j])
      /\ it.start_pos = offset + j * n /\ it.run_length = RunLength(Len(input) - offset, j, n)
      /\ iterators \in [0 .. k - 1 -> Iterator] /\ buf \in [0 .. k - 1 -> Int]
  BY <1>2, <1>5 DEF IteratorsInv
<1>7. /\ it.start_pos \in Nat /\ it.run_length \in Nat /\ it.pos \in Nat /\ it.buf_no \in Nat
  BY <1>6 DEF IteratorOK, Iterator
<1>8. ~ SeekFails(it)
  <2>1. it.buf_no * rec_per_buf \in Nat
    BY <1>3, <1>7, Z3
  <2> QED BY <1>7, <2>1 DEF SeekFails, SeekPos
<1>9. Pending(j) = LeastPlace .. it.start_pos + it.run_length /\ LeastPlace = it.start_pos + it.pos
  BY <1>1, <1>5, PendingPlaces DEF LeastPlace
<1> HIDE DEF j, it, data
<1>10. /\ iterators' = [iterators EXCEPT ![j] = Advance(it, data)]
       /\ buf' = [buf EXCEPT ![j] = Fetched(it)] /\ pc' = "merge"
  BY <1>1, <1>8
<1>11. /\ IteratorOK(Advance(it, data), data)
       /\ PointerOK(Advance(it, data), Fetched(it))
       /\ Advance(it, data).start_pos = it.start_pos
       /\ Advance(it, data).run_length = it.run_length
       /\ Advance(it, data).pos = (IF Fetched(it) = NULL THEN it.pos ELSE it.pos + 1)
  BY <1>2, <1>3, <1>6, AdvanceOK
<1>12. Fetched(it) \in Int
  BY <1>2, <1>3, <1>7 DEF Fetched, NULL
<1>13. /\ iterators'[j] = Advance(it, data) /\ buf'[j] = Fetched(it)
       /\ \A i \in 0 .. k - 1 : i # j => iterators'[i] = iterators[i] /\ buf'[i] = buf[i]
  BY <1>5, <1>6, <1>10
<1>14. IteratorsInv'
  <2>1. iterators' \in [0 .. k - 1 -> Iterator] /\ buf' \in [0 .. k - 1 -> Int]
    BY <1>5, <1>6, <1>10, <1>11, <1>12, Zenon DEF IteratorOK
  <2>2. ASSUME NEW i \in 0 .. k - 1
        PROVE  /\ IteratorOK(iterators'[i], tmp_in.data) /\ PointerOK(iterators'[i], buf'[i])
               /\ iterators'[i].start_pos = offset + i * n
               /\ iterators'[i].run_length = RunLength(Len(input) - offset, i, n)
    <3>1. CASE i = j
      BY <1>6, <1>11, <1>13, <3>1 DEF data
    <3>2. CASE i # j
      BY <1>2, <1>13, <3>2 DEF IteratorsInv
    <3> QED BY <3>1, <3>2, Zenon
  <2>3. \A i \in 0 .. k - 1 :
          /\ IteratorOK(iterators[i], tmp_in.data)' /\ PointerOK(iterators[i], buf[i])'
          /\ iterators'[i].start_pos = offset' + i * n'
          /\ iterators'[i].run_length = RunLength(Len(input') - offset', i, n')
    BY <1>1, <1>4, <2>2, Zenon DEF IteratorOK, PointerOK, Iterator
  <2>4. Iterator' = Iterator
    BY <1>4 DEF Iterator
  <2> QED BY <1>4, <2>1, <2>3, <2>4 DEF IteratorsInv
<1>15. ASSUME NEW i \in 0 .. k - 1, i = j PROVE Pending(i)' = Pending(i) \ {LeastPlace}
  <2>1. iterators'[i] = Advance(it, data) /\ buf'[i] = Fetched(it)
    BY <1>13, <1>15
  <2>2. Pending(i)' = iterators'[i].start_pos +
            (IF buf'[i] = NULL THEN iterators'[i].pos ELSE iterators'[i].pos - 1) + 1
              .. iterators'[i].start_pos + iterators'[i].run_length
    BY DEF Pending
  <2>3. (IF Fetched(it) = NULL THEN Advance(it, data).pos ELSE Advance(it, data).pos - 1) = it.pos
    BY <1>7, <1>11
  <2>4. Pending(i)' = it.start_pos + it.pos + 1 .. it.start_pos + it.run_length
    BY <1>11, <2>1, <2>2, <2>3
  <2> QED BY <1>7, <1>9, <1>15, <2>4
<1>16. ASSUME NEW i \in 0 .. k - 1, i # j PROVE Pending(i)' = Pending(i)
  BY <1>13, <1>16 DEF Pending
<1>17. \A i \in 0 .. k - 1 :
         Pending(i)' = (IF i = j THEN Pending(i) \ {LeastPlace} ELSE Pending(i))
  BY <1>15, <1>16
<1> QED BY <1>10, <1>14, <1>17 DEF j

\* The places still to merge are those of before without that of the record written.
LEMMA OneLess ==
  ASSUME IInv, NoOverflow, MergeStep
  PROVE  /\ LeastPlace \in ToMerge /\ ToMerge' = ToMerge \ {LeastPlace}
         /\ IsFiniteSet(ToMerge) /\ ToMerge \subseteq 1 .. Len(tmp_in.data)
<1> DEFINE N == Len(input)
           tail == offset + n * k + 1 .. N
           p0 == LeastPlace
<1>1. /\ pc = "merge" /\ Holding # {} /\ UNCHANGED <<args, tmp_in, num_records, n, offset>>
  BY DEF MergeStep
<1>2. /\ ArgumentsFixed /\ N \in Nat /\ k \in Nat /\ n \in Nat /\ n * k \in Nat
      /\ offset \in Nat /\ num_records = N /\ Len(tmp_in.data) = N
  BY <1>1, GroupState
<1>3. input' = input /\ k' = k
  BY <1>1, <1>2, ArgumentsKept
<1>4. /\ min_idx \in 0 .. k - 1 /\ p0 \in Pending(min_idx) /\ p0 \in 1 .. N
      /\ \A i \in 0 .. k - 1 : \A p \in Pending(i) : p \in 1 .. N
  BY <1>1, <1>2, LeastOfAll
<1>5. /\ pc' = "merge"
      /\ \A i \in 0 .. k - 1 :
           Pending(i)' = (IF i = min_idx THEN Pending(i) \ {p0} ELSE Pending(i))
  BY AdvanceLeast
<1>6. offset < N
  BY <1>1 DEF IInv, MergeInv
<1>7. ASSUME NEW i \in 0 .. k - 1
      PROVE  /\ \A p \in Int : p \in Run(i) => (p - 1 - offset) \div n = i
             /\ \A p \in Run(i) : p <= offset + n * k
             /\ Pending(i) \subseteq Run(i)
  BY <1>1, <1>6, RunPlaces, PendingPlaces
<1>8. ToMerge = tail \cup UNION {Pending(i) : i \in 0 .. k - 1}
  BY <1>1, <1>2 DEF ToMerge
<1>9. ToMerge' = tail \cup UNION {Pending(i)' : i \in 0 .. k - 1}
  BY <1>1, <1>2, <1>3, <1>5 DEF ToMerge
<1> HIDE DEF N
<1>10. p0 \notin tail
  <2>1. p0 <= offset + n * k
    BY <1>4, <1>7
  <2> QED BY <1>2, <1>4, <2>1
<1>11. ASSUME NEW i \in 0 .. k - 1, p0 \in Pending(i) PROVE i = min_idx
  <2>1. p0 \in Int
    BY <1>4
  <2>2. (p0 - 1 - offset) \div n = i
    BY <1>7, <1>11, <2>1
  <2>3. \A l \in 0 .. k - 1 : p0 \in Pending(l) => (p0 - 1 - offset) \div n = l
    BY <1>7, <2>1
  <2> QED BY <1>4, <2>2, <2>3
<1> HIDE DEF p0
<1>12. \A p : p \in UNION {Pending(i)' : i \in 0 .. k - 1}
                <=> p # p0 /\ p \in UNION {Pending(i) : i \in 0 .. k - 1}
  <2>1. ASSUME NEW p, NEW i \in 0 .. k - 1
        PROVE  p \in Pending(i)' <=> p # p0 /\ p \in Pending(i)
    BY <1>5, <1>11
  <2> QED BY <2>1
<1>13. ToMerge' = ToMerge \ {p0}
  <2> HIDE DEF tail
  <2> QED BY <1>8, <1>9, <1>10, <1>12
<1>14. p0 \in ToMerge
  BY <1>4, <1>8
<1>15. ToMerge \subseteq 1 .. N
  <2>1. tail \subseteq 1 .. N
    BY <1>2
  <2>2. UNION {Pending(i) : i \in 0 .. k - 1} \subseteq 1 .. N
    BY <1>4, Zenon
  <2> QED BY <1>8, <2>1, <2>2
<1>16. IsFiniteSet(ToMerge)
  <2>1. IsFiniteSet(1 .. N)
    BY <1>2, FS_Interval
  <2> QED BY <1>15, <2>1, FS_Subset, Zenon
<1> QED BY <1>2, <1>13, <1>14, <1>15, <1>16 DEF p0, N

\* A record that is not less than those of its own segment can be written after them.
LEMMA SegmentsAppend ==
  ASSUME NEW s \in Seq(Records), NEW r \in Records, NEW m \in Nat, m > 0,
         NEW o \in Nat, o % m = 0, SegmentsSorted(s, m), o <= Len(s),
         \A w \in o + 1 .. Len(s) : Compare(s[w], r) <= 0
  PROVE  SegmentsSorted(Append(s, r), m)
<1> DEFINE t == Append(s, r)
           q == o \div m
<1>1. Len(s) \in Nat /\ DOMAIN s = 1 .. Len(s) /\ DOMAIN t = 1 .. Len(s) + 1
  OBVIOUS
<1>2. t[Len(s) + 1] = r /\ \A i \in 1 .. Len(s) : t[i] = s[i]
  OBVIOUS
<1>3. q \in Nat /\ o = q * m
  BY MultipleOf
<1> HIDE DEF t, q
<1>4. ASSUME NEW i \in 1 .. Len(s) + 1, NEW j \in 1 .. Len(s) + 1, i < j,
             (i - 1) \div m = (j - 1) \div m
      PROVE  Compare(t[i], t[j]) <= 0
  <2>1. i \in 1 .. Len(s)
    BY <1>1, <1>4
  <2>2. CASE j <= Len(s)
    <3>1. j \in 1 .. Len(s)
      BY <1>1, <2>2
    <3>2. Compare(s[i], s[j]) <= 0
      BY <1>1, <1>4, <2>1, <3>1, Zenon DEF SegmentsSorted
    <3> QED BY <1>2, <2>1, <3>1, <3>2
  <2>3. CASE j = Len(s) + 1
    <3>1. j - 1 \in Nat /\ i - 1 \in Nat /\ j - 1 = Len(s)
      BY <1>1, <2>1, <2>3
    <3>2. q * m <= j - 1 => q <= (j - 1) \div m
      BY <1>3, <3>1, SegmentAfter
    <3>3. q <= (i - 1) \div m => q * m <= i - 1
      BY <1>3, <3>1, SegmentAfter
    <3>4. o <= i - 1
      BY <1>3, <1>4, <3>1, <3>2, <3>3
    <3>5. i \in o + 1 .. Len(s)
      BY <1>1, <2>1, <3>4
    <3> QED BY <1>2, <2>1, <2>3, <3>5
  <2> QED BY <1>1, <2>2, <2>3
<1> QED BY <1>1, <1>4 DEF SegmentsSorted, t

\* kway_merge moves one record from what is to merge to what is written, and what
\* the group has written stays sorted and not greater than what is to come.
LEMMA MergeStepInv ==
  ASSUME IInv, NoOverflow, MergeStep
  PROVE  IInv'
<1> DEFINE N == Len(input)
           r == Held(min_idx)
           p0 == LeastPlace
           data == tmp_in.data
           W == Written
           at == tmp_out.at
<1>1. /\ pc = "merge" /\ Holding # {} /\ tmp_out' = Write(tmp_out, r)
      /\ UNCHANGED <<args, tmp_in, num_records, n, offset, unprocessed>>
  BY DEF MergeStep
<1>2. pc' = "merge" /\ IteratorsInv'
  BY AdvanceLeast
<1>3. /\ ArgumentsFixed /\ PassInv /\ GroupInv /\ N \in Nat /\ k \in Nat /\ n \in Nat
      /\ n * k \in Nat /\ n * k > 0 /\ offset \in Nat /\ offset % (n * k) = 0
      /\ num_records = N /\ data \in Seq(Records)
      /\ tmp_out \in File /\ at \in Nat /\ at <= Len(tmp_out.data)
      /\ Len(tmp_out.data) \in Nat /\ Len(tmp_out.data) <= N
  BY <1>1, GroupState
<1>4. /\ rec_per_buf > 0 /\ offset < N /\ unprocessed = Rest(N - offset, k, n)
      /\ at >= offset /\ at + Cardinality(ToMerge) = N
      /\ \A w \in offset + 1 .. at : \A i \in 0 .. k - 1 : \A p \in Pending(i) :
           Compare(tmp_out.data[w], data[p]) <= 0
  BY <1>1 DEF IInv, MergeInv
<1>5. /\ ArgumentsFixed' /\ input' = input /\ k' = k
      /\ run_length' = run_length /\ rec_per_buf' = rec_per_buf
  BY <1>1, <1>3, ArgumentsKept
<1>6. /\ min_idx \in 0 .. k - 1 /\ p0 \in Pending(min_idx) /\ r = data[p0] /\ r \in Records
      /\ \A i \in 0 .. k - 1 : \A p \in Pending(i) : Compare(r, data[p]) <= 0
  BY <1>1, LeastOfAll
<1>7. /\ p0 \in ToMerge /\ ToMerge' = ToMerge \ {p0} /\ IsFiniteSet(ToMerge)
  BY OneLess
<1>8. ASSUME NEW i \in 0 .. k - 1 PROVE Pending(i)' \subseteq Pending(i)
  BY AdvanceLeast
<1> HIDE DEF r, p0
<1>9. /\ tmp_out' \in File /\ tmp_out'.at = at + 1 /\ tmp_out'.at <= Len(tmp_out'.data)
      /\ Len(tmp_out'.data) = (IF at = Len(tmp_out.data) THEN at + 1 ELSE Len(tmp_out.data))
      /\ tmp_out'.data[at + 1] = r
      /\ \A w \in 1 .. at : tmp_out'.data[w] = tmp_out.data[w]
  BY <1>1, <1>3, <1>6, WriteAppends
<1>10. W \in Seq(Records) /\ Written' = Append(W, r)
  BY <1>1, <1>3, <1>6, WriteExtends, Zenon DEF Written
<1>11. Len(W) = at /\ \A w \in 1 .. at : W[w] = tmp_out.data[w]
  <2>1. tmp_out.data \in Seq(Records)
    BY <1>3 DEF File
  <2> QED BY <1>3, <2>1 DEF Written
<1>12. /\ Cardinality(ToMerge) \in Nat /\ Cardinality(ToMerge) > 0
       /\ Cardinality(ToMerge') = Cardinality(ToMerge) - 1
  <2>1. Cardinality(ToMerge) \in Nat
    BY <1>7, FS_CardinalityType
  <2>2. Cardinality(ToMerge \ {p0}) = Cardinality(ToMerge) - 1 /\ IsFiniteSet(ToMerge \ {p0})
    BY <1>7, FS_RemoveElement
  <2>3. Cardinality(ToMerge \ {p0}) \in Nat
    BY <2>2, FS_CardinalityType
  <2> QED BY <1>7, <2>1, <2>2, <2>3
<1> HIDE DEF W
<1>13. SegmentsSorted(Written', n * k)
  <2> DEFINE m == n * k
  <2>1. m \in Nat /\ m > 0 /\ offset % m = 0 /\ SegmentsSorted(W, m)
    BY <1>3 DEF GroupInv, W
  <2>2. \A w \in offset + 1 .. Len(W) : Compare(W[w], r) <= 0
    BY <1>3, <1>4, <1>6, <1>11
  <2> HIDE DEF m
  <2>3. SegmentsSorted(Append(W, r), m)
    BY <1>3, <1>4, <1>6, <1>10, <1>11, <2>1, <2>2, SegmentsAppend
  <2> QED BY <1>10, <2>3 DEF m
<1>14. Conserved'
  <2>1. ASSUME NEW rec \in Records
        PROVE  Count(Written', rec) + Cardinality({p \in ToMerge' : tmp_in'.data[p] = rec})
                 = Count(input', rec)
    <3> DEFINE P == {p \in ToMerge : data[p] = rec}
               Q == {p \in ToMerge' : tmp_in'.data[p] = rec}
               one == IF r = rec THEN 1 ELSE 0
    <3>1. Count(Written', rec) = Count(W, rec) + one
      BY <1>6, <1>10, CountAppend
    <3>2. Count(W, rec) \in Nat
      BY <1>10, PlacesFinite, Zenon
    <3>3. Count(W, rec) + Cardinality(P) = Count(input, rec)
      BY <1>1, <1>3 DEF GroupInv, Conserved, W
    <3>4. IsFiniteSet(P)
      <4>1. P \subseteq ToMerge
        OBVIOUS
      <4> QED BY <1>7, <4>1, FS_Subset
    <3>5. Q = (IF r = rec THEN P \ {p0} ELSE P)
      <4>1. Q = {p \in ToMerge \ {p0} : data[p] = rec}
        BY <1>1, <1>7
      <4> QED BY <1>6, <4>1
    <3>6. r = rec => p0 \in P
      BY <1>6, <1>7, Zenon
    <3> HIDE DEF P, Q
    <3>7. Cardinality(P) \in Nat
      BY <3>4, FS_CardinalityType
    <3>8. r = rec => Cardinality(P \ {p0}) = Cardinality(P) - 1
      BY <3>4, <3>6, FS_RemoveElement
    <3>9. Cardinality(Q) = Cardinality(P) - one
      BY <3>5, <3>7, <3>8
    <3>10. Count(Written', rec) + Cardinality(Q) = Count(input, rec)
      BY <3>1, <3>2, <3>3, <3>7, <3>9
    <3> QED BY <1>5, <3>10 DEF Q
  <2> QED BY <2>1 DEF Conserved
<1>15. GroupInv'
  BY <1>1, <1>3, <1>5, <1>13, <1>14 DEF GroupInv
<1>16. PassInv'
  <2>1. Len(tmp_out'.data) <= N
    BY <1>3, <1>4, <1>9, <1>12
  <2> QED BY <1>1, <1>3, <1>5, <2>1 DEF PassInv
<1>17. MergeInv'
  <2>1. /\ rec_per_buf' > 0 /\ offset' < Len(input')
        /\ unprocessed' = Rest(Len(input') - offset', k', n')
    BY <1>1, <1>4, <1>5
  <2>2. tmp_out'.at >= offset' /\ tmp_out'.at + Cardinality(ToMerge') = Len(input')
    BY <1>1, <1>3, <1>4, <1>5, <1>9, <1>12
  <2>3. ASSUME NEW w \in offset + 1 .. at + 1, NEW i \in 0 .. k - 1, NEW p \in Pending(i)'
        PROVE  Compare(tmp_out'.data[w], data[p]) <= 0
    <3>1. p \in Pending(i)
      BY <1>8
    <3>2. CASE w = at + 1
      BY <1>6, <1>9, <3>1, <3>2
    <3>3. CASE w # at + 1
      <4>1. w \in offset + 1 .. at /\ w \in 1 .. at
        BY <1>3, <3>3
      <4> QED BY <1>4, <1>9, <3>1, <4>1
    <3> QED BY <3>2, <3>3
  <2>4. \A w \in offset' + 1 .. tmp_out'.at : \A i \in 0 .. k' - 1 : \A p \in Pending(i)' :
          Compare(tmp_out'.data[w], tmp_in'.data[p]) <= 0
    BY <1>1, <1>5, <1>9, <2>3
  <2> QED BY <1>2, <2>1, <2>2, <2>4 DEF MergeInv
<1>18. tmp_in' \in File
  BY <1>1 DEF IInv
<1> QED BY <1>1, <1>2, <1>5, <1>9, <1>15, <1>16, <1>17, <1>18 DEF IInv, OutputSorted

-----------------------------------------------------------------------------
\* The invariant is inductive.
LEMMA NextInv ==
  ASSUME IInv, NoOverflow, [Next]_vars
  PROVE  IInv'
<1>1. CASE Next
  BY <1>1, MakeRunInv, RunsMadeInv, StartPassInv, CopyOutInv, StartMergeInv, MergeStepInv,
     EndMergeInv, EndPassInv DEF Next
<1>2. CASE UNCHANGED vars
  <2>1. /\ UNCHANGED <<args, pc, in_at, tmp_in, tmp_out, num_records>>
        /\ UNCHANGED <<n, offset, unprocessed, iterators, buf>>
    BY <1>2 DEF vars
  <2>2. ArgumentsFixed /\ OutputSorted
    BY DEF IInv
  <2>3. /\ ArgumentsFixed' /\ input' = input /\ k' = k
        /\ run_length' = run_length /\ rec_per_buf' = rec_per_buf
    BY <2>1, <2>2, ArgumentsKept
  <2>4. RunsInv => RunsInv'
    BY <2>1, <2>3 DEF RunsInv
  <2>5. PassInv => PassInv'
    BY <2>1, <2>3 DEF PassInv
  <2>6. ToMerge' = ToMerge /\ Written' = Written
    BY <2>1, <2>3 DEF ToMerge, Written, Pending
  <2>7. GroupInv => GroupInv'
    BY <2>1, <2>3, <2>6 DEF GroupInv, Conserved
  <2>8. BetweenGroups => BetweenGroups'
    BY <2>1, <2>3 DEF BetweenGroups
  <2>9. IteratorsInv => IteratorsInv'
    BY <2>1, <2>3, Zenon DEF IteratorsInv, IteratorOK, PointerOK, Iterator
  <2>12. \A i : Pending(i)' = Pending(i)
    BY <2>1, Zenon DEF Pending
  <2>10. MergeInv => MergeInv'
    <3>1. Cardinality(ToMerge)' = Cardinality(ToMerge)
      BY <2>6, Zenon
    <3>2. Rest(Len(input) - offset, k, n)' = Rest(Len(input) - offset, k, n)
      BY <2>1, <2>3, Zenon DEF Rest
    <3> QED BY <2>1, <2>3, <2>9, <2>12, <3>1, <3>2, Zenon DEF MergeInv
  <2>11. OutputSorted'
    BY <2>1, <2>2, <2>3 DEF OutputSorted
  <2> QED BY <2>1, <2>3, <2>4, <2>5, <2>7, <2>8, <2>10, <2>11 DEF IInv
<1> QED BY <1>1, <1>2

\* In every state of msort
LEMMA Invariant ==
  ASSUME NoOverflow
  PROVE  Spec => []IInv
<1>1. Init => IInv
  BY InitInv
<1>2. IInv /\ [Next]_vars => IInv'
  BY NextInv
<1> QED BY <1>1, <1>2, PTL DEF Spec

\* msort sorts: if it has memory for a record and ends, the file that it copies to
\* the output holds the records of the input, each as often, in order, whatever
\* the file, the memory and k, provided that its ints do not overflow.
THEOREM MergeSortSorts ==
  ASSUME NoOverflow
  PROVE  Spec => []OutputSorted
<1>1. IInv => OutputSorted
  BY DEF IInv
<1> QED BY <1>1, Invariant, PTL

\* No record is lost or written twice in a pass, at any step of it.
THEOREM MergeSortConserves ==
  ASSUME NoOverflow
  PROVE  Spec => []Conserved
<1>1. IInv => Conserved
  BY DEF IInv, GroupInv, Conserved
<1> QED BY <1>1, Invariant, PTL

\* The loop over n: tmp_in is n sorted, and what a pass has written is kn sorted.
THEOREM MergeSortPasses ==
  ASSUME NoOverflow
  PROVE  Spec => []PassesSort
<1>1. IInv => PassesSort
  <2>1. ASSUME IInv, pc \in {"pass", "group", "merge"}, n > 0
        PROVE  SegmentsSorted(tmp_in.data, n)
    <3>1. PassInv /\ ArgumentsFixed /\ tmp_in \in File
      BY <2>1 DEF IInv
    <3>2. run_length \in Nat
      BY <3>1, ArgumentFacts
    <3>3. CASE run_length = 0
      <4>1. tmp_in.data \in Seq(Records) /\ Len(tmp_in.data) = 0
        BY <3>1, <3>3 DEF PassInv, File
      <4>2. DOMAIN tmp_in.data = {}
        BY <4>1
      <4> QED BY <4>2 DEF SegmentsSorted
    <3>4. CASE run_length > 0
      BY <3>1, <3>4 DEF PassInv
    <3> QED BY <3>2, <3>3, <3>4
  <2>2. ASSUME IInv, pc \in {"group", "merge"}
        PROVE  SegmentsSorted(Written, n * k)
    BY <2>2 DEF IInv, GroupInv
  <2> QED BY <2>1, <2>2 DEF PassesSort
<1> QED BY <1>1, Invariant, PTL

\* A pointer into a read buffer is never left pointing at another record: the
\* buffer is refilled only when the record that was pointed to has been written.
THEOREM MergeSortPointers ==
  ASSUME NoOverflow
  PROVE  Spec => []PointersCurrent
<1>1. IInv => PointersCurrent
  <2>1. ASSUME IInv, pc = "merge", NEW i \in Holding
        PROVE  Held(i) = tmp_in.data[iterators[i].start_pos + iterators[i].pos]
    <3>1. i \in 0 .. k - 1
      BY DEF Holding
    <3> QED BY <2>1, <3>1, PendingPlaces, Zenon
  <2> QED BY <2>1 DEF PointersCurrent
<1> QED BY <1>1, Invariant, PTL

====
