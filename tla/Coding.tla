------------------------------- MODULE Coding -------------------------------
(***************************************************************************)
(* How numbers, slices, write batches and version edits become bytes and   *)
(* are read back (util/coding.cc, db/write_batch.cc, db/version_edit.cc).  *)
(* A byte is a number below ByteBase.  Reading takes the input that is     *)
(* left and returns whether it succeeded, the value and the rest.          *)
(***************************************************************************)
EXTENDS Integers, Sequences, SequencesExt, FiniteSetsExt

CONSTANTS VarintBase,       \* 128: what a byte of a varint can hold
          Fixed32Size,      \* 4 bytes
          Fixed64Size,      \* 8
          MaxVarint32,      \* 5: the longest varint32
          MaxVarint64,      \* 10
          kNumLevels        \* 7 in db/dbformat.h

ByteBase == 2 * VarintBase

-----------------------------------------------------------------------------
(* Numbers and slices.                                                     *)

EncodeFixed(v, size) == [i \in 1 .. size |-> (v \div ByteBase ^ (i - 1)) % ByteBase]

(* The number whose digits are the given ones, the least significant first.*)
Digits(s, base) ==
  LET v[i \in 0 .. Len(s)] == IF i = 0 THEN 0 ELSE v[i - 1] + s[i] * base ^ (i - 1)
  IN  v[Len(s)]

DecodeFixed(s) == Digits(s, ByteBase)

PutVarint[v \in Nat] ==
  IF v < VarintBase THEN <<v>>
  ELSE <<(v % VarintBase) + VarintBase>> \o PutVarint[v \div VarintBase]

Failed == [ok |-> FALSE, value |-> 0, rest |-> <<>>]

(* The bytes up to the first one without the continuation bit.             *)
GetVarint(input, limit) ==
  LET ends == {i \in 1 .. Min({limit, Len(input)}) : input[i] < VarintBase}
      n == Min(ends)
  IN  IF ends = {} THEN Failed
      ELSE [ok |-> TRUE, rest |-> SubSeq(input, n + 1, Len(input)),
            value |-> Digits([i \in 1 .. n |-> input[i] % VarintBase], VarintBase)]

\* Mutant: the length takes one byte.
PutShortPrefix(value) == <<Len(value)>> \o value

PutLengthPrefixedSlice(value) == PutVarint[Len(value)] \o value

GetLengthPrefixedSlice(input) ==
  LET p == GetVarint(input, MaxVarint32)
  IN  IF ~p.ok \/ Len(p.rest) < p.value THEN Failed
      ELSE [ok |-> TRUE, value |-> SubSeq(p.rest, 1, p.value),
            rest |-> SubSeq(p.rest, p.value + 1, Len(p.rest))]

GetLevel(input) ==
  LET p == GetVarint(input, MaxVarint32)
  IN  IF p.ok /\ p.value < kNumLevels THEN p ELSE Failed

(* Several fields in a row; value is the sequence of their values.         *)
GetFields(input, fields) ==
  LET Get(field, s) == CASE field = "number" -> GetVarint(s, MaxVarint64)
                         [] field = "slice" -> GetLengthPrefixedSlice(s)
                         [] field = "level" -> GetLevel(s)
      p[i \in 0 .. Len(fields)] ==
        IF i = 0 THEN [ok |-> TRUE, rest |-> input, value |-> <<>>]
        ELSE LET q == Get(fields[i], p[i - 1].rest)
             IN  IF ~p[i - 1].ok \/ ~q.ok THEN Failed
                 ELSE [ok |-> TRUE, rest |-> q.rest, value |-> Append(p[i - 1].value, q.value)]
  IN  p[Len(fields)]

-----------------------------------------------------------------------------
(* Write batches: a sequence number and the operations <<type, key, value>>*)
(* or <<type, key>>.                                                       *)

kTypeDeletion == 0
kTypeValue == 1
kHeader == Fixed64Size + Fixed32Size

WriteBatch(sequence, ops) == [sequence |-> sequence, ops |-> ops]

EncodeBatch(b) ==
  LET Rep(op) == <<op[1]>> \o FlattenSeq([i \in 1 .. Len(op) - 1 |-> PutLengthPrefixedSlice(op[i + 1])])
  IN  EncodeFixed(b.sequence, Fixed64Size) \o EncodeFixed(Len(b.ops), Fixed32Size)
        \o FlattenSeq([i \in DOMAIN b.ops |-> Rep(b.ops[i])])

(* The operations handed to the handler before the end or an error.        *)
RECURSIVE Operations(_, _)
Operations(input, ops) ==
  LET tag == Head(input)
      p == GetFields(Tail(input), IF tag = kTypeValue THEN <<"slice", "slice">> ELSE <<"slice">>)
  IN  IF input = <<>> THEN [ok |-> TRUE, ops |-> ops]
      ELSE IF tag \notin {kTypeValue, kTypeDeletion} \/ ~p.ok THEN [ok |-> FALSE, ops |-> ops]
      ELSE Operations(p.rest, Append(ops, <<tag>> \o p.value))

Count(rep) == DecodeFixed(SubSeq(rep, Fixed64Size + 1, kHeader))
Sequence(rep) == DecodeFixed(SubSeq(rep, 1, Fixed64Size))

(* WriteBatch::Iterate over a record of the log.                           *)
Iterate(rep) ==
  LET got == Operations(SubSeq(rep, kHeader + 1, Len(rep)), <<>>)
  IN  IF Len(rep) < kHeader THEN [ok |-> FALSE, value |-> WriteBatch(0, <<>>)]
      ELSE [ok |-> got.ok /\ Len(got.ops) = Count(rep), value |-> WriteBatch(Sequence(rep), got.ops)]

-----------------------------------------------------------------------------
(* Version edits.  A field with a has_ flag is a sequence of at most one   *)
(* value.                                                                  *)

kComparator == 1
kLogNumber == 2
kNextFileNumber == 3
kLastSequence == 4
kCompactPointer == 5
kDeletedFile == 6
kNewFile == 7
kPrevLogNumber == 9

NewEdit ==
  [comparator |-> <<>>, log_number |-> <<>>, prev_log_number |-> <<>>, next_file_number |-> <<>>,
   last_sequence |-> <<>>, compact_pointers |-> <<>>, deleted_files |-> {}, new_files |-> <<>>]

Smaller(a, b) == a[1] < b[1] \/ (a[1] = b[1] /\ a[2] < b[2])

EncodeEdit(e) ==
  LET Fields(tag, Put(_), s) == FlattenSeq([i \in DOMAIN s |-> PutVarint[tag] \o Put(s[i])])
      Number(n) == PutVarint[n]
      Pointer(p) == PutVarint[p[1]] \o PutLengthPrefixedSlice(p[2])
      Deleted(d) == PutVarint[d[1]] \o PutVarint[d[2]]
      File(f) == PutVarint[f[1]] \o PutVarint[f[2]] \o PutVarint[f[3]]
                   \o PutLengthPrefixedSlice(f[4]) \o PutLengthPrefixedSlice(f[5])
  IN  Fields(kComparator, PutLengthPrefixedSlice, e.comparator)
        \o Fields(kLogNumber, Number, e.log_number)
        \o Fields(kPrevLogNumber, Number, e.prev_log_number)
        \o Fields(kNextFileNumber, Number, e.next_file_number)
        \o Fields(kLastSequence, Number, e.last_sequence)
        \o Fields(kCompactPointer, Pointer, e.compact_pointers)
        \o Fields(kDeletedFile, Deleted, SetToSortSeq(e.deleted_files, Smaller))
        \o Fields(kNewFile, File, e.new_files)

(* What a tag is followed by, and what the edit becomes.                   *)
FieldsOf(tag) ==
  CASE tag = kComparator -> <<"slice">>
    [] tag \in {kLogNumber, kPrevLogNumber, kNextFileNumber, kLastSequence} -> <<"number">>
    [] tag = kCompactPointer -> <<"level", "slice">>
    [] tag = kDeletedFile -> <<"level", "number">>
    [] tag = kNewFile -> <<"level", "number", "number", "slice", "slice">>

SetField(e, tag, v) ==
  CASE tag = kComparator -> [e EXCEPT !.comparator = v]
    [] tag = kLogNumber -> [e EXCEPT !.log_number = v]
    [] tag = kPrevLogNumber -> [e EXCEPT !.prev_log_number = v]
    [] tag = kNextFileNumber -> [e EXCEPT !.next_file_number = v]
    [] tag = kLastSequence -> [e EXCEPT !.last_sequence = v]
    [] tag = kCompactPointer -> [e EXCEPT !.compact_pointers = Append(@, v)]
    [] tag = kDeletedFile -> [e EXCEPT !.deleted_files = @ \cup {v}]
    [] tag = kNewFile -> [e EXCEPT !.new_files = Append(@, v)]

RECURSIVE DecodeEdit(_, _)
DecodeEdit(input, e) ==
  LET t == GetVarint(input, MaxVarint32)
      known == t.value \in 1 .. 7 \cup {kPrevLogNumber}
      p == GetFields(t.rest, FieldsOf(t.value))
  IN  IF ~t.ok THEN [ok |-> input = <<>>, value |-> e]
      ELSE IF ~known \/ ~p.ok THEN [ok |-> FALSE, value |-> e]
      ELSE DecodeEdit(p.rest, SetField(e, t.value, p.value))

DecodeFrom(rep) == DecodeEdit(rep, NewEdit)

=============================================================================
