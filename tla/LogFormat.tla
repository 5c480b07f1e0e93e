----------------------------- MODULE LogFormat ------------------------------
(***************************************************************************)
(* The physical format of the write-ahead log and of the MANIFEST          *)
(* (db/log_writer.cc, db/log_reader.cc).  A record is cut into fragments   *)
(* that do not cross a block; a fragment has a header of kHeaderSize       *)
(* bytes.  A byte is <<0, 0, <<>>, b>> when it holds data; the i-th byte of*)
(* a header is <<i, type, payload, 0>>: its checksum covers the type and   *)
(* the payload, so a header is told from any other bytes, and a payload    *)
(* from any other payload.                                                 *)
(***************************************************************************)
EXTENDS Integers, Sequences, SequencesExt, FiniteSetsExt

CONSTANTS kBlockSize,       \* 32768 in db/log_format.h
          kHeaderSize       \* 7

kZeroType == 0
kFullType == 1
kFirstType == 2
kMiddleType == 3
kLastType == 4
kEof == 5
kBadRecord == 6

Data(bytes) == [i \in DOMAIN bytes |-> <<0, 0, <<>>, bytes[i]>>]
Zeros(n) == [i \in 1 .. n |-> <<0, 0, <<>>, 0>>]

-----------------------------------------------------------------------------
(* Writer.                                                                 *)

(* The bytes of a physical record: its header and its payload.             *)
EmitPhysicalRecord(type, payload) ==
  [i \in 1 .. kHeaderSize |-> <<i, type, payload, 0>>] \o Data(payload)

(* The fragments AddRecord appends one after the other, each with the      *)
(* zeros that fill the block before it, and block_offset_ after it.  Only  *)
(* the first one can have zeros: the others begin where a block begins.    *)
RECURSIVE Fragments(_, _, _)
Fragments(left, begin, block_offset) ==
  LET leftover == kBlockSize - block_offset
      switch == leftover < kHeaderSize
      offset == IF switch THEN 0 ELSE block_offset
      avail == kBlockSize - offset - kHeaderSize
      n == IF Len(left) < avail THEN Len(left) ELSE avail
      end == n = Len(left)
      type == CASE begin /\ end -> kFullType
                [] begin /\ ~end -> kFirstType
                [] ~begin /\ end -> kLastType
                [] OTHER -> kMiddleType
      fragment == [trailer |-> IF switch THEN Zeros(leftover) ELSE <<>>,
                   cells |-> EmitPhysicalRecord(type, SubSeq(left, 1, n)),
                   block_offset |-> offset + kHeaderSize + n]
  IN  IF end THEN <<fragment>>
      ELSE <<fragment>> \o Fragments(SubSeq(left, n + 1, Len(left)), FALSE, fragment.block_offset)

-----------------------------------------------------------------------------
(* Reader.  reads is the sequence of results of file_->Read(kBlockSize),   *)
(* each [ok, block].  Its state: the number of reads made, the part of the *)
(* block that is not yet parsed, whether the last read was short or failed,*)
(* and whether some drop was reported.                                     *)

NewReader == [reads |-> 0, buffer |-> <<>>, eof |-> FALSE, reported |-> FALSE]

\* Mutant: dropped bytes are not reported.
DropSilently(r, report) == [r EXCEPT !.buffer = <<>>]

(* ReportCorruption, the rest of the buffer dropped.                       *)
Drop(r, report) == [r EXCEPT !.buffer = <<>>, !.reported = @ \/ report]

(* The next physical record: its type, its fragment and the reader after   *)
(* it.  Bytes that are no record (a length or a checksum that does not     *)
(* fit) take the rest of the block with them, a read that fails the rest   *)
(* of the file.                                                            *)
ReadPhysicalRecord(reads, reader) ==
  LET read == reads[reader.reads + 1]
      more == Len(reader.buffer) < kHeaderSize /\ ~reader.eof
      r == IF ~more THEN reader
           ELSE [reader EXCEPT !.reads = @ + 1, !.buffer = read.block,
                               !.eof = ~read.ok \/ Len(read.block) < kBlockSize]
      h == r.buffer[1]
      size == kHeaderSize + Len(h[3])
      zero == SubSeq(r.buffer, 1, kHeaderSize) = Zeros(kHeaderSize)
      intact == size <= Len(r.buffer)
                  /\ SubSeq(r.buffer, 1, size) = EmitPhysicalRecord(h[2], h[3])
  IN  IF more /\ ~read.ok
      THEN [type |-> kEof, fragment |-> <<>>, r |-> Drop(r, TRUE)]
      ELSE IF Len(r.buffer) < kHeaderSize
      THEN [type |-> kEof, fragment |-> <<>>, r |-> Drop(r, r.buffer # <<>>)]
      ELSE IF ~intact
      THEN [type |-> kBadRecord, fragment |-> <<>>, r |-> Drop(r, ~zero)]
      ELSE [type |-> h[2], fragment |-> h[3],
            r |-> [r EXCEPT !.buffer = SubSeq(@, size + 1, Len(@))]]

(* One round of the loop of ReadRecord: s holds the reader, the records    *)
(* returned so far, and scratch with the fragments of the record that is   *)
(* being read.                                                             *)
NewScan == [reader |-> NewReader, scratch |-> <<>>, in_fragmented_record |-> FALSE,
            records |-> <<>>, eof |-> FALSE]

\* Mutant: a fragmented record goes on after an error in its middle.
KeepScratch(s, p) ==
  LET in == s.in_fragmented_record
      fragments == IF p.type \in {kMiddleType, kLastType, kBadRecord} /\ in THEN s.scratch \o p.fragment
                   ELSE p.fragment
      complete == p.type = kFullType \/ (p.type = kLastType /\ in)
      report == \/ p.type \in {kFullType, kFirstType} /\ in /\ s.scratch # <<>>
                \/ p.type \in {kMiddleType, kLastType} /\ ~in
                \/ p.type \in {kEof, kBadRecord} /\ in
  IN  [reader |-> [p.r EXCEPT !.reported = @ \/ report],
       scratch |-> IF complete THEN <<>> ELSE fragments,
       in_fragmented_record |-> p.type = kFirstType \/ (p.type \in {kMiddleType, kBadRecord} /\ in),
       records |-> IF complete THEN Append(s.records, fragments) ELSE s.records,
       eof |-> p.type = kEof]

ReadRecord(s, p) ==
  LET in == s.in_fragmented_record
      fragments == IF p.type \in {kMiddleType, kLastType} /\ in THEN s.scratch \o p.fragment
                   ELSE IF p.type \in {kFullType, kFirstType} THEN p.fragment
                   ELSE <<>>
      complete == p.type = kFullType \/ (p.type = kLastType /\ in)
      report == \/ p.type \in {kFullType, kFirstType} /\ in /\ s.scratch # <<>>
                \/ p.type \in {kMiddleType, kLastType} /\ ~in
                \/ p.type \in {kEof, kBadRecord} /\ in
  IN  [reader |-> [p.r EXCEPT !.reported = @ \/ report],
       scratch |-> IF complete THEN <<>> ELSE fragments,
       in_fragmented_record |-> p.type = kFirstType \/ (p.type = kMiddleType /\ in),
       records |-> IF complete THEN Append(s.records, fragments) ELSE s.records,
       eof |-> p.type = kEof]

(* ReadRecord until it returns false.                                      *)
RECURSIVE ReadRecords(_, _)
ReadRecords(reads, s) ==
  IF s.eof THEN s ELSE ReadRecords(reads, ReadRecord(s, ReadPhysicalRecord(reads, s.reader)))

=============================================================================
