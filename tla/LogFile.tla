------------------------------ MODULE LogFile -------------------------------
(***************************************************************************)
(* One file of the log format from the first AddRecord to the recovery     *)
(* that reads it: write batches in the write-ahead log, version edits in   *)
(* the MANIFEST, on a disk (PosixWritableFile: appended bytes survive a    *)
(* crash for sure only once they are synced) or in the in-memory           *)
(* environment.                                                            *)
(***************************************************************************)
EXTENDS Coding, LogFormat, MemEnv

CONSTANTS Batches,          \* the operations a write batch may hold
          Edits,            \* the edits LogAndApply may log
          MaxRecords,       \* bound on the records added to the file
          MaxFailures       \* bound on the appends that fail

VARIABLES kind,             \* what the records are: "log" or "manifest"
          env,              \* "posix" or "memory"
          file,             \* the FileState; on a disk, one block holds it all
          block_offset,     \* log::Writer::block_offset_
          open,             \* the writer may still append
          added,            \* the contents given to AddRecord, in order
          synced,           \* [size, count]: bytes and records known to be on the disk
          failures          \* the appends that failed

vars == <<kind, env, file, block_offset, open, added, synced, failures>>

Init ==
  /\ kind \in {"log", "manifest"}
  /\ env \in {"posix", "memory"}
  /\ file = NewFileState
  /\ block_offset = 0
  /\ open = TRUE
  /\ added = <<>>
  /\ synced = [size |-> 0, count |-> 0]
  /\ failures = 0

-----------------------------------------------------------------------------
(* The next contents: a batch starts after the last sequence number used,  *)
(* which also the failed writes have used (DBImpl::Write).                 *)
LastSequence == IF added = <<>> THEN 0 ELSE Last(added).sequence + Len(Last(added).ops) - 1
Contents == IF kind = "log" THEN {WriteBatch(LastSequence + 1, ops) : ops \in Batches} ELSE Edits

Encode(c) == IF kind = "log" THEN EncodeBatch(c) ELSE EncodeEdit(c)
Decode(record) == IF kind = "log" THEN Iterate(record) ELSE DecodeFrom(record)

PosixAppend(f, data) ==
  [blocks |-> <<FlattenSeq(f.blocks) \o data>>, size |-> f.size + Len(data)]
PosixRead(f, offset, n) == SubSeq(FlattenSeq(f.blocks), offset + 1, Min({offset + n, f.size}))

AppendTo(f, data) == IF env = "posix" THEN PosixAppend(f, data) ELSE FileAppend(f, data)

CellsOf(fragments) == FlattenSeq([i \in DOMAIN fragments |-> fragments[i].trailer \o fragments[i].cells])

(* Of the zeros that fill a block, n get into the file.  Nobody looks at   *)
(* the status of that append.                                              *)
CutTrailer(fragments, n) == [fragments EXCEPT ![1].trailer = SubSeq(@, 1, n)]

AddFragments(c, fragments, failed) ==
  /\ failed > 0 => env = "posix" /\ failures + failed <= MaxFailures
  /\ file' = AppendTo(file, CellsOf(fragments))
  /\ block_offset' = Last(fragments).block_offset
  /\ added' = Append(added, c)
  /\ failures' = failures + failed
  /\ UNCHANGED <<kind, env, synced>>

AddRecord(c) ==
  /\ open /\ Len(added) < MaxRecords
  /\ LET fragments == Fragments(Encode(c), TRUE, block_offset)
         trailer == Len(fragments[1].trailer)
     IN  \E n \in 0 .. trailer :
           AddFragments(c, CutTrailer(fragments, n), IF n < trailer THEN 1 ELSE 0)
  /\ UNCHANGED open

(* The append or the flush of the k-th fragment fails when some of its     *)
(* bytes are in the file.  block_offset_ advances all the same.  A write   *)
(* that fails leaves the log open; LogAndApply never uses the MANIFEST     *)
(* again, since its error stops the database (RecordBackgroundError).      *)
AddRecordFails(c) ==
  /\ open /\ Len(added) < MaxRecords
  /\ env = "posix" /\ failures < MaxFailures
  /\ LET fragments == Fragments(Encode(c), TRUE, block_offset)
         trailer == Len(fragments[1].trailer)
     IN  \E n \in 0 .. trailer : \E k \in DOMAIN fragments : \E m \in 0 .. Len(fragments[k].cells) :
           AddFragments(c, [SubSeq(CutTrailer(fragments, n), 1, k) EXCEPT ![k].cells = SubSeq(@, 1, m)],
                        IF n < trailer THEN 2 ELSE 1)
  /\ open' = (kind = "log")

Sync ==
  /\ open /\ synced.count # Len(added)
  /\ synced' = [size |-> file.size, count |-> Len(added)]
  /\ UNCHANGED <<kind, env, file, block_offset, open, added, failures>>

(* The machine fails: of the bytes that were not synced, some remain.      *)
Crash ==
  /\ open /\ env = "posix"
  /\ \E n \in synced.size .. file.size :
       file' = [blocks |-> <<PosixRead(file, 0, n)>>, size |-> n]
  /\ open' = FALSE
  /\ UNCHANGED <<kind, env, block_offset, added, synced, failures>>

Next ==
  \/ \E c \in Contents : AddRecord(c) \/ AddRecordFails(c)
  \/ Sync
  \/ Crash

Spec == Init /\ [][Next]_vars

-----------------------------------------------------------------------------
(* What a recovery that opens the file now would read, if the read number  *)
(* `failing` fails.                                                        *)
Reads == 1 .. (file.size \div kBlockSize) + 1
RecoveryFailing(failing) ==
  LET Read(offset) == IF env = "posix" THEN PosixRead(file, offset, kBlockSize)
                                       ELSE FileRead(file, offset, kBlockSize)
  IN  ReadRecords([i \in Reads |-> [ok |-> i # failing, block |-> Read((i - 1) * kBlockSize)]], NewScan)
Recovery == RecoveryFailing(0)

(* As long as no append failed, recovery reads and decodes exactly what    *)
(* was added, in order: all of it if the file is whole, and after a crash  *)
(* a prefix that has every record synced before it (AddRecord, ReadRecord, *)
(* EncodeTo/DecodeFrom, WriteBatch::Iterate, FileState::Read).             *)
RecoversPrefix ==
  failures = 0 =>
    LET records == Recovery.records
        decoded == [i \in DOMAIN records |-> Decode(records[i])]
    IN  /\ \A i \in DOMAIN decoded : decoded[i].ok
        /\ IsPrefix([i \in DOMAIN decoded |-> decoded[i].value], added)
        /\ Len(decoded) >= (IF open THEN Len(added) ELSE synced.count)

(* As long as no append failed, the reader is silent exactly when the file *)
(* ends where a record, or the filling of a block before the next record,  *)
(* ends: no torn record is dropped in silence, and a whole file is never   *)
(* reported as corrupt, which would stop recovery; a block that cannot be  *)
(* read is reported too (ReadPhysicalRecord, LogReporter::Corruption).     *)
TornTailReported ==
  failures = 0 =>
    LET end[k \in 0 .. Len(added)] ==
          IF k = 0 THEN 0
          ELSE end[k - 1] + Len(CellsOf(Fragments(Encode(added[k]), TRUE, end[k - 1] % kBlockSize)))
        filled(n) == IF kBlockSize - (n % kBlockSize) < kHeaderSize
                     THEN n + kBlockSize - (n % kBlockSize) ELSE n
        whole == \E k \in 0 .. Len(added) : file.size \in {end[k], filled(end[k])}
    IN  \A failing \in {0} \cup Reads :
          RecoveryFailing(failing).reader.reported <=> (failing # 0 \/ ~whole)

(* Even when appends fail half-way and leave the writer's idea of the      *)
(* block out of step with the file, and the file is cut afterwards, what   *)
(* is read are records that were given to AddRecord, each at most once and *)
(* in their order: fragments of different records are never joined         *)
(* (in_fragmented_record, the checksum of ReadPhysicalRecord).             *)
NothingInvented ==
  LET records == Recovery.records
  IN  \E picked \in SUBSET DOMAIN added :
        LET order == SetToSortSeq(picked, <)
        IN  records = [i \in DOMAIN order |-> Encode(added[order[i]])]

=============================================================================
