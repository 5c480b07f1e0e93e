------------------------------- MODULE DBImpl -------------------------------
(***************************************************************************)
(* The LevelDB instance (db/db_impl.cc): clients that write, read at       *)
(* snapshots and ask for compactions, the background thread that flushes   *)
(* memtables and compacts tables, and opening a database after a close, a  *)
(* crash or a failed write.                                                *)
(*                                                                         *)
(* One action is one critical section of mutex_, or one step of input or   *)
(* output taken without it.  A client or the background thread stands      *)
(* between two of them; a thread that sleeps on a condition variable has   *)
(* awake = FALSE until a Signal sets it.                                   *)
(***************************************************************************)
EXTENDS VersionSet, TLC

CONSTANTS Clients,                    \* threads that call the database
          Keys,                       \* user keys
          Ranges,                     \* ranges given to CompactRange
          write_buffer_size,          \* entries of a full memtable
          kL0_SlowdownWritesTrigger,  \* 8
          kL0_StopWritesTrigger,      \* 12
          SmallGroup, MaxGroup,       \* 128K and 1M: limits of a batch group
          Workloads                   \* calls and bounds that are explored, by name

VARIABLES
  workload,           \* the name of the one this behaviour is explored with
  db,                 \* phase of the instance, from "closed" to "open"
  vs,                 \* versions_
  mem, imm,           \* memtables, by the number of the log that backs them; 0 is NULL
  memtables,          \* their entries, and those of memtables only reads still use
  writers,            \* writers_, the queue of clients
  client,             \* where each client stands
  group,              \* the batch group being written
  snapshots,          \* snapshots_, oldest first
  views,              \* what Gets and iterators in progress hold references to
  bg,                 \* where the background thread stands; "idle" when not scheduled
  flush,              \* number of the table a memtable is being written to
  edit,               \* the edit LogAndApply is writing
  compact,            \* CompactionState of the compaction in progress
  pending_outputs,
  bg_error,
  manual_compaction,  \* the client whose manual compaction is next or running; NULL
  logs, tables, manifests, CURRENT,   \* the directory
  history,            \* ghost: the writes that were applied and not lost by a crash
  durable,            \* ghost: the writes acknowledged with sync = true
  damage,             \* ghost: "log", "manifest": a record of a log, or of the manifest
                      \* in use, was cut short; "repaired": RepairDB ran; "interrupted":
                      \* it was cut short, or an operation of it failed
  crashes, errors, closes, ranges   \* ghost: how many of each happened

queue == <<writers, client, group>>
memory == <<mem, imm, memtables>>
reads == <<snapshots, views, workload>>   \* of these no step changes the workload
background == <<bg, flush, edit, compact, pending_outputs>>
directory == <<logs, tables, manifests, CURRENT>>
counters == <<crashes, errors, closes, ranges>>
ghosts == <<history, durable, damage, counters>>
vars == <<db, vs, queue, memory, reads, background, bg_error, manual_compaction,
          directory, ghosts>>

-----------------------------------------------------------------------------
(* A workload: what the clients write and the bounds on what happens.      *)
Workload == Workloads[workload]

Batches == Workload.batches            \* contents of a WriteBatch: <<type, user key>>, ...
Syncs == Workload.syncs                \* values of WriteOptions::sync
MaxSequence == Workload.sequences      \* bound: sequence numbers given to writes
MaxSnapshots == Workload.snapshots     \* bound: snapshots at a time
MaxViews == Workload.views             \* bound: reads at a time
ReadPoints == Workload.points          \* bound: sequence numbers at which they begin
MaxCrashes == Workload.crashes         \* bound: crashes
MaxErrors == Workload.errors           \* bound: failed I/O operations
MaxCloses == Workload.closes           \* bound: clean closes, DestroyDB and RepairDB
MaxFaults == Workload.faults           \* bound: all of these together
MaxRanges == Workload.ranges           \* bound: calls of CompactRange

-----------------------------------------------------------------------------
Idle == [pc |-> "idle", batch |-> <<>>, sync |-> FALSE, allow_delay |-> FALSE,
         awake |-> TRUE, begin |-> 0, m |-> [level |-> 0, begin |-> 0, end |-> 0, done |-> FALSE],
         max_level |-> 0]
NoGroup == [last |-> NULL, entries |-> <<>>, ok |-> TRUE, sync_error |-> FALSE]
NoEdit == VersionEdit({}, {}, <<>>)
NoCompaction == [active |-> FALSE]

NoPointers == [level \in Levels |-> NoKey]

(* VersionSet's constructor, and what NewDB writes to the first manifest.  *)
NewVersionSet ==
  [current |-> EmptyVersion, file_to_compact |-> {}, compact_pointer |-> NoPointers,
   next_file_number |-> 2, manifest_file_number |-> 0, last_sequence |-> 0, log_number |-> 0]
NewDBState ==
  [files |-> EmptyVersion, compact_pointer |-> NoPointers,
   log_number |-> 0, next_file_number |-> 2, last_sequence |-> 0]
Unreadable == [NewDBState EXCEPT !.next_file_number = 0]   \* Recover reports corruption

(* A log as AddRecord and Sync leave it: the batches a reader would find,  *)
(* how many of them are on disk, whether part of a record follows them,    *)
(* and, a ghost, the writes of the memtable it backs.                      *)
Entries(records) == UNION {ToSet(b) : b \in ToSet(records)}
NewLogFile == [records |-> <<>>, synced |-> 0, torn |-> FALSE, applied |-> {}]

Volatile ==
  /\ vs' = NewVersionSet
  /\ mem' = NULL /\ imm' = NULL /\ memtables' = <<>>
  /\ writers' = <<>> /\ client' = [c \in Clients |-> Idle] /\ group' = NoGroup
  /\ snapshots' = <<>> /\ views' = {} /\ UNCHANGED workload
  /\ bg' = "idle" /\ flush' = NULL /\ edit' = NoEdit /\ compact' = NoCompaction
  /\ pending_outputs' = {} /\ bg_error' = FALSE /\ manual_compaction' = NULL

Init ==
  /\ workload \in DOMAIN Workloads
  /\ db = "closed"
  /\ vs = NewVersionSet
  /\ mem = NULL /\ imm = NULL /\ memtables = <<>>
  /\ writers = <<>> /\ client = [c \in Clients |-> Idle] /\ group = NoGroup
  /\ snapshots = <<>> /\ views = {}
  /\ bg = "idle" /\ flush = NULL /\ edit = NoEdit /\ compact = NoCompaction
  /\ pending_outputs = {} /\ bg_error = FALSE /\ manual_compaction = NULL
  /\ logs = <<>> /\ tables = <<>> /\ manifests = <<>> /\ CURRENT = NULL
  /\ history = {} /\ durable = {} /\ damage = {}
  /\ crashes = 0 /\ errors = 0 /\ closes = 0 /\ ranges = 0

shutting_down == db = "closing"

(* One more error, crash or end of the instance is within the bound.       *)
Faulty == crashes + errors + closes < MaxFaults

(* An I/O operation fails.                                                 *)
Fails == errors < MaxErrors /\ Faulty /\ errors' = errors + 1
NoError == <<history, durable, damage, crashes, closes, ranges>>   \* the ghosts but errors

-----------------------------------------------------------------------------
(* Scheduling, errors and garbage collection.                              *)

NeedsCompaction(v) == SizeCompaction(v.current) \/ v.file_to_compact # {}

(* MaybeScheduleCompaction: where the background thread stands afterwards. *)
MaybeSchedule(now, v, imm_, manual, error) ==
  IF \/ now # "idle" \/ shutting_down \/ error
     \/ imm_ = NULL /\ manual = NULL /\ ~NeedsCompaction(v)
  THEN now ELSE "scheduled"

(* bg_cv_.SignalAll().                                                     *)
SignalAll(cl) ==
  [c \in Clients |-> [cl[c] EXCEPT !.awake =
                        @ \/ cl[c].pc \in {"bg_wait", "imm_wait", "range"}]]

(* RecordBackgroundError wakes the waiters the first time.                 *)
SignalError(cl, error) == IF error /\ ~bg_error THEN SignalAll(cl) ELSE cl

\* Mutant: forgets the versions that reads refer to.
CompactedVersion == IF compact.active THEN {compact.c.version} ELSE {}

(* The versions in VersionSet's list other than the current one.           *)
HeldVersions == {w.version : w \in views} \cup
                (IF compact.active THEN {compact.c.version} ELSE {})

(* DeleteObsoleteFiles once v is installed; held are the other versions.   *)
DeleteObsoleteFiles(v, held, pending, manifests_, error) ==
  LET live == pending \cup LiveFiles(v.current) \cup UNION {LiveFiles(x) : x \in held}
  IN  IF error THEN manifests' = manifests_ /\ UNCHANGED <<logs, tables>>
      ELSE /\ tables' = Restrict(tables, live \cap DOMAIN tables)
           /\ logs' = Restrict(logs, {n \in DOMAIN logs : n >= v.log_number})
           /\ manifests' = Restrict(manifests_,
                              {n \in DOMAIN manifests_ : n >= v.manifest_file_number})

(* Memtables live as long as the database or a read refers to them.        *)
KeepMemtables(m, im, ws, mt) ==
  Restrict(mt, DOMAIN mt \cap ({m, im} \cup {w.mem : w \in ws} \cup {w.imm : w \in ws}))

-----------------------------------------------------------------------------
(* Writing.                                                                *)

Count(q) == FoldLeft(LAMBDA sum, c : sum + Len(client[c].batch), 0, q)

(* The writers popped by a leader that is done, up to last.                *)
Upto(q, last) == CHOOSE i \in DOMAIN q : q[i] = last

(* Where Write returns to: its caller, or TEST_CompactMemTable.            *)
Returned(r) == IF r.batch = <<>> THEN [r EXCEPT !.pc = "imm_wait", !.awake = TRUE] ELSE Idle

\* Mutant: does not signal the new head.
LeaveQueueQuietly(c, q, last, cl) ==
  LET n == Upto(q, last)
      out == ToSet(SubSeq(q, 1, n))
  IN  /\ writers' = SubSeq(q, n + 1, Len(q))
      /\ client' = [x \in Clients |->
           CASE x = c -> Returned(cl[x])
             [] x \in out \ {c} -> [cl[x] EXCEPT !.pc = "done", !.awake = TRUE]
             [] OTHER -> cl[x]]

(* The end of Write: the leader c and its group leave the queue q, the     *)
(* followers are signalled, and so is the new head.                        *)
LeaveQueue(c, q, last, cl) ==
  LET n == Upto(q, last)
      rest == SubSeq(q, n + 1, Len(q))
      out == ToSet(SubSeq(q, 1, n))
  IN  /\ writers' = rest
      /\ client' = [x \in Clients |->
           CASE x = c -> Returned(cl[x])
             [] x \in out \ {c} -> [cl[x] EXCEPT !.pc = "done", !.awake = TRUE]
             [] OTHER -> [cl[x] EXCEPT !.awake = @ \/ (rest # <<>> /\ x = Head(rest))]]

\* Mutant: takes writers that want a sync into a group that is not synced.
BuildMixedGroup(q, cl) ==
  LET size(i) == FoldLeft(LAMBDA sum, x : sum + Len(cl[x].batch), 0, SubSeq(q, 1, i))
      max_size == IF size(1) <= SmallGroup THEN size(1) + SmallGroup ELSE MaxGroup
      ends == {i \in DOMAIN q : i = 1 \/ size(i) <= max_size}
  IN  SubSeq(q, 1, Max(ends))

(* BuildBatchGroup: the prefix of the queue that the leader writes for.    *)
BuildBatchGroup(q, cl) ==
  LET size(i) == FoldLeft(LAMBDA sum, x : sum + Len(cl[x].batch), 0, SubSeq(q, 1, i))
      max_size == IF size(1) <= SmallGroup THEN size(1) + SmallGroup ELSE MaxGroup
      Joins(i) == /\ ~(cl[q[i]].sync /\ ~cl[q[1]].sync)
                  /\ cl[q[i]].batch # <<>> => size(i) <= max_size
      ends == {i \in DOMAIN q : \A j \in 2 .. i : Joins(j)}
  IN  SubSeq(q, 1, Max(ends))

(* WriteBatchInternal::Append, for each writer of the group in turn.       *)
AppendBatches(g, cl) == FlattenSeq([i \in DOMAIN g |-> cl[g[i]].batch])

(* MakeRoomForWrite has succeeded: the leader starts its group, or leaves  *)
(* at once if its batch is NULL.                                           *)
StartGroup(c, r, q) ==
  LET cl == [client EXCEPT ![c] = r]
      g == BuildBatchGroup(q, cl)
      ops == AppendBatches(g, cl)
  IN  IF r.batch = <<>> THEN LeaveQueue(c, q, c, cl) /\ UNCHANGED group
      ELSE /\ group' = [NoGroup EXCEPT !.last = Last(g), !.entries =
                          [i \in DOMAIN ops |-> InternalKey(ops[i][2], vs.last_sequence + i, ops[i][1])]]
           /\ client' = [cl EXCEPT ![c].pc = "log"]
           /\ writers' = q

(* One pass of MakeRoomForWrite by the leader c, whose record is r.        *)
MakeRoomForWrite(c, r, q) ==
  LET force == r.batch = <<>>
      l0 == Len(vs.current[0])
      delay == r.allow_delay /\ l0 >= kL0_SlowdownWritesTrigger
      room == ~force /\ Cardinality(memtables[mem]) <= write_buffer_size
      stop == imm # NULL \/ l0 >= kL0_StopWritesTrigger
      Wait(pc, awake) ==
        /\ writers' = q
        /\ client' = [client EXCEPT ![c] = [r EXCEPT !.pc = pc, !.awake = awake,
                                                     !.allow_delay = @ /\ pc # "delayed"]]
        /\ UNCHANGED group
      NewLog == vs.next_file_number
  IN
  \/ /\ bg_error
     /\ LeaveQueue(c, q, c, [client EXCEPT ![c] = r])
     /\ UNCHANGED <<group, vs, memory, bg, logs, ghosts>>
  \/ /\ ~bg_error /\ delay
     /\ Wait("delayed", TRUE)
     /\ UNCHANGED <<vs, memory, bg, logs, ghosts>>
  \/ /\ ~bg_error /\ ~delay /\ room
     /\ StartGroup(c, r, q)
     /\ UNCHANGED <<vs, memory, bg, logs, ghosts>>
  \/ /\ ~bg_error /\ ~delay /\ ~room /\ stop
     /\ Wait("bg_wait", FALSE)
     /\ UNCHANGED <<vs, memory, bg, logs, ghosts>>
  \/ /\ ~bg_error /\ ~delay /\ ~room /\ ~stop     \* switch to a new memtable and log
     /\ vs' = [vs EXCEPT !.next_file_number = @ + 1]
     /\ logs' = (NewLog :> NewLogFile) @@ logs
     /\ mem' = NewLog
     /\ imm' = mem
     /\ memtables' = (NewLog :> {}) @@ memtables
     /\ bg' = MaybeSchedule(bg, vs, mem, manual_compaction, bg_error)
     /\ StartGroup(c, r, q)
     /\ UNCHANGED ghosts
  \/ /\ ~bg_error /\ ~delay /\ ~room /\ ~stop     \* the log cannot be created; its number is reused
     /\ Fails
     /\ LeaveQueue(c, q, c, [client EXCEPT ![c] = r])
     /\ UNCHANGED <<group, vs, memory, bg, logs, NoError>>

Unwritten == <<db, reads, flush, edit, compact, pending_outputs, bg_error,
               manual_compaction, tables, manifests, CURRENT>>

Enqueue(c, r) ==
  /\ IF writers = <<>> THEN MakeRoomForWrite(c, r, <<c>>)
     ELSE /\ writers' = Append(writers, c)
          /\ client' = [client EXCEPT ![c] = [r EXCEPT !.awake = FALSE]]
          /\ UNCHANGED <<group, vs, memory, bg, logs, ghosts>>
  /\ UNCHANGED Unwritten

Write(c) ==
  /\ db = "open"
  /\ client[c].pc = "idle"
  /\ \E batch \in Batches, sync \in Syncs :
       /\ vs.last_sequence + Count(writers) + Len(batch) <= MaxSequence
       /\ Enqueue(c, [Idle EXCEPT !.pc = "queued", !.batch = batch, !.sync = sync,
                                  !.allow_delay = TRUE])

(* A writer wakes up at the head of the queue, or from a wait within       *)
(* MakeRoomForWrite.                                                       *)
Lead(c) ==
  /\ client[c].pc \in {"queued", "delayed", "bg_wait"}
  /\ client[c].awake
  /\ Head(writers) = c
  /\ MakeRoomForWrite(c, client[c], writers)
  /\ UNCHANGED Unwritten

(* A follower wakes up with its write done by the leader.                  *)
Return(c) ==
  /\ client[c].pc = "done"
  /\ client' = [client EXCEPT ![c] = Returned(client[c])]
  /\ UNCHANGED <<db, vs, writers, group, memory, reads, background, bg_error,
                 manual_compaction, directory, ghosts>>

(* log_->AddRecord.  An append that fails leaves nothing, the record, or   *)
(* part of it; what is appended after a part is lost to readers until the  *)
(* log reaches a new block.                                                *)
AddRecord(c) ==
  LET written == [logs EXCEPT ![mem].records = Append(@, group.entries), ![mem].torn = FALSE]
      Go(pc, ok) == /\ client' = [client EXCEPT ![c].pc = pc]
                    /\ group' = [group EXCEPT !.ok = ok]
  IN
  /\ client[c].pc = "log"
  /\ \/ /\ \/ logs' = written
           \/ logs[mem].torn /\ UNCHANGED logs
        /\ Go(IF client[c].sync THEN "sync" ELSE "insert", TRUE)
        /\ UNCHANGED errors
     \/ /\ Fails
        /\ Go("publish", FALSE)
        /\ logs' \in {logs, written, [logs EXCEPT ![mem].torn = TRUE]}
  /\ damage' = IF logs'[mem].torn THEN damage \cup {"log"} ELSE damage
  /\ UNCHANGED <<db, vs, writers, memory, reads, background, bg_error, manual_compaction,
                 tables, manifests, CURRENT, history, durable, crashes, closes, ranges>>

\* Mutant: flushes the log to the operating system only.
FlushLog(c) ==
  /\ client[c].pc = "sync"
  /\ client' = [client EXCEPT ![c].pc = "insert"]
  /\ UNCHANGED <<db, vs, writers, group, memory, reads, background, bg_error,
                 manual_compaction, directory, ghosts>>

(* logfile_->Sync().  After a failure the record may or may not be on disk.*)
SyncLog(c) ==
  /\ client[c].pc = "sync"
  /\ \/ /\ logs' = [logs EXCEPT ![mem].synced = Len(logs[mem].records)]
        /\ client' = [client EXCEPT ![c].pc = "insert"]
        /\ UNCHANGED <<group, errors>>
     \/ /\ Fails
        /\ client' = [client EXCEPT ![c].pc = "publish"]
        /\ group' = [group EXCEPT !.ok = FALSE, !.sync_error = TRUE]
        /\ UNCHANGED logs
  /\ UNCHANGED <<db, vs, writers, memory, reads, background, bg_error, manual_compaction,
                 tables, manifests, CURRENT, NoError>>

(* The writes that a new one does not take the sequence number of: after a *)
(* repair, last_sequence may be that of an earlier write.                  *)
Older(S) == {e \in S : e.sequence <= vs.last_sequence}

(* MemTable::Add, for the entries of a batch.                              *)
MemTableAdd(m, entries) == memtables' = [memtables EXCEPT ![m] = @ \cup entries]

(* WriteBatchInternal::InsertInto(updates, mem_).                          *)
InsertInto(c) ==
  LET entries == ToSet(group.entries) IN
  /\ client[c].pc = "insert"
  /\ MemTableAdd(mem, entries)
  /\ history' = Older(history) \cup entries
  /\ durable' = Older(durable)
  /\ logs' = [logs EXCEPT ![mem].applied = @ \cup entries]
  /\ client' = [client EXCEPT ![c].pc = "publish"]
  /\ UNCHANGED <<db, vs, writers, group, mem, imm, reads, background, bg_error,
                 manual_compaction, tables, manifests, CURRENT, damage, counters>>

(* The mutex is taken again: the sequence numbers become visible, and the  *)
(* group leaves the queue.                                                 *)
Publish(c) ==
  LET popped == ToSet(SubSeq(writers, 1, Upto(writers, group.last)))
      sync == group.ok /\ \E x \in popped : client[x].sync
  IN
  /\ client[c].pc = "publish"
  /\ bg_error' = (bg_error \/ group.sync_error)
  /\ vs' = [vs EXCEPT !.last_sequence = @ + Len(group.entries)]
  /\ LeaveQueue(c, writers, group.last, SignalError(client, group.sync_error))
  /\ durable' = IF sync THEN durable \cup ToSet(group.entries) ELSE durable
  /\ group' = NoGroup
  /\ UNCHANGED <<db, memory, reads, background, manual_compaction, directory,
                 history, damage, counters>>

-----------------------------------------------------------------------------
(* Reading.                                                                *)

(* MemTable::Get, then Version::Get, as DBImpl::Get looks for a key.       *)
Search(w, user_key) ==
  LET lkey == LookupKey(user_key, w.sequence)
      InMem(m) == IF m = NULL THEN {} ELSE TableGet(Sorted(memtables[m]), lkey)
      v == VersionGet(w.version, tables, lkey)
  IN  IF InMem(w.mem) # {} THEN [entry |-> InMem(w.mem), seek_file |-> {}]
      ELSE IF InMem(w.imm) # {} THEN [entry |-> InMem(w.imm), seek_file |-> {}]
      ELSE v

(* What the caller gets: the value, known by its sequence number, or none. *)
Value(entry) == IF \E e \in entry : e.type = kTypeValue
                THEN (CHOOSE e \in entry : TRUE).sequence ELSE 0

View(sequence) ==
  [sequence |-> sequence, mem |-> mem, imm |-> imm, version |-> vs.current]

(* A read takes place at one of the snapshots or at the last write.        *)
ReadSequences == ToSet(snapshots) \cup {vs.last_sequence}

(* Get and NewInternalIterator take references under the mutex and read    *)
(* without it.                                                             *)
StartRead ==
  /\ db = "open"
  /\ Cardinality(views) < MaxViews /\ vs.last_sequence \in ReadPoints
  /\ \E sequence \in ReadSequences : views' = views \cup {View(sequence)}
  /\ UNCHANGED <<db, vs, queue, memory, snapshots, workload, background, bg_error,
                 manual_compaction, directory, ghosts>>

(* UpdateStats: the file charged with a seek may have used up those it is  *)
(* allowed.  The seeks of a file are not counted here: any charge may be   *)
(* the last one.  A version that is no longer current keeps its own mark.  *)
UpdateStats(version, seek_file) ==
  \/ UNCHANGED <<vs, bg>>
  \/ /\ seek_file # {} /\ version = vs.current /\ vs.file_to_compact = {}
     /\ vs' = [vs EXCEPT !.file_to_compact = seek_file]
     /\ bg' = MaybeSchedule(bg, vs', imm, manual_compaction, bg_error)

(* The references of a read to memtables and version are dropped.          *)
CleanupIteratorState(w) ==
  /\ views' = views \ {w}
  /\ memtables' = KeepMemtables(mem, imm, views', memtables)

(* Get takes the mutex again; a deleted iterator drops its references.     *)
EndRead(w) ==
  /\ db = "open" /\ w \in views
  /\ \E user_key \in Keys : UpdateStats(w.version, Search(w, user_key).seek_file)
  /\ CleanupIteratorState(w)
  /\ UNCHANGED <<db, queue, mem, imm, snapshots, workload, flush, edit, compact, pending_outputs,
                 bg_error, manual_compaction, directory, ghosts>>

(* An iterator samples the bytes it reads against the current version.     *)
RecordReadSample(w) ==
  /\ db = "open" /\ w \in views
  /\ \E user_key \in Keys :
       UpdateStats(vs.current, ReadSample(vs.current, LookupKey(user_key, w.sequence)))
  /\ UNCHANGED <<db, queue, memory, reads, flush, edit, compact, pending_outputs,
                 bg_error, manual_compaction, directory, ghosts>>

GetSnapshot ==
  /\ db = "open"
  /\ Len(snapshots) < MaxSnapshots /\ vs.last_sequence \in ReadPoints
  /\ snapshots' = Append(snapshots, vs.last_sequence)
  /\ UNCHANGED <<db, vs, queue, memory, views, workload, background, bg_error,
                 manual_compaction, directory, ghosts>>

ReleaseSnapshot ==
  /\ db = "open"
  /\ \E i \in DOMAIN snapshots : snapshots' = RemoveAt(snapshots, i)
  /\ UNCHANGED <<db, vs, queue, memory, views, workload, background, bg_error,
                 manual_compaction, directory, ghosts>>

-----------------------------------------------------------------------------
(* Manual compaction by a client.                                          *)

(* CompactRange looks for the deepest level with files in the range, then  *)
(* sends a NULL batch through the queue to have the memtable written.      *)
CompactRangeCall(c) ==
  /\ db = "open"
  /\ client[c].pc = "idle"
  /\ ranges < MaxRanges
  /\ ranges' = ranges + 1
  /\ \E r \in Ranges :
       LET deep == {1} \cup {l \in 1 .. kNumLevels - 1 : OverlapInLevel(vs.current, l, r[1], r[2])}
       IN  client' = [client EXCEPT ![c] =
             [Idle EXCEPT !.pc = "compact_range", !.max_level = Max(deep),
                          !.begin = r[1], !.m.begin = r[1], !.m.end = r[2]]]
  /\ UNCHANGED <<db, vs, writers, group, memory, reads, background, bg_error,
                 manual_compaction, directory, history, durable, damage, crashes, errors, closes>>

CompactMemTableCall(c) ==
  /\ client[c].pc = "compact_range"
  /\ Enqueue(c, [client[c] EXCEPT !.pc = "queued"])

(* TEST_CompactMemTable waits until the immutable memtable is gone.        *)
AwaitMemTable(c) ==
  /\ client[c].pc = "imm_wait"
  /\ client[c].awake
  /\ client' = [client EXCEPT ![c] = IF imm # NULL /\ ~bg_error
                                     THEN [@ EXCEPT !.awake = FALSE]
                                     ELSE [@ EXCEPT !.pc = "range"]]
  /\ UNCHANGED <<db, vs, writers, group, memory, reads, background, bg_error,
                 manual_compaction, directory, ghosts>>

(* The loop of TEST_CompactRange for one level, up to its next wait.       *)
TEST_CompactRange(c) ==
  LET r == client[c]
      next == r.m.level + 1
  IN
  /\ r.pc = "range" /\ r.awake
  /\ IF ~r.m.done /\ ~bg_error
     THEN /\ client' = [client EXCEPT ![c].awake = FALSE]
          /\ IF manual_compaction = NULL
             THEN manual_compaction' = c /\ bg' = MaybeSchedule(bg, vs, imm, c, bg_error)
             ELSE UNCHANGED <<manual_compaction, bg>>
     ELSE /\ manual_compaction' = IF manual_compaction = c THEN NULL ELSE manual_compaction
          /\ client' = [client EXCEPT ![c] =
                IF next < r.max_level
                THEN [r EXCEPT !.m.level = next, !.m.done = FALSE,
                               !.m.begin = r.begin]
                ELSE Idle]
          /\ UNCHANGED bg
  /\ UNCHANGED <<db, vs, writers, group, memory, reads, flush, edit, compact,
                 pending_outputs, bg_error, directory, ghosts>>

-----------------------------------------------------------------------------
(* The background thread.                                                  *)

(* The edit as LogAndApply completes it.                                   *)
LogEdit(e, log_number, v) ==
  [deleted_files |-> e.deleted_files, new_files |-> e.new_files,
   compact_pointers |-> e.compact_pointers, log_number |-> log_number,
   next_file_number |-> v.next_file_number, last_sequence |-> v.last_sequence]

(* What a reader of the manifest makes of one more edit.                   *)
Replay(r, e) ==
  IF r = Unreadable THEN r
  ELSE [files |-> ApplyEdit(r.files, e), compact_pointer |-> ApplyPointers(r.compact_pointer, e),
        log_number |-> e.log_number, next_file_number |-> e.next_file_number,
        last_sequence |-> e.last_sequence]

(* The installation of the new version at the end of LogAndApply.          *)
Install(v, e) ==
  [v EXCEPT !.current = ApplyEdit(@, e), !.file_to_compact = {}, !.log_number = e.log_number]

(* The end of BackgroundCall, with what the call changed.                  *)
EndCall(v, imm_, manual, error, cl) ==
  /\ bg' = MaybeSchedule("idle", v, imm_, manual, error)
  /\ client' = SignalAll(cl)

(* The last lines of BackgroundCompaction for a manual compaction that     *)
(* went as far as manual_end.                                              *)
EndManual(is_manual, ok, manual_end, cl) ==
  IF ~is_manual THEN cl
  ELSE [cl EXCEPT ![manual_compaction].m.done = @ \/ ~ok,
                  ![manual_compaction].m.begin =
                     IF ok /\ ~cl[manual_compaction].m.done THEN manual_end ELSE @]

(* They read manual_compaction_ again: it may have become NULL, and that   *)
(* is the end of the process.                                              *)
Segfault ==
  /\ db' = "segfault"
  /\ bg' = "dead"
  /\ client' = [c \in Clients |-> [Idle EXCEPT !.pc = "dead"]]

(* BackgroundCall and the start of BackgroundCompaction.                   *)
StartFlush ==
  /\ flush' = vs.next_file_number
  /\ vs' = [vs EXCEPT !.next_file_number = @ + 1]
  /\ pending_outputs' = pending_outputs \cup {flush'}
  /\ tables' = (flush' :> <<>>) @@ tables
  /\ bg' = "flush_build"

(* Nothing to do: an error, a shutdown, or no compaction to pick.          *)
BackgroundNothing ==
  /\ bg = "scheduled"
  /\ \/ /\ shutting_down \/ bg_error
        /\ EndCall(vs, imm, manual_compaction, bg_error, client)
        /\ UNCHANGED manual_compaction
     \/ /\ ~shutting_down /\ ~bg_error /\ imm = NULL
        /\ IF manual_compaction # NULL
           THEN LET m == client[manual_compaction].m
                IN  CompactRange(vs.current, m.level, m.begin, m.end) = {}
           ELSE PickCompaction(vs.current, vs.compact_pointer, vs.file_to_compact) = {}
        /\ manual_compaction' = NULL
        /\ EndCall(vs, imm, NULL, FALSE,
                   IF manual_compaction = NULL THEN client
                   ELSE [client EXCEPT ![manual_compaction].m.done = TRUE])
  /\ UNCHANGED <<db, vs, writers, group, memory, reads, flush, edit, compact,
                 pending_outputs, bg_error, directory, ghosts>>

BackgroundFlush ==
  /\ bg = "scheduled"
  /\ ~shutting_down /\ ~bg_error
  /\ imm # NULL
  /\ StartFlush
  /\ UNCHANGED <<db, queue, memory, reads, edit, compact, bg_error, manual_compaction,
                 logs, manifests, CURRENT, ghosts>>

(* A compaction is picked: a file moves down as it is, or DoCompactionWork *)
(* decides under the mutex which entries the snapshots need.               *)
BackgroundCompact ==
  LET is_manual == manual_compaction # NULL
      m == client[manual_compaction].m
      picked == IF is_manual THEN CompactRange(vs.current, m.level, m.begin, m.end)
                ELSE PickCompaction(vs.current, vs.compact_pointer, vs.file_to_compact)
      smallest_snapshot == IF snapshots = <<>> THEN vs.last_sequence ELSE Head(snapshots)
  IN
  /\ bg = "scheduled"
  /\ ~shutting_down /\ ~bg_error
  /\ imm = NULL
  /\ \E c \in picked :
       LET f == c.inputs0[1]
           move == ~is_manual /\ IsTrivialMove(c)
           moved == VersionEdit({<<c.level, f.number>>}, {<<c.level + 1, f>>}, c.level :> c.largest)
       IN  /\ vs' = [vs EXCEPT !.compact_pointer[c.level] = c.largest]
           /\ IF move THEN /\ bg' = "move_write"
                           /\ edit' = LogEdit(moved, vs.log_number, vs)
                           /\ UNCHANGED compact
              ELSE /\ bg' = "compact"
                   /\ compact' = [active |-> TRUE, c |-> c, is_manual |-> is_manual,
                                  manual_end |-> Last(c.inputs0).largest.user_key,
                                  todo |-> CompactionOutputs(c, tables, smallest_snapshot),
                                  outputs |-> <<>>, builder |-> NULL]
                   /\ UNCHANGED edit
  /\ UNCHANGED <<db, queue, memory, reads, flush, pending_outputs, bg_error,
                 manual_compaction, directory, ghosts>>

-----------------------------------------------------------------------------
(* CompactMemTable, called from BackgroundCompaction or, while a           *)
(* compaction is in progress, from DoCompactionWork.                       *)

(* What follows CompactMemTable.                                           *)
AfterFlush(v, imm_, error) ==
  IF compact.active THEN bg' = "compact" /\ client' = SignalAll(client)
  ELSE EndCall(v, imm_, manual_compaction, error, client)

(* DoCompactionWork prefers an immutable memtable to its own work.         *)
CompactionYields ==
  /\ bg = "compact"
  /\ imm # NULL
  /\ ~shutting_down
  /\ StartFlush
  /\ UNCHANGED <<db, queue, memory, reads, edit, compact, bg_error, manual_compaction,
                 logs, manifests, CURRENT, ghosts>>

(* The end of WriteLevel0Table: the level is picked, and an empty table is *)
(* not added.                                                              *)
WriteLevel0Table(number, table) ==
  LET level == PickLevelForMemTableOutput(vs.current, Head(table).user_key, Last(table).user_key)
  IN  IF table = <<>> THEN {} ELSE {<<level, FileMetaData(number, table)>>}

(* BuildTable has written and synced the table.                            *)
FlushBuild ==
  LET table == Sorted(memtables[imm]) IN
  /\ bg = "flush_build"
  /\ ~shutting_down
  /\ tables' = IF table = <<>> THEN Restrict(tables, DOMAIN tables \ {flush})
               ELSE [tables EXCEPT ![flush] = table]
  /\ pending_outputs' = pending_outputs \ {flush}
  /\ edit' = LogEdit(VersionEdit({}, WriteLevel0Table(flush, table), <<>>), mem, vs)
  /\ bg' = "flush_write"
  /\ UNCHANGED <<db, vs, queue, memory, reads, flush, compact, bg_error,
                 manual_compaction, logs, manifests, CURRENT, ghosts>>

(* BuildTable fails and removes its file, or the database is closing.      *)
FlushFail ==
  /\ bg = "flush_build"
  /\ \/ /\ Fails
        /\ tables' = Restrict(tables, DOMAIN tables \ {flush})
     \/ /\ shutting_down
        /\ tables' = [tables EXCEPT ![flush] = Sorted(memtables[imm])]
        /\ UNCHANGED errors
  /\ pending_outputs' = pending_outputs \ {flush}
  /\ flush' = NULL
  /\ bg_error' = TRUE
  /\ AfterFlush(vs, imm, TRUE)
  /\ UNCHANGED <<db, vs, writers, group, memory, reads, edit, compact, manual_compaction,
                 logs, manifests, CURRENT, NoError>>

(* LogAndApply appends the edit to the manifest, without the mutex.        *)
ManifestWrite(from, to) ==
  /\ bg = from
  /\ bg' = to
  /\ manifests' = [manifests EXCEPT ![vs.manifest_file_number].written = Replay(@, edit)]
  /\ UNCHANGED <<db, vs, queue, memory, reads, flush, edit, compact, pending_outputs,
                 bg_error, manual_compaction, logs, tables, CURRENT, ghosts>>

FlushWrite == ManifestWrite("flush_write", "flush_install")
MoveWrite == ManifestWrite("move_write", "move_install")
CompactWrite == ManifestWrite("compact_write", "compact_install")

Synced(n) == [manifests EXCEPT ![n].synced = manifests[n].written]

(* The append fails, and may leave part of the record; or the sync fails.  *)
NotLogged(write, install, manifests_) ==
  /\ Fails
  /\ \/ bg \in {write, install} /\ manifests_ = manifests /\ UNCHANGED damage
     \/ /\ bg = write
        /\ manifests_ = [manifests EXCEPT ![vs.manifest_file_number].written = Unreadable]
        /\ damage' = damage \cup {"manifest"}

(* The manifest is synced: the new version takes the memtable's place.     *)
FlushInstall ==
  LET v == Install(vs, edit) IN
  /\ bg = "flush_install"
  /\ vs' = v
  /\ imm' = NULL
  /\ memtables' = KeepMemtables(mem, NULL, views, memtables)
  /\ DeleteObsoleteFiles(v, HeldVersions, pending_outputs, Synced(v.manifest_file_number), bg_error)
  /\ flush' = NULL /\ edit' = NoEdit
  /\ AfterFlush(v, NULL, bg_error)
  /\ UNCHANGED <<db, writers, group, mem, reads, compact, pending_outputs, bg_error,
                 manual_compaction, CURRENT, ghosts>>

FlushNotLogged ==
  /\ NotLogged("flush_write", "flush_install", manifests')
  /\ bg_error' = TRUE
  /\ flush' = NULL /\ edit' = NoEdit
  /\ AfterFlush(vs, imm, TRUE)
  /\ UNCHANGED <<db, vs, writers, group, memory, reads, compact, pending_outputs,
                 manual_compaction, logs, tables, CURRENT, history, durable, crashes, closes, ranges>>

-----------------------------------------------------------------------------
(* A file moves to the next level.                                         *)
MoveInstall ==
  LET v == Install(vs, edit) IN
  /\ bg = "move_install"
  /\ vs' = v
  /\ manifests' = Synced(v.manifest_file_number)
  /\ edit' = NoEdit
  /\ EndCall(v, imm, manual_compaction, bg_error, client)
  /\ UNCHANGED <<db, writers, group, memory, reads, flush, compact, pending_outputs,
                 bg_error, manual_compaction, logs, tables, CURRENT, ghosts>>

MoveNotLogged ==
  /\ NotLogged("move_write", "move_install", manifests')
  /\ bg_error' = TRUE
  /\ edit' = NoEdit
  /\ EndCall(vs, imm, manual_compaction, TRUE, client)
  /\ UNCHANGED <<db, vs, writers, group, memory, reads, flush, compact, pending_outputs,
                 manual_compaction, logs, tables, CURRENT, history, durable, crashes, closes, ranges>>

-----------------------------------------------------------------------------
(* DoCompactionWork.                                                       *)

OpenCompactionOutputFile ==
  LET n == vs.next_file_number IN
  /\ bg = "compact"
  /\ ~shutting_down
  /\ compact.todo # <<>> /\ compact.builder = NULL
  /\ vs' = [vs EXCEPT !.next_file_number = n + 1]
  /\ pending_outputs' = pending_outputs \cup {n}
  /\ tables' = (n :> <<>>) @@ tables
  /\ compact' = [compact EXCEPT !.builder = n]
  /\ UNCHANGED <<db, queue, memory, reads, bg, flush, edit, bg_error, manual_compaction,
                 logs, manifests, CURRENT, ghosts>>

(* The output is written, synced and closed.                               *)
FinishCompactionOutputFile ==
  LET n == compact.builder IN
  /\ bg = "compact"
  /\ n # NULL
  /\ tables' = [tables EXCEPT ![n] = Head(compact.todo)]
  /\ compact' = [compact EXCEPT !.builder = NULL, !.todo = Tail(@),
                                !.outputs = Append(@, FileMetaData(n, Head(compact.todo)))]
  /\ UNCHANGED <<db, vs, queue, memory, reads, bg, flush, edit, pending_outputs, bg_error,
                 manual_compaction, logs, manifests, CURRENT, ghosts>>

(* The input is exhausted: InstallCompactionResults.                       *)
InstallCompactionResults ==
  LET c == compact.c
      added == {<<c.level + 1, f>> : f \in ToSet(compact.outputs)}
  IN
  /\ bg = "compact"
  /\ ~shutting_down
  /\ compact.todo = <<>>
  /\ bg' = "compact_write"
  /\ edit' = LogEdit(VersionEdit(InputDeletions(c), added, c.level :> c.largest),
                     vs.log_number, vs)
  /\ UNCHANGED <<db, vs, queue, memory, reads, flush, compact, pending_outputs, bg_error,
                 manual_compaction, directory, ghosts>>

(* The end of BackgroundCompaction: CleanupCompaction, ReleaseInputs,      *)
(* DeleteObsoleteFiles and the manual compaction's progress.               *)
EndCompaction(v, ok, error, manifests_) ==
  LET outputs == {f.number : f \in ToSet(compact.outputs)} \cup {compact.builder}
      pending == pending_outputs \ outputs
  IN
  /\ vs' = v
  /\ compact' = NoCompaction
  /\ pending_outputs' = pending
  /\ edit' = NoEdit
  /\ DeleteObsoleteFiles(v, {w.version : w \in views}, pending, manifests_, error)
  /\ manual_compaction' = IF compact.is_manual THEN NULL ELSE manual_compaction
  /\ IF compact.is_manual /\ manual_compaction = NULL THEN Segfault
     ELSE /\ EndCall(v, imm, manual_compaction', error,
                     EndManual(compact.is_manual, ok, compact.manual_end, client))
          /\ UNCHANGED db
  /\ UNCHANGED <<writers, group, memory, reads, flush, CURRENT>>

CompactInstall ==
  /\ bg = "compact_install"
  /\ EndCompaction(Install(vs, edit), TRUE, bg_error, Synced(vs.manifest_file_number))
  /\ UNCHANGED <<bg_error, ghosts>>

CompactNotLogged ==
  LET cut == [manifests EXCEPT ![vs.manifest_file_number].written = Unreadable] IN
  /\ \E m \in {manifests, cut} :
       NotLogged("compact_write", "compact_install", m) /\ EndCompaction(vs, FALSE, TRUE, m)
  /\ bg_error' = TRUE
  /\ UNCHANGED <<history, durable, crashes, closes, ranges>>

(* An output cannot be created, written or synced, or the database closes. *)
CompactFail ==
  /\ bg = "compact"
  /\ \/ Fails /\ compact.todo # <<>>
     \/ shutting_down /\ UNCHANGED errors
  /\ EndCompaction(vs, FALSE, TRUE, manifests)
  /\ bg_error' = TRUE
  /\ UNCHANGED <<NoError>>

-----------------------------------------------------------------------------
(* Opening, closing, crashing.                                             *)

(* DBImpl::Recover: NewDB writes the first manifest, which it does not     *)
(* sync, if there is no CURRENT file.                                      *)
Open ==
  /\ db = "closed"
  /\ db' = IF CURRENT = NULL THEN "new_db" ELSE "recover"
  /\ manifests' = IF CURRENT = NULL THEN (1 :> [synced |-> Unreadable, written |-> NewDBState]) @@ manifests
                  ELSE manifests
  /\ UNCHANGED <<vs, queue, memory, reads, background, bg_error, manual_compaction,
                 logs, tables, CURRENT, ghosts>>

SetFirstCurrent ==
  /\ db = "new_db"
  /\ CURRENT' = 1
  /\ db' = "recover"
  /\ UNCHANGED <<vs, queue, memory, reads, background, bg_error, manual_compaction,
                 logs, tables, manifests, ghosts>>

(* RecoverLogFile: the records of a log go through a memtable into level-0 *)
(* tables, a new one whenever the memtable is full.                        *)
TablesOfLog(records) ==
  LET Step(s, batch) ==
        LET m == s.mem \cup ToSet(batch)
        IN  IF Cardinality(m) > write_buffer_size
            THEN [mem |-> {}, done |-> Append(s.done, Sorted(m))]
            ELSE [s EXCEPT !.mem = m]
      end == FoldLeft(Step, [mem |-> {}, done |-> <<>>], records)
  IN  IF end.mem = {} THEN end.done ELSE Append(end.done, Sorted(end.mem))

\* Mutant: replays the newest log first.
RecoverNewestFirst(numbers, next_file_number) ==
  LET ordered == [i \in 1 .. Cardinality(numbers) |->
                    CHOOSE n \in numbers : Cardinality({k \in numbers : k > n}) = i - 1]
      Step(s, n) ==
        LET built == TablesOfLog(logs[n].records)
            new == [t \in s.next .. s.next + Len(built) - 1 |-> built[t - s.next + 1]]
        IN  [tables |-> s.tables @@ new, next |-> Max({s.next + Len(built), n + 1})]
  IN  FoldLeft(Step, [tables |-> <<>>, next |-> next_file_number], ordered)

\* Mutant: ignores the sequence numbers found in a log.
NoSequences(records) == {}

(* The logs of DBImpl::Recover in the order of their numbers: the tables   *)
(* written, by number, and the next free file number.                      *)
RecoverLogs(numbers, next_file_number) ==
  LET ordered == [i \in 1 .. Cardinality(numbers) |->
                    CHOOSE n \in numbers : Cardinality({k \in numbers : k < n}) = i - 1]
      Step(s, n) ==
        LET built == TablesOfLog(logs[n].records)
            new == [t \in s.next .. s.next + Len(built) - 1 |-> built[t - s.next + 1]]
        IN  [tables |-> s.tables @@ new,
             next |-> Max({s.next + Len(built), n + 1})]     \* MarkFileNumberUsed
  IN  FoldLeft(Step, [tables |-> <<>>, next |-> next_file_number], ordered)

Sequences(records) == {e.sequence : e \in Entries(records)}

(* The manifest can be read and no table it names is missing.              *)
Readable ==
  /\ CURRENT \in DOMAIN manifests
  /\ manifests[CURRENT].written # Unreadable
  /\ LiveFiles(manifests[CURRENT].written.files) \subseteq DOMAIN tables

(* Open returns the corruption that VersionSet::Recover reports.           *)
RecoverFails ==
  /\ db = "recover"
  /\ ~Readable
  /\ db' = "corrupt"
  /\ UNCHANGED <<vs, queue, memory, reads, background, bg_error, manual_compaction,
                 directory, ghosts>>

(* VersionSet::Recover and the logs; then the new log file.  LogAndApply   *)
(* prepares a new manifest.                                                *)
Recover ==
  LET r == manifests[CURRENT].written
      replayed == {n \in DOMAIN logs : n >= r.log_number}
      got == RecoverLogs(replayed, r.next_file_number + 1)
      added == {<<0, FileMetaData(n, got.tables[n])>> : n \in DOMAIN got.tables}
      last == Max({r.last_sequence} \cup UNION {Sequences(logs[n].records) : n \in replayed})
      v == [current |-> r.files, file_to_compact |-> {}, compact_pointer |-> r.compact_pointer,
            next_file_number |-> got.next + 1, manifest_file_number |-> r.next_file_number,
            last_sequence |-> last, log_number |-> r.log_number]
  IN
  /\ db = "recover"
  /\ Readable
  /\ db' = "opening"
  /\ vs' = v
  /\ tables' = got.tables @@ tables
  /\ logs' = (got.next :> NewLogFile) @@ logs
  /\ mem' = got.next
  /\ memtables' = (got.next :> {})
  /\ edit' = LogEdit(VersionEdit({}, added, <<>>), got.next, v)
  /\ UNCHANGED <<queue, imm, reads, bg, flush, compact, pending_outputs, bg_error,
                 manual_compaction, manifests, CURRENT, ghosts>>

\* Mutant: CURRENT will name a manifest that was not synced.
WriteUnsyncedManifest ==
  LET state == Replay([files |-> vs.current, compact_pointer |-> vs.compact_pointer], edit) IN
  /\ db = "opening"
  /\ db' = "set_current"
  /\ manifests' = (vs.manifest_file_number :>
                     [synced |-> Unreadable, written |-> state]) @@ manifests
  /\ UNCHANGED <<vs, queue, memory, reads, background, bg_error, manual_compaction,
                 logs, tables, CURRENT, ghosts>>

(* The new manifest gets a snapshot of the version and the edit, and is    *)
(* synced.                                                                 *)
WriteNewManifest ==
  LET state == Replay([files |-> vs.current, compact_pointer |-> vs.compact_pointer], edit) IN
  /\ db = "opening"
  /\ db' = "set_current"
  /\ manifests' = (vs.manifest_file_number :>
                     [synced |-> state, written |-> state]) @@ manifests
  /\ UNCHANGED <<vs, queue, memory, reads, background, bg_error, manual_compaction,
                 logs, tables, CURRENT, ghosts>>

SetCurrentFile ==
  /\ db = "set_current"
  /\ CURRENT' = vs.manifest_file_number
  /\ damage' = damage \ {"manifest"}
  /\ db' = "finish_open"
  /\ UNCHANGED <<vs, queue, memory, reads, background, bg_error, manual_compaction,
                 logs, tables, manifests, history, durable, counters>>

FinishOpen ==
  LET v == Install(vs, edit) IN
  /\ db = "finish_open"
  /\ db' = "open"
  /\ vs' = v
  /\ edit' = NoEdit
  /\ DeleteObsoleteFiles(v, {}, {}, manifests, FALSE)
  /\ bg' = MaybeSchedule(bg, v, NULL, NULL, FALSE)
  /\ UNCHANGED <<queue, memory, reads, flush, compact, pending_outputs, bg_error,
                 manual_compaction, CURRENT, ghosts>>

(* An error while opening: the new manifest, if any, is removed.           *)
OpenFails ==
  /\ db \in {"new_db", "recover", "opening", "set_current"}
  /\ Fails
  /\ db' = "closed"
  /\ Volatile
  /\ manifests' = IF db = "set_current"
                  THEN Restrict(manifests, DOMAIN manifests \ {vs.manifest_file_number})
                  ELSE manifests
  /\ UNCHANGED <<logs, tables, CURRENT, NoError>>

(* ~DBImpl, once every call has returned and every read and snapshot is    *)
(* released: it waits for the background thread.                           *)
Close ==
  /\ db = "open"
  /\ closes < MaxCloses /\ Faulty
  /\ \A c \in Clients : client[c].pc = "idle"
  /\ views = {} /\ snapshots = <<>>
  /\ db' = "closing"
  /\ closes' = closes + 1
  /\ UNCHANGED <<vs, queue, memory, reads, background, bg_error, manual_compaction,
                 directory, history, durable, damage, crashes, errors, ranges>>

(* The process ends and leaves these logs and manifests.  The next Open    *)
(* applies every write it finds in the logs it reads, also those that were *)
(* reported as failed; the others that were only in memtables are lost.    *)
Stop(logs_, manifests_) ==
  LET r == IF CURRENT \in DOMAIN manifests_ THEN manifests_[CURRENT].written ELSE Unreadable
      read == {n \in DOMAIN logs : n >= r.log_number}
      found == UNION {Entries(logs_[n].records) : n \in read}
  IN
  /\ db' = "closed"
  /\ Volatile
  /\ logs' = [n \in DOMAIN logs_ |-> [logs_[n] EXCEPT !.applied = Entries(logs_[n].records)]]
  /\ manifests' = manifests_
  /\ history' = (history \ UNION {logs[n].applied : n \in read}) \cup found
  /\ UNCHANGED <<tables, CURRENT, durable, errors, closes, ranges>>

Closed ==
  /\ db = "closing"
  /\ bg = "idle"
  /\ Stop(logs, manifests)
  /\ UNCHANGED <<damage, crashes>>

Interrupted == IF db \in {"repair_logs", "repair", "repair_current"} THEN {"interrupted"} ELSE {}

(* The machine stops, or only the process.  A log keeps what was synced    *)
(* and any more of what was written, a manifest too unless its last record *)
(* is cut short.                                                           *)
Crash ==
  /\ crashes < MaxCrashes /\ Faulty
  /\ crashes' = crashes + 1
  /\ \E len \in [DOMAIN logs -> 0 .. Max({0} \cup {Len(logs[n].records) : n \in DOMAIN logs})],
        tail \in {"gone", "cut", "whole"} :
       LET unsynced == {n \in DOMAIN manifests : manifests[n].synced # manifests[n].written}
           Kept(n) == CASE tail = "gone" -> manifests[n].synced
                        [] tail = "cut" /\ n \in unsynced -> Unreadable
                        [] OTHER -> manifests[n].written
       IN
       /\ unsynced = {} => tail = "whole"
       /\ \A n \in DOMAIN logs : len[n] \in logs[n].synced .. Len(logs[n].records)
       /\ Stop([n \in DOMAIN logs |-> [logs[n] EXCEPT !.records = SubSeq(@, 1, len[n]),
                                                      !.synced = len[n]]],
               [n \in DOMAIN manifests |-> [synced |-> Kept(n), written |-> Kept(n)]])
       /\ damage' = damage \cup Interrupted \cup IF tail = "cut" THEN {"manifest"} ELSE {}

(* Every file goes; the database starts anew.                              *)
DestroyDB ==
  /\ db \in {"closed", "corrupt"} /\ CURRENT # NULL
  /\ closes < MaxCloses /\ Faulty
  /\ closes' = closes + 1
  /\ logs' = <<>> /\ tables' = <<>> /\ manifests' = <<>> /\ CURRENT' = NULL
  /\ history' = {} /\ durable' = {} /\ damage' = {}
  /\ db' = "closed"
  /\ UNCHANGED <<vs, queue, memory, reads, background, bg_error, manual_compaction,
                 crashes, errors, ranges>>

-----------------------------------------------------------------------------
Client(c) ==
  \/ Write(c) \/ Lead(c) \/ Return(c)
  \/ AddRecord(c) \/ SyncLog(c) \/ InsertInto(c) \/ Publish(c)
  \/ CompactRangeCall(c) \/ CompactMemTableCall(c) \/ AwaitMemTable(c) \/ TEST_CompactRange(c)

Reader ==
  \/ StartRead
  \/ \E w \in views : EndRead(w) \/ RecordReadSample(w)
  \/ GetSnapshot \/ ReleaseSnapshot

Background ==
  \/ BackgroundNothing \/ BackgroundFlush \/ BackgroundCompact
  \/ CompactionYields \/ FlushBuild \/ FlushFail
  \/ FlushWrite \/ FlushInstall \/ FlushNotLogged
  \/ MoveWrite \/ MoveInstall \/ MoveNotLogged
  \/ OpenCompactionOutputFile \/ FinishCompactionOutputFile \/ InstallCompactionResults
  \/ CompactWrite \/ CompactInstall \/ CompactNotLogged \/ CompactFail

Opening ==
  \/ Open \/ SetFirstCurrent \/ Recover \/ RecoverFails \/ WriteNewManifest \/ SetCurrentFile
  \/ FinishOpen \/ OpenFails

Next ==
  \/ \E c \in Clients : Client(c)
  \/ Reader
  \/ Background
  \/ Opening
  \/ Close \/ Closed \/ Crash \/ DestroyDB

Spec == Init /\ [][Next]_vars

(* As long as a client inside a call or the background thread can go on,   *)
(* one of them does: the scheduler does not stop the whole process.  Nobody*)
(* has to make a call.                                                     *)
Continue(c) ==
  \/ Lead(c) \/ Return(c) \/ AddRecord(c) \/ SyncLog(c) \/ InsertInto(c) \/ Publish(c)
  \/ CompactMemTableCall(c) \/ AwaitMemTable(c) \/ TEST_CompactRange(c)

FairSpec ==
  /\ Spec
  /\ WF_vars((\E c \in Clients : Continue(c)) \/ Background)

-----------------------------------------------------------------------------
Newest(S) == {e \in S : \A f \in S : f.sequence <= e.sequence}

(* The value a read at a sequence number must return.                      *)
Expected(sequence, user_key) ==
  Value(Newest({e \in history : e.user_key = user_key /\ e.sequence <= sequence}))

LiveViews ==
  views \cup (IF db \in {"open", "closing"}
              THEN {View(sequence) : sequence \in ToSet(snapshots) \cup {vs.last_sequence}}
              ELSE {})

(* No file or memtable that the database or a read in progress refers to   *)
(* is ever removed or left unfinished, whichever thread drops the last     *)
(* reference or collects garbage.                                          *)
NeededFilesExist ==
  \A w \in LiveViews :
    /\ \A n \in LiveFiles(w.version) : n \in DOMAIN tables /\ tables[n] # <<>>
    /\ {w.mem, w.imm} \subseteq DOMAIN memtables \cup {NULL}

(* A read at any snapshot that is held, at the current sequence number or  *)
(* by an iterator in progress returns the newest write of the key that the *)
(* snapshot covers: whatever was flushed, compacted, dropped or recovered  *)
(* in the meantime.  RepairDB forgets which level a table was on: after it *)
(* an older write may be found first.                                      *)
ReadsCorrect ==
  "repaired" \notin damage => \A w \in LiveViews : \A k \in Keys :
     Value(Search(w, k).entry) = Expected(w.sequence, k)

(* For each key, what a level holds is newer than what any level below it  *)
(* holds: Version::Get stops at the first level that has the key.          *)
NewerAbove ==
  LET At(level) == UNION {ToSet(tables[f.number]) : f \in ToSet(vs.current[level])} IN
  "repaired" \notin damage =>
    \A l, m \in Levels : l < m => \A e \in At(l), f \in At(m) :
       e.user_key = f.user_key => e.sequence > f.sequence

(* Tables of a level above 0 are in order and do not overlap: FindFile and *)
(* NewConcatenatingIterator rely on it.                                    *)
LevelsDisjoint ==
  \A level \in Levels \ {0} : \A i \in 1 .. Len(vs.current[level]) - 1 :
     Before(vs.current[level][i].largest, vs.current[level][i + 1].smallest)

(* What the memtables and the tables of the current version hold.          *)
Present ==
  UNION {memtables[m] : m \in DOMAIN memtables \cap {mem, imm}}
    \cup UNION {ToSet(tables[n]) : n \in LiveFiles(vs.current)}

(* A write acknowledged with sync = true is in the open database, or a     *)
(* later one of its key is, or the key was deleted later and nothing of it *)
(* is left: after any crash, failed operation or repair, unless a record   *)
(* of its log was cut short by a failed append or a repair was cut short.  *)
SyncedWritesSurvive ==
  db = "open" /\ damage \subseteq {"manifest", "repaired"} => \A e \in durable :
    LET left == {f \in Present : f.user_key = e.user_key} IN
    \/ \E f \in left : f.sequence >= e.sequence
    \/ left = {} /\ \E f \in history : /\ f.user_key = e.user_key
                                       /\ f.sequence >= e.sequence
                                       /\ f.type = kTypeDeletion

(* A write that any member of a group wants synced is on disk when the     *)
(* group is told so: in the synced part of a log, or in a table; or a      *)
(* later write of its key is.                                              *)
SyncedOnDisk ==
  LET OnDisk == UNION {Entries(SubSeq(logs[n].records, 1, logs[n].synced)) : n \in DOMAIN logs}
                  \cup UNION {ToSet(tables[n]) : n \in DOMAIN tables}
  IN  \A e \in durable : \E f \in OnDisk :
        f.user_key = e.user_key /\ f.sequence >= e.sequence

(* Every sequence number in use is covered by last_sequence once open.     *)
SequencesCovered ==
  db = "open" => \A e \in Present :
     \/ e.sequence <= vs.last_sequence
     \/ e \in ToSet(group.entries)

(* Open finds a database it cannot read only if an append to the manifest  *)
(* in use was cut short, or if the machine stopped while CURRENT named a   *)
(* manifest that NewDB or RepairDB wrote, which they do not sync, or if    *)
(* RepairDB was cut short after it had archived the manifest: not after    *)
(* any other crash, failed operation or completed repair.                  *)
OpensAgain ==
  db = "corrupt" =>
    \/ "manifest" \in damage
    \/ CURRENT = 1 /\ crashes > 0
    \/ "interrupted" \in damage /\ CURRENT \notin DOMAIN manifests

(* The background thread never follows a manual_compaction_ that the       *)
(* client has taken back.  CompactRange takes it back after an error       *)
(* ("Cancel my manual compaction since we aborted early"), and db.h says   *)
(* that "a DB is safe for concurrent access from multiple threads".        *)
NoSegfault == db # "segfault"

(* Every call returns: a writer that waits for its turn, for a memtable or *)
(* for level 0 is woken, and so is a client that waits for a compaction.   *)
CallsReturn == \A c \in Clients : []<>(client[c].pc = "idle")

=============================================================================
