------------------------------- MODULE Repair -------------------------------
(***************************************************************************)
(* RepairDB (db/repair.cc) on the directory of a database that is not      *)
(* open: it builds a descriptor from the tables and logs it finds, without *)
(* reading the old one.                                                    *)
(***************************************************************************)
EXTENDS DBImpl

(* FindFiles: the first number after those of the logs and tables, which   *)
(* is kept in vs.                                                          *)
FindFiles ==
  /\ db \in {"closed", "corrupt"} /\ (CURRENT # NULL \/ DOMAIN manifests # {})
  /\ closes < MaxCloses /\ Faulty
  /\ closes' = closes + 1
  /\ vs' = [NewVersionSet EXCEPT
               !.next_file_number = Max({0} \cup DOMAIN logs \cup DOMAIN tables) + 1]
  /\ db' = "repair_logs"
  /\ damage' = damage \cup {"repaired"}
  /\ UNCHANGED <<queue, memory, reads, background, bg_error, manual_compaction, directory,
                 history, durable, crashes, errors, ranges>>

(* ArchiveFile moves a file to the directory lost.                         *)
ArchiveFiles(files, numbers) == Restrict(files, DOMAIN files \ numbers)

(* ConvertLogToTable: the entries of the records that can be read go to a  *)
(* table, if there are any.  The log is archived, also if that failed.     *)
(* The order in which GetChildren lists the logs is up to the file system. *)
ConvertLogToTable(n) ==
  LET number == vs.next_file_number
      entries == Entries(logs[n].records)
      new == IF entries = {} THEN <<>> ELSE (number :> Sorted(entries))
  IN
  /\ db = "repair_logs"
  /\ \/ /\ tables' = new @@ tables
        /\ history' = history \cup entries
        /\ UNCHANGED <<damage, errors>>
     \/ /\ Fails
        /\ damage' = damage \cup Interrupted
        /\ UNCHANGED <<tables, history>>
  /\ logs' = ArchiveFiles(logs, {n})
  /\ \/ vs' = [vs EXCEPT !.next_file_number = number + 1]
     \/ errors' # errors /\ UNCHANGED vs     \* the log cannot be opened
  /\ UNCHANGED <<db, queue, memory, reads, background, bg_error, manual_compaction,
                 manifests, CURRENT, durable, crashes, closes, ranges>>

(* ScanTable: a table that was never finished cannot be read.              *)
ScanTable(table) == table # <<>>

(* RepairTable finds no entry to copy: it archives the table, and leaves   *)
(* the file of the copy, which it created first.                           *)
RepairTables(bad, first) ==
  ArchiveFiles(tables, bad) @@ [n \in first .. first + Cardinality(bad) - 1 |-> <<>>]

(* The tables are read, those of the logs and the others.                  *)
ExtractMetaData ==
  LET bad == {n \in DOMAIN tables : ~ScanTable(tables[n])} IN
  /\ db = "repair_logs" /\ logs = <<>>
  /\ tables' = RepairTables(bad, vs.next_file_number)
  /\ vs' = [vs EXCEPT !.next_file_number = @ + Cardinality(bad)]
  /\ history' = history \cup UNION {ToSet(tables'[n]) : n \in DOMAIN tables'}
  /\ db' = "repair"
  /\ UNCHANGED <<queue, memory, reads, background, bg_error, manual_compaction,
                 logs, manifests, CURRENT, durable, damage, counters>>

(* WriteDescriptor: every table goes to level 0, and the old manifests are *)
(* archived before the new one, which is not synced, takes its name.       *)
WriteDescriptor ==
  LET good == {n \in DOMAIN tables : ScanTable(tables[n])}
      added == {<<0, FileMetaData(n, tables[n])>> : n \in good}
      state == [NewDBState EXCEPT
                  !.files = ApplyEdit(EmptyVersion, VersionEdit({}, added, <<>>)),
                  !.next_file_number = vs.next_file_number,
                  !.last_sequence = Max({0} \cup UNION {Sequences(<<tables[n]>>) : n \in good})]
  IN
  /\ db = "repair"
  /\ manifests' = (1 :> [synced |-> Unreadable, written |-> state])
  /\ db' = "repair_current"
  /\ UNCHANGED <<vs, queue, memory, reads, background, bg_error, manual_compaction,
                 logs, tables, CURRENT, ghosts>>

RepairSetCurrent ==
  /\ db = "repair_current"
  /\ CURRENT' = 1
  /\ vs' = NewVersionSet
  /\ db' = "closed"
  /\ damage' = damage \ {"manifest"}
  /\ UNCHANGED <<queue, memory, reads, background, bg_error, manual_compaction,
                 logs, tables, manifests, history, durable, counters>>

(* A descriptor that cannot be written, or renamed, is removed; before it  *)
(* is renamed the old ones are archived.  The logs are gone: if an old     *)
(* descriptor can still be read, Open will not find their writes, and      *)
(* removes the tables they were converted to.                              *)
RepairFails ==
  /\ db \in {"repair", "repair_current"}
  /\ errors < MaxErrors
  /\ errors' = errors + 1
  /\ db' = "closed"
  /\ vs' = NewVersionSet
  /\ damage' = damage \cup Interrupted
  /\ manifests' \in {manifests} \cup (IF db = "repair" THEN {<<>>} ELSE {})
  /\ UNCHANGED <<queue, memory, reads, background, bg_error, manual_compaction,
                 logs, tables, CURRENT, history, durable, crashes, closes, ranges>>

RepairNext ==
  \/ Next
  \/ FindFiles \/ \E n \in DOMAIN logs : ConvertLogToTable(n)
  \/ ExtractMetaData \/ WriteDescriptor \/ RepairSetCurrent \/ RepairFails

RepairSpec == Init /\ [][RepairNext]_vars

=============================================================================
