------------------------------ MODULE Programs ------------------------------
(***************************************************************************)
(* The programs of a1, run one after the other on three kinds of files: a  *)
(* heap file of records (csv2heapfile, insert, delete, update, scan,       *)
(* select), a column store with one heap file per attribute (csv2colstore, *)
(* select2, select3), and a file of pages (write_fixed_len_pages,          *)
(* read_fixed_len_pages).  A program opens its files, makes its calls and  *)
(* closes them: it is one action.  A process killed on the way is in       *)
(* HeapfileStore, an iterator step by step in HeapScan.                    *)
(*                                                                         *)
(* Arguments that end a program with a message, and files on which its     *)
(* behaviour is undefined (an empty CSV file, a line without NUM_ATTR      *)
(* attributes), are left out.                                              *)
(***************************************************************************)
EXTENDS RecordFormat, HeapfileContents
LOCAL INSTANCE SequencesExt

CONSTANTS
  Files,        \* the CSV files, as sequences of lines
  Values,       \* the values that update, select, select2 and select3 are given
  Leftovers,    \* what a new buffer may hold
  Undefined,    \* what a program does after a read past the directory buffer, and
                \* the row that an update of a deleted record leaves
  PRINT_SIZE,   \* 5: the characters that the select programs print
  MaxPrograms   \* bound on the programs run

ASSUME FilesAssumption ==
  \A lines \in Files : lines # <<>> /\ \A i \in DOMAIN lines : WellFormed(lines[i])

VARIABLES
  columns,  \* the heap files of the column store; <<>> before csv2colstore
  pages,    \* the file of pages
  printed,  \* the last program that printed, and what it printed
  table,    \* what the programs so far make of the heap file (history)
  stored,   \* [columns, tuples, pages]: the rows given to csv2colstore, the tuple
            \* ids it found, and the rows given to write_fixed_len_pages (history)
  kind,     \* of the file that the programs are run on: they share nothing
  ran       \* programs run

fileVars == <<status, offset, heap, disk>>
programVars == <<fileVars, columns, pages, printed, table, stored, kind, ran>>

Attributes == 1 .. NUM_ATTR

Silent == [call |-> <<>>, started |-> TRUE, out |-> <<>>]

NoRow == [live |-> FALSE, row |-> [a \in Attributes |-> <<>>]]

ProgramInit ==
  /\ Init
  /\ columns = <<>> /\ pages = <<>>
  /\ printed = Silent
  /\ table = [rid \in Rid |-> NoRow]
  /\ stored = [columns |-> <<>>, tuples |-> <<>>, pages |-> <<>>]
  /\ kind \in {"heapfile", "colstore", "pages"}
  /\ ran = 0

-----------------------------------------------------------------------------
\* open_heapfile
Opened(blocks) == [heap |-> Reopened(blocks), disk |-> blocks, was |-> {blocks}]

\* The loop of csv2heapfile and insert over the lines of a CSV file
PutLines(st, lines) ==
  FoldLeft(LAMBDA s, line : put_record(s, fixed_len_write(load_csv_record(line))), st, lines)

Before(a, b) == a[1] < b[1] \/ (a[1] = b[1] /\ a[2] < b[2])

\* The record ids in the order in which an iterator comes to them
InOrder(rids) ==
  [i \in 1 .. Cardinality(rids) |->
     CHOOSE rid \in rids : Cardinality({other \in rids : Before(other, rid)}) = i - 1]

\* The heap file named on the command line, after a program that changed it
Leave(st, rows) ==
  /\ Len(st.disk) <= MaxBlocks
  /\ disk' = close_heapfile(st).disk
  /\ status' = "closed"
  /\ table' = rows
  /\ printed' = Silent
  /\ UNCHANGED <<offset, heap, columns, pages, stored>>

Live(rows) == {rid \in Rid : rows[rid].live}

FirstFree(rows) == CHOOSE rid \in Rid \ Live(rows) : \A other \in Rid \ Live(rows) : ~ Before(other, rid)

\* A row takes the first free record id.
Insert(rows, lines) ==
  FoldLeft(LAMBDA t, line :
             [t EXCEPT ![FirstFree(t)] = [live |-> TRUE, row |-> load_csv_record(line)]],
           rows, lines)

csv2heapfile(lines) ==
  Leave(PutLines(create_heapfile, lines), Insert([rid \in Rid |-> NoRow], lines))

insert(lines) ==
  /\ status = "closed"
  /\ Leave(PutLines(Opened(disk), lines), Insert(table, lines))

\* The record ids that delete and update may be given: get_entry asserts the page.
Given(rid) == status = "closed" /\ Allocated(DirectoriesFrom(disk), rid[1])

delete(rid) ==
  /\ Given(rid)
  /\ Leave(delete_record(Opened(disk), rid[1], rid[2]), [table EXCEPT ![rid].live = FALSE])

\* An update of a record id that holds no row takes it, with a row that is left
\* open: the comment "Check record is valid before being read" and the assert that
\* is commented out in read_fixed_len_page rule the call out, and it goes through.
Updated(rows, rid, a, new) ==
  IF rows[rid].live /\ rows[rid].row # Undefined
    THEN [rows EXCEPT ![rid].row[a] = new]
    ELSE [rows EXCEPT ![rid] = [live |-> TRUE, row |-> Undefined]]

\* Mutant: the other attributes are not read.
updateBlindly(rid, a, value) ==
  /\ Given(rid)
  /\ Leave(update_record(Opened(disk), rid[1], rid[2],
             fixed_len_write([[b \in Attributes |-> <<>>] EXCEPT ![a] = Cut(value, ATTRIBUTE_SIZE)])),
           Updated(table, rid, a, Cut(value, ATTRIBUTE_SIZE)))

\* get_record, the new value, update_record.  read_fixed_len_page does not look
\* at the flag: a record that was deleted is back with its other attributes.
update(rid, a, value) ==
  LET got == get_record(Opened(disk), rid[1])
      rec == fixed_len_read(read_fixed_len_page(got.heap.cached_page, rid[2]), NUM_ATTR)
      new == Cut(value, ATTRIBUTE_SIZE)
  IN  /\ Given(rid)
      /\ Leave(update_record(got, rid[1], rid[2], fixed_len_write([rec EXCEPT ![a] = new])),
               Updated(table, rid, a, new))

-----------------------------------------------------------------------------
\* The records of n attributes that an iterator over a heap file returns.
RecordsOf(blocks, n) ==
  LET h == Reopened(blocks)
      filled == {rid \in Rid : /\ Allocated(h.directory_buffer, rid[1])
                               /\ PageOf(h, blocks, rid[1]).flag[rid[2]]}
      order == InOrder(filled)
  IN  [i \in DOMAIN order |->
         [rid |-> order[i],
          rec |-> fixed_len_read(read_fixed_len_page(PageOf(h, blocks, order[i][1]), order[i][2]), n)]]

\* An iterator that has returned its last record has looked for the next page
\* past the end of the directory buffer, if the last directory is full.
RunsOff(blocks) == is_full(Last(DirectoriesFrom(blocks)))

InRange(value, lo, hi) == AtMost(lo, value) /\ AtMost(value, hi)

\* A loop over an iterator.  started is what has_next was left with by the
\* constructor; it counts unless there is no record, when it is set.
Loop(blocks, started, rows) ==
  CASE started /\ RunsOff(blocks) -> Undefined
    [] started /\ ~ RunsOff(blocks) -> rows
    [] ~ started /\ RunsOff(blocks) /\ RecordsOf(blocks, 1) = <<>> -> Undefined
    [] OTHER -> <<>>

\* close_heapfile after an iteration writes the directories as they were.
Report(call, started, out) ==
  /\ printed' = [call |-> call, started |-> started, out |-> out]
  /\ UNCHANGED <<fileVars, columns, pages, table, stored>>

scan ==
  /\ status = "closed"
  /\ \E started \in BOOLEAN :
       Report(<<"scan">>, started, Loop(disk, started, RecordsOf(disk, NUM_ATTR)))

\* The part of the attribute that the select programs print, for those in range
Selected(records, a, lo, hi) ==
  LET chosen == SelectSeq(records, LAMBDA r : InRange(r[a], lo, hi))
  IN  [i \in DOMAIN chosen |-> Cut(chosen[i][a], PRINT_SIZE)]

Recs(records) == [i \in DOMAIN records |-> records[i].rec]

select(a, lo, hi) ==
  /\ status = "closed"
  /\ \E started \in BOOLEAN :
       Report(<<"select", a, lo, hi>>, started,
              Loop(disk, started, Selected(Recs(RecordsOf(disk, NUM_ATTR)), a, lo, hi)))

-----------------------------------------------------------------------------
\* The heap file of attribute a: each line's token under a tuple id that
\* load_col_record found in its buffer.
Column(lines, a, tuples) ==
  LET put(st, i) ==
        put_record(st, fixed_len_write(load_col_record(Tokens(lines[i])[a], tuples[a][i])))
  IN  close_heapfile(FoldLeft(put, create_heapfile, [i \in DOMAIN lines |-> i])).disk

\* Bound: the column store is built once (csv2heapfile covers that
\* create_heapfile truncates the file it finds).
csv2colstore(lines) ==
  /\ columns = <<>>
  /\ \E tuples \in [Attributes -> [DOMAIN lines -> Leftovers]] :
       /\ columns' = [a \in Attributes |-> Column(lines, a, tuples)]
       /\ \A a \in Attributes : Len(columns'[a]) <= MaxBlocks
       /\ stored' = [stored EXCEPT !.columns = [i \in DOMAIN lines |-> load_csv_record(lines[i])],
                                   !.tuples = tuples]
       /\ printed' = Silent
       /\ UNCHANGED <<fileVars, pages, table>>

\* The records of a column are a tuple id and a value.
ColumnRecords(a) == Recs(RecordsOf(columns[a], 2))

select2(a, lo, hi) ==
  /\ columns # <<>>
  /\ \E started \in BOOLEAN :
       Report(<<"select2", a, lo, hi>>, started,
              Loop(columns[a], started, Selected(ColumnRecords(a), 2, lo, hi)))

\* The value under a tuple id in column `ret`: the first one, if there is any
Joined(ret, tuple) ==
  LET found == SelectSeq(ColumnRecords(ret), LAMBDA r : atoi(r[1]) = tuple)
  IN  IF found = <<>> THEN <<>> ELSE <<Cut(found[1][2], PRINT_SIZE)>>

\* One iterator finds the tuple ids, then one for each of them looks for its
\* value.  A later iterator is where the one before was and has its has_next;
\* it stops after the record it looks for, and next has gone on from there.
select3(a, ret, lo, hi) ==
  LET chosen == SelectSeq(ColumnRecords(a), LAMBDA r : InRange(r[2], lo, hi))
      ids == [i \in DOMAIN chosen |-> atoi(chosen[i][1])]
      other == ColumnRecords(ret)
      leaves(tuple) == \A i \in 1 .. Len(other) - 1 : atoi(other[i][1]) # tuple
  IN  /\ columns # <<>>
      /\ \E started \in BOOLEAN, later \in SUBSET DOMAIN ids :
           Report(<<"select3", a, ret, lo, hi>>, started /\ later = DOMAIN ids,
             IF Loop(columns[a], started, <<>>) = Undefined THEN Undefined
             ELSE IF ~ started THEN <<>>
             ELSE IF RunsOff(columns[ret]) /\ \E i \in later : leaves(ids[i]) THEN Undefined
             ELSE FlattenSeq([i \in DOMAIN ids |-> IF i \in later THEN Joined(ret, ids[i]) ELSE <<>>]))

-----------------------------------------------------------------------------
\* Mutant: a full page is not noticed.
WriteToFirst(lines) ==
  LET add(out, line) ==
        LET full == out = <<>> \/ fixed_len_page_freeslots(Last(out)) < 0
            made == IF full THEN Append(out, init_fixed_len_page) ELSE out
        IN  [made EXCEPT ![Len(made)] = add_fixed_len_page(@, fixed_len_write(load_csv_record(line)))]
  IN  FoldLeft(add, <<>>, lines)

\* The loop of write_fixed_len_pages: full pages go to the file, the last one
\* when the lines are read.
WritePages(lines) ==
  LET add(out, line) ==
        LET full == out = <<>> \/ fixed_len_page_freeslots(Last(out)) = 0
            made == IF full THEN Append(out, init_fixed_len_page) ELSE out
        IN  [made EXCEPT ![Len(made)] = add_fixed_len_page(@, fixed_len_write(load_csv_record(line)))]
  IN  FoldLeft(add, <<>>, lines)

write_fixed_len_pages(lines) ==
  /\ pages' = WritePages(lines)
  /\ stored' = [stored EXCEPT !.pages = [i \in DOMAIN lines |-> load_csv_record(lines[i])]]
  /\ printed' = Silent
  /\ UNCHANGED <<fileVars, columns, table>>

\* As many records from the front of each page as it has flags.
ReadPage(page) ==
  [i \in 1 .. Capacity - fixed_len_page_freeslots(page) |->
     fixed_len_read(read_fixed_len_page(page, i - 1), NUM_ATTR)]

read_fixed_len_pages ==
  Report(<<"read_fixed_len_pages">>, TRUE, FlattenSeq([p \in DOMAIN pages |-> ReadPage(pages[p])]))

HeapfileProgram ==
  \/ \E lines \in Files : csv2heapfile(lines) \/ insert(lines)
  \/ \E rid \in Rid : delete(rid) \/ \E a \in Attributes, value \in Values : update(rid, a, value)
  \/ scan
  \/ \E a \in Attributes, lo, hi \in Values : select(a, lo, hi)

ColstoreProgram ==
  \/ \E lines \in Files : csv2colstore(lines)
  \/ \E a \in Attributes, lo, hi \in Values :
       select2(a, lo, hi) \/ \E ret \in Attributes : select3(a, ret, lo, hi)

PageProgram ==
  \/ \E lines \in Files : write_fixed_len_pages(lines)
  \/ read_fixed_len_pages

ProgramNext ==
  /\ ran < MaxPrograms /\ ran' = ran + 1
  /\ UNCHANGED kind
  /\ \/ kind = "heapfile" /\ HeapfileProgram
     \/ kind = "colstore" /\ ColstoreProgram
     \/ kind = "pages" /\ PageProgram

ProgramSpec == ProgramInit /\ [][ProgramNext]_programVars

-----------------------------------------------------------------------------
\* Whatever programs were run on it, the heap file holds the rows they were given:
\* csv2heapfile and insert put each line, cut to ATTRIBUTE_SIZE, under the first
\* free record id, update changes the one attribute of the one row and leaves the
\* others as fixed_len_read and fixed_len_write carry them, and no other row moves.
\* A row that was updated after it was deleted is left open, and only that one.
TableKept ==
  status = "closed" =>
    LET held == Contents
    IN  \A rid \in Rid :
          IF table[rid].live
            THEN \/ table[rid].row = Undefined
                 \/ held[rid] # NoRecord /\ fixed_len_read(held[rid], NUM_ATTR) = table[rid].row
            ELSE held[rid] = NoRecord

\* What a printing program should print of rows: its loop over the records is a
\* selection on the rows that the programs before it stored.
Expected(call) ==
  LET live == InOrder(Live(table))
      rows == [i \in DOMAIN live |-> table[live[i]].row]
      loaded == stored.columns
      chosen == SelectSeq([i \in DOMAIN loaded |-> i],
                          LAMBDA i : InRange(loaded[i][call[2]], call[4], call[5]))
  IN  CASE call[1] = "scan" -> [i \in DOMAIN live |-> [rid |-> live[i], rec |-> rows[i]]]
        [] call[1] = "select" -> Selected(rows, call[2], call[3], call[4])
        [] call[1] = "select2" -> Selected(loaded, call[2], call[3], call[4])
        [] call[1] = "select3" -> [i \in DOMAIN chosen |-> Cut(loaded[chosen[i]][call[3]], PRINT_SIZE)]
        [] call[1] = "read_fixed_len_pages" -> stored.pages

\* The tuple ids of two columns are the numbers of the rows, as the comment on
\* load_col_record has it.
Numbered(a, ret) ==
  \A c \in {a, ret}, i \in DOMAIN stored.columns : atoi(Cut(stored.tuples[c][i], ATTRIBUTE_SIZE)) = i - 1

\* If the iterators start with has_next true and none runs off the directories,
\* each program prints the rows that were stored, once and in their order:
\* scan and select those of the heap file, select2 those of one column, select3
\* the values that belong to the rows in range, if the tuple ids were filled in,
\* and read_fixed_len_pages those that write_fixed_len_pages was given.  Nothing is
\* said of a heap file with a row that was updated after it was deleted.
PrintsRows ==
  (/\ printed.call # <<>> /\ printed.started /\ printed.out # Undefined
   /\ \A rid \in Live(table) : table[rid].row # Undefined) =>
    \/ printed.out = Expected(printed.call)
    \/ printed.call[1] = "select3" /\ ~ Numbered(printed.call[2], printed.call[3])

=============================================================================
