----------------------------- MODULE MCLogFile ------------------------------
(***************************************************************************)
(* A log of blocks of 8 bytes with headers of 3, and codecs of small       *)
(* bytes: most records take several blocks, one fits a block exactly.      *)
(***************************************************************************)
EXTENDS LogFile

MCBatches == {<<>>, <<<<kTypeValue, <<1>>, <<2>>>>>>,
              <<<<kTypeDeletion, <<1>>>>, <<kTypeValue, <<2, 3>>, <<1, 2, 3, 0, 1>>>>>>}

MCEdits ==
  {[NewEdit EXCEPT !.last_sequence = <<5>>],
   [NewEdit EXCEPT !.log_number = <<3>>, !.prev_log_number = <<0>>, !.deleted_files = {<<1, 7>>, <<0, 12>>}],
   [NewEdit EXCEPT !.comparator = <<<<1>>>>, !.next_file_number = <<17>>,
                   !.compact_pointers = <<<<2, <<1, 0>>>>>>,
                   !.new_files = <<<<0, 4, 20, <<1, 2>>, <<2, 1, 3, 3, 3>>>>>>]}

=============================================================================
