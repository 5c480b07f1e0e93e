------------------------------- MODULE MemEnv -------------------------------
(***************************************************************************)
(* The files of the in-memory environment (helpers/memenv/memenv.cc): the *)
(* contents of a FileState is a list of blocks of kMemBlockSize bytes, all *)
(* full but the last, and a size.                                          *)
(***************************************************************************)
EXTENDS Integers, Sequences, SequencesExt, FiniteSetsExt, Functions

CONSTANT kMemBlockSize      \* 8 * 1024 in the code

NewFileState == [blocks |-> <<>>, size |-> 0]

(* Fills the last block, then pushes new ones.                             *)
RECURSIVE FileAppend(_, _)
FileAppend(f, data) ==
  LET offset == f.size % kMemBlockSize
      blocks == IF offset # 0 THEN f.blocks ELSE Append(f.blocks, <<>>)
      avail == Min({kMemBlockSize - offset, Len(data)})
      last == Len(blocks)
  IN  IF data = <<>> THEN f
      ELSE FileAppend([blocks |-> [blocks EXCEPT ![last] = @ \o SubSeq(data, 1, avail)],
                       size |-> f.size + avail],
                      SubSeq(data, avail + 1, Len(data)))

(* At most n bytes from offset on, copied block by block.                  *)
FileRead(f, offset, n) ==
  LET count == Min({n, f.size - offset})
      firstBlock == offset \div kMemBlockSize
      lastBlock == (offset + count - 1) \div kMemBlockSize
      Piece(block) == SubSeq(f.blocks[block + 1],
                             IF block = firstBlock THEN (offset % kMemBlockSize) + 1 ELSE 1,
                             IF block = lastBlock THEN ((offset + count - 1) % kMemBlockSize) + 1
                                                  ELSE kMemBlockSize)
  IN  IF count = 0 THEN <<>>
      ELSE FlattenSeq([i \in 1 .. lastBlock - firstBlock + 1 |-> Piece(firstBlock + i - 1)])

=============================================================================
