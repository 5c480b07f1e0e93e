------------------------------- MODULE Cursor -------------------------------
(***************************************************************************)
(* What an iterator over the database promises: a cursor over entries in   *)
(* the order of their user keys.  Once an error was met the cursor may be  *)
(* anywhere, and the error stays.                                          *)
(***************************************************************************)
EXTENDS Comparator

CONSTANT Targets       \* keys a caller may seek

VARIABLES entries,     \* internal keys in order, one per user key
          pos,         \* the entry the cursor is at; 0 when it is not valid
          failed,
          call         \* the last call, its target, and where the cursor was then

vars == <<entries, pos, failed, call>>

Init == /\ pos = 0 /\ failed \in BOOLEAN
        /\ call = [op |-> "new", target |-> <<>>, from |-> 0]

\* The call takes the cursor to an entry, or reports an error.
Call(op, target, to) ==
  /\ call' = [op |-> op, target |-> target, from |-> pos]
  /\ pos' = to \/ failed'
  /\ failed => failed'
  /\ entries' = entries

SeekToFirst == Call("SeekToFirst", <<>>, IF entries = <<>> THEN 0 ELSE 1)
SeekToLast == Call("SeekToLast", <<>>, Len(entries))
Seek(target) ==
  LET reached == {i \in DOMAIN entries : ~Less(ExtractUserKey(entries[i]), target)}
  IN  Call("Seek", target, IF reached = {} THEN 0 ELSE Min(reached))
Next == pos # 0 /\ Call("Next", <<>>, IF pos = Len(entries) THEN 0 ELSE pos + 1)
Prev == pos # 0 /\ Call("Prev", <<>>, pos - 1)

Step == SeekToFirst \/ SeekToLast \/ Next \/ Prev \/ \E target \in Targets : Seek(target)

Spec == Init /\ [][Step]_vars

=============================================================================
