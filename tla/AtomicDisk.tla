---------------------------- MODULE AtomicDisk -----------------------------
(***************************************************************************)
(* What the journal promises to the file system above it: block writes are *)
(* gathered in a transaction, and a transaction reaches the disk as a      *)
(* whole or not at all.  There are no torn blocks and there is no crash in *)
(* this specification, only a transaction that is dropped.                 *)
(***************************************************************************)
CONSTANTS
  Block,     \* block numbers
  Value,     \* contents of a block
  NoWrite    \* no Value: the transaction does not write this block

VARIABLES
  disk,      \* the contents every reader after recovery sees
  pending    \* the open transaction: the last write to each block

Nothing == [b \in Block |-> NoWrite]

Init == disk \in [Block -> Value] /\ pending = Nothing

Write(b, v) ==
  /\ pending' = [pending EXCEPT ![b] = v]
  /\ disk' = disk

Commit ==
  /\ disk' = [b \in Block |-> IF pending[b] = NoWrite THEN disk[b] ELSE pending[b]]
  /\ pending' = Nothing

Drop ==
  /\ pending' = Nothing
  /\ disk' = disk

Next == (\E b \in Block, v \in Value : Write(b, v)) \/ Commit \/ Drop

Spec == Init /\ [][Next]_<<disk, pending>>
=============================================================================
