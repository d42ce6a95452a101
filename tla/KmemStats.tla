----------------------------- MODULE KmemStats -----------------------------
(***************************************************************************)
(* kmem_get_free_bytes, which walks the block list and adds up what is     *)
(* free.  It runs to its end between two other calls on the heap.          *)
(***************************************************************************)
EXTENDS Kmem, FiniteSets

VARIABLES
  cursor,     \* the block it looks at, or Off when it is not running
  total       \* what it has added up

stats == <<cursor, total>>

Off == -2

StatsInit == Init /\ cursor = Off /\ total = 0

kmem_get_free_bytes ==
  /\ cursor = Off /\ pc = "idle"
  /\ cursor' = g_head /\ total' = 0
  /\ UNCHANGED vars

CountBlock ==
  /\ cursor \in Headers
  /\ total' = total + (IF block[cursor].free THEN block[cursor].size ELSE 0)
  /\ cursor' = block[cursor].next
  /\ UNCHANGED vars

\* The caller has the total.
ReturnTotal ==
  /\ cursor = Null
  /\ cursor' = Off /\ total' = 0
  /\ UNCHANGED vars

Count == CountBlock \/ ReturnTotal

StatsNext ==
  \/ cursor = Off /\ Next /\ UNCHANGED stats
  \/ kmem_get_free_bytes
  \/ Count

\* A call that has begun runs to its end.
StatsSpec ==
  /\ StatsInit /\ [][StatsNext]_<<vars, stats>>
  /\ WF_<<vars, stats>>(cursor = Off /\ Walk /\ UNCHANGED stats)
  /\ WF_<<vars, stats>>(Count)
-----------------------------------------------------------------------------
(* Properties                                                              *)

\* The bytes of the arena that are in headers or in the payload of a block that
\* is in use.
Spent ==
  {p \in 0 .. Arena - 1 : \E a \in Headers :
     IF block[a].free THEN p \in a .. (a + Header - 1) ELSE p \in a .. (End(a) - 1)}

\* What kmem_get_free_bytes returns is the whole arena but the headers and the
\* blocks in use: no byte is counted twice and none is lost, however often the
\* heap was split.
BytesConserved ==
  g_head # Null /\ cursor = Null => total = Arena - Cardinality(Spent)
=============================================================================
