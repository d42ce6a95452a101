-------------------------------- MODULE Kmem -------------------------------
(***************************************************************************)
(* The kernel heap, kernel/mm/kmem.c: a list of blocks threaded through    *)
(* the arena, searched first fit, split on allocation and never merged.    *)
(*                                                                         *)
(* Addresses are offsets into the arena; a block is named by the address   *)
(* of its header and its payload starts Header bytes later.  Callers free  *)
(* only what they hold.                                                    *)
(***************************************************************************)
EXTENDS Integers

CONSTANTS
  Arena,     \* bytes in the buffer given to kmem_init
  Header,    \* sizeof(kmem_block_t)
  Sizes      \* the sizes callers ask for

ASSUME KmemAssumption ==
  /\ Arena \in Nat /\ Header \in Nat
  /\ 0 < Header /\ Header < Arena
  /\ Sizes \subseteq Nat

Null == -1

VARIABLES
  g_head,           \* the first block, or Null before kmem_init
  block,            \* the headers in the arena: address -> size, free, next
  pc, curr, want,   \* the kmalloc in progress: its cursor and its argument
  ret,              \* what the last kmalloc returned
  live              \* <<payload, size asked for>> of each live allocation

vars == <<g_head, block, pc, curr, want, ret, live>>

Headers == DOMAIN block
Block   == [size : Nat, free : BOOLEAN, next : Int]

Init ==
  /\ g_head = Null
  /\ block = [a \in {} |-> 0]
  /\ pc = "idle" /\ curr = Null /\ want = 0 /\ ret = Null
  /\ live = {}

kmem_init ==
  /\ g_head = Null /\ pc = "idle"
  /\ g_head' = 0
  /\ block' = [a \in {0} |-> [size |-> Arena - Header, free |-> TRUE, next |-> Null]]
  /\ UNCHANGED <<pc, curr, want, ret, live>>

Return(p) == pc' = "idle" /\ ret' = p /\ curr' = Null /\ want' = 0

kmalloc(n) ==
  /\ pc = "idle"
  /\ \/ n = 0 /\ Return(Null)
     \/ n > 0 /\ pc' = "walk" /\ curr' = g_head /\ want' = n /\ UNCHANGED ret
  /\ UNCHANGED <<g_head, block, live>>

\* Mutation: a block that is in use may be given out again.
FitsInUse == block[curr].size >= want

Fits == block[curr].free /\ block[curr].size >= want

\* Mutation: the cursor skips every second block.
AdvanceByTwo ==
  /\ pc = "walk" /\ curr # Null /\ ~Fits
  /\ curr' = IF block[curr].next = Null THEN Null ELSE block[block[curr].next].next
  /\ UNCHANGED <<g_head, block, pc, want, ret, live>>

\* Mutation: the cursor is not moved.
AdvanceForgotten ==
  /\ pc = "walk" /\ curr # Null /\ ~Fits
  /\ UNCHANGED vars

\* The loop of kmalloc: the next block, ...
Advance ==
  /\ pc = "walk" /\ curr # Null /\ ~Fits
  /\ curr' = block[curr].next
  /\ UNCHANGED <<g_head, block, pc, want, ret, live>>

\* ... the end of the list, ...
Exhausted ==
  /\ pc = "walk" /\ curr = Null
  /\ Return(Null)
  /\ UNCHANGED <<g_head, block, live>>

Remaining == block[curr].size - want
NewBlock  == curr + Header + want

\* Mutation: the new header is not paid for.
RestWithHeader == Remaining

\* The payload of the block split off.
Rest == Remaining - Header

\* Mutation: the new block is linked to the block it was split from.
NextOfNewLoops == curr

NextOfNew == block[curr].next

\* ... or a block that fits, the tail of which becomes a block of its own when
\* it has room for more than a header.
TakeBlock ==
  /\ pc = "walk" /\ curr # Null /\ Fits
  /\ block' =
       IF Remaining > Header
       THEN [a \in Headers \cup {NewBlock} |->
              IF a = NewBlock
              THEN [size |-> Rest, free |-> TRUE, next |-> NextOfNew]
              ELSE IF a = curr
              THEN [size |-> want, free |-> FALSE, next |-> NewBlock]
              ELSE block[a]]
       ELSE [block EXCEPT ![curr].free = FALSE]
  /\ live' = live \cup {<<curr + Header, want>>}
  /\ Return(curr + Header)
  /\ UNCHANGED g_head

\* Mutation: the block is not marked free.
KfreeForgets(a) ==
  /\ pc = "idle" /\ a \in live
  /\ live' = live \ {a}
  /\ UNCHANGED <<g_head, block, pc, curr, want, ret>>

\* kfree of a live allocation a; kfree(0) returns at once.
kfree(a) ==
  /\ pc = "idle" /\ a \in live
  /\ block' = [block EXCEPT ![a[1] - Header].free = TRUE]
  /\ live' = live \ {a}
  /\ UNCHANGED <<g_head, pc, curr, want, ret>>

Walk == Advance \/ Exhausted \/ TakeBlock

Next ==
  \/ kmem_init
  \/ \E n \in Sizes : kmalloc(n)
  \/ Walk
  \/ \E a \in live : kfree(a)

Spec == Init /\ [][Next]_vars
-----------------------------------------------------------------------------
(* Properties                                                              *)

\* The type invariant of the arena's headers and the kmalloc in progress.
TypeOK ==
  /\ g_head \in {Null, 0}
  /\ Headers \subseteq 0 .. (Arena - Header)
  /\ block \in [Headers -> Block]
  /\ pc \in {"idle", "walk"}
  /\ curr \in Headers \cup {Null}
  /\ want \in Nat
  /\ ret \in Headers \cup {Null} \cup {a + Header : a \in Headers}
  /\ live \subseteq Nat \X Nat

End(a) == a + Header + block[a].size

\* The blocks tile the arena in list order: g_head is its start, each block
\* ends where the next begins, the last ends where the arena ends, and no
\* header lies inside another block.
Tiled ==
  g_head # Null =>
    /\ 0 \in Headers
    /\ \A a \in Headers :
         IF block[a].next = Null THEN End(a) = Arena
         ELSE block[a].next = End(a) /\ End(a) \in Headers
    /\ \A a, b \in Headers : a < b => End(a) <= b

\* What kmalloc gave out stays usable until it is freed: a live allocation is
\* the payload of a block in use that is large enough, so live allocations
\* overlap neither one another nor a header.
LiveIsExclusive ==
  \A l \in live :
    /\ l[1] - Header \in Headers
    /\ ~block[l[1] - Header].free
    /\ l[2] <= block[l[1] - Header].size
    /\ \A m \in live : l # m => l[1] + l[2] <= m[1] - Header \/ m[1] + m[2] <= l[1] - Header

\* A block in use belongs to a live allocation: no block is lost.
NoLeak ==
  \A a \in Headers : ~block[a].free => \E l \in live : l[1] = a + Header

\* The blocks in use are the live allocations, one for one.
InUseIsLive == LiveIsExclusive /\ NoLeak

\* kmalloc fails only when no block fits, and otherwise takes the first that
\* does: every block the cursor has passed was too small or in use.
FirstFit ==
  pc = "walk" => \A a \in Headers :
    (curr = Null \/ a < curr) => ~(block[a].free /\ block[a].size >= want)

\* The search ends: the list has no cycle.
KmallocReturns == pc = "walk" ~> pc = "idle"
=============================================================================
