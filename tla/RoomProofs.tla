---------------------------- MODULE RoomProofs -----------------------------
(***************************************************************************)
(* No allocation of the kernel fails, so that it never panics, on a heap   *)
(* with room for its stacks and a few blocks of its turns, for every list  *)
(* of threads whose turns allocate blocks of two sizes at most.  kfree     *)
(* never merges blocks: the argument bounds what the turns, however long   *)
(* they go on, can still take from the end of the heap.                    *)
(***************************************************************************)
EXTENDS KernelProofs

\* The two sizes that the turns allocate.
Pair  == CHOOSE p \in TurnSizes \X TurnSizes : EnoughFor(p[1], p[2])
Small == Pair[1]
Large == Pair[2]

\* The blocks that are no thread's stack.  The last of them is where the heap
\* still grows; the others were freed by a turn, or by the probe.
Spare == {a \in Headers : \A i \in DOMAIN threads : threads[i].stack # a + Header}

\* The first block that the smaller size fits is too small to be split, so the
\* turns of that size take it, whole, from now on.
SmallReady ==
  \E a \in Spare :
    /\ block[a].next # Null /\ Small <= block[a].size /\ block[a].size <= Small + Header
    /\ \A b \in Spare : b < a => block[b].size < Small

\* The larger size fits a block before the last.
LargeReady == \E a \in Spare : block[a].next # Null /\ Large <= block[a].size

\* What the turns may still take from the last block, and what must be left.
\* A turn of the smaller size may split the block of the larger, but only once.
TurnNeed ==
  (IF SmallReady THEN 0 ELSE (Small + Header) + (Large + Header))
  + (IF LargeReady THEN 0 ELSE Large + Header) + (Large + Header)

Cost(n) == n * (StackSize + Header)

\* The stacks that are not allocated yet.
Owing == Len(Entries) - Len(threads) - (IF at = "created" /\ pc = "idle" THEN 1 ELSE 0)

Need ==
  IF Started THEN TurnNeed
  ELSE TurnRoom(Small, Large) + Cost(Owing)
       + (IF at = "probe" \/ (at = "probe_done" /\ pc = "walk") THEN ProbeSize + Header ELSE 0)

Reserve ==
  at \notin {"cli", "heap"} =>
    \E t \in Spare : /\ block[t].next = Null /\ block[t].size > Need
                     /\ at = "created" /\ pc = "idle" => t + Header # ret

Answered == at \in {"probe_done", "created", "turn_done"} /\ pc = "idle" => ret # Null

Running == {"yield", "turn", "turn_done", "turn_free", "overrun"}

\* Interrupts are on, or one is served, only after cpu_sti; by then the IDT is
\* loaded and the controller raises IRQ 0 at its own vector.
Guarded ==
  /\ IF_ \/ irq # "none" => at \in Running
  /\ at \in {"remap", "mask", "unmask", "sti"} \cup Running => idt
  /\ at \in {"mask", "unmask", "sti"} \cup Running => offset = PIC_MASTER_OFFSET

RoomInv == RunInv /\ Reserve /\ Answered /\ Guarded /\ ~panicked /\ at # "halt"

LEMMA RoomFacts ==
  /\ Small \in Nat /\ Large \in Nat /\ Small <= Large
  /\ \A e \in DOMAIN Work : Work[e] \in {0, Small, Large}
  /\ Arena > (ProbeSize + Header) + Cost(Len(Entries)) + TurnRoom(Small, Large) + Header
  /\ Len(Entries) <= MaxThreads
<1>1. Pair \in TurnSizes \X TurnSizes /\ EnoughFor(Small, Large)
  BY Zenon, RoomAssumption DEF Pair, Small, Large
<1>2. TurnSizes \subseteq Nat
  BY KernelAssumption DEF TurnSizes
<1>3. Small \in Nat /\ Large \in Nat
  BY Zenon, <1>1, <1>2 DEF Small, Large
<1> QED BY Zenon, <1>1, <1>3, RoomAssumption DEF EnoughFor, Cost, TurnSizes

LEMMA CostFacts ==
  ASSUME NEW n \in Nat
  PROVE  /\ Cost(n) \in Nat
         /\ n > 0 => n - 1 \in Nat /\ Cost(n) = Cost(n - 1) + (StackSize + Header)
<1> DEFINE c == StackSize + Header
<1>1. c \in Nat
  BY KernelAssumption, KmemAssumption
<1>2. Cost(n) = n * c /\ Cost(n - 1) = (n - 1) * c
  BY Zenon DEF Cost
<1> HIDE DEF c
<1>3. n * c \in Nat /\ n * c = (n - 1) * c + c
  BY <1>1, Z3
<1>4. Cost(n) \in Nat /\ Cost(n) = Cost(n - 1) + c
  BY Zenon, <1>2, <1>3
<1>5. n > 0 => n - 1 \in Nat
  OBVIOUS
<1> QED BY Zenon, <1>4, <1>5 DEF c

\* No block begins behind the last of the list.
LEMMA TailIsLast ==
  ASSUME KInv, NEW a \in Headers, NEW t \in Headers, block[t].next = Null
  PROVE  a <= t
<1>1. g_head # Null /\ End(t) = Arena
  BY DEF KInv, Calls, Tiled
<1>2. a > t => End(t) <= a
  BY <1>1 DEF KInv, Tiled
<1> QED BY <1>1, <1>2, BlockType, KmemAssumption DEF KInv

\* While kmalloc searches, the blocks in use are the stacks.
LEMMA SpareIsFree ==
  ASSUME RunInv, pc = "walk", NEW a \in Headers
  PROVE  a \in Spare <=> block[a].free
<1>1. live = Stacks
  BY DEF RunInv, Allocated, Given
<1>2. ASSUME a \in Spare, ~block[a].free
      PROVE  FALSE
  <2>1. PICK l \in live : l[1] = a + Header
    BY <1>2 DEF RunInv, KInv, NoLeak
  <2> QED BY <1>1, <1>2, <2>1 DEF Stacks, Spare
<1>3. ASSUME a \notin Spare, block[a].free
      PROVE  FALSE
  <2>1. PICK i \in DOMAIN threads : threads[i].stack = a + Header
    BY <1>3 DEF Spare
  <2> DEFINE l == <<threads[i].stack, StackSize>>
  <2>2. l \in live
    BY <1>1, <2>1 DEF Stacks
  <2>3. l[1] - Header = a
    BY <2>1, BlockType, KmemAssumption DEF RunInv, KInv
  <2> QED BY <1>3, <2>2, <2>3 DEF RunInv, KInv, LiveIsExclusive
<1> QED BY <1>2, <1>3

\* Every stack is the payload of a block.
LEMMA StackHasHeader ==
  ASSUME RunInv, NEW i \in DOMAIN threads
  PROVE  threads[i].stack \in Nat /\ threads[i].stack - Header \in Headers
<1> DEFINE l == <<threads[i].stack, StackSize>>
<1>1. l \in live
  BY DEF RunInv, Allocated, Stacks
<1> QED BY <1>1 DEF RunInv, KInv, LiveIsExclusive, TypeOK

\* A turn, or kmain, takes a block whole, ...
Whole ==
  /\ block[curr].size <= want + Header /\ Headers' = Headers
  /\ \A a \in Headers : block'[a].size = block[a].size /\ block'[a].next = block[a].next

\* ... or splits it, which leaves a block n behind it.
Splits(n) ==
  /\ block[curr].size > want + Header
  /\ n \in Nat /\ n > curr /\ n \notin Headers /\ Spare' = Spare \cup {n}
  /\ block'[n].size = block[curr].size - want - Header /\ block'[n].next = block[curr].next
  /\ block'[curr].size = want /\ block'[curr].next = n
  /\ \A a \in Headers : a # curr => block'[a] = block[a]

LEMMA Taken ==
  ASSUME RunInv, TakeBlock, threads' = threads
  PROVE  /\ want \in Nat \ {0} /\ curr \in Spare /\ curr \in Headers /\ block[curr].size >= want
         /\ \A b \in Spare : b < curr => block[b].size < want
         /\ Whole \/ \E n \in Nat : Splits(n)
<1>1. /\ pc = "walk" /\ curr # Null /\ block[curr].free /\ block[curr].size >= want
  BY DEF TakeBlock, Fits
<1>2. want \in Nat \ {0} /\ curr \in Headers /\ g_head # Null
  BY <1>1 DEF RunInv, KInv, TypeOK, Calls
<1>3. curr \in Spare
  BY <1>1, <1>2, SpareIsFree
<1>4. \A b \in Spare : b < curr => block[b].size < want
  <2> SUFFICES ASSUME NEW b \in Spare, b < curr
               PROVE  block[b].size < want
    OBVIOUS
  <2>1. b \in Headers
    BY DEF Spare
  <2>2. block[b].free
    BY <1>1, <2>1, SpareIsFree
  <2>3. ~(block[b].free /\ block[b].size >= want)
    BY <1>1, <2>1 DEF RunInv, KInv, FirstFit
  <2> QED BY <1>2, <2>1, <2>2, <2>3, BlockType DEF RunInv, KInv
<1>5. CASE Remaining <= Header
  <2>1. block[curr].size <= want + Header
    BY <1>2, <1>5, BlockType, KmemAssumption DEF Remaining, RunInv, KInv
  <2>2. block' = [block EXCEPT ![curr].free = FALSE]
    <3>1. ~(Remaining > Header)
      BY <1>2, <1>5, BlockType, KmemAssumption DEF Remaining, RunInv, KInv
    <3> QED BY <3>1 DEF TakeBlock
  <2>3. Headers' = Headers
        /\ \A a \in Headers : block'[a].size = block[a].size /\ block'[a].next = block[a].next
    BY Zenon, <1>2, <2>2 DEF Headers, RunInv, KInv, TypeOK, Block
  <2> QED BY <1>1, <1>2, <1>3, <1>4, <2>1, <2>3 DEF Whole
<1>6. CASE Remaining > Header
  <2> DEFINE n == curr + Header + want
  <2>1. /\ Headers' = Headers \cup {n}
        /\ block' = [a \in Headers \cup {n} |->
                      IF a = n THEN [size |-> block[curr].size - want - Header,
                                     free |-> TRUE, next |-> block[curr].next]
                      ELSE IF a = curr THEN [size |-> want, free |-> FALSE, next |-> n]
                      ELSE block[a]]
    BY <1>6 DEF TakeBlock, Headers, NewBlock, NextOfNew, Rest, Remaining
  <2>2. /\ block[curr].size > want + Header /\ n \in Nat /\ n > curr
        /\ n < End(curr)
    BY <1>2, <1>6, BlockType, KmemAssumption DEF Remaining, RunInv, KInv, End
  <2> HIDE DEF n
  <2>3. n \notin Headers
    <3> SUFFICES ASSUME n \in Headers PROVE FALSE
      OBVIOUS
    <3>1. End(curr) <= n
      BY <1>2, <2>2 DEF RunInv, KInv, Tiled
    <3> QED BY <1>2, <2>2, <3>1, BlockType DEF RunInv, KInv
  <2>4. /\ block'[n].size = block[curr].size - want - Header /\ block'[n].next = block[curr].next
        /\ block'[curr].size = want /\ block'[curr].next = n
        /\ \A a \in Headers : a # curr => block'[a] = block[a]
    BY <1>2, <2>1, <2>3
  <2>5. Spare' = Spare \cup {n}
    <3>1. \A i \in DOMAIN threads : threads[i].stack # n + Header
      <4> SUFFICES ASSUME NEW i \in DOMAIN threads, threads[i].stack = n + Header
                   PROVE  FALSE
        OBVIOUS
      <4>1. threads[i].stack - Header = n
        BY <2>2, KmemAssumption
      <4> QED BY <2>3, <4>1, StackHasHeader
    <3> QED BY <2>1, <3>1 DEF Spare
  <2>6. Splits(n)
    BY <2>2, <2>3, <2>4, <2>5 DEF Splits
  <2> QED BY <1>1, <1>2, <1>3, <1>4, <2>2, <2>6
<1> QED
  BY <1>2, <1>5, <1>6, BlockType, KmemAssumption DEF Remaining, RunInv, KInv

\* A step that changes no block's size and place leaves what is owed alone.
LEMMA SameBlocks ==
  ASSUME Headers' = Headers, threads' = threads,
         \A a \in Headers : block'[a].size = block[a].size /\ block'[a].next = block[a].next
  PROVE  Spare' = Spare /\ TurnNeed' = TurnNeed
<1>1. Spare' = Spare /\ Spare \subseteq Headers
  BY DEF Spare
<1>2. (SmallReady' <=> SmallReady) /\ (LargeReady' <=> LargeReady)
  BY Zenon, <1>1 DEF SmallReady, LargeReady
<1> QED BY <1>1, <1>2 DEF TurnNeed

\* Taking a block leaves a last block, which pays for at most that allocation.
LEMMA TailTakes ==
  ASSUME RunInv, TakeBlock, threads' = threads, NEW m \in Nat,
         NEW t \in Spare, block[t].next = Null, block[t].size > m + want + Header
  PROVE  \E u \in Spare' : block'[u].next = Null /\ block'[u].size > m /\ u \in Nat \ {curr}
<1>1. t \in Headers /\ t \in Nat /\ block[t].size \in Nat /\ want \in Nat \ {0} /\ curr \in Headers
  BY Taken, BlockType DEF Spare, RunInv, KInv
<1>2. CASE Whole
  <2>1. t \in Spare'
    BY <1>2, SameBlocks DEF Whole
  <2>2. t # curr /\ block'[t].next = Null /\ block'[t].size > m
    BY <1>1, <1>2, KmemAssumption DEF Whole
  <2> QED BY <1>1, <2>1, <2>2
<1>3. ASSUME NEW n \in Nat, Splits(n)
      PROVE  \E u \in Spare' : block'[u].next = Null /\ block'[u].size > m /\ u \in Nat \ {curr}
  <2>1. CASE t = curr
    <3>1. n \in Spare' /\ n # curr /\ block'[n].next = Null /\ block'[n].size > m
      BY <1>1, <1>3, <2>1, KmemAssumption DEF Splits
    <3> QED BY <3>1
  <2>2. CASE t # curr
    <3>1. t \in Spare' /\ block'[t].next = Null /\ block'[t].size > m
      BY <1>1, <1>3, <2>2, KmemAssumption DEF Splits
    <3> QED BY <1>1, <2>2, <3>1
  <2> QED BY <2>1, <2>2
<1> QED BY <1>2, <1>3, Taken

LEMMA NeedFacts ==
  /\ TurnNeed \in Nat /\ TurnNeed' \in Nat
  /\ TurnNeed >= Large + Header /\ TurnNeed <= TurnRoom(Small, Large)
  /\ SmallReady' => TurnNeed' <= (Large + Header) + (Large + Header)
  /\ ~SmallReady => TurnNeed >= (Small + Header) + (Large + Header) + (Large + Header)
  /\ (SmallReady => SmallReady') /\ LargeReady' => TurnNeed' <= TurnNeed
  /\ (SmallReady => SmallReady') /\ LargeReady' /\ ~LargeReady =>
       TurnNeed' <= TurnNeed - (Large + Header)
<1> USE RoomFacts, KmemAssumption
<1>1. TurnNeed \in Nat /\ TurnNeed' \in Nat
  BY DEF TurnNeed
<1>2. TurnNeed >= Large + Header /\ TurnNeed <= TurnRoom(Small, Large)
  BY DEF TurnNeed, TurnRoom
<1>3. SmallReady' => TurnNeed' <= (Large + Header) + (Large + Header)
  BY DEF TurnNeed
<1>4. ~SmallReady => TurnNeed >= (Small + Header) + (Large + Header) + (Large + Header)
  BY DEF TurnNeed
<1>5. (SmallReady => SmallReady') /\ LargeReady' => TurnNeed' <= TurnNeed
  BY DEF TurnNeed
<1>6. (SmallReady => SmallReady') /\ LargeReady' /\ ~LargeReady =>
        TurnNeed' <= TurnNeed - (Large + Header)
  BY DEF TurnNeed
<1> QED BY <1>1, <1>2, <1>3, <1>4, <1>5, <1>6

\* A split for the smaller size is the last of its kind.
LEMMA SmallSplits ==
  ASSUME RunInv, TakeBlock, threads' = threads, want = Small, NEW n \in Nat, Splits(n)
  PROVE  SmallReady' /\ ~SmallReady
<1>1. /\ curr \in Spare /\ curr \in Headers /\ want \in Nat /\ block[curr].size >= want
      /\ \A b \in Spare : b < curr => block[b].size < want
  BY Taken
<1>2. Spare \subseteq Headers /\ \A a \in Headers : a \in Nat /\ block[a].size \in Nat
  BY BlockType DEF Spare, RunInv, KInv
<1>3. SmallReady'
  <2>1. curr \in Spare' /\ block'[curr].next # Null /\ block'[curr].size = Small
    BY <1>1 DEF Splits, Null
  <2>2. \A b \in Spare' : b < curr => block'[b].size < Small
    BY <1>1, <1>2 DEF Splits
  <2>3. Small <= Small /\ Small <= Small + Header
    BY RoomFacts, KmemAssumption
  <2> QED BY Zenon, <2>1, <2>2, <2>3 DEF SmallReady
<1>4. ASSUME NEW a \in Spare, Small <= block[a].size, block[a].size <= Small + Header,
             \A b \in Spare : b < a => block[b].size < Small
      PROVE  FALSE
  <2>1. ~(a < curr) /\ ~(curr < a)
    BY <1>1, <1>2, <1>4
  <2>2. a = curr
    BY <1>1, <1>2, <2>1
  <2> QED BY SMTT(30), <1>1, <1>2, <1>4, <2>2, KmemAssumption DEF Splits
<1> QED BY <1>3, <1>4 DEF SmallReady

\* A split for the larger size leaves a block of that size, and the smaller's.
LEMMA LargeSplits ==
  ASSUME RunInv, TakeBlock, threads' = threads, want = Large, NEW n \in Nat, Splits(n)
  PROVE  LargeReady' /\ (SmallReady => SmallReady')
<1>1. /\ curr \in Spare /\ curr \in Headers /\ want \in Nat /\ block[curr].size >= want
  BY Taken
<1>2. Spare \subseteq Headers /\ \A a \in Headers : a \in Nat /\ block[a].size \in Nat
  BY BlockType DEF Spare, RunInv, KInv
<1>3. LargeReady'
  <2>1. curr \in Spare' /\ block'[curr].next # Null /\ block'[curr].size = Large
    BY <1>1 DEF Splits, Null
  <2>2. Large <= Large
    BY RoomFacts
  <2> QED BY Zenon, <2>1, <2>2 DEF LargeReady
<1>4. ASSUME NEW a \in Spare, block[a].next # Null,
             Small <= block[a].size, block[a].size <= Small + Header,
             \A b \in Spare : b < a => block[b].size < Small
      PROVE  SmallReady'
  <2>1. a # curr /\ ~(curr < a)
    BY SMTT(30), <1>1, <1>2, <1>4, RoomFacts, KmemAssumption DEF Splits
  <2>2. a < curr /\ a < n
    BY <1>1, <1>2, <2>1 DEF Splits
  <2>3. a \in Spare' /\ block'[a] = block[a]
    BY <1>2, <2>1 DEF Splits
  <2>4. ASSUME NEW b \in Spare', b < a
        PROVE  block'[b].size < Small
    <3>1. b # n /\ b \in Spare
      BY <1>2, <2>2, <2>4 DEF Splits
    <3>2. b # curr
      BY <1>1, <1>2, <2>2, <2>4, <3>1
    <3> QED BY <1>2, <1>4, <2>4, <3>1, <3>2 DEF Splits
  <2> QED BY Zenon, <1>4, <2>3, <2>4 DEF SmallReady
<1> QED BY <1>3, <1>4 DEF SmallReady

\* Whichever size a turn asks for, what is left pays for the turns to come.
LEMMA TurnTakes ==
  ASSUME RunInv, TakeBlock, threads' = threads, want \in {Small, Large},
         NEW t \in Spare, block[t].next = Null, block[t].size > TurnNeed
  PROVE  \E u \in Spare' : block'[u].next = Null /\ block'[u].size > TurnNeed'
<1>1. /\ t \in Headers /\ block[t].size \in Nat
      /\ want \in Nat \ {0} /\ curr \in Spare /\ curr \in Headers /\ block[curr].size >= want
      /\ \A b \in Spare : b < curr => block[b].size < want
  BY Taken, BlockType DEF Spare, RunInv, KInv
<1>2. CASE Whole
  <2>1. t \in Spare' /\ TurnNeed' = TurnNeed
    BY <1>2, SameBlocks DEF Whole
  <2> QED BY <1>1, <1>2, <2>1 DEF Whole
<1>3. ASSUME NEW n \in Nat, Splits(n)
      PROVE  \E u \in Spare' : block'[u].next = Null /\ block'[u].size > TurnNeed'
  <2>1. t # curr => t \in Spare' /\ block'[t] = block[t]
    BY <1>1, <1>3 DEF Splits
  <2>2. TurnNeed \in Nat /\ TurnNeed' \in Nat
    BY NeedFacts
  <2>3. CASE want = Small
    <3>1. SmallReady' /\ ~SmallReady
      BY <1>3, <2>3, SmallSplits
    <3>2. /\ TurnNeed' <= (Large + Header) + (Large + Header)
          /\ TurnNeed >= (Small + Header) + (Large + Header) + (Large + Header)
      BY <3>1, NeedFacts
    <3>3. block[t].size > TurnNeed' + want + Header
      BY SMTT(30), <1>1, <2>2, <2>3, <3>2, RoomFacts, KmemAssumption
    <3> QED BY <2>2, <3>3, TailTakes
  <2>4. CASE want = Large
    <3>1. LargeReady' /\ (SmallReady => SmallReady')
      BY <1>3, <2>4, LargeSplits
    <3>2. TurnNeed' <= TurnNeed
      BY <3>1, NeedFacts
    <3>3. CASE LargeReady
      <4>1. PICK b \in Spare : block[b].next # Null /\ Large <= block[b].size
        BY <3>3 DEF LargeReady
      <4>2. b \in Headers /\ b \in Nat /\ curr \in Nat /\ block[b].size \in Nat
        BY <1>1, BlockType DEF Spare, RunInv, KInv
      <4>3. ~(b < curr)
        BY <1>1, <2>4, <4>1, <4>2, RoomFacts
      <4>4. t # curr
        BY <1>1, <4>1, <4>2, <4>3, TailIsLast DEF RunInv
      <4>5. t \in Spare' /\ block'[t].next = Null /\ block'[t].size = block[t].size
        BY Zenon, <2>1, <4>4
      <4>6. block[t].size > TurnNeed'
        BY <1>1, <2>2, <3>2
      <4> QED BY Zenon, <4>5, <4>6
    <3>4. CASE ~LargeReady
      <4>1. TurnNeed' <= TurnNeed - (Large + Header)
        BY <3>1, <3>4, NeedFacts
      <4>2. block[t].size > TurnNeed' + want + Header
        BY SMTT(30), <1>1, <2>2, <2>4, <4>1, RoomFacts, KmemAssumption
      <4> QED BY <2>2, <4>2, TailTakes
    <3> QED BY <3>3, <3>4
  <2> QED BY <2>3, <2>4
<1> QED BY <1>2, <1>3, Taken

\* The last block has room for whatever is being searched for.
LEMMA TailFits ==
  ASSUME RoomInv, pc = "walk"
  PROVE  \E t \in Spare :
           /\ t \in Headers /\ block[t].next = Null /\ block[t].size > Need /\ block[t].free
           /\ block[t].size \in Nat /\ block[t].size > want + Header
<1>1. at \in {"probe_done", "created", "turn_done"} /\ want = Asked
  BY DEF RoomInv, RunInv, Allocated
<1>2. PICK t \in Spare : block[t].next = Null /\ block[t].size > Need
  BY <1>1 DEF RoomInv, Reserve
<1>3. t \in Headers /\ block[t].free /\ block[t].size \in Nat
  BY SpareIsFree, BlockType DEF Spare, RoomInv, RunInv, KInv
<1>4. Owing = Len(Entries) - Len(threads) /\ Owing \in Nat /\ (at = "created" => Owing > 0)
  BY KernelAssumption DEF Owing, RoomInv, RunInv, Scheduled
<1>5. Cost(Owing) \in Nat /\ (Owing > 0 => Cost(Owing) >= StackSize + Header)
  <2>1. Cost(Owing) \in Nat
    BY Zenon, <1>4, CostFacts
  <2>2. ASSUME Owing > 0
        PROVE  Cost(Owing) >= StackSize + Header
    <3>1. Cost(Owing) = Cost(Owing - 1) + (StackSize + Header) /\ Cost(Owing - 1) \in Nat
      BY Zenon, <1>4, <2>2, CostFacts
    <3> QED BY <3>1, KernelAssumption, KmemAssumption
  <2> QED BY <2>1, <2>2
<1>6. TurnRoom(Small, Large) \in Nat
  BY RoomFacts, KmemAssumption DEF TurnRoom
<1> HIDE DEF TurnRoom
<1>7. Need >= want + Header /\ Need \in Nat /\ want \in Nat
  <2>1. CASE at = "probe_done"
    BY SMTT(30), <1>1, <1>5, <1>6, <2>1, KernelAssumption, KmemAssumption DEF Need, Started, Asked
  <2>2. CASE at = "created"
    <3>1. want = StackSize /\ Need = TurnRoom(Small, Large) + Cost(Owing) + 0
      BY <1>1, <2>2 DEF Need, Started, Asked
    <3>2. Cost(Owing) \in Nat /\ Cost(Owing) >= StackSize + Header
      BY <1>1, <1>4, <1>5, <2>2
    <3> QED BY SMTT(30), <1>6, <3>1, <3>2, KernelAssumption, KmemAssumption
  <2>3. CASE at = "turn_done"
    <3>1. running \in DOMAIN Work
      BY <2>3, RunningIsEntry DEF RoomInv, RunInv, Scheduled
    <3>2. want \in Nat /\ want <= Large
      BY <1>1, <2>3, <3>1, RoomFacts DEF Asked
    <3>3. Need = TurnNeed
      BY <2>3 DEF Need, Started
    <3> QED BY <3>2, <3>3, NeedFacts, RoomFacts, KmemAssumption
  <2> QED BY <1>1, <2>1, <2>2, <2>3
<1> QED BY <1>2, <1>3, <1>7, KmemAssumption

LEMMA ReserveWalk ==
  ASSUME RoomInv, Walk, UNCHANGED <<at, sched>>
  PROVE  Reserve' /\ Answered'
<1>1. pc = "walk" /\ at \in {"probe_done", "created", "turn_done"} /\ want = Asked
  BY DEF RoomInv, RunInv, Allocated, Walk, Advance, Exhausted, TakeBlock
<1>2. PICK t \in Spare :
        /\ t \in Headers /\ block[t].next = Null /\ block[t].size > Need /\ block[t].free
        /\ block[t].size \in Nat /\ block[t].size > want + Header
  BY <1>1, TailFits
<1>3. at' = at /\ threads' = threads /\ want \in Nat
  BY DEF sched, RoomInv, RunInv, KInv, TypeOK
<1>4. CASE Advance
  <2>1. block' = block /\ pc' = pc
    BY <1>4 DEF Advance
  <2>2. Spare' = Spare /\ TurnNeed' = TurnNeed
    BY <1>3, <2>1, SameBlocks DEF Headers
  <2>3. Need' = Need
    BY <1>3, <2>1, <2>2 DEF Need, Started, Owing
  <2> QED BY <1>1, <1>2, <1>3, <2>1, <2>2, <2>3 DEF Reserve, Answered
<1>5. CASE Exhausted
  BY <1>1, <1>2, <1>3, <1>5, KmemAssumption DEF Exhausted, RoomInv, RunInv, KInv, FirstFit
<1>6. CASE TakeBlock
  <2>1. pc' = "idle" /\ ret' = curr + Header /\ curr \in Nat
    BY SMTT(30), <1>3, <1>6, Taken, BlockType DEF TakeBlock, Return, RoomInv, RunInv, KInv
  <2>2. ret' # Null
    BY <2>1, KmemAssumption DEF Null
  <2>3. Len(Entries) - Len(threads) \in Nat /\ (at = "created" => Len(Entries) - Len(threads) > 0)
    BY KernelAssumption DEF RoomInv, RunInv, Scheduled
  <2>4. TurnRoom(Small, Large) \in Nat
    BY RoomFacts, KmemAssumption DEF TurnRoom
  <2> DEFINE o == Len(Entries) - Len(threads)
  <2>0. Cost(o) \in Nat
    BY Zenon, <2>3, CostFacts
  <2>5. CASE at = "turn_done"
    <3>1. Need = TurnNeed /\ Need' = TurnNeed'
      BY <1>3, <2>5 DEF Need, Started
    <3>2. running \in DOMAIN Work
      BY <2>5, RunningIsEntry DEF RoomInv, RunInv, Scheduled
    <3>3. want \in {Small, Large}
      BY SMTT(30), <1>1, <1>3, <1>6, <2>5, <3>2, RoomFacts, Taken DEF Asked, RoomInv
    <3>4. \E u \in Spare' : block'[u].next = Null /\ block'[u].size > TurnNeed'
      BY SMTT(30), <1>2, <1>3, <1>6, <3>1, <3>3, TurnTakes DEF RoomInv
    <3> QED BY <1>3, <2>2, <2>5, <3>1, <3>4 DEF Reserve, Answered
  <2>6. CASE at = "probe_done"
    <3> DEFINE m == TurnRoom(Small, Large) + Cost(o)
    <3>1. Need = m + (ProbeSize + Header) /\ Need' = m /\ want = ProbeSize /\ m \in Nat
      <4>1. Owing = o /\ Owing' = o
        BY <1>3, <2>3, <2>6 DEF Owing
      <4> HIDE DEF o
      <4> QED BY SMTT(30), <1>1, <1>3, <2>0, <2>1, <2>4, <2>6, <4>1 DEF Need, Started, Asked
    <3> HIDE DEF m
    <3>2. block[t].size > m + want + Header
      BY SMTT(30), <1>2, <3>1, KernelAssumption, KmemAssumption
    <3>3. \E u \in Spare' : block'[u].next = Null /\ block'[u].size > m
      BY SMTT(30), <1>2, <1>3, <1>6, <3>1, <3>2, TailTakes DEF RoomInv
    <3> QED BY SMTT(30), <1>3, <2>2, <2>6, <3>1, <3>3 DEF Reserve, Answered
  <2>7. CASE at = "created"
    <3> DEFINE m == TurnRoom(Small, Large) + Cost(o - 1)
    <3>1. Need = m + (StackSize + Header) /\ Need' = m /\ want = StackSize /\ m \in Nat
      <4>1. Cost(o) = Cost(o - 1) + (StackSize + Header) /\ Cost(o - 1) \in Nat
        BY Zenon, <2>3, <2>7, CostFacts
      <4>2. Owing = o /\ Owing' = o - 1
        BY SMTT(30), <1>1, <1>3, <2>1, <2>3, <2>7 DEF Owing
      <4> HIDE DEF o
      <4>3. Need = TurnRoom(Small, Large) + Cost(o) /\ Need' = m
        BY SMTT(30), <1>1, <1>3, <2>0, <2>1, <2>4, <2>7, <4>1, <4>2 DEF Need, Started
      <4>4. want = StackSize
        BY <1>1, <2>7 DEF Asked
      <4> QED BY SMTT(30), <2>4, <4>1, <4>3, <4>4, KernelAssumption, KmemAssumption
    <3> HIDE DEF m
    <3>2. block[t].size > m + want + Header
      BY SMTT(30), <1>2, <3>1, KernelAssumption, KmemAssumption
    <3>3. PICK u \in Spare' : block'[u].next = Null /\ block'[u].size > m /\ u \in Nat \ {curr}
      BY SMTT(30), <1>2, <1>3, <1>6, <3>1, <3>2, TailTakes DEF RoomInv
    <3>4. u + Header # ret'
      BY SMTT(30), <2>1, <3>3, KmemAssumption
    <3> QED BY SMTT(30), <1>3, <2>2, <2>7, <3>1, <3>3, <3>4 DEF Reserve, Answered
  <2> QED BY SMTT(30), <1>1, <2>5, <2>6, <2>7
<1> QED BY <1>4, <1>5, <1>6 DEF Walk

\* A step that keeps the blocks and owes no more.
LEMMA ReserveStays ==
  ASSUME Reserve, Headers' = Headers, threads' = threads,
         \A a \in Headers : block'[a].size = block[a].size /\ block'[a].next = block[a].next,
         at \notin {"cli", "heap"}, ~(at' = "created" /\ pc' = "idle"),
         \A m \in Nat : m > Need => m > Need', RunInv
  PROVE  Reserve'
<1>1. PICK t \in Spare : block[t].next = Null /\ block[t].size > Need
  BY DEF Reserve
<1>2. t \in Headers /\ block[t].size \in Nat
  BY BlockType DEF Spare, RunInv, KInv
<1>3. t \in Spare' /\ block'[t].next = Null /\ block'[t].size > Need'
  BY <1>1, <1>2, SameBlocks
<1> QED BY <1>3 DEF Reserve

LEMMA ReserveInit ==
  ASSUME RoomInv, kmem_init, at' = "probe", UNCHANGED sched
  PROVE  Reserve'
<1>1. /\ block' = [a \in {0} |-> [size |-> Arena - Header, free |-> TRUE, next |-> Null]]
      /\ pc' = pc /\ threads' = threads /\ live = {}
  BY DEF kmem_init, sched, RoomInv, RunInv, KInv, Calls
<1>2. DOMAIN threads = {} /\ Len(threads) = 0
  <2>1. Stacks = {} /\ threads \in Seq(Thread)
    BY <1>1 DEF RoomInv, RunInv, Allocated, Scheduled
  <2>2. DOMAIN threads = {}
    BY Zenon, <2>1 DEF Stacks
  <2> QED BY SMTT(30), <2>1, <2>2
<1>3. 0 \in Spare' /\ block'[0].size = Arena - Header /\ block'[0].next = Null
  BY <1>1, <1>2 DEF Spare, Headers
<1>4. Len(Entries) \in Nat /\ Cost(Len(Entries)) \in Nat
  BY KernelAssumption, CostFacts
<1>5. Owing' = Len(Entries)
  BY <1>1, <1>2, <1>4 DEF Owing
<1>6. Need' = TurnRoom(Small, Large) + Cost(Len(Entries)) + (ProbeSize + Header)
  BY <1>5 DEF Need, Started
<1>7. TurnRoom(Small, Large) \in Nat
  BY RoomFacts, KmemAssumption DEF TurnRoom
<1>8. Arena - Header > Need'
  <2> DEFINE c == Cost(Len(Entries))
             r == TurnRoom(Small, Large)
  <2>1. Arena > (ProbeSize + Header) + c + r + Header /\ c \in Nat /\ r \in Nat
    BY Zenon, <1>4, <1>7, RoomFacts
  <2>2. Need' = r + c + (ProbeSize + Header)
    BY Zenon, <1>6
  <2> HIDE DEF c, r
  <2> QED BY SMTT(30), <2>1, <2>2, KernelAssumption, KmemAssumption
<1> QED BY <1>3, <1>8 DEF Reserve

LEMMA ReserveStep ==
  ASSUME RoomInv, [KNext]_kvars, at' # "halt"
  PROVE  Reserve'
<1>0. Reserve /\ RunInv
  BY DEF RoomInv
<1>1. CASE UNCHANGED <<vars, at, sched>>
  <2>1. block' = block /\ threads' = threads /\ pc' = pc /\ at' = at /\ ret' = ret
    BY <1>1 DEF vars, sched
  <2>2. Spare' = Spare /\ TurnNeed' = TurnNeed
    BY <2>1, SameBlocks DEF Headers
  <2>3. Need' = Need
    BY <2>1, <2>2 DEF Need, Started, Owing
  <2> QED BY <1>0, <2>1, <2>2, <2>3 DEF Reserve
<1>2. CASE Walk /\ UNCHANGED <<at, sched>>
  BY <1>2, ReserveWalk
<1>3. CASE kmem_init /\ at = "heap" /\ at' = "probe" /\ UNCHANGED sched
  BY <1>3, ReserveInit
<1>4. CASE Moves
  <2>1. block' = block /\ threads' = threads /\ pc' = pc /\ pc = "idle"
    BY <1>4 DEF Moves, vars, sched
  <2>2. TurnNeed' = TurnNeed
    BY <2>1, SameBlocks DEF Headers
  <2>3. CASE at = "cli"
    BY <1>4, <2>3 DEF Moves, Reserve
  <2>4. CASE at = "create"
    <3>1. at' = "idt" /\ Len(threads) = Len(Entries)
      BY <1>4, <2>4 DEF Moves
    <3>2. Owing = 0
      BY <2>4, <3>1, KernelAssumption DEF Owing
    <3>3. Cost(0) \in Nat /\ TurnRoom(Small, Large) \in Nat
      BY CostFacts, RoomFacts, KmemAssumption DEF TurnRoom
    <3>4. Need = TurnRoom(Small, Large) + Cost(0) /\ Need' = TurnNeed
      BY SMTT(30), <2>2, <2>4, <3>1, <3>2, <3>3 DEF Need, Started
    <3>5. \A m \in Nat : m > Need => m > Need'
      BY <3>3, <3>4, NeedFacts
    <3> QED BY SMTT(30), <1>0, <2>1, <2>4, <3>1, <3>5, ReserveStays DEF Headers
  <2>5. CASE at \notin {"cli", "create"}
    <3>1. Started /\ Started' /\ at' # "created" /\ at \notin {"cli", "heap"}
      BY <1>4, <2>5 DEF Moves, Started
    <3>2. Need' = Need
      BY <2>2, <3>1 DEF Need
    <3> QED BY <1>0, <2>1, <3>1, <3>2, ReserveStays DEF Headers
  <2> QED BY <2>3, <2>4, <2>5
<1>5. CASE Asks
  <2>1. /\ block' = block /\ threads' = threads /\ pc' = "walk" /\ pc = "idle"
        /\ <<at, at'>> \in {<<"probe", "probe_done">>, <<"create", "created">>, <<"turn", "turn_done">>}
    BY <1>5 DEF Asks, kmalloc, sched
  <2>2. TurnNeed' = TurnNeed
    BY <2>1, SameBlocks DEF Headers
  <2>3. Owing' = Owing
    BY <2>1 DEF Owing
  <2>4. Need' = Need
    BY <2>1, <2>2, <2>3 DEF Need, Started
  <2> QED BY <1>0, <2>1, <2>4, ReserveStays DEF Headers
<1>6. CASE Tests
  <2>1. /\ block' = block /\ threads' = threads /\ pc' = pc /\ pc = "idle"
        /\ <<at, at'>> \in {<<"probe_done", "probe_free">>, <<"turn_done", "turn_free">>}
    BY <1>6 DEF Tests, vars, sched
  <2>2. TurnNeed' = TurnNeed
    BY <2>1, SameBlocks DEF Headers
  <2>3. Owing' = Owing
    BY <2>1 DEF Owing
  <2>4. Need' = Need
    BY <2>1, <2>2, <2>3 DEF Need, Started
  <2> QED BY <1>0, <2>1, <2>4, ReserveStays DEF Headers
<1>7. CASE Frees
  <2>1. /\ threads' = threads /\ pc' = pc /\ pc = "idle"
        /\ <<at, at'>> \in {<<"probe_free", "create">>, <<"turn_free", "yield">>}
        /\ block' = [block EXCEPT ![ret - Header].free = TRUE]
    BY <1>7 DEF Frees, kfree, sched
  <2>2. Headers' = Headers
        /\ \A a \in Headers : block'[a].size = block[a].size /\ block'[a].next = block[a].next
    BY ZenonT(30), <1>0, <2>1 DEF Headers, RunInv, KInv, TypeOK, Block
  <2>3. TurnNeed' = TurnNeed
    BY <2>1, <2>2, SameBlocks
  <2>4. Owing' = Owing
    BY <2>1 DEF Owing
  <2>5. Need' = Need
    BY SMTT(30), <2>1, <2>3, <2>4 DEF Need, Started
  <2> QED BY <1>0, <2>1, <2>2, <2>5, ReserveStays
<1>8. CASE Creates
  <2>1. /\ block' = block /\ pc' = pc /\ pc = "idle" /\ at = "created" /\ at' = "create"
        /\ threads \in Seq(Thread)
        /\ threads' = Append(threads, [entry |-> Entries[Len(threads) + 1], stack |-> ret])
    BY <1>0, <1>8 DEF Creates, vars, RunInv, Scheduled
  <2>2. PICK t \in Spare : /\ block[t].next = Null /\ block[t].size > Need
                           /\ t + Header # ret
    BY <1>0, <2>1 DEF Reserve
  <2>3. /\ Len(threads') = Len(threads) + 1 /\ Len(threads) \in Nat
        /\ \A i \in DOMAIN threads' :
             \/ i \in DOMAIN threads /\ threads'[i] = threads[i]
             \/ threads'[i].stack = ret
    BY <2>1
  <2>4. t \in Spare'
    BY <2>1, <2>2, <2>3 DEF Spare, Headers
  <2>5. Owing' = Owing
    BY <2>1, <2>3, KernelAssumption DEF Owing
  <2>6. Need' = Need
    BY <2>1, <2>5 DEF Need, Started
  <2> QED BY SMTT(30), <2>1, <2>2, <2>4, <2>6 DEF Reserve
<1>9. CASE Yields
  <2>1. block' = block /\ threads' = threads /\ pc' = pc /\ at = "yield" /\ at' = "turn"
    BY <1>9 DEF Yields, vars
  <2>2. TurnNeed' = TurnNeed
    BY <2>1, SameBlocks DEF Headers
  <2>3. Need' = Need
    BY <2>1, <2>2 DEF Need, Started
  <2> QED BY <1>0, <2>1, <2>3, ReserveStays DEF Headers
<1> QED
  BY ZenonT(30), <1>1, <1>2, <1>3, <1>4, <1>5, <1>6, <1>7, <1>8, <1>9, Shapes

\* Interrupts come when they can be served, and no assertion fails.
LEMMA GuardStep ==
  ASSUME RoomInv, [KNext]_kvars
  PROVE  Guarded' /\ ~panicked' /\ at' # "halt"
<1>0. Guarded /\ Answered /\ ~panicked /\ at # "halt"
  BY DEF RoomInv
<1>1. CASE UNCHANGED kvars
  BY <1>0, <1>1 DEF kvars, cpu, chips, Guarded
<1>2. CASE Tick \/ Search
  BY <1>0, <1>2 DEF Tick, Search, cpu, chips, Guarded
<1>3. CASE Interrupt
  BY <1>0, <1>3 DEF Interrupt, Guarded
<1>4. CASE x86_64_trap_dispatch
  BY SMTT(30), <1>0, <1>4 DEF x86_64_trap_dispatch, timer_on_irq0, pic_send_eoi, isr_common, chips, Guarded
<1>5. CASE cpu_cli \/ x86_64_idt_init \/ pic_remap
  BY SMTT(30), <1>0, <1>5 DEF cpu_cli, x86_64_idt_init, pic_remap, RemapTo, Goto, cpu, chips, Guarded, Running
<1>6. CASE pic_mask_all \/ pic_unmask_irq \/ cpu_sti
  BY <1>0, <1>6 DEF pic_mask_all, pic_unmask_irq, cpu_sti, Goto, cpu, chips, Guarded, Running
<1>a. ASSUME AssertRet, ret # Null
      PROVE  ~panicked' /\ (IF_' => IF_) /\ UNCHANGED <<idt, irq>>
  BY Zenon, <1>a DEF AssertRet, KernelAssert
<1>7. CASE m8_heap_bootstrap
  <2>1. at \notin Running /\ at' \in {"probe", "probe_done", "probe_free", "create"}
    BY <1>0, <1>7 DEF m8_heap_bootstrap, Answered, Goto, Running
  <2>2. ~panicked' /\ (IF_' => IF_) /\ UNCHANGED irq
    BY <1>0, <1>7, <1>a DEF m8_heap_bootstrap, Answered, Goto, cpu
  <2> QED BY <1>0, <2>1, <2>2 DEF Guarded, Running
<1>8. CASE thread_create
  <2>1. Len(threads) \in Nat /\ Len(Entries) \in Nat /\ Len(Entries) <= MaxThreads
    BY RoomFacts, KernelAssumption DEF RoomInv, RunInv, Scheduled
  <2>2. Len(threads) < Len(Entries) => ~(Len(threads) >= MaxThreads)
    BY <2>1, KernelAssumption
  <2>3. at \notin Running /\ at' \in {"created", "create", "idt"}
    BY ZenonT(30), <1>0, <1>8, <2>2 DEF thread_create, Answered, Goto, Running
  <2>4. ~panicked' /\ (IF_' => IF_) /\ UNCHANGED irq
    <3>1. CASE at = "created"
      <4>1. AssertRet /\ pc = "idle"
        BY <1>8, <3>1 DEF thread_create, Goto
      <4> QED BY SMTT(30), <1>0, <1>a, <3>1, <4>1 DEF Answered
    <3>2. CASE at # "created"
      <4>1. UNCHANGED <<panicked, IF_, irq>>
        BY ZenonT(30), <1>8, <2>2, <3>2 DEF thread_create, Goto, cpu
      <4> QED BY Zenon, <1>0, <4>1
    <3> QED BY <3>1, <3>2
  <2> QED BY SMTT(30), <1>0, <2>3, <2>4 DEF Guarded, Running
<1>9. CASE thread_yield
  BY <1>0, <1>9 DEF thread_yield, Goto, cpu, chips, Guarded, Running
<1>10. CASE Turn
  <2>1. at \in Running /\ at' \in {"turn_done", "turn_free", "yield"}
    BY SMTT(30), <1>0, <1>10 DEF Turn, Answered, Goto, Running
  <2>2. ~panicked' /\ UNCHANGED <<idt, offset>>
    BY <1>0, <1>10, <1>a DEF Turn, Answered, Goto, cpu, chips
  <2> QED BY <1>0, <2>1, <2>2 DEF Guarded, Running
<1> QED
  BY ZenonT(30), <1>1, <1>2, <1>3, <1>4, <1>5, <1>6, <1>7, <1>8, <1>9, <1>10 DEF KNext, Main, kmain

LEMMA AnsweredStep ==
  ASSUME RoomInv, [KNext]_kvars
  PROVE  Answered'
<1>1. CASE Walk /\ UNCHANGED <<at, sched>>
  BY ZenonT(30), <1>1, ReserveWalk
<1>2. CASE ~(Walk /\ UNCHANGED <<at, sched>>)
  BY <1>2, Shapes DEF RoomInv, Answered, vars, Moves, Asks, kmalloc, Tests, Frees, Creates, Yields
<1> QED BY <1>1, <1>2

\* On a heap with room for the stacks and for four blocks of the turns, kmain
\* and its threads never panic, however long the turns go on and wherever the
\* timer interrupts them: no kmalloc of theirs fails, although kfree never
\* merges the blocks that kmalloc has split, and every interrupt finds its gate.
THEOREM KernelNeverPanics == KSpec => []NoPanic
<1>1. KInit => RoomInv
  BY RunInvInit DEF KInit, RoomInv, Reserve, Answered, Guarded, Running
<1>2. RoomInv /\ [KNext]_kvars => RoomInv'
  <2> SUFFICES ASSUME RoomInv, [KNext]_kvars PROVE RoomInv'
    OBVIOUS
  <2>1. RunInv'
    BY KernelOnHeap, ScheduledStep, AllocatedStep DEF RunInv, RoomInv
  <2>2. Guarded' /\ ~panicked' /\ at' # "halt"
    BY GuardStep
  <2>3. Reserve' /\ Answered'
    BY <2>2, ReserveStep, AnsweredStep
  <2> QED BY <2>1, <2>2, <2>3 DEF RoomInv
<1>3. RoomInv => NoPanic
  BY DEF RoomInv, NoPanic
<1> QED BY <1>1, <1>2, <1>3, PTL DEF KSpec
=============================================================================
