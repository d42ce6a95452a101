---------------------------- MODULE KernelProofs ---------------------------
(***************************************************************************)
(* The block list tiles the arena and live allocations are exclusive, for  *)
(* every arena, header size and sequence of kmalloc and kfree calls.  On   *)
(* this heap the kernel, interrupted anywhere, keeps the stacks of its     *)
(* threads, holds nothing else between two turns, and gives the turns in   *)
(* order, for every list of threads and all that they allocate.            *)
(***************************************************************************)
EXTENDS Kernel, KmemStats, FiniteSetTheorems, TLAPS

(* The heap under any caller                                               *)

\* The call in progress, and an arena without headers before kmem_init.
Calls ==
  /\ pc = "walk" => want > 0
  /\ g_head = Null => Headers = {} /\ live = {}

KInv == TypeOK /\ Tiled /\ LiveIsExclusive /\ NoLeak /\ FirstFit /\ Calls

LEMMA BlockType ==
  ASSUME TypeOK, NEW a \in Headers
  PROVE  /\ a \in Nat /\ a <= Arena - Header
         /\ block[a].size \in Nat /\ block[a].free \in BOOLEAN /\ block[a].next \in Int
         /\ End(a) \in Nat /\ a < End(a)
  BY KmemAssumption DEF TypeOK, Block, Headers, End

LEMMA InitStep == KInv /\ kmem_init => KInv'
<1> SUFFICES ASSUME KInv, kmem_init PROVE KInv'
  OBVIOUS
<1> DEFINE b == [size |-> Arena - Header, free |-> TRUE, next |-> Null]
<1>1. /\ block' = [a \in {0} |-> b] /\ g_head' = 0 /\ live = {} /\ pc = "idle"
      /\ UNCHANGED <<pc, curr, want, ret, live>> /\ Headers = {}
  BY DEF kmem_init, KInv, Calls
<1>2. Headers' = {0} /\ block'[0] = b
  BY <1>1 DEF Headers
<1>3. b \in Block /\ 0 \in 0 .. (Arena - Header)
  BY KmemAssumption DEF Block, Null
<1>4. TypeOK'
  BY <1>1, <1>2, <1>3 DEF TypeOK, KInv
<1>5. Tiled'
  BY <1>1, <1>2, KmemAssumption DEF Tiled, End, Null
<1>6. LiveIsExclusive' /\ NoLeak' /\ FirstFit' /\ Calls'
  BY <1>1, <1>2 DEF LiveIsExclusive, NoLeak, FirstFit, Calls, Null
<1>7. QED
  BY <1>4, <1>5, <1>6 DEF KInv

LEMMA CallStep ==
  ASSUME KInv, NEW n \in Nat, kmalloc(n)
  PROVE  KInv'
<1>1. UNCHANGED <<g_head, block, live>>
  BY DEF kmalloc
<1>2. Headers' = Headers /\ \A a : End(a)' = End(a)
  BY <1>1 DEF Headers, End
<1>3. g_head \in Headers \cup {Null}
  BY DEF KInv, TypeOK, Tiled
<1>4. TypeOK'
  BY <1>1, <1>2, <1>3 DEF TypeOK, KInv, kmalloc, Return
<1>5. Tiled' /\ LiveIsExclusive' /\ NoLeak'
  BY <1>1, <1>2 DEF KInv, Tiled, LiveIsExclusive, NoLeak
<1>6. FirstFit'
  <2>1. CASE n = 0
    BY <2>1 DEF kmalloc, Return, FirstFit
  <2>2. CASE n > 0
    <3>1. \A a \in Headers : ~(curr' = Null \/ a < curr')
      BY <2>2, BlockType DEF kmalloc, KInv, TypeOK, Calls, Null
    <3>2. QED
      BY <1>2, <3>1 DEF FirstFit
  <2>3. QED
    BY <2>1, <2>2
<1>7. Calls'
  BY <1>1, <1>2 DEF kmalloc, Return, KInv, Calls
<1>8. QED
  BY <1>4, <1>5, <1>6, <1>7 DEF KInv

\* A header beyond curr lies beyond the end of curr's block.
LEMMA AdvanceStep == KInv /\ Advance => KInv'
<1> SUFFICES ASSUME KInv, Advance PROVE KInv'
  OBVIOUS
<1>1. UNCHANGED <<g_head, block, pc, want, ret, live>> /\ pc = "walk" /\ curr # Null
      /\ curr' = block[curr].next /\ ~Fits
  BY DEF Advance
<1>2. curr \in Headers /\ g_head # Null
  BY <1>1 DEF KInv, TypeOK, Calls
<1>3. Headers' = Headers /\ \A a : End(a)' = End(a)
  BY <1>1 DEF Headers, End
<1>4. IF curr' = Null THEN End(curr) = Arena ELSE curr' = End(curr) /\ curr' \in Headers
  BY <1>1, <1>2 DEF KInv, Tiled
<1>5. TypeOK'
  BY <1>1, <1>3, <1>4 DEF TypeOK, KInv
<1>6. Tiled' /\ LiveIsExclusive' /\ NoLeak' /\ Calls'
  BY <1>1, <1>3 DEF KInv, Tiled, LiveIsExclusive, NoLeak, Calls
<1>7. FirstFit'
  <2> SUFFICES ASSUME NEW a \in Headers, curr' = Null \/ a < curr'
               PROVE  ~(block[a].free /\ block[a].size >= want)
    BY <1>1, <1>3 DEF FirstFit
  <2>1. ~(a > curr)
    <3> SUFFICES ASSUME a > curr PROVE FALSE
      OBVIOUS
    <3>1. End(curr) <= a
      BY <1>2 DEF KInv, Tiled
    <3>2. QED
      BY <1>2, <1>4, <3>1, BlockType, KmemAssumption DEF KInv
  <2>2. CASE a = curr
    BY <1>1, <2>2 DEF Fits
  <2>3. CASE a < curr
    BY <1>1, <2>3 DEF KInv, FirstFit
  <2>4. QED
    BY <1>2, <2>1, <2>2, <2>3, BlockType DEF KInv
<1>8. QED
  BY <1>5, <1>6, <1>7 DEF KInv

LEMMA ExhaustedStep == KInv /\ Exhausted => KInv'
<1> SUFFICES ASSUME KInv, Exhausted PROVE KInv'
  OBVIOUS
<1>1. UNCHANGED <<g_head, block, live>> /\ Return(Null)
  BY DEF Exhausted
<1>2. Headers' = Headers /\ \A a : End(a)' = End(a)
  BY <1>1 DEF Headers, End
<1>3. QED
  BY <1>1, <1>2 DEF KInv, TypeOK, Tiled, LiveIsExclusive, NoLeak, FirstFit, Calls, Return

\* Giving out the free block at curr keeps live allocations exclusive, as long
\* as the other blocks in use stay as they are.
LEMMA NewLive ==
  ASSUME KInv, curr \in Headers, g_head # Null, want \in Nat,
         block[curr].free, want <= block[curr].size,
         live' = live \cup {<<curr + Header, want>>},
         curr \in Headers', ~block'[curr].free, want <= block'[curr].size,
         \A a \in Headers : a # curr =>
           a \in Headers' /\ block'[a] = block[a]
  PROVE  LiveIsExclusive'
<1> DEFINE new == <<curr + Header, want>>
<1>1. new[1] - Header = curr /\ new[1] = curr + Header /\ new[2] = want
  BY BlockType, KmemAssumption DEF KInv
<1>2. \A l \in live : /\ l[1] \in Nat /\ l[2] \in Nat
                      /\ l[1] - Header \in Headers /\ l[1] - Header # curr
                      /\ l[2] <= block[l[1] - Header].size
                      /\ ~block[l[1] - Header].free
  BY DEF KInv, TypeOK, LiveIsExclusive
<1>3. \A l \in live : l[1] + l[2] <= new[1] - Header \/ new[1] + new[2] <= l[1] - Header
  <2> SUFFICES ASSUME NEW l \in live
               PROVE  l[1] + l[2] <= curr \/ curr + Header + want <= l[1] - Header
    BY <1>1
  <2> DEFINE a == l[1] - Header
  <2>1. a \in Headers /\ a # curr /\ l[2] <= block[a].size /\ l[1] = a + Header
    BY <1>2, KmemAssumption
  <2> HIDE DEF a
  <2>2. End(a) <= curr \/ End(curr) <= a
    BY <2>1, BlockType DEF KInv, Tiled
  <2>3. l[1] + l[2] <= End(a) /\ curr + Header + want <= End(curr)
    BY <1>2, <2>1, BlockType, KmemAssumption DEF End, KInv
  <2>4. QED
    BY <1>2, <2>1, <2>2, <2>3, BlockType, KmemAssumption DEF a, KInv
<1> HIDE DEF new
<1>4. \A l \in live' : /\ l[1] - Header \in Headers'
                       /\ ~block'[l[1] - Header].free
                       /\ l[2] <= block'[l[1] - Header].size
  BY <1>1, <1>2 DEF new
<1>5. \A l, m \in live' : l # m =>
        l[1] + l[2] <= m[1] - Header \/ m[1] + m[2] <= l[1] - Header
  <2>1. \A l, m \in live : l # m =>
          l[1] + l[2] <= m[1] - Header \/ m[1] + m[2] <= l[1] - Header
    BY DEF KInv, LiveIsExclusive
  <2>2. \A l \in live' : l \in live \/ l = new
    BY DEF new
  <2>3. QED
    BY <1>3, <2>1, <2>2
<1>6. QED
  BY <1>4, <1>5 DEF LiveIsExclusive

\* The headers after an allocation without a split.
LEMMA WholeStep ==
  ASSUME KInv, TakeBlock, ~(Remaining > Header)
  PROVE  KInv'
<1>1. /\ block' = [block EXCEPT ![curr].free = FALSE] /\ g_head' = g_head
      /\ live' = live \cup {<<curr + Header, want>>} /\ Return(curr + Header)
      /\ block[curr].free /\ block[curr].size >= want /\ curr # Null /\ pc = "walk"
  BY DEF TakeBlock, Fits
<1>2. curr \in Headers /\ g_head # Null /\ want \in Nat
  BY <1>1 DEF KInv, TypeOK, Calls
<1>3. /\ Headers' = Headers
      /\ \A a \in Headers : /\ block'[a].size = block[a].size
                            /\ block'[a].next = block[a].next
                            /\ block'[a].free = (block[a].free /\ a # curr)
  BY Zenon, <1>1, <1>2 DEF Headers, KInv, TypeOK, Block
<1>4. \A a \in Headers : End(a)' = End(a)
  BY <1>3 DEF End
<1>5. TypeOK'
  <2>1. block' \in [Headers' -> Block]
    BY ZenonT(30), <1>1, <1>2, <1>3 DEF KInv, TypeOK, Block
  <2>2. <<curr + Header, want>> \in Nat \X Nat
    BY <1>2, BlockType, KmemAssumption DEF KInv
  <2>3. QED
    BY <1>1, <1>2, <1>3, <2>1, <2>2 DEF KInv, TypeOK, Return
<1>6. Tiled'
  BY <1>1, <1>3, <1>4 DEF KInv, Tiled
<1>7. LiveIsExclusive'
  <2>1. \A a \in Headers : a # curr => block'[a] = block[a]
    BY <1>1 DEF Headers
  <2>2. QED
    BY <1>1, <1>2, <1>3, <2>1, NewLive DEF KInv, TypeOK
<1>8. NoLeak'
  <2> SUFFICES ASSUME NEW a \in Headers, ~block'[a].free
               PROVE  \E l \in live' : l[1] = a + Header
    BY <1>3 DEF NoLeak
  <2>1. CASE a = curr
    <3>1. <<curr + Header, want>> \in live' /\ <<curr + Header, want>>[1] = curr + Header
      BY <1>1
    <3>2. QED
      BY <2>1, <3>1
  <2>2. CASE a # curr
    BY <1>1, <1>3, <2>2 DEF KInv, NoLeak
  <2>3. QED
    BY <2>1, <2>2
<1>9. FirstFit' /\ Calls'
  BY <1>1, <1>2 DEF FirstFit, Calls, Return
<1>10. QED
  BY <1>5, <1>6, <1>7, <1>8, <1>9 DEF KInv

\* An allocation that splits the block at curr.
LEMMA SplitStep ==
  ASSUME KInv, TakeBlock, Remaining > Header
  PROVE  KInv'
<1> DEFINE N         == curr + Header + want
           NewEnd(a) == a + Header + block'[a].size
<1>1. /\ Headers' = Headers \cup {N} /\ g_head' = g_head
      /\ live' = live \cup {<<curr + Header, want>>} /\ Return(curr + Header)
      /\ block[curr].free /\ block[curr].size >= want /\ curr # Null /\ pc = "walk"
      /\ block' = [a \in Headers \cup {N} |->
                     IF a = N THEN [size |-> block[curr].size - want - Header,
                                    free |-> TRUE, next |-> block[curr].next]
                     ELSE IF a = curr THEN [size |-> want, free |-> FALSE, next |-> N]
                     ELSE block[a]]
  BY DEF TakeBlock, Fits, Headers, NewBlock, NextOfNew, Rest, Remaining
<1>2. /\ curr \in Headers /\ g_head # Null /\ want \in Nat /\ want > 0
      /\ curr \in Nat /\ block[curr].size \in Nat /\ block[curr].next \in Int
      /\ block[curr].size - want - Header \in Nat
  BY <1>1, BlockType, KmemAssumption DEF KInv, TypeOK, Calls, Remaining
<1>3. End(curr) = curr + Header + block[curr].size /\ N \in Nat /\ curr < N
      /\ N + Header < End(curr)
  BY <1>2, KmemAssumption DEF End, Remaining
<1>4. \A a \in Headers : a > curr => a >= End(curr)
  BY <1>2 DEF KInv, Tiled
<1>5. N \notin Headers
  BY <1>2, <1>3, <1>4, BlockType, KmemAssumption DEF KInv
<1>6. End(curr) <= Arena
  <2>1. CASE block[curr].next = Null
    BY <1>2, <2>1, KmemAssumption DEF KInv, Tiled
  <2>2. CASE block[curr].next # Null
    <3>1. End(curr) \in Headers
      BY <1>2, <2>2 DEF KInv, Tiled
    <3>2. QED
      BY <3>1, BlockType, KmemAssumption DEF KInv
  <2>3. QED
    BY <2>1, <2>2
<1> HIDE DEF N
<1>7. /\ block'[N] = [size |-> block[curr].size - want - Header, free |-> TRUE,
                      next |-> block[curr].next]
      /\ block'[curr] = [size |-> want, free |-> FALSE, next |-> N]
      /\ \A a \in Headers : a # curr => block'[a] = block[a]
  BY <1>1, <1>2, <1>5
<1>8. /\ NewEnd(N) = End(curr) /\ NewEnd(curr) = N
      /\ \A a \in Headers : a # curr => NewEnd(a) = End(a)
  <2>1. NewEnd(N) = End(curr) /\ NewEnd(curr) = N
    BY <1>2, <1>3, <1>7, KmemAssumption DEF N
  <2>2. QED
    BY <1>7, <2>1 DEF End
<1> HIDE DEF NewEnd
<1>9. TypeOK'
  <2>1. N \in 0 .. (Arena - Header)
    BY <1>3, <1>6, BlockType, <1>2, KmemAssumption DEF KInv
  <2>2. block'[N] \in Block /\ block'[curr] \in Block
    BY <1>2, <1>3, <1>7 DEF Block
  <2>3. block' \in [Headers' -> Block]
    <3>1. \A a \in Headers : a # curr => block[a] \in Block
      BY DEF KInv, TypeOK
    <3>2. \A a \in Headers' : block'[a] \in Block
      BY <1>1, <1>7, <2>2, <3>1
    <3>3. QED
      BY Zenon, <1>1, <3>2
  <2>4. <<curr + Header, want>> \in Nat \X Nat
    BY <1>2, KmemAssumption
  <2>5. QED
    BY Zenon, <1>1, <1>2, <2>1, <2>3, <2>4 DEF KInv, TypeOK, Return
<1>10. Tiled'
  <2>1. 0 \in Headers'
    BY <1>1, <1>2 DEF KInv, Tiled
  <2>2. ASSUME NEW a \in Headers'
        PROVE  IF block'[a].next = Null THEN NewEnd(a) = Arena
               ELSE block'[a].next = NewEnd(a) /\ NewEnd(a) \in Headers'
    <3>1. CASE a = N
      BY <1>1, <1>2, <1>7, <1>8, <3>1 DEF KInv, Tiled
    <3>2. CASE a = curr
      BY SMTT(30), <1>1, <1>3, <1>7, <1>8, <3>2 DEF Null
    <3>3. CASE a # N /\ a # curr
      BY <1>1, <1>2, <1>7, <1>8, <3>3 DEF KInv, Tiled
    <3>4. QED
      BY <3>1, <3>2, <3>3
  <2>3. ASSUME NEW a \in Headers', NEW b \in Headers', a < b
        PROVE  NewEnd(a) <= b
    <3>1. CASE a = N /\ b \in Headers
      <4>1. b \in Nat
        BY <3>1, BlockType DEF KInv
      <4>2. b > curr
        BY SMTT(30), <1>2, <1>3, <2>3, <3>1, <4>1
      <4>3. QED
        BY <1>4, <1>8, <3>1, <4>2
    <3>2. CASE a = curr
      BY <1>1, <1>2, <1>3, <1>4, <1>8, <2>3, <3>2, BlockType, KmemAssumption DEF KInv
    <3>3. CASE a \in Headers /\ a # curr /\ b = N
      <4>1. ~(a > curr)
        BY <1>2, <1>3, <1>4, <2>3, <3>3, BlockType, KmemAssumption DEF KInv
      <4>2. End(a) <= curr
        BY <1>2, <3>3, <4>1, BlockType DEF KInv, Tiled
      <4>3. QED
        BY <1>2, <1>3, <1>8, <3>3, <4>2, BlockType, KmemAssumption DEF KInv
    <3>4. CASE a \in Headers /\ a # curr /\ b \in Headers
      BY <1>2, <1>8, <2>3, <3>4 DEF KInv, Tiled
    <3>5. QED
      BY <1>1, <1>3, <2>3, <3>1, <3>2, <3>3, <3>4
  <2>4. \A a : End(a)' = NewEnd(a)
    BY DEF End, NewEnd
  <2>5. QED
    BY <2>1, <2>2, <2>3, <2>4 DEF Tiled
<1>11. LiveIsExclusive'
  <2>1. curr \in Headers' /\ ~block'[curr].free /\ want <= block'[curr].size
    BY <1>1, <1>2, <1>7
  <2>2. \A a \in Headers : a # curr => a \in Headers' /\ block'[a] = block[a]
    BY ZenonT(30), <1>1, <1>7
  <2>3. QED
    BY Zenon, <1>1, <1>2, <2>1, <2>2, NewLive
<1>12. NoLeak'
  <2> SUFFICES ASSUME NEW a \in Headers', ~block'[a].free
               PROVE  \E l \in live' : l[1] = a + Header
    BY DEF NoLeak
  <2>1. CASE a = curr
    <3>1. <<curr + Header, want>> \in live' /\ <<curr + Header, want>>[1] = curr + Header
      BY <1>1
    <3>2. QED
      BY <2>1, <3>1
  <2>2. CASE a # curr
    BY <1>1, <1>7, <2>2 DEF KInv, NoLeak
  <2>3. QED
    BY <2>1, <2>2
<1>13. FirstFit' /\ Calls'
  BY <1>1, <1>2 DEF FirstFit, Calls, Return
<1>14. QED
  BY <1>9, <1>10, <1>11, <1>12, <1>13 DEF KInv

LEMMA FreeStep ==
  ASSUME KInv, NEW l \in live, kfree(l)
  PROVE  KInv'
<1> DEFINE h == l[1] - Header
<1>1. /\ block' = [block EXCEPT ![h].free = TRUE] /\ live' = live \ {l}
      /\ UNCHANGED <<g_head, pc, curr, want, ret>> /\ pc = "idle"
  BY DEF kfree
<1>2. h \in Headers /\ l[1] = h + Header /\ l[1] \in Nat /\ l[2] \in Nat
  BY KmemAssumption DEF KInv, LiveIsExclusive, TypeOK
<1> HIDE DEF h
<1>3. /\ Headers' = Headers
      /\ \A a \in Headers : /\ block'[a].size = block[a].size
                            /\ block'[a].next = block[a].next
                            /\ block'[a].free = (block[a].free \/ a = h)
  BY Zenon, <1>1, <1>2 DEF Headers, KInv, TypeOK, Block
<1>4. \A a \in Headers : End(a)' = End(a)
  BY <1>3 DEF End
<1>5. \A m \in live' : m \in live /\ m[1] - Header \in Headers /\ m[1] - Header # h
  <2> SUFFICES ASSUME NEW m \in live, m # l
               PROVE  m[1] - Header \in Headers /\ m[1] - Header # h
    BY <1>1
  <2>1. l[1] + l[2] <= m[1] - Header \/ m[1] + m[2] <= l[1] - Header
    BY DEF KInv, LiveIsExclusive
  <2>2. m[1] \in Nat /\ m[2] \in Nat /\ m[1] - Header \in Headers
    BY DEF KInv, LiveIsExclusive, TypeOK
  <2>3. QED
    BY <1>2, <2>1, <2>2, KmemAssumption
<1>6. TypeOK'
  <2>1. block' \in [Headers' -> Block]
    BY ZenonT(30), <1>1, <1>2, <1>3 DEF KInv, TypeOK, Block
  <2>2. QED
    BY <1>1, <1>3, <2>1 DEF KInv, TypeOK
<1>7. Tiled'
  BY <1>1, <1>3, <1>4 DEF KInv, Tiled
<1>8. LiveIsExclusive'
  BY Zenon, <1>3, <1>5 DEF KInv, LiveIsExclusive
<1>9. NoLeak'
  <2> SUFFICES ASSUME NEW a \in Headers, ~block'[a].free
               PROVE  \E m \in live' : m[1] = a + Header
    BY <1>3 DEF NoLeak
  <2>1. a # h /\ ~block[a].free
    BY Zenon, <1>2, <1>3
  <2>2. PICK m \in live : m[1] = a + Header
    BY <2>1 DEF KInv, NoLeak
  <2>3. m # l
    BY <1>2, <2>1, <2>2, BlockType, KmemAssumption DEF KInv
  <2>4. QED
    BY <1>1, <2>2, <2>3
<1>10. FirstFit' /\ Calls'
  BY <1>1, <1>2, <1>3 DEF FirstFit, KInv, Calls
<1>11. QED
  BY <1>6, <1>7, <1>8, <1>9, <1>10 DEF KInv

LEMMA KmemStep == KInv /\ [Next]_vars => KInv'
<1> SUFFICES ASSUME KInv, [Next]_vars PROVE KInv'
  OBVIOUS
<1>1. CASE UNCHANGED vars
  BY <1>1 DEF vars, KInv, TypeOK, Tiled, LiveIsExclusive, NoLeak, FirstFit, Calls, Headers, End
<1>2. CASE kmem_init
  BY <1>2, InitStep
<1>3. CASE \E n \in Sizes : kmalloc(n)
  BY <1>3, CallStep, KmemAssumption
<1>4. CASE Walk
  BY <1>4, AdvanceStep, ExhaustedStep, WholeStep, SplitStep DEF Walk
<1>5. CASE \E l \in live : kfree(l)
  BY <1>5, FreeStep
<1>6. QED
  BY <1>1, <1>2, <1>3, <1>4, <1>5 DEF Next

\* For every arena and header size and every sequence of calls: the block list
\* tiles the arena, live allocations are exclusive, no block leaks, and kmalloc
\* is first fit, so it fails only when no free block is large enough.
THEOREM HeapCorrect ==
  Spec => [](TypeOK /\ Tiled /\ InUseIsLive /\ FirstFit)
<1>1. Init => KInv
  BY DEF Init, KInv, TypeOK, Tiled, LiveIsExclusive, NoLeak, FirstFit, Calls, Headers, Null
<1>2. Spec => []KInv
  BY <1>1, KmemStep, PTL DEF Spec
<1>3. QED
  BY <1>2, PTL DEF KInv, InUseIsLive
-----------------------------------------------------------------------------
(* kmem_get_free_bytes                                                     *)

SpentBelow(n) == {p \in Spent : p < n}

\* What the loop has added up is what it has passed, but for what is spent.
StatsInv ==
  /\ KInv
  /\ cursor \in Headers \cup {Null, Off}
  /\ cursor \in Headers => total = cursor - Cardinality(SpentBelow(cursor))
  /\ g_head # Null /\ cursor = Null => total = Arena - Cardinality(Spent)

LEMMA SpentFinite ==
  ASSUME NEW n
  PROVE  IsFiniteSet(SpentBelow(n)) /\ Cardinality(SpentBelow(n)) \in Nat
<1>1. IsFiniteSet(0 .. Arena - 1)
  BY KmemAssumption, FS_Interval
<1>2. SpentBelow(n) \in SUBSET (0 .. Arena - 1)
  BY DEF SpentBelow, Spent
<1>3. IsFiniteSet(SpentBelow(n))
  BY Zenon, <1>1, <1>2, FS_Subset
<1> QED BY <1>3, FS_CardinalityType

\* A block adds its header to what is spent, and its payload when it is in use.
LEMMA SpentOfBlock ==
  ASSUME KInv, g_head # Null, NEW c \in Headers
  PROVE  Cardinality(SpentBelow(End(c))) =
           Cardinality(SpentBelow(c)) + (IF block[c].free THEN Header ELSE Header + block[c].size)
<1>1. /\ c \in Nat /\ block[c].size \in Nat /\ End(c) = c + Header + block[c].size
      /\ Header \in Nat /\ 0 < Header /\ Arena \in Nat
  BY BlockType, KmemAssumption DEF KInv, End
<1>2. End(c) <= Arena
  <2>1. CASE block[c].next = Null
    BY <2>1, <1>1 DEF KInv, Tiled
  <2>2. CASE block[c].next # Null
    <3>1. End(c) \in Headers
      BY <2>2 DEF KInv, Tiled
    <3> QED BY <1>1, <3>1, BlockType DEF KInv
  <2> QED BY <2>1, <2>2
<1> DEFINE last == IF block[c].free THEN c + Header - 1 ELSE End(c) - 1
<1>3. \A p \in c .. (End(c) - 1) : p \in Spent <=> p \in c .. last
  <2> SUFFICES ASSUME NEW p \in c .. (End(c) - 1) PROVE p \in Spent <=> p \in c .. last
    OBVIOUS
  <2>1. p \in 0 .. Arena - 1
    BY <1>1, <1>2
  <2>2. \A a \in Headers : a # c => p \notin a .. (End(a) - 1) /\ p \notin a .. (a + Header - 1)
    <3> SUFFICES ASSUME NEW a \in Headers, a # c
                 PROVE  p \notin a .. (End(a) - 1) /\ p \notin a .. (a + Header - 1)
      OBVIOUS
    <3>1. a \in Nat /\ block[a].size \in Nat /\ End(a) = a + Header + block[a].size
      BY BlockType DEF KInv, End
    <3>2. (a < c => End(a) <= c) /\ (c < a => End(c) <= a)
      BY DEF KInv, Tiled
    <3> QED BY <1>1, <3>1, <3>2
  <2> QED BY <1>1, <2>1, <2>2 DEF Spent
<1>4. last \in Int /\ SpentBelow(End(c)) = SpentBelow(c) \cup (c .. last)
      /\ SpentBelow(c) \cap (c .. last) = {}
  <2>1. last \in Int /\ last <= End(c) - 1
    BY <1>1
  <2> HIDE DEF last
  <2>2. \A p \in Spent : p \in Int
    BY DEF Spent
  <2> QED BY <1>1, <1>3, <2>1, <2>2 DEF SpentBelow
<1>5. IsFiniteSet(c .. last) /\ Cardinality(c .. last) =
        (IF block[c].free THEN Header ELSE Header + block[c].size)
  <2>1. c \in Int /\ last \in Int
    BY <1>1, <1>4
  <2>2. IsFiniteSet(c .. last) /\ Cardinality(c .. last) = IF c > last THEN 0 ELSE last - c + 1
    BY <2>1, FS_Interval
  <2> QED BY <1>1, <2>2
<1> HIDE DEF last
<1>6. Cardinality(SpentBelow(c) \cup (c .. last)) =
        Cardinality(SpentBelow(c)) + Cardinality(c .. last) - Cardinality(SpentBelow(c) \cap (c .. last))
  BY Zenon, <1>5, SpentFinite, FS_Union
<1>7. Cardinality(SpentBelow(c) \cap (c .. last)) = 0
  BY <1>4, FS_EmptySet
<1>8. PICK old, new, add : /\ old = Cardinality(SpentBelow(c)) /\ new = Cardinality(SpentBelow(End(c)))
                           /\ add = Cardinality(c .. last)
  OBVIOUS
<1>9. new = old + add - 0
  BY <1>4, <1>6, <1>7, <1>8
<1>10. old \in Nat /\ add = IF block[c].free THEN Header ELSE Header + block[c].size
  BY <1>5, <1>8, SpentFinite
<1> QED BY <1>1, <1>8, <1>9, <1>10

LEMMA CountStep == StatsInv /\ CountBlock => StatsInv'
<1> SUFFICES ASSUME StatsInv, CountBlock PROVE StatsInv'
  OBVIOUS
<1>1. PICK c \in Headers : c = cursor
  BY DEF CountBlock
<1>2. /\ UNCHANGED vars /\ cursor' = block[c].next
      /\ total' = total + (IF block[c].free THEN block[c].size ELSE 0)
  BY SMTT(30), <1>1 DEF CountBlock
<1>3. KInv' /\ Headers' = Headers /\ g_head' = g_head /\ Spent' = Spent
      /\ \A n : SpentBelow(n)' = SpentBelow(n)
  BY <1>2, KmemStep DEF StatsInv, vars, Headers, Spent, SpentBelow, End
<1>4. g_head # Null /\ c \in Nat /\ block[c].size \in Nat /\ End(c) = c + Header + block[c].size
      /\ Header \in Nat /\ Cardinality(SpentBelow(c)) \in Nat
  BY BlockType, KmemAssumption, SpentFinite DEF StatsInv, KInv, Calls, End
<1>5. total = c - Cardinality(SpentBelow(c))
  BY <1>1 DEF StatsInv
<1>6. total' = End(c) - Cardinality(SpentBelow(End(c)))
  <2>1. Cardinality(SpentBelow(End(c))) =
          Cardinality(SpentBelow(c)) + (IF block[c].free THEN Header ELSE Header + block[c].size)
    BY <1>4, SpentOfBlock DEF StatsInv
  <2> QED BY <1>2, <1>4, <1>5, <2>1
<1>7. CASE block[c].next = Null
  <2>1. End(c) = Arena /\ cursor' = Null
    BY <1>2, <1>4, <1>7 DEF StatsInv, KInv, Tiled
  <2>2. SpentBelow(Arena) = Spent
    BY KmemAssumption DEF SpentBelow, Spent
  <2>3. Null \notin Headers
    BY BlockType DEF StatsInv, KInv, Null
  <2> QED BY <1>3, <1>6, <2>1, <2>2, <2>3 DEF StatsInv
<1>8. CASE block[c].next # Null
  <2>1. End(c) \in Headers /\ cursor' = End(c)
    BY <1>2, <1>4, <1>8 DEF StatsInv, KInv, Tiled
  <2>2. cursor' # Null
    BY <2>1, BlockType DEF StatsInv, KInv, Null
  <2>3. SpentBelow(cursor)' = SpentBelow(End(c))
    BY <1>3, <2>1 DEF SpentBelow
  <2> QED BY <1>3, <1>6, <2>1, <2>2, <2>3 DEF StatsInv
<1> QED BY <1>7, <1>8

\* Whatever the calls before did to the heap, kmem_get_free_bytes returns all of
\* the arena but the headers and the blocks in use, for every arena and header
\* size.
THEOREM FreeBytesCorrect == StatsSpec => []BytesConserved
<1>1. StatsInit => StatsInv
  <2> SUFFICES ASSUME StatsInit PROVE StatsInv
    OBVIOUS
  <2>1. KInv
    BY DEF StatsInit, Init, KInv, TypeOK, Tiled, LiveIsExclusive, NoLeak, FirstFit, Calls, Headers, Null
  <2> QED BY <2>1 DEF StatsInit, StatsInv, Init, Headers, Off, Null
<1>2. StatsInv /\ [StatsNext]_<<vars, stats>> => StatsInv'
  <2> SUFFICES ASSUME StatsInv, [StatsNext]_<<vars, stats>> PROVE StatsInv'
    OBVIOUS
  <2>1. CASE cursor = Off /\ Next /\ UNCHANGED stats
    <3>1. KInv' /\ cursor' = Off
      BY <2>1, KmemStep DEF StatsInv, stats
    <3>2. Off \notin Headers' /\ Off # Null
      BY <3>1, KmemAssumption DEF KInv, TypeOK, Off, Null
    <3> QED BY <3>1, <3>2 DEF StatsInv
  <2>2. CASE kmem_get_free_bytes
    <3>1. UNCHANGED vars /\ cursor' = g_head /\ total' = 0
      BY SMTT(30), <2>2 DEF kmem_get_free_bytes
    <3>2. KInv' /\ Headers' = Headers /\ g_head' = g_head /\ \A n : SpentBelow(n)' = SpentBelow(n)
      BY <3>1, KmemStep DEF StatsInv, vars, Headers, Spent, SpentBelow, End
    <3>3. g_head = Null \/ (g_head = 0 /\ 0 \in Headers)
      BY SMTT(30) DEF StatsInv, KInv, TypeOK, Tiled
    <3>4. CASE g_head = Null
      BY <3>1, <3>2, <3>4 DEF StatsInv, KInv, Calls
    <3>5. CASE g_head = 0 /\ 0 \in Headers
      <4>1. SpentBelow(0) = {}
        BY DEF SpentBelow, Spent
      <4>2. SpentBelow(cursor)' = {}
        BY <3>1, <3>2, <3>5, <4>1 DEF SpentBelow
      <4>3. Cardinality(SpentBelow(cursor)') = 0
        BY <4>2, FS_EmptySet
      <4> QED BY <3>1, <3>2, <3>5, <4>3 DEF StatsInv, Null
    <3> QED BY <3>3, <3>4, <3>5
  <2>3. CASE CountBlock
    BY <2>3, CountStep
  <2>4. CASE ReturnTotal
    <3>1. UNCHANGED vars /\ cursor' = Off
      BY <2>4 DEF ReturnTotal
    <3>2. KInv'
      BY <3>1, KmemStep DEF StatsInv
    <3>3. Off \notin Headers' /\ Off # Null
      BY SMTT(30), <3>2, KmemAssumption DEF KInv, TypeOK, Off, Null
    <3> QED BY <3>1, <3>2, <3>3 DEF StatsInv
  <2>5. CASE UNCHANGED <<vars, stats>>
    BY <2>5, KmemStep DEF StatsInv, stats, vars, Headers, Spent, SpentBelow, End
  <2> QED BY <2>1, <2>2, <2>3, <2>4, <2>5 DEF StatsNext, Count
<1>3. StatsInv => BytesConserved
  BY DEF StatsInv, BytesConserved
<1> QED BY <1>1, <1>2, <1>3, PTL DEF StatsSpec
-----------------------------------------------------------------------------
(* The kernel on the heap                                                  *)

\* A step of the kernel is one of the heap, or leaves it alone.
HeapStep ==
  \/ UNCHANGED vars
  \/ kmem_init
  \/ \E n \in Nat : kmalloc(n)
  \/ Walk
  \/ \E l \in live : kfree(l)

LEMMA HeapStepKeeps == KInv /\ HeapStep => KInv'
<1> SUFFICES ASSUME KInv, HeapStep PROVE KInv'
  OBVIOUS
<1>1. CASE \E n \in Nat : kmalloc(n)
  BY <1>1, CallStep
<1>2. CASE ~\E n \in Nat : kmalloc(n)
  BY <1>2, KmemStep DEF HeapStep, Next
<1> QED BY <1>1, <1>2

(* Arithmetic of the thread index                                          *)

LEMMA ModOf ==
  ASSUME NEW n \in Nat \ {0}, NEW q \in Int, NEW r \in 0 .. (n - 1)
  PROVE  (n * q + r) % n = r
  BY Z3T(20)

LEMMA ModRange ==
  ASSUME NEW n \in Nat \ {0}, NEW m \in Nat
  PROVE  m % n \in 0 .. (n - 1)
  BY Z3

\* The remainder of the next number: it goes up by one and wraps at n.
LEMMA ModSucc ==
  ASSUME NEW n \in Nat \ {0}, NEW m \in Nat
  PROVE  (m + 1) % n = IF (m % n) + 1 >= n THEN 0 ELSE (m % n) + 1
<1> DEFINE q == m \div n
           r == m % n
<1>1. m = n * q + r /\ r \in 0 .. (n - 1) /\ q \in Int
  <2>1. m = n * q + r
    BY Z3
  <2>2. r \in 0 .. (n - 1)
    BY ModRange
  <2>3. q \in Int
    BY Z3
  <2> QED BY <2>1, <2>2, <2>3
<1> HIDE DEF q, r
<1>2. CASE r + 1 >= n
  <2>1. m + 1 = n * (q + 1) + 0
    BY <1>1, <1>2, Z3
  <2>2. (n * (q + 1) + 0) % n = 0
    <3>1. q + 1 \in Int /\ 0 \in 0 .. (n - 1)
      BY <1>1
    <3> QED BY <3>1, ModOf
  <2>3. (m + 1) % n = 0
    BY <2>1, <2>2
  <2> QED BY <2>3, <1>2 DEF r
<1>3. CASE ~(r + 1 >= n)
  <2>1. m + 1 = n * q + (r + 1)
    BY <1>1, Z3
  <2>2. (n * q + (r + 1)) % n = r + 1
    <3>1. r + 1 \in 0 .. (n - 1)
      BY <1>1, <1>3
    <3> QED BY <1>1, <3>1, ModOf
  <2>3. (m + 1) % n = r + 1
    BY SMTT(30), <2>1, <2>2
  <2> QED BY <2>3, <1>3 DEF r
<1> QED BY <1>2, <1>3

Stacks == {<<threads[i].stack, StackSize>> : i \in DOMAIN threads}

\* Where kmain or a thread has asked for memory, and how much.
Asking == at \in {"probe_done", "probe_free", "created", "turn_done", "turn_free"}
Asked  == IF at = "created" THEN StackSize
          ELSE IF at \in {"turn_done", "turn_free"} THEN Work[running] ELSE ProbeSize
Given  == Asking /\ pc = "idle" /\ ret # Null

\* The places where every thread has been created.
Started == at \in {"idt", "remap", "mask", "unmask", "sti", "yield", "turn", "turn_done",
                   "turn_free", "overrun"}

Thread == [entry : DOMAIN Work, stack : Nat]

\* The threads are those of Entries, the turns so far went round them, and what
\* is allocated is their stacks and the block that was asked for last.
Scheduled ==
  /\ threads \in Seq(Thread) /\ Len(threads) <= Len(Entries)
  /\ \A i \in DOMAIN threads : threads[i].entry = Entries[i]
  /\ Started => Len(threads) = Len(Entries)
  /\ at = "created" => Len(threads) < Len(Entries)
  /\ boot_stack \in Seq(DOMAIN Work \cup {"kmain"}) /\ Len(boot_stack) >= 1
  /\ current_thread = (Len(boot_stack) - 1) % Len(Entries)
  /\ at \in {"turn", "turn_done", "turn_free"} => Len(boot_stack) >= 2
  /\ TurnsInOrder

Allocated ==
  /\ pc = "walk" => at \in {"probe_done", "created", "turn_done"} /\ want = Asked
  /\ at \in {"probe_free", "turn_free"} => pc = "idle" /\ ret # Null
  /\ live = Stacks \cup (IF Given THEN {<<ret, Asked>>} ELSE {})
  /\ Given => \A i \in DOMAIN threads : threads[i].stack # ret
  /\ \A i, j \in DOMAIN threads : i # j => threads[i].stack # threads[j].stack

RunInv == KInv /\ Scheduled /\ Allocated

\* The steps of the kernel by what they do to the heap and the threads: ...
Moves ==
  /\ pc = "idle" /\ UNCHANGED <<vars, sched>>
  /\ \/ <<at, at'>> \in {<<"cli", "heap">>, <<"create", "halt">>, <<"idt", "remap">>,
                         <<"remap", "mask">>, <<"mask", "unmask">>, <<"unmask", "sti">>,
                         <<"sti", "yield">>, <<"yield", "overrun">>, <<"turn", "yield">>}
     \/ at = "create" /\ at' = "idt" /\ Len(threads) = Len(Entries)

Asks ==
  /\ pc = "idle" /\ UNCHANGED sched
  /\ <<at, at'>> \in {<<"probe", "probe_done">>, <<"create", "created">>, <<"turn", "turn_done">>}
  /\ at = "create" => Len(threads) < Len(Entries)
  /\ Asked' > 0 /\ kmalloc(Asked')

\* ... the assertion on what kmalloc returned, ...
Tests ==
  /\ pc = "idle" /\ UNCHANGED <<vars, sched>>
  /\ \/ at \in {"probe_done", "created", "turn_done"} /\ ret = Null /\ at' = "halt"
     \/ /\ <<at, at'>> \in {<<"probe_done", "probe_free">>, <<"turn_done", "turn_free">>}
        /\ ret # Null

Frees ==
  /\ pc = "idle" /\ UNCHANGED sched
  /\ <<at, at'>> \in {<<"probe_free", "create">>, <<"turn_free", "yield">>}
  /\ kfree(<<ret, Asked>>)

Creates ==
  /\ pc = "idle" /\ UNCHANGED <<vars, current_thread, boot_stack>>
  /\ at = "created" /\ at' = "create" /\ ret # Null
  /\ threads' = Append(threads, [entry |-> Entries[Len(threads) + 1], stack |-> ret])

Yields ==
  /\ pc = "idle" /\ UNCHANGED <<vars, threads>> /\ at = "yield" /\ at' = "turn"
  /\ current_thread' = Wrap(current_thread + 1)
  /\ boot_stack' = Append(boot_stack, threads[current_thread' + 1].entry)

LEMMA Shapes ==
  ASSUME [KNext]_kvars
  PROVE  \/ UNCHANGED <<vars, at, sched>>
         \/ Walk /\ UNCHANGED <<at, sched>>
         \/ kmem_init /\ at = "heap" /\ at' = "probe" /\ UNCHANGED sched
         \/ Moves \/ Asks \/ Tests \/ Frees \/ Creates \/ Yields
<1>1. CASE UNCHANGED kvars
  BY <1>1 DEF kvars
<1>2. CASE Tick \/ Interrupt \/ x86_64_trap_dispatch
  BY <1>2 DEF Tick, Interrupt, x86_64_trap_dispatch, timer_on_irq0, pic_send_eoi, isr_common
<1>3. CASE Search
  BY <1>3 DEF Search
<1>4. CASE cpu_cli \/ x86_64_idt_init \/ pic_remap \/ pic_mask_all \/ pic_unmask_irq \/ cpu_sti
  BY <1>4 DEF cpu_cli, x86_64_idt_init, pic_remap, pic_mask_all, pic_unmask_irq, cpu_sti,
              Goto, Moves
<1>0. ProbeSize > 0 /\ StackSize > 0
  BY KernelAssumption
<1>5. CASE m8_heap_bootstrap
  BY <1>0, <1>5 DEF m8_heap_bootstrap, Goto, Asks, Asked, Tests, Frees
<1>6. CASE thread_create
  BY Zenon, <1>0, <1>6 DEF thread_create, Goto, Asks, Asked, Tests, Moves, Creates, sched
<1>7. CASE thread_yield
  BY SMTT(30), <1>7 DEF thread_yield, Goto, Moves, Yields
<1>8. CASE Turn
  BY <1>8 DEF Turn, GiveBack, Goto, Moves, Asks, Asked, Tests, Frees, running, sched
<1> QED
  BY <1>1, <1>2, <1>3, <1>4, <1>5, <1>6, <1>7, <1>8 DEF KNext, Main, kmain

\* Whoever has a turn is an entry function.
LEMMA RunningIsEntry ==
  ASSUME Scheduled, Len(boot_stack) >= 2
  PROVE  running \in DOMAIN Work /\ Work[running] \in Nat
<1> DEFINE k == Len(boot_stack)
           n == Len(Entries)
<1>1. n \in Nat \ {0} /\ k \in Nat /\ k >= 2 /\ k - 1 \in Nat
  BY KernelAssumption DEF Scheduled
<1> HIDE DEF n, k
<1>2. boot_stack[k] = Entries[((k - 1) % n) + 1]
  BY <1>1 DEF Scheduled, TurnsInOrder, n, k
<1>3. (k - 1) % n \in 0 .. (n - 1)
  BY ZenonT(30), <1>1, ModRange
<1>4. ((k - 1) % n) + 1 \in 1 .. n
  BY <1>1, <1>3
<1> QED BY <1>2, <1>4, KernelAssumption DEF running, n, k

LEMMA KernelOnHeap ==
  ASSUME RunInv, [KNext]_kvars
  PROVE  KInv'
<1>1. CASE Asks
  <2>1. Asked' \in Nat
    <3>1. CASE at = "turn"
      <4>1. Work[running] \in Nat
        BY <3>1, RunningIsEntry DEF RunInv, Scheduled
      <4>2. Asked' = Work[running]
        BY <1>1, <3>1 DEF Asks, Asked, running, sched
      <4> QED BY <4>1, <4>2
    <3>2. CASE at # "turn"
      <4>1. at' \in {"probe_done", "created"}
        BY <1>1, <3>2 DEF Asks
      <4> QED BY <4>1, KernelAssumption DEF Asked
    <3> QED BY <3>1, <3>2
  <2> QED BY <1>1, <2>1, HeapStepKeeps DEF Asks, HeapStep, RunInv
<1>2. CASE Frees
  <2>1. <<ret, Asked>> \in live /\ kfree(<<ret, Asked>>)
    BY <1>2 DEF Frees, kfree
  <2> QED BY <2>1, HeapStepKeeps DEF HeapStep, RunInv
<1>3. CASE ~Asks /\ ~Frees
  BY <1>3, Shapes, HeapStepKeeps DEF Moves, Tests, Creates, Yields, HeapStep, RunInv
<1> QED BY <1>1, <1>2, <1>3

\* A step that leaves the threads and the turns alone.
LEMMA SchedStays ==
  ASSUME Scheduled, UNCHANGED sched,
         Started' => Started \/ Len(threads) = Len(Entries),
         at' = "created" => at = "created" \/ Len(threads) < Len(Entries),
         at' \in {"turn", "turn_done", "turn_free"} => at \in {"turn", "turn_done", "turn_free"}
  PROVE  Scheduled'
  BY SMTT(30) DEF Scheduled, sched, TurnsInOrder

LEMMA ScheduledAfterCreate ==
  ASSUME RunInv, Creates
  PROVE  Scheduled'
<1> DEFINE t == [entry |-> Entries[Len(threads) + 1], stack |-> ret]
<1>1. /\ Len(threads) \in Nat /\ threads \in Seq(Thread) /\ Len(Entries) \in Nat
      /\ Len(threads) < Len(Entries)
  BY SMTT(30), KernelAssumption DEF RunInv, Scheduled, Creates
<1>2. ret \in Nat
  BY BlockType, KmemAssumption DEF RunInv, KInv, TypeOK, Creates
<1>3. t \in Thread
  BY SMTT(30), <1>1, <1>2, KernelAssumption DEF Thread
<1>4. /\ threads' \in Seq(Thread) /\ Len(threads') = Len(threads) + 1
      /\ \A i \in 1 .. Len(threads) : threads'[i] = threads[i]
      /\ threads'[Len(threads) + 1] = t
  BY <1>1, <1>3 DEF Creates
<1>5. \A i \in DOMAIN threads' : threads'[i].entry = Entries[i]
  <2> SUFFICES ASSUME NEW i \in 1 .. (Len(threads) + 1)
               PROVE  threads'[i].entry = Entries[i]
    BY SMTT(30), <1>1, <1>4
  <2>1. CASE i \in 1 .. Len(threads)
    BY SMTT(30), <1>1, <1>4, <2>1 DEF RunInv, Scheduled
  <2>2. CASE i = Len(threads) + 1
    BY SMTT(30), <1>4, <2>2
  <2> QED BY SMTT(30), <1>1, <2>1, <2>2
<1>6. Len(threads') <= Len(Entries)
  BY <1>1, <1>4
<1>7. ~Started' /\ at' = "create" /\ UNCHANGED <<boot_stack, current_thread>>
  BY DEF Creates, Started
<1> QED BY <1>4, <1>5, <1>6, <1>7 DEF RunInv, Scheduled, TurnsInOrder

LEMMA ScheduledAfterYield ==
  ASSUME Scheduled, Yields
  PROVE  Scheduled'
<1> DEFINE n == Len(Entries)
           k == Len(boot_stack)
<1>1. /\ n \in Nat \ {0} /\ k \in Nat /\ k >= 1 /\ k - 1 \in Nat /\ Len(threads) = n
      /\ (k - 1) + 1 = k
  BY KernelAssumption DEF Scheduled, Yields, Started
<1>2. current_thread = (k - 1) % n
  BY DEF Scheduled
<1> HIDE DEF n, k
<1>3. current_thread' = k % n
  <2>1. current_thread' = IF ((k - 1) % n) + 1 >= n THEN 0 ELSE ((k - 1) % n) + 1
    BY <1>1, <1>2 DEF Yields, Wrap
  <2>2. ((k - 1) + 1) % n = IF ((k - 1) % n) + 1 >= n THEN 0 ELSE ((k - 1) % n) + 1
    BY Zenon, <1>1, ModSucc
  <2> QED BY <1>1, <2>1, <2>2
<1>4. k % n \in 0 .. (n - 1)
  BY ZenonT(30), <1>1, ModRange
<1>5. (k % n) + 1 \in 1 .. n /\ (k % n) + 1 \in DOMAIN threads
  BY <1>1, <1>4 DEF Scheduled
<1>6. threads[(k % n) + 1].entry = Entries[(k % n) + 1]
  BY <1>5 DEF Scheduled
<1>7. Entries[(k % n) + 1] \in DOMAIN Work
  BY <1>5, KernelAssumption DEF n
<1>8. boot_stack' = Append(boot_stack, Entries[(k % n) + 1])
  BY <1>3, <1>6 DEF Yields
<1>9. /\ boot_stack' \in Seq(DOMAIN Work \cup {"kmain"}) /\ Len(boot_stack') = k + 1
      /\ \A i \in 1 .. k : boot_stack'[i] = boot_stack[i]
      /\ boot_stack'[k + 1] = Entries[(k % n) + 1]
  BY <1>7, <1>8 DEF Scheduled, k
<1>10. TurnsInOrder'
  <2> SUFFICES ASSUME NEW i \in 2 .. (k + 1)
               PROVE  boot_stack'[i] = Entries[((i - 1) % n) + 1]
    BY <1>9 DEF TurnsInOrder, n
  <2>1. CASE i = k + 1
    <3>1. i - 1 = k
      BY <1>1, <2>1
    <3> QED BY <1>9, <2>1, <3>1
  <2>2. CASE i \in 2 .. k
    <3>1. boot_stack[i] = Entries[((i - 1) % n) + 1]
      BY <2>2 DEF Scheduled, TurnsInOrder, n, k
    <3>2. i \in 1 .. k
      BY <1>1, <2>2
    <3> QED BY SMTT(30), <1>9, <3>1, <3>2
  <2> QED BY <1>1, <2>1, <2>2
<1>11. current_thread' = (Len(boot_stack') - 1) % Len(Entries)
  <2>1. Len(boot_stack') - 1 = k
    BY <1>1, <1>9
  <2> QED BY <1>3, <2>1 DEF n
<1>12. Len(boot_stack') >= 2
  BY <1>1, <1>9
<1>13. UNCHANGED threads /\ Len(threads) = Len(Entries) /\ at' # "created"
  BY <1>1 DEF Yields, n
<1> QED BY SMTT(30), <1>9, <1>10, <1>11, <1>12, <1>13 DEF Scheduled

LEMMA ScheduledStep ==
  ASSUME RunInv, [KNext]_kvars
  PROVE  Scheduled'
<1>1. CASE UNCHANGED <<vars, at, sched>> \/ (Walk /\ UNCHANGED <<at, sched>>)
  BY <1>1, SchedStays DEF RunInv, Started
<1>2. CASE kmem_init /\ at = "heap" /\ at' = "probe" /\ UNCHANGED sched
  BY <1>2, SchedStays DEF RunInv, Started
<1>3. CASE Moves
  BY <1>3, SchedStays DEF RunInv, Started, Moves
<1>4. CASE Asks
  BY <1>4, SchedStays DEF RunInv, Started, Asks
<1>5. CASE Tests
  BY <1>5, SchedStays DEF RunInv, Started, Tests
<1>6. CASE Frees
  <2>1. CASE at = "probe_free"
    BY <1>6, <2>1, SchedStays DEF RunInv, Started, Frees
  <2>2. CASE at = "turn_free"
    BY <1>6, <2>2, SchedStays DEF RunInv, Started, Frees
  <2> QED BY <1>6, <2>1, <2>2 DEF Frees
<1>7. CASE Creates
  BY <1>7, ScheduledAfterCreate
<1>8. CASE Yields
  BY SMTT(30), <1>8, ScheduledAfterYield DEF RunInv
<1> QED
  BY SMTT(30), <1>1, <1>2, <1>3, <1>4, <1>5, <1>6, <1>7, <1>8, Shapes

\* A step that leaves the heap and the threads alone, with nothing asked for.
LEMMA NothingAsked ==
  ASSUME Allocated, UNCHANGED <<vars, threads>>, pc = "idle", ~Given, ~Given',
         at' \notin {"probe_free", "turn_free"}
  PROVE  Allocated'
  BY DEF Allocated, Stacks, vars

LEMMA AllocatedWalk ==
  ASSUME RunInv, Walk, UNCHANGED <<at, sched>>
  PROVE  Allocated'
<1>1. /\ pc = "walk" /\ at \in {"probe_done", "created", "turn_done"} /\ want = Asked
      /\ live = Stacks
  BY DEF Walk, Advance, Exhausted, TakeBlock, RunInv, Allocated, Given
<1>2. Stacks' = Stacks /\ Asked' = Asked /\ threads' = threads /\ Asking'
  BY SMTT(30), <1>1 DEF Stacks, Asked, Asking, running, sched
<1>3. CASE Advance
  BY SMTT(30), <1>1, <1>2, <1>3 DEF Advance, RunInv, Allocated, Given
<1>4. CASE Exhausted
  BY SMTT(30), <1>1, <1>2, <1>4 DEF Exhausted, Return, RunInv, Allocated, Given
<1>5. CASE TakeBlock
  <2>1. /\ curr \in Headers /\ block[curr].free /\ ret' = curr + Header /\ pc' = "idle"
        /\ live' = live \cup {<<curr + Header, want>>}
    BY SMTT(30), <1>5 DEF TakeBlock, Fits, Return, RunInv, KInv, TypeOK
  <2>2. ret' # Null
    BY <2>1, BlockType, KmemAssumption DEF RunInv, KInv, Null
  <2>3. \A i \in DOMAIN threads : threads[i].stack # ret'
    <3> SUFFICES ASSUME NEW i \in DOMAIN threads, threads[i].stack = curr + Header
                 PROVE  FALSE
      BY <2>1
    <3>1. <<curr + Header, StackSize>> \in live
      BY SMTT(30), <1>1 DEF Stacks
    <3> DEFINE l == <<curr + Header, StackSize>>
    <3>2. ~block[l[1] - Header].free
      BY <3>1 DEF RunInv, KInv, LiveIsExclusive
    <3>3. l[1] - Header = curr
      BY <2>1, BlockType, KmemAssumption DEF RunInv, KInv
    <3> QED BY <2>1, <3>2, <3>3
  <2>4. live' = Stacks' \cup {<<ret', Asked'>>} /\ Given'
    BY <1>1, <1>2, <2>1, <2>2 DEF Given
  <2> QED BY <1>1, <1>2, <2>1, <2>3, <2>4 DEF RunInv, Allocated
<1> QED BY <1>3, <1>4, <1>5 DEF Walk

LEMMA AllocatedFrees ==
  ASSUME RunInv, Frees
  PROVE  Allocated'
<1>1. /\ live' = live \ {<<ret, Asked>>} /\ Given /\ ~Given' /\ pc' = "idle"
      /\ at' \notin {"probe_free", "turn_free"} /\ threads' = threads
  BY DEF Frees, kfree, RunInv, Allocated, Given, Asking, sched
<1>2. live = Stacks \cup {<<ret, Asked>>} /\ <<ret, Asked>> \notin Stacks
  BY <1>1 DEF RunInv, Allocated, Stacks
<1>3. live' = Stacks'
  BY <1>1, <1>2 DEF Stacks
<1> QED BY <1>1, <1>3 DEF RunInv, Allocated

LEMMA AllocatedCreates ==
  ASSUME RunInv, Creates
  PROVE  Allocated'
<1> DEFINE k == Len(threads)
<1>1. /\ Given /\ Asked = StackSize /\ live' = live /\ pc' = "idle" /\ at' = "create"
      /\ ~Given'
  BY DEF Creates, Given, Asking, Asked, vars
<1>2. /\ k \in Nat /\ DOMAIN threads = 1 .. k /\ DOMAIN threads' = 1 .. (k + 1)
      /\ \A i \in 1 .. k : threads'[i] = threads[i]
      /\ threads'[k + 1].stack = ret
  BY DEF Creates, RunInv, Scheduled
<1> HIDE DEF k
<1>3. live' = Stacks'
  <2>1. live = Stacks \cup {<<ret, StackSize>>}
    BY <1>1 DEF RunInv, Allocated
  <2>2. \A l : l \in Stacks' <=> l \in Stacks \/ l = <<ret, StackSize>>
    BY SMTT(30), <1>2 DEF Stacks
  <2> QED BY <1>1, <2>1, <2>2
<1>4. ASSUME NEW i \in DOMAIN threads', NEW j \in DOMAIN threads', i # j
      PROVE  threads'[i].stack # threads'[j].stack
  <2>1. \A m \in 1 .. k : threads[m].stack # ret
    BY <1>1, <1>2 DEF RunInv, Allocated
  <2>2. (i \in 1 .. k \/ i = k + 1) /\ (j \in 1 .. k \/ j = k + 1)
    BY <1>2
  <2> QED BY SMTT(30), <1>2, <1>4, <2>1, <2>2 DEF RunInv, Allocated
<1> QED BY <1>1, <1>3, <1>4 DEF Allocated

LEMMA AllocatedStep ==
  ASSUME RunInv, [KNext]_kvars
  PROVE  Allocated'
<1>1. CASE UNCHANGED <<vars, at, sched>>
  BY <1>1 DEF RunInv, Allocated, Given, Asking, Asked, Stacks, running, vars, sched
<1>2. CASE Walk /\ UNCHANGED <<at, sched>>
  BY <1>2, AllocatedWalk
<1>3. CASE kmem_init /\ at = "heap" /\ at' = "probe" /\ UNCHANGED sched
  BY ZenonT(30), <1>3 DEF kmem_init, RunInv, Allocated, Given, Asking, Stacks, sched
<1>4. CASE Moves
  BY <1>4, NothingAsked DEF Moves, RunInv, Given, Asking, sched
<1>5. CASE Asks
  <2>1. /\ pc' = "walk" /\ want' = Asked' /\ live' = live /\ threads' = threads
        /\ at' \in {"probe_done", "created", "turn_done"} /\ ~Given /\ ~Given'
    BY <1>5 DEF Asks, kmalloc, Given, Asking, sched
  <2> QED BY <2>1 DEF RunInv, Allocated, Stacks
<1>6. CASE Tests
  <2>1. CASE ret = Null
    BY SMTT(30), <1>6, <2>1, NothingAsked DEF Tests, RunInv, Given, Asking, sched, vars
  <2>2. CASE ret # Null
    <3>1. /\ Given /\ Given' /\ Asked' = Asked /\ live' = live /\ threads' = threads
          /\ ret' = ret /\ pc' = "idle"
      BY <1>6, <2>2 DEF Tests, Given, Asking, Asked, running, sched, vars
    <3> QED BY SMTT(30), <2>2, <3>1 DEF RunInv, Allocated, Stacks
  <2> QED BY <2>1, <2>2
<1>7. CASE Frees
  BY <1>7, AllocatedFrees
<1>8. CASE Creates
  BY <1>8, AllocatedCreates
<1>9. CASE Yields
  BY <1>9, NothingAsked DEF Yields, RunInv, Given, Asking
<1> QED
  BY ZenonT(30), <1>1, <1>2, <1>3, <1>4, <1>5, <1>6, <1>7, <1>8, <1>9, Shapes

LEMMA RunInvInit == KInit => RunInv
<1> SUFFICES ASSUME KInit PROVE RunInv
  OBVIOUS
<1>1. KInv
  BY DEF KInit, Init, KInv, TypeOK, Tiled, LiveIsExclusive, NoLeak, FirstFit, Calls, Headers, Null
<1>2. Scheduled
  <2>1. Len(Entries) \in Nat \ {0} /\ 0 \in 0 .. (Len(Entries) - 1)
    BY KernelAssumption
  <2>2. 0 % Len(Entries) = 0
    BY <2>1, ModOf
  <2> QED BY <2>1, <2>2 DEF KInit, Scheduled, Started, TurnsInOrder, Thread
<1>3. Allocated
  BY DEF KInit, Init, Allocated, Stacks, Given, Asking
<1> QED BY SMTT(30), <1>1, <1>2, <1>3 DEF RunInv

LEMMA RunInvHolds == KSpec => []RunInv
<1>1. RunInv /\ [KNext]_kvars => RunInv'
  BY KernelOnHeap, ScheduledStep, AllocatedStep DEF RunInv
<1> QED BY <1>1, RunInvInit, PTL DEF KSpec

\* For every list of threads and whatever they allocate, with interrupts
\* anywhere and whether or not an allocation fails: the stacks thread_create
\* allocated stay allocated, each to one thread.
THEOREM StacksStay == KSpec => []StacksKept
<1>1. RunInv => StacksKept
  BY SMTT(30) DEF RunInv, Allocated, Stacks, StacksKept
<1> QED BY <1>1, RunInvHolds, PTL

\* For the same, a thread gives back in its turn all that it allocated: between
\* two turns the heap holds the stacks and nothing else.
THEOREM HeapDoesNotGrow == KSpec => []NoHeapGrowth
<1>1. RunInv => NoHeapGrowth
  BY DEF RunInv, Allocated, Stacks, NoHeapGrowth, Given, Asking
<1> QED BY <1>1, RunInvHolds, PTL

\* For the same, thread_yield takes the threads in the order of their creation,
\* over and over.
THEOREM YieldGoesRound == KSpec => []TurnsInOrder
<1>1. RunInv => TurnsInOrder
  BY DEF RunInv, Scheduled
<1> QED BY <1>1, RunInvHolds, PTL
=============================================================================
