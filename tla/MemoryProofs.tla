---------------------------- MODULE MemoryProofs ----------------------------
(***************************************************************************)
(* Memory.  The counters of the frame allocator stay in step with its      *)
(* bitmap for every number of frames, every memory map and every sequence  *)
(* of calls, and under callers that keep the contract every frame is in    *)
(* one place.  The mapping table implements PageMap, for every number of   *)
(* slots and every set of addresses.  The memory functions copy as if at   *)
(* once, for every memory.                                                 *)
(***************************************************************************)
EXTENDS PmmClient, Vmm, Memory, FiniteSetTheorems, TLAPS

\* Every set of natural numbers that is not empty has a least element.
LEMMA Least ==
  ASSUME NEW T \in SUBSET Nat, T # {}
  PROVE  \E x \in T : \A y \in T : x <= y
<1> DEFINE R == {p \in Nat \X Nat : p[1] < p[2]}
<1>1. IsWellFoundedOn(R, Nat)
  BY NatLessThanWellFounded DEF OpToRel
<1>2. PICK x \in T : \A y \in T : <<y, x>> \notin R
  BY Zenon, <1>1, WFMin
<1>3. ASSUME NEW y \in T
      PROVE  x <= y
  <2>1. <<y, x>> \notin R
    BY <1>2
  <2> QED BY <2>1
<1> QED BY <1>3

(* The frame allocator                                                     *)

\* Frame numbers and addresses determine each other, and no frame has the
\* address that stands for failure.
LEMMA AddressOfFrame ==
  ASSUME NEW f \in Frames
  PROVE  /\ f * PageSize \in Nat /\ f * PageSize # PMM_INVALID_FRAME
         /\ (f * PageSize) \div PageSize = f /\ (f * PageSize) % PageSize = 0
<1>1. f \in Nat /\ f <= FrameCount - 1 /\ PageSize \in Nat /\ 0 < PageSize
  BY PmmAssumption DEF Frames
<1>2. f * PageSize \in Nat /\ f * PageSize <= (FrameCount - 1) * PageSize
  BY <1>1, PmmAssumption
<1>3. (FrameCount - 1) * PageSize = FrameCount * PageSize - PageSize
  BY PmmAssumption
<1>4. f * PageSize # PMM_INVALID_FRAME
  BY <1>1, <1>2, <1>3, PmmAssumption DEF PMM_INVALID_FRAME
<1>5. (f * PageSize) \div PageSize = f /\ (f * PageSize) % PageSize = 0
  BY <1>1
<1>6. QED
  BY <1>2, <1>4, <1>5

LEMMA FrameCountFits == FrameCount < WordSize
<1>1. FrameCount <= FrameCount * PageSize
  BY PmmAssumption
<1>2. QED
  BY <1>1, PmmAssumption

\* The frames are finitely many, and so is every set of frames.
LEMMA FiniteFrames ==
  ASSUME NEW S \in SUBSET Frames
  PROVE  IsFiniteSet(S) /\ Cardinality(S) \in 0 .. FrameCount
<1>1. IsFiniteSet(Frames) /\ Cardinality(Frames) = FrameCount
  BY FS_Interval, PmmAssumption DEF Frames
<1>2. QED
  BY <1>1, FS_Subset, FS_CardinalityType, PmmAssumption

\* Setting the bits of S clears none and unclears those of S that were clear.
LEMMA CountSet ==
  ASSUME NEW U \in SUBSET Frames, NEW S \in SUBSET Frames
  PROVE  Cardinality(Frames \ (U \cup S))
           = Cardinality(Frames \ U) - Cardinality(S \ U)
<1>1. /\ Frames \ (U \cup S) = (Frames \ U) \ S
      /\ (Frames \ U) \cap S = S \ U
  OBVIOUS
<1>2. IsFiniteSet(Frames \ U)
  BY FiniteFrames
<1>3. QED
  BY <1>1, <1>2, FS_Difference

LEMMA CountOne ==
  ASSUME NEW U \in SUBSET Frames, NEW f \in Frames
  PROVE  /\ f \notin U => Cardinality(Frames \ (U \cup {f})) = Cardinality(Frames \ U) - 1
         /\ f \in U => Cardinality(Frames \ (U \ {f})) = Cardinality(Frames \ U) + 1
<1>1. CASE f \notin U
  <2>1. {f} \ U = {f} /\ {f} \in SUBSET Frames
    BY <1>1
  <2>2. Cardinality(Frames \ (U \cup {f})) = Cardinality(Frames \ U) - Cardinality({f} \ U)
    BY Zenon, <2>1, CountSet
  <2>3. Cardinality({f}) = 1
    BY Zenon, FS_Singleton
  <2>4. QED
    BY <1>1, <2>1, <2>2, <2>3
<1>2. CASE f \in U
  <2>1. Frames \ (U \ {f}) = (Frames \ U) \cup {f} /\ f \notin Frames \ U
    BY <1>2
  <2>2. QED
    BY Zenon, <1>2, <2>1, FS_AddElement, FiniteFrames
<1>3. QED
  BY <1>1, <1>2
-----------------------------------------------------------------------------
\* The invariant of the allocator under any caller.
PmmInv == TypeOK /\ CountersSum /\ FreeCountTracksBitmap

\* Missed is a number of frames, and init leaves exactly that many uncounted.
LEMMA MissedAtBoot ==
  ASSUME NEW m \in Maps
  PROVE  LET opened == Filled \cap Opened(m)
             lost   == Cardinality(Tail0) + (IF 0 \in Opened(m) THEN 0 ELSE 1) IN
         /\ lost \in 0 .. (FrameCount + 1)
         /\ Cardinality(opened) \in 0 .. FrameCount
         /\ Cardinality(Frames \ ((Filled \ opened) \cup {0}))
              = Cardinality(opened) - 1 + lost
<1> DEFINE opened == Filled \cap Opened(m)
           U      == Filled \ opened
<1>1. /\ opened \in SUBSET Frames /\ U \in SUBSET Frames
      /\ Tail0 \in SUBSET Frames /\ 0 \in Frames
  BY PmmAssumption DEF Filled, Tail0, Frames
<1>2. 0 \in Filled
  <2>1. FrameCount \div ByteBits \in Nat /\ FrameCount \div ByteBits > 0
    BY PmmAssumption, Z3
  <2>2. ByteBits * (FrameCount \div ByteBits) > 0
    BY <2>1, PmmAssumption
  <2>3. QED
    BY <1>1, <2>2 DEF Filled
<1>3. Frames \ U = Tail0 \cup opened /\ Tail0 \cap opened = {}
  BY DEF Tail0, Filled, Opened
<1>4. Cardinality(Frames \ U) = Cardinality(Tail0) + Cardinality(opened)
  <2>1. IsFiniteSet(Tail0) /\ IsFiniteSet(opened)
    BY <1>1, FiniteFrames
  <2>2. Cardinality(Tail0 \cup opened)
          = Cardinality(Tail0) + Cardinality(opened) - Cardinality(Tail0 \cap opened)
    BY <2>1, FS_Union
  <2>3. /\ Cardinality({}) = 0
        /\ Cardinality(Tail0) \in Nat /\ Cardinality(opened) \in Nat
    BY <1>1, FS_EmptySet, FiniteFrames
  <2> HIDE DEF opened, U
  <2>4. /\ Cardinality(Frames \ U) = Cardinality(Tail0 \cup opened)
        /\ Cardinality(Tail0 \cap opened) = Cardinality({})
    BY <1>3, Zenon
  <2>5. QED
    BY <2>2, <2>3, <2>4
<1>5. 0 \in U <=> 0 \notin Opened(m)
  BY <1>2
<1>6. Cardinality(Tail0) \in 0 .. FrameCount /\ Cardinality(opened) \in 0 .. FrameCount
  BY <1>1, FiniteFrames
<1>7. Cardinality(Frames \ (U \cup {0}))
        = Cardinality(Frames \ U) - (IF 0 \in U THEN 0 ELSE 1)
  <2>1. CASE 0 \in U
    <3>1. U \cup {0} = U /\ Cardinality(Frames \ U) \in Int
      BY <2>1, FiniteFrames
    <3> HIDE DEF U
    <3>2. Cardinality(Frames \ (U \cup {0})) = Cardinality(Frames \ U)
      BY <3>1, Zenon
    <3>3. QED
      BY <2>1, <3>1, <3>2
  <2>2. CASE 0 \notin U
    <3> HIDE DEF U
    <3>1. QED
      BY <1>1, <2>2, CountOne
  <2>3. QED
    BY <2>1, <2>2
<1>8. QED
  <2> HIDE DEF opened
  <2>1. Cardinality(Frames \ ((Filled \ opened) \cup {0}))
          = Cardinality(opened) - 1 + Cardinality(Tail0)
              + (IF 0 \in Opened(m) THEN 0 ELSE 1)
    BY <1>4, <1>5, <1>6, <1>7
  <2>2. QED
    BY <1>6, <2>1, PmmAssumption DEF opened
-----------------------------------------------------------------------------
LEMMA InitStep ==
  ASSUME PmmInv, NEW m \in Maps, pmm_init_from_map(m)
  PROVE  PmmInv'
<1> DEFINE opened == Filled \cap Opened(m)
           lost   == Cardinality(Tail0) + (IF 0 \in Opened(m) THEN 0 ELSE 1)
<1>1. /\ lost \in 0 .. (FrameCount + 1) /\ Cardinality(opened) \in 0 .. FrameCount
      /\ Cardinality(Frames \ ((Filled \ opened) \cup {0})) = Cardinality(opened) - 1 + lost
  BY Zenon, MissedAtBoot
<1>2. /\ used' = (Filled \ opened) \cup {0} /\ map' = m /\ initialized' = TRUE
      /\ free_frames' = Minus(Cardinality(opened), 1)
      /\ used_frames' = Plus(FrameCount - Cardinality(opened), 1)
  BY DEF pmm_init_from_map
<1>3. used' \subseteq Frames
  BY <1>2, PmmAssumption DEF Filled, Frames
<1>4. Missed' = lost
  BY <1>2 DEF Missed
<1>5. Cardinality(Clear') = Cardinality(opened) - 1 + lost
  BY <1>1, <1>2, Zenon DEF Clear
<1> HIDE DEF opened, lost
<1> DEFINE n == Cardinality(opened)
<1> HIDE DEF n
<1>6. /\ n \in 0 .. FrameCount /\ free_frames' = Minus(n, 1)
      /\ used_frames' = Plus(FrameCount - n, 1)
  BY <1>1, <1>2 DEF n
<1>7. free_frames' \in 0 .. (WordSize - 1) /\ used_frames' \in 0 .. (WordSize - 1)
  BY <1>6, PmmAssumption, FrameCountFits DEF Minus, Plus
<1>8. TypeOK'
  BY <1>2, <1>3, <1>7 DEF TypeOK
<1>9. CountersSum'
  BY SMTT(30), <1>2, <1>6, PmmAssumption, FrameCountFits DEF CountersSum, Minus, Plus
<1>10. FreeCountTracksBitmap'
  <2>1. free_frames' = n - 1 \/ free_frames' = n - 1 + WordSize
    BY <1>6, PmmAssumption DEF Minus
  <2>2. free_frames' + lost \in {n - 1 + lost, n - 1 + lost + WordSize}
    BY <1>1, <1>6, <2>1, PmmAssumption
  <2>3. QED
    BY <1>2, <1>4, <1>5, <2>2 DEF FreeCountTracksBitmap, n
<1>11. QED
  BY <1>8, <1>9, <1>10 DEF PmmInv

\* Unsigned arithmetic: a sum that is right modulo WordSize stays right.
LEMMA WordSums ==
  ASSUME NEW a \in 0 .. (WordSize - 1), NEW b \in 0 .. (WordSize - 1),
         NEW k \in 0 .. FrameCount, a + b \in {FrameCount, FrameCount + WordSize}
  PROVE  Minus(a, k) + Plus(b, k) \in {FrameCount, FrameCount + WordSize}
<1> USE PmmAssumption, FrameCountFits
<1>1. CASE k <= a /\ b + k < WordSize
  BY <1>1 DEF Minus, Plus
<1>2. CASE k <= a /\ b + k >= WordSize
  BY <1>2 DEF Minus, Plus
<1>3. CASE k > a /\ b + k < WordSize
  BY <1>3 DEF Minus, Plus
<1>4. CASE k > a /\ b + k >= WordSize
  BY <1>4 DEF Minus, Plus
<1>5. QED
  BY <1>1, <1>2, <1>3, <1>4

LEMMA WordCounts ==
  ASSUME NEW a \in 0 .. (WordSize - 1), NEW m \in 0 .. (FrameCount + 1),
         NEW c \in 0 .. FrameCount, NEW k \in 0 .. FrameCount,
         a + m \in {c, c + WordSize}
  PROVE  /\ c - k >= 0 => Minus(a, k) + m \in {c - k, c - k + WordSize}
         /\ c + k <= FrameCount => Plus(a, k) + m \in {c + k, c + k + WordSize}
<1> USE PmmAssumption, FrameCountFits
<1>1. c - k >= 0 => Minus(a, k) + m \in {c - k, c - k + WordSize}
  BY DEF Minus
<1>2. c + k <= FrameCount => Plus(a, k) + m \in {c + k, c + k + WordSize}
  BY DEF Plus
<1>3. QED
  BY <1>1, <1>2

\* A call that clears or sets k bits moves both counters by k.
LEMMA CountersMove ==
  ASSUME PmmInv, initialized, UNCHANGED <<initialized, map>>,
         used' \subseteq Frames, NEW k \in 0 .. FrameCount,
         \/ /\ Cardinality(Clear') = Cardinality(Clear) - k
            /\ free_frames' = Minus(free_frames, k) /\ used_frames' = Plus(used_frames, k)
         \/ /\ Cardinality(Clear') = Cardinality(Clear) + k
            /\ free_frames' = Plus(free_frames, k) /\ used_frames' = Minus(used_frames, k)
  PROVE  PmmInv'
<1> DEFINE c == Cardinality(Clear)
           e == Cardinality(Clear')
<1>1. /\ c \in 0 .. FrameCount /\ e \in 0 .. FrameCount
      /\ free_frames \in 0 .. (WordSize - 1) /\ used_frames \in 0 .. (WordSize - 1)
  BY FiniteFrames DEF PmmInv, TypeOK, Clear
<1>2. /\ free_frames' \in 0 .. (WordSize - 1) /\ used_frames' \in 0 .. (WordSize - 1)
  BY SMTT(30), <1>1, PmmAssumption, FrameCountFits DEF Minus, Plus
<1>3. TypeOK'
  BY <1>2 DEF PmmInv, TypeOK
<1>4. CountersSum'
  <2>1. free_frames + used_frames \in {FrameCount, FrameCount + WordSize}
    BY DEF PmmInv, CountersSum
  <2>2. /\ Minus(free_frames, k) + Plus(used_frames, k) \in {FrameCount, FrameCount + WordSize}
        /\ Minus(used_frames, k) + Plus(free_frames, k) \in {FrameCount, FrameCount + WordSize}
    BY <1>1, <2>1, WordSums
  <2>3. free_frames' + used_frames' \in {FrameCount, FrameCount + WordSize}
    BY <1>2, <2>2
  <2>4. QED
    BY <2>3 DEF CountersSum
<1>5. Missed' = Missed /\ Missed \in 0 .. (FrameCount + 1)
  BY FiniteFrames, PmmAssumption DEF Missed, Tail0
<1>6. \/ e = c - k /\ free_frames' = Minus(free_frames, k)
      \/ e = c + k /\ free_frames' = Plus(free_frames, k)
  OBVIOUS
<1>7. free_frames + Missed \in {c, c + WordSize}
  BY DEF PmmInv, FreeCountTracksBitmap
<1> HIDE DEF c, e
<1>8. free_frames' + Missed \in {e, e + WordSize}
  <2>1. /\ c - k >= 0 => Minus(free_frames, k) + Missed \in {c - k, c - k + WordSize}
        /\ c + k <= FrameCount => Plus(free_frames, k) + Missed \in {c + k, c + k + WordSize}
    BY <1>1, <1>5, <1>7, WordCounts
  <2>2. CASE e = c - k /\ free_frames' = Minus(free_frames, k)
    <3>1. c - k >= 0
      BY <1>1, <2>2
    <3>2. QED
      BY <2>1, <2>2, <3>1
  <2>3. CASE e = c + k /\ free_frames' = Plus(free_frames, k)
    <3>1. c + k <= FrameCount
      BY <1>1, <2>3
    <3>2. QED
      BY <2>1, <2>3, <3>1
  <2>4. QED
    BY <1>6, <2>2, <2>3
<1>9. FreeCountTracksBitmap'
  BY <1>5, <1>8 DEF FreeCountTracksBitmap, e
<1>10. QED
  BY <1>3, <1>4, <1>9 DEF PmmInv

LEMMA AllocStep ==
  ASSUME PmmInv, NEW phys, pmm_alloc_frame(phys)
  PROVE  PmmInv'
<1>1. CASE UNCHANGED <<used, free_frames, used_frames>>
  BY <1>1 DEF pmm_alloc_frame, PmmInv, TypeOK, CountersSum, FreeCountTracksBitmap, Clear, Missed
<1>2. ASSUME NEW f \in Clear, Take(f) PROVE PmmInv'
  <2>1. used \in SUBSET Frames /\ f \in Frames /\ f \notin used /\ used' = used \cup {f}
    BY <1>2 DEF PmmInv, TypeOK, Clear, Take
  <2>2. Cardinality(Clear') = Cardinality(Clear) - 1
    BY <2>1, CountOne DEF Clear
  <2>3. QED
    BY <1>2, <2>1, <2>2, CountersMove, PmmAssumption DEF Take, pmm_alloc_frame
<1>3. QED
  BY <1>1, <1>2 DEF pmm_alloc_frame

LEMMA FreeStep ==
  ASSUME PmmInv, NEW phys \in Nat, pmm_free_frame(phys)
  PROVE  PmmInv'
<1> DEFINE f == phys \div PageSize
<1>1. CASE UNCHANGED <<used, free_frames, used_frames>>
  BY <1>1 DEF pmm_free_frame, PmmInv, TypeOK, CountersSum, FreeCountTracksBitmap, Clear, Missed
<1>2. CASE MayFree(phys)
  <2>1. used \in SUBSET Frames /\ f \in Frames /\ f \in used /\ used' = used \ {f}
    BY <1>2 DEF PmmInv, TypeOK, MayFree, pmm_free_frame
  <2> HIDE DEF f
  <2>2. Cardinality(Clear') = Cardinality(Clear) + 1
    BY <2>1, CountOne DEF Clear
  <2>3. QED
    BY <1>2, <2>1, <2>2, CountersMove, PmmAssumption DEF pmm_free_frame
<1>3. QED
  BY <1>1, <1>2 DEF pmm_free_frame

LEMMA ReserveStep ==
  ASSUME PmmInv, NEW base, NEW length, pmm_reserve_range(base, length)
  PROVE  PmmInv'
<1> DEFINE S == FramesOf(base, length)
<1>1. used \in SUBSET Frames /\ S \in SUBSET Frames /\ used' = used \cup S
  BY DEF PmmInv, TypeOK, pmm_reserve_range, FramesOf
<1>2. Cardinality(Clear') = Cardinality(Clear) - Cardinality(S \ used)
  BY <1>1, CountSet, Zenon DEF Clear
<1>3. Cardinality(S \ used) \in 0 .. FrameCount
  BY <1>1, FiniteFrames
<1>4. QED
  BY Zenon, <1>1, <1>2, <1>3, CountersMove DEF pmm_reserve_range, NewlyReserved

LEMMA PmmStep == PmmInv /\ [Next]_vars => PmmInv'
<1> SUFFICES ASSUME PmmInv, [Next]_vars PROVE PmmInv'
  OBVIOUS
<1>1. CASE UNCHANGED vars
  BY <1>1 DEF vars, PmmInv, TypeOK, CountersSum, FreeCountTracksBitmap, Clear, Missed
<1>2. CASE \E m \in Maps : pmm_init_from_map(m)
  BY <1>2, InitStep
<1>3. CASE \E phys \in Returned : pmm_alloc_frame(phys)
  BY <1>3, AllocStep
<1>4. CASE \E phys \in Phys : pmm_free_frame(phys)
  BY <1>4, FreeStep, PmmAssumption
<1>5. CASE \E r \in Ranges : pmm_reserve_range(r[1], r[2])
  BY <1>5, ReserveStep
<1>6. QED
  BY <1>1, <1>2, <1>3, <1>4, <1>5 DEF Next

LEMMA PmmInitial == Init => PmmInv
<1>1. 0 \in 0 .. (WordSize - 1)
  BY PmmAssumption, FrameCountFits
<1>2. QED
  BY <1>1, Zenon DEF Init, PmmInv, TypeOK, CountersSum, FreeCountTracksBitmap

\* Whatever the memory map and whatever sequence of alloc, free and reserve
\* calls follows, rejected ones included, the two counters of struct pmm_state
\* add up to frame_count, and free_frames is the number of clear bits less the
\* frames that pmm_init_from_map failed to count.
THEOREM CountersCorrect == Spec => [](TypeOK /\ CountersSum /\ FreeCountTracksBitmap)
<1>1. Spec => []PmmInv
  BY PmmInitial, PmmStep, PTL DEF Spec
<1>2. QED
  BY <1>1, PTL DEF PmmInv
-----------------------------------------------------------------------------
(* Callers that keep the contract.                                         *)

OwnerInv ==
  /\ used \subseteq Frames
  /\ held \in [Owners -> SUBSET Frames]
  /\ reserved \subseteq Frames
  /\ ~initialized => held = [o \in Owners |-> {}] /\ reserved = {}
  /\ FramesPartitioned

LEMMA OwnerStep == OwnerInv /\ [ClientNext]_clientVars => OwnerInv'
<1> SUFFICES ASSUME OwnerInv, [ClientNext]_clientVars PROVE OwnerInv'
  OBVIOUS
<1> USE DEF OwnerInv, FramesPartitioned
<1>1. CASE UNCHANGED clientVars
  BY <1>1 DEF clientVars, vars, Closed
<1>2. ASSUME NEW m \in Maps, Boot(m) PROVE OwnerInv'
  <2>1. /\ used' = (Filled \ (Filled \cap Opened(m))) \cup {0}
        /\ map' = m /\ ~initialized /\ initialized' = TRUE /\ UNCHANGED <<held, reserved>>
    BY <1>2 DEF Boot, pmm_init_from_map
  <2>2. Closed' = used'
    BY <2>1 DEF Closed
  <2>3. used' \subseteq Frames
    BY <2>1, PmmAssumption DEF Filled, Frames
  <2>4. QED
    BY <2>1, <2>2, <2>3
<1>3. ASSUME NEW o \in Owners, NEW phys \in Returned, Alloc(o, phys) PROVE OwnerInv'
  <2>1. initialized /\ UNCHANGED <<initialized, map, reserved>> /\ Closed' = Closed
    BY <1>3 DEF Alloc, pmm_alloc_frame, Closed
  <2>2. CASE phys = PMM_INVALID_FRAME
    <3>1. UNCHANGED used
      BY <1>3, <2>2, AddressOfFrame DEF Alloc, pmm_alloc_frame, Clear
    <3>2. QED
      BY <1>3, <2>1, <2>2, <3>1 DEF Alloc
  <2>3. CASE phys # PMM_INVALID_FRAME
    <3>1. PICK f \in Clear : phys = f * PageSize /\ Take(f)
      BY <1>3, <2>3 DEF Alloc, pmm_alloc_frame
    <3>2. /\ f \in Frames /\ f \notin used /\ used' = used \cup {f}
          /\ held' = [held EXCEPT ![o] = @ \cup {f}]
      BY Zenon, <1>3, <2>3, <3>1, AddressOfFrame DEF Clear, Take, Alloc
    <3>3. \A p \in Owners : held'[p] = held[p] \cup (IF p = o THEN {f} ELSE {})
      BY <3>2
    <3>4. QED
      BY <2>1, <3>2, <3>3
  <2>4. QED
    BY <2>2, <2>3
<1>4. ASSUME NEW o \in Owners, NEW phys \in Phys, Free(o, phys) PROVE OwnerInv'
  <2> DEFINE f == phys \div PageSize
  <2>1. /\ initialized /\ UNCHANGED <<initialized, map, reserved>> /\ Closed' = Closed
        /\ f \in used => f \in held[o]
        /\ held' = IF f \in used' THEN held ELSE [held EXCEPT ![o] = @ \ {f}]
        /\ used' = used \ {f} \/ used' = used
    BY <1>4 DEF Free, pmm_free_frame, Closed
  <2> HIDE DEF f
  <2>2. CASE f \in used'
    BY <2>1, <2>2
  <2>3. CASE f \notin used'
    <3>1. used' = used \ {f}
      BY <2>1, <2>3
    <3>2. \A p \in Owners : held'[p] = held[p] \ (IF p = o THEN {f} ELSE {})
      BY <2>1, <2>3
    <3>3. QED
      BY <2>1, <2>3, <3>1, <3>2
  <2>4. QED
    BY <2>2, <2>3
<1>5. ASSUME NEW r \in Ranges, Reserve(r[1], r[2]) PROVE OwnerInv'
  <2>1. /\ initialized /\ UNCHANGED <<initialized, map, held>> /\ Closed' = Closed
        /\ used' = used \cup FramesOf(r[1], r[2])
        /\ reserved' = reserved \cup FramesOf(r[1], r[2])
        /\ \A o \in Owners : FramesOf(r[1], r[2]) \cap held[o] = {}
    BY <1>5 DEF Reserve, pmm_reserve_range, Closed
  <2>2. FramesOf(r[1], r[2]) \subseteq Frames
    BY DEF FramesOf
  <2>3. QED
    BY SMTT(30), <2>1, <2>2
<1>6. QED
  BY SMTT(30), <1>1, <1>2, <1>3, <1>4, <1>5 DEF ClientNext

\* The frames have their owners for ever.
LEMMA OwnerInvHolds == ClientSpec => []OwnerInv
<1>1. ClientInit => OwnerInv
  BY DEF ClientInit, Init, OwnerInv, FramesPartitioned
<1>2. QED
  BY <1>1, OwnerStep, PTL DEF ClientSpec

\* Under callers that free no frame another holds, every frame is closed,
\* reserved, free, or held by exactly one owner: pmm_alloc_frame never hands
\* out a frame that is in use and none is lost.
THEOREM FramesHaveOneOwner == ClientSpec => []FramesPartitioned
  BY OwnerInvHolds, PTL DEF OwnerInv

\* Under the same callers no frame of a region that the boot map marks as not
\* usable, and that no usable region overlaps, is ever handed out.
THEOREM NonUsableStaysClosed == ClientSpec => []NonUsableNeverHeld
<1>1. OwnerInv => NonUsableNeverHeld
  <2> SUFFICES ASSUME OwnerInv, NEW r \in FencedOff(map), NEW o \in Owners,
                      NEW f \in held[o], f \in FramesOf(map[r].base, map[r].length), f \in Filled
               PROVE  FALSE
    BY DEF NonUsableNeverHeld
  <2>1. initialized
    BY DEF OwnerInv
  <2>2. f \notin Opened(map)
    BY DEF FencedOff, Opened
  <2>3. f \in Closed
    BY <2>2 DEF Closed
  <2>4. QED
    BY <2>1, <2>3 DEF OwnerInv, FramesPartitioned
<1>2. QED
  BY <1>1, OwnerInvHolds, PTL
-----------------------------------------------------------------------------
(* The mapping table                                                       *)

SlotType == [used : BOOLEAN, virt : Nat, phys : Nat, flags : SUBSET ((UNION Flags) \cup {Present})]
TypeInv  == g_mappings \in [Slots -> SlotType]

\* Every slot in use holds an aligned frame, marked present, for an aligned
\* canonical page, after any sequence of maps, remaps and unmaps.
THEOREM SlotsStaySound == VmmSpec => []SlotsSound
<1> DEFINE IInv == TypeInv /\ SlotsSound
<1>1. VmmInit => IInv
  BY DEF VmmInit, TypeInv, SlotType, SlotsSound
<1>2. IInv /\ [VmmNext]_vmmvars => IInv'
  <2> SUFFICES ASSUME IInv, [VmmNext]_vmmvars
               PROVE  IInv'
    OBVIOUS
  <2>1. CASE UNCHANGED g_mappings
    BY <2>1 DEF TypeInv, SlotsSound
  <2>2. ASSUME NEW virt \in Virts, NEW phys \in Physs, NEW flags \in Flags,
               vmm_map_page(virt, phys, flags), ~UNCHANGED g_mappings
        PROVE  IInv'
    <3>1. PICK n \in Slots :
            /\ Mappable(virt, phys)
            /\ g_mappings' = [g_mappings EXCEPT ![n] =
                 [used |-> TRUE, virt |-> virt, phys |-> phys, flags |-> flags \cup {Present}]]
      BY <2>2 DEF vmm_map_page, Reject
    <3>2. virt \in Nat /\ phys \in Nat /\ flags \cup {Present} \in SUBSET ((UNION Flags) \cup {Present})
      BY VmmAssumption
    <3>3. TypeInv'
      BY SMTT(30), <3>1, <3>2 DEF TypeInv, SlotType
    <3>4. SlotsSound'
      BY <3>1 DEF SlotsSound, TypeInv, SlotType, Mappable
    <3> QED BY <3>3, <3>4
  <2>3. ASSUME NEW virt \in Virts, vmm_unmap_page(virt), ~UNCHANGED g_mappings
        PROVE  IInv'
    <3>1. PICK n \in Slots : g_mappings' = [g_mappings EXCEPT ![n].used = FALSE]
      BY <2>3 DEF vmm_unmap_page, Reject
    <3> QED BY ZenonT(30), <3>1 DEF SlotsSound, TypeInv, SlotType
  <2>4. ASSUME NEW virt \in Virts, vmm_query_page(virt)
        PROVE  UNCHANGED g_mappings
    BY <2>4 DEF vmm_query_page, Reject
  <2> QED BY <2>1, <2>2, <2>3, <2>4 DEF VmmNext, vmmvars
<1>3. IInv => SlotsSound
  OBVIOUS
<1> QED BY <1>1, <1>2, <1>3, PTL DEF VmmSpec

-----------------------------------------------------------------------------
(* The refinement of PageMap                                               *)

\* What PageMap's held stands for.
Stock == {WithPresent(t) : t \in Targets}
Copies(v, t) == {n \in SlotsOf(v) : TargetOf(n) = t}
HeldOf == [v \in Virts |-> [t \in {WithPresent(t) : t \in Targets} |->
             Cardinality({n \in SlotsOf(v) : TargetOf(n) = t})]]
Room == Cardinality(FreeSlots)

\* A slot in use holds a mapping that some caller asked for.
SlotInv ==
  TypeInv /\ \A n \in Slots : g_mappings[n].used => g_mappings[n].virt \in Virts /\ TargetOf(n) \in Stock

LEMMA SlotsFinite ==
  /\ IsFiniteSet(FreeSlots) /\ Cardinality(FreeSlots) \in Nat
  /\ \A v, t : IsFiniteSet(Copies(v, t)) /\ Cardinality(Copies(v, t)) \in Nat
<1>1. IsFiniteSet(Slots)
  BY VmmAssumption, FS_Interval DEF Slots
<1>2. FreeSlots \in SUBSET Slots /\ \A v, t : Copies(v, t) \in SUBSET Slots
  BY DEF FreeSlots, Copies, SlotsOf
<1>3. IsFiniteSet(FreeSlots) /\ \A v, t : IsFiniteSet(Copies(v, t))
  BY SMTT(30), <1>1, <1>2, FS_Subset
<1> QED BY <1>3, FS_CardinalityType

\* PageMap's actions under the refinement mapping.
LEMMA MapForm ==
  ASSUME NEW v, NEW t
  PROVE  Table!Map(v, t) <=>
           /\ call' = <<"map", v, t>>
           /\ IF MappableTo(v, t) /\ Room > 0
              THEN ret' = TRUE /\ Room' = Room - 1 /\ HeldOf' = [HeldOf EXCEPT ![v][WithPresent(t)] = @ + 1]
              ELSE ret' = FALSE /\ HeldOf' = HeldOf /\ Room' = Room
BY DEF Table!Map, HeldOf, Room

Found(v) == {t \in Stock : HeldOf[v][t] > 0}

LEMMA QueryForm ==
  ASSUME NEW v
  PROVE  Table!Query(v) <=>
           /\ call' = <<"query", v>> /\ ret' = (Found(v) # {}) /\ (ret' => out' \in Found(v))
           /\ HeldOf' = HeldOf /\ Room' = Room
BY SMTT(30) DEF Table!Query, Table!Found, Table!Kept, Found, Stock, HeldOf, Room

LEMMA UnmapForm ==
  ASSUME NEW v
  PROVE  Table!Unmap(v) <=>
           /\ call' = <<"unmap", v>>
           /\ \/ Found(v) = {} /\ ret' = FALSE /\ HeldOf' = HeldOf /\ Room' = Room
              \/ \E t \in Found(v) :
                   ret' = TRUE /\ Room' = Room + 1 /\ HeldOf' = [HeldOf EXCEPT ![v][t] = @ - 1]
BY DEF Table!Unmap, Table!Found, Table!Kept, Found, Stock, HeldOf, Room

LEMMA TableKept ==
  ASSUME UNCHANGED g_mappings
  PROVE  HeldOf' = HeldOf /\ Room' = Room /\ (SlotInv => SlotInv')
BY DEF HeldOf, Room, SlotsOf, FreeSlots, TargetOf, SlotInv, TypeInv

\* A page is found exactly when a slot in use is for it.
LEMMA FoundFacts ==
  ASSUME SlotInv, NEW v \in Virts
  PROVE  /\ \A t \in Stock : HeldOf[v][t] = Cardinality(Copies(v, t))
         /\ \A n \in SlotsOf(v) : TargetOf(n) \in Found(v)
         /\ \A t \in Found(v) : \E n \in SlotsOf(v) : TargetOf(n) = t
<1>1. \A t \in Stock : HeldOf[v][t] = Cardinality(Copies(v, t))
  BY DEF HeldOf, Stock, Copies
<1>2. ASSUME NEW n \in SlotsOf(v)
      PROVE  TargetOf(n) \in Found(v)
  <2>1. TargetOf(n) \in Stock
    BY DEF SlotInv, SlotsOf
  <2>2. PICK t \in Stock : t = TargetOf(n)
    BY <2>1
  <2>3. Copies(v, t) # {}
    BY <2>2 DEF Copies
  <2>4. Cardinality(Copies(v, t)) > 0
    BY <2>3, SlotsFinite, FS_EmptySet
  <2> QED BY <1>1, <2>2, <2>4 DEF Found
<1>3. ASSUME NEW t \in Found(v)
      PROVE  \E n \in SlotsOf(v) : TargetOf(n) = t
  <2>1. t \in Stock /\ Cardinality(Copies(v, t)) > 0
    BY <1>1 DEF Found
  <2>2. Copies(v, t) # {}
    BY <2>1, FS_EmptySet
  <2> QED BY <2>2 DEF Copies
<1> QED BY <1>1, <1>2, <1>3

LEMMA MapRefines ==
  ASSUME SlotInv, NEW v \in Virts, NEW phys \in Physs, NEW flags \in Flags,
         vmm_map_page(v, phys, flags)
  PROVE  SlotInv' /\ \E t \in Targets : Table!Map(v, t)
<1>1. PICK t : t = [phys |-> phys, flags |-> flags]
  BY Zenon
<1>2. /\ t \in Targets /\ call' = <<"map", v, t>>
      /\ MappableTo(v, t) <=> Mappable(v, phys)
      /\ WithPresent(t) = [phys |-> phys, flags |-> flags \cup {Present}] /\ WithPresent(t) \in Stock
  BY Zenon, <1>1 DEF Targets, MappableTo, WithPresent, vmm_map_page, Stock
<1>3. (\E n \in Slots : Takes(n)) <=> Room > 0
  <2>1. (\E n \in Slots : Takes(n)) <=> FreeSlots # {}
    <3>1. FreeSlots \in SUBSET Nat /\ FreeSlots \subseteq Slots
      BY DEF FreeSlots, Slots
    <3> QED BY <3>1, Least DEF Takes
  <2>2. FreeSlots # {} <=> Room > 0
    BY SlotsFinite, FS_EmptySet DEF Room
  <2> QED BY <2>1, <2>2
<1>4. CASE ~(Mappable(v, phys) /\ Room > 0)
  <2>1. ret' = FALSE /\ UNCHANGED g_mappings
    BY <1>3, <1>4 DEF vmm_map_page, Reject
  <2>2. Table!Map(v, t)
    BY ZenonT(30), <1>2, <1>4, <2>1, TableKept, MapForm
  <2> QED BY <1>2, <2>1, <2>2, TableKept
<1>5. CASE Mappable(v, phys) /\ Room > 0
  <2> DEFINE rec == [used |-> TRUE, virt |-> v, phys |-> phys, flags |-> flags \cup {Present}]
             k == WithPresent(t)
  <2>1. PICK n \in FreeSlots : g_mappings' = [g_mappings EXCEPT ![n] = rec] /\ ret' = TRUE
    BY SMTT(30), <1>3, <1>5 DEF vmm_map_page, Takes
  <2>2. rec \in SlotType /\ rec.used /\ rec.virt = v /\ [phys |-> rec.phys, flags |-> rec.flags] = k
    BY <1>2, VmmAssumption DEF SlotType
  <2> HIDE DEF rec, k
  <2>3. n \in Slots /\ ~g_mappings[n].used /\ g_mappings'[n] = rec
        /\ \A j \in Slots \ {n} : g_mappings'[j] = g_mappings[j]
    BY SMTT(30), <2>1 DEF SlotInv, TypeInv, FreeSlots
  <2>4. TargetOf(n)' = k /\ \A j \in Slots \ {n} : TargetOf(j)' = TargetOf(j)
    BY <2>2, <2>3 DEF TargetOf
  <2>5. SlotInv'
    <3>1. TypeInv'
      BY Zenon, <2>1, <2>2 DEF SlotInv, TypeInv
    <3>2. k \in Stock
      BY <1>2 DEF k
    <3> QED BY ZenonT(30), <2>2, <2>3, <2>4, <3>1, <3>2 DEF SlotInv
  <2>6. Room' = Room - 1
    <3>1. FreeSlots' = FreeSlots \ {n}
      <4>1. /\ g_mappings'[n].used
            /\ \A j \in Slots : j # n => g_mappings'[j].used = g_mappings[j].used
        BY Zenon, <2>2, <2>3
      <4> QED BY SMTT(30), <4>1 DEF FreeSlots
    <3> QED BY ZenonT(30), <3>1, SlotsFinite, FS_RemoveElement DEF Room
  <2>7. /\ Copies(v, k)' = Copies(v, k) \cup {n} /\ n \notin Copies(v, k)
        /\ \A w, u : ~(w = v /\ u = k) => Copies(w, u)' = Copies(w, u)
    <3>1. ASSUME NEW w, NEW u, NEW j
          PROVE  j \in Copies(w, u)' <=> j \in Copies(w, u) \/ (j = n /\ w = v /\ u = k)
      <4>1. CASE j = n
        BY <2>2, <2>3, <2>4, <4>1 DEF Copies, SlotsOf
      <4>2. CASE j # n
        BY <2>3, <2>4, <4>2 DEF Copies, SlotsOf
      <4> QED BY ZenonT(30), <4>1, <4>2
    <3>2. n \notin Copies(v, k)
      BY <2>3 DEF Copies, SlotsOf
    <3>3. Copies(v, k)' = Copies(v, k) \cup {n}
      BY <3>1
    <3>4. ASSUME NEW w, NEW u, ~(w = v /\ u = k)
          PROVE  Copies(w, u)' = Copies(w, u)
      <4>1. \A j : j \in Copies(w, u)' <=> j \in Copies(w, u)
        BY <3>1, <3>4
      <4> QED BY Zenon, <4>1
    <3> QED BY <3>2, <3>3, <3>4
  <2>8. Cardinality(Copies(v, k)') = Cardinality(Copies(v, k)) + 1
    BY Zenon, <2>7, SlotsFinite, FS_AddElement
  <2>9. HeldOf' = [HeldOf EXCEPT ![v][k] = @ + 1]
    <3>1. HeldOf = [w \in Virts |-> [u \in Stock |-> Cardinality(Copies(w, u))]]
          /\ HeldOf' = [w \in Virts |-> [u \in Stock |-> Cardinality(Copies(w, u)')]]
      BY DEF HeldOf, Copies, Stock
    <3>2. HeldOf'[v] = [HeldOf[v] EXCEPT ![k] = @ + 1]
      BY ZenonT(30), <2>7, <2>8, <3>1
    <3>3. \A w \in Virts \ {v} : HeldOf'[w] = HeldOf[w]
      BY <2>7, <3>1
    <3>4. HeldOf = [w \in Virts |-> HeldOf[w]] /\ HeldOf' = [w \in Virts |-> HeldOf'[w]]
      BY <3>1
    <3> QED BY <3>2, <3>3, <3>4
  <2>10. Table!Map(v, t)
    BY Zenon, <1>2, <1>5, <2>1, <2>6, <2>9, MapForm DEF k
  <2> QED BY <1>2, <2>5, <2>10
<1> QED BY <1>4, <1>5

LEMMA QueryRefines ==
  ASSUME SlotInv, NEW v \in Virts, vmm_query_page(v)
  PROVE  SlotInv' /\ Table!Query(v)
<1>1. UNCHANGED g_mappings /\ call' = <<"query", v>>
  BY DEF vmm_query_page, Reject
<1>2. CASE SlotsOf(v) = {}
  <2>1. ret' = FALSE
    BY <1>2 DEF vmm_query_page, Reject, IsFirst
  <2>2. Found(v) = {}
    BY <1>2, FoundFacts
  <2> QED BY ZenonT(30), <1>1, <2>1, <2>2, TableKept, QueryForm
<1>3. CASE SlotsOf(v) # {}
  <2>1. PICK n \in SlotsOf(v) : ret' = TRUE /\ out' = TargetOf(n)
    BY <1>3 DEF vmm_query_page, IsFirst
  <2>2. out' \in Found(v)
    BY <2>1, FoundFacts
  <2> QED BY Zenon, <1>1, <2>1, <2>2, TableKept, QueryForm
<1> QED BY <1>2, <1>3

LEMMA UnmapRefines ==
  ASSUME SlotInv, NEW v \in Virts, vmm_unmap_page(v)
  PROVE  SlotInv' /\ Table!Unmap(v)
<1>1. call' = <<"unmap", v>>
  BY DEF vmm_unmap_page
<1>2. CASE SlotsOf(v) = {}
  <2>1. ret' = FALSE /\ UNCHANGED g_mappings
    BY <1>2 DEF vmm_unmap_page, Reject, IsFirst
  <2>2. Found(v) = {}
    BY <1>2, FoundFacts
  <2> QED BY Zenon, <1>1, <2>1, <2>2, TableKept, UnmapForm
<1>3. CASE SlotsOf(v) # {}
  <2>1. PICK n \in SlotsOf(v) : ret' = TRUE /\ g_mappings' = [g_mappings EXCEPT ![n].used = FALSE]
    BY <1>3 DEF vmm_unmap_page, IsFirst
  <2>2. PICK k : k = TargetOf(n)
    OBVIOUS
  <2>3. k \in Found(v) /\ k \in Stock
    BY <2>1, <2>2, FoundFacts DEF Found
  <2>4. /\ n \in Slots /\ g_mappings[n].used /\ g_mappings[n].virt = v /\ ~g_mappings'[n].used
        /\ \A j \in Slots \ {n} : g_mappings'[j] = g_mappings[j]
    BY <2>1 DEF SlotInv, TypeInv, SlotType, SlotsOf
  <2>5. \A j \in Slots \ {n} : TargetOf(j)' = TargetOf(j)
    BY ZenonT(30), <2>4 DEF TargetOf
  <2>6. SlotInv'
    <3>1. TypeInv'
      <4>1. g_mappings[n] \in SlotType /\ g_mappings \in [Slots -> SlotType]
        BY <2>4 DEF SlotInv, TypeInv
      <4>2. [g_mappings[n] EXCEPT !.used = FALSE] \in SlotType
        BY Zenon, <4>1 DEF SlotType
      <4>3. g_mappings' = [g_mappings EXCEPT ![n] = [g_mappings[n] EXCEPT !.used = FALSE]]
        BY <2>1
      <4> QED BY <2>4, <4>1, <4>2, <4>3 DEF TypeInv
    <3> QED BY <2>4, <2>5, <3>1 DEF SlotInv
  <2>7. Room' = Room + 1
    <3>1. FreeSlots' = FreeSlots \cup {n} /\ n \notin FreeSlots
      BY SMTT(30), <2>4 DEF FreeSlots
    <3> QED BY ZenonT(30), <3>1, SlotsFinite, FS_AddElement DEF Room
  <2>8. /\ Copies(v, k)' = Copies(v, k) \ {n} /\ n \in Copies(v, k)
        /\ \A w, u : ~(w = v /\ u = k) => Copies(w, u)' = Copies(w, u)
    BY <2>2, <2>4, <2>5 DEF Copies, SlotsOf
  <2>9. Cardinality(Copies(v, k)') = Cardinality(Copies(v, k)) - 1
    BY ZenonT(30), <2>8, SlotsFinite, FS_RemoveElement
  <2>10. HeldOf' = [HeldOf EXCEPT ![v][k] = @ - 1]
    <3>1. HeldOf = [w \in Virts |-> [u \in Stock |-> Cardinality(Copies(w, u))]]
          /\ HeldOf' = [w \in Virts |-> [u \in Stock |-> Cardinality(Copies(w, u)')]]
      BY DEF HeldOf, Copies, Stock
    <3>2. HeldOf'[v] = [HeldOf[v] EXCEPT ![k] = @ - 1]
      BY Zenon, <2>3, <2>8, <2>9, <3>1
    <3>3. \A w \in Virts \ {v} : HeldOf'[w] = HeldOf[w]
      BY <2>8, <3>1
    <3>4. HeldOf = [w \in Virts |-> HeldOf[w]] /\ HeldOf' = [w \in Virts |-> HeldOf'[w]]
      BY <3>1
    <3> QED BY <3>2, <3>3, <3>4
  <2> QED BY Zenon, <1>1, <2>1, <2>3, <2>6, <2>7, <2>10, UnmapForm
<1> QED BY <1>2, <1>3

LEMMA TableInit == VmmInit => SlotInv /\ Table!Init
<1> SUFFICES ASSUME VmmInit PROVE SlotInv /\ Table!Init
  OBVIOUS
<1>1. \A n \in Slots : ~g_mappings[n].used
  BY DEF VmmInit
<1>2. SlotInv
  BY Zenon, <1>1 DEF SlotInv, TypeInv, SlotType, VmmInit
<1>3. FreeSlots = Slots /\ \A v : SlotsOf(v) = {}
  BY <1>1 DEF FreeSlots, SlotsOf
<1>4. Room = SlotCount
  <2>1. Cardinality(Slots) = SlotCount
    BY VmmAssumption, FS_Interval DEF Slots
  <2> QED BY <1>3, <2>1 DEF Room
<1>5. HeldOf = [v \in Virts |-> [t \in Stock |-> 0]]
  <2>1. \A v, t : {n \in SlotsOf(v) : TargetOf(n) = t} = {}
    BY <1>3
  <2> QED BY <2>1, FS_EmptySet DEF HeldOf, Stock
<1> QED BY Zenon, <1>2, <1>4, <1>5 DEF Table!Init, Table!Kept, VmmInit, HeldOf, Room, Stock

\* The slot table is a bag of at most SlotCount mappings, for every number of
\* slots and every set of addresses and flags: a map or an unmap of one page
\* changes nothing of another, of a page mapped twice vmm_unmap_page takes one
\* mapping away and leaves the other, vmm_query_page answers with a mapping that
\* is held, and vmm_map_page refuses only what it must.
THEOREM PageMapRefined == VmmSpec => ImplementsPageMap
<1>1. VmmInit => SlotInv /\ Table!Init
  BY TableInit
<1>2. SlotInv /\ [VmmNext]_vmmvars => SlotInv' /\ [Table!Next]_(Table!vars)
  <2> SUFFICES ASSUME SlotInv, [VmmNext]_vmmvars
               PROVE  SlotInv' /\ [Table!Next]_(Table!vars)
    OBVIOUS
  <2>1. ASSUME NEW v \in Virts, NEW phys \in Physs, NEW flags \in Flags, vmm_map_page(v, phys, flags)
        PROVE  SlotInv' /\ Table!Next
    BY <2>1, MapRefines DEF Table!Next
  <2>2. ASSUME NEW v \in Virts, vmm_query_page(v)
        PROVE  SlotInv' /\ Table!Next
    BY <2>2, QueryRefines DEF Table!Next
  <2>3. ASSUME NEW v \in Virts, vmm_unmap_page(v)
        PROVE  SlotInv' /\ Table!Next
    BY <2>3, UnmapRefines DEF Table!Next
  <2>4. CASE UNCHANGED vmmvars
    <3>1. UNCHANGED g_mappings /\ UNCHANGED <<call, ret, out>>
      BY <2>4 DEF vmmvars
    <3> QED BY ZenonT(30), <3>1, TableKept DEF Table!vars, HeldOf, Room
  <2> QED BY <2>1, <2>2, <2>3, <2>4 DEF VmmNext
<1> QED BY <1>1, <1>2, PTL DEF VmmSpec, ImplementsPageMap, Table!Spec
-----------------------------------------------------------------------------
(* The memory functions                                                    *)

\* The target bytes that the loop has written so far.
Written ==
  IF fn = "memmove_down" THEN dest + count .. dest + total - 1
                         ELSE dest .. dest + (total - count) - 1

\* The loop's variables stand where the count says.
MemLoop ==
  /\ fn = "memset" => d = dest + (total - count) /\ s = src
  /\ fn \in {"memcpy", "memmove_up"} /\ count # 0 =>
       d = dest + (total - count) /\ s = src + (total - count)
  /\ fn = "memmove_down" /\ count # 0 => d = dest + count /\ s = src + count

\* The bytes still to be read are not among those written.
MemAhead ==
  /\ fn \in {"memcpy", "memmove_up", "memmove_down"} => src \in 0 .. MemSize - total
  /\ fn = "memcpy" => dest + total <= src \/ src + total <= dest
  /\ fn = "memmove_up" => dest < src
  /\ fn = "memmove_down" => src <= dest
  /\ fn = "none" => total = 0

MemType ==
  /\ mem \in [Cells -> Int]
  /\ fn \in {"none", "memset", "memcpy", "memmove_up", "memmove_down"}
  /\ total \in Nat /\ dest \in 0 .. MemSize - total /\ src \in Int
  /\ count \in 0 .. total

MemInv ==
  /\ MemType /\ MemLoop /\ MemAhead
  /\ \A a \in Cells : mem[a] = IF a \in Written THEN Expected(a) ELSE a

LEMMA MemInvInit == MemInit => MemInv
BY MemoryAssumption
   DEF MemInit, MemInv, MemType, MemLoop, MemAhead, Fresh, Cells, Written, Expected

LEMMA MemInvBegin ==
  ASSUME NEW to \in Cells, NEW n \in 0 .. MemSize - to,
         \/ \E value \in FillValues : memset(to, value, n)
         \/ \E from \in 0 .. MemSize - n : memcpy(to, from, n) \/ memmove(to, from, n)
  PROVE  MemInv'
<1> USE MemoryAssumption DEF Cells
<1>1. ASSUME NEW value \in FillValues, memset(to, value, n)
      PROVE  MemInv'
  BY SMTT(30), <1>1 DEF memset, Begin, Fresh, MemInv, MemType, MemLoop, MemAhead, Written, Expected
<1>2. ASSUME NEW from \in 0 .. MemSize - n, memcpy(to, from, n)
      PROVE  MemInv'
  BY SMTT(30), <1>2 DEF memcpy, Begin, Fresh, MemInv, MemType, MemLoop, MemAhead, Written, Expected
<1>3. ASSUME NEW from \in 0 .. MemSize - n, memmove(to, from, n)
      PROVE  MemInv'
  BY SMTT(30), <1>3 DEF memmove, CopiesUp, Begin, Fresh, MemInv, MemType, MemLoop, MemAhead, Written, Expected
<1> QED BY SMTT(30), <1>1, <1>2, <1>3

LEMMA MemInvCopyByte == MemInv /\ CopyByte => MemInv'
<1> SUFFICES ASSUME MemInv, CopyByte
             PROVE  MemInv'
  BY SMTT(30)
<1> USE MemoryAssumption DEF MemInv, CopyByte, Put, MemType, Cells
<1>1. CASE fn = "memset"
  <2>1. d \in Cells /\ mem' = [mem EXCEPT ![d] = s % 256] /\ s % 256 \in Int
    BY SMTT(30), <1>1 DEF MemLoop
  <2>2. MemType' /\ MemLoop' /\ MemAhead'
    BY SMTT(30), <1>1, <2>1 DEF MemLoop, MemAhead
  <2>3. \A a \in Cells : mem'[a] = IF a \in Written' THEN Expected(a)' ELSE a
    BY SMTT(30), <1>1, <2>1 DEF MemLoop, Written, Expected
  <2> QED BY <2>2, <2>3
<1>2. CASE fn \in {"memcpy", "memmove_up"}
  <2>0. d = dest + (total - count) /\ s = src + (total - count) /\ src \in 0 .. MemSize - total
    BY <1>2 DEF MemLoop, MemAhead
  <2>1. d \in Cells /\ s \in Cells /\ s \notin Written /\ mem' = [mem EXCEPT ![d] = s]
    <3>1. d \in Cells /\ s \in Cells
      BY SMTT(30), <2>0
    <3>2. s \notin Written
      BY SMTT(30), <1>2, <2>0 DEF MemAhead, Written
    <3> QED BY SMTT(30), <1>2, <3>1, <3>2
  <2>2. MemType' /\ MemLoop' /\ MemAhead'
    <3>1. MemType'
      BY SMTT(30), <1>2, <2>1
    <3>2. MemLoop'
      BY SMTT(30), <1>2, <2>0 DEF MemLoop
    <3>3. MemAhead'
      BY SMTT(30), <1>2 DEF MemAhead
    <3> QED BY SMTT(30), <3>1, <3>2, <3>3
  <2>3. \A a \in Cells : mem'[a] = IF a \in Written' THEN Expected(a)' ELSE a
    BY SMTT(30), <1>2, <2>1 DEF MemLoop, Written, Expected
  <2> QED BY <2>2, <2>3
<1>3. CASE fn = "memmove_down"
  <2>1. d - 1 \in Cells /\ s - 1 \in Cells /\ s - 1 \notin Written /\ mem' = [mem EXCEPT ![d - 1] = s - 1]
    BY SMTT(30), <1>3 DEF MemLoop, MemAhead, Written
  <2>2. MemType' /\ MemLoop' /\ MemAhead'
    BY SMTT(30), <1>3, <2>1 DEF MemLoop, MemAhead
  <2>3. \A a \in Cells : mem'[a] = IF a \in Written' THEN Expected(a)' ELSE a
    BY SMTT(30), <1>3, <2>1 DEF MemLoop, Written, Expected
  <2> QED BY <2>2, <2>3
<1> QED BY <1>1, <1>2, <1>3

\* For every size of memory, whichever addresses and count are passed, memset,
\* memcpy on disjoint memory and memmove on any leave the target as if the whole
\* source had been read before the first byte was written.
THEOREM CopiesCorrect == MemSpec => []CopiesAsIfAtOnce
<1>1. MemInv /\ [MemNext]_memvars => MemInv'
  <2> SUFFICES ASSUME MemInv, [MemNext]_memvars
               PROVE  MemInv'
    OBVIOUS
  <2>1. CASE UNCHANGED memvars
    BY <2>1 DEF memvars, MemInv, MemType, MemLoop, MemAhead, Written, Expected, Cells
  <2> QED BY ZenonT(30), <2>1, MemInvBegin, MemInvCopyByte DEF MemNext
<1>2. MemInv => CopiesAsIfAtOnce
  BY DEF MemInv, MemType, MemAhead, Written, Expected, CopiesAsIfAtOnce
<1> QED BY <1>1, <1>2, MemInvInit, PTL DEF MemSpec
=============================================================================
