-------------------------------- MODULE Pmm --------------------------------
(***************************************************************************)
(* The bitmap allocator of physical frames, kernel/core/pmm.c, under a     *)
(* caller that passes any address and any range.  Calls do not overlap:    *)
(* the PMM is used with interrupts off, so a call is one step.             *)
(*                                                                         *)
(* used is the bitmap, as the set of the frames whose bit is set.  The two *)
(* counters are unsigned words and wrap at WordSize.  next_hint is only    *)
(* ever set to 0 and is left out.                                          *)
(***************************************************************************)
EXTENDS Integers, FiniteSets, Sequences

CONSTANTS
  FrameCount,   \* max_phys_bytes / PMM_PAGE_SIZE
  ByteBits,     \* bits of the bitmap per byte: 8
  PageSize,     \* PMM_PAGE_SIZE
  WordSize,     \* 2^64
  Maps,         \* the boot memory maps: sequences of regions
  Phys,         \* the addresses callers free
  Ranges        \* the <<base, length>> pairs callers reserve

Region == [base : Nat, length : Nat, usable : BOOLEAN]

ASSUME PmmAssumption ==
  /\ FrameCount \in Nat /\ ByteBits \in Nat /\ PageSize \in Nat /\ WordSize \in Nat
  /\ 0 < ByteBits /\ ByteBits <= FrameCount /\ 0 < PageSize
  /\ FrameCount * PageSize < WordSize
  /\ Maps \subseteq Seq(Region)
  /\ Phys \subseteq Nat
  /\ Ranges \subseteq Nat \X Nat

VARIABLES
  used, free_frames, used_frames, initialized,  \* struct pmm_state
  map                                           \* the regions it was built from

vars == <<used, free_frames, used_frames, initialized, map>>

PMM_INVALID_FRAME == WordSize - 1

Frames == 0 .. (FrameCount - 1)
Clear  == Frames \ used

\* Unsigned subtraction and addition.
Minus(a, n) == IF n <= a THEN a - n ELSE a + WordSize - n
Plus(a, n)  == IF a + n < WordSize THEN a + n ELSE a + n - WordSize

\* The frames that a loop over base and length visits.
FramesOf(base, length) ==
  {f \in Frames : /\ f >= base \div PageSize
                  /\ f < base \div PageSize + length \div PageSize}

\* The frames whose bit the whole-byte fill of init sets.
Filled == {f \in Frames : f < ByteBits * (FrameCount \div ByteBits)}
Tail0  == Frames \ Filled

\* Mutation: the type of a region is not looked at.
OpenedAnyType(m) ==
  {f \in Frames : \E r \in DOMAIN m : f \in FramesOf(m[r].base, m[r].length)}

\* The frames of the usable regions of m.
Opened(m) ==
  {f \in Frames : \E r \in DOMAIN m :
                    m[r].usable /\ f \in FramesOf(m[r].base, m[r].length)}

Init ==
  /\ used = {}
  /\ free_frames = 0 /\ used_frames = 0
  /\ initialized = FALSE
  /\ map = << >>

\* Every bit set, usable regions cleared, frame 0 set again.  The counters
\* are moved for frame 0 whether or not a region had cleared its bit.
pmm_init_from_map(m) ==
  LET opened == Filled \cap Opened(m) IN
  /\ ~initialized
  /\ used' = (Filled \ opened) \cup {0}
  /\ free_frames' = Minus(Cardinality(opened), 1)
  /\ used_frames' = Plus(FrameCount - Cardinality(opened), 1)
  /\ initialized' = TRUE
  /\ map' = m
-----------------------------------------------------------------------------
\* Mutation: the frame stays free.
TakeLeavesBit(f) ==
  /\ free_frames' = Minus(free_frames, 1)
  /\ used_frames' = Plus(used_frames, 1)
  /\ UNCHANGED used

Take(f) ==
  /\ used' = used \cup {f}
  /\ free_frames' = Minus(free_frames, 1)
  /\ used_frames' = Plus(used_frames, 1)

\* The first clear bit from frame 0 on; returns the frame's address.
pmm_alloc_frame(phys) ==
  /\ initialized
  /\ \/ \E f \in Clear : /\ \A g \in Clear : f <= g
                         /\ phys = f * PageSize
                         /\ Take(f)
     \/ /\ Clear = {}
        /\ phys = PMM_INVALID_FRAME
        /\ UNCHANGED <<used, free_frames, used_frames>>
  /\ UNCHANGED <<initialized, map>>

\* Mutation: a frame that is free already is freed again.
MayFreeTwice(phys) == phys % PageSize = 0 /\ phys \div PageSize < FrameCount

MayFree(phys) ==
  /\ phys % PageSize = 0
  /\ phys \div PageSize < FrameCount
  /\ phys \div PageSize \in used

pmm_free_frame(phys) ==
  /\ initialized
  /\ IF MayFree(phys)
     THEN /\ used' = used \ {phys \div PageSize}
          /\ free_frames' = Plus(free_frames, 1)
          /\ used_frames' = Minus(used_frames, 1)
     ELSE UNCHANGED <<used, free_frames, used_frames>>
  /\ UNCHANGED <<initialized, map>>

NewlyReserved(base, length) == FramesOf(base, length) \ used

pmm_reserve_range(base, length) ==
  LET n == Cardinality(NewlyReserved(base, length)) IN
  /\ initialized
  /\ used' = used \cup FramesOf(base, length)
  /\ free_frames' = Minus(free_frames, n)
  /\ used_frames' = Plus(used_frames, n)
  /\ UNCHANGED <<initialized, map>>

pmm_is_frame_free(phys) ==
  phys \div PageSize < FrameCount /\ phys \div PageSize \notin used
-----------------------------------------------------------------------------
Returned == {f * PageSize : f \in Frames} \cup {PMM_INVALID_FRAME}

Next ==
  \/ \E m \in Maps : pmm_init_from_map(m)
  \/ \E phys \in Returned : pmm_alloc_frame(phys)
  \/ \E phys \in Phys : pmm_free_frame(phys)
  \/ \E r \in Ranges : pmm_reserve_range(r[1], r[2])

Spec == Init /\ [][Next]_vars
-----------------------------------------------------------------------------
(* Properties                                                              *)

\* The type invariant of the bitmap, the counters and the memory map.
TypeOK ==
  /\ used \subseteq Frames
  /\ free_frames \in 0 .. (WordSize - 1)
  /\ used_frames \in 0 .. (WordSize - 1)
  /\ initialized \in BOOLEAN
  /\ map \in Maps \cup {<< >>}

\* free_frames + used_frames is frame_count in unsigned arithmetic, through
\* every alloc, free, double free and overlapping reservation.
CountersSum ==
  initialized => free_frames + used_frames \in {FrameCount, FrameCount + WordSize}

\* The frames that free_frames misses: those beyond the last whole byte of the
\* bitmap, which init never counts, and one more when frame 0 was not usable.
Missed == Cardinality(Tail0) + (IF 0 \in Opened(map) THEN 0 ELSE 1)

\* free_frames is the number of clear bits less what init missed, for ever: no
\* sequence of calls, rejected ones included, adds to the error or mends it.
FreeCountTracksBitmap ==
  initialized =>
    free_frames + Missed \in {Cardinality(Clear), Cardinality(Clear) + WordSize}

=============================================================================
