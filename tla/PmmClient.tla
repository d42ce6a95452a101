----------------------------- MODULE PmmClient -----------------------------
(***************************************************************************)
(* The frame allocator under callers that keep its contract: a caller may  *)
(* free an address the allocator rejects, but of the frames in use only    *)
(* one it allocated, and a range is reserved while nobody holds a frame of *)
(* it.                                                                     *)
(***************************************************************************)
EXTENDS Pmm

CONSTANT Owners

VARIABLES
  held,       \* the frames each owner allocated and has not freed
  reserved    \* the frames of the ranges reserved since boot

clientVars == <<vars, held, reserved>>

ClientInit == Init /\ held = [o \in Owners |-> {}] /\ reserved = {}

Boot(m) == pmm_init_from_map(m) /\ UNCHANGED <<held, reserved>>

Alloc(o, phys) ==
  /\ pmm_alloc_frame(phys)
  /\ held' = IF phys = PMM_INVALID_FRAME THEN held
             ELSE [held EXCEPT ![o] = @ \cup {phys \div PageSize}]
  /\ UNCHANGED reserved

\* The owner gives the frame up when the call returns true.
Free(o, phys) ==
  LET f == phys \div PageSize IN
  /\ f \in used => f \in held[o]
  /\ pmm_free_frame(phys)
  /\ held' = IF f \in used' THEN held ELSE [held EXCEPT ![o] = @ \ {f}]
  /\ UNCHANGED reserved

Reserve(base, length) ==
  /\ \A o \in Owners : FramesOf(base, length) \cap held[o] = {}
  /\ pmm_reserve_range(base, length)
  /\ reserved' = reserved \cup FramesOf(base, length)
  /\ UNCHANGED held

ClientNext ==
  \/ \E m \in Maps : Boot(m)
  \/ \E o \in Owners, phys \in Returned : Alloc(o, phys)
  \/ \E o \in Owners, phys \in Phys : Free(o, phys)
  \/ \E r \in Ranges : Reserve(r[1], r[2])

ClientSpec == ClientInit /\ [][ClientNext]_clientVars
-----------------------------------------------------------------------------
\* The frames that were not usable at boot.
Closed == (Filled \ Opened(map)) \cup {0}

\* Every frame is in exactly one place: closed at boot or reserved, held by one
\* owner, or free.  No frame has two owners, no owner holds frame 0 or a
\* reserved frame, and no used frame is lost to everyone.
FramesPartitioned ==
  initialized =>
    /\ used = Closed \cup reserved \cup UNION {held[o] : o \in Owners}
    /\ \A o \in Owners : held[o] \cap (Closed \cup reserved) = {}
    /\ \A o, p \in Owners : o # p => held[o] \cap held[p] = {}

\* The regions of the memory map that no usable region touches.
FencedOff(m) ==
  {r \in DOMAIN m :
     /\ ~m[r].usable
     /\ \A q \in DOMAIN m : m[q].usable =>
          FramesOf(m[q].base, m[q].length) \cap FramesOf(m[r].base, m[r].length) = {}}

\* No owner is ever given a frame of a non-usable region of the boot map, after
\* any sequence of allocations, frees and reservations.  Init does not visit
\* non-usable regions, so this is not so of a region that a usable one overlaps,
\* nor of the frames beyond the last whole byte of the bitmap.
NonUsableNeverHeld ==
  \A r \in FencedOff(map), o \in Owners :
    held[o] \cap FramesOf(map[r].base, map[r].length) \cap Filled = {}
=============================================================================
