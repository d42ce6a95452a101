-------------------------------- MODULE Vmm --------------------------------
(***************************************************************************)
(* The mapping table of kernel/core/vmm.c: slots that vmm_map_page takes   *)
(* in order and vmm_unmap_page gives back.  The page table arguments are   *)
(* unused by the code, and no hardware table or TLB entry is touched.      *)
(*                                                                         *)
(* A canonical address has its top bits, virt >> 48, all 0 or all 1.  A    *)
(* page that is mapped can be mapped again: both mappings are kept.        *)
(***************************************************************************)
EXTENDS Integers, FiniteSets

CONSTANTS
  SlotCount,      \* 256
  VmmPageSize,    \* VMM_PAGE_SIZE
  Span, Upper,    \* 2^48, and the value of the top bits all set: 0xFFFF
  Virts, Physs,   \* the addresses callers pass
  Flags,          \* the flags callers pass
  Present         \* VMM_PRESENT

ASSUME VmmAssumption ==
  /\ SlotCount \in Nat /\ VmmPageSize \in Nat \ {0} /\ Span \in Nat \ {0} /\ Upper \in Nat
  /\ Virts \subseteq Nat /\ Physs \subseteq Nat

VARIABLES
  g_mappings,    \* the slots
  call,          \* the last call
  ret,           \* what it returned
  out            \* what the last query stored through its pointers

vmmvars == <<g_mappings, call, ret, out>>

Slots == 1 .. SlotCount
NoOut == [phys |-> 0, flags |-> {}]

VmmInit ==
  /\ g_mappings = [i \in Slots |-> [used |-> FALSE, virt |-> 0, phys |-> 0, flags |-> {}]]
  /\ call = << >> /\ ret = FALSE /\ out = NoOut

vmm_is_canonical(virt) == virt \div Span \in {0, Upper}

Reject == ret' = FALSE /\ out' = NoOut /\ UNCHANGED g_mappings

\* Mutation: the frame's address is not checked.
MappableAnyFrame(virt, phys) == vmm_is_canonical(virt) /\ virt % VmmPageSize = 0

Mappable(virt, phys) ==
  vmm_is_canonical(virt) /\ virt % VmmPageSize = 0 /\ phys % VmmPageSize = 0

FreeSlots == {i \in Slots : ~g_mappings[i].used}

\* Mutation: the last slot is taken when none is free.
TakesLast(i) == IF FreeSlots = {} THEN i = SlotCount ELSE i \in FreeSlots /\ \A j \in FreeSlots : i <= j

Takes(i) == i \in FreeSlots /\ \A j \in FreeSlots : i <= j

\* The used slots for virt; the loops of query and unmap stop at the first.
SlotsOf(virt) == {i \in Slots : g_mappings[i].used /\ g_mappings[i].virt = virt}
IsFirst(i, virt) == i \in SlotsOf(virt) /\ \A j \in SlotsOf(virt) : i <= j

vmm_map_page(virt, phys, flags) ==
  /\ call' = <<"map", virt, [phys |-> phys, flags |-> flags]>>
  /\ IF Mappable(virt, phys) /\ \E i \in Slots : Takes(i)
     THEN \E i \in Slots :
            /\ Takes(i)
            /\ g_mappings' = [g_mappings EXCEPT ![i] =
                 [used |-> TRUE, virt |-> virt, phys |-> phys, flags |-> flags \cup {Present}]]
            /\ ret' = TRUE /\ out' = NoOut
     ELSE Reject

TargetOf(i) == [phys |-> g_mappings[i].phys, flags |-> g_mappings[i].flags]

vmm_query_page(virt) ==
  /\ call' = <<"query", virt>>
  /\ \/ SlotsOf(virt) = {} /\ Reject
     \/ \E i \in Slots :
          /\ IsFirst(i, virt)
          /\ ret' = TRUE /\ out' = TargetOf(i)
          /\ UNCHANGED g_mappings

vmm_unmap_page(virt) ==
  /\ call' = <<"unmap", virt>>
  /\ \/ SlotsOf(virt) = {} /\ Reject
     \/ \E i \in Slots :
          /\ IsFirst(i, virt)
          /\ g_mappings' = [g_mappings EXCEPT ![i].used = FALSE]
          /\ ret' = TRUE /\ out' = NoOut

VmmNext ==
  \E virt \in Virts :
    \/ \E phys \in Physs, flags \in Flags : vmm_map_page(virt, phys, flags)
    \/ vmm_query_page(virt)
    \/ vmm_unmap_page(virt)

VmmSpec == VmmInit /\ [][VmmNext]_vmmvars
-----------------------------------------------------------------------------
(* Properties                                                              *)

\* Slots are reused in any order of unmaps, and every slot in use still holds
\* an aligned frame, marked present, for an aligned canonical page.
SlotsSound ==
  \A i \in Slots : g_mappings[i].used =>
    /\ vmm_is_canonical(g_mappings[i].virt)
    /\ g_mappings[i].virt % VmmPageSize = 0 /\ g_mappings[i].phys % VmmPageSize = 0
    /\ Present \in g_mappings[i].flags

Targets == [phys : Physs, flags : Flags]
WithPresent(t)   == [phys |-> t.phys, flags |-> t.flags \cup {Present}]
MappableTo(v, t) == Mappable(v, t.phys)

Table == INSTANCE PageMap WITH
  Pages <- Virts,
  Stored <- WithPresent,
  Admitted <- MappableTo,
  Limit <- SlotCount,
  held <- [v \in Virts |-> [t \in {WithPresent(t) : t \in Targets} |->
             Cardinality({i \in SlotsOf(v) : TargetOf(i) = t})]],
  room <- Cardinality(FreeSlots)

\* The slot table implements PageMap: at the table's limit too, a map, a remap
\* or an unmap of one page changes nothing of another; of a page mapped twice
\* both mappings are kept, a query answers with one of them and an unmap takes
\* one away; and a map is refused only when it must be.
ImplementsPageMap == Table!Spec
=============================================================================
