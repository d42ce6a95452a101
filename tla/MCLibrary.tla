----------------------------- MODULE MCLibrary -----------------------------
(***************************************************************************)
(* The parts that are called from one flow of control and share no state:  *)
(* the mapping table, the load planner, the RAM block device, the memory   *)
(* functions and the interrupt entry code.  A behaviour uses one of them,  *)
(* and leaves the others untouched.                                        *)
(***************************************************************************)
EXTENDS Vmm, Elf, RamBlock, Memory, Traps

\* Pages of two bytes, eight bytes to each value of the top bits.
MCVirts == {2, 3, 10, 24}        \* 3 is unaligned, 10 not canonical, 24 high
MCFlags == {{"W"}}

\* Headers at and beyond the boundary of every check, for images of 8 bytes and
\* a user base of 4; words are of four bits.
Good == [load |-> TRUE, offset |-> 2, filesz |-> 2, memsz |-> 2, align |-> 4, vaddr |-> 4]
MCPhdrs ==
  {Good, [Good EXCEPT !.load = FALSE, !.align = 0], [Good EXCEPT !.memsz = 1],
   [Good EXCEPT !.offset = 6], [Good EXCEPT !.offset = 7], [Good EXCEPT !.offset = 15],
   [Good EXCEPT !.align = 0], [Good EXCEPT !.align = 1], [Good EXCEPT !.align = 6],
   [Good EXCEPT !.align = 8], [Good EXCEPT !.vaddr = 3]}
MCImages ==
  {[size |-> 8, magic |-> TRUE, machine |-> TRUE, entry |-> 4, phoff |-> 3, phdrs |-> p] :
     p \in UNION {[1 .. n -> MCPhdrs] : n \in 0 .. 2}}
  \cup {[size |-> z, magic |-> g, machine |-> m, entry |-> e, phoff |-> o, phdrs |-> <<Good, Good>>] :
          z \in {2, 8}, g \in BOOLEAN, m \in BOOLEAN, e \in {3, 5}, o \in {4, 5}}

\* An area of two blocks, a byte that belongs to none, and an area of one block.
MCAreaBlocks == <<2, 1>>
MCBaseOf == <<1, 6>>
MCBuffers == {<<1, 2>>, <<2, 1>>}

MCFillValues == {-1, 300}    \* ints that are no bytes

MCVectors == 0 .. 47

allvars == <<vmmvars, elfvars, blockvars, memvars, trapvars>>

LibInit == VmmInit /\ ElfInit /\ BlockInit /\ MemInit /\ TrapInit

LibNext ==
  \/ ElfInit /\ BlockInit /\ MemInit /\ TrapInit
     /\ VmmNext /\ UNCHANGED <<elfvars, blockvars, memvars, trapvars>>
  \/ VmmInit /\ BlockInit /\ MemInit /\ TrapInit
     /\ ElfNext /\ UNCHANGED <<vmmvars, blockvars, memvars, trapvars>>
  \/ VmmInit /\ ElfInit /\ MemInit /\ TrapInit
     /\ BlockNext /\ UNCHANGED <<vmmvars, elfvars, memvars, trapvars>>
  \/ VmmInit /\ ElfInit /\ BlockInit /\ TrapInit
     /\ MemNext /\ UNCHANGED <<vmmvars, elfvars, blockvars, trapvars>>
  \/ VmmInit /\ ElfInit /\ BlockInit /\ MemInit
     /\ TrapNext /\ UNCHANGED <<vmmvars, elfvars, blockvars, memvars>>

LibSpec == LibInit /\ [][LibNext]_allvars
=============================================================================
