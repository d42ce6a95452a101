-------------------------------- MODULE Elf --------------------------------
(***************************************************************************)
(* The load planner m11_elf64_plan_load: the checks of the ELF header, then*)
(* one step per program header.  The caller passes image after image and   *)
(* may reuse one plan for all of them.                                     *)
(*                                                                         *)
(* Sums are taken modulo WordSize, as uint64_t wraps.  An image is what    *)
(* its bytes decode to; its table of program headers, at least, does not   *)
(* wrap, since then the code would read outside of the image.              *)
(***************************************************************************)
EXTENDS Integers, Sequences, FiniteSets

CONSTANTS
  WordSize,                  \* 2^64
  EhdrSize, PhdrSize,        \* 26 and 44
  UserBase,                  \* 0x400000
  Images                     \* the images callers pass

Word == 0 .. WordSize - 1
Phdr == [load : BOOLEAN, offset : Word, filesz : Word, memsz : Word, align : Word, vaddr : Word]
Ehdr == [size : Word, magic : BOOLEAN, machine : BOOLEAN, entry : Word, phoff : Word,
         phdrs : Seq(Phdr)]

ASSUME ElfAssumption ==
  /\ WordSize \in Nat \ {0} /\ EhdrSize \in Nat /\ PhdrSize \in Nat /\ UserBase \in Nat
  /\ Images \subseteq Ehdr /\ Images # {}
  /\ \A im \in Images : im.phoff + Len(im.phdrs) * PhdrSize < WordSize

VARIABLES
  image,     \* the image being planned, or the last one
  plan,      \* the caller's plan
  before,    \* observed: the plan when the call began
  i,         \* the loop's header; 0 outside of the loop
  status     \* of the last call; "none" during a call

elfvars == <<image, plan, before, i, status>>

ElfInit ==
  /\ plan = [entry |-> 0, segment_count |-> 0] /\ before = plan
  /\ image \in {CHOOSE im \in Images : TRUE}
  /\ i = 0 /\ status = "idle"

Wrap(n) == n % WordSize

\* The early returns before the plan is touched; a null image answers like one
\* without the magic number.
HeaderStatus(im) ==
  CASE im.size < EhdrSize \/ ~im.magic -> "MAGIC"
    [] ~im.machine -> "MACHINE"
    [] im.entry < UserBase -> "ENTRY"
    [] Wrap(im.phoff + Len(im.phdrs) * PhdrSize) > im.size -> "SEGBOUNDS"
    [] OTHER -> "OK"

plan_begin(im) ==
  /\ i = 0
  /\ image' = im /\ before' = plan
  /\ IF HeaderStatus(im) = "OK"
     THEN /\ plan' = [entry |-> im.entry, segment_count |-> 0]
          /\ i' = 1 /\ status' = "none"
     ELSE status' = HeaderStatus(im) /\ UNCHANGED <<plan, i>>

\* Mutation: only the lowest bit of the mask is looked at.
OddOrOne(a) == a = 1 \/ a % 2 = 0

\* Only 1 divides it but even numbers.
PowerOfTwo(n) == n > 0 /\ \A c \in 2 .. n : n % c = 0 => c % 2 = 0

\* The bit of weight w, a power of two.
Bit(n, w) == (n \div w) % 2 = 1

\* align & (align - 1) is zero: no bit is set in both.
NoMaskBit(a) == \A w \in 1 .. a : PowerOfTwo(w) => ~(Bit(a, w) /\ Bit(a - 1, w))

\* The checks of one loadable segment, in the code's order.
SegmentStatus(seg, size) ==
  CASE seg.memsz < seg.filesz -> "SEGBOUNDS"
    [] Wrap(seg.offset + seg.filesz) > size -> "SEGBOUNDS"
    [] seg.align = 0 -> "ALIGN"
    [] ~NoMaskBit(seg.align) -> "ALIGN"
    [] seg.vaddr < UserBase -> "SEGRANGE"
    [] OTHER -> "OK"

\* Mutation: the segment is counted before it is checked.
CountsFirst(s) == 1

Counted(s) == IF s = "OK" THEN 1 ELSE 0

plan_segment ==
  LET seg == image.phdrs[i]
      s   == SegmentStatus(seg, image.size)
  IN  /\ i \in DOMAIN image.phdrs
      /\ UNCHANGED <<image, before>>
      /\ IF ~seg.load
         THEN i' = i + 1 /\ UNCHANGED <<plan, status>>
         ELSE /\ plan' = [plan EXCEPT !.segment_count = @ + Counted(s)]
              /\ IF s = "OK" THEN i' = i + 1 /\ UNCHANGED status
                 ELSE i' = 0 /\ status' = s

plan_end ==
  /\ i = Len(image.phdrs) + 1
  /\ i' = 0 /\ status' = "OK"
  /\ UNCHANGED <<image, plan, before>>

ElfNext == (\E im \in Images : plan_begin(im)) \/ plan_segment \/ plan_end

ElfSpec == ElfInit /\ [][ElfNext]_elfvars
-----------------------------------------------------------------------------
(* Properties                                                              *)

Loads(im) == {k \in DOMAIN im.phdrs : im.phdrs[k].load}

\* What a valid image is, over the natural numbers.
Valid(im) ==
  /\ im.size >= EhdrSize /\ im.magic /\ im.machine /\ im.entry >= UserBase
  /\ im.phoff + Len(im.phdrs) * PhdrSize <= im.size
  /\ \A k \in Loads(im) : LET seg == im.phdrs[k] IN
       /\ seg.offset + seg.filesz <= im.size /\ seg.filesz <= seg.memsz
       /\ PowerOfTwo(seg.align) /\ seg.vaddr >= UserBase

NoneWraps(im) ==
  \A k \in Loads(im) : im.phdrs[k].offset + im.phdrs[k].filesz < WordSize

\* The planner accepts exactly the valid images, whatever the headers that are
\* not loadable say, among the images none of whose segment sums wraps.
AcceptsExactlyValid ==
  i = 0 /\ status # "idle" /\ NoneWraps(image) => (status = "OK" <=> Valid(image))

\* A plan that was accepted describes its own image and nothing of an earlier
\* one; one that was refused is as it was before the call, or tells by its
\* count that segments are missing.
PlanTellsOutcome ==
  i = 0 /\ status # "idle" =>
    IF status = "OK"
    THEN plan = [entry |-> image.entry, segment_count |-> Cardinality(Loads(image))]
    ELSE \/ plan = before
         \/ plan.entry = image.entry /\ plan.segment_count < Cardinality(Loads(image))
=============================================================================
