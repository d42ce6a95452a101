------------------------------- MODULE Traps -------------------------------
(***************************************************************************)
(* The interrupt entry code of isr.S, instruction by instruction, around   *)
(* the paths of x86_64_trap_dispatch.  The breakpoint's gate is a trap     *)
(* gate: it leaves interrupts on, so the timer can come at any instruction *)
(* of its entry code.                                                      *)
(*                                                                         *)
(* The CPU is external: it aligns the stack to two words, pushes five and, *)
(* for some exceptions, an error code.  A register's value at the point of *)
(* interruption is told from what the C code leaves in it.                 *)
(***************************************************************************)
EXTENDS Integers, Sequences

CONSTANT Vectors      \* the vectors that occur

\* The gates that idt.c sets.
ASSUME TrapsAssumption == Vectors \subseteq 0 .. 47

VARIABLES
  regs,      \* the registers
  stack,     \* its top is the last element
  flow,      \* the interruptions in progress, the innermost last
  halted     \* by a panic

trapvars == <<regs, stack, flow, halted>>

Registers == {"rax", "rbx", "rcx", "rdx", "rbp", "rdi", "rsi", "r8", "r9", "r10",
              "r11", "r12", "r13", "r14", "r15"}
CallerSaved == {"rax", "rcx", "rdx", "rdi", "rsi", "r8", "r9", "r10", "r11"}

TrapInit ==
  /\ regs = [r \in Registers |-> <<"own", r>>]
  /\ stack = << >> /\ flow = << >> /\ halted = FALSE

\* The exceptions for which the CPU pushes a code: #DF, #TS, #NP, #SS, #GP, #PF,
\* #AC, #CP, #VC, #SX.
CpuErrorVectors == {8, 10, 11, 12, 13, 14, 17, 21, 29, 30}

TimerVector == 32
Breakpoint  == 3

\* Mutation: control protection exceptions are taken to push no code.
ErrStubsBefore21 == {8} \cup 10 .. 14 \cup {17, 29, 30}

\* The vectors declared with ISR_ERR.
ErrStubs == {8} \cup 10 .. 14 \cup {17, 21, 29, 30}

Op(name, arg) == <<name, arg>>

\* The two macros.
Stub(v) ==
  IF v \in ErrStubs THEN <<Op("push", v)>> ELSE <<Op("push", 0), Op("push", v)>>

Saved == <<"rax", "rbx", "rcx", "rdx", "rbp", "rdi", "rsi", "r8", "r9", "r10",
           "r11", "r12", "r13", "r14", "r15">>

\* Mutation: the registers are popped in the order in which they were pushed.
SameOrder == Saved

Restored == [p \in 1 .. 15 |-> Saved[16 - p]]

isr_common == [p \in 1 .. 33 |->
  CASE p <= 15 -> Op("pushreg", Saved[p])
    [] p = 16 -> Op("call", 0)
    [] p \in 17 .. 31 -> Op("popreg", Restored[p - 16])
    [] p = 32 -> Op("drop", 2)
    [] p = 33 -> Op("iretq", 0)]

\* The instruction at place pc of vector v's entry code.
Code(v, pc) ==
  LET n == Len(Stub(v)) IN IF pc <= n THEN Stub(v)[pc] ELSE isr_common[pc - n]

\* The CPU's frame on a stack st, with the stack pointer to go back to.
Frame(st) ==
  LET aligned == IF Len(st) % 2 = 0 THEN st ELSE Append(st, "pad")
  IN  aligned \o <<"ss", <<"rsp", Len(st)>>, "rflags", "cs", "rip">>

Innermost == flow[Len(flow)]
Outer     == SubSeq(flow, 1, Len(flow) - 1)

\* Interrupts are off inside of every flow but the breakpoint's.
InterruptsOn == \A k \in DOMAIN flow : flow[k].vector = Breakpoint

Interruption(v) ==
  /\ ~halted
  /\ flow = << >> \/ (InterruptsOn /\ v = TimerVector)
  /\ stack' = Frame(stack) \o (IF v \in CpuErrorVectors THEN <<"error">> ELSE << >>)
  /\ flow' = Append(flow, [vector |-> v, pc |-> 1, regs |-> regs, stack |-> stack])
  /\ UNCHANGED <<regs, halted>>

Pop(n) == SubSeq(stack, 1, Len(stack) - n)

\* Exceptions other than the breakpoint end in a panic.
trap_dispatch_returns(v) == v = Breakpoint \/ v \in 32 .. 47

Instruction ==
  /\ flow # << >> /\ ~halted
  /\ LET f    == Innermost
         op   == Code(f.vector, f.pc)
         next == [flow EXCEPT ![Len(flow)].pc = @ + 1]
     IN  \/ /\ op[1] = "push" /\ stack' = Append(stack, op[2])
            /\ flow' = next /\ UNCHANGED <<regs, halted>>
         \/ /\ op[1] = "pushreg" /\ stack' = Append(stack, regs[op[2]])
            /\ flow' = next /\ UNCHANGED <<regs, halted>>
         \/ /\ op[1] = "call"
            /\ halted' = ~trap_dispatch_returns(f.vector)
            /\ regs' = [r \in Registers |-> IF r \in CallerSaved THEN <<"junk">> ELSE regs[r]]
            /\ flow' = next /\ UNCHANGED stack
         \/ /\ op[1] = "popreg" /\ regs' = [regs EXCEPT ![op[2]] = stack[Len(stack)]]
            /\ stack' = Pop(1) /\ flow' = next /\ UNCHANGED halted
         \/ /\ op[1] = "drop" /\ stack' = Pop(op[2])
            /\ flow' = next /\ UNCHANGED <<regs, halted>>
         \/ /\ op[1] = "iretq" /\ stack' = SubSeq(stack, 1, stack[Len(stack) - 3][2])
            /\ flow' = Outer /\ UNCHANGED <<regs, halted>>

TrapNext == (\E v \in Vectors : Interruption(v)) \/ Instruction

TrapSpec == TrapInit /\ [][TrapNext]_trapvars
-----------------------------------------------------------------------------
(* Properties                                                              *)

\* The fields of x86_64_trap_frame_t in order, from the stack pointer up.
Fields == <<"r15", "r14", "r13", "r12", "r11", "r10", "r9", "r8", "rsi", "rdi", "rbp", "rdx",
            "rcx", "rbx", "rax", "vector", "error_code", "rip", "cs", "rflags">>

Field(f, name) ==
  CASE name \in Registers -> f.regs[name]
    [] name = "vector" -> f.vector
    [] name = "error_code" -> IF f.vector \in CpuErrorVectors THEN "error" ELSE 0
    [] OTHER -> name

\* Wherever x86_64_trap_dispatch is called, whether or not the CPU pushed an
\* error code and also when the timer came in the middle of a breakpoint's entry
\* code, the stack is aligned and holds the structure the C code reads.
FrameAsDeclared ==
  flow # << >> /\ Code(Innermost.vector, Innermost.pc)[1] = "call" =>
    /\ Len(stack) % 2 = 0
    /\ \A k \in DOMAIN Fields : stack[Len(stack) + 1 - k] = Field(Innermost, Fields[k])

\* Every interruption that returns gives the interrupted code back its registers
\* and its stack, at whichever instruction it struck.
ReturnsTransparently ==
  [][Len(flow') < Len(flow) => (regs' = Innermost.regs /\ stack' = Innermost.stack)]_trapvars
=============================================================================
