------------------------------- MODULE Kernel ------------------------------
(***************************************************************************)
(* The running kernel: kmain boots (kernel/core/kmain.c), creates threads  *)
(* (kernel/core/thread.c) on the heap of Kmem, enables the timer interrupt *)
(* (idt.c, pic.c, pit.c, trap.c) and yields to the threads for ever.       *)
(*                                                                         *)
(* thread_yield calls the next thread's entry function, which never        *)
(* returns: every turn leaves its frames on the boot stack, and the        *)
(* function called last is in control.  When the stack is full the next    *)
(* call overruns it, and what happens then is not modelled.  The log, the  *)
(* PMM, the VMM and the lock self-test share no state with the rest and    *)
(* have modules of their own.                                              *)
(*                                                                         *)
(* An interrupt comes between any two steps, also inside kmalloc's search, *)
(* once IF is set.  The interrupt controller and timer chips are external. *)
(***************************************************************************)
EXTENDS Kmem, Sequences

CONSTANTS
  Entries,      \* the entry functions kmain passes to thread_create, in order
  Work,         \* of each entry function, the bytes it allocates per turn, or 0
  MaxThreads,   \* MAX_THREADS
  StackSize,    \* THREAD_STACK_SIZE
  ProbeSize,    \* bytes that m8_heap_bootstrap allocates and frees
  StackFrames   \* calls that fit on the stack the boot loader provides

ASSUME KernelAssumption ==
  /\ MaxThreads \in Nat /\ StackSize \in Nat \ {0} /\ ProbeSize \in Nat \ {0}
  /\ StackFrames \in Nat \ {0}
  /\ Work \in [DOMAIN Work -> Nat]
  /\ Entries \in Seq(DOMAIN Work) /\ Entries # << >>

\* The sizes of the allocations of a turn, and the bytes that turns of two
\* sizes take from the end of the heap at most, headers included, before each
\* finds a block that an earlier turn has freed.
TurnSizes == {Work[e] : e \in DOMAIN Work}
TurnRoom(s, l) == (s + Header) + 3 * (l + Header)

EnoughFor(s, l) ==
  /\ s <= l /\ \A w \in TurnSizes : w \in {0, s, l}
  /\ Arena > (ProbeSize + Header) + Len(Entries) * (StackSize + Header) + TurnRoom(s, l) + Header

\* kmain's threads fit the table, and the heap has room for them.
ASSUME RoomAssumption ==
  /\ Len(Entries) <= MaxThreads
  /\ \E p \in TurnSizes \X TurnSizes : EnoughFor(p[1], p[2])

VARIABLES
  at,                        \* where the main flow of control stands
  threads, current_thread,   \* the created threads, and the index yield moves
  boot_stack,                \* the functions entered and not returned from
  panicked,                  \* kernel_panic_at was reached
  IF_, idt,                  \* the interrupt flag; whether the IDT is loaded
  offset, masked,            \* the vector of IRQ 0, and whether it is masked
  pending, in_service,       \* the controller's request and in-service bits
  irq                        \* the interrupt handler's place, or "none"

sched == <<threads, current_thread, boot_stack>>
chips == <<offset, masked, pending, in_service>>
cpu   == <<IF_, idt, irq>>
kvars == <<vars, at, sched, panicked, chips, cpu>>

PIC_MASTER_OFFSET == 32
BiosOffset == 8      \* the vector of IRQ 0 before pic_remap

\* Control has entered kmain.  The boot loader has interrupts off; how it left
\* the controller's mask is not known.
KInit ==
  /\ Init
  /\ at = "cli" /\ threads = << >> /\ current_thread = 0
  /\ boot_stack = <<"kmain">>
  /\ panicked = FALSE
  /\ IF_ = FALSE /\ idt = FALSE /\ irq = "none"
  /\ offset = BiosOffset /\ masked \in BOOLEAN
  /\ pending = FALSE /\ in_service = FALSE

\* The main flow moves from a to b: no handler runs and no kmalloc is open.
Goto(a, b) == irq = "none" /\ ~panicked /\ pc = "idle" /\ at = a /\ at' = b

\* KERNEL_ASSERT(ok): a panic turns interrupts off and halts.
KernelAssert(ok) == panicked' = ~ok /\ IF_' = (IF_ /\ ok)

AssertRet == KernelAssert(ret # Null) /\ UNCHANGED <<idt, irq>>
-----------------------------------------------------------------------------
(* kmain                                                                   *)

cpu_cli ==
  /\ Goto("cli", "heap") /\ IF_' = FALSE
  /\ UNCHANGED <<vars, sched, panicked, chips, idt, irq>>

m8_heap_bootstrap ==
  \/ /\ Goto("heap", "probe") /\ kmem_init
     /\ UNCHANGED <<sched, panicked, chips, cpu>>
  \/ /\ Goto("probe", "probe_done") /\ kmalloc(ProbeSize)
     /\ UNCHANGED <<sched, panicked, chips, cpu>>
  \/ /\ Goto("probe_done", IF ret = Null THEN "halt" ELSE "probe_free") /\ AssertRet
     /\ UNCHANGED <<vars, sched, chips>>
  \/ /\ Goto("probe_free", "create") /\ kfree(<<ret, ProbeSize>>)
     /\ UNCHANGED <<sched, panicked, chips, cpu>>

\* thread_create for the next entry, and kmain's assertion that it succeeded.
thread_create ==
  LET n == Len(threads) IN
  \/ /\ n < Len(Entries)
     /\ IF n >= MaxThreads
        THEN Goto("create", "halt") /\ KernelAssert(FALSE) /\ UNCHANGED vars
        ELSE Goto("create", "created") /\ kmalloc(StackSize) /\ UNCHANGED <<panicked, IF_>>
     /\ UNCHANGED <<sched, chips, idt, irq>>
  \/ /\ Goto("created", IF ret = Null THEN "halt" ELSE "create") /\ AssertRet
     /\ threads' = IF ret = Null THEN threads
                   ELSE Append(threads, [entry |-> Entries[n + 1], stack |-> ret])
     /\ UNCHANGED <<vars, current_thread, boot_stack, chips>>
  \/ /\ n = Len(Entries) /\ Goto("create", "idt")
     /\ UNCHANGED <<vars, sched, panicked, chips, cpu>>

x86_64_idt_init ==
  /\ Goto("idt", "remap") /\ idt' = TRUE
  /\ UNCHANGED <<vars, sched, panicked, chips, IF_, irq>>

\* Mutation: the controller keeps the vectors it booted with.
RemapForgotten == BiosOffset

RemapTo == PIC_MASTER_OFFSET

\* The initialisation sequence clears the request and in-service bits.
pic_remap ==
  /\ Goto("remap", "mask") /\ offset' = RemapTo
  /\ pending' = FALSE /\ in_service' = FALSE
  /\ UNCHANGED <<vars, sched, panicked, masked, cpu>>

pic_mask_all ==
  /\ Goto("mask", "unmask") /\ masked' = TRUE
  /\ UNCHANGED <<vars, sched, panicked, offset, pending, in_service, cpu>>

\* pic_unmask_irq(0), then pit_configure_hz.
pic_unmask_irq ==
  /\ Goto("unmask", "sti") /\ masked' = FALSE
  /\ UNCHANGED <<vars, sched, panicked, offset, pending, in_service, cpu>>

cpu_sti ==
  /\ Goto("sti", "yield") /\ IF_' = TRUE
  /\ UNCHANGED <<vars, sched, panicked, chips, idt, irq>>
-----------------------------------------------------------------------------
(* The threads                                                             *)

\* Mutation: the last thread is never reached.
WrapEarly(n) == IF n >= Len(threads) - 1 THEN 0 ELSE n

Wrap(n) == IF n >= Len(threads) THEN 0 ELSE n

thread_yield ==
  \/ /\ Len(boot_stack) < StackFrames /\ Goto("yield", "turn")
     /\ current_thread' = Wrap(current_thread + 1)
     /\ boot_stack' = Append(boot_stack, threads[current_thread' + 1].entry)
     /\ UNCHANGED <<vars, threads, panicked, chips, cpu>>
  \/ /\ Len(boot_stack) = StackFrames /\ Goto("yield", "overrun")
     /\ UNCHANGED <<vars, sched, panicked, chips, cpu>>

running == boot_stack[Len(boot_stack)]

\* Mutation: the thread keeps what it allocated.
KeepAllocation == UNCHANGED vars

GiveBack == kfree(<<ret, Work[running]>>)

\* One turn of thread_a or thread_b; thread_c and thread_d only yield.
Turn ==
  \/ /\ Goto("turn", "yield") /\ Work[running] = 0
     /\ UNCHANGED <<vars, sched, panicked, chips, cpu>>
  \/ /\ Goto("turn", "turn_done") /\ Work[running] > 0 /\ kmalloc(Work[running])
     /\ UNCHANGED <<sched, panicked, chips, cpu>>
  \/ /\ Goto("turn_done", IF ret = Null THEN "halt" ELSE "turn_free") /\ AssertRet
     /\ UNCHANGED <<vars, sched, chips>>
  \/ /\ Goto("turn_free", "yield") /\ GiveBack
     /\ UNCHANGED <<sched, panicked, chips, cpu>>

\* kmalloc's loop, on behalf of whoever called it.
Search ==
  /\ irq = "none" /\ ~panicked /\ Walk
  /\ UNCHANGED <<at, sched, panicked, chips, cpu>>
-----------------------------------------------------------------------------
(* The timer                                                               *)

\* The timer chip raises IRQ 0; a request that is pending already is lost.
Tick ==
  /\ pending' = TRUE
  /\ UNCHANGED <<vars, at, sched, panicked, offset, masked, in_service, cpu>>

\* The CPU takes IRQ 0.  A vector below the IRQ range is dispatched as an
\* exception, and without an IDT the machine is lost: both count as a panic.
Interrupt ==
  /\ irq = "none" /\ ~panicked
  /\ IF_ /\ pending /\ ~masked /\ ~in_service
  /\ pending' = FALSE /\ in_service' = TRUE
  /\ IF idt /\ offset = PIC_MASTER_OFFSET
     THEN irq' = "timer" /\ UNCHANGED panicked
     ELSE panicked' = TRUE /\ UNCHANGED irq
  /\ IF_' = FALSE
  /\ UNCHANGED <<vars, at, sched, offset, masked, idt>>

timer_on_irq0 ==
  /\ irq = "timer" /\ irq' = "eoi"
  /\ UNCHANGED <<vars, at, sched, panicked, chips, IF_, idt>>

\* Mutation: the controller is not told that the interrupt was served.
EoiForgotten == in_service

AfterEoi == FALSE

pic_send_eoi ==
  /\ irq = "eoi" /\ irq' = "iret"
  /\ in_service' = AfterEoi
  /\ UNCHANGED <<vars, at, sched, panicked, offset, masked, pending, IF_, idt>>

\* iretq restores the flag that was set when the interrupt was taken.
isr_common ==
  /\ irq = "iret" /\ irq' = "none" /\ IF_' = TRUE
  /\ UNCHANGED <<vars, at, sched, panicked, chips, idt>>

x86_64_trap_dispatch == timer_on_irq0 \/ pic_send_eoi \/ isr_common
-----------------------------------------------------------------------------
kmain ==
  \/ cpu_cli \/ m8_heap_bootstrap \/ thread_create \/ x86_64_idt_init
  \/ pic_remap \/ pic_mask_all \/ pic_unmask_irq \/ cpu_sti

Main == kmain \/ thread_yield \/ Turn \/ Search

KNext == Main \/ Tick \/ Interrupt \/ x86_64_trap_dispatch

\* The timer ticks and is served, a handler ends, and the main flow makes
\* progress between interrupts: a handler is far shorter than a tick.
KSpec ==
  /\ KInit /\ [][KNext]_kvars
  /\ SF_kvars(Main) /\ WF_kvars(Tick) /\ SF_kvars(Interrupt)
  /\ WF_kvars(x86_64_trap_dispatch)
-----------------------------------------------------------------------------
(* Properties                                                              *)

\* kernel_panic_at is never reached: no allocation of kmain or a thread fails,
\* however the heap has been split by the turns before, and no interrupt is
\* taken before the IDT is loaded or at an exception's vector.
NoPanic == ~panicked

\* Every thread's stack stays a live allocation of its own while the threads
\* allocate and free around it, interrupted or not.
StacksKept ==
  /\ \A i \in DOMAIN threads : <<threads[i].stack, StackSize>> \in live
  /\ \A i, j \in DOMAIN threads : i # j => threads[i].stack # threads[j].stack

\* What the threads hold does not grow: between two turns of thread_a to
\* thread_d the stacks are the only live allocations.
NoHeapGrowth ==
  at \in {"turn", "yield"} /\ pc = "idle" =>
    live = {<<threads[i].stack, StackSize>> : i \in DOMAIN threads}

\* Turns are taken in the order in which the threads were created, over and
\* over: between two turns of one thread every other has one.
TurnsInOrder ==
  \A k \in 2 .. Len(boot_stack) : boot_stack[k] = Entries[((k - 1) % Len(Entries)) + 1]

\* Every turn ends and the next one begins, until the boot stack is full.
TurnsGoOn ==
  \A k \in 1 .. StackFrames - 1 : Len(boot_stack) = k ~> Len(boot_stack) = k + 1

\* The reports say that a thread that yielded goes on from where it was: its
\* entry function, then, is entered once.
ThreadsResume ==
  \A j, k \in DOMAIN boot_stack : boot_stack[j] = boot_stack[k] => j = k

\* The timer is served again and again, so an end of interrupt is never missed.
TimerServed == []<>(irq = "timer")
=============================================================================
