---------------------------- MODULE DeviceProofs ----------------------------
(***************************************************************************)
(* The devices.  No byte stored to the serial port is lost, for every      *)
(* depth of the port's queue from two on and every timeout: the argument   *)
(* counts stale polls.  The handler is never interrupted between its poll  *)
(* and its store, so it stores into an empty queue; the main flow may be   *)
(* interrupted there, by handlers that leave at most one byte behind.      *)
(* The RAM block device implements BlockStore, for every block size and    *)
(* every placement of the disks in memory.                                 *)
(***************************************************************************)
EXTENDS Log, RamBlock, SequenceTheorems, TLAPS

(* The log on the serial port                                              *)

Byte(c)  == {c} \X {"text", "cr", "lf"}
Bytes(c) == Seq(Byte(c)) \ {<< >>}
Queued   == Byte("main") \cup Byte("irq")

\* What the proof needs to know of the types of the variables.
Types ==
  /\ fifo \in Seq(Queued) /\ owed = fifo
  /\ fifo_on \in BOOLEAN /\ dlab \in BOOLEAN /\ g_log_ready \in BOOLEAN
  /\ irq \in BOOLEAN /\ IF_ \in BOOLEAN
  /\ at \in {"log_init", "boot", "sti", "run", "panic", "halted"}
  /\ pc \in [Contexts -> {"idle", "check", "dlab_on", "dlab_off", "fcr", "ready",
                          "poll", "out"}]
  /\ calls = [c \in Contexts |-> calls[c]]
  /\ \A c \in Contexts : calls[c] \in Seq(Bytes(c))
  /\ spin \in [Contexts -> Nat]
  /\ \A c \in Contexts : pc[c] \in {"check", "poll", "out"} => calls[c] # << >>

\* A panic leaves neither the handler nor a way for it to come.
PanicAlone == at \in {"panic", "halted"} => ~irq /\ ~IF_

\* The port is set up before the first byte and once only.
SetUpOnce ==
  /\ g_log_ready => fifo_on /\ ~dlab /\ at # "log_init"
  /\ ~g_log_ready => /\ fifo = << >> /\ ~irq /\ ~IF_ /\ at \in {"log_init", "boot"}
                     /\ at = "log_init" => pc["main"] = "idle"
                     /\ at = "boot" => pc["main"] \in {"dlab_on", "dlab_off", "fcr", "ready"}
  /\ pc["main"] = "ready" => fifo_on
  /\ pc["main"] \in {"fcr", "ready"} => ~dlab
  /\ \A c \in Contexts : pc[c] \in {"dlab_on", "dlab_off", "fcr", "ready"} => ~g_log_ready
  /\ \A c \in Contexts : pc[c] \in {"check", "poll", "out"} => g_log_ready

\* How stale a poll can be.
Stale ==
  /\ pc["main"] = "out" => Len(fifo) <= 1
  /\ pc["irq"] = "out" => fifo = << >>
  /\ ~irq => pc["irq"] = "idle"

IInv == Types /\ SetUpOnce /\ Stale /\ PanicAlone
-----------------------------------------------------------------------------
\* Advance (the end of a serial_putc) leaves calls well formed and goes to a
\* place where the port is set up, or to none.
LEMMA AdvanceStep ==
  ASSUME Types, NEW c \in Contexts, pc[c] \in {"poll", "out"}, Advance(c)
  PROVE  /\ calls' = [d \in Contexts |-> calls'[d]]
         /\ \A d \in Contexts : calls'[d] \in Seq(Bytes(d))
         /\ spin' \in [Contexts -> Nat]
         /\ \E p \in {"idle", "check", "poll"} :
              /\ pc' = [pc EXCEPT ![c] = p]
              /\ p # "idle" => calls'[c] # << >>
         /\ calls[c][1][1] \in Byte(c)
         /\ \A d \in Contexts \ {c} : calls'[d] = calls[d]
<1> DEFINE rest == Tail(calls[c][1])
           cs   == IF rest = << >> THEN Tail(calls[c]) ELSE <<rest>> \o Tail(calls[c])
<1>1. calls[c] \in Seq(Bytes(c)) /\ calls[c] # << >>
  BY DEF Types
<1>2. calls[c][1] \in Bytes(c) /\ Tail(calls[c]) \in Seq(Bytes(c))
  BY <1>1
<1>3. calls[c][1][1] \in Byte(c) /\ rest \in Seq(Byte(c))
  BY <1>2 DEF Bytes
<1>4. cs \in Seq(Bytes(c))
  <2>1. CASE rest = << >>
    BY <2>1, <1>2
  <2>2. CASE rest # << >>
    <3>1. <<rest>> \in Seq(Bytes(c))
      BY <2>2, <1>3 DEF Bytes
    <3> QED BY <3>1, <2>2, <1>2
  <2> QED BY <2>1, <2>2
<1>5. /\ calls' = [calls EXCEPT ![c] = cs]
      /\ spin' = [spin EXCEPT ![c] = 0]
      /\ pc' = [pc EXCEPT ![c] = IF cs = << >> THEN "idle"
                                 ELSE IF rest = << >> THEN "check" ELSE "poll"]
  BY Zenon DEF Advance
<1> HIDE DEF cs, rest
<1>6. /\ calls' = [d \in Contexts |-> calls'[d]] /\ calls'[c] = cs
      /\ \A d \in Contexts : calls'[d] \in Seq(Bytes(d))
  BY Zenon, <1>4, <1>5 DEF Types
<1>7. spin' \in [Contexts -> Nat]
  BY <1>5 DEF Types
<1>8. \E p \in {"idle", "check", "poll"} :
        pc' = [pc EXCEPT ![c] = p] /\ (p # "idle" => calls'[c] # << >>)
  BY Zenon, <1>5, <1>6
<1> QED BY Zenon, <1>3, <1>5, <1>6, <1>7, <1>8 DEF Types

\* A line is a nonempty sequence of nonempty calls.
LEMMA LineType ==
  ASSUME NEW c \in Contexts
  PROVE  Line(c) \in Seq(Bytes(c)) /\ Line(c) # << >>
<1>1. <<<<c, "text">>>> \in Bytes(c) /\ <<<<c, "cr">>, <<c, "lf">>>> \in Bytes(c)
  BY DEF Byte, Bytes
<1> QED BY <1>1 DEF Line

\* The machine starts with an idle log and an empty port.
LEMMA InitIInv == Init => IInv
<1> SUFFICES ASSUME Init PROVE IInv
  OBVIOUS
<1>1. << >> \in Seq(Queued) /\ \A c \in Contexts : << >> \in Seq(Bytes(c))
  OBVIOUS
<1>2. Types
  BY Zenon, <1>1 DEF Init, Types, Contexts
<1> QED BY <1>2 DEF Init, IInv, SetUpOnce, Stale, PanicAlone, Contexts

\* Output of a context: the poll and the store are the steps that matter.
LEMMA OutputStep ==
  ASSUME IInv, NEW c \in Contexts, Output(c)
  PROVE  IInv'
<1> USE DEF Contexts
<1>1. CASE log_check(c)
  BY <1>1 DEF log_check, Goto, Runs, port, environment, IInv, Types, SetUpOnce, Stale, PanicAlone
<1>2. CASE serial_init(c)
  BY ZenonT(30), <1>2
  DEF serial_init, FcrEnables, Goto, Runs, port, environment, IInv, Types, SetUpOnce, Stale, PanicAlone
<1>3. CASE log_ready(c)
  BY <1>3 DEF log_ready, Goto, Runs, port, environment, IInv, Types, SetUpOnce, Stale, PanicAlone
<1>4. CASE serial_poll(c)
  <2> USE <1>4 DEF serial_poll, serial_transmit_empty, Runs
  <2>1. CASE Goto(c, "poll", "out") /\ serial_transmit_empty /\ UNCHANGED <<calls, spin>>
    BY <2>1 DEF Goto, port, environment, IInv, Types, SetUpOnce, Stale, PanicAlone
  <2>2. CASE Advance(c)
    <3>1. /\ calls' = [d \in Contexts |-> calls'[d]]
          /\ \A d \in Contexts : calls'[d] \in Seq(Bytes(d))
          /\ spin' \in [Contexts -> Nat]
          /\ \A d \in Contexts \ {c} : calls'[d] = calls[d]
      BY <2>2, AdvanceStep DEF IInv
    <3>2. PICK p \in {"idle", "check", "poll"} :
            /\ pc' = [pc EXCEPT ![c] = p]
            /\ p # "idle" => calls'[c] # << >>
      BY <2>2, AdvanceStep DEF IInv
    <3>3. g_log_ready /\ UNCHANGED <<g_log_ready, port, owed, environment>>
      BY DEF IInv, SetUpOnce
    <3>4. Types'
      BY ZenonT(30), <3>1, <3>2, <3>3 DEF port, environment, IInv, Types
    <3>5. SetUpOnce' /\ Stale' /\ PanicAlone'
      BY <3>2, <3>3 DEF port, environment, IInv, Types, SetUpOnce, Stale, PanicAlone
    <3> QED BY <3>4, <3>5 DEF IInv
  <2>3. CASE UNCHANGED <<pc, calls>> /\ spin' = [spin EXCEPT ![c] = IF @ < Limit THEN @ + 1 ELSE @]
    BY <2>3 DEF port, environment, IInv, Types, SetUpOnce, Stale, PanicAlone
  <2> QED BY <2>1, <2>2, <2>3
<1>5. CASE serial_out(c)
  <2>1. /\ Len(fifo) <= 1 /\ fifo \in Seq(Queued) /\ owed = fifo /\ fifo_on /\ ~dlab
        /\ Runs(c) /\ pc[c] = "out" /\ g_log_ready
    BY <1>5 DEF serial_out, IInv, Types, SetUpOnce, Stale, PanicAlone
  <2>2. ~(dlab \/ Len(fifo) >= Capacity)
    BY <2>1, LogAssumption DEF Capacity
  <2>3. fifo' = Append(fifo, calls[c][1][1]) /\ owed' = fifo'
    BY <1>5, <2>1, <2>2 DEF serial_out
  <2>4. /\ calls' = [d \in Contexts |-> calls'[d]]
        /\ \A d \in Contexts : calls'[d] \in Seq(Bytes(d))
        /\ spin' \in [Contexts -> Nat]
        /\ \A d \in Contexts \ {c} : calls'[d] = calls[d]
        /\ calls[c][1][1] \in Byte(c)
    BY <1>5, <2>1, AdvanceStep DEF serial_out, IInv
  <2>5. PICK p \in {"idle", "check", "poll"} :
          /\ pc' = [pc EXCEPT ![c] = p]
          /\ p # "idle" => calls'[c] # << >>
    BY <1>5, <2>1, AdvanceStep DEF serial_out, IInv
  <2>6. fifo' \in Seq(Queued) /\ Len(fifo') = Len(fifo) + 1
    <3>1. calls[c][1][1] \in Queued
      BY <2>4 DEF Queued
    <3> QED BY <3>1, <2>1, <2>3
  <2>7. c = "irq" => Len(fifo') <= 1
    BY <2>1, <2>6 DEF IInv, Stale
  <2>8. UNCHANGED <<g_log_ready, fifo_on, dlab, environment>>
    BY <1>5 DEF serial_out
  <2>9. Types'
    BY ZenonT(30), <2>3, <2>4, <2>5, <2>6, <2>8 DEF environment, IInv, Types
  <2>10. SetUpOnce'
    BY <2>1, <2>5, <2>8 DEF environment, IInv, Types, SetUpOnce
  <2>11. Stale'
    BY <2>1, <2>5, <2>7, <2>8 DEF Runs, environment, IInv, Types, Stale
  <2>12. PanicAlone'
    BY <2>8 DEF environment, IInv, PanicAlone
  <2> QED BY <2>9, <2>10, <2>11, <2>12 DEF IInv
<1> QED BY <1>1, <1>2, <1>3, <1>4, <1>5 DEF Output

\* The port sends the oldest byte.
LEMMA TransmitStep == IInv /\ Transmit => IInv'
  BY DEF Transmit, ctxs, environment, IInv, Types, SetUpOnce, Stale, PanicAlone, Contexts

\* The callers start lines, and the handler comes and goes.
LEMMA CallerStep ==
  ASSUME IInv, kmain \/ thread \/ kernel_panic_at \/ timer_on_irq0 \/ iretq
  PROVE  IInv'
<1> USE DEF Contexts, port, ctxs
<1>0. /\ Types /\ SetUpOnce /\ Stale /\ PanicAlone
      /\ Line("main") \in Seq(Bytes("main")) /\ Line("main") # << >>
      /\ Line("irq") \in Seq(Bytes("irq")) /\ Line("irq") # << >>
      /\ << >> \in Seq(Bytes("main")) /\ << >> \in Seq(Bytes("irq"))
  BY LineType DEF IInv
<1> USE <1>0
<1>1. CASE kmain
  <2>1. CASE MainAt("log_init", "boot") /\ Begin("main", "dlab_on", << >>)
    <3> USE <1>1, <2>1 DEF kmain, MainAt, Begin, Goto, Runs
    <3>1. Types'
      BY Zenon DEF Types
    <3>2. SetUpOnce' /\ Stale'
      BY DEF Types, SetUpOnce, Stale
    <3> QED BY <3>1, <3>2 DEF IInv, PanicAlone
  <2>2. CASE MainAt("boot", "sti") /\ Begin("main", "check", Line("main"))
    <3> USE <1>1, <2>2 DEF kmain, MainAt, Begin, Goto, Runs
    <3>1. Types'
      BY Zenon DEF Types
    <3>2. g_log_ready
      BY DEF SetUpOnce
    <3>3. SetUpOnce'
      BY <3>2 DEF Types, SetUpOnce
    <3>4. Stale'
      BY DEF Types, Stale
    <3> QED BY <3>1, <3>3, <3>4 DEF IInv, PanicAlone
  <2>3. CASE MainAt("sti", "run") /\ IF_' = TRUE
    BY <1>1, <2>3 DEF kmain, MainAt, IInv, Types, SetUpOnce, Stale, PanicAlone
  <2> QED BY Zenon, <1>1, <2>1, <2>2, <2>3 DEF kmain
<1>2. CASE thread
  <2> USE <1>2 DEF thread, MainAt, Begin, Goto, Runs
  <2>1. Types'
    BY Zenon DEF Types
  <2>2. SetUpOnce'
    BY DEF Types, SetUpOnce, Stale
  <2>3. Stale'
    BY DEF Types, SetUpOnce, Stale
  <2> QED BY <2>1, <2>2, <2>3 DEF IInv, PanicAlone
<1>3. CASE kernel_panic_at
  <2>1. CASE MainAt("panic", "halted") /\ UNCHANGED <<g_log_ready, port, ctxs, owed, IF_, irq>>
    BY <2>1 DEF MainAt, IInv, Types, SetUpOnce, Stale, PanicAlone
  <2>2. CASE ~MainAt("panic", "halted")
    <3>1. /\ at = "run" \/ (at \in {"boot", "sti"} /\ pc["main"] = "idle")
          /\ at' = "panic" /\ irq' = FALSE /\ IF_' = FALSE
          /\ pc' = [c \in Contexts |-> IF c = "main" THEN "check" ELSE "idle"]
          /\ calls' = [c \in Contexts |-> IF c = "main" THEN Line(c) ELSE << >>]
          /\ spin' = [c \in Contexts |-> 0]
          /\ UNCHANGED <<g_log_ready, fifo, fifo_on, dlab, owed>>
      BY <1>3, <2>2 DEF kernel_panic_at, PanicIF
    <3>2. g_log_ready
      BY <3>1 DEF SetUpOnce
    <3>3. /\ calls' = [d \in Contexts |-> calls'[d]] /\ calls'["main"] # << >>
          /\ calls'["main"] \in Seq(Bytes("main")) /\ calls'["irq"] \in Seq(Bytes("irq"))
      BY <3>1
    <3>4. Types'
      BY ZenonT(30), <3>1, <3>3 DEF Types
    <3>5. SetUpOnce'
      BY <3>1, <3>2 DEF SetUpOnce
    <3>6. Stale'
      BY <3>1 DEF Stale
    <3> QED BY <3>1, <3>4, <3>5, <3>6 DEF IInv, PanicAlone
  <2> QED BY <1>3, <2>1, <2>2 DEF kernel_panic_at, MainAt
<1>4. CASE timer_on_irq0
  <2>1. /\ pc' \in {pc, [pc EXCEPT !["irq"] = "check"]}
        /\ pc' # pc => calls' = [calls EXCEPT !["irq"] = Line("irq")]
        /\ pc' = pc => calls'["irq"] \in {calls["irq"], Line("irq")}
        /\ calls' = [d \in Contexts |-> calls'[d]]
        /\ calls'["irq"] \in Seq(Bytes("irq"))
        /\ calls'["main"] = calls["main"]
        /\ spin' \in [Contexts -> Nat]
    <3>1. CASE UNCHANGED ctxs
      BY <3>1 DEF Types
    <3>2. CASE ~UNCHANGED ctxs
      BY <1>4, <3>2 DEF timer_on_irq0, Types
    <3> QED BY <3>1, <3>2
  <2>2. g_log_ready
    BY <1>4 DEF timer_on_irq0, SetUpOnce
  <2>3. Types'
    <3>1. /\ UNCHANGED <<g_log_ready, fifo, fifo_on, dlab, at, owed>>
          /\ irq' = TRUE /\ IF_' = FALSE
      BY <1>4 DEF timer_on_irq0, port
    <3>2. /\ pc' \in [Contexts -> {"idle", "check", "dlab_on", "dlab_off", "fcr",
                                  "ready", "poll", "out"}]
          /\ pc'["main"] = pc["main"]
      BY <2>1 DEF Types, Contexts
    <3>3. \A c \in Contexts : calls'[c] \in Seq(Bytes(c))
      BY <2>1 DEF Types, Contexts
    <3>4. \A c \in Contexts : pc'[c] \in {"check", "poll", "out"} => calls'[c] # << >>
      <4>1. pc["main"] \in {"check", "poll", "out"} => calls["main"] # << >>
        BY DEF Types, Contexts
      <4>2. pc'["irq"] \in {"check", "poll", "out"} => calls'["irq"] # << >>
        <5>1. Line("irq") # << >>
          BY DEF Line
        <5>2. CASE pc' = pc
          BY <2>1, <5>1, <5>2 DEF Types, Contexts
        <5>3. CASE pc' # pc
          BY <2>1, <5>1, <5>3 DEF Types, Contexts
        <5> QED BY <5>2, <5>3
      <4> QED BY <2>1, <3>2, <4>1, <4>2 DEF Contexts
    <3> QED BY Zenon, <2>1, <3>1, <3>2, <3>3, <3>4 DEF Types
  <2>4. SetUpOnce'
    BY SMTT(30), <1>4, <2>1, <2>2 DEF timer_on_irq0, Types, SetUpOnce
  <2>5. Stale'
    BY <1>4, <2>1 DEF timer_on_irq0, Types, Stale
  <2> QED BY <1>4, <2>3, <2>4, <2>5 DEF timer_on_irq0, IInv, PanicAlone
<1>5. CASE iretq
  <2> USE <1>5 DEF iretq
  <2>1. Types'
    BY Zenon DEF Types
  <2>2. SetUpOnce'
    BY DEF Types, SetUpOnce, Stale
  <2>3. Stale'
    BY DEF Types, SetUpOnce, Stale
  <2> QED BY <2>1, <2>2, <2>3 DEF IInv, PanicAlone
<1> QED BY <1>1, <1>2, <1>3, <1>4, <1>5

\* The invariant holds for ever.
LEMMA IInvHolds == Spec => []IInv
<1>1. IInv /\ [Next]_vars => IInv'
  <2> SUFFICES ASSUME IInv, [Next]_vars
               PROVE  IInv'
    OBVIOUS
  <2>1. CASE \E c \in Contexts : Output(c)
    BY <2>1, OutputStep
  <2>2. CASE kmain \/ thread \/ kernel_panic_at \/ timer_on_irq0 \/ iretq
    BY <2>2, CallerStep
  <2>3. CASE Transmit
    BY <2>3, TransmitStep
  <2>4. CASE UNCHANGED vars
    BY <2>4 DEF vars, port, ctxs, IInv, Types, SetUpOnce, Stale, PanicAlone
  <2> QED BY <2>1, <2>2, <2>3, <2>4 DEF Next, Main, Handler, Contexts
<1> QED BY InitIInv, <1>1, PTL DEF Spec

\* Every byte that log.c stores to the serial port is transmitted, in order,
\* whatever the interrupts, the panics and the pace of the port.
THEOREM NothingLost == Spec => []NoByteLost
<1>1. IInv => NoByteLost
  BY DEF IInv, Types, NoByteLost
<1> QED BY IInvHolds, <1>1, PTL

\* Once kernel_panic_at has run cli, only its own text reaches the port.
THEOREM PanicTextWhole == Spec => PanicUninterrupted
<1> DEFINE A == (at \in {"panic", "halted"} /\ Len(owed') > Len(owed))
                  => (Head(owed'[Len(owed')]) = "main")
<1>1. IInv /\ [Next]_vars => [A]_vars
  <2> SUFFICES ASSUME IInv, Next, at \in {"panic", "halted"}, Len(owed') > Len(owed)
               PROVE  Head(owed'[Len(owed')]) = "main"
    BY DEF vars
  <2>1. ~irq /\ ~IF_ /\ owed \in Seq(Queued)
    BY DEF IInv, PanicAlone, Types
  <2>2. CASE serial_out("main")
    <3>1. pc["main"] = "out" /\ Advance("main") /\ owed' = Append(owed, calls["main"][1][1])
      BY <2>2 DEF serial_out
    <3>2. calls["main"][1][1] \in Byte("main")
      BY <3>1, AdvanceStep DEF IInv, Contexts
    <3>3. owed'[Len(owed')] = calls["main"][1][1]
      BY <2>1, <3>1, <3>2 DEF Queued
    <3> QED BY <3>2, <3>3 DEF Byte
  <2>3. CASE Transmit
    BY <2>1, <2>3 DEF Transmit, IInv, Types
  <2>4. CASE UNCHANGED owed
    BY SMTT(30), <2>1, <2>4
  <2>5. serial_out("main") \/ Transmit \/ UNCHANGED owed
    BY Zenon, <2>1 DEF Next, Main, Handler, Output, Runs, Goto, log_check, serial_init, log_ready,
             serial_poll, serial_out, kmain, thread, kernel_panic_at, timer_on_irq0, iretq
  <2> QED BY <2>2, <2>3, <2>4, <2>5
<1> QED BY IInvHolds, <1>1, PTL DEF Spec, PanicUninterrupted
-----------------------------------------------------------------------------
(* The RAM block device, and the refinement of BlockStore                  *)

\* What BlockStore's content, disk and bound stand for.
Blocks == [a \in Areas |-> [l \in 0 .. AreaBlocks[a] - 1 |-> BlockAt(BaseOf[a] + l * MCS_BLOCK_SIZE)]]
Disks  == [r \in {r \in Ramdevs : ramdev[r] # Unset} |-> DiskOf(r)]
Bound  == [v \in {v \in Devs : dev[v] # Unbound} |-> dev[v].driver_data]

\* A RAM disk that is set up lies on an area that has its blocks, and a device
\* that is bound is on such a disk.
BlockInv ==
  /\ storage_bytes = [a \in 1 .. MemoryEnd |-> storage_bytes[a]]
  /\ ramdev = [r \in Ramdevs |-> ramdev[r]] /\ dev = [v \in Devs |-> dev[v]]
  /\ \A r \in Ramdevs : ramdev[r] # Unset => \E a \in Areas :
       \E n \in 0 .. AreaBlocks[a] : ramdev[r] = [storage |-> BaseOf[a], total_blocks |-> n]
  /\ \A v \in Devs : dev[v] # Unbound =>
       dev[v].driver_data \in Ramdevs /\ ramdev[dev[v].driver_data] # Unset

LEMMA BlockFits ==
  ASSUME NEW size \in Nat \ {0}, NEW n \in Nat, NEW l \in 0 .. (n - 1)
  PROVE  l * size \in Nat /\ l * size + size <= n * size
<1>1. l * size \in Nat /\ n * size \in Nat /\ (n - l - 1) * size \in Nat
  <2>1. \A x, y \in Nat : x * y \in Nat
    OBVIOUS
  <2> QED BY <2>1
<1>2. n * size = l * size + size + (n - l - 1) * size
  BY Z3
<1> QED BY <1>1, <1>2

\* Two different blocks of one area are a block apart.
LEMMA BlocksApart ==
  ASSUME NEW size \in Nat \ {0}, NEW k \in Nat, NEW l \in Nat, k < l
  PROVE  k * size + size <= l * size
<1>1. k \in 0 .. (l - 1)
  OBVIOUS
<1> QED BY <1>1, BlockFits

LEMMA BlockPlace ==
  ASSUME NEW a \in Areas, NEW l \in 0 .. (AreaBlocks[a] - 1)
  PROVE  /\ BaseOf[a] + l * MCS_BLOCK_SIZE \in Nat
         /\ BaseOf[a] <= BaseOf[a] + l * MCS_BLOCK_SIZE
         /\ BaseOf[a] + l * MCS_BLOCK_SIZE + MCS_BLOCK_SIZE <= EndOf(a)
         /\ BaseOf[a] \in Nat /\ EndOf(a) \in Nat /\ 0 < BaseOf[a] /\ BaseOf[a] < EndOf(a)
         /\ EndOf(a) - 1 <= MemoryEnd
<1>1. AreaBlocks[a] \in Nat /\ MCS_BLOCK_SIZE \in Nat \ {0} /\ BaseOf[a] \in Nat \ {0}
  BY BlockAssumption
<1>2. l * MCS_BLOCK_SIZE \in Nat
      /\ l * MCS_BLOCK_SIZE + MCS_BLOCK_SIZE <= AreaBlocks[a] * MCS_BLOCK_SIZE
  BY <1>1, BlockFits
<1>3. AreaBlocks[a] * MCS_BLOCK_SIZE \in Nat
  <2>1. \A x, y \in Nat : x * y \in Nat
    OBVIOUS
  <2> QED BY <1>1, <2>1
<1>4. EndOf(a) - 1 <= MemoryEnd /\ EndOf(a) = BaseOf[a] + AreaBlocks[a] * MCS_BLOCK_SIZE
  BY BlockAssumption DEF EndOf
<1> QED BY <1>1, <1>2, <1>3, <1>4

LEMMA BlockInMemory ==
  ASSUME NEW a \in Areas, NEW l \in 0 .. (AreaBlocks[a] - 1), NEW i \in 1 .. MCS_BLOCK_SIZE
  PROVE  BaseOf[a] + l * MCS_BLOCK_SIZE + i - 1 \in 1 .. MemoryEnd
<1>1. PICK y : y = BaseOf[a] + l * MCS_BLOCK_SIZE
  OBVIOUS
<1>2. /\ y \in Nat /\ BaseOf[a] \in Nat /\ 0 < BaseOf[a] /\ BaseOf[a] <= y
      /\ y + MCS_BLOCK_SIZE <= EndOf(a) /\ EndOf(a) \in Nat /\ EndOf(a) - 1 <= MemoryEnd
  BY <1>1, BlockPlace
<1>3. MCS_BLOCK_SIZE \in Nat /\ MemoryEnd \in Nat
  BY BlockAssumption
<1>4. y + i - 1 \in 1 .. MemoryEnd
  BY <1>2, <1>3
<1> QED BY <1>1, <1>4

\* The areas start at different addresses.
LEMMA AreasApart ==
  ASSUME NEW a \in Areas, NEW b \in Areas, BaseOf[a] = BaseOf[b]
  PROVE  a = b
<1>1. 0 \in 0 .. (AreaBlocks[a] - 1) /\ 0 \in 0 .. (AreaBlocks[b] - 1)
  BY BlockAssumption
<1>2. /\ BaseOf[a] \in Nat /\ EndOf(a) \in Nat /\ BaseOf[a] < EndOf(a)
      /\ BaseOf[b] \in Nat /\ EndOf(b) \in Nat /\ BaseOf[b] < EndOf(b)
  BY <1>1, BlockPlace
<1>3. a # b => EndOf(a) <= BaseOf[b] \/ EndOf(b) <= BaseOf[a]
  BY BlockAssumption
<1> QED BY <1>2, <1>3

LEMMA BlockInitInv == BlockInit => BlockInv
BY DEF BlockInit, BlockInv

\* The area and the size that a RAM disk's record stands for.
Disk(rec) == [area |-> CHOOSE a \in Areas : BaseOf[a] = rec.storage, size |-> rec.total_blocks]

LEMMA DiskFacts ==
  ASSUME NEW a \in Areas, NEW n, NEW rec, rec = [storage |-> BaseOf[a], total_blocks |-> n]
  PROVE  rec # Unset /\ Disk(rec) = [area |-> a, size |-> n]
<1>1. rec # Unset
  BY BlockAssumption DEF Unset
<1>2. PICK c : c = CHOOSE b \in Areas : BaseOf[b] = rec.storage
  OBVIOUS
<1>3. c = a
  BY <1>2, AreasApart
<1> QED BY Zenon, <1>1, <1>2, <1>3 DEF Disk

LEMMA DiskOfIsDisk == Disks = [r \in {r \in Ramdevs : ramdev[r] # Unset} |-> Disk(ramdev[r])]
BY DEF Disks, DiskOf, Disk

LEMMA BoundTo ==
  ASSUME BlockInv, NEW v \in Devs, dev[v] # Unbound
  PROVE  \E r \in Ramdevs, a \in Areas : \E n \in 0 .. AreaBlocks[a] :
           /\ v \in DOMAIN Bound /\ Bound[v] = r /\ dev[v].driver_data = r
           /\ Disks[r] = [area |-> a, size |-> n]
           /\ ramdev[r] = [storage |-> BaseOf[a], total_blocks |-> n]
<1>1. PICK r : r = dev[v].driver_data
  OBVIOUS
<1>2. r \in Ramdevs /\ ramdev[r] # Unset
  BY <1>1 DEF BlockInv
<1>3. PICK a \in Areas :
        \E n \in 0 .. AreaBlocks[a] : ramdev[r] = [storage |-> BaseOf[a], total_blocks |-> n]
  BY <1>2 DEF BlockInv
<1>4. PICK n \in 0 .. AreaBlocks[a] : ramdev[r] = [storage |-> BaseOf[a], total_blocks |-> n]
  BY <1>3
<1>5. Disks[r] = [area |-> a, size |-> n]
  BY <1>2, <1>4, DiskFacts, DiskOfIsDisk
<1>6. v \in DOMAIN Bound /\ Bound[v] = r
  BY SMTT(30), <1>1 DEF Bound
<1> QED BY <1>1, <1>2, <1>4, <1>5, <1>6

\* BlockStore's actions under the refinement mapping.
LEMMA BlockForms ==
  /\ \A r, a, n : Store!SetUp(r, a, n) <=>
       /\ Disks' = [z \in DOMAIN Disks \cup {r} |-> IF z = r THEN [area |-> a, size |-> n] ELSE Disks[z]]
       /\ Blocks' = Blocks /\ Bound' = Bound /\ request' = << >> /\ answer' = << >>
  /\ \A v, r : Store!Bind(v, r) <=>
       /\ Bound' = [z \in DOMAIN Bound \cup {v} |-> IF z = v THEN r ELSE Bound[z]]
       /\ Blocks' = Blocks /\ Disks' = Disks /\ request' = << >> /\ answer' = << >>
  /\ \A v : Store!Refuse(v) <=>
       /\ request' = <<"null">> /\ answer' = <<"EINVAL">>
       /\ Blocks' = Blocks /\ Disks' = Disks /\ Bound' = Bound
BY ZenonT(30) DEF Store!SetUp, Store!Bind, Store!Refuse, Store!With, Blocks, Disks, Bound

LEMMA BlockReadForm ==
  ASSUME NEW v, NEW l
  PROVE  Store!Read(v, l) <=>
           /\ request' = <<"read", v, l>>
           /\ answer' = IF l < Disks[Bound[v]].size
                        THEN <<"OK", Blocks[Disks[Bound[v]].area][l]>> ELSE <<"EINVAL">>
           /\ Blocks' = Blocks /\ Disks' = Disks /\ Bound' = Bound
BY DEF Store!Read, Blocks, Disks, Bound

LEMMA BlockWriteForm ==
  ASSUME NEW v, NEW l, NEW b
  PROVE  Store!Write(v, l, b) <=>
           /\ request' = <<"write", v, l, b>>
           /\ IF l < Disks[Bound[v]].size
              THEN answer' = <<"OK">> /\ Blocks' = [Blocks EXCEPT ![Disks[Bound[v]].area][l] = b]
              ELSE answer' = <<"EINVAL">> /\ Blocks' = Blocks
           /\ Disks' = Disks /\ Bound' = Bound
BY Zenon DEF Store!Write, Blocks, Disks, Bound

LEMMA BlockKept ==
  /\ UNCHANGED storage_bytes => Blocks' = Blocks
  /\ UNCHANGED ramdev => Disks' = Disks
  /\ UNCHANGED dev => Bound' = Bound
BY Zenon DEF Blocks, BlockAt, Disks, DiskOf, Bound

LEMMA SetUpRefines ==
  ASSUME BlockInv, NEW r \in Ramdevs, NEW a \in Areas, NEW n \in 0 .. AreaBlocks[a],
         mcs_ram_block_init(r, a, n)
  PROVE  BlockInv' /\ Store!SetUp(r, a, n)
<1> DEFINE rec == [storage |-> BaseOf[a], total_blocks |-> n]
<1>1. ramdev' = [ramdev EXCEPT ![r] = rec] /\ UNCHANGED <<storage_bytes, dev>>
      /\ request' = << >> /\ answer' = << >>
  BY DEF mcs_ram_block_init
<1>2. rec # Unset /\ Disk(rec) = [area |-> a, size |-> n]
  BY DiskFacts
<1>3. ramdev'[r] = rec /\ (\A z \in Ramdevs \ {r} : ramdev'[z] = ramdev[z])
      /\ ramdev' = [z \in Ramdevs |-> ramdev'[z]]
  BY <1>1 DEF BlockInv
<1>4. BlockInv'
  BY <1>1, <1>2, <1>3 DEF BlockInv
<1> HIDE DEF rec
<1>5. {z \in Ramdevs : ramdev'[z] # Unset} = {z \in Ramdevs : ramdev[z] # Unset} \cup {r}
  BY <1>2, <1>3
<1>6. Disks' = [z \in {z \in Ramdevs : ramdev'[z] # Unset} |-> Disk(ramdev'[z])]
  BY DiskOfIsDisk DEF Disks, DiskOf, Disk
<1>7. Disks' = [z \in DOMAIN Disks \cup {r} |-> IF z = r THEN [area |-> a, size |-> n] ELSE Disks[z]]
  BY <1>2, <1>3, <1>5, <1>6, DiskOfIsDisk
<1> QED BY SMTT(30), <1>1, <1>4, <1>7, BlockKept, BlockForms

LEMMA BindRefines ==
  ASSUME BlockInv, NEW v \in Devs, NEW r \in Ramdevs, mcs_block_bind_ramdev(v, r)
  PROVE  BlockInv' /\ r \in DOMAIN Disks /\ Store!Bind(v, r)
<1> DEFINE rec == [block_count |-> ramdev[r].total_blocks, driver_data |-> r]
<1>1. ramdev[r] # Unset /\ dev' = [dev EXCEPT ![v] = rec] /\ UNCHANGED <<storage_bytes, ramdev>>
      /\ request' = << >> /\ answer' = << >>
  BY DEF mcs_block_bind_ramdev
<1>2. rec # Unbound /\ rec.driver_data = r
  BY BlockAssumption DEF Unbound
<1> HIDE DEF rec
<1>3. dev'[v] = rec /\ (\A z \in Devs \ {v} : dev'[z] = dev[z]) /\ dev' = [z \in Devs |-> dev'[z]]
  BY SMTT(30), <1>1 DEF BlockInv
<1>4. BlockInv'
  BY <1>1, <1>2, <1>3 DEF BlockInv
<1>5. {z \in Devs : dev'[z] # Unbound} = {z \in Devs : dev[z] # Unbound} \cup {v}
  BY <1>2, <1>3
<1>6. Bound' = [z \in DOMAIN Bound \cup {v} |-> IF z = v THEN r ELSE Bound[z]]
  BY <1>2, <1>3, <1>5 DEF Bound
<1>7. r \in DOMAIN Disks
  BY <1>1 DEF Disks
<1> QED BY <1>1, <1>4, <1>6, <1>7, BlockKept, BlockForms

LEMMA ReadBlockRefines ==
  ASSUME BlockInv, NEW v \in Devs, NEW l \in 0 .. MaxLba, mcs_block_read(v, l)
  PROVE  BlockInv' /\ v \in DOMAIN Bound /\ Store!Read(v, l)
<1>1. dev[v] # Unbound /\ request' = <<"read", v, l>> /\ UNCHANGED <<storage_bytes, ramdev, dev>>
  BY DEF mcs_block_read
<1>2. PICK r \in Ramdevs, a \in Areas : \E n \in 0 .. AreaBlocks[a] :
        /\ v \in DOMAIN Bound /\ Bound[v] = r /\ dev[v].driver_data = r
        /\ Disks[r] = [area |-> a, size |-> n]
        /\ ramdev[r] = [storage |-> BaseOf[a], total_blocks |-> n]
  BY Zenon, <1>1, BoundTo
<1>3. PICK n \in 0 .. AreaBlocks[a] :
        /\ v \in DOMAIN Bound /\ Bound[v] = r /\ dev[v].driver_data = r
        /\ Disks[r] = [area |-> a, size |-> n]
        /\ ramdev[r] = [storage |-> BaseOf[a], total_blocks |-> n]
  BY <1>2
<1>4. SizeOf(v) = n /\ AddressOf(v, l) = BaseOf[a] + l * MCS_BLOCK_SIZE
  BY <1>3 DEF SizeOf, AddressOf
<1>5. AreaBlocks[a] \in Nat /\ l \in Nat /\ n \in Nat /\ n <= AreaBlocks[a]
  BY BlockAssumption
<1>6. answer' = IF l >= n THEN <<"EINVAL">> ELSE <<"OK", BlockAt(BaseOf[a] + l * MCS_BLOCK_SIZE)>>
  BY <1>4 DEF mcs_block_read
<1>7. l < n => Blocks[a][l] = BlockAt(BaseOf[a] + l * MCS_BLOCK_SIZE)
  <2> HAVE l < n
  <2>1. l \in 0 .. (AreaBlocks[a] - 1)
    BY <1>5
  <2> QED BY <2>1 DEF Blocks
<1>8. answer' = IF l < n THEN <<"OK", Blocks[a][l]>> ELSE <<"EINVAL">>
  BY <1>5, <1>6, <1>7
<1>9. BlockInv'
  BY <1>1 DEF BlockInv
<1>10. Disks[Bound[v]].size = n /\ Disks[Bound[v]].area = a
  BY <1>3
<1> QED BY Zenon, <1>1, <1>3, <1>8, <1>9, <1>10, BlockKept, BlockReadForm

\* Where the bytes of a block are not those of another.
LEMMA BlocksDisjoint ==
  ASSUME NEW a \in Areas, NEW l \in 0 .. (AreaBlocks[a] - 1),
         NEW b \in Areas, NEW k \in 0 .. (AreaBlocks[b] - 1), ~(a = b /\ l = k),
         NEW i \in 1 .. MCS_BLOCK_SIZE
  PROVE  (BaseOf[b] + k * MCS_BLOCK_SIZE + i - 1) - (BaseOf[a] + l * MCS_BLOCK_SIZE)
           \notin 0 .. (MCS_BLOCK_SIZE - 1)
<1> DEFINE size == MCS_BLOCK_SIZE
           x == BaseOf[a] + l * MCS_BLOCK_SIZE
           y == BaseOf[b] + k * MCS_BLOCK_SIZE
<1>1. /\ x \in Nat /\ y \in Nat /\ BaseOf[a] <= x /\ BaseOf[b] <= y
      /\ x + size <= EndOf(a) /\ y + size <= EndOf(b)
      /\ BaseOf[a] \in Nat /\ BaseOf[b] \in Nat /\ EndOf(a) \in Nat /\ EndOf(b) \in Nat
  BY BlockPlace
<1>2. size \in Nat \ {0} /\ AreaBlocks[a] \in Nat /\ AreaBlocks[b] \in Nat
  BY BlockAssumption
<1>3. x + size <= y \/ y + size <= x
  <2>1. CASE a # b
    <3>1. EndOf(a) <= BaseOf[b] \/ EndOf(b) <= BaseOf[a]
      BY <2>1, BlockAssumption
    <3> HIDE DEF x, y, size
    <3> QED BY <1>1, <1>2, <3>1
  <2>2. CASE a = b /\ l # k
    <3>1. l \in Nat /\ k \in Nat /\ (l < k \/ k < l)
      BY <1>2, <2>2
    <3>2. l * size + size <= k * size \/ k * size + size <= l * size
      BY <1>2, <3>1, BlocksApart
    <3>3. PICK p, q : p = l * size /\ q = k * size
      OBVIOUS
    <3>4. p \in Nat /\ q \in Nat
      BY <1>2, <3>3, BlockFits
    <3>5. x = BaseOf[a] + p /\ y = BaseOf[a] + q
      BY <2>2, <3>3
    <3> HIDE DEF x, y, size
    <3> QED BY <1>1, <1>2, <3>2, <3>3, <3>4, <3>5
  <2> QED BY <2>1, <2>2
<1>4. i \in Nat /\ 1 <= i /\ i <= size
  BY <1>2
<1> HIDE DEF x, y, size
<1>5. (y + i - 1) - x \notin 0 .. (size - 1)
  BY <1>1, <1>2, <1>3, <1>4
<1> QED BY <1>5 DEF x, y, size

LEMMA WriteBlockRefines ==
  ASSUME BlockInv, NEW v \in Devs, NEW l \in 0 .. MaxLba, NEW buffer \in Buffers,
         mcs_block_write(v, l, buffer)
  PROVE  BlockInv' /\ v \in DOMAIN Bound /\ Store!Write(v, l, buffer)
<1>1. dev[v] # Unbound /\ request' = <<"write", v, l, buffer>> /\ UNCHANGED <<ramdev, dev>>
  BY SMTT(30) DEF mcs_block_write
<1>2. PICK r \in Ramdevs, a \in Areas : \E n \in 0 .. AreaBlocks[a] :
        /\ v \in DOMAIN Bound /\ Bound[v] = r /\ dev[v].driver_data = r
        /\ Disks[r] = [area |-> a, size |-> n]
        /\ ramdev[r] = [storage |-> BaseOf[a], total_blocks |-> n]
  BY <1>1, BoundTo
<1>3. PICK n \in 0 .. AreaBlocks[a] :
        /\ v \in DOMAIN Bound /\ Bound[v] = r /\ dev[v].driver_data = r
        /\ Disks[r] = [area |-> a, size |-> n]
        /\ ramdev[r] = [storage |-> BaseOf[a], total_blocks |-> n]
  BY <1>2
<1>4. PICK addr : addr = BaseOf[a] + l * MCS_BLOCK_SIZE
  BY SMTT(30)
<1>5. SizeOf(v) = n /\ AddressOf(v, l) = addr
  BY <1>3, <1>4 DEF SizeOf, AddressOf
<1>6. AreaBlocks[a] \in Nat /\ l \in Nat /\ n \in Nat /\ n <= AreaBlocks[a]
  BY BlockAssumption
<1>7. Disks[Bound[v]].size = n /\ Disks[Bound[v]].area = a
  BY <1>3
<1>8. Disks' = Disks /\ Bound' = Bound
  BY <1>1, BlockKept
<1>9. CASE l >= n
  <2>1. answer' = <<"EINVAL">> /\ UNCHANGED storage_bytes
    BY <1>5, <1>9 DEF mcs_block_write
  <2>2. BlockInv'
    BY <1>1, <2>1 DEF BlockInv
  <2>3. ~(l < n)
    BY <1>6, <1>9
  <2> QED BY <1>1, <1>3, <1>7, <1>8, <2>1, <2>2, <2>3, BlockKept, BlockWriteForm
<1>10. CASE ~(l >= n)
  <2>1. l \in 0 .. (AreaBlocks[a] - 1) /\ l < n
    BY <1>6, <1>10
  <2>2. /\ answer' = <<"OK">>
        /\ storage_bytes' = [c \in 1 .. MemoryEnd |->
             IF c - addr \in 0 .. MCS_BLOCK_SIZE - 1 THEN buffer[c - addr + 1] ELSE storage_bytes[c]]
    BY <1>5, <1>10 DEF mcs_block_write, BlockInv
  <2>3. BlockInv'
    BY <1>1, <2>2 DEF BlockInv
  <2>4. ASSUME NEW b \in Areas, NEW k \in 0 .. (AreaBlocks[b] - 1), NEW i \in 1 .. MCS_BLOCK_SIZE
        PROVE  BaseOf[b] + k * MCS_BLOCK_SIZE + i - 1 \in 1 .. MemoryEnd
    BY BlockInMemory
  <2>5. ASSUME NEW b \in Areas, NEW k \in 0 .. (AreaBlocks[b] - 1), ~(a = b /\ l = k)
        PROVE  BlockAt(BaseOf[b] + k * MCS_BLOCK_SIZE)' = BlockAt(BaseOf[b] + k * MCS_BLOCK_SIZE)
    <3>1. ASSUME NEW i \in 1 .. MCS_BLOCK_SIZE
          PROVE  storage_bytes'[BaseOf[b] + k * MCS_BLOCK_SIZE + i - 1]
                   = storage_bytes[BaseOf[b] + k * MCS_BLOCK_SIZE + i - 1]
      <4>1. PICK c : c = BaseOf[b] + k * MCS_BLOCK_SIZE + i - 1
        OBVIOUS
      <4>2. c - addr \notin 0 .. MCS_BLOCK_SIZE - 1
        BY <1>4, <2>1, <2>5, <4>1, BlocksDisjoint
      <4>3. c \in 1 .. MemoryEnd
        BY <2>4, <4>1
      <4> QED BY <2>2, <4>1, <4>2, <4>3
    <3> QED BY <3>1 DEF BlockAt
  <2>6. BlockAt(BaseOf[a] + l * MCS_BLOCK_SIZE)' = buffer
    <3>1. ASSUME NEW i \in 1 .. MCS_BLOCK_SIZE
          PROVE  storage_bytes'[BaseOf[a] + l * MCS_BLOCK_SIZE + i - 1] = buffer[i]
      <4>1. PICK c : c = addr + i - 1
        OBVIOUS
      <4>2. addr \in Nat
        BY <1>4, <2>1, BlockPlace
      <4>3. c - addr \in 0 .. MCS_BLOCK_SIZE - 1 /\ c - addr + 1 = i
        BY <4>1, <4>2, BlockAssumption
      <4>4. c \in 1 .. MemoryEnd
        BY <1>4, <2>1, <2>4, <4>1
      <4>5. storage_bytes'[c] = buffer[i]
        BY <2>2, <4>3, <4>4
      <4> QED BY <1>4, <4>1, <4>5
    <3>2. buffer = [i \in 1 .. MCS_BLOCK_SIZE |-> buffer[i]]
      BY BlockAssumption
    <3> QED BY <3>1, <3>2 DEF BlockAt
  <2>7. Blocks' = [Blocks EXCEPT ![a][l] = buffer]
    BY Zenon, <2>1, <2>5, <2>6 DEF Blocks
  <2> QED BY ZenonT(30), <1>1, <1>3, <1>7, <1>8, <2>1, <2>2, <2>3, <2>7, BlockWriteForm
<1> QED BY <1>9, <1>10

LEMMA BlockInitRefines == BlockInit => Store!Init
<1> SUFFICES ASSUME BlockInit PROVE Store!Init
  OBVIOUS
<1>1. ASSUME NEW a \in Areas, NEW l \in 0 .. (AreaBlocks[a] - 1)
      PROVE  BlockAt(BaseOf[a] + l * MCS_BLOCK_SIZE) = [b \in 1 .. MCS_BLOCK_SIZE |-> 0]
  BY BlockInMemory DEF BlockAt, BlockInit
<1>2. Blocks = [a \in Areas |-> [l \in 0 .. AreaBlocks[a] - 1 |-> [b \in 1 .. MCS_BLOCK_SIZE |-> 0]]]
  BY ZenonT(30), <1>1 DEF Blocks
<1>3. Disks = [r \in {} |-> 0] /\ Bound = [v \in {} |-> 0]
  BY DEF Disks, Bound, BlockInit
<1> QED BY Zenon, <1>2, <1>3 DEF BlockInit, Store!Init, Blocks, Disks, Bound, Areas

\* The block devices are numbered blocks, for every block size, every placement
\* of the areas, every buffer and every order of set up, bind and transfer: a
\* block reads as it was last written through any device, no transfer touches
\* another block, and the size that counts is the RAM disk's present one.
THEOREM BlockStoreRefined == BlockSpec => ImplementsBlockStore
<1>1. BlockInit => BlockInv /\ Store!Init
  BY BlockInitInv, BlockInitRefines
<1>2. BlockInv /\ [BlockNext]_blockvars => BlockInv' /\ [Store!Next]_(Store!storevars)
  <2> SUFFICES ASSUME BlockInv, [BlockNext]_blockvars
               PROVE  BlockInv' /\ [Store!Next]_(Store!storevars)
    OBVIOUS
  <2>1. ASSUME NEW r \in Ramdevs, NEW a \in Areas, NEW n \in 0 .. AreaBlocks[a],
               mcs_ram_block_init(r, a, n)
        PROVE  BlockInv' /\ Store!Next
    BY <2>1, SetUpRefines DEF Store!Next, Areas
  <2>2. ASSUME NEW v \in Devs, NEW r \in Ramdevs, mcs_block_bind_ramdev(v, r)
        PROVE  BlockInv' /\ Store!Next
    BY <2>2, BindRefines DEF Store!Next, Disks
  <2>3. ASSUME NEW v \in Devs, RejectNull(v)
        PROVE  BlockInv' /\ Store!Next
    <3>1. UNCHANGED <<storage_bytes, ramdev, dev>> /\ v \in DOMAIN Bound /\ Store!Refuse(v)
      BY <2>3, BlockKept, BlockForms DEF RejectNull, Bound
    <3>2. BlockInv'
      BY <3>1 DEF BlockInv
    <3> QED BY SMTT(30), <3>1, <3>2 DEF Store!Next, Bound
  <2>4. ASSUME NEW v \in Devs, NEW l \in 0 .. MaxLba, mcs_block_read(v, l)
        PROVE  BlockInv' /\ Store!Next
    BY <2>4, ReadBlockRefines DEF Store!Next, Bound
  <2>5. ASSUME NEW v \in Devs, NEW l \in 0 .. MaxLba, NEW buffer \in Buffers,
               mcs_block_write(v, l, buffer)
        PROVE  BlockInv' /\ Store!Next
    BY SMTT(30), <2>5, WriteBlockRefines DEF Store!Next, Bound
  <2>6. CASE UNCHANGED blockvars
    <3>1. UNCHANGED <<storage_bytes, ramdev, dev, request, answer>>
      BY <2>6 DEF blockvars
    <3>2. BlockInv'
      BY <3>1 DEF BlockInv
    <3> QED BY <3>1, <3>2, BlockKept DEF Store!storevars, Blocks, Disks, Bound
  <2> QED BY <2>1, <2>2, <2>3, <2>4, <2>5, <2>6 DEF BlockNext
<1> QED BY <1>1, <1>2, PTL DEF BlockSpec, ImplementsBlockStore, Store!Spec
=============================================================================
