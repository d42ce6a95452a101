-------------------------------- MODULE Log --------------------------------
(***************************************************************************)
(* Kernel output: log.c over serial.c, shared by the main flow of control, *)
(* the timer handler (pit.c) that interrupts it between any two steps, and *)
(* the panic path (panic.c).                                               *)
(*                                                                         *)
(* serial_putc polls the line status and then stores the byte, two steps   *)
(* that the handler can come between.  The port is external: a transmit    *)
(* queue of FifoSize bytes once FCR has enabled it and of one byte before, *)
(* whose "empty" bit is the one polled.  It sends at its own pace, or      *)
(* never.  What a line says is left out but for its two kinds of bytes:    *)
(* text, and the carriage return that serial_putc puts before a newline.   *)
(***************************************************************************)
EXTENDS Integers, Sequences

CONSTANTS
  Limit,       \* SERIAL_TIMEOUT_LIMIT
  FifoSize,    \* bytes in the port's queue: 16
  LogEvery     \* ticks between two lines of the timer: 100

ASSUME LogAssumption ==
  /\ Limit \in Nat \ {0} /\ FifoSize \in Nat \ {0, 1} /\ LogEvery \in Nat \ {0}

VARIABLES
  g_log_ready,
  g_ticks,                \* modulo LogEvery, all that the output depends on
  fifo, fifo_on, dlab,    \* the port: queue, FCR and divisor latch bits
  IF_, irq,               \* the interrupt flag; whether the handler runs
  at,                     \* the place of the main flow
  pc, calls, spin,        \* of each context: place in log.c, and what it writes
  owed                    \* observed: bytes stored to the port and not yet sent

port == <<fifo, fifo_on, dlab>>
ctxs == <<pc, calls, spin>>
vars == <<g_log_ready, g_ticks, port, IF_, irq, at, ctxs, owed>>

Contexts == {"main", "irq"}

\* log_writeln: log_write of the text, then log_putc of the newline.
Line(c) == << <<<<c, "text">>>>, <<<<c, "cr">>, <<c, "lf">>>> >>

Init ==
  /\ g_log_ready = FALSE /\ g_ticks = 0
  /\ fifo = << >> /\ fifo_on = FALSE /\ dlab = FALSE
  /\ IF_ = FALSE /\ irq = FALSE
  /\ at = "log_init"
  /\ pc = [c \in Contexts |-> "idle"]
  /\ calls = [c \in Contexts |-> << >>]
  /\ spin = [c \in Contexts |-> 0]
  /\ owed = << >>
-----------------------------------------------------------------------------
(* log.c and serial.c, on behalf of context c                              *)

Runs(c) == irq = (c = "irq")
Goto(c, a, b) == Runs(c) /\ pc[c] = a /\ pc' = [pc EXCEPT ![c] = b]

\* Starting a sequence of log calls.
Begin(c, a, cs) ==
  /\ Goto(c, "idle", a)
  /\ calls' = [calls EXCEPT ![c] = cs]
  /\ spin' = [spin EXCEPT ![c] = 0]

environment == <<g_ticks, IF_, irq, at>>

\* The test of g_log_ready in log_putc and log_write.
log_check(c) ==
  /\ Goto(c, "check", IF g_log_ready THEN "poll" ELSE "dlab_on")
  /\ UNCHANGED <<g_log_ready, port, calls, spin, owed, environment>>

\* Mutation: the queue is cleared but not enabled.
FcrClearsOnly == FALSE

FcrEnables == TRUE

\* The stores of serial_init that matter here: the divisor latch bit set and
\* cleared around the divisor, and FCR, which also empties the queue.
serial_init(c) ==
  /\ \/ Goto(c, "dlab_on", "dlab_off") /\ dlab' = TRUE /\ UNCHANGED <<fifo, fifo_on>>
     \/ Goto(c, "dlab_off", "fcr") /\ dlab' = FALSE /\ UNCHANGED <<fifo, fifo_on>>
     \/ Goto(c, "fcr", "ready") /\ fifo' = << >> /\ fifo_on' = FcrEnables /\ UNCHANGED dlab
  /\ UNCHANGED <<g_log_ready, calls, spin, owed, environment>>

log_ready(c) ==
  /\ Goto(c, "ready", IF calls[c] = << >> THEN "idle" ELSE "poll")
  /\ g_log_ready' = TRUE
  /\ UNCHANGED <<port, calls, spin, owed, environment>>

\* The byte is done with: the next byte, the next call, or none.
Advance(c) ==
  LET rest == Tail(calls[c][1])
      cs   == IF rest = << >> THEN Tail(calls[c]) ELSE <<rest>> \o Tail(calls[c])
  IN  /\ calls' = [calls EXCEPT ![c] = cs]
      /\ spin' = [spin EXCEPT ![c] = 0]
      /\ pc' = [pc EXCEPT ![c] = IF cs = << >> THEN "idle"
                                 ELSE IF rest = << >> THEN "check" ELSE "poll"]

serial_transmit_empty == fifo = << >>

\* Mutation: the polls are not counted.
NeverExpired(n) == FALSE

Expired(n) == n >= Limit

\* One turn of the polling loop; a byte whose polls run out is given up.
serial_poll(c) ==
  /\ Runs(c) /\ pc[c] = "poll"
  /\ \/ /\ serial_transmit_empty /\ Goto(c, "poll", "out")
        /\ UNCHANGED <<calls, spin>>
     \/ /\ ~serial_transmit_empty /\ Expired(spin[c] + 1) /\ Advance(c)
     \/ /\ ~serial_transmit_empty /\ ~Expired(spin[c] + 1)
        /\ spin' = [spin EXCEPT ![c] = IF @ < Limit THEN @ + 1 ELSE @]
        /\ UNCHANGED <<pc, calls>>
  /\ UNCHANGED <<g_log_ready, port, owed, environment>>

Capacity == IF fifo_on THEN FifoSize ELSE 1

\* outb of the byte.  A full queue drops it; with the latch bit set it goes to
\* the divisor.
serial_out(c) ==
  /\ Runs(c) /\ pc[c] = "out"
  /\ Advance(c)
  /\ owed' = Append(owed, calls[c][1][1])
  /\ fifo' = IF dlab \/ Len(fifo) >= Capacity THEN fifo ELSE Append(fifo, calls[c][1][1])
  /\ UNCHANGED <<g_log_ready, fifo_on, dlab, environment>>

Output(c) ==
  log_check(c) \/ serial_init(c) \/ log_ready(c) \/ serial_poll(c) \/ serial_out(c)

Transmit ==
  /\ fifo # << >>
  /\ fifo' = Tail(fifo) /\ owed' = Tail(owed)
  /\ UNCHANGED <<g_log_ready, fifo_on, dlab, ctxs, environment>>
-----------------------------------------------------------------------------
(* The callers                                                             *)

MainAt(a, b) == ~irq /\ at = a /\ at' = b

\* kmain sets the port up and logs with interrupts off, then enables them.
kmain ==
  \/ /\ MainAt("log_init", "boot") /\ Begin("main", "dlab_on", << >>)
     /\ UNCHANGED <<g_log_ready, port, owed, g_ticks, IF_, irq>>
  \/ /\ MainAt("boot", "sti") /\ Begin("main", "check", Line("main"))
     /\ UNCHANGED <<g_log_ready, port, owed, g_ticks, IF_, irq>>
  \/ /\ MainAt("sti", "run") /\ pc["main"] = "idle" /\ IF_' = TRUE
     /\ UNCHANGED <<g_log_ready, port, ctxs, owed, g_ticks, irq>>

\* A thread logs a line.
thread ==
  /\ MainAt("run", "run")
  /\ Begin("main", "check", Line("main"))
  /\ UNCHANGED <<g_log_ready, port, owed, g_ticks, IF_, irq>>

\* Mutation: interrupts stay on.
PanicKeepsIF == IF_

PanicIF == FALSE

\* A failed assertion of kmain, or from sti on an exception at any step of the
\* main flow or of the handler, neither of which is gone back to: cli, the
\* panic text, halt.
kernel_panic_at ==
  \/ /\ at = "run" \/ (at \in {"boot", "sti"} /\ pc["main"] = "idle")
     /\ at' = "panic" /\ irq' = FALSE /\ IF_' = PanicIF
     /\ pc' = [c \in Contexts |-> IF c = "main" THEN "check" ELSE "idle"]
     /\ calls' = [c \in Contexts |-> IF c = "main" THEN Line(c) ELSE << >>]
     /\ spin' = [c \in Contexts |-> 0]
     /\ UNCHANGED <<g_log_ready, port, owed, g_ticks>>
  \/ /\ MainAt("panic", "halted") /\ pc["main"] = "idle"
     /\ UNCHANGED <<g_log_ready, port, ctxs, owed, g_ticks, IF_, irq>>

\* The timer interrupt comes through an interrupt gate, counts the tick and
\* logs every LogEvery-th one.
timer_on_irq0 ==
  /\ ~irq /\ IF_
  /\ irq' = TRUE /\ IF_' = FALSE
  /\ g_ticks' = (g_ticks + 1) % LogEvery
  /\ IF g_ticks' = 0
     THEN /\ pc' = [pc EXCEPT !["irq"] = "check"]
          /\ calls' = [calls EXCEPT !["irq"] = Line("irq")]
          /\ spin' = [spin EXCEPT !["irq"] = 0]
     ELSE UNCHANGED ctxs
  /\ UNCHANGED <<g_log_ready, port, at, owed>>

iretq ==
  /\ irq /\ pc["irq"] = "idle"
  /\ irq' = FALSE /\ IF_' = TRUE
  /\ UNCHANGED <<g_log_ready, g_ticks, port, at, ctxs, owed>>

Main    == kmain \/ Output("main") \/ (at = "panic" /\ kernel_panic_at)
Handler == Output("irq") \/ iretq

Next == Main \/ Handler \/ thread \/ kernel_panic_at \/ timer_on_irq0 \/ Transmit

\* The handler goes on, and so does the main flow between two interrupts; the
\* port may stop for ever.
Spec == Init /\ [][Next]_vars /\ SF_vars(Main) /\ WF_vars(Handler)
-----------------------------------------------------------------------------
(* Properties                                                              *)

\* Every byte stored to the port is transmitted, in the order of the stores.
\* The poll of serial_putc may be stale when the byte is stored, because the
\* handler stored bytes in between, but the queue that serial_init enabled has
\* room; and serial_init never runs while bytes are queued.
NoByteLost == owed = fifo

\* Once the panic path has begun, nobody else writes: its text is not cut up by
\* a line of the timer.
PanicUninterrupted ==
  [][(at \in {"panic", "halted"} /\ Len(owed') > Len(owed))
       => (Head(owed'[Len(owed')]) = "main")]_vars

\* Every line ends, of the main flow, of the timer that interrupts it and of a
\* panic, even when the port never becomes ready.
LinesEnd == \A c \in Contexts : pc[c] # "idle" ~> pc[c] = "idle"
=============================================================================
