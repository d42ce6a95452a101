---------------------------- MODULE EntryProofs -----------------------------
(***************************************************************************)
(* What other flows of control cannot upset: the locks, for any number of  *)
(* contexts and calls, and the interrupt entry code, for every nesting of  *)
(* interrupts.                                                             *)
(***************************************************************************)
EXTENDS Sync, Traps, FiniteSetTheorems, TLAPS

LEMMA Concat ==
  ASSUME NEW S, NEW s \in Seq(S), NEW t \in Seq(S)
  PROVE  /\ s \o t \in Seq(S) /\ Len(s \o t) = Len(s) + Len(t)
         /\ \A p \in 1 .. Len(s) : (s \o t)[p] = s[p]
         /\ \A p \in 1 .. Len(t) : (s \o t)[Len(s) + p] = t[p]
OBVIOUS

\* A sequence with one element replaced.
LEMMA Update ==
  ASSUME NEW S, NEW s \in Seq(S), NEW i \in 1 .. Len(s), NEW e \in S,
         NEW u, u = [s EXCEPT ![i] = e]
  PROVE  /\ u \in Seq(S) /\ Len(u) = Len(s) /\ u[i] = e
         /\ \A k \in 1 .. Len(s) : k # i => u[k] = s[k]
OBVIOUS

(* The locks                                                               *)

\* A context that has loaded a counter still holds its value when it stores:
\* nobody else changes it.  This is what makes the invariant inductive.
RegistersFresh ==
  \A c \in Contexts :
    /\ pc[c] \in {"acquire_store", "release_store"} => reg[c] = m12_lock_depth
    /\ pc[c] = "add_store" => reg[c] = counter

SyncInv == TypeOK /\ MutualExclusion /\ NoLostUpdate /\ DepthIsExact /\ RegistersFresh

\* Asking for the lock and failing to get it changes nothing of the above.
LEMMA OutsideStep ==
  ASSUME SyncInv, NEW c \in Contexts,
         pc[c] \in {"out", "spin"}, NEW p \in {"out", "spin"}, Goto(c, p),
         calls' \in [Contexts -> 0 .. MaxCalls], locked' = locked,
         UNCHANGED <<kind, m12_lock_depth, counter, reg, sections>>
  PROVE  SyncInv'
<1> USE DEF Goto, Places, TypeOK, SyncInv
<1>1. \A e \in Contexts : pc'[e] = IF e = c THEN p ELSE pc[e]
  OBVIOUS
<1>2. TypeOK'
  BY Zenon
<1>3. MutualExclusion'
  BY <1>1 DEF MutualExclusion, Holding
<1>4. NoLostUpdate' /\ DepthIsExact' /\ RegistersFresh'
  BY <1>1 DEF NoLostUpdate, DepthIsExact, RegistersFresh
<1>5. QED
  BY <1>2, <1>3, <1>4

\* A test-and-set that finds 0 makes its context the only holder.
LEMMA TakeStep ==
  ASSUME SyncInv, NEW c \in Contexts,
         pc[c] \in {"out", "spin"}, locked = 0, locked' = 1, Goto(c, "acquire"),
         calls' \in [Contexts -> 0 .. MaxCalls],
         UNCHANGED <<kind, m12_lock_depth, counter, reg, sections>>
  PROVE  SyncInv'
<1> USE DEF Goto, Places, TypeOK, SyncInv
<1>1. \A e \in Contexts : pc'[e] = IF e = c THEN "acquire" ELSE pc[e]
  OBVIOUS
<1>2. \A e \in Contexts : ~Holding(e)
  BY DEF MutualExclusion
<1>3. TypeOK'
  BY Zenon
<1>4. MutualExclusion'
  BY <1>1, <1>2 DEF MutualExclusion, Holding
<1>5. NoLostUpdate' /\ DepthIsExact' /\ RegistersFresh'
  BY <1>1, <1>2 DEF NoLostUpdate, DepthIsExact, RegistersFresh, Holding
<1>6. QED
  BY <1>3, <1>4, <1>5

\* A step of the holder inside the critical section.
LEMMA InsideStep ==
  ASSUME SyncInv, NEW c \in Contexts,
         m12_lockdep_acquire(c) \/ AddOne(c) \/ m12_lockdep_release(c)
  PROVE  SyncInv'
<1> USE DEF Goto, Load, Places, TypeOK, SyncInv, DepthAboveZero
<1>1. Holding(c) /\ locked = 1 /\ \A e \in Contexts : e # c => pc[e] \in {"out", "spin"}
  BY DEF m12_lockdep_acquire, AddOne, m12_lockdep_release, Holding, MutualExclusion
<1>2. PICK p \in Places \ {"out", "spin"} : Goto(c, p)
  BY DEF m12_lockdep_acquire, AddOne, m12_lockdep_release
<1>3. \A e \in Contexts : pc'[e] = IF e = c THEN p ELSE pc[e]
  BY <1>2
<1>4. TypeOK'
  BY DEF m12_lockdep_acquire, AddOne, m12_lockdep_release
<1>5. locked' = locked
  BY DEF m12_lockdep_acquire, AddOne, m12_lockdep_release
<1>6. MutualExclusion'
  BY <1>1, <1>2, <1>3, <1>5 DEF MutualExclusion, Holding
<1>7. CASE m12_lockdep_acquire(c)
  BY <1>1, <1>4, <1>6, <1>7
     DEF m12_lockdep_acquire, NoLostUpdate, DepthIsExact, RegistersFresh
<1>8. CASE AddOne(c)
  BY <1>1, <1>4, <1>6, <1>8 DEF AddOne, NoLostUpdate, DepthIsExact, RegistersFresh
<1>9. CASE m12_lockdep_release(c)
  BY <1>1, <1>4, <1>6, <1>9
     DEF m12_lockdep_release, NoLostUpdate, DepthIsExact, RegistersFresh
<1>10. QED
  BY <1>7, <1>8, <1>9

LEMMA UnlockStep ==
  ASSUME SyncInv, NEW c \in Contexts, Unlock(c)
  PROVE  SyncInv'
<1> USE DEF Unlock, Goto, Places, TypeOK, SyncInv
<1>1. \A e \in Contexts : e # c => pc[e] \in {"out", "spin"}
  BY DEF Holding, MutualExclusion
<1>2. \A e \in Contexts : pc'[e] = IF e = c THEN "out" ELSE pc[e]
  OBVIOUS
<1>3. TypeOK'
  OBVIOUS
<1>4. MutualExclusion'
  BY <1>1, <1>2 DEF MutualExclusion, Holding
<1>5. NoLostUpdate' /\ DepthIsExact' /\ RegistersFresh'
  BY <1>1, <1>2 DEF NoLostUpdate, DepthIsExact, RegistersFresh
<1>6. QED
  BY <1>3, <1>4, <1>5

LEMMA SyncStep == SyncInv /\ [Next]_vars => SyncInv'
<1> SUFFICES ASSUME SyncInv, [Next]_vars PROVE SyncInv'
  OBVIOUS
<1>1. CASE UNCHANGED vars
  BY <1>1 DEF vars, SyncInv, TypeOK, MutualExclusion, NoLostUpdate, DepthIsExact,
              RegistersFresh, Holding
<1>2. ASSUME NEW c \in Contexts, Lock(c) PROVE SyncInv'
  BY <1>2, OutsideStep, SyncAssumption DEF Lock, SyncInv, TypeOK
<1>3. ASSUME NEW c \in Contexts, Spin(c) \/ mcs_spin_try_lock(c) PROVE SyncInv'
  <2>1. /\ calls' \in [Contexts -> 0 .. MaxCalls] /\ pc[c] \in {"out", "spin"}
        /\ locked \in {0, 1}
        /\ UNCHANGED <<kind, m12_lock_depth, counter, reg, sections>>
    BY <1>3, SyncAssumption DEF Spin, mcs_spin_try_lock, SyncInv, TypeOK
  <2>2. CASE locked = 0
    BY <1>3, <2>1, <2>2, TakeStep DEF Spin, mcs_spin_try_lock, TestAndSet
  <2>3. CASE locked = 1
    BY <1>3, <2>1, <2>3, OutsideStep DEF Spin, mcs_spin_try_lock, TestAndSet
  <2>4. QED
    BY <2>1, <2>2, <2>3
<1>4. ASSUME NEW c \in Contexts, Unlock(c) PROVE SyncInv'
  BY <1>4, UnlockStep
<1>5. ASSUME NEW c \in Contexts, m12_lockdep_acquire(c) \/ AddOne(c) \/ m12_lockdep_release(c)
      PROVE  SyncInv'
  BY <1>5, InsideStep
<1>6. QED
  BY <1>1, <1>2, <1>3, <1>4, <1>5 DEF Next, Run

\* For any number of contexts: at most one holds the lock, no increment made
\* under it is lost, and the lockdep depth is exact.
THEOREM LockCorrect ==
  Spec => [](TypeOK /\ MutualExclusion /\ NoLostUpdate /\ DepthIsExact)
<1>1. Init => SyncInv
  BY SyncAssumption DEF Init, SyncInv, TypeOK, Places, MutualExclusion, NoLostUpdate,
                        DepthIsExact, RegistersFresh, Holding
<1>2. Spec => []SyncInv
  BY <1>1, SyncStep, PTL DEF Spec
<1>3. QED
  BY <1>2, PTL DEF SyncInv
-----------------------------------------------------------------------------
(* The interrupt entry code                                                *)

\* What registers and stack words can hold.
Values ==
  {"pad", "ss", "rflags", "cs", "rip", "error", 0, <<"junk">>} \cup Vectors
    \cup {<<"own", r>> : r \in Registers} \cup {<<"rsp", n>> : n \in Nat}

Flow == [vector : Vectors, pc : Nat, regs : [Registers -> Values], stack : Seq(Values)]

\* The size of the CPU's frame on the stack st, with all that lies below it.
Top(st) == (IF Len(st) % 2 = 0 THEN Len(st) ELSE Len(st) + 1) + 5

\* How far the flow is past its stub.
Past(f) == f.pc - Len(Stub(f.vector))

\* The stack's height in a flow, told from the program counter.
Height(f) ==
  IF Past(f) <= 16 THEN Top(f.stack) + 1 + Past(f)
  ELSE IF Past(f) <= 32 THEN Top(f.stack) + 34 - Past(f) ELSE Top(f.stack)

\* The word that the flow keeps at height j.
Kept(f, j) ==
  IF j <= Top(f.stack) THEN Frame(f.stack)[j]
  ELSE IF j = Top(f.stack) + 1 THEN (IF f.vector \in CpuErrorVectors THEN "error" ELSE 0)
  ELSE IF j = Top(f.stack) + 2 THEN f.vector
  ELSE f.regs[Saved[j - Top(f.stack) - 2]]

\* A register holds what it held at the interruption: all before the call, and
\* after it those C code preserves and those that are popped again.
Restores(f, r) ==
  Past(f) <= 16 \/ r \notin CallerSaved \/ \E k \in 1 .. 15 : r = Saved[k] /\ k > 32 - Past(f)

InCode(f)        == f.pc >= 1 /\ Past(f) <= 33
RegsLevel(f, rg) == \A r \in Registers : Restores(f, r) => rg[r] = f.regs[r]
StackLevel(f, st) == Len(st) = Height(f) /\ \A j \in 1 .. Height(f) : st[j] = Kept(f, j)

\* A flow f that is in progress or was interrupted with registers rg and stack st.
Level(f, rg, st) == InCode(f) /\ RegsLevel(f, rg) /\ StackLevel(f, st)

TrapInv ==
  /\ regs \in [Registers -> Values] /\ stack \in Seq(Values) /\ flow \in Seq(Flow)
  /\ flow # << >> => Level(flow[Len(flow)], regs, stack)
  /\ \A k \in 1 .. Len(flow) - 1 : Level(flow[k], flow[k + 1].regs, flow[k + 1].stack)
-----------------------------------------------------------------------------
\* The code

LEMMA SavedFacts ==
  /\ \A k \in 1 .. 15 : Saved[k] \in Registers
  /\ Len(Saved) = 15
  /\ \A r \in Registers : \E k \in 1 .. 15 : r = Saved[k]
  /\ \A k, l \in 1 .. 15 : Saved[k] = Saved[l] => k = l
  /\ \A k \in 1 .. 15 : Restored[k] = Saved[16 - k]
<1>1. \A k \in 1 .. 15 : Saved[k] \in Registers
  BY DEF Saved, Registers
<1>2. Len(Saved) = 15
  BY DEF Saved
<1>3. \A r \in Registers : \E k \in 1 .. 15 : r = Saved[k]
  BY DEF Saved, Registers
<1>4. \A k, l \in 1 .. 15 : Saved[k] = Saved[l] => k = l
  BY DEF Saved
<1>5. \A k \in 1 .. 15 : Restored[k] = Saved[16 - k]
  BY <1>2 DEF Restored
<1> QED BY <1>1, <1>2, <1>3, <1>4, <1>5

LEMMA StubFacts ==
  ASSUME NEW v \in Vectors
  PROVE  /\ v \in CpuErrorVectors => Stub(v) = <<Op("push", v)>> /\ Len(Stub(v)) = 1
         /\ v \notin CpuErrorVectors => Stub(v) = <<Op("push", 0), Op("push", v)>> /\ Len(Stub(v)) = 2
         /\ Len(Stub(v)) \in 1 .. 2
<1>1. v \in CpuErrorVectors <=> v \in ErrStubs
  BY TrapsAssumption DEF CpuErrorVectors, ErrStubs
<1> QED BY <1>1 DEF Stub

LEMMA CommonFacts ==
  /\ \A p \in 1 .. 15 : isr_common[p] = Op("pushreg", Saved[p])
  /\ isr_common[16] = Op("call", 0)
  /\ \A p \in 17 .. 31 : isr_common[p] = Op("popreg", Saved[32 - p])
  /\ isr_common[32] = Op("drop", 2)
  /\ isr_common[33] = Op("iretq", 0)
<1>1. \A p \in 17 .. 31 : isr_common[p] = Op("popreg", Restored[p - 16])
  BY DEF isr_common
<1>2. \A p \in 17 .. 31 : Restored[p - 16] = Saved[32 - p]
  <2> SUFFICES ASSUME NEW p \in 17 .. 31
               PROVE  Restored[p - 16] = Saved[32 - p]
    OBVIOUS
  <2>1. p - 16 \in 1 .. 15 /\ 16 - (p - 16) = 32 - p
    OBVIOUS
  <2> QED BY <2>1, SavedFacts
<1>3. \A p \in 1 .. 15 : isr_common[p] = Op("pushreg", Saved[p])
  BY DEF isr_common
<1>4. isr_common[16] = Op("call", 0) /\ isr_common[32] = Op("drop", 2) /\ isr_common[33] = Op("iretq", 0)
  BY DEF isr_common
<1> QED BY <1>1, <1>2, <1>3, <1>4

\* The instruction at each place of a flow's code.
LEMMA CodeFacts ==
  ASSUME NEW f \in Flow, f.pc >= 1
  PROVE  /\ Past(f) <= 0 => Code(f.vector, f.pc) = Op("push", IF Past(f) = 0 THEN f.vector ELSE 0)
         /\ Past(f) \in 1 .. 33 => Code(f.vector, f.pc) = isr_common[Past(f)]
         /\ Past(f) \in Int /\ Past(f) >= -1
         /\ Past(f) = -1 => f.vector \notin CpuErrorVectors /\ f.pc = 1
<1>1. f.vector \in Vectors /\ f.pc \in Nat
  BY DEF Flow
<1>2. CASE f.vector \in CpuErrorVectors
  <2>1. Stub(f.vector) = <<Op("push", f.vector)>> /\ Len(Stub(f.vector)) = 1
    BY <1>1, <1>2, StubFacts
  <2>2. Past(f) = f.pc - 1 /\ Past(f) \in Int /\ Past(f) >= 0
    BY <1>1, <2>1 DEF Past
  <2>3. Code(f.vector, f.pc) = IF f.pc <= 1 THEN <<Op("push", f.vector)>>[f.pc] ELSE isr_common[f.pc - 1]
    BY <2>1 DEF Code
  <2>4. Past(f) <= 0 => f.pc = 1 /\ Past(f) = 0
    BY <1>1, <2>2
  <2>5. Past(f) <= 0 => Code(f.vector, f.pc) = Op("push", IF Past(f) = 0 THEN f.vector ELSE 0)
    BY <2>3, <2>4
  <2> QED BY <1>1, <2>2, <2>3, <2>5
<1>3. CASE f.vector \notin CpuErrorVectors
  <2>1. Stub(f.vector) = <<Op("push", 0), Op("push", f.vector)>> /\ Len(Stub(f.vector)) = 2
    BY <1>1, <1>3, StubFacts
  <2>2. Past(f) = f.pc - 2 /\ Past(f) \in Int /\ Past(f) >= -1
    BY <1>1, <2>1 DEF Past
  <2>3. Code(f.vector, f.pc) = IF f.pc <= 2 THEN <<Op("push", 0), Op("push", f.vector)>>[f.pc]
                               ELSE isr_common[f.pc - 2]
    BY <2>1 DEF Code
  <2>4. Past(f) <= 0 => (f.pc = 1 /\ Past(f) = -1) \/ (f.pc = 2 /\ Past(f) = 0)
    BY <1>1, <2>2
  <2>5. Past(f) <= 0 => Code(f.vector, f.pc) = Op("push", IF Past(f) = 0 THEN f.vector ELSE 0)
    BY <2>3, <2>4
  <2> QED BY <1>1, <1>3, <2>2, <2>3, <2>4, <2>5
<1> QED BY <1>2, <1>3
-----------------------------------------------------------------------------
\* The stack

LEMMA Parity ==
  ASSUME NEW n \in Nat
  PROVE  (IF n % 2 = 0 THEN n ELSE n + 1) % 2 = 0
OBVIOUS

LEMMA FrameFacts ==
  ASSUME NEW st \in Seq(Values)
  PROVE  /\ Frame(st) \in Seq(Values) /\ Len(Frame(st)) = Top(st) /\ Top(st) \in Nat
         /\ Len(st) \in Nat /\ Top(st) >= Len(st) + 5 /\ (Top(st) + 1) % 2 = 0
         /\ \A j \in 1 .. Len(st) : Frame(st)[j] = st[j]
         /\ Frame(st)[Top(st)] = "rip" /\ Frame(st)[Top(st) - 1] = "cs"
         /\ Frame(st)[Top(st) - 2] = "rflags" /\ Frame(st)[Top(st) - 3] = <<"rsp", Len(st)>>
<1> DEFINE aligned == IF Len(st) % 2 = 0 THEN st ELSE Append(st, "pad")
           five == <<"ss", <<"rsp", Len(st)>>, "rflags", "cs", "rip">>
<1>1. Len(st) \in Nat
  OBVIOUS
<1>2. five \in Seq(Values) /\ Len(five) = 5
  BY <1>1 DEF Values
<1>3. /\ aligned \in Seq(Values) /\ Len(aligned) + 5 = Top(st) /\ Len(aligned) >= Len(st)
      /\ \A j \in 1 .. Len(st) : aligned[j] = st[j]
  BY <1>1 DEF Values, Top
<1>4. (Top(st) + 1) % 2 = 0
  <2> DEFINE even == IF Len(st) % 2 = 0 THEN Len(st) ELSE Len(st) + 1
  <2>1. even \in Nat /\ even % 2 = 0 /\ Top(st) = even + 5
    <3>1. even % 2 = 0
      BY <1>1, Parity, Zenon
    <3>2. even \in Nat /\ Top(st) = even + 5
      BY <1>1 DEF Top
    <3> QED BY Zenon, <3>1, <3>2
  <2> HIDE DEF even
  <2> QED BY <2>1
<1>5. Frame(st) = aligned \o five
  BY DEF Frame
<1>6. five[2] = <<"rsp", Len(st)>> /\ five[3] = "rflags" /\ five[4] = "cs" /\ five[5] = "rip"
  OBVIOUS
<1> HIDE DEF aligned, five
<1>7. /\ Frame(st) \in Seq(Values) /\ Len(Frame(st)) = Len(aligned) + Len(five)
      /\ \A p \in 1 .. Len(aligned) : Frame(st)[p] = aligned[p]
      /\ \A p \in 1 .. Len(five) : Frame(st)[Len(aligned) + p] = five[p]
  <2>1. aligned \in Seq(Values) /\ five \in Seq(Values)
    BY <1>2, <1>3
  <2> QED BY <1>5, <2>1, Concat
<1>8. Len(aligned) \in Nat
  BY <1>3
<1> DEFINE n == Len(aligned)
<1>9. /\ n \in Nat /\ n >= Len(st) /\ Top(st) = n + 5
      /\ \A p \in 1 .. n : Frame(st)[p] = aligned[p]
      /\ \A p \in 1 .. 5 : Frame(st)[n + p] = five[p]
  BY <1>1, <1>2, <1>3, <1>7, <1>8
<1> HIDE DEF n
<1>10. /\ Frame(st)[n + 2] = five[2] /\ Frame(st)[n + 3] = five[3]
       /\ Frame(st)[n + 4] = five[4] /\ Frame(st)[n + 5] = five[5]
  BY <1>9
<1>11. Top(st) - 3 = n + 2 /\ Top(st) - 2 = n + 3 /\ Top(st) - 1 = n + 4
  BY <1>9
<1>12. \A j \in 1 .. Len(st) : Frame(st)[j] = st[j]
  <2>1. \A j \in 1 .. Len(st) : j \in 1 .. n
    BY <1>1, <1>9
  <2> QED BY <1>3, <1>9, <2>1
<1>13. Len(Frame(st)) = Top(st) /\ Top(st) \in Nat /\ Top(st) >= Len(st) + 5
  BY <1>1, <1>2, <1>7, <1>9 DEF n
<1> QED BY <1>1, <1>4, <1>6, <1>7, <1>9, <1>10, <1>11, <1>12, <1>13

\* What the flow keeps does not depend on its program counter.
Advance(f) == [f EXCEPT !.pc = @ + 1]

LEMMA AdvanceFacts ==
  ASSUME NEW f \in Flow, f.pc >= 1
  PROVE  /\ Advance(f) \in Flow /\ Past(f) \in Int /\ Past(Advance(f)) = Past(f) + 1
         /\ Advance(f).vector = f.vector /\ Advance(f).regs = f.regs /\ Advance(f).stack = f.stack
         /\ Advance(f).pc >= 1
         /\ \A j : Kept(Advance(f), j) = Kept(f, j)
         /\ Top(f.stack) \in Nat /\ Height(f) \in Nat
<1>1. f.vector \in Vectors /\ f.pc \in Nat /\ f.stack \in Seq(Values) /\ f.regs \in [Registers -> Values]
  BY DEF Flow
<1>2. /\ Advance(f) \in Flow /\ Advance(f).vector = f.vector /\ Advance(f).regs = f.regs
      /\ Advance(f).stack = f.stack /\ Advance(f).pc = f.pc + 1
  BY <1>1 DEF Flow, Advance
<1>3. Len(Stub(f.vector)) \in 1 .. 2
  BY <1>1, StubFacts
<1>4. Past(f) \in Int /\ Past(Advance(f)) = Past(f) + 1 /\ Past(f) >= -1
  BY <1>1, <1>2, <1>3, CodeFacts DEF Past
<1>5. \A j : Kept(Advance(f), j) = Kept(f, j)
  BY <1>2 DEF Kept
<1>6. Top(f.stack) \in Nat
  BY ZenonT(30), <1>1, FrameFacts
<1>7. Height(f) \in Nat
  BY SMTT(30), <1>4, <1>6 DEF Height
<1> QED BY <1>1, <1>2, <1>4, <1>5, <1>6, <1>7

LEMMA KeptFacts ==
  ASSUME NEW f \in Flow
  PROVE  /\ Kept(f, Top(f.stack) + 1) = IF f.vector \in CpuErrorVectors THEN "error" ELSE 0
         /\ Kept(f, Top(f.stack) + 2) = f.vector
         /\ \A k \in 1 .. 15 : Kept(f, Top(f.stack) + 2 + k) = f.regs[Saved[k]]
         /\ \A j \in 1 .. Top(f.stack) : Kept(f, j) = Frame(f.stack)[j]
<1>1. Top(f.stack) \in Nat
  BY FrameFacts DEF Flow
<1>2. \A k \in 1 .. 15 : (Top(f.stack) + 2 + k) - Top(f.stack) - 2 = k
  BY SMTT(30), <1>1
<1> QED BY <1>1, <1>2 DEF Kept

\* How each kind of instruction changes the height that is due.
LEMMA HeightFacts ==
  ASSUME NEW f \in Flow, InCode(f)
  PROVE  /\ Past(f) <= 15 => Height(Advance(f)) = Height(f) + 1
         /\ Past(f) = 16 => Height(Advance(f)) = Height(f) /\ Height(f) = Top(f.stack) + 17
         /\ Past(f) \in 17 .. 31 => /\ Height(f) = Top(f.stack) + 2 + (32 - Past(f))
                                    /\ 32 - Past(f) \in 1 .. 15
                                    /\ Height(Advance(f)) = Height(f) - 1
                                    /\ Height(f) \in 1 .. Height(f)
         /\ Past(f) = 32 => /\ Height(Advance(f)) = Height(f) - 2
                            /\ Height(f) - 2 \in 0 .. Height(f)
         /\ Past(f) = 33 => Height(f) = Top(f.stack)
         /\ Past(f) <= 32 => InCode(Advance(f))
<1>1. /\ Past(f) \in Int /\ Past(Advance(f)) = Past(f) + 1 /\ Advance(f).stack = f.stack
      /\ Top(f.stack) \in Nat /\ Advance(f).pc >= 1
  BY AdvanceFacts DEF InCode
<1> QED BY <1>1 DEF Height, InCode

\* Before the call, and where all is popped again, every register is restored.
LEMMA RegsWhole ==
  ASSUME NEW f \in Flow, InCode(f), NEW rg, RegsLevel(f, rg), Past(f) <= 16 \/ Past(f) >= 32
  PROVE  \A r \in Registers : rg[r] = f.regs[r]
<1>1. Past(f) \in Int
  BY AdvanceFacts DEF InCode
<1>2. ASSUME NEW r \in Registers, Past(f) >= 32
      PROVE  Restores(f, r)
  <2>1. PICK k \in 1 .. 15 : r = Saved[k]
    BY SavedFacts
  <2>2. k > 32 - Past(f)
    BY <1>1, <1>2
  <2> QED BY <2>1, <2>2 DEF Restores
<1>3. \A r \in Registers : Restores(f, r)
  BY <1>2 DEF Restores
<1> QED BY <1>3 DEF RegsLevel

LEMMA RegsSame ==
  ASSUME NEW f \in Flow, InCode(f), NEW rg, RegsLevel(f, rg), Past(f) <= 15 \/ Past(f) = 32
  PROVE  RegsLevel(Advance(f), rg)
<1>1. Past(f) \in Int /\ Advance(f).regs = f.regs
  BY AdvanceFacts DEF InCode
<1>2. \A r \in Registers : rg[r] = f.regs[r]
  BY <1>1, RegsWhole
<1> QED BY <1>1, <1>2 DEF RegsLevel

LEMMA RegsCall ==
  ASSUME NEW f \in Flow, InCode(f), NEW rg, RegsLevel(f, rg), Past(f) = 16,
         NEW rh, \A r \in Registers : r \notin CallerSaved => rh[r] = rg[r]
  PROVE  RegsLevel(Advance(f), rh)
<1>1. Past(Advance(f)) = 17 /\ Advance(f).regs = f.regs
  BY AdvanceFacts DEF InCode
<1>2. \A r \in Registers : rg[r] = f.regs[r]
  BY RegsWhole
<1>3. \A r \in Registers : Restores(Advance(f), r) => r \notin CallerSaved
  BY <1>1 DEF Restores
<1> QED BY <1>1, <1>2, <1>3 DEF RegsLevel

LEMMA RegsPop ==
  ASSUME NEW f \in Flow, InCode(f), NEW rg \in [Registers -> Values], RegsLevel(f, rg),
         Past(f) \in 17 .. 31
  PROVE  LET k == 32 - Past(f)
         IN  RegsLevel(Advance(f), [rg EXCEPT ![Saved[k]] = f.regs[Saved[k]]])
<1> DEFINE k == 32 - Past(f)
           rh == [rg EXCEPT ![Saved[k]] = f.regs[Saved[k]]]
<1>1. Past(Advance(f)) = Past(f) + 1 /\ Advance(f).regs = f.regs
  BY AdvanceFacts DEF InCode
<1>2. ASSUME NEW r \in Registers, Restores(Advance(f), r)
      PROVE  rh[r] = f.regs[r]
  <2>1. CASE r = Saved[k]
    BY <2>1
  <2>2. CASE r # Saved[k]
    <3>1. rh[r] = rg[r]
      BY <2>2
    <3>2. Restores(f, r)
      <4>1. CASE r \notin CallerSaved
        BY <4>1 DEF Restores
      <4>2. CASE r \in CallerSaved
        <5>1. PICK l \in 1 .. 15 : r = Saved[l] /\ l > 32 - (Past(f) + 1)
          BY <1>1, <1>2, <4>2 DEF Restores
        <5>2. l > 32 - Past(f)
          BY <2>2, <5>1
        <5> QED BY <5>1, <5>2 DEF Restores
      <4> QED BY <4>1, <4>2
    <3> QED BY <3>1, <3>2 DEF RegsLevel
  <2> QED BY <2>1, <2>2
<1> QED BY <1>1, <1>2 DEF RegsLevel

\* The stack of a flow after a word more or some words less.
LEMMA StackGrows ==
  ASSUME NEW f \in Flow, f.pc >= 1, NEW st \in Seq(Values), StackLevel(f, st),
         NEW w \in Values, w = Kept(f, Height(f) + 1), Height(Advance(f)) = Height(f) + 1
  PROVE  StackLevel(Advance(f), Append(st, w))
<1>1. Height(f) \in Nat /\ \A j : Kept(Advance(f), j) = Kept(f, j)
  BY AdvanceFacts
<1>2. Len(st) = Height(f) /\ \A j \in 1 .. Height(f) : st[j] = Kept(f, j)
  BY DEF StackLevel
<1>3. /\ Len(Append(st, w)) = Height(f) + 1
      /\ \A j \in 1 .. Height(f) + 1 : Append(st, w)[j] = Kept(f, j)
  BY <1>1, <1>2
<1> QED BY <1>1, <1>3 DEF StackLevel

LEMMA StackShrinks ==
  ASSUME NEW f \in Flow, f.pc >= 1, NEW st \in Seq(Values), StackLevel(f, st),
         NEW h \in 0 .. Height(f), Height(Advance(f)) = h
  PROVE  StackLevel(Advance(f), SubSeq(st, 1, h))
<1>1. Height(f) \in Nat /\ \A j : Kept(Advance(f), j) = Kept(f, j)
  BY AdvanceFacts
<1>2. Len(st) = Height(f) /\ \A j \in 1 .. Height(f) : st[j] = Kept(f, j)
  BY DEF StackLevel
<1>3. /\ Len(SubSeq(st, 1, h)) = h
      /\ \A j \in 1 .. h : SubSeq(st, 1, h)[j] = Kept(f, j)
  BY <1>1, <1>2
<1> QED BY <1>1, <1>3 DEF StackLevel

\* Where the flow returns, it gives back the registers and the stack.
LEMMA ReturnLevel ==
  ASSUME NEW f \in Flow, NEW rg \in [Registers -> Values], NEW st \in Seq(Values),
         Level(f, rg, st), Past(f) = 33
  PROVE  rg = f.regs /\ SubSeq(st, 1, st[Len(st) - 3][2]) = f.stack
<1>1. f.stack \in Seq(Values) /\ f.regs \in [Registers -> Values]
  BY DEF Flow
<1>2. /\ Top(f.stack) \in Nat /\ Len(f.stack) \in Nat /\ Top(f.stack) >= Len(f.stack) + 5
      /\ \A j \in 1 .. Len(f.stack) : Frame(f.stack)[j] = f.stack[j]
      /\ Frame(f.stack)[Top(f.stack) - 3] = <<"rsp", Len(f.stack)>>
  BY Zenon, <1>1, FrameFacts
<1>3. /\ Len(st) = Top(f.stack)
      /\ \A j \in 1 .. Top(f.stack) : st[j] = Frame(f.stack)[j]
  <2>1. Height(f) = Top(f.stack)
    BY HeightFacts DEF Level
  <2> QED BY ZenonT(30), <2>1, KeptFacts DEF Level, StackLevel
<1>4. st[Len(st) - 3][2] = Len(f.stack)
  <2>1. Len(st) - 3 = Top(f.stack) - 3 /\ Top(f.stack) - 3 \in 1 .. Top(f.stack)
    BY <1>2, <1>3
  <2> QED BY <1>2, <1>3, <2>1
<1>5. SubSeq(st, 1, Len(f.stack)) = f.stack
  <2>1. \A j \in 1 .. Len(f.stack) : st[j] = f.stack[j]
    BY <1>2, <1>3
  <2>2. Len(f.stack) <= Len(st)
    BY <1>2, <1>3
  <2> QED BY <1>1, <1>2, <2>1, <2>2
<1>6. rg = f.regs
  <2>1. \A r \in Registers : rg[r] = f.regs[r]
    BY RegsWhole DEF Level
  <2> QED BY <1>1, <2>1
<1> QED BY <1>4, <1>5, <1>6
-----------------------------------------------------------------------------
\* The invariant

LEMMA TrapInitInv == TrapInit => TrapInv
<1> SUFFICES ASSUME TrapInit PROVE TrapInv
  OBVIOUS
<1>1. regs \in [Registers -> Values]
  BY DEF TrapInit, Values
<1>2. stack \in Seq(Values) /\ flow \in Seq(Flow) /\ Len(flow) = 0
  BY DEF TrapInit
<1>3. flow = << >>
  BY DEF TrapInit
<1> QED BY <1>1, <1>2, <1>3 DEF TrapInv

\* The innermost flow goes on by an instruction.
LEMMA Stepped ==
  ASSUME TrapInv, flow # << >>,
         flow' = [flow EXCEPT ![Len(flow)].pc = @ + 1],
         regs' \in [Registers -> Values], stack' \in Seq(Values),
         Level(Advance(flow[Len(flow)]), regs', stack')
  PROVE  TrapInv'
<1> DEFINE n == Len(flow)
           f == flow[n]
<1>1. n \in Nat /\ n >= 1 /\ flow \in Seq(Flow)
  BY DEF TrapInv
<1>2. f \in Flow /\ f.pc >= 1
  BY <1>1 DEF TrapInv, Level, InCode
<1>3. Advance(f) \in Flow /\ Advance(f).regs = f.regs /\ Advance(f).stack = f.stack
  BY Zenon, <1>2, AdvanceFacts
<1>4. flow' = [flow EXCEPT ![n] = Advance(f)]
  BY <1>1 DEF Advance
<1>5. /\ flow' \in Seq(Flow) /\ Len(flow') = n /\ flow' # << >> /\ flow'[n] = Advance(f)
      /\ \A k \in 1 .. n - 1 : flow'[k] = flow[k]
  <2> HIDE DEF n, f
  <2>1. n \in 1 .. Len(flow)
    BY <1>1 DEF n
  <2>2. /\ flow' \in Seq(Flow) /\ Len(flow') = Len(flow) /\ flow'[n] = Advance(f)
        /\ \A k \in 1 .. Len(flow) : k # n => flow'[k] = flow[k]
    <3> DEFINE u == [flow EXCEPT ![n] = Advance(f)]
    <3> HIDE DEF u
    <3>1. u = [flow EXCEPT ![n] = Advance(f)]
      BY DEF u
    <3>2. flow \in Seq(Flow) /\ Advance(f) \in Flow
      BY <1>1, <1>3
    <3>3. /\ u \in Seq(Flow) /\ Len(u) = Len(flow) /\ u[n] = Advance(f)
          /\ \A k \in 1 .. Len(flow) : k # n => u[k] = flow[k]
      BY <2>1, <3>1, <3>2, Update
    <3> QED BY <1>4, <3>1, <3>3, Zenon
  <2>3. Len(flow') = n
    BY <2>2 DEF n
  <2>4. \A k \in 1 .. n - 1 : k \in 1 .. Len(flow) /\ k # n
    BY <1>1 DEF n
  <2>5. flow' # << >>
    BY <1>1, <2>2, <2>3
  <2> QED BY <2>2, <2>3, <2>4, <2>5
<1>6. ASSUME NEW k \in 1 .. n - 1
      PROVE  Level(flow'[k], flow'[k + 1].regs, flow'[k + 1].stack)
  <2>1. Level(flow[k], flow[k + 1].regs, flow[k + 1].stack) /\ flow'[k] = flow[k]
    BY <1>5 DEF TrapInv
  <2>2. CASE k = n - 1
    <3>1. flow'[k + 1] = Advance(f) /\ flow[k + 1] = f
      BY <1>1, <1>5, <2>2
    <3> QED BY <1>3, <2>1, <3>1
  <2>3. CASE k # n - 1
    <3>1. k + 1 \in 1 .. n - 1
      BY <1>1, <2>3
    <3>2. flow'[k + 1] = flow[k + 1]
      BY <1>5, <3>1
    <3> QED BY <2>1, <3>2
  <2> QED BY <2>2, <2>3
<1>7. Level(flow'[Len(flow')], regs', stack')
  BY ZenonT(30), <1>5
<1>8. \A k \in 1 .. Len(flow') - 1 : Level(flow'[k], flow'[k + 1].regs, flow'[k + 1].stack)
  BY <1>5, <1>6
<1> QED BY <1>5, <1>7, <1>8 DEF TrapInv

LEMMA InterruptionInv == ASSUME TrapInv, NEW v \in Vectors, Interruption(v) PROVE TrapInv'
<1> DEFINE g == [vector |-> v, pc |-> 1, regs |-> regs, stack |-> stack]
           n == Len(flow)
<1>1. n \in Nat /\ flow \in Seq(Flow) /\ regs \in [Registers -> Values] /\ stack \in Seq(Values)
  BY DEF TrapInv
<1>2. g \in Flow /\ g.pc >= 1 /\ g.vector = v /\ g.stack = stack /\ g.regs = regs
  BY <1>1 DEF Flow
<1>3. flow' = Append(flow, g) /\ regs' = regs
  BY DEF Interruption
<1> HIDE DEF g
<1>4. /\ flow' \in Seq(Flow) /\ Len(flow') = n + 1 /\ flow'[n + 1] = g
      /\ \A k \in 1 .. n : flow'[k] = flow[k]
  BY <1>1, <1>2, <1>3
<1>5. Past(g) = (IF v \in CpuErrorVectors THEN 0 ELSE -1)
  <2>1. g.pc = 1
    BY DEF g
  <2> QED BY <1>2, <2>1, StubFacts DEF Past
<1>6. Frame(stack) \in Seq(Values) /\ Len(Frame(stack)) = Top(stack) /\ Top(stack) \in Nat
  BY <1>1, FrameFacts
<1>7. Height(g) = (IF v \in CpuErrorVectors THEN Top(stack) + 1 ELSE Top(stack))
  BY <1>2, <1>5, <1>6 DEF Height
<1>8. stack' \in Seq(Values) /\ StackLevel(g, stack')
  <2>1. CASE v \in CpuErrorVectors
    <3>1. stack' = Append(Frame(stack), "error")
      BY <1>6, <2>1 DEF Interruption
    <3>2. "error" \in Values
      BY DEF Values
    <3>3. Kept(g, Top(stack) + 1) = "error" /\ \A j \in 1 .. Top(stack) : Kept(g, j) = Frame(stack)[j]
      BY <1>2, <2>1, KeptFacts
    <3>4. /\ stack' \in Seq(Values) /\ Len(stack') = Top(stack) + 1
          /\ \A j \in 1 .. Top(stack) + 1 : stack'[j] = Kept(g, j)
      BY <1>6, <3>1, <3>2, <3>3
    <3> QED BY <1>7, <2>1, <3>4 DEF StackLevel
  <2>2. CASE v \notin CpuErrorVectors
    <3>1. stack' = Frame(stack)
      BY <1>6, <2>2 DEF Interruption
    <3>2. \A j \in 1 .. Top(stack) : Kept(g, j) = Frame(stack)[j]
      BY <1>2, KeptFacts
    <3> QED BY <1>6, <1>7, <2>2, <3>1, <3>2 DEF StackLevel
  <2> QED BY <2>1, <2>2
<1>9. Level(g, regs', stack')
  BY <1>2, <1>3, <1>5, <1>8 DEF Level, InCode, RegsLevel
<1>10. ASSUME NEW k \in 1 .. n
       PROVE  Level(flow'[k], flow'[k + 1].regs, flow'[k + 1].stack)
  <2>1. CASE k = n
    <3>1. flow # << >>
      BY <1>1, <2>1
    <3>2. Level(flow[n], regs, stack)
      BY <3>1 DEF TrapInv
    <3>3. flow'[k] = flow[n] /\ flow'[k + 1] = g
      BY <1>4, <2>1
    <3> QED BY <1>2, <3>2, <3>3
  <2>2. CASE k # n
    <3>1. k \in 1 .. n - 1 /\ flow'[k] = flow[k] /\ flow'[k + 1] = flow[k + 1]
      BY <1>1, <1>4, <2>2
    <3> QED BY <3>1 DEF TrapInv
  <2> QED BY <2>1, <2>2
<1>11. Level(flow'[Len(flow')], regs', stack')
  BY <1>4, <1>9
<1>12. \A k \in 1 .. Len(flow') - 1 : Level(flow'[k], flow'[k + 1].regs, flow'[k + 1].stack)
  BY <1>1, <1>4, <1>10
<1>13. regs' \in [Registers -> Values]
  BY ZenonT(30), <1>1, <1>3
<1> QED BY <1>4, <1>8, <1>11, <1>12, <1>13 DEF TrapInv

\* Which place of the code an instruction is at.
LEMMA Decode ==
  ASSUME NEW f \in Flow, InCode(f), NEW op, op = Code(f.vector, f.pc)
  PROVE  /\ op[1] = "push" => Past(f) <= 0 /\ op[2] = (IF Past(f) = 0 THEN f.vector ELSE 0)
         /\ op[1] = "pushreg" => Past(f) \in 1 .. 15 /\ op[2] = Saved[Past(f)]
         /\ op[1] = "call" => Past(f) = 16
         /\ op[1] = "popreg" => Past(f) \in 17 .. 31 /\ op[2] = Saved[32 - Past(f)]
         /\ op[1] = "drop" => Past(f) = 32 /\ op[2] = 2
         /\ op[1] = "iretq" => Past(f) = 33
<1> DEFINE p == Past(f)
<1>1. /\ p <= 0 => op = Op("push", IF p = 0 THEN f.vector ELSE 0)
      /\ p \in 1 .. 33 => op = isr_common[p]
      /\ p \in Int
  BY CodeFacts DEF InCode
<1>2. p <= 33
  BY DEF InCode
<1> HIDE DEF p
<1>3. p <= 0 \/ p \in 1 .. 15 \/ p = 16 \/ p \in 17 .. 31 \/ p = 32 \/ p = 33
  BY <1>1, <1>2
<1>4. CASE p <= 0
  BY <1>1, <1>4 DEF Op, p
<1>5. CASE p \in 1 .. 15
  BY SMTT(30), <1>1, <1>5, CommonFacts DEF Op, p
<1>6. CASE p = 16
  BY SMTT(30), <1>1, <1>6, CommonFacts DEF Op, p
<1>7. CASE p \in 17 .. 31
  BY SMTT(30), <1>1, <1>7, CommonFacts DEF Op, p
<1>8. CASE p = 32
  BY <1>1, <1>8, CommonFacts DEF Op, p
<1>9. CASE p = 33
  BY <1>1, <1>9, CommonFacts DEF Op, p
<1> QED BY SMTT(30), <1>3, <1>4, <1>5, <1>6, <1>7, <1>8, <1>9

\* The word that is pushed next is the one to be kept there.
LEMMA PushedWord ==
  ASSUME NEW f \in Flow, InCode(f), NEW rg \in [Registers -> Values], RegsLevel(f, rg)
  PROVE  /\ Past(f) <= 0 => LET w == IF Past(f) = 0 THEN f.vector ELSE 0
                            IN  w \in Values /\ w = Kept(f, Height(f) + 1)
         /\ Past(f) \in 1 .. 15 => LET w == rg[Saved[Past(f)]]
                                   IN  w \in Values /\ w = Kept(f, Height(f) + 1)
<1>1. f.vector \in Vectors /\ f.vector \in Values /\ 0 \in Values
  BY DEF Flow, Values
<1>2. /\ Past(f) \in Int /\ Past(f) >= -1
      /\ Past(f) = -1 => f.vector \notin CpuErrorVectors
  BY CodeFacts DEF InCode
<1>3. Top(f.stack) \in Nat
  BY AdvanceFacts DEF InCode
<1>4. CASE Past(f) = 0
  <2>1. Height(f) + 1 = Top(f.stack) + 2
    BY <1>3, <1>4 DEF Height
  <2> QED BY <1>1, <1>4, <2>1, KeptFacts
<1>5. CASE Past(f) = -1
  <2>1. Height(f) + 1 = Top(f.stack) + 1
    BY <1>3, <1>5 DEF Height
  <2> QED BY <1>1, <1>2, <1>5, <2>1, KeptFacts
<1>6. CASE Past(f) \in 1 .. 15
  <2> DEFINE k == Past(f)
  <2>1. Height(f) + 1 = Top(f.stack) + 2 + k
    BY <1>3, <1>6 DEF Height
  <2>2. rg[Saved[k]] = f.regs[Saved[k]] /\ rg[Saved[k]] \in Values
    <3>1. Saved[k] \in Registers
      BY <1>6, SavedFacts
    <3>2. Past(f) <= 16
      BY <1>6
    <3> QED BY <3>1, <3>2, RegsWhole
  <2>3. Kept(f, Top(f.stack) + 2 + k) = f.regs[Saved[k]]
    BY <1>6, KeptFacts
  <2> QED BY <1>6, <2>1, <2>2, <2>3
<1>7. Past(f) <= 0 => Past(f) = 0 \/ Past(f) = -1
  BY <1>2
<1> QED BY <1>4, <1>5, <1>6, <1>7

LEMMA WithoutLast ==
  ASSUME NEW S, NEW w \in Seq(S), w # << >>
  PROVE  /\ SubSeq(w, 1, Len(w) - 1) \in Seq(S) /\ Len(SubSeq(w, 1, Len(w) - 1)) = Len(w) - 1
         /\ \A k \in 1 .. Len(w) - 1 : SubSeq(w, 1, Len(w) - 1)[k] = w[k]
<1> DEFINE m == Len(w) - 1
<1>1. m \in 0 .. Len(w)
  OBVIOUS
<1> HIDE DEF m
<1>2. /\ SubSeq(w, 1, m) \in Seq(S) /\ Len(SubSeq(w, 1, m)) = m
      /\ \A k \in 1 .. m : SubSeq(w, 1, m)[k] = w[k]
  BY <1>1
<1> QED BY <1>2 DEF m

\* What iretq takes the machine back to: the outer flow at the place where it was
\* interrupted.
LEMMA Returned ==
  ASSUME TrapInv, flow # << >>, Past(flow[Len(flow)]) = 33,
         stack' = SubSeq(stack, 1, stack[Len(stack) - 3][2]), flow' = Outer, regs' = regs
  PROVE  TrapInv' /\ regs' = flow[Len(flow)].regs /\ stack' = flow[Len(flow)].stack
<1> DEFINE n == Len(flow)
           f == flow[n]
<1>1. n \in Nat /\ n >= 1 /\ flow \in Seq(Flow)
  BY DEF TrapInv
<1>2. f \in Flow /\ Level(f, regs, stack) /\ regs \in [Registers -> Values] /\ stack \in Seq(Values)
  BY <1>1 DEF TrapInv
<1>3. regs' = f.regs /\ stack' = f.stack
  BY <1>2, ReturnLevel
<1>4. regs' \in [Registers -> Values] /\ stack' \in Seq(Values)
  BY Zenon, <1>2, <1>3 DEF Flow
<1>5. flow' \in Seq(Flow) /\ Len(flow') = n - 1 /\ \A k \in 1 .. n - 1 : flow'[k] = flow[k]
  BY <1>1, WithoutLast DEF Outer
<1>6. flow' # << >> => Level(flow'[Len(flow')], regs', stack')
  <2> HAVE flow' # << >>
  <2>1. n - 1 \in 1 .. n - 1 /\ n - 1 + 1 = n
    BY <1>1, <1>5
  <2>2. Level(flow[n - 1], f.regs, f.stack)
    BY Zenon, <2>1 DEF TrapInv
  <2> QED BY Zenon, <1>3, <1>5, <2>1, <2>2
<1>7. ASSUME NEW k \in 1 .. Len(flow') - 1
      PROVE  Level(flow'[k], flow'[k + 1].regs, flow'[k + 1].stack)
  <2>1. k \in 1 .. n - 1 /\ k + 1 \in 1 .. n - 1
    BY <1>1, <1>5
  <2> QED BY Zenon, <1>5, <2>1 DEF TrapInv
<1> QED BY Zenon, <1>3, <1>4, <1>5, <1>6, <1>7 DEF TrapInv

LEMMA InstructionInv == ASSUME TrapInv, Instruction PROVE TrapInv'
<1> DEFINE n == Len(flow)
           f == flow[n]
           op == Code(f.vector, f.pc)
           next == [flow EXCEPT ![Len(flow)].pc = @ + 1]
<1>1. flow # << >> /\ n \in Nat /\ n >= 1 /\ flow \in Seq(Flow)
  BY DEF TrapInv, Instruction
<1>2. /\ f \in Flow /\ Level(f, regs, stack)
      /\ regs \in [Registers -> Values] /\ stack \in Seq(Values)
  BY <1>1 DEF TrapInv
<1>3. InCode(f) /\ RegsLevel(f, regs) /\ StackLevel(f, stack) /\ f.pc >= 1 /\ Past(f) \in Int
  BY <1>2, AdvanceFacts DEF Level, InCode
<1>4. f = Innermost
  BY <1>1 DEF Innermost
<1>5. ASSUME Past(f) <= 15, NEW w \in Values, w = Kept(f, Height(f) + 1),
             stack' = Append(stack, w), flow' = next, regs' = regs
      PROVE  TrapInv'
  <2>1. Height(Advance(f)) = Height(f) + 1 /\ InCode(Advance(f))
    BY <1>2, <1>3, <1>5, HeightFacts
  <2>2. StackLevel(Advance(f), stack')
    BY <1>2, <1>3, <1>5, <2>1, StackGrows
  <2>3. RegsLevel(Advance(f), regs')
    BY <1>2, <1>3, <1>5, RegsSame
  <2>4. stack' \in Seq(Values) /\ regs' \in [Registers -> Values]
    BY <1>2, <1>5
  <2>5. Level(Advance(flow[Len(flow)]), regs', stack')
    BY <2>1, <2>2, <2>3 DEF Level
  <2> QED BY <1>1, <1>5, <2>4, <2>5, Stepped
<1>6. CASE op[1] = "push" /\ stack' = Append(stack, op[2]) /\ flow' = next /\ regs' = regs
  <2>1. Past(f) <= 0 /\ op[2] = (IF Past(f) = 0 THEN f.vector ELSE 0)
    BY ZenonT(30), <1>2, <1>3, <1>6, Decode
  <2>2. op[2] \in Values /\ op[2] = Kept(f, Height(f) + 1)
    BY <1>2, <1>3, <2>1, PushedWord
  <2>3. Past(f) <= 15
    BY <1>3, <2>1
  <2> HIDE DEF op, f, next
  <2> QED BY <1>5, <1>6, <2>2, <2>3
<1>7. CASE op[1] = "pushreg" /\ stack' = Append(stack, regs[op[2]]) /\ flow' = next /\ regs' = regs
  <2>1. Past(f) \in 1 .. 15 /\ op[2] = Saved[Past(f)]
    BY ZenonT(30), <1>2, <1>3, <1>7, Decode
  <2>2. regs[op[2]] \in Values /\ regs[op[2]] = Kept(f, Height(f) + 1)
    BY <1>2, <1>3, <2>1, PushedWord
  <2>3. Past(f) <= 15
    BY <1>3, <2>1
  <2> HIDE DEF op, f, next
  <2> QED BY <1>5, <1>7, <2>2, <2>3
<1>8. CASE /\ op[1] = "call" /\ flow' = next /\ stack' = stack
           /\ regs' = [r \in Registers |-> IF r \in CallerSaved THEN <<"junk">> ELSE regs[r]]
  <2>1. Past(f) = 16
    BY ZenonT(30), <1>2, <1>3, <1>8, Decode
  <2>2. Height(Advance(f)) = Height(f) /\ InCode(Advance(f))
    BY <1>2, <1>3, <2>1, HeightFacts
  <2>3. regs' \in [Registers -> Values] /\ \A r \in Registers : r \notin CallerSaved => regs'[r] = regs[r]
    <3>1. <<"junk">> \in Values
      BY DEF Values
    <3>2. regs' = [r \in Registers |-> IF r \in CallerSaved THEN <<"junk">> ELSE regs[r]]
      BY SMTT(30), <1>8
    <3> QED BY <1>2, <3>1, <3>2
  <2>4. RegsLevel(Advance(f), regs')
    BY <1>2, <1>3, <2>1, <2>3, RegsCall
  <2>5. StackLevel(Advance(f), stack')
    <3>1. \A j : Kept(Advance(f), j) = Kept(f, j)
      BY <1>2, <1>3, AdvanceFacts
    <3> QED BY SMTT(30), <1>3, <1>8, <2>2, <3>1 DEF StackLevel
  <2>6. Level(Advance(flow[Len(flow)]), regs', stack')
    BY <2>2, <2>4, <2>5 DEF Level
  <2> QED BY <1>1, <1>2, <1>8, <2>3, <2>6, Stepped
<1>9. CASE /\ op[1] = "popreg" /\ regs' = [regs EXCEPT ![op[2]] = stack[Len(stack)]]
           /\ stack' = Pop(1) /\ flow' = next
  <2>1. Past(f) \in 17 .. 31 /\ op[2] = Saved[32 - Past(f)]
    BY ZenonT(30), <1>2, <1>3, <1>9, Decode
  <2>2. /\ Height(f) = Top(f.stack) + 2 + (32 - Past(f)) /\ 32 - Past(f) \in 1 .. 15
        /\ Height(Advance(f)) = Height(f) - 1 /\ Height(f) \in 1 .. Height(f)
        /\ InCode(Advance(f))
    <3> HIDE DEF f
    <3>1. Past(f) <= 32
      BY <2>1
    <3> QED BY ZenonT(30), <1>2, <1>3, <2>1, <3>1, HeightFacts
  <2>3. Len(stack) = Height(f) /\ stack[Len(stack)] = f.regs[Saved[32 - Past(f)]]
    <3>1. Len(stack) = Height(f) /\ stack[Height(f)] = Kept(f, Height(f))
      BY <1>3, <2>2 DEF StackLevel
    <3>2. Kept(f, Top(f.stack) + 2 + (32 - Past(f))) = f.regs[Saved[32 - Past(f)]]
      BY Zenon, <1>2, <2>2, KeptFacts
    <3> QED BY <2>2, <3>1, <3>2, Zenon
  <2>4. RegsLevel(Advance(f), regs')
    <3>1. regs' = [regs EXCEPT ![Saved[32 - Past(f)]] = f.regs[Saved[32 - Past(f)]]]
      BY <1>9, <2>1, <2>3
    <3> QED BY Zenon, <1>2, <1>3, <2>1, <3>1, RegsPop
  <2>5. regs' \in [Registers -> Values]
    <3>1. Saved[32 - Past(f)] \in Registers
      BY ZenonT(30), <2>2, SavedFacts
    <3>2. f.regs \in [Registers -> Values]
      BY <1>2 DEF Flow
    <3>3. f.regs[Saved[32 - Past(f)]] \in Values
      BY <3>1, <3>2
    <3> QED BY Zenon, <1>2, <1>9, <2>1, <2>3, <3>3
  <2>6. stack' = SubSeq(stack, 1, Height(f) - 1) /\ Height(f) - 1 \in 0 .. Height(f)
    <3>1. Height(f) \in Nat
      BY ZenonT(30), <1>2, <1>3, AdvanceFacts
    <3> QED BY SMTT(30), <1>9, <2>2, <2>3, <3>1 DEF Pop
  <2>7. StackLevel(Advance(f), stack')
    BY <1>2, <1>3, <2>2, <2>6, StackShrinks
  <2>8. stack' \in Seq(Values)
    <3>1. Height(f) \in Nat
      BY <1>2, <1>3, AdvanceFacts
    <3> QED BY SMTT(30), <1>2, <2>3, <2>6, <3>1
  <2>9. Level(Advance(flow[Len(flow)]), regs', stack')
    BY <2>2, <2>4, <2>7 DEF Level
  <2> QED BY <1>1, <1>9, <2>5, <2>8, <2>9, Stepped
<1>10. CASE op[1] = "drop" /\ stack' = Pop(op[2]) /\ flow' = next /\ regs' = regs
  <2>1. Past(f) = 32 /\ op[2] = 2
    BY ZenonT(30), <1>2, <1>3, <1>10, Decode
  <2>2. /\ Height(Advance(f)) = Height(f) - 2 /\ Height(f) - 2 \in 0 .. Height(f)
        /\ InCode(Advance(f))
    BY <1>2, <1>3, <2>1, HeightFacts
  <2>3. stack' = SubSeq(stack, 1, Height(f) - 2) /\ Len(stack) = Height(f)
    BY SMTT(30), <1>3, <1>10, <2>1 DEF Pop, StackLevel
  <2>4. StackLevel(Advance(f), stack')
    BY <1>2, <1>3, <2>2, <2>3, StackShrinks
  <2>5. RegsLevel(Advance(f), regs')
    BY <1>2, <1>3, <1>10, <2>1, RegsSame
  <2>6. stack' \in Seq(Values) /\ regs' \in [Registers -> Values]
    <3>1. Height(f) \in Nat
      BY <1>2, <1>3, AdvanceFacts
    <3> QED BY SMTT(30), <1>2, <1>10, <2>2, <2>3, <3>1
  <2>7. Level(Advance(flow[Len(flow)]), regs', stack')
    BY <2>2, <2>4, <2>5 DEF Level
  <2> QED BY <1>1, <1>10, <2>6, <2>7, Stepped
<1>11. CASE /\ op[1] = "iretq" /\ stack' = SubSeq(stack, 1, stack[Len(stack) - 3][2])
            /\ flow' = Outer /\ regs' = regs
  <2>1. Past(flow[Len(flow)]) = 33
    BY <1>2, <1>3, <1>11, Decode
  <2> QED BY SMTT(30), <1>1, <1>11, <2>1, Returned
<1> QED BY <1>4, <1>6, <1>7, <1>8, <1>9, <1>10, <1>11, Zenon DEF Instruction

LEMMA TrapNextInv == TrapInv /\ [TrapNext]_trapvars => TrapInv'
<1>1. CASE UNCHANGED trapvars
  BY <1>1 DEF TrapInv, trapvars
<1> QED BY <1>1, InterruptionInv, InstructionInv DEF TrapNext

LEMMA TrapInvariant == TrapSpec => []TrapInv
BY TrapInitInv, TrapNextInv, PTL DEF TrapSpec

\* The fields of the structure, told from the top of the stack.
LEMMA FieldFacts ==
  /\ DOMAIN Fields = 1 .. 20
  /\ \A k \in 1 .. 15 : Fields[k] = Saved[16 - k]
  /\ Fields[16] = "vector" /\ Fields[17] = "error_code"
  /\ Fields[18] = "rip" /\ Fields[19] = "cs" /\ Fields[20] = "rflags"
<1>1. \A k \in 1 .. 15 : Fields[k] = Saved[16 - k]
  BY DEF Fields, Saved
<1> QED BY <1>1 DEF Fields

LEMMA FieldOf ==
  ASSUME NEW f
  PROVE  /\ \A r \in Registers : Field(f, r) = f.regs[r]
         /\ Field(f, "vector") = f.vector
         /\ Field(f, "error_code") = IF f.vector \in CpuErrorVectors THEN "error" ELSE 0
         /\ \A r \in {"rip", "cs", "rflags"} : Field(f, r) = r
BY DEF Field, Registers

LEMMA InvGivesFrame == TrapInv => FrameAsDeclared
<1> SUFFICES ASSUME TrapInv, flow # << >>, Code(Innermost.vector, Innermost.pc)[1] = "call"
             PROVE  /\ Len(stack) % 2 = 0
                    /\ \A k \in DOMAIN Fields :
                         stack[Len(stack) + 1 - k] = Field(Innermost, Fields[k])
  BY DEF FrameAsDeclared
<1> DEFINE f == Innermost
           t == Top(f.stack)
<1>1. f = flow[Len(flow)] /\ f \in Flow /\ Level(f, regs, stack)
  BY DEF Innermost, TrapInv
<1>2. InCode(f) /\ StackLevel(f, stack) /\ f.stack \in Seq(Values)
  BY <1>1 DEF Level, Flow
<1>3. Past(f) = 16
  BY <1>1, <1>2, Decode
<1>4. Height(f) = t + 17
  BY <1>1, <1>2, <1>3, HeightFacts
<1>5. /\ t \in Nat /\ t >= 5 /\ (t + 1) % 2 = 0
      /\ Frame(f.stack)[t] = "rip" /\ Frame(f.stack)[t - 1] = "cs" /\ Frame(f.stack)[t - 2] = "rflags"
  <2> HIDE DEF f
  <2>1. /\ t \in Nat /\ t >= Len(f.stack) + 5 /\ Len(f.stack) \in Nat /\ (t + 1) % 2 = 0
        /\ Frame(f.stack)[t] = "rip" /\ Frame(f.stack)[t - 1] = "cs"
        /\ Frame(f.stack)[t - 2] = "rflags"
    BY <1>2, FrameFacts, Zenon
  <2> HIDE DEF t
  <2> QED BY <2>1
<1>6. Len(stack) = t + 17 /\ \A j \in 1 .. t + 17 : stack[j] = Kept(f, j)
  BY <1>2, <1>4 DEF StackLevel
<1>7. /\ Kept(f, t + 1) = IF f.vector \in CpuErrorVectors THEN "error" ELSE 0
      /\ Kept(f, t + 2) = f.vector
      /\ \A k \in 1 .. 15 : Kept(f, t + 2 + k) = f.regs[Saved[k]]
      /\ \A j \in 1 .. t : Kept(f, j) = Frame(f.stack)[j]
  BY ZenonT(30), <1>1, KeptFacts
<1> HIDE DEF t, f
<1>8. Len(stack) % 2 = 0
  BY <1>5, <1>6
<1>9. ASSUME NEW k \in 1 .. 20
      PROVE  stack[Len(stack) + 1 - k] = Field(f, Fields[k])
  <2>1. stack[Len(stack) + 1 - k] = Kept(f, t + 18 - k)
    <3>1. t + 18 - k \in 1 .. t + 17 /\ Len(stack) + 1 - k = t + 18 - k
      BY <1>5, <1>6
    <3> QED BY <1>6, <3>1
  <2>2. CASE k \in 1 .. 15
    <3>1. t + 18 - k = t + 2 + (16 - k) /\ 16 - k \in 1 .. 15
      BY <1>5, <2>2
    <3>2. Kept(f, t + 18 - k) = f.regs[Saved[16 - k]]
      BY ZenonT(30), <1>7, <3>1
    <3>3. Field(f, Fields[k]) = f.regs[Saved[16 - k]]
      <4>1. Fields[k] = Saved[16 - k]
        BY ZenonT(30), <2>2, FieldFacts
      <4>2. Saved[16 - k] \in Registers
        BY <3>1, SavedFacts
      <4> QED BY <4>1, <4>2, FieldOf
    <3> QED BY <2>1, <3>2, <3>3
  <2>3. CASE k = 16
    <3>1. t + 18 - k = t + 2
      BY <1>5, <2>3
    <3> QED BY SMTT(30), <1>7, <2>1, <2>3, <3>1, FieldFacts, FieldOf
  <2>4. CASE k = 17
    <3>1. t + 18 - k = t + 1
      BY <1>5, <2>4
    <3> QED BY SMTT(30), <1>7, <2>1, <2>4, <3>1, FieldFacts, FieldOf
  <2>5. CASE k \in {18, 19, 20}
    <3>1. t + 18 - k \in 1 .. t
      BY <1>5, <2>5
    <3>2. t + 18 - 18 = t /\ t + 18 - 19 = t - 1 /\ t + 18 - 20 = t - 2
      BY <1>5
    <3>3. Frame(f.stack)[t + 18 - k] = Fields[k]
      BY ZenonT(30), <1>5, <2>5, <3>2, FieldFacts
    <3>4. Field(f, Fields[k]) = Fields[k]
      BY ZenonT(30), <2>5, FieldFacts, FieldOf
    <3> QED BY SMTT(30), <1>7, <2>1, <3>1, <3>3, <3>4
  <2>6. k \in 1 .. 15 \/ k = 16 \/ k = 17 \/ k \in {18, 19, 20}
    OBVIOUS
  <2> QED BY <2>2, <2>3, <2>4, <2>5, <2>6
<1> QED BY <1>8, <1>9, FieldFacts DEF f

\* FrameAsDeclared: wherever the entry code calls x86_64_trap_dispatch, the stack
\* is aligned and holds an x86_64_trap_frame_t, for any vectors and any nesting.
THEOREM FrameCorrect == TrapSpec => []FrameAsDeclared
BY TrapInvariant, InvGivesFrame, PTL

\* Only iretq makes the flows fewer.
LEMMA ReturnStep ==
  ASSUME TrapInv, [TrapNext]_trapvars, Len(flow') < Len(flow)
  PROVE  regs' = Innermost.regs /\ stack' = Innermost.stack
<1> DEFINE f == Innermost
           next == [flow EXCEPT ![Len(flow)].pc = @ + 1]
<1>1. flow \in Seq(Flow) /\ Len(flow) \in Nat
  BY DEF TrapInv
<1>2. ~ UNCHANGED trapvars
  BY <1>1 DEF trapvars
<1>3. ~ \E v \in Vectors : Interruption(v)
  <2> SUFFICES ASSUME NEW v \in Vectors, Interruption(v) PROVE FALSE
    OBVIOUS
  <2> DEFINE g == [vector |-> v, pc |-> 1, regs |-> regs, stack |-> stack]
  <2>1. flow' = Append(flow, g)
    BY DEF Interruption
  <2> HIDE DEF g
  <2>2. Len(flow') = Len(flow) + 1
    BY <1>1, <2>1
  <2> QED BY <1>1, <2>2
<1>4. Instruction /\ flow # << >>
  BY <1>2, <1>3 DEF TrapNext, Instruction
<1>5. f = flow[Len(flow)] /\ f \in Flow /\ InCode(f)
  BY <1>1, <1>4 DEF Innermost, TrapInv, Level
<1>6. flow' # next
  <2>1. Len(next) = Len(flow)
    BY <1>1
  <2> HIDE DEF next
  <2> QED BY <1>1, <2>1
<1>7. /\ Code(f.vector, f.pc)[1] = "iretq" /\ stack' = SubSeq(stack, 1, stack[Len(stack) - 3][2])
      /\ flow' = Outer /\ regs' = regs
  BY <1>4, <1>6, Zenon DEF Instruction
<1>8. Past(flow[Len(flow)]) = 33
  BY <1>5, <1>7, Decode
<1> QED BY <1>4, <1>5, <1>7, <1>8, Returned

\* ReturnsTransparently: iretq gives the interrupted code, at whichever instruction
\* it was, back its registers and its stack, for any vectors and any nesting.
THEOREM ReturnCorrect == TrapSpec => ReturnsTransparently
<1>1. TrapInv /\ [TrapNext]_trapvars
        => [Len(flow') < Len(flow) => (regs' = Innermost.regs /\ stack' = Innermost.stack)]_trapvars
  BY ReturnStep
<1> QED BY <1>1, TrapInvariant, PTL DEF TrapSpec, ReturnsTransparently
=============================================================================
