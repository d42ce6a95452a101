-------------------------------- MODULE Sync -------------------------------
(***************************************************************************)
(* A lock of kernel/sync (m12_spinlock.c, m12_mutex.c) and the lock depth  *)
(* counter of m12_lockdep.c, used by several contexts.  The spinlock and   *)
(* the mutex are the same algorithm; only the spinlock can be tried.       *)
(*                                                                         *)
(* The contexts are a client of the library: each increments a counter     *)
(* under the lock and calls lockdep there too, since lockdep has no lock   *)
(* of its own.  The kernel's one user, m12_sync_selftest, is a single      *)
(* context that calls lockdep after it has released both locks.            *)
(*                                                                         *)
(* __sync_lock_test_and_set and __sync_lock_release are single steps and   *)
(* order the accesses around them.  Every other increment or decrement is  *)
(* a load into a register and a store, which other contexts may separate.  *)
(***************************************************************************)
EXTENDS Integers

CONSTANTS
  Contexts,    \* the contexts that use the lock
  MaxCalls     \* how often one context asks for the lock

ASSUME SyncAssumption == MaxCalls \in Nat

VARIABLES
  kind,            \* "spin" or "mutex"
  locked,          \* the lock word
  m12_lock_depth,  \* the lockdep counter
  counter,         \* the data the lock guards
  pc, reg, calls,  \* of each context: its place, register and calls so far
  sections         \* critical sections completed by anyone

vars == <<kind, locked, m12_lock_depth, counter, pc, reg, calls, sections>>

Places == {"out", "spin", "acquire", "acquire_store", "add", "add_store",
           "release", "release_store", "unlock"}

\* mcs_spin_init or mcs_mutex_init has run.
Init ==
  /\ kind \in {"spin", "mutex"}
  /\ locked = 0 /\ m12_lock_depth = 0 /\ counter = 0
  /\ pc = [c \in Contexts |-> "out"]
  /\ reg = [c \in Contexts |-> 0]
  /\ calls = [c \in Contexts |-> 0]
  /\ sections = 0

Goto(c, p) == pc' = [pc EXCEPT ![c] = p]

\* mcs_spin_lock or mcs_mutex_lock is called.
Lock(c) ==
  /\ pc[c] = "out" /\ calls[c] < MaxCalls
  /\ calls' = [calls EXCEPT ![c] = @ + 1]
  /\ Goto(c, "spin")
  /\ UNCHANGED <<kind, locked, m12_lock_depth, counter, reg, sections>>

\* Mutation: the word is read but not set.
TestOnly(c, taken, busy) ==
  Goto(c, IF locked = 0 THEN taken ELSE busy) /\ UNCHANGED locked

\* __sync_lock_test_and_set(&locked, 1), and where its result sends context c.
TestAndSet(c, taken, busy) ==
  Goto(c, IF locked = 0 THEN taken ELSE busy) /\ locked' = 1

\* One turn of the loop of mcs_spin_lock or mcs_mutex_lock.
Spin(c) ==
  /\ pc[c] = "spin"
  /\ TestAndSet(c, "acquire", "spin")
  /\ UNCHANGED <<kind, m12_lock_depth, counter, reg, calls, sections>>

\* Mutation: the result is inverted.
TryLockInverted(c) ==
  /\ kind = "spin" /\ pc[c] = "out" /\ calls[c] < MaxCalls
  /\ calls' = [calls EXCEPT ![c] = @ + 1]
  /\ TestAndSet(c, "out", "acquire")
  /\ UNCHANGED <<kind, m12_lock_depth, counter, reg, sections>>

mcs_spin_try_lock(c) ==
  /\ kind = "spin" /\ pc[c] = "out" /\ calls[c] < MaxCalls
  /\ calls' = [calls EXCEPT ![c] = @ + 1]
  /\ TestAndSet(c, "acquire", "out")
  /\ UNCHANGED <<kind, m12_lock_depth, counter, reg, sections>>

\* Mutation: the lock word is left set.
UnlockForgotten(c) ==
  /\ pc[c] = "unlock"
  /\ Goto(c, "out")
  /\ UNCHANGED <<kind, locked, m12_lock_depth, counter, reg, calls, sections>>

\* mcs_spin_unlock or mcs_mutex_unlock: __sync_lock_release.
Unlock(c) ==
  /\ pc[c] = "unlock"
  /\ locked' = 0
  /\ Goto(c, "out")
  /\ UNCHANGED <<kind, m12_lock_depth, counter, reg, calls, sections>>
-----------------------------------------------------------------------------
(* The critical section: m12_lockdep_acquire(); ++counter;                 *)
(* m12_lockdep_release().                                                  *)

Load(c, from, value, to) ==
  /\ pc[c] = from
  /\ reg' = [reg EXCEPT ![c] = value]
  /\ Goto(c, to)
  /\ UNCHANGED <<kind, locked, m12_lock_depth, counter, calls, sections>>

m12_lockdep_acquire(c) ==
  \/ Load(c, "acquire", m12_lock_depth, "acquire_store")
  \/ /\ pc[c] = "acquire_store"
     /\ m12_lock_depth' = reg[c] + 1
     /\ Goto(c, "add")
     /\ UNCHANGED <<kind, locked, counter, reg, calls, sections>>

AddOne(c) ==
  \/ Load(c, "add", counter, "add_store")
  \/ /\ pc[c] = "add_store"
     /\ counter' = reg[c] + 1
     /\ sections' = sections + 1
     /\ Goto(c, "release")
     /\ UNCHANGED <<kind, locked, m12_lock_depth, reg, calls>>

\* Mutation: the guard against going below zero is off by one.
DepthAboveOne(n) == n > 1

DepthAboveZero(n) == n > 0

m12_lockdep_release(c) ==
  \/ Load(c, "release", m12_lock_depth, "release_store")
  \/ /\ pc[c] = "release_store"
     /\ m12_lock_depth' = IF DepthAboveZero(reg[c]) THEN reg[c] - 1 ELSE m12_lock_depth
     /\ Goto(c, "unlock")
     /\ UNCHANGED <<kind, locked, counter, reg, calls, sections>>

Run(c) ==
  \/ Spin(c) \/ Unlock(c)
  \/ m12_lockdep_acquire(c) \/ AddOne(c) \/ m12_lockdep_release(c)

Next == \E c \in Contexts : Lock(c) \/ mcs_spin_try_lock(c) \/ Run(c)

Spec == Init /\ [][Next]_vars

\* A context that has begun a call goes on: it is not descheduled for ever.
FairSpec == Spec /\ \A c \in Contexts : WF_vars(Run(c))
-----------------------------------------------------------------------------
(* Properties                                                              *)

Holding(c) == pc[c] \notin {"out", "spin"}

\* The type invariant of the lock, the counters and the contexts.
TypeOK ==
  /\ kind \in {"spin", "mutex"}
  /\ locked \in {0, 1}
  /\ m12_lock_depth \in Nat /\ counter \in Nat /\ sections \in Nat
  /\ pc \in [Contexts -> Places]
  /\ reg \in [Contexts -> Nat]
  /\ calls \in [Contexts -> 0 .. MaxCalls]

\* At most one context is between a successful lock or try_lock and its unlock,
\* and the lock word is 1 exactly while one is.
MutualExclusion ==
  /\ \A c, d \in Contexts : Holding(c) /\ Holding(d) => c = d
  /\ locked = 1 <=> \E c \in Contexts : Holding(c)

\* The lock makes the two-step increments of the data it guards atomic: no
\* critical section's increment is lost.
NoLostUpdate == counter = sections

\* m12_lockdep_depth is 1 exactly while a context is between its acquire and
\* its release and 0 otherwise, although the depth is loaded and stored in two
\* steps: what m12_sync_selftest asserts of one context holds for contexts that
\* call lockdep under the lock.
DepthIsExact ==
  m12_lock_depth =
    IF \E c \in Contexts : pc[c] \in {"add", "add_store", "release", "release_store"}
    THEN 1 ELSE 0

\* A context that asked for the lock gets it, and leaves it, once the others
\* ask no more: the loop of mcs_spin_lock and mcs_mutex_lock ends.
EveryCallReturns == \A c \in Contexts : pc[c] = "spin" ~> pc[c] = "out"
=============================================================================
