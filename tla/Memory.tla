------------------------------- MODULE Memory -------------------------------
(***************************************************************************)
(* lib/memory.c, one step per byte.  Every call gets memory in which each  *)
(* byte is different, so that a misplaced byte shows.                      *)
(***************************************************************************)
EXTENDS Integers

CONSTANTS
  MemSize,       \* bytes of memory
  FillValues     \* the ints passed to memset

ASSUME MemoryAssumption == MemSize \in Nat /\ FillValues \subseteq Int

Cells == 0 .. MemSize - 1

VARIABLES
  mem,            \* the bytes
  fn, dest, src, total,   \* the call: function, addresses and count
  d, s, count     \* the function's own variables

memvars == <<mem, fn, dest, src, total, d, s, count>>

Fresh == [a \in Cells |-> a]

MemInit ==
  /\ mem = Fresh /\ fn = "none"
  /\ dest = 0 /\ src = 0 /\ total = 0 /\ d = 0 /\ s = 0 /\ count = 0

Begin(f, to, from, n) ==
  /\ count = 0
  /\ mem' = Fresh /\ fn' = f /\ dest' = to /\ src' = from /\ total' = n

\* The source of memset is the value; it is reduced to a byte when stored.
memset(to, value, n) ==
  Begin("memset", to, value, n) /\ d' = to /\ s' = value /\ count' = n

\* Callers pass memory that does not overlap.
memcpy(to, from, n) ==
  /\ to + n <= from \/ from + n <= to
  /\ Begin("memcpy", to, from, n) /\ d' = to /\ s' = from /\ count' = n

\* Mutation: overlapping memory is copied upwards too.
AlwaysUp(to, from) == TRUE

CopiesUp(to, from) == to < from

memmove(to, from, n) ==
  /\ Begin(IF CopiesUp(to, from) THEN "memmove_up" ELSE "memmove_down", to, from, n)
  /\ IF to = from \/ n = 0 THEN d' = to /\ s' = from /\ count' = 0
     ELSE /\ count' = n
          /\ IF CopiesUp(to, from) THEN d' = to /\ s' = from
             ELSE d' = to + n /\ s' = from + n

Put(a, v) == mem' = [mem EXCEPT ![a] = v]

\* One turn of the loop.
CopyByte ==
  /\ count # 0 /\ count' = count - 1
  /\ \/ fn = "memset" /\ Put(d, s % 256) /\ d' = d + 1 /\ s' = s
     \/ fn \in {"memcpy", "memmove_up"} /\ Put(d, mem[s]) /\ d' = d + 1 /\ s' = s + 1
     \/ fn = "memmove_down" /\ Put(d - 1, mem[s - 1]) /\ d' = d - 1 /\ s' = s - 1
  /\ UNCHANGED <<fn, dest, src, total>>

MemNext ==
  \/ CopyByte
  \/ \E to \in Cells : \E n \in 0 .. MemSize - to :
       \/ \E value \in FillValues : memset(to, value, n)
       \/ \E from \in 0 .. MemSize - n : memcpy(to, from, n) \/ memmove(to, from, n)

MemSpec == MemInit /\ [][MemNext]_memvars
-----------------------------------------------------------------------------
(* Properties                                                              *)

\* What the target holds when the whole source is read before any byte is
\* written.
Expected(a) ==
  IF a \notin dest .. dest + total - 1 THEN a
  ELSE IF fn = "memset" THEN src % 256 ELSE src + (a - dest)

\* Every call ends with the target holding the source as it was before the
\* call, for memmove also where the two overlap in either direction, and with
\* no other byte changed.
CopiesAsIfAtOnce == count = 0 => \A a \in Cells : mem[a] = Expected(a)
=============================================================================
