----------------------------- MODULE NameStore -----------------------------
(***************************************************************************)
(* What a flat file system promises: a file reads as what was last written *)
(* to its name, and nothing else changes it.  A step is a call with its    *)
(* arguments, its status and the bytes it returned.                        *)
(***************************************************************************)
EXTENDS Integers, Sequences

CONSTANTS
  Names,      \* the file names
  Buffers,    \* the byte sequences written
  ReadSizes   \* the sizes read

VARIABLES
  content,    \* the bytes of each file there is
  call,       \* the last call: operation, name and argument
  ret, buf    \* its status and the bytes it returned

store == <<content, call, ret, buf>>

Init == content = [n \in {} |-> << >>] /\ call = << >> /\ ret = "OK" /\ buf = << >>

Files == DOMAIN content

\* A create may fail; of a name there is, it changes nothing.
Create(n) ==
  /\ call' = <<"create", n>> /\ buf' = << >>
  /\ IF ret' = "OK" /\ n \notin Files
     THEN content' = [m \in Files \cup {n} |-> IF m = n THEN << >> ELSE content[m]]
     ELSE UNCHANGED content

\* A write of a file there is may fail for want of space only.
Write(n, s) ==
  /\ call' = <<"write", n, s>> /\ buf' = << >>
  /\ \/ ret' = "OK" /\ n \in Files /\ content' = [content EXCEPT ![n] = s]
     \/ ret' = "ENOSPC" /\ UNCHANGED content
     \/ ret' = "ENOENT" /\ n \notin Files /\ UNCHANGED content

Read(n, k) ==
  /\ call' = <<"read", n, k>>
  /\ IF n \in Files
     THEN ret' = "OK" /\ buf' = SubSeq(content[n], 1, IF k > Len(content[n]) THEN Len(content[n]) ELSE k)
     ELSE ret' = "ENOENT" /\ buf' = << >>
  /\ UNCHANGED content

Next ==
  \E n \in Names :
    \/ Create(n)
    \/ \E s \in Buffers : Write(n, s)
    \/ \E k \in ReadSizes : Read(n, k)

Spec == Init /\ [][Next]_store
=============================================================================
