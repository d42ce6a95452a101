----------------------------- MODULE BlockStore -----------------------------
(***************************************************************************)
(* What the block layer promises: numbered blocks, reached through devices *)
(* bound to disks.                                                         *)
(***************************************************************************)
EXTENDS Integers

CONSTANTS
  AreaBlocks, Ramdevs, Devs, Buffers, MaxLba,
  Zeros                 \* a block never written

VARIABLES
  content,              \* of each area, its blocks
  disk,                 \* of each disk that is set up, its area and size
  bound,                \* of each device that is bound, its disk
  request, answer

storevars == <<content, disk, bound, request, answer>>

Init ==
  /\ content = [a \in DOMAIN AreaBlocks |-> [l \in 0 .. AreaBlocks[a] - 1 |-> Zeros]]
  /\ disk = [r \in {} |-> 0] /\ bound = [v \in {} |-> 0]
  /\ request = << >> /\ answer = << >>

With(f, x, y) == [z \in DOMAIN f \cup {x} |-> IF z = x THEN y ELSE f[z]]

SetUp(r, a, n) ==
  /\ disk' = With(disk, r, [area |-> a, size |-> n])
  /\ UNCHANGED <<content, bound>> /\ request' = << >> /\ answer' = << >>

Bind(v, r) ==
  /\ bound' = With(bound, v, r)
  /\ UNCHANGED <<content, disk>> /\ request' = << >> /\ answer' = << >>

Read(v, l) ==
  /\ request' = <<"read", v, l>>
  /\ LET d == disk[bound[v]] IN
       answer' = IF l < d.size THEN <<"OK", content[d.area][l]>> ELSE <<"EINVAL">>
  /\ UNCHANGED <<content, disk, bound>>

Write(v, l, b) ==
  /\ request' = <<"write", v, l, b>>
  /\ LET d == disk[bound[v]] IN
       IF l < d.size
       THEN answer' = <<"OK">> /\ content' = [content EXCEPT ![d.area][l] = b]
       ELSE answer' = <<"EINVAL">> /\ UNCHANGED content
  /\ UNCHANGED <<disk, bound>>

\* A call without a buffer.
Refuse(v) ==
  /\ request' = <<"null">> /\ answer' = <<"EINVAL">>
  /\ UNCHANGED <<content, disk, bound>>

Next ==
  \/ \E r \in Ramdevs, a \in DOMAIN AreaBlocks : \E n \in 0 .. AreaBlocks[a] : SetUp(r, a, n)
  \/ \E v \in Devs, r \in DOMAIN disk : Bind(v, r)
  \/ \E v \in DOMAIN bound : Refuse(v)
  \/ \E v \in DOMAIN bound, l \in 0 .. MaxLba : Read(v, l) \/ \E b \in Buffers : Write(v, l, b)

Spec == Init /\ [][Next]_storevars
=============================================================================
