----------------------------- MODULE FileStore -----------------------------
(***************************************************************************)
(* What the VFS promises: named byte sequences, and descriptors that each  *)
(* stand at an offset of one of them.  Nothing is said of nodes, regions   *)
(* or the data pool that the files share.                                  *)
(***************************************************************************)
EXTENDS Integers, Sequences

CONSTANTS
  Names, Root,     \* the file names, and the name of the directory
  FDs,             \* the descriptors
  Capacity,        \* the most bytes a file holds
  Bytes,           \* the values of a byte
  Closed           \* a descriptor that is not open

VARIABLES
  content,    \* the bytes of each file there is
  open,       \* where each descriptor stands
  buf         \* the bytes the last call returned

store == <<content, open, buf>>

Init ==
  /\ content = [n \in {Root} |-> << >>]
  /\ open = [fd \in FDs |-> Closed]
  /\ buf = << >>

Limit(n) == IF n = Root THEN 0 ELSE Capacity

With(n, s) ==
  content' = [m \in DOMAIN content \cup {n} |-> IF m = n THEN s ELSE content[m]]

\* A new file: empty or seeded with s.
Create(n, s) ==
  /\ n \notin DOMAIN content /\ Len(s) <= Capacity
  /\ With(n, s)
  /\ buf' = << >> /\ UNCHANGED open

\* A descriptor for a file, which is created empty when there is none.
Open(n, fd) ==
  /\ open[fd] = Closed
  /\ open' = [open EXCEPT ![fd] = [name |-> n, offset |-> 0]]
  /\ IF n \in DOMAIN content THEN UNCHANGED content ELSE With(n, << >>)
  /\ buf' = << >>

\* Some bytes from the offset on, and the offset after them.
Read(fd, k) ==
  LET f == open[fd]  s == content[f.name] IN
  /\ f # Closed /\ f.offset + k <= Len(s)
  /\ buf' = SubSeq(s, f.offset + 1, f.offset + k)
  /\ open' = [open EXCEPT ![fd].offset = @ + k]
  /\ UNCHANGED content

\* The bytes s replace those at the offset, and may extend the file.
Write(fd, s) ==
  LET f == open[fd]  old == content[f.name]  end == f.offset + Len(s) IN
  /\ f # Closed /\ end <= Limit(f.name)
  /\ With(f.name, SubSeq(old, 1, f.offset) \o s \o SubSeq(old, end + 1, Len(old)))
  /\ open' = [open EXCEPT ![fd].offset = end]
  /\ buf' = << >>

Seek(fd, o) ==
  /\ open[fd] # Closed /\ o <= Len(content[open[fd].name])
  /\ open' = [open EXCEPT ![fd].offset = o]
  /\ buf' = << >> /\ UNCHANGED content

Close(fd) ==
  /\ open' = [open EXCEPT ![fd] = Closed]
  /\ buf' = << >> /\ UNCHANGED content

\* A call that fails, or a file hidden behind an older one of its name.
Nothing == buf' = << >> /\ UNCHANGED <<content, open>>

Strings == UNION {[1 .. k -> Bytes] : k \in 0 .. Capacity}

Next ==
  \/ Nothing
  \/ \E n \in Names, s \in Strings : Create(n, s)
  \/ \E n \in Names, fd \in FDs : Open(n, fd)
  \/ \E fd \in FDs :
       \/ \E k \in 0 .. Capacity : Read(fd, k) \/ Seek(fd, k)
       \/ \E s \in Strings : Write(fd, s)
       \/ Close(fd)

Spec == Init /\ [][Next]_store
=============================================================================
