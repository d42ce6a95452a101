------------------------------ MODULE M15Mcsfs1 ----------------------------
(***************************************************************************)
(* kernel/fs/m15_mcsfs1.c, the variant of mcsfs1 whose files share one     *)
(* data array: a file starts at data_used when it is created, and a write  *)
(* sets data_used to the end of what it wrote.  The data array is not      *)
(* cleared: a byte that was never written is Garbage.  Names fit an inode, *)
(* and null arguments, which create rejects first, are left out.           *)
(***************************************************************************)
EXTENDS Integers, Sequences

CONSTANTS Names, MaxFiles, DataSize, Garbage, Buffers, ReadSizes

VARIABLES
  inodes,            \* the inodes in use, in order; inode_count is the length
  data, data_used,   \* the data array and where the next file starts
  call, ret, buf     \* the last call, its status and the bytes it returned

vars == <<inodes, data, data_used, call, ret, buf>>

\* m15_mcsfs1_init has run.
Init ==
  /\ inodes = << >>
  /\ data = [k \in 1 .. DataSize |-> Garbage] /\ data_used = 0
  /\ call = << >> /\ ret = "OK" /\ buf = << >>

Fail(code) == ret' = code /\ buf' = << >> /\ UNCHANGED <<inodes, data, data_used>>

m15_mcsfs1_create(name) ==
  \/ Len(inodes) >= MaxFiles /\ Fail("ENOSPC")
  \/ /\ Len(inodes) < MaxFiles
     /\ inodes' = Append(inodes, [name |-> name, offset |-> data_used, size |-> 0])
     /\ ret' = "OK" /\ buf' = << >>
     /\ UNCHANGED <<data, data_used>>

\* m15_find_inode: the first inode of that name.
Named(name) == {i \in DOMAIN inodes : inodes[i].name = name}
m15_find_inode(i, name) == i \in Named(name) /\ \A j \in Named(name) : i <= j

m15_mcsfs1_write(name, s) ==
  \/ Named(name) = {} /\ Fail("ENOENT")
  \/ \E i \in DOMAIN inodes :
       /\ m15_find_inode(i, name)
       /\ LET at == inodes[i].offset  end == at + Len(s) IN
          IF end >= DataSize THEN Fail("ENOSPC")
          ELSE /\ data' = [k \in 1 .. DataSize |-> IF k \in (at + 1) .. end THEN s[k - at] ELSE data[k]]
               /\ inodes' = [inodes EXCEPT ![i].size = Len(s)]
               /\ data_used' = end
               /\ ret' = "OK" /\ buf' = << >>

m15_mcsfs1_read(name, size) ==
  \/ Named(name) = {} /\ Fail("ENOENT")
  \/ \E i \in DOMAIN inodes :
       /\ m15_find_inode(i, name)
       /\ LET k == IF size > inodes[i].size THEN inodes[i].size ELSE size IN
          buf' = SubSeq(data, inodes[i].offset + 1, inodes[i].offset + k)
       /\ ret' = "OK"
       /\ UNCHANGED <<inodes, data, data_used>>

Next ==
  \E name \in Names :
    \/ m15_mcsfs1_create(name) /\ call' = <<"create", name>>
    \/ \E s \in Buffers : m15_mcsfs1_write(name, s) /\ call' = <<"write", name, s>>
    \/ \E size \in ReadSizes : m15_mcsfs1_read(name, size) /\ call' = <<"read", name, size>>

Spec == Init /\ [][Next]_vars
-----------------------------------------------------------------------------
\* What a name shows: the bytes of its first inode.
First(name) == CHOOSE i \in DOMAIN inodes : m15_find_inode(i, name)
Shown(i) == SubSeq(data, inodes[i].offset + 1, inodes[i].offset + inodes[i].size)

Store == INSTANCE NameStore WITH
  content <- [n \in {m \in Names : Named(m) # {}} |-> Shown(First(n))]

\* The host test reads back from m15_mcsfs1_read the bytes it gave to
\* m15_mcsfs1_write.  Violated: two files created before the first write start
\* at the same offset, and a file rewritten longer runs into the next, so a
\* write to one name changes what another reads.
ReadsBackLastWrite == Store!Spec
=============================================================================
