------------------------------- MODULE Mcsfs1 ------------------------------
(***************************************************************************)
(* fs/mcsfs1/mcsfs1.c: a table of inodes that each hold their own data.    *)
(* The table is not cleared beyond the used flags, so a byte that was      *)
(* never written is Garbage.  LongName stands for the names of             *)
(* MCSFS1_NAME_LEN characters and more.  Null arguments, which create      *)
(* rejects first, are left out.                                            *)
(***************************************************************************)
EXTENDS Integers, Sequences, FiniteSets

CONSTANTS
  Names, LongName,   \* file names; LongName does not fit an inode
  MaxFiles,          \* MCSFS1_MAX_FILES
  DataSize,          \* MCSFS1_DATA_SIZE
  Bytes, Garbage,    \* byte values, and what an unwritten byte holds
  Buffers,           \* the buffers callers write
  ReadSizes          \* the sizes callers read

ASSUME Mcsfs1Assumption ==
  /\ MaxFiles \in Nat /\ DataSize \in Nat
  /\ LongName \in Names
  /\ Buffers \subseteq Seq(Bytes) /\ ReadSizes \subseteq Nat

VARIABLES
  inodes, inode_count,   \* mcsfs1_t
  call, ret, buf         \* the last call, its status and the bytes it returned

vars == <<inodes, inode_count, call, ret, buf>>

Slots == 1 .. MaxFiles

\* mcsfs1_init has run.
Init ==
  /\ inodes = [i \in Slots |-> [used |-> FALSE, name |-> LongName, size |-> 0,
                                data |-> [k \in 1 .. DataSize |-> Garbage]]]
  /\ inode_count = 0
  /\ call = << >> /\ ret = "OK" /\ buf = << >>

Fail(code) == ret' = code /\ buf' = << >> /\ UNCHANGED <<inodes, inode_count>>

FreeSlots == {i \in Slots : ~inodes[i].used}

FirstFree(i) == i \in FreeSlots /\ \A j \in FreeSlots : i <= j

\* Whether the name is taken is not looked at.
mcsfs1_create(name) ==
  \/ name = LongName /\ Fail("EINVAL")
  \/ name # LongName /\ FreeSlots = {} /\ Fail("ENOSPC")
  \/ /\ name # LongName /\ FreeSlots # {}
     /\ \E i \in Slots : FirstFree(i) /\
          inodes' = [inodes EXCEPT ![i] = [used |-> TRUE, name |-> name, size |-> 0, data |-> @.data]]
     /\ inode_count' = inode_count + 1
     /\ ret' = "OK" /\ buf' = << >>

\* The inodes of that name; the loops of write and read take the first.
Named(name) == {i \in Slots : inodes[i].used /\ inodes[i].name = name}

\* Mutation: the search goes on to the last inode of the name.
IsLast(i, name) == i \in Named(name) /\ \A j \in Named(name) : j <= i

IsFirst(i, name) == i \in Named(name) /\ \A j \in Named(name) : i <= j

mcsfs1_write(name, s) ==
  \/ Len(s) > DataSize /\ Fail("ENOSPC")
  \/ Len(s) <= DataSize /\ Named(name) = {} /\ Fail("ENOENT")
  \/ /\ Len(s) <= DataSize
     /\ \E i \in Slots : IsFirst(i, name) /\
          inodes' = [inodes EXCEPT ![i].size = Len(s),
                                   ![i].data = [k \in 1 .. DataSize |-> IF k <= Len(s) THEN s[k] ELSE @[k]]]
     /\ ret' = "OK" /\ buf' = << >>
     /\ UNCHANGED inode_count

mcsfs1_read(name, size) ==
  \/ Named(name) = {} /\ Fail("ENOENT")
  \/ /\ \E i \in Slots : IsFirst(i, name) /\
          buf' = SubSeq(inodes[i].data, 1, IF size > inodes[i].size THEN inodes[i].size ELSE size)
     /\ ret' = "OK"
     /\ UNCHANGED <<inodes, inode_count>>

Next ==
  \E name \in Names :
    \/ mcsfs1_create(name) /\ call' = <<"create", name>>
    \/ \E s \in Buffers : mcsfs1_write(name, s) /\ call' = <<"write", name, s>>
    \/ \E size \in ReadSizes : mcsfs1_read(name, size) /\ call' = <<"read", name, size>>

Spec == Init /\ [][Next]_vars
-----------------------------------------------------------------------------
(* Properties                                                              *)

\* What a name shows is the first inode of that name.
First(name) == CHOOSE i \in Slots : IsFirst(i, name)

Store == INSTANCE NameStore WITH
  content <- [n \in {m \in Names : Named(m) # {}} |-> SubSeq(inodes[First(n)].data, 1, inodes[First(n)].size)]

\* mcsfs1 implements NameStore: a file reads as what mcsfs1_write last stored
\* under its name, also when the name was created twice or when a shorter write
\* followed a longer one, and no unwritten byte is returned.
ImplementsNameStore == Store!Spec
=============================================================================
