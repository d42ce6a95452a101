-------------------------------- MODULE Vfs --------------------------------
(***************************************************************************)
(* The descriptor table of kernel/fs/m13_vfs.c over the RAM file system of *)
(* kernel/fs/m13_ramfs.c: nodes are appended to an array, and each has a   *)
(* fixed region of one shared data pool.                                   *)
(*                                                                         *)
(* The pool is not cleared by mcs_ramfs_init: a byte that was never        *)
(* written is Garbage.  A node's id, parent and type and a descriptor's    *)
(* flags are stored and never read, and are left out.  Offsets are         *)
(* unsigned and wrap at WordSize; sizes are those of real buffers, so an   *)
(* offset plus a size does not wrap.                                       *)
(***************************************************************************)
EXTENDS Integers, Sequences

CONSTANTS
  Names, Root,      \* paths; Root is "/"
  MaxNodes,         \* MCS_MAX_NODES
  MaxOpen,          \* MCS_MAX_OPEN_FILES
  DataBytes,        \* MCS_RAMFS_DATA_BYTES
  Region,           \* bytes of a file's region: 256
  WordSize,         \* 2^64
  Bytes, Garbage,   \* byte values, and what an unwritten byte holds
  Buffers,          \* the buffers callers write
  ReadSizes,        \* the sizes callers read
  SeekOffsets,      \* the signed offsets callers seek to
  Closed

ASSUME VfsAssumption ==
  /\ MaxNodes \in Nat \ {0} /\ MaxOpen \in Nat
  /\ Region \in Nat \ {0} /\ DataBytes \in Nat /\ Region < DataBytes
  /\ WordSize \in Nat /\ DataBytes < WordSize
  /\ Root \in Names
  /\ Buffers \subseteq Seq(Bytes)
  /\ ReadSizes \subseteq Nat /\ SeekOffsets \subseteq Int
  /\ Closed \notin [name : Names, offset : Nat]

VARIABLES
  nodes, node_count, data, data_used,   \* mcs_ramfs_t
  files,                                \* mcs_fd_table_t
  ret,    \* what the last call returned: an error, or "OK" for any other value
  buf     \* the bytes the last call returned

fs   == <<nodes, node_count, data, data_used>>
vars == <<fs, files, ret, buf>>

NodeIds == 0 .. (MaxNodes - 1)
FDs     == 0 .. (MaxOpen - 1)
Live    == 0 .. (node_count - 1)
Pool    == 0 .. (DataBytes - 1)

NoNode == [name |-> Root, size |-> 0, data_offset |-> 0, data_capacity |-> 0]

\* mcs_ramfs_init and mcs_fd_table_init have run.  Node 0 is the root.
Init ==
  /\ nodes = [i \in NodeIds |-> NoNode]
  /\ node_count = 1
  /\ data = [i \in Pool |-> Garbage]
  /\ data_used = 0
  /\ files = [fd \in FDs |-> [used |-> FALSE, node |-> 0, offset |-> 0]]
  /\ ret = "OK" /\ buf = << >>

\* mcs_ramfs_lookup: the nodes of that name; the loop returns the first.
Named(path) == {i \in Live : nodes[i].name = path}
IsFirst(i, path) == i \in Named(path) /\ \A j \in Named(path) : i <= j

PoolFull == data_used + Region >= DataBytes

NoRoom == node_count >= MaxNodes \/ PoolFull

\* Mutation: the region is not taken from the pool.
NextDataUsedStays == data_used

NextDataUsed == data_used + Region

\* mcs_ramfs_create_file, where there is room; the node gets index node_count.
mcs_ramfs_create_file(path, size) ==
  /\ nodes' = [nodes EXCEPT ![node_count] =
       [name |-> path, size |-> size, data_offset |-> data_used, data_capacity |-> Region]]
  /\ data_used' = NextDataUsed
  /\ node_count' = node_count + 1

\* The pool with the bytes s copied in at address a.
Stored(a, s) == [p \in Pool |-> IF p \in a .. (a + Len(s) - 1) THEN s[p - a + 1] ELSE data[p]]

\* The name is not looked up, and a file that turns out too large stays.
mcs_ramfs_seed_file(path, s) ==
  /\ \/ /\ NoRoom /\ ret' = "ENOSPC" /\ UNCHANGED fs
     \/ /\ ~NoRoom /\ Len(s) > Region
        /\ mcs_ramfs_create_file(path, 0)
        /\ ret' = "ENOSPC" /\ UNCHANGED data
     \/ /\ ~NoRoom /\ Len(s) <= Region
        /\ mcs_ramfs_create_file(path, Len(s))
        /\ data' = Stored(data_used, s)
        /\ ret' = "OK"
  /\ buf' = << >> /\ UNCHANGED files
-----------------------------------------------------------------------------
FreeFDs == {fd \in FDs : ~files[fd].used}

\* The first free descriptor, on node i.
Attach(i) ==
  IF FreeFDs = {} THEN ret' = "ENFILE" /\ UNCHANGED files
  ELSE \E fd \in FreeFDs :
         /\ \A g \in FreeFDs : fd <= g
         /\ files' = [files EXCEPT ![fd] = [used |-> TRUE, node |-> i, offset |-> 0]]
         /\ ret' = "OK"

\* A file that is created stays when there is no descriptor for it.
mcs_vfs_open(path, creat) ==
  /\ \/ \E i \in Live : IsFirst(i, path) /\ Attach(i) /\ UNCHANGED fs
     \/ /\ Named(path) = {} /\ ~creat
        /\ ret' = "ENOENT" /\ UNCHANGED <<fs, files>>
     \/ /\ Named(path) = {} /\ creat /\ NoRoom
        /\ ret' = "ENOSPC" /\ UNCHANGED <<fs, files>>
     \/ /\ Named(path) = {} /\ creat /\ ~NoRoom
        /\ mcs_ramfs_create_file(path, 0)
        /\ Attach(node_count) /\ UNCHANGED data
  /\ buf' = << >>

\* A descriptor out of range or not in use.
BadFD(fd) == ~(fd \in FDs /\ files[fd].used)

Reject(code) == ret' = code /\ buf' = << >> /\ UNCHANGED <<fs, files>>

Node(fd) == nodes[files[fd].node]

\* The number of bytes a read of size returns: remain is unsigned.
Readable(fd, size) ==
  LET remain == (Node(fd).size - files[fd].offset) % WordSize
  IN  IF size > remain THEN remain ELSE size

mcs_vfs_read(fd, size) ==
  \/ BadFD(fd) /\ Reject("EBADF")
  \/ /\ ~BadFD(fd)
     /\ LET k == Readable(fd, size)  at == Node(fd).data_offset + files[fd].offset IN
        /\ buf' = [i \in 1 .. k |-> data[at + i - 1]]
        /\ files' = [files EXCEPT ![fd].offset = @ + k]
        /\ ret' = "OK"
     /\ UNCHANGED fs

\* Mutation: the write is checked against the pool, not the file's region.
FitsPool(fd, n) == Node(fd).data_offset + files[fd].offset + n <= DataBytes

FitsRegion(fd, n) == files[fd].offset + n <= Node(fd).data_capacity

mcs_vfs_write(fd, s) ==
  \/ BadFD(fd) /\ Reject("EBADF")
  \/ ~BadFD(fd) /\ ~FitsRegion(fd, Len(s)) /\ Reject("ENOSPC")
  \/ /\ ~BadFD(fd) /\ FitsRegion(fd, Len(s))
     /\ LET end == files[fd].offset + Len(s) IN
        /\ data' = Stored(Node(fd).data_offset + files[fd].offset, s)
        /\ files' = [files EXCEPT ![fd].offset = end]
        /\ nodes' = [nodes EXCEPT ![files[fd].node].size = IF end > @ THEN end ELSE @]
        /\ ret' = "OK"
     /\ buf' = << >>
     /\ UNCHANGED <<node_count, data_used>>

\* Mutation: any offset inside the region may be seeked to.
InFileOrRegion(fd, o) == o <= Node(fd).data_capacity

InFile(fd, o) == o <= Node(fd).size

mcs_vfs_lseek(fd, offset, whence) ==
  \/ BadFD(fd) /\ Reject("EBADF")
  \/ ~BadFD(fd) /\ whence \notin {"SET", "CUR", "END"} /\ Reject("EINVAL")
  \/ /\ ~BadFD(fd) /\ whence \in {"SET", "CUR", "END"}
     /\ LET base == CASE whence = "SET" -> 0
                      [] whence = "CUR" -> files[fd].offset
                      [] whence = "END" -> Node(fd).size
            new_offset == (base + offset) % WordSize
        IN  IF ~InFile(fd, new_offset) THEN Reject("EINVAL")
            ELSE /\ files' = [files EXCEPT ![fd].offset = new_offset]
                 /\ ret' = "OK" /\ buf' = << >>
                 /\ UNCHANGED fs

\* Whether the descriptor is in use is not looked at.
mcs_vfs_close(fd) ==
  \/ fd \notin FDs /\ Reject("EBADF")
  \/ /\ fd \in FDs
     /\ files' = [files EXCEPT ![fd].used = FALSE]
     /\ ret' = "OK" /\ buf' = << >>
     /\ UNCHANGED fs

Args == FDs \cup {-1, MaxOpen}

Next ==
  \/ \E path \in Names, s \in Buffers : mcs_ramfs_seed_file(path, s)
  \/ \E path \in Names, creat \in BOOLEAN : mcs_vfs_open(path, creat)
  \/ \E fd \in Args :
       \/ \E size \in ReadSizes : mcs_vfs_read(fd, size)
       \/ \E s \in Buffers : mcs_vfs_write(fd, s)
       \/ \E o \in SeekOffsets, w \in {"SET", "CUR", "END", "other"} : mcs_vfs_lseek(fd, o, w)
       \/ mcs_vfs_close(fd)

Spec == Init /\ [][Next]_vars
-----------------------------------------------------------------------------
(* Properties                                                              *)

\* No two files share a byte of the pool and no region leaves it, however many
\* files opens and seeds, failed ones included, have created.
RegionsDisjoint ==
  /\ data_used <= DataBytes
  /\ \A i \in Live : nodes[i].data_offset + nodes[i].data_capacity <= data_used
  /\ \A i, j \in Live : i < j =>
       nodes[i].data_offset + nodes[i].data_capacity <= nodes[j].data_offset

\* A descriptor in use is on a node there is and stands no further than the end
\* of its file, and the file no further than its region: the unsigned
\* subtraction in mcs_vfs_read does not wrap, whatever other descriptors of the
\* same file did since.
OffsetInFile ==
  /\ \A fd \in FDs : files[fd].used =>
       files[fd].node \in Live /\ files[fd].offset <= Node(fd).size
  /\ \A i \in Live : nodes[i].size <= nodes[i].data_capacity

\* The abstract state: what a name shows is the first node of that name.
Visible == {n \in Names : Named(n) # {}}
First(n) == CHOOSE i \in Live : IsFirst(i, n)

Store == INSTANCE FileStore WITH
  Capacity <- Region,
  content <- [n \in Visible |->
               [k \in 1 .. nodes[First(n)].size |-> data[nodes[First(n)].data_offset + k - 1]]],
  open <- [fd \in FDs |-> IF files[fd].used
                          THEN [name |-> Node(fd).name, offset |-> files[fd].offset]
                          ELSE Closed]

\* The VFS implements FileStore: every file reads as the bytes written to it
\* through whichever descriptor, writes to one file change no other, and no
\* unwritten byte of the pool is ever returned by mcs_vfs_read.
ImplementsFileStore == Store!Spec
=============================================================================
