----------------------------- MODULE VfsProofs -----------------------------
(***************************************************************************)
(* No two files of the RAM file system share a byte, and no descriptor     *)
(* stands beyond the end of its file, for every size of the tables, of the *)
(* pool and of a file's region; and the tables implement the named byte    *)
(* sequences and descriptors of FileStore.                                 *)
(***************************************************************************)
EXTENDS Vfs, FiniteSetTheorems, TLAPS

\* Every set of natural numbers that is not empty has a least element.
LEMMA Least ==
  ASSUME NEW T \in SUBSET Nat, T # {}
  PROVE  \E x \in T : \A y \in T : x <= y
<1> DEFINE R == {p \in Nat \X Nat : p[1] < p[2]}
<1>1. IsWellFoundedOn(R, Nat)
  BY NatLessThanWellFounded DEF OpToRel
<1>2. PICK x \in T : \A y \in T : <<y, x>> \notin R
  BY Zenon, <1>1, WFMin
<1>3. ASSUME NEW y \in T
      PROVE  x <= y
  <2>1. <<y, x>> \notin R
    BY <1>2
  <2> QED BY <2>1
<1> QED BY <1>3

\* What CHOOSE takes for the least element of a set T.
LEMMA LeastChosen ==
  ASSUME NEW S \in SUBSET Nat, NEW T \in SUBSET S,
         NEW c, c = CHOOSE x \in S : x \in T /\ \A y \in T : x <= y
  PROVE  /\ T # {} => c \in T /\ \A y \in T : c <= y
         /\ \A x \in T : (\A y \in T : x <= y) => x = c
<1>1. T \in SUBSET Nat /\ \A x \in T : x \in S /\ x \in Int
  OBVIOUS
<1>2. T # {} => \E x \in S : x \in T /\ \A y \in T : x <= y
  BY <1>1, Least
<1>3. \A x, z \in T : x <= z /\ z <= x => x = z
  BY <1>1
<1>4. T # {} => c \in T /\ \A y \in T : c <= y
  BY Zenon, <1>2
<1> QED BY Zenon, <1>3, <1>4

NodeType == [name : Names, size : Nat, data_offset : Nat, data_capacity : Nat]
FileType == [used : BOOLEAN, node : NodeIds, offset : Nat]

Types ==
  /\ nodes \in [NodeIds -> NodeType]
  /\ files \in [FDs -> FileType]
  /\ node_count \in 1 .. MaxNodes /\ data_used \in Nat
  /\ \A i \in Live : nodes[i].data_capacity <= Region

IInv == Types /\ RegionsDisjoint /\ OffsetInFile

\* Unsigned arithmetic leaves a number of the word alone.
LEMMA ModSmall == ASSUME NEW w \in Nat \ {0}, NEW x \in 0 .. (w - 1) PROVE x % w = x
  OBVIOUS

\* A descriptor put on a node, or moved.
LEMMA FilesTyped ==
  ASSUME files \in [FDs -> FileType], NEW fd \in FDs, NEW i \in NodeIds, NEW o \in Nat
  PROVE  /\ [files EXCEPT ![fd] = [used |-> TRUE, node |-> i, offset |-> 0]] \in [FDs -> FileType]
         /\ [files EXCEPT ![fd].offset = o] \in [FDs -> FileType]
<1>1. [used |-> TRUE, node |-> i, offset |-> 0] \in FileType
  BY DEF FileType
<1>2. [files[fd] EXCEPT !.offset = o] \in FileType
  BY DEF FileType
<1> QED BY <1>1, <1>2

\* mcs_ramfs_init leaves the root alone, with a region of no bytes.
LEMMA InitIInv == Init => IInv
  BY VfsAssumption DEF Init, IInv, Types, NodeType, FileType, NodeIds, FDs, Live, NoNode,
       RegionsDisjoint, OffsetInFile, Node

\* A new file gets the next Region bytes of the pool.
LEMMA CreateStep ==
  ASSUME IInv, NEW path \in Names, NEW size \in 0 .. Region, ~NoRoom,
         mcs_ramfs_create_file(path, size)
  PROVE  /\ nodes' \in [NodeIds -> NodeType] /\ node_count \in NodeIds
         /\ node_count' = node_count + 1 /\ node_count' \in 1 .. MaxNodes /\ data_used' \in Nat
         /\ \A i \in Live : nodes'[i] = nodes[i]
         /\ nodes'[node_count].size <= nodes'[node_count].data_capacity
         /\ \A i \in Live' : nodes'[i].data_capacity <= Region
         /\ RegionsDisjoint'
<1> USE VfsAssumption
<1>1. /\ node_count \in NodeIds /\ node_count \notin Live /\ node_count + 1 \in 1 .. MaxNodes
      /\ data_used + Region < DataBytes /\ data_used \in Nat
  BY DEF IInv, Types, NoRoom, PoolFull, NodeIds, Live
<1>2. /\ nodes' = [nodes EXCEPT ![node_count] =
           [name |-> path, size |-> size, data_offset |-> data_used, data_capacity |-> Region]]
      /\ data_used' = data_used + Region /\ node_count' = node_count + 1
  BY DEF mcs_ramfs_create_file, NextDataUsed
<1>3. nodes' \in [NodeIds -> NodeType] /\ data_used' \in Nat
  BY <1>1, <1>2 DEF IInv, Types, NodeType
<1>4. Live' = Live \cup {node_count} /\ Live \subseteq NodeIds
  BY <1>1, <1>2 DEF IInv, Types, Live, NodeIds
<1>5. \A i \in Live : nodes'[i] = nodes[i]
  BY <1>1, <1>2, <1>4 DEF IInv, Types
<1>6. nodes'[node_count] =
        [name |-> path, size |-> size, data_offset |-> data_used, data_capacity |-> Region]
  BY <1>1, <1>2 DEF IInv, Types
<1>7. \A i \in Live' : nodes'[i].data_capacity <= Region
  BY <1>4, <1>5, <1>6 DEF IInv, Types
<1>8. RegionsDisjoint'
  <2>1. data_used' <= DataBytes
    BY <1>1, <1>2
  <2>2. \A i \in Live : /\ nodes[i] \in NodeType
                        /\ nodes[i].data_offset + nodes[i].data_capacity <= data_used
    BY <1>4 DEF IInv, Types, RegionsDisjoint
  <2>3. \A i \in Live' : nodes'[i].data_offset + nodes'[i].data_capacity <= data_used'
    BY SMTT(30), <1>1, <1>2, <1>4, <1>5, <1>6, <2>2 DEF NodeType
  <2>4. ASSUME NEW i \in Live', NEW j \in Live', i < j
        PROVE  nodes'[i].data_offset + nodes'[i].data_capacity <= nodes'[j].data_offset
    <3>1. i \in Live
      BY <2>4, <1>1, <1>4 DEF Live, NodeIds
    <3>2. CASE j \in Live
      BY <2>4, <3>1, <3>2, <1>5 DEF IInv, RegionsDisjoint
    <3>3. CASE j = node_count
      BY <3>1, <3>3, <1>5, <1>6, <2>2
    <3> QED BY <3>2, <3>3, <1>4
  <2> QED BY <2>1, <2>3, <2>4 DEF RegionsDisjoint
<1> QED BY <1>1, <1>2, <1>3, <1>5, <1>6, <1>7, <1>8

\* What a new file leaves in place of descriptors that were there before.
LEMMA CreateKeepsOffsets ==
  ASSUME IInv, NEW path \in Names, NEW size \in 0 .. Region, ~NoRoom,
         mcs_ramfs_create_file(path, size)
  PROVE  /\ Live' = Live \cup {node_count}
         /\ \A fd \in FDs : files[fd].used =>
              files[fd].node \in Live' /\ files[fd].offset <= nodes'[files[fd].node].size
         /\ \A i \in Live' : nodes'[i].size <= nodes'[i].data_capacity
<1>1. Live' = Live \cup {node_count}
  BY CreateStep DEF IInv, Types, Live, NodeIds
<1> QED BY <1>1, CreateStep DEF IInv, OffsetInFile, Node

\* Seeding a file.
LEMMA SeedStep ==
  ASSUME IInv, NEW path \in Names, NEW s \in Buffers, mcs_ramfs_seed_file(path, s)
  PROVE  IInv'
<1>1. CASE UNCHANGED fs
  BY <1>1 DEF mcs_ramfs_seed_file, fs, IInv, Types, Live, RegionsDisjoint, OffsetInFile, Node
<1>2. CASE ~UNCHANGED fs
  <2>1. PICK size \in 0 .. Region : ~NoRoom /\ mcs_ramfs_create_file(path, size)
    BY <1>2, VfsAssumption DEF mcs_ramfs_seed_file
  <2>2. UNCHANGED files
    BY DEF mcs_ramfs_seed_file
  <2>3. Types'
    BY <2>1, <2>2, CreateStep DEF IInv, Types
  <2>4. OffsetInFile'
    BY <2>1, <2>2, CreateKeepsOffsets DEF OffsetInFile, Node
  <2> QED BY <2>1, <2>3, <2>4, CreateStep DEF IInv
<1> QED BY <1>1, <1>2

\* Opening a file: the descriptor starts at offset 0 of a node there is.
LEMMA OpenStep ==
  ASSUME IInv, NEW path \in Names, NEW creat \in BOOLEAN, mcs_vfs_open(path, creat)
  PROVE  IInv'
<1>1. CASE UNCHANGED <<fs, files>>
  BY <1>1 DEF fs, IInv, Types, Live, RegionsDisjoint, OffsetInFile, Node
<1>2. ASSUME NEW i \in Live, Attach(i), UNCHANGED fs
      PROVE  IInv'
  <2>1. i \in NodeIds /\ Live' = Live
    BY <1>2, VfsAssumption DEF IInv, Types, Live, NodeIds, fs
  <2>2. \/ UNCHANGED files
        \/ \E fd \in FDs : files' = [files EXCEPT ![fd] = [used |-> TRUE, node |-> i, offset |-> 0]]
    BY <1>2 DEF Attach, FreeFDs
  <2>3. files' \in [FDs -> FileType]
    <3>1. ASSUME NEW fd \in FDs PROVE
            [files EXCEPT ![fd] = [used |-> TRUE, node |-> i, offset |-> 0]] \in [FDs -> FileType]
      BY Zenon, <2>1, FilesTyped DEF IInv, Types
    <3> QED BY Zenon, <2>2, <3>1 DEF IInv, Types
  <2>5. Types' /\ RegionsDisjoint'
    BY <1>2, <2>1, <2>3 DEF fs, IInv, Types, RegionsDisjoint
  <2>4. OffsetInFile'
    BY <1>2, <2>1, <2>2 DEF fs, IInv, Types, FileType, NodeType, OffsetInFile, Node
  <2> QED BY <2>4, <2>5 DEF IInv
<1>3. ASSUME ~NoRoom, mcs_ramfs_create_file(path, 0), Attach(node_count)
      PROVE  IInv'
  <2>1. \/ UNCHANGED files
        \/ \E fd \in FDs :
             files' = [files EXCEPT ![fd] = [used |-> TRUE, node |-> node_count, offset |-> 0]]
    BY <1>3 DEF Attach, FreeFDs
  <2>2. 0 \in 0 .. Region
    BY VfsAssumption
  <2>6. files' \in [FDs -> FileType]
    <3>1. node_count \in NodeIds
      BY <1>3, <2>2, CreateStep
    <3>2. ASSUME NEW fd \in FDs PROVE
            [files EXCEPT ![fd] = [used |-> TRUE, node |-> node_count, offset |-> 0]]
              \in [FDs -> FileType]
      BY ZenonT(30), <3>1, FilesTyped DEF IInv, Types
    <3> QED BY Zenon, <2>1, <3>2 DEF IInv, Types
  <2>3. Types'
    BY <1>3, <2>2, <2>6, CreateStep DEF Types
  <2>4. nodes'[node_count].size \in Nat /\ node_count \in Live'
    BY <1>3, <2>2, CreateStep, CreateKeepsOffsets DEF NodeType
  <2>5. OffsetInFile'
    BY <1>3, <2>1, <2>2, <2>4, CreateKeepsOffsets DEF OffsetInFile, Node, IInv, Types, FileType
  <2> QED BY <1>3, <2>2, <2>3, <2>5, CreateStep DEF IInv
<1> QED BY <1>1, <1>2, <1>3 DEF mcs_vfs_open

\* Reading moves the offset by no more than what is left of the file.
LEMMA ReadStep ==
  ASSUME IInv, NEW fd \in Args, NEW size \in ReadSizes, mcs_vfs_read(fd, size)
  PROVE  IInv'
<1> USE VfsAssumption
<1>1. CASE UNCHANGED <<fs, files>>
  BY <1>1 DEF fs, IInv, Types, Live, RegionsDisjoint, OffsetInFile, Node
<1>2. CASE ~UNCHANGED <<fs, files>>
  <2>1. /\ ~BadFD(fd) /\ UNCHANGED fs
        /\ files' = [files EXCEPT ![fd].offset = @ + Readable(fd, size)]
    BY <1>2 DEF mcs_vfs_read, Reject
  <2>2. /\ fd \in FDs /\ files[fd].used /\ files[fd].node \in Live
        /\ files[fd].offset \in Nat /\ files[fd].offset <= Node(fd).size
        /\ Live \subseteq NodeIds
    BY SMTT(30), <2>1 DEF BadFD, IInv, OffsetInFile, Types, FileType, Live, NodeIds
  <2>3. Node(fd).size \in Nat /\ Node(fd).size < WordSize
    BY <2>2 DEF IInv, OffsetInFile, Types, NodeType, Node
  <2>4. (Node(fd).size - files[fd].offset) % WordSize = Node(fd).size - files[fd].offset
    <3>1. Node(fd).size - files[fd].offset \in 0 .. (WordSize - 1) /\ WordSize \in Nat \ {0}
      BY <2>2, <2>3
    <3> QED BY SMTT(30), <3>1, ModSmall
  <2>5. Readable(fd, size) \in Nat /\ files[fd].offset + Readable(fd, size) <= Node(fd).size
    BY <2>2, <2>3, <2>4 DEF Readable
  <2>8. files' \in [FDs -> FileType]
    <3>1. files[fd].offset + Readable(fd, size) \in Nat
      BY <2>2, <2>5
    <3> QED BY Zenon, <2>1, <2>2, <3>1, FilesTyped DEF IInv, Types
  <2>6. Types' /\ RegionsDisjoint'
    BY <2>1, <2>8 DEF fs, IInv, Types, Live, RegionsDisjoint
  <2>7. OffsetInFile'
    BY SMTT(30), <2>1, <2>2, <2>5 DEF fs, IInv, Types, FileType, Live, OffsetInFile, Node
  <2> QED BY <2>6, <2>7 DEF IInv
<1> QED BY <1>1, <1>2

\* Writing moves the offset, and the file's end with it, inside of the region.
LEMMA WriteStep ==
  ASSUME IInv, NEW fd \in Args, NEW s \in Buffers, mcs_vfs_write(fd, s)
  PROVE  IInv'
<1> USE VfsAssumption
<1>1. CASE UNCHANGED <<fs, files>>
  BY <1>1 DEF fs, IInv, Types, Live, RegionsDisjoint, OffsetInFile, Node
<1>2. CASE ~UNCHANGED <<fs, files>>
  <2> DEFINE n   == files[fd].node
             end == files[fd].offset + Len(s)
  <2>1. /\ ~BadFD(fd) /\ FitsRegion(fd, Len(s)) /\ UNCHANGED <<node_count, data_used>>
        /\ files' = [files EXCEPT ![fd].offset = end]
        /\ nodes' = [nodes EXCEPT ![n].size = IF end > @ THEN end ELSE @]
    BY <1>2 DEF mcs_vfs_write, Reject
  <2>2. /\ fd \in FDs /\ n \in Live /\ files[fd].offset \in Nat /\ Len(s) \in Nat
        /\ Live \subseteq NodeIds /\ Live' = Live
    BY SMTT(30), <2>1 DEF BadFD, IInv, OffsetInFile, Types, FileType, Live, NodeIds
  <2>3. /\ end \in Nat /\ end <= nodes[n].data_capacity
        /\ nodes[n] \in NodeType
    BY SMTT(30), <2>1, <2>2 DEF FitsRegion, Node, IInv, Types
  <2> HIDE DEF end, n
  <2>4. /\ nodes' \in [NodeIds -> NodeType]
        /\ \A i \in NodeIds : /\ nodes'[i].data_offset = nodes[i].data_offset
                              /\ nodes'[i].data_capacity = nodes[i].data_capacity
                              /\ nodes[i].size <= nodes'[i].size
                              /\ i # n => nodes'[i].size = nodes[i].size
        /\ end <= nodes'[n].size /\ nodes'[n].size \in {end, nodes[n].size}
    <3> DEFINE larger == [nodes[n] EXCEPT !.size = IF end > @ THEN end ELSE @]
    <3>1. /\ larger \in NodeType
          /\ larger.data_offset = nodes[n].data_offset
          /\ larger.data_capacity = nodes[n].data_capacity
          /\ nodes[n].size <= larger.size /\ end <= larger.size
          /\ larger.size \in {end, nodes[n].size}
      <4> DEFINE m == IF end > nodes[n].size THEN end ELSE nodes[n].size
      <4>1. nodes[n].size \in Nat
        BY <2>3 DEF NodeType
      <4>2. m \in Nat /\ nodes[n].size <= m /\ end <= m /\ m \in {end, nodes[n].size}
        BY <2>3, <4>1
      <4>3. larger = [nodes[n] EXCEPT !.size = m]
        OBVIOUS
      <4> HIDE DEF m
      <4>4. /\ larger \in NodeType /\ larger.size = m
            /\ larger.data_offset = nodes[n].data_offset
            /\ larger.data_capacity = nodes[n].data_capacity
        <5>1. nodes[n] \in NodeType
          BY <2>3
        <5> HIDE DEF larger
        <5> QED BY ZenonT(30), <4>2, <4>3, <5>1 DEF NodeType
      <4> HIDE DEF larger
      <4> QED BY <4>2, <4>4
    <3>2. nodes' = [nodes EXCEPT ![n] = larger] /\ n \in NodeIds
      BY <2>1, <2>2
    <3> HIDE DEF larger
    <3>3. nodes' \in [NodeIds -> NodeType] /\ nodes'[n] = larger
      BY <3>1, <3>2 DEF IInv, Types
    <3>4. \A i \in NodeIds : i # n => nodes'[i] = nodes[i] /\ nodes[i] \in NodeType
      BY <3>2 DEF IInv, Types
    <3> QED BY <3>1, <3>3, <3>4 DEF NodeType
  <2>9. files' \in [FDs -> FileType]
    BY Zenon, <2>1, <2>2, <2>3, FilesTyped DEF IInv, Types
  <2>5. Types'
    BY <2>1, <2>2, <2>4, <2>9 DEF IInv, Types
  <2>6. RegionsDisjoint'
    BY <2>1, <2>2, <2>4 DEF IInv, RegionsDisjoint
  <2>7. \A i \in Live' : nodes'[i].size <= nodes'[i].data_capacity
    BY <2>2, <2>3, <2>4 DEF IInv, OffsetInFile
  <2>8. ASSUME NEW g \in FDs, files'[g].used
        PROVE  files'[g].node \in Live' /\ files'[g].offset <= nodes'[files'[g].node].size
    <3>1. CASE g = fd
      <4>1. files'[g].node = n /\ files'[g].offset = end
        BY <2>1, <2>2, <3>1 DEF IInv, Types, FileType, n
      <4> QED BY <4>1, <2>2, <2>4
    <3>2. CASE g # fd
      <4>1. files'[g] = files[g] /\ files[g] \in FileType
        BY <2>1, <3>2 DEF IInv, Types
      <4>2. files[g].node \in Live /\ files[g].offset <= nodes[files[g].node].size
        BY <4>1, <2>8 DEF IInv, OffsetInFile, Node
      <4>3. /\ files[g].offset \in Nat /\ files[g].node \in NodeIds
            /\ nodes[files[g].node].size \in Nat /\ nodes'[files[g].node].size \in Nat
        BY <4>1, <4>2, <2>2, <2>4 DEF FileType, NodeType, IInv, Types
      <4>4. nodes[files[g].node].size <= nodes'[files[g].node].size
        BY <4>3, <2>4
      <4> QED BY <4>1, <4>2, <4>3, <4>4, <2>2
    <3> QED BY <3>1, <3>2
  <2> QED BY <2>5, <2>6, <2>7, <2>8 DEF IInv, OffsetInFile, Node
<1> QED BY <1>1, <1>2

\* Seeking stops at the end of the file, in unsigned arithmetic too.
LEMMA SeekStep ==
  ASSUME IInv, NEW fd \in Args, NEW o \in SeekOffsets, NEW w \in {"SET", "CUR", "END", "other"},
         mcs_vfs_lseek(fd, o, w)
  PROVE  IInv'
<1> USE VfsAssumption
<1>1. CASE UNCHANGED <<fs, files>>
  BY <1>1 DEF fs, IInv, Types, Live, RegionsDisjoint, OffsetInFile, Node
<1>2. CASE ~UNCHANGED <<fs, files>>
  <2>1. ~BadFD(fd) /\ fd \in FDs /\ files[fd].node \in Live /\ Live \subseteq NodeIds
    BY <1>2 DEF mcs_vfs_lseek, Reject, BadFD, IInv, OffsetInFile, Types, Live, NodeIds
  <2>2. files[fd].offset \in Nat /\ Node(fd).size \in Nat
    BY <2>1 DEF IInv, Types, FileType, NodeType, Node
  <2>3. PICK new \in Nat : /\ InFile(fd, new) /\ UNCHANGED fs
                           /\ files' = [files EXCEPT ![fd].offset = new]
    <3>1. PICK base \in Nat :
            /\ InFile(fd, (base + o) % WordSize) /\ UNCHANGED fs
            /\ files' = [files EXCEPT ![fd].offset = (base + o) % WordSize]
      BY Zenon, <1>2, <2>2 DEF mcs_vfs_lseek, Reject
    <3>2. (base + o) % WordSize \in Nat
      OBVIOUS
    <3> QED BY Zenon, <3>1, <3>2
  <2>4. Types' /\ RegionsDisjoint'
    BY ZenonT(30), <2>1, <2>3 DEF fs, IInv, Types, FileType, Live, RegionsDisjoint
  <2>5. OffsetInFile'
    BY SMTT(30), <2>1, <2>3 DEF fs, IInv, Types, FileType, Live, InFile, OffsetInFile, Node
  <2> QED BY <2>4, <2>5 DEF IInv
<1> QED BY <1>1, <1>2

\* Closing frees the descriptor, used or not.
LEMMA CloseStep ==
  ASSUME IInv, NEW fd \in Args, mcs_vfs_close(fd)
  PROVE  IInv'
<1>1. UNCHANGED fs /\ \/ UNCHANGED files
                      \/ fd \in FDs /\ files' = [files EXCEPT ![fd].used = FALSE]
  BY DEF mcs_vfs_close, Reject
<1>2. Types' /\ RegionsDisjoint'
  BY ZenonT(30), <1>1 DEF fs, IInv, Types, FileType, Live, RegionsDisjoint
<1>3. OffsetInFile'
  BY <1>1 DEF fs, IInv, Types, FileType, Live, OffsetInFile, Node
<1> QED BY <1>2, <1>3 DEF IInv

\* The invariant holds for ever.
LEMMA IInvHolds == Spec => []IInv
<1>1. IInv /\ [Next]_vars => IInv'
  <2> SUFFICES ASSUME IInv, [Next]_vars
               PROVE  IInv'
    OBVIOUS
  <2>1. CASE UNCHANGED vars
    BY <2>1 DEF vars, fs, IInv, Types, Live, RegionsDisjoint, OffsetInFile, Node
  <2> QED BY <2>1, SeedStep, OpenStep, ReadStep, WriteStep, SeekStep, CloseStep DEF Next
<1> QED BY InitIInv, <1>1, PTL DEF Spec

\* The regions of the files never meet, whatever files are opened and seeded.
THEOREM FilesNeverMeet == Spec => []RegionsDisjoint
  BY IInvHolds, PTL DEF IInv

\* No descriptor ever stands beyond the end of its file, whatever is read,
\* written and seeked through the others.
THEOREM OffsetsStayInFile == Spec => []OffsetInFile
  BY IInvHolds, PTL DEF IInv
-----------------------------------------------------------------------------
(* The refinement of FileStore                                             *)

Cells == Bytes \cup {Garbage}

\* The bytes of a node, and what FileStore's content and open stand for.
Body(i) == [k \in 1 .. nodes[i].size |-> data[nodes[i].data_offset + k - 1]]
Content == [n \in Visible |->
  [k \in 1 .. nodes[First(n)].size |-> data[nodes[First(n)].data_offset + k - 1]]]
Entry(f) == IF f.used THEN [name |-> nodes[f.node].name, offset |-> f.offset] ELSE Closed
Opened  == [fd \in FDs |-> IF files[fd].used
                           THEN [name |-> Node(fd).name, offset |-> files[fd].offset] ELSE Closed]

\* A descriptor in use is on the node that the name shows, since nodes are only
\* ever appended, and every node but the root has a whole region.
NameInv ==
  /\ data \in [Pool -> Cells]
  /\ nodes[0].name = Root /\ nodes[0].size = 0 /\ nodes[0].data_capacity = 0
  /\ \A i \in Live : i # 0 => nodes[i].data_capacity = Region
  /\ \A fd \in FDs : files[fd].used => IsFirst(files[fd].node, nodes[files[fd].node].name)

LEMMA InitNameInv == Init => NameInv
<1> SUFFICES ASSUME Init PROVE NameInv
  OBVIOUS
<1>1. data \in [Pool -> Cells]
  BY DEF Init, Cells
<1>2. nodes[0] = NoNode /\ node_count = 1 /\ \A i \in Live : i = 0
  BY VfsAssumption DEF Init, NodeIds, Live
<1>3. \A fd \in FDs : ~ files[fd].used
  BY DEF Init
<1> QED BY <1>1, <1>2, <1>3 DEF NameInv, NoNode

\* What lookup finds is the least node of the name.
LEMMA FirstFacts ==
  ASSUME node_count \in Nat, node_count' \in Nat, NEW m
  PROVE  /\ Named(m) # {} => First(m) \in Named(m) /\ IsFirst(First(m), m)
         /\ \A i : IsFirst(i, m) => i = First(m) /\ i \in Live /\ Named(m) # {}
         /\ Named(m)' # {} => First(m)' \in Named(m)'
         /\ \A i \in Named(m)' : (\A j \in Named(m)' : i <= j) => i = First(m)'
<1>1. Live \in SUBSET Nat /\ Live' \in SUBSET Nat
  <2>1. \A j \in Live : j \in Nat
    BY DEF Live
  <2>2. \A j \in Live' : j \in Nat
    BY DEF Live
  <2> QED BY <2>1, <2>2
<1>2. Named(m) \in SUBSET Live /\ Named(m)' \in SUBSET Live'
  BY DEF Named
<1>3. First(m) = CHOOSE i \in Live : i \in Named(m) /\ \A j \in Named(m) : i <= j
  BY DEF First, IsFirst
<1>4. First(m)' = CHOOSE i \in Live' : i \in Named(m)' /\ \A j \in Named(m)' : i <= j
  BY DEF First, IsFirst
<1>5. /\ Named(m) # {} => First(m) \in Named(m) /\ \A j \in Named(m) : First(m) <= j
      /\ \A i \in Named(m) : (\A j \in Named(m) : i <= j) => i = First(m)
  BY Zenon, <1>1, <1>2, <1>3, LeastChosen
<1>6. /\ Named(m)' # {} => First(m)' \in Named(m)'
      /\ \A i \in Named(m)' : (\A j \in Named(m)' : i <= j) => i = First(m)'
  BY <1>1, <1>2, <1>4, LeastChosen
<1> QED BY <1>2, <1>5, <1>6 DEF IsFirst

\* A step that leaves the file system alone changes no content and moves at most
\* one descriptor.
LEMMA FilesOnly ==
  ASSUME IInv, NameInv, UNCHANGED fs, NEW fd \in FDs, NEW f \in FileType,
         files' = [files EXCEPT ![fd] = f],
         f.used => IsFirst(f.node, nodes[f.node].name)
  PROVE  NameInv' /\ Content' = Content /\ Opened' = [Opened EXCEPT ![fd] = Entry(f)]
<1>1. nodes' = nodes /\ node_count' = node_count /\ data' = data
  BY DEF fs
<1>2. Live' = Live /\ (\A m : Named(m)' = Named(m)) /\ (\A i, m : IsFirst(i, m)' = IsFirst(i, m))
  BY <1>1 DEF Live, Named, IsFirst
<1>3. Content' = Content
  BY <1>1 DEF Content, Visible, Body, First, IsFirst, Named, Live
<1>4. \A g \in FDs : files'[g] = IF g = fd THEN f ELSE files[g]
  BY DEF IInv, Types
<1>5. Opened' = [Opened EXCEPT ![fd] = Entry(f)]
  BY ZenonT(30), <1>1, <1>4 DEF Opened, Entry, Node
<1>6. NameInv'
  BY SMTT(30), <1>1, <1>2, <1>4 DEF NameInv
<1> QED BY <1>3, <1>5, <1>6

LEMMA Quiet ==
  ASSUME IInv, NameInv, UNCHANGED <<fs, files>>
  PROVE  NameInv' /\ Content' = Content /\ Opened' = Opened
BY DEF fs, NameInv, Content, Visible, Body, First, IsFirst, Named, Live, Opened, Entry, Node

\* Where a node lies, and that its bytes are in the pool.
LEMMA NodeFacts ==
  ASSUME IInv, NEW i \in Live
  PROVE  /\ i \in NodeIds /\ nodes[i] \in NodeType
         /\ nodes[i].size \in Nat /\ nodes[i].data_offset \in Nat /\ nodes[i].data_capacity \in Nat
         /\ nodes[i].size <= nodes[i].data_capacity /\ nodes[i].data_capacity <= Region
         /\ nodes[i].data_offset + nodes[i].data_capacity <= data_used /\ data_used \in Nat
         /\ data_used <= DataBytes
<1>1. i \in NodeIds
  BY VfsAssumption DEF IInv, Types, Live, NodeIds
<1>2. nodes[i] \in NodeType
  BY <1>1 DEF IInv, Types
<1>3. nodes[i].size \in Nat /\ nodes[i].data_offset \in Nat /\ nodes[i].data_capacity \in Nat
  BY <1>2 DEF NodeType
<1>4. data_used \in Nat /\ nodes[i].data_capacity <= Region
  BY DEF IInv, Types
<1>5. nodes[i].data_offset + nodes[i].data_capacity <= data_used /\ data_used <= DataBytes
  BY DEF IInv, RegionsDisjoint
<1>6. nodes[i].size <= nodes[i].data_capacity
  BY DEF IInv, OffsetInFile
<1> QED BY <1>1, <1>2, <1>3, <1>4, <1>5, <1>6

LEMMA BodyFacts ==
  ASSUME IInv, NameInv, NEW i \in Live
  PROVE  Body(i) \in Seq(Cells) /\ Len(Body(i)) = nodes[i].size
<1> DEFINE n == nodes[i]
<1>0. /\ n.size \in Nat /\ n.data_offset \in Nat /\ n.data_capacity \in Nat
      /\ n.size <= n.data_capacity /\ n.data_offset + n.data_capacity <= data_used
      /\ data_used \in Nat /\ data_used <= DataBytes /\ DataBytes \in Nat
  BY NodeFacts, VfsAssumption
<1>1. \A k \in 1 .. n.size : n.data_offset + k - 1 \in Pool
  <2> HIDE DEF n
  <2> QED BY <1>0 DEF Pool
<1>2. Body(i) \in [1 .. nodes[i].size -> Cells] /\ nodes[i].size \in Nat
  BY <1>1, NodeFacts DEF Body, NameInv
<1> QED BY <1>2

\* A node appended to the table hides behind an older one of its name, or is what
\* the name shows from then on.  No byte of another node is touched.
LEMMA CreateEffect ==
  ASSUME IInv, IInv', NameInv, NEW path \in Names, NEW s \in Seq(Bytes), Len(s) <= Region, ~NoRoom,
         mcs_ramfs_create_file(path, Len(s)), data' = Stored(data_used, s), NEW c, c = node_count
  PROVE  /\ data' \in [Pool -> Cells]
         /\ \A i \in Live : nodes'[i] = nodes[i]
         /\ \A i \in Live' : i # 0 => nodes'[i].data_capacity = Region
         /\ \A i, m : IsFirst(i, m) => IsFirst(i, m)'
         /\ nodes'[c].name = path
         /\ path \in Visible => Content' = Content
         /\ path \notin Visible =>
              /\ IsFirst(c, path)'
              /\ Content' = [m \in Visible \cup {path} |-> IF m = path THEN s ELSE Content[m]]
<1> DEFINE z == Len(s)
<1>1. z \in 0 .. Region /\ z \in Nat
  BY VfsAssumption
<1>2. /\ c \in NodeIds /\ node_count' = c + 1 /\ Live' = Live \cup {c}
      /\ \A i \in Live : nodes'[i] = nodes[i]
  BY <1>1, CreateStep, CreateKeepsOffsets
<1>3. /\ c \in Nat /\ c >= 1 /\ node_count' \in Nat /\ data_used \in Nat
      /\ data_used + Region < DataBytes /\ DataBytes \in Nat /\ Region \in Nat
  BY <1>2, VfsAssumption DEF IInv, Types, NoRoom, PoolFull
<1>4. \A i \in Live : i \in Nat /\ i < c
  BY <1>3 DEF Live
<1>5. nodes'[c] = [name |-> path, size |-> z, data_offset |-> data_used, data_capacity |-> Region]
  BY <1>2 DEF mcs_ramfs_create_file, IInv, Types
<1>6. /\ \A p \in Pool : data'[p] = IF p \in data_used .. (data_used + z - 1) THEN s[p - data_used + 1]
                                    ELSE data[p]
      /\ data' \in [Pool -> Cells]
  <2>1. \A p \in data_used .. (data_used + z - 1) : p - data_used + 1 \in 1 .. Len(s)
    BY <1>1, <1>3
  <2>2. \A p \in data_used .. (data_used + z - 1) : s[p - data_used + 1] \in Cells
    BY <2>1 DEF Cells
  <2>3. data' = [p \in Pool |-> IF p \in data_used .. (data_used + z - 1)
                                THEN s[p - data_used + 1] ELSE data[p]]
    BY DEF Stored
  <2> QED BY <2>2, <2>3 DEF NameInv
<1> HIDE DEF z
<1>7. ASSUME NEW i \in Live
      PROVE  Body(i)' = Body(i)
  <2> DEFINE n == nodes[i]
  <2>1. /\ n.size \in Nat /\ n.data_offset \in Nat /\ n.data_capacity \in Nat
        /\ n.size <= n.data_capacity /\ n.data_offset + n.data_capacity <= data_used
        /\ data_used <= DataBytes
    BY NodeFacts
  <2>2. \A k \in 1 .. n.size : /\ n.data_offset + k - 1 \in Pool
                               /\ n.data_offset + k - 1 < data_used
    <3> HIDE DEF n
    <3>1. DataBytes \in Nat /\ data_used \in Nat
      BY <1>3
    <3> SUFFICES ASSUME NEW k \in 1 .. n.size
                 PROVE  n.data_offset + k - 1 \in Pool /\ n.data_offset + k - 1 < data_used
      OBVIOUS
    <3>2. n.data_offset + k - 1 \in Nat /\ n.data_offset + k - 1 < data_used
      BY <2>1, <3>1
    <3> QED BY <2>1, <3>1, <3>2 DEF Pool
  <2>3. \A k \in 1 .. n.size : data'[n.data_offset + k - 1] = data[n.data_offset + k - 1]
    <3>1. ASSUME NEW k \in 1 .. n.size
          PROVE  ~(n.data_offset + k - 1 \in data_used .. (data_used + z - 1))
      <4> HIDE DEF n
      <4> QED BY <1>3, <2>1, <2>2
    <3> QED BY <1>6, <2>2, <3>1
  <2>4. nodes'[i] = n
    BY <1>2
  <2> QED BY <2>3, <2>4 DEF Body
<1>8. Body(c)' = s
  <2>1. ASSUME NEW k \in 1 .. z
        PROVE  data'[data_used + k - 1] = s[k]
    <3>1. data_used + k - 1 \in Pool /\ data_used + k - 1 \in data_used .. (data_used + z - 1)
      BY <1>1, <1>3 DEF Pool
    <3>2. (data_used + k - 1) - data_used + 1 = k
      BY <1>1, <1>3
    <3> QED BY <1>6, <3>1, <3>2
  <2>2. Body(c)' = [k \in 1 .. z |-> data'[data_used + k - 1]]
    BY <1>5 DEF Body
  <2>3. s = [k \in 1 .. z |-> s[k]]
    BY DEF z
  <2> QED BY <2>1, <2>2, <2>3
<1>9. \A m : m # path => Named(m)' = Named(m)
  BY <1>2, <1>5 DEF Named
<1>10. Named(path)' = Named(path) \cup {c}
  BY <1>2, <1>5 DEF Named
<1>11. ASSUME NEW i, NEW m, IsFirst(i, m)
       PROVE  IsFirst(i, m)'
  <2>1. i \in Named(m) /\ i \in Live /\ \A j \in Named(m) : i <= j
    BY <1>11 DEF IsFirst, Named
  <2>2. i <= c
    BY <1>3, <1>4, <2>1
  <2>3. Named(m)' = Named(m) \/ Named(m)' = Named(m) \cup {c}
    BY SMTT(30), <1>9, <1>10
  <2> QED BY <2>1, <2>2, <2>3 DEF IsFirst
<1>12. ASSUME NEW m \in Visible
       PROVE  m \in Visible' /\ Body(First(m))' = Body(First(m))
  <2>1. IsFirst(First(m), m) /\ First(m) \in Live
    BY <1>3, FirstFacts DEF Visible
  <2>2. PICK i \in Live : i = First(m)
    BY <2>1
  <2>3. IsFirst(i, m)'
    BY <1>11, <2>1, <2>2
  <2>4. i = First(m)' /\ m \in Visible'
    <3>1. i \in Named(m)' /\ \A j \in Named(m)' : i <= j
      BY <2>3 DEF IsFirst
    <3> QED BY <1>3, <3>1, FirstFacts DEF Visible
  <2>5. Body(i)' = Body(i)
    BY <1>7
  <2> QED BY <2>2, <2>4, <2>5 DEF Body
<1>13. \A m \in Visible' : m = path \/ m \in Visible
  BY SMTT(30), <1>9 DEF Visible
<1>14. path \in Visible => Content' = Content
  <2> HAVE path \in Visible
  <2>1. Visible' = Visible
    BY Zenon, <1>12, <1>13
  <2> QED BY <1>12, <2>1 DEF Content, Body
<1>15. ASSUME path \notin Visible
       PROVE  /\ IsFirst(c, path)'
              /\ Content' = [m \in Visible \cup {path} |-> IF m = path THEN s ELSE Content[m]]
  <2>1. Named(path)' = {c}
    BY <1>10, <1>15 DEF Visible
  <2>2. First(path)' = c /\ path \in Visible'
    BY Zenon, <1>3, <2>1, FirstFacts DEF Visible
  <2>3. Visible' = Visible \cup {path}
    BY <1>12, <1>13, <2>2
  <2>4. Body(First(path))' = s
    BY <1>8, <2>2 DEF Body
  <2>5. c \in {c} /\ \A j \in {c} : c <= j
    BY <1>3
  <2>6. IsFirst(c, path)'
    BY SMTT(30), <1>2, <2>1, <2>5 DEF IsFirst
  <2> QED BY Zenon, <1>12, <1>15, <2>3, <2>4, <2>6 DEF Content, Body
<1>16. \A i \in Live' : i # 0 => nodes'[i].data_capacity = Region
  BY <1>2, <1>5 DEF NameInv
<1> QED BY <1>2, <1>5, <1>6, <1>11, <1>14, <1>15, <1>16

\* The cut and paste of FileStore's Write, and the same byte by byte.
Spliced(old, s, off) ==
  SubSeq(old, 1, off) \o s \o SubSeq(old, off + Len(s) + 1, Len(old))

Pasted(old, s, off) ==
  LET end == off + Len(s)
  IN  [k \in 1 .. (IF end > Len(old) THEN end ELSE Len(old)) |->
         IF k \in (off + 1) .. end THEN s[k - off] ELSE old[k]]

LEMMA Splice ==
  ASSUME NEW S, NEW old \in Seq(S), NEW s \in Seq(S), NEW off \in 0 .. Len(old)
  PROVE  Spliced(old, s, off) = Pasted(old, s, off)
<1>0. PICK end, m : end = off + Len(s) /\ m = IF end > Len(old) THEN end ELSE Len(old)
  OBVIOUS
<1> DEFINE a == SubSeq(old, 1, off)
           c == SubSeq(old, end + 1, Len(old))
           t == a \o s
           u == t \o c
           n == Len(old)
           z == Len(s)
<1>1. n \in Nat /\ z \in Nat /\ off \in Nat /\ off <= n /\ end = off + z
  BY <1>0
<1>2. a \in Seq(S) /\ Len(a) = off /\ \A k \in 1 .. off : a[k] = old[k]
  OBVIOUS
<1>3. /\ c \in Seq(S) /\ Len(c) = (IF end >= n THEN 0 ELSE n - end)
      /\ \A k \in 1 .. Len(c) : c[k] = old[end + k]
  BY <1>0
<1> HIDE DEF a, c, n, z
<1>4. /\ t \in Seq(S) /\ Len(t) = off + z
      /\ \A k \in 1 .. off : t[k] = old[k]
      /\ \A k \in 1 .. z : t[off + k] = s[k]
  BY <1>2 DEF z
<1> HIDE DEF t
<1>5. /\ u \in Seq(S) /\ Len(u) = end + Len(c)
      /\ \A k \in 1 .. end : u[k] = t[k]
      /\ \A k \in 1 .. Len(c) : u[end + k] = c[k]
  <2>1. Len(t) = end
    BY <1>1, <1>4
  <2>2. /\ u \in Seq(S) /\ Len(u) = Len(t) + Len(c)
        /\ \A k \in 1 .. Len(t) : u[k] = t[k]
        /\ \A k \in 1 .. Len(c) : u[Len(t) + k] = c[k]
    <3>1. t \in Seq(S) /\ c \in Seq(S)
      BY <1>3, <1>4
    <3> QED BY <3>1
  <2> HIDE DEF u
  <2> QED BY <2>1, <2>2, Zenon
<1> HIDE DEF u
<1>6. Len(u) = m /\ m \in Nat
  <2>1. m = IF end > n THEN end ELSE n
    BY <1>0 DEF n
  <2> DEFINE lu == Len(u)
             lc == Len(c)
  <2>2. lu = end + lc /\ lc = IF end >= n THEN 0 ELSE n - end
    BY <1>3, <1>5
  <2> HIDE DEF lu, lc
  <2>3. lu = m /\ m \in Nat
    BY <1>1, <2>1, <2>2
  <2> QED BY <2>3 DEF lu
<1>7. ASSUME NEW k \in 1 .. m
      PROVE  u[k] = IF k \in (off + 1) .. end THEN s[k - off] ELSE old[k]
  <2>1. CASE k <= off
    <3>1. k \in 1 .. off /\ k \in 1 .. end /\ ~(k \in (off + 1) .. end)
      BY <1>1, <1>6, <2>1
    <3> QED BY <1>4, <1>5, <3>1
  <2>2. CASE k \in (off + 1) .. end
    <3>1. k \in 1 .. end /\ k - off \in 1 .. z /\ off + (k - off) = k
      BY <1>1, <1>6, <2>2
    <3>2. u[k] = t[k] /\ t[off + (k - off)] = s[k - off]
      BY <1>4, <1>5, <3>1
    <3> QED BY <2>2, <3>1, <3>2
  <2>3. CASE k > end
    <3>1. k - end \in 1 .. Len(c) /\ end + (k - end) = k
      BY <1>1, <1>3, <1>5, <1>6, <2>3
    <3>2. u[end + (k - end)] = c[k - end] /\ c[k - end] = old[end + (k - end)]
      BY <1>3, <1>5, <3>1
    <3>3. ~(k \in (off + 1) .. end)
      BY <1>1, <1>6, <2>3
    <3> QED BY <3>1, <3>2, <3>3
  <2> QED BY SMTT(30), <1>1, <1>6, <2>1, <2>2, <2>3
<1>8. u = [k \in 1 .. m |-> u[k]]
  BY <1>5, <1>6
<1>9. u = [k \in 1 .. m |-> IF k \in (off + 1) .. end THEN s[k - off] ELSE old[k]]
  BY <1>7, <1>8
<1>10. Spliced(old, s, off) = u
  BY <1>0 DEF Spliced, u, t, a, c
<1>11. Pasted(old, s, off) = [k \in 1 .. m |-> IF k \in (off + 1) .. end THEN s[k - off] ELSE old[k]]
  BY <1>0 DEF Pasted
<1> QED BY <1>9, <1>10, <1>11

\* The descriptor fd is at the offset off of the node n, which its name shows.
Sits(fd, n, name, off) ==
  /\ n \in Live /\ n \in NodeIds /\ name \in Names /\ name \in Visible /\ First(name) = n
  /\ nodes[n].data_capacity = Store!Limit(name)
  /\ off \in Nat /\ off <= nodes[n].size
  /\ Opened[fd] = [name |-> name, offset |-> off] /\ Opened[fd] # Closed
  /\ Content[name] = Body(n)

\* A descriptor in use, and the file it is on.
LEMMA OnFile ==
  ASSUME IInv, NameInv, node_count' \in Nat, NEW fd \in FDs, files[fd].used,
         NEW n, NEW name
  PROVE  n = files[fd].node /\ name = nodes[n].name => Sits(fd, n, name, files[fd].offset)
<1> HAVE n = files[fd].node /\ name = nodes[n].name
<1>1. IsFirst(n, name) /\ n \in Live
  BY DEF NameInv, IInv, OffsetInFile
<1>2. n \in NodeIds /\ name \in Names
  BY SMTT(30), <1>1, NodeFacts DEF NodeType
<1>3. First(name) = n /\ name \in Visible
  <2>1. node_count \in Nat
    BY DEF IInv, Types
  <2> QED BY <1>1, <1>2, <2>1, FirstFacts DEF Visible
<1>4. files[fd].offset \in Nat /\ files[fd].offset <= nodes[n].size
  BY SMTT(30) DEF IInv, Types, FileType, OffsetInFile, Node
<1>5. nodes[n].data_capacity = Store!Limit(name)
  <2>1. CASE name = Root
    <3>1. 0 \in Named(Root)
      BY DEF NameInv, Named, Live, IInv, Types
    <3>2. n <= 0 /\ n \in Nat
      BY <1>1, <1>2, <2>1, <3>1 DEF IsFirst, NodeIds
    <3>3. n = 0
      BY <3>2
    <3> QED BY <2>1, <3>3 DEF NameInv, Store!Limit
  <2>2. CASE name # Root
    BY SMTT(30), <1>1, <2>2 DEF NameInv, Store!Limit
  <2> QED BY <2>1, <2>2
<1>6. Opened[fd] = [name |-> name, offset |-> files[fd].offset]
  BY DEF Opened, Entry, Node
<1>7. Opened[fd] # Closed
  BY SMTT(30), <1>2, <1>4, <1>6, VfsAssumption
<1> QED BY ZenonT(30), <1>1, <1>2, <1>3, <1>4, <1>5, <1>6, <1>7 DEF Sits, Content, Body

\* FileStore's actions under the refinement mapping.
LEMMA NothingForm == Store!Nothing <=> buf' = << >> /\ Content' = Content /\ Opened' = Opened
BY DEF Store!Nothing, Content, Opened

LEMMA WriteForm ==
  ASSUME NEW fd, NEW s
  PROVE  Store!Write(fd, s) <=>
           LET f == Opened[fd]  end == f.offset + Len(s) IN
           /\ f # Closed /\ end <= Store!Limit(f.name)
           /\ Content' = [m \in DOMAIN Content \cup {f.name} |->
                IF m = f.name THEN Spliced(Content[f.name], s, f.offset) ELSE Content[m]]
           /\ Opened' = [Opened EXCEPT ![fd].offset = end]
           /\ buf' = << >>
BY DEF Store!Write, Store!With, Content, Opened, Spliced

LEMMA ReadForm ==
  ASSUME NEW fd, NEW k
  PROVE  Store!Read(fd, k) <=>
           /\ Opened[fd] # Closed /\ Opened[fd].offset + k <= Len(Content[Opened[fd].name])
           /\ buf' = SubSeq(Content[Opened[fd].name], Opened[fd].offset + 1, Opened[fd].offset + k)
           /\ Opened' = [Opened EXCEPT ![fd].offset = @ + k] /\ Content' = Content
BY DEF Store!Read, Content, Opened

LEMMA SeekForm ==
  ASSUME NEW fd, NEW o
  PROVE  Store!Seek(fd, o) <=>
           /\ Opened[fd] # Closed /\ o <= Len(Content[Opened[fd].name])
           /\ Opened' = [Opened EXCEPT ![fd].offset = o]
           /\ buf' = << >> /\ Content' = Content
BY SMTT(30) DEF Store!Seek, Content, Opened

LEMMA CloseForm ==
  ASSUME NEW fd
  PROVE  Store!Close(fd) <=>
           Opened' = [Opened EXCEPT ![fd] = Closed] /\ buf' = << >> /\ Content' = Content
BY SMTT(30) DEF Store!Close, Content, Opened

LEMMA CreateForm ==
  ASSUME NEW n, NEW s
  PROVE  Store!Create(n, s) <=>
           /\ n \notin DOMAIN Content /\ Len(s) <= Region
           /\ Content' = [m \in DOMAIN Content \cup {n} |-> IF m = n THEN s ELSE Content[m]]
           /\ buf' = << >> /\ Opened' = Opened
BY DEF Store!Create, Store!With, Content, Opened

LEMMA OpenForm ==
  ASSUME NEW n, NEW fd
  PROVE  Store!Open(n, fd) <=>
           /\ Opened[fd] = Closed /\ buf' = << >>
           /\ Opened' = [Opened EXCEPT ![fd] = [name |-> n, offset |-> 0]]
           /\ IF n \in DOMAIN Content THEN Content' = Content
              ELSE Content' = [m \in DOMAIN Content \cup {n} |-> IF m = n THEN << >> ELSE Content[m]]
BY Zenon DEF Store!Open, Store!With, Content, Opened

LEMMA WriteRefines ==
  ASSUME IInv, IInv', NameInv, NEW fd \in Args, NEW s \in Buffers, mcs_vfs_write(fd, s)
  PROVE  NameInv' /\ (Store!Nothing \/ (fd \in FDs /\ s \in Store!Strings /\ Store!Write(fd, s)))
<1>1. CASE UNCHANGED <<fs, files>> /\ buf' = << >>
  BY <1>1, Quiet, NothingForm
<1>2. CASE ~(UNCHANGED <<fs, files>> /\ buf' = << >>)
  <2>1. PICK n, off, name, end : n = files[fd].node /\ off = files[fd].offset /\ name = nodes[n].name
                                 /\ end = off + Len(s)
    OBVIOUS
  <2>2. /\ fd \in FDs /\ files[fd].used /\ end <= nodes[n].data_capacity
        /\ data' = Stored(nodes[n].data_offset + off, s)
        /\ files' = [files EXCEPT ![fd].offset = end]
        /\ nodes' = [nodes EXCEPT ![n].size = IF end > @ THEN end ELSE @]
        /\ buf' = << >> /\ UNCHANGED <<node_count, data_used>>
    BY <1>2, <2>1 DEF mcs_vfs_write, Reject, BadFD, FitsRegion, Node
  <2>3. node_count \in Nat /\ node_count' \in Nat /\ Live' = Live
    BY SMTT(30), <2>2 DEF IInv, Types, Live
  <2>4. /\ n \in Live /\ n \in NodeIds /\ name \in Names /\ name \in Visible /\ First(name) = n
        /\ nodes[n].data_capacity = Store!Limit(name)
        /\ off \in Nat /\ off <= nodes[n].size
        /\ Opened[fd] = [name |-> name, offset |-> off] /\ Opened[fd] # Closed
        /\ Content[name] = Body(n)
    <3>1. n = files[fd].node /\ name = nodes[n].name /\ files[fd].offset = off
      BY <2>1
    <3>2. fd \in FDs /\ files[fd].used /\ node_count' \in Nat
      BY <2>2, <2>3
    <3>3. Sits(fd, n, name, files[fd].offset)
      BY Zenon, <3>1, <3>2, OnFile
    <3>4. Sits(fd, n, name, off)
      BY Zenon, <3>1, <3>3
    <3> QED BY Zenon, <3>4 DEF Sits
  <2>5. s \in Seq(Bytes) /\ Len(s) \in Nat
    BY VfsAssumption
  <2> DEFINE size == nodes[n].size
             base == nodes[n].data_offset
             cap  == nodes[n].data_capacity
             m    == IF end > size THEN end ELSE size
             z    == Len(s)
  <2>6. /\ size \in Nat /\ base \in Nat /\ cap \in Nat /\ size <= cap /\ cap <= Region
        /\ base + cap <= data_used /\ data_used <= DataBytes /\ data_used \in Nat
        /\ DataBytes \in Nat /\ Region \in Nat
    BY Zenon, <2>4, NodeFacts, VfsAssumption
  <2>7. nodes' = [nodes EXCEPT ![n] = [@ EXCEPT !.size = m]]
    BY SMTT(30), <2>2
  <2>8. /\ nodes'[n].name = name /\ nodes'[n].size = m /\ nodes'[n].data_offset = base
        /\ nodes'[n].data_capacity = cap
        /\ \A i \in NodeIds : i # n => nodes'[i] = nodes[i]
    <3> HIDE DEF m
    <3> QED BY <2>1, <2>4, <2>7 DEF IInv, Types, NodeType
  <2>9. Live \subseteq NodeIds
    BY NodeFacts
  <2>10. (\A p : Named(p)' = Named(p)) /\ (\A i, p : IsFirst(i, p)' = IsFirst(i, p))
    <3>1. \A i \in Live : nodes'[i].name = nodes[i].name
      BY <2>1, <2>8, <2>9
    <3>2. \A p : Named(p)' = Named(p)
      BY <2>3, <3>1 DEF Named
    <3> QED BY SMTT(30), <3>2 DEF IsFirst
  <2>11. Visible' = Visible /\ \A p : First(p)' = First(p)
    BY SMTT(30), <2>3, <2>10 DEF Visible, First
  <2> HIDE DEF size, base, cap, m, z
  <2>12. /\ \A p \in Pool : data'[p] = IF p \in (base + off) .. (base + off + z - 1)
                                       THEN s[p - (base + off) + 1] ELSE data[p]
         /\ data' \in [Pool -> Cells]
    <3>1. base + off \in Nat /\ z \in Nat
      <4>1. base \in Nat /\ off \in Nat /\ z \in Nat
        BY Zenon, <2>4, <2>5, <2>6 DEF z
      <4> QED BY <4>1
    <3>2. ASSUME NEW p \in (base + off) .. (base + off + z - 1)
          PROVE  s[p - (base + off) + 1] \in Cells
      <4>1. p - (base + off) + 1 \in 1 .. z
        BY <3>1
      <4> QED BY <2>5, <4>1 DEF Cells, z
    <3>3. data' = [p \in Pool |-> IF p \in (base + off) .. (base + off + z - 1)
                                  THEN s[p - (base + off) + 1] ELSE data[p]]
      BY SMTT(30), <2>2 DEF Stored, base, z
    <3>4. data \in [Pool -> Cells]
      BY Zenon DEF NameInv
    <3> QED BY SMTT(30), <3>2, <3>3, <3>4
  <2>13. end = off + z /\ z \in Nat /\ end \in Nat /\ end <= cap /\ m \in Nat /\ m <= cap
         /\ end <= m /\ size <= m
    <3>1. end = off + z /\ z \in Nat /\ end <= cap
      BY <2>1, <2>2, <2>5 DEF z, cap
    <3> QED BY <2>4, <2>6, <3>1 DEF m
  <2>14. ASSUME NEW i \in Live, i # n
         PROVE  Body(i)' = Body(i)
    <3> DEFINE b == nodes[i].data_offset
               l == nodes[i].size
    <3>1. /\ b \in Nat /\ l \in Nat /\ nodes[i].data_capacity \in Nat /\ l <= nodes[i].data_capacity
          /\ b + nodes[i].data_capacity <= data_used
      BY NodeFacts
    <3>2. nodes'[i] = nodes[i]
      BY <2>8, <2>9, <2>14
    <3>3. b + nodes[i].data_capacity <= base \/ base + cap <= b
      <4>1. i \in Int /\ n \in Int
        BY <2>3, <2>4 DEF Live
      <4>2. i < n \/ n < i
        BY SMTT(30), <2>14, <4>1
      <4> QED BY ZenonT(30), <2>4, <4>2 DEF IInv, RegionsDisjoint, base, cap
    <3> HIDE DEF b, l
    <3>4. ASSUME NEW k \in 1 .. l
          PROVE  data'[b + k - 1] = data[b + k - 1]
      <4>1. b + l <= base \/ base + cap <= b
        BY <2>6, <3>1, <3>3
      <4>2. b + k - 1 \in Nat /\ b + k - 1 < data_used
        BY <2>6, <3>1
      <4>3. b + k - 1 \in Pool
        BY SMTT(30), <2>6, <4>2 DEF Pool
      <4>4. ~(b + k - 1 \in (base + off) .. (base + off + z - 1))
        BY SMTT(30), <2>4, <2>6, <2>13, <3>1, <4>1
      <4> QED BY SMTT(30), <2>12, <4>3, <4>4
    <3> QED BY SMTT(30), <3>2, <3>4 DEF Body, b, l
  <2>15. Body(n) \in Seq(Cells) /\ Len(Body(n)) = size
    BY <2>4, BodyFacts DEF size
  <2>16. Body(n)' = [k \in 1 .. m |-> IF k \in (off + 1) .. end THEN s[k - off] ELSE Body(n)[k]]
    <3>1. Body(n)' = [k \in 1 .. m |-> data'[base + k - 1]]
      BY SMTT(30), <2>8 DEF Body
    <3>2. Body(n) = [k \in 1 .. size |-> data[base + k - 1]]
      BY DEF Body, size, base
    <3>3. ASSUME NEW k \in 1 .. m
          PROVE  data'[base + k - 1] = IF k \in (off + 1) .. end THEN s[k - off] ELSE Body(n)[k]
      <4>1. base + k - 1 \in Nat /\ base + k - 1 < data_used
        BY <2>6, <2>13
      <4>2. base + k - 1 \in Pool
        BY <2>6, <4>1 DEF Pool
      <4>3. CASE k \in (off + 1) .. end
        <5>1. base + k - 1 \in (base + off) .. (base + off + z - 1)
          BY SMTT(30), <2>4, <2>6, <2>13, <4>3
        <5>2. (base + k - 1) - (base + off) + 1 = k - off
          BY SMTT(30), <2>4, <2>6, <2>13
        <5> QED BY SMTT(30), <2>12, <4>2, <4>3, <5>1, <5>2
      <4>4. CASE ~(k \in (off + 1) .. end)
        <5>1. ~(base + k - 1 \in (base + off) .. (base + off + z - 1))
          BY SMTT(30), <2>4, <2>6, <2>13, <4>4
        <5>2. k \in 1 .. size
          BY <2>4, <2>6, <2>13, <4>4 DEF m, size
        <5>3. Body(n)[k] = data[base + k - 1]
          BY <3>2, <5>2
        <5> QED BY SMTT(30), <2>12, <4>2, <4>4, <5>1, <5>3
      <4> QED BY <4>3, <4>4
    <3> QED BY ZenonT(30), <3>1, <3>3
  <2>17. Body(n)' = Spliced(Body(n), s, off)
    <3>1. s \in Seq(Cells)
      BY SMTT(30), <2>5 DEF Cells
    <3>2. off \in 0 .. Len(Body(n)) /\ m = IF end > Len(Body(n)) THEN end ELSE Len(Body(n))
      <4>1. Len(Body(n)) = size
        BY ZenonT(30), <2>15
      <4>2. off \in 0 .. size
        BY <2>4, <2>6 DEF size
      <4> QED BY Zenon, <4>1, <4>2 DEF m
    <3>3. end = off + Len(s)
      BY SMTT(30), <2>13 DEF z
    <3>4. Body(n)' = Pasted(Body(n), s, off)
      BY <2>16, <3>2, <3>3 DEF Pasted
    <3> QED BY <2>15, <3>1, <3>2, <3>4, Splice
  <2> DEFINE new == Spliced(Body(n), s, off)
  <2>18. Content' = [p \in Visible \cup {name} |-> IF p = name THEN new ELSE Content[p]]
    <3> HIDE DEF new
    <3>1. Body(n)' = new
      BY <2>17 DEF new
    <3>2. ASSUME NEW p \in Visible, p # name
          PROVE  Body(First(p))' = Body(First(p))
      <4>1. PICK i \in Live : i = First(p) /\ nodes[i].name = p
        BY <2>3, FirstFacts DEF Visible, Named
      <4>2. i # n
        BY <2>1, <3>2, <4>1
      <4>3. Body(i)' = Body(i)
        BY SMTT(30), <2>14, <4>2
      <4> QED BY SMTT(30), <2>11, <4>1, <4>3 DEF Body
    <3>3. Body(First(name))' = new
      BY ZenonT(30), <2>4, <2>11, <3>1 DEF Body
    <3>4. Visible \cup {name} = Visible
      BY <2>4
    <3> QED BY ZenonT(30), <2>11, <3>2, <3>3, <3>4 DEF Content, Body
  <2>19. files'[fd] = [files[fd] EXCEPT !.offset = end] /\ \A g \in FDs : g # fd => files'[g] = files[g]
    BY <2>2 DEF IInv, Types
  <2>20. /\ files'[fd].used /\ files'[fd].node = n /\ files'[fd].offset = end
    <3>1. files[fd] \in FileType /\ files[fd].used /\ files[fd].node = n
      BY ZenonT(30), <2>1, <2>2 DEF IInv, Types
    <3> QED BY SMTT(30), <2>19, <3>1 DEF FileType
  <2>21. \A i \in Live : nodes'[i].name = nodes[i].name /\ nodes'[i].data_capacity = nodes[i].data_capacity
    BY <2>1, <2>8, <2>9 DEF cap
  <2>22. \A g \in FDs : files[g].used => files[g].node \in Live
    BY Zenon DEF IInv, OffsetInFile
  <2>23. Opened' = [Opened EXCEPT ![fd].offset = end]
    <3>1. Opened'[fd] = [name |-> name, offset |-> end]
      BY <2>2, <2>8, <2>20 DEF Opened, Entry, Node
    <3>2. [Opened[fd] EXCEPT !.offset = end] = [name |-> name, offset |-> end]
      BY <2>4
    <3>3. \A g \in FDs : g # fd => Opened'[g] = Opened[g]
      BY ZenonT(30), <2>19, <2>21, <2>22 DEF Opened, Entry, Node
    <3>4. Opened' = [g \in FDs |-> Opened'[g]] /\ Opened = [g \in FDs |-> Opened[g]]
      BY SMTT(30) DEF Opened, Node
    <3> HIDE DEF Opened, Node
    <3> QED BY SMTT(30), <2>2, <3>1, <3>2, <3>3, <3>4
  <2>24. NameInv'
    <3>1. nodes'[0].name = Root /\ nodes'[0].size = 0 /\ nodes'[0].data_capacity = 0
      <4>1. 0 \in NodeIds
        BY SMTT(30), VfsAssumption DEF NodeIds
      <4>0. nodes[0].name = Root /\ nodes[0].size = 0 /\ nodes[0].data_capacity = 0
        BY Zenon DEF NameInv
      <4>2. CASE n = 0
        <5>1. m = 0
          BY SMTT(30), <2>6, <2>13, <4>0, <4>2 DEF cap, m
        <5> QED BY SMTT(30), <2>1, <2>8, <4>0, <4>2, <5>1 DEF cap
      <4>3. CASE n # 0
        <5>1. nodes'[0] = nodes[0]
          BY Zenon, <2>8, <4>1, <4>3
        <5> QED BY Zenon, <4>0, <5>1
      <4> QED BY <4>2, <4>3
    <3>2. \A i \in Live' : i # 0 => nodes'[i].data_capacity = Region
      BY <2>3, <2>21 DEF NameInv
    <3>3. ASSUME NEW g \in FDs, files'[g].used, NEW i, i = files'[g].node,
                 NEW p, p = nodes'[i].name
          PROVE  IsFirst(i, p)'
      <4>1. i \in Live /\ IsFirst(i, nodes[i].name)
        <5>1. CASE g = fd
          BY SMTT(30), <2>1, <2>2, <2>4, <2>20, <3>3, <5>1 DEF NameInv
        <5>2. CASE g # fd
          BY SMTT(30), <2>19, <2>22, <3>3, <5>2 DEF NameInv
        <5> QED BY ZenonT(30), <5>1, <5>2
      <4>2. p = nodes[i].name
        BY <2>21, <3>3, <4>1
      <4> QED BY <2>10, <4>1, <4>2
    <3> QED BY SMTT(30), <2>12, <3>1, <3>2, <3>3 DEF NameInv
  <2>25. s \in Store!Strings
    <3>1. z \in 0 .. Region
      BY <2>4, <2>6, <2>13
    <3>2. s \in [1 .. Len(s) -> Bytes]
      BY SMTT(30), <2>5
    <3> QED BY ZenonT(30), <3>1, <3>2 DEF Store!Strings, z
  <2>26. end <= Store!Limit(name)
    BY <2>4, <2>13 DEF cap
  <2> HIDE DEF z
  <2>27. Store!Write(fd, s)
    <3>1. Visible = DOMAIN Content
      BY SMTT(30) DEF Content
    <3>2. Opened[fd].name = name /\ Opened[fd].offset = off
      BY SMTT(30), <2>4
    <3> HIDE DEF new
    <3>3. new = Spliced(Content[name], s, off)
      BY SMTT(30), <2>4 DEF new
    <3>4. end = off + Len(s)
      BY <2>1
    <3> QED BY ZenonT(30), <2>2, <2>4, <2>18, <2>23, <2>26, <3>1, <3>2, <3>3, <3>4, WriteForm
  <2> QED BY SMTT(30), <2>2, <2>24, <2>25, <2>27
<1> QED BY <1>1, <1>2

\* A descriptor that only moves.
LEMMA Moved ==
  ASSUME IInv, NameInv, UNCHANGED fs, NEW fd \in FDs, files[fd].used, NEW o \in Nat,
         files' = [files EXCEPT ![fd].offset = o]
  PROVE  /\ NameInv' /\ Content' = Content /\ Opened' = [Opened EXCEPT ![fd].offset = o]
         /\ Opened[fd] # Closed /\ Opened[fd].name \in Visible
         /\ Opened[fd].offset = files[fd].offset
         /\ Content[Opened[fd].name] = Body(files[fd].node) /\ files[fd].node \in Live
<1>1. PICK n, name : n = files[fd].node /\ name = nodes[n].name
  OBVIOUS
<1>2. node_count' \in Nat
  BY DEF IInv, Types, fs
<1>3. /\ n \in Live /\ name \in Visible /\ Opened[fd] # Closed /\ Content[name] = Body(n)
      /\ Opened[fd] = [name |-> name, offset |-> files[fd].offset]
  <2>1. Sits(fd, n, name, files[fd].offset)
    BY Zenon, <1>1, <1>2, OnFile
  <2> QED BY Zenon, <2>1 DEF Sits
<1> DEFINE f == [files[fd] EXCEPT !.offset = o]
<1>4. files[fd] \in FileType
  BY DEF IInv, Types
<1>5. f \in FileType /\ f.used = files[fd].used /\ f.node = n /\ f.offset = o
  BY Zenon, <1>1, <1>4 DEF FileType
<1>6. files' = [files EXCEPT ![fd] = f]
  OBVIOUS
<1> HIDE DEF f
<1>7. f.used => IsFirst(f.node, nodes[f.node].name)
  BY <1>1, <1>5 DEF NameInv
<1>8. NameInv' /\ Content' = Content /\ Opened' = [Opened EXCEPT ![fd] = Entry(f)]
  BY Zenon, <1>5, <1>6, <1>7, FilesOnly
<1>9. Entry(f) = [name |-> name, offset |-> o]
  BY <1>1, <1>5 DEF Entry
<1>10. [Opened[fd] EXCEPT !.offset = o] = [name |-> name, offset |-> o]
  BY <1>3
<1>11. Opened' = [Opened EXCEPT ![fd].offset = o]
  BY ZenonT(30), <1>8, <1>9, <1>10
<1>12. Opened[fd].name = name /\ Opened[fd].offset = files[fd].offset
  BY <1>3
<1> QED BY <1>1, <1>3, <1>8, <1>11, <1>12, Zenon

LEMMA ReadRefines ==
  ASSUME IInv, IInv', NameInv, NEW fd \in Args, NEW size \in ReadSizes, mcs_vfs_read(fd, size)
  PROVE  NameInv' /\ (Store!Nothing \/ \E k \in 0 .. Region : fd \in FDs /\ Store!Read(fd, k))
<1>1. CASE BadFD(fd)
  <2>1. UNCHANGED <<fs, files>> /\ buf' = << >>
    BY <1>1 DEF mcs_vfs_read, Reject
  <2> QED BY <2>1, Quiet, NothingForm
<1>2. CASE ~BadFD(fd)
  <2>1. PICK n, off, k : n = files[fd].node /\ off = files[fd].offset /\ k = Readable(fd, size)
    OBVIOUS
  <2>2. /\ fd \in FDs /\ files[fd].used /\ UNCHANGED fs
        /\ buf' = [i \in 1 .. k |-> data[nodes[n].data_offset + off + i - 1]]
        /\ files' = [files EXCEPT ![fd].offset = off + k]
    BY <1>2, <2>1 DEF mcs_vfs_read, BadFD, Node
  <2>3. n \in Live /\ off \in Nat /\ off <= nodes[n].size
    BY <2>1, <2>2 DEF IInv, Types, FileType, OffsetInFile, Node
  <2>4. nodes[n].size \in Nat /\ nodes[n].size <= Region /\ Region < WordSize
        /\ nodes[n].data_offset \in Nat
    <3>1. /\ nodes[n].size \in Nat /\ nodes[n].data_capacity \in Nat
          /\ nodes[n].size <= nodes[n].data_capacity /\ nodes[n].data_capacity <= Region
          /\ nodes[n].data_offset \in Nat
      BY <2>3, NodeFacts
    <3> QED BY SMTT(30), <3>1, VfsAssumption
  <2>5. k \in 0 .. Region /\ off + k <= nodes[n].size /\ off + k \in Nat
    <3>1. nodes[n].size - off \in 0 .. (WordSize - 1) /\ WordSize \in Nat \ {0} /\ size \in Nat
      BY <2>3, <2>4, VfsAssumption
    <3>2. (nodes[n].size - off) % WordSize = nodes[n].size - off
      BY SMTT(30), <3>1, ModSmall
    <3>3. k = IF size > nodes[n].size - off THEN nodes[n].size - off ELSE size
      BY SMTT(30), <2>1, <3>2 DEF Readable, Node
    <3> DEFINE sz == nodes[n].size
    <3>4. /\ sz \in Nat /\ sz <= Region /\ off \in Nat /\ off <= sz /\ size \in Nat /\ Region \in Nat
          /\ k = IF size > sz - off THEN sz - off ELSE size
      BY <2>3, <2>4, <3>1, <3>3, VfsAssumption
    <3> HIDE DEF sz
    <3>5. k \in 0 .. Region /\ off + k <= sz /\ off + k \in Nat
      BY <3>4
    <3> QED BY <3>5 DEF sz
  <2>6. /\ NameInv' /\ Content' = Content /\ Opened' = [Opened EXCEPT ![fd].offset = off + k]
        /\ Opened[fd] # Closed /\ Opened[fd].offset = off
        /\ Content[Opened[fd].name] = Body(n)
    BY ZenonT(30), <2>1, <2>2, <2>5, Moved
  <2>7. Body(n) \in Seq(Cells) /\ Len(Body(n)) = nodes[n].size
    BY <2>3, BodyFacts
  <2>8. buf' = SubSeq(Body(n), off + 1, off + k)
    <3>1. \A i \in 1 .. k : data[nodes[n].data_offset + off + i - 1] = Body(n)[off + i]
      <4> SUFFICES ASSUME NEW i \in 1 .. k
                   PROVE  data[nodes[n].data_offset + off + i - 1] = Body(n)[off + i]
        OBVIOUS
      <4>1. off + i \in 1 .. nodes[n].size
        BY SMTT(30), <2>3, <2>4, <2>5
      <4>2. nodes[n].data_offset + (off + i) - 1 = nodes[n].data_offset + off + i - 1
        BY SMTT(30), <2>3, <2>4, <2>5
      <4> QED BY <4>1, <4>2 DEF Body
    <3> DEFINE b == Body(n)
    <3>2. b \in Seq(Cells) /\ off + k <= Len(b) /\ off \in Nat /\ k \in Nat
      BY <2>3, <2>5, <2>7
    <3> HIDE DEF b
    <3>3. SubSeq(b, off + 1, off + k) = [i \in 1 .. k |-> b[off + i]]
      BY <3>2
    <3> QED BY SMTT(30), <2>2, <3>1, <3>3 DEF b
  <2>9. [Opened EXCEPT ![fd].offset = off + k] = [Opened EXCEPT ![fd].offset = @ + k]
    BY <2>6
  <2>10. Store!Read(fd, k)
    <3>1. Opened[fd].offset + k <= Len(Content[Opened[fd].name])
      BY <2>5, <2>6, <2>7
    <3>2. buf' = SubSeq(Content[Opened[fd].name], Opened[fd].offset + 1, Opened[fd].offset + k)
      BY <2>6, <2>8
    <3>3. Opened' = [Opened EXCEPT ![fd].offset = @ + k]
      BY <2>6, <2>9
    <3> QED BY <2>6, <3>1, <3>2, <3>3, ReadForm, Zenon
  <2> QED BY <2>2, <2>5, <2>6, <2>10
<1> QED BY <1>1, <1>2

LEMMA SeekRefines ==
  ASSUME IInv, IInv', NameInv, NEW fd \in Args, NEW o \in SeekOffsets,
         NEW w \in {"SET", "CUR", "END", "other"}, mcs_vfs_lseek(fd, o, w)
  PROVE  NameInv' /\ (Store!Nothing \/ \E k \in 0 .. Region : fd \in FDs /\ Store!Seek(fd, k))
<1>1. CASE UNCHANGED <<fs, files>> /\ buf' = << >>
  BY <1>1, Quiet, NothingForm
<1>2. CASE ~(UNCHANGED <<fs, files>> /\ buf' = << >>)
  <2>1. fd \in FDs /\ files[fd].used /\ UNCHANGED fs /\ buf' = << >>
    BY <1>2 DEF mcs_vfs_lseek, Reject, BadFD
  <2>2. PICK n : n = files[fd].node
    OBVIOUS
  <2>3. PICK new : new <= nodes[n].size /\ files' = [files EXCEPT ![fd].offset = new]
    BY <1>2, <2>2 DEF mcs_vfs_lseek, Reject, InFile, Node
  <2>4. files'[fd].offset = new /\ new \in Nat
    BY <2>1, <2>3 DEF IInv, Types, FileType
  <2>5. /\ NameInv' /\ Content' = Content /\ Opened' = [Opened EXCEPT ![fd].offset = new]
        /\ Opened[fd] # Closed /\ Content[Opened[fd].name] = Body(n) /\ n \in Live
    BY Zenon, <2>1, <2>2, <2>3, <2>4, Moved
  <2>6. Len(Body(n)) = nodes[n].size
    BY <2>5, BodyFacts
  <2>7. new \in 0 .. Region
    <3>1. /\ nodes[n].size \in Nat /\ nodes[n].data_capacity \in Nat
          /\ nodes[n].size <= nodes[n].data_capacity /\ nodes[n].data_capacity <= Region
      BY <2>5, NodeFacts
    <3> QED BY <2>3, <2>4, <3>1, VfsAssumption
  <2>8. new <= Len(Content[Opened[fd].name])
    BY <2>3, <2>5, <2>6
  <2>9. Store!Seek(fd, new)
    BY <2>1, <2>5, <2>8, SeekForm, Zenon
  <2> QED BY <2>1, <2>5, <2>7, <2>9
<1> QED BY <1>1, <1>2

LEMMA CloseRefines ==
  ASSUME IInv, IInv', NameInv, NEW fd \in Args, mcs_vfs_close(fd)
  PROVE  NameInv' /\ (Store!Nothing \/ (fd \in FDs /\ Store!Close(fd)))
<1>1. CASE fd \notin FDs
  <2>1. UNCHANGED <<fs, files>> /\ buf' = << >>
    BY <1>1 DEF mcs_vfs_close, Reject
  <2> QED BY <2>1, Quiet, NothingForm
<1>2. CASE fd \in FDs
  <2> DEFINE f == [files[fd] EXCEPT !.used = FALSE]
  <2>1. UNCHANGED fs /\ buf' = << >> /\ files' = [files EXCEPT ![fd] = f]
    BY <1>2 DEF mcs_vfs_close
  <2>2. files[fd] \in FileType
    BY <1>2 DEF IInv, Types
  <2>3. f \in FileType /\ ~f.used
    BY ZenonT(30), <2>2 DEF FileType
  <2> HIDE DEF f
  <2>4. NameInv' /\ Content' = Content /\ Opened' = [Opened EXCEPT ![fd] = Entry(f)]
    BY Zenon, <1>2, <2>1, <2>3, FilesOnly
  <2>5. Entry(f) = Closed
    BY <2>3 DEF Entry
  <2> QED BY Zenon, <1>2, <2>1, <2>4, <2>5, CloseForm
<1> QED BY <1>1, <1>2

LEMMA ShortStrings ==
  ASSUME NEW s \in Seq(Bytes), Len(s) <= Region
  PROVE  s \in Store!Strings
<1>1. Len(s) \in 0 .. Region
  BY VfsAssumption
<1>2. s \in [1 .. Len(s) -> Bytes]
  OBVIOUS
<1> QED BY <1>1, <1>2 DEF Store!Strings

LEMMA StoredNothing ==
  ASSUME IInv, NameInv
  PROVE  Stored(data_used, << >>) = data /\ << >> \in Seq(Bytes) /\ Len(<< >>) = 0
<1>1. Len(<< >>) = 0 /\ << >> \in Seq(Bytes)
  OBVIOUS
<1>2. \A p \in Pool : ~(p \in data_used .. (data_used + 0 - 1))
  BY DEF IInv, Types
<1>3. Stored(data_used, << >>) = [p \in Pool |-> data[p]]
  BY SMTT(30), <1>1, <1>2 DEF Stored
<1> QED BY <1>1, <1>3 DEF NameInv

\* What a new node does to the descriptors that the step leaves alone.
LEMMA CreateKeepsOpen ==
  ASSUME IInv, NameInv, \A i \in Live : nodes'[i] = nodes[i], \A i, m : IsFirst(i, m) => IsFirst(i, m)',
         NEW g \in FDs, files'[g] = files[g]
  PROVE  /\ Opened'[g] = Opened[g]
         /\ files'[g].used => IsFirst(files[g].node, nodes[files[g].node].name)'
<1>1. PICK i, m : i = files[g].node /\ m = nodes[i].name
  BY SMTT(30)
<1>2. files[g].used => i \in Live /\ nodes'[i] = nodes[i] /\ IsFirst(i, m)
  BY <1>1 DEF IInv, OffsetInFile, NameInv
<1>3. Opened'[g] = Opened[g]
  BY ZenonT(30), <1>1, <1>2 DEF Opened, Node
<1>4. files'[g].used => IsFirst(files[g].node, nodes[files[g].node].name)'
  <2> HAVE files'[g].used
  <2>1. i \in Live /\ nodes'[i] = nodes[i] /\ IsFirst(i, m)'
    BY SMTT(30), <1>2
  <2>2. i = files'[g].node /\ m = nodes'[i].name
    BY SMTT(30), <1>1, <2>1
  <2> QED BY <2>1, <2>2
<1> QED BY SMTT(30), <1>3, <1>4

\* A new node leaves the root alone.
LEMMA RootKept ==
  ASSUME IInv, NameInv, \A i \in Live : nodes'[i] = nodes[i]
  PROVE  nodes'[0].name = Root /\ nodes'[0].size = 0 /\ nodes'[0].data_capacity = 0
<1>1. 0 \in Live
  BY VfsAssumption DEF IInv, Types, Live
<1> QED BY <1>1 DEF NameInv

LEMMA SeedRefines ==
  ASSUME IInv, IInv', NameInv, NEW path \in Names, NEW b \in Buffers, mcs_ramfs_seed_file(path, b)
  PROVE  NameInv' /\ (Store!Nothing \/ \E s \in Store!Strings : Store!Create(path, s))
<1>0. b \in Seq(Bytes)
  BY VfsAssumption
<1>1. CASE UNCHANGED <<fs, files>> /\ buf' = << >>
  BY <1>1, Quiet, NothingForm
<1>2. CASE ~(UNCHANGED <<fs, files>> /\ buf' = << >>)
  <2>1. PICK s \in Seq(Bytes) : /\ Len(s) <= Region /\ ~NoRoom /\ UNCHANGED files /\ buf' = << >>
                                /\ mcs_ramfs_create_file(path, Len(s)) /\ data' = Stored(data_used, s)
    <3>1. CASE Len(b) > Region
      <4>1. ~NoRoom /\ mcs_ramfs_create_file(path, 0) /\ UNCHANGED <<data, files>> /\ buf' = << >>
        BY <1>0, <1>2, <3>1, VfsAssumption DEF mcs_ramfs_seed_file
      <4>2. 0 <= Region
        BY VfsAssumption
      <4> QED BY ZenonT(30), <4>1, <4>2, StoredNothing
    <3>2. CASE ~(Len(b) > Region)
      <4>1. ~NoRoom /\ mcs_ramfs_create_file(path, Len(b)) /\ data' = Stored(data_used, b)
            /\ UNCHANGED files /\ buf' = << >>
        BY <1>2, <3>2 DEF mcs_ramfs_seed_file
      <4>2. Len(b) <= Region
        BY <1>0, <3>2, VfsAssumption
      <4> QED BY <1>0, <4>1, <4>2
    <3> QED BY <3>1, <3>2
  <2>2. PICK c : c = node_count
    OBVIOUS
  <2>3. /\ data' \in [Pool -> Cells]
        /\ \A i \in Live : nodes'[i] = nodes[i]
        /\ \A i \in Live' : i # 0 => nodes'[i].data_capacity = Region
        /\ \A i, m : IsFirst(i, m) => IsFirst(i, m)'
        /\ path \in Visible => Content' = Content
        /\ path \notin Visible =>
             Content' = [m \in Visible \cup {path} |-> IF m = path THEN s ELSE Content[m]]
    BY ZenonT(30), <2>1, <2>2, CreateEffect
  <2>4. \A g \in FDs : /\ Opened'[g] = Opened[g]
                       /\ files'[g].used => IsFirst(files[g].node, nodes[files[g].node].name)'
    BY ZenonT(30), <2>1, <2>3, CreateKeepsOpen
  <2>5. NameInv'
    BY <2>3, <2>4, RootKept DEF NameInv
  <2>6. Opened' = Opened
    BY ZenonT(30), <2>4 DEF Opened
  <2>7. DOMAIN Content = Visible
    BY DEF Content
  <2>8. CASE path \in Visible
    BY ZenonT(30), <2>1, <2>3, <2>5, <2>6, <2>8, NothingForm
  <2>9. CASE path \notin Visible
    <3>1. Store!Create(path, s)
      BY SMTT(30), <2>1, <2>3, <2>6, <2>7, <2>9, CreateForm
    <3>2. s \in Store!Strings
      BY <2>1, ShortStrings
    <3> QED BY SMTT(30), <2>5, <3>1, <3>2
  <2> QED BY <2>8, <2>9
<1> QED BY <1>1, <1>2

LEMMA OpenRefines ==
  ASSUME IInv, IInv', NameInv, NEW path \in Names, NEW creat \in BOOLEAN, mcs_vfs_open(path, creat)
  PROVE  NameInv' /\ \/ Store!Nothing
                     \/ \E fd \in FDs : Store!Open(path, fd)
                     \/ \E s \in Store!Strings : Store!Create(path, s)
<1>1. CASE UNCHANGED <<fs, files>> /\ buf' = << >>
  BY <1>1, Quiet, NothingForm
<1>2. ASSUME NEW i \in Live, IsFirst(i, path), Attach(i), UNCHANGED fs, buf' = << >>,
             ~UNCHANGED <<fs, files>>
      PROVE  NameInv' /\ \E fd \in FDs : Store!Open(path, fd)
  <2> DEFINE f == [used |-> TRUE, node |-> i, offset |-> 0]
  <2>1. PICK fd \in FDs : ~files[fd].used /\ files' = [files EXCEPT ![fd] = f]
    BY <1>2 DEF Attach, FreeFDs
  <2>2. f \in FileType /\ f.used /\ f.node = i /\ f.offset = 0
    BY ZenonT(30), NodeFacts DEF FileType
  <2> HIDE DEF f
  <2>3. nodes[i].name = path /\ path \in Visible
    BY <1>2 DEF IsFirst, Named, Visible
  <2>4. NameInv' /\ Content' = Content /\ Opened' = [Opened EXCEPT ![fd] = Entry(f)]
    BY ZenonT(30), <1>2, <2>1, <2>2, <2>3, FilesOnly
  <2>5. Entry(f) = [name |-> path, offset |-> 0]
    <3>1. Entry(f) = [name |-> nodes[f.node].name, offset |-> f.offset]
      BY ZenonT(30), <2>2 DEF Entry
    <3> QED BY ZenonT(30), <2>2, <2>3, <3>1
  <2>6. Opened[fd] = Closed /\ path \in DOMAIN Content
    BY Zenon, <2>1, <2>3 DEF Opened, Content
  <2>7. Store!Open(path, fd)
    BY Zenon, <1>2, <2>4, <2>5, <2>6, OpenForm
  <2> QED BY SMTT(30), <2>4, <2>7
<1>3. ASSUME Named(path) = {}, ~NoRoom, mcs_ramfs_create_file(path, 0), Attach(node_count),
             UNCHANGED data, buf' = << >>
      PROVE  NameInv' /\ \/ \E fd \in FDs : Store!Open(path, fd)
                         \/ \E s \in Store!Strings : Store!Create(path, s)
  <2>1. PICK c : c = node_count
    OBVIOUS
  <2>2. path \notin Visible /\ DOMAIN Content = Visible
    BY Zenon, <1>3 DEF Visible, Content
  <2>3. 0 <= Region
    BY VfsAssumption
  <2>4. PICK s \in Seq(Bytes) : /\ s = << >> /\ Len(s) <= Region
                                /\ mcs_ramfs_create_file(path, Len(s)) /\ data' = Stored(data_used, s)
    BY Zenon, <1>3, <2>3, StoredNothing
  <2>5. /\ data' \in [Pool -> Cells]
        /\ \A i \in Live : nodes'[i] = nodes[i]
        /\ \A i \in Live' : i # 0 => nodes'[i].data_capacity = Region
        /\ \A i, m : IsFirst(i, m) => IsFirst(i, m)'
        /\ nodes'[c].name = path
        /\ IsFirst(c, path)'
        /\ Content' = [m \in Visible \cup {path} |-> IF m = path THEN s ELSE Content[m]]
    BY ZenonT(30), <1>3, <2>1, <2>2, <2>4, CreateEffect
  <2>6. CASE UNCHANGED files
    <3>1. \A g \in FDs : /\ Opened'[g] = Opened[g]
                         /\ files'[g].used => IsFirst(files[g].node, nodes[files[g].node].name)'
      BY ZenonT(30), <2>5, <2>6, CreateKeepsOpen
    <3>2. NameInv'
      BY ZenonT(30), <2>5, <3>1, RootKept DEF NameInv
    <3>3. Opened' = Opened
      BY ZenonT(30), <3>1 DEF Opened
    <3>4. Store!Create(path, s)
      BY ZenonT(30), <1>3, <2>2, <2>4, <2>5, <3>3, CreateForm
    <3>5. s \in Store!Strings
      BY ZenonT(30), <2>4, ShortStrings
    <3> QED BY <3>2, <3>4, <3>5
  <2>7. CASE ~UNCHANGED files
    <3> DEFINE f == [used |-> TRUE, node |-> c, offset |-> 0]
    <3>0. f.used = TRUE /\ f.node = c /\ f.offset = 0
      BY Zenon
    <3>1. PICK fd \in FDs : ~files[fd].used /\ files' = [files EXCEPT ![fd] = f]
      <4>1. PICK g \in FreeFDs :
              files' = [files EXCEPT ![g] = [used |-> TRUE, node |-> node_count, offset |-> 0]]
        BY Zenon, <1>3, <2>7 DEF Attach
      <4> QED BY Zenon, <2>1, <4>1 DEF FreeFDs
    <3>2. files'[fd] = f /\ \A g \in FDs \ {fd} : files'[g] = files[g]
      BY <3>1 DEF IInv, Types
    <3> HIDE DEF f
    <3>3. \A g \in FDs \ {fd} : /\ Opened'[g] = Opened[g]
                                /\ files'[g].used => IsFirst(files[g].node, nodes[files[g].node].name)'
      BY ZenonT(30), <2>5, <3>2, CreateKeepsOpen
    <3>4. IsFirst(files[fd].node, nodes[files[fd].node].name)'
      <4>1. c = files'[fd].node /\ path = nodes'[files'[fd].node].name
        BY Zenon, <2>5, <3>2, <3>0
      <4> QED BY Zenon, <2>5, <4>1
    <3>5. NameInv'
      BY Zenon, <2>5, <3>3, <3>4, RootKept DEF NameInv
    <3>6. Opened'[fd] = [name |-> path, offset |-> 0]
      <4>1. files'[fd].used /\ files'[fd].node = c /\ files'[fd].offset = 0
        BY Zenon, <3>2, <3>0
      <4>2. Opened'[fd] = [name |-> nodes'[files'[fd].node].name, offset |-> files'[fd].offset]
        BY Zenon, <4>1 DEF Opened, Node
      <4> QED BY Zenon, <2>5, <4>1, <4>2
    <3>7. Opened' = [Opened EXCEPT ![fd] = [name |-> path, offset |-> 0]]
      BY Zenon, <3>3, <3>6 DEF Opened
    <3>8. Opened[fd] = Closed
      BY <3>1 DEF Opened
    <3>9. Store!Open(path, fd)
      BY ZenonT(30), <1>3, <2>2, <2>4, <2>5, <3>7, <3>8, OpenForm
    <3> QED BY SMTT(30), <3>5, <3>9
  <2> QED BY <2>6, <2>7
<1> QED BY ZenonT(30), <1>1, <1>2, <1>3 DEF mcs_vfs_open, Attach

LEMMA InitRefines == Init => Store!Init
<1> SUFFICES ASSUME Init PROVE Store!Init
  OBVIOUS
<1>1. node_count = 1 /\ nodes[0] = NoNode
  BY SMTT(30), VfsAssumption DEF Init, NodeIds
<1>2. \A m : Named(m) = IF m = Root THEN {0} ELSE {}
  BY SMTT(30), <1>1 DEF Named, Live, NoNode
<1>3. Visible = {Root}
  BY <1>2, VfsAssumption DEF Visible
<1>4. First(Root) = 0
  <2>1. 0 \in Live /\ \A i \in Live : IsFirst(i, Root) <=> i = 0
    BY SMTT(30), <1>1, <1>2 DEF IsFirst, Live
  <2> QED BY <2>1 DEF First
<1>5. Content = [n \in {Root} |-> << >>]
  <2>1. [k \in 1 .. nodes[First(Root)].size |-> data[nodes[First(Root)].data_offset + k - 1]] = << >>
    BY <1>1, <1>4 DEF NoNode
  <2> QED BY SMTT(30), <1>3, <2>1 DEF Content
<1>6. Opened = [fd \in FDs |-> Closed]
  BY DEF Init, Opened
<1> QED BY <1>5, <1>6 DEF Init, Store!Init, Content, Opened

\* Every step of the VFS is a step of FileStore, or changes nothing it shows.
LEMMA StepRefines ==
  ASSUME IInv, IInv', NameInv, [Next]_vars
  PROVE  NameInv' /\ [Store!Next]_(Store!store)
<1>1. ASSUME NEW path \in Names, NEW s \in Buffers, mcs_ramfs_seed_file(path, s)
      PROVE  NameInv' /\ Store!Next
  BY <1>1, SeedRefines DEF Store!Next
<1>2. ASSUME NEW path \in Names, NEW creat \in BOOLEAN, mcs_vfs_open(path, creat)
      PROVE  NameInv' /\ Store!Next
  BY <1>2, OpenRefines DEF Store!Next
<1>3. ASSUME NEW fd \in Args, NEW size \in ReadSizes, mcs_vfs_read(fd, size)
      PROVE  NameInv' /\ Store!Next
  BY <1>3, ReadRefines DEF Store!Next
<1>4. ASSUME NEW fd \in Args, NEW s \in Buffers, mcs_vfs_write(fd, s)
      PROVE  NameInv' /\ Store!Next
  BY <1>4, WriteRefines DEF Store!Next
<1>5. ASSUME NEW fd \in Args, NEW o \in SeekOffsets, NEW w \in {"SET", "CUR", "END", "other"},
             mcs_vfs_lseek(fd, o, w)
      PROVE  NameInv' /\ Store!Next
  BY <1>5, SeekRefines DEF Store!Next
<1>6. ASSUME NEW fd \in Args, mcs_vfs_close(fd)
      PROVE  NameInv' /\ Store!Next
  BY <1>6, CloseRefines DEF Store!Next
<1>7. CASE UNCHANGED vars
  <2>1. UNCHANGED <<fs, files>> /\ buf' = buf
    BY <1>7 DEF vars
  <2>2. NameInv' /\ Content' = Content /\ Opened' = Opened
    BY <2>1, Quiet
  <2> QED BY ZenonT(30), <2>1, <2>2 DEF Store!store, Content, Opened
<1> QED BY SMTT(30), <1>1, <1>2, <1>3, <1>4, <1>5, <1>6, <1>7 DEF Next

\* Every behaviour of ramfs.c and vfs.c is one of named byte sequences and
\* descriptors: a file reads as what was written to it through whichever
\* descriptor, a write to one file changes no other, and mcs_vfs_read returns no
\* byte of the pool that nobody wrote, for every size of the tables and the pool.
THEOREM FileStoreRefined == Spec => ImplementsFileStore
<1>1. Init => NameInv /\ Store!Init
  BY InitNameInv, InitRefines
<1>2. IInv /\ IInv' /\ NameInv /\ [Next]_vars => NameInv' /\ [Store!Next]_(Store!store)
  BY StepRefines
<1> QED BY <1>1, <1>2, IInvHolds, PTL DEF Spec, ImplementsFileStore, Store!Spec
=============================================================================
