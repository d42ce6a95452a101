---------------------------- MODULE FormatProofs ----------------------------
(***************************************************************************)
(* Formats.  mcsfs1 implements NameStore, for every number of inodes,      *)
(* every size of their data and all names and buffers.  The ELF load       *)
(* planner accepts exactly the valid images, for every word size and every *)
(* image.                                                                  *)
(***************************************************************************)
EXTENDS Mcsfs1, Elf, FiniteSetTheorems, TLAPS

\* Every set of natural numbers that is not empty has a least element.
LEMMA Least ==
  ASSUME NEW T \in SUBSET Nat, T # {}
  PROVE  \E x \in T : \A y \in T : x <= y
<1> DEFINE R == {p \in Nat \X Nat : p[1] < p[2]}
<1>1. IsWellFoundedOn(R, Nat)
  BY NatLessThanWellFounded DEF OpToRel
<1>2. PICK x \in T : \A y \in T : <<y, x>> \notin R
  BY Zenon, <1>1, WFMin
<1>3. ASSUME NEW y \in T
      PROVE  x <= y
  <2>1. <<y, x>> \notin R
    BY <1>2
  <2> QED BY <2>1
<1> QED BY <1>3

\* What CHOOSE takes for the least element of a set T.
LEMMA LeastChosen ==
  ASSUME NEW S \in SUBSET Nat, NEW T \in SUBSET S,
         NEW c, c = CHOOSE x \in S : x \in T /\ \A y \in T : x <= y
  PROVE  /\ T # {} => c \in T /\ \A y \in T : c <= y
         /\ \A x \in T : (\A y \in T : x <= y) => x = c
<1>1. T \in SUBSET Nat /\ \A x \in T : x \in S /\ x \in Int
  OBVIOUS
<1>2. T # {} => \E x \in S : x \in T /\ \A y \in T : x <= y
  BY <1>1, Least
<1>3. \A x, z \in T : x <= z /\ z <= x => x = z
  BY <1>1
<1>4. T # {} => c \in T /\ \A y \in T : c <= y
  BY Zenon, <1>2
<1> QED BY Zenon, <1>3, <1>4

(* mcsfs1                                                                  *)

Cells == Bytes \cup {Garbage}

Inode == [used : BOOLEAN, name : Names, size : 0 .. DataSize, data : [1 .. DataSize -> Cells]]

\* No inode is ever given back, so those in use come first: an inode of a name
\* that is taken comes after the one that the name shows.
Inv ==
  /\ inodes \in [Slots -> Inode]
  /\ inode_count \in 0 .. MaxFiles
  /\ \A x \in Slots : inodes[x].used <=> x <= inode_count

\* What NameStore's content stands for.
Visible == {m \in Names : Named(m) # {}}
Shown(x) == SubSeq(inodes[x].data, 1, inodes[x].size)
Content == [n \in Visible |-> Shown(First(n))]
-----------------------------------------------------------------------------
LEMMA InitInv == Init => Inv
<1> SUFFICES ASSUME Init PROVE Inv
  OBVIOUS
<1>1. inodes \in [Slots -> Inode]
  BY Mcsfs1Assumption DEF Init, Inode, Cells
<1>2. \A x \in Slots : inodes[x].used <=> x <= inode_count
  BY Mcsfs1Assumption DEF Init, Slots
<1>3. inode_count \in 0 .. MaxFiles
  BY Mcsfs1Assumption DEF Init
<1> QED BY <1>1, <1>2, <1>3 DEF Inv

LEMMA NextInv == ASSUME Inv, [Next]_vars PROVE Inv'
<1>1. CASE UNCHANGED <<inodes, inode_count>>
  BY <1>1 DEF Inv
<1>2. ASSUME NEW name \in Names, mcsfs1_create(name)
      PROVE  Inv'
  <2>1. CASE ret' # "OK"
    BY <1>1, <1>2, <2>1 DEF mcsfs1_create, Fail
  <2>2. CASE ret' = "OK"
    <3>1. PICK x \in Slots :
            /\ FirstFree(x) /\ inode_count' = inode_count + 1
            /\ inodes' = [inodes EXCEPT ![x] = [used |-> TRUE, name |-> name, size |-> 0, data |-> @.data]]
      BY <1>2, <2>2 DEF mcsfs1_create, Fail
    <3>2. inodes' \in [Slots -> Inode]
      <4>1. inodes[x] \in Inode
        BY DEF Inv
      <4>2. [used |-> TRUE, name |-> name, size |-> 0, data |-> inodes[x].data] \in Inode
        BY <4>1, Mcsfs1Assumption DEF Inode
      <4> QED BY <3>1, <4>2 DEF Inv
    <3>3. x = inode_count + 1
      <4>1. x > inode_count /\ x \in Nat /\ inode_count \in Nat /\ x <= MaxFiles
        BY <3>1, Mcsfs1Assumption DEF FirstFree, FreeSlots, Inv, Slots
      <4>2. inode_count + 1 \in Slots /\ ~ inodes[inode_count + 1].used
        BY <4>1, Mcsfs1Assumption DEF Inv, Slots
      <4>3. x <= inode_count + 1
        BY <3>1, <4>2 DEF FirstFree, FreeSlots
      <4> QED BY <4>1, <4>3
    <3>4. inode_count' \in 0 .. MaxFiles
      BY <3>1, <3>3, Mcsfs1Assumption DEF Inv, Slots
    <3>5. ASSUME NEW j \in Slots
          PROVE  inodes'[j].used <=> j <= inode_count'
      <4>1. j \in Nat /\ inode_count \in Nat
        BY Mcsfs1Assumption DEF Slots, Inv
      <4>2. CASE j = x
        BY <3>1, <3>3, <4>1, <4>2 DEF Inv, Inode
      <4>3. CASE j # x
        <5>1. inodes'[j] = inodes[j]
          BY <3>1, <4>3 DEF Inv
        <5> QED BY <3>1, <3>3, <4>1, <4>3, <5>1 DEF Inv
      <4> QED BY <4>2, <4>3
    <3> QED BY <3>2, <3>4, <3>5 DEF Inv
  <2> QED BY <2>1, <2>2
<1>3. ASSUME NEW name \in Names, NEW s \in Buffers, mcsfs1_write(name, s)
      PROVE  Inv'
  <2>1. CASE ret' # "OK"
    BY <1>1, <1>3, <2>1 DEF mcsfs1_write, Fail
  <2>2. CASE ret' = "OK"
    <3>1. PICK x \in Slots :
            inodes' = [inodes EXCEPT ![x].size = Len(s),
                         ![x].data = [k \in 1 .. DataSize |-> IF k <= Len(s) THEN s[k] ELSE @[k]]]
      BY <1>3, <2>2 DEF mcsfs1_write, Fail
    <3>2. Len(s) <= DataSize /\ inode_count' = inode_count
      BY <1>3, <2>2 DEF mcsfs1_write, Fail
    <3>3. s \in Seq(Bytes) /\ Len(s) \in 0 .. DataSize
      BY <3>2, Mcsfs1Assumption
    <3> DEFINE d == [k \in 1 .. DataSize |-> IF k <= Len(s) THEN s[k] ELSE inodes[x].data[k]]
    <3>4. inodes[x] \in Inode
      BY DEF Inv
    <3>5. d \in [1 .. DataSize -> Cells]
      BY <3>3, <3>4, Mcsfs1Assumption DEF Inode, Cells
    <3>6. inodes' = [inodes EXCEPT ![x] = [@ EXCEPT !.size = Len(s), !.data = d]]
      BY Zenon, <3>1, <3>4 DEF Inv, Inode
    <3> HIDE DEF d
    <3>7. [inodes[x] EXCEPT !.size = Len(s), !.data = d] \in Inode
      BY Zenon, <3>3, <3>4, <3>5 DEF Inode
    <3>8. inodes' \in [Slots -> Inode]
      BY <3>6, <3>7 DEF Inv
    <3>9. \A j \in Slots : inodes'[j].used = inodes[j].used
      BY <3>6, <3>4 DEF Inv, Inode
    <3> QED BY <3>2, <3>8, <3>9 DEF Inv
  <2> QED BY <2>1, <2>2
<1>4. ASSUME NEW name \in Names, NEW size \in ReadSizes, mcsfs1_read(name, size)
      PROVE  Inv'
  BY <1>1, <1>4 DEF mcsfs1_read, Fail
<1> QED BY <1>1, <1>2, <1>3, <1>4 DEF Next, vars

LEMMA Invariant == Spec => []Inv
BY InitInv, NextInv, PTL DEF Spec
-----------------------------------------------------------------------------
\* The search for a name stops at the least inode of that name.
LEMMA FirstFacts ==
  ASSUME NEW m
  PROVE  /\ Named(m) # {} => First(m) \in Named(m) /\ \A j \in Named(m) : First(m) <= j
         /\ \A x \in Named(m) : (\A j \in Named(m) : x <= j) => x = First(m)
         /\ Named(m)' # {} => First(m)' \in Named(m)' /\ \A j \in Named(m)' : First(m)' <= j
         /\ \A x \in Named(m)' : (\A j \in Named(m)' : x <= j) => x = First(m)'
         /\ Named(m)' = Named(m) => First(m)' = First(m)
<1>1. Named(m) \in SUBSET Slots /\ Named(m)' \in SUBSET Slots
  BY DEF Named
<1>2. First(m) = CHOOSE x \in Slots : x \in Named(m) /\ \A j \in Named(m) : x <= j
  BY DEF First, IsFirst
<1>3. First(m)' = CHOOSE x \in Slots : x \in Named(m)' /\ \A j \in Named(m)' : x <= j
  BY DEF First, IsFirst
<1>4. Slots \in SUBSET Nat
  BY Mcsfs1Assumption DEF Slots
<1>5. /\ Named(m) # {} => First(m) \in Named(m) /\ \A j \in Named(m) : First(m) <= j
      /\ \A x \in Named(m) : (\A j \in Named(m) : x <= j) => x = First(m)
  BY Zenon, <1>1, <1>2, <1>4, LeastChosen
<1>6. /\ Named(m)' # {} => First(m)' \in Named(m)' /\ \A j \in Named(m)' : First(m)' <= j
      /\ \A x \in Named(m)' : (\A j \in Named(m)' : x <= j) => x = First(m)'
  BY Zenon, <1>1, <1>3, <1>4, LeastChosen
<1>7. Named(m)' = Named(m) => First(m)' = First(m)
  BY <1>2, <1>3
<1> QED BY <1>5, <1>6, <1>7

\* A file none of whose inodes changes.
LEMMA SameShown ==
  ASSUME NEW m, Named(m)' = Named(m), m \in Visible => inodes'[First(m)] = inodes[First(m)]
  PROVE  /\ m \in Visible' <=> m \in Visible
         /\ m \in Visible => Shown(First(m))' = Shown(First(m))
<1>1. First(m)' = First(m)
  BY FirstFacts
<1> QED BY Zenon, <1>1 DEF Visible, Shown

LEMMA ShownFacts ==
  ASSUME NEW inode \in Inode
  PROVE  /\ inode.data \in Seq(Cells) /\ Len(inode.data) = DataSize
         /\ \A k \in 0 .. DataSize : /\ Len(SubSeq(inode.data, 1, k)) = k
                                     /\ SubSeq(inode.data, 1, k) \in Seq(Cells)
                                     /\ \A j \in 1 .. k : SubSeq(inode.data, 1, k)[j] = inode.data[j]
<1>1. inode.data \in [1 .. DataSize -> Cells] /\ DataSize \in Nat
  BY Mcsfs1Assumption DEF Inode
<1>2. inode.data \in Seq(Cells) /\ Len(inode.data) = DataSize
  BY <1>1
<1> QED BY <1>1, <1>2

LEMMA CreateStep ==
  ASSUME Inv, NEW name \in Names, mcsfs1_create(name), call' = <<"create", name>>
  PROVE  Store!Create(name)
<1>1. CASE ret' # "OK"
  <2>1. inodes' = inodes /\ buf' = << >>
    BY <1>1 DEF mcsfs1_create, Fail
  <2>2. Content' = Content
    BY <2>1 DEF Content, Visible, Shown, First, IsFirst, Named
  <2> QED BY Zenon, <1>1, <2>1, <2>2 DEF Store!Create, Content, Visible, Shown
<1>2. CASE ret' = "OK"
  <2>1. PICK x \in Slots :
          /\ FirstFree(x) /\ buf' = << >>
          /\ inodes' = [inodes EXCEPT ![x] = [used |-> TRUE, name |-> name, size |-> 0, data |-> @.data]]
    BY <1>2 DEF mcsfs1_create, Fail
  <2>2. inodes \in [Slots -> Inode] /\ inodes[x] \in Inode
    BY DEF Inv
  <2>3. /\ inodes'[x].used /\ inodes'[x].name = name /\ inodes'[x].size = 0
        /\ inodes'[x].data = inodes[x].data
        /\ \A j \in Slots : j # x => inodes'[j] = inodes[j]
    BY <2>1, <2>2 DEF Inode
  <2>4. \A j \in Slots : inodes[j].used => j < x
    BY <2>1, Mcsfs1Assumption DEF FirstFree, FreeSlots, Inv, Slots
  <2>5. Named(name)' = Named(name) \cup {x} /\ x \notin Named(name)
    BY <2>3, <2>4 DEF Named, Slots
  <2>6. ASSUME NEW m \in Names, m # name
        PROVE  /\ m \in Visible' <=> m \in Visible
               /\ m \in Visible => Shown(First(m))' = Shown(First(m))
    <3>1. Named(m)' = Named(m)
      BY <2>3, <2>4, <2>6 DEF Named, Slots
    <3>2. m \in Visible => First(m) \in Named(m)
      BY FirstFacts DEF Visible
    <3>3. m \in Visible => inodes'[First(m)] = inodes[First(m)]
      BY <2>3, <2>4, <3>2 DEF Named, Slots
    <3> QED BY <3>1, <3>3, SameShown
  <2>7. CASE name \in Visible
    <3>1. First(name) \in Named(name) /\ \A j \in Named(name)' : First(name) <= j
      <4>1. First(name) \in Named(name) /\ \A j \in Named(name) : First(name) <= j
        BY <2>7, FirstFacts DEF Visible
      <4>2. First(name) < x /\ First(name) \in Int /\ x \in Int
        BY <2>4, <4>1 DEF Named, Slots
      <4> QED BY <2>5, <4>1, <4>2
    <3>2. First(name)' = First(name)
      BY <2>5, <3>1, FirstFacts
    <3>3. inodes'[First(name)] = inodes[First(name)]
      BY <2>3, <2>5, <3>1 DEF Named
    <3>4. Shown(First(name))' = Shown(First(name)) /\ name \in Visible'
      BY <2>5, <3>2, <3>3 DEF Shown, Visible
    <3>5. Visible' = Visible
      BY <2>6, <2>7, <3>4 DEF Visible
    <3>6. Content' = Content
      BY <2>6, <3>4, <3>5 DEF Content, Visible
    <3> QED BY Zenon, <1>2, <2>1, <2>7, <3>6 DEF Store!Create, Store!Files, Content, Visible, Shown
  <2>8. CASE name \notin Visible
    <3>1. Named(name)' = {x} /\ name \in Visible'
      BY <2>5, <2>8 DEF Visible
    <3>2. First(name)' = x
      BY <3>1, FirstFacts
    <3>3. Shown(First(name))' = << >>
      <4>1. Shown(First(name))' = SubSeq(inodes[x].data, 1, 0)
        BY <2>3, <3>2 DEF Shown
      <4>2. Len(SubSeq(inodes[x].data, 1, 0)) = 0 /\ SubSeq(inodes[x].data, 1, 0) \in Seq(Cells)
        BY <2>2, ShownFacts, Mcsfs1Assumption
      <4> QED BY <4>1, <4>2
    <3>4. Visible' = Visible \cup {name}
      BY <2>6, <3>1 DEF Visible
    <3>5. Content' = [m \in Visible \cup {name} |-> IF m = name THEN << >> ELSE Content[m]]
      BY <2>6, <3>3, <3>4 DEF Content, Visible
    <3> QED BY Zenon, <1>2, <2>1, <2>8, <3>5 DEF Store!Create, Store!Files, Content, Visible, Shown
  <2> QED BY <2>7, <2>8
<1> QED BY <1>1, <1>2

LEMMA WriteStep ==
  ASSUME Inv, NEW name \in Names, NEW s \in Buffers, mcsfs1_write(name, s),
         call' = <<"write", name, s>>
  PROVE  Store!Write(name, s)
<1>1. CASE ret' # "OK"
  <2>1. /\ inodes' = inodes /\ buf' = << >>
        /\ ret' = "ENOSPC" \/ (ret' = "ENOENT" /\ Named(name) = {})
    BY <1>1 DEF mcsfs1_write, Fail
  <2>2. Content' = Content
    BY <2>1 DEF Content, Visible, Shown, First, IsFirst, Named
  <2> QED BY Zenon, <2>1, <2>2 DEF Store!Write, Store!Files, Content, Visible, Shown
<1>2. CASE ret' = "OK"
  <2>1. PICK x \in Slots :
          /\ IsFirst(x, name) /\ buf' = << >> /\ Len(s) <= DataSize
          /\ inodes' = [inodes EXCEPT ![x].size = Len(s),
                         ![x].data = [k \in 1 .. DataSize |-> IF k <= Len(s) THEN s[k] ELSE @[k]]]
    BY <1>2 DEF mcsfs1_write, Fail
  <2> DEFINE d == [k \in 1 .. DataSize |-> IF k <= Len(s) THEN s[k] ELSE inodes[x].data[k]]
  <2>2. inodes \in [Slots -> Inode] /\ inodes[x] \in Inode
    BY DEF Inv
  <2>3. s \in Seq(Bytes) /\ Len(s) \in 0 .. DataSize
    BY <2>1, Mcsfs1Assumption
  <2>4. inodes' = [inodes EXCEPT ![x] = [@ EXCEPT !.size = Len(s), !.data = d]]
    BY Zenon, <2>1, <2>2 DEF Inode
  <2>5. d \in [1 .. DataSize -> Cells] /\ \A k \in 1 .. Len(s) : d[k] = s[k]
    BY <2>2, <2>3, Mcsfs1Assumption DEF Inode, Cells
  <2> HIDE DEF d
  <2>6. /\ inodes'[x].used = inodes[x].used /\ inodes'[x].name = inodes[x].name
        /\ inodes'[x].size = Len(s) /\ inodes'[x].data = d
        /\ \A j \in Slots : j # x => inodes'[j] = inodes[j]
    BY <2>2, <2>4 DEF Inode
  <2>7. \A m : Named(m)' = Named(m)
    BY <2>6 DEF Named
  <2>8. x = First(name) /\ x \in Named(name) /\ First(name)' = x
    BY <2>1, <2>7, FirstFacts DEF IsFirst
  <2>9. Visible' = Visible /\ name \in Visible
    BY <2>7, <2>8 DEF Visible
  <2>10. ASSUME NEW m \in Visible, m # name
         PROVE  Shown(First(m))' = Shown(First(m))
    <3>1. First(m) \in Named(m)
      BY FirstFacts DEF Visible
    <3>2. First(m) # x /\ First(m) \in Slots
      BY <2>8, <2>10, <3>1 DEF Named
    <3> QED BY <2>6, <2>7, <3>2, SameShown
  <2>11. Shown(First(name))' = s
    <3>1. Shown(First(name))' = SubSeq(d, 1, Len(s))
      BY <2>6, <2>8 DEF Shown
    <3>2. d \in Seq(Cells) /\ Len(d) = DataSize
      BY <2>5, Mcsfs1Assumption
    <3>3. /\ SubSeq(d, 1, Len(s)) \in Seq(Cells) /\ Len(SubSeq(d, 1, Len(s))) = Len(s)
          /\ \A k \in 1 .. Len(s) : SubSeq(d, 1, Len(s))[k] = s[k]
      BY <2>3, <2>5, <3>2
    <3> QED BY <2>3, <3>1, <3>3
  <2>12. Content' = [Content EXCEPT ![name] = s]
    BY Zenon, <2>9, <2>10, <2>11 DEF Content
  <2> QED BY <1>2, <2>1, <2>9, <2>12 DEF Store!Write, Store!Files, Content, Visible, Shown
<1> QED BY <1>1, <1>2

LEMMA ReadStep ==
  ASSUME Inv, NEW name \in Names, NEW size \in ReadSizes, mcsfs1_read(name, size),
         call' = <<"read", name, size>>
  PROVE  Store!Read(name, size)
<1>1. inodes' = inodes
  BY DEF mcsfs1_read, Fail
<1>2. Content' = Content
  BY <1>1 DEF Content, Visible, Shown, First, IsFirst, Named
<1>3. CASE Named(name) = {}
  <2>1. ret' = "ENOENT" /\ buf' = << >> /\ name \notin Visible
    BY <1>3 DEF mcsfs1_read, Fail, IsFirst, Visible
  <2> QED BY Zenon, <1>2, <2>1 DEF Store!Read, Store!Files, Content, Visible, Shown
<1>4. CASE Named(name) # {}
  <2>1. PICK x \in Slots :
          /\ IsFirst(x, name) /\ ret' = "OK"
          /\ buf' = SubSeq(inodes[x].data, 1, IF size > inodes[x].size THEN inodes[x].size ELSE size)
    BY <1>4 DEF mcsfs1_read
  <2>2. x = First(name)
    BY <2>1, FirstFacts DEF IsFirst
  <2> DEFINE l == inodes[x].size
             k == IF size > l THEN l ELSE size
             d == inodes[x].data
  <2>3. inodes[x] \in Inode /\ l \in 0 .. DataSize /\ size \in Nat /\ k \in 0 .. l /\ l \in Nat
    BY Mcsfs1Assumption DEF Inv, Inode
  <2>4. d \in Seq(Cells) /\ Len(d) = DataSize
    BY <2>3, ShownFacts
  <2> HIDE DEF d, l
  <2>5. /\ SubSeq(d, 1, l) \in Seq(Cells) /\ Len(SubSeq(d, 1, l)) = l
        /\ \A j \in 1 .. l : SubSeq(d, 1, l)[j] = d[j]
    BY <2>3, <2>4
  <2>6. SubSeq(SubSeq(d, 1, l), 1, k) = SubSeq(d, 1, k)
    <3> HIDE DEF k
    <3> DEFINE t == SubSeq(d, 1, l)
    <3> HIDE DEF t
    <3>1. t \in Seq(Cells) /\ Len(t) = l /\ \A j \in 1 .. l : t[j] = d[j]
      BY <2>5 DEF t
    <3>2. k <= Len(d) /\ k <= Len(t) /\ k \in Nat
      BY <2>3, <2>4, <3>1 DEF l
    <3>3. SubSeq(t, 1, k) = SubSeq(d, 1, k)
      BY <2>4, <2>3, <3>1, <3>2
    <3> QED BY Zenon, <3>3 DEF t
  <2>7. name \in Visible /\ Content[name] = SubSeq(d, 1, l)
    BY Zenon, <1>4, <2>2 DEF Visible, Content, Shown, d, l
  <2>8. buf' = SubSeq(Content[name], 1,
                      IF size > Len(Content[name]) THEN Len(Content[name]) ELSE size)
    BY Zenon, <2>1, <2>5, <2>6, <2>7 DEF d, l
  <2> QED BY Zenon, <1>2, <2>1, <2>7, <2>8 DEF Store!Read, Store!Files, Content, Visible, Shown
<1> QED BY <1>3, <1>4

\* ImplementsNameStore: every step of mcsfs1_create, mcsfs1_write and mcsfs1_read
\* is a step of NameStore, for every number of inodes and every size of their data.
THEOREM NameStoreRefined == Spec => ImplementsNameStore
<1>1. Init => Store!Init
  <2> SUFFICES ASSUME Init PROVE Store!Init
    OBVIOUS
  <2>1. Content = [n \in {} |-> << >>]
    BY DEF Init, Content, Visible, Named
  <2> QED BY <2>1 DEF Init, Store!Init, Content, Visible, Shown
<1>2. Inv /\ [Next]_vars => [Store!Next]_Store!store
  <2> SUFFICES ASSUME Inv, [Next]_vars PROVE [Store!Next]_Store!store
    OBVIOUS
  <2>1. CASE Next
    BY <2>1, CreateStep, WriteStep, ReadStep DEF Next, Store!Next
  <2>2. CASE UNCHANGED vars
    <3>1. Content' = Content
      BY <2>2 DEF vars, Content, Visible, Shown, First, IsFirst, Named
    <3> QED BY Zenon, <2>2, <3>1 DEF vars, Store!store, Content, Visible, Shown
  <2> QED BY <2>1, <2>2
<1> QED BY <1>1, <1>2, Invariant, PTL DEF Spec, ImplementsNameStore, Store!Spec
-----------------------------------------------------------------------------
(* The load planner                                                        *)

LEMMA DivMod ==
  ASSUME NEW n \in Nat, NEW c \in Nat \ {0}
  PROVE  /\ n \div c \in Nat /\ n % c \in 0 .. (c - 1)
         /\ n = c * (n \div c) + (n % c)
BY Z3

LEMMA Quotient ==
  ASSUME NEW n \in Nat, NEW c \in Nat \ {0}, n % c = 0
  PROVE  \E q \in Nat : n = c * q
<1>1. n \div c \in Nat /\ n = c * (n \div c)
  <2>1. n \div c \in Nat /\ n = c * (n \div c) + (n % c) /\ c * (n \div c) \in Nat
    BY DivMod
  <2> QED BY <2>1
<1> QED BY <1>1

LEMMA MultipleMod ==
  ASSUME NEW c \in Nat \ {0}, NEW q \in Nat
  PROVE  (c * q) % c = 0
BY Z3

LEMMA PowerOfTwoDoubles ==
  ASSUME NEW w \in Nat, PowerOfTwo(w)
  PROVE  PowerOfTwo(2 * w)
<1> SUFFICES ASSUME NEW c \in 2 .. 2 * w, (2 * w) % c = 0, c % 2 # 0
             PROVE  FALSE
  BY DEF PowerOfTwo
<1>1. w > 0 /\ c \in Nat \ {0} /\ 2 * w \in Nat
  BY DEF PowerOfTwo
<1>2. PICK q \in Nat : 2 * w = c * q
  BY <1>1, Quotient
<1>3. PICK x \in Nat : c = 2 * x + 1
  <2>1. c = 2 * (c \div 2) + (c % 2) /\ c % 2 \in 0 .. 1 /\ c \div 2 \in Nat
    BY <1>1, DivMod
  <2> QED BY <2>1
<1> DEFINE h == w - x * q
<1>4. x * q \in Nat /\ h \in Int
  OBVIOUS
<1>5. q = 2 * h
  <2>1. c * q = 2 * (x * q) + q
    BY <1>3
  <2> QED BY <1>2, <2>1, <1>4
<1>6. w = c * h /\ h \in Nat
  <2>1. c * q = 2 * (c * h) /\ c * h \in Int
    BY <1>5, <1>4
  <2> QED BY <1>2, <2>1, <1>5, <1>4
<1>7. c <= w
  <2> HIDE DEF h
  <2>1. h # 0
    BY <1>1, <1>6
  <2>2. PICK g \in Nat : h = g + 1
    <3>1. h - 1 \in Nat /\ h = (h - 1) + 1
      BY <1>6, <2>1
    <3> QED BY <3>1
  <2>3. c * h = c * g + c /\ c * g \in Nat
    BY <2>2
  <2> QED BY <1>6, <2>3
<1>8. w % c = 0
  <2> HIDE DEF h
  <2> QED BY Zenon, <1>1, <1>6, MultipleMod
<1> QED BY <1>7, <1>8 DEF PowerOfTwo

LEMMA PowerOfTwoHalves ==
  ASSUME NEW n \in Nat, PowerOfTwo(n), n # 1
  PROVE  \E h \in Nat : n = 2 * h /\ PowerOfTwo(h)
<1>1. n \in 2 .. n /\ n \in Nat \ {0}
  BY DEF PowerOfTwo
<1>2. n % n = 0
  <2>1. (n * 1) % n = 0
    BY <1>1, MultipleMod
  <2> QED BY <2>1
<1>3. n % 2 = 0
  BY <1>1, <1>2 DEF PowerOfTwo
<1>4. PICK h \in Nat : n = 2 * h
  BY <1>3, Quotient
<1>5. ASSUME NEW c \in 2 .. h, h % c = 0
      PROVE  c % 2 = 0
  <2>1. PICK q \in Nat : h = c * q
    <3>1. c \in Nat \ {0}
      OBVIOUS
    <3> QED BY <1>5, <3>1, Quotient
  <2>2. n = c * (2 * q)
    BY <1>4, <2>1
  <2>3. n % c = 0
    BY <2>2, MultipleMod
  <2> QED BY <2>3, <1>4 DEF PowerOfTwo
<1> QED BY <1>1, <1>4, <1>5 DEF PowerOfTwo

LEMMA PowerOfTwoDivides ==
  ASSUME NEW w \in Nat, NEW a \in Nat, PowerOfTwo(w), PowerOfTwo(a), w < a
  PROVE  \E q \in Nat : a = w * (2 * q)
<1> DEFINE Divides(x, y) == \E q \in Nat : y = x * (2 * q)
           Bad == {y \in Nat : PowerOfTwo(y) /\ \E x \in Nat : PowerOfTwo(x) /\ x < y /\ ~Divides(x, y)}
<1>1. SUFFICES ASSUME Bad # {}
               PROVE  FALSE
  OBVIOUS
<1>2. PICK y \in Bad : \A z \in Bad : y <= z
  BY Zenon, <1>1, Least
<1>3. PICK x \in Nat : PowerOfTwo(x) /\ x < y /\ ~Divides(x, y)
  OBVIOUS
<1>4. PICK k \in Nat : y = 2 * k /\ PowerOfTwo(k)
  <2>1. y # 1
    BY <1>3 DEF PowerOfTwo
  <2> QED BY <2>1, PowerOfTwoHalves
<1>5. x # 1
  BY <1>3, <1>4
<1>6. PICK h \in Nat : x = 2 * h /\ PowerOfTwo(h)
  BY <1>3, <1>5, PowerOfTwoHalves
<1>7. k < y /\ h < k
  BY <1>3, <1>4, <1>6
<1>8. PICK q \in Nat : k = h * (2 * q)
  BY SMTT(30), <1>2, <1>4, <1>6, <1>7
<1>9. y = x * (2 * q)
  BY <1>4, <1>6, <1>8
<1> QED BY <1>3, <1>9

\* The mask test of the planner accepts the powers of two, of any size.
LEMMA MaskIsPowerOfTwo ==
  ASSUME NEW a \in Nat, a # 0
  PROVE  NoMaskBit(a) <=> PowerOfTwo(a)
<1>1. ASSUME PowerOfTwo(a)
      PROVE  NoMaskBit(a)
  <2> SUFFICES ASSUME NEW w \in 1 .. a, PowerOfTwo(w), Bit(a, w), Bit(a - 1, w)
               PROVE  FALSE
    BY DEF NoMaskBit
  <2>1. CASE w = a
    <3>1. a - 1 \in Nat /\ a - 1 = a * ((a - 1) \div a) + ((a - 1) % a) /\ (a - 1) \div a \in Nat
          /\ (a - 1) % a \in 0 .. (a - 1)
      <4>1. a - 1 \in Nat /\ a \in Nat \ {0}
        OBVIOUS
      <4> QED BY <4>1, DivMod
    <3>2. (a - 1) \div a = 0
      BY <3>1, Z3
    <3> QED BY <2>1, <3>2 DEF Bit
  <2>2. CASE w < a
    <3>1. PICK q \in Nat : a = w * (2 * q)
      BY <1>1, <2>2, PowerOfTwoDivides
    <3>2. a \div w = 2 * q
      <4>1. w \in Nat \ {0} /\ 2 * q \in Nat
        OBVIOUS
      <4>2. a % w = 0
        BY <3>1, <4>1, MultipleMod
      <4>3. a = w * (a \div w) + (a % w) /\ a \div w \in Nat
        BY <4>1, DivMod
      <4> QED BY <3>1, <4>1, <4>2, <4>3, Z3
    <3> QED BY <3>2 DEF Bit
  <2> QED BY <2>1, <2>2
<1>2. ASSUME ~PowerOfTwo(a)
      PROVE  ~NoMaskBit(a)
  \* The highest bit of a.
  <2>1. PICK w \in Nat : PowerOfTwo(w) /\ w < a /\ a < 2 * w
    <3> DEFINE Below == {e \in 0 .. a : PowerOfTwo(a - e)}
    <3>1. PowerOfTwo(1) /\ a - 1 \in Below
      BY DEF PowerOfTwo
    <3>2. PICK e \in Below : \A y \in Below : e <= y
      <4>1. Below # {}
        BY Zenon, <3>1
      <4>2. Below \in SUBSET Nat
        OBVIOUS
      <4> HIDE DEF Below
      <4> QED BY <4>1, <4>2, Least
    <3>3. a - e \in Nat /\ PowerOfTwo(a - e) /\ a - e # a
      BY <1>2, <3>2
    <3>4. PowerOfTwo(2 * (a - e)) /\ 2 * (a - e) > a - e
      <4>1. PowerOfTwo(2 * (a - e))
        BY <3>3, PowerOfTwoDoubles
      <4>2. a - e > 0
        BY <3>3 DEF PowerOfTwo
      <4> QED BY <3>3, <4>1, <4>2
    <3>5. ~(2 * (a - e) <= a)
      <4>1. SUFFICES ASSUME 2 * (a - e) <= a
                     PROVE  FALSE
        OBVIOUS
      <4>2. a - 2 * (a - e) \in Below
        <5>1. a - (a - 2 * (a - e)) = 2 * (a - e) /\ a - 2 * (a - e) \in 0 .. a
          BY <4>1, <3>3
        <5> QED BY <5>1, <3>4
      <4> QED BY <3>2, <3>4, <4>2
    <3> QED BY <3>3, <3>5
  <2>2. a \div w = 1 /\ (a - 1) \div w = 1
    <3>1. \A n \in Nat : n \in w .. 2 * w - 1 => n \div w = 1
      <4> SUFFICES ASSUME NEW n \in w .. 2 * w - 1
                   PROVE  n \div w = 1
        OBVIOUS
      <4>1. w \in Nat \ {0} /\ n \in Nat
        BY <2>1
      <4>2. n = w * (n \div w) + (n % w) /\ n \div w \in Nat /\ n % w \in 0 .. (w - 1)
        BY Zenon, <4>1, DivMod
      <4> QED BY <4>1, <4>2, Z3
    <3> QED BY <2>1, <3>1
  <2> QED BY <2>1, <2>2 DEF NoMaskBit, Bit
<1> QED BY <1>1, <1>2

-----------------------------------------------------------------------------
Ok(im, k) == SegmentStatus(im.phdrs[k], im.size) = "OK"

\* The loadable headers before header k.
LoadsBefore(im, k) == {j \in Loads(im) : j < k}

\* In the loop the plan counts the loadable headers passed so far, all of them
\* accepted; after it the status says whether some header was not.
ElfInv ==
  /\ plan \in [entry : Word, segment_count : Nat]
  /\ image \in Images
  /\ i \in Nat
  /\ i # 0 =>
       /\ i \in 1 .. Len(image.phdrs) + 1 /\ status = "none"
       /\ HeaderStatus(image) = "OK" /\ plan.entry = image.entry
       /\ plan.segment_count = Cardinality(LoadsBefore(image, i))
       /\ \A k \in LoadsBefore(image, i) : Ok(image, k)
  /\ i = 0 /\ status # "idle" =>
       /\ status = "OK" <=> HeaderStatus(image) = "OK" /\ \A k \in Loads(image) : Ok(image, k)
       /\ PlanTellsOutcome

LEMMA ImageType ==
  ASSUME NEW im \in Images
  PROVE  /\ im.entry \in Word /\ im.size \in Word /\ im.phoff \in Word
         /\ im.magic \in BOOLEAN /\ im.machine \in BOOLEAN
         /\ im.phdrs \in Seq(Phdr) /\ Len(im.phdrs) \in Nat
         /\ DOMAIN im.phdrs = 1 .. Len(im.phdrs)
         /\ \A k \in DOMAIN im.phdrs : im.phdrs[k] \in Phdr
<1>1. im \in Ehdr
  BY ElfAssumption
<1>2. im.phdrs \in Seq(Phdr)
  BY <1>1 DEF Ehdr
<1> QED BY <1>1, <1>2 DEF Ehdr

LEMMA LoadsFinite ==
  ASSUME NEW im \in Images, NEW k
  PROVE  /\ IsFiniteSet(Loads(im)) /\ Cardinality(Loads(im)) \in Nat
         /\ IsFiniteSet(LoadsBefore(im, k)) /\ Cardinality(LoadsBefore(im, k)) \in Nat
<1>1. Len(im.phdrs) \in Int /\ Loads(im) \in SUBSET (1 .. Len(im.phdrs))
  BY ImageType DEF Loads
<1>2. IsFiniteSet(1 .. Len(im.phdrs))
  BY <1>1, FS_Interval
<1>3. IsFiniteSet(Loads(im))
  BY <1>1, <1>2, FS_Subset
<1>4. LoadsBefore(im, k) \in SUBSET Loads(im)
  BY DEF LoadsBefore
<1>5. IsFiniteSet(LoadsBefore(im, k))
  BY <1>3, <1>4, FS_Subset
<1> QED BY <1>3, <1>5, FS_CardinalityType

\* A step past header k adds it to the loadable headers passed, or not.
LEMMA LoadsStep ==
  ASSUME NEW im \in Images, NEW k \in DOMAIN im.phdrs
  PROVE  /\ im.phdrs[k].load => /\ LoadsBefore(im, k + 1) = LoadsBefore(im, k) \cup {k}
                                /\ Cardinality(LoadsBefore(im, k + 1)) = Cardinality(LoadsBefore(im, k)) + 1
         /\ ~im.phdrs[k].load => LoadsBefore(im, k + 1) = LoadsBefore(im, k)
         /\ im.phdrs[k].load => Cardinality(LoadsBefore(im, k)) < Cardinality(Loads(im))
<1>1. DOMAIN im.phdrs \subseteq Int /\ k \in Int
  BY ImageType
<1>2. ~im.phdrs[k].load => LoadsBefore(im, k + 1) = LoadsBefore(im, k)
  BY <1>1 DEF LoadsBefore, Loads
<1>3. ASSUME im.phdrs[k].load
      PROVE  /\ LoadsBefore(im, k + 1) = LoadsBefore(im, k) \cup {k}
             /\ k \notin LoadsBefore(im, k) /\ LoadsBefore(im, k + 1) \in SUBSET Loads(im)
  BY <1>1, <1>3 DEF LoadsBefore, Loads
<1>4. ASSUME im.phdrs[k].load
      PROVE  Cardinality(LoadsBefore(im, k + 1)) = Cardinality(LoadsBefore(im, k)) + 1
  BY <1>3, <1>4, LoadsFinite, FS_AddElement
<1>5. ASSUME im.phdrs[k].load
      PROVE  Cardinality(LoadsBefore(im, k)) < Cardinality(Loads(im))
  <2>1. Cardinality(LoadsBefore(im, k + 1)) <= Cardinality(Loads(im))
    BY <1>3, <1>5, LoadsFinite, FS_Subset
  <2> QED BY <1>4, <1>5, <2>1, LoadsFinite
<1> QED BY <1>2, <1>3, <1>4, <1>5

LEMMA ElfInvInit == ElfInit => ElfInv
BY ElfAssumption DEF ElfInit, ElfInv, Word

LEMMA ElfInvBegin ==
  ASSUME ElfInv, NEW im \in Images, plan_begin(im)
  PROVE  ElfInv'
<1>1. CASE HeaderStatus(im) = "OK"
  <2>1. /\ image' = im /\ plan' = [entry |-> im.entry, segment_count |-> 0]
        /\ i' = 1 /\ status' = "none"
    BY <1>1 DEF plan_begin
  <2>2. LoadsBefore(im, 1) = {}
    BY ImageType DEF LoadsBefore, Loads
  <2>3. im.entry \in Word /\ Len(im.phdrs) \in Nat
    BY ImageType
  <2>4. Cardinality(LoadsBefore(im, 1)) = 0
    BY <2>2, FS_EmptySet
  <2> QED BY <1>1, <2>1, <2>2, <2>3, <2>4 DEF ElfInv, HeaderStatus, Wrap
<1>2. CASE HeaderStatus(im) # "OK"
  <2>1. image' = im /\ plan' = plan /\ before' = plan /\ i' = 0 /\ status' = HeaderStatus(im)
    BY <1>2 DEF plan_begin
  <2>2. HeaderStatus(image)' = HeaderStatus(im)
    BY <2>1 DEF HeaderStatus, Wrap
  <2>3. PlanTellsOutcome'
    BY <1>2, <2>1 DEF PlanTellsOutcome
  <2> QED BY <1>2, <2>1, <2>2, <2>3 DEF ElfInv
<1> QED BY <1>1, <1>2

LEMMA ElfInvSegment ==
  ASSUME ElfInv, plan_segment
  PROVE  ElfInv'
<1> DEFINE seg == image.phdrs[i]
<1>1. /\ i \in DOMAIN image.phdrs /\ i # 0 /\ image \in Images
      /\ i + 1 \in 1 .. Len(image.phdrs) + 1 /\ seg.load \in BOOLEAN
  <2>1. i \in DOMAIN image.phdrs
    BY DEF plan_segment
  <2>2. image \in Images
    BY DEF ElfInv
  <2>3. i \in 1 .. Len(image.phdrs) /\ Len(image.phdrs) \in Nat /\ seg \in Phdr
    BY <2>1, <2>2, ImageType
  <2> QED BY <2>1, <2>2, <2>3 DEF Phdr
<1>2. /\ status = "none" /\ HeaderStatus(image) = "OK" /\ plan.entry = image.entry
      /\ plan.segment_count = Cardinality(LoadsBefore(image, i))
      /\ \A k \in LoadsBefore(image, i) : Ok(image, k)
      /\ plan \in [entry : Word, segment_count : Nat]
  BY <1>1 DEF ElfInv
<1>3. image' = image /\ before' = before
  BY DEF plan_segment
<1>4. CASE ~seg.load
  <2>1. i' = i + 1 /\ plan' = plan /\ status' = status
    BY <1>4 DEF plan_segment
  <2>2. LoadsBefore(image, i + 1) = LoadsBefore(image, i)
    BY SMTT(30), <1>1, <1>4, LoadsStep
  <2> QED BY <1>1, <1>2, <1>3, <2>1, <2>2 DEF ElfInv, HeaderStatus, Wrap, Ok
<1>5. CASE seg.load /\ Ok(image, i)
  <2>1. i' = i + 1 /\ plan' = [plan EXCEPT !.segment_count = @ + 1] /\ status' = status
    BY <1>5 DEF plan_segment, Ok, Counted
  <2>2. /\ LoadsBefore(image, i + 1) = LoadsBefore(image, i) \cup {i}
        /\ Cardinality(LoadsBefore(image, i + 1)) = Cardinality(LoadsBefore(image, i)) + 1
    BY <1>1, <1>5, LoadsStep
  <2>3. \A k \in LoadsBefore(image, i + 1) : Ok(image, k)
    BY <1>2, <1>5, <2>2
  <2> QED BY <1>1, <1>2, <1>3, <2>1, <2>2, <2>3 DEF ElfInv, HeaderStatus, Wrap, Ok
<1>6. CASE seg.load /\ ~Ok(image, i)
  <2>1. /\ i' = 0 /\ plan' = [plan EXCEPT !.segment_count = @ + 0]
        /\ status' = SegmentStatus(seg, image.size) /\ status' # "OK"
    BY <1>6 DEF plan_segment, Ok, Counted
  <2>2. plan' = plan
    BY <1>2, <2>1
  <2>3. plan.segment_count < Cardinality(Loads(image))
    BY <1>1, <1>2, <1>6, LoadsStep
  <2>4. PlanTellsOutcome'
    BY <1>2, <1>3, <2>1, <2>2, <2>3 DEF PlanTellsOutcome, Loads
  <2>5. i \in Loads(image)
    BY <1>1, <1>6 DEF Loads
  <2>6. Loads(image)' = Loads(image) /\ \A k : Ok(image, k)' <=> Ok(image, k)
    BY <1>3 DEF Loads, Ok
  <2> QED BY <1>1, <1>2, <1>3, <1>6, <2>1, <2>2, <2>4, <2>5, <2>6 DEF ElfInv
<1> QED BY <1>1, <1>4, <1>5, <1>6

LEMMA ElfInvEnd ==
  ASSUME ElfInv, plan_end
  PROVE  ElfInv'
<1>1. /\ image \in Images /\ Len(image.phdrs) \in Nat /\ i = Len(image.phdrs) + 1 /\ i # 0
      /\ DOMAIN image.phdrs = 1 .. Len(image.phdrs)
  BY ImageType DEF ElfInv, plan_end
<1>2. LoadsBefore(image, i) = Loads(image)
  BY <1>1 DEF LoadsBefore, Loads
<1>3. /\ plan \in [entry : Word, segment_count : Nat]
      /\ HeaderStatus(image) = "OK" /\ plan.entry = image.entry
      /\ plan.segment_count = Cardinality(Loads(image))
      /\ \A k \in Loads(image) : Ok(image, k)
  BY <1>1, <1>2 DEF ElfInv
<1>4. i' = 0 /\ status' = "OK" /\ image' = image /\ plan' = plan
  BY DEF plan_end
<1>5. PlanTellsOutcome'
  BY <1>3, <1>4 DEF PlanTellsOutcome, Loads
<1>6. Loads(image)' = Loads(image) /\ HeaderStatus(image)' = HeaderStatus(image)
      /\ \A k : Ok(image, k)' <=> Ok(image, k)
  BY <1>4 DEF Loads, HeaderStatus, Wrap, Ok
<1> QED BY SMTT(30), <1>1, <1>3, <1>4, <1>5, <1>6 DEF ElfInv

LEMMA ElfInvStep == ElfInv /\ [ElfNext]_elfvars => ElfInv'
<1> SUFFICES ASSUME ElfInv, [ElfNext]_elfvars
             PROVE  ElfInv'
  OBVIOUS
<1>1. CASE UNCHANGED elfvars
  BY <1>1 DEF elfvars, ElfInv, HeaderStatus, Wrap, LoadsBefore, Loads, Ok, PlanTellsOutcome
<1> QED BY <1>1, ElfInvBegin, ElfInvSegment, ElfInvEnd DEF ElfNext

\* A plan that was accepted describes its own image and all of its loadable
\* headers, however many there are and whatever plan the caller passed; one that
\* was refused is untouched or counts fewer segments than the image has.
THEOREM PlanCorrect == ElfSpec => []PlanTellsOutcome
<1>1. ElfInv => PlanTellsOutcome
  BY DEF ElfInv, PlanTellsOutcome
<1> QED BY <1>1, ElfInvInit, ElfInvStep, PTL DEF ElfSpec

LEMMA WrapSmall ==
  ASSUME NEW n \in Nat, n < WordSize
  PROVE  Wrap(n) = n
<1>1. WordSize \in Nat \ {0}
  BY ElfAssumption
<1>2. n = WordSize * (n \div WordSize) + (n % WordSize) /\ n \div WordSize \in Nat
      /\ n % WordSize \in 0 .. (WordSize - 1)
  BY Zenon, <1>1, DivMod
<1>3. n \div WordSize = 0
  BY <1>1, <1>2, Z3
<1> QED BY <1>1, <1>2, <1>3 DEF Wrap

\* A segment whose sum does not wrap passes the checks exactly when it lies in
\* the image, fits its memory, is aligned to a power of two and above the base.
LEMMA SegmentAccepted ==
  ASSUME NEW seg \in Phdr, NEW size \in Word, seg.offset + seg.filesz < WordSize
  PROVE  SegmentStatus(seg, size) = "OK" <=>
           /\ seg.offset + seg.filesz <= size /\ seg.filesz <= seg.memsz
           /\ PowerOfTwo(seg.align) /\ seg.vaddr >= UserBase
<1>1. /\ seg.offset \in Nat /\ seg.filesz \in Nat /\ seg.memsz \in Nat /\ seg.align \in Nat
      /\ seg.vaddr \in Nat /\ size \in Nat /\ UserBase \in Nat
  BY ElfAssumption DEF Phdr, Word
<1>2. Wrap(seg.offset + seg.filesz) = seg.offset + seg.filesz
  BY <1>1, WrapSmall
<1>3. seg.align = 0 => ~PowerOfTwo(seg.align)
  BY DEF PowerOfTwo
<1>4. seg.align # 0 => (NoMaskBit(seg.align) <=> PowerOfTwo(seg.align))
  BY <1>1, MaskIsPowerOfTwo
<1> QED BY <1>1, <1>2, <1>3, <1>4 DEF SegmentStatus

LEMMA HeaderAccepted ==
  ASSUME NEW im \in Images
  PROVE  HeaderStatus(im) = "OK" <=>
           /\ im.size >= EhdrSize /\ im.magic /\ im.machine /\ im.entry >= UserBase
           /\ im.phoff + Len(im.phdrs) * PhdrSize <= im.size
<1>1. /\ im.size \in Nat /\ im.entry \in Nat /\ im.phoff \in Nat /\ Len(im.phdrs) \in Nat
      /\ im.magic \in BOOLEAN /\ im.machine \in BOOLEAN
      /\ EhdrSize \in Nat /\ UserBase \in Nat /\ PhdrSize \in Nat
  BY ImageType, ElfAssumption DEF Word
<1> DEFINE end == im.phoff + Len(im.phdrs) * PhdrSize
<1>2. end \in Nat /\ end < WordSize
  <2>1. Len(im.phdrs) * PhdrSize \in Nat
    BY <1>1
  <2> QED BY <1>1, <2>1, ElfAssumption
<1>3. Wrap(end) = end
  <2> HIDE DEF end
  <2> QED BY <1>2, WrapSmall
<1>4. HeaderStatus(im) = CASE im.size < EhdrSize \/ ~im.magic -> "MAGIC"
                           [] ~im.machine -> "MACHINE"
                           [] im.entry < UserBase -> "ENTRY"
                           [] end > im.size -> "SEGBOUNDS"
                           [] OTHER -> "OK"
  BY <1>3 DEF HeaderStatus
<1> HIDE DEF end
<1>5. HeaderStatus(im) = "OK" <=>
        im.size >= EhdrSize /\ im.magic /\ im.machine /\ im.entry >= UserBase /\ end <= im.size
  BY SMTT(30), <1>1, <1>2, <1>4
<1> QED BY <1>5 DEF end

\* The planner accepts exactly the valid images, of any word size and any number
\* of program headers, among those in which no segment's sum wraps.
THEOREM AcceptanceCorrect == ElfSpec => []AcceptsExactlyValid
<1>1. ElfInv => AcceptsExactlyValid
  <2> SUFFICES ASSUME ElfInv, i = 0, status # "idle", NoneWraps(image)
               PROVE  status = "OK" <=> Valid(image)
    BY DEF AcceptsExactlyValid
  <2>1. image \in Images /\ (status = "OK" <=> HeaderStatus(image) = "OK" /\ \A k \in Loads(image) : Ok(image, k))
    BY SMTT(30) DEF ElfInv
  <2>2. ASSUME NEW k \in Loads(image)
        PROVE  Ok(image, k) <=> LET seg == image.phdrs[k] IN
                 /\ seg.offset + seg.filesz <= image.size /\ seg.filesz <= seg.memsz
                 /\ PowerOfTwo(seg.align) /\ seg.vaddr >= UserBase
    <3>1. image.phdrs[k] \in Phdr /\ image.size \in Word
      BY <2>1, ImageType DEF Loads
    <3>2. image.phdrs[k].offset + image.phdrs[k].filesz < WordSize
      BY DEF NoneWraps
    <3> QED BY <3>1, <3>2, SegmentAccepted DEF Ok
  <2> QED BY <2>1, <2>2, HeaderAccepted DEF Valid
<1> QED BY <1>1, ElfInvInit, ElfInvStep, PTL DEF ElfSpec
=============================================================================
