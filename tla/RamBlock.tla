------------------------------ MODULE RamBlock ------------------------------
(***************************************************************************)
(* The RAM block device of m14_ramblk.c: block devices bound to RAM disks  *)
(* that are set up over areas of one memory.  A RAM disk may be set up     *)
(* again, over another area or with another size, after it was bound; the  *)
(* device's block_count is then out of date.                               *)
(*                                                                         *)
(* Callers set up a RAM disk over an area that has the blocks they name,   *)
(* and use a device once it is bound.                                      *)
(***************************************************************************)
EXTENDS Integers

CONSTANTS
  MCS_BLOCK_SIZE,     \* 512
  AreaBlocks,         \* the areas: the blocks of each,
  BaseOf,             \* and the address of its first byte
  MemoryEnd,          \* the last address of the memory they are in
  Ramdevs, Devs,      \* RAM disks and devices
  Buffers,            \* what callers write
  MaxLba              \* bound: the highest block number callers pass

Areas == DOMAIN AreaBlocks

EndOf(area) == BaseOf[area] + AreaBlocks[area] * MCS_BLOCK_SIZE

\* The areas are objects of their own: none is empty and no two overlap.
ASSUME BlockAssumption ==
  /\ MCS_BLOCK_SIZE \in Nat \ {0} /\ MemoryEnd \in Nat /\ MaxLba \in Nat
  /\ AreaBlocks \in [Areas -> Nat \ {0}] /\ BaseOf \in [Areas -> Nat \ {0}]
  /\ \A a \in Areas : EndOf(a) - 1 <= MemoryEnd
  /\ \A a, b \in Areas : a # b => EndOf(a) <= BaseOf[b] \/ EndOf(b) <= BaseOf[a]
  /\ "none" \notin Ramdevs
  /\ \A buffer \in Buffers : buffer = [i \in 1 .. MCS_BLOCK_SIZE |-> buffer[i]]

VARIABLES
  storage_bytes,      \* the memory of the areas, byte by byte
  ramdev,             \* of each RAM disk: the address of its storage, total_blocks
  dev,                \* of each device: block_count, driver_data
  request,            \* the last read or write
  answer              \* what it returned, and the buffer it filled

blockvars == <<storage_bytes, ramdev, dev, request, answer>>

Unset   == [storage |-> 0, total_blocks |-> 0]
Unbound == [block_count |-> 0, driver_data |-> "none"]

BlockInit ==
  /\ storage_bytes = [a \in 1 .. MemoryEnd |-> 0]
  /\ ramdev = [r \in Ramdevs |-> Unset] /\ dev = [v \in Devs |-> Unbound]
  /\ request = << >> /\ answer = << >>

mcs_ram_block_init(r, area, n) ==
  /\ ramdev' = [ramdev EXCEPT ![r] = [storage |-> BaseOf[area], total_blocks |-> n]]
  /\ UNCHANGED <<storage_bytes, dev>>
  /\ request' = << >> /\ answer' = << >>

mcs_block_bind_ramdev(v, r) ==
  /\ ramdev[r] # Unset
  /\ dev' = [dev EXCEPT ![v] = [block_count |-> ramdev[r].total_blocks, driver_data |-> r]]
  /\ UNCHANGED <<storage_bytes, ramdev>>
  /\ request' = << >> /\ answer' = << >>

\* Mutation: the size that was noted when the device was bound is trusted.
BoundSize(v) == dev[v].block_count

SizeOf(v) == ramdev[dev[v].driver_data].total_blocks

\* The address of the first byte of the block.
AddressOf(v, lba) == ramdev[dev[v].driver_data].storage + lba * MCS_BLOCK_SIZE

\* The block that starts at an address.
BlockAt(address) == [i \in 1 .. MCS_BLOCK_SIZE |-> storage_bytes[address + i - 1]]

\* m14_ramblk_read, through dev->read.
mcs_block_read(v, lba) ==
  /\ dev[v] # Unbound
  /\ request' = <<"read", v, lba>>
  /\ answer' = IF lba >= SizeOf(v) THEN <<"EINVAL">>
               ELSE <<"OK", BlockAt(AddressOf(v, lba))>>
  /\ UNCHANGED <<storage_bytes, ramdev, dev>>

\* m14_ramblk_write, through dev->write.
mcs_block_write(v, lba, buffer) ==
  /\ dev[v] # Unbound
  /\ request' = <<"write", v, lba, buffer>>
  /\ IF lba >= SizeOf(v) THEN answer' = <<"EINVAL">> /\ UNCHANGED storage_bytes
     ELSE /\ answer' = <<"OK">>
          /\ storage_bytes' = [a \in DOMAIN storage_bytes |->
               IF a - AddressOf(v, lba) \in 0 .. MCS_BLOCK_SIZE - 1
               THEN buffer[a - AddressOf(v, lba) + 1] ELSE storage_bytes[a]]
  /\ UNCHANGED <<ramdev, dev>>

\* The early return of both for a null buffer, before the block number is
\* looked at.
RejectNull(v) ==
  /\ dev[v] # Unbound
  /\ request' = <<"null">> /\ answer' = <<"EINVAL">>
  /\ UNCHANGED <<storage_bytes, ramdev, dev>>

BlockNext ==
  \/ \E r \in Ramdevs, area \in Areas : \E n \in 0 .. AreaBlocks[area] :
       mcs_ram_block_init(r, area, n)
  \/ \E v \in Devs, r \in Ramdevs : mcs_block_bind_ramdev(v, r)
  \/ \E v \in Devs : RejectNull(v)
  \/ \E v \in Devs, lba \in 0 .. MaxLba :
       mcs_block_read(v, lba) \/ \E buffer \in Buffers : mcs_block_write(v, lba, buffer)

BlockSpec == BlockInit /\ [][BlockNext]_blockvars
-----------------------------------------------------------------------------
(* Properties                                                              *)

DiskOf(r) ==
  [area |-> CHOOSE a \in Areas : BaseOf[a] = ramdev[r].storage, size |-> ramdev[r].total_blocks]

Store == INSTANCE BlockStore WITH
  Zeros <- [b \in 1 .. MCS_BLOCK_SIZE |-> 0],
  content <- [a \in Areas |-> [l \in 0 .. AreaBlocks[a] - 1 |-> BlockAt(BaseOf[a] + l * MCS_BLOCK_SIZE)]],
  disk <- [r \in {r \in Ramdevs : ramdev[r] # Unset} |-> DiskOf(r)],
  bound <- [v \in {v \in Devs : dev[v] # Unbound} |-> dev[v].driver_data]

\* The devices implement BlockStore: a block reads back as it was last written
\* through any device over the same area, a transfer touches no other block and
\* no other area, and the size that counts is the RAM disk's present one, also
\* when it was set up again after the device was bound.
ImplementsBlockStore == Store!Spec
=============================================================================
