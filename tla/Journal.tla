------------------------------ MODULE Journal ------------------------------
(***************************************************************************)
(* The write-ahead journal of kernel/fs/m16_journal.c, one action per      *)
(* store that a power failure can separate from the next one.              *)
(*                                                                         *)
(* The journal area (m16_journal_t) and the home blocks survive a crash;   *)
(* the locals of the call in progress do not.  Stores reach the medium in  *)
(* program order.  Copying or zeroing a 512-byte block is not atomic: while*)
(* m16_memcpy runs, the destination holds some mixture of old and new      *)
(* bytes, which is the value Torn.                                         *)
(*                                                                         *)
(* This module leaves the caller free to call any function at any time.    *)
(* JournalClient restricts it to the write-ahead protocol.                 *)
(***************************************************************************)
EXTENDS Integers

CONSTANTS
  MaxEntries,   \* M16_JOURNAL_MAX_ENTRIES
  DiskBlocks,   \* the disk_block_count every replay is called with
  Targets,      \* the target_block arguments callers pass to append
  Data,         \* contents of a whole block
  Zero,         \* the block of zeros that m16_memzero leaves
  Torn          \* a block a crash caught half copied

ASSUME JournalAssumption ==
  /\ MaxEntries \in Nat
  /\ DiskBlocks \in Nat
  /\ Targets \subseteq Nat
  /\ Zero \in Data
  /\ Torn \notin Data

VARIABLES
  magic, committed, entry_count, entries,  \* m16_journal_t
  disk,                                    \* the home blocks
  pc,                                      \* where the call in progress is
  idx, data, saved,                        \* its locals and arguments
  ret                                      \* what the last call returned

journal == <<magic, committed, entry_count, entries>>
locals  == <<idx, data, saved>>
vars    == <<magic, committed, entry_count, entries, disk,
             pc, idx, data, saved, ret>>

M16_JOURNAL_MAGIC == 1295070794    \* 0x4D31364A

Slots   == 0 .. (MaxEntries - 1)
Blocks  == 0 .. (DiskBlocks - 1)
Content == Data \cup {Torn}
Entry   == [target_block : Nat, data : Content, valid : BOOLEAN]
NoEntry == [target_block |-> 0, data |-> Zero, valid |-> FALSE]
Codes   == {"OK", "EINVAL", "EFULL", "ECORRUPT", "none"}
Points  == {"idle", "append_copy", "append_count", "replay", "replay_copy",
            "zero_magic", "zero_committed", "zero_count", "zero_entries"}

Init ==
  /\ magic = 0 /\ committed = 0 /\ entry_count = 0
  /\ entries = [k \in Slots |-> NoEntry]
  /\ disk \in [Blocks -> Data]
  /\ pc = "idle" /\ idx = 0 /\ data = Zero /\ saved = 0 /\ ret = "none"

\* A call returns r (a crash returns "none"): its locals are gone.
Return(r) == pc' = "idle" /\ ret' = r /\ idx' = 0 /\ data' = Zero /\ saved' = 0

Goto(p) == pc' = p /\ ret' = ret
-----------------------------------------------------------------------------
(* m16_journal_append: the entry is filled before entry_count admits it.   *)

Full == entry_count >= MaxEntries

m16_journal_append(t, d) ==
  /\ pc = "idle"
  /\ \/ /\ Full
        /\ Return("EFULL")
        /\ UNCHANGED <<journal, disk>>
     \/ /\ ~Full
        /\ entries' = [entries EXCEPT ![entry_count] =
                         [target_block |-> t, data |-> Torn, valid |-> TRUE]]
        /\ data' = d
        /\ Goto("append_copy")
        /\ UNCHANGED <<magic, committed, entry_count, disk, idx, saved>>

\* Mutation: the payload is not copied before the entry is counted.
AppendNoCopy ==
  /\ pc = "append_copy"
  /\ Goto("append_count")
  /\ UNCHANGED <<journal, disk, locals>>

AppendCopy ==
  /\ pc = "append_copy"
  /\ entries' = [entries EXCEPT ![entry_count].data = data]
  /\ Goto("append_count")
  /\ UNCHANGED <<magic, committed, entry_count, disk, locals>>

AppendCount ==
  /\ pc = "append_count"
  /\ entry_count' = entry_count + 1
  /\ Return("OK")
  /\ UNCHANGED <<magic, committed, entries, disk>>

m16_journal_commit ==
  /\ pc = "idle"
  /\ committed' = 1
  /\ Return("OK")
  /\ UNCHANGED <<magic, entry_count, entries, disk>>
-----------------------------------------------------------------------------
(* m16_journal_replay: entries are copied home in log order.               *)

\* Mutation: the commit record is not looked at.
AlwaysCommitted == TRUE

Committed == committed # 0

\* Mutation: the loop starts at the second entry.
SecondEntry == 1

FirstEntry == 0

\* Mutation: an uncommitted journal is an error.
ReplayRefusesUncommitted ==
  /\ pc = "idle"
  /\ \/ (magic # M16_JOURNAL_MAGIC \/ ~Committed) /\ Return("ECORRUPT")
     \/ /\ magic = M16_JOURNAL_MAGIC /\ Committed
        /\ idx' = FirstEntry /\ Goto("replay") /\ UNCHANGED <<data, saved>>
  /\ UNCHANGED <<journal, disk>>

m16_journal_replay ==
  /\ pc = "idle"
  /\ \/ magic # M16_JOURNAL_MAGIC /\ Return("ECORRUPT")
     \/ magic = M16_JOURNAL_MAGIC /\ ~Committed /\ Return("OK")
     \/ /\ magic = M16_JOURNAL_MAGIC /\ Committed
        /\ idx' = FirstEntry
        /\ Goto("replay")
        /\ UNCHANGED <<data, saved>>
  /\ UNCHANGED <<journal, disk>>

Exhausted == idx >= entry_count

\* One turn of the loop, up to the first byte that reaches the disk.
ReplayEntry ==
  /\ pc = "replay"
  /\ IF Exhausted
     THEN Return("OK") /\ UNCHANGED disk
     ELSE IF ~entries[idx].valid
     THEN idx' = idx + 1 /\ Goto("replay") /\ UNCHANGED <<data, saved, disk>>
     ELSE IF entries[idx].target_block >= DiskBlocks
     THEN Return("ECORRUPT") /\ UNCHANGED disk
     ELSE /\ disk' = [disk EXCEPT ![entries[idx].target_block] = Torn]
          /\ Goto("replay_copy")
          /\ UNCHANGED locals
  /\ UNCHANGED journal

ReplayCopy ==
  /\ pc = "replay_copy"
  /\ disk' = [disk EXCEPT ![entries[idx].target_block] = entries[idx].data]
  /\ idx' = idx + 1
  /\ Goto("replay")
  /\ UNCHANGED <<journal, data, saved>>
-----------------------------------------------------------------------------
\* Mutation: a full journal counts as corrupt.
FullIsCorrupt == magic # M16_JOURNAL_MAGIC \/ entry_count >= MaxEntries

Corrupt == magic # M16_JOURNAL_MAGIC \/ entry_count > MaxEntries

m16_journal_fsck ==
  /\ pc = "idle"
  /\ Return(IF Corrupt THEN "ECORRUPT" ELSE "OK")
  /\ UNCHANGED <<journal, disk>>

(* m16_journal_init and m16_journal_clear zero the area from its first     *)
(* byte to its last and then store the magic number: init the constant,    *)
(* clear the value it read before zeroing.                                 *)

m16_journal_init ==
  /\ pc = "idle"
  /\ saved' = M16_JOURNAL_MAGIC
  /\ Goto("zero_magic")
  /\ UNCHANGED <<journal, disk, idx, data>>

m16_journal_clear ==
  /\ pc = "idle"
  /\ saved' = magic
  /\ Goto("zero_magic")
  /\ UNCHANGED <<journal, disk, idx, data>>

ZeroMagic ==
  /\ pc = "zero_magic"
  /\ magic' = 0
  /\ Goto("zero_committed")
  /\ UNCHANGED <<committed, entry_count, entries, disk, locals>>

\* Mutation: the commit record survives the zeroing.
ZeroKeepsCommitted ==
  /\ pc = "zero_committed"
  /\ Goto("zero_count")
  /\ UNCHANGED <<journal, disk, locals>>

ZeroCommitted ==
  /\ pc = "zero_committed"
  /\ committed' = 0
  /\ Goto("zero_count")
  /\ UNCHANGED <<magic, entry_count, entries, disk, locals>>

ZeroCount ==
  /\ pc = "zero_count"
  /\ entry_count' = 0
  /\ Goto("zero_entries")
  /\ UNCHANGED <<magic, committed, entries, disk, locals>>

ZeroEntry ==
  /\ pc = "zero_entries"
  /\ idx < MaxEntries
  /\ entries' = [entries EXCEPT ![idx] = NoEntry]
  /\ idx' = idx + 1
  /\ UNCHANGED <<magic, committed, entry_count, disk, pc, data, saved, ret>>

StoreMagic ==
  /\ pc = "zero_entries"
  /\ idx >= MaxEntries
  /\ magic' = saved
  /\ Return("OK")
  /\ UNCHANGED <<committed, entry_count, entries, disk>>
-----------------------------------------------------------------------------
\* A null journal, data or disk pointer: every function returns at once.
RejectNull ==
  /\ pc = "idle"
  /\ Return("EINVAL")
  /\ UNCHANGED <<journal, disk>>

\* Power fails: the call in progress stops where it is.
Crash == Return("none") /\ UNCHANGED <<journal, disk>>

\* The steps a call takes once it has begun.
CallStep ==
  \/ AppendCopy \/ AppendCount
  \/ ReplayEntry \/ ReplayCopy
  \/ ZeroMagic \/ ZeroCommitted \/ ZeroCount \/ ZeroEntry \/ StoreMagic

Next ==
  \/ \E t \in Targets, d \in Data : m16_journal_append(t, d)
  \/ m16_journal_commit
  \/ m16_journal_replay
  \/ m16_journal_fsck
  \/ m16_journal_init
  \/ m16_journal_clear
  \/ RejectNull
  \/ CallStep
  \/ Crash

Spec == Init /\ [][Next]_vars
-----------------------------------------------------------------------------
(* Properties                                                              *)

\* The entries that replay will look at.
Counted == 0 .. (entry_count - 1)

\* The type invariant of the journal area, the disk and the call in progress.
TypeOK ==
  /\ magic \in {0, M16_JOURNAL_MAGIC}
  /\ committed \in {0, 1}
  /\ entry_count \in 0 .. MaxEntries
  /\ entries \in [Slots -> Entry]
  /\ disk \in [Blocks -> Content]
  /\ pc \in Points
  /\ idx \in 0 .. MaxEntries
  /\ data \in Data
  /\ saved \in {0, M16_JOURNAL_MAGIC}
  /\ ret \in Codes

\* Whenever power fails, every entry that entry_count admits was completely
\* written by m16_journal_append: replay never copies a torn payload, and its
\* "if (!entry->valid) continue" is never taken.
CountedEntriesWhole ==
  \A k \in Counted : entries[k].valid /\ entries[k].data \in Data

\* The last of the first n entries of log e that is for block b, if any is.
LastFor(e, b, n) ==
  {k \in 0 .. (n - 1) : /\ e[k].target_block = b
                        /\ \A j \in (k + 1) .. (n - 1) : e[j].target_block # b}

TheOne(S) == CHOOSE k \in S : TRUE

\* What block b holds once the first n entries of e are copied over content c.
After(e, n, b, c) ==
  IF LastFor(e, b, n) = {} THEN c ELSE e[TheOne(LastFor(e, b, n))].data

\* When m16_journal_replay's loop has reached entry idx, the disk is exactly
\* what the first idx entries in log order make it, whatever torn blocks an
\* earlier interrupted replay had left; replaying them again changes nothing.
ReplayedPrefix ==
  pc = "replay" => \A b \in Blocks : disk[b] = After(entries, idx, b, disk[b])

\* The home blocks change only inside a replay of a journal that carries both
\* the magic number and the commit record, and only in the block of an entry
\* that entry_count admits.
OnlyCommittedReachesDisk ==
  [][\A b \in Blocks : disk'[b] # disk[b] =>
       /\ magic = M16_JOURNAL_MAGIC /\ committed = 1
       /\ \E k \in Counted : entries[k].target_block = b]_vars
=============================================================================
