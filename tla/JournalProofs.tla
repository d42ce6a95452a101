--------------------------- MODULE JournalProofs ---------------------------
(***************************************************************************)
(* Proofs about the journal, for every journal size, disk size and block   *)
(* content and any caller: type correctness, whole entries, and what a     *)
(* replay has made of the disk.                                            *)
(***************************************************************************)
EXTENDS JournalClient, TLAPS

(* The inductive invariant of the journal under any caller.                *)

\* An entry being appended lies outside the counted ones and is filled before
\* it is counted.
Appending ==
  /\ pc \in {"append_copy", "append_count"} =>
       entry_count < MaxEntries /\ entries[entry_count].valid
  /\ pc = "append_count" => entries[entry_count].data \in Data

\* A replay in progress, and the block it is in the middle of.
Replaying ==
  /\ pc \in {"replay", "replay_copy"} =>
       magic = M16_JOURNAL_MAGIC /\ committed = 1 /\ idx <= entry_count
  /\ pc = "replay_copy" =>
       /\ idx < entry_count
       /\ entries[idx].target_block \in Blocks
       /\ \A b \in Blocks : b # entries[idx].target_block =>
            disk[b] = After(entries, idx, b, disk[b])

\* Zeroing proceeds from the header to the entries.
Zeroing ==
  /\ pc \in {"zero_committed", "zero_count", "zero_entries"} => magic = 0
  /\ pc \in {"zero_count", "zero_entries"} => committed = 0
  /\ pc = "zero_entries" => entry_count = 0

IInv == TypeOK /\ CountedEntriesWhole /\ ReplayedPrefix
          /\ Appending /\ Replaying /\ Zeroing
-----------------------------------------------------------------------------
(* What After computes, without unfolding it any further below.            *)

\* An empty log changes nothing.
LEMMA AfterNone == \A e, b, c : After(e, 0, b, c) = c
  BY DEF After, LastFor

\* One more entry overwrites its own block and no other.
LEMMA AfterOneMore ==
  ASSUME NEW e, NEW n \in Nat, NEW b, NEW c
  PROVE  /\ e[n].target_block = b =>
              After(e, n + 1, b, c) = e[n].data /\ LastFor(e, b, n + 1) # {}
         /\ e[n].target_block # b =>
              /\ After(e, n + 1, b, c) = After(e, n, b, c)
              /\ LastFor(e, b, n + 1) = LastFor(e, b, n)
<1>1. ASSUME e[n].target_block = b
      PROVE  LastFor(e, b, n + 1) = {n}
  BY <1>1 DEF LastFor
<1>2. ASSUME e[n].target_block # b
      PROVE  LastFor(e, b, n + 1) = LastFor(e, b, n)
  BY <1>2 DEF LastFor
<1>3. ASSUME e[n].target_block = b
      PROVE  After(e, n + 1, b, c) = e[n].data
  <2>1. TheOne({n}) = n
    BY DEF TheOne
  <2>2. QED
    BY <1>1, <1>3, <2>1 DEF After
<1>4. ASSUME e[n].target_block # b
      PROVE  After(e, n + 1, b, c) = After(e, n, b, c)
  BY <1>2, <1>4 DEF After
<1>5. QED
  BY <1>1, <1>2, <1>3, <1>4

LEMMA AfterOwnBlock ==
  \A e, c : \A n \in Nat : After(e, n + 1, e[n].target_block, c) = e[n].data
<1> TAKE e, c
<1> TAKE n \in Nat
<1>1. LastFor(e, e[n].target_block, n + 1) = {n}
  BY DEF LastFor
<1>2. TheOne({n}) = n
  BY DEF TheOne
<1>3. QED
  BY <1>1, <1>2 DEF After

\* Only the first n entries matter.
LEMMA AfterPrefix ==
  ASSUME NEW e, NEW f, NEW n \in Nat, NEW b, NEW c,
         \A k \in 0 .. (n - 1) : e[k] = f[k]
  PROVE  /\ LastFor(e, b, n) = LastFor(f, b, n)
         /\ After(e, n, b, c) = After(f, n, b, c)
<1>1. LastFor(e, b, n) = LastFor(f, b, n)
  BY DEF LastFor
<1>2. CASE LastFor(e, b, n) = {}
  BY <1>1, <1>2 DEF After
<1>3. CASE LastFor(e, b, n) # {}
  <2>1. TheOne(LastFor(e, b, n)) \in LastFor(e, b, n)
    BY <1>3 DEF TheOne
  <2>2. TheOne(LastFor(e, b, n)) \in 0 .. (n - 1)
    BY <2>1 DEF LastFor
  <2>3. QED
    BY <1>1, <1>3, <2>2 DEF After
<1>4. QED
  BY <1>1, <1>2, <1>3

\* The result is what was there or the payload of one of the n entries.
LEMMA AfterSource ==
  ASSUME NEW e, NEW n \in Nat, NEW b, NEW c
  PROVE  /\ LastFor(e, b, n) = {} => After(e, n, b, c) = c
         /\ LastFor(e, b, n) # {} =>
              /\ \E k \in 0 .. (n - 1) : After(e, n, b, c) = e[k].data
              /\ \A d : After(e, n, b, d) = After(e, n, b, c)
<1>1. ASSUME LastFor(e, b, n) # {}
      PROVE  TheOne(LastFor(e, b, n)) \in 0 .. (n - 1)
  <2>1. TheOne(LastFor(e, b, n)) \in LastFor(e, b, n)
    BY <1>1 DEF TheOne
  <2>2. QED
    BY <2>1 DEF LastFor
<1>2. QED
  BY <1>1 DEF After
-----------------------------------------------------------------------------
(* The journal under any caller.                                           *)

\* A step that leaves the journal area and the disk alone and goes to an idle
\* point, or to one where no invariant speaks of the locals, preserves IInv.
LEMMA ReturnStep ==
  ASSUME IInv, NEW r \in Codes, Return(r), UNCHANGED <<journal, disk>>
  PROVE  IInv'
<1> USE JournalAssumption DEF Return, journal, IInv, Counted, Slots
<1>1. TypeOK'
  BY DEF TypeOK, Points
<1>2. CountedEntriesWhole'
  BY DEF CountedEntriesWhole
<1>3. ReplayedPrefix' /\ Appending' /\ Replaying' /\ Zeroing'
  BY DEF ReplayedPrefix, Appending, Replaying, Zeroing
<1>4. QED
  BY <1>1, <1>2, <1>3

LEMMA AppendStep ==
  ASSUME IInv, NEW t \in Targets, NEW d \in Data, m16_journal_append(t, d)
  PROVE  IInv'
<1> USE JournalAssumption
<1>1. CASE Return("EFULL") /\ UNCHANGED <<journal, disk>>
  BY <1>1, ReturnStep DEF Codes
<1>2. CASE entry_count < MaxEntries /\ UNCHANGED <<magic, committed, entry_count, disk, idx, saved>>
           /\ entries' = [entries EXCEPT ![entry_count] =
                            [target_block |-> t, data |-> Torn, valid |-> TRUE]]
           /\ data' = d /\ Goto("append_copy")
  <2>1. TypeOK'
    BY <1>2 DEF IInv, TypeOK, Goto, Points, Entry, Content, Slots
  <2>2. \A k \in Counted : k \in Slots /\ k # entry_count
    BY <1>2 DEF IInv, TypeOK, Counted, Slots
  <2>3. CountedEntriesWhole'
    BY <1>2, <2>2 DEF IInv, TypeOK, CountedEntriesWhole, Counted
  <2>4. ReplayedPrefix' /\ Appending' /\ Replaying' /\ Zeroing'
    BY <1>2 DEF IInv, TypeOK, Slots, Goto, ReplayedPrefix, Appending, Replaying, Zeroing
  <2>5. QED
    BY <2>1, <2>3, <2>4 DEF IInv
<1>3. QED
  BY <1>1, <1>2 DEF m16_journal_append, Full, IInv, TypeOK

LEMMA AppendCopyStep == IInv /\ AppendCopy => IInv'
<1> SUFFICES ASSUME IInv, AppendCopy PROVE IInv'
  OBVIOUS
<1> USE JournalAssumption DEF IInv
<1>1. TypeOK'
  BY DEF AppendCopy, TypeOK, Goto, Points, Entry, Content, Slots, locals, Appending
<1>2. \A k \in Counted : k \in Slots /\ k # entry_count
  BY DEF TypeOK, Counted, Slots, AppendCopy, Appending
<1>3. CountedEntriesWhole'
  BY <1>2 DEF AppendCopy, TypeOK, CountedEntriesWhole, Counted
<1>4. ReplayedPrefix' /\ Appending' /\ Replaying' /\ Zeroing'
  BY DEF AppendCopy, TypeOK, Slots, Entry, Goto, ReplayedPrefix, Appending, Replaying, Zeroing
<1>5. QED
  BY <1>1, <1>3, <1>4

LEMMA AppendCountStep == IInv /\ AppendCount => IInv'
<1> SUFFICES ASSUME IInv, AppendCount PROVE IInv'
  OBVIOUS
<1> USE JournalAssumption DEF IInv
<1>1. TypeOK'
  BY DEF AppendCount, TypeOK, Return, Points, Codes, Appending
<1>2. CountedEntriesWhole'
  BY DEF AppendCount, TypeOK, CountedEntriesWhole, Counted, Appending
<1>3. ReplayedPrefix' /\ Appending' /\ Replaying' /\ Zeroing'
  BY DEF AppendCount, Return, ReplayedPrefix, Appending, Replaying, Zeroing
<1>4. QED
  BY <1>1, <1>2, <1>3

LEMMA ReplayCallStep == IInv /\ m16_journal_replay => IInv'
<1> SUFFICES ASSUME IInv, m16_journal_replay PROVE IInv'
  OBVIOUS
<1>1. CASE Return("ECORRUPT") \/ Return("OK")
  BY <1>1, ReturnStep DEF m16_journal_replay, Committed, FirstEntry, Codes
<1>2. CASE /\ magic = M16_JOURNAL_MAGIC /\ Committed
           /\ idx' = FirstEntry /\ Goto("replay") /\ UNCHANGED <<data, saved>>
  <2> USE JournalAssumption DEF IInv, m16_journal_replay, Committed, FirstEntry, journal, Goto
  <2>1. TypeOK'
    BY <1>2 DEF TypeOK, Points
  <2>2. CountedEntriesWhole'
    BY <1>2 DEF CountedEntriesWhole, Counted
  <2>3. ReplayedPrefix'
    BY <1>2, AfterNone DEF ReplayedPrefix
  <2>4. Appending' /\ Replaying' /\ Zeroing'
    BY <1>2 DEF Appending, Replaying, Zeroing, TypeOK
  <2>5. QED
    BY <2>1, <2>2, <2>3, <2>4
<1>3. QED
  BY <1>1, <1>2 DEF m16_journal_replay, Committed, FirstEntry
LEMMA ReplayEntryStep == IInv /\ ReplayEntry => IInv'
<1> SUFFICES ASSUME IInv, ReplayEntry PROVE IInv'
  OBVIOUS
<1> USE JournalAssumption
<1>1. CASE idx >= entry_count
  BY <1>1, ReturnStep DEF ReplayEntry, Exhausted, Codes
<1>2. CASE idx < entry_count
  <2>1. idx \in Counted /\ idx \in Slots /\ entries[idx].target_block \in Nat
    BY <1>2 DEF IInv, TypeOK, Counted, Slots, Entry
  <2>2. entries[idx].valid
    BY <2>1 DEF IInv, CountedEntriesWhole
  <2>3. CASE entries[idx].target_block >= DiskBlocks
    <3>1. Return("ECORRUPT") /\ UNCHANGED <<journal, disk>>
      BY <1>2, <2>2, <2>3 DEF ReplayEntry, Exhausted, IInv, TypeOK
    <3>2. QED
      BY <3>1, ReturnStep DEF Codes
  <2>4. CASE entries[idx].target_block < DiskBlocks
    <3>1. /\ disk' = [disk EXCEPT ![entries[idx].target_block] = Torn]
          /\ Goto("replay_copy") /\ UNCHANGED <<journal, locals>> /\ pc = "replay"
      BY <1>2, <2>1, <2>2, <2>4 DEF ReplayEntry, Exhausted, IInv, TypeOK
    <3>2. entries[idx].target_block \in Blocks
      BY <2>1, <2>4 DEF Blocks
    <3> USE DEF IInv, Goto, journal, locals
    <3>3. TypeOK'
      BY Zenon, <3>1 DEF TypeOK, Points, Content
    <3>4. CountedEntriesWhole' /\ ReplayedPrefix' /\ Appending' /\ Zeroing'
      BY <3>1 DEF CountedEntriesWhole, Counted, ReplayedPrefix, Appending, Zeroing
    <3>5. \A b \in Blocks : b # entries[idx].target_block =>
            disk'[b] = disk[b] /\ disk[b] = After(entries, idx, b, disk[b])
      BY <3>1 DEF ReplayedPrefix, TypeOK
    <3>6. Replaying'
      BY <3>1, <3>2, <3>5, <1>2 DEF Replaying
    <3>7. QED
      BY <3>3, <3>4, <3>6
  <2>5. QED
    BY <2>1, <2>3, <2>4
<1>3. QED
  BY <1>1, <1>2 DEF IInv, TypeOK

LEMMA ReplayCopyStep == IInv /\ ReplayCopy => IInv'
<1> SUFFICES ASSUME IInv, ReplayCopy PROVE IInv'
  OBVIOUS
<1> USE JournalAssumption DEF IInv, ReplayCopy, Goto, journal
<1>1. /\ idx \in Nat /\ idx \in Slots /\ idx < entry_count
      /\ entries[idx].target_block \in Blocks /\ entries[idx].data \in Data
  BY DEF Replaying, TypeOK, CountedEntriesWhole, Counted, Slots
<1>2. TypeOK'
  BY <1>1 DEF TypeOK, Points, Content
<1>3. CountedEntriesWhole' /\ Appending' /\ Zeroing'
  BY DEF CountedEntriesWhole, Counted, Appending, Zeroing
<1>4. Replaying'
  BY <1>1 DEF Replaying, TypeOK
<1>5. ASSUME NEW b \in Blocks
      PROVE  disk'[b] = After(entries, idx + 1, b, disk'[b])
  <2>1. CASE b = entries[idx].target_block
    BY <1>1, <2>1, AfterOneMore DEF TypeOK
  <2>2. CASE b # entries[idx].target_block
    <3>1. disk'[b] = disk[b] /\ disk[b] = After(entries, idx, b, disk[b])
      BY <2>2 DEF Replaying, TypeOK
    <3>2. After(entries, idx + 1, b, disk[b]) = After(entries, idx, b, disk[b])
      BY <1>1, <2>2, AfterOneMore
    <3>3. QED
      BY <3>1, <3>2
  <2>3. QED
    BY <2>1, <2>2
<1>6. ReplayedPrefix'
  BY <1>5 DEF ReplayedPrefix
<1>7. QED
  BY <1>2, <1>3, <1>4, <1>6

LEMMA ZeroStep ==
  IInv /\ (m16_journal_init \/ m16_journal_clear \/ ZeroMagic \/ ZeroCommitted
             \/ ZeroCount \/ ZeroEntry \/ StoreMagic) => IInv'
<1> USE JournalAssumption DEF IInv, Goto, journal, locals
<1>1. ASSUME IInv, m16_journal_init \/ m16_journal_clear PROVE IInv'
  <2>1. TypeOK'
    BY <1>1 DEF m16_journal_init, m16_journal_clear, TypeOK, Points
  <2>2. QED
    BY <1>1, <2>1 DEF m16_journal_init, m16_journal_clear, CountedEntriesWhole,
         Counted, ReplayedPrefix, Appending, Replaying, Zeroing
<1>2. ASSUME IInv, ZeroMagic \/ ZeroCommitted \/ ZeroCount PROVE IInv'
  <2>1. TypeOK'
    BY <1>2 DEF ZeroMagic, ZeroCommitted, ZeroCount, TypeOK, Points
  <2>2. CountedEntriesWhole'
    BY <1>2 DEF ZeroMagic, ZeroCommitted, ZeroCount, CountedEntriesWhole, Counted
  <2>3. QED
    BY <1>2, <2>1, <2>2 DEF ZeroMagic, ZeroCommitted, ZeroCount,
         ReplayedPrefix, Appending, Replaying, Zeroing
<1>3. ASSUME IInv, ZeroEntry PROVE IInv'
  <2>1. TypeOK'
    BY <1>3 DEF ZeroEntry, TypeOK, NoEntry, Entry, Content, Slots
  <2>2. CountedEntriesWhole'
    BY <1>3 DEF ZeroEntry, CountedEntriesWhole, Counted, Zeroing
  <2>3. QED
    BY <1>3, <2>1, <2>2 DEF ZeroEntry, ReplayedPrefix, Appending, Replaying, Zeroing
<1>4. ASSUME IInv, StoreMagic PROVE IInv'
  <2>1. TypeOK'
    BY <1>4 DEF StoreMagic, TypeOK, Return, Points, Codes
  <2>2. QED
    BY <1>4, <2>1 DEF StoreMagic, Return, CountedEntriesWhole, Counted,
         ReplayedPrefix, Appending, Replaying, Zeroing
<1>5. QED
  BY <1>1, <1>2, <1>3, <1>4

LEMMA JournalStep == IInv /\ [Next]_vars => IInv'
<1> SUFFICES ASSUME IInv, [Next]_vars PROVE IInv'
  OBVIOUS
<1>1. CASE \E t \in Targets, d \in Data : m16_journal_append(t, d)
  BY <1>1, AppendStep
<1>2. CASE m16_journal_commit
  BY <1>2, JournalAssumption DEF m16_journal_commit, Return, IInv, TypeOK, Points, Codes,
       CountedEntriesWhole, Counted, ReplayedPrefix, Appending, Replaying, Zeroing
<1>3. CASE m16_journal_fsck \/ RejectNull \/ Crash
  BY <1>3, ReturnStep DEF m16_journal_fsck, Corrupt, RejectNull, Crash, Codes
<1>4. CASE m16_journal_replay
  BY <1>4, ReplayCallStep
<1>5. CASE m16_journal_init \/ m16_journal_clear
  BY <1>5, ZeroStep
<1>6. CASE CallStep
  BY <1>6, AppendCopyStep, AppendCountStep, ReplayEntryStep, ReplayCopyStep, ZeroStep
     DEF CallStep
<1>7. CASE UNCHANGED vars
  BY <1>7 DEF vars, IInv, TypeOK, CountedEntriesWhole, Counted, ReplayedPrefix,
       Appending, Replaying, Zeroing
<1>8. QED
  BY <1>1, <1>2, <1>3, <1>4, <1>5, <1>6, <1>7 DEF Next

LEMMA JournalInit == Init => IInv
  BY JournalAssumption DEF Init, IInv, TypeOK, CountedEntriesWhole, Counted,
     ReplayedPrefix, Appending, Replaying, Zeroing, Slots, Entry, NoEntry, Content,
     Points, Codes

\* For every size of the journal and of the disk, every set of targets and
\* every caller: the types of the journal area hold, entry_count admits only
\* entries that were completely written, and a replay that has reached entry
\* idx has made the disk exactly what the first idx entries say, however many
\* replays were interrupted before it.
THEOREM JournalCorrect ==
  Spec => [](TypeOK /\ CountedEntriesWhole /\ ReplayedPrefix)
<1>1. IInv => TypeOK /\ CountedEntriesWhole /\ ReplayedPrefix
  BY DEF IInv
<1>2. QED
  BY <1>1, JournalInit, JournalStep, PTL DEF Spec

\* The two stores of m16_journal_replay are the only ones to the home blocks,
\* and each goes to the block of a counted entry of a committed journal.
LEMMA DiskStep ==
  ASSUME IInv, [Next]_vars, NEW b \in Blocks, disk'[b] # disk[b]
  PROVE  /\ magic = M16_JOURNAL_MAGIC /\ committed = 1
         /\ \E k \in Counted : entries[k].target_block = b
<1>1. ReplayEntry \/ ReplayCopy
  BY DEF vars, Next, CallStep, m16_journal_append, m16_journal_commit, m16_journal_replay,
       m16_journal_fsck, m16_journal_init, m16_journal_clear, RejectNull, Crash,
       AppendCopy, AppendCount, ZeroMagic, ZeroCommitted, ZeroCount, ZeroEntry, StoreMagic
<1>2. /\ magic = M16_JOURNAL_MAGIC /\ committed = 1 /\ idx \in Nat /\ entry_count \in Nat
      /\ idx < entry_count
      /\ \E c : disk' = [disk EXCEPT ![entries[idx].target_block] = c]
  BY <1>1, JournalAssumption DEF ReplayEntry, ReplayCopy, Exhausted, IInv, TypeOK, Replaying
<1>3. entries[idx].target_block = b /\ idx \in Counted
  BY <1>2 DEF IInv, TypeOK, Counted
<1> QED BY <1>2, <1>3

\* For every journal and disk and every caller, crashes included: a block of
\* the disk changes only while the commit record stands, and only where a
\* counted entry sends it.
THEOREM OnlyCommittedWritten == Spec => OnlyCommittedReachesDisk
<1>1. Spec => []IInv
  BY JournalInit, JournalStep, PTL DEF Spec
<1>2. IInv /\ [Next]_vars =>
        [\A b \in Blocks : disk'[b] # disk[b] =>
           /\ magic = M16_JOURNAL_MAGIC /\ committed = 1
           /\ \E k \in Counted : entries[k].target_block = b]_vars
  BY DiskStep
<1> QED BY <1>1, <1>2, PTL DEF Spec, OnlyCommittedReachesDisk
-----------------------------------------------------------------------------
(* The refinement of AtomicDisk under the write-ahead protocol             *)

(* The inductive invariant of the protocol.                                *)

\* Every counted entry has a block of the disk and a last entry for it.
EntriesOnDisk ==
  /\ \A k \in Counted : /\ entries[k].target_block \in Blocks
                        /\ LastFor(entries, entries[k].target_block, entry_count) # {}
  /\ pc \in {"append_copy", "append_count"} =>
       entries[entry_count].target_block \in Blocks

\* A torn block is one that recovery will overwrite.
TornIsLogged ==
  \A b \in Blocks : disk[b] \notin Data => Live /\ LastFor(entries, b, entry_count) # {}

\* The whole log is home.
AllHome == \A b \in Blocks : disk[b] = After(entries, entry_count, b, disk[b])

\* What the caller knows in each phase.
Protocol ==
  /\ phase \in Phases
  /\ phase \in {"boot", "mount", "committed"} => pc = "idle"
  /\ phase = "mount" => (ret = "OK" <=> magic = M16_JOURNAL_MAGIC)
  /\ phase = "committed" => Live
  /\ phase = "applied" =>
       /\ magic = M16_JOURNAL_MAGIC
       /\ pc \in {"idle", "replay", "replay_copy"}
       /\ pc = "idle" /\ Live => AllHome
  /\ phase = "fill" =>
       /\ pc \notin {"replay", "replay_copy"}
       /\ pc \in {"idle", "append_copy", "append_count"} => Open
       /\ pc = "zero_magic" /\ Live => AllHome
       /\ pc \notin {"idle", "append_copy", "append_count"} => saved = M16_JOURNAL_MAGIC

ClientInv == IInv /\ EntriesOnDisk /\ TornIsLogged /\ Protocol
-----------------------------------------------------------------------------
\* The protocol only restricts when the journal's functions are called.
LEMMA ClientIsJournal == [ClientNext]_clientVars => [Next]_vars
  BY DEF ClientNext, clientVars, Check, Format, Recover, Fill, Commit, Abort, Apply,
     Empty, Run, PowerFails, Next, vars

\* Where there is nothing left to copy home, no block is torn.
LEMMA HomeIsWhole ==
  ASSUME IInv, TornIsLogged, Live => AllHome
  PROVE  \A b \in Blocks : disk[b] \in Data
<1> SUFFICES ASSUME NEW b \in Blocks, disk[b] \notin Data PROVE FALSE
  OBVIOUS
<1>1. AllHome /\ LastFor(entries, b, entry_count) # {} /\ entry_count \in Nat
  BY JournalAssumption DEF TornIsLogged, IInv, TypeOK
<1>2. PICK k \in Counted : After(entries, entry_count, b, disk[b]) = entries[k].data
  BY <1>1, AfterSource DEF Counted
<1>3. QED
  BY <1>1, <1>2 DEF AllHome, IInv, CountedEntriesWhole

\* A step that leaves the medium alone, and does not start an append.
LEMMA QuietStep ==
  ASSUME EntriesOnDisk, TornIsLogged, UNCHANGED <<journal, disk>>,
         pc' \notin {"append_copy", "append_count"}
  PROVE  EntriesOnDisk' /\ TornIsLogged'
  BY DEF journal, EntriesOnDisk, TornIsLogged, Counted, Live

LEMMA QuietCallers ==
  ASSUME ClientInv, Check \/ Format \/ Recover \/ Abort \/ Apply \/ Empty \/ PowerFails
  PROVE  EntriesOnDisk' /\ TornIsLogged' /\ Protocol' /\ UNCHANGED <<journal, disk>>
<1>1. UNCHANGED <<journal, disk>> /\ pc' \notin {"append_copy", "append_count"}
  BY DEF Check, Format, Recover, Abort, Apply, Empty, PowerFails, Crash, Return, Goto,
     m16_journal_fsck, Corrupt, m16_journal_init, m16_journal_replay, Committed, FirstEntry, m16_journal_clear
<1>2. EntriesOnDisk' /\ TornIsLogged'
  BY <1>1, QuietStep DEF ClientInv
<1> USE DEF Phases, Live, Open, Return, Goto
<1>3. ASSUME Check PROVE Protocol'
  BY <1>3, JournalAssumption DEF Check, m16_journal_fsck, Corrupt, Protocol, ClientInv, IInv, TypeOK, journal
<1>4. ASSUME Format PROVE Protocol'
  BY <1>4 DEF Format, m16_journal_init, Protocol, ClientInv, journal
<1>5. ASSUME Recover \/ Apply PROVE Protocol'
  BY <1>5 DEF Recover, Apply, m16_journal_replay, Committed, FirstEntry, Protocol, ClientInv, journal, IInv, TypeOK
<1>6. ASSUME Abort PROVE Protocol'
  BY <1>6 DEF Abort, m16_journal_clear, Protocol, ClientInv, journal
<1>7. ASSUME Empty PROVE Protocol'
  BY <1>7 DEF Empty, m16_journal_clear, Protocol, ClientInv, journal, AllHome
<1>8. ASSUME PowerFails PROVE Protocol'
  BY <1>8 DEF PowerFails, Crash, Protocol
<1>9. QED
  BY <1>1, <1>2, <1>3, <1>4, <1>5, <1>6, <1>7, <1>8
\* Filling the slot after the counted ones leaves them alone.
LEMMA FillStep ==
  ASSUME ClientInv, Fill \/ (Run /\ AppendCopy)
  PROVE  EntriesOnDisk' /\ TornIsLogged' /\ Protocol'
<1> USE JournalAssumption, ClientAssumption
<1>1. CASE Fill
  <2>1. PICK t \in Targets, d \in Data : m16_journal_append(t, d)
    BY <1>1 DEF Fill
  <2>2. Open /\ phase = "fill" /\ phase' = "fill"
    BY <1>1, <2>1 DEF Fill, ClientInv, Protocol, m16_journal_append, Full
  <2>3. CASE Return("EFULL") /\ UNCHANGED <<journal, disk>>
    <3>1. EntriesOnDisk' /\ TornIsLogged'
      BY <2>3, QuietStep DEF ClientInv, Return
    <3>2. Protocol'
      BY <2>2, <2>3 DEF Protocol, Return, Phases, Open, Live, journal
    <3>3. QED
      BY <3>1, <3>2
  <2>4. CASE /\ entry_count < MaxEntries /\ Goto("append_copy")
             /\ entries' = [entries EXCEPT ![entry_count] =
                              [target_block |-> t, data |-> Torn, valid |-> TRUE]]
             /\ UNCHANGED <<magic, committed, entry_count, disk>>
    <3>1. /\ entry_count \in Nat /\ entry_count \in Slots
          /\ \A k \in Counted : entries'[k] = entries[k]
          /\ entries'[entry_count].target_block \in Blocks
      BY <2>4 DEF ClientInv, IInv, TypeOK, Slots, Counted
    <3>2. \A b : LastFor(entries', b, entry_count) = LastFor(entries, b, entry_count)
      BY <3>1, AfterPrefix DEF Counted
    <3>3. EntriesOnDisk'
      BY Zenon, <2>4, <3>1, <3>2 DEF ClientInv, EntriesOnDisk, Counted
    <3>4. TornIsLogged'
      BY <2>2, <2>4 DEF ClientInv, TornIsLogged, Live, Open
    <3>5. Protocol'
      BY <2>2, <2>4 DEF Protocol, Goto, Phases, Open, Live
    <3>6. QED
      BY <3>3, <3>4, <3>5
  <2>5. QED
    BY <2>1, <2>3, <2>4 DEF m16_journal_append, Full, ClientInv, IInv, TypeOK
<1>2. CASE Run /\ AppendCopy
  <2>1. /\ pc = "append_copy" /\ entry_count < MaxEntries /\ Goto("append_count")
        /\ entries' = [entries EXCEPT ![entry_count].data = data]
        /\ UNCHANGED <<magic, committed, entry_count, disk, phase>>
    BY <1>2 DEF Run, AppendCopy, ClientInv, IInv, Appending
  <2>2. Open /\ phase = "fill"
    BY <2>1 DEF ClientInv, Protocol, Phases
  <2>3. /\ entry_count \in Nat /\ entry_count \in Slots
        /\ \A k \in Counted : entries'[k] = entries[k]
        /\ entries'[entry_count].target_block = entries[entry_count].target_block
    BY <2>1 DEF ClientInv, IInv, TypeOK, Slots, Counted, Entry
  <2>4. \A b : LastFor(entries', b, entry_count) = LastFor(entries, b, entry_count)
    BY <2>3, AfterPrefix DEF Counted
  <2>5. EntriesOnDisk'
    BY Zenon, <2>1, <2>3, <2>4 DEF ClientInv, EntriesOnDisk, Counted
  <2>6. TornIsLogged'
    BY <2>1, <2>2 DEF ClientInv, TornIsLogged, Live, Open
  <2>7. Protocol'
    BY <2>1, <2>2 DEF Protocol, Goto, Phases, Open, Live
  <2>8. QED
    BY <2>5, <2>6, <2>7
<1>3. QED
  BY <1>1, <1>2

\* Counting an entry makes it the last one for its block.
LEMMA CountStep ==
  ASSUME ClientInv, Run /\ AppendCount
  PROVE  EntriesOnDisk' /\ TornIsLogged' /\ Protocol'
<1> USE JournalAssumption
<1>1. /\ pc = "append_count" /\ entry_count' = entry_count + 1 /\ Return("OK")
      /\ UNCHANGED <<magic, committed, entries, disk, phase>>
      /\ entry_count \in Nat
  BY DEF Run, AppendCount, ClientInv, IInv, TypeOK
<1>2. Open /\ phase = "fill"
  BY <1>1 DEF ClientInv, Protocol, Phases
<1>3. ASSUME NEW k \in 0 .. entry_count
      PROVE  /\ entries[k].target_block \in Blocks
             /\ LastFor(entries, entries[k].target_block, entry_count + 1) # {}
  <2>1. entries[k].target_block \in Blocks
    BY <1>1 DEF ClientInv, EntriesOnDisk, Counted
  <2>2. CASE entries[entry_count].target_block = entries[k].target_block
    BY <1>1, <2>1, <2>2, AfterOneMore
  <2>3. CASE entries[entry_count].target_block # entries[k].target_block
    <3>1. k \in Counted
      BY <1>1, <2>3 DEF Counted
    <3>2. LastFor(entries, entries[k].target_block, entry_count) # {}
      BY <3>1 DEF ClientInv, EntriesOnDisk
    <3>3. QED
      BY Zenon, <1>1, <2>1, <2>3, <3>2, AfterOneMore
  <2>4. QED
    BY <2>2, <2>3
<1>4. EntriesOnDisk'
  BY <1>1, <1>3 DEF EntriesOnDisk, Counted, Return
<1>5. TornIsLogged'
  BY <1>1, <1>2 DEF ClientInv, TornIsLogged, Live, Open
<1>6. Protocol'
  BY <1>1, <1>2 DEF Protocol, Return, Phases, Open, Live
<1>7. QED
  BY <1>4, <1>5, <1>6

LEMMA CommitStep ==
  ASSUME ClientInv, Commit
  PROVE  EntriesOnDisk' /\ TornIsLogged' /\ Protocol'
<1>1. /\ pc = "idle" /\ Open /\ committed' = 1 /\ Return("OK") /\ phase' = "committed"
      /\ UNCHANGED <<magic, entry_count, entries, disk>>
  BY DEF Commit, m16_journal_commit, ClientInv, Protocol
<1>2. EntriesOnDisk'
  BY <1>1 DEF ClientInv, EntriesOnDisk, Counted, Return
<1>3. TornIsLogged'
  BY <1>1 DEF ClientInv, TornIsLogged, Live, Open
<1>4. Protocol'
  BY <1>1 DEF Protocol, Return, Phases, Open, Live
<1>5. QED
  BY <1>2, <1>3, <1>4
LEMMA ReplayStep ==
  ASSUME ClientInv, Run, ReplayEntry \/ ReplayCopy
  PROVE  EntriesOnDisk' /\ TornIsLogged' /\ Protocol'
<1> USE JournalAssumption
<1>1. /\ pc \in {"replay", "replay_copy"} /\ phase = "applied" /\ phase' = "applied"
      /\ Live /\ UNCHANGED journal /\ entry_count \in Nat /\ idx \in Nat
      /\ idx <= entry_count
  BY DEF Run, ReplayEntry, Exhausted, ReplayCopy, ClientInv, Protocol, Phases, IInv, Replaying,
     TypeOK, Live
<1>2. CASE ReplayEntry /\ idx >= entry_count
  <2>1. Return("OK") /\ UNCHANGED disk /\ idx = entry_count /\ pc = "replay"
    BY <1>1, <1>2 DEF ReplayEntry, Exhausted
  <2>2. AllHome
    BY <2>1 DEF AllHome, ClientInv, IInv, ReplayedPrefix
  <2>3. EntriesOnDisk' /\ TornIsLogged'
    BY <1>1, <2>1, QuietStep DEF ClientInv, Return
  <2>4. Protocol'
    BY <1>1, <2>1, <2>2 DEF Protocol, Phases, Return, Live, AllHome, journal
  <2>5. QED
    BY <2>3, <2>4
<1>3. CASE ReplayEntry /\ idx < entry_count
  <2>1. /\ idx \in Counted /\ entries[idx].valid /\ entries[idx].target_block \in Blocks
        /\ LastFor(entries, entries[idx].target_block, entry_count) # {}
    BY <1>1, <1>3 DEF Counted, ClientInv, EntriesOnDisk, IInv, CountedEntriesWhole
  <2>2. /\ disk' = [disk EXCEPT ![entries[idx].target_block] = Torn]
        /\ pc' = "replay_copy"
    BY <1>1, <1>3, <2>1 DEF ReplayEntry, Exhausted, Blocks, Goto
  <2>3. EntriesOnDisk'
    BY <1>1, <2>2 DEF ClientInv, EntriesOnDisk, Counted, journal
  <2>4. TornIsLogged'
    BY <1>1, <2>1, <2>2 DEF ClientInv, TornIsLogged, IInv, TypeOK, Live, journal
  <2>5. Protocol'
    BY <1>1, <2>2 DEF Protocol, Phases, Live, journal
  <2>6. QED
    BY <2>3, <2>4, <2>5
<1>4. CASE ReplayCopy
  <2>1. entries[idx].target_block \in Blocks /\ entries[idx].data \in Data
    BY <1>4 DEF ReplayCopy, ClientInv, IInv, Replaying, CountedEntriesWhole, Counted, TypeOK
  <2>2. /\ disk' = [disk EXCEPT ![entries[idx].target_block] = entries[idx].data]
        /\ pc' = "replay"
    BY <1>4 DEF ReplayCopy, Goto
  <2>3. EntriesOnDisk'
    BY <1>1, <2>2 DEF ClientInv, EntriesOnDisk, Counted, journal
  <2>4. TornIsLogged'
    BY <1>1, <2>1, <2>2 DEF ClientInv, TornIsLogged, IInv, TypeOK, Live, journal
  <2>5. Protocol'
    BY <1>1, <2>2 DEF Protocol, Phases, Live, journal
  <2>6. QED
    BY <2>3, <2>4, <2>5
<1>5. QED
  BY <1>1, <1>2, <1>3, <1>4

LEMMA ClearStep ==
  ASSUME ClientInv, Run,
         ZeroMagic \/ ZeroCommitted \/ ZeroCount \/ ZeroEntry \/ StoreMagic
  PROVE  /\ EntriesOnDisk' /\ TornIsLogged' /\ Protocol'
         /\ UNCHANGED disk /\ \A b \in Blocks : disk[b] \in Data
<1> USE JournalAssumption
<1>1. /\ phase = "fill" /\ phase' = "fill" /\ UNCHANGED disk
      /\ saved = M16_JOURNAL_MAGIC
      /\ pc \in {"zero_magic", "zero_committed", "zero_count", "zero_entries"}
      /\ pc' \notin {"append_copy", "append_count", "zero_magic", "replay", "replay_copy"}
  BY DEF Run, ZeroMagic, ZeroCommitted, ZeroCount, ZeroEntry, StoreMagic, Goto, Return,
     ClientInv, Protocol, Phases
<1>2. \A b \in Blocks : disk[b] \in Data
  <2>1. Live => AllHome
    BY <1>1 DEF ClientInv, Protocol, IInv, Zeroing, Live, M16_JOURNAL_MAGIC
  <2>2. QED
    BY <2>1, HomeIsWhole DEF ClientInv
<1>3. TornIsLogged'
  BY <1>1, <1>2 DEF TornIsLogged
<1>4. EntriesOnDisk'
  <2>1. CASE UNCHANGED <<entries, entry_count>>
    BY <1>1, <2>1 DEF ClientInv, EntriesOnDisk, Counted
  <2>2. CASE entry_count' = 0
    BY <1>1, <2>2 DEF EntriesOnDisk, Counted
  <2>3. QED
    BY <2>1, <2>2 DEF ZeroMagic, ZeroCommitted, ZeroCount, ZeroEntry, StoreMagic,
       ClientInv, IInv, Zeroing
<1>5. Protocol'
  <2>1. CASE StoreMagic
    BY <1>1, <2>1 DEF StoreMagic, Return, ClientInv, IInv, Zeroing, Protocol, Phases, Open
  <2>2. CASE ~StoreMagic
    BY <1>1, <2>2 DEF ZeroMagic, ZeroCommitted, ZeroCount, ZeroEntry, Goto, locals,
       Protocol, Phases
  <2>3. QED
    BY <2>1, <2>2
<1>6. QED
  BY <1>1, <1>2, <1>3, <1>4, <1>5

LEMMA ClientStep == ClientInv /\ [ClientNext]_clientVars => ClientInv'
<1> SUFFICES ASSUME ClientInv, [ClientNext]_clientVars PROVE ClientInv'
  OBVIOUS
<1>1. IInv'
  BY ClientIsJournal, JournalStep DEF ClientInv
<1>2. CASE ClientNext
  <2>1. CASE Check \/ Format \/ Recover \/ Abort \/ Apply \/ Empty \/ PowerFails
    BY <1>1, <2>1, QuietCallers DEF ClientInv
  <2>2. CASE Fill \/ Commit
    BY <1>1, <2>2, FillStep, CommitStep DEF ClientInv
  <2>3. CASE Run
    BY SMTT(30), <1>1, <2>3, FillStep, CountStep, ReplayStep, ClearStep DEF ClientInv, Run, CallStep
  <2>4. QED
    BY <1>2, <2>1, <2>2, <2>3 DEF ClientNext
<1>3. CASE UNCHANGED clientVars
  BY <1>1, <1>3 DEF clientVars, vars, ClientInv, EntriesOnDisk, TornIsLogged, Protocol,
     AllHome, Live, Open, Counted
<1>4. QED
  BY <1>2, <1>3

LEMMA ClientStart == ClientInit => ClientInv
<1> SUFFICES ASSUME ClientInit PROVE ClientInv
  OBVIOUS
<1>1. IInv
  BY JournalInit DEF ClientInit
<1>2. EntriesOnDisk /\ TornIsLogged /\ Protocol
  BY DEF ClientInit, Init, EntriesOnDisk, TornIsLogged, Protocol, Phases, Counted
<1>3. QED
  BY <1>1, <1>2 DEF ClientInv

LEMMA ClientAlways == ClientSpec => []ClientInv
  BY ClientStart, ClientStep, PTL DEF ClientSpec
-----------------------------------------------------------------------------
(* The refinement.                                                         *)

LEMMA AtomicInit == ClientInit => Atomic!Init
  BY DEF ClientInit, Init, Atomic!Init, Atomic!Nothing, diskBar, pendingBar, Live, Open,
     M16_JOURNAL_MAGIC

\* Steps that leave every counted entry alone are invisible.
LEMMA InvisibleStep ==
  ASSUME ClientInv, UNCHANGED <<magic, committed, entry_count, disk>>,
         \A k \in Counted : entries'[k] = entries[k]
  PROVE  UNCHANGED <<diskBar, pendingBar>>
<1>1. entry_count \in Nat
  BY JournalAssumption DEF ClientInv, IInv, TypeOK
<1>2. \A b, c : After(entries', entry_count, b, c) = After(entries, entry_count, b, c)
  BY <1>1, AfterPrefix DEF Counted
<1>3. QED
  BY <1>2 DEF diskBar, pendingBar, Live, Open

\* Counting an entry is the abstract write.
LEMMA CountIsWrite ==
  ASSUME ClientInv, Run /\ AppendCount
  PROVE  \E b \in Blocks, v \in Data : Atomic!Write(b, v)
<1> USE JournalAssumption
<1> DEFINE t == entries[entry_count].target_block
           d == entries[entry_count].data
<1>1. /\ pc = "append_count" /\ entry_count' = entry_count + 1
      /\ UNCHANGED <<magic, committed, entries, disk>> /\ entry_count \in Nat
  BY DEF Run, AppendCount, ClientInv, IInv, TypeOK
<1>2. Open /\ ~Live /\ t \in Blocks /\ d \in Data
  BY <1>1 DEF ClientInv, Protocol, Phases, EntriesOnDisk, IInv, Appending, Open, Live
<1>3. ASSUME NEW b \in Blocks
      PROVE  After(entries, entry_count + 1, b, NoWrite) =
               IF b = t THEN d ELSE After(entries, entry_count, b, NoWrite)
  <2>1. CASE b = t
    <3>1. After(entries, entry_count + 1, t, NoWrite) = d
      BY <1>1, AfterOwnBlock
    <3>2. QED
      BY <2>1, <3>1
  <2>2. CASE b # t
    BY SMTT(30), <1>1, <2>2, AfterOneMore
  <2>3. QED
    BY <2>1, <2>2
<1>4. diskBar' = diskBar
  BY <1>1, <1>2 DEF diskBar, Live, Open
<1>5. pendingBar' = [pendingBar EXCEPT ![t] = d]
  BY Zenon, <1>1, <1>2, <1>3 DEF pendingBar, Open
<1>6. QED
  BY ZenonT(30), <1>2, <1>4, <1>5 DEF Atomic!Write

\* The store of the commit record is the abstract commit.
LEMMA CommitIsCommit ==
  ASSUME ClientInv, Commit
  PROVE  Atomic!Commit
<1> USE JournalAssumption, ClientAssumption
<1>1. /\ Open /\ ~Live /\ Live' /\ ~Open'
      /\ UNCHANGED <<magic, entry_count, entries, disk>> /\ entry_count \in Nat
  BY DEF Commit, m16_journal_commit, ClientInv, Protocol, Open, Live, IInv, TypeOK
<1>2. pendingBar' = Atomic!Nothing
  BY <1>1 DEF pendingBar, Atomic!Nothing
<1>3. ASSUME NEW b \in Blocks
      PROVE  After(entries, entry_count, b, disk[b]) =
               IF After(entries, entry_count, b, NoWrite) = NoWrite
               THEN disk[b] ELSE After(entries, entry_count, b, NoWrite)
  <2>1. CASE LastFor(entries, b, entry_count) = {}
    BY ZenonT(30), <1>1, <2>1, AfterSource
  <2>2. CASE LastFor(entries, b, entry_count) # {}
    <3>1. PICK k \in Counted : After(entries, entry_count, b, NoWrite) = entries[k].data
      BY <1>1, <2>2, AfterSource DEF Counted
    <3>2. entries[k].data \in Data /\ entries[k].data # NoWrite
      BY <3>1 DEF ClientInv, IInv, CountedEntriesWhole, Content
    <3>3. After(entries, entry_count, b, disk[b]) = After(entries, entry_count, b, NoWrite)
      BY <1>1, <2>2, AfterSource
    <3>4. QED
      BY <3>1, <3>2, <3>3
  <2>3. QED
    BY <2>1, <2>2
<1>4. diskBar' = [b \in Blocks |-> IF pendingBar[b] = NoWrite THEN diskBar[b] ELSE pendingBar[b]]
  BY SMTT(30), <1>1, <1>3 DEF diskBar, pendingBar
<1>5. QED
  BY <1>2, <1>4 DEF Atomic!Commit

\* Copying home, torn blocks included, is invisible.
LEMMA ReplayIsInvisible ==
  ASSUME ClientInv, Run, ReplayEntry \/ ReplayCopy
  PROVE  UNCHANGED <<diskBar, pendingBar>>
<1> USE JournalAssumption
<1>1. /\ Live /\ UNCHANGED journal /\ entry_count \in Nat
      /\ pc \in {"replay", "replay_copy"}
  BY SMTT(30) DEF ReplayEntry, Exhausted, ReplayCopy, ClientInv, IInv, Replaying, TypeOK, Live
<1>2. ASSUME NEW b \in Blocks
      PROVE  After(entries, entry_count, b, disk'[b]) = After(entries, entry_count, b, disk[b])
  <2>1. CASE disk'[b] = disk[b]
    BY <2>1
  <2>2. CASE disk'[b] # disk[b]
    <3>1. idx \in Counted /\ entries[idx].target_block = b
      BY <2>2 DEF ReplayEntry, Exhausted, ReplayCopy, ClientInv, IInv, TypeOK, Replaying, Counted
    <3>2. LastFor(entries, b, entry_count) # {}
      BY <3>1 DEF ClientInv, EntriesOnDisk
    <3>3. \A c, d : After(entries, entry_count, b, c) = After(entries, entry_count, b, d)
      BY <3>2 DEF After
    <3>4. QED
      BY <3>3
  <2>3. QED
    BY <2>1, <2>2
<1>3. QED
  BY <1>1, <1>2 DEF diskBar, pendingBar, Live, Open, journal

\* Losing the magic number drops an open transaction and nothing else.
LEMMA ClearIsDrop ==
  ASSUME ClientInv, Run, ZeroMagic \/ ZeroCommitted \/ ZeroCount \/ ZeroEntry \/ StoreMagic
  PROVE  Atomic!Drop
<1> USE JournalAssumption
<1>1. UNCHANGED disk /\ ~Live'
  BY ClearStep DEF Run, ZeroMagic, ZeroCommitted, ZeroCount, ZeroEntry, StoreMagic,
     ClientInv, IInv, Zeroing, Live, M16_JOURNAL_MAGIC
<1>2. \A b \in Blocks : diskBar[b] = disk[b]
  <2>1. Live => AllHome
    BY DEF Run, ZeroMagic, ZeroCommitted, ZeroCount, ZeroEntry, StoreMagic,
       ClientInv, Protocol, Phases, IInv, Zeroing, Live, M16_JOURNAL_MAGIC
  <2>2. QED
    BY <2>1 DEF diskBar, AllHome
<1>3. diskBar' = diskBar
  BY <1>1, <1>2 DEF diskBar
<1>4. ~Open' \/ entry_count' = 0
  BY DEF ZeroMagic, ZeroCommitted, ZeroCount, ZeroEntry, StoreMagic,
     ClientInv, IInv, Zeroing, Open, M16_JOURNAL_MAGIC
<1>5. pendingBar' = Atomic!Nothing
  BY <1>4, AfterNone DEF pendingBar, Atomic!Nothing
<1>6. QED
  BY SMTT(30), <1>3, <1>5 DEF Atomic!Drop

LEMMA AtomicStep ==
  ClientInv /\ [ClientNext]_clientVars => [Atomic!Next]_<<diskBar, pendingBar>>
<1> SUFFICES ASSUME ClientInv, [ClientNext]_clientVars
             PROVE  Atomic!Next \/ UNCHANGED <<diskBar, pendingBar>>
  OBVIOUS
<1>1. CASE Check \/ Format \/ Recover \/ Abort \/ Apply \/ Empty \/ PowerFails
  BY SMTT(30), <1>1, QuietCallers, InvisibleStep DEF journal
<1>2. CASE Fill \/ (Run /\ AppendCopy)
  <2>1. /\ UNCHANGED <<magic, committed, entry_count, disk>>
        /\ \A k \in Counted : entries'[k] = entries[k]
    BY <1>2, JournalAssumption DEF Fill, m16_journal_append, Full, AppendCopy, ClientInv, IInv,
       TypeOK, Counted, Slots, journal
  <2>2. QED
    BY Zenon, <2>1, InvisibleStep
<1>3. CASE Commit
  BY <1>3, CommitIsCommit DEF Atomic!Next
<1>4. CASE Run /\ AppendCount
  BY <1>4, CountIsWrite DEF Atomic!Next
<1>5. CASE Run /\ (ReplayEntry \/ ReplayCopy)
  BY <1>5, ReplayIsInvisible
<1>6. CASE Run /\ (ZeroMagic \/ ZeroCommitted \/ ZeroCount \/ ZeroEntry \/ StoreMagic)
  BY <1>6, ClearIsDrop DEF Atomic!Next
<1>7. CASE UNCHANGED clientVars
  BY <1>7, InvisibleStep DEF clientVars, vars
<1>8. QED
  BY <1>1, <1>2, <1>3, <1>4, <1>5, <1>6, <1>7 DEF ClientNext, Run, CallStep

\* Transactions are atomic and durable: under the write-ahead protocol, for
\* every size of journal and disk and however often power fails in the middle
\* of m16_journal_append, _commit, _replay, _clear or _init, the contents that
\* recovery restores change only at commit, and by the whole transaction.
THEOREM JournalIsAtomic == ClientSpec => AtomicSpec
  BY AtomicInit, AtomicStep, ClientAlways, PTL DEF ClientSpec, AtomicSpec, Atomic!Spec

\* Under the same protocol no block is torn while a transaction is being
\* filled, nor when the journal has lost its magic number and fsck will have
\* it formatted.
THEOREM DiskWhole == ClientSpec => []WholeWithoutLog
<1>1. ClientInv => WholeWithoutLog
  <2> SUFFICES ASSUME ClientInv, phase = "fill" \/ magic # M16_JOURNAL_MAGIC
               PROVE  \A b \in Blocks : disk[b] \in Data
    BY DEF WholeWithoutLog
  <2>1. Live => AllHome
    BY DEF ClientInv, Protocol, Phases, IInv, TypeOK, Points, Zeroing, Live, Open,
       M16_JOURNAL_MAGIC
  <2>2. QED
    BY <2>1, HomeIsWhole DEF ClientInv
<1>2. QED
  BY <1>1, ClientAlways, PTL
=============================================================================
