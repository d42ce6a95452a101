--------------------------- MODULE JournalClient ---------------------------
(***************************************************************************)
(* The journal under the write-ahead protocol its callers follow: fill,    *)
(* commit, replay, clear (tests/m16/m16_host_test.c runs it once), and     *)
(* after a crash fsck, replay, clear, or a format when fsck reports a      *)
(* corrupt journal.                                                        *)
(***************************************************************************)
EXTENDS Journal

CONSTANTS
  MaxCrashes,   \* how often power fails
  NoWrite       \* no entry for this block

ASSUME ClientAssumption ==
  /\ MaxCrashes \in Nat
  /\ Targets \subseteq Blocks
  /\ NoWrite \notin Content

VARIABLES
  phase,    \* what the caller does when the call in progress returns
  crashes   \* power failures so far

clientVars == <<vars, phase, crashes>>

Phases == {"boot", "mount", "fill", "committed", "applied"}

ClientInit == Init /\ phase = "boot" /\ crashes = 0

\* Recovery starts by checking the journal ...
Check ==
  /\ phase = "boot" /\ m16_journal_fsck
  /\ phase' = "mount" /\ crashes' = crashes

\* ... formats one without its magic number ...
Format ==
  /\ phase = "mount" /\ ret = "ECORRUPT" /\ m16_journal_init
  /\ phase' = "fill" /\ crashes' = crashes

\* ... and replays any other.
Recover ==
  /\ phase = "mount" /\ ret = "OK" /\ m16_journal_replay
  /\ phase' = "applied" /\ crashes' = crashes

Fill ==
  /\ phase = "fill"
  /\ \E t \in Targets, d \in Data : m16_journal_append(t, d)
  /\ UNCHANGED <<phase, crashes>>

Commit ==
  /\ phase = "fill" /\ m16_journal_commit
  /\ phase' = "committed" /\ crashes' = crashes

\* The caller gives up an open transaction.
Abort ==
  /\ phase = "fill" /\ entry_count > 0 /\ m16_journal_clear
  /\ UNCHANGED <<phase, crashes>>

Apply ==
  /\ phase = "committed" /\ m16_journal_replay
  /\ phase' = "applied" /\ crashes' = crashes

\* Only a replay that succeeded is followed by a clear.
Empty ==
  /\ phase = "applied" /\ ret = "OK" /\ m16_journal_clear
  /\ phase' = "fill" /\ crashes' = crashes

Run == CallStep /\ UNCHANGED <<phase, crashes>>

PowerFails ==
  /\ crashes < MaxCrashes
  /\ Crash
  /\ phase' = "boot" /\ crashes' = crashes + 1

ClientNext ==
  \/ Check \/ Format \/ Recover
  \/ Fill \/ Commit \/ Abort \/ Apply \/ Empty
  \/ Run
  \/ PowerFails

ClientSpec == ClientInit /\ [][ClientNext]_clientVars

\* A call runs to its end, and recovery and the completion of a committed
\* transaction go on as long as there is power.  Whether the caller fills,
\* commits or aborts is up to it.
FairClientSpec ==
  ClientSpec /\ WF_clientVars(Run \/ Check \/ Format \/ Recover \/ Apply \/ Empty)
-----------------------------------------------------------------------------
(* The disk that recovery would produce, and the open transaction.         *)

Live == magic = M16_JOURNAL_MAGIC /\ committed = 1
Open == magic = M16_JOURNAL_MAGIC /\ committed = 0

diskBar == [b \in Blocks |->
              IF Live THEN After(entries, entry_count, b, disk[b]) ELSE disk[b]]

pendingBar == [b \in Blocks |->
                 IF Open THEN After(entries, entry_count, b, NoWrite) ELSE NoWrite]

Atomic == INSTANCE AtomicDisk WITH
            Block <- Blocks, Value <- Data,
            disk <- diskBar, pending <- pendingBar

\* Transactions are atomic and durable whatever step of append, commit, replay
\* or clear the power fails in: commit is the one step at which the contents
\* that recovery restores change, and they change by the whole transaction.
AtomicSpec == Atomic!Spec

\* No block is torn while the caller fills a transaction: recovery repaired
\* what an interrupted replay left.  Nor is one when the magic number was lost
\* (a crash inside init or clear): formatting the journal after fsck reported
\* ECORRUPT loses no committed write.
WholeWithoutLog ==
  phase = "fill" \/ magic # M16_JOURNAL_MAGIC => \A b \in Blocks : disk[b] \in Data

\* Once power stays on, recovery gets back to a mounted journal.
RecoveryCompletes == (phase = "boot") ~> (phase = "fill" /\ pc = "idle")

\* A commit record that survives is carried through: the transaction is copied
\* home and the journal emptied.
CommittedLands ==
  Live ~> (committed = 0 /\ \A b \in Blocks : disk[b] \in Data)
=============================================================================
