------------------------------- MODULE GptDisk -------------------------------
(***************************************************************************)
(* How cfdisk puts a GPT on a disk (cfdisk_gpt_linux.go).  The table is     *)
(* kept twice, a header with its entries at the front of the disk and       *)
(* another at the end, behind a protective MBR.  A session reads the five   *)
(* areas, edits the table in memory, checks twice that the areas are what   *)
(* it read, and writes them one by one.  Between any two of those steps     *)
(* the process may be killed and a write may fail, or the power may go and  *)
(* leave only what was synced or happened to be written back.               *)
(*                                                                          *)
(* A table is a value; what its partitions are is the editor's concern      *)
(* (DosPartitions has the edits in detail, the GPT ones are like them).     *)
(* A header stands for the table its checksum covers.                       *)
(***************************************************************************)
EXTENDS Naturals

CONSTANTS
    GptSessions,    \* runs of cfdisk on this disk
    Tables,         \* valid partition tables
    Junk,           \* what an area holds that is no table, or half of one
    GptLocking,     \* the sessions started with --lock
    MaxOutages      \* bound: how often the power goes

ASSUME JunkAssumption == Junk \notin Tables
ASSUME GptLockingAssumption == GptLocking \subseteq GptSessions
ASSUME OutagesAssumption == MaxOutages \in Nat

VARIABLES
    shown,      \* the five areas as read(2) shows them
    medium,     \* the five areas as the medium holds them
    pc,         \* what each session is about to do
    table,      \* s.gpt
    original,   \* s.gptOriginal, the areas the session read or wrote last
    dirty,      \* the sessions with s.dirty set
    fresh,      \* the sessions whose table replaces what the disk holds
    threat,     \* what this machine meets: interruptions or power losses
    outages

gptVars == <<shown, medium, pc, table, original, dirty, fresh, threat, outages>>

Areas == {"mbr", "head1", "ent1", "ent2", "head2"}
Entries == {"ent1", "ent2"}
Held == Tables \cup {Junk}
Labels == {"dos", "gpt"}
Disks ==
    {d \in [Areas -> Held \cup Labels] :
        d["mbr"] \in Labels /\ \A a \in Areas \ {"mbr"} : d[a] \in Held}

PrimarySteps == {"ent1", "head1", "mbr", "sync2"}
BackupSteps == {"ent2", "head2", "sync1"}
WritingGpt == PrimarySteps \cup BackupSteps

\* cfdiskParseGPTHeader: a copy counts when its header covers its entries.
Primary(d) == d["head1"] \in Tables /\ d["ent1"] = d["head1"]
Backup(d) == d["head2"] \in Tables /\ d["ent2"] = d["head2"]
SomeCopy(d) == Primary(d) \/ Backup(d)

\* cfdiskGPTTableFromRawState: both copies, and the same table in both.
Readable(d) ==
    /\ d["mbr"] = "gpt"
    /\ Primary(d)
    /\ Backup(d)
    /\ d["head1"] = d["head2"]

\* cfdiskBuildGPT
Built(t) == [a \in Areas |-> IF a = "mbr" THEN "gpt" ELSE t]

\* A disk with a DOS label and no GPT; also a closed session's areas.
Blank == [a \in Areas |-> IF a = "mbr" THEN "dos" ELSE Junk]

GptInit ==
    /\ shown \in {Built(t) : t \in Tables}
                  \cup {Blank}
    /\ medium = shown
    /\ pc = [s \in GptSessions |-> "closed"]
    /\ table = [s \in GptSessions |-> Junk]
    /\ original = [s \in GptSessions |-> Blank]
    /\ dirty = {}
    /\ fresh = {}
    /\ threat \in {"interruption", "power"}
    /\ outages = 0

Goto(s, step) == pc' = [pc EXCEPT ![s] = step]

\* The process is gone, and with it what it knew and its lock.
Leave(s) ==
    /\ Goto(s, "closed")
    /\ table' = [table EXCEPT ![s] = Junk]
    /\ original' = [original EXCEPT ![s] = Blank]
    /\ dirty' = dirty \ {s}
    /\ fresh' = fresh \ {s}

-----------------------------------------------------------------------------
(* A session opens the disk and edits the table. *)

\* flock(LOCK_EX), taken before anything is read.
LocksGpt(s) == s \in GptLocking => \A r \in GptLocking \ {s} : pc[r] = "closed"

\* newCfdiskSession on a disk with a protective MBR.
OpenGpt(s) ==
    /\ pc[s] = "closed"
    /\ LocksGpt(s)
    /\ Readable(shown)
    /\ Goto(s, "editing")
    /\ table' = [table EXCEPT ![s] = shown["head1"]]
    /\ original' = [original EXCEPT ![s] = shown]
    /\ dirty' = dirty \ {s}
    /\ fresh' = fresh \ {s}
    /\ UNCHANGED <<shown, medium, threat, outages>>

\* --zero, or a disk without a label, and GPT chosen in the selector
\* (cfdiskNewGPT): whatever the areas hold is what the write will replace.
OpenEmptyGpt(s) ==
    /\ pc[s] = "closed"
    /\ LocksGpt(s)
    /\ Goto(s, "editing")
    /\ \E t \in Tables : table' = [table EXCEPT ![s] = t]
    /\ original' = [original EXCEPT ![s] = shown]
    /\ dirty' = dirty \cup {s}
    /\ fresh' = fresh \cup {s}
    /\ UNCHANGED <<shown, medium, threat, outages>>

\* n, d, r, s or t: the table in memory becomes another valid one.
EditGpt(s) ==
    /\ pc[s] = "editing"
    /\ \E t \in Tables : table' = [table EXCEPT ![s] = t]
    /\ dirty' = dirty \cup {s}
    /\ UNCHANGED <<shown, medium, pc, original, fresh, threat, outages>>

\* q, with the unsaved changes discarded.
QuitGpt(s) ==
    /\ pc[s] = "editing"
    /\ Leave(s)
    /\ UNCHANGED <<shown, medium, threat, outages>>

-----------------------------------------------------------------------------
(* w: the table is written. *)

\* verifyGPTWriteTarget
Unchanged(s) == shown = original[s]

\* The first check, then the question.
AskGpt(s) ==
    /\ pc[s] = "editing"
    /\ s \in dirty
    /\ Unchanged(s)
    /\ Goto(s, "asked")
    /\ UNCHANGED <<shown, medium, table, original, dirty, fresh, threat,
                   outages>>

\* The answer is not yes, or the disk changed while the question stood.
CancelGpt(s) ==
    /\ pc[s] = "asked"
    /\ Goto(s, "editing")
    /\ UNCHANGED <<shown, medium, table, original, dirty, fresh, threat,
                   outages>>

\* The protective MBR before the copies.
ProtectsFirst(s) ==
    /\ pc[s] = "asked"
    /\ Unchanged(s)
    /\ shown' = [shown EXCEPT !["mbr"] = "gpt"]
    /\ Goto(s, "ent2")
    /\ UNCHANGED <<medium, table, original, dirty, fresh, threat, outages>>

\* The second check, and the write begins.
ConfirmGpt(s) ==
    /\ pc[s] = "asked"
    /\ Unchanged(s)
    /\ Goto(s, "ent2")
    /\ UNCHANGED <<shown, medium, table, original, dirty, fresh, threat,
                   outages>>

Put(s, area, value, next) ==
    /\ pc[s] = area
    /\ shown' = [shown EXCEPT ![area] = value]
    /\ Goto(s, next)
    /\ UNCHANGED <<medium, table, original, dirty, fresh, threat, outages>>

\* Both arrays, then the primary header.
ArraysFirst(s) == Put(s, "ent2", table[s], "ent1")
\* The primary header is not rewritten.
SkipsHeader(s) == Put(s, "ent1", table[s], "mbr")

WriteBackupEntries(s) == Put(s, "ent2", table[s], "head2")
WriteBackupHeader(s) == Put(s, "head2", table[s], "sync1")
WritePrimaryEntries(s) == Put(s, "ent1", table[s], "head1")
WritePrimaryHeader(s) == Put(s, "head1", table[s], "mbr")
WriteProtectiveMBR(s) == Put(s, "mbr", "gpt", "sync2")

\* No sync between the copies.
NoSyncGpt(s) ==
    /\ pc[s] = "sync1"
    /\ Goto(s, "ent1")
    /\ UNCHANGED <<shown, medium, table, original, dirty, fresh, threat,
                   outages>>

\* file.Sync() after the backup copy.
SyncBackup(s) ==
    /\ pc[s] = "sync1"
    /\ medium' = shown
    /\ Goto(s, "ent1")
    /\ UNCHANGED <<shown, table, original, dirty, fresh, threat, outages>>

\* file.Sync() after the rest; the session now holds what the disk holds.
SyncAll(s) ==
    /\ pc[s] = "sync2"
    /\ medium' = shown
    /\ Goto(s, "editing")
    /\ original' = [original EXCEPT ![s] = Built(table[s])]
    /\ dirty' = dirty \ {s}
    /\ fresh' = fresh \ {s}
    /\ UNCHANGED <<shown, table, threat, outages>>

-----------------------------------------------------------------------------
(* What goes wrong: of the two kinds of trouble a machine meets one. *)

\* An area in the middle of being written: old, new, or half of each when it
\* is more than one sector.
Partly(s) ==
    IF pc[s] \in Entries
    THEN {shown[pc[s]], table[s], Junk}
    ELSE IF pc[s] \in {"head1", "head2"}
    THEN {shown[pc[s]], table[s]}
    ELSE {shown["mbr"], "gpt"}

CutShort(s) ==
    /\ threat = "interruption"
    /\ \/ UNCHANGED shown
       \/ /\ pc[s] \in Areas
          /\ \E v \in Partly(s) : shown' = [shown EXCEPT ![pc[s]] = v]

\* A write or a sync fails: the session says so and goes on with the table,
\* and the areas, it had.
FailGpt(s) ==
    /\ pc[s] \in WritingGpt
    /\ CutShort(s)
    /\ Goto(s, "editing")
    /\ UNCHANGED <<medium, table, original, dirty, fresh, threat, outages>>

\* SIGKILL, or the terminal goes away.
KillGpt(s) ==
    /\ pc[s] # "closed"
    /\ CutShort(s)
    /\ Leave(s)
    /\ UNCHANGED <<medium, threat, outages>>

\* The kernel writes an area back of its own accord.
Writeback(a) ==
    \* nothing but a power loss can tell the difference
    /\ threat = "power" /\ outages < MaxOutages
    /\ medium' = [medium EXCEPT ![a] = shown[a]]
    /\ UNCHANGED <<shown, pc, table, original, dirty, fresh, threat, outages>>

\* The power goes; entries on their way to the medium may be cut in half.
GptPowerLoss ==
    /\ threat = "power"
    /\ outages < MaxOutages
    /\ outages' = outages + 1
    /\ UNCHANGED threat
    /\ \E cut \in SUBSET {a \in Entries : shown[a] # medium[a]} :
          shown' = [a \in Areas |-> IF a \in cut THEN Junk ELSE medium[a]]
    /\ medium' = shown'
    /\ pc' = [s \in GptSessions |-> "closed"]
    /\ table' = [s \in GptSessions |-> Junk]
    /\ original' = [s \in GptSessions |-> Blank]
    /\ dirty' = {}
    /\ fresh' = {}

GptNext ==
    \/ \E s \in GptSessions :
          \/ OpenGpt(s) \/ OpenEmptyGpt(s) \/ EditGpt(s) \/ QuitGpt(s)
          \/ AskGpt(s) \/ CancelGpt(s) \/ ConfirmGpt(s)
          \/ WriteBackupEntries(s) \/ WriteBackupHeader(s) \/ SyncBackup(s)
          \/ WritePrimaryEntries(s) \/ WritePrimaryHeader(s)
          \/ WriteProtectiveMBR(s) \/ SyncAll(s)
          \/ FailGpt(s) \/ KillGpt(s)
    \/ \E a \in Areas : Writeback(a)
    \/ GptPowerLoss

GptSpec == GptInit /\ [][GptNext]_gptVars

-----------------------------------------------------------------------------
(* Properties. *)

\* Every area holds something an area can hold, and every session is at a
\* step of the editor or of writeCfdiskGPT.
GptTypeOK ==
    /\ shown \in Disks
    /\ medium \in Disks
    /\ pc \in [GptSessions -> {"closed", "editing", "asked"} \cup WritingGpt]
    /\ table \in [GptSessions -> Held]
    /\ original \in [GptSessions -> Disks]
    /\ dirty \subseteq GptSessions
    /\ fresh \subseteq GptSessions
    /\ threat \in {"interruption", "power"}
    /\ outages \in Nat

\* A session that was told to start with an empty table is replacing the
\* backup copy of whatever was there.
Discarding == \E s \in fresh : pc[s] \in BackupSteps

\* "During replacement of the primary array, the newly complete backup remains
\* a valid recovery source" (writeCfdiskGPT), and while the backup is replaced
\* the primary does: wherever the write stops, one whole copy is left, unless
\* the user had asked for an empty table.
KeepsCopy == [][SomeCopy(shown) => SomeCopy(shown') \/ Discarding]_gptVars

\* The protective MBR, written last, never announces a table that is not there.
LabelAfterTable ==
    [][shown["mbr"] = "dos" /\ shown'["mbr"] = "gpt" => SomeCopy(shown')]_gptVars

\* A session that shows no unsaved changes shows what the next one will read.
CleanIsOnDisk ==
    \A s \in GptSessions :
        pc[s] \in {"editing", "asked"} /\ s \notin dirty
            => Readable(shown) /\ shown["head1"] = table[s]

==============================================================================
