---------------------------- MODULE DosPartitions ----------------------------
(***************************************************************************)
(* cfdisk on a disk with a DOS label (cfdisk_linux.go and                   *)
(* cfdisk_extended_linux.go).  Sector 0 holds the table of the primary      *)
(* partitions; one of them may be extended, and then a chain of boot        *)
(* records inside it holds one logical partition each, the first record at  *)
(* the first sector of the extended partition.  A session reads the table,  *)
(* edits it in memory, and on w writes the boot records one by one and the  *)
(* primary table after them.                                                *)
(*                                                                          *)
(* A sector holds a boot record or something without a signature; the data  *)
(* of the partitions and the boot code are left out.  Numbers typed at the  *)
(* prompts are any numbers of sectors: the defaults are among them.         *)
(***************************************************************************)
EXTENDS Integers, FiniteSets

CONSTANTS
    Sessions,       \* runs of cfdisk on this disk
    Locking,        \* the sessions started with --lock
    InitialDisks,   \* what is on the disk at first
    Sectors,        \* its size
    Slots,          \* how many primary partitions there can be (4)
    Align,          \* sectors in 1 MiB (2048)
    ChainLimit,     \* how many boot records a session reads (256)
    Kinds,          \* types of partitions other than extended
    Extended,       \* the extended type
    NoKind,         \* type 0, of an empty slot
    MaxEdits,       \* bound: changes made to tables, by all sessions
    MaxLosses       \* bound: how often the power goes

ASSUME SizeAssumption ==
    /\ {Sectors, Slots, Align, ChainLimit} \subseteq Nat \ {0}
    /\ {MaxEdits, MaxLosses} \subseteq Nat
ASSUME KindAssumption ==
    Kinds # {} /\ Extended \notin Kinds /\ NoKind \notin Kinds \cup {Extended}

VARIABLES
    disk,       \* the sectors as read(2) shows them
    durable,    \* the sectors as the medium holds them
    session,    \* the state of every cfdisk
    trouble,    \* what this machine meets: interruptions or power losses
    edits, losses

vars == <<disk, durable, session, trouble, edits, losses>>

LBA == 0 .. Sectors - 1
Slot == 1 .. Slots
Partition == [start : Nat, size : Nat, kind : Kinds \cup {Extended, NoKind}, boot : BOOLEAN]
NoPartition == [start |-> 0, size |-> 0, kind |-> NoKind, boot |-> FALSE]

\* A boot record: its partition, placed relative to the record, and the next
\* record's place in the extended partition, 0 in the last.
Record == [partition : Partition, link : Nat]
NoRecord == [partition |-> NoPartition, link |-> Sectors]   \* no signature

\* A logical partition in memory, with the sector of its record (cfdiskLogical).
Logical == [start : Nat, size : Nat, kind : Kinds \cup {Extended, NoKind}, boot : BOOLEAN,
            ebrLBA : Nat]

Least(S) == CHOOSE x \in S : \A y \in S : x <= y

Used(p) == {i \in Slot : p[i].size # 0}
End(p) == p.start + p.size

\* cfdiskFindExtended: the extended partitions, of which the first counts.
FindExtended(p) == {i \in Used(p) : p[i].kind = Extended}
Container(p) == p[Least(FindExtended(p))]

\* What a disk can hold.  An extended partition at sector 0, whose first boot
\* record would be the table itself, is left out.
IsDisk(d) ==
    /\ d = [l \in LBA |-> d[l]]
    /\ d[0] \in [Slot -> Partition]
    /\ \A l \in LBA \ {0} : d[l] \in Record
    /\ \A i \in FindExtended(d[0]) : d[0][i].start # 0

ASSUME DiskAssumption == \A d \in InitialDisks : IsDisk(d)

Overlap(a, b, c, d) == a < d /\ c < b

\* validateCfdiskPartitions
ValidPrimaries(p) ==
    /\ \A i \in Used(p) : p[i].start # 0 /\ p[i].kind # NoKind /\ End(p[i]) <= Sectors
    /\ \A i, j \in FindExtended(p) : i = j
    /\ \A i, j \in Used(p) :
          i # j => ~ Overlap(p[i].start, End(p[i]), p[j].start, End(p[j]))

\* Only the data of logical partitions kept apart.
ValidDataOnly(extended, logical) ==
    /\ \A l \in logical :
          /\ l.size # 0 /\ l.kind \in Kinds
          /\ l.ebrLBA >= extended.start /\ l.ebrLBA < l.start
          /\ End(l) <= End(extended)
    /\ \A l, m \in logical : l # m => ~ Overlap(l.start, End(l), m.start, End(m))

\* validateCfdiskLogicalPartitions
ValidLogical(extended, logical) ==
    /\ \A l \in logical :
          /\ l.size # 0 /\ l.kind \in Kinds
          /\ l.ebrLBA >= extended.start /\ l.ebrLBA < l.start
          /\ End(l) <= End(extended)
    /\ \A l, m \in logical : l # m => ~ Overlap(l.ebrLBA, End(l), m.ebrLBA, End(m))

Valid(p, logical) ==
    /\ ValidPrimaries(p)
    /\ FindExtended(p) # {} => ValidLogical(Container(p), logical)

\* cfdiskLogicalFreeRegions, as pairs of first sector and sector past the end.
FreeRegions(extended, logical) ==
    LET records == {l.ebrLBA : l \in logical}
        gap(from, later) == <<from, IF later = {} THEN End(extended) ELSE Least(later)>>
    IN  {r \in {gap(extended.start, records)}
                  \cup {gap(End(l), {e \in records : e > l.ebrLBA}) : l \in logical} :
            r[1] < r[2]}

\* The first aligned sector after a boot record.
Aligned(ebr) == ((ebr + Align) \div Align) * Align

\* cfdiskSuggestedLogicalRegion finds one.
HasRoom(extended, logical) ==
    \E r \in FreeRegions(extended, logical) : Aligned(r[1]) < r[2]

-----------------------------------------------------------------------------
(* What a disk says. *)

\* The sectors where a chain may have records, and where the record in one of
\* them says the next is.
Inside(extended) == {l \in LBA : l >= extended.start /\ l < End(extended)}
After(d, extended, ebr) ==
    IF d[ebr] = NoRecord \/ d[ebr].link = 0 THEN {} ELSE {extended.start + d[ebr].link}

\* The sectors that are read as records: the least set that has the first
\* sector of the extended partition and the one after each.
Walk(d, extended) ==
    {ebr \in Inside(extended) :
        \A W \in SUBSET Inside(extended) :
            /\ extended.start \in W
            /\ \A w \in W : After(d, extended, w) \cap Inside(extended) \subseteq W
            => ebr \in W}

\* The partition that a record describes.
Own(d, ebr) ==
    LET p == d[ebr].partition
    IN  [start |-> ebr + p.start, size |-> p.size, kind |-> p.kind, boot |-> p.boot,
         ebrLBA |-> ebr]
Describes(d, ebr) == d[ebr] # NoRecord /\ d[ebr].partition.size # 0

\* cfdiskReadLogicalChain: the partitions, in a set that is empty when the
\* chain cannot be read.
ReadChain(d, extended) ==
    LET walk == Walk(d, extended)
    IN  IF /\ extended.start \in Inside(extended)
           /\ Cardinality(walk) <= ChainLimit
           /\ \A ebr \in walk :
                 /\ \A next \in After(d, extended, ebr) : next \in Inside(extended) /\ next > ebr
                 /\ Describes(d, ebr) => End(Own(d, ebr)) <= End(extended)
        THEN {{Own(d, ebr) : ebr \in {e \in walk : Describes(d, e)}}}
        ELSE {}

\* newCfdiskSession: the table of a disk, in a set as above.
ReadTable(d) ==
    IF FindExtended(d[0]) = {} THEN {[parts |-> d[0], logical |-> {}]}
    ELSE {[parts |-> d[0], logical |-> l] : l \in ReadChain(d, Container(d[0]))}

\* The record of a logical partition: its start counted from the record, and
\* where the record of the partition after it is, counted from a sector.
RecordOf(l, start, link) ==
    [lba |-> l.ebrLBA,
     record |-> [partition |-> [start |-> start, size |-> l.size, kind |-> l.kind, boot |-> l.boot],
                 link |-> link]]
LinkFrom(sector, logical, l) ==
    LET later == {m \in logical : m.start > l.start}
    IN  IF later = {} THEN 0
        ELSE (CHOOSE m \in later : \A k \in later : m.start <= k.start).ebrLBA - sector

\* Places counted from the wrong sectors.
AbsoluteLinks(extended, logical) ==
    {RecordOf(l, l.start - l.ebrLBA, LinkFrom(0, logical, l)) : l \in logical}
NegativeStarts(extended, logical) ==
    {RecordOf(l, l.ebrLBA - l.start, LinkFrom(extended.start, logical, l)) : l \in logical}

\* cfdiskBuildEBRChain: the records to write.
BuildChain(extended, logical) ==
    {RecordOf(l, l.start - l.ebrLBA, LinkFrom(extended.start, logical, l)) : l \in logical}

-----------------------------------------------------------------------------
(* Sessions. *)

Steps == {"closed", "editing", "asked", "records", "recordsync", "table", "tablesync", "panic"}
Writing == {"records", "recordsync", "table", "tablesync"}
NoTable == [i \in Slot |-> NoPartition]

\* selected counts rows from 0, as the code does; base is what the disk said
\* when the session last read or wrote it, for stating properties only.
Closed ==
    [st |-> "closed", parts |-> NoTable, logical |-> {}, selected |-> 0, dirty |-> FALSE,
     sector |-> NoTable, base |-> {}, todo |-> {}]

Init ==
    /\ disk \in InitialDisks
    /\ durable = disk
    /\ session = [s \in Sessions |-> Closed]
    /\ trouble \in {"interruption", "power"}
    /\ edits = 0
    /\ losses = 0

In(s, st) == session[s].st = st
Becomes(s, m) == session' = [session EXCEPT ![s] = m]

\* The session has a new table in memory.
Changes(s, m) ==
    /\ edits < MaxEdits
    /\ edits' = edits + 1
    /\ Becomes(s, [m EXCEPT !.dirty = TRUE])
    /\ UNCHANGED <<disk, durable, trouble, losses>>

Locks(s) == s \in Locking => \A r \in Locking \ {s} : session[r].st \in {"closed", "panic"}

\* newCfdiskSession on a disk with a DOS label.
Open(s) ==
    /\ In(s, "closed")
    /\ Locks(s)
    /\ \E t \in ReadTable(disk) :
          Becomes(s, [Closed EXCEPT !.st = "editing", !.parts = t.parts,
                                    !.logical = t.logical, !.sector = disk[0],
                                    !.base = ReadTable(disk)])
    /\ UNCHANGED <<disk, durable, trouble, edits, losses>>

\* --zero, and DOS chosen in the selector.
OpenEmpty(s) ==
    /\ In(s, "closed")
    /\ Locks(s)
    /\ Changes(s, [Closed EXCEPT !.st = "editing", !.sector = disk[0],
                                 !.base = ReadTable(disk)])

\* partitionRows: the primary slots, then the logical partitions and the row
\* of the free space, if there is an extended partition.
Rows(m) ==
    IF FindExtended(m.parts) = {} THEN Slots
    ELSE Slots + Cardinality(m.logical)
               + (IF HasRoom(Container(m.parts), m.logical) THEN 1 ELSE 0)

\* selectedRow: the selection, or the last row when the table has shrunk.
Row(m) == IF m.selected >= Rows(m) THEN Rows(m) - 1 ELSE m.selected
OnPrimary(m) == Row(m) < Slots
OnLogical(m) == Row(m) >= Slots /\ Row(m) < Slots + Cardinality(m.logical)

\* The logical partition in the selected row: they are in the order of their
\* starts, or of their records if a disk has two with one start.
Before(l, m) == l.start < m.start \/ (l.start = m.start /\ l.ebrLBA < m.ebrLBA)
Picked(m) ==
    {l \in m.logical : Row(m) = Slots + Cardinality({k \in m.logical : Before(k, l)})}

\* The operations on primary rows index the slots with the selection itself.
Chosen(m) == m.selected + 1
HasChosen(m) == OnPrimary(m) /\ Chosen(m) \in Used(m.parts)

Move(s) ==
    /\ In(s, "editing")
    /\ LET m == session[s]
       IN \/ m.selected > 0 /\ Becomes(s, [m EXCEPT !.selected = @ - 1])
          \/ m.selected + 1 < Rows(m) /\ Becomes(s, [m EXCEPT !.selected = @ + 1])
    /\ UNCHANGED <<disk, durable, trouble, edits, losses>>

\* n, d, r, t or b with the selection past the slots: index out of range.
Panic(s) ==
    /\ In(s, "editing")
    /\ OnPrimary(session[s]) /\ Chosen(session[s]) > Slots
    /\ Becomes(s, [Closed EXCEPT !.st = "panic"])
    /\ UNCHANGED <<disk, durable, trouble, edits, losses>>

-----------------------------------------------------------------------------
(* Edits. *)

\* The type of a new partition (0x83).
NewKind == CHOOSE k \in Kinds : TRUE

\* The slot n fills: the selected one, else the first empty one.
Vacant(m) ==
    IF Chosen(m) \notin Used(m.parts) THEN {Chosen(m)}
    ELSE {i \in Slot \ Used(m.parts) : \A j \in Slot \ Used(m.parts) : i <= j}

NewPrimary(s) ==
    /\ In(s, "editing")
    /\ LET m == session[s]
       IN /\ OnPrimary(m) /\ Chosen(m) <= Slots
           /\ \E slot \in Vacant(m), start, size \in 1 .. Sectors :
                LET proposed == [m.parts EXCEPT ![slot] = [start |-> start, size |-> size,
                                                           kind |-> NewKind, boot |-> FALSE]]
                IN  /\ ValidPrimaries(proposed)
                    /\ Changes(s, [m EXCEPT !.parts = proposed, !.selected = slot - 1])

\* The record goes to the front of the gap the start falls into
\* (cfdiskLogicalBootRecordFor).
NewLogical(s) ==
    /\ In(s, "editing")
    /\ LET m == session[s]
           extended == Container(m.parts)
       IN /\ ~ OnPrimary(m)
           /\ HasRoom(extended, m.logical)
           /\ \E r \in FreeRegions(extended, m.logical), size \in 1 .. Sectors :
              \E start \in r[1] + 1 .. r[2] - 1 :
                LET l == [start |-> start, size |-> size, kind |-> NewKind,
                          boot |-> FALSE, ebrLBA |-> r[1]]
                    before == {x \in m.logical : x.start < start}
                IN  /\ ValidLogical(extended, m.logical \cup {l})
                    /\ Changes(s, [m EXCEPT !.logical = @ \cup {l},
                                            !.selected = Slots + Cardinality(before)])

\* d on a primary partition; an extended one takes its logical ones along.
DeletePrimary(s) ==
    /\ In(s, "editing")
    /\ LET m == session[s]
       IN /\ HasChosen(m)
           /\ Changes(s, [m EXCEPT
                 !.parts = [@ EXCEPT ![Chosen(m)] = NoPartition],
                 !.logical = IF m.parts[Chosen(m)].kind = Extended THEN {} ELSE @])

DeleteLogical(s) ==
    /\ In(s, "editing")
    /\ LET m == session[s]
       IN \E l \in Picked(m) : Changes(s, [m EXCEPT !.logical = @ \ {l}])

\* The logical partitions forgotten when their container shrinks.
ResizeUnchecked(s) ==
    /\ In(s, "editing")
    /\ LET m == session[s]
       IN /\ HasChosen(m)
          /\ \E size \in 1 .. Sectors \ {m.parts[Chosen(m)].size} :
                LET proposed == [m.parts EXCEPT ![Chosen(m)].size = size]
                IN  /\ ValidPrimaries(proposed)
                    /\ Changes(s, [m EXCEPT !.parts = proposed])

ResizePrimary(s) ==
    /\ In(s, "editing")
    /\ LET m == session[s]
       IN /\ HasChosen(m)
           /\ \E size \in 1 .. Sectors \ {m.parts[Chosen(m)].size} :
                LET proposed == [m.parts EXCEPT ![Chosen(m)].size = size]
                IN  /\ ValidPrimaries(proposed)
                    /\ proposed[Chosen(m)].kind = Extended
                         => ValidLogical(proposed[Chosen(m)], m.logical)
                    /\ Changes(s, [m EXCEPT !.parts = proposed])

ResizeLogical(s) ==
    /\ In(s, "editing")
    /\ LET m == session[s]
       IN \E l \in Picked(m), size \in 1 .. Sectors :
             LET proposed == (m.logical \ {l}) \cup {[l EXCEPT !.size = size]}
             IN  /\ ValidLogical(Container(m.parts), proposed)
                 /\ Changes(s, [m EXCEPT !.logical = proposed])

\* t: a second extended partition is refused, and so is taking the type away
\* from the one there is while it holds logical partitions.
ChangeType(s) ==
    /\ In(s, "editing")
    /\ LET m == session[s]
       IN /\ HasChosen(m)
           /\ \E kind \in Kinds \cup {Extended} :
                LET was == m.parts[Chosen(m)].kind
                IN  /\ kind = Extended /\ was # Extended => FindExtended(m.parts) = {}
                    /\ was = Extended /\ kind # Extended => m.logical = {}
                    /\ Changes(s, [m EXCEPT !.parts = [@ EXCEPT ![Chosen(m)].kind = kind]])

ChangeLogicalType(s) ==
    /\ In(s, "editing")
    /\ LET m == session[s]
       IN \E l \in Picked(m), kind \in Kinds :
             Changes(s, [m EXCEPT !.logical = (@ \ {l}) \cup {[l EXCEPT !.kind = kind]}])

ToggleBootable(s) ==
    /\ In(s, "editing")
    /\ LET m == session[s]
           toggled == [m.parts EXCEPT ![Chosen(m)].boot = ~ @]
       IN \/ HasChosen(m) /\ Changes(s, [m EXCEPT !.parts = toggled])
          \/ \E l \in Picked(m) :
                Changes(s, [m EXCEPT !.logical = (@ \ {l}) \cup {[l EXCEPT !.boot = ~ @]}])

\* cfdiskSortedPartitions: the slot a partition goes to, with equal starts in
\* the order they had, and the slots with each in its place.
Place(p, i) ==
    1 + Cardinality({j \in Used(p) : p[j].start < p[i].start \/ (p[j].start = p[i].start /\ j < i)})
Sorted(p) ==
    [i \in Slot |-> IF \E j \in Used(p) : Place(p, j) = i
                     THEN p[CHOOSE j \in Used(p) : Place(p, j) = i] ELSE NoPartition]

\* s: the primary slots in the order of their starts; the selection follows
\* its partition.
Sort(s) ==
    /\ In(s, "editing")
    /\ LET m == session[s]
           sorted == Sorted(m.parts)
       IN /\ sorted # m.parts
           /\ Changes(s, [m EXCEPT
                 !.parts = sorted,
                 !.selected = IF @ >= Slots THEN @
                              ELSE IF Chosen(m) \notin Used(m.parts) THEN 0
                              ELSE Least({i \in Slot : sorted[i] = m.parts[Chosen(m)]}) - 1])

Edit(s) ==
    \/ NewPrimary(s) \/ NewLogical(s)
    \/ DeletePrimary(s) \/ DeleteLogical(s)
    \/ ResizePrimary(s) \/ ResizeLogical(s)
    \/ ChangeType(s) \/ ChangeLogicalType(s)
    \/ ToggleBootable(s) \/ Sort(s)

-----------------------------------------------------------------------------
(* w and q. *)

\* verifyWriteTarget: sector 0 is what it was.
Verified(s) == disk[0] = session[s].sector

StepTo(s, from, to) == In(s, from) /\ Becomes(s, [session[s] EXCEPT !.st = to])

\* The first check, then the question.
Ask(s) ==
    /\ session[s].dirty
    /\ Valid(session[s].parts, session[s].logical)
    /\ Verified(s)
    /\ StepTo(s, "editing", "asked")
    /\ UNCHANGED <<disk, durable, trouble, edits, losses>>

\* The answer is not yes, or the check fails this time.
Cancel(s) ==
    /\ StepTo(s, "asked", "editing")
    /\ UNCHANGED <<disk, durable, trouble, edits, losses>>

\* The second check; without logical partitions no boot record is written.
Confirm(s) ==
    /\ In(s, "asked")
    /\ Verified(s)
    /\ LET m == session[s]
           writes == IF FindExtended(m.parts) = {} THEN {}
                     ELSE BuildChain(Container(m.parts), m.logical)
       IN  Becomes(s, [m EXCEPT !.todo = writes,
                                !.st = IF writes = {} THEN "table" ELSE "records"])
    /\ UNCHANGED <<disk, durable, trouble, edits, losses>>

\* writeCfdiskEBRChain, a record at a time, in the order of the partitions,
\* which is the order of their records as none overlap.
WriteRecord(s) ==
    /\ In(s, "records")
    /\ LET m == session[s]
           w == CHOOSE v \in m.todo : \A u \in m.todo : v.lba <= u.lba
       IN /\ disk' = [disk EXCEPT ![w.lba] = w.record]
           /\ Becomes(s, [m EXCEPT !.todo = @ \ {w},
                                   !.st = IF m.todo = {w} THEN "recordsync" ELSE @])
    /\ UNCHANGED <<durable, trouble, edits, losses>>

\* The table written without waiting for the records.
NoSync(s) ==
    /\ StepTo(s, "recordsync", "table")
    /\ UNCHANGED <<disk, durable, trouble, edits, losses>>

SyncRecords(s) ==
    /\ StepTo(s, "recordsync", "table")
    /\ durable' = disk
    /\ UNCHANGED <<disk, trouble, edits, losses>>

\* writeCfdiskMBR
WriteTable(s) ==
    /\ StepTo(s, "table", "tablesync")
    /\ disk' = [disk EXCEPT ![0] = session[s].parts]
    /\ UNCHANGED <<durable, trouble, edits, losses>>

SyncTable(s) ==
    /\ In(s, "tablesync")
    /\ durable' = disk
    /\ LET m == session[s]
       IN  Becomes(s, [m EXCEPT !.st = "editing", !.sector = m.parts, !.dirty = FALSE,
                                !.base = {[parts |-> m.parts, logical |-> m.logical]}])
    /\ UNCHANGED <<disk, trouble, edits, losses>>

Quit(s) ==
    /\ In(s, "editing")
    /\ Becomes(s, Closed)
    /\ UNCHANGED <<disk, durable, trouble, edits, losses>>

\* A write or a sync fails: the session goes on with what it had.
Fail(s) ==
    /\ trouble = "interruption"
    /\ session[s].st \in Writing
    /\ Becomes(s, [session[s] EXCEPT !.st = "editing", !.todo = {}])
    /\ UNCHANGED <<disk, durable, trouble, edits, losses>>

\* SIGKILL, or the terminal goes away; the lock goes with the process.
Kill(s) ==
    /\ trouble = "interruption"
    /\ session[s].st \notin {"closed", "panic"}
    /\ Becomes(s, Closed)
    /\ UNCHANGED <<disk, durable, trouble, edits, losses>>

\* Of what was not synced, any part is lost.
PowerLoss ==
    /\ trouble = "power"
    /\ losses < MaxLosses
    /\ losses' = losses + 1
    /\ \E lost \in SUBSET {l \in LBA : disk[l] # durable[l]} :
          disk' = [l \in LBA |-> IF l \in lost THEN durable[l] ELSE disk[l]]
    /\ durable' = disk'
    /\ session' = [s \in Sessions |-> Closed]
    /\ UNCHANGED <<trouble, edits>>

Next ==
    \/ \E s \in Sessions :
          \/ Open(s) \/ OpenEmpty(s) \/ Move(s) \/ Panic(s) \/ Edit(s) \/ Quit(s)
          \/ Ask(s) \/ Cancel(s) \/ Confirm(s)
          \/ WriteRecord(s) \/ SyncRecords(s) \/ WriteTable(s) \/ SyncTable(s)
          \/ Fail(s) \/ Kill(s)
    \/ PowerLoss

Spec == Init /\ [][Next]_vars

-----------------------------------------------------------------------------
(* Properties. *)

\* Tables have the fields of tables, and a session that has records to write
\* is writing them.
TypeOK ==
    /\ IsDisk(disk) /\ IsDisk(durable)
    /\ \A s \in Sessions :
          LET m == session[s]
          IN  /\ m.st \in Steps
              /\ m.parts \in [Slot -> Partition] /\ m.sector \in [Slot -> Partition]
              /\ \A l \in m.logical : l \in Logical
              /\ m.selected \in Nat /\ m.dirty \in BOOLEAN
              /\ m.todo # {} => m.st = "records"
    /\ edits \in 0 .. MaxEdits /\ losses \in 0 .. MaxLosses

\* A table without an extended partition has no logical ones.
Sound(m) ==
    /\ Valid(m.parts, m.logical)
    /\ FindExtended(m.parts) = {} => m.logical = {}

\* No sequence of new, delete, resize, sort and type leads from a table
\* without overlaps to one that overlaps, leaves the disk, or leaves logical
\* partitions outside their container: every operation checks what it needs.
EditsKeepSound ==
    [][\A s \in Sessions :
         In(s, "editing") /\ Sound(session[s]) /\ session'[s].st # "closed"
            => Sound(session[s]')]_vars

\* The data of the table's partitions.
DataOf(m, l) ==
    \/ \E i \in Used(m.parts) \ FindExtended(m.parts) :
          l >= m.parts[i].start /\ l < End(m.parts[i])
    \/ \E p \in m.logical : l >= p.start /\ l < End(p)

\* Writing a table, boot records included, leaves the sectors of every
\* partition in it alone.
DataUntouched ==
    [][\A s \in Sessions :
         session[s].st \in Writing /\ session'[s].st # "closed"
            => \A l \in LBA : disk'[l] # disk[l] => l = 0 \/ ~ DataOf(session[s], l)]_vars

\* The chain is found from the first sector of the extended partition: only
\* if the first logical partition has its record there can it be found, and
\* only if there are no more than can be read.
Linked(m) ==
    FindExtended(m.parts) # {} =>
        /\ \E l \in m.logical : l.ebrLBA = Container(m.parts).start
        /\ Cardinality(m.logical) <= ChainLimit

ReadsAs(m) == ReadTable(disk) = {[parts |-> m.parts, logical |-> m.logical]}

\* "confirmed write read back correctly" (COVERAGE.md): a session without
\* unsaved changes shows what the next one will read from the disk ...
CleanReadsBack ==
    \A s \in Sessions : In(s, "editing") /\ ~ session[s].dirty => ReadsAs(session[s])

\* ... which holds of the tables whose chain starts where it is looked for.
LinkedReadsBack ==
    \A s \in Sessions :
        In(s, "editing") /\ ~ session[s].dirty /\ Linked(session[s]) => ReadsAs(session[s])

OldOrNew(s) == ReadTable(disk) = session[s].base \/ ReadsAs(session[s])

\* "if a crash interrupts the write, the extended partition's own entry never
\* points at a chain that wasn't fully committed" (cfdisk_linux.go:1057): at
\* every step of a write, and after a loss of power, the disk reads as the old
\* table or as the new one, if there was no extended partition before.  The
\* records of a chain that is on the disk already are overwritten in place.
FirstChainCommitted ==
    [][\A s \in Sessions :
         /\ session[s].st \in Writing
         /\ Linked(session[s])
         /\ FindExtended(session[s].sector) = {}
         => OldOrNew(s) /\ (ReadTable(disk') = session[s].base
                             \/ ReadTable(disk') = {[parts |-> session[s].parts,
                                                     logical |-> session[s].logical]})]_vars
=============================================================================
