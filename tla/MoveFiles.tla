------------------------------ MODULE MoveFiles ------------------------------
(***************************************************************************)
(* mv of mv.go, one system call at a time, with the backups of backup.go   *)
(* and the copy of cp.go it falls back to when source and target are on    *)
(* different devices.  Several mv processes share the file system; a copy  *)
(* may fail (unreadable source, full device) and a process may be killed.  *)
(*                                                                         *)
(* A name is the path of an operand.  What it names is absent, a file, or  *)
(* a directory of files.  Hard links, symbolic links and attributes are    *)
(* left out: mv of them takes the same steps.                              *)
(***************************************************************************)
EXTENDS Integers, FiniteSets

CONSTANTS
  Proc,      \* mv processes
  Name,      \* paths of sources and targets
  Child,     \* names of files in a directory
  Data,      \* contents of files, one of its own for each file at the start
  Device,    \* Device[n]: the device n is on; its backups are on the same
  Commands,  \* Commands[p]: the operands and options p may be run with
  Initial,   \* the file system at the start
  Partial,   \* what an unfinished copy holds
  Absent,    \* nothing there
  MaxBackup, \* bound: number of the last numbered backup
  MaxRuns,   \* bound: commands run by each process
  MaxFail,   \* bound: failed copies
  MaxKill    \* bound: killed processes

(* The backups of n are <<n, 0>>, n followed by the suffix, and <<n, k>>,  *)
(* "n.~k~".                                                                *)
Path == Name \cup (Name \X (0 .. MaxBackup))
(* A file that p has open for writing holds p until the copy ends. *)
Content == Data \cup Proc \cup {Partial}
File == [kind : {"file"}, data : Content]
Directory == [kind : {"dir"}, files : [Child -> Content \cup {Absent}]]
Entry == File \cup Directory \cup {Absent}

Command == [source : Name, target : Name, force : BOOLEAN, noClobber : BOOLEAN,
            interactive : BOOLEAN, update : BOOLEAN,
            backup : {"none", "simple", "numbered", "existing"}]

IsDir(e) == e # Absent /\ e.kind = "dir"
IsFile(e) == e # Absent /\ e.kind = "file"
ChildrenOf(e) == IF IsDir(e) THEN {c \in Child : e.files[c] # Absent} ELSE {}
Contents(e) ==
  IF IsDir(e) THEN {e.files[c] : c \in ChildrenOf(e)}
  ELSE IF IsFile(e) THEN {e.data} ELSE {}

Self == "self"  \* the operand, when it is a file

ASSUME FileSystemAssumption ==
  /\ Initial \in [Path -> Entry]
  /\ UNION {Contents(Initial[x]) : x \in Path} = Data
  /\ Name \cap (Name \X (0 .. MaxBackup)) = {} /\ Self \notin Child
  /\ Absent \notin File \cup Directory \cup Content
  /\ Partial \notin Data \cup Proc /\ Data \cap Proc = {}
ASSUME CommandAssumption ==
  /\ Commands \in [Proc -> SUBSET Command]
  /\ \A p \in Proc : \A o \in Commands[p] :
       /\ o.source # o.target
       /\ o.noClobber => ~o.force /\ ~o.interactive
       /\ o.force => ~o.interactive

(* What mv relies on and cannot see, between its look at a name and the    *)
(* use it makes of it: no other process moves something to a name that is  *)
(* being copied from, or to a target that -n or a backup is to spare; and  *)
(* if several processes copy, nobody moves on what another one writes.     *)
(* Commands that are not Separate can lose files.                          *)
Copies(o) == Device[o.source] # Device[o.target]
Separate ==
  \A p, q \in Proc : p # q =>
    \A o \in Commands[p], r \in Commands[q] :
      /\ Copies(o) => r.target # o.source
      /\ o.noClobber \/ o.backup # "none" => r.target # o.target
      /\ Copies(o) /\ r.source = o.target =>
           \A s \in Proc \ {p} : \A i \in Commands[s] : ~Copies(i)
ASSUME BoundAssumption ==
  MaxBackup \in Nat /\ MaxRuns \in Nat /\ MaxFail \in Nat /\ MaxKill \in Nat

VARIABLES
  entry,     \* what each path names
  job,       \* what each process does
  runs, fails, kills, \* bounds
  replaced,  \* contents replaced by a command that was told it may
  reported   \* contents whose copy failed with a message

vars == <<entry, job, runs, fails, kills, replaced, reported>>

(* sourceDir, targetSeen, targetDir: what the stats found; aside: the name *)
(* of the backup; moved: the target went there; existed: moveFile found a  *)
(* target; left: the files still to be copied; copying, reading: the one   *)
(* being copied, and its content; status: c.status of the copier.          *)
Places == {"source", "target", "backup", "aside", "lstat", "rename", "replace",
           "retry", "unlink", "copy", "open", "reopen", "write", "remove"}
Idle == [at |-> "idle"]

Present == UNION {Contents(entry[x]) : x \in Path}

-----------------------------------------------------------------------------
(* System calls. *)

(* rename(2) replaces a file by a file and an empty directory by a         *)
(* directory, in one step.                                                 *)
RenameError(src, dst) ==
  IF Device[IF src \in Name THEN src ELSE src[1]]
       # Device[IF dst \in Name THEN dst ELSE dst[1]] THEN "EXDEV"
  ELSE IF entry[src] = Absent THEN "ENOENT"
  ELSE IF entry[dst] = Absent THEN "ok"
  ELSE IF IsDir(entry[dst]) /\ ~IsDir(entry[src]) THEN "EISDIR"
  ELSE IF ~IsDir(entry[dst]) /\ IsDir(entry[src]) THEN "ENOTDIR"
  ELSE IF ChildrenOf(entry[dst]) # {} THEN "ENOTEMPTY" ELSE "ok"
Renamed(src, dst) == [entry EXCEPT ![dst] = entry[src], ![src] = Absent]

(* os.Remove takes files and empty directories. *)
Removable(x) == entry[x] # Absent /\ ChildrenOf(entry[x]) = {}

Numbered(n) == {k \in 1 .. MaxBackup : entry[<<n, k>>] # Absent}
FirstBackup(n) == {<<n, 1>>}
NextBackup(n) ==
  LET next == {k \in 1 .. MaxBackup : \/ Numbered(n) = {} /\ k = 1
                                      \/ k - 1 \in Numbered(n) /\ \A l \in Numbered(n) : l < k}
  IN {<<n, k>> : k \in next}
BackupNames(n, method) ==
  IF method = "numbered" \/ (method = "existing" /\ Numbered(n) # {})
  THEN NextBackup(n) ELSE {<<n, 0>>}

-----------------------------------------------------------------------------
(* moveOne. *)

Source(p) == job[p].cmd.source
Target(p) == job[p].cmd.target
Goto(p, place) == job' = [job EXCEPT ![p].at = place]
Done(p) == job' = [job EXCEPT ![p] = Idle]
Bounds == <<runs, fails, kills>>

(* A copy that is replaced while it is written is one of what it copies.   *)
Whole(contents) == contents \cup {job[q].reading : q \in contents \cap Proc}

(* Contents p destroys count as replaced if it was told it may. *)
Replaced(p, contents) ==
  replaced' = IF job[p].cmd.noClobber \/ job[p].cmd.backup # "none" THEN replaced
              ELSE replaced \cup Whole(contents)

Begin(p) ==
  /\ job[p].at = "idle" /\ runs[p] > 0 /\ runs' = [runs EXCEPT ![p] = @ - 1]
  /\ \E o \in Commands[p] :
       job' = [job EXCEPT ![p] =
         [at |-> "source", cmd |-> o, sourceDir |-> FALSE, targetDir |-> FALSE,
          targetSeen |-> FALSE, aside |-> <<o.target, 0>>, moved |-> FALSE,
          existed |-> FALSE, left |-> {}, copying |-> Self,
          reading |-> Partial, status |-> 0]]
  /\ UNCHANGED <<entry, fails, kills, replaced, reported>>

StatSource(p) ==
  /\ job[p].at = "source"
  /\ IF entry[Source(p)] = Absent THEN Done(p)
     ELSE job' = [job EXCEPT ![p].at = "target",
                             ![p].sourceDir = IsDir(entry[Source(p)])]
  /\ UNCHANGED <<entry, Bounds, replaced, reported>>

(* -n, a target at least as new with -u, or an answer to -i, end it here. *)
StatTarget(p) ==
  LET o == job[p].cmd IN
  /\ job[p].at = "target"
  /\ IF entry[o.target] = Absent THEN Goto(p, "lstat")
     ELSE \/ (o.noClobber \/ o.update \/ o.interactive) /\ Done(p)
          \/ /\ ~o.noClobber
             /\ job' = [job EXCEPT ![p].at = "backup", ![p].targetSeen = TRUE,
                                   ![p].targetDir = IsDir(entry[o.target])]
  /\ UNCHANGED <<entry, Bounds, replaced, reported>>

(* makeBackup chooses a name; without a backup a directory and a file do   *)
(* not replace one another.                                                *)
ChooseBackup(p) ==
  LET o == job[p].cmd IN
  /\ job[p].at = "backup"
  /\ IF o.backup # "none" /\ entry[o.target] # Absent
     THEN \E aside \in BackupNames(o.target, o.backup) :
            job' = [job EXCEPT ![p].at = "aside", ![p].aside = aside]
     ELSE IF job[p].targetSeen /\ job[p].targetDir # job[p].sourceDir
          THEN Done(p) ELSE Goto(p, "lstat")
  /\ UNCHANGED <<entry, Bounds, replaced, reported>>

(* A simple backup replaces the one before it. *)
MoveAside(p) ==
  LET aside == job[p].aside IN
  /\ job[p].at = "aside"
  /\ IF RenameError(Target(p), aside) = "ok"
     THEN /\ entry' = Renamed(Target(p), aside)
          /\ job' = [job EXCEPT ![p].at = "lstat", ![p].moved = TRUE]
          /\ replaced' = IF aside[2] = 0 THEN replaced \cup Whole(Contents(entry[aside]))
                         ELSE replaced
     ELSE Done(p) /\ UNCHANGED <<entry, replaced>>
  /\ UNCHANGED <<Bounds, reported>>

-----------------------------------------------------------------------------
(* moveFile. *)

MayReplace(j) == j.cmd.force \/ j.cmd.interactive \/ j.moved

LstatTarget(p) ==
  /\ job[p].at = "lstat"
  /\ job' = [job EXCEPT ![p].at = "rename", ![p].existed = entry[Target(p)] # Absent]
  /\ UNCHANGED <<entry, Bounds, replaced, reported>>

RemoveFirst(p) ==
  /\ job[p].at = "rename" /\ Goto(p, IF job[p].existed THEN "unlink" ELSE "copy")
  /\ UNCHANGED <<entry, Bounds, replaced, reported>>

RenameRefused(p) ==
  IF MayReplace(job[p]) /\ job[p].existed THEN Goto(p, "replace") ELSE Done(p)

RenameSource(p) ==
  LET error == RenameError(Source(p), Target(p)) IN
  /\ job[p].at = "rename"
  /\ \/ /\ error = "ok" /\ Done(p) /\ Replaced(p, Contents(entry[Target(p)]))
        /\ entry' = Renamed(Source(p), Target(p))
     \/ /\ error = "EXDEV" /\ Goto(p, IF job[p].existed THEN "unlink" ELSE "copy")
        /\ UNCHANGED <<entry, replaced>>
     \/ /\ error \notin {"ok", "EXDEV"} /\ RenameRefused(p)
        /\ UNCHANGED <<entry, replaced>>
  /\ UNCHANGED <<Bounds, reported>>

(* A sticky or read-only directory, a mount point in use. *)
RenameFails(p) ==
  /\ job[p].at = "rename" /\ fails > 0 /\ fails' = fails - 1
  /\ Device[Source(p)] = Device[Target(p)] /\ RenameRefused(p)
  /\ UNCHANGED <<entry, runs, kills, replaced, reported>>

(* os.Remove(dst), with -f before another rename and across devices before *)
(* the copy.                                                               *)
RemoveTarget(p, from, to) ==
  /\ job[p].at = from
  /\ IF Removable(Target(p))
     THEN /\ entry' = [entry EXCEPT ![Target(p)] = Absent]
          /\ Replaced(p, Contents(entry[Target(p)])) /\ Goto(p, to)
     ELSE Done(p) /\ UNCHANGED <<entry, replaced>>
  /\ UNCHANGED <<Bounds, reported>>

RetryRename(p) ==
  /\ job[p].at = "retry" /\ Done(p)
  /\ IF RenameError(Source(p), Target(p)) = "ok"
     THEN entry' = Renamed(Source(p), Target(p)) /\ Replaced(p, Contents(entry[Target(p)]))
     ELSE UNCHANGED <<entry, replaced>>
  /\ UNCHANGED <<Bounds, reported>>

-----------------------------------------------------------------------------
(* copier.copyPath, then os.RemoveAll of the source. *)

Made(n) == [entry EXCEPT ![n] = [kind |-> "dir", files |-> [c \in Child |-> Absent]]]

StartCopy(p) ==
  LET from == entry[Source(p)]
      to == entry[Target(p)] IN
  /\ job[p].at = "copy"
  /\ IF from = Absent \/ (IsDir(from) /\ IsFile(to)) THEN Done(p) /\ UNCHANGED entry
     ELSE /\ job' = [job EXCEPT ![p].at = "open", ![p].left =
                       IF IsDir(from) THEN ChildrenOf(from) ELSE {Self}]
          /\ entry' = IF IsDir(from) /\ to = Absent THEN Made(Target(p)) ELSE entry
  /\ UNCHANGED <<Bounds, replaced, reported>>

(* The directory itself cannot be made, listed or, after its files, given  *)
(* its attributes: copyPath returns the error and the source stays.        *)
DirectoryFails(p) ==
  /\ job[p].at = "copy" \/ (job[p].at = "open" /\ job[p].left = {})
  /\ fails > 0 /\ fails' = fails - 1 /\ IsDir(entry[Source(p)]) /\ Done(p)
  /\ \/ entry' = entry
     \/ job[p].at = "copy" /\ entry[Target(p)] = Absent /\ entry' = Made(Target(p))
  /\ UNCHANGED <<runs, kills, replaced, reported>>

(* What the copier reads and writes for one file. *)
Read(p, c) ==
  LET e == entry[Source(p)] IN
  IF c = Self THEN IF IsFile(e) THEN e.data ELSE Absent
  ELSE IF IsDir(e) THEN e.files[c] ELSE Absent
Writable(p, c) ==
  IF c = Self THEN entry[Target(p)] = Absent \/ Removable(Target(p))
  ELSE IsDir(entry[Target(p)])
Opened(p, c) ==
  [entry EXCEPT ![Target(p)] =
     IF c = Self THEN [kind |-> "file", data |-> p] ELSE [@ EXCEPT !.files[c] = p]]
Overwritten(p, c) ==
  IF c = Self THEN Contents(entry[Target(p)])
  ELSE {entry[Target(p)].files[c]} \ {Absent}
Unlinkable(p, c) ==
  IF c = Self THEN Removable(Target(p)) ELSE Writable(p, c) /\ Overwritten(p, c) # {}
Unlinked(p, c) ==
  IF c = Self THEN [entry EXCEPT ![Target(p)] = Absent]
  ELSE [entry EXCEPT ![Target(p)].files[c] = Absent]

(* The file p had open now holds d, wherever it has been moved to since.   *)
Ends(p, d) ==
  LET With(x) == IF x = p THEN d ELSE x
  IN [x \in Path |-> IF IsDir(entry[x])
                     THEN [entry[x] EXCEPT !.files = [c \in Child |-> With(@[c])]]
                     ELSE IF IsFile(entry[x]) THEN [entry[x] EXCEPT !.data = With(@)]
                     ELSE Absent]

(* A file inside a directory that cannot be copied is reported, and the    *)
(* copy goes on; an operand that cannot be copied ends the command.        *)
Skipped(p, c) ==
  /\ IF c = Self THEN Done(p)
     ELSE job' = [job EXCEPT ![p].at = "open", ![p].status = 1,
                             ![p].left = @ \ {c}, ![p].reading = Partial]
  /\ reported' = reported \cup ({Read(p, c), job[p].reading} \cap Data)

OpenFile(p) ==
  /\ job[p].at = "open"
  /\ \E c \in job[p].left :
       IF Read(p, c) # Absent /\ Writable(p, c)
       THEN /\ entry' = Opened(p, c)
            /\ job' = [job EXCEPT ![p].at = "write", ![p].copying = c, ![p].reading =
                         IF Read(p, c) \in Data THEN Read(p, c) ELSE Partial]
            /\ Replaced(p, Overwritten(p, c))
            /\ UNCHANGED reported
       ELSE Skipped(p, c) /\ UNCHANGED <<entry, replaced>>
  /\ UNCHANGED Bounds

OpenFileFails(p) ==
  /\ job[p].at = "open" /\ fails > 0 /\ fails' = fails - 1
  /\ \E c \in job[p].left : Skipped(p, c)
  /\ UNCHANGED <<entry, runs, kills, replaced>>

(* copyFile under force, as mv calls it: what cannot be opened is removed, *)
(* and opened once more.                                                   *)
UnlinkUnopened(p) ==
  /\ job[p].at = "open"
  /\ \E c \in job[p].left :
       /\ Read(p, c) # Absent /\ Unlinkable(p, c) /\ entry' = Unlinked(p, c)
       /\ job' = [job EXCEPT ![p].at = "reopen", ![p].copying = c, ![p].reading =
                    IF Read(p, c) \in Data THEN Read(p, c) ELSE Partial]
       /\ Replaced(p, Overwritten(p, c))
  /\ UNCHANGED <<Bounds, reported>>

OpenAgain(p) ==
  LET c == job[p].copying IN
  /\ job[p].at = "reopen"
  /\ IF Writable(p, c)
     THEN /\ entry' = Opened(p, c) /\ Goto(p, "write")
          /\ Replaced(p, Overwritten(p, c))
          /\ UNCHANGED reported
     ELSE Skipped(p, c) /\ UNCHANGED <<entry, replaced>>
  /\ UNCHANGED Bounds

OpenAgainFails(p) ==
  /\ job[p].at = "reopen" /\ fails > 0 /\ fails' = fails - 1
  /\ Skipped(p, job[p].copying)
  /\ UNCHANGED <<entry, runs, kills, replaced>>

CopyContents(p) ==
  /\ job[p].at = "write"
  /\ entry' = Ends(p, job[p].reading)
  /\ job' = [job EXCEPT ![p].at = "open", ![p].left = @ \ {job[p].copying},
                        ![p].reading = Partial]
  /\ UNCHANGED <<Bounds, replaced, reported>>

CopyErrorDropped(p) ==
  /\ job[p].at = "write" /\ fails > 0 /\ fails' = fails - 1
  /\ entry' = Ends(p, Partial)
  /\ job' = [job EXCEPT ![p].at = "open", ![p].left = @ \ {job[p].copying},
                        ![p].reading = Partial]
  /\ UNCHANGED <<runs, kills, replaced, reported>>

TargetNotClosed(p) ==
  /\ job[p].at = "write" /\ fails > 0 /\ fails' = fails - 1
  /\ Skipped(p, job[p].copying)
  /\ UNCHANGED <<entry, runs, kills, replaced>>

CopyContentsFails(p) ==
  /\ job[p].at = "write" /\ fails > 0 /\ fails' = fails - 1
  /\ \E d \in {Partial, job[p].reading} : entry' = Ends(p, d)
  /\ Skipped(p, job[p].copying)
  /\ UNCHANGED <<runs, kills, replaced>>

(* The copier returned no error: the source goes, file by file. *)
CopyDone(p) ==
  /\ job[p].at = "open" /\ job[p].left = {} /\ Goto(p, "remove")
  /\ UNCHANGED <<entry, Bounds, replaced, reported>>

RemoveSource(p) ==
  LET e == entry[Source(p)] IN
  /\ job[p].at = "remove"
  /\ IF ChildrenOf(e) # {}
     THEN /\ \E c \in ChildrenOf(e) :
               entry' = [entry EXCEPT ![Source(p)].files[c] = Absent]
          /\ UNCHANGED job
     ELSE entry' = [entry EXCEPT ![Source(p)] = Absent] /\ Done(p)
  /\ UNCHANGED <<Bounds, replaced, reported>>

RemoveSourceFails(p) ==
  /\ job[p].at = "remove" /\ fails > 0 /\ fails' = fails - 1 /\ Done(p)
  /\ UNCHANGED <<entry, runs, kills, replaced, reported>>

Kill(p) ==
  /\ job[p].at # "idle" /\ kills > 0 /\ kills' = kills - 1
  /\ entry' = Ends(p, Partial) /\ Done(p)
  /\ UNCHANGED <<runs, fails, replaced, reported>>

-----------------------------------------------------------------------------
Init ==
  /\ entry = Initial /\ job = [p \in Proc |-> Idle]
  /\ runs = [p \in Proc |-> MaxRuns] /\ fails = MaxFail /\ kills = MaxKill
  /\ replaced = {} /\ reported = {}

Next ==
  \E p \in Proc :
    \/ Begin(p) \/ StatSource(p) \/ StatTarget(p) \/ ChooseBackup(p) \/ MoveAside(p)
    \/ LstatTarget(p) \/ RenameSource(p) \/ RenameFails(p) \/ RetryRename(p)
    \/ RemoveTarget(p, "replace", "retry") \/ RemoveTarget(p, "unlink", "copy")
    \/ StartCopy(p) \/ DirectoryFails(p) \/ OpenFile(p) \/ OpenFileFails(p)
    \/ UnlinkUnopened(p) \/ OpenAgain(p) \/ OpenAgainFails(p)
    \/ CopyContents(p) \/ CopyContentsFails(p) \/ CopyDone(p)
    \/ RemoveSource(p) \/ RemoveSourceFails(p) \/ Kill(p)

Spec == Init /\ [][Next]_vars

-----------------------------------------------------------------------------
(* Properties. *)

Job == [at : Places, cmd : Command, sourceDir : BOOLEAN, targetSeen : BOOLEAN,
        targetDir : BOOLEAN, aside : Path, moved : BOOLEAN, existed : BOOLEAN,
        left : SUBSET (Child \cup {Self}), copying : Child \cup {Self},
        reading : Data \cup {Partial}, status : {0, 1}]

(* The shape of the state; a file is open only while its copier writes.    *)
TypeOK ==
  /\ entry \in [Path -> Entry] /\ job \in [Proc -> Job \cup {Idle}]
  /\ runs \in [Proc -> Nat] /\ fails \in Nat /\ kills \in Nat
  /\ replaced \subseteq Content /\ reported \subseteq Data
  /\ \A p \in Proc : p \in Present => job[p].at = "write"

(* No file disappears: at every moment, and so after a kill, each content  *)
(* is whole at some path, unless a command was told it may replace it or   *)
(* its copy was reported to have failed.                                   *)
NothingLost == Data \ (replaced \cup reported) \subseteq Present

(* The same without the excuse of a message: a source goes only once all   *)
(* of it is at the target (what a successful mv says).                     *)
NothingLostAtAll == Data \ replaced \subseteq Present

(* Without -f and -i a file that mv replaces on one device is there at     *)
(* every moment: nobody finds the target missing.                          *)
ReplacedWhole ==
  [][\A p \in Proc :
       /\ job[p].at \in Places \ {"aside"} /\ job'[p] # job[p]
       /\ Device[Source(p)] = Device[Target(p)] /\ IsFile(entry[Target(p)])
       /\ ~job[p].cmd.force /\ ~job[p].cmd.interactive /\ ~job[p].moved
       => entry'[Target(p)] # Absent]_vars
=============================================================================
