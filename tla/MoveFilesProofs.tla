--------------------------- MODULE MoveFilesProofs ---------------------------
(* What MoveFiles promises of any number of mv processes, file systems and  *)
(* commands: types, and that a replaced name stays, whatever the commands   *)
(* are; that nothing is lost, if they are Separate.                         *)
(*                                                                          *)
(* A copy ends by removing its source, so what it has copied is doomed      *)
(* where it was.  Every content that nobody may replace is, at every        *)
(* moment, at a place where it is not (Safe); for that, what is being       *)
(* copied must itself be at rest (Clean, OpenAtTarget), and a command that  *)
(* spares its target must find nothing there (JobOK).                       *)
EXTENDS MoveFiles, TLAPS

Part == Child \cup {Self}
At(e, k) ==
  IF k = Self THEN IF IsFile(e) THEN e.data ELSE Absent
  ELSE IF IsDir(e) THEN e.files[k] ELSE Absent

Copying == {"open", "reopen", "write", "remove"}
Doomed(x, k) ==
  \E q \in Proc : job[q].at \in Copying /\ Source(q) = x /\ k \notin job[q].left
Safe(d) == \E x \in Path, k \in Part : At(entry[x], k) = d /\ ~ Doomed(x, k)
Kept == \A d \in Data : d \notin replaced \cup reported => Safe(d)

(* A file that is open is where its process put it, once others copy too.   *)
OthersCopy(p) == \E q \in Proc \ {p} : \E i \in Commands[q] : Copies(i)
OpenAtTarget ==
  \A p \in Proc, x \in Name, k \in Part :
    At(entry[x], k) = p /\ OthersCopy(p) => x = Target(p)

Clean(p) == job[p].at \in Copying => \A k \in Part : At(entry[Source(p)], k) \notin Proc

Spares(o) == o.noClobber \/ o.backup # "none"
Beyond == {"unlink", "copy"} \cup Copying
(* What a process knows of its own command, whatever the others do ...      *)
JobShape(p) ==
  LET j == job[p] IN
  j.at # "idle" =>
    /\ j.cmd \in Commands[p]
    /\ j.at \in Beyond => Copies(j.cmd)
    /\ j.at \in {"replace", "retry"} => MayReplace(j)
    /\ j.at = "aside" => j.aside \in {j.cmd.target} \X (0 .. MaxBackup)
Shape == TypeOK /\ \A p \in Proc : JobShape(p)

(* ... and what it knows of the file system, if the others keep apart.      *)
JobOK(p) ==
  LET j == job[p] IN
  /\ JobShape(p)
  /\ j.at # "idle" =>
    /\ j.at \in {"open", "reopen", "write"} /\ Self \in j.left => j.left = {Self}
    /\ j.at = "remove" => j.left = {}
    /\ j.at \in {"reopen", "write"} =>
         j.copying \in j.left /\ Read(p, j.copying) \in {j.reading, Absent}
    /\ j.at = "write" =>
         j.reading \in replaced \cup {Partial} \/ \E x \in Path, k \in Part : At(entry[x], k) = p
    /\ j.at = "aside" =>
         /\ j.aside[2] # 0 => entry[j.aside] = Absent
         /\ j.cmd.backup # "none"
    /\ Spares(j.cmd) =>
         /\ j.at \notin {"replace", "retry", "unlink"}
         /\ j.cmd.noClobber => j.at \notin {"backup", "aside"}
         /\ j.at \in {"lstat", "rename", "copy"} => entry[Target(p)] = Absent
         /\ j.at = "rename" => ~ j.existed
         /\ j.at \in {"open", "reopen"} => \A k \in j.left : At(entry[Target(p)], k) = Absent
         /\ j.at = "write" => \A k \in j.left \ {j.copying} : At(entry[Target(p)], k) = Absent

USE DEF JobShape

IInv == TypeOK /\ Kept /\ OpenAtTarget /\ \A p \in Proc : Clean(p) /\ JobOK(p)

-----------------------------------------------------------------------------
(* What is where. *)

LEMMA JobTyped ==
  ASSUME TypeOK, NEW p \in Proc, job[p].at # "idle"
  PROVE  /\ job[p] \in Job /\ job[p].cmd \in Command
         /\ Source(p) \in Name /\ Target(p) \in Name /\ Source(p) \in Path /\ Target(p) \in Path
BY DEF TypeOK, Job, Idle, Command, Source, Target, Path

LEMMA KindOfEntry ==
  ASSUME NEW e \in Entry
  PROVE  /\ e = Absent \/ IsFile(e) \/ IsDir(e)
         /\ IsFile(e) => e \in File /\ e.data \in Content /\ ~ IsDir(e) /\ e # Absent
         /\ IsDir(e) => e \in Directory /\ e.files \in [Child -> Content \cup {Absent}] /\ ~ IsFile(e) /\ e # Absent
BY FileSystemAssumption DEF Entry, File, Directory, IsFile, IsDir

LEMMA ContentsAreParts ==
  ASSUME NEW e \in Entry
  PROVE  /\ \A d : d \in Contents(e) <=> d # Absent /\ \E k \in Part : At(e, k) = d
         /\ \A k \in Part : At(e, k) \in Content \cup {Absent}
         /\ ChildrenOf(e) \subseteq Child
<1>1. CASE IsFile(e)
  BY <1>1, KindOfEntry, FileSystemAssumption DEF Contents, At, Part, ChildrenOf
<1>2. CASE IsDir(e)
  BY <1>2, KindOfEntry, FileSystemAssumption DEF Contents, At, Part, ChildrenOf
<1>3. CASE ~ IsFile(e) /\ ~ IsDir(e)
  BY <1>3, KindOfEntry DEF Contents, At, Part, ChildrenOf
<1> QED
  BY <1>1, <1>2, <1>3

LEMMA PresentParts ==
  ASSUME entry \in [Path -> Entry], NEW d
  PROVE  d \in Present <=> d # Absent /\ \E x \in Path, k \in Part : At(entry[x], k) = d
BY ContentsAreParts DEF Present

(* What each kind of step does to the file system, part by part.            *)
LEMMA RenamedParts ==
  ASSUME entry \in [Path -> Entry], NEW src \in Path, NEW dst \in Path, src # dst
  PROVE  /\ Renamed(src, dst) \in [Path -> Entry]
         /\ \A x \in Path, k \in Part :
              At(Renamed(src, dst)[x], k) = IF x = dst THEN At(entry[src], k)
                                           ELSE IF x = src THEN Absent ELSE At(entry[x], k)
BY FileSystemAssumption DEF Renamed, At, Entry, IsDir, IsFile

LEMMA RemovedParts ==
  ASSUME entry \in [Path -> Entry], NEW y \in Path
  PROVE  /\ [entry EXCEPT ![y] = Absent] \in [Path -> Entry]
         /\ \A x \in Path, k \in Part :
              At([entry EXCEPT ![y] = Absent][x], k) = IF x = y THEN Absent ELSE At(entry[x], k)
BY FileSystemAssumption DEF At, Entry, IsDir, IsFile

LEMMA ChildRemovedParts ==
  ASSUME entry \in [Path -> Entry], NEW y \in Path, NEW c \in ChildrenOf(entry[y]), NEW after,
         after = [entry EXCEPT ![y].files[c] = Absent]
  PROVE  /\ after \in [Path -> Entry]
         /\ \A x \in Path, k \in Part :
              At(after[x], k) = IF x = y /\ k = c THEN Absent ELSE At(entry[x], k)
<1> DEFINE e == [entry[y] EXCEPT !.files[c] = Absent]
<1>1. IsDir(entry[y]) /\ c \in Child
  BY DEF ChildrenOf
<1>2. entry[y] \in Directory /\ entry[y].files \in [Child -> Content \cup {Absent}]
  BY <1>1, KindOfEntry
<1>3. e \in Directory /\ IsDir(e) /\ e.files = [entry[y].files EXCEPT ![c] = Absent]
  BY <1>1, <1>2, FileSystemAssumption DEF Directory, IsDir
<1>4. after = [entry EXCEPT ![y] = e]
  OBVIOUS
<1>5. \A k \in Part : At(e, k) = IF k = c THEN Absent ELSE At(entry[y], k)
  BY <1>1, <1>2, <1>3, KindOfEntry, FileSystemAssumption DEF At, Part, IsFile, IsDir
<1> HIDE DEF e
<1> QED
  BY <1>3, <1>4, <1>5 DEF Entry

LEMMA OpenedParts ==
  ASSUME TypeOK, NEW p \in Proc, job[p].at # "idle", NEW c \in Part, Writable(p, c)
  PROVE  /\ Opened(p, c) \in [Path -> Entry]
         /\ \A x \in Path, k \in Part :
              At(Opened(p, c)[x], k) =
                IF x = Target(p) /\ k = c THEN p
                ELSE IF x = Target(p) /\ c = Self THEN Absent ELSE At(entry[x], k)
<1>1. entry \in [Path -> Entry] /\ Target(p) \in Path
  BY JobTyped DEF TypeOK
<1>2. CASE c = Self
  <2> DEFINE e == [kind |-> "file", data |-> p]
  <2>1. e \in File /\ IsFile(e) /\ ~ IsDir(e) /\ e.data = p
    BY FileSystemAssumption DEF File, Content, IsFile, IsDir
  <2>2. Opened(p, c) = [entry EXCEPT ![Target(p)] = e]
    BY <1>2 DEF Opened
  <2> HIDE DEF e
  <2> QED
    BY <1>1, <1>2, <2>1, <2>2 DEF At, Entry, Part
<1>3. CASE c # Self
  <2> DEFINE e == [entry[Target(p)] EXCEPT !.files[c] = p]
  <2>1. IsDir(entry[Target(p)]) /\ c \in Child
    BY <1>3 DEF Writable, Part
  <2>2. entry[Target(p)] \in Directory /\ entry[Target(p)].files \in [Child -> Content \cup {Absent}]
    BY <1>1, <2>1, KindOfEntry
  <2>3. e \in Directory /\ IsDir(e) /\ ~ IsFile(e) /\ e.files = [entry[Target(p)].files EXCEPT ![c] = p]
    BY <2>1, <2>2, FileSystemAssumption DEF Directory, IsDir, IsFile, Content
  <2>4. Opened(p, c) = [entry EXCEPT ![Target(p)] = e]
    BY <1>3 DEF Opened
  <2>5. \A k \in Part : At(e, k) = IF k = c THEN p ELSE At(entry[Target(p)], k)
    BY <1>3, <2>1, <2>2, <2>3, <1>1, KindOfEntry, FileSystemAssumption DEF At, Part
  <2> HIDE DEF e
  <2> QED
    BY <1>1, <1>3, <2>3, <2>4, <2>5 DEF Entry
<1> QED
  BY <1>2, <1>3

LEMMA UnlinkedParts ==
  ASSUME TypeOK, NEW p \in Proc, job[p].at # "idle", NEW c \in Part, Unlinkable(p, c),
         Source(p) # Target(p), entry' = Unlinked(p, c)
  PROVE  /\ entry'[Source(p)] = entry[Source(p)]
         /\ \A k \in Part : At(entry[Target(p)], k) = Absent => At(entry'[Target(p)], k) = Absent
<1>1. entry \in [Path -> Entry] /\ Target(p) \in Path /\ Source(p) \in Path
  BY JobTyped DEF TypeOK
<1>2. CASE c = Self
  <2>1. entry' = [entry EXCEPT ![Target(p)] = Absent]
    BY <1>2 DEF Unlinked
  <2> QED
    BY <1>1, <2>1, RemovedParts
<1>3. CASE c # Self
  <2>1. entry' = [entry EXCEPT ![Target(p)].files[c] = Absent]
    BY <1>3 DEF Unlinked
  <2>2. c \in ChildrenOf(entry[Target(p)])
    BY <1>3 DEF Unlinkable, Writable, Overwritten, ChildrenOf, Part
  <2> QED
    BY <1>1, <2>1, <2>2, ChildRemovedParts
<1> QED
  BY <1>2, <1>3

LEMMA EndsParts ==
  ASSUME entry \in [Path -> Entry], NEW p \in Proc, NEW d \in Content
  PROVE  /\ Ends(p, d) \in [Path -> Entry]
         /\ \A x \in Path, k \in Part :
              At(Ends(p, d)[x], k) = IF At(entry[x], k) = p THEN d ELSE At(entry[x], k)
         /\ \A x \in Path : Ends(p, d)[x] = Absent <=> entry[x] = Absent
<1> SUFFICES ASSUME NEW x \in Path
             PROVE  /\ Ends(p, d)[x] \in Entry
                    /\ \A k \in Part : At(Ends(p, d)[x], k) = IF At(entry[x], k) = p THEN d ELSE At(entry[x], k)
                    /\ Ends(p, d)[x] = Absent <=> entry[x] = Absent
  BY DEF Ends
<1> DEFINE e == entry[x]
<1>1. CASE IsDir(e)
  <2> DEFINE f == [e EXCEPT !.files = [c \in Child |-> IF @[c] = p THEN d ELSE @[c]]]
  <2>1. Ends(p, d)[x] = f
    BY <1>1 DEF Ends
  <2>2. e \in Directory /\ e.files \in [Child -> Content \cup {Absent}] /\ ~ IsFile(e)
    BY <1>1, KindOfEntry
  <2>3. f \in Directory /\ f.files = [c \in Child |-> IF e.files[c] = p THEN d ELSE e.files[c]]
    BY <2>2 DEF Directory
  <2>4. IsDir(f) /\ ~ IsFile(f)
    BY <2>3, FileSystemAssumption DEF Directory, IsDir, IsFile
  <2> HIDE DEF f
  <2>5. Absent # p
    BY FileSystemAssumption DEF Content
  <2> QED
    BY <1>1, <2>1, <2>2, <2>3, <2>4, <2>5 DEF At, Part, Entry, IsDir
<1>2. CASE IsFile(e)
  <2> DEFINE f == [e EXCEPT !.data = IF @ = p THEN d ELSE @]
  <2>1. ~ IsDir(e) /\ e \in File
    BY <1>2, KindOfEntry
  <2>2. Ends(p, d)[x] = f
    BY <1>2, <2>1 DEF Ends
  <2>3. f \in File /\ f.data = (IF e.data = p THEN d ELSE e.data)
    BY <2>1 DEF File
  <2>4. IsFile(f) /\ ~ IsDir(f)
    BY <2>3, FileSystemAssumption DEF File, IsDir, IsFile
  <2> HIDE DEF f
  <2>5. Absent # p
    BY FileSystemAssumption DEF Content
  <2> QED
    BY <1>2, <2>1, <2>2, <2>3, <2>4, <2>5 DEF At, Part, Entry, IsFile
<1>3. CASE ~ IsDir(e) /\ ~ IsFile(e)
  <2>1. e = Absent /\ Ends(p, d)[x] = Absent
    BY <1>3, KindOfEntry DEF Ends
  <2> QED
    BY <2>1, FileSystemAssumption DEF At, Entry, Content, IsFile, IsDir
<1> QED
  BY <1>1, <1>2, <1>3

LEMMA MadeParts ==
  ASSUME entry \in [Path -> Entry], NEW y \in Path, entry[y] = Absent, NEW e,
         e = Made(y)
  PROVE  /\ e \in [Path -> Entry]
         /\ \A x \in Path, k \in Part : At(e[x], k) = At(entry[x], k)
<1> DEFINE f == [kind |-> "dir", files |-> [c \in Child |-> Absent]]
<1>1. f \in Directory /\ IsDir(f) /\ ~ IsFile(f) /\ f.files = [c \in Child |-> Absent]
  BY FileSystemAssumption DEF Directory, IsDir, IsFile
<1>2. \A k \in Part : At(f, k) = Absent /\ At(entry[y], k) = Absent
  BY <1>1 DEF At, Part, IsDir, IsFile
<1>3. e = [entry EXCEPT ![y] = f]
  BY DEF Made
<1> HIDE DEF f
<1> QED
  BY <1>1, <1>2, <1>3 DEF Entry

-----------------------------------------------------------------------------
(* The steps of one process: what each does to its job.                     *)

Step(p) ==
  \/ Begin(p) \/ StatSource(p) \/ StatTarget(p) \/ ChooseBackup(p) \/ MoveAside(p)
  \/ LstatTarget(p) \/ RenameSource(p) \/ RenameFails(p) \/ RetryRename(p)
  \/ RemoveTarget(p, "replace", "retry") \/ RemoveTarget(p, "unlink", "copy")
  \/ StartCopy(p) \/ DirectoryFails(p) \/ OpenFile(p) \/ OpenFileFails(p)
  \/ UnlinkUnopened(p) \/ OpenAgain(p) \/ OpenAgainFails(p)
  \/ CopyContents(p) \/ CopyContentsFails(p) \/ CopyDone(p)
  \/ RemoveSource(p) \/ RemoveSourceFails(p) \/ Kill(p)

JobTypes == job \in [Proc -> Job \cup {Idle}]

LEMMA GotoTyped ==
  ASSUME JobTypes, NEW p \in Proc, job[p].at # "idle", NEW place \in Places, Goto(p, place)
  PROVE  JobTypes' /\ \A q \in Proc \ {p} : job'[q] = job[q]
BY DEF JobTypes, Job, Idle, Goto

LEMMA DoneTyped ==
  ASSUME JobTypes, NEW p \in Proc, Done(p)
  PROVE  JobTypes' /\ job'[p] = Idle /\ \A q \in Proc \ {p} : job'[q] = job[q]
BY DEF JobTypes, Done

LEMMA BackupsNamed ==
  ASSUME NEW n \in Name, NEW method, NEW aside \in BackupNames(n, method)
  PROVE  /\ aside \in {n} \X (0 .. MaxBackup) /\ aside \in Path /\ aside \notin Name
         /\ aside[2] # 0 => entry[aside] = Absent
<1>1. CASE aside = <<n, 0>>
  BY <1>1, FileSystemAssumption, BoundAssumption DEF Path
<1>2. CASE aside \in NextBackup(n)
  <2>1. PICK k \in 1 .. MaxBackup : aside = <<n, k>> /\ k \notin Numbered(n)
    BY <1>2, BoundAssumption DEF NextBackup, Numbered
  <2> QED
    BY <2>1, FileSystemAssumption, BoundAssumption DEF Path, Numbered
<1> QED
  BY <1>1, <1>2 DEF BackupNames

StepJob(p) ==
  /\ JobTypes' /\ \A q \in Proc \ {p} : job'[q] = job[q]
  /\ job[p].at # "idle" /\ job'[p].at # "idle" => job'[p].cmd = job[p].cmd
  /\ job'[p].at \in Copying => job[p].at \in Copying \cup {"copy"}
  /\ job'[p].at = "write" => job[p].at \in {"open", "reopen"}

LEMMA JobAfter ==
  ASSUME TypeOK, NEW p \in Proc, Step(p)
  PROVE  StepJob(p)
<1> USE DEF JobTypes, StepJob
<1>0. JobTypes /\ job \in [Proc -> Job \cup {Idle}] /\ entry \in [Path -> Entry]
  BY DEF TypeOK
<1>1. CASE Begin(p)
  <2>1. PICK o \in Commands[p] : job' = [job EXCEPT ![p] =
         [at |-> "source", cmd |-> o, sourceDir |-> FALSE, targetDir |-> FALSE,
          targetSeen |-> FALSE, aside |-> <<o.target, 0>>, moved |-> FALSE,
          existed |-> FALSE, left |-> {}, copying |-> Self,
          reading |-> Partial, status |-> 0]]
    BY <1>1 DEF Begin
  <2>2. o \in Command /\ <<o.target, 0>> \in Path
    BY CommandAssumption, BoundAssumption DEF Path, Command
  <2> QED
    BY <1>0, <1>1, <2>1, <2>2 DEF Begin, Job, Idle, Places, Copying
<1>2. CASE StatSource(p)
  BY <1>0, <1>2, DoneTyped DEF StatSource, Job, Idle, Places, Copying
<1>3. CASE StatTarget(p)
  BY <1>0, <1>3, DoneTyped, GotoTyped DEF StatTarget, Job, Idle, Places, Copying, Goto
<1>4. CASE ChooseBackup(p)
  <2>1. ASSUME NEW aside \in BackupNames(Target(p), job[p].cmd.backup),
               job' = [job EXCEPT ![p].at = "aside", ![p].aside = aside]
        PROVE  StepJob(p)
    <3>1. aside \in Path /\ job[p] \in Job /\ job[p].at = "backup"
      BY <1>4, JobTyped, BackupsNamed DEF ChooseBackup
    <3> QED
      BY <1>0, <2>1, <3>1 DEF StepJob, Job, Places, Copying
  <2>2. CASE Done(p) \/ Goto(p, "lstat")
    BY <1>0, <1>4, <2>2, DoneTyped, GotoTyped DEF ChooseBackup, Job, Idle, Places, Copying, Goto
  <2> QED
    BY <1>4, <2>1, <2>2 DEF ChooseBackup, Target
<1>5. CASE MoveAside(p)
  <2>1. CASE Done(p)
    BY <1>0, <1>5, <2>1, DoneTyped DEF MoveAside, Idle, Copying
  <2>2. CASE job' = [job EXCEPT ![p].at = "lstat", ![p].moved = TRUE]
    <3>1. job[p] \in Job /\ job[p].at = "aside"
      BY <1>5, JobTyped DEF MoveAside
    <3> QED
      BY <1>0, <2>2, <3>1 DEF Job, Places, Copying
  <2> QED
    BY <1>5, <2>1, <2>2 DEF MoveAside
<1>6. CASE LstatTarget(p)
  <2>1. job[p] \in Job /\ job[p].at = "lstat"
    BY <1>6, JobTyped DEF LstatTarget
  <2>2. PICK b \in BOOLEAN : job' = [job EXCEPT ![p].at = "rename", ![p].existed = b]
    BY <1>6 DEF LstatTarget
  <2> QED
    BY <1>0, <2>1, <2>2 DEF Job, Places, Copying
<1>7. CASE RenameSource(p)
  BY <1>0, <1>7, DoneTyped, GotoTyped DEF RenameSource, RenameRefused, Job, Idle, Places, Copying, Goto
<1>8. CASE RenameFails(p)
  BY <1>0, <1>8, DoneTyped, GotoTyped DEF RenameFails, RenameRefused, Job, Idle, Places, Copying, Goto
<1>9. CASE RetryRename(p)
  BY <1>0, <1>9, DoneTyped, GotoTyped DEF RetryRename, Job, Idle, Places, Copying, Goto
<1>10. CASE RemoveTarget(p, "replace", "retry")
  BY <1>0, <1>10, DoneTyped, GotoTyped DEF RemoveTarget, Job, Idle, Places, Copying, Goto
<1>11. CASE RemoveTarget(p, "unlink", "copy")
  BY <1>0, <1>11, DoneTyped, GotoTyped DEF RemoveTarget, Job, Idle, Places, Copying, Goto
<1>12. CASE StartCopy(p)
  BY <1>0, <1>12, DoneTyped, GotoTyped DEF StartCopy, ChildrenOf, Job, Idle, Places, Copying, Goto
<1>13. CASE OpenFile(p)
  <2>1. PICK c \in job[p].left :
          \/ Skipped(p, c)
          \/ \E d \in Data \cup {Partial} :
               job' = [job EXCEPT ![p].at = "write", ![p].copying = c, ![p].reading = d]
    BY <1>13 DEF OpenFile
  <2>2. job[p].at = "open" /\ job[p] \in Job
    BY <1>13, JobTyped DEF OpenFile
  <2>3. CASE Skipped(p, c)
    BY <1>0, <2>1, <2>2, <2>3, DoneTyped DEF Skipped, Job, Idle, Places, Copying
  <2>4. ASSUME NEW d \in Data \cup {Partial},
               job' = [job EXCEPT ![p].at = "write", ![p].copying = c, ![p].reading = d]
        PROVE  StepJob(p)
    <3>1. c \in Child \cup {Self}
      BY <2>1, <2>2 DEF Job
    <3> QED
      BY <1>0, <2>2, <2>4, <3>1 DEF Job, Places, Copying
  <2> QED
    BY <2>1, <2>3, <2>4
<1>14. CASE OpenFileFails(p)
  BY <1>0, <1>14, DoneTyped, GotoTyped DEF OpenFileFails, Skipped, Job, Idle, Places, Copying, Goto
<1>15. CASE CopyContents(p)
  <2>1. job[p] \in Job /\ job[p].at = "write"
    BY <1>15, JobTyped DEF CopyContents
  <2>2. job' = [job EXCEPT ![p].at = "open", ![p].left = @ \ {job[p].copying}, ![p].reading = Partial]
    BY <1>15 DEF CopyContents
  <2> QED
    BY <1>0, <2>1, <2>2 DEF Job, Places, Copying
<1>16. CASE CopyContentsFails(p)
  BY <1>0, <1>16, DoneTyped, GotoTyped DEF CopyContentsFails, Skipped, Job, Idle, Places, Copying, Goto
<1>17. CASE CopyDone(p)
  <2>1. job[p] \in Job /\ job[p].at = "open" /\ Goto(p, "remove")
    BY <1>17, JobTyped DEF CopyDone
  <2> QED
    BY <1>0, <2>1 DEF Job, Places, Copying, Goto
<1>18. CASE RemoveSource(p)
  BY <1>0, <1>18, DoneTyped, GotoTyped DEF RemoveSource, Job, Idle, Places, Copying, Goto
<1>19. CASE RemoveSourceFails(p)
  BY <1>0, <1>19, DoneTyped, GotoTyped DEF RemoveSourceFails, Job, Idle, Places, Copying, Goto
<1>20. CASE Kill(p)
  BY <1>0, <1>20, DoneTyped, GotoTyped DEF Kill, Job, Idle, Places, Copying, Goto
<1>21. CASE DirectoryFails(p)
  BY <1>0, <1>21, DoneTyped DEF DirectoryFails, Idle, Copying
<1>22. CASE UnlinkUnopened(p)
  <2>1. PICK c \in job[p].left, d \in Data \cup {Partial} :
          job' = [job EXCEPT ![p].at = "reopen", ![p].copying = c, ![p].reading = d]
    BY <1>22 DEF UnlinkUnopened
  <2>2. job[p].at = "open" /\ job[p] \in Job
    BY <1>22, JobTyped DEF UnlinkUnopened
  <2>3. c \in Child \cup {Self}
    BY <2>1, <2>2 DEF Job
  <2> QED
    BY <1>0, <2>1, <2>2, <2>3 DEF Job, Places, Copying
<1>23. CASE OpenAgain(p)
  <2>1. job[p] \in Job /\ job[p].at = "reopen"
    BY <1>23, JobTyped DEF OpenAgain
  <2>2. Goto(p, "write") \/ Skipped(p, job[p].copying)
    BY <1>23 DEF OpenAgain
  <2>3. CASE Goto(p, "write")
    BY <1>0, <2>1, <2>3 DEF Goto, Job, Places, Copying
  <2>4. CASE Skipped(p, job[p].copying)
    BY <1>0, <2>1, <2>4, DoneTyped DEF Skipped, Job, Idle, Places, Copying
  <2> QED
    BY <2>2, <2>3, <2>4
<1>24. CASE OpenAgainFails(p)
  BY <1>0, <1>24, DoneTyped, GotoTyped DEF OpenAgainFails, Skipped, Job, Idle, Places, Copying, Goto
<1> QED
  BY <1>1, <1>2, <1>3, <1>4, <1>5, <1>6, <1>7, <1>8, <1>9, <1>10, <1>11, <1>12, <1>13, <1>14, <1>15, <1>16, <1>17,
     <1>18, <1>19, <1>20, <1>21, <1>22, <1>23, <1>24 DEF Step

-----------------------------------------------------------------------------
(* What a step of p does to the files: it puts something at one path only,  *)
(* and what it takes away it has replaced, moved there, or copied before.   *)

Put(p) == IF job[p].at = "aside" THEN job[p].aside ELSE Target(p)
From(p) == IF job[p].at = "aside" THEN Target(p) ELSE Source(p)
Destroyed(v) == v \in replaced' /\ (v \in Proc => job[v].reading \in replaced')

StepFiles(p) ==
  /\ entry' \in [Path -> Entry]
  /\ replaced \subseteq replaced' /\ reported \subseteq reported'
  /\ \A x \in Path : entry[x] = Absent /\ entry'[x] # Absent => x = Put(p)
  /\ \A x \in Path, k \in Part :
       \/ At(entry'[x], k) \in {Absent, At(entry[x], k)}
       \/ At(entry[x], k) = p /\ At(entry'[x], k) \notin Proc /\ job[p].at = "write"
       \/ x = Put(p) /\ From(p) \in Path /\ At(entry'[x], k) \in {p, At(entry[From(p)], k)}
  /\ JobOK(p) => \A x \in Path, k \in Part : At(entry[x], k) \notin {Absent, p} =>
       \/ At(entry'[x], k) = At(entry[x], k)
       \/ At(entry'[Put(p)], k) = At(entry[x], k) /\ Put(p) \in Path
       \/ Destroyed(At(entry[x], k))
       \/ job[p].at = "remove" /\ x = Source(p)
  /\ job'[p].at # "write" => \A x \in Path, k \in Part : At(entry'[x], k) # p

LEMMA NotOpen ==
  ASSUME TypeOK, NEW p \in Proc, job[p].at # "write", NEW x \in Path, NEW k \in Part
  PROVE  At(entry[x], k) # p
BY PresentParts, FileSystemAssumption DEF TypeOK, Content

LEMMA Unmoved ==
  ASSUME TypeOK, NEW p \in Proc, job[p].at # "write", entry' \in [Path -> Entry],
         replaced \subseteq replaced', reported \subseteq reported',
         \A x \in Path, k \in Part : At(entry'[x], k) = At(entry[x], k),
         \A x \in Path : entry[x] = Absent /\ entry'[x] # Absent => x = Put(p)
  PROVE  StepFiles(p)
BY NotOpen DEF StepFiles

LEMMA Unchanged ==
  ASSUME TypeOK, NEW p \in Proc, job[p].at # "write", entry' = entry,
         replaced \subseteq replaced', reported \subseteq reported'
  PROVE  StepFiles(p)
BY Unmoved DEF TypeOK

LEMMA MovedFiles ==
  ASSUME TypeOK, NEW p \in Proc, job[p].at # "write", Put(p) \in Path, From(p) \in Path, Put(p) # From(p),
         entry' = Renamed(From(p), Put(p)),
         replaced \subseteq replaced', reported \subseteq reported',
         JobOK(p) => \A k \in Part : At(entry[Put(p)], k) # Absent => Destroyed(At(entry[Put(p)], k))
  PROVE  StepFiles(p)
<1>1. /\ entry' \in [Path -> Entry]
      /\ \A x \in Path, k \in Part :
           At(entry'[x], k) = IF x = Put(p) THEN At(entry[From(p)], k)
                              ELSE IF x = From(p) THEN Absent ELSE At(entry[x], k)
  BY RenamedParts DEF TypeOK
<1>2. \A x \in Path : entry[x] = Absent /\ entry'[x] # Absent => x = Put(p)
  BY DEF Renamed, TypeOK
<1>3. \A x \in Path, k \in Part : At(entry[x], k) # p /\ At(entry'[x], k) # p
  BY <1>1, NotOpen, FileSystemAssumption DEF Content
<1>4. JobOK(p) => \A x \in Path, k \in Part : At(entry[x], k) # Absent =>
         \/ At(entry'[x], k) = At(entry[x], k)
         \/ At(entry'[Put(p)], k) = At(entry[x], k)
         \/ Destroyed(At(entry[x], k))
  BY <1>1
<1> QED
  BY <1>1, <1>2, <1>3, <1>4 DEF StepFiles

LEMMA RemovedFiles ==
  ASSUME TypeOK, NEW p \in Proc, job[p].at # "write", NEW y \in Path,
         entry' = [entry EXCEPT ![y] = Absent],
         replaced \subseteq replaced', reported \subseteq reported',
         \/ job[p].at = "remove" /\ y = Source(p)
         \/ JobOK(p) => \A k \in Part : At(entry[y], k) # Absent => Destroyed(At(entry[y], k))
  PROVE  StepFiles(p)
<1>1. /\ entry' \in [Path -> Entry]
      /\ \A x \in Path, k \in Part : At(entry'[x], k) = IF x = y THEN Absent ELSE At(entry[x], k)
  BY RemovedParts DEF TypeOK
<1>2. \A x \in Path : entry[x] = Absent => entry'[x] = Absent
  BY DEF TypeOK
<1> QED
  BY <1>1, <1>2, NotOpen, FileSystemAssumption DEF StepFiles, Content

LEMMA ChildRemovedFiles ==
  ASSUME TypeOK, NEW p \in Proc, job[p].at # "write", NEW y \in Path, NEW c \in ChildrenOf(entry[y]),
         entry' = [entry EXCEPT ![y].files[c] = Absent],
         replaced \subseteq replaced', reported \subseteq reported',
         \/ job[p].at = "remove" /\ y = Source(p)
         \/ JobOK(p) => Destroyed(At(entry[y], c))
  PROVE  StepFiles(p)
<1>1. /\ entry' \in [Path -> Entry]
      /\ \A x \in Path, k \in Part :
           At(entry'[x], k) = IF x = y /\ k = c THEN Absent ELSE At(entry[x], k)
  BY ChildRemovedParts DEF TypeOK
<1>2. \A x \in Path : entry[x] = Absent => entry'[x] = Absent
  BY DEF TypeOK, ChildrenOf, IsDir
<1>3. \A x \in Path, k \in Part : At(entry[x], k) # p /\ At(entry'[x], k) # p
  BY <1>1, NotOpen, FileSystemAssumption DEF Content
<1> QED
  BY <1>1, <1>2, <1>3 DEF StepFiles

LEMMA EndedFiles ==
  ASSUME TypeOK, NEW p \in Proc, NEW d \in Data \cup {Partial}, entry' = Ends(p, d), job'[p].at # "write",
         replaced \subseteq replaced', reported \subseteq reported'
  PROVE  StepFiles(p)
<1>1. d \in Content /\ d \notin Proc
  BY FileSystemAssumption DEF Content
<1>2. /\ entry' \in [Path -> Entry]
      /\ \A x \in Path, k \in Part : At(entry'[x], k) = IF At(entry[x], k) = p THEN d ELSE At(entry[x], k)
      /\ \A x \in Path : entry'[x] = Absent <=> entry[x] = Absent
  BY <1>1, EndsParts DEF TypeOK
<1>3. \A x \in Path, k \in Part : At(entry[x], k) = p => job[p].at = "write"
  BY NotOpen
<1> QED
  BY <1>1, <1>2, <1>3 DEF StepFiles

LEMMA ReplacedContents ==
  ASSUME NEW p \in Proc, NEW contents, Replaced(p, contents)
  PROVE  /\ replaced \subseteq replaced'
         /\ ~ Spares(job[p].cmd) => \A v \in contents : Destroyed(v)
BY DEF Replaced, Whole, Destroyed, Spares

LEMMA AbsentParts ==
  ASSUME NEW k \in Part
  PROVE  At(Absent, k) = Absent
BY DEF At, IsFile, IsDir

LEMMA FilesAfter ==
  ASSUME TypeOK, NEW p \in Proc, JobShape(p), Step(p), StepJob(p)
  PROVE  StepFiles(p)
<1>0. /\ entry \in [Path -> Entry] /\ JobTypes
      /\ job[p].at # "idle" => /\ Source(p) \in Path /\ Target(p) \in Name /\ Target(p) \in Path
                               /\ Source(p) # Target(p)
  BY JobTyped, CommandAssumption DEF TypeOK, JobTypes, Source, Target
<1>1. CASE Begin(p) \/ StatSource(p) \/ StatTarget(p) \/ ChooseBackup(p) \/ LstatTarget(p)
  BY <1>1, Unchanged DEF Begin, StatSource, StatTarget, ChooseBackup, LstatTarget
<1>2. CASE RenameFails(p) \/ OpenFileFails(p) \/ OpenAgainFails(p) \/ CopyDone(p) \/ RemoveSourceFails(p)
  BY <1>2, Unchanged DEF RenameFails, OpenFileFails, OpenAgainFails, Skipped, CopyDone, RemoveSourceFails
<1>3. CASE MoveAside(p)
  <2>1. job[p].at = "aside"
    BY <1>3 DEF MoveAside
  <2>2. /\ job[p].aside \in {Target(p)} \X (0 .. MaxBackup)
        /\ JobOK(p) /\ job[p].aside[2] # 0 => entry[job[p].aside] = Absent
    BY <2>1 DEF JobOK, Target
  <2>3. job[p].aside \in Path /\ job[p].aside # Target(p)
    BY <1>0, <2>1, <2>2, FileSystemAssumption DEF Path
  <2>4. CASE UNCHANGED <<entry, replaced, reported>>
    BY <2>1, <2>4, Unchanged
  <2>5. CASE /\ entry' = Renamed(Target(p), job[p].aside) /\ reported' = reported
             /\ replaced' = IF job[p].aside[2] = 0 THEN replaced \cup Whole(Contents(entry[job[p].aside]))
                            ELSE replaced
    <3>1. JobOK(p) => \A k \in Part : At(entry[job[p].aside], k) # Absent => Destroyed(At(entry[job[p].aside], k))
      BY <1>0, <2>2, <2>3, <2>5, AbsentParts, ContentsAreParts DEF Destroyed, Whole
    <3>2. Put(p) = job[p].aside /\ From(p) = Target(p)
      BY <2>1 DEF Put, From
    <3> QED
      BY <1>0, <2>1, <2>3, <2>5, <3>1, <3>2, MovedFiles
  <2> QED
    BY <1>3, <2>4, <2>5 DEF MoveAside
<1>4. CASE RenameSource(p) \/ RetryRename(p)
  <2>1. job[p].at \in {"rename", "retry"} /\ reported' = reported
    BY <1>4 DEF RenameSource, RetryRename
  <2>2. CASE entry' = entry /\ replaced' = replaced
    BY <2>1, <2>2, Unchanged
  <2>3. CASE entry' = Renamed(Source(p), Target(p)) /\ Replaced(p, Contents(entry[Target(p)]))
    <3>1. Put(p) = Target(p) /\ From(p) = Source(p)
      BY <2>1 DEF Put, From
    <3>2. JobOK(p) /\ Spares(job[p].cmd) => entry[Target(p)] = Absent
      BY <2>1 DEF JobOK
    <3>3. JobOK(p) => \A k \in Part : At(entry[Target(p)], k) # Absent => Destroyed(At(entry[Target(p)], k))
      BY <1>0, <2>1, <2>3, <3>2, AbsentParts, ContentsAreParts, ReplacedContents
    <3>4. replaced \subseteq replaced'
      BY <2>3, ReplacedContents
    <3> QED
      BY <1>0, <2>1, <2>3, <3>1, <3>3, <3>4, MovedFiles
  <2> QED
    BY <1>4, <2>2, <2>3 DEF RenameSource, RetryRename
<1>5. CASE RemoveTarget(p, "replace", "retry") \/ RemoveTarget(p, "unlink", "copy")
  <2>1. job[p].at \in {"replace", "unlink"} /\ reported' = reported
    BY <1>5 DEF RemoveTarget
  <2>2. CASE entry' = entry /\ replaced' = replaced
    BY <2>1, <2>2, Unchanged
  <2>3. CASE entry' = [entry EXCEPT ![Target(p)] = Absent] /\ Replaced(p, Contents(entry[Target(p)]))
    <3>1. JobOK(p) => ~ Spares(job[p].cmd)
      BY <2>1 DEF JobOK
    <3>2. JobOK(p) => \A k \in Part : At(entry[Target(p)], k) # Absent => Destroyed(At(entry[Target(p)], k))
      BY <1>0, <2>1, <2>3, <3>1, ContentsAreParts, ReplacedContents
    <3>3. replaced \subseteq replaced'
      BY <2>3, ReplacedContents
    <3> QED
      BY <1>0, <2>1, <2>3, <3>2, <3>3, RemovedFiles
  <2> QED
    BY <1>5, <2>2, <2>3 DEF RemoveTarget
<1>6. CASE StartCopy(p) \/ DirectoryFails(p)
  <2>1. job[p].at \in {"copy", "open"} /\ replaced' = replaced /\ reported' = reported /\ Put(p) = Target(p)
    BY <1>6 DEF StartCopy, DirectoryFails, Put
  <2>2. CASE entry' = entry
    BY <2>1, <2>2, Unchanged
  <2>3. CASE entry[Target(p)] = Absent /\ entry' = Made(Target(p))
    <3>1. /\ entry' \in [Path -> Entry]
          /\ \A x \in Path, k \in Part : At(entry'[x], k) = At(entry[x], k)
      BY <1>0, <2>1, <2>3, MadeParts
    <3>2. \A x \in Path : entry[x] = Absent /\ entry'[x] # Absent => x = Put(p)
      BY <1>0, <2>1, <2>3 DEF Made
    <3> QED
      BY <2>1, <3>1, <3>2, Unmoved
  <2> QED
    BY <1>6, <2>2, <2>3 DEF StartCopy, DirectoryFails
<1>7. CASE OpenFile(p) \/ OpenAgain(p)
  <2>1. job[p].at \in {"open", "reopen"} /\ Put(p) = Target(p)
    BY <1>7 DEF OpenFile, OpenAgain, Put
  <2>2. PICK c \in Part :
          /\ JobOK(p) => c \in job[p].left
          /\ \/ entry' = entry /\ replaced' = replaced /\ Skipped(p, c)
             \/ /\ Writable(p, c) /\ entry' = Opened(p, c) /\ Replaced(p, Overwritten(p, c))
                /\ UNCHANGED reported
                /\ Goto(p, "write") \/ \E d : job' = [job EXCEPT ![p].at = "write", ![p].copying = c, ![p].reading = d]
    <3>1. job[p] \in Job
      BY <2>1, JobTyped
    <3>2. CASE OpenFile(p)
      <4>1. job[p].left \subseteq Part
        BY <3>1 DEF Job, Part
      <4>2. PICK c \in job[p].left :
              \/ entry' = entry /\ replaced' = replaced /\ Skipped(p, c)
              \/ /\ Writable(p, c) /\ entry' = Opened(p, c) /\ Replaced(p, Overwritten(p, c))
                 /\ UNCHANGED reported
                 /\ \E d : job' = [job EXCEPT ![p].at = "write", ![p].copying = c, ![p].reading = d]
        BY <3>2 DEF OpenFile
      <4> QED
        BY <4>1, <4>2
    <3>3. CASE OpenAgain(p)
      <4>1. job[p].copying \in Part /\ (JobOK(p) => job[p].copying \in job[p].left)
        BY <3>1, <3>3 DEF OpenAgain, JobOK, Job, Part
      <4> QED
        BY <3>3, <4>1 DEF OpenAgain
    <3> QED
      BY <1>7, <3>2, <3>3
  <2>3. CASE entry' = entry /\ replaced' = replaced /\ Skipped(p, c)
    BY <2>1, <2>3, Unchanged DEF Skipped
  <2>4. CASE /\ Writable(p, c) /\ entry' = Opened(p, c) /\ Replaced(p, Overwritten(p, c))
             /\ UNCHANGED reported
             /\ Goto(p, "write") \/ \E d : job' = [job EXCEPT ![p].at = "write", ![p].copying = c, ![p].reading = d]
    <3>8. job'[p].at = "write"
      <4>1. job[p] \in Job
        BY <2>1, JobTyped
      <4> QED
        BY <1>0, <2>4, <4>1 DEF JobTypes, Job, Goto
    <3>1. c \in Part
      BY <2>2
    <3>2. /\ entry' \in [Path -> Entry]
          /\ \A x \in Path, k \in Part :
               At(entry'[x], k) =
                 IF x = Target(p) /\ k = c THEN p
                 ELSE IF x = Target(p) /\ c = Self THEN Absent ELSE At(entry[x], k)
      BY <2>1, <2>4, <3>1, OpenedParts
    <3>3. \A x \in Path : entry[x] = Absent /\ entry'[x] # Absent => x = Put(p)
      BY <1>0, <2>1, <2>4 DEF Opened
    <3>4. JobOK(p) => \A k \in Part : At(entry[Target(p)], k) # Absent /\ (k = c \/ c = Self) =>
                            Destroyed(At(entry[Target(p)], k))
      <4> SUFFICES ASSUME JobOK(p), NEW k \in Part, At(entry[Target(p)], k) # Absent, k = c \/ c = Self
                   PROVE  Destroyed(At(entry[Target(p)], k))
        OBVIOUS
      <4>1. At(entry[Target(p)], k) \in Overwritten(p, c)
        BY <1>0, <2>1, <2>4, <3>1, ContentsAreParts DEF Overwritten, At, Writable
      <4>2. ~ Spares(job[p].cmd)
        <5> SUFFICES ASSUME Spares(job[p].cmd) PROVE FALSE
          OBVIOUS
        <5>1. /\ \A l \in job[p].left : At(entry[Target(p)], l) = Absent
              /\ Self \in job[p].left => job[p].left = {Self}
          BY <2>1 DEF JobOK
        <5>2. c = Self /\ entry[Target(p)] # Absent /\ ~ IsFile(entry[Target(p)])
          BY <1>0, <2>1, <2>2, <3>1, <5>1, AbsentParts, KindOfEntry, FileSystemAssumption DEF At, Entry, File, Part
        <5>3. IsDir(entry[Target(p)]) /\ ChildrenOf(entry[Target(p)]) = {}
          BY <1>0, <2>1, <2>4, <5>2, KindOfEntry DEF Writable, Removable
        <5> QED
          BY <3>1, <5>2, <5>3 DEF ChildrenOf, At, Part
      <4> QED
        BY <2>4, <4>1, <4>2, ReplacedContents
    <3>5. replaced \subseteq replaced'
      BY <2>4, ReplacedContents
    <3>6. JobOK(p) => \A x \in Path, k \in Part : At(entry[x], k) # Absent =>
            At(entry'[x], k) = At(entry[x], k) \/ Destroyed(At(entry[x], k))
      BY <3>2, <3>4
    <3>7. \A x \in Path, k \in Part :
            \/ At(entry'[x], k) \in {Absent, At(entry[x], k)}
            \/ x = Put(p) /\ From(p) \in Path /\ At(entry'[x], k) = p
      BY <1>0, <2>1, <3>2 DEF From
    <3> QED
      BY <2>4, <3>2, <3>3, <3>5, <3>6, <3>7, <3>8 DEF StepFiles
  <2> QED
    BY <2>2, <2>3, <2>4
<1>8. CASE CopyContents(p) \/ CopyContentsFails(p) \/ Kill(p)
  <2>1. PICK d \in Data \cup {Partial} : entry' = Ends(p, d)
    BY <1>8, JobTyped DEF CopyContents, CopyContentsFails, Kill, Job
  <2>2. replaced \subseteq replaced' /\ reported \subseteq reported' /\ job'[p].at # "write"
    <3>1. CASE Kill(p)
      BY <1>0, <3>1 DEF Kill, Done, Idle, JobTypes
    <3>2. CASE CopyContents(p) \/ CopyContentsFails(p)
      BY <3>2 DEF CopyContents, CopyContentsFails, Skipped, StepJob
    <3> QED
      BY <1>8, <3>1, <3>2
  <2> QED
    BY <2>1, <2>2, EndedFiles
<1>9. CASE RemoveSource(p)
  <2>1. job[p].at = "remove" /\ replaced' = replaced /\ reported' = reported
    BY <1>9 DEF RemoveSource
  <2>2. CASE entry' = [entry EXCEPT ![Source(p)] = Absent]
    BY <1>0, <2>1, <2>2, RemovedFiles
  <2>3. ASSUME NEW c \in ChildrenOf(entry[Source(p)]), entry' = [entry EXCEPT ![Source(p)].files[c] = Absent]
        PROVE  StepFiles(p)
    BY <1>0, <2>1, <2>3, ChildRemovedFiles
  <2> QED
    BY <1>9, <2>2, <2>3 DEF RemoveSource
<1>10. CASE UnlinkUnopened(p)
  <2>1. job[p].at = "open" /\ reported' = reported /\ job[p] \in Job
    BY <1>10, JobTyped DEF UnlinkUnopened
  <2>2. PICK c \in job[p].left : Unlinkable(p, c) /\ entry' = Unlinked(p, c) /\ Replaced(p, Overwritten(p, c))
    BY <1>10 DEF UnlinkUnopened
  <2>3. replaced \subseteq replaced'
    BY <2>2, ReplacedContents
  <2>4. JobOK(p) /\ Spares(job[p].cmd) => At(entry[Target(p)], c) = Absent
    BY <2>1, <2>2 DEF JobOK
  <2>5. CASE c = Self
    <3>1. entry[Target(p)] # Absent /\ ChildrenOf(entry[Target(p)]) = {} /\ Overwritten(p, c) = Contents(entry[Target(p)])
      BY <2>2, <2>5 DEF Unlinkable, Removable, Overwritten
    <3>2. JobOK(p) /\ Spares(job[p].cmd) => Contents(entry[Target(p)]) = {}
      <4>1. entry[Target(p)] \in Entry
        BY <1>0, <2>1
      <4>2. CASE IsFile(entry[Target(p)])
        BY <2>4, <2>5, <4>1, <4>2, KindOfEntry, FileSystemAssumption DEF At
      <4>3. CASE IsDir(entry[Target(p)])
        BY <3>1, <4>3 DEF Contents
      <4> QED
        BY <3>1, <4>1, <4>2, <4>3, KindOfEntry
    <3>3. JobOK(p) => \A k \in Part : At(entry[Target(p)], k) # Absent => Destroyed(At(entry[Target(p)], k))
      BY <1>0, <2>1, <2>2, <3>1, <3>2, ContentsAreParts, ReplacedContents
    <3>4. entry' = [entry EXCEPT ![Target(p)] = Absent]
      BY <2>2, <2>5 DEF Unlinked
    <3> QED
      BY <1>0, <2>1, <2>3, <3>3, <3>4, RemovedFiles
  <2>6. CASE c # Self
    <3>1. /\ IsDir(entry[Target(p)]) /\ c \in Child
          /\ Overwritten(p, c) = {At(entry[Target(p)], c)} /\ At(entry[Target(p)], c) # Absent
          /\ c \in ChildrenOf(entry[Target(p)])
      BY <2>1, <2>2, <2>6 DEF Unlinkable, Writable, Overwritten, At, ChildrenOf, Job
    <3>2. JobOK(p) => Destroyed(At(entry[Target(p)], c))
      BY <2>2, <2>4, <3>1, ReplacedContents
    <3>3. entry' = [entry EXCEPT ![Target(p)].files[c] = Absent]
      BY <2>2, <2>6 DEF Unlinked
    <3> QED
      BY <1>0, <2>1, <2>3, <3>1, <3>2, <3>3, ChildRemovedFiles
  <2> QED
    BY <2>5, <2>6
<1> QED
  BY <1>1, <1>2, <1>3, <1>4, <1>5, <1>6, <1>7, <1>8, <1>9, <1>10 DEF Step

-----------------------------------------------------------------------------
(* The invariant, part by part.                                             *)

LEMMA BoundsAfter ==
  ASSUME TypeOK, NEW p \in Proc, Step(p)
  PROVE  runs' \in [Proc -> Nat] /\ fails' \in Nat /\ kills' \in Nat /\ reported' \subseteq Data
<1>1. CASE Begin(p)
  BY <1>1 DEF Begin, TypeOK
<1>2. CASE \/ StatSource(p) \/ StatTarget(p) \/ ChooseBackup(p) \/ MoveAside(p) \/ LstatTarget(p)
           \/ RenameSource(p) \/ RetryRename(p) \/ RemoveTarget(p, "replace", "retry")
           \/ RemoveTarget(p, "unlink", "copy") \/ StartCopy(p) \/ CopyContents(p) \/ CopyDone(p) \/ RemoveSource(p)
  BY <1>2 DEF TypeOK, Bounds, StatSource, StatTarget, ChooseBackup, MoveAside, LstatTarget, RenameSource,
              RetryRename, RemoveTarget, StartCopy, CopyContents, CopyDone, RemoveSource
<1>3. CASE OpenFile(p) \/ OpenAgain(p) \/ UnlinkUnopened(p)
  BY <1>3 DEF TypeOK, Bounds, OpenFile, OpenAgain, UnlinkUnopened, Skipped
<1>4. CASE RenameFails(p) \/ DirectoryFails(p) \/ RemoveSourceFails(p) \/ Kill(p)
  BY <1>4 DEF TypeOK, RenameFails, DirectoryFails, RemoveSourceFails, Kill
<1>5. CASE OpenFileFails(p) \/ OpenAgainFails(p) \/ CopyContentsFails(p)
  <2>1. fails' \in Nat /\ UNCHANGED <<runs, kills>>
    BY <1>5 DEF TypeOK, OpenFileFails, OpenAgainFails, CopyContentsFails
  <2>2. \E c : Skipped(p, c)
    BY <1>5 DEF OpenFileFails, OpenAgainFails, CopyContentsFails
  <2> QED
    BY <2>1, <2>2 DEF TypeOK, Skipped
<1> QED
  BY <1>1, <1>2, <1>3, <1>4, <1>5 DEF Step

LEMMA WholeTyped ==
  ASSUME TypeOK, NEW x \in Path, NEW contents, contents \subseteq Contents(entry[x])
  PROVE  Whole(contents) \subseteq Content
<1>1. contents \subseteq Content
  BY ContentsAreParts DEF TypeOK
<1>2. ASSUME NEW q \in contents \cap Proc PROVE job[q].reading \in Content
  <2>1. q \in Present
    BY <1>2 DEF Present
  <2>2. job[q].at = "write"
    BY <1>2, <2>1 DEF TypeOK
  <2> QED
    BY <1>2, <2>2, JobTyped DEF Job, Content
<1> QED
  BY <1>1, <1>2 DEF Whole

LEMMA ReplacedAfter ==
  ASSUME TypeOK, NEW p \in Proc, Step(p)
  PROVE  replaced' \subseteq Content
<1>0. /\ replaced \subseteq Content
      /\ job[p].at # "idle" => Target(p) \in Path
  BY JobTyped DEF TypeOK
<1>1. CASE replaced' = replaced
  BY <1>0, <1>1
<1>2. CASE MoveAside(p)
  <2>1. job[p].aside \in Path
    BY <1>2, JobTyped DEF MoveAside, Job
  <2> QED
    BY <1>0, <1>2, <2>1, WholeTyped DEF MoveAside
<1>3. ASSUME NEW contents, contents \subseteq Contents(entry[Target(p)]), job[p].at # "idle", Replaced(p, contents)
      PROVE  replaced' \subseteq Content
  BY <1>0, <1>3, WholeTyped DEF Replaced
<1>4. CASE OpenFile(p) \/ OpenAgain(p) \/ UnlinkUnopened(p)
  <2>1. job[p].at \in {"open", "reopen"} /\ job[p] \in Job /\ entry[Target(p)] \in Entry
    BY <1>0, <1>4, JobTyped DEF OpenFile, OpenAgain, UnlinkUnopened, TypeOK
  <2>2. PICK c \in Part :
          \/ replaced' = replaced
          \/ Writable(p, c) /\ Replaced(p, Overwritten(p, c))
    BY <1>4, <2>1 DEF OpenFile, OpenAgain, UnlinkUnopened, Unlinkable, Writable, Job, Part
  <2>3. Writable(p, c) => Overwritten(p, c) \subseteq Contents(entry[Target(p)])
    BY <2>2 DEF Writable, Overwritten, Contents, ChildrenOf, Part
  <2> QED
    BY <1>1, <1>3, <2>1, <2>2, <2>3
<1>5. CASE RenameSource(p) \/ RetryRename(p) \/ RemoveTarget(p, "replace", "retry") \/ RemoveTarget(p, "unlink", "copy")
  <2>1. job[p].at # "idle"
    BY <1>5 DEF RenameSource, RetryRename, RemoveTarget
  <2>2. replaced' = replaced \/ Replaced(p, Contents(entry[Target(p)]))
    BY <1>5 DEF RenameSource, RetryRename, RemoveTarget
  <2> QED
    BY <1>1, <1>3, <2>1, <2>2
<1>6. CASE ~ (MoveAside(p) \/ OpenFile(p) \/ OpenAgain(p) \/ UnlinkUnopened(p) \/ RenameSource(p) \/ RetryRename(p)
              \/ RemoveTarget(p, "replace", "retry") \/ RemoveTarget(p, "unlink", "copy"))
  BY <1>0, <1>6 DEF Step, Begin, StatSource, StatTarget, ChooseBackup, LstatTarget, RenameFails, StartCopy,
              DirectoryFails, OpenFileFails, OpenAgainFails, CopyContents, CopyContentsFails, CopyDone, RemoveSource, RemoveSourceFails, Kill
<1> QED
  BY <1>2, <1>4, <1>5, <1>6

LEMMA TypedAfter ==
  ASSUME TypeOK, NEW p \in Proc, Step(p), StepJob(p), StepFiles(p)
  PROVE  TypeOK'
<1>1. ASSUME NEW q \in Proc, q \in Present' PROVE job'[q].at = "write"
  <2>1. PICK x \in Path, k \in Part : At(entry'[x], k) = q
    BY <1>1, ContentsAreParts DEF StepFiles, Present
  <2>2. CASE q = p
    BY <2>1, <2>2 DEF StepFiles
  <2>3. CASE q # p
    <3>1. \E y \in Path : At(entry[y], k) = q
      BY <2>1, <2>3, FileSystemAssumption DEF StepFiles, Content
    <3>2. q \in Present
      BY <3>1, PresentParts, FileSystemAssumption DEF TypeOK, Content
    <3> QED
      BY <2>3, <3>2 DEF TypeOK, StepJob
  <2> QED
    BY <2>2, <2>3
<1> QED
  BY <1>1, BoundsAfter, ReplacedAfter DEF TypeOK, StepJob, StepFiles, JobTypes

(* What the step of p relies on of the others, and they of it.              *)
LEMMA PutApart ==
  ASSUME TypeOK, NEW p \in Proc, JobOK(p), job[p].at # "idle"
  PROVE  /\ Put(p) \in Name => Put(p) = Target(p) /\ From(p) = Source(p)
         /\ Put(p) \notin Name => job[p].at = "aside" /\ Put(p) \in {Target(p)} \X (0 .. MaxBackup) /\ Spares(job[p].cmd)
<1>1. CASE job[p].at = "aside"
  BY <1>1, JobTyped, FileSystemAssumption DEF JobOK, Put, Target, Spares
<1>2. CASE job[p].at # "aside"
  BY <1>2, JobTyped DEF Put, From
<1> QED
  BY <1>1, <1>2

LEMMA SourceApart ==
  ASSUME Separate, TypeOK, NEW p \in Proc, JobOK(p), job[p].at # "idle",
         NEW q \in Proc, JobOK(q), job[q].at # "idle", Copies(job[q].cmd)
  PROVE  Put(p) # Source(q)
<1>1. Source(q) \in Name /\ Target(q) \in Name /\ Source(q) # Target(q)
  BY JobTyped, CommandAssumption DEF JobOK, Source, Target
<1>2. Target(p) # Source(q)
  BY <1>1 DEF Separate, JobOK, Source, Target
<1> QED
  BY <1>1, <1>2, PutApart

LEMMA TargetApart ==
  ASSUME Separate, TypeOK, NEW p \in Proc, JobOK(p), job[p].at # "idle",
         NEW q \in Proc, JobOK(q), job[q].at # "idle", Spares(job[q].cmd), p # q
  PROVE  Put(p) # Target(q) /\ Target(p) # Target(q)
<1>1. Target(q) \in Name /\ Target(p) # Target(q)
  BY JobTyped DEF Separate, JobOK, Target, Spares
<1> QED
  BY <1>1, PutApart

(* Which steps p can take where it is; a killed process stops.              *)
LEMMA StepWhere ==
  ASSUME NEW p \in Proc, Step(p), ~ Kill(p)
  PROVE  /\ job[p].at = "idle" => Begin(p)
         /\ job[p].at = "source" => StatSource(p)
         /\ job[p].at = "target" => StatTarget(p)
         /\ job[p].at = "backup" => ChooseBackup(p)
         /\ job[p].at = "aside" => MoveAside(p)
         /\ job[p].at = "lstat" => LstatTarget(p)
         /\ job[p].at = "rename" => RenameSource(p) \/ RenameFails(p)
         /\ job[p].at = "replace" => RemoveTarget(p, "replace", "retry")
         /\ job[p].at = "retry" => RetryRename(p)
         /\ job[p].at = "unlink" => RemoveTarget(p, "unlink", "copy")
         /\ job[p].at = "copy" => StartCopy(p) \/ DirectoryFails(p)
         /\ job[p].at = "open" => \/ OpenFile(p) \/ OpenFileFails(p) \/ UnlinkUnopened(p)
                                 \/ CopyDone(p) \/ DirectoryFails(p)
         /\ job[p].at = "reopen" => OpenAgain(p) \/ OpenAgainFails(p)
         /\ job[p].at = "write" => CopyContents(p) \/ CopyContentsFails(p)
         /\ job[p].at = "remove" => RemoveSource(p) \/ RemoveSourceFails(p)
BY DEF Step, Begin, StatSource, StatTarget, ChooseBackup, MoveAside, LstatTarget, RenameSource, RenameFails,
       RetryRename, RemoveTarget, StartCopy, DirectoryFails, OpenFile, OpenFileFails, UnlinkUnopened, OpenAgain,
       OpenAgainFails, CopyContents, CopyContentsFails, CopyDone, RemoveSource, RemoveSourceFails

LEMMA Killed ==
  ASSUME TypeOK, NEW p \in Proc, Kill(p)
  PROVE  job'[p].at = "idle"
BY DEF Kill, Done, Idle, TypeOK

LEMMA OpenAtTargetAfter ==
  ASSUME Separate, IInv, NEW p \in Proc, Step(p), StepJob(p), StepFiles(p), TypeOK'
  PROVE  OpenAtTarget'
<1> SUFFICES ASSUME NEW q \in Proc, NEW x \in Name, NEW k \in Part,
                    At(entry'[x], k) = q, OthersCopy(q)
             PROVE  x = Target(q)'
  BY DEF OpenAtTarget, OthersCopy
<1>0. x \in Path /\ q # Absent
  BY FileSystemAssumption DEF Path, Content
<1>1. CASE At(entry[x], k) = q
  <2>1. x = Target(q) /\ job[q].at = "write"
    BY <1>0, <1>1, NotOpen DEF IInv, OpenAtTarget
  <2>2. q # p
    BY <1>0, <2>1 DEF StepJob, StepFiles
  <2> QED
    BY <2>1, <2>2 DEF StepJob, Target
<1>2. CASE At(entry[x], k) # q
  <2>1. job[p].at # "idle"
    BY <1>2, StepWhere DEF Begin, Kill
  <2>2. x = Target(p)
    BY <1>0, <1>2, <2>1, PutApart DEF IInv, StepFiles
  <2>3. CASE q = p
    <3>1. job'[p].at = "write"
      BY <1>0, <2>3 DEF StepFiles
    <3> QED
      BY <2>1, <2>2, <2>3, <3>1 DEF StepJob, Target
  <2>4. CASE q # p
    <3>1. At(entry[Source(p)], k) = q
      BY <1>0, <1>2, <2>1, <2>4, PutApart DEF IInv, StepFiles
    <3>2. Source(p) = Target(q) /\ job[q].at = "write"
      BY <2>1, <3>1, JobTyped, NotOpen DEF IInv, OpenAtTarget
    <3>3. job[q].cmd \in Commands[q] /\ Copies(job[q].cmd) /\ job[p].cmd \in Commands[p]
      BY <2>1, <3>2 DEF IInv, JobOK, Beyond, Copying
    <3>4. ~ OthersCopy(q)
      BY <2>4, <3>2, <3>3 DEF Separate, OthersCopy, Source, Target
    <3> QED
      BY <3>4
  <2> QED
    BY <2>3, <2>4
<1> QED
  BY <1>1, <1>2

LEMMA CleanAfter ==
  ASSUME Separate, IInv, NEW p \in Proc, Step(p), StepJob(p), StepFiles(p), TypeOK', NEW q \in Proc
  PROVE  Clean(q)'
<1> SUFFICES ASSUME job'[q].at \in Copying, NEW k \in Part
             PROVE  At(entry'[Source(q)'], k) \notin Proc
  BY DEF Clean
<1>1. job[q].at \in Copying \cup {"copy"} /\ job'[q].cmd = job[q].cmd /\ (q # p => job'[q] = job[q])
  BY DEF StepJob, Copying, IInv, TypeOK
<1>2. Source(q)' = Source(q) /\ Copies(job[q].cmd) /\ job[q].at # "idle"
  BY <1>1 DEF Source, IInv, JobOK, Beyond, Copying
<1>3. At(entry[Source(q)], k) \notin Proc
  <2>1. CASE job[q].at \in Copying
    BY <2>1 DEF IInv, Clean
  <2>2. ASSUME job[q].at = "copy", NEW r \in Proc, At(entry[Source(q)], k) = r PROVE FALSE
    <3>1. Source(q) \in Path /\ Source(q) \in Name
      BY <1>2, JobTyped DEF IInv
    <3>2. job[r].at = "write" /\ r # q
      BY <2>2, <3>1, NotOpen DEF IInv
    <3>3. /\ job[r].cmd \in Commands[r] /\ job[q].cmd \in Commands[q]
          /\ Copies(job[r].cmd)
      BY <1>2, <3>2 DEF IInv, JobOK, Beyond, Copying
    <3>4. OthersCopy(r)
      BY <1>2, <3>2, <3>3 DEF OthersCopy
    <3>5. Source(q) = Target(r)
      BY <2>2, <3>1, <3>4 DEF IInv, OpenAtTarget
    <3> QED
      BY <1>2, <3>2, <3>3, <3>5 DEF Separate, Source, Target
  <2> QED
    BY <1>1, <2>1, <2>2
<1>4. CASE job[p].at = "idle"
  BY <1>2, <1>3, <1>4, StepWhere DEF Begin, Kill
<1>5. CASE job[p].at # "idle"
  <2>1. Source(q) # Put(p) /\ Source(q) \in Path
    BY <1>2, <1>5, SourceApart, JobTyped DEF IInv
  <2> QED
    BY <1>2, <1>3, <2>1, FileSystemAssumption DEF StepFiles, Content
<1> QED
  BY <1>4, <1>5

(* What p has finished is copied, or was reported.                          *)
LEMMA Finished ==
  ASSUME IInv, NEW p \in Proc, Step(p), StepJob(p), StepFiles(p), job'[p].at \in Copying,
         NEW k \in Part, k \notin job'[p].left, NEW d \in Data \ (replaced' \cup reported'),
         At(entry[Source(p)], k) = d, job[p].at \in Copying => k \in job[p].left
  PROVE  \E y \in Path, l \in Part : At(entry[y], l) = p /\ At(entry'[y], l) = d
<1>0. /\ job[p] \in Job /\ JobTypes /\ job[p].at \in Copying \cup {"copy"} /\ d # Absent
      /\ Source(p) \in Path /\ entry \in [Path -> Entry] /\ JobOK(p) /\ entry[Source(p)] \in Entry
  BY JobTyped, FileSystemAssumption DEF IInv, TypeOK, StepJob, Copying, Content, JobTypes
<1>1. CASE job[p].at = "copy"
  <2>1. /\ entry[Source(p)] # Absent
        /\ job' = [job EXCEPT ![p].at = "open", ![p].left =
                    IF IsDir(entry[Source(p)]) THEN ChildrenOf(entry[Source(p)]) ELSE {Self}]
    BY <1>0, <1>1, StepWhere, Killed DEF StartCopy, DirectoryFails, Done, Idle, JobTypes, Copying, IInv
  <2>2. job'[p].left = IF IsDir(entry[Source(p)]) THEN ChildrenOf(entry[Source(p)]) ELSE {Self}
    BY <1>0, <2>1 DEF JobTypes, Job
  <2> QED
    BY <1>0, <2>2, KindOfEntry DEF At, ChildrenOf, Part
<1>2. CASE job[p].at = "open"
  <2>1. PICK c \in job[p].left : Skipped(p, c)
    <3>1. OpenFile(p) \/ OpenFileFails(p) \/ UnlinkUnopened(p)
      BY <1>0, <1>2, StepWhere, Killed DEF CopyDone, DirectoryFails, Done, Idle, Goto, JobTypes, Copying, IInv, Job
    <3>2. ASSUME NEW c \in job[p].left, NEW e, NEW place \in {"write", "reopen"},
                 job' = [job EXCEPT ![p].at = place, ![p].copying = c, ![p].reading = e]
          PROVE  FALSE
      BY <1>0, <1>2, <3>2 DEF JobTypes, Job, Copying
    <3> QED
      BY <3>1, <3>2 DEF OpenFile, OpenFileFails, UnlinkUnopened
  <2>2. c # Self /\ job'[p].left = job[p].left \ {c}
    BY <1>0, <2>1 DEF Skipped, Done, Idle, JobTypes, Job, Copying
  <2>3. k = c
    BY <1>0, <1>2, <2>2 DEF Copying
  <2>4. Read(p, c) = d
    BY <2>3 DEF Read, At
  <2> QED
    BY <2>1, <2>4 DEF Skipped
<1>3. CASE job[p].at = "write"
  <2>0. CopyContents(p) \/ CopyContentsFails(p)
    BY <1>0, <1>3, StepWhere, Killed DEF Copying, IInv
  <2>1. k = job[p].copying /\ job[p].reading = d
    <3>1. job'[p].left = job[p].left \ {job[p].copying}
      BY <1>0, <1>3, <2>0 DEF CopyContents, CopyContentsFails, Skipped, Done, Idle, JobTypes, Job, Copying
    <3>2. k = job[p].copying
      BY <1>3, <3>1 DEF Copying
    <3>3. Read(p, k) = d
      BY DEF Read, At
    <3> QED
      BY <1>0, <1>3, <3>2, <3>3 DEF JobOK
  <2>2. CASE CopyContents(p)
    <3>1. PICK y \in Path, l \in Part : At(entry[y], l) = p
      BY <1>0, <1>3, <2>1, FileSystemAssumption DEF JobOK, StepFiles
    <3>2. At(entry'[y], l) = d
      BY <1>0, <2>1, <2>2, <3>1, EndsParts DEF CopyContents, Content
    <3> QED
      BY <3>1, <3>2
  <2>3. CASE CopyContentsFails(p)
    BY <2>1, <2>3 DEF CopyContentsFails, Skipped
  <2> QED
    BY <2>0, <2>2, <2>3
<1>4. CASE job[p].at = "reopen"
  <2>1. Skipped(p, job[p].copying)
    <3>1. OpenAgain(p) \/ OpenAgainFails(p)
      BY <1>0, <1>4, StepWhere, Killed DEF Copying, IInv
    <3>2. ~ Goto(p, "write")
      BY <1>0, <1>4 DEF Goto, JobTypes, Job, Copying
    <3> QED
      BY <3>1, <3>2 DEF OpenAgain, OpenAgainFails
  <2>2. k = job[p].copying
    <3>1. job'[p].left = job[p].left \ {job[p].copying}
      BY <1>0, <2>1 DEF Skipped, Done, Idle, JobTypes, Job, Copying
    <3> QED
      BY <1>4, <3>1 DEF Copying
  <2>3. Read(p, job[p].copying) = d
    BY <2>2 DEF Read, At
  <2> QED
    BY <2>1, <2>3 DEF Skipped
<1>5. job[p].at # "remove"
  BY <1>0 DEF JobOK, Copying
<1> QED
  BY <1>0, <1>1, <1>2, <1>3, <1>4, <1>5 DEF Copying

LEMMA KeptAfter ==
  ASSUME Separate, IInv, NEW p \in Proc, Step(p), StepJob(p), StepFiles(p)
  PROVE  Kept'
<1> SUFFICES ASSUME NEW d \in Data \ (replaced' \cup reported')
             PROVE  Safe(d)'
  BY DEF Kept
<1> DEFINE DoomedNext(x, k) ==
             \E q \in Proc : job'[q].at \in Copying /\ Source(q)' = x /\ k \notin job'[q].left
<1>0. d # Absent /\ d \notin Proc
  BY FileSystemAssumption DEF Content
<1>1. PICK x \in Path, k \in Part : At(entry[x], k) = d /\ ~ Doomed(x, k)
  BY DEF StepFiles, IInv, Kept, Safe
<1>2. ASSUME NEW q \in Proc, job'[q].at \in Copying
      PROVE  /\ Source(q)' = Source(q) /\ job[q].at # "idle" /\ Copies(job[q].cmd)
             /\ q # p => job'[q] = job[q]
  <2>1. job[q].at \in Copying \cup {"copy"} /\ job'[q].cmd = job[q].cmd /\ (q # p => job'[q] = job[q])
    BY <1>2 DEF StepJob, Copying, IInv, TypeOK
  <2> QED
    BY <2>1 DEF Source, IInv, JobOK, Beyond, Copying
<1>3. CASE At(entry'[x], k) = d /\ ~ DoomedNext(x, k)
  BY <1>3 DEF Safe, Doomed
<1>4. CASE At(entry'[x], k) = d /\ DoomedNext(x, k)
  <2>1. PICK q \in Proc : job'[q].at \in Copying /\ Source(q)' = x /\ k \notin job'[q].left
    BY <1>4
  <2>2. q = p
    BY <1>1, <1>2, <2>1 DEF Doomed
  <2>3. Source(p) = x /\ (job[p].at \in Copying => k \in job[p].left)
    BY <1>1, <1>2, <2>1, <2>2 DEF Doomed
  <2>4. PICK y \in Path, l \in Part : At(entry[y], l) = p /\ At(entry'[y], l) = d
    BY <1>1, <2>1, <2>2, <2>3, Finished
  <2>5. ~ DoomedNext(y, l)
    <3> SUFFICES ASSUME NEW r \in Proc, job'[r].at \in Copying, Source(r)' = y
                 PROVE  FALSE
      OBVIOUS
    <3>1. Source(r) = y
      BY <1>2
    <3>2. job[r].at \in Copying
      <4>1. job[p].at = "write"
        BY <2>4, NotOpen DEF IInv
      <4> QED
        BY <1>2, <4>1 DEF Copying
    <3> QED
      BY <2>4, <3>1, <3>2 DEF IInv, Clean
  <2> QED
    BY <2>4, <2>5 DEF Safe, Doomed
<1>5. CASE At(entry'[x], k) # d
  <2>1. job[p].at # "idle"
    BY <1>1, <1>5, StepWhere DEF Begin, Kill
  <2>2. ~ (job[p].at = "remove" /\ x = Source(p))
    BY <1>1 DEF Doomed, IInv, JobOK, Copying
  <2>3. At(entry'[Put(p)], k) = d /\ Put(p) \in Path
    BY <1>0, <1>1, <1>5, <2>2 DEF IInv, StepFiles, Destroyed
  <2>4. ~ DoomedNext(Put(p), k)
    <3> SUFFICES ASSUME NEW r \in Proc, job'[r].at \in Copying, Source(r)' = Put(p)
                 PROVE  FALSE
      OBVIOUS
    <3> QED
      BY <1>2, <2>1, SourceApart DEF IInv
  <2> QED
    BY <2>3, <2>4 DEF Safe, Doomed
<1> QED
  BY <1>3, <1>4, <1>5

(* The step of another process leaves p where JobOK has it.                 *)
LEMMA OtherJobAfter ==
  ASSUME Separate, IInv, NEW p \in Proc, Step(p), StepJob(p), StepFiles(p), NEW q \in Proc, q # p
  PROVE  JobOK(q)'
<1> SUFFICES ASSUME job[q].at # "idle"
             PROVE  JobOK(q)'
  BY DEF JobOK, StepJob
<1> USE DEF IInv
<1>0. /\ job'[q] = job[q] /\ JobOK(q) /\ Source(q)' = Source(q) /\ Target(q)' = Target(q)
      /\ Source(q) \in Path /\ Target(q) \in Name /\ Target(q) \in Path /\ q # Absent
      /\ job[q] \in Job /\ replaced \subseteq replaced'
  BY JobTyped, FileSystemAssumption DEF StepJob, StepFiles, Source, Target, Content
<1>1. CASE job[p].at = "idle"
  <2>1. entry' = entry /\ replaced' = replaced
    BY <1>1, StepWhere DEF Begin, Kill
  <2> QED
    BY <1>0, <2>1 DEF JobOK, Read
<1>2. CASE job[p].at # "idle"
  <2>1. Copies(job[q].cmd) => Put(p) # Source(q)
    BY <1>2, SourceApart
  <2>2. Spares(job[q].cmd) => Put(p) # Target(q)
    BY <1>2, TargetApart
  <2>3. ASSUME job[q].at \in {"reopen", "write"}
        PROVE  /\ Read(q, job[q].copying)' \in {job[q].reading, Absent}
               /\ \/ job[q].at = "reopen"
                  \/ job[q].reading \in replaced' \cup {Partial}
                  \/ \E x \in Path, k \in Part : At(entry'[x], k) = q
    <3>1. Copies(job[q].cmd) /\ job[q].copying \in Part /\ Clean(q)
      BY <1>0, <2>3 DEF JobOK, Beyond, Copying, Job, Part
    <3>2. Read(q, job[q].copying) = At(entry[Source(q)], job[q].copying)
      BY DEF Read, At
    <3>3. Read(q, job[q].copying)' = At(entry'[Source(q)], job[q].copying)
      BY <1>0 DEF Read, At
    <3>4. At(entry'[Source(q)], job[q].copying) \in {Absent, At(entry[Source(q)], job[q].copying)}
      BY <1>0, <2>1, <2>3, <3>1 DEF StepFiles, Clean, Copying
    <3>5. ASSUME NEW x \in Path, NEW k \in Part, At(entry[x], k) = q
          PROVE  job[q].reading \in replaced' \/ \E y \in Path, l \in Part : At(entry'[y], l) = q
      <4>1. ~ (job[p].at = "remove" /\ x = Source(p))
        BY <3>5 DEF Clean, Copying
      <4> QED
        BY <1>0, <3>5, <4>1 DEF StepFiles, Destroyed
    <3> QED
      BY <1>0, <2>3, <3>2, <3>3, <3>4, <3>5 DEF JobOK
  <2>4. ASSUME job[q].at = "aside", job[q].aside[2] # 0
        PROVE  entry'[job[q].aside] = Absent
    <3>1. Spares(job[q].cmd) /\ job[q].aside \in Path /\ job[q].aside \in {Target(q)} \X (0 .. MaxBackup)
      BY <1>0, <2>4 DEF JobOK, Spares, Job, Target
    <3>2. job[q].aside # Put(p)
      <4>1. Target(p) # Target(q)
        BY <1>2, <3>1, TargetApart
      <4>2. job[q].aside \notin Name
        BY <1>0, <3>1, FileSystemAssumption
      <4> QED
        BY <1>2, <3>1, <4>1, <4>2, PutApart
    <3>3. entry[job[q].aside] = Absent
      BY <2>4 DEF JobOK
    <3> QED
      BY <3>1, <3>2, <3>3 DEF StepFiles
  <2>5. ASSUME Spares(job[q].cmd), entry[Target(q)] = Absent
        PROVE  entry'[Target(q)] = Absent
    BY <1>0, <2>2, <2>5 DEF StepFiles
  <2>6. ASSUME Spares(job[q].cmd), NEW k \in job[q].left, At(entry[Target(q)], k) = Absent
        PROVE  At(entry'[Target(q)], k) = Absent
    <3>1. k \in Part
      BY <1>0 DEF Job, Part
    <3> QED
      BY <1>0, <2>2, <2>6, <3>1, FileSystemAssumption DEF StepFiles, Content
  <2> QED
    BY <1>0, <2>3, <2>4, <2>5, <2>6 DEF JobOK
<1> QED
  BY <1>1, <1>2

LEMMA OwnShapeAfter ==
  ASSUME TypeOK, NEW p \in Proc, JobShape(p), Step(p), StepJob(p), StepFiles(p)
  PROVE  JobShape(p)'
<1> SUFFICES ASSUME job'[p].at # "idle"
             PROVE  JobShape(p)'
  OBVIOUS
<1>0. JobTypes /\ ~ Kill(p) /\ (job[p].at # "idle" => job[p] \in Job)
  BY JobTyped, Killed DEF TypeOK, JobTypes
<1>10. ~ Done(p)
  BY <1>0 DEF Done, Idle, JobTypes
<1>11. ASSUME job[p].at # "idle"
       PROVE  /\ \A place : Goto(p, place) => job'[p].at = place /\ (MayReplace(job[p]) => MayReplace(job'[p]))
              /\ \A c : Skipped(p, c) => job'[p].at = "open"
  <2>1. job[p] \in Job
    BY <1>0, <1>11
  <2>2. ASSUME NEW place, Goto(p, place)
        PROVE  job'[p].at = place /\ (MayReplace(job[p]) => MayReplace(job'[p]))
    BY <1>0, <2>1, <2>2 DEF Goto, Job, JobTypes, MayReplace
  <2>3. ASSUME NEW c, Skipped(p, c) PROVE job'[p].at = "open"
    <3>1. job' = [job EXCEPT ![p].at = "open", ![p].status = 1, ![p].left = @ \ {c}, ![p].reading = Partial]
      BY <1>10, <2>3 DEF Skipped
    <3> QED
      BY <1>0, <2>1, <3>1 DEF Job, JobTypes
  <2> QED
    BY <2>2, <2>3
<1>1. CASE job[p].at = "idle"
  BY <1>0, <1>1, StepWhere DEF Begin, JobTypes, Beyond, Copying
<1>2. ASSUME job[p].at # "idle" PROVE job'[p].cmd = job[p].cmd /\ job[p].cmd \in Commands[p]
  BY <1>2 DEF StepJob
<1>3. CASE job[p].at \in {"source", "target", "aside", "lstat", "retry"}
  <2>1. job'[p].at \in {"target", "lstat", "backup", "rename"}
    <3>1. job[p] \in Job
      BY <1>0, <1>3
    <3>2. CASE job[p].at = "source"
      <4>1. PICK b : job' = [job EXCEPT ![p].at = "target", ![p].sourceDir = b]
        BY <1>0, <1>10, <3>2, StepWhere DEF StatSource
      <4> QED
        BY <1>0, <3>1, <4>1 DEF Job, JobTypes
    <3>3. CASE job[p].at = "target"
      <4>1. \/ Goto(p, "lstat")
            \/ \E b : job' = [job EXCEPT ![p].at = "backup", ![p].targetSeen = TRUE, ![p].targetDir = b]
        BY <1>0, <1>10, <3>3, StepWhere DEF StatTarget
      <4>2. ASSUME NEW b, job' = [job EXCEPT ![p].at = "backup", ![p].targetSeen = TRUE, ![p].targetDir = b]
            PROVE  job'[p].at = "backup"
        BY <1>0, <3>1, <4>2 DEF Job, JobTypes
      <4> QED
        BY <1>11, <3>3, <4>1, <4>2
    <3>4. CASE job[p].at = "aside"
      <4>1. job' = [job EXCEPT ![p].at = "lstat", ![p].moved = TRUE]
        BY <1>0, <1>10, <3>4, StepWhere DEF MoveAside
      <4> QED
        BY <1>0, <3>1, <4>1 DEF Job, JobTypes
    <3>5. CASE job[p].at = "lstat"
      <4>1. PICK b : job' = [job EXCEPT ![p].at = "rename", ![p].existed = b]
        BY <1>0, <3>5, StepWhere DEF LstatTarget
      <4> QED
        BY <1>0, <3>1, <4>1 DEF Job, JobTypes
    <3>6. CASE job[p].at = "retry"
      BY <1>0, <1>10, <3>6, StepWhere DEF RetryRename
    <3> QED
      BY <1>3, <3>2, <3>3, <3>4, <3>5, <3>6
  <2> QED
    BY <1>2, <1>3, <2>1 DEF Beyond, Copying
<1>4. CASE job[p].at = "backup"
  <2>1. CASE Goto(p, "lstat")
    BY <1>0, <1>2, <1>4, <2>1 DEF Goto, Job, JobTypes, Beyond, Copying
  <2>2. ASSUME NEW aside \in BackupNames(Target(p), job[p].cmd.backup),
               job' = [job EXCEPT ![p].at = "aside", ![p].aside = aside]
        PROVE  JobShape(p)'
    <3>1. job'[p].aside = aside /\ job'[p].at = "aside" /\ Target(p) \in Name
      BY <1>0, <1>4, <2>2, JobTyped DEF Job, JobTypes
    <3> QED
      BY <1>2, <1>4, <3>1, BackupsNamed DEF Target, Beyond, Copying
  <2> QED
    BY <1>0, <1>4, <2>1, <2>2, StepWhere DEF ChooseBackup, Target, Done, Idle, JobTypes
<1>5. CASE job[p].at = "rename"
  <2>1. \/ Copies(job[p].cmd) /\ Goto(p, IF job[p].existed THEN "unlink" ELSE "copy")
        \/ MayReplace(job[p]) /\ Goto(p, "replace")
    <3>1. RenameSource(p) \/ RenameFails(p)
      BY <1>0, <1>5, StepWhere
    <3>2. RenameError(Source(p), Target(p)) = "EXDEV" => Copies(job[p].cmd)
      <4>1. Source(p) \in Name /\ Target(p) \in Name
        BY <1>5, JobTyped
      <4> QED
        BY <4>1 DEF RenameError, Copies, Source, Target
    <3> QED
      BY <1>10, <3>1, <3>2 DEF RenameSource, RenameFails, RenameRefused
  <2>2. \/ job'[p].at \in {"unlink", "copy"} /\ Copies(job[p].cmd)
        \/ job'[p].at = "replace" /\ MayReplace(job'[p])
    <3>1. CASE Copies(job[p].cmd) /\ Goto(p, IF job[p].existed THEN "unlink" ELSE "copy")
      <4>1. Copies(job[p].cmd) /\ (Goto(p, "unlink") \/ Goto(p, "copy"))
        BY <3>1
      <4>2. job'[p].at \in {"unlink", "copy"}
        BY <1>5, <1>11, <4>1
      <4> QED
        BY <4>1, <4>2
    <3>2. CASE MayReplace(job[p]) /\ Goto(p, "replace")
      BY <1>5, <1>11, <3>2
    <3> QED
      BY <2>1, <3>1, <3>2
  <2> QED
    BY <1>2, <1>5, <2>2 DEF Beyond, Copying
<1>6. CASE job[p].at = "replace"
  <2>1. Goto(p, "retry")
    BY <1>0, <1>6, StepWhere DEF RemoveTarget, Done, Idle, JobTypes
  <2> QED
    BY <1>0, <1>2, <1>6, <2>1 DEF Goto, Job, JobTypes, MayReplace, Beyond, Copying
<1>7. CASE job[p].at \in Beyond
  <2>1. job'[p].at \in Beyond
    <3>1. CASE job[p].at = "unlink"
      BY <1>0, <1>10, <1>11, <3>1, StepWhere DEF RemoveTarget, Beyond
    <3>2. CASE job[p].at = "copy"
      <4>1. job[p] \in Job /\ StartCopy(p)
        BY <1>0, <1>10, <3>2, StepWhere DEF DirectoryFails
      <4>2. PICK left : job' = [job EXCEPT ![p].at = "open", ![p].left = left]
        BY <1>10, <4>1 DEF StartCopy
      <4> QED
        BY <1>0, <4>1, <4>2 DEF Job, JobTypes, Beyond, Copying
    <3>3. CASE job[p].at = "open"
      <4>1. \/ \E c \in job[p].left : Skipped(p, c)
            \/ \E c \in job[p].left, place \in {"write", "reopen"} : \E d :
                  job' = [job EXCEPT ![p].at = place, ![p].copying = c, ![p].reading = d]
            \/ Goto(p, "remove")
        <5>1. OpenFile(p) \/ OpenFileFails(p) \/ UnlinkUnopened(p) \/ CopyDone(p)
          BY <1>0, <1>10, <3>3, StepWhere DEF DirectoryFails
        <5> QED
          BY <5>1 DEF OpenFile, OpenFileFails, UnlinkUnopened, CopyDone
      <4>2. ASSUME NEW c, NEW place \in {"write", "reopen"}, NEW d,
                   job' = [job EXCEPT ![p].at = place, ![p].copying = c, ![p].reading = d]
            PROVE  job'[p].at = place
        BY <1>0, <3>3, <4>2 DEF Job, JobTypes
      <4> QED
        BY <1>11, <3>3, <4>1, <4>2 DEF Beyond, Copying
    <3>4. CASE job[p].at = "reopen"
      BY <1>0, <1>11, <3>4, StepWhere DEF OpenAgain, OpenAgainFails, Beyond, Copying
    <3>5. CASE job[p].at = "write"
      <4>1. job[p] \in Job /\ (CopyContents(p) \/ CopyContentsFails(p))
        BY <1>0, <3>5, StepWhere
      <4>2. CASE CopyContents(p)
        <5>1. job' = [job EXCEPT ![p].at = "open", ![p].left = @ \ {job[p].copying}, ![p].reading = Partial]
          BY <4>2 DEF CopyContents
        <5> QED
          BY <1>0, <4>1, <5>1 DEF Job, JobTypes, Beyond, Copying
      <4>3. CASE CopyContentsFails(p)
        BY <1>11, <3>5, <4>3 DEF CopyContentsFails, Beyond, Copying
      <4> QED
        BY <4>1, <4>2, <4>3
    <3>6. CASE job[p].at = "remove"
      BY <1>0, <1>10, <3>6, StepWhere DEF RemoveSource, RemoveSourceFails, Beyond, Copying
    <3> QED
      BY <1>7, <3>1, <3>2, <3>3, <3>4, <3>5, <3>6 DEF Beyond, Copying
  <2> QED
    BY <1>2, <1>7, <2>1 DEF Beyond, Copying
<1> QED
  BY <1>0, <1>1, <1>3, <1>4, <1>5, <1>6, <1>7 DEF Job, Places, Beyond, Copying

LEMMA OwnJobAfter ==
  ASSUME IInv, NEW p \in Proc, Step(p), StepJob(p), StepFiles(p)
  PROVE  JobOK(p)'
<1> SUFFICES ASSUME job'[p].at # "idle"
             PROVE  JobOK(p)'
  BY DEF JobOK
<1>0. /\ JobTypes /\ entry \in [Path -> Entry] /\ JobOK(p) /\ ~ Kill(p)
      /\ job[p].at # "idle" => /\ job[p] \in Job /\ job[p].cmd \in Command /\ Source(p) \in Name /\ Target(p) \in Name
                               /\ Source(p) \in Path /\ Target(p) \in Path /\ Source(p) # Target(p)
  BY JobTyped, Killed, CommandAssumption DEF IInv, TypeOK, JobTypes, JobOK, Source, Target
<1>1. CASE job[p].at = "idle"
  BY <1>0, <1>1, StepWhere DEF Begin, JobTypes, JobOK, Beyond, Copying
<1>2. CASE job[p].at = "source"
  <2>1. job'[p].at = "target" /\ job'[p].cmd = job[p].cmd
    <3>1. PICK b \in BOOLEAN : job' = [job EXCEPT ![p].at = "target", ![p].sourceDir = b]
      <4>1. ~ Done(p)
        BY <1>0 DEF Done, Idle, JobTypes
      <4>2. IsDir(entry[Source(p)]) \in BOOLEAN
        BY DEF IsDir
      <4> QED
        BY <1>0, <1>2, <4>1, <4>2, StepWhere DEF StatSource
    <3> QED
      BY <1>0, <1>2, <3>1 DEF Job, JobTypes
  <2> QED
    BY <1>0, <1>2, <2>1 DEF JobOK, Beyond, Copying
<1>3. CASE job[p].at = "target"
  <2>1. /\ job'[p].cmd = job[p].cmd /\ entry' = entry
        /\ \/ job'[p].at = "lstat" /\ entry[Target(p)] = Absent
           \/ job'[p].at = "backup" /\ ~ job[p].cmd.noClobber
    <3>1. /\ entry' = entry
          /\ \/ Goto(p, "lstat") /\ entry[Target(p)] = Absent
             \/ /\ ~ job[p].cmd.noClobber
                /\ \E b \in BOOLEAN : job' = [job EXCEPT ![p].at = "backup", ![p].targetSeen = TRUE, ![p].targetDir = b]
      <4>1. ~ Done(p)
        BY <1>0 DEF Done, Idle, JobTypes
      <4>2. IsDir(entry[Target(p)]) \in BOOLEAN
        BY DEF IsDir
      <4> QED
        BY <1>0, <1>3, <4>1, <4>2, StepWhere DEF StatTarget, Target
    <3> QED
      BY <1>0, <1>3, <3>1 DEF Goto, Job, JobTypes
  <2> QED
    BY <1>0, <1>3, <2>1 DEF JobOK, Beyond, Copying, Target
<1>4. CASE job[p].at = "backup"
  <2>1. ASSUME NEW aside \in BackupNames(Target(p), job[p].cmd.backup), job[p].cmd.backup # "none",
               job' = [job EXCEPT ![p].at = "aside", ![p].aside = aside], entry' = entry
        PROVE  JobOK(p)'
    BY <1>0, <1>4, <2>1, BackupsNamed DEF Job, JobTypes, JobOK, Beyond, Copying, Target
  <2>2. CASE Goto(p, "lstat") /\ entry' = entry /\ (job[p].cmd.backup = "none" \/ entry[Target(p)] = Absent)
    BY <1>0, <1>4, <2>2 DEF Goto, Job, JobTypes, JobOK, Beyond, Copying, Target, Spares
  <2> QED
    BY <1>0, <1>4, <2>1, <2>2, StepWhere DEF ChooseBackup, Target, Done, JobTypes, Idle
<1>5. CASE job[p].at = "aside"
  <2>1. /\ job' = [job EXCEPT ![p].at = "lstat", ![p].moved = TRUE]
        /\ entry' = Renamed(Target(p), job[p].aside)
    BY <1>0, <1>5, StepWhere DEF MoveAside, Done, Idle, JobTypes
  <2>2. job[p].aside # Target(p)
    BY <1>0, <1>5, FileSystemAssumption DEF JobOK, Target
  <2>3. entry'[Target(p)] = Absent
    BY <1>0, <1>5, <2>1, <2>2 DEF Renamed, Job
  <2> QED
    BY <1>0, <1>5, <2>1, <2>3 DEF Job, JobTypes, JobOK, Beyond, Copying, Target
<1>6. CASE job[p].at = "lstat"
  <2>1. PICK b \in BOOLEAN : /\ b <=> entry[Target(p)] # Absent
                             /\ job' = [job EXCEPT ![p].at = "rename", ![p].existed = b]
    BY <1>0, <1>6, StepWhere DEF LstatTarget
  <2>2. entry' = entry
    BY <1>0, <1>6, StepWhere DEF LstatTarget
  <2> QED
    BY <1>0, <1>6, <2>1, <2>2 DEF Job, JobTypes, JobOK, Beyond, Copying, Target
<1>7. CASE job[p].at = "rename"
  <2>1. /\ entry' = entry
        /\ \/ Copies(job[p].cmd) /\ Goto(p, IF job[p].existed THEN "unlink" ELSE "copy")
           \/ MayReplace(job[p]) /\ job[p].existed /\ Goto(p, "replace")
    BY <1>0, <1>7, StepWhere DEF RenameSource, RenameFails, RenameRefused, RenameError, Copies, Source, Target,
                                 Done, Idle, JobTypes
  <2> QED
    BY <1>0, <1>7, <2>1 DEF Goto, Job, JobTypes, JobOK, Beyond, Copying, Target, MayReplace
<1>8. CASE job[p].at \in {"replace", "unlink"}
  <2>1. Goto(p, IF job[p].at = "replace" THEN "retry" ELSE "copy")
    BY <1>0, <1>8, StepWhere DEF RemoveTarget, Done, Idle, JobTypes
  <2> QED
    BY <1>0, <1>8, <2>1 DEF Goto, Job, JobTypes, JobOK, Beyond, Copying, Target, MayReplace
<1>9. job[p].at # "retry"
  BY <1>0, StepWhere DEF RetryRename, Done, Idle, JobTypes
<1>10. CASE job[p].at = "copy"
  <2>1. /\ job' = [job EXCEPT ![p].at = "open", ![p].left =
                    IF IsDir(entry[Source(p)]) THEN ChildrenOf(entry[Source(p)]) ELSE {Self}]
        /\ \/ entry' = entry
           \/ /\ entry[Target(p)] = Absent
              /\ entry' = Made(Target(p))
    BY <1>0, <1>10, StepWhere DEF StartCopy, DirectoryFails, Done, Idle, JobTypes
  <2>2. /\ job'[p].at = "open" /\ job'[p].cmd = job[p].cmd
        /\ Self \in job'[p].left => job'[p].left = {Self}
        /\ job'[p].left \subseteq Part
    BY <1>0, <1>10, <2>1, FileSystemAssumption DEF Job, JobTypes, ChildrenOf, Part
  <2>3. \A x \in Path, k \in Part : At(entry'[x], k) = At(entry[x], k)
    BY <1>0, <1>10, <2>1, MadeParts
  <2>4. Spares(job[p].cmd) => \A k \in Part : At(entry'[Target(p)], k) = Absent
    BY <1>0, <1>10, <2>3, AbsentParts DEF JobOK
  <2> QED
    BY <1>0, <1>10, <2>2, <2>4 DEF JobOK, Beyond, Copying, Target
<1>11. CASE job[p].at = "open"
  <2>1. CASE CopyDone(p)
    BY <1>0, <1>11, <2>1 DEF CopyDone, Goto, Job, JobTypes, JobOK, Beyond, Copying
  <2>2. ASSUME NEW c \in job[p].left, Skipped(p, c), entry' = entry
        PROVE  JobOK(p)'
    <3>1. /\ job'[p].at = "open" /\ job'[p].cmd = job[p].cmd /\ job'[p].left = job[p].left \ {c} /\ c # Self
      BY <1>0, <1>11, <2>2 DEF Skipped, Done, Idle, Job, JobTypes
    <3> QED
      BY <1>0, <1>11, <2>2, <3>1 DEF JobOK, Beyond, Copying, Target
  <2>3. ASSUME NEW c \in job[p].left, Read(p, c) # Absent, Writable(p, c), entry' = Opened(p, c),
               job' = [job EXCEPT ![p].at = "write", ![p].copying = c, ![p].reading =
                         IF Read(p, c) \in Data THEN Read(p, c) ELSE Partial]
        PROVE  JobOK(p)'
    <3>1. /\ job'[p].at = "write" /\ job'[p].cmd = job[p].cmd /\ job'[p].left = job[p].left
          /\ job'[p].copying = c /\ job'[p].reading = (IF Read(p, c) \in Data THEN Read(p, c) ELSE Partial)
      BY <1>0, <1>11, <2>3 DEF Job, JobTypes
    <3>2. c \in Part /\ job[p].left \subseteq Part
      BY <1>0, <1>11 DEF Job, Part
    <3>3. \A x \in Path, k \in Part :
             At(entry'[x], k) =
               IF x = Target(p) /\ k = c THEN p
               ELSE IF x = Target(p) /\ c = Self THEN Absent ELSE At(entry[x], k)
      BY <1>11, <2>3, <3>2, OpenedParts DEF IInv
    <3>4. Read(p, c) = At(entry[Source(p)], c) /\ Read(p, c)' = At(entry'[Source(p)], c)
      BY <3>1 DEF Read, At, Source
    <3>5. Read(p, c) \in Data \cup {Partial}
      BY <1>0, <1>11, <2>3, <3>2, <3>4, ContentsAreParts DEF IInv, Clean, Copying, Content
    <3>6. Read(p, c)' = job'[p].reading
      BY <1>0, <1>11, <3>1, <3>2, <3>3, <3>4, <3>5
    <3>7. At(entry'[Target(p)], c) = p
      BY <1>0, <1>11, <3>2, <3>3
    <3>8. Spares(job[p].cmd) => \A k \in job[p].left \ {c} : At(entry'[Target(p)], k) = Absent
      BY <1>0, <1>11, <2>3, <3>2, <3>3 DEF JobOK
    <3> QED
      BY <1>0, <1>11, <2>3, <3>1, <3>2, <3>6, <3>7, <3>8 DEF JobOK, Beyond, Copying, Target
  <2>4. ASSUME NEW c \in job[p].left, Read(p, c) # Absent, Unlinkable(p, c), entry' = Unlinked(p, c),
               job' = [job EXCEPT ![p].at = "reopen", ![p].copying = c, ![p].reading =
                         IF Read(p, c) \in Data THEN Read(p, c) ELSE Partial]
        PROVE  JobOK(p)'
    <3>1. /\ job'[p].at = "reopen" /\ job'[p].cmd = job[p].cmd /\ job'[p].left = job[p].left
          /\ job'[p].copying = c /\ job'[p].reading = (IF Read(p, c) \in Data THEN Read(p, c) ELSE Partial)
      BY <1>0, <1>11, <2>4 DEF Job, JobTypes
    <3>2. c \in Part /\ job[p].left \subseteq Part
      BY <1>0, <1>11 DEF Job, Part
    <3>3. /\ entry'[Source(p)] = entry[Source(p)]
          /\ \A k \in Part : At(entry[Target(p)], k) = Absent => At(entry'[Target(p)], k) = Absent
      BY <1>0, <1>11, <2>4, <3>2, UnlinkedParts DEF IInv
    <3>4. Read(p, c) = At(entry[Source(p)], c) /\ Read(p, c)' = At(entry'[Source(p)], c)
      BY <3>1 DEF Read, At, Source
    <3>5. Read(p, c) \in Data \cup {Partial}
      BY <1>0, <1>11, <2>4, <3>2, <3>4, ContentsAreParts DEF IInv, Clean, Copying, Content
    <3>6. Read(p, c)' = job'[p].reading
      BY <3>1, <3>3, <3>4, <3>5
    <3>7. Spares(job[p].cmd) => \A k \in job[p].left : At(entry'[Target(p)], k) = Absent
      BY <1>0, <1>11, <3>2, <3>3 DEF JobOK
    <3> QED
      BY <1>0, <1>11, <2>4, <3>1, <3>6, <3>7 DEF JobOK, Beyond, Copying, Target
  <2>5. ~ DirectoryFails(p)
    BY <1>0 DEF DirectoryFails, Done, Idle, JobTypes
  <2> QED
    BY <1>0, <1>11, <2>1, <2>2, <2>3, <2>4, <2>5, StepWhere DEF OpenFile, OpenFileFails, UnlinkUnopened
<1>12. CASE job[p].at = "write"
  <2>1. PICK d \in Data \cup {Partial} : entry' = Ends(p, d)
    BY <1>0, <1>12, StepWhere DEF CopyContents, CopyContentsFails, Job
  <2>2. job'[p].at = "open" /\ job'[p].cmd = job[p].cmd /\ job'[p].left = job[p].left \ {job[p].copying}
    <3>1. ~ Done(p)
      BY <1>0 DEF Done, Idle, JobTypes
    <3>2. \/ job' = [job EXCEPT ![p].at = "open", ![p].left = @ \ {job[p].copying}, ![p].reading = Partial]
          \/ job' = [job EXCEPT ![p].at = "open", ![p].status = 1, ![p].left = @ \ {job[p].copying}, ![p].reading = Partial]
      BY <1>0, <1>12, <3>1, StepWhere DEF CopyContents, CopyContentsFails, Skipped
    <3> QED
      BY <1>0, <1>12, <3>2 DEF Job, JobTypes
  <2>3. \A k \in Part : At(entry[Target(p)], k) = Absent => At(entry'[Target(p)], k) = Absent
    BY <1>0, <1>12, <2>1, EndsParts, FileSystemAssumption DEF Content
  <2>4. job[p].left \subseteq Part
    BY <1>0, <1>12 DEF Job, Part
  <2> QED
    BY <1>0, <1>12, <2>2, <2>3, <2>4 DEF JobOK, Beyond, Copying, Target
<1>13. CASE job[p].at = "remove"
  BY <1>0, <1>13, StepWhere DEF RemoveSource, RemoveSourceFails, Done, Idle, JobTypes, JobOK, Beyond, Copying
<1>14. CASE job[p].at = "reopen"
  <2> DEFINE c == job[p].copying
  <2>1. c \in Part /\ c \in job[p].left /\ job[p].left \subseteq Part
    BY <1>0, <1>14 DEF JobOK, Job, Part
  <2>2. CASE Skipped(p, c) /\ entry' = entry
    <3>1. /\ job'[p].at = "open" /\ job'[p].cmd = job[p].cmd /\ job'[p].left = job[p].left \ {c} /\ c # Self
      BY <1>0, <1>14, <2>2 DEF Skipped, Done, Idle, Job, JobTypes
    <3> QED
      BY <1>0, <1>14, <2>2, <3>1 DEF JobOK, Beyond, Copying, Target
  <2>3. CASE Writable(p, c) /\ entry' = Opened(p, c) /\ Goto(p, "write")
    <3>1. /\ job'[p].at = "write" /\ job'[p].cmd = job[p].cmd /\ job'[p].left = job[p].left
          /\ job'[p].copying = c /\ job'[p].reading = job[p].reading
      BY <1>0, <1>14, <2>3 DEF Goto, Job, JobTypes
    <3>2. \A x \in Path, k \in Part :
             At(entry'[x], k) =
               IF x = Target(p) /\ k = c THEN p
               ELSE IF x = Target(p) /\ c = Self THEN Absent ELSE At(entry[x], k)
      BY <1>14, <2>1, <2>3, OpenedParts DEF IInv
    <3>3. Read(p, c) = At(entry[Source(p)], c) /\ Read(p, c)' = At(entry'[Source(p)], c)
      BY <3>1 DEF Read, At, Source
    <3>4. At(entry'[Source(p)], c) = At(entry[Source(p)], c)
      BY <1>0, <1>14, <2>1, <3>2
    <3>5. Read(p, c)' \in {job'[p].reading, Absent}
      BY <1>0, <1>14, <3>1, <3>3, <3>4 DEF JobOK
    <3>6. At(entry'[Target(p)], c) = p
      BY <1>0, <1>14, <2>1, <3>2
    <3>7. Spares(job[p].cmd) => \A k \in job[p].left \ {c} : At(entry'[Target(p)], k) = Absent
      BY <1>0, <1>14, <2>1, <3>2 DEF JobOK
    <3>8. entry'[Target(p)] # Absent /\ Target(p)' = Target(p) /\ Target(p) \in Path
      <4>1. p # Absent
        BY FileSystemAssumption DEF Content
      <4> QED
        BY <1>0, <1>14, <2>1, <3>1, <3>6, <4>1, AbsentParts DEF Target
    <3>9. JobShape(p)'
      BY <1>0, <1>14, <3>1 DEF JobOK, Beyond, Copying
    <3>10. /\ Self \in job'[p].left => job'[p].left = {Self}
           /\ job'[p].copying \in job'[p].left
           /\ \E x \in Path, k \in Part : At(entry'[x], k) = p
      BY <1>0, <1>14, <2>1, <3>1, <3>6, <3>8 DEF JobOK
    <3> HIDE DEF c
    <3> QED
      <4>1. ASSUME Spares(job'[p].cmd)
            PROVE  \A k \in job'[p].left \ {job'[p].copying} : At(entry'[Target(p)'], k) = Absent
        BY <3>1, <3>7, <3>8, <4>1 DEF c
      <4>2. \/ job'[p].reading \in replaced' \cup {Partial}
            \/ \E x \in Path, k \in Part : At(entry'[x], k) = p
        BY <3>10
      <4>3. Read(p, job[p].copying)' \in {job'[p].reading, Absent}
        BY <3>5 DEF c
      <4> QED
        BY <3>1, <3>9, <3>10, <4>1, <4>2, <4>3 DEF JobOK, Copying
  <2> QED
    BY <1>0, <1>14, <2>2, <2>3, StepWhere DEF OpenAgain, OpenAgainFails
<1> QED
  BY <1>0, <1>1, <1>2, <1>3, <1>4, <1>5, <1>6, <1>7, <1>8, <1>9, <1>10, <1>11, <1>12, <1>13, <1>14 DEF Job, Places

-----------------------------------------------------------------------------
LEMMA InitHolds ==
  ASSUME Init
  PROVE  IInv
<1>1. /\ entry = Initial /\ entry \in [Path -> Entry] /\ job = [p \in Proc |-> Idle]
      /\ \A p \in Proc : job[p].at = "idle"
  BY FileSystemAssumption DEF Init, Idle
<1>2. Present = Data
  BY <1>1, FileSystemAssumption DEF Present
<1>3. TypeOK
  BY <1>1, <1>2, FileSystemAssumption, BoundAssumption DEF Init, TypeOK
<1>4. Kept
  BY <1>1, <1>2, PresentParts DEF Kept, Safe, Doomed, Copying
<1>5. OpenAtTarget
  BY <1>1, <1>3, NotOpen, FileSystemAssumption DEF OpenAtTarget, Path
<1>6. ASSUME NEW p \in Proc PROVE Clean(p) /\ JobOK(p)
  BY <1>1 DEF Clean, JobOK, Copying
<1> QED
  BY <1>3, <1>4, <1>5, <1>6 DEF IInv

LEMMA ShapeAfter ==
  ASSUME Shape, [Next]_vars
  PROVE  Shape'
<1>1. CASE UNCHANGED vars
  BY <1>1 DEF Shape, vars, TypeOK, Present
<1>2. ASSUME NEW p \in Proc, Step(p)
      PROVE  Shape'
  <2>1. StepJob(p) /\ StepFiles(p) /\ TypeOK'
    BY <1>2, JobAfter, FilesAfter, TypedAfter DEF Shape
  <2>2. ASSUME NEW q \in Proc, q # p PROVE JobShape(q)'
    BY <2>1, <2>2 DEF Shape, StepJob
  <2>3. JobShape(p)'
    BY <1>2, <2>1, OwnShapeAfter DEF Shape
  <2> QED
    BY <2>1, <2>2, <2>3 DEF Shape
<1> QED
  BY <1>1, <1>2 DEF Next, Step

LEMMA Shaped == Spec => []Shape
<1>1. Init => Shape
  BY InitHolds DEF IInv, JobOK, Shape
<1> QED
  BY <1>1, ShapeAfter, PTL DEF Spec

LEMMA IInvAfter ==
  ASSUME Separate, IInv, [Next]_vars
  PROVE  IInv'
<1>1. CASE UNCHANGED vars
  BY <1>1 DEF IInv, vars, TypeOK, Present, Kept, Safe, Doomed, OpenAtTarget, Clean, JobOK, Source, Target, Read
<1>2. ASSUME NEW p \in Proc, Step(p)
      PROVE  IInv'
  <2>1. StepJob(p)
    BY <1>2, JobAfter DEF IInv
  <2>2. StepFiles(p)
    BY <1>2, <2>1, FilesAfter DEF IInv, JobOK
  <2>3. TypeOK'
    BY <1>2, <2>1, <2>2, TypedAfter DEF IInv
  <2>4. OpenAtTarget'
    BY <1>2, <2>1, <2>2, <2>3, OpenAtTargetAfter
  <2>5. ASSUME NEW q \in Proc PROVE Clean(q)'
    BY <1>2, <2>1, <2>2, <2>3, CleanAfter
  <2>6. ASSUME NEW q \in Proc PROVE JobOK(q)'
    BY <1>2, <2>1, <2>2, OtherJobAfter, OwnJobAfter
  <2>7. Kept'
    BY <1>2, <2>1, <2>2, KeptAfter
  <2> QED
    BY <2>3, <2>4, <2>5, <2>6, <2>7 DEF IInv
<1> QED
  BY <1>1, <1>2 DEF Next, Step

(* The inductive invariant of commands that are Separate: every content     *)
(* nobody may replace is, at every moment, where no copier is about to      *)
(* remove it.                                                               *)
THEOREM Inductive == Separate => (Spec => []IInv)
<1>1. Separate => (IInv /\ [Next]_vars => IInv')
  BY IInvAfter
<1>2. Separate => []Separate
  BY DEF Separate, Copies
<1> QED
  BY InitHolds, <1>1, <1>2, PTL DEF Spec

(* Whatever the commands: the state has its shape, and a file is open only  *)
(* while its copier, at one place of moveFile, writes it.                   *)
THEOREM Typing == Spec => []TypeOK
<1>1. Shape => TypeOK
  BY DEF Shape
<1> QED
  BY <1>1, Shaped, PTL

(* No mv, nor any number of them that are Separate, loses a file: not when  *)
(* it falls back to a copy, not when the copy fails, not when it is killed  *)
(* between two calls.                                                       *)
THEOREM Lossless == Separate => (Spec => []NothingLost)
<1>1. IInv => NothingLost
  <2> SUFFICES ASSUME IInv, NEW d \in Data \ (replaced \cup reported)
               PROVE  d \in Present
    BY DEF NothingLost
  <2>1. d # Absent
    BY FileSystemAssumption DEF Content
  <2>2. \E x \in Path, k \in Part : At(entry[x], k) = d
    BY DEF IInv, Kept, Safe
  <2> QED
    BY <2>1, <2>2, PresentParts DEF IInv, TypeOK
<1> QED
  BY <1>1, Inductive, PTL

LEMMA NameStays ==
  ASSUME Shape, NEW p \in Proc, Step(p), NEW q \in Proc,
         job[q].at \in Places \ {"aside"}, job'[q] # job[q],
         Device[Source(q)] = Device[Target(q)], IsFile(entry[Target(q)]),
         ~job[q].cmd.force /\ ~job[q].cmd.interactive /\ ~job[q].moved
  PROVE  entry'[Target(q)] # Absent
<1>1. q = p /\ entry[Target(p)] # Absent /\ entry \in [Path -> Entry]
  BY JobAfter DEF Shape, TypeOK, StepJob, IsFile
<1>2. job[p].at # "idle" /\ Target(p) \in Path /\ Source(p) \in Path
  BY <1>1, JobTyped DEF Places, Shape
<1>3. job[p].at \in {"source", "target", "backup", "lstat", "rename"}
  BY <1>1, <1>2 DEF Shape, Places, Beyond, Copying, MayReplace, Copies, Source, Target
<1>4. CASE Kill(p)
  <2>1. Partial \in Content
    BY DEF Content
  <2> QED
    BY <1>1, <1>2, <1>4, <2>1, EndsParts DEF Kill
<1>5. CASE ~ Kill(p)
  <2>1. \/ entry' = entry
        \/ entry[Source(p)] # Absent /\ entry' = Renamed(Source(p), Target(p))
    BY <1>1, <1>3, <1>5, StepWhere DEF StatSource, StatTarget, ChooseBackup, LstatTarget, RenameSource,
                                       RenameFails, RenameError
  <2> QED
    BY <1>1, <1>2, <2>1, CommandAssumption DEF Renamed
<1> QED
  BY <1>4, <1>5

(* Whatever the commands of the others: without -f, -i and a backup no step of mv takes away the file at its     *)
(* target on the same device: one rename(2) replaces it, or nothing does.   *)
THEOREM NameKept == Spec => ReplacedWhole
<1>1. Shape /\ [Next]_vars =>
        [\A p \in Proc :
           /\ job[p].at \in Places \ {"aside"} /\ job'[p] # job[p]
           /\ Device[Source(p)] = Device[Target(p)] /\ IsFile(entry[Target(p)])
           /\ ~job[p].cmd.force /\ ~job[p].cmd.interactive /\ ~job[p].moved
           => entry'[Target(p)] # Absent]_vars
  BY NameStays DEF Next, Step
<1> QED
  BY <1>1, Shaped, PTL DEF ReplacedWhole, Spec
=============================================================================
