---------------------------- MODULE GptDiskProofs ----------------------------
(* What GptDisk promises when every session locks the disk, for any         *)
(* sessions and tables.                                                     *)
(*                                                                          *)
(* A session is alone with the disk from its opening to its end (Alone), so *)
(* how far its write has come says which areas hold its table (Stage), and  *)
(* what the medium holds of them when nothing was interrupted (Settled).    *)
EXTENDS GptDisk, TLAPS

Alone == \A r, s \in GptSessions : pc[r] # "closed" /\ pc[s] # "closed" => r = s

StageOf(s) ==
  /\ pc[s] # "closed" => table[s] \in Tables
  /\ pc[s] # "closed" /\ s \notin fresh => Readable(original[s])
  /\ pc[s] \in {"editing", "asked"} /\ s \notin dirty
       => Readable(shown) /\ shown["head1"] = table[s]
  /\ pc[s] \in BackupSteps /\ s \notin fresh => Primary(shown)
  /\ pc[s] \in {"head2", "sync1"} \cup PrimarySteps => shown["ent2"] = table[s]
  /\ pc[s] \in {"sync1"} \cup PrimarySteps => shown["head2"] = table[s]
  /\ pc[s] \in {"head1", "mbr", "sync2"} => shown["ent1"] = table[s]
  /\ pc[s] \in {"mbr", "sync2"} => shown["head1"] = table[s]
  /\ pc[s] = "sync2" => shown["mbr"] = "gpt"
  /\ pc[s] \in {"asked"} \cup WritingGpt => s \in dirty

Stage == \A s \in GptSessions : StageOf(s)

IInv == GptTypeOK /\ Alone /\ Stage

LEMMA SmallFacts ==
  /\ \A t \in Held : Built(t) \in Disks
  /\ \A t \in Tables : Readable(Built(t)) /\ Built(t)["head1"] = t
  /\ Blank \in Disks
  BY JunkAssumption DEF Built, Blank, Disks, Areas, Labels, Held, Readable, Primary, Backup

(* Writing an area keeps the disk a disk.                                   *)
LEMMA PutTyped ==
  ASSUME NEW d \in Disks, NEW a \in Areas, NEW v,
         a = "mbr" => v \in Labels, a # "mbr" => v \in Held
  PROVE  [d EXCEPT ![a] = v] \in Disks
  BY DEF Disks, Areas, Labels, Held

LEMMA InitInv == GptInit => IInv
<1> SUFFICES ASSUME GptInit PROVE IInv
  OBVIOUS
<1>1. GptTypeOK
  BY SmallFacts DEF GptInit, GptTypeOK, Held
<1> QED
  BY <1>1 DEF GptInit, IInv, Alone, Stage, StageOf, WritingGpt, PrimarySteps, BackupSteps

LEMMA CutTyped ==
  ASSUME GptTypeOK, NEW s \in GptSessions, CutShort(s)
  PROVE  shown' \in Disks
<1>1. CASE UNCHANGED shown
  BY <1>1 DEF GptTypeOK
<1>2. ASSUME pc[s] \in Areas, NEW v \in Partly(s), shown' = [shown EXCEPT ![pc[s]] = v]
      PROVE  shown' \in Disks
  <2>1. shown \in Disks /\ table[s] \in Held
    BY DEF GptTypeOK
  <2>2. pc[s] = "mbr" => v \in Labels
    BY <1>2, <2>1 DEF Partly, Disks, Entries, Labels
  <2>3. pc[s] # "mbr" => v \in Held
    BY <1>2, <2>1 DEF Partly, Disks, Areas, Entries, Held
  <2> QED
    BY <1>2, <2>1, <2>2, <2>3, PutTyped
<1> QED
  BY <1>1, <1>2 DEF CutShort

LEMMA TypingStep == GptTypeOK /\ [GptNext]_gptVars => GptTypeOK'
<1> SUFFICES ASSUME GptTypeOK, [GptNext]_gptVars PROVE GptTypeOK'
  OBVIOUS
<1> USE DEF GptTypeOK, Goto, WritingGpt, PrimarySteps, BackupSteps
<1>1. ASSUME NEW s \in GptSessions, OpenGpt(s) PROVE GptTypeOK'
  BY <1>1 DEF OpenGpt, Disks, Areas, Held
<1>2. ASSUME NEW s \in GptSessions, OpenEmptyGpt(s) PROVE GptTypeOK'
  BY <1>2 DEF OpenEmptyGpt, Held
<1>3. ASSUME NEW s \in GptSessions, EditGpt(s) PROVE GptTypeOK'
  BY <1>3 DEF EditGpt, Held
<1>4. ASSUME NEW s \in GptSessions, QuitGpt(s) PROVE GptTypeOK'
  BY <1>4, SmallFacts DEF QuitGpt, Leave, Held
<1>5. ASSUME NEW s \in GptSessions, AskGpt(s) \/ CancelGpt(s) \/ ConfirmGpt(s) PROVE GptTypeOK'
  BY <1>5 DEF AskGpt, CancelGpt, ConfirmGpt
<1>6. ASSUME NEW s \in GptSessions,
             \/ WriteBackupEntries(s) \/ WriteBackupHeader(s)
             \/ WritePrimaryEntries(s) \/ WritePrimaryHeader(s)
             \/ WriteProtectiveMBR(s)
      PROVE  GptTypeOK'
  <2>1. PICK a \in Areas, v \in Held \cup Labels, n \in WritingGpt :
           Put(s, a, v, n) /\ (a = "mbr" => v \in Labels) /\ (a # "mbr" => v \in Held)
    BY <1>6 DEF WriteBackupEntries, WriteBackupHeader, WritePrimaryEntries,
                WritePrimaryHeader, WriteProtectiveMBR, Areas, Labels
  <2>2. shown' \in Disks
    BY <2>1, PutTyped DEF Put
  <2> QED
    BY <2>1, <2>2 DEF Put
<1>7. ASSUME NEW s \in GptSessions, SyncBackup(s) PROVE GptTypeOK'
  BY <1>7 DEF SyncBackup
<1>8. ASSUME NEW s \in GptSessions, SyncAll(s) PROVE GptTypeOK'
  BY <1>8, SmallFacts DEF SyncAll
<1>9. ASSUME NEW s \in GptSessions, FailGpt(s) PROVE GptTypeOK'
  BY <1>9, CutTyped DEF FailGpt
<1>10. ASSUME NEW s \in GptSessions, KillGpt(s) PROVE GptTypeOK'
  BY <1>10, CutTyped, SmallFacts DEF KillGpt, Leave, Held
<1>11. ASSUME NEW a \in Areas, Writeback(a) PROVE GptTypeOK'
  <2>1. medium' \in Disks
    BY <1>11, PutTyped DEF Writeback, Disks, Labels, Held, Areas
  <2> QED
    BY <1>11, <2>1 DEF Writeback
<1>12. ASSUME GptPowerLoss PROVE GptTypeOK'
  <2>1. PICK cut \in SUBSET {a \in Entries : shown[a] # medium[a]} :
           shown' = [a \in Areas |-> IF a \in cut THEN Junk ELSE medium[a]]
    BY <1>12 DEF GptPowerLoss
  <2>2. shown' \in Disks
    BY <2>1 DEF Disks, Entries, Areas, Labels, Held
  <2> QED
    BY <1>12, <2>2, SmallFacts, OutagesAssumption DEF GptPowerLoss, Held
<1>13. ASSUME UNCHANGED gptVars PROVE GptTypeOK'
  BY <1>13 DEF gptVars
<1> QED
  BY <1>1, <1>2, <1>3, <1>4, <1>5, <1>6, <1>7, <1>8, <1>9, <1>10, <1>11, <1>12, <1>13
     DEF GptNext

(* With every session locking, a step of one keeps the others away.         *)
LEMMA AloneStep ==
  ASSUME GptLocking = GptSessions, GptTypeOK, Alone, [GptNext]_gptVars
  PROVE  Alone'
<1> USE DEF GptTypeOK, Alone, Goto
<1>1. ASSUME NEW s \in GptSessions, OpenGpt(s) \/ OpenEmptyGpt(s) PROVE Alone'
  BY <1>1 DEF OpenGpt, OpenEmptyGpt, LocksGpt
<1>2. ASSUME NEW s \in GptSessions, pc[s] # "closed", NEW x, pc' = [pc EXCEPT ![s] = x]
      PROVE  Alone'
  BY <1>2
<1>3. ASSUME UNCHANGED pc PROVE Alone'
  BY <1>3
<1>4. ASSUME GptPowerLoss PROVE Alone'
  BY <1>4 DEF GptPowerLoss
<1> QED
  BY <1>1, <1>2, <1>3, <1>4
     DEF GptNext, gptVars, EditGpt, QuitGpt, AskGpt, CancelGpt, ConfirmGpt, Put, WriteBackupEntries,
         WriteBackupHeader, WritePrimaryEntries, WritePrimaryHeader, WriteProtectiveMBR,
         SyncBackup, SyncAll, FailGpt, KillGpt, Leave, Writeback, WritingGpt, PrimarySteps, BackupSteps

(* The others are closed, and of a closed session Stage says nothing.       *)
LEMMA StageOfOne ==
  ASSUME GptTypeOK, Alone, NEW s \in GptSessions, pc[s] # "closed" \/ \A r \in GptSessions : pc[r] = "closed",
         NEW x, pc' = [pc EXCEPT ![s] = x], StageOf(s)'
  PROVE  Stage'
<1> SUFFICES ASSUME NEW r \in GptSessions, r # s PROVE StageOf(r)'
  BY DEF Stage
<1>1. pc'[r] = "closed"
  BY DEF GptTypeOK, Alone
<1> QED
  BY <1>1 DEF StageOf, WritingGpt, PrimarySteps, BackupSteps

LEMMA StageStep ==
  ASSUME GptLocking = GptSessions, IInv, [GptNext]_gptVars
  PROVE  Stage'
<1> USE DEF Goto
<1>a. GptTypeOK /\ Alone /\ Stage
  BY DEF IInv
<1>b. \A s \in GptSessions : StageOf(s)
  BY <1>a DEF Stage
<1>1. ASSUME NEW s \in GptSessions, OpenGpt(s) PROVE Stage'
  <2>1. \A r \in GptSessions : pc[r] = "closed"
    BY <1>1 DEF OpenGpt, LocksGpt
  <2>2. StageOf(s)'
    BY <1>1, <1>a DEF OpenGpt, StageOf, GptTypeOK, Readable, Primary, Backup, WritingGpt,
                      PrimarySteps, BackupSteps
  <2> QED
    BY <1>1, <1>a, <2>1, <2>2, StageOfOne DEF OpenGpt
<1>2. ASSUME NEW s \in GptSessions, OpenEmptyGpt(s) PROVE Stage'
  <2>1. \A r \in GptSessions : pc[r] = "closed"
    BY <1>2 DEF OpenEmptyGpt, LocksGpt
  <2>2. StageOf(s)'
    BY <1>2, <1>a DEF OpenEmptyGpt, StageOf, GptTypeOK, WritingGpt, PrimarySteps, BackupSteps
  <2> QED
    BY <1>2, <1>a, <2>1, <2>2, StageOfOne DEF OpenEmptyGpt
<1>3. ASSUME NEW s \in GptSessions, EditGpt(s) PROVE Stage'
  <2>1. StageOf(s)'
    BY <1>3, <1>a, <1>b DEF EditGpt, StageOf, GptTypeOK, WritingGpt, PrimarySteps, BackupSteps
  <2>2. pc' = [pc EXCEPT ![s] = "editing"]
    BY <1>3, <1>a DEF EditGpt, GptTypeOK
  <2> QED
    BY <1>3, <1>a, <2>1, <2>2, StageOfOne DEF EditGpt
<1>4. ASSUME NEW s \in GptSessions, pc[s] # "closed", pc' = [pc EXCEPT ![s] = "closed"] PROVE Stage'
  <2>1. StageOf(s)'
    BY <1>4, <1>a DEF StageOf, GptTypeOK, WritingGpt, PrimarySteps, BackupSteps
  <2> QED
    BY <1>4, <1>a, <2>1, StageOfOne
<1>5. ASSUME NEW s \in GptSessions, AskGpt(s) \/ CancelGpt(s) \/ ConfirmGpt(s) PROVE Stage'
  <2>0. s \in dirty \/ pc[s] = "asked"
    BY <1>5 DEF AskGpt, CancelGpt, ConfirmGpt
  <2>1. ASSUME AskGpt(s) PROVE StageOf(s)'
    BY <2>1, <1>a, <1>b DEF AskGpt, StageOf, GptTypeOK, WritingGpt, PrimarySteps, BackupSteps
  <2>2. ASSUME CancelGpt(s) PROVE StageOf(s)'
    BY <2>2, <1>a, <1>b DEF CancelGpt, StageOf, GptTypeOK, WritingGpt, PrimarySteps, BackupSteps
  <2>3. ASSUME ConfirmGpt(s) PROVE StageOf(s)'
    BY <2>3, <1>a, <1>b DEF ConfirmGpt, Unchanged, StageOf, GptTypeOK, Readable, WritingGpt, PrimarySteps, BackupSteps
  <2> QED
    BY <1>5, <1>a, <2>1, <2>2, <2>3, StageOfOne DEF AskGpt, CancelGpt, ConfirmGpt
<1>6. ASSUME NEW s \in GptSessions,
             \/ WriteBackupEntries(s) \/ WriteBackupHeader(s)
             \/ WritePrimaryEntries(s) \/ WritePrimaryHeader(s)
             \/ WriteProtectiveMBR(s)
      PROVE  Stage'
  <2> USE <1>a, <1>b DEF StageOf, GptTypeOK, Disks, Areas, Primary, Put, WritingGpt, PrimarySteps, BackupSteps
  <2>1. CASE WriteBackupEntries(s)
    <3>1. StageOf(s)'
      BY <2>1 DEF WriteBackupEntries
    <3> QED
      BY <2>1, <3>1, StageOfOne DEF WriteBackupEntries
  <2>2. CASE WriteBackupHeader(s)
    <3>1. StageOf(s)'
      BY <2>2 DEF WriteBackupHeader
    <3> QED
      BY <2>2, <3>1, StageOfOne DEF WriteBackupHeader
  <2>3. CASE WritePrimaryEntries(s)
    <3>1. StageOf(s)'
      BY <2>3 DEF WritePrimaryEntries
    <3> QED
      BY <2>3, <3>1, StageOfOne DEF WritePrimaryEntries
  <2>4. CASE WritePrimaryHeader(s)
    <3>1. StageOf(s)'
      BY <2>4 DEF WritePrimaryHeader
    <3> QED
      BY <2>4, <3>1, StageOfOne DEF WritePrimaryHeader
  <2>5. CASE WriteProtectiveMBR(s)
    <3>1. StageOf(s)'
      BY <2>5 DEF WriteProtectiveMBR
    <3> QED
      BY <2>5, <3>1, StageOfOne DEF WriteProtectiveMBR
  <2> QED
    BY <1>6, <2>1, <2>2, <2>3, <2>4, <2>5
<1>7. ASSUME NEW s \in GptSessions, SyncBackup(s) PROVE Stage'
  <2>1. StageOf(s)'
    BY <1>7, <1>a, <1>b DEF SyncBackup, StageOf, GptTypeOK, WritingGpt, PrimarySteps, BackupSteps
  <2> QED
    BY <1>7, <1>a, <2>1, StageOfOne DEF SyncBackup
<1>8. ASSUME NEW s \in GptSessions, SyncAll(s) PROVE Stage'
  <2>1. table[s] \in Tables /\ shown["mbr"] = "gpt" /\ shown["ent1"] = table[s] /\ shown["head1"] = table[s]
        /\ shown["ent2"] = table[s] /\ shown["head2"] = table[s]
    BY <1>8, <1>b DEF SyncAll, StageOf, PrimarySteps
  <2>2. Readable(shown)
    BY <2>1 DEF Readable, Primary, Backup
  <2>3. StageOf(s)'
    BY <1>8, <1>a, <2>1, <2>2, SmallFacts
       DEF SyncAll, StageOf, GptTypeOK, Readable, Primary, Backup, WritingGpt, PrimarySteps, BackupSteps
  <2> QED
    BY <1>8, <1>a, <2>3, StageOfOne DEF SyncAll
<1>9. ASSUME NEW s \in GptSessions, FailGpt(s) PROVE Stage'
  <2>1. StageOf(s)'
    BY <1>9, <1>a, <1>b DEF FailGpt, StageOf, GptTypeOK, WritingGpt, PrimarySteps, BackupSteps
  <2> QED
    BY <1>9, <1>a, <2>1, StageOfOne DEF FailGpt, WritingGpt, PrimarySteps, BackupSteps
<1>10. ASSUME UNCHANGED <<shown, pc, table, original, dirty, fresh>> PROVE Stage'
  BY <1>10, <1>a DEF Stage, StageOf, Readable, Primary, Backup
<1>11. ASSUME GptPowerLoss PROVE Stage'
  BY <1>11, <1>a DEF GptPowerLoss, Stage, StageOf, GptTypeOK, WritingGpt, PrimarySteps, BackupSteps
<1> QED
  BY <1>1, <1>2, <1>3, <1>4, <1>5, <1>6, <1>7, <1>8, <1>9, <1>10, <1>11
     DEF GptNext, gptVars, QuitGpt, KillGpt, Leave, Writeback

LEMMA InvStep ==
  ASSUME GptLocking = GptSessions, IInv, [GptNext]_gptVars
  PROVE  IInv'
BY TypingStep, AloneStep, StageStep DEF IInv

(* Where only the power goes the medium lags behind no more than the copy   *)
(* being written.                                                           *)
Settled ==
  /\ (\A s \in GptSessions : pc[s] \notin WritingGpt) => medium = shown
  /\ \A s \in GptSessions : pc[s] \in BackupSteps
        => medium["head1"] = shown["head1"] /\ medium["ent1"] = shown["ent1"]
  /\ \A s \in GptSessions : pc[s] \in PrimarySteps
        => medium["head2"] = shown["head2"] /\ medium["ent2"] = shown["ent2"]
  /\ medium["mbr"] = "gpt" => shown["mbr"] = "gpt"

LEMMA SettledStep ==
  ASSUME GptLocking = GptSessions, threat = "power", IInv, Settled, [GptNext]_gptVars
  PROVE  Settled'
<1> USE DEF Goto, Settled, WritingGpt, PrimarySteps, BackupSteps
<1>a. GptTypeOK /\ Alone
  BY DEF IInv
<1>b. ASSUME NEW s \in GptSessions, NEW r \in GptSessions, pc[s] # "closed", pc[r] # "closed"
      PROVE  r = s
  BY <1>a, <1>b DEF Alone
<1>1. ASSUME NEW s \in GptSessions, UNCHANGED <<shown, medium>>, pc[s] \notin WritingGpt,
             NEW n \in {"closed", "editing", "asked"}, pc' = [pc EXCEPT ![s] = n]
      PROVE  Settled'
  BY <1>1, <1>a, <1>b DEF GptTypeOK
<1>2. ASSUME NEW s \in GptSessions, ConfirmGpt(s) PROVE Settled'
  <2>1. \A r \in GptSessions \ {s} : pc[r] = "closed"
    BY <1>2, <1>b DEF ConfirmGpt
  <2>2. medium = shown
    BY <1>2, <2>1 DEF ConfirmGpt
  <2> QED
    BY <1>2, <1>a, <2>2 DEF ConfirmGpt, GptTypeOK
<1>3. ASSUME NEW s \in GptSessions, WriteBackupEntries(s) \/ WriteBackupHeader(s) PROVE Settled'
  BY <1>3, <1>a, <1>b DEF WriteBackupEntries, WriteBackupHeader, Put, GptTypeOK, Disks, Areas
<1>4. ASSUME NEW s \in GptSessions,
             WritePrimaryEntries(s) \/ WritePrimaryHeader(s) \/ WriteProtectiveMBR(s)
      PROVE  Settled'
  BY <1>4, <1>a, <1>b
     DEF WritePrimaryEntries, WritePrimaryHeader, WriteProtectiveMBR, Put, GptTypeOK, Disks, Areas
<1>5. ASSUME NEW s \in GptSessions, SyncBackup(s) \/ SyncAll(s) PROVE Settled'
  BY <1>5 DEF SyncBackup, SyncAll
<1>6. ASSUME NEW a \in Areas, Writeback(a) PROVE Settled'
  <2>1. pc' = pc /\ shown' = shown /\ medium' = [medium EXCEPT ![a] = shown[a]]
    BY <1>6 DEF Writeback
  <2>2. medium' \in [Areas -> Held \cup Labels]
    BY <2>1, <1>6, <1>a DEF GptTypeOK, Disks
  <2>3. ASSUME medium = shown PROVE medium' = shown
    BY <2>1, <2>3, <1>6, <1>a DEF GptTypeOK, Disks
  <2>4. \A b \in Areas : medium[b] = shown[b] => medium'[b] = shown[b]
    BY <2>1, <1>a DEF GptTypeOK, Disks
  <2> QED
    BY <2>1, <2>3, <2>4 DEF Areas
<1>7. ASSUME GptPowerLoss PROVE Settled'
  BY <1>7 DEF GptPowerLoss
<1>8. ASSUME UNCHANGED gptVars PROVE Settled'
  BY <1>8 DEF gptVars
<1>9. ASSUME NEW s \in GptSessions, EditGpt(s) PROVE Settled'
  BY <1>9 DEF EditGpt
<1>10. ASSUME NEW s \in GptSessions, OpenGpt(s) \/ OpenEmptyGpt(s) \/ QuitGpt(s) \/ AskGpt(s) \/ CancelGpt(s)
       PROVE  Settled'
  BY <1>10, <1>1 DEF OpenGpt, OpenEmptyGpt, QuitGpt, Leave, AskGpt, CancelGpt
<1>11. ASSUME NEW s \in GptSessions, FailGpt(s) \/ KillGpt(s) PROVE FALSE
  BY <1>11 DEF FailGpt, KillGpt, CutShort
<1> QED
  BY <1>2, <1>3, <1>4, <1>5, <1>6, <1>7, <1>8, <1>9, <1>10, <1>11 DEF GptNext

(* A machine that meets power losses has its disk settled.                  *)
Sheltered == threat = "interruption" \/ Settled

LEMMA ShelteredInit == GptInit => Sheltered
  BY DEF GptInit, Sheltered, Settled, WritingGpt, PrimarySteps, BackupSteps

LEMMA TroubleStep == [GptNext]_gptVars => threat' = threat
<1> SUFFICES ASSUME [GptNext]_gptVars PROVE threat' = threat
  OBVIOUS
<1>1. ASSUME NEW s \in GptSessions,
             \/ OpenGpt(s) \/ OpenEmptyGpt(s) \/ EditGpt(s) \/ QuitGpt(s)
             \/ AskGpt(s) \/ CancelGpt(s) \/ ConfirmGpt(s)
             \/ SyncBackup(s) \/ SyncAll(s) \/ FailGpt(s) \/ KillGpt(s)
      PROVE  threat' = threat
  BY <1>1 DEF OpenGpt, OpenEmptyGpt, EditGpt, QuitGpt, AskGpt, CancelGpt, ConfirmGpt, SyncBackup, SyncAll, FailGpt, KillGpt
<1>2. ASSUME NEW s \in GptSessions,
             \/ WriteBackupEntries(s) \/ WriteBackupHeader(s)
             \/ WritePrimaryEntries(s) \/ WritePrimaryHeader(s)
             \/ WriteProtectiveMBR(s)
      PROVE  threat' = threat
  BY <1>2 DEF WriteBackupEntries, WriteBackupHeader, WritePrimaryEntries,
              WritePrimaryHeader, WriteProtectiveMBR, Put
<1>3. ASSUME (\E a \in Areas : Writeback(a)) \/ GptPowerLoss PROVE threat' = threat
  BY <1>3 DEF Writeback, GptPowerLoss
<1> QED
  BY <1>1, <1>2, <1>3 DEF GptNext, gptVars

LEMMA ShelteredStep ==
  ASSUME GptLocking = GptSessions, IInv, Sheltered, [GptNext]_gptVars
  PROVE  Sheltered'
<1>1. CASE threat = "interruption"
  BY <1>1, TroubleStep DEF Sheltered
<1>2. CASE threat = "power"
  <2>1. Settled
    BY <1>2 DEF Sheltered
  <2> QED
    BY <1>2, <2>1, SettledStep DEF Sheltered
<1> QED
  BY <1>1, <1>2 DEF IInv, GptTypeOK

(* No step loses the last copy.                                             *)
LEMMA CopyStep ==
  ASSUME GptLocking = GptSessions, IInv, Sheltered, [GptNext]_gptVars,
         SomeCopy(shown), ~ Discarding
  PROVE  SomeCopy(shown')
<1> USE DEF SomeCopy, Primary, Backup
<1>a. GptTypeOK /\ Alone /\ \A s \in GptSessions : StageOf(s)
  BY DEF IInv, Stage
<1>1. ASSUME UNCHANGED shown PROVE SomeCopy(shown')
  BY <1>1
<1>2. ASSUME NEW s \in GptSessions, pc[s] \in BackupSteps, NEW v,
             shown' = [shown EXCEPT ![pc[s]] = v]
      PROVE  SomeCopy(shown')
  <2>1. Primary(shown)
    BY <1>2, <1>a DEF Discarding, StageOf
  <2> QED
    BY <1>2, <2>1, <1>a DEF GptTypeOK, Disks, Areas, BackupSteps
<1>3. ASSUME NEW s \in GptSessions, pc[s] \in PrimarySteps, NEW v,
             shown' = [shown EXCEPT ![pc[s]] = v]
      PROVE  SomeCopy(shown')
  <2>1. Backup(shown)
    BY <1>3, <1>a DEF StageOf, PrimarySteps
  <2> QED
    BY <1>3, <2>1, <1>a DEF GptTypeOK, Disks, Areas, PrimarySteps
<1>4. ASSUME NEW s \in GptSessions, CutShort(s) PROVE SomeCopy(shown')
  BY <1>4, <1>1, <1>2, <1>3, <1>a DEF CutShort, Areas, GptTypeOK, WritingGpt, PrimarySteps, BackupSteps
<1>5. ASSUME GptPowerLoss PROVE SomeCopy(shown')
  <2>1. Settled
    BY <1>5 DEF GptPowerLoss, Sheltered
  <2>2. PICK cut \in SUBSET {a \in Entries : shown[a] # medium[a]} :
           shown' = [a \in Areas |-> IF a \in cut THEN Junk ELSE medium[a]]
    BY <1>5 DEF GptPowerLoss
  <2>3. \A a \in Areas : medium[a] = shown[a] => shown'[a] = shown[a]
    BY <2>2
  <2>4. CASE \A s \in GptSessions : pc[s] \notin WritingGpt
    BY <2>1, <2>3, <2>4 DEF Settled, Areas
  <2>5. ASSUME NEW s \in GptSessions, pc[s] \in BackupSteps PROVE SomeCopy(shown')
    <3>1. Primary(shown)
      BY <2>5, <1>a DEF Discarding, StageOf
    <3> QED
      BY <2>1, <2>3, <2>5, <3>1 DEF Settled, Areas
  <2>6. ASSUME NEW s \in GptSessions, pc[s] \in PrimarySteps PROVE SomeCopy(shown')
    <3>1. Backup(shown)
      BY <2>6, <1>a DEF StageOf, PrimarySteps
    <3> QED
      BY <2>1, <2>3, <2>6, <3>1 DEF Settled, Areas
  <2> QED
    BY <2>4, <2>5, <2>6 DEF WritingGpt
<1>6. ASSUME NEW s \in GptSessions,
             \/ WriteBackupEntries(s) \/ WriteBackupHeader(s)
             \/ WritePrimaryEntries(s) \/ WritePrimaryHeader(s)
             \/ WriteProtectiveMBR(s)
      PROVE  SomeCopy(shown')
  <2>1. PICK v : pc[s] \in PrimarySteps \cup BackupSteps /\ shown' = [shown EXCEPT ![pc[s]] = v]
    BY <1>6 DEF WriteBackupEntries, WriteBackupHeader, WritePrimaryEntries,
                WritePrimaryHeader, WriteProtectiveMBR, Put, PrimarySteps, BackupSteps
  <2> QED
    BY <2>1, <1>2, <1>3
<1> QED
  BY <1>1, <1>4, <1>5, <1>6
     DEF GptNext, gptVars, OpenGpt, OpenEmptyGpt, EditGpt, QuitGpt, AskGpt, CancelGpt, ConfirmGpt, SyncBackup, SyncAll,
         FailGpt, KillGpt, Writeback

LEMMA LabelStep ==
  ASSUME GptLocking = GptSessions, IInv, Sheltered, [GptNext]_gptVars,
         shown["mbr"] = "dos", shown'["mbr"] = "gpt"
  PROVE  SomeCopy(shown')
<1>a. GptTypeOK /\ \A s \in GptSessions : StageOf(s)
  BY DEF IInv, Stage
<1>1. ASSUME NEW s \in GptSessions, pc[s] \in Areas, NEW v, shown' = [shown EXCEPT ![pc[s]] = v]
      PROVE  SomeCopy(shown')
  <2>1. pc[s] = "mbr"
    BY <1>1, <1>a DEF GptTypeOK, Disks, Areas
  <2>2. Backup(shown)
    BY <2>1, <1>a DEF StageOf, PrimarySteps, Backup
  <2> QED
    BY <2>1, <2>2, <1>1, <1>a DEF GptTypeOK, Disks, Areas, SomeCopy, Backup
<1>2. ASSUME NEW s \in GptSessions, CutShort(s) PROVE SomeCopy(shown')
  BY <1>2, <1>1, <1>a DEF CutShort
<1>3. ASSUME NEW s \in GptSessions,
             \/ WriteBackupEntries(s) \/ WriteBackupHeader(s)
             \/ WritePrimaryEntries(s) \/ WritePrimaryHeader(s)
             \/ WriteProtectiveMBR(s)
      PROVE  SomeCopy(shown')
  <2>1. PICK v : pc[s] \in Areas /\ shown' = [shown EXCEPT ![pc[s]] = v]
    BY <1>3 DEF WriteBackupEntries, WriteBackupHeader, WritePrimaryEntries,
                WritePrimaryHeader, WriteProtectiveMBR, Put, Areas
  <2> QED
    BY <2>1, <1>1
<1>4. ASSUME GptPowerLoss PROVE FALSE
  <2>1. medium["mbr"] # "gpt"
    BY <1>4 DEF GptPowerLoss, Sheltered, Settled
  <2>2. shown'["mbr"] = medium["mbr"]
    BY <1>4 DEF GptPowerLoss, Entries, Areas
  <2> QED
    BY <2>1, <2>2
<1>5. shown' # shown
  OBVIOUS
<1> QED
  BY <1>2, <1>3, <1>4, <1>5
     DEF GptNext, gptVars, OpenGpt, OpenEmptyGpt, EditGpt, QuitGpt, AskGpt, CancelGpt, ConfirmGpt, SyncBackup, SyncAll,
         FailGpt, KillGpt, Writeback

-----------------------------------------------------------------------------
(* The types, for every session however it locks.                           *)
THEOREM WellFormed == GptSpec => []GptTypeOK
<1>1. GptInit => GptTypeOK
  BY InitInv DEF IInv
<1> QED
  BY <1>1, TypingStep, PTL DEF GptSpec

LEMMA Invariance ==
  ASSUME GptLocking = GptSessions
  PROVE  GptSpec => []IInv
<1>1. IInv /\ [GptNext]_gptVars => IInv'
  BY InvStep
<1> QED
  BY <1>1, InitInv, PTL DEF GptSpec

(* A session without unsaved changes shows what is on the disk: of any      *)
(* number of locking sessions, whatever is killed, fails or loses power.    *)
THEOREM CleanShowsDisk ==
  ASSUME GptLocking = GptSessions
  PROVE  GptSpec => []CleanIsOnDisk
<1>1. IInv => CleanIsOnDisk
  BY DEF IInv, Stage, StageOf, CleanIsOnDisk
<1> QED
  BY <1>1, Invariance, PTL

(* One of the two copies is whole at every moment of every write, when      *)
(* processes are killed and writes fail, or when the power goes.            *)
THEOREM OneCopyStays ==
  ASSUME GptLocking = GptSessions
  PROVE  GptSpec => KeepsCopy
<1>1. GptInit => Sheltered
  BY ShelteredInit
<1>2. IInv /\ Sheltered /\ [GptNext]_gptVars => Sheltered'
  BY ShelteredStep
<1>3. IInv /\ Sheltered /\ [GptNext]_gptVars => [SomeCopy(shown) => SomeCopy(shown') \/ Discarding]_gptVars
  BY CopyStep
<1> QED
  BY <1>1, <1>2, <1>3, Invariance, PTL DEF GptSpec, KeepsCopy

(* Where every session was started with --lock, the protective MBR comes    *)
(* last: it is never there before a copy of the table is.  Without the lock *)
(* two sessions that write at the same time can leave neither copy whole.   *)
THEOREM LabelLast ==
  ASSUME GptLocking = GptSessions
  PROVE  GptSpec => LabelAfterTable
<1>1. GptInit => Sheltered
  BY ShelteredInit
<1>2. IInv /\ Sheltered /\ [GptNext]_gptVars => Sheltered'
  BY ShelteredStep
<1>3. IInv /\ Sheltered /\ [GptNext]_gptVars
        => [shown["mbr"] = "dos" /\ shown'["mbr"] = "gpt" => SomeCopy(shown')]_gptVars
  BY LabelStep
<1> QED
  BY <1>1, <1>2, <1>3, Invariance, PTL DEF GptSpec, LabelAfterTable
=============================================================================
