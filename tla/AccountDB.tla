------------------------------ MODULE AccountDB ------------------------------
(***************************************************************************)
(* The account database: useradd, groupadd, adduser and passwd of          *)
(* accounts_linux.go and passwd_linux.go, run by several processes at      *)
(* once.  A command takes .pwd.lock without waiting, loads the files,      *)
(* changes its copy and installs each changed file by a rename followed by *)
(* a sync of the directory.  A process may be killed and the machine may   *)
(* lose power between any two of these steps.                              *)
(*                                                                         *)
(* A line of a file is a record of the fields the commands look at; user   *)
(* names and group names are drawn from one set.                           *)
(***************************************************************************)
EXTENDS Integers

CONSTANTS
  Proc,       \* processes that run account commands
  Name,       \* user and group names
  Hash,       \* password hashes
  UserIds,    \* identifiers given to users and groups (1000 and up)
  SystemIds,  \* identifiers given to system users (100 to 999)
  UsersGid,   \* the group of useradd -N (100)
  Ops,        \* the commands that may be run, as parsed
  Initial,    \* the files at the start
  Absent,     \* no such line
  NoHash,     \* no password hash
  Nobody,     \* no process
  NoName,     \* option not given
  NoId,       \* option not given
  MaxOps,     \* bound: commands
  MaxKill,    \* bound: killed processes
  MaxLoss     \* bound: power losses

Ids == UserIds \cup SystemIds \cup {UsersGid, 0}

(* "!" in front of the hash locks the password. *)
Password == [locked : BOOLEAN, hash : Hash \cup {NoHash}]
User == [uid : Ids, gid : Ids, shadowed : BOOLEAN, pw : Password]
Group == [gid : Ids, members : SUBSET Name]
Files == [passwd : [Name -> User \cup {Absent}],
          shadow : [Name -> Password \cup {Absent}],
          group  : [Name -> Group \cup {Absent}]]
File == {"shadow", "group", "passwd"}

UserAdd == [kind : {"useradd"}, name : Name, uid : UserIds \cup {NoId},
            primary : Name \cup {NoName}, noUserGroup : BOOLEAN,
            system : BOOLEAN, groups : SUBSET Name, home : BOOLEAN]
GroupAdd == [kind : {"groupadd"}, name : Name, gid : UserIds \cup {NoId}]
AddUser == [kind : {"adduser"}, name : Name, group : Name]
SetPassword == [kind : {"passwd"}, name : Name, hash : Hash]
ModifyAccount == [kind : {"lock", "unlock", "delete"}, name : Name]
Op == UserAdd \cup GroupAdd \cup AddUser \cup SetPassword \cup ModifyAccount
PasswdKinds == {"passwd", "lock", "unlock", "delete"}

Users(f) == {n \in Name : f.passwd[n] # Absent}
Groups(f) == {g \in Name : f.group[g] # Absent}
Uids(f) == {f.passwd[n].uid : n \in Users(f)}
Gids(f) == {f.group[g].gid : g \in Groups(f)}

(* What the rest of the module needs of the files: a user's password line  *)
(* and primary group are there, and identifiers are not shared.           *)
Supported(passwd, f) ==
  \A n \in Name : passwd[n] # Absent => /\ passwd[n].shadowed => f.shadow[n] # Absent
                                        /\ passwd[n].gid \in Gids(f)
Complete(f) == Supported(f.passwd, f)
UniqueUids(f) ==
  \A m, n \in Users(f) : f.passwd[m].uid = f.passwd[n].uid => m = n
UniqueGids(f) ==
  \A g, h \in Groups(f) : f.group[g].gid = f.group[h].gid => g = h
Unique(f) == UniqueUids(f) /\ UniqueGids(f)

ASSUME IdAssumption ==
  /\ UserIds \subseteq Nat /\ SystemIds \subseteq Nat /\ UsersGid \in Nat
  /\ NoId \notin Ids
ASSUME NameAssumption ==
  /\ Absent \notin User \cup Group \cup Password \cup Ids
  /\ Absent \notin [uid : Ids, gid : Ids, pw : Password, groups : SUBSET Name]
  /\ NoHash \notin Hash
  /\ Nobody \notin Proc /\ NoName \notin Name
ASSUME InputAssumption ==
  /\ Ops \subseteq Op /\ Ops # {}
  /\ Initial \in Files /\ Complete(Initial) /\ Unique(Initial)
  /\ UsersGid \in Gids(Initial)
ASSUME BoundAssumption == MaxOps \in Nat /\ MaxKill \in Nat /\ MaxLoss \in Nat

VARIABLES
  etc,      \* the files, as open() finds them
  durable,  \* the files, as a power loss would leave them
  home,     \* home directories under homeRoot
  abandoned, \* users whose home directory was made by a command that was
            \* killed, or lost power, before it ended
  holder,   \* the process that holds .pwd.lock
  job,      \* what each process does
  acked,    \* commands that installed a file and exited with status 0
  ops, kills, losses \* bounds

vars == <<etc, durable, home, abandoned, holder, job, acked, ops, kills, losses>>

(* at: the next step; target: the file that held the password when it was  *)
(* looked up; db: the command's copy of the files; left: the files still   *)
(* to be installed; wrote: one is; madeHome: it created the home directory. *)
Places == {"idle", "look", "lock", "mutate", "commit", "sync", "fail"}
Job == [at : Places, op : Op, target : {"shadow", "passwd"}, db : Files,
        left : SUBSET File, wrote : BOOLEAN, madeHome : BOOLEAN]
Idle == [at |-> "idle", op |-> CHOOSE o \in Ops : TRUE, target |-> "shadow",
         db |-> Initial, left |-> {}, wrote |-> FALSE, madeHome |-> FALSE]

-----------------------------------------------------------------------------
(* What a command makes of its copy: the set of files it may arrive at,    *)
(* empty when it refuses.                                                  *)

RequestedUnchecked(wanted, system, used) ==
  IF wanted # NoId THEN {wanted}
  ELSE {x \in UserIds \ used : \A y \in UserIds \ used : x <= y}

(* chooseAccountID and chooseSystemAccountID: the identifier asked for, or *)
(* the greatest free system one, or the least free one.                    *)
ChosenIds(wanted, system, used) ==
  LET fromSystem == system /\ SystemIds \ used # {}
      candidates == (IF wanted # NoId THEN {wanted}
                     ELSE IF fromSystem THEN SystemIds ELSE UserIds) \ used
  IN {x \in candidates : \A y \in candidates : IF fromSystem THEN x >= y ELSE x <= y}

WithGroup(f, g, gid) == [f EXCEPT !.group[g] = [gid |-> gid, members |-> {}]]

(* addUserToGroup, for each group listed that is not the primary one. *)
WithMember(f, n, groups) ==
  [f EXCEPT !.group = [g \in Name |->
     IF g \in groups THEN [f.group[g] EXCEPT !.members = @ \cup {n}]
     ELSE f.group[g]]]

PrimaryGid(f, o, uid) ==
  IF o.primary # NoName THEN f.group[o.primary].gid
  ELSE IF ~o.noUserGroup THEN uid
  ELSE IF UsersGid \in Gids(f) THEN UsersGid ELSE uid

NewUser(uid, gid) == [uid |-> uid, gid |-> gid, shadowed |-> TRUE,
                      pw |-> [locked |-> FALSE, hash |-> NoHash]]

PrivateGroup(o) == o.primary = NoName /\ ~o.noUserGroup

(* planUser; a new password is "!". *)
PlanUser(f, o) ==
  {LET n == o.name
       g == IF PrivateGroup(o) THEN WithGroup(f, n, uid) ELSE f
       gid == PrimaryGid(f, o, uid)
       m == WithMember(g, n, {h \in o.groups : g.group[h].gid # gid})
   IN [m EXCEPT !.passwd[n] = NewUser(uid, gid),
                !.shadow[n] = [locked |-> TRUE, hash |-> NoHash]] :
   uid \in IF /\ f.passwd[o.name] = Absent /\ f.shadow[o.name] = Absent
              /\ PrivateGroup(o) => f.group[o.name] = Absent
              /\ o.primary # NoName => f.group[o.primary] # Absent
              /\ \A h \in o.groups : \/ f.group[h] # Absent
                                     \/ PrivateGroup(o) /\ h = o.name
           THEN ChosenIds(o.uid, o.system,
                          Uids(f) \cup IF PrivateGroup(o) THEN Gids(f) ELSE {})
           ELSE {}}

PlanGroup(f, o) ==
  {WithGroup(f, o.name, gid) :
     gid \in IF f.group[o.name] = Absent THEN ChosenIds(o.gid, FALSE, Gids(f))
             ELSE {}}

PlanMember(f, o) ==
  IF f.passwd[o.name] # Absent /\ f.group[o.group] # Absent
  THEN {WithMember(f, o.name, {o.group})} ELSE {}

(* updatedPasswordDatabase and modifyAccountRecord *)
NewPassword(o, pw) ==
  CASE o.kind = "passwd" -> [locked |-> FALSE, hash |-> o.hash]
    [] o.kind = "lock"   -> [pw EXCEPT !.locked = TRUE]
    [] o.kind = "unlock" -> [pw EXCEPT !.locked = FALSE]
    [] o.kind = "delete" -> [locked |-> FALSE, hash |-> NoHash]

NewUnshadowed(o, user) ==
  [user EXCEPT !.shadowed = FALSE, !.pw = NewPassword(o, user.pw)]

PlanPassword(f, o, file) ==
  IF file = "shadow"
  THEN IF f.shadow[o.name] = Absent THEN {}
       ELSE {[f EXCEPT !.shadow[o.name] = NewPassword(o, @)]}
  ELSE IF f.passwd[o.name] = Absent THEN {}
       ELSE {[f EXCEPT !.passwd[o.name] = NewUnshadowed(o, @)]}

Plans(f, o, file) ==
  CASE o.kind = "useradd"  -> PlanUser(f, o)
    [] o.kind = "groupadd" -> PlanGroup(f, o)
    [] o.kind = "adduser"  -> PlanMember(f, o)
    [] OTHER               -> PlanPassword(f, o, file)

-----------------------------------------------------------------------------
(* One command.  The lock is released by every return, and by the kernel   *)
(* when the process dies.                                                  *)

Goto(p, place) == job' = [job EXCEPT ![p].at = place]
Return(p) == job' = [job EXCEPT ![p] = Idle]
Unlock(p) == holder' = IF holder = p THEN Nobody ELSE holder

Begin(p, o) ==
  /\ job[p].at = "idle" /\ ops > 0 /\ ops' = ops - 1
  /\ job' = [job EXCEPT ![p].op = o,
               ![p].at = IF o.kind \in PasswdKinds THEN "look" ELSE "lock"]
  /\ UNCHANGED <<etc, durable, home, abandoned, holder, acked, kills, losses>>

(* findPasswdTarget, before the lock: the user types the new password      *)
(* between this step and the next.                                         *)
Look(p) ==
  /\ job[p].at = "look"
  /\ LET user == etc.passwd[job[p].op.name] IN
       IF user = Absent THEN Return(p)
       ELSE job' = [job EXCEPT ![p].at = "lock", ![p].target =
                      IF user.shadowed THEN "shadow" ELSE "passwd"]
  /\ UNCHANGED <<etc, durable, home, abandoned, holder, acked, ops, kills, losses>>

LockAnyway(p) ==
  /\ job[p].at = "lock" /\ holder' = p /\ Goto(p, "mutate")
  /\ UNCHANGED <<etc, durable, home, abandoned, acked, ops, kills, losses>>

Lock(p) ==
  /\ job[p].at = "lock"
  /\ IF holder = Nobody THEN holder' = p /\ Goto(p, "mutate")
     ELSE UNCHANGED holder /\ Return(p)               \* the database is busy
  /\ UNCHANGED <<etc, durable, home, abandoned, acked, ops, kills, losses>>

PasswdFirst(left) == IF "passwd" \in left THEN "passwd"
                     ELSE IF "shadow" \in left THEN "shadow" ELSE "group"
(* commit: of the files that differ, the one to install next. *)
CommitNext(left) == IF "shadow" \in left THEN "shadow"
                    ELSE IF "group" \in left THEN "group" ELSE "passwd"

(* Load the files and change the copy; useradd -m creates the directory.   *)
Mutate(p) ==
  LET o == job[p].op
      makesHome == o.kind = "useradd" /\ o.home IN
  /\ job[p].at = "mutate"
  /\ \E new \in Plans(etc, o, job[p].target) :
       job' = [job EXCEPT ![p] =
         [@ EXCEPT !.at = "commit", !.db = new, !.madeHome = makesHome,
                   !.left = IF o.kind \in PasswdKinds THEN {job[p].target}
                            ELSE {f \in File : new[f] # etc[f]}]]
  /\ makesHome => o.name \notin home
  /\ home' = IF makesHome THEN home \cup {o.name} ELSE home
  /\ abandoned' = IF makesHome THEN abandoned \ {o.name} ELSE abandoned
  /\ UNCHANGED <<etc, durable, holder, acked, ops, kills, losses>>

(* The command refuses, or cannot read the files or create the directory.  *)
MutateFails(p) ==
  /\ job[p].at = "mutate" /\ Return(p) /\ Unlock(p)
  /\ UNCHANGED <<etc, durable, home, abandoned, acked, ops, kills, losses>>

(* Passwords set earlier that this command is about to replace. *)
Overridden(o) ==
  IF o.kind \in PasswdKinds
  THEN {a \in acked : a.kind \in PasswdKinds /\ a.name = o.name} ELSE {}

(* atomicReplacePasswdFile up to the rename. *)
Replace(p) ==
  LET file == CommitNext(job[p].left) IN
  /\ job[p].at = "commit" /\ job[p].left # {}
  /\ etc' = [etc EXCEPT ![file] = job[p].db[file]]
  /\ acked' = acked \ Overridden(job[p].op)
  /\ job' = [job EXCEPT ![p].at = "sync", ![p].left = @ \ {file},
                        ![p].wrote = TRUE]
  /\ UNCHANGED <<durable, home, abandoned, holder, ops, kills, losses>>

(* No space, a failed write, or a failed rename: the temporary is removed. *)
ReplaceFails(p) ==
  /\ job[p].at = "commit" /\ job[p].left # {}
  /\ Goto(p, "fail") /\ Unlock(p)
  /\ UNCHANGED <<etc, durable, home, abandoned, acked, ops, kills, losses>>

SyncSkipped(p) ==
  /\ job[p].at = "sync" /\ Goto(p, "commit")
  /\ UNCHANGED <<etc, durable, home, abandoned, holder, acked, ops, kills, losses>>

(* The directory is synced: every rename in it becomes durable. *)
SyncDirectory(p) ==
  /\ job[p].at = "sync" /\ Goto(p, "commit")
  /\ durable' = etc
  /\ UNCHANGED <<etc, home, abandoned, holder, acked, ops, kills, losses>>

SyncDirectoryFails(p) ==
  /\ job[p].at = "sync" /\ Goto(p, "fail") /\ Unlock(p)
  /\ UNCHANGED <<etc, durable, home, abandoned, acked, ops, kills, losses>>

Succeed(p) ==
  /\ job[p].at = "commit" /\ job[p].left = {}
  /\ acked' = IF job[p].wrote THEN acked \cup {job[p].op} ELSE acked
  /\ Return(p) /\ Unlock(p)
  /\ UNCHANGED <<etc, durable, home, abandoned, ops, kills, losses>>

HomeKept(p) ==
  /\ job[p].at = "fail" /\ Return(p)
  /\ UNCHANGED <<etc, durable, home, abandoned, holder, acked, ops, kills, losses>>

(* createAccountUser removes the directory it created when the commit      *)
(* fails; the lock is already released.                                    *)
RemoveHome(p) ==
  /\ job[p].at = "fail" /\ Return(p)
  /\ home' = IF job[p].madeHome THEN home \ {job[p].op.name} ELSE home
  /\ UNCHANGED <<etc, durable, abandoned, holder, acked, ops, kills, losses>>

-----------------------------------------------------------------------------
(* Crashes. *)

Interrupted(procs) == {job[p].op.name : p \in {q \in procs : job[q].madeHome}}

Kill(p) ==
  /\ kills > 0 /\ kills' = kills - 1
  /\ job[p].at # "idle" /\ Return(p) /\ Unlock(p)
  /\ abandoned' = abandoned \cup Interrupted({p})
  /\ UNCHANGED <<etc, durable, home, acked, ops, losses>>

(* Each rename that was not synced may or may not have reached the disk.   *)
PowerLoss ==
  /\ losses > 0 /\ losses' = losses - 1
  /\ \E lost \in SUBSET File :
       etc' = [f \in File |-> IF f \in lost THEN durable[f] ELSE etc[f]]
  /\ durable' = etc'
  /\ home' \in SUBSET home /\ abandoned' = abandoned \cup Interrupted(Proc)
  /\ job' = [p \in Proc |-> Idle] /\ holder' = Nobody
  /\ UNCHANGED <<acked, ops, kills>>

-----------------------------------------------------------------------------
Init ==
  /\ etc = Initial /\ durable = Initial /\ home = {} /\ abandoned = {} /\ holder = Nobody
  /\ job = [p \in Proc |-> Idle]
  /\ acked = {} /\ ops = MaxOps /\ kills = MaxKill /\ losses = MaxLoss

Work(p) ==
  \/ \E o \in Ops : Begin(p, o)
  \/ Look(p) \/ Lock(p) \/ Mutate(p) \/ MutateFails(p)
  \/ Replace(p) \/ ReplaceFails(p) \/ SyncDirectory(p) \/ SyncDirectoryFails(p)
  \/ Succeed(p) \/ RemoveHome(p)

Next == PowerLoss \/ \E p \in Proc : Work(p) \/ Kill(p)

Spec == Init /\ [][Next]_vars

-----------------------------------------------------------------------------
(* Properties. *)

(* The shape of the state. *)
TypeOK ==
  /\ etc \in Files /\ durable \in Files
  /\ home \in SUBSET Name /\ abandoned \in SUBSET Name /\ holder \in Proc \cup {Nobody}
  /\ job \in [Proc -> Job]
  /\ acked \in SUBSET Op /\ ops \in Nat /\ kills \in Nat /\ losses \in Nat

(* Whoever reads the files at any moment, also after a crash between two   *)
(* renames, finds for every user a password line and a primary group.      *)
AccountsComplete == Complete(etc)

(* No two users share a uid and no two groups a gid, whether identifiers   *)
(* were asked for or chosen, the private group's included (a command run   *)
(* with -o, which asks for a uid in use, is not among Ops).                *)
IdsUnique == Unique(etc)

(* The password login checks for a user. *)
Effective(f, n) ==
  IF f.passwd[n].shadowed THEN f.shadow[n] ELSE f.passwd[n].pw

(* What a command that exited with status 0 promised.  (adduser that finds *)
(* the user in the group already installs nothing and is not counted.)    *)
Holds(o, f) ==
  CASE o.kind = "useradd" -> /\ o.name \in Users(f)
                             /\ \A g \in o.groups :
                                  \/ o.name \in f.group[g].members
                                  \/ f.group[g].gid = f.passwd[o.name].gid
    [] o.kind = "groupadd" -> o.name \in Groups(f)
    [] o.kind = "adduser" -> o.name \in f.group[o.group].members
    [] o.kind = "passwd" -> Effective(f, o.name) = [locked |-> FALSE, hash |-> o.hash]
    [] o.kind = "lock" -> Effective(f, o.name).locked
    [] o.kind = "unlock" -> ~Effective(f, o.name).locked
    [] o.kind = "delete" -> Effective(f, o.name).hash = NoHash

(* A success is never taken back: not by another command that ran at the   *)
(* same time, and not by a power loss afterwards.                          *)
SuccessKept == \A o \in acked : Holds(o, etc)

(* A useradd that fails leaves no home directory behind: each belongs to a *)
(* user, to the command that made it and is still running, or to one that  *)
(* was killed or lost power itself.                                        *)
NoOrphanHome ==
  \A n \in home : \/ n \in Users(etc) \/ n \in abandoned
                  \/ \E p \in Proc : job[p].madeHome /\ job[p].op.name = n

(* Refinement: every step but a power loss is one of a store whose accounts *)
(* and groups change one at a time, or leaves that store alone.            *)
Accounts ==
  [n \in Name |-> IF etc.passwd[n] = Absent THEN Absent
                 ELSE [uid |-> etc.passwd[n].uid, gid |-> etc.passwd[n].gid,
                       pw |-> Effective(etc, n),
                       groups |-> {g \in Groups(etc) : n \in etc.group[g].members}]]
Store == INSTANCE AccountStore WITH
  accounts <- Accounts,
  groups <- [g \in Name |-> IF etc.group[g] = Absent THEN Absent ELSE etc.group[g].gid]
StoreSpec == Store!Init /\ [][losses' < losses \/ Store!Next]_<<Store!vars, losses>>
-----------------------------------------------------------------------------
(* What makes AccountsComplete and IdsUnique inductive. *)

Busy(p) == job[p].at \in {"mutate", "commit", "sync"}

(* Only the holder of the lock reads and writes the files. *)
LockHeld == \A p \in Proc : Busy(p) => holder = p

(* Commands add password lines and groups, they never remove any. *)
Grows(f, g) ==
  /\ \A n \in Name : f.shadow[n] # Absent => g.shadow[n] # Absent
  /\ Gids(f) \subseteq Gids(g)

(* Each passwd that a crash can leave fits the least shadow and group that *)
(* a crash can leave.                                                      *)
CrashSafe ==
  /\ Grows(durable, etc) /\ UsersGid \in Gids(durable)
  /\ Supported(durable.passwd, durable) /\ Supported(etc.passwd, durable)

(* passwd is installed last, over a shadow and a group that are durable. *)
InOrder(j) ==
  /\ Grows(etc, j.db) /\ Complete(j.db) /\ Unique(j.db)
  /\ "shadow" \notin j.left => etc.shadow = j.db.shadow
  /\ "group" \notin j.left => etc.group = j.db.group
  /\ j.at = "commit" /\ j.left = {"passwd"} => Supported(j.db.passwd, durable)
CommitsInOrder ==
  \A p \in Proc : job[p].at \in {"commit", "sync"} => InOrder(job[p])

Inductive == /\ TypeOK /\ LockHeld /\ CrashSafe /\ CommitsInOrder
             /\ Unique(etc) /\ Unique(durable)
=============================================================================
