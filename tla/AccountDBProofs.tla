--------------------------- MODULE AccountDBProofs ---------------------------
(***************************************************************************)
(* Proofs about AccountDB, for any processes, names, files, identifiers    *)
(* and commands, and any number of kills and power losses: the types,      *)
(* AccountsComplete, IdsUnique, SuccessKept, NoOrphanHome and the steps *)
(* of AccountStore.  First what each command makes of its copy of the       *)
(* files, then what each step makes of the files, then what is promised.    *)
(***************************************************************************)
EXTENDS AccountDB, TLAPS


(* Some command can be run; Idle names it. *)
LEMMA AnOp == (CHOOSE o \in Ops : TRUE) \in Ops
BY InputAssumption

LEMMA IdleTyped == Idle \in Job
BY AnOp, InputAssumption DEF Idle, Job, Places

-----------------------------------------------------------------------------
(* The files a command may arrive at. *)

(* An identifier that is chosen is an identifier and not in use. *)
LEMMA ChosenIdsFree ==
  ASSUME NEW wanted \in UserIds \cup {NoId}, NEW system \in BOOLEAN, NEW used,
         NEW x \in ChosenIds(wanted, system, used)
  PROVE  x \in UserIds \cup SystemIds /\ x \notin used
BY DEF ChosenIds

GroupAdded(f, g, gid, new) ==
  /\ new \in Files
  /\ new.passwd = f.passwd /\ new.shadow = f.shadow
  /\ new.group[g] = [gid |-> gid, members |-> {}]
  /\ \A h \in Name \ {g} : new.group[h] = f.group[h]
  /\ Groups(new) = Groups(f) \cup {g}
  /\ Gids(new) = Gids(f) \cup {gid}
  /\ UniqueGids(f) /\ gid \notin Gids(f) => UniqueGids(new)

(* A new group with a free gid keeps what holds of the files. *)
LEMMA NewGroupKeeps ==
  ASSUME NEW f \in Files, NEW g \in Name, NEW gid \in Ids,
         f.group[g] = Absent
  PROVE  GroupAdded(f, g, gid, WithGroup(f, g, gid))
<1> DEFINE new == WithGroup(f, g, gid)
           line == [gid |-> gid, members |-> {}]
<1>1. line \in Group /\ line # Absent
  BY NameAssumption DEF Group
<1>2. new = [f EXCEPT !.group = [f.group EXCEPT ![g] = line]]
  BY DEF WithGroup, Files
<1>3. new.passwd = f.passwd /\ new.shadow = f.shadow
      /\ new.group = [f.group EXCEPT ![g] = line]
  BY <1>2 DEF Files
<1>4. new \in Files
  <2>1. [f.group EXCEPT ![g] = line] \in [Name -> Group \cup {Absent}]
    BY <1>1 DEF Files
  <2> HIDE DEF line
  <2> QED BY <1>2, <2>1 DEF Files
<1>5. new.group[g] = line /\ \A h \in Name \ {g} : new.group[h] = f.group[h]
  BY <1>3 DEF Files
<1>6. Groups(new) = Groups(f) \cup {g}
  BY <1>1, <1>5 DEF Groups
<1>7. Gids(new) = Gids(f) \cup {gid}
  <2>1. \A h \in Groups(f) : new.group[h].gid = f.group[h].gid
    BY <1>5 DEF Groups
  <2>2. new.group[g].gid = gid
    BY <1>5
  <2>3. g \notin Groups(f)
    BY DEF Groups
  <2> QED BY <1>6, <2>1, <2>2, <2>3 DEF Gids
<1>8. ASSUME UniqueGids(f), gid \notin Gids(f)
      PROVE  UniqueGids(new)
  <2>1. \A h \in Groups(f) : new.group[h].gid = f.group[h].gid /\ f.group[h].gid # gid
    BY <1>5, <1>8 DEF Groups, Gids
  <2>2. new.group[g].gid = gid
    BY <1>5
  <2> QED BY <1>6, <1>8, <2>1, <2>2 DEF UniqueGids
<1> QED BY <1>3, <1>4, <1>5, <1>6, <1>7, <1>8 DEF GroupAdded

MembersAdded(f, new) ==
  /\ new \in Files
  /\ new.passwd = f.passwd /\ new.shadow = f.shadow
  /\ Groups(new) = Groups(f)
  /\ \A g \in Groups(f) : new.group[g].gid = f.group[g].gid
  /\ Gids(new) = Gids(f)
  /\ UniqueGids(f) => UniqueGids(new)

(* Adding a member leaves everything but the member lists. *)
LEMMA NewMemberKeeps ==
  ASSUME NEW f \in Files, NEW n \in Name, NEW groups \in SUBSET Name,
         groups \subseteq Groups(f)
  PROVE  MembersAdded(f, WithMember(f, n, groups))
<1> DEFINE new == WithMember(f, n, groups)
           line(g) == IF g \in groups THEN [f.group[g] EXCEPT !.members = @ \cup {n}]
                      ELSE f.group[g]
<1>1. new.passwd = f.passwd /\ new.shadow = f.shadow
      /\ new.group = [g \in Name |-> line(g)]
  BY DEF WithMember, Files
<1>2. \A g \in Groups(f) : /\ f.group[g] \in Group
                           /\ line(g) \in Group /\ line(g) # Absent
                           /\ line(g).gid = f.group[g].gid
  <2> SUFFICES ASSUME NEW g \in Groups(f)
               PROVE  /\ f.group[g] \in Group
                      /\ line(g) \in Group /\ line(g) # Absent
                      /\ line(g).gid = f.group[g].gid
    OBVIOUS
  <2>1. f.group[g] \in Group
    BY DEF Files, Groups
  <2>2. [f.group[g] EXCEPT !.members = @ \cup {n}] \in Group
        /\ [f.group[g] EXCEPT !.members = @ \cup {n}].gid = f.group[g].gid
    BY <2>1 DEF Group
  <2> QED BY <2>1, <2>2, NameAssumption
<1>3. \A g \in Name \ Groups(f) : line(g) = Absent
  BY DEF Groups
<1> HIDE DEF line
<1>4. [g \in Name |-> line(g)] \in [Name -> Group \cup {Absent}]
  BY <1>2, <1>3
<1>5. new = [f EXCEPT !.group = [g \in Name |-> line(g)]]
  BY DEF WithMember, line
<1>6. new \in Files
  BY <1>4, <1>5 DEF Files
<1>7. Groups(new) = Groups(f)
  BY <1>1, <1>2, <1>3 DEF Groups
<1>8. \A g \in Groups(f) : new.group[g].gid = f.group[g].gid
  BY <1>1, <1>2 DEF Groups
<1>9. Gids(new) = Gids(f)
  BY <1>7, <1>8 DEF Gids
<1>10. UniqueGids(f) => UniqueGids(new)
  BY <1>7, <1>8 DEF UniqueGids
<1> QED BY <1>1, <1>6, <1>7, <1>8, <1>9, <1>10 DEF MembersAdded

(* What a command makes of complete files keeps every line, is complete    *)
(* and, but for the uid asked for with -o, unique.  Files are installed in *)
(* an order that never lets passwd come before what it needs.             *)
PlanKeeps(f, new) ==
  /\ new \in Files /\ Grows(f, new) /\ Complete(new) /\ Unique(new)

LEMMA PlanUserKeeps ==
  ASSUME NEW f \in Files, Complete(f), Unique(f), UsersGid \in Gids(f),
         NEW o \in UserAdd, NEW new \in PlanUser(f, o)
  PROVE  PlanKeeps(f, new) /\ new.shadow # f.shadow
<1> DEFINE n == o.name
           Start(uid) == IF PrivateGroup(o) THEN WithGroup(f, n, uid) ELSE f
           Gid(uid) == PrimaryGid(f, o, uid)
           Joined(uid) == {h \in o.groups : Start(uid).group[h].gid # Gid(uid)}
           Member(uid) == WithMember(Start(uid), n, Joined(uid))
           pass == [locked |-> TRUE, hash |-> NoHash]
<1>o. n \in Name /\ o.uid \in UserIds \cup {NoId} /\ o.system \in BOOLEAN
      /\ o.groups \subseteq Name /\ o.primary \in Name \cup {NoName}
  BY DEF UserAdd
<1>g. /\ f.passwd[n] = Absent /\ f.shadow[n] = Absent
      /\ PrivateGroup(o) => f.group[n] = Absent
      /\ o.primary # NoName => f.group[o.primary] # Absent
      /\ \A h \in o.groups : \/ f.group[h] # Absent
                             \/ PrivateGroup(o) /\ h = n
  BY DEF PlanUser
<1>1. PICK uid \in ChosenIds(o.uid, o.system,
                 Uids(f) \cup IF PrivateGroup(o) THEN Gids(f) ELSE {}) :
        new = [Member(uid) EXCEPT !.passwd[n] = NewUser(uid, Gid(uid)),
                                  !.shadow[n] = pass]
  BY <1>g DEF PlanUser
<1> DEFINE s == Start(uid)
           gid == Gid(uid)
           m == Member(uid)
           user == NewUser(uid, gid)
<1>2. uid \in Ids /\ uid \notin Uids(f) /\ (PrivateGroup(o) => uid \notin Gids(f))
  <2> DEFINE used == Uids(f) \cup IF PrivateGroup(o) THEN Gids(f) ELSE {}
  <2>1. uid \in UserIds \cup SystemIds /\ uid \notin used
    <3>1. uid \in ChosenIds(o.uid, o.system, used)
      OBVIOUS
    <3> HIDE DEF used
    <3> QED BY ChosenIdsFree, <1>o, <3>1
  <2> QED BY <2>1 DEF Ids
<1>3. /\ s \in Files /\ s.passwd = f.passwd /\ s.shadow = f.shadow
      /\ Gids(f) \subseteq Gids(s) /\ UniqueGids(s)
      /\ PrivateGroup(o) => uid \in Gids(s)
      /\ o.groups \subseteq Groups(s)
  <2>1. CASE PrivateGroup(o)
    <3>1. s = WithGroup(f, n, uid)
      BY <2>1
    <3>2. f.group[n] = Absent /\ UniqueGids(f) /\ uid \notin Gids(f)
      BY <1>g, <1>2, <2>1 DEF Unique
    <3>3. /\ s \in Files /\ s.passwd = f.passwd /\ s.shadow = f.shadow
          /\ Groups(s) = Groups(f) \cup {n} /\ Gids(s) = Gids(f) \cup {uid}
          /\ UniqueGids(s)
      <4>1. n \in Name /\ uid \in Ids
        BY <1>o, <1>2
      <4>2. GroupAdded(f, n, uid, s)
        BY <3>1, <3>2, <4>1, NewGroupKeeps
      <4> QED BY <3>2, <4>2 DEF GroupAdded
    <3>4. o.groups \subseteq Groups(s)
      <4> HIDE DEF s
      <4> QED BY <1>o, <1>g, <2>1, <3>3 DEF Groups
    <3> QED BY <3>3, <3>4
  <2>2. CASE ~PrivateGroup(o)
    <3>1. s = f
      BY <2>2
    <3> QED BY <1>o, <1>g, <2>2, <3>1 DEF Groups, Unique
  <2> QED BY <2>1, <2>2
<1>4. gid \in Ids /\ gid \in Gids(s)
  <2>1. CASE o.primary # NoName
    <3>1. gid = f.group[o.primary].gid
      BY <2>1 DEF PrimaryGid
    <3>2. o.primary \in Groups(f) /\ f.group[o.primary] \in Group
      BY <1>o, <1>g, <2>1 DEF Groups, Files
    <3>3. gid \in Ids /\ gid \in Gids(f)
      BY <3>1, <3>2 DEF Gids, Group
    <3> QED BY <1>3, <3>3
  <2>2. CASE o.primary = NoName /\ ~o.noUserGroup
    <3>1. gid = uid /\ PrivateGroup(o)
      BY <2>2 DEF PrimaryGid, PrivateGroup
    <3> QED BY <1>2, <1>3, <3>1
  <2>3. CASE o.primary = NoName /\ o.noUserGroup
    <3>1. gid = UsersGid
      BY <2>3 DEF PrimaryGid
    <3> QED BY <1>3, <3>1 DEF Ids
  <2> QED BY <2>1, <2>2, <2>3
<1>5. /\ m \in Files /\ m.passwd = f.passwd /\ m.shadow = f.shadow
      /\ Gids(m) = Gids(s) /\ UniqueGids(m)
  <2>1. m = WithMember(s, n, Joined(uid))
    OBVIOUS
  <2>2. Joined(uid) \in SUBSET Name /\ Joined(uid) \subseteq Groups(s)
    BY <1>o, <1>3
  <2> HIDE DEF m, s, Joined
  <2>3. MembersAdded(s, m)
    BY <1>o, <1>3, <2>1, <2>2, NewMemberKeeps
  <2> QED BY <1>3, <2>3 DEF MembersAdded
<1>6. user \in User /\ user # Absent /\ user.shadowed /\ user.uid = uid
      /\ user.gid = gid /\ pass \in Password /\ pass # Absent
  <2> HIDE DEF gid
  <2>1. pass \in Password /\ [locked |-> FALSE, hash |-> NoHash] \in Password
    BY DEF Password
  <2>2. user \in User
    BY <1>2, <1>4, <2>1 DEF User, NewUser
  <2> QED BY <2>1, <2>2, NameAssumption DEF NewUser, Ids
<1> HIDE DEF gid, s, m, user, pass
<1>7. new = [m EXCEPT !.passwd = [m.passwd EXCEPT ![n] = user],
                      !.shadow = [m.shadow EXCEPT ![n] = pass]]
  BY <1>1 DEF m, gid, user, pass
<1>8. /\ new.passwd = [f.passwd EXCEPT ![n] = user]
      /\ new.shadow = [f.shadow EXCEPT ![n] = pass]
      /\ new.group = m.group
  BY <1>5, <1>7 DEF Files
<1>9. new \in Files
  <2>1. [m.passwd EXCEPT ![n] = user] \in [Name -> User \cup {Absent}]
    BY <1>5, <1>6 DEF Files
  <2>2. [m.shadow EXCEPT ![n] = pass] \in [Name -> Password \cup {Absent}]
    BY <1>5, <1>6 DEF Files
  <2> QED BY <1>5, <1>7, <2>1, <2>2 DEF Files
<1>10. Gids(new) = Gids(m) /\ Groups(new) = Groups(m)
  BY <1>8 DEF Gids, Groups
<1>11. \A k \in Name : /\ new.passwd[k] = IF k = n THEN user ELSE f.passwd[k]
                       /\ new.shadow[k] = IF k = n THEN pass ELSE f.shadow[k]
  BY <1>8 DEF Files
<1>12. Grows(f, new)
  BY <1>3, <1>5, <1>6, <1>10, <1>11 DEF Grows
<1>13. Complete(new)
  <2> SUFFICES ASSUME NEW k \in Name, new.passwd[k] # Absent
               PROVE  /\ new.passwd[k].shadowed => new.shadow[k] # Absent
                      /\ new.passwd[k].gid \in Gids(new)
    BY DEF Complete, Supported
  <2>1. CASE k = n
    BY <1>4, <1>5, <1>6, <1>10, <1>11, <2>1
  <2>2. CASE k # n
    BY <1>12, <1>11, <2>2 DEF Complete, Supported, Grows
  <2> QED BY <2>1, <2>2
<1>14. UniqueUids(new)
  <2>1. Users(new) = Users(f) \cup {n}
    BY <1>6, <1>11, <1>o DEF Users
  <2>2. \A k \in Users(f) : new.passwd[k].uid = f.passwd[k].uid /\ f.passwd[k].uid # uid
    BY <1>2, <1>11, <1>g DEF Users, Uids
  <2>3. new.passwd[n].uid = uid
    BY <1>6, <1>11, <1>o
  <2> QED BY <2>1, <2>2, <2>3 DEF UniqueUids, Unique
<1>15. UniqueGids(new)
  BY <1>5, <1>8, <1>10 DEF UniqueGids
<1>16. new.shadow # f.shadow
  BY <1>6, <1>11, <1>g, <1>o
<1> QED BY <1>9, <1>12, <1>13, <1>14, <1>15, <1>16 DEF PlanKeeps, Unique

LEMMA PlanGroupKeeps ==
  ASSUME NEW f \in Files, Complete(f), Unique(f), NEW o \in GroupAdd,
         NEW new \in PlanGroup(f, o)
  PROVE  PlanKeeps(f, new) /\ new.passwd = f.passwd
<1>1. o.name \in Name /\ o.gid \in UserIds \cup {NoId} /\ f.group[o.name] = Absent
  BY DEF GroupAdd, PlanGroup
<1>2. PICK gid \in ChosenIds(o.gid, FALSE, Gids(f)) : new = WithGroup(f, o.name, gid)
  BY <1>1 DEF PlanGroup
<1>3. gid \in Ids /\ gid \notin Gids(f)
  BY <1>1, ChosenIdsFree DEF Ids
<1>4. GroupAdded(f, o.name, gid, new)
  BY <1>1, <1>2, <1>3, NewGroupKeeps
<1>5. UniqueUids(new) /\ Complete(new) /\ Grows(f, new)
  BY <1>4 DEF GroupAdded, Unique, UniqueUids, Users, Complete, Supported, Grows
<1> QED BY <1>3, <1>4, <1>5 DEF GroupAdded, PlanKeeps, Unique

LEMMA PlanMemberKeeps ==
  ASSUME NEW f \in Files, Complete(f), Unique(f), NEW o \in AddUser,
         NEW new \in PlanMember(f, o)
  PROVE  PlanKeeps(f, new) /\ new.passwd = f.passwd
<1>1. /\ o.name \in Name /\ {o.group} \subseteq Groups(f) /\ {o.group} \in SUBSET Name
      /\ new = WithMember(f, o.name, {o.group})
  BY DEF AddUser, PlanMember, Groups
<1>2. MembersAdded(f, new)
  BY <1>1, NewMemberKeeps
<1>3. UniqueUids(new) /\ Complete(new) /\ Grows(f, new)
  BY <1>2 DEF MembersAdded, Unique, UniqueUids, Users, Complete, Supported, Grows
<1> QED BY <1>2, <1>3 DEF MembersAdded, PlanKeeps, Unique

LEMMA NewPasswordTyped ==
  ASSUME NEW o \in SetPassword \cup ModifyAccount, NEW pw \in Password
  PROVE  NewPassword(o, pw) \in Password
<1>1. CASE o \in SetPassword
  BY <1>1 DEF SetPassword, NewPassword, Password
<1>2. CASE o \in ModifyAccount
  BY <1>2 DEF ModifyAccount, NewPassword, Password
<1> QED BY <1>1, <1>2

(* passwd keeps the user and the primary group of every line. *)
LEMMA PlanPasswordKeeps ==
  ASSUME NEW f \in Files, Complete(f), Unique(f),
         NEW o \in SetPassword \cup ModifyAccount, NEW file \in {"shadow", "passwd"},
         NEW new \in PlanPassword(f, o, file)
  PROVE  /\ PlanKeeps(f, new)
         /\ new.group = f.group
         /\ file = "shadow" => new.passwd = f.passwd
         /\ file = "passwd" => /\ new.shadow = f.shadow
                              /\ \A d : Supported(f.passwd, d) => Supported(new.passwd, d)
<1> DEFINE n == o.name
<1>n. n \in Name
  BY DEF SetPassword, ModifyAccount
<1>1. CASE file = "shadow"
  <2> DEFINE pw == NewPassword(o, f.shadow[n])
  <2>1. f.shadow[n] # Absent /\ new = [f EXCEPT !.shadow[n] = pw]
    BY <1>1 DEF PlanPassword
  <2>2. pw \in Password
    BY <1>n, <2>1, NewPasswordTyped DEF Files
  <2>3. pw # Absent
    BY <2>2, NameAssumption
  <2> HIDE DEF pw
  <2>4. new = [f EXCEPT !.shadow = [f.shadow EXCEPT ![n] = pw]]
    BY <2>1 DEF Files
  <2>5. [f.shadow EXCEPT ![n] = pw] \in [Name -> Password \cup {Absent}]
    BY <2>2 DEF Files
  <2>6. /\ new \in Files /\ new.passwd = f.passwd /\ new.group = f.group
        /\ new.shadow = [f.shadow EXCEPT ![n] = pw]
    BY <2>4, <2>5 DEF Files
  <2>7. Gids(new) = Gids(f) /\ UniqueGids(new) /\ UniqueUids(new)
    BY <2>6 DEF Gids, Groups, Users, Unique, UniqueGids, UniqueUids
  <2>8. \A k \in Name : f.shadow[k] # Absent => new.shadow[k] # Absent
    BY <2>3, <2>6 DEF Files
  <2> QED BY <1>1, <2>6, <2>7, <2>8
          DEF PlanKeeps, Grows, Complete, Supported, Unique
<1>2. CASE file = "passwd"
  <2> DEFINE line == NewUnshadowed(o, f.passwd[n])
  <2>1. f.passwd[n] # Absent /\ new = [f EXCEPT !.passwd[n] = line]
    BY <1>2 DEF PlanPassword
  <2>2. f.passwd[n] \in User
    BY <1>n, <2>1 DEF Files
  <2>3. /\ line \in User /\ line.uid = f.passwd[n].uid
        /\ line.gid = f.passwd[n].gid /\ ~line.shadowed
    <3>1. NewPassword(o, f.passwd[n].pw) \in Password
      BY <2>2, NewPasswordTyped DEF User
    <3> QED BY <2>2, <3>1 DEF User, NewUnshadowed
  <2>4. line # Absent
    BY <2>3, NameAssumption
  <2> HIDE DEF line
  <2>5. new = [f EXCEPT !.passwd = [f.passwd EXCEPT ![n] = line]]
    BY <2>1 DEF Files
  <2>6. [f.passwd EXCEPT ![n] = line] \in [Name -> User \cup {Absent}]
    BY <2>3 DEF Files
  <2>7. /\ new \in Files /\ new.shadow = f.shadow /\ new.group = f.group
        /\ new.passwd = [f.passwd EXCEPT ![n] = line]
    BY <2>5, <2>6 DEF Files
  <2>8. Gids(new) = Gids(f) /\ UniqueGids(new)
    BY <2>7 DEF Gids, Groups, Unique, UniqueGids
  <2>9. \A k \in Name : /\ new.passwd[k] # Absent <=> f.passwd[k] # Absent
                        /\ new.passwd[k].uid = f.passwd[k].uid
                        /\ new.passwd[k].gid = f.passwd[k].gid
                        /\ new.passwd[k].shadowed => f.passwd[k].shadowed
    BY <2>1, <2>3, <2>4, <2>7 DEF Files
  <2>10. UniqueUids(new)
    BY <2>9 DEF Unique, UniqueUids, Users
  <2>11. \A d : Supported(f.passwd, d) => Supported(new.passwd, d)
    BY <2>9 DEF Supported
  <2>12. Complete(new)
    BY <2>7, <2>8, <2>9 DEF Complete, Supported
  <2> QED BY <1>2, <2>7, <2>8, <2>10, <2>11, <2>12
          DEF PlanKeeps, Grows, Unique
<1> QED BY <1>1, <1>2

(* What every command makes of its copy. *)
LEMMA PlansKeep ==
  ASSUME NEW f \in Files, Complete(f), Unique(f), UsersGid \in Gids(f),
         NEW o \in Op, NEW file \in {"shadow", "passwd"}, NEW new \in Plans(f, o, file)
  PROVE  /\ PlanKeeps(f, new)
         /\ o.kind \notin PasswdKinds /\ new.passwd # f.passwd => new.shadow # f.shadow
         /\ o.kind \in PasswdKinds =>
              /\ new.group = f.group
              /\ file = "shadow" => new.passwd = f.passwd
              /\ file = "passwd" =>
                   /\ new.shadow = f.shadow
                   /\ \A d : Supported(f.passwd, d) => Supported(new.passwd, d)
<1>1. CASE o \in UserAdd
  <2>1. o.kind = "useradd" /\ new \in PlanUser(f, o)
    BY <1>1 DEF UserAdd, Plans
  <2> QED BY <1>1, <2>1, PlanUserKeeps DEF PasswdKinds
<1>2. CASE o \in GroupAdd
  <2>1. o.kind = "groupadd" /\ new \in PlanGroup(f, o)
    BY <1>2 DEF GroupAdd, Plans
  <2> QED BY <1>2, <2>1, PlanGroupKeeps DEF PasswdKinds
<1>3. CASE o \in AddUser
  <2>1. o.kind = "adduser" /\ new \in PlanMember(f, o)
    BY <1>3 DEF AddUser, Plans
  <2> QED BY <1>3, <2>1, PlanMemberKeeps DEF PasswdKinds
<1>4. CASE o \in SetPassword \cup ModifyAccount
  <2>1. o.kind \in PasswdKinds /\ new \in PlanPassword(f, o, file)
    BY <1>4 DEF SetPassword, ModifyAccount, PasswdKinds, Plans
  <2> QED BY <1>4, <2>1, PlanPasswordKeeps
<1> QED BY <1>1, <1>2, <1>3, <1>4 DEF Op

-----------------------------------------------------------------------------
(* What a step makes of the files. *)

(* A step that leaves the files alone and takes no process into a command's *)
(* locked part.                                                             *)
LEMMA LeavesFiles ==
  ASSUME Inductive, TypeOK', NEW p \in Proc, NEW j, j.at \notin {"mutate", "commit", "sync"},
         job' = [job EXCEPT ![p] = j], UNCHANGED <<etc, durable>>,
         holder' = holder \/ holder' = IF holder = p THEN Nobody ELSE holder
  PROVE  Inductive'
<1>1. \A q \in Proc : job'[q] = IF q = p THEN j ELSE job[q]
  BY DEF Inductive, TypeOK
<1>2. LockHeld'
  BY <1>1 DEF Inductive, LockHeld, Busy
<1>3. CrashSafe' /\ Unique(etc)' /\ Unique(durable)'
  BY DEF Inductive, CrashSafe
<1>4. CommitsInOrder'
  <2> SUFFICES ASSUME NEW q \in Proc, job'[q].at \in {"commit", "sync"}
               PROVE  InOrder(job[q])' 
    BY DEF CommitsInOrder
  <2>1. job'[q] = job[q]
    BY <1>1
  <2>2. InOrder(job[q])
    BY <2>1 DEF Inductive, CommitsInOrder
  <2> QED BY <2>1, <2>2 DEF InOrder
<1> QED BY <1>2, <1>3, <1>4 DEF Inductive

LEMMA JobFields ==
  ASSUME NEW j \in Job, NEW place \in Places
  PROVE  [j EXCEPT !.at = place] \in Job /\ [j EXCEPT !.at = place].at = place
BY DEF Job

LEMMA InitInductive == Init => Inductive
<1> SUFFICES ASSUME Init PROVE Inductive
  OBVIOUS
<1>1. TypeOK
  BY IdleTyped, InputAssumption, BoundAssumption DEF Init, TypeOK
<1>2. \A p \in Proc : job[p].at = "idle"
  BY DEF Init, Idle
<1>3. LockHeld /\ CommitsInOrder
  BY <1>2 DEF LockHeld, Busy, CommitsInOrder
<1>4. CrashSafe /\ Unique(etc) /\ Unique(durable)
  BY InputAssumption DEF Init, CrashSafe, Grows, Complete
<1> QED BY <1>1, <1>3, <1>4 DEF Inductive

(* The steps that leave the files alone and end outside the lock. *)
LEMMA OpTyped ==
  ASSUME Inductive, NEW p \in Proc
  PROVE  /\ job[p] \in Job /\ job[p].op \in Op /\ job[p].op.name \in Name
         /\ job[p].left \subseteq File /\ job[p].db \in Files /\ job[p].target \in {"shadow", "passwd"}
         /\ etc \in Files /\ durable \in Files /\ acked \subseteq Op
BY DEF Inductive, TypeOK, Job, Op, UserAdd, GroupAdd, AddUser, SetPassword, ModifyAccount

LEMMA QuietSteps ==
  ASSUME Inductive, NEW p \in Proc,
         \/ \E o \in Ops : Begin(p, o)
         \/ Look(p) \/ MutateFails(p) \/ ReplaceFails(p) \/ SyncDirectoryFails(p)
         \/ Succeed(p) \/ RemoveHome(p) \/ Kill(p)
  PROVE  Inductive'
<1>t. TypeOK /\ job[p] \in Job
  BY DEF Inductive, TypeOK
<1>1. ASSUME NEW o \in Ops, Begin(p, o) PROVE Inductive'
  <2> DEFINE j == [job[p] EXCEPT !.op = o,
                     !.at = IF o.kind \in PasswdKinds THEN "look" ELSE "lock"]
  <2>1. job' = [job EXCEPT ![p] = j]
    BY <1>1 DEF Begin
  <2>2. j \in Job /\ j.at \in {"look", "lock"}
    <3>1. o \in Op
      BY InputAssumption
    <3> QED BY <1>t, <3>1 DEF Job, Places
  <2> HIDE DEF j
  <2>3. TypeOK'
    <3>1. ops' \in Nat
      <4>1. ops \in Nat
        BY <1>t DEF TypeOK
      <4>2. ops > 0 /\ ops' = ops - 1
        BY <1>1 DEF Begin
      <4> QED BY <4>1, <4>2
    <3>2. job' \in [Proc -> Job]
      BY <1>t, <2>1, <2>2 DEF TypeOK
    <3> QED BY <1>1, <1>t, <3>1, <3>2 DEF Begin, TypeOK
  <2> QED BY <1>1, <2>1, <2>2, <2>3, LeavesFiles DEF Begin
<1>2. CASE Look(p)
  <2>1. PICK j \in Job : /\ job' = [job EXCEPT ![p] = j]
                        /\ j.at \notin {"mutate", "commit", "sync"}
    <3>1. CASE Return(p)
      BY <3>1, IdleTyped DEF Return, Idle
    <3>2. CASE job' = [job EXCEPT ![p].at = "lock", ![p].target =
                         IF etc.passwd[job[p].op.name].shadowed THEN "shadow" ELSE "passwd"]
      <4> DEFINE j == [job[p] EXCEPT !.at = "lock", !.target =
                         IF etc.passwd[job[p].op.name].shadowed THEN "shadow" ELSE "passwd"]
      <4>1. j \in Job /\ j.at = "lock"
        BY <1>t DEF Job, Places
      <4> QED BY <3>2, <4>1
    <3> QED BY <1>2, <3>1, <3>2 DEF Look
  <2>2. TypeOK'
    BY <1>2, <1>t, <2>1 DEF Look, TypeOK
  <2> QED BY <1>2, <2>1, <2>2, LeavesFiles DEF Look
<1>3. CASE MutateFails(p) \/ Succeed(p) \/ RemoveHome(p) \/ Kill(p)
  <2>1. job' = [job EXCEPT ![p] = Idle] /\ Idle.at = "idle"
    BY <1>3 DEF MutateFails, Succeed, RemoveHome, Kill, Return, Idle
  <2>2. TypeOK'
    <3>1. job' \in [Proc -> Job]
      BY <1>t, <2>1, IdleTyped DEF TypeOK
    <3>2. job[p].op \in Op /\ job[p].op.name \in {job[p].op.name}
      BY <1>t DEF Job
    <3>3. acked' \in SUBSET Op /\ kills' \in Nat
      BY <1>3, <1>t, <3>2 DEF MutateFails, Succeed, RemoveHome, Kill, TypeOK
    <3>4. home' \in SUBSET Name
      BY <1>3, <1>t DEF MutateFails, Succeed, RemoveHome, Kill, TypeOK
    <3>5. abandoned' \in SUBSET Name
      <4>1. abandoned \subseteq Name /\ Interrupted({p}) \subseteq Name
        BY OpTyped, <1>t DEF TypeOK, Interrupted
      <4> QED BY <1>3, <4>1 DEF MutateFails, Succeed, RemoveHome, Kill
    <3> QED BY <1>3, <1>t, <3>1, <3>3, <3>4, <3>5
            DEF MutateFails, Succeed, RemoveHome, Kill, TypeOK, Unlock
  <2>3. UNCHANGED <<etc, durable>> /\
          (holder' = holder \/ holder' = IF holder = p THEN Nobody ELSE holder)
    BY <1>3 DEF MutateFails, Succeed, RemoveHome, Kill, Unlock
  <2> QED BY <2>1, <2>2, <2>3, LeavesFiles
<1>4. CASE ReplaceFails(p) \/ SyncDirectoryFails(p)
  <2> DEFINE j == [job[p] EXCEPT !.at = "fail"]
  <2>1. job' = [job EXCEPT ![p] = j]
    BY <1>4 DEF ReplaceFails, SyncDirectoryFails, Goto
  <2>2. j \in Job /\ j.at = "fail"
    BY <1>t, JobFields DEF Places
  <2> HIDE DEF j
  <2>3. TypeOK'
    BY <1>4, <1>t, <2>1, <2>2 DEF ReplaceFails, SyncDirectoryFails, TypeOK, Unlock
  <2> QED BY <1>4, <2>1, <2>2, <2>3, LeavesFiles
          DEF ReplaceFails, SyncDirectoryFails, Unlock
<1> QED BY <1>1, <1>2, <1>3, <1>4

LEMMA LockStep ==
  ASSUME Inductive, NEW p \in Proc, Lock(p)
  PROVE  Inductive'
<1>t. TypeOK /\ job[p] \in Job
  BY DEF Inductive, TypeOK
<1>1. CASE holder # Nobody
  <2>1. job' = [job EXCEPT ![p] = Idle] /\ Idle.at = "idle"
    BY <1>1 DEF Lock, Return, Idle
  <2>2. TypeOK'
    BY <1>1, <1>t, <2>1, IdleTyped DEF Lock, TypeOK
  <2> QED BY <1>1, <2>1, <2>2, LeavesFiles DEF Lock
<1>2. CASE holder = Nobody
  <2> DEFINE j == [job[p] EXCEPT !.at = "mutate"]
  <2>1. job' = [job EXCEPT ![p] = j] /\ holder' = p
    BY <1>2 DEF Lock, Goto
  <2>2. j \in Job /\ j.at = "mutate"
    BY <1>t, JobFields DEF Places
  <2> HIDE DEF j
  <2>3. TypeOK'
    BY <1>t, <1>2, <2>1, <2>2 DEF Lock, TypeOK
  <2>4. \A q \in Proc : ~Busy(q)
    BY <1>2, NameAssumption DEF Inductive, LockHeld
  <2>5. \A q \in Proc : job'[q] = IF q = p THEN j ELSE job[q]
    BY <1>t, <2>1 DEF TypeOK
  <2>6. \A q \in Proc : q # p => job'[q].at \notin {"mutate", "commit", "sync"}
    BY <2>4, <2>5 DEF Busy
  <2>7. LockHeld' /\ CommitsInOrder'
    BY <2>1, <2>2, <2>5, <2>6 DEF LockHeld, CommitsInOrder, Busy
  <2>8. CrashSafe' /\ Unique(etc)' /\ Unique(durable)'
    BY DEF Lock, Inductive, CrashSafe
  <2> QED BY <2>3, <2>7, <2>8 DEF Inductive
<1> QED BY <1>1, <1>2

(* While p has the lock, no other process has begun to install a file. *)
LEMMA Alone ==
  ASSUME Inductive, NEW p \in Proc, Busy(p), NEW q \in Proc, q # p
  PROVE  ~Busy(q)
BY DEF Inductive, LockHeld

(* The files in a crash's reach, seen from the newest ones. *)
LEMMA GrowsMore ==
  ASSUME NEW f, NEW g, Grows(f, g)
  PROVE  /\ \A passwd : Supported(passwd, f) => Supported(passwd, g)
         /\ \A h : Grows(g, h) => Grows(f, h)
BY DEF Grows, Supported

LEMMA Accounted ==
  ASSUME Inductive
  PROVE  /\ Complete(etc) /\ Complete(durable) /\ UsersGid \in Gids(etc)
         /\ etc \in Files /\ durable \in Files
BY GrowsMore DEF Inductive, TypeOK, CrashSafe, Complete, Grows


LEMMA OthersOutside ==
  ASSUME Inductive, NEW p \in Proc, Busy(p), NEW j, job' = [job EXCEPT ![p] = j],
         holder' = holder
  PROVE  /\ job'[p] = j
         /\ \A q \in Proc \ {p} : job'[q].at \notin {"mutate", "commit", "sync"}
         /\ LockHeld'
<1>1. \A q \in Proc : job'[q] = IF q = p THEN j ELSE job[q]
  BY DEF Inductive, TypeOK
<1>2. \A q \in Proc \ {p} : job'[q].at \notin {"mutate", "commit", "sync"}
  BY <1>1, Alone DEF Busy
<1>3. LockHeld'
  BY <1>2 DEF Inductive, LockHeld, Busy
<1> QED BY <1>1, <1>2, <1>3

LEMMA MutateStep ==
  ASSUME Inductive, NEW p \in Proc, Mutate(p)
  PROVE  Inductive'
<1> DEFINE o == job[p].op
           target == job[p].target
           makesHome == o.kind = "useradd" /\ o.home
<1>t. TypeOK /\ job[p] \in Job /\ o \in Op /\ target \in {"shadow", "passwd"}
  BY DEF Inductive, TypeOK, Job
<1>b. Busy(p)
  BY DEF Mutate, Busy
<1>1. PICK new \in Plans(etc, o, target) :
        job' = [job EXCEPT ![p] =
                 [@ EXCEPT !.at = "commit", !.db = new, !.madeHome = makesHome,
                           !.left = IF o.kind \in PasswdKinds THEN {target}
                                    ELSE {f \in File : new[f] # etc[f]}]]
  BY DEF Mutate
<1> DEFINE left == IF o.kind \in PasswdKinds THEN {target}
                   ELSE {f \in File : new[f] # etc[f]}
<1>j. PICK j : j = [job[p] EXCEPT !.at = "commit", !.db = new,
                                  !.madeHome = makesHome, !.left = left]
  OBVIOUS
<1>2. job' = [job EXCEPT ![p] = j]
  BY <1>1, <1>j, <1>t DEF TypeOK
<1>3. /\ PlanKeeps(etc, new)
      /\ o.kind \notin PasswdKinds /\ new.passwd # etc.passwd => new.shadow # etc.shadow
      /\ o.kind \in PasswdKinds =>
           /\ new.group = etc.group
           /\ target = "shadow" => new.passwd = etc.passwd
           /\ target = "passwd" =>
                /\ new.shadow = etc.shadow
                /\ \A d : Supported(etc.passwd, d) => Supported(new.passwd, d)
  <2>1. Complete(etc) /\ UsersGid \in Gids(etc) /\ etc \in Files /\ Unique(etc)
    BY Accounted DEF Inductive
  <2> HIDE DEF o, target
  <2> QED BY <1>t, <2>1, PlansKeep
<1>4. left \subseteq File /\ new \in Files /\ makesHome \in BOOLEAN
  BY <1>t, <1>3 DEF PlanKeeps, File, PasswdKinds
<1> HIDE DEF left, makesHome
<1>5. /\ j \in Job /\ j.at = "commit" /\ j.db = new /\ j.left = left
  BY <1>t, <1>4, <1>j DEF Job, Places
<1>6. TypeOK'
  <2>1. home' \in SUBSET Name
    <3>1. o.kind = "useradd" => o.name \in Name
      BY <1>t DEF Op, UserAdd, GroupAdd, AddUser, SetPassword, ModifyAccount
    <3> QED BY <1>t, <3>1 DEF Mutate, TypeOK
  <2> QED BY <1>t, <1>2, <1>5, <2>1 DEF Mutate, TypeOK
<1>7. /\ job'[p] = j /\ LockHeld'
      /\ \A q \in Proc \ {p} : job'[q].at \notin {"mutate", "commit", "sync"}
  BY <1>b, <1>2, OthersOutside DEF Mutate
<1>8. InOrder(j)'
  <2>1. Grows(etc, new) /\ Complete(new) /\ Unique(new)
    BY <1>3 DEF PlanKeeps
  <2>2. /\ "shadow" \notin left => etc.shadow = new.shadow
        /\ "group" \notin left => etc.group = new.group
    <3>1. CASE o.kind \in PasswdKinds
      BY <1>t, <1>3, <3>1 DEF left
    <3>2. CASE o.kind \notin PasswdKinds
      BY <3>2 DEF left, File
    <3> QED BY <3>1, <3>2
  <2>3. left = {"passwd"} => Supported(new.passwd, durable)
    <3>1. Supported(etc.passwd, durable)
      BY DEF Inductive, CrashSafe
    <3>2. CASE o.kind \in PasswdKinds
      BY <1>t, <1>3, <3>1, <3>2 DEF left
    <3>3. CASE o.kind \notin PasswdKinds
      <4> SUFFICES ASSUME left = {"passwd"} PROVE FALSE
        OBVIOUS
      <4>1. new.passwd # etc.passwd /\ new.shadow = etc.shadow
        BY <3>3 DEF left, File
      <4> QED BY <1>3, <3>3, <4>1
    <3> QED BY <3>2, <3>3
  <2>4. etc' = etc /\ durable' = durable
    BY DEF Mutate
  <2> QED BY <1>5, <2>1, <2>2, <2>3, <2>4 DEF InOrder
<1>9. CommitsInOrder'
  BY <1>7, <1>8 DEF CommitsInOrder, InOrder
<1>10. CrashSafe' /\ Unique(etc)' /\ Unique(durable)'
  BY DEF Mutate, Inductive, CrashSafe
<1> QED BY <1>6, <1>7, <1>9, <1>10 DEF Inductive

LEMMA SyncStep ==
  ASSUME Inductive, NEW p \in Proc, SyncDirectory(p)
  PROVE  Inductive'
<1>t. TypeOK /\ job[p] \in Job
  BY DEF Inductive, TypeOK
<1>j. PICK j : j = [job[p] EXCEPT !.at = "commit"]
  OBVIOUS
<1>1. job' = [job EXCEPT ![p] = j]
  BY <1>j DEF SyncDirectory, Goto
<1>2. j \in Job /\ j.at = "commit" /\ j.left = job[p].left /\ j.db = job[p].db
  BY <1>t, <1>j DEF Job, Places
<1>3. TypeOK'
  BY <1>t, <1>1, <1>2 DEF SyncDirectory, TypeOK
<1>4. /\ job'[p] = j /\ LockHeld'
      /\ \A q \in Proc \ {p} : job'[q].at \notin {"mutate", "commit", "sync"}
  <2>1. Busy(p)
    BY DEF SyncDirectory, Busy
  <2> QED BY <1>1, <2>1, OthersOutside DEF SyncDirectory
<1>5. InOrder(job[p])
  BY DEF Inductive, CommitsInOrder, SyncDirectory
<1>6. j.left = {"passwd"} => Supported(j.db.passwd, etc)
  <2> SUFFICES ASSUME j.left = {"passwd"} PROVE Supported(j.db.passwd, etc)
    OBVIOUS
  <2>1. etc.shadow = j.db.shadow /\ etc.group = j.db.group /\ Complete(j.db)
    BY <1>2, <1>5 DEF InOrder
  <2> QED BY <2>1 DEF Complete, Supported, Gids, Groups
<1>7. InOrder(j)'
  BY <1>2, <1>5, <1>6 DEF InOrder, SyncDirectory
<1>8. CommitsInOrder'
  BY <1>4, <1>7 DEF CommitsInOrder, InOrder
<1>9. Complete(etc) /\ UsersGid \in Gids(etc) /\ Unique(etc)
  BY Accounted DEF Inductive
<1>10. CrashSafe'
  BY <1>9 DEF SyncDirectory, CrashSafe, Complete, Grows
<1> QED BY <1>3, <1>4, <1>8, <1>9, <1>10 DEF Inductive, SyncDirectory

(* Files that differ from f in some files taken from g. *)
Mixed(f, g, h) ==
  /\ h \in Files
  /\ h.passwd = f.passwd \/ h.passwd = g.passwd
  /\ h.shadow = f.shadow \/ h.shadow = g.shadow
  /\ h.group = f.group \/ h.group = g.group

LEMMA MixedKeeps ==
  ASSUME NEW f, NEW g, NEW h, Grows(f, g), Mixed(f, g, h)
  PROVE  /\ Grows(f, h) /\ Grows(h, g)
         /\ Unique(f) /\ Unique(g) => Unique(h)
<1>1. /\ Gids(h) = Gids(f) \/ Gids(h) = Gids(g)
      /\ UniqueGids(f) /\ UniqueGids(g) => UniqueGids(h)
  BY DEF Mixed, Gids, Groups, UniqueGids
<1>2. UniqueUids(f) /\ UniqueUids(g) => UniqueUids(h)
  BY DEF Mixed, Users, UniqueUids
<1>3. Grows(f, h) /\ Grows(h, g)
  BY <1>1 DEF Grows, Mixed
<1> QED BY <1>1, <1>2, <1>3 DEF Unique

(* The step of commit replaces one file, passwd after the others. *)
LEMMA OneReplaced ==
  ASSUME TypeOK, NEW p \in Proc, Replace(p)
  PROVE  LET file == CommitNext(job[p].left)
             db == job[p].db
         IN /\ file \in File /\ (file = "passwd" => job[p].left = {"passwd"})
            /\ Mixed(etc, db, etc')
            /\ etc'.passwd = IF file = "passwd" THEN db.passwd ELSE etc.passwd
            /\ etc'.shadow = IF file = "shadow" THEN db.shadow ELSE etc.shadow
            /\ etc'.group = IF file = "group" THEN db.group ELSE etc.group
<1> DEFINE left == job[p].left
           db == job[p].db
<1>1. left \subseteq File /\ db \in Files /\ etc \in Files
  BY DEF TypeOK, Job
<1>2. PICK file : file = CommitNext(left)
  OBVIOUS
<1>3. etc' = [etc EXCEPT ![file] = db[file]]
  BY <1>2 DEF Replace
<1>4. file \in File /\ (file = "passwd" => left = {"passwd"})
  BY <1>1, <1>2 DEF CommitNext, Replace, File
<1>5. /\ Mixed(etc, db, etc')
      /\ etc'.passwd = IF file = "passwd" THEN db.passwd ELSE etc.passwd
      /\ etc'.shadow = IF file = "shadow" THEN db.shadow ELSE etc.shadow
      /\ etc'.group = IF file = "group" THEN db.group ELSE etc.group
  <2>1. CASE file = "passwd"
    BY <1>1, <1>3, <2>1 DEF Mixed, Files
  <2>2. CASE file = "shadow"
    BY <1>1, <1>3, <2>2 DEF Mixed, Files
  <2>3. CASE file = "group"
    BY <1>1, <1>3, <2>3 DEF Mixed, Files
  <2> QED BY <1>4, <2>1, <2>2, <2>3 DEF File
<1> QED BY <1>2, <1>4, <1>5

LEMMA ReplaceStep ==
  ASSUME Inductive, NEW p \in Proc, Replace(p)
  PROVE  Inductive'
<1> DEFINE left == job[p].left
           db == job[p].db
<1>t. TypeOK /\ job[p] \in Job /\ left \subseteq File /\ db \in Files /\ etc \in Files
  BY DEF Inductive, TypeOK, Job
<1>f. PICK file : file = CommitNext(left)
  OBVIOUS
<1>j. PICK j : j = [job[p] EXCEPT !.at = "sync", !.left = @ \ {file}, !.wrote = TRUE]
  OBVIOUS
<1>1. job' = [job EXCEPT ![p] = j] /\ etc' = [etc EXCEPT ![file] = db[file]]
  BY <1>f, <1>j DEF Replace
<1>2. file \in File /\ (file = "passwd" => left = {"passwd"})
  BY <1>t, <1>f DEF CommitNext, Replace, File
<1>3. /\ j \in Job /\ j.at = "sync" /\ j.left = left \ {file} /\ j.db = db
  BY <1>t, <1>j DEF Job, Places
<1>4. /\ Mixed(etc, db, etc')
      /\ etc'.passwd = IF file = "passwd" THEN db.passwd ELSE etc.passwd
      /\ etc'.shadow = IF file = "shadow" THEN db.shadow ELSE etc.shadow
      /\ etc'.group = IF file = "group" THEN db.group ELSE etc.group
  BY <1>t, <1>f, OneReplaced
<1>5. TypeOK'
  <2>1. job' \in [Proc -> Job]
    BY <1>t, <1>1, <1>3 DEF TypeOK
  <2>2. etc' \in Files
    BY <1>4 DEF Mixed
  <2> QED BY <1>t, <2>1, <2>2 DEF Replace, TypeOK
<1>6. /\ job'[p] = j /\ LockHeld'
      /\ \A q \in Proc \ {p} : job'[q].at \notin {"mutate", "commit", "sync"}
  <2>1. Busy(p)
    BY DEF Replace, Busy
  <2> QED BY <1>1, <2>1, OthersOutside DEF Replace
<1>7. InOrder(job[p])
  BY DEF Inductive, CommitsInOrder, Replace
<1>8. Grows(etc, etc') /\ Grows(etc', db) /\ Unique(etc')
  <2>1. Grows(etc, db) /\ Unique(db) /\ Unique(etc)
    BY <1>7 DEF InOrder, Inductive
  <2> QED BY <1>4, <2>1, MixedKeeps
<1>9. InOrder(j)'
  <2>1. Complete(j.db) /\ Unique(j.db) /\ Grows(etc', j.db)
    BY <1>3, <1>7, <1>8 DEF InOrder
  <2>2. "shadow" \notin j.left => etc'.shadow = j.db.shadow
    BY <1>3, <1>4, <1>7 DEF InOrder
  <2>3. "group" \notin j.left => etc'.group = j.db.group
    BY <1>3, <1>4, <1>7 DEF InOrder
  <2> QED BY <1>3, <2>1, <2>2, <2>3 DEF InOrder
<1>10. CommitsInOrder'
  BY <1>6, <1>9 DEF CommitsInOrder, InOrder
<1>11. CrashSafe'
  <2>1. durable' = durable
    BY DEF Replace
  <2>2. Supported(etc'.passwd, durable)
    <3>1. CASE file = "passwd"
      BY <1>2, <1>4, <1>7, <3>1 DEF InOrder, Replace
    <3>2. CASE file # "passwd"
      BY <1>4, <3>2 DEF Inductive, CrashSafe
    <3> QED BY <3>1, <3>2
  <2>3. Grows(durable, etc')
    BY <1>8, GrowsMore DEF Inductive, CrashSafe
  <2> QED BY <2>1, <2>2, <2>3 DEF Inductive, CrashSafe
<1> QED BY <1>5, <1>6, <1>8, <1>10, <1>11 DEF Inductive, Replace

(* After a power loss each file is the newest one or the durable one. *)
LEMMA LostMixed ==
  ASSUME etc \in Files, durable \in Files, PowerLoss
  PROVE  Mixed(durable, etc, etc')
<1>1. PICK lost \in SUBSET File :
        etc' = [f \in File |-> IF f \in lost THEN durable[f] ELSE etc[f]]
  BY DEF PowerLoss
<1>2. /\ etc' = [passwd |-> etc'.passwd, shadow |-> etc'.shadow, group |-> etc'.group]
      /\ etc'.passwd = IF "passwd" \in lost THEN durable.passwd ELSE etc.passwd
      /\ etc'.shadow = IF "shadow" \in lost THEN durable.shadow ELSE etc.shadow
      /\ etc'.group = IF "group" \in lost THEN durable.group ELSE etc.group
  BY <1>1 DEF File
<1>3. /\ etc'.passwd \in [Name -> User \cup {Absent}]
      /\ etc'.shadow \in [Name -> Password \cup {Absent}]
      /\ etc'.group \in [Name -> Group \cup {Absent}]
  BY <1>2 DEF Files
<1>4. etc' \in Files
  BY <1>2, <1>3 DEF Files
<1> QED BY <1>2, <1>4 DEF Mixed

LEMMA PowerLossStep ==
  ASSUME Inductive, PowerLoss
  PROVE  Inductive'
<1>2. Mixed(durable, etc, etc')
  BY Accounted, LostMixed
<1>3. Grows(durable, etc') /\ Unique(etc')
  BY <1>2, MixedKeeps DEF Inductive, CrashSafe
<1>4. durable' = etc' /\ holder' = Nobody /\ job' = [p \in Proc |-> Idle]
  BY DEF PowerLoss
<1>5. TypeOK'
  <2>1. etc' \in Files /\ job' \in [Proc -> Job] /\ losses' \in Nat
    BY <1>2, <1>4, IdleTyped DEF Mixed, PowerLoss, Inductive, TypeOK
  <2>2. abandoned' \in SUBSET Name
    <3>1. abandoned \subseteq Name /\ Interrupted(Proc) \subseteq Name
      BY OpTyped DEF Inductive, TypeOK, Interrupted
    <3> QED BY <3>1 DEF PowerLoss
  <2> QED BY <1>4, <2>1, <2>2 DEF PowerLoss, Inductive, TypeOK
<1>6. LockHeld' /\ CommitsInOrder'
  BY <1>4 DEF Idle, LockHeld, Busy, CommitsInOrder
<1>7. Supported(etc'.passwd, etc')
  <2>1. Supported(etc'.passwd, durable)
    BY <1>2 DEF Mixed, Inductive, CrashSafe
  <2> QED BY <1>3, <2>1, GrowsMore
<1>8. CrashSafe'
  BY <1>3, <1>4, <1>7 DEF CrashSafe, Grows, Inductive
<1> QED BY <1>3, <1>4, <1>5, <1>6, <1>8 DEF Inductive

(* The invariant is preserved by every step. *)
LEMMA StepInductive == Inductive /\ [Next]_vars => Inductive'
<1> SUFFICES ASSUME Inductive, [Next]_vars PROVE Inductive'
  OBVIOUS
<1>1. CASE PowerLoss
  BY <1>1, PowerLossStep
<1>2. ASSUME NEW p \in Proc, Work(p) \/ Kill(p) PROVE Inductive'
  BY <1>2, QuietSteps, LockStep, MutateStep, ReplaceStep, SyncStep DEF Work
<1>3. CASE UNCHANGED vars
  BY <1>3 DEF vars, Inductive, TypeOK, LockHeld, Busy, CrashSafe, CommitsInOrder, InOrder
<1> QED BY <1>1, <1>2, <1>3 DEF Next

-----------------------------------------------------------------------------
(* The account database keeps its shape: every line a command writes is a  *)
(* line of its file, and every identifier one that commands may choose.    *)
THEOREM AccountsTyped == Spec => []TypeOK
<1>1. Inductive => TypeOK
  BY DEF Inductive
<1> QED BY <1>1, InitInductive, StepInductive, PTL DEF Spec

(* Whoever reads the files, at any moment and after any kill or power      *)
(* loss, finds every user's password line and primary group.               *)
THEOREM AlwaysComplete == Spec => []AccountsComplete
<1>1. Inductive => AccountsComplete
  BY Accounted DEF AccountsComplete
<1> QED BY <1>1, InitInductive, StepInductive, PTL DEF Spec

(* No two users share a uid and no two groups a gid. *)
THEOREM AlwaysUnique == Spec => []IdsUnique
<1>1. Inductive => IdsUnique
  BY DEF Inductive, IdsUnique
<1> QED BY <1>1, InitInductive, StepInductive, PTL DEF Spec

-----------------------------------------------------------------------------
(* What commands promise: what one that succeeds promised is kept, a failed *)
(* useradd leaves no home directory, and every step but a power loss is a   *)
(* step of AccountStore.                                                   *)


(* g comes from f by the command o, or by what is left of it: only the     *)
(* lines of o.name change, and members are only added.                     *)
Touches(f, g, o) ==
  LET n == o.name IN
  /\ \A k \in Name \ {n} : g.passwd[k] = f.passwd[k] /\ g.shadow[k] = f.shadow[k]
  /\ f.passwd[n] # Absent => /\ g.passwd[n] # Absent
                             /\ g.passwd[n].uid = f.passwd[n].uid /\ g.passwd[n].gid = f.passwd[n].gid
                             /\ g.passwd[n].shadowed = f.passwd[n].shadowed
                             /\ o.kind \notin PasswdKinds => g.passwd[n] = f.passwd[n]
  /\ f.shadow[n] # Absent => /\ g.shadow[n] # Absent
                             /\ o.kind \notin PasswdKinds => g.shadow[n] = f.shadow[n]
  /\ \A h \in Groups(f) : /\ g.group[h] # Absent /\ g.group[h].gid = f.group[h].gid
                          /\ f.group[h].members \subseteq g.group[h].members
                          /\ g.group[h].members \subseteq f.group[h].members \cup {n}
  /\ \A h \in Groups(g) \ Groups(f) : h = n /\ g.group[h].members = {}
  /\ o.kind = "useradd" => f.passwd[n] = Absent \/ g.group = f.group
  /\ o.kind = "groupadd" => \A h \in Groups(f) : g.group[h] = f.group[h]
  /\ o.kind = "adduser" => /\ n \in Users(f) /\ o.group \in Groups(f)
                           /\ \A h \in Name \ {o.group} : g.group[h] = f.group[h]
  /\ o.kind \in PasswdKinds => g.group = f.group

(* What o promised holds, of users and groups that are there. *)
Promised(o, f) ==
  /\ Holds(o, f)
  /\ o.kind \in {"useradd"} \cup PasswdKinds => o.name \in Users(f)
  /\ o.kind = "useradd" => o.groups \subseteq Groups(f)
  /\ o.kind = "adduser" => o.group \in Groups(f)

(* The file that holds the password is the one passwd looked up. *)
Aimed(o, f, file) ==
  o.kind \in PasswdKinds => /\ f.passwd[o.name] # Absent
                            /\ file = "shadow" <=> f.passwd[o.name].shadowed

-----------------------------------------------------------------------------
(* The files a command may arrive at, line by line. *)

LEMMA MemberLines ==
  ASSUME NEW f \in Files, NEW n \in Name, NEW groups \in SUBSET Name,
         NEW new, new = WithMember(f, n, groups)
  PROVE  /\ new.passwd = f.passwd /\ new.shadow = f.shadow
         /\ \A g \in Name : new.group[g] = IF g \in groups THEN [f.group[g] EXCEPT !.members = @ \cup {n}]
                                           ELSE f.group[g]
BY DEF WithMember, Files

(* Members are added to groups that are there. *)
LEMMA MembersGrow ==
  ASSUME NEW f \in Files, NEW n \in Name, NEW groups \in SUBSET Name, groups \subseteq Groups(f),
         NEW new, new = WithMember(f, n, groups), NEW g \in Name
  PROVE  /\ new.group[g] # Absent <=> f.group[g] # Absent
         /\ g \notin groups => new.group[g] = f.group[g]
         /\ g \in Groups(f) => /\ new.group[g].gid = f.group[g].gid
                               /\ f.group[g].members \subseteq new.group[g].members
                               /\ new.group[g].members \subseteq f.group[g].members \cup {n}
         /\ g \in groups => n \in new.group[g].members
<1>1. new.group[g] = IF g \in groups THEN [f.group[g] EXCEPT !.members = @ \cup {n}] ELSE f.group[g]
  BY MemberLines
<1>2. CASE g \in groups
  <2>1. f.group[g] \in Group
    BY <1>2 DEF Groups, Files
  <2>2. new.group[g] \in Group /\ new.group[g].gid = f.group[g].gid /\ new.group[g].members = f.group[g].members \cup {n}
    BY <1>1, <1>2, <2>1 DEF Group
  <2> QED
    BY <1>2, <2>1, <2>2, NameAssumption
<1>3. CASE g \notin groups
  BY <1>1, <1>3
<1> QED
  BY <1>2, <1>3

LEMMA GroupTouches ==
  ASSUME NEW f \in Files, NEW o \in GroupAdd, NEW new \in PlanGroup(f, o)
  PROVE  Touches(f, new, o) /\ Promised(o, new)
<1>1. o.name \in Name /\ o.gid \in UserIds \cup {NoId} /\ f.group[o.name] = Absent /\ o.kind = "groupadd"
  BY DEF GroupAdd, PlanGroup
<1>2. PICK gid \in ChosenIds(o.gid, FALSE, Gids(f)) : new = WithGroup(f, o.name, gid)
  BY <1>1 DEF PlanGroup
<1>3. gid \in Ids /\ gid \notin Gids(f)
  BY <1>1, ChosenIdsFree DEF Ids
<1>4. GroupAdded(f, o.name, gid, new)
  BY <1>1, <1>2, <1>3, NewGroupKeeps
<1>5. Touches(f, new, o)
  BY <1>1, <1>4 DEF Touches, GroupAdded, Groups, PasswdKinds
<1> QED
  BY <1>1, <1>4, <1>5 DEF Promised, Holds, GroupAdded, PasswdKinds

LEMMA MemberTouches ==
  ASSUME NEW f \in Files, NEW o \in AddUser, NEW new \in PlanMember(f, o)
  PROVE  Touches(f, new, o) /\ Promised(o, new)
<1>1. /\ o.name \in Name /\ {o.group} \subseteq Groups(f) /\ {o.group} \in SUBSET Name
      /\ new = WithMember(f, o.name, {o.group}) /\ o.kind = "adduser" /\ o.name \in Users(f)
  BY DEF AddUser, PlanMember, Groups, Users
<1>2. new.passwd = f.passwd /\ new.shadow = f.shadow
  BY <1>1, MemberLines
<1>3. \A g \in Name :
         /\ new.group[g] # Absent <=> f.group[g] # Absent
         /\ g # o.group => new.group[g] = f.group[g]
         /\ g \in Groups(f) => /\ new.group[g].gid = f.group[g].gid
                               /\ f.group[g].members \subseteq new.group[g].members
                               /\ new.group[g].members \subseteq f.group[g].members \cup {o.name}
         /\ g = o.group => o.name \in new.group[g].members
  BY <1>1, MembersGrow
<1>4. Touches(f, new, o)
  BY <1>1, <1>2, <1>3 DEF Touches, Groups, PasswdKinds
<1> QED
  BY <1>1, <1>3, <1>4 DEF Promised, Holds, Groups, PasswdKinds

(* A password as the command promises it. *)
LEMMA PasswordMade ==
  ASSUME NEW o \in SetPassword \cup ModifyAccount, NEW pw \in Password,
         NEW f, Effective(f, o.name) = NewPassword(o, pw)
  PROVE  Holds(o, f)
<1>1. CASE o \in SetPassword
  BY <1>1 DEF SetPassword, NewPassword, Holds
<1>2. CASE o \in ModifyAccount /\ o.kind = "lock"
  BY <1>2 DEF NewPassword, Holds, Password
<1>3. CASE o \in ModifyAccount /\ o.kind = "unlock"
  BY <1>3 DEF NewPassword, Holds, Password
<1>4. CASE o \in ModifyAccount /\ o.kind = "delete"
  BY <1>4 DEF NewPassword, Holds
<1> QED
  BY <1>1, <1>2, <1>3, <1>4 DEF ModifyAccount

LEMMA PasswordTouches ==
  ASSUME NEW f \in Files, NEW o \in SetPassword \cup ModifyAccount, NEW file \in {"shadow", "passwd"},
         NEW new \in PlanPassword(f, o, file), Aimed(o, f, file)
  PROVE  Touches(f, new, o) /\ Promised(o, new)
<1>1. /\ o.name \in Name /\ o.kind \in PasswdKinds /\ f.passwd[o.name] \in User
      /\ file = "shadow" <=> f.passwd[o.name].shadowed
  BY DEF SetPassword, ModifyAccount, PasswdKinds, Aimed, Files
<1>2. CASE file = "shadow"
  <2> DEFINE pw == NewPassword(o, f.shadow[o.name])
  <2>1. new = [f EXCEPT !.shadow[o.name] = pw] /\ f.shadow[o.name] \in Password
    BY <1>1, <1>2 DEF PlanPassword, Files
  <2>2. pw \in Password /\ pw # Absent
    BY <2>1, NewPasswordTyped, NameAssumption
  <2> HIDE DEF pw
  <2>3. new.passwd = f.passwd /\ new.group = f.group /\ new.shadow = [f.shadow EXCEPT ![o.name] = pw]
    BY <2>1 DEF Files
  <2>4. new.shadow[o.name] = pw /\ \A k \in Name \ {o.name} : new.shadow[k] = f.shadow[k]
    BY <1>1, <2>3 DEF Files
  <2>5. Touches(f, new, o)
    BY <1>1, <2>2, <2>3, <2>4, NameAssumption DEF Touches, Groups, PasswdKinds, Group, Files
  <2>6. Effective(new, o.name) = pw
    BY <1>1, <1>2, <2>3, <2>4 DEF Effective
  <2>7. Holds(o, new)
    BY <2>1, <2>6, PasswordMade DEF pw
  <2> QED
    BY <1>1, <2>3, <2>5, <2>7, NameAssumption DEF Promised, Users, PasswdKinds
<1>3. CASE file = "passwd"
  <2> DEFINE pw == NewPassword(o, f.passwd[o.name].pw)
             line == [f.passwd[o.name] EXCEPT !.shadowed = FALSE, !.pw = pw]
  <2>1. new = [f EXCEPT !.passwd[o.name] = line] /\ f.passwd[o.name].pw \in Password /\ ~ f.passwd[o.name].shadowed
    BY <1>1, <1>3 DEF PlanPassword, NewUnshadowed, User
  <2>2. pw \in Password
    BY <2>1, NewPasswordTyped
  <2>3. /\ line \in User /\ line.uid = f.passwd[o.name].uid /\ line.gid = f.passwd[o.name].gid
        /\ line.shadowed = FALSE /\ line.pw = pw
    <3> HIDE DEF pw
    <3> QED
      BY <1>1, <2>2 DEF User
  <2>4. line # Absent
    BY <2>3, NameAssumption
  <2> HIDE DEF pw, line
  <2>5. new.shadow = f.shadow /\ new.group = f.group /\ new.passwd = [f.passwd EXCEPT ![o.name] = line]
    BY <2>1 DEF Files
  <2>6. new.passwd[o.name] = line /\ \A k \in Name \ {o.name} : new.passwd[k] = f.passwd[k]
    BY <1>1, <2>5 DEF Files
  <2>7. Touches(f, new, o)
    <3>1. \A h \in Groups(f) : f.group[h] \in Group
      BY DEF Groups, Files
    <3>2. Groups(new) = Groups(f)
      BY <2>5 DEF Groups
    <3>3. new.passwd[o.name].shadowed = f.passwd[o.name].shadowed
      <4>1. f.passwd[o.name].shadowed = FALSE
        BY <1>1, <2>1 DEF User
      <4> QED
        BY <2>3, <2>6, <4>1
    <3> QED
      BY <1>1, <2>3, <2>4, <2>5, <2>6, <3>1, <3>2, <3>3 DEF Touches, PasswdKinds, Groups
  <2>8. Effective(new, o.name) = pw
    BY <2>3, <2>6 DEF Effective
  <2>9. Holds(o, new)
    BY <2>1, <2>8, PasswordMade DEF pw
  <2> QED
    BY <1>1, <2>4, <2>6, <2>7, <2>9 DEF Promised, Users, PasswdKinds
<1> QED
  BY <1>2, <1>3

LEMMA UserTouches ==
  ASSUME NEW f \in Files, NEW o \in UserAdd, NEW new \in PlanUser(f, o)
  PROVE  Touches(f, new, o) /\ Promised(o, new)
<1> DEFINE n == o.name
           Start(uid) == IF PrivateGroup(o) THEN WithGroup(f, n, uid) ELSE f
           Gid(uid) == PrimaryGid(f, o, uid)
           Joined(uid) == {h \in o.groups : Start(uid).group[h].gid # Gid(uid)}
           Member(uid) == WithMember(Start(uid), n, Joined(uid))
           pass == [locked |-> TRUE, hash |-> NoHash]
<1>o. n \in Name /\ o.uid \in UserIds \cup {NoId} /\ o.system \in BOOLEAN
      /\ o.groups \subseteq Name /\ o.primary \in Name \cup {NoName} /\ o.kind = "useradd"
  BY DEF UserAdd
<1>g. /\ f.passwd[n] = Absent /\ f.shadow[n] = Absent
      /\ PrivateGroup(o) => f.group[n] = Absent
      /\ o.primary # NoName => f.group[o.primary] # Absent
      /\ \A h \in o.groups : \/ f.group[h] # Absent
                             \/ PrivateGroup(o) /\ h = n
  BY DEF PlanUser
<1>1. PICK uid \in ChosenIds(o.uid, o.system,
                 Uids(f) \cup IF PrivateGroup(o) THEN Gids(f) ELSE {}) :
        new = [Member(uid) EXCEPT !.passwd[n] = NewUser(uid, Gid(uid)),
                                  !.shadow[n] = pass]
  BY <1>g DEF PlanUser
<1> DEFINE s == Start(uid)
           gid == Gid(uid)
           joined == Joined(uid)
           m == Member(uid)
           user == NewUser(uid, gid)
<1>2. uid \in Ids
  <2> DEFINE used == Uids(f) \cup IF PrivateGroup(o) THEN Gids(f) ELSE {}
  <2>1. uid \in ChosenIds(o.uid, o.system, used)
    OBVIOUS
  <2> HIDE DEF used
  <2> QED
    BY ChosenIdsFree, <1>o, <2>1 DEF Ids
<1>3. /\ s \in Files /\ s.passwd = f.passwd /\ s.shadow = f.shadow
      /\ Groups(f) \subseteq Groups(s) /\ \A h \in Groups(f) : s.group[h] = f.group[h]
      /\ \A h \in Groups(s) \ Groups(f) : h = n /\ s.group[h] = [gid |-> uid, members |-> {}] /\ gid = uid
      /\ o.groups \subseteq Groups(s)
  <2>1. CASE PrivateGroup(o)
    <3>1. s = WithGroup(f, n, uid) /\ gid = uid
      BY <2>1 DEF PrivateGroup, PrimaryGid
    <3>2. GroupAdded(f, n, uid, s)
      BY <1>o, <1>g, <1>2, <2>1, <3>1, NewGroupKeeps
    <3> HIDE DEF s, gid
    <3> QED
      BY <1>o, <1>g, <2>1, <3>1, <3>2 DEF GroupAdded, Groups
  <2>2. CASE ~PrivateGroup(o)
    BY <1>o, <1>g, <2>2 DEF Groups
  <2> QED
    BY <2>1, <2>2
<1>4. joined \in SUBSET Name /\ joined = {h \in o.groups : s.group[h].gid # gid} /\ joined \subseteq Groups(s)
      /\ m = WithMember(s, n, joined)
  BY <1>o, <1>3
<1>5. user.uid = uid /\ user.gid = gid /\ user # Absent /\ pass # Absent
  <2>1. user # Absent
    <3>1. gid \in Ids
      BY <1>o, <1>g, <1>2, InputAssumption DEF PrimaryGid, Files, Group, Ids
    <3> HIDE DEF gid
    <3>2. user \in User
      BY <1>2, <3>1 DEF NewUser, User, Password
    <3> QED
      BY <3>2, NameAssumption
  <2>2. pass # Absent
    <3>1. pass \in Password
      BY DEF Password
    <3> QED
      BY <3>1, NameAssumption
  <2> HIDE DEF gid, pass
  <2> QED
    BY <2>1, <2>2 DEF NewUser
<1> HIDE DEF gid, s, m, user, pass, joined
<1>6. \A g \in Name :
         /\ m.group[g] # Absent <=> s.group[g] # Absent
         /\ g \notin joined => m.group[g] = s.group[g]
         /\ g \in Groups(s) => /\ m.group[g].gid = s.group[g].gid
                               /\ s.group[g].members \subseteq m.group[g].members
                               /\ m.group[g].members \subseteq s.group[g].members \cup {n}
         /\ g \in joined => n \in m.group[g].members
  BY <1>o, <1>3, <1>4, MembersGrow
<1>7. new = [m EXCEPT !.passwd = [m.passwd EXCEPT ![n] = user],
                      !.shadow = [m.shadow EXCEPT ![n] = pass]]
  BY <1>1 DEF m, gid, user, pass
<1>8. /\ new.passwd = [f.passwd EXCEPT ![n] = user]
      /\ new.shadow = [f.shadow EXCEPT ![n] = pass]
      /\ new.group = m.group
  <2>1. m \in Files /\ m.passwd = f.passwd /\ m.shadow = f.shadow
    BY <1>o, <1>3, <1>4, NewMemberKeeps DEF MembersAdded
  <2> QED
    BY <1>7, <2>1 DEF Files
<1>9. \A k \in Name : /\ new.passwd[k] = IF k = n THEN user ELSE f.passwd[k]
                      /\ new.shadow[k] = IF k = n THEN pass ELSE f.shadow[k]
  BY <1>8 DEF Files
<1>10. \A h \in Groups(f) : /\ new.group[h] # Absent /\ new.group[h].gid = f.group[h].gid
                            /\ f.group[h].members \subseteq new.group[h].members
                            /\ new.group[h].members \subseteq f.group[h].members \cup {n}
  BY <1>3, <1>6, <1>8 DEF Groups
<1>11. \A h \in Groups(new) \ Groups(f) : h = n /\ new.group[h].members = {}
  <2> SUFFICES ASSUME NEW h \in Groups(new) \ Groups(f)
               PROVE  h = n /\ new.group[h].members = {}
    OBVIOUS
  <2>1. h \in Groups(s) \ Groups(f) /\ h \in Name
    BY <1>6, <1>8 DEF Groups
  <2>2. h = n /\ s.group[h] = [gid |-> uid, members |-> {}] /\ gid = uid
    BY <1>3, <2>1
  <2>3. h \notin joined
    BY <1>4, <2>2
  <2> QED
    BY <1>6, <1>8, <2>1, <2>2, <2>3
<1>12. Touches(f, new, o)
  BY <1>o, <1>g, <1>9, <1>10, <1>11 DEF Touches, PasswdKinds
<1>13. \A h \in o.groups : n \in new.group[h].members \/ new.group[h].gid = new.passwd[n].gid
  BY <1>o, <1>3, <1>4, <1>5, <1>6, <1>8, <1>9
<1>14. n \in Users(new) /\ o.groups \subseteq Groups(new)
  BY <1>o, <1>3, <1>5, <1>6, <1>8, <1>9 DEF Users, Groups
<1> QED
  BY <1>o, <1>12, <1>13, <1>14 DEF Promised, Holds, PasswdKinds

LEMMA PlansTouch ==
  ASSUME NEW f \in Files, NEW o \in Op, NEW file \in {"shadow", "passwd"}, NEW new \in Plans(f, o, file),
         Aimed(o, f, file)
  PROVE  Touches(f, new, o) /\ Promised(o, new)
<1>1. CASE o \in UserAdd
  <2>1. new \in PlanUser(f, o)
    BY <1>1 DEF UserAdd, Plans
  <2> QED
    BY <1>1, <2>1, UserTouches
<1>2. CASE o \in GroupAdd
  <2>1. new \in PlanGroup(f, o)
    BY <1>2 DEF GroupAdd, Plans
  <2> QED
    BY <1>2, <2>1, GroupTouches
<1>3. CASE o \in AddUser
  <2>1. new \in PlanMember(f, o)
    BY <1>3 DEF AddUser, Plans
  <2> QED
    BY <1>3, <2>1, MemberTouches
<1>4. CASE o \in SetPassword \cup ModifyAccount
  <2>1. new \in PlanPassword(f, o, file)
    BY <1>4 DEF SetPassword, ModifyAccount, Plans
  <2> QED
    BY <1>4, <2>1, PasswordTouches
<1> QED
  BY <1>1, <1>2, <1>3, <1>4 DEF Op

-----------------------------------------------------------------------------
(* What holds of files holds of those that come after them.                *)

(* g comes from f by steps of several commands; the passwords of open are  *)
(* not promised to anyone.                                                 *)
Extends(f, g, open) ==
  /\ \A n \in Users(f) : /\ g.passwd[n] # Absent
                         /\ g.passwd[n].uid = f.passwd[n].uid /\ g.passwd[n].gid = f.passwd[n].gid
                         /\ g.passwd[n].shadowed = f.passwd[n].shadowed
                         /\ n \notin open => g.passwd[n].pw = f.passwd[n].pw
  /\ \A n \in Name : f.shadow[n] # Absent => /\ g.shadow[n] # Absent
                                             /\ n \notin open => g.shadow[n] = f.shadow[n]
  /\ \A h \in Groups(f) : /\ g.group[h] # Absent /\ g.group[h].gid = f.group[h].gid
                          /\ f.group[h].members \subseteq g.group[h].members

LEMMA ExtendsSelf == \A f, open : Extends(f, f, open)
BY DEF Extends, Users, Groups

LEMMA ExtendsFurther ==
  ASSUME NEW f, NEW g, NEW h, NEW open, Extends(f, g, open), Extends(g, h, open)
  PROVE  Extends(f, h, open)
<1>1. \A n \in Users(f) : n \in Users(g)
  BY DEF Extends, Users
<1>2. \A n \in Groups(f) : n \in Groups(g)
  BY DEF Extends, Groups
<1>3. \A n \in Users(f) : /\ h.passwd[n] # Absent
                          /\ h.passwd[n].uid = f.passwd[n].uid /\ h.passwd[n].gid = f.passwd[n].gid
                          /\ h.passwd[n].shadowed = f.passwd[n].shadowed
                          /\ n \notin open => h.passwd[n].pw = f.passwd[n].pw
  BY <1>1 DEF Extends
<1>4. \A n \in Name : f.shadow[n] # Absent => /\ h.shadow[n] # Absent
                                              /\ n \notin open => h.shadow[n] = f.shadow[n]
  BY DEF Extends
<1>5. \A k \in Groups(f) : /\ h.group[k] # Absent /\ h.group[k].gid = f.group[k].gid
                           /\ f.group[k].members \subseteq h.group[k].members
  <2> SUFFICES ASSUME NEW k \in Groups(f)
               PROVE  /\ h.group[k] # Absent /\ h.group[k].gid = f.group[k].gid
                      /\ f.group[k].members \subseteq h.group[k].members
    OBVIOUS
  <2>1. /\ h.group[k] # Absent /\ h.group[k].gid = g.group[k].gid
        /\ g.group[k].members \subseteq h.group[k].members
    BY <1>2 DEF Extends
  <2>2. g.group[k].gid = f.group[k].gid /\ f.group[k].members \subseteq g.group[k].members
    BY DEF Extends
  <2> QED
    BY <2>1, <2>2
<1> QED
  BY <1>3, <1>4, <1>5 DEF Extends

LEMMA ExtendsOpen ==
  ASSUME NEW f, NEW g, NEW open, Extends(f, g, open), NEW wider, open \subseteq wider
  PROVE  Extends(f, g, wider)
BY DEF Extends

LEMMA ExtendsMixed ==
  ASSUME NEW f, NEW g, NEW h, NEW open, Extends(f, g, open), Mixed(f, g, h)
  PROVE  Extends(f, h, open) /\ Extends(h, g, open)
BY DEF Extends, Mixed, Users, Groups

Changes(o) == IF o.kind \in PasswdKinds THEN {o.name} ELSE {}

LEMMA TouchesExtends ==
  ASSUME NEW f, NEW g, NEW o, Touches(f, g, o)
  PROVE  Extends(f, g, Changes(o))
BY DEF Extends, Touches, Changes, Users, Groups

LEMMA PromiseKept ==
  ASSUME NEW f \in Files, NEW g \in Files, NEW open, Extends(f, g, open), Complete(f),
         NEW o \in Op, Promised(o, f), o.kind \in PasswdKinds => o.name \notin open
  PROVE  Promised(o, g)
<1>1. CASE o \in UserAdd
  <2>1. /\ o.kind = "useradd" /\ o.name \in Users(f) /\ o.groups \subseteq Groups(f)
        /\ \A h \in o.groups : \/ o.name \in f.group[h].members
                               \/ f.group[h].gid = f.passwd[o.name].gid
    BY <1>1 DEF UserAdd, Promised, Holds
  <2>2. g.passwd[o.name].gid = f.passwd[o.name].gid /\ o.name \in Users(g)
    BY <2>1 DEF Extends, Users
  <2>3. \A h \in o.groups : /\ g.group[h].gid = f.group[h].gid /\ h \in Groups(g)
                            /\ o.name \in f.group[h].members => o.name \in g.group[h].members
    BY <2>1 DEF Extends, Groups
  <2>4. \A h \in o.groups : \/ o.name \in g.group[h].members
                            \/ g.group[h].gid = g.passwd[o.name].gid
    BY <2>1, <2>2, <2>3
  <2> QED
    BY <2>1, <2>2, <2>3, <2>4 DEF Promised, Holds, PasswdKinds
<1>2. CASE o \in GroupAdd
  BY <1>2 DEF GroupAdd, Promised, Holds, Extends, Groups, PasswdKinds
<1>3. CASE o \in AddUser
  BY <1>3 DEF AddUser, Promised, Holds, Extends, Groups, PasswdKinds
<1>4. CASE o \in SetPassword \cup ModifyAccount
  <2>1. o.kind \in PasswdKinds /\ o.name \in Users(f)
    BY <1>4 DEF SetPassword, ModifyAccount, PasswdKinds, Promised
  <2>2. o.name \in Users(g) /\ Effective(g, o.name) = Effective(f, o.name)
    <3>1. o.name \in Name /\ f.passwd[o.name] # Absent /\ o.name \notin open
      BY <2>1 DEF Users
    <3>2. f.passwd[o.name].shadowed => f.shadow[o.name] # Absent
      BY <3>1 DEF Complete, Supported
    <3>3. /\ g.passwd[o.name] # Absent /\ g.passwd[o.name].shadowed = f.passwd[o.name].shadowed
          /\ g.passwd[o.name].pw = f.passwd[o.name].pw
      BY <2>1, <3>1 DEF Extends
    <3>4. f.passwd[o.name].shadowed => g.shadow[o.name] = f.shadow[o.name]
      BY <3>1, <3>2 DEF Extends
    <3> QED
      BY <3>1, <3>3, <3>4 DEF Effective, Users
  <2>3. Holds(o, g)
    BY <1>4, <2>2 DEF Holds, Promised, SetPassword, ModifyAccount
  <2> QED
    BY <2>1, <2>2, <2>3 DEF Promised, PasswdKinds
<1> QED
  BY <1>1, <1>2, <1>3, <1>4 DEF Op

-----------------------------------------------------------------------------
(* What makes SuccessKept inductive.                                        *)

(* Users whose password no command that succeeded has promised.            *)
Untold == {n \in Name : \A a \in acked : a.kind \in PasswdKinds => a.name # n}

Writing(j) ==
  /\ Touches(etc, j.db, j.op) /\ Promised(j.op, j.db)
  /\ "passwd" \notin j.left => etc.passwd = j.db.passwd
  /\ j.at = "commit" /\ j.wrote => durable = etc

(* A power loss can take back nothing that was promised: it holds of the   *)
(* durable files already, and of all that came after them.                 *)
Promises ==
  /\ Extends(durable, etc, Untold) /\ \A o \in acked : Promised(o, durable)
  /\ \A p \in Proc : job[p].at \in {"lock", "mutate"} => Aimed(job[p].op, etc, job[p].target)
  /\ \A p \in Proc : job[p].at \in {"commit", "sync"} => Writing(job[p])
  /\ \A p \in Proc : job[p].wrote => job[p].at \in {"commit", "sync", "fail"}

(* Only the command that created a home directory is there to answer for   *)
(* it until its user is in passwd, where a power loss leaves it.           *)
MakesHome(j) == /\ j.at \in {"commit", "sync", "fail"} /\ j.op.kind = "useradd"
                /\ j.wrote \/ "passwd" \in j.left
HomesKnown ==
  /\ \A n \in home : \/ n \in Users(durable) \/ n \in abandoned
                    \/ \E p \in Proc : job[p].madeHome /\ job[p].op.name = n
  /\ \A p \in Proc : job[p].madeHome => MakesHome(job[p])

Told == Inductive /\ Promises /\ HomesKnown

LEMMA InitTold == Init => Told
<1> SUFFICES ASSUME Init PROVE Told
  OBVIOUS
<1>1. \A p \in Proc : job[p].at = "idle" /\ ~ job[p].wrote /\ ~ job[p].madeHome
  BY DEF Init, Idle
<1>2. Promises
  BY <1>1, ExtendsSelf DEF Init, Promises
<1>3. HomesKnown
  BY <1>1 DEF Init, HomesKnown
<1> QED
  BY <1>2, <1>3, InitInductive DEF Told

(* A step that leaves the files and the promises alone.                     *)
LEMMA PromisesUnmoved ==
  ASSUME Told, NEW p \in Proc, NEW j, job' = [job EXCEPT ![p] = j], UNCHANGED <<etc, durable, acked>>,
         j.at \notin {"commit", "sync"}, j.wrote => j.at = "fail",
         j.at \in {"lock", "mutate"} => Aimed(j.op, etc, j.target)
  PROVE  Promises'
<1>1. \A q \in Proc : job'[q] = IF q = p THEN j ELSE job[q]
  BY DEF Told, Inductive, TypeOK
<1> QED
  BY <1>1 DEF Told, Promises, Writing, Untold

LEMMA QuietPromises ==
  ASSUME Told, NEW p \in Proc,
         \/ \E o \in Ops : Begin(p, o)
         \/ Look(p) \/ Lock(p) \/ MutateFails(p) \/ ReplaceFails(p) \/ SyncDirectoryFails(p)
         \/ RemoveHome(p) \/ Kill(p)
  PROVE  Promises'
<1>0. job[p] \in Job /\ Idle.at = "idle" /\ Idle.wrote = FALSE /\ (job[p].wrote => job[p].at \in {"commit", "sync", "fail"})
  BY OpTyped DEF Idle, Told, Promises
<1>1. ASSUME NEW o \in Ops, Begin(p, o) PROVE Promises'
  <2> DEFINE j == [job[p] EXCEPT !.op = o, !.at = IF o.kind \in PasswdKinds THEN "look" ELSE "lock"]
  <2>1. job' = [job EXCEPT ![p] = j] /\ UNCHANGED <<etc, durable, acked>> /\ job[p].at = "idle"
    BY <1>1 DEF Begin
  <2>2. j.op = o /\ j.at = (IF o.kind \in PasswdKinds THEN "look" ELSE "lock") /\ j.wrote = job[p].wrote
    BY <1>0 DEF Job
  <2> HIDE DEF j
  <2> QED
    BY <1>0, <2>1, <2>2, PromisesUnmoved DEF Aimed
<1>2. ASSUME Return(p), UNCHANGED <<etc, durable, acked>> PROVE Promises'
  BY <1>0, <1>2, PromisesUnmoved DEF Return
<1>3. CASE Look(p) /\ ~ Return(p)
  <2> DEFINE target == IF etc.passwd[job[p].op.name].shadowed THEN "shadow" ELSE "passwd"
             j == [job[p] EXCEPT !.at = "lock", !.target = target]
  <2>1. /\ job' = [job EXCEPT ![p] = j] /\ UNCHANGED <<etc, durable, acked>> /\ job[p].at = "look"
        /\ etc.passwd[job[p].op.name] # Absent
    BY <1>3 DEF Look
  <2>2. j.op = job[p].op /\ j.at = "lock" /\ j.wrote = job[p].wrote /\ j.target = target
    BY <1>0 DEF Job
  <2>3. Aimed(j.op, etc, j.target)
    BY <2>1, <2>2 DEF Aimed
  <2> HIDE DEF j
  <2> QED
    BY <1>0, <2>1, <2>2, <2>3, PromisesUnmoved
<1>4. ASSUME NEW place \in {"mutate", "fail"}, Goto(p, place), UNCHANGED <<etc, durable, acked>>,
             place = "mutate" => job[p].at = "lock"
      PROVE  Promises'
  <2> DEFINE j == [job[p] EXCEPT !.at = place]
  <2>1. job' = [job EXCEPT ![p] = j]
    BY <1>4 DEF Goto
  <2>2. j.op = job[p].op /\ j.at = place /\ j.wrote = job[p].wrote /\ j.target = job[p].target
    BY <1>0 DEF Job
  <2> HIDE DEF j
  <2> QED
    BY <1>0, <1>4, <2>1, <2>2, PromisesUnmoved DEF Told, Promises
<1>5. CASE Lock(p)
  BY <1>2, <1>4, <1>5 DEF Lock
<1>6. CASE ReplaceFails(p) \/ SyncDirectoryFails(p)
  BY <1>4, <1>6 DEF ReplaceFails, SyncDirectoryFails
<1>7. CASE MutateFails(p) \/ RemoveHome(p) \/ Kill(p) \/ (Look(p) /\ Return(p))
  BY <1>2, <1>7 DEF MutateFails, RemoveHome, Kill, Look
<1> QED
  BY <1>1, <1>3, <1>5, <1>6, <1>7

(* What is left of a command still leads to the files it arrives at, when  *)
(* passwd is installed last.                                               *)
LEMMA TouchesRest ==
  ASSUME NEW f, NEW g, NEW o, Touches(f, g, o), NEW h, Mixed(f, g, h),
         h.passwd = f.passwd \/ h.group = g.group
  PROVE  Touches(h, g, o)
<1> DEFINE n == o.name
<1>1. \A k \in Name \ {n} : g.passwd[k] = h.passwd[k] /\ g.shadow[k] = h.shadow[k]
  BY DEF Touches, Mixed
<1>2. h.passwd[n] # Absent => /\ g.passwd[n] # Absent
                              /\ g.passwd[n].uid = h.passwd[n].uid /\ g.passwd[n].gid = h.passwd[n].gid
                              /\ g.passwd[n].shadowed = h.passwd[n].shadowed
                              /\ o.kind \notin PasswdKinds => g.passwd[n] = h.passwd[n]
  BY DEF Touches, Mixed
<1>3. h.shadow[n] # Absent => /\ g.shadow[n] # Absent
                              /\ o.kind \notin PasswdKinds => g.shadow[n] = h.shadow[n]
  BY DEF Touches, Mixed
<1>4. CASE h.group = f.group
  <2>1. Groups(h) = Groups(f)
    BY <1>4 DEF Groups
  <2>2. o.kind = "useradd" => h.passwd[n] = Absent \/ g.group = h.group
    BY <1>4 DEF Touches, Mixed
  <2>3. o.kind = "adduser" => n \in Users(h)
    BY <1>2 DEF Touches, Mixed, Users
  <2> QED
    BY <1>1, <1>2, <1>3, <1>4, <2>1, <2>2, <2>3 DEF Touches
<1>5. CASE h.group = g.group
  <2>1. Groups(h) = Groups(g) /\ Groups(f) \subseteq Groups(g)
    BY <1>5 DEF Groups, Touches
  <2>2. o.kind = "adduser" => n \in Users(h) /\ o.group \in Groups(h)
    BY <2>1 DEF Touches, Mixed, Users
  <2>3. \A x \in Groups(h) : /\ g.group[x] # Absent /\ g.group[x].gid = h.group[x].gid
                             /\ h.group[x].members \subseteq g.group[x].members
                             /\ g.group[x].members \subseteq h.group[x].members \cup {n}
    BY <1>5 DEF Groups
  <2> QED
    BY <1>1, <1>2, <1>3, <1>5, <2>1, <2>2, <2>3 DEF Touches
<1> QED
  BY <1>4, <1>5 DEF Mixed

LEMMA AimedKept ==
  ASSUME NEW f, NEW g, NEW open, Extends(f, g, open), NEW o, NEW file, o.name \in Name, Aimed(o, f, file)
  PROVE  Aimed(o, g, file)
BY DEF Extends, Aimed, Users

LEMMA MutatePromises ==
  ASSUME Told, NEW p \in Proc, Mutate(p)
  PROVE  Promises'
<1> DEFINE o == job[p].op
           target == job[p].target
           made == o.kind = "useradd" /\ o.home
<1>1. /\ Inductive /\ job[p] \in Job /\ o \in Op /\ target \in {"shadow", "passwd"}
      /\ etc \in Files /\ ~ job[p].wrote
  BY OpTyped DEF Told, Promises, Mutate
<1>2. PICK new \in Plans(etc, o, target) :
        job' = [job EXCEPT ![p] =
                 [@ EXCEPT !.at = "commit", !.db = new, !.madeHome = made,
                           !.left = IF o.kind \in PasswdKinds THEN {target}
                                    ELSE {f \in File : new[f] # etc[f]}]]
  BY DEF Mutate
<1> DEFINE left == IF o.kind \in PasswdKinds THEN {target} ELSE {f \in File : new[f] # etc[f]}
<1>3. PICK j : j = [job[p] EXCEPT !.at = "commit", !.db = new, !.madeHome = made, !.left = left]
  OBVIOUS
<1>4. job' = [job EXCEPT ![p] = j]
  BY <1>1, <1>2, <1>3 DEF Inductive, TypeOK
<1>5. Aimed(o, etc, target)
  BY DEF Told, Promises, Mutate
<1>6. Touches(etc, new, o) /\ Promised(o, new)
  <2> HIDE DEF o, target
  <2> QED
    BY <1>1, <1>5, PlansTouch
<1>7. "passwd" \notin left => etc.passwd = new.passwd
  <2>1. CASE o.kind \in PasswdKinds
    <3>1. o \in SetPassword \cup ModifyAccount /\ new \in PlanPassword(etc, o, target)
      BY <1>1, <1>2, <2>1 DEF Op, UserAdd, GroupAdd, AddUser, PasswdKinds, Plans
    <3>2. target = "shadow" => new.passwd = etc.passwd
      BY <1>1, <3>1, PlanPasswordKeeps, Accounted DEF Inductive
    <3> QED
      BY <1>1, <2>1, <3>2
  <2>2. CASE o.kind \notin PasswdKinds
    BY <2>2 DEF File
  <2> QED
    BY <2>1, <2>2
<1> HIDE DEF left, made
<1>8. j.at = "commit" /\ j.op = o /\ j.db = new /\ j.left = left /\ j.wrote = FALSE
  BY <1>1, <1>3 DEF Job
<1>9. Writing(j)'
  BY <1>6, <1>7, <1>8 DEF Writing, Mutate
<1>10. /\ job'[p] = j
       /\ \A q \in Proc \ {p} : job'[q] = job[q] /\ job'[q].at \notin {"mutate", "commit", "sync"}
  <2>1. Busy(p) /\ holder' = holder
    BY DEF Mutate, Busy
  <2>2. \A q \in Proc \ {p} : job'[q] = job[q]
    BY <1>4
  <2> QED
    BY <1>1, <1>4, <2>1, <2>2, OthersOutside
<1>11. UNCHANGED <<etc, durable, acked>>
  BY DEF Mutate
<1> QED
  BY <1>8, <1>9, <1>10, <1>11 DEF Told, Promises, Untold, Writing

LEMMA ReplacePromises ==
  ASSUME Told, NEW p \in Proc, Replace(p)
  PROVE  Promises'
<1> DEFINE o == job[p].op
           db == job[p].db
           left == job[p].left
<1>1. /\ Inductive /\ job[p] \in Job /\ o \in Op /\ o.name \in Name /\ left \subseteq File
      /\ acked \subseteq Op /\ Writing(job[p]) /\ InOrder(job[p])
  BY OpTyped DEF Told, Promises, Replace, Inductive, CommitsInOrder
<1>2. PICK file : file = CommitNext(left)
  OBVIOUS
<1>3. /\ file \in File /\ (file = "passwd" => left = {"passwd"}) /\ Mixed(etc, db, etc')
      /\ etc'.passwd = IF file = "passwd" THEN db.passwd ELSE etc.passwd
      /\ etc'.group = IF file = "group" THEN db.group ELSE etc.group
  BY <1>1, <1>2, OneReplaced DEF Inductive
<1>4. PICK j : j = [job[p] EXCEPT !.at = "sync", !.left = @ \ {file}, !.wrote = TRUE]
  OBVIOUS
<1>5. job' = [job EXCEPT ![p] = j] /\ holder' = holder /\ durable' = durable
      /\ acked' = acked \ Overridden(o)
  BY <1>2, <1>4 DEF Replace
<1>6. j.at = "sync" /\ j.op = o /\ j.db = db /\ j.left = left \ {file}
  BY <1>1, <1>4 DEF Job
<1>7. Touches(etc, db, o) /\ Promised(o, db)
  BY <1>1 DEF Writing
<1>8. Extends(etc, etc', Changes(o))
  BY <1>3, <1>7, TouchesExtends, ExtendsMixed
<1>9. Untold \cup Changes(o) \subseteq Untold'
  BY <1>1, <1>5 DEF Untold, Changes, Overridden
<1>10. Extends(durable, etc', Untold')
  <2>1. Extends(durable, etc, Untold) /\ Untold \subseteq Untold' /\ Changes(o) \subseteq Untold'
    BY <1>9 DEF Told, Promises
  <2>2. Extends(durable, etc, Untold') /\ Extends(etc, etc', Untold')
    BY <1>8, <2>1, ExtendsOpen
  <2> QED
    BY <2>2, ExtendsFurther
<1>11. Touches(etc', db, o)
  <2>1. etc'.passwd = etc.passwd \/ etc'.group = db.group
    BY <1>1, <1>3 DEF InOrder
  <2> QED
    BY <1>3, <1>7, <2>1, TouchesRest
<1>12. "passwd" \notin j.left => etc'.passwd = db.passwd
  BY <1>1, <1>3, <1>6 DEF Writing
<1>13. Writing(j)'
  BY <1>6, <1>7, <1>11, <1>12 DEF Writing
<1>14. /\ job'[p] = j
       /\ \A q \in Proc \ {p} : job'[q] = job[q] /\ job'[q].at \notin {"mutate", "commit", "sync"}
  <2>1. Busy(p)
    BY DEF Replace, Busy
  <2>2. \A q \in Proc \ {p} : job'[q] = job[q]
    BY <1>5
  <2> QED
    BY <1>1, <1>5, <2>1, <2>2, OthersOutside
<1>15. \A q \in Proc : job'[q].at \in {"lock", "mutate"} => Aimed(job'[q].op, etc', job'[q].target)
  <2> SUFFICES ASSUME NEW q \in Proc, job'[q].at \in {"lock", "mutate"}
               PROVE  Aimed(job'[q].op, etc', job'[q].target)
    OBVIOUS
  <2>1. q # p
    BY <1>6, <1>14
  <2>2. job'[q] = job[q] /\ job[q].op.name \in Name /\ Aimed(job[q].op, etc, job[q].target)
    BY <1>1, <1>14, <2>1, OpTyped DEF Told, Promises
  <2> QED
    BY <1>8, <2>2, AimedKept
<1> QED
  BY <1>5, <1>6, <1>10, <1>13, <1>14, <1>15 DEF Told, Promises, Writing

(* A promise of the durable files is one of all that came after them.      *)
LEMMA PromisesReach ==
  ASSUME Told, NEW f \in Files, Extends(durable, f, Untold), NEW o \in acked
  PROVE  Promised(o, f)
<1>1. o \in Op /\ durable \in Files /\ Complete(durable) /\ Promised(o, durable)
  BY Accounted DEF Told, Promises, Inductive, TypeOK
<1>2. o.kind \in PasswdKinds => o.name \notin Untold
  BY DEF Untold
<1> QED
  BY <1>1, <1>2, PromiseKept

LEMMA SyncPromises ==
  ASSUME Told, NEW p \in Proc, SyncDirectory(p)
  PROVE  Promises'
<1>1. Inductive /\ job[p] \in Job /\ etc \in Files /\ Writing(job[p])
  BY OpTyped DEF Told, Promises, SyncDirectory
<1>2. PICK j : j = [job[p] EXCEPT !.at = "commit"]
  OBVIOUS
<1>3. job' = [job EXCEPT ![p] = j] /\ UNCHANGED <<etc, holder, acked>> /\ durable' = etc
  BY <1>2 DEF SyncDirectory, Goto
<1>4. j.at = "commit" /\ j.op = job[p].op /\ j.db = job[p].db /\ j.left = job[p].left
  BY <1>1, <1>2 DEF Job
<1>5. Writing(j)'
  BY <1>1, <1>3, <1>4 DEF Writing
<1>6. /\ job'[p] = j
      /\ \A q \in Proc \ {p} : job'[q] = job[q] /\ job'[q].at \notin {"mutate", "commit", "sync"}
  <2>1. Busy(p)
    BY DEF SyncDirectory, Busy
  <2>2. \A q \in Proc \ {p} : job'[q] = job[q]
    BY <1>3
  <2> QED
    BY <1>1, <1>3, <2>1, <2>2, OthersOutside
<1>7. Extends(durable', etc', Untold')
  BY <1>3, ExtendsSelf
<1>8. \A o \in acked : Promised(o, etc)
  <2>1. Extends(durable, etc, Untold)
    BY DEF Told, Promises
  <2> QED
    BY <1>1, <2>1, PromisesReach
<1> QED
  BY <1>3, <1>4, <1>5, <1>6, <1>7, <1>8 DEF Told, Promises, Writing

(* When every file is installed the files are what the command made.       *)
LEMMA Installed ==
  ASSUME Told, NEW p \in Proc, Succeed(p), job[p].wrote
  PROVE  durable = etc /\ Promised(job[p].op, etc)
<1>1. InOrder(job[p]) /\ Writing(job[p]) /\ job[p].left = {} /\ job[p].at = "commit"
  BY DEF Told, Promises, Succeed, Inductive, CommitsInOrder
<1>2. etc.passwd = job[p].db.passwd /\ etc.shadow = job[p].db.shadow /\ etc.group = job[p].db.group
  BY <1>1 DEF InOrder, Writing
<1>3. etc \in Files /\ job[p].db \in Files
  BY OpTyped DEF Told
<1>4. etc = job[p].db
  BY <1>2, <1>3 DEF Files
<1> QED
  BY <1>1, <1>4 DEF Writing

LEMMA SucceedPromises ==
  ASSUME Told, NEW p \in Proc, Succeed(p)
  PROVE  Promises'
<1>1. /\ job' = [job EXCEPT ![p] = Idle] /\ UNCHANGED <<etc, durable>>
      /\ acked' = IF job[p].wrote THEN acked \cup {job[p].op} ELSE acked
      /\ Inductive /\ job \in [Proc -> Job] /\ Idle.at = "idle" /\ Idle.wrote = FALSE
  BY DEF Succeed, Return, Told, Inductive, TypeOK, Idle
<1>2. \A q \in Proc : job'[q] = IF q = p THEN Idle ELSE job[q]
  BY <1>1
<1>3. \A q \in Proc : job'[q].at \notin {"commit", "sync"}
  BY <1>1, <1>2, Alone DEF Succeed, Busy
<1>4. Extends(durable', etc', Untold') /\ \A o \in acked' : Promised(o, durable')
  <2>1. CASE job[p].wrote
    <3>1. durable = etc /\ Promised(job[p].op, durable)
      BY <2>1, Installed
    <3> QED
      BY <1>1, <2>1, <3>1, ExtendsSelf DEF Told, Promises
  <2>2. CASE ~ job[p].wrote
    BY <1>1, <2>2 DEF Told, Promises, Untold
  <2> QED
    BY <2>1, <2>2
<1> QED
  BY <1>1, <1>2, <1>3, <1>4 DEF Told, Promises

LEMMA PowerLossPromises ==
  ASSUME Told, PowerLoss
  PROVE  Promises'
<1>1. Mixed(durable, etc, etc')
  BY Accounted, LostMixed DEF Told
<1>2. etc' \in Files /\ Extends(durable, etc', Untold)
  BY <1>1, ExtendsMixed DEF Told, Promises, Mixed
<1>3. durable' = etc' /\ acked' = acked /\ job' = [p \in Proc |-> Idle]
  BY DEF PowerLoss
<1>4. \A p \in Proc : job'[p].at = "idle" /\ job'[p].wrote = FALSE
  BY <1>3 DEF Idle
<1>5. \A o \in acked : Promised(o, etc')
  BY <1>2, PromisesReach
<1>6. Extends(durable', etc', Untold')
  BY <1>3, ExtendsSelf
<1> QED
  BY <1>3, <1>4, <1>5, <1>6 DEF Promises

-----------------------------------------------------------------------------
(* What makes NoOrphanHome inductive.                                       *)

(* One process moves on: the homes it answers for, it still answers for, or *)
(* they are removed, or they belong to users.                               *)
LEMMA HomesAnswered ==
  ASSUME Told, NEW p \in Proc, NEW j, job' = [job EXCEPT ![p] = j],
         Users(durable) \subseteq Users(durable'),
         \A n \in home' : (n \in home /\ (n \in abandoned => n \in abandoned')) \/ (j.madeHome /\ j.op.name = n),
         job[p].madeHome => \/ j.madeHome /\ j.op = job[p].op
                            \/ job[p].op.name \in Users(durable') \cup abandoned'
                            \/ job[p].op.name \notin home',
         j.madeHome => MakesHome(j)
  PROVE  HomesKnown'
<1>1. \A q \in Proc : job'[q] = IF q = p THEN j ELSE job[q]
  BY DEF Told, Inductive, TypeOK
<1>2. ASSUME NEW n \in home', n \notin Users(durable'), n \notin abandoned'
      PROVE  \E q \in Proc : job'[q].madeHome /\ job'[q].op.name = n
  <2>1. CASE j.madeHome /\ j.op.name = n
    BY <1>1, <2>1
  <2>2. CASE n \in home /\ ~ (j.madeHome /\ j.op.name = n)
    <3>1. PICK q \in Proc : job[q].madeHome /\ job[q].op.name = n
      BY <1>2, <2>2 DEF Told, HomesKnown
    <3>2. q # p
      BY <1>2, <2>2, <3>1
    <3> QED
      BY <1>1, <3>1, <3>2
  <2> QED
    BY <1>2, <2>1, <2>2
<1>3. ASSUME NEW q \in Proc, job'[q].madeHome PROVE MakesHome(job'[q])
  BY <1>1, <1>3 DEF Told, HomesKnown
<1>4. \A n \in home' : \/ n \in Users(durable') \/ n \in abandoned'
                       \/ \E q \in Proc : job'[q].madeHome /\ job'[q].op.name = n
  BY <1>2
<1>5. \A q \in Proc : MakesHome(job[q])' <=> MakesHome(job'[q])
  BY DEF MakesHome
<1>6. \A n \in home' : n \in Users(durable)' <=> n \in Users(durable')
  BY DEF Users
<1> QED
  BY <1>3, <1>4, <1>5, <1>6 DEF HomesKnown

(* What is durable has the users that were durable.                        *)
LEMMA DurableUsers ==
  ASSUME Told
  PROVE  Users(durable) \subseteq Users(etc)
BY DEF Told, Promises, Extends, Users

LEMMA QuietHomes ==
  ASSUME Told, NEW p \in Proc,
         \/ \E o \in Ops : Begin(p, o)
         \/ Look(p) \/ Lock(p) \/ MutateFails(p) \/ ReplaceFails(p) \/ SyncDirectory(p)
         \/ SyncDirectoryFails(p) \/ Succeed(p) \/ RemoveHome(p) \/ Kill(p)
  PROVE  HomesKnown'
<1>0. /\ job[p] \in Job /\ Idle.madeHome = FALSE /\ abandoned \subseteq abandoned'
      /\ job[p].madeHome => MakesHome(job[p])
      /\ Users(durable) \subseteq Users(durable')
  BY OpTyped, DurableUsers
     DEF Idle, Told, HomesKnown, Begin, Look, Lock, MutateFails, ReplaceFails, SyncDirectory,
         SyncDirectoryFails, Succeed, RemoveHome, Kill
<1>1. ASSUME NEW o \in Ops, Begin(p, o) PROVE HomesKnown'
  <2> DEFINE j == [job[p] EXCEPT !.op = o, !.at = IF o.kind \in PasswdKinds THEN "look" ELSE "lock"]
  <2>1. job' = [job EXCEPT ![p] = j] /\ home' = home /\ job[p].at = "idle"
    BY <1>1 DEF Begin
  <2>2. j.madeHome = job[p].madeHome
    BY <1>0 DEF Job
  <2> HIDE DEF j
  <2> QED
    BY <1>0, <2>1, <2>2, HomesAnswered DEF MakesHome
<1>2. ASSUME Return(p), home' \subseteq home,
             job[p].madeHome => \/ job[p].op.name \in Users(durable') \cup abandoned'
                                \/ job[p].op.name \notin home'
      PROVE  HomesKnown'
  BY <1>0, <1>2, HomesAnswered DEF Return
<1>3. CASE Look(p) /\ ~ Return(p)
  <2> DEFINE j == [job[p] EXCEPT !.at = "lock", !.target =
                      IF etc.passwd[job[p].op.name].shadowed THEN "shadow" ELSE "passwd"]
  <2>1. job' = [job EXCEPT ![p] = j] /\ home' = home /\ job[p].at = "look"
    BY <1>3 DEF Look
  <2>2. j.madeHome = job[p].madeHome
    BY <1>0 DEF Job
  <2> HIDE DEF j
  <2> QED
    BY <1>0, <2>1, <2>2, HomesAnswered DEF MakesHome
<1>4. ASSUME NEW place \in {"mutate", "commit", "fail"}, Goto(p, place), home' = home,
             place = "mutate" => job[p].at = "lock"
      PROVE  HomesKnown'
  <2> DEFINE j == [job[p] EXCEPT !.at = place]
  <2>1. job' = [job EXCEPT ![p] = j]
    BY <1>4 DEF Goto
  <2>2. /\ j.op = job[p].op /\ j.at = place /\ j.madeHome = job[p].madeHome
        /\ j.wrote = job[p].wrote /\ j.left = job[p].left
    BY <1>0 DEF Job
  <2> HIDE DEF j
  <2> QED
    BY <1>0, <1>4, <2>1, <2>2, HomesAnswered DEF MakesHome
<1>5. CASE Lock(p)
  BY <1>0, <1>2, <1>4, <1>5 DEF Lock, MakesHome
<1>6. CASE ReplaceFails(p) \/ SyncDirectory(p) \/ SyncDirectoryFails(p)
  BY <1>4, <1>6 DEF ReplaceFails, SyncDirectory, SyncDirectoryFails
<1>7. CASE MutateFails(p) \/ (Look(p) /\ Return(p))
  BY <1>0, <1>2, <1>7 DEF MutateFails, Look, MakesHome
<1>8. CASE RemoveHome(p)
  BY <1>0, <1>2, <1>8 DEF RemoveHome
<1>9. CASE Succeed(p)
  <2>1. Writing(job[p]) /\ job[p].left = {} /\ job[p].at = "commit"
    BY <1>9 DEF Told, Promises, Succeed
  <2>2. job[p].madeHome => job[p].op.name \in Users(durable)
    BY <1>0, <2>1 DEF Writing, Promised, Users, MakesHome
  <2> QED
    BY <1>0, <1>2, <1>9, <2>2 DEF Succeed
<1>10. CASE Kill(p)
  BY <1>2, <1>10 DEF Kill, Interrupted
<1> QED
  BY <1>1, <1>3, <1>5, <1>6, <1>7, <1>8, <1>9, <1>10

LEMMA NewUsers ==
  ASSUME NEW f, NEW o \in UserAdd, NEW new \in PlanUser(f, o)
  PROVE  f.passwd[o.name] = Absent
BY DEF PlanUser

LEMMA MutateHomes ==
  ASSUME Told, NEW p \in Proc, Mutate(p)
  PROVE  HomesKnown'
<1> DEFINE o == job[p].op
           made == o.kind = "useradd" /\ o.home
<1>1. job[p] \in Job /\ ~ job[p].madeHome
  BY OpTyped DEF Told, HomesKnown, Mutate, MakesHome
<1>2. PICK new \in Plans(etc, o, job[p].target) :
        job' = [job EXCEPT ![p] =
                 [@ EXCEPT !.at = "commit", !.db = new, !.madeHome = made,
                           !.left = IF o.kind \in PasswdKinds THEN {job[p].target}
                                    ELSE {f \in File : new[f] # etc[f]}]]
  BY DEF Mutate
<1> DEFINE left == IF o.kind \in PasswdKinds THEN {job[p].target} ELSE {f \in File : new[f] # etc[f]}
<1>3. PICK j : j = [job[p] EXCEPT !.at = "commit", !.db = new, !.madeHome = made, !.left = left]
  OBVIOUS
<1>4. job' = [job EXCEPT ![p] = j]
  BY <1>2, <1>3 DEF Told, Inductive, TypeOK
<1> HIDE DEF left
<1>5. j.at = "commit" /\ j.op = o /\ j.madeHome = made /\ j.left = left
  <2> HIDE DEF made
  <2> QED
    BY <1>1, <1>3 DEF Job
<1>6. /\ durable' = durable /\ home' = IF made THEN home \cup {o.name} ELSE home
      /\ abandoned' = IF made THEN abandoned \ {o.name} ELSE abandoned
  BY DEF Mutate
<1>7. made => "passwd" \in left
  <2> SUFFICES ASSUME made PROVE "passwd" \in left
    OBVIOUS
  <2>1. o \in UserAdd /\ o.kind \notin PasswdKinds /\ o \in Op
    BY OpTyped DEF Told, Op, UserAdd, GroupAdd, AddUser, SetPassword, ModifyAccount, PasswdKinds
  <2>2. etc.passwd[o.name] = Absent
    BY <2>1, <1>2, NewUsers DEF Plans
  <2>3. new.passwd[o.name] # Absent
    <3>1. job[p].at = "mutate" /\ etc \in Files /\ job[p].target \in {"shadow", "passwd"}
      BY OpTyped DEF Told, Mutate
    <3>2. Aimed(o, etc, job[p].target)
      BY <3>1 DEF Told, Promises
    <3>3. Promised(o, new)
      BY <1>2, <2>1, <3>1, <3>2, PlansTouch
    <3> QED
      BY <3>3 DEF Promised, Users
  <2> QED
    BY <2>1, <2>2, <2>3 DEF left, File
<1>8. j.madeHome => MakesHome(j)
  BY <1>5, <1>7 DEF MakesHome
<1>9. \A n \in home' : (n \in home /\ (n \in abandoned => n \in abandoned')) \/ (j.madeHome /\ j.op.name = n)
  BY <1>5, <1>6
<1> HIDE DEF made, o
<1> QED
  BY <1>1, <1>4, <1>6, <1>8, <1>9, HomesAnswered

LEMMA ReplaceHomes ==
  ASSUME Told, NEW p \in Proc, Replace(p)
  PROVE  HomesKnown'
<1>1. job[p] \in Job /\ (job[p].madeHome => MakesHome(job[p]))
  BY OpTyped DEF Told, HomesKnown
<1>2. PICK j, file : /\ job' = [job EXCEPT ![p] = j]
                     /\ j = [job[p] EXCEPT !.at = "sync", !.left = @ \ {file}, !.wrote = TRUE]
  BY DEF Replace
<1>3. j.at = "sync" /\ j.op = job[p].op /\ j.madeHome = job[p].madeHome /\ j.wrote
  BY <1>1, <1>2 DEF Job
<1>4. UNCHANGED <<home, abandoned, durable>>
  BY DEF Replace
<1> QED
  BY <1>1, <1>2, <1>3, <1>4, HomesAnswered DEF MakesHome

LEMMA PowerLossHomes ==
  ASSUME Told, PowerLoss
  PROVE  HomesKnown'
<1>1. \A p \in Proc : ~ job'[p].madeHome
  BY DEF PowerLoss, Idle
<1>2. Users(durable) \subseteq Users(durable')
  <2>1. durable' = etc' /\ etc'.passwd \in {durable.passwd, etc.passwd}
    <3>1. PICK lost \in SUBSET File : etc' = [f \in File |-> IF f \in lost THEN durable[f] ELSE etc[f]]
      BY DEF PowerLoss
    <3> QED
      BY <3>1 DEF PowerLoss, File
  <2> QED
    BY <2>1, DurableUsers DEF Users
<1>3. ASSUME NEW n \in home' PROVE n \in Users(durable') \/ n \in abandoned'
  <2>1. CASE n \in Users(durable) \/ n \in abandoned
    BY <1>2, <2>1 DEF PowerLoss
  <2>2. ASSUME NEW p \in Proc, job[p].madeHome, job[p].op.name = n PROVE n \in abandoned'
    BY <2>2 DEF PowerLoss, Interrupted
  <2> QED
    BY <1>3, <2>1, <2>2 DEF Told, HomesKnown, PowerLoss
<1>4. \A n \in home' : n \in Users(durable)' \/ n \in abandoned'
  BY <1>3 DEF Users
<1> QED
  BY <1>1, <1>4 DEF HomesKnown

LEMMA StepTold == Told /\ [Next]_vars => Told'
<1> SUFFICES ASSUME Told, [Next]_vars PROVE Told'
  OBVIOUS
<1>1. Inductive'
  BY StepInductive DEF Told
<1>2. CASE PowerLoss
  BY <1>1, <1>2, PowerLossPromises, PowerLossHomes DEF Told
<1>3. ASSUME NEW p \in Proc, Work(p) PROVE Promises' /\ HomesKnown'
  BY <1>3, QuietPromises, MutatePromises, ReplacePromises, SyncPromises, SucceedPromises,
     QuietHomes, MutateHomes, ReplaceHomes DEF Work
<1>4. ASSUME NEW p \in Proc, Kill(p) PROVE Promises' /\ HomesKnown'
  BY <1>4, QuietPromises, QuietHomes
<1>5. CASE UNCHANGED vars
  <2>1. UNCHANGED <<etc, durable, home, abandoned, job, acked>>
    BY <1>5 DEF vars
  <2>2. Promises'
    BY <2>1 DEF Told, Promises, Untold, Writing
  <2>3. HomesKnown'
    BY <2>1 DEF Told, HomesKnown, Users, MakesHome
  <2> QED
    BY <1>1, <2>2, <2>3 DEF Told
<1> QED
  BY <1>1, <1>2, <1>3, <1>4, <1>5 DEF Next, Told

(* What a command promised by exiting with status 0 holds from then on,    *)
(* whatever other commands run and whenever the power fails, until a later *)
(* passwd changes the same password.                                       *)
THEOREM SuccessLasts == Spec => []SuccessKept
<1>1. Told => SuccessKept
  <2> SUFFICES ASSUME Told, NEW o \in acked PROVE Holds(o, etc)
    BY DEF SuccessKept
  <2>1. etc \in Files /\ Extends(durable, etc, Untold)
    BY DEF Told, Promises, Inductive, TypeOK
  <2> QED
    BY <2>1, PromisesReach DEF Promised
<1> QED
  BY <1>1, InitTold, StepTold, PTL DEF Spec

(* Whatever is killed and whenever the power fails, each home directory    *)
(* belongs to a user, to the useradd that made it and is still running, or *)
(* to one that was itself killed or lost power.                            *)
THEOREM HomesOwned == Spec => []NoOrphanHome
<1>1. Told => NoOrphanHome
  BY DurableUsers DEF Told, HomesKnown, NoOrphanHome
<1> QED
  BY <1>1, InitTold, StepTold, PTL DEF Spec

-----------------------------------------------------------------------------
(* Every step but a power loss is one of AccountStore.                      *)

(* What a reader of f sees of n: StoreSpec's Accounts, name by name.        *)
MemberOf(f, n) == {g \in Groups(f) : n \in f.group[g].members}
AccountOf(f, n) ==
  IF f.passwd[n] = Absent THEN Absent
  ELSE [uid |-> f.passwd[n].uid, gid |-> f.passwd[n].gid, pw |-> Effective(f, n), groups |-> MemberOf(f, n)]
GidOf(f, g) == IF f.group[g] = Absent THEN Absent ELSE f.group[g].gid
AccountsOf(f) == [n \in Name |-> AccountOf(f, n)]
GidsOf(f) == [g \in Name |-> GidOf(f, g)]

LEMMA AccountTyped ==
  ASSUME NEW f \in Files, Complete(f), NEW n \in Users(f)
  PROVE  /\ AccountOf(f, n) \in [uid : Ids, gid : Ids, pw : Password, groups : SUBSET Name]
         /\ AccountOf(f, n) # Absent /\ Effective(f, n) \in Password
<1>1. n \in Name /\ f.passwd[n] # Absent /\ f.passwd[n] \in User
  BY DEF Users, Files
<1>2. f.passwd[n].shadowed => f.shadow[n] \in Password
  BY <1>1 DEF Complete, Supported, Files
<1>3. Effective(f, n) \in Password
  BY <1>1, <1>2 DEF Effective, User
<1>4. MemberOf(f, n) \in SUBSET Name
  BY DEF MemberOf, Groups
<1>5. AccountOf(f, n) \in [uid : Ids, gid : Ids, pw : Password, groups : SUBSET Name]
  BY <1>1, <1>3, <1>4 DEF AccountOf, User
<1> QED
  BY <1>3, <1>5, NameAssumption

LEMMA GidTyped ==
  ASSUME NEW f \in Files, NEW g \in Name
  PROVE  GidOf(f, g) \in Ids \cup {Absent} /\ (GidOf(f, g) = Absent <=> g \notin Groups(f))
BY NameAssumption DEF GidOf, Groups, Files, Group

LEMMA GidsSeen ==
  ASSUME NEW f \in Files
  PROVE  {GidsOf(f)[g] : g \in {h \in Name : GidsOf(f)[h] # Absent}} = Gids(f)
<1>1. {h \in Name : GidsOf(f)[h] # Absent} = Groups(f)
  BY GidTyped DEF GidsOf, Groups
<1>2. \A g \in Groups(f) : GidsOf(f)[g] = f.group[g].gid
  BY DEF GidsOf, GidOf, Groups
<1> QED
  BY <1>1, <1>2 DEF Gids

(* No memberships of n change where only other members, or empty groups,   *)
(* are added.                                                              *)
LEMMA SameMemberships ==
  ASSUME NEW f, NEW g, NEW n, Groups(f) \subseteq Groups(g),
         \A h \in Groups(f) : n \in g.group[h].members <=> n \in f.group[h].members,
         \A h \in Groups(g) \ Groups(f) : g.group[h].members = {}
  PROVE  MemberOf(g, n) = MemberOf(f, n)
BY DEF MemberOf

LEMMA SameAccount ==
  ASSUME NEW f, NEW g, NEW n, g.passwd[n] = f.passwd[n], Effective(g, n) = Effective(f, n),
         MemberOf(g, n) = MemberOf(f, n)
  PROVE  AccountOf(g, n) = AccountOf(f, n)
BY DEF AccountOf

LEMMA StoreSeen ==
  /\ Accounts = AccountsOf(etc)
  /\ [g \in Name |-> IF etc.group[g] = Absent THEN Absent ELSE etc.group[g].gid] = GidsOf(etc)
  /\ Accounts' = AccountsOf(etc')
  /\ [g \in Name |-> IF etc.group[g] = Absent THEN Absent ELSE etc.group[g].gid]' = GidsOf(etc')
BY DEF Accounts, AccountsOf, AccountOf, MemberOf, GidsOf, GidOf

LEMMA InitStore == Init => Store!Init
<1> SUFFICES ASSUME Init PROVE Store!Init
  OBVIOUS
<1>1. etc \in Files /\ Complete(etc)
  BY InputAssumption DEF Init
<1>2. AccountsOf(etc) \in [Name -> Store!Account \cup {Absent}]
  <2>1. \A n \in Name : AccountOf(etc, n) \in Store!Account \cup {Absent}
    BY <1>1, AccountTyped DEF AccountOf, Users, Store!Account
  <2> QED
    BY <2>1 DEF AccountsOf
<1>3. GidsOf(etc) \in [Name -> Ids \cup {Absent}]
  BY <1>1, GidTyped DEF GidsOf
<1> QED
  BY <1>2, <1>3, StoreSeen DEF Store!Init

(* A password change is all a reader sees.                                  *)
LEMMA PasswordSeen ==
  ASSUME NEW f \in Files, NEW g \in Files, Complete(g), g.group = f.group,
         NEW n \in Users(f), n \in Users(g),
         g.passwd[n].uid = f.passwd[n].uid, g.passwd[n].gid = f.passwd[n].gid,
         \A k \in Name \ {n} : AccountOf(g, k) = AccountOf(f, k)
  PROVE  /\ AccountsOf(g) = [AccountsOf(f) EXCEPT ![n].pw = Effective(g, n)]
         /\ Effective(g, n) \in Password
<1>1. MemberOf(g, n) = MemberOf(f, n)
  BY DEF MemberOf, Groups
<1>2. n \in Name /\ f.passwd[n] # Absent /\ g.passwd[n] # Absent
  BY DEF Users
<1>3. AccountOf(g, n) = [AccountOf(f, n) EXCEPT !.pw = Effective(g, n)]
  BY <1>1, <1>2 DEF AccountOf
<1>4. AccountsOf(f)[n] = AccountOf(f, n)
  BY <1>2 DEF AccountsOf
<1>5. AccountsOf(g) = [AccountsOf(f) EXCEPT ![n] = [AccountOf(f, n) EXCEPT !.pw = Effective(g, n)]]
  BY <1>2, <1>3 DEF AccountsOf
<1> QED
  BY <1>4, <1>5, AccountTyped

SetPasswordSeen(n) ==
  /\ n \in Users(etc) /\ AccountsOf(etc') = [AccountsOf(etc) EXCEPT ![n].pw = Effective(etc', n)]
  /\ Effective(etc', n) \in Password /\ GidsOf(etc') = GidsOf(etc)

LEMMA SetPasswordStep ==
  ASSUME Inductive, NEW n \in Name, SetPasswordSeen(n)
  PROVE  Store!Next
<1>1. AccountsOf(etc)[n] # Absent
  BY AccountTyped, Accounted DEF AccountsOf, SetPasswordSeen
<1>2. Store!SetPassword(n, Effective(etc', n))
  BY <1>1, StoreSeen DEF Store!SetPassword, SetPasswordSeen
<1> QED
  BY <1>2 DEF Store!Next, SetPasswordSeen

(* A user that appears in passwd is a new account, under a new uid.        *)
LEMMA CreateStep ==
  ASSUME Inductive, Inductive', NEW n \in Name, n \notin Users(etc), n \in Users(etc'), etc'.group = etc.group,
         \A k \in Name \ {n} : AccountOf(etc', k) = AccountOf(etc, k) /\ etc'.passwd[k] = etc.passwd[k]
  PROVE  Store!Next
<1>1. etc \in Files /\ etc' \in Files /\ Complete(etc') /\ Complete(etc) /\ UniqueUids(etc')
  BY Accounted DEF Inductive, TypeOK, CrashSafe, Grows, Supported, Complete, Unique
<1>2. AccountsOf(etc') = [AccountsOf(etc) EXCEPT ![n] = AccountsOf(etc')[n]]
  BY DEF AccountsOf
<1>3. AccountsOf(etc)[n] = Absent /\ AccountsOf(etc')[n] = AccountOf(etc', n)
  BY DEF AccountsOf, AccountOf, Users
<1>4. AccountOf(etc', n) \in Store!Account
  BY <1>1, AccountTyped DEF Store!Account
<1>5. AccountOf(etc', n).uid = etc'.passwd[n].uid /\ AccountOf(etc', n).gid = etc'.passwd[n].gid
  BY DEF AccountOf, Users
<1>6. {m \in Name : AccountsOf(etc)[m] # Absent} = Users(etc)
  BY <1>1, AccountTyped DEF AccountsOf, AccountOf, Users
<1>7. \A m \in Users(etc) : AccountsOf(etc)[m].uid = etc.passwd[m].uid
  BY DEF AccountsOf, AccountOf, Users
<1>8. AccountOf(etc', n).uid \notin {AccountsOf(etc)[m].uid : m \in Users(etc)}
  <2>1. \A m \in Users(etc) : m # n /\ m \in Users(etc') /\ etc'.passwd[m].uid = etc.passwd[m].uid
    BY DEF Users
  <2> QED
    BY <1>1, <1>5, <1>7, <2>1 DEF UniqueUids
<1>9. AccountOf(etc', n).gid \in Gids(etc)
  BY <1>1, <1>5 DEF Complete, Supported, Gids, Groups, Users
<1>10. GidsOf(etc') = GidsOf(etc)
  BY DEF GidsOf, GidOf
<1>11. Store!Gids = Gids(etc) /\ Store!Existing = Users(etc)
  BY <1>1, <1>6, GidsSeen, StoreSeen DEF Store!Gids, Store!Existing
<1>12. Store!Create(n)
  BY <1>2, <1>3, <1>4, <1>6, <1>8, <1>9, <1>10, <1>11, StoreSeen DEF Store!Create, Store!OnlyAccount
<1> QED
  BY <1>12 DEF Store!Next

StoreUnmoved == AccountsOf(etc') = AccountsOf(etc) /\ GidsOf(etc') = GidsOf(etc)

LEMMA UnmovedStep ==
  ASSUME StoreUnmoved
  PROVE  UNCHANGED Store!vars
BY StoreSeen DEF StoreUnmoved, Store!vars

(* Each file that is installed, as a reader sees it.                        *)
LEMMA ShadowSeen ==
  ASSUME Inductive, Inductive', NEW db, NEW o, o.name \in Name, Touches(etc, db, o),
         etc'.passwd = etc.passwd, etc'.group = etc.group, etc'.shadow = db.shadow
  PROVE  Store!Next \/ StoreUnmoved
<1> DEFINE n == o.name
<1>1. etc \in Files /\ etc' \in Files /\ Complete(etc')
  BY Accounted DEF Inductive, TypeOK, CrashSafe, Grows, Supported, Complete
<1>2. GidsOf(etc') = GidsOf(etc) /\ \A k \in Name : MemberOf(etc', k) = MemberOf(etc, k)
  BY DEF GidsOf, GidOf, MemberOf, Groups
<1>3. \A k \in Name \ {n} : AccountOf(etc', k) = AccountOf(etc, k)
  <2>1. \A k \in Name \ {n} : Effective(etc', k) = Effective(etc, k)
    BY DEF Effective, Touches
  <2> QED
    BY <1>2, <2>1, SameAccount
<1>4. CASE n \in Users(etc)
  <2>1. n \in Users(etc')
    BY <1>4 DEF Users
  <2>2. SetPasswordSeen(n)
    BY <1>1, <1>2, <1>3, <1>4, <2>1, PasswordSeen DEF SetPasswordSeen
  <2> QED
    BY <2>2, SetPasswordStep
<1>5. CASE n \notin Users(etc)
  <2>1. AccountOf(etc', n) = AccountOf(etc, n)
    BY <1>5 DEF AccountOf, Users
  <2> QED
    BY <1>2, <1>3, <2>1 DEF StoreUnmoved, AccountsOf
<1> QED
  BY <1>4, <1>5

LEMMA PasswdSeen ==
  ASSUME Inductive, Inductive', NEW db, NEW o, o.name \in Name, Touches(etc, db, o),
         etc'.passwd = db.passwd, etc'.group = etc.group, etc'.shadow = etc.shadow
  PROVE  Store!Next \/ StoreUnmoved
<1> DEFINE n == o.name
<1>1. etc \in Files /\ etc' \in Files /\ Complete(etc')
  BY Accounted DEF Inductive, TypeOK, CrashSafe, Grows, Supported, Complete
<1>2. GidsOf(etc') = GidsOf(etc) /\ \A k \in Name : MemberOf(etc', k) = MemberOf(etc, k)
  BY DEF GidsOf, GidOf, MemberOf, Groups
<1>3. \A k \in Name \ {n} : AccountOf(etc', k) = AccountOf(etc, k) /\ etc'.passwd[k] = etc.passwd[k]
  <2>1. \A k \in Name \ {n} : Effective(etc', k) = Effective(etc, k) /\ etc'.passwd[k] = etc.passwd[k]
    BY DEF Effective, Touches
  <2> QED
    BY <1>2, <2>1, SameAccount
<1>4. CASE n \in Users(etc)
  <2>1. n \in Users(etc') /\ etc'.passwd[n].uid = etc.passwd[n].uid /\ etc'.passwd[n].gid = etc.passwd[n].gid
    BY <1>4 DEF Users, Touches
  <2>2. SetPasswordSeen(n)
    BY <1>1, <1>2, <1>3, <1>4, <2>1, PasswordSeen DEF SetPasswordSeen
  <2> QED
    BY <2>2, SetPasswordStep
<1>5. CASE n \notin Users(etc) /\ n \in Users(etc')
  BY <1>3, <1>5, CreateStep
<1>6. CASE n \notin Users(etc) /\ n \notin Users(etc')
  <2>1. AccountOf(etc', n) = AccountOf(etc, n)
    BY <1>6 DEF AccountOf, Users
  <2> QED
    BY <1>2, <1>3, <2>1 DEF StoreUnmoved, AccountsOf
<1> QED
  BY <1>4, <1>5, <1>6

(* A group that appears has no members yet. *)
LEMMA AddGroupStep ==
  ASSUME Inductive, Inductive', NEW n \in Name, n \notin Groups(etc), n \in Groups(etc'),
         AccountsOf(etc') = AccountsOf(etc),
         \A h \in Name \ {n} : GidOf(etc', h) = GidOf(etc, h)
  PROVE  Store!Next
<1>g. PICK gid : gid = GidOf(etc', n)
  OBVIOUS
<1>1. etc \in Files /\ etc' \in Files /\ UniqueGids(etc')
  BY DEF Inductive, TypeOK, Unique
<1>2. gid \in Ids /\ gid = etc'.group[n].gid
  BY <1>1, <1>g, GidTyped DEF GidOf, Groups
<1>3. GidsOf(etc') = [GidsOf(etc) EXCEPT ![n] = gid] /\ GidsOf(etc)[n] = Absent
  BY <1>g DEF GidsOf, GidOf, Groups
<1>4. gid \notin Gids(etc)
  <2>1. ASSUME NEW h \in Groups(etc) PROVE gid # etc.group[h].gid
    <3>1. h # n /\ h \in Name
      BY <2>1 DEF Groups
    <3>2. GidOf(etc', h) = GidOf(etc, h) /\ GidOf(etc, h) # Absent
      BY <1>1, <2>1, <3>1, GidTyped
    <3>3. h \in Groups(etc') /\ etc'.group[h].gid = etc.group[h].gid
      BY <2>1, <3>1, <3>2 DEF GidOf, Groups
    <3> QED
      BY <1>1, <1>2, <3>1, <3>3 DEF UniqueGids
  <2> QED
    BY <2>1 DEF Gids
<1>5. Store!Gids = Gids(etc)
  BY <1>1, GidsSeen, StoreSeen DEF Store!Gids
<1>6. Store!AddGroup(n, gid)
  BY <1>3, <1>4, <1>5, StoreSeen DEF Store!AddGroup
<1> QED
  BY <1>2, <1>6 DEF Store!Next

LEMMA JoinStep ==
  ASSUME Inductive, NEW n \in Users(etc), NEW g \in Groups(etc), GidsOf(etc') = GidsOf(etc),
         AccountsOf(etc') = [AccountsOf(etc) EXCEPT ![n].groups = @ \cup {g}]
  PROVE  Store!Next
<1>1. n \in Name /\ g \in Name
  BY DEF Users, Groups
<1>2. AccountsOf(etc)[n] # Absent /\ GidsOf(etc)[g] # Absent
  BY <1>1, AccountTyped, GidTyped, Accounted DEF AccountsOf, GidsOf
<1>3. Store!Join(n, g)
  BY <1>2, StoreSeen DEF Store!Join
<1> QED
  BY <1>1, <1>3 DEF Store!Next

LEMMA GroupSeen ==
  ASSUME Inductive, Inductive', NEW db, NEW o \in Op, o.name \in Name, Touches(etc, db, o),
         etc'.passwd = etc.passwd, etc'.group = db.group, etc'.shadow = etc.shadow
  PROVE  Store!Next \/ StoreUnmoved
<1> DEFINE n == o.name
<1>1. /\ etc \in Files /\ etc' \in Files
      /\ \A k \in Name : Effective(etc', k) = Effective(etc, k) /\ etc'.passwd[k] = etc.passwd[k]
  BY DEF Inductive, TypeOK, Effective
<1>2. /\ Groups(etc) \subseteq Groups(etc')
      /\ \A h \in Groups(etc) : /\ etc'.group[h].gid = etc.group[h].gid
                                /\ etc.group[h].members \subseteq etc'.group[h].members
                                /\ etc'.group[h].members \subseteq etc.group[h].members \cup {n}
      /\ \A h \in Groups(etc') \ Groups(etc) : h = n /\ etc'.group[h].members = {}
  BY DEF Touches, Groups
<1>3. \A k \in Name \ {n} : AccountOf(etc', k) = AccountOf(etc, k)
  <2> SUFFICES ASSUME NEW k \in Name \ {n} PROVE AccountOf(etc', k) = AccountOf(etc, k)
    OBVIOUS
  <2>1. MemberOf(etc', k) = MemberOf(etc, k)
    BY <1>2, SameMemberships
  <2> QED
    BY <1>1, <2>1, SameAccount
<1>4. \A h \in Name \ {n} : GidOf(etc', h) = GidOf(etc, h)
  BY <1>2 DEF GidOf, Groups
<1>5. CASE AccountOf(etc', n) = AccountOf(etc, n)
  <2>1. AccountsOf(etc') = AccountsOf(etc)
    BY <1>3, <1>5 DEF AccountsOf
  <2>2. CASE n \in Groups(etc') \ Groups(etc)
    BY <1>4, <2>1, <2>2, AddGroupStep
  <2>3. CASE n \notin Groups(etc') \ Groups(etc)
    <3>1. GidOf(etc', n) = GidOf(etc, n)
      BY <1>2, <2>3 DEF GidOf, Groups
    <3> QED
      BY <1>4, <2>1, <3>1 DEF StoreUnmoved, GidsOf
  <2> QED
    BY <2>2, <2>3
<1>6. CASE AccountOf(etc', n) # AccountOf(etc, n)
  <2>1. n \in Users(etc) /\ MemberOf(etc', n) # MemberOf(etc, n)
    BY <1>1, <1>6, SameAccount DEF AccountOf, Users
  <2>2. o.kind = "adduser"
    <3>1. etc'.group # etc.group
      BY <2>1 DEF MemberOf, Groups
    <3>2. o.kind # "groupadd"
      <4> SUFFICES ASSUME o.kind = "groupadd" PROVE FALSE
        OBVIOUS
      <4>1. \A h \in Groups(etc) : etc'.group[h] = etc.group[h]
        BY DEF Touches
      <4> QED
        BY <1>2, <2>1, <4>1, SameMemberships
    <3> QED
      BY <2>1, <3>1, <3>2 DEF Touches, Users, Op, UserAdd, GroupAdd, AddUser, SetPassword, ModifyAccount, PasswdKinds
  <2>3. o.group \in Groups(etc) /\ \A h \in Name \ {o.group} : etc'.group[h] = etc.group[h]
    BY <2>2 DEF Touches
  <2>4. Groups(etc') = Groups(etc)
    BY <1>2, <2>3 DEF Groups
  <2>5. MemberOf(etc', n) = MemberOf(etc, n) \cup {o.group}
    BY <1>2, <2>1, <2>3, <2>4 DEF MemberOf, Groups
  <2>6. AccountOf(etc', n) = [AccountOf(etc, n) EXCEPT !.groups = @ \cup {o.group}]
    BY <1>1, <2>1, <2>5 DEF AccountOf, Users
  <2>7. AccountsOf(etc') = [AccountsOf(etc) EXCEPT ![n].groups = @ \cup {o.group}]
    BY <1>3, <2>6 DEF AccountsOf
  <2>8. GidsOf(etc') = GidsOf(etc)
    BY <1>2, <2>4 DEF GidsOf, GidOf, Groups
  <2> QED
    BY <2>1, <2>3, <2>7, <2>8, JoinStep
<1> QED
  BY <1>5, <1>6

LEMMA ReplaceRefines ==
  ASSUME Told, Told', NEW p \in Proc, Replace(p)
  PROVE  Store!Next \/ StoreUnmoved
<1> DEFINE db == job[p].db
           o == job[p].op
<1>1. /\ Inductive /\ Inductive' /\ o \in Op /\ o.name \in Name /\ Touches(etc, db, o)
  BY OpTyped DEF Told, Promises, Writing, Replace
<1>2. PICK file \in File : /\ etc'.passwd = IF file = "passwd" THEN db.passwd ELSE etc.passwd
                           /\ etc'.shadow = IF file = "shadow" THEN db.shadow ELSE etc.shadow
                           /\ etc'.group = IF file = "group" THEN db.group ELSE etc.group
  BY <1>1, OneReplaced DEF Inductive
<1> HIDE DEF db, o
<1> QED
  BY <1>1, <1>2, ShadowSeen, PasswdSeen, GroupSeen DEF File

LEMMA StepRefines ==
  ASSUME Told, Told', [Next]_vars
  PROVE  [losses' < losses \/ Store!Next]_<<Store!vars, losses>>
<1>1. CASE PowerLoss
  BY <1>1 DEF PowerLoss, Told, Inductive, TypeOK
<1>2. ASSUME NEW p \in Proc, Work(p) \/ Kill(p), ~ Replace(p)
      PROVE  UNCHANGED <<etc, losses>>
  BY <1>2 DEF Work, Begin, Look, Lock, Mutate, MutateFails, ReplaceFails, SyncDirectory,
              SyncDirectoryFails, Succeed, RemoveHome, Kill
<1>3. CASE UNCHANGED <<etc, losses>>
  BY <1>3, UnmovedStep DEF StoreUnmoved
<1>4. ASSUME NEW p \in Proc, Replace(p)
      PROVE  [losses' < losses \/ Store!Next]_<<Store!vars, losses>>
  BY <1>4, ReplaceRefines, UnmovedStep DEF Replace
<1> QED
  BY <1>1, <1>2, <1>3, <1>4 DEF Next, vars

(* Whoever reads the files sees accounts and groups that change one at a   *)
(* time and whole, although the files are replaced one by one: only a power *)
(* loss may take some of these changes back.                               *)
THEOREM ReadersSeeStore == Spec => StoreSpec
<1>1. Told /\ Told' /\ [Next]_vars => [losses' < losses \/ Store!Next]_<<Store!vars, losses>>
  BY StepRefines
<1>2. Init => Store!Init
  BY InitStore
<1> QED
  BY <1>1, <1>2, InitTold, StepTold, PTL DEF Spec, StoreSpec
=============================================================================
