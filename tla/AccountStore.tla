---------------------------- MODULE AccountStore ----------------------------
(***************************************************************************)
(* What the account commands promise to whoever reads the database: an     *)
(* account appears in one step, with its password, its primary group and   *)
(* its memberships, under a uid of its own; nothing else changes with it.  *)
(***************************************************************************)
CONSTANTS Name, Ids, Password, Absent

VARIABLES
  accounts,  \* per name [uid, gid, pw, groups], or Absent
  groups     \* per name the gid, or Absent

vars == <<accounts, groups>>

Account == [uid : Ids, gid : Ids, pw : Password, groups : SUBSET Name]
Existing == {n \in Name : accounts[n] # Absent}
Gids == {groups[g] : g \in {h \in Name : groups[h] # Absent}}

Init == /\ accounts \in [Name -> Account \cup {Absent}]
        /\ groups \in [Name -> Ids \cup {Absent}]

OnlyAccount(n) == accounts' = [accounts EXCEPT ![n] = accounts'[n]]

Create(n) ==
  /\ accounts[n] = Absent /\ OnlyAccount(n)
  /\ accounts'[n] \in Account
  /\ accounts'[n].uid \notin {accounts[m].uid : m \in Existing}
  /\ accounts'[n].gid \in Gids
  /\ UNCHANGED groups

Join(n, g) ==
  /\ accounts[n] # Absent /\ groups[g] # Absent
  /\ accounts' = [accounts EXCEPT ![n].groups = @ \cup {g}]
  /\ UNCHANGED groups

SetPassword(n, pw) ==
  /\ accounts[n] # Absent
  /\ accounts' = [accounts EXCEPT ![n].pw = pw]
  /\ UNCHANGED groups

AddGroup(g, gid) ==
  /\ groups[g] = Absent /\ gid \notin Gids
  /\ groups' = [groups EXCEPT ![g] = gid]
  /\ UNCHANGED accounts

Next ==
  \E n \in Name :
    \/ Create(n)
    \/ \E g \in Name : Join(n, g)
    \/ \E pw \in Password : SetPassword(n, pw)
    \/ \E gid \in Ids : AddGroup(n, gid)

Spec == Init /\ [][Next]_vars
=============================================================================
