----------------------------- MODULE MCAccountDB -----------------------------
(* Instances of AccountDB small enough for TLC. *)
EXTENDS AccountDB, TLC

CONSTANTS root, users, alice, bob, h1

MCPassword == [locked |-> TRUE, hash |-> h1]
(* root has an entry in shadow, bob is a legacy account with its password  *)
(* in passwd.                                                              *)
MCInitial ==
  [passwd |-> root :> [uid |-> 0, gid |-> 0, shadowed |-> TRUE,
                       pw |-> [locked |-> FALSE, hash |-> NoHash]]
              @@ bob :> [uid |-> 1001, gid |-> 100, shadowed |-> FALSE,
                         pw |-> MCPassword]
              @@ [n \in Name |-> Absent],
   shadow |-> root :> MCPassword @@ [n \in Name |-> Absent],
   group  |-> root :> [gid |-> 0, members |-> {}]
              @@ users :> [gid |-> 100, members |-> {}]
              @@ [n \in Name |-> Absent]]

MCUserAdd(n, groups) ==
  [kind |-> "useradd", name |-> n, uid |-> NoId, primary |-> NoName,
   noUserGroup |-> FALSE, system |-> FALSE, groups |-> groups, home |-> TRUE]

MCSymmetry == Permutations(Proc)

MCOps ==
  {MCUserAdd(alice, {users}),
   [MCUserAdd(users, {}) EXCEPT !.noUserGroup = TRUE, !.system = TRUE],
   [MCUserAdd(root, {}) EXCEPT !.primary = users],
   [kind |-> "groupadd", name |-> alice, gid |-> NoId],
   [kind |-> "groupadd", name |-> bob, gid |-> 1000],
   [kind |-> "adduser", name |-> bob, group |-> users],
   [kind |-> "passwd", name |-> alice, hash |-> h1],
   [kind |-> "lock", name |-> alice],
   [kind |-> "unlock", name |-> bob],
   [kind |-> "delete", name |-> bob]}
=============================================================================
