----------------------------- MODULE MCMoveFiles -----------------------------
(* Instances of MoveFiles small enough for TLC: a, b, t and u are on one   *)
(* device, d and far on another; b is a directory with two files, d an     *)
(* empty one, far is absent.                                               *)
EXTENDS MoveFiles, TLC

CONSTANTS a, b, t, u, d, far, c1, c2, p1, p2, d1, d2, d3, d4, d5

MCDevice == [n \in Name |-> IF n \in {d, far} THEN 2 ELSE 1]
MCInitial ==
  a :> [kind |-> "file", data |-> d1]
  @@ b :> [kind |-> "dir", files |-> c1 :> d2 @@ c2 :> d3]
  @@ t :> [kind |-> "file", data |-> d4]
  @@ u :> [kind |-> "file", data |-> d5]
  @@ d :> [kind |-> "dir", files |-> c1 :> Absent @@ c2 :> Absent]
  @@ [x \in Path |-> Absent]

Move(from, to) ==
  [source |-> from, target |-> to, force |-> FALSE, noClobber |-> FALSE,
   interactive |-> FALSE, update |-> FALSE, backup |-> "none"]

(* Two processes, a file and a directory that cross devices, a target that *)
(* is moved away while it is being written, and every kind of backup.      *)
MCCommands ==
  p1 :> {Move(a, t), [Move(a, t) EXCEPT !.force = TRUE], Move(a, far), Move(b, far),
         Move(b, d), [Move(t, u) EXCEPT !.update = TRUE],
         [Move(t, a) EXCEPT !.noClobber = TRUE],
         [Move(b, t) EXCEPT !.interactive = TRUE, !.backup = "simple"]}
        \cup {[Move(n, t) EXCEPT !.backup = m] :
                n \in {a, u}, m \in {"simple", "numbered", "existing"}}
  @@ p2 :> {Move(t, u), Move(a, u), Move(far, d)}

MCAcross == p1 :> {Move(b, far)}

ASSUME SeparateCommands == Separate
=============================================================================
