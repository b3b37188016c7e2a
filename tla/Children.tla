------------------------------ MODULE Children ------------------------------
(* The processes a command of ba6 starts, as the kernel keeps them: what   *)
(* Runners and Xargs share.  A child runs, ends (a zombie with its status) *)
(* and is waited for.                                                      *)
EXTENDS Integers, Sequences, FiniteSets

CONSTANTS MaxChild   \* bound: the children one command may have

ASSUME MaxChildAssumption == MaxChild \in Nat \ {0}

VARIABLES
  tool,     \* the command that runs
  pc,       \* where it is; "end" when it has exited
  child,    \* "none", "running", "zombie" or "gone", per child
  result,   \* the wait status of a child that has ended
  sent,     \* the signals it has been sent
  status    \* the exit status of the command, -1 before it exits

kernel == <<child, result, sent>>

Child == 1 .. MaxChild
InState(s) == {c \in Child : child[c] = s}
Alive == InState("running")

(* A wait status is an exit status, or minus the number of a signal. *)
Number == [HUP |-> 1, INT |-> 2, KILL |-> 9, TERM |-> 15]
Caught == {"HUP", "INT", "TERM"}

NoChildren ==
  /\ child = [c \in Child |-> "none"]
  /\ result = [c \in Child |-> 0]
  /\ sent = [c \in Child |-> {}]

Started(c) == child' = [child EXCEPT ![c] = "running"]
Reaped(S) == child' = [c \in Child |-> IF c \in S THEN "gone" ELSE child[c]]

(* kill(2) on every process of S that is there. *)
Signalled(S, sig) ==
  sent' = [c \in Child |-> IF c \in S /\ child[c] = "running"
                             THEN sent[c] \cup {sig} ELSE sent[c]]

Ends(c, r) ==
  /\ child[c] = "running"
  /\ child' = [child EXCEPT ![c] = "zombie"]
  /\ result' = [result EXCEPT ![c] = r]

(* A child exits by itself, or dies of a signal: of SIGKILL always, of     *)
(* another unless it ignores it.                                           *)
ChildExits(c) == \E r \in {0, 1} : Ends(c, r) /\ UNCHANGED sent
ChildDies(c) == \E s \in sent[c] : Ends(c, -Number[s]) /\ UNCHANGED sent
ChildKilled(c) == "KILL" \in sent[c] /\ Ends(c, -Number["KILL"]) /\ UNCHANGED sent
=============================================================================
