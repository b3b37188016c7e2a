---------------------------- MODULE AddressLeases ----------------------------
(* What DHCP promises: an address is granted to one client, and a client   *)
(* uses an address only while it is the one it was granted to.             *)
CONSTANTS Client, Address, Nobody

VARIABLES
  holder, \* holder[a]: the client a was granted to
  used    \* used[c]: the addresses of c's interface

Init == holder = [a \in Address |-> Nobody] /\ used = [c \in Client |-> {}]

Grant(c, a) ==
  /\ holder[a] = Nobody /\ holder' = [holder EXCEPT ![a] = c]
  /\ UNCHANGED used

Use(c, a) ==
  /\ holder[a] = c /\ used' = [used EXCEPT ![c] = @ \cup {a}]
  /\ UNCHANGED holder

Next == \E c \in Client, a \in Address : Grant(c, a) \/ Use(c, a)

Spec == Init /\ [][Next]_<<holder, used>>
=============================================================================
