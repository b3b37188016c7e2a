----------------------------- MODULE DhcpClient -----------------------------
(***************************************************************************)
(* udhcpc of dhcp_linux.go: DISCOVER, OFFER, REQUEST and ACK over a link   *)
(* that loses, repeats, delays and reorders packets, then the              *)
(* configuration of the interface, the default route and resolv.conf.      *)
(* Clients run on hosts of one link; every reply is broadcast, so that     *)
(* each client sees the packets of the others.                             *)
(*                                                                         *)
(* The servers are not part of the program: they keep the lease of an      *)
(* address for the client it was granted to, and never end it.             *)
(***************************************************************************)
EXTENDS Integers, FiniteSets

CONSTANTS
  Client,   \* hosts that run udhcpc, named by their hardware address
  Server,   \* DHCP servers
  Address,  \* addresses the servers may lease
  Pool,     \* Pool[s]: the addresses of s
  Value,    \* gateways and lists of name servers
  Router,   \* Router[s]: the gateway s announces, or Nobody
  Resolver, \* Resolver[s]: the name servers s announces, or Nobody
  Xid,      \* transaction numbers, chosen at random
  Nobody,
  Attempts, \* -t
  MaxRuns,  \* bound: runs of all clients together
  MaxFail,  \* bound: failed system calls
  MaxKill   \* bound: killed clients

ASSUME ServerAssumption ==
  /\ Pool \in [Server -> SUBSET Address]
  /\ \A s, r \in Server : s # r => Pool[s] \cap Pool[r] = {}
  /\ Router \in [Server -> Value \cup {Nobody}]
  /\ Resolver \in [Server -> Value \cup {Nobody}]
  /\ Nobody \notin Client \cup Server \cup Address
ASSUME BoundAssumption ==
  /\ Attempts \in Nat \ {0}
  /\ MaxRuns \in Nat /\ MaxFail \in Nat /\ MaxKill \in Nat

(* hardware and xid are those of the client in both directions. *)
Packet == [type : {"discover", "offer", "request", "ack", "nak"}, hardware : Client,
           xid : Xid, server : Server \cup {Nobody}, address : Address \cup {Nobody}]

Message(type, hardware, x, server, address) ==
  [type |-> type, hardware |-> hardware, xid |-> x, server |-> server, address |-> address]

Places == {"off", "discover", "offer", "request", "reply",
           "address", "route", "resolver"}

VARIABLES
  wire,      \* packets sent: each may arrive at any time, or never
  holder,    \* holder[a]: the client the server of a granted it to
  at,        \* what each client does
  xid,       \* transactionID
  left,      \* attempts left, this one included
  lease,     \* the offer requested, then the lease acknowledged
  configure, \* clients run without --no-configure
  status,    \* how the last run ended
  addresses, \* addresses of the interface
  route,     \* gateway of the default route
  resolver,  \* contents of resolv.conf
  runs, fails, kills \* bounds

host == <<addresses, route, resolver>>
bounds == <<runs, fails, kills>>
session == <<xid, configure>>
vars == <<wire, holder, at, xid, left, lease, configure, status, host, bounds>>

NoLease == [server |-> Nobody, address |-> Nobody]
LeaseOf(p) == [server |-> p.server, address |-> p.address]

-----------------------------------------------------------------------------
(* acquireDHCPLease. *)

Goto(c, place) == at' = [at EXCEPT ![c] = place]
Exit(c, s) == Goto(c, "off") /\ status' = [status EXCEPT ![c] = s]

Begin(c) ==
  /\ at[c] = "off" /\ runs > 0 /\ runs' = runs - 1
  /\ \E x \in Xid : xid' = [xid EXCEPT ![c] = x]
  /\ configure' \in {configure \cup {c}, configure \ {c}}
  /\ Goto(c, "discover") /\ status' = [status EXCEPT ![c] = "running"]
  /\ left' = [left EXCEPT ![c] = Attempts] /\ lease' = [lease EXCEPT ![c] = NoLease]
  /\ UNCHANGED <<wire, holder, host, fails, kills>>

Send(c, type) ==
  wire' = wire \cup {Message(type, c, xid[c], lease[c].server, lease[c].address)}

SendDiscover(c) ==
  /\ at[c] = "discover"
  /\ wire' = wire \cup {Message("discover", c, xid[c], Nobody, Nobody)}
  /\ Goto(c, "offer")
  /\ UNCHANGED <<holder, left, lease, session, status, host, bounds>>

(* parseDHCPReply takes only replies to the transaction and the hardware.  *)
AnyHardware(c, p) == p.type \in {"offer", "ack", "nak"} /\ p.xid = xid[c]
IsReply(c, p) ==
  p.type \in {"offer", "ack", "nak"} /\ p.xid = xid[c] /\ p.hardware = c

(* readDHCPReply passes over replies of the other types. *)
ReceiveOffer(c) ==
  /\ at[c] = "offer" /\ Goto(c, "request")
  /\ \E p \in wire : /\ IsReply(c, p) /\ p.type = "offer"
                     /\ lease' = [lease EXCEPT ![c] = LeaseOf(p)]
  /\ UNCHANGED <<wire, holder, left, session, status, host, bounds>>

SendRequest(c) ==
  /\ at[c] = "request" /\ Send(c, "request") /\ Goto(c, "reply")
  /\ UNCHANGED <<holder, left, lease, session, status, host, bounds>>

NextAttempt(c) ==
  IF left[c] > 1
  THEN left' = [left EXCEPT ![c] = @ - 1] /\ Goto(c, "discover") /\ UNCHANGED status
  ELSE Exit(c, "noLease") /\ UNCHANGED left

SameAttempt(c) == Goto(c, "discover") /\ UNCHANGED <<left, status>>

OfferTaken(c) ==
  /\ at[c] = "reply"
  /\ \E p \in wire :
       /\ IsReply(c, p) /\ p.type # "nak" /\ lease' = [lease EXCEPT ![c] = LeaseOf(p)]
       /\ IF c \in configure THEN Goto(c, "address") /\ UNCHANGED status ELSE Exit(c, "ok")
  /\ UNCHANGED <<wire, holder, left, session, host, bounds>>

(* The reply to a request is the next of any type: one that is not an ACK  *)
(* ends the attempt.                                                       *)
ReceiveReply(c) ==
  /\ at[c] = "reply"
  /\ \E p \in wire :
       /\ IsReply(c, p)
       /\ \/ /\ p.type = "ack" /\ lease' = [lease EXCEPT ![c] = LeaseOf(p)]
             /\ IF c \in configure THEN Goto(c, "address") /\ UNCHANGED status
                ELSE Exit(c, "ok")
             /\ UNCHANGED left
          \/ p.type \in {"nak", "offer"} /\ NextAttempt(c) /\ UNCHANGED lease
  /\ UNCHANGED <<wire, holder, session, host, bounds>>

TimeoutRepeats(c) ==
  /\ at[c] \in {"offer", "reply"} /\ SameAttempt(c)
  /\ UNCHANGED <<wire, holder, lease, session, host, bounds>>

Timeout(c) ==
  /\ at[c] \in {"offer", "reply"} /\ NextAttempt(c)
  /\ UNCHANGED <<wire, holder, lease, session, host, bounds>>

-----------------------------------------------------------------------------
(* configureDHCPLease: the address and the route are added with NLM_F_EXCL *)
(* and resolv.conf is replaced by a rename.                                *)

AddAddress(c) ==
  /\ at[c] = "address"
  /\ IF lease[c].address \in addresses[c]
     THEN Exit(c, "failed") /\ UNCHANGED addresses
     ELSE /\ addresses' = [addresses EXCEPT ![c] = @ \cup {lease[c].address}]
          /\ Goto(c, "route") /\ UNCHANGED status
  /\ UNCHANGED <<wire, holder, left, lease, session, route, resolver, bounds>>

RouteErrorIgnored(c) ==
  LET gateway == Router[lease[c].server] IN
  /\ at[c] = "route" /\ Goto(c, "resolver")
  /\ IF gateway # Nobody /\ route[c] = Nobody
     THEN route' = [route EXCEPT ![c] = gateway] ELSE UNCHANGED route
  /\ UNCHANGED <<wire, holder, left, lease, session, status, addresses, resolver, bounds>>

AddRoute(c) ==
  LET gateway == Router[lease[c].server] IN
  /\ at[c] = "route"
  /\ \/ gateway = Nobody /\ Goto(c, "resolver") /\ UNCHANGED <<route, status>>
     \/ /\ gateway # Nobody /\ route[c] = Nobody /\ Goto(c, "resolver")
        /\ route' = [route EXCEPT ![c] = gateway] /\ UNCHANGED status
     \/ /\ gateway # Nobody /\ route[c] # Nobody
        /\ Exit(c, "failed") /\ UNCHANGED route
  /\ UNCHANGED <<wire, holder, left, lease, session, addresses, resolver, bounds>>

ReplaceResolver(c) ==
  LET content == Resolver[lease[c].server] IN
  /\ at[c] = "resolver" /\ Exit(c, "ok")
  /\ resolver' = IF content = Nobody THEN resolver
                 ELSE [resolver EXCEPT ![c] = content]
  /\ UNCHANGED <<wire, holder, left, lease, session, addresses, route, bounds>>

(* A packet that cannot be sent, a read that fails other than by its       *)
(* deadline, a refused netlink request, a full disk.                       *)
CallFails(c) ==
  /\ at[c] # "off"
  /\ fails > 0 /\ fails' = fails - 1 /\ Exit(c, "failed")
  /\ UNCHANGED <<wire, holder, left, lease, session, host, runs, kills>>

Kill(c) ==
  /\ at[c] # "off" /\ kills > 0 /\ kills' = kills - 1 /\ Exit(c, "killed")
  /\ UNCHANGED <<wire, holder, left, lease, session, host, runs, fails>>

-----------------------------------------------------------------------------
(* The servers. *)

Answer(p, type, s, a) ==
  wire' = wire \cup {Message(type, p.hardware, p.xid, s, a)}

OfferAddress(s) ==
  /\ \E p \in wire, a \in Pool[s] :
       /\ p.type = "discover" /\ holder[a] \in {Nobody, p.hardware}
       /\ Answer(p, "offer", s, a)
  /\ UNCHANGED <<holder, at, left, lease, session, status, host, bounds>>

AnswerRequest(s) ==
  /\ \E p \in wire :
       /\ p.type = "request" /\ p.server = s
       /\ IF holder[p.address] \in {Nobody, p.hardware}
          THEN /\ holder' = [holder EXCEPT ![p.address] = p.hardware]
               /\ Answer(p, "ack", s, p.address)
          ELSE Answer(p, "nak", s, p.address) /\ UNCHANGED holder
  /\ UNCHANGED <<at, left, lease, session, status, host, bounds>>

-----------------------------------------------------------------------------
Init ==
  /\ wire = {} /\ holder = [a \in Address |-> Nobody]
  /\ at = [c \in Client |-> "off"] /\ xid \in [Client -> Xid]
  /\ left = [c \in Client |-> 0] /\ lease = [c \in Client |-> NoLease]
  /\ configure = {} /\ status = [c \in Client |-> "none"]
  /\ addresses = [c \in Client |-> {}] /\ route = [c \in Client |-> Nobody]
  /\ resolver = [c \in Client |-> Nobody]
  /\ runs = MaxRuns /\ fails = MaxFail /\ kills = MaxKill

Exchange(c) ==
  SendDiscover(c) \/ ReceiveOffer(c) \/ SendRequest(c) \/ ReceiveReply(c) \/ Timeout(c)
Configure(c) == AddAddress(c) \/ AddRoute(c) \/ ReplaceResolver(c)

Next ==
  \/ \E c \in Client :
       Begin(c) \/ Exchange(c) \/ Configure(c) \/ CallFails(c) \/ Kill(c)
  \/ \E s \in Server : OfferAddress(s) \/ AnswerRequest(s)

(* A process that can take a step does: every read has a deadline.         *)
Fairness == \A c \in Client : WF_vars(Exchange(c) \/ Configure(c))

Spec == Init /\ [][Next]_vars /\ Fairness

-----------------------------------------------------------------------------
(* Properties. *)

Lease == [server : Server \cup {Nobody}, address : Address \cup {Nobody}]

(* The shape of the state; what a client requests or configures names a    *)
(* server and an address of its pool.                                      *)
TypeOK ==
  /\ wire \subseteq Packet
  /\ holder \in [Address -> Client \cup {Nobody}]
  /\ at \in [Client -> Places] /\ xid \in [Client -> Xid]
  /\ left \in [Client -> 0 .. Attempts] /\ lease \in [Client -> Lease]
  /\ configure \subseteq Client
  /\ status \in [Client -> {"none", "running", "ok", "failed", "noLease", "killed"}]
  /\ addresses \in [Client -> SUBSET Address]
  /\ route \in [Client -> Value \cup {Nobody}]
  /\ resolver \in [Client -> Value \cup {Nobody}]
  /\ runs \in Nat /\ fails \in Nat /\ kills \in Nat
  /\ \A p \in wire : p.type # "discover" =>
       p.server \in Server /\ p.address \in Pool[p.server]
  /\ \A c \in Client : at[c] \in {"request", "reply", "address", "route", "resolver"} =>
       lease[c].server \in Server /\ lease[c].address \in Pool[lease[c].server]

(* No two hosts of the link get the same address, whatever packets they    *)
(* hear of one another (the checks of parseDHCPReply).                     *)
Exclusive ==
  \A c, d \in Client : c # d => addresses[c] \cap addresses[d] = {}

(* An address is configured only once its server has granted it to this    *)
(* host: an OFFER or a lost REQUEST is not enough.                         *)
Leases == INSTANCE AddressLeases WITH used <- addresses
LeaseSpec == Leases!Spec

(* Status 0 says that all of the lease is in force: the address, the       *)
(* default route and the name servers (help.go, "udhcpc").                 *)
SuccessConfigured ==
  \A c \in Client : status[c] = "ok" /\ c \in configure =>
    LET l == lease[c] IN
    /\ l.address \in addresses[c]
    /\ Router[l.server] # Nobody => route[c] = Router[l.server]
    /\ Resolver[l.server] # Nobody => resolver[c] = Resolver[l.server]

(* Whatever arrives, udhcpc ends: every read has a deadline and every      *)
(* repetition uses up an attempt.                                          *)
Terminates == \A c \in Client : at[c] # "off" ~> at[c] = "off"
=============================================================================
