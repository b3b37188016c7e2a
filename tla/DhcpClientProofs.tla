-------------------------- MODULE DhcpClientProofs --------------------------
(* The safety of DhcpClient for any hosts, servers and pools.              *)
(*                                                                         *)
(* An ACK on the wire tells the truth because a lease never ends (Granted, *)
(* first part); a client configures only what an ACK told it (the rest).   *)
EXTENDS DhcpClient, TLAPS

Granted ==
  /\ \A p \in wire : p.type = "ack" => holder[p.address] = p.hardware
  /\ \A c \in Client : at[c] = "address" => holder[lease[c].address] = c
  /\ \A c \in Client : \A a \in addresses[c] : holder[a] = c

(* How far the configuration has come, by the place of the client.         *)
Configured ==
  \A c \in Client :
    /\ at[c] # "off" => status[c] = "running"
    /\ at[c] \in {"route", "resolver"} => lease[c].address \in addresses[c]
    /\ at[c] = "resolver" /\ Router[lease[c].server] # Nobody
         => route[c] = Router[lease[c].server]

IInv == TypeOK /\ Granted

LEMMA InitTyped == Init => TypeOK /\ Granted /\ Configured /\ SuccessConfigured
  BY ServerAssumption, BoundAssumption
     DEF Init, TypeOK, Granted, Configured, SuccessConfigured, Places, Lease, NoLease, Packet

LEMMA MessageFields ==
  ASSUME NEW t \in {"discover", "offer", "request", "ack", "nak"}, NEW c \in Client,
         NEW x \in Xid, NEW s \in Server \cup {Nobody}, NEW a \in Address \cup {Nobody}
  PROVE  LET p == Message(t, c, x, s, a) IN
         p \in Packet /\ p.type = t /\ p.hardware = c /\ p.server = s /\ p.address = a
  BY DEF Message, Packet

LEMMA PacketFields ==
  ASSUME NEW p \in Packet
  PROVE  p.hardware \in Client /\ p.xid \in Xid /\ LeaseOf(p) \in Lease
         /\ LeaseOf(p).server = p.server /\ LeaseOf(p).address = p.address
  BY DEF Packet, LeaseOf, Lease

LEMMA OnTheWire ==
  ASSUME TypeOK, NEW p \in wire, p.type # "discover"
  PROVE  p.server \in Server /\ p.address \in Pool[p.server] /\ p.address \in Address
         /\ p.hardware \in Client
<1>1. p.server \in Server /\ p.address \in Pool[p.server] /\ p \in Packet
  BY DEF TypeOK
<1>2. Pool[p.server] \subseteq Address
  BY <1>1, ServerAssumption
<1> QED
  BY <1>1, <1>2, PacketFields

(* A step keeps the types, action by action. *)
LEMMA TypingStep == TypeOK /\ [Next]_vars => TypeOK'
<1> SUFFICES ASSUME TypeOK, [Next]_vars PROVE TypeOK'
  OBVIOUS
<1> USE ServerAssumption, BoundAssumption DEF TypeOK, host, bounds, session, Goto, Exit
<1>1. ASSUME NEW c \in Client, Begin(c) PROVE TypeOK'
  BY <1>1 DEF Begin, Places, NoLease, Lease
<1>2. ASSUME NEW c \in Client, SendDiscover(c) PROVE TypeOK'
  <2> PICK p : p = Message("discover", c, xid[c], Nobody, Nobody)
    OBVIOUS
  <2>1. p \in Packet /\ p.type = "discover"
    BY MessageFields
  <2> QED
    BY <1>2, <2>1 DEF SendDiscover, Places
<1>3. ASSUME NEW c \in Client, ReceiveOffer(c) PROVE TypeOK'
  <2> PICK p \in wire : p.type = "offer"
                        /\ lease' = [lease EXCEPT ![c] = LeaseOf(p)]
    BY <1>3 DEF ReceiveOffer
  <2>1. LeaseOf(p) \in Lease /\ LeaseOf(p).server \in Server
        /\ LeaseOf(p).address \in Pool[LeaseOf(p).server]
    BY PacketFields
  <2>3. /\ lease' \in [Client -> Lease] /\ at' \in [Client -> Places]
        /\ lease'[c].server \in Server /\ lease'[c].address \in Pool[lease'[c].server]
    BY <1>3, <2>1 DEF ReceiveOffer, Places
  <2>4. \A d \in Client \ {c} : at'[d] = at[d] /\ lease'[d] = lease[d]
    BY <1>3 DEF ReceiveOffer
  <2> QED
    BY <1>3, <2>3, <2>4 DEF ReceiveOffer
<1>4. ASSUME NEW c \in Client, SendRequest(c) PROVE TypeOK'
  <2> PICK p : p = Message("request", c, xid[c], lease[c].server, lease[c].address)
    OBVIOUS
  <2>1. p \in Packet /\ p.server \in Server /\ p.address \in Pool[p.server]
    BY <1>4, MessageFields DEF SendRequest
  <2>2. wire' = wire \cup {p}
    BY <1>4 DEF SendRequest, Send
  <2> QED
    BY <1>4, <2>1, <2>2 DEF SendRequest, Places
<1>5. ASSUME NEW c \in Client, ReceiveReply(c) PROVE TypeOK'
  <2>0. PICK p \in wire :
          \/ /\ p.type = "ack" /\ lease' = [lease EXCEPT ![c] = LeaseOf(p)]
             /\ IF c \in configure THEN Goto(c, "address") /\ UNCHANGED status
                ELSE Exit(c, "ok")
             /\ UNCHANGED left
          \/ p.type \in {"nak", "offer"} /\ NextAttempt(c) /\ UNCHANGED lease
    BY <1>5 DEF ReceiveReply
  <2>f. UNCHANGED <<wire, holder, session, host, bounds>>
    BY <1>5 DEF ReceiveReply
  <2>2. CASE p.type = "ack"
    <3>1. LeaseOf(p) \in Lease /\ LeaseOf(p).server \in Server
          /\ LeaseOf(p).address \in Pool[LeaseOf(p).server]
      BY <2>2, PacketFields
    <3>2. /\ lease' \in [Client -> Lease] /\ at' \in [Client -> Places]
          /\ lease'[c].server \in Server /\ lease'[c].address \in Pool[lease'[c].server]
      BY <2>0, <2>2, <3>1 DEF Places
    <3>3. \A d \in Client \ {c} : at'[d] = at[d] /\ lease'[d] = lease[d]
      BY <2>0, <2>2
    <3>4. left' = left
      BY <2>0, <2>2
    <3>5. status' \in [Client -> {"none", "running", "ok", "failed", "noLease", "killed"}]
      BY <2>0, <2>2
    <3> QED
      BY <2>f, <3>2, <3>3, <3>4, <3>5
  <2>3. CASE p.type # "ack"
    <3>2. left' \in [Client -> 0 .. Attempts]
      BY <2>0, <2>3 DEF NextAttempt
    <3>3. lease' = lease /\ NextAttempt(c)
      BY <2>0, <2>3
    <3>4. /\ at' \in [Client -> Places]
          /\ status' \in [Client -> {"none", "running", "ok", "failed", "noLease", "killed"}]
          /\ \A d \in Client : at'[d] \in {"request", "reply", "address", "route", "resolver"}
                => at'[d] = at[d]
      BY <3>3 DEF Places, NextAttempt
    <3> QED
      BY <2>f, <3>2, <3>3, <3>4
  <2> QED
    BY <2>2, <2>3
<1>6. ASSUME NEW c \in Client, Timeout(c) PROVE TypeOK'
  <2>1. left' \in [Client -> 0 .. Attempts]
    BY <1>6 DEF Timeout, NextAttempt
  <2> QED
    BY <1>6, <2>1 DEF Timeout, Places, NextAttempt
<1>7. ASSUME NEW c \in Client, AddAddress(c) PROVE TypeOK'
  <2>1. lease[c].address \in Address
    BY <1>7 DEF AddAddress
  <2> QED
    BY <1>7, <2>1 DEF AddAddress, Places
<1>8. ASSUME NEW c \in Client, AddRoute(c) PROVE TypeOK'
  <2>1. Router[lease[c].server] \in Value \cup {Nobody}
    BY <1>8 DEF AddRoute
  <2>2. route' \in [Client -> Value \cup {Nobody}]
    BY <1>8, <2>1 DEF AddRoute
  <2> QED
    BY <1>8, <2>2 DEF AddRoute, Places
<1>9. ASSUME NEW c \in Client, ReplaceResolver(c) PROVE TypeOK'
  BY <1>9 DEF ReplaceResolver, Places
<1>10. ASSUME NEW c \in Client, CallFails(c) PROVE TypeOK'
  BY <1>10 DEF CallFails, Places
<1>11. ASSUME NEW c \in Client, Kill(c) PROVE TypeOK'
  BY <1>11 DEF Kill, Places
<1>12. ASSUME NEW s \in Server, OfferAddress(s) PROVE TypeOK'
  <2> PICK p \in wire, a \in Pool[s] :
        wire' = wire \cup {Message("offer", p.hardware, p.xid, s, a)}
    BY <1>12 DEF OfferAddress, Answer
  <2> PICK q : q = Message("offer", p.hardware, p.xid, s, a)
    OBVIOUS
  <2>1. q \in Packet /\ q.server \in Server /\ q.address \in Pool[q.server]
    BY PacketFields, MessageFields
  <2> QED
    BY <1>12, <2>1 DEF OfferAddress
<1>13. ASSUME NEW s \in Server, AnswerRequest(s) PROVE TypeOK'
  <2> PICK p \in wire :
        /\ p.type = "request" /\ p.server = s
        /\ IF holder[p.address] \in {Nobody, p.hardware}
           THEN /\ holder' = [holder EXCEPT ![p.address] = p.hardware]
                /\ Answer(p, "ack", s, p.address)
           ELSE Answer(p, "nak", s, p.address) /\ UNCHANGED holder
    BY <1>13 DEF AnswerRequest
  <2>1. PICK t \in {"ack", "nak"} :
          wire' = wire \cup {Message(t, p.hardware, p.xid, s, p.address)}
    BY DEF Answer
  <2> PICK q : q = Message(t, p.hardware, p.xid, s, p.address)
    OBVIOUS
  <2>2. q \in Packet /\ q.server \in Server /\ q.address \in Pool[q.server]
    BY OnTheWire, PacketFields, MessageFields
  <2>3. holder' \in [Address -> Client \cup {Nobody}]
    BY PacketFields
  <2>4. UNCHANGED <<at, left, lease, session, status, host, bounds>>
    BY <1>13 DEF AnswerRequest
  <2>5. wire' \subseteq Packet
        /\ \A r \in wire' : r.type # "discover" => r.server \in Server /\ r.address \in Pool[r.server]
    BY <2>1, <2>2, <2>4
  <2> QED
    BY <2>3, <2>4, <2>5
<1>14. CASE UNCHANGED vars
  BY <1>14 DEF vars
<1> QED
  BY <1>1, <1>2, <1>3, <1>4, <1>5, <1>6, <1>7, <1>8, <1>9, <1>10, <1>11, <1>12, <1>13, <1>14
     DEF Next, Exchange, Configure

(* A lease never ends, so that what an ACK said stays true. *)
LEMMA HolderStays ==
  ASSUME TypeOK, [Next]_vars, NEW a \in Address, NEW c \in Client, holder[a] = c
  PROVE  holder'[a] = c
<1>1. ASSUME NEW s \in Server, AnswerRequest(s) PROVE holder'[a] = c
  <2> PICK p \in wire : holder' = holder \/ (holder[p.address] \in {Nobody, p.hardware}
                        /\ holder' = [holder EXCEPT ![p.address] = p.hardware])
    BY <1>1 DEF AnswerRequest
  <2> QED
    BY ServerAssumption DEF TypeOK
<1>2. CASE UNCHANGED holder
  BY <1>2
<1> QED
  BY <1>1, <1>2 DEF Next, vars, Begin, Exchange, Configure, SendDiscover, ReceiveOffer,
     SendRequest, ReceiveReply, Timeout, AddAddress, AddRoute, ReplaceResolver,
     CallFails, Kill, OfferAddress

(* A new packet that is an ACK is that of AnswerRequest. *)
LEMMA AckStep ==
  ASSUME TypeOK, TypeOK', Granted, [Next]_vars,
         NEW p \in wire', p.type = "ack"
  PROVE  holder'[p.address] = p.hardware
<1>1. CASE p \in wire
  <2>1. p.address \in Address /\ p.hardware \in Client
    BY <1>1, ServerAssumption, PacketFields DEF TypeOK
  <2> QED
    BY <1>1, <2>1, HolderStays DEF Granted
<1>2. CASE p \notin wire
  <2>1. ASSUME NEW c \in Client, SendDiscover(c) PROVE FALSE
    BY <1>2, <2>1 DEF SendDiscover, Message
  <2>2. ASSUME NEW c \in Client, SendRequest(c) PROVE FALSE
    BY <1>2, <2>2 DEF SendRequest, Send, Message
  <2>3. ASSUME NEW s \in Server, OfferAddress(s) PROVE FALSE
    BY <1>2, <2>3 DEF OfferAddress, Answer, Message
  <2>4. ASSUME NEW s \in Server, AnswerRequest(s) PROVE holder'[p.address] = p.hardware
    <3> PICK q \in wire :
          /\ q.type = "request" /\ q.server = s
          /\ IF holder[q.address] \in {Nobody, q.hardware}
             THEN /\ holder' = [holder EXCEPT ![q.address] = q.hardware]
                  /\ Answer(q, "ack", s, q.address)
             ELSE Answer(q, "nak", s, q.address) /\ UNCHANGED holder
      BY <2>4 DEF AnswerRequest
    <3>1. p = Message("ack", q.hardware, q.xid, s, q.address)
          /\ holder' = [holder EXCEPT ![q.address] = q.hardware]
      BY <1>2 DEF Answer, Message
    <3>2. p.address = q.address /\ p.hardware = q.hardware
      BY <3>1 DEF Message
    <3>3. q.address \in Address
      BY ServerAssumption DEF TypeOK
    <3> QED
      BY <3>1, <3>2, <3>3 DEF TypeOK
  <2>5. wire' = wire \/ (\E c \in Client : SendDiscover(c) \/ SendRequest(c))
        \/ (\E s \in Server : OfferAddress(s) \/ AnswerRequest(s))
    BY DEF Next, vars, Begin, Exchange, Configure, ReceiveOffer, ReceiveReply,
       Timeout, AddAddress, AddRoute, ReplaceResolver, CallFails, Kill
  <2> QED
    BY <1>2, <2>1, <2>2, <2>3, <2>4, <2>5
<1> QED
  BY <1>1, <1>2

LEMMA GrantedStep == TypeOK /\ TypeOK' /\ Granted /\ [Next]_vars => Granted'
<1> SUFFICES ASSUME TypeOK, TypeOK', Granted, [Next]_vars PROVE Granted'
  OBVIOUS
<1>1. \A p \in wire' : p.type = "ack" => holder'[p.address] = p.hardware
  BY AckStep
<1>2. ASSUME NEW c \in Client, at'[c] = "address" PROVE holder'[lease'[c].address] = c
  <2>1. CASE at[c] = "address" /\ lease'[c] = lease[c]
    <3>1. lease[c].address \in Address
      BY <2>1, ServerAssumption DEF TypeOK
    <3> QED
      BY <2>1, <3>1, HolderStays DEF Granted
  <2>2. ASSUME ReceiveReply(c) PROVE holder'[lease'[c].address] = c
    <3> PICK p \in wire : IsReply(c, p) /\ p.type = "ack"
                          /\ lease' = [lease EXCEPT ![c] = LeaseOf(p)]
      <4>1. ASSUME NextAttempt(c) PROVE FALSE
        BY <1>2, <4>1 DEF NextAttempt, Goto, Exit, TypeOK
      <4>2. PICK p \in wire : /\ IsReply(c, p)
                             /\ \/ p.type = "ack" /\ lease' = [lease EXCEPT ![c] = LeaseOf(p)]
                                \/ NextAttempt(c)
        BY <2>2, Zenon DEF ReceiveReply
      <4> QED
        BY <4>1, <4>2
    <3>1. lease'[c].address = p.address /\ p.hardware = c
      BY PacketFields DEF IsReply, TypeOK
    <3>2. holder[p.address] = c /\ p.address \in Address
      BY <3>1, OnTheWire DEF Granted
    <3> QED
      BY <3>1, <3>2, HolderStays
  <2>3. (at[c] = "address" /\ lease'[c] = lease[c]) \/ ReceiveReply(c)
    BY <1>2 DEF TypeOK, Next, vars, Begin, Exchange, Configure, SendDiscover, ReceiveOffer,
       SendRequest, ReceiveReply, Timeout, AddAddress, AddRoute, ReplaceResolver,
       CallFails, Kill, OfferAddress, AnswerRequest, Goto, Exit, NextAttempt
  <2> QED
    BY <2>1, <2>2, <2>3
<1>3. ASSUME NEW c \in Client, NEW a \in addresses'[c] PROVE holder'[a] = c
  <2>1. CASE a \in addresses[c]
    BY <2>1, HolderStays DEF Granted, TypeOK
  <2>2. ASSUME AddAddress(c), a = lease[c].address PROVE holder'[a] = c
    BY <2>2, HolderStays DEF AddAddress, Granted, TypeOK
  <2>3. a \in addresses[c] \/ (AddAddress(c) /\ a = lease[c].address)
    BY <1>3 DEF TypeOK, Next, vars, host, Begin, Exchange, Configure, SendDiscover,
       ReceiveOffer, SendRequest, ReceiveReply, Timeout, AddAddress, AddRoute,
       ReplaceResolver, CallFails, Kill, OfferAddress, AnswerRequest
  <2> QED
    BY <2>1, <2>2, <2>3
<1> QED
  BY <1>1, <1>2, <1>3 DEF Granted

-----------------------------------------------------------------------------
(* The packets and the places of a client are well formed at every moment. *)
THEOREM WellFormed == Spec => []TypeOK
<1>1. Init => TypeOK
  BY InitTyped
<1> QED
  BY <1>1, TypingStep, PTL DEF Spec

LEMMA AlwaysGranted == Spec => []IInv
<1>1. Init => IInv
  BY InitTyped DEF IInv
<1>2. IInv /\ [Next]_vars => IInv'
  BY TypingStep, GrantedStep DEF IInv
<1> QED
  BY <1>1, <1>2, PTL DEF Spec

(* However packets are lost, repeated and reordered, and whatever each     *)
(* client hears of the others, no two hosts configure the same address.    *)
THEOREM NeverShared == Spec => []Exclusive
<1>1. IInv => Exclusive
  BY DEF IInv, TypeOK, Granted, Exclusive
<1> QED
  BY <1>1, AlwaysGranted, PTL

(* udhcpc implements the promise of AddressLeases: a host configures an    *)
(* address only once the server has granted it to this host.               *)
THEOREM ImplementsLeases == Spec => LeaseSpec
<1>1. Init => Leases!Init
  BY DEF Init, Leases!Init
<1>2. IInv /\ IInv' /\ [Next]_vars => [Leases!Next]_<<holder, addresses>>
  <2> SUFFICES ASSUME IInv, IInv', [Next]_vars
               PROVE  Leases!Next \/ UNCHANGED <<holder, addresses>>
    OBVIOUS
  <2> USE DEF IInv
  <2>1. ASSUME NEW c \in Client, AddAddress(c) PROVE Leases!Next \/ UNCHANGED <<holder, addresses>>
    <3>1. CASE lease[c].address \in addresses[c]
      BY <2>1, <3>1 DEF AddAddress
    <3>2. CASE lease[c].address \notin addresses[c]
      <4>1. lease[c].address \in Address /\ holder[lease[c].address] = c
        BY <2>1, ServerAssumption DEF AddAddress, TypeOK, Granted
      <4> QED
        BY <2>1, <3>2, <4>1 DEF AddAddress, Leases!Next, Leases!Use
    <3> QED
      BY <3>1, <3>2
  <2>2. ASSUME NEW s \in Server, AnswerRequest(s) PROVE Leases!Next \/ UNCHANGED <<holder, addresses>>
    <3> PICK p \in wire :
          /\ p.type = "request"
          /\ \/ holder[p.address] \in {Nobody, p.hardware}
                /\ holder' = [holder EXCEPT ![p.address] = p.hardware]
             \/ UNCHANGED holder
      BY <2>2 DEF AnswerRequest
    <3>1. p.address \in Address /\ p.hardware \in Client
      BY ServerAssumption, PacketFields DEF TypeOK
    <3>2. UNCHANGED addresses
      BY <2>2 DEF AnswerRequest, host
    <3>3. CASE holder' = holder
      BY <3>2, <3>3
    <3>4. CASE holder' # holder
      <4>1. holder[p.address] = Nobody /\ holder' = [holder EXCEPT ![p.address] = p.hardware]
        BY <3>1, <3>4 DEF TypeOK
      <4> QED
        BY <3>1, <3>2, <4>1 DEF Leases!Next, Leases!Grant
    <3> QED
      BY <3>3, <3>4
  <2>3. UNCHANGED <<holder, addresses>> \/ (\E c \in Client : AddAddress(c))
        \/ (\E s \in Server : AnswerRequest(s))
    BY DEF Next, vars, host, Begin, Exchange, Configure, SendDiscover, ReceiveOffer,
       SendRequest, ReceiveReply, Timeout, AddRoute, ReplaceResolver, CallFails, Kill,
       OfferAddress
  <2> QED
    BY <2>1, <2>2, <2>3
<1> QED
  BY <1>1, <1>2, AlwaysGranted, PTL DEF Spec, LeaseSpec, Leases!Spec

-----------------------------------------------------------------------------
(* A client that is at work has not succeeded yet, and the steps of the    *)
(* configuration follow one another: this is Configured.                   *)
LEMMA ConfiguredStep ==
  TypeOK /\ Configured /\ SuccessConfigured /\ [Next]_vars
    => Configured' /\ SuccessConfigured'
<1> SUFFICES ASSUME TypeOK, Configured, SuccessConfigured, [Next]_vars
             PROVE  Configured' /\ SuccessConfigured'
  OBVIOUS
<1> DEFINE Same(c) == /\ at'[c] = at[c] /\ status'[c] = status[c] /\ lease'[c] = lease[c]
                      /\ addresses'[c] = addresses[c] /\ route'[c] = route[c]
                      /\ resolver'[c] = resolver[c] /\ (c \in configure' <=> c \in configure)
           Good(c) == /\ at[c] # "off" => status[c] = "running"
                      /\ at[c] \in {"route", "resolver"} => lease[c].address \in addresses[c]
                      /\ at[c] = "resolver" /\ Router[lease[c].server] # Nobody
                           => route[c] = Router[lease[c].server]
                      /\ status[c] = "ok" /\ c \in configure =>
                           /\ lease[c].address \in addresses[c]
                           /\ Router[lease[c].server] # Nobody => route[c] = Router[lease[c].server]
                           /\ Resolver[lease[c].server] # Nobody
                                => resolver[c] = Resolver[lease[c].server]
<1>1. \A c \in Client : Good(c)
  BY DEF Configured, SuccessConfigured
<1>2. ASSUME NEW c \in Client, Same(c) PROVE Good(c)'
  BY <1>1, <1>2
<1> HIDE DEF Good, Same
<1>3. ASSUME NEW c \in Client, Begin(c) PROVE \A d \in Client : Same(d) \/ Good(d)'
  BY <1>3 DEF Same, Good, Begin, Goto, host, TypeOK
<1>4. ASSUME NEW c \in Client, SendDiscover(c) \/ ReceiveOffer(c) \/ SendRequest(c)
      PROVE  \A d \in Client : Same(d) \/ Good(d)'
  BY <1>1, <1>4 DEF Same, Good, SendDiscover, ReceiveOffer, SendRequest, Goto, host, session, TypeOK
<1>5. ASSUME NEW c \in Client, ReceiveReply(c) PROVE \A d \in Client : Same(d) \/ Good(d)'
  BY <1>1, <1>5 DEF Same, Good, ReceiveReply, NextAttempt, Exit, Goto, host, session, TypeOK
<1>6. ASSUME NEW c \in Client, Timeout(c) PROVE \A d \in Client : Same(d) \/ Good(d)'
  BY <1>1, <1>6 DEF Same, Good, Timeout, NextAttempt, Exit, Goto, host, session, TypeOK
<1>7. ASSUME NEW c \in Client, AddAddress(c) PROVE \A d \in Client : Same(d) \/ Good(d)'
  BY <1>1, <1>7 DEF Same, Good, AddAddress, Exit, Goto, session, TypeOK
<1>8. ASSUME NEW c \in Client, AddRoute(c) PROVE \A d \in Client : Same(d) \/ Good(d)'
  BY <1>1, <1>8 DEF Same, Good, AddRoute, Exit, Goto, session, TypeOK
<1>9. ASSUME NEW c \in Client, ReplaceResolver(c) PROVE \A d \in Client : Same(d) \/ Good(d)'
  BY <1>1, <1>9 DEF Same, Good, ReplaceResolver, Exit, Goto, session, TypeOK
<1>10. ASSUME NEW c \in Client, CallFails(c) \/ Kill(c)
       PROVE  \A d \in Client : Same(d) \/ Good(d)'
  BY <1>1, <1>10 DEF Same, Good, CallFails, Kill, Exit, Goto, host, session, TypeOK
<1>11. ASSUME NEW s \in Server, OfferAddress(s) \/ AnswerRequest(s)
       PROVE  \A d \in Client : Same(d) \/ Good(d)'
  BY <1>11 DEF Same, OfferAddress, AnswerRequest, host, session
<1>12. ASSUME UNCHANGED vars PROVE \A d \in Client : Same(d) \/ Good(d)'
  BY <1>12 DEF Same, vars, host, session
<1>13. \A d \in Client : Same(d) \/ Good(d)'
  BY <1>3, <1>4, <1>5, <1>6, <1>7, <1>8, <1>9, <1>10, <1>11, <1>12
     DEF Next, Exchange, Configure
<1>14. \A d \in Client : Good(d)'
  BY <1>2, <1>13
<1> QED
  BY <1>14 DEF Good, Configured, SuccessConfigured

(* When udhcpc exits with status 0 the address, the default route and the  *)
(* name servers of the lease are all in force.                             *)
THEOREM SuccessMeansConfigured == Spec => []SuccessConfigured
<1>1. Init => TypeOK /\ Configured /\ SuccessConfigured
  BY InitTyped
<1>2. TypeOK /\ Configured /\ SuccessConfigured /\ [Next]_vars
        => TypeOK' /\ Configured' /\ SuccessConfigured'
  BY TypingStep, ConfiguredStep
<1> QED
  BY <1>1, <1>2, PTL DEF Spec
=============================================================================
