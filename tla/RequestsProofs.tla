---------------------------- MODULE RequestsProofs ----------------------------
(***************************************************************************)
(* Whose packet a request is shown with, and what a search finds of it,    *)
(* for any clients, settings and requests.                                 *)
(*                                                                         *)
(* The packets come to the sniffer in the order the connections were made, *)
(* and a port is used again only when its connection is closed: so while a *)
(* connection lives, what is stored for its address is its own as soon as  *)
(* anything of it is stored.                                               *)
(*                                                                         *)
(* From the log until the answer a request's details stay as they were     *)
(* logged, and a search tells each value of the records it finds, or as    *)
(* many as it ever tells.                                                  *)
(*                                                                         *)
(* Every answer is what the handler of its page, asked with the query in   *)
(* some order, and the server of its protocol make of the request that the *)
(* connection has.  So what holds of the answers is a matter of the        *)
(* operators of Routes: what each handler returns, what becomes of the     *)
(* directives in content types, and how the three servers respond.         *)
(*                                                                         *)
(* What is shown of a client's hello, and what is made of it, is a matter  *)
(* of lists: that each loop of the parser ends where its list does, by the *)
(* bytes that the items take; that a list gathered extension by extension  *)
(* is all that the hello has of it; and that to sort a list, or to leave   *)
(* values out of it, forgets the order of what the sorting is given.       *)
(***************************************************************************)
EXTENDS Requests, FiniteSetTheorems, SequenceTheorems, FunctionTheorems, InductionLemmas,
        TLAPS

Live(c) == phase[c] \notin {"new", "closed"}
SameAddress(c, d) == Client(c).addr = Client(d).addr
Tcp(c) == Protocol(c) # Http3
InWire(c) == \E i \in DOMAIN wire : wire[i].of = c

Phases == {"new", "open", "received", "routed", "saved", "answered", "aborted", "closed"}
Packets == [of : Connections, ack : BOOLEAN]

SniffTypes ==
  /\ scenario \in Scenarios
  /\ phase \in [Connections -> Phases]
  /\ wire \in Seq(Packets)
  /\ stored \subseteq Connections

\* Each key leads to a connection whose packet was stored by it.
Keyed ==
  /\ \A k \in DOMAIN TCPFingerprints :
       TCPFingerprints[k] \in stored /\ Source(Client(TCPFingerprints[k]).addr) = k
  /\ \A c \in stored : Source(Client(c).addr) \in DOMAIN TCPFingerprints

\* Only TCP connections that have been made send packets.
HasSent(c) == phase[c] # "new" /\ Tcp(c)
Senders == \A c \in Connections : c \in stored \/ InWire(c) => HasSent(c)

\* Two connections from one address do not live at a time.
Exclusive ==
  \A c, d \in Connections :
    c # d /\ SameAddress(c, d) /\ Tcp(c) /\ Tcp(d) => ~(Live(c) /\ Live(d))

\* What is stored last, and what is still on its way, of a living connection
\* and of another from its address.
LastIsOwn ==
  \A c, d \in Connections :
    Live(c) /\ c # d /\ SameAddress(c, d) =>
      /\ \A i, j \in DOMAIN wire : wire[i].of = c /\ wire[j].of = d => j < i
      /\ c \in stored => ~InWire(d)
OwnKey ==
  \A c \in Connections :
    Live(c) /\ c \in stored => TCPFingerprints[Source(Client(c).addr)] = c

Placed == SniffTypes /\ Keyed /\ Senders /\ Exclusive /\ LastIsOwn /\ OwnKey
-----------------------------------------------------------------------------
\* Two addresses with one key are one.
LEMMA OneKeyOneAddress ==
  ASSUME SniffTypes, NEW c \in Connections, NEW d \in Connections,
         Source(Client(c).addr) = Source(Client(d).addr)
  PROVE  SameAddress(c, d)
  BY AddressAssumption DEF AddressAssumption, SniffTypes, Source, SameAddress, Client

\* The key that is looked up is one that is stored, but for IPv6.
LEMMA LookedUpKey ==
  ASSUME NEW a, NEW b, RemoteAddr(a) = Source(b)
  PROVE  ~a.v6 /\ Source(a) = Source(b)
<1>1. (IF a.v6 THEN "brackets" ELSE "plain") = "plain" /\ a.ip = b.ip /\ a.port = b.port
  BY DEF RemoteAddr, Source
<1> QED BY <1>1 DEF Source

\* What the sniffer stores by is what the router looks up, but for IPv6.
LEMMA PlainKey ==
  ASSUME NEW a, ~a.v6
  PROVE  RemoteAddr(a) = Source(a)
  BY DEF RemoteAddr, Source

\* What the sniffer does not see changes nothing that was placed.
LEMMA QuietKeepsPlaced ==
  ASSUME Placed, UNCHANGED <<scenario, sniffVars>>,
         phase' \in [Connections -> Phases],
         \A c \in Connections :
           (phase'[c] = "new" => phase[c] = "new") /\ (Live(c)' => Live(c))
  PROVE  Placed'
<1> USE DEF sniffVars, Client, Protocol, SameAddress, Tcp
<1>1. SniffTypes' BY DEF Placed, SniffTypes
<1>2. Keyed' BY DEF Placed, Keyed
<1>3. Senders' BY DEF Placed, Senders, HasSent, InWire
<1>4. Exclusive' BY DEF Placed, Exclusive
<1>5. LastIsOwn' BY DEF Placed, LastIsOwn, InWire
<1>6. OwnKey' BY DEF Placed, OwnKey
<1> QED BY <1>1, <1>2, <1>3, <1>4, <1>5, <1>6 DEF Placed

\* A step of one connection that goes on or ends.
LEMMA MoveKeepsPlaced ==
  ASSUME Placed, UNCHANGED <<scenario, sniffVars>>,
         NEW c \in Connections, NEW p \in Phases, p # "new",
         phase' = [phase EXCEPT ![c] = p], Live(c)
  PROVE  Placed'
<1>1. phase' \in [Connections -> Phases] BY DEF Placed, SniffTypes
<1>2. \A d \in Connections :
        (phase'[d] = "new" => phase[d] = "new") /\ (Live(d)' => Live(d))
  BY DEF Placed, SniffTypes, Live
<1> QED BY <1>1, <1>2, QuietKeepsPlaced

-----------------------------------------------------------------------------
(* The three steps that the sniffer does see                               *)

\* The packets of a new connection come after all that are on their way.
LEMMA ConnectKeepsPlaced ==
  ASSUME Placed, NEW c \in Connections, Connect(c)
  PROVE  Placed'
<1> USE DEF Client, Protocol, SameAddress, Tcp
<1> DEFINE two == <<[of |-> c, ack |-> FALSE], [of |-> c, ack |-> TRUE]>>
<1>1. /\ phase[c] = "new" /\ phase' = [phase EXCEPT ![c] = "open"]
      /\ UNCHANGED <<scenario, TCPFingerprints, stored>>
      /\ wire' = wire \/ (Tcp(c) /\ wire' = wire \o two)
      /\ \A d \in Connections \ {c} :
           SameAddress(d, c) /\ Tcp(c) /\ Tcp(d) => ~Live(d)
  BY DEF Connect, At, Moves, Live
<1>2. phase' \in [Connections -> Phases] /\ wire' \in Seq(Packets)
  <2>1. phase' \in [Connections -> Phases]
    BY <1>1 DEF Placed, SniffTypes, Phases
  <2>2. two \in Seq(Packets) BY DEF Packets
  <2>3. wire \in Seq(Packets) BY DEF Placed, SniffTypes
  <2> HIDE DEF two
  <2>4. wire \o two \in Seq(Packets) BY <2>2, <2>3
  <2> QED BY <1>1, <2>1, <2>3, <2>4
<1>3. \A d \in Connections : d # c => phase'[d] = phase[d]
  BY <1>1 DEF Placed, SniffTypes
<1>3a. phase'[c] = "open"
  BY <1>1 DEF Placed, SniffTypes
<1>4. c \notin stored /\ ~InWire(c)
  BY <1>1 DEF Placed, Senders, HasSent
<1>5. \A i \in DOMAIN wire' :
        \/ i \in DOMAIN wire /\ wire'[i] = wire[i]
        \/ wire'[i].of = c /\ Tcp(c) /\ \A j \in DOMAIN wire : j < i
  <2>1. CASE wire' = wire BY <2>1
  <2>2. CASE Tcp(c) /\ wire' = wire \o two
    <3>1. wire \in Seq(Packets) /\ Len(two) = 2
      BY DEF Placed, SniffTypes
    <3>2. two[1].of = c /\ two[2].of = c
      OBVIOUS
    <3> HIDE DEF two
    <3>3. two \in Seq(Packets)
      BY DEF two, Packets
    <3>4. SUFFICES ASSUME NEW i \in DOMAIN wire', i \notin DOMAIN wire
                   PROVE  wire'[i].of = c /\ \A j \in DOMAIN wire : j < i
      BY <2>2, <3>1, <3>3
    <3>5. i \in {Len(wire) + 1, Len(wire) + 2}
      <4>1. Len(wire') = Len(wire) + 2 /\ Len(wire) \in Nat
        <5>1. Len(wire \o two) = Len(wire) + Len(two)
          BY <3>1, <3>3, ConcatProperties
        <5>2. Len(wire) \in Nat
          BY <3>1
        <5>3. Len(two) = 2
          BY <3>1
        <5>4. wire' = wire \o two
          BY <2>2
        <5> QED BY <5>1, <5>2, <5>3, <5>4
      <4>2. DOMAIN wire = 1..Len(wire) /\ DOMAIN wire' = 1..Len(wire')
        BY <1>2, <3>1
      <4> QED BY <3>4, <4>1, <4>2
    <3> QED BY <2>2, <3>1, <3>2, <3>3, <3>5
  <2> QED BY <1>1, <2>1, <2>2
<1>6. SniffTypes' BY <1>1, <1>2 DEF Placed, SniffTypes
<1>7. Keyed' BY <1>1 DEF Placed, Keyed
<1>8. Senders'
  BY <1>1, <1>3, <1>3a, <1>5 DEF Placed, Senders, HasSent, InWire
<1>9. Exclusive'
  BY <1>1, <1>3 DEF Placed, Exclusive, Live
<1>10. LastIsOwn'
  <2> SUFFICES ASSUME NEW d \in Connections, NEW e \in Connections,
                      Live(d)', d # e, SameAddress(d, e)'
               PROVE  /\ \A i, j \in DOMAIN wire' :
                           wire'[i].of = d /\ wire'[j].of = e => j < i
                      /\ d \in stored' => ~InWire(e)'
    BY DEF LastIsOwn
  <2>1. SameAddress(d, e) BY <1>1
  <2>2. CASE d = c
    <3>1. d \notin stored' BY <1>1, <1>4, <2>2
    <3>2. ASSUME NEW i \in DOMAIN wire', NEW j \in DOMAIN wire',
                 wire'[i].of = d, wire'[j].of = e
          PROVE  j < i
      BY <1>4, <1>5, <2>2, <3>2 DEF InWire
    <3> QED BY <3>1, <3>2
  <2>3. CASE d # c /\ e # c
    BY <1>1, <1>3, <1>5, <2>1, <2>3 DEF Placed, LastIsOwn, InWire, Live
  <2>4. CASE e = c /\ d # c
    <3>1. Live(d) BY <1>3, <2>4 DEF Live
    <3>2. ~(Tcp(c) /\ Tcp(d)) BY <1>1, <2>1, <2>4, <3>1
    <3>3. CASE ~Tcp(c)
      BY <1>4, <1>5, <2>4, <3>3 DEF InWire
    <3>4. CASE ~Tcp(d)
      <4>1. d \notin stored /\ ~InWire(d) BY <3>4 DEF Placed, Senders, HasSent
      <4> QED BY <1>1, <1>5, <2>4, <4>1 DEF InWire
    <3> QED BY <3>2, <3>3, <3>4
  <2> QED BY <2>2, <2>3, <2>4
<1>11. OwnKey'
  BY <1>1, <1>3, <1>4 DEF Placed, OwnKey, Live
<1> QED BY <1>6, <1>7, <1>8, <1>9, <1>10, <1>11 DEF Placed

\* What the first packet leaves behind it.
LEMMA TailOfWire ==
  ASSUME SniffTypes, wire # <<>>, wire' = Tail(wire)
  PROVE  /\ wire' \in Seq(Packets)
         /\ Head(wire) = wire[1] /\ 1 \in DOMAIN wire
         /\ wire[1].of \in Connections
         /\ \A i \in DOMAIN wire' : i + 1 \in DOMAIN wire /\ wire'[i] = wire[i + 1]
            /\ i \in Nat \ {0}
<1>1. wire \in Seq(Packets)
  BY DEF SniffTypes
<1>2. Len(wire) \in Nat \ {0}
  BY <1>1
<1>3. wire[1] \in Packets
  BY <1>1, <1>2
<1>4. wire[1].of \in Connections
  BY <1>3 DEF Packets
<1> QED BY <1>1, <1>2, <1>4

\* A packet that is lost or passed over.
LEMMA DropKeepsPlaced ==
  ASSUME Placed, wire # <<>>, wire' = Tail(wire),
         UNCHANGED <<scenario, phase, TCPFingerprints, stored>>
  PROVE  Placed'
<1> USE DEF Client, Protocol, SameAddress, Tcp
<1>1. \A i \in DOMAIN wire' : i + 1 \in DOMAIN wire /\ wire'[i] = wire[i + 1] /\ i \in Nat \ {0}
  BY TailOfWire DEF Placed
<1>2. SniffTypes' BY TailOfWire DEF Placed, SniffTypes
<1>3. Keyed' BY DEF Placed, Keyed
<1>4. Senders' BY <1>1 DEF Placed, Senders, HasSent, InWire
<1>5. Exclusive' BY DEF Placed, Exclusive, Live
<1>6. LastIsOwn'
  <2> SUFFICES ASSUME NEW c \in Connections, NEW d \in Connections,
                      Live(c), c # d, SameAddress(c, d)
               PROVE  /\ \A i, j \in DOMAIN wire' :
                           wire'[i].of = c /\ wire'[j].of = d => j < i
                      /\ c \in stored => ~InWire(d)'
    BY DEF LastIsOwn, Live
  <2>1. /\ \A i, j \in DOMAIN wire : wire[i].of = c /\ wire[j].of = d => j < i
        /\ c \in stored => ~InWire(d)
    BY DEF Placed, LastIsOwn
  <2>2. ASSUME NEW i \in DOMAIN wire', NEW j \in DOMAIN wire',
               wire'[i].of = c, wire'[j].of = d
        PROVE  j < i
    <3>1. j + 1 < i + 1 BY <1>1, <2>1, <2>2
    <3> QED BY <1>1, <3>1
  <2> QED BY <1>1, <2>1, <2>2 DEF InWire
<1>7. OwnKey' BY DEF Placed, OwnKey, Live
<1> QED BY <1>2, <1>3, <1>4, <1>5, <1>6, <1>7 DEF Placed

\* A packet that is stored: those of another connection from its address that
\* were sent before it have been seen, and if that one lives none was.
LEMMA StoreKeepsPlaced ==
  ASSUME Placed, Sniff, Head(wire).ack
  PROVE  Placed'
<1> USE DEF Client, Protocol, SameAddress, Tcp
<1> DEFINE p == Head(wire).of
           key == Source(Client(p).addr)
<1>1. /\ wire # <<>> /\ wire' = Tail(wire)
      /\ TCPFingerprints' = Store(key, p)
      /\ stored' = stored \cup {p}
      /\ UNCHANGED <<scenario, phase>>
  BY DEF Sniff
<1>2. \A i \in DOMAIN wire' : i + 1 \in DOMAIN wire /\ wire'[i] = wire[i + 1] /\ i \in Nat \ {0}
  BY <1>1, TailOfWire DEF Placed
<1>3. p \in Connections /\ InWire(p) /\ 1 \in DOMAIN wire /\ wire[1].of = p
  BY <1>1, TailOfWire DEF Placed, InWire
<1> HIDE DEF p, key
<1>4. /\ DOMAIN TCPFingerprints' = DOMAIN TCPFingerprints \cup {key}
      /\ TCPFingerprints'[key] = p
      /\ \A k \in DOMAIN TCPFingerprints : k # key => TCPFingerprints'[k] = TCPFingerprints[k]
  BY <1>1 DEF Store
<1>5. SniffTypes'
  BY <1>1, <1>3, TailOfWire DEF Placed, SniffTypes
<1>6. Keyed'
  BY <1>1, <1>3, <1>4 DEF Placed, Keyed, SniffTypes, key
<1>7. Senders'
  BY <1>1, <1>2, <1>3 DEF Placed, Senders, HasSent, InWire
<1>8. Exclusive' BY <1>1 DEF Placed, Exclusive, Live
<1>9. ASSUME NEW c \in Connections, Live(c), c # p, SameAddress(c, p)
      PROVE  c \notin stored'
  BY <1>1, <1>3, <1>9 DEF Placed, LastIsOwn
<1>10. LastIsOwn'
  <2> SUFFICES ASSUME NEW c \in Connections, NEW d \in Connections,
                      Live(c), c # d, SameAddress(c, d)
               PROVE  /\ \A i, j \in DOMAIN wire' :
                           wire'[i].of = c /\ wire'[j].of = d => j < i
                      /\ c \in stored' => ~InWire(d)'
    BY <1>1 DEF LastIsOwn, Live
  <2>1. /\ \A i, j \in DOMAIN wire : wire[i].of = c /\ wire[j].of = d => j < i
        /\ c \in stored => ~InWire(d)
    BY DEF Placed, LastIsOwn
  <2>2. ASSUME NEW i \in DOMAIN wire', NEW j \in DOMAIN wire',
               wire'[i].of = c, wire'[j].of = d
        PROVE  j < i
    <3>1. j + 1 < i + 1 BY <1>2, <2>1, <2>2
    <3> QED BY <1>2, <3>1
  <2>3. ASSUME c = p, NEW j \in DOMAIN wire', wire'[j].of = d PROVE FALSE
    <3>1. j + 1 < 1 BY <1>2, <1>3, <2>1, <2>3
    <3> QED BY <1>2, <2>3, <3>1
  <2>4. CASE c = p BY <2>2, <2>3, <2>4 DEF InWire
  <2>5. CASE c # p
    BY <1>1, <1>2, <2>1, <2>2, <2>5 DEF InWire
  <2> QED BY <2>4, <2>5
<1>11. OwnKey'
  <2> SUFFICES ASSUME NEW c \in Connections, Live(c), c \in stored'
               PROVE  TCPFingerprints'[Source(Client(c).addr)] = c
    BY <1>1 DEF OwnKey, Live
  <2>1. CASE c = p BY <1>4, <2>1 DEF key
  <2>2. CASE c # p
    <3>1. ~SameAddress(c, p) BY <1>9, <2>2
    <3>2. Source(Client(c).addr) # key
      BY <1>3, <3>1, OneKeyOneAddress DEF Placed, key
    <3>3. c \in stored BY <1>1, <2>2
    <3> QED BY <1>4, <3>2, <3>3 DEF Placed, Keyed, OwnKey
  <2> QED BY <2>1, <2>2
<1> QED BY <1>5, <1>6, <1>7, <1>8, <1>10, <1>11 DEF Placed
-----------------------------------------------------------------------------
\* What TcpOfOwnAddress needs beside it, and its own variables' types.
LookupTypes ==
  /\ tcp \in [Connections -> Connections \cup {0}]
  /\ had \in [Connections -> BOOLEAN]

IInvTcp == Placed /\ LookupTypes /\ TcpOfOwnAddress

\* At first nothing is stored and nothing on its way.
LEMMA InitPlaced == Init => IInvTcp
<1> SUFFICES ASSUME Init PROVE IInvTcp
  OBVIOUS
<1> USE DEF Init
<1>1. SniffTypes
  <2>1. phase \in [Connections -> Phases] BY DEF Phases
  <2> QED BY <2>1 DEF SniffTypes
<1>2. Keyed BY DEF Keyed
<1>3. Senders BY DEF Senders, InWire
<1>4. Exclusive BY DEF Exclusive, Live
<1>5. LastIsOwn /\ OwnKey BY DEF LastIsOwn, OwnKey, Live
<1>6. LookupTypes BY DEF LookupTypes, Connections
<1>7. TcpOfOwnAddress BY DEF TcpOfOwnAddress
<1> QED BY <1>1, <1>2, <1>3, <1>4, <1>5, <1>6, <1>7 DEF IInvTcp, Placed

\* The Router finds what is stored for the address, and by Placed that is its
\* own connection's when it has any.
LEMMA RouterFindsOwn ==
  ASSUME IInvTcp, NEW c \in Connections, Router(c)
  PROVE  LookupTypes' /\ TcpOfOwnAddress'
<1> DEFINE key == RemoteAddr(Client(c).addr)
           found == IF key \in DOMAIN TCPFingerprints THEN TCPFingerprints[key] ELSE 0
<1>1. /\ tcp' = [tcp EXCEPT ![c] = found]
      /\ had' = [had EXCEPT ![c] = c \in stored]
      /\ phase[c] = "received" /\ scenario' = scenario
  BY DEF Router, At
<1>2. /\ found \in Connections \cup {0}
      /\ found # 0 => SameAddress(found, c) /\ ~Client(c).addr.v6
  <2>1. CASE key \notin DOMAIN TCPFingerprints BY <2>1
  <2>2. CASE key \in DOMAIN TCPFingerprints
    <3>1. found = TCPFingerprints[key] BY <2>2
    <3>2. found \in Connections /\ Source(Client(found).addr) = key
      BY <2>2, <3>1 DEF IInvTcp, Placed, Keyed, SniffTypes
    <3> HIDE DEF found
    <3>3. ~Client(c).addr.v6 /\ Source(Client(c).addr) = Source(Client(found).addr)
      BY <3>2, LookedUpKey
    <3>4. SameAddress(found, c)
      BY <3>2, <3>3, OneKeyOneAddress DEF IInvTcp, Placed
    <3> QED BY <3>2, <3>3, <3>4
  <2> QED BY <2>1, <2>2
<1>3. c \in stored /\ ~Client(c).addr.v6 => found = c
  <2> SUFFICES ASSUME c \in stored, ~Client(c).addr.v6 PROVE found = c
    OBVIOUS
  <2>1. key = Source(Client(c).addr) BY PlainKey
  <2>2. key \in DOMAIN TCPFingerprints BY <2>1 DEF IInvTcp, Placed, Keyed
  <2>3. Live(c) BY <1>1 DEF Live
  <2>4. TCPFingerprints[key] = c BY <2>1, <2>3 DEF IInvTcp, Placed, OwnKey
  <2> QED BY <2>2, <2>4
<1> HIDE DEF found
<1>4. LookupTypes'
  BY <1>1, <1>2 DEF IInvTcp, LookupTypes
<1>5. ASSUME NEW d \in Connections
      PROVE  /\ tcp'[d] # 0 => Client(tcp'[d]).addr = Client(d).addr /\ ~Client(d).addr.v6
             /\ had'[d] /\ ~Client(d).addr.v6 => tcp'[d] = d
  <2>1. CASE d = c
    <3>1. tcp'[d] = found /\ (had'[d] <=> c \in stored)
      BY <1>1, <2>1 DEF IInvTcp, LookupTypes
    <3> QED BY <1>2, <1>3, <2>1, <3>1 DEF SameAddress
  <2>2. CASE d # c
    <3>1. tcp'[d] = tcp[d] /\ had'[d] = had[d]
      BY <1>1, <2>2 DEF IInvTcp, LookupTypes
    <3> QED BY <3>1 DEF IInvTcp, TcpOfOwnAddress
  <2> QED BY <2>1, <2>2
<1> QED BY <1>1, <1>4, <1>5 DEF TcpOfOwnAddress, Client

\* No other step changes what was looked up.
LEMMA LookupKept ==
  ASSUME LookupTypes, TcpOfOwnAddress, UNCHANGED <<scenario, tcp, had>>
  PROVE  LookupTypes' /\ TcpOfOwnAddress'
  BY DEF LookupTypes, TcpOfOwnAddress, Client

(***************************************************************************)
(* The packet shown with a request is of its client's address and port,    *)
(* and of its own connection as soon as one of those has been stored: in   *)
(* the Router's lookup of what SniffTCP stores, for any number of packets  *)
(* lost and any reuse of a port.                                           *)
(***************************************************************************)
THEOREM PacketOfOwnAddress == Spec => []TcpOfOwnAddress
<1>1. IInvTcp /\ [Next]_vars => IInvTcp'
  <2> SUFFICES ASSUME IInvTcp, [Next]_vars PROVE IInvTcp'
    OBVIOUS
  <2> USE DEF IInvTcp
  <2>1. CASE Sniff
    <3>1. UNCHANGED <<scenario, tcp, had>> BY <2>1 DEF Sniff, tcpVars
    <3>2. CASE Head(wire).ack
      BY <2>1, <3>1, <3>2, StoreKeepsPlaced, LookupKept
    <3>3. CASE ~Head(wire).ack
      <4>1. wire # <<>> /\ wire' = Tail(wire)
            /\ UNCHANGED <<scenario, phase, TCPFingerprints, stored>>
        BY <2>1, <3>3 DEF Sniff
      <4> QED BY <3>1, <4>1, DropKeepsPlaced, LookupKept
    <3> QED BY <3>2, <3>3
  <2>2. CASE LosePacket
    <3>1. wire # <<>> /\ wire' = Tail(wire)
          /\ UNCHANGED <<scenario, phase, TCPFingerprints, stored, tcp, had>>
      BY <2>2 DEF LosePacket, tcpVars
    <3> QED BY <3>1, DropKeepsPlaced, LookupKept
  <2>3. ASSUME NEW c \in Connections, Connect(c) PROVE IInvTcp'
    <3>1. UNCHANGED <<scenario, tcp, had>> BY <2>3 DEF Connect, tcpVars
    <3> QED BY <2>3, <3>1, ConnectKeepsPlaced, LookupKept
  <2>4. ASSUME NEW c \in Connections, NEW p \in Phases, p # "new", Live(c), Moves(c, p),
               UNCHANGED <<scenario, sniffVars, tcp, had>>
        PROVE  IInvTcp'
    BY <2>4, MoveKeepsPlaced, LookupKept DEF Moves
  <2>5. ASSUME NEW c \in Connections, HandleTLSConnection(c) PROVE IInvTcp'
    <3>1. UNCHANGED <<scenario, sniffVars, tcp, had>> /\ Live(c)
      BY <2>5 DEF HandleTLSConnection, tcpVars, At, Live
    <3>2. UNCHANGED phase \/ Moves(c, "received")
      BY <2>5 DEF HandleTLSConnection
    <3>3. CASE UNCHANGED phase
      BY <3>1, <3>3, QuietKeepsPlaced, LookupKept DEF Placed, SniffTypes, Live
    <3>4. CASE Moves(c, "received")
      BY <2>4, <3>1, <3>4 DEF Phases
    <3> QED BY <3>2, <3>3, <3>4
  <2>6. ASSUME NEW c \in Connections, AcceptHTTP3(c) PROVE IInvTcp'
    <3>1. UNCHANGED <<scenario, sniffVars, tcp, had>> /\ Live(c) /\ Moves(c, "received")
      BY <2>6 DEF AcceptHTTP3, tcpVars, At, Live
    <3> QED BY <2>4, <3>1 DEF Phases
  <2>7. ASSUME NEW c \in Connections, Router(c) PROVE IInvTcp'
    <3>1. UNCHANGED <<scenario, sniffVars>> /\ Live(c) /\ Moves(c, "routed")
      BY <2>7 DEF Router, At, Live
    <3>2. Placed'
      BY <3>1, MoveKeepsPlaced DEF Moves, Phases
    <3> QED BY <2>7, <3>2, RouterFindsOwn
  <2>8. ASSUME NEW c \in Connections, SaveRequest(c) PROVE IInvTcp'
    <3>1. UNCHANGED <<scenario, sniffVars, tcp, had>> /\ Live(c)
      BY <2>8 DEF SaveRequest, tcpVars, At, Live
    <3>2. Moves(c, "saved") \/ Moves(c, "aborted")
      BY <2>8 DEF SaveRequest
    <3> QED BY <2>4, <3>1, <3>2 DEF Phases
  <2>9. ASSUME NEW c \in Connections, Answer(c) PROVE IInvTcp'
    <3>1. UNCHANGED <<scenario, sniffVars, tcp, had>> /\ Live(c)
      BY <2>9 DEF Answer, tcpVars, At, Live
    <3>2. Moves(c, "aborted") \/ Moves(c, "answered")
      BY <2>9 DEF Answer
    <3> QED BY <2>4, <3>1, <3>2 DEF Phases
  <2>10. ASSUME NEW c \in Connections, Close(c) PROVE IInvTcp'
    <3>1. UNCHANGED <<scenario, sniffVars, tcp, had>> /\ Live(c) /\ Moves(c, "closed")
      BY <2>10 DEF Close, tcpVars, Live
    <3> QED BY <2>4, <3>1 DEF Phases
  <2>11. ASSUME NEW c \in Connections, Follow(c) PROVE IInvTcp'
    <3>1. UNCHANGED <<scenario, sniffVars, tcp, had>> /\ Live(c) /\ Moves(c, "received")
      BY <2>11 DEF Follow, tcpVars, At, Live
    <3> QED BY <2>4, <3>1 DEF Phases
  <2>12. CASE UNCHANGED vars \/ \E c \in Connections : Overlap(c)
    <3>1. UNCHANGED <<scenario, sniffVars, phase, tcp, had>>
      BY <2>12 DEF vars, tcpVars, Overlap
    <3> QED BY <3>1, QuietKeepsPlaced, LookupKept DEF Placed, SniffTypes, Live
  <2> QED
    BY <2>1, <2>2, <2>3, <2>5, <2>6, <2>7, <2>8, <2>9, <2>10, <2>11, <2>12 DEF Next
<1>2. IInvTcp => TcpOfOwnAddress
  BY DEF IInvTcp
<1> QED BY <1>1, <1>2, InitPlaced, PTL DEF Spec

-----------------------------------------------------------------------------
(* Texts cut off at a separator                                            *)

\* The first of some places is one of them.
LEMMA FirstIsIn ==
  ASSUME NEW S, S \subseteq Nat, S # {}
  PROVE  First(S) \in S /\ \A j \in S : First(S) <= j
<1>1. PICK m \in S : \A j \in S : m <= j
  BY LeastExists
<1>. QED
  BY <1>1 DEF First

\* What is left of a text has no separator, and ends with the text or before one.
LEMMA UptoIs ==
  ASSUME NEW S, NEW text \in Seq(S), NEW stops
  PROVE  /\ Upto(text, stops) \in Seq(S) /\ Len(Upto(text, stops)) <= Len(text)
         /\ \A i \in 1..Len(Upto(text, stops)) :
              Upto(text, stops)[i] = text[i] /\ text[i] \notin stops
         /\ Len(Upto(text, stops)) < Len(text) =>
              text[Len(Upto(text, stops)) + 1] \in stops
<1>. DEFINE ends == {i \in DOMAIN text : text[i] \in stops} \cup {Len(text) + 1}
            k == First(ends)
<1>1. PICK n \in Nat : n = Len(text) /\ DOMAIN text = 1..n
  BY LenProperties
<1>2. ends \subseteq Nat /\ ends # {} /\ n + 1 \in ends
  BY <1>1
<1>3. k \in ends /\ \A j \in ends : k <= j
  <2>. HIDE DEF ends
  <2>. QED
    BY <1>2, FirstIsIn
<1>4. k \in 1..(n + 1) /\ (k <= n => text[k] \in stops)
  BY <1>1, <1>3
<1>5. \A i \in 1..(k - 1) : text[i] \notin stops
  <2>1. SUFFICES ASSUME NEW i \in 1..(k - 1), text[i] \in stops PROVE FALSE
    OBVIOUS
  <2>2. i \in ends
    BY <1>1, <1>4, <2>1
  <2>. HIDE DEF ends, k
  <2>. QED
    BY <1>3, <1>4, <2>1, <2>2
<1>6. Upto(text, stops) = SubSeq(text, 1, k - 1)
  BY DEF Upto
<1>. HIDE DEF ends, k
<1>7. /\ SubSeq(text, 1, k - 1) \in Seq(S) /\ Len(SubSeq(text, 1, k - 1)) = k - 1
      /\ \A i \in 1..(k - 1) : SubSeq(text, 1, k - 1)[i] = text[i]
  BY <1>1, <1>4
<1>. QED
  BY <1>1, <1>4, <1>5, <1>6, <1>7

\* A text without a separator is left whole.
LEMMA UptoWhole ==
  ASSUME NEW S, NEW text \in Seq(S), NEW stops, ToSet(text) \cap stops = {}
  PROVE  Upto(text, stops) = text
<1>1. PICK cut \in Seq(S) : cut = Upto(text, stops)
  BY UptoIs
<1>2. Len(cut) <= Len(text) /\ \A i \in 1..Len(cut) : cut[i] = text[i]
  BY <1>1, UptoIs
<1>3. ~(Len(cut) < Len(text))
  <2>1. SUFFICES ASSUME Len(cut) < Len(text) PROVE FALSE
    OBVIOUS
  <2>2. text[Len(cut) + 1] \in stops
    BY <1>1, <2>1, UptoIs
  <2>3. Len(cut) + 1 \in DOMAIN text
    BY <2>1
  <2>. QED
    BY <2>2, <2>3 DEF ToSet
<1>4. cut = text
  BY <1>2, <1>3
<1>. QED
  BY <1>1, <1>4

\* A text that does not begin with a separator keeps its first piece.
LEMMA UptoBegins ==
  ASSUME NEW S, NEW text \in Seq(S), NEW stops, text # <<>>, text[1] \notin stops
  PROVE  Upto(text, stops) # <<>> /\ Upto(text, stops)[1] = text[1]
<1>1. PICK cut \in Seq(S) : cut = Upto(text, stops)
  BY UptoIs
<1>2. Len(cut) # 0
  <2>1. SUFFICES ASSUME Len(cut) = 0 PROVE FALSE
    OBVIOUS
  <2>2. Len(cut) < Len(text) => text[Len(cut) + 1] \in stops
    BY <1>1, UptoIs
  <2>. QED
    BY <2>1, <2>2
<1>3. cut[1] = text[1]
  <2>1. 1 \in 1..Len(cut)
    BY <1>2
  <2>. QED
    BY <1>1, <2>1, UptoIs
<1>. QED
  BY <1>1, <1>2, <1>3

\* To stop at more separators cuts a text at the same place when none of those
\* is before it.
LEMMA UptoMore ==
  ASSUME NEW S, NEW text \in Seq(S), NEW few, NEW more, few \subseteq more,
         ToSet(Upto(text, few)) \cap more = {}
  PROVE  Upto(text, more) = Upto(text, few)
<1>1. PICK a \in Seq(S) : a = Upto(text, more)
  BY UptoIs
<1>2. PICK b \in Seq(S) : b = Upto(text, few)
  BY UptoIs
<1>3. /\ Len(a) <= Len(text)
      /\ \A i \in 1..Len(a) : a[i] = text[i] /\ text[i] \notin more
      /\ Len(a) < Len(text) => text[Len(a) + 1] \in more
  BY <1>1, UptoIs
<1>4. /\ Len(b) <= Len(text)
      /\ \A i \in 1..Len(b) : b[i] = text[i]
      /\ Len(b) < Len(text) => text[Len(b) + 1] \in few
  BY <1>2, UptoIs
<1>5. \A i \in 1..Len(b) : text[i] \notin more
  BY <1>2, <1>4 DEF ToSet
<1>6. ~(Len(a) < Len(b))
  <2>1. SUFFICES ASSUME Len(a) < Len(b) PROVE FALSE
    OBVIOUS
  <2>2. Len(a) + 1 \in 1..Len(b) /\ text[Len(a) + 1] \in more
    BY <1>3, <1>4, <2>1
  <2>. QED
    BY <1>5, <2>2
<1>7. ~(Len(b) < Len(a))
  <2>1. SUFFICES ASSUME Len(b) < Len(a) PROVE FALSE
    OBVIOUS
  <2>2. Len(b) + 1 \in 1..Len(a) /\ text[Len(b) + 1] \in few
    BY <1>3, <1>4, <2>1
  <2>. QED
    BY <1>3, <2>2
<1>8. a = b
  BY <1>3, <1>4, <1>6, <1>7
<1>. QED
  BY <1>1, <1>2, <1>8

\* So it is with the colon as one separator more.
LEMMA CutAlike ==
  ASSUME NEW text, IsText(text), NEW few, NEW more,
         few = {ColonSpace}, more = {":", ColonSpace}, ":" \notin ToSet(Upto(text, few))
  PROVE  Upto(text, more) = Upto(text, few)
<1>1. PICK S : text \in Seq(S)
  BY DEF IsText
<1>2. PICK cut \in Seq(S) : cut = Upto(text, few)
  BY <1>1, UptoIs
<1>3. \A i \in 1..Len(cut) : cut[i] \notin few
  BY <1>1, <1>2, UptoIs
<1>4. ColonSpace \notin ToSet(cut)
  BY <1>3 DEF ToSet
<1>5. ToSet(cut) \cap more = {}
  BY <1>2, <1>4
<1>. QED
  BY <1>1, <1>2, <1>5, UptoMore

-----------------------------------------------------------------------------
(* What a search tells                                                     *)

\* Places in the log are finitely many, and so are their values.
LEMMA TallyIsFinite ==
  ASSUME NEW S, collection \in Seq(S), NEW places, places \subseteq DOMAIN collection,
         NEW kind
  PROVE  IsFiniteSet(DOMAIN Tally(places, kind))
<1>1. IsFiniteSet(DOMAIN collection)
  <2>1. DOMAIN collection = 1..Len(collection) /\ Len(collection) \in Nat
    BY LenProperties
  <2> QED BY <2>1, FS_Interval
<1>2. IsFiniteSet(places)
  BY <1>1, FS_Subset
<1> DEFINE value == [i \in places |-> collection[i][kind]]
<1> DEFINE values == {collection[i][kind] : i \in places}
<1>3. value \in Surjection(places, values)
  <2>1. value \in [places -> values] /\ \A v \in values : \E i \in places : value[i] = v
    OBVIOUS
  <2> HIDE DEF value, values
  <2> QED BY <2>1 DEF Surjection
<1>4. DOMAIN Tally(places, kind) = values
  BY DEF Tally
<1> HIDE DEF value, values
<1> QED BY <1>2, <1>3, <1>4, FS_Surjection

\* SortByVal leaves a value out only when it tells as many as it may.
LEMMA SortByValTells ==
  ASSUME NEW tally, IsFiniteSet(DOMAIN tally), NEW found \in SortByVal(tally),
         NEW v \in DOMAIN tally
  PROVE  v \in DOMAIN found \/ Cardinality(DOMAIN found) = Top
<1>1. PICK S \in SUBSET DOMAIN tally :
        /\ found = [w \in S |-> tally[w]]
        /\ Cardinality(S) = IF Cardinality(DOMAIN tally) > Top THEN Top
                            ELSE Cardinality(DOMAIN tally)
  BY DEF SortByVal
<1>2. DOMAIN found = S
  BY <1>1
<1>3. CASE Cardinality(S) = Cardinality(DOMAIN tally)
  <2>1. S = DOMAIN tally
    BY <1>3, FS_Subset
  <2> QED BY <1>2, <2>1
<1> QED BY <1>1, <1>2, <1>3

-----------------------------------------------------------------------------
(* A logged request stays as it was logged                                 *)

LogTypes ==
  /\ scenario \in Scenarios
  /\ phase \in [Connections -> Phases]
  /\ DOMAIN tls = Connections /\ DOMAIN req = Connections
  /\ DOMAIN read = Connections /\ \A c \in Connections : IsText(read[c].agent)
  /\ logged \in [Connections -> BOOLEAN]
  /\ \E S : collection \in Seq(S)

\* A request that the Router skips is not logged.
SkippedUnlogged ==
  \A c \in Connections : phase[c] = "routed" \/ logged[c] => ~Skipped(c)

\* The record but for its JA4H, which the connection's other requests change.
LogOf(c, ja4h) ==
  [ja3 |-> RequestLog(c).ja3, ja4 |-> RequestLog(c).ja4, ja4h |-> ja4h,
   peetprint |-> RequestLog(c).peetprint, h2 |-> RequestLog(c).h2,
   user_agent |-> RequestLog(c).user_agent, ip |-> RequestLog(c).ip]

InLog(c) ==
  \E i \in DOMAIN collection : \E ja4h :
    collection[i] = LogOf(c, ja4h) /\ (read[c].alone => ja4h = read[c].ja4h)

LoggedIsThere ==
  \A c \in Connections : logged[c] /\ phase[c] \in {"saved", "answered"} => InLog(c)

\* HTTP/3 has no TLS details, without which nothing is logged.
Http3Unlogged ==
  \A c \in Connections : Protocol(c) = Http3 => tls[c] = NoTLS /\ ~logged[c]

LogInv == LogTypes /\ SkippedUnlogged /\ Http3Unlogged /\ LoggedIsThere

\* At first nothing is logged.
LEMMA LogInit == Init => LogInv
<1> SUFFICES ASSUME Init PROVE LogInv
  OBVIOUS
<1>1. LogTypes
  <2>1. <<>> \in Seq({}) /\ IsText(<<>>)
    BY EmptySeq DEF IsText, ToSet
  <2> QED BY <2>1 DEF Init, LogTypes, Phases
<1> QED BY <1>1 DEF Init, LogInv, SkippedUnlogged, Http3Unlogged, LoggedIsThere

\* A step that leaves the log and the details alone, and takes no request
\* forward but one that was not logged, or was found there before.
LEMMA StepKeepsLog ==
  ASSUME LogInv, phase' \in [Connections -> Phases],
         UNCHANGED <<scenario, req, read, tls, logVars>>,
         \A c \in Connections :
           /\ phase'[c] = "routed" => ~Skipped(c)
           /\ logged[c] /\ phase'[c] \in {"saved", "answered"} =>
                phase[c] \in {"saved", "answered"}
  PROVE  LogInv'
<1> USE DEF LogInv, logVars, Skipped, Protocol
<1>1. LogTypes' BY DEF LogTypes
<1>2. SkippedUnlogged' BY DEF SkippedUnlogged
<1>3. \A c \in Connections : InLog(c)' <=> InLog(c)
  BY DEF InLog, LogOf, RequestLog, GetUserAgent, LoggedH2, Client, Config
<1>4. LoggedIsThere' BY <1>3 DEF LoggedIsThere
<1>5. Http3Unlogged' BY DEF Http3Unlogged
<1> QED BY <1>1, <1>2, <1>4, <1>5

\* A step of one connection's that changes its details before they are logged.
LEMMA DetailsKeepLog ==
  ASSUME LogInv, NEW c \in Connections, NEW p \in {"received", "routed"},
         phase' = [phase EXCEPT ![c] = p], UNCHANGED <<scenario, logVars>>,
         DOMAIN tls' = Connections, DOMAIN req' = Connections, DOMAIN read' = Connections,
         \A d \in Connections :
           d # c => tls'[d] = tls[d] /\ req'[d] = req[d] /\ read'[d] = read[d],
         IsText(read'[c].agent), Protocol(c) = Http3 => tls'[c] = NoTLS,
         (p = "routed" \/ logged[c]) => ~Skipped(c)'
  PROVE  LogInv'
<1> USE DEF LogInv, logVars
<1>1. LogTypes' BY DEF LogTypes, Phases
<1>2. \A d \in Connections : d # c => phase'[d] = phase[d] /\ (Skipped(d)' <=> Skipped(d))
  BY DEF LogTypes, Skipped, Protocol
<1>3. phase'[c] = p /\ p \notin {"saved", "answered"}
  BY DEF LogTypes
<1>4. SkippedUnlogged'
  BY <1>2, <1>3 DEF SkippedUnlogged
<1>5. ASSUME NEW d \in Connections, d # c PROVE InLog(d)' <=> InLog(d)
  <2>1. tls'[d] = tls[d] /\ read'[d] = read[d]
    BY <1>5
  <2>2. RequestLog(d)' = RequestLog(d)
    BY <2>1 DEF RequestLog, GetUserAgent, LoggedH2, Client, Config, Protocol
  <2> QED BY <2>1, <2>2 DEF InLog, LogOf
<1>6. LoggedIsThere' BY <1>2, <1>3, <1>5 DEF LoggedIsThere
<1>7. Http3Unlogged' BY DEF Http3Unlogged, Protocol
<1> QED BY <1>1, <1>4, <1>6, <1>7

\* Saving puts the request's own record at the end of the log.
LEMMA SaveKeepsLog ==
  ASSUME LogInv, NEW c \in Connections, SaveRequest(c)
  PROVE  LogInv'
<1> USE DEF LogInv
<1>1. /\ phase[c] = "routed" /\ UNCHANGED <<scenario, req, read, tls>>
      /\ \E p \in {"saved", "aborted"} : phase' = [phase EXCEPT ![c] = p]
  BY DEF SaveRequest, At, Moves
<1>2. \/ UNCHANGED collection /\ logged' = [logged EXCEPT ![c] = FALSE]
      \/ UNCHANGED <<collection, logged>> /\ phase' = [phase EXCEPT ![c] = "aborted"]
      \/ /\ collection' = Append(collection, RequestLog(c)) /\ tls[c] # NoTLS
         /\ logged' = [logged EXCEPT ![c] = TRUE]
  BY DEF SaveRequest, logVars, Moves
<1>3. /\ phase' \in [Connections -> Phases]
      /\ \A d \in Connections : d # c => phase'[d] = phase[d]
      /\ phase'[c] \in {"saved", "aborted"}
  BY <1>1 DEF LogTypes, Phases
<1>4. PICK S : collection \in Seq(S)
  BY DEF LogTypes
<1>5. /\ \E T : collection' \in Seq(T)
      /\ \A i \in DOMAIN collection : i \in DOMAIN collection' /\ collection'[i] = collection[i]
  <2>1. CASE collection' = collection
    BY <1>4, <2>1
  <2>2. CASE collection' = Append(collection, RequestLog(c))
    <3> DEFINE T == S \cup {RequestLog(c)}
    <3>1. collection \in Seq(T) /\ RequestLog(c) \in T
      BY <1>4
    <3> HIDE DEF T
    <3> QED BY <2>2, <3>1, AppendProperties, LenProperties
  <2> QED BY <1>2, <2>1, <2>2
<1>6. logged' \in [Connections -> BOOLEAN] /\ \A d \in Connections : d # c => logged'[d] = logged[d]
  BY <1>2, Zenon DEF LogTypes
<1>7. LogTypes'
  BY <1>1, <1>3, <1>5, <1>6 DEF LogTypes
<1>8. \A d \in Connections : Skipped(d)' <=> Skipped(d)
  BY <1>1 DEF Skipped, Protocol
<1>9. SkippedUnlogged'
  BY <1>1, <1>3, <1>6, <1>8 DEF SkippedUnlogged
<1>10. \A d \in Connections : RequestLog(d)' = RequestLog(d)
  BY <1>1 DEF RequestLog, GetUserAgent, LoggedH2, Client, Config, Protocol
<1>11. \A d \in Connections : InLog(d) => InLog(d)'
  BY <1>1, <1>5, <1>10 DEF InLog, LogOf
<1>12. logged'[c] /\ phase'[c] = "saved" => InLog(c)'
  <2> SUFFICES ASSUME logged'[c], phase'[c] = "saved" PROVE InLog(c)'
    OBVIOUS
  <2>1. collection' = Append(collection, RequestLog(c))
    BY <1>2 DEF LogTypes
  <2>2. RequestLog(c) \in S \cup {RequestLog(c)} /\ collection \in Seq(S \cup {RequestLog(c)})
    BY <1>4
  <2>3. PICK i : i \in DOMAIN collection' /\ collection'[i] = RequestLog(c)
    BY <2>1, <2>2, AppendProperties, LenProperties
  <2>4. RequestLog(c) = LogOf(c, read[c].ja4h)
    BY DEF LogOf, RequestLog
  <2> QED BY <1>1, <1>10, <2>3, <2>4 DEF InLog, LogOf
<1>13. LoggedIsThere'
  BY <1>3, <1>6, <1>11, <1>12 DEF LoggedIsThere
<1>14. Http3Unlogged'
  <2>1. logged'[c] => logged[c] \/ tls[c] # NoTLS
    BY <1>2 DEF LogTypes
  <2> QED BY <1>1, <1>6, <2>1 DEF Http3Unlogged, Protocol
<1> QED BY <1>7, <1>9, <1>13, <1>14

\* Another request changes nothing of a request's but its JA4H.
LEMMA OverlapKeepsLog ==
  ASSUME LogInv, NEW c \in Connections, Overlap(c)
  PROVE  LogInv'
<1> USE DEF LogInv
<1>1. /\ UNCHANGED <<scenario, phase, req, tls, collection, logged>>
      /\ DOMAIN read' = Connections /\ read'[c].alone = FALSE
      /\ read'[c].agent = read[c].agent
      /\ \A d \in Connections : d # c => read'[d] = read[d]
  BY DEF Overlap, LogTypes, logVars
<1>2. LogTypes'
  BY <1>1 DEF LogTypes
<1>3. SkippedUnlogged'
  BY <1>1 DEF SkippedUnlogged, Skipped, Protocol
<1>4. ASSUME NEW d \in Connections, InLog(d) PROVE InLog(d)'
  <2>1. read'[d].agent = read[d].agent /\ (read'[d].alone => read'[d] = read[d])
    BY <1>1
  <2>2. \A ja4h : LogOf(d, ja4h)' = LogOf(d, ja4h)
    <3>1. /\ LoggedH2(d)' = LoggedH2(d) /\ GetUserAgent(d)' = GetUserAgent(d)
          /\ Client(d)' = Client(d) /\ Config' = Config /\ tls'[d] = tls[d]
      BY <1>1, <2>1 DEF GetUserAgent, LoggedH2, Client, Config, Protocol
    <3> QED BY <3>1 DEF LogOf, RequestLog
  <2> QED BY <1>1, <1>4, <2>1, <2>2 DEF InLog
<1>5. LoggedIsThere'
  BY <1>1, <1>4 DEF LoggedIsThere
<1>6. Http3Unlogged'
  BY <1>1 DEF Http3Unlogged, Protocol
<1> QED BY <1>2, <1>3, <1>5, <1>6

\* What is read of a request is its client's user agent, or none.
LEMMA ReadsText ==
  ASSUME LogTypes, NEW c \in Connections,
         NEW agent \in {Client(c).agent, <<>>}, Reads(c, agent)
  PROVE  /\ DOMAIN read' = Connections /\ IsText(read'[c].agent)
         /\ \A d \in Connections : d # c => read'[d] = read[d]
<1>1. IsText(Client(c).agent)
  BY AgentAssumption DEF LogTypes, Client
<1>2. IsText(<<>>)
  BY EmptySeq DEF IsText, ToSet
<1> QED BY <1>1, <1>2 DEF Reads, LogTypes

\* Each action keeps the log.
LEMMA LogInductive ==
  ASSUME LogInv, [Next]_vars
  PROVE  LogInv'
<1> USE DEF LogInv
<1>1. CASE Sniff \/ LosePacket
  BY <1>1, StepKeepsLog DEF Sniff, LosePacket, LogTypes, SkippedUnlogged
<1>2. ASSUME NEW c \in Connections, NEW p \in Phases \ {"routed", "saved", "answered"},
             Moves(c, p), UNCHANGED <<scenario, req, read, tls, logVars>>
      PROVE  LogInv'
  <2>1. phase' \in [Connections -> Phases] /\ phase'[c] = p
        /\ \A d \in Connections : d # c => phase'[d] = phase[d]
    BY <1>2 DEF LogTypes, Moves
  <2> QED BY <1>2, <2>1, StepKeepsLog DEF SkippedUnlogged
<1>3. ASSUME NEW c \in Connections, Connect(c) \/ Close(c) PROVE LogInv'
  <2>1. PICK p \in {"open", "closed"} : Moves(c, p)
    BY <1>3 DEF Connect, Close
  <2> QED BY <1>2, <1>3, <2>1 DEF Connect, Close, Phases
<1>10. ASSUME NEW c \in Connections, AcceptHTTP3(c) PROVE LogInv'
  <2>1. /\ UNCHANGED <<scenario, req, tls, logVars>> /\ phase[c] = "open"
        /\ Reads(c, Client(c).agent) /\ Moves(c, "received")
    BY <1>10 DEF AcceptHTTP3, At
  <2>2. /\ DOMAIN read' = Connections /\ IsText(read'[c].agent)
        /\ \A d \in Connections : d # c => read'[d] = read[d]
    BY <2>1, ReadsText
  <2>3. logged[c] => ~Skipped(c)'
    BY <2>1 DEF SkippedUnlogged, Skipped, Protocol
  <2> QED BY <2>1, <2>2, <2>3, DetailsKeepLog DEF Moves, LogTypes, Http3Unlogged
<1>11. ASSUME NEW c \in Connections, Overlap(c) PROVE LogInv'
  BY <1>11, OverlapKeepsLog
<1>4. ASSUME NEW c \in Connections, HandleTLSConnection(c) PROVE LogInv'
  <2>1. UNCHANGED <<scenario, req, logVars>> /\ phase[c] = "open" /\ Protocol(c) # Http3
    BY <1>4 DEF HandleTLSConnection, At
  <2>2. CASE UNCHANGED <<phase, read, tls>>
    BY <2>1, <2>2, StepKeepsLog DEF LogTypes, SkippedUnlogged
  <2>3. CASE /\ tls' = [tls EXCEPT ![c] = TLSDetails(Client(c).hello, Client(c).negotiated)]
             /\ Reads(c, Client(c).agent) /\ Moves(c, "received")
    <3>1. DOMAIN tls' = Connections /\ \A d \in Connections : d # c => tls'[d] = tls[d]
      BY <2>3 DEF LogTypes
    <3>2. logged[c] => ~Skipped(c)'
      BY <2>1 DEF SkippedUnlogged, Skipped, Protocol
    <3>3. /\ DOMAIN read' = Connections /\ IsText(read'[c].agent)
          /\ \A d \in Connections : d # c => read'[d] = read[d]
      BY <2>3, ReadsText
    <3> QED BY <2>1, <2>3, <3>1, <3>2, <3>3, DetailsKeepLog DEF Moves, LogTypes
  <2> QED BY <1>4, <2>2, <2>3 DEF HandleTLSConnection
<1>5. ASSUME NEW c \in Connections, Router(c) PROVE LogInv'
  <2>1. /\ UNCHANGED <<scenario, req, read, logVars>> /\ ~Skipped(c) /\ Moves(c, "routed")
        /\ tls' = tls \/ \E x : tls' = [tls EXCEPT ![c] = x]
    BY <1>5 DEF Router
  <2>2. DOMAIN tls' = Connections /\ \A d \in Connections : d # c => tls'[d] = tls[d]
    BY <2>1 DEF LogTypes
  <2>3. ~Skipped(c)'
    BY <2>1 DEF Skipped, Protocol
  <2>4. Protocol(c) = Http3 => tls'[c] = NoTLS
    BY <1>5 DEF Router, Http3Unlogged
  <2> QED BY <2>1, <2>2, <2>3, <2>4, DetailsKeepLog DEF Moves, LogTypes
<1>6. ASSUME NEW c \in Connections, SaveRequest(c) PROVE LogInv'
  BY <1>6, SaveKeepsLog
<1>7. ASSUME NEW c \in Connections, Answer(c) PROVE LogInv'
  <2>1. /\ UNCHANGED <<scenario, req, read, tls, logVars>>
        /\ phase[c] = "saved" \/ Skipped(c)
        /\ \E p \in {"aborted", "answered"} : phase' = [phase EXCEPT ![c] = p]
    BY <1>7 DEF Answer, At, Moves
  <2>2. /\ phase' \in [Connections -> Phases] /\ phase'[c] \in {"aborted", "answered"}
        /\ \A d \in Connections : d # c => phase'[d] = phase[d]
    BY <2>1 DEF LogTypes, Phases
  <2>3. logged[c] => phase[c] = "saved"
    BY <2>1 DEF SkippedUnlogged
  <2> QED BY <2>1, <2>2, <2>3, StepKeepsLog DEF SkippedUnlogged
<1>8. ASSUME NEW c \in Connections, Follow(c) PROVE LogInv'
  <2>1. /\ UNCHANGED <<scenario, tls, logVars>> /\ Moves(c, "received")
        /\ Protocol(c) = Http2 /\ \E x : req' = [req EXCEPT ![c] = x]
        /\ \E agent \in {Client(c).agent, <<>>} : Reads(c, agent)
    BY <1>8 DEF Follow
  <2>2. DOMAIN req' = Connections /\ \A d \in Connections : d # c => req'[d] = req[d]
    BY <2>1 DEF LogTypes
  <2>3. ~Skipped(c)'
    BY <2>1 DEF Skipped, Protocol, Http1, Http2
  <2>4. /\ DOMAIN read' = Connections /\ IsText(read'[c].agent)
        /\ \A d \in Connections : d # c => read'[d] = read[d]
    BY <2>1, ReadsText
  <2> QED BY <2>1, <2>2, <2>3, <2>4, DetailsKeepLog DEF Moves, LogTypes, Http3Unlogged
<1>9. CASE UNCHANGED vars
  BY <1>9, StepKeepsLog DEF vars, LogTypes, SkippedUnlogged
<1> QED
  BY <1>1, <1>3, <1>4, <1>5, <1>6, <1>7, <1>8, <1>9, <1>10, <1>11 DEF Next

\* A user agent that is searchable is logged as it is shown.
LEMMA AgentShownIsLogged ==
  ASSUME NEW c \in Connections, IsText(read[c].agent),
         Protocol(c) \in {Http1, Http2}, Searchable(c, "user_agent")
  PROVE  QueryUnescape(UserAgent(c)) = GetUserAgent(c)
<1>1. QueryUnescape(UserAgent(c)) = UserAgent(c)
  BY DEF Searchable
<1>2. CASE Protocol(c) = Http2
  BY <1>1, <1>2 DEF UserAgent, GetUserAgent, Http1, Http2
<1>3. CASE Protocol(c) = Http1
  <2>1. Client(c).spaced /\ ":" \notin ToSet(GetUserAgent(c))
    BY <1>3 DEF Searchable
  <2>2. GetUserAgent(c) = Upto(read[c].agent, {ColonSpace})
    BY <1>3, <2>1 DEF GetUserAgent, Http1, Http2
  <2>3. UserAgent(c) = Upto(read[c].agent, {":", ColonSpace})
    BY <1>3 DEF UserAgent
  <2>4. PICK few, more : few = {ColonSpace} /\ more = {":", ColonSpace}
    OBVIOUS
  <2>5. GetUserAgent(c) = Upto(read[c].agent, few) /\ UserAgent(c) = Upto(read[c].agent, more)
    BY <2>2, <2>3, <2>4, Zenon
  <2>6. PICK text : text = read[c].agent
    OBVIOUS
  <2>7. Upto(text, more) = Upto(text, few)
    <3>1. ":" \notin ToSet(Upto(text, few))
      BY <2>1, <2>5, <2>6
    <3>2. IsText(text)
      BY <2>6
    <3> QED BY <2>4, <3>1, <3>2, CutAlike
  <2> QED BY <1>1, <2>5, <2>6, <2>7
<1> QED BY <1>2, <1>3

(***************************************************************************)
(* What /api/clean and /user-agent show a client finds its logged request  *)
(* in every search that can have it, with each of the request's other      *)
(* values unless the search is full: for any clients, any user agents, any *)
(* requests and any number of results, because of what is logged only JA4H *)
(* may change between the insert and the answer.                           *)
(***************************************************************************)
THEOREM LoggedIsFound == Spec => []ShownIsSearchable
<1>1. LogInv => ShownIsSearchable
  <2> SUFFICES ASSUME LogInv, NEW c \in Connections, phase[c] = "answered", logged[c],
                      NEW field \in DOMAIN Tallied,
                      Searchable(c, field),
                      NEW kind \in Tallied[field], kind = "ja4h" => read[c].alone,
                      NEW found \in GetBy(field, Told(c)[field], kind)
               PROVE  \/ RequestLog(c)[kind] \in DOMAIN found
                      \/ Cardinality(DOMAIN found) = Top
    BY DEF ShownIsSearchable
  <2>1. PICK i \in DOMAIN collection :
          \E ja4h : collection[i] = LogOf(c, ja4h) /\ (read[c].alone => ja4h = read[c].ja4h)
    BY DEF LogInv, LoggedIsThere, InLog
  <2>7. ASSUME NEW f \in {"ja3", "ja4", "ja4h", "peetprint", "h2", "user_agent"},
               f = "ja4h" => read[c].alone
        PROVE  collection[i][f] = RequestLog(c)[f]
    <3>0. PICK ja4h :
            collection[i] = LogOf(c, ja4h) /\ (read[c].alone => ja4h = read[c].ja4h)
      BY <2>1
    <3>1. CASE f = "ja3" BY <3>0, <3>1 DEF LogOf
    <3>2. CASE f = "ja4" BY <3>0, <3>2 DEF LogOf
    <3>3. CASE f = "ja4h" BY <3>0, <2>7, <3>3 DEF LogOf, RequestLog
    <3>4. CASE f = "peetprint" BY <3>0, <3>4 DEF LogOf
    <3>5. CASE f = "h2" BY <3>0, <3>5 DEF LogOf
    <3>6. CASE f = "user_agent" BY <3>0, <3>6 DEF LogOf
    <3> QED BY <2>7, <3>1, <3>2, <3>3, <3>4, <3>5, <3>6
  <2>2. Sought(field, Told(c)[field]) = RequestLog(c)[field]
    <3>1. CASE field = "user_agent"
      <4>1. Sought(field, Told(c)[field]) = QueryUnescape(UserAgent(c))
        BY <3>1 DEF Sought, Told, Tallied
      <4>2. Protocol(c) \in {Http1, Http2}
        BY ProtocolAssumption DEF LogInv, LogTypes, Http3Unlogged, Protocol
      <4>3. QueryUnescape(UserAgent(c)) = GetUserAgent(c)
        BY <3>1, <4>2, AgentShownIsLogged DEF LogInv, LogTypes
      <4> QED BY <3>1, <4>1, <4>3 DEF RequestLog
    <3>2. CASE field = "h2"
      <4>1. apiClean(c).h2 = Client(c).akamai
        BY <3>2 DEF Searchable, apiClean
      <4>2. Sought(field, Told(c)[field]) = apiClean(c).h2
        BY <3>2 DEF Sought, Told, Tallied
      <4>3. LoggedH2(c) = Client(c).akamai
        BY <3>2 DEF Searchable, LoggedH2, Http2
      <4>4. RequestLog(c).h2 = LoggedH2(c)
        BY DEF RequestLog
      <4> QED BY <3>2, <4>1, <4>2, <4>3, <4>4
    <3>3. CASE field \notin {"user_agent", "h2"}
      <4>1. field \in {"ja3", "ja4", "ja4h", "peetprint"}
        BY <3>3 DEF Tallied
      <4>2. Sought(field, Told(c)[field]) = apiClean(c)[field]
        BY <3>3 DEF Sought, Told
      <4>3. apiClean(c)[field] = RequestLog(c)[field]
        <5>1. CASE field = "ja3" BY <5>1 DEF apiClean, RequestLog
        <5>2. CASE field = "ja4" BY <5>2 DEF apiClean, RequestLog
        <5>3. CASE field = "ja4h" BY <5>3 DEF apiClean, RequestLog
        <5>4. CASE field = "peetprint" BY <5>4 DEF apiClean, RequestLog
        <5> QED BY <4>1, <5>1, <5>2, <5>3, <5>4
      <4> QED BY <4>2, <4>3
    <3> QED BY <3>1, <3>2, <3>3
  <2> DEFINE places == queryDB(field, Sought(field, Told(c)[field]))
  <2>3. i \in places /\ places \subseteq DOMAIN collection
    <3>1. field \in {"ja3", "ja4", "ja4h", "peetprint", "h2", "user_agent"}
      BY DEF Tallied
    <3>2. collection[i][field] = RequestLog(c)[field]
      BY <2>7, <3>1 DEF Searchable
    <3> QED BY <2>1, <2>2, <3>2 DEF queryDB
  <2>4. found \in SortByVal(Tally(places, kind))
    BY DEF GetBy
  <2> HIDE DEF places
  <2>5. RequestLog(c)[kind] \in DOMAIN Tally(places, kind)
    <3>1. kind \in {"ja3", "ja4", "ja4h", "peetprint", "h2", "user_agent"}
      BY DEF Tallied
    <3>2. collection[i][kind] = RequestLog(c)[kind]
      BY <2>7, <3>1
    <3> QED BY <2>3, <3>2 DEF Tally
  <2>6. IsFiniteSet(DOMAIN Tally(places, kind))
    BY <2>3, TallyIsFinite DEF LogInv, LogTypes
  <2> QED BY <2>4, <2>5, <2>6, SortByValTells
<1> QED BY <1>1, LogInit, LogInductive, PTL DEF Spec

-----------------------------------------------------------------------------
(* Directives                                                              *)

\* The first of a set of numbers.
LEMMA FirstIs ==
  ASSUME NEW S, S \subseteq Int, NEW i \in S, \A j \in S : i <= j
  PROVE  First(S) = i
<1>1. PICK k \in S : k = First(S) /\ \A j \in S : k <= j
  BY DEF First
<1>. QED
  BY <1>1

\* A directive is taken apart into what it was made of, when the middle has
\* no colon; the last part may have some.
LEMMA SplitDirective ==
  ASSUME NEW S, ":" \in S, NEW name \in S, name # ":",
         NEW middle \in Seq(S), \A i \in 1..Len(middle) : middle[i] # ":",
         NEW last \in Seq(S)
  PROVE  /\ SplitN(Directive(name, middle, last)) = <<<<name>>, middle, last>>
         /\ Directive(name, middle, last)[1] = name
<1>1. PICK m \in Nat : m = Len(middle)
  OBVIOUS
<1>2. PICK l \in Nat : l = Len(last)
  OBVIOUS
<1>. DEFINE text == Directive(name, middle, last)
<1>3. /\ text \in Seq(S) /\ Len(text) = 3 + m + l
      /\ text[1] = name /\ text[2] = ":" /\ text[3 + m] = ":"
      /\ \A i \in 1..m : text[2 + i] = middle[i]
      /\ \A i \in 1..l : text[3 + m + i] = last[i]
  <2>1. <<name, ":">> \in Seq(S) /\ Len(<<name, ":">>) = 2
        /\ <<name, ":">>[1] = name /\ <<name, ":">>[2] = ":"
    OBVIOUS
  <2>2. <<":">> \in Seq(S) /\ Len(<<":">>) = 1 /\ <<":">>[1] = ":"
    OBVIOUS
  <2>3. PICK a : a = <<name, ":">> \o middle
    OBVIOUS
  <2>4. /\ a \in Seq(S) /\ Len(a) = 2 + m
        /\ \A i \in 1..(2 + m) : a[i] = IF i <= 2 THEN <<name, ":">>[i] ELSE middle[i - 2]
    BY <1>1, <2>1, <2>3, ConcatProperties
  <2>5. PICK b : b = a \o <<":">>
    OBVIOUS
  <2>6. /\ b \in Seq(S) /\ Len(b) = 3 + m
        /\ \A i \in 1..(3 + m) : b[i] = IF i <= 2 + m THEN a[i] ELSE <<":">>[i - (2 + m)]
    BY <2>2, <2>4, <2>5, ConcatProperties
  <2>7. text = b \o last
    BY <2>3, <2>5 DEF Directive
  <2>8. /\ text \in Seq(S) /\ Len(text) = 3 + m + l
        /\ \A i \in 1..(3 + m + l) :
             text[i] = IF i <= 3 + m THEN b[i] ELSE last[i - (3 + m)]
    <3>. HIDE DEF text
    <3>1. /\ b \o last \in Seq(S) /\ Len(b \o last) = Len(b) + Len(last)
          /\ \A i \in 1..(Len(b) + Len(last)) :
               (b \o last)[i] = IF i <= Len(b) THEN b[i] ELSE last[i - Len(b)]
      BY <2>6, ConcatProperties
    <3>. QED
      BY <1>2, <2>6, <2>7, <3>1
  <2>. HIDE DEF text
  <2>9. text[1] = name /\ text[2] = ":"
    BY <2>1, <2>4, <2>6, <2>8
  <2>10. text[3 + m] = ":"
    BY <2>2, <2>6, <2>8
  <2>11. \A i \in 1..m : text[2 + i] = middle[i]
    BY <2>4, <2>6, <2>8
  <2>12. \A i \in 1..l : text[3 + m + i] = last[i]
    BY <2>8
  <2>. QED
    BY <2>8, <2>9, <2>10, <2>11, <2>12
<1>. HIDE DEF text
<1>4. DOMAIN text = 1..(3 + m + l)
  BY <1>3
<1>5. First(Colons(text)) = 2
  <2>1. 2 \in Colons(text) /\ Colons(text) \subseteq Int
    BY <1>3, <1>4 DEF Colons
  <2>2. \A j \in Colons(text) : 2 <= j
    BY <1>3, <1>4 DEF Colons
  <2>. QED
    BY <2>1, <2>2, FirstIs
<1>6. First(Colons(text) \ {2}) = 3 + m
  <2>1. 3 + m \in Colons(text) \ {2} /\ Colons(text) \ {2} \subseteq Int
    BY <1>3, <1>4 DEF Colons
  <2>2. ASSUME NEW j \in Colons(text) \ {2} PROVE 3 + m <= j
    <3>1. j \in 1..(3 + m + l) /\ text[j] = ":" /\ j # 2 /\ j # 1
      BY <1>3, <1>4, <2>2 DEF Colons
    <3>2. SUFFICES ASSUME j < 3 + m PROVE FALSE
      BY <3>1
    <3>3. j - 2 \in 1..m /\ text[2 + (j - 2)] = middle[j - 2] /\ 2 + (j - 2) = j
      BY <1>3, <3>1, <3>2
    <3>. QED
      BY <1>1, <3>1, <3>3
  <2>. QED
    BY <2>1, <2>2, FirstIs
<1>7. SubSeq(text, 1, 1) = <<name>>
  <2>1. PICK part : part = SubSeq(text, 1, 1)
    OBVIOUS
  <2>2. \A i \in 1..1 : text[i] \in S
    BY <1>3
  <2>3. part \in Seq(S) /\ Len(part) = 1 /\ \A i \in 1..1 : part[i] = text[i]
    <3>1. /\ part \in Seq(S) /\ Len(part) = IF 1 <= 1 THEN 1 - 1 + 1 ELSE 0
          /\ \A i \in 1..(1 - 1 + 1) : part[i] = text[1 + i - 1]
      BY <2>1, <2>2, SubSeqProperties
    <3>. QED
      BY <3>1
  <2>4. <<name>> \in Seq(S) /\ Len(<<name>>) = 1 /\ <<name>>[1] = name
    OBVIOUS
  <2>5. \A i \in 1..1 : part[i] = <<name>>[i]
    BY <1>3, <2>3, <2>4
  <2>. QED
    BY <2>1, <2>3, <2>4, <2>5, SeqEqual
<1>8. SubSeq(text, 3, 2 + m) = middle
  <2>1. PICK part : part = SubSeq(text, 3, 2 + m)
    OBVIOUS
  <2>2. \A i \in 3..(2 + m) : text[i] \in S
    BY <1>3, ElementOfSeq
  <2>3. /\ part \in Seq(S) /\ Len(part) = m
        /\ \A i \in 1..m : part[i] = text[3 + i - 1]
    <3>1. /\ part \in Seq(S)
          /\ Len(part) = IF 3 <= 2 + m THEN (2 + m) - 3 + 1 ELSE 0
          /\ \A i \in 1..((2 + m) - 3 + 1) : part[i] = text[3 + i - 1]
      BY <2>1, <2>2, SubSeqProperties
    <3>. QED
      BY <3>1
  <2>4. \A i \in 1..m : part[i] = middle[i]
    BY <1>3, <2>3
  <2>. QED
    BY <1>1, <2>1, <2>3, <2>4, SeqEqual
<1>9. SubSeq(text, 4 + m, Len(text)) = last
  <2>1. PICK part : part = SubSeq(text, 4 + m, 3 + m + l)
    OBVIOUS
  <2>2. \A i \in (4 + m)..(3 + m + l) : text[i] \in S
    BY <1>3, ElementOfSeq
  <2>3. /\ part \in Seq(S) /\ Len(part) = l
        /\ \A i \in 1..l : part[i] = text[4 + m + i - 1]
    <3>1. /\ part \in Seq(S)
          /\ Len(part) = IF 4 + m <= 3 + m + l THEN (3 + m + l) - (4 + m) + 1 ELSE 0
          /\ \A i \in 1..((3 + m + l) - (4 + m) + 1) : part[i] = text[4 + m + i - 1]
      BY <2>1, <2>2, SubSeqProperties
    <3>. QED
      BY <3>1
  <2>4. \A i \in 1..l : part[i] = last[i]
    <3>1. \A i \in 1..l : 4 + m + i - 1 = 3 + m + i
      OBVIOUS
    <3>. QED
      BY <1>3, <2>3, <3>1
  <2>5. part = last
    BY <1>2, <2>3, <2>4, SeqEqual
  <2>. QED
    BY <1>3, <2>1, <2>5
<1>10. SplitN(text) = <<SubSeq(text, 1, 1), SubSeq(text, 3, 2 + m),
                        SubSeq(text, 4 + m, Len(text))>>
  <2>1. 2 - 1 = 1 /\ 2 + 1 = 3 /\ (3 + m) - 1 = 2 + m /\ (3 + m) + 1 = 4 + m
    OBVIOUS
  <2>. QED
    BY <1>5, <1>6, <2>1 DEF SplitN
<1>. QED
  BY <1>3, <1>7, <1>8, <1>9, <1>10 DEF text

-----------------------------------------------------------------------------
(* Redirects                                                               *)

\* Where a redirect of this server leads.
Onward(n) == IF n > 1 THEN Own("/redirect/", n - 1) ELSE Own("/get", NaN)

\* An address of this server, piece by piece.
LEMMA OwnIsUrl ==
  ASSUME NEW route, NEW n
  PROVE  /\ Own(route, n) \in Seq({"https", ":", "//tlsfingerprint.com", route, Decimal[n]})
         /\ Len(Own(route, n)) = IF n = NaN THEN 4 ELSE 5
         /\ Own(route, n)[4] = route
         /\ n # NaN => Own(route, n)[5] = Decimal[n]
<1>. DEFINE S == {"https", ":", "//tlsfingerprint.com", route, Decimal[n]}
            four == <<"https", ":", "//tlsfingerprint.com", route>>
            one == <<Decimal[n]>>
<1>1. four \in Seq(S) /\ Len(four) = 4 /\ four[4] = route
  OBVIOUS
<1>2. one \in Seq(S) /\ Len(one) = 1 /\ one[1] = Decimal[n]
  OBVIOUS
<1>3. CASE n = NaN
  <2>1. Own(route, n) = four \o <<>>
    BY <1>3 DEF Own
  <2>2. four \o <<>> = four
    <3>. HIDE DEF four, S
    <3>. QED
      BY <1>1, ConcatEmptySeq
  <2>. QED
    BY <1>1, <1>3, <2>1, <2>2
<1>4. CASE n # NaN
  <2>1. Own(route, n) = four \o one
    BY <1>4 DEF Own
  <2>. HIDE DEF four, one, S
  <2>2. /\ four \o one \in Seq(S) /\ Len(four \o one) = Len(four) + Len(one)
        /\ \A i \in 1..(Len(four) + Len(one)) :
             (four \o one)[i] = IF i <= Len(four) THEN four[i] ELSE one[i - Len(four)]
    BY <1>1, <1>2, ConcatProperties
  <2>3. (four \o one)[4] = route /\ (four \o one)[5] = Decimal[n]
    BY <1>1, <1>2, <2>2
  <2>. QED
    BY <1>1, <1>2, <1>4, <2>1, <2>2, <2>3 DEF S
<1>. QED
  BY <1>3, <1>4

\* Two addresses of this server are one only when they look the same.
LEMMA OwnIsOne ==
  ASSUME NEW r1, NEW r2, NEW m \in 1..10 \cup {NaN}, NEW n \in 1..10 \cup {NaN},
         Own(r1, m) = Own(r2, n)
  PROVE  r1 = r2 /\ m = n
<1>1. PICK a : a = Own(r1, m)
  OBVIOUS
<1>. DEFINE Looks(r, k) ==
              /\ Len(Own(r, k)) = (IF k = NaN THEN 4 ELSE 5)
              /\ Own(r, k)[4] = r
              /\ k # NaN => Own(r, k)[5] = Decimal[k]
<1>0. \A r, k : Looks(r, k)
  BY OwnIsUrl
<1>2. Looks(r1, m)
  <2>. HIDE DEF Looks
  <2>. QED BY <1>0
<1>3. Looks(r2, n)
  <2>. HIDE DEF Looks
  <2>. QED BY <1>0
<1>4. CASE m = NaN
  BY <1>2, <1>3, <1>4 DEF NaN
<1>5. CASE m # NaN
  <2>1. n # NaN /\ Decimal[m] = Decimal[n]
    BY <1>2, <1>3, <1>5
  <2>2. m \in 1..599 /\ n \in 1..599
    BY <1>5, <2>1
  <2>. QED
    BY <1>2, <1>3, <2>1, <2>2, DecimalAssumption DEF DecimalAssumption
<1>. QED
  BY <1>4, <1>5

\* A redirect directive is told by its first part and has the URL in its last.
LEMMA RedirectParts ==
  ASSUME NEW code \in 1..599, NEW S, NEW url \in Seq(S)
  PROVE  /\ SplitN(RedirectDirective(code, url)) =
              <<<<"redirect">>, <<Decimal[code]>>, url>>
         /\ IsRedirect(RedirectDirective(code, url))
<1>. DEFINE T == S \cup {":", "redirect", Decimal[code]}
            middle == <<Decimal[code]>>
<1>1. ":" \in T /\ "redirect" \in T /\ "redirect" # ":"
  OBVIOUS
<1>2. middle \in Seq(T) /\ \A i \in 1..Len(middle) : middle[i] # ":"
  <2>1. Decimal[code] # ":"
    BY DecimalAssumption DEF DecimalAssumption
  <2>2. Len(middle) = 1 /\ middle[1] = Decimal[code] /\ Decimal[code] \in T
    OBVIOUS
  <2>3. middle \in Seq(T)
    <3>. HIDE DEF T
    <3>. QED
      BY <2>2
  <2>. HIDE DEF middle, T
  <2>. QED
    BY <2>1, <2>2, <2>3
<1>3. url \in Seq(T)
  <2>1. S \subseteq T
    OBVIOUS
  <2>. HIDE DEF T
  <2>. QED
    BY <2>1
<1>4. RedirectDirective(code, url) = Directive("redirect", middle, url)
  BY DEF RedirectDirective
<1>5. /\ SplitN(RedirectDirective(code, url)) = <<<<"redirect">>, middle, url>>
      /\ RedirectDirective(code, url)[1] = "redirect"
  <2>. HIDE DEF T, middle
  <2>. QED
    BY <1>1, <1>2, <1>3, <1>4, SplitDirective
<1>. QED
  BY <1>5 DEF IsRedirect

\* How many redirects a request to /redirect/ asks for.
Wanted(r) ==
  IF /\ r.path.arg \in 1..10 /\ "arg" \notin r.path.escaped
     /\ r.query = <<>> \/ r.path.more
  THEN r.path.arg ELSE 1

\* The answer to a request for a redirect, over HTTP/2.
LEMMA RedirectAnswer ==
  ASSUME NEW r, r.path.route = "/redirect/", NEW params, NEW connected, NEW count,
         NEW result, result = Handle(Response(r, Http2, params), connected, count)
  PROVE  /\ ~result.panics
         /\ Respond(r, Http2, result).location = Onward(Wanted(r))
         /\ Respond(r, Http2, result).body = NoBody
<1>. DEFINE res == Response(r, Http2, params)
<1>1. Dispatch(r.path) = "/redirect/"
  BY DEF Dispatch, getAllPaths, getHTTPBinPaths, getDynamicHTTPBinPaths, Pages,
         Searches, Codings, Images
<1>2. res.Page = "/redirect/" /\ res.Arg = RawArg(r, Http2)
  BY <1>1 DEF Response
<1>3. Within(res, 1, 10, 1) = Wanted(r)
  BY <1>2 DEF Within, Wanted, RawArg, NaN, Http2, Http3
<1>4. result = httpbinRedirect(res)
  BY <1>2 DEF Handle, Pages, Searches, Codings, Images
<1>5. result = Returns(NoBody, RedirectDirective(302, Onward(Wanted(r))))
  BY <1>3, <1>4 DEF httpbinRedirect, Onward
<1>6. ~result.panics /\ result.ctype = RedirectDirective(302, Onward(Wanted(r)))
  BY <1>5 DEF Returns
<1>7. \E S : Onward(Wanted(r)) \in Seq(S)
  <2>1. PICK n : n = Wanted(r)
    OBVIOUS
  <2>2. \A route, k : \E S : Own(route, k) \in Seq(S)
    BY OwnIsUrl
  <2>. QED
    BY <2>1, <2>2 DEF Onward
<1>8. PICK S : Onward(Wanted(r)) \in Seq(S)
  BY <1>7
<1>9. Respond(r, Http2, result) = sendResponse(r, result)
  BY DEF Respond, Http1, Http2, Http3
<1>10. /\ SplitN(result.ctype)[3] = Onward(Wanted(r))
       /\ IsRedirect(result.ctype)
  <2>1. PICK url : url = Onward(Wanted(r))
    OBVIOUS
  <2>2. url \in Seq(S)
    BY <1>8, <2>1
  <2>3. /\ SplitN(RedirectDirective(302, url)) =
             <<<<"redirect">>, <<Decimal[302]>>, url>>
        /\ IsRedirect(RedirectDirective(302, url))
    <3>1. 302 \in 1..599
      OBVIOUS
    <3>. QED
      BY <2>2, <3>1, RedirectParts, Zenon
  <2>4. result.ctype = RedirectDirective(302, url)
    BY <1>6, <2>1
  <2>5. SplitN(result.ctype)[3] = url
    BY <2>3, <2>4
  <2>. QED
    BY <2>1, <2>3, <2>4, <2>5
<1>11. Directed(result, extractStatusCode(r)) = Redirected(result, extractStatusCode(r))
  BY <1>10 DEF Directed
<1>12. /\ sendResponse(r, result).location = Onward(Wanted(r))
       /\ sendResponse(r, result).body = NoBody
  BY <1>10, <1>11 DEF sendResponse, Redirected, AsReturned
<1>. QED
  BY <1>6, <1>9, <1>12

\* The answer to a request for /get, over HTTP/2.
LEMMA GetAnswer ==
  ASSUME NEW r, r.path = PathTo("/get", NaN),
         NEW params, NEW connected, NEW count,
         NEW result, result = Handle(Response(r, Http2, params), connected, count)
  PROVE  /\ ~result.panics
         /\ Respond(r, Http2, result).location = <<>>
         /\ Respond(r, Http2, result).body.page = "/get"
<1>. DEFINE res == Response(r, Http2, params)
<1>1. Dispatch(r.path) = "/get"
  BY DEF PathTo, Dispatch, getAllPaths, getHTTPBinPaths
<1>2. res.Page = "/get"
  BY <1>1 DEF Response
<1>3. result = Echo(res)
  BY <1>2 DEF Handle, Pages, Searches, Codings, Images
<1>4. result = Returns(buildBaseResponse(res), Json)
  BY <1>2, <1>3 DEF Echo
<1>5. /\ ~result.panics /\ result.body.page = "/get"
      /\ result.ctype = <<"application/json">>
  <2>1. /\ ~result.panics /\ result.body = buildBaseResponse(res)
        /\ result.ctype = <<"application/json">>
    BY <1>4 DEF Returns, Json
  <2>2. buildTLSFields(res).page = "/get" /\ "page" \in DOMAIN buildTLSFields(res)
    BY <1>2 DEF buildTLSFields, Body
  <2>3. buildBaseResponse(res).page = "/get"
    BY <2>2 DEF buildBaseResponse
  <2>. QED
    BY <2>1, <2>3
<1>6. ~IsRedirect(result.ctype) /\ ~SetsCookies(result.ctype)
  BY <1>5 DEF IsRedirect, SetsCookies
<1>7. /\ Directed(result, extractStatusCode(r)) = AsReturned(result, extractStatusCode(r))
  BY <1>6 DEF Directed
<1>8. Respond(r, Http2, result) = sendResponse(r, result)
  BY DEF Respond, Http1, Http2, Http3
<1>9. sendResponse(r, result).location = <<>> /\ sendResponse(r, result).body = result.body
  BY <1>7 DEF sendResponse, AsReturned
<1>. QED
  BY <1>5, <1>8, <1>9

\* A request with another path and query.
Put(r, path, query) == [r EXCEPT !.path = path, !.query = query]

RequestOf(m, a, b, k, d, y) ==
  [method |-> m, path |-> a, query |-> b, cookies |-> k, data |-> d, key |-> y]

\* Another path and query put into a request.
LEMMA PutInto ==
  ASSUME NEW m, NEW a, NEW b, NEW k, NEW d, NEW y, NEW p, NEW q
  PROVE  Put(RequestOf(m, a, b, k, d, y), p, q) = RequestOf(m, p, q, k, d, y)
<1>1. [RequestOf(m, a, b, k, d, y) EXCEPT !.path = p] = RequestOf(m, p, b, k, d, y)
  BY DEF RequestOf
<1>2. [RequestOf(m, p, b, k, d, y) EXCEPT !.query = q] = RequestOf(m, p, q, k, d, y)
  BY DEF RequestOf
<1>. QED
  BY <1>1, <1>2 DEF Put

\* They are put into any request of a client, the last ones count.
LEMMA PutFields ==
  ASSUME NEW s \in Scenarios, NEW p, NEW q, NEW p2, NEW q2
  PROVE  /\ Put(s.req, p, q).path = p /\ Put(s.req, p, q).query = q
         /\ Put(s.req, p2, q2) = Put(Put(s.req, p, q), p2, q2)
<1>1. PICK m, a, b, k, d, y : s.req = RequestOf(m, a, b, k, d, y)
  BY RequestAssumption, Zenon DEF RequestAssumption, RequestOf
<1>2. /\ Put(s.req, p, q) = RequestOf(m, p, q, k, d, y)
      /\ Put(s.req, p2, q2) = RequestOf(m, p2, q2, k, d, y)
  BY <1>1, PutInto
<1>3. Put(Put(s.req, p, q), p2, q2) = RequestOf(m, p2, q2, k, d, y)
  BY <1>2, PutInto
<1>4. RequestOf(m, p, q, k, d, y).path = p /\ RequestOf(m, p, q, k, d, y).query = q
  BY DEF RequestOf
<1>. QED
  BY <1>2, <1>3, <1>4

\* The path of the request after h redirects of n.
After(n, h) ==
  IF h < n THEN PathTo("/redirect/", n - h) ELSE PathTo("/get", NaN)

HopTypes ==
  /\ scenario \in Scenarios
  /\ hops \in [Connections -> Nat]
  /\ phase = [c \in Connections |-> phase[c]]
  /\ req = [c \in Connections |-> req[c]]
  /\ answer = [c \in Connections |-> answer[c]]

\* The request is the scenario's or what the last redirect has led to.
HopRequest(c) ==
  req[c] = IF hops[c] = 0 THEN scenario.req ELSE Put(scenario.req,
                                                     After(Wanted(scenario.req), hops[c]), <<>>)

HopBound(c) ==
  hops[c] <= Wanted(scenario.req) /\ (Protocol(c) # Http2 => hops[c] = 0)

\* The answer leads to the next address, or is that of /get.
HopAnswer(c) ==
  Answered(c) /\ Protocol(c) = Http2 =>
    IF hops[c] < Wanted(scenario.req)
    THEN /\ answer[c].location = Own(After(Wanted(scenario.req), hops[c] + 1).route,
                                     After(Wanted(scenario.req), hops[c] + 1).arg)
         /\ answer[c].body = NoBody
    ELSE answer[c].location = <<>> /\ answer[c].body.page = "/get"

HopInv ==
  /\ HopTypes
  /\ scenario.req.path.route = "/redirect/" =>
       \A c \in Connections : HopRequest(c) /\ HopBound(c) /\ HopAnswer(c)

\* A redirect wants from 1 to 10 steps.
LEMMA WantedIsSmall ==
  ASSUME NEW r
  PROVE  Wanted(r) \in 1..10
  BY DEF Wanted

\* The request after some redirects asks for as many as are left.
LEMMA HopsLeft ==
  ASSUME HopInv, scenario.req.path.route = "/redirect/", NEW c \in Connections,
         hops[c] < Wanted(scenario.req)
  PROVE  /\ req[c].path.route = "/redirect/"
         /\ Wanted(req[c]) = Wanted(scenario.req) - hops[c]
         /\ Onward(Wanted(req[c])) = Own(After(Wanted(scenario.req), hops[c] + 1).route,
                                         After(Wanted(scenario.req), hops[c] + 1).arg)
<1>1. Wanted(scenario.req) \in 1..10 /\ hops[c] \in Nat
  BY WantedIsSmall DEF HopInv, HopTypes
<1>2. HopRequest(c)
  BY DEF HopInv
<1>3. /\ req[c].path.route = "/redirect/"
      /\ Wanted(req[c]) = Wanted(scenario.req) - hops[c]
  <2>1. CASE hops[c] = 0
    BY <1>1, <1>2, <2>1 DEF HopRequest
  <2>2. CASE hops[c] # 0
    <3>1. /\ req[c].path = After(Wanted(scenario.req), hops[c]) /\ req[c].query = <<>>
      BY <1>2, <2>2, PutFields DEF HopRequest, HopInv, HopTypes
    <3>2. /\ After(Wanted(scenario.req), hops[c]).route = "/redirect/"
          /\ After(Wanted(scenario.req), hops[c]).arg = Wanted(scenario.req) - hops[c]
          /\ "arg" \notin After(Wanted(scenario.req), hops[c]).escaped
      BY DEF After, PathTo
    <3>3. PICK left \in 1..10 : left = Wanted(scenario.req) - hops[c]
      BY <1>1, <2>2
    <3>4. /\ req[c].path.arg = left /\ req[c].path.route = "/redirect/"
          /\ "arg" \notin req[c].path.escaped
      BY <3>1, <3>2, <3>3
    <3>. QED
      BY <3>1, <3>3, <3>4 DEF Wanted
  <2>. QED
    BY <2>1, <2>2
<1>4. CASE hops[c] + 1 < Wanted(scenario.req)
  <2>1. /\ After(Wanted(scenario.req), hops[c] + 1).route = "/redirect/"
        /\ After(Wanted(scenario.req), hops[c] + 1).arg = Wanted(scenario.req) - (hops[c] + 1)
    BY <1>4 DEF After, PathTo
  <2>2. Wanted(req[c]) > 1 /\ Wanted(req[c]) - 1 = Wanted(scenario.req) - (hops[c] + 1)
    BY <1>1, <1>3, <1>4
  <2>. QED
    BY <1>3, <2>1, <2>2 DEF Onward
<1>5. CASE ~(hops[c] + 1 < Wanted(scenario.req))
  <2>1. After(Wanted(scenario.req), hops[c] + 1).route = "/get"
        /\ After(Wanted(scenario.req), hops[c] + 1).arg = NaN
    BY <1>5 DEF After, PathTo
  <2>2. ~(Wanted(req[c]) > 1)
    BY <1>1, <1>3, <1>5
  <2>. QED
    BY <1>3, <2>1, <2>2 DEF Onward
<1>. QED
  BY <1>3, <1>4, <1>5

\* What neither answers nor follows.
LEMMA QuietKeepsHops ==
  ASSUME HopInv, UNCHANGED <<scenario, req, answer, hops>>,
         phase' = [c \in Connections |-> phase'[c]],
         \A c \in Connections : phase'[c] = "answered" => phase[c] = "answered"
  PROVE  HopInv'
<1>1. HopTypes'
  BY DEF HopInv, HopTypes
<1>2. ASSUME NEW c \in Connections, HopRequest(c), HopBound(c), HopAnswer(c)
      PROVE  HopRequest(c)' /\ HopBound(c)' /\ HopAnswer(c)'
  BY <1>2 DEF HopRequest, HopBound, HopAnswer, Answered, Protocol
<1>. QED
  BY <1>1, <1>2 DEF HopInv

\* An answer to a step is the next step, or /get at the end.
LEMMA AnswerKeepsHops ==
  ASSUME HopInv, NEW c \in Connections, Answer(c)
  PROVE  HopInv'
<1>1. PICK params, result :
        /\ result = Handle(Response(req[c], Protocol(c), params),
                           Config.connected, Len(collection))
        /\ IF result.panics
           THEN Moves(c, "aborted") /\ UNCHANGED answer
           ELSE /\ answer' = [answer EXCEPT ![c] = Respond(req[c], Protocol(c), result)]
                /\ Moves(c, "answered")
  BY Zenon DEF Answer
<1>2. UNCHANGED <<scenario, req, hops>>
  BY DEF Answer
<1>3. /\ HopTypes /\ \A d \in Connections : d # c => phase'[d] = phase[d]
      /\ phase' = [d \in Connections |-> phase'[d]]
  BY <1>1 DEF HopInv, HopTypes, Moves
<1>4. CASE result.panics
  <2>1. UNCHANGED answer /\ phase'[c] = "aborted"
    BY <1>1, <1>3, <1>4 DEF Moves, HopTypes
  <2>2. \A d \in Connections : phase'[d] = "answered" => phase[d] = "answered"
    BY <1>3, <2>1
  <2>. QED
    BY <1>2, <1>3, <2>1, <2>2, QuietKeepsHops
<1>5. CASE ~result.panics
  <2>1. /\ answer' = [answer EXCEPT ![c] = Respond(req[c], Protocol(c), result)]
        /\ Moves(c, "answered")
    BY <1>1, <1>5
  <2>2. /\ answer'[c] = Respond(req[c], Protocol(c), result)
        /\ \A d \in Connections : d # c => answer'[d] = answer[d]
        /\ answer' = [d \in Connections |-> answer'[d]]
    BY <1>3, <2>1 DEF HopTypes
  <2>3. HopTypes'
    BY <1>2, <1>3, <2>2 DEF HopTypes
  <2>4. ASSUME scenario.req.path.route = "/redirect/", NEW d \in Connections
        PROVE  HopRequest(d)' /\ HopBound(d)' /\ HopAnswer(d)'
    <3>1. HopRequest(d) /\ HopBound(d) /\ HopAnswer(d)
      BY <2>4 DEF HopInv
    <3>2. HopRequest(d)' /\ HopBound(d)'
      BY <1>2, <3>1 DEF HopRequest, HopBound, Protocol
    <3>3. CASE d # c
      <4>1. answer'[d] = answer[d] /\ phase'[d] = phase[d]
        BY <1>3, <2>2, <3>3
      <4>2. /\ Answered(d)' = Answered(d) /\ Protocol(d)' = Protocol(d)
            /\ Wanted(scenario.req)' = Wanted(scenario.req) /\ hops'[d] = hops[d]
        BY <1>2, <4>1 DEF Answered, Protocol
      <4>3. HopAnswer(d)' = HopAnswer(d)
        BY <4>1, <4>2 DEF HopAnswer
      <4>. QED
        BY <3>1, <3>2, <4>3
    <3>4. CASE d = c /\ Protocol(c) # Http2
      <4>1. Protocol(d)' # Http2
        BY <1>2, <3>4 DEF Protocol
      <4>. QED
        BY <3>2, <4>1 DEF HopAnswer
    <3>5. CASE d = c /\ Protocol(c) = Http2
      <4>1. PICK a : a = answer'[c]
        OBVIOUS
      <4>2. PICK n, h : n = Wanted(scenario.req) /\ h = hops[c]
        OBVIOUS
      <4>3. PICK r : r = req[c]
        OBVIOUS
      <4>4. /\ result = Handle(Response(r, Http2, params), Config.connected, Len(collection))
            /\ a = Respond(r, Http2, result)
        BY <1>1, <2>2, <3>5, <4>1, <4>3
      <4>5. CASE h < n
        <5>1. /\ r.path.route = "/redirect/"
              /\ Onward(Wanted(r)) = Own(After(n, h + 1).route, After(n, h + 1).arg)
          BY <2>4, <4>2, <4>3, <4>5, HopsLeft
        <5>2. a.location = Onward(Wanted(r)) /\ a.body = NoBody
          BY <4>4, <5>1, RedirectAnswer
        <5>. QED
          BY <1>2, <3>2, <3>5, <4>1, <4>2, <4>5, <5>1, <5>2 DEF HopAnswer
      <4>6. CASE ~(h < n)
        <5>1. hops[c] # 0
          BY <4>2, <4>6, WantedIsSmall
        <5>2. r.path = After(n, h)
          BY <1>3, <3>1, <3>5, <4>2, <4>3, <5>1, PutFields DEF HopRequest, HopTypes
        <5>3. r.path = PathTo("/get", NaN)
          BY <4>6, <5>2 DEF After
        <5>4. a.location = <<>> /\ a.body.page = "/get"
          BY <4>4, <5>3, GetAnswer, Zenon
        <5>. QED
          BY <1>2, <3>2, <3>5, <4>1, <4>2, <4>6, <5>4 DEF HopAnswer
      <4>. QED
        BY <4>5, <4>6
    <3>. QED
      BY <3>2, <3>3, <3>4, <3>5
  <2>. QED
    BY <1>2, <2>3, <2>4 DEF HopInv
<1>. QED
  BY <1>4, <1>5

\* A client can follow a redirect of this server in one way.
LEMMA FollowKeepsHops ==
  ASSUME HopInv, NEW c \in Connections, Follow(c)
  PROVE  HopInv'
<1>1. PICK path \in OwnPaths :
        /\ answer[c].location = Own(path.route, path.arg)
        /\ req' = [req EXCEPT ![c].path = path, ![c].query = <<>>]
  BY DEF Follow
<1>2. /\ Answered(c) /\ Protocol(c) = Http2
      /\ hops' = [hops EXCEPT ![c] = @ + 1]
      /\ phase' = [phase EXCEPT ![c] = "received"]
      /\ UNCHANGED <<scenario, answer>>
  BY DEF Follow, At, Moves, Answered
<1>3. /\ hops \in [Connections -> Nat] /\ scenario \in Scenarios
      /\ req = [d \in Connections |-> req[d]]
      /\ phase = [d \in Connections |-> phase[d]]
      /\ answer = [d \in Connections |-> answer[d]]
  BY DEF HopInv, HopTypes
<1>4. /\ req'[c] = Put(req[c], path, <<>>)
      /\ \A d \in Connections : d # c => req'[d] = req[d]
      /\ req' = [d \in Connections |-> req'[d]]
  BY <1>1, <1>3 DEF Put
<1>5. /\ hops'[c] = hops[c] + 1 /\ \A d \in Connections : d # c => hops'[d] = hops[d]
      /\ phase'[c] = "received" /\ \A d \in Connections : d # c => phase'[d] = phase[d]
      /\ hops' \in [Connections -> Nat] /\ phase' = [d \in Connections |-> phase'[d]]
  BY <1>2, <1>3
<1>6. HopTypes'
  <2>1. scenario' \in Scenarios /\ answer' = [d \in Connections |-> answer'[d]]
    BY <1>2, <1>3
  <2>. QED
    BY <1>4, <1>5, <2>1 DEF HopTypes
<1>7. ASSUME scenario.req.path.route = "/redirect/", NEW d \in Connections
      PROVE  HopRequest(d)' /\ HopBound(d)' /\ HopAnswer(d)'
  <2>1. HopRequest(d) /\ HopBound(d) /\ HopAnswer(d)
    BY <1>7 DEF HopInv
  <2>2. CASE d # c
    <3>1. req'[d] = req[d] /\ hops'[d] = hops[d] /\ phase'[d] = phase[d]
      BY <1>4, <1>5, <2>2
    <3>. QED
      BY <1>2, <2>1, <3>1, Zenon DEF HopRequest, HopBound, HopAnswer, Answered, Protocol
  <2>3. CASE d = c
    <3>1. PICK n \in 1..10 : n = Wanted(scenario.req)
      BY WantedIsSmall
    <3>2. PICK h \in Nat : h = hops[c]
      BY <1>3
    <3>3. \A route, k : Own(route, k) # <<>>
      <4>1. \A route, k : Len(Own(route, k)) = IF k = NaN THEN 4 ELSE 5
        BY OwnIsUrl
      <4>2. ASSUME NEW route, NEW k PROVE Len(Own(route, k)) # 0
        <5>1. Len(Own(route, k)) = IF k = NaN THEN 4 ELSE 5
          BY <4>1
        <5>. QED
          BY <5>1
      <4>3. Len(<<>>) = 0
        OBVIOUS
      <4>. QED
        BY <4>2, <4>3
    <3>4. h < n /\ answer[c].location = Own(After(n, h + 1).route, After(n, h + 1).arg)
      <4>1. answer[c].location # <<>>
        BY <1>1, <3>3
      <4>. QED
        BY <1>2, <2>1, <2>3, <3>1, <3>2, <4>1 DEF HopAnswer
    <3>5. path = After(n, h + 1)
      <4>1. PICK q : q = After(n, h + 1)
        OBVIOUS
      <4>2. q \in OwnPaths
        <5>1. CASE h + 1 < n
          <6>1. PICK k \in 1..10 : k = n - (h + 1)
            BY <5>1
          <6>. QED
            BY <4>1, <5>1, <6>1 DEF After, OwnPaths
        <5>2. CASE ~(h + 1 < n)
          BY <4>1, <5>2 DEF After, OwnPaths
        <5>. QED
          BY <5>1, <5>2
      <4>3. ASSUME NEW p \in OwnPaths
            PROVE  /\ p.arg \in 1..10 \cup {NaN}
                   /\ p = PathTo(p.route, p.arg)
        BY DEF OwnPaths, PathTo
      <4>4. PICK k1 \in 1..10 \cup {NaN} : k1 = path.arg
        BY <4>3
      <4>5. PICK k2 \in 1..10 \cup {NaN} : k2 = q.arg
        BY <4>2, <4>3
      <4>6. PICK r1, r2 : r1 = path.route /\ r2 = q.route
        OBVIOUS
      <4>7. r1 = path.route /\ k1 = path.arg /\ r2 = q.route /\ k2 = q.arg
        BY <4>4, <4>5, <4>6
      <4>8. Own(r1, k1) = Own(r2, k2)
        BY <1>1, <3>4, <4>1, <4>7
      <4>9. r1 = r2 /\ k1 = k2
        BY <4>8, OwnIsOne
      <4>10. path = PathTo(r1, k1)
        BY <4>3, <4>7
      <4>11. q = PathTo(r2, k2)
        BY <4>2, <4>3, <4>7
      <4>. QED
        BY <4>1, <4>9, <4>10, <4>11
    <3>6. HopRequest(c)'
      <4>1. req'[c] = Put(scenario.req, path, <<>>)
        <5>1. CASE hops[c] = 0
          BY <1>4, <2>1, <2>3, <5>1 DEF HopRequest
        <5>2. CASE hops[c] # 0
          <6>1. PICK p : req[c] = Put(scenario.req, p, <<>>)
            BY <2>1, <2>3, <5>2 DEF HopRequest
          <6>2. PICK none : none = <<>>
            OBVIOUS
          <6>3. Put(scenario.req, path, none) = Put(Put(scenario.req, p, none), path, none)
            BY <1>3, PutFields
          <6>. QED
            BY <1>4, <6>1, <6>2, <6>3
        <5>. QED
          BY <5>1, <5>2
      <4>2. hops'[c] # 0 /\ hops'[c] = h + 1
        BY <1>3, <1>5, <3>2
      <4>. QED
        BY <1>2, <3>1, <3>5, <4>1, <4>2 DEF HopRequest
    <3>7. HopBound(c)'
      BY <1>2, <1>5, <3>1, <3>2, <3>4 DEF HopBound, Protocol
    <3>8. HopAnswer(c)'
      BY <1>5 DEF HopAnswer, Answered
    <3>. QED
      BY <2>3, <3>6, <3>7, <3>8
  <2>. QED
    BY <2>2, <2>3
<1>. QED
  BY <1>2, <1>6, <1>7 DEF HopInv

\* At first no step was taken.
LEMMA HopInit == Init => HopInv
<1>. SUFFICES ASSUME Init PROVE HopInv
  OBVIOUS
<1>1. HopTypes
  BY DEF Init, HopTypes
<1>2. ASSUME NEW c \in Connections PROVE HopRequest(c) /\ HopBound(c) /\ HopAnswer(c)
  <2>1. hops[c] = 0 /\ req[c] = scenario.req /\ phase[c] = "new"
    BY DEF Init
  <2>2. Wanted(scenario.req) \in 1..10
    BY WantedIsSmall
  <2>. QED
    BY <2>1, <2>2 DEF HopRequest, HopBound, HopAnswer, Answered
<1>. QED
  BY <1>1, <1>2 DEF HopInv

\* Each action keeps count of the steps.
LEMMA HopInductive == HopInv /\ [Next]_vars => HopInv'
<1>. SUFFICES ASSUME HopInv, [Next]_vars PROVE HopInv'
  OBVIOUS
<1>1. phase = [c \in Connections |-> phase[c]]
  BY DEF HopInv, HopTypes
<1>2. ASSUME UNCHANGED <<scenario, req, answer, hops>>, UNCHANGED phase PROVE HopInv'
  BY <1>1, <1>2, QuietKeepsHops
<1>3. ASSUME UNCHANGED <<scenario, req, answer, hops>>, NEW c \in Connections,
             NEW p, Moves(c, p), p # "answered"
      PROVE  HopInv'
  <2>1. \A d \in Connections : phase'[d] = "answered" => phase[d] = "answered"
    BY <1>1, <1>3 DEF Moves
  <2>2. phase' = [d \in Connections |-> phase'[d]]
    BY <1>1, <1>3 DEF Moves
  <2>. QED
    BY <1>3, <2>1, <2>2, QuietKeepsHops
<1>4. CASE Sniff \/ LosePacket
  BY <1>2, <1>4 DEF Sniff, LosePacket
<1>5. ASSUME NEW c \in Connections, Connect(c) \/ AcceptHTTP3(c) \/ Router(c) \/ Close(c)
      PROVE  HopInv'
  BY <1>3, <1>5 DEF Connect, AcceptHTTP3, Router, Close
<1>6. ASSUME NEW c \in Connections, HandleTLSConnection(c) PROVE HopInv'
  BY <1>2, <1>3, <1>6 DEF HandleTLSConnection
<1>7. ASSUME NEW c \in Connections, SaveRequest(c) PROVE HopInv'
  BY <1>3, <1>7 DEF SaveRequest
<1>8. ASSUME NEW c \in Connections, Answer(c) PROVE HopInv'
  BY <1>8, AnswerKeepsHops
<1>9. ASSUME NEW c \in Connections, Follow(c) PROVE HopInv'
  BY <1>9, FollowKeepsHops
<1>10. CASE UNCHANGED vars \/ \E c \in Connections : Overlap(c)
  BY <1>2, <1>10 DEF vars, Overlap
<1>. QED
  BY <1>4, <1>5, <1>6, <1>7, <1>8, <1>9, <1>10 DEF Next

(***************************************************************************)
(* Who follows /redirect/n comes to /get after n redirects exactly, after  *)
(* one when n is not a number from 1 to 10, or is hidden by an escape or a *)
(* query: the number in each Location is one less than the one in the      *)
(* path, and is read again as it was written.                              *)
(***************************************************************************)
THEOREM RedirectsComeToAnEnd == Spec => []RedirectsEnd
<1>1. HopInv => RedirectsEnd
  <2>. SUFFICES ASSUME HopInv, scenario.req.path.route = "/redirect/",
                       NEW c \in Connections
                PROVE  /\ hops[c] <= Wanted(scenario.req)
                       /\ Answered(c) /\ Protocol(c) = Http2 =>
                            ((answer[c].body.page = "/get")
                               <=> hops[c] = Wanted(scenario.req))
    BY DEF RedirectsEnd, Wanted
  <2>1. HopBound(c) /\ HopAnswer(c)
    BY DEF HopInv
  <2>2. Wanted(scenario.req) \in 1..10 /\ hops[c] \in Nat
    BY WantedIsSmall DEF HopInv, HopTypes
  <2>3. NoBody.page # "/get"
    BY DEF NoBody, Body
  <2>. QED
    BY <2>1, <2>2, <2>3 DEF HopBound, HopAnswer
<1>. QED
  BY <1>1, HopInit, HopInductive, PTL DEF Spec

-----------------------------------------------------------------------------
(* Queries                                                                 *)

\* A handler ranges over the query in some order.
LEMMA OrderIsOne ==
  ASSUME NEW query, NEW params \in Orders(query)
  PROVE  \E f \in [DOMAIN query -> DOMAIN query] :
           /\ params = [i \in DOMAIN query |-> query[f[i]]]
           /\ \A i \in DOMAIN query : \E j \in DOMAIN query : f[j] = i
  BY DEF Orders, Bijection, Surjection

IsQuery(query) ==
  /\ query \in Seq(ToSet(query))
  /\ \A i \in DOMAIN query : query[i] = <<query[i][1], query[i][2]>> /\ IsText(query[i][2])

\* In that order it is a query with the same names and values.
LEMMA OrderIsAQuery ==
  ASSUME NEW query, IsQuery(query), NEW params \in Orders(query)
  PROVE  /\ IsQuery(params) /\ Len(params) = Len(query)
         /\ DOMAIN params = DOMAIN query
         /\ ToSet(params) = ToSet(query)
<1>1. PICK f \in [DOMAIN query -> DOMAIN query] :
        /\ params = [i \in DOMAIN query |-> query[f[i]]]
        /\ \A i \in DOMAIN query : \E j \in DOMAIN query : f[j] = i
  BY OrderIsOne
<1>2. PICK n \in Nat : n = Len(query) /\ DOMAIN query = 1..n
  BY DEF IsQuery
<1>3. DOMAIN params = 1..n /\ \A i \in 1..n : f[i] \in 1..n /\ params[i] = query[f[i]]
  BY <1>1, <1>2
<1>4. ToSet(params) = ToSet(query)
  <2>1. ASSUME NEW i \in 1..n PROVE \E j \in 1..n : params[j] = query[i]
    BY <1>1, <1>2, <1>3
  <2>2. ASSUME NEW x \in ToSet(params) PROVE x \in ToSet(query)
    <3>1. PICK i \in 1..n : x = params[i]
      BY <1>3 DEF ToSet
    <3>2. f[i] \in DOMAIN query /\ x = query[f[i]]
      BY <1>2, <1>3, <3>1
    <3>. QED
      BY <3>2 DEF ToSet
  <2>3. ASSUME NEW x \in ToSet(query) PROVE x \in ToSet(params)
    <3>1. PICK i \in 1..n : x = query[i]
      BY <1>2 DEF ToSet
    <3>2. PICK j \in DOMAIN params : params[j] = x
      BY <1>3, <2>1, <3>1
    <3>. QED
      BY <3>2 DEF ToSet
  <2>. QED
    BY <2>2, <2>3
<1>5. params \in Seq(ToSet(params)) /\ Len(params) = n
  <2>1. \A i \in 1..n : params[i] \in ToSet(params)
    BY <1>3 DEF ToSet
  <2>2. params = [i \in 1..n |-> params[i]]
    BY <1>1, <1>2
  <2>. QED
    BY <2>1, <2>2
<1>6. ASSUME NEW i \in DOMAIN params
      PROVE  params[i] = <<params[i][1], params[i][2]>> /\ IsText(params[i][2])
  BY <1>2, <1>3, <1>6 DEF IsQuery
<1>. QED
  BY <1>2, <1>3, <1>4, <1>5, <1>6 DEF IsQuery

\* A parameter is a text.
LEMMA ParamIsText ==
  ASSUME NEW key, NEW params, IsQuery(params)
  PROVE  IsText(GetParam(key, params))
<1>. DEFINE places == {i \in DOMAIN params : params[i][1] = key}
<1>1. CASE places = {}
  <2>1. <<>> \in Seq(ToSet(<<>>))
    BY DEF ToSet
  <2>. QED
    BY <1>1, <2>1 DEF GetParam, IsText
<1>2. CASE places # {}
  <2>1. PICK n \in Nat : DOMAIN params = 1..n
    BY DEF IsQuery
  <2>2. places \subseteq Nat
    BY <2>1
  <2>3. First(places) \in places
    <3>. HIDE DEF places
    <3>. QED
      BY <1>2, <2>2, FirstIsIn
  <2>4. GetParam(key, params) = params[First(places)][2]
    BY <1>2 DEF GetParam
  <2>. QED
    BY <2>3, <2>4 DEF IsQuery
<1>. QED
  BY <1>1, <1>2

\* /redirect-to answers with a redirect of some URL.
LEMMA RedirectToRedirects ==
  ASSUME NEW res, IsQuery(res.Params)
  PROVE  \E code \in 1..599 : \E url :
           IsText(url) /\ httpbinRedirectTo(res) = Returns(NoBody, RedirectDirective(code, url))
<1>1. PICK url : url = GetParam("url", res.Params) /\ IsText(url)
  BY ParamIsText
<1>2. PICK text : text = GetParam("status_code", res.Params)
  OBVIOUS
<1>. DEFINE codes == {n \in 300..399 : text = <<Decimal[n]>>}
            code == IF codes = {} THEN 302 ELSE CHOOSE n \in codes : TRUE
            slash == <<"https", ":", "//tlsfingerprint.com">>
            address == IF url = <<>> THEN Own("/get", NaN)
                       ELSE IF Relative(url) THEN slash \o url ELSE url
<1>3. code \in 1..599
  <2>1. codes # {} => (CHOOSE n \in codes : TRUE) \in codes
    OBVIOUS
  <2>2. 302 \in 1..599 /\ codes \subseteq 1..599
    OBVIOUS
  <2>. HIDE DEF codes
  <2>. QED
    BY <2>1, <2>2
<1>4. IsText(address)
  <2>1. ASSUME NEW S, NEW t \in Seq(S) PROVE IsText(t)
    <3>1. PICK n \in Nat : n = Len(t) /\ DOMAIN t = 1..n /\ t = [i \in 1..n |-> t[i]]
      OBVIOUS
    <3>2. \A i \in 1..n : t[i] \in ToSet(t)
      BY <3>1 DEF ToSet
    <3>. QED
      BY <3>1, <3>2 DEF IsText
  <2>2. IsText(Own("/get", NaN))
    <3>1. PICK S : Own("/get", NaN) \in Seq(S)
      BY OwnIsUrl
    <3>. QED
      BY <2>1, <3>1
  <2>3. IsText(slash \o url)
    <3>. DEFINE S == ToSet(url) \cup {"https", ":", "//tlsfingerprint.com"}
    <3>1. slash \in Seq(S)
      OBVIOUS
    <3>2. url \in Seq(S)
      <4>1. url \in Seq(ToSet(url)) /\ ToSet(url) \subseteq S
        BY <1>1 DEF IsText
      <4>. HIDE DEF S
      <4>. QED
        BY <4>1
    <3>3. slash \o url \in Seq(S)
      <4>. HIDE DEF S, slash
      <4>. QED
        BY <3>1, <3>2, ConcatProperties
    <3>. QED
      BY <2>1, <3>3
  <2>. QED
    BY <1>1, <2>2, <2>3
<1>5. httpbinRedirectTo(res) = Returns(NoBody, RedirectDirective(code, address))
  BY <1>1, <1>2 DEF httpbinRedirectTo
<1>6. PICK c, u : c = code /\ u = address
  <2>. HIDE DEF code, address
  <2>. QED
    OBVIOUS
<1>7. /\ c \in 1..599 /\ IsText(u)
      /\ httpbinRedirectTo(res) = Returns(NoBody, RedirectDirective(c, u))
  BY <1>3, <1>4, <1>5, <1>6
<1>. QED
  BY <1>7

-----------------------------------------------------------------------------
(* Joining with bars and splitting at them                                 *)

\* What splitting begins with: one part, with nothing in it.
OnePart == <<<<>>>>

\* The parts after each piece of a text.
PartsRun(run, text) ==
  /\ run[0] = OnePart
  /\ \A i \in 1..Len(text) : run[i] = PutPiece(run[i - 1], text[i])

\* The empty text is a text of whatever pieces.
LEMMA NothingIsText ==
  ASSUME NEW S
  PROVE  <<>> \in Seq(S)
  OBVIOUS

\* Parts: some texts, and there is always a last one.
PartsOf(S) == {parts \in Seq(Seq(S)) : parts # <<>>}

\* Putting a piece to the last part, or opening a part at a separator, leaves parts.
LEMMA PutPieceIsParts ==
  ASSUME NEW S, NEW parts \in PartsOf(S), NEW piece \in S
  PROVE  PutPiece(parts, piece) \in PartsOf(S)
<1>1. PICK n \in Nat \ {0} : n = Len(parts) /\ DOMAIN parts = 1..n /\ parts \in Seq(Seq(S))
  BY DEF PartsOf
<1>2. CASE piece = "|"
  <2>1. Append(parts, <<>>) \in Seq(Seq(S)) /\ Len(Append(parts, <<>>)) = n + 1
    <3>1. <<>> \in Seq(S)
      OBVIOUS
    <3>. QED
      BY <1>1, <3>1, AppendProperties
  <2>. QED
    BY <1>1, <1>2, <2>1 DEF PutPiece, PartsOf
<1>3. CASE piece # "|"
  <2>1. parts[n] \in Seq(S)
    BY <1>1, ElementOfSeq
  <2>2. Append(parts[n], piece) \in Seq(S)
    BY <2>1, AppendProperties
  <2>3. PICK more : more = Append(parts[n], piece)
    OBVIOUS
  <2>4. PutPiece(parts, piece) = [parts EXCEPT ![n] = more]
    BY <1>1, <1>3, <2>3 DEF PutPiece
  <2>5. [parts EXCEPT ![n] = more] \in Seq(Seq(S)) /\ Len([parts EXCEPT ![n] = more]) = n
    BY <1>1, <2>2, <2>3
  <2>. QED
    BY <1>1, <2>4, <2>5 DEF PartsOf
<1>. QED
  BY <1>2, <1>3

\* SplitBars is the end of such a run.
LEMMA SplitBarsRuns ==
  ASSUME NEW S, NEW text \in Seq(S)
  PROVE  \E run \in [0..Len(text) -> PartsOf(S)] :
           PartsRun(run, text) /\ SplitBars(text) = run[Len(text)]
<1>1. PICK n \in Nat : n = Len(text)
  OBVIOUS
<1>2. \A i \in 1..n : text[i] \in S
  BY <1>1, ElementOfSeq
<1>3. OnePart \in PartsOf(S)
  <2>1. <<>> \in Seq(S)
    OBVIOUS
  <2>2. OnePart \in Seq(Seq(S)) /\ Len(OnePart) = 1
    BY <2>1 DEF OnePart
  <2>3. OnePart # <<>>
    BY DEF OnePart
  <2>. QED
    BY <2>2, <2>3 DEF PartsOf
<1>. DEFINE A == PartsOf(S)
            step == [i \in 1..n |-> [x \in A |-> PutPiece(x, text[i])]]
            Run(f) == [i \in 0..n |->
                        IF i = 0 THEN OnePart ELSE PutPiece(f[i - 1], text[i])]
            r == CHOOSE f : f = Run(f)
<1>4. step \in [1..n -> [A -> A]]
  <2>1. \A i \in 1..n : \A x \in A : PutPiece(x, text[i]) \in A
    BY <1>2, PutPieceIsParts
  <2>. HIDE DEF A
  <2>. QED
    BY <2>1
<1>. HIDE DEF A
<1>5. PICK f \in [0..n -> A] : IsRecursion(f, OnePart, n, step)
  <2>1. OnePart \in A
    BY <1>3 DEF A
  <2>. HIDE DEF step
  <2>. QED
    BY <1>4, <2>1, RecursionExists
<1>6. f = Run(f)
  <2>1. f[0] = OnePart /\ \A i \in 1..n : f[i] = step[i][f[i - 1]]
    BY <1>5 DEF IsRecursion
  <2>2. ASSUME NEW i \in 1..n PROVE f[i] = PutPiece(f[i - 1], text[i])
    <3>1. f[i - 1] \in A
      OBVIOUS
    <3>. QED
      BY <2>1, <3>1
  <2>3. \A i \in 0..n :
          f[i] = IF i = 0 THEN OnePart ELSE PutPiece(f[i - 1], text[i])
    BY <2>1, <2>2
  <2>. QED
    BY <2>3
<1>7. r = Run(r)
  BY <1>6
<1>8. SplitBars(text) = r[n]
  BY <1>1 DEF SplitBars, OnePart
<1>9. /\ r = [i \in 0..n |-> r[i]]
      /\ r[0] = OnePart
      /\ \A i \in 1..n : r[i] = PutPiece(r[i - 1], text[i])
  <2>. HIDE DEF r
  <2>1. \A i \in 0..n :
          r[i] = IF i = 0 THEN OnePart ELSE PutPiece(r[i - 1], text[i])
    BY <1>7
  <2>2. r = [i \in 0..n |-> r[i]]
    BY <1>7
  <2>. QED
    BY <2>1, <2>2
<1>. HIDE DEF r
<1>10. \A i \in 0..n : r[i] \in A
  <2>. DEFINE I == {i \in 0..n : r[i] \in A}
  <2>1. 0 \in I
    BY <1>3, <1>9 DEF A
  <2>2. ASSUME NEW i \in 1..n, i - 1 \in I PROVE i \in I
    <3>1. r[i - 1] \in A /\ text[i] \in S /\ i \in 0..n
      BY <1>2, <2>2
    <3>2. PutPiece(r[i - 1], text[i]) \in A
      BY <3>1, PutPieceIsParts DEF A
    <3>3. r[i] = PutPiece(r[i - 1], text[i])
      BY <1>9
    <3>. QED
      BY <3>1, <3>2, <3>3
  <2>3. 0..n \subseteq I
    <3>. HIDE DEF I
    <3>. QED
      BY <2>1, <2>2, IntervalInduction
  <2>. QED
    BY <2>3
<1>11. r \in [0..n -> A]
  BY <1>9, <1>10
<1>12. PartsRun(r, text)
  BY <1>1, <1>9 DEF PartsRun
<1>. QED
  BY <1>1, <1>8, <1>11, <1>12 DEF A

\* A piece that is no bar goes to the end of the last part.
LEMMA PutIntoLast ==
  ASSUME NEW S, NEW p \in Seq(Seq(S)), NEW x \in Seq(S), NEW piece \in S, piece # "|"
  PROVE  PutPiece(Append(p, x), piece) = Append(p, Append(x, piece))
<1>1. PICK n \in Nat : n = Len(p)
  OBVIOUS
<1>2. PICK q : q = Append(p, x)
  OBVIOUS
<1>3. PICK y \in Seq(S) : y = Append(x, piece)
  BY AppendProperties
<1>4. PICK z : z = Append(p, y)
  OBVIOUS
<1>5. /\ q \in Seq(Seq(S)) /\ Len(q) = n + 1 /\ q[n + 1] = x
      /\ \A i \in 1..n : q[i] = p[i]
  BY <1>1, <1>2, AppendProperties
<1>6. /\ z \in Seq(Seq(S)) /\ Len(z) = n + 1 /\ z[n + 1] = y
      /\ \A i \in 1..n : z[i] = p[i]
  BY <1>1, <1>4, AppendProperties
<1>7. PICK w : w = [q EXCEPT ![n + 1] = y]
  OBVIOUS
<1>8. /\ w \in Seq(Seq(S)) /\ Len(w) = n + 1 /\ w[n + 1] = y
      /\ \A i \in 1..n : w[i] = q[i]
  BY <1>3, <1>5, <1>7
<1>9. w = z
  <2>1. ASSUME NEW i \in 1..(n + 1) PROVE w[i] = z[i]
    <3>1. CASE i = n + 1
      BY <1>6, <1>8, <3>1
    <3>2. CASE i # n + 1
      <4>1. i \in 1..n
        BY <3>2
      <4>. QED
        BY <1>5, <1>6, <1>8, <4>1
    <3>. QED
      BY <3>1, <3>2
  <2>. QED
    BY <1>6, <1>8, <2>1, SeqEqual
<1>10. PutPiece(q, piece) = [q EXCEPT ![n + 1] = Append(q[n + 1], piece)]
  BY <1>5 DEF PutPiece
<1>. QED
  BY <1>2, <1>3, <1>4, <1>5, <1>7, <1>9, <1>10

\* What a part holds of a word, after its first pieces.
Begins(x, word, j) == Len(x) = j /\ \A h \in 1..j : x[h] = word[h]

\* What holds all pieces of a word is the word.
LEMMA BeginsWhole ==
  ASSUME NEW S, NEW word \in Seq(S), NEW x \in Seq(S), Begins(x, word, Len(word))
  PROVE  x = word
BY SeqEqual DEF Begins

\* The next piece of the word put to the end.
LEMMA BeginsMore ==
  ASSUME NEW S, NEW word \in Seq(S), NEW j \in 1..Len(word), NEW x \in Seq(S),
         Begins(x, word, j - 1)
  PROVE  Append(x, word[j]) \in Seq(S) /\ Begins(Append(x, word[j]), word, j)
<1>1. PICK piece \in S : piece = word[j]
  BY ElementOfSeq
<1>2. PICK y : y = Append(x, piece)
  OBVIOUS
<1>3. Len(x) = j - 1 /\ \A h \in 1..(j - 1) : x[h] = word[h]
  BY DEF Begins
<1>4. /\ y \in Seq(S) /\ Len(y) = j /\ y[j] = piece
      /\ \A h \in 1..(j - 1) : y[h] = x[h]
  BY <1>2, <1>3, AppendProperties
<1>5. ASSUME NEW h \in 1..j PROVE y[h] = word[h]
  <2>1. CASE h = j
    BY <1>1, <1>4, <2>1
  <2>2. CASE h # j
    <3>1. h \in 1..(j - 1)
      BY <2>2
    <3>. QED
      BY <1>3, <1>4, <3>1
  <2>. QED
    BY <2>1, <2>2
<1>. QED
  BY <1>1, <1>2, <1>4, <1>5 DEF Begins

\* A word that has no separator in it.
Barless(word) == \A i \in 1..Len(word) : word[i] # "|"

\* Reading a word without a separator only makes the last part longer.
LEMMA WordGrows ==
  ASSUME NEW S, NEW p \in Seq(Seq(S)), NEW word \in Seq(S), Barless(word),
         NEW j \in 1..Len(word), NEW x \in Seq(S), Begins(x, word, j - 1)
  PROVE  \E y \in Seq(S) :
           Begins(y, word, j) /\ PutPiece(Append(p, x), word[j]) = Append(p, y)
<1>1. PICK piece \in S : piece = word[j] /\ piece # "|"
  BY ElementOfSeq DEF Barless
<1>2. PutPiece(Append(p, x), piece) = Append(p, Append(x, piece))
  BY <1>1, PutIntoLast
<1>3. Append(x, word[j]) \in Seq(S) /\ Begins(Append(x, word[j]), word, j)
  BY BeginsMore
<1>. QED
  BY <1>1, <1>2, <1>3

\* After its first k pieces the text has this word and no more.
EndsWith(text, k, word) ==
  Len(text) = k + Len(word) /\ \A i \in 1..Len(word) : text[k + i] = word[i]

\* A word that comes after a bar, or first, becomes a part.
LEMMA WordIsAPart ==
  ASSUME NEW S, NEW word \in Seq(S), Barless(word), NEW k \in Nat,
         NEW text, EndsWith(text, k, word), NEW run, PartsRun(run, text),
         NEW p \in Seq(Seq(S)), run[k] = Append(p, <<>>)
  PROVE  run[Len(text)] = Append(p, word)
<1>1. PICK m \in Nat : m = Len(word)
  OBVIOUS
<1>. DEFINE Done(j) == \E x \in Seq(S) : Begins(x, word, j) /\ run[k + j] = Append(p, x)
            I == {j \in 0..m : Done(j)}
<1>2. Done(0)
  <2>1. PICK x \in Seq(S) : x = <<>>
    BY NothingIsText
  <2>2. Begins(x, word, 0)
    BY <2>1 DEF Begins
  <2>3. run[k + 0] = Append(p, x)
    BY <2>1
  <2>. QED
    BY <2>2, <2>3
<1>3. ASSUME NEW j \in 1..m, Done(j - 1) PROVE Done(j)
  <2>1. PICK x \in Seq(S) : Begins(x, word, j - 1) /\ run[k + (j - 1)] = Append(p, x)
    BY <1>3
  <2>2. PICK i : i = k + j /\ i \in 1..Len(text) /\ i - 1 = k + (j - 1)
    BY <1>1 DEF EndsWith
  <2>3. run[i] = PutPiece(run[i - 1], text[i])
    BY <2>2 DEF PartsRun
  <2>4. text[i] = word[j]
    BY <1>1, <2>2 DEF EndsWith
  <2>5. PICK y \in Seq(S) :
          Begins(y, word, j) /\ PutPiece(Append(p, x), word[j]) = Append(p, y)
    <3>1. j \in 1..Len(word) /\ Begins(x, word, j - 1)
      BY <1>1, <2>1
    <3>. HIDE DEF Done
    <3>. QED
      BY <3>1, WordGrows
  <2>6. run[k + j] = Append(p, y)
    BY <2>1, <2>2, <2>3, <2>4, <2>5
  <2>. QED
    BY <2>5, <2>6
<1>4. Done(m)
  <2>. HIDE DEF Done
  <2>1. 0 \in I
    BY <1>2
  <2>2. \A j \in 1..m : j - 1 \in I => j \in I
    BY <1>3
  <2>3. 0..m \subseteq I
    <3>. HIDE DEF I
    <3>. QED
      BY <2>1, <2>2, IntervalInduction
  <2>. QED
    BY <2>3
<1>5. PICK x \in Seq(S) : Begins(x, word, m) /\ run[k + m] = Append(p, x)
  BY <1>4
<1>6. x = word
  BY <1>1, <1>5, BeginsWhole
<1>. QED
  BY <1>1, <1>5, <1>6 DEF EndsWith

\* A text begins with another.
BeginsWith(longer, text) ==
  Len(text) <= Len(longer) /\ \A i \in 1..Len(text) : longer[i] = text[i]

\* Two texts that begin alike have the same parts so far.
LEMMA SamePartsSoFar ==
  ASSUME NEW text, Len(text) \in Nat, NEW longer, Len(longer) \in Nat, BeginsWith(longer, text),
         NEW f, PartsRun(f, text), NEW g, PartsRun(g, longer)
  PROVE  g[Len(text)] = f[Len(text)]
<1>1. PICK m \in Nat : m = Len(text)
  OBVIOUS
<1>. DEFINE I == {i \in 0..m : g[i] = f[i]}
<1>2. 0 \in I
  BY DEF PartsRun
<1>3. ASSUME NEW i \in 1..m, i - 1 \in I PROVE i \in I
  <2>1. i \in 1..Len(longer) /\ longer[i] = text[i]
    BY <1>1 DEF BeginsWith
  <2>2. g[i] = PutPiece(g[i - 1], longer[i]) /\ f[i] = PutPiece(f[i - 1], text[i])
    BY <1>1, <2>1 DEF PartsRun
  <2>. QED
    BY <1>3, <2>1, <2>2
<1>4. 0..m \subseteq I
  <2>. HIDE DEF I
  <2>. QED
    BY <1>2, <1>3, IntervalInduction
<1>. QED
  BY <1>1, <1>4

\* A text without a bar is one part.
LEMMA SplitOfWord ==
  ASSUME NEW S, NEW word \in Seq(S), Barless(word)
  PROVE  SplitBars(word) = <<word>>
<1>1. PICK run \in [0..Len(word) -> PartsOf(S)] :
        PartsRun(run, word) /\ SplitBars(word) = run[Len(word)]
  BY SplitBarsRuns
<1>2. PICK p \in Seq(Seq(S)) : p = <<>>
  BY NothingIsText
<1>3. run[0] = Append(p, <<>>)
  BY <1>1, <1>2 DEF PartsRun, OnePart
<1>4. EndsWith(word, 0, word)
  BY DEF EndsWith
<1>5. run[Len(word)] = Append(p, word)
  BY <1>1, <1>3, <1>4, WordIsAPart
<1>. QED
  BY <1>1, <1>2, <1>5

\* A bar and a word more are a part more.
LEMMA SplitOfMore ==
  ASSUME NEW S, "|" \in S, NEW text \in Seq(S), NEW word \in Seq(S), Barless(word)
  PROVE  /\ text \o <<"|">> \o word \in Seq(S)
         /\ SplitBars(text) \in Seq(Seq(S))
         /\ SplitBars(text \o <<"|">> \o word) = Append(SplitBars(text), word)
<1>1. PICK m \in Nat : m = Len(text)
  OBVIOUS
<1>2. PICK l \in Nat : l = Len(word)
  OBVIOUS
<1>3. PICK b : b = text \o <<"|">>
  OBVIOUS
<1>4. /\ b \in Seq(S) /\ Len(b) = m + 1 /\ b[m + 1] = "|"
      /\ \A i \in 1..m : b[i] = text[i]
  <2>1. <<"|">> \in Seq(S) /\ Len(<<"|">>) = 1 /\ <<"|">>[1] = "|"
    OBVIOUS
  <2>2. /\ b \in Seq(S) /\ Len(b) = Len(text) + Len(<<"|">>)
        /\ \A i \in 1..(Len(text) + Len(<<"|">>)) :
             b[i] = IF i <= Len(text) THEN text[i] ELSE <<"|">>[i - Len(text)]
    BY <1>3, <2>1, ConcatProperties
  <2>. QED
    BY <1>1, <2>1, <2>2
<1>5. PICK t : t = b \o word
  OBVIOUS
<1>6. /\ t \in Seq(S) /\ Len(t) = m + 1 + l
      /\ \A i \in 1..(m + 1) : t[i] = b[i]
      /\ \A i \in 1..l : t[m + 1 + i] = word[i]
  <2>1. /\ t \in Seq(S) /\ Len(t) = Len(b) + Len(word)
        /\ \A i \in 1..(Len(b) + Len(word)) :
             t[i] = IF i <= Len(b) THEN b[i] ELSE word[i - Len(b)]
    BY <1>4, <1>5, ConcatProperties
  <2>. QED
    BY <1>2, <1>4, <2>1
<1>7. BeginsWith(t, text) /\ EndsWith(t, m + 1, word) /\ t[m + 1] = "|"
  BY <1>1, <1>2, <1>4, <1>6 DEF BeginsWith, EndsWith
<1>8. PICK f \in [0..m -> PartsOf(S)] :
        PartsRun(f, text) /\ SplitBars(text) = f[m]
  BY <1>1, SplitBarsRuns
<1>9. PICK g : PartsRun(g, t) /\ SplitBars(t) = g[Len(t)]
  BY <1>6, SplitBarsRuns
<1>10. g[m] = f[m]
  BY <1>1, <1>6, <1>7, <1>8, <1>9, SamePartsSoFar
<1>11. g[m + 1] = Append(f[m], <<>>)
  <2>1. m + 1 \in 1..Len(t) /\ (m + 1) - 1 = m
    BY <1>6
  <2>2. g[m + 1] = PutPiece(g[m], t[m + 1])
    BY <1>9, <2>1 DEF PartsRun
  <2>. QED
    BY <1>7, <1>10, <2>2 DEF PutPiece
<1>12. PICK p \in Seq(Seq(S)) : p = f[m]
  BY <1>8 DEF PartsOf
<1>13. g[Len(t)] = Append(p, word)
  <2>1. PICK k \in Nat : k = m + 1
    OBVIOUS
  <2>2. EndsWith(t, k, word) /\ PartsRun(g, t) /\ g[k] = Append(p, <<>>)
    BY <1>7, <1>9, <1>11, <1>12, <2>1
  <2>. QED
    BY <2>2, WordIsAPart
<1>. QED
  BY <1>3, <1>5, <1>6, <1>8, <1>9, <1>12, <1>13

\* The texts as they are joined, one more after the other.
JoinRun(run, list) ==
  /\ run[0] = <<>>
  /\ \A i \in 1..Len(list) :
       run[i] = IF i = 1 THEN list[1] ELSE run[i - 1] \o <<"|">> \o list[i]

\* A bar between two texts makes a text of them.
LEMMA BarBetween ==
  ASSUME NEW S, "|" \in S, NEW x \in Seq(S), NEW y \in Seq(S)
  PROVE  x \o <<"|">> \o y \in Seq(S)
<1>1. <<"|">> \in Seq(S)
  OBVIOUS
<1>2. PICK b \in Seq(S) : b = x \o <<"|">>
  BY <1>1, ConcatProperties
<1>3. b \o y \in Seq(S)
  BY ConcatProperties
<1>. QED
  BY <1>2, <1>3

\* Joined is the end of such a run.
LEMMA JoinedRuns ==
  ASSUME NEW S, "|" \in S, NEW list \in Seq(Seq(S))
  PROVE  \E run \in [0..Len(list) -> Seq(S)] :
           JoinRun(run, list) /\ Joined(list) = run[Len(list)]
<1>1. PICK n \in Nat : n = Len(list)
  OBVIOUS
<1>2. \A i \in 1..n : list[i] \in Seq(S)
  BY <1>1, ElementOfSeq
<1>. DEFINE A == Seq(S)
            Put1(i, x) == IF i = 1 THEN list[1] ELSE x \o <<"|">> \o list[i]
            step == [i \in 1..n |-> [x \in A |-> Put1(i, x)]]
            Run(f) == [i \in 0..n |->
                        IF i = 0 THEN <<>>
                        ELSE IF i = 1 THEN list[1] ELSE f[i - 1] \o <<"|">> \o list[i]]
            r == CHOOSE f : f = Run(f)
<1>3. \A i \in 1..n : \A x \in A : Put1(i, x) \in A
  BY <1>2, BarBetween
<1>4. step \in [1..n -> [A -> A]]
  <2>. HIDE DEF A, Put1
  <2>. QED
    BY <1>3
<1>5. PICK f \in [0..n -> A] : IsRecursion(f, <<>>, n, step)
  <2>1. <<>> \in A
    BY NothingIsText
  <2>. HIDE DEF step, A
  <2>. QED
    BY <1>4, <2>1, RecursionExists
<1>6. f = Run(f)
  <2>. HIDE DEF A, Put1
  <2>1. f[0] = <<>> /\ \A i \in 1..n : f[i] = step[i][f[i - 1]]
    BY <1>5 DEF IsRecursion
  <2>2. ASSUME NEW i \in 1..n PROVE f[i] = Put1(i, f[i - 1])
    <3>1. f[i - 1] \in A
      OBVIOUS
    <3>. QED
      BY <2>1, <3>1
  <2>3. \A i \in 0..n : f[i] = IF i = 0 THEN <<>> ELSE Put1(i, f[i - 1])
    BY <2>1, <2>2
  <2>. QED
    BY <2>3 DEF Put1
<1>7. r = Run(r)
  BY <1>6
<1>8. Joined(list) = r[n]
  BY <1>1 DEF Joined
<1>9. /\ r = [i \in 0..n |-> r[i]]
      /\ r[0] = <<>>
      /\ \A i \in 1..n : r[i] = Put1(i, r[i - 1])
  <2>. HIDE DEF r
  <2>1. \A i \in 0..n : r[i] = IF i = 0 THEN <<>> ELSE Put1(i, r[i - 1])
    BY <1>7
  <2>2. r = [i \in 0..n |-> r[i]]
    BY <1>7
  <2>. HIDE DEF Put1
  <2>3. r[0] = <<>>
    <3>1. 0 \in 0..n
      OBVIOUS
    <3>2. r[0] = IF 0 = 0 THEN <<>> ELSE Put1(0, r[0 - 1])
      BY <2>1, <3>1, Zenon
    <3>. QED
      BY <3>2
  <2>4. ASSUME NEW i \in 1..n PROVE r[i] = Put1(i, r[i - 1])
    <3>1. i \in 0..n /\ i # 0
      OBVIOUS
    <3>. QED
      BY <2>1, <3>1
  <2>. QED
    BY <2>2, <2>3, <2>4
<1>. HIDE DEF r
<1>10. \A i \in 0..n : r[i] \in A
  <2>. HIDE DEF A, Put1
  <2>. DEFINE I == {i \in 0..n : r[i] \in A}
  <2>1. 0 \in I
    <3>1. <<>> \in A
      BY NothingIsText DEF A
    <3>2. r[0] = <<>>
      BY <1>9
    <3>. QED
      BY <3>1, <3>2
  <2>2. ASSUME NEW i \in 1..n, i - 1 \in I PROVE i \in I
    <3>1. r[i - 1] \in A /\ i \in 0..n
      BY <2>2
    <3>2. Put1(i, r[i - 1]) \in A
      BY <1>3, <3>1
    <3>3. r[i] = Put1(i, r[i - 1])
      BY <1>9
    <3>. QED
      BY <3>1, <3>2, <3>3
  <2>3. 0..n \subseteq I
    <3>. HIDE DEF I
    <3>. QED
      BY <2>1, <2>2, IntervalInduction
  <2>. QED
    BY <2>3
<1>11. r \in [0..n -> A]
  <2>. HIDE DEF A, Put1
  <2>. QED
    BY <1>9, <1>10
<1>12. JoinRun(r, list)
  BY <1>1, <1>9 DEF JoinRun
<1>. QED
  BY <1>1, <1>8, <1>11, <1>12 DEF A

\* Texts without a bar that are joined with bars come apart again as they were.
LEMMA SplitJoined ==
  ASSUME NEW S, "|" \in S, NEW list \in Seq(Seq(S)), list # <<>>,
         \A i \in 1..Len(list) : Barless(list[i])
  PROVE  SplitBars(Joined(list)) = list
<1>1. PICK n \in Nat : n = Len(list) /\ n # 0
  BY EmptySeq
<1>2. \A i \in 1..n : list[i] \in Seq(S) /\ Barless(list[i])
  BY <1>1, ElementOfSeq
<1>3. PICK run \in [0..n -> Seq(S)] : JoinRun(run, list) /\ Joined(list) = run[n]
  BY <1>1, JoinedRuns
<1>. DEFINE Done(i) == i = 0 \/ \E p \in Seq(Seq(S)) : SplitBars(run[i]) = p /\ Begins(p, list, i)
            I == {i \in 0..n : Done(i)}
<1>4. ASSUME NEW i \in 1..n, Done(i - 1) PROVE Done(i)
  <2>1. CASE i = 1
    <3>1. run[1] = list[1]
      BY <1>1, <1>3, <2>1 DEF JoinRun
    <3>2. SplitBars(run[1]) = <<list[1]>>
      BY <1>2, <2>1, <3>1, SplitOfWord
    <3>3. PICK w \in Seq(S) : w = list[1]
      BY <1>2, <2>1
    <3>4. <<w>> \in Seq(Seq(S)) /\ Begins(<<w>>, list, 1)
      BY <3>3 DEF Begins
    <3>. QED
      BY <2>1, <3>2, <3>3, <3>4
  <2>2. CASE i # 1
    <3>1. i - 1 # 0 /\ i - 1 \in 0..n
      BY <2>2
    <3>2. PICK p \in Seq(Seq(S)) : SplitBars(run[i - 1]) = p /\ Begins(p, list, i - 1)
      BY <1>4, <3>1
    <3>3. PICK text \in Seq(S) : text = run[i - 1]
      BY <3>1
    <3>4. PICK word \in Seq(S) : word = list[i] /\ Barless(word)
      BY <1>2
    <3>5. run[i] = text \o <<"|">> \o word
      BY <1>1, <1>3, <2>2, <3>3, <3>4 DEF JoinRun
    <3>6. SplitBars(run[i]) = Append(p, word)
      <4>1. SplitBars(text \o <<"|">> \o word) = Append(SplitBars(text), word)
        BY <3>3, <3>4, SplitOfMore
      <4>. QED
        BY <3>2, <3>3, <3>5, <4>1
    <3>7. Append(p, list[i]) \in Seq(Seq(S)) /\ Begins(Append(p, list[i]), list, i)
      BY <1>1, <3>2, BeginsMore
    <3>8. Append(p, list[i]) = Append(p, word)
      BY <3>4
    <3>. QED
      BY <3>6, <3>7, <3>8
  <2>. QED
    BY <2>1, <2>2
<1>5. Done(n)
  <2>1. Done(0)
    OBVIOUS
  <2>. HIDE DEF Done
  <2>2. 0 \in I
    BY <2>1
  <2>3. \A i \in 1..n : i - 1 \in I => i \in I
    BY <1>4
  <2>4. 0..n \subseteq I
    <3>. HIDE DEF I
    <3>. QED
      BY <2>2, <2>3, IntervalInduction
  <2>. QED
    BY <2>4
<1>6. PICK p \in Seq(Seq(S)) : SplitBars(run[n]) = p /\ Begins(p, list, n)
  BY <1>1, <1>5
<1>7. p = list
  <2>1. PICK T : T = Seq(S)
    OBVIOUS
  <2>. QED
    BY <1>1, <1>6, <2>1, BeginsWhole
<1>. QED
  BY <1>3, <1>6, <1>7

-----------------------------------------------------------------------------
(* What the handlers return                                                *)

\* A body with all its fields, and a body with one of them replaced.
BodyOf(page, n, tls_, args, data, cookies, coding) ==
  [page |-> page, n |-> n, tls |-> tls_, args |-> args, data |-> data,
   cookies |-> cookies, coding |-> coding]

PutNumber(body, x) == [body EXCEPT !.n = x]
PutTLS(body, x) == [body EXCEPT !.tls = x]
PutArgs(body, x) == [body EXCEPT !.args = x]
PutData(body, x) == [body EXCEPT !.data = x]
PutCookies(body, x) == [body EXCEPT !.cookies = x]
PutCoding(body, x) == [body EXCEPT !.coding = x]

\* Replacing one field of a body says which body comes of it.
LEMMA BodyPuts ==
  ASSUME NEW p, NEW n, NEW t, NEW a, NEW d, NEW k, NEW g, NEW x
  PROVE  /\ PutNumber(BodyOf(p, n, t, a, d, k, g), x) = BodyOf(p, x, t, a, d, k, g)
         /\ PutTLS(BodyOf(p, n, t, a, d, k, g), x) = BodyOf(p, n, x, a, d, k, g)
         /\ PutArgs(BodyOf(p, n, t, a, d, k, g), x) = BodyOf(p, n, t, x, d, k, g)
         /\ PutData(BodyOf(p, n, t, a, d, k, g), x) = BodyOf(p, n, t, a, x, k, g)
         /\ PutCookies(BodyOf(p, n, t, a, d, k, g), x) = BodyOf(p, n, t, a, d, x, g)
         /\ PutCoding(BodyOf(p, n, t, a, d, k, g), x) = BodyOf(p, n, t, a, d, k, x)
  BY DEF BodyOf, PutNumber, PutTLS, PutArgs, PutData, PutCookies, PutCoding

\* What a body has that nothing was put into.
Unmarked == FALSE
Empty == {}
NoText == ""
Uncoded == "identity"

\* The three bodies the handlers start from, field by field.
LEMMA BodiesAre ==
  ASSUME NEW res
  PROVE  /\ Body(res.Page) = BodyOf(res.Page, NaN, Unmarked, Empty, NoText, Empty, Uncoded)
         /\ buildTLSFields(res) = BodyOf(res.Page, NaN, res.TLS, Empty, NoText, Empty, Uncoded)
         /\ buildBaseResponse(res) =
              BodyOf(res.Page, NaN, res.TLS, ToSet(res.Params), NoText, Empty, Uncoded)
<1>1. Body(res.Page) = BodyOf(res.Page, NaN, Unmarked, Empty, NoText, Empty, Uncoded)
  BY DEF Body, BodyOf, Unmarked, Empty, NoText, Uncoded
<1>2. buildTLSFields(res) = PutTLS(Body(res.Page), res.TLS)
  BY DEF buildTLSFields, PutTLS
<1>3. buildTLSFields(res) = BodyOf(res.Page, NaN, res.TLS, Empty, NoText, Empty, Uncoded)
  BY <1>1, <1>2, BodyPuts
<1>4. buildBaseResponse(res) = PutArgs(buildTLSFields(res), ToSet(res.Params))
  BY DEF buildBaseResponse, PutArgs
<1>5. buildBaseResponse(res) =
        BodyOf(res.Page, NaN, res.TLS, ToSet(res.Params), NoText, Empty, Uncoded)
  BY <1>3, <1>4, BodyPuts
<1>. QED
  BY <1>1, <1>3, <1>5

\* A result without a directive: a body, and a content type of one piece.
Yields(res, result, n, tls_, args, data, cookies, coding, type) ==
  result = Returns(BodyOf(res.Page, n, tls_, args, data, cookies, coding), <<type>>)

\* The pages of the echo that return the data as well.
EchoesData(page) == page \in {"/post", "/put", "/patch", "/anything", "/anything/"}

\* What /get and its like return: the query, and the data of a request that has a body.
LEMMA EchoReturns ==
  ASSUME NEW res, NEW connected, NEW count,
         res.Page \in {"/get", "/post", "/put", "/patch", "/delete", "/anything", "/anything/"}
  PROVE  Yields(res, Handle(res, connected, count), NaN, res.TLS, ToSet(res.Params),
                 IF EchoesData(res.Page) THEN res.Data ELSE NoText, Empty, Uncoded,
                 "application/json")
<1>1. Handle(res, connected, count) = Echo(res)
  BY DEF Handle, Pages, Searches, Codings, Images
<1>2. Handle(res, connected, count) =
        Returns(IF EchoesData(res.Page) THEN PutData(buildBaseResponse(res), res.Data)
                ELSE buildBaseResponse(res), <<"application/json">>)
  BY <1>1 DEF Echo, EchoesData, Json, PutData
<1>3. PutData(buildBaseResponse(res), res.Data) =
        BodyOf(res.Page, NaN, res.TLS, ToSet(res.Params), res.Data, Empty, Uncoded)
  BY BodiesAre, BodyPuts
<1>. QED
  BY <1>2, <1>3, BodiesAre DEF Yields

\* The pages that return nothing but the TLS details.
LEMMA TLSReturns ==
  ASSUME NEW res, NEW connected, NEW count,
         res.Page \in {"/headers", "/ip", "/user-agent", "/json", "/cookies/delete",
                       "/openapi.json", "/api/all", "/api/tls", "/api/clean"}
  PROVE  Yields(res, Handle(res, connected, count), NaN, res.TLS, Empty, NoText, Empty, Uncoded,
                 "application/json")
<1>1. Handle(res, connected, count) = Returns(buildTLSFields(res), Json)
  BY DEF Handle, Pages, Searches, Codings, Images
<1>. QED
  BY <1>1, BodiesAre DEF Yields, Json

\* The pages, files and images that are the same for everyone.
LEMMA StaticReturns ==
  ASSUME NEW res, NEW connected, NEW count,
         res.Page \in Pages \cup DOMAIN Images \cup {"/robots.txt", "/deny", "/api/sni"}
  PROVE  \E type :
           /\ Yields(res, Handle(res, connected, count), NaN, Unmarked, Empty, NoText, Empty,
                      Uncoded, type)
           /\ res.Page \in Pages => type = "text/html"
           /\ res.Page \in {"/robots.txt", "/deny"} => type = "text/plain"
           /\ res.Page = "/api/sni" => type = "application/json"
           /\ res.Page \in DOMAIN Images => type = Images[res.Page]
<1>. DEFINE Made(type) == Returns(Body(res.Page), <<type>>)
<1>1. ASSUME res.Page \in Pages PROVE Handle(res, connected, count) = Made("text/html")
  BY <1>1 DEF Handle, Pages, Searches, Codings, Images
<1>2. ASSUME res.Page \in {"/robots.txt", "/deny"}
      PROVE  Handle(res, connected, count) = Made("text/plain")
  BY <1>2 DEF Handle, Pages, Searches, Codings, Images
<1>3. ASSUME res.Page = "/api/sni" PROVE Handle(res, connected, count) = Made("application/json")
  <2>1. Handle(res, connected, count) = apiSNI(res)
    BY <1>3 DEF Handle, Pages, Searches, Codings, Images
  <2>2. PutData(Body(res.Page), NoText) = Body(res.Page)
    BY BodiesAre, BodyPuts
  <2>. QED
    BY <2>1, <2>2 DEF apiSNI, PutData, NoText, Json
<1>4. ASSUME res.Page \in DOMAIN Images
      PROVE  Handle(res, connected, count) = Made(Images[res.Page])
  BY <1>4 DEF Handle, Pages, Searches, Codings, Images
<1>5. \A type : Yields(res, Made(type), NaN, Unmarked, Empty, NoText, Empty, Uncoded, type)
  BY BodiesAre DEF Yields
<1>6. /\ Pages \cap ({"/robots.txt", "/deny", "/api/sni"} \cup DOMAIN Images) = {}
      /\ {"/robots.txt", "/deny", "/api/sni"} \cap DOMAIN Images = {}
  BY DEF Pages, Images
<1>. HIDE DEF Made
<1>7. CASE res.Page \in Pages
  BY <1>1, <1>5, <1>6, <1>7
<1>8. CASE res.Page \in {"/robots.txt", "/deny"}
  BY <1>2, <1>5, <1>6, <1>8
<1>9. CASE res.Page = "/api/sni"
  BY <1>3, <1>5, <1>6, <1>9
<1>10. CASE res.Page \in DOMAIN Images
  BY <1>4, <1>5, <1>6, <1>10
<1>. QED
  BY <1>7, <1>8, <1>9, <1>10

\* The pages that put one thing into the body.

\* An unknown page says how many requests there have been.
LEMMA LostReturns ==
  ASSUME NEW res, NEW connected, NEW count, res.Page = "404"
  PROVE  Yields(res, Handle(res, connected, count),
                 Total(connected, count), Unmarked, Empty, NoText, Empty, Uncoded,
                 "text/html")
<1>1. Handle(res, connected, count) =
        Returns(PutNumber(Body(res.Page), Total(connected, count)), <<"text/html">>)
  BY DEF Handle, Pages, Searches, Codings, Images, Total, PutNumber
<1>2. PICK x : x = Total(connected, count)
  OBVIOUS
<1>3. PutNumber(Body(res.Page), x) = BodyOf(res.Page, x, Unmarked, Empty, NoText, Empty, Uncoded)
  BY BodiesAre, BodyPuts
<1>. QED
  BY <1>1, <1>2, <1>3 DEF Yields

\* /cookies returns the cookies of the request.
LEMMA CookiesReturn ==
  ASSUME NEW res, NEW connected, NEW count, res.Page = "/cookies"
  PROVE  Yields(res, Handle(res, connected, count),
                 NaN, res.TLS, Empty, NoText, res.Cookies, Uncoded,
                 "application/json")
<1>1. Handle(res, connected, count) =
        Returns(PutCookies(buildTLSFields(res), res.Cookies), <<"application/json">>)
  BY DEF Handle, Pages, Searches, Codings, Images, httpbinCookies, Json, PutCookies
<1>2. PICK x : x = res.Cookies
  OBVIOUS
<1>3. PutCookies(buildTLSFields(res), x) = BodyOf(res.Page, NaN, res.TLS, Empty, NoText, x, Uncoded)
  BY BodiesAre, BodyPuts
<1>. QED
  BY <1>1, <1>2, <1>3 DEF Yields

\* /status/n returns the number it was asked for, 200 when that is no status.
LEMMA StatusReturns ==
  ASSUME NEW res, NEW connected, NEW count, res.Page = "/status/"
  PROVE  Yields(res, Handle(res, connected, count),
                 Within(res, 100, 599, 200), res.TLS, Empty, NoText, Empty, Uncoded,
                 "application/json")
<1>1. Handle(res, connected, count) =
        Returns(PutNumber(buildTLSFields(res), Within(res, 100, 599, 200)), <<"application/json">>)
  BY DEF Handle, Pages, Searches, Codings, Images, httpbinStatus, Json, PutNumber
<1>2. PICK x : x = Within(res, 100, 599, 200)
  OBVIOUS
<1>3. PutNumber(buildTLSFields(res), x)
        = BodyOf(res.Page, x, res.TLS, Empty, NoText, Empty, Uncoded)
  BY BodiesAre, BodyPuts
<1>. QED
  BY <1>1, <1>2, <1>3 DEF Yields

\* /delay/n returns the seconds it waited.
LEMMA DelayReturns ==
  ASSUME NEW res, NEW connected, NEW count, res.Page = "/delay/"
  PROVE  Yields(res, Handle(res, connected, count),
                 Within(res, 1, 10, 1), res.TLS, ToSet(res.Params), NoText, Empty, Uncoded,
                 "application/json")
<1>1. Handle(res, connected, count) =
        Returns(PutNumber(buildBaseResponse(res), Within(res, 1, 10, 1)), <<"application/json">>)
  BY DEF Handle, Pages, Searches, Codings, Images, httpbinDelay, Json, PutNumber
<1>2. PICK x : x = Within(res, 1, 10, 1)
  OBVIOUS
<1>3. PutNumber(buildBaseResponse(res), x)
        = BodyOf(res.Page, x, res.TLS, ToSet(res.Params), NoText, Empty, Uncoded)
  BY BodiesAre, BodyPuts
<1>. QED
  BY <1>1, <1>2, <1>3 DEF Yields

\* The compressed pages mark the body with their coding.
LEMMA CompressedReturns ==
  ASSUME NEW res, NEW connected, NEW count, res.Page \in DOMAIN Codings
  PROVE  Yields(res, Handle(res, connected, count),
                 NaN, res.TLS, ToSet(res.Params), NoText, Empty, Codings[res.Page],
                 "application/json; charset=utf-8")
<1>1. Handle(res, connected, count) =
        Returns(PutCoding(buildBaseResponse(res), Codings[res.Page]),
                <<"application/json; charset=utf-8">>)
  BY DEF Handle, Pages, Searches, Codings, Images, Compressed, PutCoding
<1>2. PICK x : x = Codings[res.Page]
  OBVIOUS
<1>3. PutCoding(buildBaseResponse(res), x)
        = BodyOf(res.Page, NaN, res.TLS, ToSet(res.Params), NoText, Empty, x)
  BY BodiesAre, BodyPuts
<1>. QED
  BY <1>1, <1>2, <1>3 DEF Yields

\* /stream/n returns the number of lines.
LEMMA StreamReturns ==
  ASSUME NEW res, NEW connected, NEW count, res.Page = "/stream/"
  PROVE  Yields(res, Handle(res, connected, count),
                 Within(res, 1, 100, 3), res.TLS, Empty, NoText, Empty, Uncoded,
                 "application/json")
<1>1. Handle(res, connected, count) =
        Returns(PutNumber(buildTLSFields(res), Within(res, 1, 100, 3)), <<"application/json">>)
  BY DEF Handle, Pages, Searches, Codings, Images, Counted, Json, PutNumber
<1>2. PICK x : x = Within(res, 1, 100, 3)
  OBVIOUS
<1>3. PutNumber(buildTLSFields(res), x)
        = BodyOf(res.Page, x, res.TLS, Empty, NoText, Empty, Uncoded)
  BY BodiesAre, BodyPuts
<1>. QED
  BY <1>1, <1>2, <1>3 DEF Yields

\* /sse returns the number of events.
LEMMA EventsReturn ==
  ASSUME NEW res, NEW connected, NEW count, res.Page \in {"/sse", "/sse/"}
  PROVE  Yields(res, Handle(res, connected, count),
                 Within(res, 1, 100, 3), res.TLS, Empty, NoText, Empty, Uncoded,
                 "text/event-stream")
<1>1. Handle(res, connected, count) =
        Returns(PutNumber(buildTLSFields(res), Within(res, 1, 100, 3)), <<"text/event-stream">>)
  BY DEF Handle, Pages, Searches, Codings, Images, Counted, PutNumber
<1>2. PICK x : x = Within(res, 1, 100, 3)
  OBVIOUS
<1>3. PutNumber(buildTLSFields(res), x)
        = BodyOf(res.Page, x, res.TLS, Empty, NoText, Empty, Uncoded)
  BY BodiesAre, BodyPuts
<1>. QED
  BY <1>1, <1>2, <1>3 DEF Yields

\* What a search of the log says.
Says(res, connected) ==
  IF ~connected THEN "not connected"
  ELSE IF GetParam("by", res.Params) = <<>> THEN "no by" ELSE "found"

\* The searches say what they found.
LEMMA SearchReturns ==
  ASSUME NEW res, NEW connected, NEW count, res.Page \in Searches
  PROVE  Yields(res, Handle(res, connected, count),
                 NaN, Unmarked, Empty, Says(res, connected), Empty, Uncoded,
                 "application/json")
<1>1. Handle(res, connected, count) =
        Returns(PutData(Body(res.Page), Says(res, connected)), <<"application/json">>)
  BY DEF Handle, Pages, Searches, Codings, Images, Search, Says, Json, PutData
<1>2. PICK x : x = Says(res, connected)
  OBVIOUS
<1>3. PutData(Body(res.Page), x) = BodyOf(res.Page, NaN, Unmarked, Empty, x, Empty, Uncoded)
  BY BodiesAre, BodyPuts
<1>. QED
  BY <1>1, <1>2, <1>3 DEF Yields

\* The request count is a number with a database and a message without one.
LEMMA CountReturns ==
  ASSUME NEW res, NEW connected, NEW count, res.Page = "/api/request-count"
  PROVE  \E n, data : Yields(res, Handle(res, connected, count), n, Unmarked, Empty, data, Empty,
                              Uncoded, "application/json")
<1>1. Handle(res, connected, count) =
        Returns(IF connected THEN PutNumber(Body(res.Page), count)
                ELSE PutData(Body(res.Page), "not connected"), <<"application/json">>)
  BY DEF Handle, Pages, Searches, Codings, Images, requestCount, Json, PutNumber, PutData
<1>2. PICK text : text = "not connected"
  OBVIOUS
<1>3. /\ PutNumber(Body(res.Page), count) =
           BodyOf(res.Page, count, Unmarked, Empty, NoText, Empty, Uncoded)
      /\ PutData(Body(res.Page), text) =
           BodyOf(res.Page, NaN, Unmarked, Empty, text, Empty, Uncoded)
  BY BodiesAre, BodyPuts
<1>. QED
  BY <1>1, <1>2, <1>3 DEF Yields

\* Whether there are TLS details, and the type of the pages that read them unasked.
HasDetails(res) == res.TLS
RawType(page) ==
  CASE page = "/html" -> "text/html; charset=utf-8"
    [] page = "/xml" -> "application/xml"
    [] page = "/api/raw" -> "application/json"

\* The pages that read the TLS details fail over HTTP/3, which has none.
LEMMA RawReturns ==
  ASSUME NEW res, NEW connected, NEW count, res.Page \in {"/html", "/xml", "/api/raw"}
  PROVE  /\ HasDetails(res) =>
              Yields(res, Handle(res, connected, count), NaN, res.TLS, Empty, NoText, Empty,
                     Uncoded, RawType(res.Page))
         /\ ~HasDetails(res) => Handle(res, connected, count) = Panics
<1>1. PICK type : type = RawType(res.Page)
  OBVIOUS
<1>2. Handle(res, connected, count) = ReadsTLS(res, <<type>>)
  <2>1. CASE res.Page = "/html"
    BY <1>1, <2>1 DEF RawType, Handle, Pages, Searches, Codings, Images
  <2>2. CASE res.Page = "/xml"
    BY <1>1, <2>2 DEF RawType, Handle, Pages, Searches, Codings, Images
  <2>3. CASE res.Page = "/api/raw"
    BY <1>1, <2>3 DEF RawType, Handle, Pages, Searches, Codings, Images, Json
  <2>. QED
    BY <2>1, <2>2, <2>3
<1>3. ReadsTLS(res, <<type>>) =
        IF HasDetails(res)
        THEN Returns(BodyOf(res.Page, NaN, res.TLS, Empty, NoText, Empty, Uncoded), <<type>>)
        ELSE Panics
  BY BodiesAre DEF ReadsTLS, HasDetails
<1>4. Handle(res, connected, count) =
        IF HasDetails(res)
        THEN Returns(BodyOf(res.Page, NaN, res.TLS, Empty, NoText, Empty, Uncoded), <<type>>)
        ELSE Panics
  BY <1>2, <1>3
<1>. QED
  BY <1>1, <1>4 DEF Yields

\* Whether the request brings the bytes that /bytes/ is to return.
GivesBytes(res) == res.Method \in {"POST", "PUT"} /\ res.Data # ""

\* /bytes/n returns the bytes it is given, or n of its own.
LEMMA BytesReturn ==
  ASSUME NEW res, NEW connected, NEW count, res.Page = "/bytes/"
  PROVE  IF GivesBytes(res)
         THEN Yields(res, Handle(res, connected, count), NaN, Unmarked, Empty, res.Data, Empty,
                      Uncoded, "application/octet-stream")
         ELSE Yields(res, Handle(res, connected, count), Within(res, 1, 102400, 100), Unmarked,
                      Empty, NoText, Empty, Uncoded, "application/octet-stream")
<1>1. Handle(res, connected, count) =
        Returns(IF GivesBytes(res)
                THEN PutData(Body(res.Page), res.Data)
                ELSE PutNumber(Body(res.Page), Within(res, 1, 102400, 100)),
                <<"application/octet-stream">>)
  BY DEF Handle, Pages, Searches, Codings, Images, httpbinBytes, GivesBytes, PutNumber, PutData
<1>2. /\ PutNumber(Body(res.Page), Within(res, 1, 102400, 100)) =
           BodyOf(res.Page, Within(res, 1, 102400, 100), Unmarked, Empty, NoText, Empty, Uncoded)
      /\ PutData(Body(res.Page), res.Data) =
           BodyOf(res.Page, NaN, Unmarked, Empty, res.Data, Empty, Uncoded)
  BY BodiesAre, BodyPuts
<1>. QED
  BY <1>1, <1>2 DEF Yields

\* /base64/ returns the decoded text, or says that there is none.
LEMMA Base64Returns ==
  ASSUME NEW res, NEW connected, NEW count, res.Page = "/base64/"
  PROVE  IF res.Arg = NaN
         THEN Yields(res, Handle(res, connected, count), NaN, Unmarked, Empty, "Invalid base64",
                      Empty, Uncoded, "text/plain")
         ELSE Yields(res, Handle(res, connected, count), res.Arg, Unmarked, Empty, NoText, Empty,
                      Uncoded, "text/html; charset=utf-8")
<1>1. Handle(res, connected, count) =
        IF res.Arg = NaN
        THEN Returns(PutData(Body(res.Page), "Invalid base64"), <<"text/plain">>)
        ELSE Returns(PutNumber(Body(res.Page), res.Arg), <<"text/html; charset=utf-8">>)
  BY DEF Handle, Pages, Searches, Codings, Images, httpbinBase64, PutNumber, PutData
<1>2. PICK text : text = "Invalid base64"
  OBVIOUS
<1>3. /\ PutNumber(Body(res.Page), res.Arg) =
           BodyOf(res.Page, res.Arg, Unmarked, Empty, NoText, Empty, Uncoded)
      /\ PutData(Body(res.Page), text) =
           BodyOf(res.Page, NaN, Unmarked, Empty, text, Empty, Uncoded)
  BY BodiesAre, BodyPuts
<1>. QED
  BY <1>1, <1>2, <1>3 DEF Yields

\* The cookies of a query, as texts and as a list of them.
Cookie(name, value) == <<name, "=">> \o value
CookieTexts(params) == [i \in DOMAIN params |-> Cookie(params[i][1], params[i][2])]

\* /cookies/set returns the query, and directs that its cookies be set.
LEMMA CookiesSetReturns ==
  ASSUME NEW res, NEW connected, NEW count, res.Page = "/cookies/set"
  PROVE  IF res.Params = <<>>
         THEN Yields(res, Handle(res, connected, count), NaN, res.TLS, Empty, NoText,
                      ToSet(res.Params), Uncoded, "application/json")
         ELSE Handle(res, connected, count) =
                Returns(BodyOf(res.Page, NaN, res.TLS, Empty, NoText, ToSet(res.Params), Uncoded),
                        CookieDirective(CookieTexts(res.Params)))
<1>1. Handle(res, connected, count) = httpbinCookiesSet(res)
  BY DEF Handle, Pages, Searches, Codings, Images
<1>2. Handle(res, connected, count) =
        Returns(PutCookies(buildTLSFields(res), ToSet(res.Params)),
                IF res.Params = <<>> THEN <<"application/json">>
                ELSE CookieDirective(CookieTexts(res.Params)))
  BY <1>1 DEF httpbinCookiesSet, PutCookies, Json, CookieTexts, Cookie
<1>3. PutCookies(buildTLSFields(res), ToSet(res.Params)) =
        BodyOf(res.Page, NaN, res.TLS, Empty, NoText, ToSet(res.Params), Uncoded)
  BY BodiesAre, BodyPuts
<1>. QED
  BY <1>2, <1>3 DEF Yields

-----------------------------------------------------------------------------
(* What the clients are answered                                           *)

\* An answer with all its fields, and an answer with some of them replaced.
AnswerOf(status, type, location, cookies, coding, cors, body) ==
  [status |-> status, type |-> type, location |-> location, cookies |-> cookies,
   coding |-> coding, cors |-> cors, body |-> body]

Nothing == <<>>
PutCookiesAndType(a, cookies, type) == [a EXCEPT !.cookies = cookies, !.type = type]
PutLocation(a, location, body, type) ==
  [a EXCEPT !.location = location, !.body = body, !.type = type]
PutCodingAndCors(a, coding, cors) == [a EXCEPT !.coding = coding, !.cors = cors]
PutType(a, type) == [a EXCEPT !.type = type]

\* The cookies and the type put into an answer.
LEMMA CookiesPut ==
  ASSUME NEW s, NEW t, NEW l, NEW k, NEW g, NEW o, NEW b, NEW x, NEW y
  PROVE  PutCookiesAndType(AnswerOf(s, t, l, k, g, o, b), x, y) = AnswerOf(s, y, l, x, g, o, b)
<1>1. /\ [AnswerOf(s, t, l, k, g, o, b) EXCEPT !.cookies = x] = AnswerOf(s, t, l, x, g, o, b)
      /\ [AnswerOf(s, t, l, x, g, o, b) EXCEPT !.type = y] = AnswerOf(s, y, l, x, g, o, b)
  BY DEF AnswerOf
<1>. QED
  BY <1>1 DEF PutCookiesAndType

\* The location, the body and the type put into an answer.
LEMMA LocationPut ==
  ASSUME NEW s, NEW t, NEW l, NEW k, NEW g, NEW o, NEW b, NEW x, NEW y, NEW z
  PROVE  PutLocation(AnswerOf(s, t, l, k, g, o, b), x, y, z) = AnswerOf(s, z, x, k, g, o, y)
<1>1. /\ [AnswerOf(s, t, l, k, g, o, b) EXCEPT !.location = x] = AnswerOf(s, t, x, k, g, o, b)
      /\ [AnswerOf(s, t, x, k, g, o, b) EXCEPT !.body = y] = AnswerOf(s, t, x, k, g, o, y)
      /\ [AnswerOf(s, t, x, k, g, o, y) EXCEPT !.type = z] = AnswerOf(s, z, x, k, g, o, y)
  BY DEF AnswerOf
<1>. QED
  BY <1>1 DEF PutLocation

\* The coding and the CORS header put into an answer.
LEMMA CodingPut ==
  ASSUME NEW s, NEW t, NEW l, NEW k, NEW g, NEW o, NEW b, NEW x, NEW y
  PROVE  PutCodingAndCors(AnswerOf(s, t, l, k, g, o, b), x, y) = AnswerOf(s, t, l, k, x, y, b)
<1>1. /\ [AnswerOf(s, t, l, k, g, o, b) EXCEPT !.coding = x] = AnswerOf(s, t, l, k, x, o, b)
      /\ [AnswerOf(s, t, l, k, x, o, b) EXCEPT !.cors = y] = AnswerOf(s, t, l, k, x, y, b)
  BY DEF AnswerOf
<1>. QED
  BY <1>1 DEF PutCodingAndCors

\* The fields of an answer.
LEMMA AnswerFields ==
  ASSUME NEW s, NEW t, NEW l, NEW k, NEW g, NEW o, NEW b
  PROVE  /\ AnswerOf(s, t, l, k, g, o, b).status = s /\ AnswerOf(s, t, l, k, g, o, b).type = t
         /\ AnswerOf(s, t, l, k, g, o, b).location = l
         /\ AnswerOf(s, t, l, k, g, o, b).cookies = k
         /\ AnswerOf(s, t, l, k, g, o, b).coding = g /\ AnswerOf(s, t, l, k, g, o, b).cors = o
         /\ AnswerOf(s, t, l, k, g, o, b).body = b
  BY DEF AnswerOf

\* What HTTP/1 makes of an answer.
LEMMA LinesPut ==
  ASSUME NEW s, NEW t, NEW l, NEW k, NEW g, NEW o, NEW b
  PROVE  WrittenOut(AnswerOf(s, t, l, k, g, o, b)) =
           AnswerOf(s, TypeLine(t), Line(l), Lines(k), g, o, b)
<1>1. PICK x, y, z : x = TypeLine(t) /\ y = Line(l) /\ z = Lines(k)
  OBVIOUS
<1>2. PICK a : a = AnswerOf(s, t, l, k, g, o, b)
  OBVIOUS
<1>3. a.type = t /\ a.location = l /\ a.cookies = k
  BY <1>2, AnswerFields
<1>4. WrittenOut(a) = [a EXCEPT !.type = x, !.location = y, !.cookies = z]
  <2>1. /\ TypeLine(a.type) = x /\ Line(a.location) = y /\ Lines(a.cookies) = z
    BY <1>1, <1>3
  <2>2. WrittenOut(a) = [a EXCEPT !.type = TypeLine(a.type), !.location = Line(a.location),
                                  !.cookies = Lines(a.cookies)]
    BY Zenon DEF WrittenOut
  <2>. QED
    BY <2>1, <2>2
<1>5. [a EXCEPT !.type = x] = AnswerOf(s, x, l, k, g, o, b)
  BY <1>2 DEF AnswerOf
<1>6. [AnswerOf(s, x, l, k, g, o, b) EXCEPT !.location = y] = AnswerOf(s, x, y, k, g, o, b)
  BY DEF AnswerOf
<1>7. [AnswerOf(s, x, y, k, g, o, b) EXCEPT !.cookies = z] = AnswerOf(s, x, y, z, g, o, b)
  BY DEF AnswerOf
<1>8. WrittenOut(a) = AnswerOf(s, x, y, z, g, o, b)
  BY <1>4, <1>5, <1>6, <1>7
<1>. QED
  BY <1>1, <1>2, <1>8

\* The type put into an answer.
LEMMA TypePut ==
  ASSUME NEW s, NEW t, NEW l, NEW k, NEW g, NEW o, NEW b, NEW x
  PROVE  PutType(AnswerOf(s, t, l, k, g, o, b), x) = AnswerOf(s, x, l, k, g, o, b)
  BY DEF AnswerOf, PutType

\* The fields of what a handler returns.
LEMMA ReturnsFields ==
  ASSUME NEW body, NEW ctype
  PROVE  Returns(body, ctype).body = body /\ Returns(body, ctype).ctype = ctype
  BY DEF Returns

\* What is answered when nothing was directed.
LEMMA ReturnedIs ==
  ASSUME NEW body, NEW ctype, NEW status
  PROVE  AsReturned(Returns(body, ctype), status) =
           AnswerOf(status, ctype, Nothing, Nothing, Uncoded, Unmarked, body)
  BY ReturnsFields DEF AsReturned, AnswerOf, Nothing, Uncoded, Unmarked

\* Without a directive.
LEMMA DirectedPlain ==
  ASSUME NEW body, NEW type, type \notin {"redirect", "set-cookies"}, NEW status
  PROVE  /\ Directed(Returns(body, <<type>>), status) =
              AnswerOf(status, <<type>>, Nothing, Nothing, Uncoded, Unmarked, body)
         /\ ~IsRedirect(<<type>>) /\ ~SetsCookies(<<type>>)
<1>1. PICK ctype : ctype = <<type>>
  OBVIOUS
<1>2. ~IsRedirect(ctype) /\ ~SetsCookies(ctype)
  BY <1>1 DEF IsRedirect, SetsCookies
<1>3. Returns(body, ctype).ctype = ctype
  BY ReturnsFields
<1>4. Directed(Returns(body, ctype), status) = AsReturned(Returns(body, ctype), status)
  BY <1>2, <1>3 DEF Directed
<1>. QED
  BY <1>1, <1>2, <1>4, ReturnedIs

\* The address a redirect's answer has, with the code as its status.
OnwardAnswer(code, url) ==
  AnswerOf(Atoi(<<Decimal[code]>>), <<"text/html; charset=utf-8">>, url, Nothing, Uncoded,
           Unmarked, NoBody)

\* With that of a redirect.
LEMMA DirectedRedirect ==
  ASSUME NEW body, NEW url, NEW status, NEW code \in 1..599, IsText(url)
  PROVE  /\ Directed(Returns(body, RedirectDirective(code, url)), status) = OnwardAnswer(code, url)
         /\ Redirected(Returns(body, RedirectDirective(code, url)), status) =
              OnwardAnswer(code, url)
<1>1. PICK ctype : ctype = RedirectDirective(code, url)
  OBVIOUS
<1>2. PICK S : S = ToSet(url)
  OBVIOUS
<1>3. url \in Seq(S)
  BY <1>2 DEF IsText
<1>4. SplitN(ctype) = <<<<"redirect">>, <<Decimal[code]>>, url>> /\ IsRedirect(ctype)
  BY <1>1, <1>3, RedirectParts, Zenon
<1>5. Returns(body, ctype).ctype = ctype
  BY ReturnsFields
<1>6. PICK number : number = Atoi(<<Decimal[code]>>)
  OBVIOUS
<1>7. PICK html : html = <<"text/html; charset=utf-8">>
  OBVIOUS
<1>8. SplitN(ctype)[2] = <<Decimal[code]>> /\ SplitN(ctype)[3] = url
  BY <1>4
<1>9. Redirected(Returns(body, ctype), status) =
        PutLocation(AsReturned(Returns(body, ctype), number), url, NoBody, html)
  BY <1>5, <1>6, <1>7, <1>8 DEF Redirected, PutLocation
<1>10. Redirected(Returns(body, ctype), status) =
         AnswerOf(number, html, url, Nothing, Uncoded, Unmarked, NoBody)
  BY <1>9, ReturnedIs, LocationPut
<1>11. Directed(Returns(body, ctype), status) = Redirected(Returns(body, ctype), status)
  BY <1>4, <1>5 DEF Directed
<1>. QED
  BY <1>1, <1>6, <1>7, <1>10, <1>11 DEF OnwardAnswer

\* With that of cookies.
LEMMA DirectedCookies ==
  ASSUME NEW body, NEW ctype, SetsCookies(ctype), NEW status
  PROVE  /\ Directed(Returns(body, ctype), status) =
              AnswerOf(status, SplitN(ctype)[3], Nothing, SplitBars(SplitN(ctype)[2]),
                       Uncoded, Unmarked, body)
         /\ ~IsRedirect(ctype)
<1>1. ~IsRedirect(ctype)
  BY DEF SetsCookies, IsRedirect
<1>2. Returns(body, ctype).ctype = ctype
  BY ReturnsFields
<1>3. PICK cookies, type : cookies = SplitBars(SplitN(ctype)[2]) /\ type = SplitN(ctype)[3]
  OBVIOUS
<1>4. Directed(Returns(body, ctype), status) =
        PutCookiesAndType(AsReturned(Returns(body, ctype), status), cookies, type)
  BY <1>1, <1>2, <1>3 DEF Directed, WithCookies, PutCookiesAndType
<1>5. Directed(Returns(body, ctype), status) =
        AnswerOf(status, type, Nothing, cookies, Uncoded, Unmarked, body)
  <2>1. AsReturned(Returns(body, ctype), status) =
          AnswerOf(status, ctype, Nothing, Nothing, Uncoded, Unmarked, body)
    BY ReturnedIs
  <2>. QED
    BY <1>4, <2>1, CookiesPut
<1>. QED
  BY <1>1, <1>3, <1>5

\* What each protocol directs, its status, and what it puts into the answer.
RoutedBy(r, protocol, result) ==
  IF protocol = Http1 /\ r.method = "OPTIONS" THEN Returns(NoBody, <<"text/plain">>) ELSE result
StatusBy(r, protocol) == IF protocol = Http3 THEN 200 ELSE extractStatusCode(r)
CodingBy(r, protocol) == IF protocol = Http3 THEN Uncoded ELSE ContentEncoding(r)
Typed(protocol, ctype, type) ==
  IF protocol = Http1 THEN TypeLine(type)
  ELSE IF protocol = Http3 /\ IsRedirect(ctype) THEN <<"none">> ELSE type
Located(protocol, location) == IF protocol = Http1 THEN Line(location) ELSE location
Baked(protocol, cookies) == IF protocol = Http1 THEN Lines(cookies) ELSE cookies

\* An answer over a protocol, from what it directs: the status and the body are
\* kept, the coding is the page's own, HTTP/1 cuts its lines, and HTTP/3 has no
\* coding.
LEMMA RespondAnswers ==
  ASSUME NEW r, NEW protocol \in {Http1, Http2, Http3}, NEW result,
         NEW s, NEW t, NEW l, NEW k, NEW b,
         Directed(RoutedBy(r, protocol, result), StatusBy(r, protocol)) =
           AnswerOf(s, t, l, k, Uncoded, Unmarked, b)
  PROVE  \E cors :
           Respond(r, protocol, result) =
             AnswerOf(s, Typed(protocol, result.ctype, t), Located(protocol, l), Baked(protocol, k),
                      CodingBy(r, protocol), cors, b)
<1>0. Http1 # Http2 /\ Http1 # Http3 /\ Http2 # Http3
  BY DEF Http1, Http2, Http3
<1>1. CASE protocol = Http1
  <2>1. PICK g, o : /\ g = ContentEncoding(r)
                    /\ o = (r.method = "OPTIONS" \/ (KeyIsSet /\ r.key))
    OBVIOUS
  <2>2. Respond(r, protocol, result) = respondToHTTP1(r, result)
    BY <1>0, <1>1 DEF Respond
  <2>3. PICK x : /\ x = Directed(RoutedBy(r, protocol, result), StatusBy(r, protocol))
                 /\ x = AnswerOf(s, t, l, k, Uncoded, Unmarked, b)
    OBVIOUS
  <2>4. PICK v, w, y : v = TypeLine(t) /\ w = Line(l) /\ y = Lines(k)
    OBVIOUS
  <2>5. WrittenOut(x) = AnswerOf(s, v, w, y, Uncoded, Unmarked, b)
    BY <2>3, <2>4, LinesPut
  <2>7. respondToHTTP1(r, result) = PutCodingAndCors(WrittenOut(x), g, o)
    BY <1>0, <1>1, <2>1, <2>3 DEF respondToHTTP1, PutCodingAndCors, RoutedBy, StatusBy
  <2>8. respondToHTTP1(r, result) = AnswerOf(s, v, w, y, g, o, b)
    BY <2>5, <2>7, CodingPut
  <2>9. /\ Typed(protocol, result.ctype, t) = v /\ CodingBy(r, protocol) = g
        /\ Located(protocol, l) = w /\ Baked(protocol, k) = y
    BY <1>0, <1>1, <2>1, <2>4 DEF Typed, CodingBy, Located, Baked
  <2>. QED
    BY <2>2, <2>8, <2>9
<1>2. CASE protocol = Http2
  <2>1. PICK g, o : /\ g = ContentEncoding(r)
                    /\ o = (KeyIsSet /\ (r.method = "OPTIONS" \/ (r.key /\ KeyIsLower)))
    OBVIOUS
  <2>2. Respond(r, protocol, result) = sendResponse(r, result)
    BY <1>0, <1>2 DEF Respond
  <2>3. sendResponse(r, result) =
          PutCodingAndCors(Directed(RoutedBy(r, protocol, result), StatusBy(r, protocol)), g, o)
    BY <1>0, <1>2, <2>1 DEF sendResponse, PutCodingAndCors, RoutedBy, StatusBy
  <2>4. sendResponse(r, result) = AnswerOf(s, t, l, k, g, o, b)
    BY <2>3, CodingPut
  <2>5. /\ Typed(protocol, result.ctype, t) = t /\ CodingBy(r, protocol) = g
        /\ Located(protocol, l) = l /\ Baked(protocol, k) = k
    BY <1>0, <1>2, <2>1 DEF Typed, CodingBy, Located, Baked
  <2>. QED
    BY <1>0, <1>2, <2>2, <2>4, <2>5
<1>3. CASE protocol = Http3
  <2>0. Located(protocol, l) = l /\ Baked(protocol, k) = k
    BY <1>0, <1>3 DEF Located, Baked
  <2>1. Respond(r, protocol, result) = HandleHTTP3(r, result)
    BY <1>0, <1>3 DEF Respond
  <2>2. Directed(result, 200) = AnswerOf(s, t, l, k, Uncoded, Unmarked, b)
    BY <1>0, <1>3 DEF RoutedBy, StatusBy
  <2>3. CASE IsRedirect(result.ctype)
    <3>1. PICK none : none = <<"none">>
      OBVIOUS
    <3>2. HandleHTTP3(r, result) = PutType(Redirected(result, 200), none)
      BY <2>3, <3>1 DEF HandleHTTP3, PutType
    <3>3. Redirected(result, 200) = Directed(result, 200)
      BY <2>3 DEF Directed
    <3>5. HandleHTTP3(r, result) = AnswerOf(s, none, l, k, Uncoded, Unmarked, b)
      BY <2>2, <3>2, <3>3, TypePut
    <3>4. Typed(protocol, result.ctype, t) = none /\ CodingBy(r, protocol) = Uncoded
      BY <1>0, <1>3, <2>3, <3>1 DEF Typed, CodingBy
    <3>. QED
      BY <2>0, <2>1, <3>4, <3>5
  <2>4. CASE ~IsRedirect(result.ctype)
    <3>1. HandleHTTP3(r, result) = Directed(result, 200)
      BY <2>4 DEF HandleHTTP3
    <3>2. Typed(protocol, result.ctype, t) = t /\ CodingBy(r, protocol) = Uncoded
      BY <1>0, <1>3, <2>4 DEF Typed, CodingBy
    <3>. QED
      BY <2>0, <2>1, <2>2, <3>1, <3>2
  <2>. QED
    BY <2>3, <2>4
<1>. QED
  BY <1>1, <1>2, <1>3

\* The pages there are, the coding of each, and what no content type is.
AllPages == getAllPaths \cup getDynamicHTTPBinPaths \cup {"404"}
CodingOf(page) == IF page \in DOMAIN Codings THEN Codings[page] ELSE Uncoded
DirectiveNames == {"redirect", "set-cookies", "CRLF"}

\* The pages by what they put into the body.
EchoPages == {"/get", "/post", "/put", "/patch", "/delete", "/anything", "/anything/"}
TLSPages == {"/headers", "/ip", "/user-agent", "/json", "/cookies/delete",
             "/openapi.json", "/api/all", "/api/tls", "/api/clean"}
RawPages == {"/html", "/xml", "/api/raw"}
StaticPages == Pages \cup DOMAIN Images \cup {"/robots.txt", "/deny", "/api/sni"}
EventPages == {"/sse", "/sse/"}
PlainPages ==
  EchoPages \cup TLSPages \cup StaticPages \cup EventPages \cup Searches \cup DOMAIN Codings
    \cup {"/cookies", "/status/", "/delay/", "/stream/", "/bytes/", "/base64/"}

\* What a page that directs nothing puts into each field of the body, and its type.
NumberSaid(res, n) ==
  /\ res.Page = "/status/" => n = Within(res, 100, 599, 200)
  /\ res.Page = "/delay/" => n = Within(res, 1, 10, 1)
  /\ res.Page \in EventPages \cup {"/stream/"} => n = Within(res, 1, 100, 3)
  /\ res.Page = "/bytes/" /\ GivesBytes(res) => n = NaN
  /\ res.Page = "/bytes/" /\ ~GivesBytes(res) => n = Within(res, 1, 102400, 100)
  /\ res.Page = "/base64/" => n = res.Arg
  /\ res.Page \notin EventPages \cup {"/status/", "/delay/", "/stream/", "/bytes/", "/base64/"}
       => n = NaN

MarkSaid(res, t) ==
  IF res.Page \in StaticPages \cup Searches \cup {"/bytes/", "/base64/"} THEN t = Unmarked
  ELSE t = res.TLS

ArgsSaid(res, args) ==
  IF res.Page \in EchoPages \cup DOMAIN Codings \cup {"/delay/"} THEN args = ToSet(res.Params)
  ELSE args = Empty

DataSaid(res, connected, data) ==
  /\ EchoesData(res.Page) => data = res.Data
  /\ res.Page \in Searches => data = Says(res, connected)
  /\ res.Page = "/bytes/" /\ GivesBytes(res) => data = res.Data
  /\ res.Page = "/bytes/" /\ ~GivesBytes(res) => data = NoText
  /\ res.Page = "/base64/" /\ res.Arg = NaN => data = "Invalid base64"
  /\ res.Page = "/base64/" /\ res.Arg # NaN => data = NoText
  /\ ~EchoesData(res.Page) /\ res.Page \notin Searches \cup {"/bytes/", "/base64/"}
       => data = NoText

CookiesSaid(res, cookies) ==
  /\ res.Page = "/cookies" => cookies = res.Cookies
  /\ res.Page = "/cookies/set" => cookies = ToSet(res.Params)
  /\ res.Page \notin {"/cookies", "/cookies/set"} => cookies = Empty

TypeSaid(res, type) ==
  /\ res.Page \in Pages => type = "text/html"
  /\ res.Page \in DOMAIN Images => type = Images[res.Page]
  /\ res.Page \in {"/robots.txt", "/deny"} => type = "text/plain"
  /\ res.Page \in DOMAIN Codings => type = "application/json; charset=utf-8"
  /\ res.Page \in RawPages => type = RawType(res.Page)
  /\ res.Page \in EventPages => type = "text/event-stream"
  /\ res.Page = "/bytes/" => type = "application/octet-stream"
  /\ res.Page = "/base64/" /\ res.Arg = NaN => type = "text/plain"
  /\ res.Page = "/base64/" /\ res.Arg # NaN => type = "text/html; charset=utf-8"
  /\ res.Page \notin Pages \cup DOMAIN Images \cup DOMAIN Codings \cup RawPages \cup EventPages
                        \cup {"/robots.txt", "/deny", "/bytes/", "/base64/"}
       => type = "application/json"

Said(res, connected, n, t, args, data, cookies, type) ==
  /\ NumberSaid(res, n) /\ MarkSaid(res, t) /\ ArgsSaid(res, args)
  /\ DataSaid(res, connected, data) /\ CookiesSaid(res, cookies) /\ TypeSaid(res, type)

\* A result without a directive, that of a redirect, and one that sets cookies.
IsPlain(res, connected, result) ==
  \E n, t, args, data, cookies, type :
    /\ Said(res, connected, n, t, args, data, cookies, type)
    /\ Yields(res, result, n, t, args, data, cookies, CodingOf(res.Page), type)
    /\ type \notin DirectiveNames

\* A result that sends the client on, and one that sets cookies.
IsOnward(result) ==
  \E code \in 1..599 : \E url :
    IsText(url) /\ result = Returns(NoBody, RedirectDirective(code, url))

SetsThem(res, result) ==
  /\ res.Page = "/cookies/set" /\ res.Params # <<>>
  /\ result = Returns(BodyOf(res.Page, NaN, res.TLS, Empty, NoText, ToSet(res.Params), Uncoded),
                      CookieDirective(CookieTexts(res.Params)))

\* A result without a directive, as far as it is labelled.
Undirected(res, result) ==
  \E n, t, args, data, cookies, type :
    /\ Yields(res, result, n, t, args, data, cookies, CodingOf(res.Page), type)
    /\ type \notin DirectiveNames
    /\ res.Page = "/status/" => n = Within(res, 100, 599, 200)
    /\ res.Page = "/cookies/set" => cookies = Empty

\* The address of a page of this server is a text.
LEMMA OwnIsText ==
  ASSUME NEW route, NEW n
  PROVE  IsText(Own(route, n))
<1>1. PICK S : Own(route, n) \in Seq(S)
  <2>1. Own(route, n) \in Seq({"https", ":", "//tlsfingerprint.com", route, Decimal[n]})
    BY OwnIsUrl, Zenon
  <2>. QED
    BY <2>1
<1>. DEFINE url == Own(route, n)
<1>. HIDE DEF url
<1>0. url \in Seq(S)
  BY <1>1 DEF url
<1>2. PICK m \in Nat : m = Len(url) /\ DOMAIN url = 1..m /\ url = [i \in 1..m |-> url[i]]
  BY <1>0
<1>3. \A i \in 1..m : url[i] \in ToSet(url)
  BY <1>2 DEF ToSet
<1>. QED
  BY <1>2, <1>3 DEF IsText, url

\* The pages of the two tables.
LEMMA TableDomains ==
  /\ DOMAIN Images = {"/image/jpeg", "/image/png", "/image/svg", "/image/gif", "/image/webp"}
  /\ DOMAIN Codings = {"/gzip", "/deflate", "/brotli"}
BY DEF Images, Codings

\* A page that directs nothing, when each field is what it says.
LEMMA MadePlain ==
  ASSUME NEW res, NEW connected, NEW result,
         NEW n, NEW t, NEW args, NEW data, NEW cookies, NEW coding, NEW type,
         Yields(res, result, n, t, args, data, cookies, coding, type),
         NumberSaid(res, n), MarkSaid(res, t), ArgsSaid(res, args),
         DataSaid(res, connected, data), CookiesSaid(res, cookies), TypeSaid(res, type),
         coding = CodingOf(res.Page), type \notin DirectiveNames
  PROVE  IsPlain(res, connected, result)
BY Zenon DEF IsPlain, Said

\* What a handler returns, page by page, but for the redirects and the cookies.
LEMMA HandlePlain ==
  ASSUME NEW res, NEW connected, NEW count, NEW result, result = Handle(res, connected, count),
         res.Page \in PlainPages \cup RawPages \cup {"/cookies/set"},
         res.Page \in RawPages => HasDetails(res), res.Page = "/cookies/set" => res.Params = <<>>
  PROVE  IsPlain(res, connected, result)
<1>1. CASE res.Page \in EchoPages
  <2>0. PICK n, t, args : n = NaN /\ t = res.TLS /\ args = ToSet(res.Params)
    OBVIOUS
  <2>1. PICK data, cookies, coding, type :
          /\ data = IF EchoesData(res.Page) THEN res.Data ELSE NoText
          /\ cookies = Empty /\ coding = Uncoded
          /\ type = "application/json"
    OBVIOUS
  <2>2. Yields(res, result, n, t, args, data, cookies, coding, type)
    BY <1>1, <2>0, <2>1, EchoReturns DEF EchoPages
  <2>3. NumberSaid(res, n)
    BY <1>1, <2>0, TableDomains DEF NumberSaid, EchoPages, EventPages
  <2>9. CookiesSaid(res, cookies)
    BY <1>1, <2>1, TableDomains DEF CookiesSaid, EchoPages
  <2>8. MarkSaid(res, t) /\ ArgsSaid(res, args)
    BY <1>1, <2>0, TableDomains DEF MarkSaid, ArgsSaid, StaticPages, Pages, Searches, EchoPages
  <2>4. DataSaid(res, connected, data)
    BY <1>1, <2>1, TableDomains DEF DataSaid, EchoesData, Searches, EchoPages
  <2>5. TypeSaid(res, type)
    BY <1>1, <2>1, TableDomains DEF TypeSaid, Pages, RawPages, EventPages, EchoPages
  <2>7. type \notin DirectiveNames
    BY <1>1, <2>1 DEF DirectiveNames
  <2>6. coding = CodingOf(res.Page)
    BY <1>1, <2>1, TableDomains DEF CodingOf, EchoPages
  <2>. QED
    BY <2>2, <2>3, <2>4, <2>5, <2>6, <2>7, <2>8, <2>9, MadePlain
<1>2. CASE res.Page \in TLSPages
  <2>0. PICK n, t, args : n = NaN /\ t = res.TLS /\ args = Empty
    OBVIOUS
  <2>1. PICK data, cookies, coding, type :
          /\ data = NoText
          /\ cookies = Empty /\ coding = Uncoded
          /\ type = "application/json"
    OBVIOUS
  <2>2. Yields(res, result, n, t, args, data, cookies, coding, type)
    BY <1>2, <2>0, <2>1, TLSReturns DEF TLSPages
  <2>3. NumberSaid(res, n)
    BY <1>2, <2>0, TableDomains DEF NumberSaid, TLSPages, EventPages
  <2>9. CookiesSaid(res, cookies)
    BY <1>2, <2>1, TableDomains DEF CookiesSaid, TLSPages
  <2>8. MarkSaid(res, t) /\ ArgsSaid(res, args)
    BY <1>2, <2>0, TableDomains DEF MarkSaid, ArgsSaid, StaticPages, Pages, Searches, EchoPages,
       TLSPages
  <2>4. DataSaid(res, connected, data)
    BY <1>2, <2>1, TableDomains DEF DataSaid, EchoesData, Searches, TLSPages
  <2>5. TypeSaid(res, type)
    BY <1>2, <2>1, TableDomains DEF TypeSaid, Pages, RawPages, EventPages, TLSPages
  <2>7. type \notin DirectiveNames
    BY <1>2, <2>1 DEF DirectiveNames
  <2>6. coding = CodingOf(res.Page)
    BY <1>2, <2>1, TableDomains DEF CodingOf, TLSPages
  <2>. QED
    BY <2>2, <2>3, <2>4, <2>5, <2>6, <2>7, <2>8, <2>9, MadePlain
<1>3. CASE res.Page = "/cookies"
  <2>0. PICK n, t, args : n = NaN /\ t = res.TLS /\ args = Empty
    OBVIOUS
  <2>1. PICK data, cookies, coding, type :
          /\ data = NoText
          /\ cookies = res.Cookies /\ coding = Uncoded
          /\ type = "application/json"
    OBVIOUS
  <2>2. Yields(res, result, n, t, args, data, cookies, coding, type)
    BY <1>3, <2>0, <2>1, CookiesReturn
  <2>3. NumberSaid(res, n)
    BY <1>3, <2>0, TableDomains DEF NumberSaid, EventPages
  <2>9. CookiesSaid(res, cookies)
    BY <1>3, <2>1, TableDomains DEF CookiesSaid
  <2>8. MarkSaid(res, t) /\ ArgsSaid(res, args)
    BY <1>3, <2>0, TableDomains DEF MarkSaid, ArgsSaid, StaticPages, Pages, Searches, EchoPages
  <2>4. DataSaid(res, connected, data)
    BY <1>3, <2>1, TableDomains DEF DataSaid, EchoesData, Searches
  <2>5. TypeSaid(res, type)
    BY <1>3, <2>1, TableDomains DEF TypeSaid, Pages, RawPages, EventPages
  <2>7. type \notin DirectiveNames
    BY <1>3, <2>1 DEF DirectiveNames
  <2>6. coding = CodingOf(res.Page)
    BY <1>3, <2>1, TableDomains DEF CodingOf
  <2>. QED
    BY <2>2, <2>3, <2>4, <2>5, <2>6, <2>7, <2>8, <2>9, MadePlain
<1>4. CASE res.Page = "/status/"
  <2>0. PICK n, t, args : n = Within(res, 100, 599, 200) /\ t = res.TLS /\ args = Empty
    OBVIOUS
  <2>1. PICK data, cookies, coding, type :
          /\ data = NoText
          /\ cookies = Empty /\ coding = Uncoded
          /\ type = "application/json"
    OBVIOUS
  <2>2. Yields(res, result, n, t, args, data, cookies, coding, type)
    BY <1>4, <2>0, <2>1, StatusReturns
  <2>3. NumberSaid(res, n)
    BY <1>4, <2>0, TableDomains DEF NumberSaid, EventPages
  <2>9. CookiesSaid(res, cookies)
    BY <1>4, <2>1, TableDomains DEF CookiesSaid
  <2>8. MarkSaid(res, t) /\ ArgsSaid(res, args)
    BY <1>4, <2>0, TableDomains DEF MarkSaid, ArgsSaid, StaticPages, Pages, Searches, EchoPages
  <2>4. DataSaid(res, connected, data)
    BY <1>4, <2>1, TableDomains DEF DataSaid, EchoesData, Searches
  <2>5. TypeSaid(res, type)
    BY <1>4, <2>1, TableDomains DEF TypeSaid, Pages, RawPages, EventPages
  <2>7. type \notin DirectiveNames
    BY <1>4, <2>1 DEF DirectiveNames
  <2>6. coding = CodingOf(res.Page)
    BY <1>4, <2>1, TableDomains DEF CodingOf
  <2>. QED
    BY <2>2, <2>3, <2>4, <2>5, <2>6, <2>7, <2>8, <2>9, MadePlain
<1>5. CASE res.Page = "/delay/"
  <2>0. PICK n, t, args : n = Within(res, 1, 10, 1) /\ t = res.TLS /\ args = ToSet(res.Params)
    OBVIOUS
  <2>1. PICK data, cookies, coding, type :
          /\ data = NoText
          /\ cookies = Empty /\ coding = Uncoded
          /\ type = "application/json"
    OBVIOUS
  <2>2. Yields(res, result, n, t, args, data, cookies, coding, type)
    BY <1>5, <2>0, <2>1, DelayReturns
  <2>3. NumberSaid(res, n)
    BY <1>5, <2>0, TableDomains DEF NumberSaid, EventPages
  <2>9. CookiesSaid(res, cookies)
    BY <1>5, <2>1, TableDomains DEF CookiesSaid
  <2>8. MarkSaid(res, t) /\ ArgsSaid(res, args)
    BY <1>5, <2>0, TableDomains DEF MarkSaid, ArgsSaid, StaticPages, Pages, Searches, EchoPages
  <2>4. DataSaid(res, connected, data)
    BY <1>5, <2>1, TableDomains DEF DataSaid, EchoesData, Searches
  <2>5. TypeSaid(res, type)
    BY <1>5, <2>1, TableDomains DEF TypeSaid, Pages, RawPages, EventPages
  <2>7. type \notin DirectiveNames
    BY <1>5, <2>1 DEF DirectiveNames
  <2>6. coding = CodingOf(res.Page)
    BY <1>5, <2>1, TableDomains DEF CodingOf
  <2>. QED
    BY <2>2, <2>3, <2>4, <2>5, <2>6, <2>7, <2>8, <2>9, MadePlain
<1>6. CASE res.Page \in DOMAIN Codings
  <2>0. PICK n, t, args : n = NaN /\ t = res.TLS /\ args = ToSet(res.Params)
    OBVIOUS
  <2>1. PICK data, cookies, coding, type :
          /\ data = NoText
          /\ cookies = Empty /\ coding = Codings[res.Page]
          /\ type = "application/json; charset=utf-8"
    OBVIOUS
  <2>2. Yields(res, result, n, t, args, data, cookies, coding, type)
    BY <1>6, <2>0, <2>1, CompressedReturns
  <2>3. NumberSaid(res, n)
    BY <1>6, <2>0, TableDomains DEF NumberSaid, EventPages
  <2>9. CookiesSaid(res, cookies)
    BY <1>6, <2>1, TableDomains DEF CookiesSaid
  <2>8. MarkSaid(res, t) /\ ArgsSaid(res, args)
    BY <1>6, <2>0, TableDomains DEF MarkSaid, ArgsSaid, StaticPages, Pages, Searches, EchoPages
  <2>4. DataSaid(res, connected, data)
    BY <1>6, <2>1, TableDomains DEF DataSaid, EchoesData, Searches
  <2>5. TypeSaid(res, type)
    BY <1>6, <2>1, TableDomains DEF TypeSaid, Pages, RawPages, EventPages
  <2>7. type \notin DirectiveNames
    BY <1>6, <2>1 DEF DirectiveNames
  <2>6. coding = CodingOf(res.Page)
    BY <1>6, <2>1, TableDomains DEF CodingOf
  <2>. QED
    BY <2>2, <2>3, <2>4, <2>5, <2>6, <2>7, <2>8, <2>9, MadePlain
<1>7. CASE res.Page = "/stream/"
  <2>0. PICK n, t, args : n = Within(res, 1, 100, 3) /\ t = res.TLS /\ args = Empty
    OBVIOUS
  <2>1. PICK data, cookies, coding, type :
          /\ data = NoText
          /\ cookies = Empty /\ coding = Uncoded
          /\ type = "application/json"
    OBVIOUS
  <2>2. Yields(res, result, n, t, args, data, cookies, coding, type)
    BY <1>7, <2>0, <2>1, StreamReturns
  <2>3. NumberSaid(res, n)
    BY <1>7, <2>0, TableDomains DEF NumberSaid, EventPages
  <2>9. CookiesSaid(res, cookies)
    BY <1>7, <2>1, TableDomains DEF CookiesSaid
  <2>8. MarkSaid(res, t) /\ ArgsSaid(res, args)
    BY <1>7, <2>0, TableDomains DEF MarkSaid, ArgsSaid, StaticPages, Pages, Searches, EchoPages
  <2>4. DataSaid(res, connected, data)
    BY <1>7, <2>1, TableDomains DEF DataSaid, EchoesData, Searches
  <2>5. TypeSaid(res, type)
    BY <1>7, <2>1, TableDomains DEF TypeSaid, Pages, RawPages, EventPages
  <2>7. type \notin DirectiveNames
    BY <1>7, <2>1 DEF DirectiveNames
  <2>6. coding = CodingOf(res.Page)
    BY <1>7, <2>1, TableDomains DEF CodingOf
  <2>. QED
    BY <2>2, <2>3, <2>4, <2>5, <2>6, <2>7, <2>8, <2>9, MadePlain
<1>8. CASE res.Page \in EventPages
  <2>0. PICK n, t, args : n = Within(res, 1, 100, 3) /\ t = res.TLS /\ args = Empty
    OBVIOUS
  <2>1. PICK data, cookies, coding, type :
          /\ data = NoText
          /\ cookies = Empty /\ coding = Uncoded
          /\ type = "text/event-stream"
    OBVIOUS
  <2>2. Yields(res, result, n, t, args, data, cookies, coding, type)
    BY <1>8, <2>0, <2>1, EventsReturn DEF EventPages
  <2>3. NumberSaid(res, n)
    BY <1>8, <2>0, TableDomains DEF NumberSaid, EventPages
  <2>9. CookiesSaid(res, cookies)
    BY <1>8, <2>1, TableDomains DEF CookiesSaid, EventPages
  <2>8. MarkSaid(res, t) /\ ArgsSaid(res, args)
    BY <1>8, <2>0, TableDomains DEF MarkSaid, ArgsSaid, StaticPages, Pages, Searches, EchoPages,
       EventPages
  <2>4. DataSaid(res, connected, data)
    BY <1>8, <2>1, TableDomains DEF DataSaid, EchoesData, Searches, EventPages
  <2>5. TypeSaid(res, type)
    BY <1>8, <2>1, TableDomains DEF TypeSaid, Pages, RawPages, EventPages
  <2>7. type \notin DirectiveNames
    BY <1>8, <2>1 DEF DirectiveNames
  <2>6. coding = CodingOf(res.Page)
    BY <1>8, <2>1, TableDomains DEF CodingOf, EventPages
  <2>. QED
    BY <2>2, <2>3, <2>4, <2>5, <2>6, <2>7, <2>8, <2>9, MadePlain
<1>9. CASE res.Page \in Searches
  <2>0. PICK n, t, args : n = NaN /\ t = Unmarked /\ args = Empty
    OBVIOUS
  <2>1. PICK data, cookies, coding, type :
          /\ data = Says(res, connected)
          /\ cookies = Empty /\ coding = Uncoded
          /\ type = "application/json"
    OBVIOUS
  <2>2. Yields(res, result, n, t, args, data, cookies, coding, type)
    BY <1>9, <2>0, <2>1, SearchReturns
  <2>3. NumberSaid(res, n)
    BY <1>9, <2>0, TableDomains DEF NumberSaid, Searches, EventPages
  <2>9. CookiesSaid(res, cookies)
    BY <1>9, <2>1, TableDomains DEF CookiesSaid, Searches
  <2>8. MarkSaid(res, t) /\ ArgsSaid(res, args)
    BY <1>9, <2>0, TableDomains DEF MarkSaid, ArgsSaid, StaticPages, Pages, Searches, EchoPages
  <2>4. DataSaid(res, connected, data)
    BY <1>9, <2>1, TableDomains DEF DataSaid, EchoesData, Searches
  <2>5. TypeSaid(res, type)
    BY <1>9, <2>1, TableDomains DEF TypeSaid, Pages, RawPages, EventPages, Searches
  <2>7. type \notin DirectiveNames
    BY <1>9, <2>1 DEF DirectiveNames
  <2>6. coding = CodingOf(res.Page)
    BY <1>9, <2>1, TableDomains DEF CodingOf, Searches
  <2>. QED
    BY <2>2, <2>3, <2>4, <2>5, <2>6, <2>7, <2>8, <2>9, MadePlain
<1>10. CASE res.Page \in RawPages /\ HasDetails(res)
  <2>0. PICK n, t, args : n = NaN /\ t = res.TLS /\ args = Empty
    OBVIOUS
  <2>1. PICK data, cookies, coding, type :
          /\ data = NoText
          /\ cookies = Empty /\ coding = Uncoded
          /\ type = RawType(res.Page)
    OBVIOUS
  <2>2. Yields(res, result, n, t, args, data, cookies, coding, type)
    BY <1>10, <2>0, <2>1, RawReturns DEF RawPages
  <2>3. NumberSaid(res, n)
    BY <1>10, <2>0, TableDomains DEF NumberSaid, RawPages, EventPages
  <2>9. CookiesSaid(res, cookies)
    BY <1>10, <2>1, TableDomains DEF CookiesSaid, RawPages
  <2>8. MarkSaid(res, t) /\ ArgsSaid(res, args)
    BY <1>10, <2>0, TableDomains DEF MarkSaid, ArgsSaid, StaticPages, Pages, Searches, EchoPages,
       RawPages
  <2>4. DataSaid(res, connected, data)
    BY <1>10, <2>1, TableDomains DEF DataSaid, EchoesData, Searches, RawPages
  <2>5. TypeSaid(res, type)
    BY <1>10, <2>1, TableDomains DEF TypeSaid, Pages, RawPages, EventPages
  <2>7. type \notin DirectiveNames
    BY <1>10, <2>1 DEF DirectiveNames, RawType, RawPages
  <2>6. coding = CodingOf(res.Page)
    BY <1>10, <2>1, TableDomains DEF CodingOf, RawPages
  <2>. QED
    BY <2>2, <2>3, <2>4, <2>5, <2>6, <2>7, <2>8, <2>9, MadePlain
<1>11. CASE res.Page = "/bytes/" /\ GivesBytes(res)
  <2>0. PICK n, t, args : n = NaN /\ t = Unmarked /\ args = Empty
    OBVIOUS
  <2>1. PICK data, cookies, coding, type :
          /\ data = res.Data
          /\ cookies = Empty /\ coding = Uncoded
          /\ type = "application/octet-stream"
    OBVIOUS
  <2>2. Yields(res, result, n, t, args, data, cookies, coding, type)
    BY <1>11, <2>0, <2>1, BytesReturn
  <2>3. NumberSaid(res, n)
    BY <1>11, <2>0, TableDomains DEF NumberSaid, EventPages
  <2>9. CookiesSaid(res, cookies)
    BY <1>11, <2>1, TableDomains DEF CookiesSaid
  <2>8. MarkSaid(res, t) /\ ArgsSaid(res, args)
    BY <1>11, <2>0, TableDomains DEF MarkSaid, ArgsSaid, StaticPages, Pages, Searches, EchoPages
  <2>4. DataSaid(res, connected, data)
    BY <1>11, <2>1, TableDomains DEF DataSaid, EchoesData, Searches
  <2>5. TypeSaid(res, type)
    BY <1>11, <2>1, TableDomains DEF TypeSaid, Pages, RawPages, EventPages
  <2>7. type \notin DirectiveNames
    BY <1>11, <2>1 DEF DirectiveNames
  <2>6. coding = CodingOf(res.Page)
    BY <1>11, <2>1, TableDomains DEF CodingOf
  <2>. QED
    BY <2>2, <2>3, <2>4, <2>5, <2>6, <2>7, <2>8, <2>9, MadePlain
<1>12. CASE res.Page = "/bytes/" /\ ~GivesBytes(res)
  <2>0. PICK n, t, args : n = Within(res, 1, 102400, 100) /\ t = Unmarked /\ args = Empty
    OBVIOUS
  <2>1. PICK data, cookies, coding, type :
          /\ data = NoText
          /\ cookies = Empty /\ coding = Uncoded
          /\ type = "application/octet-stream"
    OBVIOUS
  <2>2. Yields(res, result, n, t, args, data, cookies, coding, type)
    BY <1>12, <2>0, <2>1, BytesReturn
  <2>3. NumberSaid(res, n)
    BY <1>12, <2>0, TableDomains DEF NumberSaid, EventPages
  <2>9. CookiesSaid(res, cookies)
    BY <1>12, <2>1, TableDomains DEF CookiesSaid
  <2>8. MarkSaid(res, t) /\ ArgsSaid(res, args)
    BY <1>12, <2>0, TableDomains DEF MarkSaid, ArgsSaid, StaticPages, Pages, Searches, EchoPages
  <2>4. DataSaid(res, connected, data)
    BY <1>12, <2>1, TableDomains DEF DataSaid, EchoesData, Searches
  <2>5. TypeSaid(res, type)
    BY <1>12, <2>1, TableDomains DEF TypeSaid, Pages, RawPages, EventPages
  <2>7. type \notin DirectiveNames
    BY <1>12, <2>1 DEF DirectiveNames
  <2>6. coding = CodingOf(res.Page)
    BY <1>12, <2>1, TableDomains DEF CodingOf
  <2>. QED
    BY <2>2, <2>3, <2>4, <2>5, <2>6, <2>7, <2>8, <2>9, MadePlain
<1>13. CASE res.Page = "/base64/" /\ res.Arg = NaN
  <2>0. PICK n, t, args : n = NaN /\ t = Unmarked /\ args = Empty
    OBVIOUS
  <2>1. PICK data, cookies, coding, type :
          /\ data = "Invalid base64"
          /\ cookies = Empty /\ coding = Uncoded
          /\ type = "text/plain"
    OBVIOUS
  <2>2. Yields(res, result, n, t, args, data, cookies, coding, type)
    BY <1>13, <2>0, <2>1, Base64Returns
  <2>3. NumberSaid(res, n)
    BY <1>13, <2>0, TableDomains DEF NumberSaid, EventPages
  <2>9. CookiesSaid(res, cookies)
    BY <1>13, <2>1, TableDomains DEF CookiesSaid
  <2>8. MarkSaid(res, t) /\ ArgsSaid(res, args)
    BY <1>13, <2>0, TableDomains DEF MarkSaid, ArgsSaid, StaticPages, Pages, Searches, EchoPages
  <2>4. DataSaid(res, connected, data)
    BY <1>13, <2>1, TableDomains DEF DataSaid, EchoesData, Searches
  <2>5. TypeSaid(res, type)
    BY <1>13, <2>1, TableDomains DEF TypeSaid, Pages, RawPages, EventPages
  <2>7. type \notin DirectiveNames
    BY <1>13, <2>1 DEF DirectiveNames
  <2>6. coding = CodingOf(res.Page)
    BY <1>13, <2>1, TableDomains DEF CodingOf
  <2>. QED
    BY <2>2, <2>3, <2>4, <2>5, <2>6, <2>7, <2>8, <2>9, MadePlain
<1>14. CASE res.Page = "/base64/" /\ res.Arg # NaN
  <2>0. PICK n, t, args : n = res.Arg /\ t = Unmarked /\ args = Empty
    OBVIOUS
  <2>1. PICK data, cookies, coding, type :
          /\ data = NoText
          /\ cookies = Empty /\ coding = Uncoded
          /\ type = "text/html; charset=utf-8"
    OBVIOUS
  <2>2. Yields(res, result, n, t, args, data, cookies, coding, type)
    BY <1>14, <2>0, <2>1, Base64Returns
  <2>3. NumberSaid(res, n)
    BY <1>14, <2>0, TableDomains DEF NumberSaid, EventPages
  <2>9. CookiesSaid(res, cookies)
    BY <1>14, <2>1, TableDomains DEF CookiesSaid
  <2>8. MarkSaid(res, t) /\ ArgsSaid(res, args)
    BY <1>14, <2>0, TableDomains DEF MarkSaid, ArgsSaid, StaticPages, Pages, Searches, EchoPages
  <2>4. DataSaid(res, connected, data)
    BY <1>14, <2>1, TableDomains DEF DataSaid, EchoesData, Searches
  <2>5. TypeSaid(res, type)
    BY <1>14, <2>1, TableDomains DEF TypeSaid, Pages, RawPages, EventPages
  <2>7. type \notin DirectiveNames
    BY <1>14, <2>1 DEF DirectiveNames
  <2>6. coding = CodingOf(res.Page)
    BY <1>14, <2>1, TableDomains DEF CodingOf
  <2>. QED
    BY <2>2, <2>3, <2>4, <2>5, <2>6, <2>7, <2>8, <2>9, MadePlain
<1>15. CASE res.Page = "/cookies/set" /\ res.Params = <<>>
  <2>0. PICK n, t, args : n = NaN /\ t = res.TLS /\ args = Empty
    OBVIOUS
  <2>1. PICK data, cookies, coding, type :
          /\ data = NoText
          /\ cookies = ToSet(res.Params) /\ coding = Uncoded
          /\ type = "application/json"
    OBVIOUS
  <2>2. Yields(res, result, n, t, args, data, cookies, coding, type)
    BY <1>15, <2>0, <2>1, CookiesSetReturns
  <2>3. NumberSaid(res, n)
    BY <1>15, <2>0, TableDomains DEF NumberSaid, EventPages
  <2>9. CookiesSaid(res, cookies)
    BY <1>15, <2>1, TableDomains DEF CookiesSaid
  <2>8. MarkSaid(res, t) /\ ArgsSaid(res, args)
    BY <1>15, <2>0, TableDomains DEF MarkSaid, ArgsSaid, StaticPages, Pages, Searches, EchoPages
  <2>4. DataSaid(res, connected, data)
    BY <1>15, <2>1, TableDomains DEF DataSaid, EchoesData, Searches
  <2>5. TypeSaid(res, type)
    BY <1>15, <2>1, TableDomains DEF TypeSaid, Pages, RawPages, EventPages
  <2>7. type \notin DirectiveNames
    BY <1>15, <2>1 DEF DirectiveNames
  <2>6. coding = CodingOf(res.Page)
    BY <1>15, <2>1, TableDomains DEF CodingOf
  <2>. QED
    BY <2>2, <2>3, <2>4, <2>5, <2>6, <2>7, <2>8, <2>9, MadePlain
<1>16. CASE res.Page \in StaticPages
  <2>1. PICK n, t, args, data, cookies, coding :
          /\ n = NaN /\ t = Unmarked /\ args = Empty /\ data = NoText /\ cookies = Empty
          /\ coding = Uncoded
    OBVIOUS
  <2>2. PICK type :
          /\ Yields(res, result, n, t, args, data, cookies, coding, type)
          /\ res.Page \in Pages => type = "text/html"
          /\ res.Page \in {"/robots.txt", "/deny"} => type = "text/plain"
          /\ res.Page = "/api/sni" => type = "application/json"
          /\ res.Page \in DOMAIN Images => type = Images[res.Page]
    BY <1>16, <2>1, StaticReturns DEF StaticPages
  <2>3. NumberSaid(res, n)
    BY <1>16, <2>1, TableDomains DEF NumberSaid, EventPages, StaticPages, Pages
  <2>9. CookiesSaid(res, cookies)
    BY <1>16, <2>1, TableDomains DEF CookiesSaid, StaticPages, Pages
  <2>8. MarkSaid(res, t) /\ ArgsSaid(res, args)
    BY <1>16, <2>1, TableDomains DEF MarkSaid, ArgsSaid, StaticPages, Pages, EchoPages
  <2>4. DataSaid(res, connected, data)
    BY <1>16, <2>1, TableDomains DEF DataSaid, EchoesData, StaticPages, Pages, Searches
  <2>7. type \notin DirectiveNames
    BY <1>16, <2>2 DEF DirectiveNames, StaticPages, Images
  <2>5. TypeSaid(res, type)
    BY <1>16, <2>2, TableDomains DEF TypeSaid, StaticPages, Pages, RawPages, EventPages
  <2>6. coding = CodingOf(res.Page)
    BY <1>16, <2>1, TableDomains DEF CodingOf, StaticPages, Pages
  <2>. QED
    BY <2>2, <2>3, <2>4, <2>5, <2>6, <2>7, <2>8, <2>9, MadePlain
<1>. QED
  BY <1>1, <1>2, <1>3, <1>4, <1>5, <1>6, <1>7, <1>8, <1>9, <1>10, <1>11, <1>12, <1>13, <1>14,
     <1>15, <1>16 DEF PlainPages

\* Every result is a failure, one without a directive, a redirect, or a directive
\* for cookies.
LEMMA HandleKinds ==
  ASSUME NEW res, res.Page \in AllPages, IsQuery(res.Params), NEW connected, NEW count,
         NEW result, result = Handle(res, connected, count)
  PROVE  \/ result = Panics
         \/ Undirected(res, result)
         \/ IsOnward(result)
         \/ SetsThem(res, result)
<1>1. CASE /\ res.Page \in PlainPages \cup RawPages \cup {"/cookies/set"}
           /\ res.Page \in RawPages => HasDetails(res)
           /\ res.Page = "/cookies/set" => res.Params = <<>>
  <2>1. PICK n, t, args, data, cookies, type :
          /\ Said(res, connected, n, t, args, data, cookies, type)
          /\ Yields(res, result, n, t, args, data, cookies, CodingOf(res.Page), type)
          /\ type \notin DirectiveNames
    BY <1>1, HandlePlain, Zenon DEF IsPlain
  <2>2. NumberSaid(res, n) /\ CookiesSaid(res, cookies)
    BY <2>1 DEF Said
  <2>3. res.Page = "/status/" => n = Within(res, 100, 599, 200)
    BY <2>2 DEF NumberSaid
  <2>4. res.Page = "/cookies/set" => cookies = Empty
    <3>1. ToSet(<<>>) = Empty
      BY DEF ToSet, Empty
    <3>. QED
      BY <1>1, <2>2, <3>1 DEF CookiesSaid
  <2>. QED
    BY <2>1, <2>3, <2>4, Zenon DEF Undirected
<1>2. CASE res.Page \in RawPages /\ ~HasDetails(res)
  BY <1>2, RawReturns DEF RawPages
<1>3. CASE res.Page = "404"
  <2>1. PICK type : type = "text/html" /\ type \notin DirectiveNames
    BY DEF DirectiveNames
  <2>2. PICK n, data, coding :
          /\ Yields(res, result, n, Unmarked, Empty, data, Empty, coding, type)
          /\ coding = CodingOf(res.Page)
    BY <1>3, <2>1, LostReturns, TableDomains DEF CodingOf
  <2>3. PICK t, none : t = Unmarked /\ none = Empty
    OBVIOUS
  <2>. QED
    BY <1>3, <2>1, <2>2, <2>3 DEF Undirected
<1>4. CASE res.Page = "/api/request-count"
  <2>1. PICK type : type = "application/json" /\ type \notin DirectiveNames
    BY DEF DirectiveNames
  <2>2. PICK n, data, coding :
          /\ Yields(res, result, n, Unmarked, Empty, data, Empty, coding, type)
          /\ coding = CodingOf(res.Page)
    BY <1>4, <2>1, CountReturns, TableDomains DEF CodingOf
  <2>. QED
    BY <1>4, <2>1, <2>2 DEF Undirected
<1>5. CASE res.Page = "/cookies/set" /\ res.Params # <<>>
  BY <1>5, CookiesSetReturns DEF SetsThem
<1>6. CASE res.Page = "/redirect/"
  <2>1. result = httpbinRedirect(res)
    BY <1>6 DEF Handle, Pages, Searches, Codings, Images
  <2>2. PICK n : n = Within(res, 1, 10, 1)
    OBVIOUS
  <2>3. PICK url : url = Onward(n) /\ IsText(url)
    BY OwnIsText DEF Onward
  <2>4. result = Returns(NoBody, RedirectDirective(302, url))
    BY <2>1, <2>2, <2>3 DEF httpbinRedirect, Onward
  <2>5. 302 \in 1..599
    OBVIOUS
  <2>. QED
    BY <2>3, <2>4, <2>5 DEF IsOnward
<1>7. CASE res.Page = "/redirect-to"
  <2>1. result = httpbinRedirectTo(res)
    BY <1>7 DEF Handle, Pages, Searches, Codings, Images
  <2>. QED
    BY <2>1, RedirectToRedirects DEF IsOnward
<1>. QED
  BY <1>1, <1>2, <1>3, <1>4, <1>5, <1>6, <1>7, TableDomains
     DEF AllPages, PlainPages, StaticPages, EchoPages, TLSPages, EventPages, RawPages, Pages,
         Searches, getAllPaths, getHTTPBinPaths, getDynamicHTTPBinPaths

-----------------------------------------------------------------------------
(* Cookies                                                                 *)

\* A piece in front of a text.
LEMMA PieceInFront ==
  ASSUME NEW S, NEW x \in S, NEW text \in Seq(S)
  PROVE  /\ <<x>> \o text \in Seq(S)
         /\ Len(<<x>> \o text) = Len(text) + 1
         /\ (<<x>> \o text)[1] = x
         /\ \A i \in 1..Len(text) : (<<x>> \o text)[i + 1] = text[i]
<1>1. PICK one \in Seq(S) : one = <<x>> /\ Len(one) = 1 /\ one[1] = x
  <2>1. <<x>> \in Seq(S) /\ Len(<<x>>) = 1 /\ <<x>>[1] = x
    OBVIOUS
  <2>. QED
    BY <2>1, Zenon
<1>2. PICK t : t = one \o text
  OBVIOUS
<1>3. PICK n \in Nat : n = Len(text)
  OBVIOUS
<1>4. /\ t \in Seq(S) /\ Len(t) = 1 + n
      /\ \A i \in 1..(1 + n) : t[i] = IF i <= 1 THEN one[i] ELSE text[i - 1]
  BY <1>1, <1>2, <1>3, ConcatProperties
<1>5. t[1] = x /\ \A i \in 1..n : t[i + 1] = text[i]
  BY <1>1, <1>4
<1>. QED
  BY <1>1, <1>2, <1>3, <1>4, <1>5

\* The pieces of a text with one in front.
LEMMA FrontAndRest ==
  ASSUME NEW x, NEW text, IsText(text)
  PROVE  ToSet(<<x>> \o text) = {x} \cup ToSet(text)
<1>. DEFINE S == {x} \cup ToSet(text)
<1>1. x \in S /\ text \in Seq(S)
  <2>1. text \in Seq(ToSet(text)) /\ ToSet(text) \subseteq S
    BY DEF IsText
  <2>. HIDE DEF S
  <2>2. text \in Seq(S)
    BY <2>1
  <2>. QED
    BY <2>2 DEF S
<1>2. PICK t : t = <<x>> \o text
  OBVIOUS
<1>3. PICK n \in Nat : n = Len(text) /\ DOMAIN text = 1..n
  BY <1>1
<1>4. /\ t \in Seq(S) /\ Len(t) = n + 1 /\ t[1] = x
      /\ \A i \in 1..n : t[i + 1] = text[i]
  <2>. HIDE DEF S
  <2>. QED
    BY <1>1, <1>2, <1>3, PieceInFront
<1>5. DOMAIN t = 1..(n + 1)
  BY <1>4
<1>6. ToSet(t) \subseteq S
  <2>1. \A i \in 1..(n + 1) : t[i] \in S
    <3>. HIDE DEF S
    <3>. QED
      BY <1>4, ElementOfSeq
  <2>. QED
    BY <1>5, <2>1 DEF ToSet
<1>7. S \subseteq ToSet(t)
  <2>1. x \in ToSet(t)
    BY <1>4, <1>5 DEF ToSet
  <2>2. ASSUME NEW y \in ToSet(text) PROVE y \in ToSet(t)
    <3>1. PICK i \in 1..n : y = text[i]
      BY <1>3 DEF ToSet
    <3>2. i + 1 \in DOMAIN t /\ t[i + 1] = y
      BY <1>4, <1>5, <3>1
    <3>. QED
      BY <3>2 DEF ToSet
  <2>. QED
    BY <2>1, <2>2
<1>. QED
  BY <1>2, <1>6, <1>7

\* The pieces of one cookie.
CookiePieces(name, value) == {name, "="} \cup ToSet(value)

\* A cookie is a text of its pieces.
LEMMA CookieIsText ==
  ASSUME NEW name, NEW value, IsText(value), NEW S, CookiePieces(name, value) \subseteq S
  PROVE  Cookie(name, value) \in Seq(S)
<1>1. <<name, "=">> \in Seq(S)
  BY DEF CookiePieces
<1>2. value \in Seq(S)
  <2>1. value \in Seq(ToSet(value)) /\ ToSet(value) \subseteq S
    BY DEF IsText, CookiePieces
  <2>. QED
    BY <2>1
<1>3. <<name, "=">> \o value \in Seq(S)
  BY <1>1, <1>2, ConcatProperties
<1>. QED
  BY <1>3 DEF Cookie

\* All pieces of a query's cookies.
Pieces(params) == UNION {CookiePieces(params[i][1], params[i][2]) : i \in DOMAIN params}

\* The cookies of a query are as many texts.
LEMMA CookiesAreTexts ==
  ASSUME NEW params, IsQuery(params), NEW S, Pieces(params) \subseteq S
  PROVE  /\ CookieTexts(params) \in Seq(Seq(S))
         /\ Len(CookieTexts(params)) = Len(params)
<1>1. PICK n \in Nat : n = Len(params) /\ DOMAIN params = 1..n
  BY DEF IsQuery
<1>2. ASSUME NEW i \in 1..n PROVE Cookie(params[i][1], params[i][2]) \in Seq(S)
  <2>1. CookiePieces(params[i][1], params[i][2]) \subseteq S
    BY <1>1 DEF Pieces
  <2>2. IsText(params[i][2])
    BY <1>1 DEF IsQuery
  <2>. QED
    BY <2>1, <2>2, CookieIsText
<1>3. CookieTexts(params) = [i \in 1..n |-> Cookie(params[i][1], params[i][2])]
  BY <1>1 DEF CookieTexts
<1>4. PICK T : T = Seq(S)
  OBVIOUS
<1>5. CookieTexts(params) \in Seq(T) /\ Len(CookieTexts(params)) = n
  BY <1>2, <1>3, <1>4
<1>. QED
  BY <1>1, <1>4, <1>5

\* Without a separator in the query there is none in the cookies.
LEMMA NoSeparator ==
  ASSUME NEW params, IsQuery(params), Unseparated(params)
  PROVE  Pieces(params) \cap {":", "|", "CRLF"} = {}
<1>1. ASSUME NEW i \in DOMAIN params
      PROVE  CookiePieces(params[i][1], params[i][2]) \cap {":", "|", "CRLF"} = {}
  <2>1. ToSet(<<params[i][1]>> \o params[i][2]) \cap {":", "|", "CRLF"} = {}
    BY DEF Unseparated
  <2>2. ToSet(<<params[i][1]>> \o params[i][2]) = {params[i][1]} \cup ToSet(params[i][2])
    BY FrontAndRest DEF IsQuery
  <2>. QED
    BY <2>1, <2>2 DEF CookiePieces
<1>. QED
  BY <1>1 DEF Pieces

\* In another order neither.
LEMMA OrderUnseparated ==
  ASSUME NEW query, IsQuery(query), Unseparated(query), NEW params \in Orders(query)
  PROVE  Unseparated(params)
<1>1. ASSUME NEW i \in DOMAIN params
      PROVE  ToSet(<<params[i][1]>> \o params[i][2]) \cap {":", "|", "CRLF"} = {}
  <2>1. params[i] \in ToSet(params)
    BY DEF ToSet
  <2>2. params[i] \in ToSet(query)
    BY <2>1, OrderIsAQuery
  <2>3. PICK j \in DOMAIN query : params[i] = query[j]
    BY <2>2 DEF ToSet
  <2>. QED
    BY <2>3 DEF Unseparated
<1>. QED
  BY <1>1 DEF Unseparated

\* The first piece of a directive is its name.
LEMMA DirectiveIsNamed ==
  ASSUME NEW S, ":" \in S, NEW name \in S, NEW middle \in Seq(S), NEW last \in Seq(S)
  PROVE  Directive(name, middle, last)[1] = name
<1>1. PICK two \in Seq(S) : two = <<name, ":">> /\ Len(two) = 2 /\ two[1] = name
  <2>1. <<name, ":">> \in Seq(S) /\ Len(<<name, ":">>) = 2 /\ <<name, ":">>[1] = name
    OBVIOUS
  <2>. QED
    BY <2>1, Zenon
<1>2. PICK one \in Seq(S) : one = <<":">> /\ Len(one) = 1
  <2>1. <<":">> \in Seq(S) /\ Len(<<":">>) = 1
    OBVIOUS
  <2>. QED
    BY <2>1, Zenon
<1>3. PICK m, l \in Nat : m = Len(middle) /\ l = Len(last)
  OBVIOUS
<1>4. PICK x : x = two \o middle
  OBVIOUS
<1>5. x \in Seq(S) /\ Len(x) = 2 + m /\ x[1] = name
  <2>1. /\ x \in Seq(S) /\ Len(x) = 2 + m
        /\ \A i \in 1..(2 + m) : x[i] = IF i <= 2 THEN two[i] ELSE middle[i - 2]
    BY <1>1, <1>3, <1>4, ConcatProperties
  <2>. QED
    BY <1>1, <1>3, <2>1
<1>6. PICK y : y = x \o one
  OBVIOUS
<1>7. y \in Seq(S) /\ Len(y) = 3 + m /\ y[1] = name
  <2>1. /\ y \in Seq(S) /\ Len(y) = (2 + m) + 1
        /\ \A i \in 1..((2 + m) + 1) : y[i] = IF i <= 2 + m THEN x[i] ELSE one[i - (2 + m)]
    BY <1>2, <1>5, <1>6, ConcatProperties
  <2>. QED
    BY <1>3, <1>5, <2>1
<1>8. PICK z : z = y \o last
  OBVIOUS
<1>9. z[1] = name
  <2>1. \A i \in 1..((3 + m) + l) : z[i] = IF i <= 3 + m THEN y[i] ELSE last[i - (3 + m)]
    BY <1>3, <1>7, <1>8, ConcatProperties
  <2>. QED
    BY <1>3, <1>7, <2>1
<1>. QED
  BY <1>1, <1>2, <1>4, <1>6, <1>8, <1>9 DEF Directive

\* Texts joined by separators are a text.
LEMMA JoinedIsText ==
  ASSUME NEW S, "|" \in S, NEW list \in Seq(Seq(S))
  PROVE  Joined(list) \in Seq(S)
<1>1. PICK run \in [0..Len(list) -> Seq(S)] : Joined(list) = run[Len(list)]
  BY JoinedRuns
<1>2. PICK n \in Nat : n = Len(list)
  OBVIOUS
<1>3. n \in 0..n
  OBVIOUS
<1>. QED
  BY <1>1, <1>2, <1>3

\* The directive for the cookies is told as one.
LEMMA CookiesDirect ==
  ASSUME NEW params, IsQuery(params)
  PROVE  SetsCookies(CookieDirective(CookieTexts(params)))
<1>. DEFINE T == Pieces(params) \cup {"|", ":", "set-cookies", "application/json"}
            W == CookieTexts(params)
<1>1. /\ Pieces(params) \subseteq T /\ "|" \in T /\ ":" \in T /\ "set-cookies" \in T
      /\ "application/json" \in T
  OBVIOUS
<1>. HIDE DEF T
<1>2. W \in Seq(Seq(T))
  BY <1>1, CookiesAreTexts
<1>. HIDE DEF W
<1>3. Joined(W) \in Seq(T)
  BY <1>1, <1>2, JoinedIsText
<1>4. Json \in Seq(T)
  BY <1>1 DEF Json
<1>5. Directive("set-cookies", Joined(W), Json)[1] = "set-cookies"
  BY <1>1, <1>3, <1>4, DirectiveIsNamed
<1>. QED
  BY <1>5 DEF CookieDirective, SetsCookies, W

\* Without a separator in the query it is taken apart into the cookies it was
\* made of, and the content type of the page.
LEMMA CookiesAreTakenApart ==
  ASSUME NEW params, IsQuery(params), params # <<>>, Unseparated(params)
  PROVE  /\ SplitN(CookieDirective(CookieTexts(params)))[3] = Json
         /\ SplitBars(SplitN(CookieDirective(CookieTexts(params)))[2]) = CookieTexts(params)
<1>. DEFINE P == Pieces(params)
            S == P \cup {"|"}
            T == S \cup {":", "set-cookies", "application/json"}
            W == CookieTexts(params)
<1>1. P \subseteq S /\ "|" \in S /\ S \subseteq T /\ ":" \in T /\ "set-cookies" \in T
      /\ "application/json" \in T
  OBVIOUS
<1>2. ":" \notin S /\ "|" \notin P
  BY NoSeparator
<1>3. W \in Seq(Seq(P)) /\ Len(W) = Len(params)
  BY CookiesAreTexts
<1>. HIDE DEF P, S, T, W
<1>4. PICK n \in Nat : n = Len(params) /\ n # 0
  BY EmptySeq DEF IsQuery
<1>5. W \in Seq(Seq(S)) /\ W # <<>>
  <2>1. Seq(P) \subseteq Seq(S)
    BY <1>1
  <2>2. PICK A, B : A = Seq(P) /\ B = Seq(S)
    OBVIOUS
  <2>3. W \in Seq(B)
    BY <1>3, <2>1, <2>2
  <2>4. Len(W) # 0
    BY <1>3, <1>4
  <2>. QED
    BY <2>2, <2>3, <2>4, EmptySeq
<1>6. ASSUME NEW i \in 1..Len(W) PROVE Barless(W[i])
  <2>1. PICK A : A = Seq(P)
    OBVIOUS
  <2>2. W[i] \in A
    BY <1>3, <2>1, ElementOfSeq
  <2>3. PICK word \in Seq(P) : word = W[i]
    BY <2>1, <2>2
  <2>4. \A h \in 1..Len(word) : word[h] \in P
    BY ElementOfSeq
  <2>. QED
    BY <1>2, <2>3, <2>4 DEF Barless
<1>7. PICK middle \in Seq(S) : middle = Joined(W)
  BY <1>1, <1>5, JoinedIsText
<1>8. SplitBars(middle) = W
  BY <1>1, <1>5, <1>6, <1>7, SplitJoined
<1>9. \A h \in 1..Len(middle) : middle[h] # ":"
  <2>1. \A h \in 1..Len(middle) : middle[h] \in S
    BY ElementOfSeq
  <2>. QED
    BY <1>2, <2>1
<1>10. middle \in Seq(T) /\ Json \in Seq(T)
  BY <1>1 DEF Json
<1>11. SplitN(Directive("set-cookies", middle, Json)) = <<<<"set-cookies">>, middle, Json>>
  <2>1. PICK json \in Seq(T) : json = Json
    BY <1>10
  <2>2. "set-cookies" # ":"
    OBVIOUS
  <2>3. SplitN(Directive("set-cookies", middle, json)) = <<<<"set-cookies">>, middle, json>>
    BY <1>1, <1>9, <1>10, <2>2, SplitDirective
  <2>. QED
    BY <2>1, <2>3
<1>12. CookieDirective(W) = Directive("set-cookies", middle, Json)
  BY <1>7 DEF CookieDirective
<1>13. SplitN(CookieDirective(W))[3] = Json /\ SplitN(CookieDirective(W))[2] = middle
  BY <1>11, <1>12
<1>. QED
  BY <1>8, <1>13 DEF W

\* Nor is there a line break in them.
LEMMA CookiesAreLines ==
  ASSUME NEW params, IsQuery(params), Unseparated(params)
  PROVE  Lines(CookieTexts(params)) = CookieTexts(params)
<1>. DEFINE P == Pieces(params)
            W == CookieTexts(params)
<1>1. "CRLF" \notin P
  BY NoSeparator
<1>2. W \in Seq(Seq(P))
  BY CookiesAreTexts
<1>. HIDE DEF P, W
<1>3. PICK A : A = Seq(P)
  OBVIOUS
<1>4. ASSUME NEW i \in DOMAIN W PROVE Line(W[i]) = W[i]
  <2>1. W[i] \in A
    BY <1>2, <1>3, ElementOfSeq
  <2>2. PICK word \in Seq(P) : word = W[i]
    BY <1>3, <2>1
  <2>3. ToSet(word) \subseteq P
    BY ElementOfSeq DEF ToSet
  <2>4. PICK stops : stops = {"CRLF"}
    OBVIOUS
  <2>5. ToSet(word) \cap stops = {}
    BY <1>1, <2>3, <2>4
  <2>6. Upto(word, stops) = word
    BY <2>5, UptoWhole
  <2>. QED
    BY <2>2, <2>4, <2>6, Zenon DEF Line
<1>5. W = [i \in DOMAIN W |-> W[i]]
  BY <1>2
<1>6. Lines(W) = W
  BY <1>4, <1>5 DEF Lines
<1>. QED
  BY <1>6 DEF W

\* The cookies as a set are those of the query.
LEMMA CookieTextsAre ==
  ASSUME NEW params
  PROVE  ToSet(CookieTexts(params)) = {<<p[1], "=">> \o p[2] : p \in ToSet(params)}
<1>1. ToSet(CookieTexts(params)) = {Cookie(params[i][1], params[i][2]) : i \in DOMAIN params}
  BY DEF ToSet, CookieTexts
<1>2. {<<p[1], "=">> \o p[2] : p \in ToSet(params)}
        = {Cookie(params[i][1], params[i][2]) : i \in DOMAIN params}
  BY DEF ToSet, Cookie
<1>. QED
  BY <1>1, <1>2

-----------------------------------------------------------------------------
(* The labels of an answer                                                 *)

\* The router finds one of the pages there are, and it is the one of the path.
LEMMA PageIsKnown ==
  ASSUME NEW path
  PROVE  Dispatch(path) \in AllPages /\ (Dispatch(path) # "404" => Dispatch(path) = path.route)
BY DEF Dispatch, AllPages

\* The header names the coding of the page.
LEMMA CodingIsOfPage ==
  ASSUME NEW r, Dispatch(r.path) # "404", "route" \notin r.path.escaped
  PROVE  ContentEncoding(r) = CodingOf(Dispatch(r.path))
BY PageIsKnown DEF ContentEncoding, CodingOf, Uncoded, RawRoute

\* The status line has the number that /status/ returns.
LEMMA StatusIsOfPage ==
  ASSUME NEW r, NEW protocol, protocol # Http3, NEW params, Dispatch(r.path) = "/status/",
         "route" \notin r.path.escaped
  PROVE  extractStatusCode(r) = Within(Response(r, protocol, params), 100, 599, 200)
<1>1. RawRoute(r.path) = "/status/"
  BY PageIsKnown DEF RawRoute
<1>2. RawArg(r, Http1) = RawArg(r, protocol)
  BY DEF RawArg, Http1, Http3
<1>3. Response(r, protocol, params).Arg = RawArg(r, protocol)
  BY DEF Response
<1>. QED
  BY <1>1, <1>2, <1>3 DEF extractStatusCode, Within

\* The labels know the route that the router knows.
Named(path, protocol) == protocol # Http3 /\ "route" \notin path.escaped

\* What LabelsTrue says of one answer.
Labelled(a, query, path, protocol) ==
  LET set == a.body.page = "/cookies/set" IN
    /\ (set => Unseparated(query)) => ~IsRedirect(a.type) /\ ~SetsCookies(a.type)
    /\ set /\ Unseparated(query) =>
         ToSet(a.cookies) = {<<p[1], "=">> \o p[2] : p \in a.body.cookies}
    /\ Named(path, protocol) =>
         /\ a.body.page = "/status/" => a.status = a.body.n
         /\ a.body.page \notin {"404", "none"} => a.coding = a.body.coding

\* A content type that is none of the two directives.
NoDirective(type) == ~IsRedirect(type) /\ ~SetsCookies(type)

\* A type that a header can hold.
IsType(type) == IsText(type) /\ type # <<>> /\ type[1] # "CRLF"

\* A type that is not called like a directive is none.
LEMMA TypesAreNone ==
  ASSUME NEW type, type \notin DirectiveNames
  PROVE  NoDirective(<<type>>) /\ IsType(<<type>>)
BY DEF NoDirective, IsRedirect, SetsCookies, DirectiveNames, IsType, IsText, ToSet

\* HTTP/1 with its charset puts none in.
LEMMA TypeLineIsNone ==
  ASSUME NEW type, IsType(type), NoDirective(type)
  PROVE  NoDirective(TypeLine(type))
<1>1. PICK base, S : base = ToSet(type) /\ S = base \cup {Charset}
  OBVIOUS
<1>2. type \in Seq(S) /\ Charset \in S
  <2>1. type \in Seq(base) /\ base \subseteq S
    BY <1>1 DEF IsType, IsText
  <2>. QED
    BY <1>1, <2>1
<1>3. PICK text \in Seq(S) : text = Append(type, Charset)
  <2>1. Append(type, Charset) \in Seq(S)
    BY <1>2, AppendProperties
  <2>. QED
    BY <2>1, Zenon
<1>4. text # <<>> /\ text[1] = type[1]
  <2>1. Len(type) # 0
    BY <1>2, EmptySeq DEF IsType
  <2>2. Len(text) = Len(type) + 1 /\ \A i \in 1..Len(type) : text[i] = type[i]
    BY <1>2, <1>3, AppendProperties
  <2>. QED
    BY <1>2, <1>3, <2>1, <2>2
<1>5. PICK stops : stops = {"CRLF"}
  OBVIOUS
<1>6. Upto(text, stops)[1] = type[1]
  BY <1>4, <1>5, UptoBegins DEF IsType
<1>7. TypeLine(type) = Upto(text, stops)
  BY <1>3, <1>5, Zenon DEF TypeLine, Line
<1>. QED
  BY <1>6, <1>7 DEF NoDirective, IsRedirect, SetsCookies

\* Nor does HTTP/3 taking the directive out of a redirect.
LEMMA TypedIsNone ==
  ASSUME NEW protocol, NEW ctype, NEW type, IsType(type), NoDirective(type)
  PROVE  NoDirective(Typed(protocol, ctype, type))
<1>1. NoDirective(<<"none">>)
  BY DEF NoDirective, IsRedirect, SetsCookies
<1>2. NoDirective(TypeLine(type))
  BY TypeLineIsNone
<1>. QED
  BY <1>1, <1>2 DEF Typed

\* The fields of a body.
LEMMA BodyFields ==
  ASSUME NEW p, NEW n, NEW t, NEW a, NEW d, NEW k, NEW g
  PROVE  /\ BodyOf(p, n, t, a, d, k, g).page = p /\ BodyOf(p, n, t, a, d, k, g).n = n
         /\ BodyOf(p, n, t, a, d, k, g).tls = t /\ BodyOf(p, n, t, a, d, k, g).args = a
         /\ BodyOf(p, n, t, a, d, k, g).data = d /\ BodyOf(p, n, t, a, d, k, g).cookies = k
         /\ BodyOf(p, n, t, a, d, k, g).coding = g
BY DEF BodyOf

\* No cookie and none asked for.
LEMMA NoCookies == ToSet(Nothing) = {<<p[1], "=">> \o p[2] : p \in Empty}
BY DEF Nothing, Empty, ToSet

\* An answer without a directive.
LEMMA PlainLabelled ==
  ASSUME NEW r, NEW protocol \in {Http1, Http2, Http3}, NEW result, NEW query,
         NEW p, NEW n, NEW t, NEW a, NEW d, NEW k, NEW g, NEW type,
         RoutedBy(r, protocol, result) = Returns(BodyOf(p, n, t, a, d, k, g), <<type>>),
         type \notin DirectiveNames,
         NEW path, p = "/cookies/set" => k = Empty,
         Named(path, protocol) /\ p = "/status/" => n = extractStatusCode(r),
         Named(path, protocol) /\ p \notin {"404", "none"} => g = ContentEncoding(r)
  PROVE  Labelled(Respond(r, protocol, result), query, path, protocol)
<1>1. PICK body : body = BodyOf(p, n, t, a, d, k, g)
  OBVIOUS
<1>2. PICK status : status = StatusBy(r, protocol)
  OBVIOUS
<1>3. PICK one : one = <<type>>
  OBVIOUS
<1>4. /\ Directed(RoutedBy(r, protocol, result), status) =
           AnswerOf(status, one, Nothing, Nothing, Uncoded, Unmarked, body)
      /\ NoDirective(one) /\ IsType(one)
  BY <1>1, <1>3, DirectedPlain, TypesAreNone DEF DirectiveNames
<1>6. PICK typed, coding, location, cookies :
        /\ typed = Typed(protocol, result.ctype, one) /\ coding = CodingBy(r, protocol)
        /\ location = Located(protocol, Nothing) /\ cookies = Baked(protocol, Nothing)
  OBVIOUS
<1>5. PICK cors :
        Respond(r, protocol, result) =
          AnswerOf(status, typed, location, cookies, coding, cors, body)
  BY <1>2, <1>4, <1>6, RespondAnswers
<1>14. cookies = Nothing
  BY <1>6 DEF Baked, Lines, Nothing
<1>7. PICK x : x = Respond(r, protocol, result)
  OBVIOUS
<1>8. /\ x.status = status /\ x.type = typed /\ x.cookies = Nothing /\ x.coding = coding
      /\ x.body = body
  BY <1>5, <1>7, <1>14, AnswerFields
<1>9. body.page = p /\ body.n = n /\ body.cookies = k /\ body.coding = g
  BY <1>1, BodyFields
<1>10. NoDirective(typed)
  BY <1>4, <1>6, TypedIsNone
<1>11. p = "/cookies/set" => ToSet(Nothing) = {<<q[1], "=">> \o q[2] : q \in k}
  BY NoCookies
<1>12. protocol # Http3 => status = extractStatusCode(r) /\ coding = ContentEncoding(r)
  BY <1>2, <1>6 DEF StatusBy, CodingBy
<1>13. Named(path, protocol) => /\ p = "/status/" => status = n
                                /\ p \notin {"404", "none"} => coding = g
  BY <1>12 DEF Named
<1>. QED
  BY <1>7, <1>8, <1>9, <1>10, <1>11, <1>13 DEF Labelled, NoDirective

\* A redirect.
LEMMA OnwardLabelled ==
  ASSUME NEW r, NEW protocol \in {Http1, Http2, Http3}, NEW result, NEW query, NEW path,
         IsOnward(RoutedBy(r, protocol, result))
  PROVE  Labelled(Respond(r, protocol, result), query, path, protocol)
<1>1. PICK code, url :
        /\ code \in 1..599 /\ IsText(url)
        /\ RoutedBy(r, protocol, result) = Returns(NoBody, RedirectDirective(code, url))
  BY DEF IsOnward
<1>2. PICK status, number, html :
        /\ status = StatusBy(r, protocol) /\ number = Atoi(<<Decimal[code]>>)
        /\ html = <<"text/html; charset=utf-8">>
  OBVIOUS
<1>11. PICK body : body = NoBody
  OBVIOUS
<1>3. Directed(RoutedBy(r, protocol, result), status) =
        AnswerOf(number, html, url, Nothing, Uncoded, Unmarked, body)
  <2>1. code \in 1..599 /\ IsText(url)
    BY <1>1
  <2>2. Directed(Returns(body, RedirectDirective(code, url)), status) = OnwardAnswer(code, url)
    BY <2>1, DirectedRedirect
  <2>3. OnwardAnswer(code, url) = AnswerOf(number, html, url, Nothing, Uncoded, Unmarked, body)
    BY <1>2, <1>11 DEF OnwardAnswer
  <2>. QED
    BY <1>1, <1>11, <2>2, <2>3
<1>4. NoDirective(html) /\ IsType(html)
  <2>1. PICK type : type = "text/html; charset=utf-8"
    OBVIOUS
  <2>2. type \notin DirectiveNames
    BY <2>1 DEF DirectiveNames
  <2>3. html = <<type>>
    BY <1>2, <2>1
  <2>. QED
    BY <2>2, <2>3, TypesAreNone
<1>5. PICK cors :
        Respond(r, protocol, result) =
          AnswerOf(number, Typed(protocol, result.ctype, html), Located(protocol, url),
                   Baked(protocol, Nothing), CodingBy(r, protocol), cors, body)
  <2>1. Directed(RoutedBy(r, protocol, result), StatusBy(r, protocol)) =
          AnswerOf(number, html, url, Nothing, Uncoded, Unmarked, body)
    BY <1>2, <1>3
  <2>. QED
    BY <2>1, RespondAnswers
<1>6. PICK typed : typed = Typed(protocol, result.ctype, html)
  OBVIOUS
<1>7. PICK x : x = Respond(r, protocol, result)
  OBVIOUS
<1>8. x.type = typed /\ x.body = body
  BY <1>5, <1>6, <1>7, AnswerFields
<1>9. body.page = "none"
  BY <1>11 DEF NoBody, Body
<1>10. NoDirective(typed)
  BY <1>4, <1>6, TypedIsNone
<1>. QED
  BY <1>7, <1>8, <1>9, <1>10 DEF Labelled, NoDirective

\* Cookies.
LEMMA CookiesLabelled ==
  ASSUME NEW r, NEW protocol \in {Http1, Http2, Http3}, NEW result, NEW query, IsQuery(query),
         NEW params \in Orders(query), NEW n, NEW t, NEW a, NEW d, NEW g, params # <<>>,
         RoutedBy(r, protocol, result) =
           Returns(BodyOf("/cookies/set", n, t, a, d, ToSet(params), g),
                   CookieDirective(CookieTexts(params))),
         NEW path, Named(path, protocol) => g = ContentEncoding(r)
  PROVE  Labelled(Respond(r, protocol, result), query, path, protocol)
<1>1. PICK body, ctype, status, page, k :
        /\ body = BodyOf(page, n, t, a, d, k, g)
        /\ ctype = CookieDirective(CookieTexts(params))
        /\ status = StatusBy(r, protocol)
        /\ page = "/cookies/set" /\ k = ToSet(params)
  OBVIOUS
<1>2. IsQuery(params) /\ (Unseparated(query) => Unseparated(params))
  BY OrderIsAQuery, OrderUnseparated
<1>3. SetsCookies(ctype)
  BY <1>1, <1>2, CookiesDirect
<1>4. PICK type, cookies : type = SplitN(ctype)[3] /\ cookies = SplitBars(SplitN(ctype)[2])
  OBVIOUS
<1>5. Directed(RoutedBy(r, protocol, result), status) =
        AnswerOf(status, type, Nothing, cookies, Uncoded, Unmarked, body)
  BY <1>1, <1>3, <1>4, DirectedCookies
<1>6. Unseparated(query) => /\ NoDirective(type) /\ IsType(type)
                            /\ cookies = CookieTexts(params)
  <2>. SUFFICES ASSUME Unseparated(query)
                PROVE  NoDirective(type) /\ IsType(type) /\ cookies = CookieTexts(params)
    OBVIOUS
  <2>1. type = Json /\ cookies = CookieTexts(params)
    BY <1>1, <1>2, <1>4, CookiesAreTakenApart
  <2>2. NoDirective(Json) /\ IsType(Json)
    BY DEF Json, NoDirective, IsRedirect, SetsCookies, IsType, IsText, ToSet
  <2>. QED
    BY <2>1, <2>2
<1>8. PICK typed, coding, location, baked, none :
        /\ typed = Typed(protocol, result.ctype, type) /\ coding = CodingBy(r, protocol)
        /\ location = Located(protocol, none) /\ baked = Baked(protocol, cookies)
        /\ none = Nothing
  OBVIOUS
<1>7. PICK cors :
        Respond(r, protocol, result) =
          AnswerOf(status, typed, location, baked, coding, cors, body)
  <2>1. Directed(RoutedBy(r, protocol, result), StatusBy(r, protocol)) =
          AnswerOf(status, type, none, cookies, Uncoded, Unmarked, body)
    BY <1>1, <1>5, <1>8
  <2>. QED
    BY <1>8, <2>1, RespondAnswers
<1>9. PICK x : x = Respond(r, protocol, result)
  OBVIOUS
<1>10. /\ x.type = typed /\ x.cookies = baked /\ x.coding = coding /\ x.body = body
  BY <1>7, <1>8, <1>9, AnswerFields
<1>11. body.page = "/cookies/set" /\ body.cookies = ToSet(params) /\ body.coding = g
  BY <1>1, BodyFields
<1>12. Unseparated(query) => NoDirective(typed)
  BY <1>6, <1>8, TypedIsNone
<1>13. Unseparated(query) =>
         ToSet(baked) = {<<p[1], "=">> \o p[2] : p \in ToSet(params)}
  <2>1. SUFFICES ASSUME Unseparated(query)
                 PROVE  ToSet(baked) = {<<p[1], "=">> \o p[2] : p \in ToSet(params)}
    OBVIOUS
  <2>2. Lines(cookies) = cookies /\ cookies = CookieTexts(params)
    BY <1>2, <1>6, <2>1, CookiesAreLines
  <2>3. baked = CookieTexts(params)
    BY <1>8, <2>2 DEF Baked
  <2>. QED
    BY <2>3, CookieTextsAre
<1>14. Named(path, protocol) => coding = g
  BY <1>8 DEF CodingBy, Named
<1>. QED
  BY <1>9, <1>10, <1>11, <1>12, <1>13, <1>14 DEF Labelled, NoDirective

\* Every answer.
LEMMA AnswersAreLabelled ==
  ASSUME NEW r, IsQuery(r.query), NEW protocol \in {Http1, Http2, Http3},
         NEW params \in Orders(r.query), NEW connected, NEW count, NEW result,
         result = Handle(Response(r, protocol, params), connected, count), ~result.panics
  PROVE  Labelled(Respond(r, protocol, result), r.query, r.path, protocol)
<1>1. PICK res : res = Response(r, protocol, params)
  OBVIOUS
<1>2. /\ res.Page = Dispatch(r.path)
      /\ res.Params = IF protocol = Http3 THEN <<>> ELSE params
  BY <1>1 DEF Response
<1>3. IsQuery(res.Params)
  <2>1. IsQuery(<<>>)
    BY DEF IsQuery, ToSet
  <2>2. IsQuery(params)
    BY OrderIsAQuery
  <2>. QED
    BY <1>2, <2>1, <2>2
<1>4. res.Page \in AllPages
  BY <1>2, PageIsKnown
<1>5. CASE protocol = Http1 /\ r.method = "OPTIONS"
  <2>1. PICK type, page : type = "text/plain" /\ page = "none"
    OBVIOUS
  <2>2. NoBody = BodyOf(page, NaN, Unmarked, Empty, NoText, Empty, Uncoded)
    BY <2>1 DEF NoBody, Body, BodyOf, Unmarked, Empty, NoText, Uncoded
  <2>3. RoutedBy(r, protocol, result) =
          Returns(BodyOf(page, NaN, Unmarked, Empty, NoText, Empty, Uncoded), <<type>>)
    BY <1>5, <2>1, <2>2 DEF RoutedBy
  <2>4. type \notin DirectiveNames
    BY <2>1 DEF DirectiveNames
  <2>5. PICK query, path : query = r.query /\ path = r.path
    OBVIOUS
  <2>6. Uncoded = "identity" /\ page \in {"404", "none"} /\ page \notin {"/cookies/set", "/status/"}
    BY <2>1 DEF Uncoded
  <2>7. Labelled(Respond(r, protocol, result), query, path, protocol)
    BY <2>3, <2>4, <2>6, PlainLabelled
  <2>. QED
    BY <2>5, <2>7
<1>6. CASE ~(protocol = Http1 /\ r.method = "OPTIONS")
  <2>1. RoutedBy(r, protocol, result) = result
    BY <1>6 DEF RoutedBy
  <2>2. result # Panics
    BY DEF Panics
  <2>3. CASE Undirected(res, result)
    <3>0. PICK n, t, a, d, k, type :
            /\ Yields(res, result, n, t, a, d, k, CodingOf(res.Page), type)
            /\ type \notin DirectiveNames
            /\ res.Page = "/status/" => n = Within(res, 100, 599, 200)
            /\ res.Page = "/cookies/set" => k = Empty
      BY <2>3, Zenon DEF Undirected
    <3>1. PICK coding :
            Yields(res, result, n, t, a, d, k, coding, type) /\ coding = CodingOf(res.Page)
      BY <3>0
    <3>2. PICK page : page = res.Page
      OBVIOUS
    <3>3. RoutedBy(r, protocol, result) = Returns(BodyOf(page, n, t, a, d, k, coding), <<type>>)
      BY <2>1, <3>1, <3>2 DEF Yields
    <3>4. Named(r.path, protocol) /\ page = "/status/" => n = extractStatusCode(r)
      <4>. SUFFICES ASSUME Named(r.path, protocol), page = "/status/"
                    PROVE  n = extractStatusCode(r)
        OBVIOUS
      <4>1. Dispatch(r.path) = "/status/" /\ protocol # Http3 /\ "route" \notin r.path.escaped
        BY <1>2, <3>2 DEF Named
      <4>2. extractStatusCode(r) = Within(Response(r, protocol, params), 100, 599, 200)
        BY <4>1, StatusIsOfPage
      <4>. QED
        BY <1>1, <3>0, <3>2, <4>2
    <3>5. Named(r.path, protocol) /\ page \notin {"404", "none"} => coding = ContentEncoding(r)
      BY <1>2, <3>1, <3>2, CodingIsOfPage DEF Named
    <3>6. page = "/cookies/set" => k = Empty
      BY <3>0, <3>2
    <3>. QED
      <4>1. PICK query, path : query = r.query /\ path = r.path
        OBVIOUS
      <4>2. type \notin DirectiveNames
        BY <3>0
      <4>3. Labelled(Respond(r, protocol, result), query, path, protocol)
        BY <3>3, <3>4, <3>5, <3>6, <4>1, <4>2, PlainLabelled
      <4>. QED
        BY <4>1, <4>3
  <2>4. CASE IsOnward(result)
    BY <2>1, <2>4, OnwardLabelled
  <2>5. CASE SetsThem(res, result)
    <3>1. /\ res.Page = "/cookies/set" /\ res.Params # <<>> /\ res.Params = params
          /\ result = Returns(BodyOf(res.Page, NaN, res.TLS, Empty, NoText, ToSet(params), Uncoded),
                              CookieDirective(CookieTexts(params)))
      BY <1>2, <2>5 DEF SetsThem
    <3>2. Named(r.path, protocol) => Uncoded = ContentEncoding(r)
      <4>1. CodingOf("/cookies/set") = Uncoded
        BY DEF CodingOf, Codings
      <4>. QED
        BY <1>2, <3>1, <4>1, CodingIsOfPage DEF Named
    <3>3. PICK t : t = res.TLS
      OBVIOUS
    <3>4. RoutedBy(r, protocol, result) =
            Returns(BodyOf("/cookies/set", NaN, t, Empty, NoText, ToSet(params), Uncoded),
                    CookieDirective(CookieTexts(params)))
      BY <2>1, <3>1, <3>3
    <3>. QED
      BY <3>1, <3>2, <3>4, CookiesLabelled
  <2>. QED
    BY <1>1, <1>3, <1>4, <2>2, <2>3, <2>4, <2>5, HandleKinds
<1>. QED
  BY <1>5, <1>6

-----------------------------------------------------------------------------
(* Where an answer is from                                                 *)

\* One text for each name.
OneEach(query) == \A i, j \in DOMAIN query : query[i][1] = query[j][1] => i = j

\* A request with a query of names and texts.
IsRequest(r) ==
  \E m, a, q, k, d, y : IsQuery(q) /\ OneEach(q) /\ r = RequestOf(m, a, q, k, d, y)

\* An answer that the routes give to a request over a protocol.
Given(r, protocol, a, connected) ==
  \E params \in Orders(r.query) : \E count :
    LET result == Handle(Response(r, protocol, params), connected, count) IN
      ~result.panics /\ a = Respond(r, protocol, result)

\* The inductive invariant: requests stay requests, and every answer was given by the
\* routes to the request its connection still holds, for some order of its query.
AnswerInv ==
  /\ HopTypes
  /\ \A c \in Connections :
       /\ IsRequest(req[c])
       /\ Answered(c) => Given(req[c], Protocol(c), answer[c], Config.connected)

\* The query of a request.
LEMMA RequestsHaveQueries ==
  ASSUME NEW r, IsRequest(r)
  PROVE  IsQuery(r.query) /\ OneEach(r.query)
<1>1. PICK m, a, q, k, d, y : IsQuery(q) /\ OneEach(q) /\ r = RequestOf(m, a, q, k, d, y)
  BY Zenon DEF IsRequest
<1>2. r.query = q
  BY <1>1 DEF RequestOf
<1>. QED
  BY <1>1, <1>2

\* The request for where a redirect leads, which has no query, is a request.
LEMMA FollowedIsRequest ==
  ASSUME NEW r, IsRequest(r), NEW path
  PROVE  IsRequest(Put(r, path, <<>>))
<1>1. PICK m, a, q, k, d, y : IsQuery(q) /\ OneEach(q) /\ r = RequestOf(m, a, q, k, d, y)
  BY Zenon DEF IsRequest
<1>2. PICK none : none = <<>>
  OBVIOUS
<1>3. IsQuery(none) /\ OneEach(none)
  BY <1>2 DEF IsQuery, OneEach, ToSet
<1>4. Put(r, path, none) = RequestOf(m, path, none, k, d, y)
  BY <1>1, PutInto
<1>5. IsRequest(Put(r, path, none))
  BY <1>3, <1>4, Zenon DEF IsRequest
<1>. QED
  BY <1>2, <1>5

\* No connection is answered at first.
LEMMA AnswerInit == Init => AnswerInv
<1>. SUFFICES ASSUME Init PROVE AnswerInv
  OBVIOUS
<1>1. HopTypes
  BY DEF Init, HopTypes
<1>2. ASSUME NEW c \in Connections PROVE IsRequest(req[c]) /\ ~Answered(c)
  <2>1. PICK s \in Scenarios : req[c] = s.req /\ phase[c] = "new"
    BY DEF Init
  <2>2. PICK m, a, q, k, d, y : s.req = RequestOf(m, a, q, k, d, y)
    BY RequestAssumption, Zenon DEF RequestAssumption, RequestOf
  <2>3. IsQuery(s.req.query) /\ OneEach(s.req.query)
    <3>1. PICK query : query = s.req.query
      OBVIOUS
    <3>2. /\ query \in Seq(ToSet(query))
          /\ \A i \in DOMAIN query : query[i] = <<query[i][1], query[i][2]>> /\ IsText(query[i][2])
          /\ \A i, j \in DOMAIN query : query[i][1] = query[j][1] => i = j
      BY <3>1, QueryAssumption, Zenon DEF QueryAssumption
    <3>. QED
      BY <3>1, <3>2, Zenon DEF IsQuery, OneEach
  <2>4. s.req.query = q
    BY <2>2 DEF RequestOf
  <2>5. IsRequest(s.req)
    BY <2>2, <2>3, <2>4, Zenon DEF IsRequest
  <2>. QED
    BY <2>1, <2>5 DEF Answered
<1>. QED
  BY <1>1, <1>2 DEF AnswerInv

\* A step that answers nobody keeps the answers.
LEMMA QuietKeepsAnswers ==
  ASSUME AnswerInv, UNCHANGED <<scenario, req, answer>>, HopTypes',
         \A c \in Connections : phase'[c] = "answered" => phase[c] = "answered"
  PROVE  AnswerInv'
<1>1. ASSUME NEW c \in Connections
      PROVE  /\ IsRequest(req[c])'
             /\ Answered(c)' => Given(req[c], Protocol(c), answer[c], Config.connected)'
  <2>1. IsRequest(req[c])
        /\ (Answered(c) => Given(req[c], Protocol(c), answer[c], Config.connected))
    BY DEF AnswerInv
  <2>2. IsRequest(req[c])'
    BY <2>1 DEF IsRequest
  <2>3. Answered(c)' => Answered(c)
    BY DEF Answered
  <2>4. req'[c] = req[c] /\ Protocol(c)' = Protocol(c) /\ answer'[c] = answer[c]
        /\ (Config.connected)' = Config.connected
    BY DEF Protocol, Config
  <2>5. Given(req[c], Protocol(c), answer[c], Config.connected) =>
          Given(req[c], Protocol(c), answer[c], Config.connected)'
    BY <2>4, Zenon DEF Given
  <2>. QED
    BY <2>1, <2>2, <2>3, <2>5
<1>. QED
  BY <1>1, Zenon DEF AnswerInv

\* Answering gives this answer and keeps the others.
LEMMA AnswerKeepsAnswers ==
  ASSUME AnswerInv, HopTypes', NEW c \in Connections, Answer(c)
  PROVE  AnswerInv'
<1>1. PICK params, result :
        /\ params \in Orders(req[c].query)
        /\ result = Handle(Response(req[c], Protocol(c), params),
                           Config.connected, Len(collection))
        /\ IF result.panics
           THEN Moves(c, "aborted") /\ UNCHANGED answer
           ELSE /\ answer' = [answer EXCEPT ![c] = Respond(req[c], Protocol(c), result)]
                /\ Moves(c, "answered")
  BY Zenon DEF Answer
<1>2. UNCHANGED <<scenario, req>>
  BY DEF Answer
<1>3. /\ HopTypes /\ \A d \in Connections : d # c => phase'[d] = phase[d]
  BY <1>1 DEF AnswerInv, HopTypes, Moves
<1>4. CASE result.panics
  <2>1. UNCHANGED answer /\ phase'[c] = "aborted"
    BY <1>1, <1>3, <1>4 DEF Moves, HopTypes
  <2>2. \A d \in Connections : phase'[d] = "answered" => phase[d] = "answered"
    BY <1>3, <2>1
  <2>. QED
    BY <1>2, <2>1, <2>2, QuietKeepsAnswers
<1>5. CASE ~result.panics
  <2>1. /\ answer'[c] = Respond(req[c], Protocol(c), result)
        /\ \A d \in Connections : d # c => answer'[d] = answer[d]
    BY <1>1, <1>3, <1>5 DEF HopTypes
  <2>2. ASSUME NEW d \in Connections
        PROVE  /\ IsRequest(req[d])'
               /\ Answered(d)' => Given(req[d], Protocol(d), answer[d], Config.connected)'
    <3>1. IsRequest(req[d])
          /\ (Answered(d) => Given(req[d], Protocol(d), answer[d], Config.connected))
      BY DEF AnswerInv
    <3>2. IsRequest(req[d])'
      BY <1>2, <3>1 DEF IsRequest
    <3>3. req'[d] = req[d] /\ Protocol(d)' = Protocol(d) /\ (Config.connected)' = Config.connected
      BY <1>2 DEF Protocol, Config
    <3>4. CASE d # c
      <4>1. (Answered(d)' => Answered(d)) /\ answer'[d] = answer[d]
        BY <1>3, <2>1, <3>4 DEF Answered
      <4>2. Given(req[d], Protocol(d), answer[d], Config.connected) =>
              Given(req[d], Protocol(d), answer[d], Config.connected)'
        BY <3>3, <4>1, Zenon DEF Given
      <4>. QED
        BY <3>1, <3>2, <4>1, <4>2
    <3>5. CASE d = c
      <4>1. PICK count : count = Len(collection)
        OBVIOUS
      <4>2. Given(req[c], Protocol(c), answer'[c], Config.connected)
        BY <1>1, <1>5, <2>1, <4>1, Zenon DEF Given
      <4>3. Given(req[d], Protocol(d), answer[d], Config.connected)'
        BY <3>3, <3>5, <4>2, Zenon DEF Given
      <4>. QED
        BY <3>2, <4>3
    <3>. QED
      BY <3>4, <3>5
  <2>. QED
    BY <2>2, Zenon DEF AnswerInv
<1>. QED
  BY <1>4, <1>5

\* Following a redirect asks anew.
LEMMA FollowKeepsAnswers ==
  ASSUME AnswerInv, HopTypes', NEW c \in Connections, Follow(c)
  PROVE  AnswerInv'
<1>1. PICK path : req' = [req EXCEPT ![c].path = path, ![c].query = <<>>]
  BY DEF Follow
<1>2. phase' = [phase EXCEPT ![c] = "received"] /\ UNCHANGED <<scenario, answer>>
  BY DEF Follow, Moves
<1>3. HopTypes
  BY DEF AnswerInv
<1>4. /\ req'[c] = Put(req[c], path, <<>>) /\ phase'[c] = "received"
      /\ \A d \in Connections : d # c => req'[d] = req[d] /\ phase'[d] = phase[d]
  BY <1>1, <1>2, <1>3 DEF Put, HopTypes
<1>5. ASSUME NEW d \in Connections
      PROVE  /\ IsRequest(req[d])'
             /\ Answered(d)' => Given(req[d], Protocol(d), answer[d], Config.connected)'
  <2>1. IsRequest(req[d])
        /\ (Answered(d) => Given(req[d], Protocol(d), answer[d], Config.connected))
    BY DEF AnswerInv
  <2>2. CASE d = c
    <3>1. IsRequest(req'[c])
      BY <1>4, <2>1, <2>2, FollowedIsRequest
    <3>2. ~Answered(d)'
      BY <1>4, <2>2 DEF Answered
    <3>. QED
      BY <2>2, <3>1, <3>2 DEF IsRequest
  <2>3. CASE d # c
    <3>1. req'[d] = req[d] /\ phase'[d] = phase[d] /\ answer'[d] = answer[d]
          /\ Protocol(d)' = Protocol(d) /\ (Config.connected)' = Config.connected
      BY <1>2, <1>4, <2>3 DEF Protocol, Config
    <3>2. Answered(d)' => Answered(d)
      BY <3>1 DEF Answered
    <3>3. Given(req[d], Protocol(d), answer[d], Config.connected) =>
            Given(req[d], Protocol(d), answer[d], Config.connected)'
      BY <3>1, Zenon DEF Given
    <3>4. IsRequest(req[d])'
      BY <2>1, <3>1 DEF IsRequest
    <3>. QED
      BY <2>1, <3>2, <3>3, <3>4
  <2>. QED
    BY <2>2, <2>3
<1>. QED
  BY <1>5, Zenon DEF AnswerInv

\* Each action keeps the answers.
LEMMA AnswersInductive == AnswerInv /\ HopTypes' /\ [Next]_vars => AnswerInv'
<1>. SUFFICES ASSUME AnswerInv, HopTypes', [Next]_vars PROVE AnswerInv'
  OBVIOUS
<1>1. phase = [c \in Connections |-> phase[c]]
  BY DEF AnswerInv, HopTypes
<1>2. ASSUME UNCHANGED <<scenario, req, answer>>, UNCHANGED phase PROVE AnswerInv'
  BY <1>2, QuietKeepsAnswers
<1>3. ASSUME UNCHANGED <<scenario, req, answer>>, NEW c \in Connections,
             NEW p, Moves(c, p), p # "answered"
      PROVE  AnswerInv'
  <2>1. \A d \in Connections : phase'[d] = "answered" => phase[d] = "answered"
    BY <1>1, <1>3 DEF Moves
  <2>. QED
    BY <1>3, <2>1, QuietKeepsAnswers
<1>4. CASE Sniff \/ LosePacket
  BY <1>2, <1>4 DEF Sniff, LosePacket
<1>5. ASSUME NEW c \in Connections, Connect(c) \/ AcceptHTTP3(c) \/ Router(c) \/ Close(c)
      PROVE  AnswerInv'
  BY <1>3, <1>5 DEF Connect, AcceptHTTP3, Router, Close
<1>11. ASSUME NEW c \in Connections, Overlap(c) PROVE AnswerInv'
  BY <1>2, <1>11 DEF Overlap
<1>6. ASSUME NEW c \in Connections, HandleTLSConnection(c) PROVE AnswerInv'
  BY <1>2, <1>3, <1>6 DEF HandleTLSConnection
<1>7. ASSUME NEW c \in Connections, SaveRequest(c) PROVE AnswerInv'
  BY <1>3, <1>7 DEF SaveRequest
<1>8. ASSUME NEW c \in Connections, Answer(c) PROVE AnswerInv'
  BY <1>8, AnswerKeepsAnswers
<1>9. ASSUME NEW c \in Connections, Follow(c) PROVE AnswerInv'
  BY <1>9, FollowKeepsAnswers
<1>10. CASE UNCHANGED vars
  BY <1>2, <1>10 DEF vars
<1>. QED
  BY <1>4, <1>5, <1>6, <1>7, <1>8, <1>9, <1>10, <1>11 DEF Next

\* The answers are given in every reachable state.
LEMMA AnswersAreGiven == Spec => []AnswerInv
<1>1. HopInv => HopTypes
  BY DEF HopInv
<1>. QED
  BY <1>1, AnswerInit, AnswersInductive, HopInit, HopInductive, PTL DEF Spec

(***************************************************************************)
(* An answer tells the truth about its body: no directive of the handlers  *)
(* is left in the content type, the cookies set are the ones the body      *)
(* lists, and over HTTP/1 and HTTP/2 the status is the one in the body and *)
(* the coding the one its bytes are in.  A cookie whose text has the       *)
(* separator of the directive in it is the exception LabelsTrue makes.     *)
(***************************************************************************)
THEOREM LabelsAreTrue == Spec => []LabelsTrue
<1>1. AnswerInv => LabelsTrue
  <2>. SUFFICES ASSUME AnswerInv, NEW c \in Connections, Answered(c)
                PROVE  Labelled(answer[c], req[c].query, req[c].path, Protocol(c))
    BY Zenon DEF LabelsTrue, Labelled, Named
  <2>1. PICK r, protocol : r = req[c] /\ protocol = Protocol(c)
    OBVIOUS
  <2>2. PICK a, connected : a = answer[c] /\ connected = Config.connected
    OBVIOUS
  <2>3. IsRequest(r) /\ Given(r, protocol, a, connected)
    BY <2>1, <2>2 DEF AnswerInv
  <2>4. PICK params, count, result :
          /\ params \in Orders(r.query)
          /\ result = Handle(Response(r, protocol, params), connected, count)
          /\ ~result.panics /\ a = Respond(r, protocol, result)
    BY <2>3, Zenon DEF Given
  <2>5. protocol \in {Http1, Http2, Http3}
    BY <2>1, ProtocolAssumption DEF ProtocolAssumption, Protocol, AnswerInv, HopTypes
  <2>6. IsQuery(r.query)
    BY <2>3, RequestsHaveQueries
  <2>7. Labelled(a, r.query, r.path, protocol)
    BY <2>4, <2>5, <2>6, AnswersAreLabelled
  <2>. QED
    BY <2>1, <2>2, <2>7
<1>. QED
  BY <1>1, AnswersAreGiven, PTL

-----------------------------------------------------------------------------
(* One request over two protocols                                          *)

\* A parameter is the text that the query has for its name, whatever the order.
LEMMA ParamIsTheOne ==
  ASSUME NEW query, IsQuery(query), OneEach(query), NEW params \in Orders(query), NEW key
  PROVE  /\ \A i \in DOMAIN query : query[i][1] = key => GetParam(key, params) = query[i][2]
         /\ (\A i \in DOMAIN query : query[i][1] # key) => GetParam(key, params) = <<>>
<1>. DEFINE places == {i \in DOMAIN params : params[i][1] = key}
<1>1. ToSet(params) = ToSet(query) /\ DOMAIN params = DOMAIN query
  BY OrderIsAQuery
<1>2. PICK n \in Nat : DOMAIN query = 1..n
  BY DEF IsQuery
<1>3. ASSUME NEW i \in DOMAIN query, query[i][1] = key
      PROVE  GetParam(key, params) = query[i][2]
  <2>1. PICK k \in DOMAIN params : params[k] = query[i]
    <3>1. query[i] \in ToSet(params)
      BY <1>1 DEF ToSet
    <3>. QED
      BY <3>1 DEF ToSet
  <2>2. places # {} /\ places \subseteq Nat
    BY <1>1, <1>2, <1>3, <2>1
  <2>3. First(places) \in places
    <3>. HIDE DEF places
    <3>. QED
      BY <2>2, FirstIsIn
  <2>4. PICK j \in DOMAIN query : params[First(places)] = query[j]
    <3>1. params[First(places)] \in ToSet(query)
      BY <1>1, <2>3 DEF ToSet
    <3>. QED
      BY <3>1 DEF ToSet
  <2>5. query[j][1] = key
    BY <2>3, <2>4
  <2>6. j = i
    BY <1>3, <2>5 DEF OneEach
  <2>7. GetParam(key, params) = params[First(places)][2]
    BY <2>2 DEF GetParam
  <2>. QED
    BY <2>4, <2>6, <2>7
<1>4. ASSUME \A i \in DOMAIN query : query[i][1] # key
      PROVE  GetParam(key, params) = <<>>
  <2>1. ASSUME NEW k \in DOMAIN params PROVE params[k][1] # key
    <3>1. params[k] \in ToSet(query)
      BY <1>1 DEF ToSet
    <3>. QED
      BY <1>4, <3>1 DEF ToSet
  <2>. QED
    BY <2>1 DEF GetParam
<1>. QED
  BY <1>3, <1>4

\* Two orders of a query are equal to a handler that looks its parameters up.
LEMMA SameParams ==
  ASSUME NEW query, IsQuery(query), OneEach(query),
         NEW p1 \in Orders(query), NEW p2 \in Orders(query)
  PROVE  /\ ToSet(p1) = ToSet(p2) /\ (p1 = <<>> <=> p2 = <<>>)
         /\ \A key : GetParam(key, p1) = GetParam(key, p2)
         /\ Len(query) <= 1 => p1 = p2
<1>1. /\ IsQuery(p1) /\ IsQuery(p2) /\ Len(p1) = Len(query) /\ Len(p2) = Len(query)
      /\ ToSet(p1) = ToSet(query) /\ ToSet(p2) = ToSet(query)
  BY OrderIsAQuery
<1>2. PICK n \in Nat : n = Len(query) /\ DOMAIN query = 1..n
  BY DEF IsQuery
<1>3. \A p : IsQuery(p) => (p = <<>> <=> Len(p) = 0)
  <2>. SUFFICES ASSUME NEW p, IsQuery(p) PROVE p = <<>> <=> Len(p) = 0
    OBVIOUS
  <2>1. PICK S : p \in Seq(S)
    BY DEF IsQuery
  <2>. QED
    BY <2>1, EmptySeq
<1>4. ASSUME NEW key PROVE GetParam(key, p1) = GetParam(key, p2)
  BY ParamIsTheOne
<1>5. ASSUME n <= 1, NEW p \in Orders(query) PROVE p = query
  <2>1. PICK f \in [DOMAIN query -> DOMAIN query] : p = [i \in DOMAIN query |-> query[f[i]]]
    BY <1>5, Zenon DEF Orders, Bijection, Surjection
  <2>2. \A i \in 1..n : f[i] = i
    BY <1>2, <1>5, <2>1
  <2>3. query = [i \in 1..n |-> query[i]]
    BY <1>2 DEF IsQuery
  <2>. QED
    BY <1>2, <2>1, <2>2, <2>3
<1>. QED
  BY <1>1, <1>2, <1>3, <1>4, <1>5

\* Two requests that a handler may tell apart by their TLS details, their cookies
\* and their data only.
Alike(res1, res2) ==
  /\ res1.Page = res2.Page /\ res1.Arg = res2.Arg /\ res1.Method = res2.Method
  /\ ToSet(res1.Params) = ToSet(res2.Params)
  /\ \A key : GetParam(key, res1.Params) = GetParam(key, res2.Params)

\* One page has one type, but for /base64/, which has one for each kind of number.
LEMMA TypesAlike ==
  ASSUME NEW res1, NEW res2, res1.Page = res2.Page, res1.Arg = res2.Arg,
         NEW y1, NEW y2, TypeSaid(res1, y1), TypeSaid(res2, y2)
  PROVE  y1 = y2
<1>1. CASE res1.Page \in Pages
  <2>1. y1 = "text/html"
    BY <1>1 DEF TypeSaid
  <2>2. y2 = "text/html"
    BY <1>1 DEF TypeSaid
  <2>. QED
    BY <2>1, <2>2
<1>2. CASE res1.Page \in DOMAIN Images
  <2>1. y1 = Images[res1.Page]
    BY <1>2 DEF TypeSaid
  <2>2. y2 = Images[res1.Page]
    BY <1>2 DEF TypeSaid
  <2>. QED
    BY <2>1, <2>2
<1>3. CASE res1.Page \in {"/robots.txt", "/deny"}
  <2>1. y1 = "text/plain"
    BY <1>3 DEF TypeSaid
  <2>2. y2 = "text/plain"
    BY <1>3 DEF TypeSaid
  <2>. QED
    BY <2>1, <2>2
<1>4. CASE res1.Page \in DOMAIN Codings
  <2>1. y1 = "application/json; charset=utf-8"
    BY <1>4 DEF TypeSaid
  <2>2. y2 = "application/json; charset=utf-8"
    BY <1>4 DEF TypeSaid
  <2>. QED
    BY <2>1, <2>2
<1>5. CASE res1.Page \in RawPages
  <2>1. y1 = RawType(res1.Page)
    BY <1>5 DEF TypeSaid
  <2>2. y2 = RawType(res1.Page)
    BY <1>5 DEF TypeSaid
  <2>. QED
    BY <2>1, <2>2
<1>6. CASE res1.Page \in EventPages
  <2>1. y1 = "text/event-stream"
    BY <1>6 DEF TypeSaid
  <2>2. y2 = "text/event-stream"
    BY <1>6 DEF TypeSaid
  <2>. QED
    BY <2>1, <2>2
<1>7. CASE res1.Page = "/bytes/"
  <2>1. y1 = "application/octet-stream"
    BY <1>7 DEF TypeSaid
  <2>2. y2 = "application/octet-stream"
    BY <1>7 DEF TypeSaid
  <2>. QED
    BY <2>1, <2>2
<1>8. CASE res1.Page = "/base64/" /\ res1.Arg = NaN
  <2>1. y1 = "text/plain"
    BY <1>8 DEF TypeSaid
  <2>2. y2 = "text/plain"
    BY <1>8 DEF TypeSaid
  <2>. QED
    BY <2>1, <2>2
<1>9. CASE res1.Page = "/base64/" /\ res1.Arg # NaN
  <2>1. y1 = "text/html; charset=utf-8"
    BY <1>9 DEF TypeSaid
  <2>2. y2 = "text/html; charset=utf-8"
    BY <1>9 DEF TypeSaid
  <2>. QED
    BY <2>1, <2>2
<1>10. CASE res1.Page \notin Pages \cup DOMAIN Images \cup DOMAIN Codings \cup RawPages
              \cup EventPages
                             \cup {"/robots.txt", "/deny", "/bytes/", "/base64/"}
  <2>1. y1 = "application/json"
    BY <1>10 DEF TypeSaid
  <2>2. y2 = "application/json"
    BY <1>10 DEF TypeSaid
  <2>. QED
    BY <2>1, <2>2
<1>. QED
  BY <1>1, <1>2, <1>3, <1>4, <1>5, <1>6, <1>7, <1>8, <1>9, <1>10

\* What they are told.
LEMMA SaidAlike ==
  ASSUME NEW res1, NEW res2, Alike(res1, res2), NEW connected,
         NEW n1, NEW t1, NEW a1, NEW d1, NEW k1, NEW y1,
         Said(res1, connected, n1, t1, a1, d1, k1, y1),
         NEW n2, NEW t2, NEW a2, NEW d2, NEW k2, NEW y2,
         Said(res2, connected, n2, t2, a2, d2, k2, y2)
  PROVE  /\ res1.Page # "/bytes/" \/ res1.Data = res2.Data => n1 = n2
         /\ res1.TLS = res2.TLS => t1 = t2
         /\ a1 = a2 /\ y1 = y2
         /\ res1.Data = res2.Data => d1 = d2
         /\ res1.Cookies = res2.Cookies => k1 = k2
<1>1. \A low, high, default : Within(res1, low, high, default) = Within(res2, low, high, default)
  BY DEF Alike, Within
<1>2. res1.Data = res2.Data => (GivesBytes(res1) <=> GivesBytes(res2))
  BY DEF Alike, GivesBytes
<1>3. Says(res1, connected) = Says(res2, connected)
  BY DEF Alike, Says
<1>4. res1.Page # "/bytes/" \/ res1.Data = res2.Data => n1 = n2
  <2>1. NumberSaid(res1, n1) /\ NumberSaid(res2, n2) /\ res1.Page = res2.Page /\ res1.Arg = res2.Arg
    BY DEF Said, Alike
  <2>2. CASE res1.Page = "/bytes/"
    BY <1>1, <1>2, <2>1, <2>2 DEF NumberSaid
  <2>3. CASE res1.Page # "/bytes/"
    BY <1>1, <2>1, <2>3 DEF NumberSaid
  <2>. QED
    BY <2>2, <2>3
<1>5. res1.TLS = res2.TLS => t1 = t2
  <2>1. MarkSaid(res1, t1) /\ MarkSaid(res2, t2) /\ res1.Page = res2.Page
    BY DEF Said, Alike
  <2>. QED
    BY <2>1 DEF MarkSaid
<1>6. a1 = a2
  <2>1. ArgsSaid(res1, a1) /\ ArgsSaid(res2, a2) /\ res1.Page = res2.Page
        /\ ToSet(res1.Params) = ToSet(res2.Params)
    BY DEF Said, Alike
  <2>. QED
    BY <2>1 DEF ArgsSaid
<1>7. y1 = y2
  <2>1. TypeSaid(res1, y1) /\ TypeSaid(res2, y2) /\ res1.Page = res2.Page /\ res1.Arg = res2.Arg
    BY DEF Said, Alike
  <2>. QED
    BY <2>1, TypesAlike
<1>8. res1.Data = res2.Data => d1 = d2
  <2>1. DataSaid(res1, connected, d1) /\ DataSaid(res2, connected, d2)
        /\ res1.Page = res2.Page /\ res1.Arg = res2.Arg
    BY DEF Said, Alike
  <2>. QED
    BY <1>2, <1>3, <2>1 DEF DataSaid
<1>9. res1.Cookies = res2.Cookies => k1 = k2
  <2>1. CookiesSaid(res1, k1) /\ CookiesSaid(res2, k2) /\ res1.Page = res2.Page
        /\ ToSet(res1.Params) = ToSet(res2.Params)
    BY DEF Said, Alike
  <2>. QED
    BY <2>1 DEF CookiesSaid
<1>. QED
  BY <1>4, <1>5, <1>6, <1>7, <1>8, <1>9

\* Where /redirect-to leads, by the two parameters it takes.
Elsewhere(url, code) ==
  LET codes == {n \in 300..399 : code = <<Decimal[n]>>}
  IN Returns(NoBody, RedirectDirective(
       IF codes = {} THEN 302 ELSE CHOOSE n \in codes : TRUE,
       IF url = <<>> THEN Own("/get", NaN)
       ELSE IF Relative(url) THEN <<"https", ":", "//tlsfingerprint.com">> \o url
       ELSE url))

\* /redirect-to looks two parameters up, and nothing else of the request.
LEMMA RedirectToElsewhere ==
  ASSUME NEW res
  PROVE  httpbinRedirectTo(res) =
           Elsewhere(GetParam("url", res.Params), GetParam("status_code", res.Params))
BY DEF httpbinRedirectTo, Elsewhere

\* They are redirected alike.
LEMMA OnwardAlike ==
  ASSUME NEW res1, NEW res2, Alike(res1, res2)
  PROVE  /\ httpbinRedirect(res1) = httpbinRedirect(res2)
         /\ httpbinRedirectTo(res1) = httpbinRedirectTo(res2)
<1>1. Within(res1, 1, 10, 1) = Within(res2, 1, 10, 1)
  BY DEF Alike, Within
<1>2. httpbinRedirect(res1) = httpbinRedirect(res2)
  BY <1>1 DEF httpbinRedirect
<1>3. \A key : GetParam(key, res1.Params) = GetParam(key, res2.Params)
  BY DEF Alike
<1>4. PICK url, code : /\ url = GetParam("url", res1.Params) /\ url = GetParam("url", res2.Params)
                       /\ code = GetParam("status_code", res1.Params)
                       /\ code = GetParam("status_code", res2.Params)
  BY <1>3
<1>5. httpbinRedirectTo(res1) = httpbinRedirectTo(res2)
  BY <1>4, RedirectToElsewhere
<1>. QED
  BY <1>2, <1>5

\* The fields of an answer over a protocol, from what it directs.
FieldsAre(a, r, protocol, s, t, l, k, b) ==
  /\ a.status = s /\ a.body = b
  /\ protocol = Http1 =>
       a.type = TypeLine(t) /\ a.location = Line(l) /\ a.cookies = Lines(k)
  /\ protocol # Http1 => a.location = l /\ a.cookies = k
  /\ protocol = Http2 => a.type = t
  /\ protocol # Http3 => a.coding = ContentEncoding(r)

\* These are the fields when the routes were asked.
LEMMA RespondFields ==
  ASSUME NEW r, NEW protocol \in {Http1, Http2, Http3}, ~(protocol = Http1 /\ r.method = "OPTIONS"),
         NEW result, NEW s, NEW t, NEW l, NEW k, NEW b,
         Directed(result, StatusBy(r, protocol)) = AnswerOf(s, t, l, k, Uncoded, Unmarked, b)
  PROVE  FieldsAre(Respond(r, protocol, result), r, protocol, s, t, l, k, b)
<1>1. RoutedBy(r, protocol, result) = result
  BY DEF RoutedBy
<1>0. Http1 # Http2 /\ Http1 # Http3 /\ Http2 # Http3
  BY DEF Http1, Http2, Http3
<1>2. PICK type, coding, location, cookies :
        /\ type = Typed(protocol, result.ctype, t) /\ coding = CodingBy(r, protocol)
        /\ location = Located(protocol, l) /\ cookies = Baked(protocol, k)
  OBVIOUS
<1>3. PICK cors :
        Respond(r, protocol, result) = AnswerOf(s, type, location, cookies, coding, cors, b)
  BY <1>1, <1>2, RespondAnswers
<1>4. /\ protocol = Http1 => type = TypeLine(t) /\ location = Line(l) /\ cookies = Lines(k)
      /\ protocol # Http1 => location = l /\ cookies = k
      /\ protocol = Http2 => type = t
      /\ protocol # Http3 => coding = ContentEncoding(r)
  BY <1>0, <1>2 DEF Typed, CodingBy, Located, Baked
<1>5. PICK a : a = Respond(r, protocol, result)
  OBVIOUS
<1>6. /\ a.status = s /\ a.type = type /\ a.location = location /\ a.cookies = cookies
      /\ a.coding = coding /\ a.body = b
  BY <1>3, <1>5, AnswerFields
<1>. QED
  BY <1>4, <1>5, <1>6 DEF FieldsAre

Protocols == {Http1, Http2, Http3}

\* Without a query and an escape in the number HTTP/3's handlers are asked the
\* same as HTTP/2's, and HTTP/2's the same as HTTP/1's with them.
LEMMA ResponsesAlike ==
  ASSUME NEW r, IsRequest(r), NEW P \in Protocols, NEW Q \in Protocols,
         (P # Http3 /\ Q # Http3) \/ (r.query = <<>> /\ "arg" \notin r.path.escaped),
         NEW p1 \in Orders(r.query), NEW p2 \in Orders(r.query)
  PROVE  Alike(Response(r, P, p1), Response(r, Q, p2))
<1>1. PICK query : query = r.query /\ IsQuery(query) /\ OneEach(query)
  BY RequestsHaveQueries
<1>2. PICK res1, res2 : res1 = Response(r, P, p1) /\ res2 = Response(r, Q, p2)
  OBVIOUS
<1>3. /\ res1.Page = Dispatch(r.path) /\ res2.Page = Dispatch(r.path)
      /\ res1.Method = r.method /\ res2.Method = r.method
      /\ res1.Arg = RawArg(r, P) /\ res2.Arg = RawArg(r, Q)
      /\ res1.Params = (IF P = Http3 THEN <<>> ELSE p1)
      /\ res2.Params = (IF Q = Http3 THEN <<>> ELSE p2)
  BY <1>2 DEF Response
<1>4. res1.Arg = res2.Arg
  BY <1>3 DEF RawArg
<1>5. p1 \in Orders(query) /\ p2 \in Orders(query)
  BY <1>1
<1>6. CASE P # Http3 /\ Q # Http3
  <2>1. res1.Params = p1 /\ res2.Params = p2
    BY <1>3, <1>6
  <2>2. ToSet(p1) = ToSet(p2) /\ \A key : GetParam(key, p1) = GetParam(key, p2)
    BY <1>1, <1>5, SameParams
  <2>. QED
    BY <1>2, <1>3, <1>4, <2>1, <2>2 DEF Alike
<1>7. CASE r.query = <<>>
  <2>1. ASSUME NEW p \in Orders(query) PROVE p = <<>>
    <3>1. IsQuery(p) /\ Len(p) = Len(query)
      BY <1>1, <2>1, OrderIsAQuery
    <3>2. PICK S : p \in Seq(S)
      BY <3>1 DEF IsQuery
    <3>3. Len(p) = 0
      BY <1>1, <1>7, <3>1
    <3>. QED
      BY <3>2, <3>3, EmptySeq
  <2>2. res1.Params = <<>> /\ res2.Params = <<>>
    BY <1>3, <1>5, <2>1
  <2>. QED
    BY <1>2, <1>3, <1>4, <2>2 DEF Alike
<1>. QED
  BY <1>6, <1>7

\* The answer of a page that directs nothing.
LEMMA PlainGiven ==
  ASSUME NEW r, NEW protocol \in Protocols, ~(protocol = Http1 /\ r.method = "OPTIONS"),
         NEW res, NEW connected, NEW result, IsPlain(res, connected, result)
  PROVE  \E n, t, args, data, cookies, type :
           /\ Said(res, connected, n, t, args, data, cookies, type)
           /\ FieldsAre(Respond(r, protocol, result), r, protocol, StatusBy(r, protocol), <<type>>,
                        Nothing, Nothing,
                        BodyOf(res.Page, n, t, args, data, cookies, CodingOf(res.Page)))
<1>1. PICK n, t, args, data, cookies, type :
        /\ Said(res, connected, n, t, args, data, cookies, type)
        /\ Yields(res, result, n, t, args, data, cookies, CodingOf(res.Page), type)
        /\ type \notin DirectiveNames
  BY Zenon DEF IsPlain
<1>2. PICK body, status, one :
        /\ body = BodyOf(res.Page, n, t, args, data, cookies, CodingOf(res.Page))
        /\ status = StatusBy(r, protocol) /\ one = <<type>>
  OBVIOUS
<1>3. result = Returns(body, one)
  BY <1>1, <1>2 DEF Yields
<1>4. Directed(result, status) = AnswerOf(status, one, Nothing, Nothing, Uncoded, Unmarked, body)
  BY <1>1, <1>2, <1>3, DirectedPlain DEF DirectiveNames
<1>5. PICK none : none = Nothing
  OBVIOUS
<1>6. FieldsAre(Respond(r, protocol, result), r, protocol, status, one, none, none, body)
  BY <1>2, <1>4, <1>5, RespondFields DEF Protocols
<1>. QED
  BY <1>1, <1>2, <1>5, <1>6, Zenon

\* The answer that sets cookies.
LEMMA CookiesGiven ==
  ASSUME NEW r, NEW protocol \in Protocols, ~(protocol = Http1 /\ r.method = "OPTIONS"),
         NEW body, NEW ctype, SetsCookies(ctype)
  PROVE  FieldsAre(Respond(r, protocol, Returns(body, ctype)), r, protocol, StatusBy(r, protocol),
                   SplitN(ctype)[3], Nothing, SplitBars(SplitN(ctype)[2]), body)
<1>1. PICK status, type, cookies, none, result :
        /\ status = StatusBy(r, protocol) /\ type = SplitN(ctype)[3]
        /\ cookies = SplitBars(SplitN(ctype)[2]) /\ none = Nothing
        /\ result = Returns(body, ctype)
  OBVIOUS
<1>2. Directed(result, status) = AnswerOf(status, type, none, cookies, Uncoded, Unmarked, body)
  BY <1>1, DirectedCookies
<1>3. FieldsAre(Respond(r, protocol, result), r, protocol, status, type, none, cookies, body)
  BY <1>1, <1>2, RespondFields DEF Protocols
<1>. QED
  BY <1>1, <1>3

\* The answer of a redirect.
LEMMA OnwardGiven ==
  ASSUME NEW r, NEW protocol \in Protocols, ~(protocol = Http1 /\ r.method = "OPTIONS"),
         NEW code \in 1..599, NEW url, IsText(url)
  PROVE  FieldsAre(Respond(r, protocol, Returns(NoBody, RedirectDirective(code, url))), r, protocol,
                   Atoi(<<Decimal[code]>>), <<"text/html; charset=utf-8">>, url, Nothing, NoBody)
<1>1. PICK status, number, html, body, none, result :
        /\ status = StatusBy(r, protocol) /\ number = Atoi(<<Decimal[code]>>)
        /\ html = <<"text/html; charset=utf-8">> /\ body = NoBody /\ none = Nothing
        /\ result = Returns(NoBody, RedirectDirective(code, url))
  OBVIOUS
<1>2. Directed(result, status) = OnwardAnswer(code, url)
  <2>1. Directed(Returns(body, RedirectDirective(code, url)), status) = OnwardAnswer(code, url)
    BY DirectedRedirect
  <2>. QED
    BY <1>1, <2>1
<1>3. OnwardAnswer(code, url) = AnswerOf(number, html, url, none, Uncoded, Unmarked, body)
  BY <1>1 DEF OnwardAnswer
<1>4. FieldsAre(Respond(r, protocol, result), r, protocol, number, html, url, none, body)
  BY <1>1, <1>2, <1>3, RespondFields DEF Protocols
<1>. QED
  BY <1>1, <1>4

\* What HTTP/1 and HTTP/2 agree on, and what HTTP/2 and HTTP/3.
AgreeFully(a, b, r) ==
  /\ a.status = b.status /\ a.coding = b.coding
  /\ a.location = Line(b.location)
  /\ Len(r.query) <= 1 => a.type = TypeLine(b.type) /\ a.cookies = Lines(b.cookies)
  /\ r.data = "" => a.body = b.body
  /\ a.body.page # "/bytes/" => PutData(a.body, "") = PutData(b.body, "")

AgreeBarely(a, b, r) ==
  /\ a.location = b.location
  /\ r.path.route # "/status/" => a.status = b.status
  /\ a.body.page # "/bytes/" => a.body.n = b.body.n

AgreeAsFar(a, b, r, P, Q) ==
  /\ P = Http1 /\ Q = Http2 /\ r.method # "OPTIONS" => AgreeFully(a, b, r)
  /\ P = Http2 /\ Q = Http3 /\ r.query = <<>> /\ "arg" \notin r.path.escaped =>
       AgreeBarely(a, b, r)

\* Two responses that differ in their data at most.
SameDetails(res1, res2, r) ==
  /\ res1.TLS = res2.TLS /\ res1.Cookies = res2.Cookies
  /\ r.data = "" => res1.Data = res2.Data

\* Neither is the OPTIONS that HTTP/1 answers by itself.
Asks(r, protocol) == ~(protocol = Http1 /\ r.method = "OPTIONS")

\* The status but for /status/ is the same over all three, and over two of them
\* always.
LEMMA StatusAlike ==
  ASSUME NEW r, NEW P, NEW Q
  PROVE  /\ r.path.route # "/status/" => StatusBy(r, P) = StatusBy(r, Q)
         /\ P # Http3 /\ Q # Http3 => StatusBy(r, P) = StatusBy(r, Q)
BY DEF StatusBy, extractStatusCode, RawRoute

\* A page that directs nothing.
LEMMA PlainAgree ==
  ASSUME NEW r, NEW P \in Protocols, NEW Q \in Protocols, Asks(r, P), Asks(r, Q),
         NEW res1, NEW res2, Alike(res1, res2), NEW connected,
         NEW result1, IsPlain(res1, connected, result1),
         NEW result2, IsPlain(res2, connected, result2),
         NEW a, a = Respond(r, P, result1), NEW b, b = Respond(r, Q, result2)
  PROVE  /\ P = Http1 /\ Q = Http2 /\ SameDetails(res1, res2, r) => AgreeFully(a, b, r)
         /\ P = Http2 /\ Q = Http3 => AgreeBarely(a, b, r)
<1>0. Http1 # Http2 /\ Http1 # Http3 /\ Http2 # Http3
  BY DEF Http1, Http2, Http3
<1>1. PICK n1, t1, a1, d1, k1, y1 :
        /\ Said(res1, connected, n1, t1, a1, d1, k1, y1)
        /\ FieldsAre(a, r, P, StatusBy(r, P), <<y1>>, Nothing, Nothing,
                     BodyOf(res1.Page, n1, t1, a1, d1, k1, CodingOf(res1.Page)))
  <2>1. ~(P = Http1 /\ r.method = "OPTIONS")
    BY DEF Asks
  <2>. QED
    BY <2>1, PlainGiven
<1>2. PICK n2, t2, a2, d2, k2, y2 :
        /\ Said(res2, connected, n2, t2, a2, d2, k2, y2)
        /\ FieldsAre(b, r, Q, StatusBy(r, Q), <<y2>>, Nothing, Nothing,
                     BodyOf(res2.Page, n2, t2, a2, d2, k2, CodingOf(res2.Page)))
  <2>1. ~(Q = Http1 /\ r.method = "OPTIONS")
    BY DEF Asks
  <2>. QED
    BY <2>1, PlainGiven
<1>3. /\ res1.Page # "/bytes/" \/ res1.Data = res2.Data => n1 = n2
      /\ res1.TLS = res2.TLS => t1 = t2
      /\ a1 = a2 /\ y1 = y2
      /\ res1.Data = res2.Data => d1 = d2
      /\ res1.Cookies = res2.Cookies => k1 = k2
  BY <1>1, <1>2, SaidAlike
<1>4. PICK page, coding, empty : /\ page = res1.Page /\ page = res2.Page
                                 /\ coding = CodingOf(page) /\ empty = ""
  BY DEF Alike
<1>5. PICK body1, body2 : /\ body1 = BodyOf(page, n1, t1, a1, d1, k1, coding)
                          /\ body2 = BodyOf(page, n2, t2, a2, d2, k2, coding)
  OBVIOUS
<1>11. PICK one, none : one = <<y1>> /\ one = <<y2>> /\ none = Nothing
  BY <1>3
<1>6. FieldsAre(a, r, P, StatusBy(r, P), one, none, none, body1)
  BY <1>1, <1>4, <1>5, <1>11
<1>7. FieldsAre(b, r, Q, StatusBy(r, Q), one, none, none, body2)
  BY <1>2, <1>4, <1>5, <1>11
<1>8. /\ body1.page = page /\ body1.n = n1 /\ body2.n = n2
      /\ PutData(body1, empty) = BodyOf(page, n1, t1, a1, empty, k1, coding)
      /\ PutData(body2, empty) = BodyOf(page, n2, t2, a2, empty, k2, coding)
  BY <1>5, BodyFields, BodyPuts
<1>9. ASSUME P = Http1, Q = Http2, SameDetails(res1, res2, r) PROVE AgreeFully(a, b, r)
  <2>1. t1 = t2 /\ k1 = k2 /\ (r.data = "" => res1.Data = res2.Data)
    BY <1>3, <1>9 DEF SameDetails
  <2>2. /\ a.status = b.status /\ a.location = Line(b.location) /\ a.coding = b.coding
        /\ a.type = TypeLine(b.type) /\ a.cookies = Lines(b.cookies)
        /\ a.body = body1 /\ b.body = body2
    BY <1>0, <1>6, <1>7, <1>9, StatusAlike DEF FieldsAre
  <2>3. r.data = "" => body1 = body2
    BY <1>3, <1>5, <2>1
  <2>4. page # "/bytes/" => PutData(body1, empty) = PutData(body2, empty)
    BY <1>3, <1>4, <1>8, <2>1
  <2>. QED
    BY <1>4, <1>8, <2>2, <2>3, <2>4 DEF AgreeFully
<1>10. ASSUME P = Http2, Q = Http3 PROVE AgreeBarely(a, b, r)
  <2>1. /\ a.location = b.location /\ a.body = body1 /\ b.body = body2
        /\ a.status = StatusBy(r, P) /\ b.status = StatusBy(r, Q)
    BY <1>0, <1>6, <1>7, <1>10 DEF FieldsAre
  <2>. QED
    BY <1>3, <1>4, <1>8, <2>1, StatusAlike DEF AgreeBarely
<1>. QED
  BY <1>9, <1>10

\* A redirect.
LEMMA OnwardAgree ==
  ASSUME NEW r, NEW P \in Protocols, NEW Q \in Protocols, Asks(r, P), Asks(r, Q),
         NEW result, IsOnward(result),
         NEW a, a = Respond(r, P, result), NEW b, b = Respond(r, Q, result)
  PROVE  /\ P = Http1 /\ Q = Http2 => AgreeFully(a, b, r)
         /\ P = Http2 /\ Q = Http3 => AgreeBarely(a, b, r)
<1>0. Http1 # Http2 /\ Http1 # Http3 /\ Http2 # Http3
  BY DEF Http1, Http2, Http3
<1>1. PICK code, url :
        code \in 1..599 /\ IsText(url) /\ result = Returns(NoBody, RedirectDirective(code, url))
  BY DEF IsOnward
<1>2. FieldsAre(a, r, P, Atoi(<<Decimal[code]>>), <<"text/html; charset=utf-8">>, url, Nothing,
                NoBody)
  <2>1. ~(P = Http1 /\ r.method = "OPTIONS")
    BY DEF Asks
  <2>. QED
    BY <1>1, <2>1, OnwardGiven
<1>3. FieldsAre(b, r, Q, Atoi(<<Decimal[code]>>), <<"text/html; charset=utf-8">>, url, Nothing,
                NoBody)
  <2>1. ~(Q = Http1 /\ r.method = "OPTIONS")
    BY DEF Asks
  <2>. QED
    BY <1>1, <2>1, OnwardGiven
<1>4. PICK number, html, none, body :
        /\ FieldsAre(a, r, P, number, html, url, none, body)
        /\ FieldsAre(b, r, Q, number, html, url, none, body)
  BY <1>2, <1>3
<1>5. P = Http1 /\ Q = Http2 => AgreeFully(a, b, r)
  BY <1>0, <1>4 DEF FieldsAre, AgreeFully
<1>6. P = Http2 /\ Q = Http3 => AgreeBarely(a, b, r)
  BY <1>0, <1>4 DEF FieldsAre, AgreeBarely
<1>. QED
  BY <1>5, <1>6

\* Cookies, of which only HTTP/1 and HTTP/2 know.
LEMMA CookiesAgree ==
  ASSUME NEW r, NEW P \in Protocols, NEW Q \in Protocols, Asks(r, P), Asks(r, Q),
         P = Http1, Q = Http2, NEW body,
         NEW ctype1, SetsCookies(ctype1), NEW ctype2, SetsCookies(ctype2),
         Len(r.query) <= 1 => ctype1 = ctype2,
         NEW a, a = Respond(r, P, Returns(body, ctype1)),
         NEW b, b = Respond(r, Q, Returns(body, ctype2))
  PROVE  AgreeFully(a, b, r)
<1>0. Http1 # Http2 /\ Http1 # Http3 /\ Http2 # Http3
  BY DEF Http1, Http2, Http3
<1>1. FieldsAre(a, r, P, StatusBy(r, P), SplitN(ctype1)[3], Nothing, SplitBars(SplitN(ctype1)[2]),
                body)
  <2>1. ~(P = Http1 /\ r.method = "OPTIONS")
    BY DEF Asks
  <2>. QED
    BY <2>1, CookiesGiven
<1>2. FieldsAre(b, r, Q, StatusBy(r, Q), SplitN(ctype2)[3], Nothing, SplitBars(SplitN(ctype2)[2]),
                body)
  <2>1. ~(Q = Http1 /\ r.method = "OPTIONS")
    BY DEF Asks
  <2>. QED
    BY <2>1, CookiesGiven
<1>3. /\ a.location = Line(b.location) /\ a.body = b.body /\ a.coding = b.coding
      /\ a.status = StatusBy(r, P) /\ b.status = StatusBy(r, Q)
      /\ ctype1 = ctype2 => a.type = TypeLine(b.type) /\ a.cookies = Lines(b.cookies)
  BY <1>0, <1>1, <1>2 DEF FieldsAre
<1>. QED
  BY <1>0, <1>3, StatusAlike DEF AgreeFully

\* What the routes gave, with what they were asked.
Gave(r, protocol, connected, a, params, res, count, result) ==
  /\ params \in Orders(r.query)
  /\ res = Response(r, protocol, params) /\ result = Handle(res, connected, count)
  /\ ~result.panics /\ a = Respond(r, protocol, result)
  /\ res.Page = Dispatch(r.path) /\ res.Page \in AllPages /\ IsQuery(res.Params)
  /\ res.Params = IF protocol = Http3 THEN <<>> ELSE params

\* That there is such.
LEMMA GivenBy ==
  ASSUME NEW r, IsRequest(r), NEW protocol \in Protocols, NEW connected,
         NEW a, Given(r, protocol, a, connected)
  PROVE  \E params, res, count, result :
           Gave(r, protocol, connected, a, params, res, count, result)
<1>1. PICK params, count, result :
        /\ params \in Orders(r.query)
        /\ result = Handle(Response(r, protocol, params), connected, count)
        /\ ~result.panics /\ a = Respond(r, protocol, result)
  BY Zenon DEF Given
<1>2. PICK res : res = Response(r, protocol, params)
  OBVIOUS
<1>3. /\ res.Page = Dispatch(r.path)
      /\ res.Params = IF protocol = Http3 THEN <<>> ELSE params
  BY <1>2 DEF Response
<1>4. IsQuery(res.Params)
  <2>1. IsQuery(<<>>)
    BY DEF IsQuery, ToSet
  <2>2. IsQuery(params)
    BY <1>1, RequestsHaveQueries, OrderIsAQuery
  <2>. QED
    BY <1>3, <2>1, <2>2
<1>5. res.Page \in AllPages
  BY <1>3, PageIsKnown
<1>. QED
  <2>1. Gave(r, protocol, connected, a, params, res, count, result)
    BY <1>1, <1>2, <1>3, <1>4, <1>5 DEF Gave
  <2>. QED
    BY <2>1, Zenon

\* /html, /xml and /api/raw answer only who has TLS details.
LEMMA RawHaveDetails ==
  ASSUME NEW res, NEW connected, NEW count, NEW result, result = Handle(res, connected, count),
         ~result.panics, res.Page \in RawPages
  PROVE  HasDetails(res)
<1>1. ~HasDetails(res) => result = Panics
  BY RawReturns DEF RawPages
<1>2. Panics.panics
  BY DEF Panics
<1>. QED
  BY <1>1, <1>2

\* The two redirects do what is asked of them, and send on.
LEMMA RedirectsReturn ==
  ASSUME NEW res, NEW connected, NEW count, IsQuery(res.Params),
         NEW result, result = Handle(res, connected, count)
  PROVE  /\ res.Page = "/redirect/" => result = httpbinRedirect(res) /\ IsOnward(result)
         /\ res.Page = "/redirect-to" => result = httpbinRedirectTo(res) /\ IsOnward(result)
<1>1. ASSUME res.Page = "/redirect/" PROVE result = httpbinRedirect(res) /\ IsOnward(result)
  <2>1. result = httpbinRedirect(res)
    BY <1>1 DEF Handle, Pages, Searches, Codings, Images
  <2>2. PICK n : n = Within(res, 1, 10, 1)
    OBVIOUS
  <2>3. PICK url : url = Onward(n) /\ IsText(url)
    BY OwnIsText DEF Onward
  <2>4. result = Returns(NoBody, RedirectDirective(302, url))
    BY <2>1, <2>2, <2>3 DEF httpbinRedirect, Onward
  <2>5. 302 \in 1..599
    OBVIOUS
  <2>. QED
    BY <2>1, <2>3, <2>4, <2>5 DEF IsOnward
<1>2. ASSUME res.Page = "/redirect-to" PROVE result = httpbinRedirectTo(res) /\ IsOnward(result)
  <2>1. result = httpbinRedirectTo(res)
    BY <1>2 DEF Handle, Pages, Searches, Codings, Images
  <2>. QED
    BY <2>1, RedirectToRedirects DEF IsOnward
<1>. QED
  BY <1>1, <1>2

\* The pages that answer alike over two protocols.
Comparable == AllPages \ {"404", "/api/request-count"}

\* They are the pages without a directive, those that read the TLS details, the
\* cookies and the redirects.
LEMMA ComparablePages ==
  Comparable \subseteq PlainPages \cup RawPages \cup {"/cookies/set", "/redirect/", "/redirect-to"}
BY TableDomains
   DEF Comparable, AllPages, PlainPages, StaticPages, EchoPages, TLSPages, EventPages, RawPages,
       Pages, Searches, getAllPaths, getHTTPBinPaths, getDynamicHTTPBinPaths

\* Details and data that HTTP/1 and HTTP/2 hand to a handler.
LEMMA DetailsAlike ==
  ASSUME NEW r, NEW P \in {Http1, Http2}, NEW Q \in {Http1, Http2}, NEW p1, NEW p2
  PROVE  SameDetails(Response(r, P, p1), Response(r, Q, p2), r)
<1>1. Http1 # Http3 /\ Http2 # Http3
  BY DEF Http1, Http2, Http3
<1>2. PICK res1, res2 : res1 = Response(r, P, p1) /\ res2 = Response(r, Q, p2)
  OBVIOUS
<1>3. /\ res1.TLS = (P # Http3) /\ res2.TLS = (Q # Http3)
      /\ res1.Cookies = (IF P = Http3 THEN {} ELSE r.cookies)
      /\ res2.Cookies = (IF Q = Http3 THEN {} ELSE r.cookies)
      /\ res1.Data = (IF P = Http2 THEN r.data ELSE "")
      /\ res2.Data = (IF Q = Http2 THEN r.data ELSE "")
  BY <1>2 DEF Response
<1>4. res1.TLS = res2.TLS
  BY <1>1, <1>3
<1>5. res1.Cookies = res2.Cookies
  BY <1>1, <1>3
<1>6. r.data = "" => res1.Data = res2.Data
  BY <1>3
<1>. QED
  BY <1>2, <1>4, <1>5, <1>6 DEF SameDetails

\* What the routes gave to one request over two protocols.
LEMMA GivenAgree ==
  ASSUME NEW r, IsRequest(r), Dispatch(r.path) \in Comparable,
         NEW P \in Protocols, NEW Q \in Protocols, Asks(r, P), Asks(r, Q),
         (P # Http3 /\ Q # Http3) \/ (r.query = <<>> /\ "arg" \notin r.path.escaped),
         NEW connected,
         NEW a, Given(r, P, a, connected), NEW b, Given(r, Q, b, connected)
  PROVE  /\ P = Http1 /\ Q = Http2 => AgreeFully(a, b, r)
         /\ P = Http2 /\ Q = Http3 => AgreeBarely(a, b, r)
<1>0. Http1 # Http2 /\ Http1 # Http3 /\ Http2 # Http3
  BY DEF Http1, Http2, Http3
<1>1. PICK p1, res1, count1, result1 :
        /\ p1 \in Orders(r.query)
        /\ res1 = Response(r, P, p1) /\ result1 = Handle(res1, connected, count1)
        /\ ~result1.panics /\ a = Respond(r, P, result1)
        /\ res1.Page = Dispatch(r.path) /\ res1.Page \in AllPages /\ IsQuery(res1.Params)
        /\ res1.Params = IF P = Http3 THEN <<>> ELSE p1
  <2>1. PICK p1, res1, count1, result1 :
          Gave(r, P, connected, a, p1, res1, count1, result1)
    BY GivenBy, Zenon
  <2>. QED
    BY <2>1 DEF Gave
<1>2. PICK p2, res2, count2, result2 :
        /\ p2 \in Orders(r.query)
        /\ res2 = Response(r, Q, p2) /\ result2 = Handle(res2, connected, count2)
        /\ ~result2.panics /\ b = Respond(r, Q, result2)
        /\ res2.Page = Dispatch(r.path) /\ res2.Page \in AllPages /\ IsQuery(res2.Params)
        /\ res2.Params = IF Q = Http3 THEN <<>> ELSE p2
  <2>1. PICK p2, res2, count2, result2 :
          Gave(r, Q, connected, b, p2, res2, count2, result2)
    BY GivenBy, Zenon
  <2>. QED
    BY <2>1 DEF Gave
<1>3. Alike(res1, res2)
  BY <1>1, <1>2, ResponsesAlike
<1>4. P = Http1 /\ Q = Http2 => SameDetails(res1, res2, r)
  BY <1>0, <1>1, <1>2, DetailsAlike DEF Protocols
<1>5. PICK page : page = res1.Page /\ page = res2.Page /\ page \in Comparable
  BY <1>1, <1>2
<1>6. CASE page \in PlainPages \cup RawPages \/ (page = "/cookies/set" /\ res1.Params = <<>>)
  <2>1. page = "/cookies/set" => res1.Params = <<>> /\ res2.Params = <<>>
    <3>1. "/cookies/set" \notin PlainPages \cup RawPages
      BY TableDomains DEF PlainPages, RawPages, StaticPages, EchoPages, TLSPages, EventPages, Pages,
         Searches
    <3>2. page = "/cookies/set" => res1.Params = <<>>
      BY <1>6, <3>1
    <3>3. res1.Params = <<>> => res2.Params = <<>>
      <4>1. PICK query : query = r.query /\ IsQuery(query) /\ OneEach(query)
        BY RequestsHaveQueries
      <4>2. p1 = <<>> <=> p2 = <<>>
        BY <1>1, <1>2, <4>1, SameParams
      <4>3. r.query = <<>> => p2 = <<>>
        <5>1. IsQuery(p2) /\ Len(p2) = Len(query)
          BY <1>2, <4>1, OrderIsAQuery
        <5>2. PICK S : p2 \in Seq(S)
          BY <5>1 DEF IsQuery
        <5>3. query = <<>> => Len(query) = 0
          OBVIOUS
        <5>. QED
          BY <4>1, <5>1, <5>2, <5>3, EmptySeq
      <4>. QED
        BY <1>1, <1>2, <4>2, <4>3
    <3>. QED
      BY <3>2, <3>3
  <2>2. /\ res1.Page \in RawPages => HasDetails(res1)
        /\ res2.Page \in RawPages => HasDetails(res2)
    BY <1>1, <1>2, RawHaveDetails
  <2>3. page \in PlainPages \cup RawPages \cup {"/cookies/set"}
    BY <1>6
  <2>4. IsPlain(res1, connected, result1)
    BY <1>1, <1>5, <2>1, <2>2, <2>3, HandlePlain
  <2>5. IsPlain(res2, connected, result2)
    BY <1>2, <1>5, <2>1, <2>2, <2>3, HandlePlain
  <2>. QED
    BY <1>1, <1>2, <1>3, <1>4, <2>4, <2>5, PlainAgree
<1>7. CASE page = "/redirect/"
  <2>1. result1 = httpbinRedirect(res1) /\ IsOnward(result1)
    BY <1>1, <1>5, <1>7, RedirectsReturn
  <2>2. result2 = httpbinRedirect(res2)
    BY <1>2, <1>5, <1>7, RedirectsReturn
  <2>3. result1 = result2
    BY <1>3, <2>1, <2>2, OnwardAlike
  <2>. QED
    BY <1>1, <1>2, <2>1, <2>3, OnwardAgree
<1>8. CASE page = "/redirect-to"
  <2>1. result1 = httpbinRedirectTo(res1) /\ IsOnward(result1)
    BY <1>1, <1>5, <1>8, RedirectsReturn
  <2>2. result2 = httpbinRedirectTo(res2)
    BY <1>2, <1>5, <1>8, RedirectsReturn
  <2>3. result1 = result2
    BY <1>3, <2>1, <2>2, OnwardAlike
  <2>. QED
    BY <1>1, <1>2, <2>1, <2>3, OnwardAgree
<1>9. CASE page = "/cookies/set" /\ res1.Params # <<>>
  <2>1. PICK query : query = r.query /\ IsQuery(query) /\ OneEach(query)
    BY RequestsHaveQueries
  <2>2. P # Http3 /\ r.query # <<>>
    <3>1. P # Http3 /\ p1 # <<>>
      BY <1>1, <1>9
    <3>2. query = <<>> => p1 = <<>>
      <4>1. IsQuery(p1) /\ Len(p1) = Len(query)
        BY <1>1, <2>1, OrderIsAQuery
      <4>2. PICK S : p1 \in Seq(S)
        BY <4>1 DEF IsQuery
      <4>3. query = <<>> => Len(query) = 0
        OBVIOUS
      <4>. QED
        BY <4>1, <4>2, <4>3, EmptySeq
    <3>. QED
      BY <2>1, <3>1, <3>2
  <2>3. Q # Http3
    BY <2>2
  <2>4. /\ res1.Params = p1 /\ res2.Params = p2 /\ p1 # <<>> /\ p2 # <<>>
        /\ ToSet(p1) = ToSet(p2) /\ (Len(r.query) <= 1 => p1 = p2)
    <3>1. res1.Params = p1 /\ res2.Params = p2
      BY <1>1, <1>2, <2>2, <2>3
    <3>2. /\ ToSet(p1) = ToSet(p2) /\ (p1 = <<>> <=> p2 = <<>>)
          /\ Len(query) <= 1 => p1 = p2
      BY <1>1, <1>2, <2>1, SameParams
    <3>. QED
      BY <1>9, <2>1, <3>1, <3>2
  <2>5. PICK ctype1, ctype2 : /\ ctype1 = CookieDirective(CookieTexts(p1))
                              /\ ctype2 = CookieDirective(CookieTexts(p2))
    OBVIOUS
  <2>6. SetsCookies(ctype1) /\ SetsCookies(ctype2) /\ (Len(r.query) <= 1 => ctype1 = ctype2)
    BY <1>1, <1>2, <2>4, <2>5, CookiesDirect
  <2>7. PICK body : body = BodyOf(page, NaN, res1.TLS, Empty, NoText, ToSet(p1), Uncoded)
    OBVIOUS
  <2>8. result1 = Returns(body, ctype1)
    BY <1>1, <1>5, <1>9, <2>4, <2>5, <2>7, CookiesSetReturns
  <2>9. P = Http1 /\ Q = Http2 => res1.TLS = res2.TLS
    BY <1>4 DEF SameDetails
  <2>10. P = Http1 /\ Q = Http2 => result2 = Returns(body, ctype2)
    BY <1>2, <1>5, <1>9, <2>4, <2>5, <2>7, <2>9, CookiesSetReturns
  <2>11. P = Http1 /\ Q = Http2 => AgreeFully(a, b, r)
    BY <1>1, <1>2, <2>6, <2>8, <2>10, CookiesAgree
  <2>. QED
    BY <2>3, <2>11
<1>. QED
  BY <1>5, <1>6, <1>7, <1>8, <1>9, ComparablePages

\* The pages that count the log are told by the body they give.
LEMMA OthersAreComparable ==
  ASSUME NEW r, IsRequest(r), NEW protocol \in Protocols, Asks(r, protocol), NEW connected,
         NEW a, Given(r, protocol, a, connected), ~Counts(a)
  PROVE  Dispatch(r.path) \in Comparable
<1>1. PICK params, res, count, result : Gave(r, protocol, connected, a, params, res, count, result)
  BY GivenBy, Zenon
<1>2. /\ res = Response(r, protocol, params) /\ result = Handle(res, connected, count)
      /\ a = Respond(r, protocol, result) /\ res.Page \in AllPages /\ res.Page = Dispatch(r.path)
  BY <1>1 DEF Gave
<1>. SUFFICES ASSUME res.Page \in {"404", "/api/request-count"} PROVE FALSE
  BY <1>2 DEF Comparable
<1>3. PICK n, t, args, data, cookies, coding, type :
        /\ Yields(res, result, n, t, args, data, cookies, coding, type)
        /\ type \notin DirectiveNames
  <2>1. CASE res.Page = "404"
    <3>1. PICK n, t, args, data, coding, type :
            /\ Yields(res, result, n, t, args, data, args, coding, type) /\ type = "text/html"
      BY <1>2, <2>1, LostReturns
    <3>2. type \notin DirectiveNames
      BY <3>1 DEF DirectiveNames
    <3>. QED
      BY <3>1, <3>2, Zenon
  <2>2. CASE res.Page = "/api/request-count"
    <3>1. PICK n, t, args, data, coding, type :
            /\ Yields(res, result, n, t, args, data, args, coding, type)
            /\ type = "application/json"
      BY <1>2, <2>2, CountReturns
    <3>2. type \notin DirectiveNames
      BY <3>1 DEF DirectiveNames
    <3>. QED
      BY <3>1, <3>2, Zenon
  <2>. QED
    BY <2>1, <2>2
<1>4. PICK page, one, status :
        page = res.Page /\ one = <<type>> /\ status = StatusBy(r, protocol)
  OBVIOUS
<1>5. PICK body : body = BodyOf(page, n, t, args, data, cookies, coding)
  OBVIOUS
<1>6. result = Returns(body, one)
  BY <1>3, <1>4, <1>5 DEF Yields
<1>7. Directed(result, status) = AnswerOf(status, one, Nothing, Nothing, Uncoded, Unmarked, body)
  BY <1>3, <1>4, <1>6, DirectedPlain DEF DirectiveNames
<1>8. PICK none : none = Nothing
  OBVIOUS
<1>9. FieldsAre(a, r, protocol, status, one, none, none, body)
  <2>1. ~(protocol = Http1 /\ r.method = "OPTIONS")
    BY DEF Asks
  <2>2. FieldsAre(Respond(r, protocol, result), r, protocol, status, one, none, none, body)
    BY <1>4, <1>7, <1>8, <2>1, RespondFields DEF Protocols
  <2>. QED
    BY <1>2, <2>2
<1>10. a.body.page = res.Page
  BY <1>4, <1>5, <1>9, BodyFields DEF FieldsAre
<1>. QED
  BY <1>10 DEF Counts

(***************************************************************************)
(* One request has one answer whichever protocol it comes by, as far as    *)
(* AnswersAgree says: HTTP/1 gives the status, the coding and, without a   *)
(* body in the request, the body that HTTP/2 gives, and of its headers     *)
(* what a line can hold, with a charset behind the type; and HTTP/3 gives  *)
(* HTTP/2's location, status and number to a request without a query and   *)
(* without an escape in its number.                                        *)
(***************************************************************************)
THEOREM AnswersAgreeAcrossProtocols == Spec => []AnswersAgree
<1>1. AnswerInv => AnswersAgree
  <2>. SUFFICES ASSUME AnswerInv, NEW c \in Connections, NEW d \in Connections,
                       Answered(c) /\ Answered(d) /\ req[d] = req[c] /\ ~Counts(answer[c])
                PROVE  AgreeAsFar(answer[c], answer[d], req[c], Protocol(c), Protocol(d))
    BY Zenon DEF AnswersAgree, AgreeAsFar, AgreeFully, AgreeBarely, PutData, TypeLine
  <2>1. PICK r, P, Q, a, b, connected :
          /\ r = req[c] /\ r = req[d] /\ P = Protocol(c) /\ Q = Protocol(d)
          /\ a = answer[c] /\ b = answer[d] /\ connected = Config.connected
    OBVIOUS
  <2>2. IsRequest(r) /\ Given(r, P, a, connected) /\ Given(r, Q, b, connected)
    BY <2>1 DEF AnswerInv
  <2>3. P \in Protocols /\ Q \in Protocols
    BY <2>1, ProtocolAssumption DEF ProtocolAssumption, Protocol, AnswerInv, HopTypes, Protocols
  <2>4. Http1 # Http2 /\ Http1 # Http3 /\ Http2 # Http3
    BY DEF Http1, Http2, Http3
  <2>5. ASSUME P = Http1, Q = Http2, r.method # "OPTIONS" PROVE AgreeFully(a, b, r)
    <3>1. Asks(r, P) /\ Asks(r, Q) /\ P # Http3 /\ Q # Http3
      BY <2>4, <2>5 DEF Asks
    <3>2. Dispatch(r.path) \in Comparable
      BY <2>1, <2>2, <2>3, <3>1, OthersAreComparable
    <3>. QED
      BY <2>2, <2>3, <2>5, <3>1, <3>2, GivenAgree
  <2>6. ASSUME P = Http2, Q = Http3, r.query = <<>>, "arg" \notin r.path.escaped
        PROVE  AgreeBarely(a, b, r)
    <3>1. Asks(r, P) /\ Asks(r, Q)
      BY <2>4, <2>6 DEF Asks
    <3>2. Dispatch(r.path) \in Comparable
      BY <2>1, <2>2, <2>3, <3>1, OthersAreComparable
    <3>. QED
      BY <2>2, <2>3, <2>6, <3>1, <3>2, GivenAgree
  <2>. QED
    BY <2>1, <2>5, <2>6 DEF AgreeAsFar
<1>. QED
  BY <1>1, AnswersAreGiven, PTL

-----------------------------------------------------------------------------
(* The lists of an extension, as the parser's loops take them               *)

\* A well-formed extension whose items have values of V.
IsList(ext, V) ==
  /\ ext.items \in Seq([v : V, size : Width(ext.type)])
  /\ ext.length = Size(ext.items)
  /\ ext.data \in Nat /\ ext.data >= Ahead(ext.type) + ext.length

LEMMA ListFacts ==
  ASSUME NEW V, NEW ext, IsList(ext, V)
  PROVE  /\ Len(ext.items) \in Nat
         /\ DOMAIN ext.items = 1..Len(ext.items)
         /\ \A k \in 1..Len(ext.items) :
              ext.items[k].v \in V /\ ext.items[k].size \in Width(ext.type)
         /\ ext.items = <<>> <=> Len(ext.items) = 0
<1>1. ext.items \in Seq([v : V, size : Width(ext.type)])
  BY DEF IsList
<1>2. \A k \in 1..Len(ext.items) : ext.items[k] \in [v : V, size : Width(ext.type)]
  BY <1>1, ElementOfSeq
<1>. QED
  BY <1>1, <1>2, LenProperties, EmptySeq

LEMMA WidthIsNat == \A type : Width(type) \subseteq Nat \ {0}
  BY DEF Width

\* Sizes has the sum of the sizes up to each place.
LEMMA SizesAreSums ==
  ASSUME NEW V, NEW ext, IsList(ext, V)
  PROVE  /\ Sizes(ext.items)[0] = 0
         /\ \A k \in 1..Len(ext.items) :
              Sizes(ext.items)[k] = Sizes(ext.items)[k - 1] + ext.items[k].size
         /\ \A k \in 0..Len(ext.items) : Sizes(ext.items)[k] \in Nat
<1>. DEFINE n == Len(ext.items)
            size == [i \in 1..n |-> ext.items[i].size]
            Sums(f) == [i \in 0..n |-> IF i = 0 THEN 0 ELSE f[i - 1] + ext.items[i].size]
            s == CHOOSE f : f = Sums(f)
<1>0. n \in Nat
  BY ListFacts
<1>1. size \in [1..n -> Nat]
  BY ListFacts, WidthIsNat
<1>2. PICK f \in [0..n -> Nat] : IsSum(f, n, size)
  <2>. HIDE DEF size, n
  <2>. QED
    BY <1>0, <1>1, SumExists
<1>3. f = Sums(f)
  <2>1. \A i \in 1..n : size[i] = ext.items[i].size
    OBVIOUS
  <2>. HIDE DEF size, n
  <2>2. \A i \in 0..n : f[i] = IF i = 0 THEN 0 ELSE f[i - 1] + ext.items[i].size
    BY <1>0, <1>2, <2>1 DEF IsSum
  <2>. QED
    BY <2>2
<1>4. s = Sums(s)
  BY <1>3
<1>5. Sizes(ext.items) = s
  BY DEF Sizes
<1>. HIDE DEF s, n
<1>6. s[0] = 0 /\ \A i \in 1..n : s[i] = s[i - 1] + ext.items[i].size
  <2>1. \A i \in 0..n : s[i] = IF i = 0 THEN 0 ELSE s[i - 1] + ext.items[i].size
    BY <1>4
  <2>2. \A i \in 1..n : i \in 0..n /\ i # 0
    BY <1>0
  <2>. QED
    BY <1>0, <2>1, <2>2
<1>. DEFINE S == {i \in 0..n : s[i] \in Nat}
<1>7. 0 \in S
  BY <1>0, <1>6
<1>8. ASSUME NEW i \in 1..n, i - 1 \in S PROVE i \in S
  <2>1. ext.items[i].size \in Nat
    BY ListFacts, WidthIsNat DEF n
  <2>. QED
    BY <1>0, <1>6, <1>8, <2>1
<1>9. 0..n \subseteq S
  <2>. HIDE DEF S
  <2>. QED
    BY <1>0, <1>7, <1>8, IntervalInduction
<1>. QED
  BY <1>5, <1>6, <1>9 DEF n

LEMMA OneMoreSize ==
  ASSUME NEW x \in Int, NEW y \in Int, NEW p \in Int, NEW w \in Int, NEW u \in Int, u >= w,
         NEW z, z = y + u, y >= x + p
  PROVE  z >= x + (p + w)
  OBVIOUS

\* With items of w bytes at least, those left after the first k have so many
\* bytes each.
LEMMA SizesLeft ==
  ASSUME NEW V, NEW ext, IsList(ext, V), NEW w \in Nat,
         \A s \in Width(ext.type) : s >= w,
         NEW k \in 0..Len(ext.items)
  PROVE  \A j \in k..Len(ext.items) :
           Sizes(ext.items)[j] >= Sizes(ext.items)[k] + w * (j - k)
<1>. DEFINE n == Len(ext.items)
            sum == Sizes(ext.items)
            S == {i \in 0..(n - k) : sum[k + i] >= sum[k] + w * i}
<1>1. n \in Nat /\ n - k \in Nat /\ sum[k] \in Nat
  BY ListFacts, SizesAreSums
<1>2. 0 \in S
  BY <1>1
<1>3. ASSUME NEW i \in 1..(n - k), i - 1 \in S PROVE i \in S
  <2>1. k + i \in 1..n /\ (k + i) - 1 = k + (i - 1) /\ k + i \in 0..n /\ k + (i - 1) \in 0..n
    BY <1>1
  <2>2. sum[k + i] = sum[k + (i - 1)] + ext.items[k + i].size
    BY <2>1, SizesAreSums
  <2>3. ext.items[k + i].size >= w /\ ext.items[k + i].size \in Nat
    BY <2>1, ListFacts, WidthIsNat
  <2>4. sum[k + (i - 1)] \in Nat /\ sum[k + i] \in Nat
    BY <2>1, SizesAreSums
  <2>5. sum[k + (i - 1)] >= sum[k] + w * (i - 1)
    BY <1>3
  <2>. HIDE DEF sum, n
  <2>6. w * i = w * (i - 1) + w /\ w * i \in Nat
    BY <1>1
  <2>7. w * (i - 1) \in Int
    BY <1>1
  <2>8. sum[k + i] >= sum[k] + (w * (i - 1) + w)
    <3>. DEFINE x == sum[k]
                y == sum[k + (i - 1)]
                z == sum[k + i]
                p == w * (i - 1)
                u == ext.items[k + i].size
    <3>1. x \in Int /\ y \in Int /\ w \in Int /\ u \in Int
      <4>1. x \in Nat
        BY <1>1
      <4>2. y \in Nat
        BY <2>4
      <4>3. u \in Nat
        BY <2>3
      <4>. HIDE DEF x, y, u
      <4>. QED
        BY <4>1, <4>2, <4>3
    <3>3. z = y + u
      BY <2>2
    <3>4. y >= x + p
      BY <2>5
    <3>5. u >= w
      BY <2>3
    <3>6. p \in Int
      BY <2>7
    <3>. HIDE DEF x, y, z, p, u
    <3>2. z >= x + (p + w)
      BY <3>1, <3>3, <3>4, <3>5, <3>6, OneMoreSize
    <3>. QED
      BY <3>2 DEF x, z, p
  <2>9. sum[k + i] >= sum[k] + w * i
    BY <2>6, <2>8
  <2>. QED
    BY <1>1, <2>9
<1>4. 0..(n - k) \subseteq S
  <2>. HIDE DEF S
  <2>. QED
    BY <1>1, <1>2, <1>3, IntervalInduction
<1>5. ASSUME NEW j \in k..n PROVE sum[j] >= sum[k] + w * (j - k)
  <2>1. j - k \in 0..(n - k) /\ k + (j - k) = j
    BY <1>1
  <2>. HIDE DEF sum, n
  <2>. QED
    BY <1>4, <2>1
<1>. QED
  BY <1>5

\* The items of two bytes.
LEMMA SizesOfPairs ==
  ASSUME NEW V, NEW ext, IsList(ext, V), NEW w \in {1, 2}, Width(ext.type) = {w}
  PROVE  \A k \in 0..Len(ext.items) : Sizes(ext.items)[k] = w * k
<1>. DEFINE n == Len(ext.items)
            sum == Sizes(ext.items)
            S == {i \in 0..n : sum[i] = w * i}
<1>1. n \in Nat
  BY ListFacts
<1>2. 0 \in S
  BY <1>1, SizesAreSums
<1>3. ASSUME NEW i \in 1..n, i - 1 \in S PROVE i \in S
  <2>1. sum[i] = sum[i - 1] + w
    BY SizesAreSums, ListFacts
  <2>. QED
    BY <1>1, <1>3, <2>1
<1>4. 0..n \subseteq S
  <2>. HIDE DEF S
  <2>. QED
    BY <1>1, <1>2, <1>3, IntervalInduction
<1>. QED
  BY <1>4

\* How many items of an extension are shown.
ShownItems(ext) ==
  IF Len(ext.items) = 0 THEN 0
  ELSE IF ext.type \in {0, 45} THEN 1
  ELSE IF ext.type \in {17513, 17613} /\ ext.items[Len(ext.items)].size = 2
  THEN Len(ext.items) - 1 ELSE Len(ext.items)

LEMMA ShownIsCounted ==
  ASSUME NEW V, NEW ext, IsList(ext, V)
  PROVE  /\ Shown(ext) = [k \in 1..ShownItems(ext) |-> ext.items[k].v]
         /\ ShownItems(ext) \in 0..Len(ext.items)
<1>. DEFINE n == Len(ext.items)
<1>1. /\ n \in Nat /\ DOMAIN ext.items = 1..n
      /\ ext.items = <<>> <=> n = 0
  BY ListFacts
<1>2. ShownItems(ext) \in 0..n
  BY <1>1 DEF ShownItems
<1>. DEFINE taken == [k \in 1..ShownItems(ext) |-> ext.items[k].v]
<1>3. CASE ext.type \in {0, 45} /\ n # 0
  <2>1. ShownItems(ext) = 1 /\ Shown(ext) = <<ext.items[1].v>>
    BY <1>1, <1>3 DEF ShownItems, Shown
  <2>2. <<ext.items[1].v>> = [k \in 1..1 |-> ext.items[k].v]
    OBVIOUS
  <2>. QED
    BY <1>2, <2>1, <2>2
<1>4. CASE ext.type \in {17513, 17613} /\ n # 0 /\ ext.items[n].size = 2
  <2>1. ShownItems(ext) = n - 1
    BY <1>1, <1>4 DEF ShownItems
  <2>2. Shown(ext) = [k \in 1..(n - 1) |-> ext.items[k].v]
    BY <1>1, <1>4 DEF Shown
  <2>. QED
    BY <1>2, <2>1, <2>2
<1>5. CASE ~(ext.type \in {0, 45} /\ n # 0)
           /\ ~(ext.type \in {17513, 17613} /\ n # 0 /\ ext.items[n].size = 2)
  <2>1. ShownItems(ext) = n
    BY <1>1, <1>5 DEF ShownItems
  <2>2. Shown(ext) = Values(ext)
    BY <1>1, <1>5 DEF Shown
  <2>. QED
    BY <1>1, <1>2, <2>1, <2>2 DEF Values
<1>. QED
  BY <1>3, <1>4, <1>5

\* The loop over a list goes on as long as there is one to show.
LEMMA MoreWhileShown ==
  ASSUME NEW V, NEW ext, IsList(ext, V), NEW k \in 0..Len(ext.items)
  PROVE  More(ext, k) <=> k < ShownItems(ext)
<1>. DEFINE n == Len(ext.items)
            sum == Sizes(ext.items)
            type == ext.type
<1>1. n \in Nat /\ k \in 0..n /\ n \in 0..n /\ 0 \in 0..n
  BY ListFacts
<1>2. sum[0] = 0 /\ sum[k] \in Nat /\ sum[n] \in Nat /\ ext.length = sum[n]
  BY <1>1, SizesAreSums DEF Size, IsList
<1>3. ASSUME NEW w \in Nat, \A s \in Width(type) : s >= w
      PROVE  sum[n] >= sum[k] + w * (n - k)
  <2>1. n \in k..n
    BY <1>1
  <2>. QED
    BY <1>3, <2>1, SizesLeft
<1>. HIDE DEF n, sum
<1>4. CASE type \in {10, 13, 16}
  <2>1. More(ext, k) <=> 2 + sum[k] <= sum[n]
    <3>1. More(ext, k) <=> Offset(ext.items, k) <= ext.length
      BY <1>4 DEF More, Settings
    <3>. QED
      BY <1>2, <3>1 DEF Offset, sum
  <2>2. ShownItems(ext) = n
    BY <1>1, <1>4 DEF ShownItems, n
  <2>3. \A s \in Width(type) : s >= 2
    BY <1>4 DEF Width, Settings
  <2>4. sum[n] >= sum[k] + 2 * (n - k)
    BY <1>3, <2>3
  <2>. QED
    BY <1>1, <1>2, <2>1, <2>2, <2>4
<1>5. CASE type = 51
  <2>1. More(ext, k) <=> 2 + sum[k] < sum[n]
    <3>1. More(ext, k) <=> Offset(ext.items, k) < ext.length
      BY <1>5 DEF More, Settings
    <3>. QED
      BY <1>2, <3>1 DEF Offset, sum
  <2>2. ShownItems(ext) = n
    BY <1>1, <1>5 DEF ShownItems, n
  <2>3. \A s \in Width(type) : s >= 5
    BY <1>5 DEF Width, Settings
  <2>4. sum[n] >= sum[k] + 5 * (n - k)
    BY <1>3, <2>3
  <2>. QED
    BY <1>1, <1>2, <2>1, <2>2, <2>4
<1>6. CASE type \in {17513, 17613}
  <2>0. type \in Settings /\ ext.data \in Nat /\ ext.data >= sum[n] + 2
    BY <1>2, <1>6 DEF Settings, IsList, Ahead
  <2>1. More(ext, k) <=> 2 + sum[k] < sum[n]
    <3>1. More(ext, k) <=> AllThere(ext) /\ 2 + sum[k] < sum[n]
      BY <1>2, <1>6, <2>0 DEF More, Settings, Offset, sum
    <3>2. 2 + sum[k] < sum[n] => AllThere(ext)
      BY <1>2, <2>0 DEF AllThere
    <3>. QED
      BY <3>1, <3>2
  <2>2. \A s \in Width(type) : s >= 2
    BY <1>6 DEF Width, Settings
  <2>3. sum[n] >= sum[k] + 2 * (n - k)
    BY <1>3, <2>2
  <2>4. ASSUME n # 0
        PROVE  /\ sum[n] = sum[n - 1] + ext.items[n].size /\ sum[n - 1] \in Nat
               /\ ext.items[n].size \in Nat /\ ext.items[n].size >= 2
    <3>1. n \in 1..n /\ n - 1 \in 0..n
      BY <1>1, <2>4
    <3>2. ext.items[n].size \in Width(type)
      BY <3>1, ListFacts DEF n
    <3>. QED
      BY <2>2, <3>1, <3>2, SizesAreSums, WidthIsNat DEF n, sum
  <2>5. CASE n = 0
    <3>1. ShownItems(ext) = 0
      BY <2>5 DEF ShownItems, n
    <3>. QED
      BY <1>1, <1>2, <2>1, <2>5, <3>1
  <2>6. CASE n # 0 /\ ext.items[n].size = 2
    <3>1. ShownItems(ext) = n - 1
      BY <1>6, <2>6 DEF ShownItems, n
    <3>2. CASE k = n - 1
      BY <1>1, <1>2, <2>1, <2>4, <2>6, <3>1, <3>2
    <3>3. CASE k # n - 1
      BY <1>1, <1>2, <2>1, <2>3, <2>6, <3>1, <3>3
    <3>. QED
      BY <3>2, <3>3
  <2>7. CASE n # 0 /\ ext.items[n].size # 2
    <3>1. ShownItems(ext) = n
      BY <1>6, <2>7 DEF ShownItems, n
    <3>2. CASE k = n - 1
      BY <1>1, <1>2, <2>1, <2>4, <2>7, <3>1, <3>2
    <3>3. CASE k # n - 1
      BY <1>1, <1>2, <2>1, <2>3, <2>7, <3>1, <3>3
    <3>. QED
      BY <3>2, <3>3
  <2>. QED
    BY <2>5, <2>6, <2>7
<1>7. CASE type = 11
  <2>1. More(ext, k) <=> sum[k] + 2 <= sum[n] + 1
    BY <1>2, <1>7 DEF More, Settings, sum
  <2>2. ShownItems(ext) = n
    BY <1>1, <1>7 DEF ShownItems, n
  <2>3. Width(type) = {1}
    BY <1>7 DEF Width, Settings
  <2>4. sum[n] = 1 * n /\ sum[k] = 1 * k
    BY <1>1, <2>3, SizesOfPairs DEF n, sum
  <2>. QED
    BY <1>1, <2>1, <2>2, <2>4
<1>8. CASE type \in {27, 34, 43}
  <2>1. More(ext, k) <=> 2 * k < sum[n]
    BY <1>2, <1>8 DEF More, Settings
  <2>2. ShownItems(ext) = n
    BY <1>1, <1>8 DEF ShownItems, n
  <2>3. Width(type) = {2}
    BY <1>8 DEF Width, Settings
  <2>4. sum[n] = 2 * n
    BY <1>1, <2>3, SizesOfPairs DEF n, sum
  <2>. QED
    BY <1>1, <2>1, <2>2, <2>4
<1>9. CASE type \in {0, 45}
  <2>1. More(ext, k) <=> k = 0 /\ sum[n] >= 1
    BY <1>2, <1>9 DEF More, Settings
  <2>2. \A s \in Width(type) : s >= 1
    BY <1>9 DEF Width, Settings
  <2>3. sum[n] >= sum[k] + 1 * (n - k)
    BY <1>3, <2>2
  <2>4. ShownItems(ext) = IF n = 0 THEN 0 ELSE 1
    BY <1>9 DEF ShownItems, n
  <2>5. n = 0 => sum[n] = 0
    BY <1>2
  <2>. QED
    BY <1>1, <1>2, <2>1, <2>3, <2>4, <2>5
<1>10. CASE type \notin {10, 13, 53, 16, 51, 17513, 17613, 11, 27, 34, 43, 0, 45}
  <2>1. More(ext, k) <=> k < n
    BY <1>10 DEF More, Settings, n
  <2>2. ShownItems(ext) = n
    BY <1>1, <1>10 DEF ShownItems, n
  <2>. QED
    BY <2>1, <2>2
<1>11. CASE type = 53
  <2>1. More(ext, k) <=> k < sum[n] \div 2
    BY <1>2, <1>11 DEF More, Settings
  <2>2. ShownItems(ext) = n
    BY <1>1, <1>11 DEF ShownItems, n
  <2>3. Width(type) = {2}
    BY <1>11 DEF Width, Settings
  <2>4. sum[n] = 2 * n
    BY <1>1, <2>3, SizesOfPairs DEF n, sum
  <2>5. (2 * n) \div 2 = n
    BY <1>1
  <2>. QED
    BY <1>1, <2>1, <2>2, <2>4, <2>5
<1>. QED
  BY <1>4, <1>5, <1>6, <1>7, <1>8, <1>9, <1>10, <1>11

\* What is taken of an extension is what is shown, and nothing beyond its data.
LEMMA TakenIsShown ==
  ASSUME NEW V, NEW ext, IsList(ext, V)
  PROVE  Taken(ext) = Shown(ext) /\ ~Overruns(ext)
<1>. DEFINE n == Len(ext.items)
            m == ShownItems(ext)
            Ends(i) == /\ \A k \in 0..(i - 1) : More(ext, k)
                       /\ i < n => ~More(ext, i)
            taken == CHOOSE i \in 0..n : Ends(i)
<1>1. n \in Nat /\ m \in 0..n
  BY ListFacts, ShownIsCounted
<1>2. \A k \in 0..n : More(ext, k) <=> k < m
  BY MoreWhileShown
<1>. HIDE DEF n, m
<1>3. Ends(m)
  <2>1. \A k \in 0..(m - 1) : k \in 0..n /\ k < m
    BY <1>1
  <2>. QED
    BY <1>1, <1>2, <2>1
<1>4. ASSUME NEW i \in 0..n, Ends(i) PROVE i = m
  <2>1. CASE i < m
    BY <1>1, <1>2, <1>4, <2>1
  <2>2. CASE m < i
    <3>1. m \in 0..(i - 1)
      BY <1>1, <2>2
    <3>. QED
      BY <1>1, <1>2, <1>4, <3>1
  <2>. QED
    BY <1>1, <2>1, <2>2
<1>5. taken = m
  <2>. HIDE DEF Ends
  <2>. QED
    BY <1>1, <1>3, <1>4
<1>6. Taken(ext) = [k \in 1..m |-> ext.items[k].v]
  <2>1. Taken(ext) = [k \in 1..taken |-> ext.items[k].v]
    BY DEF Taken, n
  <2>. HIDE DEF taken
  <2>. QED
    BY <1>5, <2>1
<1>7. ~Overruns(ext)
  <2>1. ext.data \in Nat /\ ext.data >= Ahead(ext.type)
    <3>1. Size(ext.items) \in Nat
      BY <1>1, SizesAreSums DEF Size, n
    <3>2. Ahead(ext.type) \in Nat
      BY DEF Ahead
    <3>. QED
      BY <3>1, <3>2 DEF IsList
  <2>2. ~(ext.data < Ahead(ext.type))
    <3>1. Ahead(ext.type) \in Nat
      BY DEF Ahead
    <3>. QED
      BY <2>1, <3>1
  <2>3. ~\A k \in 0..Len(ext.items) : More(ext, k)
    BY <1>1, <1>2 DEF n
  <2>. QED
    BY <2>2, <2>3 DEF Overruns
<1>. QED
  BY <1>6, <1>7, ShownIsCounted DEF m

-----------------------------------------------------------------------------
(* Hellos and their lists                                                  *)

\* A hello whose items have values of V, which has what stands for GREASE.
HelloOf(hello, V) ==
  /\ {0, GreaseCurve, GreaseVersion} \subseteq V
  /\ hello.extensions \in Seq(ToSet(hello.extensions))
  /\ \A i \in 1..Len(hello.extensions) : IsList(hello.extensions[i], V)

LEMMA WiderSequence ==
  ASSUME NEW S, NEW T, S \subseteq T, NEW s \in Seq(S)
  PROVE  s \in Seq(T)
<1>1. s = [i \in 1..Len(s) |-> s[i]] /\ Len(s) \in Nat
  BY LenProperties
<1>2. \A i \in 1..Len(s) : s[i] \in T
  BY ElementOfSeq
<1>3. [i \in 1..Len(s) |-> s[i]] \in Seq(T)
  BY <1>1, <1>2, IsASeq
<1>. QED
  BY <1>1, <1>3

LEMMA HelloHasValues ==
  ASSUME NEW hello, IsHello(hello), AllWellFormed(hello)
  PROVE  \E V : HelloOf(hello, V)
<1>. DEFINE exts == hello.extensions
            Vs(ext) == {item.v : item \in ToSet(ext.items)}
            V == {0, GreaseCurve, GreaseVersion} \cup UNION {Vs(ext) : ext \in ToSet(exts)}
<1>1. exts \in Seq(ToSet(exts))
  BY DEF IsHello
<1>2. ASSUME NEW i \in 1..Len(exts) PROVE IsList(exts[i], V)
  <2>1. exts[i] \in ToSet(exts)
    BY <1>1 DEF ToSet
  <2>2. exts[i].items \in Seq([v : Vs(exts[i]), size : Width(exts[i].type)])
    BY <2>1 DEF AllWellFormed, WellFormed
  <2>3. Vs(exts[i]) \subseteq V
    BY <2>1
  <2>. HIDE DEF V, Vs
  <2>. DEFINE R == [v : Vs(exts[i]), size : Width(exts[i].type)]
              T == [v : V, size : Width(exts[i].type)]
  <2>4. R \subseteq T /\ exts[i].items \in Seq(R)
    BY <2>2, <2>3
  <2>. HIDE DEF R, T
  <2>5. exts[i].items \in Seq(T)
    BY <2>4, WiderSequence
  <2>6. WellFormed(exts[i])
    BY <2>1 DEF AllWellFormed
  <2>. QED
    BY <2>5, <2>6 DEF IsList, WellFormed, T
<1>3. {0, GreaseCurve, GreaseVersion} \subseteq V
  OBVIOUS
<1>. HIDE DEF V
<1>4. HelloOf(hello, V)
  BY <1>1, <1>2, <1>3 DEF HelloOf
<1>. QED
  BY <1>4

LEMMA HelloFacts ==
  ASSUME NEW hello, NEW V, HelloOf(hello, V)
  PROVE  /\ Len(hello.extensions) \in Nat
         /\ DOMAIN hello.extensions = 1..Len(hello.extensions)
         /\ Types(hello) = [i \in 1..Len(hello.extensions) |-> hello.extensions[i].type]
         /\ \A i \in 1..Len(hello.extensions) :
              /\ Types(hello)[i] = hello.extensions[i].type
              /\ IsList(hello.extensions[i], V)
         /\ hello.extensions = <<>> <=> Len(hello.extensions) = 0
  BY LenProperties, EmptySeq DEF HelloOf, Types

\* The values of a list are a sequence of them, and are all shown but for four
\* types of extensions.
LEMMA ValuesAreSequences ==
  ASSUME NEW V, NEW ext, IsList(ext, V)
  PROVE  /\ Values(ext) \in Seq(V) /\ Shown(ext) \in Seq(V)
         /\ ext.type \notin {0, 45, 17513, 17613} => Shown(ext) = Values(ext)
<1>1. /\ Len(ext.items) \in Nat /\ DOMAIN ext.items = 1..Len(ext.items)
      /\ \A k \in 1..Len(ext.items) : ext.items[k].v \in V
  BY ListFacts
<1>2. PICK m \in 0..Len(ext.items) :
        m = ShownItems(ext) /\ Shown(ext) = [k \in 1..m |-> ext.items[k].v]
  BY ShownIsCounted
<1>3. Values(ext) = [k \in 1..Len(ext.items) |-> ext.items[k].v]
  BY <1>1 DEF Values
<1>4. Values(ext) \in Seq(V)
  BY <1>1, <1>3
<1>5. Shown(ext) \in Seq(V)
  <2>1. m \in Nat /\ \A k \in 1..m : k \in 1..Len(ext.items)
    BY <1>1
  <2>2. \A k \in 1..m : ext.items[k].v \in V
    BY <1>1, <2>1
  <2>. QED
    BY <1>2, <2>1, <2>2
<1>6. ASSUME ext.type \notin {0, 45, 17513, 17613} PROVE Shown(ext) = Values(ext)
  <2>1. m = Len(ext.items)
    BY <1>1, <1>2, <1>6 DEF ShownItems
  <2>. QED
    BY <1>2, <1>3, <2>1
<1>. QED
  BY <1>4, <1>5, <1>6

LEMMA ReplacedIsSequence ==
  ASSUME NEW V, NEW s \in Seq(V), NEW by \in V
  PROVE  Replaced(s, by) \in Seq(V) /\ Len(Replaced(s, by)) = Len(s)
  BY LenProperties DEF Replaced

LEMMA ReplacedOfConcat ==
  ASSUME NEW V, NEW s \in Seq(V), NEW t \in Seq(V), NEW by \in V
  PROVE  Replaced(s \o t, by) = Replaced(s, by) \o Replaced(t, by)
<1>1. /\ s \o t \in Seq(V) /\ Len(s \o t) = Len(s) + Len(t)
      /\ \A i \in 1..Len(s) + Len(t) :
           (s \o t)[i] = IF i <= Len(s) THEN s[i] ELSE t[i - Len(s)]
  BY ConcatProperties
<1>. DEFINE a == Replaced(s, by)
            b == Replaced(t, by)
            c == Replaced(s \o t, by)
<1>2. /\ a \in Seq(V) /\ Len(a) = Len(s) /\ b \in Seq(V) /\ Len(b) = Len(t)
      /\ c \in Seq(V) /\ Len(c) = Len(s) + Len(t)
  BY <1>1, ReplacedIsSequence
<1>3. /\ a \o b \in Seq(V) /\ Len(a \o b) = Len(a) + Len(b)
      /\ \A i \in 1..Len(a) + Len(b) :
           (a \o b)[i] = IF i <= Len(a) THEN a[i] ELSE b[i - Len(a)]
  <2>1. a \in Seq(V) /\ b \in Seq(V)
    BY <1>2
  <2>. HIDE DEF a, b, c
  <2>. QED
    BY <2>1, ConcatProperties
<1>4. Len(s) \in Nat /\ Len(t) \in Nat /\ DOMAIN s = 1..Len(s) /\ DOMAIN t = 1..Len(t)
      /\ DOMAIN (s \o t) = 1..Len(s) + Len(t)
  BY <1>1, LenProperties
<1>5. ASSUME NEW i \in 1..Len(s) + Len(t) PROVE c[i] = (a \o b)[i]
  <2>1. c[i] = IF IsGrease((s \o t)[i]) THEN by ELSE (s \o t)[i]
    BY <1>4 DEF Replaced
  <2>2. CASE i <= Len(s)
    <3>1. i \in 1..Len(s)
      BY <1>4, <2>2
    <3>2. a[i] = IF IsGrease(s[i]) THEN by ELSE s[i]
      BY <1>4, <3>1 DEF Replaced
    <3>3. (s \o t)[i] = s[i]
      BY <1>1, <2>2
    <3>4. (a \o b)[i] = a[i]
      <4>. HIDE DEF a, b, c
      <4>. QED
        BY <1>2, <1>3, <2>2
    <3>. QED
      BY <2>1, <3>2, <3>3, <3>4
  <2>3. CASE i > Len(s)
    <3>1. i - Len(s) \in 1..Len(t)
      BY <1>4, <2>3
    <3>2. b[i - Len(s)] = IF IsGrease(t[i - Len(s)]) THEN by ELSE t[i - Len(s)]
      BY <1>4, <3>1 DEF Replaced
    <3>3. (s \o t)[i] = t[i - Len(s)]
      BY <1>1, <1>4, <2>3
    <3>4. (a \o b)[i] = b[i - Len(s)]
      <4>. HIDE DEF a, b, c
      <4>. QED
        BY <1>2, <1>3, <1>4, <2>3
    <3>. QED
      BY <2>1, <3>2, <3>3, <3>4
  <2>4. i <= Len(s) \/ i > Len(s)
    BY <1>4
  <2>. QED
    BY <2>2, <2>3, <2>4
<1>. HIDE DEF a, b, c
<1>6. c = a \o b
  BY <1>2, <1>3, <1>4, <1>5, SeqEqual
<1>. QED
  BY <1>6 DEF a, b, c

-----------------------------------------------------------------------------
(* The parser's run over the extensions                                    *)

\* What is shown of the extensions.
ShownOf(hello) ==
  [i \in DOMAIN hello.extensions |->
     Extension(hello.extensions[i].type, Shown(hello.extensions[i]))]

\* The records that the parser goes through.
ParsedOf(hello, V) ==
  [Version : {hello.version}, CipherSuites : {hello.ciphers},
   AllExtensions : {Types(hello)}, Extensions : Seq(ToSet(ShownOf(hello))),
   SupportedCurves : Seq(V), SupportedPoints : Seq(V), SignatureAlgorithms : Seq(V),
   SupportedProtocols : Seq(V), SupportedTLSVersions : Seq(V),
   PSKKeyExchangeMode : V, CertCompressionAlgorithms : Seq(V)]

Added(type, types, list, values) == IF type \in types THEN list \o values ELSE list

\* What one extension adds to each field.
OneMore(chp, after, ext) ==
  LET values == Values(ext) IN
    /\ after.Extensions = Append(chp.Extensions, Extension(ext.type, Shown(ext)))
    /\ after.SupportedCurves =
         Added(ext.type, {10}, chp.SupportedCurves, Replaced(values, GreaseCurve))
    /\ after.SupportedPoints = Added(ext.type, {11}, chp.SupportedPoints, values)
    /\ after.SignatureAlgorithms = Added(ext.type, {13, 53}, chp.SignatureAlgorithms, values)
    /\ after.SupportedProtocols = Added(ext.type, {16}, chp.SupportedProtocols, values)
    /\ after.CertCompressionAlgorithms =
         Added(ext.type, {27}, chp.CertCompressionAlgorithms, values)
    /\ after.SupportedTLSVersions =
         Added(ext.type, {43}, chp.SupportedTLSVersions, Replaced(values, GreaseVersion))
    /\ after.PSKKeyExchangeMode = IF ext.type = 45 /\ Len(ext.items) # 0
                                  THEN ext.items[1].v ELSE chp.PSKKeyExchangeMode

LEMMA ExtensionIsAdded ==
  ASSUME NEW hello, NEW V, HelloOf(hello, V), NEW chp \in ParsedOf(hello, V),
         NEW ext, IsList(ext, V), Extension(ext.type, Shown(ext)) \in ToSet(ShownOf(hello))
  PROVE  /\ parseRawExtension(chp, ext) \in ParsedOf(hello, V)
         /\ OneMore(chp, parseRawExtension(chp, ext), ext)
<1>. DEFINE after == parseRawExtension(chp, ext)
            shownOnes == Shown(ext)
            values == Values(ext)
            shown == [chp EXCEPT !.Extensions = Append(@, Extension(ext.type, shownOnes))]
            E == ToSet(ShownOf(hello))
<1>2. /\ Taken(ext) = shownOnes /\ values \in Seq(V) /\ shownOnes \in Seq(V)
      /\ ext.type \notin {0, 45, 17513, 17613} => shownOnes = values
  BY TakenIsShown, ValuesAreSequences
<1>4. {0, GreaseCurve, GreaseVersion} \subseteq V
  BY DEF HelloOf
<1>5. /\ Replaced(values, GreaseCurve) \in Seq(V)
      /\ Replaced(values, GreaseVersion) \in Seq(V)
  BY <1>2, <1>4, ReplacedIsSequence
<1>6. ext.type = 45 => (shownOnes # <<>> <=> Len(ext.items) # 0)
                       /\ (Len(ext.items) # 0 => shownOnes[1] = ext.items[1].v)
  <2>1. PICK m \in 0..Len(ext.items) : m = ShownItems(ext) /\ shownOnes = [k \in 1..m |-> ext.items[k].v]
    BY ShownIsCounted
  <2>2. ext.type = 45 => m = IF Len(ext.items) = 0 THEN 0 ELSE 1
    BY <2>1 DEF ShownItems
  <2>. QED
    BY <2>1, <2>2
<1>7. Len(ext.items) # 0 => ext.items[1].v \in V
  BY ListFacts
<1>8. Extension(ext.type, shownOnes) \in E
  OBVIOUS
<1>9. after =
        CASE ext.type = 10 ->
               [shown EXCEPT !.SupportedCurves = @ \o Replaced(shownOnes, GreaseCurve)]
          [] ext.type = 11 -> [shown EXCEPT !.SupportedPoints = @ \o shownOnes]
          [] ext.type \in {13, 53} -> [shown EXCEPT !.SignatureAlgorithms = @ \o shownOnes]
          [] ext.type = 16 -> [shown EXCEPT !.SupportedProtocols = @ \o shownOnes]
          [] ext.type = 27 -> [shown EXCEPT !.CertCompressionAlgorithms = @ \o shownOnes]
          [] ext.type = 43 ->
               [shown EXCEPT !.SupportedTLSVersions = @ \o Replaced(shownOnes, GreaseVersion)]
          [] ext.type = 45 /\ shownOnes # <<>> -> [shown EXCEPT !.PSKKeyExchangeMode = shownOnes[1]]
          [] OTHER -> shown
  BY <1>2 DEF parseRawExtension
<1>. HIDE DEF shownOnes, values, E, after
<1>10. /\ chp.Extensions \in Seq(E) /\ chp.PSKKeyExchangeMode \in V
       /\ chp.SupportedCurves \in Seq(V) /\ chp.SupportedPoints \in Seq(V)
       /\ chp.SignatureAlgorithms \in Seq(V) /\ chp.SupportedProtocols \in Seq(V)
       /\ chp.CertCompressionAlgorithms \in Seq(V) /\ chp.SupportedTLSVersions \in Seq(V)
  BY DEF ParsedOf, E
<1>11. /\ shown \in ParsedOf(hello, V)
       /\ shown.Extensions = Append(chp.Extensions, Extension(ext.type, shownOnes))
       /\ shown.SupportedCurves = chp.SupportedCurves
       /\ shown.SupportedPoints = chp.SupportedPoints
       /\ shown.SignatureAlgorithms = chp.SignatureAlgorithms
       /\ shown.SupportedProtocols = chp.SupportedProtocols
       /\ shown.CertCompressionAlgorithms = chp.CertCompressionAlgorithms
       /\ shown.SupportedTLSVersions = chp.SupportedTLSVersions
       /\ shown.PSKKeyExchangeMode = chp.PSKKeyExchangeMode
  <2>1. Append(chp.Extensions, Extension(ext.type, shownOnes)) \in Seq(E)
    BY <1>8, <1>10, AppendProperties
  <2>. QED
    BY <2>1 DEF ParsedOf, E
<1>12. \A s \in Seq(V) :
         /\ chp.SupportedCurves \o s \in Seq(V) /\ chp.SupportedPoints \o s \in Seq(V)
         /\ chp.SignatureAlgorithms \o s \in Seq(V) /\ chp.SupportedProtocols \o s \in Seq(V)
         /\ chp.CertCompressionAlgorithms \o s \in Seq(V)
         /\ chp.SupportedTLSVersions \o s \in Seq(V)
  BY <1>10, ConcatProperties
<1>. HIDE DEF shown
<1>13. CASE ext.type = 10
  <2>1. shownOnes = values
    BY <1>2, <1>13
  <2>2. after = [shown EXCEPT
               !.SupportedCurves = shown.SupportedCurves \o Replaced(values, GreaseCurve)]
    BY <1>9, <1>13, <2>1
  <2>3. PICK list : list = chp.SupportedCurves \o Replaced(values, GreaseCurve)
    OBVIOUS
  <2>4. list \in Seq(V)
    BY <1>5, <1>12, <2>3
  <2>5. after = [shown EXCEPT !.SupportedCurves = list]
    BY <1>11, <2>2, <2>3
  <2>6. after \in ParsedOf(hello, V)
    BY <1>11, <2>4, <2>5 DEF ParsedOf
  <2>7. /\ after.SupportedCurves = list
        /\ after.Extensions = shown.Extensions
        /\ after.SupportedPoints = shown.SupportedPoints
        /\ after.SignatureAlgorithms = shown.SignatureAlgorithms
        /\ after.SupportedProtocols = shown.SupportedProtocols
        /\ after.CertCompressionAlgorithms = shown.CertCompressionAlgorithms
        /\ after.SupportedTLSVersions = shown.SupportedTLSVersions
        /\ after.PSKKeyExchangeMode = shown.PSKKeyExchangeMode
    BY <1>11, <2>5 DEF ParsedOf
  <2>8. OneMore(chp, after, ext)
    BY <1>11, <1>13, <2>3, <2>7 DEF OneMore, Added, values, shownOnes
  <2>. QED
    BY <2>6, <2>8 DEF after
<1>14. CASE ext.type = 11
  <2>1. shownOnes = values
    BY <1>2, <1>14
  <2>2. after = [shown EXCEPT !.SupportedPoints = shown.SupportedPoints \o values]
    BY <1>9, <1>14, <2>1
  <2>3. PICK list : list = chp.SupportedPoints \o values
    OBVIOUS
  <2>4. list \in Seq(V)
    BY <1>2, <1>12, <2>3
  <2>5. after = [shown EXCEPT !.SupportedPoints = list]
    BY <1>11, <2>2, <2>3
  <2>6. after \in ParsedOf(hello, V)
    BY <1>11, <2>4, <2>5 DEF ParsedOf
  <2>7. /\ after.SupportedPoints = list
        /\ after.Extensions = shown.Extensions
        /\ after.SupportedCurves = shown.SupportedCurves
        /\ after.SignatureAlgorithms = shown.SignatureAlgorithms
        /\ after.SupportedProtocols = shown.SupportedProtocols
        /\ after.CertCompressionAlgorithms = shown.CertCompressionAlgorithms
        /\ after.SupportedTLSVersions = shown.SupportedTLSVersions
        /\ after.PSKKeyExchangeMode = shown.PSKKeyExchangeMode
    BY <1>11, <2>5 DEF ParsedOf
  <2>8. OneMore(chp, after, ext)
    BY <1>11, <1>14, <2>3, <2>7 DEF OneMore, Added, values, shownOnes
  <2>. QED
    BY <2>6, <2>8 DEF after
<1>15. CASE ext.type \in {13, 53}
  <2>1. shownOnes = values
    BY <1>2, <1>15
  <2>2. after = [shown EXCEPT !.SignatureAlgorithms = shown.SignatureAlgorithms \o values]
    BY <1>9, <1>15, <2>1
  <2>3. PICK list : list = chp.SignatureAlgorithms \o values
    OBVIOUS
  <2>4. list \in Seq(V)
    BY <1>2, <1>12, <2>3
  <2>5. after = [shown EXCEPT !.SignatureAlgorithms = list]
    BY <1>11, <2>2, <2>3
  <2>6. after \in ParsedOf(hello, V)
    BY <1>11, <2>4, <2>5 DEF ParsedOf
  <2>7. /\ after.SignatureAlgorithms = list
        /\ after.Extensions = shown.Extensions
        /\ after.SupportedCurves = shown.SupportedCurves
        /\ after.SupportedPoints = shown.SupportedPoints
        /\ after.SupportedProtocols = shown.SupportedProtocols
        /\ after.CertCompressionAlgorithms = shown.CertCompressionAlgorithms
        /\ after.SupportedTLSVersions = shown.SupportedTLSVersions
        /\ after.PSKKeyExchangeMode = shown.PSKKeyExchangeMode
    BY <1>11, <2>5 DEF ParsedOf
  <2>8. OneMore(chp, after, ext)
    BY <1>11, <1>15, <2>3, <2>7 DEF OneMore, Added, values, shownOnes
  <2>. QED
    BY <2>6, <2>8 DEF after
<1>16. CASE ext.type = 16
  <2>1. shownOnes = values
    BY <1>2, <1>16
  <2>2. after = [shown EXCEPT !.SupportedProtocols = shown.SupportedProtocols \o values]
    BY <1>9, <1>16, <2>1
  <2>3. PICK list : list = chp.SupportedProtocols \o values
    OBVIOUS
  <2>4. list \in Seq(V)
    BY <1>2, <1>12, <2>3
  <2>5. after = [shown EXCEPT !.SupportedProtocols = list]
    BY <1>11, <2>2, <2>3
  <2>6. after \in ParsedOf(hello, V)
    BY <1>11, <2>4, <2>5 DEF ParsedOf
  <2>7. /\ after.SupportedProtocols = list
        /\ after.Extensions = shown.Extensions
        /\ after.SupportedCurves = shown.SupportedCurves
        /\ after.SupportedPoints = shown.SupportedPoints
        /\ after.SignatureAlgorithms = shown.SignatureAlgorithms
        /\ after.CertCompressionAlgorithms = shown.CertCompressionAlgorithms
        /\ after.SupportedTLSVersions = shown.SupportedTLSVersions
        /\ after.PSKKeyExchangeMode = shown.PSKKeyExchangeMode
    BY <1>11, <2>5 DEF ParsedOf
  <2>8. OneMore(chp, after, ext)
    BY <1>11, <1>16, <2>3, <2>7 DEF OneMore, Added, values, shownOnes
  <2>. QED
    BY <2>6, <2>8 DEF after
<1>17. CASE ext.type = 27
  <2>1. shownOnes = values
    BY <1>2, <1>17
  <2>2. after = [shown EXCEPT
               !.CertCompressionAlgorithms = shown.CertCompressionAlgorithms \o values]
    BY <1>9, <1>17, <2>1
  <2>3. PICK list : list = chp.CertCompressionAlgorithms \o values
    OBVIOUS
  <2>4. list \in Seq(V)
    BY <1>2, <1>12, <2>3
  <2>5. after = [shown EXCEPT !.CertCompressionAlgorithms = list]
    BY <1>11, <2>2, <2>3
  <2>6. after \in ParsedOf(hello, V)
    BY <1>11, <2>4, <2>5 DEF ParsedOf
  <2>7. /\ after.CertCompressionAlgorithms = list
        /\ after.Extensions = shown.Extensions
        /\ after.SupportedCurves = shown.SupportedCurves
        /\ after.SupportedPoints = shown.SupportedPoints
        /\ after.SignatureAlgorithms = shown.SignatureAlgorithms
        /\ after.SupportedProtocols = shown.SupportedProtocols
        /\ after.SupportedTLSVersions = shown.SupportedTLSVersions
        /\ after.PSKKeyExchangeMode = shown.PSKKeyExchangeMode
    BY <1>11, <2>5 DEF ParsedOf
  <2>8. OneMore(chp, after, ext)
    BY <1>11, <1>17, <2>3, <2>7 DEF OneMore, Added, values, shownOnes
  <2>. QED
    BY <2>6, <2>8 DEF after
<1>18. CASE ext.type = 43
  <2>1. shownOnes = values
    BY <1>2, <1>18
  <2>2. after = [shown EXCEPT
               !.SupportedTLSVersions =
                 shown.SupportedTLSVersions \o Replaced(values, GreaseVersion)]
    BY <1>9, <1>18, <2>1
  <2>3. PICK list : list = chp.SupportedTLSVersions \o Replaced(values, GreaseVersion)
    OBVIOUS
  <2>4. list \in Seq(V)
    BY <1>5, <1>12, <2>3
  <2>5. after = [shown EXCEPT !.SupportedTLSVersions = list]
    BY <1>11, <2>2, <2>3
  <2>6. after \in ParsedOf(hello, V)
    BY <1>11, <2>4, <2>5 DEF ParsedOf
  <2>7. /\ after.SupportedTLSVersions = list
        /\ after.Extensions = shown.Extensions
        /\ after.SupportedCurves = shown.SupportedCurves
        /\ after.SupportedPoints = shown.SupportedPoints
        /\ after.SignatureAlgorithms = shown.SignatureAlgorithms
        /\ after.SupportedProtocols = shown.SupportedProtocols
        /\ after.CertCompressionAlgorithms = shown.CertCompressionAlgorithms
        /\ after.PSKKeyExchangeMode = shown.PSKKeyExchangeMode
    BY <1>11, <2>5 DEF ParsedOf
  <2>8. OneMore(chp, after, ext)
    BY <1>11, <1>18, <2>3, <2>7 DEF OneMore, Added, values, shownOnes
  <2>. QED
    BY <2>6, <2>8 DEF after
<1>19. CASE ext.type = 45 /\ shownOnes # <<>>
  <2>1. after = [shown EXCEPT !.PSKKeyExchangeMode = ext.items[1].v]
    BY <1>6, <1>9, <1>19
  <2>2. after \in ParsedOf(hello, V)
    BY <1>6, <1>7, <1>11, <1>19, <2>1 DEF ParsedOf
  <2>3. OneMore(chp, after, ext)
    BY <1>6, <1>11, <1>19, <2>1 DEF ParsedOf, OneMore, Added, values, shownOnes
  <2>. QED
    BY <2>2, <2>3 DEF after
<1>20. CASE ext.type \notin {10, 11, 13, 53, 16, 27, 43} /\ ~(ext.type = 45 /\ shownOnes # <<>>)
  <2>1. after = shown
    BY <1>9, <1>20
  <2>2. OneMore(chp, after, ext)
    BY <1>6, <1>11, <1>20, <2>1 DEF OneMore, Added, shownOnes
  <2>. QED
    BY <1>11, <2>1, <2>2 DEF after
<1>. QED
  BY <1>13, <1>14, <1>15, <1>16, <1>17, <1>18, <1>19, <1>20

\* What the parser starts from, and what it goes through to the end.
Begun(hello) ==
  [Blank EXCEPT !.Version = hello.version, !.CipherSuites = hello.ciphers,
                !.AllExtensions = Types(hello)]

IsRun(r, hello) ==
  /\ r[0] = Begun(hello)
  /\ \A i \in 1..Len(hello.extensions) : OneMore(r[i - 1], r[i], hello.extensions[i])

LEMMA ParsedRun ==
  ASSUME NEW hello, NEW V, HelloOf(hello, V), Supported(hello)
  PROVE  \E r \in [0..Len(hello.extensions) -> ParsedOf(hello, V)] :
           IsRun(r, hello) /\ ParseClientHello(hello) = r[Len(hello.extensions)]
<1>. DEFINE exts == hello.extensions
            n == Len(exts)
            P == ParsedOf(hello, V)
            first == Begun(hello)
            Next1(r) == [k \in 0..n |-> IF k = 0 THEN first
                                        ELSE parseRawExtension(r[k - 1], exts[k])]
            run == CHOOSE r : r = Next1(r)
            step == [i \in 1..n |-> [x \in P |-> parseRawExtension(x, exts[i])]]
<1>1. /\ n \in Nat /\ DOMAIN exts = 1..n
      /\ \A i \in 1..n : IsList(exts[i], V)
  BY HelloFacts
<1>2. \A i \in 1..n : Extension(exts[i].type, Shown(exts[i])) \in ToSet(ShownOf(hello))
  BY <1>1 DEF ToSet, ShownOf
<1>3. ASSUME NEW i \in 1..n, NEW x \in P
      PROVE  /\ parseRawExtension(x, exts[i]) \in P
             /\ OneMore(x, parseRawExtension(x, exts[i]), exts[i])
  <2>1. IsList(exts[i], V) /\ Extension(exts[i].type, Shown(exts[i])) \in ToSet(ShownOf(hello))
    BY <1>1, <1>2
  <2>2. PICK ext : ext = exts[i]
    OBVIOUS
  <2>. QED
    BY <2>1, <2>2, ExtensionIsAdded
<1>4. first \in P
  <2>1. \A S : <<>> \in Seq(S)
    BY EmptySeq
  <2>2. 0 \in V
    BY DEF HelloOf
  <2>. QED
    BY <2>1, <2>2 DEF Begun, Blank, ParsedOf
<1>5. ParseClientHello(hello) = run[n]
  BY DEF ParseClientHello, Begun
<1>. HIDE DEF P, first, n, exts
<1>6. step \in [1..n -> [P -> P]]
  BY <1>3
<1>7. PICK r \in [0..n -> P] : IsRecursion(r, first, n, step)
  <2>. HIDE DEF step
  <2>. QED
    BY <1>1, <1>4, <1>6, RecursionExists
<1>8. r = Next1(r)
  <2>1. ASSUME NEW k \in 0..n
        PROVE  r[k] = IF k = 0 THEN first ELSE parseRawExtension(r[k - 1], exts[k])
    <3>1. CASE k = 0
      BY <1>7, <3>1 DEF IsRecursion
    <3>2. CASE k # 0
      <4>1. k \in 1..n /\ k - 1 \in 0..n
        BY <1>1, <3>2
      <4>2. r[k] = step[k][r[k - 1]] /\ r[k - 1] \in P
        BY <1>7, <4>1 DEF IsRecursion
      <4>. QED
        BY <3>2, <4>1, <4>2
    <3>. QED
      BY <3>1, <3>2
  <2>. QED
    BY <2>1
<1>9. run = Next1(run)
  BY <1>8
<1>. HIDE DEF run, step
<1>10. ASSUME NEW k \in 0..n
       PROVE  run[k] = IF k = 0 THEN first ELSE parseRawExtension(run[k - 1], exts[k])
  BY <1>9
<1>. HIDE DEF Next1
<1>. DEFINE S == {k \in 0..n : run[k] \in P}
<1>11. 0 \in S
  BY <1>1, <1>4, <1>10
<1>12. ASSUME NEW i \in 1..n, i - 1 \in S PROVE i \in S
  <2>1. i \in 0..n /\ i # 0
    BY <1>1
  <2>. QED
    BY <1>3, <1>10, <1>12, <2>1
<1>13. 0..n \subseteq S
  <2>. HIDE DEF S
  <2>. QED
    BY <1>1, <1>11, <1>12, IntervalInduction
<1>14. run \in [0..n -> P]
  <2>1. run = [k \in 0..n |-> run[k]]
    BY <1>9 DEF Next1
  <2>. QED
    BY <1>13, <2>1
<1>15. IsRun(run, hello)
  <2>1. run[0] = first
    BY <1>1, <1>10
  <2>2. ASSUME NEW i \in 1..n PROVE OneMore(run[i - 1], run[i], exts[i])
    <3>1. i \in 0..n /\ i # 0 /\ i - 1 \in 0..n
      BY <1>1
    <3>. QED
      BY <1>3, <1>10, <1>14, <3>1
  <2>. QED
    BY <2>1, <2>2 DEF IsRun, first, n, exts
<1>. QED
  BY <1>5, <1>14, <1>15 DEF n, exts, P

-----------------------------------------------------------------------------
(* Lists put together piece by piece                                       *)

Joining(r, n, part) == [i \in 0..n |-> IF i = 0 THEN <<>> ELSE r[i - 1] \o part[i]]

LEMMA JoiningExists ==
  ASSUME NEW V, NEW n \in Nat, NEW part \in [1..n -> Seq(V)]
  PROVE  \E r : r = Joining(r, n, part)
<1>. DEFINE Q == Seq(V)
            step == [i \in 1..n |-> [x \in Q |-> x \o part[i]]]
<1>1. <<>> \in Q
  BY EmptySeq
<1>2. step \in [1..n -> [Q -> Q]]
  <2>1. ASSUME NEW i \in 1..n, NEW x \in Q PROVE x \o part[i] \in Q
    BY ConcatProperties
  <2>. QED
    BY <2>1
<1>. HIDE DEF Q
<1>3. PICK r \in [0..n -> Q] : IsRecursion(r, <<>>, n, step)
  <2>. HIDE DEF step
  <2>. QED
    BY <1>1, <1>2, RecursionExists
<1>4. ASSUME NEW k \in 0..n PROVE r[k] = IF k = 0 THEN <<>> ELSE r[k - 1] \o part[k]
  <2>1. CASE k = 0
    BY <1>3, <2>1 DEF IsRecursion
  <2>2. CASE k # 0
    <3>1. k \in 1..n /\ k - 1 \in 0..n
      BY <2>2
    <3>2. r[k] = step[k][r[k - 1]] /\ r[k - 1] \in Q
      BY <1>3, <3>1 DEF IsRecursion
    <3>. QED
      BY <2>2, <3>1, <3>2
  <2>. QED
    BY <2>1, <2>2
<1>5. r = Joining(r, n, part)
  BY <1>4 DEF Joining
<1>. QED
  BY <1>5

IsJoined(r, n, part, V) ==
  /\ r \in [0..n -> Seq(V)] /\ r[0] = <<>>
  /\ \A i \in 1..n : r[i] = r[i - 1] \o part[i]

LEMMA JoiningSteps ==
  ASSUME NEW V, NEW n \in Nat, NEW part \in [1..n -> Seq(V)], NEW r, r = Joining(r, n, part)
  PROVE  IsJoined(r, n, part, V)
<1>1. ASSUME NEW k \in 0..n PROVE r[k] = IF k = 0 THEN <<>> ELSE r[k - 1] \o part[k]
  BY DEF Joining
<1>2. r[0] = <<>> /\ \A i \in 1..n : r[i] = r[i - 1] \o part[i]
  <2>1. 0 \in 0..n
    OBVIOUS
  <2>2. ASSUME NEW i \in 1..n PROVE r[i] = r[i - 1] \o part[i]
    <3>1. i \in 0..n /\ i # 0
      OBVIOUS
    <3>. QED
      BY <1>1, <3>1
  <2>. QED
    BY <1>1, <2>1, <2>2
<1>. DEFINE S == {k \in 0..n : r[k] \in Seq(V)}
<1>3. 0 \in S
  <2>1. <<>> \in Seq(V)
    BY EmptySeq
  <2>2. r[0] \in Seq(V)
    BY <1>2, <2>1, Zenon
  <2>. QED
    BY <2>2
<1>4. ASSUME NEW i \in 1..n, i - 1 \in S PROVE i \in S
  <2>1. r[i] = r[i - 1] \o part[i] /\ r[i - 1] \in Seq(V) /\ part[i] \in Seq(V)
    BY <1>2, <1>4
  <2>2. r[i] \in Seq(V)
    BY <2>1, ConcatProperties
  <2>. QED
    BY <2>2
<1>5. 0..n \subseteq S
  <2>. HIDE DEF S
  <2>. QED
    BY <1>3, <1>4, IntervalInduction
<1>6. r = [k \in 0..n |-> r[k]]
  BY DEF Joining
<1>. QED
  BY <1>2, <1>5, <1>6 DEF IsJoined

\* The list of some types, extension by extension.
IsSent(s, hello, types) ==
  /\ s[0] = <<>>
  /\ \A i \in 1..Len(hello.extensions) : s[i] = s[i - 1] \o Part(hello.extensions[i], types)

LEMMA SentIsRun ==
  ASSUME NEW hello, NEW V, HelloOf(hello, V), NEW types
  PROVE  \E s \in [0..Len(hello.extensions) -> Seq(V)] :
           IsSent(s, hello, types) /\ Sent(hello, types) = s[Len(hello.extensions)]
<1>. DEFINE n == Len(hello.extensions)
            part == [i \in 1..n |-> Part(hello.extensions[i], types)]
            Sending(s) == [i \in 0..n |->
              IF i = 0 THEN <<>> ELSE s[i - 1] \o Part(hello.extensions[i], types)]
            run == CHOOSE s : s = Sending(s)
<1>1. Sent(hello, types) = run[n]
  BY DEF Sent
<1>2. n \in Nat /\ \A i \in 1..n : IsList(hello.extensions[i], V)
  BY HelloFacts
<1>3. part \in [1..n -> Seq(V)]
  <2>1. ASSUME NEW i \in 1..n PROVE Part(hello.extensions[i], types) \in Seq(V)
    BY <1>2, ValuesAreSequences, EmptySeq DEF Part
  <2>. QED
    BY <2>1
<1>. HIDE DEF n
<1>4. \A s : Sending(s) = Joining(s, n, part)
  BY DEF Joining
<1>5. run = Joining(run, n, part)
  <2>1. PICK s : s = Joining(s, n, part)
    <3>. HIDE DEF part
    <3>. QED
      BY <1>2, <1>3, JoiningExists
  <2>2. s = Sending(s)
    BY <1>4, <2>1
  <2>3. run = Sending(run)
    BY <2>2
  <2>. HIDE DEF run
  <2>. QED
    BY <1>4, <2>3
<1>. HIDE DEF run
<1>6. /\ run \in [0..n -> Seq(V)] /\ run[0] = <<>>
      /\ \A i \in 1..n : run[i] = run[i - 1] \o part[i]
  <2>1. n \in Nat /\ part \in [1..n -> Seq(V)]
    BY <1>2, <1>3
  <2>. HIDE DEF part
  <2>2. IsJoined(run, n, part, V)
    BY <1>5, <2>1, JoiningSteps
  <2>. QED
    BY <2>2 DEF IsJoined
<1>7. IsSent(run, hello, types)
  BY <1>6 DEF IsSent, n
<1>. QED
  BY <1>1, <1>6, <1>7 DEF n

IsKept(s, values, S) ==
  s[0] = <<>> /\ \A i \in 1..Len(values) : s[i] = s[i - 1] \o Unless(values[i], S)

LEMMA WithoutIsRun ==
  ASSUME NEW V, NEW values \in Seq(V), NEW S
  PROVE  \E s \in [0..Len(values) -> Seq(V)] :
           IsKept(s, values, S) /\ Without(values, S) = s[Len(values)]
<1>. DEFINE n == Len(values)
            part == [i \in 1..n |-> Unless(values[i], S)]
            Keeping(s) == [i \in 0..n |-> IF i = 0 THEN <<>> ELSE s[i - 1] \o Unless(values[i], S)]
            run == CHOOSE s : s = Keeping(s)
<1>1. Without(values, S) = run[n]
  BY DEF Without
<1>2. n \in Nat /\ \A i \in 1..n : values[i] \in V
  BY LenProperties
<1>3. part \in [1..n -> Seq(V)]
  <2>1. ASSUME NEW i \in 1..n PROVE Unless(values[i], S) \in Seq(V)
    <3>1. <<>> \in Seq(V) /\ <<values[i]>> \in Seq(V)
      BY <1>2
    <3>. QED
      BY <3>1 DEF Unless
  <2>. QED
    BY <2>1
<1>. HIDE DEF n
<1>4. \A s : Keeping(s) = Joining(s, n, part)
  BY DEF Joining
<1>5. run = Joining(run, n, part)
  <2>1. PICK s : s = Joining(s, n, part)
    <3>. HIDE DEF part
    <3>. QED
      BY <1>2, <1>3, JoiningExists
  <2>2. s = Keeping(s)
    BY <1>4, <2>1
  <2>3. run = Keeping(run)
    BY <2>2
  <2>. HIDE DEF run
  <2>. QED
    BY <1>4, <2>3
<1>. HIDE DEF run
<1>6. /\ run \in [0..n -> Seq(V)] /\ run[0] = <<>>
      /\ \A i \in 1..n : run[i] = run[i - 1] \o part[i]
  <2>1. n \in Nat /\ part \in [1..n -> Seq(V)]
    BY <1>2, <1>3
  <2>. HIDE DEF part
  <2>2. IsJoined(run, n, part, V)
    BY <1>5, <2>1, JoiningSteps
  <2>. QED
    BY <2>2 DEF IsJoined
<1>7. IsKept(run, values, S)
  BY <1>6 DEF IsKept, n
<1>. QED
  BY <1>1, <1>6, <1>7 DEF n

-----------------------------------------------------------------------------
(* What the parser has read at the end                                     *)

LEMMA EmptyReplaced == \A by : Replaced(<<>>, by) = <<>>
<1>1. DOMAIN <<>> = {}
  OBVIOUS
<1>2. ASSUME NEW by PROVE Replaced(<<>>, by) = <<>>
  BY <1>1 DEF Replaced
<1>. QED
  BY <1>2

\* A list that grows by the values of some types, each GREASE value replaced
\* by another, is what the hello has of them.
LEMMA ListFollows ==
  ASSUME NEW hello, NEW V, HelloOf(hello, V), NEW types, NEW x, x[0] = <<>>,
         \A i \in 1..Len(hello.extensions) :
           x[i] = Added(hello.extensions[i].type, types, x[i - 1], Values(hello.extensions[i]))
  PROVE  x[Len(hello.extensions)] = Sent(hello, types)
<1>. DEFINE n == Len(hello.extensions)
<1>1. n \in Nat /\ \A i \in 1..n : IsList(hello.extensions[i], V)
  BY HelloFacts
<1>2. PICK s \in [0..n -> Seq(V)] : IsSent(s, hello, types) /\ Sent(hello, types) = s[n]
  BY SentIsRun
<1>. DEFINE S == {i \in 0..n : x[i] = s[i]}
<1>3. 0 \in S
  BY <1>1, <1>2 DEF IsSent
<1>4. ASSUME NEW i \in 1..n, i - 1 \in S PROVE i \in S
  <2>1. PICK list, ext : list = s[i - 1] /\ ext = hello.extensions[i]
    OBVIOUS
  <2>2. list \in Seq(V) /\ i \in 0..n
    BY <1>1, <2>1
  <2>3. list \o Part(ext, types) = Added(ext.type, types, list, Values(ext))
    BY <2>2, ConcatEmptySeq DEF Part, Added
  <2>4. s[i] = list \o Part(ext, types)
    BY <1>2, <2>1 DEF IsSent
  <2>5. x[i] = Added(ext.type, types, list, Values(ext))
    BY <1>4, <2>1
  <2>. QED
    BY <2>2, <2>3, <2>4, <2>5
<1>5. 0..n \subseteq S
  <2>. HIDE DEF S, n
  <2>. QED
    BY <1>1, <1>3, <1>4, IntervalInduction
<1>. QED
  BY <1>1, <1>2, <1>5

LEMMA ReplacedFollows ==
  ASSUME NEW hello, NEW V, HelloOf(hello, V), NEW types, NEW by \in V, NEW x, x[0] = <<>>,
         \A i \in 1..Len(hello.extensions) :
           x[i] = Added(hello.extensions[i].type, types, x[i - 1],
                        Replaced(Values(hello.extensions[i]), by))
  PROVE  x[Len(hello.extensions)] = Replaced(Sent(hello, types), by)
<1>. DEFINE n == Len(hello.extensions)
<1>1. n \in Nat /\ \A i \in 1..n : IsList(hello.extensions[i], V)
  BY HelloFacts
<1>2. PICK s \in [0..n -> Seq(V)] : IsSent(s, hello, types) /\ Sent(hello, types) = s[n]
  BY SentIsRun
<1>. DEFINE S == {i \in 0..n : x[i] = Replaced(s[i], by)}
<1>3. 0 \in S
  BY <1>1, <1>2, EmptyReplaced DEF IsSent
<1>4. ASSUME NEW i \in 1..n, i - 1 \in S PROVE i \in S
  <2>1. PICK list, ext : list = s[i - 1] /\ ext = hello.extensions[i]
    OBVIOUS
  <2>2. list \in Seq(V) /\ i \in 0..n
    BY <1>1, <2>1
  <2>3. Values(ext) \in Seq(V)
    BY <1>1, <2>1, ValuesAreSequences
  <2>4. Replaced(list \o Part(ext, types), by)
          = Added(ext.type, types, Replaced(list, by), Replaced(Values(ext), by))
    <3>1. CASE ext.type \in types
      <4>1. Replaced(list \o Values(ext), by) = Replaced(list, by) \o Replaced(Values(ext), by)
        BY <2>2, <2>3, ReplacedOfConcat
      <4>. QED
        BY <3>1, <4>1 DEF Part, Added
    <3>2. CASE ext.type \notin types
      BY <2>2, <3>2, ConcatEmptySeq DEF Part, Added
    <3>. QED
      BY <3>1, <3>2
  <2>5. s[i] = list \o Part(ext, types)
    BY <1>2, <2>1 DEF IsSent
  <2>6. x[i] = Added(ext.type, types, Replaced(list, by), Replaced(Values(ext), by))
    BY <1>4, <2>1
  <2>. QED
    BY <2>2, <2>4, <2>5, <2>6
<1>5. 0..n \subseteq S
  <2>. HIDE DEF S, n
  <2>. QED
    BY <1>1, <1>3, <1>4, IntervalInduction
<1>. QED
  BY <1>1, <1>2, <1>5

\* A list that grows by one at each step of a sequence is the sequence.
LEMMA AppendFollows ==
  ASSUME NEW V, NEW e \in Seq(V), NEW x, x[0] = <<>>,
         \A i \in 1..Len(e) : x[i] = Append(x[i - 1], e[i])
  PROVE  x[Len(e)] = e
<1>. DEFINE n == Len(e)
            S == {i \in 0..n : /\ x[i] \in Seq(V) /\ Len(x[i]) = i
                               /\ \A j \in 1..i : x[i][j] = e[j]}
<1>1. n \in Nat /\ \A i \in 1..n : e[i] \in V
  BY LenProperties
<1>2. 0 \in S
  <2>1. <<>> \in Seq(V) /\ Len(<<>>) = 0
    BY EmptySeq
  <2>2. x[0] \in Seq(V) /\ Len(x[0]) = 0
    BY <2>1, Zenon
  <2>3. 0 \in 0..n /\ \A j \in 1..0 : FALSE
    BY <1>1
  <2>. HIDE DEF n
  <2>. QED
    BY <2>2, <2>3
<1>3. ASSUME NEW i \in 1..n, i - 1 \in S PROVE i \in S
  <2>1. PICK s : s = x[i - 1]
    OBVIOUS
  <2>2. s \in Seq(V) /\ Len(s) = i - 1 /\ \A j \in 1..(i - 1) : s[j] = e[j]
    BY <1>3, <2>1
  <2>3. x[i] = Append(s, e[i]) /\ e[i] \in V
    BY <1>1, <2>1
  <2>4. /\ Append(s, e[i]) \in Seq(V) /\ Len(Append(s, e[i])) = i
        /\ \A j \in 1..(i - 1) : Append(s, e[i])[j] = s[j]
        /\ Append(s, e[i])[i] = e[i]
    <3>1. Len(s) + 1 = i /\ Len(s) = i - 1
      BY <1>1, <2>2
    <3>. QED
      BY <2>2, <2>3, <3>1, AppendProperties
  <2>5. ASSUME NEW j \in 1..i PROVE x[i][j] = e[j]
    <3>1. j \in 1..(i - 1) \/ j = i
      BY <1>1
    <3>. QED
      BY <2>2, <2>3, <2>4, <3>1
  <2>6. i \in 0..n
    BY <1>1
  <2>. QED
    BY <2>3, <2>4, <2>5, <2>6
<1>4. 0..n \subseteq S
  <2>. HIDE DEF S, n
  <2>. QED
    BY <1>1, <1>2, <1>3, IntervalInduction
<1>5. x[n] \in Seq(V) /\ Len(x[n]) = n /\ \A j \in 1..n : x[n][j] = e[j]
  <2>1. n \in S
    BY <1>1, <1>4
  <2>. QED
    BY <2>1
<1>. QED
  BY <1>5, SeqEqual

\* The mode is 0 without an extension that has one, else that of one of them.
IsMode(mode, hello) ==
  \/ /\ mode = 0
     /\ \A i \in 1..Len(hello.extensions) :
          hello.extensions[i].type = 45 => Len(hello.extensions[i].items) = 0
  \/ \E i \in 1..Len(hello.extensions) :
       /\ hello.extensions[i].type = 45 /\ Len(hello.extensions[i].items) # 0
       /\ mode = hello.extensions[i].items[1].v

LEMMA ModeFollows ==
  ASSUME NEW hello, Len(hello.extensions) \in Nat, NEW x, x[0] = 0,
         \A i \in 1..Len(hello.extensions) :
           x[i] = IF hello.extensions[i].type = 45 /\ Len(hello.extensions[i].items) # 0
                  THEN hello.extensions[i].items[1].v ELSE x[i - 1]
  PROVE  IsMode(x[Len(hello.extensions)], hello)
<1>. DEFINE n == Len(hello.extensions)
            Has(j) == hello.extensions[j].type = 45 /\ Len(hello.extensions[j].items) # 0
            S == {i \in 0..n :
                    \/ x[i] = 0 /\ \A j \in 1..i : ~Has(j)
                    \/ \E j \in 1..i : Has(j) /\ x[i] = hello.extensions[j].items[1].v}
<1>1. 0 \in S
  OBVIOUS
<1>2. ASSUME NEW i \in 1..n, i - 1 \in S PROVE i \in S
  <2>0. i \in 0..n /\ i \in 1..i /\ \A j \in 1..(i - 1) : j \in 1..i
    OBVIOUS
  <2>1. CASE Has(i)
    BY <2>0, <2>1
  <2>2. CASE ~Has(i)
    <3>1. x[i] = x[i - 1]
      BY <2>2
    <3>2. \A j \in 1..i : j = i \/ j \in 1..(i - 1)
      OBVIOUS
    <3>. HIDE DEF Has
    <3>3. CASE x[i - 1] = 0 /\ \A j \in 1..(i - 1) : ~Has(j)
      BY <2>0, <2>2, <3>1, <3>2, <3>3
    <3>4. CASE \E j \in 1..(i - 1) : Has(j) /\ x[i - 1] = hello.extensions[j].items[1].v
      BY <2>0, <3>1, <3>4
    <3>. QED
      BY <1>2, <3>3, <3>4
  <2>. QED
    BY <2>1, <2>2
<1>3. n \in Nat
  OBVIOUS
<1>4. 0..n \subseteq S
  <2>. HIDE DEF S, n
  <2>. QED
    BY <1>1, <1>2, <1>3, IntervalInduction
<1>5. n \in S
  BY <1>3, <1>4
<1>. QED
  BY <1>5 DEF IsMode

\* What the parser has read at the end.
IsParsed(ch, hello) ==
  /\ ch.Version = hello.version /\ ch.CipherSuites = hello.ciphers
  /\ ch.AllExtensions = Types(hello) /\ ch.Extensions = ShownOf(hello)
  /\ ch.SupportedCurves = Replaced(Sent(hello, {10}), GreaseCurve)
  /\ ch.SupportedPoints = Sent(hello, {11})
  /\ ch.SignatureAlgorithms = Sent(hello, {13, 53})
  /\ ch.SupportedProtocols = Sent(hello, {16})
  /\ ch.CertCompressionAlgorithms = Sent(hello, {27})
  /\ ch.SupportedTLSVersions = Replaced(Sent(hello, {43}), GreaseVersion)
  /\ IsMode(ch.PSKKeyExchangeMode, hello)

LEMMA ParsedFields ==
  ASSUME NEW hello, NEW V, HelloOf(hello, V), Supported(hello)
  PROVE  IsParsed(ParseClientHello(hello), hello)
<1>. DEFINE n == Len(hello.extensions)
            exts == hello.extensions
<1>1. PICK r \in [0..n -> ParsedOf(hello, V)] : IsRun(r, hello) /\ ParseClientHello(hello) = r[n]
  BY ParsedRun
<1>2. n \in Nat /\ DOMAIN exts = 1..n /\ {0, GreaseCurve, GreaseVersion} \subseteq V
  BY HelloFacts DEF HelloOf
<1>3. ASSUME NEW i \in 1..n PROVE OneMore(r[i - 1], r[i], exts[i])
  BY <1>1 DEF IsRun
<1>4. /\ r[0].SupportedCurves = <<>> /\ r[0].SupportedPoints = <<>>
      /\ r[0].SignatureAlgorithms = <<>> /\ r[0].SupportedProtocols = <<>>
      /\ r[0].CertCompressionAlgorithms = <<>> /\ r[0].SupportedTLSVersions = <<>>
      /\ r[0].Extensions = <<>> /\ r[0].PSKKeyExchangeMode = 0
  BY <1>1 DEF IsRun, Begun, Blank
<1>5. /\ r[n].Version = hello.version /\ r[n].CipherSuites = hello.ciphers
      /\ r[n].AllExtensions = Types(hello)
  BY <1>1, <1>2 DEF ParsedOf
<1>6. ASSUME NEW i \in 1..n PROVE i \in 0..n /\ i - 1 \in 0..n
  BY <1>2
<1>. HIDE DEF n, exts
<1>7. r[n].Extensions = ShownOf(hello)
  <2>. DEFINE x == [i \in 0..n |-> r[i].Extensions]
              e == ShownOf(hello)
              E == ToSet(e)
  <2>1. e \in Seq(E) /\ Len(e) = n /\ \A i \in 1..n : e[i] = Extension(exts[i].type, Shown(exts[i]))
    <3>1. e = [i \in 1..n |-> Extension(exts[i].type, Shown(exts[i]))]
      BY <1>2 DEF ShownOf, exts
    <3>2. \A i \in 1..n : e[i] \in E
      BY <3>1 DEF ToSet
    <3>. HIDE DEF e, E
    <3>3. e = [i \in 1..n |-> e[i]]
      BY <3>1
    <3>. QED
      BY <1>2, <3>1, <3>2, <3>3
  <2>2. x[0] = <<>>
    BY <1>2, <1>4
  <2>3. ASSUME NEW i \in 1..n PROVE x[i] = Append(x[i - 1], e[i])
    BY <1>3, <1>6, <2>1 DEF OneMore
  <2>4. x[n] = r[n].Extensions
    BY <1>2
  <2>. HIDE DEF x, e, E
  <2>5. x[n] = e
    BY <2>1, <2>2, <2>3, AppendFollows
  <2>. QED
    BY <2>4, <2>5 DEF e
<1>8. r[n].SupportedPoints = Sent(hello, {11})
  <2>. DEFINE x == [i \in 0..n |-> r[i].SupportedPoints]
  <2>1. ASSUME NEW i \in 1..n PROVE x[i] = Added(exts[i].type, {11}, x[i - 1], Values(exts[i]))
    BY <1>3, <1>6 DEF OneMore
  <2>2. x[0] = <<>> /\ x[n] = r[n].SupportedPoints
    BY <1>2, <1>4
  <2>. HIDE DEF x
  <2>. QED
    BY <2>1, <2>2, ListFollows DEF n, exts
<1>9. r[n].SignatureAlgorithms = Sent(hello, {13, 53})
  <2>. DEFINE x == [i \in 0..n |-> r[i].SignatureAlgorithms]
  <2>1. ASSUME NEW i \in 1..n PROVE x[i] = Added(exts[i].type, {13, 53}, x[i - 1], Values(exts[i]))
    BY <1>3, <1>6 DEF OneMore
  <2>2. x[0] = <<>> /\ x[n] = r[n].SignatureAlgorithms
    BY <1>2, <1>4
  <2>. HIDE DEF x
  <2>. QED
    BY <2>1, <2>2, ListFollows DEF n, exts
<1>10. r[n].SupportedProtocols = Sent(hello, {16})
  <2>. DEFINE x == [i \in 0..n |-> r[i].SupportedProtocols]
  <2>1. ASSUME NEW i \in 1..n PROVE x[i] = Added(exts[i].type, {16}, x[i - 1], Values(exts[i]))
    BY <1>3, <1>6 DEF OneMore
  <2>2. x[0] = <<>> /\ x[n] = r[n].SupportedProtocols
    BY <1>2, <1>4
  <2>. HIDE DEF x
  <2>. QED
    BY <2>1, <2>2, ListFollows DEF n, exts
<1>11. r[n].CertCompressionAlgorithms = Sent(hello, {27})
  <2>. DEFINE x == [i \in 0..n |-> r[i].CertCompressionAlgorithms]
  <2>1. ASSUME NEW i \in 1..n PROVE x[i] = Added(exts[i].type, {27}, x[i - 1], Values(exts[i]))
    BY <1>3, <1>6 DEF OneMore
  <2>2. x[0] = <<>> /\ x[n] = r[n].CertCompressionAlgorithms
    BY <1>2, <1>4
  <2>. HIDE DEF x
  <2>. QED
    BY <2>1, <2>2, ListFollows DEF n, exts
<1>12. r[n].SupportedCurves = Replaced(Sent(hello, {10}), GreaseCurve)
  <2>. DEFINE x == [i \in 0..n |-> r[i].SupportedCurves]
  <2>1. ASSUME NEW i \in 1..n
        PROVE  x[i] = Added(exts[i].type, {10}, x[i - 1], Replaced(Values(exts[i]), GreaseCurve))
    BY <1>3, <1>6 DEF OneMore
  <2>2. x[0] = <<>> /\ x[n] = r[n].SupportedCurves /\ GreaseCurve \in V
    BY <1>2, <1>4
  <2>. HIDE DEF x
  <2>. QED
    BY <2>1, <2>2, ReplacedFollows DEF n, exts
<1>13. r[n].SupportedTLSVersions = Replaced(Sent(hello, {43}), GreaseVersion)
  <2>. DEFINE x == [i \in 0..n |-> r[i].SupportedTLSVersions]
  <2>1. ASSUME NEW i \in 1..n
        PROVE  x[i] = Added(exts[i].type, {43}, x[i - 1], Replaced(Values(exts[i]), GreaseVersion))
    BY <1>3, <1>6 DEF OneMore
  <2>2. x[0] = <<>> /\ x[n] = r[n].SupportedTLSVersions /\ GreaseVersion \in V
    BY <1>2, <1>4
  <2>. HIDE DEF x
  <2>. QED
    BY <2>1, <2>2, ReplacedFollows DEF n, exts
<1>14. IsMode(r[n].PSKKeyExchangeMode, hello)
  <2>. DEFINE x == [i \in 0..n |-> r[i].PSKKeyExchangeMode]
  <2>1. ASSUME NEW i \in 1..n
        PROVE  x[i] = IF exts[i].type = 45 /\ Len(exts[i].items) # 0
                      THEN exts[i].items[1].v ELSE x[i - 1]
    BY <1>3, <1>6 DEF OneMore
  <2>2. x[0] = 0 /\ x[n] = r[n].PSKKeyExchangeMode
    BY <1>2, <1>4
  <2>. HIDE DEF x
  <2>. QED
    BY <1>2, <2>1, <2>2, ModeFollows DEF n, exts
<1>. QED
  BY <1>1, <1>5, <1>7, <1>8, <1>9, <1>10, <1>11, <1>12, <1>13, <1>14 DEF IsParsed

-----------------------------------------------------------------------------
(* What the fingerprints make of it                                        *)

\* Lists that differ in left out values only are the same without them.
LEMMA WithoutSame ==
  ASSUME NEW V, NEW s \in Seq(V), NEW t \in Seq(V), NEW S, Len(s) = Len(t),
         \A i \in 1..Len(s) : s[i] = t[i] \/ (s[i] \in S /\ t[i] \in S)
  PROVE  Without(s, S) = Without(t, S)
<1>. DEFINE n == Len(s)
<1>1. PICK a \in [0..n -> Seq(V)] : IsKept(a, s, S) /\ Without(s, S) = a[n]
  BY WithoutIsRun
<1>2. PICK b \in [0..n -> Seq(V)] : IsKept(b, t, S) /\ Without(t, S) = b[n]
  BY WithoutIsRun
<1>3. n \in Nat
  BY LenProperties
<1>4. \A i \in 1..n : Unless(s[i], S) = Unless(t[i], S)
  BY DEF Unless
<1>. HIDE DEF n
<1>. DEFINE T == {i \in 0..n : a[i] = b[i]}
<1>5. 0 \in T
  BY <1>1, <1>2, <1>3 DEF IsKept
<1>6. ASSUME NEW i \in 1..n, i - 1 \in T PROVE i \in T
  <2>1. a[i] = a[i - 1] \o Unless(s[i], S) /\ b[i] = b[i - 1] \o Unless(t[i], S)
    BY <1>1, <1>2 DEF IsKept, n
  <2>2. a[i - 1] = b[i - 1] /\ i \in 0..n /\ Unless(s[i], S) = Unless(t[i], S)
    BY <1>3, <1>4, <1>6
  <2>. QED
    BY <2>1, <2>2
<1>7. 0..n \subseteq T
  <2>. HIDE DEF T
  <2>. QED
    BY <1>3, <1>5, <1>6, IntervalInduction
<1>. QED
  BY <1>1, <1>2, <1>3, <1>7

\* What stands for a GREASE curve is left out with the GREASE values.
LEMMA CurvesOfReplaced ==
  ASSUME NEW V, GreaseCurve \in V, NEW s \in Seq(V)
  PROVE  PlainCurves(Replaced(s, GreaseCurve)) = PlainCurves(s)
<1>. DEFINE t == Replaced(s, GreaseCurve)
            S == GreaseValues \cup {GreaseCurve}
<1>1. t \in Seq(V) /\ Len(t) = Len(s) /\ DOMAIN s = 1..Len(s)
  BY ReplacedIsSequence, LenProperties
<1>2. \A i \in 1..Len(s) : t[i] = s[i] \/ (t[i] \in S /\ s[i] \in S)
  BY <1>1 DEF Replaced, IsGrease
<1>. HIDE DEF t, S
<1>3. Without(t, S) = Without(s, S)
  BY <1>1, <1>2, WithoutSame
<1>. QED
  BY <1>3 DEF PlainCurves, t, S

LEMMA SentIsSequence ==
  ASSUME NEW hello, NEW V, HelloOf(hello, V), NEW types
  PROVE  Sent(hello, types) \in Seq(V)
<1>1. PICK s \in [0..Len(hello.extensions) -> Seq(V)] :
        Sent(hello, types) = s[Len(hello.extensions)]
  BY SentIsRun
<1>2. Len(hello.extensions) \in 0..Len(hello.extensions)
  BY HelloFacts
<1>. QED
  BY <1>1, <1>2

LEMMA PeetFields ==
  ASSUME NEW ch
  PROVE  LET peet == CalculatePeetPrint(ch) IN
         /\ peet.sigAlgs = ch.SignatureAlgorithms /\ peet.versions = ch.SupportedTLSVersions
         /\ peet.compression = ch.CertCompressionAlgorithms
<1>1. PICK protos, groups, suites, exts :
        CalculatePeetPrint(ch) =
          [versions |-> ch.SupportedTLSVersions, protos |-> protos, groups |-> groups,
           sigAlgs |-> ch.SignatureAlgorithms, mode |-> ch.PSKKeyExchangeMode,
           compression |-> ch.CertCompressionAlgorithms, suites |-> suites,
           extensions |-> exts]
  BY Zenon DEF CalculatePeetPrint
<1>. QED
  BY <1>1

\* The parser panics at no well-formed list.
LEMMA PanicsWhenUnreadable ==
  ASSUME NEW hello, IsHello(hello), ParsePanics(hello)
  PROVE  Unreadable(hello)
<1>1. ASSUME NEW ext, WellFormed(ext) PROVE ~Overruns(ext)
  <2>1. PICK V : V = {item.v : item \in ToSet(ext.items)}
    OBVIOUS
  <2>2. IsList(ext, V)
    BY <1>1, <2>1 DEF WellFormed, IsList
  <2>. QED
    BY <2>2, TakenIsShown
<1>2. ASSUME NEW i \in DOMAIN hello.extensions, Overruns(hello.extensions[i])
      PROVE  Unreadable(hello)
  <2>1. hello.extensions[i] \in ToSet(hello.extensions)
    BY DEF ToSet
  <2>2. ~WellFormed(hello.extensions[i])
    BY <1>1, <1>2
  <2>3. hello.extensions[i].type \in Unknown
    BY <2>1, <2>2 DEF IsHello
  <2>. QED
    BY <2>1, <2>2, <2>3 DEF Unreadable
<1>. QED
  BY <1>2 DEF ParsePanics, Unreadable

-----------------------------------------------------------------------------
(* The details that requests have                                          *)

Details(c) == TLSDetails(Client(c).hello, Client(c).negotiated)
Relabelled(d, ja4) == [d EXCEPT !.JA4 = ja4]

LEMMA DetailsFields ==
  ASSUME NEW hello, NEW negotiated, NEW ja4, NEW d, d = TLSDetails(hello, negotiated)
  PROVE  LET ch == ParseClientHello(hello)
             e == Relabelled(d, ja4)
         IN /\ e # NoTLS /\ d = Relabelled(d, d.JA4) /\ e.JA4 = ja4
            /\ e.JA3 = CalculateJA3(ch) /\ d.JA3 = e.JA3
            /\ e.PeetPrint = CalculatePeetPrint(ch) /\ d.PeetPrint = e.PeetPrint
            /\ e.NegotiatedVersion = negotiated /\ d.NegotiatedVersion = negotiated
            /\ e.Extensions = ch.Extensions
            /\ \A other : [e EXCEPT !.JA4 = other] = Relabelled(d, other)
<1>1. PICK ch : ch = ParseClientHello(hello)
  OBVIOUS
<1>2. PICK ja3, peet, first, exts :
        /\ ja3 = CalculateJA3(ch) /\ peet = CalculatePeetPrint(ch)
        /\ first = CalculateJa4Direct(ch, negotiated) /\ exts = ch.Extensions
  OBVIOUS
<1>3. d = [JA3 |-> ja3, PeetPrint |-> peet, JA4 |-> first, NegotiatedVersion |-> negotiated,
           Extensions |-> exts]
  BY <1>1, <1>2 DEF TLSDetails
<1>4. Relabelled(d, ja4) =
        [JA3 |-> ja3, PeetPrint |-> peet, JA4 |-> ja4, NegotiatedVersion |-> negotiated,
         Extensions |-> exts]
  BY <1>3 DEF Relabelled
<1>5. Relabelled(d, ja4) # NoTLS
  <2>1. "JA3" \in DOMAIN Relabelled(d, ja4) /\ "JA3" \notin DOMAIN NoTLS
    BY <1>4 DEF NoTLS
  <2>. QED
    BY <2>1
<1>6. d = Relabelled(d, d.JA4)
  BY <1>3 DEF Relabelled
<1>7. \A other : [Relabelled(d, ja4) EXCEPT !.JA4 = other] = Relabelled(d, other)
  BY <1>3, <1>4 DEF Relabelled
<1>. QED
  BY <1>1, <1>2, <1>3, <1>4, <1>5, <1>6, <1>7

LEMMA Ja4OfRelabelled ==
  ASSUME NEW hello, NEW negotiated, NEW ja4, NEW d, d = TLSDetails(hello, negotiated)
  PROVE  CalculateJa4(Relabelled(d, ja4)) = CalculateJa4(d)
<1>1. PICK e : e = Relabelled(d, ja4)
  OBVIOUS
<1>2. e.JA3 = d.JA3 /\ e.PeetPrint = d.PeetPrint /\ e.NegotiatedVersion = d.NegotiatedVersion
  BY <1>1, DetailsFields
<1>3. ja4a(e) = ja4a(d) /\ ja4c(e) = ja4c(d)
  BY <1>2 DEF ja4a, ja4c
<1>. QED
  BY <1>1, <1>2, <1>3 DEF CalculateJa4

\* A handshake's details are those of the client's hello, but for JA4, which
\* each lookup makes anew.
Handshaken(c) ==
  /\ tls[c] = NoTLS \/ \E ja4 : tls[c] = Relabelled(Details(c), ja4)
  /\ Protocol(c) # Http3 =>
       /\ phase[c] = "received" => tls[c] # NoTLS
       /\ Routed(c) => tls[c] = Relabelled(Details(c), CalculateJa4(Details(c)))

EndsUnread == \E c \in Connections : phase[c] = "open" /\ Unreadable(Client(c).hello)

DetailsInv ==
  /\ scenario \in Scenarios /\ DOMAIN tls = Connections /\ DOMAIN phase = Connections
  /\ DOMAIN req = Connections
  /\ up \/ EndsUnread
  /\ \A c \in Connections : Handshaken(c)

\* Whoever moves without a change of the details.
LEMMA StaysHandshaken ==
  ASSUME DetailsInv, scenario' = scenario, NEW d \in Connections, tls'[d] = tls[d],
         Protocol(d) # Http3 /\ phase'[d] = "received" => tls[d] # NoTLS,
         Protocol(d) # Http3 /\ Routed(d)' => Routed(d)
  PROVE  Handshaken(d)'
<1>1. Details(d)' = Details(d) /\ Protocol(d)' = Protocol(d)
  BY DEF Details, Client, Protocol
<1>2. Handshaken(d)
  BY DEF DetailsInv
<1>3. (\E ja4 : tls[d] = Relabelled(Details(d), ja4)) =>
        \E ja4 : tls'[d] = Relabelled(Details(d)', ja4)
  BY <1>1
<1>. QED
  BY <1>1, <1>2, <1>3 DEF Handshaken

LEMMA DetailsKept == Spec => []DetailsInv
<1>1. Init => DetailsInv
  <2>. SUFFICES ASSUME Init PROVE DetailsInv
    OBVIOUS
  <2>1. ASSUME NEW c \in Connections PROVE Handshaken(c)
    BY DEF Init, Handshaken, Routed
  <2>. QED
    BY <2>1 DEF Init, DetailsInv
<1>2. DetailsInv /\ [Next]_vars => DetailsInv'
  <2>. SUFFICES ASSUME DetailsInv, [Next]_vars PROVE DetailsInv'
    OBVIOUS
  <2>0. \A c \in Connections : Handshaken(c)
    BY DEF DetailsInv
  <2>1. CASE UNCHANGED vars
    BY <2>1 DEF vars, sniffVars, tcpVars, logVars, DetailsInv, EndsUnread, Handshaken, Routed,
                Skipped, Details, Client, Protocol
  <2>2. ASSUME up, up' = up, scenario' = scenario, DOMAIN tls' = Connections,
               DOMAIN phase' = Connections, DOMAIN req' = Connections,
               \A d \in Connections : Handshaken(d)'
        PROVE  DetailsInv'
    BY <2>2 DEF DetailsInv
  <2>3. CASE Sniff \/ LosePacket \/ \E c \in Connections : Overlap(c)
    <3>1. /\ up /\ up' = up /\ scenario' = scenario /\ phase' = phase /\ tls' = tls
          /\ req' = req
      BY <2>3 DEF Sniff, LosePacket, Overlap
    <3>2. ASSUME NEW d \in Connections PROVE Handshaken(d)'
      BY <2>0, <3>1, StaysHandshaken DEF Handshaken, Routed, Skipped, Protocol
    <3>. QED
      BY <2>2, <3>1, <3>2 DEF DetailsInv
  <2>4. ASSUME NEW c \in Connections, UNCHANGED <<scenario, tls, req>>, up, up' = up,
               NEW p, phase' = [phase EXCEPT ![c] = p],
               Protocol(c) # Http3 /\ p = "received" => Routed(c),
               Protocol(c) # Http3 /\ p \in {"routed", "saved", "answered"}
                 => Routed(c) \/ Skipped(c)
        PROVE  DetailsInv'
    <3>1. ASSUME NEW d \in Connections PROVE Handshaken(d)'
      <4>1. tls'[d] = tls[d] /\ scenario' = scenario /\ (Skipped(d)' <=> Skipped(d))
        BY <2>4 DEF Skipped, Protocol
      <4>2. phase'[d] = IF d = c THEN p ELSE phase[d]
        BY <2>4 DEF DetailsInv
      <4>3. Protocol(d) # Http3 /\ Routed(d)' => Routed(d)
        BY <2>4, <4>1, <4>2 DEF Routed
      <4>4. ASSUME Protocol(d) # Http3, Routed(d) PROVE tls[d] # NoTLS
        <5>1. tls[d] = Relabelled(Details(d), CalculateJa4(Details(d)))
          BY <2>0, <4>4 DEF Handshaken
        <5>. QED
          BY <5>1, DetailsFields DEF Details
      <4>5. Protocol(d) # Http3 /\ phase'[d] = "received" => tls[d] # NoTLS
        BY <2>0, <2>4, <4>2, <4>4 DEF Handshaken
      <4>. QED
        BY <4>1, <4>3, <4>5, StaysHandshaken
    <3>. QED
      BY <2>2, <2>4, <3>1 DEF DetailsInv
  <2>5. ASSUME NEW c \in Connections, Connect(c) PROVE DetailsInv'
    <3>1. /\ UNCHANGED <<scenario, tls, req>> /\ up /\ up' = up
          /\ phase' = [phase EXCEPT ![c] = "open"]
      BY <2>5 DEF Connect, At, Moves
    <3>. QED
      BY <2>4, <3>1
  <2>6. ASSUME NEW c \in Connections, HandleTLSConnection(c) PROVE DetailsInv'
    <3>1. scenario' = scenario /\ req' = req /\ up /\ phase[c] = "open" /\ Protocol(c) # Http3
      BY <2>6 DEF HandleTLSConnection, At
    <3>2. CASE ParsePanics(Client(c).hello)
      <4>1. phase' = phase /\ tls' = tls
        BY <2>6, <3>2 DEF HandleTLSConnection
      <4>2. IsHello(Client(c).hello)
        BY HelloAssumption DEF HelloAssumption, DetailsInv, Client
      <4>3. EndsUnread'
        BY <3>1, <3>2, <4>1, <4>2, PanicsWhenUnreadable DEF EndsUnread, Client
      <4>4. ASSUME NEW d \in Connections PROVE Handshaken(d)'
        BY <2>0, <3>1, <4>1, StaysHandshaken DEF Handshaken, Routed, Skipped, Protocol
      <4>. QED
        BY <3>1, <4>1, <4>3, <4>4 DEF DetailsInv
    <3>3. CASE ~ParsePanics(Client(c).hello)
      <4>1. /\ tls' = [tls EXCEPT ![c] = Details(c)] /\ up' = up
            /\ phase' = [phase EXCEPT ![c] = "received"]
        BY <2>6, <3>3 DEF HandleTLSConnection, Moves, Details
      <4>2. ASSUME NEW d \in Connections, d # c PROVE Handshaken(d)'
        <5>1. tls'[d] = tls[d] /\ phase'[d] = phase[d]
          BY <4>1, <4>2 DEF DetailsInv
        <5>. QED
          BY <2>0, <3>1, <5>1, StaysHandshaken DEF Handshaken, Routed, Skipped, Protocol
      <4>3. Handshaken(c)'
        <5>1. tls'[c] = Details(c) /\ phase'[c] = "received"
          BY <4>1 DEF DetailsInv
        <5>2. Details(c)' = Details(c)
          BY <3>1 DEF Details, Client
        <5>3. Details(c) # NoTLS /\ Details(c) = Relabelled(Details(c), Details(c).JA4)
          <6>1. PICK d : d = Details(c)
            OBVIOUS
          <6>2. Relabelled(d, d.JA4) # NoTLS /\ d = Relabelled(d, d.JA4)
            BY <6>1, DetailsFields DEF Details
          <6>. QED
            BY <6>1, <6>2
        <5>4. \E ja4 : tls'[c] = Relabelled(Details(c)', ja4)
          BY <5>1, <5>2, <5>3
        <5>. QED
          BY <5>1, <5>3, <5>4 DEF Handshaken, Routed
      <4>4. \A d \in Connections : Handshaken(d)'
        BY <4>2, <4>3
      <4>. QED
        BY <2>2, <3>1, <4>1, <4>4 DEF DetailsInv
    <3>. QED
      BY <3>2, <3>3
  <2>7. ASSUME NEW c \in Connections, AcceptHTTP3(c) PROVE DetailsInv'
    <3>1. /\ UNCHANGED <<scenario, tls, req>> /\ up /\ up' = up /\ Protocol(c) = Http3
          /\ phase' = [phase EXCEPT ![c] = "received"]
      BY <2>7 DEF AcceptHTTP3, At, Moves
    <3>. QED
      BY <2>4, <3>1
  <2>8. ASSUME NEW c \in Connections, Router(c) PROVE DetailsInv'
    <3>1. /\ scenario' = scenario /\ req' = req /\ up /\ up' = up /\ phase[c] = "received"
          /\ phase' = [phase EXCEPT ![c] = "routed"]
          /\ tls' = IF tls[c] = NoTLS THEN tls
                    ELSE [tls EXCEPT ![c] = [tls[c] EXCEPT !.JA4 = CalculateJa4(tls[c])]]
      BY <2>8 DEF Router, At, Moves
    <3>2. ASSUME NEW d \in Connections, d # c PROVE Handshaken(d)'
      <4>1. tls'[d] = tls[d] /\ phase'[d] = phase[d]
        BY <3>1, <3>2 DEF DetailsInv
      <4>. QED
        BY <2>0, <3>1, <4>1, StaysHandshaken DEF Handshaken, Routed, Skipped, Protocol
    <3>3. Handshaken(c)'
      <4>1. phase'[c] = "routed"
        BY <3>1 DEF DetailsInv
      <4>2. Details(c)' = Details(c) /\ Protocol(c)' = Protocol(c)
        BY <3>1 DEF Details, Client, Protocol
      <4>3. CASE tls[c] = NoTLS
        <5>1. tls'[c] = NoTLS /\ Protocol(c) = Http3
          BY <2>0, <3>1, <4>3 DEF Handshaken
        <5>. QED
          BY <4>1, <4>2, <5>1 DEF Handshaken
      <4>4. CASE tls[c] # NoTLS
        <5>1. PICK ja4 : tls[c] = Relabelled(Details(c), ja4)
          BY <2>0, <4>4 DEF Handshaken
        <5>2. PICK other : other = CalculateJa4(Details(c)) /\ other = CalculateJa4(tls[c])
          BY <5>1, Ja4OfRelabelled DEF Details
        <5>3. tls'[c] = [tls[c] EXCEPT !.JA4 = other]
          BY <3>1, <4>4, <5>2 DEF DetailsInv
        <5>4. tls'[c] = Relabelled(Details(c), other)
          BY <5>1, <5>3, DetailsFields DEF Details
        <5>5. \E any : tls'[c] = Relabelled(Details(c)', any)
          BY <4>2, <5>4
        <5>. QED
          BY <4>1, <4>2, <5>2, <5>4, <5>5 DEF Handshaken
      <4>. QED
        BY <4>3, <4>4
    <3>4. \A d \in Connections : Handshaken(d)'
      BY <3>2, <3>3
    <3>5. DOMAIN tls' = Connections /\ DOMAIN phase' = Connections /\ DOMAIN req' = Connections
      BY <3>1 DEF DetailsInv
    <3>. QED
      BY <2>2, <3>1, <3>4, <3>5
  <2>9. ASSUME NEW c \in Connections, SaveRequest(c) PROVE DetailsInv'
    <3>1. /\ UNCHANGED <<scenario, tls, req>> /\ up /\ up' = up /\ phase[c] = "routed"
          /\ \/ phase' = [phase EXCEPT ![c] = "saved"]
             \/ phase' = [phase EXCEPT ![c] = "aborted"]
      BY <2>9 DEF SaveRequest, At, Moves
    <3>2. Routed(c) \/ Skipped(c)
      BY <3>1 DEF Routed
    <3>. QED
      BY <2>4, <3>1, <3>2
  <2>10. ASSUME NEW c \in Connections, Answer(c) PROVE DetailsInv'
    <3>1. /\ UNCHANGED <<scenario, tls, req>> /\ up /\ up' = up
          /\ phase[c] = "saved" \/ Skipped(c)
          /\ \/ phase' = [phase EXCEPT ![c] = "answered"]
             \/ phase' = [phase EXCEPT ![c] = "aborted"]
      BY <2>10 DEF Answer, At, Moves
    <3>2. Routed(c) \/ Skipped(c)
      BY <3>1 DEF Routed
    <3>. QED
      BY <2>4, <3>1, <3>2
  <2>11. ASSUME NEW c \in Connections, Close(c) PROVE DetailsInv'
    <3>1. /\ UNCHANGED <<scenario, tls, req>> /\ up /\ up' = up
          /\ phase' = [phase EXCEPT ![c] = "closed"]
      BY <2>11 DEF Close, Moves
    <3>. QED
      BY <2>4, <3>1
  <2>12. ASSUME NEW c \in Connections, Follow(c) PROVE DetailsInv'
    <3>1. /\ scenario' = scenario /\ tls' = tls /\ up /\ up' = up
          /\ phase[c] = "answered" /\ Protocol(c) = Http2
          /\ phase' = [phase EXCEPT ![c] = "received"]
      BY <2>12 DEF Follow, At, Moves
    <3>2. ASSUME NEW d \in Connections, d # c PROVE req'[d] = req[d]
      <4>1. PICK path : req' = [req EXCEPT ![c].path = path, ![c].query = <<>>]
        BY <2>12 DEF Follow
      <4>2. d \in DOMAIN req
        BY DEF DetailsInv
      <4>. QED
        BY <3>2, <4>1, <4>2
    <3>3. Http2 # Http1 /\ Http2 # Http3
      BY DEF Http1, Http2, Http3
    <3>4. ASSUME NEW d \in Connections, d # c PROVE Handshaken(d)'
      <4>1. tls'[d] = tls[d] /\ phase'[d] = phase[d] /\ req'[d] = req[d]
        BY <3>1, <3>2, <3>4 DEF DetailsInv
      <4>. QED
        BY <2>0, <3>1, <4>1, StaysHandshaken DEF Handshaken, Routed, Skipped, Protocol
    <3>5. Handshaken(c)'
      <4>1. phase'[c] = "received" /\ Routed(c)
        BY <3>1, <3>3 DEF DetailsInv, Routed, Skipped
      <4>2. tls[c] = Relabelled(Details(c), CalculateJa4(Details(c)))
        BY <2>0, <3>1, <3>3, <4>1 DEF Handshaken
      <4>3. tls[c] # NoTLS
        BY <4>2, DetailsFields DEF Details
      <4>4. ~Routed(c)'
        BY <4>1 DEF Routed
      <4>. QED
        BY <3>1, <4>1, <4>3, <4>4, StaysHandshaken
    <3>6. \A d \in Connections : Handshaken(d)'
      BY <3>4, <3>5
    <3>7. DOMAIN phase' = Connections /\ DOMAIN tls' = Connections /\ DOMAIN req' = Connections
      BY <2>12, <3>1 DEF DetailsInv, Follow
    <3>. QED
      BY <2>2, <3>1, <3>6, <3>7
  <2>. QED
    BY <2>1, <2>3, <2>5, <2>6, <2>7, <2>8, <2>9, <2>10, <2>11, <2>12 DEF Next
<1>. QED
  BY <1>1, <1>2, PTL DEF Spec

(***************************************************************************)
(* What is shown of a ClientHello and kept for its fingerprints is what    *)
(* the client sent, for any hello whose lists are as long as they say:     *)
(* each of the loops of parseRawExtension, whatever it compares with what, *)
(* takes its list to the last item and none beyond, and no one panics.  Of *)
(* the hellos that the TLS library accepts, the process ends only by one   *)
(* without extensions or with an ill-formed one that the library does not  *)
(* know.                                                                   *)
(***************************************************************************)
THEOREM HellosAreReadWhole == Spec => []ParsedWhole
<1>1. DetailsInv => ParsedWhole
  <2>. SUFFICES ASSUME DetailsInv PROVE ParsedWhole
    OBVIOUS
  <2>1. up \/ \E c \in Connections : phase[c] = "open" /\ Unreadable(Client(c).hello)
    BY DEF DetailsInv, EndsUnread
  <2>2. ASSUME NEW c \in Connections, tls[c] # NoTLS, NEW hello, hello = Client(c).hello,
               Supported(hello), AllWellFormed(hello)
        PROVE  /\ tls[c].Extensions = ShownOf(hello)
               /\ tls[c].JA3.curves = PlainCurves(Sent(hello, {10}))
               /\ tls[c].JA3.points = Sent(hello, {11})
               /\ tls[c].PeetPrint.sigAlgs = Sent(hello, {13, 53})
               /\ tls[c].PeetPrint.versions = Marked(Sent(hello, {43}))
               /\ tls[c].PeetPrint.compression = Sent(hello, {27})
    <3>1. PICK ja4 : tls[c] = Relabelled(Details(c), ja4)
      BY <2>2 DEF DetailsInv, Handshaken
    <3>2. PICK ch : ch = ParseClientHello(hello)
      OBVIOUS
    <3>3. /\ tls[c].JA3 = CalculateJA3(ch) /\ tls[c].PeetPrint = CalculatePeetPrint(ch)
          /\ tls[c].Extensions = ch.Extensions
      BY <2>2, <3>1, <3>2, DetailsFields DEF Details
    <3>4. IsHello(hello)
      BY <2>2, HelloAssumption DEF HelloAssumption, DetailsInv, Client
    <3>5. PICK V : HelloOf(hello, V)
      BY <2>2, <3>4, HelloHasValues
    <3>6. IsParsed(ch, hello)
      BY <2>2, <3>2, <3>5, ParsedFields
    <3>7. Sent(hello, {10}) \in Seq(V) /\ GreaseCurve \in V
      BY <3>5, SentIsSequence DEF HelloOf
    <3>8. tls[c].JA3.curves = PlainCurves(Sent(hello, {10}))
      <4>1. tls[c].JA3.curves = PlainCurves(ch.SupportedCurves)
        BY <3>3 DEF CalculateJA3
      <4>2. ch.SupportedCurves = Replaced(Sent(hello, {10}), GreaseCurve)
        BY <3>6 DEF IsParsed
      <4>. QED
        BY <3>7, <4>1, <4>2, CurvesOfReplaced
    <3>9. tls[c].JA3.points = ch.SupportedPoints
      BY <3>3 DEF CalculateJA3
    <3>10. /\ tls[c].PeetPrint.sigAlgs = ch.SignatureAlgorithms
           /\ tls[c].PeetPrint.versions = ch.SupportedTLSVersions
           /\ tls[c].PeetPrint.compression = ch.CertCompressionAlgorithms
      BY <3>3, PeetFields
    <3>11. Marked(Sent(hello, {43})) = Replaced(Sent(hello, {43}), GreaseVersion)
      BY DEF Marked, GREASE, GreaseVersion
    <3>. QED
      BY <3>3, <3>6, <3>8, <3>9, <3>10, <3>11 DEF IsParsed
  <2>. QED
    BY <2>1, <2>2 DEF ParsedWhole, ShownOf
<1>. QED
  BY <1>1, DetailsKept, PTL

-----------------------------------------------------------------------------
(* Lists in another order                                                  *)

\* One value for each of the other list, but for those of a set, which stand
\* for each other.
Pairs(p, s, t, S) ==
  /\ p \in [DOMAIN s -> DOMAIN t]
  /\ \A i, j \in DOMAIN s : p[i] = p[j] => i = j
  /\ \A j \in DOMAIN t : \E i \in DOMAIN s : p[i] = j
  /\ \A i \in DOMAIN s : s[i] = t[p[i]] \/ (s[i] \in S /\ t[p[i]] \in S)

Shuffled(s, t, S) == \E p : Pairs(p, s, t, S)

\* A one to one map of two sets, element by element.
LEMMA OneToOne ==
  ASSUME NEW S, NEW T, IsFiniteSet(S), NEW f \in [S -> T],
         \A x, y \in S : f[x] = f[y] => x = y, \A y \in T : \E x \in S : f[x] = y
  PROVE  IsFiniteSet(T) /\ Cardinality(T) = Cardinality(S)
<1>1. f \in Bijection(S, T)
  BY Fun_IsBij
<1>2. ExistsBijection(S, T)
  BY <1>1, Fun_ExistsBij
<1>. QED
  BY <1>2, FS_Bijection

LEMMA ShuffledLength ==
  ASSUME NEW V, NEW s \in Seq(V), NEW t \in Seq(V), NEW S, Shuffled(s, t, S)
  PROVE  Len(s) = Len(t)
<1>1. PICK p : Pairs(p, s, t, S)
  BY DEF Shuffled
<1>2. /\ Len(s) \in Nat /\ DOMAIN s = 1..Len(s) /\ Len(t) \in Nat /\ DOMAIN t = 1..Len(t)
  BY LenProperties
<1>3. /\ IsFiniteSet(1..Len(s)) /\ Cardinality(1..Len(s)) = Len(s)
      /\ Cardinality(1..Len(t)) = Len(t)
  <2>1. ASSUME NEW n \in Nat PROVE IsFiniteSet(1..n) /\ Cardinality(1..n) = n
    BY FS_Interval
  <2>. QED
    BY <1>2, <2>1
<1>4. Cardinality(DOMAIN t) = Cardinality(DOMAIN s)
  BY <1>1, <1>2, <1>3, OneToOne DEF Pairs
<1>. QED
  BY <1>2, <1>3, <1>4

\* As many values of a set are in either.
HowMany(s, W) == Cardinality({i \in DOMAIN s : s[i] \in W})

LEMMA ShuffledCounts ==
  ASSUME NEW V, NEW s \in Seq(V), NEW t \in Seq(V), Shuffled(s, t, {}), NEW W
  PROVE  HowMany(s, W) = HowMany(t, W)
<1>1. PICK p : Pairs(p, s, t, {})
  BY DEF Shuffled
<1>. DEFINE A == {i \in DOMAIN s : s[i] \in W}
            B == {j \in DOMAIN t : t[j] \in W}
            f == [i \in A |-> p[i]]
<1>2. IsFiniteSet(A)
  <2>1. Len(s) \in Nat /\ DOMAIN s = 1..Len(s)
    BY LenProperties
  <2>2. IsFiniteSet(DOMAIN s)
    BY <2>1, FS_Interval
  <2>. QED
    BY <2>2, FS_Subset
<1>3. \A i \in DOMAIN s : s[i] = t[p[i]] /\ p[i] \in DOMAIN t
  BY <1>1 DEF Pairs
<1>4. f \in [A -> B]
  BY <1>3
<1>5. \A i, j \in A : f[i] = f[j] => i = j
  BY <1>1 DEF Pairs
<1>6. \A j \in B : \E i \in A : f[i] = j
  BY <1>1, <1>3 DEF Pairs
<1>. HIDE DEF A, B, f
<1>7. Cardinality(B) = Cardinality(A)
  BY <1>2, <1>4, <1>5, <1>6, OneToOne
<1>. QED
  BY <1>7 DEF HowMany, A, B

\* Sorted, they are one list.
LEMMA ShuffledSorted ==
  ASSUME NEW V, NEW s \in Seq(V), NEW t \in Seq(V), Shuffled(s, t, {})
  PROVE  Sorted(s) = Sorted(t)
<1>1. DOMAIN s = DOMAIN t
  BY ShuffledLength, LenProperties
<1>2. ToSet(s) = ToSet(t)
  <2>1. PICK p : Pairs(p, s, t, {})
    BY DEF Shuffled
  <2>2. \A i \in DOMAIN s : s[i] = t[p[i]] /\ p[i] \in DOMAIN t
    BY <2>1 DEF Pairs
  <2>3. \A j \in DOMAIN t : \E i \in DOMAIN s : p[i] = j
    BY <2>1 DEF Pairs
  <2>4. \A i \in DOMAIN s : s[i] \in ToSet(t)
    BY <2>2 DEF ToSet
  <2>5. \A j \in DOMAIN t : t[j] \in ToSet(s)
    BY <2>2, <2>3 DEF ToSet
  <2>6. ToSet(s) = {s[i] : i \in DOMAIN s} /\ ToSet(t) = {t[i] : i \in DOMAIN t}
    BY DEF ToSet
  <2>. QED
    BY <2>4, <2>5, <2>6
<1>3. ASSUME NEW v
      PROVE  Cardinality({i \in DOMAIN s : s[i] < v}) = Cardinality({i \in DOMAIN t : t[i] < v})
  <2>. DEFINE W == {x \in ToSet(s) : x < v}
  <2>1. {i \in DOMAIN s : s[i] < v} = {i \in DOMAIN s : s[i] \in W}
    BY DEF ToSet
  <2>2. {i \in DOMAIN t : t[i] < v} = {i \in DOMAIN t : t[i] \in W}
    BY <1>2 DEF ToSet
  <2>. HIDE DEF W
  <2>3. HowMany(s, W) = HowMany(t, W)
    BY ShuffledCounts
  <2>. QED
    BY <2>1, <2>2, <2>3 DEF HowMany
<1>4. ASSUME NEW v
      PROVE  Cardinality({i \in DOMAIN s : s[i] <= v}) = Cardinality({i \in DOMAIN t : t[i] <= v})
  <2>. DEFINE W == {x \in ToSet(s) : x <= v}
  <2>1. {i \in DOMAIN s : s[i] <= v} = {i \in DOMAIN s : s[i] \in W}
    BY DEF ToSet
  <2>2. {i \in DOMAIN t : t[i] <= v} = {i \in DOMAIN t : t[i] \in W}
    BY <1>2 DEF ToSet
  <2>. HIDE DEF W
  <2>3. HowMany(s, W) = HowMany(t, W)
    BY ShuffledCounts
  <2>. QED
    BY <2>1, <2>2, <2>3 DEF HowMany
<1>. DEFINE Below(q, v) == Cardinality({i \in DOMAIN q : q[i] < v})
            UpTo(q, v) == Cardinality({i \in DOMAIN q : q[i] <= v})
<1>5. \A v : Below(s, v) = Below(t, v) /\ UpTo(s, v) = UpTo(t, v)
  BY <1>3, <1>4
<1>6. /\ Sorted(s) = [k \in DOMAIN s |-> CHOOSE v \in ToSet(s) : Below(s, v) < k /\ UpTo(s, v) >= k]
      /\ Sorted(t) = [k \in DOMAIN t |-> CHOOSE v \in ToSet(t) : Below(t, v) < k /\ UpTo(t, v) >= k]
  BY DEF Sorted
<1>. HIDE DEF Below, UpTo
<1>7. ASSUME NEW k
      PROVE  (CHOOSE v \in ToSet(s) : Below(s, v) < k /\ UpTo(s, v) >= k)
               = CHOOSE v \in ToSet(t) : Below(t, v) < k /\ UpTo(t, v) >= k
  BY <1>2, <1>5
<1>. QED
  BY <1>1, <1>6, <1>7

-----------------------------------------------------------------------------
(* Leaving values out of lists in another order                            *)

\* Where the values that are kept come to be.
IsPlace(q, s, w, S) ==
  /\ \A i \in DOMAIN s : s[i] \notin S => q[i] \in DOMAIN w /\ w[q[i]] = s[i]
  /\ \A i, j \in DOMAIN s : s[i] \notin S /\ s[j] \notin S /\ q[i] = q[j] => i = j
  /\ \A m \in DOMAIN w : \E i \in DOMAIN s : s[i] \notin S /\ q[i] = m

LEMMA WithoutPlaces ==
  ASSUME NEW V, NEW s \in Seq(V), NEW S
  PROVE  Without(s, S) \in Seq(V) /\ \E q : IsPlace(q, s, Without(s, S), S)
<1>. DEFINE n == Len(s)
<1>1. PICK r \in [0..n -> Seq(V)] : IsKept(r, s, S) /\ Without(s, S) = r[n]
  BY WithoutIsRun
<1>2. n \in Nat /\ DOMAIN s = 1..n /\ \A i \in 1..n : s[i] \in V
  BY LenProperties
<1>3. ASSUME NEW i \in 0..n PROVE r[i] \in Seq(V) /\ Len(r[i]) \in Nat
  BY LenProperties
<1>4. ASSUME NEW i \in 1..n, s[i] \in S PROVE r[i] = r[i - 1]
  <2>1. r[i] = r[i - 1] \o <<>>
    BY <1>1, <1>4 DEF IsKept, Unless
  <2>2. i - 1 \in 0..n
    BY <1>2
  <2>. QED
    BY <1>3, <2>1, <2>2, ConcatEmptySeq
<1>5. ASSUME NEW i \in 1..n, s[i] \notin S
      PROVE  /\ Len(r[i]) = Len(r[i - 1]) + 1 /\ r[i][Len(r[i])] = s[i]
             /\ \A m \in 1..Len(r[i - 1]) : r[i][m] = r[i - 1][m]
  <2>1. r[i] = r[i - 1] \o <<s[i]>>
    BY <1>1, <1>5 DEF IsKept, Unless
  <2>2. i - 1 \in 0..n
    BY <1>2
  <2>3. PICK list : list = r[i - 1]
    OBVIOUS
  <2>4. list \in Seq(V) /\ s[i] \in V
    BY <1>2, <1>3, <2>2, <2>3
  <2>5. r[i] = Append(list, s[i])
    BY <2>1, <2>3, <2>4, AppendIsConcat
  <2>6. /\ Len(Append(list, s[i])) = Len(list) + 1
        /\ \A m \in 1..Len(list) : Append(list, s[i])[m] = list[m]
        /\ Append(list, s[i])[Len(list) + 1] = s[i]
    BY <2>4, AppendProperties
  <2>. QED
    BY <2>3, <2>5, <2>6
<1>6. r[0] = <<>> /\ Len(r[0]) = 0
  <2>1. r[0] = <<>>
    BY <1>1 DEF IsKept
  <2>. QED
    BY <2>1, EmptySeq
<1>. DEFINE Kept(i) == s[i] \notin S
            PlacedTo(k) ==
              /\ \A i \in 1..k : Len(r[i]) <= Len(r[k])
              /\ \A i \in 1..k : Kept(i) => Len(r[i]) \in 1..Len(r[k]) /\ r[k][Len(r[i])] = s[i]
              /\ \A m \in 1..Len(r[k]) : \E i \in 1..k : Kept(i) /\ Len(r[i]) = m
            T == {k \in 0..n : PlacedTo(k)}
<1>. HIDE DEF n
<1>7. 0 \in T
  BY <1>2, <1>6
<1>8. ASSUME NEW k \in 1..n, k - 1 \in T PROVE k \in T
  <2>1. PlacedTo(k - 1)
    BY <1>8
  <2>2. /\ k \in 0..n /\ k - 1 \in 0..n /\ k \in 1..k
        /\ \A i \in 1..k : i = k \/ i \in 1..(k - 1)
        /\ \A i \in 1..(k - 1) : i \in 1..k /\ i \in 0..n
    BY <1>2
  <2>3. CASE ~Kept(k)
    <3>1. r[k] = r[k - 1]
      BY <1>4, <2>3
    <3>2. \A i \in 1..k : Len(r[i]) <= Len(r[k])
      BY <1>3, <2>1, <2>2, <3>1
    <3>3. \A i \in 1..k : Kept(i) => Len(r[i]) \in 1..Len(r[k]) /\ r[k][Len(r[i])] = s[i]
      BY <2>1, <2>2, <2>3, <3>1
    <3>4. \A m \in 1..Len(r[k]) : \E i \in 1..k : Kept(i) /\ Len(r[i]) = m
      BY <2>1, <2>2, <3>1
    <3>. QED
      BY <2>2, <3>2, <3>3, <3>4
  <2>4. CASE Kept(k)
    <3>1. /\ Len(r[k]) = Len(r[k - 1]) + 1 /\ r[k][Len(r[k])] = s[k]
          /\ \A m \in 1..Len(r[k - 1]) : r[k][m] = r[k - 1][m]
          /\ Len(r[k - 1]) \in Nat /\ Len(r[k]) \in Nat
      BY <1>3, <1>5, <2>2, <2>4
    <3>2. ASSUME NEW i \in 1..k PROVE Len(r[i]) <= Len(r[k])
      <4>1. CASE i = k
        BY <3>1, <4>1
      <4>2. CASE i \in 1..(k - 1)
        <5>1. Len(r[i]) <= Len(r[k - 1]) /\ Len(r[i]) \in Nat
          BY <1>3, <2>1, <2>2, <4>2
        <5>. QED
          BY <3>1, <5>1
      <4>. QED
        BY <2>2, <4>1, <4>2
    <3>3. ASSUME NEW i \in 1..k, Kept(i)
          PROVE  Len(r[i]) \in 1..Len(r[k]) /\ r[k][Len(r[i])] = s[i]
      <4>1. CASE i = k
        BY <3>1, <4>1
      <4>2. CASE i \in 1..(k - 1)
        <5>1. Len(r[i]) \in 1..Len(r[k - 1]) /\ r[k - 1][Len(r[i])] = s[i]
          BY <2>1, <3>3, <4>2
        <5>. QED
          BY <3>1, <5>1
      <4>. QED
        BY <2>2, <4>1, <4>2
    <3>4. ASSUME NEW m \in 1..Len(r[k]) PROVE \E i \in 1..k : Kept(i) /\ Len(r[i]) = m
      <4>1. CASE m = Len(r[k])
        BY <2>2, <2>4, <4>1
      <4>2. CASE m # Len(r[k])
        <5>1. m \in 1..Len(r[k - 1])
          BY <3>1, <4>2
        <5>. QED
          BY <2>1, <2>2, <5>1
      <4>. QED
        BY <4>1, <4>2
    <3>. QED
      BY <2>2, <3>2, <3>3, <3>4
  <2>. QED
    BY <2>3, <2>4
<1>9. 0..n \subseteq T
  <2>. HIDE DEF T
  <2>. QED
    BY <1>2, <1>7, <1>8, IntervalInduction
<1>10. \A k \in 0..n : PlacedTo(k)
  BY <1>9
<1>. DEFINE q == [i \in 1..n |-> Len(r[i])]
            w == r[n]
<1>11. n \in 0..n /\ w \in Seq(V) /\ DOMAIN w = 1..Len(w)
  <2>1. n \in 0..n
    BY <1>2
  <2>. QED
    BY <1>3, <2>1, LenProperties
<1>12. ASSUME NEW i \in 1..n, NEW j \in 1..n, Kept(i), Kept(j), i < j PROVE q[i] # q[j]
  <2>1. j - 1 \in 0..n /\ i \in 1..(j - 1) /\ i \in 0..n
    BY <1>2, <1>12
  <2>2. Len(r[i]) <= Len(r[j - 1])
    BY <1>10, <2>1
  <2>3. Len(r[j]) = Len(r[j - 1]) + 1 /\ Len(r[j - 1]) \in Nat /\ Len(r[i]) \in Nat
    BY <1>3, <1>5, <1>12, <2>1
  <2>. QED
    BY <2>2, <2>3
<1>13. IsPlace(q, s, w, S)
  <2>1. \A i \in 1..n : Kept(i) => q[i] \in DOMAIN w /\ w[q[i]] = s[i]
    BY <1>10, <1>11
  <2>2. ASSUME NEW i \in 1..n, NEW j \in 1..n, Kept(i), Kept(j), q[i] = q[j] PROVE i = j
    <3>1. i < j \/ j < i \/ i = j
      BY <1>2
    <3>. HIDE DEF q, Kept
    <3>. QED
      BY <1>12, <2>2, <3>1
  <2>3. \A m \in DOMAIN w : \E i \in 1..n : Kept(i) /\ q[i] = m
    BY <1>10, <1>11
  <2>. HIDE DEF q, w
  <2>. QED
    BY <1>2, <2>1, <2>2, <2>3 DEF IsPlace
<1>14. Without(s, S) = w
  BY <1>1 DEF n
<1>. HIDE DEF q, w
<1>. QED
  BY <1>11, <1>13, <1>14

\* Without the values that stand for each other.
LEMMA ShuffledWithout ==
  ASSUME NEW V, NEW s \in Seq(V), NEW t \in Seq(V), NEW S, Shuffled(s, t, S)
  PROVE  Shuffled(Without(s, S), Without(t, S), {})
<1>1. PICK p : Pairs(p, s, t, S)
  BY DEF Shuffled
<1>2. PICK w, x : w = Without(s, S) /\ x = Without(t, S)
  OBVIOUS
<1>3. PICK a : IsPlace(a, s, w, S)
  BY <1>2, WithoutPlaces
<1>4. PICK b : IsPlace(b, t, x, S)
  BY <1>2, WithoutPlaces
<1>. DEFINE c == [m \in DOMAIN w |-> CHOOSE i \in DOMAIN s : s[i] \notin S /\ a[i] = m]
            f == [m \in DOMAIN w |-> b[p[c[m]]]]
<1>5. ASSUME NEW m \in DOMAIN w PROVE c[m] \in DOMAIN s /\ s[c[m]] \notin S /\ a[c[m]] = m
  BY <1>3 DEF IsPlace
<1>6. ASSUME NEW i \in DOMAIN s, s[i] \notin S
      PROVE  /\ a[i] \in DOMAIN w /\ c[a[i]] = i /\ w[a[i]] = s[i]
             /\ p[i] \in DOMAIN t /\ t[p[i]] = s[i]
  <2>1. a[i] \in DOMAIN w /\ w[a[i]] = s[i]
    BY <1>3, <1>6 DEF IsPlace
  <2>2. c[a[i]] \in DOMAIN s /\ s[c[a[i]]] \notin S /\ a[c[a[i]]] = a[i]
    BY <1>5, <2>1
  <2>. HIDE DEF c
  <2>3. c[a[i]] = i
    BY <1>3, <1>6, <2>2 DEF IsPlace
  <2>. QED
    BY <1>1, <1>6, <2>1, <2>3 DEF Pairs
<1>. HIDE DEF c
<1>7. ASSUME NEW m \in DOMAIN w
      PROVE  /\ p[c[m]] \in DOMAIN t /\ t[p[c[m]]] \notin S
             /\ f[m] \in DOMAIN x /\ x[f[m]] = w[m]
  <2>1. PICK i : i = c[m] /\ i \in DOMAIN s /\ s[i] \notin S /\ a[i] = m
    BY <1>5
  <2>2. w[m] = s[i] /\ p[i] \in DOMAIN t /\ t[p[i]] = s[i]
    BY <1>6, <2>1
  <2>3. b[p[i]] \in DOMAIN x /\ x[b[p[i]]] = t[p[i]]
    BY <1>4, <2>1, <2>2 DEF IsPlace
  <2>. QED
    BY <2>1, <2>2, <2>3
<1>8. ASSUME NEW m \in DOMAIN w, NEW k \in DOMAIN w, f[m] = f[k] PROVE m = k
  <2>1. b[p[c[m]]] = b[p[c[k]]]
    BY <1>8
  <2>2. p[c[m]] = p[c[k]]
    BY <1>4, <1>7, <2>1 DEF IsPlace
  <2>3. c[m] = c[k]
    BY <1>1, <1>5, <2>2 DEF Pairs
  <2>. QED
    BY <1>5, <2>3
<1>9. ASSUME NEW y \in DOMAIN x PROVE \E m \in DOMAIN w : f[m] = y
  <2>1. PICK j \in DOMAIN t : t[j] \notin S /\ b[j] = y
    BY <1>4 DEF IsPlace
  <2>2. PICK i \in DOMAIN s : p[i] = j
    BY <1>1 DEF Pairs
  <2>3. s[i] \notin S
    BY <1>1, <2>1, <2>2 DEF Pairs
  <2>4. a[i] \in DOMAIN w /\ c[a[i]] = i
    BY <1>6, <2>3
  <2>5. f[a[i]] = y
    BY <2>1, <2>2, <2>4
  <2>. HIDE DEF f
  <2>. QED
    BY <2>4, <2>5
<1>10. f = [m \in DOMAIN w |-> f[m]]
  OBVIOUS
<1>. HIDE DEF f
<1>11. f \in [DOMAIN w -> DOMAIN x]
  BY <1>7, <1>10
<1>12. Pairs(f, w, x, {})
  BY <1>7, <1>8, <1>9, <1>11 DEF Pairs
<1>. QED
  BY <1>2, <1>12 DEF Shuffled

-----------------------------------------------------------------------------
(* Two hellos of one browser                                               *)

\* Each is the other drawn anew.
OneBrowser(g, h) == DrawnAnew(g, h) /\ DrawnAnew(h, g)

HelloFor(hello, V) == HelloOf(hello, V) /\ hello.ciphers \in Seq(V)

LEMMA HellosHaveValues ==
  ASSUME NEW g, NEW h, IsHello(g), IsHello(h), AllWellFormed(g), AllWellFormed(h)
  PROVE  \E V : HelloFor(g, V) /\ HelloFor(h, V)
<1>1. PICK A : HelloOf(g, A)
  BY HelloHasValues
<1>2. PICK B : HelloOf(h, B)
  BY HelloHasValues
<1>. DEFINE V == A \cup B \cup ToSet(g.ciphers) \cup ToSet(h.ciphers)
<1>3. ASSUME NEW hello, NEW W, HelloOf(hello, W), W \subseteq V PROVE HelloOf(hello, V)
  <2>1. ASSUME NEW i \in 1..Len(hello.extensions) PROVE IsList(hello.extensions[i], V)
    <3>. DEFINE R == [v : W, size : Width(hello.extensions[i].type)]
                T == [v : V, size : Width(hello.extensions[i].type)]
    <3>1. R \subseteq T
      BY <1>3
    <3>2. hello.extensions[i].items \in Seq(R)
      BY <1>3 DEF HelloOf, IsList
    <3>. HIDE DEF R, T
    <3>3. hello.extensions[i].items \in Seq(T)
      BY <3>1, <3>2, WiderSequence
    <3>4. IsList(hello.extensions[i], W)
      BY <1>3 DEF HelloOf
    <3>. QED
      BY <3>3, <3>4 DEF IsList, T
  <2>. QED
    BY <1>3, <2>1 DEF HelloOf
<1>4. g.ciphers \in Seq(ToSet(g.ciphers)) /\ h.ciphers \in Seq(ToSet(h.ciphers))
  BY DEF IsHello
<1>5. /\ A \subseteq V /\ B \subseteq V
      /\ ToSet(g.ciphers) \subseteq V /\ ToSet(h.ciphers) \subseteq V
  OBVIOUS
<1>. HIDE DEF V
<1>6. g.ciphers \in Seq(V) /\ h.ciphers \in Seq(V)
  BY <1>4, <1>5, WiderSequence
<1>7. HelloFor(g, V) /\ HelloFor(h, V)
  BY <1>1, <1>2, <1>3, <1>5, <1>6 DEF HelloFor
<1>. QED
  BY <1>7

LEMMA IdentifyingIsPlain == \A type \in Identifying : ~IsGrease(type)
<1>1. \A v \in GreaseValues : v >= 2570
  BY DEF GreaseValues
<1>. QED
  BY <1>1 DEF IsGrease, Identifying

\* What DrawnAnew says, place by place.
Covers(a, b, n) == \A i \in 1..n : \E j \in 1..n : ExtensionsAlike(a[i], b[j])
Distinct(a, n) ==
  \A i, j \in 1..n : /\ a[i].type = a[j].type => i = j
                     /\ ~(a[i].type = 13 /\ a[j].type = 53)
Redrawn(a, b, n) ==
  n \in Nat /\ Covers(a, b, n) /\ Covers(b, a, n) /\ Distinct(a, n) /\ Distinct(b, n)

LEMMA DrawnOnce ==
  ASSUME NEW g, NEW h, NEW V, HelloFor(g, V), HelloFor(h, V), DrawnAnew(g, h)
  PROVE  LET n == Len(g.extensions) IN
         /\ n \in Nat /\ Len(h.extensions) = n
         /\ DOMAIN g.extensions = 1..n /\ DOMAIN h.extensions = 1..n
         /\ Covers(g.extensions, h.extensions, n) /\ Distinct(g.extensions, n)
<1>. DEFINE n == Len(g.extensions)
<1>1. /\ n \in Nat /\ DOMAIN g.extensions = 1..n
      /\ \A i \in 1..n : Types(g)[i] = g.extensions[i].type
  BY HelloFacts DEF HelloFor
<1>2. Len(h.extensions) = n /\ DOMAIN h.extensions = 1..n
  BY HelloFacts DEF HelloFor, DrawnAnew
<1>. HIDE DEF n
<1>3. Covers(g.extensions, h.extensions, n)
  BY <1>1, <1>2 DEF DrawnAnew, Covers
<1>4. Distinct(g.extensions, n)
  <2>. SUFFICES ASSUME NEW i \in 1..n, NEW j \in 1..n
                PROVE  /\ g.extensions[i].type = g.extensions[j].type => i = j
                       /\ ~(g.extensions[i].type = 13 /\ g.extensions[j].type = 53)
    BY DEF Distinct
  <2>1. /\ Types(g)[i] = Types(g)[j] => i = j
        /\ {Types(g)[i], Types(g)[j]} # {13, 53}
    BY <1>1 DEF DrawnAnew
  <2>2. Types(g)[i] = g.extensions[i].type /\ Types(g)[j] = g.extensions[j].type
    BY <1>1
  <2>. QED
    BY <2>1, <2>2
<1>. QED
  BY <1>1, <1>2, <1>3, <1>4 DEF n

LEMMA DrawnFacts ==
  ASSUME NEW g, NEW h, NEW V, HelloFor(g, V), HelloFor(h, V), OneBrowser(g, h)
  PROVE  LET n == Len(g.extensions) IN
         /\ Len(h.extensions) = n
         /\ DOMAIN g.extensions = 1..n /\ DOMAIN h.extensions = 1..n
         /\ Redrawn(g.extensions, h.extensions, n)
<1>1. DrawnAnew(g, h) /\ DrawnAnew(h, g)
  BY DEF OneBrowser
<1>2. PICK n, a, b : n = Len(g.extensions) /\ a = g.extensions /\ b = h.extensions
  OBVIOUS
<1>3. /\ n \in Nat /\ Len(b) = n /\ DOMAIN a = 1..n /\ DOMAIN b = 1..n
      /\ Covers(a, b, n) /\ Distinct(a, n)
  BY <1>1, <1>2, DrawnOnce
<1>4. Covers(b, a, n) /\ Distinct(b, n)
  BY <1>1, <1>2, <1>3, DrawnOnce
<1>. QED
  BY <1>2, <1>3, <1>4 DEF Redrawn

\* The types of the one are those of the other in another order.
LEMMA TypesShuffled ==
  ASSUME NEW g, NEW h, NEW V, HelloFor(g, V), HelloFor(h, V), OneBrowser(g, h)
  PROVE  Shuffled(Types(g), Types(h), GreaseValues)
<1>. DEFINE n == Len(g.extensions)
            s == Types(g)
            t == Types(h)
            A == {i \in 1..n : ~IsGrease(s[i])}
            B == {j \in 1..n : ~IsGrease(t[j])}
            f == [i \in A |-> CHOOSE j \in 1..n : t[j] = s[i]]
<1>0. /\ DOMAIN g.extensions = 1..n /\ DOMAIN h.extensions = 1..n
      /\ Redrawn(g.extensions, h.extensions, n)
  BY DrawnFacts
<1>1. /\ n \in Nat /\ DOMAIN s = 1..n /\ DOMAIN t = 1..n
      /\ \A i \in 1..n : s[i] = g.extensions[i].type /\ t[i] = h.extensions[i].type
  BY <1>0 DEF Types, Redrawn
<1>2. /\ \A i \in 1..n : \E j \in 1..n : SameOrGrease(s[i], t[j])
      /\ \A j \in 1..n : \E i \in 1..n : SameOrGrease(t[j], s[i])
      /\ \A i, j \in 1..n : s[i] = s[j] => i = j
      /\ \A i, j \in 1..n : t[i] = t[j] => i = j
  <2>1. /\ \A i \in 1..n : \E j \in 1..n : SameOrGrease(s[i], t[j])
        /\ \A j \in 1..n : \E i \in 1..n : SameOrGrease(t[j], s[i])
    BY <1>0, <1>1 DEF Redrawn, Covers, ExtensionsAlike
  <2>2. /\ \A i, j \in 1..n : s[i] = s[j] => i = j
        /\ \A i, j \in 1..n : t[i] = t[j] => i = j
    BY <1>0, <1>1 DEF Redrawn, Distinct
  <2>. QED
    BY <2>1, <2>2
<1>. HIDE DEF n, s, t
<1>3. ASSUME NEW i \in A PROVE f[i] \in 1..n /\ t[f[i]] = s[i] /\ f[i] \in B
  <2>1. PICK j \in 1..n : SameOrGrease(s[i], t[j])
    BY <1>2
  <2>2. t[j] = s[i]
    BY <2>1 DEF SameOrGrease
  <2>3. f[i] \in 1..n /\ t[f[i]] = s[i]
    BY <2>2
  <2>. QED
    BY <2>3
<1>4. f = [i \in A |-> f[i]]
  OBVIOUS
<1>5. \A j \in B : \E i \in A : f[i] = j
  <2>. SUFFICES ASSUME NEW j \in B PROVE \E i \in A : f[i] = j
    OBVIOUS
  <2>1. PICK i \in 1..n : SameOrGrease(t[j], s[i])
    BY <1>2
  <2>2. i \in A /\ t[j] = s[i]
    BY <2>1 DEF SameOrGrease
  <2>3. f[i] = j
    BY <1>2, <1>3, <2>2
  <2>. QED
    BY <2>2, <2>3
<1>6. \A i, j \in A : f[i] = f[j] => i = j
  <2>1. ASSUME NEW i \in A, NEW j \in A, f[i] = f[j] PROVE i = j
    <3>1. s[i] = s[j] /\ i \in 1..n /\ j \in 1..n
      BY <1>3, <2>1
    <3>. QED
      BY <1>2, <3>1
  <2>. QED
    BY <2>1
<1>. HIDE DEF f
<1>7. f \in [A -> B]
  BY <1>3, <1>4
<1>8. IsFiniteSet(1..n)
  BY <1>1, FS_Interval
<1>9. A \subseteq 1..n /\ B \subseteq 1..n
  OBVIOUS
<1>. HIDE DEF A, B
<1>10. IsFiniteSet(A) /\ IsFiniteSet(B) /\ Cardinality(A) = Cardinality(B)
  <2>1. IsFiniteSet(A)
    BY <1>8, <1>9, FS_Subset
  <2>. QED
    BY <1>5, <1>6, <1>7, <2>1, OneToOne
<1>11. ASSUME NEW X, X \subseteq 1..n
       PROVE  /\ IsFiniteSet((1..n) \ X)
              /\ Cardinality((1..n) \ X) = Cardinality(1..n) - Cardinality(X)
  <2>1. (1..n) \cap X = X
    BY <1>11
  <2>. QED
    BY <1>8, <2>1, FS_Difference
<1>12. PICK C, D : C = (1..n) \ A /\ D = (1..n) \ B
  OBVIOUS
<1>13. IsFiniteSet(C) /\ IsFiniteSet(D) /\ Cardinality(C) = Cardinality(D)
  BY <1>9, <1>10, <1>11, <1>12
<1>14. PICK e : e \in Bijection(C, D)
  BY <1>13, FS_SameCardinalityBij, Fun_ExistsBij
<1>15. /\ e \in [C -> D] /\ \A i, j \in C : e[i] = e[j] => i = j
       /\ \A j \in D : \E i \in C : e[i] = j
  BY <1>14, Fun_BijectionProperties
<1>. DEFINE p == [i \in 1..n |-> IF i \in A THEN f[i] ELSE e[i]]
<1>16. ASSUME NEW i \in 1..n
       PROVE  /\ i \in A => p[i] = f[i] /\ f[i] \in B
              /\ i \notin A => p[i] = e[i] /\ e[i] \in D /\ e[i] \notin B /\ i \in C
              /\ p[i] \in 1..n
  BY <1>7, <1>9, <1>12, <1>15
<1>17. ASSUME NEW i \in 1..n, NEW j \in 1..n, p[i] = p[j] PROVE i = j
  <2>. HIDE DEF p
  <2>1. i \in A <=> j \in A
    BY <1>16, <1>17
  <2>. QED
    BY <1>6, <1>15, <1>16, <1>17, <2>1
<1>18. ASSUME NEW j \in 1..n PROVE \E i \in 1..n : p[i] = j
  <2>1. CASE j \in B
    <3>1. PICK i \in A : f[i] = j
      BY <1>5, <2>1
    <3>. QED
      BY <1>9, <3>1
  <2>2. CASE j \notin B
    <3>1. PICK i \in C : e[i] = j
      BY <1>12, <1>15, <2>2
    <3>. QED
      BY <1>12, <3>1
  <2>. QED
    BY <2>1, <2>2
<1>19. p \in [1..n -> 1..n]
  <2>1. p = [i \in 1..n |-> p[i]]
    OBVIOUS
  <2>. HIDE DEF p
  <2>. QED
    BY <1>16, <2>1
<1>20. ASSUME NEW i \in 1..n
       PROVE  s[i] = t[p[i]] \/ (s[i] \in GreaseValues /\ t[p[i]] \in GreaseValues)
  <2>. HIDE DEF p
  <2>1. CASE i \in A
    BY <1>3, <1>16, <2>1
  <2>2. CASE i \notin A
    <3>1. p[i] \in 1..n /\ p[i] \notin B
      BY <1>16, <2>2
    <3>. QED
      BY <2>2, <3>1 DEF A, B, IsGrease
  <2>. QED
    BY <2>1, <2>2
<1>. HIDE DEF p
<1>21. Pairs(p, s, t, GreaseValues)
  BY <1>1, <1>17, <1>18, <1>19, <1>20 DEF Pairs
<1>. QED
  BY <1>21 DEF Shuffled, s, t

-----------------------------------------------------------------------------
(* The lists of two hellos of one browser                                  *)

\* Of types that only one extension has, the list is that extension's.
LEMMA SentOfOne ==
  ASSUME NEW hello, NEW V, HelloOf(hello, V), NEW types, NEW j \in 1..Len(hello.extensions),
         \A i \in 1..Len(hello.extensions) : hello.extensions[i].type \in types <=> i = j
  PROVE  Sent(hello, types) = Values(hello.extensions[j])
<1>. DEFINE n == Len(hello.extensions)
            own == Values(hello.extensions[j])
<1>1. PICK s \in [0..n -> Seq(V)] : IsSent(s, hello, types) /\ Sent(hello, types) = s[n]
  BY SentIsRun
<1>2. n \in Nat /\ own \in Seq(V)
  BY HelloFacts, ValuesAreSequences
<1>. DEFINE S == {i \in 0..n : s[i] = IF i >= j THEN own ELSE <<>>}
<1>3. 0 \in S
  BY <1>1, <1>2 DEF IsSent
<1>4. ASSUME NEW i \in 1..n, i - 1 \in S PROVE i \in S
  <2>1. s[i] = s[i - 1] \o Part(hello.extensions[i], types)
    BY <1>1 DEF IsSent
  <2>2. s[i - 1] = IF i - 1 >= j THEN own ELSE <<>>
    BY <1>4
  <2>3. <<>> \o own = own /\ own \o <<>> = own
    BY <1>2, ConcatEmptySeq
  <2>4. <<>> \o <<>> = <<>>
    <3>1. <<>> \in Seq(V)
      BY EmptySeq
    <3>. QED
      BY <3>1, ConcatEmptySeq
  <2>5. CASE i = j
    <3>1. Part(hello.extensions[i], types) = own
      BY <2>5 DEF Part
    <3>2. s[i - 1] = <<>>
      BY <2>2, <2>5
    <3>3. s[i] = own
      BY <2>1, <2>3, <3>1, <3>2
    <3>. QED
      BY <2>5, <3>3
  <2>6. CASE i # j
    <3>1. Part(hello.extensions[i], types) = <<>>
      BY <2>6 DEF Part
    <3>2. (i >= j) <=> (i - 1 >= j)
      BY <2>6
    <3>3. s[i] = IF i - 1 >= j THEN own ELSE <<>>
      BY <2>1, <2>2, <2>3, <2>4, <3>1
    <3>. HIDE DEF own
    <3>. QED
      BY <3>2, <3>3
  <2>. QED
    BY <2>5, <2>6
<1>5. 0..n \subseteq S
  <2>. HIDE DEF S, n
  <2>. QED
    BY <1>2, <1>3, <1>4, IntervalInduction
<1>6. n \in S
  BY <1>2, <1>5
<1>. QED
  BY <1>1, <1>6

LEMMA SentOfNone ==
  ASSUME NEW hello, NEW V, HelloOf(hello, V), NEW types,
         \A i \in 1..Len(hello.extensions) : hello.extensions[i].type \notin types
  PROVE  Sent(hello, types) = <<>>
<1>. DEFINE n == Len(hello.extensions)
<1>1. PICK s \in [0..n -> Seq(V)] : IsSent(s, hello, types) /\ Sent(hello, types) = s[n]
  BY SentIsRun
<1>2. n \in Nat
  BY HelloFacts
<1>. DEFINE S == {i \in 0..n : s[i] = <<>>}
<1>3. 0 \in S
  BY <1>1, <1>2 DEF IsSent
<1>4. ASSUME NEW i \in 1..n, i - 1 \in S PROVE i \in S
  <2>1. s[i] = s[i - 1] \o Part(hello.extensions[i], types)
    BY <1>1 DEF IsSent
  <2>2. Part(hello.extensions[i], types) = <<>> /\ s[i - 1] = <<>>
    BY <1>4 DEF Part
  <2>3. <<>> \o <<>> = <<>>
    <3>1. <<>> \in Seq(V)
      BY EmptySeq
    <3>. QED
      BY <3>1, ConcatEmptySeq
  <2>. QED
    BY <2>1, <2>2, <2>3
<1>5. 0..n \subseteq S
  <2>. HIDE DEF S, n
  <2>. QED
    BY <1>2, <1>3, <1>4, IntervalInduction
<1>. QED
  BY <1>1, <1>2, <1>5

\* The types of a list: one that identifies, or those of signatures.
ListTypes(types) == types = {13, 53} \/ \E type \in Identifying : types = {type}

\* Both have no list of these types, or each has one extension with it.
NoneSent(g, h, types) == Sent(g, types) = <<>> /\ Sent(h, types) = <<>>
BothSent(g, h, V, types) ==
  \E e, f :
    /\ e.type \in types /\ f.type = e.type /\ ExtensionsAlike(e, f)
    /\ IsList(e, V) /\ IsList(f, V)
    /\ Sent(g, types) = Values(e) /\ Sent(h, types) = Values(f)

LEMMA SentAlike ==
  ASSUME NEW g, NEW h, NEW V, HelloFor(g, V), HelloFor(h, V), OneBrowser(g, h),
         NEW types, ListTypes(types)
  PROVE  NoneSent(g, h, types) \/ BothSent(g, h, V, types)
<1>. DEFINE n == Len(g.extensions)
            a == g.extensions
            b == h.extensions
<1>0. Redrawn(a, b, n) /\ Len(b) = n
  BY DrawnFacts
<1>1. /\ n \in Nat /\ Len(b) = n
      /\ \A i \in 1..n : \E j \in 1..n : ExtensionsAlike(a[i], b[j])
      /\ \A i \in 1..n : \E j \in 1..n : ExtensionsAlike(b[i], a[j])
  BY <1>0 DEF Redrawn, Covers
<1>2. \A i \in 1..n : IsList(a[i], V) /\ IsList(b[i], V)
  BY <1>1, HelloFacts DEF HelloFor
<1>3. \A type \in types : ~IsGrease(type)
  BY IdentifyingIsPlain DEF ListTypes, Identifying
<1>4. HelloOf(g, V) /\ HelloOf(h, V)
  BY DEF HelloFor
<1>. HIDE DEF n, a, b
<1>5. ASSUME NEW i \in 1..n, NEW j \in 1..n PROVE
        /\ a[i].type \in types /\ a[j].type \in types => i = j
        /\ b[i].type \in types /\ b[j].type \in types => i = j
  <2>1. CASE types = {13, 53}
    BY <1>0, <2>1 DEF Redrawn, Distinct
  <2>2. CASE \E type \in Identifying : types = {type}
    BY <1>0, <2>2 DEF Redrawn, Distinct
  <2>. QED
    BY <2>1, <2>2 DEF ListTypes
<1>6. CASE \E i \in 1..n : a[i].type \in types
  <2>1. PICK i \in 1..n : a[i].type \in types
    BY <1>6
  <2>2. PICK j \in 1..n : ExtensionsAlike(a[i], b[j])
    BY <1>1
  <2>3. b[j].type = a[i].type
    BY <1>3, <2>1, <2>2 DEF ExtensionsAlike, SameOrGrease
  <2>4. \A k \in 1..n : a[k].type \in types <=> k = i
    BY <1>5, <2>1
  <2>5. \A k \in 1..n : b[k].type \in types <=> k = j
    BY <1>5, <2>1, <2>3
  <2>6. Sent(g, types) = Values(a[i])
    BY <1>4, <2>4, SentOfOne DEF n, a
  <2>7. Sent(h, types) = Values(b[j])
    BY <1>1, <1>4, <2>5, SentOfOne DEF b
  <2>. QED
    BY <1>2, <2>1, <2>2, <2>3, <2>6, <2>7 DEF BothSent
<1>7. CASE \A i \in 1..n : a[i].type \notin types
  <2>1. ASSUME NEW j \in 1..n PROVE b[j].type \notin types
    <3>1. PICK i \in 1..n : ExtensionsAlike(b[j], a[i])
      BY <1>1
    <3>. QED
      BY <1>3, <1>7, <3>1 DEF ExtensionsAlike, SameOrGrease
  <2>2. Sent(g, types) = <<>>
    BY <1>4, <1>7, SentOfNone DEF n, a
  <2>3. Sent(h, types) = <<>>
    BY <1>1, <1>4, <2>1, SentOfNone DEF b
  <2>. QED
    BY <2>2, <2>3 DEF NoneSent
<1>. QED
  BY <1>6, <1>7

LEMMA IdentifyingTypes ==
  ASSUME NEW types, ListTypes(types)
  PROVE  types \subseteq Identifying
BY DEF ListTypes, Identifying

\* What is read of the lists is the same.
LEMMA SameSent ==
  ASSUME NEW g, NEW h, NEW V, HelloFor(g, V), HelloFor(h, V), OneBrowser(g, h),
         NEW types, ListTypes(types), NEW by
  PROVE  /\ types \cap {10, 43} = {} => Sent(g, types) = Sent(h, types)
         /\ Replaced(Sent(g, types), by) = Replaced(Sent(h, types), by)
<1>1. CASE NoneSent(g, h, types)
  BY <1>1 DEF NoneSent
<1>2. CASE BothSent(g, h, V, types)
  <2>1. PICK e, f :
          /\ e.type \in types /\ f.type = e.type /\ ExtensionsAlike(e, f)
          /\ IsList(e, V) /\ IsList(f, V)
          /\ Sent(g, types) = Values(e) /\ Sent(h, types) = Values(f)
    BY <1>2 DEF BothSent
  <2>2. e.type \in Identifying
    BY <2>1, IdentifyingTypes
  <2>3. PICK m \in Nat : m = Len(e.items) /\ m = Len(f.items)
                         /\ DOMAIN e.items = 1..m /\ DOMAIN f.items = 1..m
    BY <2>1, <2>2, ListFacts DEF ExtensionsAlike
  <2>4. Values(e) = [k \in 1..m |-> e.items[k].v] /\ Values(f) = [k \in 1..m |-> f.items[k].v]
    BY <2>3 DEF Values
  <2>5. ASSUME NEW k \in 1..m
        PROVE  \/ Values(e)[k] = Values(f)[k]
               \/ e.type \in {10, 43} /\ SameOrGrease(Values(e)[k], Values(f)[k])
    <3>1. k \in DOMAIN e.items /\ Values(e)[k] = e.items[k].v /\ Values(f)[k] = f.items[k].v
      BY <2>3, <2>4
    <3>2. \/ e.items[k].v = f.items[k].v
          \/ e.type \in {10, 43} /\ SameOrGrease(e.items[k].v, f.items[k].v)
      BY <2>1, <2>2, <3>1 DEF ExtensionsAlike
    <3>. QED
      BY <3>1, <3>2
  <2>6. ASSUME types \cap {10, 43} = {} PROVE Values(e) = Values(f)
    <3>1. \A k \in 1..m : e.items[k].v = f.items[k].v
      BY <2>1, <2>4, <2>5, <2>6
    <3>. QED
      BY <2>4, <3>1
  <2>7. Replaced(Values(e), by) = Replaced(Values(f), by)
    <3>1. DOMAIN Values(e) = 1..m /\ DOMAIN Values(f) = 1..m
      BY <2>4
    <3>2. ASSUME NEW k \in 1..m
          PROVE  (IF IsGrease(Values(e)[k]) THEN by ELSE Values(e)[k])
                   = IF IsGrease(Values(f)[k]) THEN by ELSE Values(f)[k]
      BY <2>5 DEF SameOrGrease
    <3>. QED
      BY <3>1, <3>2 DEF Replaced
  <2>. QED
    BY <2>1, <2>6, <2>7
<1>. QED
  BY <1>1, <1>2, SentAlike

\* The modes are the same.
LEMMA SameMode ==
  ASSUME NEW g, NEW h, NEW V, HelloFor(g, V), HelloFor(h, V), OneBrowser(g, h),
         NEW m, NEW k, IsMode(m, g), IsMode(k, h)
  PROVE  m = k
<1>. DEFINE n == Len(g.extensions)
            a == g.extensions
            b == h.extensions
            Has(ext) == ext.type = 45 /\ Len(ext.items) # 0
<1>0. Redrawn(a, b, n) /\ Len(b) = n
  BY DrawnFacts
<1>1. /\ n \in Nat /\ Len(b) = n
      /\ \A i \in 1..n : \E j \in 1..n : ExtensionsAlike(a[i], b[j])
      /\ \A i \in 1..n : \E j \in 1..n : ExtensionsAlike(b[i], a[j])
      /\ \A i, j \in 1..n : b[i].type = b[j].type => i = j
  BY <1>0 DEF Redrawn, Covers, Distinct
<1>2. \A i \in 1..n : IsList(a[i], V) /\ IsList(b[i], V)
  BY <1>1, HelloFacts DEF HelloFor
<1>3. ASSUME NEW e, NEW f, IsList(e, V), IsList(f, V), ExtensionsAlike(e, f), Has(e)
      PROVE  Has(f) /\ f.items[1].v = e.items[1].v
  <2>1. ~IsGrease(45) /\ 45 \in Identifying
    BY IdentifyingIsPlain DEF Identifying
  <2>2. f.type = 45 /\ Len(f.items) = Len(e.items)
    BY <1>3, <2>1 DEF ExtensionsAlike, SameOrGrease
  <2>3. 1 \in DOMAIN e.items
    BY <1>3, ListFacts
  <2>. QED
    BY <1>3, <2>1, <2>2, <2>3 DEF ExtensionsAlike
<1>4. \/ m = 0 /\ \A i \in 1..n : ~Has(a[i])
      \/ \E i \in 1..n : Has(a[i]) /\ m = a[i].items[1].v
  BY DEF IsMode
<1>5. \/ k = 0 /\ \A i \in 1..n : ~Has(b[i])
      \/ \E i \in 1..n : Has(b[i]) /\ k = b[i].items[1].v
  BY <1>1 DEF IsMode
<1>6. \A i, j \in 1..n : Has(b[i]) /\ Has(b[j]) => i = j
  BY <1>1
<1>. HIDE DEF n, a, b, Has
<1>7. CASE \E i \in 1..n : Has(a[i]) /\ m = a[i].items[1].v
  <2>1. PICK i \in 1..n : Has(a[i]) /\ m = a[i].items[1].v
    BY <1>7
  <2>2. PICK j \in 1..n : ExtensionsAlike(a[i], b[j])
    BY <1>1
  <2>3. Has(b[j]) /\ b[j].items[1].v = m
    BY <1>2, <1>3, <2>1, <2>2
  <2>. QED
    BY <1>5, <1>6, <2>3
<1>8. CASE m = 0 /\ \A i \in 1..n : ~Has(a[i])
  <2>1. ASSUME NEW j \in 1..n PROVE ~Has(b[j])
    <3>1. PICK i \in 1..n : ExtensionsAlike(b[j], a[i])
      BY <1>1
    <3>. QED
      BY <1>2, <1>3, <1>8, <3>1
  <2>. QED
    BY <1>5, <1>8, <2>1
<1>. QED
  BY <1>4, <1>7, <1>8

-----------------------------------------------------------------------------
(* The records of two connections of one browser                            *)

LEMMA MarkedShuffled ==
  ASSUME NEW s, NEW t, Shuffled(s, t, GreaseValues)
  PROVE  Shuffled(Marked(s), Marked(t), {})
<1>1. PICK p : Pairs(p, s, t, GreaseValues)
  BY DEF Shuffled
<1>2. PICK x, y : x = Marked(s) /\ y = Marked(t)
  OBVIOUS
<1>3. /\ DOMAIN x = DOMAIN s /\ DOMAIN y = DOMAIN t
      /\ \A i \in DOMAIN s : x[i] = IF s[i] \in GreaseValues THEN GREASE ELSE s[i]
      /\ \A j \in DOMAIN t : y[j] = IF t[j] \in GreaseValues THEN GREASE ELSE t[j]
  BY <1>2 DEF Marked, Replaced, IsGrease
<1>4. \A i \in DOMAIN s : x[i] = y[p[i]]
  BY <1>1, <1>3 DEF Pairs
<1>5. Pairs(p, x, y, {})
  BY <1>1, <1>3, <1>4 DEF Pairs
<1>. QED
  BY <1>2, <1>5 DEF Shuffled

LEMMA MarkedSame ==
  ASSUME NEW s, NEW t, DOMAIN s = DOMAIN t, \A k \in DOMAIN s : SameOrGrease(s[k], t[k])
  PROVE  Marked(s) = Marked(t)
<1>1. \A k \in DOMAIN s : (IF IsGrease(s[k]) THEN GREASE ELSE s[k])
                            = IF IsGrease(t[k]) THEN GREASE ELSE t[k]
  BY DEF SameOrGrease
<1>. QED
  BY <1>1 DEF Marked, Replaced

LEMMA SplitShuffled ==
  ASSUME NEW V, 0 \in V, NEW s \in Seq(V), NEW t \in Seq(V), Shuffled(s, t, {})
  PROVE  /\ Split(s) \in Seq(V) /\ Split(t) \in Seq(V)
         /\ Shuffled(Split(s), Split(t), {})
<1>1. Len(s) = Len(t)
  BY ShuffledLength
<1>2. s = <<>> <=> t = <<>>
  BY <1>1, EmptySeq
<1>3. CASE s = <<>>
  <2>1. Split(s) = <<0>> /\ Split(t) = <<0>>
    BY <1>2, <1>3 DEF Split
  <2>2. Pairs([i \in {1} |-> 1], <<0>>, <<0>>, {})
    BY DEF Pairs
  <2>3. <<0>> \in Seq(V)
    OBVIOUS
  <2>. QED
    BY <2>1, <2>2, <2>3 DEF Shuffled
<1>4. CASE s # <<>>
  BY <1>2, <1>4 DEF Split
<1>. QED
  BY <1>3, <1>4

LEMMA TypesHaveValues ==
  ASSUME NEW g, NEW h, NEW V, HelloFor(g, V), HelloFor(h, V)
  PROVE  \E U : 0 \in U /\ GREASE \in U /\ Types(g) \in Seq(U) /\ Types(h) \in Seq(U)
<1>1. ASSUME NEW hello, HelloFor(hello, V), NEW U,
             \A i \in DOMAIN Types(hello) : Types(hello)[i] \in U
      PROVE  Types(hello) \in Seq(U)
  <2>1. /\ Len(hello.extensions) \in Nat /\ DOMAIN hello.extensions = 1..Len(hello.extensions)
    BY <1>1, HelloFacts DEF HelloFor
  <2>2. \A i \in 1..Len(hello.extensions) : hello.extensions[i].type \in U
    BY <1>1, <2>1 DEF Types
  <2>3. Types(hello) = [i \in 1..Len(hello.extensions) |-> hello.extensions[i].type]
    BY <2>1 DEF Types
  <2>4. Types(hello) \in [1..Len(hello.extensions) -> U]
    BY <2>2, <2>3
  <2>. QED
    BY <2>1, <2>4, SeqDef
<1>. DEFINE U == {0, GREASE} \cup {Types(g)[i] : i \in DOMAIN Types(g)}
                             \cup {Types(h)[i] : i \in DOMAIN Types(h)}
<1>2. /\ 0 \in U /\ GREASE \in U
      /\ \A i \in DOMAIN Types(g) : Types(g)[i] \in U
      /\ \A i \in DOMAIN Types(h) : Types(h)[i] \in U
  OBVIOUS
<1>. HIDE DEF U
<1>3. Types(g) \in Seq(U) /\ Types(h) \in Seq(U)
  BY <1>1, <1>2
<1>. QED
  BY <1>2, <1>3

\* What the two have in common once they are parsed.
ParsedAlike(a, b) ==
  /\ a.Version = b.Version
  /\ a.SupportedCurves = b.SupportedCurves /\ a.SupportedPoints = b.SupportedPoints
  /\ a.SignatureAlgorithms = b.SignatureAlgorithms
  /\ a.SupportedProtocols = b.SupportedProtocols
  /\ a.CertCompressionAlgorithms = b.CertCompressionAlgorithms
  /\ a.SupportedTLSVersions = b.SupportedTLSVersions
  /\ a.PSKKeyExchangeMode = b.PSKKeyExchangeMode
  /\ Plain(a.CipherSuites) = Plain(b.CipherSuites)
  /\ Marked(a.CipherSuites) = Marked(b.CipherSuites)
  /\ Sorted(Marked(a.AllExtensions)) = Sorted(Marked(b.AllExtensions))
  /\ \E U : /\ 0 \in U
            /\ Plain(a.AllExtensions) \in Seq(U) /\ Plain(b.AllExtensions) \in Seq(U)
            /\ Shuffled(Plain(a.AllExtensions), Plain(b.AllExtensions), {})

LEMMA HellosParsedAlike ==
  ASSUME NEW g, NEW h, NEW V, HelloFor(g, V), HelloFor(h, V), OneBrowser(g, h),
         NEW a, NEW b, IsParsed(a, g), IsParsed(b, h)
  PROVE  ParsedAlike(a, b)
<1>1. a.Version = b.Version
  BY DEF IsParsed, OneBrowser, DrawnAnew
<1>2. ListTypes({10}) /\ ListTypes({11}) /\ ListTypes({13, 53}) /\ ListTypes({16})
      /\ ListTypes({27}) /\ ListTypes({43})
  BY DEF ListTypes, Identifying
<1>3. a.SupportedCurves = b.SupportedCurves
  BY <1>2, SameSent DEF IsParsed
<1>4. a.SupportedTLSVersions = b.SupportedTLSVersions
  BY <1>2, SameSent DEF IsParsed
<1>5. ASSUME NEW types, ListTypes(types), types \cap {10, 43} = {}
      PROVE  Sent(g, types) = Sent(h, types)
  BY <1>5, SameSent
<1>6. /\ Sent(g, {11}) = Sent(h, {11}) /\ Sent(g, {13, 53}) = Sent(h, {13, 53})
      /\ Sent(g, {16}) = Sent(h, {16}) /\ Sent(g, {27}) = Sent(h, {27})
  <2>1. /\ {11} \cap {10, 43} = {} /\ {13, 53} \cap {10, 43} = {}
        /\ {16} \cap {10, 43} = {} /\ {27} \cap {10, 43} = {}
    OBVIOUS
  <2>. QED
    BY <1>2, <1>5, <2>1
<1>7. /\ a.SupportedPoints = b.SupportedPoints /\ a.SignatureAlgorithms = b.SignatureAlgorithms
      /\ a.SupportedProtocols = b.SupportedProtocols
      /\ a.CertCompressionAlgorithms = b.CertCompressionAlgorithms
  BY <1>6 DEF IsParsed
<1>8. a.PSKKeyExchangeMode = b.PSKKeyExchangeMode
  <2>1. IsMode(a.PSKKeyExchangeMode, g) /\ IsMode(b.PSKKeyExchangeMode, h)
    BY DEF IsParsed
  <2>. QED
    BY <2>1, SameMode
<1>9. /\ Plain(a.CipherSuites) = Plain(b.CipherSuites)
      /\ Marked(a.CipherSuites) = Marked(b.CipherSuites)
  <2>1. PICK s, t : s = g.ciphers /\ t = h.ciphers
    OBVIOUS
  <2>2. s \in Seq(V) /\ t \in Seq(V) /\ Len(s) = Len(t)
        /\ \A k \in DOMAIN s : SameOrGrease(s[k], t[k])
    BY <2>1 DEF HelloFor, OneBrowser, DrawnAnew
  <2>3. DOMAIN s = 1..Len(s) /\ DOMAIN t = DOMAIN s
    BY <2>2, LenProperties
  <2>4. \A k \in 1..Len(s) : s[k] = t[k] \/ (s[k] \in GreaseValues /\ t[k] \in GreaseValues)
    BY <2>2, <2>3 DEF SameOrGrease, IsGrease
  <2>5. Without(s, GreaseValues) = Without(t, GreaseValues)
    BY <2>2, <2>4, WithoutSame
  <2>6. Marked(s) = Marked(t)
    BY <2>2, <2>3, MarkedSame
  <2>. QED
    BY <2>1, <2>5, <2>6 DEF IsParsed, Plain
<1>10. PICK U : 0 \in U /\ GREASE \in U /\ Types(g) \in Seq(U) /\ Types(h) \in Seq(U)
  BY TypesHaveValues
<1>11. Shuffled(Types(g), Types(h), GreaseValues)
  BY TypesShuffled
<1>12. Sorted(Marked(a.AllExtensions)) = Sorted(Marked(b.AllExtensions))
  <2>1. Marked(Types(g)) \in Seq(U) /\ Marked(Types(h)) \in Seq(U)
    BY <1>10, ReplacedIsSequence DEF Marked
  <2>2. Sorted(Marked(Types(g))) = Sorted(Marked(Types(h)))
    BY <1>11, <2>1, MarkedShuffled, ShuffledSorted
  <2>. QED
    BY <2>2 DEF IsParsed
<1>13. /\ Plain(Types(g)) \in Seq(U) /\ Plain(Types(h)) \in Seq(U)
       /\ Shuffled(Plain(Types(g)), Plain(Types(h)), {})
  BY <1>10, <1>11, WithoutPlaces, ShuffledWithout DEF Plain
<1>14. a.AllExtensions = Types(g) /\ b.AllExtensions = Types(h)
  BY DEF IsParsed
<1>. QED
  BY <1>1, <1>3, <1>4, <1>7, <1>8, <1>9, <1>10, <1>12, <1>13, <1>14 DEF ParsedAlike

\* PeetPrint is the same, and JA3 but for the order of the extensions.
LEMMA SamePrints ==
  ASSUME NEW a, NEW b, ParsedAlike(a, b)
  PROVE  /\ CalculatePeetPrint(a) = CalculatePeetPrint(b)
         /\ CalculateJA3(a) = CalculateJA3(b)
              <=> Plain(a.AllExtensions) = Plain(b.AllExtensions)
         /\ CalculateJA3(a).ciphers = CalculateJA3(b).ciphers
<1>1. CalculatePeetPrint(a) = CalculatePeetPrint(b)
  BY Zenon DEF ParsedAlike, CalculatePeetPrint
<1>2. PICK p, q : p = Plain(a.AllExtensions) /\ q = Plain(b.AllExtensions)
  OBVIOUS
<1>3. PICK v, cs, curves, points :
        /\ v = a.Version /\ v = b.Version
        /\ cs = Plain(a.CipherSuites) /\ cs = Plain(b.CipherSuites)
        /\ curves = PlainCurves(a.SupportedCurves) /\ curves = PlainCurves(b.SupportedCurves)
        /\ points = a.SupportedPoints /\ points = b.SupportedPoints
  BY DEF ParsedAlike
<1>4. /\ CalculateJA3(a) = [version |-> v, ciphers |-> cs, extensions |-> p, curves |-> curves,
                            points |-> points]
      /\ CalculateJA3(b) = [version |-> v, ciphers |-> cs, extensions |-> q, curves |-> curves,
                            points |-> points]
  BY <1>2, <1>3 DEF CalculateJA3
<1>. QED
  BY <1>1, <1>2, <1>4

\* And so is JA4.
LEMMA SameJa4 ==
  ASSUME NEW a, NEW b, ParsedAlike(a, b), NEW d, NEW e,
         d.JA3 = CalculateJA3(a), e.JA3 = CalculateJA3(b),
         d.PeetPrint = CalculatePeetPrint(a), e.PeetPrint = CalculatePeetPrint(b),
         d.NegotiatedVersion = e.NegotiatedVersion
  PROVE  CalculateJa4(d) = CalculateJa4(e)
<1>1. d.PeetPrint = e.PeetPrint /\ d.JA3.ciphers = e.JA3.ciphers
  BY SamePrints
<1>2. PICK p, q : p = Plain(a.AllExtensions) /\ q = Plain(b.AllExtensions)
  OBVIOUS
<1>3. d.JA3.extensions = p /\ e.JA3.extensions = q
  BY <1>2 DEF CalculateJA3
<1>4. PICK U : 0 \in U /\ p \in Seq(U) /\ q \in Seq(U) /\ Shuffled(p, q, {})
  BY <1>2 DEF ParsedAlike
<1>5. PICK s, t : s = Split(p) /\ t = Split(q)
  OBVIOUS
<1>6. s \in Seq(U) /\ t \in Seq(U) /\ Shuffled(s, t, {})
  BY <1>4, <1>5, SplitShuffled
<1>7. Len(s) = Len(t)
  BY <1>6, ShuffledLength
<1>8. ASSUME NEW S PROVE Sorted(Without(s, S)) = Sorted(Without(t, S))
  <2>1. PICK r : Pairs(r, s, t, {})
    BY <1>6 DEF Shuffled
  <2>2. Shuffled(s, t, S)
    BY <2>1 DEF Shuffled, Pairs
  <2>3. /\ Without(s, S) \in Seq(U) /\ Without(t, S) \in Seq(U)
        /\ Shuffled(Without(s, S), Without(t, S), {})
    BY <1>6, <2>2, WithoutPlaces, ShuffledWithout
  <2>. QED
    BY <2>3, ShuffledSorted
<1>9. ja4a(d) = ja4a(e)
  BY <1>1, <1>3, <1>5, <1>7 DEF ja4a
<1>10. ja4c(d) = ja4c(e)
  BY <1>1, <1>3, <1>5, <1>8, Zenon DEF ja4c
<1>. QED
  BY <1>1, <1>9, <1>10 DEF CalculateJa4

\* The types that a connection shows.
ShownTypes(d) == [i \in DOMAIN d.Extensions |-> d.Extensions[i].type]

LEMMA TypesAreShown ==
  ASSUME NEW hello, NEW ch, IsParsed(ch, hello), NEW d, d.Extensions = ch.Extensions
  PROVE  ShownTypes(d) = ch.AllExtensions
<1>1. d.Extensions = [i \in DOMAIN hello.extensions |->
                        Extension(hello.extensions[i].type, Shown(hello.extensions[i]))]
  BY DEF IsParsed, ShownOf
<1>2. /\ DOMAIN d.Extensions = DOMAIN hello.extensions
      /\ \A i \in DOMAIN hello.extensions : d.Extensions[i].type = hello.extensions[i].type
  BY <1>1 DEF Extension
<1>. QED
  BY <1>2 DEF ShownTypes, IsParsed, Types

SameRecord(d, e) ==
  /\ d.JA4 = e.JA4 /\ d.PeetPrint = e.PeetPrint
  /\ d.JA3 = e.JA3 <=> Plain(ShownTypes(d)) = Plain(ShownTypes(e))

LEMMA RecordsAlike ==
  ASSUME NEW g, NEW h, NEW negotiated, IsHello(g), IsHello(h), OneBrowser(g, h),
         NEW x, x = TLSDetails(g, negotiated), NEW y, y = TLSDetails(h, negotiated),
         NEW d, d = Relabelled(x, CalculateJa4(x)), NEW e, e = Relabelled(y, CalculateJa4(y))
  PROVE  SameRecord(d, e)
<1>1. PICK a, b : a = ParseClientHello(g) /\ b = ParseClientHello(h)
  OBVIOUS
<1>2. g.version = h.version
  BY DEF OneBrowser, DrawnAnew
<1>3. CASE ~Supported(g)
  <2>1. a = b
    BY <1>1, <1>2, <1>3 DEF ParseClientHello, Supported
  <2>2. x = y
    BY <1>1, <2>1 DEF TLSDetails
  <2>. QED
    BY <2>2 DEF SameRecord
<1>4. CASE Supported(g)
  <2>1. Supported(h)
    BY <1>2, <1>4 DEF Supported
  <2>2. PICK V : HelloFor(g, V) /\ HelloFor(h, V)
    BY HellosHaveValues DEF OneBrowser, DrawnAnew
  <2>3. IsParsed(a, g) /\ IsParsed(b, h)
    BY <1>1, <1>4, <2>1, <2>2, ParsedFields DEF HelloFor
  <2>4. ParsedAlike(a, b)
    BY <2>2, <2>3, HellosParsedAlike
  <2>5. /\ d.JA3 = CalculateJA3(a) /\ x.JA3 = CalculateJA3(a)
        /\ d.PeetPrint = CalculatePeetPrint(a) /\ x.PeetPrint = CalculatePeetPrint(a)
        /\ x.NegotiatedVersion = negotiated /\ d.Extensions = a.Extensions
        /\ d.JA4 = CalculateJa4(x)
    BY <1>1, DetailsFields
  <2>6. /\ e.JA3 = CalculateJA3(b) /\ y.JA3 = CalculateJA3(b)
        /\ e.PeetPrint = CalculatePeetPrint(b) /\ y.PeetPrint = CalculatePeetPrint(b)
        /\ y.NegotiatedVersion = negotiated /\ e.Extensions = b.Extensions
        /\ e.JA4 = CalculateJa4(y)
    BY <1>1, DetailsFields
  <2>7. d.JA4 = e.JA4
    BY <2>4, <2>5, <2>6, SameJa4
  <2>8. /\ d.PeetPrint = e.PeetPrint
        /\ d.JA3 = e.JA3 <=> Plain(a.AllExtensions) = Plain(b.AllExtensions)
    BY <2>4, <2>5, <2>6, SamePrints
  <2>9. ShownTypes(d) = a.AllExtensions /\ ShownTypes(e) = b.AllExtensions
    BY <2>3, <2>5, <2>6, TypesAreShown
  <2>. QED
    BY <2>7, <2>8, <2>9 DEF SameRecord
<1>. QED
  BY <1>3, <1>4

(***************************************************************************)
(* Two connections of one browser, with any extensions in any order and    *)
(* any GREASE values among them, have one PeetPrint and one JA4, in which  *)
(* CalculatePeetPrint and CalculateJa4 sort the extensions; and they have  *)
(* one JA3, in which CalculateJA3 does not, just when the order was the    *)
(* same but for GREASE.                                                    *)
(***************************************************************************)
THEOREM BrowsersAreOneRecord == Spec => []SameBrowserSameRecord
<1>1. DetailsInv => SameBrowserSameRecord
  <2>. SUFFICES ASSUME DetailsInv, NEW c \in Connections, NEW d \in Connections,
                       Routed(c), Routed(d), Protocol(c) # Http3, Protocol(d) # Http3,
                       Client(c).browser = Client(d).browser
                PROVE  SameRecord(tls[c], tls[d])
    BY DEF SameBrowserSameRecord, SameRecord, ShownTypes
  <2>1. CASE c = d
    BY <2>1 DEF SameRecord
  <2>2. CASE c # d
    <3>1. PICK g, h, negotiated :
            /\ g = Client(c).hello /\ h = Client(d).hello
            /\ negotiated = Client(c).negotiated /\ negotiated = Client(d).negotiated
            /\ OneBrowser(g, h)
      <4>1. scenario \in Scenarios
        BY DEF DetailsInv
      <4>2. ASSUME NEW i \in Connections, NEW j \in Connections, i # j,
                   Client(i).browser = Client(j).browser
            PROVE  /\ Client(i).negotiated = Client(j).negotiated
                   /\ DrawnAnew(Client(i).hello, Client(j).hello)
        BY <4>1, <4>2, BrowserAssumption DEF BrowserAssumption, Client
      <4>3. OneBrowser(Client(c).hello, Client(d).hello)
        BY <2>2, <4>2 DEF OneBrowser
      <4>4. Client(c).negotiated = Client(d).negotiated
        BY <2>2, <4>2
      <4>. QED
        BY <4>3, <4>4
    <3>2. IsHello(g) /\ IsHello(h)
      BY <3>1, HelloAssumption DEF HelloAssumption, DetailsInv, Client
    <3>3. PICK x, y : x = TLSDetails(g, negotiated) /\ y = TLSDetails(h, negotiated)
      OBVIOUS
    <3>4. /\ tls[c] = Relabelled(x, CalculateJa4(x))
          /\ tls[d] = Relabelled(y, CalculateJa4(y))
      BY <3>1, <3>3 DEF DetailsInv, Handshaken, Details
    <3>. QED
      BY <3>1, <3>2, <3>3, <3>4, RecordsAlike
  <2>. QED
    BY <2>1, <2>2
<1>. QED
  BY <1>1, DetailsKept, PTL
=============================================================================
