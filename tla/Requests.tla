-------------------------------- MODULE Requests --------------------------------
(***************************************************************************)
(* A request's way through the server: the sniffer that keeps the last TCP *)
(* packet of each address, the entry that parses and fingerprints the      *)
(* ClientHello, the Router that looks the packet up, replaces JA4 and logs *)
(* the request, the handler and the answer; and what the search routes     *)
(* find in the log.                                                        *)
(*                                                                         *)
(* Two connections run at once, each with its requests one after another.  *)
(* What their clients do is a scenario: [clients, config, req, protocols], *)
(* with for each connection its client [browser, hello, negotiated, addr,  *)
(* agent, spaced, akamai] and its protocol, and one request that both      *)
(* send.  An address is [ip, port, v6].  A user agent is a text of words   *)
(* and of what its readers take for separators or escapes: ":", ": ", "+"  *)
(* and "%20"; "spaced" is whether the client writes a space after the      *)
(* colon of a header.                                                      *)
(***************************************************************************)
EXTENDS TlsFingerprint, Routes

CONSTANTS
  Scenarios,
  Top           \* COUNT, 10 in the code: the most a search tells of each kind

ASSUME RequestsAssumption == Top \in Nat \ {0}

Connections == {1, 2}

\* An IP address is of one family.
ASSUME AddressAssumption ==
  \A s \in Scenarios : \A c, d \in Connections :
    LET a == s.clients[c].addr
        b == s.clients[d].addr
    IN a.ip = b.ip /\ a.port = b.port => a = b

\* A request has the fields of Routes, and its query one text for each name.
ASSUME RequestAssumption ==
  \A s \in Scenarios :
    s.req = [method |-> s.req.method, path |-> s.req.path, query |-> s.req.query,
             cookies |-> s.req.cookies, data |-> s.req.data, key |-> s.req.key]

IsText(text) == text \in Seq(ToSet(text))

ASSUME QueryAssumption ==
  \A s \in Scenarios :
    LET query == s.req.query IN
      /\ query \in Seq(ToSet(query))
      /\ \A i \in DOMAIN query : query[i] = <<query[i][1], query[i][2]>> /\ IsText(query[i][2])
      /\ \A i, j \in DOMAIN query : query[i][1] = query[j][1] => i = j

ASSUME AgentAssumption ==
  \A s \in Scenarios : \A c \in Connections : IsText(s.clients[c].agent)

ASSUME ProtocolAssumption ==
  \A s \in Scenarios : \A c \in Connections : s.protocols[c] \in {Http1, Http2, Http3}

ASSUME HelloAssumption ==
  \A s \in Scenarios : \A c \in Connections : IsHello(s.clients[c].hello)

\* A browser draws the order of its extensions and its GREASE values anew for
\* each connection: the one hello has for each extension of the other its like,
\* none twice, with the same in the lists that identify a client, and each as
\* long as it says.  (Both 13 and 53, which the parser files in one list, no
\* browser sends.)
Identifying == {10, 11, 13, 53, 16, 27, 43, 45}

SameOrGrease(v, w) == v = w \/ (IsGrease(v) /\ IsGrease(w))

ExtensionsAlike(ext, other) ==
  /\ SameOrGrease(ext.type, other.type)
  /\ ext.type \in Identifying =>
       /\ Len(ext.items) = Len(other.items)
       /\ \A k \in DOMAIN ext.items :
            \/ ext.items[k].v = other.items[k].v
            \/ ext.type \in {10, 43} /\ SameOrGrease(ext.items[k].v, other.items[k].v)

DrawnAnew(hello, other) ==
  /\ AllWellFormed(hello)
  /\ hello.version = other.version
  /\ Len(hello.ciphers) = Len(other.ciphers)
  /\ \A k \in DOMAIN hello.ciphers : SameOrGrease(hello.ciphers[k], other.ciphers[k])
  /\ Len(hello.extensions) = Len(other.extensions)
  /\ \A i \in DOMAIN hello.extensions :
       \E j \in DOMAIN other.extensions :
         ExtensionsAlike(hello.extensions[i], other.extensions[j])
  /\ \A i, j \in DOMAIN hello.extensions :
       /\ Types(hello)[i] = Types(hello)[j] => i = j
       /\ {Types(hello)[i], Types(hello)[j]} # {13, 53}

ASSUME BrowserAssumption ==
  \A s \in Scenarios : \A c, d \in Connections :
    LET a == s.clients[c]
        b == s.clients[d]
    IN c # d /\ a.browser = b.browser =>
         a.negotiated = b.negotiated /\ DrawnAnew(a.hello, b.hello)

VARIABLES
  scenario,         \* what the clients do: constant
  up,               \* the process runs
  phase,            \* per connection how far its request is
  req,              \* the request it has
  read,             \* of its headers: the user agent, JA4H, and that no other
                    \* request of the connection has written its JA4H there
  wire,             \* packets on their way to the sniffer: connection and ACK
  TCPFingerprints,  \* per key the connection whose packet was stored last
  stored,           \* history: the connections some packet of which was stored
  tls,              \* TLSDetails, of those that have them
  tcp,              \* TCPIP in the answer: whose packet; 0 for none
  had,              \* history: its own packet was stored at the lookup
  collection,       \* the log
  logged,           \* history: its last request is in the log
  answer,           \* the last answer
  hops              \* history: the redirects followed

sniffVars == <<wire, TCPFingerprints, stored>>
tcpVars == <<tcp, had>>
logVars == <<collection, logged>>
vars == <<scenario, up, phase, req, read, sniffVars, tls, tcpVars, logVars, answer, hops>>

Client(c) == scenario.clients[c]
Protocol(c) == scenario.protocols[c]
Config == scenario.config
NoAnswer == <<>>
NoTLS == <<>>

Init ==
  /\ scenario \in Scenarios
  /\ up = TRUE
  /\ phase = [c \in Connections |-> "new"]
  /\ req = [c \in Connections |-> scenario.req]
  /\ read = [c \in Connections |-> [agent |-> <<>>, ja4h |-> <<>>, alone |-> TRUE]]
  /\ wire = <<>> /\ TCPFingerprints = <<>> /\ stored = {}
  /\ tls = [c \in Connections |-> NoTLS]
  /\ tcp = [c \in Connections |-> 0] /\ had = [c \in Connections |-> FALSE]
  /\ collection = <<>> /\ logged = [c \in Connections |-> FALSE]
  /\ answer = [c \in Connections |-> NoAnswer]
  /\ hops = [c \in Connections |-> 0]

At(c, p) == up /\ phase[c] = p
Moves(c, p) == phase' = [phase EXCEPT ![c] = p]

-----------------------------------------------------------------------------
(* The network and the sniffer                                             *)

\* A port is free again when its connection is closed; QUIC has ports of its
\* own.  The sniffer is started for a Device only.
Connect(c) ==
  /\ At(c, "new")
  /\ \A d \in Connections \ {c} :
       Client(d).addr = Client(c).addr /\ Http3 \notin {Protocol(c), Protocol(d)}
         => phase[d] \in {"new", "closed"}
  /\ wire' = IF Protocol(c) = Http3 \/ ~Config.Device THEN wire
             ELSE wire \o <<[of |-> c, ack |-> FALSE], [of |-> c, ack |-> TRUE]>>
  /\ Moves(c, "open")
  /\ UNCHANGED <<scenario, up, req, read, TCPFingerprints, stored, tls, tcpVars, logVars, answer,
                 hops>>

\* Mutant: the key is the address without its port.
Source_NoPort(addr) == <<addr.ip, 0, "plain">>

\* The key that SniffTCP stores by, and the address that net.Conn has: of
\* IPv6, which is in brackets there, they differ.
Source(addr) == <<addr.ip, addr.port, "plain">>
RemoteAddr(addr) == <<addr.ip, addr.port, IF addr.v6 THEN "brackets" ELSE "plain">>

Store(key, c) ==
  [k \in DOMAIN TCPFingerprints \cup {key} |-> IF k = key THEN c ELSE TCPFingerprints[k]]

\* A SYN is passed over.
Sniff ==
  /\ up /\ wire # <<>>
  /\ LET packet == Head(wire) IN
       IF packet.ack
       THEN /\ TCPFingerprints' = Store(Source(Client(packet.of).addr), packet.of)
            /\ stored' = stored \cup {packet.of}
       ELSE UNCHANGED <<TCPFingerprints, stored>>
  /\ wire' = Tail(wire)
  /\ UNCHANGED <<scenario, up, phase, req, read, tls, tcpVars, logVars, answer, hops>>

\* The capture drops a packet when it has no room.
LosePacket ==
  /\ up /\ wire # <<>>
  /\ wire' = Tail(wire)
  /\ UNCHANGED <<scenario, up, phase, req, read, TCPFingerprints, stored, tls, tcpVars, logVars,
                 answer, hops>>

-----------------------------------------------------------------------------
(* The entry                                                               *)

JA4H(c) == [method |-> req[c].method, version |-> Protocol(c)]

Reads(c, agent) ==
  read' = [read EXCEPT ![c] = [agent |-> agent, ja4h |-> JA4H(c), alone |-> TRUE]]

\* A panic of the parser is in a goroutine without recover: the process ends.
HandleTLSConnection(c) ==
  /\ At(c, "open") /\ Protocol(c) # Http3
  /\ IF ParsePanics(Client(c).hello)
     THEN up' = FALSE /\ UNCHANGED <<phase, read, tls>>
     ELSE /\ tls' = [tls EXCEPT ![c] = TLSDetails(Client(c).hello, Client(c).negotiated)]
          /\ Reads(c, Client(c).agent) /\ Moves(c, "received") /\ UNCHANGED up
  /\ UNCHANGED <<scenario, req, sniffVars, tcpVars, logVars, answer, hops>>

AcceptHTTP3(c) ==
  /\ At(c, "open") /\ Protocol(c) = Http3
  /\ Reads(c, Client(c).agent) /\ Moves(c, "received")
  /\ UNCHANGED <<scenario, up, req, sniffVars, tls, tcpVars, logVars, answer, hops>>

\* Another request at once over HTTP/2 puts its JA4H into the TLSDetails that
\* the requests of a connection share; of that request only this is modelled.
Overlap(c) ==
  /\ up /\ phase[c] \in {"received", "routed", "saved"} /\ Protocol(c) = Http2
  /\ read[c].alone
  /\ read' = [read EXCEPT ![c] = [agent |-> read[c].agent, alone |-> FALSE,
                                  ja4h |-> [method |-> "another", version |-> Http2]]]
  /\ UNCHANGED <<scenario, up, phase, req, sniffVars, tls, tcpVars, logVars, answer, hops>>

-----------------------------------------------------------------------------
(* The Router                                                              *)

Skipped(c) == Protocol(c) = Http1 /\ req[c].method = "OPTIONS"

\* The lookup by the remote address, and the JA4 of the handshake replaced.
Router(c) ==
  /\ At(c, "received") /\ ~Skipped(c)
  /\ LET key == RemoteAddr(Client(c).addr) IN
       tcp' = [tcp EXCEPT ![c] = IF key \in DOMAIN TCPFingerprints
                                 THEN TCPFingerprints[key] ELSE 0]
  /\ had' = [had EXCEPT ![c] = c \in stored]
  /\ tls' = IF tls[c] = NoTLS THEN tls ELSE [tls EXCEPT ![c].JA4 = CalculateJa4(tls[c])]
  /\ Moves(c, "routed")
  /\ UNCHANGED <<scenario, up, req, read, sniffVars, logVars, answer, hops>>

\* By the path as it was sent, or as HTTP/3 has it.
IsFavicon(c) ==
  LET path == req[c].path IN
    /\ path.route = "/favicon.ico" /\ ~path.more
    /\ Protocol(c) = Http3 \/ (path.escaped = {} /\ req[c].query = <<>>)

Logs(c) == Config.LogToDB /\ Config.connected /\ ~IsFavicon(c)

\* Mutant: the version of HTTP/2 is called HTTP/2.0.
LoggedH2_Named(c) ==
  CASE Protocol(c) = "HTTP/2.0" -> Client(c).akamai
    [] Protocol(c) = "http/1.1" -> "-"
    [] OTHER -> ""

\* HTTP/1 says HTTP/1.1 of itself, never http/1.1.
LoggedH2(c) ==
  CASE Protocol(c) = Http2 -> Client(c).akamai
    [] Protocol(c) = "http/1.1" -> "-"
    [] OTHER -> ""

ColonSpace == ": "

\* Of a header of HTTP/1 with a space after its colon, up to the next such.
GetUserAgent(c) ==
  CASE Protocol(c) = Http2 -> read[c].agent
    [] Protocol(c) = Http1 /\ Client(c).spaced -> Upto(read[c].agent, {ColonSpace})
    [] OTHER -> <<>>

RequestLog(c) ==
  [ja3 |-> tls[c].JA3, ja4 |-> tls[c].JA4, ja4h |-> read[c].ja4h,
   peetprint |-> tls[c].PeetPrint, h2 |-> LoggedH2(c), user_agent |-> GetUserAgent(c),
   ip |-> IF Config.LogIPs THEN Client(c).addr.ip ELSE ""]

\* InsertOne may fail, which is logged and forgotten.
SaveRequest(c) ==
  /\ At(c, "routed")
  /\ \/ ~Logs(c) /\ UNCHANGED collection /\ logged' = [logged EXCEPT ![c] = FALSE]
        /\ Moves(c, "saved")
     \/ Logs(c) /\ tls[c] = NoTLS                  \* req.TLS is nil: a panic,
        /\ Moves(c, "aborted") /\ UNCHANGED logVars  \* which HTTP/3's server recovers
     \/ \E ok \in BOOLEAN :
          /\ Logs(c) /\ tls[c] # NoTLS
          /\ collection' = IF ok THEN Append(collection, RequestLog(c)) ELSE collection
          /\ logged' = [logged EXCEPT ![c] = ok]
          /\ Moves(c, "saved")
  /\ UNCHANGED <<scenario, up, req, read, sniffVars, tls, tcpVars, answer, hops>>

-----------------------------------------------------------------------------
(* The answer                                                              *)

\* An OPTIONS of HTTP/1 comes here from the entry.
Answer(c) ==
  /\ At(c, "saved") \/ (At(c, "received") /\ Skipped(c))
  /\ \E params \in Orders(req[c].query) :
       LET result == Handle(Response(req[c], Protocol(c), params),
                            Config.connected, Len(collection))
       IN IF result.panics
          THEN Moves(c, "aborted") /\ UNCHANGED answer
          ELSE /\ answer' = [answer EXCEPT ![c] = Respond(req[c], Protocol(c), result)]
               /\ Moves(c, "answered")
  /\ UNCHANGED <<scenario, up, req, read, sniffVars, tls, tcpVars, logVars, hops>>

\* HTTP/1 is closed after its answer; the others' clients go when they like.
Close(c) ==
  /\ phase[c] \in {"answered", "aborted"} /\ up
  /\ Moves(c, "closed")
  /\ UNCHANGED <<scenario, up, req, read, sniffVars, tls, tcpVars, logVars, answer, hops>>

PathTo(route, arg) == [route |-> route, arg |-> arg, more |-> FALSE, escaped |-> {}]
OwnPaths == {PathTo("/redirect/", n) : n \in 1..10} \cup {PathTo("/get", NaN)}

\* A client of HTTP/2 follows a redirect to this server on its connection; the
\* decoder is a new one, and does not know a user agent that the client names by
\* its place in the table.
Follow(c) ==
  /\ At(c, "answered") /\ Protocol(c) = Http2
  /\ \E path \in OwnPaths :
       /\ answer[c].location = Own(path.route, path.arg)
       /\ req' = [req EXCEPT ![c].path = path, ![c].query = <<>>]
  /\ \E lost \in BOOLEAN : Reads(c, IF lost THEN <<>> ELSE Client(c).agent)
  /\ hops' = [hops EXCEPT ![c] = @ + 1]
  /\ Moves(c, "received")
  /\ UNCHANGED <<scenario, up, sniffVars, tls, tcpVars, logVars, answer>>

Next ==
  \/ Sniff \/ LosePacket
  \/ \E c \in Connections :
       \/ Connect(c) \/ HandleTLSConnection(c) \/ AcceptHTTP3(c) \/ Overlap(c)
       \/ Router(c) \/ SaveRequest(c) \/ Answer(c) \/ Close(c) \/ Follow(c)

Spec == Init /\ [][Next]_vars

-----------------------------------------------------------------------------
(* The search routes                                                       *)

\* The records with a value, by their places in the log.
queryDB(field, val) == {i \in DOMAIN collection : collection[i][field] = val}

Tally(places, field) ==
  [v \in {collection[i][field] : i \in places} |->
     Cardinality({i \in places : collection[i][field] = v})]

\* SortByVal: the most frequent, any of those that are equally frequent.
SortByVal(tally) ==
  {[v \in S |-> tally[v]] : S \in
     {S \in SUBSET DOMAIN tally :
        /\ Cardinality(S) = IF Cardinality(DOMAIN tally) > Top THEN Top
                            ELSE Cardinality(DOMAIN tally)
        /\ \A v \in S, w \in DOMAIN tally \ S : tally[v] >= tally[w]}}

\* Which tallies each search makes: GetByJa3, GetByH2, GetByPeetPrint and
\* GetByUserAgent make three, GetByJA4 and GetByJA4H those two as well.
Tallied ==
  [ja3 |-> {"h2", "peetprint", "user_agent"},
   h2 |-> {"ja3", "peetprint", "user_agent"},
   peetprint |-> {"ja3", "h2", "user_agent"},
   user_agent |-> {"ja3", "h2", "peetprint"},
   ja4 |-> {"ja3", "ja4h", "h2", "peetprint", "user_agent"},
   ja4h |-> {"ja3", "ja4", "h2", "peetprint", "user_agent"}]

\* url.QueryUnescape of a text that ParseQuery has unescaped already.
QueryUnescape(text) ==
  [i \in DOMAIN text |-> IF text[i] \in {"+", "%20"} THEN " " ELSE text[i]]

Sought(field, val) == IF field = "user_agent" THEN QueryUnescape(val) ELSE val

\* The possible tallies of one kind in a search.
GetBy(field, val, kind) == SortByVal(Tally(queryDB(field, Sought(field, val)), kind))

\* apiClean: what a client is shown of its fingerprints.
apiClean(c) ==
  [ja3 |-> tls[c].JA3, ja4 |-> tls[c].JA4, ja4h |-> read[c].ja4h,
   peetprint |-> tls[c].PeetPrint,
   h2 |-> IF Protocol(c) = Http2 THEN Client(c).akamai ELSE "-"]

\* /user-agent: of a header of HTTP/1 what is before the next colon.
UserAgent(c) ==
  IF Protocol(c) = Http1 THEN Upto(read[c].agent, {":", ColonSpace}) ELSE read[c].agent

Told(c) ==
  [field \in DOMAIN Tallied |->
     IF field = "user_agent" THEN UserAgent(c) ELSE apiClean(c)[field]]

-----------------------------------------------------------------------------
(* Properties                                                              *)

\* What a list of the hello has, by the hello alone.
Values(ext) == [k \in DOMAIN ext.items |-> ext.items[k].v]
Part(ext, types) == IF ext.type \in types THEN Values(ext) ELSE <<>>
Sent(hello, types) ==
  LET sent[i \in 0..Len(hello.extensions)] ==
        IF i = 0 THEN <<>> ELSE sent[i - 1] \o Part(hello.extensions[i], types)
  IN sent[Len(hello.extensions)]

\* The values of an extension that are shown: of the PSK modes the first, and
\* not the last protocol of application_settings when it has one letter.
Shown(ext) ==
  CASE ext.type \in {0, 45} /\ ext.items # <<>> -> <<ext.items[1].v>>
    [] ext.type \in {17513, 17613} /\ ext.items # <<>> /\ ext.items[Len(ext.items)].size = 2 ->
         [k \in 1..(Len(ext.items) - 1) |-> ext.items[k].v]
    [] OTHER -> Values(ext)

\* What the library accepts and the parser may fail on.
Unreadable(hello) ==
  \/ hello.extensions = <<>>
  \/ \E ext \in ToSet(hello.extensions) : ext.type \in Unknown /\ ~WellFormed(ext)

(***************************************************************************)
(* Of a hello whose lists are as long as they say, every loop of the parser *)
(* takes its list whole, to the last item and no further, for all their    *)
(* different limits: what is shown and what goes into the fingerprints is  *)
(* what the client sent.  (The lists of application_settings are the one   *)
(* exception; and JA3 leaves out, with the GREASE values, the number that  *)
(* stands for one.)  The process ends only by a hello that the library     *)
(* accepts and the parser cannot read: one without extensions, or with one *)
(* that the library does not know and that is not as long as it says.      *)
(***************************************************************************)
ParsedWhole ==
  /\ up \/ \E c \in Connections : phase[c] = "open" /\ Unreadable(Client(c).hello)
  /\ \A c \in Connections :
       LET hello == Client(c).hello IN
         tls[c] # NoTLS /\ Supported(hello) /\ AllWellFormed(hello) =>
           /\ tls[c].Extensions = [i \in DOMAIN hello.extensions |->
                 Extension(hello.extensions[i].type, Shown(hello.extensions[i]))]
           /\ tls[c].JA3.curves = PlainCurves(Sent(hello, {10}))
           /\ tls[c].JA3.points = Sent(hello, {11})
           /\ tls[c].PeetPrint.sigAlgs = Sent(hello, {13, 53})
           /\ tls[c].PeetPrint.versions = Marked(Sent(hello, {43}))
           /\ tls[c].PeetPrint.compression = Sent(hello, {27})

Routed(c) == phase[c] \in {"routed", "saved", "answered"} /\ ~Skipped(c)

(***************************************************************************)
(* Two connections of one browser, which draws the order of its extensions *)
(* and its GREASE values anew for each, have one JA4 and one PeetPrint; and *)
(* they have one JA3 just when the order happens to be the same.           *)
(***************************************************************************)
SameBrowserSameRecord ==
  \A c, d \in Connections :
    /\ Routed(c) /\ Routed(d) /\ Http3 \notin {Protocol(c), Protocol(d)}
    /\ Client(c).browser = Client(d).browser
    => /\ tls[c].JA4 = tls[d].JA4
       /\ tls[c].PeetPrint = tls[d].PeetPrint
       /\ tls[c].JA3 = tls[d].JA3
            <=> Plain([i \in DOMAIN tls[c].Extensions |-> tls[c].Extensions[i].type])
                  = Plain([i \in DOMAIN tls[d].Extensions |-> tls[d].Extensions[i].type])

(***************************************************************************)
(* The packet shown with a request came from its client's own address and  *)
(* port.  It is one of its own connection when one had been stored by      *)
(* then, and else that of an earlier one from there, or of a TCP           *)
(* connection beside one of HTTP/3; with IPv6 there is none.               *)
(***************************************************************************)
TcpOfOwnAddress ==
  \A c \in Connections :
    /\ tcp[c] # 0 => Client(tcp[c]).addr = Client(c).addr /\ ~Client(c).addr.v6
    /\ had[c] /\ ~Client(c).addr.v6 => tcp[c] = c

\* The values that are logged as they are shown, and can be asked for.
Searchable(c, field) ==
  /\ field = "h2" => Protocol(c) = Http2
  /\ field = "ja4h" => read[c].alone
  /\ field = "user_agent" =>
       /\ UserAgent(c) # <<>> /\ QueryUnescape(UserAgent(c)) = UserAgent(c)
       /\ Protocol(c) = Http1 => Client(c).spaced /\ ":" \notin ToSet(GetUserAgent(c))

(***************************************************************************)
(* What /api/clean and /user-agent show a client of itself find the logged *)
(* request in every search, with each of the request's other values,       *)
(* unless as many as a search tells are at least as frequent: JA4 is       *)
(* replaced before both the log and the answer.  The exceptions are the    *)
(* "-" of HTTP/1, which is logged as nothing; the JA4H of a request beside *)
(* which the connection had another; and user agents that are empty, that  *)
(* are changed by being unescaped twice, or that over HTTP/1 stand behind  *)
(* a colon without a space or have one in them ("rv:109.0"), which the     *)
(* answer and the log cut at different places.                             *)
(***************************************************************************)
ShownIsSearchable ==
  \A c \in Connections :
    phase[c] = "answered" /\ logged[c] =>
      \A field \in DOMAIN Tallied :
        Searchable(c, field) =>
          \A kind \in Tallied[field] :
            (kind = "ja4h" => read[c].alone) =>
              \A found \in GetBy(field, Told(c)[field], kind) :
                \/ RequestLog(c)[kind] \in DOMAIN found
                \/ Cardinality(DOMAIN found) = Top

Answered(c) == phase[c] = "answered"

\* Answers that tell how many requests are in the log by now.
Counts(a) == a.body.page \in {"404", "/api/request-count"}

(***************************************************************************)
(* A request has the same answer over HTTP/1 and HTTP/2, but for OPTIONS,  *)
(* the CORS headers, a body, which only HTTP/2 hands to the routes, and    *)
(* what HTTP/1 does to every header: its line is over at a line break, and *)
(* the content type is followed by a charset.  (Several cookies are set in *)
(* any order.)  HTTP/3 has the same location, the same number in its body  *)
(* and, but for /status, the same status as HTTP/2 for a request without a *)
(* query and without an escape in its number; with either, HTTP/3 takes    *)
(* the number and HTTP/2 does not.                                         *)
(***************************************************************************)
AnswersAgree ==
  \A c, d \in Connections :
    LET a == answer[c]
        b == answer[d]
        r == req[c]
    IN Answered(c) /\ Answered(d) /\ req[d] = r /\ ~Counts(a) =>
         /\ Protocol(c) = Http1 /\ Protocol(d) = Http2 /\ r.method # "OPTIONS" =>
              /\ a.status = b.status /\ a.coding = b.coding
              /\ a.location = Line(b.location)
              /\ Len(r.query) <= 1 =>
                   a.type = Line(Append(b.type, Charset)) /\ a.cookies = Lines(b.cookies)
              /\ r.data = "" => a.body = b.body
              /\ a.body.page # "/bytes/" =>
                   [a.body EXCEPT !.data = ""] = [b.body EXCEPT !.data = ""]
         /\ Protocol(c) = Http2 /\ Protocol(d) = Http3
              /\ r.query = <<>> /\ "arg" \notin r.path.escaped =>
              /\ a.location = b.location
              /\ r.path.route # "/status/" => a.status = b.status
              /\ a.body.page # "/bytes/" => a.body.n = b.body.n

\* No name or value of the query has a separator of the directives or a line
\* break in it.
Unseparated(query) ==
  \A i \in DOMAIN query :
    ToSet(<<query[i][1]>> \o query[i][2]) \cap {":", "|", "CRLF"} = {}

(***************************************************************************)
(* An answer is what it says.  But for cookies that have a separator of    *)
(* the directive or a line break in them, which can take the place of the  *)
(* content type or end the header, no directive reaches the client as one, *)
(* and the cookies set are those asked for.  Over HTTP/1 and HTTP/2 the    *)
(* status is the one that /status puts into its body, which another        *)
(* function has taken from the path, and the content encoding is the       *)
(* body's, but for a page not found under a path that begins like one that *)
(* compresses, and but for a route that is sent with escapes in it: the    *)
(* router knows it without them (/%67zip is compressed), and neither       *)
(* label does.                                                             *)
(***************************************************************************)
LabelsTrue ==
  \A c \in Connections :
    Answered(c) =>
      LET a == answer[c]
          set == a.body.page = "/cookies/set"
      IN
        /\ (set => Unseparated(req[c].query)) => ~IsRedirect(a.type) /\ ~SetsCookies(a.type)
        /\ set /\ Unseparated(req[c].query) =>
             ToSet(a.cookies) = {<<p[1], "=">> \o p[2] : p \in a.body.cookies}
        /\ Protocol(c) # Http3 /\ "route" \notin req[c].path.escaped =>
             /\ a.body.page = "/status/" => a.status = a.body.n
             /\ a.body.page \notin {"404", "none"} => a.coding = a.body.coding

(***************************************************************************)
(* Who follows /redirect/n comes to /get after n redirects exactly, after  *)
(* one when n is not a number from 1 to 10, when it is sent with an escape *)
(* in it, or when a query is right behind it, as in /redirect/2?x=1.       *)
(***************************************************************************)
RedirectsEnd ==
  scenario.req.path.route = "/redirect/" =>
    LET path == scenario.req.path
        n == IF /\ path.arg \in 1..10 /\ "arg" \notin path.escaped
                /\ scenario.req.query = <<>> \/ path.more
             THEN path.arg ELSE 1
    IN \A c \in Connections :
         /\ hops[c] <= n
         /\ Answered(c) /\ Protocol(c) = Http2 =>
              (answer[c].body.page = "/get") <=> hops[c] = n
=============================================================================
