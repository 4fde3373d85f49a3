-------------------------- MODULE ConnectionEntry --------------------------
(***************************************************************************)
(* What happens to an accepted connection before and around HTTP/2: the    *)
(* accept loop of cmd/main.go, its list of blocked addresses, the          *)
(* goroutine and the 15 second supervisor it gives each connection, and    *)
(* HandleTLSConnection, which reads, decides on a protocol, and answers    *)
(* HTTP/1.                                                                 *)
(*                                                                         *)
(* A client writes its request, or the HTTP/2 preamble, in TLS records.  A *)
(* Read of the server does the TLS handshake first if it is still to be    *)
(* done, and returns bytes of one record at most; a Write does the         *)
(* handshake too.  The bytes are abstracted to their number.               *)
(*                                                                         *)
(* Each connection is its own address.  Timers have no clock here: the     *)
(* deadline may fire at any time (H2Timers has the clock), and HTTP/2 may  *)
(* end at any time and closes the connection then (H2Connection).          *)
(***************************************************************************)
EXTENDS Integers, Sequences

CONSTANTS
  Connections,   \* the connections the clients make
  Preamble,      \* length of the HTTP/2 preamble, 24
  MaxRequest,    \* what an HTTP/1 request is read up to, 1024
  MaxLength,     \* bound: the longest message of a client
  Messages,      \* bound: what each client says, its protocol and length
  Local,         \* srv.IsLocal()
  CorsKey        \* a CORS key is configured

ASSUME EntryAssumption ==
  /\ Preamble \in Nat \ {0}
  /\ MaxRequest \in Nat /\ MaxRequest > Preamble
  /\ MaxLength \in Nat
  /\ Messages \subseteq
       [Connections -> [protocol : {"h2", "http1"}, length : 1..MaxLength]]
  /\ \A m \in Messages, c \in Connections :
       m[c].protocol = "h2" => m[c].length >= Preamble
  /\ Local \in BOOLEAN
  /\ CorsKey \in BOOLEAN

VARIABLES
  side,        \* what the client has done to its side of the connection
  message,     \* what it has to say: its protocol and how many bytes
  wire,        \* the lengths of the records it has sent and nobody has read
  sent,        \* history: how many bytes it has sent
  split,       \* history: it has sent less than its message in a record
  blockedIPs,  \* the addresses in the file; an absent file is made empty
  loop,        \* the accept loop: at Accept, or refusing a connection
  inner,       \* the goroutine that runs HandleTLSConnection
  outer,       \* the goroutine that supervises it
  verdict,     \* what HandleTLSConnection returns
  got,         \* bytes of the message it has read
  closed,      \* the server has closed the connection
  answered,    \* history: an HTTP/1 response has been written
  panicked     \* a panic that nothing recovers has ended the process

clientVars == <<side, message, wire, sent, split>>
serverVars == <<inner, outer, verdict, got, closed, answered>>
vars == <<clientVars, blockedIPs, loop, serverVars, panicked>>

AtAccept == "accept"

Sides == {"away", "open", "ready", "alerted", "failed", "ended", "gone"}
InnerPC == {"none", "preamble", "rest", "route", "write", "close", "settings",
            "h2", "result", "done"}
OuterPC == {"none", "waiting", "close", "done"}

\* The bytes there are buffers for when a handler is at a label.
Room(label) ==
  IF label \in {"none", "preamble"} THEN 0
  ELSE IF label = "rest" THEN Preamble ELSE MaxRequest

(***************************************************************************)
(* Types.  A handler is there just when its supervisor is, and what it has *)
(* read of a message fits in the buffers it has made by then.              *)
(***************************************************************************)
EntryTypeOK ==
  /\ side \in [Connections -> Sides]
  /\ message \in Messages
  /\ wire \in [Connections -> Seq(1..MaxLength)]
  /\ sent \in [Connections -> 0..MaxLength]
  /\ split \in [Connections -> BOOLEAN]
  /\ blockedIPs \subseteq Connections
  /\ loop \in Connections \cup {AtAccept}
  /\ inner \in [Connections -> InnerPC]
  /\ outer \in [Connections -> OuterPC]
  /\ verdict \in [Connections -> BOOLEAN]
  /\ got \in [Connections -> Nat]
  /\ \A c \in Connections :
       /\ outer[c] = "none" <=> inner[c] = "none"
       /\ got[c] <= Room(inner[c])
  /\ closed \in [Connections -> BOOLEAN]
  /\ answered \in [Connections -> BOOLEAN]
  /\ panicked \in BOOLEAN

Init ==
  /\ side = [c \in Connections |-> "away"]
  /\ message \in Messages
  /\ wire = [c \in Connections |-> <<>>]
  /\ sent = [c \in Connections |-> 0]
  /\ split = [c \in Connections |-> FALSE]
  /\ blockedIPs \in SUBSET Connections
  /\ loop = AtAccept
  /\ inner = [c \in Connections |-> "none"]
  /\ outer = [c \in Connections |-> "none"]
  /\ verdict = [c \in Connections |-> FALSE]
  /\ got = [c \in Connections |-> 0]
  /\ closed = [c \in Connections |-> FALSE]
  /\ answered = [c \in Connections |-> FALSE]
  /\ panicked = FALSE

Running == ~panicked

-----------------------------------------------------------------------------
(* The client.                                                             *)

Becomes(c, from, to) ==
  /\ Running
  /\ side[c] \in from
  /\ side' = [side EXCEPT ![c] = to]
  /\ UNCHANGED <<message, wire, sent, split, blockedIPs, loop, serverVars,
                 panicked>>

\* The server's first Read or Write takes part in the handshake.
Handshaking(c) == ~closed[c] /\ (inner[c] = "preamble" \/ loop = c)

\* It connects and finishes the handshake; it ends its side or resets.
Connect(c) == Becomes(c, {"away"}, "open")
Handshake(c) == Handshaking(c) /\ Becomes(c, {"open"}, "ready")
EndSide(c) == Becomes(c, {"open", "ready"}, "ended")
Reset(c) == Becomes(c, Sides \ {"away", "gone"}, "gone")

\* It breaks TLS off, in the handshake or at any time after it: with the alert
\* "unknown certificate", or with another alert or a record that is no good.
Alert(c) ==
  /\ side[c] = "open" => Handshaking(c)
  /\ Becomes(c, {"open", "ready"}, "alerted")
Misspeak(c) ==
  /\ side[c] = "open" => Handshaking(c)
  /\ Becomes(c, {"open", "ready"}, "failed")

\* One record of its message.
Send(c, n) ==
  /\ Running
  /\ side[c] = "ready" /\ ~closed[c]
  /\ sent[c] + n <= message[c].length
  /\ sent' = [sent EXCEPT ![c] = @ + n]
  /\ split' = [split EXCEPT ![c] = @ \/ n # message[c].length]
  /\ wire' = [wire EXCEPT ![c] = Append(@, n)]
  /\ UNCHANGED <<side, message, blockedIPs, loop, serverVars, panicked>>

Client(c) ==
  \/ Connect(c) \/ Handshake(c) \/ Alert(c) \/ Misspeak(c)
  \/ EndSide(c) \/ Reset(c)
  \/ \E n \in 1..MaxLength : Send(c, n)

-----------------------------------------------------------------------------
(* The accept loop.                                                        *)

IsIPBlocked(c) == c \in blockedIPs

\* A blocked address is refused by the loop itself; for another the loop
\* starts a goroutine, which starts HandleTLSConnection in a second one.
Accept(c) ==
  /\ Running
  /\ loop = AtAccept
  /\ side[c] # "away" /\ outer[c] = "none" /\ ~closed[c]
  /\ IF IsIPBlocked(c)
     THEN loop' = c /\ UNCHANGED <<inner, outer>>
     ELSE /\ inner' = [inner EXCEPT ![c] = "preamble"]
          /\ outer' = [outer EXCEPT ![c] = "waiting"]
          /\ UNCHANGED loop
  /\ UNCHANGED <<clientVars, blockedIPs, verdict, got, closed, answered,
                 panicked>>

\* Mutant: what the client has to say is read before it is refused.
Refuse_Reads(c) ==
  /\ Running
  /\ loop = c
  /\ wire[c] # <<>> \/ side[c] \notin {"open", "ready"}
  /\ loop' = AtAccept
  /\ closed' = [closed EXCEPT ![c] = TRUE]
  /\ UNCHANGED <<clientVars, blockedIPs, inner, outer, verdict, got, answered,
                 panicked>>

\* conn.Write, which ends when the handshake is done or has failed; conn.Close.
Refuse(c) ==
  /\ Running
  /\ loop = c
  /\ side[c] # "open"
  /\ loop' = AtAccept
  /\ closed' = [closed EXCEPT ![c] = TRUE]
  /\ UNCHANGED <<clientVars, blockedIPs, inner, outer, verdict, got, answered,
                 panicked>>

-----------------------------------------------------------------------------
(* HandleTLSConnection.                                                    *)

At(c, label) == Running /\ inner[c] = label

Goto(c, label) ==
  /\ inner' = [inner EXCEPT ![c] = label]
  /\ UNCHANGED verdict

ReturnWith(c, result) ==
  /\ inner' = [inner EXCEPT ![c] = "result"]
  /\ verdict' = [verdict EXCEPT ![c] = result]

Broken(c) == closed[c] \/ side[c] = "gone"

\* A Read of up to n bytes: of the first record, and the rest of it is left
\* for the next.
Least(a, b) == IF a < b THEN a ELSE b

Read(c, n) ==
  /\ wire[c] # <<>>
  /\ LET record == Head(wire[c])
         k == Least(record, n)
     IN /\ got' = [got EXCEPT ![c] = @ + k]
        /\ wire' = [wire EXCEPT ![c] =
             IF k = record THEN Tail(@) ELSE <<record - k>> \o Tail(@)]
  /\ UNCHANGED <<side, message, sent, split>>

\* It fails when the client has ended its side, broken TLS off or gone, or when
\* the deadline has closed the connection.  An alert that follows the last bytes
\* may come back with them, and they are lost.
ReadFails(c, n) ==
  /\ \/ Broken(c)
     \/ wire[c] = <<>> /\ side[c] \in {"ended", "alerted", "failed"}
     \/ /\ Len(wire[c]) = 1 /\ Head(wire[c]) <= n
        /\ side[c] \in {"ended", "alerted", "failed"}
  /\ UNCHANGED <<clientVars, got>>

\* Mutant: any first bytes of an HTTP/2 client are taken for HTTP/1.
ReadPreamble_Ignored(c) ==
  /\ At(c, "preamble")
  /\ Read(c, Preamble)
  /\ Goto(c, "rest")
  /\ UNCHANGED <<blockedIPs, loop, outer, closed, answered, panicked>>

\* Mutant: the first buffer is as long as a whole request.
ReadPreamble_Long(c) ==
  /\ At(c, "preamble")
  /\ Read(c, MaxRequest)
  /\ IF message[c].protocol = "h2" /\ got'[c] = Preamble
     THEN Goto(c, "settings")
     ELSE Goto(c, "rest")
  /\ UNCHANGED <<blockedIPs, loop, outer, closed, answered, panicked>>

\* The whole preamble in one Read is HTTP/2, and anything else is HTTP/1.
ReadPreamble(c) ==
  /\ At(c, "preamble")
  /\ Read(c, Preamble)
  /\ IF message[c].protocol = "h2" /\ got'[c] = Preamble
     THEN Goto(c, "settings")
     ELSE Goto(c, "rest")
  /\ UNCHANGED <<blockedIPs, loop, outer, closed, answered, panicked>>

\* Mutant: the local exception is made for every error.
PreambleFails_True(c) ==
  /\ At(c, "preamble")
  /\ ReadFails(c, Preamble)
  /\ ReturnWith(c, TRUE)
  /\ UNCHANGED <<blockedIPs, loop, outer, closed, answered, panicked>>

\* "unknown certificate" on a local server leaves the connection open.
PreambleFails(c) ==
  /\ At(c, "preamble")
  /\ ReadFails(c, Preamble)
  /\ ReturnWith(c, side[c] = "alerted" /\ ~closed[c] /\ Local)
  /\ UNCHANGED <<blockedIPs, loop, outer, closed, answered, panicked>>

ReadRest(c) ==
  /\ At(c, "rest")
  /\ Read(c, MaxRequest - Preamble)
  /\ Goto(c, "route")
  /\ UNCHANGED <<blockedIPs, loop, outer, closed, answered, panicked>>

RestFails(c) ==
  /\ At(c, "rest")
  /\ ReadFails(c, MaxRequest - Preamble)
  /\ ReturnWith(c, TRUE)
  /\ UNCHANGED <<blockedIPs, loop, outer, closed, answered, panicked>>

\* Whether the request line has three words; without them the details of the
\* request have no Http1 part.
parseHTTP1 == BOOLEAN

\* The router, after which respondToHTTP1 looks for the CORS key in the headers
\* of the Http1 part, nil or not.
Route(c) ==
  /\ At(c, "route")
  /\ \E threeWords \in parseHTTP1 : panicked' = (CorsKey /\ ~threeWords)
  /\ Goto(c, "write")
  /\ UNCHANGED <<clientVars, blockedIPs, loop, outer, got, closed, answered>>

\* The response; on an error respondToHTTP1 returns without closing.
WriteResponse(c) ==
  /\ At(c, "write")
  /\ IF Broken(c)
     THEN ReturnWith(c, TRUE) /\ UNCHANGED answered
     ELSE Goto(c, "close") /\ answered' = [answered EXCEPT ![c] = TRUE]
  /\ UNCHANGED <<clientVars, blockedIPs, loop, outer, got, closed, panicked>>

CloseAnswered(c) ==
  /\ At(c, "close")
  /\ closed' = [closed EXCEPT ![c] = TRUE]
  /\ ReturnWith(c, TRUE)
  /\ UNCHANGED <<clientVars, blockedIPs, loop, outer, got, answered, panicked>>

\* handleHTTP2: on an error it returns without closing.
WriteSettings(c) ==
  /\ At(c, "settings")
  /\ IF Broken(c) THEN ReturnWith(c, TRUE) ELSE Goto(c, "h2")
  /\ UNCHANGED <<clientVars, blockedIPs, loop, outer, got, closed, answered,
                 panicked>>

\* processFrames returns, having closed the connection.
EndH2(c) ==
  /\ At(c, "h2")
  /\ closed' = [closed EXCEPT ![c] = TRUE]
  /\ ReturnWith(c, TRUE)
  /\ UNCHANGED <<clientVars, blockedIPs, loop, outer, got, answered, panicked>>

Handle(c) ==
  \/ ReadPreamble(c) \/ PreambleFails(c)
  \/ ReadRest(c) \/ RestFails(c) \/ Route(c) \/ WriteResponse(c)
  \/ CloseAnswered(c)
  \/ WriteSettings(c) \/ EndH2(c)

-----------------------------------------------------------------------------
(* timeoutHandleTLSConnection and its caller.                              *)

\* result <- ..., received while the supervisor still waits.
Deliver(c) ==
  /\ At(c, "result")
  /\ outer[c] = "waiting"
  /\ inner' = [inner EXCEPT ![c] = "done"]
  /\ outer' = [outer EXCEPT ![c] = IF verdict[c] THEN "done" ELSE "close"]
  /\ UNCHANGED <<clientVars, blockedIPs, loop, verdict, got, closed, answered,
                 panicked>>

\* Mutants: a late connection is left to its handler, or there is no timer.
Deadline_Keeps(c) ==
  /\ Running
  /\ outer[c] = "waiting"
  /\ outer' = [outer EXCEPT ![c] = "done"]
  /\ UNCHANGED <<clientVars, blockedIPs, loop, inner, verdict, got, closed,
                 answered, panicked>>
Deadline_Never(c) == FALSE

Deadline(c) ==
  /\ Running
  /\ outer[c] = "waiting"
  /\ outer' = [outer EXCEPT ![c] = "close"]
  /\ UNCHANGED <<clientVars, blockedIPs, loop, inner, verdict, got, closed,
                 answered, panicked>>

CloseFailed(c) ==
  /\ Running
  /\ outer[c] = "close"
  /\ closed' = [closed EXCEPT ![c] = TRUE]
  /\ outer' = [outer EXCEPT ![c] = "done"]
  /\ UNCHANGED <<clientVars, blockedIPs, loop, inner, verdict, got, answered,
                 panicked>>

AcceptLoop == \E c \in Connections : Accept(c) \/ Refuse(c)

Supervise(c) == Deliver(c) \/ Deadline(c) \/ CloseFailed(c)

Next ==
  \/ AcceptLoop
  \/ \E c \in Connections : Client(c) \/ Handle(c) \/ Supervise(c)

Spec == Init /\ [][Next]_vars

(***************************************************************************)
(* Goroutines run and timers fire.  Nothing is asked of a client, and a    *)
(* response is written to one that may not read for as long as the         *)
(* connection lives; HTTP/2 need not end while the connection is open.     *)
(***************************************************************************)
Unblocked(c) == Broken(c) \/ inner[c] \notin {"write", "settings", "h2"}

Fairness ==
  /\ WF_vars(AcceptLoop)
  /\ \A c \in Connections :
       WF_vars(Unblocked(c) /\ Handle(c)) /\ WF_vars(Supervise(c))

FairSpec == Spec /\ Fairness

-----------------------------------------------------------------------------
(***************************************************************************)
(* HandleTLSConnection returns TRUE when its connection needs no closing   *)
(* by its caller, also after early returns of respondToHTTP1 and           *)
(* handleHTTP2 that do not close it, and when its second Read fails.  A    *)
(* supervisor that is done leaves nobody on an open connection but a       *)
(* client that has ended or reset its own side, or refused the certificate *)
(* of a local server, or broken TLS off between the two Reads of a request *)
(* that is not HTTP/2: such a one is left open by the server, and no other *)
(* that broke TLS off is.                                                  *)
(***************************************************************************)
NobodyLeftOpen ==
  \A c \in Connections :
    outer[c] = "done" /\ ~closed[c] =>
      \/ side[c] \in {"ended", "gone"}
      \/ Local /\ side[c] = "alerted"
      \/ side[c] \in {"alerted", "failed"} /\ got[c] \in 1..Preamble

(***************************************************************************)
(* A handler whose result nobody will receive is left in its send for ever *)
(* (the channel has no buffer): its connection has been closed.            *)
(***************************************************************************)
StrandedIsClosed ==
  \A c \in Connections :
    inner[c] # "done" /\ outer[c] = "done" => closed[c]

(***************************************************************************)
(* The two Reads are enough for a client that sends its message in one     *)
(* record: an HTTP/2 client is not taken for HTTP/1, and an HTTP/1 request *)
(* that fits the buffer is answered after all of it was read.              *)
(***************************************************************************)
OneRecordIsRead ==
  \A c \in Connections :
    ~split[c] /\ message[c].length <= MaxRequest =>
      /\ message[c].protocol = "h2" => inner[c] \notin {"rest", "route"}
      /\ answered[c] => got[c] = message[c].length

(***************************************************************************)
(* Every connection that gets a supervisor is done with, its handler too,  *)
(* unless the process has ended; whatever the client does.                 *)
(***************************************************************************)
EveryoneEnds ==
  \A c \in Connections :
    outer[c] = "waiting"
      ~> \/ panicked
         \/ outer[c] = "done" /\ inner[c] \in {"result", "done"}

(***************************************************************************)
(* The accept loop comes back to Accept, unless it is refusing a client    *)
(* that stays silent in its handshake: the loop itself writes to it, with  *)
(* no deadline.                                                            *)
(***************************************************************************)
LoopComesBack ==
  []<>(panicked \/ loop = AtAccept \/ side[loop] = "open")
=============================================================================
