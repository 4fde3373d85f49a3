-------------------------- MODULE H2ConnectionProps --------------------------
(***************************************************************************)
(* What must hold of one HTTP/2 connection (H2Connection): its safety and  *)
(* liveness properties, the abstract service it implements, and, last,     *)
(* what the repository says of it and the code does not do.                *)
(***************************************************************************)
EXTENDS H2Connection

-----------------------------------------------------------------------------
(* Safety.                                                                 *)

(***************************************************************************)
(* The http2.Framer is not safe for concurrent use: one goroutine at a     *)
(* time is in one of its Write methods, the unlocked WriteSettings of      *)
(* handleHTTP2 included, whichever goroutines answer at the same time.     *)
(***************************************************************************)
FramerExclusive ==
  /\ \A t, u \in Loops : pc[t] \in WritingPC /\ pc[u] \in WritingPC => t = u
  /\ \A m, n \in Frame : hpc[m] \in WritingPC /\ hpc[n] \in WritingPC => m = n
  /\ \A t \in Loops, n \in Frame :
       pc[t] \in WritingPC => hpc[n] \notin WritingPC

(***************************************************************************)
(* The reader and the idle loop may both decide to shut down; the client   *)
(* is sent one GOAWAY, and none by a connection that is not closing.       *)
(***************************************************************************)
OneGoAway == goaways <= (IF closing THEN 1 ELSE 0)

(***************************************************************************)
(* A handleRequest goroutine that has returned has sent its END_STREAM, or *)
(* the connection was gone: no timeout, reset, second HEADERS or shutdown  *)
(* loses a response.                                                       *)
(***************************************************************************)
NoSilentDrop == \A n \in Frame : hpc[n] = "done" => answered[n] \/ Gone

(***************************************************************************)
(* handleData and CloseStream never close a response channel twice, in     *)
(* whatever order END_STREAM, RST_STREAM and the response come.            *)
(***************************************************************************)
NoDoubleClose == panic # "closeOfClosed"

\* The stream of request n has been ended by somebody else: the client reset
\* it, or another HEADERS frame of the same stream has been answered.
Superseded(n) ==
  \/ client[hid[n]] = "reset"
  \/ \E m \in Frame \ {n} : hid[m] = hid[n] /\ hpc[m] = "done"

(***************************************************************************)
(* The drain and the idle check count c.streams, not requests.  That is    *)
(* sound because a request in flight is in the map, although it is looked  *)
(* up and removed by stream id while the reader adds and removes streams.  *)
(***************************************************************************)
InFlightTracked ==
  \A n \in InFlight : streams[hid[n]] # NoObj \/ Superseded(n)

(***************************************************************************)
(* waitForStreamBody runs in the new goroutine, after the reader may have  *)
(* handled more frames.  It returns at once, for want of a stream, only    *)
(* for a request that somebody else has ended.                             *)
(***************************************************************************)
BodyWaitNotSkipped ==
  [][\A n \in Frame :
       hpc[n] = "lookup" /\ hpc'[n] = "route" => Superseded(n)]_vars

(***************************************************************************)
(* When the reader shuts down first and its drain did not give up, every   *)
(* request it started is over before it closes the connection.             *)
(***************************************************************************)
DrainSound ==
  pc["reader"] = "close" /\ initiator = "reader" /\ ~expired
    => \A n \in InFlight : Superseded(n)

(***************************************************************************)
(* The GOAWAY of the reader's shutdown names a stream id no lower than     *)
(* that of any request that was started, so a client that retries what is  *)
(* above it repeats nothing.                                               *)
(***************************************************************************)
GoAwayCovers ==
  initiator = "reader" /\ goaways = 1
    => \A n \in Frame : hpc[n] # "none" => hid[n] <= goawayID

(***************************************************************************)
(* An answered request takes its stream out of the map, so that a drain    *)
(* does not wait for it and an idle connection is seen as idle.            *)
(***************************************************************************)
AnsweredLeavesMap ==
  \A id \in StreamIds :
    streams[id] # NoObj /\ hpc[streams[id]] = "done" => Gone

-----------------------------------------------------------------------------
(* The inductive invariant: what holds between two steps and makes each of *)
(* the safety properties follow from the ones before it.                   *)

DrainPC == {"goawayLock", "goawayWrite", "drain", "close"}

\* SETTINGS is written before there is anybody to write at the same time.
StartInv ==
  pc["reader"] = "settings" =>
    /\ pc["idle"] = "unstarted"
    /\ ~writeMu
    /\ \A n \in Frame : hpc[n] = "none"

LockInv ==
  /\ pc["reader"] \in WritingPC => writeMu \/ pc["reader"] = "settings"
  /\ pc["idle"] \in WritingPC => writeMu
  /\ \A n \in Frame : hpc[n] \in WritingPC => writeMu
  /\ FramerExclusive

\* One loop is the initiator, and it alone says GOAWAY and drains.
ShutdownInv ==
  /\ ~closing => /\ initiator = "nobody"
                 /\ goaways = 0
                 /\ pc["idle"] \in {"unstarted", "tick"}
                 /\ pc["reader"] \notin DrainPC
  /\ closing => initiator \in Loops
  /\ initiator = "idle" => /\ pc["idle"] \in DrainPC \cup {"done"}
                           /\ pc["reader"] \notin DrainPC \ {"close"}
  /\ initiator = "reader" => /\ pc["reader"] \in DrainPC \cup {"return", "done"}
                             /\ pc["idle"] \in {"unstarted", "tick", "done"}
  /\ \A t \in Loops : pc[t] \in {"goawayLock", "goawayWrite"} => goaways = 0
  /\ goaways <= 1

ResponseInv ==
  \A n \in Frame :
    /\ hpc[n] \in {"close", "done"} => answered[n] \/ Gone
    /\ answered[n] => hpc[n] \in {"close", "done"}

ChannelInv == chanClosed = bodyClosed /\ NoDoubleClose

\* Names are fresh, an object belongs to the stream of its frame, and an
\* answered request is out of the map.
MapInv ==
  /\ \A id \in StreamIds : streams[id] <= nread
  /\ \A n \in Frame : hpc[n] # "none" => n <= nread
  /\ \A id \in StreamIds :
       streams[id] # NoObj /\ hpc[streams[id]] # "none" => hid[streams[id]] = id
  /\ AnsweredLeavesMap

CoverInv ==
  /\ \A id \in StreamIds : streams[id] # NoObj => id <= lastStreamID
  /\ \A n \in Frame : hpc[n] # "none" => hid[n] <= lastStreamID
  /\ initiator = "reader" /\ pc["reader"] # "goawayLock"
       => \A n \in Frame : hpc[n] # "none" => hid[n] <= goawayID

(***************************************************************************)
(* The conjunction is preserved by every step of every goroutine.          *)
(***************************************************************************)
IInv ==
  /\ TypeOK
  /\ StartInv
  /\ LockInv
  /\ ShutdownInv
  /\ ResponseInv
  /\ ChannelInv
  /\ MapInv
  /\ CoverInv
  /\ InFlightTracked
  /\ DrainSound

-----------------------------------------------------------------------------
(* Liveness.                                                               *)

(***************************************************************************)
(* Under the supervisor every goroutine of the connection ends, whatever   *)
(* the client does: the reader, the idle loop, each request.  The one left *)
(* is the reader's send of its result after the deadline has passed.       *)
(***************************************************************************)
Quiesces == <>[]Finished

-----------------------------------------------------------------------------
(* The promise of the connection, implemented.                             *)

\* How the connection, and what became of request n, look to the client.
ServicePhase ==
  IF ~Running THEN "crashed"
  ELSE IF Gone THEN "gone"
  ELSE IF closing THEN "draining" ELSE "serving"

RequestOf(n) ==
  IF hpc[n] = "none" THEN "none"
  ELSE IF answered[n] THEN "answered"
  ELSE IF hpc[n] = "done" THEN "dropped" ELSE "accepted"

ServiceRequest == [n \in Frame |-> RequestOf(n)]

Service == INSTANCE H2Service WITH
  Requests <- Frame,
  phase <- ServicePhase,
  request <- ServiceRequest,
  goodbyes <- goaways

(***************************************************************************)
(* Every step of the connection is a step of the service or changes        *)
(* nothing the client is promised: a response is lost only with the        *)
(* connection, and GOAWAY comes once, from a draining server.              *)
(***************************************************************************)
ImplementsService == Service!Spec

(***************************************************************************)
(* And under the supervisor each request is settled and the connection     *)
(* ends.                                                                   *)
(***************************************************************************)
ImplementsFairService == Service!FairSpec

-----------------------------------------------------------------------------
(* What a comment says, and the code does not do.                           *)

(***************************************************************************)
(* handleData: "Buffer full or channel closed" falls to the default case.  *)
(***************************************************************************)
NoSendOnClosed == panic # "sendOnClosed"
=============================================================================
