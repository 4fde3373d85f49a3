---------------------------- MODULE H2Connection ----------------------------
(***************************************************************************)
(* One HTTP/2 connection: pkg/server/connection_state.go, the handleHTTP2  *)
(* entry of pkg/server/connection_handler.go, and the 15 second guard that *)
(* cmd/main.go puts around it.                                             *)
(*                                                                         *)
(* Four kinds of goroutine share the connection:                           *)
(*   - "reader", processFrames: reads frames, keeps the map of streams,    *)
(*     starts a goroutine per request, and shuts down when reading ends;   *)
(*   - "idle", idleTimeoutLoop: shuts a quiet connection down;             *)
(*   - one handleRequest goroutine per HEADERS frame, named by the number  *)
(*     of that frame;                                                      *)
(*   - the supervisor, timeoutHandleTLSConnection in cmd/main.go.          *)
(*                                                                         *)
(* A step is what one goroutine does between two points where another may  *)
(* see a difference: a mutex section is one step, the unlocked channel     *)
(* send of handleData is one step, and a write to the peer is two (take    *)
(* writeMu, then write), because a peer that does not read keeps the       *)
(* writer inside it.                                                       *)
(***************************************************************************)
EXTENDS Integers, FiniteSets

CONSTANTS
  StreamIds,    \* the HTTP/2 stream identifiers the client uses
  MaxFrames,    \* bound: how many frames the client sends
  ChanCap,      \* capacity of a stream's response channel (10 in the code)
  MaxChunks,    \* bound: DATA frames in a response body
  Supervised,   \* TRUE: run under cmd/main.go; FALSE: called directly, as
                \* connection_handler_test.go does
  Strict        \* TRUE: the client only sends what RFC 9113 allows, each
                \* header block in one frame

ASSUME ConnAssumption ==
  /\ StreamIds \subseteq Nat \ {0}
  /\ MaxFrames \in Nat
  /\ ChanCap \in Nat \ {0}
  /\ MaxChunks \in Nat
  /\ Supervised \in BOOLEAN
  /\ Strict \in BOOLEAN

(***************************************************************************)
(* Frames are numbered as they are read.  The stream object a frame        *)
(* allocates and the goroutine it starts are named by that number.         *)
(***************************************************************************)
Frame == 1..MaxFrames
NoObj == 0
Object == Frame \cup {NoObj}
Loops == {"reader", "idle"}
NoFrame == [id |-> 0, end |-> FALSE, obj |-> NoObj]

VARIABLES
  streams,       \* c.streams: stream id -> object, NoObj when absent
  lastStreamID,  \* c.lastStreamID
  buffered,      \* object -> number of chunks in stream.response
  bodyClosed,    \* object -> stream.bodyClosed
  chanClosed,    \* object -> stream.response has been closed
  pc,            \* where each of the two loops is
  cur,           \* the DATA frame the reader is handling
  nread,         \* how many frames have been read
  hpc,           \* where each handleRequest goroutine is
  hid,           \* its stream id
  hobj,          \* the object waitForStreamBody waits on
  left,          \* DATA frames of its response still to be written
  answered,      \* history: its END_STREAM reached the peer
  closing,       \* c.closing
  link,          \* the connection: open, closed by us, or reset by the peer
  writeMu,       \* c.writeMu is held
  goaways,       \* history: GOAWAY frames written
  goawayID,      \* history: the last stream id the latest of them carries
  initiator,     \* history: the loop that set closing
  expired,       \* history: the drain gave up at its deadline
  sup,           \* timeoutHandleTLSConnection
  client,        \* the client's view of each stream
  panic          \* the Go panic that took the process down

mapVars == <<streams, lastStreamID>>
heapVars == <<buffered, bodyClosed, chanClosed>>
streamVars == <<mapVars, heapVars, client, panic>>
frameVars == <<cur, nread>>
reqVars == <<hpc, hid, hobj, left, answered>>
shutVars == <<closing, goaways, goawayID, initiator, expired>>
linkVars == <<link, sup>>
vars == <<streamVars, frameVars, pc, reqVars, shutVars, linkVars, writeMu>>

ReaderPC == {"settings", "read", "replyLock", "replyWrite", "data", "send",
             "end", "shutdown", "goawayLock", "goawayWrite", "drain", "close",
             "return", "done"}
IdlePC == {"unstarted", "tick", "goawayLock", "goawayWrite", "drain", "close",
           "done"}
HandlerPC == {"none", "lookup", "wait", "route", "headersWrite",
              "dataLock", "dataWrite", "close", "done"}

\* The map, the channels, and the two ends of a stream.
StreamTypeOK ==
  /\ streams \in [StreamIds -> Object]
  /\ lastStreamID \in StreamIds \cup {0}
  /\ buffered \in [Frame -> 0..ChanCap]
  /\ bodyClosed \in [Frame -> BOOLEAN]
  /\ chanClosed \in [Frame -> BOOLEAN]
  /\ client \in [StreamIds -> {"idle", "open", "ended", "reset"}]
  /\ panic \in {"none", "sendOnClosed", "closeOfClosed"}

LoopTypeOK ==
  /\ pc \in [Loops -> ReaderPC \cup IdlePC]
  /\ pc["reader"] \in ReaderPC
  /\ pc["idle"] \in IdlePC
  /\ cur \in [id : StreamIds \cup {0}, end : BOOLEAN, obj : Object]
  /\ pc["reader"] = "data" => cur.id \in StreamIds
  /\ pc["reader"] \in {"send", "end"} => cur.obj \in Frame
  /\ nread \in 0..MaxFrames

RequestTypeOK ==
  /\ hpc \in [Frame -> HandlerPC]
  /\ hid \in [Frame -> StreamIds \cup {0}]
  /\ hobj \in [Frame -> Object]
  /\ left \in [Frame -> 0..MaxChunks]
  /\ answered \in [Frame -> BOOLEAN]
  /\ \A n \in Frame :
       /\ hpc[n] # "none" => hid[n] \in StreamIds
       /\ hpc[n] = "wait" => hobj[n] \in Frame
       /\ hpc[n] \in {"dataLock", "dataWrite"} => left[n] > 0

ShutdownTypeOK ==
  /\ closing \in BOOLEAN
  /\ goaways \in Nat
  /\ goawayID \in StreamIds \cup {0}
  /\ initiator \in Loops \cup {"nobody"}
  /\ expired \in BOOLEAN
  /\ link \in {"open", "closed", "reset"}
  /\ sup \in {"absent", "waiting", "returned", "timedOut"}
  /\ writeMu \in BOOLEAN

(***************************************************************************)
(* Every variable has a value of its type: the shape of the shared state   *)
(* of an HTTP2Connection (connection_state.go:21), what the reader carries *)
(* from one step to the next, and a request's stream, body and response.   *)
(***************************************************************************)
TypeOK == StreamTypeOK /\ LoopTypeOK /\ RequestTypeOK /\ ShutdownTypeOK

Init ==
  /\ streams = [id \in StreamIds |-> NoObj]
  /\ lastStreamID = 0
  /\ buffered = [o \in Frame |-> 0]
  /\ bodyClosed = [o \in Frame |-> FALSE]
  /\ chanClosed = [o \in Frame |-> FALSE]
  /\ pc = [t \in Loops |-> IF t = "reader" THEN "settings" ELSE "unstarted"]
  /\ cur = NoFrame
  /\ nread = 0
  /\ hpc = [n \in Frame |-> "none"]
  /\ hid = [n \in Frame |-> 0]
  /\ hobj = [n \in Frame |-> NoObj]
  /\ left = [n \in Frame |-> 0]
  /\ answered = [n \in Frame |-> FALSE]
  /\ closing = FALSE
  /\ link = "open"
  /\ writeMu = FALSE
  /\ goaways = 0
  /\ goawayID = 0
  /\ initiator = "nobody"
  /\ expired = FALSE
  /\ sup = IF Supervised THEN "waiting" ELSE "absent"
  /\ client = [id \in StreamIds |-> "idle"]
  /\ panic = "none"

-----------------------------------------------------------------------------
(* Helpers: the control points of the loops, and the framer's writes.      *)

\* A panic in any of the goroutines ends the process: none takes a step more.
Running == panic = "none"

At(t, label) == Running /\ pc[t] = label
Goto(t, label) == pc' = [pc EXCEPT ![t] = label]
HGoto(n, from, to) ==
  Running /\ hpc[n] = from /\ hpc' = [hpc EXCEPT ![n] = to]

\* A write succeeds until the connection is gone, and then fails; while the
\* peer does not read it makes no progress, which Fairness allows.
Gone == link # "open"
WriteOk == ~Gone

Lock == ~writeMu /\ writeMu' = TRUE
Unlock == writeMu' = FALSE

ActiveStreams == {id \in StreamIds : streams[id] # NoObj}

\* handleRequest goroutines that have started and not returned
InFlight == {n \in Frame : hpc[n] \notin {"none", "done"}}

-----------------------------------------------------------------------------
(* The stream map.                                                         *)

\* Mutant: lastStreamID is the latest stream, not the highest.
GetOrCreateStream_Latest(id) ==
  IF streams[id] # NoObj
  THEN UNCHANGED <<streams, lastStreamID>>
  ELSE /\ streams' = [streams EXCEPT ![id] = nread + 1]
       /\ lastStreamID' = id

\* An existing stream is returned as it is; a new one is the object named by
\* the frame being read, with an open, empty channel.
GetOrCreateStream(id) ==
  IF streams[id] # NoObj
  THEN UNCHANGED <<streams, lastStreamID>>
  ELSE /\ streams' = [streams EXCEPT ![id] = nread + 1]
       /\ lastStreamID' = IF id > lastStreamID THEN id ELSE lastStreamID

\* Mutant: bodyClosed is not tested.
CloseBody_Unchecked(o) ==
  /\ bodyClosed' = [bodyClosed EXCEPT ![o] = TRUE]
  /\ chanClosed' = [chanClosed EXCEPT ![o] = TRUE]
  /\ panic' = IF chanClosed[o] THEN "closeOfClosed" ELSE panic

\* Mutant: bodyClosed is not set.
CloseBody_Unmarked(o) ==
  IF bodyClosed[o]
  THEN UNCHANGED <<bodyClosed, chanClosed, panic>>
  ELSE /\ chanClosed' = [chanClosed EXCEPT ![o] = TRUE]
       /\ panic' = IF chanClosed[o] THEN "closeOfClosed" ELSE panic
       /\ UNCHANGED bodyClosed

\* The stream.mu section shared by CloseStream and handleData.
CloseBody(o) ==
  IF bodyClosed[o]
  THEN UNCHANGED <<bodyClosed, chanClosed, panic>>
  ELSE /\ bodyClosed' = [bodyClosed EXCEPT ![o] = TRUE]
       /\ chanClosed' = [chanClosed EXCEPT ![o] = TRUE]
       /\ panic' = IF chanClosed[o] THEN "closeOfClosed" ELSE panic

CloseStream(id) ==
  IF streams[id] = NoObj
  THEN UNCHANGED <<streams, bodyClosed, chanClosed, panic>>
  ELSE /\ CloseBody(streams[id])
       /\ streams' = [streams EXCEPT ![id] = NoObj]

-----------------------------------------------------------------------------
(* What the client may send: everything, or what RFC 9113 section 5.1      *)
(* allows when Strict.                                                     *)

Legal(kind, id, end) ==
  Strict =>
    CASE kind = "HEADERS" ->
           \/ /\ client[id] = "idle"
              /\ \A j \in StreamIds : j > id => client[j] = "idle"
           \/ client[id] = "open" /\ end
      [] kind = "DATA" -> client[id] = "open"
      [] kind = "RST_STREAM" -> client[id] # "idle"

ClientSends(kind, id, end) ==
  /\ Legal(kind, id, end)
  /\ client' = [client EXCEPT ![id] =
       CASE kind = "HEADERS" -> IF end THEN "ended" ELSE "open"
         [] kind = "DATA" -> IF end /\ @ = "open" THEN "ended" ELSE @
         [] kind = "RST_STREAM" -> "reset"]

-----------------------------------------------------------------------------
(* The reader: handleHTTP2, then processFrames.                            *)

\* The initial SETTINGS, written before any other goroutine exists; on an
\* error the connection is given up without being closed.
SendSettings ==
  /\ At("reader", "settings")
  /\ pc' = IF WriteOk THEN [pc EXCEPT !["reader"] = "read", !["idle"] = "tick"]
                      ELSE [pc EXCEPT !["reader"] = "return"]
  /\ UNCHANGED <<streamVars, frameVars, reqVars, shutVars, linkVars, writeMu>>

\* framer.ReadFrame returns a frame.  Frames that had arrived are still read
\* after the connection is closed.
ReadFrame ==
  /\ At("reader", "read")
  /\ nread < MaxFrames
  /\ nread' = nread + 1

\* SETTINGS or PING, answered under writeMu unless it is an ACK, or a frame
\* processFrames does nothing with.
ReadControl ==
  /\ ReadFrame
  /\ Goto("reader", "replyLock") \/ UNCHANGED pc
  /\ UNCHANGED <<streamVars, cur, reqVars, shutVars, linkVars, writeMu>>

\* Mutant: the stream is left to the first DATA frame to create.
ReadHeaders_NoStream(id, end) ==
  /\ ReadFrame
  /\ ClientSends("HEADERS", id, end)
  /\ hpc' = [hpc EXCEPT ![nread + 1] = IF end THEN "route" ELSE "lookup"]
  /\ hid' = [hid EXCEPT ![nread + 1] = id]
  /\ UNCHANGED <<mapVars, heapVars, panic, cur, pc, hobj, left, answered,
                 shutVars, linkVars, writeMu>>

\* HEADERS whose block decodes: go c.handleRequest(...)
ReadHeaders(id, end) ==
  /\ ReadFrame
  /\ ClientSends("HEADERS", id, end)
  /\ GetOrCreateStream(id)
  /\ hpc' = [hpc EXCEPT ![nread + 1] = IF end THEN "route" ELSE "lookup"]
  /\ hid' = [hid EXCEPT ![nread + 1] = id]
  /\ UNCHANGED <<heapVars, panic, cur, pc, hobj, left, answered, shutVars,
                 linkVars, writeMu>>

\* HEADERS whose block does not decode: RST_STREAM, and the stream stays.
ReadBadHeaders(id, end) ==
  /\ ~Strict
  /\ ReadFrame
  /\ ClientSends("HEADERS", id, end)
  /\ GetOrCreateStream(id)
  /\ Goto("reader", "replyLock")
  /\ UNCHANGED <<heapVars, panic, cur, reqVars, shutVars, linkVars, writeMu>>

ReadData(id, end) ==
  /\ ReadFrame
  /\ ClientSends("DATA", id, end)
  /\ GetOrCreateStream(id)
  /\ cur' = [id |-> id, end |-> end, obj |-> NoObj]
  /\ Goto("reader", "data")
  /\ UNCHANGED <<heapVars, panic, reqVars, shutVars, linkVars, writeMu>>

\* handleData looks the stream up again: it may be gone by now.
LookupData ==
  /\ At("reader", "data")
  /\ IF streams[cur.id] = NoObj
     THEN Goto("reader", "read") /\ cur' = NoFrame
     ELSE /\ Goto("reader", "send")
          /\ cur' = [cur EXCEPT !.obj = streams[cur.id]]
  /\ UNCHANGED <<streamVars, nread, reqVars, shutVars, linkVars, writeMu>>

\* select { case stream.response <- f.Data(): default: }, under no lock.  A
\* full channel drops the chunk; a closed one panics, default or not.
SendData ==
  /\ At("reader", "send")
  /\ IF chanClosed[cur.obj]
     THEN panic' = "sendOnClosed" /\ UNCHANGED buffered
     ELSE /\ buffered' = [buffered EXCEPT
                            ![cur.obj] = IF @ < ChanCap THEN @ + 1 ELSE @]
          /\ UNCHANGED panic
  /\ IF cur.end THEN Goto("reader", "end") /\ UNCHANGED cur
                ELSE Goto("reader", "read") /\ cur' = NoFrame
  /\ UNCHANGED <<mapVars, bodyClosed, chanClosed, client, nread, reqVars,
                 shutVars, linkVars, writeMu>>

\* Mutant: END_STREAM removes the stream.
EndData_Removes ==
  /\ At("reader", "end")
  /\ CloseStream(cur.id)
  /\ Goto("reader", "read")
  /\ cur' = NoFrame
  /\ UNCHANGED <<lastStreamID, buffered, client, nread, reqVars, shutVars,
                 linkVars, writeMu>>

\* END_STREAM: close the channel the waiting request reads from.
EndData ==
  /\ At("reader", "end")
  /\ CloseBody(cur.obj)
  /\ Goto("reader", "read")
  /\ cur' = NoFrame
  /\ UNCHANGED <<mapVars, buffered, client, nread, reqVars, shutVars,
                 linkVars, writeMu>>

\* WINDOW_UPDATE or PRIORITY on a stream: recorded, so the stream is created.
ReadStreamMeta(id) ==
  /\ ReadFrame
  /\ GetOrCreateStream(id)
  /\ UNCHANGED <<heapVars, client, panic, cur, pc, reqVars, shutVars,
                 linkVars, writeMu>>

ReadReset(id) ==
  /\ ReadFrame
  /\ ClientSends("RST_STREAM", id, FALSE)
  /\ CloseStream(id)
  /\ UNCHANGED <<lastStreamID, buffered, cur, pc, reqVars, shutVars, linkVars,
                 writeMu>>

\* GOAWAY, end of file or a malformed frame: processFrames returns.
ReadGoAway ==
  /\ At("reader", "read")
  /\ Goto("reader", "shutdown")
  /\ UNCHANGED <<streamVars, frameVars, reqVars, shutVars, linkVars, writeMu>>

\* ReadFrame fails: nothing is left to read of a closed or reset connection.
ReadFailed ==
  /\ At("reader", "read")
  /\ Gone
  /\ Goto("reader", "shutdown")
  /\ UNCHANGED <<streamVars, frameVars, reqVars, shutVars, linkVars, writeMu>>

\* Mutant: the reply is written without writeMu.
LockReply_Unlocked ==
  /\ At("reader", "replyLock")
  /\ Goto("reader", "replyWrite")
  /\ UNCHANGED <<streamVars, frameVars, reqVars, shutVars, linkVars, writeMu>>

\* The SETTINGS or PING acknowledgement, or RST_STREAM; errors are ignored.
LockReply ==
  /\ At("reader", "replyLock")
  /\ Lock
  /\ Goto("reader", "replyWrite")
  /\ UNCHANGED <<streamVars, frameVars, reqVars, shutVars, linkVars>>

WriteReply ==
  /\ At("reader", "replyWrite")
  /\ Unlock
  /\ Goto("reader", "read")
  /\ UNCHANGED <<streamVars, frameVars, reqVars, shutVars, linkVars>>

-----------------------------------------------------------------------------
(* handleRequest, one goroutine per HEADERS frame n.                       *)

\* waitForStreamBody looks the stream up by id, not by the object it has.
LookupBody(n) ==
  /\ HGoto(n, "lookup", IF streams[hid[n]] = NoObj THEN "route" ELSE "wait")
  /\ hobj' = [hobj EXCEPT ![n] = streams[hid[n]]]
  /\ UNCHANGED <<streamVars, frameVars, pc, hid, left, answered, shutVars,
                 linkVars, writeMu>>

ReceiveBody(n) ==
  /\ HGoto(n, "wait", "wait")
  /\ buffered[hobj[n]] > 0
  /\ buffered' = [buffered EXCEPT ![hobj[n]] = @ - 1]
  /\ UNCHANGED <<mapVars, bodyClosed, chanClosed, client, panic, frameVars,
                 pc, hid, hobj, left, answered, shutVars, linkVars, writeMu>>

\* The channel is closed and empty, or five seconds have passed.
BodyEnded(n) ==
  /\ HGoto(n, "wait", "route")
  /\ chanClosed[hobj[n]] /\ buffered[hobj[n]] = 0
  /\ hobj' = [hobj EXCEPT ![n] = NoObj]
  /\ UNCHANGED <<streamVars, frameVars, pc, hid, left, answered, shutVars,
                 linkVars, writeMu>>

\* Mutants: the request is given up, or waits for END_STREAM for ever.
BodyTimeout_GivesUp(n) ==
  /\ HGoto(n, "wait", "done")
  /\ hobj' = [hobj EXCEPT ![n] = NoObj]
  /\ UNCHANGED <<streamVars, frameVars, pc, hid, left, answered, shutVars,
                 linkVars, writeMu>>
BodyTimeout_Never(n) == FALSE

BodyTimeout(n) ==
  /\ HGoto(n, "wait", "route")
  /\ hobj' = [hobj EXCEPT ![n] = NoObj]
  /\ UNCHANGED <<streamVars, frameVars, pc, hid, left, answered, shutVars,
                 linkVars, writeMu>>

\* Build the response, run Router, whose body is some number of chunks, and
\* take writeMu.
Respond(n) ==
  /\ HGoto(n, "route", "headersWrite")
  /\ \E k \in 0..MaxChunks : left' = [left EXCEPT ![n] = k]
  /\ Lock
  /\ UNCHANGED <<streamVars, frameVars, pc, hid, hobj, answered, shutVars,
                 linkVars>>

LockData(n) ==
  /\ HGoto(n, "dataLock", "dataWrite")
  /\ Lock
  /\ UNCHANGED <<streamVars, frameVars, pc, hid, hobj, left, answered,
                 shutVars, linkVars>>

\* HEADERS, with END_STREAM when there is no body; on an error the goroutine
\* returns and leaves its stream in the map.
WriteHeaders(n) ==
  /\ HGoto(n, "headersWrite",
           IF Gone THEN "done" ELSE IF left[n] = 0 THEN "close" ELSE "dataLock")
  /\ Unlock
  /\ answered' = [answered EXCEPT ![n] = WriteOk /\ left[n] = 0]
  /\ UNCHANGED <<streamVars, frameVars, pc, hid, hobj, left, shutVars,
                 linkVars>>

\* One DATA frame, END_STREAM on the last; errors are ignored.
WriteData(n) ==
  /\ HGoto(n, "dataWrite", IF left[n] = 1 THEN "close" ELSE "dataLock")
  /\ Unlock
  /\ left' = [left EXCEPT ![n] = @ - 1]
  /\ answered' = [answered EXCEPT ![n] = WriteOk /\ left[n] = 1]
  /\ UNCHANGED <<streamVars, frameVars, pc, hid, hobj, shutVars, linkVars>>

\* Mutant: an answered stream stays in the map.
CloseResponse_Leaks(n) ==
  /\ HGoto(n, "close", "done")
  /\ UNCHANGED <<streamVars, frameVars, pc, hid, hobj, left, answered,
                 shutVars, linkVars, writeMu>>

CloseResponse(n) ==
  /\ HGoto(n, "close", "done")
  /\ CloseStream(hid[n])
  /\ UNCHANGED <<lastStreamID, buffered, client, frameVars, pc, hid, hobj,
                 left, answered, shutVars, linkVars, writeMu>>

HandleRequest(n) ==
  \/ LookupBody(n) \/ ReceiveBody(n) \/ BodyEnded(n) \/ BodyTimeout(n)
  \/ Respond(n) \/ WriteHeaders(n) \/ LockData(n) \/ WriteData(n)
  \/ CloseResponse(n)

-----------------------------------------------------------------------------
(* Shutdown.  The first loop to set closing sends GOAWAY and drains; the   *)
(* reader, if it comes second, closes the connection at once.              *)

\* Mutant: closing is not tested.
Shutdown_Again ==
  /\ At("reader", "shutdown")
  /\ Goto("reader", "goawayLock")
  /\ closing' = TRUE
  /\ initiator' = "reader"
  /\ UNCHANGED <<streamVars, frameVars, reqVars, goaways, goawayID, expired,
                 linkVars, writeMu>>

\* gracefulShutdown, deferred by processFrames
Shutdown ==
  /\ At("reader", "shutdown")
  /\ IF closing
     THEN Goto("reader", "close") /\ UNCHANGED <<closing, initiator>>
     ELSE /\ Goto("reader", "goawayLock")
          /\ closing' = TRUE
          /\ initiator' = "reader"
  /\ UNCHANGED <<streamVars, frameVars, reqVars, goaways, goawayID, expired,
                 linkVars, writeMu>>

\* Mutant: the loop goes on ticking while there are streams.
IdleReturn_Late ==
  /\ At("idle", "tick")
  /\ closing
  /\ ActiveStreams = {}
  /\ Goto("idle", "done")
  /\ UNCHANGED <<streamVars, frameVars, reqVars, shutVars, linkVars, writeMu>>

\* A tick of idleTimeoutLoop that finds the connection closing, or idle.
IdleReturn ==
  /\ At("idle", "tick")
  /\ closing
  /\ Goto("idle", "done")
  /\ UNCHANGED <<streamVars, frameVars, reqVars, shutVars, linkVars, writeMu>>

\* Mutant: closing is not set.
IdleFires_Unmarked ==
  /\ At("idle", "tick")
  /\ ~closing
  /\ ActiveStreams = {}
  /\ Goto("idle", "goawayLock")
  /\ UNCHANGED <<streamVars, frameVars, reqVars, shutVars, linkVars, writeMu>>

\* time.Since(c.lastActivity) > c.idleTimeout may hold at any tick.
IdleFires ==
  /\ At("idle", "tick")
  /\ ~closing
  /\ ActiveStreams = {}
  /\ closing' = TRUE
  /\ initiator' = "idle"
  /\ Goto("idle", "goawayLock")
  /\ UNCHANGED <<streamVars, frameVars, reqVars, goaways, goawayID, expired,
                 linkVars, writeMu>>

\* initiateGracefulShutdown, run by loop t
LockGoAway(t) ==
  /\ At(t, "goawayLock")
  /\ Lock
  /\ goawayID' = lastStreamID
  /\ Goto(t, "goawayWrite")
  /\ UNCHANGED <<streamVars, frameVars, reqVars, closing, goaways, initiator,
                 expired, linkVars>>

WriteGoAway(t) ==
  /\ At(t, "goawayWrite")
  /\ Unlock
  /\ goaways' = IF WriteOk THEN goaways + 1 ELSE goaways
  /\ Goto(t, "drain")
  /\ UNCHANGED <<streamVars, frameVars, reqVars, closing, goawayID, initiator,
                 expired, linkVars>>

\* Mutant: the streams are not counted.
Drained_Unpolled(t) ==
  /\ At(t, "drain")
  /\ Goto(t, "close")
  /\ UNCHANGED <<streamVars, frameVars, reqVars, shutVars, linkVars, writeMu>>

\* Poll until no stream is active, or for five seconds.
Drained(t) ==
  /\ At(t, "drain")
  /\ ActiveStreams = {}
  /\ Goto(t, "close")
  /\ UNCHANGED <<streamVars, frameVars, reqVars, shutVars, linkVars, writeMu>>

DrainExpires(t) ==
  /\ At(t, "drain")
  /\ ActiveStreams # {}
  /\ expired' = TRUE
  /\ Goto(t, "close")
  /\ UNCHANGED <<streamVars, frameVars, reqVars, closing, goaways, goawayID,
                 initiator, linkVars, writeMu>>

CloseConn(t) ==
  /\ At(t, "close")
  /\ link' = "closed"
  /\ Goto(t, IF t = "reader" THEN "return" ELSE "done")
  /\ UNCHANGED <<streamVars, frameVars, reqVars, shutVars, sup, writeMu>>

InitiateGracefulShutdown(t) ==
  \/ LockGoAway(t) \/ WriteGoAway(t) \/ Drained(t) \/ DrainExpires(t)
  \/ CloseConn(t)

-----------------------------------------------------------------------------
(* cmd/main.go: result <- srv.HandleTLSConnection(conn), or 15 seconds.    *)

\* The channel is unbuffered: after the timeout nobody receives.
Return ==
  /\ At("reader", "return")
  /\ sup # "timedOut"
  /\ sup' = IF sup = "waiting" THEN "returned" ELSE sup
  /\ Goto("reader", "done")
  /\ UNCHANGED <<streamVars, frameVars, reqVars, shutVars, link, writeMu>>

DeadlineClose ==
  /\ Running
  /\ sup = "waiting"
  /\ sup' = "timedOut"
  /\ link' = "closed"
  /\ UNCHANGED <<streamVars, frameVars, pc, reqVars, shutVars, writeMu>>

-----------------------------------------------------------------------------
(* The peer.                                                               *)

PeerReset ==
  /\ Running
  /\ link = "open"
  /\ link' = "reset"
  /\ UNCHANGED <<streamVars, frameVars, pc, reqVars, shutVars, sup, writeMu>>

-----------------------------------------------------------------------------
ReadAny ==
  \/ ReadControl
  \/ ReadGoAway
  \/ \E id \in StreamIds :
       \/ ReadStreamMeta(id)
       \/ ReadReset(id)
       \/ \E end \in BOOLEAN :
            ReadHeaders(id, end) \/ ReadBadHeaders(id, end) \/ ReadData(id, end)

\* What the reader does without waiting for the client.
ReaderStep ==
  \/ SendSettings \/ LookupData \/ SendData \/ EndData \/ LockReply
  \/ WriteReply \/ ReadFailed \/ Shutdown \/ Return
  \/ InitiateGracefulShutdown("reader")

IdleStep == IdleReturn \/ IdleFires \/ InitiateGracefulShutdown("idle")

\* Everything has returned, or the reader waits for a receiver that is gone,
\* or the process has.
Finished ==
  \/ ~Running
  \/ /\ \/ pc["reader"] = "done"
        \/ pc["reader"] = "return" /\ sup = "timedOut"
     /\ pc["idle"] \in {"unstarted", "done"}
     /\ InFlight = {}

Stop == Finished /\ UNCHANGED vars

Next ==
  \/ ReadAny
  \/ ReaderStep
  \/ IdleStep
  \/ \E n \in Frame : HandleRequest(n)
  \/ DeadlineClose
  \/ PeerReset
  \/ Stop

Spec == Init /\ [][Next]_vars

(***************************************************************************)
(* The Go scheduler runs every goroutine that can run, mutexes are handed  *)
(* over, and timers fire.  Nothing is assumed of the client: it need not   *)
(* send or go away, and a goroutine that writes to it may stay in the      *)
(* write for as long as the connection lives.                              *)
(***************************************************************************)
WritingPC == {"settings", "replyWrite", "goawayWrite", "headersWrite",
              "dataWrite"}
Unblocked(label) == Gone \/ label \notin WritingPC

Fairness ==
  /\ WF_vars(Unblocked(pc["reader"]) /\ ReaderStep)
  /\ WF_vars(Unblocked(pc["idle"]) /\ IdleStep)
  /\ \A n \in Frame : WF_vars(Unblocked(hpc[n]) /\ HandleRequest(n))
  /\ WF_vars(DeadlineClose)

FairSpec == Spec /\ Fairness
=============================================================================
