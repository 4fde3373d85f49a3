------------------------- MODULE H2ConnectionProofs -------------------------
(***************************************************************************)
(* One HTTP/2 connection (H2Connection), proved for every set of streams,  *)
(* number of frames, channel capacity and body length, with or without the *)
(* supervisor, for a lawful client or any other.                           *)
(*                                                                         *)
(* TypeOK is inductive: a step keeps each of its four parts because of all *)
(* four.  IInv (H2ConnectionProps) is inductive: first what each kind of   *)
(* step leaves alone, then one lemma per part of IInv with one case per    *)
(* goroutine, then the theorems, since each safety property follows from   *)
(* it.  Last, H2Connection implements H2Service: under IInv each step of a *)
(* goroutine maps to a step of the service or changes nothing of it.  (The *)
(* fair service is model-checked only.)                                    *)
(***************************************************************************)
EXTENDS H2ConnectionProps, TLAPS

-----------------------------------------------------------------------------
(* The initial state.                                                      *)

LEMMA TypeInit == Init => TypeOK
<1> SUFFICES ASSUME Init PROVE TypeOK
  OBVIOUS
<1> USE DEF Init
<1>1. StreamTypeOK
  BY ConnAssumption DEF StreamTypeOK, Object, NoObj
<1>2. LoopTypeOK
  BY ConnAssumption DEF LoopTypeOK, Loops, ReaderPC, IdlePC, Object, NoObj, NoFrame
<1>3. RequestTypeOK
  BY ConnAssumption DEF RequestTypeOK, HandlerPC, Object, NoObj
<1>4. ShutdownTypeOK
  BY DEF ShutdownTypeOK, Loops
<1> QED BY <1>1, <1>2, <1>3, <1>4 DEF TypeOK

\* The reader's frame, and the number of the next one.
LEMMA NoFrameType == NoFrame \in [id : StreamIds \cup {0}, end : BOOLEAN, obj : Object]
BY DEF NoFrame, Object, NoObj

LEMMA ReadFrameType ==
  ASSUME TypeOK, ReadFrame
  PROVE  nread' \in 0..MaxFrames /\ nread + 1 \in Frame
BY ConnAssumption DEF TypeOK, LoopTypeOK, ReadFrame, Frame

\* The program counters and the reader's locals, action by action.
LEMMA LoopTypeNext == TypeOK /\ [Next]_vars => LoopTypeOK'
<1> SUFFICES ASSUME TypeOK, [Next]_vars PROVE LoopTypeOK'
  OBVIOUS
<1> USE DEF LoopTypeOK, Loops, ReaderPC, IdlePC, At, Goto
<1>1. ASSUME ReadAny PROVE LoopTypeOK'
  <2>1. ASSUME NEW id \in StreamIds, NEW end \in BOOLEAN, ReadData(id, end)
        PROVE LoopTypeOK'
    <3>1. cur' = [id |-> id, end |-> end, obj |-> NoObj] /\ Goto("reader", "data")
      BY <2>1 DEF ReadData
    <3> QED BY <2>1, <3>1, ReadFrameType DEF TypeOK, ReadData, Object
  <2>2. ASSUME NEW id \in StreamIds, NEW end \in BOOLEAN,
               ReadHeaders(id, end) \/ ReadBadHeaders(id, end)
        PROVE LoopTypeOK'
    BY <2>2, ReadFrameType DEF TypeOK, ReadHeaders, ReadBadHeaders
  <2>3. ASSUME NEW id \in StreamIds, ReadStreamMeta(id) \/ ReadReset(id)
        PROVE LoopTypeOK'
    BY <2>3, ReadFrameType DEF TypeOK, ReadStreamMeta, ReadReset
  <2>4. CASE ReadControl \/ ReadGoAway
    BY <2>4, ReadFrameType DEF TypeOK, ReadControl, ReadGoAway, frameVars
  <2> QED BY <1>1, <2>1, <2>2, <2>3, <2>4 DEF ReadAny
<1>2. ASSUME ReaderStep PROVE LoopTypeOK'
  <2>1. CASE LookupData
    <3>1. CASE streams[cur.id] = NoObj
      BY <2>1, <3>1, NoFrameType DEF TypeOK, LookupData
    <3>2. CASE streams[cur.id] # NoObj
      <4>1. streams[cur.id] \in Frame
        BY <2>1, <3>2 DEF TypeOK, StreamTypeOK, LookupData, Object
      <4> QED BY <2>1, <3>2, <4>1 DEF TypeOK, LookupData, Object
    <3> QED BY <3>1, <3>2
  <2>2. CASE SendData
    <3>1. CASE cur.end
      BY <2>2, <3>1 DEF TypeOK, SendData
    <3>2. CASE ~cur.end
      BY <2>2, <3>2, NoFrameType DEF TypeOK, SendData
    <3> QED BY <3>1, <3>2
  <2>3. CASE EndData
    BY <2>3, NoFrameType DEF TypeOK, EndData
  <2>4. CASE SendSettings \/ LockReply \/ WriteReply \/ ReadFailed \/ Shutdown \/ Return
    BY <2>4 DEF TypeOK, SendSettings, LockReply, WriteReply, ReadFailed,
       Shutdown, Return, frameVars
  <2>5. CASE InitiateGracefulShutdown("reader")
    BY <2>5 DEF TypeOK, InitiateGracefulShutdown, LockGoAway, WriteGoAway,
       Drained, DrainExpires, CloseConn, frameVars
  <2> QED BY <1>2, <2>1, <2>2, <2>3, <2>4, <2>5 DEF ReaderStep
<1>3. ASSUME IdleStep PROVE LoopTypeOK'
  BY <1>3 DEF TypeOK, IdleStep, IdleReturn, IdleFires, InitiateGracefulShutdown,
     LockGoAway, WriteGoAway, Drained, DrainExpires, CloseConn, frameVars
<1>4. ASSUME NEW n \in Frame, HandleRequest(n) PROVE LoopTypeOK'
  BY <1>4 DEF TypeOK, HandleRequest, LookupBody, ReceiveBody, BodyEnded,
     BodyTimeout, Respond, WriteHeaders, LockData, WriteData, CloseResponse, frameVars
<1>5. CASE DeadlineClose \/ PeerReset \/ Stop \/ UNCHANGED vars
  BY <1>5 DEF TypeOK, DeadlineClose, PeerReset, Stop, vars, frameVars
<1> QED BY <1>1, <1>2, <1>3, <1>4, <1>5 DEF Next

-----------------------------------------------------------------------------
(* What the helpers on the stream map return.                              *)

LEMMA GetOrCreateType ==
  ASSUME TypeOK, NEW id \in StreamIds, ReadFrame, GetOrCreateStream(id)
  PROVE  /\ streams' \in [StreamIds -> Object]
         /\ lastStreamID' \in StreamIds \cup {0}
<1>1. nread + 1 \in Object
  BY ReadFrameType DEF Object
<1> QED BY <1>1 DEF TypeOK, StreamTypeOK, GetOrCreateStream

LEMMA CloseBodyType ==
  ASSUME TypeOK, NEW o \in Frame, CloseBody(o)
  PROVE  /\ bodyClosed' \in [Frame -> BOOLEAN]
         /\ chanClosed' \in [Frame -> BOOLEAN]
         /\ panic' \in {"none", "sendOnClosed", "closeOfClosed"}
BY DEF TypeOK, StreamTypeOK, CloseBody

LEMMA CloseStreamType ==
  ASSUME TypeOK, NEW id \in StreamIds, CloseStream(id)
  PROVE  /\ streams' \in [StreamIds -> Object]
         /\ bodyClosed' \in [Frame -> BOOLEAN]
         /\ chanClosed' \in [Frame -> BOOLEAN]
         /\ panic' \in {"none", "sendOnClosed", "closeOfClosed"}
<1>1. CASE streams[id] = NoObj
  BY <1>1 DEF TypeOK, StreamTypeOK, CloseStream
<1>2. CASE streams[id] # NoObj
  <2>1. streams[id] \in Frame
    BY <1>2 DEF TypeOK, StreamTypeOK, Object
  <2>2. CloseBody(streams[id]) /\ streams' = [streams EXCEPT ![id] = NoObj]
    BY <1>2 DEF CloseStream
  <2> QED BY <2>1, <2>2, CloseBodyType DEF TypeOK, StreamTypeOK, Object
<1> QED BY <1>1, <1>2

LEMMA ClientType ==
  ASSUME TypeOK, NEW kind \in {"HEADERS", "DATA", "RST_STREAM"},
         NEW id \in StreamIds, NEW end \in BOOLEAN, ClientSends(kind, id, end)
  PROVE  client' \in [StreamIds -> {"idle", "open", "ended", "reset"}]
BY DEF TypeOK, StreamTypeOK, ClientSends

\* The map, the channels and the client.
LEMMA StreamTypeNext == TypeOK /\ [Next]_vars => StreamTypeOK'
<1> SUFFICES ASSUME TypeOK, [Next]_vars PROVE StreamTypeOK'
  OBVIOUS
<1> USE DEF StreamTypeOK
<1>1. ASSUME ReadAny PROVE StreamTypeOK'
  <2>1. ASSUME NEW id \in StreamIds, NEW end \in BOOLEAN,
               ReadHeaders(id, end) \/ ReadBadHeaders(id, end) \/ ReadData(id, end)
        PROVE StreamTypeOK'
    BY <2>1, GetOrCreateType, ClientType
       DEF TypeOK, ReadHeaders, ReadBadHeaders, ReadData, heapVars
  <2>2. ASSUME NEW id \in StreamIds, ReadStreamMeta(id) PROVE StreamTypeOK'
    BY <2>2, GetOrCreateType DEF TypeOK, ReadStreamMeta, heapVars
  <2>3. ASSUME NEW id \in StreamIds, ReadReset(id) PROVE StreamTypeOK'
    BY <2>3, CloseStreamType, ClientType DEF TypeOK, ReadReset
  <2>4. CASE ReadControl \/ ReadGoAway
    BY <2>4 DEF TypeOK, ReadControl, ReadGoAway, streamVars, mapVars, heapVars
  <2> QED BY <1>1, <2>1, <2>2, <2>3, <2>4 DEF ReadAny
<1>2. ASSUME ReaderStep PROVE StreamTypeOK'
  <2>1. CASE SendData
    <3>1. buffered' \in [Frame -> 0..ChanCap]
      BY <2>1, ConnAssumption DEF TypeOK, SendData
    <3> QED BY <2>1, <3>1 DEF TypeOK, SendData, mapVars
  <2>2. CASE EndData
    BY <2>2, CloseBodyType DEF TypeOK, LoopTypeOK, EndData, mapVars, At
  <2>3. CASE ~(SendData \/ EndData)
    BY <1>2, <2>3 DEF TypeOK, ReaderStep, SendSettings, LookupData, LockReply,
       WriteReply, ReadFailed, Shutdown, Return, InitiateGracefulShutdown,
       LockGoAway, WriteGoAway, Drained, DrainExpires, CloseConn, streamVars,
       mapVars, heapVars
  <2> QED BY <2>1, <2>2, <2>3
<1>3. ASSUME IdleStep PROVE StreamTypeOK'
  BY <1>3 DEF TypeOK, IdleStep, IdleReturn, IdleFires, InitiateGracefulShutdown,
     LockGoAway, WriteGoAway, Drained, DrainExpires, CloseConn, streamVars,
     mapVars, heapVars
<1>4. ASSUME NEW n \in Frame, HandleRequest(n) PROVE StreamTypeOK'
  <2>1. CASE ReceiveBody(n)
    <3>1. hobj[n] \in Frame /\ buffered[hobj[n]] > 0
      BY <2>1 DEF TypeOK, RequestTypeOK, ReceiveBody, HGoto
    <3>2. buffered' \in [Frame -> 0..ChanCap]
      BY <2>1, <3>1, ConnAssumption DEF TypeOK, ReceiveBody
    <3> QED BY <2>1, <3>2 DEF TypeOK, ReceiveBody, mapVars
  <2>2. CASE CloseResponse(n)
    BY <2>2, CloseStreamType DEF TypeOK, RequestTypeOK, CloseResponse, HGoto
  <2>3. CASE ~(ReceiveBody(n) \/ CloseResponse(n))
    BY <1>4, <2>3 DEF TypeOK, HandleRequest, LookupBody, BodyEnded, BodyTimeout,
       Respond, WriteHeaders, LockData, WriteData, streamVars, mapVars, heapVars
  <2> QED BY <2>1, <2>2, <2>3
<1>5. CASE DeadlineClose \/ PeerReset \/ Stop \/ UNCHANGED vars
  BY <1>5 DEF TypeOK, DeadlineClose, PeerReset, Stop, vars, streamVars, mapVars,
     heapVars
<1> QED BY <1>1, <1>2, <1>3, <1>4, <1>5 DEF Next

\* The requests.
LEMMA RequestTypeNext == TypeOK /\ [Next]_vars => RequestTypeOK'
<1> SUFFICES ASSUME TypeOK, [Next]_vars PROVE RequestTypeOK'
  OBVIOUS
<1> USE DEF RequestTypeOK, HandlerPC
<1>1. ASSUME ReadAny PROVE RequestTypeOK'
  <2>1. ASSUME NEW id \in StreamIds, NEW end \in BOOLEAN, ReadHeaders(id, end)
        PROVE RequestTypeOK'
    BY <2>1, ReadFrameType DEF TypeOK, ReadHeaders
  <2>2. CASE ~\E id \in StreamIds, end \in BOOLEAN : ReadHeaders(id, end)
    BY <1>1, <2>2 DEF TypeOK, ReadAny, ReadControl, ReadGoAway, ReadStreamMeta,
       ReadReset, ReadBadHeaders, ReadData, reqVars
  <2> QED BY <2>1, <2>2
<1>2. ASSUME ReaderStep PROVE RequestTypeOK'
  BY <1>2 DEF TypeOK, ReaderStep, SendSettings, LookupData, SendData, EndData,
     LockReply, WriteReply, ReadFailed, Shutdown, Return,
     InitiateGracefulShutdown, LockGoAway, WriteGoAway, Drained, DrainExpires,
     CloseConn, reqVars
<1>3. ASSUME IdleStep PROVE RequestTypeOK'
  BY <1>3 DEF TypeOK, IdleStep, IdleReturn, IdleFires, InitiateGracefulShutdown,
     LockGoAway, WriteGoAway, Drained, DrainExpires, CloseConn, reqVars
<1>4. ASSUME NEW n \in Frame, HandleRequest(n) PROVE RequestTypeOK'
  <2> USE DEF HGoto
  <2>1. CASE LookupBody(n)
    BY <2>1 DEF TypeOK, StreamTypeOK, LookupBody, Object
  <2>2. CASE ReceiveBody(n)
    BY <2>2 DEF TypeOK, ReceiveBody
  <2>3. CASE BodyEnded(n) \/ BodyTimeout(n)
    BY <2>3 DEF TypeOK, BodyEnded, BodyTimeout, Object
  <2>4. CASE Respond(n)
    BY <2>4 DEF TypeOK, Respond
  <2>5. CASE WriteHeaders(n)
    <3>1. answered' \in [Frame -> BOOLEAN]
      BY <2>5 DEF TypeOK, WriteHeaders
    <3>2. left[n] # 0 => left[n] > 0
      BY ConnAssumption DEF TypeOK
    <3> QED BY <2>5, <3>1, <3>2 DEF TypeOK, WriteHeaders
  <2>6. CASE LockData(n)
    BY <2>6 DEF TypeOK, LockData
  <2>7. CASE WriteData(n)
    <3>1. answered' \in [Frame -> BOOLEAN]
      BY <2>7 DEF TypeOK, WriteData
    <3>2. left[n] > 0 /\ left[n] - 1 \in 0..MaxChunks
      BY <2>7, ConnAssumption DEF TypeOK, WriteData
    <3>3. left[n] # 1 => left[n] - 1 > 0
      BY <3>2, ConnAssumption DEF TypeOK
    <3> QED BY <2>7, <3>1, <3>2, <3>3 DEF TypeOK, WriteData
  <2>8. CASE CloseResponse(n)
    BY <2>8 DEF TypeOK, CloseResponse
  <2> QED BY <1>4, <2>1, <2>2, <2>3, <2>4, <2>5, <2>6, <2>7, <2>8 DEF HandleRequest
<1>5. CASE DeadlineClose \/ PeerReset \/ Stop \/ UNCHANGED vars
  BY <1>5 DEF TypeOK, DeadlineClose, PeerReset, Stop, vars, reqVars
<1> QED BY <1>1, <1>2, <1>3, <1>4, <1>5 DEF Next

\* Shutdown, lock, connection and supervisor.
LEMMA ShutdownTypeNext == TypeOK /\ [Next]_vars => ShutdownTypeOK'
<1> SUFFICES ASSUME TypeOK, [Next]_vars PROVE ShutdownTypeOK'
  OBVIOUS
<1> USE DEF ShutdownTypeOK, shutVars, linkVars, Lock, Unlock
<1>1. ASSUME ReadAny PROVE ShutdownTypeOK'
  <2>1. UNCHANGED <<shutVars, linkVars, writeMu>>
    BY <1>1 DEF ReadAny, ReadControl, ReadGoAway, ReadStreamMeta,
       ReadReset, ReadHeaders, ReadBadHeaders, ReadData
  <2> QED BY <2>1 DEF TypeOK
<1>2. ASSUME NEW t \in Loops, InitiateGracefulShutdown(t) PROVE ShutdownTypeOK'
  <2>1. CASE WriteGoAway(t)
    <3>1. goaways' = goaways \/ goaways' = goaways + 1
      BY <2>1 DEF WriteGoAway
    <3>2. goaways' \in Nat
      BY <3>1 DEF TypeOK
    <3> QED BY <2>1, <3>2 DEF TypeOK, WriteGoAway
  <2>2. CASE LockGoAway(t)
    BY <2>2 DEF TypeOK, StreamTypeOK, LockGoAway
  <2>3. CASE Drained(t) \/ DrainExpires(t) \/ CloseConn(t)
    BY <2>3 DEF TypeOK, Drained, DrainExpires, CloseConn
  <2> QED BY <1>2, <2>1, <2>2, <2>3 DEF InitiateGracefulShutdown
<1>3. ASSUME ReaderStep \/ IdleStep PROVE ShutdownTypeOK'
  <2>1. CASE InitiateGracefulShutdown("reader") \/ InitiateGracefulShutdown("idle")
    BY <1>2, <2>1 DEF Loops
  <2>2. CASE IdleReturn \/ IdleFires
    BY <2>2 DEF TypeOK, Loops, IdleReturn, IdleFires
  <2>3. CASE SendSettings \/ LookupData \/ SendData \/ EndData \/ LockReply
             \/ WriteReply \/ ReadFailed \/ Shutdown \/ Return
    BY <2>3 DEF TypeOK, Loops, SendSettings, LookupData, SendData, EndData,
       LockReply, WriteReply, ReadFailed, Shutdown, Return
  <2> QED BY <1>3, <2>1, <2>2, <2>3 DEF ReaderStep, IdleStep
<1>4. ASSUME NEW n \in Frame, HandleRequest(n) PROVE ShutdownTypeOK'
  BY <1>4 DEF TypeOK, HandleRequest, LookupBody, ReceiveBody, BodyEnded,
     BodyTimeout, Respond, WriteHeaders, LockData, WriteData, CloseResponse
<1>5. CASE DeadlineClose \/ PeerReset \/ Stop \/ UNCHANGED vars
  BY <1>5 DEF TypeOK, DeadlineClose, PeerReset, Stop, vars
<1> QED BY <1>1, <1>3, <1>4, <1>5 DEF Next

-----------------------------------------------------------------------------
(***************************************************************************)
(* Every variable of a connection keeps to its type, whatever its peer and *)
(* its goroutines do.                                                      *)
(***************************************************************************)
THEOREM TypeCorrect == Spec => []TypeOK
<1>1. TypeOK /\ [Next]_vars => TypeOK'
  BY StreamTypeNext, LoopTypeNext, RequestTypeNext, ShutdownTypeNext DEF TypeOK
<1> QED BY <1>1, TypeInit, PTL DEF Spec

-----------------------------------------------------------------------------
(* What a step of each goroutine may change.                               *)

\* What reading a frame leaves alone, whatever the frame.
LEMMA ReadAnyLeaves ==
  ASSUME ReadAny
  PROVE  UNCHANGED <<buffered, hobj, left, answered, shutVars, linkVars,
                     writeMu>>
BY DEF ReadAny, ReadControl, ReadGoAway, ReadStreamMeta, ReadReset,
   ReadHeaders, ReadBadHeaders, ReadData, streamVars, heapVars, reqVars

\* The reader only reads in its read state; it then replies, handles DATA, shuts
\* down or reads on. The idle loop stays where it is.
LEMMA ReadAnyMoves ==
  ASSUME TypeOK, ReadAny
  PROVE  /\ Running /\ pc["reader"] = "read"
         /\ pc'["reader"] \in {"read", "replyLock", "data", "shutdown"}
         /\ pc'["idle"] = pc["idle"]
BY DEF TypeOK, LoopTypeOK, Loops, At, Goto, ReadAny, ReadFrame, ReadControl,
   ReadGoAway, ReadStreamMeta, ReadReset, ReadHeaders, ReadBadHeaders, ReadData

\* A frame starts at most one handleRequest goroutine: the one of its own
\* number, on a stream that GetOrCreateStream has put in the map.
LEMMA ReadAnyStarts ==
  ASSUME TypeOK, ReadAny
  PROVE  \A n \in Frame :
           \/ hpc'[n] = hpc[n] /\ hid'[n] = hid[n]
           \/ /\ n = nread + 1 /\ nread' = n
              /\ hpc'[n] \in {"lookup", "route"}
              /\ hid'[n] \in StreamIds
              /\ GetOrCreateStream(hid'[n])
<1>1. ASSUME NEW id \in StreamIds, NEW end \in BOOLEAN, ReadHeaders(id, end),
             NEW n \in Frame
      PROVE  \/ hpc'[n] = hpc[n] /\ hid'[n] = hid[n]
             \/ /\ n = nread + 1 /\ nread' = n
                /\ hpc'[n] \in {"lookup", "route"}
                /\ hid'[n] \in StreamIds
                /\ GetOrCreateStream(hid'[n])
  BY <1>1, ReadFrameType DEF TypeOK, RequestTypeOK, ReadHeaders, ReadFrame
<1>2. CASE ~\E id \in StreamIds, end \in BOOLEAN : ReadHeaders(id, end)
  BY <1>2 DEF ReadAny, ReadControl, ReadGoAway, ReadStreamMeta, ReadReset,
     ReadBadHeaders, ReadData, reqVars
<1> QED BY <1>1, <1>2

\* What the reader's own steps leave alone. SETTINGS is written once.
LEMMA ReaderLeaves ==
  ASSUME TypeOK, ReaderStep
  PROVE  /\ UNCHANGED <<mapVars, client, nread, reqVars>>
         /\ pc["reader"] # "settings" => pc'["idle"] = pc["idle"]
         /\ pc'["reader"] # "settings"
BY DEF TypeOK, LoopTypeOK, Loops, ReaderPC, At, Goto, ReaderStep, SendSettings,
   LookupData, SendData, EndData, LockReply, WriteReply, ReadFailed, Shutdown,
   Return, InitiateGracefulShutdown, LockGoAway, WriteGoAway, Drained,
   DrainExpires, CloseConn, streamVars, frameVars

\* What idleTimeoutLoop leaves alone: it touches no stream.
LEMMA IdleLeaves ==
  ASSUME TypeOK, IdleStep
  PROVE  /\ UNCHANGED <<streamVars, frameVars, reqVars, sup>>
         /\ pc'["reader"] = pc["reader"]
         /\ pc["idle"] # "unstarted"
BY DEF TypeOK, LoopTypeOK, Loops, ReaderPC, At, Goto, IdleStep, IdleReturn,
   IdleFires, InitiateGracefulShutdown, LockGoAway, WriteGoAway, Drained,
   DrainExpires, CloseConn, linkVars, shutVars

\* What a handleRequest goroutine leaves alone: the loops, the shutdown and the
\* other requests.
LEMMA HandlerLeaves ==
  ASSUME TypeOK, NEW n \in Frame, HandleRequest(n)
  PROVE  /\ UNCHANGED <<lastStreamID, client, frameVars, pc, hid, shutVars,
                        linkVars>>
         /\ hpc[n] # "none"
         /\ hpc[n] # "done"
         /\ hpc'[n] # "none"
         /\ \A m \in Frame \ {n} : hpc'[m] = hpc[m]
BY DEF TypeOK, RequestTypeOK, HGoto, HandleRequest, LookupBody, ReceiveBody,
   BodyEnded, BodyTimeout, Respond, WriteHeaders, LockData, WriteData,
   CloseResponse, streamVars, mapVars, heapVars, reqVars

\* The supervisor and the peer only end the connection.
LEMMA OutsideLeaves ==
  ASSUME DeadlineClose \/ PeerReset \/ Stop \/ UNCHANGED vars
  PROVE  UNCHANGED <<streamVars, frameVars, pc, reqVars, shutVars, writeMu>>
BY DEF DeadlineClose, PeerReset, Stop, vars

\* A connection that has been closed or reset does not come back.
LEMMA GoneStays ==
  ASSUME TypeOK, [Next]_vars, Gone
  PROVE Gone'
<1>1. link' = link \/ link' = "closed" \/ (link = "open" /\ link' = "reset")
  <2>1. CASE ReadAny
    BY <2>1, ReadAnyLeaves DEF linkVars
  <2>2. CASE \E n \in Frame : HandleRequest(n)
    BY <2>2, HandlerLeaves DEF linkVars
  <2>3. CASE IdleStep
    BY <2>3 DEF IdleStep, IdleReturn, IdleFires, InitiateGracefulShutdown,
       LockGoAway, WriteGoAway, Drained, DrainExpires, CloseConn, linkVars
  <2>4. CASE ReaderStep
    BY <2>4 DEF ReaderStep, SendSettings, LookupData, SendData, EndData,
       LockReply, WriteReply, ReadFailed, Shutdown, Return,
       InitiateGracefulShutdown, LockGoAway, WriteGoAway, Drained,
       DrainExpires, CloseConn, linkVars
  <2>5. CASE DeadlineClose \/ PeerReset \/ Stop \/ UNCHANGED vars
    BY <2>5 DEF DeadlineClose, PeerReset, Stop, vars, linkVars
  <2> QED BY <2>1, <2>2, <2>3, <2>4, <2>5 DEF Next
<1> QED BY <1>1 DEF Gone


-----------------------------------------------------------------------------
(* The parts of the invariant that stand on their own.                     *)

\* Until the initial SETTINGS is written the reader is alone.
LEMMA StartNext == TypeOK /\ StartInv /\ [Next]_vars => StartInv'
<1> SUFFICES ASSUME TypeOK, StartInv, [Next]_vars, pc'["reader"] = "settings"
             PROVE  /\ pc'["idle"] = "unstarted" /\ ~writeMu'
                    /\ \A n \in Frame : hpc'[n] = "none"
  BY DEF StartInv
<1>1. ~ReadAny /\ ~ReaderStep
  BY ReadAnyMoves, ReaderLeaves
<1>2. CASE IdleStep
  BY <1>2, IdleLeaves DEF StartInv
<1>3. CASE \E n \in Frame : HandleRequest(n)
  BY <1>3, HandlerLeaves DEF StartInv
<1>4. CASE DeadlineClose \/ PeerReset \/ Stop \/ UNCHANGED vars
  BY <1>4, OutsideLeaves DEF StartInv, reqVars
<1> QED BY <1>1, <1>2, <1>3, <1>4 DEF Next

\* A goroutine is inside the framer only while it holds writeMu: who takes the
\* lock finds it free, so nobody else is inside, and who leaves gives it back.
LEMMA LockNext == TypeOK /\ StartInv /\ LockInv /\ [Next]_vars => LockInv'
<1> SUFFICES ASSUME TypeOK, StartInv, LockInv, [Next]_vars PROVE LockInv'
  OBVIOUS
<1> USE DEF LockInv, FramerExclusive, WritingPC, Loops
<1>1. CASE ReadAny
  <2>1. \A n \in Frame : hpc'[n] = hpc[n] \/ hpc'[n] \in {"route", "lookup"}
    BY <1>1, ReadAnyStarts
  <2> QED BY <1>1, <2>1, ReadAnyMoves, ReadAnyLeaves
<1>2. CASE ReaderStep
  <2> USE DEF TypeOK, LoopTypeOK, At, Goto, reqVars
  <2>1. CASE SendSettings
    BY <2>1 DEF SendSettings, StartInv
  <2>2. CASE LockReply
    BY <2>2 DEF LockReply, Lock
  <2>3. CASE WriteReply
    BY <2>3 DEF WriteReply, Unlock
  <2>4. CASE LockGoAway("reader")
    BY <2>4 DEF LockGoAway, Lock
  <2>5. CASE WriteGoAway("reader")
    BY <2>5 DEF WriteGoAway, Unlock
  <2>6. CASE \/ LookupData \/ SendData \/ EndData \/ ReadFailed \/ Shutdown
             \/ Return
    BY <2>6 DEF LookupData, SendData, EndData, ReadFailed, Shutdown, Return
  <2>7. CASE Drained("reader") \/ DrainExpires("reader") \/ CloseConn("reader")
    BY <2>7 DEF Drained, DrainExpires, CloseConn
  <2> QED BY <1>2, <2>1, <2>2, <2>3, <2>4, <2>5, <2>6, <2>7 DEF ReaderStep,
     InitiateGracefulShutdown
<1>3. CASE IdleStep
  <2> USE DEF TypeOK, LoopTypeOK, At, Goto, reqVars, StartInv
  <2>1. CASE LockGoAway("idle")
    BY <2>1 DEF LockGoAway, Lock
  <2>2. CASE WriteGoAway("idle")
    BY <2>2 DEF WriteGoAway, Unlock
  <2>3. CASE IdleReturn \/ IdleFires
    BY <2>3 DEF IdleReturn, IdleFires
  <2>4. CASE Drained("idle") \/ DrainExpires("idle") \/ CloseConn("idle")
    BY <2>4 DEF Drained, DrainExpires, CloseConn
  <2> QED BY <1>3, <2>1, <2>2, <2>3, <2>4 DEF IdleStep,
     InitiateGracefulShutdown
<1>4. ASSUME NEW n \in Frame, HandleRequest(n) PROVE LockInv'
  <2>1. /\ UNCHANGED pc
        /\ pc["reader"] # "settings"
        /\ \A m \in Frame \ {n} : hpc'[m] = hpc[m]
    BY <1>4, HandlerLeaves DEF StartInv
  <2>2. CASE Respond(n) \/ LockData(n)
    BY <2>1, <2>2 DEF TypeOK, RequestTypeOK, HGoto, Respond, LockData, Lock
  <2>3. CASE WriteHeaders(n) \/ WriteData(n)
    BY <2>1, <2>3 DEF TypeOK, RequestTypeOK, HGoto, WriteHeaders, WriteData,
       Unlock
  <2>4. CASE \/ LookupBody(n) \/ ReceiveBody(n) \/ BodyEnded(n)
             \/ BodyTimeout(n) \/ CloseResponse(n)
    BY <2>1, <2>4 DEF TypeOK, RequestTypeOK, HGoto, LookupBody, ReceiveBody,
       BodyEnded, BodyTimeout, CloseResponse
  <2> QED BY <1>4, <2>2, <2>3, <2>4 DEF HandleRequest
<1>5. CASE DeadlineClose \/ PeerReset \/ Stop \/ UNCHANGED vars
  BY <1>5, OutsideLeaves DEF reqVars
<1> QED BY <1>1, <1>2, <1>3, <1>4, <1>5 DEF Next

\* closing is set once, by the loop that then says GOAWAY and drains.
LEMMA ShutdownNext ==
  TypeOK /\ StartInv /\ ShutdownInv /\ [Next]_vars => ShutdownInv'
<1> SUFFICES ASSUME TypeOK, StartInv, ShutdownInv, [Next]_vars
             PROVE  ShutdownInv'
  OBVIOUS
<1> USE DEF ShutdownInv, DrainPC, Loops, shutVars
<1>1. CASE ReadAny
  BY <1>1, ReadAnyLeaves, ReadAnyMoves DEF TypeOK, ShutdownTypeOK
<1>2. CASE ReaderStep
  <2> USE DEF TypeOK, LoopTypeOK, ShutdownTypeOK, At, Goto
  <2>1. CASE LookupData \/ SendData \/ EndData \/ LockReply \/ WriteReply
             \/ ReadFailed \/ Return
    BY <2>1 DEF LookupData, SendData, EndData, LockReply, WriteReply,
       ReadFailed, Return
  <2>2. CASE SendSettings
    BY <2>2 DEF SendSettings, StartInv
  <2>3. CASE Shutdown
    BY <2>3 DEF Shutdown
  <2>4. CASE WriteGoAway("reader")
    BY <2>4 DEF WriteGoAway
  <2>5. CASE \/ LockGoAway("reader") \/ Drained("reader")
             \/ DrainExpires("reader") \/ CloseConn("reader")
    BY <2>5 DEF LockGoAway, Drained, DrainExpires, CloseConn
  <2> QED BY <1>2, <2>1, <2>2, <2>3, <2>4, <2>5 DEF ReaderStep,
     InitiateGracefulShutdown
<1>3. CASE IdleStep
  <2> USE DEF TypeOK, LoopTypeOK, ShutdownTypeOK, At, Goto
  <2>1. CASE IdleReturn \/ IdleFires
    BY <2>1 DEF IdleReturn, IdleFires
  <2>2. CASE WriteGoAway("idle")
    BY <2>2 DEF WriteGoAway
  <2>3. CASE \/ LockGoAway("idle") \/ Drained("idle")
             \/ DrainExpires("idle") \/ CloseConn("idle")
    BY <2>3 DEF LockGoAway, Drained, DrainExpires, CloseConn
  <2> QED BY <1>3, <2>1, <2>2, <2>3 DEF IdleStep, InitiateGracefulShutdown
<1>4. CASE \E n \in Frame : HandleRequest(n)
  BY <1>4, HandlerLeaves
<1>5. CASE DeadlineClose \/ PeerReset \/ Stop \/ UNCHANGED vars
  BY <1>5, OutsideLeaves
<1> QED BY <1>1, <1>2, <1>3, <1>4, <1>5 DEF Next

\* A request comes to its end with its response written or the connection gone,
\* and goes no further than its end.
LEMMA ResponseNext ==
  TypeOK /\ ResponseInv /\ MapInv /\ [Next]_vars => ResponseInv'
<1> SUFFICES ASSUME TypeOK, ResponseInv, MapInv, [Next]_vars PROVE ResponseInv'
  OBVIOUS
<1> USE GoneStays DEF ResponseInv
<1>1. CASE ReadAny
  <2>1. nread \in Nat
    BY ConnAssumption DEF TypeOK, LoopTypeOK
  <2>2. nread + 1 \in Frame => hpc[nread + 1] = "none"
    BY <2>1 DEF MapInv
  <2> QED BY <1>1, <2>2, ReadAnyLeaves, ReadAnyStarts
<1>2. CASE ReaderStep
  BY <1>2, ReaderLeaves DEF reqVars
<1>3. CASE IdleStep
  BY <1>3, IdleLeaves DEF reqVars
<1>4. ASSUME NEW n \in Frame, HandleRequest(n) PROVE ResponseInv'
  <2> USE DEF TypeOK, RequestTypeOK, HGoto
  <2>1. CASE WriteHeaders(n)
    BY <2>1 DEF WriteHeaders, WriteOk
  <2>2. CASE WriteData(n)
    BY <2>2 DEF WriteData, WriteOk
  <2>3. CASE LookupBody(n) \/ ReceiveBody(n) \/ BodyEnded(n) \/ BodyTimeout(n)
             \/ Respond(n) \/ LockData(n) \/ CloseResponse(n)
    BY <2>3 DEF LookupBody, ReceiveBody, BodyEnded, BodyTimeout, Respond,
       LockData, CloseResponse
  <2> QED BY <1>4, <2>1, <2>2, <2>3 DEF HandleRequest
<1>5. CASE DeadlineClose \/ PeerReset \/ Stop \/ UNCHANGED vars
  BY <1>5, OutsideLeaves DEF reqVars
<1> QED BY <1>1, <1>2, <1>3, <1>4, <1>5 DEF Next

\* The section shared by CloseStream and handleData keeps bodyClosed and the
\* channel in step, so it never closes a closed channel.
LEMMA CloseBodyChannel ==
  ASSUME TypeOK, ChannelInv, NEW o \in Frame, CloseBody(o)
  PROVE  ChannelInv'
BY DEF TypeOK, StreamTypeOK, ChannelInv, NoDoubleClose, CloseBody

\* The same for CloseStream, which may find no stream.
LEMMA CloseStreamChannel ==
  ASSUME TypeOK, ChannelInv, NEW id \in StreamIds, CloseStream(id)
  PROVE  ChannelInv'
<1>1. CASE streams[id] = NoObj
  BY <1>1 DEF CloseStream, ChannelInv, NoDoubleClose
<1>2. CASE streams[id] # NoObj
  <2>1. streams[id] \in Frame
    BY <1>2 DEF TypeOK, StreamTypeOK, Object
  <2> QED BY <1>2, <2>1, CloseBodyChannel DEF CloseStream
<1> QED BY <1>1, <1>2

\* Nothing else closes a channel.
LEMMA ChannelNext == TypeOK /\ ChannelInv /\ [Next]_vars => ChannelInv'
<1> SUFFICES ASSUME TypeOK, ChannelInv, [Next]_vars PROVE ChannelInv'
  OBVIOUS
<1> USE DEF streamVars, heapVars
<1>1. CASE ReadAny
  <2>1. ASSUME NEW id \in StreamIds, ReadReset(id) PROVE ChannelInv'
    BY <2>1, CloseStreamChannel DEF ReadReset
  <2>2. CASE ~\E id \in StreamIds : ReadReset(id)
    <3>1. UNCHANGED <<bodyClosed, chanClosed, panic>>
      BY <1>1, <2>2 DEF ReadAny, ReadControl, ReadGoAway, ReadStreamMeta,
         ReadHeaders, ReadBadHeaders, ReadData
    <3> QED BY <3>1 DEF ChannelInv, NoDoubleClose
  <2> QED BY <2>1, <2>2
<1>2. CASE ReaderStep
  <2>1. CASE EndData
    BY <2>1, CloseBodyChannel DEF EndData, At, TypeOK, LoopTypeOK
  <2>2. CASE SendData
    BY <2>2 DEF SendData, ChannelInv, NoDoubleClose
  <2>3. CASE ~(EndData \/ SendData)
    <3>1. UNCHANGED <<bodyClosed, chanClosed, panic>>
      BY <1>2, <2>3 DEF ReaderStep, SendSettings, LookupData, LockReply,
         WriteReply, ReadFailed, Shutdown, Return, InitiateGracefulShutdown,
         LockGoAway, WriteGoAway, Drained, DrainExpires, CloseConn
    <3> QED BY <3>1 DEF ChannelInv, NoDoubleClose
  <2> QED BY <2>1, <2>2, <2>3
<1>3. CASE IdleStep
  BY <1>3, IdleLeaves DEF ChannelInv, NoDoubleClose
<1>4. ASSUME NEW n \in Frame, HandleRequest(n) PROVE ChannelInv'
  <2>1. CASE CloseResponse(n)
    BY <2>1, CloseStreamChannel DEF CloseResponse, HGoto, TypeOK, RequestTypeOK
  <2>2. CASE ~CloseResponse(n)
    <3>1. UNCHANGED <<bodyClosed, chanClosed, panic>>
      BY <1>4, <2>2 DEF HandleRequest, LookupBody, ReceiveBody, BodyEnded,
         BodyTimeout, Respond, WriteHeaders, LockData, WriteData
    <3> QED BY <3>1 DEF ChannelInv, NoDoubleClose
  <2> QED BY <2>1, <2>2
<1>5. CASE DeadlineClose \/ PeerReset \/ Stop \/ UNCHANGED vars
  BY <1>5, OutsideLeaves DEF ChannelInv, NoDoubleClose
<1> QED BY <1>1, <1>2, <1>3, <1>4, <1>5 DEF Next


-----------------------------------------------------------------------------
(* The map of streams and the requests that are in it.                     *)

\* A request takes no stream out of the map but its own, in its last step.
LEMMA CloseOnly ==
  ASSUME TypeOK, NEW n \in Frame, HandleRequest(n), NEW id \in StreamIds
  PROVE  \/ streams'[id] = streams[id]
         \/ /\ streams'[id] = NoObj
            /\ hid[n] = id /\ hpc'[n] = "done"
<1>1. CASE CloseResponse(n)
  BY <1>1 DEF CloseResponse, CloseStream, HGoto, TypeOK, StreamTypeOK,
     RequestTypeOK
<1>2. CASE ~CloseResponse(n)
  BY <1>2 DEF HandleRequest, LookupBody, ReceiveBody, BodyEnded, BodyTimeout,
     Respond, WriteHeaders, LockData, WriteData, streamVars, mapVars
<1> QED BY <1>1, <1>2

\* An entry of the map stays, goes, or is a new object named by the frame being
\* read.
LEMMA MapSteps ==
  ASSUME TypeOK, [Next]_vars, NEW id \in StreamIds
  PROVE  \/ streams'[id] = streams[id]
         \/ streams'[id] = NoObj
         \/ /\ streams[id] = NoObj
            /\ streams'[id] = nread + 1
            /\ nread' = nread + 1
<1> USE DEF TypeOK, StreamTypeOK
<1>1. CASE ReadAny
  <2>1. ASSUME NEW j \in StreamIds, ReadReset(j)
        PROVE  streams'[id] = streams[id] \/ streams'[id] = NoObj
    BY <2>1 DEF ReadReset, CloseStream
  <2>2. ASSUME NEW j \in StreamIds, GetOrCreateStream(j), ReadFrame
        PROVE  \/ streams'[id] = streams[id]
               \/ /\ streams[id] = NoObj
                  /\ streams'[id] = nread + 1
                  /\ nread' = nread + 1
    BY <2>2 DEF GetOrCreateStream, ReadFrame
  <2> QED BY <1>1, <2>1, <2>2 DEF ReadAny, ReadControl, ReadGoAway,
     ReadStreamMeta, ReadHeaders, ReadBadHeaders, ReadData, streamVars, mapVars
<1>2. CASE ReaderStep
  BY <1>2, ReaderLeaves DEF mapVars
<1>3. CASE IdleStep
  BY <1>3, IdleLeaves DEF streamVars, mapVars
<1>4. CASE \E n \in Frame : HandleRequest(n)
  BY <1>4, CloseOnly
<1>5. CASE DeadlineClose \/ PeerReset \/ Stop \/ UNCHANGED vars
  BY <1>5, OutsideLeaves DEF streamVars, mapVars
<1> QED BY <1>1, <1>2, <1>3, <1>4, <1>5 DEF Next

\* Frames are counted, never forgotten.
LEMMA ReadCounts == ASSUME TypeOK, [Next]_vars
  PROVE nread \in Nat /\ nread' \in Nat /\ nread <= nread'
<1>1. nread' = nread \/ nread' = nread + 1
  <2>1. CASE ReadAny
    BY <2>1 DEF ReadAny, ReadFrame, ReadControl, ReadGoAway, ReadStreamMeta,
       ReadReset, ReadHeaders, ReadBadHeaders, ReadData, frameVars
  <2>2. CASE ReaderStep
    BY <2>2, ReaderLeaves
  <2>3. CASE IdleStep
    BY <2>3, IdleLeaves DEF frameVars
  <2>4. CASE \E n \in Frame : HandleRequest(n)
    BY <2>4, HandlerLeaves DEF frameVars
  <2>5. CASE DeadlineClose \/ PeerReset \/ Stop \/ UNCHANGED vars
    BY <2>5, OutsideLeaves DEF frameVars
  <2> QED BY <2>1, <2>2, <2>3, <2>4, <2>5 DEF Next
<1>2. nread \in Nat
  BY ConnAssumption DEF TypeOK, LoopTypeOK
<1> QED BY <1>1, <1>2

\* A goroutine rests; starts, named by the frame just read, on a stream in the
\* map; or goes on, and keeps its stream id.
LEMMA RequestSteps ==
  ASSUME TypeOK, [Next]_vars, NEW n \in Frame
  PROVE  \/ hpc'[n] = hpc[n] /\ hid'[n] = hid[n]
         \/ /\ ReadAny
            /\ n = nread + 1 /\ nread' = n
            /\ hpc'[n] \in {"lookup", "route"}
            /\ hid'[n] \in StreamIds
            /\ GetOrCreateStream(hid'[n])
         \/ /\ HandleRequest(n)
            /\ hpc[n] \notin {"none", "done"}
            /\ hpc'[n] # "none"
            /\ hid'[n] = hid[n]
<1>1. CASE ReadAny
  BY <1>1, ReadAnyStarts
<1>2. CASE ReaderStep
  BY <1>2, ReaderLeaves DEF reqVars
<1>3. CASE IdleStep
  BY <1>3, IdleLeaves DEF reqVars
<1>4. CASE \E k \in Frame : HandleRequest(k)
  BY <1>4, HandlerLeaves
<1>5. CASE DeadlineClose \/ PeerReset \/ Stop \/ UNCHANGED vars
  BY <1>5, OutsideLeaves DEF reqVars
<1> QED BY <1>1, <1>2, <1>3, <1>4, <1>5 DEF Next

\* The goroutine of the next frame has not started.
LEMMA ReadFresh ==
  ASSUME TypeOK, MapInv, nread + 1 \in Frame
  PROVE  hpc[nread + 1] = "none"
BY ConnAssumption DEF TypeOK, LoopTypeOK, MapInv

\* Objects and goroutines are named by frames already read, so a new name is
\* fresh; the entry of a request that ends is removed by its last step, unless a
\* failed write ended it.
LEMMA MapNext ==
  TypeOK /\ MapInv /\ [Next]_vars => MapInv'
<1> SUFFICES ASSUME TypeOK, MapInv, [Next]_vars PROVE MapInv'
  OBVIOUS
<1> USE ReadCounts DEF MapInv
<1>0. /\ nread \in Nat
      /\ Frame \subseteq Nat
      /\ \A id \in StreamIds : streams[id] \in Nat
      /\ \A id \in StreamIds : streams'[id] # NoObj => streams'[id] \in Frame
  <2>1. Object \subseteq Nat /\ Frame \subseteq Nat
    BY ConnAssumption DEF Object, Frame, NoObj
  <2>2. \A id \in StreamIds : streams[id] \in Object /\ streams'[id] \in Object
    BY StreamTypeNext DEF TypeOK, StreamTypeOK
  <2> QED BY <2>1, <2>2, ReadCounts DEF Object
<1>1. ASSUME NEW id \in StreamIds PROVE streams'[id] <= nread'
  BY <1>0, MapSteps DEF NoObj
<1>2. ASSUME NEW n \in Frame, hpc'[n] # "none" PROVE n <= nread'
  <2>1. n \in Nat
    BY <1>0
  <2>2. n <= nread \/ nread' = n
    BY <1>2, RequestSteps
  <2> QED BY <2>1, <2>2
<1>3. ASSUME NEW id \in StreamIds, streams'[id] # NoObj,
             hpc'[streams'[id]] # "none"
      PROVE  hid'[streams'[id]] = id
  <2> DEFINE o == streams'[id]
  <2>1. o \in Frame
    BY <1>0, <1>3
  <2>2. CASE o = streams[id]
    <3>1. o <= nread
      BY <2>2
    <3>2. o # nread + 1
      BY <3>1, <2>1, <1>0
    <3> QED BY <1>3, <2>1, <2>2, <3>2, RequestSteps
  <2>3. CASE streams[id] = NoObj /\ o = nread + 1
    <3>1. hpc[o] = "none"
      BY <1>0, <2>1, <2>3
    <3>2. hid'[o] \in StreamIds /\ GetOrCreateStream(hid'[o])
      BY <1>3, <2>1, <3>1, RequestSteps
    <3>3. id # hid'[o] => streams'[id] = streams[id]
      BY <3>2 DEF GetOrCreateStream, TypeOK, StreamTypeOK
    <3> QED BY <1>3, <2>3, <3>3
  <2> QED BY <1>3, <2>2, <2>3, MapSteps
<1>4. ASSUME NEW id \in StreamIds, streams'[id] # NoObj,
             hpc'[streams'[id]] = "done"
      PROVE  Gone'
  <2> DEFINE o == streams'[id]
  <2>1. o \in Frame
    BY <1>0, <1>4
  <2>2. CASE hpc[o] = "done"
    <3>1. o = streams[id]
      BY <2>1, <2>2, <1>0, <1>4, MapSteps
    <3> QED BY <2>2, <3>1, <1>4, GoneStays DEF AnsweredLeavesMap
  <2>3. CASE hpc[o] # "done"
    <3>1. HandleRequest(o) /\ hpc[o] # "none"
      BY <1>4, <2>1, <2>3, RequestSteps
    <3>2. o = streams[id] /\ hid[o] = id
      BY <3>1, <2>1, <1>0, <1>4, MapSteps
    <3>3. CASE CloseResponse(o)
      <4>1. streams'[id] = NoObj
        BY <3>2, <3>3 DEF CloseResponse, CloseStream, TypeOK, StreamTypeOK
      <4> QED BY <4>1, <1>4
    <3>4. CASE ~CloseResponse(o)
      <4>1. Gone
        BY <3>1, <3>4, <2>1, <1>4 DEF HandleRequest, LookupBody, ReceiveBody,
           BodyEnded, BodyTimeout, Respond, WriteHeaders, LockData, WriteData,
           HGoto, TypeOK, RequestTypeOK
      <4> QED BY <4>1, GoneStays
    <3> QED BY <3>3, <3>4
  <2> QED BY <2>2, <2>3
<1> QED BY <1>1, <1>2, <1>3, <1>4 DEF AnsweredLeavesMap

\* lastStreamID is the highest stream id there has been.
LEMMA GetOrCreateCovers ==
  ASSUME TypeOK, CoverInv, NEW id \in StreamIds, GetOrCreateStream(id)
  PROVE  /\ lastStreamID <= lastStreamID'
         /\ id <= lastStreamID'
         /\ streams'[id] # NoObj
         /\ \A j \in StreamIds : streams'[j] # NoObj => j <= lastStreamID'
<1>1. nread + 1 # NoObj
  BY ConnAssumption DEF TypeOK, LoopTypeOK, NoObj
<1> QED BY <1>1, ConnAssumption DEF TypeOK, StreamTypeOK, CoverInv,
   GetOrCreateStream

\* The id in the reader's GOAWAY is lastStreamID at a time when the reader, the
\* one goroutine that starts requests, has stopped reading.
LEMMA CoverNext ==
  TypeOK /\ ShutdownInv /\ CoverInv /\ [Next]_vars => CoverInv'
<1> SUFFICES ASSUME TypeOK, ShutdownInv, CoverInv, [Next]_vars PROVE CoverInv'
  OBVIOUS
<1> USE DEF CoverInv
<1>0. /\ lastStreamID \in Nat /\ lastStreamID' \in Nat
      /\ \A n \in Frame : hid[n] \in Nat
  <2>1. StreamTypeOK'
    BY StreamTypeNext
  <2>2. StreamIds \cup {0} \subseteq Nat
    BY ConnAssumption
  <2> QED BY <2>1, <2>2 DEF TypeOK, StreamTypeOK, RequestTypeOK
<1>1. CASE ReadAny
  <2>1. /\ lastStreamID <= lastStreamID'
        /\ \A j \in StreamIds : streams'[j] # NoObj => j <= lastStreamID'
    <3>1. ASSUME NEW id \in StreamIds, ReadReset(id)
          PROVE  /\ lastStreamID' = lastStreamID
                 /\ \A j \in StreamIds :
                      streams'[j] # NoObj => streams'[j] = streams[j]
      BY <3>1, MapSteps DEF ReadReset, CloseStream, TypeOK, StreamTypeOK
    <3> QED BY <1>0, <1>1, <3>1, GetOrCreateCovers DEF ReadAny, ReadControl,
       ReadGoAway, ReadStreamMeta, ReadHeaders, ReadBadHeaders, ReadData,
       streamVars, mapVars
  <2>2. ASSUME NEW n \in Frame, hpc'[n] # "none" PROVE hid'[n] <= lastStreamID'
    BY <1>0, <1>1, <2>1, <2>2, ReadAnyStarts, GetOrCreateCovers
  <2>3. initiator' # "reader"
    BY <1>1, ReadAnyLeaves, ReadAnyMoves DEF shutVars, ShutdownInv, DrainPC
  <2> QED BY <2>1, <2>2, <2>3
<1>2. CASE ReaderStep
  <2>1. UNCHANGED <<streams, lastStreamID, hpc, hid>>
    BY <1>2, ReaderLeaves DEF mapVars, reqVars
  <2>2. ASSUME initiator' = "reader", pc'["reader"] # "goawayLock"
        PROVE  \/ goawayID' = lastStreamID
               \/ /\ goawayID' = goawayID /\ initiator = "reader"
                  /\ pc["reader"] # "goawayLock"
    BY <1>2, <2>2 DEF TypeOK, LoopTypeOK, Loops, At, Goto, ReaderStep,
       SendSettings, LookupData, SendData, EndData, LockReply, WriteReply,
       ReadFailed, Shutdown, Return, InitiateGracefulShutdown, LockGoAway,
       WriteGoAway, Drained, DrainExpires, CloseConn, shutVars
  <2> QED BY <2>1, <2>2
<1>3. CASE IdleStep
  <2>1. UNCHANGED <<streams, lastStreamID, hpc, hid, pc["reader"]>>
    BY <1>3, IdleLeaves DEF streamVars, mapVars, reqVars
  <2>2. initiator' = "reader" => goawayID' = goawayID /\ initiator = "reader"
    BY <1>3 DEF TypeOK, LoopTypeOK, Loops, At, Goto, IdleStep, IdleReturn,
       IdleFires, InitiateGracefulShutdown, LockGoAway, WriteGoAway, Drained,
       DrainExpires, CloseConn, shutVars, ShutdownInv
  <2> QED BY <2>1, <2>2
<1>4. ASSUME NEW n \in Frame, HandleRequest(n) PROVE CoverInv'
  <2>1. UNCHANGED <<lastStreamID, pc, hid, initiator, goawayID>>
    BY <1>4, HandlerLeaves DEF shutVars
  <2>2. \A m \in Frame : hpc'[m] # "none" => hpc[m] # "none"
    BY <1>4, HandlerLeaves
  <2>3. \A id \in StreamIds : streams'[id] # NoObj => streams[id] # NoObj
    BY <1>4, CloseOnly
  <2> QED BY <2>1, <2>2, <2>3
<1>5. CASE DeadlineClose \/ PeerReset \/ Stop \/ UNCHANGED vars
  BY <1>5, OutsideLeaves DEF streamVars, mapVars, reqVars, shutVars
<1> QED BY <1>1, <1>2, <1>3, <1>4, <1>5 DEF Next

\* A request's stream leaves the map early only by RST_STREAM, after which the
\* client sees it as reset, or by the end of another request of that stream.
LEMMA InFlightNext ==
  TypeOK /\ InFlightTracked /\ MapInv /\ [Next]_vars => InFlightTracked'
<1> SUFFICES ASSUME TypeOK, InFlightTracked, MapInv, [Next]_vars,
                    NEW n \in Frame, hpc'[n] \notin {"none", "done"},
                    streams'[hid'[n]] = NoObj
             PROVE  Superseded(n)'
  BY DEF InFlightTracked, InFlight
<1> USE DEF InFlightTracked, InFlight
<1>1. CASE ReadAny
  <2>1. hpc'[n] = hpc[n] /\ hid'[n] = hid[n] /\ hid[n] \in StreamIds
    <3>1. ASSUME NEW id \in StreamIds, GetOrCreateStream(id)
          PROVE  streams'[id] # NoObj
      BY <3>1, ReadCounts DEF GetOrCreateStream, NoObj, TypeOK, StreamTypeOK
    <3>2. hpc'[n] = hpc[n] /\ hid'[n] = hid[n]
      BY <1>1, <3>1, ReadAnyStarts
    <3> QED BY <3>2 DEF TypeOK, RequestTypeOK
  <2>2. CASE client'[hid[n]] = "reset"
    BY <2>1, <2>2 DEF Superseded
  <2>3. CASE client'[hid[n]] # "reset"
    <3>1. streams[hid[n]] = NoObj /\ client[hid[n]] # "reset"
      <4>1. ASSUME NEW id \in StreamIds, ReadReset(id)
            PROVE  /\ id # hid[n] /\ streams'[hid[n]] = streams[hid[n]]
                   /\ client'[hid[n]] = client[hid[n]]
        BY <4>1, <2>1, <2>3 DEF ReadReset, ClientSends, CloseStream, TypeOK,
           StreamTypeOK
      <4>2. ASSUME NEW id \in StreamIds, NEW end \in BOOLEAN,
                   \/ ReadHeaders(id, end) \/ ReadBadHeaders(id, end)
                   \/ ReadData(id, end)
            PROVE  /\ id # hid[n] /\ streams'[hid[n]] = streams[hid[n]]
                   /\ client'[hid[n]] = client[hid[n]]
        BY <4>2, <2>1, <2>3, ReadCounts DEF ReadHeaders, ReadBadHeaders,
           ReadData, ClientSends, GetOrCreateStream, NoObj, TypeOK,
           StreamTypeOK
      <4>3. ASSUME NEW id \in StreamIds, ReadStreamMeta(id)
            PROVE  /\ id # hid[n] /\ streams'[hid[n]] = streams[hid[n]]
                   /\ client'[hid[n]] = client[hid[n]]
        BY <4>3, <2>1, <2>3, ReadCounts DEF ReadStreamMeta, GetOrCreateStream,
           NoObj, TypeOK, StreamTypeOK
      <4>4. CASE ReadControl \/ ReadGoAway
        BY <4>4, <2>1, <2>3 DEF ReadControl, ReadGoAway, streamVars, mapVars
      <4> QED BY <1>1, <2>1, <2>3, <4>1, <4>2, <4>3, <4>4 DEF ReadAny
    <3>2. PICK m \in Frame \ {n} : hid[m] = hid[n] /\ hpc[m] = "done"
      BY <2>1, <3>1 DEF Superseded
    <3>3. hpc'[m] = "done" /\ hid'[m] = hid[m]
      BY <1>1, <3>2, ReadAnyStarts, ReadFresh
    <3> QED BY <2>1, <3>2, <3>3 DEF Superseded
  <2> QED BY <2>2, <2>3
<1>2. CASE ReaderStep
  BY <1>2, ReaderLeaves DEF mapVars, reqVars, Superseded
<1>3. CASE IdleStep
  BY <1>3, IdleLeaves DEF streamVars, mapVars, reqVars, Superseded
<1>4. ASSUME NEW k \in Frame, HandleRequest(k) PROVE Superseded(n)'
  <2>1. /\ UNCHANGED <<client, hid>>
        /\ hpc[k] \notin {"none", "done"}
        /\ \A m \in Frame \ {k} : hpc'[m] = hpc[m]
    BY <1>4, HandlerLeaves
  <2>2. hpc[n] \notin {"none", "done"} /\ hid[n] \in StreamIds
    BY <2>1 DEF TypeOK, RequestTypeOK
  <2>3. CASE streams[hid[n]] = NoObj
    BY <2>1, <2>2, <2>3 DEF Superseded
  <2>4. CASE streams[hid[n]] # NoObj
    <3>1. hid[k] = hid[n] /\ hpc'[k] = "done"
      BY <1>4, <2>1, <2>2, <2>4, CloseOnly
    <3> QED BY <2>1, <3>1 DEF Superseded
  <2> QED BY <2>3, <2>4
<1>5. CASE DeadlineClose \/ PeerReset \/ Stop \/ UNCHANGED vars
  BY <1>5, OutsideLeaves DEF streamVars, mapVars, reqVars, Superseded
<1> QED BY <1>1, <1>2, <1>3, <1>4, <1>5 DEF Next

\* The reader finds the map empty in its last poll, so every request still
\* running has lost its stream to somebody else; no request starts after that.
LEMMA DrainNext ==
  TypeOK /\ ShutdownInv /\ InFlightTracked /\ DrainSound /\ [Next]_vars
    => DrainSound'
<1> SUFFICES ASSUME TypeOK, ShutdownInv, InFlightTracked, DrainSound,
                    [Next]_vars,
                    pc'["reader"] = "close", initiator' = "reader", ~expired',
                    NEW n \in Frame, n \in InFlight'
             PROVE  Superseded(n)'
  BY DEF DrainSound, InFlight
<1>1. ~ReadAny
  BY ReadAnyMoves
<1>2. CASE ReaderStep
  <2>1. UNCHANGED <<hpc, hid, client>> /\ n \in InFlight
    BY <1>2, ReaderLeaves DEF reqVars, InFlight
  <2>2. Drained("reader")
    BY <1>2 DEF TypeOK, LoopTypeOK, Loops, At, Goto, ReaderStep, SendSettings,
       LookupData, SendData, EndData, LockReply, WriteReply, ReadFailed,
       Shutdown, Return, InitiateGracefulShutdown, LockGoAway, WriteGoAway,
       DrainExpires, CloseConn, ShutdownInv, DrainPC
  <2>3. Superseded(n)
    BY <2>1, <2>2 DEF Drained, ActiveStreams, InFlightTracked, InFlight,
       TypeOK, RequestTypeOK
  <2> QED BY <2>1, <2>3 DEF Superseded
<1>3. CASE IdleStep
  <2>1. UNCHANGED <<hpc, hid, client, pc["reader"]>> /\ n \in InFlight
    BY <1>3, IdleLeaves DEF reqVars, streamVars, InFlight
  <2>2. initiator = "reader" /\ ~expired
    BY <1>3 DEF IdleStep, IdleReturn, IdleFires, InitiateGracefulShutdown,
       LockGoAway, WriteGoAway, Drained, DrainExpires, CloseConn, shutVars
  <2> QED BY <2>1, <2>2 DEF DrainSound, Superseded
<1>4. ASSUME NEW k \in Frame, HandleRequest(k) PROVE Superseded(n)'
  <2>1. UNCHANGED <<client, pc, hid, shutVars>> /\ n \in InFlight
    BY <1>4, HandlerLeaves DEF InFlight
  <2>2. Superseded(n)
    BY <2>1 DEF DrainSound, shutVars
  <2> QED BY <1>4, <2>1, <2>2, HandlerLeaves DEF Superseded
<1>5. CASE DeadlineClose \/ PeerReset \/ Stop \/ UNCHANGED vars
  BY <1>5, OutsideLeaves DEF reqVars, streamVars, shutVars, DrainSound,
     Superseded, InFlight
<1> QED BY <1>1, <1>2, <1>3, <1>4, <1>5 DEF Next


-----------------------------------------------------------------------------
(* The inductive invariant, and what follows from it.                      *)

\* A new connection satisfies the inductive invariant.
LEMMA IInvInit == Init => IInv
<1> SUFFICES ASSUME Init PROVE IInv
  OBVIOUS
<1> USE DEF Init
<1>1. TypeOK
  BY TypeInit
<1>2. StartInv /\ LockInv /\ ShutdownInv
  BY DEF StartInv, LockInv, FramerExclusive, WritingPC, ShutdownInv, DrainPC,
     Loops
<1>3. ResponseInv /\ ChannelInv /\ InFlightTracked /\ DrainSound
  BY DEF ResponseInv, ChannelInv, NoDoubleClose, InFlightTracked, InFlight,
     DrainSound, Loops
<1>4. MapInv /\ CoverInv
  BY DEF MapInv, AnsweredLeavesMap, CoverInv, NoObj
<1> QED BY <1>1, <1>2, <1>3, <1>4 DEF IInv

\* Every step of every goroutine preserves it.
LEMMA IInvNext == IInv /\ [Next]_vars => IInv'
<1> SUFFICES ASSUME IInv, [Next]_vars PROVE IInv'
  OBVIOUS
<1>1. TypeOK'
  BY StreamTypeNext, LoopTypeNext, RequestTypeNext, ShutdownTypeNext DEF IInv,
     TypeOK
<1>2. StartInv' /\ LockInv' /\ ShutdownInv'
  BY StartNext, LockNext, ShutdownNext DEF IInv
<1>3. ResponseInv' /\ ChannelInv'
  BY ResponseNext, ChannelNext DEF IInv
<1>4. MapInv' /\ CoverInv'
  BY MapNext, CoverNext DEF IInv
<1>5. InFlightTracked' /\ DrainSound'
  BY InFlightNext, DrainNext DEF IInv
<1> QED BY <1>1, <1>2, <1>3, <1>4, <1>5 DEF IInv

(***************************************************************************)
(* The inductive invariant holds of every reachable state of a connection, *)
(* for any set of streams, any number of frames, any channel capacity and  *)
(* any client.                                                             *)
(***************************************************************************)
THEOREM Inductive == Spec => []IInv
BY IInvInit, IInvNext, PTL DEF Spec

(***************************************************************************)
(* At most one goroutine is inside the connection's http2.Framer (writeMu, *)
(* and the unlocked SETTINGS of handleHTTP2).                              *)
(***************************************************************************)
THEOREM FramerIsExclusive == Spec => []FramerExclusive
<1>1. IInv => FramerExclusive
  BY DEF IInv, LockInv
<1> QED BY <1>1, Inductive, PTL

(***************************************************************************)
(* The idle loop and the reader together send one GOAWAY at most, and none *)
(* before closing is set.                                                  *)
(***************************************************************************)
THEOREM GoAwayOnce == Spec => []OneGoAway
<1>1. IInv => OneGoAway
  BY DEF IInv, TypeOK, ShutdownTypeOK, ShutdownInv, OneGoAway
<1> QED BY <1>1, Inductive, PTL

(***************************************************************************)
(* handleRequest returns with its response sent, or the connection gone.   *)
(***************************************************************************)
THEOREM ResponsesAreSent == Spec => []NoSilentDrop
<1>1. IInv => NoSilentDrop
  BY DEF IInv, ResponseInv, NoSilentDrop
<1> QED BY <1>1, Inductive, PTL

(***************************************************************************)
(* handleData and CloseStream never close a response channel twice.        *)
(***************************************************************************)
THEOREM ChannelsCloseOnce == Spec => []NoDoubleClose
<1>1. IInv => NoDoubleClose
  BY DEF IInv, ChannelInv
<1> QED BY <1>1, Inductive, PTL

(***************************************************************************)
(* The stream of a request in flight is in c.streams unless the client     *)
(* reset it or another request of the stream has been answered: counting   *)
(* streams counts requests.                                                *)
(***************************************************************************)
THEOREM RequestsAreTracked == Spec => []InFlightTracked
<1>1. IInv => InFlightTracked
  BY DEF IInv
<1> QED BY <1>1, Inductive, PTL

(***************************************************************************)
(* When the reader shuts down first and its drain does not time out, no    *)
(* request is in flight when it closes the connection, but those somebody  *)
(* else has ended.                                                         *)
(***************************************************************************)
THEOREM DrainWaits == Spec => []DrainSound
<1>1. IInv => DrainSound
  BY DEF IInv
<1> QED BY <1>1, Inductive, PTL

(***************************************************************************)
(* The id in the reader's GOAWAY is no lower than that of any request.     *)
(***************************************************************************)
THEOREM GoAwayCoversRequests == Spec => []GoAwayCovers
<1>1. IInv => GoAwayCovers
  BY DEF IInv, ShutdownInv, Loops, CoverInv, GoAwayCovers
<1> QED BY <1>1, Inductive, PTL

(***************************************************************************)
(* While the connection lives, a request that is over has taken its stream *)
(* out of the map.                                                         *)
(***************************************************************************)
THEOREM AnsweredStreamsLeave == Spec => []AnsweredLeavesMap
<1>1. IInv => AnsweredLeavesMap
  BY DEF IInv, MapInv
<1> QED BY <1>1, Inductive, PTL

(***************************************************************************)
(* waitForStreamBody finds no stream only for a request that somebody else *)
(* has ended: a step that skips the wait is LookupBody on an empty entry,  *)
(* which RequestsAreTracked explains.                                      *)
(***************************************************************************)
THEOREM BodyIsAwaited == Spec => BodyWaitNotSkipped
<1> DEFINE A == \A n \in Frame :
       hpc[n] = "lookup" /\ hpc'[n] = "route" => Superseded(n)
<1>1. IInv /\ [Next]_vars => A
  <2> SUFFICES ASSUME IInv, [Next]_vars, NEW n \in Frame,
                      hpc[n] = "lookup", hpc'[n] = "route"
               PROVE  Superseded(n)
    OBVIOUS
  <2>1. HandleRequest(n)
    BY RequestSteps, ReadFresh DEF IInv
  <2>2. LookupBody(n)
    BY <2>1 DEF HandleRequest, HGoto, ReceiveBody, BodyEnded, BodyTimeout,
       Respond, WriteHeaders, LockData, WriteData, CloseResponse
  <2>3. streams[hid[n]] = NoObj
    BY <2>2 DEF LookupBody, HGoto, IInv, TypeOK, RequestTypeOK
  <2> QED BY <2>3 DEF IInv, InFlightTracked, InFlight
<1>2. IInv /\ [Next]_vars => [A]_vars
  BY <1>1
<1> HIDE DEF A
<1>3. Spec => [][A]_vars
  BY <1>2, Inductive, PTL DEF Spec
<1> QED BY <1>3 DEF BodyWaitNotSkipped, A

-----------------------------------------------------------------------------
(* The refinement.                                                         *)

\* What the client sees of the connection depends on panic, link and closing.
LEMMA PhaseSame ==
  ASSUME UNCHANGED <<panic, link, closing>>
  PROVE  ServicePhase' = ServicePhase
BY DEF ServicePhase, Running, Gone

\* What became of the requests depends on hpc and answered.
LEMMA RequestSame ==
  ASSUME UNCHANGED <<hpc, answered>>
  PROVE  ServiceRequest' = ServiceRequest
BY DEF ServiceRequest, RequestOf

\* A step of one request changes what became of that one.
LEMMA RequestBecomes ==
  ASSUME NEW n \in Frame,
         \A m \in Frame \ {n} : hpc'[m] = hpc[m] /\ answered'[m] = answered[m]
  PROVE  /\ ServiceRequest[n] = RequestOf(n)
         /\ ServiceRequest' = [ServiceRequest EXCEPT ![n] = RequestOf(n)']
         /\ RequestOf(n)' = RequestOf(n) => ServiceRequest' = ServiceRequest
BY DEF ServiceRequest, RequestOf

\* Closing or losing the connection is Lose, or nothing when it was gone.
LEMMA LoseStep ==
  ASSUME Running, link' \in {"closed", "reset"},
         UNCHANGED <<panic, hpc, answered, goaways>>
  PROVE  [Service!Next]_(Service!svars)
<1>1. ServicePhase' = "gone"
  BY DEF ServicePhase, Gone, Running
<1>2. ServicePhase \in {"serving", "draining", "gone"}
  BY DEF ServicePhase
<1> QED BY <1>1, <1>2, RequestSame DEF Service!Next, Service!Lose,
   Service!Alive, Service!svars

\* Reading a frame is Accept when it starts a request, and nothing otherwise.
LEMMA ServiceReads ==
  ASSUME IInv, ReadAny
  PROVE  [Service!Next]_(Service!svars)
<1>1. Running /\ UNCHANGED <<answered, link, closing, goaways>>
  BY ReadAnyLeaves, ReadAnyMoves DEF IInv, shutVars, linkVars
<1>2. UNCHANGED panic
  <2>1. ASSUME NEW id \in StreamIds, ReadReset(id) PROVE UNCHANGED panic
    <3>1. streams[id] # NoObj => streams[id] \in Frame
      BY DEF IInv, TypeOK, StreamTypeOK, Object
    <3> QED BY <2>1, <3>1 DEF ReadReset, CloseStream, CloseBody, IInv,
       ChannelInv
  <2> QED BY <2>1 DEF ReadAny, ReadControl, ReadGoAway, ReadStreamMeta,
     ReadHeaders, ReadBadHeaders, ReadData, streamVars
<1>3. CASE UNCHANGED hpc
  BY <1>1, <1>2, <1>3, PhaseSame, RequestSame DEF Service!svars
<1>4. ASSUME NEW id \in StreamIds, NEW end \in BOOLEAN, ReadHeaders(id, end)
      PROVE  [Service!Next]_(Service!svars)
  <2>0. PICK n \in Frame : n = nread + 1
    BY <1>4, ReadFrameType DEF ReadHeaders, IInv
  <2>1. hpc[n] = "none"
    BY <2>0, ReadFresh DEF IInv
  <2>2. /\ hpc'[n] \in {"lookup", "route"}
        /\ \A m \in Frame \ {n} : hpc'[m] = hpc[m]
    BY <1>4, <2>0 DEF ReadHeaders, IInv, TypeOK, RequestTypeOK
  <2>3. ~answered[n]
    BY <2>1 DEF IInv, ResponseInv
  <2>4. RequestOf(n) = "none" /\ RequestOf(n)' = "accepted"
    BY <1>1, <2>1, <2>2, <2>3 DEF RequestOf
  <2>5. ServicePhase # "crashed"
    BY <1>1 DEF ServicePhase
  <2>6. Service!Accept(n)
    BY <1>1, <1>2, <2>1, <2>2, <2>4, <2>5, PhaseSame, RequestBecomes DEF
       Service!Accept, Service!Becomes
  <2> QED BY <2>6 DEF Service!Next
<1>5. \/ \E id \in StreamIds, end \in BOOLEAN : ReadHeaders(id, end)
      \/ UNCHANGED hpc
  BY DEF ReadAny, ReadControl, ReadGoAway, ReadStreamMeta, ReadReset,
     ReadBadHeaders, ReadData, reqVars
<1> QED BY <1>3, <1>4, <1>5

\* In initiateGracefulShutdown the GOAWAY is SayGoodbye, which no loop has said
\* before, and the close is Lose.
LEMMA ServiceShutsDown ==
  ASSUME IInv, NEW t \in Loops, InitiateGracefulShutdown(t)
  PROVE  [Service!Next]_(Service!svars)
<1>1. CASE CloseConn(t)
  BY <1>1, LoseStep DEF CloseConn, At, streamVars, reqVars, shutVars
<1>2. CASE WriteGoAway(t)
  <2>1. UNCHANGED <<panic, hpc, answered, link, closing>>
    BY <1>2 DEF WriteGoAway, streamVars, reqVars, linkVars
  <2>2. CASE Gone
    BY <1>2, <2>1, <2>2, PhaseSame, RequestSame DEF WriteGoAway, WriteOk,
       Service!svars
  <2>3. CASE ~Gone
    <3>1. Running /\ pc[t] = "goawayWrite" /\ goaways' = goaways + 1
      BY <1>2, <2>3 DEF WriteGoAway, At, WriteOk
    <3>2. closing /\ goaways = 0
      BY <3>1 DEF IInv, ShutdownInv, DrainPC, Loops
    <3>3. ServicePhase = "draining"
      BY <2>3, <3>1, <3>2 DEF ServicePhase
    <3>4. Service!SayGoodbye
      BY <2>1, <3>1, <3>2, <3>3, PhaseSame, RequestSame DEF Service!SayGoodbye
    <3> QED BY <3>4 DEF Service!Next
  <2> QED BY <2>2, <2>3
<1>3. CASE LockGoAway(t) \/ Drained(t) \/ DrainExpires(t)
  <2>1. UNCHANGED <<panic, hpc, answered, link, closing, goaways>>
    BY <1>3 DEF LockGoAway, Drained, DrainExpires, streamVars, reqVars,
       linkVars, shutVars
  <2> QED BY <2>1, PhaseSame, RequestSame DEF Service!svars
<1> QED BY <1>1, <1>2, <1>3 DEF InitiateGracefulShutdown

\* Setting closing is StartDraining, or nothing when the connection is gone.
LEMMA DrainStep ==
  ASSUME Running, ~closing, closing',
         UNCHANGED <<panic, link, hpc, answered, goaways>>
  PROVE  [Service!Next]_(Service!svars)
<1>1. CASE Gone
  <2>1. ServicePhase' = ServicePhase
    BY <1>1 DEF ServicePhase, Gone, Running
  <2> QED BY <2>1, RequestSame DEF Service!svars
<1>2. CASE ~Gone
  <2>1. ServicePhase = "serving" /\ ServicePhase' = "draining"
    BY <1>2 DEF ServicePhase, Gone, Running
  <2> QED BY <2>1, RequestSame DEF Service!Next, Service!StartDraining
<1> QED BY <1>1, <1>2

\* The steps of the two loops: SayGoodbye, Lose, StartDraining, Crash for the
\* send on a closed channel, or nothing.
LEMMA ServiceLoops ==
  ASSUME IInv, ReaderStep \/ IdleStep
  PROVE  [Service!Next]_(Service!svars)
<1>1. CASE \/ InitiateGracefulShutdown("reader")
           \/ InitiateGracefulShutdown("idle")
  BY <1>1, ServiceShutsDown DEF Loops
<1>2. CASE Shutdown
  <2>1. Running /\ UNCHANGED <<panic, link, hpc, answered, goaways>>
    BY <1>2 DEF Shutdown, At, streamVars, reqVars, linkVars
  <2>2. CASE closing
    BY <1>2, <2>1, <2>2, PhaseSame, RequestSame DEF Shutdown, Service!svars
  <2>3. CASE ~closing
    BY <1>2, <2>1, <2>3, DrainStep DEF Shutdown
  <2> QED BY <2>2, <2>3
<1>3. CASE IdleFires
  BY <1>3, DrainStep DEF IdleFires, At, streamVars, reqVars, linkVars
<1>4. CASE SendData
  <2>1. Running /\ UNCHANGED <<link, closing, hpc, answered, goaways>>
    BY <1>4 DEF SendData, At, reqVars, shutVars, linkVars
  <2>2. CASE panic' = panic
    BY <2>1, <2>2, PhaseSame, RequestSame DEF Service!svars
  <2>3. CASE panic' = "sendOnClosed"
    <3>1. ServicePhase # "crashed" /\ ServicePhase' = "crashed"
      BY <2>1, <2>3 DEF ServicePhase, Running
    <3> QED BY <2>1, <3>1, RequestSame DEF Service!Next, Service!Crash
  <2> QED BY <1>4, <2>2, <2>3 DEF SendData
<1>5. CASE EndData
  <2>1. cur.obj \in Frame
    BY <1>5 DEF EndData, At, IInv, TypeOK, LoopTypeOK
  <2>2. UNCHANGED <<panic, link, closing, hpc, answered, goaways>>
    BY <1>5, <2>1 DEF EndData, CloseBody, IInv, ChannelInv, reqVars, shutVars,
       linkVars
  <2> QED BY <2>2, PhaseSame, RequestSame DEF Service!svars
<1>6. CASE \/ SendSettings \/ LookupData \/ LockReply \/ WriteReply
           \/ ReadFailed \/ Return \/ IdleReturn
  <2>1. UNCHANGED <<panic, link, closing, hpc, answered, goaways>>
    BY <1>6 DEF SendSettings, LookupData, LockReply, WriteReply, ReadFailed,
       Return, IdleReturn, streamVars, reqVars, shutVars, linkVars
  <2> QED BY <2>1, PhaseSame, RequestSame DEF Service!svars
<1> QED BY <1>1, <1>2, <1>3, <1>4, <1>5, <1>6 DEF ReaderStep, IdleStep

\* A step of a request is Answer when it writes END_STREAM, Drop when it returns
\* without having done so, which needs the connection gone, and nothing
\* otherwise.
LEMMA ServiceRequests ==
  ASSUME IInv, NEW n \in Frame, HandleRequest(n)
  PROVE  [Service!Next]_(Service!svars)
<1>1. /\ Running
      /\ hpc[n] \notin {"none", "done"}
      /\ hpc'[n] # "none"
      /\ UNCHANGED <<link, closing, goaways>>
      /\ \A m \in Frame \ {n} : hpc'[m] = hpc[m]
  <2>1. Running
    BY DEF HandleRequest, LookupBody, ReceiveBody, BodyEnded, BodyTimeout,
       Respond, WriteHeaders, LockData, WriteData, CloseResponse, HGoto
  <2> QED BY <2>1, HandlerLeaves DEF IInv, shutVars, linkVars
<1>2. \A m \in Frame \ {n} : answered'[m] = answered[m]
  BY DEF HandleRequest, LookupBody, ReceiveBody, BodyEnded, BodyTimeout,
     Respond, WriteHeaders, LockData, WriteData, CloseResponse, IInv, TypeOK,
     RequestTypeOK
<1>3. UNCHANGED panic
  <2>1. CASE CloseResponse(n)
    <3>1. hid[n] \in StreamIds
      BY <1>1 DEF IInv, TypeOK, RequestTypeOK
    <3>2. streams[hid[n]] # NoObj => streams[hid[n]] \in Frame
      BY <3>1 DEF IInv, TypeOK, StreamTypeOK, Object
    <3> QED BY <2>1, <3>2 DEF CloseResponse, CloseStream, CloseBody, IInv,
       ChannelInv
  <2> QED BY <2>1 DEF HandleRequest, LookupBody, ReceiveBody, BodyEnded,
     BodyTimeout, Respond, WriteHeaders, LockData, WriteData, streamVars
<1>4. ServicePhase' = ServicePhase
  BY <1>1, <1>3, PhaseSame
<1>5. CASE RequestOf(n)' = RequestOf(n)
  BY <1>1, <1>2, <1>4, <1>5, RequestBecomes DEF Service!svars
<1>6. CASE RequestOf(n) = "accepted" /\ RequestOf(n)' = "answered" /\ ~Gone
  <2>1. ServicePhase \in {"serving", "draining"}
    BY <1>1, <1>6 DEF ServicePhase
  <2>2. Service!Answer(n)
    BY <1>1, <1>2, <1>4, <1>6, <2>1, RequestBecomes DEF Service!Answer,
       Service!Alive, Service!Becomes
  <2> QED BY <2>2 DEF Service!Next
<1>7. CASE RequestOf(n) = "accepted" /\ RequestOf(n)' = "dropped" /\ Gone
  <2>1. ServicePhase = "gone"
    BY <1>1, <1>7 DEF ServicePhase
  <2>2. Service!Drop(n)
    BY <1>1, <1>2, <1>4, <1>7, <2>1, RequestBecomes DEF Service!Drop,
       Service!Becomes
  <2> QED BY <2>2 DEF Service!Next
<1>8. \/ RequestOf(n)' = RequestOf(n)
      \/ RequestOf(n) = "accepted" /\ RequestOf(n)' = "answered" /\ ~Gone
      \/ RequestOf(n) = "accepted" /\ RequestOf(n)' = "dropped" /\ Gone
  <2> USE DEF RequestOf, HGoto, IInv, TypeOK, RequestTypeOK
  <2>1. CASE WriteHeaders(n) \/ WriteData(n)
    <3>1. ~answered[n] /\ hpc[n] \in {"headersWrite", "dataWrite"}
      BY <2>1 DEF WriteHeaders, WriteData, ResponseInv
    <3>2. answered'[n] => ~Gone
      BY <2>1 DEF WriteHeaders, WriteData, WriteOk
    <3>3. hpc'[n] = "done" => Gone
      BY <2>1 DEF WriteHeaders, WriteData
    <3>4. answered'[n] \in BOOLEAN
      BY <2>1 DEF WriteHeaders, WriteData
    <3>5. answered'[n] => hpc'[n] # "done"
      BY <3>2, <3>3
    <3> QED BY <1>1, <3>1, <3>2, <3>3, <3>4
  <2>2. CASE CloseResponse(n)
    BY <2>2 DEF CloseResponse, ResponseInv
  <2>3. CASE \/ LookupBody(n) \/ ReceiveBody(n) \/ BodyEnded(n)
             \/ BodyTimeout(n) \/ Respond(n) \/ LockData(n)
    BY <2>3 DEF LookupBody, ReceiveBody, BodyEnded, BodyTimeout, Respond,
       LockData
  <2> QED BY <2>1, <2>2, <2>3 DEF HandleRequest
<1> QED BY <1>5, <1>6, <1>7, <1>8

\* A new connection is a new service.
LEMMA ServiceInit == Init => Service!Init
BY DEF Init, Service!Init, ServicePhase, ServiceRequest, RequestOf, Running,
   Gone

\* Every step of the connection is a step of the service or changes nothing of
\* it.
LEMMA ServiceNext == IInv /\ [Next]_vars => [Service!Next]_(Service!svars)
<1> SUFFICES ASSUME IInv, [Next]_vars PROVE [Service!Next]_(Service!svars)
  OBVIOUS
<1>1. CASE ReadAny
  BY <1>1, ServiceReads
<1>2. CASE ReaderStep \/ IdleStep
  BY <1>2, ServiceLoops
<1>3. CASE \E n \in Frame : HandleRequest(n)
  BY <1>3, ServiceRequests
<1>4. CASE DeadlineClose \/ PeerReset
  BY <1>4, LoseStep DEF DeadlineClose, PeerReset, streamVars, reqVars, shutVars
<1>5. CASE Stop \/ UNCHANGED vars
  <2>1. UNCHANGED <<panic, link, closing, hpc, answered, goaways>>
    BY <1>5 DEF Stop, vars, streamVars, linkVars, reqVars, shutVars
  <2> QED BY <2>1, PhaseSame, RequestSame DEF Service!svars
<1> QED BY <1>1, <1>2, <1>3, <1>4, <1>5 DEF Next

(***************************************************************************)
(* The connection implements the abstract service: it drops a request only *)
(* when the connection is gone, answers none twice, accepts none after a   *)
(* crash, and says GOAWAY once, while draining.                            *)
(***************************************************************************)
THEOREM Implements == Spec => ImplementsService
<1>1. Spec => Service!Init /\ [][Service!Next]_(Service!svars)
  BY ServiceInit, ServiceNext, Inductive, PTL DEF Spec
<1> QED BY <1>1 DEF ImplementsService, Service!Spec
=============================================================================
