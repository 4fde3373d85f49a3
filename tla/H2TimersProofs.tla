--------------------------- MODULE H2TimersProofs ---------------------------
(***************************************************************************)
(* Theorems about H2Timers for any values of the timers: types, the        *)
(* deadline as the end of everything a connection started, and the idle    *)
(* loop that never gets its turn under the supervisor.                     *)
(***************************************************************************)
EXTENDS H2Timers, TLAPS

(***************************************************************************)
(* Every variable keeps its type, and no timer is set further off than its *)
(* timeout: the timers of connection_state.go and of cmd/main.go.          *)
(***************************************************************************)
THEOREM TimersTypeCorrect == Spec => []TimersTypeOK
<1>. USE TimerAssumption DEF Later
<1>1. Init => TimersTypeOK
  <2>. SUFFICES ASSUME Init PROVE TimersTypeOK
    OBVIOUS
  <2>1. sup \in {"absent", "waiting", "returned", "timedOut"}
    BY DEF Init
  <2>2. /\ now \in Nat /\ lastActivity \in 0..now /\ emptied \in 0..now
        /\ nextTick \in 0..(now + Period)
    BY DEF Init
  <2>3. drainBy \in [{"reader", "idle"} -> 0..(now + DrainTimeout)]
    BY DEF Init
  <2>4. /\ due \in [Requests -> 0..(now + Later(BodyTimeout, MaxDelay))]
        /\ slept \in [Requests -> 0..MaxDelay]
        /\ started \in [Requests -> 0..now]
    BY DEF Init
  <2>. QED
    BY <2>1, <2>2, <2>3, <2>4 DEF Init, TimersTypeOK
<1>2. TimersTypeOK /\ [Next]_vars => TimersTypeOK'
  <2>. SUFFICES ASSUME TimersTypeOK, [Next]_vars PROVE TimersTypeOK'
    OBVIOUS
  <2>. USE DEF TimersTypeOK, loopVars, clockVars, shutVars, cutVars, reqVars
  <2>1. CASE Serve
    BY <2>1 DEF Serve
  <2>2. CASE HandshakeFails
    BY <2>2 DEF HandshakeFails, Return, Close
  <2>3. CASE ReadOther
    BY <2>3 DEF ReadOther, ReadFrame
  <2>4. CASE ReaderEnds
    <3>1. CASE closing
      BY <2>4, <3>1 DEF ReaderEnds, Return, Close
    <3>2. CASE ~closing
      BY <2>4, <3>2 DEF ReaderEnds, StartDrain
    <3>. QED
      BY <3>1, <3>2
  <2>5. CASE ReaderDrained
    BY <2>5 DEF ReaderDrained, Return, Close
  <2>6. CASE TickClosing
    BY <2>6 DEF TickClosing
  <2>7. CASE TickFires
    BY <2>7 DEF TickFires, StartDrain
  <2>8. CASE TickAgain
    BY <2>8 DEF TickAgain
  <2>9. CASE IdleDrained
    BY <2>9 DEF IdleDrained, Close
  <2>10. CASE DeadlineFires
    BY <2>10 DEF DeadlineFires, Close
  <2>18. CASE PeerReset
    BY <2>18 DEF PeerReset, Close
  <2>11. ASSUME NEW r \in Requests, ReadRequest(r) PROVE TimersTypeOK'
    BY <2>11 DEF ReadRequest, ReadFrame, WaitForBody, Route, Wait
  <2>12. ASSUME NEW r \in Requests, ReadEndOfBody(r) PROVE TimersTypeOK'
    BY <2>12 DEF ReadEndOfBody, ReadFrame, Route, Wait
  <2>13. ASSUME NEW r \in Requests, BodyTimesOut(r) PROVE TimersTypeOK'
    BY <2>13 DEF BodyTimesOut, Route, Wait
  <2>14. ASSUME NEW r \in Requests, Respond(r) PROVE TimersTypeOK'
    BY <2>14 DEF Respond
  <2>15. CASE Advance
    BY <2>15 DEF Advance
  <2>16. CASE Rest
    BY <2>16 DEF Rest, vars
  <2>17. CASE UNCHANGED vars
    BY <2>17 DEF vars
  <2>. QED
    BY <2>1, <2>2, <2>3, <2>4, <2>5, <2>6, <2>7, <2>8, <2>9, <2>10, <2>11,
       <2>12, <2>13, <2>14, <2>15, <2>16, <2>17, <2>18
       DEF Next, LoopStep, RequestStep
<1>. QED
  BY <1>1, <1>2, PTL DEF Spec

-----------------------------------------------------------------------------
(***************************************************************************)
(* The inductive invariant.  PhasesAgree relates the two loops: the idle   *)
(* loop exists once frames are read, and while closing is not set it runs  *)
(* beside a reader that reads.  The other parts hold under the supervisor: *)
(* frames are read only until the deadline, so every timer a connection    *)
(* sets, it sets by then, and time does not pass a timer that is set.      *)
(***************************************************************************)
PhasesAgree ==
  /\ reader = "handshake" =>
       idle = "unstarted" /\ ~closing /\ initiator = "nobody"
  /\ reader = "drain" \/ idle = "drain" => closing
  /\ reader = "returned" => closing \/ idle = "unstarted"

ReadsByDeadline ==
  reader \in {"handshake", "read"} =>
    now <= Deadline /\ (link = "open" => sup = "waiting")

LoopTimers ==
  /\ idle = "tick" => now <= nextTick /\ nextTick <= Deadline + Period
  /\ reader = "drain" =>
       now <= drainBy["reader"] /\ drainBy["reader"] <= Deadline + DrainTimeout
  /\ idle = "drain" =>
       now <= drainBy["idle"] /\ drainBy["idle"] <= Deadline + DrainTimeout

RequestTimers ==
  \A r \in Requests :
    /\ step[r] = "body" => now <= due[r] /\ due[r] <= Deadline + BodyTimeout
    /\ step[r] = "delay" =>
         now <= due[r] /\ due[r] <= Deadline + BodyTimeout + MaxDelay

NotIdle == Deadline <= IdleTimeout => initiator # "idle"

SupervisedInv ==
  Supervised => ReadsByDeadline /\ LoopTimers /\ RequestTimers /\ NotIdle

TimersInv == TimersTypeOK /\ PhasesAgree /\ SupervisedInv

(***************************************************************************)
(* The invariant holds at the accept and every step keeps it, the step of  *)
(* time included.                                                          *)
(***************************************************************************)
LEMMA TimersInductive == Spec => []TimersInv
<1>. USE TimerAssumption DEF Later, TimersTypeOK, Supervised
<1>1. Init /\ TimersTypeOK => TimersInv
  BY DEF Init, TimersInv, PhasesAgree, SupervisedInv, ReadsByDeadline,
         LoopTimers, RequestTimers, NotIdle
<1>2. TimersInv /\ TimersTypeOK' /\ [Next]_vars => TimersInv'
  <2>. SUFFICES ASSUME TimersInv, TimersTypeOK', [Next]_vars
                PROVE  PhasesAgree' /\ SupervisedInv'
    BY DEF TimersInv
  <2>. USE DEF TimersInv, PhasesAgree, SupervisedInv, ReadsByDeadline,
               LoopTimers, RequestTimers, NotIdle, loopVars, clockVars,
               shutVars, cutVars, reqVars
  <2>1. CASE Serve
    BY <2>1 DEF Serve
  <2>2. CASE HandshakeFails
    BY <2>2 DEF HandshakeFails, Return, Close
  <2>3. CASE ReadOther
    BY <2>3 DEF ReadOther, ReadFrame
  <2>4. CASE ReaderEnds
    <3>1. CASE closing
      BY <2>4, <3>1 DEF ReaderEnds, Return, Close
    <3>2. CASE ~closing
      BY <2>4, <3>2 DEF ReaderEnds, StartDrain
    <3>. QED
      BY <3>1, <3>2
  <2>5. CASE ReaderDrained
    BY <2>5 DEF ReaderDrained, Return, Close
  <2>6. CASE TickClosing
    BY <2>6 DEF TickClosing
  <2>7. CASE TickFires
    <3>1. idle = "tick" /\ ~closing /\ now - lastActivity > IdleTimeout
      BY <2>7 DEF TickFires, IdleLate
    <3>2. reader = "read"
      BY <3>1
    <3>3. Supervised => now <= Deadline /\ ~(Deadline <= IdleTimeout)
      BY <3>1, <3>2
    <3>. QED
      BY <2>7, <3>1, <3>2, <3>3 DEF TickFires, StartDrain
  <2>8. CASE TickAgain
    BY <2>8 DEF TickAgain
  <2>9. CASE IdleDrained
    BY <2>9 DEF IdleDrained, Close
  <2>10. CASE DeadlineFires
    BY <2>10 DEF DeadlineFires, Close
  <2>18. CASE PeerReset
    BY <2>18 DEF PeerReset, Close
  <2>11. ASSUME NEW r \in Requests, ReadRequest(r)
         PROVE  PhasesAgree' /\ SupervisedInv'
    BY <2>11 DEF ReadRequest, ReadFrame, WaitForBody, Route, Wait
  <2>12. ASSUME NEW r \in Requests, ReadEndOfBody(r)
         PROVE  PhasesAgree' /\ SupervisedInv'
    BY <2>12 DEF ReadEndOfBody, ReadFrame, Route, Wait
  <2>13. ASSUME NEW r \in Requests, BodyTimesOut(r)
         PROVE  PhasesAgree' /\ SupervisedInv'
    BY <2>13 DEF BodyTimesOut, Route, Wait
  <2>14. ASSUME NEW r \in Requests, Respond(r)
         PROVE  PhasesAgree' /\ SupervisedInv'
    BY <2>14 DEF Respond
  <2>15. CASE Advance
    <3>1. ~Pending /\ now' = now + 1
          /\ UNCHANGED <<loopVars, clockVars, shutVars, cutVars, emptied, reqVars>>
      BY <2>15 DEF Advance
    <3>2. PhasesAgree'
      BY <3>1
    <3>3. Supervised => ReadsByDeadline'
      BY <3>1 DEF Pending
    <3>4. Supervised => LoopTimers'
      BY <3>1 DEF Pending, DrainOver
    <3>5. Supervised => RequestTimers'
      <4>. SUFFICES ASSUME Supervised, NEW r \in Requests,
                           step[r] \in {"body", "delay"}
                    PROVE  now + 1 <= due[r]
        BY <3>1
      <4>. QED
        BY <3>1 DEF Pending
    <3>. QED
      BY <3>1, <3>2, <3>3, <3>4, <3>5
  <2>16. CASE Rest
    BY <2>16 DEF Rest, vars
  <2>17. CASE UNCHANGED vars
    BY <2>17 DEF vars
  <2>. QED
    BY <2>1, <2>2, <2>3, <2>4, <2>5, <2>6, <2>7, <2>8, <2>9, <2>10, <2>11,
       <2>12, <2>13, <2>14, <2>15, <2>16, <2>17, <2>18
       DEF Next, LoopStep, RequestStep
<1>. QED
  BY <1>1, <1>2, TimersTypeCorrect, PTL DEF Spec

(***************************************************************************)
(* Under timeoutHandleTLSConnection, with a deadline no longer than        *)
(* c.idleTimeout, as in the code (15 and 30 seconds), idleTimeoutLoop      *)
(* never shuts a connection down: a frame was read since the accept, and   *)
(* the deadline came first.  HTTP2_MULTIPLEXING_IMPLEMENTATION.md:71-75    *)
(* has a connection last until its idle timeout or GOAWAY, and main.go     *)
(* lets none.                                                              *)
(***************************************************************************)
THEOREM DeadlineBeforeIdleTimeout ==
  Spec => [](Supervised /\ Deadline <= IdleTimeout => initiator # "idle")
<1>1. TimersInv => (Supervised /\ Deadline <= IdleTimeout => initiator # "idle")
  BY DEF TimersInv, SupervisedInv, NotIdle
<1>. QED
  BY <1>1, TimersInductive, PTL

(***************************************************************************)
(* Under timeoutHandleTLSConnection the reader, the idle loop and every    *)
(* request are over a bounded time after the deadline.                     *)
(***************************************************************************)
THEOREM EverythingIsOver == Spec => []OverInTime
<1>1. TimersInv => OverInTime
  <2>. SUFFICES ASSUME TimersInv, Supervised,
                       now > Deadline + Later(Later(Period, DrainTimeout),
                                              BodyTimeout + MaxDelay)
                PROVE  AllOver
    BY DEF OverInTime
  <2>. USE TimerAssumption DEF TimersInv, TimersTypeOK, SupervisedInv
  <2>1. /\ now > Deadline
        /\ now > Deadline + Period
        /\ now > Deadline + DrainTimeout
        /\ now > Deadline + BodyTimeout + MaxDelay
        /\ now > Deadline + BodyTimeout
    BY DEF Later
  <2>2. reader = "returned"
    BY <2>1 DEF ReadsByDeadline, LoopTimers
  <2>3. idle \in {"unstarted", "done"}
    BY <2>1 DEF LoopTimers
  <2>4. ASSUME NEW r \in Requests PROVE step[r] \notin {"body", "delay"}
    BY <2>1 DEF RequestTimers
  <2>. QED
    BY <2>2, <2>3, <2>4 DEF AllOver
<1>. QED
  BY <1>1, TimersInductive, PTL

-----------------------------------------------------------------------------
(***************************************************************************)
(* What holds with and without the supervisor: the idle loop ticks until   *)
(* closing is set, and its next tick is not far off; a closed connection   *)
(* was closed by someone, by the deadline only once that was reached and   *)
(* by the drain of a loop only when that was over; and a request's timer   *)
(* is due when its own waits say.                                          *)
(***************************************************************************)
IdleTicks ==
  /\ idle \in {"drain", "done"} => closing
  /\ reader = "read" => idle # "unstarted"
  /\ idle = "tick" =>
       /\ now <= nextTick
       /\ ~closing /\ Active = {} =>
            nextTick <= Later(lastActivity + IdleTimeout, emptied) + Period

CutByOne ==
  /\ (link = "open") <=> (cutBy = "nobody")
  /\ link = "open" => \A r \in Requests : step[r] # "dropped"
  /\ cutBy = "deadline" => now >= Deadline
  /\ reader = "handshake" =>
       idle = "unstarted" /\ \A r \in Requests : step[r] = "none"

\* A drain is of the loop that set closing, and no request was in flight when
\* it closed the connection before its time.
DrainsByOne ==
  /\ ~closing => initiator = "nobody" /\ reader # "drain" /\ idle # "drain"
  /\ closing => initiator # "nobody"
  /\ reader = "drain" => initiator = "reader"
  /\ idle = "drain" => initiator = "idle"
  /\ reader = "drain" =>
       now <= drainBy["reader"] /\ drainBy["reader"] = shutAt + DrainTimeout
  /\ idle = "drain" =>
       now <= drainBy["idle"] /\ drainBy["idle"] = shutAt + DrainTimeout
  /\ cutBy \in {"reader", "idle"} =>
       /\ closing /\ cutBy = initiator /\ cutAt <= now
       /\ cutAt = shutAt + DrainTimeout
            \/ \A r \in Requests : step[r] \notin {"body", "delay", "dropped"}
  /\ cutBy = "second" => closing /\ initiator = "idle"
  /\ initiator = "reader" => reader \in {"drain", "returned"}

DueByRequest ==
  \A r \in Requests :
    /\ step[r] \in {"body", "delay"} => now <= due[r]
    /\ step[r] = "body" => due[r] = started[r] + BodyTimeout
    /\ step[r] = "delay" => due[r] <= started[r] + BodyTimeout + slept[r]

AttributedInv ==
  IdleTicks /\ CutByOne /\ DrainsByOne /\ DueByRequest /\ DropsExplained

\* Time does not pass what is due.
LEMMA TimeStopsAtTimers ==
  ASSUME TimersTypeOK, AttributedInv, Advance
  PROVE  AttributedInv'
<1>. USE TimerAssumption DEF TimersTypeOK, AttributedInv, Later
<1>1. /\ ~Pending /\ now' = now + 1 /\ Active' = Active
      /\ UNCHANGED <<loopVars, clockVars, shutVars, cutVars, emptied, reqVars>>
  BY DEF Advance, Active, reqVars
<1>. USE DEF loopVars, clockVars, shutVars, cutVars, reqVars
<1>2. IdleTicks'
  <2>1. idle = "tick" => now # nextTick
    BY <1>1 DEF Pending
  <2>. QED
    BY <1>1, <2>1 DEF IdleTicks
<1>3. CutByOne'
  BY <1>1 DEF CutByOne
<1>6. DrainsByOne'
  BY <1>1 DEF DrainsByOne, Pending, DrainOver
<1>4. DueByRequest'
  <2>1. \A r \in Requests : step[r] \in {"body", "delay"} => now # due[r]
    BY <1>1 DEF Pending
  <2>. QED
    BY <1>1, <2>1 DEF DueByRequest
<1>5. DropsExplained'
  BY <1>1 DEF DropsExplained, Outlasts
<1>. QED
  BY <1>2, <1>3, <1>4, <1>5, <1>6

(***************************************************************************)
(* Nor does a step of the loops, of the supervisor or of a request lose    *)
(* any of it.                                                              *)
(***************************************************************************)
LEMMA AttributedInductive == Spec => []AttributedInv
<1>1. Init /\ TimersTypeOK => AttributedInv
  BY TimerAssumption
     DEF Init, TimersTypeOK, AttributedInv, IdleTicks, CutByOne, DrainsByOne, DueByRequest,
         DropsExplained, Outlasts, Later
<1>2. AttributedInv /\ TimersTypeOK /\ TimersTypeOK' /\ [Next]_vars
        => AttributedInv'
  <2>. SUFFICES ASSUME AttributedInv, TimersTypeOK, TimersTypeOK', [Next]_vars
                PROVE  AttributedInv'
    OBVIOUS
  <2>. USE TimerAssumption
       DEF AttributedInv, TimersTypeOK, IdleTicks, CutByOne, DrainsByOne, DueByRequest,
           DropsExplained, Outlasts, Later, Active, loopVars, clockVars, shutVars, cutVars,
           reqVars
  <2>1. CASE Serve
    BY <2>1 DEF Serve
  <2>2. CASE HandshakeFails
    BY <2>2 DEF HandshakeFails, Return, Close
  <2>3. CASE ReadOther
    BY <2>3 DEF ReadOther, ReadFrame
  <2>4. CASE ReaderEnds
    <3>1. CASE closing
      BY <2>4, <3>1 DEF ReaderEnds, Return, Close
    <3>2. CASE ~closing
      BY <2>4, <3>2 DEF ReaderEnds, StartDrain
    <3>. QED
      BY <3>1, <3>2
  <2>5. CASE ReaderDrained
    BY <2>5 DEF ReaderDrained, Return, Close, DrainOver
  <2>6. CASE TickClosing
    BY <2>6 DEF TickClosing
  <2>7. CASE TickFires
    BY <2>7 DEF TickFires, StartDrain
  <2>8. CASE TickAgain
    BY <2>8 DEF TickAgain, IdleLate
  <2>9. CASE IdleDrained
    BY <2>9 DEF IdleDrained, Close, DrainOver
  <2>10. CASE DeadlineFires
    BY <2>10 DEF DeadlineFires, Close
  <2>18. CASE PeerReset
    BY <2>18 DEF PeerReset, Close
  <2>11. ASSUME NEW r \in Requests, ReadRequest(r) PROVE AttributedInv'
    BY <2>11 DEF ReadRequest, ReadFrame, WaitForBody, Route, Wait
  <2>12. ASSUME NEW r \in Requests, ReadEndOfBody(r) PROVE AttributedInv'
    BY <2>12 DEF ReadEndOfBody, ReadFrame, Route, Wait
  <2>13. ASSUME NEW r \in Requests, BodyTimesOut(r) PROVE AttributedInv'
    BY <2>13 DEF BodyTimesOut, Route, Wait
  <2>14. ASSUME NEW r \in Requests, Respond(r) PROVE AttributedInv'
    BY <2>14 DEF Respond
  <2>15. CASE Advance
    BY <2>15, TimeStopsAtTimers
  <2>16. CASE Rest
    BY <2>16 DEF Rest, vars
  <2>17. CASE UNCHANGED vars
    BY <2>17 DEF vars
  <2>. QED
    BY <2>1, <2>2, <2>3, <2>4, <2>5, <2>6, <2>7, <2>8, <2>9, <2>10, <2>11,
       <2>12, <2>13, <2>14, <2>15, <2>16, <2>17, <2>18
       DEF Next, LoopStep, RequestStep
<1>. QED
  BY <1>1, <1>2, TimersTypeCorrect, PTL DEF Spec

(***************************************************************************)
(* A response is lost to the client's reset, to a deadline or a drain that *)
(* the request's own waits reached, the drain (initiateGracefulShutdown)   *)
(* having lasted its full time, or to a reader that closes at once while   *)
(* the idle loop drains (gracefulShutdown).                                *)
(***************************************************************************)
THEOREM EveryDropIsExplained == Spec => []DropsExplained
<1>1. AttributedInv => DropsExplained
  BY DEF AttributedInv
<1>. QED
  BY <1>1, AttributedInductive, PTL

(***************************************************************************)
(* idleTimeoutLoop starts its shutdown one tick at most after the idle     *)
(* timeout of a silent connection, or after its last stream.               *)
(***************************************************************************)
THEOREM IdleLoopIsInTime == Spec => []IdleInTime
<1>1. AttributedInv /\ TimersTypeOK => IdleInTime
  BY TimerAssumption
     DEF AttributedInv, IdleTicks, IdleInTime, TimersTypeOK, Later
<1>. QED
  BY <1>1, AttributedInductive, TimersTypeCorrect, PTL
=============================================================================
