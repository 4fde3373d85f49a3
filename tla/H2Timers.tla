------------------------------ MODULE H2Timers ------------------------------
(***************************************************************************)
(* The five clocks that bound one HTTP/2 connection and how they relate:   *)
(* the 15 seconds cmd/main.go gives a connection, the 30 seconds of        *)
(* silence and the 5 second ticks of idleTimeoutLoop, the 5 seconds        *)
(* waitForStreamBody waits, the 5 seconds of the shutdown's drain, and the *)
(* up to 10 seconds a /delay request sleeps.                               *)
(*                                                                         *)
(* Time is an integer that advances only when nothing is due at this       *)
(* instant: what the code does between two timers takes no time, and what  *)
(* is due at the same instant happens in any order.  The client reads what *)
(* it is sent, until it resets the connection.  H2Connection has the same  *)
(* shutdown without the clock, and every interleaving of it.               *)
(***************************************************************************)
EXTENDS Integers

CONSTANTS
  Deadline,      \* main.go: time.After(15 * time.Second)
  IdleTimeout,   \* c.idleTimeout, 30 seconds
  Period,        \* the ticker of idleTimeoutLoop, 5 seconds
  BodyTimeout,   \* waitForStreamBody, 5 seconds
  DrainTimeout,  \* initiateGracefulShutdown, 5 seconds
  MaxDelay,      \* the longest a route sleeps: /delay, 10 seconds
  Requests,      \* the requests the client makes
  Horizon        \* bound: the last instant looked at

ASSUME TimerAssumption ==
  /\ Deadline \in Nat \ {0}
  /\ IdleTimeout \in Nat \ {0}
  /\ Period \in Nat \ {0}
  /\ BodyTimeout \in Nat \ {0}
  /\ DrainTimeout \in Nat \ {0}
  /\ MaxDelay \in Nat
  /\ Horizon \in Nat

VARIABLES
  now,
  link,          \* "open", or closed by one side
  reader,        \* HandleTLSConnection and processFrames
  idle,          \* idleTimeoutLoop
  sup,           \* timeoutHandleTLSConnection
  lastActivity,  \* c.lastActivity
  nextTick,      \* when the ticker fires next
  drainBy,       \* loop -> its drain's deadline
  closing,       \* c.closing
  initiator,     \* history: the loop that set closing
  shutAt,        \* history: when it did
  cutBy,         \* history: who closed the connection
  cutAt,         \* history: when
  emptied,       \* history: when c.streams last became empty
  step,          \* what each request is at
  due,           \* when its body wait or its sleep ends
  slept,         \* history: how long its route slept
  started        \* history: when its HEADERS frame was read

loopVars == <<reader, idle, sup>>
clockVars == <<lastActivity, nextTick, drainBy>>
shutVars == <<closing, initiator, shutAt>>
cutVars == <<link, cutBy, cutAt>>
reqVars == <<step, due, slept, started>>
vars == <<now, loopVars, clockVars, shutVars, cutVars, emptied, reqVars>>

\* Run under cmd/main.go, and not called directly as the tests do.
Supervised == sup # "absent"

Later(a, b) == IF a > b THEN a ELSE b

\* A request that sleeps or waits has a stream, and so has one whose HEADERS
\* could not be written: sendResponse returns before CloseStream.
Active == {r \in Requests : step[r] \in {"body", "delay", "dropped"}}

(***************************************************************************)
(* Types, and the timers that are set are not further off than they can    *)
(* be: the ticker, the body wait, the sleep, and the drain.                *)
(***************************************************************************)
TimersTypeOK ==
  /\ now \in Nat
  /\ link \in {"open", "closed"}
  /\ reader \in {"handshake", "read", "drain", "returned"}
  /\ idle \in {"unstarted", "tick", "drain", "done"}
  /\ sup \in {"absent", "waiting", "returned", "timedOut"}
  /\ lastActivity \in 0..now
  /\ nextTick \in 0..(now + Period)
  /\ drainBy \in [{"reader", "idle"} -> 0..(now + DrainTimeout)]
  /\ closing \in BOOLEAN
  /\ initiator \in {"nobody", "reader", "idle"}
  /\ shutAt \in 0..now
  /\ cutBy \in {"nobody", "peer", "reader", "idle", "second", "deadline"}
  /\ cutAt \in 0..now
  /\ emptied \in 0..now
  /\ step \in [Requests -> {"none", "body", "delay", "answered", "dropped"}]
  /\ due \in [Requests -> 0..(now + Later(BodyTimeout, MaxDelay))]
  /\ slept \in [Requests -> 0..MaxDelay]
  /\ started \in [Requests -> 0..now]

Init ==
  /\ now = 0
  /\ link = "open"
  /\ reader = "handshake"
  /\ idle = "unstarted"
  /\ sup \in {"absent", "waiting"}
  /\ lastActivity = 0
  /\ nextTick = 0
  /\ drainBy = [t \in {"reader", "idle"} |-> 0]
  /\ closing = FALSE
  /\ initiator = "nobody"
  /\ shutAt = 0
  /\ cutBy = "nobody"
  /\ cutAt = 0
  /\ emptied = 0
  /\ step = [r \in Requests |-> "none"]
  /\ due = [r \in Requests |-> 0]
  /\ slept = [r \in Requests |-> 0]
  /\ started = [r \in Requests |-> 0]

-----------------------------------------------------------------------------
(* What the timers are set by.                                             *)

Close(who) ==
  /\ link' = "closed"
  /\ cutBy' = IF link = "open" THEN who ELSE cutBy
  /\ cutAt' = IF link = "open" THEN now ELSE cutAt

\* HandleTLSConnection returns to the supervisor, if that still waits.
Return ==
  /\ reader' = "returned"
  /\ sup' = IF sup = "waiting" THEN "returned" ELSE sup

\* The handshake and the preamble are done: NewHTTP2Connection, and the ticker.
Serve ==
  /\ reader = "handshake" /\ link = "open"
  /\ reader' = "read"
  /\ idle' = "tick"
  /\ lastActivity' = now
  /\ nextTick' = now + Period
  /\ UNCHANGED <<now, sup, drainBy, shutVars, cutVars, emptied, reqVars>>

\* The first Read fails, and the caller closes the connection.
HandshakeFails ==
  /\ reader = "handshake"
  /\ Return
  /\ Close("peer")
  /\ UNCHANGED <<now, idle, clockVars, shutVars, emptied, reqVars>>

\* The client resets the connection, whatever is in flight.
PeerReset ==
  /\ reader # "handshake" /\ link = "open"
  /\ Close("peer")
  /\ UNCHANGED <<now, loopVars, clockVars, shutVars, emptied, reqVars>>

\* Every frame is activity, before it is looked at.
ReadFrame ==
  /\ reader = "read" /\ link = "open"
  /\ lastActivity' = now

ReadOther ==
  /\ ReadFrame
  /\ UNCHANGED <<now, loopVars, nextTick, drainBy, shutVars, cutVars, emptied, reqVars>>

\* Request r goes on to kind, for d.
Wait(r, kind, d) ==
  /\ step' = [step EXCEPT ![r] = kind]
  /\ due' = [due EXCEPT ![r] = now + d]

WaitForBody(r) == Wait(r, "body", BodyTimeout) /\ UNCHANGED slept

\* The body, if there is one, has come or has been waited for: route it.
Route(r) ==
  \E d \in 0..MaxDelay :
    /\ Wait(r, "delay", d)
    /\ slept' = [slept EXCEPT ![r] = d]

ReadRequest(r) ==
  /\ step[r] = "none"
  /\ ReadFrame
  /\ WaitForBody(r) \/ Route(r)
  /\ started' = [started EXCEPT ![r] = now]
  /\ UNCHANGED <<now, loopVars, nextTick, drainBy, shutVars, cutVars, emptied>>

\* Mutant: the sleep is added to the timer instead of to the time.
EndOfBody_Adds(r) ==
  /\ step[r] = "body"
  /\ ReadFrame
  /\ step' = [step EXCEPT ![r] = "delay"]
  /\ \E d \in 0..MaxDelay : /\ due' = [due EXCEPT ![r] = @ + d]
                           /\ slept' = [slept EXCEPT ![r] = d]
  /\ UNCHANGED <<now, loopVars, nextTick, drainBy, shutVars, cutVars, emptied, started>>

ReadEndOfBody(r) ==
  /\ step[r] = "body"
  /\ ReadFrame
  /\ Route(r)
  /\ UNCHANGED <<now, loopVars, nextTick, drainBy, shutVars, cutVars, emptied, started>>

BodyTimesOut(r) ==
  /\ step[r] = "body" /\ now = due[r]
  /\ Route(r)
  /\ UNCHANGED <<now, loopVars, clockVars, shutVars, cutVars, emptied, started>>

\* The route has slept; the response is written, or there is nobody to write to.
Respond(r) ==
  /\ step[r] = "delay" /\ now = due[r]
  /\ step' = [step EXCEPT ![r] = IF link = "open" THEN "answered" ELSE "dropped"]
  /\ emptied' = IF Active = {r} /\ link = "open" THEN now ELSE emptied
  /\ UNCHANGED <<now, loopVars, clockVars, shutVars, cutVars, due, slept, started>>

-----------------------------------------------------------------------------
(* What they end.                                                          *)

\* closing is set by loop t, which drains.
StartDrain(t) ==
  /\ closing' = TRUE
  /\ initiator' = t
  /\ shutAt' = now
  /\ drainBy' = [drainBy EXCEPT ![t] = now + DrainTimeout]

IdleLate == now - lastActivity > IdleTimeout

\* Mutant: the loop waits for the streams to end before it looks at closing.
TickClosing_Busy ==
  /\ idle = "tick" /\ now = nextTick
  /\ closing
  /\ idle' = IF Active = {} THEN "done" ELSE idle
  /\ nextTick' = IF Active = {} THEN nextTick ELSE now + Period
  /\ UNCHANGED <<now, reader, sup, lastActivity, drainBy, shutVars, cutVars, emptied,
                 reqVars>>

TickClosing ==
  /\ idle = "tick" /\ now = nextTick
  /\ closing
  /\ idle' = "done"
  /\ UNCHANGED <<now, reader, sup, clockVars, shutVars, cutVars, emptied, reqVars>>

TickFires ==
  /\ idle = "tick" /\ now = nextTick
  /\ ~closing /\ IdleLate /\ Active = {}
  /\ StartDrain("idle")
  /\ idle' = "drain"
  /\ UNCHANGED <<now, reader, sup, lastActivity, nextTick, cutVars, emptied,
                 reqVars>>

\* Mutant: the ticker is set again from the last activity.
TickAgain_Slow ==
  /\ idle = "tick" /\ now = nextTick
  /\ ~closing /\ ~(IdleLate /\ Active = {})
  /\ nextTick' = now + 2 * Period
  /\ UNCHANGED <<now, loopVars, lastActivity, drainBy, shutVars, cutVars, emptied,
                 reqVars>>

TickAgain ==
  /\ idle = "tick" /\ now = nextTick
  /\ ~closing /\ ~(IdleLate /\ Active = {})
  /\ nextTick' = now + Period
  /\ UNCHANGED <<now, loopVars, lastActivity, drainBy, shutVars, cutVars, emptied,
                 reqVars>>

\* GOAWAY or end of file from the client, or the connection has been closed:
\* gracefulShutdown, which does not wait for the other loop's drain.
ReaderEnds ==
  /\ reader = "read"
  /\ IF closing
     THEN /\ Return
          /\ Close("second")
          /\ UNCHANGED <<shutVars, drainBy>>
     ELSE /\ StartDrain("reader")
          /\ reader' = "drain"
          /\ UNCHANGED <<cutVars, sup>>
  /\ UNCHANGED <<now, idle, lastActivity, nextTick, emptied, reqVars>>

\* Mutant: the drain is of the streams that wait for their body.
DrainOver_Unread(t) == (\A q \in Active : step[q] # "body") \/ now = drainBy[t]

DrainOver(t) == Active = {} \/ now = drainBy[t]

ReaderDrained ==
  /\ reader = "drain" /\ DrainOver("reader")
  /\ Return
  /\ Close("reader")
  /\ UNCHANGED <<now, idle, clockVars, shutVars, emptied, reqVars>>

IdleDrained ==
  /\ idle = "drain" /\ DrainOver("idle")
  /\ idle' = "done"
  /\ Close("idle")
  /\ UNCHANGED <<now, reader, sup, clockVars, shutVars, emptied, reqVars>>

\* timeoutHandleTLSConnection returns false, and its caller closes.
DeadlineFires ==
  /\ sup = "waiting" /\ now = Deadline
  /\ sup' = "timedOut"
  /\ Close("deadline")
  /\ UNCHANGED <<now, reader, idle, clockVars, shutVars, emptied, reqVars>>

-----------------------------------------------------------------------------
\* Something happens at this very instant.
Pending ==
  \/ sup = "waiting" /\ now = Deadline
  \/ idle = "tick" /\ now = nextTick
  \/ reader = "drain" /\ DrainOver("reader")
  \/ idle = "drain" /\ DrainOver("idle")
  \/ link = "closed" /\ reader \in {"handshake", "read"}
  \/ \E r \in Requests : step[r] \in {"body", "delay"} /\ now = due[r]

Advance ==
  /\ ~Pending
  /\ now < Horizon
  /\ now' = now + 1
  /\ UNCHANGED <<loopVars, clockVars, shutVars, cutVars, emptied, reqVars>>

\* The end of the horizon.
Rest == ~Pending /\ now = Horizon /\ UNCHANGED vars

RequestStep(r) ==
  ReadRequest(r) \/ ReadEndOfBody(r) \/ BodyTimesOut(r) \/ Respond(r)

LoopStep ==
  \/ Serve \/ HandshakeFails \/ ReadOther \/ ReaderEnds \/ ReaderDrained
  \/ TickClosing \/ TickFires \/ TickAgain \/ IdleDrained
  \/ DeadlineFires \/ PeerReset

Next ==
  \/ LoopStep
  \/ \E r \in Requests : RequestStep(r)
  \/ Advance
  \/ Rest

Spec == Init /\ [][Next]_vars

-----------------------------------------------------------------------------
(***************************************************************************)
(* Under the supervisor nothing of a connection outlives its deadline by   *)
(* more than the longest of a tick, a drain, and a body wait followed by a *)
(* sleep: both loops have ended and every request is over.                 *)
(***************************************************************************)
AllOver ==
  /\ reader = "returned"
  /\ idle \in {"unstarted", "done"}
  /\ \A r \in Requests : step[r] \notin {"body", "delay"}

OverInTime ==
  Supervised /\ now > Deadline + Later(Later(Period, DrainTimeout),
                                       BodyTimeout + MaxDelay)
    => AllOver

\* The wait for r's body and its sleep may end at t or later.
Outlasts(r, t) == started[r] + BodyTimeout + slept[r] >= t

(***************************************************************************)
(* A response that could not be written was lost to the client's own       *)
(* reset, to the deadline or to a shutdown's drain, and the last two only  *)
(* when the request's own waits reached them, the drain having had its     *)
(* full time; or to the reader, which comes second to a shutdown of the    *)
(* idle loop and closes without waiting.                                   *)
(***************************************************************************)
DropsExplained ==
  \A r \in Requests :
    step[r] = "dropped" =>
      \/ cutBy = "peer"
      \/ cutBy = "deadline" /\ Outlasts(r, Deadline)
      \/ cutBy = initiator /\ cutAt = shutAt + DrainTimeout /\ Outlasts(r, cutAt)
      \/ cutBy = "second" /\ initiator = "idle"

(***************************************************************************)
(* Left to itself, the idle loop ends a silent connection with no streams  *)
(* one tick at most after the idle timeout, or after its last stream.      *)
(***************************************************************************)
IdleInTime ==
  reader = "read" /\ ~closing /\ Active = {}
    => now <= Later(lastActivity + IdleTimeout, emptied) + Period
=============================================================================
