-------------------------------- MODULE H2Body --------------------------------
(***************************************************************************)
(* The body of one HTTP/2 request.  The client sends it in DATA frames, as *)
(* far as its window goes: the server announces a large window for each    *)
(* stream and never sends a WINDOW_UPDATE, so what the connection's window *)
(* had at first is all there is.  processFrames keeps each frame in the    *)
(* stream's list, for the routes that echo a body, and offers the payload  *)
(* to the request's channel, dropping it when that is full.                *)
(*                                                                         *)
(* handleRequest copies the connection's list and the stream's into one    *)
(* that it has made as long as both were, while the reader appends to      *)
(* them.  Of the connection's list only its growth matters here: each      *)
(* frame that comes meanwhile takes the place of one of the stream's.      *)
(* H2Fingerprint has the two lists themselves.                             *)
(*                                                                         *)
(* Neither copies a payload.  http2.Framer reads each frame into the array *)
(* of the one before when that is large enough, so a payload kept by its   *)
(* slice may show later frames' bytes.  An array is modelled by the number *)
(* of the frame that wrote each of its bytes last.                         *)
(***************************************************************************)
EXTENDS Integers, Sequences, SequencesExt

CONSTANTS
  Capacity,     \* of the response channel, 10 in the code
  Sizes,        \* lengths of a frame's payload
  Window,       \* the window a new connection has, 65535 in HTTP/2
  MaxFrames     \* bound: frames read on the connection

ASSUME BodyAssumption ==
  /\ Capacity \in Nat \ {0} /\ Sizes \subseteq Nat \ {0}
  /\ Window \in Nat /\ MaxFrames \in Nat

VARIABLES
  want,         \* how long a body the client has
  sent,         \* the DATA frames it has sent: number and size
  window,       \* what is left of the connection's window
  count,        \* frames read so far
  arrays,       \* the arrays made by the framer; the last is its readBuf
  frames,       \* stream.frames: number, bytes of DATA and their array
  response,     \* the channel: the numbers of the frames whose payload it has
  closed,       \* stream.bodyClosed
  overflowed,   \* history: a payload was dropped
  body,         \* what waitForStreamBody has received: frame numbers
  timedOut,     \* it gave up
  pc,           \* of handleRequest
  late,         \* the connection's frames since it has counted them, until its copy
  room,         \* the length of stream.frames by which it has made the copy
  allFrames,    \* the bytes of the frames it has copied, by their place
  echo          \* the bytes extractBody has taken from them, and whose they were

clientVars == <<want, sent, window>>
readerVars == <<count, arrays, frames, response, closed, overflowed>>
copyVars == <<room, allFrames, echo>>
requestVars == <<body, timedOut, pc, copyVars>>
vars == <<clientVars, readerVars, requestVars, late>>

Bytes(list) ==
  LET sum[i \in 0..Len(list)] == IF i = 0 THEN 0 ELSE sum[i - 1] + list[i].size
  IN sum[Len(list)]
Numbers(list) == [i \in DOMAIN list |-> list[i].n]

\* HEADERS, without END_STREAM, has been read into the first array and begins
\* the stream's list; earlier requests have used some of the window.
Init ==
  /\ want \in 1..(Window + 1)
  /\ sent = <<>>
  /\ window \in 0..Window
  /\ count = 0
  /\ \E size \in Sizes : arrays = <<[i \in 1..size |-> 0]>>
  /\ frames = <<[n |-> 0, size |-> 0, array |-> 1]>>
  /\ response = <<>> /\ closed = FALSE /\ overflowed = FALSE
  /\ body = <<>> /\ timedOut = FALSE
  /\ pc = "waiting"
  /\ late = 0 /\ room = 0 /\ allFrames = <<>> /\ echo = <<>>

-----------------------------------------------------------------------------
(* The reader                                                              *)

\* Framer.getReadBuf and the read of a payload into it: the array is used
\* again when it is large enough, else there is a new one.
ReadInto(size) ==
  LET last == Last(arrays) IN
    IF size <= Len(last)
    THEN [arrays EXCEPT ![Len(arrays)] =
            [i \in DOMAIN last |-> IF i <= size THEN count + 1 ELSE last[i]]]
    ELSE Append(arrays, [i \in 1..size |-> count + 1])

\* The request is over when its response is: later frames are another's.  A
\* panic in its goroutine is the end of the process.
Over == pc \in {"answered", "panicked"}

ReadFrame(size) ==
  /\ ~Over /\ count < MaxFrames
  /\ count' = count + 1
  /\ arrays' = ReadInto(size)

\* Mutant: a payload is kept where the channel has taken it.
Store_Delivered(size) ==
  frames' = IF Len(response) < Capacity
            THEN Append(frames, [n |-> count + 1, size |-> size, array |-> Len(arrays')])
            ELSE frames

\* convertFrame's Payload and the append to stream.frames.
Store(size) ==
  frames' = Append(frames, [n |-> count + 1, size |-> size, array |-> Len(arrays')])

\* handleData: select with a default; END_STREAM closes the channel.
HandleData(end) ==
  /\ IF Len(response) < Capacity
     THEN response' = Append(response, count + 1) /\ UNCHANGED overflowed
     ELSE overflowed' = TRUE /\ UNCHANGED response
  /\ closed' = (closed \/ end)

\* The client sends what its window allows, and END_STREAM with the last byte.
ReadData(size) ==
  /\ ~closed
  /\ size <= window /\ Bytes(sent) + size <= want
  /\ ReadFrame(size)
  /\ sent' = Append(sent, [n |-> count + 1, size |-> size])
  /\ window' = window - size
  /\ Store(size)
  /\ HandleData(Bytes(sent) + size = want)
  /\ UNCHANGED <<want, late, requestVars>>

\* WINDOW_UPDATE or PRIORITY of this stream: a frame with no part of the body.
ReadOnStream(size) ==
  /\ ReadFrame(size)
  /\ frames' = Append(frames, [n |-> count + 1, size |-> 0, array |-> Len(arrays')])
  /\ UNCHANGED <<clientVars, response, closed, overflowed, late, requestVars>>

\* SETTINGS, PING, WINDOW_UPDATE of the connection.
ReadOnConnection(size) ==
  /\ ReadFrame(size)
  /\ late' = IF pc \in {"counted", "copying"} THEN late + 1 ELSE late
  /\ UNCHANGED <<clientVars, frames, response, closed, overflowed, requestVars>>

\* Any frame of another stream.
ReadOther(size) ==
  /\ ReadFrame(size)
  /\ UNCHANGED <<clientVars, frames, response, closed, overflowed, late, requestVars>>

-----------------------------------------------------------------------------
(* handleRequest                                                           *)

ReceiveBody ==
  /\ pc = "waiting" /\ response # <<>>
  /\ body' = Append(body, Head(response))
  /\ response' = Tail(response)
  /\ UNCHANGED <<clientVars, count, arrays, frames, closed, overflowed,
                 timedOut, pc, late, copyVars>>

\* Mutant: a closed channel is at its end, whatever it still holds.
BodyEnded_Early ==
  /\ pc = "waiting" /\ closed
  /\ pc' = "ended"
  /\ UNCHANGED <<clientVars, readerVars, body, timedOut, late, copyVars>>

BodyEnded ==
  /\ pc = "waiting" /\ closed /\ response = <<>>
  /\ pc' = "ended"
  /\ UNCHANGED <<clientVars, readerVars, body, timedOut, late, copyVars>>

\* Mutant: the timer is started by the first piece of a body.
BodyTimeout_Started ==
  /\ pc = "waiting" /\ body # <<>>
  /\ timedOut' = TRUE
  /\ pc' = "ended"
  /\ UNCHANGED <<clientVars, readerVars, body, late, copyVars>>

\* Five seconds, however much of the body has come.
BodyTimeout ==
  /\ pc = "waiting"
  /\ timedOut' = TRUE
  /\ pc' = "ended"
  /\ UNCHANGED <<clientVars, readerVars, body, late, copyVars>>

\* Where the bytes of a list of frames are.
Slots(list) ==
  FlattenSeq([k \in DOMAIN list |->
                [i \in 1..list[k].size |->
                   [of |-> list[k].n, array |-> list[k].array, at |-> i]]])

\* make(len + len): the connection's list, then the stream's.
CountConnection ==
  /\ pc = "ended"
  /\ pc' = "counted"
  /\ UNCHANGED <<clientVars, readerVars, body, timedOut, late, copyVars>>

CountStream ==
  /\ pc = "counted"
  /\ room' = Len(frames)
  /\ pc' = "copying"
  /\ UNCHANGED <<clientVars, readerVars, body, timedOut, late, allFrames, echo>>

\* The stream's frames are copied behind the connection's, of which there may
\* be more by now: as many as there is room left for.  The slice expression
\* panics when it begins beyond the end.  What is copied of a payload is its
\* slice: the bytes are still in the framer's arrays.
CopyFrames ==
  /\ pc = "copying"
  /\ IF late > room
     THEN pc' = "panicked" /\ UNCHANGED allFrames
     ELSE pc' = "echoing" /\ allFrames' = Slots(SubSeq(frames, 1, room - late))
  /\ UNCHANGED <<clientVars, readerVars, body, timedOut, late, room, echo>>

\* extractBody: byte after byte, each as it is by then.
EchoByte ==
  /\ pc = "echoing" /\ allFrames # <<>>
  /\ LET slot == Head(allFrames) IN
       echo' = Append(echo, [of |-> slot.of, is |-> arrays[slot.array][slot.at]])
  /\ allFrames' = Tail(allFrames)
  /\ UNCHANGED <<clientVars, readerVars, body, timedOut, pc, late, room>>

Respond ==
  /\ pc = "echoing" /\ allFrames = <<>>
  /\ pc' = "answered"
  /\ UNCHANGED <<clientVars, readerVars, body, timedOut, late, copyVars>>

Reader == \E size \in Sizes :
  ReadData(size) \/ ReadOnStream(size) \/ ReadOnConnection(size) \/ ReadOther(size)

HandleRequest ==
  \/ ReceiveBody \/ BodyEnded \/ BodyTimeout
  \/ CountConnection \/ CountStream \/ CopyFrames
  \/ EchoByte \/ Respond

Next == Reader \/ HandleRequest

\* The request's goroutine is scheduled and its timer runs; the client owes
\* the server nothing.
Spec == Init /\ [][Next]_vars /\ WF_vars(HandleRequest)

-----------------------------------------------------------------------------
Ended == pc # "waiting"

(***************************************************************************)
(* What waitForStreamBody has is in the order the client sent it.  Once it *)
(* is over it has every DATA frame, unless it ran out of time or the       *)
(* channel was full: a body has no hole that the code does not know of.    *)
(***************************************************************************)
HolesOnlyWhenFull ==
  /\ \A i, j \in DOMAIN body : i < j => body[i] < body[j]
  /\ Ended /\ ~timedOut /\ ~overflowed => body = Numbers(sent)

(***************************************************************************)
(* An echoed body that was not cut short by the timeout is as long as the  *)
(* client's, whatever the channel dropped, when no frame of the connection *)
(* came while handleRequest copied the two lists; and is without the last  *)
(* so many of the stream's frames when some did.  It takes two such frames *)
(* for the copy to panic.  Each byte echoed is the one sent or that of a   *)
(* later frame which took its place, and is the one sent when no frame     *)
(* came after its own.                                                     *)
(***************************************************************************)
EchoKeepsLength ==
  /\ pc = "answered" /\ ~timedOut =>
       /\ Len(echo) = Bytes(SubSeq(frames, 1, room - late))
       /\ late = 0 => Len(echo) = want
  /\ pc = "panicked" => late >= 2
  /\ \A i \in DOMAIN echo :
       /\ echo[i].is >= echo[i].of
       /\ echo[i].of = count => echo[i].is = echo[i].of

(***************************************************************************)
(* Every request is answered in the end, unless the copy panics: one whose *)
(* body the window does not hold, and whose client waits for a             *)
(* WINDOW_UPDATE, by the timeout.                                          *)
(***************************************************************************)
StalledIsAnswered == <>(Over /\ (want > Window => timedOut))

(***************************************************************************)
(* "echoes back the request body (for binary data testing)": the bytes of  *)
(* an echo are those the client sent.                                      *)
(***************************************************************************)
EchoesBody == \A i \in DOMAIN echo : echo[i].is = echo[i].of
=============================================================================
