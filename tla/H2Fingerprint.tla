---------------------------- MODULE H2Fingerprint ----------------------------
(***************************************************************************)
(* What one HTTP/2 connection keeps for fingerprinting and how requests    *)
(* read it: processFrames appends frames to c.connectionFrames and to the  *)
(* streams, under no lock, while each handleRequest goroutine copies both  *)
(* into its own list, and writes the JA4H of its request into the          *)
(* TLSDetails that all of them share.                                      *)
(*                                                                         *)
(* append makes the new length visible before the frame: a goroutine that  *)
(* reads in between finds a blank one, and so it does when it pairs the    *)
(* new length with the array from before a reallocation.  The copies are   *)
(* modelled read by read, each of a whole slice header.                    *)
(***************************************************************************)
EXTENDS Integers, Sequences

CONSTANTS
  Streams,     \* the HTTP2Streams; an id after CloseStream is another's
  Requests,    \* bound: the requests, in the order they are started
  MaxFrames    \* bound: frames the client sends

ASSUME FingerprintAssumption ==
  /\ 0 \notin Streams
  /\ Requests \subseteq Nat
  /\ MaxFrames \in Nat

VARIABLES
  connectionFrames,  \* c.connectionFrames
  frames,            \* stream -> the frames of its HTTP2Stream
  filling,           \* the frame whose append is not complete, if any
  count,             \* bound: frames read so far
  streamOf,          \* request -> its stream, 0 before it is started
  pc,                \* request -> the next line of handleRequest
  connSize,          \* request -> the length of the one list, at line 234
  ownSize,           \* request -> and of the other: line 234 adds them
  allFrames,         \* request -> its allFrames
  offset,            \* request -> len(c.connectionFrames) at line 236
  tls,               \* the JA4H and JA4H_r of the shared TLSDetails
  report,            \* request -> what its response said of them
  steady,            \* history: no append since it read the first length
  alone              \* history: no other request ran beside it

readerVars == <<connectionFrames, frames, filling, count>>
copyVars == <<connSize, ownSize, allFrames, offset>>
vars == <<readerVars, streamOf, pc, copyVars, tls, report, steady, alone>>

Frame(type, s) == [type |-> type, stream |-> s, n |-> count + 1]
Blank == [type |-> "", stream |-> 0, n |-> 0]
Nothing == [of |-> 0, headers |-> <<>>]

ConnectionTypes == {"SETTINGS", "WINDOW_UPDATE"}
StreamTypes == {"HEADERS", "PRIORITY", "WINDOW_UPDATE", "DATA"}

Init ==
  /\ connectionFrames = <<>>
  /\ frames = [s \in Streams |-> <<>>]
  /\ filling = Blank
  /\ count = 0
  /\ streamOf = [r \in Requests |-> 0]
  /\ pc = [r \in Requests |-> "none"]
  /\ connSize = [r \in Requests |-> 0]
  /\ ownSize = [r \in Requests |-> 0]
  /\ allFrames = [r \in Requests |-> <<>>]
  /\ offset = [r \in Requests |-> 0]
  /\ tls = [ja4h |-> Nothing, ja4h_r |-> Nothing]
  /\ report = [r \in Requests |-> [ja4h |-> Nothing, ja4h_r |-> Nothing]]
  /\ steady = [r \in Requests |-> TRUE]
  /\ alone = [r \in Requests |-> TRUE]

\* A goroutine that panics takes the process with it.
Running == \A r \in Requests : pc[r] # "panicked"

Active == {r \in Requests : pc[r] \notin {"none", "done"}}

-----------------------------------------------------------------------------
(* processFrames                                                           *)

\* An append to the frames of the connection (0) or of a stream begins: the
\* list is longer.  steady is lost by every request that is copying one.
BeginAppend(frame) ==
  /\ Running
  /\ filling = Blank /\ count < MaxFrames
  /\ count' = count + 1
  /\ filling' = frame
  /\ IF frame.stream = 0
     THEN /\ connectionFrames' = Append(connectionFrames, Blank)
          /\ UNCHANGED frames
     ELSE /\ frames' = [frames EXCEPT ![frame.stream] = Append(@, Blank)]
          /\ UNCHANGED connectionFrames
  /\ steady' = [r \in Requests |->
                  /\ steady[r]
                  /\ pc[r] \in {"sizeOwn", "copyConn", "slice", "copyOwn"} =>
                       frame.stream \notin {0, streamOf[r]}]

Fill(list) == [list EXCEPT ![Len(list)] = filling]

\* go c.handleRequest: a request, or another one, of the stream.
Start(r) ==
  /\ pc[r] = "none" /\ \A q \in Requests : pc[q] = "none" => r <= q
  /\ streamOf' = [streamOf EXCEPT ![r] = filling.stream]
  /\ pc' = [pc EXCEPT ![r] = "sizeConn"]
  /\ alone' = [q \in Requests |->
                  IF q = r THEN Active = {} ELSE alone[q] /\ q \notin Active]

\* The append is complete.  A HEADERS frame starts a request then, unless its
\* block cannot be decoded.
Appended ==
  /\ Running
  /\ filling # Blank
  /\ filling' = Blank
  /\ IF filling.stream = 0
     THEN /\ connectionFrames' = Fill(connectionFrames)
          /\ UNCHANGED frames
     ELSE /\ frames' = [frames EXCEPT ![filling.stream] = Fill(@)]
          /\ UNCHANGED connectionFrames
  /\ \/ filling.type = "HEADERS" /\ \E r \in Requests : Start(r)
     \/ UNCHANGED <<streamOf, pc, alone>>
  /\ UNCHANGED <<count, copyVars, tls, report, steady>>

\* In any order: the framer only asks that a split header block is not
\* interrupted.
ReadOnConnection(type) ==
  /\ BeginAppend(Frame(type, 0))
  /\ UNCHANGED <<streamOf, pc, copyVars, tls, report, alone>>

\* When one of its requests has been answered a stream is out of the map.
InMap(s) == \A r \in Requests : streamOf[r] = s => pc[r] # "done"

ReadOnStream(s, type) ==
  /\ InMap(s)
  /\ BeginAppend(Frame(type, s))
  /\ UNCHANGED <<streamOf, pc, copyVars, tls, report, alone>>

-----------------------------------------------------------------------------
(* handleRequest                                                           *)

At(r, line, next) ==
  /\ Running
  /\ pc[r] = line
  /\ pc' = [pc EXCEPT ![r] = next]
  /\ UNCHANGED <<readerVars, streamOf, alone>>

SizeConnection(r) ==
  /\ At(r, "sizeConn", "sizeOwn")
  /\ connSize' = [connSize EXCEPT ![r] = Len(connectionFrames)]
  /\ steady' = [steady EXCEPT ![r] =
                  filling = Blank \/ filling.stream \notin {0, streamOf[r]}]
  /\ UNCHANGED <<ownSize, allFrames, offset, tls, report>>

\* make: as many blank frames as the two lengths add up to.
SizeStream(r) ==
  /\ At(r, "sizeOwn", "copyConn")
  /\ ownSize' = [ownSize EXCEPT ![r] = Len(frames[streamOf[r]])]
  /\ allFrames' = [allFrames EXCEPT ![r] =
                     [i \in 1..(connSize[r] + ownSize'[r]) |-> Blank]]
  /\ UNCHANGED <<connSize, offset, tls, report, steady>>

\* copy(into[n:], from): as many elements as fit.
Copy(into, n, from) ==
  [i \in DOMAIN into |->
     IF i > n /\ i - n <= Len(from) THEN from[i - n] ELSE into[i]]

CopyConnection(r) ==
  /\ At(r, "copyConn", "slice")
  /\ allFrames' = [allFrames EXCEPT ![r] = Copy(@, 0, connectionFrames)]
  /\ UNCHANGED <<connSize, ownSize, offset, tls, report, steady>>

\* Mutant: the offset is what is left of the first length.
Slice_Own(r) ==
  /\ At(r, "slice", "copyOwn")
  /\ offset' = [offset EXCEPT ![r] = ownSize[r]]
  /\ UNCHANGED <<connSize, ownSize, allFrames, tls, report, steady>>

\* allFrames[len(c.connectionFrames):], of a length that has been read again.
Slice(r) ==
  /\ LET n == Len(connectionFrames) IN
     /\ At(r, "slice", IF n > Len(allFrames[r]) THEN "panicked" ELSE "copyOwn")
     /\ offset' = [offset EXCEPT ![r] = n]
  /\ UNCHANGED <<connSize, ownSize, allFrames, tls, report, steady>>

\* Mutant: the frames of the stream are copied to the front.
CopyStream_Front(r) ==
  /\ At(r, "copyOwn", "ja4h")
  /\ allFrames' = [allFrames EXCEPT ![r] = Copy(@, 0, frames[streamOf[r]])]
  /\ UNCHANGED <<connSize, ownSize, offset, tls, report, steady>>

CopyStream(r) ==
  /\ At(r, "copyOwn", "ja4h")
  /\ allFrames' = [allFrames EXCEPT ![r] =
                     Copy(@, offset[r], frames[streamOf[r]])]
  /\ UNCHANGED <<connSize, ownSize, offset, tls, report, steady>>

OfType(list, type) == SelectSeq(list, LAMBDA frame : frame.type = type)

\* CalculateJA4H of the request's method and of the headers in its frames.
JA4H(r) == [of |-> r, headers |-> OfType(allFrames[r], "HEADERS")]

\* Mutant: the hash is kept once there is one.
WriteJA4H_Once(r) ==
  /\ At(r, "ja4h", "ja4h_r")
  /\ tls' = IF tls.ja4h = Nothing THEN [tls EXCEPT !.ja4h = JA4H(r)] ELSE tls
  /\ UNCHANGED <<copyVars, report, steady>>

WriteJA4H(r) ==
  /\ At(r, "ja4h", "ja4h_r")
  /\ tls' = [tls EXCEPT !.ja4h = JA4H(r)]
  /\ UNCHANGED <<copyVars, report, steady>>

WriteJA4H_r(r) ==
  /\ At(r, "ja4h_r", "respond")
  /\ tls' = [tls EXCEPT !.ja4h_r = JA4H(r)]
  /\ UNCHANGED <<copyVars, report, steady>>

\* sendResponse: the route reads the shared TLSDetails into the response.
Respond(r) ==
  /\ At(r, "respond", "done")
  /\ report' = [report EXCEPT ![r] = tls]
  /\ UNCHANGED <<copyVars, tls, steady>>

HandleRequest(r) ==
  \/ SizeConnection(r) \/ SizeStream(r)
  \/ CopyConnection(r) \/ Slice(r) \/ CopyStream(r)
  \/ WriteJA4H(r) \/ WriteJA4H_r(r) \/ Respond(r)

ProcessFrames ==
  \/ Appended
  \/ \E type \in ConnectionTypes : ReadOnConnection(type)
  \/ \E s \in Streams, type \in StreamTypes : ReadOnStream(s, type)

Next == ProcessFrames \/ \E r \in Requests : HandleRequest(r)

Spec == Init /\ [][Next]_vars
-----------------------------------------------------------------------------
(* GetAkamaiFingerprint, of the list a request has copied.                 *)

None == <<>>

Positions(list, type) == {i \in DOMAIN list : list[i].type = type}

\* Mutant: a later frame wins, as without the break.
First_Last(list, type) ==
  LET at == Positions(list, type) IN
    IF at = {} THEN None ELSE <<list[CHOOSE i \in at : \A j \in at : j <= i]>>

\* Settings, window update and header order are those of the first frame of
\* their type; "00" or nothing where there is none.
First(list, type) ==
  LET at == Positions(list, type) IN
    IF at = {} THEN None ELSE <<list[CHOOSE i \in at : \A j \in at : i <= j]>>

Akamai(r) ==
  [settings |-> First(allFrames[r], "SETTINGS"),
   window   |-> First(allFrames[r], "WINDOW_UPDATE"),
   priority |-> OfType(allFrames[r], "PRIORITY"),
   headers  |-> First(allFrames[r], "HEADERS")]

-----------------------------------------------------------------------------
Copied(r) == pc[r] \in {"ja4h", "ja4h_r", "respond", "done"}

(***************************************************************************)
(* Whatever the reader appends meanwhile, a request's list holds frames of *)
(* the connection in their order, then frames of its own stream in theirs: *)
(* blanks may stand for some, none is repeated, moved or another stream's. *)
(***************************************************************************)
SnapshotPlaced ==
  \A r \in Requests :
    Copied(r) =>
      \A i \in DOMAIN allFrames[r] :
        \/ allFrames[r][i] = Blank
        \/ i <= offset[r] /\ allFrames[r][i] = connectionFrames[i]
        \/ /\ i > offset[r]
           /\ allFrames[r][i] = frames[streamOf[r]][i - offset[r]]

(***************************************************************************)
(* A request during whose copying nothing was appended to what it copies   *)
(* has all of it: the fingerprint is at fault only in the race.            *)
(***************************************************************************)
SteadyIsExact ==
  \A r \in Requests :
    Copied(r) /\ steady[r] =>
      allFrames[r] = SubSeq(connectionFrames, 1, connSize[r])
                       \o SubSeq(frames[streamOf[r]], 1, ownSize[r])

Undisturbed(r) == Copied(r) /\ steady[r]

(***************************************************************************)
(* Requests of one connection tell one client: the SETTINGS that a request *)
(* reports, and the WINDOW_UPDATE if it is the connection's, are those of  *)
(* every request that looks later.  One that looked before they came has   *)
(* none, and reports an empty fingerprint: nothing makes SETTINGS come     *)
(* first.                                                                  *)
(***************************************************************************)
OneClient ==
  \A q, r \in Requests :
    Undisturbed(q) /\ Undisturbed(r) /\ connSize[q] <= connSize[r] =>
      /\ Akamai(q).settings \in {None, Akamai(r).settings}
      /\ \A frame \in {Akamai(q).window[i] : i \in DOMAIN Akamai(q).window} :
           frame.stream = 0 => Akamai(r).window = <<frame>>

Reported(r) == pc[r] = "done"

(***************************************************************************)
(* A request beside which no other ran reports the JA4H of its own         *)
(* headers, though the TLSDetails it writes to is the connection's.        *)
(***************************************************************************)
AloneReportsOwn ==
  \A r \in Requests :
    Reported(r) /\ alone[r] =>
      report[r] = [ja4h |-> JA4H(r), ja4h_r |-> JA4H(r)]

(***************************************************************************)
(* "Combine connection frames and stream frames for fingerprinting": every *)
(* frame that was there when handleRequest looked is in the request's list.*)
(***************************************************************************)
SnapshotCombines ==
  \A r \in Requests :
    Copied(r) =>
      \A frame \in {connectionFrames[i] : i \in 1..connSize[r]}
                     \cup {frames[streamOf[r]][i] : i \in 1..ownSize[r]} :
        \E i \in DOMAIN allFrames[r] : allFrames[r][i] = frame
=============================================================================
