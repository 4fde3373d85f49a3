------------------------- MODULE H2FingerprintProofs -------------------------
(***************************************************************************)
(* Theorems about H2Fingerprint for any streams and any number of frames:  *)
(* what a request copies is in its place, and complete when nothing was    *)
(* appended meanwhile; a request that runs alone reports its own hashes;   *)
(* and the requests of a connection tell one client.                       *)
(***************************************************************************)
EXTENDS H2Fingerprint, InductionLemmas, SequenceTheorems, TLAPS

Types == ConnectionTypes \cup StreamTypes \cup {""}

Any == [type : Types, stream : Streams \cup {0}, n : Nat]

Lines == {"none", "sizeConn", "sizeOwn", "copyConn", "slice", "copyOwn",
          "ja4h", "ja4h_r", "respond", "done", "panicked"}

(***************************************************************************)
(* The types the argument needs, and the append under way: its slot is the *)
(* last of its list, and still blank.                                      *)
(***************************************************************************)
ListTypes ==
  /\ connectionFrames \in Seq(Any)
  /\ frames \in [Streams -> Seq(Any)]
  /\ filling \in Any
  /\ filling.type = "HEADERS" => filling.stream # 0
  /\ count \in Nat
  /\ streamOf \in [Requests -> Streams \cup {0}]
  /\ pc \in [Requests -> Lines]
  /\ \A s \in Requests : pc[s] # "none" => streamOf[s] \in Streams
  /\ connSize \in [Requests -> Nat]
  /\ ownSize \in [Requests -> Nat]
  /\ allFrames \in [Requests -> Seq(Any)]
  /\ offset \in [Requests -> Nat]
  /\ steady \in [Requests -> BOOLEAN]

SlotIsLast ==
  filling # Blank =>
    IF filling.stream = 0
    THEN /\ Len(connectionFrames) > 0
         /\ connectionFrames[Len(connectionFrames)] = Blank
    ELSE /\ Len(frames[filling.stream]) > 0
         /\ frames[filling.stream][Len(frames[filling.stream])] = Blank

TypedInv == ListTypes /\ SlotIsLast

\* The zero ParsedFrame is a frame.
LEMMA BlankIsAny == Blank \in Any
  BY DEF Blank, Any, Types

\* The append begun: the list is a blank longer.
LEMMA Appending ==
  ASSUME NEW list \in Seq(Any)
  PROVE  /\ Append(list, Blank) \in Seq(Any)
         /\ Len(Append(list, Blank)) = Len(list) + 1
         /\ \A i \in 1..Len(list) : Append(list, Blank)[i] = list[i]
         /\ Append(list, Blank)[Len(list) + 1] = Blank
  BY BlankIsAny, AppendProperties

\* The append completed: the last slot has the frame.
LEMMA Filling ==
  ASSUME NEW list \in Seq(Any), Len(list) > 0, filling \in Any
  PROVE  /\ Fill(list) \in Seq(Any)
         /\ Len(Fill(list)) = Len(list)
         /\ \A i \in 1..Len(list) :
              Fill(list)[i] = IF i = Len(list) THEN filling ELSE list[i]
<1>1. Len(list) \in 1..Len(list)
  OBVIOUS
<1>. QED
  BY <1>1, ExceptSeq DEF Fill

\* make([]ParsedFrame, k).
LEMMA Blanks ==
  ASSUME NEW k \in Nat
  PROVE  /\ [i \in 1..k |-> Blank] \in Seq(Any)
         /\ Len([i \in 1..k |-> Blank]) = k
  BY BlankIsAny

\* What the built-in copy leaves in a list.
LEMMA Copying ==
  ASSUME NEW into \in Seq(Any), NEW n \in Nat, NEW from \in Seq(Any)
  PROVE  /\ Copy(into, n, from) \in Seq(Any)
         /\ Len(Copy(into, n, from)) = Len(into)
         /\ \A i \in 1..Len(into) :
              Copy(into, n, from)[i] =
                IF i > n /\ i - n <= Len(from) THEN from[i - n] ELSE into[i]
<1>1. DOMAIN into = 1..Len(into)
  OBVIOUS
<1>2. \A i \in 1..Len(into) :
        i > n /\ i - n <= Len(from) => i - n \in 1..Len(from)
  OBVIOUS
<1>. DEFINE e(i) == IF i > n /\ i - n <= Len(from)
                    THEN from[i - n] ELSE into[i]
<1>3. \A i \in 1..Len(into) : e(i) \in Any
  BY <1>2
<1>4. Copy(into, n, from) = [i \in 1..Len(into) |-> e(i)]
  BY <1>1 DEF Copy
<1>5. Len(into) \in Nat
  OBVIOUS
<1>. HIDE DEF e
<1>6. [i \in 1..Len(into) |-> e(i)] \in Seq(Any)
  BY <1>3, <1>5
<1>7. Len([i \in 1..Len(into) |-> e(i)]) = Len(into)
  BY <1>5, <1>6
<1>8. \A i \in 1..Len(into) : [j \in 1..Len(into) |-> e(j)][i] = e(i)
  OBVIOUS
<1>. QED
  BY <1>4, <1>6, <1>7, <1>8 DEF e

\* And what it leaves when it starts at the front.
LEMMA CopyingFromTheFront ==
  ASSUME NEW into \in Seq(Any), NEW from \in Seq(Any)
  PROVE  /\ Len(Copy(into, 0, from)) = Len(into)
         /\ \A i \in 1..Len(into) :
              Copy(into, 0, from)[i] =
                IF i <= Len(from) THEN from[i] ELSE into[i]
<1>1. 0 \in Nat
  OBVIOUS
<1>. DEFINE c == Copy(into, 0, from)
<1>2. /\ Len(c) = Len(into)
      /\ \A i \in 1..Len(into) :
           c[i] = IF i > 0 /\ i - 0 <= Len(from) THEN from[i - 0] ELSE into[i]
  BY <1>1, Copying
<1>. HIDE DEF c
<1>3. \A i \in 1..Len(into) : i > 0 /\ i - 0 = i
  OBVIOUS
<1>4. \A i \in 1..Len(into) :
        c[i] = IF i <= Len(from) THEN from[i] ELSE into[i]
  BY <1>2, <1>3
<1>. QED
  BY <1>2, <1>4 DEF c

-----------------------------------------------------------------------------
\* A frame that is read is a frame, and not the zero one.
LEMMA FramesAreAny ==
  ASSUME ListTypes, NEW type \in Types, NEW s \in Streams \cup {0}
  PROVE  /\ Frame(type, s) \in Any /\ Frame(type, s) # Blank
         /\ Frame(type, s).type = type /\ Frame(type, s).stream = s
<1>1. count + 1 \in Nat /\ count + 1 # 0
  BY DEF ListTypes
<1>2. Frame(type, s).n # Blank.n
  BY <1>1 DEF Frame, Blank
<1>. QED
  BY <1>1, <1>2 DEF Frame, Any

\* The three reads of the reader are one append.
Reads ==
  \E frame \in Any :
    /\ BeginAppend(frame)
    /\ frame # Blank
    /\ IF frame.stream = 0 THEN frame.type \in ConnectionTypes
                           ELSE frame.type \in StreamTypes
    /\ UNCHANGED <<streamOf, pc, copyVars, tls, report, alone>>

\* Each case of processFrames that keeps a frame begins an append.
LEMMA ReadsAppend ==
  ASSUME ListTypes,
         \/ \E type \in ConnectionTypes : ReadOnConnection(type)
         \/ \E s \in Streams, type \in StreamTypes : ReadOnStream(s, type)
  PROVE  Reads
<1>1. ASSUME NEW type \in ConnectionTypes, ReadOnConnection(type) PROVE Reads
  <2>1. /\ Frame(type, 0) \in Any /\ Frame(type, 0) # Blank
        /\ Frame(type, 0).type = type /\ Frame(type, 0).stream = 0
    BY FramesAreAny DEF Types
  <2>. QED
    BY <1>1, <2>1 DEF ReadOnConnection, Reads, ConnectionTypes
<1>2. ASSUME NEW s \in Streams, NEW type \in StreamTypes, ReadOnStream(s, type)
      PROVE  Reads
  <2>1. /\ Frame(type, s) \in Any /\ Frame(type, s) # Blank
        /\ Frame(type, s).stream = s /\ Frame(type, s).type = type /\ s # 0
    BY FingerprintAssumption, FramesAreAny DEF Types
  <2>. QED
    BY <1>2, <2>1 DEF ReadOnStream, Reads
<1>. QED
  BY <1>1, <1>2

\* The types, and the slot under way, through every step.
LEMMA Typed == Spec => []TypedInv
<1>. USE FingerprintAssumption, BlankIsAny DEF TypedInv, ListTypes, SlotIsLast
<1>1. Init => TypedInv
  <2>. SUFFICES ASSUME Init PROVE TypedInv
    OBVIOUS
  <2>1. /\ filling \in Any /\ filling.type # "HEADERS" /\ filling = Blank
    BY DEF Init, Blank
  <2>2. /\ pc \in [Requests -> Lines]
        /\ \A s \in Requests : pc[s] = "none"
        /\ streamOf \in [Requests -> Streams \cup {0}]
    BY DEF Init, Lines
  <2>3. /\ connectionFrames \in Seq(Any)
        /\ frames \in [Streams -> Seq(Any)]
        /\ allFrames \in [Requests -> Seq(Any)]
        /\ count \in Nat
    BY DEF Init
  <2>4. /\ connSize \in [Requests -> Nat]
        /\ ownSize \in [Requests -> Nat]
        /\ offset \in [Requests -> Nat]
        /\ steady \in [Requests -> BOOLEAN]
    BY DEF Init
  <2>. QED
    BY <2>1, <2>2, <2>3, <2>4
<1>2. TypedInv /\ [Next]_vars => TypedInv'
  <2>. SUFFICES ASSUME TypedInv, [Next]_vars PROVE TypedInv'
    OBVIOUS
  <2>1. CASE Reads
    <3>1. PICK frame \in Any :
            /\ BeginAppend(frame) /\ frame # Blank
            /\ frame.type = "HEADERS" => frame.stream # 0
            /\ UNCHANGED <<streamOf, pc, copyVars>>
      BY <2>1 DEF Reads, ConnectionTypes
    <3>2. frame.stream \in Streams \cup {0}
      BY DEF Any
    <3>3. steady' \in [Requests -> BOOLEAN]
      BY <3>1 DEF BeginAppend
    <3>4. CASE frame.stream = 0
      <4>1. connectionFrames' = Append(connectionFrames, Blank)
            /\ frames' = frames /\ filling' = frame /\ count' = count + 1
        BY <3>1, <3>4 DEF BeginAppend
      <4>2. /\ connectionFrames' \in Seq(Any)
            /\ Len(connectionFrames') = Len(connectionFrames) + 1
            /\ connectionFrames'[Len(connectionFrames) + 1] = Blank
        BY <4>1, Appending
      <4>. QED
        BY <3>1, <3>3, <3>4, <4>1, <4>2 DEF copyVars
    <3>5. CASE frame.stream \in Streams /\ frame.stream # 0
      <4>. DEFINE s == frame.stream
      <4>1. frames' = [frames EXCEPT ![s] = Append(frames[s], Blank)]
            /\ connectionFrames' = connectionFrames
            /\ filling' = frame /\ count' = count + 1
        BY <3>1, <3>5 DEF BeginAppend
      <4>2. /\ Append(frames[s], Blank) \in Seq(Any)
            /\ Len(Append(frames[s], Blank)) = Len(frames[s]) + 1
            /\ Append(frames[s], Blank)[Len(frames[s]) + 1] = Blank
        BY <3>5, Appending
      <4>3. frames'[s] = Append(frames[s], Blank)
        BY <3>5, <4>1
      <4>4. frames' \in [Streams -> Seq(Any)]
        BY <3>5, <4>1, <4>2
      <4>5. Len(frames[s]) + 1 > 0
        BY <3>5
      <4>. HIDE DEF s
      <4>6. Len(frames'[s]) > 0 /\ frames'[s][Len(frames'[s])] = Blank
        BY <4>2, <4>3, <4>5
      <4>. QED
        BY <3>1, <3>3, <3>5, <4>1, <4>4, <4>6 DEF copyVars, s
    <3>. QED
      BY <3>2, <3>4, <3>5
  <2>2. CASE Appended
    <3>1. filling # Blank /\ filling' = Blank /\ count' = count
          /\ UNCHANGED copyVars /\ steady' = steady
      BY <2>2 DEF Appended
    <3>2. /\ streamOf' \in [Requests -> Streams \cup {0}]
          /\ pc' \in [Requests -> Lines]
          /\ \A s \in Requests : pc'[s] # "none" => streamOf'[s] \in Streams
          /\ filling'.type # "HEADERS"
      <4>0. filling'.type # "HEADERS"
        BY <3>1 DEF Blank
      <4>1. CASE UNCHANGED <<streamOf, pc>>
        BY <4>0, <4>1
      <4>2. CASE filling.type = "HEADERS" /\ \E r \in Requests : Start(r)
        <5>1. PICK r \in Requests : Start(r)
          BY <4>2
        <5>2. filling.stream \in Streams
          BY <4>2 DEF Any
        <5>. QED
          BY <4>0, <5>1, <5>2 DEF Start, Lines
      <4>. QED
        BY <2>2, <4>1, <4>2 DEF Appended
    <3>3. CASE filling.stream = 0
      <4>1. connectionFrames' = Fill(connectionFrames) /\ frames' = frames
        BY <2>2, <3>3 DEF Appended
      <4>. QED
        BY <3>1, <3>2, <3>3, <4>1, Filling DEF copyVars
    <3>4. CASE filling.stream \in Streams /\ filling.stream # 0
      <4>1. frames' = [frames EXCEPT ![filling.stream] = Fill(@)]
            /\ connectionFrames' = connectionFrames
        BY <2>2, <3>4 DEF Appended
      <4>2. Fill(frames[filling.stream]) \in Seq(Any)
        BY <3>1, <3>4, Filling
      <4>. QED
        BY <3>1, <3>2, <3>4, <4>1, <4>2 DEF copyVars
    <3>. QED
      BY <3>3, <3>4 DEF Any
  <2>3. ASSUME NEW s \in Requests, HandleRequest(s) PROVE TypedInv'
    <3>. USE DEF At, readerVars
    <3>0. pc[s] # "none" /\ streamOf[s] \in Streams
      BY <2>3 DEF HandleRequest, SizeConnection, SizeStream, CopyConnection,
                  Slice, CopyStream, WriteJA4H, WriteJA4H_r, Respond
    <3>1. CASE SizeConnection(s)
      <4>1. PICK b \in BOOLEAN : steady' = [steady EXCEPT ![s] = b]
        BY <3>1, Zenon DEF SizeConnection
      <4>2. steady' \in [Requests -> BOOLEAN]
        BY <4>1
      <4>3. /\ pc' = [pc EXCEPT ![s] = "sizeOwn"]
            /\ connSize' = [connSize EXCEPT ![s] = Len(connectionFrames)]
            /\ UNCHANGED <<readerVars, streamOf, ownSize, allFrames, offset>>
        BY <3>1, Zenon DEF SizeConnection
      <4>4. /\ pc' \in [Requests -> Lines]
            /\ \A q \in Requests : pc'[q] # "none" => streamOf'[q] \in Streams
        BY <3>0, <4>3 DEF Lines
      <4>5. connSize' \in [Requests -> Nat]
        BY <4>3
      <4>. QED
        BY <4>2, <4>3, <4>4, <4>5
    <3>2. CASE SizeStream(s)
      <4>1. /\ connSize[s] + Len(frames[streamOf[s]]) \in Nat
            /\ Len(frames[streamOf[s]]) \in Nat
        <5>1. frames[streamOf[s]] \in Seq(Any) /\ connSize[s] \in Nat
          BY <3>0
        <5>. QED
          BY <5>1
      <4>2. [i \in 1..(connSize[s] + Len(frames[streamOf[s]])) |-> Blank]
              \in Seq(Any)
        BY <4>1, Blanks
      <4>. QED
        BY <3>0, <3>2, <4>1, <4>2 DEF SizeStream, Lines
    <3>3. CASE CopyConnection(s)
      BY <3>0, <3>3, Copying DEF CopyConnection, Lines
    <3>4. CASE Slice(s)
      BY <3>0, <3>4 DEF Slice, Lines
    <3>5. CASE CopyStream(s)
      BY <3>0, <3>5, Copying DEF CopyStream, Lines
    <3>6. CASE WriteJA4H(s)
      BY <3>0, <3>6 DEF WriteJA4H, Lines, copyVars
    <3>7. CASE WriteJA4H_r(s)
      BY <3>0, <3>7 DEF WriteJA4H_r, Lines, copyVars
    <3>8. CASE Respond(s)
      BY <3>0, <3>8 DEF Respond, Lines, copyVars
    <3>. QED
      BY <2>3, <3>1, <3>2, <3>3, <3>4, <3>5, <3>6, <3>7, <3>8 DEF HandleRequest
  <2>4. CASE UNCHANGED vars
    BY <2>4 DEF vars, readerVars, copyVars
  <2>. QED
    BY <2>1, <2>2, <2>3, <2>4, ReadsAppend DEF Next, ProcessFrames
<1>. QED
  BY <1>1, <1>2, PTL DEF Spec

-----------------------------------------------------------------------------
(***************************************************************************)
(* The invariant of one request.  Placed: what it has copied so far is in  *)
(* place, and a frame once copied does not change in the list it is from.  *)
(* Exact: while nothing is appended to what it copies the lengths it has   *)
(* read are still those of the lists, and the frames it has copied are all *)
(* of them; afterwards the lists only change beyond those lengths.         *)
(***************************************************************************)
InCopy(s) == pc[s] \in {"sizeOwn", "copyConn", "slice", "copyOwn"}

InPlace(s, i) == i <= Len(connectionFrames)
                 /\ allFrames[s][i] = connectionFrames[i]

Placed(s) ==
  /\ pc[s] = "copyConn" =>
       \A i \in 1..Len(allFrames[s]) : allFrames[s][i] = Blank
  /\ pc[s] = "slice" =>
       \A i \in 1..Len(allFrames[s]) :
         allFrames[s][i] = Blank \/ InPlace(s, i)
  /\ pc[s] = "copyOwn" =>
       /\ offset[s] <= Len(connectionFrames)
       /\ \A i \in 1..Len(allFrames[s]) :
            allFrames[s][i] = Blank \/ (i <= offset[s] /\ InPlace(s, i))
  /\ Copied(s) =>
       /\ offset[s] <= Len(connectionFrames)
       /\ \A i \in 1..Len(allFrames[s]) :
            \/ allFrames[s][i] = Blank
            \/ i <= offset[s] /\ InPlace(s, i)
            \/ /\ i > offset[s] /\ i - offset[s] <= Len(frames[streamOf[s]])
               /\ allFrames[s][i] = frames[streamOf[s]][i - offset[s]]

Mine(s) == filling # Blank /\ filling.stream = s

Exact(s) ==
  steady[s] =>
    /\ InCopy(s) => /\ ~Mine(0) /\ ~Mine(streamOf[s])
                      /\ connSize[s] = Len(connectionFrames)
    /\ pc[s] \in {"copyConn", "slice", "copyOwn"} =>
         /\ ownSize[s] = Len(frames[streamOf[s]])
         /\ Len(allFrames[s]) = connSize[s] + ownSize[s]
    /\ pc[s] \in {"slice", "copyOwn"} =>
         \A i \in 1..connSize[s] : allFrames[s][i] = connectionFrames[i]
    /\ pc[s] = "copyOwn" => offset[s] = connSize[s]
    /\ Copied(s) =>
         /\ connSize[s] <= Len(connectionFrames)
         /\ Mine(0) => connSize[s] < Len(connectionFrames)
         /\ ownSize[s] <= Len(frames[streamOf[s]])
         /\ Mine(streamOf[s]) => ownSize[s] < Len(frames[streamOf[s]])
         /\ Len(allFrames[s]) = connSize[s] + ownSize[s]
         /\ \A i \in 1..connSize[s] : allFrames[s][i] = connectionFrames[i]
         /\ \A i \in 1..ownSize[s] :
              allFrames[s][connSize[s] + i] = frames[streamOf[s]][i]

RequestInv == \A s \in Requests : Placed(s) /\ Exact(s)

-----------------------------------------------------------------------------
\* How a step of the reader changes a list: it grows at its end, and only a
\* blank is replaced.
Grows(list, next) ==
  /\ Len(list) <= Len(next)
  /\ \A i \in 1..Len(list) : next[i] = list[i] \/ list[i] = Blank

\* What is before the slot being filled stays as it is.
Keeps(list, next, mine, mineNext) ==
  \A n \in Nat :
    n <= Len(list) /\ (mine => n < Len(list)) =>
      /\ n <= Len(next) /\ (mineNext => n < Len(next))
      /\ \A i \in 1..n : next[i] = list[i]

\* A blank at the end changes nothing before it.
LEMMA AppendKeeps ==
  ASSUME NEW list \in Seq(Any), NEW next, NEW b, NEW c,
         next = Append(list, Blank)
  PROVE  Grows(list, next) /\ Keeps(list, next, b, c)
<1>1. /\ next \in Seq(Any)
      /\ Len(next) = Len(list) + 1
      /\ \A i \in 1..Len(list) : next[i] = list[i]
  BY Appending
<1>2. Len(list) \in Nat
  OBVIOUS
<1>. QED
  BY <1>1, <1>2 DEF Grows, Keeps

\* Filling the last slot changes nothing before it.
LEMMA FillKeeps ==
  ASSUME NEW list \in Seq(Any), NEW next, NEW c, next = Fill(list),
         filling \in Any, Len(list) > 0, list[Len(list)] = Blank, ~c
  PROVE  Grows(list, next) /\ Keeps(list, next, TRUE, c)
<1>1. /\ next \in Seq(Any)
      /\ Len(next) = Len(list)
      /\ \A i \in 1..Len(list) :
           next[i] = IF i = Len(list) THEN filling ELSE list[i]
  BY Filling
<1>2. Len(list) \in Nat
  OBVIOUS
<1>. QED
  BY <1>1, <1>2 DEF Grows, Keeps

\* Nor does a list that stays as it is.
LEMMA SameKeeps ==
  ASSUME NEW list \in Seq(Any), NEW b, NEW c, c => b
  PROVE  Grows(list, list) /\ Keeps(list, list, b, c)
<1>1. Len(list) \in Nat
  OBVIOUS
<1>. QED
  BY <1>1 DEF Grows, Keeps

ReaderStep(s, o) ==
  /\ UNCHANGED copyVars
  /\ pc'[s] = pc[s] /\ streamOf'[s] = streamOf[s]
  /\ Grows(connectionFrames, connectionFrames')
  /\ Grows(frames[o], frames'[o])
  /\ Keeps(connectionFrames, connectionFrames', Mine(0), Mine(0)')
  /\ Keeps(frames[o], frames'[o], Mine(o), Mine(o)')
  /\ steady'[s] => steady[s]
  /\ steady'[s] /\ InCopy(s) /\ ~Mine(0) /\ ~Mine(o) =>
       /\ connectionFrames' = connectionFrames /\ frames'[o] = frames[o]
       /\ ~Mine(0)' /\ ~Mine(o)'

\* The reader begins an append.
LEMMA ReadsStep ==
  ASSUME TypedInv, Reads, NEW s \in Requests,
         NEW o \in Streams, streamOf[s] = o
  PROVE  ReaderStep(s, o)
<1>. USE FingerprintAssumption DEF TypedInv, ListTypes
<1>1. PICK frame \in Any :
        /\ BeginAppend(frame) /\ frame # Blank
        /\ UNCHANGED <<streamOf, pc, copyVars>>
  BY DEF Reads
<1>2. filling = Blank /\ filling' = frame
  BY <1>1 DEF BeginAppend
<1>3. ~Mine(0) /\ ~Mine(o)
  BY <1>2 DEF Mine
<1>4. o # 0
  OBVIOUS
<1>5. /\ steady'[s] => steady[s]
      /\ steady'[s] /\ InCopy(s) => frame.stream \notin {0, o}
  BY <1>1 DEF BeginAppend, InCopy
<1>6. CASE frame.stream = 0
  <2>1. connectionFrames' = Append(connectionFrames, Blank) /\ frames' = frames
    BY <1>1, <1>6 DEF BeginAppend
  <2>2. ~Mine(o)'
    BY <1>2, <1>4, <1>6 DEF Mine
  <2>3. Grows(connectionFrames, connectionFrames')
        /\ Keeps(connectionFrames, connectionFrames', Mine(0), Mine(0)')
    BY <2>1, AppendKeeps
  <2>4. Grows(frames[o], frames'[o])
        /\ Keeps(frames[o], frames'[o], Mine(o), Mine(o)')
    BY <2>1, <2>2, SameKeeps
  <2>. QED
    BY <1>1, <1>5, <1>6, <2>3, <2>4 DEF ReaderStep
<1>7. CASE frame.stream # 0
  <2>1. connectionFrames' = connectionFrames
        /\ frames' = [frames EXCEPT ![frame.stream] = Append(@, Blank)]
    BY <1>1, <1>7 DEF BeginAppend
  <2>2. ~Mine(0)'
    BY <1>2, <1>7 DEF Mine
  <2>3. Grows(connectionFrames, connectionFrames')
        /\ Keeps(connectionFrames, connectionFrames', Mine(0), Mine(0)')
    BY <2>1, <2>2, SameKeeps
  <2>4. CASE frame.stream = o
    <3>1. frames'[o] = Append(frames[o], Blank)
      BY <2>1, <2>4
    <3>2. Grows(frames[o], frames'[o])
          /\ Keeps(frames[o], frames'[o], Mine(o), Mine(o)')
      BY <3>1, AppendKeeps
    <3>. QED
      BY <1>1, <1>5, <2>3, <2>4, <3>2 DEF ReaderStep
  <2>5. CASE frame.stream # o
    <3>1. frames'[o] = frames[o] /\ ~Mine(o)'
      BY <1>2, <2>1, <2>5 DEF Mine
    <3>2. Grows(frames[o], frames'[o])
          /\ Keeps(frames[o], frames'[o], Mine(o), Mine(o)')
      BY <3>1, SameKeeps
    <3>. QED
      BY <1>1, <1>5, <2>1, <2>2, <2>3, <3>1, <3>2 DEF ReaderStep
  <2>. QED
    BY <2>4, <2>5
<1>. QED
  BY <1>6, <1>7

\* The reader completes an append.
LEMMA AppendedStep ==
  ASSUME TypedInv, Appended, NEW s \in Requests, pc[s] # "none",
         NEW o \in Streams, streamOf[s] = o
  PROVE  ReaderStep(s, o)
<1>. USE FingerprintAssumption DEF TypedInv, ListTypes
<1>1. filling # Blank /\ filling' = Blank /\ UNCHANGED <<copyVars, steady>>
  BY DEF Appended
<1>2. ~Mine(0)' /\ ~Mine(o)'
  BY <1>1 DEF Mine
<1>3. pc'[s] = pc[s] /\ streamOf'[s] = streamOf[s]
  BY DEF Appended, Start
<1>4. o # 0
  OBVIOUS
<1>5. CASE filling.stream = 0
  <2>1. connectionFrames' = Fill(connectionFrames) /\ frames' = frames
    BY <1>5 DEF Appended
  <2>2. Mine(0)
    BY <1>1, <1>5 DEF Mine
  <2>3. Grows(connectionFrames, connectionFrames')
        /\ Keeps(connectionFrames, connectionFrames', TRUE, Mine(0)')
    BY <1>1, <1>2, <1>5, <2>1, FillKeeps DEF SlotIsLast
  <2>4. Grows(frames[o], frames'[o])
        /\ Keeps(frames[o], frames'[o], Mine(o), Mine(o)')
    BY <1>2, <2>1, SameKeeps
  <2>. QED
    BY <1>1, <1>3, <2>2, <2>3, <2>4 DEF ReaderStep, Keeps
<1>6. CASE filling.stream # 0
  <2>1. connectionFrames' = connectionFrames
        /\ frames' = [frames EXCEPT ![filling.stream] = Fill(@)]
    BY <1>6 DEF Appended
  <2>2. Grows(connectionFrames, connectionFrames')
        /\ Keeps(connectionFrames, connectionFrames', Mine(0), Mine(0)')
    BY <1>2, <2>1, SameKeeps
  <2>3. CASE filling.stream = o
    <3>1. frames'[o] = Fill(frames[o])
      BY <2>1, <2>3
    <3>2. Mine(o)
      BY <1>1, <2>3 DEF Mine
    <3>3. Grows(frames[o], frames'[o])
          /\ Keeps(frames[o], frames'[o], TRUE, Mine(o)')
      BY <1>1, <1>2, <1>6, <2>3, <3>1, FillKeeps DEF SlotIsLast
    <3>. QED
      BY <1>1, <1>3, <2>2, <3>2, <3>3 DEF ReaderStep, Keeps
  <2>4. CASE filling.stream # o
    <3>1. frames'[o] = frames[o]
      BY <2>1, <2>4
    <3>2. Grows(frames[o], frames'[o])
          /\ Keeps(frames[o], frames'[o], Mine(o), Mine(o)')
      BY <1>2, <3>1, SameKeeps
    <3>. QED
      BY <1>1, <1>2, <1>3, <2>1, <2>2, <3>1, <3>2 DEF ReaderStep
  <2>. QED
    BY <2>3, <2>4
<1>. QED
  BY <1>5, <1>6

-----------------------------------------------------------------------------
\* A step of the reader keeps the invariant of every request.
LEMMA ReaderKeeps ==
  ASSUME TypedInv, RequestInv, NEW s \in Requests,
         NEW o \in Streams, streamOf[s] = o, ReaderStep(s, o)
  PROVE  Placed(s)' /\ Exact(s)'
<1>. USE DEF TypedInv, ListTypes
<1>1. Placed(s) /\ Exact(s)
  BY DEF RequestInv
<1>2. pc'[s] = pc[s] /\ streamOf'[s] = o
  BY DEF ReaderStep
<1>3. Placed(s)' /\ Exact(s)'
  <2>1. /\ allFrames' = allFrames /\ offset' = offset
        /\ connSize' = connSize /\ ownSize' = ownSize
    BY DEF ReaderStep, copyVars
  <2>2. Len(connectionFrames) \in Nat /\ Len(frames[o]) \in Nat
        /\ Len(allFrames[s]) \in Nat /\ offset[s] \in Nat
        /\ connSize[s] \in Nat /\ ownSize[s] \in Nat
    OBVIOUS
  <2>3. /\ Grows(connectionFrames, connectionFrames')
        /\ Grows(frames[o], frames'[o])
    BY DEF ReaderStep
  <2>4. Len(connectionFrames) <= Len(connectionFrames')
        /\ Len(frames[o]) <= Len(frames'[o])
    BY <2>3 DEF Grows
  <2>5. ASSUME NEW i \in 1..Len(allFrames[s]), allFrames[s][i] # Blank
        PROVE  /\ InPlace(s, i) => i <= Len(connectionFrames')
                                   /\ allFrames[s][i] = connectionFrames'[i]
               /\ i - offset[s] \in 1..Len(frames[o])
                  /\ allFrames[s][i] = frames[o][i - offset[s]] =>
                    allFrames[s][i] = frames'[o][i - offset[s]]
    <3>1. InPlace(s, i) => i \in 1..Len(connectionFrames)
      BY <2>2 DEF InPlace
    <3>. QED
      BY <2>3, <2>4, <2>5, <3>1 DEF Grows, InPlace
  <2>6. Placed(s)'
    <3>1. CASE pc[s] = "copyConn"
      BY <1>1, <1>2, <2>1, <3>1 DEF Placed, Copied
    <3>2. CASE pc[s] = "slice"
      BY <1>1, <1>2, <2>1, <2>5, <3>2 DEF Placed, Copied, InPlace
    <3>3. CASE pc[s] = "copyOwn"
      <4>1. offset[s] <= Len(connectionFrames')
        BY <1>1, <2>2, <2>4, <3>3 DEF Placed
      <4>. QED
        BY <1>1, <1>2, <2>1, <2>5, <3>3, <4>1 DEF Placed, Copied, InPlace
    <3>4. CASE Copied(s)
      <4>1. offset[s] <= Len(connectionFrames')
        BY <1>1, <2>2, <2>4, <3>4 DEF Placed
      <4>2. ASSUME NEW i \in 1..Len(allFrames[s])
            PROVE  \/ allFrames[s][i] = Blank
                   \/ /\ i <= offset[s] /\ i <= Len(connectionFrames')
                      /\ allFrames[s][i] = connectionFrames'[i]
                   \/ /\ i > offset[s] /\ i - offset[s] <= Len(frames'[o])
                      /\ allFrames[s][i] = frames'[o][i - offset[s]]
        <5>1. \/ allFrames[s][i] = Blank
              \/ i <= offset[s] /\ InPlace(s, i)
              \/ /\ i > offset[s] /\ i - offset[s] <= Len(frames[o])
                 /\ allFrames[s][i] = frames[o][i - offset[s]]
          BY <1>1, <3>4 DEF Placed
        <5>2. i > offset[s] /\ i - offset[s] <= Len(frames[o]) =>
                i - offset[s] \in 1..Len(frames[o])
          BY <2>2
        <5>. QED
          BY <2>2, <2>4, <2>5, <5>1, <5>2
      <4>. QED
        BY <1>2, <2>1, <3>4, <4>1, <4>2 DEF Placed, Copied, InPlace
    <3>5. CASE pc[s] \notin {"copyConn", "slice", "copyOwn"} /\ ~Copied(s)
      BY <1>2, <3>5 DEF Placed, Copied
    <3>. QED
      BY <3>1, <3>2, <3>3, <3>4, <3>5
  <2>7. Exact(s)'
    <3>. SUFFICES ASSUME steady'[s] PROVE Exact(s)'
      BY DEF Exact
    <3>1. steady[s]
      BY DEF ReaderStep
    <3>2. CASE InCopy(s)
      <4>1. ~Mine(0) /\ ~Mine(o)
        BY <1>1, <3>1, <3>2 DEF Exact
      <4>2. connectionFrames' = connectionFrames /\ frames'[o] = frames[o]
            /\ ~Mine(0)' /\ ~Mine(o)'
        BY <3>2, <4>1 DEF ReaderStep
      <4>3. ~Copied(s)
        BY <3>2 DEF InCopy, Copied
      <4>. QED
        BY <1>1, <1>2, <2>1, <3>1, <3>2, <4>2, <4>3
           DEF Exact, InCopy, Copied
    <3>3. CASE Copied(s)
      <4>1. /\ connSize[s] <= Len(connectionFrames)
            /\ Mine(0) => connSize[s] < Len(connectionFrames)
            /\ ownSize[s] <= Len(frames[o])
            /\ Mine(o) => ownSize[s] < Len(frames[o])
            /\ Len(allFrames[s]) = connSize[s] + ownSize[s]
            /\ \A i \in 1..connSize[s] : allFrames[s][i] = connectionFrames[i]
            /\ \A i \in 1..ownSize[s] :
                 allFrames[s][connSize[s] + i] = frames[o][i]
        BY <1>1, <3>1, <3>3 DEF Exact
      <4>2. /\ connSize[s] <= Len(connectionFrames')
            /\ Mine(0)' => connSize[s] < Len(connectionFrames')
            /\ \A i \in 1..connSize[s] :
                 connectionFrames'[i] = connectionFrames[i]
        BY <2>2, <4>1 DEF ReaderStep, Keeps
      <4>3. /\ ownSize[s] <= Len(frames'[o])
            /\ Mine(o)' => ownSize[s] < Len(frames'[o])
            /\ \A i \in 1..ownSize[s] : frames'[o][i] = frames[o][i]
        BY <2>2, <4>1 DEF ReaderStep, Keeps
      <4>4. ~InCopy(s)'
        BY <1>2, <3>3 DEF InCopy, Copied
      <4>. QED
        BY <1>2, <2>1, <3>3, <4>1, <4>2, <4>3, <4>4 DEF Exact, Copied, InCopy
    <3>4. CASE ~InCopy(s) /\ ~Copied(s)
      BY <1>2, <3>4 DEF Exact, InCopy, Copied
    <3>. QED
      BY <3>2, <3>3, <3>4
  <2>. QED
    BY <2>6, <2>7
<1>. QED
  BY <1>3

\* And of a request that has not started, or starts.
LEMMA StartKeeps ==
  ASSUME NEW s \in Requests, pc'[s] \in {"none", "sizeConn"}
  PROVE  Placed(s)' /\ Exact(s)'
BY DEF Placed, Exact, Copied, InCopy

\* Another request's step.
LEMMA OthersKeep ==
  ASSUME NEW s \in Requests, Placed(s), Exact(s),
         UNCHANGED <<connectionFrames, frames, filling, streamOf>>,
         pc'[s] = pc[s] \/ (Copied(s) /\ Copied(s)'),
         connSize'[s] = connSize[s], ownSize'[s] = ownSize[s],
         allFrames'[s] = allFrames[s], offset'[s] = offset[s],
         steady'[s] = steady[s]
  PROVE  Placed(s)' /\ Exact(s)'
<1>1. CASE pc'[s] = pc[s]
  BY <1>1 DEF Placed, Exact, Copied, InCopy, InPlace, Mine
<1>2. CASE Copied(s) /\ Copied(s)'
  BY <1>2 DEF Placed, Exact, Copied, InCopy, InPlace, Mine
<1>. QED
  BY <1>1, <1>2

\* A line of handleRequest keeps the invariant of every request.
LEMMA RequestKeeps ==
  ASSUME TypedInv, RequestInv, NEW r \in Requests, HandleRequest(r),
         NEW s \in Requests
  PROVE  Placed(s)' /\ Exact(s)'
<1>. USE FingerprintAssumption DEF TypedInv, ListTypes, readerVars, At
<1>1. Placed(s) /\ Exact(s)
  BY DEF RequestInv
<1>2. UNCHANGED <<connectionFrames, frames, filling, streamOf>>
  BY DEF HandleRequest, SizeConnection, SizeStream, CopyConnection, Slice,
         CopyStream, WriteJA4H, WriteJA4H_r, Respond
<1>2a. pc[r] # "none"
  BY DEF HandleRequest, SizeConnection, SizeStream, CopyConnection, Slice,
         CopyStream, WriteJA4H, WriteJA4H_r, Respond
<1>3. CASE r # s
  <2>1. pc'[s] = pc[s]
    BY <1>3 DEF HandleRequest, SizeConnection, SizeStream, CopyConnection,
                Slice, CopyStream, WriteJA4H, WriteJA4H_r, Respond
  <2>2. /\ connSize'[s] = connSize[s] /\ ownSize'[s] = ownSize[s]
        /\ allFrames'[s] = allFrames[s] /\ offset'[s] = offset[s]
    BY <1>3 DEF HandleRequest, SizeConnection, SizeStream, CopyConnection,
                Slice, CopyStream, WriteJA4H, WriteJA4H_r, Respond, copyVars
  <2>3. steady'[s] = steady[s]
    <3>1. CASE SizeConnection(r)
      <4>1. PICK b : steady' = [steady EXCEPT ![r] = b]
        BY <3>1, Zenon DEF SizeConnection
      <4>. QED
        BY <1>3, <4>1
    <3>. QED
      BY <3>1 DEF HandleRequest, SizeStream, CopyConnection, Slice, CopyStream,
                  WriteJA4H, WriteJA4H_r, Respond
  <2>. QED
    BY <1>1, <1>2, <2>1, <2>2, <2>3, OthersKeep
<1>4. CASE r = s
  <2>. USE <1>4
  <2>0. Len(connectionFrames) \in Nat /\ Len(frames[streamOf[s]]) \in Nat
        /\ Len(allFrames[s]) \in Nat /\ offset[s] \in Nat
        /\ connSize[s] \in Nat /\ ownSize[s] \in Nat
        /\ streamOf[s] \in Streams /\ frames[streamOf[s]] \in Seq(Any)
        /\ allFrames[s] \in Seq(Any)
    BY <1>2a
  <2>1. CASE SizeConnection(s)
    <3>1. pc'[s] = "sizeOwn" /\ connSize'[s] = Len(connectionFrames)
      BY <2>1 DEF SizeConnection
    <3>2. steady'[s] => filling = Blank \/ filling.stream \notin {0, streamOf[s]}
      BY <2>1, Zenon DEF SizeConnection
    <3>3. steady'[s] => ~Mine(0)' /\ ~Mine(streamOf[s])'
      BY <1>2, <3>2 DEF Mine
    <3>. QED
      BY <1>2, <3>1, <3>3 DEF Placed, Exact, Copied, InCopy
  <2>2. CASE SizeStream(s)
    <3>. DEFINE k == connSize[s] + Len(frames[streamOf[s]])
    <3>1. /\ pc[s] = "sizeOwn" /\ pc'[s] = "copyConn"
          /\ ownSize'[s] = Len(frames[streamOf[s]]) /\ connSize' = connSize
          /\ allFrames'[s] = [i \in 1..k |-> Blank] /\ steady' = steady
      BY <2>2 DEF SizeStream
    <3>2. k \in Nat
      BY <2>0
    <3>3. Len(allFrames'[s]) = k
          /\ \A i \in 1..k : allFrames'[s][i] = Blank
      BY <3>1, <3>2, Blanks
    <3>. QED
      BY <1>1, <1>2, <3>1, <3>3 DEF Placed, Exact, Copied, InCopy, Mine
  <2>3. CASE CopyConnection(s)
    <3>1. /\ pc[s] = "copyConn" /\ pc'[s] = "slice"
          /\ allFrames'[s] = Copy(allFrames[s], 0, connectionFrames)
          /\ steady' = steady /\ connSize' = connSize /\ ownSize' = ownSize
      BY <2>3 DEF CopyConnection
    <3>2. allFrames[s] \in Seq(Any) /\ connectionFrames \in Seq(Any)
      OBVIOUS
    <3>3. Len(allFrames'[s]) = Len(allFrames[s])
          /\ \A i \in 1..Len(allFrames[s]) :
               allFrames'[s][i] = IF i <= Len(connectionFrames)
                                  THEN connectionFrames[i] ELSE allFrames[s][i]
      <4>. DEFINE copied == Copy(allFrames[s], 0, connectionFrames)
      <4>1. Len(copied) = Len(allFrames[s])
            /\ \A i \in 1..Len(allFrames[s]) :
                 copied[i] = IF i <= Len(connectionFrames)
                             THEN connectionFrames[i] ELSE allFrames[s][i]
        BY ONLY <3>2, CopyingFromTheFront
      <4>2. allFrames'[s] = copied
        BY <3>1
      <4>. HIDE DEF copied
      <4>. QED
        BY ONLY <4>1, <4>2
    <3>4. \A i \in 1..Len(allFrames[s]) : allFrames[s][i] = Blank
      BY <1>1, <3>1 DEF Placed
    <3>5. Placed(s)'
      BY <1>2, <3>1, <3>3, <3>4 DEF Placed, Copied, InPlace
    <3>6. ASSUME steady[s]
          PROVE  /\ ~Mine(0)' /\ ~Mine(streamOf[s])'
                 /\ connSize'[s] = Len(connectionFrames')
                 /\ ownSize'[s] = Len(frames'[streamOf[s]])
                 /\ Len(allFrames'[s]) = connSize'[s] + ownSize'[s]
                 /\ \A i \in 1..connSize'[s] :
                      allFrames'[s][i] = connectionFrames'[i]
      <4>1. /\ ~Mine(0) /\ ~Mine(streamOf[s])
            /\ connSize[s] = Len(connectionFrames)
            /\ ownSize[s] = Len(frames[streamOf[s]])
            /\ Len(allFrames[s]) = connSize[s] + ownSize[s]
        BY <1>1, <3>1, <3>6 DEF Exact, InCopy
      <4>2. \A i \in 1..connSize[s] : i \in 1..Len(allFrames[s])
                                      /\ i <= Len(connectionFrames)
        BY <2>0, <4>1
      <4>3. ~Mine(0)' /\ ~Mine(streamOf[s])'
        BY <1>2, <4>1 DEF Mine
      <4>4. \A i \in 1..connSize[s] : allFrames'[s][i] = connectionFrames[i]
        BY <3>3, <4>2
      <4>. QED
        BY <1>2, <3>1, <3>3, <4>1, <4>3, <4>4
    <3>7. Exact(s)'
      BY <1>2, <3>1, <3>6 DEF Exact, Copied, InCopy, Mine
    <3>. QED
      BY <3>5, <3>7
  <2>4. CASE Slice(s)
    <3>1. /\ pc[s] = "slice" /\ pc'[s] \in {"panicked", "copyOwn"}
          /\ offset'[s] = Len(connectionFrames)
          /\ UNCHANGED <<allFrames, steady, connSize, ownSize>>
      BY <2>4 DEF Slice
    <3>2. \A i \in 1..Len(allFrames[s]) :
            \/ allFrames[s][i] = Blank
            \/ i <= Len(connectionFrames) /\ InPlace(s, i)
      BY <1>1, <3>1 DEF Placed, InPlace
    <3>2a. \A i : InPlace(s, i)' <=> InPlace(s, i)
      BY <1>2, <3>1 DEF InPlace
    <3>2b. Placed(s)'
      BY <1>2, <2>0, <3>1, <3>2, <3>2a DEF Placed, Copied
    <3>3. Exact(s)'
      BY <1>1, <1>2, <3>1 DEF Exact, Copied, InCopy, Mine
    <3>. QED
      BY <3>2b, <3>3
  <2>5. CASE CopyStream(s)
    <3>1. /\ pc[s] = "copyOwn" /\ pc'[s] = "ja4h"
          /\ allFrames'[s] = Copy(allFrames[s], offset[s], frames[streamOf[s]])
          /\ UNCHANGED <<steady, connSize, ownSize, offset>>
      BY <2>5 DEF CopyStream
    <3>2. Len(allFrames'[s]) = Len(allFrames[s])
          /\ \A i \in 1..Len(allFrames[s]) :
               allFrames'[s][i] =
                 IF i > offset[s] /\ i - offset[s] <= Len(frames[streamOf[s]])
                 THEN frames[streamOf[s]][i - offset[s]] ELSE allFrames[s][i]
      BY <2>0, <3>1, Copying
    <3>3. Placed(s)'
      BY <1>1, <1>2, <2>0, <3>1, <3>2 DEF Placed, Copied, InPlace
    <3>4. ASSUME steady[s]
          PROVE  /\ ~Mine(0) /\ ~Mine(streamOf[s])
                 /\ connSize[s] = Len(connectionFrames)
                 /\ ownSize[s] = Len(frames[streamOf[s]])
                 /\ Len(allFrames[s]) = connSize[s] + ownSize[s]
                 /\ \A i \in 1..connSize[s] :
                      allFrames'[s][i] = connectionFrames[i]
                 /\ \A i \in 1..ownSize[s] :
                      allFrames'[s][connSize[s] + i] = frames[streamOf[s]][i]
      <4>1. /\ ~Mine(0) /\ ~Mine(streamOf[s])
            /\ connSize[s] = Len(connectionFrames)
            /\ ownSize[s] = Len(frames[streamOf[s]])
            /\ Len(allFrames[s]) = connSize[s] + ownSize[s]
            /\ offset[s] = connSize[s]
            /\ \A i \in 1..connSize[s] : allFrames[s][i] = connectionFrames[i]
        BY <1>1, <3>1, <3>4 DEF Exact, InCopy
      <4>2. ASSUME NEW i \in 1..connSize[s]
            PROVE  allFrames'[s][i] = connectionFrames[i]
        <5>1. i \in 1..Len(allFrames[s]) /\ ~(i > offset[s])
          BY <2>0, <4>1
        <5>. QED
          BY <3>2, <4>1, <5>1
      <4>3. ASSUME NEW i \in 1..ownSize[s]
            PROVE  allFrames'[s][connSize[s] + i] = frames[streamOf[s]][i]
        <5>1. connSize[s] + i \in 1..Len(allFrames[s])
              /\ connSize[s] + i > offset[s]
              /\ (connSize[s] + i) - offset[s] = i
              /\ i <= Len(frames[streamOf[s]])
          BY <2>0, <4>1
        <5>. QED
          BY <3>2, <5>1
      <4>. QED
        BY <4>1, <4>2, <4>3
    <3>5. ASSUME steady[s]
          PROVE  /\ ~Mine(0)' /\ ~Mine(streamOf[s])'
                 /\ connSize'[s] <= Len(connectionFrames')
                 /\ ownSize'[s] <= Len(frames'[streamOf[s]])
                 /\ Len(allFrames'[s]) = connSize'[s] + ownSize'[s]
      BY <1>2, <2>0, <3>1, <3>2, <3>4, <3>5 DEF Mine
    <3>6. Exact(s)'
      BY <1>2, <3>1, <3>4, <3>5 DEF Exact, Copied, InCopy
    <3>. QED
      BY <3>3, <3>6
  <2>6. CASE WriteJA4H(s) \/ WriteJA4H_r(s) \/ Respond(s)
    <3>1. /\ Copied(s) /\ Copied(s)'
          /\ UNCHANGED <<connSize, ownSize, allFrames, offset, steady>>
      BY <2>6 DEF WriteJA4H, WriteJA4H_r, Respond, Copied, copyVars
    <3>. QED
      BY <1>1, <1>2, <3>1, OthersKeep
  <2>. QED
    BY <2>1, <2>2, <2>3, <2>4, <2>5, <2>6 DEF HandleRequest
<1>. QED
  BY <1>3, <1>4

\* The invariant holds of every request at every time.
LEMMA RequestsInductive == Spec => [](TypedInv /\ RequestInv)
<1>1. Init => RequestInv
  BY DEF Init, RequestInv, Placed, Exact, Copied, InCopy
<1>2. TypedInv /\ RequestInv /\ [Next]_vars => RequestInv'
  <2>. SUFFICES ASSUME TypedInv, RequestInv, [Next]_vars, NEW s \in Requests
                PROVE  Placed(s)' /\ Exact(s)'
    BY DEF RequestInv
  <2>0. pc[s] # "none" => streamOf[s] \in Streams
    BY DEF TypedInv, ListTypes
  <2>1. CASE Reads
    <3>1. CASE pc[s] = "none"
      <4>1. pc' = pc
        BY <2>1 DEF Reads
      <4>. QED
        BY <3>1, <4>1, StartKeeps
    <3>2. CASE pc[s] # "none"
      BY <2>0, <2>1, <3>2, ReadsStep, ReaderKeeps
    <3>. QED
      BY <3>1, <3>2
  <2>2. CASE Appended
    <3>1. CASE pc[s] = "none"
      <4>1. pc'[s] \in {"none", "sizeConn"}
        BY <2>2, <3>1 DEF Appended, Start, TypedInv, ListTypes
      <4>. QED
        BY <4>1, StartKeeps
    <3>2. CASE pc[s] # "none"
      BY <2>0, <2>2, <3>2, AppendedStep, ReaderKeeps
    <3>. QED
      BY <3>1, <3>2
  <2>3. ASSUME NEW r \in Requests, HandleRequest(r)
        PROVE  Placed(s)' /\ Exact(s)'
    BY <2>3, RequestKeeps
  <2>4. CASE UNCHANGED vars
    BY <2>4, OthersKeep DEF vars, readerVars, copyVars, RequestInv
  <2>5. ListTypes
    BY DEF TypedInv
  <2>. QED
    BY <2>1, <2>2, <2>3, <2>4, <2>5, ReadsAppend DEF Next, ProcessFrames
<1>. QED
  BY <1>1, <1>2, Typed, PTL DEF Spec

(***************************************************************************)
(* However the reader and the requests interleave, handleRequest's list is *)
(* in place: no frame is moved, repeated, or another stream's.             *)
(***************************************************************************)
THEOREM SnapshotsArePlaced == Spec => []SnapshotPlaced
<1>1. TypedInv /\ RequestInv => SnapshotPlaced
  <2>. SUFFICES ASSUME TypedInv, RequestInv, NEW s \in Requests, Copied(s),
                       NEW i \in DOMAIN allFrames[s]
                PROVE  \/ allFrames[s][i] = Blank
                       \/ /\ i <= offset[s]
                          /\ allFrames[s][i] = connectionFrames[i]
                       \/ /\ i > offset[s]
                          /\ allFrames[s][i] = frames[streamOf[s]][i - offset[s]]
    BY DEF SnapshotPlaced
  <2>1. i \in 1..Len(allFrames[s])
    BY DEF TypedInv, ListTypes
  <2>. QED
    BY <2>1 DEF RequestInv, Placed, InPlace
<1>. QED
  BY <1>1, RequestsInductive, PTL

(***************************************************************************)
(* A request whose lists did not change while handleRequest copied them    *)
(* has every frame of the connection and of its stream, in order.          *)
(***************************************************************************)
THEOREM SteadySnapshotsAreExact == Spec => []SteadyIsExact
<1>1. TypedInv /\ RequestInv => SteadyIsExact
  <2>. SUFFICES ASSUME TypedInv, RequestInv, NEW s \in Requests, Copied(s),
                       steady[s]
                PROVE  allFrames[s] =
                         SubSeq(connectionFrames, 1, connSize[s])
                           \o SubSeq(frames[streamOf[s]], 1, ownSize[s])
    BY DEF SteadyIsExact
  <2>. DEFINE a == SubSeq(connectionFrames, 1, connSize[s])
              b == SubSeq(frames[streamOf[s]], 1, ownSize[s])
  <2>0. pc[s] # "none"
    BY DEF Copied
  <2>1. /\ connectionFrames \in Seq(Any) /\ frames[streamOf[s]] \in Seq(Any)
        /\ allFrames[s] \in Seq(Any)
        /\ connSize[s] \in Nat /\ ownSize[s] \in Nat
    BY <2>0 DEF TypedInv, ListTypes
  <2>2. /\ connSize[s] <= Len(connectionFrames)
        /\ ownSize[s] <= Len(frames[streamOf[s]])
        /\ Len(allFrames[s]) = connSize[s] + ownSize[s]
        /\ \A i \in 1..connSize[s] : allFrames[s][i] = connectionFrames[i]
        /\ \A i \in 1..ownSize[s] :
             allFrames[s][connSize[s] + i] = frames[streamOf[s]][i]
    BY DEF RequestInv, Exact
  <2>3. a \in Seq(Any) /\ Len(a) = connSize[s]
        /\ \A i \in 1..connSize[s] : a[i] = connectionFrames[i]
    BY <2>1, <2>2, SubSeqProperties
  <2>4. b \in Seq(Any) /\ Len(b) = ownSize[s]
        /\ \A i \in 1..ownSize[s] : b[i] = frames[streamOf[s]][i]
    BY <2>1, <2>2, SubSeqProperties
  <2>. HIDE DEF a, b
  <2>5. /\ a \o b \in Seq(Any)
        /\ Len(a \o b) = connSize[s] + ownSize[s]
        /\ \A i \in 1..(connSize[s] + ownSize[s]) :
             (a \o b)[i] = IF i <= connSize[s]
                           THEN a[i] ELSE b[i - connSize[s]]
    <3>1. /\ a \o b \in Seq(Any)
          /\ Len(a \o b) = Len(a) + Len(b)
          /\ \A i \in 1..(Len(a) + Len(b)) :
               (a \o b)[i] = IF i <= Len(a) THEN a[i] ELSE b[i - Len(a)]
      BY <2>3, <2>4, ConcatProperties
    <3>. QED
      BY <2>3, <2>4, <3>1
  <2>6. ASSUME NEW i \in 1..Len(allFrames[s])
        PROVE  allFrames[s][i] = (a \o b)[i]
    <3>1. CASE i <= connSize[s]
      <4>1. i \in 1..connSize[s]
        BY <2>1, <3>1
      <4>. QED
        BY <2>2, <2>3, <2>5, <4>1
    <3>2. CASE i > connSize[s]
      <4>1. i - connSize[s] \in 1..ownSize[s]
            /\ connSize[s] + (i - connSize[s]) = i /\ ~(i <= connSize[s])
        BY <2>1, <2>2, <3>2
      <4>2. allFrames[s][i] = frames[streamOf[s]][i - connSize[s]]
        BY <2>2, <4>1
      <4>. QED
        BY <2>2, <2>4, <2>5, <4>1, <4>2
    <3>3. i <= connSize[s] \/ i > connSize[s]
      BY <2>1
    <3>. QED
      BY <3>1, <3>2, <3>3
  <2>7. Len(allFrames[s]) = Len(a \o b)
    BY <2>2, <2>5
  <2>8. allFrames[s] = a \o b
    BY <2>1, <2>5, <2>6, <2>7, SeqEqual
  <2>. QED
    BY <2>8 DEF a, b
<1>. QED
  BY <1>1, RequestsInductive, PTL

-----------------------------------------------------------------------------
(***************************************************************************)
(* The shared TLSDetails.  While a request that runs alone is at work it   *)
(* is the only one, so the hashes it has written are still there when it   *)
(* responds.                                                               *)
(***************************************************************************)
TlsShape == tls = [ja4h |-> tls.ja4h, ja4h_r |-> tls.ja4h_r]

NoOther(s) == alone[s] /\ s \in Active => Active = {s}

Written(s) ==
  alone[s] =>
    /\ pc[s] = "ja4h_r" => tls.ja4h = JA4H(s)
    /\ pc[s] = "respond" => tls = [ja4h |-> JA4H(s), ja4h_r |-> JA4H(s)]
    /\ pc[s] = "done" => report[s] = [ja4h |-> JA4H(s), ja4h_r |-> JA4H(s)]

AloneTypes ==
  /\ pc \in [Requests -> Lines]
  /\ alone \in [Requests -> BOOLEAN]
  /\ DOMAIN report = Requests

AloneInv ==
  /\ AloneTypes
  /\ TlsShape
  /\ \A s \in Requests : NoOther(s) /\ Written(s)

\* A step that moves no request on and leaves the shared record alone.
LEMMA AloneSame ==
  ASSUME AloneInv, UNCHANGED <<pc, allFrames, tls, report, alone>>
  PROVE  AloneInv'
BY DEF AloneInv, AloneTypes, TlsShape, NoOther, Written, Active, JA4H

\* handleRequest starts: the request is alone if no other is at work, and no
\* other is alone any more.
LEMMA AloneStarts ==
  ASSUME AloneInv, NEW r \in Requests,
         pc' = [pc EXCEPT ![r] = "sizeConn"],
         alone' = [s \in Requests |-> IF s = r THEN Active = {}
                                     ELSE alone[s] /\ s \notin Active],
         UNCHANGED <<allFrames, tls, report>>
  PROVE  AloneInv'
<1>. USE DEF AloneInv, AloneTypes
<1>1. AloneTypes'
  BY DEF Lines
<1>2. TlsShape'
  BY DEF TlsShape
<1>3. Active' = Active \cup {r}
  BY DEF Active
<1>4. ASSUME NEW s \in Requests PROVE NoOther(s)' /\ Written(s)'
  <2>1. CASE s = r
    BY <1>3, <2>1 DEF NoOther, Written
  <2>2. CASE s # r
    <3>1. pc'[s] = pc[s] /\ (alone'[s] => alone[s] /\ s \notin Active)
      BY <2>2
    <3>2. NoOther(s)'
      BY <1>3, <2>2, <3>1 DEF NoOther
    <3>3. Written(s)'
      BY <3>1 DEF Written, JA4H
    <3>. QED
      BY <3>2, <3>3
  <2>. QED
    BY <2>1, <2>2
<1>. QED
  BY <1>1, <1>2, <1>4

\* A request goes on to a line before the hashes, or stops in a panic.
LEMMA AloneCopies ==
  ASSUME AloneInv, NEW r \in Requests, pc[r] \notin {"none", "done"},
         NEW next \in {"sizeOwn", "copyConn", "slice", "copyOwn", "ja4h",
                       "panicked"},
         pc' = [pc EXCEPT ![r] = next],
         \A s \in Requests \ {r} : allFrames'[s] = allFrames[s],
         UNCHANGED <<tls, report, alone>>
  PROVE  AloneInv'
<1>. USE DEF AloneInv, AloneTypes
<1>1. AloneTypes'
  BY DEF Lines
<1>2. Active' = Active
  BY DEF Active
<1>3. ASSUME NEW s \in Requests PROVE NoOther(s)' /\ Written(s)'
  <2>1. CASE s = r
    BY <1>2, <2>1 DEF NoOther, Written
  <2>2. CASE s # r
    BY <1>2, <2>2 DEF NoOther, Written, JA4H
  <2>. QED
    BY <2>1, <2>2
<1>. QED
  BY <1>1, <1>3 DEF TlsShape

\* A request at work is no other than the one that runs alone.
LEMMA OthersNotAlone ==
  ASSUME AloneInv, NEW r \in Requests, pc[r] \notin {"none", "done"},
         NEW s \in Requests, s # r, alone[s]
  PROVE  pc[s] \in {"none", "done"}
BY DEF AloneInv, NoOther, Active

\* The hashes are written, and read into the response.
LEMMA AloneWrites ==
  ASSUME AloneInv, NEW r \in Requests,
         WriteJA4H(r) \/ WriteJA4H_r(r) \/ Respond(r)
  PROVE  AloneInv'
<1>. USE DEF AloneInv, AloneTypes, At, copyVars
<1>1. /\ allFrames' = allFrames /\ alone' = alone
      /\ pc[r] \in {"ja4h", "ja4h_r", "respond"}
  BY DEF WriteJA4H, WriteJA4H_r, Respond
<1>2. /\ AloneTypes'
      /\ \A s \in Requests : s # r => pc'[s] = pc[s] /\ report'[s] = report[s]
      /\ Active' \subseteq Active
  BY DEF WriteJA4H, WriteJA4H_r, Respond, Active, Lines
<1>3. ASSUME NEW s \in Requests, s # r PROVE Written(s)'
  <2>1. alone[s] => pc[s] \in {"none", "done"}
    BY <1>1, <1>3, OthersNotAlone
  <2>. QED
    BY <1>1, <1>2, <1>3, <2>1 DEF Written, JA4H
<1>4. ASSUME NEW s \in Requests PROVE NoOther(s)'
  BY <1>1, <1>2 DEF NoOther, Active
<1>5. JA4H(r)' = JA4H(r)
  BY <1>1 DEF JA4H
<1>6. TlsShape' /\ Written(r)'
  <2>1. CASE WriteJA4H(r)
    <3>1. tls' = [ja4h |-> JA4H(r), ja4h_r |-> tls.ja4h_r] /\ pc'[r] = "ja4h_r"
      BY <2>1 DEF WriteJA4H, TlsShape
    <3>. QED
      BY <1>5, <3>1 DEF TlsShape, Written
  <2>2. CASE WriteJA4H_r(r)
    <3>1. tls' = [ja4h |-> tls.ja4h, ja4h_r |-> JA4H(r)]
          /\ pc[r] = "ja4h_r" /\ pc'[r] = "respond"
      BY <2>2 DEF WriteJA4H_r, TlsShape
    <3>2. alone[r] => tls.ja4h = JA4H(r)
      BY <3>1 DEF Written
    <3>. QED
      BY <1>1, <1>5, <3>1, <3>2 DEF TlsShape, Written
  <2>3. CASE Respond(r)
    <3>1. tls' = tls /\ report'[r] = tls
          /\ pc[r] = "respond" /\ pc'[r] = "done"
      BY <2>3 DEF Respond
    <3>2. alone[r] => tls = [ja4h |-> JA4H(r), ja4h_r |-> JA4H(r)]
      BY <3>1 DEF Written
    <3>. QED
      BY <1>1, <1>5, <3>1, <3>2 DEF TlsShape, Written
  <2>. QED
    BY <2>1, <2>2, <2>3
<1>. QED
  BY <1>2, <1>3, <1>4, <1>6

\* What holds of the shared record, through every step.
LEMMA AloneInductive == Spec => []AloneInv
<1>1. Init => AloneInv
  BY DEF Init, AloneInv, AloneTypes, TlsShape, NoOther, Written, Active, Lines,
         Nothing
<1>2. AloneInv /\ TypedInv /\ [Next]_vars => AloneInv'
  <2>. SUFFICES ASSUME AloneInv, TypedInv, [Next]_vars PROVE AloneInv'
    OBVIOUS
  <2>0. ListTypes
    BY DEF TypedInv
  <2>1. CASE Reads
    BY <2>1, AloneSame DEF Reads, copyVars
  <2>2. CASE Appended
    <3>1. UNCHANGED <<allFrames, tls, report>>
      BY <2>2 DEF Appended, copyVars
    <3>2. CASE \E r \in Requests : Start(r)
      BY <3>1, <3>2, AloneStarts DEF Start
    <3>3. CASE UNCHANGED <<pc, alone>>
      BY <3>1, <3>3, AloneSame
    <3>. QED
      BY <2>2, <3>2, <3>3 DEF Appended
  <2>3. ASSUME NEW r \in Requests, HandleRequest(r) PROVE AloneInv'
    <3>1. CASE WriteJA4H(r) \/ WriteJA4H_r(r) \/ Respond(r)
      BY <3>1, AloneWrites
    <3>2. CASE SizeConnection(r)
      <4>1. pc[r] = "sizeConn" /\ pc' = [pc EXCEPT ![r] = "sizeOwn"]
            /\ UNCHANGED <<allFrames, tls, report, alone>>
        BY <3>2, Zenon DEF SizeConnection, At
      <4>. QED
        BY <4>1, AloneCopies
    <3>3. CASE SizeStream(r) \/ CopyConnection(r) \/ Slice(r) \/ CopyStream(r)
      <4>1. PICK next \in {"copyConn", "slice", "copyOwn", "ja4h", "panicked"} :
              pc' = [pc EXCEPT ![r] = next]
        BY <3>3 DEF SizeStream, CopyConnection, Slice, CopyStream, At
      <4>2. pc[r] \in {"sizeOwn", "copyConn", "slice", "copyOwn"}
            /\ UNCHANGED <<tls, report, alone>>
        BY <3>3 DEF SizeStream, CopyConnection, Slice, CopyStream, At
      <4>3. \A s \in Requests \ {r} : allFrames'[s] = allFrames[s]
        BY <2>0, <3>3
           DEF SizeStream, CopyConnection, Slice, CopyStream, ListTypes
      <4>. QED
        BY <4>1, <4>2, <4>3, AloneCopies
    <3>. QED
      BY <2>3, <3>1, <3>2, <3>3 DEF HandleRequest
  <2>4. CASE UNCHANGED vars
    BY <2>4, AloneSame DEF vars, copyVars
  <2>. QED
    BY <2>0, <2>1, <2>2, <2>3, <2>4, ReadsAppend DEF Next, ProcessFrames
<1>. QED
  BY <1>1, <1>2, Typed, PTL DEF Spec

(***************************************************************************)
(* A request beside which no other ran on its connection reports the JA4H  *)
(* of its own headers: handleRequest shares c.tlsFingerprint with the      *)
(* other requests only in time.                                            *)
(***************************************************************************)
THEOREM RequestsAloneReportTheirOwn == Spec => []AloneReportsOwn
<1>1. AloneInv => AloneReportsOwn
  BY DEF AloneInv, Written, AloneReportsOwn, Reported
<1>. QED
  BY <1>1, AloneInductive, PTL

-----------------------------------------------------------------------------
(***************************************************************************)
(* What the lists of streams hold: a stream's own frames, and no SETTINGS. *)
(***************************************************************************)
OwnFrame(s, frame) ==
  frame = Blank \/ (frame.stream = s /\ frame.type # "SETTINGS")

OwnFrames(s) == \A i \in 1..Len(frames[s]) : OwnFrame(s, frames[s][i])

ListsInv ==
  /\ filling.stream # 0 => filling.type # "SETTINGS"
  /\ \A s \in Streams : OwnFrames(s)

\* A step of the reader.
LEMMA ListsOfReader ==
  ASSUME TypedInv, ListsInv, Reads \/ Appended
  PROVE  ListsInv'
<1>. USE FingerprintAssumption DEF TypedInv, ListTypes
<1>1. filling'.stream # 0 => filling'.type # "SETTINGS"
  <2>1. CASE Reads
    <3>1. PICK frame \in Any :
            BeginAppend(frame) /\ (frame.stream # 0 => frame.type \in StreamTypes)
      BY <2>1 DEF Reads
    <3>. QED
      BY <3>1 DEF BeginAppend, StreamTypes
  <2>2. CASE Appended
    BY <2>2 DEF Appended, Blank
  <2>. QED
    BY <2>1, <2>2
<1>2. ASSUME NEW s \in Streams PROVE OwnFrames(s)'
  <2>1. OwnFrames(s)
    BY DEF ListsInv
  <2>2. CASE frames'[s] = frames[s]
    BY <2>1, <2>2 DEF OwnFrames
  <2>3. CASE frames'[s] = Append(frames[s], Blank)
    <3>1. /\ Len(frames'[s]) = Len(frames[s]) + 1
          /\ \A i \in 1..Len(frames[s]) : frames'[s][i] = frames[s][i]
          /\ frames'[s][Len(frames[s]) + 1] = Blank
          /\ Len(frames[s]) \in Nat
      BY <2>3, Appending
    <3>2. \A i \in 1..(Len(frames[s]) + 1) :
            i \in 1..Len(frames[s]) \/ i = Len(frames[s]) + 1
      BY <3>1
    <3>. QED
      BY <2>1, <3>1, <3>2 DEF OwnFrames, OwnFrame
  <2>4. CASE /\ Appended /\ filling.stream = s
             /\ frames'[s] = Fill(frames[s])
    <3>1. filling # Blank /\ s # 0
      BY <2>4 DEF Appended
    <3>2. Len(frames[s]) > 0
      BY <2>4, <3>1 DEF SlotIsLast
    <3>3. /\ Len(frames'[s]) = Len(frames[s])
          /\ \A i \in 1..Len(frames[s]) :
               frames'[s][i] = IF i = Len(frames[s])
                               THEN filling ELSE frames[s][i]
      BY <2>4, <3>2, Filling
    <3>4. OwnFrame(s, filling)
      BY <2>4, <3>1 DEF ListsInv, OwnFrame
    <3>. QED
      BY <2>1, <3>3, <3>4 DEF OwnFrames
  <2>5. \/ frames'[s] = frames[s] \/ frames'[s] = Append(frames[s], Blank)
        \/ /\ Appended /\ filling.stream = s
           /\ frames'[s] = Fill(frames[s])
    <3>1. CASE Reads
      <4>1. PICK frame \in Any : BeginAppend(frame)
        BY <3>1 DEF Reads
      <4>. QED
        BY <4>1 DEF BeginAppend, Any
    <3>2. CASE Appended
      BY <3>2 DEF Appended
    <3>. QED
      BY <3>1, <3>2
  <2>. QED
    BY <2>2, <2>3, <2>4, <2>5
<1>. QED
  BY <1>1, <1>2 DEF ListsInv

\* What the lists hold, through every step.
LEMMA ListsInductive == Spec => []ListsInv
<1>1. Init => ListsInv
  <2>. SUFFICES ASSUME Init PROVE ListsInv
    OBVIOUS
  <2>1. filling.type # "SETTINGS" /\ \A s \in Streams : Len(frames[s]) = 0
    BY DEF Init, Blank
  <2>. QED
    BY <2>1 DEF ListsInv, OwnFrames
<1>2. ListsInv /\ TypedInv /\ [Next]_vars => ListsInv'
  <2>. SUFFICES ASSUME ListsInv, TypedInv, [Next]_vars
                PROVE  ListsInv'
    OBVIOUS
  <2>1. CASE UNCHANGED vars
    BY <2>1 DEF vars, readerVars, ListsInv, OwnFrames, OwnFrame
  <2>2. ListTypes
    BY DEF TypedInv
  <2>3. ASSUME NEW r \in Requests, HandleRequest(r) PROVE ListsInv'
    <3>1. UNCHANGED <<frames, filling>>
      BY <2>3 DEF HandleRequest, SizeConnection, SizeStream, CopyConnection,
           Slice, CopyStream, WriteJA4H, WriteJA4H_r, Respond, At, readerVars
    <3>. QED
      BY <3>1 DEF ListsInv, OwnFrames, OwnFrame
  <2>. QED
    BY <2>1, <2>2, <2>3, ReadsAppend, ListsOfReader DEF Next, ProcessFrames
<1>. QED
  BY <1>1, <1>2, Typed, PTL DEF Spec

-----------------------------------------------------------------------------
IsFirst(list, type, m) ==
  /\ m \in 1..Len(list)
  /\ list[m].type = type
  /\ \A i \in 1..(m - 1) : list[i].type # type

\* First takes the frame before which there is none of its type.
LEMMA FirstTakes ==
  ASSUME NEW list \in Seq(Any), NEW type, NEW m \in Nat, IsFirst(list, type, m)
  PROVE  First(list, type) = <<list[m]>>
<1>. DEFINE at == Positions(list, type)
<1>1. m \in at /\ \A j \in at : m <= j
  <2>1. \A j \in at : j \in 1..Len(list) /\ list[j].type = type
    BY DEF Positions
  <2>2. m \in at
    BY DEF Positions, IsFirst
  <2>3. ASSUME NEW j \in at, j < m PROVE FALSE
    <3>1. j \in 1..(m - 1)
      BY <2>1, <2>3
    <3>. QED
      BY <2>1, <3>1 DEF IsFirst
  <2>. QED
    BY <2>1, <2>2, <2>3
<1>2. at \subseteq Nat
  BY DEF Positions
<1>. HIDE DEF at
<1>3. (CHOOSE i \in at : \A j \in at : i <= j) = m
  <2>1. \A i \in at : (\A j \in at : i <= j) => i = m
    BY <1>1, <1>2
  <2>. QED
    BY <1>1, <2>1
<1>. QED
  BY <1>1, <1>3 DEF First, at

\* And there is one, when it takes any.
LEMMA FirstIsThere ==
  ASSUME NEW list \in Seq(Any), NEW type, First(list, type) # None
  PROVE  \E m \in Nat : IsFirst(list, type, m)
<1>. DEFINE at == Positions(list, type)
<1>1. at # {} /\ at \subseteq Nat
  BY DEF First, Positions
<1>2. PICK m \in at : \A j \in at : m <= j
  <2>. HIDE DEF at
  <2>. QED
    BY <1>1, LeastExists
<1>3. m \in 1..Len(list) /\ list[m].type = type
  BY DEF Positions
<1>4. ASSUME NEW i \in 1..(m - 1) PROVE list[i].type # type
  <2>1. i \in 1..Len(list) /\ i < m
    BY <1>3
  <2>. QED
    BY <1>2, <2>1 DEF Positions
<1>. QED
  BY <1>3, <1>4 DEF IsFirst

Whole(s) ==
  /\ allFrames[s] \in Seq(Any)
  /\ Len(allFrames[s]) = connSize[s] + ownSize[s]
  /\ connSize[s] \in Nat /\ ownSize[s] \in Nat
  /\ connSize[s] <= Len(connectionFrames)
  /\ \A i \in 1..connSize[s] : allFrames[s][i] = connectionFrames[i]
  /\ streamOf[s] \in Streams
  /\ \A i \in 1..ownSize[s] :
       OwnFrame(streamOf[s], allFrames[s][connSize[s] + i])

\* A steady request has the connection's frames, and then its own.
LEMMA SteadyIsWhole ==
  ASSUME TypedInv, RequestInv, ListsInv, NEW s \in Requests, Undisturbed(s)
  PROVE  Whole(s)
<1>. USE DEF TypedInv, ListTypes
<1>0. /\ streamOf[s] \in Streams
      /\ Len(frames[streamOf[s]]) \in Nat
  BY DEF Undisturbed, Copied
<1>1. /\ connSize[s] <= Len(connectionFrames)
      /\ ownSize[s] <= Len(frames[streamOf[s]])
      /\ Len(allFrames[s]) = connSize[s] + ownSize[s]
      /\ \A i \in 1..connSize[s] : allFrames[s][i] = connectionFrames[i]
      /\ \A i \in 1..ownSize[s] :
           allFrames[s][connSize[s] + i] = frames[streamOf[s]][i]
  BY DEF RequestInv, Exact, Undisturbed
<1>2. OwnFrames(streamOf[s])
  BY <1>0 DEF ListsInv
<1>3. connSize[s] \in Nat /\ ownSize[s] \in Nat /\ allFrames[s] \in Seq(Any)
  OBVIOUS
<1>4. ASSUME NEW i \in 1..ownSize[s]
      PROVE  OwnFrame(streamOf[s], allFrames[s][connSize[s] + i])
  <2>1. i \in 1..Len(frames[streamOf[s]])
    BY <1>0, <1>1, <1>3
  <2>. QED
    BY <1>1, <1>2, <2>1 DEF OwnFrames
<1>. QED
  BY <1>0, <1>1, <1>3, <1>4 DEF Whole

\* What one of them takes first of the connection's, a later one takes too.
LEMMA LaterTakesTheSame ==
  ASSUME NEW q \in Requests, NEW r \in Requests, Whole(q), Whole(r),
         connSize[q] <= connSize[r], NEW type, First(allFrames[q], type) # None,
         \A i \in 1..ownSize[q] : \/ allFrames[q][connSize[q] + i].type # type
                                  \/ First(allFrames[q], type)[1].stream = 0,
         type \in {"SETTINGS", "WINDOW_UPDATE"}
  PROVE  First(allFrames[r], type) = First(allFrames[q], type)
<1>1. PICK m \in Nat : IsFirst(allFrames[q], type, m)
  BY FirstIsThere DEF Whole
<1>2. First(allFrames[q], type) = <<allFrames[q][m]>>
  BY <1>1, FirstTakes DEF Whole
<1>3. m \in 1..connSize[q]
  <2>1. m \in 1..(connSize[q] + ownSize[q]) /\ allFrames[q][m].type = type
    BY <1>1 DEF Whole, IsFirst
  <2>2. ASSUME m > connSize[q] PROVE FALSE
    <3>. DEFINE i == m - connSize[q]
    <3>1. i \in 1..ownSize[q] /\ connSize[q] + i = m
      BY <2>1, <2>2 DEF Whole
    <3>. HIDE DEF i
    <3>2. OwnFrame(streamOf[q], allFrames[q][m]) /\ streamOf[q] \in Streams
      BY <3>1 DEF Whole
    <3>3. allFrames[q][m].stream = 0
      <4>1. First(allFrames[q], type)[1] = allFrames[q][m]
        BY <1>2
      <4>2. allFrames[q][connSize[q] + i].type = type
        BY <2>1, <3>1
      <4>. QED
        BY <3>1, <4>1, <4>2
    <3>4. allFrames[q][m] = Blank
      BY <3>2, <3>3, FingerprintAssumption DEF OwnFrame
    <3>5. Blank.type = ""
      BY DEF Blank
    <3>. QED
      BY <2>1, <3>4, <3>5
  <2>. QED
    BY <2>1, <2>2 DEF Whole
<1>4. \A i \in 1..m : /\ i \in 1..connSize[q] /\ i \in 1..connSize[r]
                      /\ i \in 1..Len(allFrames[r])
  BY <1>3 DEF Whole
<1>5. \A i \in 1..m : allFrames[r][i] = allFrames[q][i]
  BY <1>4 DEF Whole
<1>6. m \in 1..m /\ \A i \in 1..(m - 1) : i \in 1..m
  BY <1>3
<1>7. IsFirst(allFrames[r], type, m)
  BY <1>1, <1>4, <1>5, <1>6 DEF IsFirst
<1>8. First(allFrames[r], type) = <<allFrames[r][m]>>
  BY <1>7, FirstTakes DEF Whole
<1>. QED
  BY <1>2, <1>5, <1>6, <1>8

(***************************************************************************)
(* Of two requests of a connection that copied undisturbed the later to    *)
(* look gives the SETTINGS fingerprint of the earlier, if that had any,    *)
(* and its WINDOW_UPDATE when it is the connection's:                      *)
(* getSettingsFingerprint and getWindowUpdateFingerprint of combined lists *)
(* tell the client, in whatever order its frames come.                     *)
(***************************************************************************)
THEOREM RequestsTellOneClient == Spec => []OneClient
<1>1. TypedInv /\ RequestInv /\ ListsInv => OneClient
  <2>. SUFFICES ASSUME TypedInv, RequestInv, ListsInv,
                       NEW q \in Requests, NEW r \in Requests,
                       Undisturbed(q), Undisturbed(r),
                       connSize[q] <= connSize[r]
                PROVE  /\ Akamai(q).settings \in {None, Akamai(r).settings}
                       /\ \A frame \in {Akamai(q).window[i] :
                                          i \in DOMAIN Akamai(q).window} :
                            frame.stream = 0 => Akamai(r).window = <<frame>>
    BY DEF OneClient
  <2>1. Whole(q) /\ Whole(r)
    BY SteadyIsWhole
  <2>2. \A p \in Requests :
          /\ Akamai(p).settings = First(allFrames[p], "SETTINGS")
          /\ Akamai(p).window = First(allFrames[p], "WINDOW_UPDATE")
    BY DEF Akamai
  <2>3. \A i \in 1..ownSize[q] :
          allFrames[q][connSize[q] + i].type # "SETTINGS"
    <3>1. ASSUME NEW frame, OwnFrame(streamOf[q], frame)
          PROVE  frame.type # "SETTINGS"
      <4>1. Blank.type = ""
        BY DEF Blank
      <4>. QED
        BY <3>1, <4>1 DEF OwnFrame
    <3>. QED
      BY <2>1, <3>1 DEF Whole
  <2>4. Akamai(q).settings \in {None, Akamai(r).settings}
    BY <2>1, <2>2, <2>3, LaterTakesTheSame
  <2>5. ASSUME NEW frame \in {Akamai(q).window[i] :
                                i \in DOMAIN Akamai(q).window},
               frame.stream = 0
        PROVE  Akamai(r).window = <<frame>>
    <3>. DEFINE w == First(allFrames[q], "WINDOW_UPDATE")
    <3>1. w # None /\ frame \in {w[i] : i \in DOMAIN w}
      BY <2>2, <2>5 DEF None
    <3>2. PICK f : w = <<f>>
      BY <3>1 DEF First, None
    <3>3. w = <<frame>> /\ w[1] = frame
      <4>. HIDE DEF w
      <4>1. DOMAIN <<f>> = {1} /\ <<f>>[1] = f
        OBVIOUS
      <4>. QED
        BY <3>1, <3>2, <4>1
    <3>4. First(allFrames[r], "WINDOW_UPDATE") = w
      BY <2>1, <2>5, <3>1, <3>3, LaterTakesTheSame
    <3>. QED
      BY <2>2, <3>3, <3>4
  <2>. QED
    BY <2>4, <2>5
<1>. QED
  BY <1>1, RequestsInductive, ListsInductive, PTL
=============================================================================
