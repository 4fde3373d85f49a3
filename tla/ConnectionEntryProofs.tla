----------------------- MODULE ConnectionEntryProofs -----------------------
(***************************************************************************)
(* Proofs about ConnectionEntry, for any number of connections and any     *)
(* lengths: its types, that a connection is closed or its client gone once *)
(* its supervisor is done, that a handler is stranded only on a closed     *)
(* connection, and that a message sent in one record is read whole.        *)
(***************************************************************************)
EXTENDS ConnectionEntry, SequenceTheorems, TLAPS

-----------------------------------------------------------------------------
(* Types.                                                                  *)

(***************************************************************************)
(* Reading up to n bytes counts at most n and leaves records.              *)
(***************************************************************************)
LEMMA ReadTypes ==
  ASSUME EntryTypeOK, NEW c \in Connections, NEW n \in Nat, Read(c, n)
  PROVE  /\ wire' \in [Connections -> Seq(1..MaxLength)]
         /\ got' \in [Connections -> Nat]
         /\ got'[c] <= got[c] + n
         /\ n > 0 => got'[c] > got[c]
         /\ \A d \in Connections \ {c} : got'[d] = got[d]
         /\ UNCHANGED <<side, message, sent, split>>
<1> DEFINE record == Head(wire[c])
           k == Least(record, n)
           left == IF k = record THEN Tail(wire[c])
                   ELSE <<record - k>> \o Tail(wire[c])
<1>1. wire[c] \in Seq(1..MaxLength) /\ wire[c] # <<>>
  BY DEF EntryTypeOK, Read
<1>2. record \in 1..MaxLength /\ Tail(wire[c]) \in Seq(1..MaxLength)
  BY <1>1, HeadTailProperties
<1>3. k \in Nat /\ k <= n /\ k <= record /\ (n > 0 => k > 0)
  BY <1>2, EntryAssumption DEF Least, EntryAssumption
<1>4. left \in Seq(1..MaxLength)
  <2>1. CASE k = record  BY <2>1, <1>2
  <2>2. CASE k # record
    <3>1. record - k \in 1..MaxLength
      BY <2>2, <1>2, <1>3, EntryAssumption DEF EntryAssumption
    <3>2. <<record - k>> \in Seq(1..MaxLength)  BY <3>1
    <3> QED  BY <2>2, <3>2, <1>2, ConcatProperties
  <2> QED  BY <2>1, <2>2
<1>5. wire' = [wire EXCEPT ![c] = left] /\ got' = [got EXCEPT ![c] = @ + k]
  BY DEF Read
<1> HIDE DEF record, k, left
<1>6. wire' \in [Connections -> Seq(1..MaxLength)]
  BY <1>4, <1>5 DEF EntryTypeOK
<1>7. /\ got[c] \in Nat /\ got[c] + k \in Nat /\ got[c] + k <= got[c] + n
      /\ n > 0 => got[c] + k > got[c]
  BY <1>3 DEF EntryTypeOK
<1>8. /\ got' \in [Connections -> Nat]
      /\ got'[c] <= got[c] + n
      /\ n > 0 => got'[c] > got[c]
      /\ \A d \in Connections \ {c} : got'[d] = got[d]
  BY <1>5, <1>7 DEF EntryTypeOK
<1> QED  BY <1>6, <1>8 DEF Read

LEMMA TypeInit == Init => EntryTypeOK
<1> SUFFICES ASSUME Init PROVE EntryTypeOK
  OBVIOUS
<1>1. /\ side \in [Connections -> Sides]
      /\ message \in Messages
      /\ inner \in [Connections -> InnerPC]
      /\ outer \in [Connections -> OuterPC]
      /\ \A c \in Connections : outer[c] = "none" <=> inner[c] = "none"
  BY EntryAssumption DEF Init, EntryAssumption, Sides, InnerPC, OuterPC
<1>2. /\ sent \in [Connections -> 0..MaxLength]
      /\ got \in [Connections -> Nat]
      /\ \A c \in Connections : got[c] <= Room(inner[c])
  BY EntryAssumption DEF Init, EntryAssumption, Room
<1>3. wire \in [Connections -> Seq(1..MaxLength)]
  <2>1. <<>> \in Seq(1..MaxLength)  OBVIOUS
  <2> QED  BY <2>1 DEF Init
<1>4. /\ split \in [Connections -> BOOLEAN]
      /\ blockedIPs \subseteq Connections
      /\ loop \in Connections \cup {AtAccept}
      /\ verdict \in [Connections -> BOOLEAN]
      /\ closed \in [Connections -> BOOLEAN]
      /\ answered \in [Connections -> BOOLEAN]
      /\ panicked \in BOOLEAN
  BY DEF Init
<1> QED  BY <1>1, <1>2, <1>3, <1>4 DEF EntryTypeOK

(***************************************************************************)
(* What the client does.                                                   *)
(***************************************************************************)
LEMMA ClientTypes ==
  ASSUME EntryTypeOK, NEW c \in Connections, Client(c)
  PROVE  EntryTypeOK'
<1>1. ASSUME NEW from, NEW to \in Sides, Becomes(c, from, to)
      PROVE  EntryTypeOK'
  BY <1>1 DEF Becomes, EntryTypeOK, serverVars
<1>2. ASSUME NEW n \in 1..MaxLength, Send(c, n)
      PROVE  EntryTypeOK'
  <2>1. sent[c] + n \in 0..MaxLength
    BY <1>2, EntryAssumption DEF Send, EntryTypeOK, EntryAssumption
  <2>2. Append(wire[c], n) \in Seq(1..MaxLength)
    BY <1>2, AppendProperties DEF EntryTypeOK
  <2> QED  BY <1>2, <2>1, <2>2 DEF Send, EntryTypeOK, serverVars
<1> QED
  BY <1>1, <1>2 DEF Client, Connect, Handshake, Alert, Misspeak, EndSide,
     Reset, Sides

(***************************************************************************)
(* What HandleTLSConnection does.                                          *)
(***************************************************************************)
LEMMA HandleTypes ==
  ASSUME EntryTypeOK, NEW c \in Connections, Handle(c)
  PROVE  EntryTypeOK'
<1> USE EntryAssumption DEF EntryAssumption
<1>1. CASE ReadPreamble(c)
  <2>1. Read(c, Preamble) /\ inner[c] = "preamble"
    BY <1>1 DEF ReadPreamble, At
  <2>2. got[c] = 0  BY <2>1 DEF EntryTypeOK, Room
  <2>3. /\ wire' \in [Connections -> Seq(1..MaxLength)]
        /\ got' \in [Connections -> Nat]
        /\ got'[c] <= Preamble
        /\ \A d \in Connections \ {c} : got'[d] = got[d]
        /\ UNCHANGED <<side, message, sent, split>>
    BY <2>1, <2>2, ReadTypes
  <2>4. /\ inner' \in [Connections -> InnerPC]
        /\ inner'[c] \in {"settings", "rest"}
        /\ \A d \in Connections \ {c} : inner'[d] = inner[d]
        /\ UNCHANGED <<verdict, blockedIPs, loop, outer, closed, answered,
                       panicked>>
    BY <1>1 DEF ReadPreamble, Goto, EntryTypeOK, InnerPC
  <2>5. got'[c] <= Room(inner'[c])
    <3>1. CASE inner'[c] = "rest"  BY <3>1, <2>3 DEF Room
    <3>2. CASE inner'[c] = "settings"
      <4>1. Room(inner'[c]) = MaxRequest  BY <3>2 DEF Room
      <4>2. got'[c] \in Nat  BY <2>3
      <4> QED  BY <4>1, <4>2, <2>3
    <3> QED  BY <3>1, <3>2, <2>4
  <2>6. \A d \in Connections : got'[d] <= Room(inner'[d])
    BY <2>3, <2>4, <2>5 DEF EntryTypeOK
  <2>7. \A d \in Connections : outer'[d] = "none" <=> inner'[d] = "none"
    BY <2>1, <2>4 DEF EntryTypeOK
  <2> QED  BY <2>3, <2>4, <2>6, <2>7 DEF EntryTypeOK
<1>2. CASE ReadRest(c)
  <2>1. Read(c, MaxRequest - Preamble) /\ inner[c] = "rest"
    BY <1>2 DEF ReadRest, At
  <2>2. got[c] <= Preamble  BY <2>1 DEF EntryTypeOK, Room
  <2>3. /\ wire' \in [Connections -> Seq(1..MaxLength)]
        /\ got' \in [Connections -> Nat]
        /\ got'[c] <= got[c] + (MaxRequest - Preamble)
        /\ \A d \in Connections \ {c} : got'[d] = got[d]
        /\ UNCHANGED <<side, message, sent, split>>
    BY <2>1, ReadTypes
  <2>4. got[c] \in Nat /\ got'[c] \in Nat  BY <2>3 DEF EntryTypeOK
  <2>5. got'[c] <= MaxRequest  BY <2>2, <2>3, <2>4
  <2>6. /\ inner' \in [Connections -> InnerPC]
        /\ inner'[c] = "route"
        /\ \A d \in Connections \ {c} : inner'[d] = inner[d]
        /\ UNCHANGED <<verdict, blockedIPs, loop, outer, closed, answered,
                       panicked>>
    BY <1>2 DEF ReadRest, Goto, EntryTypeOK, InnerPC
  <2>7. \A d \in Connections : got'[d] <= Room(inner'[d])
    BY <2>3, <2>5, <2>6 DEF EntryTypeOK, Room
  <2>8. \A d \in Connections : outer'[d] = "none" <=> inner'[d] = "none"
    BY <2>1, <2>6 DEF EntryTypeOK
  <2> QED  BY <2>3, <2>6, <2>7, <2>8 DEF EntryTypeOK
<1>3. CASE \/ PreambleFails(c) \/ RestFails(c) \/ Route(c) \/ WriteResponse(c)
           \/ CloseAnswered(c) \/ WriteSettings(c) \/ EndH2(c)
  <2>1. \/ \E result \in BOOLEAN : ReturnWith(c, result)
        \/ Goto(c, "write") \/ Goto(c, "close") \/ Goto(c, "h2")
    BY <1>3 DEF PreambleFails, RestFails, Route, WriteResponse,
       CloseAnswered, WriteSettings, EndH2, EntryTypeOK
  <2>2. /\ UNCHANGED <<clientVars, blockedIPs, loop, outer, got>>
        /\ inner[c] \in InnerPC \ {"none"}
    BY <1>3 DEF PreambleFails, RestFails, Route, WriteResponse,
       CloseAnswered, WriteSettings, EndH2, ReadFails, At, InnerPC
  <2>3. closed' \in [Connections -> BOOLEAN]
    BY <1>3 DEF PreambleFails, RestFails, Route, WriteResponse,
       CloseAnswered, WriteSettings, EndH2, EntryTypeOK
  <2>4. answered' \in [Connections -> BOOLEAN] /\ panicked' \in BOOLEAN
    BY <1>3 DEF PreambleFails, RestFails, Route, WriteResponse,
       CloseAnswered, WriteSettings, EndH2, EntryTypeOK
  <2>5. /\ inner' \in [Connections -> InnerPC]
        /\ verdict' \in [Connections -> BOOLEAN]
        /\ inner'[c] \in {"write", "close", "h2", "result"}
        /\ \A d \in Connections \ {c} : inner'[d] = inner[d]
    <3>1. CASE \E result \in BOOLEAN : ReturnWith(c, result)
      <4> PICK result \in BOOLEAN : ReturnWith(c, result)  BY <3>1
      <4>1. /\ inner' = [inner EXCEPT ![c] = "result"]
            /\ verdict' = [verdict EXCEPT ![c] = result]
        BY DEF ReturnWith
      <4> QED  BY <4>1 DEF EntryTypeOK, InnerPC
    <3>2. CASE Goto(c, "write") \/ Goto(c, "close") \/ Goto(c, "h2")
      BY <3>2 DEF Goto, EntryTypeOK, InnerPC
    <3> QED  BY <2>1, <3>1, <3>2
  <2>6. got[c] <= Room(inner'[c])
    <3>1. Room(inner'[c]) = MaxRequest  BY <2>5 DEF Room
    <3>2. got[c] \in Nat /\ got[c] <= Room(inner[c])  BY DEF EntryTypeOK
    <3>3. got[c] <= MaxRequest  BY <3>2 DEF Room
    <3> QED  BY <3>1, <3>3
  <2>7. \A d \in Connections :
          /\ outer[d] = "none" <=> inner'[d] = "none"
          /\ got[d] <= Room(inner'[d])
    BY <2>2, <2>5, <2>6 DEF EntryTypeOK
  <2> QED  BY <2>2, <2>3, <2>4, <2>5, <2>7 DEF EntryTypeOK, clientVars
<1> QED  BY <1>1, <1>2, <1>3 DEF Handle

(***************************************************************************)
(* What the accept loop and the supervisor do.                             *)
(***************************************************************************)
LEMMA CallerTypes ==
  ASSUME EntryTypeOK, NEW c \in Connections,
         Accept(c) \/ Refuse(c) \/ Supervise(c)
  PROVE  EntryTypeOK'
<1> USE EntryAssumption DEF EntryAssumption
<1>1. /\ UNCHANGED <<clientVars, blockedIPs, verdict, got, answered, panicked>>
      /\ loop' \in Connections \cup {AtAccept}
      /\ inner' \in [Connections -> InnerPC]
      /\ outer' \in [Connections -> OuterPC]
      /\ closed' \in [Connections -> BOOLEAN]
  BY DEF Accept, Refuse, Supervise, Deliver, Deadline, CloseFailed,
     EntryTypeOK, InnerPC, OuterPC
<1>2. CASE Accept(c)
  <2>1. outer[c] = "none" /\ inner[c] = "none"
    BY <1>2 DEF Accept, EntryTypeOK
  <2>2. got[c] <= 0  BY <2>1 DEF EntryTypeOK, Room
  <2>3. \/ UNCHANGED <<inner, outer>>
        \/ /\ inner' = [inner EXCEPT ![c] = "preamble"]
           /\ outer' = [outer EXCEPT ![c] = "waiting"]
    BY <1>2 DEF Accept
  <2>4. \A d \in Connections :
          /\ outer'[d] = "none" <=> inner'[d] = "none"
          /\ got[d] <= Room(inner'[d])
    BY <2>2, <2>3 DEF EntryTypeOK, Room
  <2> QED  BY <1>1, <2>4 DEF EntryTypeOK, clientVars
<1>3. CASE Refuse(c)
  <2>1. UNCHANGED <<inner, outer>>  BY <1>3 DEF Refuse
  <2> QED  BY <1>1, <2>1 DEF EntryTypeOK, clientVars
<1>4. CASE Supervise(c)
  <2>1. outer[c] # "none" /\ inner[c] # "none" /\ outer'[c] # "none"
    BY <1>4 DEF Supervise, Deliver, Deadline, CloseFailed, EntryTypeOK
  <2>2. \/ UNCHANGED inner
        \/ inner[c] = "result" /\ inner' = [inner EXCEPT ![c] = "done"]
    BY <1>4 DEF Supervise, Deliver, Deadline, CloseFailed, At
  <2>3. \A d \in Connections \ {c} : outer'[d] = outer[d]
    BY <1>4 DEF Supervise, Deliver, Deadline, CloseFailed, EntryTypeOK
  <2>4. \A d \in Connections :
          /\ outer'[d] = "none" <=> inner'[d] = "none"
          /\ got[d] <= Room(inner'[d])
    BY <2>1, <2>2, <2>3 DEF EntryTypeOK, Room
  <2> QED  BY <1>1, <2>4 DEF EntryTypeOK, clientVars
<1> QED  BY <1>2, <1>3, <1>4

(***************************************************************************)
(* The state of every connection, of its handler and of its supervisor is  *)
(* one the code has, and no Read overruns a buffer.                        *)
(***************************************************************************)
THEOREM EntryTypeCorrect == Spec => []EntryTypeOK
<1>1. EntryTypeOK /\ [Next]_vars => EntryTypeOK'
  <2> SUFFICES ASSUME EntryTypeOK, [Next]_vars PROVE EntryTypeOK'
    OBVIOUS
  <2>1. CASE Next
    BY <2>1, ClientTypes, HandleTypes, CallerTypes DEF Next, AcceptLoop
  <2>2. CASE UNCHANGED vars
    BY <2>2 DEF EntryTypeOK, vars, clientVars, serverVars
  <2> QED  BY <2>1, <2>2
<1> QED  BY TypeInit, <1>1, PTL DEF Spec

-----------------------------------------------------------------------------
(* Who closes a connection.                                                *)

\* The client's handshake is behind it.
Spoke(c) == side[c] \in Sides \ {"away", "open"}

\* The connection needs nobody to close it, or is left open as
\* NobodyLeftOpen has it.
Settled(c) ==
  \/ closed[c]
  \/ side[c] \in {"ended", "gone"}
  \/ Local /\ side[c] = "alerted"
  \/ side[c] \in {"alerted", "failed"} /\ got[c] \in 1..Preamble

(***************************************************************************)
(* TRUE is only returned of a settled connection, and after it nothing     *)
(* more is read.  That RestFails may return it needs that who is at the    *)
(* second Read has heard the client and has bytes of the first.            *)
(***************************************************************************)
ClosingInv ==
  \A c \in Connections :
    /\ wire[c] # <<>> => Spoke(c)
    /\ inner[c] \in {"rest", "route", "write", "close", "settings", "h2"}
         => Spoke(c)
    /\ inner[c] = "rest" => got[c] > 0
    /\ verdict[c] => Settled(c) /\ inner[c] \in {"result", "done"}
    /\ outer[c] = "done" => verdict[c] \/ closed[c]
    /\ outer[c] = "done" => inner[c] = "done" \/ closed[c]

LEMMA ClosingInit == Init => ClosingInv
BY DEF Init, ClosingInv

LEMMA ClosingClient ==
  ASSUME EntryTypeOK, ClosingInv, NEW c \in Connections, Client(c)
  PROVE  ClosingInv'
<1>1. ASSUME NEW from, NEW to, Becomes(c, from, to),
             to = "open" => from = {"away"},
             to \in {"ready", "alerted", "failed"} =>
               from \subseteq {"open", "ready"},
             to \in {"open", "ready", "alerted", "failed", "ended", "gone"},
             to = "ended" => from = {"open", "ready"}
      PROVE  ClosingInv'
  BY <1>1 DEF Becomes, ClosingInv, EntryTypeOK, Spoke, Settled, Sides,
     serverVars
<1>2. ASSUME NEW n \in 1..MaxLength, Send(c, n)
      PROVE  ClosingInv'
  <2>1. /\ side[c] = "ready"
        /\ \A d \in Connections \ {c} : wire'[d] = wire[d]
        /\ UNCHANGED <<side, serverVars>>
    BY <1>2 DEF Send, EntryTypeOK
  <2> QED  BY <2>1 DEF ClosingInv, Spoke, Settled, Sides, serverVars
<1> QED
  BY <1>1, <1>2 DEF Client, Connect, Handshake, Alert, Misspeak, EndSide, Reset

(***************************************************************************)
(* A Read leaves no records where there were none, and follows the         *)
(* handshake.                                                              *)
(***************************************************************************)
LEMMA ReadSpoke ==
  ASSUME EntryTypeOK, ClosingInv, NEW c \in Connections,
         NEW n \in Nat \ {0}, Read(c, n)
  PROVE  /\ Spoke(c)
         /\ \A d \in Connections \ {c} :
              wire'[d] = wire[d] /\ got'[d] = got[d]
         /\ got'[c] > 0
         /\ UNCHANGED side
<1>1. got'[c] > got[c] /\ got[c] \in Nat /\ got'[c] \in Nat
  BY ReadTypes DEF EntryTypeOK
<1>2. got'[c] > 0  BY <1>1
<1> QED  BY <1>2 DEF Read, ClosingInv, EntryTypeOK

LEMMA ClosingHandle ==
  ASSUME EntryTypeOK, ClosingInv, NEW c \in Connections, Handle(c)
  PROVE  ClosingInv'
<1>1. CASE ReadPreamble(c) \/ ReadRest(c)
  <2>1. Preamble \in Nat \ {0} /\ MaxRequest - Preamble \in Nat \ {0}
    BY EntryAssumption DEF EntryAssumption
  <2>2. /\ Spoke(c)
        /\ \A d \in Connections \ {c} :
             wire'[d] = wire[d] /\ got'[d] = got[d]
        /\ got'[c] > 0
        /\ UNCHANGED side
    BY <1>1, <2>1, ReadSpoke DEF ReadPreamble, ReadRest
  <2>3. /\ \E label : inner' = [inner EXCEPT ![c] = label]
        /\ inner[c] \in {"preamble", "rest"}
        /\ UNCHANGED <<outer, verdict, closed>>
    BY <1>1 DEF ReadPreamble, ReadRest, Goto, At
  <2>4. \A d \in Connections \ {c} : inner'[d] = inner[d]
    BY <2>3 DEF EntryTypeOK
  <2>5. ~verdict[c] /\ outer[c] = "done" => closed[c]
    BY <2>3 DEF ClosingInv
  <2>6. ~verdict[c]  BY <2>3 DEF ClosingInv
  <2>7. \A d \in Connections \ {c} : Settled(d) => Settled(d)'
    BY <2>2, <2>3 DEF Settled
  <2> QED
    BY <2>2, <2>3, <2>4, <2>5, <2>6, <2>7 DEF ClosingInv, Spoke
<1>2. ASSUME NEW result \in BOOLEAN, ReturnWith(c, result),
             inner[c] # "done", UNCHANGED <<clientVars, outer, got>>,
             closed' = closed \/ closed' = [closed EXCEPT ![c] = TRUE],
             result => Settled(c)'
      PROVE  ClosingInv'
  <2>1. /\ inner'[c] = "result" /\ verdict'[c] = result
        /\ \A d \in Connections \ {c} :
             inner'[d] = inner[d] /\ verdict'[d] = verdict[d]
    BY <1>2 DEF ReturnWith, EntryTypeOK
  <2>2. \A d \in Connections : closed[d] => closed'[d]
    BY <1>2 DEF EntryTypeOK
  <2>3. \A d \in Connections :
          (Settled(d) => Settled(d)') /\ (Spoke(d) <=> Spoke(d)')
    BY <1>2, <2>2 DEF Settled, Spoke, clientVars
  <2> QED  BY <1>2, <2>1, <2>2, <2>3 DEF ClosingInv, Spoke, clientVars
<1>3. CASE PreambleFails(c)
  <2>1. ReturnWith(c, side[c] = "alerted" /\ ~closed[c] /\ Local)
    BY <1>3 DEF PreambleFails
  <2>2. inner[c] # "done" /\ UNCHANGED <<clientVars, outer, closed, got>>
    BY <1>3 DEF PreambleFails, ReadFails, At
  <2>3. side[c] = "alerted" /\ ~closed[c] /\ Local => Settled(c)'
    BY <2>2 DEF Settled, clientVars
  <2> QED
    BY <1>2, <2>1, <2>2, <2>3, EntryAssumption DEF EntryAssumption, EntryTypeOK
<1>4. CASE RestFails(c)
  <2>1. /\ ReturnWith(c, TRUE) /\ inner[c] = "rest"
        /\ UNCHANGED <<clientVars, outer, closed, got>>
    BY <1>4 DEF RestFails, ReadFails, At
  <2>2. got[c] \in 1..Preamble
    <3>1. got[c] \in Nat /\ got[c] > 0 /\ got[c] <= Preamble
      BY <2>1 DEF ClosingInv, EntryTypeOK, Room
    <3> QED  BY <3>1, EntryAssumption DEF EntryAssumption
  <2>3. Settled(c)
    BY <1>4, <2>1, <2>2 DEF RestFails, ReadFails, Broken, Settled
  <2>4. Settled(c)'  BY <2>1, <2>3 DEF Settled, clientVars
  <2> QED  BY <1>2, <2>1, <2>4
<1>5. CASE WriteResponse(c) \/ WriteSettings(c)
  <2>1. CASE Broken(c)
    <3>1. /\ ReturnWith(c, TRUE) /\ inner[c] # "done"
          /\ UNCHANGED <<clientVars, outer, closed, got>>
      BY <1>5, <2>1 DEF WriteResponse, WriteSettings, At
    <3>2. Settled(c)'  BY <2>1, <3>1 DEF Broken, Settled, clientVars
    <3> QED  BY <1>2, <3>1, <3>2
  <2>2. CASE ~Broken(c)
    <3>1. /\ inner' = [inner EXCEPT ![c] = "close"]
             \/ inner' = [inner EXCEPT ![c] = "h2"]
          /\ inner[c] \in {"write", "settings"}
          /\ UNCHANGED <<clientVars, outer, closed, verdict, got>>
      BY <1>5, <2>2 DEF WriteResponse, WriteSettings, Goto, At
    <3> QED  BY <3>1 DEF ClosingInv, Spoke, Settled, EntryTypeOK, clientVars
  <2> QED  BY <2>1, <2>2
<1>6. CASE Route(c)
  <2>1. /\ inner' = [inner EXCEPT ![c] = "write"] /\ inner[c] = "route"
        /\ UNCHANGED <<clientVars, outer, closed, verdict, got>>
    BY <1>6 DEF Route, Goto, At
  <2> QED  BY <2>1 DEF ClosingInv, Spoke, Settled, EntryTypeOK, clientVars
<1>7. CASE CloseAnswered(c) \/ EndH2(c)
  <2>1. /\ ReturnWith(c, TRUE) /\ inner[c] # "done"
        /\ closed' = [closed EXCEPT ![c] = TRUE]
        /\ UNCHANGED <<clientVars, outer, got>>
    BY <1>7 DEF CloseAnswered, EndH2, At
  <2>2. Settled(c)'  BY <2>1 DEF Settled, EntryTypeOK
  <2> QED  BY <1>2, <2>1, <2>2
<1> QED  BY <1>1, <1>3, <1>4, <1>5, <1>6, <1>7 DEF Handle

LEMMA ClosingCaller ==
  ASSUME EntryTypeOK, ClosingInv, NEW c \in Connections,
         Accept(c) \/ Refuse(c) \/ Supervise(c)
  PROVE  ClosingInv'
<1>1. CASE Accept(c)
  BY <1>1 DEF Accept, ClosingInv, Spoke, Settled, EntryTypeOK, clientVars
<1>2. CASE Refuse(c)
  BY <1>2 DEF Refuse, ClosingInv, Spoke, Settled, EntryTypeOK, clientVars
<1>3. CASE Deliver(c)
  BY <1>3 DEF Deliver, At, ClosingInv, Spoke, Settled, EntryTypeOK, clientVars
<1>4. CASE Deadline(c)
  BY <1>4 DEF Deadline, ClosingInv, Spoke, Settled, EntryTypeOK, clientVars
<1>5. CASE CloseFailed(c)
  BY <1>5 DEF CloseFailed, ClosingInv, Spoke, Settled, EntryTypeOK, clientVars
<1> QED  BY <1>1, <1>2, <1>3, <1>4, <1>5 DEF Supervise

LEMMA ClosingInvariant == Spec => []ClosingInv
<1>1. EntryTypeOK /\ ClosingInv /\ [Next]_vars => ClosingInv'
  <2> SUFFICES ASSUME EntryTypeOK, ClosingInv, [Next]_vars PROVE ClosingInv'
    OBVIOUS
  <2>1. CASE Next
    BY <2>1, ClosingClient, ClosingHandle, ClosingCaller DEF Next, AcceptLoop
  <2>2. CASE UNCHANGED vars
    BY <2>2 DEF ClosingInv, Spoke, Settled, vars, clientVars, serverVars
  <2> QED  BY <2>1, <2>2
<1> QED  BY ClosingInit, EntryTypeCorrect, <1>1, PTL DEF Spec

(***************************************************************************)
(* No open connection is left to nobody: when timeoutHandleTLSConnection   *)
(* has returned and its caller is done, the connection is closed or its    *)
(* client has ended it or refused a local certificate, or has broken TLS   *)
(* off when the first bytes of a request had been read and no more.        *)
(***************************************************************************)
THEOREM NobodyIsLeftOpen == Spec => []NobodyLeftOpen
<1>1. ClosingInv => NobodyLeftOpen
  BY DEF ClosingInv, NobodyLeftOpen, Settled
<1> QED  BY <1>1, ClosingInvariant, PTL

(***************************************************************************)
(* A handler left in its send on result has no open connection.            *)
(***************************************************************************)
THEOREM StrandedAreClosed == Spec => []StrandedIsClosed
<1>1. ClosingInv => StrandedIsClosed
  BY DEF ClosingInv, StrandedIsClosed
<1> QED  BY <1>1, ClosingInvariant, PTL

-----------------------------------------------------------------------------
(* What is read of a message that came in one record.                      *)

Length(c) == message[c].length

(***************************************************************************)
(* Before the first Read the record is on the wire or not sent; at the     *)
(* second, what the first left of it; after it, nothing that fits.         *)
(***************************************************************************)
WholeInv ==
  \A c \in Connections :
    ~split[c] =>
      /\ inner[c] \in {"none", "preamble"} =>
           /\ got[c] = 0
           /\ \/ sent[c] = 0 /\ wire[c] = <<>>
              \/ sent[c] = Length(c) /\ wire[c] = <<Length(c)>>
      /\ inner[c] \in {"rest", "route", "write", "close"} =>
           sent[c] = Length(c) /\ message[c].protocol # "h2"
      /\ inner[c] = "rest" =>
           \/ wire[c] = <<>>
           \/ got[c] = Preamble /\ wire[c] = <<Length(c) - Preamble>>
      /\ inner[c] \in {"route", "write", "close"} /\ Length(c) <= MaxRequest =>
           got[c] = Length(c)
      /\ answered[c] =>
           /\ inner[c] \in {"close", "result", "done"}
           /\ Length(c) <= MaxRequest => got[c] = Length(c)

LEMMA LengthType ==
  ASSUME EntryTypeOK, NEW c \in Connections
  PROVE  /\ Length(c) \in Nat \ {0}
         /\ message[c].protocol = "h2" => Length(c) >= Preamble
BY EntryAssumption DEF EntryAssumption, EntryTypeOK, Length

LEMMA WholeInit == Init => WholeInv
BY DEF Init, WholeInv

LEMMA WholeClient ==
  ASSUME EntryTypeOK, WholeInv, NEW c \in Connections, Client(c)
  PROVE  WholeInv'
<1>1. ASSUME NEW from, NEW to, Becomes(c, from, to)
      PROVE  WholeInv'
  BY <1>1 DEF Becomes, WholeInv, Length, serverVars
<1>2. ASSUME NEW n \in 1..MaxLength, Send(c, n)
      PROVE  WholeInv'
  <2>1. /\ sent[c] + n <= Length(c)
        /\ sent' = [sent EXCEPT ![c] = @ + n]
        /\ split' = [split EXCEPT ![c] = @ \/ n # Length(c)]
        /\ wire' = [wire EXCEPT ![c] = Append(@, n)]
        /\ UNCHANGED <<message, serverVars>>
    BY <1>2 DEF Send, Length
  <2>2. Length(c) \in Nat /\ sent[c] \in Nat /\ n \in Nat /\ n > 0
    BY LengthType, EntryAssumption DEF EntryTypeOK, EntryAssumption
  <2>3. sent[c] # Length(c)  BY <2>1, <2>2
  <2>4. \A d \in Connections \ {c} :
          /\ sent'[d] = sent[d] /\ split'[d] = split[d] /\ wire'[d] = wire[d]
    BY <2>1 DEF EntryTypeOK
  <2>5. ASSUME ~split'[c]
        PROVE  ~split[c] /\ n = Length(c) /\ sent'[c] = sent[c] + n
    BY <2>1, <2>5 DEF EntryTypeOK
  <2>6. ASSUME ~split'[c], inner[c] \in {"none", "preamble"}
        PROVE  sent'[c] = Length(c) /\ wire'[c] = <<Length(c)>>
    <3>1. ~split[c] /\ n = Length(c) /\ sent'[c] = sent[c] + n  BY <2>5, <2>6
    <3>2. sent[c] = 0 /\ wire[c] = <<>>  BY <3>1, <2>3, <2>6 DEF WholeInv
    <3>3. wire'[c] = Append(<<>>, n)  BY <2>1, <3>2 DEF EntryTypeOK
    <3> QED  BY <3>1, <3>2, <3>3, <2>2
  <2>7. \A d \in Connections : Length(d)' = Length(d)
    BY <2>1 DEF Length
  <2>8. ~split'[c] => inner[c] \notin {"rest", "route", "write", "close"}
    BY <2>3, <2>5 DEF WholeInv
  <2> QED  BY <2>1, <2>4, <2>5, <2>6, <2>7, <2>8 DEF WholeInv, serverVars
<1> QED
  BY <1>1, <1>2 DEF Client, Connect, Handshake, Alert, Misspeak, EndSide, Reset

(***************************************************************************)
(* A Read of up to n bytes from a wire that holds one record.              *)
(***************************************************************************)
LEMMA ReadOne ==
  ASSUME EntryTypeOK, NEW c \in Connections, NEW n \in Nat, NEW length \in Nat,
         wire[c] = <<length>>, Read(c, n)
  PROVE  /\ length <= n => wire'[c] = <<>> /\ got'[c] = got[c] + length
         /\ length > n => wire'[c] = <<length - n>> /\ got'[c] = got[c] + n
<1>1. Head(wire[c]) = length /\ Tail(wire[c]) = <<>>
  OBVIOUS
<1>2. CASE length <= n
  <2>1. Least(length, n) = length  BY <1>2 DEF Least
  <2>2. /\ wire' = [wire EXCEPT ![c] = <<>>]
        /\ got' = [got EXCEPT ![c] = @ + length]
    BY <1>1, <2>1 DEF Read
  <2> QED  BY <1>2, <2>2 DEF EntryTypeOK
<1>3. CASE length > n
  <2>1. Least(length, n) = n /\ n # length  BY <1>3 DEF Least
  <2>2. <<length - n>> \o <<>> = <<length - n>>  OBVIOUS
  <2>3. wire' = [wire EXCEPT ![c] = <<length - n>>]
        /\ got' = [got EXCEPT ![c] = @ + n]
    BY <1>1, <2>1, <2>2 DEF Read
  <2> QED  BY <1>3, <2>3 DEF EntryTypeOK
<1> QED  BY <1>2, <1>3

LEMMA ReadOthers ==
  ASSUME EntryTypeOK, NEW c \in Connections, NEW n, Read(c, n)
  PROVE  /\ wire[c] # <<>>
         /\ \A d \in Connections \ {c} : wire'[d] = wire[d] /\ got'[d] = got[d]
         /\ UNCHANGED <<message, sent, split>>
BY DEF Read, EntryTypeOK

LEMMA WholeHandle ==
  ASSUME EntryTypeOK, WholeInv, NEW c \in Connections, Handle(c)
  PROVE  WholeInv'
<1> USE EntryAssumption DEF EntryAssumption
<1>a. Length(c) \in Nat /\ (message[c].protocol = "h2" => Length(c) >= Preamble)
  BY LengthType
<1>1. CASE ReadPreamble(c)
  <2>1. Read(c, Preamble) /\ inner[c] = "preamble" /\ UNCHANGED answered
    BY <1>1 DEF ReadPreamble, At
  <2>2. /\ wire[c] # <<>>
        /\ \A d \in Connections \ {c} : wire'[d] = wire[d] /\ got'[d] = got[d]
        /\ UNCHANGED <<message, sent, split>>
    BY <2>1, ReadOthers
  <2>3. /\ \A d \in Connections \ {c} : inner'[d] = inner[d]
        /\ \/ inner'[c] = "settings"
           \/ /\ inner'[c] = "rest"
              /\ ~(message[c].protocol = "h2" /\ got'[c] = Preamble)
    BY <1>1 DEF ReadPreamble, Goto, EntryTypeOK
  <2>4. ASSUME ~split[c], inner'[c] = "rest"
        PROVE  /\ sent[c] = Length(c) /\ message[c].protocol # "h2"
               /\ \/ wire'[c] = <<>>
                  \/ got'[c] = Preamble /\ wire'[c] = <<Length(c) - Preamble>>
    <3>1. sent[c] = Length(c) /\ wire[c] = <<Length(c)>> /\ got[c] = 0
      BY <2>1, <2>2, <2>4 DEF WholeInv
    <3>2. /\ Length(c) <= Preamble =>
               wire'[c] = <<>> /\ got'[c] = 0 + Length(c)
          /\ Length(c) > Preamble =>
               wire'[c] = <<Length(c) - Preamble>> /\ got'[c] = 0 + Preamble
      BY <3>1, <2>1, <1>a, ReadOne
    <3>3. message[c].protocol = "h2" => got'[c] = Preamble  BY <3>2, <1>a
    <3>4. message[c].protocol # "h2"  BY <3>3, <2>3, <2>4
    <3> QED  BY <3>1, <3>2, <3>4, <1>a
  <2>5. \A d \in Connections : Length(d)' = Length(d)  BY <2>2 DEF Length
  <2>6. ~split[c] => ~answered[c]  BY <2>1 DEF WholeInv
  <2> QED  BY <2>1, <2>2, <2>3, <2>4, <2>5, <2>6 DEF WholeInv
<1>2. CASE ReadRest(c)
  <2>1. /\ Read(c, MaxRequest - Preamble)
        /\ inner[c] = "rest" /\ UNCHANGED answered
    BY <1>2 DEF ReadRest, At
  <2>2. /\ wire[c] # <<>>
        /\ \A d \in Connections \ {c} : wire'[d] = wire[d] /\ got'[d] = got[d]
        /\ UNCHANGED <<message, sent, split>>
    BY <2>1, ReadOthers
  <2>3. inner'[c] = "route" /\ \A d \in Connections \ {c} : inner'[d] = inner[d]
    BY <1>2 DEF ReadRest, Goto, EntryTypeOK
  <2>4. ASSUME ~split[c], Length(c) <= MaxRequest
        PROVE  got'[c] = Length(c)
    <3>1. got[c] = Preamble /\ wire[c] = <<Length(c) - Preamble>>
      BY <2>1, <2>2, <2>4 DEF WholeInv
    <3>2. Length(c) - Preamble \in 1..MaxLength
      <4>1. wire[c] \in Seq(1..MaxLength) /\ wire[c] # <<>>
        BY <2>2 DEF EntryTypeOK
      <4>2. Head(wire[c]) \in 1..MaxLength  BY <4>1, HeadTailProperties
      <4>3. Head(wire[c]) = Length(c) - Preamble  BY <3>1
      <4> QED  BY <4>2, <4>3
    <3>3. Length(c) - Preamble <= MaxRequest - Preamble  BY <2>4, <1>a
    <3>4. got'[c] = Preamble + (Length(c) - Preamble)
      BY <3>1, <3>2, <3>3, <2>1, ReadOne
    <3> QED  BY <3>4, <1>a
  <2>5. \A d \in Connections : Length(d)' = Length(d)  BY <2>2 DEF Length
  <2>6. ~split[c] => ~answered[c]  BY <2>1 DEF WholeInv
  <2> QED  BY <2>1, <2>2, <2>3, <2>4, <2>5, <2>6 DEF WholeInv
<1>3. CASE \/ PreambleFails(c) \/ RestFails(c) \/ Route(c)
           \/ CloseAnswered(c) \/ WriteSettings(c) \/ EndH2(c)
  <2>1. UNCHANGED <<clientVars, got, answered>>
    BY <1>3 DEF PreambleFails, RestFails, Route, CloseAnswered, WriteSettings,
       EndH2, ReadFails
  <2>2. /\ \A d \in Connections \ {c} : inner'[d] = inner[d]
        /\ \/ inner'[c] = "result"
           \/ inner[c] = "settings" /\ inner'[c] = "h2"
           \/ inner[c] = "route" /\ inner'[c] = "write"
    BY <1>3 DEF PreambleFails, RestFails, Route, CloseAnswered, WriteSettings,
       EndH2, ReturnWith, Goto, At, EntryTypeOK
  <2>3. \A d \in Connections : Length(d)' = Length(d)
    BY <2>1 DEF Length, clientVars
  <2> QED  BY <2>1, <2>2, <2>3 DEF WholeInv, clientVars
<1>4. CASE WriteResponse(c)
  <2>1. /\ inner[c] = "write" /\ UNCHANGED <<clientVars, got>>
        /\ inner'[c] \in {"result", "close"}
        /\ \A d \in Connections \ {c} :
             inner'[d] = inner[d] /\ answered'[d] = answered[d]
    BY <1>4 DEF WriteResponse, ReturnWith, Goto, At, EntryTypeOK
  <2>2. \A d \in Connections : Length(d)' = Length(d)
    BY <2>1 DEF Length, clientVars
  <2> QED  BY <2>1, <2>2 DEF WholeInv, clientVars
<1> QED  BY <1>1, <1>2, <1>3, <1>4 DEF Handle

LEMMA WholeCaller ==
  ASSUME EntryTypeOK, WholeInv, NEW c \in Connections,
         Accept(c) \/ Refuse(c) \/ Supervise(c)
  PROVE  WholeInv'
<1>1. UNCHANGED <<clientVars, got, answered>>
  BY DEF Accept, Refuse, Supervise, Deliver, Deadline, CloseFailed
<1>2. /\ \A d \in Connections \ {c} : inner'[d] = inner[d]
      /\ \/ inner'[c] = inner[c]
         \/ inner[c] = "none" /\ inner'[c] = "preamble"
         \/ inner[c] = "result" /\ inner'[c] = "done"
  BY DEF Accept, Refuse, Supervise, Deliver, Deadline, CloseFailed, At,
     EntryTypeOK
<1>3. \A d \in Connections : Length(d)' = Length(d)
  BY <1>1 DEF Length, clientVars
<1> QED  BY <1>1, <1>2, <1>3 DEF WholeInv, clientVars

(***************************************************************************)
(* The two Reads of HandleTLSConnection are enough for a message that      *)
(* comes in one record and fits the buffer, whatever the lengths.          *)
(***************************************************************************)
THEOREM OneRecordReadWhole == Spec => []OneRecordIsRead
<1>1. EntryTypeOK /\ WholeInv /\ [Next]_vars => WholeInv'
  <2> SUFFICES ASSUME EntryTypeOK, WholeInv, [Next]_vars PROVE WholeInv'
    OBVIOUS
  <2>1. CASE Next
    BY <2>1, WholeClient, WholeHandle, WholeCaller DEF Next, AcceptLoop
  <2>2. CASE UNCHANGED vars
    BY <2>2 DEF WholeInv, Length, vars, clientVars, serverVars
  <2> QED  BY <2>1, <2>2
<1>2. WholeInv => OneRecordIsRead
  BY DEF WholeInv, OneRecordIsRead, Length
<1> QED  BY WholeInit, EntryTypeCorrect, <1>1, <1>2, PTL DEF Spec
=============================================================================
