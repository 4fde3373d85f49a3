------------------------------ MODULE H2Service ------------------------------
(***************************************************************************)
(* What one HTTP/2 connection of the server promises its client, with no   *)
(* stream map, locks, goroutines or frames: every request that is accepted *)
(* is answered, unless the connection is gone first; at most one GOAWAY is *)
(* sent, and only by a server that has begun to drain.                     *)
(* H2Connection is the code that implements it.                            *)
(***************************************************************************)
EXTENDS Naturals

CONSTANT Requests     \* the requests a client may make on the connection

VARIABLES
  phase,       \* "serving", "draining", "gone" or "crashed"
  request,     \* each: "none", "accepted", "answered" or "dropped"
  goodbyes     \* GOAWAY frames sent

svars == <<phase, request, goodbyes>>

Init ==
  /\ phase = "serving"
  /\ request = [n \in Requests |-> "none"]
  /\ goodbyes = 0

Alive == phase \in {"serving", "draining"}

Becomes(n, from, to) ==
  /\ request[n] = from
  /\ request' = [request EXCEPT ![n] = to]
  /\ UNCHANGED <<phase, goodbyes>>

\* A draining server still accepts requests, and so does one whose peer has
\* gone, of the bytes that had arrived.
Accept(n) == phase # "crashed" /\ Becomes(n, "none", "accepted")

Answer(n) == Alive /\ Becomes(n, "accepted", "answered")

Drop(n) == phase = "gone" /\ Becomes(n, "accepted", "dropped")

StartDraining ==
  /\ phase = "serving"
  /\ phase' = "draining"
  /\ UNCHANGED <<request, goodbyes>>

SayGoodbye ==
  /\ phase = "draining"
  /\ goodbyes = 0
  /\ goodbyes' = goodbyes + 1
  /\ UNCHANGED <<phase, request>>

\* Closed by the server, or reset by the client, at any time.
Lose ==
  /\ Alive
  /\ phase' = "gone"
  /\ UNCHANGED <<request, goodbyes>>

Crash ==
  /\ phase # "crashed"
  /\ phase' = "crashed"
  /\ UNCHANGED <<request, goodbyes>>

Next ==
  \/ \E n \in Requests : Accept(n) \/ Answer(n) \/ Drop(n)
  \/ StartDraining \/ SayGoodbye \/ Lose \/ Crash

Spec == Init /\ [][Next]_svars

\* Every accepted request is settled, and the connection does not last forever.
FairSpec ==
  /\ Spec
  /\ \A n \in Requests : WF_svars(Answer(n) \/ Drop(n))
  /\ WF_svars(Lose)
=============================================================================
