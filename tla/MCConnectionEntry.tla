------------------------- MODULE MCConnectionEntry -------------------------
(* One client of each protocol, either of which may be blocked. *)
EXTENDS ConnectionEntry

CONSTANTS c1, c2

TwoClients == {c1, c2}

OneOfEach ==
  {[c \in TwoClients |->
      IF c = c1 THEN [protocol |-> "h2", length |-> 2]
                ELSE [protocol |-> "http1", length |-> 3]]}
=============================================================================
