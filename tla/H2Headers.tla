------------------------------- MODULE H2Headers -------------------------------
(***************************************************************************)
(* The header blocks of one HTTP/2 connection.  processFrames decodes each *)
(* HEADERS frame twice: convertFrame, for the fingerprint and for every    *)
(* route that echoes headers, with a decoder it makes for that frame, and  *)
(* the request itself with the connection's hpackDecoder.  A block refers  *)
(* by index to fields that earlier blocks put into the table, and may go   *)
(* on in a CONTINUATION frame, which processFrames reads and ignores.      *)
(*                                                                         *)
(* Frames come to the one reader in the order they were sent, so a block   *)
(* is encoded and read in one step.  A table is the sequence of its        *)
(* fields, the newest first; its limit is a number of fields, not bytes.   *)
(***************************************************************************)
EXTENDS Integers, Sequences, FiniteSets

CONSTANTS
  Fields,       \* header fields, name and value
  TableSize,    \* limit of the dynamic table, 4096 bytes in the code
  Blocks,       \* the header blocks a client may send
  MaxRequests   \* bound: blocks sent on the connection

ASSUME HeadersAssumption ==
  /\ TableSize \in Nat /\ MaxRequests \in Nat
  /\ \A block \in Blocks : block \in Seq([kind : {"indexed", "literal", "plain"},
                                          field : Fields, index : Nat])

VARIABLES
  encoder,      \* the client's table
  hpackDecoder, \* c.hpackDecoder's table
  rest,         \* what a CONTINUATION frame still has of the last block
  requests,     \* per HEADERS frame what it meant and what the server made of it
  split         \* history: some block came in two frames

vars == <<encoder, hpackDecoder, rest, requests, split>>

-----------------------------------------------------------------------------
(* hpack                                                                   *)

\* The newest field first, the oldest evicted.
Insert(table, field) ==
  LET longer == <<field>> \o table IN
    IF Len(longer) > TableSize THEN SubSeq(longer, 1, TableSize) ELSE longer

Failed(d) == [d EXCEPT !.ok = FALSE]
Emit(d, field) == [d EXCEPT !.fields = Append(@, field)]

\* One representation: an index into the table, a literal that enters the
\* table, or one that does not (as the static table's do).  A decoder that
\* has failed reads no further, and keeps what it had put into its table.
Represent(d, rep) ==
  IF ~d.ok THEN d
  ELSE CASE rep.kind = "indexed" ->
              IF rep.index \in 1..Len(d.table)
              THEN Emit(d, d.table[rep.index]) ELSE Failed(d)
         [] rep.kind = "literal" ->
              [Emit(d, rep.field) EXCEPT !.table = Insert(@, rep.field)]
         [] rep.kind = "plain" -> Emit(d, rep.field)

\* DecodeFull, of a decoder with the given table.
DecodeFull(block, table) ==
  LET decoder[i \in 0..Len(block)] ==
        IF i = 0 THEN [ok |-> TRUE, fields |-> <<>>, table |-> table]
        ELSE Represent(decoder[i - 1], block[i])
  IN decoder[Len(block)]

\* What DecodeFull returns: no field at all when there is an error.
Returned(d) == IF d.ok THEN d.fields ELSE <<>>

-----------------------------------------------------------------------------
Init ==
  /\ encoder = <<>> /\ hpackDecoder = <<>>
  /\ rest = <<>>
  /\ requests = <<>>
  /\ split = FALSE

\* Mutant: what was decoded before an error is kept.
convertFrame_Partial(fragment) == DecodeFull(fragment, <<>>).fields

\* The Headers of the ParsedFrame, by a decoder of its own.
convertFrame(fragment) == Returned(DecodeFull(fragment, <<>>))

\* Mutant: a fresh decoder for the request too.
Persistent_Fresh(fragment) == DecodeFull(fragment, <<>>)

\* The decoder whose table lasts as long as the connection.
Persistent(fragment) == DecodeFull(fragment, hpackDecoder)

\* A HEADERS frame with the first n representations of a block.  A block that
\* does not decode is answered by RST_STREAM and starts no request.
ReadHeaders(block, n) ==
  LET meant == DecodeFull(block, encoder)
      fragment == SubSeq(block, 1, n)
      decoded == Persistent(fragment)
  IN /\ rest = <<>> /\ Len(requests) < MaxRequests
     /\ meant.ok                          \* a client's own block is correct
     /\ encoder' = meant.table
     /\ hpackDecoder' = decoded.table
     /\ requests' = Append(requests,
          [block |-> block, cut |-> n < Len(block), meant |-> meant.fields,
           started |-> decoded.ok, headers |-> Returned(decoded),
           frame |-> convertFrame(fragment)])
     /\ rest' = SubSeq(block, n + 1, Len(block))
     /\ split' = (split \/ n < Len(block))

\* CONTINUATION has no case in the switch.
ReadContinuation ==
  /\ rest # <<>>
  /\ rest' = <<>>
  /\ UNCHANGED <<encoder, hpackDecoder, requests, split>>

Next ==
  \/ \E block \in Blocks : \E n \in 1..Len(block) : ReadHeaders(block, n)
  \/ ReadContinuation

Spec == Init /\ [][Next]_vars

-----------------------------------------------------------------------------
\* How many of the first n representations enter the table.
Literals(block, n) == Cardinality({i \in 1..n : block[i].kind = "literal"})

\* Every index of the block is of a field that the block itself has put into
\* the table before.
SelfContained(block) ==
  \A i \in DOMAIN block :
    block[i].kind = "indexed" => block[i].index <= Literals(block, i - 1)

(***************************************************************************)
(* As long as no block has come in two frames, the connection's decoder    *)
(* and the client's encoder have one table, and every request has started, *)
(* with exactly the headers its client meant, however many came before it. *)
(***************************************************************************)
HeadersInSync ==
  ~split =>
    /\ hpackDecoder = encoder
    /\ \A i \in DOMAIN requests :
         requests[i].started /\ requests[i].headers = requests[i].meant

(***************************************************************************)
(* The headers of a frame, which the fingerprint, /headers and /cookies    *)
(* are made from, are never those of another request nor a part of its     *)
(* own, although a block is decoded with an empty table when an earlier    *)
(* block may have filled the client's; and all of them when the block      *)
(* refers to no earlier one, as a first request's cannot.                  *)
(***************************************************************************)
FrameHeadersOwnOrNone ==
  \A i \in DOMAIN requests :
    ~requests[i].cut =>
      /\ requests[i].frame # <<>> => requests[i].frame = requests[i].meant
      /\ SelfContained(requests[i].block) => requests[i].frame = requests[i].meant

-----------------------------------------------------------------------------
(* What the documentation says, and the code does not do.                  *)

(***************************************************************************)
(* "/headers - returns request headers", "/cookies - returns cookies from  *)
(* request": of any request that came in one frame, the second of a        *)
(* connection like the first.                                              *)
(***************************************************************************)
RequestHeadersShown ==
  ~split => \A i \in DOMAIN requests : requests[i].frame = requests[i].meant
=============================================================================
