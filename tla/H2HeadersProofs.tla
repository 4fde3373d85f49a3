---------------------------- MODULE H2HeadersProofs ----------------------------
(***************************************************************************)
(* Theorems about H2Headers for any fields, any blocks and any limit of    *)
(* the table.  That the two tables of a connection stay one needs nothing  *)
(* of what a block means: both sides decode the same block with the same   *)
(* table.  What a fresh decoder makes of a block does, and is proved by    *)
(* induction over the block, next to the run of the client's encoder.      *)
(***************************************************************************)
EXTENDS H2Headers, InductionLemmas, SequenceTheorems, TLAPS

\* The requests are a finite sequence: appending one leaves the others.
IsList == \E S : requests \in Seq(S)

IInvHeaders == IsList /\ HeadersInSync

\* A fragment that is not a cut is the block.
LEMMA UncutIsWhole ==
  ASSUME NEW block \in Blocks, NEW n \in 1..Len(block), ~(n < Len(block))
  PROVE  SubSeq(block, 1, n) = block
<1> DEFINE S == [kind : {"indexed", "literal", "plain"}, field : Fields, index : Nat]
<1>1. block \in Seq(S)
  BY HeadersAssumption DEF HeadersAssumption
<1>2. n = Len(block)
  BY <1>1
<1> QED BY <1>1, <1>2

\* With one table, a block that comes whole is decoded alike by both.
LEMMA WholeBlockInSync ==
  ASSUME IInvHeaders, NEW block \in Blocks, NEW n \in 1..Len(block),
         ReadHeaders(block, n)
  PROVE  IInvHeaders'
<1> DEFINE meant == DecodeFull(block, encoder)
           fragment == SubSeq(block, 1, n)
           decoded == Persistent(fragment)
           new == [block |-> block, cut |-> n < Len(block), meant |-> meant.fields,
                   started |-> decoded.ok, headers |-> Returned(decoded),
                   frame |-> convertFrame(fragment)]
<1>1. /\ requests' = Append(requests, new)
      /\ encoder' = meant.table /\ hpackDecoder' = decoded.table
      /\ meant.ok
      /\ split' = (split \/ n < Len(block))
  BY DEF ReadHeaders
<1>2. PICK S : requests \in Seq(S)
  BY DEF IInvHeaders, IsList
<1> DEFINE T == S \cup {new}
<1> HIDE DEF new
<1>3. requests \in Seq(T) /\ new \in T
  BY <1>2
<1> HIDE DEF T
<1>4. requests' \in Seq(T)
  BY <1>1, <1>3
<1>5. ASSUME ~split'
      PROVE  /\ hpackDecoder' = encoder'
             /\ \A i \in DOMAIN requests' :
                  requests'[i].started /\ requests'[i].headers = requests'[i].meant
  <2>1. ~split /\ ~(n < Len(block))
    BY <1>1, <1>5
  <2>2. hpackDecoder = encoder
    BY <2>1 DEF IInvHeaders, HeadersInSync
  <2>3. decoded = meant
    BY <2>1, <2>2, UncutIsWhole DEF Persistent
  <2>4. new.started /\ new.headers = new.meant
    BY <2>3, <1>1 DEF new, Returned
  <2>5. ASSUME NEW i \in DOMAIN requests'
        PROVE  requests'[i].started /\ requests'[i].headers = requests'[i].meant
    <3>1. \/ i \in DOMAIN requests /\ requests'[i] = requests[i]
          \/ requests'[i] = new
      BY <1>1, <1>3, <2>5
    <3> QED BY <3>1, <2>1, <2>4 DEF IInvHeaders, HeadersInSync
  <2> QED BY <1>1, <2>3, <2>5
<1> QED BY <1>4, <1>5 DEF IInvHeaders, IsList, HeadersInSync

(***************************************************************************)
(* Until a block comes in two frames, every request on a connection starts *)
(* with the headers its client meant: processFrames decodes each HEADERS   *)
(* frame with the table of the connection, in the order of the frames.     *)
(***************************************************************************)
THEOREM HeadersStayInSync == Spec => []HeadersInSync
<1>1. Init => IInvHeaders
  <2>1. <<>> \in Seq({})
    OBVIOUS
  <2> QED BY <2>1 DEF Init, IInvHeaders, IsList, HeadersInSync
<1>2. IInvHeaders /\ [Next]_vars => IInvHeaders'
  <2> SUFFICES ASSUME IInvHeaders, [Next]_vars PROVE IInvHeaders'
    OBVIOUS
  <2>1. ASSUME NEW block \in Blocks, NEW n \in 1..Len(block), ReadHeaders(block, n)
        PROVE  IInvHeaders'
    BY <2>1, WholeBlockInSync
  <2>2. CASE ReadContinuation
    BY <2>2 DEF ReadContinuation, IInvHeaders, IsList, HeadersInSync
  <2>3. CASE UNCHANGED vars
    BY <2>3 DEF vars, IInvHeaders, IsList, HeadersInSync
  <2> QED BY <2>1, <2>2, <2>3 DEF Next
<1>3. IInvHeaders => HeadersInSync
  BY DEF IInvHeaders
<1> QED BY <1>1, <1>2, <1>3, PTL DEF Spec

-----------------------------------------------------------------------------
(* Tables and decoders                                                     *)

Representations == [kind : {"indexed", "literal", "plain"}, field : Fields, index : Nat]

Tables == {table \in Seq(Fields) : Len(table) <= TableSize}

Decoders == [ok : BOOLEAN, fields : Seq(Fields), table : Tables]

\* The decoder that has read nothing.
Start(table) == [ok |-> TRUE, fields |-> <<>>, table |-> table]

\* What a field more makes of a table: one longer up to the limit, the field
\* first and the others moved by one.
LEMMA InsertIsATable ==
  ASSUME NEW table \in Tables, NEW field \in Fields
  PROVE  /\ Insert(table, field) \in Tables
         /\ Len(Insert(table, field)) =
              IF Len(table) < TableSize THEN Len(table) + 1 ELSE TableSize
         /\ \A j \in 1..Len(Insert(table, field)) :
              Insert(table, field)[j] = IF j = 1 THEN field ELSE table[j - 1]
<1>. DEFINE longer == <<field>> \o table
<1>1. table \in Seq(Fields) /\ Len(table) <= TableSize /\ Len(table) \in Nat
  BY DEF Tables
<1>2. TableSize \in Nat
  BY HeadersAssumption DEF HeadersAssumption
<1>3. <<field>> \in Seq(Fields) /\ Len(<<field>>) = 1 /\ <<field>>[1] = field
  OBVIOUS
<1>4. /\ longer \in Seq(Fields) /\ Len(longer) = Len(table) + 1
      /\ \A j \in 1..(Len(table) + 1) :
           longer[j] = IF j = 1 THEN field ELSE table[j - 1]
  <2>1. /\ longer \in Seq(Fields) /\ Len(longer) = 1 + Len(table)
        /\ \A j \in 1..(1 + Len(table)) :
             longer[j] = IF j <= 1 THEN <<field>>[j] ELSE table[j - 1]
    BY <1>1, <1>3, ConcatProperties
  <2>. HIDE DEF longer
  <2>. QED
    BY <1>1, <1>3, <2>1
<1>5. CASE Len(longer) > TableSize
  <2>1. Insert(table, field) = SubSeq(longer, 1, TableSize)
    BY <1>5 DEF Insert
  <2>2. Len(table) = TableSize
    BY <1>1, <1>2, <1>4, <1>5
  <2>3. \A j \in 1..TableSize : longer[j] \in Fields
    <3>. HIDE DEF longer
    <3>. QED
      BY <1>4, <2>2, ElementOfSeq
  <2>4. /\ SubSeq(longer, 1, TableSize) \in Seq(Fields)
        /\ Len(SubSeq(longer, 1, TableSize)) = TableSize
        /\ \A j \in 1..TableSize : SubSeq(longer, 1, TableSize)[j] = longer[j]
    <3>. HIDE DEF longer
    <3>1. 1 \in Int /\ TableSize \in Int
      BY <1>2
    <3>2. /\ SubSeq(longer, 1, TableSize) \in Seq(Fields)
          /\ Len(SubSeq(longer, 1, TableSize)) =
               IF 1 <= TableSize THEN TableSize - 1 + 1 ELSE 0
          /\ \A j \in 1..(TableSize - 1 + 1) :
               SubSeq(longer, 1, TableSize)[j] = longer[1 + j - 1]
      BY <2>3, <3>1, SubSeqProperties
    <3>. QED
      BY <1>2, <3>2
  <2>. HIDE DEF longer
  <2>. QED
    BY <1>1, <1>2, <1>4, <2>1, <2>2, <2>4 DEF Tables
<1>6. CASE ~(Len(longer) > TableSize)
  <2>1. Insert(table, field) = longer
    BY <1>6 DEF Insert
  <2>. HIDE DEF longer
  <2>. QED
    BY <1>1, <1>2, <1>4, <1>6, <2>1 DEF Tables
<1>. QED
  BY <1>5, <1>6

\* What each kind of representation makes of a decoder that has not failed.
LEMMA RepresentCases ==
  ASSUME NEW d \in Decoders, NEW rep \in Representations
  PROVE  /\ ~d.ok => Represent(d, rep) = d
         /\ d.ok /\ rep.kind = "indexed" /\ rep.index \in 1..Len(d.table) =>
              Represent(d, rep) =
                [ok |-> TRUE, fields |-> Append(d.fields, d.table[rep.index]),
                 table |-> d.table]
         /\ d.ok /\ rep.kind = "indexed" /\ rep.index \notin 1..Len(d.table) =>
              Represent(d, rep) =
                [ok |-> FALSE, fields |-> d.fields, table |-> d.table]
         /\ d.ok /\ rep.kind = "literal" =>
              Represent(d, rep) =
                [ok |-> TRUE, fields |-> Append(d.fields, rep.field),
                 table |-> Insert(d.table, rep.field)]
         /\ d.ok /\ rep.kind = "plain" =>
              Represent(d, rep) =
                [ok |-> TRUE, fields |-> Append(d.fields, rep.field),
                 table |-> d.table]
<1>1. d = [ok |-> d.ok, fields |-> d.fields, table |-> d.table]
  BY DEF Decoders
<1>2. CASE ~d.ok
  BY <1>2 DEF Represent
<1>3. CASE d.ok /\ rep.kind = "indexed"
  BY <1>1, <1>3 DEF Represent, Emit, Failed, Decoders
<1>4. CASE d.ok /\ rep.kind = "literal"
  BY <1>1, <1>4 DEF Represent, Emit, Decoders
<1>5. CASE d.ok /\ rep.kind = "plain"
  BY <1>1, <1>5 DEF Represent, Emit, Decoders
<1>. QED
  BY <1>2, <1>3, <1>4, <1>5 DEF Representations

\* A decoder stays one.
LEMMA RepresentIsADecoder ==
  ASSUME NEW d \in Decoders, NEW rep \in Representations
  PROVE  Represent(d, rep) \in Decoders
<1>1. /\ d.ok \in BOOLEAN /\ d.fields \in Seq(Fields) /\ d.table \in Tables
      /\ rep.field \in Fields /\ rep.kind \in {"indexed", "literal", "plain"}
  BY DEF Decoders, Representations
<1>2. d.table \in Seq(Fields)
  BY <1>1 DEF Tables
<1>3. CASE ~d.ok
  BY <1>3, RepresentCases
<1>4. ASSUME NEW ok \in BOOLEAN, NEW fields \in Seq(Fields), NEW table \in Tables
      PROVE  [ok |-> ok, fields |-> fields, table |-> table] \in Decoders
  BY DEF Decoders
<1>5. CASE d.ok /\ rep.kind = "indexed" /\ rep.index \in 1..Len(d.table)
  <2>1. d.table[rep.index] \in Fields
    BY <1>2, <1>5, ElementOfSeq
  <2>2. Append(d.fields, d.table[rep.index]) \in Seq(Fields)
    BY <1>1, <2>1, AppendProperties
  <2>3. Represent(d, rep) =
          [ok |-> TRUE, fields |-> Append(d.fields, d.table[rep.index]),
           table |-> d.table]
    BY <1>5, RepresentCases
  <2>. QED
    BY <1>1, <1>4, <2>2, <2>3
<1>6. CASE d.ok /\ rep.kind = "indexed" /\ rep.index \notin 1..Len(d.table)
  <2>1. Represent(d, rep) = [ok |-> FALSE, fields |-> d.fields, table |-> d.table]
    BY <1>6, RepresentCases
  <2>. QED
    BY <1>1, <1>4, <2>1
<1>7. Append(d.fields, rep.field) \in Seq(Fields) /\ Insert(d.table, rep.field) \in Tables
  BY <1>1, AppendProperties, InsertIsATable
<1>8. CASE d.ok /\ rep.kind = "literal"
  <2>1. Represent(d, rep) =
          [ok |-> TRUE, fields |-> Append(d.fields, rep.field),
           table |-> Insert(d.table, rep.field)]
    BY <1>8, RepresentCases
  <2>. QED
    BY <1>4, <1>7, <2>1
<1>9. CASE d.ok /\ rep.kind = "plain"
  <2>1. Represent(d, rep) =
          [ok |-> TRUE, fields |-> Append(d.fields, rep.field), table |-> d.table]
    BY <1>9, RepresentCases
  <2>. QED
    BY <1>1, <1>4, <1>7, <2>1
<1>. QED
  BY <1>1, <1>3, <1>5, <1>6, <1>8, <1>9

-----------------------------------------------------------------------------
(* The runs of two decoders over one block                                 *)

\* A decoder before and after each representation of a block.
IsRun(run, block, table) ==
  /\ run[0] = Start(table)
  /\ \A i \in 1..Len(block) : run[i] = Represent(run[i - 1], block[i])

\* DecodeFull is the end of a run of decoders.
LEMMA DecodeFullRuns ==
  ASSUME NEW block \in Seq(Representations), NEW table \in Tables
  PROVE  \E run \in [0..Len(block) -> Decoders] :
           IsRun(run, block, table) /\ DecodeFull(block, table) = run[Len(block)]
<1>1. PICK n \in Nat : n = Len(block)
  OBVIOUS
<1>2. \A i \in 1..n : block[i] \in Representations
  BY <1>1, ElementOfSeq
<1>3. Start(table) \in Decoders
  <2>1. <<>> \in Seq(Fields)
    OBVIOUS
  <2>. QED
    BY <2>1 DEF Start, Decoders
<1>. DEFINE step == [i \in 1..n |-> [d \in Decoders |-> Represent(d, block[i])]]
            Run(f) == [i \in 0..n |->
                        IF i = 0 THEN Start(table) ELSE Represent(f[i - 1], block[i])]
            r == CHOOSE f : f = Run(f)
<1>4. step \in [1..n -> [Decoders -> Decoders]]
  <2>1. \A i \in 1..n : \A d \in Decoders : Represent(d, block[i]) \in Decoders
    BY <1>2, RepresentIsADecoder
  <2>. QED
    BY <2>1
<1>5. PICK f \in [0..n -> Decoders] : IsRecursion(f, Start(table), n, step)
  <2>. HIDE DEF step
  <2>. QED
    BY <1>3, <1>4, RecursionExists
<1>6. f = Run(f)
  <2>1. f[0] = Start(table) /\ \A i \in 1..n : f[i] = step[i][f[i - 1]]
    BY <1>5 DEF IsRecursion
  <2>2. ASSUME NEW i \in 1..n PROVE f[i] = Represent(f[i - 1], block[i])
    <3>1. f[i - 1] \in Decoders
      OBVIOUS
    <3>. QED
      BY <2>1, <3>1
  <2>3. \A i \in 0..n :
          f[i] = IF i = 0 THEN Start(table) ELSE Represent(f[i - 1], block[i])
    BY <2>1, <2>2
  <2>. QED
    BY <2>3
<1>7. r = Run(r)
  BY <1>6
<1>8. DecodeFull(block, table) = r[n]
  BY <1>1 DEF DecodeFull, Start
<1>9. /\ DOMAIN r = 0..n /\ r = [i \in 0..n |-> r[i]]
      /\ r[0] = Start(table)
      /\ \A i \in 1..n : r[i] = Represent(r[i - 1], block[i])
  <2>. HIDE DEF r
  <2>1. \A i \in 0..n :
          r[i] = IF i = 0 THEN Start(table) ELSE Represent(r[i - 1], block[i])
    BY <1>7
  <2>2. r = [i \in 0..n |-> r[i]]
    BY <1>7
  <2>. QED
    BY <2>1, <2>2
<1>. HIDE DEF r
<1>10. \A i \in 0..n : r[i] \in Decoders
  <2>. DEFINE S == {i \in 0..n : r[i] \in Decoders}
  <2>1. 0 \in S
    BY <1>3, <1>9
  <2>2. ASSUME NEW i \in 1..n, i - 1 \in S PROVE i \in S
    <3>1. r[i - 1] \in Decoders /\ block[i] \in Representations /\ i \in 0..n
      BY <1>2, <2>2
    <3>2. Represent(r[i - 1], block[i]) \in Decoders
      BY <3>1, RepresentIsADecoder
    <3>3. r[i] = Represent(r[i - 1], block[i])
      BY <1>9
    <3>. QED
      BY <3>1, <3>2, <3>3
  <2>3. 0..n \subseteq S
    <3>. HIDE DEF S
    <3>. QED
      BY <2>1, <2>2, IntervalInduction
  <2>. QED
    BY <2>3
<1>11. r \in [0..n -> Decoders]
  BY <1>9, <1>10
<1>12. IsRun(r, block, table)
  BY <1>1, <1>9 DEF IsRun
<1>. QED
  BY <1>1, <1>8, <1>11, <1>12

\* The literals of one representation more.
LEMMA LiteralsStep ==
  ASSUME NEW block, NEW n \in Nat \ {0}
  PROVE  /\ Literals(block, 0) = 0
         /\ Literals(block, n - 1) \in Nat
         /\ Literals(block, n) = Literals(block, n - 1)
                                   + (IF block[n].kind = "literal" THEN 1 ELSE 0)
<1>. DEFINE Upto(k) == {i \in 1..k : block[i].kind = "literal"}
<1>1. Upto(0) = {}
  OBVIOUS
<1>2. IsFiniteSet(Upto(n - 1))
  <2>1. IsFiniteSet(1..(n - 1))
    BY FS_Interval
  <2>. QED
    BY <2>1, FS_Subset
<1>3. Literals(block, 0) = 0
  BY <1>1, FS_EmptySet DEF Literals
<1>4. Literals(block, n - 1) \in Nat
  BY <1>2, FS_CardinalityType DEF Literals
<1>5. CASE block[n].kind = "literal"
  <2>1. Upto(n) = Upto(n - 1) \cup {n} /\ n \notin Upto(n - 1)
    BY <1>5
  <2>2. Cardinality(Upto(n - 1) \cup {n}) = Cardinality(Upto(n - 1)) + 1
    <3>. HIDE DEF Upto
    <3>. QED
      BY <1>2, <2>1, FS_AddElement
  <2>. QED
    BY <1>3, <1>4, <1>5, <2>1, <2>2 DEF Literals
<1>6. CASE block[n].kind # "literal"
  <2>1. Upto(n) = Upto(n - 1)
    BY <1>6
  <2>2. Literals(block, n) = Literals(block, n - 1)
    BY <2>1 DEF Literals
  <2>. QED
    BY <1>3, <1>4, <1>6, <2>2
<1>. QED
  BY <1>5, <1>6

\* Every index of the first n representations is of a field that the block
\* itself has put into the table.
SelfContainedUpto(block, n) ==
  \A i \in 1..n :
    block[i].kind = "indexed" => block[i].index <= Literals(block, i - 1)

\* g, which began with an empty table, has emitted what f has, and its table is
\* the newest part of f's: as much as there were literals.
Follows(g, f, literals) ==
  /\ g.ok /\ g.fields = f.fields
  /\ Len(g.table) = IF literals < TableSize THEN literals ELSE TableSize
  /\ Len(g.table) <= Len(f.table)
  /\ \A j \in 1..Len(g.table) : g.table[j] = f.table[j]

\* A literal is emitted by both and comes first in both tables.
LEMMA LiteralFollows ==
  ASSUME NEW f \in Decoders, NEW g \in Decoders, NEW literals \in Nat,
         NEW rep \in Representations, f.ok, Follows(g, f, literals),
         rep.kind = "literal"
  PROVE  Follows(Represent(g, rep), Represent(f, rep), literals + 1)
<1>1. /\ f.table \in Tables /\ g.table \in Tables /\ rep.field \in Fields
      /\ Len(f.table) \in Nat /\ Len(g.table) \in Nat /\ TableSize \in Nat
      /\ Len(f.table) <= TableSize /\ Len(g.table) <= TableSize
  BY HeadersAssumption DEF Decoders, Representations, HeadersAssumption, Tables
<1>2. /\ g.ok /\ g.fields = f.fields
      /\ Len(g.table) = IF literals < TableSize THEN literals ELSE TableSize
      /\ Len(g.table) <= Len(f.table)
      /\ \A j \in 1..Len(g.table) : g.table[j] = f.table[j]
  BY DEF Follows
<1>3. PICK tf : tf = Insert(f.table, rep.field)
  OBVIOUS
<1>4. PICK tg : tg = Insert(g.table, rep.field)
  OBVIOUS
<1>5. /\ Len(tf) = IF Len(f.table) < TableSize THEN Len(f.table) + 1 ELSE TableSize
      /\ \A j \in 1..Len(tf) : tf[j] = IF j = 1 THEN rep.field ELSE f.table[j - 1]
  BY <1>1, <1>3, InsertIsATable
<1>6. /\ Len(tg) = IF Len(g.table) < TableSize THEN Len(g.table) + 1 ELSE TableSize
      /\ \A j \in 1..Len(tg) : tg[j] = IF j = 1 THEN rep.field ELSE g.table[j - 1]
  BY <1>1, <1>4, InsertIsATable
<1>7. /\ Len(tg) = IF literals + 1 < TableSize THEN literals + 1 ELSE TableSize
      /\ Len(tg) <= Len(tf)
  BY <1>1, <1>2, <1>5, <1>6
<1>8. ASSUME NEW j \in 1..Len(tg) PROVE tg[j] = tf[j]
  <2>1. j \in 1..Len(tf)
    BY <1>1, <1>5, <1>6, <1>7
  <2>2. CASE j = 1
    BY <1>5, <1>6, <2>1, <2>2
  <2>3. CASE j # 1
    <3>1. j - 1 \in 1..Len(g.table)
      BY <1>1, <1>6, <2>3
    <3>. QED
      BY <1>2, <1>5, <1>6, <2>1, <2>3, <3>1
  <2>. QED
    BY <2>2, <2>3
<1>9. Represent(f, rep) = [ok |-> TRUE, fields |-> Append(f.fields, rep.field),
                           table |-> tf]
  BY <1>3, RepresentCases
<1>10. Represent(g, rep) = [ok |-> TRUE, fields |-> Append(f.fields, rep.field),
                            table |-> tg]
  BY <1>2, <1>4, RepresentCases
<1>. QED
  BY <1>7, <1>8, <1>9, <1>10 DEF Follows

\* A field that enters no table is emitted by both.
LEMMA PlainFollows ==
  ASSUME NEW f \in Decoders, NEW g \in Decoders, NEW literals \in Nat,
         NEW rep \in Representations, f.ok, Follows(g, f, literals),
         rep.kind = "plain"
  PROVE  Follows(Represent(g, rep), Represent(f, rep), literals)
<1>1. g.ok /\ g.fields = f.fields
  BY DEF Follows
<1>2. Represent(f, rep) = [ok |-> TRUE, fields |-> Append(f.fields, rep.field),
                           table |-> f.table]
  BY RepresentCases
<1>3. Represent(g, rep) = [ok |-> TRUE, fields |-> Append(f.fields, rep.field),
                           table |-> g.table]
  BY <1>1, RepresentCases
<1>. QED
  BY <1>2, <1>3 DEF Follows

\* An index that the encoder's table has is one of the fresh table just when
\* the block has put as many fields into it, and then of the same field.
LEMMA IndexFollows ==
  ASSUME NEW f \in Decoders, NEW g \in Decoders, NEW literals \in Nat,
         NEW rep \in Representations, f.ok, Follows(g, f, literals),
         rep.kind = "indexed", Represent(f, rep).ok
  PROVE  /\ rep.index <= literals =>
              Follows(Represent(g, rep), Represent(f, rep), literals)
         /\ ~(rep.index <= literals) => ~Represent(g, rep).ok
<1>1. /\ Len(f.table) \in Nat /\ Len(g.table) \in Nat /\ TableSize \in Nat
      /\ Len(f.table) <= TableSize /\ rep.index \in Nat
  BY HeadersAssumption DEF Decoders, Representations, HeadersAssumption, Tables
<1>2. /\ g.ok /\ g.fields = f.fields
      /\ Len(g.table) = IF literals < TableSize THEN literals ELSE TableSize
      /\ \A j \in 1..Len(g.table) : g.table[j] = f.table[j]
  BY DEF Follows
<1>3. rep.index \in 1..Len(f.table)
  <2>1. SUFFICES ASSUME rep.index \notin 1..Len(f.table) PROVE FALSE
    OBVIOUS
  <2>2. Represent(f, rep) = [ok |-> FALSE, fields |-> f.fields, table |-> f.table]
    BY <2>1, RepresentCases
  <2>. QED
    BY <2>2
<1>4. Represent(f, rep) = [ok |-> TRUE, fields |-> Append(f.fields, f.table[rep.index]),
                           table |-> f.table]
  BY <1>3, RepresentCases
<1>5. ASSUME rep.index <= literals
      PROVE  Follows(Represent(g, rep), Represent(f, rep), literals)
  <2>1. rep.index \in 1..Len(g.table)
    BY <1>1, <1>2, <1>3, <1>5
  <2>2. g.table[rep.index] = f.table[rep.index]
    BY <1>2, <2>1
  <2>3. Represent(g, rep) = [ok |-> TRUE, fields |-> Append(g.fields, g.table[rep.index]),
                             table |-> g.table]
    BY <1>2, <2>1, RepresentCases
  <2>. QED
    BY <1>2, <1>4, <2>2, <2>3 DEF Follows
<1>6. ASSUME ~(rep.index <= literals) PROVE ~Represent(g, rep).ok
  <2>1. rep.index \notin 1..Len(g.table)
    BY <1>1, <1>2, <1>6
  <2>2. Represent(g, rep) = [ok |-> FALSE, fields |-> g.fields, table |-> g.table]
    BY <1>2, <2>1, RepresentCases
  <2>. QED
    BY <2>2
<1>. QED
  BY <1>5, <1>6

\* Where a decoder has failed or not, and where the other stands.
Beside(g, f, block, n) ==
  IF SelfContainedUpto(block, n) THEN Follows(g, f, Literals(block, n)) ELSE ~g.ok

\* One representation of a block that the encoder's table resolves.
LEMMA RepresentBeside ==
  ASSUME NEW block \in Seq(Representations), NEW n \in 1..Len(block),
         NEW f \in Decoders, NEW g \in Decoders,
         f.ok => Beside(g, f, block, n - 1), Represent(f, block[n]).ok
  PROVE  Beside(Represent(g, block[n]), Represent(f, block[n]), block, n)
<1>. DEFINE rep == block[n]
<1>1. rep \in Representations /\ n \in Nat \ {0}
  BY ElementOfSeq
<1>2. f.ok
  BY <1>1, RepresentCases
<1>3. Beside(g, f, block, n - 1)
  BY <1>2
<1>4. SelfContainedUpto(block, n) <=>
        /\ SelfContainedUpto(block, n - 1)
        /\ rep.kind = "indexed" => rep.index <= Literals(block, n - 1)
  <2>1. 1..n = (1..(n - 1)) \cup {n}
    BY <1>1
  <2>. QED
    BY <2>1 DEF SelfContainedUpto
<1>5. PICK literals \in Nat : literals = Literals(block, n - 1)
  BY <1>1, LiteralsStep
<1>6. Literals(block, n) = literals + (IF rep.kind = "literal" THEN 1 ELSE 0)
  BY <1>1, <1>5, LiteralsStep
<1>7. rep.kind \in {"indexed", "literal", "plain"}
  BY <1>1 DEF Representations
<1>. HIDE DEF rep
<1>8. CASE ~SelfContainedUpto(block, n - 1)
  <2>1. ~g.ok /\ ~SelfContainedUpto(block, n)
    BY <1>3, <1>4, <1>8 DEF Beside
  <2>2. Represent(g, rep) = g
    BY <1>1, <2>1, RepresentCases
  <2>. QED
    BY <2>1, <2>2 DEF Beside, rep
<1>9. CASE SelfContainedUpto(block, n - 1)
  <2>1. Follows(g, f, literals)
    BY <1>3, <1>5, <1>9 DEF Beside
  <2>2. CASE rep.kind = "literal"
    <3>1. Follows(Represent(g, rep), Represent(f, rep), literals + 1)
      BY <1>1, <1>2, <2>1, <2>2, LiteralFollows
    <3>2. SelfContainedUpto(block, n) /\ Literals(block, n) = literals + 1
      BY <1>4, <1>6, <1>9, <2>2
    <3>. QED
      BY <3>1, <3>2 DEF Beside, rep
  <2>3. CASE rep.kind = "plain"
    <3>1. Follows(Represent(g, rep), Represent(f, rep), literals)
      BY <1>1, <1>2, <2>1, <2>3, PlainFollows
    <3>2. SelfContainedUpto(block, n) /\ Literals(block, n) = literals
      BY <1>4, <1>6, <1>9, <2>3
    <3>. QED
      BY <3>1, <3>2 DEF Beside, rep
  <2>4. CASE rep.kind = "indexed"
    <3>1. Represent(f, rep).ok
      BY DEF rep
    <3>2. /\ rep.index <= literals =>
               Follows(Represent(g, rep), Represent(f, rep), literals)
          /\ ~(rep.index <= literals) => ~Represent(g, rep).ok
      BY <1>1, <1>2, <2>1, <2>4, <3>1, IndexFollows
    <3>3. /\ SelfContainedUpto(block, n) <=> rep.index <= literals
          /\ Literals(block, n) = literals
      BY <1>4, <1>5, <1>6, <1>9, <2>4
    <3>. QED
      BY <3>2, <3>3 DEF Beside, rep
  <2>. QED
    BY <1>7, <2>2, <2>3, <2>4
<1>. QED
  BY <1>8, <1>9

(***************************************************************************)
(* What a decoder made for one frame returns: all the fields of a block    *)
(* that refers to itself alone, and none of any other that is correct.     *)
(***************************************************************************)
LEMMA FreshIsWholeOrNone ==
  ASSUME NEW block \in Seq(Representations), NEW table \in Tables,
         DecodeFull(block, table).ok
  PROVE  Returned(DecodeFull(block, <<>>)) =
           IF SelfContained(block) THEN DecodeFull(block, table).fields ELSE <<>>
<1>1. PICK n \in Nat : n = Len(block)
  OBVIOUS
<1>2. <<>> \in Tables
  BY HeadersAssumption DEF Tables, HeadersAssumption
<1>3. PICK f \in [0..n -> Decoders] :
        IsRun(f, block, table) /\ DecodeFull(block, table) = f[n]
  BY <1>1, DecodeFullRuns
<1>4. PICK g \in [0..n -> Decoders] :
        IsRun(g, block, <<>>) /\ DecodeFull(block, <<>>) = g[n]
  BY <1>1, <1>2, DecodeFullRuns
<1>. DEFINE S == {i \in 0..n : f[i].ok => Beside(g[i], f[i], block, i)}
<1>5. 0 \in S
  <2>1. f[0] = Start(table) /\ g[0] = Start(<<>>)
    BY <1>3, <1>4 DEF IsRun
  <2>2. Literals(block, 0) = 0
    BY LiteralsStep
  <2>3. SelfContainedUpto(block, 0)
    BY DEF SelfContainedUpto
  <2>4. Len(table) \in Nat /\ TableSize \in Nat
    BY HeadersAssumption DEF Tables, HeadersAssumption
  <2>5. Follows(g[0], f[0], 0)
    BY <2>1, <2>4 DEF Follows, Start
  <2>. QED
    BY <2>2, <2>3, <2>5 DEF Beside
<1>6. ASSUME NEW i \in 1..n, i - 1 \in S PROVE i \in S
  <2>1. /\ f[i - 1] \in Decoders /\ g[i - 1] \in Decoders
        /\ i \in 1..Len(block) /\ i \in 0..n
    BY <1>1
  <2>2. f[i - 1].ok => Beside(g[i - 1], f[i - 1], block, i - 1)
    BY <1>6
  <2>3. f[i] = Represent(f[i - 1], block[i]) /\ g[i] = Represent(g[i - 1], block[i])
    BY <1>3, <1>4, <2>1 DEF IsRun
  <2>4. f[i].ok => Beside(g[i], f[i], block, i)
    BY <2>1, <2>2, <2>3, RepresentBeside
  <2>. QED
    BY <2>1, <2>4
<1>7. n \in S
  <2>1. 0..n \subseteq S
    <3>. HIDE DEF S
    <3>. QED
      BY <1>5, <1>6, IntervalInduction
  <2>. QED
    BY <2>1
<1>8. SelfContainedUpto(block, n) <=> SelfContained(block)
  <2>1. DOMAIN block = 1..n
    BY <1>1
  <2>. QED
    BY <2>1 DEF SelfContainedUpto, SelfContained
<1>9. Beside(g[n], f[n], block, n)
  BY <1>3, <1>7
<1>. QED
  BY <1>3, <1>4, <1>8, <1>9 DEF Beside, Follows, Returned

-----------------------------------------------------------------------------
(* The headers of the frames                                               *)

\* What the decoder of a frame makes of its block: all of it when it refers to
\* itself alone, and nothing otherwise.
FreshDecoderSees ==
  \A i \in DOMAIN requests :
    ~requests[i].cut =>
      requests[i].frame =
        IF SelfContained(requests[i].block) THEN requests[i].meant ELSE <<>>

IInvFrames ==
  /\ IsList
  /\ encoder \in Tables
  /\ FreshDecoderSees

\* A frame more.
LEMMA FrameIsWholeOrNone ==
  ASSUME IInvFrames, NEW block \in Blocks, NEW n \in 1..Len(block),
         ReadHeaders(block, n)
  PROVE  IInvFrames'
<1>. DEFINE meant == DecodeFull(block, encoder)
            fragment == SubSeq(block, 1, n)
            decoded == Persistent(fragment)
            new == [block |-> block, cut |-> n < Len(block), meant |-> meant.fields,
                    started |-> decoded.ok, headers |-> Returned(decoded),
                    frame |-> convertFrame(fragment)]
<1>1. /\ requests' = Append(requests, new)
      /\ encoder' = meant.table /\ meant.ok
  BY DEF ReadHeaders
<1>2. PICK S : requests \in Seq(S)
  BY DEF IInvFrames, IsList
<1>3. block \in Seq(Representations) /\ encoder \in Tables
  BY HeadersAssumption DEF HeadersAssumption, Representations, IInvFrames
<1>4. meant \in Decoders
  <2>1. PICK run \in [0..Len(block) -> Decoders] : meant = run[Len(block)]
    BY <1>3, DecodeFullRuns
  <2>2. Len(block) \in 0..Len(block)
    BY <1>3
  <2>. QED
    BY <2>1, <2>2
<1>5. encoder' \in Tables
  BY <1>1, <1>4 DEF Decoders
<1>6. ~new.cut =>
        new.frame = IF SelfContained(new.block) THEN new.meant ELSE <<>>
  <2>1. SUFFICES ASSUME ~(n < Len(block))
                 PROVE  convertFrame(fragment) =
                          IF SelfContained(block) THEN meant.fields ELSE <<>>
    OBVIOUS
  <2>2. fragment = block
    BY <2>1, UncutIsWhole
  <2>. QED
    BY <1>1, <1>3, <2>2, FreshIsWholeOrNone DEF convertFrame
<1>. HIDE DEF meant, new
<1>. DEFINE T == S \cup {new}
<1>7. requests \in Seq(T) /\ new \in T
  BY <1>2
<1>. HIDE DEF T
<1>8. requests' \in Seq(T)
  BY <1>1, <1>7
<1>9. ASSUME NEW i \in DOMAIN requests', ~requests'[i].cut
      PROVE  requests'[i].frame =
               IF SelfContained(requests'[i].block) THEN requests'[i].meant ELSE <<>>
  <2>1. \/ i \in DOMAIN requests /\ requests'[i] = requests[i]
        \/ requests'[i] = new
    BY <1>1, <1>7, <1>9
  <2>. QED
    BY <1>6, <1>9, <2>1 DEF IInvFrames, FreshDecoderSees
<1>. QED
  BY <1>5, <1>8, <1>9 DEF IInvFrames, IsList, FreshDecoderSees

(***************************************************************************)
(* What convertFrame makes of a HEADERS frame, for the fingerprint and for *)
(* the routes that echo headers, is what its client meant, whatever the    *)
(* connection's table holds, or nothing: it never confuses one field with  *)
(* another.  It is what was meant when the block refers to itself alone.   *)
(***************************************************************************)
THEOREM FrameHeadersAreOwnOrNone == Spec => []FrameHeadersOwnOrNone
<1>1. Init => IInvFrames
  <2>1. <<>> \in Seq({})
    OBVIOUS
  <2>2. <<>> \in Tables
    BY HeadersAssumption DEF Tables, HeadersAssumption
  <2>. QED
    BY <2>1, <2>2 DEF Init, IInvFrames, IsList, FreshDecoderSees
<1>2. IInvFrames /\ [Next]_vars => IInvFrames'
  <2> SUFFICES ASSUME IInvFrames, [Next]_vars PROVE IInvFrames'
    OBVIOUS
  <2>1. ASSUME NEW block \in Blocks, NEW n \in 1..Len(block), ReadHeaders(block, n)
        PROVE  IInvFrames'
    BY <2>1, FrameIsWholeOrNone
  <2>2. CASE ReadContinuation
    BY <2>2 DEF ReadContinuation, IInvFrames, IsList, FreshDecoderSees
  <2>3. CASE UNCHANGED vars
    BY <2>3 DEF vars, IInvFrames, IsList, FreshDecoderSees
  <2> QED BY <2>1, <2>2, <2>3 DEF Next
<1>3. IInvFrames => FrameHeadersOwnOrNone
  BY DEF IInvFrames, FreshDecoderSees, FrameHeadersOwnOrNone
<1> QED BY <1>1, <1>2, <1>3, PTL DEF Spec
=============================================================================
