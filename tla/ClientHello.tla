------------------------------ MODULE ClientHello ------------------------------
(***************************************************************************)
(* ParseClientHello: what the server reads out of a ClientHello that the   *)
(* TLS library has accepted.  The library looks into the extensions that   *)
(* it knows, and what it does not know may be of any length and content.   *)
(*                                                                         *)
(* A hello is a record [version, ciphers, extensions], and an extension    *)
(* one [type, items, length, data]: the number of its type; the items that *)
(* are wholly there, each with its value and the bytes it takes with its   *)
(* own length; the length its list claims; and the bytes of it in all.     *)
(* The parser works on hex digits, two a byte: its offsets and limits are  *)
(* halved here.                                                            *)
(***************************************************************************)
EXTENDS Integers, Sequences, SequencesExt

Item(v, size) == [v |-> v, size |-> size]

\* What is shown of an extension.
Extension(type, items) == [type |-> type, items |-> items]

\* 0x0A0A, 0x1A1A, ..., 0xFAFA.
GreaseValues == {2570 + 4112 * k : k \in 0..15}
IsGrease(v) == v \in GreaseValues

\* What stands for a GREASE value: of a curve, of a version.
GreaseCurve == 6969
GreaseVersion == -1

Replaced(values, by) ==
  [k \in DOMAIN values |-> IF IsGrease(values[k]) THEN by ELSE values[k]]

-----------------------------------------------------------------------------
(* The lists                                                               *)

\* The bytes of the first k items, for each k, and of all.
Sizes(items) ==
  LET sum[k \in 0..Len(items)] == IF k = 0 THEN 0 ELSE sum[k - 1] + items[k].size IN sum
Size(items) == Sizes(items)[Len(items)]

\* Where the item after the first k begins, behind a length of two bytes.
Offset(items, k) == 2 + Sizes(items)[k]

\* application_settings, old and new, are read when the list is all there.
Settings == {17513, 17613}
AllThere(ext) == ext.data > 2 /\ ext.data >= ext.length + 2

\* Mutant: the loops stop where the last item begins at the list's length.
More_Below(ext, k) ==
  CASE ext.type \in {10, 13, 16} -> Offset(ext.items, k) < ext.length
    [] ext.type = 53 -> k < ext.length \div 2
    [] ext.type = 51 -> Offset(ext.items, k) < ext.length
    [] ext.type \in Settings -> AllThere(ext) /\ Offset(ext.items, k) < ext.length
    [] ext.type = 11 -> Sizes(ext.items)[k] + 2 <= ext.length + 1
    [] ext.type \in {27, 34, 43} -> 2 * k < ext.length
    [] ext.type \in {0, 45} -> k = 0 /\ ext.length >= 1
    [] OTHER -> k < Len(ext.items)

\* Whether the loop over an extension's list goes on after k items.  Those of
\* groups, signature algorithms and protocols compare the offset, which counts
\* the length itself, by <= (the one of 53 has an odd length halved); those of
\* key_share and application_settings by <; point formats look at the data
\* left; certificate compression, delegated credentials and versions count
\* what they have; the server name and the first PSK mode are read once; other
\* data is shown as it is.
More(ext, k) ==
  CASE ext.type \in {10, 13, 16} -> Offset(ext.items, k) <= ext.length
    [] ext.type = 53 -> k < ext.length \div 2
    [] ext.type = 51 -> Offset(ext.items, k) < ext.length
    [] ext.type \in Settings -> AllThere(ext) /\ Offset(ext.items, k) < ext.length
    [] ext.type = 11 -> Sizes(ext.items)[k] + 2 <= ext.length + 1
    [] ext.type \in {27, 34, 43} -> 2 * k < ext.length
    [] ext.type \in {0, 45} -> k = 0 /\ ext.length >= 1
    [] OTHER -> k < Len(ext.items)

\* The values it takes.
Taken(ext) ==
  LET n == CHOOSE n \in 0..Len(ext.items) :
             /\ \A k \in 0..(n - 1) : More(ext, k)
             /\ n < Len(ext.items) => ~More(ext, n)
  IN [k \in 1..n |-> ext.items[k].v]

\* The bytes before the items of the extensions that the library leaves alone;
\* all that is read of status_request_v2 is three of them.
Ahead(type) ==
  CASE type = 17 -> 3
    [] type = 27 -> 1
    [] type \in {34, 53} \cup Settings -> 2
    [] OTHER -> 0

\* Whether it reads bytes that are not there: before the items, which only
\* that of application_settings makes sure of, or the item after the last.
Overruns(ext) ==
  \/ ext.type \notin Settings /\ ext.data < Ahead(ext.type)
  \/ \A k \in 0..Len(ext.items) : More(ext, k)

-----------------------------------------------------------------------------
(* The parsed ClientHello                                                  *)

Blank ==
  [Version |-> 0, CipherSuites |-> <<>>, AllExtensions |-> <<>>, Extensions |-> <<>>,
   SupportedCurves |-> <<>>, SupportedPoints |-> <<>>, SignatureAlgorithms |-> <<>>,
   SupportedProtocols |-> <<>>, SupportedTLSVersions |-> <<>>,
   PSKKeyExchangeMode |-> 0, CertCompressionAlgorithms |-> <<>>]

\* One extension: what is shown of it, and what is kept for the fingerprints.
\* The case of signature_algorithms_cert has 0x35 for 50, which is 0x32.
parseRawExtension(chp, ext) ==
  LET read == Taken(ext)
      shown == [chp EXCEPT !.Extensions = Append(@, Extension(ext.type, read))]
  IN CASE ext.type = 10 ->
            [shown EXCEPT !.SupportedCurves = @ \o Replaced(read, GreaseCurve)]
       [] ext.type = 11 -> [shown EXCEPT !.SupportedPoints = @ \o read]
       [] ext.type \in {13, 53} -> [shown EXCEPT !.SignatureAlgorithms = @ \o read]
       [] ext.type = 16 -> [shown EXCEPT !.SupportedProtocols = @ \o read]
       [] ext.type = 27 -> [shown EXCEPT !.CertCompressionAlgorithms = @ \o read]
       [] ext.type = 43 ->
            [shown EXCEPT !.SupportedTLSVersions = @ \o Replaced(read, GreaseVersion)]
       [] ext.type = 45 /\ read # <<>> -> [shown EXCEPT !.PSKKeyExchangeMode = read[1]]
       [] OTHER -> shown

Types(hello) == [i \in DOMAIN hello.extensions |-> hello.extensions[i].type]

\* A point format and a PSK mode have one byte, a protocol its length and a
\* letter at least, a key its group and length before it.
Width(type) ==
  CASE type \in {10, 13, 53, 27, 34, 43} -> {2}
    [] type \in {11, 45} -> {1}
    [] type \in {16} \cup Settings -> Nat \ (0..1)
    [] type = 51 -> Nat \ (0..4)
    [] OTHER -> Nat \ {0}

\* A list of items that have the width of their kind, as long as it says, all
\* of it in the extension.
WellFormed(ext) ==
  /\ ext.items \in Seq([v : {item.v : item \in ToSet(ext.items)}, size : Width(ext.type)])
  /\ ext.length = Size(ext.items)
  /\ ext.data \in Nat /\ ext.data >= Ahead(ext.type) + ext.length

\* What the library's acceptance comes to.  It knows neither status_request_v2,
\* the compression of certificates, delegated credentials and the number 53,
\* nor, of a client, application_settings.
Unknown == {17, 27, 34, 53} \cup Settings

IsHello(hello) ==
  /\ hello.ciphers \in Seq(ToSet(hello.ciphers))
  /\ hello.extensions \in Seq(ToSet(hello.extensions))
  /\ \A ext \in ToSet(hello.extensions) : ext.type \in Unknown \/ WellFormed(ext)

AllWellFormed(hello) == \A ext \in ToSet(hello.extensions) : WellFormed(ext)

Supported(hello) == hello.version \in {771, 772}

\* parseExtensions looks at an extension before it asks whether there is one,
\* and a slice beyond the end of an extension is a panic.
ParsePanics(hello) ==
  /\ Supported(hello)
  /\ \/ hello.extensions = <<>>
     \/ \E i \in DOMAIN hello.extensions : Overruns(hello.extensions[i])

ParseClientHello(hello) ==
  IF ~Supported(hello) THEN [Blank EXCEPT !.Version = hello.version]
  ELSE LET first == [Blank EXCEPT !.Version = hello.version, !.CipherSuites = hello.ciphers,
                       !.AllExtensions = Types(hello)]
           parsed[k \in 0..Len(hello.extensions)] ==
             IF k = 0 THEN first ELSE parseRawExtension(parsed[k - 1], hello.extensions[k])
       IN parsed[Len(hello.extensions)]
=============================================================================
