----------------------------- MODULE TlsFingerprint -----------------------------
(***************************************************************************)
(* The fingerprints of a parsed ClientHello: JA3, PeetPrint, and JA4 in    *)
(* its two ways, from the hello itself and, the older one, from the text   *)
(* of the other two.  A text of numbers with separators is the sequence of *)
(* the numbers, and a hash stands for what it is the hash of.              *)
(***************************************************************************)
EXTENDS ClientHello, FiniteSets

SNI == 0
ALPN == 16
Padding == 21

\* The text GREASE, where PeetPrint has it for a number.
GREASE == -1

\* The values in their order but for those of a set.
Unless(v, S) == IF v \in S THEN <<>> ELSE <<v>>
Without(values, S) ==
  LET kept[k \in 0..Len(values)] ==
        IF k = 0 THEN <<>> ELSE kept[k - 1] \o Unless(values[k], S)
  IN kept[Len(values)]

\* At each place the value that fewer than so many are below, and at least as
\* many not above.
Sorted(values) ==
  [k \in DOMAIN values |->
     CHOOSE v \in ToSet(values) :
       /\ Cardinality({i \in DOMAIN values : values[i] < v}) < k
       /\ Cardinality({i \in DOMAIN values : values[i] <= v}) >= k]

Plain(values) == Without(values, GreaseValues)
PlainCurves(curves) == Without(curves, GreaseValues \cup {GreaseCurve})
Marked(values) == Replaced(values, GREASE)
Cap(n) == IF n > 99 THEN 99 ELSE n

-----------------------------------------------------------------------------
(* JA3 and PeetPrint                                                       *)

CalculateJA3(ch) ==
  [version |-> ch.Version, ciphers |-> Plain(ch.CipherSuites),
   extensions |-> Plain(ch.AllExtensions), curves |-> PlainCurves(ch.SupportedCurves),
   points |-> ch.SupportedPoints]

HttpVersion(p) ==
  CASE p = "h2" -> "2" [] p = "http/1.1" -> "1.1" [] p = "http/1.0" -> "1.0" [] OTHER -> ""

\* Mutant: the extensions as they came, in the order the browser has drawn.
CalculatePeetPrint_Unsorted(ch) ==
  [versions |-> ch.SupportedTLSVersions,
   protos |-> Without([i \in DOMAIN ch.SupportedProtocols |->
                         HttpVersion(ch.SupportedProtocols[i])], {""}),
   groups |-> [i \in DOMAIN ch.SupportedCurves |->
                 IF ch.SupportedCurves[i] = GreaseCurve THEN GREASE ELSE ch.SupportedCurves[i]],
   sigAlgs |-> ch.SignatureAlgorithms, mode |-> ch.PSKKeyExchangeMode,
   compression |-> ch.CertCompressionAlgorithms, suites |-> Marked(ch.CipherSuites),
   extensions |-> Marked(ch.AllExtensions)]

\* Extensions are sorted: as decimal texts, here as numbers.
CalculatePeetPrint(ch) ==
  [versions |-> ch.SupportedTLSVersions,
   protos |-> Without([i \in DOMAIN ch.SupportedProtocols |->
                         HttpVersion(ch.SupportedProtocols[i])], {""}),
   groups |-> [i \in DOMAIN ch.SupportedCurves |->
                 IF ch.SupportedCurves[i] = GreaseCurve THEN GREASE ELSE ch.SupportedCurves[i]],
   sigAlgs |-> ch.SignatureAlgorithms, mode |-> ch.PSKKeyExchangeMode,
   compression |-> ch.CertCompressionAlgorithms, suites |-> Marked(ch.CipherSuites),
   extensions |-> Sorted(Marked(ch.AllExtensions))]

-----------------------------------------------------------------------------
(* JA4 from the hello                                                      *)

\* The names of protocols that have no place in the mapping are cut to their
\* first and last letters: of http/1.1 this is h1 again.
FirstALPN(protocols) ==
  IF protocols = <<>> THEN "00"
  ELSE CASE Head(protocols) \in {"h2", "h3"} -> Head(protocols)
         [] Head(protocols) = "http/1.1" -> "h1"
         [] Head(protocols) = "http/1.0" -> "h0"
         [] OTHER -> "other"

\* detectSNI asserts types that the parser never makes: d, whatever the name.
detectSNI(ch) == "d"

ja4a_direct(ch, negotiated) ==
  [version |-> negotiated, sni |-> detectSNI(ch),
   suites |-> Cap(Len(Plain(ch.CipherSuites))),
   extensions |-> Cap(Len(Without(Plain(ch.AllExtensions), {SNI, ALPN}))),
   alpn |-> FirstALPN(ch.SupportedProtocols)]

ja4c_direct(ch) ==
  [extensions |-> Sorted(Without(Plain(ch.AllExtensions), {SNI, ALPN, Padding})),
   sigAlgs |-> ch.SignatureAlgorithms]

CalculateJa4Direct(ch, negotiated) ==
  [a |-> ja4a_direct(ch, negotiated), b |-> Sorted(Plain(ch.CipherSuites)),
   c |-> ja4c_direct(ch)]

-----------------------------------------------------------------------------
(* JA4 from the texts of JA3 and PeetPrint                                 *)

\* strings.Split of an empty text is one empty text, and Atoi makes it 0.
Split(list) == IF list = <<>> THEN <<0>> ELSE list

LegacyALPN(protos) ==
  IF protos = <<>> THEN "" ELSE IF Head(protos) = "2" THEN "h2" ELSE "h1"

\* The server name, the protocols and padding stay out; the 0 of an empty
\* list of extensions does, being the number of the server name.
ja4c(tls) ==
  [extensions |-> Sorted(Without(Split(tls.JA3.extensions), {SNI, ALPN, Padding})),
   sigAlgs |-> Split(tls.PeetPrint.sigAlgs)]

\* The counts are those of JA3's lists, so server name and protocols are in.
ja4a(tls) ==
  [version |-> tls.NegotiatedVersion, sni |-> "d",
   suites |-> Cap(Len(Split(tls.JA3.ciphers))),
   extensions |-> Cap(Len(Split(tls.JA3.extensions))),
   alpn |-> LegacyALPN(tls.PeetPrint.protos)]

CalculateJa4(tls) ==
  [a |-> ja4a(tls), b |-> Sorted(Split(tls.JA3.ciphers)), c |-> ja4c(tls)]

-----------------------------------------------------------------------------
\* The TLSDetails that HandleTLSConnection makes; JA4H is the request's.
TLSDetails(hello, negotiated) ==
  LET ch == ParseClientHello(hello)
      ja3 == CalculateJA3(ch)
  IN [JA3 |-> ja3, PeetPrint |-> CalculatePeetPrint(ch),
      JA4 |-> CalculateJa4Direct(ch, negotiated), NegotiatedVersion |-> negotiated,
      Extensions |-> ch.Extensions]
=============================================================================
