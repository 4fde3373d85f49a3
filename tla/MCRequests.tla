------------------------------- MODULE MCRequests -------------------------------
(***************************************************************************)
(* TLC's instance of Requests.                                             *)
(***************************************************************************)
EXTENDS Requests, TLC

DecimalNumbers == [n \in 1..599 |-> ToString(n)]

\* An extension that is as long as it says, behind its length.
Lead(type) ==
  IF type \in {10, 13, 16, 34, 50, 51, 53} \cup Settings THEN 2
  ELSE IF type \in {11, 27, 43, 45} THEN 1 ELSE 0
Raw(type, items, length, data) ==
  [type |-> type, items |-> items, length |-> length, data |-> data]
List(type, items) == Raw(type, items, Size(items), Lead(type) + Size(items))

Words(values) == [i \in DOMAIN values |-> Item(values[i], 2)]
Bytes(values) == [i \in DOMAIN values |-> Item(values[i], 1)]

\* A browser with every list, its extensions in the given order and with the
\* given GREASE value.
BrowserExtensions(g) ==
  <<List(g, <<>>),
    List(SNI, <<Item("a.example", 14)>>),
    List(10, Words(<<g, 29, 23>>)),
    List(11, Bytes(<<0>>)),
    List(13, Words(<<1027, 2052>>)),
    List(ALPN, <<Item("h2", 3), Item("http/1.1", 9)>>),
    List(27, Words(<<2>>)),
    List(43, Words(<<g, 772, 771>>)),
    List(45, Bytes(<<1>>)),
    List(51, <<Item(g, 5), Item(29, 36)>>),
    List(17513, <<Item("h2", 3)>>),
    List(Padding, <<Item("zeros", 8)>>)>>

Browser(g, order) ==
  [version |-> 771, ciphers |-> <<g, 4865, 49195>>,
   extensions |-> [i \in 1..12 |-> BrowserExtensions(g)[order[i]]]]

InOrder == [i \in 1..12 |-> i]
Backwards == [i \in 1..12 |-> 13 - i]
LastFirst == [i \in 1..12 |-> IF i = 1 THEN 12 ELSE i - 1]

\* One of everything else: lists of one, an extension that only its number in
\* hex makes one of signature algorithms, a protocol of one letter.
Tool ==
  [version |-> 771, ciphers |-> <<4865>>,
   extensions |-> <<List(10, Words(<<29>>)), List(13, Words(<<1027>>)),
                    List(53, Words(<<2052>>)), List(50, Words(<<2053>>)),
                    List(34, Words(<<1027, 1283>>)), List(45, Bytes(<<1, 0>>)),
                    List(16, <<Item("x", 2)>>), List(17613, <<Item("h2", 3), Item("x", 2)>>),
                    List(11, Bytes(<<0, 1, 2>>)), List(43, Words(<<772>>))>>]

\* Extensions that the library leaves alone and that are not as long as they
\* say: empty, cut off, of an odd length, with something behind their list.
IllFormed ==
  {Raw(27, <<>>, 0, 0), Raw(27, Words(<<2>>), 3, 3), Raw(27, Words(<<2, 1>>), 3, 5),
   Raw(34, <<>>, 0, 1), Raw(34, <<>>, 2, 2), Raw(34, Words(<<1027>>), 0, 4),
   Raw(53, <<>>, 0, 0), Raw(53, Words(<<2052>>), 3, 5), Raw(53, Words(<<2052>>), 4, 5),
   Raw(17, <<>>, 0, 2), Raw(17, <<>>, 0, 3),
   Raw(17513, <<>>, 0, 0), Raw(17513, <<Item("h2", 3)>>, 6, 7),
   Raw(17513, <<Item("h2", 3)>>, 6, 8), Raw(17613, <<Item("h2", 3), Item("x", 2)>>, 4, 7)}

Misshapen(ext) ==
  [version |-> 771, ciphers |-> <<4865>>, extensions |-> <<List(10, Words(<<29>>)), ext>>]

Sparse == [version |-> 771, ciphers |-> <<2570>>, extensions |-> <<List(23, <<>>)>>]
Bare == [version |-> 771, ciphers |-> <<47>>, extensions |-> <<>>]
Old == [version |-> 769, ciphers |-> <<47>>, extensions |-> <<>>]

Address(ip, port) == [ip |-> ip, port |-> port, v6 |-> FALSE]
Address6(ip, port) == [ip |-> ip, port |-> port, v6 |-> TRUE]

ClientOf(browser, hello, addr, agent) ==
  [browser |-> browser, hello |-> hello, negotiated |-> 772, addr |-> addr,
   agent |-> agent, spaced |-> TRUE, akamai |-> browser]

Mozilla == <<"Mozilla">>
Curl == <<"Curl">>

Chrome == ClientOf("chrome", Browser(2570, InOrder), Address("A", 1), Mozilla)

Seconds ==
  {ClientOf("chrome", Browser(6682, Backwards), Address("A", 2), Mozilla),
   ClientOf("chrome", Browser(64250, InOrder), Address("A", 1), <<"App", "+", "1">>),
   ClientOf("chrome", Browser(2570, LastFirst), Address("B", 1), <<"App", "%20", "1">>),
   ClientOf("tool", Tool, Address("A", 1), <<"Tool", ": ", "1">>),
   ClientOf("sparse", Sparse, Address6("C", 1), <<"Mozilla", ":", "109">>),
   [ClientOf("sparse", Sparse, Address6("C", 1), Curl) EXCEPT !.spaced = FALSE],
   ClientOf("bare", Bare, Address("B", 1), Curl),
   ClientOf("old", Old, Address("B", 1), Curl)}

Plainly(path) ==
  [method |-> "GET", path |-> path, query |-> <<>>, cookies |-> {}, data |-> "", key |-> FALSE]

Sniffing == [LogToDB |-> FALSE, connected |-> FALSE, LogIPs |-> FALSE, Device |-> TRUE]
Logging == [LogToDB |-> TRUE, connected |-> TRUE, LogIPs |-> TRUE, Device |-> FALSE]
Quiet == [Sniffing EXCEPT !.Device = FALSE, !.connected = TRUE]

Scenario(second, config, request, p1, p2) ==
  [clients |-> <<Chrome, second>>, config |-> config, req |-> request, protocols |-> <<p1, p2>>]

\* Every client beside the first, over every protocol, with and without a log.
Fingerprinted ==
  {Scenario(second, config, Plainly(PathTo("/api/clean", NaN)), p1, p2) :
     second \in Seconds, config \in {Sniffing, Logging, [Logging EXCEPT !.Device = TRUE]},
     p1 \in {Http1, Http2}, p2 \in {Http1, Http2, Http3}}

Unread ==
  {[clients |-> <<ClientOf("odd", Misshapen(ext), Address("B", 1), Curl), Chrome>>,
    config |-> Quiet, req |-> Plainly(PathTo("/api/clean", NaN)), protocols |-> <<p, Http2>>] :
     ext \in IllFormed, p \in {Http1, Http2}}

\* Requests of every route, with numbers within their bounds and not.
Numbered ==
  {Plainly(PathTo(route, arg)) :
     route \in {"/bytes/", "/base64/", "/redirect/", "/status/", "/delay/", "/sse/", "/stream/"},
     arg \in {NaN, 0, 1, 2, 11, 99, 100, 404, 600}}

Exact == {Plainly(PathTo(route, NaN)) :
            route \in getAllPaths \cup {"/sse", "/redirect-to", "/elsewhere", "/favicon.ico"}}
Longer == {[Plainly(PathTo(route, NaN)) EXCEPT !.path.more = TRUE] :
             route \in {"/gzip", "/sse", "/redirect-to", "/ip", "/favicon.ico"}}
Escaped ==
  {[Plainly(PathTo(route, arg)) EXCEPT !.path.escaped = escaped] :
     route \in {"/status/", "/redirect/", "/gzip", "/favicon.ico"}, arg \in {NaN, 2, 404},
     escaped \in {{"route"}, {"arg"}, {"route", "arg"}}}
Asked(route, arg, query) == [Plainly(PathTo(route, arg)) EXCEPT !.query = query]

WithQuery ==
  {Asked("/status/", 404, <<<<"x", <<"1">>>>>>), Asked("/redirect/", 2, <<<<"x", <<"1">>>>>>),
   [Asked("/status/", 404, <<<<"x", <<"1">>>>>>) EXCEPT !.path.more = TRUE],
   [Asked("/redirect/", 2, <<<<"x", <<"1">>>>>>) EXCEPT !.path.more = TRUE],
   Asked("/gzip", NaN, <<<<"x", <<"1">>>>>>), Asked("/get", NaN, <<<<"x", <<"1">>>>>>),
   Asked("/redirect-to", NaN, <<<<"url", <<"/get">>>>, <<"status_code", <<"307">>>>>>),
   Asked("/redirect-to", NaN, <<<<"url", <<"http", ":", "//b.example", ":", "81">>>>>>),
   Asked("/redirect-to", NaN, <<<<"url", <<"/get">>>>, <<"status_code", <<"200">>>>>>),
   Asked("/redirect-to", NaN, <<<<"url", <<"http", ":", "//b.example", "CRLF">>>>>>),
   Asked("/api/search-ja3", NaN, <<<<"by", <<"v">>>>>>),
   Asked("/cookies/set", NaN, <<<<"a", <<"1">>>>>>),
   Asked("/cookies/set", NaN, <<<<"a", <<"1">>>>, <<"b", <<"2">>>>>>),
   Asked("/cookies/set", NaN, <<<<"a", <<"1", ":", "2">>>>>>),
   Asked("/cookies/set", NaN, <<<<"a", <<"1", "|", "2">>>>>>),
   Asked("/cookies/set", NaN, <<<<"a", <<"1", "CRLF", "2">>>>>>),
   Asked("/cookies/set", NaN, <<<<"a", <<"1", ":", "CRLF", "2">>>>>>),
   Asked("/cookies/set", NaN, <<<<"a", <<"1", ":", "redirect">>>>>>)}

Special ==
  {[Plainly(PathTo("/cookies", NaN)) EXCEPT !.cookies = {<<"a", "1">>}],
   [Plainly(PathTo("/get", NaN)) EXCEPT !.method = "OPTIONS"],
   [Plainly(PathTo("/gzip", NaN)) EXCEPT !.method = "OPTIONS"],
   [Plainly(PathTo("/status/", 404)) EXCEPT !.method = "OPTIONS", !.key = TRUE],
   [Plainly(PathTo("/get", NaN)) EXCEPT !.key = TRUE]}
  \cup {[Plainly(PathTo(route, arg)) EXCEPT !.method = "POST", !.data = "bytes"] :
          route \in {"/post", "/bytes/", "/anything/", "/get"}, arg \in {NaN}}

Named == [version |-> 771, ciphers |-> <<4865>>, extensions |-> <<List(SNI, <<Item("a.example", 14)>>)>>]
NamedAt(port) == ClientOf("named", Named, Address("A", port), Curl)

\* The sniffer and the log have no part in these.
Answering ==
  {[clients |-> <<NamedAt(1), NamedAt(2)>>, config |-> Quiet, req |-> request, protocols |-> p] :
     request \in Numbered \cup Exact \cup Longer \cup Escaped \cup WithQuery \cup Special,
     p \in {<<Http1, Http2>>, <<Http2, Http3>>}}

AllScenarios == Fingerprinted \cup Unread \cup Answering
=============================================================================
