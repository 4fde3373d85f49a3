-------------------------------- MODULE Routes --------------------------------
(***************************************************************************)
(* From a request to its answer: the table of paths, the handlers, and how *)
(* each of HTTP/1, HTTP/2 and HTTP/3 makes a response of what a handler    *)
(* returns.  A handler returns a body and a content type, and no status or *)
(* header: a redirect and cookies travel in the content type, as           *)
(* redirect:CODE:URL and set-cookies:A|B:TYPE, and are taken apart again.  *)
(*                                                                         *)
(* A request is a record                                                   *)
(*   [method, path, query, cookies, data, key]                             *)
(* with the query's keys and values in a sequence of pairs, the cookies it *)
(* sends, its body, and whether it has the header of the CORS key.  A path *)
(* [route, arg, more, escaped] is one of the registered ones, the number   *)
(* after it (NaN when it is none), whether something else follows them,    *)
(* and which of "route" and "arg" are sent with percent escapes, each in   *)
(* place of one letter or digit.  A text that is taken apart is the        *)
(* sequence of its pieces and separators; "CRLF" is a line break.          *)
(***************************************************************************)
EXTENDS Integers, Sequences, FiniteSets, SequencesExt

CONSTANTS
  KeyIsSet,     \* Config.CorsKey is not empty
  KeyIsLower,   \* it has no capital letter, as names in HTTP/2
  Decimal       \* what strconv.Itoa and %d write of a number

ASSUME RoutesAssumption == KeyIsSet \in BOOLEAN /\ KeyIsLower \in BOOLEAN

\* Of the numbers of redirects and the statuses.
ASSUME DecimalAssumption ==
  \A m \in 1..599 :
    /\ Decimal[m] \notin {":", "|"}
    /\ \A n \in 1..599 : Decimal[m] = Decimal[n] => m = n

NaN == -1
Http1 == "HTTP/1.1"
Http2 == "h2"
Http3 == "h3"

-----------------------------------------------------------------------------
(* The tables of paths                                                     *)

Searches == {"/api/search-ja3", "/api/search-ja4", "/api/search-ja4h", "/api/search-h2",
             "/api/search-peetprint", "/api/search-useragent"}

Pages == {"/", "/explore", "/docs"}

Images ==
  [path \in {"/image/jpeg", "/image/png", "/image/svg", "/image/gif", "/image/webp"} |->
     CASE path = "/image/jpeg" -> "image/jpeg"
       [] path = "/image/png" -> "image/png"
       [] path = "/image/svg" -> "image/svg+xml"
       [] path = "/image/gif" -> "image/gif"
       [] path = "/image/webp" -> "image/webp"]

Codings ==
  [path \in {"/gzip", "/deflate", "/brotli"} |->
     CASE path = "/gzip" -> "gzip"
       [] path = "/deflate" -> "deflate"
       [] path = "/brotli" -> "br"]

getHTTPBinPaths ==
  {"/get", "/post", "/put", "/patch", "/delete", "/anything", "/headers", "/ip",
   "/user-agent", "/cookies", "/cookies/set", "/cookies/delete", "/html", "/xml",
   "/json", "/robots.txt", "/deny"} \cup DOMAIN Codings \cup DOMAIN Images

getAllPaths ==
  Pages \cup {"/openapi.json", "/api/all", "/api/tls", "/api/clean", "/api/raw",
              "/api/sni", "/api/request-count"}
    \cup Searches \cup getHTTPBinPaths

getDynamicHTTPBinPaths ==
  {"/bytes/", "/base64/", "/redirect/", "/redirect-to", "/status/", "/delay/",
   "/sse", "/sse/", "/stream/", "/anything/"}

\* By the path without its escapes: the exact match, then any prefix; two that
\* match have one handler.
Dispatch(path) ==
  IF path.route \in getAllPaths /\ ~path.more THEN path.route
  ELSE IF path.route \in getDynamicHTTPBinPaths THEN path.route
  ELSE "404"

-----------------------------------------------------------------------------
(* What a handler is given                                                 *)

\* Of HTTP/1 and HTTP/2 the path as it was sent, with its escapes and the
\* query: a number with an escape, or right before the query, is none.  HTTP/3's
\* has no escapes any more.
RawArg(req, protocol) ==
  IF protocol # Http3
     /\ ("arg" \in req.path.escaped \/ (req.query # <<>> /\ ~req.path.more))
  THEN NaN ELSE req.path.arg

\* The query as the handler ranges over it: a map, in any order.
Orders(query) ==
  {[i \in DOMAIN query |-> query[f[i]]] : f \in Bijection(DOMAIN query, DOMAIN query)}

\* HTTP/3's path has no query, so neither have its parameters; it has no TLS
\* details, no headers and no body.
Response(req, protocol, params) ==
  [Protocol |-> protocol, Method |-> req.method, Page |-> Dispatch(req.path),
   Arg |-> RawArg(req, protocol),
   Params |-> IF protocol = Http3 THEN <<>> ELSE params,
   Cookies |-> IF protocol = Http3 THEN {} ELSE req.cookies,
   Data |-> IF protocol = Http2 THEN req.data ELSE "",
   TLS |-> protocol # Http3]

First(S) == CHOOSE i \in S : \A j \in S : i <= j

\* GetParam: the first value, and nothing for an empty one.
GetParam(key, params) ==
  LET places == {i \in DOMAIN params : params[i][1] = key} IN
    IF places = {} THEN <<>> ELSE params[First(places)][2]

\* The number in the path when it is within bounds, else the default.
Within(res, low, high, default) == IF res.Arg \in low..high THEN res.Arg ELSE default

-----------------------------------------------------------------------------
(* The handlers                                                            *)

Body(page) ==
  [page |-> page, n |-> NaN, tls |-> FALSE, args |-> {}, data |-> "", cookies |-> {},
   coding |-> "identity"]

NoBody == Body("none")

buildTLSFields(res) == [Body(res.Page) EXCEPT !.tls = res.TLS]
buildBaseResponse(res) == [buildTLSFields(res) EXCEPT !.args = ToSet(res.Params)]

Json == <<"application/json">>
Returns(body, ctype) == [panics |-> FALSE, body |-> body, ctype |-> ctype]
Panics == [panics |-> TRUE, body |-> NoBody, ctype |-> <<>>]

\* An address of this server, and the two directives.
Own(route, n) ==
  <<"https", ":", "//tlsfingerprint.com", route>> \o IF n = NaN THEN <<>> ELSE <<Decimal[n]>>
Directive(name, middle, last) == <<name, ":">> \o middle \o <<":">> \o last
RedirectDirective(code, url) == Directive("redirect", <<Decimal[code]>>, url)

\* Join(list, "|")
Joined(list) ==
  LET joined[i \in 0..Len(list)] ==
        IF i = 0 THEN <<>>
        ELSE IF i = 1 THEN list[1] ELSE joined[i - 1] \o <<"|">> \o list[i]
  IN joined[Len(list)]
CookieDirective(cookies) == Directive("set-cookies", Joined(cookies), Json)

Echo(res) ==
  Returns(IF res.Page \in {"/post", "/put", "/patch", "/anything", "/anything/"}
          THEN [buildBaseResponse(res) EXCEPT !.data = res.Data]
          ELSE buildBaseResponse(res), Json)

Compressed(res) ==
  Returns([buildBaseResponse(res) EXCEPT !.coding = Codings[res.Page]],
          <<"application/json; charset=utf-8">>)

httpbinCookies(res) == Returns([buildTLSFields(res) EXCEPT !.cookies = res.Cookies], Json)

httpbinCookiesSet(res) ==
  Returns([buildTLSFields(res) EXCEPT !.cookies = ToSet(res.Params)],
          IF res.Params = <<>> THEN Json
          ELSE CookieDirective([i \in DOMAIN res.Params |->
                                  <<res.Params[i][1], "=">> \o res.Params[i][2]]))

httpbinBytes(res) ==
  Returns(IF res.Method \in {"POST", "PUT"} /\ res.Data # ""
          THEN [Body(res.Page) EXCEPT !.data = res.Data]
          ELSE [Body(res.Page) EXCEPT !.n = Within(res, 1, 102400, 100)],
          <<"application/octet-stream">>)

\* NaN stands here for what is no base64.
httpbinBase64(res) ==
  IF res.Arg = NaN THEN Returns([Body(res.Page) EXCEPT !.data = "Invalid base64"], <<"text/plain">>)
  ELSE Returns([Body(res.Page) EXCEPT !.n = res.Arg], <<"text/html; charset=utf-8">>)

\* Mutant: the next address has the same number.
httpbinRedirect_Stuck(res) ==
  LET n == Within(res, 1, 10, 1) IN
    Returns(NoBody, RedirectDirective(302, IF n > 1 THEN Own("/redirect/", n) ELSE Own("/get", NaN)))

httpbinRedirect(res) ==
  LET n == Within(res, 1, 10, 1) IN
    Returns(NoBody, RedirectDirective(302,
                      IF n > 1 THEN Own("/redirect/", n - 1) ELSE Own("/get", NaN)))

\* A URL that begins with a slash is one of this server.
Relative(url) == Head(url) \in getAllPaths

httpbinRedirectTo(res) ==
  LET url == GetParam("url", res.Params)
      code == GetParam("status_code", res.Params)
      codes == {n \in 300..399 : code = <<Decimal[n]>>}
  IN Returns(NoBody, RedirectDirective(
       IF codes = {} THEN 302 ELSE CHOOSE n \in codes : TRUE,
       IF url = <<>> THEN Own("/get", NaN)
       ELSE IF Relative(url) THEN <<"https", ":", "//tlsfingerprint.com">> \o url
       ELSE url))

httpbinStatus(res) ==
  Returns([buildTLSFields(res) EXCEPT !.n = Within(res, 100, 599, 200)], Json)

httpbinDelay(res) == Returns([buildBaseResponse(res) EXCEPT !.n = Within(res, 1, 10, 1)], Json)

\* /html, /xml and /api/raw read the TLS details without a look at them.
ReadsTLS(res, ctype) == IF res.TLS THEN Returns(buildTLSFields(res), ctype) ELSE Panics

\* The name is looked for in maps, and what the parser makes are structs.
apiSNI(res) == Returns([Body(res.Page) EXCEPT !.data = ""], Json)

Counted(res, ctype) ==
  Returns([buildTLSFields(res) EXCEPT !.n = Within(res, 1, 100, 3)], ctype)

\* /api/search-...: by= must be there; what it finds is Requests' to say.
Search(res, connected) ==
  Returns([Body(res.Page) EXCEPT !.data =
             IF ~connected THEN "not connected"
             ELSE IF GetParam("by", res.Params) = <<>> THEN "no by" ELSE "found"], Json)

\* GetTotalRequestCount
Total(connected, count) == IF connected THEN count ELSE 999

requestCount(res, connected, count) ==
  Returns(IF connected THEN [Body(res.Page) EXCEPT !.n = count]
          ELSE [Body(res.Page) EXCEPT !.data = "not connected"], Json)

Handle(res, connected, count) ==
  LET page == res.Page IN
    CASE page = "404" ->
           Returns([Body(page) EXCEPT !.n = Total(connected, count)], <<"text/html">>)
      [] page \in Pages -> Returns(Body(page), <<"text/html">>)
      [] page \in Searches -> Search(res, connected)
      [] page = "/api/request-count" -> requestCount(res, connected, count)
      [] page \in {"/get", "/post", "/put", "/patch", "/delete", "/anything", "/anything/"} ->
           Echo(res)
      [] page \in {"/headers", "/ip", "/user-agent", "/json", "/cookies/delete",
                   "/openapi.json", "/api/all", "/api/tls", "/api/clean"} ->
           Returns(buildTLSFields(res), Json)
      [] page = "/api/sni" -> apiSNI(res)
      [] page \in DOMAIN Codings -> Compressed(res)
      [] page = "/cookies" -> httpbinCookies(res)
      [] page = "/cookies/set" -> httpbinCookiesSet(res)
      [] page \in DOMAIN Images -> Returns(Body(page), <<Images[page]>>)
      [] page = "/html" -> ReadsTLS(res, <<"text/html; charset=utf-8">>)
      [] page = "/xml" -> ReadsTLS(res, <<"application/xml">>)
      [] page = "/api/raw" -> ReadsTLS(res, Json)
      [] page \in {"/robots.txt", "/deny"} -> Returns(Body(page), <<"text/plain">>)
      [] page = "/bytes/" -> httpbinBytes(res)
      [] page = "/base64/" -> httpbinBase64(res)
      [] page = "/redirect/" -> httpbinRedirect(res)
      [] page = "/redirect-to" -> httpbinRedirectTo(res)
      [] page = "/status/" -> httpbinStatus(res)
      [] page = "/delay/" -> httpbinDelay(res)
      [] page \in {"/sse", "/sse/"} -> Counted(res, <<"text/event-stream">>)
      [] page = "/stream/" -> Counted(res, Json)

-----------------------------------------------------------------------------
(* From what a handler returned to a response                              *)

\* SplitN(text, ":", 3): the last part has the colons that are left.
Colons(text) == {i \in DOMAIN text : text[i] = ":"}
SplitN(text) ==
  LET i == First(Colons(text))
      j == First(Colons(text) \ {i})
  IN <<SubSeq(text, 1, i - 1), SubSeq(text, i + 1, j - 1), SubSeq(text, j + 1, Len(text))>>

Atoi(text) == CHOOSE n \in 100..599 : text = <<Decimal[n]>>

\* Split(text, "|")
PutPiece(parts, piece) ==
  IF piece = "|" THEN Append(parts, <<>>)
  ELSE [parts EXCEPT ![Len(parts)] = Append(@, piece)]
SplitBars(text) ==
  LET parts[i \in 0..Len(text)] ==
        IF i = 0 THEN <<<<>>>> ELSE PutPiece(parts[i - 1], text[i])
  IN parts[Len(text)]

IsRedirect(ctype) == ctype[1] = "redirect"
SetsCookies(ctype) == ctype[1] = "set-cookies"

\* The part that all three have alike.
AsReturned(result, status) ==
  [status |-> status, type |-> result.ctype, location |-> <<>>, cookies |-> <<>>,
   coding |-> "identity", cors |-> FALSE, body |-> result.body]

Redirected(result, status) ==
  LET parts == SplitN(result.ctype) IN
    [AsReturned(result, Atoi(parts[2])) EXCEPT !.location = parts[3], !.body = NoBody,
       !.type = <<"text/html; charset=utf-8">>]

WithCookies(result, status) ==
  LET parts == SplitN(result.ctype) IN
    [AsReturned(result, status) EXCEPT !.cookies = SplitBars(parts[2]), !.type = parts[3]]

Directed(result, status) ==
  IF IsRedirect(result.ctype) THEN Redirected(result, status)
  ELSE IF SetsCookies(result.ctype) THEN WithCookies(result, status)
  ELSE AsReturned(result, status)

\* What a prefix of the path as it was sent can be.
RawRoute(path) == IF "route" \in path.escaped THEN "escaped" ELSE path.route

\* Mutant: any number is a status.
extractStatusCode_Any(req) ==
  LET arg == RawArg(req, Http1) IN
    IF RawRoute(req.path) = "/status/" /\ arg # NaN THEN arg ELSE 200

extractStatusCode(req) ==
  LET arg == RawArg(req, Http1) IN
    IF RawRoute(req.path) = "/status/" /\ arg \in 100..599 THEN arg ELSE 200

\* Whatever has answered it.
ContentEncoding(req) ==
  IF RawRoute(req.path) \in DOMAIN Codings THEN Codings[RawRoute(req.path)] ELSE "identity"

\* The text before the first of some separators.
Upto(text, stops) ==
  SubSeq(text, 1, First({i \in DOMAIN text : text[i] \in stops} \cup {Len(text) + 1}) - 1)

\* A header of HTTP/1 ends with its line.
Line(text) == Upto(text, {"CRLF"})
Lines(texts) == [i \in DOMAIN texts |-> Line(texts[i])]

\* Behind the content type, also where one is there already.
Charset == "; charset=utf-8"

TypeLine(type) == Line(Append(type, Charset))
WrittenOut(a) ==
  [a EXCEPT !.type = TypeLine(@), !.location = Line(@), !.cookies = Lines(@)]

\* HTTP/1 does not ask the router for OPTIONS, and allows CORS.
respondToHTTP1(req, result) ==
  LET routed == IF req.method = "OPTIONS" THEN Returns(NoBody, <<"text/plain">>) ELSE result
  IN [WrittenOut(Directed(routed, extractStatusCode(req))) EXCEPT
       !.coding = ContentEncoding(req),
       !.cors = req.method = "OPTIONS" \/ (KeyIsSet /\ req.key)]

\* Mutant: the status is the router's, which has none.
sendResponse_NoStatus(req, result) ==
  [Directed(result, 200) EXCEPT
     !.coding = ContentEncoding(req),
     !.cors = KeyIsSet /\ (req.method = "OPTIONS" \/ (req.key /\ KeyIsLower))]

\* HTTP/2 has its headers in small letters, and compares them with the key.
sendResponse(req, result) ==
  [Directed(result, extractStatusCode(req)) EXCEPT
     !.coding = ContentEncoding(req),
     !.cors = KeyIsSet /\ (req.method = "OPTIONS" \/ (req.key /\ KeyIsLower))]

\* HTTP/3 sets the status of a redirect only, and labels no compression; a
\* redirect of it has no content type.
HandleHTTP3(req, result) ==
  IF IsRedirect(result.ctype)
  THEN [Redirected(result, 200) EXCEPT !.type = <<"none">>]
  ELSE Directed(result, 200)

Respond(req, protocol, result) ==
  CASE protocol = Http1 -> respondToHTTP1(req, result)
    [] protocol = Http2 -> sendResponse(req, result)
    [] protocol = Http3 -> HandleHTTP3(req, result)
=============================================================================
