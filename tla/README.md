# Verification of tlsfingerprint.com

The server in this repository accepts TLS connections, answers HTTP/1, HTTP/2
and HTTP/3 requests on them, and tells each client how it looks: its TLS
ClientHello, its HTTP/2 frames, its headers. This directory holds TLA+ models
of its core, the TLC configurations that check them on small instances, and
proofs that TLAPS checks for every value of their constants.

Source paths below are relative to the repository's root; `CS` is
`pkg/server/connection_state.go`, `CH` is `pkg/server/connection_handler.go`.

## 1. Inventory

### 1.1 Components

| component | code | state it keeps | operations |
|---|---|---|---|
| accept loop and supervisor | `cmd/main.go` | a goroutine and a 15 s timer per connection; the file of blocked addresses | accept, refuse a blocked address, run the handler under the timer, close the connection when it fails or is late, recover |
| connection entry | `CH:86-165` | the TLS details of the connection | read the preamble, fingerprint the ClientHello, choose HTTP/2 or HTTP/1 |
| HTTP/1 | `CH:49-84`, `CH:167-270` | none after the response | parse, route, write, close |
| HTTP/2 connection | `CS`, `CH:273-300` | the stream map, each stream's channel and frames, the frames of the connection, `lastStreamID`, `lastActivity`, `closing`, the framer and its lock, the HPACK decoder | read a frame, handle a request, answer, tick, shut down |
| HTTP/3 | `CH:302-395`, `websocket.go` | none of its own | route, write; echo |
| router and routes | `router.go`, `routes.go`, `routes_httpbin.go` | none (reads the server's) | match a path, build a body and a content type that may carry directives |
| fingerprints | `pkg/http`, `pkg/tls` | none | ClientHello parser, JA3, PeetPrint, JA4, JA4H, Akamai |
| TCP sniffer | `pkg/tcp/tcp.go` | `TCPFingerprints`, shared with the router | store the details of each packet by source address |
| request log | `database.go` | a MongoDB collection | save a request, query and rank |
| utilities | `pkg/utils` | none | split a body, rank counts, flags, hashes, blocked addresses |
| configuration, names, pages | `types`, `server.go`, `static` | read at start | none |

### 1.2 How they interact

`main` starts one goroutine per accepted connection. It calls
`timeoutHandleTLSConnection`, which starts a second one for
`HandleTLSConnection` and waits for its result, on an unbuffered channel, or
for 15 seconds. In HTTP/2 that second goroutine becomes the *reader*
(`processFrames`), having started a third, the *idle loop*; the reader starts
one goroutine per HEADERS frame (`handleRequest`). These share:

* `c.streams`, under `streamsMu`; looked up anew, by id, by nearly every step;
* each stream's `response` channel, sent to by the reader, received from by the
  request, closed by either (`stream.mu` guards the close and not the send);
* `c.framer`, whose writes are under `writeMu`, the first SETTINGS apart;
* `c.closing`, under `closeMu`: which loop shuts down;
* `c.connectionFrames`, `stream.frames`, `c.lastActivity`, `c.lastStreamID` and
  the `TLSDetails` behind `c.tlsFingerprint`, under nothing that covers both
  their writers and their readers.

A request reads the connection's and its stream's frames, computes its
fingerprints, and calls `Router`. That looks the sniffer's map up by the remote
address, replaces the JA4 in the TLS details, saves the request when the log is
on, matches the path and calls its handler. A handler returns bytes and a content
type and nothing else: a redirect or a cookie is written into the content type,
and each of the three protocols takes it out again, in code of its own. A
response leaves in HEADERS and DATA frames of up to 16 KiB, each of which takes
`writeMu` anew. Only the goroutine that ran
`timeoutHandleTLSConnection` has a `recover`: a panic in the reader, the idle
loop or a request ends the process.

### 1.3 What is hard

* Concurrency: two loops that may both shut down, any number of requests on one
  framer, channels closed from two sides, data read with no lock.
* Ordering: DATA after END_STREAM, frames between the start of a request's
  goroutine and its first step, GOAWAY before or after the last HEADERS.
* Time: five timers of 5, 5, 5, 15 and 30 seconds, polls and a route that
  sleeps, whose order decides who closes the connection.
* Failure: a peer that stops reading, resets, or sends what RFC 9113 forbids;
  writes that fail half way through a response; panics without a recover.

There is no persistence but the request log, and no retry: crash recovery is
not a subject here.

### 1.4 What makes each part correct

* *HTTP/2 connection*: one writer in the framer; no response lost but with the
  connection; no channel closed twice or sent on when closed; one GOAWAY, whose
  id covers what was started; a drain that waits for what is in flight; a map
  from which answered streams leave; an end to every goroutine.
* *Timers*: nothing of a connection outlives its deadline by more than a known
  time; which timer closes a connection, and what it drops.
* *Fingerprint snapshot*: a request reports frames of its own client and
  stream, in order, and its own JA4H.
* *Connection entry*: each accepted connection is closed by somebody, once the
  client is gone or late.
* *Router and directives*: what a route asks for (status, location, cookies)
  reaches the client, and the protocols that carry it agree.
* *Header blocks and bodies*: a request has the headers and the body its client
  sent, or it is known which are missing.
* *Parser and fingerprints*: no read outside the ClientHello; equal clients
  give equal fingerprints, and JA4 does not depend on extension order or GREASE.
* *Sniffer's map*: what a request reports is of its own TCP connection.
* *Request log*: what a client is shown finds its record, and a rank holds the
  most frequent.

`PROJECT.json` lists each hazard at its line, with the properties that cover it.

## 2. Plan

| order | module | of | state |
|---|---|---|---|
| 1 | `H2Connection`, `H2ConnectionProps` | the HTTP/2 connection: goroutines, map, channels, framer, shutdown | done, proved |
| 2 | `H2Service` | what it promises a client; refinement | done, proved |
| 3 | `H2Timers` | its clocks, with the supervisor's | done, proved |
| 4 | `H2Fingerprint` | the snapshot race, the shared TLS details, the Akamai selection | done, proved |
| 5 | `ConnectionEntry` | `cmd/main.go` and `HandleTLSConnection`: accept, block, short reads, HTTP/1, who closes | done, proved |
| 6 | `H2Headers` | the persistent and the fresh HPACK decoder, CONTINUATION | done, proved |
| 7 | `H2Body` | payloads that alias the framer's buffer, the channel's limit, the window | done, proved |
| 8 | `ClientHello` | the parser's loops | done, proved |
| 9 | `TlsFingerprint` | JA3, PeetPrint and JA4, in both its ways | done, proved |
| 10 | `Routes` | path matching, handlers, directives, the three protocols' responses | done |
| 11 | `Requests` | the composition of 8 to 10 with the sniffer's map and the request log | done, proved |

Composition: `H2Connection` implements `H2Service`; `ConnectionEntry` has
HTTP/2 as one label that ends when it likes and closes the connection, which is
what `H2Connection` is shown to do; `H2Body` is one request of `H2Connection`
with the bytes that its channel's count abstracts; `Requests` EXTENDS
`TlsFingerprint` (and with it `ClientHello`) and `Routes`.

"Proved" is of safety: every invariant that a run checks, and the refinement, is
a theorem; liveness is TLC's (6.1). What is left of the code is data: the text of
pages and JSON fields, the tables of names, the hash of JA4H.

## 3. The models and the code

### 3.1 H2Connection

One connection from `handleHTTP2` to the end of its last goroutine. Its
processes are the goroutines of 1.2: `pc["reader"]`, `pc["idle"]`, `hpc[n]` for
the request that frame `n` started, and `sup` for the supervisor. A step is
what one goroutine does between two points where another may see a difference:

* a section under `streamsMu`, `stream.mu` or `closeMu` is one step
  (`GetOrCreateStream`, `CloseStream`, `IdleFires`);
* `handleData` is three: look the stream up, send, close at END_STREAM, because
  it holds no lock between them;
* a write is two: take `writeMu`, write and release it, because a peer that does
  not read keeps the writer inside;
* `handleRequest`'s lookup of its stream, each receive and the body's end or
  timeout are steps of their own.

Frames are numbered as they are read, and the `HTTP2Stream` that frame `n`
creates is object `n`, so a stream id that is removed and made again is another
object: the code keeps pointers to streams across lookups by id, and the model
tells the two apart. A channel is a count of chunks and a flag; a body that is
larger than `ChanCap` loses chunks, as the `default` of `CS:283` makes it.

The client is the environment. With `Strict` FALSE it sends any frame on any
stream; with `Strict` TRUE only what RFC 9113, section 5.1 allows. It may reset
or close the connection at any time (`PeerReset`, `ReadGoAway`), and frames that
had arrived are still read afterwards. What ends `processFrames` (GOAWAY, end of
file, a malformed frame) is one action, since the code treats them alike.

A write or a read on a closed connection is told by `Gone`; the texts of errors, by
which the code's `isConnectionClosed` decides what it logs, are left out.

The clock is abstracted away: the idle test may hold at any tick at which the
map is empty, the body wait, the drain and the deadline may end at any time.
This has every behaviour the timers allow, and more; H2Timers has the timers.

A panic ends the process (`Running`): nothing takes a step after it.

### 3.2 H2Service

What a client is promised: a request accepted is answered, or dropped with the
connection; one GOAWAY at most, from a draining server. It has three variables
and no frames, map or goroutines. `H2ConnectionProps` maps H2Connection to it:
the phase from `panic`, `link` and `closing`, a request from `hpc` and
`answered`, GOAWAY from `goaways`.

### 3.3 H2Timers

The same life with a clock and without the interleavings: `now` advances by one
only when nothing is due, and what is due at one instant happens in any order.
A unit is 5 seconds in the configurations, so 15, 30, 5, 5, 5 and 10 seconds
are 3, 6, 1, 1, 1 and 2. The module does not fix them: its theorems hold for any
values. Whether there is a supervisor is a choice of the initial state
(`Supervised`): the code always starts one, and what the idle loop would do
alone is worth knowing because it never gets to do it. The client may reset the
connection at any time (`PeerReset`). `cutBy` and `cutAt`, `initiator` and `shutAt`,
`emptied`, `started` and `slept` are history.

The code and its design document disagree here. HTTP2_MULTIPLEXING_IMPLEMENTATION.md:71-75
draws a connection that is "persistent" and serves requests "until idle timeout or
GOAWAY". The supervisor closes each connection 15 seconds after its accept
(`cmd/main.go:106-111`), and `c.idleTimeout` is 30 seconds: no connection lasts until
its idle timeout. The theorem `DeadlineBeforeIdleTimeout` says so for every pair of
values that are in this order, and `DropsExplained` which responses this costs.

The poll of the drain (100 ms) is taken to see an empty map at once, and the
code between two timers to take no time.

### 3.4 H2Fingerprint

`append` to a slice that another goroutine reads is a data race. What the build
can produce is modelled: the new length is visible before the element
(`BeginAppend` adds a `Blank`, `Appended` fills it in), and each read of a slice
header sees either list whole. A `Blank` stands both for an element not yet
written and for what a torn header shows. `handleRequest`
reads the lists' lengths at lines 234, 235 and 236 in separate steps, and line
236's slice expression panics when the connection's list has outgrown what
line 234 made.

Frames come in any order: x/net's framer asks only that a header block in several
frames is not interrupted, and `processFrames` has no test of its own. So a request may
come before SETTINGS, and reports an empty part then, and a stream may have several
HEADERS frames, each of which starts a request.

`tls` is the `TLSDetails` behind `c.tlsFingerprint`; a JA4H is the request whose
method it hashes with the header frames it was computed from.

### 3.5 ConnectionEntry

Any number of connections, each its own address, from the client's connect to
the end of the goroutines that served it. `loop` is the accept loop, which
refuses a blocked address itself (`Refuse`: a Write, which first does the TLS
handshake, then Close); `outer[c]` is the goroutine that runs
`timeoutHandleTLSConnection` and closes the connection when that returns FALSE;
`inner[c]` is the one that runs `HandleTLSConnection`, with a label per call that
may block. A Read returns at most the rest of one TLS record, which is how
`utls.Conn` works and what the code's two Reads depend on; bytes are abstracted
to their number, and the first 24 of an HTTP/2 client are its preamble.

The client shakes hands when somebody reads from it or writes to it, and may
refuse the certificate (`Alert`, the error the code looks for when it is local),
break TLS off otherwise (`Misspeak`: another alert, or a record that is no good), end
its side, or reset; `Alert` and `Misspeak` also at any time after the handshake, as
TLS 1.3's clients see the certificate last. An alert that follows the last bytes may be
returned with them, and `HandleTLSConnection` then loses those. `HandleTLSConnection` has
four return statements, and the last stands for the early returns of
`respondToHTTP1` and `handleHTTP2`, which do not close; `verdict` is what it
returns.
A panic there ends the process: the `recover` of `main` is in another goroutine.
The one modelled is the nil `Http1` of `Route`. A panic of the ClientHello
parser is another, and is in `Requests`.

### 3.6 H2Headers

The header blocks of one connection, each encoded by a client with its own
dynamic table and read by the server, twice: by `c.hpackDecoder`, whose table
lasts, for the request, and by a decoder made in `convertFrame`, for
`stream.frames`, from which the fingerprint and `/headers` are made. A block is a
sequence of representations (an index, a literal that enters the table, one that
does not); fields of the static table are of the last kind. A block may be cut
anywhere and go on in CONTINUATION, which the reader's switch has no case for.
The table's limit is a number of fields. A decoder that fails half way keeps what
it had put into the table, as hpack's does.

After a split block the two tables differ, which is in the properties' conditions. A
block that refers to an earlier one has no headers in its frame: that contradicts
what the repository says of `/headers` and `/cookies`, and the run `find_headers`
shows it (4).

### 3.7 H2Body

One request's body: the client's window, the frames on their way into
`stream.frames` and into the channel, the request's wait, and the route that
echoes what it finds in its copy of the frames. `arrays` are the buffers the
framer has made; each of their bytes has the number of the frame that wrote it
last, so that a byte of the echo can be compared with the one that was sent.
`ReadInto` is the framer's: the last buffer is used again when it is large
enough. Frames of other streams overwrite it too (`ReadOther`). The timeout may
come at any time; that it is five seconds is H2Timers'.

The copy is made in steps, as lines 234 to 236 make it: both lengths, then what there
is room for, and only then the bytes one after another, each as it is by then. Of the
connection's list the module has how much it has grown since (`late`): a frame of stream
0 that comes during the copy pushes the last of the stream's frames out of it, so that the
echo is shorter though nothing timed out, and two can make the slice expression panic.

### 3.8 ClientHello and TlsFingerprint

Operators only. A hello is one that the TLS library has accepted (`IsHello`). The
library reads the extensions it knows, and so each of those is as long as it says
(`WellFormed`): the items of its list have one of the widths their kind can have
(`Width`), the list the length it claims, and all of it is there. What it does not
know (`Unknown`: status_request_v2, the compression of certificates, delegated
credentials, the number 53 and application_settings) it passes unread, and such an
extension may claim any length and have any number of bytes: `items` are those that are
wholly there, `length` is what the list claims, and `data` the bytes of the whole.

What can go wrong then is the parser's own arithmetic, in hex digits, with limits in
digits, bytes or items. `More` has for each extension the test by which its loop goes
on, `Taken` what the loop takes, and `Overruns` whether it would read beyond the data,
which is a panic: before the first item (`Ahead`) or after the last. Of a hello that is
`AllWellFormed` nothing overruns, which is proved. The parser goes over the extensions
one by one (`ParseClientHello`, a recursive function, as is `Without`), and writes 6969
for a GREASE curve and -1 for a GREASE version (`Replaced`): a curve that has the number
6969 itself is then left out of JA3 as GREASE is, which `ParsedWhole` allows for by
`PlainCurves`.

A fingerprint's text is the list of the numbers it is printed from, and a hash
stands for what it is of: both are equal when the lists are. JA4 has two
definitions, as in `ja4.go`: from the hello, and from the texts of JA3 and
PeetPrint. `strings.Split` of an empty text is one empty text (`Split`), which
the second counts as an extension. `Sorted` sorts numbers where the code sorts
texts, which is another order and equally canonical: it has at each place the value
that as many values are below.

### 3.9 Routes

From a request to a response: `Dispatch`, one operator per handler or group of
handlers that differ in text alone, and `respondToHTTP1`, `sendResponse`,
`HandleHTTP3`. A handler's result keeps what the properties tell apart: the page,
its number, whether TLS details are in it, arguments, cookies, the echoed body,
and the coding of its bytes. Texts that are taken apart (`redirect:302:https://`)
are sequences of pieces and separators, so that `SplitN` and `SplitBars` do what
`strings.SplitN` and `strings.Split` do. The three protocols differ in what they
give a handler: HTTP/3 has no TLS details, headers, query or body, and HTTP/1 no
body.

There are two paths. The Router parses the address and dispatches by the path without
its escapes and its query (`Dispatch`). The handlers' numbers (`RawArg`), the status
(`extractStatusCode`) and the content encoding (`ContentEncoding`) are taken from the
path that the response has, which over HTTP/1 and HTTP/2 is as it was sent, with both
(`RawRoute`), and over HTTP/3 is `r.URL.Path`, with neither. So `/%73tatus/404` says 404
in its body and 200 in its status, `/%67zip` is compressed and not labelled, and a number
right before a query or with an escape in it is none. An escape of the model stands for
one letter or digit of the route or of the number; escaped slashes and question marks,
and paths that `url.Parse` refuses, are left out.

HTTP/1 writes its headers as text (`WrittenOut`): "; charset=utf-8" behind every content
type, also where one is there already, and each header up to its first line break, which
a cookie or a location may have in it; what is behind the break is left out. HTTP/2
encodes the values as they are, and what HTTP/3's library makes of a break is not
modelled.

### 3.10 Requests

Two connections, each with its requests one after another, from the first packet to
the last answer. What the clients do is drawn in the initial state (`scenario`):
browsers and tools with their hellos, addresses, one request that both send,
protocols, and the settings of the server. What makes two clients one browser is
`DrawnAnew`: the one's hello has for each extension of the other its like, in any
order and with any GREASE values in the places of GREASE, none twice. The steps are
those between which the goroutines interleave: packets reach the sniffer or are lost,
the entry parses and fingerprints, the Router looks up and replaces JA4, `SaveRequest`
inserts, the handler answers. Over HTTP/2 another request of the connection may store
its JA4H in the details they share at any time between (`Overlap`; H2Fingerprint has
the whole of that race), and a request that follows a redirect may have lost its user
agent to the fresh decoder (3.6). `Connect` lets an address be used again only when
its TCP connection is closed, and QUIC has ports of its own. `TCPFingerprints` is
keyed as in the code: the sniffer writes an IPv6 address without brackets, and
`RemoteAddr` has them.

A user agent is a text of words and of what its readers cut or change it by. The one
shown by `/user-agent` is `parseHTTP1`'s, up to the next colon (`UserAgent`); the one
logged is `GetUserAgent`'s, of a header with a space after its colon, up to the next
colon with a space; and the one sought is unescaped twice (`QueryUnescape`). HTTP/2 has
the text whole for the first two, and HTTP/3 logs nothing.

The searches (`GetBy`) are operators on the log: what a search may return is a
set, since the code sorts with an unstable sort and cuts at ten.

### 3.11 What is the library's

`http2.Framer`, the `net.Conn`, mutexes, channels and `copy` are modelled from
how the code uses them. A write succeeds until the connection is gone, and the
mutex is a flag.

## 4. Runs

| run | asks | bounds |
|---|---|---|
| `conn` | With a client that sends anything, legal or not: does the framer stay exclusive, is no response lost and no channel closed twice, is every request in the map, is one GOAWAY sent, is the reader's drain sound? Does the connection implement the abstract service, and is the invariant of the proofs one? | 1 stream, 3 frames, channel of 1, body of 0 or 1 chunk |
| `conn_live` | Under the supervisor, bad header blocks included: does every goroutine end and every request settle, though the client may stop reading, and does the reader's GOAWAY cover the requests? | 2 streams, 2 frames, no body |
| `timers` | With the code's timers and a client that may reset: is all over in time, which responses are dropped and to what, and is a silent connection closed in time without the supervisor? | 2 requests, 9 units |
| `fingerprint` | What may a request's copy of the frames hold while the reader appends, in any order? | 2 streams, 2 requests, 4 frames; the streams are symmetric |
| `entry` | Is every accepted connection closed by somebody, is a message in one record read whole, do the goroutines end and the accept loop come back? | an HTTP/2 and an HTTP/1 client, preamble of 2, request of 3 |
| `headers` | Has each request the headers its client meant, and the fingerprint's copy these or none, when blocks refer to each other and may be split? | 3 blocks of 1 to 3 representations, 2 fields, a table of 2 |
| `body` | What do the wait, the copy and the echo make of a body when frames are dropped or come during the copy, buffers are used again and the window ends, and is it always answered? | 4 frames of 1 or 2 bytes, channel of 1, window of 3 |
| `requests` | Is a hello read whole, and which end the process; is one browser one record; whose packet is shown; does a search find what is shown; do the protocols agree; are the labels of an answer true; does a redirect end? | 2 connections, 526 scenarios, a search that tells 1 |

The other runs each show one thing the repository says and the code does not do;
`PROJECT.json` quotes the line under "findings":

| run | what happens |
|---|---|
| `find_send_on_closed` | DATA after END_STREAM, or one that races the end of its request, is sent on a closed channel: the process ends |
| `find_snapshot` | one frame on stream 0 during the copy drops the request's own last frame from its fingerprint (two make the slice expression panic, with no recover) |
| `find_headers` | the second request of a connection refers to a field of the first, and `/headers` and `/cookies` show it without any |
| `find_echo` | a frame read before a body is echoed overwrites it: `/bytes` and `/post` return bytes the client did not send there |

A fifth has no run, since the models have no bad state to reach: no connection lasts
until its idle timeout (3.3).

Other differences met while modelling are in the models as the code has them, and
in the properties as conditions:

* a stream made by WINDOW_UPDATE or PRIORITY never leaves the map, so the idle
  loop does not fire on its connection;
* the loop that comes second to a shutdown closes the connection while the first
  waits for its requests;
* a request with trailers is answered twice;
* of two requests at once one may report the JA4H of the other;
* after a header block in two frames the server's table is not the client's;
* a request that comes before the client's SETTINGS reports an empty SETTINGS part;
* a client that breaks TLS off between the two Reads of its HTTP/1 request is left on an
  open connection (`CH:143-146`);
* a frame of stream 0 during the copy of the lists cuts the end of an echoed body off;
* a ClientHello without extensions ends the process, and so does one with an extension
  of the `Unknown` that is shorter than the parser takes it to be;
* the Router's second JA4 counts server name and ALPN among the extensions, which
  the first does not (`ja4a`, `ja4a_direct`); both leave the order out;
* `/api/sni`, and the name's kind in JA4, look for maps or for another struct
  than the parser makes: the name is always empty and the kind always a domain;
* JA4 takes 53 for signature_algorithms_cert, which is 50;
* HTTP/1 calls its version HTTP/1.1, and the log tests for http/1.1: the H2 field
  of its records is empty where the client is shown `-`;
* a user agent is unescaped twice before it is searched for, and over HTTP/1 the one
  shown ends at a colon and the one logged at a colon with a space;
* `/status/404?x=1` is 200, and `/redirect/2?x=1` goes straight to `/get`, which the
  OpenAPI document (`routes_httpbin.go:1115`) does not say;
* a path with escapes is dispatched without them and labelled with them (3.9);
* a cookie with a colon, a bar or a line break in it changes the content type, is two
  cookies or ends its header;
* HTTP/1 has its charset behind every content type, images and bytes included;
* over HTTP/3 `/status` answers 200, a compressed body has no content encoding,
  `/html`, `/xml` and `/api/raw` panic in their handler, and so does every
  request when the log is on; no answer has a fingerprint and `/cookies` has no cookies,
  against the OpenAPI document (`routes_httpbin.go:808`, `:946`, `:971`): `AnswersAgree`
  compares with HTTP/3 only what that does have;
* over IPv6 no TCP details are found, the two keys being written differently.

### 4.1 Why the bounds are enough

The races of H2Connection need one stream on which three frames meet one
request: HEADERS, one that ends the body or the stream, and one that comes after.
Three frames of any kind contain every such triple, two requests on one stream
included: that is `conn`. A second stream matters for `lastStreamID` and for a drain
with something left to wait for, and two are enough to have a higher and a lower id:
that is `conn_live`, whose two frames are one request on each, or two on one.
A channel of capacity 1 is full after one chunk; one chunk of body distinguishes
the first, the last and no DATA frame.

Two requests in H2Timers are one before and one during a shutdown. Its horizon
of 9 units, 45 seconds, is beyond what any timer can set from an accept at 0
under the supervisor, and beyond the first tick that closes a silent connection
without it; the theorems are of every timeout.

The race of H2Fingerprint needs a HEADERS frame and one or two late frames of the
connection; four frames are also two requests, of one stream or of two, with a frame
of the connection before or after each.

In ConnectionEntry two connections are one that holds the accept loop, or ends
the process, and one that is affected; they touch each other nowhere else. A
preamble of 2 bytes is the shortest that can be split, and a request of 3 the
shortest that both Reads have a part of.

A table of 2 fields in H2Headers is full after two literals and evicts at the third;
three blocks are one that fills the table, one that refers to it or is split, and one
after. H2Body needs a body of more than one frame, one frame that fits into the buffer
of another and one that does not (sizes 1 and 2), and one after the body or during the
copy, of the connection or of another stream; a body of `Window + 1` bytes is the one
that cannot be sent.

In Requests two connections are enough for what one does to another: a port used
again, a record beside another's in the log, two orders of one browser, two
protocols. `Top` is 1 and not 10, so that two records make a cut. The hellos have
lists of one and of several items for each loop, GREASE in each place where it
may come, and three orders; the numbers of a path lie on both sides of each
bound. A request to be fingerprinted goes to `/api/clean`; every other route is
asked without sniffer and log, of which it depends on nothing. Each number is sent
with and without an escape, and so is each kind of route that a label looks for.
The hellos of `Unread` have for each extension of `Unknown` one that is empty, cut off,
of an odd length, or with bytes behind its list.

Deadlock is checked everywhere but in the `fingerprint` runs (the client stops
sending, and a panic ends the process), `entry` (the clients stop connecting),
`headers`, `body` and `requests` (what the client has to send is sent). H2Connection
has one `Stop` step, allowed only when all goroutines have ended or the process has: a
goroutine that waits for ever is a deadlock TLC reports. H2Timers' `Rest` is the end
of its horizon.

### 4.2 Fairness

`FairSpec` of H2Connection asks weak fairness of each goroutine and of the
supervisor: the Go scheduler runs what can run and timers fire. A mutex is
handed over, and with finitely many writes weak fairness is enough for it. A
goroutine inside a write is fair only once the connection is gone: a peer that
does not read keeps it there. Nothing is asked of the client.
The fairness of H2Service is what the connection is shown to give it
(`ImplementsFairService`). `FairSpec` of ConnectionEntry asks it of the accept
loop, of each supervisor, whose timer fires, and of each handler, except while
it writes to a client that may not read or serves HTTP/2. H2Body asks it of the request's
goroutine, whose timer fires, and nothing of the client. The others check safety
alone; in H2Timers time cannot pass what is due,
which makes its bounds statements about progress without fairness.

## 5. Properties

The safety properties of H2Connection, each in `H2ConnectionProps` with the code
it is about: `FramerExclusive`, `OneGoAway`, `NoSilentDrop`, `NoDoubleClose`,
`InFlightTracked`, `BodyWaitNotSkipped`, `DrainSound`, `GoAwayCovers`,
`AnsweredLeavesMap`. Three carry a condition the code needs: a request in flight
is missing from the map, or goes without its body's wait, or without a drain's,
only if its stream was ended by somebody else (`Superseded`: a reset, or the
answer to another HEADERS frame of the stream); and `DrainSound` and
`GoAwayCovers` are about the reader's shutdown, since the idle loop's is not the
last to touch the connection and the reader may start
requests above the id its GOAWAY named.

H2Timers: `OverInTime` (a bound on how long anything outlives the deadline),
`DropsExplained` (a lost response is put down to the client's reset, to the deadline
or a drain of full length that the request's own waits reached, or to the reader that
comes second to the idle loop's shutdown and closes at once), `IdleInTime`.
H2Fingerprint: `SnapshotPlaced`, `SteadyIsExact`, `OneClient`, `AloneReportsOwn`.
ConnectionEntry: `NobodyLeftOpen`, `StrandedIsClosed`, `OneRecordIsRead`,
`EveryoneEnds`, `LoopComesBack`; the last with the exception the code needs, a blocked
client that is silent in its handshake and holds the accept loop, as `NobodyLeftOpen`
has the client that broke TLS off between the two Reads.

H2Headers: `HeadersInSync` relates the two tables over the life of a connection,
`FrameHeadersOwnOrNone` the two decoders of one frame: never another request's headers
nor a part of its own, and all of them when the block refers to no earlier one. H2Body:
`HolesOnlyWhenFull`, `EchoKeepsLength`, `StalledIsAnswered`. Requests:
`ParsedWhole` (a loop's limit against the list it was written for, and which hellos end
the process),
`SameBrowserSameRecord` (which fingerprints an order or a GREASE value changes),
`TcpOfOwnAddress`, `ShownIsSearchable` (the details shown, the record written and
the search, which are three pieces of code), `AnswersAgree` (three
implementations of one thing, but for what they are known to do otherwise), `LabelsTrue`
(what the labels are made from against what the page is), `RedirectsEnd`.

Each property of a passing run has a mutant in `PROJECT.json`: a plausible error
in one definition, under which TLC finds the property violated.

## 6. Proofs

| module | theorems |
|---|---|
| `H2ConnectionProofs` | `TypeCorrect`, `Inductive`, and from it `FramerIsExclusive`, `GoAwayOnce`, `ResponsesAreSent`, `ChannelsCloseOnce`, `RequestsAreTracked`, `DrainWaits`, `GoAwayCoversRequests`, `AnsweredStreamsLeave`, `BodyIsAwaited`; `Implements`: H2Connection implements H2Service |
| `H2TimersProofs` | `TimersTypeCorrect`, `DeadlineBeforeIdleTimeout`, `EverythingIsOver`, `EveryDropIsExplained`, `IdleLoopIsInTime` |
| `H2FingerprintProofs` | `SnapshotsArePlaced`, `SteadySnapshotsAreExact`, `RequestsAloneReportTheirOwn`, `RequestsTellOneClient` |
| `ConnectionEntryProofs` | `EntryTypeCorrect`, `NobodyIsLeftOpen`, `StrandedAreClosed`, `OneRecordReadWhole` |
| `H2HeadersProofs` | `HeadersStayInSync`, `FrameHeadersAreOwnOrNone` |
| `H2BodyProofs` | `HolesAreKnown`, `EchoIsWhole` |
| `RequestsProofs` | `PacketOfOwnAddress`, `LoggedIsFound`, `RedirectsComeToAnEnd`, `LabelsAreTrue`, `AnswersAgreeAcrossProtocols`, `HellosAreReadWhole`, `BrowsersAreOneRecord` |
| `InductionLemmas` | induction over numbers, the existence of recursive functions, and sums, stated of sets; the other modules cite them |

They hold for any set of stream ids or connections, number of frames and chunks,
channel capacity, timeouts, lengths, scenarios, and either kind of client, from the
assumptions on the constants alone: `ConnAssumption`, `TimerAssumption`,
`FingerprintAssumption`, `EntryAssumption`, `HeadersAssumption`, `BodyAssumption` and
`RequestsAssumption` say what sort of value each is, and that a request's buffer is
longer than the preamble; `AddressAssumption`, that an IP address is of one family;
`RequestAssumption`, that a request has the fields Routes reads; `QueryAssumption`,
that its query is a list of names and texts with one text for each name;
`ProtocolAssumption`, that a connection speaks one of the three protocols;
`HelloAssumption`, that a hello is one the TLS library accepts, whatever extensions it
has, however many, and whatever is in those that the library passes unread;
`AgentAssumption`, that a user agent is a text; `BrowserAssumption`, that two
connections of one browser negotiate one version and draw their hellos anew, each as
long as it says; `DecimalAssumption`, that the texts of two numbers differ and have no
separator in them (`Decimal` is a constant for what `strconv.Itoa` and `%d` write).

*The connection.* No property but `TypeOK` is inductive by itself. `IInv` adds:
that nothing else exists while SETTINGS is written (`StartInv`), which is why the
one write without the lock is safe; that whoever is in the framer holds
`writeMu` (`LockInv`); that one loop is the initiator, and where each loop may
be then (`ShutdownInv`); that a request is `answered` exactly from its
END_STREAM on (`ResponseInv`); that a channel is closed just when `bodyClosed`
says so (`ChannelInv`); that object names are fresh and belong to their frame's
stream, so that an answered stream cannot be another's (`MapInv`); and that
every id in use is at most `lastStreamID` (`CoverInv`). Lemmas say which labels
each goroutine can leave and what it leaves alone; each conjunct has its own
preservation lemma, one step per action. `DrainSound` is part of the invariant:
the reader reaches its close through an empty map, and starts nothing after.

*The refinement* uses `IInv` for two steps: a response is sent only while the
connection is open, and GOAWAY only once, after `closing`.

*The timers.* `TimersInv` says of every timer that is set which deadline it was
set before: while anything is left to do, the deadline is still to come, or was
at most that timer's length ago. `OverInTime` is its contrapositive.
`AttributedInv` holds with and without the supervisor. Its part `DueByRequest`
ties a request's timer to the moment it started and to what it has slept, so
that a response dropped by the deadline or a drain is one whose own waits reached it;
`CutByOne` says who closed the connection and when: the deadline once it was
reached, and an initiator's drain at once when nothing was in flight, or after its full
time. With both, `DropsExplained` is inductive. `IdleTicks` bounds the next tick
by the last activity or the emptied map, whichever is later, and `IdleInTime` is
what it says once time stops at each tick.

*The snapshot.* The lists only grow and only their last element changes, while
it is being filled; so what was copied from a place stays equal to what is
there now, or was blank. `Exact` adds, for a request that nothing disturbed,
that its two lengths are still the lists' lengths.

*One client.* `ListsInv` adds where the frames are from: a stream's list has frames of
that stream only, and no SETTINGS. By `SteadyIsExact` an undisturbed copy is the
connection's list up to some length followed by frames of one stream, and what the
Akamai text selects is the first of a type: `FirstTakes` and `FirstIsThere` say that
the first of a prefix is the first of the whole, if the prefix has one. This is why
two requests tell one SETTINGS and one WINDOW_UPDATE, or the earlier none if they had
not come yet.

*Alone.* `AloneInv`: a request that began with no other at work and beside which
none has begun is the only one active (`NoOther`), so what it wrote into the shared
record is still there at its next line (`Written`). A request that starts beside it ends its
`alone`, which is where the property's condition is used.

*The entry.* `ClosingInv` says that TRUE is only returned of a settled connection,
which for the return at `CH:146` needs that a handler past its first Read has heard
the client and has bytes of it. `WholeInv` follows a single record: what is on the
wire before the first Read, between the two, and after.

*The headers.* The invariant is the property and that the requests are a
sequence. What a block means is never expanded: a block that was not cut is
decoded by both sides with one table, and so alike, whatever decoding does. The
fresh decoder needs more: `DecodeFull` is the last value of a recursive function, and
`DecodeFullRuns` gives that function's values as decoders, which `RepresentCases`
steps through. By induction over the block a decoder with an empty table goes on
exactly while each representation is of the static table, a literal, or an index
into what the block itself has entered (`FreshIsWholeOrNone`); then it has the
headers of the block, and a failure leaves none, since `convertFrame` drops what it had.

*The body.* `HolesInv`: the numbers of the pieces taken and of those in the channel
are one ascending sequence (`PiecesInOrder`), which is the sequence of frames sent
while none was dropped (`NothingLost`); the wait ends without a timeout only when the
channel is closed and empty (`WaitedForAll`). So a hole is a drop or a timeout.
`EchoInv` follows bytes: each byte of a frame kept, copied or echoed lies in an array
that still has it, with the number of its own frame or of a later one (`Held`); the
arrays keep their lengths when they are written again, the stream's list has as many
bytes as were sent (`ListWhole`), and echo and copy together as many as the part of
the list that the copy had room for (`EchoWhole`), which is all of it when no frame of
the connection came between (`Counted`). `Bytes` is a sum by a recursive function,
whose values at an append and at the empty list are lemmas (`BytesOfAppend`,
`BytesOfNone`), and `FlattenedIsWhole` that the copy of all frames has as many bytes
as they have.

*The packets.* `Placed` follows the packets of an address through the wire: while
a connection lives no other of its address does (`Exclusive`), so the packets of
an earlier one are all in front of its own, and once one of its own is stored
none of the other's is left (`LastIsOwn`); hence what its key leads to is its own
(`OwnKey`), and that is what the Router finds.

*The log.* `LogInv`: the record of a logged request is in the log from the insert to
its answer (`LoggedIsThere`), though the collection grows and the Router of the other
connection replaces JA4s, because no step between changes what the record is made of,
but for the JA4H that another request of the connection may have written (`LogOf`,
which takes it as a parameter); a request that the Router skips is not logged
(`SkippedUnlogged`). `CutAlike` and `AgentShownIsLogged` say when the two cuts of a
user agent come at the same place. The search then finds that record by each value its
client is shown, counts it, and `SortByValTells` says that a value that was counted is
told unless the list is full.

*The redirects.* `HopInv` ties the request a client is at to the redirects it has
followed: after `h` of `n` it asks for `/redirect/(n - h)`, and for `/get` at the end.
The step is that an answer's location is what `Onward` says, through three pieces of
code: the handler joins the directive, `SplitN` takes it apart at its first two colons
(`SplitDirective`, which holds although the address has colons of its own), and the
address read as a path is that of one route (`OwnIsOne`, from `DecimalAssumption`).

*The labels.* `AnswerInv` is small: the request of a connection has a query, and its
answer is what `Handle` and `Respond` make of that request, for some order of the
query and some length of the log (`Given`); a step that changes the request takes the
answer away. The rest is about operators. A lemma for each kind of page says what its
handler returns, field by field (`EchoReturns` to `CookiesSetReturns`); with them
`HandleKinds` leaves four kinds of results: a failure, one without a directive, a
redirect, and one that sets cookies. The last two are joined by the handler and taken
apart by the server: `RedirectParts` and `SplitJoined` say that the parts come back as
they were, where `SplitJoined` needs that no cookie has a separator in it. Over HTTP/1
the header must not end early either: `CookiesAreLines` has it of the cookies from the
same exception (`Unseparated`), and `TypeLineIsNone` that the line's charset puts no
directive in. `CodingIsOfPage` and `StatusIsOfPage` say that the label made from the
path as it was sent is that of the page found by the path without its escapes, where
the route is sent without any. `RespondAnswers` is what the three servers have in
common.

*The agreement.* For the comparison a result must be known fully: `Said` tells each
field from the page, the number, the parameters and the cookies, and `SaidAlike` that
two handlers asked alike say alike. Two orders of one query are alike to a handler
that looks its parameters up (`SameParams`, which needs one text for each name), and
so are the requests of two protocols but for the details, the cookies and the data
(`ResponsesAlike`). `PlainAgree`, `OnwardAgree` and `CookiesAgree` take this through
`Respond` for the three kinds that are not failures, and `GivenAgree` puts them
together: in full for HTTP/1 and HTTP/2 but for the charset of the type, and for
HTTP/3, of a request without query and without an escape in its number, in what that
has.

*The hello.* Each loop of the parser compares something else with something else: the
offset behind the length with `<=` or `<`, what is left of the data, the number of
items taken. `SizesAreSums` makes the bytes of the first items a sum, `SizesLeft`
bounds what the items after them take by their least width, and `MoreWhileShown` is
the case of each loop: it goes on up to the last item and not after it. The widths are
what this needs: the loops by `<=` take the last item if it has two bytes or more,
those by `<` if it has three, which a last protocol of one letter in
application_settings has not, so that it is lost; that is the exception in `Shown`. So
`TakenIsShown`: what a loop takes is what is shown, and none overruns.
`ExtensionIsAdded` says what one extension adds to each field, and by induction over
the extensions each field is what the hello has of it (`ListFollows`,
`ReplacedFollows`, `AppendFollows`, `ModeFollows`), together `ParsedFields`. The
invariant is `DetailsInv`: the details a connection has are made of its client's hello
but for JA4, a routed one has the JA4 that is made of those details, which is a fixed
point (`Ja4OfRelabelled`: to route a request again changes nothing), and the process
has ended by an `Unreadable` hello only (`EndsUnread`): one without extensions, or one
with an extension whose contents the library passes unread and which are cut off
(`PanicsWhenUnreadable`; by `TakenIsShown` no well-formed list is overrun).

*The browser.* From `DetailsInv` the theorem is about two hellos that are drawn anew from
each other. A list that only one extension can have is that extension's (`SentOfOne`),
so the lists of both are alike (`SentAlike`) and equal once their GREASE values are
replaced (`SameSent`); the mode is one (`SameMode`). The types of the one are the other's
through a one to one map of places which takes GREASE to GREASE (`TypesShuffled`); that the
places of GREASE can be mapped at all is that there are as many of them. Such a map
becomes one of the lists without GREASE (`ShuffledWithout`) and of the lists with a mark
for it (`MarkedShuffled`), and what is counted of a list does not depend on order
(`ShuffledCounts`), so that the sorted lists are equal (`ShuffledSorted`). PeetPrint and JA4
sort, and JA3 does not: `SamePrints` and `SameJa4` are the three conjuncts of the
property.

*Induction over data.* The induction theorems of the library take a predicate as an
operator parameter, which no installed prover can instantiate. `InductionLemmas`
states them of sets instead (`IntervalInduction`: a set with 0 and with each number its
successor has them all), proved from the well-foundedness of the subsets of a
finite set, and `RecursionExists` that a function defined by a step has its values: a
recursive function's CHOOSE is then known to choose one. `DecodeFull`, `Bytes`,
`SplitBars`, `Sizes`, `ParseClientHello`, `Without`, `Sent` and the flattening of
frames are written as recursive functions for that reason, and `Sorted` by the rank of a
value and not as a choice among permutations.

### 6.1 What is only model-checked

Liveness (`Quiesces`, `ImplementsFairService`, `EveryoneEnds`, `LoopComesBack`,
`StalledIsAnswered`) and anything with ENABLED are beyond the prover. Every
invariant of a passing run is a theorem.

The assumptions on the clients are not proved but checked, of the scenarios of
`MCRequests`: that the two hellos each browser sends there are drawn anew from
each other, that they are hellos, and that queries, addresses and requests have
the form of theirs.

## 7. What is not modelled

* The client's windows for a response, of which the code reads none, and the
  bytes of a response: `SplitBytesIntoChunks` is any number of chunks in
  H2Connection.
* How an HTTP/1 request line and a fingerprint's text are made, the text of
  pages and the fields of the JSON answers. The file of blocked addresses is read
  at each accept and does not change in the model.
* The hash of JA4H over header names and cookies; which request it is of is
  modelled.
* What the sniffer takes out of a packet, and a packet that is no IP at all
  (`parseIP` is nil for it, and its version is read).
* QUIC, the http3 server, the WebSocket's framing: a library's.
* The Go memory model beyond what 3.4 says; `lastActivity`, which the idle loop
  reads with no lock while the reader writes it, is taken to be read whole.
* Tables of names, start-up, pages: no behaviour.
