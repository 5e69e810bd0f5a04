# A TLA+ model of webserv

webserv is a single-threaded HTTP/1.1 server in C++98 (`src/webserver`): one
`poll()` loop over all listening and client sockets, an incremental request
parser per connection, a response builder, and CGI scripts run in child
processes.  This directory holds its TLA+ modules, the TLC configurations that
check them on small instances, and proofs checked by TLAPS.

    tlc -config EventLoopFaults.cfg EventLoopMC.tla
    tlapm EventLoopProofs.tla

Paths below are relative to `src/webserver`, but `src/README.md`, `src/tests` and `src/studies` to the
repository; `W`, `RB`, `RP` abbreviate
`src/WebServ/WebServ.cpp`, `src/Request/RequestBuilder.cpp` and
`src/Request/RequestParser.cpp`.

## 1. Inventory

| Component | State | Operations | What is hard |
|---|---|---|---|
| Event loop (W `run` and helpers) | `_pfds`, `_total_fds`, `_requestBuilderMap`, `_fds_map`, `_fds_time`, `_serverSockets`; the locals `i`, `fd` | poll, accept, receive, respond, expire, `_end_connection` | `_pfds` is erased from while it is iterated by index; the counter is kept by hand; four tables are keyed by descriptor numbers the kernel reuses; the timeout can follow a response in the same iteration |
| Recovery (`main.cpp`, W `clean`, `restart_socket_servers`, `stop`) | all of the above, the kernel's sockets | `clean`, `configSocket`, `init`, SIGINT | what an exception leaves behind; the servers' keys must still be their sockets' numbers |
| Request builder (RB) | `_buffer`, `_bytes_readed`, `_ready`, its parser and request | `read`, `parse`, `build`, `is_ready` | short reads, hang-ups, resets, an exception out of `build` |
| Request parser (RP, `parse_control_data.cpp`, `parse_headers.cpp`, `parse_body.cpp`) | `_step` and the tokens collected so far; the function statics `init_uri`, `init_protocol` | one handler per `Step` | a request cut into reads anywhere; state shared between connections; boundaries of lengths and limits; mixed line ends |
| Multipart bodies (`parse_body.cpp`) | `_multipart_step`, `_multipart_tmp`, `_body` | one handler per `MultipartStep`, `_remove_boundary` | delimiters found again in the data; erasing from the end of a vector |
| Routing (`_check_uri`, `_check_method`) | none; reads locations, root, index, autoindex, redirections | URI to location and path | which location wins; the last character and the query |
| Configuration (`ServerParser.cpp`, `Server.cpp`, `server_setters.cpp`, `server_builder.cpp`, `location_builder.cpp`, W `create_servers`) | the lines of the file; the servers, their ports and locations | `setConf`, `create_servers`, the constructor, `obtainLoc` | the same lines are read up to four times, each time with another bracket counter; a counter and a flag that outlive their block; an `int` that wraps; sockets bound before an error is found |
| Responses and uploads (`src/Response`) | status code, files on disk | GET, POST, DELETE, redirect, error pages | a status set twice; a file name taken twice; one step of several failing |
| CGI (`HandleCGI.cpp`) | pipe, child process | fork, dup2, execve, read, wait | a failing child, a full pipe, an unread pipe, zombies; the parent blocks |
| Logger, string helpers | none | | pure output and conversions |

How they interact: the loop owns everything.  `run` calls `read`/`parse` on the
builder of a readable descriptor; `parse` drives the parser byte by byte and
sets `_ready`; `run` asks `is_ready` when the descriptor is writable, calls
`build` (which may parse the collected body, and throw), `responseBuilder` (which
may run a CGI script and block the whole loop) and ends the connection.  There
are no threads.  Concurrency comes from the kernel and the clients, which act
between any two steps, from the clock, from SIGINT, and from the children of
CGI requests.

What makes each component correct:

* Event loop: subscripts stay in range; a builder, a server and a time stamp
  belong to the connection now on their descriptor; the counter is the size of
  the vector; clients are accepted, whole requests answered, silent clients dropped, fresh
  ones not.
* Recovery: every server listens again on the descriptor that is its key.
* Parser: the outcome depends on the bytes of the request only, not on how they
  were cut or on other connections; well-formed requests are understood whole;
  nothing is accepted unchecked.
* Multipart: the stored parts are the data between the delimiters.
* Routing, configuration: the longest matching location wins; its settings, or
  the server's, apply; limits and defaults are those of the file.
* Responses, CGI: the status says what happened; a script that fails, hangs up
  or prints much does not take the server with it.

## 2. Plan

Done:

1. `EventLoop`, `EventLoopProofs` (type correctness and the two subscript
   invariants): the loop that owns everything comes first.
2. `RequestParser`: what a request is, whatever the cuts.
3. `Bodies` and `Routing`: pure operators, used by
4. `Site`, which composes checking, routing, bodies and responses over a small
   file system.
5. `CGI`: parent, child, script and pipe.

6. `Service`, what the server promises to its clients, and the proof that
   `EventLoop` implements it until the first recovery, with
   `BuildersMatchConnections` on the way (`EventLoopProofs`).
7. `Config`: from the configuration file to the servers that run, in front of
   `Routing` and composed with it in `Site`.

8. Theorems about what was only model-checked: the tables, the sockets and the
   time stamps of `EventLoop`, `CGI` for any number of requests (`CGIProofs`), the
   parser for any number of connections and every interleaving
   (`RequestParserProofs`).

9. The parser as one function of the bytes of a request: that it does not depend
   on the cuts (`RequestParserCuts`), and that it understands every well-formed
   request (`RequestParserWhole`), as theorems.

10. Bodies of any length, multipart and forms, although they are folds
    (`BodyProofs`); configuration files of any length (`ConfigProofs`); and all that
    `Site` is checked for: uploads, texts, forms, routing, and what may change a
    file (`SiteProofs`).

Every invariant and action property of a passing run is now a theorem as well;
what is left to TLC is liveness (section 5).

The modules are written to be proved about: parameters are constants with
named assumptions, recursion is replaced by folds, invariants are conjunctions
of named parts.

## 3. The modules

| Module | Uses | Models |
|---|---|---|
| `EventLoop` | | the event loop, recovery, the kernel's sockets, the clients |
| `Service` | | what the server promises to each client |
| `EventLoopProofs` | `EventLoop`, `Service` | theorems: types, subscripts; the refinement; the vector of pollfds, the counter, the listening sockets, the time stamps |
| `RequestParser` | | builders' parse loop, the parser's steps, `check_request()` |
| `RequestParserProofs` | `RequestParser` | theorems: types, completeness, the statics, Host |
| `RequestParserCuts` | `RequestParserProofs` | theorems: each request is parsed as if alone; cuts do not matter |
| `RequestParserWhole` | `RequestParserCuts` | theorems: well-formed requests are understood, and ready when whole |
| `Routing` | | `addLocation()`, `_check_uri()`, `_check_method()`, the choice of an error page |
| `Bodies` | | multipart bodies and forms |
| `Config` | `Routing` | `setConf()`, `create_servers()`, the constructor of `Server` |
| `Site` | `Config`, `Bodies` | a start of the program, then `check_request()` to `responseBuilder()`, with the files |
| `BodyProofs` | `Bodies` | theorems: a part of a body, and a form, are understood |
| `ConfigProofs` | `Config`, `BodyProofs` | theorems: which files the program starts on, and with which servers |
| `SiteProofs` | `Site`, `ConfigProofs` | theorems: the start; routing; uploads, texts and forms; what changes files; types |
| `CGI` | | `handleCGI()`, children, scripts, pipes |
| `CGIProofs` | `CGI` | theorems: all its safety properties |
| `*MC` | | the instances TLC checks |

### `EventLoop.tla`

One action per step of `run()`'s loop body, per outcome of the system calls, and
per step of the recovery.  `pc` cuts an iteration where the code reads shared
state again: `loop` (the `for` test and `fd = _pfds[i].fd`), `read` (POLLIN),
`write` (POLLOUT, which subscripts `_pfds[i]` again), `expire` (the timeout).

| Variable | Code |
|---|---|
| `pfds`, `total_fds`, `requestBuilderMap`, `fds_map`, `fds_time` | the members of `WebServ`; `fds_time` holds the CPU time *since* the entry was made |
| `i`, `fd`, `pc` | the locals of `run()`, counted from 1, and where it is |
| `uptime` | `std::clock()`, which `_fds_time[fd]` of a missing entry is compared with |
| `openFds`, `listens`, `conn` | the kernel: descriptors in use, who listens, every client connection |
| `proc`, `restarts` | the process, and how often `main` caught an exception |

`poll()` fills in a snapshot of readiness (`Polled`); clients may change it
before the loop reaches the entry.  The kernel hands out the lowest free
descriptor; `MaxFd` is the limit beyond which `accept` fails.  A parse is
abstracted to what the piece received does to the builder: it stays incomplete
("part"), becomes ready ("last"), or becomes ready with a form body that
`build()` will reject with an exception ("bad").

Undefined behaviour is a choice of outcomes: a use of a builder that `clean()`
freed, and the `memset` of `_bytes_readed = (size_t)-1` bytes after a failed
`recv`, either go unnoticed or kill the process (`proc = "crashed"`); a
subscript past the end of `_pfds` in the POLLOUT part yields any value.

Descriptors 0 to 2 and those of files are left out, so numbers start at 1.  The
sockets block: `accept` on an empty queue and `recv` without data stop the whole
loop (`Blocked`); this needs a client whose connection vanishes between `poll`
and the call, which the model's kernel does not do.

### `Service.tla`

What a client can rely on, without tables, descriptors or passes of a loop: its
connection waits, is open, is complete (a whole request is there), and is then
answered or dropped, each at most once.  `EventLoop` gives it its state in
`Promise == INSTANCE Service WITH ...`:

| `Service` | `EventLoop` |
|---|---|
| `stage` | where the kernel has the connection, and `is_ready` of the builder on its descriptor |
| `server` | the server the tables would have answer: `_fds_map`, then the builder's |
| `asked`, `gone` | what has been sent and not read; whether the client has left |
| `serving` | the process runs and has not caught an exception |

Since `stage` and `server` are read from the tables that descriptor numbers
index, an entry left behind by an earlier connection shows as a step `Service`
does not allow: a request that is complete before it was sent, or a server that
changes.  `Patient` says that the environment has no clock: then nobody is
dropped who stays.  After an exception nothing is promised (`Lapse`), because
nothing can be: see `EventLoopBadBody`.

### `RequestParser.tla`

`RequestBuilder::parse()` and every handler it dispatches to.  Bytes are
abstracted to tokens that all handlers treat alike (a word, a separator, a
digit, CR, LF, a byte of payload); each handler is an operator from the parser
and a token to the parser afterwards, `Dispatch` is the `switch`.  `StartRead`,
`ParseByte` and `EndRead` are one `read()`/`parse()` call, so that reads end
anywhere and reads of several connections alternate.  `init_uri` and
`init_protocol` are the two function-local statics, shared by all connections.
`check_request()` is the list `RequestChecks` of conditions and the status each
throws, in the order of the code.  `_check_uri` is reduced to its outcomes
(found, 404, 500) and multipart bodies are left out.  `Bytes` renders the
requests clients send from records (`Request`): among them are first lines that
break off in the URI (by the end of the line or by a tab) or in the protocol,
and any number of spaces between the fields.

A handler that throws in the middle of a token leaves its static off, for
whichever request comes next (`parse_control_data.cpp:39`): a second space
before that one's URI then ends a URI that has not begun.  A request with single
spaces does not notice, and sets the static right.  `LineBroken` says that such
a request was refused, `Unharmed` which requests it can do nothing to.  "By turns"
(`LinesInterleave`) means that a connection begins or goes on with its first line
while another is in the middle of its own, be it one whose client has left.

Sizes are below `SizeMod`.  A chunk size is converted as `xtod` does and wraps
around (`HexStep`); a `Content-Length` is read from a `std::stringstream`
(`parse_headers.cpp:135`), which stops at the largest value (`DecimalStep`).

### `Routing.tla`, `Bodies.tla`

Operators only.  URIs and paths are sequences of slashes and names.  `Walk` is
the loop of `_check_uri` over the URI: the positions at which it looks the path
up (`Stops`), what the path is there (`PathAt`), and that the last location
found stays.  `Locations` folds `addLocation()` over the locations as written,
duplicates and all copies it makes included.  `CheckUri` is the rest: root or
redirection in place of the location's name, directory or file, index or
listing.  `Exists`, what `opendir` and `open` say of a path, is given by `Site`.

In `Bodies` a byte is a token; the machine of `_parse_multipart` is a fold of
`ParseMultipart`, one operator per handler, over the body, and `WithoutEnding`
is `_remove_boundary`.  A header line of a part is one token.  Forms are a fold
of `FormChar`; `_post_data` is a `std::map`, so `fields` is a function from names to
values.  `Part` is a body with one part as a client writes it, `FormBody` a form as a
client spells it, with equal signs in values plain or escaped and spaces escaped or,
as browsers have it, as "+".  `_parse_form_data` does not decode a "+"
(`parse_body.cpp:199-222`), so what it makes of a form at best is `Heard`: the
same, with a "+" for each space that was sent as one.  `LastOfEach` is what a form
means that gives a name twice.

### `Config.tla`

| Variable | Code |
|---|---|
| `file` | which of the instance's files `main` was given |
| `stage` | before `setConf()`, in `create_servers()`, running; `refused` is `main` returning 1 |
| `at` | `index` of `create_servers()`, counted from 1 |
| `servers` | the values of `_servers`: the line each was made from, and its port |
| `bound` | the ports listened on, by this program or another |

A file is the sequence of its non-empty lines, a line the sequence of its words;
numbers, units and paths are looked up (`Numeral`, `Unit`, `PathOf`) instead of
being spelled.  One space separates words.  `FileAssumption` is all that is
assumed of files: lines are not empty, words are strings, and the limits of a body are
integers with or without a unit.

The code finds the end of a block five times: in `_minimalRequirements()`,
`setConf()`, `setPort()`, both loops of the constructor, `obtainLoc()` and
`create_servers()`.  Each has its definition (`Stop`, `BlockEnd`, `HeadLines`,
`BodyLines`, `LocationLines`), made of the lines at which its counter is zero.
`setPort()` and `create_servers()` count alike and share `BlockEnd`.
`ConstructorThrows` is every reason to throw, of the lines in which each reader
looks.  `CreateServer` is one iteration of `create_servers()`.

What a file *means* is defined apart, by brackets that nest (`Extent`, `Level`);
`Means` compares the two.  What a line *may* say is not taken from the code either:
`Documented` has the numbers, words and ranges that `src/README.md` and the files of
`src/tests/testes` give, and only where those are silent the limits of the code.  The code differs,
and the differences are named.  `Stricter`: it refuses a comment behind a value and
"cgi .py python 3" (`src/README.md:21-37`, where both are given as valid).  `Looser`: it takes a word that only
begins like a number, or does not ("listen 8080;", "client_max_body_size BANANA"), words
behind the first, and a `buffer_size` of 1 or 1024, which `src/README.md:33`
excludes.  The word "well-formed" (`WellFormed`) is what the
files of `config/` are: brackets end their lines, locations are in servers, a
server has one port, its root and methods come before its locations, and no
limit is negative (the code accepts a negative one).

Undefined behaviour is a choice: lines behind the vector (`Verdicts`,
`ReadsBeyond`), and `_port` and `_socket` of a server without a listen line, which
are read though nobody wrote them (`PortSeemsTaken`; a server that is not
inserted because its `_socket` seems to be a key already).

### `Site.tla`

The program starts as in `Config`; then a client opens one of its servers
(`Opens`) and requests go to that one, with the settings and locations
`ServerFrom` gave it.

| Variable | Code |
|---|---|
| `site` | the server that is asked: its settings and locations |
| `files`, `dirs` | the file system under `content` |
| `asked`, `routed`, `phase` | each `Request`, the path, location and status it was given, and whether its body is awaited |
| `log` | the responses, oldest first |
| `proc` | the process; `recovering` is the exception of `EventLoop` |

One action per branch of `responseBuilder()`.  A request without a body is
checked, routed and answered in one pass of the event loop, hence in one step; a
POST request is routed by one step and answered by a later one, with other
requests between.  An input carries what the client means (`data`, `fields`)
beside the body it sends.

A path is the sequence of names and slashes that is written; `Place` is where it
leads, step by step as the file system resolves it: `//` and `.` lead nowhere else, `..`
leads to the parent, and a name after a file leads to nothing.  So two paths may be one file
(`Detour` in `SiteMC` is another way to write `/upload/image.png`), and the answer to a
DELETE records the place that was removed.  Files outside of the site are not
modelled, and a path that leads out of it leads nowhere.  `RemovalAllowed` is the check of
`handleDeleteRequest()`, a search for the text `content/upload` in the path *as it is
written* (`Mentions`): `content/upload.html` passes it too (`LikeUpload` and
`LikeContent` are the names that make it so).  `Removable` is `remove(3)`, of the place.

Undefined behaviour is again a choice: a body shorter
than its ending, or an image that was never set, crashes the server or goes
through as `junk`.

Assumptions say what the constants stand for; TLC evaluates them on the
instances.

* `PathAssumption`: published files are finitely many, their paths are sequences of
  names and slashes, and no text was uploaded yet.
* `LocationAssumption`: the pages served for a directory and the roots are sequences, and the name of a location holds no
  query and does not end in a slash, unless it is one slash.  Routing is by whole
  segments, so such a name could not be found.
* `DataAssumption`: URIs are not empty; what a request means by its body (`data`) is what a
  client puts between the delimiters of a `Part` with a supported type, or the body itself if
  it is no multipart (`SentAsMeant`); an image that is sent otherwise, cut short say, means no
  data.
* `FormAssumption`: the fields that a client means by a form are pairs of texts, of any
  characters.  Whether its body spells them is up to the request; the property is about
  those that do, in any of the ways of `FormBody`.
* `BoundaryAssumption`, in `Bodies`: a boundary has no CR in it.

### `CGI.tla`

`pc` is the place in `handleCGI()` where the server is: after `pipe`, in `poll`,
reading, waiting, or back in the caller, which sends a second response.
`readers` and `writers` are who holds the ends of each pipe, so that end of file
is what the kernel makes of it.  `child` is the life of each child, including
one that failed to become a script and returns into the server's code.  One
system call may fail per behaviour (`fault`), wherever it is used.  `poll` may
time out whenever nothing is ready.

Output is counted in chunks, of which one may begin with a NUL byte (`nul`).  A `read` takes any
part of what is in the pipe, and appends it as a C string (`HandleCGI.cpp:164`): what
follows a NUL byte in the same read is dropped (`Kept`).  A script may also close its output
and stay (`ScriptCloses`).  The fault "path" is a path shorter than the prefix that
`substr` takes off in the child (`ChildThrows`): the exception unwinds into the recovery of
`main`, in the child.

A client may leave at any time (`ClientLeaves`).  The next response to it is
accepted and answered with a reset, which arrives in time for the following
`send` or not (`client` is "reset" or still "left"); a `send` after it raises SIGPIPE,
for which `main()` installs no handler, and ends the process that called it:
the server (`BrokenPipe`) or a child on its way back (`ChildBrokenPipe`).  One
request can meet it because two responses go out on its connection.

### The modules of proofs and the MC modules

The theorems of section 5, and the instances of section 4.  `SiteMC` holds the
configuration files, as text.

Definitions marked *faulty* in the modules are variants of a definition with a
plausible mistake in it.  No action uses them; each is there to be put in the
place of the definition it varies, which must make a property fail.

## 4. The runs

| Run | Instance | States | Shows |
|---|---|---|---|
| `EventLoopFaults` | 2 clients, 1 server, 3 descriptors, everything the environment can do, one failing `poll` | 618 000 (symmetric) | the bookkeeping invariants; what can kill the process |
| `EventLoopPolite` | 2 clients, 2 servers, 4 descriptors; no resets, no timeouts, no bad bodies | 122 000 | liveness: clients accepted, requests answered; the counter is exact |
| `EventLoopSilent` | 2 clients that never finish, 1 server, 2 descriptors (so one client at a time) and the clock | 4 700 | the timeout ends them, not early, and makes room |
| `ParserCuts` | 2 connections, sending the same request, any of 109, or one breaking off its first line and the other not; every cut | 225 000 | well-formed requests understood whole; independence of cuts; nothing accepted unchecked; when the shared statics deviate |
| `CGIScripts` | 2 requests, one a POST, 16 scripts each, pipes of 2 chunks, descriptors for one pipe, 6 kinds of fault, clients that leave | 894 000 | truthful first answers, the right child killed and awaited, leftovers, the server comes back |
| `Site` | 484 configuration files; for four of them 3 requests that are each one of 14 to 31 inputs | 85 000 (symmetric) | which files the program starts on, and with which servers; routing, uploads, texts, forms, what may change a file |

Bounds.  Two clients are enough for one connection to inherit what another
left on a descriptor, for an erased entry to be followed by another client's,
and for two request lines to interleave.  Three descriptors let both clients be
connected beside one listening socket; after a recovery they also run out, as
do the two of `EventLoopSilent`.  `Timeout = 1` separates fresh, old and too old.
One failing `poll` gives one recovery (an unparsable body gives further ones, so
that there are recoveries of recoveries).  A body limit of 2 with payloads up to
3 puts every length on both sides of it.  Scripts with 1 and 3 chunks for a pipe
of 2 print less than it holds and more, and a NUL byte at the second chunk has something before and
after it; two requests let one meet what the
other left (its pipe, its zombie).  Three requests to a site are an upload, its
removal and the next upload, or two POST requests and what comes between head
and body; the configurations repeat a location, before and after others, and
nest one in another; among the requests are aliases of a path.  Most of the 484 files are one file of two servers, with a
location in one, and with one more line, good or bad, in any place: 39 lines
make every reader throw and not throw, in a server, in a location, between and
outside blocks, and unbalance brackets every way one line can.  The odd ones
are empty, repeat a port, leave out the port, or hold a location outside of a server.

What the passing runs say, and where they stop:

* `SubscriptInRange`, `SecondSubscriptHarmless`: always, recoveries included.
* `BuildersMatchConnections`, `ConnectionsTracked`: until the first recovery,
  which leaves dangling builders and stale pollfds behind
  (`EventLoopBadBody`).
* `ServiceProvided`: until the server stops, dies or recovers.  It is a safety
  property; that answers do come is `RequestsAnswered`.
* `StartsAsItShould`, `ServersAsWritten`: on well-formed files.  The program runs
  if all of a file is `Documented`, and on no other, except for the differences in `Stricter` and
  `Looser`.  A limit of 2048M
  or more wraps around an `int` (`server_builder.cpp:41`): 4095M is negative and
  accepted, and the property excepts it.  On other files the model shows, but no
  property says, that a second server without a port is not refused, since
  `check` is never reset (`ServerParser.cpp:66`), and runs deaf or takes another
  for its own; that a comment between two blocks is taken
  for the beginning of a server, whose port the next block then cannot bind; and that a root behind a location is ignored.
* `ListenersKeepKeys`: the listening sockets of `restart_socket_servers()` get
  the numbers of the old ones, because `clean()` closed those first and they
  are the lowest; the keys of `_servers` stay right although nobody updates
  them.
* `CounterExact`: as long as no connection outlives `TIMEOUT`
  (`EventLoopDeaf` shows what happens then) and nothing was thrown.  It says that no
  entry is out of the loop's reach, not that each pass visits every entry: an erase moves the
  next entry to the index that `i++` then leaves (W:251, W:85), and that entry is served in a
  later pass.  That it is served is `ClientsAccepted` and `RequestsAnswered`.
* `CrashesExplained`: freed builders, which a recovery leaves in the map, and a reset,
  which `read()` takes for a very long read, are the only ways to die by a signal.  SIGINT,
  which deletes the builders between any two steps, is none before a recovery.
* `ClientsAccepted`, `RequestsAnswered`, `IdleConnectionsEnd` hold in the
  environments of their runs: without resets, and with the clock only where no
  request completes.
* `CutsDoNotMatter` excludes bodies that go on after the announced length, which
  are refused with 413 only when the rest comes in the read that ends the body
  (RB:152).  `HostMandatory` and `AcceptedIsComplete` are about lines that end in
  CRLF: an empty line that ends in a bare LF ends the request before
  `check_request()` (`parse_headers.cpp:21`).  `WholeRequestReady` excludes an
  extension on the last chunk, after which the parser waits for ever
  (`parse_body.cpp:85`); `WellFormedUnderstood` excludes it where the body is at
  the limit as well, since there the CR after the extension is refused as one
  byte too many (`parse_body.cpp:104`).  The requests concerned are in the
  instance.

* `WellFormedUnderstood` and `CutsDoNotMatter` except requests with more spaces than one
  once a request line was broken off (`Unharmed`): those are refused with 400, though
  `src/studies/request_parsing_comments.cpp:131` and `src/tests/requests_success:7` accept them.
* `StaticsExplained` holds with any interleaving of bytes of two connections
  outside request lines; `ParserInterference` is what happens inside them.
* `FirstAnswerTruthful` says of a 200 that the output is all there, but for what a NUL byte hides:
  with one in it, everything before it and less than all (`Came`).  It does not speak of a failed `fork`, after which
  `waitpid(-1)` reports on any child or on none.  `ServerReturns` excludes
  scripts that hang after their first output, scripts that close their output and stay, and a
  failed `execve` (whose child keeps the pipe open as a server and logs into it): the server
  reads, or waits, for ever.
  It also holds where SIGPIPE ends the server, which a client that leaves before
  its first response can bring about (`Response.cpp:105`): "back or dead".
* `LeftoversExplained`: a timeout and a failed `poll` do leave a pipe and a
  child behind, other paths do not.
* `RoutedToLongest` is about well-formed files, and URIs that begin with a slash and
  have no query: a query hides the last segment from the lookup.  Names of locations do
  not end in a slash, except "/" (`LocationAssumption`).
* `FormsUnderstood`: a space that was sent as "+" is told as "+".
* `ChangesAccountedFor` says that a DELETE removes one file, which the answer names, where DELETE is
  allowed, and that its path mentions `content/upload`.  The last is not promised of a
  request whose path has a "..", since the code does not ask where a path leads
  (`HandleDeleteRequest.cpp:15`, 17); `Place` has it so, and the instance has paths with `..`
  in requests that read.
* `UploadsKept` and `TextsKept` hold while the upload directory is there
  (`SiteUnsaved`) and for bodies that are not undefined behaviour.

Six runs end in a counterexample, each to what the repository says of itself:

| Run | Violates | Because |
|---|---|---|
| `EventLoopStale` | `OnlyOldConnectionsExpire` | `_fds_time` keeps the entry of an answered connection and `insert` does not overwrite it (W:172): the next client on that descriptor is dropped as inactive |
| `EventLoopDeaf` | `ClientsAccepted` | a response and a timeout in one iteration end the connection twice, `_total_fds` is one short and the last pollfd is never visited again (W:259) |
| `EventLoopBadBody` | `NeverCrashes` | an unparsable form body throws out of `run()`; the builders freed by `clean()` stay in the map (W:231) |
| `ParserInterference` | `WellFormedUnderstood` | two request lines parsed by turns share `init_uri` (`parse_control_data.cpp:35`) |
| `CGIExecFails` | `OnlyOneServer` | a child whose `execve` fails returns instead of exiting (`HandleCGI.cpp:133`) |
| `SiteUnsaved` | `CreatedMeansSaved` | 201 overwrites the 500 of a failed open (`HandlePostRequest.cpp:75`); `remove` took the upload directory away before |

A failed `recv` (RB:59, stored in a `size_t`) is an action of the model but has
no run of its own: with it `NeverCrashes` fails as well.

Fairness.  `FairSpec` assumes that the server process keeps running
(`WF(System)`) and that `std::clock()` advances while it does (`WF(Tick)`; it is
CPU time and stands still while `poll` waits).  Clients get no fairness.  Weak
fairness of the whole of `System` suffices, since the server is sequential.

In `CGI` the server, every child and every script run when they can (`WF(Parent)`,
`WF(Child(r))`), but clients leave when they like (`ClientLeaves` has no fairness); they are processes of an operating system that schedules
fairly, and time passes.

Deadlock is not checked: when every client is gone the server waits in
`poll(-1)`, when every request is ready the parser has
nothing to do, and `Site` and `CGI` stop when all their requests are answered.

## 5. The proofs

For every number of connections, servers and descriptors, every `Timeout` and
every set of environment behaviours, under `ConstantsAssumption` only:

* `TypeCorrect`: `Spec => []TypeOK`
* `SubscriptsSafe`: `Spec => []SubscriptInRange`
* `SecondSubscriptSafe`: `Spec => []SecondSubscriptHarmless`

The inductive invariant is `IInv`: the three together with `FdTaken` (inside an
iteration `fd` is a descriptor).  None is inductive alone: that
`_total_fds <= _pfds.size()` survives `_end_connection` needs that an erase takes
at most one entry, which is what `EraseFdProperties` says; that the second
subscript is harmless needs that the first one was right (`fd` is then either
still at `i` or was ended, and with it its builder); both need the types.  The
proof has a lemma per group of actions (`PollInvariant`, `AcceptInvariant`,
`ReceiveInvariant`, `RespondInvariant`, `ExpireInvariant`, `RecoverInvariant`,
`EnvironmentInvariant`, `ControlInvariant`), which rest on lemmas about
`_end_connection` and `close()`.  TLC checks all conjuncts of `IInv` but
`FdTaken` in `EventLoopFaults`.

The second part of `EventLoopProofs` goes on from there, under the same assumption:

* `Refinement`: `Spec => ServiceProvided`, that is `Spec => Promise!Spec`
* `BuildersMatch`: `Spec => []BuildersMatchConnections`
* `TablesInvariance`: `Spec => []SInv`, on which both rest

`SInv` adds to `IInv` what the mapping needs, as long as the server serves
(`TablesMatch`): listening sockets are where they were made; each accepted
connection has a descriptor of its own; nothing is left in the tables of a
descriptor nobody is on; `_fds_map` has the port the client asked; and a builder
holds the bytes of its connection only.  Without the last two the refinement
fails at `Accept`, when a number is reused, and at `Respond`.  Two facts hold
beyond recoveries: without a clock no time stamp ages (`NothingAges`, from which
`Patient` follows), and a recovery is counted before it is done
(`RestartsCounted`, from which a lapse is for good).  The proof has a lemma for
each group of actions that shows what the group does to the tables and which
action of `Service` it is: `ControlKept` (a stutter), `ClientsKept` (`Arrive`,
`Ask`, `Leave`), `AcceptKept`, `ReceiveDataKept` (`Complete`, `Ignore` or a stutter),
`EndKept` and `EndingsKept` (`Answer`, `Drop`).  Every other step lapses.

The third part is about the tables, still under the same assumption:

* `TablesTracked`: `Spec => []ConnectionsTracked`
* `CounterIsExact`: `Spec => []CounterExact`
* `OnlyResetsKill`: `Spec => CrashesExplained`
* `ListenersKeep`: `Spec => []ListenersKeepKeys`

`TablesTracked` and `CounterIsExact` follow from `EInv`: as long as the server serves, the entries of
`_pfds` have different descriptors and are those of the servers and of the
accepted connections, one each (`EntriesMatch`).  Without "different" the erase
in `_end_connection` could take the wrong one of two; with it, and with `SInv`
(each connection has a descriptor of its own), the counter and the vector shrink
together.  `OnlyResetsKill` needs of `SInv` that no builder is a freed one while the server
serves, and that a builder's descriptor has a server.  `ListenersKeepKeys` has to survive recoveries, where nothing of that
holds any more: stale entries and a wrong `_total_fds` stay.  What does survive
is `LInv`: the vector *begins* with the servers in order (`ServersFirst`), since
what is erased are descriptors of clients and what is added comes last; so
`clean()`, which closes the first `_total_fds` entries, closes a listening socket
before any later one; and the closed ones among the lowest numbers are handed out
again in the same order (`ListenersAt`).  `NoServerBuilders` keeps `Respond` from
ending a server's entry.

The last part is about the time stamps:

* `OldConnectionsExpire`: `OnlyTime` implies `Spec => OnlyOldConnectionsExpire`

`OnlyTime` says that the environment cuts requests, lets time pass and sends
SIGINT, but completes no request, and neither leaves, resets nor fails a
`poll`.  Each of these ends a connection, or a pass of the loop, without erasing the
entry of `_fds_time`; `EventLoopStale` is what that leads to, so the theorem is as strong
as the code allows with respect to completed requests.  The invariant is `AInv`: the entry of a descriptor is
the age of the connection on it, and the loop is never at a descriptor that was
closed.

`CGIProofs`, for any requests, scripts, faults, pipe capacity and descriptor
limit, under `CGIAssumption`:

* `TypeCorrect`: `Spec => []TypeOK`
* `FirstAnswersTruthful`: `Spec => []FirstAnswerTruthful`
* `ItsChildIsKilled`: `Spec => []KillsItsChild`
* `OnlyTimeoutsLeaveAnything`: `Spec => []LeftoversExplained`

The inductive invariant is `IInv == TypeOK /\ ParentInv /\ \A r : OfRequest(r)`.
`OfRequest` is what holds of a request whoever handles it: a live child holds
the write end, the server holds it only while the request is in hand, a child
has a status exactly when it has ended, an exit with 0 comes after all the
output, and nothing is left of a request but what the property names.
`ParentInv` is what the server relies on at each place in `handleCGI()`; its
core is `OutputConserved`: what has left the pipe is what was written less what is in it, and of
that all was kept but what a NUL byte hid (`Came`), which with an empty pipe and no writer (`ReadEnd`)
makes the 200 truthful.  A step disturbs one request; `OtherRequest` carries the others over.
That the output of a script is a number of chunks is the assumption on `Scripts`.  TLC
checks `IInv` on the instance of `CGIScripts`.

`RequestParserProofs`, for any requests (`Scenarios`), connections, limits and
methods, with request lines interleaved or not, under `ParserAssumption` and
`ScenariosAssumption` (that what clients send are `Request`s):

* `TypeCorrect`: `Spec => []TypeOK`
* `CompleteWhenAccepted`: `Spec => []AcceptedIsComplete`
* `StaticsAreExplained`: `Spec => []StaticsExplained`
* `HostIsMandatory`: `Spec => []HostMandatory`

For the types, `Convert` must return a size whatever the digits
(`ConvertGivesSize`: a recursive function, by its least counterexample), and
`check_request()` must either fail with one of the errors or pass
(`CheckOutcome`).  `AcceptedIsComplete` needs what the fields mean at each step
(`Sound`: the body is shorter than the length in `BODY`, equal to it in
`BODY_LENGTH_END`, within the limit in every step of the chunks), and, for the one way
around `check_request()`, that an LF where a header should begin is a bare LF
(`InStep`), which a client that ends its lines in CRLF never sends (`BytesCrlf`,
about `Bytes`).  `StaticsExplained` is inductive with the types.
`HostMandatory` needs the parser related to the bytes behind it (`HostTracked`):
if the client sent no Host, no name held by the parser contains one; if it sent two,
each one read so far is among the headers or is the name of the line being
parsed, and the empty line is after both (`TwoHostsSent`).  The proof shows first
what a handler of a header line may do (`HeaderMoves`), then what that does to
the names.  Header names and values are sequences of tokens, so nothing here is by
the shape of the model.  TLC checks `InStep` and `HostTracked` on the instance
of `ParserCuts`.

`RequestParserCuts`, for any requests, connections, limits and reads, where no
two request lines are parsed by turns (`~LinesInterleave`; `ParserInterference`
shows that without this the theorems are false), and for requests that break off their
first line, too:

* `ParsedAlone`: `Spec => []Undisturbed`
* `CutsNeverMatter`: `Spec => []CutsDoNotMatter`

`Parsed(s)` is the parser of one request alone, after each of its bytes `s`: a
recursive function whose `Turn` is `Dispatch` with the statics as that request
alone would have left them.  `Undisturbed` says that every parser of the server is
where its own `Parsed` is (`Follows`), apart from the end of a body with a
length, which the end of a read notices; or it is `Lost`: its request has more spaces than
one, and another broke off its line.  It is inductive with what makes the
shared statics harmless: `init_uri` is off while some connection is in its
URI, `init_protocol` while one is in its protocol, and before the first broken line only
then (`FlagTells`); and only the one being read can be (`Alone`).  After a broken line a
static may be off at the first space.  A request with single spaces has its URI next, as it would
have; one with more is lost, which for a well-formed request means that it has ended or is about to
be refused (`Astray`).  That is also why `WholeRequestReady` needs no such exception: it is
answered, if with 400.  That two connections with the same bytes
are treated the same then takes that `BODY_LENGTH_END` is reached with the last byte or not at
all (`LengthEnds`), otherwise it would matter whether a read ends there.  So
every request clients may send is followed through its first line
(`FirstTurns`), its headers (`HeadTurns`), the checks (`BodyBegins`) and its body.

`RequestParserWhole`, under the same conditions:

* `UnderstoodAlways`: `Spec => []WellFormedUnderstood`, for `Unharmed` requests
* `ReadyAlways`: `Spec => []WholeRequestReady`

By `ParsedAlone` they are about `Parsed(Bytes(r))`.  `HeadUnderstood` and
`ChecksPass` take a well-formed request past its checks; `ChunksTurns` takes a chunked
one through sizes, extensions and data, where the count in `_chunk_read` and the limit
are watched byte by byte (`DataTurns`).  `EndsWell` is what this gives for the last two bytes:
without error, at the end, and not before.  What happened earlier follows
backwards: a parser that has ended stays as it is (`EndStays`), and so does one
that has failed, hence neither happened before the last byte (`Backwards`).  `ReadyAlways` also needs that
between reads no parser waits in `BODY_LENGTH_END` (`Closed`).  `ParserAssumption`
asks for `SizeMod > 3`, so that one digit of a chunk size does not wrap around.

The first attempt at `UnderstoodAlways` failed, rightly: an extension on the last
chunk hides its size, and at the limit the next byte is refused with 413, as `CHUNK_DATA` tests
the limit before the chunk's size.  The property claimed otherwise, and
the instance of `ParserCuts` had no such request; it has one now, and the property
says where it stops.

`BodyProofs`, for any boundary without a CR:

* `PartUnderstood`: a `Part` with a supported type is accepted by `Multipart`,
  with that type, and `WithoutEnding` leaves exactly the client's data
* `FormUnderstood`: `Form` accepts the `FormBody` of any fields, one or more, of any characters,
  and what it has at the end is `LastOfEach` of them, with a "+" for each space that was sent as one
  (`HeardPairs`)

`FoldLeft` is defined over sets of positions; `MultipartSteps` shows, by counting up
to the length of a body, that it is a function of the number of bytes read, each value
made of the one before by `ParseMultipart` (`FormSteps` and `FlattenSteps` do the same for
forms and for the concatenation a client makes).  `PartUnderstood` then walks through a
`Part` line by line (`TypeTurns`, `TokenTurns`, `PartPieces`); from the empty
line on everything is collected, the closing delimiter included, and its length is what
`WithoutEnding` cuts off.  So data that contains the delimiter does no harm.
`BodyErrors` is the other half: a body is refused with 400 or 415 or not at all.
`FormUnderstood` reads a character as its client spelled it (`SpelledRead`), then names
and values, then fields, by counting through the fields; that the later of two fields
with one name wins is `LastGrows`.

`ConfigProofs`, for any configuration files, ports taken and published files, under
`FileAssumption`:

* `StartsRight`: `ConfigSpec => []StartsAsItShould`
* `ServersRight`: `ConfigSpec => []ServersAsWritten`
* `StartupTypes`: `ConfigSpec => []StartupTypeOK`, whether or not a file is well-formed

A well-formed file has a `Shape`: the depth, 0, 1 or 2, that each line leaves us at.  It
exists because brackets are counted by lines (`Brackets`), and it says where the
block of a line ends; each of the five readers, counting in its own way, finds the same
end, and in it the same lines (`BlockEnd`, `HeadLines`, `OwnLines`, `LocationLines`).
What a reader throws at is then what `Acceptable` excludes, but for the lines of `Stricter`
and `Looser`, which are taken apart key by key, and that a limit of 2048M or more is read modulo
2^32 (`LimitRead`).  The locations are a fold of
`addLocation()` over those of the block, of which the last with a name stays.  The
inductive invariant is `StartInv`: the servers made so far are a prefix of `Blocks`,
with their ports, and what is listened on is those and nothing else (`Made`);
`create_servers()` is at the next block; and a refusal was due (`Starting`).
`NextServer` is the step.  `StartupTypes` needs nothing of a file: the end of a block,
however it is counted, is a line of the file (`BlockEndIn`), and what `setPort()` binds
is an allowed port (`PortsAllowed`).

`SiteProofs`, for any requests, inputs, configuration files, published files and
boundary, under the assumptions of `Site`, `Config` and `Bodies`:

* `SiteStarts`: `Spec => ConfigSpec`, the site implements the start of the program;
  hence `SiteStartsRight` and `SiteServersRight`
* `UploadsKeptAlways`: `NamesApart` implies `Spec => []UploadsKept`
* `TextsKeptAlways`: `NamesApart` implies `Spec => []TextsKept`
* `FormsUnderstoodAlways`: `NamesApart` implies `Spec => []FormsUnderstood`
* `RoutedToLongestAlways`: `NamesApart` implies `Spec => []RoutedToLongest`
* `ChangesAccountedForAlways`: `NamesApart` implies `Spec => ChangesAccountedFor`
* `TypeCorrect`: `NamesApart` implies `Spec => []TypeOK`

For `UploadsKept` the invariant is `SiteInv`.  The property alone is not
inductive: it says nothing of files that no answer names, of what the next name
will be, or of why the directory is gone.  `LogTyped` says that each answer is to a
request that is done, so that what it asked no longer changes; `GoneKnown`
that the upload directory is missing only after a 204 for it; `UploadsSafe` that
every upload has the name of an image (`IsImageName`), hence is neither a listing
nor `hello.txt` (`OthersNames`).  `FreeName` is the search of `setFileName()`: among one
more names than there are files one is free (the pigeonhole principle), and the
first of these is in no file's way.  Each step then either answers
(`AnswerKeeps`) or does not (`QuietKeeps`); what is shown of an answer is that it
spares the uploads but the one it removes (`Spares`), and that an image it
promises is in a new file (`Saves`).

`TextsKept` needs in addition that only a POST awaits a body (`TextsSafe`).
`TextsSteps` takes the texts of the answers apart as `MultipartSteps` does bodies; an answer
`Tells` if it does to the file what it does to the texts.  An image, a listing,
a page of a directory and an error page leave the file alone; a text is added as it was
meant, by `PartUnderstood`; a DELETE of it empties both.

`FormsUnderstood` is inductive with the codes of the answers (`SaidWell`): only
`TakesForm` answers a form with 201, and `FormUnderstood` says what the answer holds.

For `RoutedToLongest` the invariant is that a request that was checked is at `Walk` of
its URI (`RoutedWell`).  The stops of `Walk` are the beginnings of the URI that end in whole
segments; a location covers a URI without a query exactly if its name is one of them, so that the
last stop at which a location is found has the longest name.  That the location
found there has the settings that the block gives it last is `Means`, from the proofs about
`Config`.

For `ChangesAccountedFor` each step is shown to do nothing to the files, to write one that is
new, a listing or an addition to the texts (`Writes`), or to remove one as its answer says
(`Removes`).  What is removed is the place its path leads to, and it has to mention an upload
itself.  `PlaceSteps` makes a way of the fold `Place`, token by token; along a way without ".." every
name that was passed stays in the place (`FollowsTo`, `FollowsOn`), so that a path that
mentions an upload leads to one (`PlaceMentions`).  With a ".." it need not, which is the
exception in the property.  No assumption is made about the directories or about where else the
words occur.

`TypeOK` is inductive with the codes of the answers, the server that is asked (`Asked`) and what
the check said to a request whose body is awaited (`RoutedWell`).

`NamesApart` is the one hypothesis: names that `setFileName()` tries for one type
and different numbers are different, and none is `autoindex.html`, `listing.json`,
`hello.txt` or a slash.  It is about decimal numerals and the concatenation of strings,
which the provers do not take apart; the names in question are `image.png`,
`image1.png` and so on, and TLC finds it true of the first 121 of each type
(`NamesApartAtFirst` in `SiteMC`).  Forms and routing need it only as they rest on the same
types of files and answers.

The proofs changed the model where it was wrong or could not be reasoned about:

* `Content-Length` had been converted like a chunk size and wrapped around; some
  `CASE`s of the handlers had overlapping arms, of which TLA+ may take any and TLC
  takes the first; conversions are recursive functions now, and what clients send is a set
  (`Request`).
* What the inputs of `Site` mean was a property of its instance only and is an
  assumption now; the texts of the answers are a recursive function.
* The fields of a form were a sequence, in the order of the form; `_post_data` is a
  map.
* A location whose name is a bracket was well-formed, though `_bracketsClosed()` counts it.
  A negative limit was well-formed too.
* `Means` compared the locations of a server by the first of each name, which says
  nothing if there is none; it is now a set of which each location is a member.
* `RoutedToLongest` holds for well-formed files only, and for names of locations that
  do not end in a slash or hold a query; the instance had no others.
* `ChangesAccountedFor` asks that the location allows DELETE; what a location says is
  defined for well-formed files only, so the clause is about those.  The paths of the model were
  literal once, and it was true of every request; now that they lead where the file
  system says it is not, for one with a "..".
* No request of the parser's instance broke off its first line, and `Undisturbed` was proved
  without `Lost`.
* The fields of a form could have no spaces; the output of a script had no NUL byte, and
  200 meant all of it; and what `Acceptable` allowed in a line was what the code's own readers
  allow.
* The types of `Config` did not say that servers are of lines that were read, and
  what is listened on may also be what other programs had.


Only model-checked:

* `ClientsAccepted`, `RequestsAnswered`, `IdleConnectionsEnd`, `ServerReturns`: liveness
  under fairness and `ENABLED` are out of the prover's reach.

## 6. Not modelled

Left out for good: the logger, the string helpers, getters and setters, exception texts, headers and
status lines of responses, the content of pages; `server_name` (`obtainName`
compares seven characters with twelve and returns nothing) and `cgi` of the
configuration, on which no file or answer's status depends (`ResponseBuilder.cpp:15` does
read the first name of the emptied vector, which is undefined and finds the
default name in practice); and `src/studies`, which are notes and
exercises.  `send()` is taken to accept a
whole response or, in `CGI`, to raise SIGPIPE; a response is one atomic step of `EventLoop`, which is why a
script that blocks the loop is the business of `CGI`.  Memory exhaustion, full
disks, files without permission, and failures of `socket`, `setsockopt` and
`listen` other than those that follow from the descriptor limit are not
modelled.
