--------------------------------- MODULE Config ---------------------------------
(***************************************************************************)
(* From a configuration file to the servers of a running program:          *)
(* ServerParser::setConf(), WebServ::create_servers() and the constructor  *)
(* of Server.  Each of them finds the blocks of the file again, on its own *)
(* and with a counter of its own; the same lines are read up to four times.*)
(*                                                                         *)
(* A file is the sequence of its lines that are not empty, and a line the  *)
(* sequence of its words, strings, which one space separates; comments are *)
(* lines, or words, like any other.                                        *)
(***************************************************************************)
EXTENDS Routing

CONSTANTS
  Files,         \* a sequence of the configuration files of this instance
  Numeral,       \* what strtoi() makes of a word: 0 if that is no number
  Unit,          \* 1024 or 1048576 for a word that ends in K or M, else 1
  Figures,       \* the words that are digits, or digits and one of these units
  PathOf,        \* a word as a path
  Alphabetical,  \* the names of files, sorted
  Directories,   \* the directories at the start
  Published,     \* and the files with something in them
  Taken          \* ports that other programs listen on

VARIABLES
  file,     \* which file it is
  stage,    \* "check", "create", "running"; "refused" or "crashed" for ever
  at,       \* create_servers()'s index
  servers,  \* the servers made: the line each was made from, and its port
  bound     \* the ports that are listened on

startup == <<file, stage, at, servers, bound>>

AllMethods == {"GET", "POST", "DELETE"}
ErrorCodes == (400..417) \cup (421..426) \cup {418, 428, 429, 431, 451} \cup (500..508)
                \cup {510, 511}
MaxBodySize == 1048576
FirstPort == 1024
LastPort == 65535
Ports == FirstPort..LastPort
BufferSizes == 1..1024
DefaultRoot == <<"content">>   \* ROOT
ErrorLocation == <<"content", "/", "error_pages", "/">>

Unset == 0   \* _port was never written

----------------------------------------------------------------------------
(* Lines: a bracket is a word                                              *)

Open == "{"
Close == "}"
Opening == <<"server", Open>>
Closing == <<Close>>
Has(line, key) == Len(line) > 1 /\ line[1] = key
InOrder(S) ==   \* the numbers in S, from the least to the greatest
  [n \in 1..Cardinality(S) |-> CHOOSE k \in S : Cardinality({j \in S : j < k}) = n - 1]
Occurrences(f, word) ==
  Cardinality(UNION {{<<k, n>> : n \in {m \in DOMAIN f[k] : f[k][m] = word}} : k \in DOMAIN f})

(* Lines are not empty, and words are strings.  A limit is an integer,     *)
(* with or without a unit.                                                 *)
ASSUME FileAssumption ==
  \A n \in DOMAIN Files :
    /\ Files[n] \in Seq(Seq(STRING) \ {<<>>})
    /\ \A k \in DOMAIN Files[n] : Has(Files[n][k], "client_max_body_size") =>
         Numeral[Files[n][k][2]] \in Int /\ Unit[Files[n][k][2]] \in {1, 1024, 1048576}

----------------------------------------------------------------------------
(* Values: server_builder.cpp                                              *)

RootOf(line) == DefaultRoot \o (IF line = <<"root", "/">> THEN <<>> ELSE PathOf[line[2]])
PageOf(line) == ErrorLocation \o PathOf[line[3]]
IndexPage(root, word) == root \o <<"/">> \o PathOf[word]

(* The pages are kept in a std::set, and the first of it is served.        *)
FirstPage(root, line) ==
  LET words == ToSet(Tail(line))
  IN IndexPage(root, SelectSeq(Alphabetical, LAMBDA name : name \in words)[1])

RootIndex(root) == LET page == IndexPage(root, "index.html")
                   IN IF page \in Published THEN page ELSE IndexPage(DefaultRoot, "index.html")

(* An int: number times unit, modulo 2^32.                                 *)
BodySize(word) ==
  LET half == 2147483647 \div Unit[word] + 1   \* 2^31 / unit
  IN IF Unit[word] = 1 THEN Numeral[word]
     ELSE (((Numeral[word] + half) % (2 * half)) - half) * Unit[word]

(* What makes the readers throw.                                           *)
Invalid(line, root) ==
  \/ Has(line, "listen") /\ Numeral[line[2]] \notin Ports
  \/ Has(line, "client_max_body_size") /\ BodySize(line[2]) > MaxBodySize
  \/ Has(line, "buffer_size") /\ Numeral[line[2]] \notin BufferSizes
  \/ Has(line, "root") /\ Unslashed(RootOf(line)) \notin Directories
  \/ Has(line, "redirect") /\ Len(line) # 2
  \/ Has(line, "cgi") /\ Tail(line) # <<".py", "python3">>
  \/ Has(line, "autoindex") /\ Tail(line) \notin {<<"true">>, <<"false">>}
  \/ Has(line, "allowed_methods") /\ (Len(line) > 4 \/ ~(ToSet(Tail(line)) \subseteq AllMethods))
  \/ /\ Has(line, "error_page")
     /\ Len(line) # 3 \/ Numeral[line[2]] \notin ErrorCodes \/ PageOf(line) \notin Published
  \/ /\ Has(line, "index")
     /\ \E k \in 2..Len(line) : IndexPage(root, line[k]) \notin Published
  \/ Has(line, "location") /\ Len(line) > 2 /\ line[3] # Open

(* The value that the last of the lines of f at "where" with this key has. *)
LastWith(f, where, key) == Max({k \in where : Has(f[k], key)} \cup {0})
Value(f, where, key, Read(_), default) ==
  LET k == LastWith(f, where, key) IN IF k = 0 THEN default ELSE Read(f[k])

PagesIn(f, where) ==
  LET lines(c) == {k \in where : Has(f[k], "error_page") /\ Numeral[f[k][2]] = c}
  IN [c \in {d \in ErrorCodes : lines(d) # {}} |-> PageOf(f[Max(lines(c))])]

(* Settings as module Routing has them, of a server or of a location; a    *)
(* server's root and methods are looked for in other lines than the rest.  *)
SettingsIn(f, name, head, body) ==
  LET root == Value(f, head, "root", RootOf, DefaultRoot)
  IN [name |-> name, root |-> root,
      methods |-> Value(f, head, "allowed_methods", LAMBDA l : ToSet(Tail(l)), AllMethods),
      redirect |-> Value(f, body, "redirect", LAMBDA l : PathOf[l[2]], <<>>),
      index |-> Value(f, body, "index", LAMBDA l : FirstPage(root, l), RootIndex(root)),
      autoindex |-> Value(f, body, "autoindex", LAMBDA l : l[2] = "true", FALSE),
      pages |-> PagesIn(f, body)]

PortIn(f, where) == Value(f, where, "listen", LAMBDA l : Numeral[l[2]], Unset)
LimitIn(f, where) == Value(f, where, "client_max_body_size", LAMBDA l : BodySize(l[2]), MaxBodySize)
BufferIn(f, where) == Value(f, where, "buffer_size", LAMBDA l : Numeral[l[2]], 256)

----------------------------------------------------------------------------
(* setConf()                                                               *)

(* _minimalRequirements(): a listen line before the next closing one.      *)
MinimalRequirements(f, k) ==
  \E j \in k..Len(f) : f[j][1] = "listen" /\ \A h \in k..j : f[h] # Closing

ListenSeen(f, k) == \E j \in 1..k : f[j] # Opening /\ MinimalRequirements(f, j)

(* extraBrackets behind line k: never below 0.                             *)
ExtraBrackets(f, k) ==
  LET locations(j) == Cardinality({h \in 1..j : Has(f[h], "location")})
      closings(j) == Cardinality({h \in 1..j : f[h] = Closing})
  IN locations(k) - closings(k) - Min({locations(j) - closings(j) : j \in 0..k})

(* A line that the inner loop stops at: it may be the last.                *)
Stop(f, k) == f[k] = Opening \/ (f[k] = Closing /\ ExtraBrackets(f, k - 1) = 0)

(* The two nested loops visit each line once.                              *)
SetConfThrows(f) ==
  \/ f[1] # Opening
  \/ Occurrences(f, Open) # Occurrences(f, Close)
  \/ \E k \in 2..Len(f) : \/ f[k] = Closing /\ f[k - 1] = Opening
                          \/ Stop(f, k) /\ ~ListenSeen(f, k)

(* Undefined behaviour: the first line of a file without any is read, and, *)
(* unless the last line ends a block, the lines behind the vector are.     *)
Verdicts(f) ==
  CASE f = <<>> -> {"refused", "crashed"}
    [] f # <<>> /\ SetConfThrows(f) -> {"refused"}
    [] f # <<>> /\ ~SetConfThrows(f) ->
         {"create"} \cup (IF Last(f) = Closing /\ Stop(f, Len(f)) THEN {} ELSE {"refused", "crashed"})

----------------------------------------------------------------------------
(* A server of the block that line k opens, or of whatever begins there    *)

(* The first closing line; as the end of a block, faulty.                  *)
FirstClosing(f, k) == Min({j \in k..Len(f) : f[j] = Closing} \cup {Len(f)})

(* Where setPort() and create_servers() see the end of the block.          *)
BlockEnd(f, k) ==
  LET before(j) == Cardinality({h \in k..j : Has(f[h], "location")})
                     - Cardinality({h \in k..j - 1 : f[h] = Closing})
  IN Min({j \in k..Len(f) : f[j] = Closing /\ before(j) = 0} \cup {Len(f)})

(* The lines in which the constructor looks for the root and the methods.  *)
HeadLines(f, k) ==
  k..Min({j \in k..Len(f) : Has(f[j], "location") \/ f[j] = Closing} \cup {Len(f)})

(* It looks for locations, skips the lines of each it finds, and finds the *)
(* rest in the others, up to the first closing line among them.            *)
Skipped(f, k, j) ==
  \E h \in k..j - 1 : Has(f[h], "location") /\ \A n \in h..j - 1 : f[n] # Closing

BodyLines(f, k) ==
  LET kept == {j \in k..Len(f) : ~Skipped(f, k, j)}
      end == Min({j \in kept : f[j] = Closing} \cup {Len(f)})
      lines == {j \in kept : j <= end}
      places == {j \in lines : Has(f[j], "location")}
  IN [own |-> lines \ places, locations |-> InOrder(places)]

LocationLines(f, k) == k..FirstClosing(f, k)

(* obtainLoc()                                                             *)
ObtainLoc(f, k) ==
  LET lines == LocationLines(f, k)
      name == PathOf[f[LastWith(f, lines, "location")][2]]
  IN SettingsIn(f, name, lines, lines)

ServerFrom(f, k) ==
  LET body == BodyLines(f, k)
      ports == k..BlockEnd(f, k)
  IN [from |-> k, port |-> PortIn(f, ports),
      limit |-> LimitIn(f, body.own), buffer |-> BufferIn(f, body.own),
      settings |-> SettingsIn(f, <<>>, HeadLines(f, k), body.own),
      locations |-> Locations([n \in DOMAIN body.locations |-> ObtainLoc(f, body.locations[n])])]

(* Undefined behaviour: a location without a second word, or without an    *)
(* end, is read beyond.                                                    *)
ReadsBeyond(f, k) ==
  \E n \in ToSet(BodyLines(f, k).locations) :
    \/ f[Max(LocationLines(f, n))] # Closing
    \/ \E j \in LocationLines(f, n) : Has(f[j], "location") /\ Len(f[j]) = 2

ConstructorThrows(f, k) ==
  LET body == BodyLines(f, k)
      RootOfServer == Value(f, HeadLines(f, k), "root", RootOf, DefaultRoot)
      RootAt(n) == Value(f, LocationLines(f, n), "root", RootOf, DefaultRoot)
      Elsewhere == {"root", "allowed_methods", "listen"}
      OnlyOfServers == {"listen", "client_max_body_size", "buffer_size"}
  IN \/ \E j \in k..BlockEnd(f, k) : f[j][1] = "listen" /\ Invalid(f[j], <<>>)
     \/ \E j \in HeadLines(f, k) : f[j][1] \in {"root", "allowed_methods"} /\ Invalid(f[j], <<>>)
     \/ \E j \in body.own : f[j][1] \notin Elsewhere /\ Invalid(f[j], RootOfServer)
     \/ \E n \in ToSet(body.locations) : \E j \in LocationLines(f, n) :
          f[j][1] \notin OnlyOfServers /\ Invalid(f[j], RootAt(n))

(* Each listen line opens a socket of its own.                             *)
Listening(f, k) == {j \in k..BlockEnd(f, k) : Has(f[j], "listen")}
PortsOf(f, k) == {Numeral[f[j][2]] : j \in Listening(f, k)}
CannotBind(f, k, ports) ==
  PortsOf(f, k) \cap ports # {} \/ Cardinality(PortsOf(f, k)) < Cardinality(Listening(f, k))

----------------------------------------------------------------------------

Lines == Files[file]

ConfigInit ==
  /\ file \in DOMAIN Files /\ stage = "check" /\ at = 1
  /\ servers = <<>> /\ bound = Taken

CheckConf ==
  /\ stage = "check" /\ stage' \in Verdicts(Lines)
  /\ UNCHANGED <<file, at, servers, bound>>

AtCreate == stage = "create" /\ at <= Len(Lines)

CreateFails ==
  /\ AtCreate
  /\ ReadsBeyond(Lines, at) \/ ConstructorThrows(Lines, at) \/ CannotBind(Lines, at, bound)
  /\ stage' \in {"refused"} \cup (IF ReadsBeyond(Lines, at) THEN {"crashed"} ELSE {})
  /\ UNCHANGED <<file, at, servers, bound>>

BehindOne(f, k) == k + 1   \* faulty: the next line, whatever it is
BehindServer(f, k) ==
  IF SubSeq(f[k], 1, Min({2, Len(f[k])})) = Opening THEN BlockEnd(f, k) + 1 ELSE k + 1

(* A server that was made of a line like the last of the file is not kept, *)
(* and no other is made.                                                   *)
CreateServer ==
  /\ AtCreate
  /\ ~ReadsBeyond(Lines, at) /\ ~ConstructorThrows(Lines, at) /\ ~CannotBind(Lines, at, bound)
  /\ LET port == PortIn(Lines, at..BlockEnd(Lines, at))
     IN \/ /\ Lines[at] = Last(Lines)
           /\ stage' = "running" /\ UNCHANGED <<at, servers>>
        \/ /\ Lines[at] # Last(Lines)
           /\ at' = BehindServer(Lines, at)
           /\ \/ servers' = Append(servers, [from |-> at, port |-> port])
              \/ port = Unset /\ UNCHANGED servers   \* _socket, unset too, is a key
           /\ UNCHANGED stage
  /\ bound' = bound \cup PortsOf(Lines, at)
  /\ UNCHANGED file

(* checkPort(): a port that was never set may be equal to any.             *)
PortSeemsTaken ==
  /\ AtCreate /\ Lines[at] # Last(Lines)
  /\ ~ReadsBeyond(Lines, at) /\ ~ConstructorThrows(Lines, at) /\ ~CannotBind(Lines, at, bound)
  /\ \E k \in DOMAIN servers : Unset \in {servers[k].port, PortIn(Lines, at..BlockEnd(Lines, at))}
  /\ stage' = "refused" /\ bound' = bound \cup PortsOf(Lines, at)
  /\ UNCHANGED <<file, at, servers>>

CreateDone ==
  /\ stage = "create" /\ at > Len(Lines) /\ stage' = "running"
  /\ UNCHANGED <<file, at, servers, bound>>

Startup == CheckConf \/ CreateFails \/ PortSeemsTaken \/ CreateServer \/ CreateDone

ConfigSpec == ConfigInit /\ [][Startup]_startup

----------------------------------------------------------------------------
(* Every variable has its type; what is listened on was asked for, and a   *)
(* server is of a line that was read and listens on a port that is bound.  *)
StartupTypeOK ==
  /\ file \in DOMAIN Files /\ stage \in {"check", "create", "running", "refused", "crashed"}
  /\ at \in 1..Len(Lines) + 1 /\ bound \subseteq Taken \cup Ports
  /\ \A k \in DOMAIN servers : servers[k].from \in 1..at - 1 /\ servers[k].port \in {Unset} \cup bound

----------------------------------------------------------------------------
(* What a file means: brackets nest, and a line belongs to what it is in   *)

Braces(f, k) == Occurrences(SubSeq(f, 1, k), Open) - Occurrences(SubSeq(f, 1, k), Close)
Extent(f, k) == k..Min({j \in k..Len(f) : Braces(f, j) = Braces(f, k) - 1})
Level(f, k) == {j \in Extent(f, k) : Braces(f, j) = Braces(f, k)}

Blocks(f) == InOrder({k \in DOMAIN f : f[k] = Opening})
LocationsWithin(f, k) == InOrder({j \in Extent(f, k) : Has(f[j], "location")})

(* A bracket ends its line; locations are in servers, servers in nothing;  *)
(* each server has one port, and its root and methods before its           *)
(* locations; and no limit is negative.                                    *)
WellFormed(f) ==
  /\ f # <<>>
  /\ \A k \in DOMAIN f :
       /\ Open \in ToSet(f[k]) <=> f[k] = Opening \/ (Has(f[k], "location") /\ Len(f[k]) = 3)
       /\ Close \in ToSet(f[k]) <=> f[k] = Closing
       /\ Braces(f, k) >= 0
       /\ f[k] = Opening <=> Braces(f, k - 1) = 0
       /\ Has(f[k], "location") =>
            Len(f[k]) = 3 /\ f[k][2] # Open /\ f[k][3] = Open /\ Braces(f, k - 1) = 1
  /\ Braces(f, Len(f)) = 0
  /\ \A k \in ToSet(Blocks(f)) :
       /\ \E j \in Level(f, k) : {h \in Extent(f, k) : Has(f[h], "listen")} = {j}
       /\ \A j \in Level(f, k), h \in ToSet(LocationsWithin(f, k)) :
            f[j][1] \in {"root", "allowed_methods"} => j < h
  /\ \A k \in DOMAIN f : Has(f[k], "client_max_body_size") => Numeral[f[k][2]] >= 0

DeclaredSettings(f, name, k) == SettingsIn(f, name, Level(f, k), Level(f, k))
DeclaredLocations(f, k) ==
  LET lines == LocationsWithin(f, k)
  IN [n \in DOMAIN lines |-> DeclaredSettings(f, PathOf[f[lines[n]][2]], lines[n])]

(* What is documented of a line (src/README.md, the files tests/testes has *)
(* for bad ones, and, where they say nothing, the defaults of the code):   *)
(* a comment may follow, a number is one, and there is no word too many.   *)
Told(line) == SubSeq(line, 1, Min({k \in DOMAIN line : line[k] = "#"} \cup {Len(line) + 1}) - 1)
Number(word) == word \in Figures /\ Unit[word] = 1
TooLarge(word) == Numeral[word] > MaxBodySize \div Unit[word]
Documented(line, root) ==
  LET word == line[2]
      alone == Len(line) = 2
  IN /\ Has(line, "listen") => alone /\ Number(word) /\ Numeral[word] \in Ports
     /\ Has(line, "client_max_body_size") => alone /\ word \in Figures /\ ~TooLarge(word)
     /\ Has(line, "buffer_size") => alone /\ Number(word) /\ Numeral[word] \in 2..1023
     /\ Has(line, "cgi") => Tail(line) \in {<<".py", "python3">>, <<".py", "python", "3">>}
     /\ Has(line, "root") => alone /\ Unslashed(RootOf(line)) \in Directories
     /\ Has(line, "redirect") => alone
     /\ Has(line, "autoindex") => alone /\ word \in {"true", "false"}
     /\ Has(line, "allowed_methods") => Len(line) <= 4 /\ ToSet(Tail(line)) \subseteq AllMethods
     /\ Has(line, "error_page") =>
          Len(line) = 3 /\ Number(word) /\ Numeral[word] \in ErrorCodes /\ PageOf(line) \in Published
     /\ Has(line, "index") => \A k \in 2..Len(line) : IndexPage(root, line[k]) \in Published

(* Every line says what it may, and every server has a port of its own.    *)
DeclaredRoot(f, k) == Value(f, Level(f, k), "root", RootOf, DefaultRoot)
Acceptable(f) ==
  LET starts == ToSet(Blocks(f))
      places == starts \cup {k \in DOMAIN f : Has(f[k], "location")}
      port == [k \in starts |-> PortIn(f, Level(f, k))]
  IN /\ \A k \in places : \A j \in Level(f, k) :
          \/ k \notin starts /\ f[j][1] \in {"client_max_body_size", "buffer_size"}
          \/ Documented(Told(f[j]), DeclaredRoot(f, k))
     /\ \A k \in starts : port[k] \notin Taken /\ \A j \in starts \ {k} : port[j] # port[k]

(* Where the code refuses what is documented (src/README.md:21-37): at     *)
(* comments behind a value, and at "cgi .py python 3" (line 30).           *)
Stricter(f) ==
  \E k \in DOMAIN f : "#" \in ToSet(f[k]) \/ (Has(f[k], "cgi") /\ Len(f[k]) = 4)

(* Where it takes what is not: a word that only begins like a number, or   *)
(* does not even (bad_config/wrong_value.conf:4); words behind the first   *)
(* ("root / #" is not "root /"), a page named "#"; a buffer of 1 or of     *)
(* 1024 bytes (src/README.md:33).                                          *)
Looser(f) ==
  \E k \in DOMAIN f :
    LET line == Told(f[k])
    IN \/ \E key \in {"listen", "client_max_body_size", "buffer_size"} :
            Has(line, key) /\ Len(line) > 2
       \/ Has(f[k], "root") /\ Len(f[k]) > 2
       \/ Has(line, "error_page") /\ Len(line) < 3
       \/ \E key \in {"listen", "buffer_size", "error_page"} : Has(line, key) /\ ~Number(line[2])
       \/ Has(line, "client_max_body_size") /\ line[2] \notin Figures
       \/ Has(line, "buffer_size") /\ Numeral[line[2]] \in {1, 1024}

(* A limit of 2^31 bytes or more, which an int cannot tell from a small or *)
(* a negative one.                                                         *)
LimitWraps(f) ==
  \E k \in DOMAIN f : /\ Has(f[k], "client_max_body_size")
                      /\ Unit[f[k][2]] > 1 /\ Numeral[f[k][2]] > 2147483647 \div Unit[f[k][2]]

(* The verdicts on the files and their blocks.                             *)
WellFormedFiles == {n \in DOMAIN Files : WellFormed(Files[n])}
AcceptableFiles == {n \in WellFormedFiles : Acceptable(Files[n])}
RefusableFiles == WellFormedFiles \ {n \in AcceptableFiles : ~Stricter(Files[n])}
StartableFiles ==
  AcceptableFiles \cup {n \in WellFormedFiles : LimitWraps(Files[n]) \/ Looser(Files[n])}

(* The program never crashes on a well-formed file, and runs exactly if    *)
(* all in it is documented and its ports are distinct and free; but for a  *)
(* limit that wraps around, and the lines that the code is stricter about, *)
(* or looser, than the documents.                                          *)
StartsAsItShould ==
  file \in WellFormedFiles =>
    /\ stage # "crashed"
    /\ stage = "refused" => file \in RefusableFiles
    /\ stage = "running" => file \in StartableFiles

(* The server made of the block that line k opens is the one the block     *)
(* means: of two locations with one name, the later.                       *)
Means(f, k, server) ==
  LET declared == DeclaredLocations(f, k)
      LastNamed(n) == \A m \in n + 1..Len(declared) : declared[m].name # declared[n].name
  IN /\ server.port = PortIn(f, Level(f, k))
     /\ server.buffer = BufferIn(f, Level(f, k))
     /\ server.limit = LimitIn(f, Level(f, k))
     /\ server.settings = DeclaredSettings(f, <<>>, k)
     /\ ToSet(server.locations) = {declared[n] : n \in {m \in DOMAIN declared : LastNamed(m)}}

(* The blocks that a server can be made of, and what becomes of them.      *)
Starts(f) == {k \in ToSet(Blocks(f)) : ~ReadsBeyond(f, k) /\ ~ConstructorThrows(f, k)}
Built == [n \in DOMAIN Files |-> [k \in Starts(Files[n]) |-> ServerFrom(Files[n], k)]]
Understood ==
  [n \in WellFormedFiles |->
     {k \in DOMAIN Built[n] : Means(Files[n], k, Built[n][k])}]

(* Once the program runs on a well-formed file each of its blocks, in      *)
(* order, has become one server, on the port of that block, with its       *)
(* settings and its locations; and nothing else is listened on.            *)
ServersAsWritten ==
  stage = "running" /\ file \in WellFormedFiles =>
    /\ [k \in DOMAIN servers |-> servers[k].from] = Blocks(Lines)
    /\ \A k \in DOMAIN servers : servers[k].from \in Understood[file]
    /\ bound = Taken \cup {servers[k].port : k \in DOMAIN servers}
=============================================================================
