------------------------------ MODULE EventLoop ------------------------------
(***************************************************************************)
(* The poll() loop of webserv (src/WebServ/WebServ.cpp), the recovery loop *)
(* around it (main.cpp) and the read/ready life of a RequestBuilder        *)
(* (src/Request/RequestBuilder.cpp), with the sockets of the kernel and    *)
(* the clients as the environment.                                         *)
(*                                                                         *)
(* The server is one thread, but it is not alone: clients connect, send,   *)
(* hang up and reset between any two of its steps, so what poll() reported *)
(* is a snapshot, and CPU time (std::clock) passes between the steps too.  *)
(* One iteration of the for loop is the four steps "loop", "read",         *)
(* "write" and "expire" of pc, cut where the code looks at shared state    *)
(* again.  The parse of a request is abstracted to whether the bytes       *)
(* received so far complete it; a body that build() cannot parse is told   *)
(* apart because its exception leaves run().                               *)
(***************************************************************************)
EXTENDS Integers, Sequences, FiniteSets, SequencesExt

CONSTANTS
  Conns,        \* client connections; each connects once
  NumServers,   \* server blocks of the configuration, on ports 1..NumServers
  MaxFd,        \* the process's descriptor limit (EMFILE beyond it)
  Timeout,      \* TIMEOUT of define_server.hpp, in ticks of std::clock
  MaxRestarts,  \* bound on the poll() failures injected
  Env           \* what the environment does in this instance

(* A piece of a request as recv() returns it: one that leaves the request  *)
(* incomplete, one that completes it (or makes it an error response), and  *)
(* one that completes it with a form body that parse_body() rejects.       *)
Pieces == {"part", "last", "bad"}

Behaviours == Pieces \cup {"fin", "rst", "clock", "poll", "interrupt"}

ASSUME ConstantsAssumption ==
  /\ NumServers \in Nat \ {0}
  /\ MaxFd \in Nat /\ NumServers <= MaxFd
  /\ Timeout \in Nat
  /\ MaxRestarts \in Nat
  /\ Env \subseteq Behaviours

Fds == 1..MaxFd        \* descriptors, lowest free one first, from 1
Servers == 1..NumServers
Ages == 0..(Timeout + 1)   \* CPU time since an event; Timeout + 1 is "longer"
NoTime == -1               \* fds_time has no entry

VARIABLES
  proc,       \* the process: "up", "crashed" (a fatal signal) or "stopped"
  pc,         \* the server's next step
  i,          \* the for loop's index, from 1; also the index of restart's loop
  fd,         \* the local variable fd of run()
  pfds,       \* _pfds
  total_fds,  \* _total_fds
  requestBuilderMap,  \* _requestBuilderMap
  fds_map,    \* _fds_map, 0 where it has no entry
  fds_time,   \* _fds_time as the CPU time since the entry was made
  uptime,     \* CPU time since the process started (std::clock itself)
  openFds,    \* kernel: descriptors in use
  listens,    \* kernel: the port a descriptor listens on, or 0
  conn,       \* kernel and clients: the state of each connection
  restarts    \* how often main() has caught an exception

webserv == <<pfds, total_fds, requestBuilderMap, fds_map, fds_time>>
kernel == <<openFds, listens, conn>>
vars == <<proc, pc, i, fd, webserv, uptime, kernel, restarts>>

----------------------------------------------------------------------------
(* Data                                                                    *)

Pollfd == [fd : Fds, out : BOOLEAN, rin : BOOLEAN, rout : BOOLEAN]

(* "reading": is_ready() is false.  "ready": is_ready().  "throws":        *)
(* is_ready(), and build() will throw.  "freed": the pointer dangles.      *)
(* conns is the set of connections whose bytes the builder has parsed.     *)
Builder == [st : {"none", "reading", "ready", "throws", "freed"},
            server : 0..MaxFd, conns : SUBSET Conns]

Connection == [phase : {"out", "queued", "accepted", "closed"},
               port : 0..NumServers, fd : 0..MaxFd,
               data : Pieces \cup {"none"}, end : {"open", "fin", "rst"},
               age : Ages, answered : BOOLEAN]

NoBuilder == [st |-> "none", server |-> 0, conns |-> {}]
FreedBuilder == [st |-> "freed", server |-> 0, conns |-> {}]

IsServerSocket(f) == f \in Servers   \* _serverSockets holds the keys of _servers

ServerPollfd(f) == [fd |-> f, out |-> FALSE, rin |-> FALSE, rout |-> FALSE]
ClientPollfd(f) == [fd |-> f, out |-> TRUE, rin |-> FALSE, rout |-> FALSE]
ServerPollfds == [s \in Servers |-> ServerPollfd(s)]

Up == proc = "up"
Free == Fds \ openFds
LowestFree == CHOOSE f \in Free : \A g \in Free : f <= g

(* The connection a descriptor refers to: a set of at most one.            *)
OnFd(f) == {c \in Conns : conn[c].phase = "accepted" /\ conn[c].fd = f}
Queue(p) == {c \in Conns : conn[c].phase = "queued" /\ conn[c].port = p}

----------------------------------------------------------------------------
(* Initial state: main() has parsed the configuration, create_servers()    *)
(* has bound and listened on every port, and init() has filled _pfds.      *)

Init ==
  /\ proc = "up" /\ pc = "poll" /\ i = 1 /\ fd = 0
  /\ pfds = ServerPollfds
  /\ total_fds = NumServers
  /\ requestBuilderMap = [f \in Fds |-> NoBuilder]
  /\ fds_map = [f \in Fds |-> 0]
  /\ fds_time = [f \in Fds |-> NoTime]
  /\ uptime = 0
  /\ openFds = Servers
  /\ listens = [f \in Fds |-> IF f \in Servers THEN f ELSE 0]
  /\ conn = [c \in Conns |-> [phase |-> "out", port |-> 0, fd |-> 0, data |-> "none",
                              end |-> "open", age |-> 0, answered |-> FALSE]]
  /\ restarts = 0

----------------------------------------------------------------------------
(* Kernel calls                                                            *)

Ended(r) == [r EXCEPT !.phase = "closed", !.fd = 0, !.data = "none", !.end = "open", !.age = 0]

Leak(S, told) ==   \* faulty: the descriptors stay open
  UNCHANGED kernel

(* close() of the descriptors of S: connections on them end, and so do     *)
(* those queued at a listening socket that goes; a closed one is EBADF.    *)
Close(S, told) ==
  /\ openFds' = openFds \ S
  /\ listens' = [f \in Fds |-> IF f \in S THEN 0 ELSE listens[f]]
  /\ conn' = [c \in Conns |->
       IF \/ \E f \in S : c \in OnFd(f)
          \/ \E f \in S : listens[f] # 0 /\ c \in Queue(listens[f])
         THEN [Ended(conn[c]) EXCEPT !.answered = @ \/ c \in told]
         ELSE conn[c]]

Readable(f) ==
  \/ listens[f] # 0 /\ Queue(listens[f]) # {}
  \/ \E c \in OnFd(f) : conn[c].data # "none" \/ conn[c].end # "open"

(* Nothing is sent on a connection before its response, so its send buffer *)
(* has room for as long as it lives.                                       *)
Writable(f) == OnFd(f) # {}

(* A pollfd makes poll() return for an event, or with POLLNVAL or POLLHUP  *)
(* when its descriptor is closed or a socket that never listened.          *)
Wakes(e) ==
  \/ Readable(e.fd)
  \/ e.out /\ Writable(e.fd)
  \/ listens[e.fd] = 0 /\ OnFd(e.fd) = {}

Polled(e) == [e EXCEPT !.rin = Readable(e.fd), !.rout = e.out /\ Writable(e.fd)]

----------------------------------------------------------------------------
(* WebServ's helpers                                                       *)

KeepEntry(s, f) == s   \* faulty: nothing is erased

EraseFd(s, f) ==   \* erases the first entry of f, if there is one
  LET at == {k \in DOMAIN s : s[k].fd = f}
  IN IF at = {} THEN s ELSE RemoveAt(s, CHOOSE k \in at : \A j \in at : k <= j)

EndUncounted(f, told) ==   \* faulty: --_total_fds is missing
  /\ requestBuilderMap' = [requestBuilderMap EXCEPT ![f] = NoBuilder]
  /\ pfds' = EraseFd(pfds, f)
  /\ fds_map' = [fds_map EXCEPT ![f] = 0]
  /\ UNCHANGED total_fds
  /\ Close({f}, told)

EndKeepingBuilder(f, told) ==   \* faulty: the builder survives its connection
  /\ pfds' = EraseFd(pfds, f)
  /\ fds_map' = [fds_map EXCEPT ![f] = 0]
  /\ total_fds' = total_fds - 1
  /\ Close({f}, told)
  /\ UNCHANGED requestBuilderMap

EndKeepingServer(f, told) ==   \* faulty: the entry of _fds_map survives
  /\ requestBuilderMap' = [requestBuilderMap EXCEPT ![f] = NoBuilder]
  /\ pfds' = EraseFd(pfds, f)
  /\ total_fds' = total_fds - 1
  /\ Close({f}, told)
  /\ UNCHANGED fds_map

EndMarkingServer(f, told) ==   \* faulty: _fds_map[fd] = -1 in place of erase(fd)
  /\ requestBuilderMap' = [requestBuilderMap EXCEPT ![f] = NoBuilder]
  /\ pfds' = EraseFd(pfds, f)
  /\ fds_map' = [fds_map EXCEPT ![f] = -1]
  /\ total_fds' = total_fds - 1
  /\ Close({f}, told)

EndFreeingBuilder(f, told) ==   \* faulty: deleted, as in clean(), but not erased
  /\ requestBuilderMap' = [requestBuilderMap EXCEPT ![f] = FreedBuilder]
  /\ pfds' = EraseFd(pfds, f)
  /\ fds_map' = [fds_map EXCEPT ![f] = 0]
  /\ total_fds' = total_fds - 1
  /\ Close({f}, told)

EndCountedTwice(f, told) ==   \* faulty: run() and _end_connection both count
  /\ requestBuilderMap' = [requestBuilderMap EXCEPT ![f] = NoBuilder]
  /\ pfds' = EraseFd(pfds, f)
  /\ fds_map' = [fds_map EXCEPT ![f] = 0]
  /\ total_fds' = total_fds - 2
  /\ Close({f}, told)

(* _end_connection(f); told are the connections a response was sent to.    *)
EndConnection(f, told) ==
  /\ requestBuilderMap' = [requestBuilderMap EXCEPT ![f] = NoBuilder]
  /\ pfds' = EraseFd(pfds, f)
  /\ fds_map' = [fds_map EXCEPT ![f] = 0]
  /\ total_fds' = total_fds - 1
  /\ Close({f}, told)

(* What becomes of the process when it uses the builder of f: nothing,     *)
(* unless the pointer dangles.                                             *)
AfterUse(f) == IF requestBuilderMap[f].st = "freed" THEN {"up", "crashed"} ELSE {"up"}

IsReady(f) ==   \* the values _is_ready_to_respond(f) can return
  CASE requestBuilderMap[f].st \in {"ready", "throws"} -> {TRUE}
    [] requestBuilderMap[f].st = "freed" -> BOOLEAN
    [] OTHER -> {FALSE}

(* _get_request_builder(f): the one in the map, or a new one bound to the  *)
(* Server of the socket the connection was accepted on.                    *)
GetBuilder(f) ==
  IF requestBuilderMap[f].st = "none"
    THEN [st |-> "reading", server |-> fds_map[f], conns |-> {}]
    ELSE requestBuilderMap[f]

(* parse() of one piece of c's request.                                    *)
Parsed(b, c, piece) ==
  IF b.st # "reading" THEN b
  ELSE [b EXCEPT !.conns = @ \cup {c},
                 !.st = CASE piece = "last" -> "ready"
                          [] piece = "bad" -> "throws"
                          [] OTHER -> "reading"]

----------------------------------------------------------------------------
(* run(): poll and the head of the for loop                                *)

Poll ==
  /\ Up /\ pc = "poll"
  /\ \E k \in DOMAIN pfds : Wakes(pfds[k])
  /\ pfds' = [k \in DOMAIN pfds |-> Polled(pfds[k])]
  /\ i' = 1 /\ pc' = "loop"
  /\ UNCHANGED <<proc, fd, total_fds, requestBuilderMap, fds_map, fds_time, uptime, kernel, restarts>>

PollFails ==
  /\ Up /\ pc = "poll" /\ "poll" \in Env /\ restarts < MaxRestarts
  /\ pc' = "clean"
  /\ UNCHANGED <<proc, i, fd, webserv, uptime, kernel, restarts>>

LoopTestShort ==   \* faulty: the last entry is left out
  /\ Up /\ pc = "loop"
  /\ IF i < total_fds
       THEN pc' = "read" /\ fd' = pfds[i].fd
       ELSE pc' = "poll" /\ fd' = fd
  /\ UNCHANGED <<proc, i, webserv, uptime, kernel, restarts>>

LoopTest ==
  /\ Up /\ pc = "loop"
  /\ IF i <= total_fds
       THEN pc' = "read" /\ fd' = pfds[i].fd
       ELSE pc' = "poll" /\ fd' = fd
  /\ UNCHANGED <<proc, i, webserv, uptime, kernel, restarts>>

----------------------------------------------------------------------------
(* run(): the POLLIN part                                                  *)

AtRead(readable) == Up /\ pc = "read" /\ pfds[i].rin = readable

NothingToRead ==
  /\ AtRead(FALSE) /\ pc' = "write"
  /\ UNCHANGED <<proc, i, fd, webserv, uptime, kernel, restarts>>

(* _create_connection: neither fds_map nor fds_time is overwritten when it *)
(* still has an entry for the descriptor the kernel hands out.             *)
Accept(c) ==
  /\ AtRead(TRUE) /\ IsServerSocket(fd)
  /\ listens[fd] # 0 /\ c \in Queue(listens[fd]) /\ Free # {}
  /\ LET new == LowestFree IN
       /\ pfds' = Append(pfds, ClientPollfd(new))
       /\ fds_map' = [fds_map EXCEPT ![new] = IF @ = 0 THEN fd ELSE @]
       /\ fds_time' = [fds_time EXCEPT ![new] = IF @ = NoTime THEN 0 ELSE @]
       /\ openFds' = openFds \cup {new}
       /\ conn' = [conn EXCEPT ![c].phase = "accepted", ![c].fd = new]
  /\ total_fds' = total_fds + 1
  /\ pc' = "write"
  /\ UNCHANGED <<proc, i, fd, requestBuilderMap, uptime, listens, restarts>>

(* accept() returns -1: no descriptor is left, or fd does not listen.      *)
AcceptFails ==
  /\ AtRead(TRUE) /\ IsServerSocket(fd)
  /\ Free = {} \/ listens[fd] = 0
  /\ pc' = "write"
  /\ UNCHANGED <<proc, i, fd, webserv, uptime, kernel, restarts>>

AtReceive == AtRead(TRUE) /\ ~IsServerSocket(fd)

(* What becomes of the process in _receive(f).  When f has no builder and  *)
(* fds_map no entry, _servers[0] is NULL and the builder's constructor     *)
(* dereferences it.                                                        *)
AfterReceive(f) == IF requestBuilderMap[f].st = "none" /\ fds_map[f] = 0
                     THEN {"crashed"} ELSE AfterUse(f)

ReceiveData(c) ==
  /\ AtReceive /\ c \in OnFd(fd) /\ conn[c].data # "none"
  /\ proc' \in AfterReceive(fd)
  /\ requestBuilderMap' = [requestBuilderMap EXCEPT
                             ![fd] = Parsed(GetBuilder(fd), c, conn[c].data)]
  /\ conn' = [conn EXCEPT ![c].data = "none"]
  /\ pc' = "write"
  /\ UNCHANGED <<i, fd, pfds, total_fds, fds_map, fds_time, uptime, openFds, listens, restarts>>

(* recv() returns 0: read() closes the descriptor, _end_connection does    *)
(* the rest and closes it again.                                           *)
ReceiveHangup(c) ==
  /\ AtReceive /\ c \in OnFd(fd) /\ conn[c].data = "none" /\ conn[c].end = "fin"
  /\ proc' \in AfterReceive(fd)
  /\ EndConnection(fd, {})
  /\ pc' = "write"
  /\ UNCHANGED <<i, fd, fds_time, uptime, restarts>>

(* recv() returns -1, which _bytes_readed, a size_t, keeps as its largest  *)
(* value: read() returns true, parse() reads and clears memory far beyond  *)
(* the buffer, and where that is not fatal the request has ended in error. *)
ReceiveError ==
  /\ AtReceive
  /\ \A c \in OnFd(fd) : conn[c].data = "none" /\ conn[c].end = "rst"
  /\ proc' \in AfterReceive(fd) \cup {"crashed"}
  /\ requestBuilderMap' =
       [requestBuilderMap EXCEPT ![fd] =
          [GetBuilder(fd) EXCEPT !.st = IF @ = "reading" THEN "ready" ELSE @,
                                 !.conns = @ \cup OnFd(fd)]]
  /\ pc' = "write"
  /\ UNCHANGED <<i, fd, pfds, total_fds, fds_map, fds_time, uptime, kernel, restarts>>

----------------------------------------------------------------------------
(* run(): the POLLOUT part                                                 *)

(* _pfds[i] is read again although the POLLIN part may have erased the     *)
(* entry: it is then the next connection's, or lies past the end.          *)
PollOut == IF i <= Len(pfds) THEN {pfds[i].rout} ELSE BOOLEAN

NothingToWrite ==
  /\ Up /\ pc = "write"
  /\ \E out \in PollOut, ready \in IsReady(fd) : ~(out /\ ready)
  /\ pc' = "expire"
  /\ UNCHANGED <<proc, i, fd, webserv, uptime, kernel, restarts>>

AtRespond == Up /\ pc = "write" /\ TRUE \in PollOut /\ TRUE \in IsReady(fd)

(* build(), _respond and _end_connection; send() to a connection that was  *)
(* reset fails, or raises SIGPIPE, which nothing handles.                  *)
Respond ==
  /\ AtRespond /\ requestBuilderMap[fd].st # "throws"
  /\ proc' \in AfterUse(fd) \cup
       (IF \E c \in OnFd(fd) : conn[c].end = "rst" THEN {"crashed"} ELSE {})
  /\ EndConnection(fd, OnFd(fd))
  /\ pc' = "expire"
  /\ UNCHANGED <<i, fd, fds_time, uptime, restarts>>

(* build() throws from parse_body(): the exception leaves run().           *)
BuildThrows ==
  /\ AtRespond /\ requestBuilderMap[fd].st = "throws"
  /\ pc' = "clean"
  /\ UNCHANGED <<proc, i, fd, webserv, uptime, kernel, restarts>>

----------------------------------------------------------------------------
(* run(): the timeout part                                                 *)

AgeOfProcess(f) == uptime   \* faulty: the entry of _fds_time is not used
AgeRenewed(f) == 0          \* faulty: every visit counts as activity

(* current - _fds_time[f]: operator[] makes a missing entry 0, the start   *)
(* of the process.                                                         *)
Age(f) == IF fds_time[f] = NoTime THEN uptime ELSE fds_time[f]

NotExpired ==
  /\ Up /\ pc = "expire"
  /\ \/ IsServerSocket(fd) /\ UNCHANGED fds_time
     \/ /\ ~IsServerSocket(fd) /\ Age(fd) <= Timeout
        /\ fds_time' = [fds_time EXCEPT ![fd] = Age(fd)]
  /\ pc' = "loop" /\ i' = i + 1
  /\ UNCHANGED <<proc, fd, pfds, total_fds, requestBuilderMap, fds_map, uptime, kernel, restarts>>

(* Also when the connection was ended earlier in this iteration: then      *)
(* _end_connection runs for the second time.                               *)
Expire ==
  /\ Up /\ pc = "expire" /\ ~IsServerSocket(fd) /\ Age(fd) > Timeout
  /\ proc' \in AfterUse(fd)
  /\ EndConnection(fd, {})
  /\ fds_time' = [fds_time EXCEPT ![fd] = NoTime]
  /\ pc' = "loop" /\ i' = i + 1
  /\ UNCHANGED <<fd, uptime, restarts>>

----------------------------------------------------------------------------
(* main()'s catch clause and the next turn of its loop                     *)

(* clean(): the builders are deleted but stay in the map, the descriptors  *)
(* are closed but stay in _pfds.                                           *)
Clean ==
  /\ Up /\ pc = "clean"
  /\ proc' \in UNION {AfterUse(f) : f \in Fds}
  /\ requestBuilderMap' = [f \in Fds |-> IF requestBuilderMap[f].st = "none" THEN NoBuilder
                                                                             ELSE FreedBuilder]
  /\ Close({pfds[k].fd : k \in 1..total_fds}, {})
  /\ total_fds' = 0
  /\ restarts' = restarts + 1
  /\ pc' = "restart" /\ i' = 1
  /\ UNCHANGED <<fd, pfds, fds_map, fds_time, uptime>>

RestartUnbound ==   \* faulty: the new socket is not made to listen
  /\ Up /\ pc = "restart" /\ i <= NumServers
  /\ openFds' = IF Free = {} THEN openFds ELSE openFds \cup {LowestFree}
  /\ i' = i + 1
  /\ UNCHANGED <<proc, pc, fd, webserv, uptime, listens, conn, restarts>>

(* restart_socket_servers(): configSocket() makes a new socket for port i; *)
(* bind() fails, and nobody asks, while an old one still listens on it.    *)
(* The keys of _servers stay the old descriptors.                          *)
RestartSocket ==
  /\ Up /\ pc = "restart" /\ i <= NumServers
  /\ IF Free = {} THEN UNCHANGED <<openFds, listens>>
     ELSE LET new == LowestFree IN
            /\ openFds' = openFds \cup {new}
            /\ listens' = IF \E f \in Fds : listens[f] = i THEN listens
                          ELSE [listens EXCEPT ![new] = i]
  /\ i' = i + 1
  /\ UNCHANGED <<proc, pc, fd, webserv, uptime, conn, restarts>>

(* init() appends the servers to the _pfds that clean() left behind.       *)
InitAgain ==
  /\ Up /\ pc = "restart" /\ i > NumServers
  /\ pfds' = pfds \o ServerPollfds
  /\ total_fds' = total_fds + NumServers
  /\ pc' = "poll"
  /\ UNCHANGED <<proc, i, fd, requestBuilderMap, fds_map, fds_time, uptime, kernel, restarts>>

(* SIGINT: stop() deletes the builders and closes the descriptors, then    *)
(* exit() lets the kernel close the rest.                                  *)
Interrupt ==
  /\ Up /\ "interrupt" \in Env
  /\ proc' \in IF \E f \in Fds : requestBuilderMap[f].st = "freed"
                 THEN {"stopped", "crashed"} ELSE {"stopped"}
  /\ Close(Fds, {})
  /\ UNCHANGED <<pc, i, fd, webserv, uptime, restarts>>

----------------------------------------------------------------------------
(* Clients and time                                                        *)

Connect(c, p) ==
  /\ Up /\ conn[c].phase = "out" /\ \E f \in Fds : listens[f] = p
  /\ conn' = [conn EXCEPT ![c].phase = "queued", ![c].port = p]
  /\ UNCHANGED <<proc, pc, i, fd, webserv, uptime, openFds, listens, restarts>>

Alive(c) == Up /\ conn[c].phase \in {"queued", "accepted"} /\ conn[c].end = "open"

Send(c, piece) ==
  /\ piece \in Env /\ Alive(c) /\ conn[c].data = "none"
  /\ conn' = [conn EXCEPT ![c].data = piece]
  /\ UNCHANGED <<proc, pc, i, fd, webserv, uptime, openFds, listens, restarts>>

HangUp(c, how) ==   \* an orderly close ("fin") or a reset ("rst")
  /\ how \in Env /\ Alive(c)
  /\ conn' = [conn EXCEPT ![c].end = how]
  /\ UNCHANGED <<proc, pc, i, fd, webserv, uptime, openFds, listens, restarts>>

(* accept() and recv() block: the descriptors are not O_NONBLOCK.          *)
Blocked ==
  /\ pc = "read" /\ pfds[i].rin
  /\ \/ IsServerSocket(fd) /\ Free # {} /\ listens[fd] # 0 /\ Queue(listens[fd]) = {}
     \/ ~IsServerSocket(fd) /\ \E c \in OnFd(fd) : conn[c].data = "none" /\ conn[c].end = "open"

(* std::clock() is CPU time: it stands still while the server waits.       *)
Running == /\ Up /\ ~Blocked
           /\ pc = "poll" => \E k \in DOMAIN pfds : Wakes(pfds[k])

Older(a) == IF a = Timeout + 1 THEN a ELSE a + 1

Tick ==
  /\ "clock" \in Env /\ Running
  /\ uptime' = Older(uptime)
  /\ fds_time' = [f \in Fds |-> IF fds_time[f] = NoTime THEN NoTime ELSE Older(fds_time[f])]
  /\ conn' = [c \in Conns |-> IF conn[c].phase = "accepted"
                                THEN [conn[c] EXCEPT !.age = Older(@)] ELSE conn[c]]
  /\ UNCHANGED <<proc, pc, i, fd, pfds, total_fds, requestBuilderMap, fds_map,
                 openFds, listens, restarts>>

----------------------------------------------------------------------------

Read == \/ NothingToRead \/ AcceptFails \/ ReceiveError
        \/ \E c \in Conns : Accept(c) \/ ReceiveData(c) \/ ReceiveHangup(c)
Write == NothingToWrite \/ Respond \/ BuildThrows
Recover == Clean \/ RestartSocket \/ InitAgain

System == Poll \/ LoopTest \/ Read \/ Write \/ NotExpired \/ Expire \/ Recover

Clients == \E c \in Conns :
             \/ \E p \in Servers : Connect(c, p)
             \/ \E piece \in Pieces : Send(c, piece)
             \/ \E how \in {"fin", "rst"} : HangUp(c, how)

Next == System \/ Clients \/ Tick \/ PollFails \/ Interrupt

Spec == Init /\ [][Next]_vars

(* The server is a running process, and its clock advances while it runs;  *)
(* clients owe it nothing.                                                 *)
Fairness == WF_vars(System) /\ WF_vars(Tick)
FairSpec == Spec /\ Fairness

----------------------------------------------------------------------------
(* Properties                                                              *)

(* Every variable has its type.                                            *)
TypeOK ==
  /\ proc \in {"up", "crashed", "stopped"}
  /\ pc \in {"poll", "loop", "read", "write", "expire", "clean", "restart"}
  /\ i \in Nat \ {0} /\ fd \in 0..MaxFd
  /\ pfds \in Seq(Pollfd) /\ total_fds \in Int
  /\ requestBuilderMap \in [Fds -> Builder]
  /\ fds_map \in [Fds -> 0..MaxFd]
  /\ fds_time \in [Fds -> Ages \cup {NoTime}]
  /\ uptime \in Ages
  /\ openFds \in SUBSET Fds
  /\ listens \in [Fds -> 0..NumServers]
  /\ conn \in [Conns -> Connection]
  /\ restarts \in Nat

(* run() subscripts _pfds[i] under the test i < _total_fds, a counter that *)
(* is kept apart from the vector: the counter never exceeds its size, and  *)
(* the entry read by the POLLIN part is the one fd was taken from.         *)
SubscriptInRange ==
  /\ total_fds <= Len(pfds)
  /\ pc = "read" => i <= Len(pfds) /\ pfds[i].fd = fd

(* The POLLOUT part subscripts _pfds[i] again after _receive may have      *)
(* erased an entry: either it is still fd's, or fd has no builder left, so *)
(* whatever the subscript yields, no response is built.                    *)
SecondSubscriptHarmless ==
  pc = "write" => \/ i <= Len(pfds) /\ pfds[i].fd = fd
                  \/ requestBuilderMap[fd] = NoBuilder

(* A descriptor number is reused as soon as it is closed, and the maps are *)
(* keyed by it.  Until main() first recovers from an exception, a builder  *)
(* holds the bytes of the connection now on its descriptor and of no       *)
(* earlier one, and answers for the server that connection asked.          *)
BuildersMatchConnections ==
  restarts = 0 /\ Up => \A f \in Fds :
    requestBuilderMap[f] # NoBuilder =>
      \E c \in OnFd(f) : /\ requestBuilderMap[f].conns = {c}
                         /\ requestBuilderMap[f].server = conn[c].port

(* Until the first recovery each accepted connection has exactly one       *)
(* pollfd, with POLLOUT, and its server in _fds_map, and every pollfd is   *)
(* of an open descriptor.                                                  *)
ConnectionsTracked ==
  restarts = 0 /\ Up =>
    /\ \A k \in DOMAIN pfds : pfds[k].fd \in openFds
    /\ \A c \in Conns : conn[c].phase = "accepted" =>
         /\ fds_map[conn[c].fd] = conn[c].port
         /\ \E k \in DOMAIN pfds :
              /\ pfds[k].fd = conn[c].fd /\ pfds[k].out
              /\ \A j \in DOMAIN pfds : pfds[j].fd = pfds[k].fd => j = k

(* As long as no connection outlives TIMEOUT and nothing is thrown, the    *)
(* counter kept by hand is the size of the vector, whatever was accepted   *)
(* and ended in between: no entry lies beyond the loop's bound.  It does   *)
(* not follow that a pass visits every entry, for an erase moves the next  *)
(* one to an index that i++ then leaves (WebServ.cpp:251, 85); that one is *)
(* served in a later pass, as ClientsAccepted and RequestsAnswered say.    *)
CounterExact == "clock" \notin Env /\ restarts = 0 => total_fds = Len(pfds)

(* The keys of _servers are the descriptors of the listening sockets; they *)
(* are never updated, yet restart_socket_servers() makes new sockets.      *)
(* Outside a recovery, each server still listens on its key.               *)
ListenersKeepKeys ==
  Up /\ pc \notin {"clean", "restart"} => \A s \in Servers : listens[s] = s

(* The process dies of a signal only after a recovery, which leaves freed  *)
(* builders in the map, or where a client has reset its connection: not of *)
(* a descriptor without a server, nor of SIGINT, whose handler deletes the *)
(* builders between any two steps.                                         *)
CrashesExplained ==
  [][proc' = "crashed" => restarts > 0 \/ \E c \in Conns : conn[c].end = "rst"]_vars

(* The process survives what clients do.                                   *)
NeverCrashes == proc # "crashed"

(* What a client sees of its connection, and which server is in charge of  *)
(* it: the one the tables say, first _fds_map, then the builder.           *)
BuilderOf(c) == requestBuilderMap[conn[c].fd]

StageOf(phase, builder, answered) ==
  CASE phase = "out" -> "out"
    [] phase = "queued" -> "waiting"
    [] phase = "accepted" -> IF builder \in {"ready", "throws"} THEN "complete" ELSE "open"
    [] phase = "closed" -> IF answered THEN "answered" ELSE "dropped"

Stage == [c \in Conns |-> StageOf(conn[c].phase, BuilderOf(c).st, conn[c].answered)]

InCharge ==
  [c \in Conns |->
     IF conn[c].phase # "accepted" THEN conn[c].port
     ELSE IF BuilderOf(c).st = "none" THEN fds_map[conn[c].fd]
     ELSE BuilderOf(c).server]

Asked == [c \in Conns |-> conn[c].data \in {"last", "bad"}]
Gone == [c \in Conns |-> conn[c].end # "open"]
Serving == Up /\ restarts = 0

Promise == INSTANCE Service WITH
  Ports <- Servers, Patient <- "clock" \notin Env,
  serving <- Serving, stage <- Stage, server <- InCharge, asked <- Asked, gone <- Gone

(* Until it stops, dies or recovers for the first time, the event loop     *)
(* does what Service promises: a client is served by the server it asked,  *)
(* answered at most once and only for a request of its own that is whole   *)
(* (or cut off), and dropped only if it left or a clock is there to run    *)
(* out.                                                                    *)
ServiceProvided == Promise!Spec

(* Expire ends only connections that have been open for longer than        *)
(* TIMEOUT.                                                                *)
OnlyOldConnectionsExpire ==
  [][\A c \in Conns : pc = "expire" /\ conn[c].phase = "accepted" /\ conn'[c].phase = "closed"
        /\ proc' = "up" => conn[c].age > Timeout]_vars

(* A client that has connected is eventually accepted.                     *)
ClientsAccepted == \A c \in Conns : conn[c].phase = "queued" ~> conn[c].phase # "queued"

(* A request received whole is eventually answered, unless its client      *)
(* leaves first.                                                           *)
RequestsAnswered ==
  \A c \in Conns : conn[c].data = "last" ~> conn[c].answered \/ conn[c].end # "open"
                                                           \/ conn[c].phase = "closed"

(* A connection that never completes its request is eventually ended.      *)
IdleConnectionsEnd == \A c \in Conns : conn[c].phase = "accepted" ~> conn[c].phase = "closed"
=============================================================================
