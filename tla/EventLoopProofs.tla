--------------------------- MODULE EventLoopProofs ---------------------------
(***************************************************************************)
(* Theorems about EventLoop, for any number of servers, connections and    *)
(* descriptors and whatever the environment does.                          *)
(*                                                                         *)
(* The subscripts of _pfds in run() are guarded by _total_fds, a counter   *)
(* that WebServ keeps beside the vector and that its operations update     *)
(* separately.  That they are in range is not inductive alone: it needs    *)
(* the types, and that fd is the descriptor of an entry while an           *)
(* iteration is under way (FdTaken).                                       *)
(***************************************************************************)
EXTENDS EventLoop, SequenceTheorems, WellFoundedInduction, TLAPS

(* While an iteration is under way fd is a descriptor.                     *)
FdTaken == pc \in {"read", "write", "expire"} => fd \in Fds

IInv == TypeOK /\ FdTaken /\ SubscriptInRange /\ SecondSubscriptHarmless

----------------------------------------------------------------------------
(* Lemmas about the operators                                              *)

(* Every set of natural numbers that is not empty has a least element.     *)
LEMMA LeastExists ==
  ASSUME NEW S \in SUBSET Nat, S # {}
  PROVE  \E x \in S : \A y \in S : x <= y
<1> DEFINE R == OpToRel(<, Nat)
<1>1. \E x \in S : \A y \in S : ~ (<<y, x>> \in R)
  BY NatLessThanWellFounded, WFMin
<1>2. \A x, y \in Nat : y < x => <<y, x>> \in R
  BY Zenon DEF OpToRel
<1> HIDE DEF R
<1>3. PICK x \in S : \A y \in S : ~ (<<y, x>> \in R)  BY <1>1
<1>4. \A y \in S : ~ (y < x)  BY <1>2, <1>3
<1>5. x \in Nat /\ S \subseteq Nat  OBVIOUS
<1>6. \A y \in S : x <= y  BY <1>4, <1>5
<1> QED  BY <1>6

(* The kernel hands out a descriptor, if one is free.                      *)
LEMMA LowestFreeIsFree ==
  ASSUME ConstantsAssumption, Free # {}
  PROVE  LowestFree \in Free
<1>1. Free \in SUBSET Nat  BY DEF Free, Fds, ConstantsAssumption
<1>2. \E f \in Free : \A g \in Free : f <= g  BY <1>1, LeastExists
<1> QED  BY <1>2 DEF LowestFree

(* Erasing an entry leaves a vector, shorter by at most one; if it is not  *)
(* shorter there was no entry of f.                                        *)
LEMMA EraseFdProperties ==
  ASSUME NEW s \in Seq(Pollfd), NEW f
  PROVE  /\ EraseFd(s, f) \in Seq(Pollfd)
         /\ Len(EraseFd(s, f)) >= Len(s) - 1
<1> DEFINE at == {k \in DOMAIN s : s[k].fd = f}
<1>1. CASE at = {}
  BY <1>1 DEF EraseFd
<1>2. CASE at # {}
  <2> DEFINE k == CHOOSE k \in at : \A j \in at : k <= j
  <2>1. at \in SUBSET Nat  BY LenProperties
  <2>2. k \in at  BY <1>2, <2>1, LeastExists
  <2>3. k \in 1..Len(s)  BY <2>2, LenProperties
  <2>4. EraseFd(s, f) = SubSeq(s, 1, k - 1) \o SubSeq(s, k + 1, Len(s))
    BY <1>2 DEF EraseFd, RemoveAt
  <2>5. /\ SubSeq(s, 1, k - 1) \in Seq(Pollfd)
        /\ Len(SubSeq(s, 1, k - 1)) = k - 1
    <3> HIDE DEF k
    <3>1. \A j \in 1..(k - 1) : s[j] \in Pollfd  BY <2>3, ElementOfSeq
    <3> QED  BY <2>3, <3>1, SubSeqProperties
  <2>6. /\ SubSeq(s, k + 1, Len(s)) \in Seq(Pollfd)
        /\ Len(SubSeq(s, k + 1, Len(s))) = Len(s) - k
    <3> HIDE DEF k
    <3>1. \A j \in (k + 1)..Len(s) : s[j] \in Pollfd  BY <2>3, ElementOfSeq
    <3> QED  BY <2>3, <3>1, SubSeqProperties
  <2> HIDE DEF k
  <2>7. /\ EraseFd(s, f) \in Seq(Pollfd)
        /\ Len(EraseFd(s, f)) = (k - 1) + (Len(s) - k)
    BY <2>4, <2>5, <2>6, ConcatProperties
  <2> QED  BY <2>3, <2>7
<1> QED  BY <1>1, <1>2

(* init() watches each listener once.                                      *)
LEMMA ServerPollfdsProperties ==
  ASSUME ConstantsAssumption
  PROVE  ServerPollfds \in Seq(Pollfd) /\ Len(ServerPollfds) = NumServers
<1>1. \A s \in 1..NumServers : ServerPollfd(s) \in Pollfd
  BY DEF ConstantsAssumption, ServerPollfd, Pollfd, Fds
<1>2. ServerPollfds \in [1..NumServers -> Pollfd]  BY <1>1 DEF ServerPollfds, Servers
<1>3. ServerPollfds \in Seq(Pollfd)  BY <1>2, SeqDef DEF ConstantsAssumption
<1>4. DOMAIN ServerPollfds = 1..NumServers  BY DEF ServerPollfds, Servers
<1> QED  BY <1>3, <1>4, LenProperties DEF ConstantsAssumption

(* close() leaves the kernel's state well typed.                           *)
LEMMA CloseTyped ==
  ASSUME ConstantsAssumption, TypeOK, NEW S, NEW told, Close(S, told)
  PROVE  /\ openFds' \in SUBSET Fds
         /\ listens' \in [Fds -> 0..NumServers]
         /\ conn' \in [Conns -> Connection]
<1>1. ASSUME NEW r \in Connection, NEW b \in BOOLEAN
      PROVE  [Ended(r) EXCEPT !.answered = b] \in Connection
  <2>1. 0 \in 0..NumServers /\ 0 \in 0..MaxFd /\ 0 \in Ages
    BY DEF Ages, ConstantsAssumption
  <2> QED  BY <2>1 DEF Ended, Connection
<1>2. \A r \in Connection : r.answered \in BOOLEAN  BY DEF Connection
<1>3. \A r \in Connection, c \in Conns : [Ended(r) EXCEPT !.answered = @ \/ c \in told]
            = [Ended(r) EXCEPT !.answered = r.answered \/ c \in told]
  BY DEF Ended, Connection
<1>4. conn' \in [Conns -> Connection]
  BY <1>1, <1>2, <1>3 DEF Close, TypeOK
<1>5. openFds' \in SUBSET Fds  BY DEF Close, TypeOK
<1>6. listens' \in [Fds -> 0..NumServers]  BY DEF Close, TypeOK, ConstantsAssumption
<1> QED  BY <1>4, <1>5, <1>6

(* _end_connection leaves the state well typed, the counter no larger than *)
(* the vector, and no builder on f.                                        *)
LEMMA EndConnectionProperties ==
  ASSUME ConstantsAssumption, TypeOK, total_fds <= Len(pfds),
         NEW f \in Fds, NEW told, EndConnection(f, told)
  PROVE  /\ pfds' \in Seq(Pollfd) /\ total_fds' \in Int
         /\ requestBuilderMap' \in [Fds -> Builder]
         /\ fds_map' \in [Fds -> 0..MaxFd]
         /\ openFds' \in SUBSET Fds
         /\ listens' \in [Fds -> 0..NumServers]
         /\ conn' \in [Conns -> Connection]
         /\ total_fds' <= Len(pfds')
         /\ requestBuilderMap'[f] = NoBuilder
<1>1. NoBuilder \in Builder  BY DEF NoBuilder, Builder, ConstantsAssumption
<1>2. pfds' \in Seq(Pollfd) /\ Len(pfds') >= Len(pfds) - 1
  BY EraseFdProperties DEF EndConnection, TypeOK
<1>3. total_fds' = total_fds - 1 /\ total_fds' \in Int  BY DEF EndConnection, TypeOK
<1>4. Len(pfds) \in Int /\ Len(pfds') \in Int  BY <1>2, LenProperties DEF TypeOK
<1>5. total_fds' <= Len(pfds')  BY <1>2, <1>3, <1>4 DEF TypeOK
<1>6. requestBuilderMap' \in [Fds -> Builder] /\ requestBuilderMap'[f] = NoBuilder
  BY <1>1 DEF EndConnection, TypeOK
<1>7. fds_map' \in [Fds -> 0..MaxFd]  BY DEF EndConnection, TypeOK, ConstantsAssumption
<1>8. Close({f}, told)  BY DEF EndConnection
<1> QED  BY <1>2, <1>3, <1>5, <1>6, <1>7, <1>8, CloseTyped

----------------------------------------------------------------------------
(* The invariant holds initially and every step preserves it               *)

USE ConstantsAssumption

(* The invariant holds at first.                                           *)
LEMMA InitInvariant == Init => IInv
<1> SUFFICES ASSUME Init PROVE IInv  OBVIOUS
<1>1. pfds \in Seq(Pollfd) /\ total_fds = NumServers /\ Len(pfds) = NumServers
  BY ServerPollfdsProperties DEF Init
<1>2. 0 \in Ages /\ 0 \in 0..MaxFd /\ 0 \in 0..NumServers /\ Servers \subseteq Fds
  BY DEF Ages, Servers, Fds
<1>3. requestBuilderMap \in [Fds -> Builder]  BY <1>2 DEF Init, NoBuilder, Builder
<1>4. conn \in [Conns -> Connection]  BY <1>2 DEF Init, Connection
<1>5. listens \in [Fds -> 0..NumServers]  BY <1>2 DEF Init, Servers
<1>6. TypeOK  BY <1>1, <1>2, <1>3, <1>4, <1>5 DEF Init, TypeOK
<1> QED  BY <1>1, <1>6 DEF Init, IInv, FdTaken, SubscriptInRange, SecondSubscriptHarmless

(* The steps that change only pc, i, fd and fds_time.                      *)
LEMMA ControlInvariant ==
  ASSUME IInv, PollFails \/ LoopTest \/ NothingToRead \/ AcceptFails
               \/ NothingToWrite \/ BuildThrows \/ NotExpired
  PROVE  IInv'
<1> USE DEF IInv
<1>1. CASE PollFails
  BY <1>1 DEF PollFails, TypeOK, FdTaken, SubscriptInRange, SecondSubscriptHarmless, webserv, kernel
<1>2. CASE LoopTest
  <2>1. CASE i <= total_fds
    <3>1. i \in 1..Len(pfds)
      BY <2>1, LenProperties DEF TypeOK, SubscriptInRange
    <3>2. pfds \in Seq(Pollfd)  BY DEF TypeOK
    <3>3. pfds[i] \in Pollfd  BY <3>1, <3>2, ElementOfSeq
    <3>4. pfds[i].fd \in Fds  BY <3>3 DEF Pollfd
    <3>5. fd' = pfds[i].fd /\ pc' = "read"  BY <1>2, <2>1 DEF LoopTest
    <3>6. fd' \in 0..MaxFd  BY <3>4, <3>5 DEF Fds
    <3>7. TypeOK'  BY <1>2, <3>5, <3>6 DEF LoopTest, TypeOK, webserv, kernel
    <3> QED  BY <1>2, <3>1, <3>4, <3>5, <3>7
             DEF LoopTest, FdTaken, SubscriptInRange, SecondSubscriptHarmless, webserv
  <2>2. CASE ~(i <= total_fds)
    BY <1>2, <2>2
       DEF LoopTest, TypeOK, FdTaken, SubscriptInRange, SecondSubscriptHarmless, webserv, kernel
  <2> QED  BY <2>1, <2>2
<1>3. CASE NothingToRead \/ AcceptFails
  BY <1>3 DEF NothingToRead, AcceptFails, AtRead, TypeOK, FdTaken, SubscriptInRange,
              SecondSubscriptHarmless, webserv, kernel
<1>4. CASE NothingToWrite \/ BuildThrows
  BY <1>4 DEF NothingToWrite, BuildThrows, AtRespond, TypeOK, FdTaken, SubscriptInRange,
              SecondSubscriptHarmless, webserv, kernel
<1>5. CASE NotExpired
  <2>1. fds_time' \in [Fds -> Ages \cup {NoTime}]
    BY <1>5 DEF NotExpired, TypeOK, FdTaken, Age
  <2> QED  BY <1>5, <2>1 DEF NotExpired, TypeOK, FdTaken, SubscriptInRange,
                             SecondSubscriptHarmless, kernel
<1> QED  BY <1>1, <1>2, <1>3, <1>4, <1>5

(* poll() reports on descriptors of the list.                              *)
LEMMA PollInvariant == ASSUME IInv, Poll PROVE IInv'
<1> USE DEF IInv
<1>1. \A e \in Pollfd : Polled(e) \in Pollfd
  BY DEF Polled, Pollfd, Readable, Writable
<1>2. /\ pfds \in [1..Len(pfds) -> Pollfd] /\ Len(pfds) \in Nat
      /\ DOMAIN pfds = 1..Len(pfds)
  BY LenProperties DEF TypeOK
<1>3. pfds' = [k \in 1..Len(pfds) |-> Polled(pfds[k])]  BY <1>2 DEF Poll
<1>4. pfds' \in [1..Len(pfds) -> Pollfd]  BY <1>1, <1>2, <1>3
<1>5. pfds' \in Seq(Pollfd)  BY <1>2, <1>4, SeqDef
<1>6. Len(pfds') = Len(pfds)
  <2>1. DOMAIN pfds' = 1..Len(pfds)  BY <1>3
  <2>2. DOMAIN pfds' = 1..Len(pfds') /\ Len(pfds') \in Nat  BY <1>5, LenProperties
  <2> QED  BY <1>2, <2>1, <2>2
<1>7. TypeOK'  BY <1>5 DEF Poll, TypeOK, kernel
<1> QED  BY <1>6, <1>7 DEF Poll, FdTaken, SubscriptInRange, SecondSubscriptHarmless

(* _create_connection() keeps the tables' invariant.                       *)
LEMMA AcceptInvariant == ASSUME IInv, NEW c \in Conns, Accept(c) PROVE IInv'
<1> USE DEF IInv
<1> DEFINE new == LowestFree
<1>1. new \in Fds
  <2>1. Free # {}  BY DEF Accept
  <2> QED  BY <2>1, LowestFreeIsFree DEF Free
<1>2. fd \in Fds  BY DEF Accept, AtRead, FdTaken
<1> HIDE DEF new
<1>3. /\ pfds' = Append(pfds, ClientPollfd(new))
      /\ fds_map' = [fds_map EXCEPT ![new] = IF @ = 0 THEN fd ELSE @]
      /\ fds_time' = [fds_time EXCEPT ![new] = IF @ = NoTime THEN 0 ELSE @]
      /\ openFds' = openFds \cup {new}
      /\ conn' = [conn EXCEPT ![c].phase = "accepted", ![c].fd = new]
  BY DEF Accept, new
<1>4. ClientPollfd(new) \in Pollfd  BY <1>1 DEF ClientPollfd, Pollfd
<1>5. /\ pfds' \in Seq(Pollfd) /\ Len(pfds') = Len(pfds) + 1
      /\ \A k \in 1..Len(pfds) : pfds'[k] = pfds[k]
  BY <1>3, <1>4, AppendProperties DEF TypeOK
<1>6. Len(pfds) \in Nat  BY LenProperties DEF TypeOK
<1>7. fds_map' \in [Fds -> 0..MaxFd]  BY <1>1, <1>2, <1>3 DEF TypeOK, Fds
<1>8. fds_time' \in [Fds -> Ages \cup {NoTime}]  BY <1>1, <1>3 DEF TypeOK, Ages
<1>9. conn' \in [Conns -> Connection]
  <2>1. conn[c] \in Connection  BY DEF TypeOK
  <2>2. conn' = [conn EXCEPT ![c] = [[conn[c] EXCEPT !.phase = "accepted"] EXCEPT !.fd = new]]
    BY <1>3, <2>1 DEF TypeOK, Connection
  <2>3. new \in 0..MaxFd  BY <1>1 DEF Fds
  <2>4. [[conn[c] EXCEPT !.phase = "accepted"] EXCEPT !.fd = new] \in Connection
    BY <2>1, <2>3 DEF Connection
  <2> QED  BY <2>2, <2>4 DEF TypeOK
<1>10. TypeOK'
  <2>1. /\ pc' = "write" /\ total_fds' = total_fds + 1
        /\ UNCHANGED <<proc, i, fd, requestBuilderMap, uptime, listens, restarts>>
    BY DEF Accept
  <2>2. openFds' \in SUBSET Fds  BY <1>1, <1>3 DEF TypeOK
  <2>3. total_fds' \in Int  BY <2>1 DEF TypeOK
  <2>4. pfds' \in Seq(Pollfd)  BY <1>5
  <2> HIDE DEF new
  <2> QED  BY <1>7, <1>8, <1>9, <2>1, <2>2, <2>3, <2>4 DEF TypeOK
<1>11. total_fds' <= Len(pfds')  BY <1>5, <1>6 DEF Accept, SubscriptInRange, TypeOK
<1>12. i \in 1..Len(pfds) /\ pfds[i].fd = fd
  BY <1>6 DEF Accept, AtRead, SubscriptInRange, TypeOK
<1> QED  BY <1>2, <1>5, <1>6, <1>10, <1>11, <1>12
         DEF Accept, FdTaken, SubscriptInRange, SecondSubscriptHarmless

(* _receive() keeps it, whatever recv() returns.                           *)
LEMMA ReceiveInvariant ==
  ASSUME IInv,
         ReceiveError \/ \E c \in Conns : ReceiveData(c) \/ ReceiveHangup(c)
  PROVE  IInv'
<1> USE DEF IInv
<1>1. /\ fd \in Fds /\ i \in 1..Len(pfds) /\ pfds[i].fd = fd
      /\ Len(pfds) \in Nat
  BY LenProperties
     DEF ReceiveError, ReceiveData, ReceiveHangup, AtReceive, AtRead,
         FdTaken, SubscriptInRange, TypeOK
<1>2. GetBuilder(fd) \in Builder
  BY <1>1 DEF GetBuilder, Builder, TypeOK
<1>3. AfterReceive(fd) \subseteq {"up", "crashed"}  BY DEF AfterReceive, AfterUse
<1>4. ASSUME NEW c \in Conns, ReceiveData(c) PROVE IInv'
  <2>1. \A piece : Parsed(GetBuilder(fd), c, piece) \in Builder
    BY <1>2 DEF Parsed, Builder
  <2>2. requestBuilderMap' \in [Fds -> Builder]  BY <1>1, <1>4, <2>1 DEF ReceiveData, TypeOK
  <2>3. conn' \in [Conns -> Connection]
    <3>1. conn[c] \in Connection  BY DEF TypeOK
    <3>2. [conn[c] EXCEPT !.data = "none"] \in Connection  BY <3>1 DEF Connection
    <3>3. conn' = [conn EXCEPT ![c] = [conn[c] EXCEPT !.data = "none"]]
      BY <1>4 DEF ReceiveData
    <3> QED  BY <3>2, <3>3 DEF TypeOK
  <2>4. TypeOK'  BY <1>3, <1>4, <2>2, <2>3 DEF ReceiveData, TypeOK
  <2> QED  BY <1>1, <1>4, <2>4
           DEF ReceiveData, FdTaken, SubscriptInRange, SecondSubscriptHarmless
<1>5. ASSUME NEW c \in Conns, ReceiveHangup(c) PROVE IInv'
  <2>1. EndConnection(fd, {}) /\ total_fds <= Len(pfds)
    BY <1>5 DEF ReceiveHangup, SubscriptInRange
  <2>2. /\ pfds' \in Seq(Pollfd) /\ total_fds' \in Int
        /\ requestBuilderMap' \in [Fds -> Builder]
        /\ fds_map' \in [Fds -> 0..MaxFd]
        /\ openFds' \in SUBSET Fds
        /\ listens' \in [Fds -> 0..NumServers]
        /\ conn' \in [Conns -> Connection]
        /\ total_fds' <= Len(pfds')
        /\ requestBuilderMap'[fd] = NoBuilder
    BY <1>1, <2>1, EndConnectionProperties
  <2>3. TypeOK'  BY <1>3, <1>5, <2>2 DEF ReceiveHangup, TypeOK
  <2> QED  BY <1>1, <1>5, <2>2, <2>3
           DEF ReceiveHangup, FdTaken, SubscriptInRange, SecondSubscriptHarmless
<1>6. CASE ReceiveError
  <2>1. OnFd(fd) \subseteq Conns  BY DEF OnFd
  <2>2. [GetBuilder(fd) EXCEPT !.st = IF @ = "reading" THEN "ready" ELSE @,
                               !.conns = @ \cup OnFd(fd)] \in Builder
    BY <1>2, <2>1 DEF Builder
  <2>3. requestBuilderMap' \in [Fds -> Builder]  BY <1>1, <1>6, <2>2 DEF ReceiveError, TypeOK
  <2>4. TypeOK'  BY <1>3, <1>6, <2>3 DEF ReceiveError, TypeOK, kernel
  <2> QED  BY <1>1, <1>6, <2>4
           DEF ReceiveError, FdTaken, SubscriptInRange, SecondSubscriptHarmless
<1> QED  BY <1>4, <1>5, <1>6

(* _respond() keeps it, with all that ending a connection erases.          *)
LEMMA RespondInvariant == ASSUME IInv, Respond PROVE IInv'
<1> USE DEF IInv
<1>1. /\ fd \in Fds /\ EndConnection(fd, OnFd(fd)) /\ total_fds <= Len(pfds)
  BY DEF Respond, AtRespond, FdTaken, SubscriptInRange
<1>2. /\ pfds' \in Seq(Pollfd) /\ total_fds' \in Int
      /\ requestBuilderMap' \in [Fds -> Builder]
      /\ fds_map' \in [Fds -> 0..MaxFd]
      /\ openFds' \in SUBSET Fds
      /\ listens' \in [Fds -> 0..NumServers]
      /\ conn' \in [Conns -> Connection]
      /\ total_fds' <= Len(pfds')
  BY <1>1, EndConnectionProperties
<1>3. proc' \in {"up", "crashed"}  BY DEF Respond, AfterUse
<1>4. TypeOK'  BY <1>2, <1>3 DEF Respond, TypeOK
<1> QED  BY <1>1, <1>2, <1>4
         DEF Respond, FdTaken, SubscriptInRange, SecondSubscriptHarmless

(* A timeout keeps it.                                                     *)
LEMMA ExpireInvariant == ASSUME IInv, Expire PROVE IInv'
<1> USE DEF IInv
<1>1. /\ fd \in Fds /\ EndConnection(fd, {}) /\ total_fds <= Len(pfds)
  BY DEF Expire, FdTaken, SubscriptInRange
<1>2. /\ pfds' \in Seq(Pollfd) /\ total_fds' \in Int
      /\ requestBuilderMap' \in [Fds -> Builder]
      /\ fds_map' \in [Fds -> 0..MaxFd]
      /\ openFds' \in SUBSET Fds
      /\ listens' \in [Fds -> 0..NumServers]
      /\ conn' \in [Conns -> Connection]
      /\ total_fds' <= Len(pfds')
  BY <1>1, EndConnectionProperties
<1>3. fds_time' \in [Fds -> Ages \cup {NoTime}]  BY DEF Expire, TypeOK
<1>4. TypeOK'  BY <1>2, <1>3 DEF Expire, TypeOK, AfterUse
<1> QED  BY <1>2, <1>4 DEF Expire, FdTaken, SubscriptInRange, SecondSubscriptHarmless

(* clean(), restart_socket_servers() and init() keep it.                   *)
LEMMA RecoverInvariant == ASSUME IInv, Recover PROVE IInv'
<1> USE DEF IInv
<1>1. CASE Clean
  <2>1. /\ openFds' \in SUBSET Fds
        /\ listens' \in [Fds -> 0..NumServers]
        /\ conn' \in [Conns -> Connection]
    BY <1>1, CloseTyped DEF Clean
  <2>2. NoBuilder \in Builder /\ FreedBuilder \in Builder
    BY DEF NoBuilder, FreedBuilder, Builder
  <2>3. requestBuilderMap' \in [Fds -> Builder]  BY <1>1, <2>2 DEF Clean
  <2>4. proc' \in {"up", "crashed"}  BY <1>1 DEF Clean, AfterUse
  <2>5. TypeOK'  BY <1>1, <2>1, <2>3, <2>4 DEF Clean, TypeOK
  <2>6. total_fds' <= Len(pfds')  BY <1>1, LenProperties DEF Clean, TypeOK
  <2> QED  BY <1>1, <2>5, <2>6 DEF Clean, FdTaken, SubscriptInRange, SecondSubscriptHarmless
<1>2. CASE RestartSocket
  <2>1. openFds' \in SUBSET Fds /\ listens' \in [Fds -> 0..NumServers]
    <3>1. CASE Free = {}  BY <1>2, <3>1 DEF RestartSocket, TypeOK
    <3>2. CASE Free # {}
      <4>1. LowestFree \in Fds  BY <3>2, LowestFreeIsFree DEF Free
      <4>2. i \in 0..NumServers  BY <1>2 DEF RestartSocket, TypeOK
      <4> QED  BY <1>2, <3>2, <4>1, <4>2 DEF RestartSocket, TypeOK
    <3> QED  BY <3>1, <3>2
  <2>2. TypeOK'  BY <1>2, <2>1 DEF RestartSocket, TypeOK, webserv
  <2> QED  BY <1>2, <2>2
           DEF RestartSocket, FdTaken, SubscriptInRange, SecondSubscriptHarmless, webserv
<1>3. CASE InitAgain
  <2>1. /\ ServerPollfds \in Seq(Pollfd) /\ Len(ServerPollfds) = NumServers
        /\ pfds \in Seq(Pollfd) /\ Len(pfds) \in Nat
    BY ServerPollfdsProperties, LenProperties DEF TypeOK
  <2>2. pfds' \in Seq(Pollfd) /\ Len(pfds') = Len(pfds) + NumServers
    BY <1>3, <2>1, ConcatProperties DEF InitAgain
  <2>3. TypeOK'  BY <1>3, <2>2 DEF InitAgain, TypeOK, kernel
  <2> QED  BY <1>3, <2>1, <2>2, <2>3
           DEF InitAgain, FdTaken, SubscriptInRange, SecondSubscriptHarmless, TypeOK
<1> QED  BY <1>1, <1>2, <1>3 DEF Recover

(* Clients, the clock and signals keep it.                                 *)
LEMMA EnvironmentInvariant == ASSUME IInv, Clients \/ Tick \/ Interrupt PROVE IInv'
<1> USE DEF IInv
<1>1. ASSUME NEW r \in Connection
      PROVE  /\ \A p \in Servers : [r EXCEPT !.phase = "queued", !.port = p] \in Connection
             /\ \A piece \in Pieces : [r EXCEPT !.data = piece] \in Connection
             /\ \A how \in {"fin", "rst"} : [r EXCEPT !.end = how] \in Connection
             /\ [r EXCEPT !.age = Older(r.age)] \in Connection
  <2>1. \A a \in Ages : Older(a) \in Ages  BY DEF Older, Ages
  <2>2. "queued" \in {"out", "queued", "accepted", "closed"} /\ Servers \subseteq 0..NumServers
    BY DEF Servers
  <2>3. \A p \in Servers : [r EXCEPT !.phase = "queued", !.port = p] \in Connection
    BY <2>2 DEF Connection
  <2>4. \A piece \in Pieces : [r EXCEPT !.data = piece] \in Connection
    BY DEF Connection
  <2>5. \A how \in {"fin", "rst"} : [r EXCEPT !.end = how] \in Connection
    BY DEF Connection
  <2>6. [r EXCEPT !.age = Older(r.age)] \in Connection
    <3>1. r.age \in Ages  BY DEF Connection
    <3>2. Older(r.age) \in Ages  BY <2>1, <3>1
    <3> HIDE DEF IInv
    <3> QED  BY <3>2 DEF Connection
  <2> QED  BY <2>3, <2>4, <2>5, <2>6
<1>2. ASSUME NEW c \in Conns,
             \/ \E p \in Servers : Connect(c, p)
             \/ \E piece \in Pieces : Send(c, piece)
             \/ \E how \in {"fin", "rst"} : HangUp(c, how)
      PROVE  IInv'
  <2>1. conn[c] \in Connection  BY DEF TypeOK
  <2>2. \E r \in Connection : conn' = [conn EXCEPT ![c] = r]
    <3>1. CASE \E p \in Servers : Connect(c, p)
      <4>1. PICK p \in Servers : Connect(c, p)  BY <3>1
      <4>2. conn' = [conn EXCEPT ![c] = [conn[c] EXCEPT !.phase = "queued", !.port = p]]
        BY <2>1, <4>1 DEF Connect, Connection, TypeOK
      <4> QED  BY <1>1, <2>1, <4>2
    <3>2. CASE \E piece \in Pieces : Send(c, piece)
      BY <1>1, <2>1, <3>2 DEF Send
    <3>3. CASE \E how \in {"fin", "rst"} : HangUp(c, how)
      BY <1>1, <2>1, <3>3 DEF HangUp
    <3> QED  BY <1>2, <3>1, <3>2, <3>3
  <2>3. conn' \in [Conns -> Connection]  BY <2>2 DEF TypeOK
  <2>4. UNCHANGED <<proc, pc, i, fd, webserv, uptime, openFds, listens, restarts>>
    BY <1>2 DEF Connect, Send, HangUp
  <2> QED  BY <2>3, <2>4
           DEF TypeOK, FdTaken, SubscriptInRange, SecondSubscriptHarmless, webserv
<1>3. CASE Tick
  <2>1. \A a \in Ages : Older(a) \in Ages  BY DEF Older, Ages
  <2>2. uptime' \in Ages /\ fds_time' \in [Fds -> Ages \cup {NoTime}]
    BY <1>3, <2>1 DEF Tick, TypeOK
  <2>3. \A c \in Conns : conn[c] \in Connection  BY DEF TypeOK
  <2>4. conn' \in [Conns -> Connection]  BY <1>1, <1>3, <2>3 DEF Tick
  <2> QED  BY <1>3, <2>2, <2>4
           DEF Tick, TypeOK, FdTaken, SubscriptInRange, SecondSubscriptHarmless
<1>4. CASE Interrupt
  <2>1. /\ openFds' \in SUBSET Fds
        /\ listens' \in [Fds -> 0..NumServers]
        /\ conn' \in [Conns -> Connection]
    BY <1>4, CloseTyped DEF Interrupt
  <2> QED  BY <1>4, <2>1 DEF Interrupt, TypeOK, FdTaken, SubscriptInRange,
                             SecondSubscriptHarmless, webserv
<1> QED  BY <1>2, <1>3, <1>4 DEF Clients

(* Each step keeps the invariant.                                          *)
LEMMA NextInvariant == IInv /\ [Next]_vars => IInv'
<1> SUFFICES ASSUME IInv, [Next]_vars PROVE IInv'  OBVIOUS
<1>1. CASE System
  <2>1. CASE Poll \/ LoopTest \/ NotExpired \/ Expire \/ Recover
    BY <2>1, PollInvariant, ControlInvariant, ExpireInvariant, RecoverInvariant
  <2>2. CASE Read
    BY <2>2, ControlInvariant, AcceptInvariant, ReceiveInvariant DEF Read
  <2>3. CASE Write
    BY <2>3, ControlInvariant, RespondInvariant DEF Write
  <2> QED  BY <1>1, <2>1, <2>2, <2>3 DEF System
<1>2. CASE Clients \/ Tick \/ Interrupt  BY <1>2, EnvironmentInvariant
<1>3. CASE PollFails  BY <1>3, ControlInvariant
<1>4. CASE UNCHANGED vars
  BY <1>4 DEF vars, webserv, kernel, IInv, TypeOK, FdTaken, SubscriptInRange,
              SecondSubscriptHarmless
<1> QED  BY <1>1, <1>2, <1>3, <1>4 DEF Next

----------------------------------------------------------------------------
(* The theorems                                                            *)

(* The strengthening of the three invariants below is invariant.           *)
THEOREM Invariance == Spec => []IInv
BY InitInvariant, NextInvariant, PTL DEF Spec

(* Type correctness of the event loop, its sockets and its clients.        *)
THEOREM TypeCorrect == Spec => []TypeOK
BY Invariance, PTL DEF IInv

(* run() never subscripts _pfds out of range under its test against        *)
(* _total_fds, and reads the revents of the descriptor it took, whatever   *)
(* sequence of accepts, hang-ups, responses, timeouts (also those that end *)
(* a connection twice) and recoveries came before.                         *)
THEOREM SubscriptsSafe == Spec => []SubscriptInRange
BY Invariance, PTL DEF IInv

(* The second subscript of the iteration, which may read a neighbour's     *)
(* entry or one past the end, never makes run() build a response.          *)
THEOREM SecondSubscriptSafe == Spec => []SecondSubscriptHarmless
BY Invariance, PTL DEF IInv

(***************************************************************************)
(* EventLoop implements Service.                                           *)
(*                                                                         *)
(* The step from an event of the loop to a promise kept goes through the   *)
(* tables: descriptor numbers are reused, so that "the connection on fd"   *)
(* is answered as "the request in fd's builder" needs that the tables      *)
(* speak of the connection now on the descriptor (TablesMatch).            *)
(***************************************************************************)

Accepted(c) == conn[c].phase = "accepted"

ListenersInPlace ==
  /\ \A f \in Fds : listens[f] = IF f \in Servers THEN f ELSE 0
  /\ Servers \subseteq openFds

OwnDescriptors ==
  /\ \A c \in Conns : Accepted(c) => conn[c].fd \in openFds \ Servers
  /\ \A c, d \in Conns : Accepted(c) /\ Accepted(d) /\ conn[c].fd = conn[d].fd => c = d

NothingLeftBehind ==
  \A f \in Fds : OnFd(f) = {} => requestBuilderMap[f] = NoBuilder /\ fds_map[f] = 0

ServersRemembered == \A c \in Conns : Accepted(c) => fds_map[conn[c].fd] = conn[c].port

OwnBuilders ==
  \A c \in Conns : Accepted(c) /\ BuilderOf(c) # NoBuilder =>
    /\ BuilderOf(c).st \in {"reading", "ready", "throws"}
    /\ BuilderOf(c).server = conn[c].port
    /\ BuilderOf(c).conns = {c}

AnsweredLast == \A c \in Conns : conn[c].answered => conn[c].phase = "closed"

TablesMatch == /\ ListenersInPlace /\ OwnDescriptors /\ NothingLeftBehind
               /\ ServersRemembered /\ OwnBuilders /\ AnsweredLast

(* Without a clock no entry of _fds_time is ever old.                      *)
NothingAges == "clock" \notin Env => uptime = 0 /\ \A f \in Fds : fds_time[f] \in {0, NoTime}

RestartsCounted == pc = "restart" => restarts > 0

SInv == IInv /\ NothingAges /\ RestartsCounted /\ (Serving => TablesMatch)

----------------------------------------------------------------------------
(* What an event does to the tables                                        *)

Tables == <<requestBuilderMap, fds_map, openFds, listens>>

(* An event of a connection that changes neither where it is nor whether   *)
(* it was answered.                                                        *)
LEMMA StaysPut ==
  ASSUME SInv, TablesMatch, TypeOK', UNCHANGED Tables,
         \A c \in Conns : /\ conn'[c].fd = conn[c].fd /\ conn'[c].port = conn[c].port
                          /\ conn'[c].phase = conn[c].phase
                          /\ conn'[c].answered = conn[c].answered
  PROVE  TablesMatch'
<1>1. \A f \in Fds : OnFd(f)' = OnFd(f)  BY DEF OnFd
<1> QED  BY <1>1 DEF TablesMatch, ListenersInPlace, OwnDescriptors, NothingLeftBehind, Accepted,
                     ServersRemembered, OwnBuilders, AnsweredLast, BuilderOf, Tables

(* An event of one connection.                                             *)
LEMMA StageChange ==
  ASSUME NEW c \in Conns, NEW s,
         (StageOf(conn[c].phase, BuilderOf(c).st, conn[c].answered))' = s,
         \A d \in Conns \ {c} : /\ conn'[d] = conn[d]
                                /\ Accepted(d) => BuilderOf(d)' = BuilderOf(d)
  PROVE  Stage' = [Stage EXCEPT ![c] = s]
<1>1. Stage'[c] = s  BY DEF Stage
<1>2. ASSUME NEW d \in Conns \ {c} PROVE Stage'[d] = Stage[d]
  <2>1. conn'[d] = conn[d] /\ (Accepted(d) => BuilderOf(d)' = BuilderOf(d))  BY <1>2
  <2>2. CASE Accepted(d)  BY <2>1, <2>2 DEF Stage
  <2>3. CASE ~Accepted(d)
    <3>1. \A b, x : conn[d].phase # "accepted" =>
            StageOf(conn[d].phase, b, conn[d].answered) = StageOf(conn[d].phase, x, conn[d].answered)
      BY DEF StageOf
    <3> QED  BY <2>1, <2>3, <3>1 DEF Stage, Accepted
  <2> QED  BY <2>2, <2>3
<1> QED  BY <1>1, <1>2 DEF Stage

(* The kept promise of a step.                                             *)
Kept == TablesMatch' /\ [Promise!Next]_(Promise!vars)

(* A step that changes nothing a client sees keeps the promise.            *)
LEMMA NothingHappens ==
  ASSUME SInv, TablesMatch, TypeOK', Serving, Serving', UNCHANGED Tables,
         \A c \in Conns : /\ conn'[c].fd = conn[c].fd /\ conn'[c].port = conn[c].port
                          /\ conn'[c].phase = conn[c].phase
                          /\ conn'[c].answered = conn[c].answered
                          /\ conn'[c].data = conn[c].data /\ conn'[c].end = conn[c].end
  PROVE  Kept
<1>1. TablesMatch'  BY StaysPut
<1>2. UNCHANGED <<Stage, InCharge, Asked, Gone>>
  <2>1. \A c \in Conns : BuilderOf(c)' = BuilderOf(c) /\ (fds_map[conn[c].fd])' = fds_map[conn[c].fd]
    BY DEF BuilderOf, Tables
  <2>2. UNCHANGED Stage  BY <2>1 DEF Stage
  <2>3. UNCHANGED InCharge  BY <2>1 DEF InCharge
  <2>4. UNCHANGED <<Asked, Gone>>  BY DEF Asked, Gone
  <2> QED  BY <2>2, <2>3, <2>4
<1>3. UNCHANGED Serving  OBVIOUS
<1>4. UNCHANGED Promise!vars  BY <1>2, <1>3 DEF Promise!vars
<1> QED  BY <1>1, <1>4 DEF Kept

(* Steps of the loop alone keep the promise.                               *)
LEMMA ControlKept ==
  ASSUME SInv, TablesMatch, TypeOK', Serving, Serving',
         \/ Poll \/ PollFails \/ LoopTest \/ NothingToRead \/ AcceptFails
         \/ NothingToWrite \/ BuildThrows \/ NotExpired \/ Tick
  PROVE  Kept
<1>1. CASE Tick
  <2>1. UNCHANGED Tables  BY <1>1 DEF Tick, Tables
  <2>2. \A c \in Conns : conn[c] \in Connection  BY DEF SInv, IInv, TypeOK
  <2>3. \A c \in Conns : /\ conn'[c].fd = conn[c].fd /\ conn'[c].port = conn[c].port
                          /\ conn'[c].phase = conn[c].phase
                          /\ conn'[c].answered = conn[c].answered
                          /\ conn'[c].data = conn[c].data /\ conn'[c].end = conn[c].end
    BY <1>1, <2>2 DEF Tick, Connection
  <2> QED  BY <2>1, <2>3, NothingHappens
<1>2. CASE ~Tick
  <2>1. UNCHANGED Tables /\ UNCHANGED conn
    BY <1>2 DEF Tables, Poll, PollFails, LoopTest, NothingToRead, AcceptFails,
                NothingToWrite, BuildThrows, NotExpired, webserv, kernel
  <2> QED  BY <2>1, NothingHappens
<1> QED  BY <1>1, <1>2

(* What clients do, the promise lets them do.                              *)
LEMMA ClientsKept ==
  ASSUME SInv, TablesMatch, TypeOK', Serving, Serving', Clients
  PROVE  Kept
<1>1. PICK c \in Conns : \/ \E p \in Servers : Connect(c, p)
                         \/ \E piece \in Pieces : Send(c, piece)
                         \/ \E how \in {"fin", "rst"} : HangUp(c, how)
  BY DEF Clients
<1>2. conn[c] \in Connection /\ conn \in [Conns -> Connection]  BY DEF SInv, IInv, TypeOK
<1>3. UNCHANGED Tables  BY <1>1 DEF Tables, Connect, Send, HangUp, webserv
<1>4. ASSUME NEW p \in Servers, Connect(c, p) PROVE Kept
  <2>1. conn[c].phase = "out"
    BY <1>4 DEF Connect
  <2>2. /\ conn'[c].phase = "queued" /\ conn'[c].port = p
        /\ conn'[c].answered = conn[c].answered
        /\ conn'[c].data = conn[c].data /\ conn'[c].end = conn[c].end
        /\ \A d \in Conns \ {c} : conn'[d] = conn[d]
    BY <1>2, <1>4 DEF Connect, Connection
  <2>3. \A f \in Fds : OnFd(f)' = OnFd(f)  BY <2>1, <2>2 DEF OnFd
  <2>4. TablesMatch'
    BY <1>3, <2>1, <2>2, <2>3
       DEF TablesMatch, ListenersInPlace, OwnDescriptors, NothingLeftBehind, Accepted,
           ServersRemembered, OwnBuilders, AnsweredLast, BuilderOf, Tables
  <2>5. Stage[c] = "out" /\ Stage' = [Stage EXCEPT ![c] = "waiting"]
    <3>1. \A d \in Conns \ {c} : BuilderOf(d)' = BuilderOf(d)
      BY <1>3, <2>2 DEF BuilderOf, Tables
    <3>2. Stage[c] = "out"  BY <2>1 DEF Stage, StageOf
    <3>3. (StageOf(conn[c].phase, BuilderOf(c).st, conn[c].answered))' = "waiting"
      BY <2>2 DEF StageOf
    <3> QED  BY <2>2, <3>1, <3>2, <3>3, StageChange
  <2>6. InCharge' = [InCharge EXCEPT ![c] = p]
    BY <1>3, <2>2 DEF InCharge, BuilderOf, Tables
  <2>7. UNCHANGED <<Asked, Gone>>  BY <2>2 DEF Asked, Gone
  <2>8. Promise!Arrive(c, p)  BY <2>5, <2>6, <2>7 DEF Promise!Arrive, Promise!Moves
  <2> QED  BY <2>4, <2>8 DEF Kept, Promise!Next
<1>5. ASSUME NEW piece \in Pieces, Send(c, piece) PROVE Kept
  <2>1. /\ conn'[c].fd = conn[c].fd /\ conn'[c].port = conn[c].port
        /\ conn'[c].phase = conn[c].phase /\ conn'[c].answered = conn[c].answered
        /\ conn'[c].data = piece /\ conn'[c].end = conn[c].end
        /\ conn[c].data = "none" /\ conn[c].end = "open"
        /\ conn[c].phase \in {"queued", "accepted"}
        /\ \A d \in Conns \ {c} : conn'[d] = conn[d]
    BY <1>2, <1>5 DEF Send, Alive, Connection
  <2>2. TablesMatch'  BY <1>3, <2>1, StaysPut
  <2>3. UNCHANGED <<Stage, InCharge, Gone>>
    BY <1>3, <2>1 DEF Stage, InCharge, Gone, BuilderOf, Tables
  <2>4. Promise!Connected(c) /\ ~Gone[c]
    BY <2>1 DEF Promise!Connected, Stage, StageOf, Gone
  <2>5. CASE piece = "part"
    <3>1. UNCHANGED Asked  BY <2>1, <2>5 DEF Asked
    <3>2. UNCHANGED Promise!vars  BY <2>3, <3>1 DEF Promise!vars
    <3> QED  BY <2>2, <3>2 DEF Kept
  <2>6. CASE piece \in {"last", "bad"}
    <3>1. Asked' = [Asked EXCEPT ![c] = TRUE]  BY <2>1, <2>6 DEF Asked
    <3>2. Promise!Ask(c)  BY <2>3, <2>4, <3>1 DEF Promise!Ask
    <3> QED  BY <2>2, <3>2 DEF Kept, Promise!Next
  <2> QED  BY <2>5, <2>6 DEF Pieces
<1>6. ASSUME NEW how \in {"fin", "rst"}, HangUp(c, how) PROVE Kept
  <2>1. /\ conn'[c].fd = conn[c].fd /\ conn'[c].port = conn[c].port
        /\ conn'[c].phase = conn[c].phase /\ conn'[c].answered = conn[c].answered
        /\ conn'[c].data = conn[c].data /\ conn'[c].end = how
        /\ conn[c].phase \in {"queued", "accepted"}
        /\ \A d \in Conns \ {c} : conn'[d] = conn[d]
    BY <1>2, <1>6 DEF HangUp, Alive, Connection
  <2>2. TablesMatch'  BY <1>3, <2>1, StaysPut
  <2>3. UNCHANGED <<Stage, InCharge, Asked>>
    BY <1>3, <2>1 DEF Stage, InCharge, Asked, BuilderOf, Tables
  <2>4. Promise!Connected(c)  BY <2>1 DEF Promise!Connected, Stage, StageOf
  <2>5. Gone' = [Gone EXCEPT ![c] = TRUE]  BY <2>1 DEF Gone
  <2>6. Promise!Leave(c)  BY <2>3, <2>4, <2>5 DEF Promise!Leave
  <2> QED  BY <2>2, <2>6 DEF Kept, Promise!Next
<1> QED  BY <1>1, <1>4, <1>5, <1>6

(* The server in charge of a connection is the one whose port was asked.   *)
LEMMA InChargeUnchanged ==
  ASSUME TablesMatch, TablesMatch', \A c \in Conns : conn'[c].port = conn[c].port
  PROVE  UNCHANGED InCharge
<1> USE DEF TablesMatch, ServersRemembered, OwnBuilders, Accepted, InCharge, BuilderOf, NoBuilder
<1>1. InCharge = [c \in Conns |-> conn[c].port]  OBVIOUS
<1>2. InCharge' = [c \in Conns |-> conn'[c].port]  OBVIOUS
<1> QED  BY <1>1, <1>2

(* _create_connection() is an acceptance.                                  *)
LEMMA AcceptKept ==
  ASSUME SInv, TablesMatch, TypeOK', Serving, Serving', NEW c \in Conns, Accept(c)
  PROVE  Kept
<1> DEFINE new == LowestFree
<1>1. new \in Fds \ openFds
  <2>1. Free # {}  BY DEF Accept
  <2> QED  BY <2>1, LowestFreeIsFree DEF Free
<1> HIDE DEF new
<1>2. /\ fd \in Servers /\ c \in Queue(listens[fd])
      /\ fds_map' = [fds_map EXCEPT ![new] = IF @ = 0 THEN fd ELSE @]
      /\ openFds' = openFds \cup {new}
      /\ conn' = [conn EXCEPT ![c].phase = "accepted", ![c].fd = new]
      /\ UNCHANGED <<requestBuilderMap, listens>>
  BY DEF Accept, new, AtRead, IsServerSocket
<1>3. fd \in Fds /\ listens[fd] = fd
  BY <1>2 DEF TablesMatch, ListenersInPlace, Servers, Fds
<1>4. conn[c].phase = "queued" /\ conn[c].port = fd  BY <1>2, <1>3 DEF Queue
<1>5. conn \in [Conns -> Connection] /\ conn[c] \in Connection
      /\ fds_map \in [Fds -> 0..MaxFd]
  BY DEF SInv, IInv, TypeOK
<1>6. /\ conn'[c].phase = "accepted" /\ conn'[c].fd = new /\ conn'[c].port = fd
      /\ conn'[c].data = conn[c].data /\ conn'[c].end = conn[c].end
      /\ conn'[c].answered = conn[c].answered
      /\ \A d \in Conns \ {c} : conn'[d] = conn[d]
  BY <1>2, <1>4, <1>5 DEF Connection
<1>7. new \notin Servers /\ OnFd(new) = {} /\ \A d \in Conns : Accepted(d) => conn[d].fd # new
  BY <1>1 DEF TablesMatch, ListenersInPlace, OwnDescriptors, OnFd, Accepted
<1>8. requestBuilderMap[new] = NoBuilder /\ fds_map[new] = 0
  BY <1>1, <1>7 DEF TablesMatch, NothingLeftBehind
<1>9. fds_map'[new] = fd /\ \A f \in Fds \ {new} : fds_map'[f] = fds_map[f]
  BY <1>1, <1>2, <1>5, <1>8
<1>10. TablesMatch'
  <2>1. ListenersInPlace' /\ AnsweredLast'
    BY <1>2, <1>4, <1>6 DEF TablesMatch, ListenersInPlace, AnsweredLast
  <2>2. OwnDescriptors'
    <3>1. ASSUME NEW d \in Conns, Accepted(d)' PROVE conn'[d].fd \in openFds' \ Servers
      <4>1. CASE d = c  BY <1>2, <1>6, <1>7, <4>1
      <4>2. CASE d # c
        <5>1. conn'[d] = conn[d] /\ Accepted(d)  BY <1>6, <3>1, <4>2 DEF Accepted
        <5>2. conn[d].fd \in openFds \ Servers  BY <5>1 DEF TablesMatch, OwnDescriptors
        <5>3. openFds \subseteq openFds'  BY <1>2
        <5> QED  BY <5>1, <5>2, <5>3
      <4> QED  BY <4>1, <4>2
    <3>2. ASSUME NEW d \in Conns, NEW e \in Conns, Accepted(d)', Accepted(e)',
                 conn'[d].fd = conn'[e].fd
          PROVE  d = e
      BY <1>6, <1>7, <3>2 DEF TablesMatch, OwnDescriptors, Accepted
    <3> QED  BY <3>1, <3>2 DEF OwnDescriptors
  <2>3. NothingLeftBehind'
    <3>1. ASSUME NEW f \in Fds, OnFd(f)' = {} PROVE OnFd(f) = {} /\ f # new
      BY <1>4, <1>6, <3>1 DEF OnFd
    <3> QED  BY <1>2, <1>9, <3>1 DEF TablesMatch, NothingLeftBehind
  <2>4. ServersRemembered'
    <3>1. ASSUME NEW d \in Conns \ {c}, Accepted(d) PROVE conn[d].fd \in Fds \ {new}
      BY <1>7, <3>1 DEF TablesMatch, OwnDescriptors, SInv, IInv, TypeOK
    <3> QED  BY <1>6, <1>9, <3>1 DEF TablesMatch, ServersRemembered, Accepted
  <2>5. OwnBuilders'
    <3>1. BuilderOf(c)' = NoBuilder  BY <1>2, <1>6, <1>8 DEF BuilderOf
    <3>2. ASSUME NEW d \in Conns \ {c}
          PROVE  BuilderOf(d)' = BuilderOf(d) /\ Accepted(d)' = Accepted(d) /\ conn'[d] = conn[d]
      BY <1>2, <1>6 DEF BuilderOf, Accepted
    <3> QED  BY <3>1, <3>2 DEF TablesMatch, OwnBuilders
  <2> QED  BY <2>1, <2>2, <2>3, <2>4, <2>5 DEF TablesMatch
<1>11. Stage[c] = "waiting"  BY <1>4 DEF Stage, StageOf
<1>12. Stage' = [Stage EXCEPT ![c] = "open"]
  <2>1. BuilderOf(c)' = NoBuilder  BY <1>2, <1>6, <1>8 DEF BuilderOf
  <2>2. (StageOf(conn[c].phase, BuilderOf(c).st, conn[c].answered))' = "open"
    BY <1>6, <2>1 DEF StageOf, NoBuilder
  <2>3. \A d \in Conns \ {c} : BuilderOf(d)' = BuilderOf(d)  BY <1>2, <1>6 DEF BuilderOf
  <2> QED  BY <1>6, <2>2, <2>3, StageChange
<1>13. UNCHANGED InCharge  BY <1>4, <1>6, <1>10, InChargeUnchanged
<1>14. UNCHANGED <<Asked, Gone>>  BY <1>6 DEF Asked, Gone
<1>15. Promise!Accept(c)
  BY <1>11, <1>12, <1>13, <1>14 DEF Promise!Accept, Promise!Moves
<1> QED  BY <1>10, <1>15 DEF Kept, Promise!Next

(* parse() of what was received from the connection on f.                  *)
LEMMA ReceiveDataKept ==
  ASSUME SInv, TablesMatch, TypeOK', Serving, Serving', NEW c \in Conns, ReceiveData(c)
  PROVE  Kept
<1> DEFINE b == Parsed(GetBuilder(fd), c, conn[c].data)
<1>1. /\ c \in OnFd(fd) /\ conn[c].data \in Pieces /\ fd \in Fds
      /\ conn \in [Conns -> Connection] /\ conn[c] \in Connection
      /\ requestBuilderMap \in [Fds -> Builder]
  BY DEF ReceiveData, AtReceive, AtRead, SInv, IInv, TypeOK, FdTaken, Connection
<1>2. Accepted(c) /\ conn[c].fd = fd /\ BuilderOf(c) = requestBuilderMap[fd]
  BY <1>1 DEF OnFd, Accepted, BuilderOf
<1>3. /\ requestBuilderMap' = [requestBuilderMap EXCEPT ![fd] = b]
      /\ conn' = [conn EXCEPT ![c].data = "none"]
      /\ UNCHANGED <<fds_map, openFds, listens>>
  BY DEF ReceiveData
<1>4. /\ \A d \in Conns : /\ conn'[d].fd = conn[d].fd /\ conn'[d].port = conn[d].port
                         /\ conn'[d].phase = conn[d].phase
                         /\ conn'[d].answered = conn[d].answered
                         /\ conn'[d].end = conn[d].end
      /\ conn'[c].data = "none"
      /\ \A d \in Conns \ {c} : conn'[d] = conn[d]
  BY <1>1, <1>3 DEF Connection
<1>5. \A d \in Conns \ {c} : Accepted(d) => conn[d].fd # fd  BY <1>2 DEF TablesMatch, OwnDescriptors
<1>6. /\ b.st \in {"reading", "ready", "throws"}
      /\ b.server = conn[c].port /\ b.conns = {c}
      /\ BuilderOf(c).st \in {"ready", "throws"} => b = BuilderOf(c)
      /\ BuilderOf(c).st \notin {"ready", "throws"} /\ conn[c].data = "part" => b.st = "reading"
      /\ conn[c].data \in {"last", "bad"} => b.st \in {"ready", "throws"}
  <2>1. CASE BuilderOf(c) = NoBuilder
    <3>1. GetBuilder(fd) = [st |-> "reading", server |-> conn[c].port, conns |-> {}]
      BY <1>2, <2>1 DEF GetBuilder, NoBuilder, TablesMatch, ServersRemembered
    <3> QED  BY <1>1, <2>1, <3>1 DEF Parsed, Pieces, NoBuilder
  <2>2. CASE BuilderOf(c) # NoBuilder
    <3>1. /\ BuilderOf(c).st \in {"reading", "ready", "throws"}
          /\ BuilderOf(c).server = conn[c].port /\ BuilderOf(c).conns = {c}
      BY <1>2, <2>2 DEF TablesMatch, OwnBuilders
    <3>2. GetBuilder(fd) = BuilderOf(c) /\ BuilderOf(c) \in Builder
      BY <1>1, <1>2, <3>1 DEF GetBuilder
    <3> QED  BY <1>1, <3>1, <3>2 DEF Parsed, Pieces, Builder
  <2> QED  BY <2>1, <2>2
<1> HIDE DEF b
<1>7. BuilderOf(c)' = b /\ \A d \in Conns \ {c} : Accepted(d) => BuilderOf(d)' = BuilderOf(d)
  BY <1>1, <1>2, <1>3, <1>4, <1>5 DEF BuilderOf
<1>8. TablesMatch'
  <2>1. \A f \in Fds : OnFd(f)' = OnFd(f)  BY <1>4 DEF OnFd
  <2>2. \A d \in Conns : Accepted(d)' = Accepted(d)  BY <1>4 DEF Accepted
  <2>3. ListenersInPlace' /\ OwnDescriptors' /\ ServersRemembered' /\ AnsweredLast'
    BY <1>3, <1>4, <2>2 DEF TablesMatch, ListenersInPlace, OwnDescriptors, ServersRemembered,
                            AnsweredLast
  <2>4. NothingLeftBehind'
    BY <1>1, <1>3, <2>1 DEF TablesMatch, NothingLeftBehind
  <2>5. OwnBuilders'
    BY <1>4, <1>6, <1>7, <2>2 DEF TablesMatch, OwnBuilders
  <2> QED  BY <2>3, <2>4, <2>5 DEF TablesMatch
<1>9. UNCHANGED InCharge  BY <1>4, <1>8, InChargeUnchanged
<1>10. UNCHANGED Gone /\ Asked' = [Asked EXCEPT ![c] = FALSE]
  <2>1. UNCHANGED Gone  BY <1>4 DEF Gone
  <2>2. Asked'[c] = FALSE /\ \A d \in Conns \ {c} : Asked'[d] = Asked[d]
    <3>1. (conn'[c].data \in {"last", "bad"}) = FALSE  BY <1>4
    <3> QED  BY <1>4, <3>1 DEF Asked
  <2> QED  BY <2>1, <2>2 DEF Asked
<1>11. CASE BuilderOf(c).st \in {"ready", "throws"}
  <2>1. Stage[c] = "complete"  BY <1>2, <1>11 DEF Stage, StageOf, Accepted
  <2>2. Stage' = [Stage EXCEPT ![c] = "complete"]
    <3>1. (StageOf(conn[c].phase, BuilderOf(c).st, conn[c].answered))' = "complete"
      BY <1>2, <1>4, <1>6, <1>7, <1>11 DEF StageOf, Accepted
    <3> QED  BY <1>4, <1>7, <3>1, StageChange
  <2>3. UNCHANGED Stage  BY <2>1, <2>2 DEF Stage
  <2>4. CASE conn[c].data = "part"
    <3>1. UNCHANGED Asked
      <4>1. \A d \in Conns : (conn'[d].data \in {"last", "bad"}) = (conn[d].data \in {"last", "bad"})
        BY <1>4, <2>4
      <4> QED  BY <4>1 DEF Asked
    <3> QED  BY <1>8, <1>9, <1>10, <2>3, <3>1 DEF Kept, Promise!vars
  <2>5. CASE conn[c].data \in {"last", "bad"}
    <3>1. Promise!Ignore(c)  BY <1>9, <1>10, <2>1, <2>3, <2>5 DEF Promise!Ignore, Asked
    <3> QED  BY <1>8, <3>1 DEF Kept, Promise!Next
  <2> QED  BY <1>1, <2>4, <2>5 DEF Pieces
<1>12. CASE BuilderOf(c).st \notin {"ready", "throws"}
  <2>1. Stage[c] = "open"  BY <1>2, <1>12 DEF Stage, StageOf, Accepted
  <2>2. CASE conn[c].data = "part"
    <3>1. (StageOf(conn[c].phase, BuilderOf(c).st, conn[c].answered))' = "open"
      BY <1>2, <1>4, <1>6, <1>7, <1>12, <2>2 DEF StageOf, Accepted
    <3>2. Stage' = [Stage EXCEPT ![c] = "open"]  BY <1>4, <1>7, <3>1, StageChange
    <3>3. UNCHANGED Stage  BY <2>1, <3>2 DEF Stage
    <3>4. UNCHANGED Asked
      <4>1. \A d \in Conns : (conn'[d].data \in {"last", "bad"}) = (conn[d].data \in {"last", "bad"})
        BY <1>4, <2>2
      <4> QED  BY <4>1 DEF Asked
    <3> QED  BY <1>8, <1>9, <1>10, <3>3, <3>4 DEF Kept, Promise!vars
  <2>3. CASE conn[c].data \in {"last", "bad"}
    <3>1. (StageOf(conn[c].phase, BuilderOf(c).st, conn[c].answered))' = "complete"
      BY <1>2, <1>4, <1>6, <1>7, <1>12, <2>3 DEF StageOf, Accepted
    <3>2. Stage' = [Stage EXCEPT ![c] = "complete"]  BY <1>4, <1>7, <3>1, StageChange
    <3>3. Promise!Complete(c)
      BY <1>9, <1>10, <2>1, <2>3, <3>2 DEF Promise!Complete, Promise!Moves, Asked
    <3> QED  BY <1>8, <3>3 DEF Kept, Promise!Next
  <2> QED  BY <1>1, <2>2, <2>3 DEF Pieces
<1> QED  BY <1>11, <1>12

(* A failed recv() ends the request of a connection that was reset; on a   *)
(* descriptor without a connection it is fatal.                            *)
LEMMA ReceiveErrorKept ==
  ASSUME SInv, TablesMatch, TypeOK', Serving, Serving', ReceiveError
  PROVE  Kept
<1> DEFINE b == [GetBuilder(fd) EXCEPT !.st = IF @ = "reading" THEN "ready" ELSE @,
                                       !.conns = @ \cup OnFd(fd)]
<1>1. /\ fd \in Fds /\ proc' \in AfterReceive(fd) \cup {"crashed"}
      /\ requestBuilderMap \in [Fds -> Builder] /\ conn \in [Conns -> Connection]
      /\ UNCHANGED <<fds_map, openFds, listens, conn>>
      /\ requestBuilderMap' = [requestBuilderMap EXCEPT ![fd] = b]
      /\ \A c \in OnFd(fd) : conn[c].data = "none" /\ conn[c].end = "rst"
  BY DEF ReceiveError, AtReceive, AtRead, SInv, IInv, TypeOK, FdTaken, kernel
<1>2. OnFd(fd) # {}
  <2>1. SUFFICES ASSUME OnFd(fd) = {} PROVE FALSE  OBVIOUS
  <2>2. requestBuilderMap[fd] = NoBuilder /\ fds_map[fd] = 0
    BY <1>1, <2>1 DEF TablesMatch, NothingLeftBehind
  <2>3. proc' = "crashed"  BY <1>1, <2>2 DEF AfterReceive, NoBuilder
  <2> QED  BY <2>3 DEF Serving, Up
<1>3. PICK c \in Conns : Accepted(c) /\ conn[c].fd = fd /\ c \in OnFd(fd)
  BY <1>2 DEF OnFd, Accepted
<1>4. \A d \in Conns \ {c} : Accepted(d) => conn[d].fd # fd  BY <1>3 DEF TablesMatch, OwnDescriptors
<1>5. OnFd(fd) = {c}  BY <1>3, <1>4 DEF OnFd, Accepted
<1>6. BuilderOf(c) = requestBuilderMap[fd]  BY <1>3 DEF BuilderOf
<1>7. /\ b.st \in {"ready", "throws"} /\ b.server = conn[c].port /\ b.conns = {c}
      /\ BuilderOf(c).st \in {"ready", "throws"} => b = BuilderOf(c)
  <2>1. CASE BuilderOf(c) = NoBuilder
    <3>1. GetBuilder(fd) = [st |-> "reading", server |-> conn[c].port, conns |-> {}]
      BY <1>3, <1>6, <2>1 DEF GetBuilder, NoBuilder, TablesMatch, ServersRemembered
    <3> QED  BY <1>5, <2>1, <3>1 DEF NoBuilder
  <2>2. CASE BuilderOf(c) # NoBuilder
    <3>1. /\ BuilderOf(c).st \in {"reading", "ready", "throws"}
          /\ BuilderOf(c).server = conn[c].port /\ BuilderOf(c).conns = {c}
      BY <1>3, <2>2 DEF TablesMatch, OwnBuilders
    <3>2. GetBuilder(fd) = BuilderOf(c) /\ BuilderOf(c) \in Builder
      BY <1>1, <1>6, <3>1 DEF GetBuilder
    <3> QED  BY <1>5, <3>1, <3>2 DEF Builder
  <2> QED  BY <2>1, <2>2
<1> HIDE DEF b
<1>8. BuilderOf(c)' = b /\ \A d \in Conns \ {c} : Accepted(d) => BuilderOf(d)' = BuilderOf(d)
  BY <1>1, <1>3, <1>4 DEF BuilderOf
<1>9. TablesMatch'
  <2>1. \A f \in Fds : OnFd(f)' = OnFd(f)  BY <1>1 DEF OnFd
  <2>2. \A d \in Conns : Accepted(d)' = Accepted(d)  BY <1>1 DEF Accepted
  <2>3. ListenersInPlace' /\ OwnDescriptors' /\ ServersRemembered' /\ AnsweredLast'
    BY <1>1, <2>2 DEF TablesMatch, ListenersInPlace, OwnDescriptors, ServersRemembered,
                      AnsweredLast
  <2>4. NothingLeftBehind'  BY <1>1, <1>2, <2>1 DEF TablesMatch, NothingLeftBehind
  <2>5. OwnBuilders'  BY <1>1, <1>7, <1>8, <2>2 DEF TablesMatch, OwnBuilders
  <2> QED  BY <2>3, <2>4, <2>5 DEF TablesMatch
<1>10. UNCHANGED InCharge  BY <1>1, <1>9, InChargeUnchanged
<1>11. UNCHANGED <<Gone, Asked>>  BY <1>1 DEF Gone, Asked
<1>12. Stage' = [Stage EXCEPT ![c] = "complete"]
  <2>1. (StageOf(conn[c].phase, BuilderOf(c).st, conn[c].answered))' = "complete"
    BY <1>1, <1>3, <1>7, <1>8 DEF StageOf, Accepted
  <2> QED  BY <1>1, <1>8, <2>1, StageChange
<1>13. CASE BuilderOf(c).st \in {"ready", "throws"}
  <2>1. Stage[c] = "complete"  BY <1>3, <1>13 DEF Stage, StageOf, Accepted
  <2>2. UNCHANGED Stage  BY <1>12, <2>1 DEF Stage
  <2> QED  BY <1>9, <1>10, <1>11, <2>2 DEF Kept, Promise!vars
<1>14. CASE BuilderOf(c).st \notin {"ready", "throws"}
  <2>1. Stage[c] = "open"  BY <1>3, <1>14 DEF Stage, StageOf, Accepted
  <2>2. Asked[c] = FALSE /\ Gone[c] = TRUE
    <3>1. conn[c].data = "none" /\ conn[c].end = "rst"  BY <1>1, <1>3
    <3>2. (conn[c].data \in {"last", "bad"}) = FALSE  BY <3>1
    <3> QED  BY <3>1, <3>2 DEF Asked, Gone
  <2>3. Asked' = [Asked EXCEPT ![c] = FALSE]  BY <1>11, <2>2 DEF Asked
  <2>4. Promise!Complete(c)
    BY <1>10, <1>11, <1>12, <2>1, <2>2, <2>3 DEF Promise!Complete, Promise!Moves
  <2> QED  BY <1>9, <2>4 DEF Kept, Promise!Next
<1> QED  BY <1>13, <1>14

(* _end_connection(f) of a descriptor that is not a server's, whether or   *)
(* not there is a connection on it: an answer if its request was complete, *)
(* and no answer only for a reason.                                        *)
LEMMA EndKept ==
  ASSUME SInv, TablesMatch, TypeOK', Serving, Serving', fd \in Fds \ Servers,
         NEW told, EndConnection(fd, told),
         \/ told = OnFd(fd) /\ requestBuilderMap[fd].st = "ready"
         \/ told = {} /\ (\A c \in OnFd(fd) : conn[c].end # "open" \/ "clock" \in Env)
  PROVE  Kept
<1>1. /\ requestBuilderMap' = [requestBuilderMap EXCEPT ![fd] = NoBuilder]
      /\ fds_map' = [fds_map EXCEPT ![fd] = 0]
      /\ openFds' = openFds \ {fd}
      /\ requestBuilderMap \in [Fds -> Builder] /\ fds_map \in [Fds -> 0..MaxFd]
      /\ conn \in [Conns -> Connection] /\ listens \in [Fds -> 0..NumServers]
  BY DEF EndConnection, Close, SInv, IInv, TypeOK
<1>2. listens[fd] = 0 /\ UNCHANGED listens
  <2>1. listens' = [f \in Fds |-> IF f \in {fd} THEN 0 ELSE listens[f]]
    BY DEF EndConnection, Close
  <2>2. listens[fd] = 0  BY DEF TablesMatch, ListenersInPlace
  <2> QED  BY <1>1, <2>1, <2>2
<1>3. conn' = [c \in Conns |-> IF c \in OnFd(fd)
                 THEN [Ended(conn[c]) EXCEPT !.answered = @ \/ c \in told] ELSE conn[c]]
  BY <1>2 DEF EndConnection, Close
<1>4. /\ \A c \in OnFd(fd) :
           /\ conn'[c].phase = "closed" /\ conn'[c].port = conn[c].port
           /\ conn'[c].data = "none" /\ conn'[c].end = "open"
           /\ conn'[c].answered = (conn[c].answered \/ c \in told)
      /\ \A c \in Conns \ OnFd(fd) : conn'[c] = conn[c]
  <2>1. OnFd(fd) \subseteq Conns  BY DEF OnFd
  <2>2. ASSUME NEW c \in OnFd(fd)
        PROVE  /\ conn'[c].phase = "closed" /\ conn'[c].port = conn[c].port
               /\ conn'[c].data = "none" /\ conn'[c].end = "open"
               /\ conn'[c].answered = (conn[c].answered \/ c \in told)
    <3> DEFINE r == conn[c]
    <3>1. r \in Connection  BY <1>1, <2>1
    <3>2. conn'[c] = [Ended(r) EXCEPT !.answered = @ \/ c \in told]  BY <1>3, <2>1
    <3>3. DOMAIN Ended(r) = {"phase", "port", "fd", "data", "end", "age", "answered"}
          /\ Ended(r).answered = r.answered /\ Ended(r).phase = "closed"
          /\ Ended(r).port = r.port /\ Ended(r).data = "none" /\ Ended(r).end = "open"
      BY <3>1 DEF Ended, Connection
    <3> HIDE DEF r
    <3>4. /\ conn'[c].phase = Ended(r).phase /\ conn'[c].port = Ended(r).port
          /\ conn'[c].data = Ended(r).data /\ conn'[c].end = Ended(r).end
          /\ conn'[c].answered = (Ended(r).answered \/ c \in told)
      BY <3>2, <3>3
    <3> QED  BY <3>3, <3>4 DEF r
  <2>3. \A c \in Conns \ OnFd(fd) : conn'[c] = conn[c]  BY <1>3
  <2> QED  BY <2>2, <2>3
<1>5. \A c \in Conns : Accepted(c)' <=> Accepted(c) /\ conn[c].fd # fd
  <2>1. \A c \in Conns : c \in OnFd(fd) <=> Accepted(c) /\ conn[c].fd = fd  BY DEF OnFd, Accepted
  <2> QED  BY <1>4, <2>1 DEF Accepted
<1>6. \A c \in Conns : Accepted(c)' => conn'[c] = conn[c] /\ conn[c].fd \in Fds \ {fd}
  BY <1>4, <1>5 DEF OnFd, Accepted, TablesMatch, OwnDescriptors, SInv, IInv, TypeOK
<1>7. \A c \in Conns : Accepted(c)' => BuilderOf(c)' = BuilderOf(c)
  BY <1>1, <1>6 DEF BuilderOf
<1>8. TablesMatch'
  <2>1. ListenersInPlace'  BY <1>1, <1>2 DEF TablesMatch, ListenersInPlace
  <2>2. OwnDescriptors'
    BY <1>1, <1>5, <1>6 DEF TablesMatch, OwnDescriptors
  <2>3. NothingLeftBehind'
    <3>1. ASSUME NEW f \in Fds \ {fd}, OnFd(f)' = {} PROVE OnFd(f) = {}
      BY <1>4, <3>1 DEF OnFd
    <3> QED  BY <1>1, <3>1 DEF TablesMatch, NothingLeftBehind
  <2>4. ServersRemembered'
    BY <1>1, <1>5, <1>6 DEF TablesMatch, ServersRemembered
  <2>5. OwnBuilders'
    BY <1>5, <1>6, <1>7 DEF TablesMatch, OwnBuilders
  <2>6. AnsweredLast'
    BY <1>4 DEF TablesMatch, AnsweredLast
  <2> QED  BY <2>1, <2>2, <2>3, <2>4, <2>5, <2>6 DEF TablesMatch
<1>9. UNCHANGED InCharge
  <2>1. \A c \in Conns : conn'[c].port = conn[c].port  BY <1>4
  <2> QED  BY <1>8, <2>1, InChargeUnchanged
<1>10. CASE OnFd(fd) = {}
  <2>1. UNCHANGED conn  BY <1>1, <1>3, <1>10
  <2>2. requestBuilderMap[fd] = NoBuilder  BY <1>10 DEF TablesMatch, NothingLeftBehind
  <2>3. UNCHANGED requestBuilderMap  BY <1>1, <2>2
  <2>4. UNCHANGED <<Stage, Asked, Gone>>  BY <2>1, <2>3 DEF Stage, Asked, Gone, BuilderOf
  <2> QED  BY <1>8, <1>9, <2>4 DEF Kept, Promise!vars
<1>11. CASE OnFd(fd) # {}
  <2>1. PICK c \in Conns : Accepted(c) /\ conn[c].fd = fd /\ c \in OnFd(fd)
    BY <1>11 DEF OnFd, Accepted
  <2>2. OnFd(fd) = {c}  BY <2>1 DEF TablesMatch, OwnDescriptors, OnFd, Accepted
  <2>3. \A d \in Conns \ {c} : conn'[d] = conn[d] /\ (Accepted(d) => BuilderOf(d)' = BuilderOf(d))
    BY <1>4, <1>5, <1>7, <2>1, <2>2 DEF OnFd, Accepted
  <2>4. Asked' = [Asked EXCEPT ![c] = FALSE] /\ Gone' = [Gone EXCEPT ![c] = FALSE]
    <3>1. conn'[c].data = "none" /\ conn'[c].end = "open"  BY <1>4, <2>1
    <3>2. (conn'[c].data \in {"last", "bad"}) = FALSE /\ (conn'[c].end # "open") = FALSE
      BY <3>1
    <3> QED  BY <2>3, <3>2 DEF Asked, Gone
  <2>5. conn'[c].phase = "closed" /\ conn'[c].answered = (conn[c].answered \/ c \in told)
    BY <1>4, <2>1
  <2>6. conn[c].answered = FALSE
    BY <1>1, <2>1 DEF TablesMatch, AnsweredLast, Accepted, Connection
  <2>7. Stage[c] = IF BuilderOf(c).st \in {"ready", "throws"} THEN "complete" ELSE "open"
    BY <2>1 DEF Stage, StageOf, Accepted
  <2>8. CASE told = OnFd(fd) /\ requestBuilderMap[fd].st = "ready"
    <3>1. Stage[c] = "complete"  BY <2>1, <2>7, <2>8 DEF BuilderOf
    <3>2. conn'[c].answered = TRUE  BY <2>1, <2>5, <2>8
    <3>3. (StageOf(conn[c].phase, BuilderOf(c).st, conn[c].answered))' = "answered"
      BY <2>5, <3>2 DEF StageOf
    <3>4. Stage' = [Stage EXCEPT ![c] = "answered"]  BY <2>3, <3>3, StageChange
    <3>5. Promise!Answer(c)
      BY <1>9, <2>4, <3>1, <3>4 DEF Promise!Answer, Promise!Moves, Promise!Clear
    <3> QED  BY <1>8, <3>5 DEF Kept, Promise!Next
  <2>9. CASE told = {} /\ (\A d \in OnFd(fd) : conn[d].end # "open" \/ "clock" \in Env)
    <3>1. conn'[c].answered = FALSE  BY <2>5, <2>6, <2>9
    <3>2. (StageOf(conn[c].phase, BuilderOf(c).st, conn[c].answered))' = "dropped"
      BY <2>5, <3>1 DEF StageOf
    <3>3. Stage' = [Stage EXCEPT ![c] = "dropped"]  BY <2>3, <3>2, StageChange
    <3>4. Gone[c] \/ ~("clock" \notin Env)  BY <2>1, <2>9 DEF Gone
    <3>5. \E from \in {"open", "complete"} : Stage[c] = from  BY <2>7
    <3>6. Promise!Drop(c)
      BY <1>9, <2>4, <3>3, <3>4, <3>5 DEF Promise!Drop, Promise!Moves, Promise!Clear
    <3> QED  BY <1>8, <3>6 DEF Kept, Promise!Next
  <2> QED  BY <2>8, <2>9
<1> QED  BY <1>10, <1>11

(* The three ways a connection ends while the server serves.               *)
LEMMA EndingsKept ==
  ASSUME SInv, TablesMatch, TypeOK', Serving, Serving',
         Respond \/ Expire \/ \E c \in Conns : ReceiveHangup(c)
  PROVE  Kept
<1>1. fd \in Fds
  BY DEF Respond, AtRespond, Expire, ReceiveHangup, AtReceive, AtRead, SInv, IInv, FdTaken
<1>2. \A c \in OnFd(fd) : fd \notin Servers
  BY DEF OnFd, Accepted, TablesMatch, OwnDescriptors
<1>3. CASE Respond
  <2>1. requestBuilderMap[fd].st = "ready"
    <3>1. TRUE \in IsReady(fd) /\ requestBuilderMap[fd].st # "throws"
      BY <1>3 DEF Respond, AtRespond
    <3>2. requestBuilderMap[fd].st # "freed"
      <4>1. CASE OnFd(fd) = {}
        BY <1>1, <4>1 DEF TablesMatch, NothingLeftBehind, NoBuilder
      <4>2. CASE OnFd(fd) # {}
        BY <4>2 DEF OnFd, Accepted, BuilderOf, TablesMatch, OwnBuilders, NoBuilder
      <4> QED  BY <4>1, <4>2
    <3> QED  BY <3>1, <3>2 DEF IsReady
  <2>2. OnFd(fd) # {}  BY <1>1, <2>1 DEF TablesMatch, NothingLeftBehind, NoBuilder
  <2>3. EndConnection(fd, OnFd(fd))  BY <1>3 DEF Respond
  <2> QED  BY <1>1, <1>2, <2>1, <2>2, <2>3, EndKept
<1>4. CASE Expire
  <2>1. EndConnection(fd, {}) /\ fd \notin Servers  BY <1>4 DEF Expire, IsServerSocket
  <2>2. "clock" \in Env
    BY <1>1, <1>4 DEF Expire, Age, NoTime, SInv, NothingAges
  <2> QED  BY <1>1, <2>1, <2>2, EndKept
<1>5. CASE \E c \in Conns : ReceiveHangup(c)
  <2>1. PICK c \in OnFd(fd) : conn[c].end = "fin" /\ EndConnection(fd, {})
    BY <1>5 DEF ReceiveHangup
  <2>2. \A d \in OnFd(fd) : d = c  BY DEF OnFd, Accepted, TablesMatch, OwnDescriptors
  <2> QED  BY <1>1, <1>2, <2>1, <2>2, EndKept
<1> QED  BY <1>3, <1>4, <1>5

(* While the server serves, each of its steps, and of its clients', keeps  *)
(* the promise.                                                            *)
LEMMA StepKept ==
  ASSUME SInv, TypeOK', Serving, Serving', Next
  PROVE  Kept
<1> TablesMatch  BY DEF SInv
<1>1. CASE \/ Poll \/ PollFails \/ LoopTest \/ NothingToRead \/ AcceptFails
           \/ NothingToWrite \/ BuildThrows \/ NotExpired \/ Tick
  BY <1>1, ControlKept
<1>2. CASE Clients  BY <1>2, ClientsKept
<1>3. CASE ReceiveError  BY <1>3, ReceiveErrorKept
<1>4. CASE \E c \in Conns : Accept(c) \/ ReceiveData(c)
  BY <1>4, AcceptKept, ReceiveDataKept
<1>5. CASE Respond \/ Expire \/ \E c \in Conns : ReceiveHangup(c)
  BY <1>5, EndingsKept
<1>6. CASE Recover
  <2>1. ~Clean
    BY DEF Clean, Serving, SInv, IInv, TypeOK
  <2>2. ~RestartSocket /\ ~InitAgain
    BY DEF RestartSocket, InitAgain, Serving, SInv, RestartsCounted
  <2> QED  BY <1>6, <2>1, <2>2 DEF Recover
<1>7. CASE Interrupt  BY <1>7 DEF Interrupt, Serving, Up
<1> QED  BY <1>1, <1>2, <1>3, <1>4, <1>5, <1>6, <1>7 DEF Next, System, Read, Write

----------------------------------------------------------------------------
(* The refinement                                                          *)

(* The loop begins as the promise does.                                    *)
LEMMA InitServes == Init => SInv /\ Promise!Init
<1> SUFFICES ASSUME Init PROVE SInv /\ Promise!Init  OBVIOUS
<1>1. IInv  BY InitInvariant
<1>2. NothingAges /\ RestartsCounted  BY DEF Init, NothingAges, RestartsCounted
<1>3. \A c \in Conns : /\ conn[c].phase = "out" /\ conn[c].port = 0 /\ conn[c].data = "none"
                       /\ conn[c].end = "open" /\ conn[c].answered = FALSE
  BY DEF Init
<1>4. TablesMatch
  <2>1. ListenersInPlace  BY DEF Init, ListenersInPlace
  <2>2. OwnDescriptors /\ ServersRemembered /\ OwnBuilders /\ AnsweredLast
    BY <1>3 DEF OwnDescriptors, ServersRemembered, OwnBuilders, AnsweredLast, Accepted
  <2>3. NothingLeftBehind  BY DEF Init, NothingLeftBehind
  <2> QED  BY <2>1, <2>2, <2>3 DEF TablesMatch
<1>5. Serving = TRUE  BY DEF Serving, Up, Init
<1>6. Stage = [c \in Conns |-> "out"]  BY <1>3 DEF Stage, StageOf
<1>7. InCharge \in [Conns -> {0}]  BY <1>3 DEF InCharge
<1>8. Asked = [c \in Conns |-> FALSE] /\ Gone = [c \in Conns |-> FALSE]
  <2>1. \A c \in Conns : /\ (conn[c].data \in {"last", "bad"}) = FALSE
                         /\ (conn[c].end # "open") = FALSE
    BY <1>3
  <2> QED  BY <2>1 DEF Asked, Gone
<1> QED  BY <1>1, <1>2, <1>4, <1>5, <1>6, <1>7, <1>8 DEF SInv, Promise!Init

(* A server that no longer serves never serves again.                      *)
LEMMA LapsedForGood == ASSUME TypeOK, Next, Serving' PROVE Serving
<1>1. Up
  BY DEF Next, System, Read, Write, Recover, Clients, Poll, PollFails, LoopTest, NothingToRead,
         AcceptFails, ReceiveError, Accept, ReceiveData, ReceiveHangup, AtReceive, AtRead,
         NothingToWrite, Respond, BuildThrows, AtRespond, NotExpired, Expire, Clean,
         RestartSocket, InitAgain, Interrupt, Connect, Send, HangUp, Alive, Tick, Running
<1>2. restarts' = restarts \/ restarts' = restarts + 1
  BY DEF Next, System, Read, Write, Recover, Clients, Poll, PollFails, LoopTest, NothingToRead,
         AcceptFails, ReceiveError, Accept, ReceiveData, ReceiveHangup,
         NothingToWrite, Respond, BuildThrows, NotExpired, Expire, Clean,
         RestartSocket, InitAgain, Interrupt, Connect, Send, HangUp, Tick
<1> QED  BY <1>1, <1>2 DEF Serving, TypeOK

(* Only the clock ages a connection, and only a recovery is counted.       *)
LEMMA ClockInvariant == ASSUME SInv, Next PROVE NothingAges' /\ RestartsCounted'
<1> USE DEF SInv
<1>1. NothingAges'
  <2>1. SUFFICES ASSUME "clock" \notin Env
                 PROVE  uptime' = 0 /\ \A f \in Fds : fds_time'[f] \in {0, NoTime}
    BY DEF NothingAges
  <2>2. uptime = 0 /\ \A f \in Fds : fds_time[f] \in {0, NoTime}
    BY <2>1 DEF NothingAges
  <2>3. fds_time \in [Fds -> Ages \cup {NoTime}]  BY DEF IInv, TypeOK
  <2>4. UNCHANGED uptime
    BY <2>1
       DEF Next, System, Read, Write, Recover, Clients, Poll, PollFails, LoopTest, NothingToRead,
           AcceptFails, ReceiveError, Accept, ReceiveData, ReceiveHangup,
           NothingToWrite, Respond, BuildThrows, NotExpired, Expire, Clean,
           RestartSocket, InitAgain, Interrupt, Connect, Send, HangUp, Tick
  <2>5. CASE NotExpired
    <3>1. Age(fd) \in {0, NoTime} \/ fd \notin Fds  BY <2>2 DEF Age
    <3> QED  BY <2>2, <2>3, <2>5, <3>1 DEF NotExpired
  <2>6. CASE Expire  BY <2>2, <2>3, <2>6 DEF Expire
  <2>7. ASSUME NEW c \in Conns, Accept(c)
        PROVE  \A f \in Fds : fds_time'[f] \in {0, NoTime}
    BY <2>2, <2>3, <2>7 DEF Accept
  <2>8. CASE ~NotExpired /\ ~Expire /\ ~ \E c \in Conns : Accept(c)
    <3>1. UNCHANGED fds_time
      BY <2>1, <2>8
         DEF Next, System, Read, Write, Recover, Clients, Poll, PollFails, LoopTest,
             NothingToRead, AcceptFails, ReceiveError, ReceiveData, ReceiveHangup,
             NothingToWrite, Respond, BuildThrows, Clean, webserv,
             RestartSocket, InitAgain, Interrupt, Connect, Send, HangUp, Tick
    <3> QED  BY <2>2, <2>4, <3>1
  <2> QED  BY <2>2, <2>4, <2>5, <2>6, <2>7, <2>8
<1>2. RestartsCounted'
  <2>1. restarts \in Nat /\ (pc = "restart" => restarts > 0)  BY DEF RestartsCounted, IInv, TypeOK
  <2>2. \/ pc' = pc /\ restarts' = restarts
        \/ pc' # "restart"
        \/ restarts' = restarts + 1
    BY DEF Next, System, Read, Write, Recover, Clients, Poll, PollFails, LoopTest, NothingToRead,
           AcceptFails, ReceiveError, Accept, ReceiveData, ReceiveHangup,
           NothingToWrite, Respond, BuildThrows, NotExpired, Expire, Clean,
           RestartSocket, InitAgain, Interrupt, Connect, Send, HangUp, Tick
  <2> QED  BY <2>1, <2>2 DEF RestartsCounted
<1> QED  BY <1>1, <1>2

(* Each step is one that the promise allows, or one it does not see.       *)
LEMMA NextServes == SInv /\ [Next]_vars => SInv' /\ [Promise!Next]_(Promise!vars)
<1> SUFFICES ASSUME SInv, [Next]_vars PROVE SInv' /\ [Promise!Next]_(Promise!vars)  OBVIOUS
<1>1. IInv /\ IInv'  BY NextInvariant DEF SInv
<1>2. CASE Next
  <2>1. NothingAges' /\ RestartsCounted'  BY <1>2, ClockInvariant
  <2>2. CASE ~Serving'
    <3>1. Promise!Lapse  BY <2>2 DEF Promise!Lapse
    <3> QED  BY <1>1, <2>1, <2>2, <3>1 DEF SInv, Promise!Next
  <2>3. CASE Serving'
    <3>1. Serving /\ TypeOK'  BY <1>1, <1>2, <2>3, LapsedForGood DEF IInv
    <3>2. Kept  BY <1>2, <2>3, <3>1, StepKept
    <3> QED  BY <1>1, <2>1, <3>2 DEF SInv, Kept
  <2> QED  BY <2>2, <2>3
<1>3. CASE UNCHANGED vars
  <2> USE <1>3 DEF vars, webserv, kernel
  <2>1. UNCHANGED <<Stage, InCharge, Asked, Gone, Serving>>
    BY DEF Stage, InCharge, BuilderOf, Asked, Gone, Serving, Up
  <2>2. UNCHANGED TablesMatch
    BY DEF TablesMatch, ListenersInPlace, OwnDescriptors, NothingLeftBehind, ServersRemembered,
           OwnBuilders, AnsweredLast, Accepted, BuilderOf, OnFd
  <2>3. NothingAges' /\ RestartsCounted'
    BY DEF SInv, NothingAges, RestartsCounted
  <2> QED  BY <1>1, <2>1, <2>2, <2>3 DEF SInv, Promise!vars
<1> QED  BY <1>2, <1>3

(* The tables speak of the connections now on their descriptors for as     *)
(* long as the server serves.                                              *)
THEOREM TablesInvariance == Spec => []SInv
<1>1. SInv /\ [Next]_vars => SInv'  BY NextServes
<1> QED  BY <1>1, InitServes, PTL DEF Spec

(* The event loop, with every interleaving of its clients, resets, clock   *)
(* and exceptions, implements the service of one connection at a time      *)
(* that Service specifies.                                                 *)
THEOREM Refinement == Spec => ServiceProvided
<1>1. SInv /\ [Next]_vars => [Promise!Next]_(Promise!vars)  BY NextServes
<1>2. Init => Promise!Init  BY InitServes
<1> QED  BY <1>1, <1>2, TablesInvariance, PTL DEF Spec, ServiceProvided, Promise!Spec

(* Until the first recovery, no builder mixes the bytes of two connections *)
(* that had the same descriptor number, and none answers for another       *)
(* server than the one its client asked.                                   *)
THEOREM BuildersMatch == Spec => []BuildersMatchConnections
<1>1. SInv => BuildersMatchConnections
  <2> SUFFICES ASSUME SInv, restarts = 0, Up, NEW f \in Fds, requestBuilderMap[f] # NoBuilder
               PROVE  \E c \in OnFd(f) : /\ requestBuilderMap[f].conns = {c}
                                         /\ requestBuilderMap[f].server = conn[c].port
    BY DEF BuildersMatchConnections
  <2>1. TablesMatch  BY DEF SInv, Serving
  <2>2. PICK c \in OnFd(f) : TRUE  BY <2>1 DEF TablesMatch, NothingLeftBehind
  <2>3. c \in Conns /\ Accepted(c) /\ conn[c].fd = f  BY DEF OnFd, Accepted
  <2> QED  BY <2>1, <2>3 DEF TablesMatch, OwnBuilders, BuilderOf
<1> QED  BY <1>1, TablesInvariance, PTL

(***************************************************************************)
(* The vector of pollfds, the listening sockets and the time stamps.       *)
(*                                                                         *)
(* _pfds is searched by descriptor, indexed by the loop and counted by     *)
(* _total_fds; nothing in the code relates it to the open descriptors.     *)
(* Until the first recovery the entries are those of the servers and of    *)
(* the accepted connections, one each (EntriesMatch); and at all times     *)
(* the vector begins with the servers, in order (ServersFirst), so that    *)
(* however little of it clean() still counts, the sockets it closes are    *)
(* the first ones, and the new sockets get the same descriptors again      *)
(* (ListenersAt).                                                          *)
(***************************************************************************)

Entries == DOMAIN pfds

EntriesMatch ==
  /\ \A j, k \in Entries : pfds[j].fd = pfds[k].fd => j = k
  /\ \A k \in Entries :
       \/ pfds[k].fd \in Servers
       \/ pfds[k].out /\ \E c \in Conns : Accepted(c) /\ conn[c].fd = pfds[k].fd
  /\ \A c \in Conns : Accepted(c) => \E k \in Entries : pfds[k].fd = conn[c].fd

(* The counter is right where nothing expires: no connection is ended      *)
(* that has ended already.                                                 *)
EInv == /\ Serving => EntriesMatch
        /\ CounterExact

(* The first entries are the servers', recoveries or not.                  *)
ServersFirst == NumServers <= Len(pfds) /\ \A s \in Servers : pfds[s].fd = s

NoServerBuilders == \A s \in Servers : requestBuilderMap[s] = NoBuilder

(* During a recovery the keys that are still to be bound again are closed, *)
(* or else open and never closed; the closed ones come first.              *)
ListenersAt ==
  /\ \A f \in Fds : listens[f] = IF f \in Servers \cap openFds THEN f ELSE 0
  /\ pc # "restart" => Servers \subseteq openFds
  /\ pc = "restart" => \A s \in Servers \ openFds :
                         i <= s /\ \A t \in Servers \cap openFds : t < i \/ s < t

LInv == Up => ServersFirst /\ NoServerBuilders /\ ListenersAt

----------------------------------------------------------------------------
(* Lemmas about the vector                                                 *)

(* EraseFd() takes out the first entry of f, and keeps the others in       *)
(* order; or there is none.                                                *)
LEMMA EraseFdTakesFirst ==
  ASSUME NEW s \in Seq(Pollfd), NEW f
  PROVE  \/ EraseFd(s, f) = s /\ \A k \in 1..Len(s) : s[k].fd # f
         \/ \E k \in 1..Len(s) :
              /\ s[k].fd = f /\ \A j \in 1..(k - 1) : s[j].fd # f
              /\ Len(EraseFd(s, f)) = Len(s) - 1
              /\ \A j \in 1..(Len(s) - 1) :
                   EraseFd(s, f)[j] = IF j < k THEN s[j] ELSE s[j + 1]
<1> DEFINE at == {k \in DOMAIN s : s[k].fd = f}
           first == CHOOSE k \in at : \A j \in at : k <= j
<1>0. DOMAIN s = 1..Len(s) /\ Len(s) \in Nat  BY LenProperties
<1>1. CASE at = {}  BY <1>0, <1>1 DEF EraseFd
<1>2. CASE at # {}
  <2>1. at \in SUBSET Nat  BY <1>0
  <2>2. first \in at /\ \A j \in at : first <= j  BY <1>2, <2>1, LeastExists
  <2>3. EraseFd(s, f) = SubSeq(s, 1, first - 1) \o SubSeq(s, first + 1, Len(s))
    BY <1>2 DEF EraseFd, RemoveAt
  <2> HIDE DEF first
  <2>4. first \in 1..Len(s) /\ s[first].fd = f /\ \A j \in 1..(first - 1) : s[j].fd # f
    BY <1>0, <2>2
  <2> DEFINE a == SubSeq(s, 1, first - 1)
             b == SubSeq(s, first + 1, Len(s))
  <2>5. /\ a \in Seq(Pollfd) /\ Len(a) = first - 1
        /\ \A j \in 1..(first - 1) : a[j] = s[j]
    <3>1. \A j \in 1..(first - 1) : s[j] \in Pollfd  BY <2>4, ElementOfSeq
    <3> QED  BY <2>4, <3>1, SubSeqProperties
  <2>6. /\ b \in Seq(Pollfd) /\ Len(b) = Len(s) - first
        /\ \A j \in 1..(Len(s) - first) : b[j] = s[first + j]
    <3>1. \A j \in (first + 1)..Len(s) : s[j] \in Pollfd  BY <2>4, ElementOfSeq
    <3>2. Len(b) = Len(s) - first /\ b \in Seq(Pollfd)  BY <2>4, <3>1, SubSeqProperties
    <3>3. \A j \in 1..Len(b) : b[j] = s[(first + 1) + j - 1]
      BY <2>4, <3>1, SubSeqProperties
    <3>4. \A j \in 1..(Len(s) - first) : (first + 1) + j - 1 = first + j  BY <2>4
    <3> QED  BY <3>2, <3>3, <3>4
  <2> HIDE DEF a, b
  <2>7. /\ Len(a \o b) = Len(a) + Len(b)
        /\ \A j \in 1..(Len(a) + Len(b)) :
             (a \o b)[j] = IF j <= Len(a) THEN a[j] ELSE b[j - Len(a)]
    BY <2>5, <2>6, ConcatProperties
  <2>8. Len(EraseFd(s, f)) = Len(s) - 1
    <3>1. EraseFd(s, f) = a \o b  BY <2>3 DEF a, b
    <3>2. first \in Nat /\ Len(a) + Len(b) = (first - 1) + (Len(s) - first)
      BY <1>0, <2>4, <2>5, <2>6
    <3>3. (first - 1) + (Len(s) - first) = Len(s) - 1  BY <1>0, <3>2
    <3>4. Len(EraseFd(s, f)) = Len(a) + Len(b)  BY <2>7, <3>1
    <3> QED  BY <3>2, <3>3, <3>4
  <2>9. ASSUME NEW j \in 1..(Len(s) - 1)
        PROVE  EraseFd(s, f)[j] = IF j < first THEN s[j] ELSE s[j + 1]
    <3>1. EraseFd(s, f) = a \o b  BY <2>3 DEF a, b
    <3>2. CASE j < first
      <4>1. j \in 1..(first - 1) /\ j \in 1..(Len(a) + Len(b)) /\ j <= Len(a)
        BY <1>0, <2>4, <2>5, <2>6, <3>2
      <4> QED  BY <2>5, <2>7, <3>1, <3>2, <4>1
    <3>3. CASE ~(j < first)
      <4>1. /\ j \in 1..(Len(a) + Len(b)) /\ ~(j <= Len(a)) /\ j - Len(a) \in 1..(Len(s) - first)
            /\ first + (j - Len(a)) = j + 1
        BY <1>0, <2>4, <2>5, <2>6, <3>3
      <4> QED  BY <2>6, <2>7, <3>1, <3>3, <4>1
    <3> QED  BY <3>2, <3>3
  <2> QED  BY <2>4, <2>8, <2>9
<1> QED  BY <1>1, <1>2

(* Where the entries have different descriptors, none is left of f and all *)
(* the others are.                                                         *)
LEMMA EraseFdEntries ==
  ASSUME NEW s \in Seq(Pollfd), NEW f,
         \A j, k \in DOMAIN s : s[j].fd = s[k].fd => j = k
  PROVE  LET e == EraseFd(s, f)
         IN /\ \A j, k \in DOMAIN e : e[j].fd = e[k].fd => j = k
            /\ \A j \in DOMAIN e : \E k \in DOMAIN s : e[j] = s[k] /\ s[k].fd # f
            /\ \A k \in DOMAIN s : s[k].fd # f => \E j \in DOMAIN e : e[j] = s[k]
            /\ (\E k \in DOMAIN s : s[k].fd = f) => Len(e) = Len(s) - 1
<1> DEFINE e == EraseFd(s, f)
<1>0. DOMAIN s = 1..Len(s) /\ Len(s) \in Nat  BY LenProperties
<1>1. CASE e = s /\ \A k \in 1..Len(s) : s[k].fd # f
  BY <1>0, <1>1
<1>2. CASE \E k \in 1..Len(s) :
              /\ s[k].fd = f /\ Len(e) = Len(s) - 1
              /\ \A j \in 1..(Len(s) - 1) : e[j] = IF j < k THEN s[j] ELSE s[j + 1]
  <2>1. PICK k \in 1..Len(s) :
              /\ s[k].fd = f /\ Len(e) = Len(s) - 1
              /\ \A j \in 1..(Len(s) - 1) : e[j] = IF j < k THEN s[j] ELSE s[j + 1]
    BY <1>2
  <2>2. e \in Seq(Pollfd)  BY EraseFdProperties
  <2>3. DOMAIN e = 1..(Len(s) - 1)  BY <2>1, <2>2, LenProperties
  <2> DEFINE old(j) == IF j < k THEN j ELSE j + 1
  <2> HIDE DEF e
  <2>4. \A j \in DOMAIN e : old(j) \in DOMAIN s /\ old(j) # k /\ e[j] = s[old(j)]
    BY <1>0, <2>1, <2>3
  <2>5. \A j, m \in DOMAIN e : old(j) = old(m) => j = m  BY <1>0, <2>1, <2>3
  <2>6. \A m \in DOMAIN s : m # k => \E j \in DOMAIN e : old(j) = m
    <3> SUFFICES ASSUME NEW m \in DOMAIN s, m # k  PROVE \E j \in DOMAIN e : old(j) = m
      OBVIOUS
    <3>1. CASE m < k  BY <1>0, <2>1, <2>3, <3>1
    <3>2. CASE m > k
      <4>1. m - 1 \in DOMAIN e /\ old(m - 1) = m  BY <1>0, <2>1, <2>3, <3>2
      <4> QED  BY <4>1
    <3> QED  BY <1>0, <2>1, <3>1, <3>2
  <2> HIDE DEF old
  <2>7. \A j, m \in DOMAIN e : e[j].fd = e[m].fd => j = m  BY <2>4, <2>5
  <2>8. \A j \in DOMAIN e : \E m \in DOMAIN s : e[j] = s[m] /\ s[m].fd # f
    BY <1>0, <2>1, <2>4
  <2>9. \A m \in DOMAIN s : s[m].fd # f => \E j \in DOMAIN e : e[j] = s[m]
    BY <2>1, <2>4, <2>6
  <2> QED  BY <2>1, <2>7, <2>8, <2>9 DEF e
<1> QED  BY <1>1, <1>2, EraseFdTakesFirst

----------------------------------------------------------------------------
(* What a step does to the connections and the vector                      *)

(* The steps in which no connection is accepted or ended.                  *)
Quiet == \/ Poll \/ PollFails \/ LoopTest \/ NothingToRead \/ AcceptFails \/ ReceiveError
         \/ NothingToWrite \/ BuildThrows \/ NotExpired \/ Tick \/ Clients
         \/ \E c \in Conns : ReceiveData(c)

Ending == Respond \/ Expire \/ \E c \in Conns : ReceiveHangup(c)

(* The steps of the loop, the kernel and the clients.                      *)
LEMMA NextCases ==
  ASSUME Next
  PROVE  \/ Quiet \/ Ending \/ Recover \/ Interrupt
         \/ \E c \in Conns : Accept(c)
BY DEF Next, System, Read, Write, Quiet, Ending

(* Nothing happens after the server has stopped or died.                   *)
LEMMA NextIsUp == ASSUME Next PROVE Up
BY DEF Next, System, Read, Write, Recover, Clients, Poll, PollFails, LoopTest, NothingToRead,
       AcceptFails, ReceiveError, Accept, ReceiveData, ReceiveHangup, AtReceive, AtRead,
       NothingToWrite, Respond, BuildThrows, AtRespond, NotExpired, Expire, Clean,
       RestartSocket, InitAgain, Interrupt, Connect, Send, HangUp, Alive, Tick, Running

(* Quiet steps leave connections and their descriptors alone.              *)
LEMMA QuietConnections ==
  ASSUME TypeOK, Quiet
  PROVE  \A c \in Conns : Accepted(c)' = Accepted(c) /\ conn'[c].fd = conn[c].fd
<1>1. conn \in [Conns -> Connection]  BY DEF TypeOK
<1>2. CASE Tick  BY <1>1, <1>2 DEF Tick, Accepted, Connection
<1>3. CASE Clients
  BY <1>1, <1>3 DEF Clients, Connect, Send, HangUp, Alive, Accepted, Connection
<1>4. CASE \E c \in Conns : ReceiveData(c)
  BY <1>1, <1>4 DEF ReceiveData, Accepted, Connection
<1>5. CASE \/ Poll \/ PollFails \/ LoopTest \/ NothingToRead \/ AcceptFails \/ ReceiveError
           \/ NothingToWrite \/ BuildThrows \/ NotExpired
  <2>1. UNCHANGED conn
    BY <1>5 DEF Poll, PollFails, LoopTest, NothingToRead, AcceptFails, ReceiveError,
                NothingToWrite, BuildThrows, NotExpired, kernel
  <2> QED  BY <2>1 DEF Accepted
<1> QED  BY <1>2, <1>3, <1>4, <1>5 DEF Quiet

(* poll() writes only the revents.                                         *)
LEMMA QuietVector ==
  ASSUME TypeOK, Quiet
  PROVE  /\ UNCHANGED <<total_fds, restarts>> /\ DOMAIN pfds' = DOMAIN pfds
         /\ Len(pfds') = Len(pfds)
         /\ \A k \in Entries : pfds'[k].fd = pfds[k].fd /\ pfds'[k].out = pfds[k].out
<1>1. pfds \in Seq(Pollfd) /\ DOMAIN pfds = 1..Len(pfds)  BY LenProperties DEF TypeOK
<1>2. CASE Poll
  <2>1. pfds' = [k \in 1..Len(pfds) |-> Polled(pfds[k])]  BY <1>1, <1>2 DEF Poll
  <2>2. \A k \in 1..Len(pfds) : pfds[k] \in Pollfd  BY <1>1, ElementOfSeq
  <2>3. \A k \in 1..Len(pfds) : pfds'[k].fd = pfds[k].fd /\ pfds'[k].out = pfds[k].out
    BY <2>1, <2>2 DEF Polled, Pollfd
  <2>4. Len(pfds') = Len(pfds)  BY <1>1, <2>1, LenProperties
  <2> QED  BY <1>1, <1>2, <2>1, <2>3, <2>4 DEF Poll, Entries
<1>3. CASE ~Poll
  BY <1>3 DEF Quiet, PollFails, LoopTest, NothingToRead, AcceptFails, ReceiveError, ReceiveData,
              NothingToWrite, BuildThrows, NotExpired, Tick, Clients, Connect, Send, HangUp,
              webserv, Entries
<1> QED  BY <1>2, <1>3

(* close() ends the connections on its descriptors and changes no other    *)
(* accepted one.                                                           *)
LEMMA CloseConnections ==
  ASSUME TypeOK, NEW S, NEW told, Close(S, told)
  PROVE  \A c \in Conns : /\ Accepted(c)' <=> Accepted(c) /\ conn[c].fd \notin S
                          /\ Accepted(c)' => conn'[c] = conn[c]
<1>1. conn \in [Conns -> Connection]  BY DEF TypeOK
<1> SUFFICES ASSUME NEW c \in Conns
             PROVE  /\ Accepted(c)' <=> Accepted(c) /\ conn[c].fd \notin S
                    /\ Accepted(c)' => conn'[c] = conn[c]
  OBVIOUS
<1> DEFINE ends == \/ \E f \in S : c \in OnFd(f)
                   \/ \E f \in S : listens[f] # 0 /\ c \in Queue(listens[f])
<1>2. CASE ends
  <2>1. conn'[c] = [Ended(conn[c]) EXCEPT !.answered = @ \/ c \in told]  BY <1>2 DEF Close
  <2>2. conn'[c].phase = "closed"  BY <1>1, <2>1 DEF Ended, Connection
  <2>3. ~Accepted(c) \/ conn[c].fd \in S  BY <1>2 DEF OnFd, Queue, Accepted
  <2> QED  BY <2>2, <2>3 DEF Accepted
<1>3. CASE ~ends
  <2>1. conn'[c] = conn[c]  BY <1>3 DEF Close
  <2>2. Accepted(c) => conn[c].fd \notin S  BY <1>3 DEF OnFd, Accepted
  <2> QED  BY <2>1, <2>2 DEF Accepted
<1> QED  BY <1>2, <1>3

(* While the server serves, the descriptor of a connection that is ended   *)
(* is not a server's; and only a timeout ends one that has ended already.  *)
LEMMA EndingOfWhat ==
  ASSUME SInv, TablesMatch, Ending
  PROVE  /\ fd \in Fds \ Servers /\ \E told : EndConnection(fd, told)
         /\ OnFd(fd) # {} \/ "clock" \in Env
<1>1. fd \in Fds
  BY DEF Ending, Respond, AtRespond, Expire, ReceiveHangup, AtReceive, AtRead, SInv, IInv, FdTaken
<1>2. OnFd(fd) # {} => fd \notin Servers
  BY DEF OnFd, Accepted, TablesMatch, OwnDescriptors
<1>3. CASE Respond
  <2>1. requestBuilderMap[fd] # NoBuilder
    <3>1. TRUE \in IsReady(fd)  BY <1>3 DEF Respond, AtRespond
    <3>2. requestBuilderMap[fd].st # "none"  BY <3>1 DEF IsReady
    <3> QED  BY <3>2 DEF NoBuilder
  <2>2. OnFd(fd) # {}  BY <1>1, <2>1 DEF TablesMatch, NothingLeftBehind
  <2> QED  BY <1>1, <1>2, <1>3, <2>2 DEF Respond
<1>4. CASE Expire
  <2>1. "clock" \in Env  BY <1>1, <1>4 DEF Expire, Age, NoTime, SInv, NothingAges
  <2> QED  BY <1>1, <1>4, <2>1 DEF Expire, IsServerSocket
<1>5. CASE \E c \in Conns : ReceiveHangup(c)
  BY <1>1, <1>2, <1>5 DEF ReceiveHangup
<1> QED  BY <1>3, <1>4, <1>5 DEF Ending

----------------------------------------------------------------------------
(* EInv: the entries are those of the servers and of the connections       *)

(* Quiet steps keep every entry with its connection.                       *)
LEMMA QuietEntries ==
  ASSUME TypeOK, EntriesMatch, Quiet
  PROVE  EntriesMatch'
<1>1. \A c \in Conns : Accepted(c)' = Accepted(c) /\ conn'[c].fd = conn[c].fd
  BY QuietConnections
<1>2. /\ Entries' = Entries
      /\ \A k \in Entries : pfds'[k].fd = pfds[k].fd /\ pfds'[k].out = pfds[k].out
  BY QuietVector DEF Entries
<1> QED  BY <1>1, <1>2 DEF EntriesMatch

(* A new connection gets one new entry, the last.                          *)
LEMMA AcceptEntries ==
  ASSUME SInv, TablesMatch, EntriesMatch, NEW c \in Conns, Accept(c)
  PROVE  EntriesMatch' /\ total_fds' = total_fds + 1 /\ Len(pfds') = Len(pfds) + 1
<1> DEFINE new == LowestFree
<1>1. new \in Fds \ openFds
  <2>1. Free # {}  BY DEF Accept
  <2> QED  BY <2>1, LowestFreeIsFree DEF Free
<1> HIDE DEF new
<1>2. /\ pfds' = Append(pfds, ClientPollfd(new))
      /\ conn' = [conn EXCEPT ![c].phase = "accepted", ![c].fd = new]
      /\ conn[c].phase = "queued" /\ total_fds' = total_fds + 1
  BY DEF Accept, new, Queue
<1>3. /\ pfds \in Seq(Pollfd) /\ Len(pfds) \in Nat /\ Entries = 1..Len(pfds)
      /\ ClientPollfd(new) \in Pollfd
      /\ ClientPollfd(new).fd = new /\ ClientPollfd(new).out
  BY <1>1, LenProperties DEF SInv, IInv, TypeOK, Entries, ClientPollfd, Pollfd
<1>4. /\ pfds' \in Seq(Pollfd) /\ Len(pfds') = Len(pfds) + 1
      /\ \A k \in Entries : pfds'[k] = pfds[k]
      /\ pfds'[Len(pfds) + 1] = ClientPollfd(new)
  BY <1>2, <1>3, AppendProperties
<1>5. Entries' = Entries \cup {Len(pfds) + 1} /\ Len(pfds) + 1 \notin Entries
  BY <1>3, <1>4, LenProperties DEF Entries
<1>6. /\ Accepted(c)' /\ conn'[c].fd = new
      /\ ~Accepted(c) /\ \A d \in Conns \ {c} : conn'[d] = conn[d]
  BY <1>2 DEF Accepted, Connection, SInv, IInv, TypeOK
<1>7. \A d \in Conns : Accepted(d) => Accepted(d)' /\ conn'[d] = conn[d]
  BY <1>6 DEF Accepted
<1>8. \A k \in Entries : pfds[k].fd \in openFds
  <2>1. \A d \in Conns : Accepted(d) => conn[d].fd \in openFds
    BY DEF TablesMatch, OwnDescriptors
  <2>2. Servers \subseteq openFds  BY DEF TablesMatch, ListenersInPlace
  <2> QED  BY <2>1, <2>2 DEF EntriesMatch
<1>9. \A j, k \in Entries' : pfds'[j].fd = pfds'[k].fd => j = k
  BY <1>1, <1>3, <1>4, <1>5, <1>8 DEF EntriesMatch
<1>10. ASSUME NEW k \in Entries'
       PROVE  \/ pfds'[k].fd \in Servers
              \/ pfds'[k].out /\ \E d \in Conns : Accepted(d)' /\ conn'[d].fd = pfds'[k].fd
  <2>1. CASE k \in Entries  BY <1>4, <1>7, <2>1 DEF EntriesMatch
  <2>2. CASE k = Len(pfds) + 1  BY <1>3, <1>4, <1>6, <2>2
  <2> QED  BY <1>5, <2>1, <2>2
<1>11. ASSUME NEW d \in Conns, Accepted(d)'
       PROVE  \E k \in Entries' : pfds'[k].fd = conn'[d].fd
  <2>1. CASE d = c  BY <1>3, <1>4, <1>5, <1>6, <2>1
  <2>2. CASE d # c
    <3>1. Accepted(d) /\ conn'[d] = conn[d]  BY <1>6, <1>11, <2>2 DEF Accepted
    <3>2. PICK k \in Entries : pfds[k].fd = conn[d].fd  BY <3>1 DEF EntriesMatch
    <3> QED  BY <1>4, <1>5, <3>1, <3>2
  <2> QED  BY <2>1, <2>2
<1>12. EntriesMatch'  BY <1>9, <1>10, <1>11 DEF EntriesMatch
<1> QED  BY <1>2, <1>4, <1>12

(* Where there is a connection to end, its one entry goes with it.         *)
LEMMA EndEntries ==
  ASSUME TypeOK, TablesMatch, EntriesMatch, fd \in Fds \ Servers,
         NEW told, EndConnection(fd, told)
  PROVE  /\ EntriesMatch' /\ total_fds' = total_fds - 1
         /\ OnFd(fd) # {} => Len(pfds') = Len(pfds) - 1
<1>1. pfds \in Seq(Pollfd)  BY DEF TypeOK
<1>2. pfds' = EraseFd(pfds, fd) /\ total_fds' = total_fds - 1 /\ Close({fd}, told)
  BY DEF EndConnection
<1>3. /\ \A j, k \in Entries' : pfds'[j].fd = pfds'[k].fd => j = k
      /\ \A j \in Entries' : \E k \in Entries : pfds'[j] = pfds[k] /\ pfds[k].fd # fd
      /\ \A k \in Entries : pfds[k].fd # fd => \E j \in Entries' : pfds'[j] = pfds[k]
      /\ (\E k \in Entries : pfds[k].fd = fd) => Len(pfds') = Len(pfds) - 1
  <2>1. \A j, k \in DOMAIN pfds : pfds[j].fd = pfds[k].fd => j = k
    BY DEF EntriesMatch, Entries
  <2> HIDE DEF EntriesMatch
  <2> QED  BY <1>1, <1>2, <2>1, EraseFdEntries DEF Entries
<1>4. \A c \in Conns : /\ Accepted(c)' <=> Accepted(c) /\ conn[c].fd # fd
                       /\ Accepted(c)' => conn'[c] = conn[c]
  BY <1>2, CloseConnections
<1>5. \A c \in Conns : Accepted(c) /\ conn[c].fd # fd => Accepted(c)' /\ conn'[c] = conn[c]
  BY <1>4
<1>6. ASSUME NEW j \in Entries'
      PROVE  \/ pfds'[j].fd \in Servers
             \/ pfds'[j].out /\ \E c \in Conns : Accepted(c)' /\ conn'[c].fd = pfds'[j].fd
  <2>1. PICK k \in Entries : pfds'[j] = pfds[k] /\ pfds[k].fd # fd  BY <1>3
  <2> QED  BY <1>5, <2>1 DEF EntriesMatch
<1>7. ASSUME NEW c \in Conns, Accepted(c)'
      PROVE  \E j \in Entries' : pfds'[j].fd = conn'[c].fd
  <2>1. Accepted(c) /\ conn[c].fd # fd /\ conn'[c] = conn[c]  BY <1>4, <1>7
  <2>2. PICK k \in Entries : pfds[k].fd = conn[c].fd  BY <2>1 DEF EntriesMatch
  <2>3. PICK j \in Entries' : pfds'[j] = pfds[k]  BY <1>3, <2>1, <2>2
  <2> QED  BY <2>1, <2>2, <2>3
<1>8. OnFd(fd) # {} => \E k \in Entries : pfds[k].fd = fd
  BY DEF OnFd, Accepted, EntriesMatch
<1>9. EntriesMatch'  BY <1>3, <1>6, <1>7 DEF EntriesMatch
<1> QED  BY <1>2, <1>3, <1>8, <1>9

(* There are no connections and no entries to visit at first.              *)
LEMMA InitEntries == Init => EInv
<1> SUFFICES ASSUME Init PROVE EInv  OBVIOUS
<1>1. /\ pfds = ServerPollfds /\ total_fds = NumServers /\ Len(ServerPollfds) = NumServers
      /\ ~ \E c \in Conns : Accepted(c)
  BY ServerPollfdsProperties DEF Init, Accepted
<1>2. Entries = Servers /\ \A k \in Entries : pfds[k].fd = k
  BY <1>1 DEF Entries, ServerPollfds, ServerPollfd
<1>3. EntriesMatch  BY <1>1, <1>2 DEF EntriesMatch
<1> QED  BY <1>1, <1>3 DEF EInv, CounterExact

(* Each step keeps every entry visited.                                    *)
LEMMA NextEntries == SInv /\ EInv /\ [Next]_vars => EInv'
<1> SUFFICES ASSUME SInv, EInv, [Next]_vars PROVE EInv'  OBVIOUS
<1>0. TypeOK /\ restarts \in Nat  BY DEF SInv, IInv, TypeOK
<1>1. CASE Next /\ restarts = 0 /\ ~Recover /\ ~Interrupt
  <2>1. TablesMatch /\ EntriesMatch  BY <1>1, NextIsUp DEF SInv, EInv, Serving
  <2>2. "clock" \notin Env => total_fds = Len(pfds)  BY <1>1 DEF EInv, CounterExact
  <2>3. EntriesMatch' /\ ("clock" \notin Env => total_fds' = Len(pfds'))
    <3>1. CASE Quiet
      BY <1>0, <2>1, <2>2, <3>1, QuietEntries, QuietVector
    <3>2. CASE \E c \in Conns : Accept(c)  BY <2>1, <2>2, <3>2, AcceptEntries
    <3>3. CASE Ending
      <4>1. fd \in Fds \ Servers /\ (OnFd(fd) # {} \/ "clock" \in Env)
        BY <2>1, <3>3, EndingOfWhat
      <4>2. PICK told : EndConnection(fd, told)  BY <2>1, <3>3, EndingOfWhat
      <4> QED  BY <1>0, <2>1, <2>2, <4>1, <4>2, EndEntries
    <3> QED  BY <1>1, <3>1, <3>2, <3>3, NextCases
  <2> QED  BY <2>3 DEF EInv, CounterExact
<1>2. CASE Interrupt
  <2>1. UNCHANGED <<pfds, total_fds, restarts>> /\ ~Serving'
    BY <1>2 DEF Interrupt, webserv, Serving, Up
  <2> QED  BY <2>1 DEF EInv, CounterExact
<1>3. CASE Next /\ (restarts # 0 \/ Recover) /\ ~Interrupt
  <2>1. restarts' # 0
    <3>1. CASE restarts # 0
      <4>1. restarts' = restarts \/ restarts' = restarts + 1
        BY <1>3
           DEF Next, System, Read, Write, Recover, Clients, Poll, PollFails, LoopTest,
               NothingToRead, AcceptFails, ReceiveError, Accept, ReceiveData, ReceiveHangup,
               NothingToWrite, Respond, BuildThrows, NotExpired, Expire, Clean,
               RestartSocket, InitAgain, Interrupt, Connect, Send, HangUp, Tick
      <4> QED  BY <1>0, <3>1, <4>1
    <3>2. CASE Clean  BY <1>0, <3>2 DEF Clean
    <3>3. CASE RestartSocket \/ InitAgain
      BY <1>0, <3>3 DEF RestartSocket, InitAgain, SInv, RestartsCounted
    <3> QED  BY <1>3, <3>1, <3>2, <3>3 DEF Recover
  <2> QED  BY <2>1 DEF EInv, CounterExact, Serving
<1>4. CASE UNCHANGED vars
  BY <1>4 DEF vars, webserv, kernel, EInv, EntriesMatch, Entries, CounterExact, Serving, Up,
              Accepted, OnFd
<1> QED  BY <1>1, <1>2, <1>3, <1>4

----------------------------------------------------------------------------
(* LInv: the servers keep their place in the vector and their descriptors  *)

(* A step that opens and closes nothing and keeps the servers' part of the *)
(* tables.                                                                 *)
LEMMA ListenersStay ==
  ASSUME ServersFirst, NoServerBuilders, ListenersAt, UNCHANGED <<openFds, listens>>,
         \/ UNCHANGED <<pc, i>>
         \/ pc # "restart" /\ pc' # "restart",
         NumServers <= Len(pfds'), \A s \in Servers : pfds'[s].fd = pfds[s].fd,
         \A s \in Servers : requestBuilderMap'[s] = requestBuilderMap[s]
  PROVE  LInv'
BY DEF LInv, ServersFirst, NoServerBuilders, ListenersAt

(* Quiet steps keep the listeners' keys.                                   *)
LEMMA QuietListeners ==
  ASSUME IInv, ServersFirst, NoServerBuilders, ListenersAt, Quiet
  PROVE  LInv'
<1> USE DEF IInv
<1>1. /\ Len(pfds') = Len(pfds) /\ Entries = 1..Len(pfds)
      /\ \A k \in Entries : pfds'[k].fd = pfds[k].fd
  BY QuietVector, LenProperties DEF Entries, TypeOK
<1>2. NumServers <= Len(pfds') /\ \A s \in Servers : pfds'[s].fd = pfds[s].fd
  <2>1. Len(pfds) \in Nat  BY LenProperties DEF TypeOK
  <2>2. Servers \subseteq Entries  BY <1>1, <2>1 DEF ServersFirst, Servers
  <2> QED  BY <1>1, <2>2 DEF ServersFirst
<1>3. UNCHANGED <<openFds, listens>>
  BY DEF Quiet, Poll, PollFails, LoopTest, NothingToRead, AcceptFails, ReceiveError, ReceiveData,
         NothingToWrite, BuildThrows, NotExpired, Tick, Clients, Connect, Send, HangUp, kernel
<1>4. \/ UNCHANGED <<pc, i>>
      \/ pc # "restart" /\ pc' # "restart"
  BY DEF Quiet, Poll, PollFails, LoopTest, NothingToRead, AcceptFails, ReceiveError, ReceiveData,
         AtReceive, AtRead, NothingToWrite, BuildThrows, AtRespond, NotExpired, Tick, Clients,
         Connect, Send, HangUp
<1>5. \A s \in Servers : requestBuilderMap'[s] = requestBuilderMap[s]
  <2>1. CASE ReceiveError \/ \E c \in Conns : ReceiveData(c)
    <3>1. /\ \E b : requestBuilderMap' = [requestBuilderMap EXCEPT ![fd] = b]
          /\ fd \notin Servers
      BY <2>1 DEF ReceiveError, ReceiveData, AtReceive, IsServerSocket
    <3>2. requestBuilderMap \in [Fds -> Builder] /\ Servers \subseteq Fds
      BY DEF TypeOK, Servers, Fds
    <3> QED  BY <3>1, <3>2
  <2>2. CASE ~ReceiveError /\ ~ \E c \in Conns : ReceiveData(c)
    BY <2>2 DEF Quiet, Poll, PollFails, LoopTest, NothingToRead, AcceptFails, NothingToWrite,
                BuildThrows, NotExpired, Tick, Clients, Connect, Send, HangUp, webserv
  <2> QED  BY <2>1, <2>2
<1> QED  BY <1>2, <1>3, <1>4, <1>5, ListenersStay

(* A new connection keeps the listeners' keys.                             *)
LEMMA AcceptListeners ==
  ASSUME IInv, ServersFirst, NoServerBuilders, ListenersAt, NEW c \in Conns, Accept(c)
  PROVE  LInv'
<1> USE DEF IInv
<1> DEFINE new == LowestFree
<1>1. new \in Fds \ openFds
  <2>1. Free # {}  BY DEF Accept
  <2> QED  BY <2>1, LowestFreeIsFree DEF Free
<1> HIDE DEF new
<1>2. /\ pfds' = Append(pfds, ClientPollfd(new)) /\ openFds' = openFds \cup {new}
      /\ pc = "read" /\ pc' = "write" /\ UNCHANGED <<requestBuilderMap, listens>>
  BY DEF Accept, AtRead, new
<1>3. Servers \subseteq openFds /\ new \notin Servers  BY <1>1, <1>2 DEF ListenersAt
<1>4. ListenersAt'  BY <1>2, <1>3 DEF ListenersAt
<1>5. ServersFirst'
  <2>1. ClientPollfd(new) \in Pollfd  BY <1>1 DEF ClientPollfd, Pollfd
  <2>2. Len(pfds') = Len(pfds) + 1 /\ \A k \in 1..Len(pfds) : pfds'[k] = pfds[k]
    BY <1>2, <2>1, AppendProperties DEF TypeOK
  <2>3. Len(pfds) \in Nat  BY LenProperties DEF TypeOK
  <2> QED  BY <2>2, <2>3 DEF ServersFirst, Servers
<1> QED  BY <1>2, <1>4, <1>5 DEF LInv, NoServerBuilders

(* Ending a connection keeps the listeners' keys.                          *)
LEMMA EndingListeners ==
  ASSUME IInv, ServersFirst, NoServerBuilders, ListenersAt, Ending
  PROVE  LInv'
<1> USE DEF IInv
<1>1. fd \in Fds \ Servers
  <2>1. fd \in Fds
    BY DEF Ending, Respond, AtRespond, Expire, ReceiveHangup, AtReceive, AtRead, FdTaken
  <2>2. CASE Respond
    <3>1. TRUE \in IsReady(fd)  BY <2>2 DEF Respond, AtRespond
    <3>2. requestBuilderMap[fd].st # "none"  BY <3>1 DEF IsReady
    <3> QED  BY <2>1, <3>2 DEF NoServerBuilders, NoBuilder
  <2>3. CASE Expire \/ \E c \in Conns : ReceiveHangup(c)
    BY <2>1, <2>3 DEF Expire, ReceiveHangup, AtReceive, IsServerSocket
  <2> QED  BY <2>2, <2>3 DEF Ending
<1>2. PICK told : EndConnection(fd, told)  BY DEF Ending, Respond, Expire, ReceiveHangup
<1>3. pc # "restart" /\ pc' # "restart"
  BY DEF Ending, Respond, AtRespond, Expire, ReceiveHangup, AtReceive, AtRead
<1>4. /\ pfds' = EraseFd(pfds, fd) /\ openFds' = openFds \ {fd}
      /\ listens' = [f \in Fds |-> IF f \in {fd} THEN 0 ELSE listens[f]]
      /\ requestBuilderMap' = [requestBuilderMap EXCEPT ![fd] = NoBuilder]
  BY <1>2 DEF EndConnection, Close
<1>5. ListenersAt'  BY <1>1, <1>3, <1>4 DEF ListenersAt
<1>6. NoServerBuilders'  BY <1>1, <1>4 DEF NoServerBuilders, TypeOK, Servers, Fds
<1>7. ServersFirst'
  <2>1. /\ pfds \in Seq(Pollfd) /\ Len(pfds) \in Nat /\ Servers = 1..NumServers
        /\ NumServers \in Nat
    BY LenProperties DEF TypeOK, Servers
  <2>2. CASE pfds' = pfds  BY <2>2 DEF ServersFirst
  <2>3. ASSUME NEW k \in 1..Len(pfds), pfds[k].fd = fd, Len(pfds') = Len(pfds) - 1,
               \A j \in 1..(Len(pfds) - 1) : pfds'[j] = IF j < k THEN pfds[j] ELSE pfds[j + 1]
        PROVE  ServersFirst'
    <3>1. k > NumServers  BY <1>1, <2>1, <2>3 DEF ServersFirst
    <3>2. NumServers <= Len(pfds) - 1  BY <2>1, <3>1
    <3>3. \A s \in Servers : pfds'[s] = pfds[s]  BY <2>1, <2>3, <3>1, <3>2
    <3> QED  BY <2>3, <3>2, <3>3 DEF ServersFirst
  <2>4. CASE \E k \in 1..Len(pfds) :
               /\ pfds[k].fd = fd /\ Len(pfds') = Len(pfds) - 1
               /\ \A j \in 1..(Len(pfds) - 1) : pfds'[j] = IF j < k THEN pfds[j] ELSE pfds[j + 1]
    <3> HIDE DEF ServersFirst
    <3> QED  BY <2>3, <2>4
  <2> QED  BY <1>4, <2>1, <2>2, <2>4, EraseFdTakesFirst
<1> QED  BY <1>5, <1>6, <1>7 DEF LInv

(* clean() closes the descriptors of the first total_fds entries: of the   *)
(* servers' sockets the first so many.                                     *)
LEMMA CleanListeners ==
  ASSUME IInv, ServersFirst, NoServerBuilders, ListenersAt, Clean
  PROVE  LInv'
<1> USE DEF IInv
<1> DEFINE S == {pfds[k].fd : k \in 1..total_fds}
<1>1. /\ pc = "clean" /\ pc' = "restart" /\ i' = 1 /\ UNCHANGED pfds
      /\ openFds' = openFds \ S
      /\ listens' = [f \in Fds |-> IF f \in S THEN 0 ELSE listens[f]]
      /\ requestBuilderMap' = [f \in Fds |-> IF requestBuilderMap[f].st = "none" THEN NoBuilder
                                                                             ELSE FreedBuilder]
  BY DEF Clean, Close
<1>2. total_fds \in Int /\ Servers = 1..NumServers /\ NumServers \in Nat /\ Servers \subseteq Fds
  BY DEF TypeOK, Servers, Fds
<1>3. Servers \subseteq openFds  BY <1>1 DEF ListenersAt
<1>4. ASSUME NEW s \in Servers, s \in S PROVE s <= total_fds
  <2>1. PICK k \in 1..total_fds : pfds[k].fd = s  BY <1>4
  <2>2. CASE k <= NumServers
    <3>1. k \in Servers  BY <1>2, <2>1, <2>2
    <3> QED  BY <2>1, <3>1 DEF ServersFirst
  <2>3. CASE k > NumServers  BY <1>2, <2>1, <2>3
  <2> QED  BY <1>2, <2>2, <2>3
<1>5. ASSUME NEW s \in Servers, s <= total_fds PROVE s \in S
  BY <1>2, <1>5 DEF ServersFirst
<1>6. ListenersAt'
  <2>1. \A f \in Fds : listens'[f] = IF f \in Servers \cap openFds' THEN f ELSE 0
    BY <1>1, <1>3 DEF ListenersAt
  <2>2. ASSUME NEW s \in Servers \ openFds', NEW t \in Servers \cap openFds'
        PROVE  s < t
    <3>1. s \in S /\ t \notin S  BY <1>1, <1>3
    <3> QED  BY <1>2, <1>4, <1>5, <3>1
  <2>3. \A s \in Servers : 1 <= s  BY <1>2
  <2> HIDE DEF S
  <2> QED  BY <1>1, <2>1, <2>2, <2>3 DEF ListenersAt
<1>7. NoServerBuilders'  BY <1>1, <1>2 DEF NoServerBuilders, NoBuilder
<1> QED  BY <1>1, <1>6, <1>7 DEF LInv, ServersFirst

(* The lowest free descriptor is again the one of the socket that the loop *)
(* of restart_socket_servers() has come to, or else no socket was closed.  *)
LEMMA RestartListeners ==
  ASSUME IInv, ServersFirst, NoServerBuilders, ListenersAt, RestartSocket
  PROVE  LInv'
<1> USE DEF IInv
<1>1. /\ pc = "restart" /\ i <= NumServers /\ i' = i + 1
      /\ UNCHANGED <<pc, pfds, requestBuilderMap>>
  BY DEF RestartSocket, webserv
<1>2. /\ i \in Servers /\ Servers \subseteq Fds /\ Servers \subseteq Nat
      /\ \A f \in Fds \ Servers : i < f
      /\ Fds \subseteq Nat /\ i \in Nat /\ openFds \subseteq Fds
  BY <1>1 DEF TypeOK, Servers, Fds
<1>3. /\ \A s \in Servers \ openFds : i <= s
      /\ \A s \in Servers \ openFds, t \in Servers \cap openFds : t < i \/ s < t
  BY <1>1 DEF ListenersAt
<1>4. /\ ServersFirst' /\ NoServerBuilders'  BY <1>1 DEF ServersFirst, NoServerBuilders
<1>5. CASE i \in openFds
  <2>1. Servers \subseteq openFds  BY <1>2, <1>3, <1>5
  <2>2. openFds \subseteq openFds' /\ UNCHANGED listens
    <3>1. listens[i] = i  BY <1>2, <1>5 DEF ListenersAt
    <3> QED  BY <1>2, <3>1 DEF RestartSocket
  <2> QED  BY <1>1, <1>4, <2>1, <2>2 DEF LInv, ListenersAt
<1>6. CASE i \notin openFds
  <2>1. \A f \in Free : i <= f  BY <1>2, <1>3 DEF Free
  <2>2. i \in Free /\ Free \subseteq Nat  BY <1>2, <1>6 DEF Free
  <2>3. LowestFree = i
    <3>1. LowestFree \in Free /\ \A f \in Free : LowestFree <= f  BY <2>1, <2>2 DEF LowestFree
    <3> QED  BY <2>1, <2>2, <3>1
  <2>4. openFds' = openFds \cup {i}  BY <2>2, <2>3 DEF RestartSocket
  <2>5. listens' = [listens EXCEPT ![i] = i]
    <3>1. ~ \E f \in Fds : listens[f] = i  BY <1>2, <1>6, ConstantsAssumption DEF ListenersAt, Servers
    <3> QED  BY <2>2, <2>3, <3>1 DEF RestartSocket
  <2>6. \A f \in Fds : listens'[f] = IF f \in Servers \cap openFds' THEN f ELSE 0
    BY <1>2, <2>4, <2>5 DEF ListenersAt, TypeOK
  <2>7. \A s \in Servers \ openFds' :
          i' <= s /\ \A t \in Servers \cap openFds' : t < i' \/ s < t
    <3> SUFFICES ASSUME NEW s \in Servers \ openFds'
                 PROVE  i + 1 <= s /\ \A t \in Servers \cap openFds' : t < i + 1 \/ s < t
      BY <1>1
    <3>1. s \in Servers \ openFds /\ s # i  BY <2>4
    <3>2. i + 1 <= s  BY <1>2, <1>3, <3>1
    <3>3. ASSUME NEW t \in Servers \cap openFds' PROVE t < i + 1 \/ s < t
      <4>1. CASE t = i  BY <1>2, <4>1
      <4>2. CASE t # i
        <5>1. t \in Servers \cap openFds  BY <2>4, <4>2
        <5> QED  BY <1>2, <1>3, <3>1, <5>1
      <4> QED  BY <4>1, <4>2
    <3> QED  BY <3>2, <3>3
  <2> QED  BY <1>1, <1>4, <2>6, <2>7 DEF LInv, ListenersAt
<1> QED  BY <1>5, <1>6

(* restart_socket_servers() and init() keep the listeners' keys.           *)
LEMMA InitAgainListeners ==
  ASSUME IInv, ServersFirst, NoServerBuilders, ListenersAt, InitAgain
  PROVE  LInv'
<1> USE DEF IInv
<1>1. /\ pc = "restart" /\ pc' = "poll" /\ i > NumServers /\ pfds' = pfds \o ServerPollfds
      /\ UNCHANGED <<openFds, listens, requestBuilderMap>>
  BY DEF InitAgain, kernel
<1>2. Servers \subseteq openFds
  BY <1>1 DEF ListenersAt, Servers, TypeOK
<1>3. ListenersAt'  BY <1>1, <1>2 DEF ListenersAt
<1>4. ServersFirst'
  <2>1. /\ pfds \in Seq(Pollfd) /\ ServerPollfds \in Seq(Pollfd) /\ Len(pfds) \in Nat
        /\ Len(ServerPollfds) = NumServers
    BY ServerPollfdsProperties, LenProperties DEF TypeOK
  <2>2. /\ Len(pfds') = Len(pfds) + NumServers
        /\ \A k \in 1..(Len(pfds) + NumServers) :
             pfds'[k] = IF k <= Len(pfds) THEN pfds[k] ELSE ServerPollfds[k - Len(pfds)]
    BY <1>1, <2>1, ConcatProperties
  <2> QED  BY <2>1, <2>2 DEF ServersFirst, Servers
<1> QED  BY <1>1, <1>3, <1>4 DEF LInv, NoServerBuilders

(* At first every listener is under its own descriptor.                    *)
LEMMA InitListeners == Init => LInv
<1> SUFFICES ASSUME Init PROVE LInv  OBVIOUS
<1>1. pfds = ServerPollfds /\ Len(pfds) = NumServers  BY ServerPollfdsProperties DEF Init
<1>2. ServersFirst  BY <1>1 DEF ServersFirst, ServerPollfds, ServerPollfd
<1>3. NoServerBuilders  BY DEF Init, NoServerBuilders, Servers, Fds
<1>4. ListenersAt  BY DEF Init, ListenersAt
<1> QED  BY <1>2, <1>3, <1>4 DEF LInv

(* Each step keeps the listeners' keys.                                    *)
LEMMA NextListeners == IInv /\ LInv /\ [Next]_vars => LInv'
<1> SUFFICES ASSUME IInv, LInv, [Next]_vars PROVE LInv'  OBVIOUS
<1>1. CASE Next
  <2>1. ServersFirst /\ NoServerBuilders /\ ListenersAt  BY <1>1, NextIsUp DEF LInv
  <2>2. CASE Quiet  BY <2>1, <2>2, QuietListeners
  <2>3. CASE \E c \in Conns : Accept(c)  BY <2>1, <2>3, AcceptListeners
  <2>4. CASE Ending  BY <2>1, <2>4, EndingListeners
  <2>5. CASE Recover
    BY <2>1, <2>5, CleanListeners, RestartListeners, InitAgainListeners DEF Recover
  <2>6. CASE Interrupt  BY <2>6 DEF Interrupt, LInv, Up
  <2> QED  BY <1>1, <2>2, <2>3, <2>4, <2>5, <2>6, NextCases
<1>2. CASE UNCHANGED vars
  BY <1>2 DEF vars, webserv, kernel, LInv, ServersFirst, NoServerBuilders, ListenersAt, Up
<1> QED  BY <1>1, <1>2

----------------------------------------------------------------------------
(* The theorems                                                            *)

(* The relations between the vector, the counter and the connections that  *)
(* hold of every reachable state.                                          *)
THEOREM EntriesInvariance == Spec => []EInv
BY InitEntries, NextEntries, TablesInvariance, PTL DEF Spec

(* The invariant behind ListenersKeep.                                     *)
THEOREM ListenersInvariance == Spec => []LInv
BY InitListeners, NextListeners, Invariance, PTL DEF Spec

(* Until main() first catches an exception, every connection that was      *)
(* accepted is in _pfds once, waiting for POLLOUT, and in _fds_map under   *)
(* the server that it asked, and _pfds names no descriptor that is closed, *)
(* although five methods change the vector, the maps and the kernel's      *)
(* descriptors one after the other.                                        *)
THEOREM TablesTracked == Spec => []ConnectionsTracked
<1>1. SInv /\ EInv => ConnectionsTracked
  <2> SUFFICES ASSUME SInv, EInv, restarts = 0, Up PROVE ConnectionsTracked
    BY DEF ConnectionsTracked
  <2>1. TablesMatch /\ EntriesMatch  BY DEF SInv, EInv, Serving
  <2>2. \A k \in DOMAIN pfds : pfds[k].fd \in openFds
    BY <2>1 DEF TablesMatch, ListenersInPlace, OwnDescriptors, EntriesMatch, Entries
  <2>3. ASSUME NEW c \in Conns, Accepted(c)
        PROVE  /\ fds_map[conn[c].fd] = conn[c].port
               /\ \E k \in DOMAIN pfds :
                    /\ pfds[k].fd = conn[c].fd /\ pfds[k].out
                    /\ \A j \in DOMAIN pfds : pfds[j].fd = pfds[k].fd => j = k
    <3>1. fds_map[conn[c].fd] = conn[c].port  BY <2>1, <2>3 DEF TablesMatch, ServersRemembered
    <3>2. PICK k \in DOMAIN pfds : pfds[k].fd = conn[c].fd
      BY <2>1, <2>3 DEF EntriesMatch, Entries
    <3>3. pfds[k].fd \notin Servers  BY <2>1, <2>3, <3>2 DEF TablesMatch, OwnDescriptors
    <3>4. pfds[k].out /\ \A j \in DOMAIN pfds : pfds[j].fd = pfds[k].fd => j = k
      BY <2>1, <3>2, <3>3 DEF EntriesMatch, Entries
    <3> QED  BY <3>1, <3>2, <3>4
  <2> QED  BY <2>2, <2>3 DEF ConnectionsTracked, Accepted
<1> QED  BY <1>1, TablesInvariance, EntriesInvariance, PTL

(* Where no connection outlives TIMEOUT and nothing is thrown, the counter *)
(* _total_fds, which five methods keep by hand, is the size of _pfds       *)
(* whatever else happens: no entry lies beyond the loop's bound.           *)
THEOREM CounterIsExact == Spec => []CounterExact
BY EntriesInvariance, PTL DEF EInv

(* A connection knows the port it asked for.                               *)
PortsKnown == \A c \in Conns : conn[c].phase # "out" => conn[c].port \in Servers

(* No step makes a connection of a client that has not connected, or       *)
(* changes the port of one that has.                                       *)
LEMMA NextPorts == TypeOK /\ PortsKnown /\ [Next]_vars => PortsKnown'
<1> SUFFICES ASSUME TypeOK, PortsKnown, [Next]_vars PROVE PortsKnown'  OBVIOUS
<1>1. \A c \in Conns : /\ conn[c] \in Connection
                       /\ conn[c].phase # "out" => conn[c].port \in Servers
  BY DEF TypeOK, PortsKnown
<1>2. ASSUME NEW S, NEW told, Close(S, told) PROVE PortsKnown'
  <2> SUFFICES ASSUME NEW c \in Conns, conn'[c].phase # "out"
               PROVE  conn'[c].port \in Servers
    BY DEF PortsKnown
  <2>1. conn'[c].port = conn[c].port  BY <1>1, <1>2 DEF Close, Ended, Connection
  <2>2. conn[c].phase # "out"  BY <1>1, <1>2 DEF Close, Ended, Connection, OnFd, Queue
  <2> QED  BY <1>1, <2>1, <2>2
<1>3. CASE \E c \in Conns : Accept(c)
  <2>1. PICK c \in Conns : Accept(c)  BY <1>3
  <2>2. conn[c].phase = "queued"  BY <2>1 DEF Accept, Queue
  <2>3. \A d \in Conns : conn'[d].port = conn[d].port /\ (d # c => conn'[d] = conn[d])
    BY <1>1, <2>1 DEF Accept, Connection, TypeOK
  <2> QED  BY <1>1, <2>2, <2>3 DEF PortsKnown
<1>4. CASE \E c \in Conns : ReceiveData(c)
  <2>1. \A d \in Conns : conn'[d].port = conn[d].port /\ conn'[d].phase = conn[d].phase
    BY <1>1, <1>4 DEF ReceiveData, Connection, TypeOK
  <2> QED  BY <1>1, <2>1 DEF PortsKnown
<1>5. CASE Clients
  <2>1. PICK c \in Conns : \/ \E p \in Servers : Connect(c, p)
                           \/ \E piece \in Pieces : Send(c, piece)
                           \/ \E how \in {"fin", "rst"} : HangUp(c, how)
    BY <1>5 DEF Clients
  <2>2. CASE \E p \in Servers : Connect(c, p)
    BY <1>1, <2>2 DEF Connect, Connection, TypeOK, PortsKnown
  <2>3. CASE \E piece \in Pieces : Send(c, piece)
    BY <1>1, <2>3 DEF Send, Connection, TypeOK, PortsKnown
  <2>4. CASE \E how \in {"fin", "rst"} : HangUp(c, how)
    BY <1>1, <2>4 DEF HangUp, Connection, TypeOK, PortsKnown
  <2> QED  BY <2>1, <2>2, <2>3, <2>4
<1>6. CASE Tick
  <2>1. \A d \in Conns : conn'[d].port = conn[d].port /\ conn'[d].phase = conn[d].phase
    BY <1>1, <1>6 DEF Tick, Connection, TypeOK
  <2> QED  BY <1>1, <2>1 DEF PortsKnown
<1>7. CASE Ending \/ Clean \/ Interrupt
  BY <1>2, <1>7 DEF Ending, Respond, Expire, ReceiveHangup, EndConnection, Clean, Interrupt
<1>8. CASE UNCHANGED conn  BY <1>8 DEF PortsKnown
<1>9. \/ Ending \/ Clean \/ Interrupt \/ Clients \/ Tick \/ UNCHANGED conn
      \/ \E c \in Conns : Accept(c) \/ ReceiveData(c)
  BY DEF Next, System, Read, Write, Recover, Ending, vars, kernel, Poll, PollFails, LoopTest,
         NothingToRead, AcceptFails, ReceiveError, NothingToWrite, BuildThrows, NotExpired,
         RestartSocket, InitAgain
<1> QED  BY <1>3, <1>4, <1>5, <1>6, <1>7, <1>8, <1>9

(* Until the first recovery no step finds a freed builder or a descriptor  *)
(* without a server, so that only a reset is left to die of.               *)
LEMMA CrashExplained ==
  ASSUME SInv, EInv, PortsKnown, Next, proc' = "crashed", restarts = 0
  PROVE  \E c \in Conns : conn[c].end = "rst"
<1>1. Up  BY NextIsUp
<1>2. TypeOK /\ TablesMatch /\ EntriesMatch /\ SubscriptInRange /\ FdTaken
  BY <1>1 DEF SInv, EInv, Serving, IInv
<1>3. \A f \in Fds : requestBuilderMap[f].st # "freed"
  <2> SUFFICES ASSUME NEW f \in Fds PROVE requestBuilderMap[f].st # "freed"  OBVIOUS
  <2>1. CASE OnFd(f) = {}
    BY <1>2, <2>1 DEF TablesMatch, NothingLeftBehind, NoBuilder
  <2>2. CASE OnFd(f) # {}
    <3>1. PICK c \in Conns : Accepted(c) /\ conn[c].fd = f  BY <2>2 DEF OnFd, Accepted
    <3> QED  BY <1>2, <3>1 DEF TablesMatch, OwnBuilders, BuilderOf, NoBuilder
  <2> QED  BY <2>1, <2>2
<1>4. \A f \in Fds : AfterUse(f) = {"up"}  BY <1>3 DEF AfterUse
<1>5. \A c \in Conns : c \in OnFd(fd) => fds_map[fd] # 0
  BY <1>2 DEF TablesMatch, ServersRemembered, Accepted, OnFd, PortsKnown, Servers
<1>6. CASE ReceiveError
  <2>1. pc = "read" /\ ~IsServerSocket(fd)  BY <1>6 DEF ReceiveError, AtReceive, AtRead
  <2>2. i \in DOMAIN pfds /\ pfds[i].fd = fd
    BY <1>2, <2>1, LenProperties DEF SubscriptInRange, TypeOK
  <2>3. PICK c \in Conns : Accepted(c) /\ conn[c].fd = fd
    BY <1>2, <2>1, <2>2 DEF EntriesMatch, Entries, IsServerSocket
  <2>4. c \in OnFd(fd)  BY <2>3 DEF OnFd, Accepted
  <2> QED  BY <1>6, <2>4 DEF ReceiveError
<1>7. ASSUME NEW c \in Conns, ReceiveData(c) \/ ReceiveHangup(c) PROVE FALSE
  <2>1. c \in OnFd(fd) /\ pc = "read" /\ proc' \in AfterReceive(fd)
    BY <1>7 DEF ReceiveData, ReceiveHangup, AtReceive, AtRead
  <2>2. proc' \in AfterUse(fd)  BY <1>5, <2>1 DEF AfterReceive
  <2> QED  BY <1>2, <1>4, <2>1, <2>2 DEF FdTaken
<1>8. CASE Respond
  <2>1. fd \in Fds  BY <1>2, <1>8 DEF Respond, AtRespond, FdTaken
  <2>2. proc' \in {"up"} \cup
          (IF \E c \in OnFd(fd) : conn[c].end = "rst" THEN {"crashed"} ELSE {})
    BY <1>4, <1>8, <2>1 DEF Respond
  <2> QED  BY <2>2 DEF OnFd
<1>9. CASE Expire
  BY <1>2, <1>4, <1>9 DEF Expire, FdTaken
<1>10. CASE Clean  BY <1>4, <1>10 DEF Clean
<1>11. CASE Interrupt  BY <1>3, <1>11 DEF Interrupt
<1>12. \/ ReceiveError \/ Respond \/ Expire \/ Clean \/ Interrupt
       \/ \E c \in Conns : ReceiveData(c) \/ ReceiveHangup(c)
  BY <1>1 DEF Next, System, Read, Write, Recover, Clients, Poll, PollFails, LoopTest,
       NothingToRead, AcceptFails, Accept, NothingToWrite, BuildThrows, NotExpired,
       RestartSocket, InitAgain, Connect, Send, HangUp, Tick, Up
<1> QED  BY <1>6, <1>7, <1>8, <1>9, <1>10, <1>11, <1>12

(* For any number of clients, servers and descriptors, until the first     *)
(* recovery the process dies of nothing but a client's reset: no read,     *)
(* timeout, clean() or SIGINT uses a builder that was deleted, and no      *)
(* request is read for a server that is not there.                         *)
THEOREM OnlyResetsKill == Spec => CrashesExplained
<1>1. Init => PortsKnown  BY DEF Init, PortsKnown
<1>2. Spec => []PortsKnown  BY <1>1, NextPorts, TypeCorrect, PTL DEF Spec
<1>3. SInv /\ EInv /\ PortsKnown /\ [Next]_vars =>
        [proc' = "crashed" => restarts > 0 \/ \E c \in Conns : conn[c].end = "rst"]_vars
  <2>1. SInv => restarts \in Nat  BY DEF SInv, IInv, TypeOK
  <2> QED  BY <2>1, CrashExplained
<1> QED  BY <1>2, <1>3, TablesInvariance, EntriesInvariance, PTL DEF Spec, CrashesExplained

(* After any number of recoveries, with any number of connections left in  *)
(* _pfds by the earlier ones and however few of its entries clean() closes,*)
(* the new socket of each server has the descriptor its key in _servers    *)
(* still names.                                                            *)
THEOREM ListenersKeep == Spec => []ListenersKeepKeys
<1>1. LInv => ListenersKeepKeys
  BY DEF LInv, ListenersAt, ListenersKeepKeys, Servers, Fds
<1> QED  BY <1>1, ListenersInvariance, PTL


(***************************************************************************)
(* The time stamps                                                         *)
(*                                                                         *)
(* Timeouts are for connections that have been open that long, as long as  *)
(* nothing but a timeout ends a connection.                                *)
(*                                                                         *)
(* _fds_time is keyed by descriptor, insert() does not overwrite, and only *)
(* the timeout part of run() erases an entry.  A response, a hang-up, a    *)
(* reset or a recovery leaves the entry to the next connection on the same *)
(* descriptor.  OnlyTime leaves out what causes these, and no more.        *)
(***************************************************************************)

(* No client completes a request, leaves or resets, and poll() never       *)
(* fails.                                                                  *)
OnlyTime == Env \subseteq {"part", "clock", "interrupt"}

NothingElseEnds ==
  /\ restarts = 0 /\ pc \notin {"clean", "restart"}
  /\ \A c \in Conns : conn[c].end = "open" /\ conn[c].data \in {"none", "part"}
  /\ \A f \in Fds : requestBuilderMap[f].st \in {"none", "reading"}

(* An entry of _fds_time is the age of the connection on its descriptor,   *)
(* and the loop is never at a descriptor that has been closed.             *)
TimesMatch ==
  /\ \A c \in Conns : IF Accepted(c) THEN fds_time[conn[c].fd] = conn[c].age
                                     ELSE conn[c].age = 0
  /\ \A f \in Fds : OnFd(f) = {} => fds_time[f] = NoTime
  /\ pc \in {"read", "write", "expire"} => fd \in Servers \/ OnFd(fd) # {}

AInv == Up => NothingElseEnds /\ TimesMatch

----------------------------------------------------------------------------
(* The steps there can be                                                  *)

(* The steps that remain where only time passes and reads are cut.         *)
LEMMA OnlyTimeSteps ==
  ASSUME OnlyTime, SInv, NothingElseEnds, TimesMatch, Next
  PROVE  \/ Poll \/ LoopTest \/ NothingToRead \/ AcceptFails \/ NothingToWrite \/ NotExpired
         \/ Tick \/ Expire \/ Interrupt
         \/ \E c \in Conns :
              \/ Accept(c) \/ ReceiveData(c) \/ Send(c, "part")
              \/ \E p \in Servers : Connect(c, p)
<1>1. fd \in Fds \/ pc \notin {"read", "write", "expire"}  BY DEF SInv, IInv, FdTaken
<1>2. ~PollFails  BY DEF PollFails, OnlyTime
<1>3. ~ReceiveError
  <2>1. SUFFICES ASSUME ReceiveError PROVE FALSE  OBVIOUS
  <2>2. pc = "read" /\ fd \notin Servers /\ \A c \in OnFd(fd) : conn[c].end = "rst"
    BY <2>1 DEF ReceiveError, AtReceive, AtRead, IsServerSocket
  <2>3. PICK c \in OnFd(fd) : TRUE  BY <2>2 DEF TimesMatch
  <2> QED  BY <2>2, <2>3 DEF OnFd, NothingElseEnds
<1>4. \A c \in Conns : ~ReceiveHangup(c)  BY DEF ReceiveHangup, NothingElseEnds
<1>5. ~BuildThrows /\ ~Respond
  <2>1. SUFFICES ASSUME AtRespond PROVE FALSE  BY DEF BuildThrows, Respond
  <2>2. TRUE \in IsReady(fd) /\ fd \in Fds  BY <1>1, <2>1 DEF AtRespond
  <2>3. requestBuilderMap[fd].st \in {"none", "reading"}  BY <2>2 DEF NothingElseEnds
  <2>4. IsReady(fd) = {FALSE}  BY <2>3 DEF IsReady
  <2> QED  BY <2>2, <2>4
<1>6. ~Recover  BY DEF Recover, Clean, RestartSocket, InitAgain, NothingElseEnds
<1>7. \A c \in Conns :
        /\ \A piece \in Pieces : Send(c, piece) => piece = "part"
        /\ \A how \in {"fin", "rst"} : ~HangUp(c, how)
  BY DEF Send, HangUp, OnlyTime, Pieces
<1> QED  BY <1>2, <1>3, <1>4, <1>5, <1>6, <1>7 DEF Next, System, Read, Write, Clients

----------------------------------------------------------------------------
(* The invariant                                                           *)

(* A step that changes no age, no entry and no connection's place.         *)
LEMMA TimesStay ==
  ASSUME TypeOK, TimesMatch,
         \A c \in Conns : /\ Accepted(c)' = Accepted(c) /\ conn'[c].fd = conn[c].fd
                          /\ conn'[c].age = conn[c].age,
         UNCHANGED fds_time,
         pc' \in {"read", "write", "expire"} => fd' \in Servers \/ (OnFd(fd))' # {}
  PROVE  TimesMatch'
<1>1. \A f : OnFd(f)' = OnFd(f)  BY DEF OnFd, Accepted
<1> QED  BY <1>1 DEF TimesMatch

(* Each of these keeps the invariant.                                      *)
LEMMA NextTimes ==
  ASSUME OnlyTime
  PROVE  SInv /\ EInv /\ AInv /\ [Next]_vars => AInv'
<1> SUFFICES ASSUME SInv, EInv, AInv, Next, Up' PROVE NothingElseEnds' /\ TimesMatch'
  BY DEF vars, webserv, kernel, AInv, NothingElseEnds, TimesMatch, Up, Accepted, OnFd
<1>0. TypeOK /\ FdTaken  BY DEF SInv, IInv
<1>1. NothingElseEnds /\ TimesMatch  BY NextIsUp DEF AInv
<1>2. TablesMatch /\ EntriesMatch
  BY <1>1, NextIsUp DEF SInv, EInv, Serving, NothingElseEnds
<1>3. /\ conn \in [Conns -> Connection] /\ fds_time \in [Fds -> Ages \cup {NoTime}]
      /\ requestBuilderMap \in [Fds -> Builder]
      /\ \A c \in Conns : Accepted(c) => conn[c].fd \in Fds
      /\ NoTime \notin Ages /\ Ages \subseteq Int
  BY <1>0, <1>2 DEF TypeOK, TablesMatch, OwnDescriptors, Ages, NoTime
<1>4. CASE Poll \/ LoopTest \/ NothingToRead \/ AcceptFails \/ NothingToWrite
  <2>1. UNCHANGED <<conn, fds_time, requestBuilderMap, restarts>> /\ pc' \notin {"clean", "restart"}
    BY <1>1, <1>4 DEF Poll, LoopTest, NothingToRead, AcceptFails, NothingToWrite, webserv, kernel
  <2>2. NothingElseEnds'  BY <1>1, <2>1 DEF NothingElseEnds
  <2>3. pc' \in {"read", "write", "expire"} => fd' \in Servers \/ (OnFd(fd))' # {}
    <3>1. CASE LoopTest /\ i <= total_fds
      <4>1. i \in Entries /\ fd' = pfds[i].fd
        <5>1. i \in Nat \ {0} /\ total_fds \in Int /\ total_fds <= Len(pfds)
          BY DEF SInv, IInv, TypeOK, SubscriptInRange
        <5> QED  BY <1>0, <3>1, <5>1, LenProperties DEF LoopTest, Entries, TypeOK
      <4>2. \/ fd' \in Servers
            \/ \E c \in Conns : Accepted(c) /\ conn[c].fd = fd'
        BY <1>2, <4>1 DEF EntriesMatch
      <4> QED  BY <2>1, <4>2 DEF OnFd, Accepted
    <3>2. CASE pc \in {"read", "write", "expire"} /\ UNCHANGED fd
      BY <1>1, <2>1, <3>2 DEF TimesMatch, OnFd
    <3> QED
      BY <1>4, <3>1, <3>2
         DEF Poll, LoopTest, NothingToRead, AcceptFails, AtRead, NothingToWrite
  <2> QED  BY <1>0, <1>1, <2>1, <2>2, <2>3, TimesStay DEF Accepted
<1>5. ASSUME NEW c \in Conns, ReceiveData(c) \/ Send(c, "part") \/ \E p \in Servers : Connect(c, p)
      PROVE  NothingElseEnds' /\ TimesMatch'
  <2>1. /\ \A d \in Conns : /\ Accepted(d)' = Accepted(d) /\ conn'[d].fd = conn[d].fd
                            /\ conn'[d].age = conn[d].age /\ conn'[d].end = conn[d].end
                            /\ conn'[d].data = conn[d].data \/ conn'[d].data \in {"none", "part"}
    BY <1>3, <1>5 DEF ReceiveData, Send, Connect, Connection, Accepted
  <2>2. UNCHANGED <<fds_time, fd, restarts>>
    BY <1>5 DEF ReceiveData, Send, Connect, webserv
  <2>3. \/ UNCHANGED pc
        \/ pc = "read" /\ pc' = "write"
    BY <1>5 DEF ReceiveData, AtReceive, AtRead, Send, Connect
  <2>4. \A f \in Fds : requestBuilderMap'[f].st \in {"none", "reading"}
    <3>1. CASE ReceiveData(c)
      <4>1. conn[c].data = "part" /\ fd \in Fds
        BY <1>0, <1>1, <3>1 DEF ReceiveData, AtReceive, AtRead, NothingElseEnds, FdTaken
      <4>2. GetBuilder(fd) \in Builder /\ GetBuilder(fd).st = "reading"
        BY <1>0, <1>1, <1>3, <4>1 DEF GetBuilder, NothingElseEnds, Builder, TypeOK
      <4>3. Parsed(GetBuilder(fd), c, "part").st = "reading"
        BY <4>2 DEF Parsed, Builder
      <4>4. requestBuilderMap' = [requestBuilderMap EXCEPT
                                    ![fd] = Parsed(GetBuilder(fd), c, "part")]
        BY <3>1, <4>1 DEF ReceiveData
      <4> QED  BY <1>1, <1>3, <4>1, <4>3, <4>4 DEF NothingElseEnds
    <3>2. CASE ~ReceiveData(c)
      BY <1>1, <1>5, <3>2 DEF Send, Connect, webserv, NothingElseEnds
    <3> QED  BY <3>1, <3>2
  <2>5. NothingElseEnds'  BY <1>1, <2>1, <2>2, <2>3, <2>4 DEF NothingElseEnds
  <2>6. pc' \in {"read", "write", "expire"} => fd' \in Servers \/ (OnFd(fd))' # {}
    BY <1>1, <2>1, <2>2, <2>3 DEF TimesMatch, OnFd, Accepted
  <2> QED  BY <1>0, <1>1, <2>1, <2>2, <2>5, <2>6, TimesStay
<1>6. ASSUME NEW c \in Conns, Accept(c) PROVE NothingElseEnds' /\ TimesMatch'
  <2> DEFINE new == LowestFree
  <2>1. new \in Fds \ openFds
    <3>1. Free # {}  BY <1>6 DEF Accept
    <3> QED  BY <3>1, LowestFreeIsFree DEF Free
  <2> HIDE DEF new
  <2>2. /\ conn' = [conn EXCEPT ![c].phase = "accepted", ![c].fd = new]
        /\ fds_time' = [fds_time EXCEPT ![new] = IF @ = NoTime THEN 0 ELSE @]
        /\ fd \in Servers /\ pc' = "write" /\ conn[c].phase = "queued"
        /\ UNCHANGED <<fd, requestBuilderMap, restarts>>
    BY <1>6 DEF Accept, AtRead, IsServerSocket, Queue, new
  <2>3. /\ Accepted(c)' /\ conn'[c].fd = new /\ conn'[c].age = conn[c].age
        /\ conn'[c].end = conn[c].end /\ conn'[c].data = conn[c].data
        /\ ~Accepted(c) /\ \A d \in Conns \ {c} : conn'[d] = conn[d]
    BY <1>3, <2>2 DEF Accepted, Connection
  <2>4. \A d \in Conns : Accepted(d) => conn[d].fd # new
    BY <1>2, <2>1 DEF TablesMatch, OwnDescriptors
  <2>5. fds_time[new] = NoTime  BY <1>1, <2>1, <2>4 DEF TimesMatch, OnFd, Accepted
  <2>6. fds_time'[new] = 0 /\ \A f \in Fds \ {new} : fds_time'[f] = fds_time[f]
    BY <1>3, <2>1, <2>2, <2>5
  <2>7. NothingElseEnds'  BY <1>1, <2>2, <2>3 DEF NothingElseEnds
  <2>8. \A d \in Conns : IF Accepted(d)' THEN fds_time'[conn'[d].fd] = conn'[d].age
                                         ELSE conn'[d].age = 0
    <3>1. fds_time'[conn'[c].fd] = conn'[c].age  BY <1>1, <2>3, <2>6 DEF TimesMatch
    <3>2. ASSUME NEW d \in Conns \ {c}
          PROVE  IF Accepted(d)' THEN fds_time'[conn'[d].fd] = conn'[d].age
                                 ELSE conn'[d].age = 0
      <4>1. conn'[d] = conn[d] /\ Accepted(d)' = Accepted(d)  BY <2>3 DEF Accepted
      <4>2. Accepted(d) => conn[d].fd \in Fds \ {new}  BY <1>3, <2>4
      <4> QED  BY <1>1, <2>6, <4>1, <4>2 DEF TimesMatch
    <3> QED  BY <2>3, <3>1, <3>2
  <2>9. ASSUME NEW f \in Fds, OnFd(f)' = {} PROVE fds_time'[f] = NoTime
    <3>1. OnFd(f) = {} /\ f # new  BY <2>3, <2>9 DEF OnFd, Accepted
    <3> QED  BY <1>1, <2>6, <3>1 DEF TimesMatch
  <2> QED  BY <2>2, <2>7, <2>8, <2>9 DEF TimesMatch
<1>7. CASE NotExpired
  <2>1. UNCHANGED <<conn, requestBuilderMap, restarts>> /\ pc = "expire" /\ pc' = "loop"
    BY <1>7 DEF NotExpired, kernel
  <2>2. UNCHANGED fds_time
    <3>1. CASE fd \notin Servers
      <4>1. PICK c \in Conns : Accepted(c) /\ conn[c].fd = fd
        BY <1>1, <2>1, <3>1 DEF TimesMatch, OnFd, Accepted
      <4>2. fds_time[fd] \in Ages /\ fd \in Fds
        BY <1>1, <1>3, <4>1 DEF TimesMatch, Connection
      <4>3. Age(fd) = fds_time[fd]  BY <1>3, <4>2 DEF Age
      <4> QED  BY <1>3, <1>7, <3>1, <4>3 DEF NotExpired, IsServerSocket
    <3>2. CASE fd \in Servers  BY <1>7, <3>2 DEF NotExpired, IsServerSocket
    <3> QED  BY <3>1, <3>2
  <2>3. NothingElseEnds'  BY <1>1, <2>1 DEF NothingElseEnds
  <2> QED  BY <1>0, <1>1, <2>1, <2>2, <2>3, TimesStay DEF Accepted
<1>8. CASE Expire
  <2>1. /\ fd \in Fds \ Servers /\ EndConnection(fd, {})
        /\ fds_time' = [fds_time EXCEPT ![fd] = NoTime]
        /\ pc' = "loop" /\ UNCHANGED restarts
    BY <1>0, <1>8 DEF Expire, IsServerSocket, FdTaken
  <2>2. /\ Close({fd}, {}) /\ listens[fd] = 0
        /\ requestBuilderMap' = [requestBuilderMap EXCEPT ![fd] = NoBuilder]
    BY <1>2, <2>1 DEF EndConnection, TablesMatch, ListenersInPlace
  <2>3. \A c \in Conns : /\ Accepted(c)' <=> Accepted(c) /\ conn[c].fd # fd
                         /\ Accepted(c)' => conn'[c] = conn[c]
    BY <1>0, <2>2, CloseConnections
  <2>4. \A c \in Conns : \/ conn'[c] = conn[c]
                         \/ conn'[c].end = "open" /\ conn'[c].data = "none" /\ conn'[c].age = 0
    <3>1. \A r \in Connection, b \in BOOLEAN :
            /\ [Ended(r) EXCEPT !.answered = b].end = "open"
            /\ [Ended(r) EXCEPT !.answered = b].data = "none"
            /\ [Ended(r) EXCEPT !.answered = b].age = 0
      BY DEF Ended, Connection
    <3>2. ASSUME NEW c \in Conns, conn'[c] # conn[c]
          PROVE  conn'[c].end = "open" /\ conn'[c].data = "none" /\ conn'[c].age = 0
      <4>1. conn'[c] = [Ended(conn[c]) EXCEPT !.answered = @ \/ c \in {}]
        BY <2>2, <3>2 DEF Close
      <4> DEFINE b == Ended(conn[c]).answered \/ c \in {}
      <4>2. conn'[c] = [Ended(conn[c]) EXCEPT !.answered = b] /\ b \in BOOLEAN  BY <4>1
      <4> HIDE DEF b
      <4> QED  BY <1>3, <3>1, <4>2
    <3> QED  BY <3>2
  <2>5. NothingElseEnds'
    BY <1>1, <1>3, <2>1, <2>2, <2>4 DEF NothingElseEnds, NoBuilder
  <2>6. ASSUME NEW c \in Conns
        PROVE  IF Accepted(c)' THEN fds_time'[conn'[c].fd] = conn'[c].age ELSE conn'[c].age = 0
    <3>1. CASE Accepted(c)'
      <4>1. Accepted(c) /\ conn[c].fd \in Fds \ {fd} /\ conn'[c] = conn[c]  BY <1>3, <2>3, <3>1
      <4> QED  BY <1>1, <1>3, <2>1, <3>1, <4>1 DEF TimesMatch
    <3>2. CASE ~Accepted(c)'
      <4>1. CASE Accepted(c)
        <5>1. conn'[c] # conn[c]  BY <3>2, <4>1 DEF Accepted
        <5> QED  BY <2>4, <3>2, <5>1
      <4>2. CASE ~Accepted(c)  BY <1>1, <2>4, <3>2, <4>2 DEF TimesMatch
      <4> QED  BY <4>1, <4>2
    <3> QED  BY <3>1, <3>2
  <2>7. ASSUME NEW f \in Fds, OnFd(f)' = {} PROVE fds_time'[f] = NoTime
    <3>1. f = fd \/ OnFd(f) = {}  BY <2>3, <2>7 DEF OnFd, Accepted
    <3> QED  BY <1>1, <1>3, <2>1, <3>1 DEF TimesMatch
  <2> QED  BY <2>1, <2>5, <2>6, <2>7 DEF TimesMatch
<1>9. CASE Tick
  <2>1. /\ fds_time' = [f \in Fds |-> IF fds_time[f] = NoTime THEN NoTime ELSE Older(fds_time[f])]
        /\ conn' = [c \in Conns |-> IF conn[c].phase = "accepted"
                                      THEN [conn[c] EXCEPT !.age = Older(@)] ELSE conn[c]]
        /\ UNCHANGED <<pc, fd, requestBuilderMap, restarts>>
    BY <1>9 DEF Tick
  <2>2. \A c \in Conns : /\ Accepted(c)' = Accepted(c) /\ conn'[c].fd = conn[c].fd
                         /\ conn'[c].end = conn[c].end /\ conn'[c].data = conn[c].data
                         /\ conn'[c].age = IF Accepted(c) THEN Older(conn[c].age)
                                                          ELSE conn[c].age
    BY <1>3, <2>1 DEF Accepted, Connection
  <2>3. NothingElseEnds'  BY <1>1, <2>1, <2>2 DEF NothingElseEnds
  <2>4. \A f : OnFd(f)' = OnFd(f)  BY <2>2 DEF OnFd, Accepted
  <2>5. ASSUME NEW c \in Conns
        PROVE  IF Accepted(c) THEN fds_time'[conn[c].fd] = conn'[c].age ELSE conn'[c].age = 0
    <3>1. CASE Accepted(c)
      <4>1. fds_time[conn[c].fd] = conn[c].age /\ conn[c].age # NoTime /\ conn[c].fd \in Fds
        BY <1>1, <1>3, <3>1 DEF TimesMatch, Connection
      <4> QED  BY <2>1, <2>2, <3>1, <4>1
    <3>2. CASE ~Accepted(c)  BY <1>1, <2>2, <3>2 DEF TimesMatch
    <3> QED  BY <3>1, <3>2
  <2>6. \A f \in Fds : OnFd(f)' = {} => fds_time'[f] = NoTime
    BY <1>1, <2>1, <2>4 DEF TimesMatch
  <2>7. pc' \in {"read", "write", "expire"} => fd' \in Servers \/ (OnFd(fd))' # {}
    BY <1>1, <2>1, <2>2 DEF TimesMatch, OnFd, Accepted
  <2> QED  BY <2>2, <2>3, <2>5, <2>6, <2>7 DEF TimesMatch
<1>10. ~Interrupt  BY DEF Interrupt, Up
<1> QED  BY <1>1, <1>4, <1>5, <1>6, <1>7, <1>8, <1>9, <1>10, OnlyTimeSteps

(* The invariant holds at first.                                           *)
LEMMA InitTimes == Init => AInv
BY DEF Init, AInv, NothingElseEnds, TimesMatch, Accepted, NoBuilder

(* Only a timeout closes a connection at the end of an iteration, and what *)
(* the clock says of the descriptor is what it says of the connection.     *)
LEMMA ExpireIsRight ==
  ASSUME SInv, AInv, Next, NEW c \in Conns, pc = "expire", conn[c].phase = "accepted",
         conn'[c].phase = "closed", Up'
  PROVE  conn[c].age > Timeout
<1>1. NothingElseEnds /\ TimesMatch /\ TypeOK  BY NextIsUp DEF AInv, SInv, IInv
<1>2. conn \in [Conns -> Connection] /\ conn[c].age # NoTime
  BY <1>1 DEF TypeOK, Connection, Ages, NoTime
<1>3. Expire
  <2>1. ~NotExpired  BY DEF NotExpired, kernel
  <2>2. ~Tick  BY <1>2 DEF Tick, Connection
  <2>3. ~Clients
    <3>1. ASSUME NEW d \in Conns, NEW x,
                 \/ conn' = [conn EXCEPT ![d].data = x]
                 \/ conn' = [conn EXCEPT ![d].end = x]
          PROVE  conn'[c].phase = conn[c].phase
      BY <1>2, <3>1 DEF Connection
    <3>2. ASSUME NEW d \in Conns, NEW p \in Servers, Connect(d, p)
          PROVE  conn'[c].phase = conn[c].phase
      BY <1>2, <3>2 DEF Connect
    <3> QED  BY <3>1, <3>2 DEF Clients, Send, HangUp
  <2>4. ~Interrupt  BY DEF Interrupt, Up
  <2> QED
    BY <2>1, <2>2, <2>3, <2>4
       DEF Next, System, Read, Write, Recover, Poll, PollFails, LoopTest, NothingToRead,
           AcceptFails, ReceiveError, Accept, ReceiveData, ReceiveHangup, AtReceive, AtRead,
           NothingToWrite, Respond, BuildThrows, AtRespond, Clean, RestartSocket, InitAgain
<1>4. conn[c].fd = fd
  <2>1. Close({fd}, {})  BY <1>3 DEF Expire, EndConnection
  <2>2. ~Accepted(c)' /\ Accepted(c)  BY DEF Accepted
  <2> QED  BY <1>1, <2>1, <2>2, CloseConnections
<1>5. fds_time[fd] = conn[c].age  BY <1>1, <1>4 DEF TimesMatch, Accepted
<1> QED  BY <1>2, <1>3, <1>5 DEF Expire, Age

----------------------------------------------------------------------------
(* The theorems                                                            *)

(* With clients that only wait, _fds_time tells the age of the connection  *)
(* now on each descriptor, however often the number was used before.       *)
THEOREM TimesInvariance ==
  ASSUME OnlyTime
  PROVE  Spec => []AInv
BY InitTimes, NextTimes, TablesInvariance, EntriesInvariance, PTL DEF Spec

(* No connection is ended by the timeout part before it has been open for  *)
(* longer than TIMEOUT, where no response, hang-up, reset or recovery left *)
(* an entry of _fds_time behind.                                           *)
THEOREM OldConnectionsExpire ==
  ASSUME OnlyTime
  PROVE  Spec => OnlyOldConnectionsExpire
<1>1. SInv /\ AInv /\ [Next]_vars =>
        [\A c \in Conns : pc = "expire" /\ conn[c].phase = "accepted"
            /\ conn'[c].phase = "closed" /\ proc' = "up" => conn[c].age > Timeout]_vars
  BY ExpireIsRight DEF Up
<1> QED  BY <1>1, TimesInvariance, TablesInvariance, PTL DEF Spec, OnlyOldConnectionsExpire
=============================================================================
