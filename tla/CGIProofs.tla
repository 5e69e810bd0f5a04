------------------------------- MODULE CGIProofs -------------------------------
(***************************************************************************)
(* Theorems about CGI, for any number of requests, any scripts, pipes of   *)
(* any size and whatever system call fails.  The inductive invariant says  *)
(* what holds of each request, whoever handles it (OfRequest), and what    *)
(* the server relies on at its place in handleCGI() (ParentInv).  A step   *)
(* disturbs one request; the others keep what is known of them.            *)
(***************************************************************************)
EXTENDS CGI, SequenceTheorems, TLAPS

(* The faults after which a child comes back instead of running a script,  *)
(* and where a child holds the write end.                                  *)
SetupFaults == {"path", "chdir", "dup2", "exec"}
Holding == {"setup", "script", "failed", "server"}
Ended == {"zombie", "reaped"}

(* The request handleCGI() has not answered yet.                           *)
InHand(r) == r = cur /\ pc \in {"fork", "poll", "read", "wait", "dead"}

Untouched(r) == /\ child[r] = "none" /\ written[r] = 0 /\ pipe[r] = 0
                /\ readers[r] = {} /\ writers[r] = {}
Leftover(r) == \/ "server" \in readers[r] \/ writers[r] # {}
               \/ child[r] \in Alive \cup {"zombie"}
TimedOut(r) == \E k \in DOMAIN answers[r] : answers[r][k].code = 408

(* FirstAnswerTruthful, of one request.                                    *)
Truthful(r) ==
  answers[r] # <<>> /\ fault # "fork" =>
    /\ Head(answers[r]).code = 200 =>
         status[r] = "zero" /\ Came(script[r], script[r].output, Head(answers[r]).body)
    /\ Head(answers[r]).code = 500 /\ fault = "none" => child[r] = "none" \/ status[r] = "one"

(* The write end is the child's as long as it lives and has not closed it, *)
(* and the server's only while it handles the request; a child has a       *)
(* status once it has ended; before its request is handled or answered     *)
(* there is nothing, and after that nothing is left, unless it timed out;  *)
(* a child comes back only where something fails, and answers only where   *)
(* it does so with an error; one that exited with 0 has written everything.*)
OfRequest(r) ==
  /\ "child" \in writers[r] <=> child[r] \in Holding
  /\ "server" \in writers[r] => InHand(r)
  /\ status[r] # "none" <=> child[r] \in Ended
  /\ answers[r] = <<>> => Untouched(r) \/ InHand(r)
  /\ Leftover(r) => InHand(r) \/ TimedOut(r) \/ fault = "poll"
  /\ child[r] \in {"failed", "server"} => fault \in SetupFaults
  /\ child[r] = "failed" => answers[r] # <<>>
  /\ child[r] \in {"script", "closed"} \/ status[r] = "zero" => fault \notin SetupFaults
  /\ fault = "none" /\ status[r] = "killed" => answers[r] # <<>>
  /\ status[r] = "zero" => written[r] = script[r].output
  /\ Truthful(r)

CurrentRequest == IF pc = "idle" THEN cur = NoRequest ELSE cur \in Requests

(* Nothing of the output is lost or invented on its way to the server, but *)
(* for what a NUL byte hides.                                              *)
OutputConserved ==
  pc \in {"fork", "poll", "read", "wait"} /\ fault \notin SetupFaults =>
    pipe[cur] <= written[cur] /\ Came(script[cur], written[cur] - pipe[cur], result)

(* What the server may rely on at each place in handleCGI().               *)
ParentKnows ==
  /\ pc = "fork" => answers[cur] = <<>> /\ child[cur] = "none"
  /\ pc \in {"poll", "read", "wait"} =>
       /\ child[cur] # "reaped" /\ (child[cur] = "none" => fault = "fork")
       /\ "server" \notin writers[cur]
  /\ pc = "wait" => "server" \notin readers[cur] /\ writers[cur] = {} /\ pipe[cur] = 0
  /\ pc \in {"kill", "caller"} => answers[cur] # <<>>

ParentInv == CurrentRequest /\ OutputConserved /\ ParentKnows /\ KillsItsChild

IInv == TypeOK /\ ParentInv /\ \A r \in Requests : OfRequest(r)

USE CGIAssumption

----------------------------------------------------------------------------
(* One request                                                             *)

Same(q) ==
  /\ UNCHANGED <<fault, script>>
  /\ answers'[q] = answers[q] /\ child'[q] = child[q] /\ status'[q] = status[q]
  /\ written'[q] = written[q] /\ pipe'[q] = pipe[q]
  /\ readers'[q] = readers[q] /\ writers'[q] = writers[q]

(* What holds of a request holds after a step that does not touch it.      *)
LEMMA OtherRequest ==
  ASSUME NEW q \in Requests, OfRequest(q), Same(q), InHand(q) => InHand(q)'
  PROVE  OfRequest(q)'
<1>1. (TimedOut(q) <=> TimedOut(q)') /\ (Leftover(q) <=> Leftover(q)') /\ (Untouched(q) <=> Untouched(q)')
  BY DEF Same, TimedOut, Leftover, Untouched
<1>2. Truthful(q)'  BY DEF OfRequest, Same, Truthful
<1> HIDE DEF InHand
<1> QED  BY <1>1, <1>2 DEF OfRequest, Same

(* A first response that is truthful stays so as long as the child's end   *)
(* is not changed afterwards.                                              *)
LEMMA StaysTruthful ==
  ASSUME NEW q \in Requests, Truthful(q), answers[q] # <<>>, UNCHANGED <<fault, script>>,
         Head(answers'[q]) = Head(answers[q]),
         child[q] = "none" => child'[q] = "none",
         status[q] \in {"zero", "one"} => status'[q] = status[q]
  PROVE  Truthful(q)'
  BY DEF Truthful

----------------------------------------------------------------------------
(* Responses                                                               *)

Response == [code : {200, 201, 408, 500}, body : Nat]

(* What Send does: a response is put behind those of its connection, and   *)
(* nothing else changes.                                                   *)
Sent(r, code, n) ==
  /\ answers' \in [Requests -> Seq(Response)]
  /\ client' \in [Requests -> {"there", "left", "reset"}]
  /\ \A q \in Requests \ {r} : answers'[q] = answers[q]
  /\ answers'[r] # <<>>
  /\ \A q \in Requests : answers[q] # <<>> => Head(answers'[q]) = Head(answers[q])
  /\ answers[r] = <<>> => Head(answers'[r]).code = code /\ Head(answers'[r]).body = n
  /\ \A q \in Requests : TimedOut(q) => TimedOut(q)'
  /\ code = 408 => TimedOut(r)'

(* A response goes behind those of its connection, which stay as they are. *)
LEMMA SendProperties ==
  ASSUME TypeOK, NEW r \in Requests, NEW code \in {200, 201, 408, 500}, NEW n \in Nat,
         Send(r, code, n)
  PROVE  Sent(r, code, n)
<1> DEFINE s == answers[r]
           x == Answer(code, n)
<1>1. s \in Seq(Response) /\ x \in Response /\ answers \in [Requests -> Seq(Response)]
  BY DEF TypeOK, Answer, Response
<1>2. answers' = [answers EXCEPT ![r] = Append(s, x)]  BY DEF Send
<1>3. answers'[r] = Append(s, x)  BY <1>1, <1>2
<1>4. x.code = code /\ x.body = n  BY DEF Answer
<1> HIDE DEF s, x
<1>5. /\ Append(s, x) \in Seq(Response) /\ Len(Append(s, x)) = Len(s) + 1
      /\ Append(s, x)[Len(s) + 1] = x
      /\ \A k \in 1..Len(s) : Append(s, x)[k] = s[k]
      /\ Len(s) \in Nat /\ DOMAIN s = 1..Len(s) /\ DOMAIN Append(s, x) = 1..Len(s) + 1
  BY <1>1, AppendProperties, LenProperties
<1>6. Append(s, x) # <<>>  BY <1>5
<1>7. Head(Append(s, x)) = Append(s, x)[1]  BY <1>5, <1>6
<1>8. s # <<>> => Head(s) = s[1] /\ Len(s) > 0  BY <1>1, EmptySeq
<1>9. Head(Append(s, x)) = IF s = <<>> THEN x ELSE Head(s)
  <2>1. CASE s = <<>>  BY <1>5, <1>7, <2>1
  <2>2. CASE s # <<>>  BY <1>5, <1>7, <1>8, <2>2
  <2> QED  BY <2>1, <2>2
<1>10. \A q \in Requests \ {r} : answers'[q] = answers[q]  BY <1>1, <1>2
<1>a. \A q \in Requests : answers[q] # <<>> => Head(answers'[q]) = Head(answers[q])
  BY <1>3, <1>9, <1>10 DEF s
<1>11. TimedOut(r) => TimedOut(r)'
  BY <1>3, <1>5 DEF TimedOut, s
<1>12. code = 408 => TimedOut(r)'
  BY <1>3, <1>4, <1>5 DEF TimedOut
<1>13. client' \in [Requests -> {"there", "left", "reset"}]
  <2>1. client' = client \/ client' = [client EXCEPT ![r] = "reset"]  BY DEF Send
  <2>2. CASE client' = client  BY <2>2 DEF TypeOK
  <2>3. CASE client' = [client EXCEPT ![r] = "reset"]  BY <2>3 DEF TypeOK
  <2> QED  BY <2>1, <2>2, <2>3
<1>14. answers' \in [Requests -> Seq(Response)]  BY <1>1, <1>2, <1>5
<1>15. \A q \in Requests : TimedOut(q) => TimedOut(q)'
  BY <1>10, <1>11 DEF TimedOut
<1> QED  BY <1>3, <1>4, <1>6, <1>9, <1>10, <1>a, <1>12, <1>13, <1>14, <1>15 DEF s, Sent

----------------------------------------------------------------------------
(* The death of a child                                                    *)

(* A child that ends, or closes an end, gives up that end and no other.    *)
LEMMA WithoutProperties ==
  ASSUME NEW h \in [Requests -> SUBSET {"server", "child"}], NEW r \in Requests
  PROVE  /\ Without(h, r) \in [Requests -> SUBSET {"server", "child"}]
         /\ \A q \in Requests : Without(h, r)[q] = IF q = r THEN h[q] \ {"child"} ELSE h[q]
  BY DEF Without

(* A child that dies closes its ends of its pipe; nobody else's change.    *)
LEMMA DiesProperties ==
  ASSUME TypeOK, NEW r \in Requests, NEW how \in {"zero", "one", "killed"}, Dies(r, how)
  PROVE  /\ child' \in [Requests -> Phases]
         /\ status' \in [Requests -> {"none", "zero", "one", "killed"}]
         /\ readers' \in [Requests -> SUBSET {"server", "child"}]
         /\ writers' \in [Requests -> SUBSET {"server", "child"}]
         /\ \A q \in Requests : child'[q] = IF q = r THEN "zombie" ELSE child[q]
         /\ \A q \in Requests : status'[q] = IF q = r THEN how ELSE status[q]
         /\ \A q \in Requests :
                 readers'[q] = IF q = r THEN readers[q] \ {"child"} ELSE readers[q]
         /\ \A q \in Requests :
                 writers'[q] = IF q = r THEN writers[q] \ {"child"} ELSE writers[q]
<1>1. readers' = Without(readers, r) /\ writers' = Without(writers, r)  BY DEF Dies
<1>2. /\ readers \in [Requests -> SUBSET {"server", "child"}]
      /\ writers \in [Requests -> SUBSET {"server", "child"}]
  BY DEF TypeOK
<1>3. /\ child' \in [Requests -> Phases]
      /\ status' \in [Requests -> {"none", "zero", "one", "killed"}]
      /\ \A q \in Requests : child'[q] = IF q = r THEN "zombie" ELSE child[q]
      /\ \A q \in Requests : status'[q] = IF q = r THEN how ELSE status[q]
  BY DEF Dies, TypeOK, Phases
<1>4. /\ Without(readers, r) \in [Requests -> SUBSET {"server", "child"}]
      /\ \A q \in Requests :
              Without(readers, r)[q] = IF q = r THEN readers[q] \ {"child"} ELSE readers[q]
  BY <1>2, WithoutProperties
<1>5. /\ Without(writers, r) \in [Requests -> SUBSET {"server", "child"}]
      /\ \A q \in Requests :
              Without(writers, r)[q] = IF q = r THEN writers[q] \ {"child"} ELSE writers[q]
  BY <1>2, WithoutProperties
<1> QED  BY <1>1, <1>3, <1>4, <1>5

----------------------------------------------------------------------------
(* Steps without a response preserve the invariant                         *)

(* handleCGI() makes a pipe.                                               *)
LEMMA PipeInvariant == ASSUME IInv, NEW r \in Requests, Pipe(r) PROVE IInv'
<1>0. /\ pc = "idle" /\ answers[r] = <<>>
      /\ cur' = r /\ result' = 0 /\ pc' = "fork"
      /\ \A q \in Requests : readers'[q] = IF q = r THEN {"server"} ELSE readers[q]
      /\ \A q \in Requests : writers'[q] = IF q = r THEN {"server"} ELSE writers[q]
      /\ \A q \in Requests : TimedOut(q) => TimedOut(q)'
      /\ UNCHANGED <<fault, script, client, answers, child, status, written, pipe>>
  BY DEF IInv, TimedOut, TypeOK, Pipe, Begin, server, clients, children, pipes
<1>1. TypeOK'
  BY <1>0 DEF IInv, TypeOK, Phases, Alive, Holding, Pipe, Begin, server, clients, children,
     pipes
<1>2. Untouched(r)  BY <1>0 DEF IInv, OfRequest, InHand
<1>3. ParentInv'
  <2>1. pipe[r] = 0 /\ written[r] = 0 /\ written[r] - pipe[r] = 0  BY <1>2 DEF Untouched
  <2>2. script[r].nul \in Nat  BY DEF IInv, TypeOK, ScriptKinds
  <2>3. Came(script[r], 0, 0)  BY <2>2 DEF Came
  <2>4. OutputConserved'  BY <1>0, <2>1, <2>3 DEF OutputConserved
  <2> QED  BY <1>0, <1>2, <2>4 DEF ParentInv, CurrentRequest, ParentKnows, KillsItsChild, Untouched
<1>4. ASSUME NEW q \in Requests, q # r  PROVE OfRequest(q)'
  <2>1. Same(q) /\ ~InHand(q)  BY <1>0, <1>4 DEF Same, InHand
  <2> QED  BY <1>4, <2>1, OtherRequest DEF IInv
<1>5. OfRequest(r)'
  <2>1. OfRequest(r)  BY DEF IInv
  <2>2. InHand(r)'  BY <1>0 DEF InHand
  <2>3. Truthful(r)'  BY <1>0 DEF Truthful
  <2> QED  BY <1>0, <1>2, <2>1, <2>2, <2>3 DEF OfRequest, Untouched, Alive, Holding
<1> QED  BY <1>1, <1>3, <1>4, <1>5 DEF IInv

(* fork() succeeds.                                                        *)
LEMMA ForkInvariant == ASSUME IInv, Fork PROVE IInv'
<1>0. /\ pc = "fork" /\ fault # "fork" /\ pc' = "poll"
      /\ \A q \in Requests : child'[q] = IF q = cur THEN "setup" ELSE child[q]
      /\ \A q \in Requests : readers'[q] = IF q = cur THEN {"server", "child"} ELSE readers[q]
      /\ \A q \in Requests : writers'[q] = IF q = cur THEN {"child"} ELSE writers[q]
      /\ child' \in [Requests -> Phases]
      /\ readers' \in [Requests -> SUBSET {"server", "child"}]
      /\ writers' \in [Requests -> SUBSET {"server", "child"}]
      /\ \A q \in Requests : TimedOut(q) => TimedOut(q)'
      /\ UNCHANGED <<fault, script, cur, result, client, answers, status, written, pipe>>
  <2>1. cur \in Requests /\ TypeOK  BY DEF IInv, ParentInv, CurrentRequest, Fork
  <2>2. UNCHANGED <<fault, script, cur, result, client, answers, status,
                    written, pipe>>  BY DEF Fork, clients
  <2>3. child' = [child EXCEPT ![cur] = "setup"] /\ "setup" \in Phases  BY DEF Fork, Phases
  <2>4. /\ readers' = [readers EXCEPT ![cur] = {"server", "child"}]
        /\ writers' = [writers EXCEPT ![cur] = {"child"}]
    BY DEF Fork
  <2> QED  BY <2>1, <2>2, <2>3, <2>4 DEF Fork, TypeOK, TimedOut
<1>1. TypeOK'  BY <1>0 DEF IInv, TypeOK
<1>2. cur \in Requests /\ answers[cur] = <<>> /\ child[cur] = "none" /\ OfRequest(cur)
  BY <1>0 DEF IInv, ParentInv, CurrentRequest, ParentKnows
<1>3. ParentInv'
  BY <1>0, <1>2 DEF IInv, ParentInv, CurrentRequest, OutputConserved, ParentKnows,
     KillsItsChild
<1>4. ASSUME NEW q \in Requests, q # cur  PROVE OfRequest(q)'
  <2>1. Same(q) /\ ~InHand(q)  BY <1>0, <1>4 DEF Same, InHand
  <2> QED  BY <1>4, <2>1, OtherRequest DEF IInv
<1>5. OfRequest(cur)'
  <2>1. InHand(cur)'  BY <1>0 DEF InHand
  <2>2. Truthful(cur)'  BY <1>0, <1>2 DEF Truthful
  <2> QED  BY <1>0, <1>2, <2>1, <2>2 DEF OfRequest, Alive, Holding, Ended
<1> QED  BY <1>0, <1>1, <1>3, <1>4, <1>5 DEF IInv

(* fork() fails, unnoticed: the write end is closed and poll() comes next. *)
LEMMA ForkFailsInvariant == ASSUME IInv, ForkFails PROVE IInv'
<1>0. /\ pc = "fork" /\ fault = "fork" /\ pc' = "poll"
      /\ \A q \in Requests : writers'[q] = IF q = cur THEN {} ELSE writers[q]
      /\ writers' \in [Requests -> SUBSET {"server", "child"}]
      /\ \A q \in Requests : TimedOut(q) => TimedOut(q)'
      /\ UNCHANGED <<fault, script, cur, result, client, answers, child, status,
                     written, pipe, readers>>
  <2>1. cur \in Requests /\ TypeOK  BY DEF IInv, ParentInv, CurrentRequest, ForkFails
  <2>2. UNCHANGED <<fault, script, cur, result, client, answers, child, status,
                    written, pipe, readers>>
    BY DEF ForkFails, clients, children
  <2>3. writers' = [writers EXCEPT ![cur] = {}]  BY DEF ForkFails
  <2> QED  BY <2>1, <2>2, <2>3 DEF ForkFails, TypeOK, TimedOut
<1>1. TypeOK'  BY <1>0 DEF IInv, TypeOK
<1>2. cur \in Requests /\ answers[cur] = <<>> /\ child[cur] = "none" /\ OfRequest(cur)
  BY <1>0 DEF IInv, ParentInv, CurrentRequest, ParentKnows
<1>3. ParentInv'
  BY <1>0, <1>2 DEF IInv, ParentInv, CurrentRequest, OutputConserved, ParentKnows,
     KillsItsChild
<1>4. ASSUME NEW q \in Requests, q # cur  PROVE OfRequest(q)'
  <2>1. Same(q) /\ ~InHand(q)  BY <1>0, <1>4 DEF Same, InHand
  <2> QED  BY <1>4, <2>1, OtherRequest DEF IInv
<1>5. OfRequest(cur)'
  <2>1. InHand(cur)'  BY <1>0 DEF InHand
  <2>2. Truthful(cur)'  BY <1>0, <1>2 DEF Truthful
  <2> QED  BY <1>0, <1>2, <2>1, <2>2 DEF OfRequest, Alive, Holding
<1> QED  BY <1>0, <1>1, <1>3, <1>4, <1>5 DEF IInv

(* poll() finds output, or that no write end is open.                      *)
LEMMA PollReadyInvariant == ASSUME IInv, PollReady PROVE IInv'
<1>0. /\ pc = "poll" /\ pc' = "read"
      /\ \A q \in Requests : TimedOut(q) => TimedOut(q)'
      /\ UNCHANGED <<fault, script, cur, result, client, answers, child, status,
                     written, pipe, readers, writers>>
  BY DEF TimedOut, PollReady, server, clients, children, pipes
<1>1. TypeOK'
  BY <1>0 DEF IInv, TypeOK, Phases, Alive, Holding, PollReady, server, clients, children,
     pipes
<1>2. ParentInv'
  BY <1>0 DEF IInv, ParentInv, CurrentRequest, OutputConserved, ParentKnows, KillsItsChild
<1>3. ASSUME NEW q \in Requests  PROVE OfRequest(q)'
  <2>1. Same(q) /\ (InHand(q) => InHand(q)')  BY <1>0 DEF Same, InHand
  <2> QED  BY <1>3, <2>1, OtherRequest DEF IInv
<1> QED  BY <1>1, <1>2, <1>3 DEF IInv

(* After the 408 the script is killed, if it still runs.                   *)
LEMMA KillInvariant == ASSUME IInv, Kill PROVE IInv'
<1>0. /\ pc = "kill" /\ pc' = "caller"
      /\ \A q \in Requests :
              child'[q] = IF q = cur /\ child[q] \in Alive THEN "zombie" ELSE child[q]
      /\ \A q \in Requests :
              status'[q] = IF q = cur /\ child[q] \in Alive THEN "killed" ELSE status[q]
      /\ \A q \in Requests :
              readers'[q] = IF q = cur /\ child[q] \in Alive THEN readers[q] \ {"child"} ELSE readers[q]
      /\ \A q \in Requests :
              writers'[q] = IF q = cur /\ child[q] \in Alive THEN writers[q] \ {"child"} ELSE writers[q]
      /\ child' \in [Requests -> Phases]
      /\ status' \in [Requests -> {"none", "zero", "one", "killed"}]
      /\ readers' \in [Requests -> SUBSET {"server", "child"}]
      /\ writers' \in [Requests -> SUBSET {"server", "child"}]
      /\ \A q \in Requests : TimedOut(q) => TimedOut(q)'
      /\ UNCHANGED <<fault, script, cur, result, client, answers, written, pipe>>
  <2>1. cur \in Requests /\ TypeOK /\ pc = "kill" /\ pc' = "caller"
    BY DEF IInv, ParentInv, CurrentRequest, Kill
  <2>2. UNCHANGED <<fault, script, cur, result, client, answers,
                    written, pipe>>  BY DEF Kill, clients
  <2>3. \A q \in Requests : TimedOut(q) => TimedOut(q)'  BY <2>2 DEF TimedOut
  <2>4. CASE child[cur] \in Alive
    <3>1. Dies(cur, "killed")  BY <2>4 DEF Kill
    <3>2. /\ child' \in [Requests -> Phases]
          /\ status' \in [Requests -> {"none", "zero", "one", "killed"}]
          /\ readers' \in [Requests -> SUBSET {"server", "child"}]
          /\ writers' \in [Requests -> SUBSET {"server", "child"}]
          /\ \A q \in Requests : child'[q] = IF q = cur THEN "zombie" ELSE child[q]
          /\ \A q \in Requests : status'[q] = IF q = cur THEN "killed" ELSE status[q]
          /\ \A q \in Requests :
                  readers'[q] = IF q = cur THEN readers[q] \ {"child"} ELSE readers[q]
          /\ \A q \in Requests :
                  writers'[q] = IF q = cur THEN writers[q] \ {"child"} ELSE writers[q]
      BY <2>1, <3>1, DiesProperties
    <3> QED  BY <2>1, <2>2, <2>3, <2>4, <3>2
  <2>5. CASE child[cur] \notin Alive
    <3>1. UNCHANGED <<child, status, readers, writers>>  BY <2>5 DEF Kill
    <3> QED  BY <2>1, <2>2, <2>3, <2>5, <3>1 DEF TypeOK
  <2> QED  BY <2>4, <2>5
<1>1. TypeOK'  BY <1>0 DEF IInv, TypeOK, Phases, Alive, Holding
<1>2. cur \in Requests /\ answers[cur] # <<>> /\ child[cur] \in Alive \cup {"zombie"} /\ OfRequest(cur)
  BY <1>0 DEF IInv, ParentInv, CurrentRequest, ParentKnows, KillsItsChild
<1>3. ParentInv'
  BY <1>0, <1>2 DEF IInv, ParentInv, CurrentRequest, OutputConserved, ParentKnows,
     KillsItsChild
<1>4. ASSUME NEW q \in Requests, q # cur  PROVE OfRequest(q)'
  <2>1. Same(q) /\ ~InHand(q)  BY <1>0, <1>4 DEF Same, InHand
  <2> QED  BY <1>4, <2>1, OtherRequest DEF IInv
<1>5. OfRequest(cur)'
  <2>1. CASE child[cur] \notin Alive
    <3>1. Same(cur) /\ ~InHand(cur) /\ cur' = cur  BY <1>0, <1>2, <2>1 DEF Same, InHand
    <3> QED  BY <1>2, <3>1, OtherRequest
  <2>2. CASE child[cur] \in Alive
    <3>1. status[cur] = "none" /\ ~InHand(cur)
      BY <1>0, <1>2, <2>2 DEF OfRequest, Alive, Holding, Ended, InHand, IInv
    <3>2. Truthful(cur)'  BY <1>0, <1>2, <2>2, <3>1, StaysTruthful DEF OfRequest, Alive, Holding
    <3>3. child'[cur] = "zombie" /\ status'[cur] = "killed"  BY <1>0, <1>2, <2>2
    <3>4. readers'[cur] = readers[cur] \ {"child"} /\ writers'[cur] = writers[cur] \ {"child"}
      BY <1>0, <1>2, <2>2
    <3>5. answers'[cur] # <<>> /\ (TimedOut(cur) => TimedOut(cur)') /\ UNCHANGED <<fault, script, cur>>
      BY <1>0, <1>2
    <3>6. Leftover(cur)  BY <2>2 DEF Leftover
    <3> QED  BY <1>2, <3>1, <3>2, <3>3, <3>4, <3>5, <3>6 DEF OfRequest, Alive, Holding, Ended
  <2> QED  BY <2>1, <2>2
<1> QED  BY <1>0, <1>1, <1>3, <1>4, <1>5 DEF IInv

(* What is kept of the output when more of it is read.                     *)
LEMMA CameMore ==
  ASSUME NEW s \in ScriptKinds, NEW taken \in Nat, NEW n \in Nat \ {0}, NEW kept \in Nat,
         Came(s, taken, kept)
  PROVE  Came(s, taken + n, kept + Kept(s, taken, n))
<1>1. s.nul \in Nat  BY DEF ScriptKinds
<1>2. CASE s.nul = 0 \/ taken + n < s.nul
  <2>1. Kept(s, taken, n) = n /\ kept = taken  BY <1>1, <1>2 DEF Came, Kept
  <2> QED  BY <1>1, <1>2, <2>1 DEF Came
<1>3. CASE s.nul # 0 /\ taken < s.nul /\ ~(taken + n < s.nul)
  <2>1. Kept(s, taken, n) = s.nul - taken - 1 /\ kept = taken  BY <1>1, <1>3 DEF Came, Kept
  <2> QED  BY <1>1, <1>3, <2>1 DEF Came
<1>4. CASE s.nul # 0 /\ ~(taken < s.nul)
  <2>1. Kept(s, taken, n) = n /\ kept \in s.nul - 1 .. taken - 1
    BY <1>1, <1>4 DEF Came, Kept
  <2>2. kept + n \in s.nul - 1 .. taken + n - 1  BY <1>1, <2>1
  <2> QED  BY <1>1, <1>4, <2>1, <2>2 DEF Came
<1> QED  BY <1>1, <1>2, <1>3, <1>4

(* read() returns some of the output.                                      *)
LEMMA ReadInvariant == ASSUME IInv, Read PROVE IInv'
<1> DEFINE taken == written[cur] - pipe[cur]
<1>1. PICK n \in 1..pipe[cur] :
        /\ pipe' = [pipe EXCEPT ![cur] = pipe[cur] - n]
        /\ result' = result + Kept(script[cur], taken, n)
  BY DEF Read
<1>0. /\ pc = "read" /\ cur \in Requests /\ n \in Nat \ {0}
      /\ \A q \in Requests : pipe'[q] = IF q = cur THEN pipe[q] - n ELSE pipe[q]
      /\ pipe' \in [Requests -> 0..Capacity]
      /\ \A q \in Requests : TimedOut(q) => TimedOut(q)'
      /\ UNCHANGED <<fault, script, pc, cur, client, answers, child, status,
                     written, readers, writers>>
  <2>1. cur \in Requests /\ TypeOK  BY DEF IInv, ParentInv, CurrentRequest, Read
  <2>2. UNCHANGED <<fault, script, pc, cur, client, answers, child, status,
                    written, readers, writers>>
    BY DEF Read, clients, children
  <2>3. pipe[cur] - n \in 0..Capacity  BY <2>1 DEF TypeOK
  <2> QED  BY <1>1, <2>1, <2>2, <2>3 DEF Read, TypeOK, TimedOut
<1>2. OfRequest(cur) /\ script[cur] \in ScriptKinds /\ written[cur] \in Nat
      /\ pipe[cur] \in Nat /\ result \in Nat
  BY <1>0 DEF IInv, TypeOK
<1>a. result' \in Nat
  <2>1. Kept(script[cur], taken, n) \in Nat
    <3>1. script[cur].nul \in Nat /\ taken \in Int  BY <1>2 DEF ScriptKinds
    <3> HIDE DEF taken
    <3> QED  BY <1>0, <3>1 DEF Kept
  <2> QED  BY <1>1, <1>2, <2>1
<1>b. TypeOK'  BY <1>0, <1>a DEF IInv, TypeOK
<1>3. ParentInv'
  <2>1. OutputConserved'
    <3> SUFFICES ASSUME fault \notin SetupFaults
                 PROVE  /\ pipe'[cur] <= written[cur]
                        /\ Came(script[cur], written[cur] - pipe'[cur], result')
      BY <1>0 DEF OutputConserved
    <3>1. pipe[cur] <= written[cur] /\ Came(script[cur], taken, result)
      BY <1>0 DEF IInv, ParentInv, OutputConserved
    <3>2. taken \in Nat  BY <1>2, <3>1
    <3>3. written[cur] - pipe'[cur] = taken + n  BY <1>0, <1>2
    <3> HIDE DEF taken
    <3>4. Came(script[cur], taken + n, result')
      BY <1>0, <1>1, <1>2, <3>1, <3>2, CameMore
    <3>5. pipe'[cur] <= written[cur]  BY <1>0, <1>2, <3>1
    <3> QED  BY <3>3, <3>4, <3>5
  <2> QED  BY <1>0, <1>2, <2>1 DEF IInv, ParentInv, CurrentRequest, ParentKnows, KillsItsChild
<1>4. ASSUME NEW q \in Requests, q # cur  PROVE OfRequest(q)'
  <2>1. Same(q) /\ ~InHand(q)  BY <1>0, <1>4 DEF Same, InHand
  <2> QED  BY <1>4, <2>1, OtherRequest DEF IInv
<1>5. OfRequest(cur)'
  <2>1. InHand(cur)'  BY <1>0 DEF InHand
  <2>2. Truthful(cur)'  BY <1>0, <1>2 DEF Truthful, OfRequest
  <2> QED  BY <1>0, <1>2, <2>1, <2>2 DEF OfRequest
<1> QED  BY <1>0, <1>b, <1>3, <1>4, <1>5 DEF IInv

(* read() returns 0: the read end is closed and the child is waited for.   *)
LEMMA ReadEndInvariant == ASSUME IInv, ReadEnd PROVE IInv'
<1>0. /\ pc = "read" /\ pipe[cur] = 0 /\ writers[cur] = {} /\ pc' = "wait"
      /\ \A q \in Requests :
              readers'[q] = IF q = cur THEN readers[q] \ {"server"} ELSE readers[q]
      /\ readers' \in [Requests -> SUBSET {"server", "child"}]
      /\ \A q \in Requests : TimedOut(q) => TimedOut(q)'
      /\ UNCHANGED <<fault, script, cur, result, client, answers, child, status,
                     written, pipe, writers>>
  <2>1. cur \in Requests /\ TypeOK  BY DEF IInv, ParentInv, CurrentRequest, ReadEnd
  <2>2. UNCHANGED <<fault, script, cur, result, client, answers, child, status,
                    written, pipe, writers>>
    BY DEF ReadEnd, clients, children
  <2>3. /\ readers' = [readers EXCEPT ![cur] = readers[cur] \ {"server"}]
        /\ readers[cur] \ {"server"} \in SUBSET {"server", "child"}
    BY <2>1 DEF ReadEnd, TypeOK
  <2>4. readers \in [Requests -> SUBSET {"server", "child"}]  BY <2>1 DEF TypeOK
  <2>5. /\ readers' \in [Requests -> SUBSET {"server", "child"}]
        /\ \A q \in Requests :
                readers'[q] = IF q = cur THEN readers[q] \ {"server"} ELSE readers[q]
    BY <2>1, <2>3, <2>4
  <2> QED  BY <2>2, <2>5 DEF ReadEnd, TimedOut
<1>1. TypeOK'  BY <1>0 DEF IInv, TypeOK
<1>2. cur \in Requests /\ OfRequest(cur)  BY <1>0 DEF IInv, ParentInv, CurrentRequest
<1>3. ParentInv'
  BY <1>0, <1>2 DEF IInv, ParentInv, CurrentRequest, OutputConserved, ParentKnows,
     KillsItsChild
<1>4. ASSUME NEW q \in Requests, q # cur  PROVE OfRequest(q)'
  <2>1. Same(q) /\ ~InHand(q)  BY <1>0, <1>4 DEF Same, InHand
  <2> QED  BY <1>4, <2>1, OtherRequest DEF IInv
<1>5. OfRequest(cur)'
  <2>1. InHand(cur)'  BY <1>0 DEF InHand
  <2>2. Truthful(cur)'  BY <1>0, <1>2 DEF Truthful, OfRequest
  <2> QED  BY <1>0, <1>2, <2>1, <2>2 DEF OfRequest
<1> QED  BY <1>0, <1>1, <1>3, <1>4, <1>5 DEF IInv

(* SIGPIPE ends the server.                                                *)
LEMMA BrokenPipeInvariant == ASSUME IInv, BrokenPipe PROVE IInv'
<1>0. /\ pc \in {"caller", "poll", "wait"} /\ pc' = "dead"
      /\ \A q \in Requests : readers'[q] = readers[q] \ {"server"}
      /\ \A q \in Requests : writers'[q] = writers[q] \ {"server"}
      /\ \A q \in Requests : TimedOut(q) => TimedOut(q)'
      /\ UNCHANGED <<fault, script, cur, result, client, answers, child, status,
                     written, pipe>>
  BY DEF TimedOut, BrokenPipe, AtSend, server, clients, children, pipes
<1>1. TypeOK'
  BY <1>0 DEF IInv, TypeOK, Phases, Alive, Holding, BrokenPipe, AtSend, server, clients,
     children, pipes
<1>2. ParentInv'
  BY <1>0 DEF IInv, ParentInv, CurrentRequest, OutputConserved, ParentKnows, KillsItsChild
<1>3. ASSUME NEW q \in Requests  PROVE OfRequest(q)'
  <2>1. OfRequest(q) /\ (InHand(q) => InHand(q)')  BY <1>0 DEF IInv, InHand
  <2>2. Truthful(q)'  BY <1>0, <2>1 DEF Truthful, OfRequest
  <2>3. (Leftover(q)' => Leftover(q)) /\ (Untouched(q) => Untouched(q)')
    BY <1>0 DEF Leftover, Untouched
  <2> HIDE DEF InHand
  <2> QED  BY <1>0, <2>1, <2>2, <2>3 DEF OfRequest
<1> QED  BY <1>1, <1>2, <1>3 DEF IInv

(* The child becomes the script.                                           *)
LEMMA ChildRunsInvariant == ASSUME IInv, NEW r \in Requests, ChildRuns(r) PROVE IInv'
<1>0. /\ child[r] = "setup" /\ fault \notin SetupFaults
      /\ \A q \in Requests : child'[q] = IF q = r THEN "script" ELSE child[q]
      /\ \A q \in Requests : readers'[q] = IF q = r THEN readers[q] \ {"child"} ELSE readers[q]
      /\ child' \in [Requests -> Phases]
      /\ readers' \in [Requests -> SUBSET {"server", "child"}]
      /\ \A q \in Requests : TimedOut(q) => TimedOut(q)'
      /\ UNCHANGED <<fault, script, pc, cur, result, client, answers, status,
                     written, pipe, writers>>
  <2>1. TypeOK /\ readers \in [Requests -> SUBSET {"server", "child"}]  BY DEF IInv, TypeOK
  <2>2. UNCHANGED <<fault, script, pc, cur, result, client, answers, status,
                    written, pipe, writers>>
    BY DEF ChildRuns, server, clients
  <2>3. child' = [child EXCEPT ![r] = "script"] /\ "script" \in Phases
    BY DEF ChildRuns, Phases
  <2>4. /\ readers' \in [Requests -> SUBSET {"server", "child"}]
        /\ \A q \in Requests :
                readers'[q] = IF q = r THEN readers[q] \ {"child"} ELSE readers[q]
    <3>1. /\ Without(readers, r) \in [Requests -> SUBSET {"server", "child"}]
          /\ \A q \in Requests :
               Without(readers, r)[q] = IF q = r THEN readers[q] \ {"child"} ELSE readers[q]
      BY <2>1, WithoutProperties
    <3> QED  BY <3>1 DEF ChildRuns
  <2>5. /\ child' \in [Requests -> Phases]
        /\ \A q \in Requests : child'[q] = IF q = r THEN "script" ELSE child[q]
    BY <2>1, <2>3 DEF TypeOK
  <2> QED  BY <2>2, <2>4, <2>5 DEF ChildRuns, SetupFaults, TimedOut
<1>1. TypeOK'  BY <1>0 DEF IInv, TypeOK
<1>2. OfRequest(r)  BY DEF IInv
<1>3. ParentInv'
  BY <1>0, <1>2 DEF IInv, ParentInv, CurrentRequest, OutputConserved, ParentKnows,
     KillsItsChild, Alive, Holding
<1>4. ASSUME NEW q \in Requests, q # r  PROVE OfRequest(q)'
  <2>1. Same(q) /\ (InHand(q) => InHand(q)')  BY <1>0, <1>4 DEF Same, InHand
  <2> QED  BY <1>4, <2>1, OtherRequest DEF IInv
<1>5. OfRequest(r)'
  <2>1. InHand(r) => InHand(r)'  BY <1>0 DEF InHand
  <2>2. Truthful(r)'  BY <1>0, <1>2 DEF Truthful, OfRequest
  <2> HIDE DEF InHand
  <2> QED  BY <1>0, <1>2, <2>1, <2>2 DEF OfRequest, Untouched, Leftover, Alive, Holding, Ended
<1> QED  BY <1>1, <1>3, <1>4, <1>5 DEF IInv

(* SIGPIPE ends a child that answers.                                      *)
LEMMA ChildBrokenPipeInvariant == ASSUME IInv, NEW r \in Requests, ChildBrokenPipe(r) PROVE IInv'
<1>0. /\ ((child[r] = "setup" /\ fault \in SetupFaults) \/ child[r] = "failed")
      /\ \A q \in Requests : child'[q] = IF q = r THEN "zombie" ELSE child[q]
      /\ \A q \in Requests : status'[q] = IF q = r THEN "killed" ELSE status[q]
      /\ \A q \in Requests : readers'[q] = IF q = r THEN readers[q] \ {"child"} ELSE readers[q]
      /\ \A q \in Requests : writers'[q] = IF q = r THEN writers[q] \ {"child"} ELSE writers[q]
      /\ child' \in [Requests -> Phases]
      /\ status' \in [Requests -> {"none", "zero", "one", "killed"}]
      /\ readers' \in [Requests -> SUBSET {"server", "child"}]
      /\ writers' \in [Requests -> SUBSET {"server", "child"}]
      /\ \A q \in Requests : TimedOut(q) => TimedOut(q)'
      /\ UNCHANGED <<fault, script, pc, cur, result, client, answers, written, pipe>>
  <2>1. TypeOK /\ Dies(r, "killed") /\ "killed" \in {"zero", "one", "killed"}
    BY DEF IInv, ChildBrokenPipe
  <2>2. /\ ((child[r] = "setup" /\ fault \in SetupFaults) \/ child[r] = "failed")
        /\ UNCHANGED <<fault, script, pc, cur, result, client, answers, written, pipe>>
    BY DEF IInv, TypeOK, ChildBrokenPipe, SetupFaults, server, clients, pipes
  <2>3. \A q \in Requests : TimedOut(q) => TimedOut(q)'
    BY <2>2 DEF TimedOut
  <2> QED  BY <2>1, <2>2, <2>3, DiesProperties
<1>1. TypeOK'  BY <1>0 DEF IInv, TypeOK, Phases, Alive, Holding
<1>2. OfRequest(r) /\ child[r] \in Alive  BY <1>0 DEF IInv, Alive, Holding
<1>3. ParentInv'
  BY <1>0, <1>2 DEF IInv, ParentInv, CurrentRequest, OutputConserved, ParentKnows,
     KillsItsChild
<1>4. ASSUME NEW q \in Requests, q # r  PROVE OfRequest(q)'
  <2>1. Same(q) /\ (InHand(q) => InHand(q)')  BY <1>0, <1>4 DEF Same, InHand
  <2> QED  BY <1>4, <2>1, OtherRequest DEF IInv
<1>5. OfRequest(r)'
  <2>1. InHand(r) => InHand(r)'  BY <1>0 DEF InHand
  <2>2. status[r] = "none" /\ child[r] # "none"  BY <1>2 DEF OfRequest, Alive, Holding, Ended
  <2>3. Truthful(r)'
    <3>1. CASE answers[r] = <<>>  BY <1>0, <3>1 DEF Truthful
    <3>2. CASE answers[r] # <<>>  BY <1>0, <1>2, <2>2, <3>2, StaysTruthful DEF OfRequest
    <3> QED  BY <3>1, <3>2
  <2> HIDE DEF InHand
  <2> QED
    BY <1>0, <1>2, <2>1, <2>2, <2>3 DEF OfRequest, Untouched, Leftover, Alive, Holding,
       Ended, SetupFaults
<1> QED  BY <1>1, <1>3, <1>4, <1>5 DEF IInv

(* The script writes.                                                      *)
LEMMA ScriptWritesInvariant == ASSUME IInv, NEW r \in Requests, ScriptWrites(r) PROVE IInv'
<1>0. /\ child[r] = "script" /\ pipe[r] < Capacity
      /\ \A q \in Requests : written'[q] = IF q = r THEN written[q] + 1 ELSE written[q]
      /\ \A q \in Requests : pipe'[q] = IF q = r THEN pipe[q] + 1 ELSE pipe[q]
      /\ written' \in [Requests -> Nat]
      /\ pipe' \in [Requests -> 0..Capacity]
      /\ \A q \in Requests : TimedOut(q) => TimedOut(q)'
      /\ UNCHANGED <<fault, script, pc, cur, result, client, answers, child, status,
                     readers, writers>>
  <2>1. /\ written \in [Requests -> Nat] /\ written[r] + 1 \in Nat
        /\ pipe \in [Requests -> 0..Capacity]
    BY DEF IInv, TypeOK
  <2>2. pipe[r] + 1 \in 0..Capacity  BY <2>1 DEF ScriptWrites
  <2>3. /\ written' = [written EXCEPT ![r] = written[r] + 1]
        /\ pipe' = [pipe EXCEPT ![r] = pipe[r] + 1]
    BY DEF ScriptWrites
  <2>4. /\ child[r] = "script" /\ pipe[r] < Capacity
        /\ UNCHANGED <<fault, script, pc, cur, result, client, answers, child, status,
                       readers, writers>>
    BY DEF ScriptWrites, server, clients
  <2> QED  BY <2>1, <2>2, <2>3, <2>4 DEF TimedOut
<1>1. TypeOK'  BY <1>0 DEF IInv, TypeOK
<1>2. OfRequest(r)  BY DEF IInv
<1>3. ParentInv'
  <2>1. OutputConserved'
    <3>1. result \in Nat /\ \A q \in Requests : pipe[q] \in Nat /\ written[q] \in Nat
      BY DEF IInv, TypeOK
    <3>2. pc # "idle" => cur \in Requests  BY DEF IInv, ParentInv, CurrentRequest
    <3> QED  BY <1>0, <3>1, <3>2 DEF IInv, ParentInv, OutputConserved
  <2>2. cur = r /\ pc = "wait" => FALSE
    BY <1>0, <1>2 DEF IInv, ParentInv, ParentKnows, OfRequest, Alive, Holding
  <2> QED  BY <1>0, <2>1, <2>2 DEF IInv, ParentInv, CurrentRequest, ParentKnows, KillsItsChild
<1>4. ASSUME NEW q \in Requests, q # r  PROVE OfRequest(q)'
  <2>1. Same(q) /\ (InHand(q) => InHand(q)')  BY <1>0, <1>4 DEF Same, InHand
  <2> QED  BY <1>4, <2>1, OtherRequest DEF IInv
<1>5. OfRequest(r)'
  <2>1. InHand(r) => InHand(r)'  BY <1>0 DEF InHand
  <2>2. Truthful(r)'  BY <1>0, <1>2 DEF Truthful, OfRequest
  <2>3. status[r] = "none"  BY <1>0, <1>2 DEF OfRequest, Ended
  <2> HIDE DEF InHand
  <2> QED  BY <1>0, <1>2, <2>1, <2>2, <2>3 DEF OfRequest, Untouched, Leftover
<1> QED  BY <1>1, <1>3, <1>4, <1>5 DEF IInv

(* The script closes its output and hangs.                                 *)
LEMMA ScriptClosesInvariant == ASSUME IInv, NEW r \in Requests, ScriptCloses(r) PROVE IInv'
<1>0. /\ child[r] = "script"
      /\ child' \in [Requests -> Phases]
      /\ writers' \in [Requests -> SUBSET {"server", "child"}]
      /\ \A q \in Requests : child'[q] = IF q = r THEN "closed" ELSE child[q]
      /\ \A q \in Requests : writers'[q] = IF q = r THEN writers[q] \ {"child"} ELSE writers[q]
      /\ \A q \in Requests : TimedOut(q) => TimedOut(q)'
      /\ UNCHANGED <<fault, script, pc, cur, result, client, answers, status, written,
                     pipe, readers>>
  <2>1. /\ child' \in [Requests -> Phases]
        /\ \A q \in Requests : child'[q] = IF q = r THEN "closed" ELSE child[q]
    BY DEF IInv, TypeOK, ScriptCloses, Phases
  <2>2. /\ writers' \in [Requests -> SUBSET {"server", "child"}]
        /\ \A q \in Requests :
             writers'[q] = IF q = r THEN writers[q] \ {"child"} ELSE writers[q]
    <3>1. writers \in [Requests -> SUBSET {"server", "child"}]  BY DEF IInv, TypeOK
    <3>2. writers' = Without(writers, r)  BY DEF ScriptCloses
    <3>3. /\ Without(writers, r) \in [Requests -> SUBSET {"server", "child"}]
          /\ \A q \in Requests :
               Without(writers, r)[q] = IF q = r THEN writers[q] \ {"child"} ELSE writers[q]
      BY <3>1, WithoutProperties
    <3> QED  BY <3>2, <3>3
  <2>3. UNCHANGED <<fault, script, pc, cur, result, client, answers, status, written,
                    pipe, readers>>
    BY DEF ScriptCloses, server, clients
  <2>4. \A q \in Requests : TimedOut(q) => TimedOut(q)'  BY <2>3 DEF TimedOut
  <2> QED  BY <2>1, <2>2, <2>3, <2>4 DEF ScriptCloses
<1>1. TypeOK'  BY <1>0 DEF IInv, TypeOK
<1>2. OfRequest(r)  BY DEF IInv
<1>3. ParentInv'
  <2>1. pc # "fork" \/ cur # r  BY <1>0 DEF IInv, ParentInv, ParentKnows
  <2>2. pc # "idle" => cur \in Requests  BY DEF IInv, ParentInv, CurrentRequest
  <2> QED
    BY <1>0, <2>1, <2>2 DEF IInv, ParentInv, CurrentRequest, OutputConserved, ParentKnows,
       KillsItsChild, Alive
<1>4. ASSUME NEW q \in Requests, q # r  PROVE OfRequest(q)'
  <2>1. Same(q) /\ (InHand(q) => InHand(q)')  BY <1>0, <1>4 DEF Same, InHand
  <2> QED  BY <1>4, <2>1, OtherRequest DEF IInv
<1>5. OfRequest(r)'
  <2>1. InHand(r) => InHand(r)'  BY <1>0 DEF InHand
  <2>2. Truthful(r)'
    <3>1. CASE answers[r] = <<>>  BY <1>0, <3>1 DEF Truthful
    <3>2. CASE answers[r] # <<>>
      <4>1. child[r] # "none"  BY <1>0
      <4> QED  BY <1>0, <1>2, <3>2, <4>1, StaysTruthful DEF OfRequest
    <3> QED  BY <3>1, <3>2
  <2>3. Leftover(r) /\ child'[r] = "closed"  BY <1>0 DEF Leftover, Alive
  <2>4. ~Untouched(r) /\ "child" \notin writers'[r]  BY <1>0 DEF Untouched
  <2>5. "server" \in writers'[r] => "server" \in writers[r]  BY <1>0
  <2> HIDE DEF InHand
  <2> QED  BY <1>0, <1>2, <2>1, <2>2, <2>3, <2>4, <2>5 DEF OfRequest, Holding, Ended
<1> QED  BY <1>1, <1>3, <1>4, <1>5 DEF IInv

(* The script ends.                                                        *)
LEMMA ScriptEndsInvariant == ASSUME IInv, NEW r \in Requests, ScriptEnds(r) PROVE IInv'
<1>0. /\ child[r] = "script" /\ written[r] = script[r].output /\ script[r].ends \in {"zero", "one"}
      /\ \A q \in Requests : child'[q] = IF q = r THEN "zombie" ELSE child[q]
      /\ \A q \in Requests : status'[q] = IF q = r THEN script[r].ends ELSE status[q]
      /\ \A q \in Requests : readers'[q] = IF q = r THEN readers[q] \ {"child"} ELSE readers[q]
      /\ \A q \in Requests : writers'[q] = IF q = r THEN writers[q] \ {"child"} ELSE writers[q]
      /\ child' \in [Requests -> Phases]
      /\ status' \in [Requests -> {"none", "zero", "one", "killed"}]
      /\ readers' \in [Requests -> SUBSET {"server", "child"}]
      /\ writers' \in [Requests -> SUBSET {"server", "child"}]
      /\ \A q \in Requests : TimedOut(q) => TimedOut(q)'
      /\ UNCHANGED <<fault, script, pc, cur, result, client, answers, written, pipe>>
  <2>1. TypeOK /\ Dies(r, script[r].ends) /\ script[r].ends \in {"zero", "one", "killed"}
    BY DEF IInv, ScriptEnds, TypeOK
  <2>2. /\ child[r] = "script" /\ written[r] = script[r].output /\ script[r].ends \in {"zero", "one"}
        /\ UNCHANGED <<fault, script, pc, cur, result, client, answers, written, pipe>>
    BY DEF IInv, TypeOK, ScriptEnds, server, clients, pipes
  <2>3. \A q \in Requests : TimedOut(q) => TimedOut(q)'
    BY <2>2 DEF TimedOut
  <2>4. CASE script[r].ends = "zero"
    <3>1. Dies(r, "zero")  BY <2>1, <2>4
    <3>2. /\ child' \in [Requests -> Phases]
          /\ status' \in [Requests -> {"none", "zero", "one", "killed"}]
          /\ readers' \in [Requests -> SUBSET {"server", "child"}]
          /\ writers' \in [Requests -> SUBSET {"server", "child"}]
          /\ \A q \in Requests : child'[q] = IF q = r THEN "zombie" ELSE child[q]
          /\ \A q \in Requests : status'[q] = IF q = r THEN "zero" ELSE status[q]
          /\ \A q \in Requests :
                  readers'[q] = IF q = r THEN readers[q] \ {"child"} ELSE readers[q]
          /\ \A q \in Requests :
                  writers'[q] = IF q = r THEN writers[q] \ {"child"} ELSE writers[q]
      BY <2>1, <3>1, DiesProperties
    <3> QED  BY <2>2, <2>3, <2>4, <3>2
  <2>5. CASE script[r].ends = "one"
    <3>1. Dies(r, "one")  BY <2>1, <2>5
    <3>2. /\ child' \in [Requests -> Phases]
          /\ status' \in [Requests -> {"none", "zero", "one", "killed"}]
          /\ readers' \in [Requests -> SUBSET {"server", "child"}]
          /\ writers' \in [Requests -> SUBSET {"server", "child"}]
          /\ \A q \in Requests : child'[q] = IF q = r THEN "zombie" ELSE child[q]
          /\ \A q \in Requests : status'[q] = IF q = r THEN "one" ELSE status[q]
          /\ \A q \in Requests :
                  readers'[q] = IF q = r THEN readers[q] \ {"child"} ELSE readers[q]
          /\ \A q \in Requests :
                  writers'[q] = IF q = r THEN writers[q] \ {"child"} ELSE writers[q]
      BY <2>1, <3>1, DiesProperties
    <3> QED  BY <2>2, <2>3, <2>5, <3>2
  <2> QED  BY <2>2, <2>4, <2>5
<1>1. TypeOK'  BY <1>0 DEF IInv, TypeOK, Phases, Alive, Holding
<1>2. OfRequest(r) /\ child[r] \in Alive  BY <1>0 DEF IInv, Alive, Holding
<1>3. ParentInv'
  BY <1>0, <1>2 DEF IInv, ParentInv, CurrentRequest, OutputConserved, ParentKnows,
     KillsItsChild
<1>4. ASSUME NEW q \in Requests, q # r  PROVE OfRequest(q)'
  <2>1. Same(q) /\ (InHand(q) => InHand(q)')  BY <1>0, <1>4 DEF Same, InHand
  <2> QED  BY <1>4, <2>1, OtherRequest DEF IInv
<1>5. OfRequest(r)'
  <2>1. InHand(r) => InHand(r)'  BY <1>0 DEF InHand
  <2>2. status[r] = "none" /\ child[r] # "none"  BY <1>2 DEF OfRequest, Alive, Holding, Ended
  <2>3. Truthful(r)'
    <3>1. CASE answers[r] = <<>>  BY <1>0, <3>1 DEF Truthful
    <3>2. CASE answers[r] # <<>>  BY <1>0, <1>2, <2>2, <3>2, StaysTruthful DEF OfRequest
    <3> QED  BY <3>1, <3>2
  <2> HIDE DEF InHand
  <2> QED  BY <1>0, <1>2, <2>1, <2>2, <2>3 DEF OfRequest, Untouched, Leftover, Alive, Holding, Ended
<1> QED  BY <1>1, <1>3, <1>4, <1>5 DEF IInv

(* A client leaves.                                                        *)
LEMMA ClientLeavesInvariant == ASSUME IInv, NEW r \in Requests, ClientLeaves(r) PROVE IInv'
<1>0. /\ \A q \in Requests : TimedOut(q) => TimedOut(q)'
      /\ UNCHANGED <<fault, script, pc, cur, result, answers, child, status,
                     written, pipe, readers, writers>>
  BY DEF TimedOut, ClientLeaves, server, clients, children, pipes
<1>1. TypeOK'
  BY <1>0 DEF IInv, TypeOK, Phases, Alive, Holding, ClientLeaves, server, clients, children,
     pipes
<1>2. ParentInv'
  BY <1>0 DEF IInv, ParentInv, CurrentRequest, OutputConserved, ParentKnows, KillsItsChild
<1>3. ASSUME NEW q \in Requests  PROVE OfRequest(q)'
  <2>1. Same(q) /\ (InHand(q) => InHand(q)')  BY <1>0 DEF Same, InHand
  <2> QED  BY <1>3, <2>1, OtherRequest DEF IInv
<1> QED  BY <1>1, <1>2, <1>3 DEF IInv

----------------------------------------------------------------------------
(* Steps that send a response preserve the invariant                       *)

(* pipe() fails: 500 is answered.                                          *)
LEMMA PipeFailsInvariant == ASSUME IInv, NEW r \in Requests, PipeFails(r) PROVE IInv'
<1>0. /\ pc = "idle" /\ answers[r] = <<>> /\ Sent(r, 500, 0)
      /\ cur' = r /\ result' = 0 /\ pc' = "caller"
      /\ UNCHANGED <<fault, script, child, status, written, pipe, readers, writers>>
  <2>1. TypeOK /\ Send(r, 500, 0)  BY DEF IInv, PipeFails
  <2>2. Sent(r, 500, 0)  BY <2>1, SendProperties
  <2> QED  BY <2>2 DEF PipeFails, Begin, children, pipes
<1>sent. /\ answers' \in [Requests -> Seq(Response)]
         /\ client' \in [Requests -> {"there", "left", "reset"}]
         /\ answers'[r] # <<>>
         /\ \A q \in Requests \ {r} : answers'[q] = answers[q]
         /\ \A q \in Requests : answers[q] # <<>> => Head(answers'[q]) = Head(answers[q])
         /\ \A q \in Requests : TimedOut(q) => TimedOut(q)'
  BY <1>0 DEF Sent
<1>1. TypeOK'  BY <1>0, <1>sent DEF IInv, TypeOK, Response
<1>2. OfRequest(r) /\ Untouched(r)  BY <1>0 DEF IInv, OfRequest, InHand
<1>3. ParentInv'
  BY <1>0, <1>sent DEF ParentInv, CurrentRequest, OutputConserved, ParentKnows,
     KillsItsChild
<1>4. ASSUME NEW q \in Requests, q # r  PROVE OfRequest(q)'
  <2>1. Same(q) /\ ~InHand(q)  BY <1>0, <1>sent, <1>4 DEF Same, InHand
  <2> QED  BY <1>4, <2>1, OtherRequest DEF IInv
<1>5. OfRequest(r)'
  <2>1. Truthful(r)'
    <3>1. Head(answers'[r]).code = 500  BY <1>0 DEF Sent
    <3> QED  BY <1>0, <1>2, <3>1 DEF Truthful, Untouched
  <2>2. ~Leftover(r)'  BY <1>0, <1>2 DEF Untouched, Leftover, Alive, Holding
  <2> QED  BY <1>0, <1>sent, <1>2, <2>1, <2>2 DEF OfRequest, Untouched
<1> QED  BY <1>1, <1>3, <1>4, <1>5 DEF IInv

(* Ten seconds without output: 408 is answered.                            *)
LEMMA PollTimesOutInvariant == ASSUME IInv, PollTimesOut PROVE IInv'
<1>0. /\ pc = "poll" /\ cur \in Requests /\ writers[cur] # {} /\ Sent(cur, 408, 0) /\ pc' = "kill"
      /\ UNCHANGED <<fault, script, cur, result, child, status,
                     written, pipe, readers, writers>>
  <2>1. TypeOK /\ cur \in Requests /\ Send(cur, 408, 0)
    BY DEF IInv, ParentInv, CurrentRequest, PollTimesOut
  <2>2. Sent(cur, 408, 0)  BY <2>1, SendProperties
  <2> QED  BY <2>1, <2>2 DEF PollTimesOut, PipeReady, children, pipes
<1>sent. /\ answers' \in [Requests -> Seq(Response)]
         /\ client' \in [Requests -> {"there", "left", "reset"}]
         /\ answers'[cur] # <<>>
         /\ \A q \in Requests \ {cur} : answers'[q] = answers[q]
         /\ \A q \in Requests : answers[q] # <<>> => Head(answers'[q]) = Head(answers[q])
         /\ \A q \in Requests : TimedOut(q) => TimedOut(q)'
         /\ TimedOut(cur)'
  BY <1>0 DEF Sent
<1>1. TypeOK'  BY <1>0, <1>sent DEF IInv, TypeOK, Response
<1>2. OfRequest(cur)  BY <1>0 DEF IInv
<1>3. child[cur] \in Alive
  <2>1. writers[cur] \subseteq {"server", "child"}  BY <1>0 DEF IInv, TypeOK
  <2>2. "server" \notin writers[cur]  BY <1>0 DEF IInv, ParentInv, ParentKnows
  <2> QED  BY <1>0, <1>2, <2>1, <2>2 DEF OfRequest, Holding, Alive
<1>4. ParentInv'
  BY <1>0, <1>sent, <1>3 DEF ParentInv, CurrentRequest, OutputConserved,
     ParentKnows, KillsItsChild
<1>5. ASSUME NEW q \in Requests, q # cur  PROVE OfRequest(q)'
  <2>1. Same(q) /\ ~InHand(q)  BY <1>0, <1>sent, <1>5 DEF Same, InHand
  <2> QED  BY <1>5, <2>1, OtherRequest DEF IInv
<1>6. OfRequest(cur)'
  <2>1. Truthful(cur)'
    <3>1. CASE answers[cur] = <<>>
      <4>1. Head(answers'[cur]).code = 408  BY <1>0, <3>1 DEF Sent
      <4> QED  BY <1>0, <4>1 DEF Truthful
    <3>2. CASE answers[cur] # <<>>
      <4>1. UNCHANGED <<fault, script, child, status, cur>>  BY <1>0
      <4>2. Head(answers'[cur]) = Head(answers[cur])  BY <1>0, <1>sent, <3>2
      <4>3. Truthful(cur)  BY <1>2 DEF OfRequest
      <4> QED  BY <3>2, <4>1, <4>2, <4>3 DEF Truthful
    <3> QED  BY <3>1, <3>2
  <2>2. "server" \notin writers[cur]  BY <1>0 DEF IInv, ParentInv, ParentKnows
  <2> QED  BY <1>0, <1>sent, <1>2, <2>1, <2>2 DEF OfRequest
<1> QED  BY <1>0, <1>1, <1>4, <1>5, <1>6 DEF IInv

(* poll() fails: 500 is answered and nothing else is done.                 *)
LEMMA PollFailsInvariant == ASSUME IInv, PollFails PROVE IInv'
<1>0. /\ pc = "poll" /\ fault = "poll" /\ Sent(cur, 500, 0) /\ pc' = "caller"
      /\ UNCHANGED <<fault, script, cur, result, child, status,
                     written, pipe, readers, writers>>
  <2>1. TypeOK /\ cur \in Requests /\ Send(cur, 500, 0)
    BY DEF IInv, ParentInv, CurrentRequest, PollFails
  <2>2. Sent(cur, 500, 0)  BY <2>1, SendProperties
  <2> QED  BY <2>2 DEF PollFails, children, pipes
<1>sent. /\ answers' \in [Requests -> Seq(Response)]
         /\ client' \in [Requests -> {"there", "left", "reset"}]
         /\ answers'[cur] # <<>>
         /\ \A q \in Requests \ {cur} : answers'[q] = answers[q]
         /\ \A q \in Requests : answers[q] # <<>> => Head(answers'[q]) = Head(answers[q])
         /\ \A q \in Requests : TimedOut(q) => TimedOut(q)'
  BY <1>0 DEF Sent
<1>1. TypeOK'  BY <1>0, <1>sent DEF IInv, TypeOK, Response
<1>2. cur \in Requests /\ OfRequest(cur) /\ "server" \notin writers[cur]
  BY <1>0 DEF IInv, ParentInv, CurrentRequest, ParentKnows
<1>3. ParentInv'
  BY <1>0, <1>sent, <1>2 DEF ParentInv, CurrentRequest, OutputConserved,
     ParentKnows, KillsItsChild
<1>4. ASSUME NEW q \in Requests, q # cur  PROVE OfRequest(q)'
  <2>1. Same(q) /\ ~InHand(q)  BY <1>0, <1>sent, <1>4 DEF Same, InHand
  <2> QED  BY <1>4, <2>1, OtherRequest DEF IInv
<1>5. OfRequest(cur)'
  <2>1. Truthful(cur)'
    <3>1. CASE answers[cur] = <<>>
      <4>1. Head(answers'[cur]).code = 500  BY <1>0, <1>2, <3>1 DEF Sent
      <4> QED  BY <1>0, <4>1 DEF Truthful
    <3>2. CASE answers[cur] # <<>>
      <4>1. UNCHANGED <<fault, script, child, status, cur>>  BY <1>0
      <4>2. Head(answers'[cur]) = Head(answers[cur])  BY <1>2, <1>sent, <3>2
      <4>3. Truthful(cur)  BY <1>2 DEF OfRequest
      <4> QED  BY <3>2, <4>1, <4>2, <4>3 DEF Truthful
    <3> QED  BY <3>1, <3>2
  <2> QED  BY <1>0, <1>sent, <1>2, <2>1 DEF OfRequest
<1> QED  BY <1>0, <1>1, <1>3, <1>4, <1>5 DEF IInv

(* waitpid() returns a child and its exit status is answered.              *)
LEMMA WaitInvariant == ASSUME IInv, NEW r \in Requests, Wait(r) PROVE IInv'
<1>0. /\ pc = "wait" /\ cur \in Requests /\ child[r] = "zombie" /\ pc' = "caller"
      /\ (r = cur \/ child[cur] = "none")
      /\ (IF status[r] = "zero" THEN Sent(cur, 200, result) ELSE Sent(cur, 500, 0))
      /\ child' \in [Requests -> Phases]
      /\ \A q \in Requests : child'[q] = IF q = r THEN "reaped" ELSE child[q]
      /\ UNCHANGED <<fault, script, cur, result, status, written, pipe, readers, writers>>
  <2>1. TypeOK /\ cur \in Requests /\ result \in Nat
    BY DEF IInv, ParentInv, CurrentRequest, TypeOK, Wait
  <2>2. ASSUME status[r] = "zero"  PROVE Sent(cur, 200, result)
    <3>1. Send(cur, 200, result)  BY <2>2 DEF Wait, Exited
    <3> QED  BY <2>1, <3>1, SendProperties
  <2>3. ASSUME status[r] # "zero"  PROVE Sent(cur, 500, 0)
    <3>1. Send(cur, 500, 0)  BY <2>3 DEF Wait, Exited
    <3> QED  BY <2>1, <3>1, SendProperties
  <2>4. child \in [Requests -> Phases] /\ "reaped" \in Phases  BY <2>1 DEF TypeOK, Phases
  <2>5. /\ child' \in [Requests -> Phases]
        /\ \A q \in Requests : child'[q] = IF q = r THEN "reaped" ELSE child[q]
    BY <2>4 DEF Wait
  <2>6. r = cur \/ child[cur] = "none"  BY DEF Wait, Awaited
  <2> QED  BY <2>1, <2>2, <2>3, <2>5, <2>6 DEF Wait, pipes
<1>sent. /\ answers' \in [Requests -> Seq(Response)]
         /\ client' \in [Requests -> {"there", "left", "reset"}]
         /\ answers'[cur] # <<>>
         /\ \A q \in Requests \ {cur} : answers'[q] = answers[q]
         /\ \A q \in Requests : answers[q] # <<>> => Head(answers'[q]) = Head(answers[q])
         /\ \A q \in Requests : TimedOut(q) => TimedOut(q)'
  BY <1>0 DEF Sent
<1>1. TypeOK'  BY <1>0, <1>sent DEF IInv, TypeOK, Response
<1>2. OfRequest(cur) /\ OfRequest(r)  BY <1>0 DEF IInv
<1>3. child[cur] # "reaped" /\ "server" \notin readers[cur] /\ writers[cur] = {} /\ pipe[cur] = 0
  BY <1>0 DEF IInv, ParentInv, ParentKnows
<1>4. r # cur => fault = "fork" /\ child[cur] = "none"
  BY <1>0 DEF IInv, ParentInv, ParentKnows
<1>5. ParentInv'
  BY <1>0, <1>sent DEF ParentInv, CurrentRequest, OutputConserved, ParentKnows,
     KillsItsChild
<1>6. ASSUME NEW q \in Requests, q # cur  PROVE OfRequest(q)'
  <2>1. CASE q # r
    <3>1. Same(q) /\ ~InHand(q)  BY <1>0, <1>sent, <1>6, <2>1 DEF Same, InHand
    <3> QED  BY <1>6, <3>1, OtherRequest DEF IInv
  <2>2. CASE q = r
    <3>1. fault = "fork" /\ answers'[q] = answers[q] /\ ~InHand(q)
      BY <1>0, <1>sent, <1>4, <1>6, <2>2 DEF InHand
    <3>2. Truthful(q)'  BY <1>0, <3>1 DEF Truthful
    <3>3. (TimedOut(q) => TimedOut(q)') /\ (Leftover(q)' => Leftover(q)) /\ child[q] # "none"
      BY <1>0, <3>1, <2>2 DEF TimedOut, Leftover, Alive, Holding
    <3> QED  BY <1>0, <1>2, <2>2, <3>1, <3>2, <3>3 DEF OfRequest, Untouched, Alive, Holding, Ended
  <2> QED  BY <2>1, <2>2
<1>7. Truthful(cur)'
  <2>1. CASE answers[cur] # <<>>
    BY <1>0, <1>sent, <1>2, <2>1, StaysTruthful DEF OfRequest
  <2>2. CASE answers[cur] = <<>> /\ fault # "fork"
    <3>1. r = cur  BY <1>4, <2>2
    <3>2. CASE status[r] = "zero"
      <4>1. Head(answers'[cur]).body = result  BY <1>0, <2>2, <3>2 DEF Sent
      <4>2. fault \notin SetupFaults /\ written[cur] = script[cur].output
        BY <1>2, <3>1, <3>2 DEF OfRequest
      <4>3. Came(script[cur], written[cur] - pipe[cur], result)
        BY <1>0, <4>2 DEF IInv, ParentInv, OutputConserved
      <4>4. Came(script[cur], script[cur].output, result)
        <5>1. written[cur] - pipe[cur] = written[cur]  BY <1>0, <1>3 DEF IInv, TypeOK
        <5> QED  BY <4>2, <4>3, <5>1
      <4>5. Head(answers'[cur]).code = 200  BY <1>0, <2>2, <3>2 DEF Sent
      <4> QED  BY <1>0, <3>1, <3>2, <4>1, <4>4, <4>5 DEF Truthful
    <3>3. CASE status[r] # "zero"
      <4>1. Head(answers'[cur]).code = 500  BY <1>0, <2>2, <3>3 DEF Sent
      <4>2. status[r] # "none" /\ (fault = "none" => status[r] # "killed")
        BY <1>0, <1>2, <2>2, <3>1 DEF OfRequest, Ended
      <4>3. fault = "none" => status[r] = "one"  BY <3>3, <4>2 DEF IInv, TypeOK
      <4> QED  BY <1>0, <3>1, <4>1, <4>3 DEF Truthful
    <3> QED  BY <3>2, <3>3
  <2>3. CASE fault = "fork"  BY <1>0, <2>3 DEF Truthful
  <2> QED  BY <2>1, <2>2, <2>3
<1>8. OfRequest(cur)'
  <2>1. ~Leftover(cur)'
    <3>1. r = cur \/ child[cur] = "none"  BY <1>0
    <3> QED  BY <1>0, <1>3, <3>1 DEF Leftover, Alive, Holding
  <2> QED  BY <1>0, <1>sent, <1>2, <1>3, <1>7, <2>1 DEF OfRequest, Alive, Holding, Ended
<1> QED  BY <1>0, <1>1, <1>5, <1>6, <1>8 DEF IInv

(* waitpid() finds no child at all.                                        *)
LEMMA WaitFailsInvariant == ASSUME IInv, WaitFails PROVE IInv'
<1>0. /\ pc = "wait" /\ cur \in Requests /\ fault = "fork" /\ child[cur] = "none" /\ pc' = "caller"
      /\ (Sent(cur, 200, result) \/ Sent(cur, 500, 0))
      /\ UNCHANGED <<fault, script, cur, result, child, status,
                     written, pipe, readers, writers>>
  <2>1. TypeOK /\ cur \in Requests /\ result \in Nat
    BY DEF IInv, ParentInv, CurrentRequest, TypeOK, WaitFails
  <2>2. child[cur] = "none" /\ fault = "fork"
    BY <2>1 DEF WaitFails, Awaited, IInv, ParentInv, ParentKnows, TypeOK, Phases, Alive, Holding
  <2>3. Send(cur, 200, result) \/ Send(cur, 500, 0)  BY DEF WaitFails, Exited
  <2>4. Sent(cur, 200, result) \/ Sent(cur, 500, 0)  BY <2>1, <2>3, SendProperties
  <2> QED  BY <2>1, <2>2, <2>4 DEF WaitFails, children, pipes
<1>sent. /\ answers' \in [Requests -> Seq(Response)]
         /\ client' \in [Requests -> {"there", "left", "reset"}]
         /\ answers'[cur] # <<>>
         /\ \A q \in Requests \ {cur} : answers'[q] = answers[q]
         /\ \A q \in Requests : answers[q] # <<>> => Head(answers'[q]) = Head(answers[q])
         /\ \A q \in Requests : TimedOut(q) => TimedOut(q)'
  BY <1>0 DEF Sent
<1>1. TypeOK'  BY <1>0, <1>sent DEF IInv, TypeOK, Response
<1>2. OfRequest(cur)  BY <1>0 DEF IInv
<1>3. "server" \notin readers[cur] /\ writers[cur] = {}
  BY <1>0 DEF IInv, ParentInv, ParentKnows
<1>4. ParentInv'
  BY <1>0, <1>sent DEF ParentInv, CurrentRequest, OutputConserved, ParentKnows,
     KillsItsChild
<1>5. ASSUME NEW q \in Requests, q # cur  PROVE OfRequest(q)'
  <2>1. Same(q) /\ ~InHand(q)  BY <1>0, <1>sent, <1>5 DEF Same, InHand
  <2> QED  BY <1>5, <2>1, OtherRequest DEF IInv
<1>6. OfRequest(cur)'
  <2>1. ~Leftover(cur)'  BY <1>0, <1>3 DEF Leftover, Alive, Holding
  <2>2. Truthful(cur)'  BY <1>0 DEF Truthful
  <2> QED  BY <1>0, <1>sent, <1>2, <1>3, <2>1, <2>2 DEF OfRequest
<1> QED  BY <1>0, <1>1, <1>4, <1>5, <1>6 DEF IInv

(* The caller of handleCGI() answers once more.                            *)
LEMMA CallerInvariant == ASSUME IInv, Caller PROVE IInv'
<1>0. /\ pc = "caller" /\ cur \in Requests /\ answers[cur] # <<>>
      /\ pc' = "idle" /\ cur' = NoRequest
      /\ (Sent(cur, 200, 0) \/ Sent(cur, 201, 0))
      /\ UNCHANGED <<fault, script, result, child, status, written, pipe, readers, writers>>
  <2>1. TypeOK /\ cur \in Requests /\ answers[cur] # <<>>
    BY DEF IInv, ParentInv, CurrentRequest, ParentKnows, Caller
  <2>2. Send(cur, 200, 0) \/ Send(cur, 201, 0)  BY DEF Caller, Final
  <2>3. Sent(cur, 200, 0) \/ Sent(cur, 201, 0)  BY <2>1, <2>2, SendProperties
  <2> QED  BY <2>1, <2>3 DEF Caller, children, pipes
<1>sent. /\ answers' \in [Requests -> Seq(Response)]
         /\ client' \in [Requests -> {"there", "left", "reset"}]
         /\ answers'[cur] # <<>>
         /\ \A q \in Requests \ {cur} : answers'[q] = answers[q]
         /\ \A q \in Requests : answers[q] # <<>> => Head(answers'[q]) = Head(answers[q])
         /\ \A q \in Requests : TimedOut(q) => TimedOut(q)'
  BY <1>0 DEF Sent
<1>1. TypeOK'  BY <1>0, <1>sent DEF IInv, TypeOK, Response
<1>2. OfRequest(cur)  BY <1>0 DEF IInv
<1>3. ParentInv'
  BY <1>0 DEF ParentInv, CurrentRequest, OutputConserved, ParentKnows, KillsItsChild
<1>4. ASSUME NEW q \in Requests  PROVE OfRequest(q)' \/ q = cur
  <2>1. q # cur => Same(q) /\ ~InHand(q)  BY <1>0, <1>sent, <1>4 DEF Same, InHand
  <2> QED  BY <1>4, <2>1, OtherRequest DEF IInv
<1>5. \A q \in Requests : q = cur => OfRequest(q)'
  <2> SUFFICES ASSUME NEW q \in Requests, q = cur  PROVE OfRequest(q)'
    OBVIOUS
  <2>1. ~InHand(q)  BY <1>0 DEF InHand
  <2>2. Truthful(q)'  BY <1>0, <1>sent, <1>2, StaysTruthful DEF OfRequest
  <2>3. (Leftover(q)' => Leftover(q)) /\ (TimedOut(q) => TimedOut(q)')
    BY <1>0, <1>sent DEF Leftover
  <2>4. answers'[q] # <<>>  BY <1>sent
  <2> QED  BY <1>0, <1>2, <2>1, <2>2, <2>3, <2>4 DEF OfRequest
<1> QED  BY <1>1, <1>3, <1>4, <1>5 DEF IInv

(* The path is too short, and the child starts the server again.           *)
LEMMA ChildThrowsInvariant == ASSUME IInv, NEW r \in Requests, ChildThrows(r) PROVE IInv'
<1>0. /\ child[r] = "setup" /\ fault \in SetupFaults /\ fault \notin {"none", "fork"}
      /\ child' \in [Requests -> Phases]
      /\ \A q \in Requests : child'[q] = IF q = r THEN "server" ELSE child[q]
      /\ \A q \in Requests : TimedOut(q) => TimedOut(q)'
      /\ UNCHANGED <<fault, script, pc, cur, result, client, answers, status, written,
                     pipe, readers, writers>>
  <2>1. /\ child' \in [Requests -> Phases]
        /\ \A q \in Requests : child'[q] = IF q = r THEN "server" ELSE child[q]
    BY DEF IInv, TypeOK, ChildThrows, Phases
  <2>2. UNCHANGED <<fault, script, pc, cur, result, client, answers, status, written,
                    pipe, readers, writers>>
    BY DEF ChildThrows, server, clients, pipes
  <2>3. \A q \in Requests : TimedOut(q) => TimedOut(q)'  BY <2>2 DEF TimedOut
  <2> QED  BY <2>1, <2>2, <2>3 DEF ChildThrows, SetupFaults
<1>1. TypeOK'  BY <1>0 DEF IInv, TypeOK
<1>2. OfRequest(r)  BY DEF IInv
<1>3. ParentInv'
  <2>1. pc # "fork" \/ cur # r  BY <1>0 DEF IInv, ParentInv, ParentKnows
  <2>2. pc # "idle" => cur \in Requests  BY DEF IInv, ParentInv, CurrentRequest
  <2> QED
    BY <1>0, <2>1, <2>2 DEF IInv, ParentInv, CurrentRequest, OutputConserved, ParentKnows,
       KillsItsChild, Alive
<1>4. ASSUME NEW q \in Requests, q # r  PROVE OfRequest(q)'
  <2>1. Same(q) /\ (InHand(q) => InHand(q)')  BY <1>0, <1>4 DEF Same, InHand
  <2> QED  BY <1>4, <2>1, OtherRequest DEF IInv
<1>5. OfRequest(r)'
  <2>1. InHand(r) => InHand(r)'  BY <1>0 DEF InHand
  <2>2. Truthful(r)'
    <3>1. CASE answers[r] = <<>>  BY <1>0, <3>1 DEF Truthful
    <3>2. CASE answers[r] # <<>>
      <4>1. child[r] # "none"  BY <1>0
      <4> QED  BY <1>0, <1>2, <3>2, <4>1, StaysTruthful DEF OfRequest
    <3> QED  BY <3>1, <3>2
  <2>3. Leftover(r) /\ child'[r] = "server" /\ child[r] = "setup"  BY <1>0 DEF Leftover, Alive
  <2>4. ~Untouched(r)  BY <2>3 DEF Untouched
  <2> HIDE DEF InHand
  <2> QED  BY <1>0, <1>2, <2>1, <2>2, <2>3, <2>4 DEF OfRequest, Holding, Ended
<1> QED  BY <1>1, <1>3, <1>4, <1>5 DEF IInv

(* A system call fails in the child, which answers itself.                 *)
LEMMA ChildFailsInvariant == ASSUME IInv, NEW r \in Requests, ChildFails(r) PROVE IInv'
<1>0. /\ child[r] = "setup" /\ fault \in SetupFaults /\ Sent(r, 500, 0)
      /\ child' \in [Requests -> Phases]
      /\ readers' \in [Requests -> SUBSET {"server", "child"}]
      /\ \A q \in Requests : child'[q] = IF q = r THEN "failed" ELSE child[q]
      /\ \A q \in Requests : q # r => readers'[q] = readers[q]
      /\ \A q \in Requests : "server" \in readers'[q] => "server" \in readers[q]
      /\ UNCHANGED <<fault, script, pc, cur, result, status, written, pipe, writers>>
  <2>1. TypeOK /\ Send(r, 500, 0)  BY DEF IInv, ChildFails
  <2>2. Sent(r, 500, 0)  BY <2>1, SendProperties
  <2>3. readers \in [Requests -> SUBSET {"server", "child"}]  BY <2>1 DEF TypeOK
  <2>4. /\ readers' \in [Requests -> SUBSET {"server", "child"}]
        /\ \A q \in Requests : q # r => readers'[q] = readers[q]
        /\ \A q \in Requests : "server" \in readers'[q] => "server" \in readers[q]
    <3>1. CASE readers' = readers  BY <2>3, <3>1
    <3>2. CASE readers' = Without(readers, r)
      <4>1. /\ Without(readers, r) \in [Requests -> SUBSET {"server", "child"}]
            /\ \A q \in Requests :
                 Without(readers, r)[q] = IF q = r THEN readers[q] \ {"child"} ELSE readers[q]
        BY <2>3, WithoutProperties
      <4> QED  BY <3>2, <4>1
    <3> QED  BY <3>1, <3>2 DEF ChildFails
  <2>5. /\ child' \in [Requests -> Phases]
        /\ \A q \in Requests : child'[q] = IF q = r THEN "failed" ELSE child[q]
    BY <2>1 DEF ChildFails, TypeOK, Phases
  <2> QED  BY <2>2, <2>4, <2>5 DEF ChildFails, SetupFaults, server
<1>sent. /\ answers' \in [Requests -> Seq(Response)]
         /\ client' \in [Requests -> {"there", "left", "reset"}]
         /\ answers'[r] # <<>>
         /\ \A q \in Requests \ {r} : answers'[q] = answers[q]
         /\ \A q \in Requests : answers[q] # <<>> => Head(answers'[q]) = Head(answers[q])
         /\ \A q \in Requests : TimedOut(q) => TimedOut(q)'
  BY <1>0 DEF Sent
<1>1. TypeOK'
  <2>1. UNCHANGED <<fault, script, pc, cur, result, status, written, pipe, writers>>  BY <1>0
  <2>2. child' \in [Requests -> Phases] /\ readers' \in [Requests -> SUBSET {"server", "child"}]
    BY <1>0
  <2> QED  BY <1>sent, <2>1, <2>2 DEF IInv, TypeOK, Response
<1>2. OfRequest(r)  BY DEF IInv
<1>3. ParentInv'
  <2>1. pc # "fork" \/ cur # r  BY <1>0 DEF IInv, ParentInv, ParentKnows
  <2>2. pc # "idle" => cur \in Requests  BY DEF IInv, ParentInv, CurrentRequest
  <2> QED
    BY <1>0, <1>sent, <2>1, <2>2 DEF IInv, ParentInv, CurrentRequest,
       OutputConserved, ParentKnows,
       KillsItsChild, Alive, Holding
<1>4. ASSUME NEW q \in Requests, q # r  PROVE OfRequest(q)'
  <2>1. Same(q) /\ (InHand(q) => InHand(q)')  BY <1>0, <1>sent, <1>4 DEF Same, InHand
  <2> QED  BY <1>4, <2>1, OtherRequest DEF IInv
<1>5. OfRequest(r)'
  <2>1. InHand(r) => InHand(r)'  BY <1>0 DEF InHand
  <2>2. Truthful(r)'
    <3>1. fault \notin {"none", "fork"}  BY <1>0 DEF SetupFaults
    <3>2. CASE answers[r] = <<>>
      <4>1. Head(answers'[r]).code = 500  BY <1>0, <3>2 DEF Sent
      <4> QED  BY <1>0, <3>1, <4>1 DEF Truthful
    <3>3. CASE answers[r] # <<>>
      <4>1. child[r] # "none"  BY <1>0
      <4> QED  BY <1>0, <1>sent, <1>2, <3>3, <4>1, StaysTruthful DEF OfRequest
    <3> QED  BY <3>2, <3>3
  <2>3. Leftover(r) /\ child'[r] = "failed" /\ child[r] = "setup"  BY <1>0 DEF Leftover, Alive, Holding
  <2>4. answers'[r] # <<>> /\ (TimedOut(r) => TimedOut(r)')  BY <1>sent
  <2>5. UNCHANGED <<fault, script, status, written, writers>> /\ fault \in SetupFaults  BY <1>0
  <2> HIDE DEF InHand
  <2> QED  BY <1>2, <2>1, <2>2, <2>3, <2>4, <2>5 DEF OfRequest, Alive, Holding, Ended
<1> QED  BY <1>1, <1>3, <1>4, <1>5 DEF IInv

(* The child answers as its parent would, and goes on as a server.         *)
LEMMA ChildReturnsInvariant == ASSUME IInv, NEW r \in Requests, ChildReturns(r) PROVE IInv'
<1>0. /\ child[r] = "failed" /\ answers[r] # <<>> /\ fault \in SetupFaults
      /\ (Sent(r, 200, 0) \/ Sent(r, 201, 0))
      /\ child' \in [Requests -> Phases]
      /\ pipe' \in [Requests -> 0..Capacity]
      /\ \A q \in Requests : child'[q] = IF q = r THEN "server" ELSE child[q]
      /\ \A q \in Requests : q # r => pipe'[q] = pipe[q]
      /\ UNCHANGED <<fault, script, pc, cur, result, status, written, readers, writers>>
  <2>1. TypeOK /\ child[r] = "failed" /\ answers[r] # <<>> /\ fault \in SetupFaults
    BY DEF IInv, OfRequest, ChildReturns
  <2>2. Send(r, 200, 0) \/ Send(r, 201, 0)  BY DEF ChildReturns, Final
  <2>3. Sent(r, 200, 0) \/ Sent(r, 201, 0)  BY <2>1, <2>2, SendProperties
  <2>4. /\ child' \in [Requests -> Phases]
        /\ \A q \in Requests : child'[q] = IF q = r THEN "server" ELSE child[q]
    BY <2>1 DEF ChildReturns, TypeOK, Phases
  <2>5. /\ pipe' \in [Requests -> 0..Capacity]
        /\ \A q \in Requests : q # r => pipe'[q] = pipe[q]
    <3>1. CASE fault = "exec"
      <4>1. pipe' = [pipe EXCEPT ![r] = pipe[r] + 1] /\ pipe[r] + 1 \in 0..Capacity
        BY <2>1, <3>1 DEF ChildReturns, TypeOK
      <4> QED  BY <2>1, <4>1 DEF TypeOK
    <3>2. CASE fault # "exec"  BY <2>1, <3>2 DEF ChildReturns, TypeOK
    <3> QED  BY <3>1, <3>2
  <2> QED  BY <2>1, <2>3, <2>4, <2>5 DEF ChildReturns, server
<1>sent. /\ answers' \in [Requests -> Seq(Response)]
         /\ client' \in [Requests -> {"there", "left", "reset"}]
         /\ answers'[r] # <<>>
         /\ \A q \in Requests \ {r} : answers'[q] = answers[q]
         /\ \A q \in Requests : answers[q] # <<>> => Head(answers'[q]) = Head(answers[q])
         /\ \A q \in Requests : TimedOut(q) => TimedOut(q)'
  BY <1>0 DEF Sent
<1>1. TypeOK'  BY <1>0, <1>sent DEF IInv, TypeOK, Response
<1>2. OfRequest(r)  BY DEF IInv
<1>3. ParentInv'
  <2>1. cur = r => pc \notin {"fork", "wait"}
    BY <1>0, <1>2 DEF IInv, ParentInv, ParentKnows, OfRequest, Alive, Holding
  <2>2. pc # "idle" => cur \in Requests  BY DEF IInv, ParentInv, CurrentRequest
  <2> QED
    BY <1>0, <1>sent, <2>1, <2>2 DEF IInv, ParentInv, CurrentRequest,
       OutputConserved, ParentKnows,
       KillsItsChild, Alive, Holding
<1>4. ASSUME NEW q \in Requests, q # r  PROVE OfRequest(q)'
  <2>1. Same(q) /\ (InHand(q) => InHand(q)')  BY <1>0, <1>sent, <1>4 DEF Same, InHand
  <2> QED  BY <1>4, <2>1, OtherRequest DEF IInv
<1>5. OfRequest(r)'
  <2>1. InHand(r) => InHand(r)'  BY <1>0 DEF InHand
  <2>2. Truthful(r)'
    <3>1. child[r] # "none"  BY <1>0
    <3> QED  BY <1>0, <1>sent, <1>2, <3>1, StaysTruthful DEF OfRequest
  <2>3. Leftover(r) /\ child'[r] = "server" /\ child[r] = "failed"  BY <1>0 DEF Leftover, Alive, Holding
  <2>4. answers'[r] # <<>> /\ (TimedOut(r) => TimedOut(r)')  BY <1>sent
  <2>5. UNCHANGED <<fault, script, status, written, writers>> /\ fault \in SetupFaults  BY <1>0
  <2> HIDE DEF InHand
  <2> QED  BY <1>2, <2>1, <2>2, <2>3, <2>4, <2>5 DEF OfRequest, Alive, Holding, Ended
<1> QED  BY <1>1, <1>3, <1>4, <1>5 DEF IInv

----------------------------------------------------------------------------
(* The invariant                                                           *)

(* The invariant holds at first.                                           *)
LEMMA InitInvariant == ASSUME Init PROVE IInv
<1> USE DEF Init
<1>1. TypeOK  BY EmptySeq DEF TypeOK, Phases
<1>2. ParentInv
  BY DEF ParentInv, CurrentRequest, OutputConserved, ParentKnows, KillsItsChild
<1>3. ASSUME NEW r \in Requests  PROVE OfRequest(r)
  BY <1>3 DEF OfRequest, Untouched, Leftover, Truthful, Alive, Holding, Ended
<1> QED  BY <1>1, <1>2, <1>3 DEF IInv

(* The invariant is about the variables alone.                             *)
LEMMA StutterInvariant == ASSUME IInv, UNCHANGED vars PROVE IInv'
<1> USE DEF vars, server, clients, children, pipes
<1>1. TypeOK'  BY DEF IInv, TypeOK
<1>2. ParentInv'
  BY DEF IInv, ParentInv, CurrentRequest, OutputConserved, ParentKnows, KillsItsChild
<1>3. ASSUME NEW r \in Requests  PROVE OfRequest(r)'
  <2>1. Same(r) /\ (InHand(r) => InHand(r)')  BY DEF Same, InHand
  <2> QED  BY <2>1, OtherRequest DEF IInv
<1> QED  BY <1>1, <1>2, <1>3 DEF IInv

(* Each step keeps the invariant.                                          *)
LEMMA NextInvariant == ASSUME IInv, [Next]_vars PROVE IInv'
<1>1. CASE Parent
  <2>1. CASE \E r \in Requests : PipeFails(r) \/ Pipe(r) \/ Wait(r)
    BY <2>1, PipeFailsInvariant, PipeInvariant, WaitInvariant
  <2> QED
    BY <1>1, <2>1, ForkInvariant, ForkFailsInvariant, PollReadyInvariant, PollTimesOutInvariant,
       KillInvariant, PollFailsInvariant, ReadInvariant, ReadEndInvariant, WaitFailsInvariant,
       CallerInvariant, BrokenPipeInvariant
    DEF Parent
<1>2. ASSUME NEW r \in Requests, Child(r)  PROVE IInv'
  BY <1>2, ChildRunsInvariant, ChildFailsInvariant, ChildReturnsInvariant,
     ChildBrokenPipeInvariant, ChildThrowsInvariant, ScriptWritesInvariant,
     ScriptClosesInvariant, ScriptEndsInvariant
  DEF Child
<1>3. ASSUME NEW r \in Requests, ClientLeaves(r)  PROVE IInv'
  BY <1>3, ClientLeavesInvariant
<1> QED  BY <1>1, <1>2, <1>3, StutterInvariant DEF Next

(* The inductive invariant: what is known of every request and of the      *)
(* server's place in handleCGI(), and the properties that need it.         *)
THEOREM Invariant == Spec => []IInv
<1>1. Init => IInv  BY InitInvariant
<1>2. IInv /\ [Next]_vars => IInv'  BY NextInvariant
<1> QED  BY <1>1, <1>2, PTL DEF Spec

(* Every variable has its type, whatever the number of requests: the pipe  *)
(* never holds more than its capacity.                                     *)
THEOREM TypeCorrect == Spec => []TypeOK
<1>1. IInv => TypeOK  BY DEF IInv
<1> QED  BY <1>1, Invariant, PTL

(* The first response on a connection of handleCGI() is truthful: 200 only *)
(* after the script has exited with 0, and with the whole of its output,   *)
(* but for what was read together with a NUL byte and after it.            *)
THEOREM FirstAnswersTruthful == Spec => []FirstAnswerTruthful
<1>1. IInv => FirstAnswerTruthful  BY DEF IInv, OfRequest, Truthful, FirstAnswerTruthful
<1> QED  BY <1>1, Invariant, PTL

(* kill(pid, SIGKILL) in handleCGI() is only reached with the pid of this  *)
(* request's child, which has not been waited for: never with -1.          *)
THEOREM ItsChildIsKilled == Spec => []KillsItsChild
<1>1. IInv => KillsItsChild  BY DEF IInv, ParentInv
<1> QED  BY <1>1, Invariant, PTL

(* What handleCGI() leaves behind, open descriptors and children nobody    *)
(* waited for, is left by time-outs and failures of poll() alone.          *)
THEOREM OnlyTimeoutsLeaveAnything == Spec => []LeftoversExplained
<1>1. IInv => LeftoversExplained
  <2> SUFFICES ASSUME IInv, pc = "idle", NEW r \in Requests,
                      readers[r] \cap {"server"} # {} \/ writers[r] # {}
                        \/ child[r] \in Alive \cup {"zombie"}
               PROVE  (\E k \in DOMAIN answers[r] : answers[r][k].code = 408) \/ fault = "poll"
    BY DEF LeftoversExplained
  <2>1. Leftover(r)  BY DEF Leftover
  <2>2. ~InHand(r)  BY DEF InHand
  <2> QED  BY <2>1, <2>2 DEF IInv, OfRequest, TimedOut
<1> QED  BY <1>1, Invariant, PTL
=============================================================================
