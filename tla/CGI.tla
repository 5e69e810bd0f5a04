---------------------------------- MODULE CGI ----------------------------------
(***************************************************************************)
(* CGI requests (src/Response/HandleCGI.cpp): the server forks a child per *)
(* request, which runs a script with its output in a pipe, and waits for   *)
(* it.  Server, children and scripts are processes that run concurrently;  *)
(* the pipe and wait() are their only synchronisation.  The server handles *)
(* one request at a time: while it waits, its event loop stands still.     *)
(***************************************************************************)
EXTENDS Integers, Sequences, FiniteSets

CONSTANTS
  Requests,   \* the CGI requests, handled in any order
  Posts,      \* those that are POST requests
  Scripts,    \* what scripts may do: see ScriptKinds
  Faults,     \* the faults of this instance; each behaviour has one
  Capacity,   \* chunks a pipe holds
  MaxFds,     \* descriptors left for pipes
  NoRequest   \* not a request

FaultKinds == {"none", "fork", "poll", "path", "chdir", "dup2", "exec"}

(* The chunks a script writes, the one of them that begins with a NUL byte *)
(* (0: none does), and how it ends.  One that "closes" closes its standard *)
(* output and then hangs.                                                  *)
ScriptKinds ==
  {s \in [output : Nat, nul : Nat, ends : {"zero", "one", "hangs", "closes"}] :
     s.nul <= s.output}

ASSUME CGIAssumption ==
  /\ Faults \subseteq FaultKinds
  /\ Capacity \in Nat \ {0} /\ MaxFds \in Nat
  /\ NoRequest \notin Requests /\ Posts \subseteq Requests
  /\ Scripts \subseteq ScriptKinds

VARIABLES
  fault,    \* the call that fails in this behaviour, or "none"; "path":
            \* the path is shorter than the prefix substr() takes off
  script,   \* what the script of each request does
  pc,       \* the server's next step
  cur,      \* the request it handles
  result,   \* the chunks of output it has kept
  client,   \* each request's client: there, has left, or its reset came
  answers,  \* the responses sent on each request's connection
  child,    \* each request's child: see Phases
  status,   \* how it ended
  written,  \* the chunks its script has written
  pipe,     \* the chunks in its pipe
  readers,  \* the processes that hold the pipe's read end
  writers   \* the processes that hold its write end

server == <<pc, cur, result>>
clients == <<client, answers>>
children == <<child, status, written>>
pipes == <<pipe, readers, writers>>
vars == <<fault, script, server, clients, children, pipes>>

(* "setup": before execve().  "failed": a system call failed, the error    *)
(* was answered.  "server": the child has returned from handleCGI() into   *)
(* the event loop.  "closed": its script has closed its output.  "zombie": *)
(* it has ended but was not waited for.                                    *)
Phases == {"none", "setup", "script", "closed", "failed", "server", "zombie", "reaped"}
Alive == {"setup", "script", "closed", "failed", "server"}

Answer(code, chunks) == [code |-> code, body |-> chunks]

(* A client that has left answers with a reset, in time for the next       *)
(* response or not.                                                        *)
Send(r, code, chunks) ==
  /\ client[r] # "reset"
  /\ answers' = [answers EXCEPT ![r] = Append(@, Answer(code, chunks))]
  /\ client' \in {client} \cup (IF client[r] = "left" THEN {[client EXCEPT ![r] = "reset"]} ELSE {})

OpenEnds == Cardinality({r \in Requests : "server" \in readers[r]})
              + Cardinality({r \in Requests : "server" \in writers[r]})

Init ==
  /\ fault \in Faults
  /\ script \in [Requests -> Scripts]
  /\ pc = "idle" /\ cur = NoRequest /\ result = 0
  /\ client = [r \in Requests |-> "there"]
  /\ answers = [r \in Requests |-> <<>>]
  /\ child = [r \in Requests |-> "none"]
  /\ status = [r \in Requests |-> "none"]
  /\ written = [r \in Requests |-> 0]
  /\ pipe = [r \in Requests |-> 0]
  /\ readers = [r \in Requests |-> {}]
  /\ writers = [r \in Requests |-> {}]

----------------------------------------------------------------------------
(* The server: handleCGI() in the parent                                   *)

Begin(r) == pc = "idle" /\ answers[r] = <<>> /\ cur' = r /\ result' = 0

PipeFails(r) ==
  /\ Begin(r) /\ OpenEnds + 2 > MaxFds
  /\ Send(r, 500, 0)
  /\ pc' = "caller"
  /\ UNCHANGED <<fault, script, children, pipes>>

Pipe(r) ==
  /\ Begin(r) /\ OpenEnds + 2 <= MaxFds
  /\ readers' = [readers EXCEPT ![r] = {"server"}]
  /\ writers' = [writers EXCEPT ![r] = {"server"}]
  /\ pc' = "fork"
  /\ UNCHANGED <<fault, script, clients, children, pipe>>

ForkKeepingWriteEnd ==   \* faulty: the parent does not close pipefd[1]
  /\ pc = "fork" /\ fault # "fork"
  /\ child' = [child EXCEPT ![cur] = "setup"]
  /\ readers' = [readers EXCEPT ![cur] = {"server", "child"}]
  /\ writers' = [writers EXCEPT ![cur] = {"server", "child"}]
  /\ pc' = "poll"
  /\ UNCHANGED <<fault, script, cur, result, clients, status, written, pipe>>

(* fork(), and the parent closes its write end.                            *)
Fork ==
  /\ pc = "fork" /\ fault # "fork"
  /\ child' = [child EXCEPT ![cur] = "setup"]
  /\ readers' = [readers EXCEPT ![cur] = {"server", "child"}]
  /\ writers' = [writers EXCEPT ![cur] = {"child"}]
  /\ pc' = "poll"
  /\ UNCHANGED <<fault, script, cur, result, clients, status, written, pipe>>

ForkFailsKeepingWriteEnd ==   \* faulty: as above, without a child
  /\ pc = "fork" /\ fault = "fork"
  /\ pc' = "poll"
  /\ UNCHANGED <<fault, script, cur, result, clients, children, pipes>>

(* pid is -1, which is not 0: the parent's part runs without a child.      *)
ForkFails ==
  /\ pc = "fork" /\ fault = "fork"
  /\ writers' = [writers EXCEPT ![cur] = {}]
  /\ pc' = "poll"
  /\ UNCHANGED <<fault, script, cur, result, clients, children, pipe, readers>>

PipeReady == pipe[cur] > 0 \/ writers[cur] = {}

PollReady ==
  /\ pc = "poll" /\ PipeReady
  /\ pc' = "read"
  /\ UNCHANGED <<fault, script, cur, result, clients, children, pipes>>

(* Ten seconds without output: 408, the child is killed after that; the    *)
(* pipe is not closed and the child is not waited for.                     *)
PollTimesOut ==
  /\ pc = "poll" /\ ~PipeReady
  /\ Send(cur, 408, 0)
  /\ pc' = "kill"
  /\ UNCHANGED <<fault, script, cur, result, children, pipes>>

Without(holders, r) == [holders EXCEPT ![r] = @ \ {"child"}]

Dies(r, how) ==
  /\ child' = [child EXCEPT ![r] = "zombie"]
  /\ status' = [status EXCEPT ![r] = how]
  /\ readers' = Without(readers, r) /\ writers' = Without(writers, r)

Kill ==
  /\ pc = "kill"
  /\ IF child[cur] \in Alive THEN Dies(cur, "killed")
                             ELSE UNCHANGED <<child, status, readers, writers>>
  /\ pc' = "caller"
  /\ UNCHANGED <<fault, script, cur, result, clients, written, pipe>>

PollFails ==
  /\ pc = "poll" /\ fault = "poll"
  /\ Send(cur, 500, 0)
  /\ pc' = "caller"
  /\ UNCHANGED <<fault, script, cur, result, children, pipes>>

ReadBlindly ==   \* faulty: read() is taken to return data
  /\ pc = "read" /\ PipeReady
  /\ pipe' = [pipe EXCEPT ![cur] = @ - 1]
  /\ result' = result + 1
  /\ UNCHANGED <<fault, script, pc, cur, clients, children, readers, writers>>

(* What is appended of the next n chunks after the first taken: as a C     *)
(* string they end at the first NUL byte, and the rest of them is dropped. *)
Kept(s, taken, n) == IF s.nul \in taken + 1 .. taken + n /\ s.nul # 0
                     THEN s.nul - taken - 1 ELSE n

(* read() returns any part of what is in the pipe.                         *)
Read ==
  /\ pc = "read"
  /\ \E n \in 1..pipe[cur] :
       /\ pipe' = [pipe EXCEPT ![cur] = @ - n]
       /\ result' = result + Kept(script[cur], written[cur] - pipe[cur], n)
  /\ UNCHANGED <<fault, script, pc, cur, clients, children, readers, writers>>

ReadEndLeaking ==   \* faulty: pipefd[0] stays open
  /\ pc = "read" /\ pipe[cur] = 0 /\ writers[cur] = {}
  /\ pc' = "wait"
  /\ UNCHANGED <<fault, script, cur, result, clients, children, pipes>>

(* End of file: every write end is closed.                                 *)
ReadEnd ==
  /\ pc = "read" /\ pipe[cur] = 0 /\ writers[cur] = {}
  /\ readers' = [readers EXCEPT ![cur] = @ \ {"server"}]
  /\ pc' = "wait"
  /\ UNCHANGED <<fault, script, cur, result, clients, children, pipe, writers>>

(* The children waitpid(pid) waits for; a pid of -1 means any of them.     *)
Awaited == {r \in Requests : child[r] \in Alive \cup {"zombie"}
                               /\ (r = cur \/ child[cur] = "none")}

Exited(ok) == IF ok THEN Send(cur, 200, result) ELSE Send(cur, 500, 0)

WaitIgnoringStatus(r) ==   \* faulty: the exit status is not looked at
  /\ pc = "wait" /\ r \in Awaited /\ child[r] = "zombie"
  /\ child' = [child EXCEPT ![r] = "reaped"]
  /\ Send(cur, 200, result)
  /\ pc' = "caller"
  /\ UNCHANGED <<fault, script, cur, result, status, written, pipes>>

Wait(r) ==
  /\ pc = "wait" /\ r \in Awaited /\ child[r] = "zombie"
  /\ child' = [child EXCEPT ![r] = "reaped"]
  /\ Exited(status[r] = "zero")
  /\ pc' = "caller"
  /\ UNCHANGED <<fault, script, cur, result, status, written, pipes>>

(* No child at all: waitpid() fails and status is not initialised.         *)
WaitFails ==
  /\ pc = "wait" /\ Awaited = {}
  /\ \E ok \in BOOLEAN : Exited(ok)
  /\ pc' = "caller"
  /\ UNCHANGED <<fault, script, cur, result, children, pipes>>

(* handleGetRequest() and handlePostRequest() do not know that handleCGI() *)
(* has answered: with the status the first read before, or 201, they build *)
(* a second response, with no body.                                        *)
Final(r) == IF r \in Posts THEN 201 ELSE 200

Caller ==
  /\ pc = "caller"
  /\ Send(cur, Final(cur), 0)
  /\ pc' = "idle" /\ cur' = NoRequest
  /\ UNCHANGED <<fault, script, result, children, pipes>>

(* send() on a connection that was reset after the client closed it raises *)
(* SIGPIPE, which nobody handles.  init waits for the orphans.             *)
AtSend ==
  \/ pc = "caller"
  \/ pc = "poll" /\ (~PipeReady \/ fault = "poll")
  \/ pc = "wait" /\ (Awaited = {} \/ \E r \in Awaited : child[r] = "zombie")

BrokenPipe ==
  /\ AtSend /\ client[cur] = "reset"
  /\ pc' = "dead"
  /\ readers' = [r \in Requests |-> readers[r] \ {"server"}]
  /\ writers' = [r \in Requests |-> writers[r] \ {"server"}]
  /\ UNCHANGED <<fault, script, cur, result, clients, children, pipe>>

----------------------------------------------------------------------------
(* The child                                                               *)

(* setEnvironment(), chdir(), dup2() and execve(); pipefd[0] is closed.    *)
ChildRuns(r) ==
  /\ child[r] = "setup" /\ fault \notin {"path", "chdir", "dup2", "exec"}
  /\ child' = [child EXCEPT ![r] = "script"]
  /\ readers' = Without(readers, r)
  /\ UNCHANGED <<fault, script, server, clients, status, written, pipe, writers>>

(* The path has no name after the prefix: substr() throws, and main()      *)
(* catches it in the child as in the server, and starts again.  Both ends  *)
(* of the pipe stay open.                                                  *)
ChildThrows(r) ==
  /\ child[r] = "setup" /\ fault = "path"
  /\ child' = [child EXCEPT ![r] = "server"]
  /\ UNCHANGED <<fault, script, server, clients, status, written, pipes>>

(* One of them fails: the child answers the client itself.                 *)
ChildFails(r) ==
  /\ child[r] = "setup" /\ fault \in {"chdir", "dup2", "exec"}
  /\ Send(r, 500, 0)
  /\ child' = [child EXCEPT ![r] = "failed"]
  /\ readers' = IF fault = "chdir" THEN readers ELSE Without(readers, r)
  /\ UNCHANGED <<fault, script, server, status, written, pipe, writers>>

(* The child returns to its caller as the parent would; after a failed     *)
(* execve() its standard output, and so the log, is the pipe.  The event   *)
(* loop it goes on with is not modelled.                                   *)
ChildReturns(r) ==
  /\ child[r] = "failed" /\ (fault = "exec" => pipe[r] < Capacity)
  /\ Send(r, Final(r), 0)
  /\ child' = [child EXCEPT ![r] = "server"]
  /\ pipe' = IF fault = "exec" THEN [pipe EXCEPT ![r] = @ + 1] ELSE pipe
  /\ UNCHANGED <<fault, script, server, status, written, readers, writers>>

ChildBrokenPipe(r) ==
  /\ client[r] = "reset"
  /\ \/ child[r] = "setup" /\ fault \in {"chdir", "dup2", "exec"}
     \/ child[r] = "failed"
  /\ Dies(r, "killed")
  /\ UNCHANGED <<fault, script, server, clients, written, pipe>>

ScriptWrites(r) ==
  /\ child[r] = "script" /\ written[r] < script[r].output /\ pipe[r] < Capacity
  /\ pipe' = [pipe EXCEPT ![r] = @ + 1]
  /\ written' = [written EXCEPT ![r] = @ + 1]
  /\ UNCHANGED <<fault, script, server, clients, child, status, readers, writers>>

ScriptCloses(r) ==
  /\ child[r] = "script" /\ written[r] = script[r].output /\ script[r].ends = "closes"
  /\ child' = [child EXCEPT ![r] = "closed"]
  /\ writers' = Without(writers, r)
  /\ UNCHANGED <<fault, script, server, clients, status, written, pipe, readers>>

ScriptEnds(r) ==
  /\ child[r] = "script" /\ written[r] = script[r].output /\ script[r].ends \in {"zero", "one"}
  /\ Dies(r, script[r].ends)
  /\ UNCHANGED <<fault, script, server, clients, written, pipe>>

----------------------------------------------------------------------------
(* The client                                                              *)

ClientLeaves(r) ==
  /\ client[r] = "there"
  /\ client' = [client EXCEPT ![r] = "left"]
  /\ UNCHANGED <<fault, script, server, answers, children, pipes>>

----------------------------------------------------------------------------

Parent == \/ Fork \/ ForkFails \/ PollReady \/ PollTimesOut \/ Kill \/ PollFails
          \/ Read \/ ReadEnd \/ WaitFails \/ Caller \/ BrokenPipe
          \/ \E r \in Requests : PipeFails(r) \/ Pipe(r) \/ Wait(r)
Child(r) == \/ ChildRuns(r) \/ ChildFails(r) \/ ChildReturns(r) \/ ChildBrokenPipe(r)
            \/ ChildThrows(r) \/ ScriptWrites(r) \/ ScriptCloses(r) \/ ScriptEnds(r)

Next == Parent \/ \E r \in Requests : Child(r) \/ ClientLeaves(r)

Spec == Init /\ [][Next]_vars

(* Every process runs when it can; ten seconds pass.                       *)
Fairness == WF_vars(Parent) /\ \A r \in Requests : WF_vars(Child(r))
FairSpec == Spec /\ Fairness

----------------------------------------------------------------------------
(* Properties                                                              *)

(* Every variable has its type.                                            *)
TypeOK ==
  /\ fault \in FaultKinds /\ script \in [Requests -> Scripts]
  /\ pc \in {"idle", "fork", "poll", "kill", "read", "wait", "caller", "dead"}
  /\ cur \in Requests \cup {NoRequest} /\ result \in Nat
  /\ client \in [Requests -> {"there", "left", "reset"}]
  /\ answers \in [Requests -> Seq([code : {200, 201, 408, 500}, body : Nat])]
  /\ child \in [Requests -> Phases]
  /\ status \in [Requests -> {"none", "zero", "one", "killed"}]
  /\ written \in [Requests -> Nat]
  /\ pipe \in [Requests -> 0..Capacity]
  /\ readers \in [Requests -> SUBSET {"server", "child"}]
  /\ writers \in [Requests -> SUBSET {"server", "child"}]

(* What has been kept of the first n chunks of a script, once they have    *)
(* been read: all of them before a NUL byte, and then all but what came in *)
(* the same read after it, which is one chunk at least.                    *)
Came(s, n, kept) == IF s.nul = 0 \/ n < s.nul THEN kept = n ELSE kept \in s.nul - 1 .. n - 1

(* The first response on a connection says what became of the script: 200  *)
(* only after it exited with 0, and then with all its output, but for what *)
(* a NUL byte in it has hidden; 500 not when everything went well.  (Where *)
(* fork() failed, waitpid(-1) may report anything.)                        *)
FirstAnswerTruthful ==
  \A r \in Requests :
    answers[r] # <<>> /\ fault # "fork" =>
      LET first == Head(answers[r])
      IN /\ first.code = 200 => status[r] = "zero" /\ Came(script[r], script[r].output, first.body)
         /\ first.code = 500 /\ fault = "none" => child[r] = "none" \/ status[r] = "one"

(* kill(pid, SIGKILL) is only reached with the pid of this request's child *)
(* (a pid of -1, left by a failed fork(), would mean every process), and   *)
(* the child is still there to be killed: it was not waited for.           *)
KillsItsChild == pc = "kill" => child[cur] \in Alive \cup {"zombie"}

(* What a request leaves behind: when the server is back in its loop, it   *)
(* holds a pipe, or has not waited for a child, only of requests that      *)
(* timed out or whose poll() failed.                                       *)
LeftoversExplained ==
  pc = "idle" => \A r \in Requests :
    readers[r] \cap {"server"} # {} \/ writers[r] # {} \/ child[r] \in Alive \cup {"zombie"} =>
      \/ \E k \in DOMAIN answers[r] : answers[r][k].code = 408
      \/ fault = "poll"

(* handleCGI() comes back, so that the event loop goes on, unless a script *)
(* hangs after it has written something or closed its output, or execve()  *)
(* failed: then the server reads or waits for ever.  Or SIGPIPE ends it:   *)
(* where the client left before its first response, the second may.        *)
Stalls(s) == s.ends = "closes" \/ (s.ends = "hangs" /\ s.output > 0)
ServerReturns ==
  fault # "exec" /\ (\A r \in Requests : ~Stalls(script[r])) /\ pc # "idle" ~> pc \in {"idle", "dead"}

(* HandleCGI.cpp:83 says that a child exits on failure; only one process   *)
(* is the server.                                                          *)
OnlyOneServer == \A r \in Requests : child[r] # "server"
=============================================================================
