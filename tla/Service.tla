-------------------------------- MODULE Service --------------------------------
(***************************************************************************)
(* What webserv promises to a client, whatever its event loop does inside: *)
(* a connection is accepted by the server whose port it asked, answered at *)
(* most once, by that server, and only when its own request has arrived    *)
(* whole, and it is dropped without an answer only if the client has left  *)
(* or the server's patience is over.  The promise holds until the server   *)
(* lapses: until it stops, dies, or starts again after an exception.       *)
(***************************************************************************)
CONSTANTS
  Conns,    \* client connections; each connects once
  Ports,    \* ports of the servers
  Patient   \* whether the server waits for its clients for ever

VARIABLES
  serving,  \* the server has not lapsed
  stage,    \* "out", "waiting", "open", "complete", "answered" or "dropped"
  server,   \* the port of the server that is in charge of a connection
  asked,    \* a whole request is under way to the server
  gone      \* the client has left

vars == <<serving, stage, server, asked, gone>>

Clear(c) ==
  /\ asked' = [asked EXCEPT ![c] = FALSE]
  /\ gone' = [gone EXCEPT ![c] = FALSE]

Init ==
  /\ serving = TRUE
  /\ stage = [c \in Conns |-> "out"]
  /\ server \in [Conns -> {0}]
  /\ asked = [c \in Conns |-> FALSE]
  /\ gone = [c \in Conns |-> FALSE]

Moves(c, from, to) ==
  /\ serving /\ serving'
  /\ stage[c] = from
  /\ stage' = [stage EXCEPT ![c] = to]

Arrive(c, p) ==
  /\ Moves(c, "out", "waiting")
  /\ server' = [server EXCEPT ![c] = p]
  /\ UNCHANGED <<asked, gone>>

Accept(c) == Moves(c, "waiting", "open") /\ UNCHANGED <<server, asked, gone>>

Connected(c) == stage[c] \in {"waiting", "open", "complete"}

Ask(c) ==
  /\ serving /\ serving' /\ Connected(c) /\ ~gone[c]
  /\ asked' = [asked EXCEPT ![c] = TRUE]
  /\ UNCHANGED <<stage, server, gone>>

Leave(c) ==
  /\ serving /\ serving' /\ Connected(c)
  /\ gone' = [gone EXCEPT ![c] = TRUE]
  /\ UNCHANGED <<stage, server, asked>>

(* The request is complete, or cut off for good.                           *)
Complete(c) ==
  /\ asked[c] \/ gone[c]
  /\ Moves(c, "open", "complete")
  /\ asked' = [asked EXCEPT ![c] = FALSE]
  /\ UNCHANGED <<server, gone>>

(* What arrives behind a complete request is read, and ignored.            *)
Ignore(c) ==
  /\ serving /\ serving' /\ stage[c] = "complete" /\ asked[c]
  /\ asked' = [asked EXCEPT ![c] = FALSE]
  /\ UNCHANGED <<stage, server, gone>>

Answer(c) == Moves(c, "complete", "answered") /\ Clear(c) /\ UNCHANGED server

Drop(c) ==
  /\ gone[c] \/ ~Patient
  /\ \E from \in {"open", "complete"} : Moves(c, from, "dropped")
  /\ Clear(c) /\ UNCHANGED server

(* Nothing is promised any more.                                           *)
Lapse == ~serving'

Next ==
  \/ \E c \in Conns : \/ \E p \in Ports : Arrive(c, p)
                      \/ Accept(c) \/ Ask(c) \/ Leave(c)
                      \/ Complete(c) \/ Ignore(c) \/ Answer(c) \/ Drop(c)
  \/ Lapse

Spec == Init /\ [][Next]_vars
=============================================================================
