---------------------------- MODULE GreetdChannel ----------------------------
(***************************************************************************)
(* The conversation with greetd below the controller: class GreetdClient    *)
(* (src/src/greetdclient.cpp) over a QLocalSocket, the two directions of    *)
(* the stream, and greetd itself.                                           *)
(*                                                                          *)
(* A frame is one message: byte-level framing is the subject of the         *)
(* GreetdFraming module.  QLocalSocket buffers what the client writes       *)
(* (outbox) and flushes it from the event loop, so hanging up while bytes   *)
(* are queued leaves the socket Closing.  greetd is external: it answers    *)
(* every request of a connection once and in order, and each answer is any  *)
(* one that src/src/controller.cpp distinguishes.                           *)
(*                                                                          *)
(* Controller.tla EXTENDS this module and composes the operators below      *)
(* into the handlers that call them.                                        *)
(***************************************************************************)
EXTENDS Naturals, Sequences

CONSTANTS Names,     \* what a user can be called: accounts and typed names
          Sessions,  \* identifiers of the discovered session entries
          None       \* the empty string

ASSUME NoneAssumption ==
  /\ None \notin Names \cup Sessions
  /\ None \notin [user : Names \cup {None}, session : Sessions \cup {None}]

VARIABLES
  socket,     \* socket_.state()
  timer,      \* timer_.isActive(), the 15 second single-shot timer
  outbox,     \* requests written to the socket and not yet flushed
  input,      \* replies the running consume() loop has still to deliver
  toServer,   \* requests on their way to greetd
  toClient,   \* replies on their way to the greeter
  phase,      \* greetd: what the session under configuration has reached
  peerUser,   \* greetd: the user that session was created for
  scheduled,  \* greetd: the session it will start, or None
  peerClosed  \* greetd has closed its end

clientVars == <<socket, timer, outbox, input>>
wireVars   == <<toServer, toClient>>
greetdVars == <<phase, peerUser, scheduled, peerClosed>>
channelVars == <<clientVars, wireVars, greetdVars>>

Maybe(S) == S \cup {None}

RequestTypes == {"create", "post", "start", "cancel"}
Request == [type : {"create", "post"}, arg : Maybe(Names)]
           \cup [type : {"start"}, arg : Maybe(Sessions)]
           \cup [type : {"cancel"}, arg : {None}]

PromptKinds == {"secret", "visible", "info", "error", "malformed"}
Reply == [type : {"auth_message", "success", "error", "junk"},
          kind : PromptKinds \cup {"auth_error", "other"},
          re   : RequestTypes]

SocketStates == {"Unconnected", "Connecting", "Connected", "Closing"}

ChannelTypeOK ==
  /\ socket \in SocketStates
  /\ timer \in BOOLEAN
  /\ outbox \in Seq(Request) /\ toServer \in Seq(Request)
  /\ input \in Seq(Reply) /\ toClient \in Seq(Reply)
  /\ phase \in {"none", "asking", "ready", "scheduled"}
  /\ peerUser \in Maybe(Names)
  /\ scheduled \in Maybe([user : Maybe(Names), session : Maybe(Sessions)])
  /\ peerClosed \in BOOLEAN

ChannelInit ==
  /\ socket = "Unconnected" /\ timer = FALSE
  /\ outbox = <<>> /\ input = <<>> /\ toServer = <<>> /\ toClient = <<>>
  /\ phase = "none" /\ peerUser = None /\ scheduled = None
  /\ peerClosed = FALSE

-----------------------------------------------------------------------------
(* What the controller calls.  send() and disconnectFromServer() leave the   *)
(* reply queue to their caller: both run inside consume() as well as outside.*)

\* Mutant: send() does not restart the timer.
SendUntimed(request) ==
  /\ socket = "Connected"
  /\ outbox' = Append(outbox, request)
  /\ UNCHANGED <<socket, timer, wireVars, greetdVars>>

\* send(): the frame is queued and the timer restarted.  Every caller runs in
\* a stage whose socket is connected (ConversationOnOpenSocket), so the
\* not-connected failure cannot happen.
Send(request) ==
  /\ socket = "Connected"
  /\ outbox' = Append(outbox, request)
  /\ timer' = TRUE
  /\ UNCHANGED <<socket, wireVars, greetdVars>>

\* The old stream, if any, is gone and the socket is now s, with box written.
Replace(s, box) ==
  /\ socket' = s
  /\ timer' = (s = "Connecting" \/ box # <<>>)
  /\ outbox' = box
  /\ input' = <<>> /\ toServer' = <<>> /\ toClient' = <<>>
  /\ phase' = "none" /\ peerUser' = None /\ scheduled' = None
  /\ peerClosed' = FALSE

Drop == Replace("Unconnected", <<>>)

\* The socket state disconnectFromServer() leaves behind.
HungUp ==
  IF socket # "Connected" THEN socket
  ELSE IF outbox = <<>> THEN "Unconnected" ELSE "Closing"

\* disconnectFromServer(): the timer stops and undelivered input is wiped;
\* queued requests keep a connected socket Closing until they are flushed,
\* and a pending connection attempt is not withdrawn.
Hangup ==
  IF socket = "Connected" /\ outbox = <<>>
  THEN Drop
  ELSE /\ socket' = HungUp /\ timer' = FALSE /\ input' = <<>>
       /\ UNCHANGED <<outbox, wireVars, greetdVars>>

-----------------------------------------------------------------------------
(* Steps of the transport and of greetd that call nothing in the controller. *)

\* The write notifier passes the queued bytes to the kernel.
Flush ==
  /\ socket = "Connected" /\ outbox # <<>> /\ ~peerClosed
  /\ toServer' = toServer \o outbox
  /\ outbox' = <<>>
  /\ UNCHANGED <<socket, timer, input, toClient, greetdVars>>

\* readyRead: some of the replies that have arrived are read and consume()
\* starts on them; several may arrive in one read.
ReadyRead ==
  /\ socket = "Connected" /\ input = <<>>
  /\ \E n \in 1..Len(toClient) :
       /\ input' = SubSeq(toClient, 1, n)
       /\ toClient' = SubSeq(toClient, n + 1, Len(toClient))
  /\ UNCHANGED <<socket, timer, outbox, toServer, greetdVars>>

AnswersTo(q) ==
  LET ok == [type |-> "success", kind |-> "other", re |-> q.type]
      no == {[type |-> "error", kind |-> "other", re |-> q.type],
             [type |-> "junk", kind |-> "other", re |-> q.type]}
  IN CASE q.type = "cancel" -> {ok} \cup no
       [] q.type = "start" -> IF phase = "ready" THEN {ok} \cup no ELSE no
       [] OTHER ->
            {ok, [type |-> "error", kind |-> "auth_error", re |-> q.type]} \cup no
            \cup [type : {"auth_message"}, kind : PromptKinds, re : {q.type}]

PhaseAfter(r) ==
  CASE r.type = "auth_message" -> "asking"
    [] r.type = "success" /\ r.re \in {"create", "post"} -> "ready"
    [] r.type = "success" /\ r.re = "start" -> "scheduled"
    [] OTHER -> "none"

\* greetd answers the oldest request on the connection.
GreetdAnswers ==
  /\ toServer # <<>> /\ ~peerClosed
  /\ LET q == Head(toServer)
         user == IF q.type = "create" THEN q.arg ELSE peerUser
     IN \E r \in AnswersTo(q) :
          /\ toServer' = Tail(toServer)
          /\ toClient' = Append(toClient, r)
          /\ phase' = PhaseAfter(r)
          /\ peerUser' = IF q.type = "cancel" THEN None ELSE user
          /\ scheduled' = IF phase' = "scheduled"
                          THEN [user |-> user, session |-> q.arg] ELSE None
  /\ UNCHANGED <<clientVars, peerClosed>>

\* greetd exits or closes the connection; what it sent can still be read.
PeerCloses ==
  /\ socket \in {"Connected", "Closing"} /\ ~peerClosed
  /\ peerClosed' = TRUE
  /\ toServer' = <<>>
  /\ UNCHANGED <<clientVars, toClient, phase, peerUser, scheduled>>
=============================================================================
