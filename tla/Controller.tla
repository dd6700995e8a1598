------------------------------ MODULE Controller ------------------------------
(***************************************************************************)
(* class Controller (src/src/controller.cpp), outside demo mode, with the   *)
(* channel of GreetdChannel.tla under it.                                   *)
(*                                                                          *)
(* Everything runs on one Qt event loop and signals are direct calls: a     *)
(* call from QML, one message delivered by consume(), or one socket or      *)
(* timer event is one action, with all that it calls.  Calls and events     *)
(* other than the running consume() loop wait until the loop has returned   *)
(* (AtRest).  Here every Q_INVOKABLE may be called at any time, as          *)
(* src/tests/core_test.cpp does; Login.tla adds the controls that guard     *)
(* the calls in the program.                                                *)
(***************************************************************************)
EXTENDS GreetdChannel

CONSTANTS Accounts,    \* the listed accounts (userRecords_)
          ManualMode   \* config user_mode = manual

ASSUME AccountsAssumption == Accounts \subseteq Names /\ ManualMode \in BOOLEAN

VARIABLES
  stage,                \* stage_
  state,                \* state_, what QML switches on
  status,               \* status_, by the kind of sentence, "none" when empty
  prompt,               \* prompt_ and secret_, by the kind of the prompt
  activeUser,           \* activeUser_
  pendingUser,          \* pendingUser_
  cancellationFailure,  \* cancellationFailure_, likewise
  authenticationError,  \* authenticationError_, likewise
  selectedSession,      \* selectedSession_
  saved                 \* the state file, as files_->save() last left it

exchangeVars == <<stage, state, status, prompt, activeUser, pendingUser,
                  cancellationFailure, authenticationError>>
controllerVars == <<exchangeVars, selectedSession, saved>>
vars == <<controllerVars, channelVars>>

Stages == {"Idle", "Connecting", "Authenticating", "Cancelling", "Starting",
           "Complete", "Failed"}
Waiting == {"connecting", "waiting", "informational-prompt", "starting"}
States == Waiting \cup {"user-selection", "input-prompt", "authenticated", "failed"}
Active == {"Authenticating", "Cancelling", "Starting"}

Failures == {"none", "authFailed"}

ControllerTypeOK ==
  /\ stage \in Stages /\ state \in States
  /\ status \in Failures \cup {"cancelling", "choose", "failure"}
  /\ prompt \in {"none", "secret", "visible", "info"}
  /\ activeUser \in Maybe(Names) /\ pendingUser \in Maybe(Names)
  /\ cancellationFailure \in Failures /\ authenticationError \in Failures
  /\ selectedSession \in Maybe(Sessions)

\* The state file is missing or names what the greeter knew.
SavedTypeOK == saved \in Maybe([user : Maybe(Names), session : Maybe(Sessions)])

\* Every variable holds a value of its kind: the controller's enumeration and
\* strings, and the requests and replies the channel can carry.
TypeOK == ChannelTypeOK /\ ControllerTypeOK /\ SavedTypeOK

\* A controller that has not been used.
Blank ==
  /\ ChannelInit
  /\ stage = "Idle" /\ state = "user-selection" /\ status = "none"
  /\ prompt = "none" /\ activeUser = None /\ pendingUser = None
  /\ cancellationFailure = "none" /\ authenticationError = "none"

\* initializeRecords(): selectSession() picks one of the discovered sessions.
ControllerInit ==
  /\ Blank
  /\ selectedSession \in IF Sessions = {} THEN {None} ELSE Sessions
  /\ saved = None

-----------------------------------------------------------------------------
SetState(s, text) == state' = s /\ status' = text

\* No handler is running, and the program has not quit.
AtRest == input = <<>> /\ stage # "Complete"

\* Mutant: fail() leaves the account to go to.
FailsKeepingPending ==
  /\ stage' = "Failed" /\ SetState("failed", "failure") /\ prompt' = "none"
  /\ cancellationFailure' = "none" /\ authenticationError' = "none"
  /\ UNCHANGED <<activeUser, pendingUser, selectedSession, saved>>

\* What fail() writes, in any stage but Failed.
Fails ==
  /\ stage' = "Failed" /\ SetState("failed", "failure") /\ prompt' = "none"
  /\ pendingUser' = None
  /\ cancellationFailure' = "none" /\ authenticationError' = "none"
  /\ UNCHANGED <<activeUser, selectedSession, saved>>

\* The candidate names a user that begin() starts an exchange for.
Beginnable(u) ==
  /\ u # None /\ selectedSession # None
  /\ ManualMode \/ u \in Accounts

\* begin() from its successful checks on, with the socket found in state s:
\* connectTo() aborts that socket and connects.  A unix socket connects at
\* once (and connected() sends create_session), or is made to wait, or is
\* refused; an unset GREETD_SOCK counts as refused.  Aborting a socket that is
\* still Connected or Closing emits disconnected() into the Connecting stage:
\* the controller fails, and the connection made after that is ignored.
Attempt(u, s) ==
  /\ activeUser' = u /\ prompt' = "none"
  /\ \/ /\ s \in {"Unconnected", "Connecting"}
        /\ stage' = "Authenticating" /\ SetState("waiting", "none")
        /\ Replace("Connected", <<[type |-> "create", arg |-> u]>>)
     \/ /\ s \in {"Unconnected", "Connecting"}
        /\ stage' = "Connecting" /\ SetState("connecting", "none")
        /\ Replace("Connecting", <<>>)
     \/ /\ s \in {"Unconnected", "Connecting"}
        /\ stage' = "Failed" /\ SetState("failed", "failure")
        /\ Drop
     \/ /\ s \in {"Connected", "Closing"}
        /\ stage' = "Failed" /\ SetState("failed", "failure")
        /\ \E t \in {"Connected", "Connecting", "Unconnected"} : Replace(t, <<>>)

\* The same outside finishCancellation(): fail() also clears what it may find.
FreshAttempt(u, s) ==
  /\ Attempt(u, s)
  /\ authenticationError' = "none"
  /\ pendingUser' = IF stage' = "Failed" THEN None ELSE pendingUser
  /\ cancellationFailure' = IF stage' = "Failed" THEN "none" ELSE cancellationFailure

\* beginCancellation(failure), followed by the cancel_session request.
BeginCancellation(failure) ==
  /\ cancellationFailure' = failure
  /\ prompt' = "none"
  /\ stage' = "Cancelling" /\ SetState("waiting", "cancelling")
  /\ Send([type |-> "cancel", arg |-> None])

-----------------------------------------------------------------------------
(* Calls from QML. *)

\* Mutant: the first candidate wins.
FirstCandidateWins(u) ==
  /\ stage = "Cancelling"
  /\ pendingUser' = IF pendingUser = None THEN u ELSE pendingUser
  /\ UNCHANGED <<stage, state, status, prompt, activeUser, cancellationFailure,
                 authenticationError, selectedSession, saved, channelVars>>

\* Mutant: picking the account being cancelled is taken for no change at all.
SameAccountIsNoChange(u) ==
  /\ stage = "Cancelling"
  /\ pendingUser' = IF u = activeUser THEN None ELSE u
  /\ UNCHANGED <<stage, state, status, prompt, activeUser, cancellationFailure,
                 authenticationError, selectedSession, saved, channelVars>>

\* begin() while a cancellation is awaited: the newest candidate wins.
BeginWhileCancelling(u) ==
  /\ stage = "Cancelling"
  /\ pendingUser' = u
  /\ UNCHANGED <<stage, state, status, prompt, activeUser, cancellationFailure,
                 authenticationError, selectedSession, saved, channelVars>>

\* begin() for another user before the socket has connected.
SwitchWhileConnecting(u) ==
  /\ stage = "Connecting" /\ u # None /\ u # activeUser
  /\ UNCHANGED <<selectedSession, saved>>
  /\ \/ /\ Beginnable(u)
        /\ FreshAttempt(u, HungUp)
     \/ /\ ~Beginnable(u)
        /\ stage' = "Idle" /\ SetState("user-selection", "choose")
        /\ activeUser' = None
        /\ Hangup
        /\ UNCHANGED <<prompt, pendingUser, cancellationFailure, authenticationError>>

\* begin() for another user during an exchange: it waits for greetd to cancel.
SwitchAccount(u) ==
  /\ stage \in {"Authenticating", "Starting"} /\ u # None /\ u # activeUser
  /\ pendingUser' = u
  /\ BeginCancellation("none")
  /\ UNCHANGED <<activeUser, authenticationError, input, selectedSession, saved>>

\* begin() with no exchange running.
BeginIdle(u) ==
  /\ stage \in {"Idle", "Failed"}
  /\ UNCHANGED <<selectedSession, saved>>
  /\ \/ /\ Beginnable(u)
        /\ FreshAttempt(u, socket)
     \/ /\ ~Beginnable(u)
        /\ SetState("user-selection", "choose")
        /\ UNCHANGED <<stage, prompt, activeUser, pendingUser, cancellationFailure,
                       authenticationError, channelVars>>

Begin(u) ==
  /\ AtRest
  /\ \/ BeginWhileCancelling(u)
     \/ SwitchWhileConnecting(u)
     \/ SwitchAccount(u)
     \/ BeginIdle(u)

\* Mutant: respond() checks the stage alone.
CanRespondAlways == stage = "Authenticating"

CanRespond == stage = "Authenticating" /\ state = "input-prompt"

\* respond(): r is the account the text was typed for, None when it is empty.
Respond(r) ==
  /\ AtRest
  /\ CanRespond
  /\ Send([type |-> "post", arg |-> r])
  /\ SetState("waiting", "none")
  /\ UNCHANGED <<stage, prompt, activeUser, pendingUser, cancellationFailure,
                 authenticationError, selectedSession, saved, input>>

\* restartAuthentication(): the current user again, on a fresh exchange.
RestartAuthentication ==
  /\ AtRest /\ activeUser # None
  /\ UNCHANGED <<selectedSession, saved>>
  /\ \/ /\ stage = "Connecting" /\ Beginnable(activeUser)
        /\ FreshAttempt(activeUser, HungUp)
     \/ /\ stage = "Authenticating"
        /\ pendingUser' = activeUser
        /\ BeginCancellation("none")
        /\ UNCHANGED <<activeUser, authenticationError, input>>

\* cancel(), which no control of the program calls.
Cancel ==
  /\ AtRest /\ stage # "Idle"
  /\ pendingUser' = None
  /\ UNCHANGED <<authenticationError, selectedSession, saved>>
  /\ \/ /\ stage = "Connecting"
        /\ Hangup
        /\ stage' = "Idle" /\ SetState("user-selection", "none")
        /\ activeUser' = None /\ prompt' = "none"
        /\ UNCHANGED cancellationFailure
     \/ /\ stage = "Failed"
        /\ stage' = "Idle" /\ SetState("user-selection", "none")
        /\ activeUser' = None /\ prompt' = "none"
        /\ UNCHANGED <<cancellationFailure, channelVars>>
     \/ /\ stage \in {"Authenticating", "Starting"}
        /\ BeginCancellation("none")
        /\ UNCHANGED <<activeUser, input>>
     \/ /\ stage = "Cancelling"
        /\ UNCHANGED <<stage, state, status, prompt, activeUser,
                       cancellationFailure, channelVars>>

SetSelectedSession(s) ==
  /\ AtRest
  /\ selectedSession' = s
  /\ UNCHANGED <<exchangeVars, saved, channelVars>>

-----------------------------------------------------------------------------
(* Messages: consume() stops the timer and handle() gets the next reply. *)

\* The message at the head of the loop; the timer is off unless the handler
\* sends a request.
Receives(types) == input # <<>> /\ Head(input).type \in types
ConsumedOnly ==
  /\ input' = Tail(input) /\ timer' = FALSE
  /\ UNCHANGED <<socket, outbox, wireVars, greetdVars>>
\* Mutant: consume() stops the timer after the handler, not before it.
SentThenStopped(request) ==
  /\ input' = Tail(input) /\ timer' = FALSE
  /\ outbox' = Append(outbox, request)
  /\ UNCHANGED <<socket, wireVars, greetdVars>>
ConsumedAndSent(request) == input' = Tail(input) /\ Send(request)

\* The first success or error seen while Cancelling counts as greetd's answer
\* to cancel_session (finishCancellation()).
FinishCancellation ==
  /\ stage = "Cancelling" /\ Receives({"success", "error"})
  /\ cancellationFailure' = "none" /\ pendingUser' = None
  /\ UNCHANGED <<selectedSession, saved>>
  /\ \/ /\ Beginnable(pendingUser)
        /\ Attempt(pendingUser, HungUp)
        /\ authenticationError' = cancellationFailure
     \/ /\ pendingUser # None /\ ~Beginnable(pendingUser)
        /\ stage' = "Idle" /\ SetState("user-selection", "choose")
        /\ activeUser' = None /\ prompt' = "none"
        /\ authenticationError' = cancellationFailure
        /\ Hangup
     \/ /\ pendingUser = None
        /\ stage' = IF cancellationFailure = "none" THEN "Idle" ELSE "Failed"
        /\ SetState(IF cancellationFailure = "none" THEN "user-selection" ELSE "failed",
                    cancellationFailure)
        /\ activeUser' = None /\ prompt' = "none"
        /\ UNCHANGED authenticationError
        /\ Hangup

\* Mutant: the kind of a prompt is not validated.
AnyKindForInput == {"secret", "visible", "malformed"}
KindsForInput == {"secret", "visible"}

\* A prompt the user has to answer.
PromptForInput ==
  /\ stage = "Authenticating" /\ Receives({"auth_message"})
  /\ Head(input).kind \in KindsForInput
  /\ prompt' = Head(input).kind
  /\ SetState("input-prompt", authenticationError)
  /\ authenticationError' = "none"
  /\ ConsumedOnly
  /\ UNCHANGED <<stage, activeUser, pendingUser, cancellationFailure,
                 selectedSession, saved>>

\* A message to show, acknowledged at once with a null response.
PromptToShow ==
  /\ stage = "Authenticating" /\ Receives({"auth_message"})
  /\ \/ /\ Head(input).kind = "info"
        /\ prompt' = "info" /\ SetState("informational-prompt", "none")
        /\ UNCHANGED authenticationError
     \/ /\ Head(input).kind = "error"
        /\ prompt' = "none" /\ SetState("waiting", "authFailed")
        /\ authenticationError' = "authFailed"
  /\ ConsumedAndSent([type |-> "post", arg |-> None])
  /\ UNCHANGED <<stage, activeUser, pendingUser, cancellationFailure,
                 selectedSession, saved>>

\* Mutant: a success starts the session whatever is being waited for.
SuccessStartsAnyway == {"Authenticating", "Cancelling"}
SuccessStarts == {"Authenticating"}

\* greetd has authenticated the user: the selected session is requested.
\* begin() required one to be selected, and nothing unselects it.
AuthenticationSucceeded ==
  /\ stage \in SuccessStarts /\ Receives({"success"})
  /\ stage' = "Starting" /\ SetState("starting", "none")
  /\ ConsumedAndSent([type |-> "start", arg |-> selectedSession])
  /\ UNCHANGED <<prompt, activeUser, pendingUser, cancellationFailure,
                 authenticationError, selectedSession, saved>>

\* Mutant: manual mode remembers the user.
RememberedAlways == activeUser
RememberedUser == IF ManualMode THEN None ELSE activeUser

\* Mutant: the file is truncated and written in place.
WrittenInPlace(record) == {saved, None, record}
\* saveState() replaces the file as a whole, or fails and leaves it.
Written(record) == {saved, record}

\* greetd will start the session: it is remembered, unless saving fails, and
\* the program quits.  Manual mode does not remember the user.
SessionAccepted ==
  /\ stage = "Starting" /\ Receives({"success"})
  /\ saved' \in Written([user |-> RememberedUser, session |-> selectedSession])
  /\ stage' = "Complete" /\ SetState("authenticated", "none")
  /\ Hangup
  /\ UNCHANGED <<prompt, activeUser, pendingUser, cancellationFailure,
                 authenticationError, selectedSession>>

\* greetd refused the user: the exchange is cancelled and begun again.
AuthenticationRefused ==
  /\ stage = "Authenticating" /\ Receives({"error"})
  /\ Head(input).kind = "auth_error"
  /\ authenticationError' = "none"
  /\ pendingUser' = activeUser
  /\ input' = Tail(input)
  /\ BeginCancellation("authFailed")
  /\ UNCHANGED <<activeUser, selectedSession, saved>>

\* The replies that end in fail(): what the stage does not allow, a prompt
\* without its fields, an error that is no refusal, and a frame that is no
\* JSON object (which fails in the client and aborts the socket).
ReplyFails ==
  \/ stage = "Cancelling" /\ Receives({"auth_message"})
  \/ stage = "Starting" /\ Receives({"auth_message", "error"})
  \/ /\ stage = "Authenticating" /\ Receives({"auth_message", "error"})
     /\ Head(input).kind \in {"malformed", "other"}

HandleFailure ==
  /\ ReplyFails
  /\ Fails
  /\ Hangup

ConsumeFailure ==
  /\ Receives({"junk"})
  /\ Fails
  /\ Drop

HandleMessage ==
  \/ FinishCancellation
  \/ PromptForInput
  \/ PromptToShow
  \/ AuthenticationSucceeded
  \/ SessionAccepted
  \/ AuthenticationRefused
  \/ HandleFailure
  \/ ConsumeFailure

-----------------------------------------------------------------------------
(* Socket and timer events. *)

\* failed() reaches fail(), which does nothing in stage Failed.
FailsUnless(ignored) ==
  IF stage \in ignored THEN UNCHANGED controllerVars ELSE Fails

\* A connection attempt that had to wait succeeds.
ConnectCompletes ==
  /\ AtRest /\ socket = "Connecting"
  /\ \/ /\ stage = "Connecting"
        /\ stage' = "Authenticating" /\ SetState("waiting", "none")
        /\ Replace("Connected", <<[type |-> "create", arg |-> activeUser]>>)
        /\ UNCHANGED <<prompt, activeUser, pendingUser, cancellationFailure,
                       authenticationError, selectedSession, saved>>
     \/ /\ stage = "Idle"
        /\ Fails
        /\ Drop
     \/ /\ stage = "Failed"
        /\ Replace("Connected", <<>>)
        /\ UNCHANGED controllerVars

\* The 15 second timer fires.
Timeout ==
  /\ AtRest /\ timer
  /\ FailsUnless({"Failed"})
  /\ Drop

\* errorOccurred, other than the peer's orderly close.
SocketFault ==
  /\ AtRest /\ socket # "Unconnected"
  /\ FailsUnless({"Failed"})
  /\ Drop

\* Mutant: an end of the connection is expected while cancelling.
QuietWhenDisconnectedOrCancelling == {"Idle", "Failed", "Cancelling"}
QuietWhenDisconnected == {"Idle", "Failed"}

\* disconnected(): greetd closed and its last replies have been read, or a
\* closing socket has flushed its last bytes.
Disconnected ==
  /\ AtRest
  /\ \/ socket = "Connected" /\ peerClosed /\ toClient = <<>>
     \/ socket = "Closing"
  /\ FailsUnless(QuietWhenDisconnected)
  /\ Drop

\* After Complete the program quits.
Exited == stage = "Complete" /\ UNCHANGED vars

Transport ==
  \/ ConnectCompletes
  \/ Timeout
  \/ SocketFault
  \/ Disconnected
  \/ stage # "Complete" /\ (Flush \/ ReadyRead) /\ UNCHANGED controllerVars

Greetd == stage # "Complete" /\ (GreetdAnswers \/ PeerCloses) /\ UNCHANGED controllerVars

Calls ==
  \/ \E u \in Maybe(Names) : Begin(u) \/ Respond(u)
  \/ RestartAuthentication
  \/ Cancel
  \/ \E s \in Sessions : SetSelectedSession(s)

ControllerNext == Calls \/ HandleMessage \/ Transport \/ Greetd \/ Exited

ControllerSpec == ControllerInit /\ [][ControllerNext]_vars

-----------------------------------------------------------------------------
(* Properties of the controller, however it is called. *)

\* A request is sent only on an open socket: every stage that talks to greetd
\* has it, through reconnects, faults and cancellations.
ConversationOnOpenSocket ==
  /\ stage \in Active => socket = "Connected"
  /\ stage = "Connecting" => socket = "Connecting"

\* The user never waits without a deadline: in every state that shows neither
\* a prompt nor a choice, the 15 second timer runs.
WaitIsBounded == state \in Waiting => timer

\* What a cancellation was begun for (the account to go to, the failure to
\* report) is gone when it is over, whichever way it ended: it cannot leak
\* into a later exchange.
CancellationLeavesNothing ==
  stage # "Cancelling" => pendingUser = None /\ cancellationFailure = "none"

\* What greetd has still to answer, oldest first, whether the answer, the
\* request or neither has crossed the socket.
Owed ==
  [i \in 1..Len(input) |-> input[i].re] \o
  [i \in 1..Len(toClient) |-> toClient[i].re] \o
  [i \in 1..Len(toServer) |-> toServer[i].type] \o
  [i \in 1..Len(outbox) |-> outbox[i].type]

\* Requests and replies stay paired: at most one request is unanswered, and
\* only cancel_session overtakes it.  In a prompt nothing is owed, so whatever
\* greetd says next answers the user.
OnlyCancelOvertakes ==
  ~peerClosed =>
    /\ stage = "Authenticating" =>
         IF state = "input-prompt" THEN Owed = <<>>
         ELSE Owed \in {<<"create">>, <<"post">>}
    /\ stage = "Starting" => Owed = <<"start">>
    /\ stage = "Cancelling" =>
         Owed \in {<<"cancel">>} \cup {<<q, "cancel">> : q \in RequestTypes \ {"cancel"}}

\* start_session is only ever on its way to a greetd that has accepted the
\* very user the greeter shows, and it names a discovered session.
StartOnlyWhenReady ==
  \A i \in 1..Len(toServer \o outbox) :
    LET q == (toServer \o outbox)[i]
    IN q.type = "start" /\ ~peerClosed =>
         phase = "ready" /\ peerUser = activeUser /\ q.arg \in Sessions

\* "Account changes wait for greetd cancellation before starting the
\* replacement exchange" (src/docs/sdd/greeter-mvp/DESIGN.md:21): the change
\* to another account survives a prompt that greetd sent before it saw the
\* cancellation.
ChangeSurvivesStalePrompt ==
  [][stage = "Cancelling" /\ pendingUser \notin {None, activeUser} /\ Receives({"auth_message"})
       => stage' # "Failed"]_vars
=============================================================================
