--------------------------- MODULE Controller_proofs ---------------------------
(***************************************************************************)
(* Theorems about Controller.tla, for every set of names, accounts and      *)
(* sessions, and however the controller is called.                          *)
(***************************************************************************)
EXTENDS Controller, TLAPS, SequenceTheorems

\* Which strings QML may see in each stage.
StateFitsStage ==
  /\ stage = "Idle" => state = "user-selection"
  /\ stage = "Connecting" => state = "connecting"
  /\ stage = "Authenticating" =>
       state \in {"waiting", "informational-prompt", "input-prompt"}
  /\ stage = "Cancelling" => state = "waiting"
  /\ stage = "Starting" => state = "starting"
  /\ stage = "Complete" => state = "authenticated"
  /\ stage = "Failed" => state \in {"failed", "user-selection"}

\* The inductive invariant: the safety properties alone are not inductive,
\* because an event ignored in stage Idle or Failed stops the timer, which is
\* harmless only as no waiting state is shown there.
Control ==
  /\ StateFitsStage
  /\ ConversationOnOpenSocket
  /\ WaitIsBounded
  /\ CancellationLeavesNothing

\* The state file is left aside: Boots.tla begins with one the greeter never
\* wrote.
Typed == ChannelTypeOK /\ ControllerTypeOK

IInv == Typed /\ Control

-----------------------------------------------------------------------------
(* The channel's operators keep the channel's types. *)

LEMMA ReplaceType ==
  ASSUME ChannelTypeOK, NEW s \in SocketStates, NEW box \in Seq(Request),
         Replace(s, box)
  PROVE  ChannelTypeOK'
<1>1. timer' \in BOOLEAN
  BY ZenonT(10) DEF Replace
<1>2. /\ input' \in Seq(Reply) /\ outbox' \in Seq(Request)
      /\ toServer' \in Seq(Request) /\ toClient' \in Seq(Reply)
  BY DEF Replace
<1> QED
  BY <1>1, <1>2 DEF ChannelTypeOK, Replace, Maybe

LEMMA DropType ==
  ASSUME ChannelTypeOK, Drop PROVE ChannelTypeOK'
<1>1. <<>> \in Seq(Request) /\ "Unconnected" \in SocketStates
  BY DEF SocketStates
<1> QED BY <1>1, ReplaceType DEF Drop

LEMMA SendType ==
  ASSUME ChannelTypeOK, NEW q \in Request, Send(q), input' \in Seq(Reply)
  PROVE  ChannelTypeOK'
  BY DEF ChannelTypeOK, Send, wireVars, greetdVars

LEMMA HangupType ==
  ASSUME ChannelTypeOK, Hangup PROVE ChannelTypeOK'
<1>1. CASE socket = "Connected" /\ outbox = <<>>
  BY <1>1, DropType DEF Hangup
<1>2. CASE ~(socket = "Connected" /\ outbox = <<>>)
  <2>1. /\ socket' = HungUp /\ timer' = FALSE /\ input' = <<>>
        /\ UNCHANGED <<outbox, wireVars, greetdVars>>
    BY <1>2 DEF Hangup
  <2>2. HungUp \in SocketStates
    BY DEF HungUp, ChannelTypeOK, SocketStates
  <2>3. timer' \in BOOLEAN
    BY <2>1, Zenon
  <2>5. input' \in Seq(Reply)
    BY <2>1
  <2>4. UNCHANGED <<outbox, toServer, toClient, phase, peerUser, scheduled, peerClosed>>
    BY <2>1 DEF wireVars, greetdVars
  <2> QED BY <2>1, <2>2, <2>3, <2>4, <2>5 DEF ChannelTypeOK
<1> QED BY <1>1, <1>2

LEMMA FlushType ==
  ASSUME ChannelTypeOK, Flush PROVE ChannelTypeOK'
  BY DEF ChannelTypeOK, Flush, greetdVars

LEMMA ReadyReadType ==
  ASSUME ChannelTypeOK, ReadyRead PROVE ChannelTypeOK'
  BY DEF ChannelTypeOK, ReadyRead, greetdVars

LEMMA AnswersType ==
  ASSUME NEW q \in Request, NEW r \in AnswersTo(q)
  PROVE  r \in Reply /\ r.re = q.type
  BY DEF AnswersTo, Reply, Request, RequestTypes, PromptKinds

LEMMA GreetdAnswersType ==
  ASSUME ChannelTypeOK, GreetdAnswers PROVE ChannelTypeOK'
<1> DEFINE q == Head(toServer)
           user == IF q.type = "create" THEN q.arg ELSE peerUser
<1>1. q \in Request
  BY DEF GreetdAnswers, ChannelTypeOK
<1>2. PICK r \in AnswersTo(q) :
         /\ toServer' = Tail(toServer)
         /\ toClient' = Append(toClient, r)
         /\ phase' = PhaseAfter(r)
         /\ peerUser' = IF q.type = "cancel" THEN None ELSE user
         /\ scheduled' = IF phase' = "scheduled"
                         THEN [user |-> user, session |-> q.arg] ELSE None
  BY DEF GreetdAnswers
<1>3. r \in Reply /\ r.re = q.type
  BY <1>1, AnswersType
<1>4. user \in Maybe(Names)
  BY <1>1 DEF Request, ChannelTypeOK
<1>5. phase' \in {"none", "asking", "ready", "scheduled"}
  BY <1>2 DEF PhaseAfter
<1>6. phase' = "scheduled" => q.arg \in Maybe(Sessions)
  BY <1>1, <1>2, <1>3 DEF PhaseAfter, Request
<1>7. toServer' \in Seq(Request) /\ toClient' \in Seq(Reply)
  BY <1>2, <1>3 DEF ChannelTypeOK, GreetdAnswers
<1>8. /\ peerUser' \in Maybe(Names)
      /\ scheduled' \in Maybe([user : Maybe(Names), session : Maybe(Sessions)])
  BY <1>2, <1>4, <1>6 DEF ChannelTypeOK, Maybe
<1> QED
  BY <1>5, <1>7, <1>8 DEF ChannelTypeOK, GreetdAnswers, clientVars

-----------------------------------------------------------------------------
(* What the controller's helpers establish. *)

\* fail() ends in a state that satisfies Control, whatever the channel does.
LEMMA FailsInv ==
  ASSUME ControllerTypeOK, Fails
  PROVE  ControllerTypeOK' /\ Control' /\ stage' = "Failed"
  BY DEF ControllerTypeOK, Fails, SetState, Control, StateFitsStage, Stages,
         States, Waiting, Failures, Maybe, ConversationOnOpenSocket, Active,
         WaitIsBounded, CancellationLeavesNothing

LEMMA FailsUnlessInv ==
  ASSUME IInv, NEW ignored \in SUBSET {"Idle", "Failed"}, FailsUnless(ignored),
         ChannelTypeOK'
  PROVE  IInv'
<1>1. CASE stage \in ignored
  BY <1>1 DEF IInv, Typed, ControllerTypeOK, FailsUnless, controllerVars, exchangeVars,
       Control, StateFitsStage, Waiting, ConversationOnOpenSocket, Active,
       WaitIsBounded, CancellationLeavesNothing
<1>2. CASE stage \notin ignored
  BY <1>2, FailsInv DEF IInv, Typed, FailsUnless
<1> QED BY <1>1, <1>2

\* begin() ends connected and waiting, connecting, or failed.
LEMMA AttemptInv ==
  ASSUME Typed, NEW u, NEW s, Beginnable(u), u \in Maybe(Names), Attempt(u, s),
         pendingUser' = None, cancellationFailure' = "none",
         authenticationError' \in Failures, UNCHANGED <<selectedSession, saved>>
  PROVE  IInv'
<1> USE DEF Typed
<1>1. u \in Names
  BY DEF Beginnable, Maybe
<1> DEFINE create == [type |-> "create", arg |-> u]
<1>2. <<create>> \in Seq(Request) /\ <<create>> # <<>> /\ <<>> \in Seq(Request)
  BY <1>1 DEF Request, Maybe
<1>3. CASE /\ stage' = "Authenticating" /\ SetState("waiting", "none")
           /\ Replace("Connected", <<create>>)
  <2>1. ChannelTypeOK'
    BY <1>2, <1>3, ReplaceType DEF SocketStates
  <2>2. timer' /\ socket' = "Connected"
    BY <1>2, <1>3 DEF Replace
  <2> QED
    BY <1>1, <1>3, <2>1, <2>2
    DEF IInv, ControllerTypeOK, SetState, Attempt, Control, StateFitsStage, Stages, States,
        Waiting, Failures, Maybe, ConversationOnOpenSocket, Active, WaitIsBounded,
        CancellationLeavesNothing
<1>4. CASE /\ stage' = "Connecting" /\ SetState("connecting", "none")
           /\ Replace("Connecting", <<>>)
  <2>1. ChannelTypeOK'
    BY <1>2, <1>4, ReplaceType DEF SocketStates
  <2>2. timer' /\ socket' = "Connecting"
    BY <1>4 DEF Replace
  <2> QED
    BY <1>1, <1>4, <2>1, <2>2
    DEF IInv, ControllerTypeOK, SetState, Attempt, Control, StateFitsStage, Stages, States,
        Waiting, Failures, Maybe, ConversationOnOpenSocket, Active, WaitIsBounded,
        CancellationLeavesNothing
<1>5. CASE /\ stage' = "Failed" /\ SetState("failed", "failure")
           /\ ChannelTypeOK'
  BY <1>1, <1>5
  DEF IInv, ControllerTypeOK, SetState, Attempt, Control, StateFitsStage, Stages, States,
      Waiting, Failures, Maybe, ConversationOnOpenSocket, Active, WaitIsBounded,
      CancellationLeavesNothing
<1>6. ASSUME NEW t \in SocketStates, Replace(t, <<>>) PROVE ChannelTypeOK'
  BY <1>2, <1>6, ReplaceType
<1>7. Drop => ChannelTypeOK'
  BY DropType
<1> QED
  BY <1>3, <1>4, <1>5, <1>6, <1>7 DEF Attempt, SocketStates

LEMMA FreshAttemptInv ==
  ASSUME IInv, NEW u \in Maybe(Names), NEW s, Beginnable(u), FreshAttempt(u, s),
         stage # "Cancelling", UNCHANGED <<selectedSession, saved>>
  PROVE  IInv'
<1>1. pendingUser' = None /\ cancellationFailure' = "none"
  BY DEF FreshAttempt, IInv, Control, CancellationLeavesNothing
<1> QED
  BY <1>1, AttemptInv DEF FreshAttempt, IInv, Failures

\* beginCancellation() waits for greetd with the timer running.
LEMMA BeginCancellationInv ==
  ASSUME IInv, NEW failure \in Failures, BeginCancellation(failure),
         pendingUser' \in Maybe(Names), input' \in Seq(Reply),
         authenticationError' \in Failures,
         UNCHANGED <<activeUser, selectedSession, saved>>
  PROVE  IInv'
<1>1. [type |-> "cancel", arg |-> None] \in Request
  BY DEF Request
<1>2. ChannelTypeOK'
  BY <1>1, SendType DEF BeginCancellation, IInv, Typed
<1>3. timer' /\ socket' = "Connected"
  BY DEF BeginCancellation, Send
<1> QED
  BY <1>2, <1>3 DEF IInv, Typed, ControllerTypeOK, BeginCancellation, SetState, Control,
     StateFitsStage, Stages, States, Waiting, Failures, ConversationOnOpenSocket, Active,
     WaitIsBounded, CancellationLeavesNothing

-----------------------------------------------------------------------------
(* One lemma per kind of step. *)

\* A controller that has not been used, whatever session is selected.
LEMMA BlankInv == Blank /\ selectedSession \in Maybe(Sessions) => IInv
<1> SUFFICES ASSUME Blank, selectedSession \in Maybe(Sessions) PROVE IInv
  OBVIOUS
<1>1. timer \in BOOLEAN /\ peerClosed \in BOOLEAN
  BY Zenon DEF Blank, ChannelInit
<1>2. ChannelTypeOK
  BY <1>1 DEF Blank, ChannelInit, ChannelTypeOK, SocketStates, Maybe
<1> QED
  BY <1>2 DEF Blank, IInv, Typed, ControllerTypeOK, Stages, States, Waiting,
     Failures, Maybe, Control, StateFitsStage, ConversationOnOpenSocket, Active,
     WaitIsBounded, CancellationLeavesNothing

LEMMA InitInv == ControllerInit => IInv
<1>1. ControllerInit => Blank /\ selectedSession \in Maybe(Sessions)
  BY DEF ControllerInit, Maybe
<1> QED BY <1>1, BlankInv

LEMMA BeginInv ==
  ASSUME IInv, NEW u \in Maybe(Names), Begin(u) PROVE IInv'
<1> USE DEF IInv, Typed
<1>1. CASE BeginWhileCancelling(u)
  BY <1>1 DEF BeginWhileCancelling, channelVars, clientVars, wireVars, greetdVars,
     ChannelTypeOK, ControllerTypeOK, Control, StateFitsStage, ConversationOnOpenSocket,
     WaitIsBounded, CancellationLeavesNothing
<1>2. CASE SwitchWhileConnecting(u)
  <2>1. CASE Beginnable(u) /\ FreshAttempt(u, HungUp)
    BY <1>2, <2>1, FreshAttemptInv DEF SwitchWhileConnecting
  <2>2. CASE /\ stage' = "Idle" /\ SetState("user-selection", "choose")
             /\ activeUser' = None
             /\ Hangup
             /\ UNCHANGED <<prompt, pendingUser, cancellationFailure, authenticationError>>
    <3>1. ChannelTypeOK'
      BY <2>2, HangupType
    <3> QED
      BY <1>2, <2>2, <3>1 DEF SwitchWhileConnecting, SetState, ControllerTypeOK, Stages,
         States, Waiting, Maybe, Control, StateFitsStage, ConversationOnOpenSocket, Active,
         WaitIsBounded, CancellationLeavesNothing
  <2> QED BY <1>2, <2>1, <2>2 DEF SwitchWhileConnecting
<1>3. CASE SwitchAccount(u)
  <2>1. input' \in Seq(Reply)
    BY <1>3 DEF SwitchAccount, ChannelTypeOK
  <2> QED
    BY <1>3, <2>1, BeginCancellationInv
    DEF SwitchAccount, ControllerTypeOK, Failures
<1>4. CASE BeginIdle(u)
  <2>1. CASE Beginnable(u) /\ FreshAttempt(u, socket)
    BY <1>4, <2>1, FreshAttemptInv DEF BeginIdle
  <2>2. CASE /\ SetState("user-selection", "choose")
             /\ UNCHANGED <<stage, prompt, activeUser, pendingUser, cancellationFailure,
                            authenticationError, channelVars>>
    BY <1>4, <2>2 DEF BeginIdle, SetState, channelVars, clientVars, wireVars, greetdVars,
       ChannelTypeOK, ControllerTypeOK, Stages, States, Waiting, Control, StateFitsStage,
       ConversationOnOpenSocket, Active, WaitIsBounded, CancellationLeavesNothing
  <2> QED BY <1>4, <2>1, <2>2 DEF BeginIdle
<1> QED BY <1>1, <1>2, <1>3, <1>4 DEF Begin

LEMMA RespondInv ==
  ASSUME IInv, NEW r \in Maybe(Names), Respond(r) PROVE IInv'
<1> USE DEF IInv, Typed
<1>1. [type |-> "post", arg |-> r] \in Request
  BY DEF Request
<1>2. ChannelTypeOK'
  <2>1. input' \in Seq(Reply)
    BY DEF Respond, ChannelTypeOK
  <2> QED BY <1>1, <2>1, SendType DEF Respond
<1>3. timer' /\ socket' = "Connected"
  BY DEF Respond, Send
<1> QED
  BY <1>2, <1>3 DEF Respond, CanRespond, SetState, ControllerTypeOK, Stages, States, Waiting,
     Failures, Control, StateFitsStage, ConversationOnOpenSocket, Active, WaitIsBounded,
     CancellationLeavesNothing

LEMMA RestartInv ==
  ASSUME IInv, RestartAuthentication PROVE IInv'
<1> USE DEF IInv, Typed
<1>1. CASE stage = "Connecting" /\ Beginnable(activeUser) /\ FreshAttempt(activeUser, HungUp)
  BY <1>1, FreshAttemptInv DEF RestartAuthentication, ControllerTypeOK
<1>2. CASE /\ stage = "Authenticating"
           /\ pendingUser' = activeUser
           /\ BeginCancellation("none")
           /\ UNCHANGED <<activeUser, authenticationError, input>>
  <2>1. input' \in Seq(Reply)
    BY <1>2 DEF ChannelTypeOK
  <2> QED
    BY <1>2, <2>1, BeginCancellationInv
    DEF RestartAuthentication, ControllerTypeOK, Failures
<1> QED BY <1>1, <1>2 DEF RestartAuthentication

LEMMA CancelInv ==
  ASSUME IInv, Cancel PROVE IInv'
<1> USE DEF IInv, Typed
<1>1. CASE /\ stage = "Connecting"
           /\ Hangup
           /\ stage' = "Idle" /\ SetState("user-selection", "none")
           /\ activeUser' = None /\ prompt' = "none"
           /\ UNCHANGED cancellationFailure
  <2>1. ChannelTypeOK'
    BY <1>1, HangupType
  <2> QED
    BY <1>1, <2>1 DEF Cancel, SetState, ControllerTypeOK, Stages, States, Waiting, Failures,
       Maybe, Control, StateFitsStage, ConversationOnOpenSocket, Active, WaitIsBounded,
       CancellationLeavesNothing
<1>2. CASE /\ stage = "Failed"
           /\ stage' = "Idle" /\ SetState("user-selection", "none")
           /\ activeUser' = None /\ prompt' = "none"
           /\ UNCHANGED <<cancellationFailure, channelVars>>
  BY <1>2 DEF Cancel, SetState, channelVars, clientVars, wireVars, greetdVars, ChannelTypeOK,
     ControllerTypeOK, Stages, States, Waiting, Failures, Maybe, Control, StateFitsStage,
     ConversationOnOpenSocket, Active, WaitIsBounded, CancellationLeavesNothing
<1>3. CASE /\ stage \in {"Authenticating", "Starting"}
           /\ BeginCancellation("none")
           /\ UNCHANGED <<activeUser, input>>
  <2>1. input' \in Seq(Reply)
    BY <1>3 DEF ChannelTypeOK
  <2> QED
    BY <1>3, <2>1, BeginCancellationInv DEF Cancel, ControllerTypeOK, Failures, Maybe
<1>4. CASE /\ stage = "Cancelling"
           /\ UNCHANGED <<stage, state, status, prompt, activeUser,
                          cancellationFailure, channelVars>>
  BY <1>4 DEF Cancel, channelVars, clientVars, wireVars, greetdVars, ChannelTypeOK,
     ControllerTypeOK, Maybe, Control, StateFitsStage, ConversationOnOpenSocket,
     WaitIsBounded, CancellationLeavesNothing
<1> QED BY <1>1, <1>2, <1>3, <1>4 DEF Cancel

LEMMA SetSelectedSessionInv ==
  ASSUME IInv, NEW s \in Sessions, SetSelectedSession(s) PROVE IInv'
BY DEF IInv, Typed, SetSelectedSession, exchangeVars, channelVars, clientVars, wireVars,
   greetdVars, ChannelTypeOK, ControllerTypeOK, Maybe, Control, StateFitsStage,
   ConversationOnOpenSocket, WaitIsBounded, CancellationLeavesNothing

LEMMA FinishCancellationInv ==
  ASSUME IInv, FinishCancellation PROVE IInv'
<1> USE DEF IInv, Typed
<1>1. CASE /\ Beginnable(pendingUser)
           /\ Attempt(pendingUser, HungUp)
           /\ authenticationError' = cancellationFailure
  BY <1>1, AttemptInv DEF FinishCancellation, ControllerTypeOK
<1>2. CASE /\ stage' \in {"Idle", "Failed"}
           /\ state' = IF stage' = "Idle" THEN "user-selection" ELSE "failed"
           /\ status' \in Failures \cup {"choose"}
           /\ activeUser' = None /\ prompt' = "none"
           /\ authenticationError' \in Failures
           /\ Hangup
  <2>1. ChannelTypeOK'
    BY <1>2, HangupType
  <2> QED
    BY <1>2, <2>1 DEF FinishCancellation, ControllerTypeOK, Stages, States, Waiting, Failures,
       Maybe, Control, StateFitsStage, ConversationOnOpenSocket, Active, WaitIsBounded,
       CancellationLeavesNothing
<1> QED
  BY <1>1, <1>2 DEF FinishCancellation, SetState, ControllerTypeOK, Failures

LEMMA TailType ==
  ASSUME ChannelTypeOK, input # <<>> PROVE Tail(input) \in Seq(Reply)
BY DEF ChannelTypeOK

LEMMA ConsumedOnlyType ==
  ASSUME ChannelTypeOK, input # <<>>, ConsumedOnly PROVE ChannelTypeOK'
<1>1. timer' \in BOOLEAN
  BY Zenon DEF ConsumedOnly
<1>2. input' \in Seq(Reply)
  BY TailType DEF ConsumedOnly
<1>3. UNCHANGED <<socket, outbox, toServer, toClient, phase, peerUser, scheduled,
                  peerClosed>>
  BY DEF ConsumedOnly, wireVars, greetdVars
<1> QED BY <1>1, <1>2, <1>3 DEF ChannelTypeOK

LEMMA ConsumedAndSentType ==
  ASSUME ChannelTypeOK, input # <<>>, NEW q \in Request, ConsumedAndSent(q)
  PROVE  ChannelTypeOK' /\ timer' /\ UNCHANGED socket
<1>1. input' \in Seq(Reply)
  BY TailType DEF ConsumedAndSent
<1> QED BY <1>1, SendType DEF ConsumedAndSent, Send

LEMMA PromptForInputInv ==
  ASSUME IInv, PromptForInput PROVE IInv'
<1> USE DEF IInv, Typed
<1>1. ChannelTypeOK' /\ UNCHANGED socket
  BY ConsumedOnlyType DEF PromptForInput, Receives, ConsumedOnly
<1> QED
  BY <1>1 DEF PromptForInput, KindsForInput, SetState, ControllerTypeOK, Stages, States,
     Waiting, Failures, Control, StateFitsStage, ConversationOnOpenSocket, Active,
     WaitIsBounded, CancellationLeavesNothing

LEMMA PromptToShowInv ==
  ASSUME IInv, PromptToShow PROVE IInv'
<1> USE DEF IInv, Typed
<1>1. [type |-> "post", arg |-> None] \in Request
  BY DEF Request, Maybe
<1>2. ChannelTypeOK' /\ timer' /\ UNCHANGED socket
  BY <1>1, ConsumedAndSentType DEF PromptToShow, Receives
<1> QED
  BY <1>2 DEF PromptToShow, SetState, ControllerTypeOK, Stages, States, Waiting, Failures,
     Control, StateFitsStage, ConversationOnOpenSocket, Active, WaitIsBounded,
     CancellationLeavesNothing

LEMMA AuthenticationSucceededInv ==
  ASSUME IInv, AuthenticationSucceeded PROVE IInv'
<1> USE DEF IInv, Typed
<1>1. [type |-> "start", arg |-> selectedSession] \in Request
  BY DEF Request, ControllerTypeOK
<1>2. ChannelTypeOK' /\ timer' /\ UNCHANGED socket
  BY <1>1, ConsumedAndSentType DEF AuthenticationSucceeded, Receives
<1> QED
  BY <1>2 DEF AuthenticationSucceeded, SuccessStarts, SetState, ControllerTypeOK, Stages,
     States, Waiting, Failures, Control, StateFitsStage, ConversationOnOpenSocket, Active,
     WaitIsBounded, CancellationLeavesNothing

LEMMA SessionAcceptedInv ==
  ASSUME IInv, SessionAccepted PROVE IInv'
<1> USE DEF IInv, Typed
<1>1. ChannelTypeOK'
  BY HangupType DEF SessionAccepted
<1> QED
  BY <1>1 DEF SessionAccepted, SetState, ControllerTypeOK, Stages, States, Waiting,
     Failures, Control, StateFitsStage, ConversationOnOpenSocket, Active, WaitIsBounded,
     CancellationLeavesNothing

LEMMA AuthenticationRefusedInv ==
  ASSUME IInv, AuthenticationRefused PROVE IInv'
<1> USE DEF IInv, Typed
<1>1. input' \in Seq(Reply)
  BY TailType DEF AuthenticationRefused, Receives
<1> QED
  BY <1>1, BeginCancellationInv DEF AuthenticationRefused, ControllerTypeOK, Failures

LEMMA HandleMessageInv ==
  ASSUME IInv, HandleMessage PROVE IInv'
<1>1. CASE HandleFailure
  BY <1>1, HangupType, FailsInv DEF HandleFailure, IInv, Typed
<1>2. CASE ConsumeFailure
  BY <1>2, DropType, FailsInv DEF ConsumeFailure, IInv, Typed
<1> QED
  BY <1>1, <1>2, FinishCancellationInv, PromptForInputInv, PromptToShowInv,
     AuthenticationSucceededInv, SessionAcceptedInv, AuthenticationRefusedInv
  DEF HandleMessage

LEMMA ConnectCompletesInv ==
  ASSUME IInv, ConnectCompletes PROVE IInv'
<1> USE DEF IInv, Typed
<1> DEFINE create == [type |-> "create", arg |-> activeUser]
<1>1. <<create>> \in Seq(Request) /\ <<create>> # <<>> /\ <<>> \in Seq(Request)
  BY DEF Request, ControllerTypeOK
<1>2. CASE /\ stage = "Connecting"
           /\ stage' = "Authenticating" /\ SetState("waiting", "none")
           /\ Replace("Connected", <<create>>)
           /\ UNCHANGED <<prompt, activeUser, pendingUser, cancellationFailure,
                          authenticationError, selectedSession, saved>>
  <2>1. ChannelTypeOK'
    BY <1>1, <1>2, ReplaceType DEF SocketStates
  <2>2. timer' /\ socket' = "Connected"
    BY <1>1, <1>2 DEF Replace
  <2> QED
    BY <1>2, <2>1, <2>2 DEF SetState, ControllerTypeOK, Stages, States, Waiting, Failures,
       Control, StateFitsStage, ConversationOnOpenSocket, Active, WaitIsBounded,
       CancellationLeavesNothing
<1>3. CASE stage = "Idle" /\ Fails /\ Drop
  BY <1>3, DropType, FailsInv
<1>4. CASE /\ stage = "Failed"
           /\ Replace("Connected", <<>>)
           /\ UNCHANGED controllerVars
  <2>1. ChannelTypeOK'
    BY <1>1, <1>4, ReplaceType DEF SocketStates
  <2> QED
    BY <1>4, <2>1 DEF controllerVars, exchangeVars, ControllerTypeOK, Waiting, Control,
       StateFitsStage, ConversationOnOpenSocket, Active, WaitIsBounded,
       CancellationLeavesNothing
<1> QED BY <1>2, <1>3, <1>4 DEF ConnectCompletes

LEMMA TransportInv ==
  ASSUME IInv, Transport PROVE IInv'
<1> USE DEF IInv, Typed
<1>1. CASE Timeout \/ SocketFault
  BY <1>1, DropType, FailsUnlessInv DEF Timeout, SocketFault
<1>2. CASE Disconnected
  BY <1>2, DropType, FailsUnlessInv DEF Disconnected, QuietWhenDisconnected
<1>3. CASE (Flush \/ ReadyRead) /\ UNCHANGED controllerVars
  <2>1. ChannelTypeOK' /\ UNCHANGED <<socket, timer>>
    BY <1>3, FlushType, ReadyReadType DEF Flush, ReadyRead
  <2> QED
    BY <1>3, <2>1 DEF controllerVars, exchangeVars, ControllerTypeOK, Control,
       StateFitsStage, ConversationOnOpenSocket, WaitIsBounded, CancellationLeavesNothing
<1> QED BY <1>1, <1>2, <1>3, ConnectCompletesInv DEF Transport

LEMMA GreetdInv ==
  ASSUME IInv, Greetd PROVE IInv'
<1> USE DEF IInv, Typed
<1>1. ChannelTypeOK'
  <2>1. CASE GreetdAnswers
    BY <2>1, GreetdAnswersType
  <2>2. CASE PeerCloses
    <3>1. peerClosed' \in BOOLEAN
      BY <2>2, Zenon DEF PeerCloses
    <3> QED BY <2>2, <3>1 DEF PeerCloses, ChannelTypeOK, clientVars
  <2> QED BY <2>1, <2>2 DEF Greetd
<1>2. UNCHANGED <<socket, timer>>
  BY DEF Greetd, GreetdAnswers, PeerCloses, clientVars
<1> QED
  BY <1>1, <1>2 DEF Greetd, controllerVars, exchangeVars, ControllerTypeOK, Control,
     StateFitsStage, ConversationOnOpenSocket, WaitIsBounded, CancellationLeavesNothing

LEMMA UnchangedInv ==
  ASSUME IInv, UNCHANGED vars PROVE IInv'
BY DEF IInv, Typed, vars, controllerVars, exchangeVars, channelVars, clientVars, wireVars,
   greetdVars, ChannelTypeOK, ControllerTypeOK, Control, StateFitsStage,
   ConversationOnOpenSocket, WaitIsBounded, CancellationLeavesNothing

\* The invariant is inductive.
LEMMA NextInv ==
  ASSUME IInv, [ControllerNext]_vars PROVE IInv'
<1>1. CASE Calls
  BY <1>1, BeginInv, RespondInv, RestartInv, CancelInv, SetSelectedSessionInv DEF Calls
<1>2. CASE Exited \/ UNCHANGED vars
  BY <1>2, UnchangedInv DEF Exited
<1> QED
  BY <1>1, <1>2, HandleMessageInv, TransportInv, GreetdInv DEF ControllerNext

-----------------------------------------------------------------------------
(* The state file. *)

\* Only an accepted session start writes it.
LEMMA OnlyAcceptanceSaves ==
  ASSUME [ControllerNext]_vars, saved' # saved PROVE SessionAccepted
<1>1. CASE Calls
  <2>1. UNCHANGED saved
    BY <1>1 DEF Calls, Respond, RestartAuthentication, Cancel, Begin, BeginWhileCancelling,
       SwitchWhileConnecting, SwitchAccount, BeginIdle, SetSelectedSession
  <2> QED BY <2>1
<1>2. CASE HandleMessage
  BY <1>2 DEF HandleMessage, FinishCancellation, PromptForInput, PromptToShow,
     AuthenticationSucceeded, AuthenticationRefused, HandleFailure, ConsumeFailure, Fails
<1>3. CASE Transport \/ Greetd \/ Exited \/ UNCHANGED vars
  <2>1. UNCHANGED saved
    BY <1>3 DEF Transport, ConnectCompletes, Timeout, SocketFault, Disconnected, FailsUnless,
       Fails, Greetd, Exited, vars, controllerVars
  <2> QED BY <2>1
<1> QED BY <1>1, <1>2, <1>3 DEF ControllerNext

\* What is written are names and sessions.
LEMMA SavedTypeNext ==
  IInv /\ SavedTypeOK /\ [ControllerNext]_vars => SavedTypeOK'
<1> SUFFICES ASSUME IInv, SavedTypeOK, [ControllerNext]_vars, saved' # saved
             PROVE  SavedTypeOK'
  BY DEF SavedTypeOK
<1>1. SessionAccepted
  BY OnlyAcceptanceSaves
<1>2. activeUser \in Maybe(Names) /\ selectedSession \in Maybe(Sessions)
  BY DEF IInv, Typed, ControllerTypeOK
<1> QED
  BY <1>1, <1>2 DEF SessionAccepted, RememberedUser, Written, SavedTypeOK, Maybe

-----------------------------------------------------------------------------
\* Every behaviour of the controller stays within the inductive invariant.
THEOREM Invariance == ControllerSpec => []IInv
<1>1. ControllerInit => IInv
  BY InitInv
<1>2. IInv /\ [ControllerNext]_vars => IInv'
  BY NextInv
<1> QED BY <1>1, <1>2, PTL DEF ControllerSpec

\* Every variable of the controller and of the channel keeps its type.
THEOREM TypeCorrect == ControllerSpec => []TypeOK
<1>1. ControllerInit => SavedTypeOK
  BY DEF ControllerInit, SavedTypeOK, Maybe
<1>2. IInv /\ SavedTypeOK => TypeOK
  BY DEF IInv, Typed, TypeOK
<1> QED BY <1>1, <1>2, SavedTypeNext, Invariance, PTL DEF ControllerSpec

\* The user never waits without a deadline (the timer of greetdclient.cpp).
THEOREM BoundedWait == ControllerSpec => []WaitIsBounded
<1>1. IInv => WaitIsBounded
  BY DEF IInv, Control
<1> QED BY <1>1, Invariance, PTL

\* Every request of the controller is sent on an open socket.
THEOREM OpenSocket == ControllerSpec => []ConversationOnOpenSocket
<1>1. IInv => ConversationOnOpenSocket
  BY DEF IInv, Control
<1> QED BY <1>1, Invariance, PTL

\* Nothing of a cancellation outlives it.
THEOREM NothingLeft == ControllerSpec => []CancellationLeavesNothing
<1>1. IInv => CancellationLeavesNothing
  BY DEF IInv, Control
<1> QED BY <1>1, Invariance, PTL

-----------------------------------------------------------------------------
(* Requests and replies stay paired.  Owed is a concatenation of four         *)
(* sequences; the proof works with its length (Waits) and its elements        *)
(* (OwedAt), on which every step of the channel is simple.                    *)

\* The length of Owed.
Waits == Len(input) + Len(toClient) + Len(toServer) + Len(outbox)

\* Its k-th element.
OwedAt(k) ==
  IF k <= Len(input) THEN input[k].re
  ELSE IF k <= Len(input) + Len(toClient) THEN toClient[k - Len(input)].re
  ELSE IF k <= Len(input) + Len(toClient) + Len(toServer)
       THEN toServer[k - (Len(input) + Len(toClient))].type
       ELSE outbox[k - (Len(input) + Len(toClient) + Len(toServer))].type

LEMMA ConcatAt ==
  ASSUME NEW S, NEW s \in Seq(S), NEW t \in Seq(S), NEW m, NEW n, Len(s) = m, Len(t) = n
  PROVE  /\ s \o t \in Seq(S)
         /\ Len(s \o t) = m + n
         /\ \A i \in 1..m + n : (s \o t)[i] = IF i <= m THEN s[i] ELSE t[i - m]
BY ConcatProperties

LEMMA OwedIs ==
  ASSUME ChannelTypeOK
  PROVE  /\ Owed \in Seq(RequestTypes)
         /\ Len(Owed) = Waits
         /\ \A k \in 1..Waits : Owed[k] = OwedAt(k)
<1> DEFINE a == [i \in 1..Len(input) |-> input[i].re]
           b == [i \in 1..Len(toClient) |-> toClient[i].re]
           c == [i \in 1..Len(toServer) |-> toServer[i].type]
           d == [i \in 1..Len(outbox) |-> outbox[i].type]
<1>1. \A q \in Request : q.type \in RequestTypes
  BY DEF Request, RequestTypes
<1>2. \A r \in Reply : r.re \in RequestTypes
  BY DEF Reply
<1>3. a \in Seq(RequestTypes) /\ Len(a) = Len(input)
  BY <1>2 DEF ChannelTypeOK
<1>4. b \in Seq(RequestTypes) /\ Len(b) = Len(toClient)
  BY <1>2 DEF ChannelTypeOK
<1>5. c \in Seq(RequestTypes) /\ Len(c) = Len(toServer)
  BY <1>1 DEF ChannelTypeOK
<1>6. d \in Seq(RequestTypes) /\ Len(d) = Len(outbox)
  BY <1>1 DEF ChannelTypeOK
<1>7. Owed = ((a \o b) \o c) \o d
  BY DEF Owed
<1>8. /\ Len(input) \in Nat /\ Len(toClient) \in Nat /\ Len(toServer) \in Nat
      /\ Len(outbox) \in Nat
  BY DEF ChannelTypeOK
<1>9. /\ \A i \in 1..Len(input) : a[i] = input[i].re
      /\ \A i \in 1..Len(toClient) : b[i] = toClient[i].re
      /\ \A i \in 1..Len(toServer) : c[i] = toServer[i].type
      /\ \A i \in 1..Len(outbox) : d[i] = outbox[i].type
  OBVIOUS
<1> HIDE DEF a, b, c, d
<1>10. /\ a \o b \in Seq(RequestTypes) /\ Len(a \o b) = Len(input) + Len(toClient)
       /\ \A i \in 1..Len(input) + Len(toClient) :
            (a \o b)[i] = IF i <= Len(input) THEN a[i] ELSE b[i - Len(input)]
  BY <1>3, <1>4, ConcatAt
<1> DEFINE ab == a \o b
<1> HIDE DEF ab
<1>11. /\ ab \o c \in Seq(RequestTypes)
       /\ Len(ab \o c) = Len(input) + Len(toClient) + Len(toServer)
       /\ \A i \in 1..Len(input) + Len(toClient) + Len(toServer) :
            (ab \o c)[i] = IF i <= Len(input) + Len(toClient) THEN ab[i]
                           ELSE c[i - (Len(input) + Len(toClient))]
  <2>1. ab \in Seq(RequestTypes) /\ Len(ab) = Len(input) + Len(toClient)
    BY <1>10 DEF ab
  <2> QED BY <2>1, <1>5, ConcatAt
<1> DEFINE abc == ab \o c
<1> HIDE DEF abc
<1>12. /\ abc \o d \in Seq(RequestTypes)
       /\ Len(abc \o d) = Waits
       /\ \A i \in 1..Waits :
            (abc \o d)[i] = IF i <= Len(input) + Len(toClient) + Len(toServer) THEN abc[i]
                            ELSE d[i - (Len(input) + Len(toClient) + Len(toServer))]
  <2>1. abc \in Seq(RequestTypes) /\ Len(abc) = Len(input) + Len(toClient) + Len(toServer)
    BY <1>11 DEF abc
  <2> HIDE DEF abc
  <2> QED BY <2>1, <1>6, ConcatAt DEF Waits
<1>13. Owed = abc \o d
  BY <1>7 DEF ab, abc
<1>14. ASSUME NEW k \in 1..Waits PROVE Owed[k] = OwedAt(k)
  <2>1. k \in Nat /\ 1 <= k /\ k <= Waits
    BY <1>8 DEF Waits
  <2>2. Owed[k] = IF k <= Len(input) + Len(toClient) + Len(toServer) THEN abc[k]
                  ELSE d[k - (Len(input) + Len(toClient) + Len(toServer))]
    BY <1>12, <1>13
  <2>3. k <= Len(input) + Len(toClient) + Len(toServer) =>
          abc[k] = IF k <= Len(input) + Len(toClient) THEN ab[k]
                   ELSE c[k - (Len(input) + Len(toClient))]
    BY <1>8, <1>11, <2>1 DEF abc
  <2>4. k <= Len(input) + Len(toClient) =>
          ab[k] = IF k <= Len(input) THEN a[k] ELSE b[k - Len(input)]
    BY <1>8, <1>10, <2>1 DEF ab
  <2>5. CASE k <= Len(input)
    BY <2>5, <1>8, <1>9, <2>1, <2>2, <2>3, <2>4 DEF OwedAt
  <2>6. CASE k > Len(input) /\ k <= Len(input) + Len(toClient)
    <3>1. Owed[k] = b[k - Len(input)] /\ k - Len(input) \in 1..Len(toClient)
      BY <2>6, <1>8, <2>1, <2>2, <2>3, <2>4
    <3> QED BY <2>6, <3>1, <1>8, <1>9, <2>1 DEF OwedAt
  <2>7. CASE k > Len(input) + Len(toClient) /\ k <= Len(input) + Len(toClient) + Len(toServer)
    <3> DEFINE j == k - (Len(input) + Len(toClient))
    <3>1. Owed[k] = c[j] /\ j \in 1..Len(toServer) /\ k > Len(input)
      BY <2>7, <1>8, <2>1, <2>2, <2>3
    <3>2. c[j] = toServer[j].type
      BY <3>1, <1>9
    <3> QED BY <2>7, <3>1, <3>2, <1>8, <2>1 DEF OwedAt
  <2>8. CASE k > Len(input) + Len(toClient) + Len(toServer)
    <3> DEFINE j == k - (Len(input) + Len(toClient) + Len(toServer))
    <3>1. Owed[k] = d[j] /\ j \in 1..Len(outbox)
      BY <2>8, <1>8, <2>1, <2>2 DEF Waits
    <3>2. d[j] = outbox[j].type /\ k > Len(input) /\ k > Len(input) + Len(toClient)
      BY <2>8, <3>1, <1>8, <1>9, <2>1
    <3> QED BY <2>8, <3>1, <3>2, <1>8, <2>1 DEF OwedAt
  <2> QED BY <2>5, <2>6, <2>7, <2>8, <1>8, <2>1
<1> QED BY <1>12, <1>13, <1>14

-----------------------------------------------------------------------------
(* What the steps of the channel do to what is owed. *)

LEMMA LengthsAreNat ==
  ASSUME ChannelTypeOK
  PROVE  /\ Len(input) \in Nat /\ Len(toClient) \in Nat
         /\ Len(toServer) \in Nat /\ Len(outbox) \in Nat /\ Waits \in Nat
BY DEF ChannelTypeOK, Waits

\* Moving bytes or answering a request changes nothing of it.
LEMMA FlushOwes ==
  ASSUME ChannelTypeOK, Flush
  PROVE  Waits' = Waits /\ \A k \in 1..Waits : OwedAt(k)' = OwedAt(k)
<1>1. /\ toServer' = toServer \o outbox /\ outbox' = <<>>
      /\ input' = input /\ toClient' = toClient
  BY DEF Flush
<1>2. /\ Len(toServer') = Len(toServer) + Len(outbox) /\ Len(outbox') = 0
      /\ \A i \in 1..Len(toServer) + Len(outbox) :
           toServer'[i] = IF i <= Len(toServer) THEN toServer[i]
                          ELSE outbox[i - Len(toServer)]
  BY <1>1, ConcatAt DEF ChannelTypeOK
<1> QED BY <1>1, <1>2, LengthsAreNat DEF Waits, OwedAt

LEMMA ReadyReadOwes ==
  ASSUME ChannelTypeOK, ReadyRead
  PROVE  Waits' = Waits /\ \A k \in 1..Waits : OwedAt(k)' = OwedAt(k)
<1>1. PICK n \in 1..Len(toClient) :
        /\ input' = SubSeq(toClient, 1, n)
        /\ toClient' = SubSeq(toClient, n + 1, Len(toClient))
  BY DEF ReadyRead
<1>2. /\ Len(input') = n /\ Len(toClient') = Len(toClient) - n
      /\ \A i \in 1..n : input'[i] = toClient[i]
      /\ \A i \in 1..Len(toClient) - n : toClient'[i] = toClient[n + i]
  BY <1>1, LengthsAreNat DEF ChannelTypeOK
<1>3. Len(input) = 0 /\ outbox' = outbox /\ toServer' = toServer
  BY DEF ReadyRead
<1> QED BY <1>2, <1>3, LengthsAreNat DEF Waits, OwedAt

LEMMA GreetdAnswersOwes ==
  ASSUME ChannelTypeOK, GreetdAnswers
  PROVE  Waits' = Waits /\ \A k \in 1..Waits : OwedAt(k)' = OwedAt(k)
<1>1. PICK r \in AnswersTo(Head(toServer)) :
        toServer' = Tail(toServer) /\ toClient' = Append(toClient, r)
  BY DEF GreetdAnswers
<1>2. Head(toServer) \in Request /\ Head(toServer) = toServer[1] /\ Len(toServer) >= 1
  BY DEF GreetdAnswers, ChannelTypeOK
<1>3. r \in Reply /\ r.re = toServer[1].type
  BY <1>2, AnswersType
<1>4. /\ Len(toServer') = Len(toServer) - 1
      /\ \A i \in 1..Len(toServer) - 1 : toServer'[i] = toServer[i + 1]
      /\ Len(toClient') = Len(toClient) + 1
      /\ \A i \in 1..Len(toClient) : toClient'[i] = toClient[i]
      /\ toClient'[Len(toClient) + 1] = r
  BY <1>1, <1>2, <1>3 DEF ChannelTypeOK
<1>5. input' = input /\ outbox' = outbox
  BY DEF GreetdAnswers, clientVars
<1>6. Waits' = Waits
  BY <1>2, <1>4, <1>5, LengthsAreNat DEF Waits
<1>7. ASSUME NEW k \in 1..Waits PROVE OwedAt(k)' = OwedAt(k)
  <2> DEFINE before == Len(input) + Len(toClient)
  <2>1. k \in Nat /\ k >= 1
    BY LengthsAreNat
  <2>2. CASE k <= before
    BY <1>4, <1>5, <2>1, <2>2, LengthsAreNat DEF OwedAt
  <2>3. CASE k = before + 1
    <3>1. OwedAt(k) = toServer[1].type
      BY <1>2, <2>3, LengthsAreNat DEF OwedAt
    <3>2. OwedAt(k)' = toClient'[Len(toClient) + 1].re
      BY <1>4, <1>5, <2>3, LengthsAreNat DEF OwedAt
    <3> QED BY <1>3, <1>4, <3>1, <3>2
  <2>4. CASE k > before + 1
    <3>1. k - before \in Nat /\ k - before >= 2
      BY <2>1, <2>4, LengthsAreNat
    <3>2. CASE k - before <= Len(toServer)
      <4>1. OwedAt(k) = toServer[k - before].type
        BY <2>1, <3>1, <3>2, LengthsAreNat DEF OwedAt
      <4>2. OwedAt(k)' = toServer'[k - before - 1].type
        BY <1>4, <1>5, <2>1, <3>1, <3>2, LengthsAreNat DEF OwedAt
      <4>3. toServer'[k - before - 1] = toServer[k - before]
        <5> DEFINE j == k - before - 1
        <5>1. j \in 1..Len(toServer) - 1 /\ j + 1 = k - before
          BY <3>1, <3>2, LengthsAreNat
        <5> HIDE DEF j
        <5>2. toServer'[j] = toServer[j + 1]
          BY <1>4, <5>1
        <5> QED BY <5>1, <5>2 DEF j
      <4> QED BY <4>1, <4>2, <4>3
    <3>3. CASE k - before > Len(toServer)
      BY <1>4, <1>5, <2>1, <3>1, <3>3, LengthsAreNat DEF OwedAt
    <3> QED BY <3>1, <3>2, <3>3, LengthsAreNat
  <2> QED BY <2>1, <2>2, <2>3, <2>4, LengthsAreNat
<1> QED BY <1>6, <1>7

\* A request is owed last; the reply being handled answered the first.
LEMMA SendOwes ==
  ASSUME ChannelTypeOK, NEW q \in Request, Send(q), UNCHANGED input
  PROVE  /\ Waits' = Waits + 1
         /\ \A k \in 1..Waits : OwedAt(k)' = OwedAt(k)
         /\ \A k \in {Waits + 1} : OwedAt(k)' = q.type
<1>1. /\ outbox' = Append(outbox, q) /\ input' = input
      /\ toServer' = toServer /\ toClient' = toClient
  BY DEF Send, wireVars
<1>2. /\ Len(outbox') = Len(outbox) + 1 /\ outbox'[Len(outbox) + 1] = q
      /\ \A i \in 1..Len(outbox) : outbox'[i] = outbox[i]
  BY <1>1 DEF ChannelTypeOK
<1> QED BY <1>1, <1>2, LengthsAreNat DEF Waits, OwedAt

LEMMA ConsumedOwes ==
  ASSUME ChannelTypeOK, input # <<>>, ConsumedOnly
  PROVE  /\ Waits' = Waits - 1
         /\ \A k \in 1..Waits - 1 : OwedAt(k)' = OwedAt(k + 1)
<1>1. /\ input' = Tail(input) /\ outbox' = outbox
      /\ toServer' = toServer /\ toClient' = toClient
  BY DEF ConsumedOnly, wireVars
<1>2. /\ Len(input) >= 1 /\ Len(input') = Len(input) - 1
      /\ \A i \in 1..Len(input) - 1 : input'[i] = input[i + 1]
  BY <1>1 DEF ChannelTypeOK
<1> QED BY <1>1, <1>2, LengthsAreNat DEF Waits, OwedAt

LEMMA ConsumedAndSentOwes ==
  ASSUME ChannelTypeOK, input # <<>>, NEW q \in Request, ConsumedAndSent(q)
  PROVE  /\ Waits' = Waits
         /\ \A k \in 1..Waits - 1 : OwedAt(k)' = OwedAt(k + 1)
         /\ \A k \in {Waits} : OwedAt(k)' = q.type
<1>1. /\ input' = Tail(input) /\ outbox' = Append(outbox, q)
      /\ toServer' = toServer /\ toClient' = toClient
  BY DEF ConsumedAndSent, Send, wireVars
<1>2. /\ Len(input) >= 1 /\ Len(input') = Len(input) - 1
      /\ \A i \in 1..Len(input) - 1 : input'[i] = input[i + 1]
      /\ Len(outbox') = Len(outbox) + 1 /\ outbox'[Len(outbox) + 1] = q
      /\ \A i \in 1..Len(outbox) : outbox'[i] = outbox[i]
  BY <1>1 DEF ChannelTypeOK
<1> QED BY <1>1, <1>2, LengthsAreNat DEF Waits, OwedAt

\* A new stream owes what was written to it.
LEMMA ReplaceOwes ==
  ASSUME NEW s, NEW q \in Request, Replace(s, <<q>>)
  PROVE  Waits' = 1 /\ OwedAt(1)' = q.type
BY DEF Replace, Waits, OwedAt

\* A reply being handled answers the request owed longest.
LEMMA HeadAnswersFirst ==
  ASSUME ChannelTypeOK, input # <<>>
  PROVE  Waits >= 1 /\ OwedAt(1) = Head(input).re /\ Len(input) + Len(toClient) >= 1
<1>1. Len(input) >= 1 /\ Head(input) = input[1]
  BY DEF ChannelTypeOK
<1> QED BY <1>1, LengthsAreNat DEF Waits, OwedAt

-----------------------------------------------------------------------------
\* OnlyCancelOvertakes in terms of Waits and OwedAt.
Paired ==
  ~peerClosed =>
    /\ stage = "Authenticating" =>
         IF state = "input-prompt" THEN Waits = 0
         ELSE Waits = 1 /\ OwedAt(1) \in {"create", "post"}
    /\ stage = "Starting" => Waits = 1 /\ OwedAt(1) = "start"
    /\ stage = "Cancelling" =>
         \/ Waits = 1 /\ OwedAt(1) = "cancel"
         \/ Waits = 2 /\ OwedAt(1) \in RequestTypes \ {"cancel"} /\ OwedAt(2) = "cancel"

LEMMA PairedIsOnlyCancelOvertakes ==
  ASSUME ChannelTypeOK, Paired PROVE OnlyCancelOvertakes
<1>1. /\ Owed \in Seq(RequestTypes) /\ Len(Owed) = Waits
      /\ \A k \in 1..Waits : Owed[k] = OwedAt(k)
  BY OwedIs
<1>2. Waits = 0 => Owed = <<>>
  BY <1>1
<1>3. ASSUME Waits = 1 PROVE Owed = <<OwedAt(1)>>
  <2>1. Owed[1] = OwedAt(1) /\ OwedAt(1) \in RequestTypes
    BY <1>1, <1>3
  <2>2. <<OwedAt(1)>> \in Seq(RequestTypes) /\ Len(<<OwedAt(1)>>) = 1
    BY <2>1
  <2> QED BY <1>1, <1>3, <2>1, <2>2, SeqEqual
<1>4. ASSUME Waits = 2 PROVE Owed = <<OwedAt(1), OwedAt(2)>>
  <2>1. /\ Owed[1] = OwedAt(1) /\ OwedAt(1) \in RequestTypes
        /\ Owed[2] = OwedAt(2) /\ OwedAt(2) \in RequestTypes
    <3>1. ASSUME NEW k \in {1, 2} PROVE Owed[k] = OwedAt(k) /\ OwedAt(k) \in RequestTypes
      <4>1. k \in 1..Waits /\ k \in 1..Len(Owed)
        BY <1>1, <1>4
      <4>2. Owed[k] \in RequestTypes
        BY <1>1, <4>1
      <4> QED BY <1>1, <4>1, <4>2
    <3> QED BY <3>1
  <2>2. /\ <<OwedAt(1), OwedAt(2)>> \in Seq(RequestTypes)
        /\ Len(<<OwedAt(1), OwedAt(2)>>) = 2
    BY <2>1
  <2> QED BY <1>1, <1>4, <2>1, <2>2, SeqEqual
<1> QED BY <1>2, <1>3, <1>4 DEF Paired, OnlyCancelOvertakes

LEMMA AttemptPaired ==
  ASSUME NEW u \in Names, NEW s, Attempt(u, s) PROVE Paired'
<1>1. [type |-> "create", arg |-> u] \in Request
  BY DEF Request, Maybe
<1> QED BY <1>1, ReplaceOwes DEF Attempt, Paired, SetState

\* cancel_session joins the one request that may be unanswered.
LEMMA CancelPaired ==
  ASSUME IInv, Paired, stage \in {"Authenticating", "Starting"}, NEW failure,
         BeginCancellation(failure), UNCHANGED input
  PROVE  Paired'
<1>1. [type |-> "cancel", arg |-> None] \in Request
  BY DEF Request
<1>2. UNCHANGED peerClosed /\ stage' = "Cancelling"
  BY DEF BeginCancellation, Send, greetdVars
<1>3. /\ Waits' = Waits + 1
      /\ \A k \in 1..Waits : OwedAt(k)' = OwedAt(k)
      /\ \A k \in {Waits + 1} : OwedAt(k)' = "cancel"
  BY <1>1, SendOwes DEF BeginCancellation, IInv, Typed
<1> QED BY <1>2, <1>3 DEF Paired, RequestTypes

LEMMA CallsPaired ==
  ASSUME IInv, Paired, Calls PROVE Paired'
<1>1. ASSUME NEW u \in Maybe(Names), Begin(u) PROVE Paired'
  <2>1. Beginnable(u) => u \in Names
    BY DEF Beginnable, Maybe
  <2>2. CASE BeginWhileCancelling(u)
    BY <2>2 DEF BeginWhileCancelling, channelVars, clientVars, wireVars, greetdVars,
       Paired, Waits, OwedAt
  <2>3. CASE SwitchWhileConnecting(u)
    BY <2>1, <2>3, AttemptPaired DEF SwitchWhileConnecting, FreshAttempt, Paired
  <2>4. CASE SwitchAccount(u)
    BY <2>4, CancelPaired DEF SwitchAccount
  <2>5. CASE BeginIdle(u)
    BY <2>1, <2>5, AttemptPaired DEF BeginIdle, FreshAttempt, Paired
  <2> QED BY <1>1, <2>2, <2>3, <2>4, <2>5 DEF Begin
<1>2. ASSUME NEW r \in Maybe(Names), Respond(r) PROVE Paired'
  <2>1. [type |-> "post", arg |-> r] \in Request
    BY DEF Request
  <2>2. /\ Waits' = Waits + 1
        /\ \A k \in {Waits + 1} : OwedAt(k)' = "post"
    BY <1>2, <2>1, SendOwes DEF Respond, IInv, Typed
  <2> QED
    BY <1>2, <2>2 DEF Respond, CanRespond, SetState, Send, greetdVars, Paired
<1>3. CASE RestartAuthentication
  <2>1. CASE stage = "Connecting" /\ Beginnable(activeUser) /\ FreshAttempt(activeUser, HungUp)
    <3>1. activeUser \in Names
      BY <2>1 DEF Beginnable, Maybe, IInv, Typed, ControllerTypeOK
    <3> QED BY <2>1, <3>1, AttemptPaired DEF FreshAttempt
  <2>2. CASE stage = "Authenticating" /\ BeginCancellation("none") /\ UNCHANGED input
    BY <2>2, CancelPaired
  <2> QED BY <1>3, <2>1, <2>2 DEF RestartAuthentication
<1>4. CASE Cancel
  <2>1. CASE stage \in {"Authenticating", "Starting"} /\ BeginCancellation("none") /\ UNCHANGED input
    BY <2>1, CancelPaired
  <2>2. CASE stage' = "Idle"
    BY <2>2 DEF Paired
  <2>3. CASE UNCHANGED <<stage, state, channelVars>>
    BY <2>3 DEF channelVars, clientVars, wireVars, greetdVars, Paired, Waits, OwedAt
  <2> QED BY <1>4, <2>1, <2>2, <2>3 DEF Cancel
<1>5. ASSUME NEW s \in Sessions, SetSelectedSession(s) PROVE Paired'
  BY <1>5 DEF SetSelectedSession, exchangeVars, channelVars, clientVars, wireVars,
     greetdVars, Paired, Waits, OwedAt
<1> QED BY <1>1, <1>2, <1>3, <1>4, <1>5 DEF Calls

LEMMA HandleMessagePaired ==
  ASSUME IInv, Paired, HandleMessage PROVE Paired'
<1> USE DEF IInv, Typed
<1>1. input # <<>>
  BY DEF HandleMessage, FinishCancellation, PromptForInput, PromptToShow,
     AuthenticationSucceeded, SessionAccepted, AuthenticationRefused, HandleFailure,
     ReplyFails, ConsumeFailure, Receives
<1>2. Waits >= 1 /\ OwedAt(1) = Head(input).re
  BY <1>1, HeadAnswersFirst
<1>3. ~peerClosed /\ stage = "Authenticating" => Waits = 1
  BY <1>2 DEF Paired
<1>4. CASE FinishCancellation
  <2>1. Beginnable(pendingUser) => pendingUser \in Names
    BY DEF Beginnable, Maybe, ControllerTypeOK
  <2> QED BY <1>4, <2>1, AttemptPaired DEF FinishCancellation, Paired
<1>5. CASE PromptForInput
  <2>1. Waits' = Waits - 1
    BY <1>1, <1>5, ConsumedOwes DEF PromptForInput
  <2> QED
    BY <1>3, <1>5, <2>1 DEF PromptForInput, SetState, ConsumedOnly, greetdVars, Paired
<1>6. ASSUME NEW q \in Request, ConsumedAndSent(q), stage = "Authenticating"
      PROVE  /\ UNCHANGED peerClosed
             /\ ~peerClosed => Waits' = 1 /\ OwedAt(1)' = q.type
  <2>1. /\ Waits' = Waits
        /\ \A k \in {Waits} : OwedAt(k)' = q.type
    BY <1>1, <1>6, ConsumedAndSentOwes
  <2> QED BY <1>3, <1>6, <2>1 DEF ConsumedAndSent, Send, greetdVars
<1>7. CASE PromptToShow
  <2>1. [type |-> "post", arg |-> None] \in Request
    BY DEF Request, Maybe
  <2> QED BY <1>6, <1>7, <2>1 DEF PromptToShow, SetState, Paired
<1>8. CASE AuthenticationSucceeded
  <2>1. [type |-> "start", arg |-> selectedSession] \in Request
    BY DEF Request, ControllerTypeOK
  <2> QED
    BY <1>6, <1>8, <2>1 DEF AuthenticationSucceeded, SuccessStarts, SetState, Paired
<1>9. CASE AuthenticationRefused
  <2>1. [type |-> "cancel", arg |-> None] \in Request
    BY DEF Request
  <2> QED
    BY <1>6, <1>9, <2>1 DEF AuthenticationRefused, BeginCancellation, SetState,
       ConsumedAndSent, Paired
<1>10. CASE SessionAccepted \/ HandleFailure \/ ConsumeFailure
  BY <1>10 DEF SessionAccepted, HandleFailure, ConsumeFailure, Fails, Paired
<1> QED BY <1>4, <1>5, <1>7, <1>8, <1>9, <1>10 DEF HandleMessage

LEMMA EventsPaired ==
  ASSUME IInv, Paired, Transport \/ Greetd PROVE Paired'
<1> USE DEF IInv, Typed
<1>1. CASE ConnectCompletes
  <2>1. [type |-> "create", arg |-> activeUser] \in Request
    BY DEF Request, ControllerTypeOK
  <2> QED
    BY <1>1, <2>1, ReplaceOwes
    DEF ConnectCompletes, Fails, SetState, controllerVars, exchangeVars, Paired
<1>2. CASE Timeout \/ SocketFault \/ Disconnected
  <2>1. CASE UNCHANGED controllerVars /\ stage \in {"Idle", "Failed"}
    BY <2>1 DEF controllerVars, exchangeVars, Paired
  <2> QED
    BY <1>2, <2>1 DEF Timeout, SocketFault, Disconnected, QuietWhenDisconnected,
       FailsUnless, Fails, Paired
<1>3. CASE (Flush \/ ReadyRead \/ GreetdAnswers) /\ UNCHANGED controllerVars
  <2>1. Waits' = Waits /\ \A k \in 1..Waits : OwedAt(k)' = OwedAt(k)
    BY <1>3, FlushOwes, ReadyReadOwes, GreetdAnswersOwes
  <2>2. UNCHANGED <<stage, state, peerClosed>>
    BY <1>3 DEF controllerVars, exchangeVars, Flush, ReadyRead, GreetdAnswers, greetdVars
  <2> QED BY <2>1, <2>2 DEF Paired
<1>4. CASE PeerCloses
  BY <1>4 DEF PeerCloses, Paired
<1> QED BY <1>1, <1>2, <1>3, <1>4 DEF Transport, Greetd

-----------------------------------------------------------------------------
(* StartOnlyWhenReady needs more than pairing: that the session greetd is    *)
(* configuring is the one the controller shows, that the replies to come     *)
(* tell what it has reached, and that a session is selected.                 *)

\* The requests greetd has still to see, and the replies the greeter has.
Pending == {toServer[i] : i \in 1..Len(toServer)} \cup {outbox[i] : i \in 1..Len(outbox)}
Answered == {input[i] : i \in 1..Len(input)} \cup {toClient[i] : i \in 1..Len(toClient)}

NoStartPending == \A q \in Pending : q.type # "start"

\* Which session greetd configures, and what it has reached.
OneSession ==
  ~peerClosed =>
    /\ stage \notin {"Starting", "Cancelling"} => NoStartPending
    /\ \A q \in Pending :
         q.type = "start" => phase = "ready" /\ peerUser = activeUser /\ q.arg \in Sessions
    /\ stage = "Authenticating" =>
         /\ \A q \in Pending : q.type = "create" => q.arg = activeUser
         /\ (\A q \in Pending : q.type # "create") => peerUser = activeUser
         /\ \A r \in Answered : phase = PhaseAfter(r)

SessionSelected ==
  stage \in {"Connecting", "Authenticating"} => selectedSession \in Sessions

Strong == Paired /\ OneSession /\ SessionSelected

\* The property's view of the two queues is Pending.
LEMMA QueuedIsPending ==
  ASSUME ChannelTypeOK
  PROVE  \A i \in 1..Len(toServer \o outbox) : (toServer \o outbox)[i] \in Pending
<1>1. /\ Len(toServer \o outbox) = Len(toServer) + Len(outbox)
      /\ \A i \in 1..Len(toServer) + Len(outbox) :
           (toServer \o outbox)[i] = IF i <= Len(toServer) THEN toServer[i]
                                     ELSE outbox[i - Len(toServer)]
  BY ConcatAt DEF ChannelTypeOK
<1> QED BY <1>1, LengthsAreNat DEF Pending

LEMMA StrongIsStartOnlyWhenReady ==
  ASSUME ChannelTypeOK, OneSession PROVE StartOnlyWhenReady
BY QueuedIsPending DEF OneSession, StartOnlyWhenReady

\* A pending request is owed at its place.
LEMMA PendingAt ==
  ASSUME ChannelTypeOK
  PROVE  /\ \A i \in 1..Len(toServer) :
              toServer[i].type = OwedAt(Len(input) + Len(toClient) + i)
         /\ \A i \in 1..Len(outbox) :
              outbox[i].type = OwedAt(Len(input) + Len(toClient) + Len(toServer) + i)
BY LengthsAreNat DEF OwedAt

\* Behind a reply only a cancel_session can be pending.
LEMMA PendingBehindReply ==
  ASSUME ChannelTypeOK, Paired, ~peerClosed, Len(input) + Len(toClient) >= 1
  PROVE  /\ stage \in {"Authenticating", "Starting"} => Pending = {}
         /\ stage = "Cancelling" => \A q \in Pending : q.type = "cancel"
<1>1. Waits = 1 => Pending = {}
  BY LengthsAreNat DEF Waits, Pending
<1>2. ASSUME Waits = 2, OwedAt(2) = "cancel" PROVE \A q \in Pending : q.type = "cancel"
  <2>1. ASSUME NEW i \in 1..Len(toServer) PROVE toServer[i].type = "cancel"
    <3>1. Len(input) + Len(toClient) + i = 2
      BY <1>2, LengthsAreNat DEF Waits
    <3> QED BY <1>2, <3>1, PendingAt
  <2>2. ASSUME NEW i \in 1..Len(outbox) PROVE outbox[i].type = "cancel"
    <3>1. Len(input) + Len(toClient) + Len(toServer) + i = 2
      BY <1>2, LengthsAreNat DEF Waits
    <3> QED BY <1>2, <3>1, PendingAt
  <2> QED BY <2>1, <2>2 DEF Pending
<1> QED BY <1>1, <1>2, LengthsAreNat DEF Paired, Waits

\* greetd answers the only request but a cancel_session.
LEMMA AnswerLeaves ==
  ASSUME ChannelTypeOK, Paired, ~peerClosed, GreetdAnswers
  PROVE  /\ Pending' \subseteq Pending
         /\ stage \in {"Authenticating", "Starting"} => Pending' = {} /\ Answered = {}
         /\ stage = "Cancelling" => \A q \in Pending' : q.type = "cancel"
<1>1. /\ toServer' = Tail(toServer) /\ outbox' = outbox /\ Len(toServer) >= 1
  BY DEF GreetdAnswers, clientVars, ChannelTypeOK
<1>2. /\ Len(toServer') = Len(toServer) - 1
      /\ \A i \in 1..Len(toServer) - 1 : toServer'[i] = toServer[i + 1]
  BY <1>1 DEF ChannelTypeOK
<1>3. ASSUME NEW q \in Pending'
      PROVE  \/ \E i \in 2..Len(toServer) : q = toServer[i]
             \/ \E i \in 1..Len(outbox) : q = outbox[i]
  <2>1. CASE \E i \in 1..Len(toServer) - 1 : q = toServer[i + 1]
    <3>1. PICK i \in 1..Len(toServer) - 1 : q = toServer[i + 1]
      BY <2>1
    <3>2. i + 1 \in 2..Len(toServer)
      BY LengthsAreNat
    <3> QED BY <3>1, <3>2
  <2> QED BY <1>1, <1>2, <1>3, <2>1 DEF Pending
<1>4. Pending' \subseteq Pending
  BY <1>1, <1>3, LengthsAreNat DEF Pending
<1>5. ASSUME Waits = 1 PROVE Pending' = {} /\ Answered = {}
  <2>1. Len(toServer) = 1 /\ Len(outbox) = 0 /\ Len(input) = 0 /\ Len(toClient) = 0
    BY <1>1, <1>5, LengthsAreNat DEF Waits
  <2> QED BY <1>3, <2>1 DEF Answered
<1>6. ASSUME Waits = 2, OwedAt(2) = "cancel", NEW q \in Pending' PROVE q.type = "cancel"
  <2>1. ASSUME NEW i \in 2..Len(toServer) PROVE toServer[i].type = "cancel"
    <3>1. Len(input) + Len(toClient) + i = 2 /\ i \in 1..Len(toServer)
      BY <1>6, LengthsAreNat DEF Waits
    <3> QED BY <1>6, <3>1, PendingAt
  <2>2. ASSUME NEW i \in 1..Len(outbox) PROVE outbox[i].type = "cancel"
    <3>1. Len(input) + Len(toClient) + Len(toServer) + i = 2
      BY <1>1, <1>6, LengthsAreNat DEF Waits
    <3> QED BY <1>6, <3>1, PendingAt
  <2> QED BY <1>3, <1>6, <2>1, <2>2
<1>7. CASE stage = "Cancelling"
  BY <1>4, <1>5, <1>6, <1>7 DEF Paired
<1>8. stage \in {"Authenticating", "Starting"} => Waits = 1
  BY <1>1, LengthsAreNat DEF Paired, Waits
<1> QED BY <1>4, <1>5, <1>7, <1>8

LEMMA FlushPends ==
  ASSUME ChannelTypeOK, Flush PROVE Pending' = Pending /\ Answered' = Answered
<1>1. /\ toServer' = toServer \o outbox /\ outbox' = <<>>
      /\ input' = input /\ toClient' = toClient
  BY DEF Flush
<1>2. /\ Len(toServer') = Len(toServer) + Len(outbox) /\ Len(outbox') = 0
      /\ \A i \in 1..Len(toServer) + Len(outbox) :
           toServer'[i] = IF i <= Len(toServer) THEN toServer[i]
                          ELSE outbox[i - Len(toServer)]
  BY <1>1, ConcatAt DEF ChannelTypeOK
<1>3. ASSUME NEW q \in Pending' PROVE q \in Pending
  <2>1. PICK i \in 1..Len(toServer) + Len(outbox) : q = toServer'[i]
    BY <1>2, <1>3 DEF Pending
  <2> QED BY <1>2, <2>1, LengthsAreNat DEF Pending
<1>4. ASSUME NEW q \in Pending PROVE q \in Pending'
  <2>1. CASE \E i \in 1..Len(toServer) : q = toServer[i]
    BY <1>2, <2>1, LengthsAreNat DEF Pending
  <2>2. CASE \E i \in 1..Len(outbox) : q = outbox[i]
    <3>1. PICK i \in 1..Len(outbox) : q = outbox[i]
      BY <2>2
    <3>2. /\ Len(toServer) + i \in 1..Len(toServer')
          /\ toServer'[Len(toServer) + i] = outbox[i]
      <4> DEFINE j == Len(toServer) + i
      <4>1. /\ j \in 1..Len(toServer) + Len(outbox) /\ ~(j <= Len(toServer))
            /\ j - Len(toServer) = i /\ j \in 1..Len(toServer')
        BY <1>2, LengthsAreNat
      <4> HIDE DEF j
      <4>2. toServer'[j] = outbox[i]
        BY <1>2, <4>1
      <4> QED BY <4>1, <4>2 DEF j
    <3> QED BY <3>1, <3>2 DEF Pending
  <2> QED BY <1>4, <2>1, <2>2 DEF Pending
<1> QED BY <1>1, <1>3, <1>4 DEF Answered

LEMMA ReadyReadPends ==
  ASSUME ChannelTypeOK, ReadyRead PROVE Pending' = Pending /\ Answered' \subseteq Answered
<1>1. PICK n \in 1..Len(toClient) :
        /\ input' = SubSeq(toClient, 1, n)
        /\ toClient' = SubSeq(toClient, n + 1, Len(toClient))
  BY DEF ReadyRead
<1>2. /\ Len(input') = n /\ Len(toClient') = Len(toClient) - n
      /\ \A i \in 1..n : input'[i] = toClient[i]
      /\ \A i \in 1..Len(toClient) - n : toClient'[i] = toClient[n + i]
  BY <1>1, LengthsAreNat DEF ChannelTypeOK
<1>3. outbox' = outbox /\ toServer' = toServer
  BY DEF ReadyRead
<1>4. ASSUME NEW r \in Answered' PROVE r \in Answered
  <2>1. CASE \E i \in 1..n : r = toClient[i]
    BY <2>1, LengthsAreNat DEF Answered
  <2>2. CASE \E i \in 1..Len(toClient) - n : r = toClient[n + i]
    <3>1. PICK i \in 1..Len(toClient) - n : r = toClient[n + i]
      BY <2>2
    <3>2. n + i \in 1..Len(toClient)
      BY LengthsAreNat
    <3> QED BY <3>1, <3>2 DEF Answered
  <2>3. \/ \E i \in 1..Len(input') : r = input'[i]
        \/ \E i \in 1..Len(toClient') : r = toClient'[i]
    BY <1>4 DEF Answered
  <2> QED BY <1>2, <2>1, <2>2, <2>3
<1> QED BY <1>3, <1>4 DEF Pending

LEMMA SendPends ==
  ASSUME ChannelTypeOK, NEW q \in Request, Send(q)
  PROVE  Pending' = Pending \cup {q}
<1>1. outbox' = Append(outbox, q) /\ toServer' = toServer
  BY DEF Send, wireVars
<1>2. /\ Len(outbox') = Len(outbox) + 1 /\ outbox'[Len(outbox) + 1] = q
      /\ \A i \in 1..Len(outbox) : outbox'[i] = outbox[i]
  BY <1>1 DEF ChannelTypeOK
<1>3. ASSUME NEW p \in {outbox'[i] : i \in 1..Len(outbox')}
      PROVE  p \in {outbox[i] : i \in 1..Len(outbox)} \cup {q}
  BY <1>2, LengthsAreNat
<1>4. ASSUME NEW p \in {outbox[i] : i \in 1..Len(outbox)} \cup {q}
      PROVE  p \in {outbox'[i] : i \in 1..Len(outbox')}
  BY <1>2, LengthsAreNat
<1> QED BY <1>1, <1>3, <1>4 DEF Pending

LEMMA TailAnswers ==
  ASSUME ChannelTypeOK, input # <<>>, input' = Tail(input), toClient' = toClient
  PROVE  Answered' \subseteq Answered
<1>1. /\ Len(input') = Len(input) - 1
      /\ \A i \in 1..Len(input) - 1 : input'[i] = input[i + 1]
  BY DEF ChannelTypeOK
<1>2. ASSUME NEW r \in {input'[i] : i \in 1..Len(input')}
      PROVE  r \in {input[i] : i \in 1..Len(input)}
  <2>1. PICK i \in 1..Len(input) - 1 : r = input[i + 1]
    BY <1>1
  <2>2. i + 1 \in 1..Len(input)
    BY LengthsAreNat
  <2> QED BY <2>1, <2>2
<1> QED BY <1>2 DEF Answered

LEMMA ReplacePends ==
  ASSUME NEW s, NEW box, Replace(s, box)
  PROVE  /\ box = <<>> => Pending' = {}
         /\ \A q : box = <<q>> => Pending' = {q}
         /\ Answered' = {}
<1>1. /\ Len(toServer') = 0 /\ Len(input') = 0 /\ Len(toClient') = 0 /\ outbox' = box
  BY DEF Replace
<1> QED BY <1>1 DEF Pending, Answered

\* Hanging up leaves at most what was pending.
LEMMA HangupPends ==
  ASSUME Hangup, ~peerClosed => NoStartPending
  PROVE  ~peerClosed' => \A q \in Pending' : q.type # "start"
<1>1. CASE Drop
  BY <1>1, ReplacePends DEF Drop
<1>2. CASE UNCHANGED <<outbox, wireVars, greetdVars>>
  BY <1>2 DEF wireVars, greetdVars, Pending, NoStartPending
<1> QED BY <1>1, <1>2 DEF Hangup

-----------------------------------------------------------------------------
(* One lemma per kind of step. *)

LEMMA AttemptStrong ==
  ASSUME IInv, NEW u \in Names, NEW s, Beginnable(u), Attempt(u, s), UNCHANGED selectedSession
  PROVE  OneSession' /\ SessionSelected'
<1>1. selectedSession' \in Sessions
  BY DEF Beginnable, IInv, Typed, ControllerTypeOK, Maybe
<1>2. CASE /\ stage' = "Authenticating" /\ activeUser' = u
           /\ Replace("Connected", <<[type |-> "create", arg |-> u]>>)
  <2>1. Pending' = {[type |-> "create", arg |-> u]} /\ Answered' = {}
    BY <1>2, ReplacePends
  <2> QED BY <1>1, <1>2, <2>1 DEF OneSession, NoStartPending, SessionSelected
<1>3. CASE stage' \in {"Connecting", "Failed"} /\ \E t : Replace(t, <<>>)
  <2>1. Pending' = {}
    BY <1>3, ReplacePends
  <2> QED BY <1>1, <1>3, <2>1 DEF OneSession, NoStartPending, SessionSelected
<1> QED BY <1>2, <1>3 DEF Attempt, Drop

\* Hanging up where no start_session can be pending.
LEMMA HangupStrong ==
  ASSUME Hangup, ~peerClosed => NoStartPending, stage' \in {"Idle", "Failed", "Complete"}
  PROVE  OneSession' /\ SessionSelected'
<1>1. ~peerClosed' => \A q \in Pending' : q.type # "start"
  BY HangupPends
<1> QED BY <1>1 DEF OneSession, NoStartPending, SessionSelected

LEMMA DropStrong ==
  ASSUME Drop, stage' \in {"Idle", "Failed"}
  PROVE  OneSession' /\ SessionSelected'
<1>1. Pending' = {}
  BY ReplacePends DEF Drop
<1> QED BY <1>1 DEF OneSession, NoStartPending, SessionSelected

LEMMA CancelStrong ==
  ASSUME IInv, Strong, NEW failure, BeginCancellation(failure), UNCHANGED activeUser
  PROVE  OneSession' /\ SessionSelected'
<1>1. [type |-> "cancel", arg |-> None] \in Request
  BY DEF Request
<1>2. Pending' = Pending \cup {[type |-> "cancel", arg |-> None]}
  BY <1>1, SendPends DEF BeginCancellation, IInv, Typed
<1>3. stage' = "Cancelling" /\ UNCHANGED <<phase, peerUser, peerClosed>>
  BY DEF BeginCancellation, Send, greetdVars
<1> QED
  BY <1>2, <1>3 DEF Strong, OneSession, NoStartPending, SessionSelected

LEMMA UnchangedStrong ==
  ASSUME Strong, UNCHANGED <<stage, activeUser, channelVars>>,
         selectedSession' = selectedSession \/ selectedSession' \in Sessions
  PROVE  OneSession' /\ SessionSelected'
BY DEF Strong, OneSession, NoStartPending, SessionSelected, channelVars, clientVars, wireVars,
   greetdVars, Pending, Answered

LEMMA CallsStrong ==
  ASSUME IInv, Strong, Calls PROVE OneSession' /\ SessionSelected'
<1>1. stage \notin {"Starting", "Cancelling"} /\ ~peerClosed => NoStartPending
  BY DEF Strong, OneSession
<1>2. ASSUME NEW u \in Maybe(Names), Begin(u) PROVE OneSession' /\ SessionSelected'
  <2>1. Beginnable(u) => u \in Names
    BY DEF Beginnable, Maybe
  <2>2. CASE BeginWhileCancelling(u)
    BY <2>2, UnchangedStrong DEF BeginWhileCancelling
  <2>3. CASE SwitchWhileConnecting(u)
    <3>1. CASE Beginnable(u) /\ FreshAttempt(u, HungUp)
      BY <2>1, <2>3, <3>1, AttemptStrong DEF SwitchWhileConnecting, FreshAttempt
    <3>2. CASE stage' = "Idle" /\ Hangup
      BY <1>1, <2>3, <3>2, HangupStrong DEF SwitchWhileConnecting
    <3> QED BY <2>3, <3>1, <3>2 DEF SwitchWhileConnecting
  <2>4. CASE SwitchAccount(u)
    BY <2>4, CancelStrong DEF SwitchAccount
  <2>5. CASE BeginIdle(u)
    <3>1. CASE Beginnable(u) /\ FreshAttempt(u, socket)
      BY <2>1, <2>5, <3>1, AttemptStrong DEF BeginIdle, FreshAttempt
    <3>2. CASE UNCHANGED <<stage, activeUser, channelVars>>
      BY <2>5, <3>2, UnchangedStrong DEF BeginIdle
    <3> QED BY <2>5, <3>1, <3>2 DEF BeginIdle
  <2> QED BY <1>2, <2>2, <2>3, <2>4, <2>5 DEF Begin
<1>3. ASSUME NEW r \in Maybe(Names), Respond(r) PROVE OneSession' /\ SessionSelected'
  <2>1. [type |-> "post", arg |-> r] \in Request
    BY DEF Request
  <2>2. Pending' = Pending \cup {[type |-> "post", arg |-> r]}
    BY <1>3, <2>1, SendPends DEF Respond, IInv, Typed
  <2>3. /\ UNCHANGED <<stage, activeUser, selectedSession, phase, peerUser, peerClosed>>
        /\ Answered' = Answered
    BY <1>3 DEF Respond, Send, wireVars, greetdVars, Answered
  <2> QED
    BY <2>2, <2>3 DEF Strong, OneSession, NoStartPending, SessionSelected
<1>4. CASE RestartAuthentication
  <2>1. CASE stage = "Connecting" /\ Beginnable(activeUser) /\ FreshAttempt(activeUser, HungUp)
    <3>1. activeUser \in Names
      BY <2>1 DEF Beginnable, Maybe, IInv, Typed, ControllerTypeOK
    <3> QED BY <1>4, <2>1, <3>1, AttemptStrong DEF FreshAttempt, RestartAuthentication
  <2>2. CASE stage = "Authenticating" /\ BeginCancellation("none") /\ UNCHANGED activeUser
    BY <2>2, CancelStrong
  <2> QED BY <1>4, <2>1, <2>2 DEF RestartAuthentication
<1>5. CASE Cancel
  <2>1. CASE BeginCancellation("none") /\ UNCHANGED activeUser
    BY <2>1, CancelStrong
  <2>2. CASE stage = "Connecting" /\ stage' = "Idle" /\ Hangup
    BY <1>1, <2>2, HangupStrong
  <2>3. CASE stage = "Failed" /\ stage' = "Idle" /\ UNCHANGED channelVars
    BY <1>1, <2>3 DEF OneSession, NoStartPending, SessionSelected, channelVars, clientVars,
       wireVars, greetdVars, Pending
  <2>4. CASE UNCHANGED <<stage, activeUser, channelVars>>
    BY <1>5, <2>4, UnchangedStrong DEF Cancel
  <2> QED BY <1>5, <2>1, <2>2, <2>3, <2>4 DEF Cancel
<1>6. ASSUME NEW s \in Sessions, SetSelectedSession(s) PROVE OneSession' /\ SessionSelected'
  BY <1>6, UnchangedStrong DEF SetSelectedSession, exchangeVars
<1> QED BY <1>2, <1>3, <1>4, <1>5, <1>6 DEF Calls

\* A reply is handled with another request, while authenticating.
LEMMA ConsumedAndSentStrong ==
  ASSUME IInv, Strong, stage = "Authenticating", input # <<>>, NEW q \in Request,
         ConsumedAndSent(q)
  PROVE  /\ UNCHANGED <<phase, peerUser, peerClosed>>
         /\ Answered' \subseteq Answered
         /\ ~peerClosed => Pending' = {q} /\ peerUser = activeUser
<1>1. Pending' = Pending \cup {q}
  BY SendPends DEF ConsumedAndSent, IInv, Typed
<1>2. ~peerClosed => Pending = {}
  BY HeadAnswersFirst, PendingBehindReply DEF Strong, IInv, Typed
<1>3. Answered' \subseteq Answered
  BY TailAnswers DEF ConsumedAndSent, Send, wireVars, IInv, Typed
<1> QED
  BY <1>1, <1>2, <1>3 DEF ConsumedAndSent, Send, greetdVars, Strong, OneSession

LEMMA AuthenticationSucceededStrong ==
  ASSUME IInv, Strong, AuthenticationSucceeded PROVE OneSession' /\ SessionSelected'
<1> DEFINE q == [type |-> "start", arg |-> selectedSession]
<1>1. stage = "Authenticating" /\ input # <<>> /\ Head(input).type = "success"
  BY DEF AuthenticationSucceeded, SuccessStarts, Receives
<1>2. q \in Request /\ selectedSession \in Sessions
  BY <1>1 DEF Request, Maybe, Strong, SessionSelected
<1>3. /\ UNCHANGED <<phase, peerUser, peerClosed>>
      /\ ~peerClosed => Pending' = {q} /\ peerUser = activeUser
  BY <1>1, <1>2, ConsumedAndSentStrong DEF AuthenticationSucceeded
<1>4. ~peerClosed => phase = "ready"
  <2>1. Head(input) \in Answered
    BY <1>1 DEF Answered, IInv, Typed, ChannelTypeOK
  <2>2. ~peerClosed => Head(input).re \in {"create", "post"}
    BY <1>1, HeadAnswersFirst DEF Strong, Paired, IInv, Typed
  <2>3. ~peerClosed => phase = PhaseAfter(Head(input))
    BY <1>1, <2>1 DEF Strong, OneSession
  <2> QED BY <1>1, <2>2, <2>3 DEF PhaseAfter
<1>5. stage' = "Starting" /\ UNCHANGED activeUser
  BY DEF AuthenticationSucceeded, SetState
<1> QED
  BY <1>2, <1>3, <1>4, <1>5 DEF OneSession, SessionSelected

LEMMA HandleMessageStrong ==
  ASSUME IInv, Strong, HandleMessage PROVE OneSession' /\ SessionSelected'
<1> USE DEF IInv, Typed
<1>1. input # <<>>
  BY DEF HandleMessage, FinishCancellation, PromptForInput, PromptToShow,
     AuthenticationSucceeded, SessionAccepted, AuthenticationRefused, HandleFailure,
     ReplyFails, ConsumeFailure, Receives
<1>2. ~peerClosed =>
        /\ stage \in {"Authenticating", "Starting"} => Pending = {}
        /\ stage = "Cancelling" => NoStartPending
  BY <1>1, HeadAnswersFirst, PendingBehindReply DEF Strong, NoStartPending
<1>3. stage \in Active /\ ~peerClosed => NoStartPending
  BY <1>2 DEF Active, NoStartPending
<1>4. CASE FinishCancellation
  <2>1. CASE Beginnable(pendingUser) /\ Attempt(pendingUser, HungUp)
    <3>1. pendingUser \in Names
      BY <2>1 DEF Beginnable, Maybe, ControllerTypeOK
    <3> QED BY <1>4, <2>1, <3>1, AttemptStrong DEF FinishCancellation
  <2>2. CASE stage' \in {"Idle", "Failed"} /\ Hangup
    BY <1>3, <1>4, <2>2, HangupStrong DEF FinishCancellation, Active
  <2> QED BY <1>4, <2>1, <2>2 DEF FinishCancellation
<1>5. CASE PromptForInput
  <2>1. /\ Pending' = Pending
        /\ UNCHANGED <<stage, activeUser, selectedSession, phase, peerUser, peerClosed>>
    BY <1>5 DEF PromptForInput, ConsumedOnly, wireVars, greetdVars, Pending
  <2>2. Answered' \subseteq Answered
    BY <1>1, <1>5, TailAnswers DEF PromptForInput, ConsumedOnly, wireVars
  <2> QED
    BY <2>1, <2>2 DEF Strong, OneSession, NoStartPending, SessionSelected
<1>6. CASE PromptToShow
  <2> DEFINE q == [type |-> "post", arg |-> None]
  <2>1. q \in Request
    BY DEF Request, Maybe
  <2>2. /\ stage = "Authenticating" /\ ConsumedAndSent(q)
        /\ UNCHANGED <<stage, activeUser, selectedSession>>
    BY <1>6 DEF PromptToShow
  <2>3. /\ UNCHANGED <<phase, peerUser, peerClosed>>
        /\ Answered' \subseteq Answered
        /\ ~peerClosed => Pending' = {q} /\ peerUser = activeUser
    BY <1>1, <2>1, <2>2, ConsumedAndSentStrong
  <2> QED
    BY <2>2, <2>3 DEF Strong, OneSession, NoStartPending, SessionSelected
<1>7. CASE AuthenticationRefused
  BY <1>7, CancelStrong DEF AuthenticationRefused
<1>8. CASE SessionAccepted \/ HandleFailure
  <2>1. stage \in Active /\ Hangup /\ stage' \in {"Failed", "Complete"}
    BY <1>8 DEF SessionAccepted, HandleFailure, ReplyFails, Fails, Active
  <2> QED BY <1>3, <2>1, HangupStrong
<1>9. CASE ConsumeFailure
  BY <1>9, DropStrong DEF ConsumeFailure, Fails
<1> QED
  BY <1>4, <1>5, <1>6, <1>7, <1>8, <1>9, AuthenticationSucceededStrong DEF HandleMessage

LEMMA GreetdAnswersStrong ==
  ASSUME IInv, Strong, GreetdAnswers, UNCHANGED controllerVars
  PROVE  OneSession' /\ SessionSelected'
<1> USE DEF IInv, Typed
<1> DEFINE q == Head(toServer)
<1>1. ~peerClosed /\ peerClosed' = peerClosed
  BY DEF GreetdAnswers
<1>2. q \in Pending /\ q \in Request
  BY DEF GreetdAnswers, Pending, ChannelTypeOK
<1>3. PICK r \in AnswersTo(q) :
        /\ toServer' = Tail(toServer)
        /\ toClient' = Append(toClient, r)
        /\ phase' = PhaseAfter(r)
        /\ peerUser' = IF q.type = "cancel" THEN None
                       ELSE IF q.type = "create" THEN q.arg ELSE peerUser
  BY DEF GreetdAnswers
<1>4. /\ Pending' \subseteq Pending
      /\ stage \in {"Authenticating", "Starting"} => Pending' = {} /\ Answered = {}
      /\ stage = "Cancelling" => \A p \in Pending' : p.type = "cancel"
  BY <1>1, AnswerLeaves DEF Strong
<1>5. UNCHANGED <<stage, activeUser, selectedSession, input>>
  BY DEF controllerVars, exchangeVars, GreetdAnswers, clientVars
<1>6. ~(\E p \in Pending' : p.type = "start")
  BY <1>1, <1>4 DEF Strong, OneSession, NoStartPending
<1>7. ASSUME stage = "Authenticating"
      PROVE  peerUser' = activeUser /\ \A a \in Answered' : phase' = PhaseAfter(a)
  <2>1. Answered' \subseteq {r}
    <3>1. r \in Reply
      BY <1>2, AnswersType
    <3>2. Len(input') = 0 /\ Len(toClient) = 0
      <4>1. Len(toServer) >= 1
        BY DEF GreetdAnswers, ChannelTypeOK
      <4>2. Waits = 1
        BY <1>1, <1>7, <4>1, LengthsAreNat DEF Strong, Paired, Waits
      <4> QED BY <1>5, <4>1, <4>2, LengthsAreNat DEF Waits
    <3>3. Len(toClient') = 1 /\ toClient'[1] = r
      BY <1>3, <3>1, <3>2 DEF ChannelTypeOK
    <3> QED BY <3>2, <3>3 DEF Answered
  <2>2. Waits = 1 /\ OwedAt(1) \in {"create", "post"}
    <3>1. Len(toServer) >= 1
      BY DEF GreetdAnswers, ChannelTypeOK
    <3> QED BY <1>1, <1>7, <3>1, LengthsAreNat DEF Strong, Paired, Waits
  <2>3. \A p \in Pending : p.type = OwedAt(1)
    <3>1. ASSUME NEW i \in 1..Len(toServer) PROVE toServer[i].type = OwedAt(1)
      <4>1. Len(input) + Len(toClient) + i = 1
        BY <2>2, LengthsAreNat DEF Waits
      <4> QED BY <4>1, PendingAt
    <3>2. ASSUME NEW i \in 1..Len(outbox) PROVE outbox[i].type = OwedAt(1)
      <4>1. Len(input) + Len(toClient) + Len(toServer) + i = 1
        BY <2>2, LengthsAreNat DEF Waits
      <4> QED BY <4>1, PendingAt
    <3> QED BY <3>1, <3>2 DEF Pending
  <2>4. peerUser' = activeUser
    <3>1. q.type = OwedAt(1)
      BY <1>2, <2>3
    <3>2. CASE q.type = "create"
      BY <1>1, <1>2, <1>3, <1>7, <3>2 DEF Strong, OneSession
    <3>3. CASE q.type = "post"
      BY <1>1, <1>3, <1>7, <2>3, <3>1, <3>3 DEF Strong, OneSession
    <3> QED BY <2>2, <3>1, <3>2, <3>3
  <2> QED BY <1>3, <2>1, <2>4
<1>8. stage = "Authenticating" => \A p \in Pending' : p.type = "create" => p.arg = activeUser
  BY <1>4
<1> QED
  BY <1>5, <1>6, <1>7, <1>8 DEF Strong, OneSession, NoStartPending, SessionSelected

LEMMA EventsStrong ==
  ASSUME IInv, Strong, Transport \/ Greetd PROVE OneSession' /\ SessionSelected'
<1> USE DEF IInv, Typed
<1>1. CASE ConnectCompletes
  <2>1. CASE /\ stage = "Connecting" /\ stage' = "Authenticating"
             /\ Replace("Connected", <<[type |-> "create", arg |-> activeUser]>>)
             /\ UNCHANGED <<activeUser, selectedSession>>
    <3>1. Pending' = {[type |-> "create", arg |-> activeUser]} /\ Answered' = {}
      BY <2>1, ReplacePends
    <3> QED
      BY <2>1, <3>1 DEF Strong, OneSession, NoStartPending, SessionSelected
  <2>2. CASE Fails /\ Drop
    BY <2>2, DropStrong DEF Fails
  <2>3. CASE stage = "Failed" /\ Replace("Connected", <<>>) /\ UNCHANGED controllerVars
    <3>1. Pending' = {}
      BY <2>3, ReplacePends
    <3> QED
      BY <2>3, <3>1 DEF OneSession, NoStartPending, SessionSelected, controllerVars,
         exchangeVars
  <2> QED BY <1>1, <2>1, <2>2, <2>3 DEF ConnectCompletes
<1>2. CASE Timeout \/ SocketFault \/ Disconnected
  <2>1. Drop /\ stage' \in {"Idle", "Failed"}
    BY <1>2 DEF Timeout, SocketFault, Disconnected, QuietWhenDisconnected, FailsUnless,
       Fails, controllerVars, exchangeVars
  <2> QED BY <2>1, DropStrong
<1>3. CASE (Flush \/ ReadyRead) /\ UNCHANGED controllerVars
  <2>1. Pending' = Pending /\ Answered' \subseteq Answered
    BY <1>3, FlushPends, ReadyReadPends
  <2>2. UNCHANGED <<stage, activeUser, selectedSession, phase, peerUser, peerClosed>>
    BY <1>3 DEF controllerVars, exchangeVars, Flush, ReadyRead, greetdVars
  <2> QED BY <2>1, <2>2 DEF Strong, OneSession, NoStartPending, SessionSelected
<1>4. CASE PeerCloses /\ UNCHANGED controllerVars
  BY <1>4 DEF PeerCloses, controllerVars, exchangeVars, Strong, OneSession, SessionSelected
<1> QED BY <1>1, <1>2, <1>3, <1>4, GreetdAnswersStrong DEF Transport, Greetd

LEMMA StrongInit == Blank => Strong
BY DEF Blank, ChannelInit, Strong, Paired, OneSession, NoStartPending,
   SessionSelected, Pending

LEMMA StrongNext == IInv /\ Strong /\ [ControllerNext]_vars => Strong'
<1>1. ASSUME UNCHANGED vars, Strong PROVE Strong'
  BY <1>1 DEF vars, controllerVars, exchangeVars, channelVars, clientVars, wireVars,
     greetdVars, Strong, Paired, OneSession, NoStartPending, SessionSelected, Waits,
     OwedAt, Pending, Answered
<1>2. ASSUME IInv, Strong, ControllerNext PROVE Strong'
  <2>1. Paired
    BY <1>2 DEF Strong
  <2>2. CASE Calls
    BY <1>2, <2>1, <2>2, CallsPaired, CallsStrong DEF Strong
  <2>3. CASE HandleMessage
    BY <1>2, <2>1, <2>3, HandleMessagePaired, HandleMessageStrong DEF Strong
  <2>4. CASE Transport \/ Greetd
    BY <1>2, <2>1, <2>4, EventsPaired, EventsStrong DEF Strong
  <2> QED BY <1>1, <1>2, <2>2, <2>3, <2>4 DEF ControllerNext, Exited
<1> QED BY <1>1, <1>2

LEMMA StrongInvariance == ControllerSpec => []Strong
<1>1. ControllerInit => Blank
  BY DEF ControllerInit
<1> QED BY <1>1, StrongInit, StrongNext, Invariance, PTL DEF ControllerSpec

-----------------------------------------------------------------------------
\* At most one request is unanswered, and only cancel_session overtakes it:
\* whatever greetd says next answers what the controller asked last.
THEOREM PairsKept == ControllerSpec => []OnlyCancelOvertakes
<1>1. IInv /\ Strong => OnlyCancelOvertakes
  BY PairedIsOnlyCancelOvertakes DEF IInv, Typed, Strong
<1> QED BY <1>1, Invariance, StrongInvariance, PTL

\* A start_session reaches greetd only when greetd has accepted the very user
\* the greeter shows, and it names a discovered session.
THEOREM StartsWhatWasAccepted == ControllerSpec => []StartOnlyWhenReady
<1>1. IInv /\ Strong => StartOnlyWhenReady
  BY StrongIsStartOnlyWhenReady DEF IInv, Typed, Strong
<1> QED BY <1>1, Invariance, StrongInvariance, PTL
=============================================================================
