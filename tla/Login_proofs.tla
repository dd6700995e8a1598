----------------------------- MODULE Login_proofs -----------------------------
(***************************************************************************)
(* Theorems about Login.tla: the panel only ever uses the controller's      *)
(* operations, so the controller's invariant holds of the program, and with *)
(* it the panel and the controller agree on whose exchange is running.      *)
(***************************************************************************)
EXTENDS Login, Controller_proofs

Running == {"Connecting", "Authenticating", "Starting"}

\* The account on the panel is the account of the running exchange, or the one
\* the awaited cancellation will go to.
PanelInv ==
  /\ chosen \in Maybe(Names) /\ field \in Maybe(Names)
  /\ stage \in Running => activeUser = chosen
  /\ stage = "Cancelling" => pendingUser = chosen
  /\ stage \in Running \cup {"Cancelling"} => chosen # None

LoginInv == IInv /\ PanelInv

-----------------------------------------------------------------------------
\* The panel and the controller when the greeter has just been started,
\* whatever account and session it offers.
Fresh ==
  /\ Blank /\ selectedSession \in Maybe(Sessions)
  /\ chosen \in Maybe(Names) /\ field = None

LEMMA LoginInitIsFresh == LoginInit => Fresh
BY AccountsAssumption DEF LoginInit, ControllerInit, Fresh, Maybe

LEMMA LoginInitInv == Fresh => LoginInv
BY BlankInv DEF Fresh, LoginInv, PanelInv, Blank, Running, Maybe

\* A step of the program is a step of the controller, or leaves it alone.
LEMMA PanelStepsAreCalls ==
  ASSUME LoginInv, [LoginNext]_loginVars PROVE [ControllerNext]_vars
<1>1. CASE Panel
  <2>1. CASE Startup \/ LogIn
    BY <2>1 DEF Startup, LogIn, ControllerNext, Calls, LoginInv, PanelInv
  <2>2. CASE SubmitText
    BY <2>2 DEF SubmitText, ControllerNext, Calls, LoginInv, PanelInv
  <2>3. CASE Escape
    BY <2>3 DEF Escape, ControllerNext, Calls
  <2>4. CASE TypeText
    BY <2>4 DEF TypeText
  <2>5. ASSUME NEW u \in Accounts, PickAccount(u) PROVE [ControllerNext]_vars
    BY <2>5, AccountsAssumption
    DEF PickAccount, BeginIgnored, ControllerNext, Calls, Maybe
  <2>6. ASSUME NEW s \in Sessions, PickSession(s) PROVE [ControllerNext]_vars
    BY <2>6 DEF PickSession, ControllerNext, Calls
  <2> QED BY <1>1, <2>1, <2>2, <2>3, <2>4, <2>5, <2>6 DEF Panel
<1>2. CASE Events
  BY <1>2 DEF Events, ControllerNext
<1>3. CASE NameField
  BY <1>3 DEF NameField, SubmitName, EnterName, ControllerNext, Calls, LoginInv, PanelInv
<1>4. CASE UNCHANGED loginVars
  BY <1>4 DEF loginVars
<1> QED BY <1>1, <1>2, <1>3, <1>4 DEF LoginNext

-----------------------------------------------------------------------------
(* What the controller's operations do to the exchange the panel shows. *)

\* An attempt for the account on the panel keeps panel and controller agreed.
LEMMA AttemptAgrees ==
  ASSUME NEW u, NEW s, Attempt(u, s), u # None, chosen' = u, u \in Names,
         field' \in Maybe(Names)
  PROVE  PanelInv'
BY DEF Attempt, PanelInv, Running, Maybe

\* A begin() for the account the panel shows after the step.
LEMMA BeginAgrees ==
  ASSUME LoginInv, NEW u \in Maybe(Names), Begin(u), chosen' = u,
         stage = "Cancelling" => u # None, field' \in Maybe(Names)
  PROVE  PanelInv'
<1>1. CASE BeginWhileCancelling(u)
  BY <1>1 DEF BeginWhileCancelling, PanelInv, Running
<1>2. CASE SwitchWhileConnecting(u)
  BY <1>2, AttemptAgrees
  DEF SwitchWhileConnecting, FreshAttempt, PanelInv, Running, Beginnable, Maybe
<1>3. CASE SwitchAccount(u)
  BY <1>3 DEF SwitchAccount, BeginCancellation, PanelInv, Running
<1>4. CASE BeginIdle(u)
  BY <1>4, AttemptAgrees
  DEF BeginIdle, FreshAttempt, PanelInv, Running, Beginnable, Maybe
<1> QED BY <1>1, <1>2, <1>3, <1>4 DEF Begin

LEMMA FieldType ==
  ASSUME LoginInv, FieldFollows PROVE field' \in Maybe(Names)
BY DEF LoginInv, PanelInv, FieldFollows, Maybe

LEMMA PanelAgrees ==
  ASSUME LoginInv, Panel \/ NameField PROVE PanelInv'
<1>1. ASSUME NEW u \in Accounts, PickAccount(u) PROVE PanelInv'
  <2>1. u \in Names /\ u # None /\ u \in Maybe(Names)
    BY AccountsAssumption, NoneAssumption DEF Maybe
  <2>2. CASE Begin(u)
    BY <1>1, <2>1, <2>2, BeginAgrees, FieldType DEF PickAccount
  <2>3. CASE BeginIgnored(u)
    BY <1>1, <2>1, <2>3, FieldType
    DEF PickAccount, BeginIgnored, vars, controllerVars, exchangeVars, PanelInv, Running
  <2> QED BY <1>1, <2>2, <2>3 DEF PickAccount
<1>2. CASE Startup \/ SubmitName \/ LogIn
  <2>1. \E u \in Maybe(Names) : Begin(u) /\ chosen' = u /\ chosen = u
    BY <1>2 DEF Startup, SubmitName, LogIn, LoginInv, PanelInv
  <2>2. field' \in Maybe(Names)
    BY <1>2, FieldType DEF Startup, SubmitName, LogIn
  <2>3. stage = "Cancelling" => chosen # None
    BY DEF LoginInv, PanelInv
  <2> QED BY <2>1, <2>2, <2>3, BeginAgrees
<1>3. ASSUME NEW u \in Maybe(Names), EnterName(u) PROVE PanelInv'
  BY <1>3 DEF EnterName, NameEnabled, vars, controllerVars, exchangeVars, LoginInv, PanelInv,
     Running, IInv, Control, StateFitsStage
<1>4. CASE TypeText
  BY <1>4 DEF TypeText, vars, controllerVars, exchangeVars, LoginInv, PanelInv, Running
<1>5. CASE SubmitText
  BY <1>5 DEF SubmitText, Respond, LoginInv, PanelInv, Running, Maybe
<1>6. ASSUME NEW s \in Sessions, PickSession(s) PROVE PanelInv'
  BY <1>6 DEF PickSession, SetSelectedSession, exchangeVars, panelVars, LoginInv, PanelInv,
     Running
<1>7. CASE Escape
  <2>1. field' \in Maybe(Names)
    BY <1>7, FieldType DEF Escape
  <2>2. CASE stage = "Connecting" /\ FreshAttempt(activeUser, HungUp)
    <3>1. activeUser = chosen /\ chosen # None /\ chosen \in Names
      BY <2>2 DEF LoginInv, PanelInv, Running, Maybe
    <3> QED BY <1>7, <2>1, <2>2, <3>1, AttemptAgrees DEF Escape, FreshAttempt
  <2>3. CASE /\ stage = "Authenticating"
             /\ pendingUser' = activeUser
             /\ BeginCancellation("none")
    BY <1>7, <2>1, <2>3 DEF Escape, BeginCancellation, LoginInv, PanelInv, Running
  <2> QED BY <1>7, <2>2, <2>3 DEF Escape, RestartAuthentication
<1> QED BY <1>1, <1>2, <1>3, <1>4, <1>5, <1>6, <1>7 DEF Panel, NameField

LEMMA EventsAgree ==
  ASSUME LoginInv, Events PROVE PanelInv'
<1>1. field' \in Maybe(Names) /\ UNCHANGED chosen
  BY FieldType DEF Events
<1> USE DEF LoginInv, PanelInv, Running
<1>2. CASE FinishCancellation
  <2>1. CASE Attempt(pendingUser, HungUp) /\ Beginnable(pendingUser)
    BY <1>1, <1>2, <2>1, AttemptAgrees DEF FinishCancellation, Beginnable, Maybe
  <2>2. CASE stage' \in {"Idle", "Failed"}
    BY <1>1, <2>2
  <2> QED BY <1>2, <2>1, <2>2 DEF FinishCancellation
<1>3. CASE PromptForInput \/ PromptToShow
  BY <1>1, <1>3 DEF PromptForInput, PromptToShow
<1>4. CASE AuthenticationSucceeded
  BY <1>1, <1>4 DEF AuthenticationSucceeded, SuccessStarts
<1>5. CASE SessionAccepted
  BY <1>1, <1>5 DEF SessionAccepted
<1>6. CASE AuthenticationRefused
  BY <1>1, <1>6 DEF AuthenticationRefused, BeginCancellation
<1>7. CASE stage' = "Failed"
  BY <1>1, <1>7
<1>8. CASE UNCHANGED controllerVars
  BY <1>1, <1>8 DEF controllerVars, exchangeVars
<1>9. CASE ConnectCompletes
  BY <1>1, <1>7, <1>8, <1>9 DEF ConnectCompletes, Fails
<1>10. CASE HandleFailure \/ ConsumeFailure \/ Timeout \/ SocketFault \/ Disconnected
  BY <1>7, <1>8, <1>10
  DEF HandleFailure, ConsumeFailure, Timeout, SocketFault, Disconnected, FailsUnless, Fails
<1>11. CASE Exited
  BY <1>8, <1>11 DEF Exited, vars
<1> QED
  BY <1>2, <1>3, <1>4, <1>5, <1>6, <1>8, <1>9, <1>10, <1>11
  DEF Events, HandleMessage, Transport, Greetd

LEMMA LoginNextInv ==
  ASSUME LoginInv, [LoginNext]_loginVars PROVE LoginInv'
<1>1. IInv'
  BY PanelStepsAreCalls, NextInv DEF LoginInv
<1>2. CASE UNCHANGED loginVars
  BY <1>1, <1>2 DEF loginVars, panelVars, vars, controllerVars, exchangeVars, LoginInv,
     PanelInv, Running
<1> QED
  BY <1>1, <1>2, PanelAgrees, EventsAgree DEF LoginNext, LoginInv

-----------------------------------------------------------------------------
\* Every behaviour of the program stays within the inductive invariant.
THEOREM LoginInvariance == LoginSpec => []LoginInv
<1> QED BY LoginInitIsFresh, LoginInitInv, LoginNextInv, PTL DEF LoginSpec

\* The program uses the controller only through the calls Controller.tla lists,
\* so whatever holds of the controller holds of the program.
THEOREM PanelRefinesController == LoginSpec => ControllerSpec
<1>1. LoginInit => ControllerInit
  BY DEF LoginInit
<1>2. LoginInv /\ [LoginNext]_loginVars => [ControllerNext]_vars
  BY PanelStepsAreCalls
<1> QED BY <1>1, <1>2, LoginInvariance, PTL DEF LoginSpec, ControllerSpec

\* With a list of accounts there is no username field: the program is the one
\* that is model-checked with fairness.
THEOREM ListIsLogin == ~ManualMode => (LoginSpec <=> ListSpec)
<1> SUFFICES ASSUME ~ManualMode PROVE LoginSpec <=> ListSpec
  OBVIOUS
<1>1. [LoginNext]_loginVars <=> [ListNext]_loginVars
  BY DEF LoginNext, ListNext, NameField, SubmitName, EnterName, NameEnabled
<1> QED BY <1>1, PTL DEF LoginSpec, ListSpec

\* A prompt is always for the account the panel shows.
THEOREM PromptIsForChosen == LoginSpec => []PromptShowsChosen
<1>1. LoginInv => PromptShowsChosen
  <2> SUFFICES ASSUME LoginInv, state = "input-prompt" PROVE activeUser = chosen
    BY DEF PromptShowsChosen
  <2>1. stage = "Authenticating"
    BY DEF LoginInv, IInv, Typed, ControllerTypeOK, Stages, Control, StateFitsStage
  <2> QED BY <2>1 DEF LoginInv, PanelInv, Running
<1> QED BY <1>1, LoginInvariance, PTL

\* A refused authentication is never dropped while its cancellation runs.
THEOREM RefusalKeepsAccount == LoginSpec => []RefusalIsRetried
<1>1. LoginInv => RefusalIsRetried
  BY DEF LoginInv, IInv, Control, CancellationLeavesNothing, PanelInv, RefusalIsRetried
<1> QED BY <1>1, LoginInvariance, PTL

\* Nothing cancels a session start that has been requested.
THEOREM StartsAreFinal == LoginSpec => StartIsFinal
<1>1. LoginInv /\ [LoginNext]_loginVars
        => [stage = "Starting" => stage' \in {"Starting", "Complete", "Failed"}]_loginVars
  <2> SUFFICES ASSUME LoginInv, LoginNext, stage = "Starting"
               PROVE  stage' \in {"Starting", "Complete", "Failed"}
    OBVIOUS
  <2>1. state = "starting"
    BY DEF LoginInv, IInv, Control, StateFitsStage
  <2>2. CASE Panel \/ NameField
    <3>1. UNCHANGED stage
      BY <2>1, <2>2 DEF Panel, NameField, Startup, SubmitName, NameEnabled, LogIn, TypeText, SubmitText,
         Escape, RestartAuthentication, PickAccount, SelectorEnabled, EnterName, PickSession,
         SetSelectedSession, vars, controllerVars, exchangeVars
    <3> QED BY <3>1
  <2>3. CASE Events
    BY <2>3 DEF Events, HandleMessage, FinishCancellation, PromptForInput, PromptToShow,
       AuthenticationSucceeded, SuccessStarts, SessionAccepted, AuthenticationRefused,
       HandleFailure, ConsumeFailure, Transport, ConnectCompletes, Timeout, SocketFault,
       Disconnected, FailsUnless, Fails, Greetd, Exited, vars, controllerVars, exchangeVars
  <2> QED BY <2>2, <2>3 DEF LoginNext
<1> QED BY <1>1, LoginInvariance, PTL DEF LoginSpec, StartIsFinal

-----------------------------------------------------------------------------
(* What follows a value through the queues to greetd: the text typed for an   *)
(* account, and the session that is started.  It holds also after greetd has  *)
(* closed its end, where the pairing says nothing: what it sent can still be   *)
(* read.                                                                      *)

\* The replies that the greeter has still to handle.
Replies == Len(input) + Len(toClient)

\* While the user is asked, and when a reply to handle is left, greetd is
\* configuring the session of the account that is shown.
AskedByPeer ==
  stage = "Authenticating" =>
    /\ Replies <= 1
    /\ Replies = 1 \/ state = "input-prompt" => peerUser = activeUser
    /\ state = "input-prompt" => Replies = 0

\* The text in the field was typed for the account on the panel.
FieldFits == field # None => state = "input-prompt" /\ field = chosen

\* A text on its way is for the account of the exchange, and no reply is ahead
\* of the one to it.
TextFits ==
  \A q \in Pending :
    q.type = "post" /\ q.arg # None =>
      /\ stage \in {"Authenticating", "Cancelling"}
      /\ q.arg = activeUser /\ peerUser = activeUser
      /\ Replies = 0

\* The session on its way, or accepted, is the one still selected.
StartFits ==
  stage = "Starting" =>
    /\ ~peerClosed => \A q \in Pending : q.type = "start" => q.arg = selectedSession
    /\ \A r \in Answered :
         r.type = "success" => scheduled = [user |-> activeUser, session |-> selectedSession]

Deep == LoginInv /\ Strong

SecretsInv == Deep /\ AskedByPeer /\ FieldFits /\ TextFits /\ StartFits

-----------------------------------------------------------------------------
LEMMA RepliesNat ==
  ASSUME ChannelTypeOK
  PROVE  /\ Replies \in Nat
         /\ Answered = {} <=> Replies = 0
         /\ input # <<>> => Replies >= 1
<1>1. Len(input) \in Nat /\ Len(toClient) \in Nat
  BY LengthsAreNat
<1>2. input # <<>> => Len(input) >= 1
  BY DEF ChannelTypeOK
<1>3. Replies = 0 => Answered = {}
  BY <1>1 DEF Replies, Answered
<1>4. ASSUME Replies # 0 PROVE Answered # {}
  <2>1. CASE Len(input) >= 1
    <3>1. 1 \in 1..Len(input)
      BY <1>1, <2>1
    <3>2. input[1] \in Answered
      BY <3>1 DEF Answered
    <3> QED BY <3>2
  <2>2. CASE Len(toClient) >= 1
    <3>1. 1 \in 1..Len(toClient)
      BY <1>1, <2>2
    <3>2. toClient[1] \in Answered
      BY <3>1 DEF Answered
    <3> QED BY <3>2
  <2> QED BY <1>1, <1>4, <2>1, <2>2 DEF Replies
<1> QED BY <1>1, <1>2, <1>3, <1>4 DEF Replies

\* On an open connection AskedByPeer follows from the pairing.
LEMMA OpenPeerAsks == Deep /\ ~peerClosed => AskedByPeer
<1> SUFFICES ASSUME Deep, ~peerClosed, stage = "Authenticating"
             PROVE  /\ Replies <= 1
                    /\ Replies = 1 \/ state = "input-prompt" => peerUser = activeUser
                    /\ state = "input-prompt" => Replies = 0
  BY DEF AskedByPeer
<1> USE DEF Deep, LoginInv, IInv, Typed
<1>1. Waits = Replies + Len(toServer) + Len(outbox)
  BY LengthsAreNat DEF Waits, Replies
<1>2. Replies <= 1 /\ (state = "input-prompt" => Waits = 0)
  BY <1>1, LengthsAreNat, RepliesNat DEF Strong, Paired
<1>3. Replies = 1 \/ state = "input-prompt" => Pending = {}
  <2>1. Replies = 1 => Pending = {}
    BY PendingBehindReply DEF Strong, Replies
  <2>2. Waits = 0 => Pending = {}
    BY LengthsAreNat DEF Waits, Pending
  <2> QED BY <1>2, <2>1, <2>2
<1>4. Pending = {} => peerUser = activeUser
  BY DEF Strong, OneSession
<1> QED BY <1>1, <1>2, <1>3, <1>4, LengthsAreNat, RepliesNat

LEMMA OpenPeerAsksNext == Deep' /\ ~peerClosed' => AskedByPeer'
BY OpenPeerAsks, PTL

LEMMA DeepNext ==
  ASSUME Deep, [LoginNext]_loginVars PROVE Deep'
<1>1. LoginInv'
  BY LoginNextInv DEF Deep
<1>2. [ControllerNext]_vars
  BY PanelStepsAreCalls DEF Deep
<1> QED BY <1>1, <1>2, StrongNext DEF Deep, LoginInv

-----------------------------------------------------------------------------
\* A new stream carries no text.
LEMMA NewStream ==
  ASSUME Drop \/ (\E u, s : Attempt(u, s))
  PROVE  TextFits'
<1>1. ASSUME NEW s, NEW u, Replace(s, <<[type |-> "create", arg |-> u]>>) PROVE TextFits'
  <2>1. Pending' = {[type |-> "create", arg |-> u]}
    BY <1>1, ReplacePends
  <2> QED BY <2>1 DEF TextFits
<1>2. ASSUME NEW s, Replace(s, <<>>) PROVE TextFits'
  <2>1. Pending' = {}
    BY <1>2, ReplacePends
  <2> QED BY <2>1 DEF TextFits
<1> QED BY <1>1, <1>2 DEF Attempt, Drop

\* No text is on its way while a reply is handled, or outside an exchange.
NoText == \A q \in Pending : ~(q.type = "post" /\ q.arg # None)

LEMMA HangupKeepsNoText ==
  ASSUME Hangup, NoText PROVE TextFits'
<1>1. CASE Drop
  BY <1>1, NewStream
<1>2. CASE UNCHANGED <<outbox, wireVars>>
  BY <1>2 DEF wireVars, Pending, NoText, TextFits
<1> QED BY <1>1, <1>2 DEF Hangup

LEMMA NoTextWhenHandling ==
  ASSUME SecretsInv, stage \notin {"Authenticating", "Cancelling"} \/ input # <<>>
  PROVE  NoText
BY RepliesNat DEF SecretsInv, TextFits, NoText, Deep, LoginInv, IInv, Typed

\* beginCancellation() in an exchange.
LEMMA CancelFits ==
  ASSUME SecretsInv, NEW failure, BeginCancellation(failure), UNCHANGED activeUser,
         UNCHANGED input \/ NoText
  PROVE  TextFits' /\ AskedByPeer' /\ StartFits'
<1>1. [type |-> "cancel", arg |-> None] \in Request
  BY DEF Request
<1>2. Pending' = Pending \cup {[type |-> "cancel", arg |-> None]}
  BY <1>1, SendPends DEF BeginCancellation, SecretsInv, Deep, LoginInv, IInv, Typed
<1>3. /\ stage' = "Cancelling"
      /\ UNCHANGED <<peerUser, toClient>>
  BY DEF BeginCancellation, Send, greetdVars, wireVars
<1>4. AskedByPeer' /\ StartFits'
  BY <1>3 DEF AskedByPeer, StartFits
<1>5. CASE NoText
  BY <1>2, <1>4, <1>5 DEF NoText, TextFits
<1>6. CASE UNCHANGED input
  BY <1>2, <1>3, <1>4, <1>6 DEF SecretsInv, TextFits, Replies
<1> QED BY <1>4, <1>5, <1>6

\* begin() for the account of the panel, and restartAuthentication().
LEMMA CallsFit ==
  ASSUME SecretsInv, [LoginNext]_loginVars,
         (\E u \in Maybe(Names) : Begin(u)) \/ RestartAuthentication
  PROVE  TextFits' /\ StartFits' /\ AskedByPeer'
<1>1. ASSUME NEW u, NEW s, Attempt(u, s) PROVE TextFits' /\ StartFits' /\ AskedByPeer'
  <2>1. TextFits' /\ stage' # "Starting"
    BY <1>1, NewStream DEF Attempt
  <2>2. stage' = "Authenticating" => ~peerClosed'
    BY <1>1 DEF Attempt, Replace, Drop
  <2>3. AskedByPeer'
    BY <2>2, DeepNext, OpenPeerAsksNext DEF SecretsInv, AskedByPeer
  <2> QED BY <2>1, <2>3 DEF StartFits
<1>2. ASSUME stage = "Connecting", stage' = "Idle", Hangup
      PROVE  TextFits' /\ StartFits' /\ AskedByPeer'
  BY <1>2, NoTextWhenHandling, HangupKeepsNoText DEF StartFits, AskedByPeer
<1>3. ASSUME UNCHANGED <<stage, state, activeUser, selectedSession, channelVars>>
      PROVE  TextFits' /\ StartFits' /\ AskedByPeer'
  BY <1>3 DEF SecretsInv, TextFits, StartFits, AskedByPeer, channelVars, clientVars, wireVars,
     greetdVars, Pending, Answered, Replies
<1>4. ASSUME stage \in {"Idle", "Failed"}, UNCHANGED <<stage, channelVars>>
      PROVE  TextFits' /\ StartFits' /\ AskedByPeer'
  <2>1. NoText
    BY <1>4, NoTextWhenHandling
  <2> QED
    BY <1>4, <2>1 DEF TextFits, NoText, StartFits, AskedByPeer, channelVars, clientVars,
       wireVars, Pending
<1>5. ASSUME NEW u \in Maybe(Names), Begin(u) PROVE TextFits' /\ StartFits' /\ AskedByPeer'
  <2>1. CASE BeginWhileCancelling(u)
    BY <1>3, <2>1 DEF BeginWhileCancelling
  <2>2. CASE SwitchWhileConnecting(u)
    BY <1>1, <1>2, <2>2 DEF SwitchWhileConnecting, FreshAttempt
  <2>3. CASE SwitchAccount(u)
    BY <2>3, CancelFits DEF SwitchAccount
  <2>4. CASE BeginIdle(u)
    BY <1>1, <1>4, <2>4 DEF BeginIdle, FreshAttempt
  <2> QED BY <1>5, <2>1, <2>2, <2>3, <2>4 DEF Begin
<1>6. CASE RestartAuthentication
  BY <1>1, <1>6, CancelFits DEF RestartAuthentication, FreshAttempt
<1> QED BY <1>5, <1>6

\* The answer in the response field goes to the peer that asked.
LEMMA RespondFits ==
  ASSUME SecretsInv, SubmitText PROVE TextFits' /\ StartFits' /\ AskedByPeer' /\ FieldFits'
<1> USE DEF SecretsInv, Deep, LoginInv, IInv, Typed
<1>1. [type |-> "post", arg |-> field] \in Request /\ Send([type |-> "post", arg |-> field])
  BY DEF SubmitText, Respond, Request, PanelInv
<1>2. Pending' = Pending \cup {[type |-> "post", arg |-> field]}
  BY <1>1, SendPends
<1>3. /\ stage = "Authenticating" /\ state = "input-prompt" /\ stage' = stage
      /\ UNCHANGED <<activeUser, peerUser, input, toClient>> /\ state' = "waiting"
      /\ field' = None
  BY DEF SubmitText, Respond, CanRespond, SetState, Send, wireVars, greetdVars
<1>4. Replies = 0 /\ peerUser = activeUser /\ field \in {None, activeUser} /\ Replies' = Replies
  BY <1>3 DEF AskedByPeer, FieldFits, PanelInv, Running, Replies
<1>5. TextFits'
  BY <1>2, <1>3, <1>4 DEF TextFits
<1> QED BY <1>3, <1>4, <1>5 DEF StartFits, AskedByPeer, FieldFits

LEMMA PanelFits ==
  ASSUME SecretsInv, Panel \/ NameField PROVE SecretsInv'
<1> USE DEF SecretsInv
<1>1. Deep'
  BY DeepNext DEF LoginNext
<1>2. [LoginNext]_loginVars
  BY DEF LoginNext
<1>3. ASSUME FieldFollows, chosen' = chosen PROVE FieldFits'
  BY <1>3, NoneAssumption DEF FieldFollows, FieldFits
<1>4. ASSUME UNCHANGED vars PROVE TextFits' /\ StartFits' /\ AskedByPeer'
  BY <1>4 DEF vars, controllerVars, exchangeVars, channelVars, clientVars, wireVars, greetdVars,
     TextFits, StartFits, AskedByPeer, Pending, Answered, Replies
<1>5. CASE Startup \/ SubmitName \/ LogIn \/ Escape
  <2>1. (\E u \in Maybe(Names) : Begin(u)) \/ RestartAuthentication
    BY <1>5 DEF Startup, SubmitName, LogIn, Escape, Deep, LoginInv, PanelInv
  <2>2. FieldFollows /\ chosen' = chosen
    BY <1>5 DEF Startup, SubmitName, LogIn, Escape
  <2> QED BY <1>1, <1>2, <1>3, <2>1, <2>2, CallsFit
<1>6. ASSUME NEW u \in Accounts, PickAccount(u) PROVE SecretsInv'
  <2>1. u \in Maybe(Names) /\ u # None
    BY AccountsAssumption, NoneAssumption DEF Maybe
  <2>2. CASE Begin(u)
    <3>1. state' # "input-prompt"
      BY <2>1, <2>2, <1>6 DEF PickAccount, SelectorEnabled, Begin, BeginWhileCancelling, SwitchWhileConnecting,
         SwitchAccount, BeginIdle, FreshAttempt, Attempt, BeginCancellation, SetState, Deep,
         LoginInv, IInv, Control, StateFitsStage
    <3>2. FieldFits'
      BY <1>6, <3>1 DEF PickAccount, FieldFollows, FieldFits
    <3> QED BY <1>1, <1>2, <2>1, <2>2, <3>2, CallsFit
  <2>3. CASE BeginIgnored(u)
    <3>1. UNCHANGED vars /\ stage \in Running /\ u = activeUser
      BY <2>1, <2>3 DEF BeginIgnored, Running
    <3>2. chosen' = chosen
      BY <1>6, <3>1 DEF PickAccount, Deep, LoginInv, PanelInv
    <3> QED BY <1>1, <1>3, <1>4, <1>6, <3>1, <3>2 DEF PickAccount
  <2> QED BY <1>6, <2>2, <2>3 DEF PickAccount
<1>7. ASSUME NEW u \in Maybe(Names), EnterName(u) PROVE SecretsInv'
  <2>1. FieldFits'
    BY <1>7 DEF EnterName, NameEnabled, FieldFits, vars, controllerVars, exchangeVars
  <2> QED BY <1>1, <1>4, <1>7, <2>1 DEF EnterName
<1>8. CASE TypeText
  <2>1. FieldFits'
    BY <1>8 DEF TypeText, FieldFits, vars, controllerVars, exchangeVars
  <2> QED BY <1>1, <1>4, <1>8, <2>1 DEF TypeText
<1>9. CASE SubmitText
  BY <1>1, <1>9, RespondFits
<1>10. ASSUME NEW s \in Sessions, PickSession(s) PROVE SecretsInv'
  <2>1. stage # "Starting"
    BY <1>10 DEF PickSession, SessionEnabled, Deep, LoginInv, IInv, Control, StateFitsStage
  <2>2. UNCHANGED <<exchangeVars, channelVars, panelVars>>
    BY <1>10 DEF PickSession, SetSelectedSession
  <2> QED
    BY <1>1, <2>1, <2>2 DEF exchangeVars, panelVars, channelVars, clientVars, wireVars,
       greetdVars, TextFits, StartFits, AskedByPeer, FieldFits, Pending, Replies
<1> QED BY <1>5, <1>6, <1>7, <1>8, <1>9, <1>10 DEF Panel, NameField

-----------------------------------------------------------------------------
(* Replies and events. *)

\* Only a success while authenticating asks for the session, which leaves no
\* reply behind and the selected session on its way.
LEMMA AuthenticationSucceededFits ==
  ASSUME SecretsInv, AuthenticationSucceeded PROVE TextFits' /\ StartFits' /\ AskedByPeer'
<1> USE DEF SecretsInv, Deep, LoginInv, IInv, Typed
<1> DEFINE q == [type |-> "start", arg |-> selectedSession]
<1>1. stage = "Authenticating" /\ input # <<>> /\ stage' = "Starting" /\ ConsumedAndSent(q)
  BY DEF AuthenticationSucceeded, SuccessStarts, Receives, SetState
<1>2. q \in Request
  BY DEF Request, ControllerTypeOK
<1>3. Pending' = Pending \cup {q}
  BY <1>1, <1>2, SendPends DEF ConsumedAndSent
<1>4. NoText
  BY <1>1, NoTextWhenHandling
<1>5. UNCHANGED <<selectedSession, toClient, peerClosed>> /\ input' = Tail(input)
  BY <1>1 DEF AuthenticationSucceeded, ConsumedAndSent, Send, wireVars, greetdVars
<1>6. ~peerClosed => \A p \in Pending' : p.type = "start" => p.arg = selectedSession
  BY <1>1, <1>2, ConsumedAndSentStrong
<1>7. Answered' = {}
  <2>1. Len(input) = 1 /\ Len(toClient) = 0
    <3>1. Len(input) >= 1
      BY <1>1 DEF ChannelTypeOK
    <3>2. Replies <= 1
      BY <1>1 DEF AskedByPeer
    <3>3. Len(input) \in Nat /\ Len(toClient) \in Nat
      BY LengthsAreNat
    <3> HIDE DEF SecretsInv, Deep, LoginInv, IInv, Typed
    <3> QED BY <3>1, <3>2, <3>3 DEF Replies
  <2>2. Len(input') = 0
    BY <1>1, <1>5, <2>1 DEF ChannelTypeOK
  <2>3. Len(toClient') = 0
    BY <1>5, <2>1
  <2> HIDE DEF SecretsInv, Deep, LoginInv, IInv, Typed
  <2> QED BY <2>2, <2>3 DEF Answered
<1> QED
  BY <1>1, <1>3, <1>4, <1>5, <1>6, <1>7 DEF TextFits, NoText, StartFits, AskedByPeer

LEMMA HandleMessageFits ==
  ASSUME SecretsInv, [LoginNext]_loginVars, HandleMessage
  PROVE  TextFits' /\ StartFits' /\ AskedByPeer'
<1> USE DEF SecretsInv, Deep, LoginInv, IInv, Typed
<1>1. input # <<>>
  BY DEF HandleMessage, FinishCancellation, PromptForInput, PromptToShow,
     AuthenticationSucceeded, SessionAccepted, AuthenticationRefused, HandleFailure,
     ReplyFails, ConsumeFailure, Receives
<1>2. NoText
  BY <1>1, NoTextWhenHandling
<1>3. CASE FinishCancellation
  <2>1. CASE \E u, s : Attempt(u, s)
    <3>1. TextFits' /\ stage' # "Starting"
      BY <2>1, NewStream DEF Attempt
    <3>2. stage' = "Authenticating" => ~peerClosed'
      BY <2>1 DEF Attempt, Replace, Drop
    <3>3. AskedByPeer'
      BY <3>2, DeepNext, OpenPeerAsksNext DEF AskedByPeer
    <3> QED BY <3>1, <3>3 DEF StartFits
  <2>2. CASE stage' \in {"Idle", "Failed"} /\ Hangup
    BY <1>2, <2>2, HangupKeepsNoText DEF StartFits, AskedByPeer
  <2> QED BY <1>3, <2>1, <2>2 DEF FinishCancellation
<1>4. ASSUME stage = "Authenticating", stage' = "Authenticating", input' = Tail(input),
             UNCHANGED <<toClient, peerUser, activeUser>>
      PROVE  Replies' = 0 /\ peerUser' = activeUser' /\ AskedByPeer' /\ StartFits'
  <2>1. Len(input) >= 1 /\ Len(input') = Len(input) - 1
    BY <1>1, <1>4 DEF ChannelTypeOK
  <2>2. Replies = 1 /\ Replies' = 0
    BY <1>4, <2>1, LengthsAreNat DEF AskedByPeer, Replies
  <2> QED BY <1>4, <2>2 DEF AskedByPeer, StartFits
<1>5. CASE PromptForInput
  <2>1. /\ stage = "Authenticating" /\ stage' = stage /\ input' = Tail(input)
        /\ UNCHANGED <<toClient, peerUser, activeUser>> /\ Pending' = Pending
    BY <1>5 DEF PromptForInput, ConsumedOnly, wireVars, greetdVars, Pending
  <2> QED BY <1>2, <1>4, <2>1 DEF TextFits, NoText
<1>6. CASE PromptToShow
  <2>1. [type |-> "post", arg |-> None] \in Request
    BY DEF Request, Maybe
  <2>2. Pending' = Pending \cup {[type |-> "post", arg |-> None]}
    BY <1>6, <2>1, SendPends DEF PromptToShow, ConsumedAndSent
  <2>3. /\ stage = "Authenticating" /\ stage' = stage /\ input' = Tail(input)
        /\ UNCHANGED <<toClient, peerUser, activeUser>>
    BY <1>6 DEF PromptToShow, ConsumedAndSent, Send, wireVars, greetdVars
  <2> QED BY <1>2, <1>4, <2>2, <2>3 DEF TextFits, NoText
<1>7. CASE AuthenticationRefused
  BY <1>2, <1>7, CancelFits DEF AuthenticationRefused
<1>8. CASE SessionAccepted \/ HandleFailure
  <2>1. Hangup /\ stage' \in {"Failed", "Complete"}
    BY <1>8 DEF SessionAccepted, HandleFailure, Fails
  <2> QED BY <1>2, <2>1, HangupKeepsNoText DEF StartFits, AskedByPeer
<1>9. CASE ConsumeFailure
  BY <1>9, NewStream DEF ConsumeFailure, Fails, StartFits, AskedByPeer
<1> QED
  BY <1>3, <1>5, <1>6, <1>7, <1>8, <1>9, AuthenticationSucceededFits DEF HandleMessage

LEMMA GreetdAnswersFits ==
  ASSUME SecretsInv, GreetdAnswers, UNCHANGED controllerVars
  PROVE  TextFits' /\ StartFits'
<1> USE DEF SecretsInv, Deep, LoginInv, IInv, Typed
<1> DEFINE q == Head(toServer)
<1>1. ~peerClosed
  BY DEF GreetdAnswers
<1>2. q \in Pending /\ q \in Request
  BY DEF GreetdAnswers, Pending, ChannelTypeOK
<1>3. PICK r \in AnswersTo(q) :
        /\ toServer' = Tail(toServer)
        /\ toClient' = Append(toClient, r)
        /\ phase' = PhaseAfter(r)
        /\ scheduled' = IF phase' = "scheduled"
                        THEN [user |-> IF q.type = "create" THEN q.arg ELSE peerUser,
                              session |-> q.arg]
                        ELSE None
  BY DEF GreetdAnswers
<1>4. /\ Pending' \subseteq Pending
      /\ stage \in {"Authenticating", "Starting"} => Pending' = {} /\ Answered = {}
      /\ stage = "Cancelling" => \A p \in Pending' : p.type = "cancel"
  BY <1>1, AnswerLeaves DEF Strong
<1>5. UNCHANGED <<stage, activeUser, selectedSession, input>>
  BY DEF controllerVars, exchangeVars, GreetdAnswers, clientVars
<1>6. TextFits'
  <2>1. ASSUME NEW p \in Pending' PROVE ~(p.type = "post" /\ p.arg # None)
    BY <1>4, <2>1 DEF TextFits
  <2> QED BY <2>1 DEF TextFits
<1>7. ASSUME stage = "Starting"
      PROVE  \A a \in Answered' :
               a.type = "success" => scheduled' = [user |-> activeUser, session |-> selectedSession]
  <2>1. q.type = "start"
    <3>1. Len(toServer) >= 1 /\ q = toServer[1]
      BY DEF GreetdAnswers, ChannelTypeOK
    <3>2. Waits = 1 /\ OwedAt(1) = "start"
      BY <1>1, <1>7 DEF Strong, Paired
    <3>3. Len(input) + Len(toClient) = 0 /\ 1 \in 1..Len(toServer)
      BY <3>1, <3>2, LengthsAreNat DEF Waits
    <3>4. toServer[1].type = OwedAt(Len(input) + Len(toClient) + 1)
      BY <3>3, PendingAt
    <3> QED BY <3>1, <3>2, <3>3, <3>4
  <2>2. peerUser = activeUser /\ q.arg = selectedSession
    BY <1>1, <1>2, <1>7, <2>1 DEF StartFits, Strong, OneSession
  <2>3. r \in Reply /\ r.re = "start"
    BY <1>2, <2>1, AnswersType
  <2>4. Answered' \subseteq {r}
    <3>2. Len(input') = 0 /\ Len(toClient) = 0
      BY <1>4, <1>5, <1>7, RepliesNat, LengthsAreNat DEF Replies
    <3>3. Len(toClient') = 1 /\ toClient'[1] = r
      BY <1>3, <2>3, <3>2 DEF ChannelTypeOK
    <3> QED BY <3>2, <3>3 DEF Answered
  <2>5. r.type = "success" => phase' = "scheduled"
    BY <1>3, <2>3 DEF PhaseAfter
  <2> QED BY <1>3, <2>1, <2>2, <2>4, <2>5
<1>8. stage = "Starting" => Pending' = {}
  BY <1>4
<1> QED BY <1>5, <1>6, <1>7, <1>8 DEF StartFits

LEMMA EventsFit ==
  ASSUME SecretsInv, Events PROVE SecretsInv'
<1> USE DEF SecretsInv
<1>1. Deep' /\ [LoginNext]_loginVars
  BY DeepNext DEF LoginNext
<1>2. FieldFits'
  BY DEF Events, FieldFollows, FieldFits
<1>3. CASE HandleMessage
  BY <1>1, <1>2, <1>3, HandleMessageFits
<1> USE DEF Deep, LoginInv, IInv, Typed
<1>4. CASE ConnectCompletes
  <2>1. ~peerClosed' /\ stage' # "Starting"
    BY <1>4 DEF ConnectCompletes, Replace, Drop, Fails, controllerVars, exchangeVars
  <2>2. TextFits'
    <3>1. Replace("Connected", <<[type |-> "create", arg |-> activeUser]>>)
          \/ Replace("Connected", <<>>) \/ Drop
      BY <1>4 DEF ConnectCompletes
    <3>2. \A p \in Pending' : p.type = "create"
      BY <3>1, ReplacePends DEF Drop
    <3> QED BY <3>2 DEF TextFits
  <2> QED BY <1>1, <1>2, <2>1, <2>2, OpenPeerAsksNext DEF StartFits
<1>5. CASE Timeout \/ SocketFault \/ Disconnected
  <2>1. Drop /\ stage' \in {"Idle", "Failed"}
    BY <1>5 DEF Timeout, SocketFault, Disconnected, QuietWhenDisconnected, FailsUnless,
       Fails, controllerVars, exchangeVars
  <2> QED BY <1>1, <1>2, <2>1, NewStream DEF StartFits, AskedByPeer
<1>6. CASE Flush /\ UNCHANGED controllerVars
  <2>1. Pending' = Pending /\ Answered' = Answered
    BY <1>6, FlushPends
  <2>2. UNCHANGED <<stage, activeUser, selectedSession, input, toClient, peerUser, scheduled,
                    peerClosed>>
    BY <1>6 DEF controllerVars, exchangeVars, Flush, greetdVars
  <2>3. ~peerClosed
    BY <1>6 DEF Flush
  <2>4. TextFits' /\ StartFits'
    BY <2>1, <2>2 DEF TextFits, StartFits, Replies
  <2> QED BY <1>1, <1>2, <2>2, <2>3, <2>4, OpenPeerAsksNext
<1>7. CASE ReadyRead /\ UNCHANGED controllerVars
  <2>1. Pending' = Pending /\ Answered' \subseteq Answered
    BY <1>7, ReadyReadPends
  <2>2. UNCHANGED <<stage, state, activeUser, selectedSession, peerUser, scheduled, peerClosed>>
    BY <1>7 DEF controllerVars, exchangeVars, ReadyRead, greetdVars
  <2>3. Replies' = Replies
    <3>1. PICK n \in 1..Len(toClient) :
            /\ input' = SubSeq(toClient, 1, n)
            /\ toClient' = SubSeq(toClient, n + 1, Len(toClient))
      BY <1>7 DEF ReadyRead
    <3>2. Len(input') = n /\ Len(toClient') = Len(toClient) - n
      BY <3>1, LengthsAreNat DEF ChannelTypeOK
    <3>3. Len(input) = 0
      BY <1>7 DEF ReadyRead
    <3> QED BY <3>2, <3>3, LengthsAreNat DEF Replies
  <2> QED
    BY <1>1, <1>2, <2>1, <2>2, <2>3 DEF TextFits, StartFits, AskedByPeer
<1>8. CASE GreetdAnswers /\ UNCHANGED controllerVars
  <2>1. ~peerClosed'
    BY <1>8 DEF GreetdAnswers
  <2> QED BY <1>1, <1>2, <1>8, <2>1, GreetdAnswersFits, OpenPeerAsksNext
<1>9. CASE PeerCloses /\ UNCHANGED controllerVars
  <2>1. Pending' \subseteq Pending /\ Answered' = Answered /\ Replies' = Replies
    BY <1>9 DEF PeerCloses, clientVars, Pending, Answered, Replies
  <2>2. peerClosed' /\ UNCHANGED <<stage, state, activeUser, selectedSession, peerUser, scheduled>>
    BY <1>9 DEF PeerCloses, controllerVars, exchangeVars
  <2> QED BY <1>1, <1>2, <2>1, <2>2 DEF TextFits, StartFits, AskedByPeer
<1>10. CASE Exited
  BY <1>1, <1>2, <1>10 DEF Exited, vars, controllerVars, exchangeVars, channelVars, clientVars,
     wireVars, greetdVars, TextFits, StartFits, AskedByPeer, Pending, Answered, Replies
<1> QED
  BY <1>3, <1>4, <1>5, <1>6, <1>7, <1>8, <1>9, <1>10 DEF Events, Transport, Greetd

\* A greeter just started has sent nothing.
LEMMA SecretsInit == Fresh => SecretsInv
<1> SUFFICES ASSUME Fresh PROVE SecretsInv
  OBVIOUS
<1>1. Deep
  BY LoginInitInv, StrongInit DEF Fresh, Deep
<1> QED
  BY <1>1 DEF Fresh, Blank, ChannelInit, SecretsInv, AskedByPeer, FieldFits, TextFits,
     StartFits, Pending

\* The invariant is inductive.
LEMMA SecretsNext == SecretsInv /\ [LoginNext]_loginVars => SecretsInv'
<1>1. ASSUME SecretsInv, UNCHANGED loginVars PROVE SecretsInv'
  BY <1>1, DeepNext DEF loginVars, panelVars, vars, controllerVars, exchangeVars, channelVars,
     clientVars, wireVars, greetdVars, SecretsInv, TextFits, StartFits, AskedByPeer,
     FieldFits, Pending, Answered, Replies
<1> QED BY <1>1, PanelFits, EventsFit DEF LoginNext

LEMMA SecretsInvariance == LoginSpec => []SecretsInv
<1> QED BY LoginInitIsFresh, SecretsInit, SecretsNext, PTL DEF LoginSpec

-----------------------------------------------------------------------------
\* So a text in the queues is the account's own.
LEMMA SecretsFit == SecretsInv => SecretReachesItsAccount
<1> SUFFICES ASSUME SecretsInv, NEW i \in 1..Len(toServer \o outbox),
                    (toServer \o outbox)[i].type = "post",
                    (toServer \o outbox)[i].arg # None
             PROVE  /\ (toServer \o outbox)[i].arg = activeUser
                    /\ (toServer \o outbox)[i].arg \in {peerUser, None}
  BY DEF SecretReachesItsAccount
<1>1. (toServer \o outbox)[i] \in Pending
  BY QueuedIsPending DEF SecretsInv, Deep, LoginInv, IInv, Typed
<1> QED BY <1>1 DEF SecretsInv, TextFits

\* What was typed for an account is sent to greetd for that account only.
THEOREM SecretsReachTheirAccount == LoginSpec => []SecretReachesItsAccount
<1> QED BY SecretsFit, SecretsInvariance, PTL

\* A save writes the account and session that greetd will start.
LEMMA SaveIsScheduled ==
  ASSUME SecretsInv, [LoginNext]_loginVars, saved' # saved
  PROVE  /\ scheduled # None /\ stage' = "Complete"
         /\ saved' = [user |-> IF ManualMode THEN None ELSE scheduled.user,
                      session |-> scheduled.session]
<1>1. SessionAccepted
  <2>1. [ControllerNext]_vars
    BY PanelStepsAreCalls DEF SecretsInv, Deep
  <2> QED BY <2>1, OnlyAcceptanceSaves
<1>2. Head(input) \in Answered /\ Head(input).type = "success" /\ stage = "Starting"
  <2>1. input # <<>> /\ Head(input).type = "success" /\ stage = "Starting"
    BY <1>1 DEF SessionAccepted, Receives
  <2>2. input \in Seq(Reply)
    BY DEF SecretsInv, Deep, LoginInv, IInv, Typed, ChannelTypeOK
  <2> QED BY <2>1, <2>2 DEF Answered
<1>3. scheduled = [user |-> activeUser, session |-> selectedSession]
  BY <1>2 DEF SecretsInv, StartFits
<1>4. scheduled # None
  <2>1. activeUser \in Names \cup {None} /\ selectedSession \in Sessions \cup {None}
    BY DEF SecretsInv, Deep, LoginInv, IInv, Typed, ControllerTypeOK, Maybe
  <2>2. scheduled \in [user : Names \cup {None}, session : Sessions \cup {None}]
    BY <1>3, <2>1
  <2> QED BY <2>2, NoneAssumption
<1>5. saved' = [user |-> RememberedUser, session |-> selectedSession]
  BY <1>1 DEF SessionAccepted, Written
<1>6. stage' = "Complete"
  BY <1>1 DEF SessionAccepted
<1> QED BY <1>3, <1>4, <1>5, <1>6 DEF RememberedUser

\* What is remembered is the account and session that greetd will start.
THEOREM WhatIsSavedIsScheduled == LoginSpec => SavedIsScheduled
<1>1. SecretsInv /\ [LoginNext]_loginVars
        => [saved' # saved =>
             /\ scheduled # None
             /\ saved' = [user |-> IF ManualMode THEN None ELSE scheduled.user,
                          session |-> scheduled.session]]_loginVars
  BY SaveIsScheduled
<1> QED BY <1>1, SecretsInvariance, PTL DEF LoginSpec, SavedIsScheduled
=============================================================================
