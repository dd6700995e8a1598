----------------------------- MODULE Boots_proofs -----------------------------
(***************************************************************************)
(* Theorems about Boots.tla: what Login_proofs shows of one life holds of   *)
(* every life, and the state file carries the last login from one life to   *)
(* the next.  Login_proofs is used three times, once per configuration.     *)
(***************************************************************************)
EXTENDS Boots, Login_proofs

ListP    == INSTANCE Login_proofs WITH ManualMode <- FALSE
InvalidP == INSTANCE Login_proofs WITH ManualMode <- FALSE, ConfigValid <- FALSE

\* What the instances assume of their constants follows from what is assumed
\* of Boots.
LEMMA InstancesAreJustified ==
  /\ ListP!AccountsAssumption /\ ListP!NoneAssumption /\ ListP!ConfigAssumption
  /\ InvalidP!AccountsAssumption /\ InvalidP!NoneAssumption /\ InvalidP!ConfigAssumption
BY AccountsAssumption, NoneAssumption, ConfigAssumption
DEF ListP!AccountsAssumption, ListP!NoneAssumption, ListP!ConfigAssumption,
    InvalidP!AccountsAssumption, InvalidP!NoneAssumption, InvalidP!ConfigAssumption

-----------------------------------------------------------------------------
(* The instances of Login in Boots and those of Login_proofs are the same.    *)
(* The configuration is in no invariant of a life, only in its steps.         *)

LEMMA ListNextIs == List!LoginNext <=> ListP!LoginNext
  BY DEF List!AnswersTo, ListP!AnswersTo, List!AtRest, ListP!AtRest, List!Attempt,
     ListP!Attempt, List!AuthenticationRefused, ListP!AuthenticationRefused,
     List!AuthenticationSucceeded, ListP!AuthenticationSucceeded, List!Begin,
     ListP!Begin, List!BeginCancellation, ListP!BeginCancellation, List!BeginIdle,
     ListP!BeginIdle, List!BeginIgnored, ListP!BeginIgnored, List!BeginWhileCancelling,
     ListP!BeginWhileCancelling, List!Beginnable, ListP!Beginnable, List!CanRespond,
     ListP!CanRespond, List!ConnectCompletes, ListP!ConnectCompletes,
     List!ConsumeFailure, ListP!ConsumeFailure, List!ConsumedAndSent,
     ListP!ConsumedAndSent, List!ConsumedOnly, ListP!ConsumedOnly, List!Disconnected,
     ListP!Disconnected, List!Drop, ListP!Drop, List!EnterName, ListP!EnterName,
     List!Escape, ListP!Escape, List!EscapeEnabled, ListP!EscapeEnabled, List!Events,
     ListP!Events, List!Exited, ListP!Exited, List!Fails, ListP!Fails, List!FailsUnless,
     ListP!FailsUnless, List!FieldFollows, ListP!FieldFollows, List!FinishCancellation,
     ListP!FinishCancellation, List!Flush, ListP!Flush, List!FreshAttempt,
     ListP!FreshAttempt, List!Greetd, ListP!Greetd, List!GreetdAnswers,
     ListP!GreetdAnswers, List!HandleFailure, ListP!HandleFailure, List!HandleMessage,
     ListP!HandleMessage, List!Hangup, ListP!Hangup, List!HungUp, ListP!HungUp,
     List!KindsForInput, ListP!KindsForInput, List!LogIn, ListP!LogIn, List!LoginNext,
     ListP!LoginNext, List!Maybe, ListP!Maybe, List!NameEnabled, ListP!NameEnabled,
     List!NameField, ListP!NameField, List!Panel, ListP!Panel, List!PeerCloses,
     ListP!PeerCloses, List!PhaseAfter, ListP!PhaseAfter, List!PickAccount,
     ListP!PickAccount, List!PickSession, ListP!PickSession, List!PromptForInput,
     ListP!PromptForInput, List!PromptKinds, ListP!PromptKinds, List!PromptToShow,
     ListP!PromptToShow, List!QuietWhenDisconnected, ListP!QuietWhenDisconnected,
     List!ReadyRead, ListP!ReadyRead, List!Receives, ListP!Receives, List!RememberedUser,
     ListP!RememberedUser, List!Replace, ListP!Replace, List!ReplyFails,
     ListP!ReplyFails, List!Respond, ListP!Respond, List!RestartAuthentication,
     ListP!RestartAuthentication, List!SelectorEnabled, ListP!SelectorEnabled, List!Send,
     ListP!Send, List!SessionAccepted, ListP!SessionAccepted, List!SessionEnabled,
     ListP!SessionEnabled, List!SetSelectedSession, ListP!SetSelectedSession,
     List!SetState, ListP!SetState, List!SocketFault, ListP!SocketFault, List!Startup,
     ListP!Startup, List!SubmitName, ListP!SubmitName, List!SubmitText, ListP!SubmitText,
     List!SuccessStarts, ListP!SuccessStarts, List!SwitchAccount, ListP!SwitchAccount,
     List!SwitchWhileConnecting, ListP!SwitchWhileConnecting, List!Timeout,
     ListP!Timeout, List!Transport, ListP!Transport, List!TypeText, ListP!TypeText,
     List!Written, ListP!Written, List!channelVars, ListP!channelVars, List!clientVars,
     ListP!clientVars, List!controllerVars, ListP!controllerVars, List!exchangeVars,
     ListP!exchangeVars, List!greetdVars, ListP!greetdVars, List!panelVars,
     ListP!panelVars, List!vars, ListP!vars, List!wireVars, ListP!wireVars

LEMMA InvalidNextIs == Invalid!LoginNext <=> InvalidP!LoginNext
  BY DEF Invalid!AnswersTo, InvalidP!AnswersTo, Invalid!AtRest, InvalidP!AtRest,
     Invalid!Attempt, InvalidP!Attempt, Invalid!AuthenticationRefused,
     InvalidP!AuthenticationRefused, Invalid!AuthenticationSucceeded,
     InvalidP!AuthenticationSucceeded, Invalid!Begin, InvalidP!Begin,
     Invalid!BeginCancellation, InvalidP!BeginCancellation, Invalid!BeginIdle,
     InvalidP!BeginIdle, Invalid!BeginIgnored, InvalidP!BeginIgnored,
     Invalid!BeginWhileCancelling, InvalidP!BeginWhileCancelling, Invalid!Beginnable,
     InvalidP!Beginnable, Invalid!CanRespond, InvalidP!CanRespond,
     Invalid!ConnectCompletes, InvalidP!ConnectCompletes, Invalid!ConsumeFailure,
     InvalidP!ConsumeFailure, Invalid!ConsumedAndSent, InvalidP!ConsumedAndSent,
     Invalid!ConsumedOnly, InvalidP!ConsumedOnly, Invalid!Disconnected,
     InvalidP!Disconnected, Invalid!Drop, InvalidP!Drop, Invalid!EnterName,
     InvalidP!EnterName, Invalid!Escape, InvalidP!Escape, Invalid!EscapeEnabled,
     InvalidP!EscapeEnabled, Invalid!Events, InvalidP!Events, Invalid!Exited,
     InvalidP!Exited, Invalid!Fails, InvalidP!Fails, Invalid!FailsUnless,
     InvalidP!FailsUnless, Invalid!FieldFollows, InvalidP!FieldFollows,
     Invalid!FinishCancellation, InvalidP!FinishCancellation, Invalid!Flush,
     InvalidP!Flush, Invalid!FreshAttempt, InvalidP!FreshAttempt, Invalid!Greetd,
     InvalidP!Greetd, Invalid!GreetdAnswers, InvalidP!GreetdAnswers,
     Invalid!HandleFailure, InvalidP!HandleFailure, Invalid!HandleMessage,
     InvalidP!HandleMessage, Invalid!Hangup, InvalidP!Hangup, Invalid!HungUp,
     InvalidP!HungUp, Invalid!KindsForInput, InvalidP!KindsForInput, Invalid!LogIn,
     InvalidP!LogIn, Invalid!LoginNext, InvalidP!LoginNext, Invalid!Maybe,
     InvalidP!Maybe, Invalid!NameEnabled, InvalidP!NameEnabled, Invalid!NameField,
     InvalidP!NameField, Invalid!Panel, InvalidP!Panel, Invalid!PeerCloses,
     InvalidP!PeerCloses, Invalid!PhaseAfter, InvalidP!PhaseAfter, Invalid!PickAccount,
     InvalidP!PickAccount, Invalid!PickSession, InvalidP!PickSession,
     Invalid!PromptForInput, InvalidP!PromptForInput, Invalid!PromptKinds,
     InvalidP!PromptKinds, Invalid!PromptToShow, InvalidP!PromptToShow,
     Invalid!QuietWhenDisconnected, InvalidP!QuietWhenDisconnected, Invalid!ReadyRead,
     InvalidP!ReadyRead, Invalid!Receives, InvalidP!Receives, Invalid!RememberedUser,
     InvalidP!RememberedUser, Invalid!Replace, InvalidP!Replace, Invalid!ReplyFails,
     InvalidP!ReplyFails, Invalid!Respond, InvalidP!Respond,
     Invalid!RestartAuthentication, InvalidP!RestartAuthentication,
     Invalid!SelectorEnabled, InvalidP!SelectorEnabled, Invalid!Send, InvalidP!Send,
     Invalid!SessionAccepted, InvalidP!SessionAccepted, Invalid!SessionEnabled,
     InvalidP!SessionEnabled, Invalid!SetSelectedSession, InvalidP!SetSelectedSession,
     Invalid!SetState, InvalidP!SetState, Invalid!SocketFault, InvalidP!SocketFault,
     Invalid!Startup, InvalidP!Startup, Invalid!SubmitName, InvalidP!SubmitName,
     Invalid!SubmitText, InvalidP!SubmitText, Invalid!SuccessStarts,
     InvalidP!SuccessStarts, Invalid!SwitchAccount, InvalidP!SwitchAccount,
     Invalid!SwitchWhileConnecting, InvalidP!SwitchWhileConnecting, Invalid!Timeout,
     InvalidP!Timeout, Invalid!Transport, InvalidP!Transport, Invalid!TypeText,
     InvalidP!TypeText, Invalid!Written, InvalidP!Written, Invalid!channelVars,
     InvalidP!channelVars, Invalid!clientVars, InvalidP!clientVars,
     Invalid!controllerVars, InvalidP!controllerVars, Invalid!exchangeVars,
     InvalidP!exchangeVars, Invalid!greetdVars, InvalidP!greetdVars, Invalid!panelVars,
     InvalidP!panelVars, Invalid!vars, InvalidP!vars, Invalid!wireVars, InvalidP!wireVars

LEMMA ListInvIs == SecretsInv <=> ListP!SecretsInv
  BY DEF Active, ListP!Active, Answered, ListP!Answered, AskedByPeer, ListP!AskedByPeer,
     CancellationLeavesNothing, ListP!CancellationLeavesNothing, ChannelTypeOK,
     ListP!ChannelTypeOK, Control, ListP!Control, ControllerTypeOK,
     ListP!ControllerTypeOK, ConversationOnOpenSocket, ListP!ConversationOnOpenSocket,
     Deep, ListP!Deep, Failures, ListP!Failures, FieldFits, ListP!FieldFits, IInv,
     ListP!IInv, LoginInv, ListP!LoginInv, Maybe, ListP!Maybe, NoStartPending,
     ListP!NoStartPending, OneSession, ListP!OneSession, OwedAt, ListP!OwedAt, Paired,
     ListP!Paired, PanelInv, ListP!PanelInv, Pending, ListP!Pending, PhaseAfter,
     ListP!PhaseAfter, PromptKinds, ListP!PromptKinds, Replies, ListP!Replies, Reply,
     ListP!Reply, Request, ListP!Request, RequestTypes, ListP!RequestTypes, Running,
     ListP!Running, SecretsInv, ListP!SecretsInv, SessionSelected, ListP!SessionSelected,
     SocketStates, ListP!SocketStates, Stages, ListP!Stages, StartFits, ListP!StartFits,
     StateFitsStage, ListP!StateFitsStage, States, ListP!States, Strong, ListP!Strong,
     TextFits, ListP!TextFits, Typed, ListP!Typed, WaitIsBounded, ListP!WaitIsBounded,
     Waiting, ListP!Waiting, Waits, ListP!Waits

LEMMA InvalidInvIs == SecretsInv <=> InvalidP!SecretsInv
  BY DEF Active, InvalidP!Active, Answered, InvalidP!Answered, AskedByPeer,
     InvalidP!AskedByPeer, CancellationLeavesNothing, InvalidP!CancellationLeavesNothing,
     ChannelTypeOK, InvalidP!ChannelTypeOK, Control, InvalidP!Control, ControllerTypeOK,
     InvalidP!ControllerTypeOK, ConversationOnOpenSocket,
     InvalidP!ConversationOnOpenSocket, Deep, InvalidP!Deep, Failures, InvalidP!Failures,
     FieldFits, InvalidP!FieldFits, IInv, InvalidP!IInv, LoginInv, InvalidP!LoginInv,
     Maybe, InvalidP!Maybe, NoStartPending, InvalidP!NoStartPending, OneSession,
     InvalidP!OneSession, OwedAt, InvalidP!OwedAt, Paired, InvalidP!Paired, PanelInv,
     InvalidP!PanelInv, Pending, InvalidP!Pending, PhaseAfter, InvalidP!PhaseAfter,
     PromptKinds, InvalidP!PromptKinds, Replies, InvalidP!Replies, Reply, InvalidP!Reply,
     Request, InvalidP!Request, RequestTypes, InvalidP!RequestTypes, Running,
     InvalidP!Running, SecretsInv, InvalidP!SecretsInv, SessionSelected,
     InvalidP!SessionSelected, SocketStates, InvalidP!SocketStates, Stages,
     InvalidP!Stages, StartFits, InvalidP!StartFits, StateFitsStage,
     InvalidP!StateFitsStage, States, InvalidP!States, Strong, InvalidP!Strong, TextFits,
     InvalidP!TextFits, Typed, InvalidP!Typed, WaitIsBounded, InvalidP!WaitIsBounded,
     Waiting, InvalidP!Waiting, Waits, InvalidP!Waits

-----------------------------------------------------------------------------
(* The invariant. *)

\* The invariant of a life holds throughout; between two lives nothing of it is
\* left, and the state file is that of the last login.
LifeInv ==
  /\ SecretsInv
  /\ life \in Configurations \cup {"off"}
  /\ life = "off" => Blank /\ chosen = None /\ field = None
  /\ last = saved

\* What a life's step does to its invariant and to the state file.
LEMMA LiveKeeps ==
  ASSUME SecretsInv, Live
  PROVE  /\ SecretsInv'
         /\ saved' # saved =>
              /\ scheduled # None /\ stage' = "Complete"
              /\ saved' = [user |-> IF life = "manual" THEN None ELSE scheduled.user,
                           session |-> scheduled.session]
<1>1. CASE life = "list" /\ List!LoginNext
  <2>1. ListP!SecretsInv /\ ListP!LoginNext
    BY <1>1, ListInvIs, ListNextIs
  <2>2. ListP!SecretsInv'
    BY <2>1, ListP!SecretsNext, AccountsAssumption, NoneAssumption, ConfigAssumption
    DEF AccountsAssumption, NoneAssumption, ConfigAssumption
  <2>3. ListP!SecretsInv' => SecretsInv'
    BY ListInvIs, PTL
  <2>4. saved' # saved =>
          /\ scheduled # None /\ stage' = "Complete"
          /\ saved' = [user |-> IF FALSE THEN None ELSE scheduled.user,
                       session |-> scheduled.session]
    BY <2>1, ListP!SaveIsScheduled, AccountsAssumption, NoneAssumption, ConfigAssumption
    DEF AccountsAssumption, NoneAssumption, ConfigAssumption
  <2> QED BY <1>1, <2>2, <2>3, <2>4
<1>2. CASE life = "manual" /\ LoginNext
  <2>1. SecretsInv'
    BY <1>2, SecretsNext
  <2>2. saved' # saved =>
          /\ scheduled # None /\ stage' = "Complete"
          /\ saved' = [user |-> IF ManualMode THEN None ELSE scheduled.user,
                       session |-> scheduled.session]
    BY <1>2, SaveIsScheduled
  <2> QED BY <1>2, <2>1, <2>2, BootsAssumption
<1>3. CASE life = "invalid" /\ Invalid!LoginNext
  <2>1. InvalidP!SecretsInv /\ InvalidP!LoginNext
    BY <1>3, InvalidInvIs, InvalidNextIs
  <2>2. InvalidP!SecretsInv'
    BY <2>1, InvalidP!SecretsNext, AccountsAssumption, NoneAssumption, ConfigAssumption
    DEF AccountsAssumption, NoneAssumption, ConfigAssumption
  <2>3. InvalidP!SecretsInv' => SecretsInv'
    BY InvalidInvIs, PTL
  <2>4. saved' # saved =>
          /\ scheduled # None /\ stage' = "Complete"
          /\ saved' = [user |-> IF FALSE THEN None ELSE scheduled.user,
                       session |-> scheduled.session]
    BY <2>1, InvalidP!SaveIsScheduled, AccountsAssumption, NoneAssumption, ConfigAssumption
    DEF AccountsAssumption, NoneAssumption, ConfigAssumption
  <2> QED BY <1>3, <2>2, <2>3, <2>4
<1> QED BY <1>1, <1>2, <1>3 DEF Live

\* Freshness carried to the next state.
LEMMA FreshNext == Fresh' => SecretsInv'
BY SecretsInit, PTL

\* The greeter begins with nothing and with the file it finds.
LEMMA BootsInitInv == BootsInit => LifeInv
<1> SUFFICES ASSUME BootsInit PROVE LifeInv
  OBVIOUS
<1>1. Fresh
  BY DEF BootsInit, Fresh, Maybe
<1> QED BY <1>1, SecretsInit DEF BootsInit, LifeInv

\* It is started on an account and a session it may offer.
LEMMA StartKeeps ==
  ASSUME LifeInv, NEW configuration \in Configurations, Start(configuration)
  PROVE  LifeInv'
<1>1. Blank' /\ field' = None
  BY DEF LifeInv, Start, Blank, ChannelInit, exchangeVars, channelVars, clientVars, wireVars,
     greetdVars
<1>2. selectedSession' \in Maybe(Sessions)
  BY DEF Start, SelectSession, Maybe
<1>3. chosen' \in Maybe(Names)
  BY AccountsAssumption DEF Start, InitialUser, Configurations, Maybe
<1>4. SecretsInv'
  BY <1>1, <1>2, <1>3, FreshNext DEF Fresh
<1> QED BY <1>4 DEF LifeInv, Start, Configurations

\* When it ends, greetd forgets the conversation and the next life finds the
\* state file.
LEMMA StopKeeps == ASSUME LifeInv, Stop PROVE LifeInv'
<1>1. Blank' /\ chosen' = None /\ field' = None
  BY DEF Stop, Drop, Replace, SetState, Blank, ChannelInit
<1>2. Fresh'
  BY <1>1 DEF Stop, Fresh, Maybe
<1> QED BY <1>1, <1>2, FreshNext DEF LifeInv, Stop, Configurations

\* A save and the record of the last login are one.
LEMMA LiveKeepsLast == ASSUME LifeInv, Live PROVE last' = saved'
BY LiveKeeps DEF LifeInv, Live

\* The invariant is inductive.
LEMMA BootsNextInv == LifeInv /\ [BootsNext]_bootVars => LifeInv'
<1> SUFFICES ASSUME LifeInv, [BootsNext]_bootVars PROVE LifeInv'
  OBVIOUS
<1>1. CASE Live
  <2>1. SecretsInv' /\ last' = saved'
    BY <1>1, LiveKeeps, LiveKeepsLast DEF LifeInv
  <2>2. life' = life /\ life # "off"
    BY <1>1 DEF Live
  <2> QED BY <2>1, <2>2 DEF LifeInv
<1>2. CASE Stop
  BY <1>2, StopKeeps
<1>3. CASE \E c \in Configurations : Start(c)
  BY <1>3, StartKeeps
<1>4. CASE UNCHANGED bootVars
  <2>1. [LoginNext]_loginVars
    BY <1>4 DEF bootVars
  <2>2. SecretsInv'
    BY <2>1, SecretsNext DEF LifeInv
  <2>3. life' = life /\ last' = last /\ saved' = saved /\ chosen' = chosen /\ field' = field
    BY <1>4 DEF bootVars, loginVars, vars, controllerVars, panelVars
  <2>4. Blank' = Blank
    BY <1>4 DEF bootVars, loginVars, vars, controllerVars, exchangeVars, channelVars,
       clientVars, wireVars, greetdVars, Blank, ChannelInit
  <2> QED BY <2>2, <2>3, <2>4 DEF LifeInv
<1> QED BY <1>1, <1>2, <1>3, <1>4 DEF BootsNext

-----------------------------------------------------------------------------
\* However often the greeter is started, crashes and is configured anew, every
\* life keeps the invariants of the login and begins with the last login.
THEOREM EveryLife == BootsSpec => []LifeInv
<1> QED BY BootsInitInv, BootsNextInv, PTL DEF BootsSpec

\* In every life a prompt is for the account the panel shows.
THEOREM PromptInEveryLife == BootsSpec => []PromptShowsChosen
<1>1. LifeInv => PromptShowsChosen
  BY DEF LifeInv, SecretsInv, Deep, LoginInv, IInv, Typed, ControllerTypeOK, Stages, Control,
     StateFitsStage, PanelInv, Running, PromptShowsChosen
<1> QED BY <1>1, EveryLife, PTL

\* In every life what was typed for an account is sent for that account only.
THEOREM SecretsInEveryLife == BootsSpec => []SecretReachesItsAccount
<1>1. LifeInv => SecretReachesItsAccount
  BY SecretsFit DEF LifeInv
<1> QED BY <1>1, EveryLife, PTL

\* The state file only ever changes to a whole login: the account and session
\* greetd has accepted to start, without the account in a manual life.
THEOREM FileStaysWhole == BootsSpec => FileIsWholeLogin
<1>1. ASSUME LifeInv, [BootsNext]_bootVars, saved' # saved
      PROVE  /\ scheduled # None /\ stage' = "Complete"
             /\ saved' = [user |-> IF life = "manual" THEN None ELSE scheduled.user,
                          session |-> scheduled.session]
  <2>1. Live
    BY <1>1 DEF BootsNext, Stop, Start, bootVars, loginVars, vars, controllerVars
  <2> QED BY <1>1, <2>1, LiveKeeps DEF LifeInv
<1>2. LifeInv /\ [BootsNext]_bootVars
        => [saved' # saved =>
              /\ scheduled # None /\ stage' = "Complete"
              /\ saved' = [user |-> IF life = "manual" THEN None ELSE scheduled.user,
                           session |-> scheduled.session]]_bootVars
  BY <1>1
<1> QED BY <1>2, EveryLife, PTL DEF BootsSpec, FileIsWholeLogin

\* A list begins on the account of the last remembered login while it is
\* listed, and the last session is offered while it is installed.
THEOREM LastLoginIsOffered == BootsSpec => LastLoginOffered
<1> DEFINE Offered ==
      life = "off" /\ life' # "off" /\ last # None =>
        /\ life' = "list" =>
             IF last.user \in Accounts THEN chosen' = last.user ELSE chosen' \in Accounts
        /\ life' = "manual" => chosen' = None
        /\ last.session \in Sessions => selectedSession' = last.session
<1>1. ASSUME LifeInv, [BootsNext]_bootVars, life = "off", life' # "off", last # None
      PROVE  Offered
  <2>1. PICK c \in Configurations : Start(c)
    BY <1>1 DEF BootsNext, Live, Stop, bootVars
  <2>2. LoadState = last
    BY <1>1 DEF LifeInv, LoadState
  <2> QED
    BY <1>1, <2>1, <2>2 DEF Start, SelectSession, InitialUser, Configurations
<1>2. LifeInv /\ [BootsNext]_bootVars => [Offered]_bootVars
  BY <1>1
<1> QED BY <1>2, EveryLife, PTL DEF BootsSpec, LastLoginOffered
===============================================================================
