-------------------------------- MODULE Login --------------------------------
(***************************************************************************)
(* The login panel (src/qml/LoginPanel.qml and the Escape shortcut of       *)
(* src/qml/Main.qml) on top of the controller: the program as a user meets  *)
(* it.  The panel calls the controller only through controls that are       *)
(* enabled, and it owns two pieces of state of its own: the account its     *)
(* selector (or username field) shows, and the text in the response field,  *)
(* represented by the account that was shown while it was typed.            *)
(***************************************************************************)
EXTENDS Controller

CONSTANT ConfigValid  \* greeterConfigError is empty

ASSUME ConfigAssumption == ConfigValid \in BOOLEAN

VARIABLES
  chosen,  \* panel.selectedUser
  field    \* the account the text in the response field was typed for, or None

panelVars == <<chosen, field>>
loginVars == <<vars, panelVars>>

\* The selector starts on initialUser (the remembered account when it is
\* listed, else the first); the username field starts empty.
LoginInit ==
  /\ ControllerInit
  /\ chosen \in IF ManualMode \/ Accounts = {} THEN {None} ELSE Accounts
  /\ field = None

\* Mutant: the field keeps its text while it is hidden.
FieldStays == field' = field
\* The field is wiped whenever it is hidden.
FieldFollows == field' = IF state' = "input-prompt" THEN field ELSE None

-----------------------------------------------------------------------------
\* Mutants: controls that stay enabled while a session is being started, and
\* a username field that stays enabled after it was submitted.
SelectorStaysEnabled == ~ManualMode /\ \E a, b \in Accounts : a # b
SessionStaysEnabled == state # "authenticated"
NameStaysEnabled == ManualMode

SelectorEnabled ==
  /\ ~ManualMode /\ \E a, b \in Accounts : a # b
  /\ state \notin {"starting", "authenticated"}
NameEnabled == ConfigValid /\ ManualMode /\ state = "user-selection"
SessionEnabled == ConfigValid /\ state \notin {"starting", "authenticated"}
EscapeEnabled == state \notin {"user-selection", "failed", "authenticated"}

\* begin() returns without effect when the candidate's exchange is running.
BeginIgnored(u) ==
  /\ AtRest /\ stage \in {"Connecting", "Authenticating", "Starting"}
  /\ u \in {None, activeUser}
  /\ UNCHANGED vars

\* Component.onCompleted: the exchange for the initial account starts at once.
Startup ==
  /\ ConfigValid /\ ~ManualMode /\ chosen # None
  /\ stage = "Idle" /\ status = "none"
  /\ Begin(chosen)
  /\ FieldFollows /\ UNCHANGED chosen

PickAccount(u) ==
  /\ SelectorEnabled
  /\ Begin(u) \/ BeginIgnored(u)
  /\ chosen' = u
  /\ FieldFollows

\* The username field is edited.
EnterName(u) ==
  /\ AtRest /\ NameEnabled
  /\ chosen' = u
  /\ UNCHANGED <<vars, field>>

\* Enter in the username field, or Log in beside it.
SubmitName ==
  /\ NameEnabled
  /\ Begin(chosen)
  /\ FieldFollows /\ UNCHANGED chosen

\* Log in after a failure.
LogIn ==
  /\ ConfigValid /\ state = "failed" /\ Sessions # {}
  /\ Begin(chosen)
  /\ FieldFollows /\ UNCHANGED chosen

TypeText ==
  /\ AtRest /\ state = "input-prompt"
  /\ field' = chosen
  /\ UNCHANGED <<vars, chosen>>

\* Enter in the response field, or Log in: the text is sent and wiped.
SubmitText ==
  /\ state = "input-prompt"
  /\ Respond(field)
  /\ field' = None
  /\ UNCHANGED chosen

PickSession(s) ==
  /\ SessionEnabled
  /\ SetSelectedSession(s)
  /\ UNCHANGED panelVars

Escape ==
  /\ EscapeEnabled
  /\ RestartAuthentication
  /\ FieldFollows /\ UNCHANGED chosen

NameField == SubmitName \/ \E u \in Maybe(Names) : EnterName(u)

Panel ==
  \/ Startup \/ LogIn \/ TypeText \/ SubmitText \/ Escape
  \/ \E u \in Accounts : PickAccount(u)
  \/ \E s \in Sessions : PickSession(s)

Events ==
  /\ HandleMessage \/ Transport \/ Greetd \/ Exited
  /\ FieldFollows /\ UNCHANGED chosen

LoginNext == Panel \/ NameField \/ Events

LoginSpec == LoginInit /\ [][LoginNext]_loginVars

\* The same with a list of accounts, where there is no username field.
ListNext == Panel \/ Events

ListSpec == LoginInit /\ [][ListNext]_loginVars

-----------------------------------------------------------------------------
(* Properties of the program as the user meets it. *)

\* A prompt is always for the account the panel shows, however accounts were
\* picked while connecting, waiting, cancelling or after failures.
PromptShowsChosen == state = "input-prompt" => activeUser = chosen

\* What was typed for an account is sent to greetd for that account only: no
\* text survives a change of account or an exchange begun anew.
SecretReachesItsAccount ==
  \A i \in 1..Len(toServer \o outbox) :
    LET q == (toServer \o outbox)[i]
    IN q.type = "post" /\ q.arg # None => q.arg = activeUser /\ q.arg \in {peerUser, None}

\* Once a session start is requested the answer to it is awaited: it is never
\* cancelled, and only its answer or a failure ends the wait.
StartIsFinal ==
  [][stage = "Starting" => stage' \in {"Starting", "Complete", "Failed"}]_loginVars

\* What is remembered is what greetd is about to start: the account it
\* authenticated and the session it was given, not a later choice.
SavedIsScheduled ==
  [][saved' # saved =>
       /\ scheduled # None
       /\ saved' = [user |-> IF ManualMode THEN None ELSE scheduled.user,
                    session |-> scheduled.session]]_loginVars

\* A refused account is tried again, or the account picked meanwhile is: the
\* retry is never lost while the cancellation runs.
RefusalIsRetried == cancellationFailure # "none" => pendingUser # None /\ pendingUser = chosen

-----------------------------------------------------------------------------
(* The event loop delivers what is ready: queued bytes, arrived replies and   *)
(* an expired timer.  Nothing is assumed of greetd or of the user.            *)
Fairness ==
  /\ WF_loginVars(Transport /\ (Flush \/ ReadyRead) /\ FieldFollows /\ UNCHANGED chosen)
  /\ WF_loginVars(HandleMessage /\ FieldFollows /\ UNCHANGED chosen)
  /\ WF_loginVars(Timeout /\ FieldFollows /\ UNCHANGED chosen)

FairListSpec == ListSpec /\ Fairness

\* A cancellation ends, and a requested session start is resolved, whatever
\* greetd does or fails to do.
CancellationEnds == stage = "Cancelling" ~> stage # "Cancelling"
StartResolves == stage = "Starting" ~> stage \in {"Complete", "Failed"}
==============================================================================
