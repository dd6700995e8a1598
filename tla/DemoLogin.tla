------------------------------- MODULE DemoLogin -------------------------------
(***************************************************************************)
(* The greeter in demo mode (the branches on demo_ in                       *)
(* src/src/controller.cpp) under the panel (src/qml/LoginPanel.qml): the     *)
(* records are discovered as in production, greetd is a script, and nothing *)
(* is saved or started.  The panel's controls are those of Login.tla; here   *)
(* cancel() runs inside begin() and restartAuthentication().                *)
(***************************************************************************)
EXTENDS AccountSource, Integers

CONSTANTS Machines,    \* the machines, configurations and arguments to start with
          MaxAttempts  \* bound: authentications begun or cancelled

VARIABLES
  machine,          \* what the constructor reads; nothing reads it again
  phase,            \* "constructing", "created" or "running"
  users,            \* userRecords_
  sessions,         \* sessionRecords_
  scenario,         \* scenario_
  stage,            \* stage_
  state,            \* state_
  status,           \* status_, by kind
  prompt,           \* prompt_, by kind
  activeUser,       \* activeUser_, empty text when unset
  demoAttempt,      \* demoAttempt_
  demoStep,         \* demoStep_
  timers,           \* the attempts for which a 750 ms timer is running
  selectedSession,  \* selectedSession_
  chosen,           \* panel.selectedUser
  field             \* the account the response text was typed for, or empty text

\* Both orders are total: a name that another is collated like is told from it
\* by its characters.
ASSUME OrderAssumption ==
  /\ \A t \in DOMAIN Collation : Collation[t] \in Int
  /\ \A t \in DOMAIN CodeOrder : CodeOrder[t] \in Int
  /\ \A t, u \in DOMAIN CodeOrder : CodeOrder[t] = CodeOrder[u] => t = u

\* The directories hold files, the databases finitely many accounts, and every
\* name that may be listed has its place in the orders.
ASSUME MachinesAssumption ==
  \A m \in Machines :
    /\ m.directories \in Seq(ToSet(m.directories))
    /\ \A dir \in ToSet(m.directories) :
         /\ IsFiniteSet(DOMAIN dir) /\ DOMAIN dir \subseteq Int
         /\ \A id \in DOMAIN dir :
              IsFile(dir[id]) /\ Text(ReadEntry(dir[id]), "Name") \in DOMAIN Collation
    /\ IsFiniteSet(m.includeUsers) /\ IsFiniteSet(DOMAIN m.cached) /\ IsFiniteSet(DOMAIN m.passwd)
    /\ \A n \in DOMAIN m.cached \cup DOMAIN m.passwd :
         n \in DOMAIN CodeOrder /\ Resolve(m, n).display \in DOMAIN Collation

\* The first directory that has an identifier.
Deciding(dirs, id) ==
  CHOOSE d \in DOMAIN dirs : id \in DOMAIN dirs[d] /\ \A e \in 1..d - 1 : id \notin DOMAIN dirs[e]

\* A machine with an argument vector in "written" has an entry that was written
\* for it, by the rules: no argument is empty, and a session is to be offered.
ASSUME WrittenAssumption ==
  \A m \in Machines : m.written # <<>> =>
    /\ m.written \in Seq(ToSet(m.written))
    /\ \A a \in ToSet(m.written) : a # <<>> /\ a \in Seq(ToSet(a))
    /\ \E id \in UNION {DOMAIN dir : dir \in ToSet(m.directories)} :
         LET file == m.directories[Deciding(m.directories, id)][id]
             name == Text(Said(file), "Name")
         IN /\ ~Filtered(m, id) /\ WellFormed(file) /\ Offerable(m, Said(file))
            /\ name \in Seq(ToSet(name))
            /\ \E i \in Given(file, "Exec") : file[i].value = WrittenExec(m.written)

recordVars == <<machine, phase, users, sessions, scenario>>
attemptVars == <<stage, state, status, prompt, activeUser, demoAttempt, demoStep, timers>>
demoVars == <<recordVars, attemptVars, selectedSession, chosen, field>>

Scenarios == {"default", "wrong-password", "otp", "fingerprint"}
NobodyYet == <<>>

UserNames == {users[i].name : i \in DOMAIN users}
SessionIds == {sessions[i].id : i \in DOMAIN sessions}

DemoInit ==
  /\ machine \in Machines /\ scenario = machine.scenario
  /\ phase = "constructing" /\ users = <<>> /\ sessions = <<>>
  /\ stage = "Idle" /\ state = "user-selection" /\ status = "none" /\ prompt = "none"
  /\ activeUser = NobodyYet /\ demoAttempt = 0 /\ demoStep = 0 /\ timers = {}
  /\ selectedSession = 0 /\ chosen = NobodyYet /\ field = NobodyYet

-----------------------------------------------------------------------------
(* Start-up. *)

\* The session of demo mode when none is discovered: demo.desktop.
DemoSession == [id |-> 0, name |-> <<"demo">>, command |-> << <<"/bin/true">> >>]

OrElse(found, fallback) == IF found = <<>> THEN <<fallback>> ELSE found

\* initializeRecords() in demo mode, where no state file is read.
Initialise ==
  /\ phase = "constructing" /\ phase' = "created"
  /\ users' = IF machine.profile = "system"
              THEN OrElse(SystemUsers(machine), [name |-> machine.process, display |-> machine.process])
              ELSE DemoUsers(machine.profile)
  /\ sessions' = OrElse(DiscoverSessions(machine), DemoSession)
  /\ selectedSession' = LET ids == {sessions'[i].id : i \in DOMAIN sessions'}
                        IN IF machine.default \in ids THEN machine.default ELSE sessions'[1].id
  /\ chosen' = users'[1].name
  /\ UNCHANGED <<machine, scenario, attemptVars, field>>

-----------------------------------------------------------------------------
(* begin(), respond(), cancel() and restartAuthentication() of demo mode. *)

\* Mutant: the timer gets the number from before the increment.
NumberBefore(attempts) == attempts
\* The number of the attempt begun after so many.
Number(attempts) == attempts + 1

\* Mutant: only the first attempt begins at the first step.
StepAfterBegin(step) == demoStep
StepOfBegin(step) == step

\* beginDemoAuthentication(), as begin() calls it after so many attempts.
BeginAttempt(u, attempts) ==
  /\ attempts < MaxAttempts
  /\ activeUser' = u /\ demoStep' = StepOfBegin(0) /\ demoAttempt' = attempts + 1
  /\ stage' = "Authenticating" /\ status' = "none"
  /\ IF scenario = "fingerprint"
     THEN /\ state' = "informational-prompt" /\ prompt' = "touch"
          /\ timers' = timers \cup {Number(attempts)}
     ELSE /\ state' = "input-prompt" /\ prompt' = "password"
          /\ UNCHANGED timers

\* The field is wiped when it is hidden as the call ends.  (Also the mutant of
\* the next one: nothing is wiped in the middle of a call.)
FieldFollows == field' = IF state' = "input-prompt" THEN field ELSE NobodyYet
\* cancel() shows user-selection for a moment, which hides the field.
WipedMeanwhile == field' = NobodyYet

\* Mutant: begin() without the cancel() before it.
KeepsExchange(u) == stage = "Authenticating"
\* begin() has nothing to do: the exchange of this account is running.
IsRunningFor(u) == stage = "Authenticating" /\ activeUser = u

\* begin(): another account's attempt is cancelled first, which counts as one.
Begin(u) ==
  \/ /\ IsRunningFor(u)
     /\ UNCHANGED <<attemptVars, field>>
  \/ /\ stage = "Authenticating" /\ ~IsRunningFor(u)
     /\ BeginAttempt(u, demoAttempt + 1)
     /\ WipedMeanwhile
  \/ /\ stage = "Idle"
     /\ BeginAttempt(u, demoAttempt)
     /\ FieldFollows

Completes(text) ==
  /\ stage' = "Complete" /\ state' = "authenticated" /\ status' = "demo"
  /\ prompt' = text
  /\ UNCHANGED <<activeUser, demoAttempt>>

\* respond(): the script of each scenario.
Respond ==
  /\ stage = "Authenticating" /\ state = "input-prompt"
  /\ UNCHANGED timers
  /\ \/ /\ scenario = "wrong-password"
        /\ prompt' = "password" /\ status' = "authFailed"
        /\ UNCHANGED <<stage, state, activeUser, demoAttempt, demoStep>>
     \/ /\ scenario = "otp" /\ demoStep = 0 /\ demoStep' = 1
        /\ prompt' = "code" /\ status' = "none"
        /\ UNCHANGED <<stage, state, activeUser, demoAttempt>>
     \/ /\ scenario = "otp" /\ demoStep # 0 /\ demoStep' = demoStep + 1
        /\ Completes(prompt)
     \/ /\ scenario \in {"default", "fingerprint"}
        /\ Completes(prompt) /\ UNCHANGED demoStep

\* Mutant: the callback does not compare the attempt.
AnyAttempt(a) == stage = "Authenticating" /\ scenario = "fingerprint"
IsCurrent(a) == stage = "Authenticating" /\ scenario = "fingerprint" /\ demoAttempt = a

\* The timer of an attempt expires.
TimerFires(a) ==
  /\ a \in timers /\ timers' = timers \ {a}
  /\ IF IsCurrent(a)
     THEN Completes("none") /\ UNCHANGED demoStep
     ELSE UNCHANGED <<stage, state, status, prompt, activeUser, demoAttempt, demoStep>>
  /\ FieldFollows
  /\ UNCHANGED <<recordVars, selectedSession, chosen>>

-----------------------------------------------------------------------------
(* The panel. *)

InUse == phase = "running" /\ UNCHANGED recordVars

\* Component.onCompleted.
Startup ==
  /\ phase = "created" /\ phase' = "running" /\ machine' = <<>>
  /\ Begin(chosen)
  /\ UNCHANGED <<users, sessions, scenario, selectedSession, chosen>>

PickAccount(u) ==
  /\ InUse /\ Len(users) > 1 /\ state # "authenticated"
  /\ Begin(u) /\ chosen' = u
  /\ UNCHANGED selectedSession

TypeText ==
  /\ InUse /\ state = "input-prompt"
  /\ field' = chosen
  /\ UNCHANGED <<attemptVars, selectedSession, chosen>>

SubmitText ==
  /\ InUse /\ Respond
  /\ field' = NobodyYet
  /\ UNCHANGED <<selectedSession, chosen>>

PickSession(s) ==
  /\ InUse /\ state # "authenticated"
  /\ selectedSession' = s
  /\ UNCHANGED <<attemptVars, chosen, field>>

\* restartAuthentication(): cancel(), then begin() for the same account.
Escape ==
  /\ InUse /\ state \notin {"user-selection", "authenticated"}
  /\ BeginAttempt(activeUser, demoAttempt + 1)
  /\ WipedMeanwhile
  /\ UNCHANGED <<selectedSession, chosen>>

DemoNext ==
  \/ Initialise \/ Startup \/ TypeText \/ SubmitText \/ Escape
  \/ \E u \in UserNames : PickAccount(u)
  \/ \E s \in SessionIds : PickSession(s)
  \/ \E a \in timers : TimerFires(a)

\* Nothing is assumed but that a running timer expires.
DemoSpec ==
  /\ DemoInit /\ [][DemoNext]_demoVars
  /\ \A a \in 1..MaxAttempts : WF_demoVars(TimerFires(a))

-----------------------------------------------------------------------------
(* Properties of the records, as discovered and before they are used. *)

\* The first directory that has an entry decides about it: a hidden, filtered,
\* malformed or unusable file there is not made up for by a later directory,
\* and what is offered carries the name and command of that very file, read
\* only from its one [Desktop Entry] group.
FirstFileDecides ==
  phase = "created" =>
    LET dirs == machine.directories
        offer(id) ==
          LET file == dirs[Deciding(dirs, id)][id]
          IN IF Filtered(machine, id) \/ ~WellFormed(file) THEN {}
             ELSE {s \in {[id |-> id, name |-> Text(Said(file), "Name"),
                           command |-> Command(machine, Said(file))]} : s.command # <<>>}
        offers == UNION {offer(id) : id \in UNION {DOMAIN dirs[d] : d \in DOMAIN dirs}}
    IN ToSet(sessions) = IF offers = {} THEN {DemoSession} ELSE offers

\* "Commands are parsed as desktop-entry argument vectors"
\* (src/docs/sdd/greeter-mvp/SPEC.md:18): an argument vector written by the
\* rules of the desktop entry specification is run as it was meant, through
\* both layers of escaping; no blank, quote, percent sign or name splits,
\* joins or loses an argument.
ArgumentsSurvive ==
  phase = "created" /\ machine.written # <<>> =>
    \E s \in ToSet(sessions) : s.command = Meant(machine.written, s.name)

\* "User filters and locked-account status cannot be bypassed by explicit
\* inclusion" (SPEC.md:21): whichever source a name comes from, included or
\* not; and an included account that passes is offered though the sources
\* would not have listed it.
OnlyEligibleAccounts ==
  phase = "created" /\ machine.profile = "system" =>
    LET known == DOMAIN machine.cached \cup DOMAIN machine.passwd
        barred == machine.excludeUsers \cup machine.shadow
                  \cup {n \in DOMAIN machine.cached : machine.cached[n].locked}
                  \cup {n \in known : Resolve(machine, n).uid \notin machine.minUid..machine.maxUid}
    IN /\ UserNames \cap barred \subseteq {machine.process}
       /\ machine.includeUsers \cap known \subseteq UserNames \cup barred

-----------------------------------------------------------------------------
(* Properties of the script. *)

\* A fingerprint attempt is completed by the timer that was started for it and
\* by nothing else: not by that of an attempt that was left for another account
\* or begun again, however the timers and the user race.
OwnTimerCompletes ==
  [][scenario = "fingerprint" /\ stage' = "Complete" /\ stage # "Complete" =>
       demoAttempt \in timers \ timers']_demoVars

\* Each attempt with a one-time code completes from the question for the code:
\* the step reached by an earlier attempt does not count.
CodeCompletes ==
  [][scenario = "otp" /\ stage' = "Complete" /\ stage # "Complete" => prompt = "code"]_demoVars

\* What is asked is asked of the account the panel shows.
DemoPromptShowsChosen == stage = "Authenticating" => activeUser = chosen

\* Text typed for one account is not in the field while another is asked.
TextIsForItsAccount == field # NobodyYet => field = activeUser

\* Every fingerprint attempt completes unless the user leaves it.
FingerprintResolves ==
  \A a \in 1..MaxAttempts :
    (scenario = "fingerprint" /\ stage = "Authenticating" /\ demoAttempt = a)
      ~> (stage = "Complete" \/ demoAttempt # a)
=============================================================================
