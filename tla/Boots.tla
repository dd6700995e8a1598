--------------------------------- MODULE Boots ---------------------------------
(***************************************************************************)
(* The greeter across its lives.  greetd starts it (Start), it may crash at *)
(* any time or quit after a login (Stop), and greetd starts it again, after *)
(* the session it was given or at once.  Only the state file survives       *)
(* (src/src/state.cpp).  An administrator may have changed the configuration*)
(* in between: each life shows a list of accounts, takes a typed name, or   *)
(* has a configuration that was rejected.                                   *)
(*                                                                          *)
(* The life itself is Login's: LoginNext here for the typed name, and the    *)
(* same module under other constants for the two other configurations.  With *)
(* a rejected configuration in manual mode no control is enabled at all, so  *)
(* the rejected one here is of a list.                                       *)
(***************************************************************************)
EXTENDS Login

CONSTANTS DefaultSession,  \* config sessions.default
          LeftBehind       \* the state files the first life may find

VARIABLES
  life,  \* "off", or the configuration of the life that runs
  last   \* the account and session of the last login whose save succeeded

bootVars == <<loginVars, life, last>>

Configurations == {"list", "manual", "invalid"}

ASSUME BootsAssumption ==
  /\ ManualMode /\ ConfigValid
  /\ \A file \in LeftBehind \ {None} : DOMAIN file = {"user", "session"}

List    == INSTANCE Login WITH ManualMode <- FALSE
Invalid == INSTANCE Login WITH ManualMode <- FALSE, ConfigValid <- FALSE

-----------------------------------------------------------------------------
\* loadState(): a file that is missing or corrupt counts as empty.
LoadState == IF saved = None THEN [user |-> None, session |-> None] ELSE saved

\* selectSession(): the remembered session, else the default, else the first.
SelectSession(state_) ==
  IF state_.session \in Sessions THEN {state_.session}
  ELSE IF DefaultSession \in Sessions THEN {DefaultSession} ELSE Sessions

\* Mutant: whoever logged in last is offered, listed or not.
AnyRemembered(state_) == IF state_.user # None THEN {state_.user} ELSE Accounts

\* initialUser: the remembered account when it is listed, else the first.
InitialUser(state_) == IF state_.user \in Accounts THEN {state_.user} ELSE Accounts

BootsInit ==
  /\ life = "off" /\ Blank
  /\ chosen = None /\ field = None /\ selectedSession = None
  /\ saved \in LeftBehind /\ last = saved

\* The constructor and the creation of the panel.  A rejected configuration
\* leaves the selector on its first row.
Start(configuration) ==
  /\ life = "off" /\ life' = configuration
  /\ selectedSession' \in SelectSession(LoadState)
  /\ chosen' \in CASE configuration = "list"    -> InitialUser(LoadState)
                   [] configuration = "manual"  -> {None}
                   [] configuration = "invalid" -> Accounts
  /\ UNCHANGED <<exchangeVars, saved, channelVars, field, last>>

\* What the greeter does in a life; a save that succeeds is a completed login.
Live ==
  /\ \/ life = "list" /\ List!LoginNext
     \/ life = "manual" /\ LoginNext
     \/ life = "invalid" /\ Invalid!LoginNext
  /\ last' = IF saved' # saved
             THEN [user |-> IF life = "manual" THEN None ELSE scheduled.user,
                   session |-> scheduled.session]
             ELSE last
  /\ UNCHANGED life

\* The greeter quits or is killed, in the middle of a consume() loop or a save:
\* QSaveFile renames a finished file, so the file is the old or the new one.
Stop ==
  /\ life # "off" /\ life' = "off"
  /\ Drop
  /\ stage' = "Idle" /\ SetState("user-selection", "none") /\ prompt' = "none"
  /\ activeUser' = None /\ pendingUser' = None
  /\ cancellationFailure' = "none" /\ authenticationError' = "none"
  /\ selectedSession' = None /\ chosen' = None /\ field' = None
  /\ UNCHANGED <<saved, last>>

BootsNext == Live \/ Stop \/ \E c \in Configurations : Start(c)

BootsSpec == BootsInit /\ [][BootsNext]_bootVars

-----------------------------------------------------------------------------
(* Properties across lives.  PromptShowsChosen of Login.tla is checked of     *)
(* every life as well.                                                        *)

\* "State writes are atomic ... Manual mode neither displays nor persists a
\* username" (src/docs/sdd/greeter-mvp/SPEC.md:22): the file only ever changes
\* to the account and session greetd has accepted to start, without the
\* account in a life that took a typed name.  Crashes and failed saves leave
\* it as it was.
FileIsWholeLogin ==
  [][saved' # saved =>
       /\ scheduled # None /\ stage' = "Complete"
       /\ saved' = [user |-> IF life = "manual" THEN None ELSE scheduled.user,
                    session |-> scheduled.session]]_bootVars

\* "persists only the last successful user/session" (SPEC.md:11): whatever was
\* tried, lost or crashed since, a list begins on the account of the last
\* remembered login while it is listed, and on a listed one otherwise; its
\* session is offered while it is installed.  A typed name is never shown.
LastLoginOffered ==
  [][life = "off" /\ life' # "off" /\ last # None =>
       /\ life' = "list" =>
            IF last.user \in Accounts THEN chosen' = last.user ELSE chosen' \in Accounts
       /\ life' = "manual" => chosen' = None
       /\ last.session \in Sessions => selectedSession' = last.session]_bootVars

\* "Authentication is disabled on invalid configuration"
\* (src/docs/sdd/greeter-mvp/SPEC.md:12): no exchange is ever begun.
DisabledWhenInvalid == life = "invalid" => stage = "Idle" /\ outbox = <<>>
=============================================================================
