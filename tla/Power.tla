-------------------------------- MODULE Power --------------------------------
(***************************************************************************)
(* Shutting down and rebooting from the login screen: class                  *)
(* LogindPowerService (src/src/services.cpp), the power part of class        *)
(* Controller (src/src/controller.cpp) and the confirmation of               *)
(* src/qml/Main.qml, outside demo mode.                                      *)
(*                                                                          *)
(* logind is external: sessions begin and end at any time, each change is    *)
(* signalled, and the signal waits until the greeter's event loop takes it.  *)
(* A query is a series of blocking calls, during which sessions still come   *)
(* and go but no other code of the greeter runs.                             *)
(***************************************************************************)
EXTENDS Naturals

CONSTANTS Ids,         \* logind sessions
          UserIds,     \* those of class "user"
          None,
          MaxSignals   \* bound: signals under way at once

ASSUME PowerAssumption == UserIds \subseteq Ids /\ None \notin Ids /\ MaxSignals \in Nat

Actions == {"poweroff", "reboot"}

VARIABLES
  sessions,   \* logind's sessions
  signals,    \* SessionNew and SessionRemoved signals not yet delivered
  query,      \* queryCapabilities(): "none", "list" before ListSessions, "class" after
  unread,     \* the listed sessions whose Class has not been read
  answered,   \* CanPowerOff and CanReboot, as the running query found them
  can,        \* canPowerOff_ and canReboot_: the actions allowed
  required,   \* powerConfirmationRequired_
  pending,    \* pendingPowerAction: the question on the screen, or None
  confirmed,  \* the action confirmed and queued with Qt.callLater, or None
  request     \* the request sent in the last step, or None

queryVars == <<query, unread, answered, can, required>>
screenVars == <<pending, confirmed>>
vars == <<sessions, signals, queryVars, screenVars, request>>

\* The signals are connected before the Controller's constructor queries.
Init ==
  /\ sessions \in SUBSET Ids /\ signals = 0
  /\ query = "list" /\ unread = {} /\ answered \in SUBSET Actions
  /\ can = {} /\ required = TRUE
  /\ pending = None /\ confirmed = None /\ request = None

-----------------------------------------------------------------------------
\* Mutant: SessionNew is not connected.
OnlyRemovals(i) == i \in sessions
\* SessionNew and SessionRemoved are both connected to queryCapabilities().
IsSignalled(i) == TRUE

SessionChanges ==
  /\ signals < MaxSignals
  /\ \E i \in Ids :
       /\ sessions' = IF i \in sessions THEN sessions \ {i} ELSE sessions \cup {i}
       /\ signals' = IF IsSignalled(i) THEN signals + 1 ELSE signals
  /\ request' = None
  /\ UNCHANGED <<queryVars, screenVars>>

-----------------------------------------------------------------------------
(* The query. *)

\* The capabilities() signal: what may be done, and whether to ask first.
Publish(allowed, ask) ==
  /\ can' = allowed /\ required' = ask
  /\ query' = "none" /\ unread' = {}
  /\ UNCHANGED answered

\* A signal reaches queryCapabilities(), which asks what is allowed first.
QueryCapabilities ==
  /\ query = "none" /\ signals > 0
  /\ signals' = signals - 1
  /\ \/ Publish({}, TRUE)
     \/ /\ query' = "list" /\ answered' \in SUBSET Actions
        /\ UNCHANGED <<unread, can, required>>
  /\ request' = None
  /\ UNCHANGED <<sessions, screenVars>>

\* ListSessions: an error demands confirmation.
ListSessions ==
  /\ query = "list"
  /\ \/ Publish(answered, TRUE)
     \/ /\ query' = "class" /\ unread' = sessions
        /\ UNCHANGED <<answered, can, required>>
  /\ request' = None
  /\ UNCHANGED <<sessions, signals, screenVars>>

\* Class of one listed session: confirmation is demanded if it is "user", or
\* cannot be read because the session has gone (or for any other reason).
DemandsConfirmation(i) == i \in UserIds \/ i \notin sessions

\* Mutant: the first session decides.
LastToRead(i) == TRUE
NothingLeft(i) == unread = {i}

ReadClass ==
  /\ query = "class"
  /\ \/ unread = {} /\ Publish(answered, FALSE)
     \/ \E i \in unread :
          \/ Publish(answered, TRUE)
          \/ ~DemandsConfirmation(i) /\ NothingLeft(i) /\ Publish(answered, FALSE)
          \/ /\ ~DemandsConfirmation(i) /\ ~NothingLeft(i)
             /\ unread' = unread \ {i}
             /\ UNCHANGED <<query, answered, can, required>>
  /\ request' = None
  /\ UNCHANGED <<sessions, signals, screenVars>>

-----------------------------------------------------------------------------
(* The screen. *)

\* requestPowerOff(confirmed) and requestReboot(confirmed).
Request(a, yes) ==
  request' = IF (required => yes) /\ a \in can THEN [action |-> a, confirmed |-> yes] ELSE None

\* A power button is clicked: requestPowerAction().  A queued callback runs
\* before the next click or key is taken.
ClickAction(a) ==
  /\ query = "none" /\ pending = None /\ confirmed = None /\ a \in can
  /\ IF required THEN pending' = a /\ request' = None
     ELSE UNCHANGED pending /\ Request(a, FALSE)
  /\ UNCHANGED <<sessions, signals, queryVars, confirmed>>

\* No, or Escape: cancelPowerConfirmation().
CancelConfirmation ==
  /\ query = "none" /\ pending # None
  /\ pending' = None /\ request' = None
  /\ UNCHANGED <<sessions, signals, queryVars, confirmed>>

\* Yes: confirmPowerAction().  The callback keeps the action that was pending.
Confirm ==
  /\ query = "none" /\ pending # None
  /\ pending' = None /\ request' = None
  /\ confirmed' = pending
  /\ UNCHANGED <<sessions, signals, queryVars>>

\* The queued callback runs.
CallLater ==
  /\ query = "none" /\ confirmed # None
  /\ Request(confirmed, TRUE)
  /\ confirmed' = None
  /\ UNCHANGED <<sessions, signals, queryVars, pending>>

Next ==
  \/ SessionChanges \/ QueryCapabilities \/ ListSessions \/ ReadClass
  \/ (\E a \in Actions : ClickAction(a)) \/ CancelConfirmation \/ Confirm \/ CallLater

Spec == Init /\ [][Next]_vars

\* The event loop takes the signals that have arrived, and a blocking call
\* returns, with an answer or an error; of logind's sessions and of the user
\* nothing is assumed.
Fairness == WF_vars(QueryCapabilities) /\ WF_vars(ListSessions) /\ WF_vars(ReadClass)
FairSpec == Spec /\ Fairness

-----------------------------------------------------------------------------
\* "Require power confirmation conservatively until logind proves no session
\* whose class is user exists" (src/docs/sdd/visual-refinement/SPEC.md:22): a
\* request nobody confirmed finds a user logged in only while the signal of a
\* change is still on its way, never because a query missed a session.
UnconfirmedOnlyInRace ==
  request # None /\ ~request.confirmed => sessions \cap UserIds = {} \/ signals > 0

\* The race ends: while anybody is logged in, the greeter comes to demand
\* confirmation, whichever sessions come and go during its queries and however
\* many signals one query answers or misses.
UserIsNoticed ==
  sessions \cap UserIds # {} ~> required \/ sessions \cap UserIds = {}
=============================================================================
