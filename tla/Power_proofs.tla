----------------------------- MODULE Power_proofs -----------------------------
(***************************************************************************)
(* Theorems about Power.tla, for every set of logind sessions and however    *)
(* many signals are under way.                                               *)
(***************************************************************************)
EXTENDS Power, TLAPS

\* What the running query knows: a user session that exists has yet to be
\* read, or the signal of its beginning has yet to be delivered.
QueryMissesNone == query = "class" => sessions \cap UserIds \subseteq unread \/ signals > 0

\* The greeter does without confirmation only if there was no user session
\* when it last looked, and every change since then is signalled.
FlagIsRight == query = "none" /\ ~required => sessions \cap UserIds = {} \/ signals > 0

IInv ==
  /\ signals \in Nat
  /\ query \in {"none", "list", "class"}
  /\ QueryMissesNone
  /\ FlagIsRight
  /\ UnconfirmedOnlyInRace

LEMMA InitIInv == Init => IInv
  BY DEF Init, IInv, QueryMissesNone, FlagIsRight, UnconfirmedOnlyInRace

LEMMA NextIInv == IInv /\ [Next]_vars => IInv'
<1> SUFFICES ASSUME IInv, [Next]_vars PROVE IInv'
  OBVIOUS
<1> USE DEF IInv, QueryMissesNone, FlagIsRight, UnconfirmedOnlyInRace
<1>1. CASE SessionChanges
  BY <1>1 DEF SessionChanges, IsSignalled, queryVars, screenVars
<1>2. CASE QueryCapabilities
  BY <1>2 DEF QueryCapabilities, Publish, screenVars
<1>3. CASE ListSessions
  BY <1>3 DEF ListSessions, Publish, screenVars
<1>4. CASE ReadClass
  <2>1. CASE unread = {} /\ Publish(answered, FALSE)
    BY <1>4, <2>1 DEF ReadClass, Publish, screenVars
  <2>2. ASSUME NEW i \in unread, Publish(answered, TRUE)
        PROVE  IInv'
    BY <1>4, <2>2 DEF ReadClass, Publish, screenVars
  <2>3. ASSUME NEW i \in unread, ~DemandsConfirmation(i), NothingLeft(i),
               Publish(answered, FALSE)
        PROVE  IInv'
    BY <1>4, <2>3 DEF ReadClass, Publish, screenVars, DemandsConfirmation, NothingLeft
  <2>4. ASSUME NEW i \in unread, ~DemandsConfirmation(i),
               unread' = unread \ {i}, UNCHANGED <<query, answered, can, required>>
        PROVE  IInv'
    BY <1>4, <2>4 DEF ReadClass, screenVars, DemandsConfirmation
  <2> QED
    BY <1>4, <2>1, <2>2, <2>3, <2>4 DEF ReadClass
<1>5. ASSUME NEW a \in Actions, ClickAction(a)
      PROVE  IInv'
  BY <1>5 DEF ClickAction, Request, queryVars
<1>6. CASE CancelConfirmation
  BY <1>6 DEF CancelConfirmation, queryVars
<1>7. CASE Confirm
  BY <1>7 DEF Confirm, queryVars
<1>8. CASE CallLater
  BY <1>8 DEF CallLater, Request, queryVars
<1>9. CASE UNCHANGED vars
  BY <1>9 DEF vars, queryVars, screenVars
<1> QED
  BY <1>1, <1>2, <1>3, <1>4, <1>5, <1>6, <1>7, <1>8, <1>9 DEF Next

THEOREM PowerInvariance == Spec => []IInv
  BY InitIInv, NextIInv, PTL DEF Spec

\* A power request nobody confirmed finds a user logged in only while the
\* signal of a session change is on its way to the greeter.
THEOREM UnconfirmedIsRace == Spec => []UnconfirmedOnlyInRace
<1>1. IInv => UnconfirmedOnlyInRace
  BY DEF IInv
<1> QED
  BY <1>1, PowerInvariance, PTL
=============================================================================
