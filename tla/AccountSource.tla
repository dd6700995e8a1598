---------------------------- MODULE AccountSource ----------------------------
(***************************************************************************)
(* The accounts of the list: SystemAccountSource and DemoAccountSource      *)
(* (src/src/services.cpp).  m is the machine: what AccountsService has       *)
(* cached (a function from names to records, empty when it is not there),   *)
(* the passwd database, the names whose shadow entry is readable and locks  *)
(* them, and the configured filters.  A name is text, as in SessionEntries. *)
(***************************************************************************)
EXTENDS SessionEntries

CONSTANT CodeOrder  \* the order of names by their characters

\* The names considered: those included, else those cached, else all.
Candidates(m) ==
  IF m.includeUsers # {} THEN m.includeUsers
  ELSE IF DOMAIN m.cached # {} THEN DOMAIN m.cached
  ELSE DOMAIN m.passwd

Resolvable(m, name) == name \in DOMAIN m.cached \cup DOMAIN m.passwd
Resolve(m, name) == IF name \in DOMAIN m.cached THEN m.cached[name] ELSE m.passwd[name]

Locked(m, name) ==
  \/ name \in DOMAIN m.cached /\ m.cached[name].locked
  \/ name \in m.shadow

\* Mutant: an account that is included by name is taken as it is.
PassesOrIncluded(m, name) ==
  /\ Resolvable(m, name)
  /\ \/ name \in m.includeUsers
     \/ /\ Resolve(m, name).uid \in m.minUid..m.maxUid
        /\ name \notin m.excludeUsers
        /\ ~Locked(m, name)

Passes(m, name) ==
  /\ Resolvable(m, name)
  /\ Resolve(m, name).uid \in m.minUid..m.maxUid
  /\ name \notin m.excludeUsers
  /\ ~Locked(m, name)

ByDisplayThenName(l, r) ==
  \/ Collation[l.display] < Collation[r.display]
  \/ Collation[l.display] = Collation[r.display] /\ CodeOrder[l.name] < CodeOrder[r.name]

SystemUsers(m) ==
  InOrder({[name |-> n, display |-> Resolve(m, n).display] :
             n \in {c \in Candidates(m) : Passes(m, c)}}, ByDisplayThenName)

DemoUsers(profile) ==
  LET row(name) == [name |-> <<name>>, display |-> <<name>>]
  IN IF profile = "single" THEN <<row("alice")>>
     ELSE <<row("alice"), row("bob"), row("charlie")>>
=============================================================================
