--------------------------- MODULE DemoLogin_proofs ---------------------------
(***************************************************************************)
(* Theorems about DemoLogin.tla, for every set of machines.  First, whatever  *)
(* records the greeter starts with: what the user is asked, types and sees    *)
(* completed belongs to the attempt and the account of that moment.  Then the *)
(* records themselves: the accounts listed are the eligible ones, the         *)
(* sessions are those of the first file of each identifier, as it reads, and  *)
(* a command written by the rules is run with the arguments that were meant.  *)
(*                                                                          *)
(* The loops over characters, lines, files and directories are recursive      *)
(* functions.  Each is shown to exist and to satisfy its equations (the       *)
(* lemmas DecodeLoop, SplitLoop, ExpandLoop, ReadingIs, VisitingIs and        *)
(* WalkingIs), and what holds after every turn is carried from one turn to    *)
(* the next (ReadStep, FileVisited, DirectoryWalked with UpTo; Agree).        *)
(***************************************************************************)
EXTENDS DemoLogin, TLAPS, FiniteSetTheorems, SequenceTheorems

\* Which strings the panel may see in each stage.
DemoStateFits ==
  /\ stage \in {"Idle", "Authenticating", "Complete"}
  /\ stage = "Idle" => state = "user-selection" /\ field = NobodyYet
  /\ stage = "Authenticating" =>
       state = IF scenario = "fingerprint" THEN "informational-prompt" ELSE "input-prompt"
  /\ stage = "Complete" => state = "authenticated"
  /\ phase # "running" => stage = "Idle"

\* Attempts are numbered, and only past numbers are waited for.
TimersAreOld ==
  /\ demoAttempt \in Nat
  /\ timers \subseteq 1..demoAttempt

\* The step of the script says which question was asked last.
StepFitsPrompt ==
  /\ demoStep \in Nat
  /\ scenario = "otp" /\ stage = "Authenticating" /\ demoStep # 0 => prompt = "code"

DemoInv ==
  /\ DemoStateFits
  /\ TimersAreOld
  /\ StepFitsPrompt
  /\ DemoPromptShowsChosen
  /\ TextIsForItsAccount

-----------------------------------------------------------------------------
LEMMA DemoInitInv == DemoInit => DemoInv
BY DEF DemoInit, DemoInv, DemoStateFits, TimersAreOld, StepFitsPrompt,
   DemoPromptShowsChosen, TextIsForItsAccount

\* An attempt that is begun with the field empty, or after none.
LEMMA BeginAttemptInv ==
  ASSUME DemoInv, NEW u, NEW attempts \in Nat, attempts >= demoAttempt,
         BeginAttempt(u, attempts), chosen' = u, UNCHANGED scenario, phase' = "running",
         field' = NobodyYet
  PROVE  DemoInv'
<1> USE DEF DemoInv
<1>1. DemoStateFits'
  BY DEF BeginAttempt, DemoStateFits
<1>2. TimersAreOld'
  <2>1. demoAttempt \in Nat /\ timers \subseteq 1..demoAttempt
    BY DEF TimersAreOld
  <2>2. demoAttempt' = attempts + 1 /\ timers' \subseteq timers \cup {attempts + 1}
    BY DEF BeginAttempt, Number
  <2> QED BY <2>1, <2>2 DEF TimersAreOld
<1>3. StepFitsPrompt'
  BY DEF BeginAttempt, StepFitsPrompt, StepOfBegin
<1>4. DemoPromptShowsChosen' /\ TextIsForItsAccount'
  BY DEF BeginAttempt, DemoPromptShowsChosen, TextIsForItsAccount
<1> QED BY <1>1, <1>2, <1>3, <1>4

\* begin(), whichever account the panel had shown.
LEMMA BeginInv ==
  ASSUME DemoInv, NEW u, Begin(u), chosen' = u, UNCHANGED scenario, phase' = "running"
  PROVE  DemoInv'
<1>1. CASE IsRunningFor(u) /\ UNCHANGED <<attemptVars, field>>
  BY <1>1 DEF IsRunningFor, attemptVars, DemoInv, DemoStateFits, TimersAreOld, StepFitsPrompt,
     DemoPromptShowsChosen, TextIsForItsAccount
<1>2. CASE BeginAttempt(u, demoAttempt + 1) /\ WipedMeanwhile
  <2>1. demoAttempt + 1 \in Nat /\ demoAttempt + 1 >= demoAttempt
    BY DEF DemoInv, TimersAreOld
  <2> QED BY <1>2, <2>1, BeginAttemptInv DEF WipedMeanwhile
<1>3. CASE stage = "Idle" /\ BeginAttempt(u, demoAttempt) /\ FieldFollows
  <2>1. demoAttempt \in Nat /\ field' = NobodyYet
    BY <1>3 DEF DemoInv, TimersAreOld, DemoStateFits, FieldFollows
  <2> QED BY <1>3, <2>1, BeginAttemptInv
<1> QED BY <1>1, <1>2, <1>3 DEF Begin

LEMMA SubmitTextInv ==
  ASSUME DemoInv, SubmitText PROVE DemoInv'
BY DEF SubmitText, InUse, recordVars, Respond, Completes, DemoInv, DemoStateFits, TimersAreOld,
   StepFitsPrompt, DemoPromptShowsChosen, TextIsForItsAccount

LEMMA TimerFiresInv ==
  ASSUME DemoInv, NEW a \in timers, TimerFires(a) PROVE DemoInv'
<1>1. CASE IsCurrent(a)
  BY <1>1 DEF TimerFires, IsCurrent, recordVars, Completes, FieldFollows, DemoInv, DemoStateFits,
     TimersAreOld, StepFitsPrompt, DemoPromptShowsChosen, TextIsForItsAccount
<1>2. CASE ~IsCurrent(a)
  BY <1>2 DEF TimerFires, recordVars, FieldFollows, DemoInv, DemoStateFits,
     TimersAreOld, StepFitsPrompt, DemoPromptShowsChosen, TextIsForItsAccount
<1> QED BY <1>1, <1>2

\* The invariant is inductive.
LEMMA DemoNextInv ==
  ASSUME DemoInv, [DemoNext]_demoVars PROVE DemoInv'
<1>1. CASE Initialise
  BY <1>1 DEF Initialise, attemptVars, DemoInv, DemoStateFits, TimersAreOld, StepFitsPrompt,
     DemoPromptShowsChosen, TextIsForItsAccount
<1>2. CASE Startup
  BY <1>2, BeginInv DEF Startup
<1>3. CASE TypeText
  BY <1>3 DEF TypeText, InUse, recordVars, attemptVars, DemoInv, DemoStateFits, TimersAreOld,
     StepFitsPrompt, DemoPromptShowsChosen, TextIsForItsAccount
<1>4. CASE SubmitText
  BY <1>4, SubmitTextInv
<1>5. CASE Escape
  <2>1. activeUser = chosen /\ demoAttempt + 1 \in Nat /\ demoAttempt + 1 >= demoAttempt
    BY <1>5 DEF Escape, DemoInv, DemoStateFits, TimersAreOld, DemoPromptShowsChosen
  <2> QED BY <1>5, <2>1, BeginAttemptInv DEF Escape, InUse, recordVars, WipedMeanwhile
<1>6. ASSUME NEW u \in UserNames, PickAccount(u) PROVE DemoInv'
  BY <1>6, BeginInv DEF PickAccount, InUse, recordVars
<1>7. ASSUME NEW s \in SessionIds, PickSession(s) PROVE DemoInv'
  BY <1>7 DEF PickSession, InUse, recordVars, attemptVars, DemoInv, DemoStateFits, TimersAreOld,
     StepFitsPrompt, DemoPromptShowsChosen, TextIsForItsAccount
<1>8. ASSUME NEW a \in timers, TimerFires(a) PROVE DemoInv'
  BY <1>8, TimerFiresInv
<1>9. CASE UNCHANGED demoVars
  BY <1>9 DEF demoVars, recordVars, attemptVars, DemoInv, DemoStateFits, TimersAreOld,
     StepFitsPrompt, DemoPromptShowsChosen, TextIsForItsAccount
<1> QED BY <1>1, <1>2, <1>3, <1>4, <1>5, <1>6, <1>7, <1>8, <1>9 DEF DemoNext

-----------------------------------------------------------------------------
\* Every behaviour of demo mode stays within the inductive invariant.
THEOREM DemoInvariance == DemoSpec => []DemoInv
<1> QED BY DemoInitInv, DemoNextInv, PTL DEF DemoSpec

\* What is asked is asked of the account the panel shows.
THEOREM DemoPromptIsForChosen == DemoSpec => []DemoPromptShowsChosen
<1>1. DemoInv => DemoPromptShowsChosen
  BY DEF DemoInv
<1> QED BY <1>1, DemoInvariance, PTL

\* No text outlives the account it was typed for (response.onVisibleChanged in
\* LoginPanel.qml, with cancel() inside begin()).
THEOREM TextStaysWithAccount == DemoSpec => []TextIsForItsAccount
<1>1. DemoInv => TextIsForItsAccount
  BY DEF DemoInv
<1> QED BY <1>1, DemoInvariance, PTL

\* A step into Complete is a response or a timer.
LEMMA CompletingSteps ==
  ASSUME DemoInv, DemoNext, stage' = "Complete", stage # "Complete"
  PROVE  SubmitText \/ \E a \in timers : TimerFires(a)
BY DEF DemoNext, Initialise, Startup, TypeText, Escape, PickAccount, PickSession, Begin,
   BeginAttempt, attemptVars

\* Only the timer of the running attempt completes it (demoAttempt_ in
\* beginDemoAuthentication()): no older one does, however many are running.
THEOREM TimersCompleteTheirOwn == DemoSpec => OwnTimerCompletes
<1>1. DemoInv /\ [DemoNext]_demoVars =>
        [scenario = "fingerprint" /\ stage' = "Complete" /\ stage # "Complete" =>
           demoAttempt \in timers \ timers']_demoVars
  <2> SUFFICES ASSUME DemoInv, DemoNext, scenario = "fingerprint", stage' = "Complete",
                      stage # "Complete"
               PROVE  demoAttempt \in timers \ timers'
    OBVIOUS
  <2>1. CASE SubmitText
    BY <2>1 DEF SubmitText, Respond, DemoInv, DemoStateFits
  <2>2. ASSUME NEW a \in timers, TimerFires(a) PROVE demoAttempt \in timers \ timers'
    BY <2>2 DEF TimerFires, IsCurrent
  <2> QED BY <2>1, <2>2, CompletingSteps
<1> QED BY <1>1, DemoInvariance, PTL DEF DemoSpec, OwnTimerCompletes

\* A one-time code is asked for before it is accepted, in every attempt.
THEOREM CodeIsAsked == DemoSpec => CodeCompletes
<1>1. DemoInv /\ [DemoNext]_demoVars =>
        [scenario = "otp" /\ stage' = "Complete" /\ stage # "Complete" =>
           prompt = "code"]_demoVars
  <2> SUFFICES ASSUME DemoInv, DemoNext, scenario = "otp", stage' = "Complete",
                      stage # "Complete"
               PROVE  prompt = "code"
    OBVIOUS
  <2>1. CASE SubmitText
    BY <2>1 DEF SubmitText, Respond, DemoInv, StepFitsPrompt
  <2>2. ASSUME NEW a \in timers, TimerFires(a) PROVE FALSE
    BY <2>2 DEF TimerFires, IsCurrent
  <2> QED BY <2>1, <2>2, CompletingSteps
<1> QED BY <1>1, DemoInvariance, PTL DEF DemoSpec, CodeCompletes

-----------------------------------------------------------------------------
(* Sorting. *)

\* Elements whose predecessors are told from each other by inclusion are
\* numbered by how many they are.
LEMMA Ranks ==
  ASSUME NEW S, IsFiniteSet(S), NEW before \in [S -> SUBSET S],
         \A x \in S : x \notin before[x],
         \A x, y \in S : x # y => x \in before[y] \/ y \in before[x],
         \A x, y \in S : x \in before[y] => before[x] \subseteq before[y]
  PROVE  /\ \A x \in S : Cardinality(before[x]) + 1 \in 1..Cardinality(S)
         /\ \A x, y \in S : Cardinality(before[x]) = Cardinality(before[y]) => x = y
         /\ \A i \in 1..Cardinality(S) : \E x \in S : Cardinality(before[x]) = i - 1
<1> DEFINE n == Cardinality(S)
           rank == [x \in S |-> Cardinality(before[x]) + 1]
<1>1. n \in Nat
  BY FS_CardinalityType
<1>2. ASSUME NEW x \in S
      PROVE  IsFiniteSet(before[x]) /\ Cardinality(before[x]) \in Nat
  BY FS_Subset, FS_CardinalityType
<1>3. ASSUME NEW x \in S, NEW y \in S, x \in before[y]
      PROVE  Cardinality(before[x]) < Cardinality(before[y])
  <2>1. before[x] \in SUBSET before[y] /\ before[x] # before[y]
    BY <1>3
  <2> QED BY <2>1, <1>2, FS_Subset
<1>4. ASSUME NEW x \in S PROVE Cardinality(before[x]) < n
  <2>1. before[x] \in SUBSET S /\ before[x] # S
    OBVIOUS
  <2> QED BY <2>1, <1>1, <1>2, FS_Subset
<1>5. \A x, y \in S : Cardinality(before[x]) = Cardinality(before[y]) => x = y
  BY <1>2, <1>3
<1>6. rank \in [S -> 1..n]
  BY <1>1, <1>2, <1>4
<1>7. rank \in Injection(S, 1..n)
  BY <1>2, <1>5, <1>6 DEF Injection, IsInjective
<1>8. IsFiniteSet(1..n) /\ Cardinality(1..n) = n
  BY <1>1, FS_Interval
<1>9. rank \in Surjection(S, 1..n)
  <2> HIDE DEF rank
  <2> QED BY <1>7, <1>8, FS_Injection
<1>10. ASSUME NEW i \in 1..n PROVE \E x \in S : Cardinality(before[x]) = i - 1
  <2>1. PICK x \in S : rank[x] = i
    BY <1>9 DEF Surjection
  <2> QED BY <2>1, <1>1, <1>2
<1> QED BY <1>2, <1>5, <1>6, <1>10

\* A list made of each rank's element is the set, each element once.
LEMMA SortedIsAll ==
  ASSUME NEW S, IsFiniteSet(S), NEW before \in [S -> SUBSET S],
         \A x \in S : x \notin before[x],
         \A x, y \in S : x # y => x \in before[y] \/ y \in before[x],
         \A x, y \in S : x \in before[y] => before[x] \subseteq before[y],
         NEW s, DOMAIN s = 1..Cardinality(S),
         \A i \in 1..Cardinality(S) :
           (\E x \in S : Cardinality(before[x]) = i - 1)
             => s[i] \in S /\ Cardinality(before[s[i]]) = i - 1
  PROVE  ToSet(s) = S
<1>1. Cardinality(S) \in Nat
  BY FS_CardinalityType
<1>2. \A i \in 1..Cardinality(S) : s[i] \in S /\ Cardinality(before[s[i]]) = i - 1
  BY Ranks
<1>3. \A x \in S : \E i \in 1..Cardinality(S) : s[i] = x
  <2> TAKE x \in S
  <2> DEFINE i == Cardinality(before[x]) + 1
  <2>1. i \in 1..Cardinality(S) /\ Cardinality(before[x]) \in Nat
    BY Ranks, FS_Subset, FS_CardinalityType
  <2>2. s[i] \in S /\ Cardinality(before[s[i]]) = Cardinality(before[x])
    BY <2>1, <1>2
  <2> QED BY <2>1, <2>2, Ranks
<1> QED BY <1>1, <1>2, <1>3 DEF ToSet

\* Accounts and the sequence they are listed in.
LEMMA UsersInOrder ==
  ASSUME NEW S, IsFiniteSet(S),
         \A x \in S : Collation[x.display] \in Int /\ CodeOrder[x.name] \in Int,
         \A x, y \in S : CodeOrder[x.name] = CodeOrder[y.name] => x = y
  PROVE  ToSet(InOrder(S, ByDisplayThenName)) = S
<1> DEFINE before == [x \in S |-> {y \in S : ByDisplayThenName(y, x)}]
           s == InOrder(S, ByDisplayThenName)
<1>1. before \in [S -> SUBSET S]
  OBVIOUS
<1>2. \A x \in S : x \notin before[x]
  BY DEF ByDisplayThenName
<1>3. \A x, y \in S : x # y => x \in before[y] \/ y \in before[x]
  BY DEF ByDisplayThenName
<1>4. \A x, y \in S : x \in before[y] => before[x] \subseteq before[y]
  BY DEF ByDisplayThenName
<1>5. DOMAIN s = 1..Cardinality(S)
  BY DEF InOrder
<1>6. ASSUME NEW i \in 1..Cardinality(S), \E x \in S : Cardinality(before[x]) = i - 1
      PROVE  s[i] \in S /\ Cardinality(before[s[i]]) = i - 1
  <2>1. s[i] = CHOOSE x \in S : Cardinality({y \in S : ByDisplayThenName(y, x)}) = i - 1
    BY DEF InOrder
  <2>2. \A x \in S : before[x] = {y \in S : ByDisplayThenName(y, x)}
    OBVIOUS
  <2>3. \E x \in S : Cardinality({y \in S : ByDisplayThenName(y, x)}) = i - 1
    BY <1>6, <2>2
  <2>4. s[i] \in S /\ Cardinality({y \in S : ByDisplayThenName(y, s[i])}) = i - 1
    BY <2>1, <2>3
  <2> QED BY <2>2, <2>4
<1> HIDE DEF before, s
<1>7. ToSet(s) = S
  BY <1>1, <1>2, <1>3, <1>4, <1>5, <1>6, SortedIsAll
<1> QED BY <1>7 DEF s

\* An empty list of things found is of nothing.
LEMMA OrElseKeeps ==
  ASSUME NEW found, NEW fallback
  PROVE  ToSet(OrElse(found, fallback))
           = IF found = <<>> THEN {fallback} ELSE ToSet(found)
<1>1. ToSet(<<fallback>>) = {fallback}
  BY DEF ToSet
<1> QED BY <1>1 DEF OrElse

\* The accounts of a machine that lists the system's: those considered that
\* pass, or the greeter's own.
LEMMA ListedAccounts ==
  ASSUME NEW m \in Machines
  PROVE  LET rows == {[name |-> n, display |-> Resolve(m, n).display] :
                        n \in {c \in Candidates(m) : Passes(m, c)}}
         IN ToSet(SystemUsers(m)) = rows
<1> DEFINE passing == {c \in Candidates(m) : Passes(m, c)}
           rows == {[name |-> n, display |-> Resolve(m, n).display] : n \in passing}
<1>1. IsFiniteSet(Candidates(m))
  BY MachinesAssumption DEF Candidates
<1>2. IsFiniteSet(passing)
  BY <1>1, FS_Subset
<1>3. IsFiniteSet(rows)
  <2> DEFINE f == [n \in passing |-> [name |-> n, display |-> Resolve(m, n).display]]
  <2>1. f \in Surjection(passing, rows)
    BY DEF Surjection
  <2> HIDE DEF f, rows, passing
  <2> QED BY <1>2, <2>1, FS_Surjection
<1>4. \A n \in passing : n \in DOMAIN CodeOrder /\ Resolve(m, n).display \in DOMAIN Collation
  BY MachinesAssumption DEF Passes, Resolvable
<1>5. \A x \in rows : Collation[x.display] \in Int /\ CodeOrder[x.name] \in Int
  BY <1>4, OrderAssumption
<1>6. \A x, y \in rows : CodeOrder[x.name] = CodeOrder[y.name] => x = y
  BY <1>4, OrderAssumption
<1>7. ToSet(InOrder(rows, ByDisplayThenName)) = rows
  <2> HIDE DEF rows
  <2> QED BY <1>3, <1>5, <1>6, UsersInOrder
<1> QED BY <1>7 DEF SystemUsers

\* What demo mode lists of the system's accounts when it starts.
LEMMA InitialiseUsers ==
  ASSUME machine \in Machines, Initialise PROVE OnlyEligibleAccounts'
<1> SUFFICES ASSUME machine.profile = "system"
             PROVE  LET known == DOMAIN machine.cached \cup DOMAIN machine.passwd
                        barred ==
                          machine.excludeUsers \cup machine.shadow
                          \cup {n \in DOMAIN machine.cached : machine.cached[n].locked}
                          \cup {n \in known :
                                  Resolve(machine, n).uid \notin machine.minUid..machine.maxUid}
                    IN /\ UserNames' \cap barred \subseteq {machine.process}
                       /\ machine.includeUsers \cap known \subseteq UserNames' \cup barred
  BY DEF Initialise, OnlyEligibleAccounts
<1> DEFINE passing == {c \in Candidates(machine) : Passes(machine, c)}
           rows == {[name |-> n, display |-> Resolve(machine, n).display] : n \in passing}
           self == [name |-> machine.process, display |-> machine.process]
<1>1. users' = OrElse(SystemUsers(machine), self)
  BY DEF Initialise
<1>2. ToSet(SystemUsers(machine)) = rows
  BY ListedAccounts
<1>3. UserNames' = {x.name : x \in ToSet(users')}
  BY DEF UserNames, ToSet
<1>4. ToSet(users') = IF SystemUsers(machine) = <<>> THEN {self} ELSE rows
  BY <1>1, <1>2, OrElseKeeps
<1>5. SystemUsers(machine) = <<>> => rows = {}
  BY <1>2 DEF ToSet
<1>6. UserNames' \subseteq passing \cup {machine.process} /\ passing \subseteq UserNames'
  <2>1. CASE SystemUsers(machine) = <<>>
    <3>1. passing = {} /\ UserNames' = {self.name}
      BY <2>1, <1>3, <1>4, <1>5
    <3> QED BY <3>1
  <2>2. CASE SystemUsers(machine) # <<>>
    <3>1. UserNames' = {x.name : x \in rows}
      BY <2>2, <1>3, <1>4
    <3>2. \A n \in passing : [name |-> n, display |-> Resolve(machine, n).display] \in rows
      OBVIOUS
    <3>3. \A x \in rows : x.name \in passing
      OBVIOUS
    <3> QED BY <3>1, <3>2, <3>3
  <2> QED BY <2>1, <2>2
<1>7. \A n \in passing : /\ n \notin machine.excludeUsers \cup machine.shadow
                         /\ Resolve(machine, n).uid \in machine.minUid..machine.maxUid
                         /\ n \in DOMAIN machine.cached => ~machine.cached[n].locked
  BY DEF Passes, Locked
<1>8. \A n \in machine.includeUsers : Resolvable(machine, n) =>
        \/ n \in passing
        \/ n \in machine.excludeUsers \cup machine.shadow
        \/ n \in DOMAIN machine.cached /\ machine.cached[n].locked
        \/ Resolve(machine, n).uid \notin machine.minUid..machine.maxUid
  BY DEF Candidates, Passes, Locked
<1> HIDE DEF passing
<1> QED BY <1>6, <1>7, <1>8 DEF Resolvable

-----------------------------------------------------------------------------
(* A file, read line by line. *)

EntryKeys == StringKeys \cup ListKeys

\* The line read last of the first k belongs to the entry.
InsideAt(file, k) ==
  \E h \in Headers(file) : h <= k /\ \A j \in h + 1..k : file[j].kind # "group"

\* What is wrong with the first k lines.
Faulty(file, k) ==
  \/ \E g, h \in Headers(file) : g < h /\ h <= k
  \/ \E i \in InEntry(file) : i <= k /\ file[i].kind = "other"
  \/ \E key \in EntryKeys : \E i, j \in Given(file, key) : i < j /\ j <= k
  \/ \E key \in EntryKeys : \E i \in Given(file, key) :
       i <= k /\ Decode(file[i].value, key \in ListKeys).bad

\* The entry of the first k lines.
IsEntryOf(file, k, entry) ==
  /\ DOMAIN entry = {key \in EntryKeys : \E i \in Given(file, key) : i <= k}
  /\ \A key \in EntryKeys : \A i \in Given(file, key) :
       i <= k => entry[key] = Decode(file[i].value, key \in ListKeys).words
  /\ entry = [key \in DOMAIN entry |-> entry[key]]

\* What the reader knows after k lines.
ReadInv(file, k, r) ==
  /\ r = [inside |-> r.inside, found |-> r.found, bad |-> r.bad, entry |-> r.entry]
  /\ r.inside \in BOOLEAN /\ r.found \in BOOLEAN /\ r.bad \in BOOLEAN
  /\ r.inside <=> InsideAt(file, k)
  /\ r.found <=> \E h \in Headers(file) : h <= k
  /\ r.bad <=> Faulty(file, k)
  /\ ~r.bad => IsEntryOf(file, k, r.entry)

\* A line is of one of the kinds the reader tells apart.
LEMMA LineKinds ==
  ASSUME NEW file, IsFile(file)
  PROVE  /\ Len(file) \in Nat /\ DOMAIN file = 1..Len(file)
         /\ \A i \in 1..Len(file) :
              /\ file[i].kind \in {"group", "pair", "other", "comment"}
              /\ file[i].kind = "group" => file[i] = Group(file[i].name)
              /\ file[i].kind = "pair" => file[i] = Pair(file[i].name, file[i].value)
<1>1. file \in Seq(ToSet(file))
  BY DEF IsFile
<1>2. Len(file) \in Nat /\ DOMAIN file = 1..Len(file)
  BY <1>1
<1>3. ASSUME NEW i \in 1..Len(file)
      PROVE  file[i] \in {Group(file[i].name), Pair(file[i].name, file[i].value), NoPair, Comment}
  <2>1. file[i] \in ToSet(file)
    BY <1>2 DEF ToSet
  <2> QED BY <2>1 DEF IsFile
<1>4. /\ \A n : Group(n).kind = "group"
      /\ \A n, v : Pair(n, v).kind = "pair"
      /\ NoPair.kind = "other" /\ Comment.kind = "comment"
  BY DEF Group, Pair, NoPair, Comment
<1>5. ASSUME NEW i \in 1..Len(file)
      PROVE  /\ file[i].kind \in {"group", "pair", "other", "comment"}
             /\ file[i].kind = "group" => file[i] = Group(file[i].name)
             /\ file[i].kind = "pair" => file[i] = Pair(file[i].name, file[i].value)
  <2>1. CASE file[i] = Group(file[i].name)
    BY <2>1, <1>4
  <2>2. CASE file[i] = Pair(file[i].name, file[i].value)
    BY <2>2, <1>4
  <2>3. CASE file[i] \in {NoPair, Comment}
    BY <2>3, <1>4
  <2> QED BY <2>1, <2>2, <2>3, <1>3
<1> QED BY <1>2, <1>5

\* The next line and the entry.
LEMMA NextLine ==
  ASSUME NEW file, IsFile(file), NEW k \in Nat, k + 1 <= Len(file)
  PROVE  LET l == file[k + 1]
         IN /\ k + 1 \in Headers(file) <=> l = Group("Desktop Entry")
            /\ k + 1 \in InEntry(file) <=> l.kind \in {"pair", "other"} /\ InsideAt(file, k)
            /\ l.kind # "group" => (InsideAt(file, k + 1) <=> InsideAt(file, k))
            /\ l.kind = "group" => (InsideAt(file, k + 1) <=> k + 1 \in Headers(file))
            /\ \A i \in Headers(file) : i \in Nat
            /\ \A i \in InEntry(file) : i \in Nat
            /\ \A key : Given(file, key) \subseteq InEntry(file)
<1>1. /\ k + 1 \in DOMAIN file
      /\ \A i \in DOMAIN file : i \in Nat
  BY LineKinds
<1>2. /\ \A i \in Headers(file) : i \in Nat
      /\ \A i \in InEntry(file) : i \in Nat
      /\ \A key : Given(file, key) \subseteq InEntry(file)
  BY <1>1 DEF Headers, InEntry, Given
<1>3. k + 1 \in Headers(file) <=> file[k + 1] = Group("Desktop Entry")
  BY <1>1 DEF Headers
<1>4. \A h \in Headers(file) : file[h].kind = "group"
  <2>1. Group("Desktop Entry").kind = "group"
    BY DEF Group
  <2> QED BY <2>1 DEF Headers
<1>5. ASSUME file[k + 1].kind # "group" PROVE InsideAt(file, k + 1) <=> InsideAt(file, k)
  BY <1>2, <1>4, <1>5 DEF InsideAt
<1>6. ASSUME file[k + 1].kind = "group" PROVE InsideAt(file, k + 1) <=> k + 1 \in Headers(file)
  BY <1>2, <1>6 DEF InsideAt
<1>7. ASSUME file[k + 1].kind # "group"
      PROVE  (\E h \in Headers(file) : h < k + 1 /\ \A j \in h + 1..k + 1 : file[j].kind # "group")
               <=> InsideAt(file, k)
  BY <1>2, <1>7 DEF InsideAt
<1>8. k + 1 \in InEntry(file) <=> file[k + 1].kind \in {"pair", "other"} /\ InsideAt(file, k)
  BY <1>1, <1>7 DEF InEntry
<1> QED BY <1>2, <1>3, <1>5, <1>6, <1>8

\* The next line gives a key its value when it is a pair inside the entry.
LEMMA NextGiven ==
  ASSUME NEW file, IsFile(file), NEW k \in Nat, k + 1 <= Len(file), NEW key
  PROVE  k + 1 \in Given(file, key)
           <=> InsideAt(file, k) /\ file[k + 1].kind = "pair" /\ file[k + 1].name = key
<1>1. k + 1 \in 1..Len(file)
  BY LineKinds
<1>2. Pair(key, file[k + 1].value).kind = "pair" /\ Pair(key, file[k + 1].value).name = key
  BY DEF Pair
<1>3. file[k + 1].kind = "pair" => file[k + 1] = Pair(file[k + 1].name, file[k + 1].value)
  BY <1>1, LineKinds
<1>4. k + 1 \in InEntry(file)
        <=> file[k + 1].kind \in {"pair", "other"} /\ InsideAt(file, k)
  BY NextLine
<1> QED BY <1>2, <1>3, <1>4 DEF Given

\* What the next line may add to what is wrong.
LEMMA NextFault ==
  ASSUME NEW file, IsFile(file), NEW k \in Nat, k + 1 <= Len(file)
  PROVE  Faulty(file, k + 1) <=>
           \/ Faulty(file, k)
           \/ k + 1 \in Headers(file) /\ \E h \in Headers(file) : h <= k
           \/ k + 1 \in InEntry(file) /\ file[k + 1].kind = "other"
           \/ \E key \in EntryKeys :
                /\ k + 1 \in Given(file, key)
                /\ \/ \E i \in Given(file, key) : i <= k
                   \/ Decode(file[k + 1].value, key \in ListKeys).bad
<1>1. /\ \A i \in Headers(file) : i \in Nat
      /\ \A i \in InEntry(file) : i \in Nat
      /\ \A key : \A i \in Given(file, key) : i \in Nat
  BY NextLine
<1>2. \A i \in Nat : i <= k + 1 <=> i <= k \/ i = k + 1
  OBVIOUS
<1>3. (\E g, h \in Headers(file) : g < h /\ h <= k + 1) <=>
        \/ \E g, h \in Headers(file) : g < h /\ h <= k
        \/ k + 1 \in Headers(file) /\ \E h \in Headers(file) : h <= k
  BY <1>1
<1>4. (\E i \in InEntry(file) : i <= k + 1 /\ file[i].kind = "other") <=>
        \/ \E i \in InEntry(file) : i <= k /\ file[i].kind = "other"
        \/ k + 1 \in InEntry(file) /\ file[k + 1].kind = "other"
  BY <1>1, <1>2
<1>5. ASSUME NEW key \in EntryKeys
      PROVE  (\E i, j \in Given(file, key) : i < j /\ j <= k + 1) <=>
               \/ \E i, j \in Given(file, key) : i < j /\ j <= k
               \/ k + 1 \in Given(file, key) /\ \E i \in Given(file, key) : i <= k
  BY <1>1
<1>6. ASSUME NEW key \in EntryKeys
      PROVE  (\E i \in Given(file, key) :
                i <= k + 1 /\ Decode(file[i].value, key \in ListKeys).bad) <=>
               \/ \E i \in Given(file, key) :
                    i <= k /\ Decode(file[i].value, key \in ListKeys).bad
               \/ /\ k + 1 \in Given(file, key)
                  /\ Decode(file[k + 1].value, key \in ListKeys).bad
  BY <1>1, <1>2
<1> QED BY <1>3, <1>4, <1>5, <1>6 DEF Faulty

\* A line that gives no key a value leaves the entry as it is.
LEMMA EntryStays ==
  ASSUME NEW file, IsFile(file), NEW k \in Nat, k + 1 <= Len(file), NEW entry,
         \A key \in EntryKeys : k + 1 \notin Given(file, key)
  PROVE  IsEntryOf(file, k, entry) => IsEntryOf(file, k + 1, entry)
<1>0. \A key : \A i \in Given(file, key) : i \in Nat
  BY NextLine
<1>1. \A key \in EntryKeys : \A i \in Given(file, key) : i <= k + 1 <=> i <= k
  <2> TAKE key \in EntryKeys
  <2> TAKE i \in Given(file, key)
  <2>1. i \in Nat /\ i # k + 1
    BY <1>0
  <2> QED BY <2>1
<1> QED BY <1>1 DEF IsEntryOf

\* A line that gives a new key a value adds it.
LEMMA EntryGrows ==
  ASSUME NEW file, IsFile(file), NEW k \in Nat, k + 1 <= Len(file), NEW entry,
         IsEntryOf(file, k, entry),
         file[k + 1].name \in EntryKeys, file[k + 1].name \notin DOMAIN entry,
         k + 1 \in Given(file, file[k + 1].name)
  PROVE  LET key == file[k + 1].name
         IN IsEntryOf(file, k + 1,
              With(entry, key, Decode(file[k + 1].value, key \in ListKeys).words))
<1> DEFINE key == file[k + 1].name
           words == Decode(file[k + 1].value, key \in ListKeys).words
           e == With(entry, key, words)
<1>1. \A other \in EntryKeys : k + 1 \in Given(file, other) <=> other = key
  BY NextGiven
<1>2. \A other \in EntryKeys : \A i \in Given(file, other) :
        /\ i \in Nat
        /\ i <= k + 1 <=> i <= k \/ i = k + 1
  <2>1. \A other : \A i \in Given(file, other) : i \in Nat
    BY NextLine
  <2>2. \A i \in Nat : i <= k + 1 <=> i <= k \/ i = k + 1
    OBVIOUS
  <2> QED BY <2>1, <2>2
<1>3. ~ \E i \in Given(file, key) : i <= k
  BY DEF IsEntryOf
<1>4. DOMAIN e = DOMAIN entry \cup {key} /\ e[key] = words
  BY DEF With
<1>5. \A other \in DOMAIN entry : e[other] = entry[other]
  BY DEF With
<1>6. e = [other \in DOMAIN e |-> e[other]]
  BY DEF With
<1> HIDE DEF e
<1>7. DOMAIN e = {other \in EntryKeys : \E i \in Given(file, other) : i <= k + 1}
  BY <1>1, <1>2, <1>4 DEF IsEntryOf
<1>8. ASSUME NEW other \in EntryKeys, NEW i \in Given(file, other), i <= k + 1
      PROVE  e[other] = Decode(file[i].value, other \in ListKeys).words
  <2>1. CASE i = k + 1
    BY <2>1, <1>1, <1>4
  <2>2. CASE i <= k
    <3>1. other \in DOMAIN entry /\ other # key
      BY <2>2, <1>3 DEF IsEntryOf
    <3> QED BY <3>1, <2>2, <1>5 DEF IsEntryOf
  <2> QED BY <2>1, <2>2, <1>2, <1>8
<1> QED BY <1>6, <1>7, <1>8 DEF IsEntryOf, e

\* A state of the reader with one field replaced.
LEMMA ReaderFields ==
  ASSUME NEW r, r = [inside |-> r.inside, found |-> r.found, bad |-> r.bad, entry |-> r.entry]
  PROVE  \A x : /\ [r EXCEPT !.bad = x]
                   = [inside |-> r.inside, found |-> r.found, bad |-> x, entry |-> r.entry]
                /\ [r EXCEPT !.entry = x]
                   = [inside |-> r.inside, found |-> r.found, bad |-> r.bad, entry |-> x]
<1> TAKE x
<1>1. DOMAIN r = {"inside", "found", "bad", "entry"}
  OBVIOUS
<1>2. [r EXCEPT !.bad = x]
        = [inside |-> r.inside, found |-> r.found, bad |-> x, entry |-> r.entry]
  BY <1>1
<1>3. [r EXCEPT !.entry = x]
        = [inside |-> r.inside, found |-> r.found, bad |-> r.bad, entry |-> x]
  BY <1>1
<1> QED BY <1>2, <1>3

\* A line of the entry that sets no flag but `bad'.
LEMMA InsideStep ==
  ASSUME NEW file, IsFile(file), NEW k \in Nat, k + 1 <= Len(file),
         NEW r, ReadInv(file, k, r), file[k + 1].kind # "group",
         NEW bad \in BOOLEAN, bad <=> Faulty(file, k + 1),
         NEW entry, ~bad => IsEntryOf(file, k + 1, entry)
  PROVE  ReadInv(file, k + 1, [inside |-> r.inside, found |-> r.found, bad |-> bad,
                               entry |-> entry])
<1> DEFINE s == [inside |-> r.inside, found |-> r.found, bad |-> bad, entry |-> entry]
<1>1. s.inside = r.inside /\ s.found = r.found /\ s.bad = bad /\ s.entry = entry
  OBVIOUS
<1>2. InsideAt(file, k + 1) <=> InsideAt(file, k)
  BY NextLine
<1>3. k + 1 \notin Headers(file) /\ \A h \in Headers(file) : h \in Nat
  <2>1. Group("Desktop Entry").kind = "group"
    BY DEF Group
  <2> QED BY <2>1, NextLine
<1>4. \A h \in Headers(file) : h <= k + 1 <=> h <= k
  BY <1>3
<1>5. s = [inside |-> s.inside, found |-> s.found, bad |-> s.bad, entry |-> s.entry]
  BY <1>1
<1> HIDE DEF s
<1>6. /\ s.inside <=> InsideAt(file, k + 1)
      /\ s.found <=> \E h \in Headers(file) : h <= k + 1
      /\ s.inside \in BOOLEAN /\ s.found \in BOOLEAN
  BY <1>1, <1>2, <1>4 DEF ReadInv
<1> QED BY <1>1, <1>5, <1>6 DEF ReadInv, s

\* A group line.
LEMMA GroupStep ==
  ASSUME NEW file, IsFile(file), NEW k \in Nat, k + 1 <= Len(file),
         NEW r, ReadInv(file, k, r), file[k + 1].kind = "group"
  PROVE  ReadInv(file, k + 1, ReadLine(r, file[k + 1]))
<1> DEFINE here == file[k + 1].name = "Desktop Entry"
           s == [inside |-> here, found |-> r.found \/ here,
                 bad |-> r.bad \/ (here /\ r.found), entry |-> r.entry]
<1>1. ReadLine(r, file[k + 1])
        = [r EXCEPT !.inside = here, !.found = @ \/ here, !.bad = @ \/ (here /\ r.found)]
  BY DEF ReadLine
<1>2. ReadLine(r, file[k + 1]) = s
  <2>1. r = [inside |-> r.inside, found |-> r.found, bad |-> r.bad, entry |-> r.entry]
    BY DEF ReadInv
  <2> QED BY <1>1, <2>1
<1>3. k + 1 \in Headers(file) <=> here
  <2>1. k + 1 \in 1..Len(file)
    BY LineKinds
  <2>2. file[k + 1] = Group(file[k + 1].name)
    BY <2>1, LineKinds
  <2>3. \A n : Group(n).name = n
    BY DEF Group
  <2>4. k + 1 \in Headers(file) <=> file[k + 1] = Group("Desktop Entry")
    BY NextLine
  <2> QED BY <2>2, <2>3, <2>4
<1>4. \A h \in Headers(file) : h \in Nat
  BY NextLine
<1>5. (\E h \in Headers(file) : h <= k + 1) <=> r.found \/ here
  <2>1. (\E h \in Headers(file) : h <= k + 1)
          <=> (\E h \in Headers(file) : h <= k) \/ k + 1 \in Headers(file)
    BY <1>4
  <2> QED BY <2>1, <1>3 DEF ReadInv
<1>6. InsideAt(file, k + 1) <=> here
  BY <1>3, NextLine
<1>7. k + 1 \notin InEntry(file) /\ \A key : k + 1 \notin Given(file, key)
  BY NextLine, NextGiven
<1>8. Faulty(file, k + 1) <=> r.bad \/ (here /\ r.found)
  BY <1>3, <1>7, NextFault DEF ReadInv
<1>9. ~r.bad => IsEntryOf(file, k + 1, r.entry)
  BY <1>7, EntryStays DEF ReadInv
<1>10. /\ s.inside = here /\ s.found = (r.found \/ here)
       /\ s.bad = (r.bad \/ (here /\ r.found)) /\ s.entry = r.entry
  OBVIOUS
<1>11. s = [inside |-> s.inside, found |-> s.found, bad |-> s.bad, entry |-> s.entry]
  BY <1>10
<1>12. s.inside \in BOOLEAN /\ s.found \in BOOLEAN /\ s.bad \in BOOLEAN
  BY <1>10 DEF ReadInv
<1> HIDE DEF s, here
<1>13. ReadInv(file, k + 1, s)
  BY <1>5, <1>6, <1>8, <1>9, <1>10, <1>11, <1>12 DEF ReadInv
<1> QED BY <1>2, <1>13

\* A pair of the entry.
LEMMA PairStep ==
  ASSUME NEW file, IsFile(file), NEW k \in Nat, k + 1 <= Len(file),
         NEW r, ReadInv(file, k, r), file[k + 1].kind = "pair", r.inside,
         file[k + 1].name \in EntryKeys
  PROVE  ReadInv(file, k + 1, AppendValue(r, file[k + 1]))
<1> DEFINE key == file[k + 1].name
           d == Decode(file[k + 1].value, key \in ListKeys)
           twice == key \in DOMAIN r.entry \/ d.bad
<1>1. \A other : k + 1 \in Given(file, other) <=> other = key
  BY NextGiven DEF ReadInv
<1>2. k + 1 \notin Headers(file)
  <2>1. Group("Desktop Entry").kind = "group"
    BY DEF Group
  <2> QED BY <2>1, NextLine
<1>3. Faulty(file, k + 1) <=> r.bad \/ (\E i \in Given(file, key) : i <= k) \/ d.bad
  BY <1>1, <1>2, NextFault DEF ReadInv
<1>4. ~r.bad => ((\E i \in Given(file, key) : i <= k) <=> key \in DOMAIN r.entry)
  BY DEF ReadInv, IsEntryOf
<1>5. r = [inside |-> r.inside, found |-> r.found, bad |-> r.bad, entry |-> r.entry]
      /\ r.bad \in BOOLEAN
  BY DEF ReadInv
<1>6. CASE twice
  <2>1. AppendValue(r, file[k + 1]) = [r EXCEPT !.bad = TRUE]
    BY <1>6 DEF AppendValue
  <2>2. AppendValue(r, file[k + 1])
          = [inside |-> r.inside, found |-> r.found, bad |-> TRUE, entry |-> r.entry]
    BY <2>1, <1>5, ReaderFields
  <2>3. Faulty(file, k + 1)
    BY <1>3, <1>4, <1>6
  <2> QED BY <2>2, <2>3, InsideStep
<1>7. CASE ~twice
  <2> DEFINE e == With(r.entry, key, d.words)
  <2>1. AppendValue(r, file[k + 1]) = [r EXCEPT !.entry = e]
    BY <1>7 DEF AppendValue
  <2>2. AppendValue(r, file[k + 1])
          = [inside |-> r.inside, found |-> r.found, bad |-> r.bad, entry |-> e]
    <3> HIDE DEF e
    <3> QED BY <2>1, <1>5, ReaderFields
  <2>3. r.bad <=> Faulty(file, k + 1)
    BY <1>3, <1>4, <1>7
  <2>4. ~r.bad => IsEntryOf(file, k + 1, e)
    BY <1>1, <1>7, EntryGrows DEF ReadInv
  <2> HIDE DEF e
  <2> QED BY <2>2, <2>3, <2>4, <1>5, InsideStep
<1> QED BY <1>6, <1>7

\* Every line.
LEMMA ReadStep ==
  ASSUME NEW file, IsFile(file), NEW k \in Nat, k + 1 <= Len(file), NEW r, ReadInv(file, k, r)
  PROVE  ReadInv(file, k + 1, ReadLine(r, file[k + 1]))
<1> DEFINE l == file[k + 1]
<1>1. k + 1 \in 1..Len(file) /\ l.kind \in {"group", "pair", "other", "comment"}
  <2>1. k + 1 \in 1..Len(file)
    BY LineKinds
  <2> QED BY <2>1, LineKinds
<1>2. /\ r = [inside |-> r.inside, found |-> r.found, bad |-> r.bad, entry |-> r.entry]
      /\ r.bad \in BOOLEAN /\ (r.bad <=> Faulty(file, k)) /\ (r.inside <=> InsideAt(file, k))
      /\ (~r.bad => IsEntryOf(file, k, r.entry))
  BY DEF ReadInv
<1>3. CASE l.kind = "group"
  BY <1>3, GroupStep
<1>4. CASE l.kind = "pair" /\ r.inside /\ l.name \in EntryKeys
  <2>1. ReadLine(r, l) = AppendValue(r, l)
    BY <1>4 DEF ReadLine, EntryKeys
  <2> QED BY <2>1, <1>4, PairStep
<1>5. CASE l.kind = "other" /\ r.inside
  <2>1. ReadLine(r, l) = [r EXCEPT !.bad = TRUE]
    BY <1>5 DEF ReadLine
  <2>2. ReadLine(r, l)
          = [inside |-> r.inside, found |-> r.found, bad |-> TRUE, entry |-> r.entry]
    BY <2>1, <1>2, ReaderFields
  <2>3. k + 1 \in InEntry(file)
    BY <1>2, <1>5, NextLine
  <2>4. Faulty(file, k + 1)
    BY <2>3, <1>5, NextFault
  <2> QED BY <2>2, <2>4, <1>5, InsideStep
<1>6. CASE \/ l.kind = "comment"
           \/ l.kind \in {"pair", "other"} /\ ~r.inside
           \/ l.kind = "pair" /\ l.name \notin EntryKeys
  <2>1. ReadLine(r, l) = r
    BY <1>6 DEF ReadLine, EntryKeys
  <2>2. k + 1 \notin Headers(file)
    <3>1. Group("Desktop Entry").kind = "group"
      BY DEF Group
    <3> QED BY <3>1, <1>6, NextLine
  <2>3. \A key \in EntryKeys : k + 1 \notin Given(file, key)
    BY <1>2, <1>6, NextGiven
  <2>4. ~(k + 1 \in InEntry(file) /\ l.kind = "other")
    BY <1>2, <1>6, NextLine
  <2>5. Faulty(file, k + 1) <=> r.bad
    BY <2>2, <2>3, <2>4, <1>2, NextFault
  <2>6. ~r.bad => IsEntryOf(file, k + 1, r.entry)
    BY <2>3, <1>2, EntryStays
  <2>7. ReadInv(file, k + 1, [inside |-> r.inside, found |-> r.found, bad |-> r.bad,
                              entry |-> r.entry])
    BY <2>5, <2>6, <1>2, <1>6, InsideStep
  <2> QED BY <2>1, <2>7, <1>2
<1> QED BY <1>1, <1>2, <1>3, <1>4, <1>5, <1>6

-----------------------------------------------------------------------------
(* Loops over a sequence. *)

\* A non-empty set of naturals has a least element.
LEMMA LeastNat ==
  ASSUME NEW T \in SUBSET Nat, T # {}
  PROVE  \E n \in T : \A k \in T : n <= k
<1>1. IsWellFoundedOn(OpToRel(<, Nat), Nat)
  BY NatLessThanWellFounded
<1>2. PICK n \in T : \A k \in T : ~(<<k, n>> \in OpToRel(<, Nat))
  BY <1>1, WFMin
<1>3. \A k \in T : ~(k < n)
  BY <1>2 DEF OpToRel
<1> QED BY <1>3

\* What holds of 0 and of the successors, up to a number.
LEMMA UpTo ==
  ASSUME NEW N \in Nat, NEW T \in SUBSET Nat, 0 \in T,
         \A n \in Nat : n \in T /\ n < N => n + 1 \in T
  PROVE  0..N \subseteq T
<1>1. SUFFICES ASSUME (0..N) \ T # {} PROVE FALSE
  OBVIOUS
<1>2. PICK n \in (0..N) \ T : \A k \in (0..N) \ T : n <= k
  <2>1. (0..N) \ T \in SUBSET Nat
    OBVIOUS
  <2> QED BY <1>1, <2>1, LeastNat
<1>3. n # 0 /\ n - 1 \in Nat /\ n - 1 < N /\ n - 1 \in T
  BY <1>2
<1> QED BY <1>2, <1>3

\* The loop over the lines of a file is the recursion it is written as.
LEMMA ReadingIs ==
  ASSUME NEW file, IsFile(file)
  PROVE  \E read :
           /\ read[0] = [inside |-> FALSE, found |-> FALSE, bad |-> FALSE, entry |-> NoEntry]
           /\ \A n \in Nat : n < Len(file) => read[n + 1] = ReadLine(read[n], file[n + 1])
           /\ ReadEntry(file) = IF read[Len(file)].bad THEN NoEntry ELSE read[Len(file)].entry
<1> DEFINE N == Len(file)
           start == [inside |-> FALSE, found |-> FALSE, bad |-> FALSE, entry |-> NoEntry]
           Def(g, n) == [i \in 0..n |-> IF i = 0 THEN start ELSE ReadLine(g[i - 1], file[i])]
           T == {n \in Nat : \E g : g = Def(g, n)}
           read == CHOOSE g : g = Def(g, N)
<1>1. N \in Nat
  BY LineKinds
<1>2. 0 \in T
  <2> DEFINE g == [i \in 0..0 |-> start]
  <2>1. g = Def(g, 0)
    OBVIOUS
  <2> QED BY <2>1
<1>3. ASSUME NEW n \in Nat, n \in T PROVE n + 1 \in T
  <2>1. PICK g : g = Def(g, n)
    BY <1>3
  <2> DEFINE h == [i \in 0..n + 1 |-> IF i = n + 1 THEN ReadLine(g[n], file[n + 1]) ELSE g[i]]
  <2>2. ASSUME NEW i \in 0..n + 1 PROVE h[i] = Def(h, n + 1)[i]
    <3>1. CASE i = n + 1
      BY <3>1
    <3>2. CASE i # n + 1
      <4>1. i \in 0..n /\ (i # 0 => i - 1 \in 0..n /\ i - 1 # n + 1 /\ i - 1 \in 0..n + 1)
        BY <3>2
      <4>2. h[i] = g[i] /\ (i # 0 => h[i - 1] = g[i - 1])
        BY <3>2, <4>1
      <4>3. g[i] = IF i = 0 THEN start ELSE ReadLine(g[i - 1], file[i])
        BY <2>1, <4>1
      <4> QED BY <4>2, <4>3
    <3> QED BY <3>1, <3>2
  <2>3. h = Def(h, n + 1)
    BY <2>2
  <2>4. \E longer : longer = Def(longer, n + 1)
    <3> HIDE DEF h
    <3> QED BY <2>3
  <2> QED BY <2>4
<1>4. N \in T
  <2>1. T \in SUBSET Nat
    OBVIOUS
  <2> HIDE DEF T
  <2>2. 0..N \subseteq T
    BY <1>1, <1>2, <1>3, <2>1, UpTo
  <2> QED BY <1>1, <2>2
<1>5. read = Def(read, N)
  BY <1>4
<1>6. read[0] = start
  <2>1. 0 \in 0..N
    BY <1>1
  <2> HIDE DEF read
  <2> QED BY <1>5, <2>1
<1>7. ASSUME NEW n \in Nat, n < N PROVE read[n + 1] = ReadLine(read[n], file[n + 1])
  <2>1. n + 1 \in 0..N /\ n + 1 # 0 /\ (n + 1) - 1 = n
    BY <1>1, <1>7
  <2> HIDE DEF read
  <2> QED BY <1>5, <2>1
<1>8. ReadEntry(file) = IF read[N].bad THEN NoEntry ELSE read[N].entry
  BY DEF ReadEntry
<1> HIDE DEF read
<1> QED BY <1>6, <1>7, <1>8

\* What the reader knows at the end of a file.
LEMMA ReadingEnds ==
  ASSUME NEW file, IsFile(file)
  PROVE  \E r : /\ ReadInv(file, Len(file), r)
                /\ ReadEntry(file) = IF r.bad THEN NoEntry ELSE r.entry
<1> DEFINE N == Len(file)
           start == [inside |-> FALSE, found |-> FALSE, bad |-> FALSE, entry |-> NoEntry]
<1>1. PICK read :
        /\ read[0] = start
        /\ \A n \in Nat : n < N => read[n + 1] = ReadLine(read[n], file[n + 1])
        /\ ReadEntry(file) = IF read[N].bad THEN NoEntry ELSE read[N].entry
  BY ReadingIs
<1> DEFINE T == {n \in Nat : n <= N => ReadInv(file, n, read[n])}
<1>2. N \in Nat /\ \A i \in DOMAIN file : i \in 1..N
  BY LineKinds
<1>3. 0 \in T
  <2>0. \A i \in DOMAIN file : ~(i <= 0)
    BY <1>2
  <2>1. \A i \in Headers(file) : ~(i <= 0)
    BY <2>0 DEF Headers
  <2>2. \A i \in InEntry(file) : ~(i <= 0)
    BY <2>0 DEF InEntry
  <2>3. \A key : \A i \in Given(file, key) : ~(i <= 0)
    BY <2>2 DEF Given
  <2>4. ~Faulty(file, 0) /\ ~InsideAt(file, 0)
    BY <2>1, <2>2, <2>3 DEF Faulty, InsideAt
  <2>5. IsEntryOf(file, 0, NoEntry)
    <3>1. DOMAIN NoEntry = {} /\ NoEntry = [key \in DOMAIN NoEntry |-> NoEntry[key]]
      BY DEF NoEntry
    <3> QED BY <2>3, <3>1 DEF IsEntryOf
  <2>6. /\ start.inside = FALSE /\ start.found = FALSE /\ start.bad = FALSE
        /\ start.entry = NoEntry
    OBVIOUS
  <2>7. start = [inside |-> start.inside, found |-> start.found, bad |-> start.bad,
                 entry |-> start.entry]
    OBVIOUS
  <2> HIDE DEF start
  <2>8. ReadInv(file, 0, start)
    BY <2>1, <2>4, <2>5, <2>6, <2>7 DEF ReadInv
  <2> QED BY <1>1, <2>8
<1>4. ASSUME NEW n \in Nat, n \in T PROVE n + 1 \in T
  <2>1. SUFFICES ASSUME n + 1 <= N PROVE ReadInv(file, n + 1, read[n + 1])
    OBVIOUS
  <2>2. ReadInv(file, n, read[n]) /\ n < N
    BY <1>2, <1>4, <2>1
  <2> QED BY <1>1, <2>1, <2>2, ReadStep
<1>5. N \in T
  <2>1. T \in SUBSET Nat
    OBVIOUS
  <2> HIDE DEF T
  <2>2. 0..N \subseteq T
    BY <1>2, <1>3, <1>4, <2>1, UpTo
  <2> QED BY <1>2, <2>2
<1>6. ReadInv(file, N, read[N])
  BY <1>2, <1>5
<1> QED BY <1>1, <1>6

\* A set has at most one element.
LEMMA AtMostOne ==
  ASSUME NEW S, IsFiniteSet(S)
  PROVE  Cardinality(S) <= 1 <=> \A x, y \in S : x = y
<1>1. Cardinality(S) \in Nat
  BY FS_CardinalityType
<1>2. CASE S = {}
  BY <1>2, FS_EmptySet
<1>3. CASE S # {}
  <2>1. PICK x \in S : TRUE
    BY <1>3
  <2>2. Cardinality(S) = 1 <=> \E y : S = {y}
    BY FS_Singleton
  <2>3. Cardinality(S) # 0
    BY <1>3, FS_EmptySet
  <2>4. Cardinality(S) <= 1 <=> Cardinality(S) = 1
    BY <1>1, <2>3
  <2>5. (\A y, z \in S : y = z) <=> \E y : S = {y}
    <3>1. ASSUME \A y, z \in S : y = z PROVE S = {x}
      BY <2>1, <3>1
    <3> QED BY <3>1
  <2> QED BY <2>2, <2>4, <2>5
<1> QED BY <1>2, <1>3

\* Nothing is wrong with all lines of a file exactly if it is well formed.
LEMMA FaultlessIsWellFormed ==
  ASSUME NEW file, IsFile(file)
  PROVE  Faulty(file, Len(file)) <=> ~WellFormed(file)
<1> DEFINE N == Len(file)
<1>1. N \in Nat /\ DOMAIN file = 1..N /\ IsFiniteSet(1..N)
  <2>1. N \in Nat /\ DOMAIN file = 1..N
    BY LineKinds
  <2> QED BY <2>1, FS_Interval
<1>2. Headers(file) \in SUBSET (1..N) /\ InEntry(file) \in SUBSET (1..N)
  BY <1>1 DEF Headers, InEntry
<1>3. \A key : Given(file, key) \in SUBSET (1..N)
  BY <1>2 DEF Given
<1>4. Cardinality(Headers(file)) <= 1 <=> ~ \E g, h \in Headers(file) : g < h /\ h <= N
  <2>1. IsFiniteSet(Headers(file))
    BY <1>1, <1>2, FS_Subset
  <2>2. (\A g, h \in Headers(file) : g = h) <=> ~ \E g, h \in Headers(file) : g < h /\ h <= N
    BY <1>1, <1>2
  <2> QED BY <2>1, <2>2, AtMostOne
<1>5. ASSUME NEW key
      PROVE  Cardinality(Given(file, key)) <= 1
               <=> ~ \E i, j \in Given(file, key) : i < j /\ j <= N
  <2>1. IsFiniteSet(Given(file, key))
    BY <1>1, <1>3, FS_Subset
  <2>2. (\A i, j \in Given(file, key) : i = j)
          <=> ~ \E i, j \in Given(file, key) : i < j /\ j <= N
    BY <1>1, <1>3
  <2> QED BY <2>1, <2>2, AtMostOne
<1>6. (\A i \in InEntry(file) : file[i].kind = "pair")
        <=> ~ \E i \in InEntry(file) : i <= N /\ file[i].kind = "other"
  BY <1>1, <1>2 DEF InEntry
<1>7. ASSUME NEW key
      PROVE  (\A i \in Given(file, key) : ~Decode(file[i].value, key \in ListKeys).bad)
               <=> ~ \E i \in Given(file, key) :
                      i <= N /\ Decode(file[i].value, key \in ListKeys).bad
  BY <1>1, <1>3
<1> QED BY <1>4, <1>5, <1>6, <1>7 DEF WellFormed, Faulty, EntryKeys

\* readDesktopEntry(), line by line, reads what the positions of the lines say.
LEMMA ReadEntryIs ==
  ASSUME NEW file, IsFile(file)
  PROVE  ReadEntry(file) = IF WellFormed(file) THEN Said(file) ELSE NoEntry
<1> DEFINE N == Len(file)
<1>1. PICK r : ReadInv(file, N, r) /\ ReadEntry(file) = IF r.bad THEN NoEntry ELSE r.entry
  BY ReadingEnds
<1>2. r.bad <=> ~WellFormed(file)
  BY <1>1, FaultlessIsWellFormed DEF ReadInv
<1>3. ASSUME WellFormed(file) PROVE r.entry = Said(file)
  <2>1. IsEntryOf(file, N, r.entry)
    BY <1>1, <1>2, <1>3 DEF ReadInv
  <2>2. \A key : \A i \in Given(file, key) : i <= N
    BY LineKinds DEF Given, InEntry
  <2>3. DOMAIN r.entry = {key \in EntryKeys : Given(file, key) # {}}
    BY <2>1, <2>2 DEF IsEntryOf
  <2>4. ASSUME NEW key \in DOMAIN r.entry
        PROVE  r.entry[key]
                 = Decode(file[CHOOSE i \in Given(file, key) : TRUE].value, key \in ListKeys).words
    BY <2>1, <2>2, <2>3 DEF IsEntryOf
  <2>5. r.entry = [key \in DOMAIN r.entry |-> r.entry[key]]
    BY <2>1 DEF IsEntryOf
  <2> QED BY <2>3, <2>4, <2>5 DEF Said, EntryKeys
<1> QED BY <1>1, <1>2, <1>3

-----------------------------------------------------------------------------
(* The directories, one after the other. *)

\* What the file of an identifier in a directory offers, seen before or not.
Offer(m, dir, id) ==
  LET entry == ReadEntry(dir[id])
      command == Command(m, entry)
  IN IF Filtered(m, id) \/ command = <<>> THEN {}
     ELSE {[id |-> id, name |-> Text(entry, "Name"), command |-> command]}

LEMMA VisitIs ==
  ASSUME NEW m, NEW dir, NEW acc, NEW id
  PROVE  Visit(m, dir, acc, id) =
           IF id \in acc.seen THEN acc
           ELSE [seen |-> acc.seen \cup {id}, found |-> acc.found \cup Offer(m, dir, id)]
BY DEF Visit, Offer

\* Numbers in order are a sequence of them, each once.
LEMMA IdsInOrder ==
  ASSUME NEW dir, DOMAIN dir \in SUBSET Int, IsFiniteSet(DOMAIN dir)
  PROVE  LET files == EntryList(dir)
         IN /\ ToSet(files) = DOMAIN dir
            /\ \A i, j \in DOMAIN files : files[i] = files[j] => i = j
            /\ Len(files) \in Nat /\ DOMAIN files = 1..Len(files)
<1> DEFINE S == DOMAIN dir
           ids == EntryList(dir)
           before == [x \in S |-> {y \in S : y < x}]
<1>0. IsFiniteSet(S)
  OBVIOUS
<1>1. before \in [S -> SUBSET S] /\ \A x \in S : x \notin before[x]
  OBVIOUS
<1>2. \A x, y \in S : x # y => x \in before[y] \/ y \in before[x]
  OBVIOUS
<1>3. \A x, y \in S : x \in before[y] => before[x] \subseteq before[y]
  OBVIOUS
<1>4. ids = [i \in 1..Cardinality(S) |-> CHOOSE x \in S : Cardinality({y \in S : y < x}) = i - 1]
  BY DEF EntryList, InOrder
<1>5. DOMAIN ids = 1..Cardinality(S)
  BY <1>4
<1>6. ASSUME NEW i \in 1..Cardinality(S), \E x \in S : Cardinality(before[x]) = i - 1
      PROVE  ids[i] \in S /\ Cardinality(before[ids[i]]) = i - 1
  <2>1. ids[i] = CHOOSE x \in S : Cardinality({y \in S : y < x}) = i - 1
    BY <1>4
  <2>2. \A x \in S : before[x] = {y \in S : y < x}
    OBVIOUS
  <2>3. \E x \in S : Cardinality({y \in S : y < x}) = i - 1
    BY <1>6, <2>2
  <2>4. ids[i] \in S /\ Cardinality({y \in S : y < ids[i]}) = i - 1
    BY <2>1, <2>3
  <2> QED BY <2>2, <2>4
<1>7. Cardinality(S) \in Nat
  BY FS_CardinalityType
<1>8. Len(ids) = Cardinality(S)
  BY <1>4, <1>7
<1> HIDE DEF before, ids, S
<1>9. ToSet(ids) = S
  BY <1>0, <1>1, <1>2, <1>3, <1>5, <1>6, SortedIsAll
<1>10. \A i, j \in 1..Cardinality(S) : ids[i] = ids[j] => i = j
  <2>1. \A i \in 1..Cardinality(S) : \E x \in S : Cardinality(before[x]) = i - 1
    BY <1>0, <1>1, <1>2, <1>3, Ranks
  <2>2. \A i \in 1..Cardinality(S) : Cardinality(before[ids[i]]) = i - 1
    BY <2>1, <1>6
  <2> QED BY <2>2, <1>7
<1> QED BY <1>5, <1>7, <1>8, <1>9, <1>10 DEF ids, S

\* The loop over the files of a directory is the recursion it is written as.
LEMMA VisitingIs ==
  ASSUME NEW m, NEW dir, NEW acc, Len(EntryList(dir)) \in Nat
  PROVE  \E visited :
           /\ visited[0] = acc
           /\ \A n \in Nat : n < Len(EntryList(dir)) =>
                visited[n + 1] = Visit(m, dir, visited[n], EntryList(dir)[n + 1])
           /\ VisitAll(m, dir, acc) = visited[Len(EntryList(dir))]
<1> DEFINE ids == EntryList(dir)
           N == Len(ids)
           Def(g, n) == [i \in 0..n |-> IF i = 0 THEN acc ELSE Visit(m, dir, g[i - 1], ids[i])]
           T == {n \in Nat : \E g : g = Def(g, n)}
           visited == CHOOSE g : g = Def(g, N)
<1>2. 0 \in T
  <2> DEFINE g == [i \in 0..0 |-> acc]
  <2>1. g = Def(g, 0)
    OBVIOUS
  <2> QED BY <2>1
<1>3. ASSUME NEW n \in Nat, n \in T PROVE n + 1 \in T
  <2>1. PICK g : g = Def(g, n)
    BY <1>3
  <2> DEFINE h == [i \in 0..n + 1 |->
                     IF i = n + 1 THEN Visit(m, dir, g[n], ids[n + 1]) ELSE g[i]]
  <2>2. ASSUME NEW i \in 0..n + 1 PROVE h[i] = Def(h, n + 1)[i]
    <3>1. CASE i = n + 1
      BY <3>1
    <3>2. CASE i # n + 1
      <4>1. i \in 0..n /\ (i # 0 => i - 1 \in 0..n /\ i - 1 # n + 1 /\ i - 1 \in 0..n + 1)
        BY <3>2
      <4>2. h[i] = g[i] /\ (i # 0 => h[i - 1] = g[i - 1])
        BY <3>2, <4>1
      <4>3. g[i] = IF i = 0 THEN acc ELSE Visit(m, dir, g[i - 1], ids[i])
        BY <2>1, <4>1
      <4> QED BY <4>2, <4>3
    <3> QED BY <3>1, <3>2
  <2>3. h = Def(h, n + 1)
    BY <2>2
  <2>4. \E longer : longer = Def(longer, n + 1)
    <3> HIDE DEF h
    <3> QED BY <2>3
  <2> QED BY <2>4
<1>4. N \in T
  <2>1. T \in SUBSET Nat
    OBVIOUS
  <2> HIDE DEF T
  <2>2. 0..N \subseteq T
    BY <1>2, <1>3, <2>1, UpTo
  <2> QED BY <2>2
<1>5. visited = Def(visited, N)
  BY <1>4
<1>6. visited[0] = acc
  <2>1. 0 \in 0..N
    OBVIOUS
  <2> HIDE DEF visited
  <2> QED BY <1>5, <2>1
<1>7. ASSUME NEW n \in Nat, n < N
      PROVE  visited[n + 1] = Visit(m, dir, visited[n], ids[n + 1])
  <2>1. n + 1 \in 0..N /\ n + 1 # 0 /\ (n + 1) - 1 = n
    BY <1>7
  <2> HIDE DEF visited
  <2> QED BY <1>5, <2>1
<1>8. VisitAll(m, dir, acc) = visited[N]
  BY DEF VisitAll
<1> HIDE DEF visited
<1> QED BY <1>6, <1>7, <1>8

LEMMA OffersAreFinite ==
  ASSUME NEW m, NEW dir, NEW id, NEW all, IsFiniteSet(all)
  PROVE  IsFiniteSet(all \cup Offer(m, dir, id))
<1>1. CASE Offer(m, dir, id) = {}
  <2>1. all \cup Offer(m, dir, id) = all
    BY <1>1
  <2> QED BY <2>1
<1>2. CASE \E x : Offer(m, dir, id) = {x}
  <2>1. PICK x : Offer(m, dir, id) = {x}
    BY <1>2
  <2>2. all \cup Offer(m, dir, id) = all \cup {x}
    BY <2>1
  <2>3. IsFiniteSet(all \cup {x})
    BY FS_AddElement
  <2> QED BY <2>2, <2>3
<1>3. Offer(m, dir, id) = {} \/ \E x : Offer(m, dir, id) = {x}
  BY DEF Offer
<1> QED BY <1>1, <1>2, <1>3

\* What has been seen and found after n files of a directory.
Visited(m, dir, seen, found, files, v, n) ==
  /\ v = [seen |-> seen \cup {files[i] : i \in 1..n}, found |-> v.found]
  /\ IsFiniteSet(v.found)
  /\ \A x : x \in v.found <=>
       \/ x \in found
       \/ \E i \in 1..n : files[i] \notin seen /\ x \in Offer(m, dir, files[i])

LEMMA NothingVisited ==
  ASSUME NEW m, NEW dir, NEW seen, NEW found, IsFiniteSet(found), NEW files
  PROVE  Visited(m, dir, seen, found, files, [seen |-> seen, found |-> found], 0)
<1> DEFINE v == [seen |-> seen, found |-> found]
<1>1. v.found = found
  OBVIOUS
<1>2. seen \cup {files[i] : i \in 1..0} = seen
  OBVIOUS
<1>3. v = [seen |-> seen \cup {files[i] : i \in 1..0}, found |-> v.found]
  BY <1>1, <1>2
<1>4. IsFiniteSet(v.found)
  BY <1>1
<1>5. \A x : x \in v.found <=>
       \/ x \in found
       \/ \E i \in 1..0 : files[i] \notin seen /\ x \in Offer(m, dir, files[i])
  BY <1>1
<1> HIDE DEF v
<1>6. Visited(m, dir, seen, found, files, v, 0)
  BY <1>3, <1>4, <1>5 DEF Visited
<1> QED BY <1>6 DEF v

LEMMA FileVisited ==
  ASSUME NEW m, NEW dir, NEW seen, NEW found, NEW files, NEW v, NEW n \in Nat,
         Visited(m, dir, seen, found, files, v, n),
         \A i \in 1..n : files[i] # files[n + 1]
  PROVE  Visited(m, dir, seen, found, files, Visit(m, dir, v, files[n + 1]), n + 1)
<1> DEFINE id == files[n + 1]
           sofar == seen \cup {files[i] : i \in 1..n}
           w == Visit(m, dir, v, id)
<1>1. /\ v = [seen |-> sofar, found |-> v.found]
      /\ IsFiniteSet(v.found)
      /\ \A x : x \in v.found <=>
           \/ x \in found
           \/ \E i \in 1..n : files[i] \notin seen /\ x \in Offer(m, dir, files[i])
  BY DEF Visited
<1>2. v.seen = sofar
  BY <1>1
<1>3. w = IF id \in sofar THEN v
          ELSE [seen |-> sofar \cup {id}, found |-> v.found \cup Offer(m, dir, id)]
  BY <1>2, VisitIs
<1>4. id \in sofar <=> id \in seen
  OBVIOUS
<1>5. \A i : i \in 1..n + 1 <=> i \in 1..n \/ i = n + 1
  OBVIOUS
<1>6. seen \cup {files[i] : i \in 1..n + 1} = sofar \cup {id}
  BY <1>5
<1>7. CASE id \in seen
  <2>1. w = v
    BY <1>3, <1>4, <1>7
  <2>2. sofar \cup {id} = sofar
    BY <1>7
  <2>3. w = [seen |-> seen \cup {files[i] : i \in 1..n + 1}, found |-> w.found]
    BY <1>1, <1>6, <2>1, <2>2
  <2>4. \A x : x \in w.found <=>
          \/ x \in found
          \/ \E i \in 1..n + 1 : files[i] \notin seen /\ x \in Offer(m, dir, files[i])
    BY <1>1, <1>5, <1>7, <2>1
  <2>5. IsFiniteSet(w.found)
    BY <1>1, <2>1
  <2> HIDE DEF w
  <2>6. Visited(m, dir, seen, found, files, w, n + 1)
    BY <2>3, <2>4, <2>5 DEF Visited
  <2> QED BY <2>6 DEF w
<1>8. CASE id \notin seen
  <2>1. w = [seen |-> sofar \cup {id}, found |-> v.found \cup Offer(m, dir, id)]
    BY <1>3, <1>4, <1>8
  <2>2. w.found = v.found \cup Offer(m, dir, id)
    BY <2>1
  <2>3. w = [seen |-> seen \cup {files[i] : i \in 1..n + 1}, found |-> w.found]
    BY <1>6, <2>1, <2>2
  <2>4. \A x : x \in w.found <=>
          \/ x \in found
          \/ \E i \in 1..n + 1 : files[i] \notin seen /\ x \in Offer(m, dir, files[i])
    BY <1>1, <1>5, <1>8, <2>2
  <2>5. IsFiniteSet(w.found)
    BY <1>1, <2>2, OffersAreFinite
  <2> HIDE DEF w
  <2>6. Visited(m, dir, seen, found, files, w, n + 1)
    BY <2>3, <2>4, <2>5 DEF Visited
  <2> QED BY <2>6 DEF w
<1> QED BY <1>7, <1>8

\* A directory adds what its identifiers not seen before offer, and all are seen.
LEMMA VisitAllIs ==
  ASSUME NEW m, NEW dir, DOMAIN dir \in SUBSET Int, IsFiniteSet(DOMAIN dir),
         NEW seen, NEW found, IsFiniteSet(found)
  PROVE  LET v == VisitAll(m, dir, [seen |-> seen, found |-> found])
         IN /\ v = [seen |-> seen \cup DOMAIN dir, found |-> v.found]
            /\ IsFiniteSet(v.found)
            /\ \A x : x \in v.found <=>
                 x \in found \/ \E id \in DOMAIN dir \ seen : x \in Offer(m, dir, id)
<1> DEFINE files == EntryList(dir)
           N == Len(files)
           v == VisitAll(m, dir, [seen |-> seen, found |-> found])
<1>1. /\ ToSet(files) = DOMAIN dir /\ N \in Nat /\ DOMAIN files = 1..N
      /\ \A i, j \in 1..N : files[i] = files[j] => i = j
  BY IdsInOrder
<1>2. PICK visited :
        /\ visited[0] = [seen |-> seen, found |-> found]
        /\ \A n \in Nat : n < N => visited[n + 1] = Visit(m, dir, visited[n], files[n + 1])
        /\ v = visited[N]
  BY <1>1, VisitingIs
<1> HIDE DEF files, v
<1> DEFINE T == {n \in Nat : n <= N => Visited(m, dir, seen, found, files, visited[n], n)}
<1>3. 0 \in T
  BY <1>2, NothingVisited
<1>4. ASSUME NEW n \in Nat, n \in T PROVE n + 1 \in T
  <2>1. SUFFICES ASSUME n + 1 <= N
                 PROVE  Visited(m, dir, seen, found, files, visited[n + 1], n + 1)
    OBVIOUS
  <2>2. n < N /\ n + 1 \in 1..N /\ \A i \in 1..n : i \in 1..N /\ i # n + 1
    BY <1>1, <2>1
  <2>3. Visited(m, dir, seen, found, files, visited[n], n)
    BY <1>1, <1>4, <2>1
  <2>4. \A i \in 1..n : files[i] # files[n + 1]
    BY <1>1, <2>2
  <2>5. visited[n + 1] = Visit(m, dir, visited[n], files[n + 1])
    BY <1>2, <2>2
  <2> QED BY <2>3, <2>4, <2>5, FileVisited
<1>5. N \in T
  <2>1. T \in SUBSET Nat
    OBVIOUS
  <2> HIDE DEF T
  <2>2. 0..N \subseteq T
    BY <1>1, <1>3, <1>4, <2>1, UpTo
  <2> QED BY <1>1, <2>2
<1>6. Visited(m, dir, seen, found, files, v, N)
  BY <1>1, <1>2, <1>5
<1>7. {files[i] : i \in 1..N} = DOMAIN dir
  BY <1>1 DEF ToSet
<1>8. /\ v = [seen |-> seen \cup {files[i] : i \in 1..N}, found |-> v.found]
      /\ IsFiniteSet(v.found)
      /\ \A x : x \in v.found <=>
           \/ x \in found
           \/ \E i \in 1..N : files[i] \notin seen /\ x \in Offer(m, dir, files[i])
  BY <1>6 DEF Visited
<1>9. \A x : (\E i \in 1..N : files[i] \notin seen /\ x \in Offer(m, dir, files[i]))
               <=> \E id \in DOMAIN dir \ seen : x \in Offer(m, dir, id)
  BY <1>7
<1>10. v = [seen |-> seen \cup DOMAIN dir, found |-> v.found]
  BY <1>7, <1>8
<1>11. \A x : x \in v.found <=>
         x \in found \/ \E id \in DOMAIN dir \ seen : x \in Offer(m, dir, id)
  BY <1>8, <1>9
<1> QED BY <1>8, <1>10, <1>11 DEF v

\* The loop over the directories is the recursion it is written as.
LEMMA WalkingIs ==
  ASSUME NEW m, Len(m.directories) \in Nat
  PROVE  \E walk :
           /\ walk[0] = [seen |-> {}, found |-> {}]
           /\ \A n \in Nat : n < Len(m.directories) =>
                walk[n + 1] = VisitAll(m, m.directories[n + 1], walk[n])
           /\ DiscoverSessions(m) = InOrder(walk[Len(m.directories)].found, ByNameThenId)
<1> DEFINE N == Len(m.directories)
           none == [seen |-> {}, found |-> {}]
           Def(g, n) == [d \in 0..n |-> IF d = 0 THEN none
                                        ELSE VisitAll(m, m.directories[d], g[d - 1])]
           T == {n \in Nat : \E g : g = Def(g, n)}
           walk == CHOOSE g : g = Def(g, N)
<1>1. DiscoverSessions(m) = InOrder(walk[N].found, ByNameThenId)
  BY DEF DiscoverSessions
<1> HIDE DEF none
<1>2. 0 \in T
  <2> DEFINE g == [d \in 0..0 |-> none]
  <2>1. g = Def(g, 0)
    OBVIOUS
  <2> QED BY <2>1
<1>3. ASSUME NEW n \in Nat, n \in T PROVE n + 1 \in T
  <2>1. PICK g : g = Def(g, n)
    BY <1>3
  <2> DEFINE h == [d \in 0..n + 1 |->
                     IF d = n + 1 THEN VisitAll(m, m.directories[n + 1], g[n]) ELSE g[d]]
  <2>2. ASSUME NEW d \in 0..n + 1 PROVE h[d] = Def(h, n + 1)[d]
    <3>1. CASE d = n + 1
      BY <3>1
    <3>2. CASE d # n + 1
      <4>1. d \in 0..n /\ (d # 0 => d - 1 \in 0..n /\ d - 1 # n + 1 /\ d - 1 \in 0..n + 1)
        BY <3>2
      <4>2. h[d] = g[d] /\ (d # 0 => h[d - 1] = g[d - 1])
        BY <3>2, <4>1
      <4>3. g[d] = IF d = 0 THEN none ELSE VisitAll(m, m.directories[d], g[d - 1])
        BY <2>1, <4>1
      <4> QED BY <4>2, <4>3
    <3> QED BY <3>1, <3>2
  <2>3. h = Def(h, n + 1)
    BY <2>2
  <2>4. \E longer : longer = Def(longer, n + 1)
    <3> HIDE DEF h
    <3> QED BY <2>3
  <2> QED BY <2>4
<1>4. N \in T
  <2>1. T \in SUBSET Nat
    OBVIOUS
  <2> HIDE DEF T
  <2>2. 0..N \subseteq T
    BY <1>2, <1>3, <2>1, UpTo
  <2> QED BY <2>2
<1>5. walk = Def(walk, N)
  BY <1>4
<1>6. walk[0] = none
  <2>1. 0 \in 0..N
    OBVIOUS
  <2> HIDE DEF walk
  <2> QED BY <1>5, <2>1
<1>7. ASSUME NEW n \in Nat, n < N
      PROVE  walk[n + 1] = VisitAll(m, m.directories[n + 1], walk[n])
  <2>1. n + 1 \in 0..N /\ n + 1 # 0 /\ (n + 1) - 1 = n
    BY <1>7
  <2> HIDE DEF walk
  <2> QED BY <1>5, <2>1
<1> HIDE DEF walk
<1> QED BY <1>1, <1>6, <1>7 DEF none

\* The identifiers of the first directories.
IdsBefore(dirs, d) == UNION {DOMAIN dirs[e] : e \in 1..d - 1}

\* What has been seen and found after n directories.
Walked(m, v, n) ==
  /\ v = [seen |-> IdsBefore(m.directories, n + 1), found |-> v.found]
  /\ IsFiniteSet(v.found)
  /\ \A x : x \in v.found <=>
       \E d \in 1..n :
         \E id \in DOMAIN m.directories[d] \ IdsBefore(m.directories, d) :
           x \in Offer(m, m.directories[d], id)

LEMMA DirectoryWalked ==
  ASSUME NEW m, NEW v, NEW n \in Nat, Walked(m, v, n),
         DOMAIN m.directories[n + 1] \in SUBSET Int, IsFiniteSet(DOMAIN m.directories[n + 1])
  PROVE  Walked(m, VisitAll(m, m.directories[n + 1], v), n + 1)
<1> DEFINE dirs == m.directories
           dir == dirs[n + 1]
           seen == IdsBefore(dirs, n + 1)
           w == VisitAll(m, dir, v)
<1>1. /\ v = [seen |-> seen, found |-> v.found]
      /\ IsFiniteSet(v.found)
      /\ \A x : x \in v.found <=>
           \E d \in 1..n : \E id \in DOMAIN dirs[d] \ IdsBefore(dirs, d) : x \in Offer(m, dirs[d], id)
  BY DEF Walked
<1> DEFINE found == v.found
<1>2. w = VisitAll(m, dir, [seen |-> seen, found |-> found])
  BY <1>1
<1>a. IsFiniteSet(found)
  BY <1>1
<1> HIDE DEF found, w, seen
<1>3. /\ w = [seen |-> seen \cup DOMAIN dir, found |-> w.found]
      /\ IsFiniteSet(w.found)
      /\ \A x : x \in w.found <=>
           x \in found \/ \E id \in DOMAIN dir \ seen : x \in Offer(m, dir, id)
  BY <1>a, <1>2, VisitAllIs
<1>4. \A d : d \in 1..n + 1 <=> d \in 1..n \/ d = n + 1
  OBVIOUS
<1>5. IdsBefore(dirs, (n + 1) + 1) = seen \cup DOMAIN dir
  <2>1. (n + 1) + 1 - 1 = n + 1 /\ (n + 1) - 1 = n
    OBVIOUS
  <2> QED BY <1>4, <2>1 DEF IdsBefore, seen
<1>6. \A x : x \in w.found <=>
        \E d \in 1..n + 1 : \E id \in DOMAIN dirs[d] \ IdsBefore(dirs, d) : x \in Offer(m, dirs[d], id)
  BY <1>1, <1>3, <1>4 DEF found, seen
<1>7. Walked(m, w, n + 1)
  BY <1>3, <1>5, <1>6 DEF Walked
<1> QED BY <1>7 DEF w

\* What is found in all directories, before it is sorted.
LEMMA FoundIs ==
  ASSUME NEW m, m.directories \in Seq(ToSet(m.directories)),
         \A dir \in ToSet(m.directories) : IsFiniteSet(DOMAIN dir) /\ DOMAIN dir \subseteq Int
  PROVE  \E v : /\ Walked(m, v, Len(m.directories))
                /\ DiscoverSessions(m) = InOrder(v.found, ByNameThenId)
<1> DEFINE N == Len(m.directories)
<1>1. N \in Nat /\ DOMAIN m.directories = 1..N
  OBVIOUS
<1>2. \A d \in 1..N : IsFiniteSet(DOMAIN m.directories[d]) /\ DOMAIN m.directories[d] \in SUBSET Int
  BY <1>1 DEF ToSet
<1>3. PICK walk :
        /\ walk[0] = [seen |-> {}, found |-> {}]
        /\ \A n \in Nat : n < N => walk[n + 1] = VisitAll(m, m.directories[n + 1], walk[n])
        /\ DiscoverSessions(m) = InOrder(walk[N].found, ByNameThenId)
  BY <1>1, WalkingIs
<1> DEFINE T == {n \in Nat : n <= N => Walked(m, walk[n], n)}
<1>4. 0 \in T
  <2>1. walk[0].found = {}
    BY <1>3
  <2>2. IdsBefore(m.directories, 0 + 1) = {}
    BY DEF IdsBefore
  <2>3. IsFiniteSet({})
    BY FS_EmptySet
  <2>4. walk[0] = [seen |-> IdsBefore(m.directories, 0 + 1), found |-> walk[0].found]
    BY <1>3, <2>1, <2>2
  <2>5. Walked(m, walk[0], 0)
    BY <2>1, <2>3, <2>4 DEF Walked
  <2> QED BY <2>5
<1>5. ASSUME NEW n \in Nat, n \in T PROVE n + 1 \in T
  <2>1. SUFFICES ASSUME n + 1 <= N PROVE Walked(m, walk[n + 1], n + 1)
    OBVIOUS
  <2>2. n < N /\ n + 1 \in 1..N /\ Walked(m, walk[n], n)
    BY <1>1, <1>5, <2>1
  <2>3. walk[n + 1] = VisitAll(m, m.directories[n + 1], walk[n])
    BY <1>3, <2>2
  <2> QED BY <1>2, <2>2, <2>3, DirectoryWalked
<1>6. N \in T
  <2>1. T \in SUBSET Nat
    OBVIOUS
  <2> HIDE DEF T
  <2>2. 0..N \subseteq T
    BY <1>1, <1>4, <1>5, <2>1, UpTo
  <2> QED BY <1>1, <2>2
<1> QED BY <1>1, <1>3, <1>6

\* Sessions and the sequence they are listed in.
LEMMA SessionsInOrder ==
  ASSUME NEW S, IsFiniteSet(S),
         \A x \in S : Collation[x.name] \in Int /\ x.id \in Int,
         \A x, y \in S : x.id = y.id => x = y
  PROVE  ToSet(InOrder(S, ByNameThenId)) = S
<1> DEFINE before == [x \in S |-> {y \in S : ByNameThenId(y, x)}]
           s == InOrder(S, ByNameThenId)
<1>1. before \in [S -> SUBSET S]
  OBVIOUS
<1>2. \A x \in S : x \notin before[x]
  BY DEF ByNameThenId
<1>3. \A x, y \in S : x # y => x \in before[y] \/ y \in before[x]
  BY DEF ByNameThenId
<1>4. \A x, y \in S : x \in before[y] => before[x] \subseteq before[y]
  BY DEF ByNameThenId
<1>5. DOMAIN s = 1..Cardinality(S)
  BY DEF InOrder
<1>6. ASSUME NEW i \in 1..Cardinality(S), \E x \in S : Cardinality(before[x]) = i - 1
      PROVE  s[i] \in S /\ Cardinality(before[s[i]]) = i - 1
  <2>1. s[i] = CHOOSE x \in S : Cardinality({y \in S : ByNameThenId(y, x)}) = i - 1
    BY DEF InOrder
  <2>2. \A x \in S : before[x] = {y \in S : ByNameThenId(y, x)}
    OBVIOUS
  <2>3. \E x \in S : Cardinality({y \in S : ByNameThenId(y, x)}) = i - 1
    BY <1>6, <2>2
  <2>4. s[i] \in S /\ Cardinality({y \in S : ByNameThenId(y, s[i])}) = i - 1
    BY <2>1, <2>3
  <2> QED BY <2>2, <2>4
<1> HIDE DEF before, s
<1>7. ToSet(s) = S
  BY <1>1, <1>2, <1>3, <1>4, <1>5, <1>6, SortedIsAll
<1> QED BY <1>7 DEF s

LEMMA OfferOf ==
  ASSUME NEW m, NEW dir, NEW id
  PROVE  Offer(m, dir, id) =
           IF Filtered(m, id) \/ Command(m, ReadEntry(dir[id])) = <<>> THEN {}
           ELSE {[id |-> id, name |-> Text(ReadEntry(dir[id]), "Name"),
                  command |-> Command(m, ReadEntry(dir[id]))]}
BY DEF Offer

\* A file that gives no entry runs nothing.
LEMMA NoEntryRunsNothing ==
  ASSUME NEW m PROVE Command(m, NoEntry) = <<>>
<1>1. Text(NoEntry, "Type") = <<>>
  BY DEF Text, Words, NoEntry
<1> QED BY <1>1 DEF Command, Offerable

\* What a file offers, said by the positions of its lines.
OfferSaid(m, dir, id) ==
  IF Filtered(m, id) \/ ~WellFormed(dir[id]) THEN {}
  ELSE {s \in {[id |-> id, name |-> Text(Said(dir[id]), "Name"),
                command |-> Command(m, Said(dir[id]))]} : s.command # <<>>}

LEMMA OfferIs ==
  ASSUME NEW m, NEW dir, NEW id, IsFile(dir[id])
  PROVE  Offer(m, dir, id) = OfferSaid(m, dir, id)
<1>1. CASE WellFormed(dir[id])
  <2>1. ReadEntry(dir[id]) = Said(dir[id])
    BY <1>1, ReadEntryIs
  <2> QED BY <1>1, <2>1, OfferOf DEF OfferSaid
<1>2. CASE ~WellFormed(dir[id])
  <2>1. ReadEntry(dir[id]) = NoEntry
    BY <1>2, ReadEntryIs
  <2>2. Offer(m, dir, id) = {}
    BY <2>1, OfferOf, NoEntryRunsNothing
  <2> QED BY <1>2, <2>2 DEF OfferSaid
<1> QED BY <1>1, <1>2

\* The first directory that has an identifier, by those before it.
LEMMA DecidingIs ==
  ASSUME NEW dirs, NEW N \in Nat, DOMAIN dirs = 1..N, NEW id
  PROVE  /\ \A d \in 1..N : id \in DOMAIN dirs[d] \ IdsBefore(dirs, d) => Deciding(dirs, id) = d
         /\ id \in UNION {DOMAIN dirs[d] : d \in DOMAIN dirs} =>
              /\ Deciding(dirs, id) \in 1..N
              /\ id \in DOMAIN dirs[Deciding(dirs, id)] \ IdsBefore(dirs, Deciding(dirs, id))
<1> DEFINE First(d) == d \in 1..N /\ id \in DOMAIN dirs[d] /\ \A e \in 1..d - 1 : id \notin DOMAIN dirs[e]
<1>1. \A d \in 1..N : First(d) <=> id \in DOMAIN dirs[d] \ IdsBefore(dirs, d)
  BY DEF IdsBefore
<1>2. \A d, e : First(d) /\ First(e) => d = e
  OBVIOUS
<1>3. Deciding(dirs, id) = CHOOSE d \in DOMAIN dirs : First(d)
  BY DEF Deciding
<1>4. ASSUME id \in UNION {DOMAIN dirs[d] : d \in DOMAIN dirs} PROVE \E d : First(d)
  <2> DEFINE T == {d \in 1..N : id \in DOMAIN dirs[d]}
  <2>1. T \in SUBSET Nat /\ T # {}
    BY <1>4
  <2>2. PICK d \in T : \A e \in T : d <= e
    <3> HIDE DEF T
    <3> QED BY <2>1, LeastNat
  <2> QED BY <2>2
<1>5. ASSUME NEW d, First(d) PROVE Deciding(dirs, id) = d
  <2>1. \E e \in DOMAIN dirs : First(e)
    BY <1>5
  <2> HIDE DEF First
  <2>2. First(CHOOSE e \in DOMAIN dirs : First(e))
    BY <2>1
  <2> QED BY <1>2, <1>3, <1>5, <2>2
<1>6. ASSUME NEW d \in 1..N, id \in DOMAIN dirs[d] \ IdsBefore(dirs, d)
      PROVE  Deciding(dirs, id) = d
  BY <1>1, <1>5, <1>6
<1>7. ASSUME id \in UNION {DOMAIN dirs[d] : d \in DOMAIN dirs}
      PROVE  /\ Deciding(dirs, id) \in 1..N
             /\ id \in DOMAIN dirs[Deciding(dirs, id)] \ IdsBefore(dirs, Deciding(dirs, id))
  <2>1. PICK d : First(d)
    BY <1>4, <1>7
  <2> QED BY <1>1, <1>5, <2>1
<1> QED BY <1>6, <1>7

\* The sessions of a machine.
LEMMA DiscoveredSessions ==
  ASSUME NEW m \in Machines
  PROVE  LET dirs == m.directories
         IN ToSet(DiscoverSessions(m))
              = UNION {OfferSaid(m, dirs[Deciding(dirs, id)], id) :
                         id \in UNION {DOMAIN dirs[d] : d \in DOMAIN dirs}}
<1> DEFINE dirs == m.directories
           N == Len(dirs)
           ids == UNION {DOMAIN dirs[d] : d \in DOMAIN dirs}
<1>1. /\ dirs \in Seq(ToSet(dirs))
      /\ \A dir \in ToSet(dirs) :
           /\ IsFiniteSet(DOMAIN dir) /\ DOMAIN dir \subseteq Int
           /\ \A id \in DOMAIN dir :
                IsFile(dir[id]) /\ Text(ReadEntry(dir[id]), "Name") \in DOMAIN Collation
  BY MachinesAssumption
<1>2. N \in Nat /\ DOMAIN dirs = 1..N
  BY <1>1
<1>3. \A d \in 1..N :
        /\ IsFiniteSet(DOMAIN dirs[d]) /\ DOMAIN dirs[d] \subseteq Int
        /\ \A id \in DOMAIN dirs[d] :
             IsFile(dirs[d][id]) /\ Text(ReadEntry(dirs[d][id]), "Name") \in DOMAIN Collation
  BY <1>1, <1>2 DEF ToSet
<1>4. PICK v : Walked(m, v, N) /\ DiscoverSessions(m) = InOrder(v.found, ByNameThenId)
  BY <1>1, FoundIs
<1> DEFINE found == v.found
<1>5. /\ IsFiniteSet(found)
      /\ \A x : x \in found <=>
           \E d \in 1..N : \E id \in DOMAIN dirs[d] \ IdsBefore(dirs, d) : x \in Offer(m, dirs[d], id)
  BY <1>4 DEF Walked
<1>6. DiscoverSessions(m) = InOrder(found, ByNameThenId)
  BY <1>4
<1> HIDE DEF found
<1>7. \A dir, id, x : x \in Offer(m, dir, id) =>
        x.id = id /\ x.name = Text(ReadEntry(dir[id]), "Name")
  BY OfferOf
<1>8. \A dir, id, x, y : x \in Offer(m, dir, id) /\ y \in Offer(m, dir, id) => x = y
  BY OfferOf
<1>9. \A x \in found : Collation[x.name] \in Int /\ x.id \in Int
  <2> TAKE x \in found
  <2>1. PICK d \in 1..N : \E id \in DOMAIN dirs[d] : x \in Offer(m, dirs[d], id)
    BY <1>5
  <2>2. PICK id \in DOMAIN dirs[d] : x \in Offer(m, dirs[d], id)
    BY <2>1
  <2>3. x.id = id /\ x.name = Text(ReadEntry(dirs[d][id]), "Name")
    BY <1>7, <2>2
  <2>4. id \in Int /\ Text(ReadEntry(dirs[d][id]), "Name") \in DOMAIN Collation
    BY <1>3
  <2> QED BY <2>3, <2>4, OrderAssumption
<1>10. \A x, y \in found : x.id = y.id => x = y
  <2> TAKE x, y \in found
  <2>1. SUFFICES ASSUME x.id = y.id PROVE x = y
    OBVIOUS
  <2>2. PICK d \in 1..N : \E id \in DOMAIN dirs[d] \ IdsBefore(dirs, d) : x \in Offer(m, dirs[d], id)
    BY <1>5
  <2>3. PICK e \in 1..N : \E id \in DOMAIN dirs[e] \ IdsBefore(dirs, e) : y \in Offer(m, dirs[e], id)
    BY <1>5
  <2>4. /\ x.id \in DOMAIN dirs[d] \ IdsBefore(dirs, d) /\ x \in Offer(m, dirs[d], x.id)
        /\ x.id \in DOMAIN dirs[e] \ IdsBefore(dirs, e) /\ y \in Offer(m, dirs[e], x.id)
    BY <1>7, <2>1, <2>2, <2>3
  <2>5. d = e
    BY <1>2, <2>4, DecidingIs
  <2> QED BY <1>8, <2>4, <2>5
<1>11. ToSet(DiscoverSessions(m)) = found
  BY <1>5, <1>6, <1>9, <1>10, SessionsInOrder
<1>12. \A d \in 1..N : \A id \in DOMAIN dirs[d] : Offer(m, dirs[d], id) = OfferSaid(m, dirs[d], id)
  BY <1>3, OfferIs
<1>13. ASSUME NEW x \in found PROVE \E id \in ids : x \in OfferSaid(m, dirs[Deciding(dirs, id)], id)
  <2>1. PICK d \in 1..N : \E id \in DOMAIN dirs[d] \ IdsBefore(dirs, d) : x \in Offer(m, dirs[d], id)
    BY <1>5
  <2>2. PICK id \in DOMAIN dirs[d] \ IdsBefore(dirs, d) : x \in Offer(m, dirs[d], id)
    BY <2>1
  <2>3. Deciding(dirs, id) = d
    BY <1>2, <2>2, DecidingIs
  <2>4. id \in ids
    BY <1>2
  <2> QED BY <1>12, <2>2, <2>3, <2>4
<1>14. ASSUME NEW id \in ids, NEW x \in OfferSaid(m, dirs[Deciding(dirs, id)], id)
       PROVE  x \in found
  <2>1. /\ Deciding(dirs, id) \in 1..N
        /\ id \in DOMAIN dirs[Deciding(dirs, id)] \ IdsBefore(dirs, Deciding(dirs, id))
    BY <1>2, DecidingIs
  <2>2. x \in Offer(m, dirs[Deciding(dirs, id)], id)
    BY <1>12, <1>14, <2>1
  <2> QED BY <1>5, <2>1, <2>2
<1> HIDE DEF ids
<1>15. found = UNION {OfferSaid(m, dirs[Deciding(dirs, id)], id) : id \in ids}
  BY <1>13, <1>14
<1> QED BY <1>11, <1>15 DEF ids

LEMMA NothingInOrder ==
  ASSUME NEW S
  PROVE  ToSet(InOrder(S, ByNameThenId)) = {} <=> InOrder(S, ByNameThenId) = <<>>
<1> DEFINE nth(i) == CHOOSE x \in S : Cardinality({y \in S : ByNameThenId(y, x)}) = i - 1
           s == [i \in 1..Cardinality(S) |-> nth(i)]
<1>0. InOrder(S, ByNameThenId) = s
  BY DEF InOrder
<1> HIDE DEF nth
<1>1. s = [i \in DOMAIN s |-> s[i]]
  OBVIOUS
<1> HIDE DEF s
<1>2. ToSet(s) = {} <=> DOMAIN s = {}
  BY DEF ToSet
<1>3. DOMAIN s = {} => s = <<>>
  BY <1>1
<1>4. s = <<>> => DOMAIN s = {}
  OBVIOUS
<1> QED BY <1>0, <1>2, <1>3, <1>4

\* What demo mode lists of the sessions when it starts.
LEMMA InitialiseSessions ==
  ASSUME machine \in Machines, Initialise PROVE FirstFileDecides'
<1> DEFINE dirs == machine.directories
           ids == UNION {DOMAIN dirs[d] : d \in DOMAIN dirs}
           offers == UNION {OfferSaid(machine, dirs[Deciding(dirs, id)], id) : id \in ids}
<1>1. ToSet(DiscoverSessions(machine)) = offers
  BY DiscoveredSessions
<1>2. DiscoverSessions(machine) = <<>> <=> offers = {}
  <2>1. machine.directories \in Seq(ToSet(machine.directories))
    BY MachinesAssumption
  <2>2. PICK v : DiscoverSessions(machine) = InOrder(v.found, ByNameThenId)
    BY <2>1, MachinesAssumption, FoundIs
  <2>3. ToSet(DiscoverSessions(machine)) = {} <=> DiscoverSessions(machine) = <<>>
    BY <2>2, NothingInOrder
  <2> HIDE DEF offers
  <2> QED BY <1>1, <2>3
<1>3. sessions' = OrElse(DiscoverSessions(machine), DemoSession) /\ machine' = machine
  BY DEF Initialise
<1> HIDE DEF offers
<1>4. ToSet(sessions') = IF offers = {} THEN {DemoSession} ELSE offers
  BY <1>1, <1>2, <1>3, OrElseKeeps
<1> QED BY <1>3, <1>4 DEF FirstFileDecides, OfferSaid, Deciding, offers

-----------------------------------------------------------------------------
(* Characters, one after the other. *)

\* Loops that agree before each turn agree in the end, ...
LEMMA Agree ==
  ASSUME NEW N \in Nat, NEW f, NEW g, f[0] = g[0],
         \A n \in Nat : n < N /\ f[n] = g[n] => f[n + 1] = g[n + 1]
  PROVE  f[N] = g[N]
<1> DEFINE T == {n \in Nat : f[n] = g[n]}
<1>1. T \in SUBSET Nat /\ 0 \in T /\ \A n \in Nat : n \in T /\ n < N => n + 1 \in T
  OBVIOUS
<1> HIDE DEF T
<1>2. N \in 0..N /\ 0..N \subseteq T
  BY <1>1, UpTo
<1> QED BY <1>2 DEF T

\* ... also when one of them had run before.
LEMMA AgreeFrom ==
  ASSUME NEW M \in Nat, NEW N \in Nat, NEW f, NEW g, f[M] = g[0],
         \A n \in Nat : n < N /\ f[M + n] = g[n] => f[(M + n) + 1] = g[n + 1]
  PROVE  f[M + N] = g[N]
<1> DEFINE T == {n \in Nat : f[M + n] = g[n]}
<1>1. T \in SUBSET Nat /\ 0 \in T /\ \A n \in Nat : n \in T /\ n < N => n + 1 \in T
  <2>1. M + 0 = M /\ \A n \in Nat : (M + n) + 1 = M + (n + 1)
    OBVIOUS
  <2> QED BY <2>1
<1> HIDE DEF T
<1>2. N \in 0..N /\ 0..N \subseteq T
  BY <1>1, UpTo
<1> QED BY <1>2 DEF T

\* The states of the loop of parseDesktopExec(), one for each character read.
SplitRun(f, start, text) ==
  /\ f[0] = start
  /\ \A n \in Nat : n < Len(text) => f[n + 1] = SplitChar(f[n], text[n + 1])

\* The loop is the recursion it is written as.
LEMMA SplitLoop ==
  ASSUME NEW start, NEW text, Len(text) \in Nat
  PROVE  \E f : SplitRun(f, start, text) /\ SplitText(start, text) = f[Len(text)]
<1> DEFINE N == Len(text)
           Def(g, n) == [i \in 0..n |-> IF i = 0 THEN start ELSE SplitChar(g[i - 1], text[i])]
           T == {n \in Nat : \E g : g = Def(g, n)}
           f == CHOOSE g : g = Def(g, N)
<1>1. 0 \in T
  <2> DEFINE g == [i \in 0..0 |-> start]
  <2>1. g = Def(g, 0)
    OBVIOUS
  <2> QED BY <2>1
<1>2. ASSUME NEW n \in Nat, n \in T PROVE n + 1 \in T
  <2>1. PICK g : g = Def(g, n)
    BY <1>2
  <2> DEFINE h == [i \in 0..n + 1 |->
                     IF i = n + 1 THEN SplitChar(g[n], text[n + 1]) ELSE g[i]]
  <2>2. ASSUME NEW i \in 0..n + 1 PROVE h[i] = Def(h, n + 1)[i]
    <3>1. CASE i = n + 1
      BY <3>1
    <3>2. CASE i # n + 1
      <4>1. i \in 0..n /\ (i # 0 => i - 1 \in 0..n /\ i - 1 # n + 1 /\ i - 1 \in 0..n + 1)
        BY <3>2
      <4>2. h[i] = g[i] /\ (i # 0 => h[i - 1] = g[i - 1])
        BY <3>2, <4>1
      <4>3. g[i] = IF i = 0 THEN start ELSE SplitChar(g[i - 1], text[i])
        BY <2>1, <4>1
      <4> QED BY <4>2, <4>3
    <3> QED BY <3>1, <3>2
  <2>3. h = Def(h, n + 1)
    BY <2>2
  <2>4. \E longer : longer = Def(longer, n + 1)
    <3> HIDE DEF h
    <3> QED BY <2>3
  <2> QED BY <2>4
<1>3. N \in T
  <2>1. T \in SUBSET Nat
    OBVIOUS
  <2> HIDE DEF T
  <2>2. 0..N \subseteq T
    BY <1>1, <1>2, <2>1, UpTo
  <2> QED BY <2>2
<1>4. f = Def(f, N)
  BY <1>3
<1>5. SplitText(start, text) = f[N]
  BY DEF SplitText
<1> HIDE DEF f
<1>6. f[0] = start
  <2>1. 0 \in 0..N
    OBVIOUS
  <2> QED BY <1>4, <2>1
<1>7. ASSUME NEW n \in Nat, n < N PROVE f[n + 1] = SplitChar(f[n], text[n + 1])
  <2>1. n + 1 \in 0..N /\ n + 1 # 0 /\ (n + 1) - 1 = n
    BY <1>7
  <2> QED BY <1>4, <2>1
<1>8. SplitRun(f, start, text)
  BY <1>6, <1>7 DEF SplitRun
<1> QED BY <1>5, <1>8

\* It reads no character, one, two, or one text after another.
LEMMA SplitNothing ==
  ASSUME NEW start
  PROVE  SplitText(start, <<>>) = start
<1>1. Len(<<>>) = 0 /\ Len(<<>>) \in Nat
  OBVIOUS
<1>2. PICK f : SplitRun(f, start, <<>>) /\ SplitText(start, <<>>) = f[Len(<<>>)]
  BY <1>1, SplitLoop, Zenon
<1> QED BY <1>1, <1>2 DEF SplitRun

LEMMA SplitOne ==
  ASSUME NEW start, NEW c
  PROVE  SplitText(start, <<c>>) = SplitChar(start, c)
<1> DEFINE text == <<c>>
<1>1. Len(text) = 1 /\ Len(text) \in Nat /\ text[0 + 1] = c
  OBVIOUS
<1> HIDE DEF text
<1>2. Len(text) \in Nat
  BY <1>1
<1>3. PICK f : SplitRun(f, start, text) /\ SplitText(start, text) = f[Len(text)]
  BY ONLY <1>2, SplitLoop, Zenon
<1>4. f[0 + 1] = SplitChar(start, c)
  BY <1>1, <1>3 DEF SplitRun
<1> QED BY <1>1, <1>3, <1>4 DEF text

LEMMA SplitTwo ==
  ASSUME NEW start, NEW c, NEW d
  PROVE  SplitText(start, <<c, d>>) = SplitChar(SplitChar(start, c), d)
<1> DEFINE text == <<c, d>>
<1>1. Len(text) = 2 /\ Len(text) \in Nat /\ text[0 + 1] = c /\ text[1 + 1] = d
  OBVIOUS
<1> HIDE DEF text
<1>2. Len(text) \in Nat
  BY <1>1
<1>3. PICK f : SplitRun(f, start, text) /\ SplitText(start, text) = f[Len(text)]
  BY ONLY <1>2, SplitLoop, Zenon
<1>4. f[0 + 1] = SplitChar(start, c) /\ f[1 + 1] = SplitChar(f[1], d)
  BY <1>1, <1>3 DEF SplitRun
<1> QED BY <1>1, <1>3, <1>4 DEF text

LEMMA SplitMore ==
  ASSUME NEW start, NEW K, NEW text \in Seq(K), NEW more \in Seq(K)
  PROVE  SplitText(start, text \o more) = SplitText(SplitText(start, text), more)
<1> DEFINE both == text \o more
           middle == SplitText(start, text)
<1>1. /\ Len(text) \in Nat /\ Len(more) \in Nat /\ Len(both) = Len(text) + Len(more)
      /\ Len(both) \in Nat
      /\ \A n \in Nat : n < Len(text) => both[n + 1] = text[n + 1]
      /\ \A n \in Nat : n < Len(more) => both[(Len(text) + n) + 1] = more[n + 1]
  OBVIOUS
<1> HIDE DEF both, middle
<1>0. Len(text) \in Nat /\ Len(more) \in Nat /\ Len(both) \in Nat
  BY <1>1
<1>2. PICK f : SplitRun(f, start, text) /\ middle = f[Len(text)]
  BY ONLY <1>0, SplitLoop, Zenon DEF middle
<1>3. PICK g : SplitRun(g, middle, more) /\ SplitText(middle, more) = g[Len(more)]
  BY ONLY <1>0, SplitLoop, Zenon
<1>4. PICK h : SplitRun(h, start, both) /\ SplitText(start, both) = h[Len(both)]
  BY ONLY <1>0, SplitLoop, Zenon
<1>5. h[Len(text)] = middle
  <2>1. \A n \in Nat : n < Len(text) /\ h[n] = f[n] => h[n + 1] = f[n + 1]
    <3>1. \A n \in Nat : n < Len(text) => n < Len(both)
      BY <1>1
    <3> QED BY <1>1, <1>2, <1>4, <3>1 DEF SplitRun
  <2>2. h[0] = f[0] /\ Len(text) \in Nat
    BY <1>1, <1>2, <1>4 DEF SplitRun
  <2>3. h[Len(text)] = f[Len(text)]
    BY ONLY <2>1, <2>2, Agree
  <2> QED BY <1>2, <2>3
<1>6. h[Len(text) + Len(more)] = g[Len(more)]
  <2>1. ASSUME NEW n \in Nat, n < Len(more), h[Len(text) + n] = g[n]
        PROVE  h[(Len(text) + n) + 1] = g[n + 1]
    <3>1. Len(text) + n \in Nat /\ Len(text) + n < Len(both)
      BY <1>1, <2>1
    <3>2. h[(Len(text) + n) + 1] = SplitChar(h[Len(text) + n], both[(Len(text) + n) + 1])
      BY <1>4, <3>1 DEF SplitRun
    <3> QED BY <1>1, <1>3, <2>1, <3>2 DEF SplitRun
  <2>2. h[Len(text)] = g[0] /\ Len(text) \in Nat /\ Len(more) \in Nat
    BY <1>1, <1>3, <1>5 DEF SplitRun
  <2>3. \A n \in Nat : n < Len(more) /\ h[Len(text) + n] = g[n] => h[(Len(text) + n) + 1] = g[n + 1]
    BY <2>1
  <2> QED BY ONLY <2>2, <2>3, AgreeFrom
<1> QED BY <1>1, <1>3, <1>4, <1>6 DEF both, middle

\* The states of the loop of decodeDesktopValue(), one for each character read.
DecodeRun(f, list, start, text) ==
  /\ f[0] = start
  /\ \A n \in Nat : n < Len(text) => f[n + 1] = DecodeChar(list, f[n], text[n + 1])

\* The loop is the recursion it is written as.
LEMMA DecodeLoop ==
  ASSUME NEW list, NEW start, NEW text, Len(text) \in Nat
  PROVE  \E f : DecodeRun(f, list, start, text) /\ DecodeText(list, start, text) = f[Len(text)]
<1> DEFINE N == Len(text)
           Def(g, n) == [i \in 0..n |->
                           IF i = 0 THEN start ELSE DecodeChar(list, g[i - 1], text[i])]
           T == {n \in Nat : \E g : g = Def(g, n)}
           f == CHOOSE g : g = Def(g, N)
<1>1. 0 \in T
  <2> DEFINE g == [i \in 0..0 |-> start]
  <2>1. g = Def(g, 0)
    OBVIOUS
  <2> QED BY <2>1
<1>2. ASSUME NEW n \in Nat, n \in T PROVE n + 1 \in T
  <2>1. PICK g : g = Def(g, n)
    BY <1>2
  <2> DEFINE h == [i \in 0..n + 1 |->
                     IF i = n + 1 THEN DecodeChar(list, g[n], text[n + 1]) ELSE g[i]]
  <2>2. ASSUME NEW i \in 0..n + 1 PROVE h[i] = Def(h, n + 1)[i]
    <3>1. CASE i = n + 1
      BY <3>1
    <3>2. CASE i # n + 1
      <4>1. i \in 0..n /\ (i # 0 => i - 1 \in 0..n /\ i - 1 # n + 1 /\ i - 1 \in 0..n + 1)
        BY <3>2
      <4>2. h[i] = g[i] /\ (i # 0 => h[i - 1] = g[i - 1])
        BY <3>2, <4>1
      <4>3. g[i] = IF i = 0 THEN start ELSE DecodeChar(list, g[i - 1], text[i])
        BY <2>1, <4>1
      <4> QED BY <4>2, <4>3
    <3> QED BY <3>1, <3>2
  <2>3. h = Def(h, n + 1)
    BY <2>2
  <2>4. \E longer : longer = Def(longer, n + 1)
    <3> HIDE DEF h
    <3> QED BY <2>3
  <2> QED BY <2>4
<1>3. N \in T
  <2>1. T \in SUBSET Nat
    OBVIOUS
  <2> HIDE DEF T
  <2>2. 0..N \subseteq T
    BY <1>1, <1>2, <2>1, UpTo
  <2> QED BY <2>2
<1>4. f = Def(f, N)
  BY <1>3
<1>5. DecodeText(list, start, text) = f[N]
  BY DEF DecodeText
<1> HIDE DEF f
<1>6. f[0] = start
  <2>1. 0 \in 0..N
    OBVIOUS
  <2> QED BY <1>4, <2>1
<1>7. ASSUME NEW n \in Nat, n < N PROVE f[n + 1] = DecodeChar(list, f[n], text[n + 1])
  <2>1. n + 1 \in 0..N /\ n + 1 # 0 /\ (n + 1) - 1 = n
    BY <1>7
  <2> QED BY <1>4, <2>1
<1>8. DecodeRun(f, list, start, text)
  BY <1>6, <1>7 DEF DecodeRun
<1> QED BY <1>5, <1>8

\* It reads no character, one, two, or one text after another.
LEMMA DecodeNothing ==
  ASSUME NEW list, NEW start
  PROVE  DecodeText(list, start, <<>>) = start
<1>1. Len(<<>>) = 0 /\ Len(<<>>) \in Nat
  OBVIOUS
<1>2. PICK f : DecodeRun(f, list, start, <<>>) /\ DecodeText(list, start, <<>>) = f[Len(<<>>)]
  BY <1>1, DecodeLoop, Zenon
<1> QED BY <1>1, <1>2 DEF DecodeRun

LEMMA DecodeOne ==
  ASSUME NEW list, NEW start, NEW c
  PROVE  DecodeText(list, start, <<c>>) = DecodeChar(list, start, c)
<1> DEFINE text == <<c>>
<1>1. Len(text) = 1 /\ Len(text) \in Nat /\ text[0 + 1] = c
  OBVIOUS
<1> HIDE DEF text
<1>2. Len(text) \in Nat
  BY <1>1
<1>3. PICK f : DecodeRun(f, list, start, text) /\ DecodeText(list, start, text) = f[Len(text)]
  BY ONLY <1>2, DecodeLoop, Zenon
<1>4. f[0 + 1] = DecodeChar(list, start, c)
  BY <1>1, <1>3 DEF DecodeRun
<1> QED BY <1>1, <1>3, <1>4 DEF text

LEMMA DecodeTwo ==
  ASSUME NEW list, NEW start, NEW c, NEW d
  PROVE  DecodeText(list, start, <<c, d>>) = DecodeChar(list, DecodeChar(list, start, c), d)
<1> DEFINE text == <<c, d>>
<1>1. Len(text) = 2 /\ Len(text) \in Nat /\ text[0 + 1] = c /\ text[1 + 1] = d
  OBVIOUS
<1> HIDE DEF text
<1>2. Len(text) \in Nat
  BY <1>1
<1>3. PICK f : DecodeRun(f, list, start, text) /\ DecodeText(list, start, text) = f[Len(text)]
  BY ONLY <1>2, DecodeLoop, Zenon
<1>4. f[0 + 1] = DecodeChar(list, start, c) /\ f[1 + 1] = DecodeChar(list, f[1], d)
  BY <1>1, <1>3 DEF DecodeRun
<1> QED BY <1>1, <1>3, <1>4 DEF text

LEMMA DecodeMore ==
  ASSUME NEW list, NEW start, NEW K, NEW text \in Seq(K), NEW more \in Seq(K)
  PROVE  DecodeText(list, start, text \o more)
           = DecodeText(list, DecodeText(list, start, text), more)
<1> DEFINE both == text \o more
           middle == DecodeText(list, start, text)
<1>1. /\ Len(text) \in Nat /\ Len(more) \in Nat /\ Len(both) = Len(text) + Len(more)
      /\ Len(both) \in Nat
      /\ \A n \in Nat : n < Len(text) => both[n + 1] = text[n + 1]
      /\ \A n \in Nat : n < Len(more) => both[(Len(text) + n) + 1] = more[n + 1]
  OBVIOUS
<1> HIDE DEF both, middle
<1>0. Len(text) \in Nat /\ Len(more) \in Nat /\ Len(both) \in Nat
  BY <1>1
<1>2. PICK f : DecodeRun(f, list, start, text) /\ middle = f[Len(text)]
  BY ONLY <1>0, DecodeLoop, Zenon DEF middle
<1>3. PICK g : DecodeRun(g, list, middle, more) /\ DecodeText(list, middle, more) = g[Len(more)]
  BY ONLY <1>0, DecodeLoop, Zenon
<1>4. PICK h : DecodeRun(h, list, start, both) /\ DecodeText(list, start, both) = h[Len(both)]
  BY ONLY <1>0, DecodeLoop, Zenon
<1>5. h[Len(text)] = middle
  <2>1. \A n \in Nat : n < Len(text) /\ h[n] = f[n] => h[n + 1] = f[n + 1]
    <3>1. \A n \in Nat : n < Len(text) => n < Len(both)
      BY <1>1
    <3> QED BY <1>1, <1>2, <1>4, <3>1 DEF DecodeRun
  <2>2. h[0] = f[0] /\ Len(text) \in Nat
    BY <1>1, <1>2, <1>4 DEF DecodeRun
  <2>3. h[Len(text)] = f[Len(text)]
    BY ONLY <2>1, <2>2, Agree
  <2> QED BY <1>2, <2>3
<1>6. h[Len(text) + Len(more)] = g[Len(more)]
  <2>1. ASSUME NEW n \in Nat, n < Len(more), h[Len(text) + n] = g[n]
        PROVE  h[(Len(text) + n) + 1] = g[n + 1]
    <3>1. Len(text) + n \in Nat /\ Len(text) + n < Len(both)
      BY <1>1, <2>1
    <3>2. h[(Len(text) + n) + 1] = DecodeChar(list, h[Len(text) + n], both[(Len(text) + n) + 1])
      BY <1>4, <3>1 DEF DecodeRun
    <3> QED BY <1>1, <1>3, <2>1, <3>2 DEF DecodeRun
  <2>2. h[Len(text)] = g[0] /\ Len(text) \in Nat /\ Len(more) \in Nat
    BY <1>1, <1>3, <1>5 DEF DecodeRun
  <2>3. \A n \in Nat : n < Len(more) /\ h[Len(text) + n] = g[n] => h[(Len(text) + n) + 1] = g[n + 1]
    BY <2>1
  <2> QED BY ONLY <2>2, <2>3, AgreeFrom
<1> QED BY <1>1, <1>3, <1>4, <1>6 DEF both, middle

\* The states of the loop of expandExecWords() over a word, one for each character read.
ExpandRun(f, name, file, start, text) ==
  /\ f[0] = start
  /\ \A n \in Nat : n < Len(text) => f[n + 1] = ExpandChar(name, file, f[n], text[n + 1])

\* The loop is the recursion it is written as.
LEMMA ExpandLoop ==
  ASSUME NEW name, NEW file, NEW start, NEW text, Len(text) \in Nat
  PROVE  \E f : ExpandRun(f, name, file, start, text)
           /\ ExpandText(name, file, start, text) = f[Len(text)]
<1> DEFINE N == Len(text)
           Def(g, n) == [i \in 0..n |->
                           IF i = 0 THEN start ELSE ExpandChar(name, file, g[i - 1], text[i])]
           T == {n \in Nat : \E g : g = Def(g, n)}
           f == CHOOSE g : g = Def(g, N)
<1>1. 0 \in T
  <2> DEFINE g == [i \in 0..0 |-> start]
  <2>1. g = Def(g, 0)
    OBVIOUS
  <2> QED BY <2>1
<1>2. ASSUME NEW n \in Nat, n \in T PROVE n + 1 \in T
  <2>1. PICK g : g = Def(g, n)
    BY <1>2
  <2> DEFINE h == [i \in 0..n + 1 |->
                     IF i = n + 1 THEN ExpandChar(name, file, g[n], text[n + 1]) ELSE g[i]]
  <2>2. ASSUME NEW i \in 0..n + 1 PROVE h[i] = Def(h, n + 1)[i]
    <3>1. CASE i = n + 1
      BY <3>1
    <3>2. CASE i # n + 1
      <4>1. i \in 0..n /\ (i # 0 => i - 1 \in 0..n /\ i - 1 # n + 1 /\ i - 1 \in 0..n + 1)
        BY <3>2
      <4>2. h[i] = g[i] /\ (i # 0 => h[i - 1] = g[i - 1])
        BY <3>2, <4>1
      <4>3. g[i] = IF i = 0 THEN start ELSE ExpandChar(name, file, g[i - 1], text[i])
        BY <2>1, <4>1
      <4> QED BY <4>2, <4>3
    <3> QED BY <3>1, <3>2
  <2>3. h = Def(h, n + 1)
    BY <2>2
  <2>4. \E longer : longer = Def(longer, n + 1)
    <3> HIDE DEF h
    <3> QED BY <2>3
  <2> QED BY <2>4
<1>3. N \in T
  <2>1. T \in SUBSET Nat
    OBVIOUS
  <2> HIDE DEF T
  <2>2. 0..N \subseteq T
    BY <1>1, <1>2, <2>1, UpTo
  <2> QED BY <2>2
<1>4. f = Def(f, N)
  BY <1>3
<1>5. ExpandText(name, file, start, text) = f[N]
  BY DEF ExpandText
<1> HIDE DEF f
<1>6. f[0] = start
  <2>1. 0 \in 0..N
    OBVIOUS
  <2> QED BY <1>4, <2>1
<1>7. ASSUME NEW n \in Nat, n < N PROVE f[n + 1] = ExpandChar(name, file, f[n], text[n + 1])
  <2>1. n + 1 \in 0..N /\ n + 1 # 0 /\ (n + 1) - 1 = n
    BY <1>7
  <2> QED BY <1>4, <2>1
<1>8. ExpandRun(f, name, file, start, text)
  BY <1>6, <1>7 DEF ExpandRun
<1> QED BY <1>5, <1>8

\* It reads no character, one, two, or one text after another.
LEMMA ExpandNothing ==
  ASSUME NEW name, NEW file, NEW start
  PROVE  ExpandText(name, file, start, <<>>) = start
<1>1. Len(<<>>) = 0 /\ Len(<<>>) \in Nat
  OBVIOUS
<1>2. PICK f : ExpandRun(f, name, file, start, <<>>)
                 /\ ExpandText(name, file, start, <<>>) = f[Len(<<>>)]
  BY <1>1, ExpandLoop, Zenon
<1> QED BY <1>1, <1>2 DEF ExpandRun

LEMMA ExpandOne ==
  ASSUME NEW name, NEW file, NEW start, NEW c
  PROVE  ExpandText(name, file, start, <<c>>) = ExpandChar(name, file, start, c)
<1> DEFINE text == <<c>>
<1>1. Len(text) = 1 /\ Len(text) \in Nat /\ text[0 + 1] = c
  OBVIOUS
<1> HIDE DEF text
<1>2. Len(text) \in Nat
  BY <1>1
<1>3. PICK f : ExpandRun(f, name, file, start, text)
                 /\ ExpandText(name, file, start, text) = f[Len(text)]
  BY ONLY <1>2, ExpandLoop, Zenon
<1>4. f[0 + 1] = ExpandChar(name, file, start, c)
  BY <1>1, <1>3 DEF ExpandRun
<1> QED BY <1>1, <1>3, <1>4 DEF text

LEMMA ExpandTwo ==
  ASSUME NEW name, NEW file, NEW start, NEW c, NEW d
  PROVE  ExpandText(name, file, start, <<c, d>>)
           = ExpandChar(name, file, ExpandChar(name, file, start, c), d)
<1> DEFINE text == <<c, d>>
<1>1. Len(text) = 2 /\ Len(text) \in Nat /\ text[0 + 1] = c /\ text[1 + 1] = d
  OBVIOUS
<1> HIDE DEF text
<1>2. Len(text) \in Nat
  BY <1>1
<1>3. PICK f : ExpandRun(f, name, file, start, text)
                 /\ ExpandText(name, file, start, text) = f[Len(text)]
  BY ONLY <1>2, ExpandLoop, Zenon
<1>4. f[0 + 1] = ExpandChar(name, file, start, c) /\ f[1 + 1] = ExpandChar(name, file, f[1], d)
  BY <1>1, <1>3 DEF ExpandRun
<1> QED BY <1>1, <1>3, <1>4 DEF text

LEMMA ExpandMore ==
  ASSUME NEW name, NEW file, NEW start, NEW K, NEW text \in Seq(K), NEW more \in Seq(K)
  PROVE  ExpandText(name, file, start, text \o more)
           = ExpandText(name, file, ExpandText(name, file, start, text), more)
<1> DEFINE both == text \o more
           middle == ExpandText(name, file, start, text)
<1>1. /\ Len(text) \in Nat /\ Len(more) \in Nat /\ Len(both) = Len(text) + Len(more)
      /\ Len(both) \in Nat
      /\ \A n \in Nat : n < Len(text) => both[n + 1] = text[n + 1]
      /\ \A n \in Nat : n < Len(more) => both[(Len(text) + n) + 1] = more[n + 1]
  OBVIOUS
<1> HIDE DEF both, middle
<1>0. Len(text) \in Nat /\ Len(more) \in Nat /\ Len(both) \in Nat
  BY <1>1
<1>2. PICK f : ExpandRun(f, name, file, start, text) /\ middle = f[Len(text)]
  BY ONLY <1>0, ExpandLoop, Zenon DEF middle
<1>3. PICK g : ExpandRun(g, name, file, middle, more)
                 /\ ExpandText(name, file, middle, more) = g[Len(more)]
  BY ONLY <1>0, ExpandLoop, Zenon
<1>4. PICK h : ExpandRun(h, name, file, start, both)
                 /\ ExpandText(name, file, start, both) = h[Len(both)]
  BY ONLY <1>0, ExpandLoop, Zenon
<1>5. h[Len(text)] = middle
  <2>1. \A n \in Nat : n < Len(text) /\ h[n] = f[n] => h[n + 1] = f[n + 1]
    <3>1. \A n \in Nat : n < Len(text) => n < Len(both)
      BY <1>1
    <3> QED BY <1>1, <1>2, <1>4, <3>1 DEF ExpandRun
  <2>2. h[0] = f[0] /\ Len(text) \in Nat
    BY <1>1, <1>2, <1>4 DEF ExpandRun
  <2>3. h[Len(text)] = f[Len(text)]
    BY ONLY <2>1, <2>2, Agree
  <2> QED BY <1>2, <2>3
<1>6. h[Len(text) + Len(more)] = g[Len(more)]
  <2>1. ASSUME NEW n \in Nat, n < Len(more), h[Len(text) + n] = g[n]
        PROVE  h[(Len(text) + n) + 1] = g[n + 1]
    <3>1. Len(text) + n \in Nat /\ Len(text) + n < Len(both)
      BY <1>1, <2>1
    <3>2. h[(Len(text) + n) + 1]
            = ExpandChar(name, file, h[Len(text) + n], both[(Len(text) + n) + 1])
      BY <1>4, <3>1 DEF ExpandRun
    <3> QED BY <1>1, <1>3, <2>1, <3>2 DEF ExpandRun
  <2>2. h[Len(text)] = g[0] /\ Len(text) \in Nat /\ Len(more) \in Nat
    BY <1>1, <1>3, <1>5 DEF ExpandRun
  <2>3. \A n \in Nat : n < Len(more) /\ h[Len(text) + n] = g[n] => h[(Len(text) + n) + 1] = g[n + 1]
    BY <2>1
  <2> QED BY ONLY <2>2, <2>3, AgreeFrom
<1> QED BY <1>1, <1>3, <1>4, <1>6 DEF both, middle

-----------------------------------------------------------------------------
(* Words, put together and taken apart again. *)

\* The first elements of a sequence.
Pre(s, n) == [i \in 1..n |-> s[i]]

\* They grow by the next one, from none to all.
LEMMA PreGrows ==
  ASSUME NEW K, NEW s \in Seq(K)
  PROVE  /\ Pre(s, 0) = <<>> /\ Pre(s, Len(s)) = s
         /\ \A n \in 0..Len(s) : Pre(s, n) \in Seq(K)
         /\ \A n \in Nat : n < Len(s) => Pre(s, n + 1) = Append(Pre(s, n), s[n + 1])
<1>1. Len(s) \in Nat /\ s = [i \in 1..Len(s) |-> s[i]] /\ \A i \in 1..Len(s) : s[i] \in K
  OBVIOUS
<1>2. Pre(s, 0) = <<>> /\ Pre(s, Len(s)) = s
  BY <1>1 DEF Pre
<1>3. ASSUME NEW n \in 0..Len(s)
      PROVE  Pre(s, n) \in Seq(K) /\ Len(Pre(s, n)) = n /\ \A i \in 1..n : Pre(s, n)[i] = s[i]
  <2>1. \A i \in 1..n : i \in 1..Len(s)
    BY <1>1
  <2> QED BY <1>1, <2>1 DEF Pre
<1>4. ASSUME NEW n \in Nat, n < Len(s) PROVE Pre(s, n + 1) = Append(Pre(s, n), s[n + 1])
  <2>1. n \in 0..Len(s) /\ n + 1 \in 0..Len(s) /\ n + 1 \in 1..Len(s)
    BY <1>1, <1>4
  <2>2. s[n + 1] \in K
    BY <1>1, <2>1
  <2> DEFINE more == Append(Pre(s, n), s[n + 1])
  <2>3. more \in Seq(K) /\ Len(more) = n + 1 /\ \A i \in 1..n + 1 : more[i] = s[i]
    BY <1>3, <2>1, <2>2
  <2>4. Pre(s, n + 1) \in Seq(K) /\ Len(Pre(s, n + 1)) = n + 1
          /\ \A i \in 1..n + 1 : Pre(s, n + 1)[i] = s[i]
    BY <1>3, <2>1
  <2> QED BY <2>3, <2>4
<1> QED BY <1>2, <1>3, <1>4

\* Sequences are put together one after the other.
LEMMA FlatLoop ==
  ASSUME NEW K, NEW s \in Seq(Seq(K))
  PROVE  \E f : /\ f[0] = <<>> /\ FlattenSeq(s) = f[Len(s)]
                /\ \A n \in Nat : n < Len(s) => f[n + 1] = f[n] \o s[n + 1]
                /\ \A n \in 0..Len(s) : f[n] \in Seq(K)
<1> DEFINE N == Len(s)
           Def(g, n) == [i \in 1..n |-> IF i = 1 THEN s[i] ELSE g[i - 1] \o s[i]]
           T == {n \in Nat : \E g : g = Def(g, n)}
           flat == CHOOSE g : g = Def(g, N)
           f == [n \in 0..N |-> IF n = 0 THEN <<>> ELSE flat[n]]
           B == {n \in Nat : n <= N => f[n] \in Seq(K)}
<1>0. N \in Nat /\ \A i \in 1..N : s[i] \in Seq(K)
  OBVIOUS
<1>1. 0 \in T
  <2> DEFINE g == [i \in 1..0 |-> <<>>]
  <2>1. g = Def(g, 0)
    OBVIOUS
  <2> QED BY <2>1
<1>2. ASSUME NEW n \in Nat, n \in T PROVE n + 1 \in T
  <2>1. PICK g : g = Def(g, n)
    BY <1>2
  <2> DEFINE h == [i \in 1..n + 1 |->
                     IF i # n + 1 THEN g[i] ELSE IF i = 1 THEN s[i] ELSE g[i - 1] \o s[i]]
  <2>2. ASSUME NEW i \in 1..n + 1 PROVE h[i] = Def(h, n + 1)[i]
    <3>1. CASE i = n + 1
      <4>1. i # 1 => i - 1 \in 1..n + 1 /\ i - 1 # n + 1
        BY <3>1
      <4> QED BY <3>1, <4>1
    <3>2. CASE i # n + 1
      <4>1. i \in 1..n /\ (i # 1 => i - 1 \in 1..n /\ i - 1 # n + 1 /\ i - 1 \in 1..n + 1)
        BY <3>2
      <4>2. h[i] = g[i] /\ (i # 1 => h[i - 1] = g[i - 1])
        BY <3>2, <4>1
      <4>3. g[i] = IF i = 1 THEN s[i] ELSE g[i - 1] \o s[i]
        BY <2>1, <4>1
      <4> QED BY <4>2, <4>3
    <3> QED BY <3>1, <3>2
  <2>3. h = Def(h, n + 1)
    BY <2>2
  <2> HIDE DEF h
  <2>4. \E longer : longer = Def(longer, n + 1)
    BY <2>3
  <2>5. n + 1 \in Nat
    OBVIOUS
  <2> QED BY <2>4, <2>5
<1>3. N \in T
  <2>1. T \in SUBSET Nat
    OBVIOUS
  <2> HIDE DEF T
  <2>2. 0..N \subseteq T
    BY <1>0, <1>1, <1>2, <2>1, UpTo
  <2> QED BY <1>0, <2>2
<1>4. flat = Def(flat, N)
  BY <1>3
<1>5. FlattenSeq(s) = IF N = 0 THEN s ELSE flat[N]
  BY DEF FlattenSeq
<1> HIDE DEF flat
<1>6. f[0] = <<>> /\ FlattenSeq(s) = f[N]
  BY <1>0, <1>5
<1>7. ASSUME NEW n \in Nat, n < N, f[n] \in Seq(K)
      PROVE  f[n + 1] = f[n] \o s[n + 1] /\ f[n + 1] \in Seq(K)
  <2>1. n + 1 \in 1..N /\ n + 1 \in 0..N /\ n \in 0..N /\ (n + 1) - 1 = n /\ n + 1 # 0
    BY <1>0, <1>7
  <2>2. f[n + 1] = flat[n + 1] /\ s[n + 1] \in Seq(K)
    BY <1>0, <2>1
  <2>3. CASE n = 0
    <3>1. flat[n + 1] = s[n + 1] /\ f[n] = <<>>
      BY <1>4, <2>1, <2>3
    <3> QED BY <2>2, <3>1
  <2>4. CASE n # 0
    <3>1. n + 1 # 1 /\ f[n] = flat[n]
      BY <2>1, <2>4
    <3>2. flat[n + 1] = flat[(n + 1) - 1] \o s[n + 1]
      BY <1>4, <2>1, <3>1
    <3>3. flat[n + 1] = f[n] \o s[n + 1]
      BY <2>1, <3>1, <3>2
    <3> HIDE DEF f
    <3> QED BY <1>7, <2>2, <3>3
  <2> QED BY <2>3, <2>4
<1>8. \A n \in 0..N : f[n] \in Seq(K)
  <2>1. B \in SUBSET Nat
    OBVIOUS
  <2>2. 0 \in B
    BY <1>6
  <2>3. ASSUME NEW n \in Nat, n \in B, n < N PROVE n + 1 \in B
    <3> HIDE DEF f
    <3>1. f[n] \in Seq(K)
      BY <1>0, <2>3
    <3>2. f[n + 1] \in Seq(K)
      BY ONLY <1>7, <2>3, <3>1
    <3>3. n + 1 \in Nat
      OBVIOUS
    <3> QED BY <3>2, <3>3
  <2>4. 0..N \subseteq B
    <3> HIDE DEF B
    <3> QED BY <1>0, <2>1, <2>2, <2>3, UpTo
  <2> HIDE DEF f
  <2> QED BY <1>0, <2>4
<1> HIDE DEF f
<1>9. ASSUME NEW n \in Nat, n < N PROVE f[n + 1] = f[n] \o s[n + 1]
  <2>1. n \in 0..N
    BY <1>0, <1>9
  <2>2. f[n] \in Seq(K)
    BY <1>8, <2>1
  <2> QED BY <1>7, <1>9, <2>2
<1> QED BY <1>6, <1>8, <1>9

\* One element each: they are put next to each other.
LEMMA FlatSingles ==
  ASSUME NEW K, NEW s \in Seq(K)
  PROVE  FlattenSeq([i \in DOMAIN s |-> <<s[i]>>]) = s
<1> DEFINE t == [i \in DOMAIN s |-> <<s[i]>>]
<1>1. /\ t \in Seq(Seq(K)) /\ Len(t) = Len(s) /\ Len(s) \in Nat
      /\ \A n \in Nat : n < Len(s) => t[n + 1] = <<s[n + 1]>> /\ s[n + 1] \in K
  <2>1. Len(s) \in Nat /\ DOMAIN s = 1..Len(s) /\ \A i \in 1..Len(s) : s[i] \in K
    OBVIOUS
  <2>2. \A i \in 1..Len(s) : <<s[i]>> \in Seq(K)
    BY <2>1
  <2>3. t \in Seq(Seq(K)) /\ Len(t) = Len(s)
    BY <2>1, <2>2
  <2>4. \A n \in Nat : n < Len(s) => n + 1 \in 1..Len(s)
    BY <2>1
  <2> QED BY <2>1, <2>3, <2>4
<1> HIDE DEF t
<1>2. PICK f : /\ f[0] = <<>> /\ FlattenSeq(t) = f[Len(t)]
               /\ \A n \in Nat : n < Len(t) => f[n + 1] = f[n] \o t[n + 1]
               /\ \A n \in 0..Len(t) : f[n] \in Seq(K)
  BY <1>1, FlatLoop
<1> DEFINE p == [n \in 0..Len(s) |-> Pre(s, n)]
<1>3. \A n \in 0..Len(s) : p[n] = Pre(s, n)
  OBVIOUS
<1>4. ASSUME NEW n \in Nat, n < Len(s), f[n] = p[n] PROVE f[n + 1] = p[n + 1]
  <2>1. n \in 0..Len(s) /\ n + 1 \in 0..Len(s)
    BY <1>1, <1>4
  <2>2. Pre(s, n + 1) = Append(Pre(s, n), s[n + 1]) /\ Pre(s, n) \in Seq(K)
    BY <1>4, <2>1, PreGrows
  <2>3. f[n + 1] = Pre(s, n) \o <<s[n + 1]>>
    BY <1>1, <1>2, <1>3, <1>4, <2>1
  <2>4. Pre(s, n) \o <<s[n + 1]>> = Append(Pre(s, n), s[n + 1])
    BY <1>1, <1>4, <2>2
  <2> QED BY <1>3, <2>1, <2>2, <2>3, <2>4
<1>5. f[0] = p[0] /\ p[Len(s)] = s
  BY <1>1, <1>2, <1>3, PreGrows
<1> HIDE DEF p
<1>6. f[Len(s)] = p[Len(s)]
  <2>1. Len(s) \in Nat /\ f[0] = p[0]
    BY <1>1, <1>5
  <2>2. \A n \in Nat : n < Len(s) /\ f[n] = p[n] => f[n + 1] = p[n + 1]
    BY <1>4
  <2> QED BY ONLY <2>1, <2>2, Agree
<1> QED BY <1>1, <1>2, <1>5, <1>6 DEF t

\* No two signs are the same.
LEMMA Signs ==
  /\ Backslash \notin {"%", "%c", "s", "n", "t", "r", Quote} /\ Backslash \notin Spaces
  /\ Quote \notin {"%", "%c"} /\ Quote \notin Spaces
  /\ "%" \notin Spaces /\ "c" \notin Spaces /\ {"%", "c"} \cap {Quote, Backslash} = {}
<1>1. Backslash # Quote /\ Backslash \notin Spaces
  BY DEF Backslash, Quote, Spaces
<1>2. Backslash \notin {"%", "%c", "c", "s", "n", "t", "r"}
  BY DEF Backslash
<1>3. Quote \notin {"%", "%c", "c"} /\ Quote \notin Spaces
  BY DEF Quote, Spaces
<1>4. "%" \notin Spaces /\ "c" \notin Spaces
  BY DEF Spaces
<1> QED BY <1>1, <1>2, <1>3, <1>4

\* What is doubled for readDesktopEntry() ...
Doubled(c) == IF c = Backslash THEN <<c, c>> ELSE <<c>>
Decoder(word, escape) == [words |-> <<>>, word |-> word, escape |-> escape, bad |-> FALSE]
Decoding(word) == Decoder(word, FALSE)

LEMMA DecoderFields ==
  ASSUME NEW word, NEW escape
  PROVE  Decoder(word, escape).word = word /\ Decoder(word, escape).escape = escape
<1>1. ASSUME NEW none, NEW bad, NEW d,
             d = [words |-> none, word |-> word, escape |-> escape, bad |-> bad]
      PROVE  d.word = word /\ d.escape = escape
  BY <1>1
<1> QED BY <1>1, Zenon DEF Decoder

LEMMA DecoderEscape ==
  ASSUME NEW word, NEW escape, NEW x
  PROVE  [Decoder(word, escape) EXCEPT !.escape = x] = Decoder(word, x)
<1>1. ASSUME NEW none, NEW bad, NEW d,
             d = [words |-> none, word |-> word, escape |-> escape, bad |-> bad]
      PROVE  [d EXCEPT !.escape = x] = [words |-> none, word |-> word, escape |-> x, bad |-> bad]
  BY <1>1
<1> QED BY <1>1, Zenon DEF Decoder

LEMMA DecoderWord ==
  ASSUME NEW word, NEW escape, NEW x
  PROVE  [Decoder(word, escape) EXCEPT !.word = x] = Decoder(x, escape)
<1>1. ASSUME NEW none, NEW bad, NEW d,
             d = [words |-> none, word |-> word, escape |-> escape, bad |-> bad]
      PROVE  [d EXCEPT !.word = x] = [words |-> none, word |-> x, escape |-> escape, bad |-> bad]
  BY <1>1
<1> QED BY <1>1, Zenon DEF Decoder

\* ... is single again.
LEMMA DecodeDoubled ==
  ASSUME NEW list, ~list, NEW c, NEW word
  PROVE  DecodeText(list, Decoding(word), Doubled(c)) = Decoding(Append(word, c))
<1>1. /\ Decoding(word).word = word /\ ~Decoding(word).escape
      /\ [Decoding(word) EXCEPT !.escape = TRUE] = Decoder(word, TRUE)
      /\ [Decoding(word) EXCEPT !.word = Append(word, c)] = Decoding(Append(word, c))
  <2>1. Decoding(word).escape = FALSE /\ Decoding(word).word = word
    BY DecoderFields, Zenon DEF Decoding
  <2>2. [Decoding(word) EXCEPT !.escape = TRUE] = Decoder(word, TRUE)
    <3>1. [Decoder(word, FALSE) EXCEPT !.escape = TRUE] = Decoder(word, TRUE)
      BY DecoderEscape, Zenon
    <3> QED BY <3>1, Zenon DEF Decoding
  <2>3. [Decoding(word) EXCEPT !.word = Append(word, c)] = Decoding(Append(word, c))
    <3>1. [Decoder(word, FALSE) EXCEPT !.word = Append(word, c)] = Decoder(Append(word, c), FALSE)
      BY DecoderWord, Zenon
    <3> QED BY <3>1, Zenon DEF Decoding
  <2> QED BY <2>1, <2>2, <2>3
<1>2. CASE c = Backslash
  <2>1. DecodeChar(list, Decoding(word), c) = Decoder(word, TRUE)
    BY <1>1, <1>2 DEF DecodeChar
  <2>2. c \in DOMAIN Escapes /\ Escapes[c] = c
    BY <1>2, Signs DEF Escapes
  <2>3. Decoder(word, TRUE).escape /\ [Decoder(word, TRUE) EXCEPT !.escape = FALSE] = Decoding(word)
    <3>1. Decoder(word, TRUE).escape = TRUE
      BY DecoderFields, Zenon
    <3>2. [Decoder(word, TRUE) EXCEPT !.escape = FALSE] = Decoding(word)
      BY DecoderEscape, Zenon DEF Decoding
    <3> QED BY <3>1, <3>2
  <2>4. DecodeChar(list, Decoder(word, TRUE), c) = Decoding(Append(word, c))
    BY <1>1, <2>2, <2>3 DEF DecodeChar
  <2>5. Doubled(c) = <<c, c>>
    BY <1>2 DEF Doubled
  <2>6. DecodeText(list, Decoding(word), <<c, c>>)
          = DecodeChar(list, DecodeChar(list, Decoding(word), c), c)
    BY DecodeTwo
  <2> QED BY <2>1, <2>4, <2>5, <2>6
<1>3. CASE c # Backslash
  <2>1. DecodeChar(list, Decoding(word), c) = Decoding(Append(word, c))
    BY <1>1, <1>3 DEF DecodeChar
  <2>2. Doubled(c) = <<c>>
    BY <1>3 DEF Doubled
  <2> QED BY <2>1, <2>2, DecodeOne
<1> QED BY <1>2, <1>3

\* What splitting leaves of a character that was written between quotes.
Kept(c) == CASE c = "%" -> <<"%", "%">> [] c = "%c" -> <<"%", "c">> [] OTHER -> <<c>>
Splitting(words, word) == [words |-> words, word |-> word, quoted |-> FALSE, escaped |-> FALSE]
Quoting(words, word) == [words |-> words, word |-> word, quoted |-> TRUE, escaped |-> FALSE]

LEMMA SplitWrittenChar ==
  ASSUME NEW K, {"%", "c", Backslash} \subseteq K, NEW c \in K, NEW words, NEW word \in Seq(K)
  PROVE  /\ Kept(c) \in Seq(K) /\ WrittenChar(c) \in Seq(K)
         /\ SplitText(Quoting(words, word), WrittenChar(c)) = Quoting(words, word \o Kept(c))
<1> DEFINE start == Quoting(words, word)
<1>1. CASE c = "%" \/ c = "%c"
  <2> DEFINE e == IF c = "%" THEN "%" ELSE "c"
             next == Quoting(words, Append(word, "%"))
  <2>1. Kept(c) = <<"%", e>> /\ WrittenChar(c) = <<"%", e>> /\ e \in {"%", "c"}
    BY <1>1, Signs DEF Kept, WrittenChar, Reserved
  <2> HIDE DEF e
  <2>2. SplitChar(start, "%") = next
    BY Signs DEF SplitChar, Quoting
  <2>3. SplitChar(next, e) = Quoting(words, Append(Append(word, "%"), e))
    BY <2>1, Signs DEF SplitChar, Quoting
  <2>4. Append(Append(word, "%"), e) = word \o Kept(c) /\ Kept(c) \in Seq(K)
          /\ WrittenChar(c) \in Seq(K)
    BY <2>1
  <2> HIDE DEF start, next
  <2>5. SplitText(start, <<"%", e>>) = SplitChar(SplitChar(start, "%"), e)
    BY SplitTwo
  <2>6. Quoting(words, Append(Append(word, "%"), e)) = Quoting(words, word \o Kept(c))
    BY <2>4
  <2> QED BY <2>1, <2>2, <2>3, <2>4, <2>5, <2>6 DEF start
<1>2. CASE c \in Reserved
  <2> DEFINE next == [words |-> words, word |-> word, quoted |-> TRUE, escaped |-> TRUE]
  <2>1. Kept(c) = <<c>> /\ WrittenChar(c) = <<Backslash, c>>
    BY <1>2, Signs DEF Kept, WrittenChar, Reserved
  <2>2. SplitChar(start, Backslash) = next
    BY Signs DEF SplitChar, Quoting
  <2>3. SplitChar(next, c) = Quoting(words, Append(word, c))
    BY DEF SplitChar, Quoting
  <2>4. Append(word, c) = word \o Kept(c) /\ Kept(c) \in Seq(K) /\ WrittenChar(c) \in Seq(K)
    BY <2>1
  <2> HIDE DEF start, next
  <2>5. SplitText(start, <<Backslash, c>>) = SplitChar(SplitChar(start, Backslash), c)
    BY SplitTwo
  <2>6. Quoting(words, Append(word, c)) = Quoting(words, word \o Kept(c))
    BY <2>4
  <2> QED BY <2>1, <2>2, <2>3, <2>4, <2>5, <2>6 DEF start
<1>3. CASE c \notin {"%", "%c"} \cup Reserved
  <2>1. Kept(c) = <<c>> /\ WrittenChar(c) = <<c>>
    BY <1>3 DEF Kept, WrittenChar
  <2>2. SplitChar(start, c) = Quoting(words, Append(word, c))
    BY <1>3 DEF SplitChar, Quoting, Reserved
  <2>3. Append(word, c) = word \o Kept(c) /\ Kept(c) \in Seq(K) /\ WrittenChar(c) \in Seq(K)
    BY <2>1
  <2> QED BY <2>1, <2>2, <2>3, SplitOne
<1> QED BY <1>1, <1>2, <1>3

\* What it expands to.
Stood(name, c) == IF c = "%c" THEN name ELSE <<c>>
Expanding(token, out) == [token |-> token, out |-> out, code |-> FALSE, bad |-> FALSE]

LEMMA ExpandKept ==
  ASSUME NEW K, {"%", "c"} \subseteq K, NEW c \in K, NEW name \in Seq(K), NEW file,
         NEW token, NEW out \in Seq(K)
  PROVE  /\ Stood(name, c) \in Seq(K)
         /\ ExpandText(name, file, Expanding(token, out), Kept(c))
              = Expanding(token, out \o Stood(name, c))
<1> DEFINE start == Expanding(token, out)
<1>1. CASE c = "%" \/ c = "%c"
  <2> DEFINE e == IF c = "%" THEN "%" ELSE "c"
             next == [token |-> token, out |-> out, code |-> TRUE, bad |-> FALSE]
  <2>1. Kept(c) = <<"%", e>> /\ e \in {"%", "c"}
    BY <1>1 DEF Kept
  <2>2. Expansion(e, name, file) = Stood(name, c) /\ Stood(name, c) \in Seq(K)
    BY <1>1 DEF Expansion, Stood
  <2> HIDE DEF e
  <2>3. ExpandChar(name, file, start, "%") = next
    BY DEF ExpandChar, Expanding
  <2>4. ExpandChar(name, file, next, e) = Expanding(token, out \o Expansion(e, name, file))
    BY <2>1 DEF ExpandChar, Expanding
  <2> HIDE DEF start, next
  <2>5. ExpandText(name, file, start, <<"%", e>>)
          = ExpandChar(name, file, ExpandChar(name, file, start, "%"), e)
    BY ExpandTwo
  <2> QED BY <2>1, <2>2, <2>3, <2>4, <2>5 DEF start
<1>2. CASE c \notin {"%", "%c"}
  <2>1. Kept(c) = <<c>> /\ Stood(name, c) = <<c>> /\ Stood(name, c) \in Seq(K)
    BY <1>2 DEF Kept, Stood
  <2>2. ExpandChar(name, file, start, c) = Expanding(token, Append(out, c))
    BY <1>2 DEF ExpandChar, Expanding
  <2>3. Append(out, c) = out \o Stood(name, c)
    BY <2>1
  <2> QED BY <2>1, <2>2, <2>3, ExpandOne
<1> QED BY <1>1, <1>2

\* A sequence of what each element of another is turned into.
LEMMA Mapped ==
  ASSUME NEW L, NEW t \in Seq(L), NEW M, NEW s, s = [i \in DOMAIN t |-> s[i]],
         \A i \in DOMAIN t : s[i] \in M
  PROVE  /\ s \in Seq(M) /\ Len(s) = Len(t) /\ Len(t) \in Nat
         /\ \A n \in Nat : n < Len(t) => n + 1 \in DOMAIN t /\ t[n + 1] \in L
<1>1. Len(t) \in Nat /\ DOMAIN t = 1..Len(t) /\ \A i \in 1..Len(t) : t[i] \in L
  OBVIOUS
<1>2. s \in Seq(M) /\ Len(s) = Len(t)
  BY <1>1
<1>3. \A n \in Nat : n < Len(t) => n + 1 \in 1..Len(t)
  BY <1>1
<1> QED BY <1>1, <1>2, <1>3

\* A text that was doubled is read as it was.
LEMMA DecodeAll ==
  ASSUME NEW list, ~list, NEW K, NEW t \in Seq(K)
  PROVE  DecodeText(list, Decoding(<<>>), FlattenSeq([i \in DOMAIN t |-> Doubled(t[i])]))
           = Decoding(t)
<1> DEFINE s == [i \in DOMAIN t |-> Doubled(t[i])]
<1>1. /\ s \in Seq(Seq(K)) /\ Len(s) = Len(t) /\ Len(t) \in Nat
      /\ \A n \in Nat : n < Len(t) => n + 1 \in DOMAIN t /\ t[n + 1] \in K
  <2>1. \A i \in DOMAIN t : t[i] \in K
    OBVIOUS
  <2>2. \A i \in DOMAIN t : s[i] \in Seq(K)
    BY <2>1 DEF Doubled
  <2>3. s = [i \in DOMAIN t |-> s[i]]
    OBVIOUS
  <2> HIDE DEF s
  <2> QED BY <2>2, <2>3, Mapped
<1>2. \A n \in Nat : n < Len(t) => s[n + 1] = Doubled(t[n + 1])
  BY <1>1
<1> HIDE DEF s
<1>3. PICK f : /\ f[0] = <<>> /\ FlattenSeq(s) = f[Len(s)]
               /\ \A n \in Nat : n < Len(s) => f[n + 1] = f[n] \o s[n + 1]
               /\ \A n \in 0..Len(s) : f[n] \in Seq(K)
  BY <1>1, FlatLoop
<1> DEFINE F == [n \in 0..Len(t) |-> DecodeText(list, Decoding(<<>>), f[n])]
           G == [n \in 0..Len(t) |-> Decoding(Pre(t, n))]
<1>4. ASSUME NEW n \in Nat, n < Len(t), F[n] = G[n] PROVE F[n + 1] = G[n + 1]
  <2>1. n \in 0..Len(t) /\ n + 1 \in 0..Len(t)
    BY <1>1, <1>4
  <2>2. f[n + 1] = f[n] \o Doubled(t[n + 1]) /\ f[n] \in Seq(K) /\ Doubled(t[n + 1]) \in Seq(K)
    <3>1. n + 1 \in 1..Len(s) /\ s[n + 1] \in Seq(K)
      BY <1>1, <1>4
    <3> QED BY <1>1, <1>2, <1>3, <1>4, <2>1, <3>1
  <2>3. DecodeText(list, Decoding(<<>>), f[n] \o Doubled(t[n + 1]))
          = DecodeText(list, DecodeText(list, Decoding(<<>>), f[n]), Doubled(t[n + 1]))
    BY <2>2, DecodeMore
  <2>4. DecodeText(list, Decoding(<<>>), f[n]) = Decoding(Pre(t, n))
    BY <1>4, <2>1
  <2>5. DecodeText(list, Decoding(Pre(t, n)), Doubled(t[n + 1]))
          = Decoding(Append(Pre(t, n), t[n + 1]))
    BY DecodeDoubled
  <2>6. Append(Pre(t, n), t[n + 1]) = Pre(t, n + 1)
    BY <1>4, PreGrows
  <2>7. F[n + 1] = DecodeText(list, Decoding(<<>>), f[n + 1]) /\ G[n + 1] = Decoding(Pre(t, n + 1))
    BY <2>1
  <2> HIDE DEF F, G
  <2> QED BY <2>2, <2>3, <2>4, <2>5, <2>6, <2>7
<1>5. F[0] = G[0] /\ Len(t) \in Nat
  <2>1. F[0] = Decoding(<<>>) /\ G[0] = Decoding(<<>>)
    BY <1>1, <1>3, DecodeNothing, PreGrows
  <2> QED BY <1>1, <2>1
<1>6. F[Len(t)] = DecodeText(list, Decoding(<<>>), f[Len(t)]) /\ G[Len(t)] = Decoding(t)
  BY <1>1, PreGrows
<1> HIDE DEF F, G
<1>7. F[Len(t)] = G[Len(t)]
  BY ONLY <1>4, <1>5, Agree
<1> QED BY <1>1, <1>3, <1>6, <1>7 DEF s

KeptText(a) == FlattenSeq([i \in DOMAIN a |-> Kept(a[i])])
StoodText(name, a) == FlattenSeq([i \in DOMAIN a |-> Stood(name, a[i])])

\* An argument between its quotes.
LEMMA SplitAll ==
  ASSUME NEW K, {"%", "c", Backslash} \subseteq K, NEW t \in Seq(K), NEW words
  PROVE  /\ MapChars(WrittenChar, t) \in Seq(K) /\ KeptText(t) \in Seq(K)
         /\ SplitText(Quoting(words, <<>>), MapChars(WrittenChar, t))
              = Quoting(words, KeptText(t))
<1> DEFINE s == [i \in DOMAIN t |-> WrittenChar(t[i])]
           u == [i \in DOMAIN t |-> Kept(t[i])]
           start == Quoting(words, <<>>)
<1>1. /\ s \in Seq(Seq(K)) /\ u \in Seq(Seq(K)) /\ Len(s) = Len(t) /\ Len(u) = Len(t)
           /\ Len(t) \in Nat
      /\ \A n \in Nat : n < Len(t) => n + 1 \in DOMAIN t /\ t[n + 1] \in K
  <2>1. \A i \in DOMAIN t : t[i] \in K
    OBVIOUS
  <2>2. <<>> \in Seq(K)
    OBVIOUS
  <2>3. \A i \in DOMAIN t : s[i] \in Seq(K) /\ u[i] \in Seq(K)
    BY <2>1, <2>2, SplitWrittenChar
  <2>4. s = [i \in DOMAIN t |-> s[i]] /\ u = [i \in DOMAIN t |-> u[i]]
    OBVIOUS
  <2> HIDE DEF s, u
  <2>5. s \in Seq(Seq(K)) /\ Len(s) = Len(t)
    BY <2>3, <2>4, Mapped
  <2>6. u \in Seq(Seq(K)) /\ Len(u) = Len(t)
    BY <2>3, <2>4, Mapped
  <2>7. Len(t) \in Nat /\ \A n \in Nat : n < Len(t) => n + 1 \in DOMAIN t /\ t[n + 1] \in K
    BY <2>3, <2>4, Mapped
  <2> QED BY <2>5, <2>6, <2>7
<1>2. \A n \in Nat : n < Len(t) => s[n + 1] = WrittenChar(t[n + 1]) /\ u[n + 1] = Kept(t[n + 1])
  BY <1>1
<1>3. MapChars(WrittenChar, t) = FlattenSeq(s) /\ KeptText(t) = FlattenSeq(u)
  BY DEF MapChars, KeptText
<1> HIDE DEF s, u
<1>4. PICK f : /\ f[0] = <<>> /\ FlattenSeq(s) = f[Len(s)]
               /\ \A n \in Nat : n < Len(s) => f[n + 1] = f[n] \o s[n + 1]
               /\ \A n \in 0..Len(s) : f[n] \in Seq(K)
  BY <1>1, FlatLoop
<1>5. PICK k : /\ k[0] = <<>> /\ FlattenSeq(u) = k[Len(u)]
               /\ \A n \in Nat : n < Len(u) => k[n + 1] = k[n] \o u[n + 1]
               /\ \A n \in 0..Len(u) : k[n] \in Seq(K)
  BY <1>1, FlatLoop
<1> DEFINE F == [n \in 0..Len(t) |-> SplitText(start, f[n])]
           G == [n \in 0..Len(t) |-> Quoting(words, k[n])]
<1> HIDE DEF start
<1>6. ASSUME NEW n \in Nat, n < Len(t), F[n] = G[n] PROVE F[n + 1] = G[n + 1]
  <2>1. n \in 0..Len(t) /\ n + 1 \in 0..Len(t) /\ t[n + 1] \in K
    BY <1>1, <1>6
  <2>2. /\ f[n + 1] = f[n] \o WrittenChar(t[n + 1]) /\ f[n] \in Seq(K)
        /\ k[n + 1] = k[n] \o Kept(t[n + 1]) /\ k[n] \in Seq(K)
    BY <1>1, <1>2, <1>4, <1>5, <1>6, <2>1
  <2>3. /\ WrittenChar(t[n + 1]) \in Seq(K)
        /\ SplitText(Quoting(words, k[n]), WrittenChar(t[n + 1]))
             = Quoting(words, k[n] \o Kept(t[n + 1]))
    BY <2>1, <2>2, SplitWrittenChar
  <2>4. SplitText(start, f[n] \o WrittenChar(t[n + 1]))
          = SplitText(SplitText(start, f[n]), WrittenChar(t[n + 1]))
    BY <2>2, <2>3, SplitMore
  <2>5. SplitText(start, f[n]) = Quoting(words, k[n])
    BY <1>6, <2>1
  <2>6. F[n + 1] = SplitText(start, f[n + 1]) /\ G[n + 1] = Quoting(words, k[n + 1])
    BY <2>1
  <2> HIDE DEF F, G
  <2> QED BY <2>2, <2>3, <2>4, <2>5, <2>6
<1>7. F[0] = G[0] /\ Len(t) \in Nat
  <2>1. 0 \in 0..Len(t)
    BY <1>1
  <2>2. F[0] = SplitText(start, <<>>) /\ G[0] = Quoting(words, <<>>)
    BY <1>4, <1>5, <2>1
  <2>3. SplitText(start, <<>>) = start
    BY SplitNothing
  <2>4. F[0] = G[0]
    BY <2>2, <2>3 DEF start
  <2> QED BY <1>1, <2>4
<1>8. F[Len(t)] = SplitText(start, f[Len(t)]) /\ G[Len(t)] = Quoting(words, k[Len(t)])
  BY <1>1
<1> HIDE DEF F, G
<1>9. F[Len(t)] = G[Len(t)]
  BY ONLY <1>6, <1>7, Agree
<1>10. f[Len(t)] \in Seq(K) /\ k[Len(t)] \in Seq(K)
  BY <1>1, <1>4, <1>5
<1> QED BY <1>1, <1>3, <1>4, <1>5, <1>8, <1>9, <1>10 DEF start

\* What it expands to.
LEMMA ExpandAll ==
  ASSUME NEW K, {"%", "c"} \subseteq K, NEW t \in Seq(K), NEW name \in Seq(K), NEW file, NEW token
  PROVE  /\ StoodText(name, t) \in Seq(K)
         /\ ExpandText(name, file, Expanding(token, <<>>), KeptText(t))
              = Expanding(token, StoodText(name, t))
<1> DEFINE s == [i \in DOMAIN t |-> Kept(t[i])]
           u == [i \in DOMAIN t |-> Stood(name, t[i])]
           start == Expanding(token, <<>>)
<1>1. /\ s \in Seq(Seq(K)) /\ u \in Seq(Seq(K)) /\ Len(s) = Len(t) /\ Len(u) = Len(t)
           /\ Len(t) \in Nat
      /\ \A n \in Nat : n < Len(t) => n + 1 \in DOMAIN t /\ t[n + 1] \in K
  <2>1. \A i \in DOMAIN t : t[i] \in K
    OBVIOUS
  <2>2. \A c \in K : Kept(c) \in Seq(K) /\ Stood(name, c) \in Seq(K)
    BY DEF Kept, Stood
  <2>3. \A i \in DOMAIN t : s[i] \in Seq(K) /\ u[i] \in Seq(K)
    BY <2>1, <2>2
  <2>4. s = [i \in DOMAIN t |-> s[i]] /\ u = [i \in DOMAIN t |-> u[i]]
    OBVIOUS
  <2> HIDE DEF s, u
  <2>5. s \in Seq(Seq(K)) /\ Len(s) = Len(t)
    BY <2>3, <2>4, Mapped
  <2>6. u \in Seq(Seq(K)) /\ Len(u) = Len(t)
    BY <2>3, <2>4, Mapped
  <2>7. Len(t) \in Nat /\ \A n \in Nat : n < Len(t) => n + 1 \in DOMAIN t /\ t[n + 1] \in K
    BY <2>3, <2>4, Mapped
  <2> QED BY <2>5, <2>6, <2>7
<1>2. \A n \in Nat : n < Len(t) => s[n + 1] = Kept(t[n + 1]) /\ u[n + 1] = Stood(name, t[n + 1])
  BY <1>1
<1>3. KeptText(t) = FlattenSeq(s) /\ StoodText(name, t) = FlattenSeq(u)
  BY DEF KeptText, StoodText
<1> HIDE DEF s, u
<1>4. PICK f : /\ f[0] = <<>> /\ FlattenSeq(s) = f[Len(s)]
               /\ \A n \in Nat : n < Len(s) => f[n + 1] = f[n] \o s[n + 1]
               /\ \A n \in 0..Len(s) : f[n] \in Seq(K)
  BY <1>1, FlatLoop
<1>5. PICK k : /\ k[0] = <<>> /\ FlattenSeq(u) = k[Len(u)]
               /\ \A n \in Nat : n < Len(u) => k[n + 1] = k[n] \o u[n + 1]
               /\ \A n \in 0..Len(u) : k[n] \in Seq(K)
  BY <1>1, FlatLoop
<1> DEFINE F == [n \in 0..Len(t) |-> ExpandText(name, file, start, f[n])]
           G == [n \in 0..Len(t) |-> Expanding(token, k[n])]
<1> HIDE DEF start
<1>6. ASSUME NEW n \in Nat, n < Len(t), F[n] = G[n] PROVE F[n + 1] = G[n + 1]
  <2>1. n \in 0..Len(t) /\ n + 1 \in 0..Len(t) /\ t[n + 1] \in K
    BY <1>1, <1>6
  <2>2. /\ f[n + 1] = f[n] \o Kept(t[n + 1]) /\ f[n] \in Seq(K) /\ Kept(t[n + 1]) \in Seq(K)
        /\ k[n + 1] = k[n] \o Stood(name, t[n + 1]) /\ k[n] \in Seq(K)
    <3>1. n + 1 \in 1..Len(s) /\ s[n + 1] \in Seq(K)
      BY <1>1, <1>6
    <3> QED BY <1>1, <1>2, <1>4, <1>5, <1>6, <2>1, <3>1
  <2>3. ExpandText(name, file, Expanding(token, k[n]), Kept(t[n + 1]))
          = Expanding(token, k[n] \o Stood(name, t[n + 1]))
    BY <2>1, <2>2, ExpandKept
  <2>4. ExpandText(name, file, start, f[n] \o Kept(t[n + 1]))
          = ExpandText(name, file, ExpandText(name, file, start, f[n]), Kept(t[n + 1]))
    BY <2>2, ExpandMore
  <2>5. ExpandText(name, file, start, f[n]) = Expanding(token, k[n])
    BY <1>6, <2>1
  <2>6. F[n + 1] = ExpandText(name, file, start, f[n + 1]) /\ G[n + 1] = Expanding(token, k[n + 1])
    BY <2>1
  <2> HIDE DEF F, G
  <2> QED BY <2>2, <2>3, <2>4, <2>5, <2>6
<1>7. F[0] = G[0] /\ Len(t) \in Nat
  <2>1. F[0] = start /\ G[0] = start
    BY <1>1, <1>4, <1>5, ExpandNothing DEF start
  <2> QED BY <1>1, <2>1
<1>8. F[Len(t)] = ExpandText(name, file, start, f[Len(t)])
        /\ G[Len(t)] = Expanding(token, k[Len(t)])
  BY <1>1
<1> HIDE DEF F, G
<1>9. F[Len(t)] = G[Len(t)]
  BY ONLY <1>6, <1>7, Agree
<1>10. k[Len(t)] \in Seq(K)
  BY <1>1, <1>5
<1> QED BY <1>1, <1>3, <1>4, <1>5, <1>8, <1>9, <1>10 DEF start

\* An argument that is not empty, in an entry that has a name, means something, ...
LEMMA StoodIsSomething ==
  ASSUME NEW K, NEW t \in Seq(K), t # <<>>, NEW name \in Seq(K), name # <<>>
  PROVE  StoodText(name, t) # <<>>
<1> DEFINE u == [i \in DOMAIN t |-> Stood(name, t[i])]
<1>1. /\ u \in Seq(Seq(K)) /\ Len(u) = Len(t) /\ Len(t) \in Nat \ {0}
      /\ \A n \in Nat : n < Len(t) => n + 1 \in DOMAIN t /\ t[n + 1] \in K
  <2>1. (\A i \in DOMAIN t : t[i] \in K) /\ Len(t) # 0
    OBVIOUS
  <2>2. \A i \in DOMAIN t : u[i] \in Seq(K)
    BY <2>1 DEF Stood
  <2>3. u = [i \in DOMAIN t |-> u[i]]
    OBVIOUS
  <2> HIDE DEF u
  <2> QED BY <2>1, <2>2, <2>3, Mapped
<1>2. \A n \in Nat : n < Len(t) => u[n + 1] = Stood(name, t[n + 1])
  BY <1>1
<1>3. StoodText(name, t) = FlattenSeq(u)
  BY DEF StoodText
<1> HIDE DEF u
<1>4. PICK k : /\ k[0] = <<>> /\ FlattenSeq(u) = k[Len(u)]
               /\ \A n \in Nat : n < Len(u) => k[n + 1] = k[n] \o u[n + 1]
               /\ \A n \in 0..Len(u) : k[n] \in Seq(K)
  BY <1>1, FlatLoop
<1>5. PICK n \in Nat : n < Len(t) /\ Len(t) = n + 1 /\ n \in 0..Len(t)
  <2>1. Len(t) - 1 \in Nat /\ Len(t) - 1 < Len(t) /\ Len(t) = (Len(t) - 1) + 1
          /\ Len(t) - 1 \in 0..Len(t)
    BY <1>1
  <2> QED BY <2>1
<1>6. k[n + 1] = k[n] \o Stood(name, t[n + 1]) /\ k[n] \in Seq(K)
  BY <1>1, <1>2, <1>4, <1>5
<1>7. Stood(name, t[n + 1]) \in Seq(K) /\ Stood(name, t[n + 1]) # <<>>
  <2>1. t[n + 1] \in K
    BY <1>1, <1>5
  <2> QED BY <2>1 DEF Stood
<1>8. k[n] \o Stood(name, t[n + 1]) # <<>>
  BY <1>6, <1>7
<1> QED BY <1>1, <1>3, <1>4, <1>5, <1>6, <1>8

\* ... so that something is kept of it, and it is not taken for the icon.
LEMMA KeptIsSomething ==
  ASSUME NEW K, {"%", "c"} \subseteq K, NEW t \in Seq(K), t # <<>>,
         NEW name \in Seq(K), name # <<>>, NEW file
  PROVE  KeptText(t) \notin {<<>>, <<"%", "i">>}
<1> DEFINE word == KeptText(t)
           start == Expanding(word, <<>>)
<1>1. ExpandText(name, file, start, word) = Expanding(word, StoodText(name, t))
  BY ExpandAll
<1>2. Expanding(word, StoodText(name, t)) # start
  <2>1. start.out = <<>> /\ Expanding(word, StoodText(name, t)).out = StoodText(name, t)
    BY DEF Expanding
  <2> QED BY <2>1, StoodIsSomething
<1>3. CASE word = <<>>
  <2>1. ExpandText(name, file, start, <<>>) = start
    BY ExpandNothing
  <2> QED BY <1>1, <1>2, <1>3, <2>1
<1>4. CASE word = <<"%", "i">>
  <2> DEFINE next == [token |-> word, out |-> <<>>, code |-> TRUE, bad |-> FALSE]
  <2>1. ExpandChar(name, file, start, "%") = next
    BY DEF ExpandChar, Expanding
  <2>2. ExpandChar(name, file, next, "i") = start
    BY <1>4 DEF ExpandChar, Expanding
  <2> HIDE DEF start, next, word
  <2>3. ExpandText(name, file, start, <<"%", "i">>)
          = ExpandChar(name, file, ExpandChar(name, file, start, "%"), "i")
    BY ExpandTwo
  <2> QED BY <1>1, <1>2, <1>4, <2>1, <2>2, <2>3
<1> QED BY <1>3, <1>4

\* The word of an argument expands to what was meant.
LEMMA ExpandWordIs ==
  ASSUME NEW K, {"%", "c"} \subseteq K, NEW t \in Seq(K), t # <<>>,
         NEW name \in Seq(K), name # <<>>, NEW file, NEW icon
  PROVE  LET e == ExpandWord(KeptText(t), name, file, icon)
         IN ~e.bad /\ e.arguments = <<StoodText(name, t)>>
<1> DEFINE word == KeptText(t)
           e == ExpandText(name, file, Expanding(word, <<>>), word)
<1>1. ~e.bad /\ ~e.code /\ e.out = StoodText(name, t)
  <2>1. e = Expanding(word, StoodText(name, t))
    BY ExpandAll
  <2> QED BY <2>1 DEF Expanding
<1>2. e.out # <<>> /\ word # <<"%", "i">>
  BY <1>1, StoodIsSomething, KeptIsSomething
<1>3. ExpandWord(word, name, file, icon)
        = [bad |-> e.bad \/ e.code,
           arguments |-> IF word = <<"%", "i">> /\ icon # <<>> THEN << <<"--icon">>, icon >>
                         ELSE IF e.out # <<>> THEN <<e.out>> ELSE <<>>]
  BY DEF ExpandWord, Expanding
<1> HIDE DEF e, word
<1>4. /\ ExpandWord(word, name, file, icon).bad = (e.bad \/ e.code)
      /\ ExpandWord(word, name, file, icon).arguments = <<e.out>>
  BY <1>2, <1>3
<1> QED BY <1>1, <1>4 DEF word

Blank == " "

\* A whole argument, with its quotes and the blank after it.
LEMMA SplitArgument ==
  ASSUME NEW K, {"%", "c", Backslash, Quote, Blank} \subseteq K, NEW t \in Seq(K),
         KeptText(t) # <<>>, NEW words
  PROVE  /\ WrittenArgument(t) \in Seq(K)
         /\ SplitText(Splitting(words, <<>>), WrittenArgument(t))
              = Splitting(Append(words, KeptText(t)), <<>>)
<1> DEFINE inner == MapChars(WrittenChar, t)
           open == <<Quote>>
           close == <<Quote, Blank>>
           before == Splitting(words, <<>>)
           within == Quoting(words, KeptText(t))
<1>1. inner \in Seq(K) /\ SplitText(Quoting(words, <<>>), inner) = within
  BY SplitAll
<1>2. open \in Seq(K) /\ close \in Seq(K)
  <2>1. Quote \in K /\ Blank \in K
    OBVIOUS
  <2> QED BY <2>1
<1>3. SplitChar(before, Quote) = Quoting(words, <<>>)
  BY Signs DEF SplitChar, Splitting, Quoting
<1>4. SplitChar(within, Quote) = Splitting(words, KeptText(t))
  BY Signs DEF SplitChar, Splitting, Quoting
<1>5. SplitChar(Splitting(words, KeptText(t)), Blank) = Splitting(Append(words, KeptText(t)), <<>>)
  <2>1. Blank \in Spaces /\ Blank # Backslash /\ Blank # Quote
    BY DEF Blank, Spaces, Backslash, Quote
  <2>2. EndWord(Splitting(words, KeptText(t))) = Splitting(Append(words, KeptText(t)), <<>>)
    BY DEF EndWord, Splitting
  <2>3. ~Splitting(words, KeptText(t)).quoted /\ ~Splitting(words, KeptText(t)).escaped
    BY DEF Splitting
  <2> QED BY <2>1, <2>2, <2>3 DEF SplitChar
<1>6. WrittenArgument(t) = (open \o inner) \o close
  BY DEF WrittenArgument, Blank
<1> HIDE DEF inner, before, within
<1>7. SplitText(before, open) = Quoting(words, <<>>)
  BY <1>3, SplitOne
<1>8. SplitText(within, close) = Splitting(Append(words, KeptText(t)), <<>>)
  <2>1. SplitText(within, <<Quote, Blank>>) = SplitChar(SplitChar(within, Quote), Blank)
    BY SplitTwo
  <2> QED BY <1>4, <1>5, <2>1
<1> HIDE DEF open, close
<1>9. open \o inner \in Seq(K)
  BY <1>1, <1>2
<1> DEFINE begun == open \o inner
<1>10. SplitText(before, begun) = within
  <2>1. SplitText(before, open \o inner) = SplitText(SplitText(before, open), inner)
    BY <1>1, <1>2, SplitMore
  <2> QED BY <1>1, <1>7, <2>1
<1> HIDE DEF begun
<1>11. begun \o close \in Seq(K) /\ begun \in Seq(K)
  <2>1. begun \in Seq(K)
    BY <1>9 DEF begun
  <2> QED BY <1>2, <2>1
<1>12. SplitText(before, begun \o close) = SplitText(within, close)
  <2>1. SplitText(before, begun \o close) = SplitText(SplitText(before, begun), close)
    BY <1>2, <1>11, SplitMore
  <2> QED BY <1>10, <2>1
<1> QED BY <1>6, <1>8, <1>11, <1>12 DEF before, begun

\* All of them, one after the other.
LEMMA SplitArguments ==
  ASSUME NEW K, {"%", "c", Backslash, Quote, Blank} \subseteq K, NEW args \in Seq(Seq(K)),
         \A i \in DOMAIN args : KeptText(args[i]) # <<>>
  PROVE  LET text == FlattenSeq([i \in DOMAIN args |-> WrittenArgument(args[i])])
         IN /\ text \in Seq(K)
            /\ SplitText(Splitting(<<>>, <<>>), text)
                 = Splitting([i \in DOMAIN args |-> KeptText(args[i])], <<>>)
<1> DEFINE s == [i \in DOMAIN args |-> WrittenArgument(args[i])]
           u == [i \in DOMAIN args |-> KeptText(args[i])]
           start == Splitting(<<>>, <<>>)
<1>1. /\ s \in Seq(Seq(K)) /\ u \in Seq(Seq(K)) /\ Len(s) = Len(args) /\ Len(u) = Len(args)
      /\ Len(args) \in Nat
      /\ \A n \in Nat : n < Len(args) => n + 1 \in DOMAIN args /\ args[n + 1] \in Seq(K)
  <2>1. \A i \in DOMAIN args : args[i] \in Seq(K)
    OBVIOUS
  <2>2. \A i \in DOMAIN args : s[i] \in Seq(K)
    BY <2>1, SplitArgument
  <2>3. \A i \in DOMAIN args : u[i] \in Seq(K)
    BY <2>1, SplitAll
  <2>4. s = [i \in DOMAIN args |-> s[i]] /\ u = [i \in DOMAIN args |-> u[i]]
    OBVIOUS
  <2> HIDE DEF s, u
  <2>5. s \in Seq(Seq(K)) /\ Len(s) = Len(args)
    <3> DEFINE M == Seq(K)
    <3>1. args \in Seq(M) /\ \A i \in DOMAIN args : s[i] \in M
      BY <2>2
    <3> HIDE DEF M
    <3>2. s \in Seq(M) /\ Len(s) = Len(args)
      BY <2>4, <3>1, Mapped
    <3> QED BY <3>2 DEF M
  <2>6. u \in Seq(Seq(K)) /\ Len(u) = Len(args)
    <3> DEFINE M == Seq(K)
    <3>1. args \in Seq(M) /\ \A i \in DOMAIN args : u[i] \in M
      BY <2>3
    <3> HIDE DEF M
    <3>2. u \in Seq(M) /\ Len(u) = Len(args)
      BY <2>4, <3>1, Mapped
    <3> QED BY <3>2 DEF M
  <2>7. Len(args) \in Nat /\ \A n \in Nat : n < Len(args) => n + 1 \in DOMAIN args
          /\ args[n + 1] \in Seq(K)
    BY <2>3, <2>4, Mapped
  <2> QED BY <2>5, <2>6, <2>7
<1>2. \A n \in Nat : n < Len(args) => s[n + 1] = WrittenArgument(args[n + 1])
        /\ u[n + 1] = KeptText(args[n + 1])
  BY <1>1
<1> HIDE DEF s, u, start
<1>3. PICK f : /\ f[0] = <<>> /\ FlattenSeq(s) = f[Len(s)]
               /\ \A n \in Nat : n < Len(s) => f[n + 1] = f[n] \o s[n + 1]
               /\ \A n \in 0..Len(s) : f[n] \in Seq(K)
  BY <1>1, FlatLoop
<1> DEFINE F == [n \in 0..Len(args) |-> SplitText(start, f[n])]
           G == [n \in 0..Len(args) |-> Splitting(Pre(u, n), <<>>)]
<1>4. ASSUME NEW n \in Nat, n < Len(args), F[n] = G[n] PROVE F[n + 1] = G[n + 1]
  <2>1. n \in 0..Len(args) /\ n + 1 \in 0..Len(args) /\ args[n + 1] \in Seq(K)
          /\ KeptText(args[n + 1]) # <<>>
    <3>1. n + 1 \in DOMAIN args /\ args[n + 1] \in Seq(K)
      BY <1>1, <1>4
    <3>2. KeptText(args[n + 1]) # <<>>
      BY <3>1
    <3>3. n \in 0..Len(args) /\ n + 1 \in 0..Len(args)
      BY <1>1, <1>4
    <3> QED BY <3>1, <3>2, <3>3
  <2>2. f[n + 1] = f[n] \o WrittenArgument(args[n + 1]) /\ f[n] \in Seq(K)
    BY <1>1, <1>2, <1>3, <1>4, <2>1
  <2>3. /\ WrittenArgument(args[n + 1]) \in Seq(K)
        /\ SplitText(Splitting(Pre(u, n), <<>>), WrittenArgument(args[n + 1]))
             = Splitting(Append(Pre(u, n), KeptText(args[n + 1])), <<>>)
    BY <2>1, SplitArgument
  <2>4. SplitText(start, f[n] \o WrittenArgument(args[n + 1]))
          = SplitText(SplitText(start, f[n]), WrittenArgument(args[n + 1]))
    BY <2>2, <2>3, SplitMore
  <2>5. SplitText(start, f[n]) = Splitting(Pre(u, n), <<>>)
    BY <1>4, <2>1
  <2>6. Append(Pre(u, n), KeptText(args[n + 1])) = Pre(u, n + 1)
    <3>1. Pre(u, n + 1) = Append(Pre(u, n), u[n + 1])
      BY <1>1, <1>4, PreGrows
    <3> QED BY <1>2, <1>4, <3>1
  <2>7. F[n + 1] = SplitText(start, f[n + 1]) /\ G[n + 1] = Splitting(Pre(u, n + 1), <<>>)
    BY <2>1
  <2> HIDE DEF F, G
  <2> QED BY <2>2, <2>3, <2>4, <2>5, <2>6, <2>7
<1>5. F[0] = G[0] /\ Len(args) \in Nat
  <2>1. 0 \in 0..Len(args)
    BY <1>1
  <2>2. F[0] = SplitText(start, <<>>) /\ G[0] = Splitting(<<>>, <<>>)
    <3>1. Pre(u, 0) = <<>>
      BY <1>1, PreGrows
    <3> QED BY <1>3, <2>1, <3>1
  <2>3. SplitText(start, <<>>) = start
    BY SplitNothing
  <2>4. F[0] = G[0]
    BY <2>2, <2>3 DEF start
  <2> QED BY <1>1, <2>4
<1>6. F[Len(args)] = SplitText(start, f[Len(args)]) /\ G[Len(args)] = Splitting(u, <<>>)
  <2>1. Pre(u, Len(args)) = u
    BY <1>1, PreGrows
  <2> QED BY <1>1, <2>1
<1> HIDE DEF F, G
<1>7. F[Len(args)] = G[Len(args)]
  BY ONLY <1>4, <1>5, Agree
<1>8. f[Len(args)] \in Seq(K)
  BY <1>1, <1>3
<1> QED BY <1>1, <1>3, <1>6, <1>7, <1>8 DEF start, s, u

\* An argument vector, written by the rules and parsed, is what was meant.
LEMMA ParseWritten ==
  ASSUME NEW K, {"%", "c", Backslash, Quote, Blank} \subseteq K,
         NEW args \in Seq(Seq(K)), \A i \in DOMAIN args : args[i] # <<>>,
         NEW name \in Seq(K), name # <<>>, NEW file, NEW icon
  PROVE  ParseExec(FlattenSeq([i \in DOMAIN args |-> WrittenArgument(args[i])]), name, file, icon)
           = Meant(args, name)
<1> DEFINE text == FlattenSeq([i \in DOMAIN args |-> WrittenArgument(args[i])])
           words == [i \in DOMAIN args |-> KeptText(args[i])]
           meant == [i \in DOMAIN args |-> StoodText(name, args[i])]
           s == EndWord(SplitText(Splitting(<<>>, <<>>), text))
           expanded == [i \in DOMAIN s.words |-> ExpandWord(s.words[i], name, file, icon)]
<1>1. \A i \in DOMAIN args : args[i] \in Seq(K)
  OBVIOUS
<1>2. \A i \in DOMAIN args : KeptText(args[i]) # <<>>
  BY <1>1, KeptIsSomething
<1>3. s = Splitting(words, <<>>)
  <2>1. SplitText(Splitting(<<>>, <<>>), text) = Splitting(words, <<>>)
    BY <1>2, SplitArguments
  <2>2. EndWord(Splitting(words, <<>>)) = Splitting(words, <<>>)
    BY DEF EndWord, Splitting
  <2> QED BY <2>1, <2>2
<1>4. s.words = words /\ ~s.quoted /\ ~s.escaped
  BY <1>3 DEF Splitting
<1>5. ParseExec(text, name, file, icon)
        = IF s.quoted \/ s.escaped \/ \E i \in DOMAIN expanded : expanded[i].bad THEN <<>>
          ELSE FlattenSeq([i \in DOMAIN expanded |-> expanded[i].arguments])
  BY DEF ParseExec, Splitting
<1> HIDE DEF text, s
<1>6. DOMAIN expanded = DOMAIN args
  BY <1>4
<1>7. \A i \in DOMAIN args : ~expanded[i].bad /\ expanded[i].arguments = <<meant[i]>>
  <2> SUFFICES ASSUME NEW i \in DOMAIN args
               PROVE  ~expanded[i].bad /\ expanded[i].arguments = <<meant[i]>>
    OBVIOUS
  <2>1. expanded[i] = ExpandWord(KeptText(args[i]), name, file, icon)
          /\ meant[i] = StoodText(name, args[i])
    BY <1>4
  <2> QED BY <1>1, <2>1, ExpandWordIs
<1> HIDE DEF expanded
<1>8. meant \in Seq(Seq(K)) /\ DOMAIN meant = DOMAIN args
  <2>1. \A i \in DOMAIN args : meant[i] \in Seq(K)
    BY <1>1, ExpandAll
  <2>2. meant = [i \in DOMAIN args |-> meant[i]]
    OBVIOUS
  <2>3. DOMAIN meant = DOMAIN args
    OBVIOUS
  <2> HIDE DEF meant
  <2> QED BY <2>1, <2>2, <2>3, Mapped
<1>9. Meant(args, name) = meant
  BY DEF Meant, MapChars, StoodText, Stood
<1> HIDE DEF meant
<1>10. [i \in DOMAIN expanded |-> expanded[i].arguments] = [i \in DOMAIN meant |-> <<meant[i]>>]
  BY <1>6, <1>7, <1>8
<1>11. ~(s.quoted \/ s.escaped \/ \E i \in DOMAIN expanded : expanded[i].bad)
  BY <1>4, <1>6, <1>7
<1> QED BY <1>5, <1>8, <1>9, <1>10, <1>11, FlatSingles DEF text

\* The value it is written as in a file is read as that text.
LEMMA DecodeWritten ==
  ASSUME NEW K, {"%", "c", Backslash, Quote, Blank} \subseteq K,
         NEW args \in Seq(Seq(K)), \A i \in DOMAIN args : KeptText(args[i]) # <<>>,
         NEW list, ~list
  PROVE  Decode(WrittenExec(args), list).words
           = <<FlattenSeq([i \in DOMAIN args |-> WrittenArgument(args[i])])>>
<1> DEFINE text == FlattenSeq([i \in DOMAIN args |-> WrittenArgument(args[i])])
           value == FlattenSeq([i \in DOMAIN text |-> Doubled(text[i])])
<1>1. text \in Seq(K)
  BY SplitArguments
<1>2. WrittenExec(args) = value
  BY DEF WrittenExec, MapChars, Doubled
<1> HIDE DEF text
<1>3. DecodeText(list, Decoding(<<>>), value) = Decoding(text)
  BY <1>1, DecodeAll
<1> HIDE DEF value
<1>4. Decode(value, list).words = Append(Decoding(text).words, Decoding(text).word)
  BY <1>3 DEF Decode, Decoding, Decoder
<1>5. Append(Decoding(text).words, Decoding(text).word) = <<text>>
  BY DEF Decoding, Decoder
<1> QED BY <1>2, <1>4, <1>5 DEF text

\* The file that was written for an argument vector gives a session that runs it.
LEMMA WrittenIsOffered ==
  ASSUME NEW m \in Machines, m.written # <<>>
  PROVE  LET dirs == m.directories
         IN \E s \in UNION {OfferSaid(m, dirs[Deciding(dirs, id)], id) :
                             id \in UNION {DOMAIN dirs[d] : d \in DOMAIN dirs}} :
              s.command = Meant(m.written, s.name)
<1> DEFINE dirs == m.directories
           ids == UNION {DOMAIN dirs[d] : d \in DOMAIN dirs}
           args == m.written
<1>1. /\ args \in Seq(ToSet(args)) /\ \A a \in ToSet(args) : a # <<>> /\ a \in Seq(ToSet(a))
      /\ \E id \in UNION {DOMAIN dir : dir \in ToSet(dirs)} :
           LET file == dirs[Deciding(dirs, id)][id]
               name == Text(Said(file), "Name")
           IN /\ ~Filtered(m, id) /\ WellFormed(file) /\ Offerable(m, Said(file))
              /\ name \in Seq(ToSet(name))
              /\ \E i \in Given(file, "Exec") : file[i].value = WrittenExec(args)
  BY WrittenAssumption
<1>2. PICK id \in ids :
        LET file == dirs[Deciding(dirs, id)][id]
            name == Text(Said(file), "Name")
        IN /\ ~Filtered(m, id) /\ WellFormed(file) /\ Offerable(m, Said(file))
           /\ name \in Seq(ToSet(name))
           /\ \E i \in Given(file, "Exec") : file[i].value = WrittenExec(args)
  BY <1>1 DEF ToSet
<1> DEFINE dir == dirs[Deciding(dirs, id)]
           file == dir[id]
           name == Text(Said(file), "Name")
           icon == Text(Said(file), "Icon")
           exec == FlattenSeq([i \in DOMAIN args |-> WrittenArgument(args[i])])
           used == UNION {ToSet(args[i]) : i \in DOMAIN args}
           signs == {"%", "c", Backslash, Quote, Blank}
           K == used \cup ToSet(name) \cup signs
<1>3. IsFile(file)
  <2>1. /\ dirs \in Seq(ToSet(dirs))
        /\ \A d \in ToSet(dirs) : \A i \in DOMAIN d : IsFile(d[i])
    BY MachinesAssumption
  <2>2. Len(dirs) \in Nat /\ DOMAIN dirs = 1..Len(dirs)
    BY <2>1
  <2>3. Deciding(dirs, id) \in DOMAIN dirs /\ id \in DOMAIN dirs[Deciding(dirs, id)]
    BY <1>2, <2>2, DecidingIs
  <2>4. dirs[Deciding(dirs, id)] \in ToSet(dirs)
    BY <2>3 DEF ToSet
  <2> QED BY <2>1, <2>3, <2>4
<1>4. PICK i \in Given(file, "Exec") : file[i].value = WrittenExec(args)
  BY <1>2
<1>5. /\ ~Filtered(m, id) /\ WellFormed(file) /\ Offerable(m, Said(file))
      /\ name \in Seq(ToSet(name)) /\ name # <<>>
  BY <1>2 DEF Offerable
<1> HIDE DEF file, name
<1>6. Said(file)["Exec"] = Decode(WrittenExec(args), "Exec" \in ListKeys).words
      /\ "Exec" \in DOMAIN Said(file)
  <2>1. "Exec" \in StringKeys \cup ListKeys
    BY DEF StringKeys
  <2>2. Given(file, "Exec") # {} /\ Cardinality(Given(file, "Exec")) <= 1
    BY <1>4, <1>5, <2>1 DEF WellFormed
  <2>3. IsFiniteSet(Given(file, "Exec"))
    <3>1. IsFiniteSet(1..Len(file)) /\ Given(file, "Exec") \in SUBSET (1..Len(file))
      <4>1. Len(file) \in Nat /\ DOMAIN file = 1..Len(file)
        BY <1>3, LineKinds
      <4> QED BY <4>1, FS_Interval DEF Given, InEntry
    <3> QED BY <3>1, FS_Subset
  <2>4. \A x, y \in Given(file, "Exec") : x = y
    BY <2>2, <2>3, AtMostOne
  <2>5. (CHOOSE x \in Given(file, "Exec") : TRUE) = i
    BY <1>4, <2>4
  <2>6. /\ "Exec" \in DOMAIN Said(file)
        /\ Said(file)["Exec"]
             = Decode(file[CHOOSE x \in Given(file, "Exec") : TRUE].value, "Exec" \in ListKeys).words
    BY <2>1, <2>2 DEF Said
  <2> QED BY <1>4, <2>5, <2>6
<1>7. /\ {"%", "c", Backslash, Quote, Blank} \subseteq K
      /\ args \in Seq(Seq(K)) /\ (\A j \in DOMAIN args : args[j] # <<>>) /\ name \in Seq(K)
  <2>1. {"%", "c", Backslash, Quote, Blank} \subseteq K /\ ToSet(name) \subseteq K
        /\ \A j \in DOMAIN args : ToSet(args[j]) \subseteq K
    <3> HIDE DEF args
    <3>1. \A j \in DOMAIN args : ToSet(args[j]) \subseteq UNION {ToSet(args[k]) : k \in DOMAIN args}
      OBVIOUS
    <3>2. used \subseteq K /\ ToSet(name) \subseteq K /\ signs \subseteq K
      <4> HIDE DEF used, signs
      <4> QED OBVIOUS
    <3> HIDE DEF K
    <3> QED BY <3>1, <3>2
  <2> HIDE DEF K
  <2>2. \A j \in DOMAIN args : args[j] \in ToSet(args)
    BY DEF ToSet
  <2>3. \A j \in DOMAIN args : args[j] # <<>> /\ args[j] \in Seq(ToSet(args[j]))
    BY <1>1, <2>2
  <2>4. \A j \in DOMAIN args : args[j] \in Seq(K)
    BY <2>1, <2>3
  <2>5. args \in Seq(Seq(K))
    <3> DEFINE M == Seq(K)
    <3>1. (\A j \in DOMAIN args : args[j] \in M) /\ args = [j \in DOMAIN args |-> args[j]]
      BY <1>1, <2>4
    <3> HIDE DEF M, args
    <3>2. args \in Seq(M)
      BY <1>1, <3>1, Mapped
    <3> QED BY <3>2 DEF M
  <2>6. name \in Seq(K)
    BY <1>5, <2>1
  <2> QED BY <2>1, <2>3, <2>5, <2>6
<1> HIDE DEF K, args
<1>8. Text(Said(file), "Exec") = exec
  <2>1. \A j \in DOMAIN args : KeptText(args[j]) # <<>>
    <3>1. \A j \in DOMAIN args : args[j] \in Seq(K)
      BY <1>7
    <3> QED BY <1>5, <1>7, <3>1, KeptIsSomething
  <2>2. "Exec" \notin ListKeys
    BY DEF ListKeys
  <2>3. Decode(WrittenExec(args), "Exec" \in ListKeys).words = <<exec>>
    BY <1>7, <2>1, <2>2, DecodeWritten
  <2> HIDE DEF exec
  <2>4. Words(Said(file), "Exec") = <<exec>>
    BY <1>6, <2>3 DEF Words
  <2> QED BY <2>4 DEF Text
<1>9. Command(m, Said(file)) = Meant(args, name)
  <2>1. ParseExec(exec, name, <<"path">>, icon) = Meant(args, name)
    BY <1>5, <1>7, ParseWritten
  <2> HIDE DEF exec
  <2> QED BY <1>5, <1>8, <2>1 DEF Command, name
<1>10. Meant(args, name) # <<>>
  <2>1. DOMAIN Meant(args, name) = DOMAIN args
    BY DEF Meant
  <2>2. args # <<>> /\ DOMAIN args = 1..Len(args)
    BY <1>7 DEF args
  <2> QED BY <1>7, <2>1, <2>2
<1> DEFINE s == [id |-> id, name |-> name, command |-> Command(m, Said(file))]
<1>11. s.command = Meant(args, s.name) /\ s.command # <<>>
  BY <1>9, <1>10
<1>12. s \in OfferSaid(m, dir, id)
  BY <1>5, <1>11 DEF OfferSaid, file, name
<1> HIDE DEF s
<1> QED BY <1>2, <1>11, <1>12 DEF args

-----------------------------------------------------------------------------
(* The records, from construction on. *)

\* The records are what the machine gives, until they are used.
RecordsFit ==
  /\ phase = "constructing" => machine \in Machines
  /\ OnlyEligibleAccounts
  /\ FirstFileDecides
  /\ ArgumentsSurvive

\* What FirstFileDecides says of a machine and its list.
SaidBySessions(m, list) ==
  LET dirs == m.directories
      offers == UNION {OfferSaid(m, dirs[Deciding(dirs, id)], id) :
                         id \in UNION {DOMAIN dirs[d] : d \in DOMAIN dirs}}
  IN ToSet(list) = IF offers = {} THEN {DemoSession} ELSE offers

LEMMA FirstFileIsSaid ==
  FirstFileDecides <=> (phase = "created" => SaidBySessions(machine, sessions))
BY DEF FirstFileDecides, SaidBySessions, OfferSaid, Deciding

LEMMA FirstFileIsSaidNext ==
  FirstFileDecides' <=> (phase' = "created" => SaidBySessions(machine', sessions'))
BY DEF FirstFileDecides, SaidBySessions, OfferSaid, Deciding

\* What demo mode lists when it starts includes what was written for it.
LEMMA InitialiseWritten ==
  ASSUME machine \in Machines, Initialise PROVE ArgumentsSurvive'
<1> DEFINE dirs == machine.directories
           offers == UNION {OfferSaid(machine, dirs[Deciding(dirs, id)], id) :
                              id \in UNION {DOMAIN dirs[d] : d \in DOMAIN dirs}}
<1>1. SUFFICES ASSUME machine.written # <<>>
               PROVE  \E s \in ToSet(sessions') : s.command = Meant(machine.written, s.name)
  BY DEF ArgumentsSurvive, Initialise
<1>2. PICK s \in offers : s.command = Meant(machine.written, s.name)
  BY <1>1, WrittenIsOffered
<1>3. ToSet(sessions') = offers
  <2>1. FirstFileDecides' /\ phase' = "created" /\ machine' = machine
    BY InitialiseSessions DEF Initialise
  <2>2. SaidBySessions(machine, sessions')
    BY <2>1, FirstFileIsSaidNext
  <2> QED BY <1>2, <2>2 DEF SaidBySessions
<1> QED BY <1>2, <1>3

LEMMA RecordsFitNext ==
  ASSUME RecordsFit, [DemoNext]_demoVars PROVE RecordsFit'
<1>1. CASE Initialise
  <2>1. machine \in Machines /\ phase' = "created"
    BY <1>1 DEF Initialise, RecordsFit
  <2> QED BY <1>1, <2>1, InitialiseUsers, InitialiseSessions, InitialiseWritten DEF RecordsFit
<1>2. CASE phase' = "running"
  BY <1>2 DEF RecordsFit, OnlyEligibleAccounts, FirstFileDecides, ArgumentsSurvive
<1>3. CASE UNCHANGED recordVars
  <2>1. machine' = machine /\ phase' = phase /\ users' = users /\ sessions' = sessions
    BY <1>3 DEF recordVars
  <2>2. OnlyEligibleAccounts'
    BY <2>1 DEF RecordsFit, OnlyEligibleAccounts, UserNames
  <2>3. FirstFileDecides'
    BY <2>1, FirstFileIsSaid, FirstFileIsSaidNext DEF RecordsFit
  <2>4. ArgumentsSurvive'
    BY <2>1 DEF RecordsFit, ArgumentsSurvive
  <2> QED BY <2>1, <2>2, <2>3, <2>4 DEF RecordsFit
<1>4. Initialise \/ phase' = "running" \/ UNCHANGED recordVars
  BY DEF DemoNext, demoVars, recordVars, Startup, TypeText, SubmitText, Escape, PickAccount,
     PickSession, TimerFires, InUse
<1> QED BY <1>1, <1>2, <1>3, <1>4

LEMMA RecordsFitAlways == DemoSpec => []RecordsFit
<1>1. DemoInit => RecordsFit
  BY DEF DemoInit, RecordsFit, OnlyEligibleAccounts, FirstFileDecides, ArgumentsSurvive
<1> QED BY <1>1, RecordsFitNext, PTL DEF DemoSpec

\* Whatever the account databases and the filters hold, nobody who is locked,
\* excluded or out of range is listed, and who is included by name is, unless
\* barred (SystemAccountSource::discover() in src/src/services.cpp).
THEOREM OnlyEligibleAreListed == DemoSpec => []OnlyEligibleAccounts
<1>1. RecordsFit => OnlyEligibleAccounts
  BY DEF RecordsFit
<1> QED BY <1>1, RecordsFitAlways, PTL

\* However many directories and files there are and whatever lines they have,
\* the first file of each identifier decides alone, and it is read as its one
\* group says (discoverSessions() and readDesktopEntry() in desktopentry.cpp).
THEOREM FirstFileAlwaysDecides == DemoSpec => []FirstFileDecides
<1>1. RecordsFit => FirstFileDecides
  BY DEF RecordsFit
<1> QED BY <1>1, RecordsFitAlways, PTL

\* Whatever the arguments of a command are, however many, with whatever blanks,
\* quotes, backslashes, percent signs and names in them: written into an entry
\* by the rules they are run as they were meant (decodeDesktopValue(),
\* parseDesktopExec() and expandExecWords() in desktopentry.cpp).
THEOREM ArgumentsAlwaysSurvive == DemoSpec => []ArgumentsSurvive
<1>1. RecordsFit => ArgumentsSurvive
  BY DEF RecordsFit
<1> QED BY <1>1, RecordsFitAlways, PTL
=============================================================================
