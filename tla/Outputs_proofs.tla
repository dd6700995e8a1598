---------------------------- MODULE Outputs_proofs ----------------------------
(***************************************************************************)
(* Theorems about Outputs.tla, for every set of outputs, every order of them *)
(* and every sequence of hotplugs.                                           *)
(***************************************************************************)
EXTENDS Outputs, FiniteSetTheorems, TLAPS

\* The login window is on one of the outputs connected now, and every other has
\* a wallpaper window: with all windows shown no output is without.
Planned ==
  phase = "running" =>
    /\ interactive = SelectInteractive(screens)
    /\ interactive \in Connected
    /\ DOMAIN backgrounds = Connected \ {interactive}

\* Before the constructor has run nothing is shown; afterwards the windows are
\* those of the outputs connected now, and shown together or not at all.
IInv ==
  /\ phase \in {"starting", "running", "exited"}
  /\ screens \in Arrangements
  /\ Planned
  /\ AllOrNothing
  /\ NeverLeftDark

\* There is always a screen, and the first one is one of them.
LEMMA SomeScreen ==
  ASSUME NEW scr \in Arrangements
  PROVE  SelectInteractive(scr) \in ToSet(scr)
<1>1. CASE scr = <<None>>
  BY <1>1 DEF SelectInteractive, ToSet
<1>2. CASE scr \in SeqOf(Outputs, Cardinality(Outputs)) /\ scr # <<>>
  <2>1. Cardinality(Outputs) \in Nat
    BY OutputsAssumption, FS_CardinalityType
  <2>2. PICK m \in 0..Cardinality(Outputs) : scr \in [1..m -> Outputs]
    BY <1>2 DEF SeqOf
  <2>3. m \in Nat /\ scr \in Seq(Outputs) /\ Len(scr) = m
    BY <2>1, <2>2
  <2>4. 1 \in DOMAIN scr /\ Head(scr) = scr[1]
    BY <1>2, <2>2, <2>3
  <2> QED BY <2>4 DEF SelectInteractive, ToSet
<1> QED BY <1>1, <1>2 DEF Arrangements

\* Windows on the login's output and on all others are windows on all.
LEMMA PlannedCovers ==
  ASSUME Planned, phase = "running"
  PROVE  WithWindow = Connected
  BY DEF Planned, WithWindow

LEMMA InitIInv == Init => IInv
  BY DEF Init, IInv, Planned, AllOrNothing, NeverLeftDark

\* refresh() establishes the invariant whatever it found.
LEMMA RefreshIInv ==
  ASSUME phase \in {"starting", "running"}, Refresh(screens'), screens' \in Arrangements
  PROVE  IInv'
<1>1. /\ interactive' = SelectInteractive(screens')
      /\ DOMAIN backgrounds' = ToSet(screens') \ {interactive'}
      /\ SelectInteractive(screens') = SelectInteractive(screens)'
  BY DEF Refresh, SelectInteractive
<1>2. interactive' \in ToSet(screens')
  BY <1>1, SomeScreen
<1>3. WithWindow' = ToSet(screens')
  BY <1>1, <1>2 DEF WithWindow
<1>4. /\ phase' \in {"running", "exited"}
      /\ visible' = IF AllReady(image', backgrounds') THEN ToSet(screens') ELSE {}
  BY <1>3 DEF Refresh, ExitIf, HiddenUntilReady
<1> QED
  BY <1>1, <1>2, <1>4 DEF IInv, Planned, AllOrNothing, NeverLeftDark,
     EveryImageReady, AllReady, Connected

\* Showing what is there keeps the invariant, once the images that finished are
\* accounted for.
LEMMA ShowIInv ==
  ASSUME IInv, phase = "running", ~EveryImageReady, NEW failed \in BOOLEAN, ShowIfReady(failed),
         UNCHANGED <<configured, screens, interactive>>,
         DOMAIN backgrounds' = DOMAIN backgrounds
  PROVE  IInv'
<1>1. visible = {}
  BY DEF IInv, AllOrNothing
<1>2. WithWindow' = Connected'
  BY PlannedCovers DEF IInv, WithWindow, Connected
<1>3. Planned'
  BY DEF IInv, Planned, Connected, SelectInteractive
<1>4. /\ phase' \in {"running", "exited"}
      /\ visible' = IF AllReady(image', backgrounds') THEN Connected' ELSE {}
  BY <1>1, <1>2 DEF ShowIfReady, ExitIf
<1> QED
  BY <1>3, <1>4 DEF IInv, AllOrNothing, NeverLeftDark, EveryImageReady, AllReady

LEMMA NextIInv == IInv /\ [Next]_vars => IInv'
<1> SUFFICES ASSUME IInv, [Next]_vars PROVE IInv'
  OBVIOUS
<1>1. CASE Start
  <2>1. Refresh(screens') /\ phase = "starting" /\ screens' \in Arrangements
    BY <1>1 DEF Start, IInv
  <2> QED BY <2>1, RefreshIInv
<1>2. CASE Hotplug
  BY <1>2, RefreshIInv DEF Hotplug, Rearranged
<1>3. CASE InteractiveLoads
  BY <1>3, ShowIInv DEF InteractiveLoads, EveryImageReady
<1>4. ASSUME NEW o \in Outputs, BackgroundLoads(o)
      PROVE  IInv'
  <2>1. PICK s \in {"ready", "error"} :
          /\ backgrounds' = [backgrounds EXCEPT ![o] = s]
          /\ UNCHANGED <<configured, screens, interactive, image>>
          /\ ShowIfReady(s = "error")
    BY <1>4 DEF BackgroundLoads
  <2>2. phase = "running" /\ ~EveryImageReady /\ DOMAIN backgrounds' = DOMAIN backgrounds
    BY <1>4, <2>1 DEF BackgroundLoads, EveryImageReady
  <2>3. (s = "error") \in BOOLEAN
    OBVIOUS
  <2> QED BY <2>1, <2>2, <2>3, ShowIInv
<1>5. CASE UNCHANGED vars
  BY <1>5 DEF vars, IInv, Planned, AllOrNothing, NeverLeftDark,
     EveryImageReady, Connected, SelectInteractive
<1> QED
  BY <1>1, <1>2, <1>3, <1>4, <1>5 DEF Next

THEOREM OutputsInvariance == Spec => []IInv
  BY InitIInv, NextIInv, PTL DEF Spec

\* Windows are shown on every connected output or on none.
THEOREM ShownTogether == Spec => []AllOrNothing
<1>1. IInv => AllOrNothing
  BY DEF IInv
<1> QED BY <1>1, OutputsInvariance, PTL

\* Once every image has loaded the login is on the screen.
THEOREM ShownWhenReady == Spec => []NeverLeftDark
<1>1. IInv => NeverLeftDark
  BY DEF IInv
<1> QED BY <1>1, OutputsInvariance, PTL
=============================================================================
