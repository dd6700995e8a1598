------------------------ MODULE KeyboardLayouts_proofs ------------------------
(***************************************************************************)
(* Theorems about KeyboardLayouts.tla, for lists of any length.              *)
(***************************************************************************)
EXTENDS KeyboardLayouts, TLAPS

\* What the compositor was started with.
StartedWith ==
  loaded = IF config.backend = "hyprland" THEN HyprlandLayouts(config) ELSE CageLayouts(config)

\* With the default first in the list, the adapter's index and the position
\* in the compositor's list name the same layout, unless a request that was
\* reported as failed has been served and no selection has succeeded since.
IndexIsPosition ==
  ~config.demo /\ config.default = 0 /\ ~misled => active = current + 1

\* Under cage there is one layout and nothing to select.
CageStays ==
  ~config.demo /\ config.backend = "cage" =>
    current = config.default /\ active = 1 /\ late = <<>> /\ ~misled

IInv ==
  /\ config \in Configurations
  /\ StartedWith
  /\ current \in Nat /\ (config.count > 0 => current < config.count)
  /\ misled \in BOOLEAN
  /\ CageStays
  /\ IndexIsPosition
  /\ shown = current

LEMMA ConfigurationTypes ==
  ASSUME config \in Configurations
  PROVE  /\ config.count \in Nat /\ config.default \in Nat
         /\ config.backend \in {"hyprland", "cage"} /\ config.demo \in BOOLEAN
         /\ config.count > 0 => config.default < config.count
         /\ config.count = 0 => config.default = 0
  BY LayoutsAssumption DEF Configurations

LEMMA SmallModulus ==
  ASSUME NEW n \in Nat, NEW i \in Nat, i < n
  PROVE  i % n = i
  OBVIOUS

LEMMA InitIInv == Init => IInv
<1> SUFFICES ASSUME Init PROVE IInv
  OBVIOUS
<1>1. config \in Configurations /\ current = config.default /\ active = 1
  BY DEF Init
<1>2. /\ current \in Nat /\ (config.count > 0 => current < config.count)
      /\ IndexIsPosition
  BY <1>1, ConfigurationTypes DEF IndexIsPosition
<1> QED
  BY <1>1, <1>2 DEF Init, IInv, StartedWith, CageStays

\* A selection that reaches the adapter keeps index and position together,
\* whatever became of the command.
LEMMA SelectLayoutInv ==
  ASSUME IInv, NEW l \in Nat, l < config.count, CanCycleLayout, SelectLayout(l),
         shown' = current'
  PROVE  IInv'
<1>1. /\ config.demo \/ config.backend = "hyprland"
      /\ config.count \in Nat /\ config.default \in Nat
      /\ config.demo \in BOOLEAN
  BY ConfigurationTypes DEF CanCycleLayout, IInv
<1>2. UNCHANGED <<config, loaded>> /\ StartedWith'
  BY DEF SelectLayout, IInv, StartedWith
<1>3. CageStays'
  BY <1>1, <1>2 DEF CageStays
<1>4. CASE UNCHANGED <<active, current, late, misled>>
  BY <1>2, <1>3, <1>4 DEF IInv, IndexIsPosition
<1>5. CASE config.demo /\ current' = l /\ UNCHANGED <<active, late, misled>>
  BY <1>1, <1>2, <1>3, <1>5 DEF IInv, IndexIsPosition
<1>6. CASE Switched(l) /\ current' = l
  BY <1>1, <1>2, <1>3, <1>6 DEF Switched, IInv, IndexIsPosition
<1>7. CASE NotSwitched(l) /\ UNCHANGED current
  BY <1>1, <1>2, <1>3, <1>7 DEF NotSwitched, IInv, IndexIsPosition
<1> QED
  BY <1>4, <1>5, <1>6, <1>7 DEF SelectLayout

LEMMA NextIInv == IInv /\ [Next]_vars => IInv'
<1> SUFFICES ASSUME IInv, [Next]_vars PROVE IInv'
  OBVIOUS
<1>1. ASSUME NEW l \in Layouts, PickLayout(l)
      PROVE  IInv'
  <2>1. l \in Nat /\ l < config.count
    BY ConfigurationTypes DEF Layouts, IInv
  <2> QED
    BY <1>1, <2>1, SelectLayoutInv DEF PickLayout, SyncSelection
<1>2. CASE CycleLayout
  <2>1. config.count \in Nat /\ config.count > 1 /\ current \in Nat
    BY <1>2, ConfigurationTypes DEF CycleLayout, CanCycleLayout, IInv
  <2>2. (current + 1) % config.count \in Nat /\ (current + 1) % config.count < config.count
    BY <2>1
  <2> QED
    BY <1>2, <2>2, SelectLayoutInv DEF CycleLayout
<1>3. CASE ServeLate
  BY <1>3 DEF ServeLate, IInv, StartedWith, IndexIsPosition, CageStays
<1>4. CASE UNCHANGED vars
  BY <1>4 DEF vars, IInv, StartedWith, IndexIsPosition, CageStays
<1> QED
  BY <1>1, <1>2, <1>3, <1>4 DEF Next

THEOREM LayoutInvariance == Spec => []IInv
  BY InitIInv, NextIInv, PTL DEF Spec

\* With cage, or with the default first in the list, typing produces the
\* layout that the selector shows, whatever became of the commands before, as
\* long as none that was reported as failed has been served since the last one
\* that succeeded.
THEOREM LabelIsTrue == Spec => []LabelIsTrueUnrotated
<1>1. IInv => LabelIsTrueUnrotated
  <2> SUFFICES ASSUME IInv, config.count > 0, ~config.demo, ~misled,
                      config.default = 0 \/ config.backend = "cage"
               PROVE  loaded[active] = current
    BY DEF LabelIsTrueUnrotated, ActiveLayout, IInv
  <2>1. /\ config.count \in Nat /\ current \in Nat /\ current < config.count
        /\ config.backend \in {"hyprland", "cage"}
    BY ConfigurationTypes DEF IInv
  <2>2. CASE config.backend = "hyprland"
    <3>1. loaded = [i \in 1..config.count |-> (config.default + i - 1) % config.count]
      BY <2>2 DEF IInv, StartedWith, HyprlandLayouts
    <3>2. config.default = 0 /\ active = current + 1
      BY <2>2 DEF IInv, IndexIsPosition
    <3>3. active \in 1..config.count /\ config.default + active - 1 = current
      BY <2>1, <3>2
    <3> QED BY <2>1, <3>1, <3>3, SmallModulus
  <2>3. CASE config.backend = "cage"
    <3>1. current = config.default /\ active = 1
      BY <2>3 DEF IInv, CageStays
    <3>2. loaded = <<config.default>>
      BY <2>1, <2>3 DEF IInv, StartedWith, CageLayouts
    <3> QED BY <3>1, <3>2
  <2> QED BY <2>1, <2>2, <2>3
<1> QED BY <1>1, LayoutInvariance, PTL
=============================================================================
