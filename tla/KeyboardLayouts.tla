---------------------------- MODULE KeyboardLayouts ----------------------------
(***************************************************************************)
(* The keyboard layout in three places: the list in the configuration, the   *)
(* compositor started on the file that holonight-greeter-session generates   *)
(* from it (src/src/sessionlauncher.cpp, src/src/sessionmain.cpp), and the   *)
(* selector of the login panel over class CompositorAdapter                  *)
(* (src/src/compositoradapter.cpp).                                          *)
(*                                                                          *)
(* A layout is its position in the configured list.  selectLayout() runs     *)
(* hyprctl and waits for it, so a selection is one action.  The compositor   *)
(* is external: it keeps the list it was started with and the position in    *)
(* it that is active, and serves requests in the order they reach it.  One   *)
(* that hyprctl left behind, as it was killed after two seconds, may still   *)
(* be served.  Switching by a key of keyboard.options is left out.           *)
(***************************************************************************)
EXTENDS Naturals, Sequences

CONSTANTS MaxLayouts,  \* bound: the longest list
          MaxLate      \* bound: requests left behind at once

ASSUME LayoutsAssumption == MaxLayouts \in Nat /\ MaxLate \in Nat

VARIABLES
  config,   \* [count, default, backend, demo]: fixed when the program starts
  loaded,   \* the compositor's list
  active,   \* the position in it of the layout in use
  current,  \* current_
  shown,    \* keyboardSelector.currentIndex
  late,     \* the layouts of requests reported as failed that may yet be served
  misled    \* history: one was served, and no selection has succeeded since

vars == <<config, loaded, active, current, shown, late, misled>>

Layouts == 0 .. config.count - 1

-----------------------------------------------------------------------------
\* loadKeyboard(): a non-empty list has a default, which names one of it.
Configurations ==
  {c \in [count : 0..MaxLayouts, default : 0..MaxLayouts,
          backend : {"hyprland", "cage"}, demo : BOOLEAN] :
     IF c.count = 0 THEN c.default = 0 ELSE c.default < c.count}

\* hyprlandConfig(): the default comes first, in the order of the list.
HyprlandLayouts(c) == [i \in 1..c.count |-> (c.default + i - 1) % c.count]

\* The environment cage is started with: the default and no other.
CageLayouts(c) == IF c.count = 0 THEN <<>> ELSE <<c.default>>

Init ==
  /\ config \in Configurations
  /\ loaded = IF config.backend = "hyprland" THEN HyprlandLayouts(config)
              ELSE CageLayouts(config)
  /\ active = 1
  /\ current = config.default
  /\ shown = current
  /\ late = <<>> /\ misled = FALSE

\* hyprctl switchxkblayout all <index>, when it worked: whatever was left
\* behind has been served before it.
Switched(index) ==
  /\ active' = index + 1 /\ late' = <<>> /\ misled' = FALSE

\* When it failed or timed out, its request may have been left behind.
NotSwitched(index) ==
  /\ \/ UNCHANGED late
     \/ Len(late) < MaxLate /\ late' = Append(late, index)
  /\ UNCHANGED <<active, misled>>

\* The compositor serves it after all.
ServeLate ==
  /\ late # <<>>
  /\ active' = Head(late) + 1 /\ late' = Tail(late) /\ misled' = TRUE
  /\ UNCHANGED <<config, loaded, current, shown>>

CanCycleLayout == (config.demo \/ config.backend = "hyprland") /\ config.count > 1

\* selectLayout(): the label changes only when the command succeeded.
SelectLayout(l) ==
  /\ UNCHANGED <<config, loaded>>
  /\ \/ /\ l = current
        /\ UNCHANGED <<active, current, late, misled>>
     \/ /\ l # current /\ config.demo
        /\ current' = l
        /\ UNCHANGED <<active, late, misled>>
     \/ /\ l # current /\ ~config.demo
        /\ Switched(l) /\ current' = l
     \/ /\ l # current /\ ~config.demo
        /\ NotSwitched(l) /\ UNCHANGED current

\* Mutant: the selector is synchronised by layoutChanged alone.
SyncOnChange(l) == shown' = IF current' # current THEN current' ELSE l
SyncSelection(l) == shown' = current'

\* An entry of the keyboard selector is activated.
PickLayout(l) ==
  /\ CanCycleLayout
  /\ SelectLayout(l)
  /\ SyncSelection(l)

\* cycleLayout(), which no control calls; layoutChanged synchronises.
CycleLayout ==
  /\ CanCycleLayout
  /\ SelectLayout((current + 1) % config.count)
  /\ shown' = current'

Next == (\E l \in Layouts : PickLayout(l)) \/ CycleLayout \/ ServeLate

Spec == Init /\ [][Next]_vars

-----------------------------------------------------------------------------
\* The layout that typing produces.
ActiveLayout == loaded[active]

\* What the user reads is what the user types, through every failed selection,
\* with cage or with the default first of the list.  Only a request that was
\* reported as failed and served can part the two, and the next selection that
\* succeeds brings them together again.
LabelIsTrueUnrotated ==
  /\ config.count > 0 /\ ~config.demo
  /\ config.default = 0 \/ config.backend = "cage"
  /\ ~misled
  => ActiveLayout = shown

\* "Select any configured keyboard layout by its ordered model index"
\* (src/docs/sdd/visual-refinement/SPEC.md:14): after a selection that
\* succeeded, the selected layout is in use.
SelectsThatLayout ==
  [][~config.demo /\ current' # current => loaded[active'] = current']_vars
=============================================================================
