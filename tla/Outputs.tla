------------------------------- MODULE Outputs -------------------------------
(***************************************************************************)
(* class OutputManager (src/src/outputmanager.cpp) with the selection of     *)
(* outputs in src/src/compositoradapter.cpp: one login window and a          *)
(* wallpaper window on every other output, rearranged whenever an output     *)
(* comes or goes, and shown only once every wallpaper image has loaded.      *)
(*                                                                          *)
(* Qt and the compositor are external: outputs are plugged, unplugged and    *)
(* reordered at any time; without any, Qt has one placeholder screen with an *)
(* empty name.  An image may be loaded already when its window is created,   *)
(* or finish later, or fail.                                                 *)
(***************************************************************************)
EXTENDS Sequences, SequencesExt, FiniteSets

CONSTANTS Outputs,  \* the outputs there can be
          None      \* the empty name

ASSUME OutputsAssumption == None \notin Outputs /\ IsFiniteSet(Outputs)

VARIABLES
  phase,        \* "starting" until exec(), then "running", "exited" after exit(1)
  configured,   \* configuredOutput_
  screens,      \* QGuiApplication::screens(), the primary one first
  interactive,  \* the screen of interactiveWindow_
  image,        \* the image of interactiveWindow_
  backgrounds,  \* backgrounds_: by output, the state of the wallpaper's image
  visible       \* the outputs with a window shown

vars == <<phase, configured, screens, interactive, image, backgrounds, visible>>

Loads == {"loading", "ready", "error"}
Connected == ToSet(screens)

Arrangements ==
  {<<None>>} \cup {s \in SeqOf(Outputs, Cardinality(Outputs)) : s # <<>> /\ IsInjective(s)}

Init ==
  /\ phase = "starting"
  /\ configured \in Outputs \cup {None}
  /\ screens \in Arrangements
  /\ interactive = None /\ backgrounds = <<>> /\ visible = {}
  /\ image \in Loads

-----------------------------------------------------------------------------
\* selectInteractiveOutput(): the configured output, else the primary one.
SelectInteractive(scr) ==
  IF configured # None /\ configured \in ToSet(scr) THEN configured ELSE Head(scr)

\* Mutant: the login window does not wait for the wallpapers.
InteractiveReady(main, bgs) == main = "ready"
AllReady(main, bgs) == main = "ready" /\ \A o \in DOMAIN bgs : bgs[o] = "ready"

\* exit(1), which ends a running event loop and does nothing before exec().
ExitIf(failed) == phase' = IF failed /\ phase = "running" THEN "exited" ELSE "running"

\* The outputs that have a window once all of them are shown.
WithWindow == {interactive} \cup DOMAIN backgrounds

\* showSurfacesIfReady(), when an image that may have failed has finished.
ShowIfReady(failed) ==
  /\ visible' = IF AllReady(image', backgrounds') THEN WithWindow' ELSE visible
  /\ ExitIf(failed \/ image' = "error")

\* Mutant: surfaces are left to backgroundReady() after a rearrangement.
WaitsForSignal == visible' = {}
\* Everything hidden and deleted; shown at once when the images are there.
HiddenUntilReady ==
  visible' = IF AllReady(image', backgrounds') THEN WithWindow' ELSE {}

\* refresh(): hide and delete everything, plan, create, and show if ready.
Refresh(scr) ==
  /\ interactive' = SelectInteractive(scr)
  /\ backgrounds' \in [ToSet(scr) \ {SelectInteractive(scr)} -> Loads]
  /\ UNCHANGED <<configured, image>>
  /\ HiddenUntilReady
  /\ ExitIf(image = "error" \/ \E o \in DOMAIN backgrounds' : backgrounds'[o] = "error")

\* The constructor, and then exec() in main().
Start ==
  /\ phase = "starting"
  /\ Refresh(screens)
  /\ UNCHANGED screens

\* Mutant: screenRemoved is not connected.
RefreshUnlessFewer(scr) ==
  IF Len(scr) < Len(screens)
  THEN UNCHANGED <<phase, configured, interactive, image, backgrounds, visible>>
  ELSE Refresh(scr)
\* screenAdded, screenRemoved and primaryScreenChanged all call refresh().
Rearranged(scr) == Refresh(scr)

Hotplug ==
  /\ phase = "running"
  /\ screens' \in Arrangements \ {screens}
  /\ \/ \E o \in Outputs : screens' = Append(SelectSeq(screens, LAMBDA s : s # None), o)
     \/ \E o \in Connected \ {None} :
          LET left == SelectSeq(screens, LAMBDA s : s # o)
          IN screens' = IF left = <<>> THEN <<None>> ELSE left
     \/ \E o \in Connected :
          screens' = <<o>> \o SelectSeq(screens, LAMBDA s : s # o)
  /\ Rearranged(screens')

\* An image finishes: backgroundReady() or backgroundFailed().
InteractiveLoads ==
  /\ phase = "running" /\ image = "loading"
  /\ image' \in {"ready", "error"}
  /\ UNCHANGED <<configured, screens, interactive, backgrounds>>
  /\ ShowIfReady(FALSE)

BackgroundLoads(o) ==
  /\ phase = "running"
  /\ o \in DOMAIN backgrounds /\ backgrounds[o] = "loading"
  /\ \E s \in {"ready", "error"} :
       /\ backgrounds' = [backgrounds EXCEPT ![o] = s]
       /\ UNCHANGED <<configured, screens, interactive, image>>
       /\ ShowIfReady(s = "error")

Next ==
  \/ Start \/ Hotplug \/ InteractiveLoads
  \/ \E o \in Outputs : BackgroundLoads(o)

Spec == Init /\ [][Next]_vars

\* Qt loads every image or finds that it cannot, and main() comes to exec().
Fairness ==
  /\ WF_vars(Start) /\ WF_vars(InteractiveLoads)
  /\ \A o \in Outputs : WF_vars(BackgroundLoads(o))
FairSpec == Spec /\ Fairness

-----------------------------------------------------------------------------
EveryImageReady == image = "ready" /\ \A o \in DOMAIN backgrounds : backgrounds[o] = "ready"
AnyImageFailed == image = "error" \/ \E o \in DOMAIN backgrounds : backgrounds[o] = "error"

\* "All surfaces remain hidden until their screens are assigned and every
\* wallpaper reports ready" (src/docs/sdd/boot-login-reliability/DESIGN.md:14):
\* windows are shown on all outputs that are connected now, or on none.
AllOrNothing ==
  phase = "running" /\ visible # {} => visible = Connected /\ EveryImageReady

\* A greeter whose images are all there is never left dark, however the
\* outputs changed while they were loading.
NeverLeftDark == phase = "running" /\ EveryImageReady => visible = Connected

\* Once the outputs stop changing, the windows come to be shown on all that are
\* left, unless an image fails: however often the outputs changed while images
\* were loading, no output is forgotten, nothing that is waited for has been
\* deleted, and nobody waits for what is already there.
LoginAppears ==
  []<>(AnyImageFailed \/ visible = Connected) \/ []<><<screens' # screens>>_vars

\* "a wallpaper load failure terminates the greeter so greetd exposes the
\* failure" (src/docs/sdd/boot-login-reliability/DESIGN.md:15).
LoadFailureExits == phase = "running" => ~AnyImageFailed
=============================================================================
