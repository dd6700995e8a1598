# Verification of holonight-greeter

TLA+ models of the greeter in `src/`, the TLC runs that check them on small
instances, and theorems about them that TLAPS checks for every instance. Paths
are relative to the repository; `controller.cpp` and its like are in `src/src/`,
`LoginPanel.qml` and its like in `src/qml/`.

- [1. The system](#1-the-system)
- [2. The modules](#2-the-modules)
- [3. The runs](#3-the-runs)
- [4. The proofs](#4-the-proofs)
- [5. Where the code and its documents disagree](#5-where-the-code-and-its-documents-disagree)
- [6. What is left out](#6-what-is-left-out)
- [7. Plan](#7-plan)

## 1. The system

`holonight-greeter` is the login screen that greetd starts: a Qt Quick program
on one event loop, which speaks greetd's framed JSON over a local socket, asks
the user what greetd asks, and has greetd start the chosen session.
`holonight-greeter-session` starts the compositor that the greeter runs under.

| Component | State it keeps | Operations | What makes it correct |
| --- | --- | --- | --- |
| Controller (`controller.cpp`) | `stage_`, the `state_` QML switches on, status and prompt, the active and pending account, the failure kept for a retry, the selected session | `begin`, `respond`, `cancel`, `restartAuthentication`, `setSelectedSession`; a reply from greetd; connected, disconnected, failed | requests and replies stay paired; a session is started only for the account that was authenticated and is shown; every wait has a deadline; nothing of one exchange reaches the next |
| GreetdClient (`greetdclient.cpp`) | the socket, `input_`, `expected_`, `failing_`, a 15 s timer | `connectTo`, `send`, `cancel`, `disconnectFromServer`, `fail`, `consume` | frames become messages whole, once and in order; a bad frame ends the connection; buffers do not cross connections |
| Login panel (`LoginPanel.qml`, Escape in `Main.qml`) | `selectedUser`, the text in the response field | pick an account, enter a name, Log in, answer, pick a session, Escape | what is shown is what is being authenticated; a typed secret goes to the account it was typed for |
| Keyboard layouts (`compositoradapter.cpp`, `sessionlauncher.cpp`, `sessionmain.cpp`) | `current_`; the list the compositor was started with | `selectLayout`, `cycleLayout` | the label says what typing produces, also after a command failed |
| Power (`services.cpp`, `controller.cpp`, `Main.qml`) | what is allowed, whether to ask, the question on the screen | `queryCapabilities`, `requestPowerOff`, `requestReboot`, confirm, cancel | nobody is logged out without being asked about; whoever stays logged in is noticed |
| OutputManager (`outputmanager.cpp`) | the login window's screen, the wallpaper windows, what is visible | `refresh`, `backgroundReady`, `backgroundFailed` | one login surface, on the right output; all surfaces or none; never dark for ever |
| State file (`state.cpp`) | last account and session on disk | `loadState`, `saveState` | what is remembered is what was started |
| Session discovery (`desktopentry.cpp`) | none | read, filter and order the desktop entries once at start, expand their commands | a file masks those of later directories whatever becomes of it; commands run as they were written |
| Account source (`services.cpp`) | none | collect, filter and order the accounts once at start | no filter is passed by naming an account |
| Configuration (`config.cpp`) | none | parse and validate once at start | what is wrong is rejected, and nobody is authenticated then |
| Demo mode (`controller.cpp`, branches on `demo_`) | as the controller, and `demoAttempt_`, `demoStep_`, running timers | scripted prompts, a delayed fingerprint success | nothing of an attempt that was left counts for a later one |
| Launcher process (`sessionmain.cpp`) and start-up (`main.cpp`) | none | one child process; construction, then the event loop | what is started is what was configured |

How they interact. The panel calls the controller's `Q_INVOKABLE` methods and
reads its properties. The controller calls the transport directly; the
transport emits `connected`, `message`, `failed` and `disconnected`, and as the
connections are direct, each is a function call *inside* the code that emits
it. So a handler can hang up or reconnect while `consume()` is in the middle of
its loop, and `connectTo()` can call back into the controller through
`abort()`. `sessionStarted` quits the program, upon which greetd starts the
session. logind and the compositor are reached over D-Bus and `hyprctl` with
blocking calls.

What is hard here:

- **Cancellation.** greetd answers requests in order, and `cancel_session` may
  be sent while another request is unanswered. Until it is over the user may
  pick other accounts, back and forth, and a refused account is waiting to be
  tried again.
- **Re-entrancy.** Failing, hanging up and reconnecting from within the
  delivery of a message, or within `connectTo()`.
- **Timeouts.** One timer is started by `send()` and stopped by every message;
  the handler of a message may send in between.
- **Stale state.** The account kept for after a cancellation, the failure kept
  for a retry, text typed for another account, the length of a frame of an
  earlier connection, a power query that is overtaken by a login, a wallpaper
  that finished before anyone listened.
- **Lives.** The greeter is started anew after every login and every crash, and
  only the state file tells one life of the earlier ones.
- **External parties.** greetd, logind, the compositor and the outputs act at
  any time between two steps of the event loop.

## 2. The modules

```
FrameQueue   <--implements--  GreetdFraming  <-- MCGreetdFraming, GreetdFraming_proofs
    : (is the channel of)
GreetdChannel <-- Controller <----------- Login <----------- Boots <-- MCBoots
                   ^   ^                  ^   ^  (and INSTANCE Login WITH ...)
       MCController    |            MCLogin   |                ^
                Controller_proofs <-- Login_proofs <-- Boots_proofs
                                            (and INSTANCE Login_proofs WITH ...)

SessionEntries <-- AccountSource <-- DemoLogin <-- MCDemo
                                         ^
                                  DemoLogin_proofs

KeyboardLayouts <-- KeyboardLayouts_proofs
Outputs         <-- Outputs_proofs
Power           <-- Power_proofs
```

An arrow `A <-- B` says that B extends A, unless it is labelled.

**GreetdChannel** is `GreetdClient` under the controller: `Send`, `Hangup`,
`Replace` and `Drop` are what `send()`, `disconnectFromServer()`, `connectTo()`
and `fail()` do, as operators the handlers are composed of. A frame is one
message. The socket follows Qt's local socket: writes are buffered (`outbox`)
and flushed from the event loop (`Flush`); hanging up with bytes queued leaves
the socket `Closing`; `abort()` emits `disconnected()` from `Connected` and
`Closing` but not from `Connecting`; `disconnectFromServer()` does not withdraw
a pending connection attempt. greetd is external and unconstrained within its
protocol: it answers each request of a connection once and in order, with any
answer that `controller.cpp` tells apart (success, an authentication error,
another error, a prompt of each kind, one that is malformed, and a message of
an unknown type), or never, and it may close at any time, losing the requests
it has not read. `start_session` succeeds only after authentication did; the
theorems of Controller_proofs do not use that.

**Controller** is `class Controller` outside demo mode. One action is one
entry from the event loop with everything it calls: a call from QML, one
message delivered by `consume()`, or one socket or timer event. While
`consume()` is delivering messages it has read (`input`), nothing else runs
(`AtRest`). Status sentences are kept by kind, so that `authFailed` (the
failure kept for the retry), `cancelling`, `choose` and `failure` can be told
apart. Here every method may be called at any time with any name, as
`tests/core_test.cpp` does.

**Login** adds the panel: `chosen` is `selectedUser`, `field` the account for
which the text in the response field was typed. Its actions are the
controller's, guarded by what enables each control; its steps are shown to be
steps of `ControllerSpec` (section 4). `SecretReachesItsAccount` follows the
typed text through the field, the socket buffer and the stream to the user
greetd is configuring. `Startup` is the `Component.onCompleted` of the panel
and happens at most once in effect: the status is empty only before the first
exchange. `ConfigValid` is "`greeterConfigError` is empty", which some controls
ask for and some do not. `ListSpec` is the program without the username field,
which nobody sees in the list of accounts; `ListIsLogin` proves that it is the
same program then.

**Boots** is the greeter across its lives. `Start` is what the constructor and
the panel begin with: the state file is loaded (a missing or corrupt one counts
as empty), the session and the account are selected. `Live` is a step of Login
under the configuration of this life: a list of accounts, a typed name, or a
rejected configuration; the second is the module Boots extends, the others are
instances of Login with other constants over the same variables. `Stop` is a
crash at any step, in the middle of a `consume()` loop or a save too, or the
quit after a login: only `saved` survives. `QSaveFile` writes a file beside the
old one and renames it, so `Written` in Controller.tla replaces the content as a
whole or leaves it. `last` is a history variable: the last login that was
remembered, kept by what greetd scheduled and not by what the file says.

**SessionEntries** is `desktopentry.cpp` as operators: the value decoder, the
line reader, the splitting and expansion of `Exec`, the filters and the walk
over the directories, each a fold or a recursive function with the accumulator
of the code's loop (the sessions found are a set, which the final sort puts in
the one order it has for them, as no two have the same identifier). Text
is a sequence of characters of which those the code looks at are themselves and
all others are tokens. Its last part is what it is compared with: a file read
by the positions of its lines, without a loop, and a command written by the
rules of the desktop entry specification. **AccountSource** is the same for
`SystemAccountSource` and `DemoAccountSource`; AccountsService, the passwd and
the shadow database are functions of the machine.

**DemoLogin** is the greeter in demo mode. `Initialise` is `initializeRecords()`
on a machine (`Machines`: files, databases, configuration and arguments), and it
is where discovery and account filtering are a step of the program. The rest
are the branches on `demo_` under the panel: here `cancel()` runs inside
`begin()` and `restartAuthentication()`, so the panel sees `user-selection` in
the middle of a call and wipes the field (`WipedMeanwhile`). A running
`QTimer::singleShot` is the number of its attempt in `timers`; nothing stops it,
and its callback compares that number with `demoAttempt_`.

**FrameQueue** is the promise of the transport in three actions: greetd writes
a frame, the oldest one is delivered if it is good, the connection is replaced.
**GreetdFraming** is `consume()` over bytes, with `input_` and `expected_`, read
in pieces of any size, its loop one turn at a time, and handlers that hang up or
reconnect between two messages. A byte is a digit in a small base and the
length is `HeaderSize` such digits, lowest first, where the code copies a
native-endian `quint32`. `ImplementsFrameQueue` is the refinement, with the
frames not yet delivered as the queue; it is what justifies "a frame is one
message" in GreetdChannel.

**KeyboardLayouts** has the configured list, the list the compositor was
started with (rotated for Hyprland, the default alone for cage), the adapter's
`current_` and the selector's index. A layout is its position in the
configured list. `hyprctl` works (`Switched`) or fails (`NotSwitched`). It is
killed after two seconds, and the request it has made by then may still be
served, at any later time (`ServeLate`): `late` holds such requests, and
`misled` remembers that one was served since the last selection that succeeded.
That the compositor serves requests in the order they reach it is an assumption
on it, so a selection that succeeds leaves nothing late.

**Outputs** is `OutputManager`. An image may be loaded when its window is
created, finish later or fail; Qt's screens are plugged, unplugged and reordered
at any time, with Qt's nameless placeholder when there is none. What is shown
is the windows that `refresh()` has planned and created (`WithWindow`), wherever
the outputs have gone since. `phase`
separates the constructor, which runs before `exec()`, from the event loop,
because `QCoreApplication::exit()` ends only a running event loop.

**Power** splits a logind query at each blocking call, so that sessions come
and go inside it. No code of the greeter runs during a query, and the
`SessionNew` and `SessionRemoved` signals wait for the event loop. The
confirmation of `Main.qml` clears the question before its queued callback runs.

In `PROJECT.json`, `map` gives for every definition the lines it stands for.
Operators introduced with "Mutant:" are variants of the code with a plausible
mistake, each of which some property must refute; no specification uses them.

## 3. The runs

| Run | Instance | States | What it shows |
| --- | --- | --- | --- |
| `controller` | one listed account, one unlisted name, two sessions; methods called from anywhere | 8,178 | `ConversationOnOpenSocket`, `WaitIsBounded`, `CancellationLeavesNothing`, `OnlyCancelOvertakes`, `StartOnlyWhenReady`, `TypeOK` |
| `login_list` | two accounts, two sessions, the list of accounts | 9,644 | `PromptShowsChosen`, `SecretReachesItsAccount`, `RefusalIsRetried`, `StartIsFinal`, `SavedIsScheduled`; with fairness `CancellationEnds`, `StartResolves` |
| `boots` | two names, two sessions, lives of three configurations, first life without a file or with a stale one | 160,560 | `PromptShowsChosen` in every life, `FileIsWholeLogin`, `LastLoginOffered` |
| `demo` | over ten thousand machines in seven families, up to four attempts | 43,060 | `FirstFileDecides`, `ArgumentsSurvive`, `OnlyEligibleAccounts`, `DemoPromptShowsChosen`, `TextIsForItsAccount`, `OwnTimerCompletes`, `CodeCompletes`; with fairness `FingerprintResolves` |
| `framing` | base 3, two-digit lengths, limit 2, five bodies | 11 thousand | `ImplementsFrameQueue`, `NothingHeldBack`, `TypeOK` |
| `keyboard` | every list of 0 to 4 layouts, every default, both compositors, demo or not | 1,176 | `LabelIsTrueUnrotated` |
| `outputs` | three outputs | 1.7 thousand | `AllOrNothing`, `NeverLeftDark`; with fairness `LoginAppears` |
| `power` | three sessions, two of class user | 21 thousand | `UnconfirmedOnlyInRace`; with fairness `UserIsNoticed` |
| the four others | the same instances | | one counterexample each, see section 5 |

All of them exhaust the instance.

**What the properties say.** `OnlyCancelOvertakes` lists what greetd still owes
an answer in each stage, whether request or answer is in the greeter's
buffer, on the wire or being delivered: at most one request, except that
`cancel_session` may follow one unanswered request, and nothing while the user
is being asked. This is why a reply can be interpreted from the stage alone, and
why a late answer never reaches the next exchange. `StartOnlyWhenReady`
relates a `start_session` anywhere on its way to what greetd has reached.
`WaitIsBounded` and the two liveness properties are the two halves of "the
user is never left waiting". `SavedIsScheduled` compares what is written with
what greetd accepted, not with what the panel shows by then. `FileIsWholeLogin` says the same across lives: however a life ends, the file
changes only in the step that completes a login, to the whole of that login and
without the account where it was typed. `LastLoginOffered` closes the circle:
the next life begins on the last login that was remembered, while its account
and session are still there. If the connection drops between greetd scheduling
a session and its answer, the session starts and is not remembered; both
properties hold then, as the older login stays. A crash inside the write itself
is not exercised: that the content is replaced as a whole is `QSaveFile`'s
promise and is assumed (section 2). What these properties add is the crashes
between the steps, and what a later life makes of the file.

`FirstFileDecides` compares a walk that remembers which identifiers it has seen
with "the first directory that has the identifier decides", and the line reader
with the positions of the lines: a hidden, filtered, malformed or duplicated
entry masks those of later directories and offers nothing itself.
`ArgumentsSurvive` goes the way round: a vector of arguments that are not empty,
written by the rules (quoted, with a backslash before quote, backslash, backquote
and dollar sign, and every backslash doubled for the key file), comes back as it
was, through both layers of escaping and the expansion of
field codes in a name that has blanks and percent signs itself.
`OnlyEligibleAccounts` is about every way a name can come from: an included
name skips the listing of the sources and nothing else. `OwnTimerCompletes`
and `FingerprintResolves` are the two halves of the number kept with a timer:
no timer of an attempt that was left completes a later one, and every attempt
that is not left is completed. `CodeCompletes` is about `demoStep_`, which must
begin anew with the attempt, and `TextIsForItsAccount` about the field, which
is hidden only in the middle of a call.

`AllOrNothing` and `NeverLeftDark` bound `showSurfacesIfReady()` from both
sides: windows appear only with every image loaded, and always then, and the
windows planned are those of the outputs there are now. `LoginAppears` adds that
it comes to that: when the outputs have stopped changing, and no image fails,
nothing that was deleted is waited for. `LabelIsTrueUnrotated` relates what is
read to what is typed through any series of selections that succeed, fail, or
fail and are served later, which is the one thing that parts them, until the
next one that succeeds. `UnconfirmedOnlyInRace` is the
conservative rule of `docs/sdd/visual-refinement/SPEC.md:22`: the only way to
shut down a logged-in user's machine unasked is to click before a signal that
is already under way has been delivered. `UserIsNoticed` says that this race
ends: queries and signals may overlap in any way, and as long as anybody is
logged in, a confirmation comes to be demanded.

**Bounds.** The controller, the panel and the lives need none: a queue is bounded by the
protocol (`OnlyCancelOvertakes`), everything else is finite. Two accounts are
enough to be at one, move to the other and back, and names and sessions are
only compared. One account in `controller` keeps the calls from anywhere small;
its second name is one that `begin()` turns down. In `boots` the state file
of the first life may name an account and a session that are gone; two
accounts tell "the remembered one" from "the first". `demo` bounds the attempts
(`MaxAttempts` = 4: two timers of attempts that were left, one of the current
attempt, and one cancellation counted between them). Its machines come in
families that each vary one thing: the scenario and the listed accounts; all
commands of one or two arguments of one or two characters; all raw `Exec` values
of up to three characters; all files of up to three further lines; two
directories with two identifiers and five kinds of file, under four
include and exclude lists; all visibility lists; all account sources for two
names. What one family varies the code treats independently of what the others
vary. `framing` bounds the frames
written ahead of the greeter (`MaxUnread` = 3, enough for a read to end inside
one frame and contain others whole); with base 3 and limit 2 there is an empty
frame, one at the limit, one above it, and headers whose first digit alone
is misleading. `power` bounds the undelivered signals (`MaxSignals` = 2: one
can be consumed while another is under way). `keyboard` bounds the list at 4, and the requests
left behind at once at 2 (`MaxLate`: one can be served while another is late).

**Fairness** is assumed only of the greeter's own event loop and of the blocking
calls it makes. In `FairListSpec`: queued bytes are flushed or arrived ones read, a message that has been read is
delivered, and an armed timer that is not stopped expires (weak fairness of
each). Nothing is assumed of greetd or of the user, so `CancellationEnds` and
`StartResolves` hold with a greetd that never answers: the timer is not
restarted in these stages, as nothing is sent in them. In `DemoSpec` a running
timer expires. In `FairSpec` of Power a signal that has arrived is taken and a
blocking call returns, with an answer or an error; sessions may begin and end
for ever. In `FairSpec` of Outputs `main()` comes to `exec()`, and Qt loads an
image or finds that it cannot; `LoginAppears` names the case that outputs change
for ever. There is no liveness of
authentication itself, as a prompt may wait for the user for ever.

**Deadlock** is checked in the runs of the controller, the panel, its lives,
the framing and the power service. After `Complete` the program quits (`Exited`
stutters). `CHECK_DEADLOCK FALSE` is set for `keyboard`, where a single layout
leaves nothing to do, for `outputs`, where `exit(1)` ends the behaviour, and for
`demo`, where an authenticated demo shows its last screen and has no control
left.

## 4. The proofs

The theorems hold for every set of names, accounts, sessions, outputs and
logind sessions, under the named assumptions of the modules: the empty string
is no name, no session and no record of a login (`NoneAssumption`,
`OutputsAssumption`, `PowerAssumption`), the outputs are finitely many
(`OutputsAssumption`), accounts are names
(`AccountsAssumption`), user sessions are sessions. The others are about data.
`BootsAssumption`: a state file left from before has the two fields a state file
has. `FramingAssumption`: a body is bytes and its length fits the header.
`WrittenAssumption`: a machine that stands for a written argument vector has an
entry with it, which is to be offered and whose arguments are not empty; of the
arguments and their characters nothing else is assumed.
`MachinesAssumption` and `OrderAssumption`: directories hold finitely many
files of lines that the reader tells apart, the account databases are finite,
every name listed has its place in `localeAwareCompare()`, and names that the
code compares by their characters are equal when these are.

All proofs are checked to the last leaf by tlapm with Z3, Zenon and LS4.

**Controller_proofs.** `IInv` is `TypeOK` and `Control`, which joins
`ConversationOnOpenSocket`, `WaitIsBounded` and `CancellationLeavesNothing` to
`StateFitsStage`: which strings QML may see in each stage. None is inductive by
itself. A `disconnected()` that is ignored in `Idle` or `Failed` stops the
timer, which is harmless only as those stages show no waiting string; and a send
restarts it only because the socket of the stage is open. There is a lemma for
each operator of the channel and each handler, and one step per action in
`NextInv`. From `Invariance` follow `TypeCorrect`, `BoundedWait`, `OpenSocket`
and `NothingLeft`. `OpenSocket` justifies that `Send` has no failing branch: the
`not-connected` failure of `send()` cannot happen.

**Controller_proofs, the pairing.** `Owed`, the requests whose answer the greeter has still to
handle, is the concatenation of four queues. The proof looks at it as a length
(`Waits`) and elements (`OwedAt`), for which each step of the channel has a
lemma: moving bytes and answering change nothing, sending adds one at the end,
handling removes the first. `Paired` says per stage what the elements are; it
is inductive together with the types, and `PairsKept` follows. For
`StartsWhatWasAccepted` it is strengthened by `OneSession` (what greetd has
reached in each stage, and that no stale success is on its way when one is taken
for authentication) and `SessionSelected`. Both hold while greetd has not
closed, which is when it can act on anything.

**Login_proofs.** `PanelRefinesController`: every step of the panel is a call
the controller may receive, or a stutter, so the controller's theorems hold of
the program. `LoginInv` adds that the panel and the controller agree on the
account while one is being authenticated or awaited; from it follow
`PromptIsForChosen`, `RefusalKeepsAccount` and `StartsAreFinal`. `ListIsLogin`
is the equivalence of the two specifications in the list of accounts, so that
what is proved of `LoginSpec` holds for the one checked with fairness.

**Login_proofs, the secrets.** What was sent can be read after greetd has closed its end,
so the pairing is not enough here. `AskedByPeer` carries over what is known of
the replies left (the pairing implies it while the stream is open), `TextFits`
says that a text on its way is for the account both ends agree on and that no
reply is ahead of the one to it, `StartFits` that the session scheduled is the
one selected. `SecretsReachTheirAccount` and `WhatIsSavedIsScheduled` follow.

**Boots_proofs.** Every life is an instance of Login under one of three
configurations, and Login_proofs is used three times: once as the module that is
extended, twice as an instance with the constants of the other two lives, whose
assumptions follow from those of Boots (`InstancesAreJustified`). The invariants
of a life mention no configuration, only its steps do, so one invariant,
`LifeInv`, serves all lives: the inductive invariant of Login while the greeter
runs, and that the file and the history `last` agree whatever happens in
between. `Start` is the step that matters: the state the constructor builds from
any file must satisfy the panel's invariant. `PromptInEveryLife` and
`SecretsInEveryLife` carry the two properties of Login over crashes;
`FileStaysWhole` and `LastLoginIsOffered` are about the file itself.

**GreetdFraming_proofs.** The inductive invariant `Inv` says that the bytes of
the current connection, those in `input_` and those still in the kernel, are the
frames not yet emitted, one after the other, less a header that was already cut
off. "One after the other" is said by cut points (`Cut`): a rising sequence of
positions with a frame between each two (`FrameAt`). That makes the steps of
`consume()` local: taking a header or a body removes or moves the first cut
point and leaves the others. What it rests on is that a length survives being
written as digits and read back, for every base and header size (`Header` and
`Length`). It follows that the length read is the one written, so a frame is
complete exactly when its last byte is there: `FramesDelivered`, and, step by
step, `FramingImplementsQueue`, the refinement of FrameQueue that the channel of
the controller stands for.

**DemoLogin_proofs.** `DemoInv` adds to the agreement of panel and demo account
that every timer belongs to an attempt begun (`TimersAreOld`) and that a step
past the first goes with the question for the code (`StepFitsPrompt`). It is
what `TimersCompleteTheirOwn` and `CodeIsAsked` need of the state before the
step that completes. They hold for any number of attempts and timers.

**DemoLogin_proofs, the records.** `RecordsFit` is short; the work is in what
`Initialise` computes. A sort is shown to keep the set it sorts: in a total
order each element has its own number of predecessors (`Ranks`, `SortedIsAll`).
For the accounts this is all that `OnlyEligibleAreListed` needs besides the
filters. For the sessions there are three loops, one in the other. Of each it is
shown that the recursion has a solution (`ReadingIs`, `VisitingIs`,
`WalkingIs`), and a loop invariant is carried from one turn to the next:
`ReadInv` (after k lines the reader has the keys of the lines of the one group
among them, or has met a fault), `Visited` (after n files the identifiers are
seen and what the new ones offer is found) and `Walked` (the same for
directories). They end in `ReadEntryIs`, that the line reader computes what the
positions of the lines say of a file, and `DiscoveredSessions`, that the walk
offers what the deciding files say, for any directories, files and lines.
`FirstFileAlwaysDecides` follows.

**DemoLogin_proofs, the command line.** `ArgumentsAlwaysSurvive` is about three
more loops, over characters, each undoing what a layer of the writing did. They
are reasoned about in runs: what a loop makes of one written character is a
lemma (`DecodeDoubled`, `SplitWrittenChar`, `ExpandKept`), from any state it can
be in there, and `DecodeAll`, `SplitAll` and `ExpandAll` put the characters of a
text together. Escaping backslashes is undone by the decoder of the key file, so
that the splitter is given exactly what was written (`DecodeWritten`); a quote
opens each argument and one closes it, and the blank behind it ends the word
(`SplitArgument`, `SplitArguments`); what is left between the quotes is the
argument with its percent signs doubled, which the expander takes back, putting
the name where it was asked for (`ExpandWordIs`). No word expands to nothing, as
no argument is empty (`KeptIsSomething`). `WrittenIsOffered` joins this with the
records: the entry offered for the written file runs what was meant.

The attempt to prove it corrected the model. `DecodeChar` and `ExpandChar` were
`CASE` expressions in which a general arm overlapped with a special one. TLC
takes the first that holds, which is what the code's `if` and `switch` do;
TLA+ says nothing of which is taken, so nothing could be proved of them. Their
arms are now disjoint.

**Induction.** The library's induction theorems take an operator as a parameter,
which the provers cannot instantiate. Induction over numbers is done with sets
instead: Nat is well founded, so a set that has 0 and with each number the next
is all of Nat (`SetInduction`, `UpTo`), and the sets are named in each proof. No
operator of the proved modules is `RECURSIVE`.

**Power_proofs.** The strengthening is what a running query knows
(`QueryMissesNone`: a user session is still to be read, or was announced after
the list was made) and what the last one established (`FlagIsRight`).
`UnconfirmedIsRace` follows, for any number of signals under way: the bound is
not used.

**Outputs_proofs.** The strengthening is that the plan covers the outputs: the
login window and the wallpapers are together on every output there is
(`Planned`), which needs that Qt always has a screen (`SomeScreen`).
`PlannedCovers` and `RefreshIInv` show that `refresh()` establishes it whatever
was there before; an image that finishes leaves the plan alone and disturbs the
rest only through `showSurfacesIfReady()` (`ShowIInv`).

**KeyboardLayouts_proofs.** The strengthening relates the selector, the
adapter's index and the compositor's position (`IndexIsPosition`, unless
`misled`) and both to the list the compositor was started with. It needs the
default to be the first of the list: without that the rotation makes the two
disagree, which is what `selects_that_layout` shows. With cage nothing can be
selected (`CageStays`). `LabelIsTrue` follows, for lists of any length and any
number of late requests.

**Only model-checked:** the liveness properties `CancellationEnds`,
`StartResolves`, `FingerprintResolves`, `LoginAppears` and `UserIsNoticed`, as they rest on fairness and with it
on `ENABLED`, which is out of the prover's reach. Every other invariant and
action property of a passing run is stated by a theorem.

## 5. Where the code and its documents disagree

Each is a run that ends in a counterexample.

- `change_survives_stale_prompt` (`controller.cpp:380`). A prompt that greetd
  sent before it saw the cancellation fails an account change with "Could not
  cancel greetd authentication": in the counterexample one account is started,
  another is picked, and the prompt for the first arrives. `docs/sdd/greeter-mvp/DESIGN.md:21` has account
  changes wait for the cancellation. In the same stage the first success or
  error counts as greetd's answer to `cancel_session` (`:376`), although it may
  answer the request that was overtaken.
- `selects_that_layout` (`compositoradapter.cpp:57`). `hyprctl` gets the
  layout's index in the configured list, while `hyprlandConfig()` rotated that
  list. With a default that is not first, the wrong layout is activated under
  the right label.
- `load_failure_exits` (`outputmanager.cpp:119`, `:146`). `exit(1)` from the
  constructor, before `exec()`, is lost: the greeter runs on with every window
  hidden, where `docs/sdd/boot-login-reliability/DESIGN.md:15` has it terminate.

- `disabled_when_invalid` (`LoginPanel.qml:106`). "Authentication is disabled on
  invalid configuration" (`docs/sdd/greeter-mvp/SPEC.md:12`). The automatic start
  (`:54`), the username field (`:188`), Log in (`:372`) and the session selector
  (`:417`) ask for it; the account selector does not, and activating an entry
  calls `begin()` (`:161`). With two accounts in the list an exchange with
  greetd begins.

Observations that no run is about: the failure kept for a refused account is
shown to an account picked during the cancellation (`controller.cpp:369`;
`docs/sdd/greeter-mvp/DESIGN.md:21-23` speaks of the same account);
reconnecting over a socket that is still closing emits `disconnected()` from
`abort()` in the middle of `connectTo()` (`greetdclient.cpp:45`), the controller
fails, and the connection is then opened and used by nobody until the next
attempt replaces it; a login in manual mode erases the account remembered for a
later list; `setPermissions()` after the rename can make `saveState()` report
a failure though the file was replaced, which is only logged; an empty quoted
argument (`""`) of an `Exec` line is dropped (`desktopentry.cpp:228`, `:239`), which
is why `ArgumentsSurvive` is about non-empty arguments; an account is found
locked in the shadow database only when the greeter may read it; in manual mode a mistyped name cannot be
corrected once submitted, as Escape retries the same one; `cancel()` has no
caller in QML; a prompt that takes greetd longer than 15 s to produce, such as a
fingerprint, ends the exchange; if the connection drops after greetd scheduled a
session and before its answer is read, the greeter shows a failure and remembers
nothing; picking the layout that is already shown does nothing, so a label made
wrong by a command that took effect and timed out cannot be repaired by picking
it again; a layout switched by a key of `keyboard.options` is not noticed;
`docs/CAGE.md:14` has cage use the first configured layout and
`sessionmain.cpp:79-90` uses the default; D-Bus calls block the event loop, and
with it the login.

## 6. What is left out

- **Validation of the configuration**: a list of independent checks of kinds
  and ranges, each of which ends in the same rejection. What the result does to
  the program is modelled (`ConfigValid`, the lives of Boots, `Configurations`
  of the keyboard, the filters in `Machines`).
- **Avatars**, on which no filter or order depends, and the conversion of a uid
  above 2^31.
- **JSON and file permissions**: messages and the state file are records; a
  message that does not parse is one of the kinds greetd may send, a state file
  that does not parse counts as missing.
- **Texts**: prompts, status sentences, the reason a power action is not
  allowed and the configuration warning are kept by kind or left out.
- **Visuals**: layout, focus, the reveal button, Caps Lock, clock and popups.
- **The launcher process** beyond its keyboard list (a straight line from its
  arguments to one child), argument parsing, QML loading, the layer-shell
  attributes of windows, logging, the wiping of buffers, and the build and
  packaging scripts.

## 7. Plan

Done, in this order: GreetdChannel, Controller and Login with their proofs;
FrameQueue and GreetdFraming; KeyboardLayouts, Outputs and Power with their
proofs; the proofs of the pairing and of what rests on it; Boots; DemoLogin with
its proofs; SessionEntries and AccountSource; the proofs of the framing, of the
lives, of the discovered records and of the command line.

What would add most from here: the validation of the configuration, as one
operator over the kinds of value a key may have; that what `hyprlandConfig()`
and the `cage` environment give the compositor is what the configuration names;
and the two laws a sort owes its callers beyond keeping the set (that the list
is ordered, and that a name appears once), which `Ranks` already nearly says.
