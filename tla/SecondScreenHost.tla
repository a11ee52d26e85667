-------------------------- MODULE SecondScreenHost --------------------------
(***************************************************************************)
(* The bottom screen's host on the Android main thread: the Compose state  *)
(* of SecondScreenHost.kt with the snapshot poller it reads                *)
(* (GameSnapshotPoller.kt), the tracker of pause requests                  *)
(* (PauseRequestTracker.kt), the local navigation (PauseNavState.kt) and   *)
(* the save debouncer (OptionsCommands.kt).                                *)
(*                                                                         *)
(* Every action runs on the main thread, so an action is atomic.  The      *)
(* screen the player sees and taps is the one composed last: Compose       *)
(* recomposes on a later display frame (Recompose), so a tap may land on a *)
(* screen that no longer matches the state.                                *)
(*                                                                         *)
(* The environment is a parameter of the actions: what the native read     *)
(* returns and what a submission returns.  Here it is arbitrary;           *)
(* SecondScreen.tla composes the host with the game thread.                *)
(*                                                                         *)
(* Time is counted in ticks of a common divisor of the three delays.       *)
(***************************************************************************)
EXTENDS Integers

CONSTANTS
  Timeout, \* PauseRequestTracker.timeoutMillis (1000 ms), in ticks
  Stall,   \* GameSnapshotPoller.stalenessThresholdMillis (1000 ms), in ticks
  Window,  \* CVarSaveDebouncer.windowMillis (2000 ms), in ticks
  None,    \* Kotlin's null
  NoSnapshot

ASSUME TimeoutAssumption == Timeout \in Nat
ASSUME StallAssumption == Stall \in Nat
ASSUME WindowAssumption == Window \in Nat
ASSUME NoneAssumption == None \notin BOOLEAN /\ None \notin Int

(* The part of GameSnapshot that routes the screen. inGame stands for      *)
(* hasPlayState && saveLoaded.                                             *)
Snapshot == [inGame : BOOLEAN, paused : BOOLEAN, menuOpen : BOOLEAN]
ASSUME NoSnapshotAssumption == NoSnapshot \notin Snapshot

(* What NativeBridge.readSnapshot and decodeSnapshot make of one read. The *)
(* faults are UNAVAILABLE, BUFFER_TOO_SMALL, UNKNOWN_STATUS and a schema   *)
(* mismatch; an OK read without a snapshot is one whose frame counter is   *)
(* zero; "advanced" says that the frame counter is not the last one.       *)
Read ==
  [status : {"FAULT", "RETRY_EXHAUSTED"}, snapshot : {NoSnapshot}, advanced : {FALSE}]
    \cup
  [status : {"OK"}, snapshot : Snapshot \cup {NoSnapshot}, advanced : BOOLEAN]

SubmitStatus == {"OK", "FULL", "INVALID", "UNKNOWN"}
BridgeKind == {"Fault", "NoFramesYet", "Live", "Stalled"}
BridgeState == [kind : BridgeKind, snapshot : Snapshot \cup {NoSnapshot}]
PauseRequestState == {"IDLE", "PENDING", "TIMED_OUT"}
ScreenKind == {"Gameplay", "PauseMenu", "Options", "Idle", "Diagnostic"}

VARIABLES
  lastSnapshot,   \* GameSnapshotPoller.lastSnapshot
  sinceChange,    \* ticks since lastChangeMillis, up to Stall
  state,          \* the BridgeState of the last poll
  view,           \* nav.view
  previousPaused,
  target,         \* PauseRequestTracker.target
  sinceRequest,   \* ticks since requestedAt, up to Timeout + 1
  requestState,   \* pauseRequestState
  failedTarget,
  quiet,          \* ticks until dueAtMillis, None when no save is pending
  screen,         \* what is composed: which screen, its control, its hint
  timedOut        \* history: target of the last request that timed out

pollerVars == <<lastSnapshot, sinceChange, state>>
pauseVars == <<view, previousPaused, target, sinceRequest, requestState,
               failedTarget, timedOut>>
hostVars == <<lastSnapshot, sinceChange, state, view, previousPaused, target,
              sinceRequest, requestState, failedTarget, quiet, screen, timedOut>>

-----------------------------------------------------------------------------
(* HudModel.kt route() and the nav.view split of the pause menu. *)
Route ==
  CASE state.kind = "Fault" -> "Diagnostic"
    [] state.kind = "NoFramesYet" -> "Idle"
    [] OTHER ->
         CASE ~state.snapshot.inGame -> "Idle"
           [] state.snapshot.inGame /\ ~state.snapshot.paused -> "Gameplay"
           [] OTHER -> IF view = "ROOT" THEN "PauseMenu" ELSE "Options"

(* The screen the current state composes to. "enabled" is the pause button *)
(* of Gameplay, the RESUME row of PauseMenu, the RESUME PLAY footer of     *)
(* Options, which has no failure hint.                                     *)
Composed ==
  [kind |-> Route,
   enabled |-> \/ Route = "Options"
               \/ Route = "PauseMenu" /\ requestState # "PENDING"
               \/ /\ Route = "Gameplay" /\ requestState # "PENDING"
                  /\ ~state.snapshot.menuOpen,
   failed |-> \/ Route = "Gameplay" /\ (requestState = "TIMED_OUT" \/ failedTarget = TRUE)
              \/ Route = "PauseMenu" /\ (requestState = "TIMED_OUT" \/ failedTarget = FALSE)]

(* Everything `remember`ed by the composition or owned by the Presentation. *)
HostInit ==
  /\ lastSnapshot = NoSnapshot /\ sinceChange = 0
  /\ state = [kind |-> "NoFramesYet", snapshot |-> NoSnapshot]
  /\ view = "ROOT" /\ previousPaused = None
  /\ target = None /\ sinceRequest = 0
  /\ requestState = "IDLE" /\ failedTarget = None
  /\ quiet = None
  /\ screen = [kind |-> "Idle", enabled |-> FALSE, failed |-> FALSE]
  /\ timedOut = None

-----------------------------------------------------------------------------
(* GameSnapshotPoller.poll.                                                *)

(* The snapshot a read leaves the poller with: a new one, or, on a         *)
(* collision with the publisher, the previous one carried forward.         *)
Current(r) == IF r.status = "OK" THEN r.snapshot ELSE lastSnapshot

(* lastFrameCounter starts where no frame counter is.                      *)
Age(r) ==
  IF r.status = "OK" /\ (r.advanced \/ lastSnapshot = NoSnapshot) THEN 0 ELSE sinceChange

Classify(r) ==
  CASE r.status = "FAULT" -> [kind |-> "Fault", snapshot |-> NoSnapshot]
    [] r.status # "FAULT" /\ Current(r) = NoSnapshot ->
         [kind |-> "NoFramesYet", snapshot |-> NoSnapshot]
    [] OTHER -> [kind |-> IF Age(r) >= Stall THEN "Stalled" ELSE "Live",
                 snapshot |-> Current(r)]

PollBridge(r) ==
  /\ state' = Classify(r)
  /\ IF Classify(r).snapshot = NoSnapshot
     THEN UNCHANGED <<lastSnapshot, sinceChange>>
     ELSE lastSnapshot' = Current(r) /\ sinceChange' = Age(r)

(* CVarSaveDebouncer.isDue. *)
SaveIsDue == quiet = 0

(* Mutation: the pending save is consumed before it is known to be accepted. *)
DischargeSaveEarly(s) == quiet' = IF SaveIsDue THEN None ELSE quiet

(* The poll loop's save: a full ring leaves it pending for the next poll.  *)
DischargeSave(s) ==
  quiet' = IF SaveIsDue /\ s # "FULL" THEN None ELSE quiet

(* Mutation: the deadline is looked at before the observation. *)
ObserveDeadlineFirst(paused) ==
  CASE target = None -> "IDLE"
    [] target # None /\ sinceRequest > Timeout -> "TIMED_OUT"
    [] target # None /\ sinceRequest <= Timeout ->
         IF target = paused THEN "IDLE" ELSE "PENDING"

(* Mutation: no deadline. *)
ObserveForever(paused) == IF target = None \/ target = paused THEN "IDLE" ELSE "PENDING"

(* PauseRequestTracker.observe. *)
Observe(paused) ==
  CASE target = None \/ target = paused -> "IDLE"
    [] target = ~paused /\ sinceRequest > Timeout -> "TIMED_OUT"
    [] OTHER -> "PENDING"

(* A new pause begins at the root: leaving one forgets where it was.       *)
NavAfter(paused) == IF previousPaused = TRUE /\ ~paused THEN "ROOT" ELSE view

ObservePaused(paused) ==
  /\ view' = NavAfter(paused)
  /\ previousPaused' = paused
  /\ requestState' = Observe(paused)
  /\ IF Observe(paused) = "PENDING"
     THEN UNCHANGED <<target, sinceRequest>>
     ELSE target' = None /\ sinceRequest' = 0
  /\ failedTarget' = IF failedTarget = paused THEN None ELSE failedTarget
  /\ timedOut' = IF Observe(paused) = "TIMED_OUT" THEN target ELSE timedOut

(* One round of the poll loop, with the read it got and the status of the  *)
(* save, if one was due.  A composed frame lies between two rounds: the    *)
(* poll interval (100 ms) is several display frames.                       *)
Poll(r, s) ==
  /\ screen = Composed
  /\ PollBridge(r)
  /\ DischargeSave(s)
  /\ IF Classify(r).snapshot = NoSnapshot
     THEN UNCHANGED pauseVars
     ELSE ObservePaused(Classify(r).snapshot.paused)
  /\ UNCHANGED screen

Recompose ==
  /\ screen # Composed
  /\ screen' = Composed
  /\ UNCHANGED <<pollerVars, pauseVars, quiet>>

-----------------------------------------------------------------------------
(* The player's taps on what is composed.                                  *)

(* Mutation: the status of the submission is not looked at. *)
RequestPausedUnchecked(wanted, s) ==
  /\ requestState' = "PENDING"
  /\ IF s = "OK"
     THEN failedTarget' = None /\ target' = wanted /\ sinceRequest' = 0
     ELSE failedTarget' = wanted /\ UNCHANGED <<target, sinceRequest>>
  /\ UNCHANGED <<pollerVars, view, previousPaused, timedOut, quiet, screen>>

RequestPaused(wanted, s) ==
  /\ IF s = "OK"
     THEN /\ failedTarget' = None
          /\ target' = wanted /\ sinceRequest' = 0
          /\ requestState' = "PENDING"
     ELSE /\ failedTarget' = wanted
          /\ UNCHANGED <<target, sinceRequest, requestState>>
  /\ UNCHANGED <<pollerVars, view, previousPaused, timedOut, quiet, screen>>

PauseTap(s) == screen.kind = "Gameplay" /\ screen.enabled /\ RequestPaused(TRUE, s)

ResumeTap(s) ==
  /\ screen.kind \in {"PauseMenu", "Options"}
  /\ screen.enabled
  /\ RequestPaused(FALSE, s)

OptionsTap ==
  /\ screen.kind = "PauseMenu"
  /\ view' = "OPTIONS"
  /\ UNCHANGED <<pollerVars, previousPaused, target, sinceRequest, requestState,
                 failedTarget, timedOut, quiet, screen>>

BackTap ==
  /\ screen.kind = "Options"
  /\ view' = "ROOT"
  /\ UNCHANGED <<pollerVars, previousPaused, target, sinceRequest, requestState,
                 failedTarget, timedOut, quiet, screen>>

(* Mutation: the change is not noted. *)
RowChangeUnnoted ==
  /\ screen.kind = "Options"
  /\ UNCHANGED <<pollerVars, pauseVars, quiet, screen>>

(* A row's new value is submitted; its status is not looked at.            *)
RowChange ==
  /\ screen.kind = "Options"
  /\ quiet' = Window
  /\ UNCHANGED <<pollerVars, pauseVars, screen>>

-----------------------------------------------------------------------------
Aged(age, limit) == IF age < limit THEN age + 1 ELSE age

Tick ==
  /\ sinceChange' = IF lastSnapshot = NoSnapshot THEN 0 ELSE Aged(sinceChange, Stall)
  /\ sinceRequest' = IF target = None THEN 0 ELSE Aged(sinceRequest, Timeout + 1)
  /\ quiet' = IF quiet \in {None, 0} THEN quiet ELSE quiet - 1
  /\ UNCHANGED <<lastSnapshot, state, view, previousPaused, target,
                 requestState, failedTarget, screen, timedOut>>

(* SecondScreenManager dismisses the Presentation and shows a new one, with *)
(* its own poller, tracker and composition.                                 *)
Reshow ==
  /\ lastSnapshot' = NoSnapshot /\ sinceChange' = 0
  /\ state' = [kind |-> "NoFramesYet", snapshot |-> NoSnapshot]
  /\ view' = "ROOT" /\ previousPaused' = None
  /\ target' = None /\ sinceRequest' = 0
  /\ requestState' = "IDLE" /\ failedTarget' = None
  /\ quiet' = None
  /\ screen' = [kind |-> "Idle", enabled |-> FALSE, failed |-> FALSE]
  /\ timedOut' = None

-----------------------------------------------------------------------------
(* The host in an arbitrary environment. *)
HostNext ==
  \/ \E r \in Read, s \in SubmitStatus : Poll(r, s)
  \/ \E s \in SubmitStatus : PauseTap(s) \/ ResumeTap(s)
  \/ OptionsTap \/ BackTap \/ RowChange
  \/ Recompose \/ Tick \/ Reshow

HostSpec == HostInit /\ [][HostNext]_hostVars

-----------------------------------------------------------------------------
HostTypeOK ==
  /\ lastSnapshot \in Snapshot \cup {NoSnapshot}
  /\ sinceChange \in 0 .. Stall
  /\ state \in BridgeState
  /\ view \in {"ROOT", "OPTIONS"}
  /\ previousPaused \in BOOLEAN \cup {None}
  /\ target \in BOOLEAN \cup {None}
  /\ sinceRequest \in 0 .. Timeout + 1
  /\ requestState \in PauseRequestState
  /\ failedTarget \in BOOLEAN \cup {None}
  /\ quiet \in 0 .. Window \cup {None}
  /\ screen \in [kind : ScreenKind, enabled : BOOLEAN, failed : BOOLEAN]
  /\ timedOut \in BOOLEAN \cup {None}

(* The controls show a request as pending exactly while the tracker still  *)
(* waits for it, so no control stays disabled on behalf of nothing and no  *)
(* request is awaited unseen (PauseRequestTracker.kt:22-28, with the three *)
(* places of SecondScreenHost.kt that write pauseRequestState).            *)
PendingIsTracked == requestState = "PENDING" <=> target # None

(* PAUSE FAILED and RESUME FAILED are about the control they stand at: a   *)
(* hint for a request that timed out is shown on the screen of that         *)
(* request's target, although TIMED_OUT carries no target: the tracker and  *)
(* the router make the same of one observation (PauseRequestTracker.kt:14,  *)
(* "visible only on the screen for that target").                           *)
TimeoutOnItsScreen ==
  requestState = "TIMED_OUT" /\ screen = Composed =>
    /\ screen.kind = "Gameplay" => timedOut = TRUE
    /\ screen.kind \in {"PauseMenu", "Options"} => timedOut = FALSE

(* Every new pause opens at the root of the pause menu: an observation     *)
(* that begins a pause finds the view there (SecondScreenHostTest.kt:96,   *)
(* "observed unpause resets options navigation before the next pause").    *)
PauseOpensAtRoot ==
  [][ previousPaused # TRUE /\ previousPaused' = TRUE => view' = "ROOT" ]_hostVars

-----------------------------------------------------------------------------
(* The inductive invariant behind the two invariants above.                *)

BridgeInv == state.kind \in {"Live", "Stalled"} <=> state.snapshot # NoSnapshot

(* A timeout is still what the last observation made of the request. *)
TimeoutInv ==
  requestState = "TIMED_OUT" =>
    /\ timedOut \in BOOLEAN
    /\ state.snapshot # NoSnapshot => state.snapshot.paused # timedOut

HostIInv == HostTypeOK /\ BridgeInv /\ PendingIsTracked /\ TimeoutInv
=============================================================================
