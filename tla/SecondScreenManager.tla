------------------------- MODULE SecondScreenManager -------------------------
(***************************************************************************)
(* SecondScreenManager.kt: which display the Presentation is on, and the   *)
(* main display's refresh rate on its way to the game                      *)
(* (MainDisplayRefreshReporter.kt, the command ring, DisplayRefresh.cpp).  *)
(*                                                                         *)
(* The displays change at any time.  The display service tells the main    *)
(* thread through its message queue ("messages"): the manager's listener   *)
(* refreshes, and a Presentation cancels itself when its display is gone.  *)
(* refresh() reads the displays when it runs, so it may see later changes  *)
(* than the one it was called for, and show() runs after more of them.     *)
(***************************************************************************)
EXTENDS Integers, Sequences, FiniteSets

CONSTANTS
  Secondary,   \* ids of the displays that are not the default one
  Modes,       \* what a DisplayInfo of one of them may say
  Rates,       \* the main display's refresh rates
  Override,    \* the preferred display id, None when not set
  Capacity,    \* TDS_CMD_QUEUE_CAPACITY (16)
  None,
  Other,       \* a command of another kind
  MaxChanges,  \* bound: changes of the displays
  MaxStops,    \* bound: stops of the activity
  MaxOthers    \* bound: commands of other kinds in a behaviour

ASSUME SecondaryAssumption == Secondary \subseteq Nat
ASSUME RatesAssumption == Rates \subseteq 1 .. 1000
ASSUME CapacityAssumption == Capacity \in Nat
ASSUME NoneAssumption ==
  /\ None \notin Int /\ None \notin Modes /\ Other \notin Int
  /\ None \notin [display : Secondary, mode : Modes]

VARIABLES
  attached,      \* the mode of each secondary display, None when absent
  rate,          \* the main display's rate
  messages,      \* the main thread's queue
  started,
  presentation,  \* [display, mode] of presentation and shownInfo, or None
  isShowing,
  choosing,      \* the display refresh() is about to show, None outside it
  lastRefreshHz, \* MainDisplayRefreshReporter.lastRefreshHz
  dropped,       \* history: the last report met a full ring
  ring,          \* commands: a rate, or Other
  sDisplayRefreshHz,
  changes, stops, others

bounds == <<changes, stops, others>>
displayVars == <<attached, rate>>
showVars == <<presentation, isShowing, choosing>>
reportVars == <<lastRefreshHz, dropped>>
vars == <<attached, rate, messages, started, presentation, isShowing, choosing,
          lastRefreshHz, dropped, ring, sDisplayRefreshHz, changes, stops,
          others>>

Info(d) == [display |-> d, mode |-> attached[d]]

Init ==
  /\ attached \in [Secondary -> Modes \cup {None}]
  /\ rate \in Rates
  /\ messages = <<>> /\ started = FALSE
  /\ presentation = None /\ isShowing = FALSE /\ choosing = None
  /\ lastRefreshHz = None /\ dropped = FALSE
  /\ ring = <<>> /\ sDisplayRefreshHz = 0
  /\ changes = 0 /\ stops = 0 /\ others = 0

-----------------------------------------------------------------------------
(* DisplaySelectionPolicy.select: the override if it is there, else the    *)
(* first of the others in the service's order.                             *)
Candidates == {d \in Secondary : attached[d] # None}

Chosen ==
  CASE Candidates = {} -> None
    [] Override \in Candidates -> Override
    [] OTHER -> CHOOSE d \in Candidates : \A e \in Candidates : d <= e

(* Mutation: only the first rate is reported. *)
ReportOnce ==
  IF lastRefreshHz # None
  THEN UNCHANGED <<reportVars, ring>>
  ELSE /\ lastRefreshHz' = rate
       /\ ring' = IF Len(ring) < Capacity THEN Append(ring, rate) ELSE ring
       /\ dropped' = (Len(ring) >= Capacity)

(* MainDisplayRefreshReporter.refresh: the status is not looked at.        *)
Report ==
  IF rate = lastRefreshHz
  THEN UNCHANGED <<reportVars, ring>>
  ELSE /\ lastRefreshHz' = rate
       /\ ring' = IF Len(ring) < Capacity THEN Append(ring, rate) ELSE ring
       /\ dropped' = (Len(ring) >= Capacity)

(* Dismissing unregisters the Presentation's own listener. *)
WithoutCancel(q) ==
  [i \in 1 .. Cardinality({k \in DOMAIN q : q[k] = "refresh"}) |-> "refresh"]

(* Mutation: the displays are compared by their ids. *)
RefreshById(q) ==
  /\ Report
  /\ IF isShowing /\ Chosen # None /\ presentation.display = Chosen
     THEN messages' = q /\ UNCHANGED showVars
     ELSE /\ presentation' = None /\ isShowing' = FALSE
          /\ choosing' = IF Chosen = None THEN None ELSE Info(Chosen)
          /\ messages' = WithoutCancel(q)

(* Mutation: a Presentation that cancelled itself counts as showing. *)
RefreshUnlessKept(q) ==
  /\ Report
  /\ IF Chosen # None /\ presentation = Info(Chosen)
     THEN messages' = q /\ UNCHANGED showVars
     ELSE /\ presentation' = None /\ isShowing' = FALSE
          /\ choosing' = IF Chosen = None THEN None ELSE Info(Chosen)
          /\ messages' = WithoutCancel(q)

(* refresh() up to show(); q is what is left of the message queue.         *)
Refresh(q) ==
  /\ Report
  /\ IF isShowing /\ Chosen # None /\ presentation = Info(Chosen)
     THEN messages' = q /\ UNCHANGED showVars
     ELSE /\ presentation' = None /\ isShowing' = FALSE
          /\ choosing' = IF Chosen = None THEN None ELSE Info(Chosen)
          /\ messages' = WithoutCancel(q)

(* The main thread is between two callbacks. *)
Ready == choosing = None

(* show() throws when the display has gone since. *)
Show ==
  /\ ~Ready
  /\ choosing' = None
  /\ IF attached[choosing.display] # None
     THEN presentation' = choosing /\ isShowing' = TRUE
     ELSE presentation' = None /\ isShowing' = FALSE
  /\ UNCHANGED <<displayVars, messages, started, reportVars, ring,
                 sDisplayRefreshHz, bounds>>

-----------------------------------------------------------------------------
Start ==
  /\ Ready /\ ~started
  /\ started' = TRUE
  /\ Refresh(messages)
  /\ UNCHANGED <<displayVars, sDisplayRefreshHz, bounds>>

(* Mutation: stop() drops the Presentation without dismissing it. *)
StopWithoutDismiss ==
  /\ Ready /\ started /\ stops < MaxStops
  /\ started' = FALSE
  /\ messages' = <<>>
  /\ presentation' = None
  /\ stops' = stops + 1
  /\ UNCHANGED <<displayVars, isShowing, choosing, reportVars, ring,
                 sDisplayRefreshHz, changes, others>>

Stop ==
  /\ Ready /\ started /\ stops < MaxStops
  /\ started' = FALSE
  /\ messages' = <<>>
  /\ presentation' = None /\ isShowing' = FALSE
  /\ stops' = stops + 1
  /\ UNCHANGED <<displayVars, choosing, reportVars, ring, sDisplayRefreshHz,
                 changes, others>>

(* A callback of the manager's listener, or of the Presentation's.         *)
OnDisplay ==
  /\ Ready /\ messages # <<>> /\ Head(messages) = "refresh"
  /\ Refresh(Tail(messages))
  /\ UNCHANGED <<displayVars, started, sDisplayRefreshHz, bounds>>

OnCancel ==
  /\ Ready /\ messages # <<>> /\ Head(messages) = "cancel"
  /\ isShowing' = FALSE
  /\ messages' = WithoutCancel(Tail(messages))
  /\ UNCHANGED <<displayVars, started, presentation, choosing, reportVars,
                 ring, sDisplayRefreshHz, bounds>>

OnActivityResume ==
  /\ Ready /\ started
  /\ Refresh(messages)
  /\ UNCHANGED <<displayVars, started, sDisplayRefreshHz, bounds>>

(* Another command of the main thread: a tap on the bottom screen.         *)
OtherCommand ==
  /\ Ready /\ isShowing /\ others < MaxOthers
  /\ others' = others + 1
  /\ ring' = IF Len(ring) < Capacity THEN Append(ring, Other) ELSE ring
  /\ UNCHANGED <<displayVars, messages, started, showVars, reportVars,
                 sDisplayRefreshHz, changes, stops>>

-----------------------------------------------------------------------------
(* The display service. *)
Notify(gone) ==
  messages' = messages
    \o (IF started THEN <<"refresh">> ELSE <<>>)
    \o (IF isShowing /\ presentation.display \in gone THEN <<"cancel">> ELSE <<>>)

Change == changes < MaxChanges /\ changes' = changes + 1
  /\ UNCHANGED <<started, showVars, reportVars, ring, sDisplayRefreshHz, stops, others>>

(* A display is added, changes its mode, or is removed. *)
DisplayChanges(d, mode) ==
  /\ Change
  /\ attached[d] # mode
  /\ attached' = [attached EXCEPT ![d] = mode]
  /\ Notify(IF mode = None THEN {d} ELSE {})
  /\ UNCHANGED rate

RateChanges(hz) ==
  /\ Change
  /\ rate # hz
  /\ rate' = hz
  /\ Notify({})
  /\ UNCHANGED attached

(* The game thread drains the ring; GetInterpolationFPS and the publisher  *)
(* read the rate: the last one reported.                                   *)
LastReported(k) ==
  /\ k \in DOMAIN ring /\ ring[k] # Other
  /\ \A j \in DOMAIN ring : j > k => ring[j] = Other

Drain ==
  /\ ring # <<>>
  /\ ring' = <<>>
  /\ \/ \E k \in DOMAIN ring : LastReported(k) /\ sDisplayRefreshHz' = ring[k]
     \/ (\A k \in DOMAIN ring : ring[k] = Other) /\ UNCHANGED sDisplayRefreshHz
  /\ UNCHANGED <<displayVars, messages, started, showVars, reportVars, bounds>>

Next ==
  \/ Start \/ Stop \/ OnDisplay \/ OnCancel \/ OnActivityResume \/ Show
  \/ OtherCommand \/ Drain
  \/ \E d \in Secondary, mode \in Modes \cup {None} : DisplayChanges(d, mode)
  \/ \E hz \in Rates : RateChanges(hz)

(* The main thread handles its messages and ends what it began, the game   *)
(* loop drains; the activity is not made to start, stop or resume.         *)
Fairness ==
  /\ WF_vars(OnDisplay \/ OnCancel \/ Show)
  /\ WF_vars(Drain)

Spec == Init /\ [][Next]_vars /\ Fairness

-----------------------------------------------------------------------------
Infos == [display : Secondary, mode : Modes]

TypeOK ==
  /\ attached \in [Secondary -> Modes \cup {None}]
  /\ rate \in Rates
  /\ messages \in Seq({"refresh", "cancel"})
  /\ started \in BOOLEAN
  /\ presentation \in Infos \cup {None}
  /\ isShowing \in BOOLEAN
  /\ isShowing => presentation # None
  /\ choosing \in Infos \cup {None}
  /\ lastRefreshHz \in Rates \cup {None} /\ dropped \in BOOLEAN
  /\ ring \in Seq(Rates \cup {Other})
  /\ Len(ring) <= Capacity
  /\ sDisplayRefreshHz \in Rates \cup {0}

(* What the bottom screen should be showing: the chosen display's current  *)
(* mode, and nothing when there is no display or the activity is stopped.  *)
ShowsTheRightDisplay ==
  IF started /\ Chosen # None
  THEN isShowing /\ presentation = Info(Chosen)
  ELSE ~isShowing

(* Whatever displays come, go and change, and whatever a callback saw      *)
(* before or after its cause, the bottom screen settles on the right       *)
(* display in its current mode (SecondScreenManager.kt:91-98).             *)
SettlesOnDisplay == <>[]ShowsTheRightDisplay

(* The Presentation is never left up, and never comes up, while the        *)
(* activity is stopped, and there is never a stale one beside a message    *)
(* queue that is done: a wrong screen always has a callback under way.     *)
WrongScreenIsTransient ==
  ~ShowsTheRightDisplay => started /\ (messages # <<>> \/ ~Ready)

(* The inductive invariant.  Nothing runs for a stopped activity; while a  *)
(* display is being chosen nothing is shown.                               *)
StoppedIsQuiet == ~started => Ready /\ ~isShowing /\ messages = <<>>

ChoosingHides == ~Ready => ~isShowing

(* Only a Presentation that is up has a cancel on its way to it.           *)
CancelsAreForOne ==
  ~isShowing => \A k \in DOMAIN messages : messages[k] = "refresh"

(* A cancel that no refresh follows is of a display still gone, and has a  *)
(* refresh before it.                                                      *)
CancelIsFounded ==
  messages # <<>> =>
    \/ messages[Len(messages)] = "refresh"
    \/ /\ presentation # None /\ attached[presentation.display] = None
       /\ \E k \in DOMAIN messages : messages[k] = "refresh"

(* With no message left the display chosen is the right one, shown or      *)
(* about to be.                                                            *)
SettledWhenDone ==
  started /\ messages = <<>> =>
    IF Ready THEN ShowsTheRightDisplay
    ELSE Chosen # None /\ choosing = Info(Chosen)

IInv ==
  /\ TypeOK
  /\ StoppedIsQuiet /\ ChoosingHides /\ CancelsAreForOne
  /\ CancelIsFounded /\ SettledWhenDone

(* The game comes to pace itself by the main display's rate ("Android is   *)
(* now the source of truth", docs/HANDOFF.md:376; a dropped report         *)
(* "self-corrects on the next poll", docs/HANDOFF.md:381-382).             *)
RateReachesGame == <>[](started => sDisplayRefreshHz = rate)

(* It does whenever the last report found room in the ring, whatever rates *)
(* and commands are in the ring before it and whatever was dropped before  *)
(* (MainDisplayRefreshReporter.kt:15-18).                                  *)
AcceptedRateReachesGame ==
  <>[](started /\ ~dropped => sDisplayRefreshHz = rate)
=============================================================================
