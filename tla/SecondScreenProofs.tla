------------------------- MODULE SecondScreenProofs -------------------------
(***************************************************************************)
(* Proofs about the bottom screen.  The first half is about                *)
(* SecondScreenHost.tla, for every value of the delays and in every        *)
(* environment: whatever the native side answers, and whenever.  The       *)
(* second half is about SecondScreen.tla, the host joined to the game      *)
(* thread, for every size of the ring and any number of taps and events.   *)
(***************************************************************************)
EXTENDS SecondScreen, SequenceTheorems, TLAPS

USE NoneAssumption, NoSnapshotAssumption

(* What the next state's bridge state is, and what it tells of the read. *)
LEMMA ClassifyType ==
  ASSUME HostTypeOK, NEW r \in Read
  PROVE  /\ Classify(r) \in BridgeState
         /\ Classify(r).kind \in {"Live", "Stalled"} <=> Classify(r).snapshot # NoSnapshot
         /\ Classify(r).snapshot # NoSnapshot =>
              /\ Classify(r).snapshot = Current(r)
              /\ Classify(r).snapshot.paused \in BOOLEAN
         /\ Age(r) \in 0 .. Stall
<1>1. Current(r) \in Snapshot \cup {NoSnapshot}
  BY DEF Current, Read, HostTypeOK
<1>2. Age(r) \in 0 .. Stall
  BY StallAssumption DEF Age, HostTypeOK
<1>3. CASE r.status = "FAULT"
  BY <1>2, <1>3 DEF Classify, BridgeState, BridgeKind
<1>4. CASE r.status # "FAULT" /\ Current(r) = NoSnapshot
  BY <1>2, <1>4 DEF Classify, BridgeState, BridgeKind
<1>5. CASE r.status # "FAULT" /\ Current(r) # NoSnapshot
  <2>1. Current(r) \in Snapshot
    BY <1>1, <1>5
  <2>2. Classify(r) = [kind |-> IF Age(r) >= Stall THEN "Stalled" ELSE "Live",
                       snapshot |-> Current(r)]
    BY <1>5 DEF Classify
  <2>3. Current(r).paused \in BOOLEAN
    BY <2>1 DEF Snapshot
  <2> QED
    BY <1>2, <2>1, <2>2, <2>3 DEF BridgeState, BridgeKind
<1> QED
  BY <1>3, <1>4, <1>5

(* What is composed is a screen. *)
LEMMA ComposedType ==
  ASSUME HostTypeOK, BridgeInv
  PROVE  Composed \in [kind : ScreenKind, enabled : BOOLEAN, failed : BOOLEAN]
<1>1. Route \in ScreenKind
  BY DEF Route, ScreenKind
<1> QED
  BY <1>1 DEF Composed

-----------------------------------------------------------------------------
LEMMA PollKeepsInv ==
  ASSUME HostIInv, NEW r \in Read, NEW s \in SubmitStatus, Poll(r, s)
  PROVE  HostIInv'
<1> USE DEF HostIInv
<1>1. /\ state' = Classify(r)
      /\ UNCHANGED screen
      /\ quiet' = IF SaveIsDue /\ s # "FULL" THEN None ELSE quiet
  BY DEF Poll, PollBridge, DischargeSave
<1>2. /\ lastSnapshot' \in Snapshot \cup {NoSnapshot}
      /\ sinceChange' \in 0 .. Stall
  <2>1. CASE Classify(r).snapshot = NoSnapshot
    BY <2>1 DEF Poll, PollBridge, HostTypeOK
  <2>2. CASE Classify(r).snapshot # NoSnapshot
    <3>1. Classify(r).snapshot \in Snapshot \cup {NoSnapshot}
      BY ClassifyType DEF BridgeState
    <3> QED
      BY <2>2, <3>1, ClassifyType DEF Poll, PollBridge
  <2> QED
    BY <2>1, <2>2
<1>3. BridgeInv' /\ state' \in BridgeState
  BY <1>1, ClassifyType DEF BridgeInv
<1>4. quiet' \in 0 .. Window \cup {None}
  BY <1>1 DEF HostTypeOK
<1>5. CASE Classify(r).snapshot = NoSnapshot
  <2>1. UNCHANGED pauseVars
    BY <1>5 DEF Poll
  <2> QED
    BY <1>1, <1>2, <1>3, <1>4, <1>5, <2>1
       DEF pauseVars, HostTypeOK, PendingIsTracked, TimeoutInv
<1>6. CASE Classify(r).snapshot # NoSnapshot
  <2> DEFINE paused == Classify(r).snapshot.paused
  <2>1. ObservePaused(paused) /\ paused \in BOOLEAN
    BY <1>6, ClassifyType DEF Poll
  <2> HIDE DEF paused
  <2>2. /\ view' \in {"ROOT", "OPTIONS"}
        /\ previousPaused' \in BOOLEAN \cup {None}
        /\ failedTarget' \in BOOLEAN \cup {None}
    BY <2>1 DEF ObservePaused, NavAfter, HostTypeOK
  <2>3. /\ Observe(paused) \in PauseRequestState
        /\ Observe(paused) = "PENDING" => target # None
        /\ Observe(paused) = "TIMED_OUT" => target \in BOOLEAN /\ target # paused
    BY <2>1 DEF Observe, PauseRequestState, HostTypeOK
  <2>4. /\ target' \in BOOLEAN \cup {None}
        /\ sinceRequest' \in 0 .. Timeout + 1
        /\ requestState' = Observe(paused)
        /\ PendingIsTracked'
    BY <2>1, <2>3, TimeoutAssumption DEF ObservePaused, HostTypeOK, PendingIsTracked
  <2>5. /\ timedOut' \in BOOLEAN \cup {None}
        /\ requestState' = "TIMED_OUT" => timedOut' \in BOOLEAN /\ timedOut' # paused
    BY <2>1, <2>3 DEF ObservePaused, HostTypeOK
  <2>6. TimeoutInv'
    BY <1>1, <2>5 DEF TimeoutInv, paused
  <2> QED
    BY <1>1, <1>2, <1>3, <1>4, <2>2, <2>3, <2>4, <2>5, <2>6 DEF HostTypeOK
<1> QED
  BY <1>5, <1>6

LEMMA RequestKeepsInv ==
  ASSUME HostIInv, NEW wanted \in BOOLEAN, NEW s \in SubmitStatus,
         RequestPaused(wanted, s)
  PROVE  HostIInv'
<1> USE TimeoutAssumption
    DEF HostIInv, HostTypeOK, PauseRequestState, RequestPaused, pollerVars
<1>1. HostTypeOK'
  OBVIOUS
<1>2. BridgeInv'
  BY DEF BridgeInv
<1>3. PendingIsTracked' /\ TimeoutInv'
  BY DEF PendingIsTracked, TimeoutInv
<1> QED
  BY <1>1, <1>2, <1>3

LEMMA TickKeepsInv ==
  ASSUME HostIInv, Tick
  PROVE  HostIInv'
<1> USE TimeoutAssumption, StallAssumption, WindowAssumption DEF HostIInv, Tick
<1>1. sinceChange' \in 0 .. Stall /\ sinceRequest' \in 0 .. Timeout + 1
  BY DEF HostTypeOK, Aged
<1>2. quiet' \in 0 .. Window \cup {None}
  BY DEF HostTypeOK
<1>3. HostTypeOK'
  BY <1>1, <1>2 DEF HostTypeOK
<1>4. BridgeInv' /\ PendingIsTracked' /\ TimeoutInv'
  BY DEF BridgeInv, PendingIsTracked, TimeoutInv
<1> QED
  BY <1>3, <1>4

LEMMA InitHasInv == HostInit => HostIInv
  BY TimeoutAssumption, StallAssumption
     DEF HostInit, HostIInv, HostTypeOK, BridgeInv, PendingIsTracked, TimeoutInv,
         BridgeState, BridgeKind, PauseRequestState, ScreenKind

LEMMA StepKeepsInv ==
  ASSUME HostIInv, [HostNext]_hostVars
  PROVE  HostIInv'
<1>1. ASSUME NEW r \in Read, NEW s \in SubmitStatus, Poll(r, s)
      PROVE  HostIInv'
  BY <1>1, PollKeepsInv
<1>2. ASSUME NEW s \in SubmitStatus, PauseTap(s) \/ ResumeTap(s)
      PROVE  HostIInv'
  BY <1>2, RequestKeepsInv DEF PauseTap, ResumeTap
<1>3. ASSUME OptionsTap \/ BackTap \/ RowChange
      PROVE  HostIInv'
  BY <1>3, WindowAssumption
     DEF OptionsTap, BackTap, RowChange, HostIInv, HostTypeOK, BridgeInv,
         PendingIsTracked, TimeoutInv, pollerVars, pauseVars
<1>4. ASSUME Recompose
      PROVE  HostIInv'
  <2>1. screen' \in [kind : ScreenKind, enabled : BOOLEAN, failed : BOOLEAN]
    BY <1>4, ComposedType DEF HostIInv, Recompose
  <2> QED
    BY <1>4, <2>1
       DEF Recompose, HostIInv, HostTypeOK, BridgeInv, PendingIsTracked,
           TimeoutInv, pollerVars, pauseVars
<1>5. CASE Tick
  BY <1>5, TickKeepsInv
<1>6. ASSUME Reshow
      PROVE  HostIInv'
  BY <1>6, TimeoutAssumption, StallAssumption
     DEF Reshow, HostIInv, HostTypeOK, BridgeInv, PendingIsTracked, TimeoutInv,
         BridgeState, BridgeKind, PauseRequestState, ScreenKind
<1>7. CASE UNCHANGED hostVars
  BY <1>7
     DEF hostVars, HostIInv, HostTypeOK, BridgeInv, PendingIsTracked, TimeoutInv
<1> QED
  BY <1>1, <1>2, <1>3, <1>4, <1>5, <1>6, <1>7 DEF HostNext

(* The inductive invariant holds in every reachable state of the host. *)
THEOREM HostInvariant == HostSpec => []HostIInv
<1>1. HostInit => HostIInv
  BY InitHasInv
<1>2. HostIInv /\ [HostNext]_hostVars => HostIInv'
  BY StepKeepsInv
<1> QED
  BY <1>1, <1>2, PTL DEF HostSpec

(* The pending look of a control and the tracker's request come and go     *)
(* together (SecondScreenHost.kt:80, :102, :120, :148).                    *)
THEOREM HostPendingIsTracked == HostSpec => []PendingIsTracked
<1>1. HostIInv => PendingIsTracked
  BY DEF HostIInv
<1> QED
  BY <1>1, HostInvariant, PTL

(* A timeout is only ever shown by the control of the request that timed   *)
(* out (HudModel.kt:156-163 and PauseRequestTracker.kt:41-52).             *)
THEOREM HostTimeoutOnItsScreen == HostSpec => []TimeoutOnItsScreen
<1>1. ASSUME HostIInv, requestState = "TIMED_OUT", screen = Composed
      PROVE  /\ screen.kind = "Gameplay" => timedOut = TRUE
             /\ screen.kind \in {"PauseMenu", "Options"} => timedOut = FALSE
  <2>1. screen.kind = Route
    BY <1>1 DEF Composed
  <2>2. /\ Route = "Gameplay" => /\ state.kind \in {"Live", "Stalled"}
                                 /\ ~state.snapshot.paused
        /\ Route \in {"PauseMenu", "Options"} => /\ state.kind \in {"Live", "Stalled"}
                                                 /\ state.snapshot.paused
    BY <1>1 DEF Route, HostIInv, HostTypeOK, BridgeState, BridgeKind
  <2>3. state.snapshot # NoSnapshot => state.snapshot.paused \in BOOLEAN
    BY <1>1 DEF HostIInv, HostTypeOK, BridgeState, Snapshot
  <2> QED
    BY <1>1, <2>1, <2>2, <2>3 DEF HostIInv, BridgeInv, TimeoutInv
<1>2. HostIInv => TimeoutOnItsScreen
  BY <1>1 DEF TimeoutOnItsScreen
<1> QED
  BY <1>2, HostInvariant, PTL

-----------------------------------------------------------------------------
(* The ring, seen as the queue of the commands that wait.                  *)

LEMMA RestOfQueue ==
  ASSUME NEW q \in Seq(Commands), NEW n \in Nat, n <= Len(q)
  PROVE  /\ SubSeq(q, n + 1, Len(q)) \in Seq(Commands)
         /\ Len(SubSeq(q, n + 1, Len(q))) = Len(q) - n
         /\ \A i \in 1 .. Len(q) - n : SubSeq(q, n + 1, Len(q))[i] = q[n + i]
<1> DEFINE w == SubSeq(q, n + 1, Len(q))
<1>1. Len(q) \in Nat
  BY LenProperties
<1>2. \A i \in n + 1 .. Len(q) : q[i] \in Commands
  BY <1>1, ElementOfSeq
<1>3. /\ w \in Seq(Commands)
      /\ Len(w) = IF n + 1 <= Len(q) THEN Len(q) - (n + 1) + 1 ELSE 0
      /\ \A i \in 1 .. Len(q) - (n + 1) + 1 : w[i] = q[n + 1 + i - 1]
  <2>1. n + 1 \in Int /\ Len(q) \in Int
    BY <1>1
  <2> QED
    BY <1>2, <2>1, SubSeqProperties
<1> HIDE DEF w
<1>4. Len(w) = Len(q) - n /\ \A i \in 1 .. Len(q) - n : w[i] = q[n + i]
  BY <1>1, <1>3
<1> QED
  BY <1>3, <1>4 DEF w

LEMMA WaitingType ==
  ASSUME GameTypeOK
  PROVE  /\ Waiting \in Seq(Commands)
         /\ Len(Waiting) = Len(ring) - applied
         /\ \A i \in 1 .. Len(Waiting) : Waiting[i] = ring[applied + i]
<1>1. /\ ring \in Seq(Commands) /\ Len(ring) \in Nat
      /\ applied \in Nat /\ applied <= Len(ring)
  BY LenProperties DEF GameTypeOK
<1> QED
  BY <1>1, RestOfQueue DEF Waiting

LEMMA WaitingTypeNext ==
  ASSUME GameTypeOK'
  PROVE  /\ Waiting' \in Seq(Commands)
         /\ Len(Waiting') = Len(ring') - applied'
         /\ \A i \in 1 .. Len(Waiting') : Waiting'[i] = ring'[applied' + i]
<1>1. /\ ring' \in Seq(Commands) /\ Len(ring') \in Nat
      /\ applied' \in Nat /\ applied' <= Len(ring')
  BY LenProperties DEF GameTypeOK
<1> QED
  BY <1>1, RestOfQueue DEF Waiting

(* An accepted command waits last. *)
LEMMA EnqueueAppends ==
  ASSUME GameTypeOK, GameTypeOK', NEW c \in Commands, Enqueue(c), UNCHANGED applied
  PROVE  Waiting' = Append(Waiting, c)
<1>1. /\ ring \in Seq(Commands) /\ Len(ring) \in Nat
      /\ applied \in Nat /\ applied <= Len(ring)
  BY LenProperties DEF GameTypeOK
<1>2. /\ Waiting \in Seq(Commands) /\ Len(Waiting) = Len(ring) - applied
      /\ \A i \in 1 .. Len(Waiting) : Waiting[i] = ring[applied + i]
  BY WaitingType
<1>3. /\ Waiting' \in Seq(Commands) /\ Len(Waiting') = Len(ring') - applied
      /\ \A i \in 1 .. Len(Waiting') : Waiting'[i] = ring'[applied + i]
  <2>1. /\ Waiting' \in Seq(Commands) /\ Len(Waiting') = Len(ring') - applied'
        /\ \A i \in 1 .. Len(Waiting') : Waiting'[i] = ring'[applied' + i]
    BY WaitingTypeNext
  <2> QED
    BY <2>1
<1>4. /\ Len(ring') = Len(ring) + 1
      /\ \A i \in 1 .. Len(ring) : ring'[i] = ring[i]
      /\ ring'[Len(ring) + 1] = c
  BY <1>1, AppendProperties DEF Enqueue
<1>5. /\ Append(Waiting, c) \in Seq(Commands)
      /\ Len(Append(Waiting, c)) = Len(Waiting) + 1
      /\ \A i \in 1 .. Len(Waiting) : Append(Waiting, c)[i] = Waiting[i]
      /\ Append(Waiting, c)[Len(Waiting) + 1] = c
  BY <1>2, AppendProperties
<1>6. Len(Waiting') = Len(Waiting) + 1 /\ Len(Waiting) \in Nat
  BY <1>1, <1>2, <1>3, <1>4
<1>7. ASSUME NEW i \in 1 .. Len(Waiting')
      PROVE  Waiting'[i] = Append(Waiting, c)[i]
  <2>1. Waiting'[i] = ring'[applied + i]
    BY <1>3
  <2>2. CASE i \in 1 .. Len(Waiting)
    <3>1. applied + i \in 1 .. Len(ring)
      BY <1>1, <1>2, <2>2
    <3> QED  BY <1>2, <1>4, <1>5, <2>1, <2>2, <3>1
  <2>3. CASE i = Len(Waiting) + 1
    <3>1. applied + i = Len(ring) + 1
      BY <1>1, <1>2, <2>3
    <3> QED  BY <1>4, <1>5, <2>1, <2>3, <3>1
  <2> QED  BY <1>6, <2>2, <2>3
<1>8. Len(Waiting') = Len(Append(Waiting, c))
  BY <1>5, <1>6
<1> QED
  BY <1>3, <1>5, <1>7, <1>8, SeqEqual

(* A drain applies the command that waits first ... *)
LEMMA ApplyTakesFirst ==
  ASSUME GameTypeOK, GameTypeOK', Apply
  PROVE  /\ Waiting # <<>>
         /\ ring[applied + 1] = Waiting[1]
         /\ Waiting' = Tail(Waiting)
<1>1. /\ ring \in Seq(Commands) /\ Len(ring) \in Nat
      /\ applied \in Nat /\ applied < Len(ring)
  BY LenProperties DEF GameTypeOK, Apply
<1>2. /\ Waiting \in Seq(Commands) /\ Len(Waiting) = Len(ring) - applied
      /\ \A i \in 1 .. Len(Waiting) : Waiting[i] = ring[applied + i]
  BY WaitingType
<1>3. /\ Waiting' \in Seq(Commands) /\ Len(Waiting') = Len(ring) - (applied + 1)
      /\ \A i \in 1 .. Len(Waiting') : Waiting'[i] = ring[applied + 1 + i]
  <2>1. /\ Waiting' \in Seq(Commands) /\ Len(Waiting') = Len(ring') - applied'
        /\ \A i \in 1 .. Len(Waiting') : Waiting'[i] = ring'[applied' + i]
    BY WaitingTypeNext
  <2> QED
    BY <2>1 DEF Apply
<1>4. Waiting # <<>>
  BY <1>1, <1>2, EmptySeq
<1>5. /\ Tail(Waiting) \in Seq(Commands)
      /\ Len(Tail(Waiting)) = Len(Waiting) - 1
      /\ \A i \in 1 .. Len(Tail(Waiting)) : Tail(Waiting)[i] = Waiting[i + 1]
  BY <1>2, <1>4, HeadTailProperties
<1>6. \A i \in 1 .. Len(Waiting') : Waiting'[i] = Tail(Waiting)[i]
  BY <1>1, <1>2, <1>3, <1>5
<1>7. Waiting' = Tail(Waiting)
  BY <1>1, <1>2, <1>3, <1>5, <1>6, SeqEqual
<1>8. ring[applied + 1] = Waiting[1]
  BY <1>1, <1>2
<1> QED
  BY <1>4, <1>7, <1>8

(* ... and its end frees slots without losing what was submitted meanwhile. *)
LEMMA DrainEndKeepsWaiting ==
  ASSUME GameTypeOK, GameTypeOK', DrainEnd
  PROVE  Waiting' = Waiting
<1>1. /\ ring \in Seq(Commands) /\ Len(ring) \in Nat
      /\ applied \in Nat /\ applied = limit /\ limit <= Len(ring)
  BY LenProperties DEF GameTypeOK, DrainEnd
<1>2. ring' = Waiting /\ applied' = 0
  BY <1>1 DEF DrainEnd, Waiting
<1>3. /\ Waiting \in Seq(Commands) /\ Len(Waiting) \in Nat
  BY WaitingType, LenProperties
<1>4. /\ Waiting' \in Seq(Commands) /\ Len(Waiting') = Len(Waiting)
      /\ \A i \in 1 .. Len(Waiting') : Waiting'[i] = Waiting[i]
  <2>1. /\ Waiting' \in Seq(Commands) /\ Len(Waiting') = Len(ring') - applied'
        /\ \A i \in 1 .. Len(Waiting') : Waiting'[i] = ring'[applied' + i]
    BY WaitingTypeNext
  <2> QED
    BY <1>2, <1>3, <2>1
<1> QED
  BY <1>3, <1>4, SeqEqual

-----------------------------------------------------------------------------
(* The main thread, joined to the game, does what the host alone may do.   *)

LEMMA ReadsAreReads ==
  ASSUME TypeOK
  PROVE  SnapshotRead \in Read /\ Collision \in Read
<1>1. published \in Snapshot
  BY DEF TypeOK, GameTypeOK, Snapshot
<1> QED
  BY <1>1 DEF TypeOK, SnapshotRead, Collision, Read

LEMMA StepIsHostStep ==
  ASSUME TypeOK, [Next]_vars
  PROVE  [HostNext]_hostVars
<1>1. CASE PollRead
  BY <1>1, ReadsAreReads DEF PollRead, PollWith, HostNext
<1>2. CASE PollCollides
  BY <1>2, ReadsAreReads DEF PollCollides, PollWith, HostNext
<1>3. CASE Redraw \/ TimePasses \/ ShowAgain
  BY <1>3 DEF Redraw, TimePasses, ShowAgain, HostNext
<1>4. CASE Pause \/ Resume
  BY <1>4 DEF Pause, Resume, HostNext
<1>5. CASE Navigate \/ ChangeRow
  BY <1>5 DEF Navigate, ChangeRow, HostNext
<1>6. CASE GameWorld \/ GameFrame \/ UNCHANGED vars
  BY <1>6 DEF GameWorld, GameFrame, vars
<1> QED
  BY <1>1, <1>2, <1>3, <1>4, <1>5, <1>6 DEF Next, Android

-----------------------------------------------------------------------------
(* Type correctness of the game's side.                                    *)

LEMMA SubmitKeepsType ==
  ASSUME GameTypeOK, NEW c \in Commands, NEW s, Submit(c, s), UNCHANGED gameButRing
  PROVE  GameTypeOK'
<1>1. ring' \in Seq(Commands) /\ Len(ring) \in Nat /\ Len(ring') \in Nat
      /\ Len(ring) <= Len(ring') /\ Len(ring') <= Capacity
  <2>1. Len(ring) \in Nat /\ ring \in Seq(Commands)
    BY LenProperties DEF GameTypeOK
  <2>2. CASE RingIsFull
    BY <2>1, <2>2 DEF Submit, GameTypeOK
  <2>3. CASE ~RingIsFull
    BY <2>1, <2>3, AppendProperties, CapacityAssumption DEF Submit, Enqueue, RingIsFull
  <2> QED
    BY <2>2, <2>3
<1>2. limit' \in 0 .. Len(ring') /\ applied' \in 0 .. limit'
  BY <1>1 DEF GameTypeOK, gameButRing
<1> QED
  BY <1>1, <1>2 DEF GameTypeOK, gameButRing

LEMMA WorldKeepsType ==
  ASSUME GameTypeOK, WorldStep
  PROVE  GameTypeOK'
<1>1. ASSUME NEW p \in BOOLEAN, NEW e \in BOOLEAN, NEW l \in BOOLEAN,
             NEW m \in BOOLEAN, World(p, e, l, m)
      PROVE  GameTypeOK'
  BY <1>1, EventsAssumption DEF World, GameTypeOK, ringVars
<1>2. play \in BOOLEAN /\ enabled \in BOOLEAN /\ loaded \in BOOLEAN /\ menu \in BOOLEAN
  BY DEF GameTypeOK
<1> QED
  BY <1>1, <1>2
     DEF WorldStep, PlayInit, PlayDestroy, ToggleFrameAdvance, ChooseSave, ToggleMenu

LEMMA FrameKeepsType ==
  ASSUME GameTypeOK, Frame
  PROVE  GameTypeOK'
<1>1. ring \in Seq(Commands) /\ Len(ring) \in Nat
  BY LenProperties DEF GameTypeOK
<1>2. CASE DrainBegin
  BY <1>1, <1>2 DEF DrainBegin, GameTypeOK, worldVars
<1>3. CASE Apply
  <2>1. /\ enabled' = enabled \/ enabled' \in BOOLEAN
        /\ unsaved' \in BOOLEAN
    BY <1>3 DEF Apply
  <2>2. enabled' \in BOOLEAN /\ limit \in Nat /\ applied \in Nat /\ applied + 1 <= limit
    BY <1>1, <1>3, <2>1 DEF Apply, GameTypeOK
  <2> QED
    BY <1>1, <1>3, <2>1, <2>2 DEF Apply, GameTypeOK
<1>4. CASE DrainEnd
  <2>1. limit \in Nat /\ limit <= Len(ring)
    BY <1>1 DEF GameTypeOK
  <2>2. ring' \in Seq(Commands) /\ Len(ring') = Len(ring) - limit
    BY <1>1, <1>4, <2>1, RestOfQueue DEF DrainEnd
  <2>3. Len(ring') <= Capacity
    BY <1>1, <2>1, <2>2, CapacityAssumption DEF GameTypeOK
  <2>4. limit' \in 0 .. Len(ring') /\ applied' \in 0 .. limit'
    BY <1>1, <1>4, <2>1, <2>2 DEF DrainEnd
  <2> QED
    BY <1>4, <2>2, <2>3, <2>4 DEF DrainEnd, GameTypeOK, worldVars
<1>5. CASE Publish
  BY <1>1, <1>5 DEF Publish, GameTypeOK, worldVars
<1> QED
  BY <1>2, <1>3, <1>4, <1>5 DEF Frame

(* Every submission of the main thread is of one command.                  *)
LEMMA AndroidSubmits ==
  ASSUME Android
  PROVE  /\ UNCHANGED gameButRing
         /\ \/ UNCHANGED ring
            \/ \E c \in Commands, s \in SubmitStatus : Submit(c, s)
<1> USE DEF Commands
<1>1. CASE PollRead \/ PollCollides
  BY <1>1 DEF PollRead, PollCollides, PollWith, gameButRing
<1>2. CASE Pause \/ Resume \/ ChangeRow
  BY <1>2 DEF Pause, Resume, ChangeRow, Tap, gameButRing
<1>3. CASE Navigate
  BY <1>3 DEF Navigate, Tap, gameButRing
<1>4. CASE Redraw \/ TimePasses \/ ShowAgain
  BY <1>4 DEF Redraw, TimePasses, ShowAgain, gameVars, gameButRing
<1> QED
  BY <1>1, <1>2, <1>3, <1>4 DEF Android

LEMMA StepKeepsType ==
  ASSUME TypeOK, HostIInv, [Next]_vars
  PROVE  TypeOK' /\ HostIInv'
<1>1. HostIInv'
  BY StepIsHostStep, StepKeepsInv
<1>2. GameTypeOK'
  <2>1. CASE Android
    <3>1. CASE UNCHANGED ring
      BY <2>1, <3>1, AndroidSubmits DEF TypeOK, GameTypeOK, gameButRing
    <3>2. ASSUME NEW c \in Commands, NEW s \in SubmitStatus, Submit(c, s)
          PROVE  GameTypeOK'
      BY <2>1, <3>2, AndroidSubmits, SubmitKeepsType DEF TypeOK
    <3> QED
      BY <2>1, <3>1, <3>2, AndroidSubmits
  <2>2. CASE GameWorld
    BY <2>2, WorldKeepsType DEF GameWorld, TypeOK
  <2>3. CASE GameFrame
    BY <2>3, FrameKeepsType DEF GameFrame, TypeOK
  <2>4. CASE UNCHANGED vars
    BY <2>4 DEF vars, gameVars, TypeOK, GameTypeOK
  <2> QED
    BY <2>1, <2>2, <2>3, <2>4 DEF Next
<1>3. /\ advanced' \in BOOLEAN
      /\ wish' \in BOOLEAN \cup {None}
      /\ taps' \in 0 .. MaxTaps /\ shows' \in 0 .. MaxShows
  <2> USE TapsAssumption, ShowsAssumption DEF TypeOK
  <2>1. CASE PollRead \/ PollCollides
    BY <2>1 DEF PollRead, PollCollides, PollWith
  <2>2. CASE Pause \/ Resume
    <3>1. wish' \in {wish, TRUE, FALSE}
      BY <2>2 DEF Pause, Resume
    <3>2. Tap
      BY <2>2 DEF Pause, Resume
    <3>3. taps' \in 0 .. MaxTaps /\ shows' = shows /\ advanced' = advanced
      BY <3>2 DEF Tap
    <3> QED
      BY <3>1, <3>3
  <2>3. CASE Navigate \/ ChangeRow
    BY <2>3 DEF Navigate, ChangeRow, Tap
  <2>4. CASE Redraw \/ TimePasses \/ ShowAgain
    BY <2>4 DEF Redraw, TimePasses, ShowAgain
  <2>5. CASE GameWorld \/ GameFrame \/ UNCHANGED vars
    BY <2>5 DEF GameWorld, GameFrame, vars
  <2> QED
    BY <2>1, <2>2, <2>3, <2>4, <2>5 DEF Next, Android
<1> QED
  BY <1>1, <1>2, <1>3 DEF TypeOK, HostIInv

-----------------------------------------------------------------------------
(* What a queue's ends do to the commands in it.                           *)

LEMMA AppendedLast ==
  ASSUME NEW w \in Seq(Commands), NEW c \in Commands, NEW S
  PROVE  LastWord(Append(w, c), c, S)
<1> DEFINE v == Append(w, c)
<1>1. v \in Seq(Commands) /\ Len(v) = Len(w) + 1 /\ v[Len(w) + 1] = c /\ Len(w) \in Nat
  BY AppendProperties, LenProperties
<1>2. DOMAIN v = 1 .. Len(w) + 1
  BY <1>1, LenProperties
<1> HIDE DEF v
<1> QED
  BY <1>1, <1>2 DEF LastWord, v

LEMMA AppendedOther ==
  ASSUME NEW w \in Seq(Commands), NEW d \in Commands, NEW S, d \notin S
  PROVE  /\ \A c \in Commands : LastWord(w, c, S) => LastWord(Append(w, d), c, S)
         /\ Without(w, S) => Without(Append(w, d), S)
<1> DEFINE v == Append(w, d)
<1>1. /\ Len(w) \in Nat /\ Len(v) = Len(w) + 1
      /\ v[Len(w) + 1] = d /\ \A i \in 1 .. Len(w) : v[i] = w[i]
  BY AppendProperties, LenProperties
<1>2. DOMAIN w = 1 .. Len(w) /\ DOMAIN v = 1 .. Len(w) + 1
  BY <1>1, LenProperties, AppendProperties
<1> HIDE DEF v
<1>3. ASSUME NEW c \in Commands, NEW i \in DOMAIN w, w[i] = c,
             \A j \in i + 1 .. Len(w) : w[j] \notin S
      PROVE  LastWord(v, c, S)
  <2>1. i \in DOMAIN v /\ v[i] = c
    BY <1>1, <1>2, <1>3
  <2>2. ASSUME NEW j \in i + 1 .. Len(v)
        PROVE  v[j] \notin S
    BY <1>1, <1>2, <1>3, <2>2
  <2> QED
    BY <2>1, <2>2 DEF LastWord
<1>4. Without(w, S) => Without(v, S)
  BY <1>1, <1>2 DEF Without
<1> QED
  BY <1>3, <1>4 DEF LastWord, v

LEMMA TakenFirst ==
  ASSUME NEW w \in Seq(Commands), w # <<>>, NEW c \in Commands, NEW S
  PROVE  /\ w[1] \in Commands
         /\ LastWord(w, c, S) =>
              LastWord(Tail(w), c, S) \/ (w[1] = c /\ Without(Tail(w), S))
         /\ Without(w, S) => w[1] \notin S /\ Without(Tail(w), S)
<1> DEFINE t == Tail(w)
<1>1. /\ Len(w) \in Nat \ {0} /\ Len(t) = Len(w) - 1 /\ t \in Seq(Commands)
      /\ \A i \in 1 .. Len(w) - 1 : t[i] = w[i + 1]
  BY HeadTailProperties, EmptySeq
<1>2. DOMAIN w = 1 .. Len(w) /\ DOMAIN t = 1 .. Len(w) - 1
  BY <1>1, LenProperties
<1>3. w[1] \in Commands
  BY <1>1, ElementOfSeq
<1> HIDE DEF t
<1>4. ASSUME NEW i \in DOMAIN w, w[i] = c, \A j \in i + 1 .. Len(w) : w[j] \notin S
      PROVE  LastWord(t, c, S) \/ (w[1] = c /\ Without(t, S))
  <2>1. CASE i = 1
    <3>1. ASSUME NEW j \in DOMAIN t PROVE t[j] \notin S
      BY <1>1, <1>2, <1>4, <2>1, <3>1
    <3> QED
      BY <1>4, <2>1, <3>1 DEF Without
  <2>2. CASE i # 1
    <3>1. i - 1 \in DOMAIN t /\ t[i - 1] = c
      BY <1>1, <1>2, <1>4, <2>2
    <3>2. ASSUME NEW j \in (i - 1) + 1 .. Len(t) PROVE t[j] \notin S
      BY <1>1, <1>2, <1>4, <2>2, <3>2
    <3> QED
      BY <3>1, <3>2 DEF LastWord
  <2> QED
    BY <2>1, <2>2
<1>5. Without(w, S) => w[1] \notin S /\ Without(t, S)
  BY <1>1, <1>2 DEF Without
<1> QED
  BY <1>3, <1>4, <1>5 DEF LastWord, t

-----------------------------------------------------------------------------
(* What a step does to the commands that wait.                             *)

LEMMA SameRing ==
  ASSUME UNCHANGED <<ring, applied>>
  PROVE  Waiting' = Waiting
BY DEF Waiting

LEMMA SubmitEffect ==
  ASSUME GameTypeOK, GameTypeOK', NEW c \in Commands, NEW s, Submit(c, s),
         UNCHANGED applied
  PROVE  \/ s = "FULL" /\ Waiting' = Waiting
         \/ s = "OK" /\ Waiting' = Append(Waiting, c)
<1>1. CASE RingIsFull
  BY <1>1, SameRing DEF Submit
<1>2. CASE ~RingIsFull
  BY <1>2, EnqueueAppends DEF Submit
<1> QED
  BY <1>1, <1>2

LEMMA FrameEffect ==
  ASSUME GameTypeOK, GameTypeOK', Frame
  PROVE  /\ play' = play
         /\ \/ Apply
            \/ Waiting' = Waiting /\ UNCHANGED <<enabled, unsaved>>
<1>1. CASE DrainBegin \/ Publish
  BY <1>1, SameRing DEF DrainBegin, Publish, worldVars
<1>2. CASE Apply
  BY <1>2 DEF Apply
<1>3. CASE DrainEnd
  BY <1>3, DrainEndKeepsWaiting DEF DrainEnd, worldVars
<1> QED
  BY <1>1, <1>2, <1>3 DEF Frame

LEMMA WishKeptByRequest ==
  ASSUME TypeOK, TypeOK', WishInv, Pause \/ Resume
  PROVE  WishInv'
<1>1. Waiting \in Seq(Commands)
  BY WaitingType DEF TypeOK
<1>2. PICK c \in PauseCommands, s \in SubmitStatus :
        /\ Submit(c, s)
        /\ wish' = IF s = "OK" THEN (c = "pause") ELSE wish
        /\ UNCHANGED gameButRing
  BY DEF Pause, Resume, Tap, PauseCommands
<1>3. c \in Commands /\ UNCHANGED <<applied, play, enabled>>
  BY <1>2 DEF gameButRing, Commands, PauseCommands
<1>4. CASE s = "FULL"
  <2>1. Waiting' = Waiting /\ wish' = wish
    BY <1>2, <1>3, <1>4, SubmitEffect DEF TypeOK
  <2> QED
    BY <1>3, <2>1 DEF WishInv, Wished
<1>5. CASE s = "OK"
  <2>1. Waiting' = Append(Waiting, c) /\ wish' = (c = "pause")
    BY <1>2, <1>3, <1>5, SubmitEffect DEF TypeOK
  <2>2. Wished' = c
    BY <1>2, <2>1 DEF Wished, PauseCommands
  <2>3. LastWord(Append(Waiting, c), c, PauseCommands)
    BY <1>1, <1>3, AppendedLast
  <2> QED
    BY <2>1, <2>2, <2>3 DEF WishInv
<1>6. s \in {"FULL", "OK"}
  BY <1>2 DEF Submit
<1> QED
  BY <1>4, <1>5, <1>6

LEMMA WishKeptByApply ==
  ASSUME TypeOK, TypeOK', WishInv, Apply, wish' = wish
  PROVE  WishInv'
<1>1. Waiting \in Seq(Commands) /\ Waiting # <<>> /\ Waiting' = Tail(Waiting)
  BY WaitingType, ApplyTakesFirst DEF TypeOK
<1>2. /\ play' = play
      /\ enabled' = IF play /\ Waiting[1] \in PauseCommands
                    THEN Waiting[1] = "pause" ELSE enabled
  BY ApplyTakesFirst DEF Apply, TypeOK
<1>3. SUFFICES ASSUME wish # None
               PROVE  \/ LastWord(Tail(Waiting), Wished, PauseCommands)
                      \/ Without(Tail(Waiting), PauseCommands) /\ (play => enabled' = wish)
  BY <1>1, <1>2 DEF WishInv, Wished
<1>4. Wished \in PauseCommands /\ Wished \in Commands /\ (Wished = "pause") = wish
  BY <1>3 DEF Wished, PauseCommands, Commands, TypeOK
<1>5. CASE LastWord(Waiting, Wished, PauseCommands)
  <2>1. CASE LastWord(Tail(Waiting), Wished, PauseCommands)
    BY <2>1
  <2>2. CASE Waiting[1] = Wished /\ Without(Tail(Waiting), PauseCommands)
    BY <1>2, <1>4, <2>2
  <2> QED
    BY <1>1, <1>4, <1>5, <2>1, <2>2, TakenFirst
<1>6. CASE Without(Waiting, PauseCommands) /\ (play => enabled = wish)
  <2>1. Waiting[1] \notin PauseCommands /\ Without(Tail(Waiting), PauseCommands)
    BY <1>1, <1>4, <1>6, TakenFirst
  <2> QED
    BY <1>2, <1>6, <2>1
<1> QED
  BY <1>3, <1>5, <1>6 DEF WishInv

LEMMA WishKept ==
  ASSUME TypeOK, TypeOK', WishInv, [Next]_vars
  PROVE  WishInv'
<1>1. Waiting \in Seq(Commands)
  BY WaitingType DEF TypeOK
<1>2. ASSUME UNCHANGED <<play, enabled, wish>>, Waiting' = Waiting
      PROVE  WishInv'
  BY <1>2 DEF WishInv, Wished
<1>3. ASSUME UNCHANGED <<play, enabled, wish, applied>>,
             NEW c \in {"set", "save"}, NEW s, Submit(c, s)
      PROVE  WishInv'
  <2>1. c \in Commands /\ c \notin PauseCommands
    BY DEF Commands, PauseCommands
  <2>2. Waiting' = Waiting \/ Waiting' = Append(Waiting, c)
    BY <1>3, <2>1, SubmitEffect DEF TypeOK
  <2>3. CASE Waiting' = Append(Waiting, c)
    <3>1. Wished \in Commands /\ Wished' = Wished
      BY <1>3 DEF Wished, Commands
    <3>2. /\ LastWord(Waiting, Wished, PauseCommands) =>
               LastWord(Append(Waiting, c), Wished, PauseCommands)
          /\ Without(Waiting, PauseCommands) => Without(Append(Waiting, c), PauseCommands)
      BY <1>1, <2>1, <3>1, AppendedOther
    <3> QED
      BY <1>3, <2>3, <3>1, <3>2 DEF WishInv
  <2> QED
    BY <1>2, <1>3, <2>2, <2>3
<1>4. CASE PollRead \/ PollCollides
  <2>1. PICK s : /\ IF SaveIsDue THEN Submit("save", s) ELSE UNCHANGED ring
                 /\ UNCHANGED <<gameButRing, wish>>
    BY <1>4 DEF PollRead, PollCollides, PollWith
  <2> QED
    BY <1>2, <1>3, <2>1, SameRing DEF gameButRing
<1>5. CASE Pause \/ Resume
  BY <1>5, WishKeptByRequest
<1>6. CASE ChangeRow
  <2>1. PICK s : Submit("set", s) /\ UNCHANGED <<gameButRing, wish>>
    BY <1>6 DEF ChangeRow, Tap
  <2> QED
    BY <1>3, <2>1 DEF gameButRing
<1>7. CASE Navigate \/ Redraw \/ TimePasses \/ ShowAgain \/ UNCHANGED vars
  BY <1>2, <1>7, SameRing
     DEF Navigate, Tap, Redraw, TimePasses, ShowAgain, vars, gameVars, gameButRing
<1>8. CASE GameWorld
  <2>1. UNCHANGED <<ring, applied>>
    BY <1>8 DEF GameWorld, WorldStep, PlayInit, PlayDestroy, ToggleFrameAdvance,
                ChooseSave, ToggleMenu, World, ringVars
  <2>2. CASE UNCHANGED <<play, enabled>>
    BY <1>2, <1>8, <2>1, <2>2, SameRing DEF GameWorld
  <2>3. CASE ~UNCHANGED <<play, enabled>>
    BY <1>8, <2>3 DEF GameWorld, WishInv
  <2> QED
    BY <2>2, <2>3
<1>9. CASE GameFrame
  BY <1>2, <1>9, FrameEffect, WishKeptByApply DEF GameFrame, TypeOK
<1> QED
  BY <1>4, <1>5, <1>6, <1>7, <1>8, <1>9 DEF Next, Android

LEMMA SaveOwedByPoll ==
  ASSUME TypeOK, TypeOK', SaveIsOwed, PollRead \/ PollCollides
  PROVE  SaveIsOwed'
<1>1. Waiting \in Seq(Commands)
  BY WaitingType DEF TypeOK
<1>2. PICK s \in SubmitStatus :
        /\ quiet' = IF SaveIsDue /\ s # "FULL" THEN None ELSE quiet
        /\ IF SaveIsDue THEN Submit("save", s) ELSE s = "OK" /\ UNCHANGED ring
        /\ UNCHANGED <<gameButRing, shows>>
  BY DEF PollRead, PollCollides, PollWith, Poll, DischargeSave
<1>3. UNCHANGED <<applied, unsaved, shows>>
  BY <1>2 DEF gameButRing
<1>4. CASE ~SaveIsDue
  BY <1>2, <1>3, <1>4, SameRing DEF SaveIsOwed
<1>5. CASE SaveIsDue
  <2>1. "save" \in Commands
    BY DEF Commands
  <2>2. \/ s = "FULL" /\ Waiting' = Waiting
        \/ s = "OK" /\ Waiting' = Append(Waiting, "save")
    BY <1>2, <1>3, <1>5, <2>1, SubmitEffect DEF TypeOK
  <2>3. CASE s = "FULL"
    BY <1>2, <1>5, <2>3 DEF SaveIsOwed, SaveIsDue
  <2>4. CASE Waiting' = Append(Waiting, "save")
    BY <1>1, <2>1, <2>4, AppendedLast DEF SaveIsOwed
  <2> QED
    BY <2>2, <2>3, <2>4
<1> QED
  BY <1>4, <1>5

LEMMA SaveOwedKept ==
  ASSUME TypeOK, TypeOK', SaveIsOwed, [Next]_vars
  PROVE  SaveIsOwed'
<1>1. Waiting \in Seq(Commands)
  BY WaitingType DEF TypeOK
<1>2. CASE PollRead \/ PollCollides
  BY <1>2, SaveOwedByPoll
<1>3. CASE Pause \/ Resume
  <2>1. PICK c \in PauseCommands, s \in SubmitStatus :
          Submit(c, s) /\ UNCHANGED <<gameButRing, shows, quiet>>
    BY <1>3 DEF Pause, Resume, Tap, PauseCommands, PauseTap, ResumeTap, RequestPaused
  <2>2. c \in Commands /\ c \notin {"set"} /\ UNCHANGED <<applied, unsaved>>
    BY <2>1 DEF gameButRing, Commands, PauseCommands
  <2>3. Waiting' = Waiting \/ Waiting' = Append(Waiting, c)
    BY <2>1, <2>2, SubmitEffect DEF TypeOK
  <2>4. /\ LastWord(Waiting, "save", {"set"}) => LastWord(Append(Waiting, c), "save", {"set"})
        /\ Without(Waiting, {"set"}) => Without(Append(Waiting, c), {"set"})
    <3>1. "save" \in Commands
      BY DEF Commands
    <3> QED
      BY <1>1, <2>2, <3>1, AppendedOther
  <2> QED
    BY <2>1, <2>2, <2>3, <2>4 DEF SaveIsOwed
<1>4. CASE ChangeRow
  BY <1>4, WindowAssumption DEF ChangeRow, RowChange, SaveIsOwed
<1>5. CASE ShowAgain
  BY <1>5 DEF ShowAgain, SaveIsOwed, TypeOK
<1>6. CASE TimePasses
  <2>1. quiet' # None \/ quiet' = quiet
    BY <1>6 DEF TimePasses, Tick, TypeOK, HostTypeOK
  <2> QED
    BY <1>6, <2>1, SameRing DEF TimePasses, gameVars, SaveIsOwed
<1>7. CASE Navigate \/ Redraw \/ UNCHANGED vars
  BY <1>7, SameRing
     DEF Navigate, Tap, OptionsTap, BackTap, Redraw, Recompose, vars, gameVars,
         gameButRing, hostVars, SaveIsOwed
<1>8. CASE GameWorld
  <2>1. UNCHANGED <<ring, applied, unsaved, quiet, shows>>
    BY <1>8 DEF GameWorld, WorldStep, PlayInit, PlayDestroy, ToggleFrameAdvance,
                ChooseSave, ToggleMenu, World, ringVars, hostVars
  <2> QED
    BY <2>1, SameRing DEF SaveIsOwed
<1>9. CASE GameFrame
  <2>1. UNCHANGED <<quiet, shows>>
    BY <1>9 DEF GameFrame, hostVars
  <2>2. CASE Waiting' = Waiting /\ UNCHANGED unsaved
    BY <2>1, <2>2 DEF SaveIsOwed
  <2>3. CASE Apply
    <3>1. /\ Waiting # <<>> /\ Waiting' = Tail(Waiting)
          /\ unsaved' = (Waiting[1] = "set" \/ (unsaved /\ Waiting[1] # "save"))
      BY <2>3, ApplyTakesFirst DEF Apply, TypeOK
    <3>2. /\ LastWord(Waiting, "save", {"set"}) =>
               \/ LastWord(Tail(Waiting), "save", {"set"})
               \/ Waiting[1] = "save" /\ Without(Tail(Waiting), {"set"})
          /\ Without(Waiting, {"set"}) =>
               Waiting[1] # "set" /\ Without(Tail(Waiting), {"set"})
      <4>1. "save" \in Commands
        BY DEF Commands
      <4> QED
        BY <1>1, <3>1, <4>1, TakenFirst
    <3> QED
      BY <2>1, <3>1, <3>2 DEF SaveIsOwed
  <2> QED
    BY <1>9, <2>2, <2>3, FrameEffect DEF GameFrame, TypeOK
<1> QED
  BY <1>2, <1>3, <1>4, <1>5, <1>6, <1>7, <1>8, <1>9 DEF Next, Android

-----------------------------------------------------------------------------
LEMMA InitialInv == Init => IInv
<1>1. HostInit => HostIInv
  BY InitHasInv
<1>2. ASSUME Init PROVE GameTypeOK /\ Without(Waiting, {"set"})
  <2>1. ring = <<>> /\ ring \in Seq(Commands) /\ Len(ring) = 0 /\ applied = 0
    BY <1>2, EmptySeq DEF Init, GameInit
  <2>2. GameTypeOK
    <3>1. /\ limit \in 0 .. Len(ring) /\ applied \in 0 .. limit
          /\ Len(ring) <= Capacity /\ events \in 0 .. MaxEvents
      BY <1>2, <2>1, CapacityAssumption, EventsAssumption DEF Init, GameInit
    <3> QED
      BY <1>2, <2>1, <3>1 DEF Init, GameInit, GameTypeOK
  <2>3. Waiting \in Seq(Commands) /\ Len(Waiting) = 0
    BY <2>1, <2>2, WaitingType
  <2>4. DOMAIN Waiting = {}
    BY <2>3, LenProperties
  <2> QED
    BY <2>2, <2>4 DEF Without
<1>3. ASSUME Init
      PROVE  /\ advanced \in BOOLEAN /\ wish \in BOOLEAN \cup {None}
             /\ taps \in 0 .. MaxTaps /\ shows \in 0 .. MaxShows
  <2>1. advanced = FALSE /\ wish = None /\ taps = 0 /\ shows = 0
    BY <1>3 DEF Init
  <2>2. taps \in 0 .. MaxTaps /\ shows \in 0 .. MaxShows
    BY <2>1, TapsAssumption, ShowsAssumption
  <2> QED
    BY <2>1, <2>2
<1>4. Init => WishInv /\ ~unsaved
  BY DEF Init, GameInit, WishInv
<1> QED
  BY <1>1, <1>2, <1>3, <1>4 DEF Init, IInv, TypeOK, HostIInv, SaveIsOwed

LEMMA StepKeepsIInv == IInv /\ [Next]_vars => IInv'
<1> SUFFICES ASSUME IInv, [Next]_vars PROVE IInv'
  OBVIOUS
<1>1. TypeOK' /\ HostIInv'
  BY StepKeepsType DEF IInv
<1>2. WishInv' /\ SaveIsOwed'
  BY <1>1, WishKept, SaveOwedKept DEF IInv
<1> QED
  BY <1>1, <1>2 DEF IInv

(* The inductive invariant of the screen and the game together. *)
THEOREM ScreenInvariant == Spec => []IInv
BY InitialInv, StepKeepsIInv, PTL DEF Spec

(* Type correctness of both threads and of the ring between them. *)
THEOREM ScreenTypeCorrect == Spec => []TypeOK
<1>1. IInv => TypeOK
  BY DEF IInv
<1> QED
  BY <1>1, ScreenInvariant, PTL

(* The game ends up as the player asked last, for every size of the ring   *)
(* and every number of taps (CommandMailbox.cpp:33-42).                     *)
THEOREM ScreenLastRequestWins == Spec => []LastRequestWins
<1>1. ASSUME IInv PROVE LastRequestWins
  <2>1. SUFFICES ASSUME wish # None, Without(Waiting, PauseCommands), play
                 PROVE  enabled = wish
    BY DEF LastRequestWins
  <2>2. ~LastWord(Waiting, Wished, PauseCommands)
    BY <2>1 DEF LastWord, Without, Wished, PauseCommands
  <2> QED
    BY <1>1, <2>1, <2>2 DEF IInv, WishInv
<1> QED
  BY <1>1, ScreenInvariant, PTL

(* A change of a setting is saved or is still owed a save by someone who   *)
(* will see to it (SecondScreenHost.kt:56-74, OptionsCommands.kt).         *)
THEOREM ScreenSaveIsOwed == Spec => []SaveIsOwed
<1>1. IInv => SaveIsOwed
  BY DEF IInv
<1> QED
  BY <1>1, ScreenInvariant, PTL

(* Joined to the game, the host is still the host that is proved correct   *)
(* in every environment: what is proved of HostSpec holds here.            *)
THEOREM ScreenIsAHost == Spec => HostSpec
<1>1. Init => HostInit
  BY DEF Init
<1>2. IInv /\ [Next]_vars => [HostNext]_hostVars
  BY StepIsHostStep DEF IInv
<1> QED
  BY <1>1, <1>2, ScreenInvariant, PTL DEF Spec, HostSpec

(* What the controls show and what the tracker awaits agree, with the game *)
(* that answers (SecondScreenHost.kt:80, :102, :120, :148).                *)
THEOREM ScreenPendingIsTracked == Spec => []PendingIsTracked
BY ScreenIsAHost, HostPendingIsTracked, PTL

(* A timeout is shown at the control of its own request, with the game     *)
(* that answers late (HudModel.kt:156-163, PauseRequestTracker.kt:41-52).  *)
THEOREM ScreenTimeoutOnItsScreen == Spec => []TimeoutOnItsScreen
BY ScreenIsAHost, HostTimeoutOnItsScreen, PTL

(* The commands that wait are a bounded first-in first-out queue: a step   *)
(* leaves them alone, puts one behind them while there is room, or applies *)
(* the first (CommandQueue.tla, for the ring that GameThread.tla keeps).   *)
THEOREM WaitingIsAQueue ==
  Spec => [][ \/ Waiting' = Waiting
              \/ /\ Len(Waiting) < Capacity
                 /\ \E c \in Commands : Waiting' = Append(Waiting, c)
              \/ Apply /\ Waiting # <<>> /\ Waiting' = Tail(Waiting) ]_vars
<1> DEFINE Step == \/ Waiting' = Waiting
                   \/ /\ Len(Waiting) < Capacity
                      /\ \E c \in Commands : Waiting' = Append(Waiting, c)
                   \/ Apply /\ Waiting # <<>> /\ Waiting' = Tail(Waiting)
<1>1. ASSUME TypeOK, TypeOK', Next PROVE Step
  <2>1. CASE GameFrame
    BY <1>1, <2>1, FrameEffect, ApplyTakesFirst DEF GameFrame, TypeOK
  <2>2. CASE GameWorld
    BY <2>2, SameRing
       DEF GameWorld, WorldStep, PlayInit, PlayDestroy, ToggleFrameAdvance,
           ChooseSave, ToggleMenu, World, ringVars
  <2>3. CASE Android
    <3>1. UNCHANGED applied
      BY <2>3, AndroidSubmits DEF gameButRing
    <3>2. CASE UNCHANGED ring
      BY <3>1, <3>2, SameRing
    <3>3. ASSUME NEW c \in Commands, NEW s \in SubmitStatus, Submit(c, s)
          PROVE  Step
      <4>1. CASE RingIsFull
        BY <3>1, <3>3, <4>1, SameRing DEF Submit
      <4>2. CASE ~RingIsFull
        <5>1. Waiting' = Append(Waiting, c)
          BY <1>1, <3>1, <3>3, <4>2, EnqueueAppends DEF Submit, TypeOK
        <5>2. /\ Len(ring) \in Nat /\ applied \in Nat
              /\ Len(Waiting) = Len(ring) - applied
          BY <1>1, WaitingType, LenProperties DEF TypeOK, GameTypeOK
        <5>3. Len(Waiting) < Capacity
          BY <4>2, <5>2, CapacityAssumption DEF RingIsFull
        <5> QED
          BY <5>1, <5>3
      <4> QED
        BY <4>1, <4>2
    <3> QED
      BY <2>3, <3>2, <3>3, AndroidSubmits
  <2> QED
    BY <1>1, <2>1, <2>2, <2>3 DEF Next
<1>2. TypeOK /\ TypeOK' /\ [Next]_vars => [Step]_vars
  BY <1>1
<1> QED
  BY <1>2, ScreenTypeCorrect, PTL DEF Spec
=============================================================================
