------------------------ MODULE SecondScreenManagerProofs ------------------------
(***************************************************************************)
(* For any displays, modes and rates and any number of changes, a screen   *)
(* that is wrong has a callback under way.  The argument is about what is  *)
(* left in the main thread's queue: a change leaves a refresh there, a     *)
(* refresh decides by the displays as they are, and a cancel that no       *)
(* refresh follows is of a display that is still gone.                     *)
(***************************************************************************)
EXTENDS SecondScreenManager, FiniteSetTheorems, SequenceTheorems,
        WellFoundedInduction, TLAPS

LEMMA SmallestExists ==
  ASSUME NEW S \in SUBSET Nat, S # {}
  PROVE  \E d \in S : \A e \in S : d <= e
<1>1. PICK d \in S : \A e \in S : ~(<<e, d>> \in OpToRel(<, Nat))
  BY WFMin, NatLessThanWellFounded
<1>2. \A e \in S : ~(e < d)
  BY <1>1 DEF OpToRel
<1> QED  BY <1>2

(* The policy chooses one of the displays that are there, if there is one. *)
LEMMA ChosenIsThere ==
  ASSUME TypeOK
  PROVE  /\ Candidates = {} => Chosen = None
         /\ Candidates # {} => Chosen \in Candidates
         /\ Candidates \subseteq Secondary /\ None \notin Candidates
         /\ Chosen # None => Info(Chosen) \in Infos
<1>1. Candidates \in SUBSET Nat /\ Candidates \subseteq Secondary /\ None \notin Candidates
  <2>1. Candidates \subseteq Secondary
    BY DEF Candidates
  <2>2. \A d \in Secondary : d \in Nat /\ d \in Int
    BY SecondaryAssumption
  <2> QED  BY <2>1, <2>2, NoneAssumption
<1>2. CASE Candidates = {}
  BY <1>1, <1>2 DEF Chosen
<1>3. CASE Candidates # {}
  <2>1. \E d \in Candidates : \A e \in Candidates : d <= e
    BY <1>1, <1>3, SmallestExists
  <2>2. Chosen \in Candidates
    BY <1>3, <2>1 DEF Chosen
  <2>3. attached[Chosen] \in Modes
    BY <1>1, <2>2 DEF Candidates, TypeOK
  <2> QED  BY <1>1, <1>3, <2>2, <2>3 DEF Info, Infos
<1> QED  BY <1>2, <1>3

(* The queue without the Presentation's messages. *)
LEMMA WithoutCancelFacts ==
  ASSUME NEW q \in Seq({"refresh", "cancel"})
  PROVE  /\ WithoutCancel(q) \in Seq({"refresh", "cancel"})
         /\ \A k \in DOMAIN WithoutCancel(q) : WithoutCancel(q)[k] = "refresh"
         /\ (\E k \in DOMAIN q : q[k] = "refresh") => WithoutCancel(q) # <<>>
         /\ (\A k \in DOMAIN q : q[k] = "cancel") => WithoutCancel(q) = <<>>
<1> DEFINE R == {k \in DOMAIN q : q[k] = "refresh"}
           n == Cardinality(R)
<1>1. DOMAIN q = 1 .. Len(q) /\ Len(q) \in Nat
  BY LenProperties
<1>2. IsFiniteSet(R)
  <2>1. IsFiniteSet(1 .. Len(q)) /\ R \in SUBSET (1 .. Len(q))
    BY <1>1, FS_Interval
  <2> QED  BY <2>1, FS_Subset
<1>3. n \in Nat /\ (n = 0 <=> R = {})
  BY <1>2, FS_CardinalityType, FS_EmptySet
<1> DEFINE w == WithoutCancel(q)
<1>4. w = [i \in 1 .. n |-> "refresh"]
  BY DEF WithoutCancel
<1>5. (R = {} <=> \A k \in DOMAIN q : q[k] # "refresh")
  OBVIOUS
<1> HIDE DEF R, n, w
<1>6. w \in Seq({"refresh", "cancel"}) /\ DOMAIN w = 1 .. n /\ Len(w) = n
  <2>1. w \in [1 .. n -> {"refresh", "cancel"}]
    BY <1>4
  <2> QED  BY <1>3, <2>1, IsASeq, LenProperties
<1>7. \A k \in DOMAIN w : w[k] = "refresh"
  BY <1>4
<1>8. w = <<>> <=> n = 0
  BY <1>3, <1>6, EmptySeq
<1> QED  BY <1>3, <1>5, <1>6, <1>7, <1>8 DEF w

-----------------------------------------------------------------------------
LEMMA InitInv == Init => IInv
<1> SUFFICES ASSUME Init PROVE IInv
  OBVIOUS
<1>1. messages = <<>> /\ ring = <<>> /\ Len(ring) = 0 /\ isShowing = FALSE
      /\ started = FALSE /\ choosing = None
  BY DEF Init
<1>2. TypeOK
  <2>1. messages \in Seq({"refresh", "cancel"}) /\ ring \in Seq(Rates \cup {Other})
    BY <1>1
  <2>2. Len(ring) <= Capacity
    BY <1>1, CapacityAssumption
  <2> QED  BY <1>1, <2>1, <2>2 DEF Init, TypeOK
<1> QED
  BY <1>1, <1>2 DEF IInv, StoppedIsQuiet, ChoosingHides, CancelsAreForOne,
     CancelIsFounded, SettledWhenDone, Ready

(* The reporter puts one more rate in the ring, where there is room. *)
LEMMA ReportType ==
  ASSUME TypeOK, Report
  PROVE  /\ lastRefreshHz' \in Rates \cup {None} /\ dropped' \in BOOLEAN
         /\ ring' \in Seq(Rates \cup {Other}) /\ Len(ring') <= Capacity
<1>1. rate \in Rates \cup {Other} /\ ring \in Seq(Rates \cup {Other}) /\ Len(ring) \in Nat
  BY DEF TypeOK
<1>2. /\ Append(ring, rate) \in Seq(Rates \cup {Other})
      /\ Len(Append(ring, rate)) = Len(ring) + 1
  BY <1>1, AppendProperties
<1>3. ring' = ring \/ (ring' = Append(ring, rate) /\ Len(ring) < Capacity)
  BY DEF Report
<1>4. Len(ring') <= Capacity
  BY <1>1, <1>2, <1>3, CapacityAssumption DEF TypeOK
<1>5. ring' \in Seq(Rates \cup {Other})
  BY <1>1, <1>2, <1>3
<1>6. lastRefreshHz' \in Rates \cup {None}
  BY DEF Report, TypeOK, reportVars
<1>7. dropped' = dropped \/ dropped' = (Len(ring) >= Capacity)
  BY DEF Report, reportVars
<1>8. dropped' \in BOOLEAN
  <2>1. dropped \in BOOLEAN
    BY DEF TypeOK
  <2>2. (Len(ring) >= Capacity) \in BOOLEAN
    BY <1>1, CapacityAssumption
  <2> QED  BY <1>7, <2>1, <2>2, Zenon
<1> QED  BY <1>4, <1>5, <1>6, <1>8

(* A refresh of the rest q of the queue, whatever it was called for: it    *)
(* keeps what is shown only where that is right, and drops the cancels of  *)
(* what it takes down.                                                     *)
LEMMA RefreshKeeps ==
  ASSUME IInv, Ready, NEW q \in Seq({"refresh", "cancel"}), Refresh(q),
         started', UNCHANGED <<displayVars, sDisplayRefreshHz>>,
         ~isShowing => \A k \in DOMAIN q : q[k] = "refresh",
         q # <<>> => messages # <<>> /\ q[Len(q)] = messages[Len(messages)]
  PROVE  IInv'
<1>1. TypeOK /\ choosing = None /\ attached' = attached /\ Chosen' = Chosen
  BY DEF IInv, Ready, displayVars, Chosen, Candidates
<1>2. /\ WithoutCancel(q) \in Seq({"refresh", "cancel"})
      /\ \A k \in DOMAIN WithoutCancel(q) : WithoutCancel(q)[k] = "refresh"
  BY WithoutCancelFacts
<1>3. /\ lastRefreshHz' \in Rates \cup {None} /\ dropped' \in BOOLEAN
      /\ ring' \in Seq(Rates \cup {Other}) /\ Len(ring') <= Capacity
  BY <1>1, ReportType DEF Refresh
<1>4. /\ attached' \in [Secondary -> Modes \cup {None}] /\ rate' \in Rates
      /\ started' \in BOOLEAN /\ sDisplayRefreshHz' \in Rates \cup {0}
  BY <1>1 DEF TypeOK, displayVars
<1>5. CASE isShowing /\ Chosen # None /\ presentation = Info(Chosen)
  <2>1. messages' = q /\ UNCHANGED showVars
    BY <1>5 DEF Refresh
  <2>2. TypeOK'
    BY <1>1, <1>3, <1>4, <2>1 DEF TypeOK, showVars
  <2>3. attached[presentation.display] # None
    BY <1>1, <1>5, ChosenIsThere DEF Info, Candidates
  <2>4. CancelIsFounded'
    <3>1. q # <<>> => q[Len(q)] = "refresh"
      BY <2>3 DEF IInv, CancelIsFounded
    <3> QED  BY <2>1, <3>1 DEF CancelIsFounded
  <2>5. SettledWhenDone'
    BY <1>1, <1>5, <2>1 DEF SettledWhenDone, ShowsTheRightDisplay, Ready, showVars, Info
  <2> QED
    BY <1>1, <1>5, <2>1, <2>2, <2>4, <2>5
       DEF IInv, StoppedIsQuiet, ChoosingHides, CancelsAreForOne, showVars, Ready
<1>6. CASE ~(isShowing /\ Chosen # None /\ presentation = Info(Chosen))
  <2>1. /\ presentation' = None /\ isShowing' = FALSE
        /\ choosing' = IF Chosen = None THEN None ELSE Info(Chosen)
        /\ messages' = WithoutCancel(q)
    BY <1>6 DEF Refresh
  <2>2. choosing' \in Infos \cup {None} /\ (choosing' = None <=> Chosen = None)
    BY <1>1, <2>1, ChosenIsThere, NoneAssumption DEF Infos
  <2>3. messages' \in Seq({"refresh", "cancel"})
    BY <1>2, <2>1
  <2>4. TypeOK'
    BY <1>3, <1>4, <2>1, <2>2, <2>3 DEF TypeOK
  <2>5. CancelIsFounded'
    <3>1. messages' # <<>> => Len(messages') \in DOMAIN messages'
      BY <2>3, LenProperties, EmptySeq
    <3> QED  BY <1>2, <2>1, <3>1 DEF CancelIsFounded
  <2>6. SettledWhenDone'
    BY <1>1, <2>1, <2>2 DEF SettledWhenDone, ShowsTheRightDisplay, Ready, Info
  <2> QED
    BY <1>2, <2>1, <2>4, <2>5, <2>6
       DEF IInv, StoppedIsQuiet, ChoosingHides, CancelsAreForOne
<1> QED  BY <1>5, <1>6

LEMMA TailFacts ==
  ASSUME NEW X, NEW q \in Seq(X), q # <<>>
  PROVE  /\ Tail(q) \in Seq(X) /\ Head(q) = q[1] /\ 1 \in DOMAIN q
         /\ \A k \in DOMAIN Tail(q) : k + 1 \in DOMAIN q /\ Tail(q)[k] = q[k + 1]
         /\ Tail(q) # <<>> => Tail(q)[Len(Tail(q))] = q[Len(q)]
         /\ \A k \in DOMAIN q : k = 1 \/ \E j \in DOMAIN Tail(q) : Tail(q)[j] = q[k]
         /\ Len(q) \in DOMAIN q
<1>1. /\ DOMAIN q = 1 .. Len(q) /\ Len(q) \in Nat \ {0}
      /\ Tail(q) \in Seq(X) /\ Len(Tail(q)) = Len(q) - 1 /\ Head(q) = q[1]
      /\ \A i \in 1 .. Len(q) - 1 : Tail(q)[i] = q[i + 1]
  BY LenProperties, EmptySeq, HeadTailProperties
<1>2. DOMAIN Tail(q) = 1 .. Len(q) - 1
  BY <1>1, LenProperties
<1>3. \A k \in DOMAIN Tail(q) : k + 1 \in DOMAIN q /\ Tail(q)[k] = q[k + 1]
  BY <1>1, <1>2
<1>4. ASSUME Tail(q) # <<>> PROVE Tail(q)[Len(Tail(q))] = q[Len(q)]
  <2>1. Len(q) - 1 \in 1 .. Len(q) - 1 /\ (Len(q) - 1) + 1 = Len(q)
    BY <1>1, <1>4, EmptySeq
  <2> QED  BY <1>1, <2>1
<1>5. ASSUME NEW k \in DOMAIN q, k # 1
      PROVE  \E j \in DOMAIN Tail(q) : Tail(q)[j] = q[k]
  <2>1. k - 1 \in 1 .. Len(q) - 1 /\ (k - 1) + 1 = k
    BY <1>1, <1>5
  <2> QED  BY <1>1, <1>2, <2>1
<1> QED  BY <1>1, <1>3, <1>4, <1>5

LEMMA OnDisplayKeeps == IInv /\ OnDisplay => IInv'
<1> SUFFICES ASSUME IInv, OnDisplay PROVE IInv'
  OBVIOUS
<1>1. messages \in Seq({"refresh", "cancel"}) /\ messages # <<>>
  BY DEF IInv, TypeOK, OnDisplay
<1>2. /\ Tail(messages) \in Seq({"refresh", "cancel"})
      /\ ~isShowing => \A k \in DOMAIN Tail(messages) : Tail(messages)[k] = "refresh"
      /\ Tail(messages) # <<>> =>
           Tail(messages)[Len(Tail(messages))] = messages[Len(messages)]
  BY <1>1, TailFacts DEF IInv, CancelsAreForOne
<1>3. started'
  BY <1>1 DEF OnDisplay, IInv, StoppedIsQuiet, TypeOK
<1> QED  BY <1>1, <1>2, <1>3, RefreshKeeps DEF OnDisplay

LEMMA StartKeeps == IInv /\ Start => IInv'
<1> SUFFICES ASSUME IInv, Start PROVE IInv'
  OBVIOUS
<1>1. messages \in Seq({"refresh", "cancel"}) /\ messages = <<>>
  BY DEF IInv, TypeOK, Start, StoppedIsQuiet
<1> QED  BY <1>1, RefreshKeeps DEF Start, IInv, CancelsAreForOne

LEMMA OnActivityResumeKeeps == IInv /\ OnActivityResume => IInv'
<1> SUFFICES ASSUME IInv, OnActivityResume PROVE IInv'
  OBVIOUS
<1>1. messages \in Seq({"refresh", "cancel"}) /\ started'
  BY DEF IInv, TypeOK, OnActivityResume
<1> QED  BY <1>1, RefreshKeeps DEF OnActivityResume, IInv, CancelsAreForOne

(* A cancel that is handled leaves a refresh in the queue. *)
LEMMA OnCancelKeeps == IInv /\ OnCancel => IInv'
<1> SUFFICES ASSUME IInv, OnCancel PROVE IInv'
  OBVIOUS
<1> DEFINE q == Tail(messages)
<1>1. /\ TypeOK /\ messages \in Seq({"refresh", "cancel"}) /\ messages # <<>>
      /\ Head(messages) = "cancel" /\ isShowing' = FALSE
      /\ messages' = WithoutCancel(q)
      /\ UNCHANGED <<attached, rate, started, presentation, choosing,
                     lastRefreshHz, dropped, ring, sDisplayRefreshHz>>
  BY DEF IInv, TypeOK, OnCancel, displayVars, reportVars
<1>2. /\ q \in Seq({"refresh", "cancel"}) /\ messages[1] = "cancel"
      /\ \A k \in DOMAIN messages : k = 1 \/ \E j \in DOMAIN q : q[j] = messages[k]
      /\ Len(messages) \in DOMAIN messages
  BY <1>1, TailFacts
<1>3. \E k \in DOMAIN messages : messages[k] = "refresh"
  BY <1>1, <1>2 DEF IInv, CancelIsFounded
<1>4. \E j \in DOMAIN q : q[j] = "refresh"
  BY <1>2, <1>3
<1> HIDE DEF q
<1>5. /\ messages' \in Seq({"refresh", "cancel"}) /\ messages' # <<>>
      /\ \A k \in DOMAIN messages' : messages'[k] = "refresh"
  BY <1>1, <1>2, <1>4, WithoutCancelFacts
<1>6. TypeOK'
  BY <1>1, <1>5 DEF TypeOK
<1>7. started
  BY <1>1 DEF IInv, StoppedIsQuiet
<1>8. CancelIsFounded'
  <2>1. Len(messages') \in DOMAIN messages'
    BY <1>5, LenProperties, EmptySeq
  <2> QED  BY <1>5, <2>1 DEF CancelIsFounded
<1> QED
  BY <1>1, <1>5, <1>6, <1>7, <1>8
     DEF IInv, StoppedIsQuiet, ChoosingHides, CancelsAreForOne, SettledWhenDone

LEMMA StopKeeps == IInv /\ Stop => IInv'
<1> SUFFICES ASSUME IInv, Stop PROVE IInv'
  OBVIOUS
<1>1. /\ choosing = None /\ choosing' = None /\ started' = FALSE /\ messages' = <<>>
      /\ presentation' = None /\ isShowing' = FALSE
      /\ UNCHANGED <<attached, rate, lastRefreshHz, dropped, ring, sDisplayRefreshHz>>
  BY DEF Stop, Ready, displayVars, reportVars
<1>2. messages' \in Seq({"refresh", "cancel"})
  BY <1>1
<1>3. TypeOK'
  BY <1>1, <1>2 DEF TypeOK, IInv
<1> QED
  BY <1>1, <1>3 DEF IInv, StoppedIsQuiet, ChoosingHides, CancelsAreForOne,
     CancelIsFounded, SettledWhenDone, Ready

LEMMA ShowKeeps == IInv /\ Show => IInv'
<1> SUFFICES ASSUME IInv, Show PROVE IInv'
  OBVIOUS
<1>1. /\ TypeOK /\ choosing # None /\ choosing' = None /\ started /\ ~isShowing
      /\ UNCHANGED <<attached, rate, messages, started, lastRefreshHz, dropped,
                     ring, sDisplayRefreshHz>>
  BY DEF IInv, TypeOK, Show, Ready, StoppedIsQuiet, ChoosingHides, displayVars, reportVars
<1>2. choosing \in Infos
  BY <1>1 DEF TypeOK
<1>3. \/ presentation' = choosing /\ isShowing' = TRUE /\ attached[choosing.display] # None
      \/ presentation' = None /\ isShowing' = FALSE /\ attached[choosing.display] = None
  BY DEF Show
<1>4. TypeOK'
  <2>1. choosing # None /\ presentation' \in Infos \cup {None} /\ isShowing' \in BOOLEAN
    BY <1>1, <1>2, <1>3
  <2>2. isShowing' => presentation' # None
    BY <1>1, <1>3
  <2> QED  BY <1>1, <2>1, <2>2 DEF TypeOK
<1>5. messages # <<>> => messages[Len(messages)] = "refresh"
  <2>1. messages # <<>> => Len(messages) \in DOMAIN messages
    BY <1>1, LenProperties, EmptySeq DEF TypeOK
  <2> QED  BY <1>1, <2>1 DEF IInv, CancelsAreForOne
<1>6. SettledWhenDone'
  <2> SUFFICES ASSUME messages' = <<>> PROVE Ready' /\ ShowsTheRightDisplay'
    BY <1>1 DEF SettledWhenDone
  <2>1. Chosen # None /\ choosing = Info(Chosen) /\ Chosen' = Chosen
    BY <1>1 DEF IInv, SettledWhenDone, Ready, Chosen, Candidates
  <2>2. attached[choosing.display] # None
    BY <1>1, <2>1, ChosenIsThere DEF Info, Candidates
  <2>3. presentation' = Info(Chosen) /\ isShowing'
    BY <1>3, <2>1, <2>2
  <2> QED  BY <1>1, <2>1, <2>3 DEF Ready, ShowsTheRightDisplay, Info
<1> QED
  BY <1>1, <1>4, <1>5, <1>6 DEF IInv, StoppedIsQuiet, ChoosingHides, CancelsAreForOne,
     CancelIsFounded, Ready

(* Steps that leave the displays, the screen and the queue alone. *)
LEMMA RingKeeps == IInv /\ (OtherCommand \/ Drain) => IInv'
<1> SUFFICES ASSUME IInv, OtherCommand \/ Drain PROVE IInv'
  OBVIOUS
<1>1. UNCHANGED <<attached, rate, messages, started, presentation, isShowing,
                  choosing, lastRefreshHz, dropped>>
  BY DEF OtherCommand, Drain, displayVars, showVars, reportVars
<1>2. /\ ring' \in Seq(Rates \cup {Other}) /\ Len(ring') <= Capacity
      /\ sDisplayRefreshHz' \in Rates \cup {0}
  <2>0. ring \in Seq(Rates \cup {Other}) /\ Len(ring) \in Nat
    BY DEF IInv, TypeOK
  <2>1. CASE OtherCommand
    <3>1. Other \in Rates \cup {Other}
      OBVIOUS
    <3>2. /\ Append(ring, Other) \in Seq(Rates \cup {Other})
          /\ Len(Append(ring, Other)) = Len(ring) + 1
      BY <2>0, <3>1, AppendProperties
    <3>3. ring' = ring \/ (ring' = Append(ring, Other) /\ Len(ring) < Capacity)
      BY <2>1 DEF OtherCommand
    <3>4. Len(ring') <= Capacity
      BY <2>0, <3>2, <3>3, CapacityAssumption DEF IInv, TypeOK
    <3> QED  BY <2>0, <2>1, <3>2, <3>3, <3>4 DEF OtherCommand, IInv, TypeOK
  <2>2. CASE Drain
    <3>1. ring' = <<>> /\ Len(ring') = 0
      BY <2>2 DEF Drain
    <3>2. \A k \in DOMAIN ring : ring[k] # Other => ring[k] \in Rates
      BY <2>0
    <3>3. sDisplayRefreshHz' \in Rates \cup {0}
      BY <2>2, <3>2 DEF Drain, LastReported, IInv, TypeOK
    <3> QED  BY <3>1, <3>3, CapacityAssumption
  <2> QED  BY <2>1, <2>2
<1>3. TypeOK'
  BY <1>1, <1>2 DEF TypeOK, IInv
<1> QED
  BY <1>1, <1>3 DEF IInv, StoppedIsQuiet, ChoosingHides, CancelsAreForOne,
     CancelIsFounded, SettledWhenDone, Ready, ShowsTheRightDisplay, Chosen,
     Candidates, Info

(* The display service: what a change leaves in the queue. *)
LEMMA NotifyFacts ==
  ASSUME IInv, NEW gone, Notify(gone),
         UNCHANGED <<started, presentation, isShowing>>
  PROVE  /\ messages' \in Seq({"refresh", "cancel"})
         /\ ~started => messages' = <<>>
         /\ started => /\ messages' # <<>>
                       /\ Len(messages') \in DOMAIN messages'
                       /\ \E k \in DOMAIN messages' : messages'[k] = "refresh"
                       /\ \/ messages'[Len(messages')] = "refresh"
                          \/ presentation # None /\ presentation.display \in gone
         /\ CancelsAreForOne'
<1>1. messages \in Seq({"refresh", "cancel"}) /\ TypeOK
  BY DEF IInv, TypeOK
<1>2. CASE ~started
  <2>1. messages = <<>> /\ ~isShowing
    BY <1>2 DEF IInv, StoppedIsQuiet
  <2>2. messages' = <<>>
    BY <1>2, <2>1 DEF Notify
  <2> QED  BY <1>2, <2>2 DEF CancelsAreForOne
<1>3. CASE started
  <2> DEFINE m == Append(messages, "refresh")
             n == Append(m, "cancel")
  <2>1. /\ m \in Seq({"refresh", "cancel"}) /\ Len(m) = Len(messages) + 1
        /\ m[Len(messages) + 1] = "refresh" /\ Len(messages) \in Nat
        /\ \A i \in 1 .. Len(messages) : m[i] = messages[i]
        /\ DOMAIN messages = 1 .. Len(messages)
    BY <1>1, AppendProperties, LenProperties
  <2>2. DOMAIN m = 1 .. Len(messages) + 1
    BY <2>1, LenProperties
  <2> HIDE DEF m
  <2>3. /\ n \in Seq({"refresh", "cancel"}) /\ Len(n) = Len(m) + 1
        /\ \A i \in 1 .. Len(m) : n[i] = m[i]
    BY <2>1, AppendProperties
  <2>4. DOMAIN n = 1 .. Len(m) + 1
    BY <2>1, <2>3, LenProperties
  <2> HIDE DEF n
  <2>5. CASE isShowing /\ presentation.display \in gone
    <3>1. messages' = n
      <4>1. messages' = (messages \o <<"refresh">>) \o <<"cancel">>
        BY <1>3, <2>5 DEF Notify
      <4> QED  BY <1>1, <2>1, <4>1, AppendIsConcat DEF m, n
    <3>2. n # <<>> /\ Len(n) \in DOMAIN n /\ Len(messages) + 1 \in DOMAIN n
          /\ n[Len(messages) + 1] = "refresh"
      BY <2>1, <2>3, <2>4, EmptySeq
    <3>3. presentation # None
      BY <1>1, <2>5 DEF TypeOK
    <3> QED  BY <1>3, <2>3, <2>5, <3>1, <3>2, <3>3 DEF CancelsAreForOne
  <2>6. CASE ~(isShowing /\ presentation.display \in gone)
    <3>1. messages' = m
      <4>1. messages' = (messages \o <<"refresh">>) \o <<>>
        BY <1>3, <2>6 DEF Notify
      <4>2. messages \o <<"refresh">> = m
        BY <1>1, AppendIsConcat DEF m
      <4> QED  BY <2>1, <4>1, <4>2, ConcatEmptySeq
    <3>2. m # <<>> /\ Len(m) \in DOMAIN m /\ m[Len(m)] = "refresh"
      BY <2>1, <2>2, EmptySeq
    <3>3. CancelsAreForOne'
      BY <2>1, <2>2, <3>1 DEF CancelsAreForOne, IInv
    <3> QED  BY <1>3, <2>1, <3>1, <3>2, <3>3
  <2> QED  BY <2>5, <2>6
<1> QED  BY <1>1, <1>2, <1>3 DEF TypeOK

LEMMA ChangesKeep ==
  ASSUME IInv,
         \/ \E d \in Secondary, mode \in Modes \cup {None} : DisplayChanges(d, mode)
         \/ \E hz \in Rates : RateChanges(hz)
  PROVE  IInv'
<1>1. UNCHANGED <<started, presentation, isShowing, choosing, lastRefreshHz,
                  dropped, ring, sDisplayRefreshHz>>
  BY DEF DisplayChanges, RateChanges, Change, showVars, reportVars
<1>2. PICK gone : /\ Notify(gone)
                  /\ \A d \in gone : attached'[d] = None
                  /\ attached' \in [Secondary -> Modes \cup {None}] /\ rate' \in Rates
  <2>1. CASE \E d \in Secondary, mode \in Modes \cup {None} : DisplayChanges(d, mode)
    <3>1. PICK d \in Secondary, mode \in Modes \cup {None} : DisplayChanges(d, mode)
      BY <2>1
    <3>2. attached \in [Secondary -> Modes \cup {None}] /\ rate \in Rates
      BY DEF IInv, TypeOK
    <3>3. Notify(IF mode = None THEN {d} ELSE {})
      BY <3>1 DEF DisplayChanges
    <3> QED  BY <3>1, <3>2, <3>3 DEF DisplayChanges
  <2>2. CASE \E hz \in Rates : RateChanges(hz)
    BY <2>2 DEF RateChanges, IInv, TypeOK
  <2> QED  BY <2>1, <2>2
<1>3. /\ messages' \in Seq({"refresh", "cancel"})
      /\ ~started => messages' = <<>>
      /\ started => /\ messages' # <<>>
                    /\ \E k \in DOMAIN messages' : messages'[k] = "refresh"
                    /\ \/ messages'[Len(messages')] = "refresh"
                       \/ presentation # None /\ presentation.display \in gone
      /\ CancelsAreForOne'
  BY <1>1, <1>2, NotifyFacts
<1>4. TypeOK'
  BY <1>1, <1>2, <1>3 DEF TypeOK, IInv
<1>5. CancelIsFounded' /\ SettledWhenDone'
  BY <1>1, <1>2, <1>3, <1>4 DEF CancelIsFounded, SettledWhenDone, TypeOK
<1> QED
  BY <1>1, <1>3, <1>4, <1>5
     DEF IInv, StoppedIsQuiet, ChoosingHides, Ready

LEMMA NextInv == IInv /\ [Next]_vars => IInv'
<1> SUFFICES ASSUME IInv, [Next]_vars PROVE IInv'
  OBVIOUS
<1>1. CASE Start \/ OnDisplay \/ OnActivityResume
  BY <1>1, StartKeeps, OnDisplayKeeps, OnActivityResumeKeeps
<1>2. CASE Stop \/ OnCancel \/ Show
  BY <1>2, StopKeeps, OnCancelKeeps, ShowKeeps
<1>3. CASE OtherCommand \/ Drain
  BY <1>3, RingKeeps
<1>4. CASE \/ \E d \in Secondary, mode \in Modes \cup {None} : DisplayChanges(d, mode)
           \/ \E hz \in Rates : RateChanges(hz)
  BY <1>4, ChangesKeep
<1>5. CASE UNCHANGED vars
  BY <1>5 DEF vars, IInv, TypeOK, StoppedIsQuiet, ChoosingHides, CancelsAreForOne,
     CancelIsFounded, SettledWhenDone, Ready, ShowsTheRightDisplay, Chosen,
     Candidates, Info
<1> QED  BY <1>1, <1>2, <1>3, <1>4, <1>5 DEF Next

(* IInv holds: each wrong thing on the screens has the message or the rest *)
(* of the callback that puts it right still to come                        *)
(* (SecondScreenManager.kt:75-114).                                        *)
THEOREM ManagerInvariant == Spec => []IInv
BY InitInv, NextInv, PTL DEF Spec

(* The manager's state has its type; the ring never takes more commands    *)
(* than it has room for.                                                   *)
THEOREM ManagerTypeCorrect == Spec => []TypeOK
<1>1. IInv => TypeOK
  BY DEF IInv
<1> QED  BY <1>1, ManagerInvariant, PTL

(* A bottom screen that shows the wrong display, or one where there should *)
(* be none, has a callback of a running activity under way                 *)
(* (SecondScreenManager.kt:75-114).                                        *)
THEOREM AlwaysTransient == Spec => []WrongScreenIsTransient
<1>1. IInv => WrongScreenIsTransient
  <2> SUFFICES ASSUME IInv, ~ShowsTheRightDisplay
               PROVE  started /\ (messages # <<>> \/ ~Ready)
    BY DEF WrongScreenIsTransient
  <2>1. started
    BY DEF IInv, StoppedIsQuiet, ShowsTheRightDisplay
  <2> QED  BY <2>1 DEF IInv, SettledWhenDone
<1> QED  BY <1>1, ManagerInvariant, PTL
==================================================================================
