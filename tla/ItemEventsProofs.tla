--------------------------- MODULE ItemEventsProofs ---------------------------
(***************************************************************************)
(* The event being handled and the one item actor that has yet to give it  *)
(* belong together, for every number of checks, gifts, traps and actors.   *)
(***************************************************************************)
EXTENDS ItemEvents, SequenceTheorems, FiniteSetTheorems, TLAPS

ActorInv == TypeOK /\ Linked

(* The kinds of an event tell it from no event.                            *)
LEMMA EventKinds ==
  /\ \A e \in ItemEvent : e.kind \in ItemKinds /\ e.what \in Checks \cup Gifts /\ e # None
  /\ None.kind \notin ItemKinds /\ None \notin Event
  /\ ItemEvent \subseteq Event
  /\ \A e \in Event : e.kind \in ItemKinds => e \in ItemEvent
  /\ \A e \in Event : e.kind = "trap" => e.what \in Things
<1> USE DEF ItemEvent, Event, CheckEvent, GiftEvent, TrapEvent, MoveEvent, None
<1>1. \A e \in Event : e.kind \in {"check", "gift", "trap", "move"}
  OBVIOUS
<1>2. None.kind = "none"
  OBVIOUS
<1>3. None \notin Event
  BY <1>1, <1>2 DEF ItemEvent
<1>4. /\ \A e \in ItemEvent : e.kind \in ItemKinds /\ e.what \in Checks \cup Gifts /\ e # None
      /\ None.kind \notin ItemKinds
      /\ \A e \in Event : e.kind \in ItemKinds => e \in ItemEvent
      /\ \A e \in Event : e.kind = "trap" => e.what \in Things
  BY DEF ItemKinds, Things
<1> QED  BY <1>3, <1>4

LEMMA InitActorInv == Init => ActorInv
<1> SUFFICES ASSUME Init PROVE ActorInv
  OBVIOUS
<1>1. Blank \in SaveType
  BY DEF Blank, SaveType
<1>2. \A s \in Slots : item[s] = NoItem
  BY DEF Init
<1>3. ItemsOK
  <2>1. NoItem \in [stage : Stages, what : Checks \cup Gifts \cup {<<>>}, cutscene : BOOLEAN, called : BOOLEAN]
    BY DEF NoItem, Stages
  <2>2. NoItem.stage = "none"
    BY DEF NoItem
  <2>3. item \in [Slots -> [stage : Stages, what : Checks \cup Gifts \cup {<<>>},
                           cutscene : BOOLEAN, called : BOOLEAN]]
    BY <2>1 DEF Init
  <2>4. \A s \in Slots : item[s].stage = "none"
    BY <1>2, <2>2
  <2> QED  BY <2>3, <2>4 DEF ItemsOK
<1>4. QueueOK
  <2>1. events = <<>> /\ current = None /\ queued = FALSE
    BY DEF Init
  <2>2. <<>> \in Seq(Event)
    OBVIOUS
  <2> QED  BY <2>1, <2>2 DEF QueueOK
<1>5. TypeOK
  BY <1>1, <1>3, <1>4, BoundsAssumption DEF Init, TypeOK
<1>6. Linked
  BY <1>2 DEF Init, Linked, ItemHasEvent, EventHasItem, Uncalled, NoItem
<1> QED  BY <1>5, <1>6 DEF ActorInv

(* Steps that leave the queue and the actors alone. *)
LEMMA Untouched ==
  ASSUME ActorInv, UNCHANGED <<events, current, item>>, queued' \in BOOLEAN, place' = place
  PROVE  QueueOK' /\ ItemsOK' /\ Linked'
BY DEF ActorInv, TypeOK, QueueOK, ItemsOK, Linked, ItemHasEvent, EventHasItem, Uncalled

(* Steps that only add an event at the end. *)
LEMMA Appended ==
  ASSUME ActorInv, NEW e \in Event, events' = Append(events, e), UNCHANGED <<current, item>>,
         queued' \in BOOLEAN, place' = place
  PROVE  QueueOK' /\ ItemsOK' /\ Linked'
BY DEF ActorInv, TypeOK, QueueOK, ItemsOK, Linked, ItemHasEvent, EventHasItem, Uncalled

(* Putting a lost event back, from an actor of S or from none.             *)
LEMMA DestroyType ==
  ASSUME ActorInv, NEW S \in SUBSET Slots, Destroy(S)
  PROVE  /\ events' \in Seq(Event) /\ current' \in ItemEvent \cup {None}
         /\ (\E s \in S : Uncalled(s)) => current' = None
         /\ (\A s \in S : ~Uncalled(s)) => current' = current
<1>1. CASE \E s \in S : Uncalled(s)
  <2>1. current \in Event
    BY <1>1, EventKinds DEF ActorInv, TypeOK, Linked, ItemHasEvent, QueueOK
  <2> QED  BY <1>1, <2>1 DEF Destroy, ActorInv, TypeOK, QueueOK
<1>2. CASE \A s \in S : ~Uncalled(s)
  BY <1>2 DEF Destroy, ActorInv, TypeOK, QueueOK
<1> QED  BY <1>1, <1>2

(* Steps that move only the save and the player. *)
LEMMA OtherSteps ==
  ASSUME ActorInv,
         \/ \E c \in Checks : Mark(c)
         \/ AfterEndOfCycleSave \/ Occupy \/ Settle \/ EndGetItem \/ SaveGame
         \/ UNCHANGED vars
  PROVE  ActorInv'
<1>1. QueueOK' /\ ItemsOK' /\ Linked'
  BY Untouched DEF Mark, AfterEndOfCycleSave, Occupy, Settle, EndGetItem, SaveGame, vars, queueVars, ActorInv, TypeOK, QueueOK
<1>2. save' \in SaveType /\ file' \in SaveType
  <2>1. CASE \E c \in Checks : Mark(c)
    BY <2>1 DEF Mark, ActorInv, TypeOK, SaveType
  <2>2. CASE AfterEndOfCycleSave
    BY <2>2, TrapsAssumption DEF AfterEndOfCycleSave, ActorInv, TypeOK, SaveType
  <2>3. CASE SaveGame
    BY <2>3 DEF SaveGame, ActorInv, TypeOK
  <2>4. CASE Occupy \/ Settle \/ EndGetItem \/ UNCHANGED vars
    BY <2>4 DEF Occupy, Settle, EndGetItem, vars, ActorInv, TypeOK
  <2> QED  BY <2>1, <2>2, <2>3, <2>4
<1>3. /\ rando' \in BOOLEAN /\ place' \in {"play", "menu"}
      /\ player' \in {"free", "riding", "blocked", "leaving", "getitem"}
      /\ asks' \in 0 .. MaxAsks /\ mishaps' \in 0 .. MaxMishaps
  BY BoundsAssumption DEF Mark, AfterEndOfCycleSave, Occupy, Settle, EndGetItem, SaveGame, vars, bounds, ActorInv, TypeOK
<1> QED  BY <1>1, <1>2, <1>3 DEF ActorInv, TypeOK

(* Steps that queue an event. *)
LEMMA QueueSteps ==
  ASSUME ActorInv,
         (\E g \in Gifts : QueueGift(g)) \/ QueueMove \/ CheckQueue
  PROVE  ActorInv'
<1>1. \E e \in Event : events' = Append(events, e)
  <2>1. CASE \E g \in Gifts : QueueGift(g)
    BY <2>1 DEF QueueGift, Event, ItemEvent
  <2>2. CASE QueueMove
    BY <2>2 DEF QueueMove, Event
  <2>3. CASE CheckQueue
    <3>1. PICK c \in save.eligible : events' = Append(events, CheckEvent(c))
      BY <2>3 DEF CheckQueue
    <3>2. c \in Checks
      BY DEF ActorInv, TypeOK, SaveType
    <3> QED  BY <3>1, <3>2 DEF Event, ItemEvent
  <2> QED  BY <2>1, <2>2, <2>3
<1>2. UNCHANGED <<current, item, save, rando, file, player, place>> /\ queued' \in BOOLEAN
  BY DEF QueueGift, QueueMove, CheckQueue, bounds, ActorInv, TypeOK, QueueOK
<1>3. QueueOK' /\ ItemsOK' /\ Linked'
  BY <1>1, <1>2, Appended
<1>4. asks' \in 0 .. MaxAsks /\ mishaps' \in 0 .. MaxMishaps
  BY BoundsAssumption DEF QueueGift, QueueMove, CheckQueue, bounds, ActorInv, TypeOK
<1> QED  BY <1>2, <1>3, <1>4 DEF ActorInv, TypeOK

LEMMA HeadTail ==
  ASSUME NEW S, NEW q \in Seq(S), q # <<>>
  PROVE  Head(q) \in S /\ Tail(q) \in Seq(S) /\ Tail(q) \o <<Head(q)>> \in Seq(S)
<1>1. Head(q) \in S /\ Tail(q) \in Seq(S)
  OBVIOUS
<1>2. <<Head(q)>> \in Seq(S)
  BY <1>1
<1> QED  BY <1>1, <1>2

LEMMA SpawnKeeps == ASSUME ActorInv, SpawnItem PROVE ActorInv'
<1>1. Head(events) \in Event /\ Tail(events) \in Seq(Event)
  BY HeadTail DEF SpawnItem, MayProcess, ActorInv, TypeOK, QueueOK
<1>2. Head(events) \in ItemEvent /\ Head(events).what \in Checks \cup Gifts /\ Head(events) # None
  BY <1>1, EventKinds DEF SpawnItem
<1>3. PICK s \in Slots, cutscene \in BOOLEAN :
        /\ item[s].stage = "none"
        /\ item' = [item EXCEPT ![s] = [stage |-> "waiting", what |-> Head(events).what,
                                        cutscene |-> cutscene, called |-> FALSE]]
  BY DEF SpawnItem
<1>4. \A t \in Slots : ~Uncalled(t)
  BY EventKinds DEF SpawnItem, MayProcess, ActorInv, Linked, ItemHasEvent
<1>5. current' = Head(events) /\ place = "play" /\ place' = "play"
  BY DEF SpawnItem, MayProcess
<1>6. QueueOK'
  BY <1>1, <1>2 DEF SpawnItem, ActorInv, TypeOK, QueueOK
<1>7. /\ item'[s] = [stage |-> "waiting", what |-> Head(events).what,
                     cutscene |-> cutscene, called |-> FALSE]
      /\ \A t \in Slots \ {s} : item'[t] = item[t]
  BY <1>3 DEF ActorInv, TypeOK, ItemsOK
<1>8. ItemsOK'
  BY <1>2, <1>3, <1>5, <1>7 DEF ActorInv, TypeOK, ItemsOK, Stages
<1>9. Uncalled(s)' /\ \A t \in Slots \ {s} : ~Uncalled(t)'
  BY <1>4, <1>7 DEF Uncalled
<1>10. Linked'
  BY <1>2, <1>5, <1>7, <1>9, EventKinds DEF Linked, ItemHasEvent, EventHasItem
<1> QED  BY <1>6, <1>8, <1>10 DEF SpawnItem, bounds, ActorInv, TypeOK

LEMMA TrapKeeps == ASSUME ActorInv, SpringTrap PROVE ActorInv'
<1>1. /\ Head(events) \in Event /\ Tail(events) \in Seq(Event)
      /\ Tail(events) \o <<Head(events)>> \in Seq(Event)
  BY HeadTail DEF SpringTrap, MayProcess, ActorInv, TypeOK, QueueOK
<1>2. Head(events).what \in Things
  BY <1>1, EventKinds DEF SpringTrap
<1>3. events' \in Seq(Event)
  BY <1>1 DEF SpringTrap
<1>4. save' \in SaveType
  <2>1. CASE player = "riding"
    BY <2>1 DEF SpringTrap, ActorInv, TypeOK
  <2>2. CASE player # "riding"
    <3>1. save' = [save EXCEPT !.given[Head(events).what] = @ + 1] /\ save \in SaveType
      BY <2>2 DEF SpringTrap, ActorInv, TypeOK
    <3> QED  BY <3>1, <1>2 DEF SaveType
  <2> QED  BY <2>1, <2>2
<1>5. UNCHANGED <<rando, file, queued, current, item, player, place, asks, mishaps>>
  BY DEF SpringTrap, bounds
<1>6. QueueOK' /\ ItemsOK' /\ Linked'
  BY <1>3, <1>5 DEF ActorInv, TypeOK, QueueOK, ItemsOK, Linked, ItemHasEvent, EventHasItem, Uncalled
<1> QED  BY <1>4, <1>5, <1>6 DEF ActorInv, TypeOK

LEMMA MoveKeeps == ASSUME ActorInv, StartTransition PROVE ActorInv'
<1>1. events' \in Seq(Event)
  BY HeadTail DEF StartTransition, MayProcess, ActorInv, TypeOK, QueueOK
<1>2. UNCHANGED <<save, rando, file, queued, current, item, place, asks, mishaps>>
  BY DEF StartTransition, bounds
<1>3. QueueOK' /\ ItemsOK' /\ Linked'
  BY <1>1, <1>2 DEF ActorInv, TypeOK, QueueOK, ItemsOK, Linked, ItemHasEvent, EventHasItem, Uncalled
<1> QED  BY <1>2, <1>3 DEF StartTransition, ActorInv, TypeOK

(* Steps of an actor that give nothing and keep whether it has given.      *)
LEMMA StageSteps ==
  ASSUME ActorInv, NEW s \in Slots, EndOverhead(s) \/ TakeOffer(s) \/ DropHeld(s)
  PROVE  ActorInv'
<1>1. PICK stage \in {"held", "killed"} :
        /\ item' = [item EXCEPT ![s].stage = stage]
        /\ stage = "held" => item[s].stage = "waiting"
        /\ item[s].stage # "none"
  BY DEF EndOverhead, TakeOffer, DropHeld
<1>2. /\ item'[s] = [item[s] EXCEPT !.stage = stage]
      /\ \A t \in Slots \ {s} : item'[t] = item[t]
  BY <1>1 DEF ActorInv, TypeOK, ItemsOK
<1>3. UNCHANGED <<save, rando, file, queued, events, current, place, asks, mishaps>>
  BY DEF EndOverhead, TakeOffer, DropHeld, bounds, queueVars
<1>4. /\ item'[s].stage = stage /\ item'[s].called = item[s].called
      /\ item'[s].what = item[s].what
  BY <1>2 DEF ActorInv, TypeOK, ItemsOK
<1>5. ItemsOK'
  <2>1. item' \in [Slots -> [stage : Stages, what : Checks \cup Gifts \cup {<<>>},
                            cutscene : BOOLEAN, called : BOOLEAN]]
    BY <1>1 DEF ActorInv, TypeOK, ItemsOK, Stages
  <2> QED  BY <1>1, <1>2, <1>3, <1>4, <2>1 DEF ActorInv, TypeOK, ItemsOK
<1>6. \A t \in Slots : Uncalled(t)' = Uncalled(t) /\ item'[t].what = item[t].what
  BY <1>1, <1>2, <1>4 DEF Uncalled
<1>7. Linked'
  BY <1>3, <1>6 DEF ActorInv, Linked, ItemHasEvent, EventHasItem
<1>8. QueueOK'
  BY <1>3 DEF ActorInv, TypeOK, QueueOK
<1>9. player' \in {"free", "riding", "blocked", "leaving", "getitem"}
  BY DEF EndOverhead, TakeOffer, DropHeld, ActorInv, TypeOK
<1> QED  BY <1>3, <1>5, <1>7, <1>8, <1>9 DEF ActorInv, TypeOK

(* The actor that gives its item is the one of the current event, which    *)
(* ends with it.                                                           *)
LEMMA GiveSteps ==
  ASSUME ActorInv, NEW s \in Slots, GiveOverhead(s) \/ GiveHeld(s)
  PROVE  ActorInv'
<1>1. PICK stage \in {"shown", "killed"} :
        item' = [item EXCEPT ![s].stage = stage, ![s].called = TRUE]
  BY DEF GiveOverhead, GiveHeld
<1>2. Uncalled(s) /\ CallAction(s) /\ place = "play"
  BY DEF GiveOverhead, GiveHeld, Uncalled, ActorInv, TypeOK, ItemsOK
<1>3. UNCHANGED <<rando, file, player, place, asks, mishaps>>
  BY DEF GiveOverhead, GiveHeld, bounds
<1>4. /\ current.kind \in ItemKinds /\ current \in ItemEvent /\ current.what = item[s].what
      /\ item[s].what \in Checks \cup Gifts
      /\ \A t \in Slots \ {s} : ~Uncalled(t)
  BY <1>2, EventKinds DEF ActorInv, Linked, ItemHasEvent, TypeOK, QueueOK
<1>5. save' \in SaveType
  <2>1. save' = [eligible |-> IF current.kind = "check"
                              THEN save.eligible \ {item[s].what} ELSE save.eligible,
                 given |-> [save.given EXCEPT ![item[s].what] = @ + 1]]
    BY <1>2, <1>4 DEF CallAction
  <2>2. item[s].what \in Things
    BY <1>4 DEF Things
  <2>3. save.eligible \in SUBSET Checks /\ save.given \in [Things -> Nat]
    BY DEF ActorInv, TypeOK, SaveType
  <2>4. [save.given EXCEPT ![item[s].what] = @ + 1] \in [Things -> Nat]
    BY <2>2, <2>3
  <2> QED  BY <2>1, <2>3, <2>4 DEF SaveType
<1>6. QueueOK'
  <2>1. current' = None
    BY <1>2, <1>4 DEF CallAction, CurrentAfter
  <2>2. events' \in Seq(Event)
    <3>1. item[s].what \in Traps => TrapEvent(item[s].what) \in Event
      BY DEF Event
    <3> QED  BY <1>2, <3>1 DEF CallAction, ActorInv, TypeOK, QueueOK
  <2>3. queued' \in BOOLEAN
    BY <1>2 DEF CallAction, QueuedAfter, ActorInv, TypeOK, QueueOK
  <2> QED  BY <2>1, <2>2, <2>3 DEF QueueOK
<1>7. /\ item'[s].stage = stage /\ item'[s].called
      /\ \A t \in Slots \ {s} : item'[t] = item[t]
      /\ item' \in [Slots -> [stage : Stages, what : Checks \cup Gifts \cup {<<>>},
                            cutscene : BOOLEAN, called : BOOLEAN]]
  BY <1>1 DEF ActorInv, TypeOK, ItemsOK, Stages
<1>8. ItemsOK'
  BY <1>2, <1>3, <1>7 DEF ActorInv, TypeOK, ItemsOK
<1>9. \A t \in Slots : ~Uncalled(t)'
  BY <1>4, <1>7 DEF Uncalled
<1>10. Linked'
  BY <1>2, <1>4, <1>9 DEF Linked, ItemHasEvent, EventHasItem, CallAction, CurrentAfter
<1> QED  BY <1>3, <1>5, <1>6, <1>8, <1>10 DEF ActorInv, TypeOK

(* Steps that delete the actors of the slots S.                            *)
LEMMA DeleteLinked ==
  ASSUME ActorInv, NEW S \in SUBSET Slots, Destroy(S),
         item' = [s \in Slots |-> IF s \in S THEN NoItem ELSE item[s]],
         place' = place \/ S = Slots, queued' = queued
  PROVE  QueueOK' /\ ItemsOK' /\ Linked'
<1>1. QueueOK'
  BY DestroyType DEF ActorInv, TypeOK, QueueOK
<1>2. NoItem \in [stage : Stages, what : Checks \cup Gifts \cup {<<>>},
                  cutscene : BOOLEAN, called : BOOLEAN] /\ NoItem.stage = "none"
  BY DEF NoItem, Stages
<1>3. \A s \in Slots : item'[s] = IF s \in S THEN NoItem ELSE item[s]
  OBVIOUS
<1>4. ItemsOK'
  <2>1. item' \in [Slots -> [stage : Stages, what : Checks \cup Gifts \cup {<<>>},
                            cutscene : BOOLEAN, called : BOOLEAN]]
    BY <1>2 DEF ActorInv, TypeOK, ItemsOK
  <2> QED  BY <1>2, <1>3, <2>1 DEF ActorInv, TypeOK, ItemsOK
<1>5. \A s \in Slots : Uncalled(s)' <=> s \notin S /\ Uncalled(s)
  BY <1>2, <1>3 DEF Uncalled
<1>6. Linked'
  <2>1. CASE \E s \in S : Uncalled(s)
    <3>1. current' = None
      BY <2>1, DestroyType
    <3>2. \A t \in Slots : ~Uncalled(t)'
      BY <2>1, <1>5 DEF ActorInv, Linked, ItemHasEvent
    <3> QED  BY <3>1, <3>2 DEF Linked, ItemHasEvent, EventHasItem
  <2>2. CASE \A s \in S : ~Uncalled(s)
    <3>1. current' = current
      BY <2>2, DestroyType
    <3>2. \A t \in Slots : Uncalled(t)' = Uncalled(t)
      BY <2>2, <1>5 DEF Uncalled
    <3>3. \A t \in Slots : Uncalled(t) => item'[t] = item[t]
      BY <2>2, <1>3
    <3> QED  BY <3>1, <3>2, <3>3 DEF ActorInv, Linked, ItemHasEvent, EventHasItem
  <2> QED  BY <2>1, <2>2
<1> QED  BY <1>1, <1>4, <1>6

LEMMA DeleteSteps ==
  ASSUME ActorInv,
         (\E s \in Slots : DeleteItem(s)) \/ EndTransition \/ LeaveScene \/ Quit
  PROVE  ActorInv'
<1>1. PICK S \in SUBSET Slots :
        /\ Destroy(S)
        /\ item' = [s \in Slots |-> IF s \in S THEN NoItem ELSE item[s]]
        /\ place' = place \/ S = Slots
  <2>1. ASSUME NEW s \in Slots, DeleteItem(s)
        PROVE  /\ Destroy({s}) /\ place' = place
               /\ item' = [t \in Slots |-> IF t \in {s} THEN NoItem ELSE item[t]]
    BY <2>1 DEF DeleteItem, ActorInv, TypeOK, ItemsOK
  <2>2. CASE EndTransition \/ LeaveScene \/ Quit
    <3>1. Destroy(Slots) /\ item' = [s \in Slots |-> NoItem]
      BY <2>2 DEF EndTransition, LeaveScene, Quit, NewScene
    <3>2. item' = [s \in Slots |-> IF s \in Slots THEN NoItem ELSE item[s]]
      BY <3>1
    <3> QED  BY <3>1, <3>2
  <2>3. CASE \E s \in Slots : DeleteItem(s)
    BY <2>1, <2>3
  <2> QED  BY <2>2, <2>3
<1>2. UNCHANGED <<save, rando, file, queued>>
  BY DEF DeleteItem, EndTransition, LeaveScene, Quit, NewScene
<1>3. QueueOK' /\ ItemsOK' /\ Linked'
  BY <1>1, <1>2, DeleteLinked
<1>4. /\ place' \in {"play", "menu"}
      /\ player' \in {"free", "riding", "blocked", "leaving", "getitem"}
      /\ asks' \in 0 .. MaxAsks /\ mishaps' \in 0 .. MaxMishaps
  <2>1. CASE \E s \in Slots : DeleteItem(s)
    BY <2>1 DEF DeleteItem, bounds, ActorInv, TypeOK
  <2>2. CASE EndTransition
    BY <2>2 DEF EndTransition, NewScene, ActorInv, TypeOK
  <2>3. CASE LeaveScene
    BY <2>3, BoundsAssumption DEF LeaveScene, NewScene, ActorInv, TypeOK
  <2>4. CASE Quit
    BY <2>4 DEF Quit, bounds, ActorInv, TypeOK
  <2> QED  BY <2>1, <2>2, <2>3, <2>4
<1> QED  BY <1>2, <1>3, <1>4 DEF ActorInv, TypeOK

LEMMA LoadKeeps == ASSUME ActorInv, OnSaveLoad PROVE ActorInv'
<1>1. Blank \in SaveType
  BY DEF Blank, SaveType
<1>2. save' \in SaveType
  BY <1>1 DEF OnSaveLoad, ActorInv, TypeOK
<1>3. current' = None /\ events' = <<>> /\ queued' = FALSE
  BY DEF OnSaveLoad, CheckQueueReset
<1>4. <<>> \in Seq(Event)
  OBVIOUS
<1>5. QueueOK'
  BY <1>3, <1>4 DEF QueueOK
<1>6. \A s \in Slots : item[s].stage = "none"
  BY DEF OnSaveLoad, ActorInv, TypeOK, ItemsOK
<1>7. item' = item /\ place' = "play"
  BY DEF OnSaveLoad
<1>8. ItemsOK' /\ Linked'
  BY <1>3, <1>6, <1>7 DEF ActorInv, TypeOK, ItemsOK, Linked, ItemHasEvent, EventHasItem, Uncalled
<1> QED  BY <1>2, <1>5, <1>8 DEF OnSaveLoad, bounds, ActorInv, TypeOK

LEMMA NextActorInv == ActorInv /\ [Next]_vars => ActorInv'
<1> SUFFICES ASSUME ActorInv, [Next]_vars PROVE ActorInv'
  OBVIOUS
<1>1. CASE \E c \in Checks : Mark(c)
  BY <1>1, OtherSteps
<1>2. CASE AfterEndOfCycleSave \/ Occupy \/ Settle \/ EndGetItem \/ SaveGame \/ UNCHANGED vars
  BY <1>2, OtherSteps
<1>3. CASE (\E g \in Gifts : QueueGift(g)) \/ QueueMove \/ CheckQueue
  BY <1>3, QueueSteps
<1>4. CASE ProcessEvents
  BY <1>4, SpawnKeeps, TrapKeeps, MoveKeeps DEF ProcessEvents
<1>5. ASSUME NEW s \in Slots, ItemUpdate(s) \/ TakeOffer(s)
      PROVE  ActorInv'
  BY <1>5, StageSteps, GiveSteps DEF ItemUpdate
<1>6. CASE (\E s \in Slots : DeleteItem(s)) \/ EndTransition \/ LeaveScene \/ Quit
  BY <1>6, DeleteSteps
<1>7. CASE OnSaveLoad
  BY <1>7, LoadKeeps
<1> QED  BY <1>1, <1>2, <1>3, <1>4, <1>5, <1>6, <1>7 DEF Next, PlayerStep

(* Types, for every number of everything.                                  *)
THEOREM AlwaysTypeOK == Spec => []TypeOK
<1>1. ActorInv => TypeOK
  BY DEF ActorInv
<1> QED  BY InitActorInv, NextActorInv, <1>1, PTL DEF Spec

(* An item actor that has not given its item belongs to the current event  *)
(* and is the only one, so an old actor's late death never puts back or    *)
(* gives the event of another; and a current event always has its actor,   *)
(* so the queue never waits for an event nobody is carrying                *)
(* (GameInteractor.cpp, the destroy callback).                             *)
THEOREM AlwaysLinked == Spec => []Linked
<1>1. ActorInv => Linked
  BY DEF ActorInv
<1> QED  BY InitActorInv, NextActorInv, <1>1, PTL DEF Spec

-----------------------------------------------------------------------------
(* How many elements of a sequence are in a set.                           *)

At(q, S) == {i \in DOMAIN q : q[i] \in S}
Tally(q, S) == Cardinality(At(q, S))

LEMMA TallyType ==
  ASSUME NEW X, NEW q \in Seq(X), NEW S
  PROVE  /\ At(q, S) \subseteq 1 .. Len(q) /\ IsFiniteSet(At(q, S))
         /\ Tally(q, S) \in Nat
         /\ Tally(q, S) = 0 <=> \A i \in 1 .. Len(q) : q[i] \notin S
<1>1. DOMAIN q = 1 .. Len(q) /\ Len(q) \in Nat
  BY LenProperties
<1>2. IsFiniteSet(1 .. Len(q))
  BY <1>1, FS_Interval
<1>3. At(q, S) \in SUBSET (1 .. Len(q))
  BY <1>1 DEF At
<1>4. IsFiniteSet(At(q, S))
  BY <1>2, <1>3, FS_Subset
<1>5. Tally(q, S) \in Nat
  BY <1>4, FS_CardinalityType DEF Tally
<1>6. Tally(q, S) = 0 <=> At(q, S) = {}
  BY <1>4, FS_EmptySet DEF Tally
<1> QED  BY <1>1, <1>3, <1>4, <1>5, <1>6 DEF At

LEMMA TallyEmpty == \A S : Tally(<<>>, S) = 0
<1> SUFFICES ASSUME NEW S PROVE Tally(<<>>, S) = 0
  OBVIOUS
<1>1. PICK q : q = <<>>
  OBVIOUS
<1>2. q \in Seq(Nat) /\ Len(q) = 0
  BY <1>1, EmptySeq
<1>3. Tally(q, S) = 0 <=> \A i \in 1 .. Len(q) : q[i] \notin S
  BY <1>2, TallyType
<1> QED  BY <1>1, <1>2, <1>3

LEMMA TallyAppend ==
  ASSUME NEW X, NEW q \in Seq(X), NEW e \in X, NEW S
  PROVE  Tally(Append(q, e), S) = Tally(q, S) + (IF e \in S THEN 1 ELSE 0)
<1> DEFINE r == Append(q, e)
<1>1. /\ DOMAIN q = 1 .. Len(q) /\ Len(q) \in Nat
      /\ r \in Seq(X) /\ Len(r) = Len(q) + 1
      /\ r[Len(q) + 1] = e /\ \A i \in 1 .. Len(q) : r[i] = q[i]
  BY LenProperties, AppendProperties
<1>2. DOMAIN r = 1 .. Len(q) + 1
  BY <1>1, LenProperties
<1> HIDE DEF r
<1>3. At(r, S) = IF e \in S THEN At(q, S) \cup {Len(q) + 1} ELSE At(q, S)
  BY <1>1, <1>2 DEF At
<1>4. IsFiniteSet(At(q, S)) /\ Len(q) + 1 \notin At(q, S) /\ Tally(q, S) \in Nat
  BY <1>1, TallyType
<1>5. CASE e \in S
  <2>1. Cardinality(At(q, S) \cup {Len(q) + 1}) = Cardinality(At(q, S)) + 1
    BY <1>4, FS_AddElement
  <2> QED  BY <1>3, <1>5, <2>1 DEF Tally, r
<1>6. CASE e \notin S
  BY <1>3, <1>4, <1>6 DEF Tally, r
<1> QED  BY <1>5, <1>6

LEMMA TallyTail ==
  ASSUME NEW X, NEW q \in Seq(X), q # <<>>, NEW S
  PROVE  Tally(q, S) = Tally(Tail(q), S) + (IF Head(q) \in S THEN 1 ELSE 0)
<1> DEFINE r == Tail(q)
<1>1. /\ DOMAIN q = 1 .. Len(q) /\ Len(q) \in Nat \ {0}
      /\ r \in Seq(X) /\ Len(r) = Len(q) - 1
      /\ \A i \in 1 .. Len(q) - 1 : r[i] = q[i + 1]
      /\ Head(q) = q[1]
  BY LenProperties, EmptySeq, HeadTailProperties
<1>2. DOMAIN r = 1 .. Len(q) - 1
  BY <1>1, LenProperties
<1> HIDE DEF r
<1>3. IsFiniteSet(At(q, S)) /\ IsFiniteSet(At(r, S)) /\ Tally(r, S) \in Nat
  BY <1>1, TallyType
<1> DEFINE f == [i \in At(r, S) |-> i + 1]
<1>4. f \in Bijection(At(r, S), At(q, S) \ {1})
  <2>1. \A i \in At(r, S) : i \in 1 .. Len(q) - 1 /\ i + 1 \in At(q, S) \ {1}
    BY <1>1, <1>2 DEF At
  <2>2. f \in [At(r, S) -> At(q, S) \ {1}]
    BY <2>1
  <2>3. \A i, j \in At(r, S) : f[i] = f[j] => i = j
    BY <2>1
  <2>4. ASSUME NEW k \in At(q, S) \ {1}
        PROVE  \E i \in At(r, S) : f[i] = k
    <3>1. k - 1 \in At(r, S)
      BY <1>1, <1>2 DEF At
    <3>2. (k - 1) + 1 = k
      BY <1>1 DEF At
    <3> QED  BY <3>1, <3>2
  <2> HIDE DEF f
  <2> QED  BY <2>2, <2>3, <2>4 DEF Bijection, Injection, Surjection, IsInjective
<1>5. Cardinality(At(q, S) \ {1}) = Tally(r, S)
  BY <1>3, <1>4, FS_Bijection DEF ExistsBijection, Tally
<1>6. 1 \in At(q, S) <=> Head(q) \in S
  BY <1>1 DEF At
<1>7. /\ Cardinality(At(q, S) \ {1}) =
           IF 1 \in At(q, S) THEN Cardinality(At(q, S)) - 1 ELSE Cardinality(At(q, S))
      /\ Cardinality(At(q, S)) \in Nat
  BY <1>3, FS_RemoveElement, FS_CardinalityType
<1> QED  BY <1>3, <1>5, <1>6, <1>7 DEF Tally, r

LEMMA TallySubset ==
  ASSUME NEW X, NEW q \in Seq(X), NEW S, NEW T, S \subseteq T
  PROVE  Tally(q, S) <= Tally(q, T)
<1>1. IsFiniteSet(At(q, T)) /\ At(q, S) \in SUBSET At(q, T)
  <2>1. IsFiniteSet(At(q, T))
    BY TallyType
  <2>2. At(q, S) \subseteq At(q, T)
    BY DEF At
  <2> QED  BY <2>1, <2>2
<1> QED  BY <1>1, FS_Subset DEF Tally

-----------------------------------------------------------------------------
(* How many of the events of a set are on their way to the player: in the  *)
(* queue or being handled.                                                 *)
OnTheWay(S) == Tally(events, S) + (IF current \in S THEN 1 ELSE 0)

LEMMA OnTheWayType ==
  ASSUME QueueOK, NEW S
  PROVE  OnTheWay(S) \in Nat
<1>1. Tally(events, S) \in Nat
  BY TallyType DEF QueueOK
<1> QED  BY <1>1 DEF OnTheWay

PendingOf(q, e) == q \o (IF e = None THEN <<>> ELSE <<e>>)

LEMMA TallyPending ==
  ASSUME NEW q \in Seq(Event), NEW e \in ItemEvent \cup {None}, NEW S \in SUBSET Event
  PROVE  /\ PendingOf(q, e) \in Seq(Event)
         /\ Tally(PendingOf(q, e), S) = Tally(q, S) + (IF e \in S THEN 1 ELSE 0)
<1> DEFINE p == PendingOf(q, e)
<1>0. None \notin S
  BY EventKinds
<1>1. CASE e = None
  <2>1. p = q
    BY <1>1, ConcatEmptySeq DEF PendingOf
  <2>2. Tally(q, S) \in Nat
    BY TallyType
  <2> QED  BY <1>0, <1>1, <2>1, <2>2
<1>2. CASE e # None
  <2>1. e \in Event
    BY <1>2, EventKinds
  <2>2. p = Append(q, e)
    BY <1>2, <2>1, AppendIsConcat DEF PendingOf
  <2> HIDE DEF p
  <2>3. p \in Seq(Event)
    BY <2>1, <2>2, AppendProperties
  <2>4. Tally(p, S) = Tally(q, S) + (IF e \in S THEN 1 ELSE 0)
    BY <2>1, <2>2, TallyAppend
  <2> QED  BY <2>3, <2>4 DEF p
<1> QED  BY <1>1, <1>2

LEMMA PendingTally ==
  ASSUME QueueOK, NEW S \in SUBSET Event
  PROVE  Pending \in Seq(Event) /\ Tally(Pending, S) = OnTheWay(S)
<1>1. Pending = PendingOf(events, current)
  BY DEF Pending, PendingOf
<1>2. /\ PendingOf(events, current) \in Seq(Event)
      /\ Tally(PendingOf(events, current), S)
           = Tally(events, S) + (IF current \in S THEN 1 ELSE 0)
  BY TallyPending DEF QueueOK
<1> QED  BY <1>1, <1>2 DEF OnTheWay

LEMMA QueuedAtEnd ==
  ASSUME QueueOK, NEW e, e \in Event, events' = Append(events, e), current' = current, NEW S
  PROVE  OnTheWay(S)' = OnTheWay(S) + (IF e \in S THEN 1 ELSE 0)
<1>1. /\ Tally(Append(events, e), S) = Tally(events, S) + (IF e \in S THEN 1 ELSE 0)
      /\ Tally(events, S) \in Nat
  BY TallyAppend, TallyType DEF QueueOK
<1> QED  BY <1>1 DEF OnTheWay

LEMMA TakenOff ==
  ASSUME QueueOK, events # <<>>, events' = Tail(events), current' = current, NEW S
  PROVE  OnTheWay(S) = OnTheWay(S)' + (IF Head(events) \in S THEN 1 ELSE 0)
<1>1. /\ Tally(events, S) = Tally(Tail(events), S) + (IF Head(events) \in S THEN 1 ELSE 0)
      /\ Tally(Tail(events), S) \in Nat
  <2>1. Tail(events) \in Seq(Event)
    BY HeadTail DEF QueueOK
  <2> QED  BY <2>1, TallyTail, TallyType DEF QueueOK
<1> QED  BY <1>1 DEF OnTheWay

LEMMA MovedBack ==
  ASSUME QueueOK, events # <<>>, events' = Tail(events) \o <<Head(events)>>,
         current' = current, NEW S
  PROVE  OnTheWay(S)' = OnTheWay(S)
<1>1. Head(events) \in Event /\ Tail(events) \in Seq(Event)
  BY HeadTail DEF QueueOK
<1>2. events' = Append(Tail(events), Head(events))
  BY <1>1, AppendIsConcat
<1>3. Tally(events', S) = Tally(Tail(events), S) + (IF Head(events) \in S THEN 1 ELSE 0)
  BY <1>1, <1>2, TallyAppend
<1>4. Tally(events, S) = Tally(Tail(events), S) + (IF Head(events) \in S THEN 1 ELSE 0)
  BY TallyTail DEF QueueOK
<1> QED  BY <1>3, <1>4 DEF OnTheWay

LEMMA Spawned ==
  ASSUME QueueOK, SpawnItem, NEW S \in SUBSET Event
  PROVE  OnTheWay(S)' = OnTheWay(S)
<1>0. None \notin S
  BY EventKinds
<1>1. /\ events # <<>> /\ events' = Tail(events) /\ current = None
      /\ current' = Head(events)
  BY DEF SpawnItem, MayProcess
<1>2. Tail(events) \in Seq(Event)
  BY <1>1, HeadTail DEF QueueOK
<1>3. /\ Tally(events, S) = Tally(Tail(events), S) + (IF Head(events) \in S THEN 1 ELSE 0)
      /\ Tally(Tail(events), S) \in Nat
  BY <1>1, <1>2, TallyTail, TallyType DEF QueueOK
<1> QED  BY <1>0, <1>1, <1>3 DEF OnTheWay

LEMMA PutBack ==
  ASSUME ActorInv, NEW T \in SUBSET Slots, Destroy(T), NEW S \in SUBSET Event
  PROVE  OnTheWay(S)' = OnTheWay(S)
<1>0. None \notin S
  BY EventKinds
<1>1. CASE \E s \in T : Uncalled(s)
  <2>1. current \in Event
    BY <1>1, EventKinds DEF ActorInv, TypeOK, Linked, ItemHasEvent, QueueOK
  <2>2. events' = Append(events, current) /\ current' = None
    BY <1>1 DEF Destroy
  <2>3. /\ Tally(events', S) = Tally(events, S) + (IF current \in S THEN 1 ELSE 0)
        /\ Tally(events, S) \in Nat
    BY <2>1, <2>2, TallyAppend, TallyType DEF ActorInv, TypeOK, QueueOK
  <2> QED  BY <1>0, <2>2, <2>3 DEF OnTheWay
<1>2. CASE ~\E s \in T : Uncalled(s)
  BY <1>2 DEF Destroy, OnTheWay
<1> QED  BY <1>1, <1>2

(* What the giving of an item does, all at once. *)
LEMMA Given ==
  ASSUME ActorInv, NEW s \in Slots, GiveOverhead(s) \/ GiveHeld(s)
  PROVE  /\ current \in ItemEvent /\ place = "play" /\ place' = place /\ file' = file
         /\ save' = [eligible |-> IF current.kind = "check"
                                  THEN save.eligible \ {current.what} ELSE save.eligible,
                     given |-> [save.given EXCEPT ![current.what] = @ + 1]]
         /\ queued' = (queued /\ current.kind # "check")
         /\ \A S \in SUBSET Event :
              OnTheWay(S)' = OnTheWay(S) - (IF current \in S THEN 1 ELSE 0)
                + (IF current.kind = "check" /\ current.what \in Traps
                        /\ TrapEvent(current.what) \in S THEN 1 ELSE 0)
<1>1. Uncalled(s) /\ CallAction(s) /\ place = "play" /\ UNCHANGED <<file, place>>
  BY DEF GiveOverhead, GiveHeld, Uncalled, ActorInv, TypeOK, ItemsOK
<1>2. current.kind \in ItemKinds /\ current \in ItemEvent /\ current.what = item[s].what
  BY <1>1, EventKinds DEF ActorInv, Linked, ItemHasEvent, TypeOK, QueueOK
<1>3. ASSUME NEW S \in SUBSET Event
      PROVE  OnTheWay(S)' = OnTheWay(S) - (IF current \in S THEN 1 ELSE 0)
                + (IF current.kind = "check" /\ current.what \in Traps
                        /\ TrapEvent(current.what) \in S THEN 1 ELSE 0)
  <2>0. None \notin S
    BY EventKinds
  <2>1. current' = None
    BY <1>1, <1>2 DEF CallAction, CurrentAfter
  <2>2. Tally(events, S) \in Nat
    BY TallyType DEF ActorInv, TypeOK, QueueOK
  <2>3. CASE current.kind = "check" /\ current.what \in Traps
    <3>1. events' = Append(events, TrapEvent(current.what))
      BY <1>1, <1>2, <2>3 DEF CallAction
    <3>2. TrapEvent(current.what) \in Event
      BY <2>3 DEF Event
    <3>3. Tally(events', S) = Tally(events, S) + (IF TrapEvent(current.what) \in S THEN 1 ELSE 0)
      BY <3>1, <3>2, TallyAppend DEF ActorInv, TypeOK, QueueOK
    <3> QED  BY <2>0, <2>1, <2>2, <2>3, <3>3 DEF OnTheWay
  <2>4. CASE ~(current.kind = "check" /\ current.what \in Traps)
    <3>1. events' = events
      BY <1>1, <1>2, <2>4 DEF CallAction
    <3> QED  BY <2>0, <2>1, <2>2, <2>4, <3>1 DEF OnTheWay
  <2> QED  BY <2>3, <2>4
<1> QED  BY <1>1, <1>2, <1>3 DEF CallAction, QueuedAfter

-----------------------------------------------------------------------------
(* One check at a time: the flag counts the checks on their way, and a     *)
(* check on its way is still eligible.                                     *)
CheckEvents == {e \in Event : e.kind = "check"}

OneQueued == place = "play" => OnTheWay(CheckEvents) = (IF queued THEN 1 ELSE 0)

Earned ==
  place = "play" =>
    \A e \in CheckEvents : OnTheWay({e}) > 0 => e.what \in save.eligible

RandoInv == ActorInv /\ OneQueued /\ Earned

LEMMA CheckEventSets ==
  /\ CheckEvents \in SUBSET Event
  /\ \A e \in CheckEvents : {e} \in SUBSET Event /\ {e} \subseteq CheckEvents
BY DEF CheckEvents

(* Steps that leave what is on its way alone and take nothing from the     *)
(* eligible checks. *)
LEMMA RandoKept ==
  ASSUME RandoInv, queued' = queued, place' = "play" => place = "play",
         save.eligible \subseteq save'.eligible,
         \A S \in SUBSET CheckEvents : OnTheWay(S)' = OnTheWay(S)
  PROVE  OneQueued' /\ Earned'
BY CheckEventSets DEF RandoInv, OneQueued, Earned

LEMMA RandoQueueSteps ==
  ASSUME RandoInv, (\E g \in Gifts : QueueGift(g)) \/ QueueMove \/ CheckQueue
  PROVE  OneQueued' /\ Earned'
<1>1. ASSUME NEW e \in Event, e \notin CheckEvents, events' = Append(events, e),
             UNCHANGED <<current, queued, place, save>>
      PROVE  OneQueued' /\ Earned'
  <2>1. ASSUME NEW S \in SUBSET CheckEvents PROVE OnTheWay(S)' = OnTheWay(S)
    <3>1. OnTheWay(S)' = OnTheWay(S) + (IF e \in S THEN 1 ELSE 0) /\ OnTheWay(S) \in Nat
      BY <1>1, QueuedAtEnd, OnTheWayType DEF RandoInv, ActorInv, TypeOK
    <3> QED  BY <1>1, <3>1
  <2> QED  BY <1>1, <2>1, RandoKept
<1>2. CASE \E g \in Gifts : QueueGift(g)
  <2>1. PICK g \in Gifts : QueueGift(g)
    BY <1>2
  <2>2. GiftEvent(g) \in Event /\ GiftEvent(g) \notin CheckEvents
    BY DEF Event, ItemEvent, CheckEvents, GiftEvent
  <2> QED  BY <1>1, <2>1, <2>2 DEF QueueGift
<1>3. CASE QueueMove
  <2>1. MoveEvent \in Event /\ MoveEvent \notin CheckEvents
    BY DEF Event, CheckEvents, MoveEvent
  <2> QED  BY <1>1, <1>3, <2>1 DEF QueueMove
<1>4. CASE CheckQueue
  <2>1. PICK c \in save.eligible : events' = Append(events, CheckEvent(c))
    BY <1>4 DEF CheckQueue
  <2>2. /\ CheckEvent(c) \in CheckEvents /\ CheckEvent(c) \in Event
        /\ CheckEvent(c).what = c /\ current' = current
    <3>1. c \in Checks
      BY DEF RandoInv, ActorInv, TypeOK, SaveType
    <3> QED  BY <1>4, <3>1 DEF CheckQueue, CheckEvents, CheckEvent, Event, ItemEvent
  <2>3. /\ place = "play" /\ ~queued /\ queued' = TRUE /\ save' = save
    BY <1>4 DEF CheckQueue
  <2>4. \A S : OnTheWay(S)' = OnTheWay(S) + (IF CheckEvent(c) \in S THEN 1 ELSE 0)
    BY <2>1, <2>2, QueuedAtEnd DEF RandoInv, ActorInv, TypeOK
  <2>5. OnTheWay(CheckEvents) = 0
    BY <2>3 DEF RandoInv, OneQueued
  <2>6. OneQueued'
    <3>1. OnTheWay(CheckEvents)' = 1
      BY <2>2, <2>4, <2>5
    <3> QED  BY <2>3, <3>1 DEF OneQueued
  <2>7. ASSUME NEW e \in CheckEvents, OnTheWay({e})' > 0
        PROVE  e.what \in save'.eligible
    <3>1. OnTheWay({e}) \in Nat
      BY OnTheWayType DEF RandoInv, ActorInv, TypeOK
    <3>2. OnTheWay({e})' = OnTheWay({e}) + (IF CheckEvent(c) \in {e} THEN 1 ELSE 0)
      BY <2>4
    <3>3. CASE OnTheWay({e}) > 0
      BY <2>3, <3>3 DEF RandoInv, Earned
    <3>4. CASE CheckEvent(c) = e
      BY <2>2, <2>3, <3>4
    <3> QED  BY <2>7, <3>1, <3>2, <3>3, <3>4
  <2> QED  BY <2>6, <2>7 DEF Earned
<1> QED  BY <1>2, <1>3, <1>4

LEMMA RandoProcessSteps ==
  ASSUME RandoInv, ProcessEvents
  PROVE  OneQueued' /\ Earned'
<1>1. CASE SpawnItem
  <2>1. \A S \in SUBSET CheckEvents : OnTheWay(S)' = OnTheWay(S)
    BY <1>1, Spawned, CheckEventSets DEF RandoInv, ActorInv, TypeOK
  <2> QED  BY <1>1, <2>1, RandoKept DEF SpawnItem
<1>2. CASE SpringTrap \/ StartTransition
  <2>1. /\ events # <<>> /\ current' = current /\ queued' = queued /\ place' = place
        /\ Head(events) \notin CheckEvents
        /\ \/ events' = Tail(events)
           \/ events' = Tail(events) \o <<Head(events)>>
    BY <1>2 DEF SpringTrap, StartTransition, MayProcess, CheckEvents
  <2>2. save.eligible \subseteq save'.eligible
    BY <1>2 DEF SpringTrap, StartTransition, RandoInv, ActorInv, TypeOK, SaveType
  <2>3. ASSUME NEW S \in SUBSET CheckEvents PROVE OnTheWay(S)' = OnTheWay(S)
    <3>1. CASE events' = Tail(events)
      <4>1. OnTheWay(S) = OnTheWay(S)' + (IF Head(events) \in S THEN 1 ELSE 0)
        BY <2>1, <3>1, TakenOff DEF RandoInv, ActorInv, TypeOK
      <4>2. OnTheWay(S)' \in Nat
        <5>1. Tail(events) \in Seq(Event)
          BY <2>1, HeadTail DEF RandoInv, ActorInv, TypeOK, QueueOK
        <5>2. Tally(Tail(events), S) \in Nat
          BY <5>1, TallyType
        <5> QED  BY <3>1, <5>2 DEF OnTheWay
      <4> QED  BY <2>1, <4>1, <4>2
    <3>2. CASE events' = Tail(events) \o <<Head(events)>>
      BY <2>1, <3>2, MovedBack DEF RandoInv, ActorInv, TypeOK
    <3> QED  BY <2>1, <3>1, <3>2
  <2> QED  BY <2>1, <2>2, <2>3, RandoKept
<1> QED  BY <1>1, <1>2 DEF ProcessEvents

LEMMA RandoGiveSteps ==
  ASSUME RandoInv, NEW s \in Slots, GiveOverhead(s) \/ GiveHeld(s)
  PROVE  OneQueued' /\ Earned'
<1>1. ActorInv /\ QueueOK /\ QueueOK'
  BY GiveSteps DEF RandoInv, ActorInv, TypeOK
<1>2. /\ current \in ItemEvent /\ place = "play" /\ place' = "play"
      /\ save'.eligible = IF current.kind = "check"
                          THEN save.eligible \ {current.what} ELSE save.eligible
      /\ queued' = (queued /\ current.kind # "check")
  BY <1>1, Given
<1>3. ASSUME NEW S \in SUBSET CheckEvents
      PROVE  /\ OnTheWay(S)' = OnTheWay(S) - (IF current \in S THEN 1 ELSE 0)
             /\ OnTheWay(S) \in Nat /\ OnTheWay(S)' \in Nat
  <2>1. \A c : TrapEvent(c) \notin S
    BY DEF TrapEvent, CheckEvents
  <2>2. OnTheWay(S) \in Nat
    BY <1>1, OnTheWayType
  <2>3. OnTheWay(S)' = OnTheWay(S) - (IF current \in S THEN 1 ELSE 0)
          + (IF current.kind = "check" /\ current.what \in Traps
                  /\ TrapEvent(current.what) \in S THEN 1 ELSE 0)
    BY <1>1, Given, CheckEventSets
  <2>4. OnTheWay(S)' \in Nat
    <3>1. Tally(events, S)' \in Nat
      BY <1>1, TallyType DEF QueueOK
    <3> QED  BY <3>1 DEF OnTheWay
  <2> QED  BY <2>1, <2>2, <2>3, <2>4
<1>4. current.kind = "check" <=> current \in CheckEvents
  BY <1>2, EventKinds DEF CheckEvents
<1>5. OneQueued'
  <2>1. /\ OnTheWay(CheckEvents) \in Nat
        /\ OnTheWay(CheckEvents)' \in Nat
        /\ OnTheWay(CheckEvents)' =
             OnTheWay(CheckEvents) - (IF current \in CheckEvents THEN 1 ELSE 0)
    BY <1>3
  <2>2. OnTheWay(CheckEvents) = (IF queued THEN 1 ELSE 0)
    BY <1>2 DEF RandoInv, OneQueued
  <2>3. CASE current \in CheckEvents
    <3>1. OnTheWay(CheckEvents) \in {0, 1}
      BY <2>2
    <3>2. OnTheWay(CheckEvents)' = 0
      BY <2>1, <2>3, <3>1
    <3>3. ~queued'
      BY <1>2, <1>4, <2>3
    <3> QED  BY <3>2, <3>3 DEF OneQueued
  <2>4. CASE current \notin CheckEvents
    <3>1. OnTheWay(CheckEvents)' = OnTheWay(CheckEvents)
      BY <2>1, <2>4
    <3>2. queued' <=> queued
      BY <1>2, <1>4, <2>4
    <3> QED  BY <2>2, <3>1, <3>2 DEF OneQueued
  <2> QED  BY <2>3, <2>4
<1>6. CASE current.kind # "check"
  BY <1>2, <1>3, <1>4, <1>5, <1>6, CheckEventSets DEF RandoInv, Earned
<1>7. CASE current.kind = "check"
  <2>1. OnTheWay(CheckEvents)' = 0
    BY <1>2, <1>5, <1>7 DEF OneQueued
  <2>2. ASSUME NEW e \in CheckEvents PROVE ~(OnTheWay({e})' > 0)
    <3>1. Tally(events, {e})' <= Tally(events, CheckEvents)'
      BY <1>1, TallySubset DEF QueueOK
    <3>2. Tally(events, {e})' \in Nat /\ Tally(events, CheckEvents)' \in Nat
      BY <1>1, TallyType DEF QueueOK
    <3>3. current' \in {e} => current' \in CheckEvents
      OBVIOUS
    <3> QED  BY <2>1, <3>1, <3>2, <3>3 DEF OnTheWay
  <2> QED  BY <1>5, <2>2 DEF Earned
<1> QED  BY <1>6, <1>7

LEMMA NextRandoInv == RandoInv /\ [Next]_vars => RandoInv'
<1> SUFFICES ASSUME RandoInv, [Next]_vars PROVE OneQueued' /\ Earned'
  BY NextActorInv DEF RandoInv
<1>1. ASSUME UNCHANGED <<events, current>>
      PROVE  \A S \in SUBSET CheckEvents : OnTheWay(S)' = OnTheWay(S)
  BY <1>1 DEF OnTheWay
<1>2. CASE \E c \in Checks : Mark(c)
  BY <1>1, <1>2, RandoKept DEF Mark, queueVars, RandoInv, ActorInv, TypeOK, SaveType
<1>3. CASE AfterEndOfCycleSave
  BY <1>1, <1>3, RandoKept DEF AfterEndOfCycleSave, queueVars, RandoInv, ActorInv, TypeOK, SaveType
<1>4. CASE Occupy \/ Settle \/ EndGetItem \/ SaveGame \/ UNCHANGED vars
  BY <1>1, <1>4, RandoKept DEF Occupy, Settle, EndGetItem, SaveGame, vars, queueVars
<1>5. CASE (\E g \in Gifts : QueueGift(g)) \/ QueueMove \/ CheckQueue
  BY <1>5, RandoQueueSteps
<1>6. CASE ProcessEvents
  BY <1>6, RandoProcessSteps
<1>7. ASSUME NEW s \in Slots, ItemUpdate(s) \/ TakeOffer(s)
      PROVE  OneQueued' /\ Earned'
  <2>1. CASE GiveOverhead(s) \/ GiveHeld(s)
    BY <2>1, RandoGiveSteps
  <2>2. CASE EndOverhead(s) \/ DropHeld(s) \/ TakeOffer(s)
    BY <1>1, <2>2, RandoKept DEF EndOverhead, DropHeld, TakeOffer, queueVars
  <2> QED  BY <1>7, <2>1, <2>2 DEF ItemUpdate
<1>8. CASE (\E s \in Slots : DeleteItem(s)) \/ EndTransition \/ LeaveScene \/ Quit
  <2>1. PICK T \in SUBSET Slots : Destroy(T)
    BY <1>8 DEF DeleteItem, EndTransition, LeaveScene, Quit, NewScene
  <2>2. \A S \in SUBSET CheckEvents : OnTheWay(S)' = OnTheWay(S)
    BY <2>1, PutBack, CheckEventSets DEF RandoInv
  <2>3. queued' = queued /\ save' = save /\ place = "play"
    BY <1>8 DEF DeleteItem, EndTransition, LeaveScene, Quit, NewScene
  <2> QED  BY <2>2, <2>3, RandoKept
<1>9. CASE OnSaveLoad
  <2>1. queued' = FALSE /\ current' = None /\ events' = <<>>
    BY <1>9 DEF OnSaveLoad, CheckQueueReset
  <2>2. \A S \in SUBSET Event : OnTheWay(S)' = 0
    BY <2>1, TallyEmpty, EventKinds DEF OnTheWay
  <2> QED  BY <2>1, <2>2, CheckEventSets DEF OneQueued, Earned
<1> QED  BY <1>2, <1>3, <1>4, <1>5, <1>6, <1>7, <1>8, <1>9 DEF Next, PlayerStep

LEMMA InitRandoInv == Init => RandoInv
<1> SUFFICES ASSUME Init PROVE OneQueued /\ Earned
  BY InitActorInv DEF RandoInv
<1>1. queued = FALSE /\ current = None /\ events = <<>>
  BY DEF Init
<1>2. \A S \in SUBSET Event : OnTheWay(S) = 0
  BY <1>1, TallyEmpty, EventKinds DEF OnTheWay
<1> QED  BY <1>1, <1>2, CheckEventSets DEF OneQueued, Earned

(* RandoInv holds: events, actors and the check queue's flag agree on the  *)
(* one item of the randomizer that is on its way (CheckQueue.cpp).         *)
THEOREM RandoInvariant == Spec => []RandoInv
BY InitRandoInv, NextRandoInv, PTL DEF Spec

(* The flag that lets one check at a time into the queue says whether one  *)
(* is on its way, through every interruption, scene change and load        *)
(* (CheckQueue.cpp:25).                                                    *)
THEOREM AlwaysOneRandoItem == Spec => []OneRandoItem
<1>1. ASSUME RandoInv PROVE OneRandoItem
  <2>1. Pending \in Seq(Event) /\ Tally(Pending, CheckEvents) = OnTheWay(CheckEvents)
    BY <1>1, PendingTally, CheckEventSets DEF RandoInv, ActorInv, TypeOK
  <2>2. \A i \in DOMAIN Pending : Pending[i] \in Event
    BY <2>1
  <2>3. {i \in DOMAIN Pending : Pending[i].kind = "check"} = At(Pending, CheckEvents)
    BY <2>2 DEF At, CheckEvents
  <2> QED  BY <1>1, <2>1, <2>3 DEF RandoInv, OneQueued, OneRandoItem, Tally
<1> QED  BY <1>1, RandoInvariant, PTL

-----------------------------------------------------------------------------
(* The ledger.  What is owed of a gift or a trap is what is on its way.    *)

Of(x) == {e \in Event : e.kind \in {"gift", "trap"} /\ e.what = x}

LEMMA LedgerThings == Ledger!Things = Things /\ \A c : Ledger!TrapOf(c) = TrapOf(c)
BY DEF Ledger!Things, Ledger!TrapOf, Things, TrapOf

LEMMA TrapsApart ==
  /\ \A c, d \in Traps : TrapOf(c) = TrapOf(d) => c = d
  /\ \A c \in Traps : TrapOf(c) # <<"entrance">>
  /\ \A c \in Traps : TrapOf(c) \in Things \ (Checks \cup Gifts)
  /\ \A x \in Things \ (Checks \cup Gifts) : \E c \in Traps : x = TrapOf(c)
<1>1. \A c, d \in Traps : TrapOf(c) = TrapOf(d) => c = d
  BY DEF TrapOf
<1>2. \A c \in Traps : TrapOf(c) # <<"entrance">>
  <2>1. Len(<<"entrance">>) = 1
    OBVIOUS
  <2>2. \A c \in Traps : Len(TrapOf(c)) = 2
    BY DEF TrapOf
  <2> QED  BY <2>1, <2>2
<1>3. \A c \in Traps : TrapOf(c) \in Things \ (Checks \cup Gifts)
  BY NamesAssumption DEF Things
<1>4. \A x \in Things \ (Checks \cup Gifts) : \E c \in Traps : x = TrapOf(c)
  BY DEF Things
<1> QED  BY <1>1, <1>2, <1>3, <1>4

LEMMA OfFacts ==
  /\ \A x : Of(x) \in SUBSET Event
  /\ \A x : \A e \in Of(x) : e.kind \in {"gift", "trap"} /\ e.what = x
  /\ \A g \in Gifts : GiftEvent(g) \in Event /\ Of(g) = {GiftEvent(g)}
  /\ \A c \in Traps : TrapEvent(c) \in Event /\ TrapEvent(c) \in Of(TrapOf(c))
  /\ \A c \in Traps : \A e \in Event : e.what = TrapOf(c) => e \in Of(TrapOf(c))
<1>1. \A e \in Event : \/ e \in ItemEvent /\ e.what \in Checks \cup Gifts
                       \/ \E c \in Traps : e = TrapEvent(c)
                       \/ e = MoveEvent
  BY EventKinds DEF Event
<1>2. \A e \in ItemEvent : \/ e.kind = "check" /\ e.what \in Checks
                           \/ \E g \in Gifts : e = GiftEvent(g)
  BY DEF ItemEvent, CheckEvent
<1>3. /\ \A c : TrapEvent(c).kind = "trap" /\ TrapEvent(c).what = TrapOf(c)
      /\ \A g : GiftEvent(g).kind = "gift" /\ GiftEvent(g).what = g
      /\ MoveEvent.kind = "move" /\ MoveEvent.what = <<"entrance">>
  BY DEF TrapEvent, GiftEvent, MoveEvent
<1>4. \A c \in Traps : TrapEvent(c) \in Event
  BY DEF Event
<1>5. \A g \in Gifts : GiftEvent(g) \in Event
  BY DEF Event, ItemEvent
<1>6. ASSUME NEW g \in Gifts, NEW e \in Of(g) PROVE e = GiftEvent(g)
  <2>1. e \in Event /\ e.kind \in {"gift", "trap"} /\ e.what = g
    BY DEF Of
  <2>2. CASE e \in ItemEvent
    BY <1>2, <1>3, <2>1, <2>2
  <2>3. CASE \E c \in Traps : e = TrapEvent(c)
    BY <1>3, <2>1, <2>3, TrapsApart
  <2>4. CASE e = MoveEvent
    BY <1>3, <2>1, <2>4
  <2> QED  BY <1>1, <2>1, <2>2, <2>3, <2>4
<1>7. ASSUME NEW c \in Traps, NEW e \in Event, e.what = TrapOf(c)
      PROVE  e \in Of(TrapOf(c))
  <2>1. ~(e.what \in Checks \cup Gifts) /\ e # MoveEvent
    BY <1>3, <1>7, TrapsApart
  <2>2. e.kind = "trap"
    BY <1>1, <1>3, <2>1
  <2> QED  BY <1>7, <2>2 DEF Of
<1>8. \A g \in Gifts : GiftEvent(g) \in Of(g)
  BY <1>3, <1>5 DEF Of
<1>9. \A g \in Gifts : Of(g) = {GiftEvent(g)}
  BY <1>6, <1>8
<1>10. \A c \in Traps : TrapEvent(c) \in Of(TrapOf(c))
  BY <1>3, <1>4, <1>7
<1>11. /\ \A x : Of(x) \in SUBSET Event
       /\ \A x : \A e \in Of(x) : e.kind \in {"gift", "trap"} /\ e.what = x
  BY DEF Of
<1> QED  BY <1>4, <1>5, <1>7, <1>9, <1>10, <1>11

LEMMA GiftCopies ==
  ASSUME NEW q \in Seq(Event), NEW e \in ItemEvent \cup {None}, NEW g \in Gifts
  PROVE  Cardinality({i \in DOMAIN PendingOf(q, e) : PendingOf(q, e)[i] = GiftEvent(g)})
           = Tally(q, Of(g)) + (IF e \in Of(g) THEN 1 ELSE 0)
<1> DEFINE p == PendingOf(q, e)
<1>0. Of(g) \in SUBSET Event
  BY OfFacts
<1>1. Tally(p, Of(g)) = Tally(q, Of(g)) + (IF e \in Of(g) THEN 1 ELSE 0)
  BY <1>0, TallyPending
<1> HIDE DEF p
<1>2. {i \in DOMAIN p : p[i] = GiftEvent(g)} = At(p, Of(g))
  BY OfFacts DEF At
<1> QED  BY <1>1, <1>2 DEF Tally, p

LEMMA TrapCopies ==
  ASSUME NEW q \in Seq(Event), NEW e \in ItemEvent \cup {None},
         NEW x \in Things \ (Checks \cup Gifts)
  PROVE  Cardinality({i \in DOMAIN q : q[i].what = x})
           = Tally(q, Of(x)) + (IF e \in Of(x) THEN 1 ELSE 0)
<1>1. PICK c \in Traps : x = TrapOf(c)
  BY TrapsApart
<1>2. \A i \in DOMAIN q : q[i] \in Event
  OBVIOUS
<1>3. {i \in DOMAIN q : q[i].what = x} = At(q, Of(x))
  <2>1. ASSUME NEW i \in DOMAIN q PROVE q[i].what = x <=> q[i] \in Of(x)
    BY <1>1, <1>2, OfFacts
  <2> QED  BY <2>1 DEF At
<1>4. e \notin Of(x)
  <2>1. e = None \/ e.what \in Checks \cup Gifts
    BY EventKinds
  <2> QED  BY <2>1, EventKinds, OfFacts
<1>5. Tally(q, Of(x)) \in Nat
  BY TallyType
<1>6. Cardinality({i \in DOMAIN q : q[i].what = x}) = Tally(q, Of(x))
  BY <1>3 DEF Tally
<1> QED  BY <1>4, <1>5, <1>6

LEMMA OwedIs ==
  ASSUME QueueOK
  PROVE  Owed = [x \in Things |->
                   IF x \in Checks THEN (IF x \in save.eligible THEN 1 ELSE 0)
                   ELSE OnTheWay(Of(x))]
<1>1. ASSUME NEW g \in Gifts PROVE Copies(GiftEvent(g)) = OnTheWay(Of(g))
  <2>1. Pending = PendingOf(events, current)
    BY DEF Pending, PendingOf
  <2> QED  BY <2>1, GiftCopies DEF Copies, OnTheWay, QueueOK
<1>2. ASSUME NEW x \in Things \ (Checks \cup Gifts)
      PROVE  Cardinality({i \in DOMAIN events : events[i].what = x}) = OnTheWay(Of(x))
  BY TrapCopies DEF OnTheWay, QueueOK
<1> QED  BY <1>1, <1>2 DEF Owed

LEMMA OwedIsNext ==
  ASSUME QueueOK'
  PROVE  Owed' = [x \in Things |->
                    IF x \in Checks THEN (IF x \in save'.eligible THEN 1 ELSE 0)
                    ELSE OnTheWay(Of(x))']
<1>1. ASSUME NEW g \in Gifts PROVE Copies(GiftEvent(g))' = OnTheWay(Of(g))'
  <2>1. Pending' = PendingOf(events', current')
    BY DEF Pending, PendingOf
  <2> QED  BY <2>1, GiftCopies DEF Copies, OnTheWay, QueueOK
<1>2. ASSUME NEW x \in Things \ (Checks \cup Gifts)
      PROVE  Cardinality({i \in DOMAIN events' : events'[i].what = x}) = OnTheWay(Of(x))'
  BY TrapCopies DEF OnTheWay, QueueOK
<1> QED  BY <1>1, <1>2 DEF Owed

LEMMA OwedKept ==
  ASSUME QueueOK, QueueOK', save'.eligible = save.eligible,
         \A x \in Things \ Checks : OnTheWay(Of(x))' = OnTheWay(Of(x))
  PROVE  Owed' = Owed
BY OwedIs, OwedIsNext

(* Steps that leave what is owed, given and filed alone. *)
Same == Ledger!ledger' = Ledger!ledger

LEMMA LedgerKept ==
  ASSUME QueueOK, QueueOK', save' = save, file' = file,
         \A x \in Things \ Checks : OnTheWay(Of(x))' = OnTheWay(Of(x))
  PROVE  Same
<1>1. Owed' = Owed
  BY OwedKept
<1> QED  BY <1>1 DEF Same, Ledger!ledger, AsOwed

LEMMA LedgerEarns ==
  ASSUME QueueOK, QueueOK', NEW S \in SUBSET Checks,
         save' = [save EXCEPT !.eligible = @ \cup S], save \in SaveType,
         UNCHANGED <<file, events, current>>
  PROVE  Ledger!Earn(S)
<1>1. save'.eligible = save.eligible \cup S /\ save'.given = save.given
  BY DEF SaveType
<1>2. \A x : OnTheWay(Of(x))' = OnTheWay(Of(x))
  BY DEF OnTheWay
<1>3. \A x \in Things : Owed'[x] = IF x \in S THEN 1 ELSE Owed[x]
  BY <1>1, <1>2, OwedIs, OwedIsNext
<1>4. Owed' = [x \in Things |-> IF x \in S THEN 1 ELSE Owed[x]]
  BY <1>3, OwedIsNext
<1> QED  BY <1>1, <1>4, LedgerThings DEF Ledger!Earn, AsOwed

(* An event at the end of the queue. *)
LEMMA LedgerQueues ==
  ASSUME QueueOK, QueueOK', NEW e \in Event, events' = Append(events, e),
         UNCHANGED <<save, file, current>>
  PROVE  /\ \A x : e \notin Of(x) => OnTheWay(Of(x))' = OnTheWay(Of(x))
         /\ \A x : e \in Of(x) => OnTheWay(Of(x))' = OnTheWay(Of(x)) + 1
<1>1. \A x : OnTheWay(Of(x))' = OnTheWay(Of(x)) + (IF e \in Of(x) THEN 1 ELSE 0)
  BY QueuedAtEnd
<1>2. \A x : OnTheWay(Of(x)) \in Nat
  BY OnTheWayType
<1> QED  BY <1>1, <1>2

LEMMA GiftApart ==
  \A g \in Gifts : /\ g \in Things \ Checks
                   /\ \A x : GiftEvent(g) \in Of(x) <=> x = g
<1> SUFFICES ASSUME NEW g \in Gifts
             PROVE  g \in Things \ Checks /\ \A x : GiftEvent(g) \in Of(x) <=> x = g
  OBVIOUS
<1>1. GiftEvent(g).what = g
  BY DEF GiftEvent
<1> QED  BY <1>1, OfFacts, NamesAssumption DEF Things

LEMMA TrapApart ==
  \A c \in Traps : /\ TrapOf(c) \in Things \ (Checks \cup Gifts)
                   /\ \A x : TrapEvent(c) \in Of(x) <=> x = TrapOf(c)
<1> SUFFICES ASSUME NEW c \in Traps
             PROVE  /\ TrapOf(c) \in Things \ (Checks \cup Gifts)
                    /\ \A x : TrapEvent(c) \in Of(x) <=> x = TrapOf(c)
  OBVIOUS
<1>1. TrapEvent(c).what = TrapOf(c)
  BY DEF TrapEvent
<1> QED  BY <1>1, OfFacts, TrapsApart

LEMMA LedgerAsks ==
  ASSUME QueueOK, QueueOK', NEW g \in Gifts, QueueGift(g)
  PROVE  Ledger!Ask(g)
<1>1. \A x : OnTheWay(Of(x))' = OnTheWay(Of(x)) + (IF x = g THEN 1 ELSE 0)
  <2>1. GiftEvent(g) \in Event
    BY OfFacts
  <2>2. \A x : OnTheWay(Of(x)) \in Nat
    BY OnTheWayType
  <2> QED  BY <2>1, <2>2, LedgerQueues, GiftApart DEF QueueGift
<1>2. save' = save /\ file' = file
  BY DEF QueueGift
<1>3. \A x \in Things : Owed'[x] = IF x = g THEN Owed[x] + 1 ELSE Owed[x]
  <2>1. ASSUME NEW x \in Things PROVE Owed'[x] = IF x = g THEN Owed[x] + 1 ELSE Owed[x]
    <3>1. OnTheWay(Of(x)) \in Nat
      BY OnTheWayType
    <3>2. CASE x = g
      BY <1>1, <3>1, <3>2, GiftApart, OwedIs, OwedIsNext
    <3>3. CASE x # g
      BY <1>1, <1>2, <3>1, <3>3, OwedIs, OwedIsNext
    <3> QED  BY <3>2, <3>3
  <2> QED  BY <2>1
<1>4. Owed' = [Owed EXCEPT ![g] = @ + 1]
  BY <1>3, OwedIs, OwedIsNext
<1> QED  BY <1>2, <1>4 DEF Ledger!Ask, AsOwed

LEMMA LedgerQueueSteps ==
  ASSUME RandoInv, RandoInv', (\E g \in Gifts : QueueGift(g)) \/ QueueMove \/ CheckQueue
  PROVE  Ledger!Next \/ Same
<1>1. QueueOK /\ QueueOK'
  BY DEF RandoInv, ActorInv, TypeOK
<1>2. ASSUME NEW e \in Event, e.kind \in {"check", "move"}, events' = Append(events, e),
             UNCHANGED <<save, file, current>>
      PROVE  Same
  <2>1. \A x : e \notin Of(x)
    BY <1>2 DEF Of
  <2>2. \A x : OnTheWay(Of(x))' = OnTheWay(Of(x))
    BY <1>1, <1>2, <2>1, LedgerQueues
  <2> QED  BY <1>1, <1>2, <2>2, LedgerKept
<1>3. CASE \E g \in Gifts : QueueGift(g)
  BY <1>1, <1>3, LedgerAsks DEF Ledger!Next
<1>4. CASE QueueMove
  <2>1. MoveEvent \in Event /\ MoveEvent.kind = "move"
    BY DEF Event, MoveEvent
  <2> QED  BY <1>2, <1>4, <2>1 DEF QueueMove
<1>5. CASE CheckQueue
  <2>1. PICK c \in save.eligible : events' = Append(events, CheckEvent(c))
    BY <1>5 DEF CheckQueue
  <2>2. c \in Checks
    BY DEF RandoInv, ActorInv, TypeOK, SaveType
  <2>3. CheckEvent(c) \in Event /\ CheckEvent(c).kind = "check"
    BY <2>2 DEF Event, ItemEvent, CheckEvent
  <2> QED  BY <1>2, <1>5, <2>1, <2>3 DEF CheckQueue
<1> QED  BY <1>3, <1>4, <1>5

(* A trap that is sprung is given; one put back while the player rides is  *)
(* still owed.                                                             *)
LEMMA LedgerSprings ==
  ASSUME RandoInv, RandoInv', SpringTrap, player # "riding"
  PROVE  \E x \in Things : Ledger!Give(x)
<1>1. /\ QueueOK /\ QueueOK' /\ save \in SaveType
      /\ events # <<>> /\ events' = Tail(events) /\ UNCHANGED <<current, file>>
      /\ save' = [save EXCEPT !.given[Head(events).what] = @ + 1]
  BY DEF RandoInv, ActorInv, TypeOK, SpringTrap, MayProcess
<1>2. PICK c \in Traps : Head(events) = TrapEvent(c)
  <2>1. Head(events) \in Event /\ Head(events).kind = "trap"
    BY <1>1, HeadTail DEF QueueOK, SpringTrap
  <2> QED  BY <2>1, EventKinds DEF Event, ItemEvent, CheckEvent, GiftEvent, MoveEvent
<1> DEFINE x == TrapOf(c)
<1>3. Head(events).what = x /\ x \in Things \ (Checks \cup Gifts)
  BY <1>2, TrapApart DEF TrapEvent
<1>4. x \notin Traps
  BY <1>3, TrapsAssumption
<1>5. \A y : /\ TrapEvent(c) \in Of(y) <=> y = x
             /\ OnTheWay(Of(y))' \in Nat
             /\ OnTheWay(Of(y)) = OnTheWay(Of(y))' + (IF y = x THEN 1 ELSE 0)
  <2>1. \A y : TrapEvent(c) \in Of(y) <=> y = x
    BY TrapApart
  <2>2. \A y : OnTheWay(Of(y)) = OnTheWay(Of(y))' + (IF Head(events) \in Of(y) THEN 1 ELSE 0)
    BY <1>1, TakenOff
  <2>3. \A y : OnTheWay(Of(y))' \in Nat
    <3>1. \A y : Tally(events, Of(y))' \in Nat
      BY <1>1, TallyType DEF QueueOK
    <3> QED  BY <3>1 DEF OnTheWay
  <2> QED  BY <1>2, <2>1, <2>2, <2>3
<1>6. save'.eligible = save.eligible /\ save'.given = [save.given EXCEPT ![x] = @ + 1]
  BY <1>1, <1>3 DEF SaveType
<1> HIDE DEF x
<1>7. ASSUME NEW y \in Things
      PROVE  Owed'[y] = Owed[y] - (IF y = x THEN 1 ELSE 0)
  <2>1. CASE y \in Checks
    BY <1>1, <1>3, <1>6, <2>1, OwedIs, OwedIsNext
  <2>2. CASE y \notin Checks
    <3>1. Owed[y] = OnTheWay(Of(y)) /\ Owed'[y] = OnTheWay(Of(y))'
      BY <1>1, <2>2, OwedIs, OwedIsNext
    <3> QED  BY <1>5, <3>1
  <2> QED  BY <2>1, <2>2
<1>8. Owed[x] > 0 /\ x \in Things
  <2>1. Owed[x] = OnTheWay(Of(x))
    BY <1>1, <1>3, OwedIs
  <2> QED  BY <1>3, <1>5, <2>1
<1>9. \A y \in Things : Owed[y] \in Nat
  BY <1>1, OnTheWayType, OwedIs
<1>10. Owed' = [y \in Things |->
                  Owed[y] - (IF y = x THEN 1 ELSE 0)
                          + (IF x \in Traps /\ y = TrapOf(x) THEN 1 ELSE 0)]
  <2>1. \A y \in Things :
          Owed'[y] = Owed[y] - (IF y = x THEN 1 ELSE 0)
                       + (IF x \in Traps /\ y = TrapOf(x) THEN 1 ELSE 0)
    BY <1>4, <1>7, <1>9
  <2> QED  BY <1>1, <2>1, OwedIsNext
<1> QED  BY <1>1, <1>6, <1>8, <1>10, LedgerThings DEF Ledger!Give, AsOwed

LEMMA LedgerProcessSteps ==
  ASSUME RandoInv, RandoInv', ProcessEvents
  PROVE  Ledger!Next \/ Same
<1>1. QueueOK /\ QueueOK'
  BY DEF RandoInv, ActorInv, TypeOK
<1>2. CASE SpawnItem
  <2>1. \A x : OnTheWay(Of(x))' = OnTheWay(Of(x))
    BY <1>1, <1>2, Spawned, OfFacts
  <2> QED  BY <1>1, <1>2, <2>1, LedgerKept DEF SpawnItem
<1>3. CASE SpringTrap /\ player = "riding"
  <2>1. \A x : OnTheWay(Of(x))' = OnTheWay(Of(x))
    BY <1>1, <1>3, MovedBack DEF SpringTrap, MayProcess
  <2> QED  BY <1>1, <1>3, <2>1, LedgerKept DEF SpringTrap
<1>4. CASE SpringTrap /\ player # "riding"
  BY <1>4, LedgerSprings, LedgerThings DEF Ledger!Next
<1>5. CASE StartTransition
  <2>1. /\ events # <<>> /\ events' = Tail(events) /\ Head(events).kind = "move"
        /\ UNCHANGED <<save, file, current>>
    BY <1>5 DEF StartTransition, MayProcess
  <2>2. \A x : Head(events) \notin Of(x)
    BY <2>1 DEF Of
  <2>3. \A x : Tally(events, Of(x))' \in Nat
    BY <1>1, TallyType DEF QueueOK
  <2>4. \A x : OnTheWay(Of(x)) = OnTheWay(Of(x))'
    <3>1. \A x : OnTheWay(Of(x))
                   = OnTheWay(Of(x))' + (IF Head(events) \in Of(x) THEN 1 ELSE 0)
      BY <1>1, <2>1, TakenOff
    <3>2. \A x : OnTheWay(Of(x))' \in Nat
      BY <2>3 DEF OnTheWay
    <3> QED  BY <2>2, <3>1, <3>2
  <2> QED  BY <1>1, <2>1, <2>4, LedgerKept
<1> QED  BY <1>2, <1>3, <1>4, <1>5 DEF ProcessEvents

(* A check that is given is no longer eligible, and its trap, if it is     *)
(* one, is on its way from then on; a gift is off the queue.               *)
LEMMA LedgerGives ==
  ASSUME RandoInv, RandoInv', NEW s \in Slots, GiveOverhead(s) \/ GiveHeld(s)
  PROVE  \E x \in Things : Ledger!Give(x)
<1> DEFINE x == current.what
<1>1. /\ ActorInv /\ QueueOK /\ QueueOK' /\ save \in SaveType
      /\ current \in ItemEvent /\ place = "play" /\ file' = file
      /\ save' = [eligible |-> IF current.kind = "check"
                               THEN save.eligible \ {x} ELSE save.eligible,
                  given |-> [save.given EXCEPT ![x] = @ + 1]]
  BY Given DEF RandoInv, ActorInv, TypeOK
<1>2. /\ save'.eligible = IF current.kind = "check"
                          THEN save.eligible \ {x} ELSE save.eligible
      /\ save'.given = [save.given EXCEPT ![x] = @ + 1]
  BY <1>1
<1>3. \A y : /\ OnTheWay(Of(y)) \in Nat
             /\ OnTheWay(Of(y))' = OnTheWay(Of(y)) - (IF current \in Of(y) THEN 1 ELSE 0)
                  + (IF current.kind = "check" /\ x \in Traps
                          /\ TrapEvent(x) \in Of(y) THEN 1 ELSE 0)
  BY <1>1, Given, OnTheWayType, OfFacts
<1>4. Tally(events, Of(x)) \in Nat
  BY <1>1, TallyType DEF QueueOK
<1> DEFINE Due(y) == Owed[y] - (IF y = x THEN 1 ELSE 0)
                             + (IF x \in Traps /\ y = TrapOf(x) THEN 1 ELSE 0)
<1>5. CASE current.kind = "check"
  <2>1. x \in Checks /\ current = CheckEvent(x)
    BY <1>1, <1>5 DEF ItemEvent, CheckEvent, GiftEvent
  <2>2. x \in save.eligible
    <3>1. current \in CheckEvents
      BY <1>1, <1>5 DEF CheckEvents, Event
    <3>2. Tally(events, {current}) \in Nat
      BY <1>1, TallyType DEF QueueOK
    <3>3. OnTheWay({current}) > 0
      BY <3>2 DEF OnTheWay
    <3> QED  BY <1>1, <3>1, <3>3 DEF RandoInv, Earned
  <2>3. \A y : current \notin Of(y)
    BY <1>5 DEF Of
  <2>4. \A y \in Checks : ~(x \in Traps /\ y = TrapOf(x))
    BY TrapApart
  <2>5. ASSUME NEW y \in Things PROVE Owed'[y] = Due(y)
    <3>1. CASE y \in Checks
      <4>1. Owed[y] = (IF y \in save.eligible THEN 1 ELSE 0)
        BY <1>1, <3>1, OwedIs
      <4>2. Owed'[y] = (IF y \in save'.eligible THEN 1 ELSE 0)
        BY <1>1, <3>1, OwedIsNext
      <4> QED  BY <1>2, <1>5, <2>2, <2>4, <3>1, <4>1, <4>2
    <3>2. CASE y \notin Checks
      <4>1. Owed[y] = OnTheWay(Of(y)) /\ Owed'[y] = OnTheWay(Of(y))'
        BY <1>1, <3>2, OwedIs, OwedIsNext
      <4>2. x \in Traps => (TrapEvent(x) \in Of(y) <=> y = TrapOf(x))
        BY TrapApart
      <4>3. OnTheWay(Of(y))' = OnTheWay(Of(y))
              + (IF x \in Traps /\ y = TrapOf(x) THEN 1 ELSE 0)
        BY <1>3, <1>5, <2>3, <4>2
      <4> QED  BY <1>3, <2>1, <3>2, <4>1, <4>3
    <3> QED  BY <3>1, <3>2
  <2>6. x \in Things /\ Owed[x] > 0
    BY <1>1, <2>1, <2>2, OwedIs DEF Things
  <2> HIDE DEF x, Due
  <2>7. Owed' = [y \in Things |-> Due(y)]
    BY <1>1, <2>5, OwedIsNext
  <2> QED  BY <1>1, <1>2, <2>6, <2>7, LedgerThings DEF Ledger!Give, AsOwed, Due
<1>6. CASE current.kind # "check"
  <2>1. x \in Gifts /\ current = GiftEvent(x)
    BY <1>1, <1>6 DEF ItemEvent, CheckEvent, GiftEvent
  <2>2. /\ x \in Things \ Checks /\ x \notin Traps
        /\ \A y : current \in Of(y) <=> y = x
    BY <2>1, GiftApart, TrapsAssumption
  <2>3. ASSUME NEW y \in Things PROVE Owed'[y] = Due(y)
    <3>1. CASE y \in Checks
      BY <1>1, <1>2, <1>6, <2>2, <3>1, OwedIs, OwedIsNext
    <3>2. CASE y \notin Checks
      <4>1. Owed[y] = OnTheWay(Of(y)) /\ Owed'[y] = OnTheWay(Of(y))'
        BY <1>1, <3>2, OwedIs, OwedIsNext
      <4> QED  BY <1>3, <1>6, <2>2, <4>1
    <3> QED  BY <3>1, <3>2
  <2>4. x \in Things /\ Owed[x] > 0
    <3>1. Owed[x] = OnTheWay(Of(x)) /\ current \in Of(x)
      BY <1>1, <2>2, OwedIs
    <3> QED  BY <1>4, <2>2, <3>1 DEF OnTheWay
  <2> HIDE DEF x, Due
  <2>5. Owed' = [y \in Things |-> Due(y)]
    BY <1>1, <2>3, OwedIsNext
  <2> QED  BY <1>1, <1>2, <2>4, <2>5, LedgerThings DEF Ledger!Give, AsOwed, Due
<1> QED  BY <1>5, <1>6

LEMMA LedgerSaves ==
  ASSUME RandoInv, RandoInv', SaveGame
  PROVE  Ledger!Save
<1>1. QueueOK /\ QueueOK' /\ save \in SaveType
  BY DEF RandoInv, ActorInv, TypeOK
<1>2. file' = save /\ UNCHANGED <<save, events, current>>
  BY DEF SaveGame, queueVars
<1>3. Owed' = Owed
  BY <1>1, <1>2, OwedKept DEF OnTheWay
<1>4. Ledger!SavedChecks = AsOwed(save.eligible)
  <2>1. \A x \in Things : (IF x \in Checks THEN Owed[x] ELSE 0)
                            = (IF x \in save.eligible THEN 1 ELSE 0)
    BY <1>1, OwedIs DEF SaveType
  <2> QED  BY <2>1, LedgerThings DEF Ledger!SavedChecks, AsOwed
<1> QED  BY <1>2, <1>3, <1>4 DEF Ledger!Save, AsOwed

LEMMA LedgerLoads ==
  ASSUME RandoInv, RandoInv', OnSaveLoad
  PROVE  Ledger!Load
<1>1. QueueOK' /\ file \in SaveType
  BY DEF RandoInv, ActorInv, TypeOK
<1>2. /\ current' = None /\ events' = <<>> /\ file' = file
      /\ save' = file \/ save' = Blank
  BY DEF OnSaveLoad, CheckQueueReset
<1>3. \A x : OnTheWay(Of(x))' = 0
  BY <1>2, TallyEmpty, EventKinds, OfFacts DEF OnTheWay
<1>4. \A x \in save'.eligible : x \in Checks
  BY <1>1, <1>2 DEF SaveType, Blank
<1>5. Owed' = AsOwed(save'.eligible)
  BY <1>1, <1>3, <1>4, OwedIsNext DEF AsOwed
<1>6. CASE save' = file
  BY <1>2, <1>5, <1>6 DEF Ledger!Load, AsOwed
<1>7. CASE save' = Blank
  <2>1. save'.eligible = {} /\ save'.given = [x \in Things |-> 0]
    BY <1>7 DEF Blank
  <2>2. Owed' = Ledger!Nothing /\ save'.given = Ledger!Nothing
    BY <1>5, <2>1, LedgerThings DEF AsOwed, Ledger!Nothing
  <2> QED  BY <1>2, <2>2 DEF Ledger!Load, AsOwed
<1> QED  BY <1>2, <1>6, <1>7

LEMMA LedgerStep ==
  RandoInv /\ RandoInv' /\ [Next]_vars => Ledger!Next \/ Same
<1> SUFFICES ASSUME RandoInv, RandoInv', [Next]_vars
             PROVE  Ledger!Next \/ Same
  OBVIOUS
<1>1. QueueOK /\ QueueOK' /\ save \in SaveType
  BY DEF RandoInv, ActorInv, TypeOK
<1>2. CASE \E c \in Checks : Mark(c)
  <2>1. PICK c \in Checks : Mark(c)
    BY <1>2
  <2>2. {c} \in SUBSET Checks /\ UNCHANGED <<file, events, current>>
    BY <2>1 DEF Mark, queueVars
  <2>3. Ledger!Earn({c})
    BY <1>1, <2>1, <2>2, LedgerEarns DEF Mark
  <2> QED  BY <2>2, <2>3 DEF Ledger!Next
<1>3. CASE AfterEndOfCycleSave
  <2>1. Renewed \in SUBSET Checks /\ UNCHANGED <<file, events, current>>
    BY <1>3, TrapsAssumption DEF AfterEndOfCycleSave, queueVars
  <2>2. Ledger!Earn(Renewed)
    BY <1>1, <1>3, <2>1, LedgerEarns DEF AfterEndOfCycleSave
  <2> QED  BY <2>1, <2>2 DEF Ledger!Next
<1>4. CASE Occupy \/ Settle \/ EndGetItem \/ UNCHANGED vars
  BY <1>1, <1>4, LedgerKept DEF Occupy, Settle, EndGetItem, vars, queueVars, OnTheWay
<1>5. CASE (\E g \in Gifts : QueueGift(g)) \/ QueueMove \/ CheckQueue
  BY <1>5, LedgerQueueSteps
<1>6. CASE ProcessEvents
  BY <1>6, LedgerProcessSteps
<1>7. ASSUME NEW s \in Slots, ItemUpdate(s) \/ TakeOffer(s)
      PROVE  Ledger!Next \/ Same
  <2>1. CASE GiveOverhead(s) \/ GiveHeld(s)
    BY <2>1, LedgerGives, LedgerThings DEF Ledger!Next
  <2>2. CASE EndOverhead(s) \/ DropHeld(s) \/ TakeOffer(s)
    BY <1>1, <2>2, LedgerKept DEF EndOverhead, DropHeld, TakeOffer, queueVars, OnTheWay
  <2> QED  BY <1>7, <2>1, <2>2 DEF ItemUpdate
<1>8. CASE (\E s \in Slots : DeleteItem(s)) \/ EndTransition \/ LeaveScene \/ Quit
  <2>1. PICK T \in SUBSET Slots : Destroy(T)
    BY <1>8 DEF DeleteItem, EndTransition, LeaveScene, Quit, NewScene
  <2>2. \A x : OnTheWay(Of(x))' = OnTheWay(Of(x))
    BY <2>1, PutBack, OfFacts DEF RandoInv
  <2>3. save' = save /\ file' = file
    BY <1>8 DEF DeleteItem, EndTransition, LeaveScene, Quit, NewScene
  <2> QED  BY <1>1, <2>2, <2>3, LedgerKept
<1>9. CASE SaveGame
  BY <1>9, LedgerSaves DEF Ledger!Next
<1>10. CASE OnSaveLoad
  BY <1>10, LedgerLoads DEF Ledger!Next
<1> QED  BY <1>2, <1>3, <1>4, <1>5, <1>6, <1>7, <1>8, <1>9, <1>10 DEF Next, PlayerStep

LEMMA LedgerInit == Init => Ledger!Init
<1> SUFFICES ASSUME Init PROVE Ledger!Init
  OBVIOUS
<1>1. QueueOK /\ save = Blank /\ file = Blank /\ events = <<>> /\ current = None
  BY InitActorInv DEF ActorInv, TypeOK, Init
<1>2. \A x : OnTheWay(Of(x)) = 0
  BY <1>1, TallyEmpty, EventKinds, OfFacts DEF OnTheWay
<1>3. Owed = [x \in Things |-> 0]
  BY <1>1, <1>2, OwedIs DEF Blank
<1> QED  BY <1>1, <1>3, LedgerThings DEF Ledger!Init, Ledger!Nothing, AsOwed, Blank

(* The queue, the item actors and the save keep the ledger: every item and *)
(* trap is given for a debt, once, and no scene change, interruption, save *)
(* or load makes one or loses one that the file does not say               *)
(* (CheckQueue.cpp, GameInteractor.cpp, CustomItem.cpp).                   *)
THEOREM LedgerIsKept == Spec => KeepsLedger
<1>1. RandoInv /\ RandoInv' /\ [Next]_vars => [Ledger!Next]_(Ledger!ledger)
  BY LedgerStep DEF Same
<1> QED  BY <1>1, LedgerInit, RandoInvariant, PTL DEF Spec, KeepsLedger, Ledger!Spec
=============================================================================
