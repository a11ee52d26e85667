------------------------------- MODULE ItemEvents -------------------------------
(***************************************************************************)
(* The event queue of the GameInteractor (GameInteractor.cpp), the item    *)
(* actors that carry its items to the player (CustomItem.cpp), and the     *)
(* randomizer's check queue, which puts the checks a player has earned in  *)
(* it one at a time (Rando/MiscBehavior/CheckQueue.cpp).                   *)
(*                                                                         *)
(* CheckQueue and ProcessEvents are both hooks of the player's update, in  *)
(* an order the hook registry does not fix; an item actor updates later in *)
(* the frame, a killed actor is deleted in a later one, and what the       *)
(* player does in between is the environment's choice.                     *)
(***************************************************************************)
EXTENDS Naturals, Sequences, FiniteSets

CONSTANTS
  Checks, Traps, Gifts,
  Renewed,     \* starting checks AfterEndOfCycleSave makes eligible again
  Slots,       \* bound: item actors alive at once
  MaxAsks,     \* bound: checks marked and gifts queued
  MaxMishaps   \* bound: what interrupts: blocked, riding, a new scene

ASSUME TrapsAssumption == Traps \subseteq Checks /\ Renewed \subseteq Checks
ASSUME BoundsAssumption == Slots \subseteq Nat /\ MaxAsks \in Nat /\ MaxMishaps \in Nat

TrapOf(c) == <<"trap", c>>
Things == Checks \cup Gifts \cup {TrapOf(c) : c \in Traps}

ASSUME NamesAssumption ==
  Checks \cap Gifts = {} /\ \A c \in Traps : TrapOf(c) \notin Checks \cup Gifts

CheckEvent(c) == [kind |-> "check", what |-> c]
GiftEvent(g) == [kind |-> "gift", what |-> g]
TrapEvent(c) == [kind |-> "trap", what |-> TrapOf(c)]
MoveEvent == [kind |-> "move", what |-> <<"entrance">>]
None == [kind |-> "none", what |-> <<>>]

ItemKinds == {"check", "gift"}
ItemEvent == {CheckEvent(c) : c \in Checks} \cup {GiftEvent(g) : g \in Gifts}
Event == ItemEvent \cup {TrapEvent(c) : c \in Traps} \cup {MoveEvent}

NoItem == [stage |-> "none", what |-> <<>>, cutscene |-> FALSE, called |-> FALSE]

VARIABLES
  save,     \* RANDO_SAVE_CHECKS: [eligible, given]; given counts giveItem calls
  rando,    \* IS_RANDO of the loaded save
  file,     \* what the rando save file holds
  queued,   \* the static flag of CheckQueue.cpp
  events, current,  \* GameInteractor::events, ::currentEvent
  item,     \* the item actors, by slot
  player,   \* what the player is doing
  place,    \* "play", or "menu" where no Play state exists
  asks, mishaps  \* what is left of the bounds

queueVars == <<queued, events, current>>
bounds == <<asks, mishaps>>
vars == <<save, rando, file, queueVars, item, player, place, bounds>>

Blank == [eligible |-> {}, given |-> [x \in Things |-> 0]]

Uncalled(s) == item[s].stage # "none" /\ ~item[s].called

-----------------------------------------------------------------------------
(* What asks for items: a flag of a shuffled check (OnFlagSet), the start  *)
(* of a new cycle, an enhancement, an enhancement that moves the player.   *)
Mark(c) ==
  /\ place = "play" /\ rando /\ asks > 0
  /\ save' = [save EXCEPT !.eligible = @ \cup {c}]
  /\ asks' = asks - 1
  /\ UNCHANGED <<rando, file, queueVars, item, player, place, mishaps>>

AfterEndOfCycleSave ==
  /\ place = "play" /\ rando /\ asks > 0
  /\ save' = [save EXCEPT !.eligible = @ \cup Renewed]
  /\ asks' = asks - 1
  /\ UNCHANGED <<rando, file, queueVars, item, player, place, mishaps>>

QueueGift(g) ==
  /\ place = "play" /\ asks > 0
  /\ events' = Append(events, GiftEvent(g))
  /\ asks' = asks - 1
  /\ UNCHANGED <<save, rando, file, queued, current, item, player, place, mishaps>>

QueueMove ==
  /\ place = "play" /\ mishaps > 0
  /\ events' = Append(events, MoveEvent)
  /\ mishaps' = mishaps - 1
  /\ UNCHANGED <<save, rando, file, queued, current, item, player, place, asks>>

(* RANDO_SAVE_CHECKS is searched in its own order; which eligible check    *)
(* comes first is left open.                                               *)
CheckQueue ==
  /\ place = "play" /\ rando /\ ~queued
  /\ \E c \in save.eligible : events' = Append(events, CheckEvent(c))
  /\ queued' = TRUE
  /\ UNCHANGED <<save, rando, file, current, item, player, place, bounds>>

-----------------------------------------------------------------------------
(* Mutation: without the check of the current event. *)
MayProcessAnyway ==
  place = "play" /\ player \in {"free", "riding"} /\ events # <<>>

(* ProcessEvents.  Its guards: no message, no blocking cutscene, alive, no *)
(* current event, an event to take.  Nothing queues its fourth kind of     *)
(* event, GIEventSpawnActor.                                               *)
MayProcess ==
  /\ place = "play"
  /\ player \in {"free", "riding"}
  /\ current = None
  /\ events # <<>>

(* The item is spawned on the player, to be given overhead or, when it has *)
(* a cutscene and the player's hands are free, in one.                     *)
SpawnItem ==
  /\ MayProcess /\ Head(events).kind \in ItemKinds
  /\ current' = Head(events)
  /\ events' = Tail(events)
  /\ \E cutscene \in BOOLEAN, s \in Slots :
       /\ item[s].stage = "none"
       /\ \A t \in Slots : t < s => item[t].stage # "none"
       /\ item' = [item EXCEPT ![s] = [stage |-> "waiting", what |-> Head(events).what,
                                       cutscene |-> cutscene, called |-> FALSE]]
  /\ UNCHANGED <<save, rando, file, queued, player, place, bounds>>

SpringTrap ==
  /\ MayProcess /\ Head(events).kind = "trap"
  /\ IF player = "riding"
     THEN events' = Tail(events) \o <<Head(events)>> /\ UNCHANGED save
     ELSE /\ events' = Tail(events)
          /\ save' = [save EXCEPT !.given[Head(events).what] = @ + 1]
  /\ UNCHANGED <<rando, file, queued, current, item, player, place, bounds>>

StartTransition ==
  /\ MayProcess /\ Head(events).kind = "move"
  /\ events' = Tail(events)
  /\ player' = "leaving"
  /\ UNCHANGED <<save, rando, file, queued, current, item, place, bounds>>

-----------------------------------------------------------------------------
(* Mutation: giveItem leaves the flag. *)
QueuedStill == queued

QueuedAfter == queued /\ current.kind # "check"

(* Mutation: the action function leaves the current event. *)
CurrentStill == current

CurrentAfter == IF current.kind \in ItemKinds THEN None ELSE current

(* The action function of an item actor: giveItem of the current event, on *)
(* the actor's own parameter.  A trap check queues its trap.               *)
CallAction(s) ==
  /\ IF current.kind \in ItemKinds
     THEN save' = [eligible |-> IF current.kind = "check"
                                THEN save.eligible \ {item[s].what} ELSE save.eligible,
                   given |-> [save.given EXCEPT ![item[s].what] = @ + 1]]
     ELSE UNCHANGED save
  /\ queued' = QueuedAfter
  /\ current' = CurrentAfter
  /\ events' = IF current.kind = "check" /\ item[s].what \in Traps
               THEN Append(events, TrapEvent(item[s].what)) ELSE events

(* CustomItem00_Update, GIVE_OVERHEAD: given at once, then shown a while.  *)
GiveOverhead(s) ==
  /\ place = "play"
  /\ item[s].stage = "waiting" /\ ~item[s].cutscene
  /\ CallAction(s)
  /\ item' = [item EXCEPT ![s].stage = "shown", ![s].called = TRUE]
  /\ UNCHANGED <<rando, file, player, place, bounds>>

EndOverhead(s) ==
  /\ place = "play"
  /\ item[s].stage = "shown" /\ ~item[s].cutscene
  /\ item' = [item EXCEPT ![s].stage = "killed"]
  /\ UNCHANGED <<save, rando, file, queueVars, player, place, bounds>>

(* GIVE_ITEM_CUTSCENE: the player takes what is offered, and 20 frames     *)
(* later it is given; it is killed when the player's state for taking an   *)
(* item ends, be it before or after.                                       *)
TakeOffer(s) ==
  /\ place = "play" /\ player = "free"
  /\ item[s].stage = "waiting" /\ item[s].cutscene
  /\ item' = [item EXCEPT ![s].stage = "held"]
  /\ player' = "getitem"
  /\ UNCHANGED <<save, rando, file, queueVars, place, bounds>>

GiveHeld(s) ==
  /\ place = "play"
  /\ item[s].stage = "held"
  /\ CallAction(s)
  /\ item' = [item EXCEPT ![s].stage = IF player = "getitem" THEN "shown" ELSE "killed",
                          ![s].called = TRUE]
  /\ UNCHANGED <<rando, file, player, place, bounds>>

DropHeld(s) ==
  /\ place = "play" /\ player # "getitem"
  /\ item[s].stage \in {"held", "shown"} /\ item[s].cutscene
  /\ item' = [item EXCEPT ![s].stage = "killed"]
  /\ UNCHANGED <<save, rando, file, queueVars, player, place, bounds>>

(* Mutation: the event is not put back. *)
DestroyNever(S) == UNCHANGED <<events, current>>

(* The destroy callback ProcessEvents puts on the actors of the slots S    *)
(* puts back the current event of an actor that has not given its item.    *)
Destroy(S) ==
  IF \E s \in S : Uncalled(s)
  THEN events' = Append(events, current) /\ current' = None
  ELSE UNCHANGED <<events, current>>

(* Actor_UpdateAll calls it for an actor killed earlier, a new scene and   *)
(* the end of the Play state for all.                                      *)
DeleteItem(s) ==
  /\ place = "play" /\ item[s].stage = "killed"
  /\ Destroy({s})
  /\ item' = [item EXCEPT ![s] = NoItem]
  /\ UNCHANGED <<save, rando, file, queued, player, place, bounds>>

-----------------------------------------------------------------------------
(* The player: something comes up, and it is over. *)
Occupy ==
  /\ place = "play" /\ mishaps > 0
  /\ \/ player = "free" /\ player' \in {"blocked", "riding"}
     \/ player = "getitem" /\ player' = "blocked"
  /\ mishaps' = mishaps - 1
  /\ UNCHANGED <<save, rando, file, queueVars, item, place, asks>>

Settle ==
  /\ place = "play" /\ player \in {"blocked", "riding"}
  /\ player' = "free"
  /\ UNCHANGED <<save, rando, file, queueVars, item, place, bounds>>

(* The text of an item closes after it was given. *)
EndGetItem ==
  /\ place = "play" /\ player = "getitem"
  /\ \A s \in Slots : item[s].stage # "held"
  /\ player' = "free"
  /\ UNCHANGED <<save, rando, file, queueVars, item, place, bounds>>

NewScene ==
  /\ Destroy(Slots)
  /\ item' = [s \in Slots |-> NoItem]
  /\ player' = "blocked"
  /\ UNCHANGED <<save, rando, file, queued, place, asks>>

EndTransition ==
  place = "play" /\ player = "leaving" /\ NewScene /\ UNCHANGED mishaps

LeaveScene ==
  place = "play" /\ mishaps > 0 /\ NewScene /\ mishaps' = mishaps - 1

-----------------------------------------------------------------------------
(* Saving, and the ways back to the title screen. *)
SaveGame ==
  /\ place = "play" /\ rando
  /\ file' = save
  /\ UNCHANGED <<save, rando, queueVars, item, player, place, bounds>>

Quit ==
  /\ place = "play"
  /\ Destroy(Slots)
  /\ item' = [s \in Slots |-> NoItem]
  /\ player' = "blocked"
  /\ place' = "menu"
  /\ UNCHANGED <<save, rando, file, queued, bounds>>

(* Mutation: the flag is kept. *)
CheckQueueResetKeeps ==
  current' = None /\ events' = <<>> /\ UNCHANGED queued

CheckQueueReset ==
  queued' = FALSE /\ current' = None /\ events' = <<>>

(* OnSaveLoad: CheckQueueReset, then the hooks of a rando save or not. *)
OnSaveLoad ==
  /\ place = "menu"
  /\ CheckQueueReset
  /\ rando' \in BOOLEAN
  /\ save' = IF rando' THEN file ELSE Blank
  /\ place' = "play"
  /\ UNCHANGED <<file, item, player, bounds>>

-----------------------------------------------------------------------------
Init ==
  /\ save = Blank /\ file = Blank
  /\ rando \in BOOLEAN
  /\ queued = FALSE /\ events = <<>> /\ current = None
  /\ item = [s \in Slots |-> NoItem]
  /\ player = "blocked" /\ place = "play"
  /\ asks = MaxAsks /\ mishaps = MaxMishaps

ProcessEvents == SpawnItem \/ SpringTrap \/ StartTransition

ItemUpdate(s) == GiveOverhead(s) \/ EndOverhead(s) \/ GiveHeld(s) \/ DropHeld(s)

PlayerStep == Settle \/ EndGetItem \/ EndTransition

Next ==
  \/ \E c \in Checks : Mark(c)
  \/ AfterEndOfCycleSave
  \/ \E g \in Gifts : QueueGift(g)
  \/ QueueMove
  \/ CheckQueue
  \/ ProcessEvents
  \/ \E s \in Slots : ItemUpdate(s) \/ TakeOffer(s) \/ DeleteItem(s)
  \/ Occupy
  \/ PlayerStep
  \/ LeaveScene
  \/ SaveGame
  \/ Quit
  \/ OnSaveLoad

(* The hooks and the actors run in every frame; what occupies the player   *)
(* ends.                                                                   *)
Fairness ==
  /\ WF_vars(CheckQueue) /\ WF_vars(ProcessEvents)
  /\ \A s \in Slots : WF_vars(ItemUpdate(s)) /\ WF_vars(TakeOffer(s)) /\ WF_vars(DeleteItem(s))
  /\ WF_vars(PlayerStep)

Spec == Init /\ [][Next]_vars

FairSpec == Spec /\ Fairness

-----------------------------------------------------------------------------
Stages == {"none", "waiting", "held", "shown", "killed"}

SaveType == [eligible : SUBSET Checks, given : [Things -> Nat]]

QueueOK ==
  /\ events \in Seq(Event)
  /\ current \in ItemEvent \cup {None}
  /\ queued \in BOOLEAN

ItemsOK ==
  /\ item \in [Slots -> [stage : Stages, what : Checks \cup Gifts \cup {<<>>},
                         cutscene : BOOLEAN, called : BOOLEAN]]
  /\ \A s \in Slots :
       /\ item[s].stage \in {"waiting", "held"} => ~item[s].called
       /\ item[s].stage = "shown" => item[s].called
       /\ item[s].stage # "none" => place = "play"

(* Every variable has its type, and an item actor has given its item or    *)
(* not as its stage says.                                                  *)
TypeOK ==
  /\ save \in SaveType /\ file \in SaveType /\ rando \in BOOLEAN
  /\ QueueOK
  /\ ItemsOK
  /\ player \in {"free", "riding", "blocked", "leaving", "getitem"}
  /\ place \in {"play", "menu"}
  /\ asks \in 0 .. MaxAsks /\ mishaps \in 0 .. MaxMishaps

Pending == events \o (IF current = None THEN <<>> ELSE <<current>>)

Copies(e) == Cardinality({i \in DOMAIN Pending : Pending[i] = e})

(* "We currently only allow one thing from randommizer to be queued at a   *)
(* time" (CheckQueue.cpp:25): in play, the flag says whether one check is  *)
(* on its way, whatever scenes, interruptions and loads happened.          *)
OneRandoItem ==
  place = "play" =>
    Cardinality({i \in DOMAIN Pending : Pending[i].kind = "check"})
      = (IF queued THEN 1 ELSE 0)

(* The event being handled has exactly one item actor that has not given   *)
(* it yet, with that event's parameter; no other actor's death, however    *)
(* late, can put it back or give it.                                       *)
ItemHasEvent ==
  \A s \in Slots : Uncalled(s) =>
    /\ current.kind \in ItemKinds /\ current.what = item[s].what
    /\ \A t \in Slots : Uncalled(t) => t = s

EventHasItem == current # None => \E s \in Slots : Uncalled(s)

(* The event being handled and the one actor that has yet to give it       *)
(* belong together: an old actor's late death never puts back or gives the *)
(* event of another, and the queue never waits for an event nobody carries *)
(* (GameInteractor.cpp, the destroy callback).                             *)
Linked == ItemHasEvent /\ EventHasItem

(* Every item and trap is given exactly as often as it was asked for, over *)
(* scene changes, interruptions, saves and loads: the queue, its actors    *)
(* and the save together implement the ledger of what is owed.             *)
Owed == [x \in Things |->
           IF x \in Checks THEN (IF x \in save.eligible THEN 1 ELSE 0)
           ELSE IF x \in Gifts THEN Copies(GiftEvent(x))
           ELSE Cardinality({i \in DOMAIN events : events[i].what = x})]

AsOwed(eligible) ==
  [x \in Things |-> IF x \in eligible THEN 1 ELSE 0]

Ledger == INSTANCE ItemLedger WITH
  owed <- Owed,
  given <- save.given,
  file <- <<AsOwed(file.eligible), file.given>>

KeepsLedger == Ledger!Spec

(* Whatever the player has earned, been promised or fallen for is given to *)
(* them in the end, unless they leave for the title screen first.          *)
EverythingIsGiven ==
  (place = "play") ~>
    (place = "menu" \/ (events = <<>> /\ current = None /\ save.eligible = {}))
================================================================================
