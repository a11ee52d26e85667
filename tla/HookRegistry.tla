---------------------------- MODULE HookRegistry ----------------------------
(***************************************************************************)
(* The hook registry of GameInteractor.h: modules register callbacks under *)
(* ids, remove them by queueing the id, and the queue is emptied by the    *)
(* next execution of the same kind of hook or at the start of the next     *)
(* frame.  Registrations run at start-up, on every preset load, when an    *)
(* option changes, when a save or a scene is loaded, and from the bodies   *)
(* of hooks, one of which inserts into the map being iterated over.        *)
(*                                                                         *)
(* The registering sites are the ones that use the registry each in a way  *)
(* of its own; "border" and "health" are as they are in the code, which    *)
(* adds a hook at every registration.                                      *)
(***************************************************************************)
EXTENDS Naturals, Sequences, FiniteSets

CONSTANTS
  MaxLoads,   \* bound: preset loads, option changes, save and scene loads
  MaxBodies   \* bound: traps sprung, songs played and healings of Mikau

ASSUME BoundsAssumption == MaxLoads \in Nat /\ MaxBodies \in Nat

VARIABLES
  hooks,      \* RegisteredGameHooks: the registered hooks, by id and site
  pending,    \* HooksToUnregister: the ids queued, by hook type and list
  ids,        \* the static HOOK_ID of each site, 0 for none; of "publish",
              \* whether its static flag is set
  nextHookId,
  on,         \* the conditions that hold: option values, IS_RANDO
  inits,      \* sites a running registration has still to go through
  iterating,  \* the hooks the update of an actor has still to call
  stage,      \* how far the frame is
  updated,    \* the actors updated in this frame
  ran,        \* the watched hooks the last step called
  loads,      \* bound: counted against MaxLoads
  bodies      \* bound: counted against MaxBodies

vars == <<hooks, pending, ids, nextHookId, on, inits, iterating, stage,
          updated, ran, loads, bodies>>

Cond == [bar |-> "bars", limb |-> "bunny", border |-> "bunny",
         checkQueue |-> "rando"]
CondSites == DOMAIN Cond
BodySites == {"bounce", "song", "mikau"}
Nameless == {"cleanup", "events", "health"}   \* the id is thrown away
Sites == CondSites \cup BodySites \cup Nameless \cup {"publish"}

\* Each hook type has its own maps and queues; the map of id-based hooks has
\* one group per actor, limb or page.
TypeOf ==
  [s \in Sites |->
     IF s \in {"events", "checkQueue", "bounce", "song", "mikau"}
     THEN "OnActorUpdate" ELSE s]
ListOf ==
  [s \in Sites |->
     IF s \in {"events", "checkQueue", "bounce", "song", "mikau", "limb",
               "border"}
     THEN "hooksForID" ELSE "hooks"]
Types == {TypeOf[s] : s \in Sites}
Lists == {"hooks", "hooksForID"}

\* The groups of the id-based OnActorUpdate hooks.
Group == [player |-> {"events", "checkQueue", "bounce", "song"},
          zog |-> {"mikau"}]
Actors == DOMAIN Group

Conditional == {"bar", "limb", "checkQueue"}
Watched == Conditional \cup {"publish"}

HooksOf(set) == {h \in hooks : h.site \in set}

-----------------------------------------------------------------------------
\* RegisterGameHook and RegisterGameHookForID: ids are never handed out twice
\* (the 32-bit wrap is out of reach).
(* Mutation: the lowest free id is taken. *)
RegisterLowest(s) ==
  \E id \in 1 .. Cardinality(hooks) + 1 :
    /\ \A h \in hooks : h.id # id
    /\ \A i \in 1 .. id - 1 : \E h \in hooks : h.id = i
    /\ hooks' = hooks \cup {[id |-> id, site |-> s]}
    /\ ids' = [ids EXCEPT ![s] = IF s \in Nameless THEN 0 ELSE id]
    /\ nextHookId' = nextHookId

Register(s) ==
  /\ hooks' = hooks \cup {[id |-> nextHookId, site |-> s]}
  /\ ids' = [ids EXCEPT ![s] = IF s \in Nameless THEN 0 ELSE nextHookId]
  /\ nextHookId' = nextHookId + 1

Entry(s, list) == [type |-> TypeOf[s], list |-> list, id |-> ids[s]]

\* UnregisterGameHook and UnregisterGameHookForID: the id is queued.
Unregister(s, list) ==
  pending' = IF ids[s] = 0 THEN pending ELSE pending \cup {Entry(s, list)}

Queued(h) ==
  [type |-> TypeOf[h.site], list |-> ListOf[h.site], id |-> h.id] \in pending

\* The heads of ExecuteHooks and ExecuteHooksForID, which follow each other:
\* the one works off the whole queue of the type, the other looks only into
\* the group it is executed for and leaves the other ids queued.
(* Mutation: the hooks stay in the maps until the start of the next frame. *)
DrainNothing(executed) == UNCHANGED <<hooks, pending>>

Drain(executed) ==
  LET due == {h \in HooksOf(executed) : Queued(h)} IN
  /\ hooks' = hooks \ due
  /\ pending' =
       {p \in pending :
          p.type \in {TypeOf[s] : s \in executed} =>
            p.list = "hooksForID" /\ \A h \in due : h.id # p.id}

\* RemoveAllQueuedHooks, from the hook that RegisterOwnHooks put on
\* OnGameStateMainStart.
(* Mutation: ProcessUnregisteredHooks forgets the id-based hooks. *)
RemoveNormalHooks ==
  /\ hooks' = {h \in hooks : ~(Queued(h) /\ ListOf[h.site] = "hooks")}
  /\ pending' = {p \in pending : p.list = "hooksForID"}

RemoveAllQueuedHooks ==
  /\ hooks' = {h \in hooks : ~Queued(h)}
  /\ pending' = {}

-----------------------------------------------------------------------------
\* One site of a running registration.  COND_HOOK and COND_ID_HOOK remove the
\* hook and add it again if the condition holds; UpdatePersistentMasksState
\* does so with ids it keeps, and queues "border" in the list of another
\* kind.
WrongList(s) == IF s = "border" THEN "hooks" ELSE ListOf[s]

Rehook(s) ==
  /\ Unregister(s, WrongList(s))
  /\ IF Cond[s] \in on THEN Register(s)
     ELSE /\ ids' = IF s \in {"limb", "border"} THEN ids
                    ELSE [ids EXCEPT ![s] = 0]
          /\ UNCHANGED <<hooks, nextHookId>>

\* The static guard of SnapshotPublisher.cpp.
(* Mutation: the guard is deleted as redundant. *)
RegisterPublisherAgain == Register("publish") /\ UNCHANGED pending

RegisterPublisher ==
  /\ IF ids["publish"] = 0 THEN Register("publish")
     ELSE UNCHANGED <<hooks, ids, nextHookId>>
  /\ UNCHANGED pending

InitSite ==
  /\ inits # <<>>
  /\ inits' = Tail(inits)
  /\ LET s == Head(inits) IN
       \/ s \in CondSites /\ Rehook(s)
       \/ s = "publish" /\ RegisterPublisher
       \/ s \in Nameless /\ Register(s) /\ UNCHANGED pending
  /\ ran' = {}
  /\ UNCHANGED <<on, iterating, stage, updated, loads, bodies>>

\* The function registered by EnemyHealthBars.cpp, by PersistentMasks.cpp,
\* and everything registered with RegisterShipInitFunc.
EnemyHealthBars == <<"health", "bar">>
PersistentMasks == <<"limb", "border">>
All == <<"publish", "health", "bar", "limb", "border">>

\* InitAll, then RegisterOwnHooks (InitOTR).
StartUp == <<"publish", "health", "bar", "limb", "border", "cleanup", "events">>

Quiet == inits = <<>> /\ iterating = {}

Load(newOn, functions) ==
  /\ Quiet /\ loads < MaxLoads
  /\ loads' = loads + 1
  /\ on' = newOn /\ inits' = functions
  /\ ran' = {}
  /\ UNCHANGED <<hooks, pending, ids, nextHookId, iterating, stage, updated,
                 bodies>>

\* The menu, which is drawn between two frames: CVarCheckbox and its like run
\* ShipInit::Init for the option changed, PresetManager for "*".
Toggle ==
  /\ stage = "menu"
  /\ \/ \E bars \in SUBSET {"bars"} :
          Load((on \ {"bars"}) \cup bars, EnemyHealthBars)
     \/ \E bunny \in SUBSET {"bunny"} :
          Load((on \ {"bunny"}) \cup bunny, PersistentMasks)

LoadPreset ==
  /\ stage = "menu"
  /\ \E options \in SUBSET {"bars", "bunny"} :
       Load((on \cap {"rando"}) \cup options, All)

\* OnSaveLoad (MiscBehavior::OnFileLoad) and OnSceneInit, which calls
\* UpdatePersistentMasksState while the option is on.
SaveLoad ==
  /\ stage = "play"
  /\ \E rando \in SUBSET {"rando"} :
       Load((on \ {"rando"}) \cup rando, <<"checkQueue">>)

SceneInit ==
  /\ stage = "play" /\ "bunny" \in on
  /\ Load(on, PersistentMasks)

-----------------------------------------------------------------------------
\* GameState_Update: OnGameStateMainStart, the game state with its actors and
\* drawing, OnGameStateUpdate.
FrameStart ==
  /\ Quiet /\ stage = "menu"
  /\ stage' = "play" /\ updated' = {}
  /\ HooksOf({"cleanup"}) # {}
  /\ RemoveAllQueuedHooks
  /\ ran' = {}
  /\ UNCHANGED <<ids, nextHookId, on, inits, iterating, loads, bodies>>

\* One execution whose hooks leave the registry alone.
Execute(executed) ==
  /\ Drain(executed)
  /\ ran' = {h \in hooks' : h.site \in executed \cap Watched}
  /\ UNCHANGED <<ids, nextHookId, on, inits, iterating, loads, bodies>>

FrameUpdate ==
  /\ Quiet /\ stage = "play"
  /\ stage' = "menu"
  /\ Execute({"publish"})
  /\ UNCHANGED updated

Draw ==
  /\ Quiet /\ stage = "play"
  /\ \E s \in {"bar", "limb", "border"} : Execute({s})
  /\ UNCHANGED <<stage, updated>>

-----------------------------------------------------------------------------
\* Hooks that the game registers while it runs.
Body(s) ==
  /\ bodies < MaxBodies
  /\ bodies' = bodies + 1
  /\ Register(s)

\* A song of time is played on the ocarina (BetterSongOfDoubleTime.cpp); the
\* last one is over, and its hook gone, long before.
PlaySong ==
  /\ Quiet /\ stage = "play" /\ ids["song"] = 0
  /\ Body("song")
  /\ ran' = {}
  /\ UNCHANGED <<pending, on, inits, iterating, stage, updated, loads>>

\* An EnZog is initialised in the scene of HealingMikauAudio.cpp.
HealMikau ==
  /\ Quiet /\ stage = "play" /\ ids["mikau"] = 0
  /\ Body("mikau")
  /\ ran' = {}
  /\ UNCHANGED <<pending, on, inits, iterating, stage, updated, loads>>

\* Actor_UpdateAll updates each actor once and executes its hooks.
StartUpdate(actor) ==
  /\ Quiet /\ stage = "play" /\ actor \notin updated
  /\ updated' = updated \cup {actor}
  /\ Drain(Group[actor])
  /\ iterating' = {h \in hooks' : h.site \in Group[actor]}
  /\ ran' = {}
  /\ UNCHANGED <<ids, nextHookId, on, inits, stage, loads, bodies>>

\* A body that leaves the registry alone.
Idle(h) ==
  /\ iterating' = iterating \ {h}
  /\ UNCHANGED <<hooks, pending, ids, nextHookId, bodies>>

\* The bodies of song and mikau remove their own hook when they are done and
\* clear the id.
Finish(h) ==
  /\ h.site \in {"song", "mikau"}
  /\ Unregister(h.site, "hooksForID")
  /\ ids' = [ids EXCEPT ![h.site] = 0]
  /\ iterating' = iterating \ {h}
  /\ UNCHANGED <<hooks, nextHookId, bodies>>

\* The body of bounce removes its hook on every update on the ground and keeps
\* the id.
Land(h) ==
  /\ h.site = "bounce"
  /\ Unregister("bounce", "hooksForID")
  /\ iterating' = iterating \ {h}
  /\ UNCHANGED <<hooks, ids, nextHookId, bodies>>

\* ProcessEvents springs a knockback trap: its action puts a hook into the map
\* that is being iterated over.  The map may have to grow, and then the loop
\* goes on in whatever order the hooks have there: any of the others may be
\* called, again too, or left out.
Knockback(h) ==
  /\ h.site = "events"
  /\ Unregister("bounce", "hooksForID")
  /\ Body("bounce")
  /\ iterating' \in SUBSET {g \in hooks' \ {h} : g.site \in Group["player"]}

CallHook ==
  /\ \E h \in iterating :
       /\ Idle(h) \/ Finish(h) \/ Land(h) \/ Knockback(h)
       /\ ran' = {h} \cap HooksOf(Watched)
  /\ UNCHANGED <<on, inits, stage, updated, loads>>

Init ==
  /\ hooks = {} /\ pending = {}
  /\ ids = [s \in Sites |-> 0]
  /\ nextHookId = 1
  /\ on \in SUBSET {"bars", "bunny"}
  /\ inits = StartUp
  /\ iterating = {} /\ stage = "menu" /\ updated = {}
  /\ ran = {} /\ loads = 0 /\ bodies = 0

Next ==
  \/ InitSite
  \/ Toggle \/ LoadPreset \/ SaveLoad \/ SceneInit
  \/ FrameStart \/ FrameUpdate \/ Draw
  \/ PlaySong \/ HealMikau
  \/ \E actor \in Actors : StartUpdate(actor)
  \/ CallHook

\* The one thread runs on: a registration, an iteration and a frame end.
Fairness ==
  /\ WF_vars(InitSite) /\ WF_vars(CallHook)
  /\ WF_vars(FrameStart) /\ WF_vars(FrameUpdate)

Spec == Init /\ [][Next]_vars
FairSpec == Spec /\ Fairness
-----------------------------------------------------------------------------
(* The types of what the registrations and removals work on.              *)
HookType == [id : Nat \ {0}, site : Sites]

TypeOK ==
  /\ hooks \in SUBSET HookType
  /\ pending \in SUBSET [type : Types, list : Lists, id : Nat]
  /\ ids \in [Sites -> Nat]
  /\ nextHookId \in Nat \ {0}
  /\ inits \in Seq(Sites)
  /\ iterating \in SUBSET HookType

(* The hooks of a site that are registered and not on their way out.       *)
Live(s) == {h \in HooksOf({s}) : ~Queued(h)}

Running == {inits[i] : i \in DOMAIN inits}

(* However often options change and presets, saves and scenes are loaded,  *)
(* a conditional site has exactly the hook it knows while its condition    *)
(* holds and none otherwise; a site whose body removes it has at most the  *)
(* one it knows; and no queued id, the stale one of the bounce included,   *)
(* takes another site's hook along.  (EnemyHealthBars.cpp:191 and          *)
(* PersistentMasks.cpp:83, which pile up hooks, are not among them.)       *)
OneHookPerSite ==
  /\ \A s \in Conditional \ Running :
       Live(s) = IF Cond[s] \in on THEN {[id |-> ids[s], site |-> s]} ELSE {}
  /\ \A s \in BodySites : Live(s) \subseteq {[id |-> ids[s], site |-> s]}

(* A hook is called only while what it was registered for holds: once an   *)
(* option is off or a save without the randomizer is loaded, its hook is   *)
(* not called again, though it may still be in the map.                    *)
RunsOnlyWanted ==
  \A h \in ran : h.site \in Conditional =>
    Cond[h.site] \in on /\ h.id = ids[h.site]

(* The snapshot is published once a frame, however many presets were       *)
(* loaded: the reader tells a stopped game by the frame counter            *)
(* (SnapshotPublisher.cpp:215-229).                                        *)
PublishesOncePerFrame ==
  [][stage = "play" /\ stage' = "menu" =>
       Cardinality({h \in ran' : h.site = "publish"}) = 1]_vars

(* Hooks on their way out do leave the maps, also when no hook of their    *)
(* kind is executed any more: again and again there is a moment with none. *)
RemovedAreForgotten ==
  (\E h \in hooks : Queued(h)) ~> (\A h \in hooks : ~Queued(h))
=============================================================================
