------------------------- MODULE HookRegistryProofs -------------------------
(***************************************************************************)
(* That conditional sites keep exactly the hook they know, that no other   *)
(* is called and that a frame publishes once, for any number of loads and  *)
(* of hooks registered from bodies.                                        *)
(***************************************************************************)
EXTENDS HookRegistry, FiniteSetTheorems, TLAPS

Kept == Conditional \cup BodySites

Fresh ==
  /\ \A h \in hooks : h.id < nextHookId
  /\ \A p \in pending : p.id < nextHookId
  /\ \A s \in Sites : ids[s] < nextHookId

(* An id names one hook, and the id a site keeps names a hook of its own. *)
Named ==
  /\ \A g, h \in hooks : g.id = h.id => g = h
  /\ \A s \in CondSites \cup BodySites, h \in hooks : h.id = ids[s] => h.site = s

(* A hook of a site that keeps ids, and that is not queued, is the one of *)
(* the id it keeps.                                                       *)
Known == \A h \in hooks : h.site \in Kept /\ ~Queued(h) => h.id = ids[h.site]

(* What a registration is still to do for the sites in Running, it has     *)
(* done for the others.                                                    *)
Done(s) ==
  IF Cond[s] \in on
  THEN [id |-> ids[s], site |-> s] \in hooks
         /\ ~Queued([id |-> ids[s], site |-> s])
  ELSE \A h \in hooks : h.site = s => Queued(h)

Wanted == \A s \in Conditional : s \notin Running => Done(s)

HookInv == TypeOK /\ Fresh /\ Named /\ Known /\ Wanted

(* While hooks are called nothing is registered by a load, and the hooks   *)
(* the player's update has still to call are in the map, where no hook of  *)
(* checkQueue is queued.                                                   *)
Calling ==
  /\ iterating # {} => inits = <<>>
  /\ \A h \in iterating :
       /\ h.site \in Group["player"] \cup Group["zog"]
       /\ h.site \in Group["player"] =>
            h \in hooks /\ \A g \in hooks : g.site = "checkQueue" => ~Queued(g)

(* The publisher is registered once and never queued. *)
Publisher ==
  /\ \A p \in pending : p.type # "publish"
  /\ HooksOf({"publish"}) =
       IF ids["publish"] = 0 THEN {} ELSE {[id |-> ids["publish"], site |-> "publish"]}
  /\ "publish" \notin Running => ids["publish"] # 0

CallInv == HookInv /\ Calling /\ Publisher

QueuedType == [type : Types, list : Lists, id : Nat]

-----------------------------------------------------------------------------
(* The sites and what belongs to them, spelled out.                        *)
LEMMA SiteFacts ==
  /\ Conditional \subseteq CondSites /\ CondSites \subseteq Sites
  /\ BodySites \subseteq Sites /\ Kept \subseteq CondSites \cup BodySites
  /\ Nameless \subseteq Sites /\ "publish" \in Sites
  /\ Nameless \cap Kept = {} /\ "publish" \notin Kept
  /\ Nameless \cap (CondSites \cup BodySites) = {}
  /\ "publish" \notin CondSites \cup BodySites
  /\ \A s \in Sites : TypeOf[s] \in Types /\ ListOf[s] \in Lists
  /\ \A s \in CondSites : WrongList(s) \in Lists
  /\ \A s \in Conditional : WrongList(s) = ListOf[s]
BY DEF Conditional, CondSites, Cond, Sites, BodySites, Kept, Nameless, TypeOf,
       ListOf, Types, Lists, WrongList

(* Hooks of the same kind and list as one executed are executed too, if    *)
(* they are not id-based.                                                  *)
LEMMA ExecutedTogether ==
  ASSUME NEW executed,
         executed \in {{"publish"}, {"bar"}, {"limb"}, {"border"},
                      Group["player"], Group["zog"]},
         NEW s \in Sites, ListOf[s] = "hooks",
         NEW t \in executed, TypeOf[s] = TypeOf[t]
  PROVE  s \in executed
BY DEF Group, Sites, CondSites, Cond, BodySites, Nameless, TypeOf, ListOf

(* A drain takes away hooks that are queued, and the hooks it leaves are   *)
(* queued as they were.                                                    *)
LEMMA DrainKeeps ==
  ASSUME HookInv, NEW executed, Drain(executed),
         executed \in {{"publish"}, {"bar"}, {"limb"}, {"border"},
                      Group["player"], Group["zog"]}
  PROVE  /\ hooks' \subseteq hooks /\ pending' \subseteq pending
         /\ \A h \in hooks : h \notin hooks' => Queued(h)
         /\ \A h \in hooks' : Queued(h)' <=> Queued(h)
<1> DEFINE due == {h \in HooksOf(executed) : Queued(h)}
<1>1. hooks' = hooks \ due
  BY DEF Drain
<1>2. pending' =
        {p \in pending :
           p.type \in {TypeOf[s] : s \in executed} =>
             p.list = "hooksForID" /\ \A h \in due : h.id # p.id}
  BY DEF Drain
<1>3. \A h \in hooks' : Queued(h)' <=> Queued(h)
  <2> SUFFICES ASSUME NEW h \in hooks', Queued(h)
              PROVE  Queued(h)'
    BY <1>2 DEF Queued
  <2> DEFINE p == [type |-> TypeOf[h.site], list |-> ListOf[h.site],
                   id |-> h.id]
  <2>1. p \in pending /\ h \in hooks /\ h \notin due
    BY <1>1 DEF Queued
  <2>2. h.site \in Sites /\ h.site \notin executed
    BY <2>1 DEF HookInv, TypeOK, HookType, HooksOf
  <2>3. ASSUME p.type \in {TypeOf[s] : s \in executed}
        PROVE  p.list = "hooksForID"
    BY <2>2, <2>3, ExecutedTogether, SiteFacts DEF Lists
  <2>4. ASSUME NEW g \in due PROVE g.id # p.id
    BY <2>1 DEF HooksOf, HookInv, Named
  <2>5. p \in pending'
    BY <1>2, <2>1, <2>3, <2>4
  <2> QED BY <2>5 DEF Queued
<1> QED BY <1>1, <1>2, <1>3 DEF HooksOf

(* A step that only takes away queued hooks, and the ids they are queued   *)
(* by, keeps the invariant.                                                *)
LEMMA RemovingKeeps ==
  ASSUME HookInv, hooks' \subseteq hooks, pending' \subseteq pending,
         \A h \in hooks : h \notin hooks' => Queued(h),
         \A h \in hooks' : Queued(h)' <=> Queued(h),
         UNCHANGED <<ids, nextHookId, on, inits>>,
         iterating' \in SUBSET HookType
  PROVE  HookInv'
<1>1. TypeOK'
  BY DEF HookInv, TypeOK
<1>2. Fresh' /\ Named'
  BY DEF HookInv, Fresh, Named
<1>3. Known'
  BY DEF HookInv, Known
<1>4. Wanted'
  <2> SUFFICES ASSUME NEW s \in Conditional, s \notin Running', Done(s)
              PROVE  Done(s)'
    BY DEF HookInv, Wanted, Running
  <2>1. CASE Cond[s] \in on
    BY <2>1 DEF Done
  <2>2. CASE Cond[s] \notin on
    BY <2>2 DEF Done
  <2> QED BY <2>1, <2>2
<1> QED BY <1>1, <1>2, <1>3, <1>4 DEF HookInv

(* Queueing the id a site keeps concerns hooks of that site only; the one  *)
(* it keeps is queued then.                                                *)
LEMMA UnregisterKeeps ==
  ASSUME HookInv, NEW s \in CondSites \cup BodySites, NEW list \in Lists,
         Unregister(s, list), s \in Kept => list = ListOf[s]
  PROVE  /\ pending' \in SUBSET QueuedType
         /\ \A p \in pending' : p.id < nextHookId
         /\ \A h \in hooks : Queued(h) => Queued(h)'
         /\ \A h \in hooks : h.site # s => (Queued(h)' <=> Queued(h))
         /\ s \in Kept => \A h \in hooks : h.site = s => Queued(h)'
<1>1. s \in Sites /\ TypeOf[s] \in Types
  BY SiteFacts
<1>2. Entry(s, list) \in QueuedType /\ Entry(s, list).id < nextHookId
  BY <1>1 DEF Entry, QueuedType, HookInv, TypeOK, Fresh
<1>3. pending \subseteq pending' /\ pending' \subseteq pending \cup {Entry(s, list)}
  BY DEF Unregister
<1>4. pending' \in SUBSET QueuedType /\ \A p \in pending' : p.id < nextHookId
  BY <1>2, <1>3 DEF HookInv, TypeOK, QueuedType, Fresh
<1>5. \A h \in hooks : Queued(h) => Queued(h)'
  BY <1>3 DEF Queued
<1>6. \A h \in hooks : h.site # s => (Queued(h)' <=> Queued(h))
  <2> SUFFICES ASSUME NEW h \in hooks, h.site # s, Queued(h)'
              PROVE  Queued(h)
    BY <1>5
  <2>1. h.id # ids[s]
    BY DEF HookInv, Named
  <2> QED BY <1>3, <2>1 DEF Queued, Entry
<1>7. ASSUME s \in Kept, NEW h \in hooks, h.site = s, ~Queued(h)
      PROVE  Queued(h)'
  <2>1. h.id = ids[s] /\ h.id # 0
    BY <1>7 DEF HookInv, Known, TypeOK, HookType
  <2>2. Entry(s, list) \in pending'
    BY <2>1 DEF Unregister
  <2> QED BY <1>7, <2>1, <2>2 DEF Entry, Queued
<1> QED BY <1>4, <1>5, <1>6, <1>7

(* A new hook keeps ids apart, and what other sites have is as it was.     *)
LEMMA RegisterKeeps ==
  ASSUME HookInv, NEW s \in Sites, Register(s),
         pending' \in SUBSET QueuedType,
         \A p \in pending' : p.id < nextHookId,
         \A h \in hooks : h.site # s => (Queued(h)' <=> Queued(h)),
         s \in Kept => \A h \in hooks : h.site = s => Queued(h)'
  PROVE  /\ hooks' \in SUBSET HookType /\ ids' \in [Sites -> Nat]
         /\ nextHookId' \in Nat \ {0}
         /\ Fresh' /\ Named' /\ Known'
         /\ UNCHANGED on => \A t \in Conditional : t # s /\ Done(t) => Done(t)'
         /\ s \in Conditional /\ Cond[s] \in on' => Done(s)'
<1>0. PICK n : n = nextHookId
  OBVIOUS
<1> DEFINE new == [id |-> n, site |-> s]
<1>1. /\ hooks' = hooks \cup {new}
      /\ ids' = [ids EXCEPT ![s] = IF s \in Nameless THEN 0 ELSE nextHookId]
      /\ nextHookId' = nextHookId + 1
  BY <1>0 DEF Register
<1>2. /\ new \in HookType /\ new.id = nextHookId /\ new.site = s
      /\ nextHookId \in Nat
  BY <1>0 DEF HookInv, TypeOK, HookType
<1>3. /\ hooks' \in SUBSET HookType /\ ids' \in [Sites -> Nat]
      /\ nextHookId' \in Nat \ {0}
  BY <1>1, <1>2 DEF HookInv, TypeOK
<1>4. \A t \in Sites : t # s => ids'[t] = ids[t]
  BY <1>1 DEF HookInv, TypeOK
<1>5. s \notin Nameless => ids'[s] = nextHookId
  BY <1>1 DEF HookInv, TypeOK
<1>6. ids'[s] \in {0, nextHookId}
  BY <1>1 DEF HookInv, TypeOK
<1>7. Fresh'
  <2>1. \A h \in hooks' : h.id < nextHookId'
    BY <1>1, <1>2 DEF HookInv, TypeOK, HookType, Fresh
  <2>2. \A p \in pending' : p.id < nextHookId'
    BY <1>1, <1>2 DEF QueuedType
  <2>3. ASSUME NEW t \in Sites PROVE ids'[t] < nextHookId'
    BY <1>1, <1>2, <1>4, <1>6 DEF HookInv, TypeOK, Fresh
  <2> QED BY <2>1, <2>2, <2>3 DEF Fresh
<1>8. \A h \in hooks : h.id < nextHookId /\ h.id # nextHookId /\ h.id # 0
  BY <1>2 DEF HookInv, TypeOK, HookType, Fresh
<1>9. Named'
  <2>1. \A g, h \in hooks' : g.id = h.id => g = h
    BY <1>1, <1>2, <1>8 DEF HookInv, Named
  <2>2. ASSUME NEW t \in CondSites \cup BodySites, NEW h \in hooks',
               h.id = ids'[t]
        PROVE  h.site = t
    <3>1. t \in Sites
      BY SiteFacts
    <3>2. CASE h = new
      <4>1. ids[t] < nextHookId
        BY <3>1 DEF HookInv, Fresh
      <4> QED BY <1>2, <1>4, <2>2, <3>1, <3>2, <4>1 DEF HookInv, TypeOK
    <3>3. CASE h # new
      BY <1>1, <1>4, <1>6, <1>8, <2>2, <3>1, <3>3 DEF HookInv, Named
    <3> QED BY <3>2, <3>3
  <2> QED BY <2>1, <2>2 DEF Named
<1>10. ~Queued(new)'
  <2> DEFINE p == [type |-> TypeOf[s], list |-> ListOf[s], id |-> n]
  <2>1. p.id = nextHookId /\ p \notin pending'
    BY <1>0, <1>2
  <2> QED BY <2>1 DEF Queued
<1>11. Known'
  <2> SUFFICES ASSUME NEW h \in hooks', h.site \in Kept, ~Queued(h)'
              PROVE  h.id = ids'[h.site]
    BY DEF Known
  <2>1. CASE h = new
    BY <1>2, <1>5, <2>1, SiteFacts
  <2>2. CASE h # new
    <3>1. h \in hooks /\ h.site # s /\ ~Queued(h)
      BY <1>1, <2>2
    <3>2. h.id = ids[h.site]
      BY <3>1 DEF HookInv, Known
    <3> QED BY <1>4, <3>1, <3>2, SiteFacts
  <2> QED BY <2>1, <2>2
<1>12. ASSUME UNCHANGED on, NEW t \in Conditional, t # s, Done(t)
       PROVE  Done(t)'
  <2>1. t \in Sites /\ ids'[t] = ids[t]
    BY <1>4, <1>12, SiteFacts
  <2>2. CASE Cond[t] \in on
    <3> DEFINE h == [id |-> ids[t], site |-> t]
    <3>1. h \in hooks /\ h.site = t /\ ~Queued(h)
      BY <1>12, <2>2 DEF Done
    <3>2. h \in hooks' /\ ~Queued(h)'
      BY <1>1, <1>12, <3>1
    <3> QED BY <1>12, <2>1, <2>2, <3>2 DEF Done, Queued
  <2>3. CASE Cond[t] \notin on
    BY <1>1, <1>2, <1>12, <2>3 DEF Done
  <2> QED BY <2>2, <2>3
<1>13. ASSUME s \in Conditional, Cond[s] \in on'
       PROVE  Done(s)'
  <2>1. ids'[s] = n
    BY <1>0, <1>5, <1>13, SiteFacts
  <2> DEFINE p == [type |-> TypeOf[s], list |-> ListOf[s], id |-> n]
  <2>2. new \in hooks' /\ p \notin pending'
    BY <1>1, <1>10 DEF Queued
  <2>3. ~Queued([id |-> ids[s], site |-> s])'
    BY <2>1, <2>2 DEF Queued
  <2>4. [id |-> ids'[s], site |-> s] \in hooks'
    BY <2>1, <2>2
  <2> QED BY <1>13, <2>3, <2>4 DEF Done
<1> QED BY <1>3, <1>7, <1>9, <1>11, <1>12, <1>13

-----------------------------------------------------------------------------
(* The functions a load runs, as sequences of sites.                       *)
LEMMA Functions ==
  /\ EnemyHealthBars \in Seq(Sites)
  /\ \E i \in DOMAIN EnemyHealthBars : EnemyHealthBars[i] = "bar"
  /\ PersistentMasks \in Seq(Sites)
  /\ \E i \in DOMAIN PersistentMasks : PersistentMasks[i] = "limb"
  /\ All \in Seq(Sites)
  /\ \A s \in {"bar", "limb"} : \E i \in DOMAIN All : All[i] = s
  /\ StartUp \in Seq(Sites)
  /\ \A s \in {"bar", "limb"} : \E i \in DOMAIN StartUp : StartUp[i] = s
<1>1. {"health", "bar", "limb", "border", "publish", "cleanup", "events"}
        \subseteq Sites
  BY DEF Sites, CondSites, Cond, Nameless
<1>2. /\ EnemyHealthBars \in Seq(Sites) /\ Len(EnemyHealthBars) = 2
      /\ EnemyHealthBars[2] = "bar"
  BY <1>1 DEF EnemyHealthBars
<1>3. /\ PersistentMasks \in Seq(Sites) /\ Len(PersistentMasks) = 2
      /\ PersistentMasks[1] = "limb"
  BY <1>1 DEF PersistentMasks
<1>4. /\ All \in Seq(Sites) /\ Len(All) = 5
      /\ All[3] = "bar" /\ All[4] = "limb"
  BY <1>1 DEF All
<1>5. /\ StartUp \in Seq(Sites) /\ Len(StartUp) = 7
      /\ StartUp[3] = "bar" /\ StartUp[4] = "limb"
  BY <1>1 DEF StartUp
<1> QED BY <1>2, <1>3, <1>4, <1>5

LEMMA InitialInv == Init => HookInv
<1> SUFFICES ASSUME Init PROVE HookInv
  OBVIOUS
<1>3. TypeOK
  BY Functions DEF Init, TypeOK
<1>4. Fresh /\ Named /\ Known
  BY DEF Init, Fresh, Named, Known
<1>5. "bar" \in Running /\ "limb" \in Running
  BY Functions DEF Init, Running
<1>6. Done("checkQueue")
  BY DEF Init, Done, Cond
<1>7. Wanted
  BY <1>5, <1>6 DEF Wanted, Conditional
<1> QED BY <1>3, <1>4, <1>7 DEF HookInv

(* A load may change the conditions of the sites it goes through.          *)
LEMMA LoadKeeps ==
  ASSUME HookInv, NEW newOn, NEW functions \in Seq(Sites),
         Load(newOn, functions),
         \A s \in Conditional :
           \/ Cond[s] \in newOn <=> Cond[s] \in on
           \/ \E i \in DOMAIN functions : functions[i] = s
  PROVE  HookInv'
<1>1. TypeOK' /\ Fresh' /\ Named' /\ Known'
  BY DEF HookInv, Load, TypeOK, Fresh, Named, Known, Queued
<1>2. Wanted'
  <2> SUFFICES ASSUME NEW s \in Conditional, s \notin Running'
              PROVE  Done(s)'
    BY DEF Wanted
  <2>1. Cond[s] \in on' <=> Cond[s] \in on
    BY DEF Load, Running
  <2>2. Done(s)
    <3>1. s \notin Running
      BY DEF Load, Quiet, Running
    <3> QED BY <3>1 DEF HookInv, Wanted
  <2> QED BY <2>1, <2>2 DEF Done, Queued, Load
<1> QED BY <1>1, <1>2 DEF HookInv

LEMMA LoadsKeep ==
  ASSUME HookInv, Toggle \/ LoadPreset \/ SaveLoad \/ SceneInit
  PROVE  HookInv'
<1>1. CASE Toggle
  <2>1. ASSUME NEW bars \in SUBSET {"bars"},
               Load((on \ {"bars"}) \cup bars, EnemyHealthBars)
        PROVE  HookInv'
    <3>1. \A s \in Conditional :
            \/ Cond[s] \in (on \ {"bars"}) \cup bars <=> Cond[s] \in on
            \/ s = "bar"
      BY DEF Conditional, Cond
    <3>2. \A s \in Conditional :
            \/ Cond[s] \in (on \ {"bars"}) \cup bars <=> Cond[s] \in on
            \/ \E i \in DOMAIN EnemyHealthBars : EnemyHealthBars[i] = s
      BY <3>1, Functions
    <3> QED BY <2>1, <3>2, Functions, LoadKeeps
  <2>2. ASSUME NEW bunny \in SUBSET {"bunny"},
               Load((on \ {"bunny"}) \cup bunny, PersistentMasks)
        PROVE  HookInv'
    <3>1. \A s \in Conditional :
            \/ Cond[s] \in (on \ {"bunny"}) \cup bunny <=> Cond[s] \in on
            \/ s = "limb"
      BY DEF Conditional, Cond
    <3>2. \A s \in Conditional :
            \/ Cond[s] \in (on \ {"bunny"}) \cup bunny <=> Cond[s] \in on
            \/ \E i \in DOMAIN PersistentMasks : PersistentMasks[i] = s
      BY <3>1, Functions
    <3> QED BY <2>2, <3>2, Functions, LoadKeeps
  <2> QED BY <1>1, <2>1, <2>2 DEF Toggle
<1>2. CASE LoadPreset
  <2> PICK options \in SUBSET {"bars", "bunny"} :
             Load((on \cap {"rando"}) \cup options, All)
    BY <1>2 DEF LoadPreset
  <2>1. \A s \in Conditional :
          \/ Cond[s] \in (on \cap {"rando"}) \cup options <=> Cond[s] \in on
          \/ s \in {"bar", "limb"}
    BY DEF Conditional, Cond
  <2>2. \A s \in Conditional :
          \/ Cond[s] \in (on \cap {"rando"}) \cup options <=> Cond[s] \in on
          \/ \E i \in DOMAIN All : All[i] = s
    BY <2>1, Functions
  <2> QED BY <2>2, Functions, LoadKeeps
<1>3. CASE SaveLoad
  <2> PICK rando \in SUBSET {"rando"} :
             Load((on \ {"rando"}) \cup rando, <<"checkQueue">>)
    BY <1>3 DEF SaveLoad
  <2>1. \A s \in Conditional :
          \/ Cond[s] \in (on \ {"rando"}) \cup rando <=> Cond[s] \in on
          \/ s = "checkQueue"
    BY DEF Conditional, Cond
  <2> DEFINE functions == <<"checkQueue">>
  <2>2. /\ functions \in Seq(Sites) /\ Len(functions) = 1
        /\ functions[1] = "checkQueue"
    BY DEF Sites, CondSites, Cond
  <2>3. \A s \in Conditional :
          \/ Cond[s] \in (on \ {"rando"}) \cup rando <=> Cond[s] \in on
          \/ \E i \in DOMAIN functions : functions[i] = s
    BY <2>1, <2>2
  <2> QED BY <2>2, <2>3, LoadKeeps
<1>4. CASE SceneInit
  BY <1>4, Functions, LoadKeeps DEF SceneInit
<1> QED BY <1>1, <1>2, <1>3, <1>4

-----------------------------------------------------------------------------
LEMMA InitSiteKeeps == ASSUME HookInv, InitSite PROVE HookInv'
<1>0. PICK s : s = Head(inits)
  OBVIOUS
<1>1. s \in Sites /\ inits' \in Seq(Sites)
  BY <1>0 DEF InitSite, HookInv, TypeOK
<1>2. \A t \in Sites : t \notin Running' => t \notin Running \/ t = s
  <2> SUFFICES ASSUME NEW i \in DOMAIN inits, inits[i] # s
              PROVE  inits[i] \in Running'
    BY DEF Running
  <2>1. inits \in Seq(Sites) /\ inits # <<>> /\ inits' = Tail(inits)
    BY DEF InitSite, HookInv, TypeOK
  <2>2. i \in 1 .. Len(inits) /\ i # 1
    BY <1>0, <2>1
  <2>3. i - 1 \in DOMAIN inits' /\ inits'[i - 1] = inits[i]
    BY <2>1, <2>2
  <2> QED BY <2>3 DEF Running
<1>3. UNCHANGED <<on, iterating>>
  BY DEF InitSite
<1>4. \/ s \in CondSites /\ Rehook(s)
      \/ s = "publish" /\ RegisterPublisher
      \/ s \in Nameless /\ Register(s) /\ UNCHANGED pending
  BY <1>0 DEF InitSite
<1>5. SUFFICES /\ hooks' \in SUBSET HookType /\ pending' \in SUBSET QueuedType
               /\ ids' \in [Sites -> Nat] /\ nextHookId' \in Nat \ {0}
               /\ Fresh' /\ Named' /\ Known'
               /\ \A t \in Conditional : t # s /\ Done(t) => Done(t)'
               /\ s \in Conditional => Done(s)'
  <2>1. Wanted'
    BY <1>2, <1>5, SiteFacts DEF Wanted, HookInv
  <2> QED BY <1>1, <1>3, <1>5, <2>1 DEF HookInv, TypeOK, QueuedType
<1>6. pending \in SUBSET QueuedType /\ \A p \in pending : p.id < nextHookId
  BY DEF HookInv, TypeOK, QueuedType, Fresh
<1>7. ASSUME s \notin Kept, s \notin Conditional, Register(s), UNCHANGED pending
      PROVE  /\ hooks' \in SUBSET HookType /\ pending' \in SUBSET QueuedType
             /\ ids' \in [Sites -> Nat] /\ nextHookId' \in Nat \ {0}
             /\ Fresh' /\ Named' /\ Known'
             /\ \A t \in Conditional : t # s /\ Done(t) => Done(t)'
             /\ s \in Conditional => Done(s)'
  <2>1. \A h \in hooks : Queued(h)' <=> Queued(h)
    BY <1>7 DEF Queued
  <2> QED BY <1>1, <1>3, <1>6, <1>7, <2>1, RegisterKeeps
<1>8. CASE s \in Nameless /\ Register(s) /\ UNCHANGED pending
  BY <1>7, <1>8, SiteFacts DEF Kept
<1>9. CASE s = "publish" /\ RegisterPublisher
  <2>1. CASE Register("publish")
    BY <1>7, <1>9, <2>1, SiteFacts DEF RegisterPublisher, Kept
  <2>2. CASE UNCHANGED <<hooks, ids, nextHookId>>
    <3>1. UNCHANGED pending
      BY <1>9 DEF RegisterPublisher
    <3>2. Fresh' /\ Named' /\ Known'
      BY <2>2, <3>1 DEF HookInv, Fresh, Named, Known, Queued
    <3>3. \A t \in Conditional : Done(t) => Done(t)'
      BY <1>3, <2>2, <3>1 DEF Done, Queued
    <3> QED BY <1>6, <1>9, <2>2, <3>1, <3>2, <3>3, SiteFacts
              DEF HookInv, TypeOK, Kept
  <2> QED BY <1>9, <2>1, <2>2 DEF RegisterPublisher
<1>10. CASE s \in CondSites /\ Rehook(s)
  <2>1. Unregister(s, WrongList(s))
    BY <1>10 DEF Rehook
  <2>2. WrongList(s) \in Lists /\ (s \in Kept => WrongList(s) = ListOf[s])
    BY <1>10, SiteFacts DEF Kept, CondSites, Cond, BodySites
  <2>3. /\ pending' \in SUBSET QueuedType
        /\ \A p \in pending' : p.id < nextHookId
        /\ \A h \in hooks : Queued(h) => Queued(h)'
        /\ \A h \in hooks : h.site # s => (Queued(h)' <=> Queued(h))
        /\ s \in Kept => \A h \in hooks : h.site = s => Queued(h)'
    BY <1>10, <2>1, <2>2, UnregisterKeeps
  <2>4. CASE Cond[s] \in on
    <3>1. Register(s)
      BY <1>10, <2>4 DEF Rehook
    <3> QED BY <1>1, <1>3, <2>3, <2>4, <3>1, RegisterKeeps
  <2>5. CASE Cond[s] \notin on
    <3>1. /\ UNCHANGED <<hooks, nextHookId>>
          /\ ids' = ids \/ ids' = [ids EXCEPT ![s] = 0]
      BY <1>10, <2>5 DEF Rehook
    <3>2. /\ ids' \in [Sites -> Nat]
          /\ \A t \in Sites : ids'[t] = ids[t] \/ (t = s /\ ids'[t] = 0)
      BY <1>1, <3>1 DEF HookInv, TypeOK
    <3>3. Fresh'
      BY <2>3, <3>1, <3>2 DEF HookInv, Fresh, TypeOK
    <3>4. Named'
      BY <3>1, <3>2, SiteFacts DEF HookInv, Named, TypeOK, HookType
    <3>5. Known'
      <4> SUFFICES ASSUME NEW h \in hooks, h.site \in Kept, ~Queued(h)'
                  PROVE  h.id = ids'[h.site]
        BY <3>1 DEF Known
      <4>1. h.site # s /\ ~Queued(h)
        BY <2>3
      <4> QED BY <3>2, <4>1, SiteFacts DEF HookInv, Known
    <3>6. ASSUME NEW t \in Conditional, t # s, Done(t) PROVE Done(t)'
      <4>1. ids'[t] = ids[t] /\ UNCHANGED <<hooks, on>>
        BY <1>3, <3>1, <3>2, <3>6, SiteFacts
      <4>2. CASE Cond[t] \in on
        <5> PICK h \in hooks : h = [id |-> ids[t], site |-> t] /\ ~Queued(h)
          BY <3>6, <4>2 DEF Done
        <5>1. ~Queued(h)'
          BY <2>3, <3>6
        <5> QED BY <4>1, <4>2, <5>1 DEF Done, Queued
      <4>3. CASE Cond[t] \notin on
        BY <2>3, <3>6, <4>1, <4>3 DEF Done
      <4> QED BY <4>2, <4>3
    <3>7. s \in Conditional => Done(s)'
      BY <1>3, <2>3, <2>5, <3>1 DEF Done, Kept
    <3> QED BY <2>3, <3>1, <3>2, <3>3, <3>4, <3>5, <3>6, <3>7
              DEF HookInv, TypeOK
  <2> QED BY <2>4, <2>5
<1> QED BY <1>4, <1>8, <1>9, <1>10

(* Executions and the start of a frame only take away queued hooks.        *)
LEMMA ExecutionsKeep ==
  ASSUME HookInv,
         \/ FrameStart \/ FrameUpdate \/ Draw
         \/ \E actor \in Actors : StartUpdate(actor)
  PROVE  HookInv'
<1>1. CASE FrameStart
  <2>1. /\ hooks' = {h \in hooks : ~Queued(h)} /\ pending' = {}
        /\ UNCHANGED <<ids, nextHookId, on, inits, iterating>>
    BY <1>1 DEF FrameStart, RemoveAllQueuedHooks
  <2>2. \A h \in hooks' : Queued(h)' <=> Queued(h)
    BY <2>1 DEF Queued
  <2> QED BY <2>1, <2>2, RemovingKeeps DEF HookInv, TypeOK
<1>2. ASSUME NEW executed \in {{"publish"}, {"bar"}, {"limb"}, {"border"}},
             Execute(executed)
      PROVE  HookInv'
  BY <1>2, DrainKeeps, RemovingKeeps DEF Execute, HookInv, TypeOK
<1>3. CASE FrameUpdate
  BY <1>2, <1>3 DEF FrameUpdate
<1>4. CASE Draw
  BY <1>2, <1>4 DEF Draw
<1>5. ASSUME NEW actor \in Actors, StartUpdate(actor) PROVE HookInv'
  <2>1. Group[actor] \in {Group["player"], Group["zog"]}
    BY DEF Actors, Group
  <2>2. /\ hooks' \subseteq hooks /\ pending' \subseteq pending
        /\ \A h \in hooks : h \notin hooks' => Queued(h)
        /\ \A h \in hooks' : Queued(h)' <=> Queued(h)
    BY <1>5, <2>1, DrainKeeps DEF StartUpdate
  <2>3. iterating' \in SUBSET HookType
    BY <1>5, <2>2 DEF StartUpdate, HookInv, TypeOK
  <2> QED BY <1>5, <2>2, <2>3, RemovingKeeps DEF StartUpdate
<1> QED BY <1>1, <1>3, <1>4, <1>5

(* The bodies of song, mikau and bounce remove hooks of their own site.    *)
LEMMA UnregisteringKeeps ==
  ASSUME HookInv, NEW s \in BodySites, Unregister(s, "hooksForID"),
         ids' = ids \/ ids' = [ids EXCEPT ![s] = 0],
         UNCHANGED <<hooks, nextHookId, on, inits>>,
         iterating' \in SUBSET HookType
  PROVE  HookInv'
<1>1. /\ s \in Sites /\ s \in Kept /\ s \notin Conditional
      /\ ListOf[s] = "hooksForID" /\ "hooksForID" \in Lists
  BY DEF BodySites, Kept, Conditional, ListOf, Sites, Lists
<1>2. /\ pending' \in SUBSET QueuedType
      /\ \A p \in pending' : p.id < nextHookId
      /\ \A h \in hooks : h.site # s => (Queued(h)' <=> Queued(h))
      /\ \A h \in hooks : h.site = s => Queued(h)'
  BY <1>1, UnregisterKeeps
<1>3. /\ ids' \in [Sites -> Nat]
      /\ \A t \in Sites : ids'[t] = ids[t] \/ (t = s /\ ids'[t] = 0)
  BY <1>1 DEF HookInv, TypeOK
<1>4. TypeOK' /\ Fresh'
  BY <1>2, <1>3 DEF HookInv, TypeOK, QueuedType, Fresh
<1>5. Named'
  BY <1>3, SiteFacts DEF HookInv, Named, TypeOK, HookType
<1>6. Known'
  <2> SUFFICES ASSUME NEW h \in hooks, h.site \in Kept, ~Queued(h)'
              PROVE  h.id = ids'[h.site]
    BY DEF Known
  <2>1. h.site # s /\ ~Queued(h)
    BY <1>2
  <2> QED BY <1>3, <2>1, SiteFacts DEF HookInv, Known
<1>7. Wanted'
  <2> SUFFICES ASSUME NEW t \in Conditional, Done(t) PROVE Done(t)'
    BY DEF HookInv, Wanted, Running
  <2>1. t # s /\ ids'[t] = ids[t]
    BY <1>1, <1>3, SiteFacts
  <2>2. CASE Cond[t] \in on
    <3> PICK h \in hooks : h = [id |-> ids[t], site |-> t] /\ ~Queued(h)
      BY <2>2 DEF Done
    <3>1. ~Queued(h)'
      BY <1>2, <2>1
    <3> QED BY <2>1, <2>2, <3>1 DEF Done, Queued
  <2>3. CASE Cond[t] \notin on
    BY <1>2, <2>1, <2>3 DEF Done
  <2> QED BY <2>2, <2>3
<1> QED BY <1>4, <1>5, <1>6, <1>7 DEF HookInv

(* A hook of a site whose body removes it, registered when the site has    *)
(* none that is not queued.                                                *)
LEMMA BodyKeeps ==
  ASSUME HookInv, NEW s \in BodySites, Register(s),
         pending' \in SUBSET QueuedType,
         \A p \in pending' : p.id < nextHookId,
         \A h \in hooks : h.site # s => (Queued(h)' <=> Queued(h)),
         \A h \in hooks : h.site = s => Queued(h)',
         UNCHANGED <<on, inits>>, iterating' \subseteq hooks' \cup iterating
  PROVE  HookInv'
<1>1. s \in Sites /\ s \notin Conditional
  BY DEF BodySites, Conditional, Sites
<1>2. /\ hooks' \in SUBSET HookType /\ ids' \in [Sites -> Nat]
      /\ nextHookId' \in Nat \ {0}
      /\ Fresh' /\ Named' /\ Known'
      /\ \A t \in Conditional : t # s /\ Done(t) => Done(t)'
  BY <1>1, RegisterKeeps
<1>3. Wanted'
  BY <1>1, <1>2 DEF HookInv, Wanted, Running
<1> QED BY <1>2, <1>3 DEF HookInv, TypeOK, QueuedType

LEMMA RegisteringKeeps ==
  ASSUME HookInv, PlaySong \/ HealMikau PROVE HookInv'
<1>1. ASSUME NEW s \in BodySites, ids[s] = 0, Register(s),
             UNCHANGED <<pending, on, inits, iterating>>
      PROVE  HookInv'
  <2>1. pending' \in SUBSET QueuedType /\ \A p \in pending' : p.id < nextHookId
    BY <1>1 DEF HookInv, TypeOK, QueuedType, Fresh
  <2>2. \A h \in hooks : Queued(h)' <=> Queued(h)
    BY <1>1 DEF Queued
  <2>3. \A h \in hooks : h.site = s => Queued(h)
    BY <1>1 DEF HookInv, Known, Kept, TypeOK, HookType
  <2> QED BY <1>1, <2>1, <2>2, <2>3, BodyKeeps
<1>2. "song" \in BodySites /\ "mikau" \in BodySites
  BY DEF BodySites
<1> QED BY <1>1, <1>2 DEF PlaySong, HealMikau, Body

LEMMA CallHookKeeps == ASSUME HookInv, CallHook PROVE HookInv'
<1> PICK h \in iterating : Idle(h) \/ Finish(h) \/ Land(h) \/ Knockback(h)
  BY DEF CallHook
<1>1. UNCHANGED <<on, inits>>
  BY DEF CallHook
<1>2. CASE Idle(h)
  <2>1. UNCHANGED <<hooks, pending, ids, nextHookId>>
    BY <1>2 DEF Idle
  <2>2. \A g \in hooks : Queued(g)' <=> Queued(g)
    BY <2>1 DEF Queued
  <2>3. iterating' \in SUBSET HookType
    BY <1>2 DEF Idle, HookInv, TypeOK
  <2> QED BY <1>1, <2>1, <2>2, <2>3, RemovingKeeps
<1>3. CASE Finish(h)
  <2>1. h.site \in BodySites
    BY <1>3 DEF Finish, BodySites
  <2>2. iterating' \in SUBSET HookType
    BY <1>3 DEF Finish, HookInv, TypeOK
  <2> QED BY <1>1, <1>3, <2>1, <2>2, UnregisteringKeeps DEF Finish
<1>4. CASE Land(h)
  <2>1. "bounce" \in BodySites
    BY DEF BodySites
  <2>2. iterating' \in SUBSET HookType
    BY <1>4 DEF Land, HookInv, TypeOK
  <2> QED BY <1>1, <1>4, <2>1, <2>2, UnregisteringKeeps DEF Land
<1>5. CASE Knockback(h)
  <2>1. /\ "bounce" \in BodySites /\ "bounce" \in Kept
        /\ ListOf["bounce"] = "hooksForID" /\ "hooksForID" \in Lists
    BY DEF BodySites, Kept, ListOf, Lists, Sites
  <2>2. Unregister("bounce", "hooksForID") /\ Register("bounce")
    BY <1>5 DEF Knockback, Body
  <2>3. iterating' \subseteq hooks'
    BY <1>5 DEF Knockback
  <2>4. /\ pending' \in SUBSET QueuedType
        /\ \A p \in pending' : p.id < nextHookId
        /\ \A g \in hooks : g.site # "bounce" => (Queued(g)' <=> Queued(g))
        /\ \A g \in hooks : g.site = "bounce" => Queued(g)'
    BY <2>1, <2>2, UnregisterKeeps
  <2> QED BY <1>1, <2>1, <2>2, <2>3, <2>4, BodyKeeps
<1> QED BY <1>2, <1>3, <1>4, <1>5

LEMMA Step == HookInv /\ [Next]_vars => HookInv'
<1> SUFFICES ASSUME HookInv, [Next]_vars PROVE HookInv'
  OBVIOUS
<1>1. CASE UNCHANGED vars
  BY <1>1 DEF vars, HookInv, TypeOK, Fresh, Named, Known, Wanted, Done, Queued,
              Running
<1> QED BY <1>1, InitSiteKeeps, LoadsKeep, ExecutionsKeep, RegisteringKeeps,
           CallHookKeeps DEF Next

-----------------------------------------------------------------------------
(* Types, in particular that no queued id and no id a site keeps is other   *)
(* than a number (HookRegistry: the maps of GameInteractor.h).             *)
THEOREM TypeCorrect == Spec => []TypeOK
<1>1. HookInv => TypeOK
  BY DEF HookInv
<1> QED BY <1>1, InitialInv, Step, PTL DEF Spec

(* For any number of loads and registrations, a conditional site has the   *)
(* hook it knows while its condition holds and none otherwise, and no      *)
(* queued id, stale or not, takes along a hook of another site             *)
(* (GameInteractor.h).                                                     *)
THEOREM AlwaysOneHookPerSite == Spec => []OneHookPerSite
<1>1. HookInv => OneHookPerSite
  <2> SUFFICES ASSUME HookInv PROVE OneHookPerSite
    OBVIOUS
  <2>1. ASSUME NEW s \in Conditional, s \notin Running
        PROVE  Live(s) = IF Cond[s] \in on
                         THEN {[id |-> ids[s], site |-> s]} ELSE {}
    <3>1. Done(s) /\ s \in Kept
      BY <2>1 DEF HookInv, Wanted, Kept
    <3>2. \A h \in Live(s) : h = [id |-> ids[s], site |-> s]
      <4> SUFFICES ASSUME NEW h \in hooks, h.site = s, ~Queued(h)
                  PROVE  h = [id |-> ids[s], site |-> s]
        BY DEF Live, HooksOf
      <4>1. h.id = ids[s]
        BY <3>1 DEF HookInv, Known
      <4> QED BY <4>1 DEF HookInv, TypeOK, HookType
    <3>3. CASE Cond[s] \in on
      BY <3>1, <3>2, <3>3 DEF Done, Live, HooksOf
    <3>4. CASE Cond[s] \notin on
      BY <3>1, <3>4 DEF Done, Live, HooksOf
    <3> QED BY <3>3, <3>4
  <2>2. ASSUME NEW s \in BodySites
        PROVE  Live(s) \subseteq {[id |-> ids[s], site |-> s]}
    <3> SUFFICES ASSUME NEW h \in hooks, h.site = s, ~Queued(h)
                PROVE  h = [id |-> ids[s], site |-> s]
      BY DEF Live, HooksOf
    <3>1. h.id = ids[s]
      BY DEF HookInv, Known, Kept
    <3> QED BY <3>1 DEF HookInv, TypeOK, HookType
  <2> QED BY <2>1, <2>2 DEF OneHookPerSite
<1> QED BY <1>1, InitialInv, Step, PTL DEF Spec

-----------------------------------------------------------------------------
(* Which of the conditional hooks a step may call.                         *)

(* A conditional hook that is registered, is not queued and has no load to *)
(* go through is the one its site knows, and is wanted.                    *)
LEMMA LiveIsWanted ==
  ASSUME HookInv, inits = <<>>, NEW h \in hooks, h.site \in Conditional, ~Queued(h)
  PROVE  Cond[h.site] \in on /\ h.id = ids[h.site]
<1>1. h.site \notin Running
  BY DEF Running
<1>2. Done(h.site) /\ h.site \in Kept
  BY <1>1 DEF HookInv, Wanted, Kept
<1> QED BY <1>2 DEF Done, HookInv, Known

(* A drain leaves none of the hooks it is executed for queued. *)
LEMMA DrainedAreLive ==
  ASSUME NEW executed, Drain(executed)
  PROVE  \A h \in hooks' : h.site \in executed => h \in hooks /\ ~Queued(h)
BY DEF Drain, HooksOf

LEMMA CallingKept ==
  ASSUME CallInv, [Next]_vars
  PROVE  Calling'
<1> USE DEF CallInv
<1>1. CASE InitSite
  <2>1. iterating' = {}
    BY <1>1 DEF InitSite, Calling
  <2> QED BY <2>1 DEF Calling
<1>2. CASE Toggle \/ LoadPreset \/ SaveLoad \/ SceneInit
  <2>1. iterating' = {}
    BY <1>2 DEF Toggle, LoadPreset, SaveLoad, SceneInit, Load, Quiet
  <2> QED BY <2>1 DEF Calling
<1>3. CASE FrameStart \/ FrameUpdate \/ Draw \/ PlaySong \/ HealMikau
  <2>1. iterating' = {}
    BY <1>3 DEF FrameStart, FrameUpdate, Draw, PlaySong, HealMikau, Quiet, Execute
  <2> QED BY <2>1 DEF Calling
<1>4. ASSUME NEW actor \in Actors, StartUpdate(actor)
      PROVE  Calling'
  <2>1. /\ inits' = <<>> /\ Drain(Group[actor])
        /\ iterating' = {h \in hooks' : h.site \in Group[actor]}
    BY <1>4 DEF StartUpdate, Quiet
  <2>2. Group[actor] \in {Group["player"], Group["zog"]}
    BY DEF Actors, Group
  <2>3. \A h \in hooks' : Queued(h)' <=> Queued(h)
    BY <2>1, <2>2, DrainKeeps
  <2>4. ASSUME NEW h \in iterating', h.site \in Group["player"],
               NEW g \in hooks', g.site = "checkQueue"
        PROVE  ~Queued(g)'
    <3>1. Group[actor] = Group["player"]
      BY <2>1, <2>2, <2>4 DEF Group
    <3>2. g.site \in Group[actor]
      BY <2>4, <3>1 DEF Group
    <3> QED BY <2>1, <2>3, <3>2, DrainedAreLive
  <2> QED BY <2>1, <2>2, <2>4 DEF Calling
<1>5. CASE CallHook
  <2> PICK h \in iterating : Idle(h) \/ Finish(h) \/ Land(h) \/ Knockback(h)
    BY <1>5 DEF CallHook
  <2>1. inits' = <<>>
    BY <1>5 DEF CallHook, Calling
  <2>2. CASE Idle(h)
    BY <2>1, <2>2 DEF Idle, Calling, Queued
  <2>3. ASSUME NEW s \in BodySites, Unregister(s, "hooksForID")
        PROVE  \A g \in hooks : g.site = "checkQueue" => (Queued(g)' <=> Queued(g))
    <3>1. s # "checkQueue" /\ "hooksForID" \in Lists /\ ListOf[s] = "hooksForID"
      BY DEF BodySites, Lists, ListOf, Sites
    <3> QED BY <2>3, <3>1, UnregisterKeeps
  <2>4. CASE Finish(h) \/ Land(h)
    <3>1. \A g \in hooks : g.site = "checkQueue" => (Queued(g)' <=> Queued(g))
      BY <2>3, <2>4 DEF Finish, Land, BodySites
    <3>2. iterating' \subseteq iterating /\ hooks' = hooks
      BY <2>4 DEF Finish, Land
    <3> QED BY <2>1, <3>1, <3>2 DEF Calling
  <2>5. CASE Knockback(h)
    <3>1. \A g \in hooks : g.site = "checkQueue" => (Queued(g)' <=> Queued(g))
      BY <2>3, <2>5 DEF Knockback, BodySites
    <3>2. /\ iterating' \subseteq {g \in hooks' : g.site \in Group["player"]}
          /\ h.site \in Group["player"]
          /\ \A g \in hooks' : g \in hooks \/ g.site = "bounce"
      BY <2>5 DEF Knockback, Body, Register, Group
    <3>3. \A g \in hooks : g.site = "checkQueue" => ~Queued(g)
      BY <3>2 DEF Calling
    <3>4. \A g \in hooks' : g.site = "checkQueue" => ~Queued(g)'
      BY <3>1, <3>2, <3>3
    <3> QED BY <2>1, <3>2, <3>4 DEF Calling
  <2> QED BY <2>2, <2>4, <2>5
<1>6. CASE UNCHANGED vars
  BY <1>6 DEF vars, Calling, Queued
<1> QED BY <1>1, <1>2, <1>3, <1>4, <1>5, <1>6 DEF Next

-----------------------------------------------------------------------------
(* The publisher.                                                          *)

(* Nothing that leaves the publisher's hook, its flag and its queue alone, *)
(* or begins a load, disturbs it.                                          *)
LEMMA PublisherLeftAlone ==
  ASSUME Publisher,
         \A p \in pending' : p \in pending \/ p.type # "publish",
         \A h \in hooks' : h \in hooks \/ h.site # "publish",
         \A h \in hooks : h \in hooks' \/ h.site # "publish",
         ids'["publish"] = ids["publish"],
         "publish" \in Running => "publish" \in Running' \/ ids["publish"] # 0
  PROVE  Publisher'
<1>1. HooksOf({"publish"})' = HooksOf({"publish"})
  BY DEF HooksOf
<1>2. \A p \in pending' : p.type # "publish"
  BY DEF Publisher
<1> QED BY <1>1, <1>2 DEF Publisher

LEMMA OthersTypes ==
  /\ \A s \in CondSites \cup BodySites : TypeOf[s] # "publish" /\ s # "publish"
  /\ \A s \in Nameless : s # "publish"
  /\ TypeOf["publish"] = "publish"
BY DEF CondSites, Cond, BodySites, Nameless, TypeOf, Sites

LEMMA OtherRegister ==
  ASSUME HookInv, NEW s \in Sites, s # "publish", Register(s)
  PROVE  /\ \A h \in hooks' : h \in hooks \/ h.site # "publish"
         /\ hooks \subseteq hooks'
         /\ ids'["publish"] = ids["publish"]
BY SiteFacts DEF Register, HookInv, TypeOK

LEMMA OtherUnregister ==
  ASSUME NEW s \in CondSites \cup BodySites, NEW list, Unregister(s, list)
  PROVE  \A p \in pending' : p \in pending \/ p.type # "publish"
BY OthersTypes DEF Unregister, Entry

LEMMA PublisherKeptByInitSite ==
  ASSUME HookInv, Publisher, InitSite
  PROVE  Publisher'
<1>0. PICK s : s = Head(inits)
  OBVIOUS
<1>1. /\ inits \in Seq(Sites) /\ inits # <<>> /\ inits' = Tail(inits) /\ s \in Sites
  BY <1>0 DEF InitSite, HookInv, TypeOK
<1>2. s # "publish" /\ "publish" \in Running => "publish" \in Running'
  <2> SUFFICES ASSUME s # "publish", NEW i \in DOMAIN inits, inits[i] = "publish"
              PROVE  "publish" \in Running'
    BY DEF Running
  <2>2. i \in 1 .. Len(inits) /\ i # 1
    BY <1>0, <1>1
  <2>3. i - 1 \in DOMAIN inits' /\ inits'[i - 1] = inits[i]
    BY <1>1, <2>2
  <2> QED BY <2>3 DEF Running
<1>3. CASE s \in CondSites /\ Rehook(s)
  <2>1. \A p \in pending' : p \in pending \/ p.type # "publish"
    BY <1>3, OtherUnregister DEF Rehook
  <2>2. s # "publish"
    BY <1>3, OthersTypes
  <2>3. CASE Register(s)
    BY <1>1, <1>2, <2>1, <2>2, <2>3, OtherRegister, PublisherLeftAlone
  <2>4. CASE hooks' = hooks /\ (ids' = ids \/ ids' = [ids EXCEPT ![s] = 0])
    <3>1. ids'["publish"] = ids["publish"]
      BY <2>2, <2>4, SiteFacts DEF HookInv, TypeOK
    <3> QED BY <1>2, <2>1, <2>2, <2>4, <3>1, PublisherLeftAlone
  <2> QED BY <1>3, <2>3, <2>4 DEF Rehook
<1>4. CASE s = "publish" /\ RegisterPublisher
  <2>1. CASE ids["publish"] # 0
    BY <1>4, <2>1, PublisherLeftAlone DEF RegisterPublisher
  <2>2. CASE ids["publish"] = 0
    <3>0. Register("publish") /\ pending' = pending
      BY <1>4, <2>2 DEF RegisterPublisher
    <3>1. /\ hooks' = hooks \cup {[id |-> nextHookId, site |-> "publish"]}
          /\ ids'["publish"] = nextHookId /\ nextHookId # 0 /\ pending' = pending
      BY <3>0, SiteFacts, OthersTypes DEF Register, HookInv, TypeOK
    <3>2. \A h \in hooks : h.site # "publish"
      BY <2>2 DEF Publisher, HooksOf
    <3> QED BY <3>1, <3>2 DEF Publisher, HooksOf
  <2> QED BY <2>1, <2>2
<1>5. CASE s \in Nameless /\ Register(s) /\ UNCHANGED pending
  <2>1. s # "publish"
    BY <1>5, OthersTypes
  <2> QED BY <1>1, <1>2, <1>5, <2>1, OtherRegister, PublisherLeftAlone
<1> QED BY <1>0, <1>3, <1>4, <1>5 DEF InitSite

LEMMA PublisherKept ==
  ASSUME HookInv, Publisher, [Next]_vars
  PROVE  Publisher'
<1>0. \A h \in hooks : h.site = "publish" => ~Queued(h)
  BY OthersTypes DEF Publisher, Queued
<1>1. CASE InitSite
  BY <1>1, PublisherKeptByInitSite
<1>2. CASE Toggle \/ LoadPreset \/ SaveLoad \/ SceneInit
  <2>1. UNCHANGED <<hooks, pending, ids>> /\ inits = <<>>
    BY <1>2 DEF Toggle, LoadPreset, SaveLoad, SceneInit, Load, Quiet
  <2>2. "publish" \notin Running
    BY <2>1 DEF Running
  <2> QED BY <2>1, <2>2, PublisherLeftAlone
<1>3. CASE FrameStart
  <2>1. /\ hooks' = {h \in hooks : ~Queued(h)} /\ pending' = {}
        /\ UNCHANGED <<ids, inits>>
    BY <1>3 DEF FrameStart, RemoveAllQueuedHooks
  <2> QED BY <1>0, <2>1, PublisherLeftAlone DEF Running
<1>4. ASSUME NEW executed, Drain(executed), UNCHANGED <<ids, inits>>
      PROVE  Publisher'
  <2>1. hooks' \subseteq hooks /\ pending' \subseteq pending
        /\ \A h \in hooks : h \notin hooks' => Queued(h)
    BY <1>4 DEF Drain, HooksOf
  <2> QED BY <1>0, <1>4, <2>1, PublisherLeftAlone DEF Running
<1>5. CASE FrameUpdate \/ Draw
  BY <1>4, <1>5 DEF FrameUpdate, Draw, Execute
<1>6. ASSUME NEW actor \in Actors, StartUpdate(actor)
      PROVE  Publisher'
  BY <1>4, <1>6 DEF StartUpdate
<1>7. CASE PlaySong \/ HealMikau
  <2>1. PICK s \in {"song", "mikau"} : Register(s) /\ UNCHANGED <<pending, inits>>
    BY <1>7 DEF PlaySong, HealMikau, Body
  <2>2. s \in Sites /\ s # "publish"
    BY SiteFacts DEF BodySites
  <2> QED BY <2>1, <2>2, OtherRegister, PublisherLeftAlone DEF Running
<1>8. CASE CallHook
  <2> PICK h \in iterating : Idle(h) \/ Finish(h) \/ Land(h) \/ Knockback(h)
    BY <1>8 DEF CallHook
  <2>1. inits' = inits
    BY <1>8 DEF CallHook
  <2>2. CASE Idle(h)
    BY <2>1, <2>2, PublisherLeftAlone DEF Idle, Running
  <2>3. CASE Finish(h)
    <3>1. h.site \in BodySites /\ h.site # "publish"
      BY <2>3 DEF Finish, BodySites
    <3>2. ids'["publish"] = ids["publish"] /\ hooks' = hooks
      BY <2>3, <3>1, SiteFacts DEF Finish, HookInv, TypeOK
    <3> QED BY <2>1, <2>3, <3>1, <3>2, OtherUnregister, PublisherLeftAlone
              DEF Finish, Running
  <2>4. CASE Land(h)
    <3>1. "bounce" \in BodySites
      BY DEF BodySites
    <3> QED BY <2>1, <2>4, <3>1, OtherUnregister, PublisherLeftAlone
              DEF Land, Running
  <2>5. CASE Knockback(h)
    <3>1. "bounce" \in BodySites /\ "bounce" \in Sites /\ "bounce" # "publish"
      BY SiteFacts DEF BodySites
    <3>2. Register("bounce") /\ Unregister("bounce", "hooksForID")
      BY <2>5 DEF Knockback, Body
    <3> QED BY <2>1, <3>1, <3>2, OtherUnregister, OtherRegister, PublisherLeftAlone
              DEF Running
  <2> QED BY <2>2, <2>3, <2>4, <2>5
<1>9. CASE UNCHANGED vars
  BY <1>9, PublisherLeftAlone DEF vars, Running
<1> QED BY <1>1, <1>2, <1>3, <1>5, <1>6, <1>7, <1>8, <1>9 DEF Next

-----------------------------------------------------------------------------
LEMMA InitialCallInv == Init => CallInv
<1> SUFFICES ASSUME Init PROVE CallInv
  OBVIOUS
<1>1. Calling
  BY DEF Init, Calling
<1>2. Publisher
  <2>1. "publish" \in Running
    <3>1. Len(StartUp) = 7 /\ StartUp[1] = "publish"
      BY DEF StartUp
    <3> QED BY <3>1, Functions DEF Init, Running
  <2>2. ids["publish"] = 0
    BY SiteFacts DEF Init
  <2> QED BY <2>1, <2>2 DEF Init, Publisher, HooksOf
<1> QED BY <1>1, <1>2, InitialInv DEF CallInv

(* The invariant of what may be called. *)
THEOREM CallInvariant == Spec => []CallInv
<1>1. CallInv /\ [Next]_vars => CallInv'
  BY Step, CallingKept, PublisherKept DEF CallInv
<1> QED BY <1>1, InitialCallInv, PTL DEF Spec

LEMMA CallsAreWanted ==
  ASSUME CallInv, RunsOnlyWanted, [Next]_vars
  PROVE  RunsOnlyWanted'
<1> USE DEF CallInv
<1>1. CASE ran' = {}
  BY <1>1 DEF RunsOnlyWanted
<1>2. ASSUME NEW executed, Quiet, Execute(executed)
      PROVE  RunsOnlyWanted'
  <2>1. ASSUME NEW h \in ran', h.site \in Conditional
        PROVE  Cond[h.site] \in on' /\ h.id = ids'[h.site]
    <3>1. h \in hooks /\ ~Queued(h) /\ inits = <<>>
      BY <1>2, <2>1, DrainedAreLive DEF Execute, Quiet
    <3> QED BY <1>2, <2>1, <3>1, LiveIsWanted DEF Execute
  <2> QED BY <2>1 DEF RunsOnlyWanted
<1>3. CASE FrameUpdate \/ Draw
  BY <1>2, <1>3 DEF FrameUpdate, Draw
<1>4. CASE CallHook
  <2>1. PICK h \in iterating :
          /\ Idle(h) \/ Finish(h) \/ Land(h) \/ Knockback(h)
          /\ ran' = {h} \cap HooksOf(Watched)
    BY <1>4 DEF CallHook
  <2>2. SUFFICES ASSUME h \in hooks, h.site \in Conditional
                 PROVE  Cond[h.site] \in on' /\ h.id = ids'[h.site]
    BY <2>1 DEF RunsOnlyWanted, HooksOf
  <2>3. /\ h.site = "checkQueue" /\ inits = <<>>
        /\ Cond[h.site] \in on /\ h.id = ids[h.site]
    <3>1. h.site = "checkQueue" /\ h.site \in Group["player"]
      BY <2>2 DEF Calling, Conditional, Group
    <3>2. ~Queued(h) /\ inits = <<>>
      BY <2>2, <3>1 DEF Calling
    <3> QED BY <2>2, <3>1, <3>2, LiveIsWanted
  <2>4. on' = on /\ ids'["checkQueue"] = ids["checkQueue"]
    <3>1. on' = on
      BY <1>4 DEF CallHook
    <3>2. \/ ids' = ids
          \/ \E s \in BodySites : ids' = [ids EXCEPT ![s] = 0]
          \/ Register("bounce")
      BY <2>1 DEF Idle, Finish, Land, Knockback, Body, BodySites
    <3>3. "checkQueue" \notin BodySites /\ "checkQueue" # "bounce"
      BY DEF BodySites
    <3>4. "checkQueue" \in Sites
      BY DEF Sites, CondSites, Cond
    <3> QED BY <3>1, <3>2, <3>3, <3>4 DEF Register, HookInv, TypeOK
  <2> QED BY <2>3, <2>4
<1>5. CASE UNCHANGED vars
  BY <1>5 DEF vars, RunsOnlyWanted
<1>6. CASE \/ InitSite \/ Toggle \/ LoadPreset \/ SaveLoad \/ SceneInit
           \/ FrameStart \/ PlaySong \/ HealMikau
           \/ \E actor \in Actors : StartUpdate(actor)
  BY <1>1, <1>6 DEF InitSite, Toggle, LoadPreset, SaveLoad, SceneInit, Load,
                    FrameStart, PlaySong, HealMikau, StartUpdate
<1> QED BY <1>3, <1>4, <1>5, <1>6 DEF Next

(* Whatever is loaded, switched and called in whatever order, a            *)
(* conditional hook is called only while its condition holds, and only the *)
(* one its site knows (the drain at the head of ExecuteHooks).             *)
THEOREM OnlyWantedHooksRun == Spec => []RunsOnlyWanted
<1>1. Init => RunsOnlyWanted
  BY DEF Init, RunsOnlyWanted
<1>2. CallInv /\ RunsOnlyWanted /\ [Next]_vars => RunsOnlyWanted'
  BY CallsAreWanted
<1> QED BY <1>1, <1>2, CallInvariant, PTL DEF Spec

(* A frame that ends publishes the snapshot exactly once, whatever was     *)
(* loaded and queued before it (SnapshotPublisher.cpp:215-229).            *)
THEOREM FramePublishesOnce == Spec => PublishesOncePerFrame
<1>1. ASSUME CallInv, [Next]_vars, stage = "play", stage' = "menu"
      PROVE  Cardinality({h \in ran' : h.site = "publish"}) = 1
  <2>1. FrameUpdate
    <3>1. ASSUME ~FrameUpdate PROVE stage' = stage \/ stage' = "play"
      BY <1>1, <3>1
         DEF Next, InitSite, Toggle, LoadPreset, SaveLoad, SceneInit, Load,
             FrameStart, Draw, PlaySong, HealMikau, StartUpdate, CallHook, vars
    <3> QED BY <1>1, <3>1
  <2>2. /\ Drain({"publish"}) /\ inits = <<>>
        /\ ran' = {h \in hooks' : h.site \in {"publish"} \cap Watched}
    BY <2>1 DEF FrameUpdate, Execute, Quiet
  <2>3. \A h \in hooks : h.site = "publish" => ~Queued(h)
    BY <1>1, OthersTypes DEF CallInv, Publisher, Queued
  <2>4. hooks' = hooks
    BY <2>2, <2>3 DEF Drain, HooksOf
  <2>5. HooksOf({"publish"}) = {[id |-> ids["publish"], site |-> "publish"]}
    BY <1>1, <2>2 DEF CallInv, Publisher, Running
  <2>6. {h \in ran' : h.site = "publish"} = HooksOf({"publish"})
    BY <2>2, <2>4 DEF HooksOf, Watched
  <2>7. Cardinality({[id |-> ids["publish"], site |-> "publish"]}) = 1
    BY FS_Singleton
  <2> QED BY <2>5, <2>6, <2>7
<1>2. CallInv /\ [Next]_vars =>
        [stage = "play" /\ stage' = "menu" =>
           Cardinality({h \in ran' : h.site = "publish"}) = 1]_vars
  BY <1>1
<1> QED BY <1>2, CallInvariant, PTL DEF Spec, PublishesOncePerFrame
=============================================================================
