# A verification development for Termina DS

Termina DS runs *The Legend of Zelda: Majora's Mask* (the 2 Ship 2 Harkinian
port) on Android handhelds with two screens: the game on the top screen, a
companion UI (HUD, pause menu, options) on the bottom one.  The port itself is
inherited; the program's own core is the bridge between the two screens, and
that is what this directory models, model-checks and proves about.

Paths below are relative to the repository, and `mm/` in Kotlin paths stands for
`Android/app/src/main/java/com/terminads/mm/`.

## 1. Inventory

Three threads matter.  The **game thread** runs the engine and, at the end of every
frame, a hook that drains commands and publishes a snapshot.  The **Android main
thread** runs the bottom screen's UI, the display listener and the activity's
callbacks.  The **audio thread** makes the sound buffers of a frame while the game
thread draws it.  Commands travel one way through a lock-free ring, state the other way
through a sequence lock; nothing blocks in either direction, and neither side
ever trusts that something took effect before it has seen it.  Apart from the bridge,
the port replaces the cartridge's flash memory by JSON files, which is where the
player's progress lives and where a process that is killed can do harm; and it grows the
game by hooks, which modules register and remove as options, presets, saves and
scenes come and go.  The randomizer gives its items through such hooks and a queue
of events.

| component | state | operations | talks to |
|---|---|---|---|
| **Command mailbox** `mm/2s2h/TerminaDS/CommandMailbox.cpp` | 16 slots, `sHead`, `sTail` (free-running, 32 bits) | `TerminaDS_SubmitCommand` (validate, reserve, fill, publish), `TerminaDS_DrainCommands` | CommandBridge on one side, the frame hook on the other |
| **Snapshot publisher/reader** `SnapshotPublisher.cpp` | `sSeq`, `sValues[]`, `sFrameCounter` | `Publish`, `TerminaDS_ReadSnapshot` (four attempts) | game state → poller |
| **Poller** `mm/GameSnapshotPoller.kt` | last snapshot, last counter, when it changed | `poll`, classification into fault / no frames / live / stalled | NativeBridge → host |
| **Host** `mm/secondscreen/SecondScreenHost.kt` with `PauseRequestTracker`, `PauseNavState`, `CVarSaveDebouncer` | bridge state, request in flight, its failure, the view, the save that is due | poll loop every 100 ms; taps: pause, resume, options, back, rows | CommandBridge, Compose |
| **Game thread** `game.c`, `z_pause.c`, `z_play.c`, `CommandMailbox.cpp: Apply` | play state, frame advance flag, save slot, menus, CVars | frame: main, hooks, drain, publish | both channels |
| **Second-screen manager** `mm/secondscreen/SecondScreenManager.kt`, `DisplaySelectionPolicy.kt` | started, Presentation, the display it shows | `start`, `stop`, `onActivityResume`, display callbacks, `refresh` | DisplayManager, Presentation, reporter |
| **Refresh-rate reporter** `MainDisplayRefreshReporter.kt`, `DisplayRefresh.cpp` | last reported rate; the rate the game uses | `refresh`; `TerminaDS_SetDisplayRefreshHz` | manager → ring → frame pacing |
| **Presentation** `SecondScreenPresentation.kt`, `PresentationLifecycleOwner.kt` | one poller, tracker and composition each | create, start, stop | owned by the manager |
| **Screens** `GameplayScreen.kt`, `PauseMenuScreen.kt`, `OptionsScreen.kt`, `HudModel.kt`, `OptionsModel.kt` | none | layout and text | host |
| **Pause veil** `PauseVeil.cpp` | fonts | draws over the top screen | frame advance flag |
| **Activity and asset setup** `MainActivity.java`, `AssetCopyUtil.java` | setup progress, dialogs | lifecycle, file copies, controller input | manager |
| **Hook registry** `GameInteractor.h`, `GameInteractor.cpp` | the hooks of each kind, by id and by actor; ids waiting to be removed; each site's own id | register, unregister (queued), execute, clean up every frame | every enhancement |
| **Audio hand-off** `BenPort.cpp` | `audio.{running,processing}`, mutex, two condition variables | start a buffer, wait for it, exit | game thread ↔ audio thread |
| **Audio commands** `audio/lib/thread.c`, `audio/sequence.c`, `audio/lib/heap.c` | a ring of 256 commands, a queue of 4 messages, the state of a heap reset on both sides | queue, schedule, process; reset the heap in stages; announce its end | game thread → audio thread and back |
| **Item events** `GameInteractor.cpp`, `CustomItem.cpp`, `Rando/MiscBehavior/CheckQueue.cpp`, `Traps.cpp` | `events`, `currentEvent`, the queue's flag, the item actors, what the save owes | mark a check, queue, process, give, put back, spring a trap; save, load, change scene | hooks; player; save |
| **Save files** `SaveManager.cpp`, `z_sram_NES.c`, `SavingEnhancements.cpp` | a main and a backup JSON file per slot, each with a new-cycle save and an owl save; the slots the file select lists | flash reads and writes, verification and repair, init, copy, erase, open, the game's saves, import | file system; engine, enhancements |
| **Presets, ShipInit** `PresetManager.cpp`, `ShipInit.hpp` | registration functions | apply a preset, register again | CVars, hook registry |
| engine, enhancements, randomizer, ZAPDTR, OTRExporter, SDL Java | | | not this development's subject |

What is hard here, and hard to test:

* two threads over plain memory: slot contents ordered only by the counters'
  acquire/release pairs, a multi-word snapshot ordered only by fences;
* counters that wrap, a ring that is full, a drain that must stay bounded;
* a UI that is always behind: the snapshot it shows is older than the game, the
  screen it shows is older than its own state, and taps arrive on both;
* requests that time out, are answered late, are replaced, or meet a full ring,
  and a save that nothing acknowledges;
* displays that vanish between two steps of one callback, and callbacks that come
  after their cause has changed again;
* save files rewritten in place: a process killed inside a write, between the main
  and the backup, or while repairing what the last kill left;
* two threads that wait for each other under one mutex and may wake without a
  cause, and a heap reset that crosses both of them in the middle of other commands;
* hooks that register and remove hooks of their own kind while hooks run, and
  registrations that run again in any order;
* an item that is on its way for dozens of frames, through a queue, an actor and its
  destroy callback, while the scene, the player or the whole save may change.

Correctness, per component: the mailbox is a bounded FIFO queue, race-free, its
drain bounded, its accepted commands applied.  The snapshot is a register of whole
frames, its reads wait-free.  The host never shows a request that nobody tracks,
shows failures where they belong, never loses a save, and converges to the game's
state.  The last accepted request wins.  The manager settles on the right display.
The save files hold slots that change as a whole; no save is lost except on purpose,
and no slot disturbs another.  The threads of the audio exclude each other and never
wait for ever, and a reset of the heap loses no command.  A hook site has the one
hook its condition calls for.  What the player is owed is given once, and in the end
it is given.

## 2. Plan and modules

Written in this order; an arrow means "uses".

| module | role |
|---|---|
| `CommandQueue` | abstract: a bounded FIFO queue |
| `CommandMailbox` → `CommandQueue` | the ring, one action per shared-memory access |
| `FrameRegister` | abstract: a register of frames |
| `SnapshotSeqlock` → `FrameRegister` | the sequence lock, one action per access |
| `SecondScreenHost` | the UI host, its environment a parameter of its actions |
| `GameThread` | the game as the bottom screen can tell it |
| `SecondScreen` → `GameThread`, `SecondScreenHost` | the composition |
| `SecondScreenManager` | displays, Presentation, refresh rate |
| `SaveSlots` | abstract: slots that change one at a time and as a whole |
| `SaveFiles` → `SaveSlots` | the files, one action per handler, open and close of a file |
| `AudioCommands` | the command ring, its messages and the heap reset on both sides |
| `AudioThread` → `AudioCommands` | the hand-off of the two threads, with what each does to the commands |
| `ItemLedger` | abstract: what is owed and given, by thing |
| `ItemEvents` → `ItemLedger` | event queue, item actors, check queue, save and load |
| `HookRegistry` | the registry with the sites that use it each in its own way |
| `CommandMailboxProofs`, `SnapshotSeqlockProofs`, `SecondScreenProofs` (host and composition), `SecondScreenManagerProofs`, `SaveFilesProofs`, `AudioThreadProofs`, `ItemEventsProofs`, `HookRegistryProofs` | theorems |
| `MC…` | values of the constants for TLC |

`CommandMailbox` and `SnapshotSeqlock` are proved equivalent to their abstract
specifications, so that the modules above them use the abstraction: `GameThread`'s
ring is a sequence and its snapshot one value.

### How state and actions correspond to the code

**CommandMailbox.**  `head` and `tail` count stores; the word in memory is
`Wrap(head)`, `Wrap(tail)`, and all the code's arithmetic is done on the wrapped
words.  A store of one side becomes visible to the other later (`SeeTail`,
`SeeHead`).  The slots are plain memory: `freed` and `filled` say which accesses
*happen before* the next step of the producer and of the consumer, and grow only
where an acquire load reads a release store.  A read of a slot that is not so
ordered is a data race, and returns anything (`Loads`).  `SubmitInvalid`,
`SubmitFull`, `SubmitReserve`, `StoreOp`, `StoreArg`, `StoreTail` are the lines of
`TerminaDS_SubmitCommand`; `DrainBegin`, `ApplyReadOp`, `ApplyEffect`, `DrainEnd`
those of `TerminaDS_DrainCommands`.  `a`, `b` and `name` are one argument; which
submissions are malformed is a constant.

**SnapshotSeqlock.**  A store is identified by its place in the order of stores to
its location.  A load returns any store not older than what the reading thread
must already see (`seqSeen`, `slotSeen`); acquire loads and the two fences raise
these bounds and nothing else orders two locations, so every outcome the C++
memory model allows this program is explored, in particular new values under an
old sequence number.  Slots are stored and copied in any order (the code's is one
of them).  The value of slot *i* in frame *n* is represented by *n*.

**SecondScreenHost.**  Every action runs on the main thread and is atomic.
`Poll(r, s)` is one round of the loop: the native read `r` is classified by the
poller, a due save is submitted with status `s`, the pause observation goes to
navigation, tracker and failure.  `Recompose` is a separate action: Compose shows
a changed state on a later display frame, and until then taps land on the old
`screen`.  A poll waits for the composition of the one before (100 ms against
16 ms).  Time is `Tick`: the ages of the last frame change, of the request and of
the save, in a common divisor of the three delays.  `Reshow` is a new Presentation.

**GameThread.**  `PlayInit`, `PlayDestroy`, `ToggleFrameAdvance`, `ChooseSave`,
`ToggleMenu` are what the engine's own main step may change between two
publications; `DrainBegin`, `Apply`, `DrainEnd`, `Publish` are the hook, with
submissions interleaved.  `unsaved` says that a CVar set by command is not yet in
the configuration file.

**SecondScreenManager.**  The displays change at any time and leave messages in the
main thread's queue.  `Refresh` reads the displays as they are when it runs; `Show`
is separate, since the display can go in between (the code's `try`/`catch`).  A
Presentation whose display was removed cancels itself (`OnCancel`).  `OtherCommand` is
another command of the main thread, so that `Report` may meet a full ring; `dropped` is
a history, whether the last report did.

**SaveFiles.**  A save is a number, in the order the game makes them; 0 is none.  A
handler of the game thread is atomic but for its writes, which it lists in `pending`;
`StartWrite` opens the next file, which truncates it (`Torn`), `EndWrite` closes it
with its contents, and only `Crash` comes between.  `VerifyNewCycle`, `VerifyOwl` and
`VerifyHeader` are the iterations of the loop of `func_801457CC`, which reads both
files of a slot (a torn one is renamed away) and repairs the slot; they run after
every start and reset.  `OwlSave` and `UpdateWriteToFlashOwlSave` are the two frames
of an owl save.  `MoonCrashSave` leaves open which of the two hooks runs first.  The
saves a restart would list, `Recovered`, are what the properties speak of.  A save
that only the file now open held and will hold again (`SoleCopyOpen`), the other file
of the slot having none or only an older one, counts as there while it is
rewritten; `SoleCopyCrashes` names the phases in which the process may die in such a
moment, and so whether a crash may observe the difference.  What of a save is written, its checksum and
migrations are not represented, and an imported file holds a new-cycle save only.
`SaveSlots` lets a slot fall back from an owl save to an older one only where
`OldReturn` says so, which `SaveFiles` sets to `AutoSaves`: an autosave rewrites the
main file only, so when an owl save is removed in two writes, the older one of the
backup is what a restart finds between them.

**AudioCommands.**  The operators on the ring (`QueueCmd`, `Schedule`, `ProcessCmds`
and what is made of them) take and return the record `ring`, so that a handler is
the composition of its calls, as in the code.  Positions are the code's bytes,
modulo `RingSize`.  A command is what the audio thread does with it: `RESET`,
`STOP`, `INIT` (the sound effects' player), and `PLAY` for every other one.
`AudioUpdate` is one call of `Audio_Update`: it takes up the heap resets that were
asked for, lets a reverb fade, or waits for the announcement of the end.
`CreateNextAudioBuffer` is one call on the other thread: a stage of the reset, then
the messages.  `SetSpec` and `QueueOutside` are the calls the rest of the game makes
outside the update, the second with the `STOP` of `Audio_StartAmbience`; `MaxCalls`
bounds them.  `ResetAudioHeap` has the branches for a reset that is under way: it empties
the queue, redirects the specification, or sends nothing.  `wanted` and `ring.owed`
are histories, and so is `mishaps`, the ways in which a reset has been asked for that the
protocol does not survive: its update's last message met a full queue of messages
(`crowded`), one update took up two resets (`twice`), or another one was under way
(`met`).

**AudioThread.**  A step is one critical section of the mutex of `BenPort.cpp`, or
what lies between two.  A thread that waits on a condition variable may wake without
a cause (`Spurious`); the audio thread's work is a step per buffer, the mutex held.
`StopRunning` and `Exited` are `OTRAudio_Exit` with its join.  `Logic` is the game's
own part of a frame: calls in any number and order among one or more updates, since
`GameState_Destroy` updates once more before the next buffer (`MaxUpdates`).

**ItemEvents.**  `Mark`, `QueueGift`, `QueueMove` put things in; `CheckQueue` and
`ProcessEvents` are the two hooks of the player's update, in either order; an item
actor goes through the stages waiting, held or shown, given, killed, deleted
(`ItemUpdate`, `TakeOffer`, `DeleteItem`), and `Destroy` is its destroy callback.
`Occupy`, `LeaveScene`, `StartTransition` interrupt it; `SaveGame`, `Quit` and
`OnSaveLoad` change the save under it.  `given` counts calls of `giveItem`.
`GIEventSpawnActor` is queued by nothing in the repository and left out.

**HookRegistry.**  A hook is its id and its site.  The sites are the ones that use the
registry each in a way of its own: `COND_HOOK` (`bar`), `COND_ID_HOOK` (`limb`,
`checkQueue`), the wrong list (`border`), no removal at all (`health`), a static
guard (`publish`), hooks registered from the body of a hook (`bounce`, `song`,
`mikau`).  `Load` starts the registrations that a preset, an option, a save or a
scene causes, `InitSite` is one of them; `FrameStart`, `FrameUpdate` and the rest are
the frame, which executes the kinds; `CallHook` calls one hook of an actor's update.

## 3. Runs

| run | question | states | result |
|---|---|---|---|
| `CommandMailbox` | is the ring a race-free, live FIFO queue? | 19,753 | holds |
| `SnapshotSeqlock` | are snapshots whole, ordered, wait-free? | 22,205 | holds |
| `SecondScreen` | does the last request win, does every change reach the file, do requests settle, does the screen follow the game? | 572,078 | holds |
| `SecondScreenManager` | does the UI settle on the right display, an accepted rate reach the game? | 284,182 | holds |
| `SaveFiles` | do the files implement whole and lasting slots, each its own, and is the file select right, with autosaves? | 92,963 | holds |
| `AudioThread` | do the two threads exclude each other and go on, does a heap reset lose nothing and end? | 1,618,984 | holds |
| `ItemEvents` | is everything owed given once, and in the end given? | 1,227,163 | holds |
| `HookRegistry` | has every site the one hook it should, whatever runs again? | 2,053,612 | holds |
| `RateLost` | does every rate reach the game? | | violated |
| `SettingsLost` | is a save kept when the Presentation goes? | | violated |
| `StaleNavigation` | does every pause open at the root menu? | | violated |
| `AutoSaveBackup` | does an autosave survive a crash? | | violated |

The runs leave out the type invariants that section 4 proves for every value of the
constants, and two simple safety properties that are proved as well
(`DrainBounded`, `NeverUnfinished`).

Each property of a passing run has a mutation of the modelled code (the
definitions marked *Mutation*) under which TLC finds it violated.

### Disagreements

* **RateLost.**  `MainDisplayRefreshReporter.kt:17-18` remembers the rate before it
  submits it and drops the status.  If the ring is full at that moment the game keeps
  pacing by the old rate until the rate changes again; `docs/HANDOFF.md:381-382` says a
  dropped command "self-corrects on the next poll".  The passing run checks what the
  code does keep, `AcceptedRateReachesGame`, over the same full ring.
* **SettingsLost.**  The debouncer lives in the composition.  Within two seconds of
  a change, `dismiss()` (activity stopped, or the display changed its mode) drops the
  pending save; the setting stays live and is gone after a restart unless something
  else saves the CVars.
* **StaleNavigation.**  A tap on OPTIONS in the frame after the poll that saw the
  game resume sets the view again after it was reset; the next pause opens in
  Options, against `SecondScreenHostTest.observedUnpauseResetsOptionsNavigationBeforeTheNextPause`.
* **AutoSaveBackup.**  An autosave or pause save writes the main file and clears
  `isOwlSave`, so the next frame takes the path that never writes the backup.  The
  next write truncates the only copy.

More were met and have no run.

* `EnemyHealthBars.cpp:190` says its hook is registered once, and registers it at
  every preset and every change of the option.  `PersistentMasks.cpp:25` removes with
  `UnregisterGameHook` what `:83` registers for an id, so the hook stays, one more per
  scene and preset; `ActorViewer.cpp:60` and `:70` do the same with a hook for a
  pointer, and the pointer hook of `SkipLearningSongOfHealing.cpp:68` is not removed
  when the option goes.  What is left behind costs time and repeats what it did
  before, so `OneHookPerSite` leaves `border` and `health` out.
* A heap reset asked for at the wrong moment is not held back for, or never ends, against
  what `mm/include/seqcmd.h:510` says of the command, "Restart the audio heap with the
  specified settings".
  - *crowded.*  The end of a game state updates the audio a second time before the next
    buffer (`game.c:252`).  The first of the two sees the last reset over and sends three
    messages; the second takes up another reset, whose `RESET` gets the fourth place in the
    message queue and whose `STOP` gets none.  The heap is then reset while commands
    behind the `RESET` run.  Or its `RESET` gets no place either: the commands stay in the
    ring with no message, the updates that would send one wait for the end of the reset, and it
    never comes.  Without the clause for it TLC finds `ResetHoldsBack` and `ResetEnds`
    violated in the run's own bounds.
  - *twice.*  Two specifications asked for between two updates are both sent.  With one
    call more than the run has TLC finds `ResetHoldsBack` violated by these alone.
  - *met.*  A reset that meets one under way empties the queue the first is in, or
    redirects it.  TLC finds it only where one of the other two went before.

  All three are in the run's bounds, and its properties say what the code keeps: the
  protocol holds until a reset is asked for in such a way, `crowded` is the only way that
  leaves a reset without end, and only `met` abandons commands in the ring.
* `GameInteractor.cpp:503` uses the result of `Actor_Spawn` unchecked.

A slot whose main file is torn is repaired by a
write that starts with the backup, so that for a moment no whole copy exists; with
`SoleCopyCrashes = {"verify"}` and without autosaves TLC finds `LostOnlyOnPurpose`
violated by a second crash there.  With autosaves the slots change as a whole only in
the weaker sense of `OldReturn`: an autosave leaves the backup of an earlier owl save
in place, which reappears when the main file is torn or its copy removed.  And Options has no
failure hint, though its RESUME PLAY has "the same ack loop" in the phase 4 settings
design, where "a lost command is visible, never silent".

`z_kaleido_scope_NES.c:3601` and `:3879` index the page tables by the slot without the
factor of two that every other use has.  The first needs Pause Menu Save to be
switched off while its prompt is open, the second a prompt the engine no longer
enters; neither is modelled, and the mutation `WriteSpecialUnscaled` of
`OtherSlotsUntouched` shows what such an index does.

### Bounds, and why they are enough

* `CommandMailbox`: 2 slots, counters wrapping after 4 (two laps), 6 commands: the
  ring fills, wraps its index three times and its counters once, with both threads
  at every position relative to each other.  The proofs cover every capacity and
  word size of at least two laps.
* `SnapshotSeqlock`: 2 slots (tearing needs two), 2 attempts (one retry and the
  exhaustion), a word of 6 (three frames a lap), 4 frames: the sequence number
  wraps during the behaviour.  `NoLap` excludes 2^31 publications inside one
  attempt, about a year of frames.
* `SecondScreen`: `MaxTaps = 4`, `MaxEvents = 3`, `MaxShows = 1` bound the player, the
  game's own changes and the re-shown Presentations (which count among the taps).
  Four taps are pause, options, a row, resume, the longest path through the screens.
  The ring of 2 is full often, and lets two commands be in the wrong order.  Delays
  of 1 tick give both sides of each deadline.  The host alone is proved in any
  environment, for all delays, and its composition with the game thread for every
  ring, delay and number of taps and events.
* `SecondScreenManager`: two displays, two modes, two rates, four changes, one stop,
  the second display preferred.  The ring of 2 and two other commands make it full when
  a report comes, also in the middle of a row of reports.  `RateLost` needs two changes
  and no stop.  The proofs cover every set of displays, modes and rates and every
  capacity.
* `SaveFiles`: two slots (a copy and a foreign slot), four saves (a slot's new-cycle and
  owl save, each replaced once), two crashes, so that the second hits the repair of the
  first, with pause saves and autosaves.  A crash while a sole copy is rewritten does
  lose the save and is excluded from the run.  `AutoSaveBackup` needs one slot and one
  crash.  The proofs, the refinement's among them, cover any number of slots, saves and
  crashes, and those of `SelectShowsFiles` and `OtherSlotsUntouched` a crash at any
  moment at all.
* `AudioThread`: a ring of 16 for 256, message queue of 4 as in the code, two
  specifications, one stage of fading, one or two buffers a frame, two updates between
  two buffers, three calls of the game outside its updates: a reset in progress can be
  met by one more, two can be asked for in one update, and a `STOP` of the game's own can
  stand anywhere between.  Four messages are full with two updates.  Positions wrap
  several times.  The ring is never full in these bounds; with one too small for them TLC
  finds `RingHoldsOwed` violated, as it would be in the game with more than 255 commands in
  the updates of one reset.  The proofs cover every ring, rate and bound, the number of
  updates, calls and buffers among them.
* `ItemEvents`: two checks, one of them a trap, the other owed again in every cycle, one
  gift, two actors alive at once, three things asked for and two interruptions: an
  item may be interrupted, put back behind the others, and interrupted again, over a
  save and a load.  The proofs cover any number of each.
* `HookRegistry`: two loads (a condition goes and comes back, or two presets) and two
  hooks registered from bodies, so that a stale id meets a later hook.  The proofs
  cover any number.

### Fairness

* `CommandMailbox`: a submission once begun ends; the drain runs every frame
  (`SnapshotPublisher.cpp:231-236`, from `GameState_Update`); stores become visible
  in finite time.  Nobody is made to submit.
* `SnapshotSeqlock`: only the reader is fair.  The game thread may stop for ever,
  even inside `Publish`.
* `SecondScreen`: weak fairness of the game's frame steps, of polls, of composition
  and of time: each is a loop that always runs again.  A poll that succeeds is fair
  because a read collides only with the sub-microsecond store loop, four times in a
  row.  Taps and the world's changes are not fair.
* `SecondScreenManager`: the main thread handles its queue and ends what it began,
  the game drains.  Starting, stopping and resuming are not fair.
* `SaveFiles` states safety only and assumes no fairness.
* `AudioThread`: both threads are scheduled, and the game loop goes on to its next
  frame and its next update; nobody asks for a reset or an exit by fairness, and a
  spurious wake-up is never relied on.
* `ItemEvents`: the hooks and actors run in every frame; what occupies the player (a
  cutscene, a ride, a transition) ends.  Nobody is made to save, mark or leave.
* `HookRegistry`: the one thread runs on: frames go by and registrations end.
* Deadlock checking is on in every run.

## 4. Proofs

All proofs are for every value of the constants, under the named assumptions of the
modules (capacity at least one, at least two laps per word, an even modulus, at least
one attempt, at least one slot).

* **CommandMailboxProofs.**  `IInv` is `TypeOK`, `CounterInv` and `ContentInv`.
  `SlotAccessesOrdered` is not inductive: that a slot is free depends on the chain
  `freed <= headSeen <= head <= pos <= filled <= tailSeen <= tail <= headSeen + Capacity`,
  and `ContentInv` says that the slots between `pos` and `tail` hold the pending
  commands in order.  The wrapped comparisons reduce to the unwrapped ones because
  the differences stay below the modulus (`ModUnique`, and what follows from it).  Results: type correctness, `MailboxRaceFree`, `MailboxDrainBounded`, and
  `MailboxImplementsQueue`: every step is a step of `CommandQueue` or a stutter.
* **SnapshotSeqlockProofs.**  `IInv` adds `WriterInv` (slots are one frame ahead at
  most), `ViewInv` (what the reader must see was stored), `AttemptInv` (a slot copied
  from a newer frame leaves a debt `owed`, which the fence turns into a sequence
  number that cannot equal the first one) and `ShownInv`.  Results: type correctness,
  `SnapshotNeverTorn`, `SnapshotNeverUnfinished`, `SeqlockImplementsRegister`.
* **SecondScreenProofs.**  The first half is the host in an arbitrary environment (any
  read, any submission status at any time): `HostPendingIsTracked` and
  `HostTimeoutOnItsScreen`, from `HostIInv`, which adds that a timed-out request
  contradicts the snapshot in hand.  The second half is the host with the game thread.
  `LastRequestWins` speaks of an empty ring, so its invariant `WishInv` says of any ring
  that the last pause command in it is what the player wishes, and of one without, that
  the game is as wished (`LastWord`); `SaveIsOwed` is inductive with the types.
  `ScreenIsAHost` shows that the composition implements the host's own specification, so
  that the two theorems about the host hold of it without another proof; `WaitingIsAQueue`
  that the ring between the two changes as `CommandQueue` does.  Results: type
  correctness, `ScreenLastRequestWins`, `ScreenSaveIsOwed` and those.
* **SecondScreenManagerProofs.**  `WrongScreenIsTransient` says that something is still to
  come; the invariant says what.  A change leaves a refresh in the queue, a refresh
  decides by the displays as they are (`ChoosingHides`), a cancel that no refresh follows
  is of a display that is still gone (`CancelsAreForOne`, `CancelIsFounded`), a stopped
  activity shows nothing (`StoppedIsQuiet`), and with nothing left to handle the right
  display is shown (`SettledWhenDone`).  That the display chosen is one that is there
  needs the least of a set of display ids, from `WFMin` of WellFoundedInduction, whose
  statement is first-order.  Results: type correctness, `AlwaysTransient`.
* **SaveFilesProofs.**  With every setting and crashes at any moment:
  - type correctness and `SavesNeverMeetTorn`.  `NoWriteMeetsTorn` looks at the next write
    only; `IInv` says it of all writes to come (`PendingIsWhole`) and that a torn file is
    the open one or belongs to a slot the loop of `func_801457CC` has yet to reach
    (`TornIsUnchecked`), which is what a handler finds when it starts;
  - `SelectAlwaysShowsFiles`.  In the middle of a handler the list and the files differ, so
    `SelectInv` speaks of the files as they *will* be: `Leads(f, w, g)` says that the
    writes `w` turn the files `f` into `g`, and what is listed is what every such `g` holds;
  - `PlayLeavesOtherSlots`, from `PlayInv`: while a slot is played every write, pending or
    open, is to that slot, except for an import, which needs an empty one;
  - `OnlyASoleCopyIsLost` and, where no process dies in such a moment, `NoSaveIsLost`, with
    autosaves or without.  `KeepInv` adds that an import meets no save and that the zeros
    of a repair (`ZerosForNothing`) are written only over what no file of the slot holds.

  And `SlotsChangeAsAWhole`, the refinement of `SaveSlots`, for `AutoSaves = FALSE`, where
  `OldReturn` is off and a slot never falls back to an older save, and
  `SoleCopyCrashes = {}`, as in the run `SaveFiles`.  Both are needed: an
  autosave leaves an older backup behind, which comes back when the main file is torn,
  and a crash inside the rewriting of a sole copy loses it (section 3).  A handler's
  writes are two files of a slot, one after the other, and each of them, its opening
  (which truncates) as its closing, must map to one step of the promise or to none.  The
  invariant `RefInv` therefore says that the pending writes are a `Plan`: from the files as they are
  there is a way through them on which each write is a `GoodWrite`, one whose both moments
  the slots allow; that no file holds a save newer than the last one made (`Older`) and no
  backup of an owl save is newer than the main one (`InOrder`), so that the older copy
  that shows while the newer is open is never a third value; that an owl save whose
  backup is still to come belongs to the slot that is played (`LateIsPlayed`); and what
  the played slot's files will be when the plan is done (`PlayedWillBe`), which is what
  the next handler starts from.  Each handler then has a lemma that its list is a plan,
  composed of those of the write pairs (`Reaches`).

* **AudioThreadProofs.**  `AlwaysExclusive`: for every ring, rate and bound, the game's
  own part of a frame never runs while the audio thread works, whatever wake-ups
  occur.  The invariant ties each place of the two threads to `processing`: at `logic`
  it is false, and the audio thread can leave its wait for work only where it is true.

  `HeldWhileItFits`: `RingHoldsOwed` holds in every behaviour in which less than a ringful
  is ever owed, and, where no reset meets another, in no other.  Neither the bound on the
  message queue, nor a message that an early STOP cuts short, nor commands queued outside
  the updates, nor the wrap of the positions can lose a command; only too many of them
  can.  The prover has no induction over the length of a sequence, and
  the model folds its commands into the ring, so the first lemmas show that the
  recursive function behind a fold exists and what its steps are (`UpTo`, `FoldExists`,
  `FoldSteps`); `QueueAllSteps`, `TakeUpSteps` and `ProcessSteps` then turn each handler into a
  path of rings, and an invariant is carried along the path.  That invariant is `Holds`:
  each position from the one that starts the first message holds the command owed there
  (`RingIs`), the messages are chained, each starting where the one before ends
  (`Chained`), and the last ends no further than the write position (`EndsFrom`).
  `Distance`, the steps from one position to another, turns each of these into
  a sum without modulus as long as the sum is below the ring's size.  `TypeCorrect` goes along the
  same paths.

  `AlwaysResetHoldsBack` and `AlwaysSoundAsAsked` hold in every behaviour whose ring
  always has room for two more commands (`Roomy`; the code's has 256 places).  Nothing
  else is assumed: any number of updates, requests, outside calls with their STOPs and
  buffers may come between, and any message may find its queue full.  What the two
  properties promise ends with the first of the three mishaps, so the invariant is
  `Guarded`, which is `Protocol` as long as there was none.  `Protocol` says that at most
  one `RESET` is owed, with its `STOP` right behind it; that the audio thread will meet
  both in one message, the last of its queue, or, standing behind an earlier `STOP`, in
  whatever it does next (`Ordered`); that where no reset is awaited none is owed or under
  way; that a reset under way leaves the audio thread at its `STOP` with no message; and
  that the specification and the sound effects' player are right, or the command that
  will make them so is still owed.  That both are met in one message is what an update
  must achieve: its last message ends with the `STOP`, and begins no later than the `RESET`,
  unless `crowded` (`FinishOrders`, `OrderedLeaves`).

  The room is needed inside an update, where the ring has as yet no name in the state.
  A ring without it (`Wide`) stays so under every operation of the game thread
  (`WideKept`), so that one with room at the end of the update had it all along; the lemmas
  about the parts of an update conclude a fact or `Wide`.  A ring is abstracted to the
  commands owed, the number of messages and how far they and the last of them reach
  (`Reach`, `LastStart`); `Adds`, `Left` and `Processed` say what an operation, and a
  buffer, does to that.
* **ItemEventsProofs.**  `ActorInv` is `TypeOK` and `Linked`, which is inductive with the
  stages of the actors that the types record: an actor past its gift has been called,
  one before it has not.  `RandoInv` adds what the check queue's flag stands for: it is
  set exactly while one event of a check is on its way, be it in the queue, current, or
  with an actor that has still to give (`OneQueued`), and that check is still owed
  (`Earned`), whatever a load or a change of scene puts back.
  `LedgerIsKept` maps each step to one of `ItemLedger` or to none: what a thing is owed
  moves between the queue, the current event, the actor and the save, and is counted once
  in each state.  Results: `AlwaysTypeOK`, `AlwaysLinked`, `AlwaysOneRandoItem`,
  `LedgerIsKept`.
* **HookRegistryProofs.**  `OneHookPerSite` speaks of hooks not queued; it is kept only
  because every id in use is below `nextHookId` (`Fresh`), an id names one hook, and
  the id a site keeps names no other site's (`Named`), a kept site's only hook not
  queued is the one it knows (`Known`), and a registration under way has done its
  part for the sites it has passed (`Wanted`).  `CallInv` adds what the loop over the
  hooks has in hand: while hooks are still to be called nothing registers again, and those
  of the player's update are still registered with no stale one of the check queue among
  them, the drain at the head of the loop having taken it (`Calling`); and that the hook
  that publishes is registered once and never queued for removal (`Publisher`).  Results: `TypeCorrect`, `AlwaysOneHookPerSite`,
  `OnlyWantedHooksRun`, `FramePublishesOnce`.

Only model-checked: all liveness (the prover has no fairness or `ENABLED`), also where a
refinement above carries it.  Every safety property of the passing runs is a theorem,
those of the audio protocol under the hypothesis named above, the refinement of the
save files and `LostOnlyOnPurpose` under theirs (the refinement with autosaves, in
its weaker form, is only model-checked).

## 5. Not modelled

Layout, text and drawing; the HUD's and the options' pure derivations; the pause
veil; asset setup; the contents of presets; of the save files the options file,
migrations, the binary converter and writes that fail without a crash; the game, most
enhancements, the placement of items by the randomizer, and the third-party tools.
`PROJECT.json` gives the reason for each.  The decompiled game and the vendored tools
are almost all of the repository's lines; they are deterministic single-threaded game
play over large tables, with nothing in them for a model checker to explore, and this
development does not try to cover them.

In the models: one argument stands for `a`, `b` and `name`; the payload is the three
bits that route the screen; a stalled game thread appears only in the arbitrary
environment of `SecondScreenHost`; the choice of tab, category and row in Options is
left out, as is the timeout of a request while Options is shown, which has no failure
hint; the owl save that is deleted before the new cycle is written
(`SavingEnhancements.cpp:224`) is two steps of which no comment promises one; the
registry's pointer and filter maps, which work as the two that are modelled; what audio
commands other than the reset's do to the sound; items placed in a scene, which do not
go through the queue.

## 6. Next

1. Failing writes of save files; the options' pure functions (`quantize`,
   `nextSegmentValue`, row models) against reference definitions; the payload's HUD
   slots.
2. A stalled game thread in `SecondScreen`; the manager composed with the host; the
   registry composed with the item events, whose two hooks it orders.
3. The audio protocol against what scenes ask for: which of them reach a `crowded` or
   `twice` request in the game's own traffic.
