----------------------------- MODULE GameThread -----------------------------
(***************************************************************************)
(* The game thread as the bottom screen can tell it: the play state with   *)
(* its frame-advance flag, the console variables, and the hook at the end  *)
(* of every frame that drains the command ring and publishes the snapshot  *)
(* (SnapshotPublisher.cpp:231-236, CommandMailbox.cpp).                    *)
(*                                                                         *)
(* The ring is the queue that CommandMailbox.tla shows it to be; a slot is *)
(* free again when the drain that emptied it has ended.                    *)
(***************************************************************************)
EXTENDS Integers, Sequences

CONSTANTS
  Capacity,  \* TDS_CMD_QUEUE_CAPACITY (16)
  MaxEvents  \* bound: changes of the world the frames of a behaviour bring

ASSUME CapacityAssumption == Capacity \in Nat \ {0}
ASSUME EventsAssumption == MaxEvents \in Nat

(* PAUSE_SET with 1 and 0, the opcodes that set a CVar, and CVAR_SAVE.     *)
Commands == {"pause", "resume", "set", "save"}
PauseCommands == {"pause", "resume"}

VARIABLES
  ring,      \* commands from sHead to sTail
  applied,   \* how many of them this drain has applied
  limit,     \* how many it will apply
  phase,     \* where the frame is
  play,      \* gPlayState != NULL
  enabled,   \* gPlayState->frameAdvCtx.enabled
  loaded,    \* gSaveContext.fileNum <= 2
  menu,      \* the kaleido or the BenMenu is open
  unsaved,   \* a CVar was set by command since the last CVarSave
  frames,    \* a frame was published
  published, \* the snapshot published last
  events

ringVars == <<ring, applied, limit, phase>>
worldVars == <<play, enabled, loaded, menu>>
gameVars == <<ring, applied, limit, phase, play, enabled, loaded, menu,
              unsaved, frames, published, events>>

GameInit ==
  /\ ring = <<>> /\ applied = 0 /\ limit = 0 /\ phase = "main"
  /\ play = FALSE /\ enabled = FALSE /\ loaded = FALSE /\ menu = FALSE
  /\ unsaved = FALSE
  /\ frames = FALSE
  /\ published = [inGame |-> FALSE, paused |-> FALSE, menuOpen |-> FALSE]
  /\ events = 0

-----------------------------------------------------------------------------
(* TerminaDS_SubmitCommand, called on the Android main thread.             *)
(* Mutation: full one command too late. *)
RingIsFullLate == Len(ring) > Capacity
RingIsFull == Len(ring) >= Capacity
Enqueue(c) == ring' = Append(ring, c)

-----------------------------------------------------------------------------
(* gameState->main and the hooks that run in it: what may change between   *)
(* two publications.                                                       *)
World(p, e, l, m) ==
  /\ phase = "main"
  /\ events < MaxEvents
  /\ play' = p /\ enabled' = e /\ loaded' = l /\ menu' = m
  /\ <<p, e, l, m>> # <<play, enabled, loaded, menu>>
  /\ events' = events + 1
  /\ UNCHANGED <<ringVars, unsaved, frames, published>>

(* Play_Init initialises the frame advance context.                        *)
PlayInit == ~play /\ World(TRUE, FALSE, loaded, menu)

PlayDestroy == World(FALSE, FALSE, loaded, menu)

(* The debug pad's toggle (z_pause.c), the frame advance checkbox of the   *)
(* BenMenu and the reset in DeveloperTools.cpp.                            *)
ToggleFrameAdvance == play /\ World(play, ~enabled, loaded, menu)

(* File select commits a slot; the title screen parks fileNum at 0xFF.     *)
ChooseSave == ~play /\ World(play, enabled, ~loaded, menu)

ToggleMenu == World(play, enabled, loaded, ~menu)

WorldStep ==
  PlayInit \/ PlayDestroy \/ ToggleFrameAdvance \/ ChooseSave \/ ToggleMenu

-----------------------------------------------------------------------------
(* TerminaDS_DrainCommands: the loads of sHead and sTail ...               *)
DrainBegin ==
  /\ phase = "main"
  /\ phase' = "drain"
  /\ limit' = Len(ring)
  /\ UNCHANGED <<ring, applied, worldVars, unsaved, frames, published, events>>

(* ... Apply, one command at a time ...                                    *)
Apply ==
  /\ phase = "drain"
  /\ applied < limit
  /\ LET c == ring[applied + 1] IN
     /\ enabled' = IF play /\ c \in PauseCommands THEN c = "pause" ELSE enabled
     /\ unsaved' = (c = "set" \/ (unsaved /\ c # "save"))
  /\ applied' = applied + 1
  /\ UNCHANGED <<ring, limit, phase, play, loaded, menu, frames, published, events>>

(* Mutation: what was submitted during the drain is dropped. *)
DrainEndDrops ==
  /\ phase = "drain"
  /\ applied = limit
  /\ ring' = <<>>
  /\ applied' = 0 /\ limit' = 0
  /\ phase' = "publish"
  /\ UNCHANGED <<worldVars, unsaved, frames, published, events>>

(* ... and the store of sHead, which frees the slots.                      *)
DrainEnd ==
  /\ phase = "drain"
  /\ applied = limit
  /\ ring' = SubSeq(ring, limit + 1, Len(ring))
  /\ applied' = 0 /\ limit' = 0
  /\ phase' = "publish"
  /\ UNCHANGED <<worldVars, unsaved, frames, published, events>>

(* Mutation: a play state without a save counts as a game. *)
PublishUnloaded ==
  /\ phase = "publish"
  /\ published' = [inGame |-> play, paused |-> play /\ enabled, menuOpen |-> menu]
  /\ frames' = TRUE
  /\ phase' = "main"
  /\ UNCHANGED <<ring, applied, limit, worldVars, unsaved, events>>

(* Publish, after the drain of the same frame.                             *)
Publish ==
  /\ phase = "publish"
  /\ published' = [inGame |-> play /\ loaded, paused |-> play /\ enabled,
                   menuOpen |-> menu]
  /\ frames' = TRUE
  /\ phase' = "main"
  /\ UNCHANGED <<ring, applied, limit, worldVars, unsaved, events>>

Frame == DrainBegin \/ Apply \/ DrainEnd \/ Publish

-----------------------------------------------------------------------------
GameTypeOK ==
  /\ ring \in Seq(Commands)
  /\ Len(ring) <= Capacity
  /\ limit \in 0 .. Len(ring) /\ applied \in 0 .. limit
  /\ phase \in {"main", "drain", "publish"}
  /\ play \in BOOLEAN /\ enabled \in BOOLEAN /\ loaded \in BOOLEAN
  /\ menu \in BOOLEAN /\ unsaved \in BOOLEAN /\ frames \in BOOLEAN
  /\ published \in [inGame : BOOLEAN, paused : BOOLEAN, menuOpen : BOOLEAN]
  /\ events \in 0 .. MaxEvents
=============================================================================
