------------------------------ MODULE AudioThread ------------------------------
(***************************************************************************)
(* The hand-off between the game thread and the audio thread of            *)
(* mm/2s2h/BenPort.cpp, and what each of them does to the audio commands   *)
(* of AudioCommands.tla.  In every frame the game thread updates the       *)
(* audio, asks for a buffer, draws while the audio thread makes it, and    *)
(* waits for its end.                                                      *)
(*                                                                         *)
(* A thread that waits on a condition variable has released the mutex; it  *)
(* goes on when it is notified, or without a cause, and then takes the     *)
(* mutex again.  A step of a thread is one critical section, or what lies  *)
(* between two.                                                            *)
(***************************************************************************)
EXTENDS AudioCommands

CONSTANTS
  Rates,      \* R_UPDATE_RATE: buffers made per frame
  MaxUpdates  \* bound: Audio_Update calls between two buffers

ASSUME RatesAssumption == Rates \subseteq Nat \ {0} /\ Rates # {}
ASSUME UpdatesAssumption == MaxUpdates \in Nat \ {0}

GamePlaces == {"logic", "requested", "draw", "check", "wait", "awake",
               "stopped", "join", "exited"}
AudioPlaces == {"top", "check", "wait", "awake", "between", "work", "ended"}

VARIABLES
  game,       \* where the game thread is
  audio,      \* where the audio thread is
  processing, running, \* of the struct "audio", under its mutex
  left,       \* buffers the audio thread has still to make for this frame
  updates     \* Audio_Update calls since the last buffer

threadVars == <<game, audio, processing, running, left>>
vars == <<threadVars, updates, cmdVars>>

(* OTRAudio_Thread holds the mutex while it works; every other critical    *)
(* section is one step.                                                    *)
MutexFree == audio # "work"

-----------------------------------------------------------------------------
(* The game's own part of a frame, and the end of a game state, whose      *)
(* GameState_Destroy updates the audio once more before the next buffer;   *)
(* a state that stops in its first frame makes that two or more.           *)
CountUpdate ==
  game = "logic" /\ updates < MaxUpdates /\ updates' = updates + 1

Logic ==
  /\ game = "logic"
  /\ \/ (\E spec \in Specs, fade \in BOOLEAN : SetSpec(spec, fade)) /\ UNCHANGED updates
     \/ QueueOutside /\ UNCHANGED updates
     \/ CountUpdate /\ AudioUpdate
  /\ UNCHANGED threadVars

(* Graph_ProcessGfxCommands, first part; a frame has updated the audio.    *)
RequestBuffer ==
  /\ game = "logic" /\ updates # 0 /\ MutexFree
  /\ processing' = TRUE
  /\ game' = "requested"
  /\ UNCHANGED <<audio, running, left, updates, cmdVars>>

(* cv_to_thread.notify_one or notify_all. *)
WakeAudio == audio' = IF audio = "wait" THEN "awake" ELSE audio

NotifyAudio ==
  /\ game = "requested"
  /\ WakeAudio
  /\ game' = "draw"
  /\ UNCHANGED <<processing, running, left, updates, cmdVars>>

RunCommands ==
  /\ game = "draw"
  /\ game' = "check"
  /\ UNCHANGED <<audio, processing, running, left, updates, cmdVars>>

(* Mutation: what wakes the game thread is taken for the end of the buffer. *)
AwaitBufferOnce ==
  /\ game \in {"check", "awake"} /\ MutexFree
  /\ IF processing /\ game = "check" THEN game' = "wait" /\ UNCHANGED updates
     ELSE game' = "logic" /\ updates' = 0
  /\ UNCHANGED <<audio, processing, running, left, cmdVars>>

(* "while (audio.processing) cv_from_thread.wait".                         *)
AwaitBuffer ==
  /\ game \in {"check", "awake"} /\ MutexFree
  /\ IF processing THEN game' = "wait" /\ UNCHANGED updates
     ELSE game' = "logic" /\ updates' = 0
  /\ UNCHANGED <<audio, processing, running, left, cmdVars>>

(* OTRAudio_Exit, between two frames.                                      *)
StopRunning ==
  /\ game = "logic" /\ MutexFree
  /\ running' = FALSE
  /\ game' = "stopped"
  /\ UNCHANGED <<audio, processing, left, updates, cmdVars>>

NotifyStop ==
  /\ game = "stopped"
  /\ WakeAudio
  /\ game' = "join"
  /\ UNCHANGED <<processing, running, left, updates, cmdVars>>

Join ==
  /\ game = "join" /\ audio = "ended"
  /\ game' = "exited"
  /\ UNCHANGED <<audio, processing, running, left, updates, cmdVars>>

-----------------------------------------------------------------------------
(* OTRAudio_Thread: "while (audio.running)", read outside the mutex.       *)
LoopTop ==
  /\ audio = "top"
  /\ audio' = IF running THEN "check" ELSE "ended"
  /\ UNCHANGED <<game, processing, running, left, updates, cmdVars>>

(* Mutation: the wait is not left when the thread is to stop. *)
AwaitRequestOnly ==
  /\ audio \in {"check", "awake"}
  /\ audio' = IF ~processing THEN "wait" ELSE IF running THEN "between" ELSE "ended"
  /\ UNCHANGED <<game, processing, running, left, updates, cmdVars>>

(* The first critical section: wait for a request or for the end.          *)
AwaitRequest ==
  /\ audio \in {"check", "awake"}
  /\ audio' = IF ~running THEN "ended" ELSE IF processing THEN "between" ELSE "wait"
  /\ UNCHANGED <<game, processing, running, left, updates, cmdVars>>

(* The second one: the buffers of a frame.                                 *)
StartWork ==
  /\ audio = "between"
  /\ audio' = "work"
  /\ left' \in Rates
  /\ UNCHANGED <<game, processing, running, updates, cmdVars>>

CountBuffer == audio = "work" /\ left # 0 /\ left' = left - 1

MakeBuffer ==
  /\ CountBuffer
  /\ CreateNextAudioBuffer
  /\ UNCHANGED <<game, audio, processing, running, updates>>

(* Mutation: the request is not taken back. *)
EndWorkKeeps ==
  /\ audio = "work" /\ left = 0
  /\ game' = IF game = "wait" THEN "awake" ELSE game
  /\ audio' = "top"
  /\ UNCHANGED <<processing, running, left, updates, cmdVars>>

EndWork ==
  /\ audio = "work" /\ left = 0
  /\ processing' = FALSE
  /\ game' = IF game = "wait" THEN "awake" ELSE game
  /\ audio' = "top"
  /\ UNCHANGED <<running, left, updates, cmdVars>>

(* A wait that ends without a notification. *)
Spurious ==
  /\ \/ game = "wait" /\ game' = "awake" /\ UNCHANGED audio
     \/ audio = "wait" /\ audio' = "awake" /\ UNCHANGED game
  /\ UNCHANGED <<processing, running, left, updates, cmdVars>>

(* main returns. *)
Exited == game = "exited" /\ UNCHANGED vars

-----------------------------------------------------------------------------
Init ==
  /\ CmdInit
  /\ game = "logic" /\ audio = "top"
  /\ processing = FALSE /\ running = TRUE
  /\ left = 0 /\ updates = 0

GameStep ==
  \/ RequestBuffer \/ NotifyAudio \/ RunCommands \/ AwaitBuffer
  \/ NotifyStop \/ Join

AudioStep == LoopTop \/ AwaitRequest \/ StartWork \/ EndWork

Next == Logic \/ GameStep \/ MakeBuffer \/ AudioStep \/ StopRunning \/ Spurious \/ Exited

(* Both threads are scheduled, and the game loop goes on: every frame      *)
(* updates the audio.  AudioUpdate and CreateNextAudioBuffer are possible  *)
(* in every state, so that the steps that count them say when they are due.*)
Fairness ==
  /\ WF_threadVars(GameStep)
  /\ WF_threadVars(AudioStep)
  /\ WF_left(CountBuffer)
  /\ WF_updates(CountUpdate)

Spec == Init /\ [][Next]_vars /\ Fairness
-----------------------------------------------------------------------------
TypeOK ==
  /\ CmdTypeOK
  /\ game \in GamePlaces /\ audio \in AudioPlaces
  /\ processing \in BOOLEAN /\ running \in BOOLEAN
  /\ left \in Nat /\ updates \in 0 .. MaxUpdates

(* The game's own part of a frame, which writes the sequences, the ring    *)
(* and the sound effects' tables without a lock, never runs while the      *)
(* audio thread makes buffers from them, nor when it has left its wait to  *)
(* do so.                                                                  *)
Exclusive == game = "logic" => audio \notin {"between", "work"}

(* What the audio thread will still reach in the ring are the commands     *)
(* that were accepted and have not run, in their order: none is lost,      *)
(* skipped, run twice or overwritten, although a message may find its      *)
(* queue full, a STOP ends a message early, positions wrap and the game    *)
(* queues commands outside its updates.  Only the reset of the queue by a  *)
(* second heap reset that meets the first one (AudioThread_ResetCmdQueue)  *)
(* may abandon commands.                                                   *)
RingHoldsOwed == "met" \notin mishaps => Outstanding = ring.owed

(* The heap is reset only while both sides hold back: the sequence code    *)
(* its updates, and the audio thread, which stands behind the STOP that    *)
(* follows the RESET, so that no command of the time after it runs on the  *)
(* old heap (sequence.c: gAudioHeapResetState; thread.c:                   *)
(* threadCmdQueueFinished).  It is so as long as every reset was asked for *)
(* alone and its message found a place, over several updates in a frame    *)
(* and STOPs of the game's own.                                            *)
ResetHoldsBack == mishaps = {} /\ resetStatus # 0 => resetting /\ ring.finished

(* With no reset awaited and every command run, the sound effects' player, *)
(* which a reset ends, is initialised again, and the audio specification   *)
(* in use is the one that was asked for last.                              *)
SoundAsAsked ==
  mishaps = {} /\ ~resetting /\ ring.owed = <<>> => sfxPlayer /\ specId = wanted

(* A reset of the heap that is awaited ends, and says so, unless its       *)
(* message met a full queue: nothing sends it again, for the game's        *)
(* updates wait for the end of the reset.                                  *)
ResetEnds ==
  resetting ~> (resetDone # <<>> \/ ~running \/ "crowded" \in mishaps)

(* The game thread does not wait for a buffer forever.                     *)
FrameEnds == (game = "requested") ~> (game = "logic")

(* OTRAudio_Exit returns: the audio thread leaves its loop wherever it is  *)
(* told to.                                                                *)
ExitEnds == ~running ~> (game = "exited")
===============================================================================
