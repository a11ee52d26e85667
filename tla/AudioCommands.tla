---------------------------- MODULE AudioCommands ----------------------------
(***************************************************************************)
(* The audio commands of mm/src/audio/lib/thread.c and the heap reset of   *)
(* mm/src/audio/sequence.c that runs through them.  The game thread writes *)
(* commands into a ring and schedules what it has written as a message     *)
(* (first position, end position); the audio thread receives the messages  *)
(* each time it makes a buffer, except while its heap is being reset.      *)
(*                                                                         *)
(* The operators on the ring take and return the record "ring", so that a  *)
(* handler is the composition of its calls.  The threads are those of      *)
(* AudioThread.tla.                                                        *)
(***************************************************************************)
EXTENDS Integers, Sequences, SequencesExt

CONSTANTS
  RingSize,     \* ARRAY_COUNT(threadCmdBuf), 0x100: positions are a u8
  ProcMsgs,     \* ARRAY_COUNT(threadCmdProcMsgBuf), 4
  Specs,        \* audio specifications a scene may ask for
  FadeFrames,   \* audioResetFadeOutFramesLeft on leaving stages 5, 4 and 3
  ReverbFrames, \* sResetAudioHeapTimer when a reverb starts to fade, 20
  Plays,        \* numbers of other commands one update may queue
  MaxCalls      \* bound: calls of the game outside an update

ASSUME RingAssumption == RingSize \in Nat \ {0, 1} /\ ProcMsgs \in Nat \ {0}
ASSUME SpecAssumption == 0 \in Specs
ASSUME FadeAssumption == FadeFrames \in [3 .. 5 -> Nat] /\ ReverbFrames \in Nat
ASSUME CallsAssumption == MaxCalls \in Nat /\ Plays \subseteq Nat

VARIABLES
  ring,        \* threadCmdBuf with its positions and the scheduled messages
  resetStatus, \* stage of the heap reset, 5 down to 1, 0 when there is none
  fadeLeft,    \* audioResetFadeOutFramesLeft
  specId,      \* gAudioCtx.specId
  resetDone,   \* audioResetQueue: the specs of resets that are over
  sfxPlayer,   \* the sound effects' sequence player is initialised
  seqCmds,     \* sAudioSeqCmds: the heap resets asked for, oldest first
  resetting,   \* gAudioHeapResetState is RESETTING
  fading,      \* sResetAudioHeapSeqCmd # 0
  fadeTimer,   \* sResetAudioHeapTimer
  wanted,      \* history: spec of the last reset the sequence code took up
  calls,       \* calls of the game outside an update so far
  mishaps      \* history: how a reset was asked for in a way that can fail

audioVars == <<resetStatus, fadeLeft, specId, sfxPlayer>>
seqVars == <<seqCmds, resetting, fading, fadeTimer, wanted>>
cmdVars == <<ring, resetDone, audioVars, seqVars, mishaps, calls>>

-----------------------------------------------------------------------------
(* Commands by what the audio thread does with them.  INIT stands for the  *)
(* commands of AudioSfx_Init, PLAY for every other one.                    *)
Cmd(op, arg) == [op |-> op, arg |-> arg]
InitSfx == Cmd("INIT", 0)
Play == Cmd("PLAY", 0)
Stop == Cmd("STOP", 0)
NoopCmd == Cmd("NOOP", 0)
ResetHeap(spec) == Cmd("RESET", spec)
Commands == {InitSfx, Play, Stop, NoopCmd} \cup {ResetHeap(s) : s \in Specs}

Positions == 0 .. RingSize - 1
After(p) == (p + 1) % RingSize
Distance(p, e) == (e - p) % RingSize

(* The commands from position p to before position e.                      *)
Slice(r, p, e) == [i \in 1 .. Distance(p, e) |-> r.buf[(p + i - 1) % RingSize]]

(* AudioThread_InitMesgQueuesInternal.  "cur" is sCurCmdRdPos of           *)
(* AudioThread_ProcessCmds; "owed" is a history: the commands accepted and *)
(* not yet run, oldest first.                                              *)
EmptyRing ==
  [buf |-> [p \in Positions |-> NoopCmd], write |-> 0, read |-> 0, cur |-> 0,
   finished |-> FALSE, msgs |-> <<>>, owed |-> <<>>]

(* Mutation: the write position does not wrap. *)
QueueCmdUnwrapped(r, c) ==
  LET written == [r EXCEPT !.buf = [@ EXCEPT ![r.write] = c]]
  IN  IF After(r.write) = r.read THEN written
      ELSE [written EXCEPT !.write = @ + 1, !.owed = Append(@, c)]

(* AudioThread_QueueCmd: a command that would fill the ring is dropped.    *)
QueueCmd(r, c) ==
  LET written == [r EXCEPT !.buf = [@ EXCEPT ![r.write] = c]]
  IN  IF After(r.write) = r.read THEN written
      ELSE [written EXCEPT !.write = After(@), !.owed = Append(@, c)]

(* AudioThread_ScheduleProcessCmds: also when nothing was written.         *)
Schedule(r) ==
  IF Len(r.msgs) = ProcMsgs THEN r
  ELSE [r EXCEPT !.msgs = Append(@, <<r.read, r.write>>), !.read = r.write]

QueueAll(r, cs) == FoldLeft(QueueCmd, r, cs)

-----------------------------------------------------------------------------
(* The audio thread.                                                       *)

(* Mutation: a message always starts at its own first position. *)
StartOfFresh(r, m) == m[1]

(* Where AudioThread_ProcessCmds starts: after a STOP, where it stopped.   *)
StartOf(r, m) == IF r.finished THEN r.cur ELSE m[1]

(* AudioThread_ProcessCmds: the commands up to the end of the message, or  *)
(* up to the first STOP.  A command that has run is turned into a no-op.   *)
(* The result is the ring and the commands that ran.                       *)
ProcessCmds(r, m) ==
  LET start == StartOf(r, m)
      todo == Slice(r, start, m[2])
      stops == {i \in DOMAIN todo : todo[i] = Stop}
      stop == CHOOSE i \in stops : \A j \in stops : i <= j
      n == IF stops = {} THEN Len(todo) ELSE stop - 1
      taken == IF stops = {} THEN n ELSE stop
  IN  [ring |->
         [r EXCEPT !.finished = stops # {},
                   !.cur = (start + taken) % RingSize,
                   !.buf = [p \in Positions |->
                              IF Distance(start, p) < n THEN NoopCmd ELSE @[p]],
                   !.owed = SubSeq(@, taken + 1, Len(@))],
       ran |-> SubSeq(todo, 1, n)]

(* The loop over the messages of threadCmdProcQueue.                       *)
ProcessOne(acc, m) ==
  LET done == ProcessCmds(acc.ring, m)
  IN  [ring |-> done.ring, ran |-> acc.ran \o done.ran]

ProcessAll(r) ==
  FoldLeft(ProcessOne, [ring |-> [r EXCEPT !.msgs = <<>>], ran |-> <<>>], r.msgs)

(* AudioHeap_ResetStep: the sequence players end in stage 5, the heap is   *)
(* made anew in stage 1, and the stages between fade out.                  *)
ResetStep ==
  \/ /\ resetStatus = 5
     /\ resetStatus' = 4 /\ fadeLeft' = FadeFrames[5]
     /\ sfxPlayer' = FALSE
  \/ /\ resetStatus \in 2 .. 4 /\ fadeLeft # 0
     /\ fadeLeft' = fadeLeft - 1
     /\ UNCHANGED <<resetStatus, sfxPlayer>>
  \/ /\ resetStatus \in 2 .. 4 /\ fadeLeft = 0
     /\ resetStatus' = resetStatus - 1
     /\ fadeLeft' = IF resetStatus = 2 THEN 0 ELSE FadeFrames[resetStatus]
     /\ UNCHANGED sfxPlayer

(* What the commands that ran leave: the last RESET restarts the reset,    *)
(* whatever stage it is in.                                                *)
RanReset(ran) == {i \in DOMAIN ran : ran[i].op = "RESET"}

Apply(ran) ==
  /\ sfxPlayer' = \/ resetStatus = 0 /\ sfxPlayer
                  \/ \E i \in DOMAIN ran : ran[i] = InitSfx
  /\ IF RanReset(ran) = {} THEN resetStatus' = 0 /\ UNCHANGED specId
     ELSE /\ resetStatus' = 5
          /\ specId' = ran[CHOOSE i \in RanReset(ran) :
                             \A j \in RanReset(ran) : j <= i].arg
  /\ UNCHANGED fadeLeft

(* AudioMgr_CreateNextAudioBuffer with a reset that is not over after it.  *)
BufferDuringReset ==
  /\ resetStatus > 1
  /\ ResetStep
  /\ UNCHANGED <<ring, specId, resetDone>>

(* AudioMgr_CreateNextAudioBuffer: the end of a reset is announced, then   *)
(* the messages are processed; after a STOP with none to come, the audio   *)
(* thread schedules the rest itself.                                       *)
BufferWithCommands ==
  /\ resetStatus <= 1
  /\ resetDone' = IF resetStatus = 1 /\ resetDone = <<>> THEN <<specId>> ELSE resetDone
  /\ IF ring.msgs = <<>>
     THEN /\ ring' = IF ring.finished THEN Schedule(ring) ELSE ring
          /\ Apply(<<>>)
     ELSE /\ ring' = ProcessAll(ring).ring
          /\ Apply(ProcessAll(ring).ran)

CreateNextAudioBuffer ==
  /\ BufferDuringReset \/ BufferWithCommands
  /\ UNCHANGED <<seqVars, mishaps, calls>>

-----------------------------------------------------------------------------
(* The game thread.                                                        *)

CountCall == calls < MaxCalls /\ calls' = calls + 1

(* Audio_SetSpec, as a scene's commands, the file select and the pause     *)
(* menu call it; with sMuteOnlySfxAndAmbienceSeq only the reverb fades.    *)
SetSpec(spec, fade) ==
  /\ CountCall
  /\ seqCmds' = Append(seqCmds, [spec |-> spec, fade |-> fade])
  /\ UNCHANGED <<ring, resetDone, audioVars, resetting, fading, fadeTimer,
                 wanted, mishaps>>

(* Commands queued outside an update, by the game's own part of a frame:   *)
(* Audio_SetExtraFilter and its like, and Audio_StartAmbience, which sends *)
(* a STOP of its own.  They wait for the next message.                     *)
QueueOutside ==
  /\ CountCall
  /\ \E cmds \in {<<Play>>, <<Play, Stop>>} : ring' = QueueAll(ring, cmds)
  /\ UNCHANGED <<resetDone, audioVars, seqVars, mishaps>>

(* AudioThread_ResetCmdQueue: messages already sent stay.                  *)
ResetCmdQueue(r) == [r EXCEPT !.finished = FALSE, !.read = r.write]

(* AudioThread_ResetAudioHeap on the ring and gAudioCtx.specId: a reset    *)
(* under way loses the commands queued behind it and, in its first stages, *)
(* is redirected to another specification.  (The port's osRecvMesg never   *)
(* blocks.)                                                                *)
ResetAudioHeap(acc, spec) ==
  LET r == IF resetStatus = 0 THEN acc.ring ELSE ResetCmdQueue(acc.ring)
      sent == resetStatus = 0 \/ (acc.spec # spec /\ resetStatus <= 2)
  IN  [ring |-> IF sent THEN Schedule(QueueCmd(r, ResetHeap(spec))) ELSE r,
       spec |-> IF resetStatus > 2 THEN spec ELSE acc.spec]

(* Mutation: the players are initialised behind the STOP. *)
Step3Stopped(r) == QueueCmd(Schedule(QueueCmd(Schedule(r), Play)), Stop)

(* Audio_ResetForAudioHeapStep3, AudioSfx_Init first.                      *)
Step3(r) == QueueCmd(Schedule(QueueAll(Schedule(r), <<InitSfx, Play>>)), Stop)

(* Mutation: a reset to the specification in use is not asked for. *)
TakeUpChange(acc, request) ==
  IF request.fade \/ request.spec = acc.spec THEN acc
  ELSE [ResetAudioHeap(acc, request.spec) EXCEPT !.ring = QueueCmd(@, Stop)]

(* SEQCMD_OP_RESET_AUDIO_HEAP.                                             *)
TakeUp(acc, request) ==
  IF request.fade THEN acc
  ELSE [ResetAudioHeap(acc, request.spec) EXCEPT !.ring = QueueCmd(@, Stop)]

Resets == {i \in DOMAIN seqCmds : ~seqCmds[i].fade}
Fades == DOMAIN seqCmds \ Resets

(* AudioSeq_ResetReverb while the reverb fades: it ends the update.        *)
FadeReverb(r) ==
  /\ fading /\ fadeTimer # 0
  /\ ring' = Schedule(QueueCmd(r, Play))
  /\ fadeTimer' = fadeTimer - 1
  /\ resetting' = FALSE
  /\ UNCHANGED <<specId, seqCmds, fading, wanted, mishaps>>

(* How the resets an update takes up can fail, r being the ring when it    *)
(* ends: its last message met a full queue, so that the RESET may be sent  *)
(* without the STOP behind it, or not at all; there were two of them; or   *)
(* another reset was under way.                                            *)
Mishaps(r) ==
  {m \in {"crowded", "twice", "met"} :
     /\ Resets # {}
     /\ \/ m = "crowded" /\ r.read # r.write
        \/ m = "twice" /\ \E i, j \in Resets : i # j
        \/ m = "met" /\ resetStatus # 0}

(* AudioSeq_ResetReverb when it has faded, the requests, the commands of   *)
(* the other parts of Audio_Update, and their message.                     *)
FinishUpdate(r, plays) ==
  LET faded == IF fading THEN Step3(QueueCmd(Schedule(QueueCmd(r, Play)), Play)) ELSE r
      taken == FoldLeft(TakeUp, [ring |-> faded, spec |-> specId], seqCmds)
  IN  /\ fading => fadeTimer = 0
      /\ ring' = Schedule(QueueAll(taken.ring, [i \in 1 .. plays |-> Play]))
      /\ specId' = taken.spec
      /\ seqCmds' = <<>>
      /\ resetting' = (Resets # {})
      /\ fading' = (Fades # {})
      /\ fadeTimer' = IF Fades # {} THEN ReverbFrames ELSE fadeTimer
      /\ wanted' = IF Resets # {} THEN seqCmds[Max(Resets)].spec ELSE wanted
      /\ mishaps' = mishaps \cup Mishaps(ring')

Update(r, plays) == FadeReverb(r) \/ FinishUpdate(r, plays)

(* Audio_Update with no reset awaited.                                     *)
UpdateWhileReady(plays) ==
  /\ ~resetting
  /\ Update(ring, plays)
  /\ resetDone' = IF Resets # {} /\ resetting' THEN <<>> ELSE resetDone
  /\ UNCHANGED <<resetStatus, fadeLeft, sfxPlayer, calls>>

(* Mutation: any message, or none, is taken for the end of the reset. *)
UpdateAnyway(plays) ==
  /\ resetting
  /\ Update(QueueCmd(Step3(QueueCmd(ring, Play)), Play), plays)
  /\ resetDone' = <<>>
  /\ UNCHANGED <<resetStatus, fadeLeft, sfxPlayer, calls>>

(* AudioSeq_UpdateAudioHeapReset: func_80193C5C takes the message that the *)
(* reset is over, and the update goes on after Step2.                      *)
UpdateAfterReset(plays) ==
  /\ resetting /\ resetDone = <<specId>>
  /\ Update(QueueCmd(Step3(QueueCmd(ring, Play)), Play), plays)
  /\ resetDone' = <<>>
  /\ UNCHANGED <<resetStatus, fadeLeft, sfxPlayer, calls>>

(* The reset is not over, or the message is of another reset: the update   *)
(* ends at once.                                                           *)
UpdateWhileResetting ==
  /\ resetting /\ resetDone # <<specId>>
  /\ resetDone' = <<>>
  /\ UNCHANGED <<ring, audioVars, seqVars, mishaps, calls>>

(* Audio_Update. *)
AudioUpdate ==
  \/ \E plays \in Plays : UpdateWhileReady(plays) \/ UpdateAfterReset(plays)
  \/ UpdateWhileResetting

(* Audio_InitSound before the first frame: AudioSfx_Init.                  *)
CmdInit ==
  /\ ring = QueueAll(Schedule(EmptyRing), <<InitSfx, Play>>)
  /\ resetStatus = 0 /\ fadeLeft = 0 /\ specId = 0
  /\ resetDone = <<>> /\ sfxPlayer = FALSE
  /\ seqCmds = <<>> /\ resetting = FALSE
  /\ fading = FALSE /\ fadeTimer = 0 /\ wanted = 0
  /\ mishaps = {} /\ calls = 0

-----------------------------------------------------------------------------
(* The commands in the ring that the audio thread will still reach.        *)
Outstanding ==
  Slice(ring,
        IF ring.finished THEN ring.cur
        ELSE IF ring.msgs # <<>> THEN Head(ring.msgs)[1] ELSE ring.read,
        ring.write)

CmdTypeOK ==
  /\ ring.buf \in [Positions -> Commands]
  /\ {ring.write, ring.read, ring.cur} \subseteq Positions
  /\ ring.finished \in BOOLEAN
  /\ ring.msgs \in Seq(Positions \X Positions) /\ Len(ring.msgs) <= ProcMsgs
  /\ ring.owed \in Seq(Commands)
  /\ resetStatus \in 0 .. 5 /\ fadeLeft \in Nat
  /\ specId \in Specs /\ wanted \in Specs
  /\ resetDone \in Seq(Specs) /\ Len(resetDone) <= 1
  /\ {sfxPlayer, resetting, fading} \subseteq BOOLEAN
  /\ seqCmds \in Seq([spec : Specs, fade : BOOLEAN])
  /\ fadeTimer \in 0 .. ReverbFrames
  /\ calls \in 0 .. MaxCalls
  /\ mishaps \subseteq {"crowded", "twice", "met"}
===============================================================================
