---------------------------- MODULE SecondScreen ----------------------------
(***************************************************************************)
(* The bottom screen and the game: SecondScreenHost.tla on the Android     *)
(* main thread and GameThread.tla on the game thread, joined by the        *)
(* command ring one way and the published snapshot the other way.          *)
(***************************************************************************)
EXTENDS GameThread, SecondScreenHost

CONSTANTS
  MaxTaps,  \* bound: taps of the player and re-shown Presentations
  MaxShows  \* bound: times the Presentation is dismissed and shown again

ASSUME TapsAssumption == MaxTaps \in Nat
ASSUME ShowsAssumption == MaxShows \in Nat

VARIABLES
  advanced, \* the published frame counter is not the poller's last
  wish,     \* history: target of the last request accepted since the game
            \*   itself changed the play state, None if there is none
  taps, shows

vars == <<gameVars, hostVars, advanced, wish, taps, shows>>

Init ==
  /\ GameInit /\ HostInit
  /\ advanced = FALSE /\ wish = None /\ taps = 0 /\ shows = 0

-----------------------------------------------------------------------------
(* CommandBridge.submit, with the statuses a well-formed command can have. *)
Submit(c, s) ==
  IF RingIsFull
  THEN s = "FULL" /\ UNCHANGED ring
  ELSE s = "OK" /\ Enqueue(c)

gameButRing == <<applied, limit, phase, play, enabled, loaded, menu, unsaved,
                 frames, published, events>>

(* The read either collides with the publisher or returns the last frame.  *)
SnapshotRead ==
  [status |-> "OK", advanced |-> advanced,
   snapshot |-> IF frames THEN published ELSE NoSnapshot]

Collision == [status |-> "RETRY_EXHAUSTED", advanced |-> FALSE, snapshot |-> NoSnapshot]

PollWith(r) ==
  \E s \in SubmitStatus :
    /\ Poll(r, s)
    /\ IF SaveIsDue THEN Submit("save", s) ELSE s = "OK" /\ UNCHANGED ring
    /\ UNCHANGED <<gameButRing, wish, taps, shows>>

PollRead == PollWith(SnapshotRead) /\ advanced' = FALSE
PollCollides == PollWith(Collision) /\ UNCHANGED advanced

Tap ==
  taps + shows < MaxTaps /\ taps' = taps + 1 /\ UNCHANGED <<gameButRing, advanced, shows>>

Pause ==
  /\ Tap
  /\ \E s \in SubmitStatus :
       PauseTap(s) /\ Submit("pause", s) /\ wish' = IF s = "OK" THEN TRUE ELSE wish

Resume ==
  /\ Tap
  /\ \E s \in SubmitStatus :
       ResumeTap(s) /\ Submit("resume", s) /\ wish' = IF s = "OK" THEN FALSE ELSE wish

Navigate == Tap /\ (OptionsTap \/ BackTap) /\ UNCHANGED <<ring, wish>>

ChangeRow ==
  /\ Tap
  /\ RowChange
  /\ \E s \in SubmitStatus : Submit("set", s)
  /\ UNCHANGED wish

Redraw == Recompose /\ UNCHANGED <<gameVars, advanced, wish, taps, shows>>

TimePasses == Tick /\ UNCHANGED <<gameVars, advanced, wish, taps, shows>>

ShowAgain ==
  /\ shows < MaxShows /\ taps + shows < MaxTaps
  /\ shows' = shows + 1
  /\ Reshow
  /\ UNCHANGED <<gameVars, advanced, wish, taps>>

Android ==
  \/ PollRead \/ PollCollides \/ Redraw \/ TimePasses \/ ShowAgain
  \/ Pause \/ Resume \/ Navigate \/ ChangeRow

-----------------------------------------------------------------------------
GameWorld ==
  /\ WorldStep
  /\ wish' = IF <<play, enabled>>' # <<play, enabled>> THEN None ELSE wish
  /\ UNCHANGED <<hostVars, advanced, taps, shows>>

GameFrame ==
  /\ Frame
  /\ advanced' = (advanced \/ phase = "publish")
  /\ UNCHANGED <<hostVars, wish, taps, shows>>

Next == Android \/ GameWorld \/ GameFrame

(* The game loop steps, the main thread's loop polls and composes, time    *)
(* passes, and reads do not collide with the publisher for ever (it holds  *)
(* the array for under a microsecond of every frame).                      *)
Fairness ==
  /\ WF_vars(GameFrame)
  /\ WF_vars(PollRead)
  /\ WF_vars(Redraw)
  /\ WF_vars(TimePasses)

Spec == Init /\ [][Next]_vars /\ Fairness

-----------------------------------------------------------------------------
TypeOK ==
  /\ GameTypeOK /\ HostTypeOK
  /\ advanced \in BOOLEAN
  /\ wish \in BOOLEAN \cup {None}
  /\ taps \in 0 .. MaxTaps /\ shows \in 0 .. MaxShows

(* The commands in the ring that are not applied yet. *)
Waiting == SubSeq(ring, applied + 1, Len(ring))

(* No member of S is in w. *)
Without(w, S) == \A i \in DOMAIN w : w[i] \notin S

(* c is in w with no member of S behind it. *)
LastWord(w, c, S) ==
  \E i \in DOMAIN w : w[i] = c /\ \A j \in i + 1 .. Len(w) : w[j] \notin S

(* The last request the ring accepted is the one the game is left in: once *)
(* no pause command waits, the frame advance flag is what the player asked *)
(* for last, unless the game changed it or left the play state since       *)
(* (CommandMailbox.cpp:33-42; requests are absolute, never toggles).       *)
LastRequestWins ==
  play /\ wish # None /\ Without(Waiting, PauseCommands) => enabled = wish

(* A setting changed by the player is never left for no one to save: while *)
(* a CVar set by command is not in the file, either the debouncer holds a  *)
(* save or one waits in the ring behind the last change                    *)
(* (SecondScreenHost.kt:56-74, "dropping it here would lose the write").   *)
(* A Presentation that is dismissed takes its debouncer with it.           *)
SaveIsOwed ==
  \/ shows > 0
  \/ quiet # None
  \/ LastWord(Waiting, "save", {"set"})
  \/ ~unsaved /\ Without(Waiting, {"set"})

(* Every changed setting reaches the file.                                 *)
SettingsAreSaved == unsaved ~> ~unsaved

(* It does as long as the Presentation that took the change stays: the     *)
(* debouncer's flush is not lost to a full ring or a late poll.            *)
SavedUnlessDismissed == unsaved ~> (~unsaved \/ shows > 0)

(* A request never stays pending: it is observed or it times out           *)
(* (PauseRequestTracker.kt:22-28).                                         *)
RequestSettles == requestState = "PENDING" ~> requestState # "PENDING"

(* The screen the game's own state calls for, whatever the view. *)
GameCallsFor ==
  CASE ~(play /\ loaded) -> {"Idle"}
    [] play /\ loaded /\ enabled -> {"PauseMenu", "Options"}
    [] OTHER -> {"Gameplay"}

(* When the player and the world have left the game alone, the bottom      *)
(* screen comes to show the screen for the state the game is in and stays  *)
(* there, whatever was lost, delayed or timed out before ("the UI follows  *)
(* pauseState wherever it goes").                                          *)
ScreenFollowsGame == <>[](screen.kind \in GameCallsFor)
-----------------------------------------------------------------------------
(* The inductive invariant behind the invariants above.                    *)

(* The command that asks for the wish. *)
Wished == IF wish = TRUE THEN "pause" ELSE "resume"

(* The wish is what the last pause command still waits to do, or, when     *)
(* none waits, what was done.                                              *)
WishInv ==
  wish # None =>
    \/ LastWord(Waiting, Wished, PauseCommands)
    \/ Without(Waiting, PauseCommands) /\ (play => enabled = wish)

IInv == TypeOK /\ HostIInv /\ WishInv /\ SaveIsOwed
=============================================================================
