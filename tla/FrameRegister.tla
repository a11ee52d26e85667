---------------------------- MODULE FrameRegister ----------------------------
(***************************************************************************)
(* What the snapshot of mm/2s2h/TerminaDS/GameSnapshot.h promises the      *)
(* second screen: a single-writer register of whole frames.  A read that   *)
(* answers OK returns one frame the game thread finished publishing, and   *)
(* never one older than the read before it.                                *)
(***************************************************************************)
EXTENDS Naturals

VARIABLES
  published,  \* number of the newest complete frame; 0 before the first
  shown       \* number of the frame the last successful read returned

vars == <<published, shown>>

Init == published = 0 /\ shown = 0

Publish == published' = published + 1 /\ UNCHANGED shown

Read ==
  /\ shown' \in shown .. published
  /\ UNCHANGED published

Next == Publish \/ Read

Spec == Init /\ [][Next]_vars
=============================================================================
