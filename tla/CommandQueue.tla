---------------------------- MODULE CommandQueue ----------------------------
(***************************************************************************)
(* What the command ring of mm/2s2h/TerminaDS/CommandMailbox.h promises    *)
(* its two threads: a bounded first-in first-out queue.  Every accepted    *)
(* command is applied at most once, whole, in the order of acceptance, and *)
(* never more than Capacity accepted commands wait.                        *)
(***************************************************************************)
EXTENDS Naturals, Sequences

CONSTANTS
  Commands,   \* the commands a caller may submit
  Capacity,   \* TDS_CMD_QUEUE_CAPACITY
  NoCommand   \* "nothing applied yet"

VARIABLES
  queue,      \* accepted and not yet applied, oldest first
  applied     \* the command applied last

vars == <<queue, applied>>

Init ==
  /\ queue = <<>>
  /\ applied = NoCommand

(* TerminaDS_SubmitCommand answering TDS_SUBMIT_OK. *)
Accept ==
  /\ Len(queue) < Capacity
  /\ \E c \in Commands : queue' = Append(queue, c)
  /\ UNCHANGED applied

(* One iteration of TerminaDS_DrainCommands. *)
Apply ==
  /\ queue # <<>>
  /\ applied' = Head(queue)
  /\ queue' = Tail(queue)

Next == Accept \/ Apply

Spec == Init /\ [][Next]_vars
=============================================================================
