--------------------------- MODULE CommandMailbox ---------------------------
(***************************************************************************)
(* mm/2s2h/TerminaDS/CommandMailbox.cpp: the single-producer               *)
(* single-consumer ring that carries commands from the Android main thread *)
(* (TerminaDS_SubmitCommand, through JNI) to the game thread               *)
(* (TerminaDS_DrainCommands), one action per access to shared memory.      *)
(*                                                                         *)
(* sHead and sTail are free-running unsigned counters.  "head" and "tail"  *)
(* count the increments published by each side; the word in memory is      *)
(* Wrap(head) or Wrap(tail), and every computation of the code is done on  *)
(* the wrapped words.  A command's number is the value of tail at which it *)
(* was submitted.                                                          *)
(*                                                                         *)
(* Memory order.  An atomic store becomes visible to the other thread some *)
(* time later (SeeTail, SeeHead): headSeen and tailSeen are the newest     *)
(* stores the other side may load.  The slots are plain memory, so an      *)
(* access is defined only when the other thread's conflicting access       *)
(* happens before it: "freed" and "filled" are the slot accesses ordered   *)
(* before the next step of the producer and of the consumer.  They grow    *)
(* only when an acquire load reads a release store.  A slot read that is   *)
(* not so ordered is a data race and returns anything.                     *)
(***************************************************************************)
EXTENDS Integers, Sequences

CONSTANTS
  Ops,         \* TdsCommand.op
  Args,        \* TdsCommand.a, .b and .name, taken together
  Malformed,   \* the submissions that fail the checks of SubmitCommand
  Capacity,    \* TDS_CMD_QUEUE_CAPACITY (16)
  Laps,        \* laps of the ring before a counter wraps (2^32 / 16)
  MaxCommands, \* bound: commands accepted in one behaviour
  NoOp, NoArg  \* the contents of a zero-initialised slot

ASSUME CapacityAssumption == Capacity \in Nat \ {0}
ASSUME LapsAssumption == Laps \in Nat \ {0, 1}
ASSUME BoundAssumption == MaxCommands \in Nat

TdsCommand == [op : Ops, arg : Args]
ASSUME MalformedAssumption == Malformed \subseteq TdsCommand

Commands == TdsCommand \ Malformed

(* The zero-initialised struct; also "no command yet" in the histories. *)
NoCommand == [op |-> NoOp, arg |-> NoArg]
SlotContents == [op : Ops \cup {NoOp}, arg : Args \cup {NoArg}]

VARIABLES
  slots,    \* sSlots
  tail,     \* stores made to sTail
  head,     \* value last stored to sHead, before wrapping
  tailSeen, \* newest store to sTail the game thread may load
  headSeen, \* newest store to sHead the Android thread may load
  freed,    \* reads of commands 0..freed-1 happen before the producer's next step
  filled,   \* writes of commands 0..filled-1 happen before the consumer's next step
  ppc,      \* where TerminaDS_SubmitCommand is
  cmd,      \* its arguments
  status,   \* what it returned last
  cpc,      \* where TerminaDS_DrainCommands is
  pos,      \* its local head
  limit,    \* its local tail
  opRead,   \* cmd.op as Apply read it
  pending,  \* history: accepted, not yet applied
  applied   \* history: the command applied last

producer == <<tail, headSeen, freed, ppc, cmd, status>>
consumer == <<head, tailSeen, filled, cpc, pos, limit, opRead, applied>>
vars == <<slots, tail, head, tailSeen, headSeen, freed, filled, ppc, cmd,
          status, cpc, pos, limit, opRead, pending, applied>>

-----------------------------------------------------------------------------
IndexModulus == Capacity * Laps        \* 2^32
Wrap(n) == n % IndexModulus            \* the uint32_t that holds counter n
(* Mutation: the last slot is never used. *)
SlotOneShort(n) == Wrap(n) % (Capacity - 1)
Slot(n) == Wrap(n) % Capacity          \* index into sSlots

(* tail - head >= TDS_CMD_QUEUE_CAPACITY, in unsigned arithmetic. *)
IsFull(t, h) == (Wrap(t) - Wrap(h)) % IndexModulus >= Capacity

Later(m, n) == IF m >= n THEN m ELSE n

(* Mutation: relaxed stores of sHead and sTail. *)
ReleasedByRelaxed(n) == 0

(* The slot accesses ordered before a load that acquires the release store *)
(* of the counter value n: all those made for commands 0..n-1.             *)
ReleasedBy(n) == n

(* A read by the game thread of field f of command n's slot. *)
Loads(n, f, all) == IF n < filled THEN {slots[Slot(n)][f]} ELSE all

-----------------------------------------------------------------------------
Init ==
  /\ slots = [i \in 0 .. Capacity - 1 |-> NoCommand]
  /\ tail = 0 /\ head = 0 /\ tailSeen = 0 /\ headSeen = 0
  /\ freed = 0 /\ filled = 0
  /\ ppc = "idle" /\ cmd = NoCommand /\ status = "none"
  /\ cpc = "idle" /\ pos = 0 /\ limit = 0 /\ opRead = NoOp
  /\ pending = <<>> /\ applied = NoCommand

-----------------------------------------------------------------------------
(* The Android main thread: TerminaDS_SubmitCommand.                       *)

(* A submission that fails the opcode, name or range check. *)
SubmitInvalid(c) ==
  /\ ppc = "idle"
  /\ c \in Malformed
  /\ status' = "INVALID"
  /\ UNCHANGED <<slots, tail, headSeen, freed, ppc, cmd, pending, consumer>>

(* The ring has no free slot as far as this thread can see. *)
SubmitFull(c) ==
  /\ ppc = "idle"
  /\ c \in Commands
  /\ IsFull(tail, headSeen)
  /\ freed' = Later(freed, ReleasedBy(headSeen))
  /\ status' = "FULL"
  /\ UNCHANGED <<slots, tail, headSeen, ppc, cmd, pending, consumer>>

(* The acquire load of sHead finds a free slot. *)
SubmitReserve(c) ==
  /\ ppc = "idle"
  /\ c \in Commands
  /\ tail < MaxCommands
  /\ ~IsFull(tail, headSeen)
  /\ freed' = Later(freed, ReleasedBy(headSeen))
  /\ cmd' = c
  /\ ppc' = "store_op"
  /\ UNCHANGED <<slots, tail, headSeen, status, pending, consumer>>

StoreOp ==
  /\ ppc = "store_op"
  /\ slots' = [slots EXCEPT ![Slot(tail)].op = cmd.op]
  /\ ppc' = "store_arg"
  /\ UNCHANGED <<tail, headSeen, freed, cmd, status, pending, consumer>>

StoreArg ==
  /\ ppc = "store_arg"
  /\ slots' = [slots EXCEPT ![Slot(tail)].arg = cmd.arg]
  /\ ppc' = "store_tail"
  /\ UNCHANGED <<tail, headSeen, freed, cmd, status, pending, consumer>>

(* The release store of sTail: the command is accepted. *)
StoreTail ==
  /\ ppc = "store_tail"
  /\ tail' = tail + 1
  /\ pending' = Append(pending, cmd)
  /\ status' = "OK"
  /\ ppc' = "idle"
  /\ UNCHANGED <<slots, headSeen, freed, cmd, consumer>>

-----------------------------------------------------------------------------
(* The game thread: TerminaDS_DrainCommands.                               *)

(* Mutation: the newest command is left for a later drain. *)
DrainBeginOneShort ==
  /\ cpc = "idle"
  /\ pos' = head
  /\ limit' = IF tailSeen > head THEN tailSeen - 1 ELSE tailSeen
  /\ filled' = Later(filled, ReleasedBy(tailSeen))
  /\ cpc' = "loop"
  /\ UNCHANGED <<slots, head, tailSeen, opRead, applied, pending, producer>>

(* Loads sHead and, with acquire, sTail. *)
DrainBegin ==
  /\ cpc = "idle"
  /\ pos' = head
  /\ limit' = tailSeen
  /\ filled' = Later(filled, ReleasedBy(tailSeen))
  /\ cpc' = "loop"
  /\ UNCHANGED <<slots, head, tailSeen, opRead, applied, pending, producer>>

(* while (head != tail): Apply starts, by reading cmd.op in place. *)
ApplyReadOp ==
  /\ cpc = "loop"
  /\ Wrap(pos) # Wrap(limit)
  /\ opRead' \in Loads(pos, "op", Ops)
  /\ cpc' = "apply"
  /\ UNCHANGED <<slots, head, tailSeen, filled, pos, limit, applied, pending,
                 producer>>

(* The selected case reads its operands, still in the slot, and takes effect. *)
ApplyEffect ==
  /\ cpc = "apply"
  /\ \E x \in Loads(pos, "arg", Args) : applied' = [op |-> opRead, arg |-> x]
  /\ pending' = IF pending = <<>> THEN <<>> ELSE Tail(pending)
  /\ pos' = pos + 1
  /\ cpc' = "loop"
  /\ UNCHANGED <<slots, head, tailSeen, filled, limit, opRead, producer>>

(* Mutation: sHead is not stored. *)
DrainEndUnstored ==
  /\ cpc = "loop"
  /\ Wrap(pos) = Wrap(limit)
  /\ cpc' = "idle"
  /\ UNCHANGED <<slots, head, tailSeen, filled, pos, limit, opRead, applied,
                 pending, producer>>

(* The loop is over; the release store of sHead frees every slot at once. *)
DrainEnd ==
  /\ cpc = "loop"
  /\ Wrap(pos) = Wrap(limit)
  /\ head' = pos
  /\ cpc' = "idle"
  /\ UNCHANGED <<slots, tailSeen, filled, pos, limit, opRead, applied, pending,
                 producer>>

-----------------------------------------------------------------------------
(* A store becomes visible to the other thread.                            *)

SeeTail ==
  /\ tailSeen # tail
  /\ tailSeen' = tail
  /\ UNCHANGED <<slots, head, filled, cpc, pos, limit, opRead, applied,
                 pending, producer>>

SeeHead ==
  /\ headSeen # head
  /\ headSeen' = head
  /\ UNCHANGED <<slots, tail, freed, ppc, cmd, status, pending, consumer>>

-----------------------------------------------------------------------------
Submit ==
  \/ \E c \in TdsCommand : SubmitInvalid(c) \/ SubmitFull(c) \/ SubmitReserve(c)
  \/ StoreOp \/ StoreArg \/ StoreTail

Drain == DrainBegin \/ ApplyReadOp \/ ApplyEffect \/ DrainEnd

Next == Submit \/ Drain \/ SeeTail \/ SeeHead

(* A submission once begun runs to its end, the game loop calls the drain  *)
(* every frame, and stores become visible in finite time; nobody is made   *)
(* to submit anything.                                                     *)
Fairness ==
  /\ WF_vars(StoreOp \/ StoreArg \/ StoreTail)
  /\ WF_vars(Drain)
  /\ WF_vars(SeeTail)
  /\ WF_vars(SeeHead)

Spec == Init /\ [][Next]_vars /\ Fairness

-----------------------------------------------------------------------------
(* Every variable has its type. *)
TypeOK ==
  /\ slots \in [0 .. Capacity - 1 -> SlotContents]
  /\ tail \in Nat /\ head \in Nat /\ tailSeen \in Nat /\ headSeen \in Nat
  /\ freed \in Nat /\ filled \in Nat
  /\ ppc \in {"idle", "store_op", "store_arg", "store_tail"}
  /\ ppc # "idle" => cmd \in Commands
  /\ status \in {"none", "OK", "FULL", "INVALID"}
  /\ cpc \in {"idle", "loop", "apply"}
  /\ pos \in Nat /\ limit \in Nat
  /\ opRead \in Ops \cup {NoOp}
  /\ pending \in Seq(Commands)

(* No slot is ever accessed by both threads without an order between them: *)
(* while SubmitCommand writes a slot, the drain's reads of the slot's      *)
(* previous command happen before it, and while Apply reads a slot, the    *)
(* submission's writes happen before it (CommandMailbox.cpp:109-126 and    *)
(* :130-139, "Release publishes the slot contents", "Release lets the      *)
(* producer reuse the consumed slots").                                    *)
SlotAccessesOrdered ==
  /\ ppc \in {"store_op", "store_arg"} => tail < freed + Capacity
  /\ cpc \in {"loop", "apply"} => limit <= filled

(* One drain applies at most a ring of commands, whatever is submitted     *)
(* meanwhile (CommandMailbox.h:64, "bounded (drains at most the ring)").   *)
DrainBounded == cpc # "idle" => pos - head <= Capacity /\ limit - head <= Capacity

(* The ring is a bounded FIFO queue: commands are applied whole, once, in  *)
(* order, and none is lost or invented.                                    *)
Queue == INSTANCE CommandQueue WITH queue <- pending
ImplementsQueue == Queue!Spec

(* Every accepted command is applied (CommandMailbox.cpp:126-127, OK means *)
(* the game thread will see it).                                           *)
AcceptedIsApplied == \A n \in 1 .. MaxCommands : (tail >= n) ~> (pos >= n)

(* A full ring is transient: the producer eventually sees a free slot      *)
(* again (SecondScreenHost.kt:63-67, "the game thread drains every frame,  *)
(* so this clears itself").                                                *)
FullClears == IsFull(tail, headSeen) ~> ~IsFull(tail, headSeen)

-----------------------------------------------------------------------------
(* The inductive invariant behind the safety properties above.             *)

(* The counters: what each side knows of the other lags behind, and the    *)
(* producer is never more than a ring ahead of the oldest head it may see. *)
CounterInv ==
  /\ freed <= headSeen /\ headSeen <= head /\ head <= pos
  /\ pos <= tail /\ pos <= filled /\ filled <= tailSeen /\ tailSeen <= tail
  /\ tail <= headSeen + Capacity
  /\ ppc # "idle" => tail < freed + Capacity
  /\ cpc = "idle" => pos = head
  /\ cpc # "idle" => pos <= limit /\ limit <= filled
  /\ cpc = "apply" => pos < limit

(* The slots between the two positions hold the pending commands in order; *)
(* the next one holds as much of the new command as was stored.            *)
ContentInv ==
  /\ Len(pending) = tail - pos
  /\ \A k \in 1 .. tail - pos :
       /\ slots[Slot(pos + k - 1)].op = pending[k].op
       /\ slots[Slot(pos + k - 1)].arg = pending[k].arg
  /\ ppc \in {"store_arg", "store_tail"} => slots[Slot(tail)].op = cmd.op
  /\ ppc = "store_tail" => slots[Slot(tail)].arg = cmd.arg
  /\ cpc = "apply" => opRead = pending[1].op

IInv == TypeOK /\ CounterInv /\ ContentInv
=============================================================================
