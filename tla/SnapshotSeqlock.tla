--------------------------- MODULE SnapshotSeqlock ---------------------------
(***************************************************************************)
(* mm/2s2h/TerminaDS/SnapshotPublisher.cpp: the sequence lock through      *)
(* which the game thread (Publish) hands one consistent snapshot per frame *)
(* to the Android main thread (TerminaDS_ReadSnapshot), one action per     *)
(* access to shared memory, under the C++ memory model.                    *)
(*                                                                         *)
(* Frame n is the n-th call of Publish; frame 0 is the seeded array before *)
(* the first.  Publish n makes the stores 2n-1 (odd) and 2n (even) of      *)
(* sSeq, and store n of every slot.  A store is identified by its place in *)
(* the order of the stores to its location: the word in sSeq after store p *)
(* is Wrap(p), a slot after store n holds its value in frame n.            *)
(*                                                                         *)
(* A load returns any store not older than what the reading thread already *)
(* has to see (seqSeen, slotSeen).  Acquire loads and the fences raise     *)
(* those bounds; nothing else orders two locations.                        *)
(***************************************************************************)
EXTENDS Integers

CONSTANTS
  Slots,        \* the indices of sValues, TDS_SNAP_COUNT of them
  BufferSizes,  \* lengths of the arrays a caller may pass, relative to
                \* TDS_SNAP_COUNT: negative is too short
  Attempts,     \* tries per read (4)
  SeqModulus,   \* 2^32, the width of sSeq
  MaxFrames     \* bound: calls of Publish in one behaviour

ASSUME SlotsAssumption == Slots # {}
ASSUME BufferAssumption == BufferSizes \subseteq Int
ASSUME AttemptsAssumption == Attempts \in Nat \ {0}
ASSUME ModulusAssumption ==
  SeqModulus \in Nat \ {0} /\ SeqModulus % 2 = 0
ASSUME FramesAssumption == MaxFrames \in Nat

VARIABLES
  seqStores,   \* stores made to sSeq
  slotStores,  \* stores made to each slot
  wpc,         \* where Publish is
  rpc,         \* where TerminaDS_ReadSnapshot is
  attempt,     \* its loop counter, from 1
  before,      \* the store of sSeq its first load returned
  out,         \* the caller's array: for each slot, the frame it was copied from
  copied,      \* slots copied so far in this attempt
  seqSeen,     \* oldest store of sSeq the reader may still load
  slotSeen,    \* oldest store of each slot the reader may still load
  owed,        \* what the next acquire fence adds to seqSeen
  status,      \* what the last read returned
  shown        \* the array as the last OK read handed it on

writer == <<seqStores, slotStores, wpc>>
reader == <<rpc, attempt, before, out, copied, seqSeen, slotSeen, owed, status,
            shown>>
vars == <<seqStores, slotStores, wpc, rpc, attempt, before, out, copied,
          seqSeen, slotSeen, owed, status, shown>>

-----------------------------------------------------------------------------
Wrap(p) == p % SeqModulus
IsOdd(p) == Wrap(p) % 2 # 0
Later(m, n) == IF m >= n THEN m ELSE n

(* Mutation: the second store of sSeq is relaxed. *)
FrameReleasedByRelaxed(p) == 0

(* The even store 2n of sSeq is a release store: a load that acquires it   *)
(* sees store n of every slot.                                             *)
FrameReleasedBy(p) == p \div 2

(* Mutation: no release fence after the odd store. *)
SeqFencedBeforeUnfenced(n) == 0

(* Store n of a slot is relaxed but follows the release fence of Publish   *)
(* n, itself after store 2n-1 of sSeq: an acquire fence after loading it   *)
(* brings that store into view.  Frame 0 is the initial value.             *)
SeqFencedBefore(n) == IF n = 0 THEN 0 ELSE 2 * n - 1

(* Assumption on time: from the store its first load returns to the end of *)
(* an attempt, the game thread does not publish 2^31 frames (about a year  *)
(* at 60 per second), so that sSeq cannot come back to the same word.      *)
NoLap(p, stores) == stores < p + SeqModulus

Busy == rpc # "idle"
InAttempt == rpc \in {"copy", "fence", "recheck"}

-----------------------------------------------------------------------------
Init ==
  /\ seqStores = 0
  /\ slotStores = [i \in Slots |-> 0]
  /\ wpc = "idle"
  /\ rpc = "idle" /\ attempt = 1 /\ before = 0
  /\ out = [i \in Slots |-> 0] /\ copied = {}
  /\ seqSeen = 0 /\ slotSeen = [i \in Slots |-> 0] /\ owed = 0
  /\ status = "none"
  /\ shown = [i \in Slots |-> 0]

-----------------------------------------------------------------------------
(* The game thread: the tail of Publish, once v[] is filled.               *)

(* The relaxed odd store, and the release fence after it. *)
PublishBegin ==
  /\ wpc = "idle"
  /\ seqStores < 2 * MaxFrames
  /\ InAttempt => NoLap(before, seqStores + 1)
  /\ seqStores' = seqStores + 1
  /\ wpc' = "store"
  /\ UNCHANGED <<slotStores, reader>>

(* The relaxed stores of the values, in the order of the slots or any other. *)
PublishSlot(i) ==
  /\ wpc = "store"
  /\ 2 * slotStores[i] < seqStores
  /\ slotStores' = [slotStores EXCEPT ![i] = @ + 1]
  /\ UNCHANGED <<seqStores, wpc, reader>>

(* The release store of the next even number. *)
PublishEnd ==
  /\ wpc = "store"
  /\ \A i \in Slots : 2 * slotStores[i] > seqStores
  /\ InAttempt => NoLap(before, seqStores + 1)
  /\ seqStores' = seqStores + 1
  /\ wpc' = "idle"
  /\ UNCHANGED <<slotStores, reader>>

-----------------------------------------------------------------------------
(* The Android main thread: TerminaDS_ReadSnapshot, and the copy to Java   *)
(* that nativeReadSnapshot makes of an OK read only.                       *)

ReadRefused(size) ==
  /\ rpc = "idle"
  /\ size < 0
  /\ status' = "BUFFER_TOO_SMALL"
  /\ UNCHANGED <<rpc, attempt, before, out, copied, seqSeen, slotSeen, owed,
                 shown, writer>>

ReadBegin(size) ==
  /\ rpc = "idle"
  /\ size >= 0
  /\ attempt' = 1
  /\ rpc' = "load"
  /\ UNCHANGED <<before, out, copied, seqSeen, slotSeen, owed, status, shown,
                 writer>>

(* Mutation: no bound on the attempts. *)
NextAttemptForever == rpc' = "load" /\ UNCHANGED <<attempt, status>>

(* What "continue" and a failed comparison lead to. *)
NextAttempt ==
  IF attempt < Attempts
    THEN rpc' = "load" /\ attempt' = attempt + 1 /\ UNCHANGED status
    ELSE rpc' = "idle" /\ UNCHANGED attempt /\ status' = "RETRY_EXHAUSTED"

(* The acquire load finds an odd number: a write is in progress. *)
ReadCollides ==
  /\ rpc = "load"
  /\ \E p \in seqSeen .. seqStores :
       /\ IsOdd(p)
       /\ seqSeen' = p
  /\ NextAttempt
  /\ UNCHANGED <<before, out, copied, slotSeen, owed, shown, writer>>

(* The acquire load finds an even number. *)
ReadStarts ==
  /\ rpc = "load"
  /\ \E p \in seqSeen .. seqStores :
       /\ ~IsOdd(p)
       /\ NoLap(p, seqStores)
       /\ before' = p
       /\ seqSeen' = p
       /\ slotSeen' = [i \in Slots |-> Later(slotSeen[i], FrameReleasedBy(p))]
  /\ copied' = {}
  /\ rpc' = "copy"
  /\ UNCHANGED <<attempt, out, owed, status, shown, writer>>

(* out[i] = sValues[i].load(relaxed). *)
ReadSlot(i) ==
  /\ rpc = "copy"
  /\ i \notin copied
  /\ \E n \in slotSeen[i] .. slotStores[i] :
       /\ out' = [out EXCEPT ![i] = n]
       /\ slotSeen' = [slotSeen EXCEPT ![i] = n]
       /\ owed' = Later(owed, SeqFencedBefore(n))
  /\ copied' = copied \cup {i}
  /\ rpc' = IF copied' = Slots THEN "fence" ELSE "copy"
  /\ UNCHANGED <<attempt, before, seqSeen, status, shown, writer>>

ReadFence ==
  /\ rpc = "fence"
  /\ seqSeen' = Later(seqSeen, owed)
  /\ rpc' = "recheck"
  /\ UNCHANGED <<attempt, before, out, copied, slotSeen, owed, status, shown,
                 writer>>

(* The relaxed second load of sSeq agrees with the first, or not. *)
ReadAgrees ==
  /\ rpc = "recheck"
  /\ \E p \in seqSeen .. seqStores :
       /\ Wrap(p) = Wrap(before)
       /\ seqSeen' = p
  /\ shown' = out
  /\ status' = "OK"
  /\ rpc' = "idle"
  /\ UNCHANGED <<attempt, before, out, copied, slotSeen, owed, writer>>

ReadDiffers ==
  /\ rpc = "recheck"
  /\ \E p \in seqSeen .. seqStores :
       /\ Wrap(p) # Wrap(before)
       /\ seqSeen' = p
  /\ NextAttempt
  /\ UNCHANGED <<before, out, copied, slotSeen, owed, shown, writer>>

-----------------------------------------------------------------------------
Publish == PublishBegin \/ (\E i \in Slots : PublishSlot(i)) \/ PublishEnd

ReadStep ==
  \/ ReadCollides \/ ReadStarts \/ (\E i \in Slots : ReadSlot(i))
  \/ ReadFence \/ ReadAgrees \/ ReadDiffers

Read == (\E size \in BufferSizes : ReadRefused(size) \/ ReadBegin(size)) \/ ReadStep

Next == Publish \/ Read

(* A read once begun runs on; the game thread may stop anywhere, in the    *)
(* middle of a publish too (it can be descheduled there).                  *)
Spec == Init /\ [][Next]_vars /\ WF_vars(ReadStep)

-----------------------------------------------------------------------------
(* Every variable has its type. *)
TypeOK ==
  /\ seqStores \in Nat
  /\ slotStores \in [Slots -> Nat]
  /\ wpc \in {"idle", "store"}
  /\ rpc \in {"idle", "load", "copy", "fence", "recheck"}
  /\ attempt \in 1 .. Attempts
  /\ before \in Nat
  /\ out \in [Slots -> Nat]
  /\ copied \subseteq Slots
  /\ seqSeen \in Nat
  /\ slotSeen \in [Slots -> Nat]
  /\ owed \in Nat
  /\ status \in {"none", "OK", "RETRY_EXHAUSTED", "BUFFER_TOO_SMALL"}
  /\ shown \in [Slots -> Nat]

(* The snapshot handed to Kotlin is one frame: no slot comes from another  *)
(* frame than its neighbours (SnapshotPublisher.cpp:189-200 and :254-265). *)
NeverTorn == \A i, j \in Slots : shown[i] = shown[j]

(* Only complete frames are ever handed on: while Publish is in the middle *)
(* of frame n, no reader has frame n.                                      *)
NeverUnfinished == \A i \in Slots : 2 * shown[i] <= seqStores

(* The read is wait-free: it returns whatever the game thread does, even   *)
(* when that stops in the middle of a publish (GameSnapshotPoller.kt:54,   *)
(* "It never blocks").                                                     *)
ReadReturns == Busy ~> ~Busy

(* Seen from outside, sSeq and the slots together are one register of      *)
(* frames: a read answers OK with a complete frame, never an older one than*)
(* before.                                                                 *)
ShownFrame == CHOOSE n \in {shown[i] : i \in Slots} : TRUE
Register == INSTANCE FrameRegister
              WITH published <- seqStores \div 2,
                   shown <- IF NeverTorn THEN ShownFrame ELSE -1
ImplementsRegister == Register!Spec

-----------------------------------------------------------------------------
(* The inductive invariant behind the three properties above.              *)

(* The writer: between publishes every slot has one store per frame;       *)
(* during one, the slots already stored are one frame ahead.               *)
WriterInv ==
  /\ wpc = "idle" => \A i \in Slots : 2 * slotStores[i] = seqStores
  /\ wpc = "store" =>
       \A i \in Slots : 2 * slotStores[i] \in {seqStores - 1, seqStores + 1}

(* The reader's bounds are within what was stored. *)
ViewInv ==
  /\ seqSeen <= seqStores
  /\ owed <= seqStores
  /\ \A i \in Slots : slotSeen[i] <= slotStores[i]

(* An attempt: every slot copied is of the frame the attempt began with,   *)
(* or newer, and then the fence will show that sSeq has moved on.          *)
AttemptInv ==
  InAttempt =>
    /\ before % 2 = 0
    /\ before <= seqSeen
    /\ NoLap(before, seqStores)
    /\ \A i \in Slots : 2 * slotSeen[i] >= before
    /\ \A i \in copied :
         /\ 2 * out[i] >= before
         /\ 2 * out[i] > before => 2 * out[i] - 1 <= owed
    /\ rpc \in {"fence", "recheck"} => copied = Slots
    /\ rpc = "recheck" => owed <= seqSeen

(* What was handed on is one frame, already in view of every later load.   *)
ShownInv ==
  /\ NeverTorn
  /\ \A i \in Slots : 2 * shown[i] <= seqSeen
  /\ InAttempt => \A i \in Slots : 2 * shown[i] <= before

IInv == TypeOK /\ WriterInv /\ ViewInv /\ AttemptInv /\ ShownInv
=============================================================================
