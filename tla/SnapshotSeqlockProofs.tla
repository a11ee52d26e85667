------------------------ MODULE SnapshotSeqlockProofs ------------------------
(***************************************************************************)
(* Proofs about SnapshotSeqlock, for any number of slots, of attempts and  *)
(* of frames, and any even modulus of the sequence word.                   *)
(***************************************************************************)
EXTENDS SnapshotSeqlock, TLAPS

(* Facts about a counter kept modulo a word size. *)

(* Quotient and remainder, in the form the provers can use. *)
LEMMA DivMod ==
  ASSUME NEW a \in Int, NEW m \in Nat \ {0}
  PROVE  /\ a \div m \in Int
         /\ a % m \in 0 .. m - 1
         /\ a = m * (a \div m) + (a % m)
OBVIOUS

(* A multiple of m between -m and m, both excluded, is zero. *)
LEMMA SmallMultiple ==
  ASSUME NEW m \in Nat \ {0}, NEW q \in Int, m * q < m, m * q > -m
  PROVE  q = 0
OBVIOUS

(* Products distribute over differences. *)
LEMMA Distribute ==
  ASSUME NEW m \in Int, NEW p \in Int, NEW q \in Int
  PROVE  /\ m * (p - q) = m * p - m * q
         /\ m * p \in Int /\ m * q \in Int
OBVIOUS

(* Two counters less than one lap apart are equal when their words are. *)
LEMMA SameWord ==
  ASSUME NEW a \in Int, NEW b \in Int, NEW m \in Nat \ {0},
         a <= b, b < a + m, a % m = b % m
  PROVE  a = b
<1> DEFINE p == a \div m
           q == b \div m
           r == a % m
<1>1. p \in Int /\ q \in Int /\ r \in 0 .. m - 1
  BY DivMod
<1>2. a = m * p + r /\ b = m * q + r
  BY DivMod
<1> HIDE DEF p, q, r
<1>3. m * (q - p) = m * q - m * p /\ m * p \in Int /\ m * q \in Int
  BY <1>1, Distribute
<1>4. m * q - m * p = b - a
  BY <1>1, <1>2, <1>3
<1>5. q - p = 0
  BY <1>1, <1>3, <1>4, SmallMultiple
<1> QED
  BY <1>1, <1>2, <1>5

(* A word of sSeq is odd exactly when the store it holds is. *)
LEMMA OddWord ==
  ASSUME NEW p \in Nat
  PROVE  IsOdd(p) <=> p % 2 = 1
<1> DEFINE h == SeqModulus \div 2
           q == p \div SeqModulus
           r == p % SeqModulus
<1>1. SeqModulus \in Nat \ {0} /\ SeqModulus % 2 = 0
  BY ModulusAssumption
<1>2. h \in Int /\ SeqModulus = 2 * h + (SeqModulus % 2)
  BY <1>1, DivMod
<1>3. q \in Int /\ r \in Int /\ p = SeqModulus * q + r
  BY <1>1, DivMod
<1> HIDE DEF h, q, r
<1>4. SeqModulus * q = 2 * (h * q) /\ h * q \in Int
  BY <1>1, <1>2, <1>3
<1> DEFINE t == h * q
<1>5. t \in Int /\ p = 2 * t + r
  BY <1>3, <1>4
<1> HIDE DEF t
<1>6. r % 2 = p % 2 /\ p % 2 \in {0, 1}
  BY <1>3, <1>5
<1> QED
  BY <1>6 DEF IsOdd, Wrap, r

(* Within NoLap, agreeing words of sSeq mean that nothing was stored.      *)
LEMMA AgreeingWords ==
  ASSUME NEW p \in Nat, NEW q \in Nat, p <= q, NoLap(p, q), Wrap(q) = Wrap(p)
  PROVE  q = p
<1>1. p \in Int /\ q \in Int /\ SeqModulus \in Nat \ {0}
  BY ModulusAssumption
<1>2. q < p + SeqModulus /\ p % SeqModulus = q % SeqModulus
  BY DEF NoLap, Wrap
<1> QED
  BY <1>1, <1>2, SameWord

(* Every variable keeps its type, whatever the two threads do. *)
THEOREM TypeCorrect == Spec => []TypeOK
<1> USE AttemptsAssumption, SlotsAssumption
<1>1. Init => TypeOK
  BY DEF Init, TypeOK
<1>2. TypeOK /\ [Next]_vars => TypeOK'
  <2> SUFFICES ASSUME TypeOK, [Next]_vars
               PROVE  TypeOK'
    OBVIOUS
  <2> USE DEF TypeOK, Later
  <2>1. CASE PublishBegin
    BY <2>1 DEF PublishBegin, reader
  <2>2. ASSUME NEW i \in Slots, PublishSlot(i)
        PROVE  TypeOK'
    BY <2>2 DEF PublishSlot, reader
  <2>3. CASE PublishEnd
    BY <2>3 DEF PublishEnd, reader
  <2>4. ASSUME NEW size \in BufferSizes, ReadRefused(size) \/ ReadBegin(size)
        PROVE  TypeOK'
    BY <2>4 DEF ReadRefused, ReadBegin, writer
  <2>5. CASE ReadCollides
    BY <2>5 DEF ReadCollides, NextAttempt, writer
  <2>6. CASE ReadStarts
    BY <2>6 DEF ReadStarts, FrameReleasedBy, writer
  <2>7. ASSUME NEW i \in Slots, ReadSlot(i)
        PROVE  TypeOK'
    BY <2>7 DEF ReadSlot, SeqFencedBefore, writer
  <2>8. CASE ReadFence
    BY <2>8 DEF ReadFence, writer
  <2>9. CASE ReadAgrees
    BY <2>9 DEF ReadAgrees, writer
  <2>10. CASE ReadDiffers
    BY <2>10 DEF ReadDiffers, NextAttempt, writer
  <2>11. CASE UNCHANGED vars
    BY <2>11 DEF vars
  <2> QED
    BY <2>1, <2>2, <2>3, <2>4, <2>5, <2>6, <2>7, <2>8, <2>9, <2>10, <2>11
       DEF Next, Publish, Read, ReadStep
<1>3. QED
  BY <1>1, <1>2, PTL DEF Spec

(***************************************************************************)
(* The inductive invariant, one part at a time.  Each lemma takes one      *)
(* step; SeqlockInvariant puts them together.                              *)
(***************************************************************************)
LEMMA InitInv == Init => IInv
<1> SUFFICES ASSUME Init
             PROVE  IInv
  OBVIOUS
<1>1. TypeOK
  BY AttemptsAssumption DEF Init, TypeOK
<1> QED
  BY <1>1 DEF Init, IInv, WriterInv, ViewInv, AttemptInv, ShownInv, NeverTorn,
              InAttempt

LEMMA PublishKeepsInv ==
  ASSUME IInv, TypeOK', Publish
  PROVE  IInv'
<1> USE DEF IInv, TypeOK, InAttempt
<1>1. CASE PublishBegin
  <2>1. WriterInv' /\ ViewInv'
    BY <1>1 DEF PublishBegin, reader, WriterInv, ViewInv
  <2>2. AttemptInv'
    BY <1>1 DEF PublishBegin, reader, AttemptInv, NoLap
  <2>3. ShownInv'
    BY <1>1 DEF PublishBegin, reader, ShownInv, NeverTorn
  <2> QED
    BY <2>1, <2>2, <2>3
<1>2. ASSUME NEW i \in Slots, PublishSlot(i)
      PROVE  IInv'
  <2>1. WriterInv' /\ ViewInv'
    <3>1. /\ UNCHANGED <<seqStores, wpc, seqSeen, slotSeen, owed>>
          /\ wpc = "store" /\ 2 * slotStores[i] < seqStores
          /\ slotStores' = [slotStores EXCEPT ![i] = @ + 1]
      BY <1>2 DEF PublishSlot, reader
    <3>2. slotStores'[i] = slotStores[i] + 1 /\ 2 * slotStores[i] = seqStores - 1
      BY <3>1 DEF WriterInv
    <3>3. \A j \in Slots : j # i => slotStores'[j] = slotStores[j]
      BY <3>1
    <3>4. WriterInv'
      <4>1. ASSUME NEW j \in Slots
            PROVE  2 * slotStores'[j] \in {seqStores - 1, seqStores + 1}
        <5>1. slotStores[j] \in Nat
              /\ 2 * slotStores[j] \in {seqStores - 1, seqStores + 1}
          BY <3>1 DEF WriterInv
        <5>2. CASE j = i
          BY <3>2, <5>1, <5>2
        <5>3. CASE j # i
          BY <3>3, <5>1, <5>3
        <5> QED
          BY <5>2, <5>3
      <4> QED
        BY <3>1, <4>1 DEF WriterInv
    <3>5. ASSUME NEW j \in Slots
          PROVE  slotSeen'[j] <= slotStores'[j]
      <4>1. slotSeen[j] \in Nat /\ slotStores[j] \in Nat /\ slotSeen[j] <= slotStores[j]
        BY DEF ViewInv
      <4>2. slotStores[j] <= slotStores'[j] /\ slotStores'[j] \in Nat
        BY <3>2, <3>3, <4>1
      <4> QED
        BY <3>1, <4>1, <4>2
    <3> QED
      BY <3>1, <3>4, <3>5 DEF ViewInv
  <2>2. AttemptInv'
    BY <1>2 DEF PublishSlot, reader, AttemptInv, NoLap
  <2>3. ShownInv'
    BY <1>2 DEF PublishSlot, reader, ShownInv, NeverTorn
  <2> QED
    BY <2>1, <2>2, <2>3
<1>3. CASE PublishEnd
  <2>1. WriterInv' /\ ViewInv'
    BY <1>3 DEF PublishEnd, reader, WriterInv, ViewInv
  <2>2. AttemptInv'
    BY <1>3 DEF PublishEnd, reader, AttemptInv, NoLap
  <2>3. ShownInv'
    BY <1>3 DEF PublishEnd, reader, ShownInv, NeverTorn
  <2> QED
    BY <2>1, <2>2, <2>3
<1> QED
  BY <1>1, <1>2, <1>3 DEF Publish

(* A first load that finds an even number starts an attempt in good order: *)
(* it is past every frame handed on, and all its frame's slots are in view.*)
LEMMA ReadStartsKeepsInv ==
  ASSUME IInv, TypeOK', ReadStarts
  PROVE  IInv'
<1> USE DEF IInv, TypeOK
<1> PICK p \in seqSeen .. seqStores :
      /\ ~IsOdd(p)
      /\ NoLap(p, seqStores)
      /\ before' = p
      /\ seqSeen' = p
      /\ slotSeen' = [i \in Slots |-> Later(slotSeen[i], FrameReleasedBy(p))]
  BY DEF ReadStarts
<1>1. p \in Nat /\ p % 2 = 0 /\ p <= seqStores /\ seqSeen <= p
  BY OddWord
<1>2. UNCHANGED <<seqStores, slotStores, wpc, out, owed, shown>>
      /\ rpc' = "copy" /\ copied' = {}
  BY DEF ReadStarts, writer
<1>3. 2 * (p \div 2) = p /\ p \div 2 \in Nat
  BY <1>1
<1>4. WriterInv'
  BY <1>2 DEF WriterInv
<1>5. \A i \in Slots : p \div 2 <= slotStores[i]
  BY <1>1, <1>3 DEF WriterInv
<1>6. ViewInv'
  BY <1>1, <1>2, <1>3, <1>5 DEF ViewInv, Later, FrameReleasedBy
<1>7. AttemptInv'
  BY <1>1, <1>2, <1>3 DEF AttemptInv, InAttempt, Later, FrameReleasedBy
<1>8. ShownInv'
  BY <1>1, <1>2 DEF ShownInv, NeverTorn, InAttempt
<1> QED
  BY <1>4, <1>6, <1>7, <1>8

(* A slot copied from a newer frame leaves its debt to the fence. *)
LEMMA ReadSlotKeepsInv ==
  ASSUME IInv, TypeOK', NEW i \in Slots, ReadSlot(i)
  PROVE  IInv'
<1> USE DEF IInv, TypeOK
<1> PICK n \in slotSeen[i] .. slotStores[i] :
      /\ out' = [out EXCEPT ![i] = n]
      /\ slotSeen' = [slotSeen EXCEPT ![i] = n]
      /\ owed' = Later(owed, SeqFencedBefore(n))
  BY DEF ReadSlot
<1>1. n \in Nat /\ slotSeen[i] <= n /\ n <= slotStores[i]
  OBVIOUS
<1>2. /\ UNCHANGED <<seqStores, slotStores, wpc, before, seqSeen, shown>>
      /\ rpc = "copy"
      /\ copied' = copied \cup {i}
      /\ rpc' = IF copied' = Slots THEN "fence" ELSE "copy"
  BY DEF ReadSlot, writer
<1>3. WriterInv'
  BY <1>2 DEF WriterInv
<1>4. SeqFencedBefore(n) <= seqStores
  BY <1>1 DEF SeqFencedBefore, WriterInv
<1>5. ViewInv'
  BY <1>1, <1>2, <1>4 DEF ViewInv, Later
<1>6. owed <= owed' /\ SeqFencedBefore(n) <= owed'
  BY <1>1 DEF Later, SeqFencedBefore
<1>7. AttemptInv'
  <2>1. /\ before % 2 = 0 /\ before <= seqSeen /\ NoLap(before, seqStores)
        /\ \A j \in Slots : 2 * slotSeen[j] >= before
        /\ \A j \in copied :
             2 * out[j] >= before /\ (2 * out[j] > before => 2 * out[j] - 1 <= owed)
    BY <1>2 DEF AttemptInv, InAttempt
  <2>2. \A j \in Slots : 2 * slotSeen'[j] >= before
    BY <1>1, <2>1
  <2>3. ASSUME NEW j \in copied'
        PROVE  /\ 2 * out'[j] >= before
               /\ 2 * out'[j] > before => 2 * out'[j] - 1 <= owed'
    <3>1. CASE j = i
      BY <1>1, <1>6, <2>1, <3>1 DEF SeqFencedBefore
    <3>2. CASE j # i
      BY <1>2, <1>6, <2>1, <2>3, <3>2
    <3> QED
      BY <3>1, <3>2
  <2> QED
    BY <1>2, <2>1, <2>2, <2>3 DEF AttemptInv, InAttempt, NoLap
<1>8. ShownInv'
  BY <1>2 DEF ShownInv, NeverTorn, InAttempt
<1> QED
  BY <1>3, <1>5, <1>7, <1>8

(* What the fence is owed, it gets. *)
LEMMA ReadFenceKeepsInv ==
  ASSUME IInv, TypeOK', ReadFence
  PROVE  IInv'
<1> USE DEF IInv, TypeOK, Later
<1>1. WriterInv' /\ ViewInv'
  BY DEF ReadFence, writer, WriterInv, ViewInv
<1>2. AttemptInv'
  BY DEF ReadFence, writer, AttemptInv, InAttempt, NoLap
<1>3. ShownInv'
  BY DEF ReadFence, writer, ShownInv, NeverTorn, InAttempt
<1> QED
  BY <1>1, <1>2, <1>3

(* When the two loads of sSeq agree, every slot is of the frame that the   *)
(* first load found complete.                                              *)
LEMMA AgreementIsOneFrame ==
  ASSUME IInv, ReadAgrees
  PROVE  /\ \A i \in Slots : 2 * out[i] = before
         /\ before % 2 = 0
         /\ seqSeen' = before
         /\ shown' = out
<1> USE DEF IInv, TypeOK
<1> PICK p \in seqSeen .. seqStores : Wrap(p) = Wrap(before) /\ seqSeen' = p
  BY DEF ReadAgrees
<1>1. rpc = "recheck" /\ shown' = out
  BY DEF ReadAgrees
<1>2. /\ before % 2 = 0 /\ before <= seqSeen /\ NoLap(before, seqStores)
      /\ copied = Slots /\ owed <= seqSeen
      /\ \A i \in Slots :
           2 * out[i] >= before /\ (2 * out[i] > before => 2 * out[i] - 1 <= owed)
  BY <1>1 DEF AttemptInv, InAttempt
<1>3. p \in Nat /\ before <= p /\ NoLap(before, p)
  BY <1>2, ModulusAssumption DEF NoLap
<1>4. p = before
  BY <1>3, AgreeingWords
<1>5. owed <= before
  BY <1>2, <1>4
<1>6. ASSUME NEW i \in Slots
      PROVE  2 * out[i] = before
  BY <1>2, <1>5
<1> QED
  BY <1>1, <1>2, <1>4, <1>6

LEMMA ReadAgreesKeepsInv ==
  ASSUME IInv, TypeOK', ReadAgrees
  PROVE  IInv'
<1> USE DEF IInv, TypeOK
<1>1. /\ \A i \in Slots : 2 * out[i] = before
      /\ seqSeen' = before
      /\ shown' = out
  BY AgreementIsOneFrame
<1>2. /\ UNCHANGED <<seqStores, slotStores, wpc, before, slotSeen, owed>>
      /\ rpc = "recheck" /\ rpc' = "idle"
  BY DEF ReadAgrees, writer
<1>3. before <= seqSeen
  BY <1>2 DEF AttemptInv, InAttempt
<1>4. WriterInv'
  BY <1>2 DEF WriterInv
<1>5. ViewInv'
  BY <1>1, <1>2, <1>3 DEF ViewInv
<1>6. AttemptInv'
  BY <1>2 DEF AttemptInv, InAttempt
<1>7. ShownInv'
  BY <1>1, <1>2 DEF ShownInv, NeverTorn, InAttempt
<1> QED
  BY <1>4, <1>5, <1>6, <1>7

(* Failing an attempt only moves the reader's view of sSeq forward. *)
LEMMA ReadFailsKeepsInv ==
  ASSUME IInv, TypeOK', ReadCollides \/ ReadDiffers
  PROVE  IInv'
<1> USE DEF IInv, TypeOK
<1>1. /\ UNCHANGED <<seqStores, slotStores, wpc, slotSeen, owed, shown>>
      /\ rpc' \in {"load", "idle"}
      /\ \E p \in seqSeen .. seqStores : seqSeen' = p
  BY DEF ReadCollides, ReadDiffers, NextAttempt, writer
<1>2. seqSeen <= seqSeen' /\ seqSeen' <= seqStores
  BY <1>1
<1>3. WriterInv'
  BY <1>1 DEF WriterInv
<1>4. ViewInv'
  BY <1>1, <1>2 DEF ViewInv
<1>5. AttemptInv'
  BY <1>1 DEF AttemptInv, InAttempt
<1>6. ShownInv'
  BY <1>1, <1>2 DEF ShownInv, NeverTorn, InAttempt
<1> QED
  BY <1>3, <1>4, <1>5, <1>6

LEMMA ReadCallKeepsInv ==
  ASSUME IInv, TypeOK', NEW size \in BufferSizes,
         ReadRefused(size) \/ ReadBegin(size)
  PROVE  IInv'
<1>1. UNCHANGED <<seqStores, slotStores, wpc, before, out, copied, seqSeen,
                  slotSeen, owed, shown>>
      /\ rpc' \in {"load", "idle"}
  BY DEF ReadRefused, ReadBegin, writer
<1> QED
  BY <1>1 DEF IInv, WriterInv, ViewInv, AttemptInv, ShownInv, NeverTorn, InAttempt

(* The invariant holds in every state of every behaviour. *)
THEOREM SeqlockInvariant == Spec => []IInv
<1>1. IInv /\ TypeOK' /\ [Next]_vars => IInv'
  <2> SUFFICES ASSUME IInv, TypeOK', [Next]_vars
               PROVE  IInv'
    OBVIOUS
  <2>1. CASE UNCHANGED vars
    BY <2>1 DEF vars, IInv, TypeOK, WriterInv, ViewInv, AttemptInv, ShownInv,
                NeverTorn, InAttempt, NoLap
  <2> QED
    BY <2>1, PublishKeepsInv, ReadStartsKeepsInv, ReadSlotKeepsInv,
       ReadFenceKeepsInv, ReadAgreesKeepsInv, ReadFailsKeepsInv, ReadCallKeepsInv
       DEF Next, Read, ReadStep
<1>2. QED
  BY InitInv, <1>1, TypeCorrect, PTL DEF Spec

(* No read ever hands Kotlin a snapshot mixed from two frames.  This is    *)
(* what the odd and even numbers, the two fences and the acquire and       *)
(* release of sSeq are for.                                                *)
THEOREM SnapshotNeverTorn == Spec => []NeverTorn
<1>1. IInv => NeverTorn
  BY DEF IInv, ShownInv
<1> QED
  BY <1>1, SeqlockInvariant, PTL

(* No read ever hands on a frame that is still being published. *)
THEOREM SnapshotNeverUnfinished == Spec => []NeverUnfinished
<1>1. IInv => NeverUnfinished
  <2> SUFFICES ASSUME IInv, NEW i \in Slots
               PROVE  2 * shown[i] <= seqStores
    BY DEF NeverUnfinished
  <2>1. 2 * shown[i] <= seqSeen /\ seqSeen <= seqStores
    BY DEF IInv, ViewInv, ShownInv
  <2>2. shown[i] \in Nat /\ seqSeen \in Nat /\ seqStores \in Nat
    BY DEF IInv, TypeOK
  <2> QED
    BY <2>1, <2>2
<1> QED
  BY <1>1, SeqlockInvariant, PTL

(***************************************************************************)
(* Every step of the two threads is a step of the abstract register, or    *)
(* leaves it alone: an even store of sSeq publishes a frame, an agreeing   *)
(* second load reads one.                                                  *)
(***************************************************************************)
LEMMA ShownFrameIsEach ==
  ASSUME NeverTorn, NEW i \in Slots
  PROVE  ShownFrame = shown[i]
<1>1. {shown[j] : j \in Slots} = {shown[i]}
  BY DEF NeverTorn
<1> QED
  BY <1>1 DEF ShownFrame

LEMMA Halves ==
  ASSUME NEW n \in Nat
  PROVE  /\ n % 2 = 0 => (n + 1) \div 2 = n \div 2
         /\ n % 2 = 1 => (n + 1) \div 2 = (n \div 2) + 1
         /\ n \div 2 \in Nat
         /\ 2 * (n \div 2) <= n
OBVIOUS

(* The register of frames is what the sequence lock implements. *)
THEOREM SeqlockImplementsRegister == Spec => ImplementsRegister
<1> USE DEF Register!Init, Register!Next, Register!Publish, Register!Read,
            Register!vars
<1>1. Init => Register!Init
  <2> SUFFICES ASSUME Init
               PROVE  Register!Init
    OBVIOUS
  <2>1. PICK i \in Slots : TRUE
    BY SlotsAssumption
  <2>2. NeverTorn /\ shown[i] = 0 /\ seqStores = 0
    BY DEF Init, NeverTorn
  <2> QED
    BY <2>1, <2>2, ShownFrameIsEach
<1>2. IInv /\ IInv' /\ [Next]_vars => [Register!Next]_(Register!vars)
  <2> SUFFICES ASSUME IInv, IInv', [Next]_vars
               PROVE  [Register!Next]_(Register!vars)
    OBVIOUS
  <2>1. PICK i \in Slots : TRUE
    BY SlotsAssumption
  <2>2. /\ NeverTorn /\ NeverTorn'
        /\ ShownFrame = shown[i] /\ ShownFrame' = shown'[i]
    <3>1. NeverTorn /\ NeverTorn'
      BY DEF IInv, ShownInv
    <3>2. ShownFrame = shown[i]
      BY <2>1, <3>1, ShownFrameIsEach
    <3>3. {shown'[j] : j \in Slots} = {shown'[i]}
      BY <2>1, <3>1 DEF NeverTorn
    <3> QED
      BY <3>1, <3>2, <3>3 DEF ShownFrame
  <2>3. /\ seqStores \in Nat /\ seqStores' \in Nat
        /\ shown[i] \in Nat /\ shown'[i] \in Nat
    BY <2>1 DEF IInv, TypeOK
  <2>4. CASE PublishBegin \/ PublishEnd
    <3>1. seqStores' = seqStores + 1 /\ shown' = shown
      BY <2>4 DEF PublishBegin, PublishEnd, reader
    <3> QED
      BY <2>2, <2>3, <3>1, Halves
  <2>5. CASE ReadAgrees
    <3>1. /\ seqStores' = seqStores /\ rpc = "recheck"
      BY <2>5 DEF ReadAgrees, writer
    <3>2. 2 * shown'[i] = before /\ before <= seqStores
      <4>1. 2 * out[i] = before /\ shown' = out
        BY <2>1, <2>5, AgreementIsOneFrame
      <4>2. before <= seqSeen /\ seqSeen <= seqStores
        BY <3>1 DEF IInv, AttemptInv, ViewInv, InAttempt
      <4>3. before \in Nat /\ seqSeen \in Nat
        BY DEF IInv, TypeOK
      <4> QED
        BY <2>3, <4>1, <4>2, <4>3
    <3>3. 2 * shown[i] <= before
      BY <2>1, <3>1 DEF IInv, ShownInv, InAttempt
    <3>4. shown'[i] \in shown[i] .. (seqStores \div 2)
      BY <2>3, <3>2, <3>3
    <3> QED
      BY <2>2, <3>1, <3>4
  <2>6. CASE UNCHANGED <<seqStores, shown>>
    BY <2>2, <2>6
  <2>7. (PublishBegin \/ PublishEnd) \/ ReadAgrees \/ UNCHANGED <<seqStores, shown>>
    BY DEF Next, Publish, Read, ReadStep, PublishSlot, ReadRefused, ReadBegin,
           ReadCollides, ReadStarts, ReadSlot, ReadFence, ReadDiffers, reader,
           writer, vars
  <2> QED
    BY <2>4, <2>5, <2>6, <2>7
<1>3. QED
  BY <1>1, <1>2, SeqlockInvariant, PTL DEF Spec, ImplementsRegister, Register!Spec
=============================================================================
