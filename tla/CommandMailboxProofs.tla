------------------------ MODULE CommandMailboxProofs ------------------------
(***************************************************************************)
(* Proofs about CommandMailbox, for any ring capacity, any counter width   *)
(* that is a multiple of it, and any number of submissions.                *)
(***************************************************************************)
EXTENDS CommandMailbox, TLAPS

(* Counters kept modulo a word size: what they still tell once they have   *)
(* wrapped.                                                                *)

(* Quotient and remainder, in the form the provers can use. *)
LEMMA DivMod ==
  ASSUME NEW a \in Int, NEW m \in Nat \ {0}
  PROVE  /\ a \div m \in Int
         /\ a % m \in 0 .. m - 1
         /\ a = m * (a \div m) + (a % m)
OBVIOUS

(* A multiple of m between -m and m, both excluded, is zero. *)
LEMMA SmallMultiple ==
  ASSUME NEW m \in Nat \ {0}, NEW q \in Int, m * q < m, m * q > -m
  PROVE  q = 0
OBVIOUS

(* Products distribute over differences. *)
LEMMA Distribute ==
  ASSUME NEW m \in Int, NEW p \in Int, NEW q \in Int
  PROVE  /\ m * (p - q) = m * p - m * q
         /\ m * p \in Int /\ m * q \in Int
OBVIOUS

(* Quotient and remainder are unique. *)
LEMMA ModUnique ==
  ASSUME NEW a \in Int, NEW m \in Nat \ {0}, NEW q \in Int, NEW r \in 0 .. m - 1,
         a = m * q + r
  PROVE  a % m = r /\ a \div m = q
<1> DEFINE d == a \div m
           s == a % m
<1>1. d \in Int /\ s \in 0 .. m - 1 /\ a = m * d + s
  BY DivMod
<1> HIDE DEF d, s
<1>2. m * (d - q) = m * d - m * q /\ m * d \in Int /\ m * q \in Int
  BY <1>1, Distribute
<1>3. m * d - m * q = r - s
  BY <1>1, <1>2
<1>4. d - q = 0
  BY <1>1, <1>2, <1>3, SmallMultiple
<1>5. d = q
  BY <1>1, <1>4
<1>6. s = r
  BY <1>1, <1>5, <1>2, <1>3
<1> QED
  BY <1>5, <1>6 DEF d, s

(* Two counters less than one lap apart are equal when their words are. *)
LEMMA SameWord ==
  ASSUME NEW a \in Int, NEW b \in Int, NEW m \in Nat \ {0},
         a <= b, b < a + m, a % m = b % m
  PROVE  a = b
<1> DEFINE p == a \div m
           q == b \div m
           r == a % m
<1>1. p \in Int /\ q \in Int /\ r \in 0 .. m - 1
  BY DivMod
<1>2. a = m * p + r /\ b = m * q + r
  BY DivMod
<1> HIDE DEF p, q, r
<1>3. m * (q - p) = m * q - m * p /\ m * p \in Int /\ m * q \in Int
  BY <1>1, Distribute
<1>4. m * q - m * p = b - a
  BY <1>1, <1>2, <1>3
<1>5. q - p = 0
  BY <1>1, <1>3, <1>4, SmallMultiple
<1> QED
  BY <1>1, <1>2, <1>5

(* Products associate, and distribute over sums. *)
LEMMA Regroup ==
  ASSUME NEW c \in Int, NEW l \in Int, NEW q \in Int, NEW p \in Int
  PROVE  /\ (c * l) * q = c * (l * q)
         /\ l * q \in Int
         /\ c * (l * q + p) = c * (l * q) + c * p
OBVIOUS

(* A ring index survives the wrap when the ring divides the word. *)
LEMMA ModMod ==
  ASSUME NEW a \in Int, NEW c \in Nat \ {0}, NEW l \in Nat \ {0}
  PROVE  (a % (c * l)) % c = a % c
<1> DEFINE m == c * l
           q == a \div m
           r == a % m
           p == r \div c
           s == r % c
<1>1. m \in Nat \ {0} /\ m = c * l
  OBVIOUS
<1> HIDE DEF m
<1>2. q \in Int /\ r \in Int /\ a = m * q + r
  <2>1. /\ a \div m \in Int
        /\ a % m \in 0 .. m - 1
        /\ a = m * (a \div m) + (a % m)
    BY <1>1, DivMod
  <2> QED
    BY <1>1, <2>1
<1> HIDE DEF q, r
<1>3. p \in Int /\ s \in 0 .. c - 1 /\ r = c * p + s
  BY <1>2, DivMod
<1> HIDE DEF p, s
<1>4. m * q = c * (l * q) /\ l * q \in Int
      /\ c * (l * q + p) = c * (l * q) + c * p
  BY <1>1, <1>2, <1>3, Regroup
<1> DEFINE t == l * q
<1>5. t \in Int /\ m * q = c * t /\ c * (t + p) = c * t + c * p
  BY <1>4
<1> HIDE DEF t
<1>6. a = c * (t + p) + s
  BY <1>2, <1>3, <1>5
<1>7. a % c = s
  BY <1>3, <1>5, <1>6, ModUnique
<1> QED
  BY <1>7 DEF m, r, s

(* The unsigned difference of two words is the distance of the counters,   *)
(* when that is less than one lap.                                         *)
LEMMA WordDistance ==
  ASSUME NEW a \in Int, NEW b \in Int, NEW m \in Nat \ {0},
         b <= a, a < b + m
  PROVE  ((a % m) - (b % m)) % m = a - b
<1> DEFINE p == a \div m
           r == a % m
           q == b \div m
           s == b % m
<1>1. p \in Int /\ r \in Int /\ a = m * p + r
  BY DivMod
<1>2. q \in Int /\ s \in Int /\ b = m * q + s
  BY DivMod
<1> HIDE DEF p, q, r, s
<1>3. q - p \in Int /\ m * (q - p) = m * q - m * p /\ m * p \in Int /\ m * q \in Int
  BY <1>1, <1>2, Distribute
<1>4. r - s = m * (q - p) + (a - b)
  BY <1>1, <1>2, <1>3
<1>5. r - s \in Int /\ a - b \in 0 .. m - 1
  BY <1>1, <1>2
<1>6. (r - s) % m = a - b
  BY <1>3, <1>4, <1>5, ModUnique
<1> QED
  BY <1>6 DEF r, s

-----------------------------------------------------------------------------

(* The counters wrap after more than one lap of the ring. *)
LEMMA Modulus ==
  /\ IndexModulus \in Nat \ {0}
  /\ Capacity < IndexModulus
<1>1. Capacity \in Nat \ {0} /\ Laps \in Nat /\ Laps >= 2
  BY CapacityAssumption, LapsAssumption
<1>2. Capacity * Laps \in Nat /\ Capacity * Laps >= Capacity * 2
  BY <1>1
<1> QED
  BY <1>1, <1>2 DEF IndexModulus

(* The wrapped counter still selects the right slot. *)
LEMMA SlotIndex ==
  ASSUME NEW n \in Nat
  PROVE  Slot(n) = n % Capacity /\ Slot(n) \in 0 .. Capacity - 1
<1>1. n \in Int /\ Capacity \in Nat \ {0} /\ Laps \in Nat \ {0}
  BY CapacityAssumption, LapsAssumption
<1>2. (n % (Capacity * Laps)) % Capacity = n % Capacity
  BY <1>1, ModMod, Zenon
<1>3. n % Capacity \in 0 .. Capacity - 1
  BY <1>1, DivMod
<1> QED
  BY <1>2, <1>3 DEF Slot, Wrap, IndexModulus

(* Commands less than a ring apart live in different slots. *)
LEMMA DistinctSlots ==
  ASSUME NEW m \in Nat, NEW n \in Nat, m < n, n < m + Capacity
  PROVE  Slot(m) # Slot(n)
<1>1. m \in Int /\ n \in Int /\ m <= n /\ m # n /\ Capacity \in Nat \ {0}
  BY CapacityAssumption
<1>2. m % Capacity # n % Capacity
  BY <1>1, SameWord, Zenon
<1> QED
  BY <1>2, SlotIndex

(* The full test counts correctly across the wrap. *)
LEMMA FullTest ==
  ASSUME NEW t \in Nat, NEW h \in Nat, h <= t, t <= h + Capacity
  PROVE  IsFull(t, h) <=> t - h = Capacity
<1>1. t \in Int /\ h \in Int /\ t < h + IndexModulus
  BY Modulus, CapacityAssumption
<1>2. (Wrap(t) - Wrap(h)) % IndexModulus = t - h
  BY <1>1, Modulus, WordDistance, Zenon DEF Wrap
<1> QED
  BY <1>2, CapacityAssumption DEF IsFull

(* The loop test stops exactly at the tail. *)
LEMMA LoopTest ==
  ASSUME NEW m \in Nat, NEW n \in Nat, m <= n, n <= m + Capacity
  PROVE  Wrap(m) = Wrap(n) <=> m = n
<1>1. m \in Int /\ n \in Int /\ n < m + IndexModulus
  BY Modulus, CapacityAssumption
<1> QED
  BY <1>1, Modulus, SameWord, Zenon DEF Wrap

LEMMA InitInv == Init => IInv
<1> SUFFICES ASSUME Init
             PROVE  IInv
  OBVIOUS
<1> USE CapacityAssumption
<1>1. TypeOK
  BY DEF Init, TypeOK, SlotContents, NoCommand
<1>2. CounterInv
  BY DEF Init, CounterInv
<1>3. ContentInv
  BY DEF Init, ContentInv
<1> QED
  BY <1>1, <1>2, <1>3 DEF IInv

(* The type is kept whatever the two threads do. *)
LEMMA TypeKept == TypeOK /\ [Next]_vars => TypeOK'
<1> SUFFICES ASSUME TypeOK, [Next]_vars
             PROVE  TypeOK'
  OBVIOUS
<1> USE CapacityAssumption DEF TypeOK, Later, ReleasedBy
<1>1. ASSUME NEW c \in TdsCommand,
             SubmitInvalid(c) \/ SubmitFull(c) \/ SubmitReserve(c)
      PROVE  TypeOK'
  BY <1>1 DEF SubmitInvalid, SubmitFull, SubmitReserve, consumer
<1>2. CASE StoreOp
  BY <1>2 DEF StoreOp, consumer, Commands, TdsCommand, SlotContents
<1>3. CASE StoreArg
  BY <1>3 DEF StoreArg, consumer, Commands, TdsCommand, SlotContents
<1>4. CASE StoreTail
  BY <1>4 DEF StoreTail, consumer
<1>5. CASE DrainBegin
  BY <1>5 DEF DrainBegin, producer
<1>6. CASE ApplyReadOp
  <2>1. Loads(pos, "op", Ops) \subseteq Ops \cup {NoOp}
    BY SlotIndex DEF Loads, SlotContents
  <2> QED
    BY <1>6, <2>1 DEF ApplyReadOp, producer
<1>7. CASE ApplyEffect
  BY <1>7 DEF ApplyEffect, producer
<1>8. CASE DrainEnd
  BY <1>8 DEF DrainEnd, producer
<1>9. CASE SeeTail \/ SeeHead
  BY <1>9 DEF SeeTail, SeeHead, producer, consumer
<1>10. CASE UNCHANGED vars
  BY <1>10 DEF vars
<1> QED
  BY <1>1, <1>2, <1>3, <1>4, <1>5, <1>6, <1>7, <1>8, <1>9, <1>10
     DEF Next, Submit, Drain

(* Every variable keeps its type. *)
THEOREM TypeCorrect == Spec => []TypeOK
<1>1. Init => TypeOK
  BY InitInv DEF IInv
<1> QED
  BY <1>1, TypeKept, PTL DEF Spec

(***************************************************************************)
(* The inductive invariant, one action at a time.                          *)
(***************************************************************************)

(* Neither side changes its counters except by publishing them. *)
LEMMA SubmitStartsKeepsInv ==
  ASSUME IInv, TypeOK', NEW c \in TdsCommand,
         SubmitInvalid(c) \/ SubmitFull(c) \/ SubmitReserve(c)
  PROVE  IInv'
<1> USE CapacityAssumption DEF IInv, TypeOK, CounterInv
<1>1. UNCHANGED <<slots, tail, headSeen, pending, consumer>>
      /\ (SubmitReserve(c) => ppc' = "store_op" /\ ~IsFull(tail, headSeen)
                               /\ freed' = Later(freed, ReleasedBy(headSeen)))
      /\ (~SubmitReserve(c) => ppc = "idle" /\ ppc' = "idle"
                               /\ freed' \in {freed, Later(freed, ReleasedBy(headSeen))})
  BY DEF SubmitInvalid, SubmitFull, SubmitReserve
<1>2. ~IsFull(tail, headSeen) => tail < headSeen + Capacity
  BY FullTest
<1>3. CounterInv'
  BY <1>1, <1>2 DEF Later, ReleasedBy, consumer
<1>4. ContentInv'
  BY <1>1 DEF ContentInv, Slot, consumer, Wrap
<1> QED
  BY <1>3, <1>4

(* A store to the new command's slot touches no pending command's.         *)
LEMMA StoreSlotKeepsInv ==
  ASSUME IInv, TypeOK', StoreOp \/ StoreArg
  PROVE  IInv'
<1> USE CapacityAssumption DEF IInv, TypeOK, CounterInv
<1>1. /\ UNCHANGED <<tail, headSeen, freed, cmd, status, pending, consumer>>
      /\ ppc # "idle" /\ ppc' # "idle"
      /\ \A i \in 0 .. Capacity - 1 : i # Slot(tail) => slots'[i] = slots[i]
  BY SlotIndex DEF StoreOp, StoreArg
<1>2. CounterInv'
  BY <1>1 DEF consumer
<1>3. ASSUME NEW k \in 1 .. tail - pos
      PROVE  slots'[Slot(pos + k - 1)] = slots[Slot(pos + k - 1)]
  <2>1. pos + k - 1 \in Nat /\ pos + k - 1 < tail /\ tail < (pos + k - 1) + Capacity
    BY <1>1
  <2>2. Slot(pos + k - 1) # Slot(tail) /\ Slot(pos + k - 1) \in 0 .. Capacity - 1
    BY <2>1, DistinctSlots, SlotIndex
  <2> QED
    BY <1>1, <2>2
<1>4. Slot(tail) \in 0 .. Capacity - 1
  BY SlotIndex
<1>5. /\ StoreOp => /\ slots'[Slot(tail)].op = cmd.op
                    /\ ppc' = "store_arg"
      /\ StoreArg => /\ slots'[Slot(tail)].arg = cmd.arg
                     /\ slots'[Slot(tail)].op = slots[Slot(tail)].op
                     /\ ppc = "store_arg"
  BY <1>4 DEF StoreOp, StoreArg, SlotContents
<1>6. ContentInv'
  BY <1>1, <1>3, <1>5 DEF ContentInv, Slot, consumer, Wrap
<1> QED
  BY <1>2, <1>6

(* Publishing the tail adds the stored command to the pending ones. *)
LEMMA StoreTailKeepsInv ==
  ASSUME IInv, TypeOK', StoreTail
  PROVE  IInv'
<1> USE CapacityAssumption DEF IInv, TypeOK, CounterInv
<1>1. /\ UNCHANGED <<slots, headSeen, freed, cmd, head, tailSeen, filled, cpc,
                     pos, limit, opRead>>
      /\ ppc = "store_tail" /\ ppc' = "idle"
      /\ tail' = tail + 1 /\ pending' = Append(pending, cmd)
  BY DEF StoreTail, consumer
<1>2. CounterInv'
  BY <1>1
<1>3. /\ Len(pending') = Len(pending) + 1
      /\ \A k \in 1 .. Len(pending) : pending'[k] = pending[k]
      /\ pending'[Len(pending) + 1] = cmd
  BY <1>1
<1>4. /\ Len(pending) = tail - pos
      /\ \A k \in 1 .. tail - pos :
           /\ slots[Slot(pos + k - 1)].op = pending[k].op
           /\ slots[Slot(pos + k - 1)].arg = pending[k].arg
      /\ slots[Slot(tail)].op = cmd.op /\ slots[Slot(tail)].arg = cmd.arg
      /\ cpc = "apply" => opRead = pending[1].op /\ 1 \in 1 .. Len(pending)
  BY <1>1 DEF ContentInv
<1>5. ASSUME NEW k \in 1 .. tail' - pos
      PROVE  /\ slots[Slot(pos + k - 1)].op = pending'[k].op
             /\ slots[Slot(pos + k - 1)].arg = pending'[k].arg
  <2>1. CASE k \in 1 .. tail - pos
    BY <1>3, <1>4, <2>1
  <2>2. CASE k = tail - pos + 1
    <3>1. pos + k - 1 = tail /\ pending'[k] = cmd
      BY <1>3, <1>4, <2>2
    <3> QED
      BY <1>4, <3>1
  <2>3. k \in 1 .. tail - pos \/ k = tail - pos + 1
    <3>1. tail' = tail + 1 /\ tail \in Nat /\ pos \in Nat /\ pos <= tail
      BY <1>1
    <3> QED
      BY <3>1
  <2> QED
    BY <2>1, <2>2, <2>3
<1>6. Len(pending') = tail' - pos'
  BY <1>1, <1>3, <1>4
<1>7. \A k \in 1 .. tail' - pos' :
        /\ slots'[Slot(pos' + k - 1)].op = pending'[k].op
        /\ slots'[Slot(pos' + k - 1)].arg = pending'[k].arg
  <2>1. slots' = slots /\ pos' = pos
    BY <1>1
  <2> QED
    BY <1>5, <2>1
<1>8. cpc' = "apply" => opRead' = pending'[1].op
  BY <1>1, <1>3, <1>4
<1>9. ContentInv'
  BY <1>1, <1>6, <1>7, <1>8 DEF ContentInv, Slot, Wrap
<1> QED
  BY <1>2, <1>9

(* A drain starts from its own head and the newest tail it can see. *)
LEMMA DrainBeginKeepsInv ==
  ASSUME IInv, TypeOK', DrainBegin
  PROVE  IInv'
<1> USE CapacityAssumption DEF IInv, TypeOK, CounterInv
<1>1. /\ UNCHANGED <<slots, head, tailSeen, opRead, applied, pending, tail,
                     headSeen, freed, ppc, cmd>>
      /\ cpc = "idle" /\ cpc' = "loop" /\ pos' = head /\ limit' = tailSeen
      /\ filled' = Later(filled, ReleasedBy(tailSeen))
  BY DEF DrainBegin, producer
<1>2. CounterInv'
  BY <1>1 DEF Later, ReleasedBy
<1>3. ContentInv'
  BY <1>1 DEF ContentInv, Slot, Wrap
<1> QED
  BY <1>2, <1>3

(* In the loop, the oldest pending command's slot is filled and stays so. *)
LEMMA LoopFacts ==
  ASSUME IInv, cpc \in {"loop", "apply"}, pos < limit
  PROVE  /\ pending # <<>> /\ Len(pending) >= 1
         /\ pos < filled
         /\ slots[Slot(pos)].op = pending[1].op
         /\ slots[Slot(pos)].arg = pending[1].arg
<1> USE DEF IInv, TypeOK, CounterInv
<1>1. pos < filled /\ pos < tail
  OBVIOUS
<1>2. 1 \in 1 .. tail - pos /\ pos + 1 - 1 = pos
  BY <1>1
<1>3. /\ Len(pending) = tail - pos
      /\ slots[Slot(pos + 1 - 1)].op = pending[1].op
      /\ slots[Slot(pos + 1 - 1)].arg = pending[1].arg
  BY <1>2 DEF ContentInv
<1> QED
  BY <1>1, <1>2, <1>3

LEMMA ApplyReadOpKeepsInv ==
  ASSUME IInv, TypeOK', ApplyReadOp
  PROVE  IInv'
<1> USE CapacityAssumption DEF IInv, TypeOK, CounterInv
<1>1. /\ UNCHANGED <<slots, head, tailSeen, filled, pos, limit, pending, tail,
                     headSeen, freed, ppc, cmd>>
      /\ cpc = "loop" /\ cpc' = "apply" /\ Wrap(pos) # Wrap(limit)
      /\ opRead' \in Loads(pos, "op", Ops)
  BY DEF ApplyReadOp, producer
<1>2. pos < limit
  BY <1>1
<1>3. opRead' = pending[1].op
  BY <1>1, <1>2, LoopFacts DEF Loads
<1>4. CounterInv'
  BY <1>1, <1>2
<1>5. ContentInv'
  BY <1>1, <1>3 DEF ContentInv, Slot, Wrap
<1> QED
  BY <1>4, <1>5

(* Applying a command takes it, whole, from the front of the pending ones. *)
LEMMA ApplyTakesFirst ==
  ASSUME IInv, ApplyEffect
  PROVE  /\ pending # <<>>
         /\ applied' = Head(pending)
         /\ pending' = Tail(pending)
<1> USE DEF IInv, TypeOK, CounterInv
<1>1. cpc = "apply" /\ pos < limit
  BY DEF ApplyEffect
<1>2. pending # <<>> /\ pos < filled /\ slots[Slot(pos)].arg = pending[1].arg
  BY <1>1, LoopFacts
<1>3. opRead = pending[1].op
  BY <1>1 DEF ContentInv
<1>4. applied' = [op |-> pending[1].op, arg |-> pending[1].arg]
  BY <1>2, <1>3 DEF ApplyEffect, Loads
<1>5. pending[1] \in TdsCommand /\ Head(pending) = pending[1]
  BY <1>2 DEF Commands
<1>6. Head(pending) = [op |-> pending[1].op, arg |-> pending[1].arg]
  BY <1>5 DEF TdsCommand
<1> QED
  BY <1>2, <1>4, <1>6 DEF ApplyEffect

LEMMA ApplyEffectKeepsInv ==
  ASSUME IInv, TypeOK', ApplyEffect
  PROVE  IInv'
<1> USE CapacityAssumption DEF IInv, TypeOK, CounterInv
<1>1. /\ UNCHANGED <<slots, head, tailSeen, filled, limit, tail, headSeen,
                     freed, ppc, cmd>>
      /\ cpc = "apply" /\ cpc' = "loop" /\ pos' = pos + 1
  BY DEF ApplyEffect, producer
<1>2. CounterInv'
  BY <1>1
<1>3. pending # <<>> /\ pending' = Tail(pending)
  BY ApplyTakesFirst
<1>4. /\ Len(pending') = Len(pending) - 1
      /\ \A k \in 1 .. Len(pending) - 1 : pending'[k] = pending[k + 1]
  BY <1>3
<1>5. Len(pending') = tail' - pos'
  BY <1>1, <1>4 DEF ContentInv
<1>6. ASSUME NEW k \in 1 .. tail' - pos'
      PROVE  /\ slots'[Slot(pos' + k - 1)].op = pending'[k].op
             /\ slots'[Slot(pos' + k - 1)].arg = pending'[k].arg
  <2>1. k + 1 \in 1 .. tail - pos /\ pos' + k - 1 = pos + (k + 1) - 1
    BY <1>1
  <2>2. pending'[k] = pending[k + 1]
    BY <1>1, <1>4, <1>5
  <2>3. /\ slots[Slot(pos + (k + 1) - 1)].op = pending[k + 1].op
        /\ slots[Slot(pos + (k + 1) - 1)].arg = pending[k + 1].arg
    BY <2>1 DEF ContentInv
  <2> QED
    BY <1>1, <2>1, <2>2, <2>3
<1>7. ContentInv'
  BY <1>1, <1>5, <1>6 DEF ContentInv, Slot, Wrap
<1> QED
  BY <1>2, <1>7

LEMMA OthersKeepInv ==
  ASSUME IInv, TypeOK', DrainEnd \/ SeeTail \/ SeeHead \/ UNCHANGED vars
  PROVE  IInv'
<1> USE CapacityAssumption DEF IInv, TypeOK, CounterInv
<1>1. CASE DrainEnd
  <2>1. pos = limit
    BY <1>1, LoopTest DEF DrainEnd
  <2> QED
    BY <1>1, <2>1 DEF DrainEnd, producer, ContentInv, Slot, Wrap
<1>2. CASE SeeTail
  BY <1>2 DEF SeeTail, producer, ContentInv, Slot, Wrap
<1>3. CASE SeeHead
  BY <1>3 DEF SeeHead, consumer, ContentInv, Slot, Wrap
<1>4. CASE UNCHANGED vars
  BY <1>4 DEF vars, ContentInv, Slot, Wrap
<1> QED
  BY <1>1, <1>2, <1>3, <1>4

(* The invariant holds in every state of every behaviour. *)
THEOREM MailboxInvariant == Spec => []IInv
<1>1. IInv /\ TypeOK' /\ [Next]_vars => IInv'
  BY SubmitStartsKeepsInv, StoreSlotKeepsInv, StoreTailKeepsInv,
     DrainBeginKeepsInv, ApplyReadOpKeepsInv, ApplyEffectKeepsInv, OthersKeepInv
     DEF Next, Submit, Drain
<1> QED
  BY InitInv, TypeCorrect, <1>1, PTL DEF Spec

(* The two threads never race on a slot: the acquire and release of the    *)
(* two counters order every pair of conflicting accesses.                  *)
THEOREM MailboxRaceFree == Spec => []SlotAccessesOrdered
<1>1. IInv => SlotAccessesOrdered
  BY DEF IInv, CounterInv, SlotAccessesOrdered
<1> QED
  BY <1>1, MailboxInvariant, PTL

(* One drain never applies more than a ring of commands. *)
THEOREM MailboxDrainBounded == Spec => []DrainBounded
<1>1. IInv => DrainBounded
  BY CapacityAssumption DEF IInv, TypeOK, CounterInv, DrainBounded
<1> QED
  BY <1>1, MailboxInvariant, PTL

(* The ring implements a bounded FIFO queue: each accepted command is      *)
(* applied once, whole and in order.                                       *)
THEOREM MailboxImplementsQueue == Spec => ImplementsQueue
<1> USE DEF Queue!Init, Queue!Next, Queue!Accept, Queue!Apply, Queue!vars
<1>1. Init => Queue!Init
  BY DEF Init
<1>2. IInv /\ [Next]_vars => [Queue!Next]_(Queue!vars)
  <2> SUFFICES ASSUME IInv, [Next]_vars
               PROVE  [Queue!Next]_(Queue!vars)
    OBVIOUS
  <2>1. CASE StoreTail
    <3>1. Len(pending) < Capacity /\ cmd \in Commands
      BY <2>1, CapacityAssumption
         DEF IInv, TypeOK, CounterInv, ContentInv, StoreTail
    <3>2. pending' = Append(pending, cmd) /\ applied' = applied
      BY <2>1 DEF StoreTail, consumer
    <3> QED
      BY <3>1, <3>2
  <2>2. CASE ApplyEffect
    BY <2>2, ApplyTakesFirst
  <2>3. CASE UNCHANGED <<pending, applied>>
    BY <2>3
  <2>4. StoreTail \/ ApplyEffect \/ UNCHANGED <<pending, applied>>
    BY DEF Next, Submit, Drain, SubmitInvalid, SubmitFull, SubmitReserve, StoreOp,
           StoreArg, DrainBegin, ApplyReadOp, DrainEnd, SeeTail, SeeHead, producer,
           consumer, vars
  <2> QED
    BY <2>1, <2>2, <2>3, <2>4
<1> QED
  BY <1>1, <1>2, MailboxInvariant, PTL DEF Spec, ImplementsQueue, Queue!Spec
=============================================================================
