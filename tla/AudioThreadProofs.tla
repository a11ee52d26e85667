--------------------------- MODULE AudioThreadProofs ---------------------------
(***************************************************************************)
(* Proofs about AudioThread, for every size of the ring and of the queue   *)
(* of messages, every number of updates between two buffers, of buffers in *)
(* a frame and of requests, and every fading time.  What a reset promises  *)
(* needs a ring that never fills, and holds until one of the mishaps that  *)
(* AudioCommands names.                                                    *)
(***************************************************************************)
EXTENDS AudioThread, SequenceTheorems, WellFoundedInduction, TLAPS

-----------------------------------------------------------------------------
(* The two threads' places and the flag between them.                      *)
Awaiting == {"requested", "draw", "check", "wait", "awake"}

(* The audio thread works on a request only, and the game thread that has  *)
(* made one is between the request and the end of its wait.                *)
ThreadInv ==
  /\ audio \in AudioPlaces
  /\ audio \in {"between", "work"} => processing
  /\ processing => game \in Awaiting

LEMMA InitThread == Init => ThreadInv
BY DEF Init, ThreadInv, AudioPlaces

LEMMA GameThreadInv ==
  ASSUME ThreadInv,
         Logic \/ GameStep \/ StopRunning
  PROVE  ThreadInv'
<1>1. CASE Logic
  BY <1>1 DEF Logic, threadVars, ThreadInv
<1>2. CASE RequestBuffer
  BY <1>2 DEF RequestBuffer, MutexFree, ThreadInv, Awaiting
<1>3. CASE NotifyAudio
  BY <1>3 DEF NotifyAudio, WakeAudio, ThreadInv, Awaiting, AudioPlaces
<1>4. CASE RunCommands
  BY <1>4 DEF RunCommands, ThreadInv, Awaiting
<1>5. CASE AwaitBuffer
  BY <1>5 DEF AwaitBuffer, ThreadInv, Awaiting
<1>6. CASE NotifyStop
  BY <1>6 DEF NotifyStop, WakeAudio, ThreadInv, Awaiting, AudioPlaces
<1>7. CASE Join
  BY <1>7 DEF Join, ThreadInv, Awaiting
<1>8. CASE StopRunning
  BY <1>8 DEF StopRunning, ThreadInv, Awaiting
<1>9. QED
  BY <1>1, <1>2, <1>3, <1>4, <1>5, <1>6, <1>7, <1>8 DEF GameStep

LEMMA AudioThreadInv ==
  ASSUME ThreadInv,
         MakeBuffer \/ AudioStep
  PROVE  ThreadInv'
<1>1. CASE MakeBuffer
  BY <1>1 DEF MakeBuffer, ThreadInv
<1>2. CASE LoopTop
  BY <1>2 DEF LoopTop, ThreadInv, AudioPlaces
<1>3. CASE AwaitRequest
  BY <1>3 DEF AwaitRequest, ThreadInv, AudioPlaces
<1>4. CASE StartWork
  BY <1>4 DEF StartWork, ThreadInv, AudioPlaces
<1>5. CASE EndWork
  BY <1>5 DEF EndWork, ThreadInv, AudioPlaces
<1>6. QED
  BY <1>1, <1>2, <1>3, <1>4, <1>5 DEF AudioStep

LEMMA NextThread ==
  ASSUME ThreadInv, [Next]_vars
  PROVE  ThreadInv'
<1>1. CASE Spurious
  BY <1>1 DEF Spurious, ThreadInv, Awaiting, AudioPlaces
<1>2. CASE UNCHANGED vars
  BY <1>2 DEF vars, threadVars, ThreadInv
<1>3. CASE Exited
  BY <1>2, <1>3 DEF Exited
<1>4. QED
  BY <1>1, <1>2, <1>3, GameThreadInv, AudioThreadInv DEF Next

(* The game's own part of a frame never runs while the audio thread makes  *)
(* buffers, or is past its wait to make them.                              *)
THEOREM AlwaysExclusive == Spec => []Exclusive
<1>1. ThreadInv => Exclusive
  BY DEF ThreadInv, Exclusive, Awaiting
<1>2. QED
  BY <1>1, InitThread, NextThread, PTL DEF Spec
-----------------------------------------------------------------------------
(* Induction over the numbers up to n, in first-order form.                *)
LEMMA SmallestExists ==
  ASSUME NEW S \in SUBSET Nat, S # {}
  PROVE  \E d \in S : \A e \in S : d <= e
<1>1. PICK d \in S : \A e \in S : ~(<<e, d>> \in OpToRel(<, Nat))
  BY WFMin, NatLessThanWellFounded
<1>2. \A e \in S : ~(e < d)
  BY <1>1 DEF OpToRel
<1> QED  BY <1>2

LEMMA UpTo ==
  ASSUME NEW n \in Nat, NEW P, 0 \in P, \A k \in 0 .. n - 1 : k \in P => k + 1 \in P
  PROVE  \A k \in 0 .. n : k \in P
<1> SUFFICES ASSUME {k \in 0 .. n : k \notin P} # {} PROVE FALSE
  OBVIOUS
<1>1. PICK d \in {k \in 0 .. n : k \notin P} : \A e \in {k \in 0 .. n : k \notin P} : d <= e
  <2>1. {k \in 0 .. n : k \notin P} \in SUBSET Nat
    OBVIOUS
  <2> QED  BY <2>1, SmallestExists
<1>2. d # 0 /\ d - 1 \in 0 .. n - 1 /\ d - 1 \notin {k \in 0 .. n : k \notin P}
  BY <1>1
<1>3. d - 1 \in P /\ d = (d - 1) + 1
  BY <1>2, <1>1
<1> QED  BY <1>1, <1>2, <1>3

(* The largest of some numbers up to n.                                    *)
LEMMA MaxIs ==
  ASSUME NEW n \in Nat, NEW s \in SUBSET (1 .. n), s # {}
  PROVE  Max(s) \in s /\ \A y \in s : Max(s) >= y
<1> DEFINE S == {n - y : y \in s}
<1>1. S \in SUBSET Nat /\ S # {}
  <2>1. \A y \in s : y \in 1 .. n /\ n - y \in Nat
    OBVIOUS
  <2> QED  BY <2>1
<1>2. PICK d \in S : \A e \in S : d <= e
  BY <1>1, SmallestExists
<1>3. PICK x \in s : d = n - x
  BY <1>2
<1>4. \A y \in s : x >= y
  <2> TAKE y \in s
  <2>1. n - x <= n - y /\ x \in 1 .. n /\ y \in 1 .. n
    BY <1>2, <1>3
  <2> QED  BY <2>1
<1> QED  BY <1>4 DEF Max

LEMMA MaxOfInterval ==
  ASSUME NEW n \in Nat, NEW k \in 1 .. n
  PROVE  1 .. k # {} /\ Max(1 .. k) = k /\ (1 .. k) \ {Max(1 .. k)} = 1 .. (k - 1)
<1>1. 1 .. k \in SUBSET (1 .. n) /\ k \in 1 .. k
  OBVIOUS
<1>2. Max(1 .. k) \in 1 .. k /\ \A y \in 1 .. k : Max(1 .. k) >= y
  BY <1>1, MaxIs
<1>3. Max(1 .. k) = k
  BY <1>1, <1>2
<1> QED  BY <1>1, <1>3

(* What a fold is made of: its values, its elements and its step.          *)
Foldable(U, B, F, base, n, seq) ==
  /\ F \in [U \X B -> U] /\ base \in U
  /\ n \in Nat /\ seq \in [1 .. n -> B]

(* Its recursive function, on the sets of places in the sequence, and its  *)
(* values after the first k elements.                                      *)
FoldTable(U, F, base, n, seq, g) ==
  /\ g \in [SUBSET (1 .. n) -> U]
  /\ \A s \in SUBSET (1 .. n) :
       g[s] = IF s = {} THEN base ELSE F[<<g[s \ {Max(s)}], seq[Max(s)]>>]

FoldsFrom(U, F, base, n, seq, g) ==
  \A s \in SUBSET (1 .. n) :
    /\ s = {} => g[s] = base
    /\ s # {} /\ g[s \ {Max(s)}] \in U => g[s] = F[<<g[s \ {Max(s)}], seq[Max(s)]>>]

FoldPath(U, F, base, n, seq, a, result) ==
  /\ a \in [0 .. n -> U] /\ a[0] = base /\ a[n] = result
  /\ \A k \in 1 .. n : a[k] = F[<<a[k - 1], seq[k]>>]

(* The recursive function of a fold exists: its values for the subsets of  *)
(* the first k elements follow from those for the first k - 1.             *)
LEMMA FoldExists ==
  ASSUME NEW U, NEW B, NEW F, NEW base, NEW n, NEW seq,
         Foldable(U, B, F, base, n, seq)
  PROVE  \E g : FoldTable(U, F, base, n, seq, g)
<1> USE DEF Foldable
<1> DEFINE Good(k, g) ==
             \A s \in SUBSET (1 .. k) :
               g[s] = IF s = {} THEN base ELSE F[<<g[s \ {Max(s)}], seq[Max(s)]>>]
           P == {k \in 0 .. n : \E g \in [SUBSET (1 .. k) -> U] : Good(k, g)}
<1>1. 0 \in P
  <2>1. [s \in SUBSET (1 .. 0) |-> base] \in [SUBSET (1 .. 0) -> U]
    OBVIOUS
  <2>2. \A s \in SUBSET (1 .. 0) : s = {}
    OBVIOUS
  <2>3. Good(0, [s \in SUBSET (1 .. 0) |-> base])
    BY <2>2
  <2>4. \E g \in [SUBSET (1 .. 0) -> U] : Good(0, g)
    BY <2>1, <2>3
  <2> HIDE DEF Good
  <2>5. 0 \in 0 .. n
    OBVIOUS
  <2> QED  BY <2>4, <2>5
<1>2. ASSUME NEW k \in 0 .. n - 1, k \in P PROVE k + 1 \in P
  <2>1. PICK g \in [SUBSET (1 .. k) -> U] : Good(k, g)
    BY <1>2
  <2> DEFINE h == [s \in SUBSET (1 .. k + 1) |->
                     IF k + 1 \in s THEN F[<<g[s \ {k + 1}], seq[k + 1]>>] ELSE g[s]]
  <2>2. ASSUME NEW s \in SUBSET (1 .. k + 1), k + 1 \in s
        PROVE  /\ s # {} /\ Max(s) = k + 1 /\ s \ {k + 1} \in SUBSET (1 .. k)
               /\ h[s] = F[<<h[s \ {Max(s)}], seq[Max(s)]>>] /\ h[s] \in U
    <3>1. Max(s) \in s /\ \A y \in s : Max(s) >= y
      <4>1. k + 1 \in Nat /\ s # {}
        BY <2>2
      <4> HIDE DEF Good, P, h
      <4> QED  BY <4>1, MaxIs
    <3>2. Max(s) = k + 1
      <4>1. Max(s) \in 1 .. k + 1 /\ Max(s) >= k + 1
        BY <2>2, <3>1
      <4> QED  BY <4>1
    <3>3. s \ {k + 1} \in SUBSET (1 .. k) /\ s \ {k + 1} \in SUBSET (1 .. k + 1)
      OBVIOUS
    <3>4. h[s] = F[<<g[s \ {k + 1}], seq[k + 1]>>] /\ h[s \ {k + 1}] = g[s \ {k + 1}]
      BY <2>2, <3>3
    <3>5. g[s \ {k + 1}] \in U /\ seq[k + 1] \in B
      BY <3>3
    <3> HIDE DEF h
    <3> QED  BY <2>2, <3>2, <3>3, <3>4, <3>5
  <2>3. ASSUME NEW s \in SUBSET (1 .. k + 1), k + 1 \notin s
        PROVE  /\ s \in SUBSET (1 .. k) /\ h[s] = g[s] /\ h[s] \in U
               /\ s # {} => h[s] = F[<<h[s \ {Max(s)}], seq[Max(s)]>>]
               /\ s = {} => h[s] = base
    <3>1. s \in SUBSET (1 .. k) /\ h[s] = g[s]
      BY <2>3
    <3>2. ASSUME s # {} PROVE h[s] = F[<<h[s \ {Max(s)}], seq[Max(s)]>>]
      <4>1. s \ {Max(s)} \in SUBSET (1 .. k + 1) /\ k + 1 \notin s \ {Max(s)}
        BY <2>3
      <4>2. h[s \ {Max(s)}] = g[s \ {Max(s)}]
        BY <4>1
      <4>3. g[s] = F[<<g[s \ {Max(s)}], seq[Max(s)]>>]
        BY <2>1, <3>1, <3>2
      <4> HIDE DEF h
      <4> QED  BY <3>1, <4>2, <4>3
    <3>3. s = {} => g[s] = base
      BY <2>1, <3>1
    <3> HIDE DEF h
    <3> QED  BY <3>1, <3>2, <3>3
  <2>4. h \in [SUBSET (1 .. k + 1) -> U]
    <3>1. \A s \in SUBSET (1 .. k + 1) : h[s] \in U
      BY <2>2, <2>3
    <3>2. DOMAIN h = SUBSET (1 .. k + 1)
      OBVIOUS
    <3>3. h = [s \in SUBSET (1 .. k + 1) |-> h[s]]
      OBVIOUS
    <3> HIDE DEF h
    <3> QED  BY <3>1, <3>3
  <2>5. Good(k + 1, h)
    <3> HIDE DEF h
    <3> QED  BY <2>2, <2>3
  <2> HIDE DEF h, Good
  <2>6. \E x \in [SUBSET (1 .. k + 1) -> U] : Good(k + 1, x)
    BY <2>4, <2>5
  <2>7. k + 1 \in 0 .. n
    OBVIOUS
  <2> QED  BY <2>6, <2>7
<1>3. n \in P
  <2> HIDE DEF P
  <2>1. \A k \in 0 .. n : k \in P
    BY <1>1, <1>2, UpTo
  <2> QED  BY <2>1
<1>4. PICK g \in [SUBSET (1 .. n) -> U] : Good(n, g)
  BY <1>3
<1>5. FoldTable(U, F, base, n, seq, g)
  BY <1>4 DEF FoldTable
<1> QED  BY <1>5

(* What such a function says of the first k elements, one after another.   *)
LEMMA FoldSteps ==
  ASSUME NEW U, NEW B, NEW F, NEW base, NEW n, NEW seq, NEW g,
         Foldable(U, B, F, base, n, seq),
         FoldsFrom(U, F, base, n, seq, g)
  PROVE  \E a : FoldPath(U, F, base, n, seq, a, g[1 .. n])
<1> USE DEF Foldable, FoldsFrom
<1> DEFINE P == {k \in 0 .. n : g[1 .. k] \in U}
<1>1. g[1 .. 0] = base
  <2>1. 1 .. 0 = {} /\ {} \in SUBSET (1 .. n)
    OBVIOUS
  <2> QED  BY <2>1
<1>2. ASSUME NEW k \in 1 .. n, g[1 .. (k - 1)] \in U
      PROVE  g[1 .. k] = F[<<g[1 .. (k - 1)], seq[k]>>] /\ g[1 .. k] \in U
  <2>1. /\ 1 .. k \in SUBSET (1 .. n) /\ 1 .. k # {} /\ Max(1 .. k) = k
        /\ (1 .. k) \ {Max(1 .. k)} = 1 .. (k - 1)
    BY MaxOfInterval
  <2>2. g[1 .. k] = F[<<g[1 .. (k - 1)], seq[k]>>]
    BY <1>2, <2>1
  <2> QED  BY <1>2, <2>2
<1>3. \A k \in 0 .. n : k \in P
  <2>1. 0 \in P
    BY <1>1
  <2>2. ASSUME NEW k \in 0 .. n - 1, k \in P PROVE k + 1 \in P
    <3>1. k + 1 \in 1 .. n /\ (k + 1) - 1 = k
      OBVIOUS
    <3>2. g[1 .. ((k + 1) - 1)] \in U
      BY <2>2, <3>1
    <3>3. g[1 .. (k + 1)] \in U
      BY <1>2, <3>1, <3>2
    <3> QED  BY <3>1, <3>3
  <2> HIDE DEF P
  <2> QED  BY <2>1, <2>2, UpTo
<1> DEFINE a == [k \in 0 .. n |-> g[1 .. k]]
<1>4. ASSUME NEW k \in 1 .. n PROVE a[k] = F[<<a[k - 1], seq[k]>>]
  <2>1. k \in 0 .. n /\ k - 1 \in 0 .. n
    OBVIOUS
  <2> QED  BY <1>2, <1>3, <2>1
<1>5. a \in [0 .. n -> U] /\ a[0] = base /\ a[n] = g[1 .. n]
  BY <1>1, <1>3
<1> HIDE DEF a
<1>6. FoldPath(U, F, base, n, seq, a, g[1 .. n])
  BY <1>4, <1>5 DEF FoldPath
<1> QED  BY <1>6

-----------------------------------------------------------------------------
(* The types of the operators on the ring.                                 *)
RingType ==
  [buf : [Positions -> Commands], write : Positions, read : Positions,
   cur : Positions, finished : BOOLEAN, msgs : Seq(Positions \X Positions),
   owed : Seq(Commands)]

RanType == [ring : RingType, ran : Seq(Commands)]

Message == Positions \X Positions

(* Two positions, and how far it is from one to the other.                 *)
LEMMA PositionTypes ==
  /\ RingSize \in Nat /\ RingSize > 1 /\ 0 \in Positions
  /\ \A p \in Positions : After(p) \in Positions
  /\ \A p, e \in Positions : Distance(p, e) \in 0 .. RingSize - 1
  /\ \A p \in Positions, n \in Nat : (p + n) % RingSize \in Positions
BY RingAssumption DEF Positions, After, Distance

LEMMA QueueIs ==
  ASSUME NEW r \in RingType, NEW c \in Commands
  PROVE  /\ QueueCmd(r, c) \in RingType
         /\ QueueCmd(r, c).read = r.read /\ QueueCmd(r, c).cur = r.cur
         /\ QueueCmd(r, c).finished = r.finished /\ QueueCmd(r, c).msgs = r.msgs
         /\ QueueCmd(r, c).buf = [r.buf EXCEPT ![r.write] = c]
         /\ IF After(r.write) = r.read
            THEN QueueCmd(r, c).write = r.write /\ QueueCmd(r, c).owed = r.owed
            ELSE /\ QueueCmd(r, c).write = After(r.write)
                 /\ QueueCmd(r, c).owed = Append(r.owed, c)
<1> DEFINE b == [r.buf EXCEPT ![r.write] = c]
           w == [r EXCEPT !.buf = b]
<1>1. b \in [Positions -> Commands]
  BY DEF RingType
<1>2. After(r.write) \in Positions /\ Append(r.owed, c) \in Seq(Commands)
  BY PositionTypes DEF RingType
<1>3. QueueCmd(r, c) = IF After(r.write) = r.read THEN w
                       ELSE [w EXCEPT !.write = After(r.write), !.owed = Append(r.owed, c)]
  BY DEF QueueCmd, RingType
<1> HIDE DEF b
<1> QED  BY <1>1, <1>2, <1>3 DEF RingType, b

LEMMA ScheduleIs ==
  ASSUME NEW r \in RingType
  PROVE  /\ Schedule(r) \in RingType
         /\ Schedule(r).buf = r.buf /\ Schedule(r).write = r.write
         /\ Schedule(r).cur = r.cur /\ Schedule(r).finished = r.finished
         /\ Schedule(r).owed = r.owed
         /\ IF Len(r.msgs) = ProcMsgs
            THEN Schedule(r).msgs = r.msgs /\ Schedule(r).read = r.read
            ELSE /\ Schedule(r).msgs = Append(r.msgs, <<r.read, r.write>>)
                 /\ Schedule(r).read = r.write
<1>1. Append(r.msgs, <<r.read, r.write>>) \in Seq(Positions \X Positions)
  BY DEF RingType
<1> QED  BY <1>1 DEF Schedule, RingType

LEMMA CommandsAre ==
  /\ InitSfx \in Commands /\ Play \in Commands /\ Stop \in Commands /\ NoopCmd \in Commands
  /\ \A s \in Specs : ResetHeap(s) \in Commands
  /\ \A c \in Commands : c.op = "RESET" => c.arg \in Specs /\ c = ResetHeap(c.arg)
  /\ \A s \in Specs : ResetHeap(s).op = "RESET" /\ ResetHeap(s).arg = s
  /\ InitSfx.op = "INIT" /\ Play.op = "PLAY" /\ Stop.op = "STOP" /\ NoopCmd.op = "NOOP"
  /\ \A c \in Commands : /\ c.op = "INIT" => c = InitSfx
                         /\ c.op = "PLAY" => c = Play
                         /\ c.op = "STOP" => c = Stop
<1>1. /\ InitSfx.op = "INIT" /\ Play.op = "PLAY" /\ Stop.op = "STOP" /\ NoopCmd.op = "NOOP"
      /\ \A s : ResetHeap(s).op = "RESET" /\ ResetHeap(s).arg = s
  BY DEF InitSfx, Play, Stop, NoopCmd, ResetHeap, Cmd
<1>2. /\ InitSfx \in Commands /\ Play \in Commands /\ Stop \in Commands
      /\ NoopCmd \in Commands /\ \A s \in Specs : ResetHeap(s) \in Commands
  BY DEF Commands
<1>3. ASSUME NEW c \in Commands
      PROVE  c \in {InitSfx, Play, Stop, NoopCmd} \/ \E s \in Specs : c = ResetHeap(s)
  BY DEF Commands
<1>4. ASSUME NEW c \in Commands, c.op = "RESET" PROVE c.arg \in Specs /\ c = ResetHeap(c.arg)
  <2>1. c \notin {InitSfx, Play, Stop, NoopCmd}
    BY <1>1, <1>4
  <2>2. PICK s \in Specs : c = ResetHeap(s)
    BY <1>3, <2>1
  <2> QED  BY <1>1, <2>2
<1>5. ASSUME NEW c \in Commands
      PROVE  /\ c.op = "INIT" => c = InitSfx
             /\ c.op = "PLAY" => c = Play
             /\ c.op = "STOP" => c = Stop
  BY <1>1, <1>3
<1> QED  BY <1>1, <1>2, <1>4, <1>5

LEMMA SliceIs ==
  ASSUME NEW r \in RingType, NEW p \in Positions, NEW e \in Positions
  PROVE  /\ Slice(r, p, e) \in Seq(Commands) /\ Len(Slice(r, p, e)) = Distance(p, e)
         /\ \A i \in 1 .. Distance(p, e) :
              Slice(r, p, e)[i] = r.buf[(p + i - 1) % RingSize]
<1>1. Distance(p, e) \in Nat
  BY PositionTypes
<1>2. ASSUME NEW i \in 1 .. Distance(p, e)
      PROVE  r.buf[(p + i - 1) % RingSize] \in Commands
  <2>1. p + (i - 1) = p + i - 1 /\ i - 1 \in Nat
    BY <1>1 DEF Positions
  <2>2. (p + i - 1) % RingSize \in Positions
    BY <2>1, PositionTypes
  <2> QED  BY <2>2 DEF RingType
<1>3. Slice(r, p, e) \in [1 .. Distance(p, e) -> Commands]
  BY <1>2 DEF Slice
<1> QED  BY <1>1, <1>3, IsASeq, LenProperties DEF Slice

(* AudioThread_ProcessCmds runs up to the first STOP, or all there is to   *)
(* the end of the message.                                                 *)
LEMMA ProcessIs ==
  ASSUME NEW r \in RingType, NEW m \in Message
  PROVE  LET start == StartOf(r, m)
             todo == Slice(r, start, m[2])
             done == ProcessCmds(r, m)
         IN  /\ start \in Positions /\ done.ring \in RingType
             /\ done.ring.write = r.write /\ done.ring.read = r.read
             /\ done.ring.msgs = r.msgs
             /\ \E n \in 0 .. Len(todo), taken \in 0 .. Len(todo) :
                  /\ \/ /\ n = Len(todo) /\ taken = n /\ ~done.ring.finished
                        /\ \A i \in 1 .. n : todo[i] # Stop
                     \/ /\ taken = n + 1 /\ todo[taken] = Stop /\ done.ring.finished
                        /\ \A i \in 1 .. n : todo[i] # Stop
                  /\ done.ran = SubSeq(todo, 1, n)
                  /\ done.ring.cur = (start + taken) % RingSize
                  /\ done.ring.owed = SubSeq(r.owed, taken + 1, Len(r.owed))
                  /\ \A p \in Positions :
                       done.ring.buf[p] = IF Distance(start, p) < n THEN NoopCmd ELSE r.buf[p]
<1> DEFINE start == StartOf(r, m)
           todo == Slice(r, start, m[2])
           done == ProcessCmds(r, m)
           stops == {i \in DOMAIN todo : todo[i] = Stop}
           stop == CHOOSE i \in stops : \A j \in stops : i <= j
           n == IF stops = {} THEN Len(todo) ELSE stop - 1
           taken == IF stops = {} THEN n ELSE stop
<1>1. start \in Positions /\ m[2] \in Positions
  BY DEF StartOf, RingType, Message
<1>2. todo \in Seq(Commands) /\ Len(todo) \in Nat /\ DOMAIN todo = 1 .. Len(todo)
  BY <1>1, SliceIs, LenProperties
<1> DEFINE b == [p \in Positions |-> IF Distance(start, p) < n THEN NoopCmd ELSE r.buf[p]]
<1>3. done = [ring |-> [r EXCEPT !.finished = stops # {}, !.cur = (start + taken) % RingSize,
                                 !.buf = b, !.owed = SubSeq(r.owed, taken + 1, Len(r.owed))],
              ran |-> SubSeq(todo, 1, n)]
  BY DEF ProcessCmds, RingType
<1> HIDE DEF start, todo, done
<1>4. stops # {} => stop \in stops /\ \A j \in stops : stop <= j
  <2>1. stops \in SUBSET Nat
    BY <1>2
  <2> QED  BY <2>1, SmallestExists
<1> HIDE DEF stop
<1>5. /\ n \in 0 .. Len(todo) /\ taken \in 0 .. Len(todo)
      /\ \A i \in 1 .. n : todo[i] # Stop
      /\ stops = {} => n = Len(todo) /\ taken = n
      /\ stops # {} => taken = n + 1 /\ todo[taken] = Stop
  <2>1. CASE stops = {}
    <3>1. n = Len(todo) /\ taken = n
      BY <2>1
    <3>2. \A i \in 1 .. Len(todo) : todo[i] # Stop
      BY <1>2, <2>1
    <3> HIDE DEF n, taken, stops
    <3> QED  BY <1>2, <2>1, <3>1, <3>2
  <2>2. CASE stops # {}
    <3>1. stop \in 1 .. Len(todo) /\ todo[stop] = Stop
      BY <1>2, <1>4, <2>2
    <3>2. ASSUME NEW i \in 1 .. n PROVE todo[i] # Stop
      BY <1>2, <1>4, <2>2, <3>1
    <3>3. n = stop - 1 /\ taken = stop
      BY <2>2
    <3> HIDE DEF n, taken, stops
    <3> QED  BY <1>2, <2>2, <3>1, <3>2, <3>3
  <2> QED  BY <2>1, <2>2
<1> HIDE DEF n, taken, stops
<1>6. SubSeq(r.owed, taken + 1, Len(r.owed)) \in Seq(Commands)
  <2>1. r.owed \in Seq(Commands) /\ Len(r.owed) \in Nat /\ taken \in Nat
    BY <1>5 DEF RingType
  <2>2. \A i \in taken + 1 .. Len(r.owed) : r.owed[i] \in Commands
    BY <2>1, ElementOfSeq
  <2> QED  BY <2>1, <2>2, SubSeqProperties
<1>7. b \in [Positions -> Commands]
  BY CommandsAre DEF RingType
<1>8. (start + taken) % RingSize \in Positions
  <2> HIDE DEF b
  <2>1. start \in Positions
    BY <1>1 DEF start
  <2>2. taken \in 0 .. Len(todo)
    BY <1>5
  <2>3. taken \in Nat
    BY <1>2, <2>2
  <2> QED  BY <2>1, <2>3, PositionTypes
<1>9. \A p \in Positions : b[p] = IF Distance(start, p) < n THEN NoopCmd ELSE r.buf[p]
  OBVIOUS
<1> HIDE DEF b
<1>10. /\ done.ring \in RingType
       /\ done.ring.write = r.write /\ done.ring.read = r.read /\ done.ring.msgs = r.msgs
       /\ done.ran = SubSeq(todo, 1, n)
       /\ done.ring.cur = (start + taken) % RingSize
       /\ done.ring.owed = SubSeq(r.owed, taken + 1, Len(r.owed))
       /\ done.ring.buf = b /\ (done.ring.finished <=> stops # {})
  BY <1>3, <1>6, <1>7, <1>8 DEF RingType
<1>11. \E k \in 0 .. Len(todo), t \in 0 .. Len(todo) :
         /\ \/ /\ k = Len(todo) /\ t = k /\ ~done.ring.finished
               /\ \A i \in 1 .. k : todo[i] # Stop
            \/ /\ t = k + 1 /\ todo[t] = Stop /\ done.ring.finished
               /\ \A i \in 1 .. k : todo[i] # Stop
         /\ done.ran = SubSeq(todo, 1, k)
         /\ done.ring.cur = (start + t) % RingSize
         /\ done.ring.owed = SubSeq(r.owed, t + 1, Len(r.owed))
         /\ \A p \in Positions :
              done.ring.buf[p] = IF Distance(start, p) < k THEN NoopCmd ELSE r.buf[p]
  <2>1. n \in 0 .. Len(todo) /\ taken \in 0 .. Len(todo)
    BY <1>5
  <2>2. /\ \/ /\ n = Len(todo) /\ taken = n /\ ~done.ring.finished
            /\ \A i \in 1 .. n : todo[i] # Stop
         \/ /\ taken = n + 1 /\ todo[taken] = Stop /\ done.ring.finished
            /\ \A i \in 1 .. n : todo[i] # Stop
        /\ done.ran = SubSeq(todo, 1, n)
        /\ done.ring.cur = (start + taken) % RingSize
        /\ done.ring.owed = SubSeq(r.owed, taken + 1, Len(r.owed))
        /\ \A p \in Positions :
             done.ring.buf[p] = IF Distance(start, p) < n THEN NoopCmd ELSE r.buf[p]
    BY <1>5, <1>9, <1>10
  <2> QED  BY <2>1, <2>2
<1> QED  BY <1>1, <1>10, <1>11 DEF start, todo, done

LEMMA ProcessRing ==
  ASSUME NEW r \in RingType, NEW m \in Message
  PROVE  /\ StartOf(r, m) \in Positions /\ ProcessCmds(r, m).ring \in RingType
         /\ \E n \in 0 .. Len(Slice(r, StartOf(r, m), m[2])) :
              ProcessCmds(r, m).ran = SubSeq(Slice(r, StartOf(r, m), m[2]), 1, n)
<1> DEFINE todo == Slice(r, StartOf(r, m), m[2])
           done == ProcessCmds(r, m)
<1>1. StartOf(r, m) \in Positions /\ done.ring \in RingType
  BY ProcessIs
<1>2. LET start == StartOf(r, m)
          rest == Slice(r, start, m[2])
      IN  \E n \in 0 .. Len(rest), taken \in 0 .. Len(rest) : done.ran = SubSeq(rest, 1, n)
  BY ProcessIs
<1> HIDE DEF done
<1>3. \E n \in 0 .. Len(todo), taken \in 0 .. Len(todo) : done.ran = SubSeq(todo, 1, n)
  BY <1>2
<1> HIDE DEF todo
<1>4. \E n \in 0 .. Len(todo) : done.ran = SubSeq(todo, 1, n)
  BY <1>3
<1> QED  BY <1>1, <1>4 DEF todo, done

LEMMA ProcessTypes ==
  ASSUME NEW acc \in RanType, NEW m \in Message
  PROVE  ProcessOne(acc, m) \in RanType
<1> DEFINE todo == Slice(acc.ring, StartOf(acc.ring, m), m[2])
           done == ProcessCmds(acc.ring, m)
<1>1. acc.ring \in RingType /\ acc.ran \in Seq(Commands) /\ m[2] \in Positions
  BY DEF RanType, Message
<1>2. StartOf(acc.ring, m) \in Positions /\ done.ring \in RingType
      /\ \E n \in 0 .. Len(todo) : done.ran = SubSeq(todo, 1, n)
  BY <1>1, ProcessRing
<1>3. todo \in Seq(Commands)
  BY <1>1, <1>2, SliceIs
<1>4. done.ran \in Seq(Commands)
  <2>1. PICK n \in 0 .. Len(todo) : done.ran = SubSeq(todo, 1, n)
    BY <1>2
  <2>2. \A i \in 1 .. n : todo[i] \in Commands
    BY <1>3, ElementOfSeq
  <2> QED  BY <1>3, <2>1, <2>2, SubSeqProperties
<1>5. acc.ran \o done.ran \in Seq(Commands)
  BY <1>1, <1>4, ConcatProperties
<1> HIDE DEF done
<1>6. ProcessOne(acc, m) = [ring |-> done.ring, ran |-> acc.ran \o done.ran]
  BY DEF ProcessOne, done
<1> QED  BY <1>2, <1>5, <1>6 DEF RanType

-----------------------------------------------------------------------------
(* The three folds, step by step: the ring after each command, and what is *)
(* left and has run after each message.                                    *)
LEMMA QueueAllSteps ==
  ASSUME NEW r \in RingType, NEW cs \in Seq(Commands)
  PROVE  \E a \in [0 .. Len(cs) -> RingType] :
           /\ a[0] = r /\ a[Len(cs)] = QueueAll(r, cs)
           /\ \A k \in 1 .. Len(cs) : a[k] = QueueCmd(a[k - 1], cs[k])
<1> DEFINE n == Len(cs)
           F == [x \in RingType \X Commands |-> QueueCmd(x[1], x[2])]
<1>1. n \in Nat /\ cs \in [1 .. n -> Commands] /\ DOMAIN cs = 1 .. n
  BY LenProperties
<1>2. F \in [RingType \X Commands -> RingType]
  BY QueueIs
<1>3. \A x \in RingType, c \in Commands : F[<<x, c>>] = QueueCmd(x, c)
  OBVIOUS
<1> HIDE DEF F, n
<1>a. Foldable(RingType, Commands, F, r, n, cs)
  BY <1>1, <1>2 DEF Foldable
<1>4. \A s \in SUBSET (1 .. n) : s # {} => cs[Max(s)] \in Commands
  BY <1>1, MaxIs
<1> DEFINE Iter(g) == [s \in SUBSET (1 .. n) |->
                         IF s = {} THEN r ELSE QueueCmd(g[s \ {Max(s)}], cs[Max(s)])]
<1>5. \E g : g = Iter(g)
  <2>1. PICK g : FoldTable(RingType, F, r, n, cs, g)
    BY <1>a, FoldExists
  <2>2. \A s \in SUBSET (1 .. n) :
          g[s] = IF s = {} THEN r ELSE QueueCmd(g[s \ {Max(s)}], cs[Max(s)])
    <3> TAKE s \in SUBSET (1 .. n)
    <3>1. s \ {Max(s)} \in SUBSET (1 .. n)
      OBVIOUS
    <3>2. g[s \ {Max(s)}] \in RingType
      BY <2>1, <3>1 DEF FoldTable
    <3>3. s # {} => F[<<g[s \ {Max(s)}], cs[Max(s)]>>] = QueueCmd(g[s \ {Max(s)}], cs[Max(s)])
      BY <1>3, <1>4, <3>2
    <3> QED  BY <2>1, <3>3 DEF FoldTable
  <2>3. g = [s \in SUBSET (1 .. n) |-> g[s]]
    BY <2>1 DEF FoldTable
  <2>4. g = Iter(g)
    BY <2>2, <2>3
  <2> QED  BY <2>4
<1>6. \E f : FoldsFrom(RingType, F, r, n, cs, f) /\ QueueAll(r, cs) = f[1 .. n]
  <2> DEFINE f == CHOOSE x : x = Iter(x)
  <2>1. f = Iter(f)
    BY <1>5
  <2>2. QueueAll(r, cs) = f[1 .. n]
    BY <1>1 DEF QueueAll, FoldLeft, MapThenFoldSet, n
  <2> HIDE DEF f
  <2>3. \A s \in SUBSET (1 .. n) :
          f[s] = IF s = {} THEN r ELSE QueueCmd(f[s \ {Max(s)}], cs[Max(s)])
    BY <2>1
  <2> HIDE DEF Iter
  <2>4. FoldsFrom(RingType, F, r, n, cs, f)
    BY <1>3, <1>4, <2>3 DEF FoldsFrom
  <2> QED  BY <2>2, <2>4
<1> HIDE DEF Iter
<1>8. PICK f : FoldsFrom(RingType, F, r, n, cs, f) /\ QueueAll(r, cs) = f[1 .. n]
  BY <1>6
<1>9. PICK a : FoldPath(RingType, F, r, n, cs, a, f[1 .. n])
  BY <1>a, <1>8, FoldSteps
<1>10. \A k \in 1 .. n : a[k] = QueueCmd(a[k - 1], cs[k])
  <2> TAKE k \in 1 .. n
  <2>1. k - 1 \in 0 .. n
    BY <1>1
  <2>2. a[k - 1] \in RingType /\ cs[k] \in Commands
    BY <1>1, <1>9, <2>1 DEF FoldPath
  <2> QED  BY <1>3, <1>9, <2>2 DEF FoldPath
<1> QED  BY <1>8, <1>9, <1>10 DEF FoldPath, n

Requests == [spec : Specs, fade : BOOLEAN]

(* What the requests work on: the ring and gAudioCtx.specId.               *)
AccType == [ring : RingType, spec : Specs]

LEMMA AccIs ==
  ASSUME NEW acc \in AccType
  PROVE  /\ acc.ring \in RingType /\ acc.spec \in Specs
         /\ \A r \in RingType, s \in Specs :
              /\ [ring |-> r, spec |-> s] \in AccType
              /\ [ring |-> r, spec |-> s].ring = r /\ [ring |-> r, spec |-> s].spec = s
BY DEF AccType

LEMMA ResetQueueIs ==
  ASSUME NEW r \in RingType
  PROVE  ResetCmdQueue(r) \in RingType /\ ResetCmdQueue(r).msgs = r.msgs
BY DEF ResetCmdQueue, RingType

(* A request to reset the heap, and one that only fades the reverb.        *)
LEMMA ResetAudioHeapIs ==
  ASSUME NEW acc \in AccType, NEW w \in Specs
  PROVE  LET r == IF resetStatus = 0 THEN acc.ring ELSE ResetCmdQueue(acc.ring)
             done == ResetAudioHeap(acc, w)
         IN  /\ done \in AccType /\ r \in RingType
             /\ done.ring = r \/ done.ring = Schedule(QueueCmd(r, ResetHeap(w)))
             /\ resetStatus = 0 => /\ done.ring = Schedule(QueueCmd(acc.ring, ResetHeap(w)))
                                  /\ done.spec = acc.spec
<1> DEFINE r == IF resetStatus = 0 THEN acc.ring ELSE ResetCmdQueue(acc.ring)
           s == Schedule(QueueCmd(r, ResetHeap(w)))
           sent == resetStatus = 0 \/ (acc.spec # w /\ resetStatus <= 2)
           spec == IF resetStatus > 2 THEN w ELSE acc.spec
<1>1. r \in RingType /\ acc.ring \in RingType /\ acc.spec \in Specs
  BY AccIs, ResetQueueIs
<1>2. s \in RingType
  <2> HIDE DEF r
  <2>1. QueueCmd(r, ResetHeap(w)) \in RingType
    BY <1>1, QueueIs, CommandsAre
  <2> QED  BY <2>1, ScheduleIs
<1>3. spec \in Specs
  BY <1>1
<1>4. ResetAudioHeap(acc, w) = [ring |-> IF sent THEN s ELSE r, spec |-> spec]
  BY DEF ResetAudioHeap
<1>5. resetStatus = 0 => spec = acc.spec /\ sent /\ r = acc.ring
  OBVIOUS
<1> HIDE DEF r, s, sent, spec
<1>6. ResetAudioHeap(acc, w) \in AccType
  BY <1>1, <1>2, <1>3, <1>4 DEF AccType
<1>7. /\ ResetAudioHeap(acc, w).ring = IF sent THEN s ELSE r
      /\ ResetAudioHeap(acc, w).spec = spec
  BY <1>4
<1>8. resetStatus = 0 => s = Schedule(QueueCmd(acc.ring, ResetHeap(w)))
  BY <1>5 DEF s
<1> QED  BY <1>1, <1>5, <1>6, <1>7, <1>8 DEF r, s

LEMMA TakeUpIs ==
  ASSUME NEW acc \in AccType, NEW q \in Requests
  PROVE  /\ TakeUp(acc, q) \in AccType
         /\ q.fade => TakeUp(acc, q) = acc
         /\ ~q.fade => /\ TakeUp(acc, q).ring = QueueCmd(ResetAudioHeap(acc, q.spec).ring, Stop)
                       /\ TakeUp(acc, q).spec = ResetAudioHeap(acc, q.spec).spec
<1>1. q.spec \in Specs /\ q.fade \in BOOLEAN
  BY DEF Requests
<1> DEFINE done == ResetAudioHeap(acc, q.spec)
<1>2. done \in AccType
  BY <1>1, ResetAudioHeapIs
<1>3. ~q.fade => TakeUp(acc, q) = [done EXCEPT !.ring = QueueCmd(@, Stop)]
  BY DEF TakeUp
<1> HIDE DEF done
<1>4. QueueCmd(done.ring, Stop) \in RingType /\ done.spec \in Specs
  BY <1>2, AccIs, QueueIs, CommandsAre
<1>5. [done EXCEPT !.ring = QueueCmd(@, Stop)] = [ring |-> QueueCmd(done.ring, Stop), spec |-> done.spec]
  BY <1>2 DEF AccType
<1>6. q.fade => TakeUp(acc, q) = acc
  BY DEF TakeUp
<1> QED  BY <1>3, <1>4, <1>5, <1>6, <1>1, AccIs DEF done

LEMMA TakeUpType ==
  ASSUME NEW r \in AccType, NEW q \in Requests
  PROVE  TakeUp(r, q) \in AccType
BY TakeUpIs

LEMMA TakeUpSteps ==
  ASSUME NEW r \in AccType, NEW cs \in Seq(Requests)
  PROVE  \E a \in [0 .. Len(cs) -> AccType] :
           /\ a[0] = r /\ a[Len(cs)] = FoldLeft(TakeUp, r, cs)
           /\ \A k \in 1 .. Len(cs) : a[k] = TakeUp(a[k - 1], cs[k])
<1> DEFINE n == Len(cs)
           F == [x \in AccType \X Requests |-> TakeUp(x[1], x[2])]
<1>1. n \in Nat /\ cs \in [1 .. n -> Requests] /\ DOMAIN cs = 1 .. n
  BY LenProperties
<1>2. F \in [AccType \X Requests -> AccType]
  BY TakeUpType
<1>3. \A x \in AccType, c \in Requests : F[<<x, c>>] = TakeUp(x, c)
  OBVIOUS
<1> HIDE DEF F, n
<1>a. Foldable(AccType, Requests, F, r, n, cs)
  BY <1>1, <1>2 DEF Foldable
<1>4. \A s \in SUBSET (1 .. n) : s # {} => cs[Max(s)] \in Requests
  BY <1>1, MaxIs
<1> DEFINE Iter(g) == [s \in SUBSET (1 .. n) |->
                         IF s = {} THEN r ELSE TakeUp(g[s \ {Max(s)}], cs[Max(s)])]
<1>5. \E g : g = Iter(g)
  <2>1. PICK g : FoldTable(AccType, F, r, n, cs, g)
    BY <1>a, FoldExists
  <2>2. \A s \in SUBSET (1 .. n) :
          g[s] = IF s = {} THEN r ELSE TakeUp(g[s \ {Max(s)}], cs[Max(s)])
    <3> TAKE s \in SUBSET (1 .. n)
    <3>1. s \ {Max(s)} \in SUBSET (1 .. n)
      OBVIOUS
    <3>2. g[s \ {Max(s)}] \in AccType
      BY <2>1, <3>1 DEF FoldTable
    <3>3. s # {} => F[<<g[s \ {Max(s)}], cs[Max(s)]>>] = TakeUp(g[s \ {Max(s)}], cs[Max(s)])
      BY <1>3, <1>4, <3>2
    <3> QED  BY <2>1, <3>3 DEF FoldTable
  <2>3. g = [s \in SUBSET (1 .. n) |-> g[s]]
    BY <2>1 DEF FoldTable
  <2>4. g = Iter(g)
    BY <2>2, <2>3
  <2> QED  BY <2>4
<1>6. \E f : FoldsFrom(AccType, F, r, n, cs, f) /\ FoldLeft(TakeUp, r, cs) = f[1 .. n]
  <2> DEFINE f == CHOOSE x : x = Iter(x)
  <2>1. f = Iter(f)
    BY <1>5
  <2>2. FoldLeft(TakeUp, r, cs) = f[1 .. n]
    BY <1>1 DEF FoldLeft, MapThenFoldSet, n
  <2> HIDE DEF f
  <2>3. \A s \in SUBSET (1 .. n) :
          f[s] = IF s = {} THEN r ELSE TakeUp(f[s \ {Max(s)}], cs[Max(s)])
    BY <2>1
  <2> HIDE DEF Iter
  <2>4. FoldsFrom(AccType, F, r, n, cs, f)
    BY <1>3, <1>4, <2>3 DEF FoldsFrom
  <2> QED  BY <2>2, <2>4
<1> HIDE DEF Iter
<1>8. PICK f : FoldsFrom(AccType, F, r, n, cs, f) /\ FoldLeft(TakeUp, r, cs) = f[1 .. n]
  BY <1>6
<1>9. PICK a : FoldPath(AccType, F, r, n, cs, a, f[1 .. n])
  BY <1>a, <1>8, FoldSteps
<1>10. \A k \in 1 .. n : a[k] = TakeUp(a[k - 1], cs[k])
  <2> TAKE k \in 1 .. n
  <2>1. k - 1 \in 0 .. n
    BY <1>1
  <2>2. a[k - 1] \in AccType /\ cs[k] \in Requests
    BY <1>1, <1>9, <2>1 DEF FoldPath
  <2> QED  BY <1>3, <1>9, <2>2 DEF FoldPath
<1> QED  BY <1>8, <1>9, <1>10 DEF FoldPath, n

LEMMA ProcessSteps ==
  ASSUME NEW r \in RanType, NEW cs \in Seq(Message)
  PROVE  \E a \in [0 .. Len(cs) -> RanType] :
           /\ a[0] = r /\ a[Len(cs)] = FoldLeft(ProcessOne, r, cs)
           /\ \A k \in 1 .. Len(cs) : a[k] = ProcessOne(a[k - 1], cs[k])
<1> DEFINE n == Len(cs)
           F == [x \in RanType \X Message |-> ProcessOne(x[1], x[2])]
<1>1. n \in Nat /\ cs \in [1 .. n -> Message] /\ DOMAIN cs = 1 .. n
  BY LenProperties
<1>2. F \in [RanType \X Message -> RanType]
  BY ProcessTypes
<1>3. \A x \in RanType, c \in Message : F[<<x, c>>] = ProcessOne(x, c)
  OBVIOUS
<1> HIDE DEF F, n
<1>a. Foldable(RanType, Message, F, r, n, cs)
  BY <1>1, <1>2 DEF Foldable
<1>4. \A s \in SUBSET (1 .. n) : s # {} => cs[Max(s)] \in Message
  BY <1>1, MaxIs
<1> DEFINE Iter(g) == [s \in SUBSET (1 .. n) |->
                         IF s = {} THEN r ELSE ProcessOne(g[s \ {Max(s)}], cs[Max(s)])]
<1>5. \E g : g = Iter(g)
  <2>1. PICK g : FoldTable(RanType, F, r, n, cs, g)
    BY <1>a, FoldExists
  <2>2. \A s \in SUBSET (1 .. n) :
          g[s] = IF s = {} THEN r ELSE ProcessOne(g[s \ {Max(s)}], cs[Max(s)])
    <3> TAKE s \in SUBSET (1 .. n)
    <3>1. s \ {Max(s)} \in SUBSET (1 .. n)
      OBVIOUS
    <3>2. g[s \ {Max(s)}] \in RanType
      BY <2>1, <3>1 DEF FoldTable
    <3>3. s # {} => F[<<g[s \ {Max(s)}], cs[Max(s)]>>] = ProcessOne(g[s \ {Max(s)}], cs[Max(s)])
      BY <1>3, <1>4, <3>2
    <3> QED  BY <2>1, <3>3 DEF FoldTable
  <2>3. g = [s \in SUBSET (1 .. n) |-> g[s]]
    BY <2>1 DEF FoldTable
  <2>4. g = Iter(g)
    BY <2>2, <2>3
  <2> QED  BY <2>4
<1>6. \E f : FoldsFrom(RanType, F, r, n, cs, f) /\ FoldLeft(ProcessOne, r, cs) = f[1 .. n]
  <2> DEFINE f == CHOOSE x : x = Iter(x)
  <2>1. f = Iter(f)
    BY <1>5
  <2>2. FoldLeft(ProcessOne, r, cs) = f[1 .. n]
    BY <1>1 DEF FoldLeft, MapThenFoldSet, n
  <2> HIDE DEF f
  <2>3. \A s \in SUBSET (1 .. n) :
          f[s] = IF s = {} THEN r ELSE ProcessOne(f[s \ {Max(s)}], cs[Max(s)])
    BY <2>1
  <2> HIDE DEF Iter
  <2>4. FoldsFrom(RanType, F, r, n, cs, f)
    BY <1>3, <1>4, <2>3 DEF FoldsFrom
  <2> QED  BY <2>2, <2>4
<1> HIDE DEF Iter
<1>8. PICK f : FoldsFrom(RanType, F, r, n, cs, f) /\ FoldLeft(ProcessOne, r, cs) = f[1 .. n]
  BY <1>6
<1>9. PICK a : FoldPath(RanType, F, r, n, cs, a, f[1 .. n])
  BY <1>a, <1>8, FoldSteps
<1>10. \A k \in 1 .. n : a[k] = ProcessOne(a[k - 1], cs[k])
  <2> TAKE k \in 1 .. n
  <2>1. k - 1 \in 0 .. n
    BY <1>1
  <2>2. a[k - 1] \in RanType /\ cs[k] \in Message
    BY <1>1, <1>9, <2>1 DEF FoldPath
  <2> QED  BY <1>3, <1>9, <2>2 DEF FoldPath
<1> QED  BY <1>8, <1>9, <1>10 DEF FoldPath, n

-----------------------------------------------------------------------------
(* What one command, one request or one message keeps, all of them keep.   *)
LEMMA QueueAllKeeps ==
  ASSUME NEW r \in RingType, NEW cs \in Seq(Commands), NEW P, r \in P,
         \A x \in RingType, c \in Commands : x \in P => QueueCmd(x, c) \in P
  PROVE  QueueAll(r, cs) \in RingType /\ QueueAll(r, cs) \in P
<1> DEFINE n == Len(cs)
<1>1. n \in Nat /\ \A k \in 1 .. n : cs[k] \in Commands
  BY LenProperties
<1>2. PICK a \in [0 .. n -> RingType] :
        /\ a[0] = r /\ a[n] = QueueAll(r, cs)
        /\ \A k \in 1 .. n : a[k] = QueueCmd(a[k - 1], cs[k])
  BY QueueAllSteps
<1> HIDE DEF n
<1> DEFINE G == {k \in 0 .. n : a[k] \in P}
<1>3. 0 \in G
  BY <1>1, <1>2
<1>4. ASSUME NEW k \in 0 .. n - 1, k \in G PROVE k + 1 \in G
  <2>1. k + 1 \in 1 .. n /\ (k + 1) - 1 = k /\ k \in 0 .. n /\ k + 1 \in 0 .. n
    BY <1>1
  <2>2. a[k + 1] = QueueCmd(a[k], cs[k + 1]) /\ a[k] \in RingType /\ cs[k + 1] \in Commands
    BY <1>1, <1>2, <2>1
  <2> QED  BY <1>4, <2>1, <2>2
<1>5. \A k \in 0 .. n : k \in G
  <2> HIDE DEF G
  <2> QED  BY <1>1, <1>3, <1>4, UpTo
<1> QED  BY <1>1, <1>2, <1>5

LEMMA TakeUpKeeps ==
  ASSUME NEW r \in AccType, NEW cs \in Seq(Requests), NEW P, r \in P,
         \A x \in AccType, q \in Requests : x \in P => TakeUp(x, q) \in P
  PROVE  FoldLeft(TakeUp, r, cs) \in AccType /\ FoldLeft(TakeUp, r, cs) \in P
<1> DEFINE n == Len(cs)
<1>1. n \in Nat /\ \A k \in 1 .. n : cs[k] \in Requests
  BY LenProperties
<1>2. PICK a \in [0 .. n -> AccType] :
        /\ a[0] = r /\ a[n] = FoldLeft(TakeUp, r, cs)
        /\ \A k \in 1 .. n : a[k] = TakeUp(a[k - 1], cs[k])
  BY TakeUpSteps
<1> HIDE DEF n
<1> DEFINE G == {k \in 0 .. n : a[k] \in P}
<1>3. 0 \in G
  BY <1>1, <1>2
<1>4. ASSUME NEW k \in 0 .. n - 1, k \in G PROVE k + 1 \in G
  <2>1. k + 1 \in 1 .. n /\ (k + 1) - 1 = k /\ k \in 0 .. n /\ k + 1 \in 0 .. n
    BY <1>1
  <2>2. a[k + 1] = TakeUp(a[k], cs[k + 1]) /\ a[k] \in AccType /\ cs[k + 1] \in Requests
    BY <1>1, <1>2, <2>1
  <2> QED  BY <1>4, <2>1, <2>2
<1>5. \A k \in 0 .. n : k \in G
  <2> HIDE DEF G
  <2> QED  BY <1>1, <1>3, <1>4, UpTo
<1> QED  BY <1>1, <1>2, <1>5

(* A ring whose messages fit their queue.                                  *)
RingOK == {r \in RingType : Len(r.msgs) <= ProcMsgs}
AccOK == {acc \in AccType : acc.ring \in RingOK}

LEMMA RingOKKept ==
  /\ \A x \in RingOK, c \in Commands : QueueCmd(x, c) \in RingOK
  /\ \A x \in RingOK : Schedule(x) \in RingOK
  /\ \A x \in RingOK, cs \in Seq(Commands) : QueueAll(x, cs) \in RingOK
  /\ \A x \in RingOK : Step3(x) \in RingOK
  /\ \A x \in AccOK, s \in Seq(Requests) : FoldLeft(TakeUp, x, s) \in AccOK
<1>1. ASSUME NEW x \in RingOK, NEW c \in Commands PROVE QueueCmd(x, c) \in RingOK
  BY QueueIs DEF RingOK
<1>2. ASSUME NEW x \in RingOK PROVE Schedule(x) \in RingOK
  <2>1. x \in RingType /\ x.msgs \in Seq(Positions \X Positions) /\ Len(x.msgs) \in Nat
    BY DEF RingOK, RingType
  <2>2. Len(Append(x.msgs, <<x.read, x.write>>)) = Len(x.msgs) + 1
    BY <2>1
  <2>3. ProcMsgs \in Nat /\ Len(x.msgs) <= ProcMsgs
    BY RingAssumption DEF RingOK
  <2>4. Schedule(x) \in RingType /\ (IF Len(x.msgs) = ProcMsgs THEN Schedule(x).msgs = x.msgs
          ELSE Schedule(x).msgs = Append(x.msgs, <<x.read, x.write>>))
    BY <2>1, ScheduleIs
  <2>5. Len(Schedule(x).msgs) <= ProcMsgs
    BY <2>1, <2>2, <2>3, <2>4
  <2> QED  BY <2>4, <2>5 DEF RingOK
<1>3. ASSUME NEW x \in RingOK, NEW cs \in Seq(Commands) PROVE QueueAll(x, cs) \in RingOK
  <2>1. x \in RingType
    BY DEF RingOK
  <2> QED  BY <1>1, <2>1, QueueAllKeeps
<1>4. ASSUME NEW x \in RingOK PROVE Step3(x) \in RingOK
  <2>1. <<InitSfx, Play>> \in Seq(Commands) /\ Stop \in Commands
    BY CommandsAre
  <2> QED  BY <1>1, <1>2, <1>3, <2>1 DEF Step3
<1>5. ASSUME NEW x \in AccOK, NEW s \in Seq(Requests) PROVE FoldLeft(TakeUp, x, s) \in AccOK
  <2>1. x \in AccType
    BY DEF AccOK
  <2>2. ASSUME NEW y \in AccOK, NEW q \in Requests PROVE TakeUp(y, q) \in AccOK
    <3>1. y \in AccType /\ y.ring \in RingOK /\ q.spec \in Specs
      BY DEF AccOK, Requests
    <3> DEFINE r == IF resetStatus = 0 THEN y.ring ELSE ResetCmdQueue(y.ring)
               done == ResetAudioHeap(y, q.spec).ring
    <3>2. r \in RingOK
      <4>1. ResetCmdQueue(y.ring) \in RingOK
        BY <3>1, AccIs, ResetQueueIs DEF RingOK
      <4> QED  BY <3>1, <4>1
    <3>3. done = r \/ done = Schedule(QueueCmd(r, ResetHeap(q.spec)))
      BY <3>1, ResetAudioHeapIs
    <3> HIDE DEF r, done
    <3>4. QueueCmd(done, Stop) \in RingOK
      <4>1. done \in RingOK
        BY <1>1, <1>2, <3>1, <3>2, <3>3, CommandsAre
      <4> QED  BY <1>1, <4>1, CommandsAre
    <3>5. TakeUp(y, q) = y \/ TakeUp(y, q).ring = QueueCmd(done, Stop)
      BY <3>1, TakeUpIs DEF done
    <3> QED  BY <3>1, <3>4, <3>5, TakeUpIs DEF AccOK
  <2>3. \A y \in AccType, q \in Requests : y \in AccOK => TakeUp(y, q) \in AccOK
    BY <2>2
  <2> QED  BY <2>1, <2>3, TakeUpKeeps
<1> QED  BY <1>1, <1>2, <1>3, <1>4, <1>5

(* All messages: the ring's positions stay where the game has put them.    *)
LEMMA ProcessAllIs ==
  ASSUME NEW r \in RingType
  PROVE  /\ ProcessAll(r) \in RanType
         /\ ProcessAll(r).ring.msgs = <<>>
         /\ ProcessAll(r).ring.write = r.write /\ ProcessAll(r).ring.read = r.read
<1> DEFINE z == [ring |-> [r EXCEPT !.msgs = <<>>], ran |-> <<>>]
           n == Len(r.msgs)
<1>1. z \in RanType /\ r.msgs \in Seq(Message)
  <2>1. <<>> \in Seq(Positions \X Positions) /\ <<>> \in Seq(Commands)
    OBVIOUS
  <2>2. [r EXCEPT !.msgs = <<>>] \in RingType /\ r.msgs \in Seq(Message)
    BY <2>1 DEF RingType, Message
  <2> QED  BY <2>1, <2>2 DEF RanType
<1>2. PICK a \in [0 .. n -> RanType] :
        /\ a[0] = z /\ a[n] = FoldLeft(ProcessOne, z, r.msgs)
        /\ \A k \in 1 .. n : a[k] = ProcessOne(a[k - 1], r.msgs[k])
  BY <1>1, ProcessSteps
<1>3. n \in Nat /\ \A k \in 1 .. n : r.msgs[k] \in Message
  BY <1>1, LenProperties
<1>4. z.ring.msgs = <<>> /\ z.ring.write = r.write /\ z.ring.read = r.read
  BY DEF RingType
<1>5. ProcessAll(r) = FoldLeft(ProcessOne, z, r.msgs)
  BY DEF ProcessAll
<1> HIDE DEF n, z
<1> DEFINE G == {k \in 0 .. n : /\ a[k].ring.msgs = <<>>
                                /\ a[k].ring.write = r.write /\ a[k].ring.read = r.read}
<1>6. 0 \in G
  BY <1>2, <1>3, <1>4
<1>7. ASSUME NEW k \in 0 .. n - 1, k \in G PROVE k + 1 \in G
  <2>1. k + 1 \in 1 .. n /\ (k + 1) - 1 = k /\ k \in 0 .. n /\ k + 1 \in 0 .. n
    BY <1>3
  <2>2. a[k + 1] = ProcessOne(a[k], r.msgs[k + 1]) /\ a[k] \in RanType /\ r.msgs[k + 1] \in Message
    BY <1>2, <1>3, <2>1
  <2>3. a[k].ring \in RingType
    BY <2>2 DEF RanType
  <2>4. a[k + 1].ring = ProcessCmds(a[k].ring, r.msgs[k + 1]).ring
    BY <2>2 DEF ProcessOne
  <2>5. /\ a[k + 1].ring.write = a[k].ring.write /\ a[k + 1].ring.read = a[k].ring.read
        /\ a[k + 1].ring.msgs = a[k].ring.msgs
    BY <2>2, <2>3, <2>4, ProcessIs
  <2> QED  BY <1>7, <2>1, <2>5
<1>8. \A k \in 0 .. n : k \in G
  <2> HIDE DEF G
  <2> QED  BY <1>3, <1>6, <1>7, UpTo
<1> QED  BY <1>2, <1>3, <1>5, <1>8

-----------------------------------------------------------------------------
(* The types of the commands' variables.                                   *)
TypesInv ==
  /\ ring \in RingOK
  /\ resetStatus \in 0 .. 5 /\ fadeLeft \in Nat
  /\ specId \in Specs /\ wanted \in Specs
  /\ resetDone \in Seq(Specs) /\ Len(resetDone) <= 1
  /\ sfxPlayer \in BOOLEAN /\ resetting \in BOOLEAN /\ fading \in BOOLEAN
  /\ seqCmds \in Seq(Requests)
  /\ fadeTimer \in 0 .. ReverbFrames
  /\ calls \in 0 .. MaxCalls
  /\ mishaps \subseteq {"crowded", "twice", "met"}

LEMMA InitTypes == CmdInit => TypesInv
<1> SUFFICES ASSUME CmdInit PROVE TypesInv
  OBVIOUS
<1>1. EmptyRing \in RingOK
  <2>1. <<>> \in Seq(Positions \X Positions) /\ <<>> \in Seq(Commands) /\ Len(<<>>) = 0
    OBVIOUS
  <2> QED  BY <2>1, PositionTypes, CommandsAre, RingAssumption DEF EmptyRing, RingOK, RingType
<1>2. <<InitSfx, Play>> \in Seq(Commands)
  BY CommandsAre
<1>3. ring \in RingOK
  BY <1>1, <1>2, RingOKKept DEF CmdInit
<1>4. <<>> \in Seq(Specs) /\ <<>> \in Seq(Requests) /\ Len(<<>>) = 0
  OBVIOUS
<1>5. resetStatus \in 0 .. 5 /\ fadeLeft \in Nat /\ fadeTimer \in 0 .. ReverbFrames
  BY FadeAssumption DEF CmdInit
<1>6. specId \in Specs /\ wanted \in Specs
  BY SpecAssumption DEF CmdInit
<1>7. resetDone = <<>> /\ seqCmds = <<>>
  BY DEF CmdInit
<1>8. resetDone \in Seq(Specs) /\ Len(resetDone) <= 1 /\ seqCmds \in Seq(Requests)
  BY <1>4, <1>7
<1>9. sfxPlayer \in BOOLEAN /\ resetting \in BOOLEAN /\ fading \in BOOLEAN
  BY DEF CmdInit
<1>10. calls \in 0 .. MaxCalls /\ mishaps \subseteq {"crowded", "twice", "met"}
  BY CallsAssumption DEF CmdInit
<1> QED  BY <1>3, <1>5, <1>6, <1>8, <1>9, <1>10 DEF TypesInv

LEMMA SetSpecTypes ==
  ASSUME TypesInv, NEW spec \in Specs, NEW fade \in BOOLEAN, SetSpec(spec, fade)
  PROVE  TypesInv'
<1>1. [spec |-> spec, fade |-> fade] \in Requests
  BY DEF Requests
<1>2. seqCmds' \in Seq(Requests)
  BY <1>1 DEF TypesInv, SetSpec
<1>3. calls' \in 0 .. MaxCalls
  BY CallsAssumption DEF SetSpec, CountCall, TypesInv
<1> QED  BY <1>2, <1>3 DEF TypesInv, SetSpec, audioVars

(* What the game queues outside an update.                                 *)
Outside == {<<Play>>, <<Play, Stop>>}

LEMMA OutsideIs == Outside \subseteq Seq(Commands)
BY CommandsAre DEF Outside

LEMMA QueueOutsideTypes == TypesInv /\ QueueOutside => TypesInv'
<1> SUFFICES ASSUME TypesInv, QueueOutside PROVE TypesInv'
  OBVIOUS
<1>1. PICK cmds \in Outside : ring' = QueueAll(ring, cmds)
  BY DEF QueueOutside, Outside
<1>2. ring' \in RingOK
  BY <1>1, OutsideIs, RingOKKept DEF TypesInv
<1>3. calls' \in 0 .. MaxCalls
  BY CallsAssumption DEF QueueOutside, CountCall, TypesInv
<1> QED  BY <1>2, <1>3 DEF TypesInv, QueueOutside, audioVars, seqVars

LEMMA UpdateTypes ==
  ASSUME TypesInv, NEW r \in RingOK, NEW plays \in Plays, Update(r, plays)
  PROVE  /\ ring' \in RingOK /\ seqCmds' \in Seq(Requests) /\ specId' \in Specs
         /\ mishaps' \subseteq {"crowded", "twice", "met"}
         /\ resetting' \in BOOLEAN /\ fading' \in BOOLEAN
         /\ fadeTimer' \in 0 .. ReverbFrames /\ wanted' \in Specs
<1>1. CASE FadeReverb(r)
  <2>1. ring' \in RingOK
    BY <1>1, RingOKKept, CommandsAre DEF FadeReverb
  <2>2. fadeTimer' \in 0 .. ReverbFrames
    BY <1>1, FadeAssumption DEF FadeReverb, TypesInv
  <2> QED  BY <1>1, <2>1, <2>2 DEF FadeReverb, TypesInv
<1>2. CASE FinishUpdate(r, plays)
  <2> DEFINE faded == IF fading THEN Step3(QueueCmd(Schedule(QueueCmd(r, Play)), Play)) ELSE r
             start == [ring |-> faded, spec |-> specId]
             taken == FoldLeft(TakeUp, start, seqCmds)
  <2>1. faded \in RingOK
    BY RingOKKept, CommandsAre
  <2>2. taken \in AccOK
    <3>1. start \in AccOK
      <4> HIDE DEF faded
      <4>1. faded \in RingType /\ specId \in Specs
        BY <2>1 DEF RingOK, TypesInv
      <4> QED  BY <2>1, <4>1, AccIs DEF AccOK, AccType
    <3> HIDE DEF start
    <3> QED  BY <3>1, RingOKKept DEF TypesInv
  <2>3. plays \in Nat /\ [i \in 1 .. plays |-> Play] \in Seq(Commands)
    <3>1. plays \in Nat
      BY CallsAssumption
    <3>2. [i \in 1 .. plays |-> Play] \in [1 .. plays -> Commands]
      BY CommandsAre
    <3> QED  BY <3>1, <3>2, IsASeq
  <2>4. Schedule(QueueAll(taken.ring, [i \in 1 .. plays |-> Play])) \in RingOK
        /\ taken.spec \in Specs
    <3> HIDE DEF taken
    <3>1. taken.ring \in RingOK /\ taken.spec \in Specs
      BY <2>2 DEF AccOK, AccType
    <3> QED  BY <2>3, <3>1, RingOKKept
  <2>5. ring' \in RingOK /\ specId' \in Specs
    BY <1>2, <2>4 DEF FinishUpdate
  <2>6. seqCmds' = <<>> /\ seqCmds' \in Seq(Requests) /\ Len(seqCmds') = 0
    BY <1>2 DEF FinishUpdate
  <2>7. (resetting' <=> Resets # {}) /\ resetting' \in BOOLEAN
        /\ fading' \in BOOLEAN
    BY <1>2 DEF FinishUpdate
  <2>8. fadeTimer' \in 0 .. ReverbFrames
    BY <1>2, FadeAssumption DEF FinishUpdate, TypesInv
  <2>9. wanted' \in Specs
    <3>1. CASE Resets = {}
      BY <1>2, <3>1 DEF FinishUpdate, TypesInv
    <3>2. CASE Resets # {}
      <4>1. seqCmds \in Seq(Requests) /\ Len(seqCmds) \in Nat /\ DOMAIN seqCmds = 1 .. Len(seqCmds)
        BY LenProperties DEF TypesInv
      <4>2. Resets \in SUBSET (1 .. Len(seqCmds))
        BY <4>1 DEF Resets
      <4>3. Max(Resets) \in 1 .. Len(seqCmds)
        BY <3>2, <4>1, <4>2, MaxIs
      <4>4. seqCmds[Max(Resets)] \in Requests
        BY <4>1, <4>3, ElementOfSeq
      <4>5. wanted' = seqCmds[Max(Resets)].spec
        BY <1>2, <3>2 DEF FinishUpdate
      <4> QED  BY <4>4, <4>5 DEF Requests
    <3> QED  BY <3>1, <3>2
  <2>10. mishaps' \subseteq {"crowded", "twice", "met"}
    BY <1>2 DEF FinishUpdate, Mishaps, TypesInv
  <2> QED  BY <2>5, <2>6, <2>7, <2>8, <2>9, <2>10
<1> QED  BY <1>1, <1>2 DEF Update

LEMMA AudioUpdateTypes == TypesInv /\ AudioUpdate => TypesInv'
<1> SUFFICES ASSUME TypesInv, AudioUpdate PROVE TypesInv'
  OBVIOUS
<1>1. <<>> \in Seq(Specs) /\ Len(<<>>) = 0
  OBVIOUS
<1>2. ASSUME NEW plays \in Plays, UpdateWhileReady(plays) PROVE TypesInv'
  <2>1. ring \in RingOK /\ Update(ring, plays)
    BY <1>2 DEF TypesInv, UpdateWhileReady
  <2>2. resetDone' \in Seq(Specs) /\ Len(resetDone') <= 1
    BY <1>1, <1>2 DEF TypesInv, UpdateWhileReady
  <2>3. UNCHANGED <<resetStatus, fadeLeft, sfxPlayer, calls>>
    BY <1>2 DEF UpdateWhileReady
  <2> QED  BY <2>1, <2>2, <2>3, UpdateTypes DEF TypesInv
<1>3. ASSUME NEW plays \in Plays, UpdateAfterReset(plays) PROVE TypesInv'
  <2> DEFINE r == QueueCmd(Step3(QueueCmd(ring, Play)), Play)
  <2>1. r \in RingOK
    BY RingOKKept, CommandsAre DEF TypesInv
  <2>2. /\ Update(r, plays) /\ resetDone' = <<>>
        /\ UNCHANGED <<resetStatus, fadeLeft, sfxPlayer, calls>>
    BY <1>3 DEF UpdateAfterReset
  <2> HIDE DEF r
  <2> QED  BY <1>1, <2>1, <2>2, UpdateTypes DEF TypesInv
<1>4. ASSUME UpdateWhileResetting PROVE TypesInv'
  BY <1>1, <1>4 DEF TypesInv, UpdateWhileResetting, audioVars, seqVars
<1> QED  BY <1>2, <1>3, <1>4 DEF AudioUpdate

LEMMA ApplyTypes ==
  ASSUME TypesInv, NEW ran \in Seq(Commands), Apply(ran)
  PROVE  /\ resetStatus' \in {0, 5} /\ specId' \in Specs
         /\ sfxPlayer' \in BOOLEAN /\ fadeLeft' \in Nat
<1> DEFINE R == RanReset(ran)
           i == CHOOSE x \in R : \A y \in R : y <= x
<1>1. Len(ran) \in Nat /\ DOMAIN ran = 1 .. Len(ran)
  BY LenProperties
<1>2. ASSUME R # {} PROVE ran[i].arg \in Specs
  <2>1. R \in SUBSET (1 .. Len(ran))
    BY <1>1 DEF RanReset
  <2>2. Max(R) \in R /\ \A y \in R : Max(R) >= y
    BY <1>1, <1>2, <2>1, MaxIs
  <2>3. \A y \in R : y <= Max(R)
    <3> HIDE DEF R
    <3>1. Max(R) \in 1 .. Len(ran)
      BY <2>1, <2>2
    <3> QED  BY <2>1, <2>2, <3>1
  <2>4. i \in R
    BY <2>2, <2>3
  <2>5. ran[i] \in Commands /\ ran[i].op = "RESET"
    BY <1>1, <2>4, ElementOfSeq DEF RanReset
  <2> QED  BY <2>5, CommandsAre
<1>3. specId' \in Specs /\ resetStatus' \in {0, 5}
  BY <1>2 DEF Apply, TypesInv
<1>4. sfxPlayer' \in BOOLEAN
  BY DEF Apply
<1> QED  BY <1>3, <1>4 DEF Apply, TypesInv

LEMMA BufferTypes == TypesInv /\ CreateNextAudioBuffer => TypesInv'
<1> SUFFICES ASSUME TypesInv, CreateNextAudioBuffer PROVE TypesInv'
  OBVIOUS
<1>1. CASE BufferDuringReset
  <2>1. resetStatus' \in 0 .. 5 /\ fadeLeft' \in Nat
    <3>1. \A i \in 3 .. 5 : FadeFrames[i] \in Nat
      BY FadeAssumption
    <3>2. ResetStep /\ resetStatus \in 0 .. 5 /\ fadeLeft \in Nat
      BY <1>1 DEF BufferDuringReset, TypesInv
    <3>3. CASE resetStatus = 5 /\ resetStatus' = 4 /\ fadeLeft' = FadeFrames[5]
      BY <3>1, <3>3
    <3>4. CASE resetStatus \in 2 .. 4 /\ fadeLeft # 0 /\ fadeLeft' = fadeLeft - 1
               /\ resetStatus' = resetStatus
      BY <3>2, <3>4
    <3>5. CASE /\ resetStatus \in 2 .. 4 /\ resetStatus' = resetStatus - 1
               /\ fadeLeft' = IF resetStatus = 2 THEN 0 ELSE FadeFrames[resetStatus]
      <4>1. resetStatus # 2 => resetStatus \in 3 .. 5
        BY <3>5
      <4> QED  BY <3>1, <3>5, <4>1
    <3> QED  BY <3>2, <3>3, <3>4, <3>5 DEF ResetStep
  <2>3. sfxPlayer' \in BOOLEAN
    BY <1>1 DEF BufferDuringReset, ResetStep, TypesInv
  <2>2. UNCHANGED <<ring, specId, resetDone>> /\ UNCHANGED <<seqVars, mishaps, calls>>
    BY <1>1 DEF BufferDuringReset, CreateNextAudioBuffer
  <2> QED  BY <2>1, <2>2, <2>3 DEF TypesInv, seqVars
<1>2. CASE BufferWithCommands
  <2>1. resetDone' \in Seq(Specs) /\ Len(resetDone') <= 1
    <3>1. <<specId>> \in Seq(Specs) /\ Len(<<specId>>) = 1
      BY DEF TypesInv
    <3> QED  BY <1>2, <3>1 DEF BufferWithCommands, TypesInv
  <2>2. \E ran \in Seq(Commands) : Apply(ran)
    <3>1. CASE ring.msgs = <<>>
      <4>1. <<>> \in Seq(Commands) /\ Apply(<<>>)
        BY <1>2, <3>1 DEF BufferWithCommands
      <4> QED  BY <4>1
    <3>2. CASE ring.msgs # <<>>
      <4>1. Apply(ProcessAll(ring).ran)
        BY <1>2, <3>2 DEF BufferWithCommands
      <4>2. ProcessAll(ring).ran \in Seq(Commands)
        BY ProcessAllIs DEF TypesInv, RingOK, RanType
      <4> QED  BY <4>1, <4>2
    <3> QED  BY <3>1, <3>2
  <2>3. ring' \in RingOK
    <3>1. ProcessAll(ring).ring \in RingOK
      <4>1. ProcessAll(ring).ring \in RingType /\ ProcessAll(ring).ring.msgs = <<>>
        BY ProcessAllIs DEF TypesInv, RingOK, RanType
      <4> QED  BY <4>1, RingAssumption DEF RingOK
    <3>2. Schedule(ring) \in RingOK
      BY RingOKKept DEF TypesInv
    <3> QED  BY <1>2, <3>1, <3>2 DEF BufferWithCommands, TypesInv
  <2>4. UNCHANGED <<seqVars, mishaps, calls>>
    BY DEF CreateNextAudioBuffer
  <2>5. /\ resetStatus' \in {0, 5} /\ specId' \in Specs
        /\ sfxPlayer' \in BOOLEAN /\ fadeLeft' \in Nat
    BY <2>2, ApplyTypes
  <2> QED  BY <2>1, <2>3, <2>4, <2>5 DEF TypesInv, seqVars
<1> QED  BY <1>1, <1>2 DEF CreateNextAudioBuffer

(* The types of everything: those of the commands with the threads'.       *)
TypedInv ==
  /\ TypesInv
  /\ game \in GamePlaces /\ audio \in AudioPlaces
  /\ processing \in BOOLEAN /\ running \in BOOLEAN
  /\ left \in Nat /\ updates \in 0 .. MaxUpdates

LEMMA NextTypes == TypedInv /\ [Next]_vars => TypedInv'
<1> SUFFICES ASSUME TypedInv, [Next]_vars PROVE TypedInv'
  OBVIOUS
<1> USE DEF TypedInv
<1>0. ASSUME UNCHANGED cmdVars PROVE TypesInv'
  BY <1>0 DEF TypesInv, cmdVars, audioVars, seqVars
<1>1. CASE Logic
  <2>1. TypesInv'
    BY <1>1, SetSpecTypes, QueueOutsideTypes, AudioUpdateTypes DEF Logic
  <2>2. updates' \in 0 .. MaxUpdates
    BY <1>1, UpdatesAssumption DEF Logic, CountUpdate
  <2> QED  BY <1>1, <2>1, <2>2 DEF Logic, threadVars
<1>2. CASE GameStep
  <2>1. UNCHANGED cmdVars
    BY <1>2 DEF GameStep, RequestBuffer, NotifyAudio, RunCommands, AwaitBuffer, NotifyStop, Join
  <2>2. TypesInv'
    BY <1>0, <2>1
  <2>3. game' \in GamePlaces /\ audio' \in AudioPlaces
    BY <1>2 DEF GameStep, RequestBuffer, NotifyAudio, RunCommands, AwaitBuffer, NotifyStop, Join,
                WakeAudio, GamePlaces, AudioPlaces
  <2>4. processing' \in BOOLEAN /\ running' \in BOOLEAN /\ left' \in Nat
    BY <1>2 DEF GameStep, RequestBuffer, NotifyAudio, RunCommands, AwaitBuffer, NotifyStop, Join
  <2>5. updates' = updates \/ updates' = 0
    BY <1>2 DEF GameStep, RequestBuffer, NotifyAudio, RunCommands, AwaitBuffer, NotifyStop, Join
  <2>6. updates' \in 0 .. MaxUpdates
    BY <2>5, UpdatesAssumption
  <2> QED  BY <2>2, <2>3, <2>4, <2>6
<1>3. CASE MakeBuffer
  <2>1. TypesInv'
    BY <1>3, BufferTypes DEF MakeBuffer
  <2>2. left' \in Nat
    BY <1>3 DEF MakeBuffer, CountBuffer
  <2> QED  BY <1>3, <2>1, <2>2 DEF MakeBuffer
<1>4. CASE AudioStep
  <2>1. UNCHANGED cmdVars
    BY <1>4 DEF AudioStep, LoopTop, AwaitRequest, StartWork, EndWork
  <2>2. TypesInv'
    BY <1>0, <2>1
  <2> QED  BY <1>4, <2>2, RatesAssumption
           DEF AudioStep, LoopTop, AwaitRequest, StartWork, EndWork, GamePlaces, AudioPlaces
<1>5. CASE StopRunning \/ Spurious
  <2>1. TypesInv'
    BY <1>0, <1>5 DEF StopRunning, Spurious
  <2> QED  BY <1>5, <2>1 DEF StopRunning, Spurious, GamePlaces, AudioPlaces
<1>6. CASE Exited \/ UNCHANGED vars
  <2>1. UNCHANGED <<threadVars, updates, cmdVars>>
    BY <1>6 DEF Exited, vars
  <2> QED  BY <1>0, <2>1 DEF threadVars
<1> QED  BY <1>1, <1>2, <1>3, <1>4, <1>5, <1>6 DEF Next

LEMMA AlwaysTyped == Spec => []TypedInv
<1>1. Init => TypedInv
  <2> SUFFICES ASSUME Init PROVE TypedInv
    OBVIOUS
  <2>1. game \in GamePlaces /\ audio \in AudioPlaces
    BY DEF Init, GamePlaces, AudioPlaces
  <2>2. left \in Nat /\ updates \in 0 .. MaxUpdates
    BY UpdatesAssumption DEF Init
  <2>3. processing \in BOOLEAN /\ running \in BOOLEAN
    BY DEF Init
  <2> QED  BY <2>1, <2>2, <2>3, InitTypes DEF Init, TypedInv
<1> QED  BY <1>1, NextTypes, PTL DEF Spec

(* Every variable of the hand-off keeps its type, however many commands    *)
(* are queued: the messages scheduled fit their queue, positions stay in   *)
(* the ring, and what the ring holds and owes are commands.                *)
THEOREM TypeCorrect == Spec => []TypeOK
<1>1. TypedInv => TypeOK
  <2> SUFFICES ASSUME TypedInv PROVE TypeOK
    OBVIOUS
  <2>1. ring \in RingType /\ Len(ring.msgs) <= ProcMsgs
    BY DEF TypedInv, TypesInv, RingOK
  <2>2. /\ ring.buf \in [Positions -> Commands]
        /\ {ring.write, ring.read, ring.cur} \subseteq Positions
        /\ ring.finished \in BOOLEAN /\ ring.msgs \in Seq(Positions \X Positions)
        /\ ring.owed \in Seq(Commands)
    BY <2>1 DEF RingType
  <2>3. {sfxPlayer, resetting, fading} \subseteq BOOLEAN
    BY DEF TypedInv, TypesInv
  <2> QED  BY <2>1, <2>2, <2>3 DEF TypedInv, TypesInv, TypeOK, CmdTypeOK, Requests
<1> QED  BY <1>1, AlwaysTyped, PTL

-----------------------------------------------------------------------------
(* Positions that wrap, by cases.                                          *)
LEMMA WrapIs ==
  /\ \A x \in 0 .. RingSize - 1 : x % RingSize = x
  /\ \A x \in RingSize .. 2 * RingSize - 1 : x % RingSize = x - RingSize
  /\ \A x \in -RingSize .. -1 : x % RingSize = x + RingSize
BY RingAssumption

LEMMA DistanceIs ==
  ASSUME NEW p \in Positions, NEW e \in Positions
  PROVE  Distance(p, e) = IF p <= e THEN e - p ELSE e - p + RingSize
BY WrapIs, RingAssumption DEF Distance, Positions

LEMMA PlaceIs ==
  ASSUME NEW p \in Positions, NEW i \in 0 .. RingSize - 1
  PROVE  (p + i) % RingSize = IF p + i < RingSize THEN p + i ELSE p + i - RingSize
<1>1. RingSize \in Nat /\ p \in 0 .. RingSize - 1 /\ i \in 0 .. RingSize - 1
  BY RingAssumption DEF Positions
<1>2. CASE p + i < RingSize
  BY <1>1, <1>2, WrapIs
<1>3. CASE ~(p + i < RingSize)
  <2>1. p + i \in RingSize .. 2 * RingSize - 1
    BY <1>1, <1>3
  <2> QED  BY <1>1, <1>3, <2>1, WrapIs
<1> QED  BY <1>2, <1>3

LEMMA DistanceTypes ==
  RingSize \in Nat /\ \A p, e \in Positions : Distance(p, e) \in Nat /\ Distance(p, e) < RingSize
BY PositionTypes

(* Positions by how far they are from another one.                         *)
LEMMA PlaceFrom ==
  ASSUME NEW p \in Positions, NEW t \in 0 .. RingSize - 1
  PROVE  /\ (p + t) % RingSize \in Positions
         /\ Distance(p, (p + t) % RingSize) = t
         /\ \A e \in Positions : t <= Distance(p, e) =>
              Distance((p + t) % RingSize, e) = Distance(p, e) - t
         /\ \A i \in 0 .. RingSize - 1 : t + i < RingSize =>
              (((p + t) % RingSize) + i) % RingSize = (p + (t + i)) % RingSize
<1> DEFINE s == (p + t) % RingSize
<1>1. RingSize \in Nat /\ RingSize > 1 /\ p \in 0 .. RingSize - 1 /\ t \in Nat
  BY PositionTypes DEF Positions
<1>2. s \in Positions /\ s \in 0 .. RingSize - 1
  BY <1>1, PositionTypes DEF Positions
<1>3. s = IF p + t < RingSize THEN p + t ELSE p + t - RingSize
  BY PlaceIs
<1> HIDE DEF s
<1>4. Distance(p, s) = t
  BY <1>1, <1>2, <1>3, DistanceIs
<1>5. ASSUME NEW e \in Positions, t <= Distance(p, e)
      PROVE  Distance(s, e) = Distance(p, e) - t
  <2>1. e \in 0 .. RingSize - 1
    BY DEF Positions
  <2>2. Distance(p, e) = IF p <= e THEN e - p ELSE e - p + RingSize
    BY DistanceIs
  <2>3. Distance(s, e) = IF s <= e THEN e - s ELSE e - s + RingSize
    BY <1>2, DistanceIs
  <2> QED  BY <1>1, <1>2, <1>3, <1>5, <2>1, <2>2, <2>3
<1>6. ASSUME NEW i \in 0 .. RingSize - 1, t + i < RingSize
      PROVE  (s + i) % RingSize = (p + (t + i)) % RingSize
  <2>1. t + i \in 0 .. RingSize - 1
    BY <1>1, <1>6
  <2>2. (p + (t + i)) % RingSize =
          IF p + (t + i) < RingSize THEN p + (t + i) ELSE p + (t + i) - RingSize
    BY <2>1, PlaceIs
  <2>3. (s + i) % RingSize = IF s + i < RingSize THEN s + i ELSE s + i - RingSize
    BY <1>2, PlaceIs
  <2> QED  BY <1>1, <1>2, <1>3, <1>6, <2>2, <2>3
<1> QED  BY <1>2, <1>4, <1>5, <1>6 DEF s

LEMMA PlaceBack ==
  ASSUME NEW p \in Positions, NEW e \in Positions
  PROVE  /\ (p + Distance(p, e)) % RingSize = e
         /\ Distance(p, p) = 0
         /\ Distance(p, e) < RingSize - 1 => Distance(p, After(e)) = Distance(p, e) + 1
         /\ Distance(p, e) = 0 => p = e
<1>1. RingSize \in Nat /\ RingSize > 1 /\ p \in 0 .. RingSize - 1 /\ e \in 0 .. RingSize - 1
  BY PositionTypes DEF Positions
<1>2. Distance(p, e) = IF p <= e THEN e - p ELSE e - p + RingSize
  BY DistanceIs
<1>3. Distance(p, p) = 0
  BY <1>1, DistanceIs
<1>4. Distance(p, e) \in 0 .. RingSize - 1
  BY PositionTypes
<1>5. (p + Distance(p, e)) % RingSize =
        IF p + Distance(p, e) < RingSize THEN p + Distance(p, e)
        ELSE p + Distance(p, e) - RingSize
  BY <1>4, PlaceIs
<1>6. After(e) \in Positions /\ After(e) = IF e + 1 < RingSize THEN e + 1 ELSE e + 1 - RingSize
  <2>1. 1 \in 0 .. RingSize - 1
    BY <1>1
  <2> QED  BY <2>1, PlaceIs, PositionTypes DEF After
<1>7. Distance(p, After(e)) = IF p <= After(e) THEN After(e) - p ELSE After(e) - p + RingSize
  BY <1>6, DistanceIs
<1>8. ASSUME Distance(p, e) < RingSize - 1
      PROVE  Distance(p, After(e)) = Distance(p, e) + 1
  BY <1>1, <1>2, <1>6, <1>7, <1>8
<1>9. Distance(p, e) = 0 => p = e
  BY <1>1, <1>2
<1> QED  BY <1>1, <1>2, <1>3, <1>5, <1>8, <1>9

-----------------------------------------------------------------------------
(* The ring from position S on holds what is owed.                         *)
RingIs(r, S) ==
  /\ S \in Positions /\ Len(r.owed) = Distance(S, r.write)
  /\ \A i \in 0 .. Distance(S, r.write) - 1 : r.owed[i + 1] = r.buf[(S + i) % RingSize]

LEMMA RingIsSlice ==
  ASSUME NEW r \in RingType, NEW S \in Positions
  PROVE  RingIs(r, S) <=> Slice(r, S, r.write) = r.owed
<1> DEFINE d == Distance(S, r.write)
<1>1. d \in Nat /\ r.write \in Positions /\ S \in Nat
  <2>1. r.write \in Positions
    BY DEF RingType
  <2>2. d \in Nat
    BY <2>1, DistanceTypes
  <2> QED  BY <2>1, <2>2 DEF Positions
<1>2. /\ Slice(r, S, r.write) \in Seq(Commands) /\ Len(Slice(r, S, r.write)) = d
      /\ \A i \in 1 .. d : Slice(r, S, r.write)[i] = r.buf[(S + i - 1) % RingSize]
  BY <1>1, SliceIs
<1>3. r.owed \in Seq(Commands)
  BY DEF RingType
<1> HIDE DEF d
<1>4. \A i \in 1 .. d : i - 1 \in 0 .. d - 1 /\ (i - 1) + 1 = i /\ S + i - 1 = S + (i - 1)
  BY <1>1
<1>5. \A i \in 0 .. d - 1 : i + 1 \in 1 .. d /\ S + (i + 1) - 1 = S + i
  BY <1>1
<1>6. ASSUME RingIs(r, S) PROVE Slice(r, S, r.write) = r.owed
  <2>1. Len(r.owed) = d /\ \A i \in 0 .. d - 1 : r.owed[i + 1] = r.buf[(S + i) % RingSize]
    BY <1>6 DEF RingIs, d
  <2>2. \A i \in 1 .. d : Slice(r, S, r.write)[i] = r.owed[i]
    <3> TAKE i \in 1 .. d
    <3>1. i - 1 \in 0 .. d - 1 /\ (i - 1) + 1 = i /\ S + i - 1 = S + (i - 1)
      BY <1>4
    <3>2. r.owed[(i - 1) + 1] = r.buf[(S + (i - 1)) % RingSize]
      BY <2>1, <3>1
    <3>3. Slice(r, S, r.write)[i] = r.buf[(S + i - 1) % RingSize]
      BY <1>2
    <3>4. Slice(r, S, r.write)[i] = r.buf[(S + (i - 1)) % RingSize]
      BY <3>1, <3>3, Zenon
    <3>5. r.owed[i] = r.buf[(S + (i - 1)) % RingSize]
      BY <3>1, <3>2, Zenon
    <3> QED  BY <3>4, <3>5
  <2> QED  BY <1>2, <1>3, <2>1, <2>2, SeqEqual
<1>7. ASSUME Slice(r, S, r.write) = r.owed PROVE RingIs(r, S)
  <2>1. Len(r.owed) = d
    BY <1>2, <1>7
  <2>2. \A i \in 0 .. d - 1 : r.owed[i + 1] = r.buf[(S + i) % RingSize]
    <3> TAKE i \in 0 .. d - 1
    <3>1. i + 1 \in 1 .. d /\ S + (i + 1) - 1 = S + i
      BY <1>5
    <3>2. r.owed[i + 1] = r.buf[(S + (i + 1) - 1) % RingSize]
      BY <1>2, <1>7, <3>1, Zenon
    <3> QED  BY <3>1, <3>2, Zenon
  <2> QED  BY <2>1, <2>2 DEF RingIs, d
<1> QED  BY <1>6, <1>7

(* Where the audio thread will go on reading.                              *)
StartP(r) == IF r.finished THEN r.cur ELSE IF r.msgs # <<>> THEN r.msgs[1][1] ELSE r.read

(* The messages follow one another up to what has been scheduled, and end  *)
(* between S and there, in their order.                                    *)
Chained(r) ==
  /\ r.msgs # <<>> => r.msgs[Len(r.msgs)][2] = r.read
  /\ \A i \in 1 .. Len(r.msgs) : i + 1 <= Len(r.msgs) => r.msgs[i][2] = r.msgs[i + 1][1]

EndsFrom(r, S, ms, k) ==
  /\ Distance(S, r.read) <= Distance(S, r.write)
  /\ \A i \in k .. Len(ms) : Distance(S, ms[i][2]) <= Distance(S, r.read)
  /\ \A i, j \in k .. Len(ms) : i <= j => Distance(S, ms[i][2]) <= Distance(S, ms[j][2])

Holds(r) == RingIs(r, StartP(r)) /\ Chained(r) /\ EndsFrom(r, StartP(r), r.msgs, 1)

LEMMA StartIs ==
  ASSUME NEW r \in RingType
  PROVE  /\ StartP(r) \in Positions
         /\ Len(r.msgs) \in Nat /\ (r.msgs = <<>> <=> Len(r.msgs) = 0)
         /\ \A i \in 1 .. Len(r.msgs) : r.msgs[i] \in Positions \X Positions
<1>1. r.msgs \in Seq(Positions \X Positions)
  BY DEF RingType
<1>2. Len(r.msgs) \in Nat /\ (r.msgs = <<>> <=> Len(r.msgs) = 0)
      /\ \A i \in 1 .. Len(r.msgs) : r.msgs[i] \in Positions \X Positions
  BY <1>1, EmptySeq, LenProperties, ElementOfSeq
<1>3. r.msgs # <<>> => r.msgs[1][1] \in Positions
  <2>1. r.msgs # <<>> => 1 \in 1 .. Len(r.msgs)
    BY <1>2
  <2> QED  BY <1>2, <2>1
<1> QED  BY <1>2, <1>3 DEF StartP, RingType

LEMMA QueueHolds ==
  ASSUME NEW r \in RingType, NEW c \in Commands, Holds(r),
         Len(QueueCmd(r, c).owed) < RingSize
  PROVE  Holds(QueueCmd(r, c)) /\ StartP(QueueCmd(r, c)) = StartP(r)
<1> DEFINE q == QueueCmd(r, c)
           S == StartP(r)
           d == Distance(S, r.write)
<1>1. /\ q \in RingType /\ q.read = r.read /\ q.cur = r.cur
      /\ q.finished = r.finished /\ q.msgs = r.msgs
      /\ q.buf = [r.buf EXCEPT ![r.write] = c]
      /\ IF After(r.write) = r.read THEN q.write = r.write /\ q.owed = r.owed
         ELSE q.write = After(r.write) /\ q.owed = Append(r.owed, c)
  BY QueueIs
<1>2. StartP(q) = S
  BY <1>1 DEF StartP
<1>3. /\ S \in Positions /\ r.write \in Positions /\ d \in 0 .. RingSize - 1
      /\ r.buf \in [Positions -> Commands] /\ r.owed \in Seq(Commands)
      /\ r.read \in Positions /\ RingSize \in Nat
  BY StartIs, PositionTypes DEF RingType
<1>4. /\ Len(r.owed) = d
      /\ \A i \in 0 .. d - 1 : r.owed[i + 1] = r.buf[(S + i) % RingSize]
      /\ Distance(S, r.read) <= d
  BY DEF Holds, RingIs, EndsFrom
<1> HIDE DEF q, S
<1>5. \A i \in 0 .. d - 1 : /\ (S + i) % RingSize \in Positions
                            /\ (S + i) % RingSize # r.write
                            /\ q.buf[(S + i) % RingSize] = r.buf[(S + i) % RingSize]
  <2> TAKE i \in 0 .. d - 1
  <2>1. i \in 0 .. RingSize - 1 /\ i # d
    BY <1>3
  <2>2. (S + i) % RingSize \in Positions /\ Distance(S, (S + i) % RingSize) = i
    BY <1>3, <2>1, PlaceFrom
  <2>3. (S + i) % RingSize # r.write
    BY <2>1, <2>2
  <2> QED  BY <1>1, <1>3, <2>2, <2>3
<1>6. CASE After(r.write) = r.read
  <2>1. q.write = r.write /\ q.owed = r.owed
    BY <1>1, <1>6
  <2>2. RingIs(q, S)
    BY <1>3, <1>4, <1>5, <2>1 DEF RingIs
  <2>3. Chained(q) /\ EndsFrom(q, S, q.msgs, 1)
    BY <1>1, <2>1 DEF Holds, Chained, EndsFrom, S
  <2> QED  BY <1>2, <2>2, <2>3 DEF Holds, q, S
<1>7. CASE After(r.write) # r.read
  <2>1. q.write = After(r.write) /\ q.owed = Append(r.owed, c)
    BY <1>1, <1>7
  <2>2. Len(q.owed) = d + 1 /\ d + 1 < RingSize
    BY <1>3, <1>4, <2>1 DEF q
  <2>3. Distance(S, q.write) = d + 1
    BY <1>3, <2>1, <2>2, PlaceBack
  <2>4. ASSUME NEW i \in 0 .. (d + 1) - 1 PROVE q.owed[i + 1] = q.buf[(S + i) % RingSize]
    <3>1. CASE i < d
      <4>1. i \in 0 .. d - 1
        BY <1>3, <3>1
      <4>2. i + 1 \in 1 .. Len(r.owed)
        BY <1>3, <1>4, <3>1
      <4>3. q.owed[i + 1] = r.owed[i + 1]
        BY <1>3, <2>1, <4>2, AppendProperties
      <4> QED  BY <1>4, <1>5, <4>1, <4>3
    <3>2. CASE i = d
      <4>1. (S + i) % RingSize = r.write
        BY <1>3, <3>2, PlaceBack
      <4>2. q.owed[i + 1] = c
        BY <1>3, <1>4, <2>1, <3>2, AppendProperties
      <4>3. q.buf[r.write] = c
        BY <1>1, <1>3
      <4> QED  BY <4>1, <4>2, <4>3
    <3> QED  BY <1>3, <3>1, <3>2
  <2>5. RingIs(q, S)
    BY <1>3, <2>2, <2>3, <2>4 DEF RingIs
  <2>6. EndsFrom(r, S, r.msgs, 1) /\ Chained(r)
    BY DEF Holds, S
  <2>7. Distance(S, r.read) <= Distance(S, q.write)
    <3>1. Distance(S, r.read) \in Nat
      BY <1>3, DistanceTypes
    <3> QED  BY <1>3, <1>4, <2>3, <3>1
  <2>8. EndsFrom(q, S, q.msgs, 1)
    BY <1>1, <2>6, <2>7 DEF EndsFrom
  <2>9. Chained(q)
    BY <1>1, <2>6 DEF Chained
  <2> QED  BY <1>2, <2>5, <2>8, <2>9 DEF Holds, q, S
<1> QED  BY <1>6, <1>7

LEMMA ScheduleHolds ==
  ASSUME NEW r \in RingType, Holds(r)
  PROVE  Holds(Schedule(r)) /\ StartP(Schedule(r)) = StartP(r)
<1> DEFINE q == Schedule(r)
           S == StartP(r)
           n == Len(r.msgs)
<1>1. /\ q \in RingType /\ q.buf = r.buf /\ q.write = r.write /\ q.cur = r.cur
      /\ q.finished = r.finished /\ q.owed = r.owed
      /\ n = ProcMsgs => q.msgs = r.msgs /\ q.read = r.read
      /\ n # ProcMsgs => q.msgs = Append(r.msgs, <<r.read, r.write>>) /\ q.read = r.write
  BY ScheduleIs
<1>2. /\ S \in Positions /\ n \in Nat /\ (r.msgs = <<>> <=> n = 0)
      /\ r.msgs \in Seq(Positions \X Positions)
      /\ r.read \in Positions /\ r.write \in Positions
      /\ Distance(S, r.read) \in Nat /\ Distance(S, r.write) \in Nat
  <2>1. S \in Positions /\ r.read \in Positions /\ r.write \in Positions
    BY StartIs DEF RingType
  <2>2. Distance(S, r.read) \in Nat /\ Distance(S, r.write) \in Nat
    BY <2>1, DistanceTypes
  <2>3. r.msgs \in Seq(Positions \X Positions)
    BY DEF RingType
  <2> QED  BY <2>1, <2>2, <2>3, StartIs
<1>3. RingIs(r, S) /\ Chained(r) /\ EndsFrom(r, S, r.msgs, 1)
  BY DEF Holds
<1> HIDE DEF q, S, n
<1>4. CASE n = ProcMsgs
  <2>1. q.msgs = r.msgs /\ q.read = r.read
    BY <1>1, <1>4
  <2>2. StartP(q) = S
    BY <1>1, <2>1 DEF StartP, S
  <2>3. RingIs(q, S) /\ Chained(q) /\ EndsFrom(q, S, q.msgs, 1)
    BY <1>1, <1>3, <2>1 DEF RingIs, Chained, EndsFrom
  <2> QED  BY <2>2, <2>3 DEF Holds, q, S
<1>5. CASE n # ProcMsgs
  <2>1. q.msgs = Append(r.msgs, <<r.read, r.write>>) /\ q.read = r.write
    BY <1>1, <1>5
  <2>2. /\ Len(q.msgs) = n + 1 /\ q.msgs # <<>>
        /\ \A i \in 1 .. n : q.msgs[i] = r.msgs[i]
        /\ q.msgs[n + 1] = <<r.read, r.write>>
    <3>1. <<r.read, r.write>> \in Positions \X Positions
      BY <1>2
    <3>2. /\ Len(q.msgs) = n + 1
          /\ \A i \in 1 .. n : q.msgs[i] = r.msgs[i]
          /\ q.msgs[n + 1] = <<r.read, r.write>>
      BY <1>2, <2>1, <3>1, AppendProperties DEF n
    <3> QED  BY <1>2, <3>2
  <2>3. StartP(q) = S
    <3>1. CASE r.finished
      BY <1>1, <3>1 DEF StartP, S
    <3>2. CASE ~r.finished /\ n = 0
      BY <1>1, <1>2, <2>2, <3>2 DEF StartP, S
    <3>3. CASE ~r.finished /\ n # 0
      <4>1. 1 \in 1 .. n
        BY <1>2, <3>3
      <4> QED  BY <1>1, <1>2, <2>2, <3>3, <4>1 DEF StartP, S
    <3> QED  BY <3>1, <3>2, <3>3
  <2>4. RingIs(q, S)
    BY <1>1, <1>3 DEF RingIs
  <2>5. Chained(q)
    <3>1. q.msgs[Len(q.msgs)][2] = q.read
      BY <2>1, <2>2
    <3>2. ASSUME NEW i \in 1 .. Len(q.msgs), i + 1 <= Len(q.msgs)
          PROVE  q.msgs[i][2] = q.msgs[i + 1][1]
      <4>1. i \in 1 .. n /\ (i + 1 \in 1 .. n \/ i = n)
        BY <1>2, <2>2, <3>2
      <4>2. CASE i + 1 \in 1 .. n
        <5>1. i \in 1 .. n /\ i + 1 <= n
          BY <1>2, <4>1, <4>2
        <5>2. r.msgs[i][2] = r.msgs[i + 1][1]
          BY <1>3, <5>1 DEF Chained, n
        <5> QED  BY <2>2, <4>1, <4>2, <5>2
      <4>3. CASE i = n
        <5>1. r.msgs[n][2] = r.read
          BY <1>2, <1>3, <4>1, <4>3 DEF Chained, n
        <5> QED  BY <2>2, <4>1, <4>3, <5>1
      <4> QED  BY <4>1, <4>2, <4>3
    <3> QED  BY <3>1, <3>2 DEF Chained
  <2>6. EndsFrom(q, S, q.msgs, 1)
    <3>0. \A i \in 1 .. n + 1 : i \in 1 .. n \/ i = n + 1
      BY <1>2
    <3>1. \A i \in 1 .. n : Distance(S, r.msgs[i][2]) <= Distance(S, r.read)
                            /\ Distance(S, r.msgs[i][2]) \in Nat
      <4>1. \A i \in 1 .. n : r.msgs[i][2] \in Positions
        BY StartIs DEF n
      <4>2. \A i \in 1 .. n : Distance(S, r.msgs[i][2]) \in Nat
        BY <1>2, <4>1, DistanceTypes
      <4> QED  BY <1>3, <4>2 DEF EndsFrom, n
    <3>2. \A i \in 1 .. n : Distance(S, r.msgs[i][2]) <= Distance(S, r.write)
      BY <1>2, <1>3, <3>1 DEF EndsFrom
    <3>3. \A i \in 1 .. n + 1 : Distance(S, q.msgs[i][2]) <= Distance(S, r.write)
      BY <1>2, <2>2, <3>0, <3>2
    <3>4. ASSUME NEW i \in 1 .. n + 1, NEW j \in 1 .. n + 1, i <= j
          PROVE  Distance(S, q.msgs[i][2]) <= Distance(S, q.msgs[j][2])
      <4>1. CASE j = n + 1
        BY <2>2, <3>3, <4>1
      <4>2. CASE j \in 1 .. n
        <5>1. i \in 1 .. n
          BY <1>2, <3>4, <4>2
        <5> QED  BY <1>3, <2>2, <3>4, <4>2, <5>1 DEF EndsFrom, n
      <4> QED  BY <3>0, <4>1, <4>2
    <3> QED  BY <1>1, <1>2, <2>1, <2>2, <3>3, <3>4 DEF EndsFrom
  <2> QED  BY <2>3, <2>4, <2>5, <2>6 DEF Holds, q, S
<1> QED  BY <1>4, <1>5

(* One message: what is left is in the ring from where the audio thread    *)
(* stands, and every later position is nearer by what it has passed.       *)
LEMMA ProcessHolds ==
  ASSUME NEW r \in RingType, NEW m \in Message, NEW S,
         S = StartOf(r, m), RingIs(r, S),
         Distance(S, m[2]) <= Distance(S, r.write)
  PROVE  LET done == ProcessCmds(r, m)
         IN  /\ done.ring \in RingType
             /\ done.ring.write = r.write /\ done.ring.read = r.read
             /\ done.ring.msgs = r.msgs
             /\ RingIs(done.ring, done.ring.cur)
             /\ ~done.ring.finished => done.ring.cur = m[2]
             /\ \E n \in 0 .. Distance(S, m[2]), taken \in 0 .. Distance(S, m[2]) :
                  /\ \/ n = Distance(S, m[2]) /\ taken = n /\ ~done.ring.finished
                     \/ taken = n + 1 /\ r.owed[taken] = Stop /\ done.ring.finished
                  /\ \A i \in 1 .. n : r.owed[i] # Stop
                  /\ done.ran = SubSeq(r.owed, 1, n)
                  /\ done.ring.owed = SubSeq(r.owed, taken + 1, Len(r.owed))
                  /\ \A e \in Positions : Distance(S, m[2]) <= Distance(S, e) =>
                       Distance(done.ring.cur, e) = Distance(S, e) - taken
<1> DEFINE todo == Slice(r, S, m[2])
           done == ProcessCmds(r, m)
           d == Distance(S, m[2])
           w == Distance(S, r.write)
<1>1. /\ S \in Positions /\ m[2] \in Positions /\ r.write \in Positions
      /\ r.owed \in Seq(Commands)
  BY ProcessIs DEF Message, RingType
<1>2. d \in Nat /\ w \in Nat /\ d <= w /\ w < RingSize /\ RingSize \in Nat
  BY <1>1, DistanceTypes
<1>3. /\ todo \in Seq(Commands) /\ Len(todo) = d
      /\ \A i \in 1 .. d : todo[i] = r.buf[(S + i - 1) % RingSize]
  BY <1>1, SliceIs
<1>4. /\ Len(r.owed) = w
      /\ \A i \in 0 .. w - 1 : r.owed[i + 1] = r.buf[(S + i) % RingSize]
  BY DEF RingIs
<1>5. /\ done.ring \in RingType
      /\ done.ring.write = r.write /\ done.ring.read = r.read /\ done.ring.msgs = r.msgs
      /\ \E n \in 0 .. Len(todo), taken \in 0 .. Len(todo) :
           /\ \/ /\ n = Len(todo) /\ taken = n /\ ~done.ring.finished
                 /\ \A i \in 1 .. n : todo[i] # Stop
              \/ /\ taken = n + 1 /\ todo[taken] = Stop /\ done.ring.finished
                 /\ \A i \in 1 .. n : todo[i] # Stop
           /\ done.ran = SubSeq(todo, 1, n)
           /\ done.ring.cur = (S + taken) % RingSize
           /\ done.ring.owed = SubSeq(r.owed, taken + 1, Len(r.owed))
           /\ \A p \in Positions :
                done.ring.buf[p] = IF Distance(S, p) < n THEN NoopCmd ELSE r.buf[p]
  <2>1. done.ring \in RingType
        /\ done.ring.write = r.write /\ done.ring.read = r.read /\ done.ring.msgs = r.msgs
    BY ProcessIs
  <2>2. LET start == StartOf(r, m)
            rest == Slice(r, start, m[2])
        IN  \E n \in 0 .. Len(rest), taken \in 0 .. Len(rest) :
              /\ \/ /\ n = Len(rest) /\ taken = n /\ ~done.ring.finished
                    /\ \A i \in 1 .. n : rest[i] # Stop
                 \/ /\ taken = n + 1 /\ rest[taken] = Stop /\ done.ring.finished
                    /\ \A i \in 1 .. n : rest[i] # Stop
              /\ done.ran = SubSeq(rest, 1, n)
              /\ done.ring.cur = (start + taken) % RingSize
              /\ done.ring.owed = SubSeq(r.owed, taken + 1, Len(r.owed))
              /\ \A p \in Positions :
                   done.ring.buf[p] = IF Distance(start, p) < n THEN NoopCmd ELSE r.buf[p]
    BY ProcessIs
  <2> HIDE DEF done
  <2> QED  BY <2>1, <2>2
<1> HIDE DEF todo, done, d, w
<1>6. PICK n \in 0 .. d, taken \in 0 .. d :
           /\ \/ /\ n = d /\ taken = n /\ ~done.ring.finished
                 /\ \A i \in 1 .. n : todo[i] # Stop
              \/ /\ taken = n + 1 /\ todo[taken] = Stop /\ done.ring.finished
                 /\ \A i \in 1 .. n : todo[i] # Stop
           /\ done.ran = SubSeq(todo, 1, n)
           /\ done.ring.cur = (S + taken) % RingSize
           /\ done.ring.owed = SubSeq(r.owed, taken + 1, Len(r.owed))
           /\ \A p \in Positions :
                done.ring.buf[p] = IF Distance(S, p) < n THEN NoopCmd ELSE r.buf[p]
  BY <1>3, <1>5
<1>7. \A i \in 1 .. d : todo[i] = r.owed[i]
  <2> TAKE i \in 1 .. d
  <2>1. i - 1 \in 0 .. w - 1 /\ (i - 1) + 1 = i /\ S + (i - 1) = S + i - 1
    BY <1>1, <1>2 DEF Positions
  <2>2. r.owed[(i - 1) + 1] = r.buf[(S + (i - 1)) % RingSize]
    BY <1>4, <2>1
  <2>3. r.owed[i] = r.buf[(S + i - 1) % RingSize]
    BY <2>1, <2>2, Zenon
  <2> QED  BY <1>3, <2>3
<1>8. done.ran = SubSeq(r.owed, 1, n)
  <2>1. /\ SubSeq(todo, 1, n) \in Seq(Commands) /\ Len(SubSeq(todo, 1, n)) = n
        /\ \A i \in 1 .. n : SubSeq(todo, 1, n)[i] = todo[i]
    <3>1. \A i \in 1 .. n : todo[i] \in Commands
      BY <1>2, <1>3, <1>6, ElementOfSeq
    <3> QED  BY <1>2, <1>3, <1>6, <3>1, SubSeqProperties
  <2>2. /\ SubSeq(r.owed, 1, n) \in Seq(Commands) /\ Len(SubSeq(r.owed, 1, n)) = n
        /\ \A i \in 1 .. n : SubSeq(r.owed, 1, n)[i] = r.owed[i]
    <3>1. \A i \in 1 .. n : r.owed[i] \in Commands
      BY <1>1, <1>2, <1>4, <1>6, ElementOfSeq
    <3> QED  BY <1>1, <1>2, <1>4, <1>6, <3>1, SubSeqProperties
  <2>3. \A i \in 1 .. n : i \in 1 .. d
    BY <1>2, <1>6
  <2>4. SubSeq(todo, 1, n) = SubSeq(r.owed, 1, n)
    BY <1>7, <2>1, <2>2, <2>3, SeqEqual
  <2> QED  BY <1>6, <2>4
<1>9. taken \in 0 .. RingSize - 1 /\ taken <= w /\ n <= taken /\ taken \in Nat
  BY <1>2, <1>6
<1> DEFINE c == done.ring.cur
<1>10. /\ c \in Positions
       /\ \A e \in Positions : taken <= Distance(S, e) => Distance(c, e) = Distance(S, e) - taken
       /\ \A i \in 0 .. RingSize - 1 : taken + i < RingSize =>
            (c + i) % RingSize = (S + (taken + i)) % RingSize
  BY <1>1, <1>6, <1>9, PlaceFrom
<1>11. ~done.ring.finished => c = m[2]
  <2>1. ASSUME ~done.ring.finished PROVE c = m[2]
    <3>1. taken = d
      BY <1>6, <2>1
    <3>2. (S + d) % RingSize = m[2]
      BY <1>1, PlaceBack DEF d
    <3> QED  BY <1>6, <3>1, <3>2
  <2> QED  BY <2>1
<1>12. RingIs(done.ring, c)
  <2>1. Distance(c, done.ring.write) = w - taken
    BY <1>1, <1>5, <1>9, <1>10 DEF w
  <2>2. /\ Len(done.ring.owed) = w - taken
        /\ \A i \in 1 .. w - taken : done.ring.owed[i] = r.owed[taken + i]
    <3>1. \A i \in taken + 1 .. w : r.owed[i] \in Commands
      BY <1>1, <1>4, <1>9, ElementOfSeq
    <3>2. CASE taken < w
      <4>1. /\ Len(SubSeq(r.owed, taken + 1, w)) = w - (taken + 1) + 1
            /\ \A i \in 1 .. w - (taken + 1) + 1 :
                 SubSeq(r.owed, taken + 1, w)[i] = r.owed[taken + 1 + i - 1]
        BY <1>1, <1>2, <1>9, <3>1, <3>2, SubSeqProperties
      <4>2. w - (taken + 1) + 1 = w - taken /\ \A i \in 1 .. w - taken : taken + 1 + i - 1 = taken + i
        BY <1>2, <1>9
      <4>3. \A i \in 1 .. w - taken : SubSeq(r.owed, taken + 1, w)[i] = r.owed[taken + i]
        <5> TAKE i \in 1 .. w - taken
        <5>1. SubSeq(r.owed, taken + 1, w)[i] = r.owed[taken + 1 + i - 1]
          BY <4>1, <4>2
        <5>2. taken + 1 + i - 1 = taken + i
          BY <4>2
        <5> QED  BY <5>1, <5>2, Zenon
      <4> QED  BY <1>4, <1>6, <4>1, <4>2, <4>3
    <3>3. CASE taken = w
      <4>1. Len(SubSeq(r.owed, taken + 1, w)) = 0
        BY <1>1, <1>2, <1>9, <3>3
      <4> QED  BY <1>2, <1>4, <1>6, <3>3, <4>1
    <3> QED  BY <1>2, <1>9, <3>2, <3>3
  <2>3. ASSUME NEW i \in 0 .. (w - taken) - 1
        PROVE  done.ring.owed[i + 1] = done.ring.buf[(c + i) % RingSize]
    <3>1. /\ i + 1 \in 1 .. w - taken /\ taken + (i + 1) = (taken + i) + 1
          /\ taken + i \in 0 .. w - 1 /\ i \in 0 .. RingSize - 1
          /\ taken + i < RingSize /\ taken + i \in 0 .. RingSize - 1 /\ ~(taken + i < n)
      <4>1. /\ taken \in Nat /\ w \in Nat /\ n \in Nat /\ RingSize \in Nat
            /\ n <= taken /\ taken <= w /\ w < RingSize
        BY <1>2, <1>6, <1>9
      <4>2. i \in Nat /\ i < w - taken
        BY <4>1
      <4> HIDE DEF c
      <4> QED  BY <4>1, <4>2
    <3>2. done.ring.owed[i + 1] = r.owed[(taken + i) + 1]
      BY <2>2, <3>1
    <3>3. r.owed[(taken + i) + 1] = r.buf[(S + (taken + i)) % RingSize]
      BY <1>4, <3>1
    <3>4. (c + i) % RingSize = (S + (taken + i)) % RingSize
      BY <1>10, <3>1
    <3> DEFINE p == (S + (taken + i)) % RingSize
    <3>5. p \in Positions /\ Distance(S, p) = taken + i
      BY <1>1, <3>1, PlaceFrom
    <3> HIDE DEF p
    <3>6. done.ring.buf[p] = r.buf[p]
      BY <1>6, <3>1, <3>5
    <3> QED  BY <3>2, <3>3, <3>4, <3>6 DEF p
  <2> HIDE DEF c
  <2> QED  BY <1>10, <2>1, <2>2, <2>3 DEF RingIs
<1>13. \A e \in Positions : d <= Distance(S, e) => Distance(c, e) = Distance(S, e) - taken
  <2> TAKE e \in Positions
  <2>1. Distance(S, e) \in Nat
    BY <1>1, DistanceTypes
  <2> QED  BY <1>2, <1>6, <1>10, <2>1
<1>14. /\ \/ n = d /\ taken = n /\ ~done.ring.finished
          \/ taken = n + 1 /\ r.owed[taken] = Stop /\ done.ring.finished
       /\ \A i \in 1 .. n : r.owed[i] # Stop
  <2>1. \A i \in 1 .. n : todo[i] # Stop /\ i \in 1 .. d
    BY <1>2, <1>6
  <2>2. \A i \in 1 .. n : r.owed[i] # Stop
    BY <1>7, <2>1
  <2>3. CASE taken = n + 1 /\ todo[taken] = Stop /\ done.ring.finished
    <3>1. taken \in 1 .. d
      BY <1>2, <1>6, <2>3
    <3> QED  BY <1>7, <2>2, <2>3, <3>1
  <2> QED  BY <1>6, <2>2, <2>3
<1>15. \E k \in 0 .. d, t \in 0 .. d :
         /\ \/ k = d /\ t = k /\ ~done.ring.finished
            \/ t = k + 1 /\ r.owed[t] = Stop /\ done.ring.finished
         /\ \A i \in 1 .. k : r.owed[i] # Stop
         /\ done.ran = SubSeq(r.owed, 1, k)
         /\ done.ring.owed = SubSeq(r.owed, t + 1, Len(r.owed))
         /\ \A e \in Positions : d <= Distance(S, e) => Distance(c, e) = Distance(S, e) - t
  BY <1>6, <1>8, <1>13, <1>14
<1> HIDE DEF c
<1> QED  BY <1>5, <1>11, <1>12, <1>15 DEF done, d, c

(* The last part of ProcessHolds on its own: a message of d commands runs  *)
(* them all, or up to the first STOP.                                      *)
RunsTo(r, m, S, d) ==
  \E n \in 0 .. d, taken \in 0 .. d :
     /\ \/ n = d /\ taken = n /\ ~ProcessCmds(r, m).ring.finished
        \/ taken = n + 1 /\ r.owed[taken] = Stop /\ ProcessCmds(r, m).ring.finished
     /\ \A i \in 1 .. n : r.owed[i] # Stop
     /\ ProcessCmds(r, m).ran = SubSeq(r.owed, 1, n)
     /\ ProcessCmds(r, m).ring.owed = SubSeq(r.owed, taken + 1, Len(r.owed))
     /\ \A e \in Positions : d <= Distance(S, e) =>
          Distance(ProcessCmds(r, m).ring.cur, e) = Distance(S, e) - taken

LEMMA ProcessRuns ==
  ASSUME NEW r \in RingType, NEW m \in Message, NEW S, NEW d,
         S = StartOf(r, m), RingIs(r, S), d = Distance(S, m[2]),
         Distance(S, m[2]) <= Distance(S, r.write)
  PROVE  RunsTo(r, m, S, d)
BY ProcessHolds DEF RunsTo

-----------------------------------------------------------------------------
(* How much of what is owed has been scheduled, and where the last message *)
(* starts in it.                                                           *)
Reach(x) == Distance(StartP(x), x.read)
LastStart(x) == IF Len(x.msgs) <= 1 THEN 0
                ELSE Distance(StartP(x), x.msgs[Len(x.msgs) - 1][2])

SoundRing == {x \in RingType : Holds(x)}

LEMMA ReachIs ==
  ASSUME NEW r \in SoundRing
  PROVE  /\ r \in RingType /\ r.owed \in Seq(Commands)
         /\ Len(r.owed) \in Nat /\ Len(r.owed) < RingSize
         /\ Len(r.msgs) \in Nat /\ (r.msgs = <<>> <=> Len(r.msgs) = 0)
         /\ Reach(r) \in 0 .. Len(r.owed) /\ LastStart(r) \in 0 .. Reach(r)
<1> DEFINE S == StartP(r)
           n == Len(r.msgs)
<1>1. r \in RingType /\ Holds(r)
  BY DEF SoundRing
<1>2. /\ S \in Positions /\ n \in Nat /\ (r.msgs = <<>> <=> n = 0)
      /\ \A i \in 1 .. n : r.msgs[i][2] \in Positions
  BY <1>1, StartIs
<1>3. r.read \in Positions /\ r.write \in Positions /\ r.owed \in Seq(Commands)
  BY <1>1 DEF RingType
<1>4. /\ Len(r.owed) = Distance(S, r.write)
      /\ Distance(S, r.read) <= Distance(S, r.write)
      /\ \A i \in 1 .. n : Distance(S, r.msgs[i][2]) <= Distance(S, r.read)
  BY <1>1 DEF Holds, RingIs, EndsFrom
<1> HIDE DEF S, n
<1>5. /\ Distance(S, r.read) \in Nat /\ Distance(S, r.write) \in Nat
      /\ Distance(S, r.write) < RingSize
      /\ \A i \in 1 .. n : Distance(S, r.msgs[i][2]) \in Nat
  BY <1>2, <1>3, DistanceTypes
<1>6. Reach(r) \in 0 .. Len(r.owed) /\ Reach(r) = Distance(S, r.read)
  BY <1>4, <1>5 DEF Reach, S
<1>7. LastStart(r) \in 0 .. Reach(r)
  <2>1. CASE n <= 1
    BY <1>6, <2>1 DEF LastStart, n
  <2>2. CASE ~(n <= 1)
    <3>1. n - 1 \in 1 .. n
      BY <1>2, <2>2
    <3>2. LastStart(r) = Distance(S, r.msgs[n - 1][2])
      BY <2>2 DEF LastStart, n, S
    <3> QED  BY <1>4, <1>5, <1>6, <3>1, <3>2
  <2> QED  BY <2>1, <2>2
<1> QED  BY <1>1, <1>2, <1>3, <1>4, <1>5, <1>6, <1>7 DEF n

(* A command is accepted where there is room for it and one more.          *)
LEMMA QueueOne ==
  ASSUME NEW r \in SoundRing, NEW c \in Commands, Len(r.owed) + 1 < RingSize
  PROVE  /\ QueueCmd(r, c) \in SoundRing
         /\ QueueCmd(r, c).owed = Append(r.owed, c)
         /\ QueueCmd(r, c).msgs = r.msgs /\ QueueCmd(r, c).finished = r.finished
         /\ Reach(QueueCmd(r, c)) = Reach(r) /\ LastStart(QueueCmd(r, c)) = LastStart(r)
<1> DEFINE q == QueueCmd(r, c)
<1>1. /\ r \in RingType /\ Holds(r) /\ r.owed \in Seq(Commands) /\ Len(r.owed) \in Nat
      /\ Reach(r) \in 0 .. Len(r.owed)
  BY ReachIs DEF SoundRing
<1>2. /\ q \in RingType /\ q.read = r.read /\ q.msgs = r.msgs /\ q.finished = r.finished
      /\ After(r.write) # r.read => q.owed = Append(r.owed, c)
  BY <1>1, QueueIs
<1>3. After(r.write) # r.read
  <2>1. StartP(r) \in Positions /\ r.write \in Positions
    BY <1>1, StartIs DEF RingType
  <2>2. Distance(StartP(r), r.write) = Len(r.owed)
    BY <1>1 DEF Holds, RingIs
  <2>3. Distance(StartP(r), After(r.write)) = Len(r.owed) + 1
    BY <1>1, <2>1, <2>2, PlaceBack, RingAssumption
  <2>4. Distance(StartP(r), r.read) <= Len(r.owed) /\ Distance(StartP(r), r.read) \in Nat
    BY <1>1 DEF Reach
  <2> QED  BY <1>1, <2>3, <2>4
<1>4. Len(q.owed) < RingSize
  BY <1>1, <1>2, <1>3
<1>5. Holds(q) /\ StartP(q) = StartP(r)
  BY <1>1, <1>4, QueueHolds
<1> HIDE DEF q
<1>6. Reach(q) = Reach(r) /\ LastStart(q) = LastStart(r)
  BY <1>2, <1>5 DEF Reach, LastStart
<1> QED  BY <1>2, <1>3, <1>5, <1>6 DEF SoundRing, q

LEMMA ScheduleOne ==
  ASSUME NEW r \in SoundRing
  PROVE  /\ Schedule(r) \in SoundRing
         /\ Schedule(r).owed = r.owed /\ Schedule(r).finished = r.finished
         /\ IF Len(r.msgs) = ProcMsgs
            THEN /\ Schedule(r).msgs = r.msgs /\ Reach(Schedule(r)) = Reach(r)
                 /\ LastStart(Schedule(r)) = LastStart(r)
            ELSE /\ Len(Schedule(r).msgs) = Len(r.msgs) + 1
                 /\ Reach(Schedule(r)) = Len(r.owed)
                 /\ LastStart(Schedule(r)) = IF Len(r.msgs) = 0 THEN 0 ELSE Reach(r)
<1> DEFINE q == Schedule(r)
           n == Len(r.msgs)
<1>1. /\ r \in RingType /\ Holds(r) /\ n \in Nat /\ (r.msgs = <<>> <=> n = 0)
      /\ r.msgs \in Seq(Positions \X Positions)
      /\ r.read \in Positions /\ r.write \in Positions
  BY ReachIs DEF SoundRing, RingType
<1>2. /\ q \in RingType /\ q.owed = r.owed /\ q.finished = r.finished
      /\ n = ProcMsgs => q.msgs = r.msgs /\ q.read = r.read
      /\ n # ProcMsgs => q.msgs = Append(r.msgs, <<r.read, r.write>>) /\ q.read = r.write
  BY <1>1, ScheduleIs
<1>3. Holds(q) /\ StartP(q) = StartP(r)
  BY <1>1, ScheduleHolds
<1> HIDE DEF q
<1>4. CASE n = ProcMsgs
  BY <1>2, <1>3, <1>4 DEF Reach, LastStart, SoundRing, q
<1>5. CASE n # ProcMsgs
  <2>1. <<r.read, r.write>> \in Positions \X Positions
    BY <1>1
  <2>2. /\ Len(q.msgs) = n + 1 /\ \A i \in 1 .. n : q.msgs[i] = r.msgs[i]
        /\ q.msgs[n + 1] = <<r.read, r.write>>
    BY <1>1, <1>2, <1>5, <2>1, AppendProperties
  <2>3. Reach(q) = Len(r.owed)
    BY <1>1, <1>2, <1>3, <1>5 DEF Reach, Holds, RingIs
  <2>4. LastStart(q) = IF n = 0 THEN 0 ELSE Reach(r)
    <3>1. CASE n = 0
      BY <2>2, <3>1 DEF LastStart
    <3>2. CASE n # 0
      <4>1. n \in 1 .. n /\ (n + 1) - 1 = n /\ ~(n + 1 <= 1)
        BY <1>1, <3>2
      <4>2. r.msgs[n][2] = r.read
        BY <1>1, <3>2 DEF Holds, Chained
      <4>3. q.msgs[n][2] = r.read
        BY <2>2, <4>1, <4>2
      <4>4. LastStart(q) = Distance(StartP(q), q.msgs[n][2])
        BY <2>2, <4>1 DEF LastStart
      <4> QED  BY <1>3, <3>2, <4>3, <4>4 DEF Reach
    <3> QED  BY <3>1, <3>2
  <2> QED  BY <1>2, <1>3, <1>5, <2>2, <2>3, <2>4 DEF SoundRing, q
<1> QED  BY <1>4, <1>5

-----------------------------------------------------------------------------
(* What is owed, as far as the protocol cares.                             *)
NoReset(s) == \A i \in 1 .. Len(s) : s[i].op # "RESET"
HasInit(s) == \E i \in 1 .. Len(s) : s[i] = InitSfx

LEMMA AppendIs ==
  ASSUME NEW s \in Seq(Commands), NEW c \in Commands
  PROVE  /\ Append(s, c) \in Seq(Commands) /\ Len(Append(s, c)) = Len(s) + 1
         /\ Len(s) \in Nat /\ Append(s, c)[Len(s) + 1] = c
         /\ \A i \in 1 .. Len(s) : Append(s, c)[i] = s[i]
         /\ \A i \in 1 .. Len(s) + 1 : i \in 1 .. Len(s) \/ i = Len(s) + 1
<1>1. Len(s) \in Nat
  OBVIOUS
<1>2. \A i \in 1 .. Len(s) + 1 : i \in 1 .. Len(s) \/ i = Len(s) + 1
  BY <1>1
<1> QED  BY <1>1, <1>2, AppendProperties

LEMMA DropIs ==
  ASSUME NEW s \in Seq(Commands), NEW t \in 0 .. Len(s)
  PROVE  /\ SubSeq(s, t + 1, Len(s)) \in Seq(Commands)
         /\ Len(SubSeq(s, t + 1, Len(s))) = Len(s) - t
         /\ \A i \in 1 .. Len(s) - t : SubSeq(s, t + 1, Len(s))[i] = s[t + i]
         /\ \A i \in 1 .. Len(s) - t : t + i \in 1 .. Len(s)
<1> DEFINE w == Len(s)
<1>1. w \in Nat /\ t \in Nat /\ t <= w
  OBVIOUS
<1>2. \A i \in t + 1 .. w : s[i] \in Commands
  BY <1>1, ElementOfSeq
<1>3. SubSeq(s, t + 1, w) \in Seq(Commands)
  BY <1>1, <1>2, SubSeqProperties
<1>4. CASE t < w
  <2>1. /\ Len(SubSeq(s, t + 1, w)) = w - (t + 1) + 1
        /\ \A i \in 1 .. w - (t + 1) + 1 : SubSeq(s, t + 1, w)[i] = s[t + 1 + i - 1]
    BY <1>1, <1>2, <1>4, SubSeqProperties
  <2>2. w - (t + 1) + 1 = w - t /\ \A i \in 1 .. w - t : t + 1 + i - 1 = t + i /\ t + i \in 1 .. w
    BY <1>1
  <2>3. \A i \in 1 .. w - t : SubSeq(s, t + 1, w)[i] = s[t + i]
    <3> TAKE i \in 1 .. w - t
    <3>1. SubSeq(s, t + 1, w)[i] = s[t + 1 + i - 1]
      BY <2>1, <2>2
    <3>2. t + 1 + i - 1 = t + i
      BY <2>2
    <3> QED  BY <3>1, <3>2, Zenon
  <2> QED  BY <1>3, <2>1, <2>2, <2>3
<1>5. CASE t = w
  <2>1. Len(SubSeq(s, t + 1, w)) = 0
    BY <1>1, <1>5
  <2>2. 1 .. w - t = {} /\ w - t = 0
    BY <1>1, <1>5
  <2> QED  BY <1>3, <2>1, <2>2
<1> QED  BY <1>1, <1>4, <1>5

LEMMA DropDrop ==
  ASSUME NEW s \in Seq(Commands), NEW T \in 0 .. Len(s), NEW t \in 0 .. Len(s) - T, NEW w,
         w = SubSeq(s, T + 1, Len(s))
  PROVE  SubSeq(w, t + 1, Len(w)) = SubSeq(s, (T + t) + 1, Len(s))
<1>1. Len(s) \in Nat /\ T \in Nat /\ t \in Nat /\ T + t \in 0 .. Len(s)
  OBVIOUS
<1>2. /\ w \in Seq(Commands) /\ Len(w) = Len(s) - T
      /\ \A i \in 1 .. Len(s) - T : w[i] = s[T + i]
  BY DropIs
<1>3. t \in 0 .. Len(w)
  BY <1>2
<1>4. /\ SubSeq(w, t + 1, Len(w)) \in Seq(Commands)
      /\ Len(SubSeq(w, t + 1, Len(w))) = Len(w) - t
      /\ \A i \in 1 .. Len(w) - t : SubSeq(w, t + 1, Len(w))[i] = w[t + i]
  BY <1>2, <1>3, DropIs
<1>5. /\ SubSeq(s, (T + t) + 1, Len(s)) \in Seq(Commands)
      /\ Len(SubSeq(s, (T + t) + 1, Len(s))) = Len(s) - (T + t)
      /\ \A i \in 1 .. Len(s) - (T + t) : SubSeq(s, (T + t) + 1, Len(s))[i] = s[(T + t) + i]
  BY <1>1, DropIs
<1> DEFINE u == SubSeq(w, t + 1, Len(w))
           v == SubSeq(s, (T + t) + 1, Len(s))
<1>6. u \in Seq(Commands) /\ v \in Seq(Commands) /\ Len(u) = Len(v) /\ Len(v) = Len(s) - (T + t)
  BY <1>1, <1>2, <1>4, <1>5
<1>7. \A i \in 1 .. Len(v) : u[i] = v[i]
  <2> TAKE i \in 1 .. Len(v)
  <2>1. i \in 1 .. Len(s) - (T + t) /\ i \in 1 .. Len(w) - t /\ t + i \in 1 .. Len(s) - T
        /\ T + (t + i) = (T + t) + i
    BY <1>1, <1>2, <1>6
  <2>2. u[i] = w[t + i] /\ w[t + i] = s[T + (t + i)] /\ v[i] = s[(T + t) + i]
    BY <1>2, <1>4, <1>5, <2>1
  <2> QED  BY <2>1, <2>2
<1> HIDE DEF u, v
<1>8. u = v
  BY <1>6, <1>7, SeqEqual
<1> QED  BY <1>8 DEF u, v

(* What has run are the first T of the commands that were owed, without    *)
(* the STOPs.                                                              *)
RanUpTo(s, T, ran) ==
  /\ \A i \in 1 .. T : s[i] # Stop => \E j \in 1 .. Len(ran) : ran[j] = s[i]
  /\ \A j \in 1 .. Len(ran) : \E i \in 1 .. T : ran[j] = s[i]

LEMMA RanOn ==
  ASSUME NEW s \in Seq(Commands), NEW T \in 0 .. Len(s), NEW w,
         w = SubSeq(s, T + 1, Len(s)), NEW t \in 0 .. Len(s) - T, NEW n \in 0 .. t,
         n = t \/ (t = n + 1 /\ w[t] = Stop),
         NEW ran \in Seq(Commands), RanUpTo(s, T, ran)
  PROVE  RanUpTo(s, T + t, ran \o SubSeq(w, 1, n))
<1> DEFINE x == SubSeq(w, 1, n)
           y == ran \o x
<1>1. /\ Len(s) \in Nat /\ T \in Nat /\ t \in Nat /\ n \in Nat /\ n <= t
      /\ T + t <= Len(s) /\ Len(ran) \in Nat
  OBVIOUS
<1>2. /\ w \in Seq(Commands) /\ Len(w) = Len(s) - T
      /\ \A i \in 1 .. Len(s) - T : w[i] = s[T + i]
  BY DropIs
<1>3. x \in Seq(Commands) /\ Len(x) = n /\ \A i \in 1 .. n : x[i] = w[i]
  <2>1. \A i \in 1 .. n : w[i] \in Commands
    BY <1>1, <1>2, ElementOfSeq
  <2> QED  BY <1>1, <1>2, <2>1, SubSeqProperties
<1> HIDE DEF x
<1>4. /\ Len(y) = Len(ran) + n
      /\ \A j \in 1 .. Len(ran) : y[j] = ran[j]
      /\ \A j \in 1 .. n : y[Len(ran) + j] = x[j]
  <2>1. /\ Len(y) = Len(ran) + Len(x)
        /\ \A j \in 1 .. Len(ran) + Len(x) :
             y[j] = IF j <= Len(ran) THEN ran[j] ELSE x[j - Len(ran)]
    BY <1>3, ConcatProperties
  <2>2. \A j \in 1 .. Len(ran) : j \in 1 .. Len(ran) + Len(x) /\ j <= Len(ran)
    BY <1>1, <1>3
  <2>3. \A j \in 1 .. n : /\ Len(ran) + j \in 1 .. Len(ran) + Len(x)
                          /\ ~(Len(ran) + j <= Len(ran)) /\ (Len(ran) + j) - Len(ran) = j
    BY <1>1, <1>3
  <2> HIDE DEF y
  <2>4. \A j \in 1 .. n : y[Len(ran) + j] = x[j]
    <3> TAKE j \in 1 .. n
    <3>1. y[Len(ran) + j] = x[(Len(ran) + j) - Len(ran)]
      BY <2>1, <2>3
    <3> QED  BY <2>3, <3>1
  <2> QED  BY <1>3, <2>1, <2>2, <2>4
<1> HIDE DEF y
<1>5. \A j \in 1 .. n : x[j] = s[T + j] /\ T + j \in 1 .. T + t
  <2> TAKE j \in 1 .. n
  <2>1. j \in 1 .. Len(s) - T /\ T + j \in 1 .. T + t
    BY <1>1
  <2> QED  BY <1>2, <1>3, <2>1
<1>6. ASSUME NEW i \in 1 .. T + t, s[i] # Stop
      PROVE  \E j \in 1 .. Len(y) : y[j] = s[i]
  <2>1. CASE i <= T
    <3>1. i \in 1 .. T
      BY <1>1, <2>1
    <3>2. PICK j \in 1 .. Len(ran) : ran[j] = s[i]
      BY <1>6, <3>1 DEF RanUpTo
    <3>3. j \in 1 .. Len(y)
      BY <1>1, <1>4
    <3> QED  BY <1>4, <3>2, <3>3
  <2>2. CASE ~(i <= T)
    <3>1. i - T \in 1 .. t /\ T + (i - T) = i /\ i - T \in 1 .. Len(s) - T
      BY <1>1, <2>2
    <3>2. w[i - T] = s[i]
      <4>1. w[i - T] = s[T + (i - T)]
        BY <1>2, <3>1
      <4> QED  BY <3>1, <4>1
    <3>3. i - T # t \/ n = t
      BY <1>6, <3>2
    <3>4. i - T \in 1 .. n
      BY <1>1, <3>1, <3>3
    <3>5. y[Len(ran) + (i - T)] = x[i - T] /\ x[i - T] = w[i - T]
      BY <1>3, <1>4, <3>4
    <3>6. Len(ran) + (i - T) \in 1 .. Len(y)
      BY <1>1, <1>4, <3>4
    <3> QED  BY <3>2, <3>5, <3>6
  <2> QED  BY <2>1, <2>2
<1>7. ASSUME NEW j \in 1 .. Len(y) PROVE \E i \in 1 .. T + t : y[j] = s[i]
  <2>1. CASE j <= Len(ran)
    <3>1. j \in 1 .. Len(ran)
      BY <1>1, <2>1
    <3>2. PICK i \in 1 .. T : ran[j] = s[i]
      BY <3>1 DEF RanUpTo
    <3>3. i \in 1 .. T + t
      BY <1>1
    <3> QED  BY <1>4, <3>1, <3>2, <3>3
  <2>2. CASE ~(j <= Len(ran))
    <3>1. j - Len(ran) \in 1 .. n /\ Len(ran) + (j - Len(ran)) = j
      BY <1>1, <1>4, <2>2
    <3>2. y[Len(ran) + (j - Len(ran))] = x[j - Len(ran)]
      BY <1>4, <3>1
    <3>3. y[j] = x[j - Len(ran)]
      BY <3>1, <3>2
    <3> QED  BY <1>5, <3>1, <3>3
  <2> QED  BY <2>1, <2>2
<1> QED  BY <1>6, <1>7 DEF RanUpTo, y, x

(* All messages, up to command t: the audio thread then stands behind a    *)
(* STOP, or at the end of what was scheduled, with no STOP in the last     *)
(* message.                                                                *)
Processed(r, y, ran, t) ==
  /\ t \in 0 .. Reach(r)
  /\ y.owed = SubSeq(r.owed, t + 1, Len(r.owed))
  /\ Reach(y) = Reach(r) - t
  /\ y.finished =>
       t # 0 /\ r.owed[t] = Stop /\ \A i \in LastStart(r) + 1 .. t - 1 : r.owed[i] # Stop
  /\ ~y.finished => t = Reach(r) /\ \A i \in LastStart(r) + 1 .. t : r.owed[i] # Stop
  /\ RanUpTo(r.owed, t, ran)

(* Where a message ends the next one starts, or a STOP has been met.       *)
LEMMA ProcessAllHolds ==
  ASSUME NEW r \in RingType, Holds(r), r.msgs # <<>>
  PROVE  /\ Holds(ProcessAll(r).ring)
         /\ \E t : Processed(r, ProcessAll(r).ring, ProcessAll(r).ran, t)
<1> DEFINE z == [ring |-> [r EXCEPT !.msgs = <<>>], ran |-> <<>>]
           n == Len(r.msgs)
           ms == r.msgs
           o == r.owed
           S0 == StartP(r)
           From(e) == Distance(S0, e)
<1>1. /\ z \in RanType /\ ms \in Seq(Message)
      /\ z.ring.msgs = <<>> /\ z.ring.write = r.write /\ z.ring.read = r.read
      /\ z.ring.buf = r.buf /\ z.ring.owed = r.owed
      /\ z.ring.finished = r.finished /\ z.ring.cur = r.cur
  <2>1. <<>> \in Seq(Positions \X Positions) /\ <<>> \in Seq(Commands)
    OBVIOUS
  <2>2. [r EXCEPT !.msgs = <<>>] \in RingType /\ ms \in Seq(Message)
    BY <2>1 DEF RingType, Message
  <2> QED  BY <2>1, <2>2 DEF RanType, RingType
<1>2. PICK a \in [0 .. n -> RanType] :
        /\ a[0] = z /\ a[n] = FoldLeft(ProcessOne, z, ms)
        /\ \A k \in 1 .. n : a[k] = ProcessOne(a[k - 1], ms[k])
  BY <1>1, ProcessSteps
<1>3. n \in Nat /\ n # 0 /\ \A k \in 1 .. n : ms[k] \in Message /\ ms[k][2] \in Positions
  BY StartIs DEF Message
<1>4. ProcessAll(r) = a[n]
  BY <1>2 DEF ProcessAll
<1>5. /\ StartP(r) \in Positions /\ RingIs(r, StartP(r)) /\ EndsFrom(r, StartP(r), ms, 1)
      /\ ms[n][2] = r.read
      /\ \A i \in 1 .. n : i + 1 <= n => ms[i][2] = ms[i + 1][1]
  BY StartIs DEF Holds, Chained
<1>6. r.read \in Positions /\ r.write \in Positions
  BY DEF RingType
<1>a. /\ o \in Seq(Commands) /\ Len(o) \in Nat
      /\ From(r.read) \in 0 .. Len(o) /\ From(r.read) = Reach(r)
      /\ \A k \in 1 .. n : From(ms[k][2]) \in 0 .. From(r.read)
      /\ \A k \in 1 .. n : k + 1 \in 1 .. n => From(ms[k][2]) <= From(ms[k + 1][2])
  <2>1. r \in SoundRing
    BY DEF SoundRing
  <2>2. /\ o \in Seq(Commands) /\ Len(o) \in Nat
        /\ From(r.read) \in 0 .. Len(o) /\ From(r.read) = Reach(r)
    BY <2>1, ReachIs DEF Reach
  <2>3. \A k \in 1 .. n : From(ms[k][2]) \in Nat /\ From(ms[k][2]) <= From(r.read)
    BY <1>3, <1>5, DistanceTypes DEF EndsFrom
  <2>4. \A k \in 1 .. n : From(ms[k][2]) \in 0 .. From(r.read)
    <3> HIDE DEF From
    <3> QED  BY <2>2, <2>3
  <2>5. \A k \in 1 .. n : k + 1 \in 1 .. n => From(ms[k][2]) <= From(ms[k + 1][2])
    <3> TAKE k \in 1 .. n
    <3>1. k <= k + 1
      OBVIOUS
    <3> QED  BY <1>5, <3>1 DEF EndsFrom
  <2> QED  BY <2>2, <2>4, <2>5
<1>b. LastStart(r) = IF n = 1 THEN 0 ELSE From(ms[n - 1][2])
  <2>1. LastStart(r) = IF n <= 1 THEN 0 ELSE From(ms[n - 1][2])
    BY Zenon DEF LastStart
  <2> HIDE DEF n, From, ms
  <2>2. n <= 1 <=> n = 1
    BY <1>3
  <2> QED  BY <2>1, <2>2
<1> HIDE DEF n, z, ms, o, S0, From
<1> DEFINE At(k) == IF k = 0 THEN StartP(r) ELSE a[k].ring.cur
           Prev(k) == IF k = 1 THEN 0 ELSE From(ms[k - 1][2])
           Track(k, T) ==
             /\ T \in 0 .. From(r.read)
             /\ a[k].ring.owed = SubSeq(o, T + 1, Len(o))
             /\ \A e \in Positions : k = 0 \/ From(ms[k][2]) <= From(e) =>
                  Distance(At(k), e) = From(e) - T
             /\ k = 0 => T = 0
             /\ k # 0 => T <= From(ms[k][2])
             /\ k # 0 /\ a[k].ring.finished =>
                  T # 0 /\ o[T] = Stop /\ \A i \in Prev(k) + 1 .. T - 1 : o[i] # Stop
             /\ k # 0 /\ ~a[k].ring.finished =>
                  T = From(ms[k][2]) /\ \A i \in Prev(k) + 1 .. T : o[i] # Stop
             /\ RanUpTo(o, T, a[k].ran)
           Good(k) ==
             /\ a[k].ring.msgs = <<>>
             /\ a[k].ring.write = r.write /\ a[k].ring.read = r.read
             /\ At(k) \in Positions /\ RingIs(a[k].ring, At(k))
             /\ EndsFrom(a[k].ring, At(k), ms, k + 1)
             /\ k < n => At(k) = StartOf(a[k].ring, ms[k + 1])
             /\ k = n => At(k) = StartP(a[k].ring)
             /\ \E T : Track(k, T)
           G == {k \in 0 .. n : Good(k)}
<1>7. 0 \in G
  <2>1. RingIs(z.ring, StartP(r)) /\ EndsFrom(z.ring, StartP(r), ms, 1)
    BY <1>1, <1>5 DEF RingIs, EndsFrom
  <2>2. StartP(r) = StartOf(z.ring, ms[1])
    BY <1>1 DEF StartP, StartOf, ms
  <2>3. a[0] = z /\ At(0) = StartP(r) /\ 0 + 1 = 1
    BY <1>2
  <2>5. Track(0, 0)
    <3>1. SubSeq(o, 0 + 1, Len(o)) = o
      <4>1. 0 \in 0 .. Len(o)
        BY <1>a
      <4>2. /\ SubSeq(o, 0 + 1, Len(o)) \in Seq(Commands)
            /\ Len(SubSeq(o, 0 + 1, Len(o))) = Len(o) - 0
            /\ \A i \in 1 .. Len(o) - 0 : SubSeq(o, 0 + 1, Len(o))[i] = o[0 + i]
        BY <1>a, <4>1, DropIs
      <4>3. Len(o) - 0 = Len(o) /\ \A i \in 1 .. Len(o) : 0 + i = i
        BY <1>a
      <4>4. \A i \in 1 .. Len(o) : SubSeq(o, 0 + 1, Len(o))[i] = o[i]
        BY <4>2, <4>3
      <4> QED  BY <1>a, <4>2, <4>3, <4>4, SeqEqual
    <3>2. a[0].ring.owed = o /\ a[0].ran = <<>>
      BY <1>1, <2>3 DEF z, o
    <3>3. \A e \in Positions : Distance(At(0), e) = From(e) - 0
      <4>1. \A e \in Positions : From(e) \in Nat
        BY <1>5, DistanceTypes DEF From, S0
      <4> QED  BY <2>3, <4>1 DEF From, S0
    <3>4. RanUpTo(o, 0, <<>>)
      BY DEF RanUpTo
    <3>5. 0 \in 0 .. From(r.read)
      BY <1>a
    <3> QED  BY <3>1, <3>2, <3>3, <3>4, <3>5
  <2> HIDE DEF At, Track
  <2>6. 0 # n
    BY <1>3
  <2>4. Good(0)
    BY <1>1, <1>3, <1>5, <2>1, <2>2, <2>3, <2>5, <2>6
  <2> QED  BY <1>3, <2>4
<1>8. ASSUME NEW k \in 0 .. n - 1, k \in G PROVE k + 1 \in G
  <2> DEFINE S == At(k)
             x == a[k].ring
             m == ms[k + 1]
             d == Distance(S, m[2])
  <2>1. k + 1 \in 1 .. n /\ (k + 1) - 1 = k /\ k \in 0 .. n /\ k + 1 \in 0 .. n
        /\ k \in Nat /\ k < n /\ k + 1 # 0
    <3>1. n \in Nat /\ n # 0
      BY <1>3
    <3> QED  BY <3>1
  <2>2. a[k + 1] = ProcessOne(a[k], m) /\ a[k] \in RanType /\ m \in Message /\ m[2] \in Positions
    BY <1>2, <1>3, <2>1
  <2>3. x \in RingType
    BY <2>2 DEF RanType
  <2>4. a[k + 1].ring = ProcessCmds(x, m).ring
    BY <2>2 DEF ProcessOne
  <2>5. /\ x.msgs = <<>> /\ x.write = r.write /\ x.read = r.read
        /\ S \in Positions /\ RingIs(x, S) /\ EndsFrom(x, S, ms, k + 1)
        /\ S = StartOf(x, m)
    BY <1>8, <2>1
  <2>a. PICK T : Track(k, T)
    BY <1>8
  <2>b. /\ T \in 0 .. From(r.read)
        /\ x.owed = SubSeq(o, T + 1, Len(o))
        /\ \A e \in Positions : k = 0 \/ From(ms[k][2]) <= From(e) =>
             Distance(S, e) = From(e) - T
        /\ k = 0 => T = 0
        /\ k # 0 => T <= From(ms[k][2])
        /\ RanUpTo(o, T, a[k].ran)
    BY <2>a
  <2> HIDE DEF S, x, m, G, At, Good, Track
  <2>6. /\ Distance(S, r.read) <= Distance(S, r.write)
        /\ \A i \in k + 1 .. n : Distance(S, ms[i][2]) <= Distance(S, r.read)
        /\ \A i, j \in k + 1 .. n : i <= j => Distance(S, ms[i][2]) <= Distance(S, ms[j][2])
    BY <2>5 DEF EndsFrom, n, ms
  <2>7. /\ Distance(S, r.read) \in Nat /\ Distance(S, r.write) \in Nat
        /\ \A i \in 1 .. n : Distance(S, ms[i][2]) \in Nat
    BY <1>3, <1>6, <2>5, DistanceTypes
  <2>8. d <= Distance(S, r.read) /\ d <= Distance(S, x.write) /\ d \in Nat
    BY <1>3, <2>1, <2>5, <2>6, <2>7 DEF m
  <2> DEFINE y == a[k + 1].ring
  <2>9. /\ y.write = r.write /\ y.read = r.read /\ y.msgs = <<>> /\ y \in RingType
        /\ RingIs(y, y.cur) /\ (~y.finished => y.cur = m[2])
    BY <2>2, <2>3, <2>4, <2>5, <2>8, ProcessHolds
  <2>10. PICK c \in 0 .. d, t \in 0 .. d :
           /\ \/ c = d /\ t = c /\ ~y.finished
              \/ t = c + 1 /\ x.owed[t] = Stop /\ y.finished
           /\ \A i \in 1 .. c : x.owed[i] # Stop
           /\ ProcessCmds(x, m).ran = SubSeq(x.owed, 1, c)
           /\ y.owed = SubSeq(x.owed, t + 1, Len(x.owed))
           /\ \A e \in Positions : d <= Distance(S, e) => Distance(y.cur, e) = Distance(S, e) - t
    <3> HIDE DEF y
    <3>1. y = ProcessCmds(x, m).ring
      BY <2>4 DEF y
    <3>2. \E c \in 0 .. d, t \in 0 .. d :
           /\ \/ c = d /\ t = c /\ ~ProcessCmds(x, m).ring.finished
              \/ t = c + 1 /\ x.owed[t] = Stop /\ ProcessCmds(x, m).ring.finished
           /\ \A i \in 1 .. c : x.owed[i] # Stop
           /\ ProcessCmds(x, m).ran = SubSeq(x.owed, 1, c)
           /\ ProcessCmds(x, m).ring.owed = SubSeq(x.owed, t + 1, Len(x.owed))
           /\ \A e \in Positions : d <= Distance(S, e) =>
                Distance(ProcessCmds(x, m).ring.cur, e) = Distance(S, e) - t
      <4>1. /\ x \in RingType /\ m \in Message /\ S = StartOf(x, m) /\ RingIs(x, S)
            /\ Distance(S, m[2]) <= Distance(S, x.write) /\ d = Distance(S, m[2])
        BY <2>2, <2>3, <2>5, <2>8
      <4> HIDE DEF d
      <4>2. RunsTo(x, m, S, d)
        BY <4>1, ProcessRuns, Zenon
      <4> QED  BY <4>2 DEF RunsTo
    <3> QED  BY <3>1, <3>2
  <2> HIDE DEF y
  <2>11. /\ Distance(y.cur, r.read) = Distance(S, r.read) - t
         /\ Distance(y.cur, r.write) = Distance(S, r.write) - t
         /\ \A i \in k + 1 .. n : Distance(y.cur, ms[i][2]) = Distance(S, ms[i][2]) - t
    <3>1. ASSUME NEW i \in k + 1 .. n
          PROVE  Distance(y.cur, ms[i][2]) = Distance(S, ms[i][2]) - t
      <4>1. i \in 1 .. n /\ k + 1 \in k + 1 .. n /\ k + 1 <= i
        BY <2>1
      <4>2. d <= Distance(S, ms[i][2])
        BY <2>6, <4>1 DEF m
      <4> QED  BY <1>3, <2>10, <4>1, <4>2
    <3>2. d <= Distance(S, r.write)
      BY <2>5, <2>8
    <3> QED  BY <1>6, <2>8, <2>10, <3>1, <3>2
  <2> HIDE DEF d
  <2>12. EndsFrom(y, y.cur, ms, (k + 1) + 1)
    <3>0. \A i \in (k + 1) + 1 .. n : i \in k + 1 .. n /\ i \in 1 .. n
      BY <2>1
    <3>1. Distance(y.cur, y.read) <= Distance(y.cur, y.write)
      BY <2>6, <2>7, <2>9, <2>11
    <3>2. \A i \in (k + 1) + 1 .. n : Distance(y.cur, ms[i][2]) <= Distance(y.cur, y.read)
      BY <2>6, <2>7, <2>9, <2>11, <3>0
    <3>3. \A i, j \in (k + 1) + 1 .. n : i <= j =>
            Distance(y.cur, ms[i][2]) <= Distance(y.cur, ms[j][2])
      <4> TAKE i, j \in (k + 1) + 1 .. n
      <4>1. i \in k + 1 .. n /\ j \in k + 1 .. n /\ i \in 1 .. n /\ j \in 1 .. n
        BY <3>0
      <4> QED  BY <2>6, <2>7, <2>11, <4>1
    <3> QED  BY <3>1, <3>2, <3>3 DEF EndsFrom, n, ms
  <2>13. At(k + 1) = y.cur
    BY <2>1 DEF At, y
  <2>14. k + 1 < n => y.cur = StartOf(y, ms[(k + 1) + 1])
    <3>1. k + 1 < n => ms[k + 1][2] = ms[(k + 1) + 1][1]
      <4>1. k + 1 < n => (k + 1) + 1 <= n
        BY <1>3, <2>1
      <4> QED  BY <1>5, <2>1, <4>1
    <3> QED  BY <2>9, <3>1 DEF StartOf, m
  <2>15. k + 1 = n => y.cur = StartP(y)
    BY <1>5, <2>9 DEF StartP, m
  <2>16. y.cur \in Positions
    BY <2>9 DEF RingType
  <2> DEFINE U == T + t
  <2>c. /\ From(m[2]) \in 0 .. From(r.read) /\ From(m[2]) \in Nat
        /\ k # 0 => From(ms[k][2]) <= From(m[2]) /\ From(ms[k][2]) \in Nat
        /\ T \in Nat /\ From(r.read) \in Nat /\ From(r.read) <= Len(o)
    <3>1. k # 0 => k \in 1 .. n
      BY <2>1
    <3>2. From(m[2]) \in 0 .. From(r.read)
      BY <1>a, <2>1 DEF m
    <3>3. T \in Nat /\ From(r.read) \in Nat /\ From(r.read) <= Len(o)
      BY <1>a, <2>b
    <3>4. k # 0 => From(ms[k][2]) <= From(m[2]) /\ From(ms[k][2]) \in Nat
      <4>1. k # 0 => From(ms[k][2]) \in 0 .. From(r.read)
        BY <1>a, <3>1
      <4>2. k # 0 => From(ms[k][2]) <= From(ms[k + 1][2])
        BY <1>a, <2>1, <3>1
      <4> QED  BY <3>3, <4>1, <4>2 DEF m
    <3> QED  BY <3>2, <3>3, <3>4
  <2>d. d = From(m[2]) - T
    BY <2>2, <2>b, <2>c DEF d
  <2>e. /\ U \in 0 .. From(r.read) /\ U <= From(m[2]) /\ t \in Nat /\ c \in Nat
        /\ T \in 0 .. Len(o) /\ t \in 0 .. Len(o) - T /\ c \in 0 .. t
        /\ c = t \/ (t = c + 1 /\ x.owed[t] = Stop)
    <3>1. c \in Nat /\ t \in Nat /\ c <= d /\ t <= d
      BY <2>8, <2>10
    <3>2. U \in Nat /\ U <= From(m[2])
      BY <2>c, <2>d, <3>1
    <3>3. U <= From(r.read) /\ T <= Len(o) /\ t <= Len(o) - T
      BY <1>a, <2>c, <2>d, <3>1, <3>2
    <3>4. c = t \/ (t = c + 1 /\ x.owed[t] = Stop)
      BY <2>10
    <3> QED  BY <1>a, <2>c, <3>1, <3>2, <3>3, <3>4
  <2>f. y.owed = SubSeq(o, U + 1, Len(o))
    BY <1>a, <2>10, <2>b, <2>e, DropDrop
  <2>g. RanUpTo(o, U, a[k + 1].ran)
    <3>1. a[k + 1].ran = a[k].ran \o ProcessCmds(x, m).ran
      <4>1. ProcessOne(a[k], m).ran = a[k].ran \o ProcessCmds(a[k].ring, m).ran
        BY DEF ProcessOne
      <4> QED  BY <2>2, <4>1 DEF x
    <3>2. a[k].ran \in Seq(Commands)
      BY <2>2 DEF RanType
    <3>3. RanUpTo(o, T + t, a[k].ran \o SubSeq(x.owed, 1, c))
      BY <1>a, <2>b, <2>e, <3>2, RanOn
    <3> QED  BY <2>10, <3>1, <3>3
  <2>h. \A i \in 1 .. Len(o) - T : x.owed[i] = o[T + i]
    BY <1>a, <2>b, <2>e, DropIs
  <2>m. Prev(k + 1) \in Nat /\ T <= Prev(k + 1)
    <3>1. CASE k = 0
      BY <2>b, <3>1
    <3>2. CASE k # 0
      <4>1. Prev(k + 1) = From(ms[k][2])
        BY <2>1, <3>2
      <4> QED  BY <2>b, <2>c, <3>2, <4>1
    <3> QED  BY <3>1, <3>2
  <2> HIDE DEF Prev
  <2>n. \A i \in Prev(k + 1) + 1 .. T + c : o[i] # Stop
    <3> TAKE i \in Prev(k + 1) + 1 .. T + c
    <3>1. i - T \in 1 .. c /\ i - T \in 1 .. Len(o) - T /\ T + (i - T) = i
      BY <1>a, <2>c, <2>e, <2>m
    <3>2. x.owed[i - T] # Stop
      BY <2>10, <3>1
    <3>3. x.owed[i - T] = o[T + (i - T)]
      BY <2>h, <3>1
    <3> QED  BY <3>1, <3>2, <3>3
  <2>i. y.finished =>
          U # 0 /\ o[U] = Stop /\ \A i \in Prev(k + 1) + 1 .. U - 1 : o[i] # Stop
    <3> SUFFICES ASSUME y.finished
                 PROVE  U # 0 /\ o[U] = Stop /\ \A i \in Prev(k + 1) + 1 .. U - 1 : o[i] # Stop
      OBVIOUS
    <3>1. t = c + 1 /\ x.owed[t] = Stop
      BY <2>10
    <3>2. t \in 1 .. Len(o) - T
      BY <1>a, <2>c, <2>e, <3>1
    <3>3. U - 1 = T + c
      BY <2>c, <2>e, <3>1
    <3> QED  BY <2>c, <2>e, <2>h, <2>n, <3>1, <3>2, <3>3
  <2>j. ~y.finished => U = From(m[2]) /\ \A i \in Prev(k + 1) + 1 .. U : o[i] # Stop
    <3> SUFFICES ASSUME ~y.finished
                 PROVE  U = From(m[2]) /\ \A i \in Prev(k + 1) + 1 .. U : o[i] # Stop
      OBVIOUS
    <3>1. c = d /\ t = d
      BY <2>10
    <3>2. U = From(m[2])
      BY <2>c, <2>d, <3>1
    <3>3. U = T + c
      BY <3>1
    <3> QED  BY <2>n, <3>2, <3>3
  <2>k. \A e \in Positions : From(m[2]) <= From(e) => Distance(y.cur, e) = From(e) - U
    <3> TAKE e \in Positions
    <3> SUFFICES ASSUME From(m[2]) <= From(e) PROVE Distance(y.cur, e) = From(e) - U
      OBVIOUS
    <3>1. From(e) \in Nat
      BY <1>5, DistanceTypes DEF From, S0
    <3>2. k = 0 \/ From(ms[k][2]) <= From(e)
      BY <2>c, <3>1
    <3>3. Distance(S, e) = From(e) - T
      BY <2>b, <3>2
    <3>4. d <= Distance(S, e)
      BY <2>c, <2>d, <3>1, <3>3
    <3>5. Distance(y.cur, e) = Distance(S, e) - t
      BY <2>10, <3>4
    <3> QED  BY <2>c, <2>e, <3>1, <3>3, <3>5
  <2> HIDE DEF U
  <2>l. Track(k + 1, U)
    <3>1. U <= From(m[2]) /\ U \in 0 .. From(r.read)
      BY <2>e
    <3> QED  BY <2>1, <2>13, <2>f, <2>g, <2>i, <2>j, <2>k, <3>1 DEF Track, y, m
  <2>17. Good(k + 1)
    BY <2>9, <2>12, <2>13, <2>14, <2>15, <2>16, <2>l DEF Good, y
  <2> QED  BY <2>1, <2>17 DEF G
<1>9. n \in G
  <2> HIDE DEF G
  <2>1. \A k \in 0 .. n : k \in G
    BY <1>3, <1>7, <1>8, UpTo
  <2> QED  BY <1>3, <2>1
<1> DEFINE y == a[n].ring
<1>10. /\ y.msgs = <<>> /\ y.write = r.write /\ y.read = r.read
       /\ RingIs(y, StartP(y)) /\ EndsFrom(y, StartP(y), ms, n + 1)
  BY <1>9
<1>c. PICK T : Track(n, T)
  BY <1>9
<1>d. At(n) = StartP(y)
  BY <1>9
<1>e. /\ T \in 0 .. From(r.read)
      /\ y.owed = SubSeq(o, T + 1, Len(o))
      /\ \A e \in Positions : From(ms[n][2]) <= From(e) => Distance(StartP(y), e) = From(e) - T
      /\ y.finished => T # 0 /\ o[T] = Stop /\ \A i \in Prev(n) + 1 .. T - 1 : o[i] # Stop
      /\ ~y.finished => T = From(ms[n][2]) /\ \A i \in Prev(n) + 1 .. T : o[i] # Stop
      /\ RanUpTo(o, T, a[n].ran)
  <2> HIDE DEF At
  <2> QED  BY <1>3, <1>c, <1>d
<1>f. Prev(n) = LastStart(r)
  BY <1>b
<1> HIDE DEF y, At, Good, G, Track, Prev
<1>g. Reach(y) = Reach(r) - T
  <2>1. From(r.read) \in Nat
    BY <1>a
  <2>2. Distance(StartP(y), r.read) = From(r.read) - T
    BY <1>5, <1>6, <1>e, <2>1
  <2> QED  BY <1>10, <1>a, <2>2 DEF Reach
<1>h. Processed(r, y, a[n].ran, T)
  BY <1>5, <1>a, <1>e, <1>f, <1>g DEF Processed, o
<1>11. Chained(y)
  <2>1. Len(y.msgs) = 0
    BY <1>10
  <2> QED  BY <1>10, <2>1 DEF Chained
<1>12. EndsFrom(y, StartP(y), y.msgs, 1)
  <2>1. 1 .. Len(y.msgs) = {}
    BY <1>10
  <2> QED  BY <1>10, <2>1 DEF EndsFrom
<1>13. Holds(y)
  BY <1>10, <1>11, <1>12 DEF Holds
<1> QED  BY <1>4, <1>13, <1>h DEF y

-----------------------------------------------------------------------------
(* A ring that holds what it owes as long as that is less than a ringful.  *)
SoundRings == {x \in RingType : Len(x.owed) < RingSize => Holds(x)}
SoundAccs == {acc \in AccType : acc.ring \in SoundRings}

LEMMA SoundKept ==
  /\ \A x \in SoundRings, c \in Commands : QueueCmd(x, c) \in SoundRings
  /\ \A x \in SoundRings : Schedule(x) \in SoundRings
  /\ \A x \in SoundRings, cs \in Seq(Commands) : QueueAll(x, cs) \in SoundRings
  /\ \A x \in SoundRings : Step3(x) \in SoundRings
  /\ resetStatus = 0 =>
       \A x \in SoundAccs, s \in Seq(Requests) : FoldLeft(TakeUp, x, s) \in SoundAccs
<1>1. ASSUME NEW x \in SoundRings, NEW c \in Commands PROVE QueueCmd(x, c) \in SoundRings
  <2>1. x \in RingType /\ (Len(x.owed) < RingSize => Holds(x))
    BY DEF SoundRings
  <2>2. QueueCmd(x, c) \in RingType
        /\ (QueueCmd(x, c).owed = x.owed \/ QueueCmd(x, c).owed = Append(x.owed, c))
    BY <2>1, QueueIs
  <2>3. x.owed \in Seq(Commands) /\ Len(x.owed) \in Nat
    BY <2>1 DEF RingType
  <2>4. Len(x.owed) <= Len(QueueCmd(x, c).owed) /\ Len(QueueCmd(x, c).owed) \in Nat
    BY <2>2, <2>3, AppendProperties
  <2>5. ASSUME Len(QueueCmd(x, c).owed) < RingSize PROVE Holds(QueueCmd(x, c))
    <3>1. Len(x.owed) < RingSize
      BY <2>3, <2>4, <2>5, RingAssumption
    <3> QED  BY <2>1, <2>5, <3>1, QueueHolds
  <2> QED  BY <2>2, <2>5 DEF SoundRings
<1>2. ASSUME NEW x \in SoundRings PROVE Schedule(x) \in SoundRings
  <2>1. x \in RingType /\ (Len(x.owed) < RingSize => Holds(x))
    BY DEF SoundRings
  <2>2. Schedule(x) \in RingType /\ Schedule(x).owed = x.owed
    BY <2>1, ScheduleIs
  <2>3. Holds(x) => Holds(Schedule(x))
    BY <2>1, ScheduleHolds
  <2> QED  BY <2>1, <2>2, <2>3 DEF SoundRings
<1>3. ASSUME NEW x \in SoundRings, NEW cs \in Seq(Commands) PROVE QueueAll(x, cs) \in SoundRings
  <2>1. x \in RingType
    BY DEF SoundRings
  <2> QED  BY <1>1, <2>1, QueueAllKeeps
<1>4. ASSUME NEW x \in SoundRings PROVE Step3(x) \in SoundRings
  <2>1. <<InitSfx, Play>> \in Seq(Commands) /\ Stop \in Commands
    BY CommandsAre
  <2> QED  BY <1>1, <1>2, <1>3, <2>1 DEF Step3
<1>5. ASSUME resetStatus = 0, NEW x \in SoundAccs, NEW s \in Seq(Requests)
      PROVE  FoldLeft(TakeUp, x, s) \in SoundAccs
  <2>1. x \in AccType
    BY DEF SoundAccs
  <2>2. ASSUME NEW y \in SoundAccs, NEW q \in Requests PROVE TakeUp(y, q) \in SoundAccs
    <3>1. y \in AccType /\ y.ring \in SoundRings /\ q.spec \in Specs
      BY DEF SoundAccs, Requests
    <3> DEFINE done == ResetAudioHeap(y, q.spec).ring
    <3>2. done = Schedule(QueueCmd(y.ring, ResetHeap(q.spec)))
      BY <1>5, <3>1, ResetAudioHeapIs
    <3> HIDE DEF done
    <3>3. QueueCmd(done, Stop) \in SoundRings
      BY <1>1, <1>2, <3>1, <3>2, CommandsAre
    <3>4. TakeUp(y, q) = y \/ TakeUp(y, q).ring = QueueCmd(done, Stop)
      BY <3>1, TakeUpIs DEF done
    <3> QED  BY <3>1, <3>3, <3>4, TakeUpIs DEF SoundAccs
  <2>3. \A y \in AccType, q \in Requests : y \in SoundAccs => TakeUp(y, q) \in SoundAccs
    BY <2>2
  <2> QED  BY <2>1, <2>3, TakeUpKeeps
<1> QED  BY <1>1, <1>2, <1>3, <1>4, <1>5

LEMMA EmptyHolds == EmptyRing \in SoundRings
<1>1. EmptyRing \in RingType
  <2>1. <<>> \in Seq(Positions \X Positions) /\ <<>> \in Seq(Commands)
    OBVIOUS
  <2> QED  BY <2>1, PositionTypes, CommandsAre DEF EmptyRing, RingType
<1>2. /\ EmptyRing.msgs = <<>> /\ EmptyRing.owed = <<>> /\ ~EmptyRing.finished
      /\ EmptyRing.read = 0 /\ EmptyRing.write = 0
  BY DEF EmptyRing
<1>3. StartP(EmptyRing) = 0 /\ 0 \in Positions /\ Distance(0, 0) = 0
  BY <1>2, PositionTypes, PlaceBack DEF StartP
<1>4. Len(<<>>) = 0
  OBVIOUS
<1>5. RingIs(EmptyRing, 0) /\ Chained(EmptyRing) /\ EndsFrom(EmptyRing, 0, EmptyRing.msgs, 1)
  BY <1>2, <1>3, <1>4 DEF RingIs, Chained, EndsFrom
<1> QED  BY <1>1, <1>3, <1>5 DEF Holds, SoundRings

(* Requests that only fade the reverb leave the ring alone; with one that  *)
(* resets the heap among them, it alone counts.                            *)
LEMMA TakenIs ==
  ASSUME NEW acc \in AccType, NEW cs \in Seq(Requests)
  PROVE  /\ (\A k \in 1 .. Len(cs) : cs[k].fade) => FoldLeft(TakeUp, acc, cs) = acc
         /\ \A m \in 1 .. Len(cs) :
              (\A k \in 1 .. Len(cs) : cs[k].fade <=> k # m) =>
                FoldLeft(TakeUp, acc, cs) = TakeUp(acc, cs[m])
<1> DEFINE n == Len(cs)
<1>1. n \in Nat /\ \A k \in 1 .. n : cs[k] \in Requests
  BY LenProperties
<1>2. PICK a \in [0 .. n -> AccType] :
        /\ a[0] = acc /\ a[n] = FoldLeft(TakeUp, acc, cs)
        /\ \A k \in 1 .. n : a[k] = TakeUp(a[k - 1], cs[k])
  BY TakeUpSteps
<1> HIDE DEF n
<1>3. \A k \in 0 .. n - 1 : /\ k + 1 \in 1 .. n /\ k + 1 \in 0 .. n /\ k \in 0 .. n
                            /\ a[k + 1] = TakeUp(a[k], cs[k + 1]) /\ a[k] \in AccType
                            /\ cs[k + 1] \in Requests
  <2> TAKE k \in 0 .. n - 1
  <2>1. k + 1 \in 1 .. n /\ (k + 1) - 1 = k /\ k \in 0 .. n /\ k + 1 \in 0 .. n
    BY <1>1
  <2>2. a[k + 1] = TakeUp(a[k], cs[k + 1])
    BY <1>2, <2>1
  <2> QED  BY <1>1, <1>2, <2>1, <2>2
<1>4. ASSUME \A k \in 1 .. n : cs[k].fade PROVE a[n] = acc
  <2> DEFINE G == {k \in 0 .. n : a[k] = acc}
  <2>1. 0 \in G
    BY <1>1, <1>2
  <2>2. \A k \in 0 .. n - 1 : k \in G => k + 1 \in G
    BY <1>3, <1>4, TakeUpIs
  <2> HIDE DEF G
  <2>a. \A k \in 0 .. n : k \in G
    BY <1>1, <2>1, <2>2, UpTo
  <2>3. n \in G
    BY <1>1, <2>a
  <2> QED  BY <2>3 DEF G
<1>5. ASSUME NEW m \in 1 .. n, \A k \in 1 .. n : cs[k].fade <=> k # m
      PROVE  a[n] = TakeUp(acc, cs[m])
  <2> DEFINE G == {k \in 0 .. n : a[k] = IF k < m THEN acc ELSE TakeUp(acc, cs[m])}
  <2>1. 0 \in G
    BY <1>1, <1>2
  <2>2. ASSUME NEW k \in 0 .. n - 1, k \in G PROVE k + 1 \in G
    <3>1. CASE k + 1 = m
      BY <1>1, <1>3, <2>2, <3>1
    <3>2. CASE k + 1 # m
      <4>1. a[k + 1] = a[k]
        BY <1>3, <1>5, <3>2, TakeUpIs
      <4>2. k < m <=> k + 1 < m
        BY <1>1, <3>2
      <4> QED  BY <1>3, <2>2, <4>1, <4>2
    <3> QED  BY <3>1, <3>2
  <2> HIDE DEF G
  <2>a. \A k \in 0 .. n : k \in G
    BY <1>1, <2>1, <2>2, UpTo
  <2>3. n \in G
    BY <1>1, <2>a
  <2>4. ~(n < m)
    BY <1>1
  <2> QED  BY <2>3, <2>4 DEF G
<1> QED  BY <1>2, <1>4, <1>5 DEF n

LEMMA RequestsAre ==
  ASSUME TypesInv
  PROVE  /\ seqCmds \in Seq(Requests) /\ Len(seqCmds) \in Nat
         /\ Resets \in SUBSET (1 .. Len(seqCmds))
         /\ \A k \in 1 .. Len(seqCmds) : seqCmds[k] \in Requests /\ seqCmds[k].fade \in BOOLEAN
         /\ \A k \in 1 .. Len(seqCmds) : k \in Resets <=> ~seqCmds[k].fade
         /\ Resets # {} => Max(Resets) \in Resets
<1>1. seqCmds \in Seq(Requests) /\ Len(seqCmds) \in Nat /\ DOMAIN seqCmds = 1 .. Len(seqCmds)
  BY LenProperties DEF TypesInv
<1>2. \A k \in 1 .. Len(seqCmds) : seqCmds[k] \in Requests /\ seqCmds[k].fade \in BOOLEAN
  <2>1. \A k \in 1 .. Len(seqCmds) : seqCmds[k] \in Requests
    BY <1>1, ElementOfSeq
  <2> QED  BY <2>1 DEF Requests
<1>3. Resets \in SUBSET (1 .. Len(seqCmds))
      /\ \A k \in 1 .. Len(seqCmds) : k \in Resets <=> ~seqCmds[k].fade
  BY <1>1 DEF Resets
<1> QED  BY <1>1, <1>2, <1>3, MaxIs

ShortRing == Len(ring.owed) < RingSize
NotMet == "met" \notin mishaps
RingHolds == NotMet => Holds(ring)

LEMMA UpdateKeepsSound ==
  ASSUME TypesInv, NEW r \in SoundRings, NEW plays \in Plays, Update(r, plays), NotMet'
  PROVE  ring' \in SoundRings
<1>1. CASE FadeReverb(r)
  BY <1>1, SoundKept, CommandsAre DEF FadeReverb
<1>2. CASE FinishUpdate(r, plays)
  <2> DEFINE faded == IF fading THEN Step3(QueueCmd(Schedule(QueueCmd(r, Play)), Play)) ELSE r
             start == [ring |-> faded, spec |-> specId]
             taken == FoldLeft(TakeUp, start, seqCmds)
  <2>1. start \in SoundAccs
    <3>1. faded \in SoundRings
      BY SoundKept, CommandsAre
    <3> HIDE DEF faded
    <3>2. faded \in RingType /\ specId \in Specs
      BY <3>1 DEF SoundRings, TypesInv
    <3>3. start \in AccType /\ start.ring = faded
      BY <3>2 DEF AccType
    <3> QED  BY <3>1, <3>3 DEF SoundAccs
  <2> HIDE DEF start
  <2>2. taken \in SoundAccs
    <3>1. CASE Resets = {}
      <4>1. \A k \in 1 .. Len(seqCmds) : seqCmds[k].fade
        BY <3>1, RequestsAre
      <4> QED  BY <2>1, <4>1, TakenIs, RequestsAre DEF SoundAccs
    <3>2. CASE Resets # {}
      <4>1. resetStatus = 0
        BY <1>2, <3>2 DEF FinishUpdate, Mishaps, NotMet
      <4> QED  BY <2>1, <4>1, SoundKept DEF TypesInv
    <3> QED  BY <3>1, <3>2
  <2>3. [i \in 1 .. plays |-> Play] \in Seq(Commands)
    <3>1. plays \in Nat
      BY CallsAssumption
    <3>2. [i \in 1 .. plays |-> Play] \in [1 .. plays -> Commands]
      BY CommandsAre
    <3> QED  BY <3>1, <3>2, IsASeq
  <2>4. Schedule(QueueAll(taken.ring, [i \in 1 .. plays |-> Play])) \in SoundRings
    <3> HIDE DEF taken
    <3>1. taken.ring \in SoundRings
      BY <2>2 DEF SoundAccs
    <3> QED  BY <2>3, <3>1, SoundKept
  <2> QED  BY <1>2, <2>4 DEF FinishUpdate, start
<1> QED  BY <1>1, <1>2 DEF Update

(* A mishap is remembered.                                                 *)
LEMMA MishapsGrow == [Next]_vars => mishaps \subseteq mishaps'
<1> SUFFICES ASSUME [Next]_vars PROVE mishaps \subseteq mishaps'
  OBVIOUS
<1>1. CASE AudioUpdate
  BY <1>1 DEF AudioUpdate, UpdateWhileReady, UpdateAfterReset, UpdateWhileResetting, Update,
              FadeReverb, FinishUpdate
<1>2. CASE Logic
  BY <1>1, <1>2 DEF Logic, SetSpec, QueueOutside
<1>3. CASE MakeBuffer
  BY <1>3 DEF MakeBuffer, CreateNextAudioBuffer
<1>4. CASE GameStep \/ AudioStep \/ StopRunning \/ Spurious \/ Exited \/ UNCHANGED vars
  BY <1>4 DEF GameStep, RequestBuffer, NotifyAudio, RunCommands, AwaitBuffer, NotifyStop, Join,
              AudioStep, LoopTop, AwaitRequest, StartWork, EndWork, StopRunning, Spurious,
              Exited, vars, cmdVars
<1> QED  BY <1>2, <1>3, <1>4 DEF Next

LEMMA NextHolds ==
  TypedInv /\ RingHolds /\ ShortRing' /\ [Next]_vars => RingHolds'
<1> SUFFICES ASSUME TypedInv, RingHolds, Len(ring'.owed) < RingSize, [Next]_vars, NotMet'
             PROVE  Holds(ring')
  BY DEF RingHolds, ShortRing
<1>1. ring \in RingType /\ ring \in SoundRings /\ TypesInv /\ Holds(ring)
  BY MishapsGrow DEF TypedInv, TypesInv, RingOK, RingHolds, SoundRings, NotMet
<1>2. ring' \in SoundRings => Holds(ring')
  BY DEF SoundRings
<1>3. CASE AudioUpdate
  <2>1. ASSUME NEW plays \in Plays, UpdateWhileReady(plays) PROVE ring' \in SoundRings
    BY <1>1, <2>1, UpdateKeepsSound DEF UpdateWhileReady
  <2>2. ASSUME NEW plays \in Plays, UpdateAfterReset(plays) PROVE ring' \in SoundRings
    <3>1. QueueCmd(Step3(QueueCmd(ring, Play)), Play) \in SoundRings
      BY <1>1, SoundKept, CommandsAre
    <3> QED  BY <1>1, <2>2, <3>1, UpdateKeepsSound DEF UpdateAfterReset
  <2>3. ASSUME UpdateWhileResetting PROVE ring' \in SoundRings
    BY <1>1, <2>3 DEF UpdateWhileResetting
  <2> QED  BY <1>2, <1>3, <2>1, <2>2, <2>3 DEF AudioUpdate
<1>4. CASE MakeBuffer
  <2>1. CASE BufferDuringReset
    BY <1>1, <2>1 DEF BufferDuringReset
  <2>2. CASE BufferWithCommands
    BY <1>1, <2>2, ScheduleHolds, ProcessAllHolds DEF BufferWithCommands
  <2> QED  BY <1>4, <2>1, <2>2 DEF MakeBuffer, CreateNextAudioBuffer
<1>5. CASE ring' = ring
  BY <1>1, <1>5
<1>6. CASE Logic
  <2>1. CASE QueueOutside
    <3>1. PICK cmds \in Outside : ring' = QueueAll(ring, cmds)
      BY <2>1 DEF QueueOutside, Outside
    <3> QED  BY <1>1, <1>2, <3>1, OutsideIs, SoundKept
  <2> QED  BY <1>3, <1>5, <1>6, <2>1 DEF Logic, SetSpec
<1>7. CASE GameStep \/ AudioStep \/ StopRunning \/ Spurious \/ Exited \/ UNCHANGED vars
  <2>1. ring' = ring
    BY <1>7 DEF GameStep, RequestBuffer, NotifyAudio, RunCommands, AwaitBuffer, NotifyStop, Join,
                AudioStep, LoopTop, AwaitRequest, StartWork, EndWork, StopRunning, Spurious,
                Exited, vars, cmdVars
  <2> QED  BY <1>5, <2>1
<1> QED  BY <1>4, <1>6, <1>7 DEF Next

LEMMA InitHolds == Init /\ ShortRing => RingHolds
<1> SUFFICES ASSUME Init, ShortRing PROVE RingHolds
  OBVIOUS
<1>1. <<InitSfx, Play>> \in Seq(Commands)
  BY CommandsAre
<1>2. ring \in SoundRings
  BY <1>1, EmptyHolds, SoundKept DEF Init, CmdInit
<1> QED  BY <1>2 DEF ShortRing, RingHolds, SoundRings

LEMMA HoldsIsOutstanding ==
  TypedInv => (RingHolds => RingHoldsOwed) /\ (NotMet /\ RingHoldsOwed => ShortRing)
<1> SUFFICES ASSUME TypedInv
             PROVE  (RingHolds => RingHoldsOwed) /\ (NotMet /\ RingHoldsOwed => ShortRing)
  OBVIOUS
<1>1. ring \in RingType /\ ring.write \in Positions
  BY DEF TypedInv, TypesInv, RingOK, RingType
<1>2. Outstanding = Slice(ring, StartP(ring), ring.write)
  BY <1>1, StartIs DEF Outstanding, StartP
<1>3. StartP(ring) \in Positions
  BY <1>1, StartIs
<1>4. RingHolds => RingHoldsOwed
  BY <1>1, <1>2, <1>3, RingIsSlice DEF RingHolds, NotMet, Holds, RingHoldsOwed
<1>5. Len(Outstanding) = Distance(StartP(ring), ring.write)
  BY <1>1, <1>2, <1>3, SliceIs
<1>6. NotMet /\ RingHoldsOwed => ShortRing
  BY <1>1, <1>3, <1>5, DistanceTypes DEF RingHoldsOwed, ShortRing, NotMet
<1> QED  BY <1>4, <1>6

(* The commands that the audio thread will still reach in the ring are     *)
(* those that were accepted and have not run, in their order, in every     *)
(* behaviour that never owes as many as the ring has places: neither a     *)
(* full queue of messages, nor a STOP that ends one early, nor the         *)
(* wrapping of positions can lose, repeat or overwrite one, before a heap  *)
(* reset that meets another one resets the queue.  In a behaviour in which *)
(* none does, there is no other way.                                       *)
THEOREM HeldWhileItFits ==
  Spec => /\ [](Len(ring.owed) < RingSize) => []RingHoldsOwed
          /\ []("met" \notin mishaps) => ([]RingHoldsOwed => [](Len(ring.owed) < RingSize))
<1>1. Spec /\ []ShortRing => []RingHolds
  BY AlwaysTyped, InitHolds, NextHolds, PTL DEF Spec
<1>2. Spec => /\ []ShortRing => []RingHoldsOwed
              /\ []NotMet => ([]RingHoldsOwed => []ShortRing)
  BY <1>1, AlwaysTyped, HoldsIsOutstanding, PTL
<1> QED  BY <1>2 DEF ShortRing, NotMet

-----------------------------------------------------------------------------
(* A ring with no room for two more commands.  It stays one: an update     *)
(* only adds to what is owed, so that a ring with room at its end had room *)
(* all along.                                                              *)
Wide == {x \in RingType : RingSize <= Len(x.owed) + 1}

LEMMA WideKept ==
  /\ \A x \in Wide, c \in Commands : QueueCmd(x, c) \in Wide
  /\ \A x \in Wide : Schedule(x) \in Wide
  /\ \A x \in Wide, cs \in Seq(Commands) : QueueAll(x, cs) \in Wide
  /\ \A x \in Wide : Step3(x) \in Wide
<1>1. ASSUME NEW x \in Wide, NEW c \in Commands PROVE QueueCmd(x, c) \in Wide
  <2>1. x \in RingType /\ RingSize <= Len(x.owed) + 1 /\ x.owed \in Seq(Commands)
        /\ Len(x.owed) \in Nat /\ RingSize \in Nat
    BY RingAssumption DEF Wide, RingType
  <2>2. QueueCmd(x, c) \in RingType
        /\ (QueueCmd(x, c).owed = x.owed \/ QueueCmd(x, c).owed = Append(x.owed, c))
    BY <2>1, QueueIs
  <2>3. Len(QueueCmd(x, c).owed) = Len(x.owed) \/ Len(QueueCmd(x, c).owed) = Len(x.owed) + 1
    BY <2>1, <2>2, AppendProperties
  <2>4. RingSize <= Len(QueueCmd(x, c).owed) + 1
    BY <2>1, <2>3
  <2> QED  BY <2>2, <2>4 DEF Wide
<1>2. ASSUME NEW x \in Wide PROVE Schedule(x) \in Wide
  BY ScheduleIs DEF Wide
<1>3. ASSUME NEW x \in Wide, NEW cs \in Seq(Commands) PROVE QueueAll(x, cs) \in Wide
  <2>1. x \in RingType
    BY DEF Wide
  <2> QED  BY <1>1, <2>1, QueueAllKeeps
<1>4. ASSUME NEW x \in Wide PROVE Step3(x) \in Wide
  <2>1. <<InitSfx, Play>> \in Seq(Commands) /\ Stop \in Commands
    BY CommandsAre
  <2> QED  BY <1>1, <1>2, <1>3, <2>1 DEF Step3
<1> QED  BY <1>1, <1>2, <1>3, <1>4

LEMMA RoomIs ==
  ASSUME NEW x \in SoundRing, x \notin Wide
  PROVE  Len(x.owed) + 1 < RingSize
<1>1. x \in RingType /\ Len(x.owed) \in Nat /\ RingSize \in Nat
  BY ReachIs, RingAssumption
<1> QED  BY <1>1 DEF Wide

-----------------------------------------------------------------------------
(* A RESET with its STOP behind it, and no other.                          *)
OrderAt(s, i, w) ==
  /\ i \in 1 .. Len(s) /\ i + 1 \in 1 .. Len(s)
  /\ s[i] = ResetHeap(w) /\ s[i + 1] = Stop
  /\ \A j \in 1 .. Len(s) : s[j].op = "RESET" => j = i

(* Queueing into a ring with room enough adds the commands to what is      *)
(* owed, behind what has been scheduled.                                   *)
Adds(x, cs, y) ==
  /\ y \in SoundRing /\ y.msgs = x.msgs /\ y.finished = x.finished
  /\ Reach(y) = Reach(x) /\ LastStart(y) = LastStart(x)
  /\ Len(y.owed) = Len(x.owed) + Len(cs)
  /\ \A i \in 1 .. Len(x.owed) : y.owed[i] = x.owed[i]
  /\ \A j \in 1 .. Len(cs) : y.owed[Len(x.owed) + j] = cs[j]

LEMMA QueueAllAdds ==
  ASSUME NEW x \in SoundRing, NEW cs \in Seq(Commands), QueueAll(x, cs) \notin Wide
  PROVE  Adds(x, cs, QueueAll(x, cs))
<1> DEFINE n == Len(cs)
           w == Len(x.owed)
<1>1. n \in Nat /\ \A k \in 1 .. n : cs[k] \in Commands
  BY LenProperties
<1>2. x \in RingType /\ w \in Nat
  BY ReachIs
<1>3. PICK a \in [0 .. n -> RingType] :
        /\ a[0] = x /\ a[n] = QueueAll(x, cs)
        /\ \A k \in 1 .. n : a[k] = QueueCmd(a[k - 1], cs[k])
  BY <1>2, QueueAllSteps
<1> HIDE DEF n, w
<1> DEFINE Good(k) ==
             /\ a[k] \in SoundRing /\ a[k].msgs = x.msgs /\ a[k].finished = x.finished
             /\ Reach(a[k]) = Reach(x) /\ LastStart(a[k]) = LastStart(x)
             /\ Len(a[k].owed) = w + k
             /\ \A i \in 1 .. w : a[k].owed[i] = x.owed[i]
             /\ \A j \in 1 .. k : a[k].owed[w + j] = cs[j]
           G == {k \in 0 .. n : a[k] \in Wide \/ Good(k)}
<1>4. 0 \in G
  <2>1. Len(x.owed) = w + 0
    BY <1>2 DEF w
  <2>2. 1 .. 0 = {} /\ 0 \in 0 .. n
    BY <1>1
  <2> QED  BY <1>3, <2>1, <2>2
<1>a. ASSUME NEW k \in 0 .. n - 1, a[k] \in Wide PROVE k + 1 \in G
  <2>1. k + 1 \in 1 .. n /\ (k + 1) - 1 = k /\ k + 1 \in 0 .. n
    BY <1>1
  <2>2. a[k + 1] = QueueCmd(a[k], cs[k + 1]) /\ cs[k + 1] \in Commands
    BY <1>1, <1>3, <2>1
  <2>3. a[k + 1] \in Wide
    BY <1>a, <2>2, WideKept
  <2> QED  BY <2>1, <2>3
<1>5. ASSUME NEW k \in 0 .. n - 1, k \in G, a[k] \notin Wide PROVE k + 1 \in G
  <2>1. k + 1 \in 1 .. n /\ (k + 1) - 1 = k /\ k \in 0 .. n /\ k + 1 \in 0 .. n
        /\ k \in Nat
    BY <1>1
  <2> DEFINE y == a[k + 1]
             z == a[k]
             c == cs[k + 1]
  <2>2. y = QueueCmd(z, c) /\ c \in Commands
    BY <1>1, <1>3, <2>1
  <2>3. Good(k)
    BY <1>5
  <2>4. /\ z \in SoundRing /\ Len(z.owed) = w + k /\ Len(z.owed) + 1 < RingSize
        /\ z.owed \in Seq(Commands)
    BY <1>5, <2>3, ReachIs, RoomIs
  <2> HIDE DEF c
  <2>5. /\ y \in SoundRing /\ y.owed = Append(z.owed, c)
        /\ y.msgs = z.msgs /\ y.finished = z.finished
        /\ Reach(y) = Reach(z) /\ LastStart(y) = LastStart(z)
    <3> HIDE DEF y, z
    <3> QED  BY <2>2, <2>4, QueueOne
  <2>6. /\ Len(y.owed) = Len(z.owed) + 1 /\ y.owed[Len(z.owed) + 1] = c
        /\ \A i \in 1 .. Len(z.owed) : y.owed[i] = z.owed[i]
    <3> HIDE DEF y, z
    <3> QED  BY <2>2, <2>4, <2>5, AppendIs
  <2>7. /\ Len(y.owed) = w + (k + 1) /\ y.owed[w + (k + 1)] = c
        /\ \A i \in 1 .. w + k : y.owed[i] = z.owed[i]
    <3>1. (w + k) + 1 = w + (k + 1)
      BY <1>2, <2>1
    <3> HIDE DEF y, z
    <3> QED  BY <2>4, <2>6, <3>1
  <2>8. \A i \in 1 .. w : y.owed[i] = x.owed[i]
    <3>1. \A i \in 1 .. w : i \in 1 .. w + k
      BY <1>2, <2>1
    <3> QED  BY <2>3, <2>7, <3>1
  <2>9. \A j \in 1 .. k + 1 : y.owed[w + j] = cs[j]
    <3> TAKE j \in 1 .. k + 1
    <3>1. CASE j = k + 1
      BY <2>7, <3>1 DEF c
    <3>2. CASE j # k + 1
      <4>1. j \in 1 .. k /\ w + j \in 1 .. w + k
        BY <1>2, <2>1, <3>2
      <4> QED  BY <2>3, <2>7, <4>1
    <3> QED  BY <3>1, <3>2
  <2>10. Good(k + 1)
    BY <2>3, <2>5, <2>7, <2>8, <2>9
  <2> HIDE DEF Good
  <2> QED  BY <2>1, <2>10
<1>6. \A k \in 0 .. n : k \in G
  <2>1. \A k \in 0 .. n - 1 : k \in G => k + 1 \in G
    BY <1>5, <1>a
  <2> HIDE DEF G
  <2> QED  BY <1>1, <1>4, <2>1, UpTo
<1>7. Good(n)
  <2>1. n \in G
    <3> HIDE DEF G
    <3>1. n \in 0 .. n
      BY <1>1
    <3> QED  BY <1>6, <3>1
  <2>2. a[n] \notin Wide
    BY <1>3
  <2> HIDE DEF Good
  <2> QED  BY <2>1, <2>2
<1> QED  BY <1>3, <1>7 DEF Adds, n, w

LEMMA QueueAdds ==
  ASSUME NEW x \in SoundRing, NEW c \in Commands, QueueCmd(x, c) \notin Wide
  PROVE  Adds(x, <<c>>, QueueCmd(x, c))
<1> DEFINE y == QueueCmd(x, c)
<1>1. /\ y \in SoundRing /\ y.owed = Append(x.owed, c)
      /\ y.msgs = x.msgs /\ y.finished = x.finished
      /\ Reach(y) = Reach(x) /\ LastStart(y) = LastStart(x)
  BY WideKept, RoomIs, QueueOne
<1> HIDE DEF y
<1>2. x.owed \in Seq(Commands)
  BY ReachIs
<1>3. /\ Len(y.owed) = Len(x.owed) + 1 /\ y.owed[Len(x.owed) + 1] = c
      /\ \A i \in 1 .. Len(x.owed) : y.owed[i] = x.owed[i]
  BY <1>1, <1>2, AppendIs
<1>4. Len(<<c>>) = 1 /\ <<c>>[1] = c
  OBVIOUS
<1>5. \A j \in 1 .. Len(<<c>>) : j = 1
  BY <1>4
<1> QED  BY <1>1, <1>3, <1>4, <1>5 DEF Adds, y

LEMMA AddsIs ==
  ASSUME NEW x \in SoundRing, NEW cs \in Seq(Commands), NEW y, Adds(x, cs, y)
  PROVE  /\ NoReset(x.owed) /\ NoReset(cs) => NoReset(y.owed)
         /\ HasInit(x.owed) \/ HasInit(cs) => HasInit(y.owed)
         /\ \A i, w : OrderAt(x.owed, i, w) /\ NoReset(cs) => OrderAt(y.owed, i, w)
<1> DEFINE w == Len(x.owed)
           n == Len(cs)
<1>1. w \in Nat /\ n \in Nat
  BY ReachIs
<1>2. /\ Len(y.owed) = w + n
      /\ \A i \in 1 .. w : y.owed[i] = x.owed[i]
      /\ \A j \in 1 .. n : y.owed[w + j] = cs[j]
  BY DEF Adds
<1> HIDE DEF w, n
<1>3. /\ \A i \in 1 .. w : i \in 1 .. Len(y.owed)
      /\ \A j \in 1 .. n : w + j \in 1 .. Len(y.owed)
  BY <1>1, <1>2
<1>4. \A i \in 1 .. Len(y.owed) : \/ i \in 1 .. w /\ y.owed[i] = x.owed[i]
                                  \/ \E j \in 1 .. n : i = w + j /\ y.owed[i] = cs[j]
  <2> TAKE i \in 1 .. Len(y.owed)
  <2>1. CASE i <= w
    BY <1>1, <1>2, <2>1
  <2>2. CASE ~(i <= w)
    <3>1. i - w \in 1 .. n /\ i = w + (i - w)
      BY <1>1, <1>2, <2>2
    <3> QED  BY <1>2, <3>1
  <2> QED  BY <2>1, <2>2
<1>5. NoReset(x.owed) /\ NoReset(cs) => NoReset(y.owed)
  BY <1>4 DEF NoReset, w, n
<1>6. HasInit(x.owed) \/ HasInit(cs) => HasInit(y.owed)
  BY <1>2, <1>3 DEF HasInit, w, n
<1>7. ASSUME NEW i, NEW v, OrderAt(x.owed, i, v), NoReset(cs) PROVE OrderAt(y.owed, i, v)
  <2>1. /\ i \in 1 .. w /\ i + 1 \in 1 .. w
        /\ x.owed[i] = ResetHeap(v) /\ x.owed[i + 1] = Stop
        /\ \A j \in 1 .. w : x.owed[j].op = "RESET" => j = i
    BY <1>7 DEF OrderAt, w
  <2>2. \A j \in 1 .. n : cs[j].op # "RESET"
    BY <1>7 DEF NoReset, n
  <2>3. \A j \in 1 .. Len(y.owed) : y.owed[j].op = "RESET" => j = i
    BY <1>4, <2>1, <2>2
  <2> QED  BY <1>2, <1>3, <2>1, <2>3 DEF OrderAt
<1> QED  BY <1>5, <1>6, <1>7

-----------------------------------------------------------------------------
(* The protocol of a heap reset.  What is owed holds at most the RESET     *)
(* that is awaited, with its STOP behind it, and both will be met in one   *)
(* message: the last one, or the next one behind an earlier STOP.          *)
Ordered(x, w) ==
  \E i \in 1 .. Len(x.owed) :
    /\ OrderAt(x.owed, i, w)
    /\ IF x.msgs = <<>> THEN x.finished
       ELSE i + 1 \in LastStart(x) + 1 .. Reach(x)

Protocol ==
  /\ NoReset(ring.owed) \/ Ordered(ring, wanted)
  /\ resetting \/ (resetStatus = 0 /\ NoReset(ring.owed))
  /\ resetDone = <<>> \/ (resetStatus = 0 /\ NoReset(ring.owed))
  /\ resetStatus = 0 \/ (ring.finished /\ ring.msgs = <<>> /\ NoReset(ring.owed))
  /\ specId = wanted \/ ~NoReset(ring.owed)
  /\ sfxPlayer \/ resetting \/ HasInit(ring.owed)

LEMMA OrderedHasReset ==
  ASSUME NEW x, NEW w, Ordered(x, w)
  PROVE  ~NoReset(x.owed)
<1>1. PICK i \in 1 .. Len(x.owed) : OrderAt(x.owed, i, w)
  BY DEF Ordered
<1>2. x.owed[i].op = "RESET"
  BY <1>1 DEF OrderAt, ResetHeap, Cmd
<1> QED  BY <1>2 DEF NoReset

LEMMA AddsOrdered ==
  ASSUME NEW x \in SoundRing, NEW cs \in Seq(Commands), NEW y, Adds(x, cs, y), NoReset(cs),
         NEW w, Ordered(x, w)
  PROVE  Ordered(y, w)
<1>1. PICK i \in 1 .. Len(x.owed) :
        /\ OrderAt(x.owed, i, w)
        /\ IF x.msgs = <<>> THEN x.finished
           ELSE i + 1 \in LastStart(x) + 1 .. Reach(x)
  BY DEF Ordered
<1>2. OrderAt(y.owed, i, w)
  BY <1>1, AddsIs
<1>3. /\ y.msgs = x.msgs /\ y.finished = x.finished
      /\ Reach(y) = Reach(x) /\ LastStart(y) = LastStart(x)
  BY DEF Adds
<1>4. i \in 1 .. Len(y.owed)
  BY <1>2 DEF OrderAt
<1> QED  BY <1>1, <1>2, <1>3, <1>4 DEF Ordered

(* The commands an update queues itself, RESET apart.                      *)
Silence(k) == [i \in 1 .. k |-> Play]

LEMMA TheCommands ==
  /\ <<InitSfx, Play>> \in Seq(Commands) /\ NoReset(<<InitSfx, Play>>) /\ HasInit(<<InitSfx, Play>>)
  /\ \A k \in Plays : Silence(k) \in Seq(Commands) /\ NoReset(Silence(k))
  /\ \A cs \in Outside : cs \in Seq(Commands) /\ NoReset(cs)
  /\ Play.op # "RESET" /\ Stop.op # "RESET" /\ InitSfx.op # "RESET"
<1>1. Play.op # "RESET" /\ Stop.op # "RESET" /\ InitSfx.op # "RESET"
  BY DEF Play, Stop, InitSfx, Cmd
<1>2. /\ <<InitSfx, Play>> \in Seq(Commands)
      /\ NoReset(<<InitSfx, Play>>) /\ HasInit(<<InitSfx, Play>>)
  BY <1>1, CommandsAre DEF NoReset, HasInit
<1>3. ASSUME NEW k \in Plays PROVE Silence(k) \in Seq(Commands) /\ NoReset(Silence(k))
  <2>1. k \in Nat
    BY CallsAssumption
  <2>2. Silence(k) \in [1 .. k -> Commands]
    BY CommandsAre DEF Silence
  <2>3. Silence(k) \in Seq(Commands) /\ Len(Silence(k)) = k
    BY <2>1, <2>2, IsASeq
  <2>4. \A i \in 1 .. k : Silence(k)[i] = Play
    BY DEF Silence
  <2> QED  BY <1>1, <2>3, <2>4 DEF NoReset
<1>4. ASSUME NEW cs \in Outside PROVE NoReset(cs)
  <2>1. NoReset(<<Play>>) /\ NoReset(<<Play, Stop>>)
    BY <1>1 DEF NoReset
  <2> QED  BY <2>1 DEF Outside
<1> QED  BY <1>1, <1>2, <1>3, <1>4, OutsideIs

(* A ring with room that owes no RESET; one that owes an INIT as well.     *)
Clean == {x \in SoundRing : NoReset(x.owed)} \cup Wide
Inited == {x \in SoundRing : NoReset(x.owed) /\ HasInit(x.owed)} \cup Wide

LEMMA CleanKept ==
  ASSUME NEW P \in {Clean, Inited}
  PROVE  /\ \A x \in P, c \in Commands : c.op # "RESET" => QueueCmd(x, c) \in P
         /\ \A x \in P : Schedule(x) \in P
         /\ \A x \in P, cs \in Seq(Commands) : NoReset(cs) => QueueAll(x, cs) \in P
         /\ \A x \in P : Step3(x) \in P
<1>1. ASSUME NEW x \in P, NEW c \in Commands, c.op # "RESET" PROVE QueueCmd(x, c) \in P
  <2>1. CASE x \in Wide \/ QueueCmd(x, c) \in Wide
    BY <2>1, WideKept DEF Clean, Inited
  <2>2. CASE x \notin Wide /\ QueueCmd(x, c) \notin Wide
    <3>1. x \in SoundRing /\ NoReset(x.owed) /\ (P = Inited => HasInit(x.owed))
      BY <2>2 DEF Clean, Inited
    <3>2. Adds(x, <<c>>, QueueCmd(x, c)) /\ <<c>> \in Seq(Commands) /\ NoReset(<<c>>)
      BY <1>1, <2>2, <3>1, QueueAdds DEF NoReset
    <3>3. /\ QueueCmd(x, c) \in SoundRing /\ NoReset(QueueCmd(x, c).owed)
          /\ P = Inited => HasInit(QueueCmd(x, c).owed)
      BY <3>1, <3>2, AddsIs DEF Adds
    <3> QED  BY <3>3 DEF Clean, Inited
  <2> QED  BY <2>1, <2>2
<1>2. ASSUME NEW x \in P PROVE Schedule(x) \in P
  <2>1. CASE x \in Wide
    BY <2>1, WideKept DEF Clean, Inited
  <2>2. CASE x \notin Wide
    <3>1. x \in SoundRing /\ NoReset(x.owed) /\ (P = Inited => HasInit(x.owed))
      BY <2>2 DEF Clean, Inited
    <3>2. Schedule(x) \in SoundRing /\ Schedule(x).owed = x.owed
      BY <3>1, ScheduleOne
    <3> QED  BY <3>1, <3>2 DEF Clean, Inited
  <2> QED  BY <2>1, <2>2
<1>3. ASSUME NEW x \in P, NEW cs \in Seq(Commands), NoReset(cs) PROVE QueueAll(x, cs) \in P
  <2>1. CASE x \in Wide \/ QueueAll(x, cs) \in Wide
    BY <2>1, WideKept DEF Clean, Inited
  <2>2. CASE x \notin Wide /\ QueueAll(x, cs) \notin Wide
    <3>1. x \in SoundRing /\ NoReset(x.owed) /\ (P = Inited => HasInit(x.owed))
      BY <2>2 DEF Clean, Inited
    <3>2. Adds(x, cs, QueueAll(x, cs))
      BY <2>2, <3>1, QueueAllAdds
    <3>3. /\ QueueAll(x, cs) \in SoundRing /\ NoReset(QueueAll(x, cs).owed)
          /\ P = Inited => HasInit(QueueAll(x, cs).owed)
      BY <1>3, <3>1, <3>2, AddsIs DEF Adds
    <3> QED  BY <3>3 DEF Clean, Inited
  <2> QED  BY <2>1, <2>2
<1>4. ASSUME NEW x \in P PROVE Step3(x) \in P
  BY <1>1, <1>2, <1>3, TheCommands, CommandsAre DEF Step3
<1> QED  BY <1>1, <1>2, <1>3, <1>4

(* After Step3 the players will be initialised.                            *)
LEMMA Step3Inits ==
  ASSUME NEW x \in Clean
  PROVE  Step3(x) \in Inited
<1> DEFINE u == Schedule(x)
           y == QueueAll(u, <<InitSfx, Play>>)
<1>1. u \in Clean /\ y \in Clean
  BY CleanKept, TheCommands
<1>2. y \in Inited
  <2>1. CASE y \in Wide
    BY <2>1 DEF Inited
  <2>2. CASE y \notin Wide
    <3>1. u \notin Wide
      BY <2>2, WideKept, TheCommands
    <3>2. u \in SoundRing
      BY <1>1, <3>1 DEF Clean
    <3> HIDE DEF u
    <3>3. Adds(u, <<InitSfx, Play>>, y)
      BY <2>2, <3>2, QueueAllAdds, TheCommands
    <3>4. HasInit(y.owed)
      BY <3>2, <3>3, AddsIs, TheCommands
    <3> QED  BY <1>1, <2>2, <3>4 DEF Clean, Inited
  <2> QED  BY <2>1, <2>2
<1>3. Step3(x) = QueueCmd(Schedule(y), Stop)
  BY DEF Step3
<1> HIDE DEF y
<1> QED  BY <1>2, <1>3, CleanKept, TheCommands, CommandsAre

(* An update that takes up one reset, and whose last message finds a place,*)
(* has the RESET and its STOP in the order of the protocol.                *)
LEMMA FinishOrders ==
  ASSUME NEW x \in Clean, NEW w \in Specs, NEW k \in Plays, NEW z, NEW y,
         z = QueueCmd(Schedule(QueueCmd(x, ResetHeap(w))), Stop),
         y = Schedule(QueueAll(z, Silence(k))),
         y \notin Wide, y.read = y.write
  PROVE  y \in SoundRing /\ Ordered(y, w)
<1> DEFINE a == QueueCmd(x, ResetHeap(w))
           b == Schedule(a)
           d == QueueAll(z, Silence(k))
           i == Len(x.owed) + 1
<1>1. /\ ResetHeap(w) \in Commands /\ Stop \in Commands /\ Silence(k) \in Seq(Commands)
      /\ NoReset(Silence(k))
  BY CommandsAre, TheCommands
<1>2. a \notin Wide /\ b \notin Wide /\ z \notin Wide /\ d \notin Wide /\ x \notin Wide
  BY <1>1, WideKept
<1>3. x \in SoundRing /\ NoReset(x.owed) /\ Len(x.owed) \in Nat
  BY <1>2, ReachIs DEF Clean
<1>4. Adds(x, <<ResetHeap(w)>>, a)
  BY <1>1, <1>2, <1>3, QueueAdds
<1>5. a \in SoundRing /\ Len(a.owed) = i /\ a.owed[i] = ResetHeap(w)
      /\ \A j \in 1 .. Len(x.owed) : a.owed[j] = x.owed[j]
  <2>1. Len(<<ResetHeap(w)>>) = 1 /\ <<ResetHeap(w)>>[1] = ResetHeap(w) /\ 1 \in 1 .. 1
    OBVIOUS
  <2> HIDE DEF a
  <2> QED  BY <1>4, <2>1 DEF Adds
<1> HIDE DEF a
<1>6. b \in SoundRing /\ b.owed = a.owed
  BY <1>5, ScheduleOne
<1> HIDE DEF b
<1>7. Adds(b, <<Stop>>, z)
  BY <1>1, <1>2, <1>6, QueueAdds DEF b, a
<1>8. /\ z \in SoundRing /\ Len(z.owed) = i + 1 /\ z.owed[i + 1] = Stop
      /\ \A j \in 1 .. i : z.owed[j] = a.owed[j]
      /\ Reach(z) = Reach(b)
  <2>1. Len(<<Stop>>) = 1 /\ <<Stop>>[1] = Stop /\ 1 \in 1 .. 1
    OBVIOUS
  <2> QED  BY <1>5, <1>6, <1>7, <2>1 DEF Adds
<1>9. i \in Nat /\ i \in 1 .. i + 1 /\ i + 1 \in 1 .. i + 1 /\ i \in 1 .. i
  BY <1>3
<1>10. OrderAt(z.owed, i, w)
  <2>1. z.owed[i] = ResetHeap(w)
    BY <1>5, <1>8, <1>9
  <2>2. \A j \in 1 .. i + 1 : z.owed[j].op = "RESET" => j = i
    <3> TAKE j \in 1 .. i + 1
    <3>1. j \in 1 .. Len(x.owed) \/ j = i \/ j = i + 1
      BY <1>3
    <3>2. ASSUME j \in 1 .. Len(x.owed) PROVE z.owed[j].op # "RESET"
      <4>1. j \in 1 .. i
        BY <1>3, <3>2
      <4>2. z.owed[j] = x.owed[j]
        BY <1>5, <1>8, <3>2, <4>1
      <4> QED  BY <1>3, <3>2, <4>2 DEF NoReset
    <3>3. j = i + 1 => z.owed[j].op # "RESET"
      BY <1>8, TheCommands
    <3> QED  BY <3>1, <3>2, <3>3
  <2> HIDE DEF i
  <2> QED  BY <1>8, <1>9, <2>1, <2>2 DEF OrderAt
<1>11. Adds(z, Silence(k), d)
  BY <1>1, <1>2, <1>8, QueueAllAdds
<1>12. d \in SoundRing /\ OrderAt(d.owed, i, w) /\ Reach(d) = Reach(b)
  <2> HIDE DEF d, i
  <2>1. OrderAt(d.owed, i, w)
    BY <1>1, <1>8, <1>10, <1>11, AddsIs
  <2> QED  BY <1>8, <1>11, <2>1 DEF Adds
<1> HIDE DEF d
<1>13. /\ y \in SoundRing /\ y.owed = d.owed
       /\ IF Len(d.msgs) = ProcMsgs
          THEN Reach(y) = Reach(d)
          ELSE /\ Len(y.msgs) = Len(d.msgs) + 1 /\ Reach(y) = Len(d.owed)
               /\ LastStart(y) = IF Len(d.msgs) = 0 THEN 0 ELSE Reach(d)
  BY <1>12, ScheduleOne DEF d
<1>14. Reach(y) = Len(y.owed)
  BY <1>13 DEF Reach, SoundRing, Holds, RingIs
<1>15. Reach(d) \in 0 .. i
  <2>1. Reach(b) \in 0 .. Len(b.owed)
    BY <1>6, ReachIs
  <2> QED  BY <1>5, <1>6, <1>12, <2>1
<1>16. i + 1 \in 1 .. Len(y.owed) /\ i \in 1 .. Len(y.owed) /\ OrderAt(y.owed, i, w)
  BY <1>12, <1>13 DEF OrderAt
<1>17. Len(y.owed) \in Nat /\ Len(d.msgs) \in Nat
  BY <1>12, <1>13, ReachIs
<1> HIDE DEF i
<1>18. Len(d.msgs) # ProcMsgs
  <2> SUFFICES ASSUME Len(d.msgs) = ProcMsgs PROVE FALSE
    OBVIOUS
  <2>1. Reach(y) = Reach(d)
    BY <1>13
  <2> QED  BY <1>9, <1>14, <1>15, <1>16, <1>17, <2>1
<1>19. y.msgs # <<>>
  <2>1. Len(y.msgs) = Len(d.msgs) + 1
    BY <1>13, <1>18
  <2>2. Len(y.msgs) # 0
    BY <1>17, <2>1
  <2> QED  BY <1>13, <2>2, ReachIs
<1>20. i + 1 \in LastStart(y) + 1 .. Reach(y)
  <2>1. LastStart(y) \in 0 .. i
    BY <1>9, <1>13, <1>15, <1>18
  <2> QED  BY <1>9, <1>14, <1>16, <1>17, <2>1
<1> QED  BY <1>13, <1>16, <1>19, <1>20 DEF Ordered

-----------------------------------------------------------------------------
(* The end of an update, wherever it starts.                               *)
LEMMA FinishKeeps ==
  ASSUME TypesInv, NEW r \in Clean, NEW k \in Plays, FinishUpdate(r, k),
         mishaps' = {}, ring' \notin Wide, resetStatus = 0, specId = wanted,
         r \in Inited \/ sfxPlayer, UNCHANGED <<resetStatus, sfxPlayer>>,
         resetting' => resetDone' = <<>>
  PROVE  Protocol'
<1> DEFINE x == IF fading THEN Step3(QueueCmd(Schedule(QueueCmd(r, Play)), Play)) ELSE r
           start == [ring |-> x, spec |-> specId]
           taken == FoldLeft(TakeUp, start, seqCmds)
<1>1. /\ ring' = Schedule(QueueAll(taken.ring, Silence(k)))
      /\ specId' = taken.spec
      /\ resetting' = (Resets # {})
      /\ wanted' = (IF Resets # {} THEN seqCmds[Max(Resets)].spec ELSE wanted)
      /\ mishaps' = mishaps \cup Mishaps(ring')
  BY DEF FinishUpdate, Silence
<1>2. x \in Clean /\ (r \in Inited => x \in Inited)
  <2>1. CASE ~fading
    BY <2>1
  <2>2. CASE fading
    <3>1. QueueCmd(Schedule(QueueCmd(r, Play)), Play) \in Clean
      BY CleanKept, TheCommands, CommandsAre
    <3>2. x \in Inited
      BY <2>2, <3>1, Step3Inits
    <3>3. Inited \subseteq Clean
      BY DEF Inited, Clean
    <3> QED  BY <3>2, <3>3
  <2> QED  BY <2>1, <2>2
<1> HIDE DEF x
<1>3. x \in RingType /\ specId \in Specs
  BY <1>2 DEF Clean, Wide, SoundRing, TypesInv
<1>4. start \in AccType /\ start.ring = x /\ start.spec = specId
  BY <1>3 DEF AccType
<1> HIDE DEF start, taken
<1>5. seqCmds \in Seq(Requests)
  BY RequestsAre
<1>6. CASE Resets = {}
  <2>1. \A i \in 1 .. Len(seqCmds) : seqCmds[i].fade
    BY <1>6, RequestsAre
  <2>2. taken = start
    BY <1>4, <1>5, <2>1, TakenIs DEF taken
  <2>3. ring' = Schedule(QueueAll(x, Silence(k)))
    BY <1>1, <1>4, <2>2
  <2>4. ring' \in Clean /\ (r \in Inited => ring' \in Inited)
    BY <1>2, <2>3, CleanKept, TheCommands
  <2>5. NoReset(ring'.owed) /\ (r \in Inited => HasInit(ring'.owed))
    BY <2>4 DEF Clean, Inited
  <2>6. specId' = wanted' /\ resetStatus' = 0 /\ sfxPlayer' = sfxPlayer
    BY <1>1, <1>4, <1>6, <2>2
  <2> QED  BY <2>5, <2>6 DEF Protocol
<1>7. CASE Resets # {}
  <2>1. Mishaps(ring') = {}
    BY <1>1
  <2>2. ring'.read = ring'.write
    <3>1. "crowded" \notin Mishaps(ring')
      BY <2>1
    <3> QED  BY <1>7, <3>1 DEF Mishaps
  <2>3. \A i, j \in Resets : i = j
    <3>1. "twice" \notin Mishaps(ring')
      BY <2>1
    <3> QED  BY <1>7, <3>1 DEF Mishaps
  <2> DEFINE m == Max(Resets)
             w == seqCmds[m].spec
  <2>4. m \in Resets /\ m \in 1 .. Len(seqCmds)
        /\ \A i \in 1 .. Len(seqCmds) : seqCmds[i].fade <=> i # m
    <3>1. m \in Resets /\ Resets \in SUBSET (1 .. Len(seqCmds))
      BY <1>7, RequestsAre
    <3> HIDE DEF m
    <3>2. \A i \in 1 .. Len(seqCmds) : i \in Resets <=> i = m
      BY <2>3, <3>1
    <3>3. \A i \in 1 .. Len(seqCmds) : seqCmds[i].fade \in BOOLEAN /\ (i \in Resets <=> ~seqCmds[i].fade)
      BY RequestsAre
    <3> QED  BY <3>1, <3>2, <3>3
  <2> HIDE DEF m
  <2>5. seqCmds[m] \in Requests /\ w \in Specs /\ ~seqCmds[m].fade
    <3>1. seqCmds[m] \in Requests
      BY <2>4, RequestsAre
    <3> QED  BY <2>4, <3>1 DEF Requests
  <2>6. taken = TakeUp(start, seqCmds[m])
    BY <1>4, <1>5, <2>4, TakenIs DEF taken
  <2>7. /\ taken.ring = QueueCmd(Schedule(QueueCmd(x, ResetHeap(w))), Stop)
        /\ taken.spec = specId
    BY <1>4, <2>5, <2>6, TakeUpIs, ResetAudioHeapIs
  <2>8. wanted' = w
    BY <1>1, <1>7 DEF m
  <2> HIDE DEF w
  <2>9. Ordered(ring', w)
    BY <1>1, <1>2, <2>2, <2>5, <2>7, FinishOrders
  <2>10. ~NoReset(ring'.owed)
    BY <2>9, OrderedHasReset
  <2>11. resetting' /\ resetDone' = <<>> /\ resetStatus' = 0
    BY <1>1, <1>7
  <2> QED  BY <2>8, <2>9, <2>10, <2>11 DEF Protocol
<1> QED  BY <1>6, <1>7

(* The update that only fades the reverb.                                  *)
LEMMA FadeKeeps ==
  ASSUME NEW r \in Clean, FadeReverb(r), ring' \notin Wide, resetStatus = 0,
         specId = wanted, r \in Inited \/ sfxPlayer, UNCHANGED <<resetStatus, sfxPlayer>>
  PROVE  Protocol'
<1>1. /\ ring' = Schedule(QueueCmd(r, Play)) /\ ~resetting' /\ specId' = wanted'
      /\ resetStatus' = 0 /\ sfxPlayer' = sfxPlayer
  BY DEF FadeReverb
<1>2. ring' \in Clean /\ (r \in Inited => ring' \in Inited)
  BY <1>1, CleanKept, TheCommands, CommandsAre
<1>3. NoReset(ring'.owed) /\ (r \in Inited => HasInit(ring'.owed))
  BY <1>2 DEF Clean, Inited
<1> QED  BY <1>1, <1>3 DEF Protocol

LEMMA UpdateKeepsProtocol ==
  ASSUME TypesInv, ring \in SoundRing, mishaps = {} => Protocol, AudioUpdate,
         mishaps \subseteq mishaps', mishaps' = {}, ring' \notin Wide
  PROVE  Protocol'
<1>1. Protocol
  OBVIOUS
<1>2. ASSUME NEW k \in Plays, UpdateWhileReady(k) PROVE Protocol'
  <2>1. /\ ~resetting /\ Update(ring, k) /\ UNCHANGED <<resetStatus, sfxPlayer>>
        /\ resetDone' = (IF Resets # {} /\ resetting' THEN <<>> ELSE resetDone)
    BY <1>2 DEF UpdateWhileReady
  <2>2. /\ resetStatus = 0 /\ NoReset(ring.owed) /\ specId = wanted
        /\ sfxPlayer \/ HasInit(ring.owed)
    BY <1>1, <2>1 DEF Protocol
  <2>3. ring \in Clean /\ (ring \in Inited \/ sfxPlayer)
    BY <2>2 DEF Clean, Inited
  <2>4. CASE FadeReverb(ring)
    BY <2>1, <2>2, <2>3, <2>4, FadeKeeps
  <2>5. CASE FinishUpdate(ring, k)
    <3>1. resetting' => resetDone' = <<>>
      BY <2>1, <2>5 DEF FinishUpdate
    <3> QED  BY <2>1, <2>2, <2>3, <2>5, <3>1, FinishKeeps
  <2> QED  BY <2>1, <2>4, <2>5 DEF Update
<1>3. ASSUME NEW k \in Plays, UpdateAfterReset(k) PROVE Protocol'
  <2> DEFINE r == QueueCmd(Step3(QueueCmd(ring, Play)), Play)
  <2>1. /\ resetting /\ resetDone = <<specId>> /\ Update(r, k) /\ resetDone' = <<>>
        /\ UNCHANGED <<resetStatus, sfxPlayer>>
    BY <1>3 DEF UpdateAfterReset
  <2>2. resetDone # <<>>
    BY <2>1
  <2>3. resetStatus = 0 /\ NoReset(ring.owed) /\ specId = wanted
    BY <1>1, <2>2 DEF Protocol
  <2>4. r \in Clean /\ r \in Inited
    <3>1. QueueCmd(ring, Play) \in Clean
      BY <2>3, CleanKept, TheCommands, CommandsAre DEF Clean
    <3>2. r \in Inited
      BY <3>1, Step3Inits, CleanKept, TheCommands, CommandsAre
    <3> QED  BY <3>2 DEF Clean, Inited
  <2> HIDE DEF r
  <2> QED  BY <2>1, <2>3, <2>4, FadeKeeps, FinishKeeps DEF Update
<1>4. ASSUME UpdateWhileResetting PROVE Protocol'
  <2>1. /\ resetDone' = <<>> /\ UNCHANGED <<ring, resetStatus, specId, sfxPlayer>>
        /\ UNCHANGED <<resetting, wanted>>
    BY <1>4 DEF UpdateWhileResetting, audioVars, seqVars
  <2> QED  BY <1>1, <2>1 DEF Protocol
<1> QED  BY <1>2, <1>3, <1>4 DEF AudioUpdate

LEMMA OutsideKeepsProtocol ==
  ASSUME ring \in SoundRing, Protocol, QueueOutside, ring' \notin Wide
  PROVE  Protocol'
<1>1. PICK cs \in Outside : ring' = QueueAll(ring, cs)
  BY DEF QueueOutside, Outside
<1>2. /\ UNCHANGED <<resetDone, resetStatus, specId, sfxPlayer>>
      /\ UNCHANGED <<resetting, wanted>>
  BY DEF QueueOutside, audioVars, seqVars
<1>3. cs \in Seq(Commands) /\ NoReset(cs)
  BY TheCommands
<1>4. Adds(ring, cs, ring')
  BY <1>1, <1>3, QueueAllAdds
<1>5. /\ NoReset(ring.owed) => NoReset(ring'.owed)
      /\ HasInit(ring.owed) => HasInit(ring'.owed)
      /\ Ordered(ring, wanted) => Ordered(ring', wanted)
  BY <1>3, <1>4, AddsIs, AddsOrdered
<1>6. resetStatus # 0 => ring'.finished /\ ring'.msgs = <<>> /\ NoReset(ring'.owed)
  BY <1>4, <1>5 DEF Protocol, Adds
<1>7. specId = wanted \/ ~NoReset(ring'.owed)
  BY <1>5, OrderedHasReset DEF Protocol
<1> QED  BY <1>2, <1>5, <1>6, <1>7 DEF Protocol

-----------------------------------------------------------------------------
(* The buffers.  What the audio thread leaves of a ring, up to t.          *)
Left(r, y, ran, t) ==
  /\ y \in SoundRing /\ y.msgs = <<>> /\ ran \in Seq(Commands)
  /\ t \in 0 .. Reach(r) /\ Len(y.owed) = Len(r.owed) - t
  /\ \A i \in 1 .. Len(r.owed) - t : y.owed[i] = r.owed[t + i]
  /\ y.finished =>
       t # 0 /\ r.owed[t] = Stop /\ \A i \in LastStart(r) + 1 .. t - 1 : r.owed[i] # Stop
  /\ ~y.finished => t = Reach(r) /\ \A i \in LastStart(r) + 1 .. t : r.owed[i] # Stop
  /\ RanUpTo(r.owed, t, ran)

LEMMA ProcessLeaves ==
  ASSUME NEW r \in SoundRing, r.msgs # <<>>
  PROVE  \E t : Left(r, ProcessAll(r).ring, ProcessAll(r).ran, t)
<1> DEFINE y == ProcessAll(r).ring
           ran == ProcessAll(r).ran
<1>1. /\ r \in RingType /\ Holds(r) /\ r.owed \in Seq(Commands) /\ Len(r.owed) \in Nat
      /\ Reach(r) \in 0 .. Len(r.owed)
  BY ReachIs DEF SoundRing
<1>2. y \in RingType /\ ran \in Seq(Commands) /\ y.msgs = <<>>
  BY <1>1, ProcessAllIs DEF RanType
<1>3. Holds(y) /\ \E t : Processed(r, y, ran, t)
  BY <1>1, ProcessAllHolds
<1> HIDE DEF y, ran
<1>4. PICK t : Processed(r, y, ran, t)
  BY <1>3
<1>5. t \in 0 .. Reach(r) /\ y.owed = SubSeq(r.owed, t + 1, Len(r.owed))
  BY <1>4 DEF Processed
<1>6. t \in 0 .. Len(r.owed)
  BY <1>1, <1>5
<1>7. /\ Len(y.owed) = Len(r.owed) - t
      /\ \A i \in 1 .. Len(r.owed) - t : y.owed[i] = r.owed[t + i]
  BY <1>1, <1>5, <1>6, DropIs
<1>8. Left(r, y, ran, t)
  BY <1>2, <1>3, <1>4, <1>5, <1>7 DEF Left, Processed, SoundRing
<1> QED  BY <1>8 DEF y, ran

LEMMA LeftIs ==
  ASSUME NEW r \in SoundRing, NEW y, NEW ran, NEW t, Left(r, y, ran, t)
  PROVE  /\ t \in Nat /\ t <= Len(r.owed) /\ Len(r.owed) \in Nat /\ Len(y.owed) <= Len(r.owed)
         /\ NoReset(r.owed) => NoReset(y.owed) /\ RanReset(ran) = {}
         /\ HasInit(r.owed) => HasInit(y.owed) \/ \E i \in DOMAIN ran : ran[i] = InitSfx
<1>1. /\ t \in Nat /\ t <= Len(r.owed) /\ Len(r.owed) \in Nat /\ Len(y.owed) = Len(r.owed) - t
      /\ \A i \in 1 .. Len(y.owed) : y.owed[i] = r.owed[t + i] /\ t + i \in 1 .. Len(r.owed)
      /\ \A i \in 1 .. t : i \in 1 .. Len(r.owed)
      /\ DOMAIN ran = 1 .. Len(ran)
  <2>1. Reach(r) \in 0 .. Len(r.owed) /\ Len(r.owed) \in Nat
    BY ReachIs
  <2>2. /\ t \in 0 .. Reach(r) /\ Len(y.owed) = Len(r.owed) - t /\ ran \in Seq(Commands)
        /\ \A i \in 1 .. Len(r.owed) - t : y.owed[i] = r.owed[t + i]
    BY DEF Left
  <2>3. t \in Nat /\ t <= Len(r.owed)
    BY <2>1, <2>2
  <2>4. \A i \in 1 .. Len(y.owed) : t + i \in 1 .. Len(r.owed)
    BY <2>1, <2>2, <2>3
  <2>5. \A i \in 1 .. t : i \in 1 .. Len(r.owed)
    BY <2>1, <2>3
  <2> QED  BY <2>1, <2>2, <2>3, <2>4, <2>5
<1>2. RanUpTo(r.owed, t, ran)
  BY DEF Left
<1>4. NoReset(r.owed) => NoReset(y.owed) /\ RanReset(ran) = {}
  <2>1. NoReset(r.owed) => NoReset(y.owed)
    BY <1>1 DEF NoReset
  <2>2. ASSUME NoReset(r.owed), NEW j \in DOMAIN ran PROVE ran[j].op # "RESET"
    <3>1. PICK i \in 1 .. t : ran[j] = r.owed[i]
      BY <1>1, <1>2 DEF RanUpTo
    <3> QED  BY <1>1, <2>2, <3>1 DEF NoReset
  <2> QED  BY <2>1, <2>2 DEF RanReset
<1>5. ASSUME HasInit(r.owed), ~HasInit(y.owed)
      PROVE  \E i \in DOMAIN ran : ran[i] = InitSfx
  <2>1. PICK i \in 1 .. Len(r.owed) : r.owed[i] = InitSfx
    BY <1>5 DEF HasInit
  <2>2. InitSfx # Stop
    BY DEF InitSfx, Stop, Cmd
  <2>3. i \in 1 .. t
    <3>1. CASE i <= t
      BY <1>1, <3>1
    <3>2. CASE ~(i <= t)
      <4>1. i - t \in 1 .. Len(y.owed) /\ t + (i - t) = i
        BY <1>1, <3>2
      <4>2. y.owed[i - t] = r.owed[t + (i - t)]
        BY <1>1, <4>1
      <4>3. y.owed[i - t] = InitSfx
        BY <2>1, <4>1, <4>2
      <4> QED  BY <1>5, <4>1, <4>3 DEF HasInit
    <3> QED  BY <3>1, <3>2
  <2> QED  BY <1>1, <1>2, <2>1, <2>2, <2>3 DEF RanUpTo
<1> QED  BY <1>1, <1>4, <1>5

(* The audio thread has not reached the RESET, or it has run it and stands *)
(* behind its STOP.                                                        *)
LEMMA OrderedLeaves ==
  ASSUME NEW r \in SoundRing, NEW y, NEW ran, NEW t, NEW w \in Specs,
         Left(r, y, ran, t), r.msgs # <<>>, Ordered(r, w)
  PROVE  \/ Ordered(y, w) /\ RanReset(ran) = {}
         \/ /\ y.finished /\ NoReset(y.owed)
            /\ RanReset(ran) # {} /\ \A j \in RanReset(ran) : ran[j].arg = w
<1> DEFINE o == r.owed
<1>1. PICK i \in 1 .. Len(o) : OrderAt(o, i, w) /\ i + 1 \in LastStart(r) + 1 .. Reach(r)
  BY DEF Ordered
<1>2. /\ i \in 1 .. Len(o) /\ i + 1 \in 1 .. Len(o)
      /\ o[i] = ResetHeap(w) /\ o[i + 1] = Stop
      /\ \A j \in 1 .. Len(o) : o[j].op = "RESET" => j = i
  BY <1>1 DEF OrderAt
<1>3. /\ t \in Nat /\ t <= Len(o) /\ Len(o) \in Nat /\ Len(y.owed) = Len(o) - t
      /\ \A j \in 1 .. Len(o) - t : y.owed[j] = o[t + j]
      /\ DOMAIN ran = 1 .. Len(ran) /\ ran \in Seq(Commands)
      /\ t \in 0 .. Reach(r) /\ Reach(r) \in Nat /\ LastStart(r) \in Nat
      /\ RanUpTo(o, t, ran) /\ y.msgs = <<>> /\ y \in SoundRing /\ y.finished \in BOOLEAN
  <2>1. Reach(r) \in Nat /\ LastStart(r) \in Nat
    <3>1. LastStart(r) \in 0 .. Reach(r) /\ Reach(r) \in 0 .. Len(o) /\ Len(o) \in Nat
      BY ReachIs
    <3> QED  BY <3>1
  <2>2. y.finished \in BOOLEAN
    BY DEF Left, SoundRing, RingType
  <2> QED  BY <2>1, <2>2, LeftIs DEF Left
<1>a. /\ y.finished => t # 0 /\ o[t] = Stop /\ \A j \in LastStart(r) + 1 .. t - 1 : o[j] # Stop
      /\ ~y.finished => t = Reach(r) /\ \A j \in LastStart(r) + 1 .. t : o[j] # Stop
  BY DEF Left
<1>4. o[i].op = "RESET" /\ o[i].arg = w /\ o[i] # Stop
  <2>1. ResetHeap(w).op = "RESET" /\ ResetHeap(w).arg = w /\ Stop.op = "STOP"
    BY DEF ResetHeap, Stop, Cmd
  <2> QED  BY <1>2, <2>1
<1> HIDE DEF o
<1>5. y.finished
  <2> SUFFICES ASSUME ~y.finished PROVE FALSE
    BY <1>3
  <2>1. t = Reach(r) /\ \A j \in LastStart(r) + 1 .. t : o[j] # Stop
    BY <1>a
  <2> QED  BY <1>1, <1>2, <2>1
<1>6. CASE t < i
  <2>1. RanReset(ran) = {}
    <3>1. ASSUME NEW j \in DOMAIN ran, ran[j].op = "RESET" PROVE FALSE
      <4>1. PICK k \in 1 .. t : ran[j] = o[k]
        BY <1>3 DEF RanUpTo
      <4>2. k \in 1 .. Len(o) /\ k # i
        BY <1>3, <1>6
      <4> QED  BY <1>2, <3>1, <4>1, <4>2
    <3> QED  BY <3>1 DEF RanReset
  <2>2. OrderAt(y.owed, i - t, w)
    <3>1. /\ i - t \in 1 .. Len(o) - t /\ (i - t) + 1 \in 1 .. Len(o) - t
          /\ t + (i - t) = i /\ t + ((i - t) + 1) = i + 1
      BY <1>2, <1>3, <1>6
    <3>2. y.owed[i - t] = ResetHeap(w)
      <4>1. y.owed[i - t] = o[t + (i - t)]
        BY <1>3, <3>1
      <4> QED  BY <1>2, <3>1, <4>1
    <3>3. y.owed[(i - t) + 1] = Stop
      <4>1. y.owed[(i - t) + 1] = o[t + ((i - t) + 1)]
        BY <1>3, <3>1
      <4> QED  BY <1>2, <3>1, <4>1
    <3>4. ASSUME NEW j \in 1 .. Len(o) - t, y.owed[j].op = "RESET" PROVE j = i - t
      <4>1. t + j \in 1 .. Len(o) /\ y.owed[j] = o[t + j]
        BY <1>3
      <4>2. t + j = i
        BY <1>2, <3>4, <4>1
      <4> QED  BY <1>3, <4>2
    <3> QED  BY <1>3, <3>1, <3>2, <3>3, <3>4 DEF OrderAt
  <2>3. i - t \in 1 .. Len(y.owed)
    BY <2>2 DEF OrderAt
  <2>4. Ordered(y, w)
    BY <1>3, <1>5, <2>2, <2>3 DEF Ordered
  <2> QED  BY <2>1, <2>4
<1>7. CASE ~(t < i)
  <2>2. t = i + 1
    <3>1. /\ t # 0 /\ o[t] = Stop /\ \A j \in LastStart(r) + 1 .. t - 1 : o[j] # Stop
      BY <1>5, <1>a
    <3>2. ~(i + 1 <= t - 1)
      <4>1. i + 1 <= t - 1 => i + 1 \in LastStart(r) + 1 .. t - 1
        BY <1>1, <1>2, <1>3
      <4> QED  BY <1>2, <3>1, <4>1
    <3>3. t = i \/ t = i + 1
      BY <1>2, <1>3, <1>7, <3>2
    <3> QED  BY <1>4, <3>1, <3>3
  <2>4. NoReset(y.owed)
    <3> SUFFICES ASSUME NEW j \in 1 .. Len(y.owed) PROVE y.owed[j].op # "RESET"
      BY DEF NoReset
    <3>1. j \in 1 .. Len(o) - t /\ t + j \in 1 .. Len(o) /\ t + j # i
      BY <1>2, <1>3, <2>2
    <3> QED  BY <1>2, <1>3, <3>1
  <2>6. RanReset(ran) # {}
    <3>1. i \in 1 .. t
      BY <1>2, <1>3, <2>2
    <3>2. PICK j \in 1 .. Len(ran) : ran[j] = o[i]
      BY <1>3, <1>4, <3>1 DEF RanUpTo
    <3> QED  BY <1>3, <1>4, <3>2 DEF RanReset
  <2>7. \A j \in RanReset(ran) : ran[j].arg = w
    <3> TAKE j \in RanReset(ran)
    <3>1. j \in 1 .. Len(ran) /\ ran[j].op = "RESET"
      BY <1>3 DEF RanReset
    <3>2. PICK k \in 1 .. t : ran[j] = o[k]
      BY <1>3, <3>1 DEF RanUpTo
    <3>3. k \in 1 .. Len(o)
      BY <1>3
    <3>4. k = i
      BY <1>2, <3>1, <3>2, <3>3
    <3> QED  BY <1>4, <3>2, <3>4
  <2> QED  BY <1>5, <2>4, <2>6, <2>7
<1> QED  BY <1>6, <1>7

(* A stage of the reset.                                                   *)
LEMMA StillBuffer ==
  ASSUME TypesInv, Protocol, BufferDuringReset, UNCHANGED seqVars
  PROVE  Protocol'
<1>1. /\ ring' = ring /\ specId' = specId /\ resetDone' = resetDone
      /\ resetting' = resetting /\ wanted' = wanted
  BY DEF BufferDuringReset, seqVars
<1>2. resetStatus # 0
  BY DEF BufferDuringReset, TypesInv
<1>3. /\ ring.finished /\ ring.msgs = <<>> /\ NoReset(ring.owed) /\ resetting
      /\ resetDone = <<>>
  BY <1>2 DEF Protocol
<1> QED  BY <1>1, <1>3 DEF Protocol

(* No message: behind a STOP the audio thread schedules what is left.      *)
LEMMA EmptyBuffer ==
  ASSUME TypesInv, ring \in SoundRing, Protocol, BufferWithCommands, UNCHANGED seqVars,
         ring.msgs = <<>>
  PROVE  Protocol'
<1>1. resetting' = resetting /\ wanted' = wanted
  BY DEF seqVars
<1>2. /\ resetStatus' = 0 /\ specId' = specId
      /\ resetStatus = 0 /\ sfxPlayer => sfxPlayer'
      /\ resetDone' = (IF resetStatus = 1 /\ resetDone = <<>> THEN <<specId>> ELSE resetDone)
      /\ ring' = (IF ring.finished THEN Schedule(ring) ELSE ring)
  <2>1. RanReset(<<>>) = {}
    BY DEF RanReset
  <2>2. Apply(<<>>)
    BY DEF BufferWithCommands
  <2>3. resetStatus' = 0 /\ specId' = specId /\ (resetStatus = 0 /\ sfxPlayer => sfxPlayer')
    BY <2>1, <2>2 DEF Apply
  <2>4. resetDone' = (IF resetStatus = 1 /\ resetDone = <<>> THEN <<specId>> ELSE resetDone)
    BY Zenon DEF BufferWithCommands
  <2>5. ring' = (IF ring.finished THEN Schedule(ring) ELSE ring)
    BY DEF BufferWithCommands
  <2> QED  BY <2>3, <2>4, <2>5
<1>3. /\ Len(ring.owed) \in Nat /\ Len(ring.msgs) = 0 /\ ProcMsgs \in Nat /\ ProcMsgs # 0
  BY ReachIs, RingAssumption
<1>4. ring'.owed = ring.owed
  BY <1>2, ScheduleOne
<1>5. Ordered(ring, wanted) => Ordered(ring', wanted)
  <2> SUFFICES ASSUME Ordered(ring, wanted) PROVE Ordered(ring', wanted)
    OBVIOUS
  <2>1. PICK i \in 1 .. Len(ring.owed) : OrderAt(ring.owed, i, wanted) /\ ring.finished
    BY DEF Ordered
  <2> DEFINE y == Schedule(ring)
  <2>2. /\ y \in SoundRing /\ Len(y.msgs) = Len(ring.msgs) + 1
        /\ Reach(y) = Len(ring.owed) /\ LastStart(y) = 0
    BY <1>3, ScheduleOne
  <2>a. ring' = y
    BY <1>2, <2>1
  <2> HIDE DEF y
  <2>3. y.msgs # <<>>
    <3>1. Len(y.msgs) # 0
      BY <1>3, <2>2
    <3> QED  BY <2>2, <3>1, ReachIs
  <2>4. i + 1 \in 1 .. Len(ring.owed) /\ LastStart(y) + 1 = 1
    BY <2>1, <2>2 DEF OrderAt
  <2> QED  BY <1>4, <2>1, <2>2, <2>3, <2>4, <2>a DEF Ordered
<1>6. resetDone' = <<>> \/ NoReset(ring'.owed)
  BY <1>2, <1>4 DEF Protocol
<1>7. sfxPlayer' \/ resetting' \/ HasInit(ring'.owed)
  <2>1. CASE resetStatus = 0
    BY <1>1, <1>2, <1>4, <2>1 DEF Protocol
  <2>2. CASE resetStatus # 0
    BY <1>1, <2>2 DEF Protocol
  <2> QED  BY <2>1, <2>2
<1>8. resetting' \/ NoReset(ring'.owed)
  BY <1>1, <1>4 DEF Protocol
<1>9. NoReset(ring'.owed) \/ Ordered(ring', wanted')
  BY <1>1, <1>4, <1>5 DEF Protocol
<1>10. specId' = wanted' \/ ~NoReset(ring'.owed)
  BY <1>1, <1>2, <1>4 DEF Protocol
<1> QED  BY <1>2, <1>6, <1>7, <1>8, <1>9, <1>10 DEF Protocol

LEMMA ProcessingBuffer ==
  ASSUME TypesInv, ring \in SoundRing, Protocol, BufferWithCommands, UNCHANGED seqVars,
         ring.msgs # <<>>
  PROVE  Protocol'
<1> DEFINE y == ring'
           ran == ProcessAll(ring).ran
<1>1. resetting' = resetting /\ wanted' = wanted
  BY DEF seqVars
<1>2. resetStatus = 0 /\ wanted \in Specs
  BY DEF Protocol, TypesInv
<1>3. y = ProcessAll(ring).ring /\ Apply(ran) /\ resetDone' = resetDone
  BY <1>2 DEF BufferWithCommands
<1>4. PICK t : Left(ring, y, ran, t)
  BY <1>3, ProcessLeaves
<1> HIDE DEF y, ran
<1>5. y \in SoundRing /\ y.msgs = <<>> /\ ran \in Seq(Commands)
  BY <1>4 DEF Left
<1>7. /\ sfxPlayer => sfxPlayer'
      /\ (\E i \in DOMAIN ran : ran[i] = InitSfx) => sfxPlayer'
      /\ RanReset(ran) = {} => resetStatus' = 0 /\ specId' = specId
      /\ RanReset(ran) # {} =>
           specId' = ran[CHOOSE i \in RanReset(ran) : \A j \in RanReset(ran) : j <= i].arg
  BY <1>2, <1>3 DEF Apply
<1>8. CASE NoReset(ring.owed)
  <2>1. /\ NoReset(y.owed) /\ RanReset(ran) = {}
        /\ HasInit(ring.owed) => HasInit(y.owed) \/ \E i \in DOMAIN ran : ran[i] = InitSfx
    BY <1>4, <1>8, LeftIs
  <2>2. resetStatus' = 0 /\ specId' = specId /\ specId = wanted
    BY <1>7, <1>8, <2>1 DEF Protocol
  <2>3. sfxPlayer' \/ resetting' \/ HasInit(y.owed)
    BY <1>1, <1>7, <2>1 DEF Protocol
  <2> QED  BY <1>1, <2>1, <2>2, <2>3 DEF Protocol, y
<1>9. CASE ~NoReset(ring.owed)
  <2>1. Ordered(ring, wanted) /\ resetting /\ resetDone = <<>>
    BY <1>9 DEF Protocol
  <2>2. resetting' /\ resetDone' = <<>>
    BY <1>1, <1>3, <2>1
  <2>4. CASE Ordered(y, wanted) /\ RanReset(ran) = {}
    <3>1. ~NoReset(y.owed) /\ resetStatus' = 0
      BY <1>7, <2>4, OrderedHasReset
    <3> QED  BY <1>1, <2>2, <2>4, <3>1 DEF Protocol, y
  <2>5. CASE /\ y.finished /\ NoReset(y.owed)
             /\ RanReset(ran) # {} /\ \A j \in RanReset(ran) : ran[j].arg = wanted
    <3>1. specId' = wanted
      <4>1. Len(ran) \in Nat /\ RanReset(ran) \in SUBSET (1 .. Len(ran))
        BY <1>5 DEF RanReset
      <4>2. \E i \in RanReset(ran) : \A j \in RanReset(ran) : j <= i
        <5>1. /\ Max(RanReset(ran)) \in RanReset(ran)
              /\ \A j \in RanReset(ran) : Max(RanReset(ran)) >= j
          BY <2>5, <4>1, MaxIs
        <5> QED  BY <4>1, <5>1
      <4> DEFINE last == CHOOSE i \in RanReset(ran) : \A j \in RanReset(ran) : j <= i
      <4>3. last \in RanReset(ran)
        BY <4>2
      <4>4. specId' = ran[last].arg
        BY <1>7, <2>5
      <4> HIDE DEF last
      <4> QED  BY <2>5, <4>3, <4>4
    <3> QED  BY <1>1, <1>5, <2>2, <2>5, <3>1 DEF Protocol, y
  <2> QED  BY <1>2, <1>4, <2>1, <2>4, <2>5, OrderedLeaves
<1> QED  BY <1>8, <1>9

-----------------------------------------------------------------------------
(* In a behaviour whose ring always has room, before a mishap.             *)
Roomy == Len(ring.owed) + 1 < RingSize
Guarded == mishaps = {} => Protocol

LEMMA RoomyIs ==
  TypedInv /\ Roomy => ring \notin Wide /\ ShortRing
<1> SUFFICES ASSUME TypedInv, Roomy PROVE ring \notin Wide /\ ShortRing
  OBVIOUS
<1>1. Len(ring.owed) \in Nat /\ RingSize \in Nat
  BY RingAssumption DEF TypedInv, TypesInv, RingOK, RingType
<1> QED  BY <1>1 DEF Roomy, Wide, ShortRing

LEMMA InitGuarded == Init /\ Roomy => Guarded
<1> SUFFICES ASSUME Init, Roomy PROVE Protocol
  BY DEF Guarded
<1> DEFINE u == Schedule(EmptyRing)
<1>1. ring = QueueAll(u, <<InitSfx, Play>>)
  BY DEF Init, CmdInit
<1>2. EmptyRing \in SoundRing /\ NoReset(EmptyRing.owed)
  <2>1. EmptyRing.owed = <<>> /\ Len(<<>>) = 0 /\ 0 < RingSize
    BY RingAssumption DEF EmptyRing
  <2>2. EmptyRing \in SoundRing
    BY <2>1, EmptyHolds DEF SoundRings, SoundRing
  <2> QED  BY <2>1, <2>2 DEF NoReset
<1>3. u \in Clean /\ ring \in Clean
  <2>1. EmptyRing \in Clean
    BY <1>2 DEF Clean
  <2> QED  BY <1>1, <2>1, CleanKept, TheCommands
<1>4. ring \notin Wide
  <2>1. Len(ring.owed) \in Nat /\ RingSize \in Nat
    BY <1>3, RingAssumption DEF Clean, SoundRing, Wide, RingType
  <2> QED  BY <2>1 DEF Roomy, Wide
<1>5. u \in SoundRing
  <2>1. u \notin Wide
    BY <1>1, <1>4, WideKept, TheCommands
  <2> QED  BY <1>3, <2>1 DEF Clean
<1> HIDE DEF u
<1>6. HasInit(ring.owed)
  <2>1. Adds(u, <<InitSfx, Play>>, ring)
    BY <1>1, <1>4, <1>5, QueueAllAdds, TheCommands
  <2> QED  BY <1>5, <2>1, AddsIs, TheCommands
<1>7. NoReset(ring.owed)
  BY <1>3, <1>4 DEF Clean
<1>8. resetStatus = 0 /\ ~resetting /\ resetDone = <<>> /\ specId = wanted
  BY DEF Init, CmdInit
<1> QED  BY <1>6, <1>7, <1>8 DEF Protocol

LEMMA NextGuarded ==
  TypedInv /\ RingHolds /\ Guarded /\ (TypedInv /\ Roomy)' /\ [Next]_vars => Guarded'
<1> SUFFICES ASSUME TypedInv, RingHolds, Guarded, (TypedInv /\ Roomy)', [Next]_vars, mishaps' = {}
             PROVE  Protocol'
  BY DEF Guarded
<1>1. mishaps = {} /\ Protocol
  BY MishapsGrow DEF Guarded
<1>2. TypesInv /\ ring \in SoundRing
  BY <1>1 DEF TypedInv, TypesInv, RingOK, RingHolds, NotMet, SoundRing
<1>3. ring' \notin Wide
  <2>1. Len(ring'.owed) \in Nat /\ RingSize \in Nat
    BY RingAssumption DEF TypedInv, TypesInv, RingOK, RingType
  <2> QED  BY <2>1 DEF Roomy, Wide
<1>4. CASE AudioUpdate
  BY <1>1, <1>2, <1>3, <1>4, MishapsGrow, UpdateKeepsProtocol
<1>5. CASE MakeBuffer
  BY <1>1, <1>2, <1>5, StillBuffer, EmptyBuffer, ProcessingBuffer
     DEF MakeBuffer, CreateNextAudioBuffer
<1>6. CASE Logic
  <2>1. CASE QueueOutside
    BY <1>1, <1>2, <1>3, <2>1, OutsideKeepsProtocol
  <2>2. ASSUME NEW spec \in Specs, NEW fade \in BOOLEAN, SetSpec(spec, fade) PROVE Protocol'
    <3>1. UNCHANGED <<ring, resetDone, resetStatus, specId, sfxPlayer, resetting, wanted>>
      BY <2>2 DEF SetSpec, audioVars
    <3> QED  BY <1>1, <3>1 DEF Protocol
  <2> QED  BY <1>4, <1>6, <2>1, <2>2 DEF Logic
<1>7. CASE GameStep \/ AudioStep \/ StopRunning \/ Spurious \/ Exited \/ UNCHANGED vars
  <2>1. UNCHANGED cmdVars
    BY <1>7 DEF GameStep, RequestBuffer, NotifyAudio, RunCommands, AwaitBuffer, NotifyStop, Join,
                AudioStep, LoopTop, AwaitRequest, StartWork, EndWork, StopRunning, Spurious,
                Exited, vars
  <2> QED  BY <1>1, <2>1 DEF Protocol, cmdVars, audioVars, seqVars
<1> QED  BY <1>5, <1>6, <1>7 DEF Next

LEMMA AlwaysGuarded == Spec /\ []Roomy => []Guarded
<1>1. TypedInv /\ Roomy => ShortRing
  BY RoomyIs
<1>2. Spec /\ []ShortRing => []RingHolds
  BY AlwaysTyped, InitHolds, NextHolds, PTL DEF Spec
<1> QED  BY <1>1, <1>2, AlwaysTyped, InitGuarded, NextGuarded, PTL DEF Spec

(* In a behaviour whose ring always has room, the heap is reset only while *)
(* the sequence code holds back its updates and the audio thread stands    *)
(* behind the STOP of the reset: over any number of updates and requests   *)
(* between two buffers, of STOPs of the game's own, and of messages that   *)
(* find no place, as long as every reset is asked for alone and its own    *)
(* message finds one.                                                      *)
THEOREM AlwaysResetHoldsBack ==
  Spec => ([](Len(ring.owed) + 1 < RingSize) => []ResetHoldsBack)
<1>1. Guarded => ResetHoldsBack
  BY DEF Guarded, Protocol, ResetHoldsBack
<1>2. Spec => ([]Roomy => []ResetHoldsBack)
  BY <1>1, AlwaysGuarded, PTL
<1> QED  BY <1>2 DEF Roomy

(* In the same behaviours, when no reset is awaited and every command has  *)
(* run, the sound effects' player is initialised and the specification in  *)
(* use is the one that was asked for last.                                 *)
THEOREM AlwaysSoundAsAsked ==
  Spec => ([](Len(ring.owed) + 1 < RingSize) => []SoundAsAsked)
<1>1. NoReset(<<>>) /\ ~HasInit(<<>>)
  BY DEF NoReset, HasInit
<1>2. Guarded => SoundAsAsked
  BY <1>1 DEF Guarded, Protocol, SoundAsAsked
<1>3. Spec => ([]Roomy => []SoundAsAsked)
  BY <1>2, AlwaysGuarded, PTL
<1> QED  BY <1>3 DEF Roomy
===============================================================================
