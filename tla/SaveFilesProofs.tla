--------------------------- MODULE SaveFilesProofs ---------------------------
(***************************************************************************)
(* Proofs about SaveFiles, for any number of slots, saves and crashes and  *)
(* for every setting.                                                      *)
(***************************************************************************)
EXTENDS SaveFiles, SequenceTheorems, TLAPS

(* A write that a handler still has to do. *)
Writes == [file : FlashSaves, part : Parts \cup {"import", "delete"},
           save : 0 .. MaxSaves]

(* What is known of the file that is open. *)
WritingType == [file : FlashSaves, was : Contents, content : Contents,
                open : BOOLEAN]

(* A torn file is the one that is open, or its slot is still to be checked *)
(* by the loop of func_801457CC.                                           *)
TornIsUnchecked ==
  \A s \in Slots : \A i \in {Main(s), Backup(s)} :
    files[i] = Torn =>
      \/ writing.open /\ writing.file = i
      \/ phase = "verify" /\ checking <= s

(* No write to come meets a torn file, unless that is the file now open.   *)
PendingIsWhole ==
  \A k \in 1 .. Len(pending) :
    files[pending[k].file] = Torn =>
      writing.open /\ writing.file = pending[k].file

IInv == TypeOK /\ TornIsUnchecked /\ PendingIsWhole

-----------------------------------------------------------------------------
LEMMA FileOfSlot ==
  /\ \A s \in Slots : Main(s) \in FlashSaves /\ Backup(s) \in FlashSaves
  /\ \A i \in FlashSaves : \E s \in Slots : i \in {Main(s), Backup(s)}
<1>1. \A s \in Slots : Main(s) \in FlashSaves /\ Backup(s) \in FlashSaves
  BY SlotsAssumption DEF Slots, FlashSaves, Main, Backup
<1>2. ASSUME NEW i \in FlashSaves
      PROVE  \E s \in Slots : i \in {Main(s), Backup(s)}
  <2>1. i \div 2 \in Slots
    BY SlotsAssumption DEF Slots, FlashSaves
  <2>2. i = 2 * (i \div 2) \/ i = 2 * (i \div 2) + 1
    BY SlotsAssumption DEF FlashSaves
  <2> QED
    BY <2>1, <2>2 DEF Main, Backup
<1> QED
  BY <1>1, <1>2

(* What is read of a file has the form of a file's contents. *)
LEMMA ReadType ==
  ASSUME files \in [FlashSaves -> Contents \cup {Torn}]
  PROVE  /\ Absent \in Contents
         /\ \A i \in FlashSaves : ReadSaveFile(i) \in Contents
         /\ \A i \in FlashSaves, part \in Parts :
              ReadData(i, part) \in 0 .. MaxSaves
<1>1. Absent \in Contents
  BY BoundsAssumption DEF Absent, Contents, Parts
<1>2. \A i \in FlashSaves : ReadSaveFile(i) \in Contents
  BY <1>1 DEF ReadSaveFile
<1>3. \A i \in FlashSaves, part \in Parts : ReadData(i, part) \in 0 .. MaxSaves
  BY <1>2 DEF ReadData, Contents
<1> QED
  BY <1>1, <1>2, <1>3

LEMMA WrittenType ==
  ASSUME files \in [FlashSaves -> Contents \cup {Torn}],
         NEW w \in Writes
  PROVE  Written(w) \in Contents
<1>1. ReadSaveFile(w.file) \in Contents /\ Absent \in Contents
  BY ReadType DEF Writes
<1>2. w.save \in 0 .. MaxSaves
      /\ w.part \in {"newCycleSave", "owlSave", "import", "delete"}
  BY DEF Writes, Parts
<1> QED
  BY <1>1, <1>2
  DEF Written, NewCycleWritten, OwlWritten, Contents, Parts

(* The lists of writes a handler starts with are lists of writes. *)
LEMMA WriteLists ==
  /\ \A s \in Slots, n \in 0 .. MaxSaves :
       WriteSpecial(s, n) \in Seq(Writes) /\ WriteOwlTwice(s, n) \in Seq(Writes)
  /\ \A i \in FlashSaves, n \in 0 .. MaxSaves :
       \A part \in Parts \cup {"import", "delete"} : <<Op(i, part, n)>> \in Seq(Writes)
<1>1. \A i \in FlashSaves, n \in 0 .. MaxSaves :
        \A part \in Parts \cup {"import", "delete"} : Op(i, part, n) \in Writes
  BY DEF Op, Writes
<1>2. ASSUME NEW s \in Slots, NEW n \in 0 .. MaxSaves
      PROVE  WriteSpecial(s, n) \in Seq(Writes) /\ WriteOwlTwice(s, n) \in Seq(Writes)
  <2>1. Main(s) \in FlashSaves /\ Backup(s) \in FlashSaves
    BY FileOfSlot
  <2>2. /\ WriteNewCycle(Main(s), n) \in Writes /\ WriteNewCycle(Backup(s), n) \in Writes
        /\ WriteOwl(Main(s), n) \in Writes /\ WriteOwl(Backup(s), n) \in Writes
    BY <1>1, <2>1 DEF WriteNewCycle, WriteOwl, Parts
  <2> QED
    BY <2>2 DEF WriteSpecial, WriteOwlTwice
<1> QED
  BY <1>1, <1>2

(* While nothing is written and every torn file has been moved aside, no   *)
(* file is torn.                                                           *)
NoneTorn == \A i \in FlashSaves : files[i] # Torn

LEMMA CheckedIsWhole ==
  ASSUME IInv, Idle, phase # "verify" \/ checking >= NumSlots
  PROVE  NoneTorn
<1> SUFFICES ASSUME NEW i \in FlashSaves, files[i] = Torn
             PROVE  FALSE
  BY DEF NoneTorn
<1>1. PICK s \in Slots : i \in {Main(s), Backup(s)}
  BY FileOfSlot
<1>2. ~(phase = "verify" /\ checking <= s)
  BY SlotsAssumption DEF Slots, IInv, TypeOK
<1> QED
  BY <1>1, <1>2 DEF IInv, TornIsUnchecked, Idle

(* A handler that starts while no file is torn may write what it likes. *)
LEMMA HandlerStarts ==
  ASSUME NoneTorn, UNCHANGED <<files, writing>>, pending' \in Seq(Writes)
  PROVE  TornIsUnchecked' /\ PendingIsWhole'
<1>1. \A k \in 1 .. Len(pending') : pending'[k].file \in FlashSaves
  <2>1. \A k \in 1 .. Len(pending') : pending'[k] \in Writes
    OBVIOUS
  <2> QED
    BY <2>1 DEF Writes
<1> QED
  BY <1>1, FileOfSlot DEF NoneTorn, TornIsUnchecked, PendingIsWhole

-----------------------------------------------------------------------------
LEMMA InitInv == Init => IInv
<1> SUFFICES ASSUME Init PROVE IInv
  OBVIOUS
<1>1. Absent \in Contents
  BY BoundsAssumption DEF Absent, Contents, Parts
<1>2. NoneTorn /\ files \in [FlashSaves -> Contents \cup {Torn}]
  BY <1>1, TornAssumption DEF Init, NoneTorn
<1>3. 0 \in FlashSaves /\ 0 \in Slots
  BY SlotsAssumption DEF FlashSaves, Slots
<1>4. writing \in WritingType
  BY <1>1, <1>3 DEF Init, NotWriting, WritingType
<1>5. pending \in Seq(Writes)
  BY DEF Init
<1>6. TypeOK
  BY <1>2, <1>3, <1>4, <1>5, SlotsAssumption, BoundsAssumption
     DEF Init, TypeOK, Writes, WritingType, Phases
<1>7. TornIsUnchecked /\ PendingIsWhole
  BY <1>2, FileOfSlot DEF Init, NoneTorn, TornIsUnchecked, PendingIsWhole
<1> QED
  BY <1>6, <1>7 DEF IInv

LEMMA StartWriteKeepsInv == IInv /\ StartWrite => IInv'
<1> SUFFICES ASSUME IInv, StartWrite PROVE IInv'
  OBVIOUS
<1> DEFINE w == Head(pending)
<1>1. /\ pending \in Seq(Writes) /\ pending # <<>> /\ ~writing.open
      /\ pending' = Tail(pending)
      /\ files \in [FlashSaves -> Contents \cup {Torn}]
  BY DEF IInv, TypeOK, StartWrite, Writes
<1>2. /\ w \in Writes /\ pending' \in Seq(Writes) /\ w = pending[1]
      /\ Len(pending) >= 1
      /\ \A k \in 1 .. Len(pending') : k + 1 \in 1 .. Len(pending) /\ pending'[k] = pending[k + 1]
  <2> HIDE DEF w
  <2>1. w = Head(pending)
    BY DEF w
  <2> QED
    BY <1>1, <2>1
<1>3. /\ w.file \in FlashSaves /\ Written(w) \in Contents
      /\ Absent \in Contents /\ ReadSaveFile(w.file) \in Contents
  BY <1>1, <1>2, WrittenType, ReadType DEF Writes
<1>4. files[w.file] # Torn
  <2>1. files[pending[1].file] = Torn => writing.open
    BY <1>2 DEF IInv, PendingIsWhole
  <2> QED
    BY <1>1, <1>2, <2>1
<1>5. \/ /\ files' = [files EXCEPT ![w.file] = Absent]
         /\ UNCHANGED writing
      \/ /\ files' = [files EXCEPT ![w.file] = Torn]
         /\ writing' = [file |-> w.file, was |-> ReadSaveFile(w.file),
                        content |-> Written(w), open |-> TRUE]
  BY DEF StartWrite
<1>6. UNCHANGED <<phase, checking, newf, isOwlSave, fileNum, late, saves,
                  crashes>>
  BY DEF StartWrite
<1> HIDE DEF w
<1>7. /\ files' \in [FlashSaves -> Contents \cup {Torn}]
      /\ writing' \in WritingType
  <2>1. CASE /\ files' = [files EXCEPT ![w.file] = Absent]
             /\ UNCHANGED writing
    BY <1>1, <1>3, <2>1 DEF IInv, TypeOK, WritingType
  <2>2. CASE /\ files' = [files EXCEPT ![w.file] = Torn]
             /\ writing' = [file |-> w.file, was |-> ReadSaveFile(w.file),
                            content |-> Written(w), open |-> TRUE]
    BY <1>1, <1>3, <2>2 DEF WritingType
  <2> QED
    BY <1>5, <2>1, <2>2
<1>8. TypeOK'
  BY <1>2, <1>6, <1>7 DEF IInv, TypeOK, Writes, WritingType
<1>9. \A i \in FlashSaves :
        files'[i] = Torn => \/ files[i] = Torn
                            \/ writing'.open /\ writing'.file = i
  BY <1>1, <1>3, <1>5, TornAssumption
<1>10. TornIsUnchecked'
  BY <1>1, <1>6, <1>9, FileOfSlot DEF IInv, TornIsUnchecked
<1>11. PendingIsWhole'
  <2> SUFFICES ASSUME NEW k \in 1 .. Len(pending'),
                      files'[pending'[k].file] = Torn
               PROVE  writing'.open /\ writing'.file = pending'[k].file
    BY DEF PendingIsWhole
  <2>1. pending'[k].file \in FlashSaves
    <3>1. pending'[k] \in Writes
      BY <1>2
    <3> QED
      BY <3>1 DEF Writes
  <2>2. files[pending'[k].file] # Torn
    <3>1. files[pending[k + 1].file] = Torn => writing.open
      BY <1>2 DEF IInv, PendingIsWhole
    <3> QED
      BY <1>1, <1>2, <3>1
  <2> QED
    BY <1>9, <2>1, <2>2
<1> QED
  BY <1>8, <1>10, <1>11 DEF IInv

LEMMA EndWriteKeepsInv == IInv /\ EndWrite => IInv'
<1> SUFFICES ASSUME IInv, EndWrite PROVE IInv'
  OBVIOUS
<1>1. /\ writing.file \in FlashSaves /\ writing.content \in Contents
      /\ files \in [FlashSaves -> Contents \cup {Torn}]
      /\ files' = [files EXCEPT ![writing.file] = writing.content]
      /\ pending \in Seq(Writes)
  BY DEF IInv, TypeOK, EndWrite, WritingType, Writes
<1>2. NotWriting \in WritingType
  BY <1>1, ReadType, SlotsAssumption DEF NotWriting, FlashSaves, WritingType
<1>3. TypeOK'
  BY <1>1, <1>2 DEF IInv, TypeOK, EndWrite, WritingType
<1>4. \A i \in FlashSaves :
        files'[i] = Torn => files[i] = Torn /\ i # writing.file
  BY <1>1, TornAssumption
<1>5. TornIsUnchecked'
  BY <1>4, FileOfSlot DEF IInv, TornIsUnchecked, EndWrite
<1>6. PendingIsWhole'
  <2>1. \A k \in 1 .. Len(pending) : pending[k].file \in FlashSaves
    <3>1. \A k \in 1 .. Len(pending) : pending[k] \in Writes
      BY <1>1
    <3> QED
      BY <3>1 DEF Writes
  <2> QED
    BY <1>4, <2>1 DEF IInv, PendingIsWhole, EndWrite
<1> QED
  BY <1>3, <1>5, <1>6 DEF IInv

(* The new-cycle iteration of func_801457CC reads, and so moves aside, both *)
(* files of its slot before it writes them.                                 *)
LEMMA VerifyNewCycleKeepsInv == IInv /\ VerifyNewCycle => IInv'
<1> SUFFICES ASSUME IInv, VerifyNewCycle PROVE IInv'
  OBVIOUS
<1> DEFINE s == checking
           n == ReadEither(s, "newCycleSave")
<1>1. /\ s \in Slots /\ phase = "verify" /\ ~writing.open
      /\ files' = MoveInvalid(s) /\ checking' = s + 1
      /\ UNCHANGED <<writing, phase, fileNum, late, saves, crashes>>
      /\ pending' \in {WriteSpecial(s, n), <<>>}
      /\ newf' \in {newf \cup {s}, newf \ {s}} /\ isOwlSave' = isOwlSave \ {s}
  BY DEF VerifyNewCycle, Idle
<1>2. files \in [FlashSaves -> Contents \cup {Torn}]
  BY DEF IInv, TypeOK
<1>3. Main(s) \in FlashSaves /\ Backup(s) \in FlashSaves
  BY <1>1, FileOfSlot
<1>4. n \in 0 .. MaxSaves
  BY <1>2, <1>3, ReadType DEF ReadEither, Parts
<1>5. pending' \in Seq(Writes)
  <2> HIDE DEF n
  <2>1. WriteSpecial(s, n) \in Seq(Writes) /\ <<>> \in Seq(Writes)
    BY <1>1, <1>4, WriteLists
  <2> QED
    BY <1>1, <2>1
<1>6. files' \in [FlashSaves -> Contents \cup {Torn}]
  BY <1>1, <1>2, ReadType DEF MoveInvalid
<1>7. checking' \in 0 .. 2 * NumSlots
  BY <1>1, SlotsAssumption DEF Slots
<1>8. newf' \subseteq Slots /\ isOwlSave' \subseteq newf'
  BY <1>1 DEF IInv, TypeOK
<1>9. TypeOK'
  BY <1>1, <1>5, <1>6, <1>7, <1>8 DEF IInv, TypeOK, Writes, WritingType
<1>10. \A i \in FlashSaves :
         files'[i] = Torn => files[i] = Torn /\ i \notin {Main(s), Backup(s)}
  BY <1>1, <1>2, ReadType, TornAssumption DEF MoveInvalid, ReadSaveFile
<1>11. TornIsUnchecked'
  <2> SUFFICES ASSUME NEW t \in Slots, NEW i \in {Main(t), Backup(t)},
                      files'[i] = Torn
               PROVE  checking' <= t
    BY <1>1 DEF TornIsUnchecked
  <2>1. files[i] = Torn /\ i \notin {Main(s), Backup(s)}
    BY <1>10, FileOfSlot
  <2>2. checking <= t
    BY <1>1, <2>1 DEF IInv, TornIsUnchecked
  <2>3. t # s
    BY <2>1
  <2> QED
    BY <1>1, <2>2, <2>3 DEF Slots
<1>12. PendingIsWhole'
  <2> SUFFICES ASSUME NEW k \in 1 .. Len(pending')
               PROVE  files'[pending'[k].file] # Torn
    BY DEF PendingIsWhole
  <2>1. pending' = WriteSpecial(s, n)
    BY <1>1
  <2>2. pending'[k].file \in {Main(s), Backup(s)}
    BY <2>1 DEF WriteSpecial, WriteNewCycle, Op
  <2> QED
    BY <1>3, <1>10, <2>2
<1> QED
  BY <1>9, <1>11, <1>12 DEF IInv

LEMMA VerifyOwlKeepsInv == IInv /\ VerifyOwl => IInv'
<1> SUFFICES ASSUME IInv, VerifyOwl PROVE IInv'
  OBVIOUS
<1> DEFINE s == checking - NumSlots
           n == IF s \in newf THEN ReadEither(s, "owlSave") ELSE 0
<1>1. /\ checking \in NumSlots .. 2 * NumSlots - 1 /\ Idle
      /\ files' = MoveInvalid(s) /\ checking' = checking + 1
      /\ UNCHANGED <<writing, phase, newf, fileNum, late, saves, crashes>>
      /\ pending' \in {WriteOwlTwice(s, n), <<>>}
      /\ isOwlSave' = IF n # 0 THEN isOwlSave \cup {s} ELSE isOwlSave \ {s}
  BY DEF VerifyOwl
<1>2. s \in Slots /\ checking' \in 0 .. 2 * NumSlots /\ checking >= NumSlots
  BY <1>1, SlotsAssumption DEF Slots
<1>3. files \in [FlashSaves -> Contents \cup {Torn}] /\ NoneTorn
  BY <1>1, <1>2, CheckedIsWhole DEF IInv, TypeOK
<1>4. Main(s) \in FlashSaves /\ Backup(s) \in FlashSaves
  BY <1>2, FileOfSlot
<1>5. n \in 0 .. MaxSaves
  BY <1>3, <1>4, ReadType, BoundsAssumption DEF ReadEither, Parts
<1>6. pending' \in Seq(Writes)
  <2> HIDE DEF s, n
  <2>1. WriteOwlTwice(s, n) \in Seq(Writes) /\ <<>> \in Seq(Writes)
    BY <1>2, <1>5, WriteLists
  <2> QED
    BY <1>1, <2>1
<1>7. files' = files
  BY <1>1, <1>3 DEF MoveInvalid, ReadSaveFile, NoneTorn
<1>8. isOwlSave' \subseteq newf
  <2>1. n # 0 => s \in newf
    OBVIOUS
  <2> QED
    BY <1>1, <2>1 DEF IInv, TypeOK
<1>9. TypeOK'
  BY <1>1, <1>2, <1>6, <1>7, <1>8 DEF IInv, TypeOK, Writes, WritingType
<1>10. TornIsUnchecked' /\ PendingIsWhole'
  BY <1>1, <1>3, <1>6, <1>7, HandlerStarts
<1> QED
  BY <1>9, <1>10 DEF IInv

LEMMA CrashKeepsInv == IInv /\ Crash => IInv'
<1> SUFFICES ASSUME IInv, Crash PROVE IInv'
  OBVIOUS
<1>1. /\ UNCHANGED <<files, fileNum, saves>>
      /\ pending' = <<>> /\ writing' = NotWriting /\ late' = 0
      /\ phase' = "verify" /\ checking' = 0 /\ newf' = {} /\ isOwlSave' = {}
      /\ crashes' = crashes + 1 /\ crashes < MaxCrashes
  BY DEF Crash, EnterFileSelect
<1>2. files \in [FlashSaves -> Contents \cup {Torn}]
  BY DEF IInv, TypeOK
<1>3. NotWriting \in WritingType
  BY <1>2, ReadType, SlotsAssumption DEF NotWriting, FlashSaves, WritingType
<1>4. pending' \in Seq(Writes)
  BY <1>1
<1>5. TypeOK'
  BY <1>1, <1>2, <1>3, <1>4, SlotsAssumption, BoundsAssumption
     DEF IInv, TypeOK, Writes, WritingType, Phases
<1>6. TornIsUnchecked' /\ PendingIsWhole'
  BY <1>1 DEF TornIsUnchecked, PendingIsWhole, Slots
<1> QED
  BY <1>5, <1>6 DEF IInv

-----------------------------------------------------------------------------
(* The handlers of the file select and of the game: they start while no    *)
(* file is torn, and list the writes they will do.                         *)
LEMMA Joined ==
  /\ <<>> \in Seq(Writes)
  /\ \A p, q \in Seq(Writes) : p \o q \in Seq(Writes)
OBVIOUS

(* What the handlers leave alone, and the writes they may list. *)
Handled ==
  /\ NoneTorn /\ UNCHANGED <<files, writing, crashes>>
  /\ pending' \in Seq(Writes)

LEMMA HandledKeepsInv ==
  ASSUME IInv, Handled,
         phase' \in Phases,
         checking' \in {0, checking},
         newf' \subseteq Slots, isOwlSave' \subseteq newf',
         fileNum' \in Slots, late' \in 0 .. MaxSaves, saves' \in 0 .. MaxSaves
  PROVE  IInv'
<1>1. checking' \in 0 .. 2 * NumSlots
  BY SlotsAssumption DEF IInv, TypeOK
<1>2. TypeOK'
  BY <1>1 DEF IInv, TypeOK, Handled, Writes
<1>3. TornIsUnchecked' /\ PendingIsWhole'
  BY HandlerStarts DEF Handled
<1> QED
  BY <1>2, <1>3 DEF IInv

LEMMA SaveMade == IInv /\ MakeSave => NextSave \in 0 .. MaxSaves
BY BoundsAssumption DEF IInv, TypeOK, MakeSave, NextSave

LEMMA InitSaveKeepsInv ==
  ASSUME IInv, NEW s \in Slots, InitSave(s)
  PROVE  IInv'
<1>1. pending' = WriteSpecial(s, NextSave) /\ NextSave \in 0 .. MaxSaves
  BY SaveMade DEF InitSave
<1>2. Handled
  BY <1>1, WriteLists, CheckedIsWhole DEF InitSave, Handled
<1> QED
  BY <1>1, <1>2, HandledKeepsInv DEF InitSave, MakeSave, IInv, TypeOK

LEMMA CopySaveKeepsInv ==
  ASSUME IInv, NEW s \in Slots, NEW t \in Slots, CopySave(s, t)
  PROVE  IInv'
<1> DEFINE owl == ReadEither(s, "owlSave")
           n == ReadData(Main(s), "newCycleSave")
<1>1. owl \in 0 .. MaxSaves /\ n \in 0 .. MaxSaves
  <2>1. Main(s) \in FlashSaves /\ Backup(s) \in FlashSaves
    BY FileOfSlot
  <2> QED
    BY <2>1, ReadType DEF ReadEither, Parts, IInv, TypeOK
<1>2. pending' = (IF s \in isOwlSave THEN WriteOwlTwice(t, owl) ELSE <<>>)
                 \o WriteSpecial(t, n)
  BY DEF CopySave
<1>3. pending' \in Seq(Writes)
  <2> HIDE DEF owl, n
  <2>1. WriteOwlTwice(t, owl) \in Seq(Writes) /\ WriteSpecial(t, n) \in Seq(Writes)
    BY <1>1, WriteLists
  <2>2. (IF s \in isOwlSave THEN WriteOwlTwice(t, owl) ELSE <<>>) \in Seq(Writes)
    BY <2>1
  <2> QED
    BY <1>2, <2>1, <2>2, Joined
<1>4. Handled
  BY <1>3, CheckedIsWhole DEF CopySave, Handled
<1> QED
  BY <1>4, HandledKeepsInv DEF CopySave, IInv, TypeOK

LEMMA EraseSaveKeepsInv ==
  ASSUME IInv, NEW s \in Slots, EraseSave(s)
  PROVE  IInv'
<1>1. pending' \in Seq(Writes)
  <2>1. WriteOwlTwice(s, 0) \in Seq(Writes) /\ WriteSpecial(s, 0) \in Seq(Writes)
    BY WriteLists, BoundsAssumption
  <2>2. (IF s \in isOwlSave THEN WriteOwlTwice(s, 0) ELSE <<>>) \in Seq(Writes)
    BY <2>1
  <2> QED
    BY <2>1, <2>2, Joined DEF EraseSave
<1>2. Handled
  BY <1>1, CheckedIsWhole DEF EraseSave, Handled
<1> QED
  BY <1>2, HandledKeepsInv DEF EraseSave, IInv, TypeOK

LEMMA OpenSaveKeepsInv ==
  ASSUME IInv, NEW s \in Slots, OpenSave(s)
  PROVE  IInv'
<1>1. pending' \in Seq(Writes)
  <2>1. WriteOwlTwice(s, 0) \in Seq(Writes) /\ <<>> \in Seq(Writes)
    BY WriteLists, BoundsAssumption
  <2> QED
    BY <2>1 DEF OpenSave
<1>2. Handled
  BY <1>1, CheckedIsWhole DEF OpenSave, Handled
<1> QED
  BY <1>2, HandledKeepsInv DEF OpenSave, IInv, TypeOK, Phases

LEMMA HandleFileDroppedKeepsInv == IInv /\ HandleFileDropped => IInv'
<1> SUFFICES ASSUME IInv, HandleFileDropped PROVE IInv'
  OBVIOUS
<1>1. NextSave \in 0 .. MaxSaves /\ saves' = NextSave
  BY SaveMade DEF HandleFileDropped, MakeSave
<1>2. PICK s \in Slots : pending' = <<Op(Main(s), "import", NextSave)>>
  BY DEF HandleFileDropped
<1>3. Handled
  <2>1. pending' \in Seq(Writes)
    BY <1>1, <1>2, WriteLists, FileOfSlot
  <2> QED
    BY <2>1, CheckedIsWhole DEF HandleFileDropped, Handled
<1>4. /\ phase' \in {"verify", phase} /\ checking' \in {0, checking}
      /\ \/ newf' = {} /\ isOwlSave' = {}
         \/ UNCHANGED <<newf, isOwlSave>>
  BY DEF HandleFileDropped, EnterFileSelect
<1> QED
  BY <1>1, <1>3, <1>4, HandledKeepsInv DEF HandleFileDropped, IInv, TypeOK, Phases

LEMMA ResetKeepsInv == IInv /\ Reset => IInv'
<1> SUFFICES ASSUME IInv, Reset PROVE IInv'
  OBVIOUS
<1>1. Handled
  BY CheckedIsWhole DEF Reset, Handled, IInv, TypeOK, Writes
<1> QED
  BY <1>1, HandledKeepsInv, BoundsAssumption
     DEF Reset, EnterFileSelect, IInv, TypeOK, Phases

LEMMA VerifyHeaderKeepsInv == IInv /\ VerifyHeader => IInv'
<1> SUFFICES ASSUME IInv, VerifyHeader PROVE IInv'
  OBVIOUS
<1>1. checking >= NumSlots
  BY SlotsAssumption DEF VerifyHeader
<1>2. Handled
  BY <1>1, CheckedIsWhole DEF VerifyHeader, Handled, IInv, TypeOK, Writes
<1> QED
  BY <1>2, HandledKeepsInv DEF VerifyHeader, IInv, TypeOK, Phases

LEMMA PlayKeepsInv ==
  ASSUME IInv,
         \/ EnterClockTown \/ EndOfCycle \/ NewDay \/ MoonCrash \/ MoonCrashSave
         \/ OwlSave \/ UpdateWriteToFlashOwlSave \/ AutoSave
         \/ DeleteFileOnDeath
  PROVE  IInv'
<1>1. /\ fileNum \in Slots /\ Main(fileNum) \in FlashSaves
      /\ Backup(fileNum) \in FlashSaves
  BY FileOfSlot DEF IInv, TypeOK
<1>2. /\ UNCHANGED <<files, writing, checking, newf, isOwlSave, fileNum, crashes>>
      /\ phase = "play" /\ Idle /\ phase' \in {"play", "ended"}
  BY DEF Playing, EnterClockTown, EndOfCycle, NewDay, MoonCrash, MoonCrashSave,
         OwlSave, UpdateWriteToFlashOwlSave, AutoSave, DeleteFileOnDeath
<1>3. NoneTorn
  BY <1>2, CheckedIsWhole
<1>4. /\ UNCHANGED saves \/ MakeSave
      /\ late' \in {0, late, NextSave} /\ (late' = NextSave => late' = late \/ late' = 0 \/ MakeSave)
  BY DEF EnterClockTown, EndOfCycle, NewDay, MoonCrash, MoonCrashSave, OwlSave,
         UpdateWriteToFlashOwlSave, AutoSave, DeleteFileOnDeath
<1>5. saves' \in 0 .. MaxSaves /\ late' \in 0 .. MaxSaves
  BY <1>4, SaveMade, BoundsAssumption DEF MakeSave, IInv, TypeOK
<1>6. pending' \in Seq(Writes)
  <2>1. /\ WriteOwlTwice(fileNum, 0) \in Seq(Writes)
        /\ MakeSave => /\ WriteSpecial(fileNum, NextSave) \in Seq(Writes)
                       /\ SaveCycle \in Seq(Writes)
    BY <1>1, WriteLists, SaveMade, Joined, BoundsAssumption DEF SaveCycle
  <2>2. ASSUME NEW n \in 0 .. MaxSaves
        PROVE  /\ <<WriteNewCycle(Main(fileNum), n)>> \in Seq(Writes)
               /\ <<WriteOwl(Main(fileNum), n)>> \in Seq(Writes)
               /\ <<WriteOwl(Backup(fileNum), n)>> \in Seq(Writes)
    BY <1>1, WriteLists DEF WriteNewCycle, WriteOwl, Parts
  <2>3. CASE EnterClockTown
    BY <2>1, <2>3 DEF EnterClockTown
  <2>4. CASE EndOfCycle
    BY <2>1, <2>4 DEF EndOfCycle
  <2>5. CASE NewDay
    <3>1. <<WriteNewCycle(Main(fileNum), NextSave)>> \in Seq(Writes)
      BY <2>2, <2>5, SaveMade DEF NewDay
    <3> QED
      BY <2>1, <2>5, <3>1, Joined DEF NewDay
  <2>6. CASE MoonCrash
    BY <2>1, <2>6 DEF MoonCrash
  <2>7. CASE MoonCrashSave
    BY <2>1, <2>7, Joined DEF MoonCrashSave
  <2>8. CASE OwlSave
    BY <2>2, <2>8, SaveMade DEF OwlSave
  <2>9. CASE UpdateWriteToFlashOwlSave
    BY <2>2, <2>9 DEF UpdateWriteToFlashOwlSave, IInv, TypeOK
  <2>10. CASE AutoSave
    BY <2>2, <2>10, SaveMade DEF AutoSave
  <2>11. CASE DeleteFileOnDeath
    <3>1. /\ Op(Main(fileNum), "delete", 0) \in Writes
          /\ Op(Backup(fileNum), "delete", 0) \in Writes
      BY <1>1, BoundsAssumption DEF Op, Writes
    <3> QED
      BY <2>11, <3>1 DEF DeleteFileOnDeath
  <2> QED
    BY <2>3, <2>4, <2>5, <2>6, <2>7, <2>8, <2>9, <2>10, <2>11
<1>7. Handled
  BY <1>2, <1>3, <1>6 DEF Handled
<1> QED
  BY <1>2, <1>5, <1>7, HandledKeepsInv DEF IInv, TypeOK, Phases

LEMMA NextInv == IInv /\ [Next]_vars => IInv'
<1> SUFFICES ASSUME IInv, [Next]_vars PROVE IInv'
  OBVIOUS
<1>1. CASE UNCHANGED vars
  BY <1>1 DEF vars, IInv, TypeOK, TornIsUnchecked, PendingIsWhole
<1>2. CASE StartWrite
  BY <1>2, StartWriteKeepsInv
<1>3. CASE EndWrite
  BY <1>3, EndWriteKeepsInv
<1>4. CASE VerifyNewCycle \/ VerifyOwl \/ VerifyHeader
  BY <1>4, VerifyNewCycleKeepsInv, VerifyOwlKeepsInv, VerifyHeaderKeepsInv
<1>5. CASE \E s \in Slots : InitSave(s) \/ EraseSave(s) \/ OpenSave(s)
  BY <1>5, InitSaveKeepsInv, EraseSaveKeepsInv, OpenSaveKeepsInv
<1>6. CASE \E s, t \in Slots : CopySave(s, t)
  BY <1>6, CopySaveKeepsInv
<1>7. CASE HandleFileDropped
  BY <1>7, HandleFileDroppedKeepsInv
<1>8. CASE \/ EnterClockTown \/ EndOfCycle \/ NewDay \/ MoonCrash \/ MoonCrashSave
           \/ OwlSave \/ UpdateWriteToFlashOwlSave \/ AutoSave
           \/ DeleteFileOnDeath
  BY <1>8, PlayKeepsInv
<1>9. CASE Reset
  BY <1>9, ResetKeepsInv
<1>10. CASE Crash
  BY <1>10, CrashKeepsInv
<1> QED
  BY <1>1, <1>2, <1>3, <1>4, <1>5, <1>6, <1>7, <1>8, <1>9, <1>10 DEF Next

-----------------------------------------------------------------------------
(* Type correctness of the save files and of the file select's state,      *)
(* SaveManager.cpp and z_sram_NES.c.                                       *)
THEOREM TypeCorrect == Spec => []TypeOK
<1>1. IInv => TypeOK
  BY DEF IInv
<1> QED
  BY InitInv, NextInv, <1>1, PTL DEF Spec

(* Whatever the process was killed in, no handler's write ever finds its   *)
(* file torn: SaveManager_SysFlashrom_WriteData can always preserve the    *)
(* other part of the file it writes.                                       *)
THEOREM SavesNeverMeetTorn == Spec => []NoWriteMeetsTorn
<1>1. IInv => NoWriteMeetsTorn
  <2> SUFFICES ASSUME IInv, pending # <<>>, ~writing.open
               PROVE  files[Head(pending).file] # Torn
    BY DEF NoWriteMeetsTorn
  <2>1. Head(pending) = pending[1] /\ 1 \in 1 .. Len(pending)
    BY DEF IInv, TypeOK
  <2> QED
    BY <2>1 DEF IInv, PendingIsWhole
<1> QED
  BY InitInv, NextInv, <1>1, PTL DEF Spec

-----------------------------------------------------------------------------
(* What the writes of a handler come to.  Leads(f, q, g): the writes q,    *)
(* done one after the other on the files f, leave the files g.             *)
FileStates == [FlashSaves -> Contents \cup {Torn}]

Whole(x) == IF x = Torn THEN Absent ELSE x

Put(j, w) ==
  IF w.part = "newCycleSave" THEN NewCycleWritten(j, w.save)
  ELSE IF w.part = "owlSave" THEN OwlWritten(j, w.save)
  ELSE NewCycleWritten(Absent, w.save)

Effect(f, w) == [f EXCEPT ![w.file] = Put(Whole(f[w.file]), w)]

Leads(f, q, g) ==
  \E t : /\ t[1] = f /\ t[Len(q) + 1] = g
         /\ \A k \in 1 .. Len(q) : t[k + 1] = Effect(t[k], q[k])

(* The files as they are, the one that is open taken as written. *)
Current ==
  IF writing.open THEN [files EXCEPT ![writing.file] = writing.content] ELSE files

LEMMA LeadsNowhere == \A f, g : Leads(f, <<>>, g) <=> g = f
<1> SUFFICES ASSUME NEW f, NEW g PROVE Leads(f, <<>>, g) <=> g = f
  OBVIOUS
<1> DEFINE q == <<>>
<1>1. Len(q) = 0
  OBVIOUS
<1> HIDE DEF q
<1>2. Leads(f, q, g) => g = f
  BY <1>1 DEF Leads
<1>3. g = f => Leads(f, q, g)
  <2> SUFFICES ASSUME g = f PROVE Leads(f, q, g)
    OBVIOUS
  <2> DEFINE t == [k \in {1} |-> f]
  <2>1. t[1] = f /\ t[Len(q) + 1] = g /\ 1 .. Len(q) = {}
    BY <1>1
  <2> HIDE DEF t
  <2> QED  BY <2>1 DEF Leads
<1> QED  BY <1>2, <1>3 DEF q

LEMMA LeadsOn ==
  ASSUME NEW q \in Seq(Writes), q # <<>>, NEW f, NEW g,
         Leads(Effect(f, Head(q)), Tail(q), g)
  PROVE  Leads(f, q, g)
<1> DEFINE n == Len(q)
<1>1. /\ n \in Nat \ {0} /\ Len(Tail(q)) = n - 1 /\ Head(q) = q[1]
      /\ \A i \in 1 .. n - 1 : Tail(q)[i] = q[i + 1]
  BY EmptySeq, HeadTailProperties, LenProperties
<1> HIDE DEF n
<1>2. PICK t : /\ t[1] = Effect(f, Head(q)) /\ t[Len(Tail(q)) + 1] = g
               /\ \A k \in 1 .. Len(Tail(q)) : t[k + 1] = Effect(t[k], Tail(q)[k])
  BY DEF Leads
<1> DEFINE u == [k \in 1 .. n + 1 |-> IF k = 1 THEN f ELSE t[k - 1]]
<1>3. u[1] = f /\ u[n + 1] = g
  BY <1>1, <1>2
<1>4. ASSUME NEW k \in 1 .. n PROVE u[k + 1] = Effect(u[k], q[k])
  <2>1. u[k + 1] = t[k] /\ (k # 1 => u[k] = t[k - 1])
    BY <1>1
  <2>2. CASE k = 1
    BY <1>1, <1>2, <1>3, <2>1, <2>2
  <2>3. CASE k # 1
    <3>1. k - 1 \in 1 .. n - 1 /\ (k - 1) + 1 = k
      BY <1>1, <2>3
    <3> QED  BY <1>1, <1>2, <2>1, <2>3, <3>1
  <2> QED  BY <2>2, <2>3
<1> HIDE DEF u
<1> QED  BY <1>3, <1>4 DEF Leads, n

LEMMA LeadsThrough ==
  ASSUME NEW p \in Seq(Writes), NEW q \in Seq(Writes), NEW f, NEW g,
         Leads(f, p \o q, g)
  PROVE  \E m : Leads(f, p, m) /\ Leads(m, q, g)
<1> DEFINE r == p \o q
<1>1. /\ Len(p) \in Nat /\ Len(q) \in Nat /\ Len(r) = Len(p) + Len(q)
      /\ \A i \in 1 .. Len(p) : r[i] = p[i]
      /\ \A i \in 1 .. Len(q) : r[Len(p) + i] = q[i]
  <2>1. \A i \in 1 .. Len(p) + Len(q) : r[i] = IF i <= Len(p) THEN p[i] ELSE q[i - Len(p)]
    BY ConcatProperties
  <2>2. Len(p) \in Nat /\ Len(q) \in Nat /\ Len(r) = Len(p) + Len(q)
    BY ConcatProperties, LenProperties
  <2> HIDE DEF r
  <2>3. ASSUME NEW i \in 1 .. Len(q) PROVE r[Len(p) + i] = q[i]
    <3>1. (Len(p) + i) - Len(p) = i /\ Len(p) + i \in 1 .. Len(p) + Len(q)
          /\ ~(Len(p) + i <= Len(p))
      BY <2>2
    <3> QED  BY <2>1, <3>1
  <2> QED  BY <2>1, <2>2, <2>3
<1> HIDE DEF r
<1>2. PICK t : /\ t[1] = f /\ t[Len(r) + 1] = g
               /\ \A k \in 1 .. Len(r) : t[k + 1] = Effect(t[k], r[k])
  BY DEF Leads, r
<1>3. Leads(f, p, t[Len(p) + 1])
  <2>1. \A k \in 1 .. Len(p) : t[k + 1] = Effect(t[k], p[k])
    BY <1>1, <1>2
  <2> QED  BY <1>2, <2>1 DEF Leads
<1>4. Leads(t[Len(p) + 1], q, g)
  <2> DEFINE u == [k \in 1 .. Len(q) + 1 |-> t[Len(p) + k]]
  <2>1. u[1] = t[Len(p) + 1] /\ u[Len(q) + 1] = g
    <3>1. Len(p) + (Len(q) + 1) = Len(r) + 1
      BY <1>1
    <3> QED  BY <1>1, <1>2, <3>1
  <2>2. ASSUME NEW k \in 1 .. Len(q) PROVE u[k + 1] = Effect(u[k], q[k])
    <3>1. Len(p) + k \in 1 .. Len(r) /\ Len(p) + (k + 1) = (Len(p) + k) + 1
      BY <1>1
    <3>2. u[k + 1] = t[(Len(p) + k) + 1] /\ u[k] = t[Len(p) + k]
      BY <1>1, <3>1
    <3> QED  BY <1>1, <1>2, <3>1, <3>2
  <2> HIDE DEF u
  <2> QED  BY <2>1, <2>2 DEF Leads
<1> QED  BY <1>3, <1>4

LEMMA LeadsTwice ==
  ASSUME NEW a, NEW b, NEW f, NEW g, Leads(f, <<a, b>>, g)
  PROVE  g = Effect(Effect(f, a), b)
<1> DEFINE q == <<a, b>>
<1>1. Len(q) = 2 /\ q[1] = a /\ q[2] = b
  OBVIOUS
<1> HIDE DEF q
<1>2. PICK t : /\ t[1] = f /\ t[Len(q) + 1] = g
               /\ \A k \in 1 .. Len(q) : t[k + 1] = Effect(t[k], q[k])
  BY DEF Leads, q
<1>3. t[1 + 1] = Effect(t[1], a) /\ t[2 + 1] = Effect(t[2], b)
  BY <1>1, <1>2
<1> QED  BY <1>1, <1>2, <1>3

(* The files of different slots are different files. *)
FilesOf(s) == {Main(s), Backup(s)}

LEMMA FilesApart ==
  /\ \A s \in Slots : Main(s) # Backup(s) /\ Main(s) \in FlashSaves /\ Backup(s) \in FlashSaves
  /\ \A s, t \in Slots : \A i \in FilesOf(s) : i \in FilesOf(t) => s = t
<1>1. \A s \in Slots : Main(s) # Backup(s) /\ Main(s) \in FlashSaves /\ Backup(s) \in FlashSaves
  BY FileOfSlot DEF Main, Backup, Slots
<1>2. ASSUME NEW s \in Slots, NEW t \in Slots, NEW i \in FilesOf(s), i \in FilesOf(t)
      PROVE  s = t
  <2>1. s \in Nat /\ t \in Nat
    BY DEF Slots
  <2> QED  BY <1>2, <2>1 DEF FilesOf, Main, Backup
<1> QED  BY <1>1, <1>2

LEMMA PartsEqual ==
  \A a, b \in Contents :
    a.newCycleSave = b.newCycleSave /\ a.owlSave = b.owlSave => a = b
BY DEF Contents, Parts

(* Two writes to the two files of a slot. *)
LEMMA SlotEffect ==
  ASSUME NEW s \in Slots, NEW f \in FileStates, NEW a \in Writes, NEW b \in Writes,
         {a.file, b.file} = FilesOf(s), a.file # b.file, NEW g, Leads(f, <<a, b>>, g)
  PROVE  /\ g[a.file] = Put(Whole(f[a.file]), a) /\ g[b.file] = Put(Whole(f[b.file]), b)
         /\ \A i \in FlashSaves \ FilesOf(s) : g[i] = f[i]
<1>1. g = Effect(Effect(f, a), b)
  BY LeadsTwice
<1>2. a.file \in FlashSaves /\ b.file \in FlashSaves
  BY DEF Writes
<1>3. a.file \in FilesOf(s) /\ b.file \in FilesOf(s)
  OBVIOUS
<1> QED  BY <1>1, <1>2, <1>3 DEF Effect, FileStates

LEMMA SpecialEffect ==
  ASSUME NEW s \in Slots, NEW n \in 0 .. MaxSaves, NEW f \in FileStates, NEW g,
         Leads(f, WriteSpecial(s, n), g)
  PROVE  /\ g[Main(s)] = NewCycleWritten(Whole(f[Main(s)]), n)
         /\ g[Backup(s)] = NewCycleWritten(Whole(f[Backup(s)]), n)
         /\ \A i \in FlashSaves \ FilesOf(s) : g[i] = f[i]
<1> DEFINE a == WriteNewCycle(Backup(s), n)
           b == WriteNewCycle(Main(s), n)
<1>1. /\ a \in Writes /\ b \in Writes /\ a.file = Backup(s) /\ b.file = Main(s)
      /\ \A j : Put(j, a) = NewCycleWritten(j, n) /\ Put(j, b) = NewCycleWritten(j, n)
  BY FilesApart DEF WriteNewCycle, Op, Writes, Parts, Put
<1>2. Leads(f, <<a, b>>, g)
  BY DEF WriteSpecial
<1> HIDE DEF a, b
<1>3. {a.file, b.file} = FilesOf(s) /\ a.file # b.file
  BY <1>1, FilesApart DEF FilesOf
<1> QED  BY <1>1, <1>2, <1>3, SlotEffect

LEMMA OwlEffect ==
  ASSUME NEW s \in Slots, NEW n \in 0 .. MaxSaves, NEW f \in FileStates, NEW g,
         Leads(f, WriteOwlTwice(s, n), g)
  PROVE  /\ g[Main(s)] = OwlWritten(Whole(f[Main(s)]), n)
         /\ g[Backup(s)] = OwlWritten(Whole(f[Backup(s)]), n)
         /\ \A i \in FlashSaves \ FilesOf(s) : g[i] = f[i]
<1> DEFINE a == WriteOwl(Main(s), n)
           b == WriteOwl(Backup(s), n)
<1>1. /\ a \in Writes /\ b \in Writes /\ a.file = Main(s) /\ b.file = Backup(s)
      /\ \A j : Put(j, a) = OwlWritten(j, n) /\ Put(j, b) = OwlWritten(j, n)
  BY FilesApart DEF WriteOwl, Op, Writes, Parts, Put
<1>2. Leads(f, <<a, b>>, g)
  BY DEF WriteOwlTwice
<1> HIDE DEF a, b
<1>3. {a.file, b.file} = FilesOf(s) /\ a.file # b.file
  BY <1>1, FilesApart DEF FilesOf
<1> QED  BY <1>1, <1>2, <1>3, SlotEffect

-----------------------------------------------------------------------------
(* What the file select lists.  A slot whose new-cycle save is checked has *)
(* the same one in both files, or nothing at all; one whose owl save is    *)
(* checked too has two equal files.                                        *)
NewListed(g, s) ==
  /\ g[Main(s)] # Torn /\ g[Backup(s)] # Torn
  /\ g[Main(s)].newCycleSave = g[Backup(s)].newCycleSave
  /\ s \in newf <=> g[Main(s)].newCycleSave # 0
  /\ s \notin newf => g[Main(s)] = Absent /\ g[Backup(s)] = Absent

FullyListed(g, s) ==
  /\ NewListed(g, s)
  /\ g[Main(s)] = g[Backup(s)]
  /\ s \in isOwlSave <=> g[Main(s)].owlSave # 0

Listed(g) ==
  \A s \in Slots :
    /\ phase = "verify" /\ s < checking => NewListed(g, s)
    /\ phase = "verify" /\ s + NumSlots < checking => FullyListed(g, s)
    /\ phase = "select" => FullyListed(g, s)

(* Once the writes under way are done, the files are as listed. *)
ListsWhatWillBe == \A g : Leads(Current, pending, g) => Listed(g)

SelectInv == IInv /\ ListsWhatWillBe

LEMMA ListedNow ==
  ASSUME SelectInv, Idle
  PROVE  Listed(files) /\ files \in FileStates
<1>1. Leads(Current, pending, files)
  BY LeadsNowhere DEF Idle, Current
<1> QED  BY <1>1 DEF SelectInv, ListsWhatWillBe, IInv, TypeOK, FileStates

(* A handler that ends where nothing is listed yet, or nothing any more. *)
LEMMA NothingListed ==
  (phase = "verify" /\ checking = 0) \/ phase \in {"play", "ended"} => \A g : Listed(g)
BY SlotsAssumption DEF Listed, Slots

LEMMA StartWriteLists == SelectInv /\ StartWrite => ListsWhatWillBe'
<1> SUFFICES ASSUME SelectInv, StartWrite, NEW g, Leads(Current', pending', g)
             PROVE  Listed(g)'
  BY DEF ListsWhatWillBe
<1> DEFINE w == Head(pending)
<1>1. /\ pending \in Seq(Writes) /\ pending # <<>> /\ ~writing.open
      /\ pending' = Tail(pending) /\ files \in FileStates
      /\ UNCHANGED <<phase, checking, newf, isOwlSave>>
  BY DEF SelectInv, IInv, TypeOK, StartWrite, Writes, FileStates
<1>2. w \in Writes /\ w = pending[1] /\ 1 \in 1 .. Len(pending)
  BY <1>1, HeadTailProperties, EmptySeq, LenProperties
<1>3. files[w.file] # Torn
  BY <1>1, <1>2 DEF SelectInv, IInv, PendingIsWhole
<1>4. Put(Whole(files[w.file]), w) = Written(w)
  BY <1>3 DEF Put, Whole, Written, ReadSaveFile
<1>5. w.file \in FlashSaves
  BY <1>2 DEF Writes
<1>6. Current' = Effect(Current, w)
  <2>1. Effect(Current, w) = [files EXCEPT ![w.file] = Written(w)]
    BY <1>1, <1>4 DEF Effect, Current
  <2>2. CASE Written(w) = Absent
    BY <1>1, <2>1, <2>2 DEF StartWrite, Current
  <2>3. CASE Written(w) # Absent
    <3>1. /\ files' = [files EXCEPT ![w.file] = Torn]
          /\ writing' = [file |-> w.file, was |-> ReadSaveFile(w.file),
                         content |-> Written(w), open |-> TRUE]
      BY <2>3 DEF StartWrite
    <3>2. Current' = [files' EXCEPT ![w.file] = Written(w)]
      BY <3>1 DEF Current
    <3> HIDE DEF w
    <3>3. [files' EXCEPT ![w.file] = Written(w)] = [files EXCEPT ![w.file] = Written(w)]
      BY <1>1, <1>5, <3>1 DEF FileStates
    <3> QED  BY <2>1, <3>2, <3>3
  <2> QED  BY <2>2, <2>3
<1>7. Leads(Current, pending, g)
  BY <1>1, <1>6, LeadsOn
<1> QED
  BY <1>1, <1>7 DEF SelectInv, ListsWhatWillBe, Listed, FullyListed, NewListed

LEMMA EndWriteLists == SelectInv /\ EndWrite => ListsWhatWillBe'
<1> SUFFICES ASSUME SelectInv, EndWrite PROVE ListsWhatWillBe'
  OBVIOUS
<1>1. Current' = Current /\ UNCHANGED <<pending, phase, checking, newf, isOwlSave>>
  BY DEF EndWrite, Current, NotWriting
<1> QED
  BY <1>1 DEF SelectInv, ListsWhatWillBe, Listed, FullyListed, NewListed

(* What is read of a slot that may be torn is what is in the files once    *)
(* the torn ones are aside.                                                *)
LEMMA ReadWhole ==
  ASSUME files \in FileStates, NEW s \in Slots, NEW h, h = MoveInvalid(s)
  PROVE  /\ h \in FileStates
         /\ \A i \in FilesOf(s) :
              h[i] = ReadSaveFile(i) /\ h[i] \in Contents /\ h[i] # Torn /\ Whole(h[i]) = h[i]
         /\ \A i \in FlashSaves \ FilesOf(s) : h[i] = files[i]
<1>1. \A i \in FlashSaves : ReadSaveFile(i) \in Contents
  BY ReadType DEF FileStates
<1>2. h \in FileStates
  BY <1>1 DEF MoveInvalid, FileStates
<1>3. \A i \in FlashSaves :
        h[i] = IF i \in FilesOf(s) THEN ReadSaveFile(i) ELSE files[i]
  BY DEF MoveInvalid, FilesOf
<1>4. FilesOf(s) \subseteq FlashSaves
  BY FilesApart DEF FilesOf
<1> QED  BY <1>1, <1>2, <1>3, <1>4, TornAssumption DEF Whole

LEMMA NewCycleWrittenIs ==
  ASSUME NEW j \in Contents, NEW n \in 0 .. MaxSaves
  PROVE  /\ NewCycleWritten(j, n) \in Contents /\ NewCycleWritten(j, n) # Torn
         /\ NewCycleWritten(j, n).newCycleSave = n
         /\ NewCycleWritten(j, n).owlSave = IF n = 0 THEN 0 ELSE j.owlSave
         /\ n = 0 => NewCycleWritten(j, n) = Absent
BY TornAssumption, BoundsAssumption DEF NewCycleWritten, Contents, Parts, Absent

LEMMA OwlWrittenIs ==
  ASSUME NEW j \in Contents, NEW n \in 0 .. MaxSaves
  PROVE  /\ OwlWritten(j, n) \in Contents /\ OwlWritten(j, n) # Torn
         /\ OwlWritten(j, n).newCycleSave = j.newCycleSave
         /\ OwlWritten(j, n).owlSave = n
         /\ n = 0 /\ j = Absent => OwlWritten(j, n) = Absent
BY TornAssumption, BoundsAssumption DEF OwlWritten, Contents, Parts, Absent

LEMMA VerifyNewCycleLists == SelectInv /\ VerifyNewCycle => ListsWhatWillBe'
<1> SUFFICES ASSUME SelectInv, VerifyNewCycle, NEW g, Leads(Current', pending', g)
             PROVE  Listed(g)'
  BY DEF ListsWhatWillBe
<1>0. PICK s \in Slots : s = checking
  BY DEF VerifyNewCycle
<1> DEFINE n == ReadEither(s, "newCycleSave")
<1>1. /\ s = checking /\ phase = "verify" /\ Idle /\ ~writing.open
      /\ files' = MoveInvalid(s) /\ checking' = s + 1 /\ phase' = "verify"
      /\ ~writing'.open /\ Current' = files'
      /\ newf' = IF n # 0 THEN newf \cup {s} ELSE newf \ {s}
      /\ pending' = IF NeedsRepair(s, "newCycleSave") THEN WriteSpecial(s, n) ELSE <<>>
  BY <1>0 DEF VerifyNewCycle, Idle, Current
<1>2. Listed(files) /\ files \in FileStates
  BY <1>1, ListedNow
<1>3. /\ files' \in FileStates
      /\ \A i \in FilesOf(s) : /\ files'[i] = ReadSaveFile(i) /\ files'[i] \in Contents
                               /\ files'[i] # Torn /\ Whole(files'[i]) = files'[i]
      /\ \A i \in FlashSaves \ FilesOf(s) : files'[i] = files[i]
  BY <1>1, <1>2, ReadWhole
<1>4. /\ Main(s) \in FilesOf(s) /\ Backup(s) \in FilesOf(s)
      /\ Main(s) \in FlashSaves /\ Backup(s) \in FlashSaves
  BY <1>1, FilesApart DEF FilesOf
<1>5. /\ ReadData(Main(s), "newCycleSave") = files'[Main(s)].newCycleSave
      /\ ReadData(Backup(s), "newCycleSave") = files'[Backup(s)].newCycleSave
      /\ ReadData(Main(s), "newCycleSave") \in 0 .. MaxSaves
      /\ ReadData(Backup(s), "newCycleSave") \in 0 .. MaxSaves
  BY <1>2, <1>3, <1>4, ReadType DEF ReadData, Parts, FileStates
<1>6. n \in 0 .. MaxSaves
  BY <1>5 DEF ReadEither
<1>7. ~NeedsRepair(s, "newCycleSave") =>
        /\ files'[Main(s)].newCycleSave = n /\ n # 0
        /\ files'[Backup(s)].newCycleSave = n
  BY <1>5 DEF NeedsRepair, ReadEither
<1>8. s \in newf' <=> n # 0
  BY <1>1
<1> HIDE DEF n
<1>9. /\ g[Main(s)].newCycleSave = n /\ g[Backup(s)].newCycleSave = n
      /\ g[Main(s)] # Torn /\ g[Backup(s)] # Torn
      /\ n = 0 => g[Main(s)] = Absent /\ g[Backup(s)] = Absent
      /\ \A i \in FlashSaves \ FilesOf(s) : g[i] = files[i]
  <2>1. CASE NeedsRepair(s, "newCycleSave")
    <3>1. Leads(files', WriteSpecial(s, n), g)
      BY <1>1, <2>1
    <3>2. /\ g[Main(s)] = NewCycleWritten(files'[Main(s)], n)
          /\ g[Backup(s)] = NewCycleWritten(files'[Backup(s)], n)
          /\ \A i \in FlashSaves \ FilesOf(s) : g[i] = files'[i]
      BY <1>1, <1>3, <1>4, <1>6, <3>1, SpecialEffect
    <3> QED  BY <1>3, <1>4, <1>6, <3>2, NewCycleWrittenIs
  <2>2. CASE ~NeedsRepair(s, "newCycleSave")
    <3>1. g = files'
      BY <1>1, <2>2, LeadsNowhere
    <3> QED  BY <1>3, <1>4, <1>7, <2>2, <3>1
  <2> QED  BY <2>1, <2>2
<1>10. NewListed(g, s)'
  BY <1>8, <1>9 DEF NewListed
<1>11. ASSUME NEW t \in Slots, t < s PROVE NewListed(g, t)'
  <2>1. NewListed(files, t)
    BY <1>1, <1>2, <1>11 DEF Listed
  <2>2. t # s /\ (t \in newf' <=> t \in newf)
    BY <1>1, <1>11 DEF Slots
  <2>3. g[Main(t)] = files[Main(t)] /\ g[Backup(t)] = files[Backup(t)]
    BY <1>1, <1>9, <2>2, FilesApart DEF FilesOf
  <2> QED  BY <2>1, <2>2, <2>3 DEF NewListed
<1>12. ASSUME NEW t \in Slots
       PROVE  (t < checking' => t < s \/ t = s) /\ ~(t + NumSlots < checking')
  BY <1>1, SlotsAssumption DEF Slots
<1> QED  BY <1>1, <1>10, <1>11, <1>12 DEF Listed

LEMMA VerifyOwlLists == SelectInv /\ VerifyOwl => ListsWhatWillBe'
<1> SUFFICES ASSUME SelectInv, VerifyOwl, NEW g, Leads(Current', pending', g)
             PROVE  Listed(g)'
  BY DEF ListsWhatWillBe
<1>15. PICK s \in Slots : s = checking - NumSlots
  BY SlotsAssumption DEF VerifyOwl, Slots
<1> DEFINE n == IF s \in newf THEN ReadEither(s, "owlSave") ELSE 0
<1>0. /\ checking \in NumSlots .. 2 * NumSlots - 1 /\ Idle /\ phase = "verify"
      /\ files' = MoveInvalid(s) /\ checking' = checking + 1
      /\ UNCHANGED <<writing, phase, newf>>
      /\ pending' = IF s \notin newf \/ NeedsRepair(s, "owlSave")
                    THEN WriteOwlTwice(s, n) ELSE <<>>
      /\ isOwlSave' = IF n # 0 THEN isOwlSave \cup {s} ELSE isOwlSave \ {s}
  BY <1>15 DEF VerifyOwl
<1>1. /\ s \in Slots /\ checking = s + NumSlots /\ Current' = files'
  BY <1>0, <1>15, SlotsAssumption DEF Slots, Idle, Current
<1>2. Listed(files) /\ files \in FileStates
  BY <1>0, ListedNow
<1>3. /\ files' \in FileStates
      /\ \A i \in FilesOf(s) : /\ files'[i] = ReadSaveFile(i) /\ files'[i] \in Contents
                               /\ files'[i] # Torn /\ Whole(files'[i]) = files'[i]
      /\ \A i \in FlashSaves \ FilesOf(s) : files'[i] = files[i]
  BY <1>0, <1>1, <1>2, ReadWhole
<1>4. /\ Main(s) \in FilesOf(s) /\ Backup(s) \in FilesOf(s)
      /\ Main(s) \in FlashSaves /\ Backup(s) \in FlashSaves
  BY <1>1, FilesApart DEF FilesOf
<1>5. /\ ReadData(Main(s), "owlSave") = files'[Main(s)].owlSave
      /\ ReadData(Backup(s), "owlSave") = files'[Backup(s)].owlSave
      /\ ReadData(Main(s), "owlSave") \in 0 .. MaxSaves
      /\ ReadData(Backup(s), "owlSave") \in 0 .. MaxSaves
  BY <1>2, <1>3, <1>4, ReadType DEF ReadData, Parts, FileStates
<1>6. n \in 0 .. MaxSaves
  BY <1>5, BoundsAssumption DEF ReadEither
<1>7. s \in newf /\ ~NeedsRepair(s, "owlSave") =>
        /\ files'[Main(s)].owlSave = n /\ n # 0
        /\ files'[Backup(s)].owlSave = n
  BY <1>5 DEF NeedsRepair, ReadEither
<1>8. (s \in isOwlSave' <=> n # 0) /\ (s \notin newf => n = 0)
  BY <1>0
<1>9. \A t \in Slots : NewListed(files, t)
  BY <1>0, <1>2, SlotsAssumption DEF Listed, Slots
<1>10. /\ files'[Main(s)] = files[Main(s)] /\ files'[Backup(s)] = files[Backup(s)]
       /\ files[Main(s)].newCycleSave = files[Backup(s)].newCycleSave
       /\ s \notin newf => files[Main(s)] = Absent /\ files[Backup(s)] = Absent
       /\ s \in newf <=> files[Main(s)].newCycleSave # 0
  BY <1>1, <1>3, <1>4, <1>9 DEF NewListed, ReadSaveFile
<1> HIDE DEF n
<1>11. /\ g[Main(s)].newCycleSave = files[Main(s)].newCycleSave
       /\ g[Main(s)] = g[Backup(s)] /\ g[Main(s)] # Torn
       /\ g[Main(s)].owlSave = n
       /\ s \notin newf => g[Main(s)] = Absent
       /\ \A i \in FlashSaves \ FilesOf(s) : g[i] = files[i]
  <2>1. CASE s \notin newf \/ NeedsRepair(s, "owlSave")
    <3>1. Leads(files', WriteOwlTwice(s, n), g)
      BY <1>0, <1>1, <2>1
    <3>2. /\ g[Main(s)] = OwlWritten(files'[Main(s)], n)
          /\ g[Backup(s)] = OwlWritten(files'[Backup(s)], n)
          /\ \A i \in FlashSaves \ FilesOf(s) : g[i] = files'[i]
      BY <1>1, <1>3, <1>4, <1>6, <3>1, OwlEffect
    <3>3. files'[Main(s)] \in Contents /\ files'[Backup(s)] \in Contents
      BY <1>3, <1>4
    <3>4. /\ g[Main(s)] \in Contents /\ g[Main(s)] # Torn
          /\ g[Main(s)].newCycleSave = files'[Main(s)].newCycleSave
          /\ g[Main(s)].owlSave = n
          /\ n = 0 /\ files'[Main(s)] = Absent => g[Main(s)] = Absent
          /\ g[Backup(s)] \in Contents
          /\ g[Backup(s)].newCycleSave = files'[Backup(s)].newCycleSave
          /\ g[Backup(s)].owlSave = n
      BY <1>6, <3>2, <3>3, OwlWrittenIs
    <3>5. g[Main(s)] = g[Backup(s)]
      BY <1>10, <3>4, PartsEqual
    <3> QED  BY <1>3, <1>8, <1>10, <3>2, <3>4, <3>5
  <2>2. CASE s \in newf /\ ~NeedsRepair(s, "owlSave")
    <3>1. g = files'
      BY <1>0, <1>1, <2>2, LeadsNowhere
    <3>2. files'[Main(s)] \in Contents /\ files'[Backup(s)] \in Contents
      BY <1>3, <1>4
    <3>3. files'[Main(s)] = files'[Backup(s)]
      BY <1>7, <1>10, <2>2, <3>2, PartsEqual
    <3> QED  BY <1>3, <1>4, <1>7, <1>10, <2>2, <3>1, <3>3
  <2> QED  BY <2>1, <2>2
<1>12. FullyListed(g, s)'
  BY <1>0, <1>8, <1>10, <1>11 DEF FullyListed, NewListed
<1>13. ASSUME NEW t \in Slots, t # s
       PROVE  /\ NewListed(g, t)'
              /\ t + NumSlots < checking => FullyListed(g, t)'
  <2>1. NewListed(files, t)
    BY <1>9
  <2>2. t + NumSlots < checking => FullyListed(files, t)
    BY <1>0, <1>2 DEF Listed
  <2>3. (t \in newf' <=> t \in newf) /\ (t \in isOwlSave' <=> t \in isOwlSave)
    BY <1>0, <1>13
  <2>4. g[Main(t)] = files[Main(t)] /\ g[Backup(t)] = files[Backup(t)]
    BY <1>1, <1>11, <1>13, FilesApart DEF FilesOf
  <2> QED  BY <2>1, <2>2, <2>3, <2>4 DEF NewListed, FullyListed
<1>14. ASSUME NEW t \in Slots
       PROVE  t + NumSlots < checking' => t = s \/ t + NumSlots < checking
  BY <1>0, <1>1, SlotsAssumption DEF Slots
<1> QED  BY <1>0, <1>12, <1>13, <1>14 DEF Listed, FullyListed

LEMMA InitSaveLists ==
  ASSUME SelectInv, NEW s \in Slots, InitSave(s)
  PROVE  ListsWhatWillBe'
<1> SUFFICES ASSUME NEW g, Leads(Current', pending', g)
             PROVE  Listed(g)'
  BY DEF ListsWhatWillBe
<1>1. /\ phase = "select" /\ phase' = "select" /\ Idle /\ s \notin newf
      /\ files' = files /\ Current' = files /\ newf' = newf \cup {s}
      /\ isOwlSave' = isOwlSave /\ pending' = WriteSpecial(s, NextSave)
  BY DEF InitSave, Idle, Current
<1>2. NextSave \in 0 .. MaxSaves /\ NextSave # 0
  BY SaveMade DEF InitSave, SelectInv, NextSave, IInv, TypeOK
<1>3. files \in FileStates /\ \A t \in Slots : FullyListed(files, t)
  BY <1>1, ListedNow DEF Listed
<1>4. /\ files[Main(s)] = Absent /\ files[Backup(s)] = Absent /\ s \notin isOwlSave
      /\ Absent \in Contents /\ Absent # Torn /\ Absent.owlSave = 0
  BY <1>1, <1>3, ReadType, TornAssumption
     DEF FullyListed, NewListed, FileStates, SelectInv, IInv, TypeOK, Absent
<1>5. /\ g[Main(s)] = NewCycleWritten(Absent, NextSave)
      /\ g[Backup(s)] = NewCycleWritten(Absent, NextSave)
      /\ \A i \in FlashSaves \ FilesOf(s) : g[i] = files[i]
  BY <1>1, <1>2, <1>3, <1>4, SpecialEffect DEF Whole
<1>6. FullyListed(g, s)'
  <2>1. /\ g[Main(s)].newCycleSave = NextSave /\ g[Main(s)].owlSave = 0
        /\ g[Main(s)] # Torn
    BY <1>2, <1>4, <1>5, NewCycleWrittenIs
  <2> QED  BY <1>1, <1>2, <1>4, <1>5, <2>1 DEF FullyListed, NewListed
<1>7. ASSUME NEW t \in Slots, t # s PROVE FullyListed(g, t)'
  <2>1. g[Main(t)] = files[Main(t)] /\ g[Backup(t)] = files[Backup(t)]
    BY <1>5, <1>7, FilesApart DEF FilesOf
  <2> QED  BY <1>1, <1>3, <1>7, <2>1 DEF FullyListed, NewListed
<1> QED  BY <1>1, <1>6, <1>7 DEF Listed

(* A handler of two lists of writes to the files of one slot. *)
LEMMA BothEffects ==
  ASSUME NEW t \in Slots, NEW owl \in 0 .. MaxSaves, NEW n \in 0 .. MaxSaves,
         NEW c \in BOOLEAN, NEW f \in FileStates, NEW g,
         f[Main(t)] # Torn, f[Backup(t)] # Torn,
         Leads(f, (IF c THEN WriteOwlTwice(t, owl) ELSE <<>>) \o WriteSpecial(t, n), g)
  PROVE  /\ g[Main(t)] = NewCycleWritten(IF c THEN OwlWritten(f[Main(t)], owl)
                                         ELSE f[Main(t)], n)
         /\ g[Backup(t)] = NewCycleWritten(IF c THEN OwlWritten(f[Backup(t)], owl)
                                           ELSE f[Backup(t)], n)
         /\ \A i \in FlashSaves \ FilesOf(t) : g[i] = f[i]
<1>1. WriteSpecial(t, n) \in Seq(Writes) /\ WriteOwlTwice(t, owl) \in Seq(Writes)
  BY WriteLists
<1>2. Main(t) \in FlashSaves /\ Backup(t) \in FlashSaves /\ Main(t) # Backup(t)
  BY FilesApart
<1>3. f[Main(t)] \in Contents /\ f[Backup(t)] \in Contents
  BY <1>2 DEF FileStates
<1>4. CASE c
  <2>1. PICK m : Leads(f, WriteOwlTwice(t, owl), m) /\ Leads(m, WriteSpecial(t, n), g)
    BY <1>1, <1>4, LeadsThrough
  <2>2. /\ m[Main(t)] = OwlWritten(f[Main(t)], owl)
        /\ m[Backup(t)] = OwlWritten(f[Backup(t)], owl)
        /\ \A i \in FlashSaves \ FilesOf(t) : m[i] = f[i]
    BY <2>1, OwlEffect DEF Whole
  <2>3. /\ m[Main(t)] \in Contents /\ m[Backup(t)] \in Contents
        /\ m[Main(t)] # Torn /\ m[Backup(t)] # Torn
    BY <1>3, <2>2, OwlWrittenIs
  <2>4. m \in FileStates
    <3>1. WriteOwlTwice(t, owl) = <<WriteOwl(Main(t), owl), WriteOwl(Backup(t), owl)>>
      BY DEF WriteOwlTwice
    <3>2. m = Effect(Effect(f, WriteOwl(Main(t), owl)), WriteOwl(Backup(t), owl))
      BY <2>1, <3>1, LeadsTwice
    <3>3. DOMAIN m = FlashSaves /\ m = [i \in FlashSaves |-> m[i]]
      BY <3>2 DEF Effect, FileStates
    <3>4. \A i \in FlashSaves : m[i] \in Contents \cup {Torn}
      BY <2>2, <2>3 DEF FilesOf, FileStates
    <3> QED  BY <3>3, <3>4 DEF FileStates
  <2> QED  BY <1>4, <2>1, <2>2, <2>3, <2>4, SpecialEffect DEF Whole
<1>5. CASE ~c
  <2>1. Leads(f, WriteSpecial(t, n), g)
    <3>1. <<>> \o WriteSpecial(t, n) = WriteSpecial(t, n)
      BY <1>1, ConcatEmptySeq
    <3> QED  BY <1>5, <3>1
  <2> QED  BY <1>5, <2>1, SpecialEffect DEF Whole
<1> QED  BY <1>4, <1>5

LEMMA CopySaveLists ==
  ASSUME SelectInv, NEW s \in Slots, NEW t \in Slots, CopySave(s, t)
  PROVE  ListsWhatWillBe'
<1> SUFFICES ASSUME NEW g, Leads(Current', pending', g)
             PROVE  Listed(g)'
  BY DEF ListsWhatWillBe
<1> DEFINE owl == ReadEither(s, "owlSave")
           n == ReadData(Main(s), "newCycleSave")
           c == s \in isOwlSave
<1>1. /\ phase = "select" /\ phase' = "select" /\ Idle /\ s \in newf /\ t \notin newf
      /\ files' = files /\ Current' = files /\ newf' = newf \cup {t}
      /\ isOwlSave' = IF c THEN isOwlSave \cup {t} ELSE isOwlSave
      /\ pending' = (IF c THEN WriteOwlTwice(t, owl) ELSE <<>>) \o WriteSpecial(t, n)
  BY DEF CopySave, Idle, Current
<1>2. files \in FileStates /\ \A u \in Slots : FullyListed(files, u)
  BY <1>1, ListedNow DEF Listed
<1>3. /\ files[Main(t)] = Absent /\ files[Backup(t)] = Absent /\ t \notin isOwlSave
      /\ Absent \in Contents /\ Absent # Torn /\ Absent.owlSave = 0
  BY <1>1, <1>2, ReadType, TornAssumption
     DEF FullyListed, NewListed, FileStates, SelectInv, IInv, TypeOK, Absent
<1>4. owl \in 0 .. MaxSaves /\ n \in 0 .. MaxSaves
  <2>1. Main(s) \in FlashSaves /\ Backup(s) \in FlashSaves
    BY FilesApart
  <2> QED  BY <1>2, <2>1, ReadType DEF ReadEither, Parts, FileStates
<1>5. n # 0 /\ (c => owl # 0)
  <2>1. /\ files[Main(s)] # Torn /\ files[Main(s)].newCycleSave # 0
        /\ c => files[Main(s)].owlSave # 0
    BY <1>1, <1>2 DEF FullyListed, NewListed
  <2> QED  BY <2>1 DEF ReadEither, ReadData, ReadSaveFile
<1>6. c \in BOOLEAN
  OBVIOUS
<1> HIDE DEF owl, n, c
<1> DEFINE j == IF c THEN OwlWritten(Absent, owl) ELSE Absent
<1>7. /\ g[Main(t)] = NewCycleWritten(j, n) /\ g[Backup(t)] = NewCycleWritten(j, n)
      /\ \A i \in FlashSaves \ FilesOf(t) : g[i] = files[i]
  <2>1. Leads(files, (IF c THEN WriteOwlTwice(t, owl) ELSE <<>>) \o WriteSpecial(t, n), g)
    BY <1>1
  <2> QED  BY <1>2, <1>3, <1>4, <1>6, <2>1, BothEffects
<1>8. j \in Contents /\ (j.owlSave # 0 <=> c)
  BY <1>3, <1>4, <1>5, <1>6, OwlWrittenIs
<1> HIDE DEF j
<1>9. FullyListed(g, t)'
  <2>1. /\ g[Main(t)].newCycleSave = n /\ g[Main(t)].owlSave = j.owlSave
        /\ g[Main(t)] # Torn
    BY <1>4, <1>5, <1>7, <1>8, NewCycleWrittenIs
  <2>2. t \in newf' /\ (t \in isOwlSave' <=> c)
    BY <1>1, <1>3
  <2> QED  BY <1>5, <1>7, <1>8, <2>1, <2>2 DEF FullyListed, NewListed
<1>10. ASSUME NEW u \in Slots, u # t PROVE FullyListed(g, u)'
  <2>1. g[Main(u)] = files[Main(u)] /\ g[Backup(u)] = files[Backup(u)]
    BY <1>7, <1>10, FilesApart DEF FilesOf
  <2>2. (u \in newf' <=> u \in newf) /\ (u \in isOwlSave' <=> u \in isOwlSave)
    BY <1>1, <1>10
  <2> QED  BY <1>2, <2>1, <2>2 DEF FullyListed, NewListed
<1> QED  BY <1>1, <1>9, <1>10 DEF Listed

LEMMA EraseSaveLists ==
  ASSUME SelectInv, NEW s \in Slots, EraseSave(s)
  PROVE  ListsWhatWillBe'
<1> SUFFICES ASSUME NEW g, Leads(Current', pending', g)
             PROVE  Listed(g)'
  BY DEF ListsWhatWillBe
<1> DEFINE c == s \in isOwlSave
<1>1. /\ phase = "select" /\ phase' = "select" /\ Idle /\ s \in newf
      /\ files' = files /\ Current' = files /\ newf' = newf \ {s}
      /\ isOwlSave' = isOwlSave \ {s}
      /\ pending' = (IF c THEN WriteOwlTwice(s, 0) ELSE <<>>) \o WriteSpecial(s, 0)
  BY DEF EraseSave, Idle, Current
<1>2. files \in FileStates /\ \A u \in Slots : FullyListed(files, u)
  BY <1>1, ListedNow DEF Listed
<1>3. files[Main(s)] # Torn /\ files[Backup(s)] # Torn /\ 0 \in 0 .. MaxSaves
  BY <1>2, BoundsAssumption DEF FullyListed, NewListed
<1>4. c \in BOOLEAN
  OBVIOUS
<1> HIDE DEF c
<1>5. /\ g[Main(s)] = Absent /\ g[Backup(s)] = Absent
      /\ \A i \in FlashSaves \ FilesOf(s) : g[i] = files[i]
  <2>1. Leads(files, (IF c THEN WriteOwlTwice(s, 0) ELSE <<>>) \o WriteSpecial(s, 0), g)
    BY <1>1
  <2>2. \A j : NewCycleWritten(j, 0) = Absent
    BY DEF NewCycleWritten
  <2> QED  BY <1>2, <1>3, <1>4, <2>1, <2>2, BothEffects
<1>6. FullyListed(g, s)'
  <2>1. Absent # Torn /\ Absent.newCycleSave = 0 /\ Absent.owlSave = 0
    BY <1>2, ReadType, TornAssumption DEF Absent, FileStates
  <2> QED  BY <1>1, <1>5, <2>1 DEF FullyListed, NewListed
<1>7. ASSUME NEW u \in Slots, u # s PROVE FullyListed(g, u)'
  <2>1. g[Main(u)] = files[Main(u)] /\ g[Backup(u)] = files[Backup(u)]
    BY <1>5, <1>7, FilesApart DEF FilesOf
  <2>2. (u \in newf' <=> u \in newf) /\ (u \in isOwlSave' <=> u \in isOwlSave)
    BY <1>1, <1>7
  <2> QED  BY <1>2, <2>1, <2>2 DEF FullyListed, NewListed
<1> QED  BY <1>1, <1>6, <1>7 DEF Listed

(* The writes of the files themselves, the header and the handlers that    *)
(* leave the file select.                                                  *)
LEMMA OtherLists ==
  ASSUME SelectInv,
         \/ VerifyHeader \/ HandleFileDropped \/ Reset \/ Crash
         \/ \E s \in Slots : OpenSave(s)
         \/ EnterClockTown \/ EndOfCycle \/ NewDay \/ MoonCrash \/ MoonCrashSave
         \/ OwlSave \/ UpdateWriteToFlashOwlSave \/ AutoSave \/ DeleteFileOnDeath
  PROVE  ListsWhatWillBe'
<1>1. ASSUME (phase = "verify" /\ checking = 0)' \/ phase' \in {"play", "ended"}
      PROVE  ListsWhatWillBe'
  <2>1. \A g : Listed(g)'
    BY <1>1, SlotsAssumption DEF Listed, Slots
  <2> QED  BY <2>1 DEF ListsWhatWillBe
<1>2. CASE VerifyHeader
  <2>1. /\ phase = "verify" /\ phase' = "select" /\ checking = 2 * NumSlots /\ Idle
        /\ UNCHANGED <<files, writing, pending, newf, isOwlSave>>
    BY <1>2 DEF VerifyHeader
  <2>2. Listed(files)
    BY <2>1, ListedNow
  <2>3. \A s \in Slots : s + NumSlots < checking
    BY <2>1, SlotsAssumption DEF Slots
  <2>4. \A s \in Slots : FullyListed(files, s)'
    BY <2>1, <2>2, <2>3 DEF Listed, FullyListed, NewListed
  <2>5. Current' = files /\ pending' = <<>>
    BY <2>1 DEF Idle, Current
  <2>6. ASSUME NEW g, Leads(Current', pending', g) PROVE Listed(g)'
    <3>1. g = files
      BY <2>5, <2>6, LeadsNowhere
    <3>2. \A s \in Slots : FullyListed(g, s)'
      BY <2>1, <2>2, <2>3, <3>1 DEF Listed, FullyListed, NewListed
    <3> QED  BY <2>1, <3>2 DEF Listed
  <2> QED  BY <2>6 DEF ListsWhatWillBe
<1>3. CASE HandleFileDropped
  BY <1>1, <1>3 DEF HandleFileDropped, EnterFileSelect, SelectInv, IInv, TypeOK, Phases
<1>4. CASE Reset \/ Crash
  BY <1>1, <1>4 DEF Reset, Crash, EnterFileSelect
<1>5. CASE \E s \in Slots : OpenSave(s)
  BY <1>1, <1>5 DEF OpenSave
<1>6. CASE \/ EnterClockTown \/ EndOfCycle \/ NewDay \/ MoonCrash \/ MoonCrashSave
           \/ OwlSave \/ UpdateWriteToFlashOwlSave \/ AutoSave \/ DeleteFileOnDeath
  BY <1>1, <1>6
     DEF Playing, EnterClockTown, EndOfCycle, NewDay, MoonCrash, MoonCrashSave,
         OwlSave, UpdateWriteToFlashOwlSave, AutoSave, DeleteFileOnDeath
<1> QED  BY <1>2, <1>3, <1>4, <1>5, <1>6

LEMMA NextSelectInv == SelectInv /\ [Next]_vars => SelectInv'
<1> SUFFICES ASSUME SelectInv, [Next]_vars PROVE ListsWhatWillBe'
  BY NextInv DEF SelectInv
<1>1. CASE StartWrite \/ EndWrite \/ VerifyNewCycle \/ VerifyOwl
  BY <1>1, StartWriteLists, EndWriteLists, VerifyNewCycleLists, VerifyOwlLists
<1>2. CASE \E s \in Slots : InitSave(s) \/ EraseSave(s)
  BY <1>2, InitSaveLists, EraseSaveLists
<1>3. CASE \E s, t \in Slots : CopySave(s, t)
  BY <1>3, CopySaveLists
<1>4. CASE \/ VerifyHeader \/ HandleFileDropped \/ Reset \/ Crash
           \/ \E s \in Slots : OpenSave(s)
           \/ EnterClockTown \/ EndOfCycle \/ NewDay \/ MoonCrash \/ MoonCrashSave
           \/ OwlSave \/ UpdateWriteToFlashOwlSave \/ AutoSave \/ DeleteFileOnDeath
  BY <1>4, OtherLists
<1>5. CASE UNCHANGED vars
  BY <1>5 DEF vars, SelectInv, ListsWhatWillBe, Current, Listed, FullyListed, NewListed
<1> QED  BY <1>1, <1>2, <1>3, <1>4, <1>5 DEF Next

LEMMA InitSelectInv == Init => SelectInv
<1> SUFFICES ASSUME Init PROVE ListsWhatWillBe
  BY InitInv DEF SelectInv
<1> QED  BY NothingListed DEF Init, ListsWhatWillBe

(* SelectInv holds: what the file select lists is what the slot's files    *)
(* will hold when the writes to come are done (z_sram_NES.c,               *)
(* func_801457CC).                                                         *)
THEOREM SelectInvariant == Spec => []SelectInv
BY InitSelectInv, NextSelectInv, PTL DEF Spec

(* While the file select is shown and no handler runs, each slot has the   *)
(* same saves in its two files and they are the ones it lists, whatever    *)
(* crashes, imports and half-done handlers came before                     *)
(* (z_sram_NES.c, func_801457CC).                                          *)
THEOREM SelectAlwaysShowsFiles == Spec => []SelectShowsFiles
<1>1. SelectInv => SelectShowsFiles
  <2> SUFFICES ASSUME SelectInv, phase = "select", Idle, NEW s \in Slots
               PROVE  /\ files[Main(s)] = files[Backup(s)]
                      /\ s \in newf <=> files[Main(s)].newCycleSave # 0
                      /\ s \in isOwlSave <=> files[Main(s)].owlSave # 0
    BY DEF SelectShowsFiles
  <2>1. FullyListed(files, s)
    BY ListedNow DEF Listed
  <2> QED  BY <2>1 DEF FullyListed, NewListed
<1> QED  BY <1>1, SelectInvariant, PTL

-----------------------------------------------------------------------------
(* The saves of the slots that are not played.  A file that is open has    *)
(* been truncated; while a game runs or is over, a slot that is not played *)
(* has no backup without a main file (the file select made them equal, and *)
(* only an import writes here, into a slot that has neither); and every    *)
(* write, under way or still to do, is one of the played slot's files or   *)
(* such an import.                                                         *)
OpenIsTorn == writing.open => files[writing.file] = Torn

InPlay == phase \in {"play", "ended"}

ImportsAreWhole ==
  InPlay => \A s \in Slots \ {fileNum} :
              files[Main(s)] = Absent => files[Backup(s)] = Absent

WritesTo(s) == {w \in Writes : w.file \in FilesOf(s)}

ImportPending ==
  \E s \in Slots, n \in 1 .. MaxSaves :
    /\ pending = <<Op(Main(s), "import", n)>> /\ ~writing.open
    /\ files[Main(s)] = Absent /\ files[Backup(s)] = Absent

WritesOfThePlayed ==
  InPlay => pending \in Seq(WritesTo(fileNum)) \/ ImportPending

OpenOfThePlayed ==
  InPlay /\ writing.open =>
    \/ writing.file \in FilesOf(fileNum)
    \/ /\ writing.was = Absent /\ pending = <<>>
       /\ \E s \in Slots : writing.file = Main(s) /\ files[Backup(s)] = Absent

PlayInv ==
  SelectInv /\ OpenIsTorn /\ ImportsAreWhole /\ WritesOfThePlayed /\ OpenOfThePlayed

(* What is recovered of a slot depends on its two files, and on the file   *)
(* that is open only when that is one of them.                             *)
LEMMA SlotKept ==
  ASSUME NEW s \in Slots,
         ~(writing.open /\ writing.file \in FilesOf(s)),
         ~(writing.open /\ writing.file \in FilesOf(s))',
         \A i \in FilesOf(s) : files'[i] = files[i]
  PROVE  Recovered(s)' = Recovered(s)
<1>1. \A i \in FilesOf(s) : Settled(i) = ReadSaveFile(i)
  BY DEF Settled, SoleCopyOpen
<1>2. \A i \in FilesOf(s) : Settled(i)' = ReadSaveFile(i)'
  BY DEF Settled, SoleCopyOpen
<1>3. \A i \in FilesOf(s) : ReadSaveFile(i)' = ReadSaveFile(i)
  BY DEF ReadSaveFile
<1>4. Settled(Main(s))' = Settled(Main(s)) /\ Settled(Backup(s))' = Settled(Backup(s))
  BY <1>1, <1>2, <1>3 DEF FilesOf, Main, Backup
<1> QED  BY <1>4 DEF Recovered, RecoveredPart

(* A slot whose files can both not be read has no save to lose, not even   *)
(* while a write into an empty file is under way.                          *)
LEMMA NothingToLose ==
  ASSUME NEW s \in Slots, ReadSaveFile(Main(s)) = Absent, ReadSaveFile(Backup(s)) = Absent,
         writing.open /\ writing.file \in FilesOf(s) => writing.was = Absent
  PROVE  Recovered(s) = Absent
<1>1. ~(SoleCopyOpen /\ writing.file \in FilesOf(s))
  BY DEF SoleCopyOpen, Absent, Parts
<1>2. Settled(Main(s)) = Absent /\ Settled(Backup(s)) = Absent
  BY <1>1 DEF Settled, FilesOf
<1> QED  BY <1>2 DEF Recovered, RecoveredPart, Absent, Parts

(* What a step of the handler under way writes. *)
LEMMA StartWriteFiles ==
  ASSUME IInv, StartWrite
  PROVE  LET w == Head(pending)
         IN  /\ pending \in Seq(Writes) /\ pending # <<>> /\ w \in Writes
             /\ ~writing.open /\ pending' = Tail(pending)
             /\ \A i \in FlashSaves : i # w.file => files'[i] = files[i]
             /\ files'[w.file] \in {Absent, Torn}
             /\ files'[w.file] = Absent => Written(w) = Absent
             /\ writing'.open => /\ writing'.file = w.file /\ files'[w.file] = Torn
                                 /\ writing'.was = ReadSaveFile(w.file)
             /\ phase' = phase /\ fileNum' = fileNum
<1> DEFINE w == Head(pending)
<1>1. pending \in Seq(Writes) /\ pending # <<>> /\ ~writing.open /\ pending' = Tail(pending)
  BY DEF IInv, TypeOK, StartWrite, Writes
<1>2. w \in Writes
  BY <1>1, HeadTailProperties
<1>3. w.file \in FlashSaves /\ DOMAIN files = FlashSaves
  BY <1>2 DEF Writes, IInv, TypeOK
<1>4. Torn # Absent
  BY TornAssumption, BoundsAssumption DEF Absent, Contents, Parts
<1>5. \/ /\ files' = [files EXCEPT ![w.file] = Absent] /\ UNCHANGED writing
         /\ Written(w) = Absent
      \/ /\ files' = [files EXCEPT ![w.file] = Torn]
         /\ writing' = [file |-> w.file, was |-> ReadSaveFile(w.file),
                        content |-> Written(w), open |-> TRUE]
  BY DEF StartWrite
<1>6. phase' = phase /\ fileNum' = fileNum
  BY DEF StartWrite
<1> HIDE DEF w
<1>7. CASE /\ files' = [files EXCEPT ![w.file] = Absent] /\ UNCHANGED writing
           /\ Written(w) = Absent
  <2>1. /\ \A i \in FlashSaves : i # w.file => files'[i] = files[i]
        /\ files'[w.file] = Absent /\ ~writing'.open
    BY <1>1, <1>3, <1>7
  <2> QED  BY <1>1, <1>2, <1>6, <1>7, <2>1 DEF w
<1>8. CASE /\ files' = [files EXCEPT ![w.file] = Torn]
           /\ writing' = [file |-> w.file, was |-> ReadSaveFile(w.file),
                          content |-> Written(w), open |-> TRUE]
  <2>1. /\ \A i \in FlashSaves : i # w.file => files'[i] = files[i]
        /\ files'[w.file] = Torn
        /\ writing'.file = w.file /\ writing'.was = ReadSaveFile(w.file)
    BY <1>3, <1>8
  <2> QED  BY <1>1, <1>2, <1>4, <1>6, <2>1 DEF w
<1> QED  BY <1>5, <1>7, <1>8

(* The writes of the played slot's handlers. *)
LEMMA PlayedLists ==
  ASSUME NEW s \in Slots, NEW n \in 0 .. MaxSaves
  PROVE  /\ WriteSpecial(s, n) \in Seq(WritesTo(s)) /\ WriteOwlTwice(s, n) \in Seq(WritesTo(s))
         /\ \A i \in FilesOf(s), part \in Parts \cup {"import", "delete"} :
              Op(i, part, n) \in WritesTo(s)
<1>1. \A i \in FilesOf(s), part \in Parts \cup {"import", "delete"} :
        Op(i, part, n) \in WritesTo(s)
  BY FileOfSlot DEF FilesOf, WritesTo, Op, Writes
<1>2. /\ WriteNewCycle(Main(s), n) \in WritesTo(s) /\ WriteNewCycle(Backup(s), n) \in WritesTo(s)
      /\ WriteOwl(Main(s), n) \in WritesTo(s) /\ WriteOwl(Backup(s), n) \in WritesTo(s)
  BY <1>1 DEF WriteNewCycle, WriteOwl, Parts, FilesOf
<1>3. WriteSpecial(s, n) \in Seq(WritesTo(s)) /\ WriteOwlTwice(s, n) \in Seq(WritesTo(s))
  BY <1>2 DEF WriteSpecial, WriteOwlTwice
<1> QED  BY <1>1, <1>3

LEMMA StartWriteKeepsPlay == PlayInv /\ StartWrite => PlayInv'
<1> SUFFICES ASSUME PlayInv, StartWrite PROVE PlayInv'
  OBVIOUS
<1>1. SelectInv'
  BY NextSelectInv DEF PlayInv, Next
<1> DEFINE w == Head(pending)
<1>2. /\ pending \in Seq(Writes) /\ pending # <<>> /\ w \in Writes
      /\ ~writing.open /\ pending' = Tail(pending)
      /\ \A i \in FlashSaves : i # w.file => files'[i] = files[i]
      /\ files'[w.file] \in {Absent, Torn}
      /\ files'[w.file] = Absent => Written(w) = Absent
      /\ writing'.open => /\ writing'.file = w.file /\ files'[w.file] = Torn
                          /\ writing'.was = ReadSaveFile(w.file)
      /\ phase' = phase /\ fileNum' = fileNum
  BY StartWriteFiles DEF PlayInv, SelectInv
<1>3. fileNum \in Slots
  BY DEF PlayInv, SelectInv, IInv, TypeOK
<1>4. Torn # Absent
  BY TornAssumption, BoundsAssumption DEF Absent, Contents, Parts
<1>5. OpenIsTorn'
  BY <1>2 DEF OpenIsTorn
<1>6. CASE ~InPlay
  BY <1>1, <1>2, <1>5, <1>6
     DEF PlayInv, InPlay, ImportsAreWhole, WritesOfThePlayed, OpenOfThePlayed
<1>7. CASE InPlay /\ pending \in Seq(WritesTo(fileNum))
  <2>1. w \in WritesTo(fileNum) /\ pending' \in Seq(WritesTo(fileNum))
    BY <1>2, <1>7, HeadTailProperties
  <2>2. w.file \in FilesOf(fileNum)
    BY <2>1 DEF WritesTo
  <2>3. ASSUME NEW s \in Slots \ {fileNum}
        PROVE  files'[Main(s)] = files[Main(s)] /\ files'[Backup(s)] = files[Backup(s)]
    BY <1>2, <1>3, <2>2, FilesApart DEF FilesOf
  <2>4. ImportsAreWhole'
    BY <1>2, <1>7, <2>3 DEF PlayInv, ImportsAreWhole, InPlay, Main, Backup
  <2>5. WritesOfThePlayed' /\ OpenOfThePlayed'
    BY <1>2, <2>1, <2>2 DEF WritesOfThePlayed, OpenOfThePlayed, WritesTo, Writes, FilesOf, Main, Backup
  <2> QED  BY <1>1, <1>5, <2>4, <2>5 DEF PlayInv
<1>8. CASE InPlay /\ ImportPending
  <2>1. PICK s \in Slots, n \in 1 .. MaxSaves :
          /\ pending = <<Op(Main(s), "import", n)>>
          /\ files[Main(s)] = Absent /\ files[Backup(s)] = Absent
    BY <1>8 DEF ImportPending
  <2>2. w = Op(Main(s), "import", n) /\ pending' = <<>>
    BY <1>2, <2>1
  <2>3. w.file = Main(s) /\ w.part = "import" /\ w.save = n /\ n # 0
    BY <2>2, BoundsAssumption DEF Op
  <2>4. Written(w).newCycleSave = n
    <3> HIDE DEF w
    <3> QED  BY <2>3 DEF Written, NewCycleWritten, Absent, Parts
  <2>5. files'[Main(s)] = Torn
    BY <1>2, <2>3, <2>4 DEF Absent
  <2>6. files'[Backup(s)] = Absent
    BY <1>2, <2>1, <2>3, FilesApart
  <2>7. ASSUME NEW t \in Slots \ {s}
        PROVE  files'[Main(t)] = files[Main(t)] /\ files'[Backup(t)] = files[Backup(t)]
    BY <1>2, <2>3, FilesApart DEF FilesOf
  <2>8. ImportsAreWhole'
    BY <1>2, <1>4, <1>8, <2>5, <2>7 DEF PlayInv, ImportsAreWhole, InPlay, Main, Backup
  <2>9. WritesOfThePlayed'
    BY <2>2 DEF WritesOfThePlayed
  <2>10. ReadSaveFile(w.file) = Absent
    BY <2>1, <2>3 DEF ReadSaveFile
  <2>11. OpenOfThePlayed'
    BY <1>2, <2>2, <2>3, <2>6, <2>10 DEF OpenOfThePlayed, Main, Backup
  <2> QED  BY <1>1, <1>5, <2>8, <2>9, <2>11 DEF PlayInv
<1> QED  BY <1>6, <1>7, <1>8 DEF PlayInv, WritesOfThePlayed

LEMMA EndWriteKeepsPlay == PlayInv /\ EndWrite => PlayInv'
<1> SUFFICES ASSUME PlayInv, EndWrite PROVE PlayInv'
  OBVIOUS
<1>1. SelectInv'
  BY NextSelectInv DEF PlayInv, Next
<1>2. /\ writing.open /\ ~writing'.open /\ pending' = pending
      /\ phase' = phase /\ fileNum' = fileNum
      /\ files' = [files EXCEPT ![writing.file] = writing.content]
  BY DEF EndWrite, NotWriting
<1>3. /\ fileNum \in Slots
      /\ \A i \in FlashSaves : i # writing.file => files'[i] = files[i]
  BY <1>2 DEF PlayInv, SelectInv, IInv, TypeOK
<1>4. OpenIsTorn' /\ OpenOfThePlayed'
  BY <1>2 DEF OpenIsTorn, OpenOfThePlayed
<1>5. CASE ~InPlay
  BY <1>1, <1>2, <1>4, <1>5 DEF PlayInv, InPlay, ImportsAreWhole, WritesOfThePlayed
<1>6. CASE InPlay /\ writing.file \in FilesOf(fileNum)
  <2>1. ASSUME NEW s \in Slots \ {fileNum}
        PROVE  files'[Main(s)] = files[Main(s)] /\ files'[Backup(s)] = files[Backup(s)]
    BY <1>3, <1>6, FilesApart DEF FilesOf
  <2>2. ImportsAreWhole'
    BY <1>2, <1>6, <2>1 DEF PlayInv, ImportsAreWhole, InPlay, Main, Backup
  <2>3. pending \in Seq(WritesTo(fileNum))
    BY <1>2, <1>6 DEF PlayInv, WritesOfThePlayed, ImportPending
  <2>4. WritesOfThePlayed'
    BY <1>2, <2>3 DEF WritesOfThePlayed, WritesTo, Writes, FilesOf, Main, Backup
  <2> QED  BY <1>1, <1>4, <2>2, <2>4 DEF PlayInv
<1>7. CASE InPlay /\ writing.file \notin FilesOf(fileNum)
  <2>1. PICK s \in Slots : writing.file = Main(s) /\ files[Backup(s)] = Absent
    BY <1>2, <1>7 DEF PlayInv, OpenOfThePlayed
  <2>2. pending = <<>>
    BY <1>2, <1>7 DEF PlayInv, OpenOfThePlayed
  <2>3. files'[Backup(s)] = Absent
    BY <1>3, <2>1, FilesApart
  <2>4. ASSUME NEW t \in Slots \ {s}
        PROVE  files'[Main(t)] = files[Main(t)] /\ files'[Backup(t)] = files[Backup(t)]
    BY <1>3, <2>1, FilesApart DEF FilesOf
  <2>5. ImportsAreWhole'
    BY <1>2, <1>7, <2>3, <2>4 DEF PlayInv, ImportsAreWhole, InPlay, Main, Backup
  <2>6. WritesOfThePlayed'
    BY <1>2, <2>2 DEF WritesOfThePlayed
  <2> QED  BY <1>1, <1>4, <2>5, <2>6 DEF PlayInv
<1> QED  BY <1>5, <1>6, <1>7

(* The handlers, which start while nothing is being written. *)
LEMMA HandlersKeepPlay ==
  ASSUME PlayInv, Next, ~StartWrite, ~EndWrite
  PROVE  PlayInv'
<1>1. SelectInv' /\ fileNum \in Slots /\ saves \in Nat
  BY NextSelectInv, BoundsAssumption DEF PlayInv, SelectInv, IInv, TypeOK
<1>2. (~writing.open /\ writing' = writing) \/ ~writing'.open
  BY DEF Next, VerifyNewCycle, VerifyOwl, VerifyHeader, InitSave, EraseSave, OpenSave,
         CopySave, HandleFileDropped, Playing, EnterClockTown, EndOfCycle, NewDay,
         MoonCrash, MoonCrashSave, OwlSave, UpdateWriteToFlashOwlSave, AutoSave,
         DeleteFileOnDeath, Reset, Crash, Idle, NotWriting
<1>3. OpenIsTorn' /\ OpenOfThePlayed' /\ ~writing'.open
  BY <1>2 DEF OpenIsTorn, OpenOfThePlayed
<1>4. ASSUME ~InPlay' PROVE PlayInv'
  BY <1>1, <1>3, <1>4 DEF PlayInv, ImportsAreWhole, WritesOfThePlayed
<1>5. ASSUME InPlay, InPlay', UNCHANGED <<files, fileNum>>,
             pending' \in Seq(WritesTo(fileNum))
      PROVE  PlayInv'
  <2>1. ImportsAreWhole'
    BY <1>5 DEF PlayInv, ImportsAreWhole, InPlay, Main, Backup
  <2>2. WritesOfThePlayed'
    BY <1>5 DEF WritesOfThePlayed, WritesTo, Writes, FilesOf, Main, Backup
  <2> QED  BY <1>1, <1>3, <2>1, <2>2 DEF PlayInv
<1>6. ASSUME NEW s \in Slots, OpenSave(s) PROVE PlayInv'
  <2>1. /\ phase = "select" /\ Idle /\ UNCHANGED files /\ fileNum' = s
        /\ pending' = WriteOwlTwice(s, 0) \/ pending' = <<>>
    BY <1>6 DEF OpenSave
  <2>2. Listed(files)
    BY <2>1, ListedNow DEF PlayInv
  <2>3. \A t \in Slots : files[Main(t)] = files[Backup(t)]
    BY <2>1, <2>2 DEF Listed, FullyListed
  <2>4. ImportsAreWhole'
    BY <2>1, <2>3 DEF ImportsAreWhole, Main, Backup
  <2>5. pending' \in Seq(WritesTo(s))
    <3>1. 0 \in 0 .. MaxSaves /\ <<>> \in Seq(WritesTo(s))
      BY BoundsAssumption
    <3>2. WriteOwlTwice(s, 0) \in Seq(WritesTo(s))
      BY <3>1, PlayedLists
    <3> QED  BY <2>1, <3>1, <3>2
  <2>6. WritesOfThePlayed'
    BY <2>1, <2>5 DEF WritesOfThePlayed, WritesTo, Writes, FilesOf, Main, Backup
  <2> QED  BY <1>1, <1>3, <2>4, <2>6 DEF PlayInv
<1>7. CASE HandleFileDropped
  <2>1. CASE ~InPlay'
    BY <1>4, <2>1
  <2>2. CASE InPlay'
    <3>1. phase \in Phases
      BY DEF PlayInv, SelectInv, IInv, TypeOK
    <3>2. InPlay /\ phase' = phase
      BY <1>7, <2>2, <3>1 DEF HandleFileDropped, EnterFileSelect, InPlay, Phases
    <3>3. PICK s \in Slots : files[Main(s)] = Absent
                             /\ pending' = <<Op(Main(s), "import", NextSave)>>
      BY <1>7 DEF HandleFileDropped
    <3>4. NextSave \in 1 .. MaxSaves
      BY <1>1, <1>7, BoundsAssumption DEF HandleFileDropped, MakeSave, NextSave
    <3>5. UNCHANGED <<files, writing, fileNum>>
      BY <1>7 DEF HandleFileDropped
    <3>6. CASE s = fileNum
      <4>1. Op(Main(s), "import", NextSave) \in WritesTo(s)
        BY <3>4, PlayedLists, BoundsAssumption DEF FilesOf
      <4>2. pending' \in Seq(WritesTo(fileNum))
        BY <3>3, <3>6, <4>1
      <4> QED  BY <1>5, <2>2, <3>2, <3>5, <4>2
    <3>7. CASE s # fileNum
      <4>1. files[Backup(s)] = Absent
        BY <3>2, <3>3, <3>7 DEF PlayInv, ImportsAreWhole
      <4>2. PICK n \in 1 .. MaxSaves : n = NextSave
        BY <3>4
      <4>3. ImportPending'
        BY <1>3, <3>3, <3>5, <4>1, <4>2 DEF ImportPending, Op, Main, Backup
      <4>4. ImportsAreWhole'
        BY <3>2, <3>5 DEF PlayInv, ImportsAreWhole, InPlay, Main, Backup
      <4> QED  BY <1>1, <1>3, <4>3, <4>4 DEF PlayInv, WritesOfThePlayed
    <3> QED  BY <3>6, <3>7
  <2> QED  BY <2>1, <2>2
<1>8. CASE \/ EnterClockTown \/ EndOfCycle \/ NewDay \/ MoonCrash \/ MoonCrashSave
           \/ OwlSave \/ UpdateWriteToFlashOwlSave \/ AutoSave \/ DeleteFileOnDeath
  <2>1. InPlay /\ InPlay' /\ UNCHANGED <<files, fileNum>>
    BY <1>8 DEF Playing, EnterClockTown, EndOfCycle, NewDay, MoonCrash, MoonCrashSave,
                OwlSave, UpdateWriteToFlashOwlSave, AutoSave, DeleteFileOnDeath, InPlay
  <2>2. NextSave \in 0 .. MaxSaves \/ ~MakeSave
    BY <1>1, BoundsAssumption DEF MakeSave, NextSave
  <2>3. late \in 0 .. MaxSaves /\ 0 \in 0 .. MaxSaves
    BY BoundsAssumption DEF PlayInv, SelectInv, IInv, TypeOK
  <2> DEFINE S == Seq(WritesTo(fileNum))
  <2>4. \A p, q \in S : p \o q \in S
    BY ConcatProperties
  <2>5. WriteOwlTwice(fileNum, 0) \in S
    BY <1>1, <2>3, PlayedLists
  <2>6. ASSUME NEW n \in 0 .. MaxSaves
        PROVE  /\ WriteSpecial(fileNum, n) \in S
               /\ <<WriteNewCycle(Main(fileNum), n)>> \in S
               /\ <<WriteOwl(Main(fileNum), n)>> \in S
               /\ <<WriteOwl(Backup(fileNum), n)>> \in S
    <3>1. \A i \in FilesOf(fileNum), part \in Parts \cup {"import", "delete"} :
            Op(i, part, n) \in WritesTo(fileNum)
      BY <1>1, PlayedLists
    <3>2. /\ WriteNewCycle(Main(fileNum), n) \in WritesTo(fileNum)
          /\ WriteOwl(Main(fileNum), n) \in WritesTo(fileNum)
          /\ WriteOwl(Backup(fileNum), n) \in WritesTo(fileNum)
      BY <3>1 DEF WriteNewCycle, WriteOwl, FilesOf, Parts
    <3> QED  BY <1>1, <3>2, PlayedLists
  <2>7. pending' \in S
    <3>1. CASE EnterClockTown
      BY <3>1, <2>2, <2>6 DEF EnterClockTown
    <3>2. CASE EndOfCycle
      <4>1. pending' = WriteOwlTwice(fileNum, 0) \o WriteSpecial(fileNum, NextSave)
            /\ NextSave \in 0 .. MaxSaves
        BY <3>2, <2>2 DEF EndOfCycle, SaveCycle
      <4> QED  BY <4>1, <2>4, <2>5, <2>6
    <3>3. CASE NewDay
      <4>1. pending' = WriteOwlTwice(fileNum, 0) \o <<WriteNewCycle(Main(fileNum), NextSave)>>
            /\ NextSave \in 0 .. MaxSaves
        BY <3>3, <2>2 DEF NewDay
      <4> QED  BY <4>1, <2>4, <2>5, <2>6
    <3>4. CASE MoonCrash
      BY <3>4, <2>5 DEF MoonCrash
    <3>5. CASE MoonCrashSave
      <4>1. NextSave \in 0 .. MaxSaves
        BY <3>5, <2>2 DEF MoonCrashSave
      <4>2. SaveCycle \in S
        BY <4>1, <2>4, <2>5, <2>6 DEF SaveCycle
      <4>3. \/ pending' = WriteOwlTwice(fileNum, 0) \o SaveCycle
            \/ pending' = SaveCycle \o WriteOwlTwice(fileNum, 0)
        BY <3>5 DEF MoonCrashSave
      <4> QED  BY <4>2, <4>3, <2>4, <2>5
    <3>6. CASE OwlSave \/ AutoSave
      <4>1. pending' = <<WriteOwl(Main(fileNum), NextSave)>> /\ NextSave \in 0 .. MaxSaves
        BY <3>6, <2>2 DEF OwlSave, AutoSave
      <4> QED  BY <4>1, <2>6
    <3>7. CASE UpdateWriteToFlashOwlSave
      BY <3>7, <2>3, <2>6 DEF UpdateWriteToFlashOwlSave
    <3>8. CASE DeleteFileOnDeath
      <4>1. \A i \in FilesOf(fileNum) : Op(i, "delete", 0) \in WritesTo(fileNum)
        BY <1>1, <2>3, PlayedLists
      <4>2. pending' = <<Op(Main(fileNum), "delete", 0), Op(Backup(fileNum), "delete", 0)>>
        BY <3>8 DEF DeleteFileOnDeath
      <4> QED  BY <4>1, <4>2 DEF FilesOf
    <3> QED  BY <1>8, <3>1, <3>2, <3>3, <3>4, <3>5, <3>6, <3>7, <3>8
  <2> QED  BY <1>5, <2>1, <2>7
<1>9. CASE \/ VerifyNewCycle \/ VerifyOwl \/ VerifyHeader \/ Reset \/ Crash
           \/ \E s \in Slots : InitSave(s) \/ EraseSave(s)
           \/ \E s, t \in Slots : CopySave(s, t)
  <2>1. ~InPlay'
    BY <1>9 DEF VerifyNewCycle, VerifyOwl, VerifyHeader, Reset, Crash, EnterFileSelect,
                InitSave, EraseSave, CopySave, InPlay
  <2> QED  BY <1>4, <2>1
<1> QED  BY <1>6, <1>7, <1>8, <1>9 DEF Next

LEMMA NextPlayInv == PlayInv /\ [Next]_vars => PlayInv'
<1> SUFFICES ASSUME PlayInv, [Next]_vars PROVE PlayInv'
  OBVIOUS
<1>1. CASE Next
  BY <1>1, StartWriteKeepsPlay, EndWriteKeepsPlay, HandlersKeepPlay
<1>2. CASE UNCHANGED vars
  <2>1. SelectInv'
    BY NextSelectInv DEF PlayInv
  <2> QED
    BY <1>2, <2>1 DEF vars, PlayInv, OpenIsTorn, InPlay, ImportsAreWhole, WritesOfThePlayed,
                      OpenOfThePlayed, ImportPending, WritesTo, Writes, FilesOf, Main, Backup
<1> QED  BY <1>1, <1>2

(* The invariant behind the slots' independence (z_sram_NES.c,             *)
(* gFlashSaveStartPages; SaveManager.cpp, SaveManager_HandleFileDropped).  *)
THEOREM PlayInvariant == Spec => []PlayInv
<1>1. Init => PlayInv
  BY InitSelectInv DEF Init, NotWriting, PlayInv, OpenIsTorn, InPlay, ImportsAreWhole,
                       WritesOfThePlayed, OpenOfThePlayed
<1> QED  BY <1>1, NextPlayInv, PTL DEF Spec

(* Playing one slot leaves what a restart recovers of every other slot as  *)
(* it is, under every setting and wherever the process is killed; only an  *)
(* import fills another slot, and only an empty one                        *)
(* (z_sram_NES.c, gFlashSaveStartPages; SaveManager.cpp,                   *)
(* SaveManager_HandleFileDropped).                                         *)
THEOREM PlayLeavesOtherSlots == Spec => OtherSlotsUntouched
<1>1. ASSUME PlayInv, [Next]_vars, NEW s \in Slots \ {fileNum},
             phase \in {"play", "ended"}, Recovered(s) # Absent
      PROVE  Recovered(s)' = Recovered(s)
  <2>1. InPlay /\ fileNum \in Slots
    BY <1>1 DEF InPlay, PlayInv, SelectInv, IInv, TypeOK
  <2>2. ~(writing.open /\ writing.file \in FilesOf(s))
    <3>1. SUFFICES ASSUME writing.open, writing.file \in FilesOf(s) PROVE FALSE
      OBVIOUS
    <3>2. writing.file \notin FilesOf(fileNum)
      BY <2>1, <3>1, FilesApart
    <3>3. PICK t \in Slots : writing.file = Main(t) /\ files[Backup(t)] = Absent
      BY <1>1, <2>1, <3>1, <3>2 DEF PlayInv, OpenOfThePlayed
    <3>4. t = s
      BY <3>1, <3>3, FilesApart DEF FilesOf
    <3>5. files[Main(s)] = Torn /\ writing.was = Absent
      BY <1>1, <2>1, <3>1, <3>2, <3>3, <3>4 DEF PlayInv, OpenIsTorn, OpenOfThePlayed
    <3>6. ReadSaveFile(Main(s)) = Absent /\ ReadSaveFile(Backup(s)) = Absent
      BY <3>3, <3>4, <3>5 DEF ReadSaveFile
    <3> QED  BY <1>1, <3>5, <3>6, NothingToLose
  <2>3. ASSUME UNCHANGED files, ~writing'.open \/ UNCHANGED writing
        PROVE  Recovered(s)' = Recovered(s)
    <3>1. ~(writing.open /\ writing.file \in FilesOf(s))'
      BY <2>2, <2>3 DEF FilesOf, Main, Backup
    <3> QED  BY <2>2, <2>3, <3>1, SlotKept
  <2>4. CASE StartWrite
    <3> DEFINE w == Head(pending)
    <3>1. /\ w \in Writes /\ ~writing.open
          /\ \A i \in FlashSaves : i # w.file => files'[i] = files[i]
          /\ writing'.open => writing'.file = w.file
      BY <1>1, <2>4, StartWriteFiles DEF PlayInv, SelectInv
    <3>2. w.file \notin FilesOf(s)
      <4>1. SUFFICES ASSUME w.file \in FilesOf(s) PROVE FALSE
        OBVIOUS
      <4>2. CASE pending \in Seq(WritesTo(fileNum))
        <5>1. pending # <<>>
          BY <2>4 DEF StartWrite
        <5>2. w \in WritesTo(fileNum)
          BY <4>2, <5>1, HeadTailProperties
        <5>3. w.file \in FilesOf(fileNum)
          BY <5>2 DEF WritesTo
        <5> QED  BY <2>1, <4>1, <5>3, FilesApart
      <4>3. CASE ImportPending
        <5>1. PICK t \in Slots, n \in 1 .. MaxSaves :
                /\ pending = <<Op(Main(t), "import", n)>>
                /\ files[Main(t)] = Absent /\ files[Backup(t)] = Absent
          BY <4>3 DEF ImportPending
        <5>2. w.file = Main(t)
          BY <5>1 DEF Op
        <5>3. t = s
          BY <4>1, <5>2, FilesApart DEF FilesOf
        <5>4. ReadSaveFile(Main(s)) = Absent /\ ReadSaveFile(Backup(s)) = Absent
          BY <5>1, <5>3 DEF ReadSaveFile
        <5> QED  BY <1>1, <3>1, <5>4, NothingToLose
      <4> QED  BY <1>1, <2>1, <4>2, <4>3 DEF PlayInv, WritesOfThePlayed
    <3> HIDE DEF w
    <3>3. ~(writing.open /\ writing.file \in FilesOf(s))'
      BY <3>1, <3>2 DEF FilesOf, Main, Backup
    <3>4. \A i \in FilesOf(s) : files'[i] = files[i]
      BY <3>1, <3>2, FilesApart DEF FilesOf
    <3> QED  BY <2>2, <3>3, <3>4, SlotKept
  <2>5. CASE EndWrite
    <3>1. /\ writing.open /\ ~writing'.open
          /\ files' = [files EXCEPT ![writing.file] = writing.content]
      BY <2>5 DEF EndWrite, NotWriting
    <3>2. \A i \in FlashSaves : i # writing.file => files'[i] = files[i]
      BY <1>1, <3>1 DEF PlayInv, SelectInv, IInv, TypeOK
    <3>3. writing.file \notin FilesOf(s)
      BY <2>2, <3>1
    <3>4. \A i \in FilesOf(s) : files'[i] = files[i]
      BY <3>2, <3>3, FilesApart DEF FilesOf
    <3> QED  BY <2>2, <3>1, <3>4, SlotKept
  <2>6. CASE \/ HandleFileDropped \/ EnterClockTown \/ EndOfCycle \/ NewDay \/ MoonCrash
             \/ MoonCrashSave \/ OwlSave \/ UpdateWriteToFlashOwlSave \/ AutoSave
             \/ DeleteFileOnDeath \/ Reset
    <3>1. UNCHANGED <<files, writing>>
      BY <2>6 DEF HandleFileDropped, EnterClockTown, EndOfCycle, NewDay, MoonCrash,
                  MoonCrashSave, OwlSave, UpdateWriteToFlashOwlSave, AutoSave,
                  DeleteFileOnDeath, Reset
    <3> QED  BY <2>3, <3>1
  <2>7. CASE Crash
    BY <2>3, <2>7 DEF Crash, NotWriting
  <2>8. CASE UNCHANGED vars
    BY <2>3, <2>8 DEF vars
  <2>9. ~ \/ VerifyNewCycle \/ VerifyOwl \/ VerifyHeader
          \/ \E t \in Slots : InitSave(t) \/ EraseSave(t) \/ OpenSave(t)
          \/ \E t, u \in Slots : CopySave(t, u)
    BY <1>1 DEF VerifyNewCycle, VerifyOwl, VerifyHeader, InitSave, EraseSave, OpenSave, CopySave
  <2> QED  BY <1>1, <2>4, <2>5, <2>6, <2>7, <2>8, <2>9 DEF Next
<1>2. PlayInv /\ [Next]_vars =>
        [\A s \in Slots \ {fileNum} :
           phase \in {"play", "ended"} /\ Recovered(s) # Absent =>
             Recovered(s)' = Recovered(s)]_vars
  BY <1>1
<1> QED  BY <1>2, PlayInvariant, PTL DEF Spec, OtherSlotsUntouched
-----------------------------------------------------------------------------
(* No save is lost.  An import is the only write of its handler and finds  *)
(* no file; and the repair writes zeros only where neither file of the     *)
(* slot holds, or is about to hold, the part that is written.              *)
Plain(w) == w.part \in Parts \/ w.save = 0

PlainWrites == {w \in Writes : Plain(w)}

ImportsMeetNothing ==
  \/ pending \in Seq(PlainWrites)
  \/ \E w \in Writes : pending = <<w>> /\ w.save # 0 /\ ~writing.open
                       /\ files[w.file] = Absent

WillHold(i, part) ==
  \/ ReadData(i, part) # 0
  \/ writing.open /\ writing.file = i /\ writing.content[part] # 0

TakesNothing(w) ==
  /\ w.part \in Parts
  /\ \A s \in Slots : w.file \in FilesOf(s) => \A i \in FilesOf(s) : ~WillHold(i, w.part)

ZerosForNothing ==
  phase = "verify" =>
    \A k \in 1 .. Len(pending) :
      pending[k].save = 0 =>
        /\ \A j \in 1 .. Len(pending) : pending[j].save = 0
        /\ TakesNothing(pending[k])

KeepInv == PlayInv /\ ImportsMeetNothing /\ ZerosForNothing

LEMMA PlainLists ==
  ASSUME NEW s \in Slots, NEW n \in 0 .. MaxSaves
  PROVE  /\ WriteSpecial(s, n) \in Seq(PlainWrites) /\ WriteOwlTwice(s, n) \in Seq(PlainWrites)
         /\ \A i \in FilesOf(s) :
              /\ WriteNewCycle(i, n) \in PlainWrites /\ WriteOwl(i, n) \in PlainWrites
              /\ n = 0 => Op(i, "delete", n) \in PlainWrites
<1>1. \A i \in FilesOf(s) :
        /\ WriteNewCycle(i, n) \in PlainWrites /\ WriteOwl(i, n) \in PlainWrites
        /\ n = 0 => Op(i, "delete", n) \in PlainWrites
  <2>1. \A i \in FilesOf(s) : i \in FlashSaves
    BY FilesApart DEF FilesOf
  <2> QED  BY <2>1 DEF WriteNewCycle, WriteOwl, Op, PlainWrites, Plain, Writes, Parts
<1>2. /\ WriteNewCycle(Main(s), n) \in PlainWrites /\ WriteNewCycle(Backup(s), n) \in PlainWrites
      /\ WriteOwl(Main(s), n) \in PlainWrites /\ WriteOwl(Backup(s), n) \in PlainWrites
  BY <1>1 DEF FilesOf
<1> QED  BY <1>1, <1>2 DEF WriteSpecial, WriteOwlTwice

LEMMA EitherType ==
  ASSUME IInv, NEW s \in Slots, NEW part \in Parts
  PROVE  /\ ReadEither(s, part) \in 0 .. MaxSaves
         /\ ReadEither(s, part) = 0 => \A i \in FilesOf(s) : ReadData(i, part) = 0
<1>1. ReadData(Main(s), part) \in 0 .. MaxSaves /\ ReadData(Backup(s), part) \in 0 .. MaxSaves
  BY FileOfSlot, ReadType DEF IInv, TypeOK
<1> QED  BY <1>1 DEF ReadEither, FilesOf

(* The writes a handler other than the import sets out to do: of zeros, of *)
(* the save it makes, or of a save it has read.                            *)
LEMMA HandlersWrite ==
  ASSUME IInv, Next, ~StartWrite, ~EndWrite, ~HandleFileDropped,
         NEW W, NEW M, 0 \in M, late \in M, MakeSave => NextSave \in M,
         \A s \in Slots, part \in Parts : ReadData(Main(s), part) \in M /\ ReadEither(s, part) \in M,
         \A s \in Slots, n \in M : \A i \in FilesOf(s) :
           WriteNewCycle(i, n) \in W /\ WriteOwl(i, n) \in W /\ Op(i, "delete", 0) \in W
  PROVE  pending' \in Seq(W)
<1> DEFINE S == Seq(W)
<1>1. fileNum \in Slots /\ <<>> \in S
  BY DEF IInv, TypeOK
<1>2. \A s \in Slots, n \in M :
        /\ WriteNewCycle(Main(s), n) \in W /\ WriteNewCycle(Backup(s), n) \in W
        /\ WriteOwl(Main(s), n) \in W /\ WriteOwl(Backup(s), n) \in W
  BY DEF FilesOf
<1>3. \A p, q \in S : p \o q \in S
  BY ConcatProperties
<1>4. \A s \in Slots, n \in M : WriteSpecial(s, n) \in S /\ WriteOwlTwice(s, n) \in S
  BY <1>2 DEF WriteSpecial, WriteOwlTwice
<1>5. \A s \in Slots, n \in M :
        /\ <<WriteNewCycle(Main(s), n)>> \in S
        /\ <<WriteOwl(Main(s), n)>> \in S /\ <<WriteOwl(Backup(s), n)>> \in S
  BY <1>2
<1>6. /\ \A s \in Slots : ReadEither(s, "newCycleSave") \in M /\ ReadEither(s, "owlSave") \in M
      /\ \A s \in Slots : ReadData(Main(s), "newCycleSave") \in M
  BY DEF Parts
<1>7. CASE VerifyNewCycle
  <2>1. PICK s \in Slots : s = checking
    BY <1>7 DEF VerifyNewCycle
  <2>2. pending' = WriteSpecial(s, ReadEither(s, "newCycleSave")) \/ pending' = <<>>
    BY <1>7, <2>1 DEF VerifyNewCycle
  <2> QED  BY <1>1, <1>4, <1>6, <2>2
<1>8. CASE VerifyOwl
  <2>1. PICK s \in Slots : s = checking - NumSlots
    BY <1>8, SlotsAssumption DEF VerifyOwl, Slots
  <2>2. \/ pending' = WriteOwlTwice(s, IF s \in newf THEN ReadEither(s, "owlSave") ELSE 0)
        \/ pending' = <<>>
    BY <1>8, <2>1 DEF VerifyOwl
  <2>3. (IF s \in newf THEN ReadEither(s, "owlSave") ELSE 0) \in M
    BY <1>6
  <2> QED  BY <1>1, <1>4, <2>2, <2>3
<1>9. CASE VerifyHeader \/ Reset \/ Crash
  BY <1>1, <1>9 DEF VerifyHeader, Reset, Crash, Idle
<1>10. ASSUME NEW s \in Slots, InitSave(s) \/ EraseSave(s) \/ OpenSave(s) PROVE pending' \in S
  <2>1. CASE InitSave(s)
    BY <1>4, <2>1 DEF InitSave
  <2>2. CASE EraseSave(s)
    <3>1. /\ pending' = (IF s \in isOwlSave THEN WriteOwlTwice(s, 0) ELSE <<>>) \o WriteSpecial(s, 0)
          /\ (IF s \in isOwlSave THEN WriteOwlTwice(s, 0) ELSE <<>>) \in S
      BY <1>1, <1>4, <2>2 DEF EraseSave
    <3> QED  BY <1>1, <1>3, <1>4, <3>1
  <2>3. CASE OpenSave(s)
    <3>1. pending' = WriteOwlTwice(s, 0) \/ pending' = <<>>
      BY <2>3 DEF OpenSave
    <3> QED  BY <1>1, <1>4, <3>1
  <2> QED  BY <1>10, <2>1, <2>2, <2>3
<1>11. ASSUME NEW s \in Slots, NEW t \in Slots, CopySave(s, t) PROVE pending' \in S
  <2>1. /\ pending' = (IF s \in isOwlSave THEN WriteOwlTwice(t, ReadEither(s, "owlSave")) ELSE <<>>)
                      \o WriteSpecial(t, ReadData(Main(s), "newCycleSave"))
        /\ (IF s \in isOwlSave THEN WriteOwlTwice(t, ReadEither(s, "owlSave")) ELSE <<>>) \in S
    BY <1>1, <1>4, <1>6, <1>11 DEF CopySave
  <2> QED  BY <1>3, <1>4, <1>6, <2>1
<1>12. CASE \/ EnterClockTown \/ EndOfCycle \/ NewDay \/ MoonCrash \/ MoonCrashSave
            \/ OwlSave \/ UpdateWriteToFlashOwlSave \/ AutoSave \/ DeleteFileOnDeath
  <2>1. WriteOwlTwice(fileNum, 0) \in S
    BY <1>1, <1>4
  <2>2. CASE EnterClockTown
    BY <1>1, <1>4, <2>2 DEF EnterClockTown
  <2>3. MakeSave => SaveCycle \in S
    BY <1>1, <1>3, <1>4, <2>1 DEF SaveCycle
  <2>4. CASE EndOfCycle
    BY <2>3, <2>4 DEF EndOfCycle
  <2>5. CASE NewDay
    BY <1>1, <1>3, <1>5, <2>1, <2>5 DEF NewDay
  <2>6. CASE MoonCrash
    BY <2>1, <2>6 DEF MoonCrash
  <2>7. CASE MoonCrashSave
    BY <1>3, <2>1, <2>3, <2>7 DEF MoonCrashSave
  <2>8. CASE OwlSave \/ AutoSave
    BY <1>1, <1>5, <2>8 DEF OwlSave, AutoSave
  <2>9. CASE UpdateWriteToFlashOwlSave
    BY <1>1, <1>5, <2>9 DEF UpdateWriteToFlashOwlSave
  <2>10. CASE DeleteFileOnDeath
    <3>1. /\ pending' = <<Op(Main(fileNum), "delete", 0), Op(Backup(fileNum), "delete", 0)>>
          /\ \A i \in FilesOf(fileNum) : Op(i, "delete", 0) \in W
      BY <1>1, <2>10 DEF DeleteFileOnDeath
    <3> QED  BY <3>1 DEF FilesOf
  <2> QED  BY <1>12, <2>2, <2>4, <2>5, <2>6, <2>7, <2>8, <2>9, <2>10
<1> QED  BY <1>7, <1>8, <1>9, <1>10, <1>11, <1>12 DEF Next

LEMMA HandlersWritePlainly ==
  ASSUME IInv, Next, ~StartWrite, ~EndWrite, ~HandleFileDropped
  PROVE  pending' \in Seq(PlainWrites)
<1>1. PICK M : M = 0 .. MaxSaves
  OBVIOUS
<1>2. 0 \in M /\ late \in M /\ (MakeSave => NextSave \in M)
  BY <1>1, SaveMade, BoundsAssumption DEF IInv, TypeOK
<1>3. \A s \in Slots, part \in Parts : ReadData(Main(s), part) \in M /\ ReadEither(s, part) \in M
  BY <1>1, EitherType, FileOfSlot, ReadType DEF IInv, TypeOK
<1>4. \A s \in Slots, n \in M : \A i \in FilesOf(s) :
        WriteNewCycle(i, n) \in PlainWrites /\ WriteOwl(i, n) \in PlainWrites
          /\ Op(i, "delete", 0) \in PlainWrites
  BY <1>1, <1>2, PlainLists
<1> QED  BY <1>2, <1>3, <1>4, HandlersWrite

(* What the write at the head of the list makes of its file, part by part: *)
(* a write of a save leaves both parts or sets one, a write of zeros adds  *)
(* nothing.                                                                *)
LEMMA WrittenParts ==
  ASSUME IInv, ImportsMeetNothing, pending # <<>>, ~writing.open,
         NEW w, w = Head(pending)
  PROVE  /\ w \in Writes /\ Written(w) \in Contents /\ ReadSaveFile(w.file) \in Contents
         /\ w.save # 0 =>
              \A part \in Parts : ReadData(w.file, part) # 0 => Written(w)[part] # 0
         /\ w.save = 0 =>
              \A part \in Parts : Written(w)[part] # 0 => ReadData(w.file, part) # 0
         /\ w.save = 0 /\ w.part = "owlSave" =>
              Written(w)["newCycleSave"] = ReadData(w.file, "newCycleSave")
<1>1. pending \in Seq(Writes)
  BY DEF IInv, TypeOK, Writes
<1>2. w \in Writes
  BY <1>1, HeadTailProperties
<1> DEFINE j == ReadSaveFile(w.file)
<1>3. j \in Contents /\ w.save \in 0 .. MaxSaves /\ Absent \in Contents
  BY <1>2, ReadType DEF IInv, TypeOK, Writes
<1>4. Written(w) = IF w.part = "newCycleSave" THEN NewCycleWritten(j, w.save)
                   ELSE IF w.part = "owlSave" THEN OwlWritten(j, w.save)
                   ELSE NewCycleWritten(Absent, w.save)
  BY DEF Written
<1>5. w.save # 0 => w.part \in Parts \/ j = Absent
  <2>1. CASE pending \in Seq(PlainWrites)
    <3>1. w \in PlainWrites
      BY <2>1, HeadTailProperties
    <3> QED  BY <3>1 DEF PlainWrites, Plain
  <2>2. CASE \E v \in Writes : pending = <<v>> /\ files[v.file] = Absent
    <3>1. files[w.file] = Absent
      BY <2>2
    <3> QED  BY <3>1 DEF ReadSaveFile
  <2> QED  BY <2>1, <2>2 DEF ImportsMeetNothing
<1>6. \A part \in Parts : ReadData(w.file, part) = j[part]
  BY DEF ReadData
<1> HIDE DEF j
<1>7. Written(w) \in Contents
  BY <1>3, <1>4, NewCycleWrittenIs, OwlWrittenIs
<1>8. w.save # 0 => \A part \in Parts : j[part] # 0 => Written(w)[part] # 0
  <2>1. CASE w.part = "newCycleSave"
    BY <1>3, <1>4, <2>1, NewCycleWrittenIs DEF Parts
  <2>2. CASE w.part = "owlSave"
    BY <1>3, <1>4, <2>2, OwlWrittenIs DEF Parts
  <2>3. CASE w.part \notin Parts
    BY <1>5, <2>3 DEF Absent, Parts
  <2> QED  BY <2>1, <2>2, <2>3 DEF Parts
<1>9. w.save = 0 => \A part \in Parts : Written(w)[part] # 0 => j[part] # 0
  <2>1. CASE w.part = "owlSave"
    BY <1>3, <1>4, <2>1, OwlWrittenIs DEF Parts
  <2>2. CASE w.part # "owlSave"
    <3>1. w.save = 0 => Written(w) = Absent
      BY <1>3, <1>4, <2>2, NewCycleWrittenIs
    <3> QED  BY <3>1 DEF Absent, Parts
  <2> QED  BY <2>1, <2>2
<1>10. w.part = "owlSave" => Written(w)["newCycleSave"] = j["newCycleSave"]
  BY <1>3, <1>4, OwlWrittenIs
<1>11. Written(w)["newCycleSave"] = Written(w).newCycleSave
  OBVIOUS
<1> QED  BY <1>2, <1>3, <1>6, <1>7, <1>8, <1>9, <1>10 DEF j, Parts
LEMMA ImportsKeep == PlayInv /\ ImportsMeetNothing /\ [Next]_vars => ImportsMeetNothing'
<1> SUFFICES ASSUME PlayInv, ImportsMeetNothing, [Next]_vars PROVE ImportsMeetNothing'
  OBVIOUS
<1>1. IInv /\ saves \in Nat
  BY BoundsAssumption DEF PlayInv, SelectInv, IInv, TypeOK
<1>2. CASE StartWrite
  <2>1. pending # <<>> /\ pending' = Tail(pending)
    BY <1>2 DEF StartWrite
  <2>2. pending' \in Seq(PlainWrites)
    <3>1. CASE pending \in Seq(PlainWrites)
      BY <2>1, <3>1, HeadTailProperties
    <3>2. CASE \E w \in Writes : pending = <<w>>
      BY <2>1, <3>2
    <3> QED  BY <3>1, <3>2 DEF ImportsMeetNothing
  <2> QED  BY <2>2 DEF ImportsMeetNothing, PlainWrites, Plain, Writes
<1>3. CASE EndWrite
  <2>1. pending \in Seq(PlainWrites) /\ pending' = pending
    BY <1>3 DEF EndWrite, ImportsMeetNothing
  <2> QED  BY <2>1 DEF ImportsMeetNothing, PlainWrites, Plain, Writes
<1>4. CASE HandleFileDropped
  <2>1. PICK s \in Slots : files[Main(s)] = Absent
                           /\ pending' = <<Op(Main(s), "import", NextSave)>>
    BY <1>4 DEF HandleFileDropped
  <2>2. NextSave \in 1 .. MaxSaves /\ ~writing'.open /\ files' = files
    BY <1>1, <1>4, BoundsAssumption DEF HandleFileDropped, MakeSave, NextSave, Idle
  <2> DEFINE w == Op(Main(s), "import", NextSave)
  <2>3. w \in Writes /\ w.save # 0 /\ w.file = Main(s)
    BY <2>2, FileOfSlot DEF Op, Writes
  <2>4. pending' = <<w>> /\ files'[w.file] = Absent
    BY <2>1, <2>2, <2>3
  <2> HIDE DEF w
  <2> QED  BY <2>2, <2>3, <2>4 DEF ImportsMeetNothing, Writes
<1>5. CASE UNCHANGED vars
  BY <1>5 DEF vars, ImportsMeetNothing, PlainWrites, Plain, Writes
<1>6. CASE Next /\ ~StartWrite /\ ~EndWrite /\ ~HandleFileDropped
  <2>1. pending' \in Seq(PlainWrites)
    BY <1>1, <1>6, HandlersWritePlainly
  <2> QED  BY <2>1 DEF ImportsMeetNothing, PlainWrites, Plain, Writes
<1> QED  BY <1>2, <1>3, <1>4, <1>5, <1>6

(* The step that opens or deletes a file, seen from what files hold or are *)
(* about to hold.                                                          *)
LEMMA StartWriteHolds ==
  ASSUME KeepInv, StartWrite, NEW i \in FlashSaves, NEW part \in Parts, WillHold(i, part)'
  PROVE  WillHold(i, part) \/ (i = Head(pending).file /\ Written(Head(pending))[part] # 0)
<1> DEFINE w == Head(pending)
<1>1. /\ ~writing.open
      /\ \A k \in FlashSaves : k # w.file => files'[k] = files[k]
      /\ files'[w.file] \in {Absent, Torn}
  BY StartWriteFiles DEF KeepInv, PlayInv, SelectInv
<1>2. writing'.open => writing'.file = w.file /\ writing'.content = Written(w)
  BY <1>1 DEF StartWrite
<1> HIDE DEF w
<1>3. CASE ReadData(i, part)' # 0
  <2>1. i # w.file
    BY <1>1, <1>3 DEF ReadData, ReadSaveFile, Absent, Parts
  <2> QED  BY <1>1, <1>3, <2>1 DEF WillHold, ReadData, ReadSaveFile
<1>4. CASE writing'.open /\ writing'.file = i /\ writing'.content[part] # 0
  BY <1>2, <1>4 DEF w
<1> QED  BY <1>3, <1>4 DEF WillHold

(* A file that is moved aside is read as it was. *)
LEMMA MovedReads ==
  ASSUME IInv, NEW s \in Slots, files' = MoveInvalid(s)
  PROVE  \A i \in FlashSaves : ReadSaveFile(i)' = ReadSaveFile(i)
<1>1. \A i \in FlashSaves : files'[i] = IF i \in FilesOf(s) THEN ReadSaveFile(i) ELSE files[i]
  BY DEF MoveInvalid, FilesOf
<1>2. Torn # Absent
  BY TornAssumption, BoundsAssumption DEF Absent, Contents, Parts
<1> QED  BY <1>1, <1>2 DEF ReadSaveFile

(* Both writes of a repair write zeros only if there is nothing to read.   *)
LEMMA RepairWrites ==
  ASSUME Idle, UNCHANGED writing, NEW s \in Slots, NEW n \in 0 .. MaxSaves, NEW part \in Parts,
         \A i \in FlashSaves : ReadData(i, part)' = ReadData(i, part),
         n = 0 => \A i \in FilesOf(s) : ReadData(i, part) = 0,
         \/ pending' = <<>>
         \/ pending' = <<Op(Main(s), part, n), Op(Backup(s), part, n)>>
         \/ pending' = <<Op(Backup(s), part, n), Op(Main(s), part, n)>>
  PROVE  ZerosForNothing'
<1>1. CASE pending' = <<>>
  BY <1>1 DEF ZerosForNothing
<1>2. CASE pending' # <<>>
  <2>1. \A k \in 1 .. Len(pending') : /\ pending'[k].save = n /\ pending'[k].part = part
                                      /\ pending'[k].file \in FilesOf(s)
    BY <1>2 DEF Op, FilesOf
  <2>2. n = 0 => \A i \in FilesOf(s) : ~WillHold(i, part)'
    BY FilesApart DEF WillHold, Idle, FilesOf
  <2>3. ASSUME NEW k \in 1 .. Len(pending'), NEW v, v = pending'[k], v.save = 0
        PROVE  (\A j \in 1 .. Len(pending') : pending'[j].save = 0) /\ TakesNothing(v)'
    <3>1. n = 0 /\ v.part = part
      BY <2>1, <2>3
    <3>2. \A t \in Slots : v.file \in FilesOf(t) => t = s
      BY <2>1, <2>3, FilesApart
    <3>3. TakesNothing(v)'
      BY <2>2, <3>1, <3>2 DEF TakesNothing, FilesOf, Main, Backup
    <3> QED  BY <2>1, <3>1, <3>3
  <2> QED  BY <2>3 DEF ZerosForNothing, TakesNothing, FilesOf, WillHold, ReadData,
                       ReadSaveFile, Main, Backup
<1> QED  BY <1>1, <1>2

LEMMA TakesNothingStill ==
  ASSUME \A i \in FlashSaves, part \in Parts : WillHold(i, part)' => WillHold(i, part),
         NEW v, TakesNothing(v)
  PROVE  TakesNothing(v)'
<1>1. \A s \in Slots : FilesOf(s) \subseteq FlashSaves
  BY FilesApart DEF FilesOf
<1> QED  BY <1>1 DEF TakesNothing, FilesOf, Main, Backup

LEMMA ZerosKeep == KeepInv /\ [Next]_vars => ZerosForNothing'
<1> SUFFICES ASSUME KeepInv, [Next]_vars, phase' = "verify" PROVE ZerosForNothing'
  BY DEF ZerosForNothing
<1>1. IInv /\ saves \in Nat
  BY BoundsAssumption DEF KeepInv, PlayInv, SelectInv, IInv, TypeOK
<1>2. ASSUME \A k \in 1 .. Len(pending') : pending'[k].save # 0
      PROVE  ZerosForNothing'
  BY <1>2 DEF ZerosForNothing
<1>3. CASE StartWrite
  <2> DEFINE w == Head(pending)
  <2>1. /\ pending \in Seq(Writes) /\ pending # <<>> /\ pending' = Tail(pending)
        /\ ~writing.open /\ phase = "verify"
    BY <1>1, <1>3, StartWriteFiles
  <2>2. /\ w = pending[1] /\ 1 \in 1 .. Len(pending)
        /\ \A k \in 1 .. Len(pending') : k + 1 \in 1 .. Len(pending)
                                         /\ pending'[k] = pending[k + 1]
    BY <2>1, HeadTailProperties, EmptySeq, LenProperties
  <2>3. CASE w.save # 0
    <3>1. \A k \in 1 .. Len(pending) : pending[k].save # 0
      BY <2>1, <2>2, <2>3 DEF KeepInv, ZerosForNothing
    <3> QED  BY <1>2, <2>2, <3>1
  <2>4. CASE w.save = 0
    <3>1. \A i \in FlashSaves, part \in Parts : WillHold(i, part)' => WillHold(i, part)
      <4>1. ASSUME NEW part \in Parts
            PROVE  Written(w)[part] # 0 => WillHold(w.file, part)
        BY <1>1, <2>1, <2>4, WrittenParts DEF KeepInv, WillHold
      <4> QED  BY <1>3, <4>1, StartWriteHolds
    <3>2. ASSUME NEW k \in 1 .. Len(pending'), NEW v, v = pending'[k], v.save = 0
          PROVE  (\A j \in 1 .. Len(pending') : pending'[j].save = 0) /\ TakesNothing(v)'
      <4>1. v = pending[k + 1] /\ k + 1 \in 1 .. Len(pending)
        BY <2>2, <3>2
      <4>2. (\A j \in 1 .. Len(pending) : pending[j].save = 0) /\ TakesNothing(v)
        BY <2>1, <3>2, <4>1 DEF KeepInv, ZerosForNothing
      <4>3. TakesNothing(v)'
        BY <3>1, <4>2, TakesNothingStill
      <4> QED  BY <2>2, <4>2, <4>3
    <3> QED  BY <3>2 DEF ZerosForNothing, TakesNothing, FilesOf, WillHold, ReadData,
                         ReadSaveFile, Main, Backup
  <2> QED  BY <2>3, <2>4
<1>4. CASE EndWrite
  <2>1. /\ writing.open /\ ~writing'.open /\ UNCHANGED <<pending, phase>>
        /\ files' = [files EXCEPT ![writing.file] = writing.content]
        /\ writing.content \in Contents
    BY <1>1, <1>4 DEF EndWrite, NotWriting, IInv, TypeOK
  <2>2. ASSUME NEW i \in FlashSaves, NEW part \in Parts, WillHold(i, part)'
        PROVE  WillHold(i, part)
    <3>1. ReadData(i, part)' # 0
      BY <2>1, <2>2 DEF WillHold
    <3>2. CASE i = writing.file
      <4>1. files'[i] = writing.content /\ files'[i] # Torn
        BY <1>1, <2>1, <3>2, TornAssumption DEF IInv, TypeOK
      <4> QED  BY <2>1, <3>1, <3>2, <4>1 DEF WillHold, ReadData, ReadSaveFile
    <3>3. CASE i # writing.file
      <4>1. files'[i] = files[i]
        BY <1>1, <2>1, <3>3 DEF IInv, TypeOK
      <4> QED  BY <3>1, <4>1 DEF WillHold, ReadData, ReadSaveFile
    <3> QED  BY <3>2, <3>3
  <2>3. ASSUME NEW k \in 1 .. Len(pending'), NEW v, v = pending'[k], v.save = 0
        PROVE  (\A j \in 1 .. Len(pending') : pending'[j].save = 0) /\ TakesNothing(v)'
    <3>1. (\A j \in 1 .. Len(pending) : pending[j].save = 0) /\ TakesNothing(v)
      BY <2>1, <2>3 DEF KeepInv, ZerosForNothing
    <3>2. TakesNothing(v)'
      BY <2>2, <3>1, TakesNothingStill
    <3> QED  BY <2>1, <3>1, <3>2
  <2> QED  BY <2>3 DEF ZerosForNothing, TakesNothing, FilesOf, WillHold, ReadData,
                       ReadSaveFile, Main, Backup
<1>5. CASE HandleFileDropped
  <2>1. PICK s \in Slots : pending' = <<Op(Main(s), "import", NextSave)>>
    BY <1>5 DEF HandleFileDropped
  <2>2. NextSave # 0
    BY <1>1 DEF NextSave
  <2> QED  BY <1>2, <2>1, <2>2 DEF Op
<1>6. CASE Reset \/ Crash
  <2>1. pending' = <<>>
    BY <1>6 DEF Reset, Crash, Idle
  <2> QED  BY <1>2, <2>1
<1>7. CASE VerifyNewCycle
  <2>1. PICK s \in Slots : s = checking
    BY <1>7 DEF VerifyNewCycle
  <2> DEFINE n == ReadEither(s, "newCycleSave")
  <2>2. /\ Idle /\ UNCHANGED writing /\ files' = MoveInvalid(s)
        /\ pending' = <<>> \/ pending' = WriteSpecial(s, n)
    BY <1>7, <2>1 DEF VerifyNewCycle
  <2>3. n \in 0 .. MaxSaves /\ (n = 0 => \A i \in FilesOf(s) : ReadData(i, "newCycleSave") = 0)
    BY <1>1, EitherType DEF Parts
  <2> HIDE DEF n
  <2>4. \/ pending' = <<>>
        \/ pending' = <<Op(Backup(s), "newCycleSave", n), Op(Main(s), "newCycleSave", n)>>
    BY <2>2 DEF WriteSpecial, WriteNewCycle
  <2>5. \A i \in FlashSaves : ReadData(i, "newCycleSave")' = ReadData(i, "newCycleSave")
    BY <1>1, <2>2, MovedReads DEF ReadData
  <2> QED  BY <2>2, <2>3, <2>4, <2>5, RepairWrites DEF Parts
<1>8. CASE VerifyOwl
  <2>1. PICK s \in Slots : s = checking - NumSlots
    BY <1>8, SlotsAssumption DEF VerifyOwl, Slots
  <2> DEFINE n == IF s \in newf THEN ReadEither(s, "owlSave") ELSE 0
  <2>2. /\ Idle /\ UNCHANGED writing /\ files' = MoveInvalid(s)
        /\ pending' = <<>> \/ pending' = WriteOwlTwice(s, n)
    BY <1>8, <2>1 DEF VerifyOwl
  <2>3. s \notin newf => \A i \in FilesOf(s) : ReadData(i, "owlSave") = 0
    <3>1. phase = "verify" /\ s < checking
      BY <1>8, <2>1, SlotsAssumption DEF VerifyOwl, Slots
    <3>2. NewListed(files, s)
      BY <2>2, <3>1, ListedNow DEF KeepInv, PlayInv, Listed
    <3> QED  BY <3>2 DEF NewListed, FilesOf, ReadData, ReadSaveFile, Absent
  <2>4. n \in 0 .. MaxSaves /\ (n = 0 => \A i \in FilesOf(s) : ReadData(i, "owlSave") = 0)
    BY <1>1, <2>3, EitherType, BoundsAssumption DEF Parts
  <2> HIDE DEF n
  <2>5. \/ pending' = <<>>
        \/ pending' = <<Op(Main(s), "owlSave", n), Op(Backup(s), "owlSave", n)>>
    BY <2>2 DEF WriteOwlTwice, WriteOwl
  <2>6. \A i \in FlashSaves : ReadData(i, "owlSave")' = ReadData(i, "owlSave")
    BY <1>1, <2>2, MovedReads DEF ReadData
  <2> QED  BY <2>2, <2>4, <2>5, <2>6, RepairWrites DEF Parts
<1>9. CASE UNCHANGED vars
  BY <1>9 DEF vars, KeepInv, ZerosForNothing, TakesNothing, FilesOf, WillHold, ReadData, ReadSaveFile, Main, Backup
<1>10. ~ (\/ VerifyHeader \/ \E s \in Slots : InitSave(s) \/ EraseSave(s) \/ OpenSave(s)
          \/ \E s, t \in Slots : CopySave(s, t)
          \/ EnterClockTown \/ EndOfCycle \/ NewDay \/ MoonCrash \/ MoonCrashSave
          \/ OwlSave \/ UpdateWriteToFlashOwlSave \/ AutoSave \/ DeleteFileOnDeath)
  BY DEF VerifyHeader, InitSave, EraseSave, OpenSave, CopySave, Playing, EnterClockTown,
         EndOfCycle, NewDay, MoonCrash, MoonCrashSave, OwlSave, UpdateWriteToFlashOwlSave,
         AutoSave, DeleteFileOnDeath
<1> QED  BY <1>3, <1>4, <1>5, <1>6, <1>7, <1>8, <1>9, <1>10 DEF Next

LEMMA NextKeepInv == KeepInv /\ [Next]_vars => KeepInv'
BY NextPlayInv, ImportsKeep, ZerosKeep DEF KeepInv

-----------------------------------------------------------------------------
(* Whether a restart finds something of a part in a slot's files. *)
Has(s, part) == \E i \in FilesOf(s) : Settled(i)[part] # 0

LEMMA RecoveredIf ==
  ASSUME NEW s \in Slots, NEW part \in Parts
  PROVE  Recovered(s)[part] # 0 <=> Has(s, "newCycleSave") /\ Has(s, part)
<1>1. \A p : RecoveredPart(s, p) # 0 <=> Has(s, p)
  BY DEF RecoveredPart, Has, FilesOf
<1> QED  BY <1>1 DEF Recovered, Absent, Parts

LEMMA RecoveredIfNext ==
  ASSUME NEW s \in Slots, NEW part \in Parts
  PROVE  (Recovered(s)[part])' # 0 <=> Has(s, "newCycleSave")' /\ Has(s, part)'
<1>1. \A p : RecoveredPart(s, p)' # 0 <=> Has(s, p)'
  BY DEF RecoveredPart, Has, FilesOf, Main, Backup
<1> QED  BY <1>1 DEF Recovered, Absent, Parts

(* The step that opens or deletes a file keeps each part of the slot that  *)
(* the write does not take away.                                           *)
LEMMA StartWriteKeepsPart ==
  ASSUME KeepInv, StartWrite, NEW s \in Slots, NEW part \in Parts, Has(s, part),
         Head(pending).file \in FilesOf(s),
         ReadData(Head(pending).file, part) # 0 => Written(Head(pending))[part] # 0
  PROVE  Has(s, part)'
<1> DEFINE w == Head(pending)
<1>1. /\ ~writing.open /\ pending # <<>> /\ w \in Writes
      /\ \A k \in FlashSaves : k # w.file => files'[k] = files[k]
      /\ files'[w.file] \in {Absent, Torn}
      /\ files'[w.file] = Absent => Written(w) = Absent
      /\ writing'.open => writing'.file = w.file /\ writing'.was = ReadSaveFile(w.file)
  BY StartWriteFiles DEF KeepInv, PlayInv, SelectInv
<1>2. /\ writing'.open => writing'.content = Written(w)
      /\ Written(w) # Absent => writing'.open
  BY <1>1 DEF StartWrite
<1>3. \A i \in FilesOf(s) : i \in FlashSaves /\ Settled(i) = ReadSaveFile(i)
  BY <1>1, FilesApart DEF Settled, SoleCopyOpen, FilesOf
<1>4. \A i \in FilesOf(s) : i # w.file => /\ ReadData(i, part)' = ReadData(i, part)
                                          /\ Settled(i)' = ReadSaveFile(i)
  BY <1>1, <1>3 DEF ReadData, ReadSaveFile, Settled, SoleCopyOpen
<1> HIDE DEF w
<1>5. CASE \E i \in FilesOf(s) : i # w.file /\ ReadData(i, part) # 0
  <2>1. PICK i \in FilesOf(s) : i # w.file /\ ReadData(i, part) # 0
    BY <1>5
  <2>2. Settled(i)'[part] # 0
    BY <1>4, <2>1 DEF ReadData
  <2>3. i \in {Main(s), Backup(s)}
    BY <2>1 DEF FilesOf
  <2> QED  BY <2>2, <2>3 DEF Has, FilesOf, Main, Backup
<1>6. CASE \A i \in FilesOf(s) : i # w.file => ReadData(i, part) = 0
  <2>1. ReadData(w.file, part) # 0
    BY <1>3, <1>6 DEF Has, ReadData
  <2>2. Written(w)[part] # 0 /\ Written(w) # Absent
    BY <2>1 DEF w, Absent, Parts
  <2>3. /\ writing'.open /\ writing'.file = w.file /\ writing'.content = Written(w)
        /\ writing'.was[part] = ReadData(w.file, part)
    BY <1>1, <1>2, <2>2 DEF ReadData
  <2>4. \A i \in FilesOf(s) : i # w.file => ReadData(i, part)' = 0
    BY <1>4, <1>6
  <2>5. ReadData(w.file, part) \in 0 .. MaxSaves
    BY <1>1, ReadType DEF Writes, KeepInv, PlayInv, SelectInv, IInv, TypeOK
  <2>6. w.file = Main(s) \/ w.file = Backup(s)
    BY DEF w, FilesOf
  <2>7. SoleCopyOpen'
    <3>1. CASE w.file = Main(s)
      <4>1. ReadData(Backup(s), part)' < writing'.was[part]
        BY <2>1, <2>3, <2>4, <2>5, <3>1, FilesApart, BoundsAssumption DEF FilesOf
      <4> QED  BY <2>1, <2>2, <2>3, <3>1, <4>1 DEF SoleCopyOpen, Main, Backup
    <3>2. CASE w.file = Backup(s)
      <4>1. ReadData(Main(s), part)' = 0
        BY <2>4, <3>2, FilesApart DEF FilesOf
      <4> QED  BY <2>1, <2>2, <2>3, <3>2, <4>1 DEF SoleCopyOpen, Main, Backup
    <3> QED  BY <2>6, <3>1, <3>2
  <2>8. PICK x \in {Main(s), Backup(s)} : x = w.file
    BY <2>6
  <2>9. Settled(x)'[part] # 0
    BY <2>2, <2>3, <2>7, <2>8 DEF Settled
  <2> QED  BY <2>9 DEF Has, FilesOf, Main, Backup
<1> QED  BY <1>5, <1>6
(* The end of a write, a repair's reading and a crash in any other moment  *)
(* than the rewriting of a sole copy keep every part.                      *)
LEMMA EndWriteKeepsPart ==
  ASSUME KeepInv, EndWrite, NEW s \in Slots, NEW part \in Parts, Has(s, part)
  PROVE  Has(s, part)'
<1>1. /\ writing.open /\ ~writing'.open
      /\ files' = [files EXCEPT ![writing.file] = writing.content]
      /\ writing.content \in Contents /\ files[writing.file] = Torn
      /\ writing.file \in FlashSaves /\ DOMAIN files = FlashSaves
  BY DEF EndWrite, NotWriting, KeepInv, PlayInv, OpenIsTorn, SelectInv, IInv, TypeOK
<1>2. PICK i \in {Main(s), Backup(s)} : Settled(i)[part] # 0
  BY DEF Has, FilesOf
<1>3. i \in FlashSaves /\ Settled(i)' = ReadSaveFile(i)'
  BY <1>1, FilesApart DEF Settled, SoleCopyOpen
<1>4. CASE i = writing.file
  <2>1. Settled(i) \in {writing.content, Absent}
    BY <1>1, <1>4 DEF Settled, ReadSaveFile
  <2>2. writing.content[part] # 0
    BY <1>2, <2>1 DEF Absent, Parts
  <2>3. ReadSaveFile(i)' = writing.content
    BY <1>1, <1>4, TornAssumption DEF ReadSaveFile
  <2> QED  BY <1>2, <1>3, <2>2, <2>3 DEF Has, FilesOf, Main, Backup
<1>5. CASE i # writing.file
  <2>1. Settled(i) = ReadSaveFile(i) /\ ReadSaveFile(i)' = ReadSaveFile(i)
    BY <1>1, <1>3, <1>5 DEF Settled, ReadSaveFile
  <2> QED  BY <1>2, <1>3, <2>1 DEF Has, FilesOf, Main, Backup
<1> QED  BY <1>4, <1>5

LEMMA SettledAsRead ==
  ASSUME ~SoleCopyOpen, ~SoleCopyOpen',
         \A i \in FlashSaves : ReadSaveFile(i)' = ReadSaveFile(i), NEW s \in Slots
  PROVE  Recovered(s)' = Recovered(s)
<1>1. \A i \in FlashSaves : Settled(i)' = Settled(i)
  BY DEF Settled
<1>2. Settled(Main(s))' = Settled(Main(s)) /\ Settled(Backup(s))' = Settled(Backup(s))
  BY <1>1, FilesApart DEF Main, Backup
<1> QED  BY <1>2 DEF Recovered, RecoveredPart

LEMMA StartWriteLoses ==
  ASSUME KeepInv, StartWrite, NEW s \in Slots, NEW part \in Parts,
         Recovered(s)[part] # 0, (Recovered(s)[part])' = 0
  PROVE  /\ phase # "verify"
         /\ ~writing.open /\ pending # <<>> /\ Head(pending).save = 0
         /\ Head(pending).file \in {Main(s), Backup(s)}
<1> PICK w : w = Head(pending)
  OBVIOUS
<1>1. /\ ~writing.open /\ pending \in Seq(Writes) /\ pending # <<>> /\ w \in Writes
      /\ \A k \in FlashSaves : k # w.file => files'[k] = files[k]
      /\ writing'.open => writing'.file = w.file
  BY StartWriteFiles DEF KeepInv, PlayInv, SelectInv
<1>2. Has(s, "newCycleSave") /\ Has(s, part)
  BY RecoveredIf
<1>3. ~(Has(s, "newCycleSave")' /\ Has(s, part)')
  BY RecoveredIfNext
<1>4. w.file \in FilesOf(s)
  <2>1. SUFFICES ASSUME w.file \notin FilesOf(s) PROVE FALSE
    OBVIOUS
  <2>2. ~(writing.open /\ writing.file \in FilesOf(s))'
    BY <1>1, <2>1 DEF FilesOf, Main, Backup
  <2>3. \A i \in FilesOf(s) : files'[i] = files[i]
    BY <1>1, <2>1, FilesApart DEF FilesOf
  <2> QED  BY <1>1, <2>2, <2>3, SlotKept
<1>5. w.save = 0
  <2>1. SUFFICES ASSUME w.save # 0 PROVE FALSE
    OBVIOUS
  <2>2. \A p \in Parts : ReadData(w.file, p) # 0 => Written(w)[p] # 0
    BY <1>1, <2>1, WrittenParts DEF KeepInv, PlayInv, SelectInv
  <2>3. Has(s, "newCycleSave")' /\ Has(s, part)'
    BY <1>2, <1>4, <2>2, StartWriteKeepsPart DEF Parts
  <2> QED  BY <1>3, <2>3
<1>6. phase # "verify"
  <2>1. SUFFICES ASSUME phase = "verify" PROVE FALSE
    OBVIOUS
  <2>2. 1 \in 1 .. Len(pending) /\ pending[1] = w
    BY <1>1, HeadTailProperties, EmptySeq, LenProperties
  <2>3. TakesNothing(w)
    BY <1>5, <2>1, <2>2 DEF KeepInv, ZerosForNothing
  <2>4. w.part \in Parts /\ \A i \in FilesOf(s) : ReadData(i, w.part) = 0
    BY <1>4, <2>3 DEF TakesNothing, WillHold
  <2>5. \A i \in FilesOf(s) : Settled(i) = ReadSaveFile(i)
    BY <1>1 DEF Settled, SoleCopyOpen
  <2>6. ~Has(s, w.part)
    BY <2>4, <2>5 DEF Has, ReadData
  <2>7. w.part = "owlSave" /\ part = "newCycleSave"
    BY <1>2, <2>4, <2>6 DEF Parts
  <2>8. Written(w)["newCycleSave"] = ReadData(w.file, "newCycleSave")
    BY <1>1, <1>5, <2>7, WrittenParts DEF KeepInv, PlayInv, SelectInv
  <2>9. Has(s, "newCycleSave")'
    BY <1>2, <1>4, <2>8, StartWriteKeepsPart DEF Parts
  <2> QED  BY <1>3, <2>7, <2>9
<1> QED  BY <1>1, <1>4, <1>5, <1>6 DEF FilesOf

(* What a restart recovers of a slot goes away only where a handler means  *)
(* it, or when the process dies while the only whole copy is rewritten:    *)
(* for any number of slots and crashes and under every setting             *)
(* (SaveManager.cpp, SaveManager_SysFlashrom_WriteData; z_sram_NES.c,      *)
(* func_801457CC).                                                         *)
LostOnPurposeOrWithTheSoleCopy ==
  [][\A s \in Slots, part \in Parts :
       Recovered(s)[part] # 0 /\ (Recovered(s)[part])' = 0 =>
         \/ /\ phase # "verify"
            /\ ~writing.open /\ pending # <<>> /\ Head(pending).save = 0
            /\ Head(pending).file \in {Main(s), Backup(s)}
         \/ Crash /\ SoleCopyOpen]_vars

LEMMA StepLoses ==
  ASSUME KeepInv, [Next]_vars, NEW s \in Slots, NEW part \in Parts,
         Recovered(s)[part] # 0, (Recovered(s)[part])' = 0
  PROVE  \/ /\ phase # "verify"
            /\ ~writing.open /\ pending # <<>> /\ Head(pending).save = 0
            /\ Head(pending).file \in {Main(s), Backup(s)}
         \/ Crash /\ SoleCopyOpen
<1>1. CASE StartWrite
  BY <1>1, StartWriteLoses
<1>2. CASE EndWrite
  <2>1. Has(s, "newCycleSave")' /\ Has(s, part)'
    BY <1>2, RecoveredIf, EndWriteKeepsPart DEF Parts
  <2> QED  BY <2>1, RecoveredIfNext
<1> DEFINE Repair == \E t \in Slots : files' = MoveInvalid(t) /\ ~writing.open /\ UNCHANGED writing
<1>3. CASE Repair
  <2>1. \A i \in FlashSaves : ReadSaveFile(i)' = ReadSaveFile(i)
    BY <1>3, MovedReads DEF KeepInv, PlayInv, SelectInv
  <2>2. ~SoleCopyOpen /\ ~SoleCopyOpen'
    BY <1>3 DEF SoleCopyOpen
  <2> QED  BY <2>1, <2>2, SettledAsRead
<1>4. CASE UNCHANGED <<files, writing>>
  <2>1. Recovered(s)' = Recovered(s)
    BY <1>4 DEF Recovered, RecoveredPart, Settled, SoleCopyOpen, ReadData, ReadSaveFile,
                Main, Backup
  <2> QED  BY <2>1
<1>5. CASE Crash
  <2>1. SUFFICES ASSUME ~SoleCopyOpen PROVE FALSE
    BY <1>5
  <2>2. ~SoleCopyOpen' /\ UNCHANGED files
    BY <1>5 DEF Crash, NotWriting, SoleCopyOpen
  <2>3. Recovered(s)' = Recovered(s)
    BY <2>1, <2>2, SettledAsRead DEF ReadSaveFile
  <2> QED  BY <2>3
<1>6. VerifyNewCycle => Repair
  BY DEF VerifyNewCycle, Idle
<1>7. VerifyOwl => Repair
  BY SlotsAssumption DEF VerifyOwl, Idle, Slots
<1>8. Next \/ UNCHANGED vars =>
        \/ StartWrite \/ EndWrite \/ VerifyNewCycle \/ VerifyOwl \/ Crash
        \/ UNCHANGED <<files, writing>>
  BY DEF vars, Next, VerifyHeader, InitSave, EraseSave, OpenSave, CopySave, HandleFileDropped,
         EnterClockTown, EndOfCycle, NewDay, MoonCrash, MoonCrashSave, OwlSave,
         UpdateWriteToFlashOwlSave, AutoSave, DeleteFileOnDeath, Reset
<1> QED  BY <1>1, <1>2, <1>3, <1>4, <1>5, <1>6, <1>7, <1>8

LEMMA InitKeepInv == Init => KeepInv
<1> SUFFICES ASSUME Init PROVE KeepInv
  OBVIOUS
<1>1. PlayInv
  BY InitSelectInv DEF Init, NotWriting, PlayInv, OpenIsTorn, InPlay, ImportsAreWhole,
                       WritesOfThePlayed, OpenOfThePlayed
<1>2. pending = <<>> /\ <<>> \in Seq(PlainWrites)
  BY DEF Init
<1> QED  BY <1>1, <1>2 DEF KeepInv, ImportsMeetNothing, ZerosForNothing

(* KeepInv holds: an import meets no save, and a repair writes zeros only  *)
(* over a part that no file of the slot holds (z_sram_NES.c,               *)
(* func_801457CC; SaveManager.cpp, SaveManager_HandleFileDropped).         *)
THEOREM KeepInvariant == Spec => []KeepInv
BY InitKeepInv, NextKeepInv, PTL DEF Spec

(* With every setting, a save that a restart recovers is lost only by a    *)
(* write or deletion its handler means for that slot, or by a crash inside *)
(* the rewriting of the one file that held it                              *)
(* (SaveManager_SysFlashrom_WriteData).                                    *)
THEOREM OnlyASoleCopyIsLost == Spec => LostOnPurposeOrWithTheSoleCopy
<1>1. KeepInv /\ [Next]_vars =>
        [\A s \in Slots, part \in Parts :
           Recovered(s)[part] # 0 /\ (Recovered(s)[part])' = 0 =>
             \/ /\ phase # "verify"
                /\ ~writing.open /\ pending # <<>> /\ Head(pending).save = 0
                /\ Head(pending).file \in {Main(s), Backup(s)}
             \/ Crash /\ SoleCopyOpen]_vars
  BY StepLoses
<1> QED  BY <1>1, KeepInvariant, PTL DEF Spec, LostOnPurposeOrWithTheSoleCopy

(* Where no process dies in such a moment, no save is lost but on purpose, *)
(* with autosaves or without (SaveManager_SysFlashrom_WriteData).          *)
THEOREM NoSaveIsLost ==
  ASSUME SoleCopyCrashes = {}
  PROVE  Spec => LostOnlyOnPurpose
<1>1. KeepInv /\ [Next]_vars =>
        [\A s \in Slots, part \in Parts :
           Recovered(s)[part] # 0 /\ (Recovered(s)[part])' = 0 =>
             phase # "verify"
               /\ ~writing.open /\ pending # <<>> /\ Head(pending).save = 0
               /\ Head(pending).file \in {Main(s), Backup(s)}]_vars
  <2>1. ~(Crash /\ SoleCopyOpen)
    BY DEF Crash
  <2> QED  BY <2>1, StepLoses
<1> QED  BY <1>1, KeepInvariant, PTL DEF Spec, LostOnlyOnPurpose
-----------------------------------------------------------------------------
(* The refinement of SaveSlots.  A file state gives each slot its saves as *)
(* a restart would find them; every write a handler still has to do is one *)
(* that the abstract specification allows, both when its file is opened    *)
(* and when it is closed.                                                  *)
V(a, o) == [newCycleSave |-> a, owlSave |-> o]

Either(a, b) == IF a # 0 THEN a ELSE b

Found(m, b) ==
  IF Either(m.newCycleSave, b.newCycleSave) = 0 THEN Absent
  ELSE V(Either(m.newCycleSave, b.newCycleSave), Either(m.owlSave, b.owlSave))

Rec(f, s) == Found(Whole(f[Main(s)]), Whole(f[Backup(s)]))

(* The change of one slot from r to z, the other slots being as in f. *)
NewIn(f, s, r, n) ==
  /\ n > r.newCycleSave /\ n > r.owlSave
  /\ \A t \in Slots \ {s} : n > Rec(f, t).newCycleSave /\ n > Rec(f, t).owlSave

Change(f, s, r, z) ==
  \/ z = r
  \/ z = V(r.newCycleSave, 0)
  \/ z = Absent
  \/ r = Absent /\ \E t \in Slots \ {s} : z = Rec(f, t)
  \/ \E n \in 1 .. MaxSaves : NewIn(f, s, r, n) /\ z = V(n, r.owlSave)
  \/ \E n \in 1 .. MaxSaves : NewIn(f, s, r, n) /\ r.newCycleSave # 0
                              /\ z = V(r.newCycleSave, n)

(* The file of w while it is open, seen as Settled sees it. *)
OnlyCopy(f, w) ==
  LET was == Whole(f[w.file])
      content == Put(was, w)
  IN  \E s \in Slots, part \in Parts :
        /\ was[part] # 0 /\ content[part] # 0
        /\ \/ w.file = Main(s) /\ Whole(f[Backup(s)])[part] < was[part]
           \/ w.file = Backup(s) /\ Whole(f[Main(s)])[part] = 0

Opened(f, w) ==
  [f EXCEPT ![w.file] = IF OnlyCopy(f, w) THEN Put(Whole(f[w.file]), w) ELSE Absent]

(* A main file's owl save is not older than its backup. *)
OwlsInOrder(f, s) ==
  LET m == Whole(f[Main(s)])
      b == Whole(f[Backup(s)])
  IN  m.owlSave # 0 => b.owlSave <= m.owlSave

GoodWrite(f, w) ==
  \A s \in Slots : w.file \in FilesOf(s) =>
    /\ Change(f, s, Rec(f, s), Rec(Opened(f, w), s))
    /\ Change(f, s, Rec(Opened(f, w), s), Rec(Effect(f, w), s))
    /\ OwlsInOrder(Effect(f, w), s)

(* The writes of q lead from f to g, each of them a good one. *)
Plan(f, q, g) ==
  \E t : /\ t[1] = f /\ t[Len(q) + 1] = g
         /\ \A k \in 1 .. Len(q) :
              t[k + 1] = Effect(t[k], q[k]) /\ GoodWrite(t[k], q[k])

LEMMA PlanNothing == \A f, g : Plan(f, <<>>, g) <=> g = f
<1> SUFFICES ASSUME NEW f, NEW g PROVE Plan(f, <<>>, g) <=> g = f
  OBVIOUS
<1> DEFINE q == <<>>
<1>1. Len(q) = 0
  OBVIOUS
<1> HIDE DEF q
<1>2. Plan(f, q, g) => g = f
  BY <1>1 DEF Plan
<1>3. g = f => Plan(f, q, g)
  <2> SUFFICES ASSUME g = f PROVE Plan(f, q, g)
    OBVIOUS
  <2> DEFINE t == [k \in {1} |-> f]
  <2>1. t[1] = f
    OBVIOUS
  <2> HIDE DEF t
  <2> QED  BY <1>1, <2>1 DEF Plan
<1> QED  BY <1>2, <1>3 DEF q

LEMMA PlanOne ==
  ASSUME NEW w, NEW f, GoodWrite(f, w)
  PROVE  Plan(f, <<w>>, Effect(f, w))
<1> DEFINE q == <<w>>
           t == [k \in 1 .. 2 |-> IF k = 1 THEN f ELSE Effect(f, w)]
<1>1. Len(q) = 1 /\ q[1] = w /\ t[1] = f /\ t[1 + 1] = Effect(f, w)
  OBVIOUS
<1> HIDE DEF q, t
<1>2. \A k \in 1 .. Len(q) : k = 1
  BY <1>1
<1>3. Plan(f, q, Effect(f, w))
  BY <1>1, <1>2 DEF Plan
<1> QED  BY <1>3 DEF q

LEMMA PlanBoth ==
  ASSUME NEW p \in Seq(Writes), NEW q \in Seq(Writes), NEW f, NEW m, NEW g,
         Plan(f, p, m), Plan(m, q, g)
  PROVE  Plan(f, p \o q, g)
<1> DEFINE r == p \o q
<1>1. /\ Len(p) \in Nat /\ Len(q) \in Nat /\ Len(r) = Len(p) + Len(q)
      /\ \A i \in 1 .. Len(p) + Len(q) : r[i] = IF i <= Len(p) THEN p[i] ELSE q[i - Len(p)]
  BY ConcatProperties, LenProperties
<1> HIDE DEF r
<1>2. PICK t : /\ t[1] = f /\ t[Len(p) + 1] = m
               /\ \A k \in 1 .. Len(p) : t[k + 1] = Effect(t[k], p[k]) /\ GoodWrite(t[k], p[k])
  BY DEF Plan
<1>3. PICK u : /\ u[1] = m /\ u[Len(q) + 1] = g
               /\ \A k \in 1 .. Len(q) : u[k + 1] = Effect(u[k], q[k]) /\ GoodWrite(u[k], q[k])
  BY DEF Plan
<1> DEFINE v == [k \in 1 .. Len(p) + Len(q) + 1 |-> IF k <= Len(p) THEN t[k] ELSE u[k - Len(p)]]
<1>4. v[1] = f
  BY <1>1, <1>2, <1>3
<1>5. v[Len(r) + 1] = g
  <2>1. (Len(r) + 1) - Len(p) = Len(q) + 1
    BY <1>1
  <2> QED  BY <1>1, <1>3, <2>1
<1>6. ASSUME NEW k \in 1 .. Len(r)
      PROVE  v[k + 1] = Effect(v[k], r[k]) /\ GoodWrite(v[k], r[k])
  <2>1. CASE k < Len(p)
    <3>1. v[k] = t[k] /\ v[k + 1] = t[k + 1] /\ r[k] = p[k] /\ k \in 1 .. Len(p)
      BY <1>1, <2>1
    <3> QED  BY <1>2, <3>1
  <2>2. CASE k = Len(p)
    <3>1. (k + 1) - Len(p) = 1
      BY <1>1, <2>2
    <3>2. v[k] = t[k] /\ v[k + 1] = u[1] /\ r[k] = p[k] /\ k \in 1 .. Len(p)
      BY <1>1, <2>2, <3>1
    <3> QED  BY <1>2, <1>3, <2>2, <3>2
  <2>3. CASE k > Len(p)
    <3>1. (k + 1) - Len(p) = (k - Len(p)) + 1 /\ k - Len(p) \in 1 .. Len(q)
      BY <1>1, <2>3
    <3>2. v[k] = u[k - Len(p)] /\ v[k + 1] = u[(k - Len(p)) + 1] /\ r[k] = q[k - Len(p)]
      BY <1>1, <2>3, <3>1
    <3> QED  BY <1>3, <3>1, <3>2
  <2> QED  BY <1>1, <2>1, <2>2, <2>3
<1> HIDE DEF v
<1>7. Plan(f, r, g)
  BY <1>4, <1>5, <1>6 DEF Plan
<1> QED  BY <1>7 DEF r

(* The rest of a plan once its first write has been done. *)
LEMMA PlanRest ==
  ASSUME NEW q \in Seq(Writes), q # <<>>, NEW f, NEW g, Plan(f, q, g)
  PROVE  GoodWrite(f, Head(q)) /\ Plan(Effect(f, Head(q)), Tail(q), g)
<1> DEFINE n == Len(q)
<1>1. /\ n \in Nat \ {0} /\ Len(Tail(q)) = n - 1 /\ Head(q) = q[1]
      /\ \A i \in 1 .. n - 1 : Tail(q)[i] = q[i + 1]
  BY EmptySeq, HeadTailProperties, LenProperties
<1>2. PICK t : /\ t[1] = f /\ t[Len(q) + 1] = g
               /\ \A k \in 1 .. Len(q) : t[k + 1] = Effect(t[k], q[k]) /\ GoodWrite(t[k], q[k])
  BY DEF Plan
<1>3. t[1 + 1] = Effect(f, Head(q)) /\ GoodWrite(f, Head(q))
  BY <1>1, <1>2
<1> HIDE DEF n
<1> DEFINE u == [k \in 1 .. n |-> t[k + 1]]
<1>4. u[1] = Effect(f, Head(q)) /\ u[Len(Tail(q)) + 1] = g
  <2>1. (n - 1) + 1 = n
    BY <1>1
  <2> QED  BY <1>1, <1>2, <1>3, <2>1 DEF n
<1>5. ASSUME NEW k \in 1 .. Len(Tail(q))
      PROVE  u[k + 1] = Effect(u[k], Tail(q)[k]) /\ GoodWrite(u[k], Tail(q)[k])
  <2>1. k + 1 \in 1 .. n /\ k \in 1 .. n /\ Tail(q)[k] = q[k + 1]
    BY <1>1
  <2>2. u[k + 1] = t[(k + 1) + 1] /\ u[k] = t[k + 1]
    BY <2>1
  <2> QED  BY <1>2, <2>1, <2>2 DEF n
<1> HIDE DEF u
<1> QED  BY <1>3, <1>4, <1>5 DEF Plan

-----------------------------------------------------------------------------
(* One write, in numbers: the main file holds (ma, mo), the backup         *)
(* (ba, bo), and the file written will hold (ca, co).                      *)
FoundIn(ma, mo, ba, bo) == Found(V(ma, mo), V(ba, bo))

LEMMA VContents ==
  /\ \A c \in Contents : c = V(c.newCycleSave, c.owlSave)
                         /\ c.newCycleSave \in 0 .. MaxSaves /\ c.owlSave \in 0 .. MaxSaves
  /\ \A a, o \in 0 .. MaxSaves : V(a, o) \in Contents /\ V(a, o) # Torn
  /\ Absent = V(0, 0)
<1>1. \A a, o \in 0 .. MaxSaves : V(a, o) \in Contents /\ V(a, o) # Torn
  BY TornAssumption DEF V, Contents, Parts
<1>2. \A c \in Contents : c.newCycleSave \in 0 .. MaxSaves /\ c.owlSave \in 0 .. MaxSaves
  BY DEF Contents, Parts
<1>3. \A c \in Contents : c = V(c.newCycleSave, c.owlSave)
  <2> SUFFICES ASSUME NEW c \in Contents PROVE c = V(c.newCycleSave, c.owlSave)
    OBVIOUS
  <2> DEFINE v == V(c.newCycleSave, c.owlSave)
  <2>1. v \in Contents /\ v.newCycleSave = c.newCycleSave /\ v.owlSave = c.owlSave
    BY <1>1, <1>2 DEF V
  <2> HIDE DEF v
  <2>2. v = c
    BY <2>1, PartsEqual
  <2> QED  BY <2>2 DEF v
<1> QED  BY <1>1, <1>2, <1>3 DEF Absent, V

LEMMA PutType ==
  ASSUME NEW j \in Contents, NEW w \in Writes
  PROVE  Put(j, w) \in Contents
<1>1. w.save \in 0 .. MaxSaves /\ Absent \in Contents
  BY VContents, BoundsAssumption DEF Writes
<1>2. /\ NewCycleWritten(j, w.save) \in Contents /\ NewCycleWritten(Absent, w.save) \in Contents
      /\ OwlWritten(j, w.save) \in Contents
  BY <1>1, NewCycleWrittenIs, OwlWrittenIs
<1> QED  BY <1>2 DEF Put

(* What GoodWrite asks of a write into the main file, and of one into the  *)
(* backup.                                                                 *)
MainStep(f, s, ma, mo, ba, bo, ca, co) ==
  LET mid == IF (ma # 0 /\ ca # 0 /\ ba < ma) \/ (mo # 0 /\ co # 0 /\ bo < mo)
             THEN FoundIn(ca, co, ba, bo) ELSE FoundIn(0, 0, ba, bo)
  IN  /\ Change(f, s, FoundIn(ma, mo, ba, bo), mid)
      /\ Change(f, s, mid, FoundIn(ca, co, ba, bo))
      /\ co # 0 => bo <= co

BackupStep(f, s, ma, mo, ba, bo, ca, co) ==
  LET mid == IF (ba # 0 /\ ca # 0 /\ ma = 0) \/ (bo # 0 /\ co # 0 /\ mo = 0)
             THEN FoundIn(ma, mo, ca, co) ELSE FoundIn(ma, mo, 0, 0)
  IN  /\ Change(f, s, FoundIn(ma, mo, ba, bo), mid)
      /\ Change(f, s, mid, FoundIn(ma, mo, ca, co))
      /\ mo # 0 => co <= mo

LEMMA GoodMain ==
  ASSUME NEW s \in Slots, NEW f \in FileStates, NEW w \in Writes, w.file = Main(s),
         NEW ma \in Nat, NEW mo \in Nat, NEW ba \in Nat, NEW bo \in Nat,
         NEW ca \in Nat, NEW co \in Nat,
         Whole(f[Main(s)]) = V(ma, mo), Whole(f[Backup(s)]) = V(ba, bo),
         Put(V(ma, mo), w) = V(ca, co),
         MainStep(f, s, ma, mo, ba, bo, ca, co)
  PROVE  /\ GoodWrite(f, w)
         /\ Effect(f, w) \in FileStates
         /\ Effect(f, w)[Main(s)] = V(ca, co)
         /\ \A i \in FlashSaves : i # Main(s) => Effect(f, w)[i] = f[i]
<1>0. V(ca, co) \in Contents /\ V(ca, co) # Torn
  <2>1. Whole(f[Main(s)]) \in Contents
    BY FilesApart, VContents, BoundsAssumption DEF Whole, FileStates
  <2> QED  BY <2>1, PutType, TornAssumption
<1>1. /\ Main(s) \in FlashSaves /\ Backup(s) \in FlashSaves /\ Main(s) # Backup(s)
      /\ DOMAIN f = FlashSaves
      /\ \A t \in Slots : w.file \in FilesOf(t) => t = s
      /\ \A t \in Slots : Main(s) # Backup(t) /\ (Main(s) = Main(t) => t = s)
  BY FilesApart DEF FileStates, FilesOf
<1>2. /\ Absent = V(0, 0) /\ Whole(Absent) = Absent /\ Whole(V(ca, co)) = V(ca, co)
  BY <1>0, VContents DEF Whole
<1>3. OnlyCopy(f, w) <=> (ma # 0 /\ ca # 0 /\ ba < ma) \/ (mo # 0 /\ co # 0 /\ bo < mo)
  BY <1>1 DEF OnlyCopy, V, Parts
<1>4. /\ Effect(f, w)[Main(s)] = V(ca, co)
      /\ \A i \in FlashSaves : i # Main(s) => Effect(f, w)[i] = f[i]
  BY <1>1 DEF Effect
<1>5. /\ Opened(f, w)[Main(s)] = IF OnlyCopy(f, w) THEN V(ca, co) ELSE Absent
      /\ \A i \in FlashSaves : i # Main(s) => Opened(f, w)[i] = f[i]
  BY <1>1 DEF Opened
<1>6. Rec(f, s) = FoundIn(ma, mo, ba, bo)
  BY DEF Rec, FoundIn
<1>7. Rec(Effect(f, w), s) = FoundIn(ca, co, ba, bo)
  BY <1>1, <1>2, <1>4 DEF Rec, FoundIn
<1>8. Rec(Opened(f, w), s) = IF OnlyCopy(f, w) THEN FoundIn(ca, co, ba, bo)
                             ELSE FoundIn(0, 0, ba, bo)
  BY <1>1, <1>2, <1>5 DEF Rec, FoundIn
<1>9. OwlsInOrder(Effect(f, w), s)
  BY <1>1, <1>2, <1>4 DEF OwlsInOrder, V, MainStep
<1>10. Effect(f, w) \in FileStates
  BY <1>0, <1>1 DEF Effect, FileStates
<1>11. /\ Change(f, s, Rec(f, s), Rec(Opened(f, w), s))
       /\ Change(f, s, Rec(Opened(f, w), s), Rec(Effect(f, w), s))
  BY <1>3, <1>6, <1>7, <1>8 DEF MainStep
<1> QED  BY <1>1, <1>4, <1>9, <1>10, <1>11 DEF GoodWrite

LEMMA GoodBackup ==
  ASSUME NEW s \in Slots, NEW f \in FileStates, NEW w \in Writes, w.file = Backup(s),
         NEW ma \in Nat, NEW mo \in Nat, NEW ba \in Nat, NEW bo \in Nat,
         NEW ca \in Nat, NEW co \in Nat,
         Whole(f[Main(s)]) = V(ma, mo), Whole(f[Backup(s)]) = V(ba, bo),
         Put(V(ba, bo), w) = V(ca, co),
         BackupStep(f, s, ma, mo, ba, bo, ca, co)
  PROVE  /\ GoodWrite(f, w)
         /\ Effect(f, w) \in FileStates
         /\ Effect(f, w)[Backup(s)] = V(ca, co)
         /\ \A i \in FlashSaves : i # Backup(s) => Effect(f, w)[i] = f[i]
<1>0. V(ca, co) \in Contents /\ V(ca, co) # Torn
  <2>1. Whole(f[Backup(s)]) \in Contents
    BY FilesApart, VContents, BoundsAssumption DEF Whole, FileStates
  <2> QED  BY <2>1, PutType, TornAssumption
<1>1. /\ Main(s) \in FlashSaves /\ Backup(s) \in FlashSaves /\ Main(s) # Backup(s)
      /\ DOMAIN f = FlashSaves
      /\ \A t \in Slots : w.file \in FilesOf(t) => t = s
      /\ \A t \in Slots : Backup(s) # Main(t) /\ (Backup(s) = Backup(t) => t = s)
  BY FilesApart DEF FileStates, FilesOf
<1>2. /\ Absent = V(0, 0) /\ Whole(Absent) = Absent /\ Whole(V(ca, co)) = V(ca, co)
  BY <1>0, VContents DEF Whole
<1>3. OnlyCopy(f, w) <=> (ba # 0 /\ ca # 0 /\ ma = 0) \/ (bo # 0 /\ co # 0 /\ mo = 0)
  BY <1>1 DEF OnlyCopy, V, Parts
<1>4. /\ Effect(f, w)[Backup(s)] = V(ca, co)
      /\ \A i \in FlashSaves : i # Backup(s) => Effect(f, w)[i] = f[i]
  BY <1>1 DEF Effect
<1>5. /\ Opened(f, w)[Backup(s)] = IF OnlyCopy(f, w) THEN V(ca, co) ELSE Absent
      /\ \A i \in FlashSaves : i # Backup(s) => Opened(f, w)[i] = f[i]
  BY <1>1 DEF Opened
<1>6. Rec(f, s) = FoundIn(ma, mo, ba, bo)
  BY DEF Rec, FoundIn
<1>7. Rec(Effect(f, w), s) = FoundIn(ma, mo, ca, co)
  BY <1>1, <1>2, <1>4 DEF Rec, FoundIn
<1>8. Rec(Opened(f, w), s) = IF OnlyCopy(f, w) THEN FoundIn(ma, mo, ca, co)
                             ELSE FoundIn(ma, mo, 0, 0)
  BY <1>1, <1>2, <1>5 DEF Rec, FoundIn
<1>9. OwlsInOrder(Effect(f, w), s)
  BY <1>1, <1>2, <1>4 DEF OwlsInOrder, V, BackupStep
<1>10. Effect(f, w) \in FileStates
  BY <1>0, <1>1 DEF Effect, FileStates
<1>11. /\ Change(f, s, Rec(f, s), Rec(Opened(f, w), s))
       /\ Change(f, s, Rec(Opened(f, w), s), Rec(Effect(f, w), s))
  BY <1>3, <1>6, <1>7, <1>8 DEF BackupStep
<1> QED  BY <1>1, <1>4, <1>9, <1>10, <1>11 DEF GoodWrite
LEMMA FoundInIs ==
  \A ma, mo, ba, bo :
    FoundIn(ma, mo, ba, bo) = IF Either(ma, ba) = 0 THEN V(0, 0)
                              ELSE V(Either(ma, ba), Either(mo, bo))
BY DEF FoundIn, Found, V, Absent

(* No other slot holds a save as new as n. *)
OthersOlder(f, s, n) ==
  \A t \in Slots \ {s} : n > Rec(f, t).newCycleSave /\ n > Rec(f, t).owlSave

LEMMA Changes ==
  ASSUME NEW f, NEW s \in Slots, NEW a \in Nat, NEW o \in Nat
  PROVE  /\ Change(f, s, V(a, o), V(a, o))
         /\ Change(f, s, V(a, o), V(a, 0))
         /\ Change(f, s, V(a, o), V(0, 0))
         /\ \A t \in Slots \ {s} : Change(f, s, V(0, 0), Rec(f, t))
         /\ \A n \in 1 .. MaxSaves :
              n > a /\ n > o /\ OthersOlder(f, s, n) =>
                /\ Change(f, s, V(a, o), V(n, o))
                /\ a # 0 => Change(f, s, V(a, o), V(a, n))
<1>1. /\ V(a, o).newCycleSave = a /\ V(a, o).owlSave = o /\ Absent = V(0, 0)
  BY DEF V, Absent
<1>2. \A n \in 1 .. MaxSaves :
        n > a /\ n > o /\ OthersOlder(f, s, n) => NewIn(f, s, V(a, o), n)
  BY <1>1 DEF OthersOlder, NewIn
<1>3. \A n \in 1 .. MaxSaves :
        n > a /\ n > o /\ OthersOlder(f, s, n) =>
          /\ Change(f, s, V(a, o), V(n, o))
          /\ a # 0 => Change(f, s, V(a, o), V(a, n))
  BY <1>1, <1>2 DEF Change
<1> QED  BY <1>1, <1>3 DEF Change

(* Only the other slots' files matter for how a slot may change. *)
LEMMA ChangeElsewhere ==
  ASSUME NEW s \in Slots, NEW f, NEW g,
         \A i \in FlashSaves \ FilesOf(s) : g[i] = f[i]
  PROVE  /\ \A t \in Slots \ {s} : Rec(g, t) = Rec(f, t)
         /\ \A n : OthersOlder(g, s, n) <=> OthersOlder(f, s, n)
         /\ \A r, z : Change(g, s, r, z) <=> Change(f, s, r, z)
<1>1. ASSUME NEW t \in Slots \ {s} PROVE Rec(g, t) = Rec(f, t)
  <2>1. Main(t) \in FlashSaves \ FilesOf(s) /\ Backup(t) \in FlashSaves \ FilesOf(s)
    BY FilesApart DEF FilesOf
  <2> QED  BY <2>1 DEF Rec
<1>2. \A r, n : NewIn(g, s, r, n) <=> NewIn(f, s, r, n)
  BY <1>1 DEF NewIn
<1> QED  BY <1>1, <1>2 DEF OthersOlder, Change

(* What slot s holds: m in its main file and b in its backup. *)
Holds(f, s, m, b) == Whole(f[Main(s)]) = m /\ Whole(f[Backup(s)]) = b

SameElsewhere(f, g, s) == \A i \in FlashSaves \ FilesOf(s) : g[i] = f[i]

(* The writes q of a handler, all to the files of slot s, lead from f to   *)
(* where the slot holds m and b.                                           *)
Reaches(f, q, s, m, b) ==
  \E g \in FileStates : Plan(f, q, g) /\ Holds(g, s, m, b) /\ SameElsewhere(f, g, s)

LEMMA ReachesNothing ==
  ASSUME NEW f \in FileStates, NEW s, NEW m, NEW b, Holds(f, s, m, b)
  PROVE  Reaches(f, <<>>, s, m, b)
BY PlanNothing DEF Reaches, SameElsewhere

LEMMA ReachesBoth ==
  ASSUME NEW s, NEW f \in FileStates, NEW p \in Seq(Writes), NEW q \in Seq(Writes),
         NEW m, NEW b, NEW m2, NEW b2, Reaches(f, p, s, m, b),
         \A g \in FileStates :
           Holds(g, s, m, b) /\ SameElsewhere(f, g, s) => Reaches(g, q, s, m2, b2)
  PROVE  Reaches(f, p \o q, s, m2, b2)
<1>1. PICK g \in FileStates : Plan(f, p, g) /\ Holds(g, s, m, b) /\ SameElsewhere(f, g, s)
  BY DEF Reaches
<1>2. PICK h \in FileStates : Plan(g, q, h) /\ Holds(h, s, m2, b2) /\ SameElsewhere(g, h, s)
  BY <1>1 DEF Reaches
<1>3. Plan(f, p \o q, h)
  BY <1>1, <1>2, PlanBoth
<1>4. SameElsewhere(f, h, s)
  BY <1>1, <1>2 DEF SameElsewhere
<1> QED  BY <1>2, <1>3, <1>4 DEF Reaches

LEMMA StepsElsewhere ==
  ASSUME NEW s \in Slots, NEW f, NEW g, SameElsewhere(f, g, s),
         NEW ma, NEW mo, NEW ba, NEW bo, NEW ca, NEW co
  PROVE  /\ MainStep(f, s, ma, mo, ba, bo, ca, co) => MainStep(g, s, ma, mo, ba, bo, ca, co)
         /\ BackupStep(f, s, ma, mo, ba, bo, ca, co) => BackupStep(g, s, ma, mo, ba, bo, ca, co)
<1>1. \A r, z : Change(g, s, r, z) <=> Change(f, s, r, z)
  BY ChangeElsewhere DEF SameElsewhere
<1> QED  BY <1>1 DEF MainStep, BackupStep

(* One write, into the main file or into the backup. *)
LEMMA MainWrite ==
  ASSUME NEW s \in Slots, NEW f \in FileStates, NEW w \in Writes, w.file = Main(s),
         NEW ma \in Nat, NEW mo \in Nat, NEW ba \in Nat, NEW bo \in Nat,
         NEW ca \in Nat, NEW co \in Nat,
         Holds(f, s, V(ma, mo), V(ba, bo)), Put(V(ma, mo), w) = V(ca, co),
         MainStep(f, s, ma, mo, ba, bo, ca, co)
  PROVE  Reaches(f, <<w>>, s, V(ca, co), V(ba, bo))
<1>1. Main(s) \in FlashSaves /\ Backup(s) \in FlashSaves /\ Main(s) # Backup(s)
  BY FilesApart
<1>2. Whole(f[Main(s)]) = V(ma, mo) /\ Whole(f[Backup(s)]) = V(ba, bo)
  BY DEF Holds
<1>3. /\ GoodWrite(f, w) /\ Effect(f, w) \in FileStates
      /\ Effect(f, w)[Main(s)] = V(ca, co)
      /\ \A i \in FlashSaves : i # Main(s) => Effect(f, w)[i] = f[i]
  BY <1>2, GoodMain
<1>4. V(ca, co) # Torn
  <2>1. Whole(f[Main(s)]) \in Contents
    BY <1>1, VContents, BoundsAssumption DEF Whole, FileStates
  <2> QED  BY <1>2, <2>1, PutType, TornAssumption
<1>5. Holds(Effect(f, w), s, V(ca, co), V(ba, bo))
  BY <1>1, <1>2, <1>3, <1>4 DEF Holds, Whole
<1>6. SameElsewhere(f, Effect(f, w), s)
  BY <1>3 DEF SameElsewhere, FilesOf
<1>7. Plan(f, <<w>>, Effect(f, w))
  BY <1>3, PlanOne
<1> QED  BY <1>3, <1>5, <1>6, <1>7 DEF Reaches

LEMMA BackupWrite ==
  ASSUME NEW s \in Slots, NEW f \in FileStates, NEW w \in Writes, w.file = Backup(s),
         NEW ma \in Nat, NEW mo \in Nat, NEW ba \in Nat, NEW bo \in Nat,
         NEW ca \in Nat, NEW co \in Nat,
         Holds(f, s, V(ma, mo), V(ba, bo)), Put(V(ba, bo), w) = V(ca, co),
         BackupStep(f, s, ma, mo, ba, bo, ca, co)
  PROVE  Reaches(f, <<w>>, s, V(ma, mo), V(ca, co))
<1>1. Main(s) \in FlashSaves /\ Backup(s) \in FlashSaves /\ Main(s) # Backup(s)
  BY FilesApart
<1>2. Whole(f[Main(s)]) = V(ma, mo) /\ Whole(f[Backup(s)]) = V(ba, bo)
  BY DEF Holds
<1>3. /\ GoodWrite(f, w) /\ Effect(f, w) \in FileStates
      /\ Effect(f, w)[Backup(s)] = V(ca, co)
      /\ \A i \in FlashSaves : i # Backup(s) => Effect(f, w)[i] = f[i]
  BY <1>2, GoodBackup
<1>4. V(ca, co) # Torn
  <2>1. Whole(f[Backup(s)]) \in Contents
    BY <1>1, VContents, BoundsAssumption DEF Whole, FileStates
  <2> QED  BY <1>2, <2>1, PutType, TornAssumption
<1>5. Holds(Effect(f, w), s, V(ma, mo), V(ca, co))
  BY <1>1, <1>2, <1>3, <1>4 DEF Holds, Whole
<1>6. SameElsewhere(f, Effect(f, w), s)
  BY <1>3 DEF SameElsewhere, FilesOf
<1>7. Plan(f, <<w>>, Effect(f, w))
  BY <1>3, PlanOne
<1> QED  BY <1>3, <1>5, <1>6, <1>7 DEF Reaches

(* The two calls of WriteOwlTwice, main file first, and the two writes of  *)
(* WriteSpecial, backup first.                                             *)
OwlPut(a, o, n) == IF n = 0 /\ a = 0 THEN V(0, 0) ELSE V(a, n)

NewCyclePut(a, o, n) == IF n = 0 THEN V(0, 0) ELSE V(n, o)

LEMMA Puts ==
  ASSUME NEW i \in FlashSaves, NEW n \in 0 .. MaxSaves
  PROVE  /\ WriteOwl(i, n) \in Writes /\ WriteOwl(i, n).file = i
         /\ WriteNewCycle(i, n) \in Writes /\ WriteNewCycle(i, n).file = i
         /\ \A a, o : /\ Put(V(a, o), WriteOwl(i, n)) = OwlPut(a, o, n)
                      /\ Put(V(a, o), WriteNewCycle(i, n)) = NewCyclePut(a, o, n)
BY DEF WriteOwl, WriteNewCycle, Op, Writes, Parts, Put, OwlWritten, NewCycleWritten,
       OwlPut, NewCyclePut, V, Absent

LEMMA OwlTwiceReaches ==
  ASSUME NEW s \in Slots, NEW f \in FileStates, NEW n \in 0 .. MaxSaves,
         NEW ma \in Nat, NEW mo \in Nat, NEW ba \in Nat, NEW bo \in Nat,
         NEW ca \in Nat, NEW co \in Nat, NEW da \in Nat, NEW do \in Nat,
         Holds(f, s, V(ma, mo), V(ba, bo)),
         OwlPut(ma, mo, n) = V(ca, co), OwlPut(ba, bo, n) = V(da, do),
         MainStep(f, s, ma, mo, ba, bo, ca, co), BackupStep(f, s, ca, co, ba, bo, da, do)
  PROVE  Reaches(f, WriteOwlTwice(s, n), s, V(ca, co), V(da, do))
<1> DEFINE v == WriteOwl(Main(s), n)
           w == WriteOwl(Backup(s), n)
<1>1. /\ v \in Writes /\ v.file = Main(s) /\ Put(V(ma, mo), v) = V(ca, co)
      /\ w \in Writes /\ w.file = Backup(s) /\ Put(V(ba, bo), w) = V(da, do)
  BY FilesApart, Puts
<1>2. WriteOwlTwice(s, n) = <<v>> \o <<w>>
  BY DEF WriteOwlTwice
<1> HIDE DEF v, w
<1>3. Reaches(f, <<v>>, s, V(ca, co), V(ba, bo))
  BY <1>1, MainWrite
<1>4. ASSUME NEW g \in FileStates, Holds(g, s, V(ca, co), V(ba, bo)), SameElsewhere(f, g, s)
      PROVE  Reaches(g, <<w>>, s, V(ca, co), V(da, do))
  <2>1. BackupStep(g, s, ca, co, ba, bo, da, do)
    BY <1>4, StepsElsewhere
  <2> QED  BY <1>1, <1>4, <2>1, BackupWrite
<1>5. <<v>> \in Seq(Writes) /\ <<w>> \in Seq(Writes)
  BY <1>1
<1>6. Reaches(f, <<v>> \o <<w>>, s, V(ca, co), V(da, do))
  BY <1>3, <1>4, <1>5, ReachesBoth
<1> QED  BY <1>2, <1>6

LEMMA SpecialReaches ==
  ASSUME NEW s \in Slots, NEW f \in FileStates, NEW n \in 0 .. MaxSaves,
         NEW ma \in Nat, NEW mo \in Nat, NEW ba \in Nat, NEW bo \in Nat,
         NEW ca \in Nat, NEW co \in Nat, NEW da \in Nat, NEW do \in Nat,
         Holds(f, s, V(ma, mo), V(ba, bo)),
         NewCyclePut(ma, mo, n) = V(ca, co), NewCyclePut(ba, bo, n) = V(da, do),
         BackupStep(f, s, ma, mo, ba, bo, da, do), MainStep(f, s, ma, mo, da, do, ca, co)
  PROVE  Reaches(f, WriteSpecial(s, n), s, V(ca, co), V(da, do))
<1> DEFINE v == WriteNewCycle(Backup(s), n)
           w == WriteNewCycle(Main(s), n)
<1>1. /\ v \in Writes /\ v.file = Backup(s) /\ Put(V(ba, bo), v) = V(da, do)
      /\ w \in Writes /\ w.file = Main(s) /\ Put(V(ma, mo), w) = V(ca, co)
  BY FilesApart, Puts
<1>2. WriteSpecial(s, n) = <<v>> \o <<w>>
  BY DEF WriteSpecial
<1> HIDE DEF v, w
<1>3. Reaches(f, <<v>>, s, V(ma, mo), V(da, do))
  BY <1>1, BackupWrite
<1>4. ASSUME NEW g \in FileStates, Holds(g, s, V(ma, mo), V(da, do)), SameElsewhere(f, g, s)
      PROVE  Reaches(g, <<w>>, s, V(ca, co), V(da, do))
  <2>1. MainStep(g, s, ma, mo, da, do, ca, co)
    BY <1>4, StepsElsewhere
  <2> QED  BY <1>1, <1>4, <2>1, MainWrite
<1>5. <<v>> \in Seq(Writes) /\ <<w>> \in Seq(Writes)
  BY <1>1
<1>6. Reaches(f, <<v>> \o <<w>>, s, V(ca, co), V(da, do))
  BY <1>3, <1>4, <1>5, ReachesBoth
<1> QED  BY <1>2, <1>6
(* The numbers of saves, which the steps below compute with. *)
LEMMA OwlZeroReaches ==
  ASSUME NEW s \in Slots, NEW f \in FileStates, NEW a \in Nat, NEW o \in Nat, a # 0,
         Holds(f, s, V(a, o), V(a, o))
  PROVE  Reaches(f, WriteOwlTwice(s, 0), s, V(a, 0), V(a, 0))
<1>1. OwlPut(a, o, 0) = V(a, 0)
  BY DEF OwlPut
<1>2. /\ FoundIn(0, 0, a, o) = V(a, o) /\ FoundIn(a, o, a, o) = V(a, o)
      /\ FoundIn(a, 0, a, o) = V(a, o) /\ FoundIn(a, 0, 0, 0) = V(a, 0)
      /\ FoundIn(a, 0, a, 0) = V(a, 0)
  BY FoundInIs DEF Either
<1>3. /\ Change(f, s, V(a, o), V(a, o)) /\ Change(f, s, V(a, o), V(a, 0))
      /\ Change(f, s, V(a, 0), V(a, 0))
  BY Changes
<1>4. MainStep(f, s, a, o, a, o, a, 0)
  BY <1>2, <1>3 DEF MainStep
<1>5. BackupStep(f, s, a, 0, a, o, a, 0)
  BY <1>2, <1>3 DEF BackupStep
<1>6. 0 \in 0 .. MaxSaves
  BY BoundsAssumption
<1> QED  BY <1>1, <1>4, <1>5, <1>6, OwlTwiceReaches

LEMMA OwlNothingReaches ==
  ASSUME NEW s \in Slots, NEW f \in FileStates, NEW n \in 0 .. MaxSaves,
         Holds(f, s, V(0, 0), V(0, 0))
  PROVE  Reaches(f, WriteOwlTwice(s, n), s, V(0, n), V(0, n))
<1>1. OwlPut(0, 0, n) = V(0, n) /\ n \in Nat
  BY BoundsAssumption DEF OwlPut
<1>2. \A x, y : FoundIn(0, x, 0, y) = V(0, 0)
  BY FoundInIs DEF Either
<1>3. Change(f, s, V(0, 0), V(0, 0))
  BY Changes
<1>4. MainStep(f, s, 0, 0, 0, 0, 0, n) /\ BackupStep(f, s, 0, n, 0, 0, 0, n)
  BY <1>1, <1>2, <1>3 DEF MainStep, BackupStep
<1> QED  BY <1>1, <1>4, OwlTwiceReaches

LEMMA OwlRepairReaches ==
  ASSUME NEW s \in Slots, NEW f \in FileStates, NEW a \in Nat, a # 0,
         NEW mo \in Nat, NEW bo \in Nat, mo # 0 => bo <= mo, Either(mo, bo) \in 0 .. MaxSaves,
         Holds(f, s, V(a, mo), V(a, bo))
  PROVE  Reaches(f, WriteOwlTwice(s, Either(mo, bo)), s, V(a, Either(mo, bo)), V(a, Either(mo, bo)))
<1> DEFINE n == Either(mo, bo)
<1>1. /\ n \in Nat /\ n \in 0 .. MaxSaves /\ (n = 0 => bo = 0 /\ mo = 0) /\ (mo # 0 => n = mo)
      /\ (mo = 0 => n = bo)
  BY DEF Either
<1>2. FoundIn(a, mo, a, bo) = V(a, n) /\ FoundIn(0, 0, a, bo) = V(a, bo)
      /\ FoundIn(a, n, 0, 0) = V(a, n)
  BY <1>1, FoundInIs DEF Either
<1>3. FoundIn(a, n, a, bo) = V(a, n) /\ FoundIn(a, n, a, n) = V(a, n)
  BY <1>1, FoundInIs DEF Either
<1>4. OwlPut(a, mo, n) = V(a, n) /\ OwlPut(a, bo, n) = V(a, n)
  BY DEF OwlPut
<1> HIDE DEF n
<1>5. Change(f, s, V(a, n), V(a, n))
  BY <1>1, Changes
<1>6. MainStep(f, s, a, mo, a, bo, a, n)
  <2>1. CASE mo # 0 /\ n # 0 /\ bo < mo
    BY <1>1, <1>2, <1>3, <1>5, <2>1 DEF MainStep
  <2>2. CASE ~(mo # 0 /\ n # 0 /\ bo < mo)
    <3>1. n = bo
      BY <1>1, <2>2
    <3> QED  BY <1>1, <1>2, <1>3, <1>5, <2>2, <3>1 DEF MainStep
  <2> QED  BY <2>1, <2>2
<1>7. BackupStep(f, s, a, n, a, bo, a, n)
  BY <1>1, <1>2, <1>3, <1>5 DEF BackupStep
<1>8. Reaches(f, WriteOwlTwice(s, n), s, V(a, n), V(a, n))
  BY <1>1, <1>4, <1>6, <1>7, OwlTwiceReaches
<1> QED  BY <1>8 DEF n

LEMMA NewCycleRepairReaches ==
  ASSUME NEW s \in Slots, NEW f \in FileStates, NEW ma \in Nat, NEW mo \in Nat,
         NEW ba \in Nat, NEW bo \in Nat, mo # 0 => bo <= mo,
         Either(ma, ba) \in 0 .. MaxSaves, Either(ma, ba) # 0,
         Holds(f, s, V(ma, mo), V(ba, bo))
  PROVE  Reaches(f, WriteSpecial(s, Either(ma, ba)), s, V(Either(ma, ba), mo), V(Either(ma, ba), bo))
<1> DEFINE n == Either(ma, ba)
           o == Either(mo, bo)
<1>1. /\ n \in Nat /\ n \in 0 .. MaxSaves /\ n # 0 /\ (ma # 0 => n = ma) /\ (ma = 0 => n = ba)
      /\ o \in Nat /\ (mo # 0 => o = mo) /\ (mo = 0 => o = bo)
  BY DEF Either
<1>2. /\ FoundIn(ma, mo, ba, bo) = V(n, o) /\ FoundIn(ma, mo, n, bo) = V(n, o)
      /\ FoundIn(n, mo, n, bo) = V(n, o) /\ FoundIn(0, 0, n, bo) = V(n, bo)
  BY <1>1, FoundInIs DEF Either
<1>3. ma # 0 /\ (bo = 0 \/ mo # 0) => FoundIn(ma, mo, 0, 0) = V(n, o)
  BY <1>1, FoundInIs DEF Either
<1>4. NewCyclePut(ma, mo, n) = V(n, mo) /\ NewCyclePut(ba, bo, n) = V(n, bo)
  BY <1>1 DEF NewCyclePut
<1> HIDE DEF n, o
<1>5. Change(f, s, V(n, o), V(n, o))
  BY <1>1, Changes
<1>6. BackupStep(f, s, ma, mo, ba, bo, n, bo)
  <2>1. CASE (ba # 0 /\ n # 0 /\ ma = 0) \/ (bo # 0 /\ bo # 0 /\ mo = 0)
    BY <1>2, <1>5, <2>1 DEF BackupStep
  <2>2. CASE ~((ba # 0 /\ n # 0 /\ ma = 0) \/ (bo # 0 /\ bo # 0 /\ mo = 0))
    <3>1. FoundIn(ma, mo, 0, 0) = V(n, o)
      BY <1>1, <1>3, <2>2
    <3> QED  BY <1>2, <1>5, <2>2, <3>1 DEF BackupStep
  <2> QED  BY <2>1, <2>2
<1>7. MainStep(f, s, ma, mo, n, bo, n, mo)
  <2>1. CASE (ma # 0 /\ n # 0 /\ n < ma) \/ (mo # 0 /\ mo # 0 /\ bo < mo)
    BY <1>2, <1>5, <2>1 DEF MainStep
  <2>2. CASE ~((ma # 0 /\ n # 0 /\ n < ma) \/ (mo # 0 /\ mo # 0 /\ bo < mo))
    <3>1. o = bo
      BY <1>1, <2>2
    <3> QED  BY <1>2, <1>5, <2>2, <3>1 DEF MainStep
  <2> QED  BY <2>1, <2>2
<1>8. n \in Nat /\ n \in 0 .. MaxSaves
  BY <1>1
<1>9. Reaches(f, WriteSpecial(s, n), s, V(n, mo), V(n, bo))
  BY <1>4, <1>6, <1>7, <1>8, SpecialReaches
<1> QED  BY <1>9 DEF n

(* Zeros over the new-cycle save erase the slot, or what was of no use     *)
(* without one.                                                            *)
LEMMA EraseReaches ==
  ASSUME NEW s \in Slots, NEW f \in FileStates, NEW ma \in Nat, NEW mo \in Nat,
         NEW ba \in Nat, NEW bo \in Nat,
         (ma = ba /\ mo = bo) \/ (ma = 0 /\ ba = 0),
         Holds(f, s, V(ma, mo), V(ba, bo))
  PROVE  Reaches(f, WriteSpecial(s, 0), s, V(0, 0), V(0, 0))
<1>1. \A x, y : NewCyclePut(x, y, 0) = V(0, 0)
  BY DEF NewCyclePut
<1>2. FoundIn(ma, mo, 0, 0) = FoundIn(ma, mo, ba, bo) /\ FoundIn(0, 0, 0, 0) = V(0, 0)
  BY FoundInIs DEF Either
<1>3. PICK a \in Nat, o \in Nat : FoundIn(ma, mo, ba, bo) = V(a, o)
  BY FoundInIs DEF Either
<1>4. Change(f, s, V(a, o), V(a, o)) /\ Change(f, s, V(a, o), V(0, 0))
      /\ Change(f, s, V(0, 0), V(0, 0))
  BY Changes
<1>5. BackupStep(f, s, ma, mo, ba, bo, 0, 0)
  BY <1>2, <1>3, <1>4 DEF BackupStep
<1>6. MainStep(f, s, ma, mo, 0, 0, 0, 0)
  BY <1>2, <1>3, <1>4 DEF MainStep
<1>7. 0 \in 0 .. MaxSaves
  BY BoundsAssumption
<1>8. NewCyclePut(ma, mo, 0) = V(0, 0) /\ NewCyclePut(ba, bo, 0) = V(0, 0)
  BY <1>1
<1>9. PICK z \in Nat : z = 0
  OBVIOUS
<1>10. NewCyclePut(ma, mo, z) = V(z, z) /\ NewCyclePut(ba, bo, z) = V(z, z)
       /\ z \in 0 .. MaxSaves
  BY <1>7, <1>8, <1>9
<1>11. BackupStep(f, s, ma, mo, ba, bo, z, z) /\ MainStep(f, s, ma, mo, z, z, z, z)
  BY <1>5, <1>6, <1>9
<1>12. Reaches(f, WriteSpecial(s, z), s, V(z, z), V(z, z))
  BY <1>10, <1>11, SpecialReaches
<1> QED  BY <1>9, <1>12

(* A new save for a slot whose files agree. *)
LEMMA NewCycleReaches ==
  ASSUME NEW s \in Slots, NEW f \in FileStates, NEW n \in 1 .. MaxSaves,
         NEW a \in Nat, NEW o \in Nat, a # 0 \/ o = 0, n > a, n > o, OthersOlder(f, s, n),
         Holds(f, s, V(a, o), V(a, o))
  PROVE  Reaches(f, WriteSpecial(s, n), s, V(n, o), V(n, o))
<1>1. /\ n \in Nat /\ n # 0 /\ n \in 0 .. MaxSaves
      /\ \A x, y : NewCyclePut(x, y, n) = V(n, y)
  BY BoundsAssumption DEF NewCyclePut
<1>2. /\ FoundIn(a, o, a, o) = V(a, o) /\ FoundIn(a, o, 0, 0) = V(a, o)
      /\ FoundIn(0, 0, n, o) = V(n, o) /\ FoundIn(n, o, n, o) = V(n, o)
      /\ FoundIn(a, o, n, o) = V(a, o) \/ FoundIn(a, o, n, o) = V(n, o)
  BY <1>1, FoundInIs DEF Either
<1>3. /\ Change(f, s, V(a, o), V(a, o)) /\ Change(f, s, V(a, o), V(n, o))
      /\ Change(f, s, V(n, o), V(n, o))
  BY <1>1, Changes
<1>4. BackupStep(f, s, a, o, a, o, n, o)
  BY <1>1, <1>2, <1>3 DEF BackupStep
<1>5. MainStep(f, s, a, o, n, o, n, o)
  BY <1>1, <1>2, <1>3 DEF MainStep
<1> QED  BY <1>1, <1>4, <1>5, SpecialReaches

(* The second half of a copy: the owl save is there already. *)
LEMMA CopyReaches ==
  ASSUME NEW s \in Slots, NEW f \in FileStates, NEW n \in 1 .. MaxSaves, NEW o \in Nat,
         NEW t \in Slots \ {s}, Rec(f, t) = V(n, o),
         Holds(f, s, V(0, o), V(0, o))
  PROVE  Reaches(f, WriteSpecial(s, n), s, V(n, o), V(n, o))
<1>1. /\ n \in Nat /\ n # 0 /\ n \in 0 .. MaxSaves
      /\ \A x, y : NewCyclePut(x, y, n) = V(n, y)
  BY BoundsAssumption DEF NewCyclePut
<1>2. /\ FoundIn(0, o, 0, o) = V(0, 0) /\ FoundIn(0, o, 0, 0) = V(0, 0)
      /\ FoundIn(0, 0, n, o) = V(n, o) /\ FoundIn(n, o, n, o) = V(n, o)
      /\ FoundIn(0, o, n, o) = V(n, o)
  BY <1>1, FoundInIs DEF Either
<1>3. /\ Change(f, s, V(0, 0), V(0, 0)) /\ Change(f, s, V(n, o), V(n, o))
  BY <1>1, Changes
<1>4. Change(f, s, V(0, 0), V(n, o))
  BY Changes
<1>5. BackupStep(f, s, 0, o, 0, o, n, o)
  BY <1>1, <1>2, <1>3, <1>4 DEF BackupStep
<1>6. MainStep(f, s, 0, o, n, o, n, o)
  BY <1>1, <1>2, <1>3 DEF MainStep
<1> QED  BY <1>1, <1>5, <1>6, SpecialReaches

(* Handlers that write only one file, or delete both. *)
LEMMA NewDayReaches ==
  ASSUME NEW s \in Slots, NEW f \in FileStates, NEW n \in 1 .. MaxSaves,
         NEW a \in Nat, NEW o \in Nat, a # 0, n > a, n > o, OthersOlder(f, s, n),
         Holds(f, s, V(a, o), V(a, o))
  PROVE  Reaches(f, <<WriteNewCycle(Main(s), n)>>, s, V(n, o), V(a, o))
<1>1. n \in Nat /\ n # 0 /\ n \in 0 .. MaxSaves /\ NewCyclePut(a, o, n) = V(n, o)
  BY BoundsAssumption DEF NewCyclePut
<1>2. /\ FoundIn(a, o, a, o) = V(a, o) /\ FoundIn(0, 0, a, o) = V(a, o)
      /\ FoundIn(n, o, a, o) = V(n, o)
  BY <1>1, FoundInIs DEF Either
<1>3. Change(f, s, V(a, o), V(a, o)) /\ Change(f, s, V(a, o), V(n, o))
  BY <1>1, Changes
<1>4. MainStep(f, s, a, o, a, o, n, o)
  BY <1>1, <1>2, <1>3 DEF MainStep
<1>5. /\ WriteNewCycle(Main(s), n) \in Writes /\ WriteNewCycle(Main(s), n).file = Main(s)
      /\ Put(V(a, o), WriteNewCycle(Main(s), n)) = V(n, o)
  BY <1>1, FilesApart, Puts
<1> QED  BY <1>1, <1>4, <1>5, MainWrite

LEMMA OwlMainReaches ==
  ASSUME NEW s \in Slots, NEW f \in FileStates, NEW n \in 1 .. MaxSaves,
         NEW a \in Nat, NEW o \in Nat, a # 0, n > a, n > o, OthersOlder(f, s, n),
         Holds(f, s, V(a, o), V(a, o))
  PROVE  Reaches(f, <<WriteOwl(Main(s), n)>>, s, V(a, n), V(a, o))
<1>1. n \in Nat /\ n # 0 /\ n \in 0 .. MaxSaves /\ OwlPut(a, o, n) = V(a, n)
  BY BoundsAssumption DEF OwlPut
<1>2. /\ FoundIn(a, o, a, o) = V(a, o) /\ FoundIn(0, 0, a, o) = V(a, o)
      /\ FoundIn(a, n, a, o) = V(a, n)
  BY <1>1, FoundInIs DEF Either
<1>3. Change(f, s, V(a, o), V(a, o)) /\ Change(f, s, V(a, o), V(a, n))
  BY <1>1, Changes
<1>4. MainStep(f, s, a, o, a, o, a, n)
  BY <1>1, <1>2, <1>3 DEF MainStep
<1>5. /\ WriteOwl(Main(s), n) \in Writes /\ WriteOwl(Main(s), n).file = Main(s)
      /\ Put(V(a, o), WriteOwl(Main(s), n)) = V(a, n)
  BY <1>1, FilesApart, Puts
<1> QED  BY <1>1, <1>4, <1>5, MainWrite

LEMMA OwlBackupReaches ==
  ASSUME NEW s \in Slots, NEW f \in FileStates, NEW n \in 1 .. MaxSaves,
         NEW a \in Nat, NEW o \in Nat, a # 0,
         Holds(f, s, V(a, n), V(a, o))
  PROVE  Reaches(f, <<WriteOwl(Backup(s), n)>>, s, V(a, n), V(a, n))
<1>1. n \in Nat /\ n # 0 /\ n \in 0 .. MaxSaves /\ OwlPut(a, o, n) = V(a, n)
  BY BoundsAssumption DEF OwlPut
<1>2. /\ FoundIn(a, n, a, o) = V(a, n) /\ FoundIn(a, n, 0, 0) = V(a, n)
      /\ FoundIn(a, n, a, n) = V(a, n)
  BY <1>1, FoundInIs DEF Either
<1>3. Change(f, s, V(a, n), V(a, n))
  BY <1>1, Changes
<1>4. BackupStep(f, s, a, n, a, o, a, n)
  BY <1>1, <1>2, <1>3 DEF BackupStep
<1>5. /\ WriteOwl(Backup(s), n) \in Writes /\ WriteOwl(Backup(s), n).file = Backup(s)
      /\ Put(V(a, o), WriteOwl(Backup(s), n)) = V(a, n)
  BY <1>1, FilesApart, Puts
<1> QED  BY <1>1, <1>4, <1>5, BackupWrite

LEMMA ImportReaches ==
  ASSUME NEW s \in Slots, NEW f \in FileStates, NEW n \in 1 .. MaxSaves,
         OthersOlder(f, s, n), Holds(f, s, V(0, 0), V(0, 0))
  PROVE  Reaches(f, <<Op(Main(s), "import", n)>>, s, V(n, 0), V(0, 0))
<1> DEFINE w == Op(Main(s), "import", n)
<1>1. n \in Nat /\ n # 0 /\ n > 0 /\ n \in 0 .. MaxSaves
  BY BoundsAssumption
<1>2. w \in Writes /\ w.file = Main(s) /\ Put(V(0, 0), w) = V(n, 0)
  BY <1>1, FilesApart DEF Op, Writes, Parts, Put, NewCycleWritten, V, Absent
<1>3. FoundIn(0, 0, 0, 0) = V(0, 0) /\ FoundIn(n, 0, 0, 0) = V(n, 0)
  BY <1>1, FoundInIs DEF Either
<1>4. Change(f, s, V(0, 0), V(0, 0)) /\ Change(f, s, V(0, 0), V(n, 0))
  BY <1>1, Changes
<1>5. MainStep(f, s, 0, 0, 0, 0, n, 0)
  BY <1>1, <1>3, <1>4 DEF MainStep
<1> HIDE DEF w
<1>6. Reaches(f, <<w>>, s, V(n, 0), V(0, 0))
  BY <1>1, <1>2, <1>5, MainWrite
<1> QED  BY <1>6 DEF w

LEMMA DeleteReaches ==
  ASSUME NEW s \in Slots, NEW f \in FileStates, NEW a \in Nat, NEW o \in Nat, a # 0,
         Holds(f, s, V(a, o), V(a, o))
  PROVE  Reaches(f, <<Op(Main(s), "delete", 0), Op(Backup(s), "delete", 0)>>, s, V(0, 0), V(0, 0))
<1> DEFINE v == Op(Main(s), "delete", 0)
           w == Op(Backup(s), "delete", 0)
<1>1. /\ v \in Writes /\ v.file = Main(s) /\ Put(V(a, o), v) = V(0, 0)
      /\ w \in Writes /\ w.file = Backup(s) /\ Put(V(a, o), w) = V(0, 0)
  BY FilesApart, BoundsAssumption DEF Op, Writes, Parts, Put, NewCycleWritten, V, Absent
<1>2. /\ FoundIn(a, o, a, o) = V(a, o) /\ FoundIn(0, 0, a, o) = V(a, o)
      /\ FoundIn(0, 0, 0, 0) = V(0, 0)
  BY FoundInIs DEF Either
<1>3. /\ Change(f, s, V(a, o), V(a, o)) /\ Change(f, s, V(a, o), V(0, 0))
      /\ Change(f, s, V(0, 0), V(0, 0))
  BY Changes
<1>4. MainStep(f, s, a, o, a, o, 0, 0)
  BY <1>2, <1>3 DEF MainStep
<1>5. BackupStep(f, s, 0, 0, a, o, 0, 0)
  BY <1>2, <1>3 DEF BackupStep
<1>6. <<v, w>> = <<v>> \o <<w>>
  OBVIOUS
<1> HIDE DEF v, w
<1>7. Reaches(f, <<v>>, s, V(0, 0), V(a, o))
  BY <1>1, <1>4, MainWrite
<1>8. ASSUME NEW g \in FileStates, Holds(g, s, V(0, 0), V(a, o)), SameElsewhere(f, g, s)
      PROVE  Reaches(g, <<w>>, s, V(0, 0), V(0, 0))
  <2>1. BackupStep(g, s, 0, 0, a, o, 0, 0)
    BY <1>5, <1>8, StepsElsewhere
  <2> QED  BY <1>1, <1>8, <2>1, BackupWrite
<1>9. <<v>> \in Seq(Writes) /\ <<w>> \in Seq(Writes)
  BY <1>1
<1>10. Reaches(f, <<v>> \o <<w>>, s, V(0, 0), V(0, 0))
  BY <1>7, <1>8, <1>9, ReachesBoth
<1> QED  BY <1>6, <1>10 DEF v, w
-----------------------------------------------------------------------------
(* The invariant of the refinement: the writes still to do are a plan, the *)
(* open file is at one of its two moments, the files hold no save that the *)
(* game has not made and no backup of an owl save newer than the main one, *)
(* and the played slot will be as its handlers need it.                    *)
Older(f, n) ==
  \A i \in FlashSaves : Whole(f[i]).newCycleSave <= n /\ Whole(f[i]).owlSave <= n

InOrder(f) == \A s \in Slots : OwlsInOrder(f, s)

MadeBy(n) == {w \in Writes : w.save <= n}

LateIsPlayed == late <= saves /\ (late # 0 => phase = "play")

(* The two files of the slot that is played agree, but for the owl save    *)
(* whose backup is late; a slot that was deleted has neither.              *)
PlayedWillBe(g) ==
  /\ phase = "play" =>
       \E a, m, b \in Nat :
         /\ a # 0 /\ Holds(g, fileNum, V(a, m), V(a, b))
         /\ m = IF late = 0 THEN b ELSE late
  /\ InPlay /\ Whole(g[Main(fileNum)]) = Absent => Whole(g[Backup(fileNum)]) = Absent

Planned == \E g \in FileStates : Plan(Current, pending, g) /\ PlayedWillBe(g)

OpenIsGood ==
  writing.open =>
    \A s \in Slots : writing.file \in FilesOf(s) =>
      Change(Current, s, Recovered(s), Rec(Current, s))

RefInv ==
  /\ KeepInv
  /\ Older(Current, saves) /\ InOrder(Current)
  /\ pending \in Seq(MadeBy(saves)) /\ LateIsPlayed
  /\ Planned /\ OpenIsGood

LEMMA WholeIs ==
  /\ \A f \in FileStates, i \in FlashSaves : Whole(f[i]) \in Contents
  /\ \A c \in Contents : Whole(c) = c
  /\ Torn # Absent
BY TornAssumption, VContents, BoundsAssumption DEF Whole, FileStates

LEMMA SlotHolds ==
  ASSUME NEW f \in FileStates, NEW s \in Slots
  PROVE  \E ma, mo, ba, bo \in 0 .. MaxSaves : Holds(f, s, V(ma, mo), V(ba, bo))
<1>1. Whole(f[Main(s)]) \in Contents /\ Whole(f[Backup(s)]) \in Contents
  BY WholeIs, FilesApart
<1>2. PICK m \in Contents, b \in Contents : Whole(f[Main(s)]) = m /\ Whole(f[Backup(s)]) = b
  BY <1>1
<1>3. /\ m = V(m.newCycleSave, m.owlSave) /\ b = V(b.newCycleSave, b.owlSave)
      /\ m.newCycleSave \in 0 .. MaxSaves /\ m.owlSave \in 0 .. MaxSaves
      /\ b.newCycleSave \in 0 .. MaxSaves /\ b.owlSave \in 0 .. MaxSaves
  BY VContents
<1> QED  BY <1>2, <1>3 DEF Holds

(* A save that is newer than everything in the files. *)
LEMMA NewerThanAll ==
  ASSUME NEW f \in FileStates, NEW n \in Nat, Older(f, n), NEW s \in Slots
  PROVE  /\ OthersOlder(f, s, n + 1)
         /\ \A a, o, c, p \in Nat : Holds(f, s, V(a, o), V(c, p)) =>
              n + 1 > a /\ n + 1 > o /\ n + 1 > c /\ n + 1 > p
<1>1. ASSUME NEW t \in Slots
      PROVE  \E ma, mo, ba, bo \in Nat :
               /\ Holds(f, t, V(ma, mo), V(ba, bo))
               /\ ma <= n /\ mo <= n /\ ba <= n /\ bo <= n
  <2>1. PICK ma \in Nat, mo \in Nat, ba \in Nat, bo \in Nat :
          Holds(f, t, V(ma, mo), V(ba, bo))
    BY SlotHolds
  <2>2. /\ V(ma, mo).newCycleSave = ma /\ V(ma, mo).owlSave = mo
        /\ V(ba, bo).newCycleSave = ba /\ V(ba, bo).owlSave = bo
    BY DEF V
  <2>3. ma <= n /\ mo <= n /\ ba <= n /\ bo <= n
    BY <2>1, <2>2, FilesApart DEF Older, Holds
  <2> QED  BY <2>1, <2>3
<1>2. ASSUME NEW t \in Slots
      PROVE  n + 1 > Rec(f, t).newCycleSave /\ n + 1 > Rec(f, t).owlSave
  <2>1. PICK ma \in Nat, mo \in Nat, ba \in Nat, bo \in Nat :
          /\ Holds(f, t, V(ma, mo), V(ba, bo))
          /\ ma <= n /\ mo <= n /\ ba <= n /\ bo <= n
    BY <1>1
  <2>2. Rec(f, t) = FoundIn(ma, mo, ba, bo)
    BY <2>1 DEF Rec, FoundIn, Holds
  <2>3. PICK a \in Nat, o \in Nat : FoundIn(ma, mo, ba, bo) = V(a, o) /\ a <= n /\ o <= n
    BY <2>1, FoundInIs DEF Either
  <2>4. V(a, o).newCycleSave = a /\ V(a, o).owlSave = o
    BY DEF V
  <2> QED  BY <2>2, <2>3, <2>4
<1>3. ASSUME NEW a \in Nat, NEW o \in Nat, NEW c \in Nat, NEW p \in Nat,
             Holds(f, s, V(a, o), V(c, p))
      PROVE  n + 1 > a /\ n + 1 > o /\ n + 1 > c /\ n + 1 > p
  <2>1. /\ V(a, o).newCycleSave = a /\ V(a, o).owlSave = o
        /\ V(c, p).newCycleSave = c /\ V(c, p).owlSave = p
    BY DEF V
  <2>2. a <= n /\ o <= n /\ c <= n /\ p <= n
    BY <1>3, <2>1, FilesApart DEF Older, Holds
  <2> QED  BY <2>2
<1> QED  BY <1>2, <1>3 DEF OthersOlder

-----------------------------------------------------------------------------
(* What a restart recovers, at each moment of a write. *)
LEMMA RecoveredForm ==
  ASSUME NEW m \in Contents, NEW b \in Contents, NEW r,
         r = IF Either(m["newCycleSave"], b["newCycleSave"]) = 0 THEN Absent
             ELSE [part \in Parts |-> Either(m[part], b[part])]
  PROVE  r = Found(m, b)
<1> DEFINE a == Either(m.newCycleSave, b.newCycleSave)
           o == Either(m.owlSave, b.owlSave)
           v == [part \in Parts |-> Either(m[part], b[part])]
<1>1. a \in 0 .. MaxSaves /\ o \in 0 .. MaxSaves
  BY VContents DEF Either
<1>2. m["newCycleSave"] = m.newCycleSave /\ b["newCycleSave"] = b.newCycleSave
      /\ m["owlSave"] = m.owlSave /\ b["owlSave"] = b.owlSave
  OBVIOUS
<1>3. v["newCycleSave"] = a /\ v["owlSave"] = o
  BY <1>2 DEF Parts
<1>4. \A part \in Parts : Either(m[part], b[part]) \in 0 .. MaxSaves
  BY <1>1, <1>2 DEF Parts
<1>5. v \in Contents
  BY <1>4 DEF Contents
<1>6. v.newCycleSave = a /\ v.owlSave = o
  BY <1>3
<1>7. V(a, o) \in Contents /\ V(a, o).newCycleSave = a /\ V(a, o).owlSave = o
  BY <1>1, VContents DEF V
<1>8. v = V(a, o)
  BY <1>5, <1>6, <1>7, PartsEqual
<1>9. r = IF a = 0 THEN Absent ELSE V(a, o)
  BY <1>2, <1>8
<1> QED  BY <1>9 DEF Found

LEMMA RecoveredIs ==
  ASSUME NEW s \in Slots, NEW m \in Contents, NEW b \in Contents,
         Settled(Main(s)) = m, Settled(Backup(s)) = b
  PROVE  Recovered(s) = Found(m, b)
<1>1. \A part : RecoveredPart(s, part) = Either(m[part], b[part])
  BY DEF RecoveredPart, Either
<1>2. Recovered(s) = IF Either(m["newCycleSave"], b["newCycleSave"]) = 0 THEN Absent
                     ELSE [part \in Parts |-> Either(m[part], b[part])]
  BY <1>1 DEF Recovered
<1> QED  BY <1>2, RecoveredForm

LEMMA RecoveredIsNext ==
  ASSUME NEW s \in Slots, NEW m \in Contents, NEW b \in Contents,
         Settled(Main(s))' = m, Settled(Backup(s))' = b
  PROVE  Recovered(s)' = Found(m, b)
<1>1. \A part : RecoveredPart(s, part)' = Either(m[part], b[part])
  BY DEF RecoveredPart, Either, Main, Backup
<1>2. Recovered(s)' = IF Either(m["newCycleSave"], b["newCycleSave"]) = 0 THEN Absent
                      ELSE [part \in Parts |-> Either(m[part], b[part])]
  BY <1>1 DEF Recovered
<1> QED  BY <1>2, RecoveredForm

LEMMA ReadIsWhole ==
  /\ \A i : ReadSaveFile(i) = Whole(files[i])
  /\ \A i : ReadSaveFile(i)' = Whole(files'[i])
BY DEF ReadSaveFile, Whole

LEMMA FilesTyped ==
  /\ IInv => files \in FileStates /\ Current \in FileStates
  /\ IInv' => files' \in FileStates /\ Current' \in FileStates
<1>1. \A f, w : /\ f \in FileStates /\ w.content \in Contents
                => [f EXCEPT ![w.file] = w.content] \in FileStates
  BY DEF FileStates
<1>2. IInv => files \in FileStates /\ writing.content \in Contents
  BY DEF IInv, TypeOK, FileStates
<1>3. IInv' => files' \in FileStates /\ writing'.content \in Contents
  BY DEF IInv, TypeOK, FileStates
<1> QED  BY <1>1, <1>2, <1>3 DEF Current

LEMMA RecoveredWhenClosed ==
  ASSUME IInv, NEW s \in Slots, writing.open => writing.file \notin FilesOf(s)
  PROVE  Recovered(s) = Rec(files, s) /\ Recovered(s) = Rec(Current, s)
<1>1. Settled(Main(s)) = Whole(files[Main(s)]) /\ Settled(Backup(s)) = Whole(files[Backup(s)])
  BY ReadIsWhole DEF Settled, FilesOf, SoleCopyOpen
<1>2. Whole(files[Main(s)]) \in Contents /\ Whole(files[Backup(s)]) \in Contents
  BY WholeIs, FilesTyped, FilesApart
<1>3. Recovered(s) = Rec(files, s)
  BY <1>1, <1>2, RecoveredIs DEF Rec
<1>4. Current[Main(s)] = files[Main(s)] /\ Current[Backup(s)] = files[Backup(s)]
  BY FilesTyped, FilesApart DEF Current, FilesOf, FileStates
<1> QED  BY <1>3, <1>4 DEF Rec

LEMMA RecoveredWhenClosedNext ==
  ASSUME IInv', NEW s \in Slots, writing'.open => writing'.file \notin FilesOf(s)
  PROVE  Recovered(s)' = Rec(files', s)
<1>1. Settled(Main(s))' = Whole(files'[Main(s)]) /\ Settled(Backup(s))' = Whole(files'[Backup(s)])
  BY ReadIsWhole DEF Settled, FilesOf, SoleCopyOpen, Main, Backup
<1>2. Whole(files'[Main(s)]) \in Contents /\ Whole(files'[Backup(s)]) \in Contents
  BY WholeIs, FilesTyped, FilesApart
<1> QED  BY <1>1, <1>2, RecoveredIsNext DEF Rec
(* The file that is opened counts as SoleCopyOpen counts it. *)
LEMMA OpenedIsSole ==
  ASSUME IInv, NEW w \in Writes, Written(w) # Absent, ~writing.open,
         files' = [files EXCEPT ![w.file] = Torn],
         writing' = [file |-> w.file, was |-> ReadSaveFile(w.file),
                     content |-> Written(w), open |-> TRUE]
  PROVE  SoleCopyOpen' <=> OnlyCopy(files, w)
<1>1. /\ writing'.open /\ writing'.file = w.file /\ writing'.was = Whole(files[w.file])
      /\ writing'.content = Put(Whole(files[w.file]), w)
  BY ReadIsWhole DEF Written, Put
<1>2. \A i \in FlashSaves : i # w.file => files'[i] = files[i]
  BY FilesTyped DEF FileStates
<1>3. ASSUME NEW s \in Slots, NEW part \in Parts
      PROVE  /\ w.file = Main(s) => ReadData(Backup(s), part)' = Whole(files[Backup(s)])[part]
             /\ w.file = Backup(s) => ReadData(Main(s), part)' = Whole(files[Main(s)])[part]
  <2>1. /\ ReadData(Backup(s), part)' = Whole(files'[Backup(s)])[part]
        /\ ReadData(Main(s), part)' = Whole(files'[Main(s)])[part]
    BY ReadIsWhole DEF ReadData, Main, Backup
  <2> QED  BY <1>2, <2>1, FilesApart
<1>4. SoleCopyOpen' <=>
        \E s \in Slots, part \in Parts :
          /\ writing'.was[part] # 0 /\ writing'.content[part] # 0
          /\ \/ writing'.file = Main(s) /\ ReadData(Backup(s), part)' < writing'.was[part]
             \/ writing'.file = Backup(s) /\ ReadData(Main(s), part)' = 0
  BY <1>1 DEF SoleCopyOpen, Main, Backup
<1>5. OnlyCopy(files, w) <=>
        \E s \in Slots, part \in Parts :
          /\ writing'.was[part] # 0 /\ writing'.content[part] # 0
          /\ \/ w.file = Main(s) /\ Whole(files[Backup(s)])[part] < writing'.was[part]
             \/ w.file = Backup(s) /\ Whole(files[Main(s)])[part] = 0
  BY <1>1 DEF OnlyCopy
<1> QED  BY <1>1, <1>3, <1>4, <1>5

LEMMA StartWriteRecovers ==
  ASSUME IInv, IInv', StartWrite, NEW w, w = Head(pending), NEW s \in Slots
  PROVE  Recovered(s)' = Rec(Opened(files, w), s)
<1>1. w \in Writes /\ ~writing.open /\ files \in FileStates /\ w.file \in FlashSaves
  BY StartWriteFiles, FilesTyped DEF Writes
<1>2. Put(Whole(files[w.file]), w) = Written(w)
  BY ReadIsWhole DEF Written, Put
<1>3. CASE Written(w) = Absent
  <2>1. files' = [files EXCEPT ![w.file] = Absent] /\ ~writing'.open
    BY <1>1, <1>3 DEF StartWrite
  <2>2. Opened(files, w) = files'
    BY <1>2, <1>3, <2>1 DEF Opened
  <2> QED  BY <2>1, <2>2, RecoveredWhenClosedNext
<1>4. CASE Written(w) # Absent
  <2>1. /\ files' = [files EXCEPT ![w.file] = Torn]
        /\ writing' = [file |-> w.file, was |-> ReadSaveFile(w.file),
                       content |-> Written(w), open |-> TRUE]
    BY <1>4 DEF StartWrite
  <2>2. SoleCopyOpen' <=> OnlyCopy(files, w)
    BY <1>1, <1>4, <2>1, OpenedIsSole
  <2>3. Written(w) \in Contents /\ Absent \in Contents
    <3>1. Whole(files[w.file]) \in Contents
      BY <1>1, WholeIs
    <3> QED  BY <1>1, <1>2, <3>1, PutType, VContents, BoundsAssumption
  <2>4. ASSUME NEW i \in FlashSaves
        PROVE  /\ (IF SoleCopyOpen' /\ writing'.file = i THEN writing'.content
                   ELSE ReadSaveFile(i)') = Whole(Opened(files, w)[i])
               /\ Whole(Opened(files, w)[i]) \in Contents
    <3>1. writing'.file = w.file /\ writing'.content = Written(w)
      BY <2>1
    <3>2. CASE i = w.file
      <4>1. Opened(files, w)[i] = IF OnlyCopy(files, w) THEN Written(w) ELSE Absent
        BY <1>1, <1>2, <3>2 DEF Opened, FileStates
      <4>2. ReadSaveFile(i)' = Absent
        BY <1>1, <2>1, <3>2 DEF ReadSaveFile, FileStates
      <4> QED  BY <2>2, <2>3, <3>1, <3>2, <4>1, <4>2, WholeIs
    <3>3. CASE i # w.file
      <4>1. Opened(files, w)[i] = files[i] /\ files'[i] = files[i]
        BY <1>1, <2>1, <3>3 DEF Opened, FileStates
      <4> QED  BY <1>1, <3>1, <3>3, <4>1, ReadIsWhole, WholeIs
    <3> QED  BY <3>2, <3>3
  <2>5. /\ Settled(Main(s))' = Whole(Opened(files, w)[Main(s)])
        /\ Settled(Backup(s))' = Whole(Opened(files, w)[Backup(s)])
    BY <2>4, FilesApart DEF Settled, Main, Backup
  <2>6. Whole(Opened(files, w)[Main(s)]) \in Contents /\ Whole(Opened(files, w)[Backup(s)]) \in Contents
    BY <2>4, FilesApart
  <2> QED  BY <2>5, <2>6, RecoveredIsNext DEF Rec
<1> QED  BY <1>3, <1>4

(* The write that is started is the first of the plan. *)
LEMMA CurrentMoves ==
  ASSUME IInv, StartWrite, NEW w, w = Head(pending)
  PROVE  Current = files /\ files \in FileStates /\ Current' = Effect(files, w)
<1>1. ~writing.open /\ w \in Writes /\ w.file \in FlashSaves /\ files \in FileStates
  BY StartWriteFiles, FilesTyped DEF Writes
<1>2. Put(Whole(files[w.file]), w) = Written(w)
  BY ReadIsWhole DEF Written, Put
<1>3. Effect(files, w) = [files EXCEPT ![w.file] = Written(w)]
  BY <1>2 DEF Effect
<1>4. CASE Written(w) = Absent
  BY <1>1, <1>3, <1>4 DEF StartWrite, Current
<1>5. CASE Written(w) # Absent
  <2>1. /\ files' = [files EXCEPT ![w.file] = Torn]
        /\ writing' = [file |-> w.file, was |-> ReadSaveFile(w.file),
                       content |-> Written(w), open |-> TRUE]
    BY <1>5 DEF StartWrite
  <2>2. Current' = [files' EXCEPT ![w.file] = Written(w)]
    BY <2>1 DEF Current
  <2>3. [files' EXCEPT ![w.file] = Written(w)] = [files EXCEPT ![w.file] = Written(w)]
    BY <1>1, <2>1 DEF FileStates
  <2> QED  BY <1>1, <1>3, <2>2, <2>3 DEF Current
<1> QED  BY <1>4, <1>5

LEMMA RefTypes ==
  RefInv => /\ IInv /\ saves \in Nat /\ NumSlots \in Nat /\ fileNum \in Slots
            /\ files \in FileStates /\ Current \in FileStates
            /\ pending \in Seq(Writes)
BY FilesTyped, BoundsAssumption, SlotsAssumption
   DEF RefInv, KeepInv, PlayInv, SelectInv, IInv, TypeOK, MadeBy, Writes

LEMMA StartWritePlan ==
  ASSUME RefInv, StartWrite, NEW w, w = Head(pending)
  PROVE  /\ w \in MadeBy(saves) /\ pending' \in Seq(MadeBy(saves))
         /\ GoodWrite(files, w)
         /\ \E g \in FileStates : Plan(Current', pending', g) /\ PlayedWillBe(g)
<1>1. /\ pending # <<>> /\ pending' = Tail(pending) /\ pending \in Seq(MadeBy(saves))
      /\ pending \in Seq(Writes)
  BY RefTypes DEF StartWrite, RefInv
<1>2. w \in MadeBy(saves) /\ pending' \in Seq(MadeBy(saves))
  BY <1>1, HeadTailProperties
<1>3. Current = files /\ Current' = Effect(files, w)
  BY CurrentMoves, RefTypes
<1>4. PICK g \in FileStates : Plan(files, pending, g) /\ PlayedWillBe(g)
  BY <1>3 DEF RefInv, Planned
<1>5. GoodWrite(files, w) /\ Plan(Effect(files, w), Tail(pending), g)
  BY <1>1, <1>4, PlanRest
<1> QED  BY <1>1, <1>2, <1>3, <1>4, <1>5

LEMMA PutMade ==
  ASSUME NEW j \in Contents, NEW n \in Nat, NEW w \in Writes,
         w.save <= n, j.newCycleSave <= n, j.owlSave <= n
  PROVE  Put(j, w).newCycleSave <= n /\ Put(j, w).owlSave <= n
<1>1. w.save \in 0 .. MaxSaves /\ w.save \in Nat /\ Absent \in Contents
  BY VContents, BoundsAssumption DEF Writes
<1>2. /\ NewCycleWritten(j, w.save).newCycleSave = w.save
      /\ NewCycleWritten(j, w.save).owlSave \in {0, j.owlSave}
      /\ NewCycleWritten(Absent, w.save).newCycleSave = w.save
      /\ NewCycleWritten(Absent, w.save).owlSave = 0
      /\ OwlWritten(j, w.save).newCycleSave = j.newCycleSave
      /\ OwlWritten(j, w.save).owlSave = w.save
  <2>1. NewCycleWritten(j, w.save).owlSave = IF w.save = 0 THEN 0 ELSE j.owlSave
    BY <1>1, NewCycleWrittenIs
  <2>2. NewCycleWritten(Absent, w.save).owlSave = IF w.save = 0 THEN 0 ELSE Absent.owlSave
    BY <1>1, NewCycleWrittenIs
  <2>3. Absent.owlSave = 0
    BY DEF Absent
  <2> QED  BY <1>1, <2>1, <2>2, <2>3, NewCycleWrittenIs, OwlWrittenIs
<1> QED  BY <1>1, <1>2 DEF Put

(* The effect of a write on the files' order and age. *)
LEMMA EffectSound ==
  ASSUME NEW f \in FileStates, NEW n \in Nat, NEW w \in MadeBy(n),
         Older(f, n), InOrder(f), GoodWrite(f, w)
  PROVE  Effect(f, w) \in FileStates /\ Older(Effect(f, w), n) /\ InOrder(Effect(f, w))
<1>1. w \in Writes /\ w.file \in FlashSaves /\ w.save <= n
  BY DEF MadeBy, Writes
<1> DEFINE c == Put(Whole(f[w.file]), w)
<1>2. c \in Contents /\ c # Torn /\ Whole(c) = c
  BY <1>1, WholeIs, PutType, TornAssumption
<1>3. c.newCycleSave <= n /\ c.owlSave <= n
  <2>1. Whole(f[w.file]) \in Contents
    BY <1>1, WholeIs
  <2> QED  BY <1>1, <2>1, PutMade DEF Older
<1> HIDE DEF c
<1>4. /\ Effect(f, w)[w.file] = c
      /\ \A i \in FlashSaves : i # w.file => Effect(f, w)[i] = f[i]
      /\ Effect(f, w) \in FileStates
  BY <1>1, <1>2 DEF Effect, FileStates, c
<1>5. Older(Effect(f, w), n)
  BY <1>1, <1>2, <1>3, <1>4 DEF Older
<1>6. ASSUME NEW s \in Slots PROVE OwlsInOrder(Effect(f, w), s)
  <2>1. CASE w.file \in FilesOf(s)
    BY <2>1 DEF GoodWrite
  <2>2. CASE w.file \notin FilesOf(s)
    <3>1. Effect(f, w)[Main(s)] = f[Main(s)] /\ Effect(f, w)[Backup(s)] = f[Backup(s)]
      BY <1>4, <2>2, FilesApart DEF FilesOf
    <3> QED  BY <3>1 DEF InOrder, OwlsInOrder
  <2> QED  BY <2>1, <2>2
<1> QED  BY <1>4, <1>5, <1>6 DEF InOrder

LEMMA StartWriteRefines == RefInv /\ StartWrite => RefInv'
<1> SUFFICES ASSUME RefInv, StartWrite PROVE RefInv'
  OBVIOUS
<1>1. KeepInv' /\ IInv'
  <2>1. KeepInv'
    BY NextKeepInv DEF RefInv, Next
  <2> QED  BY <2>1 DEF KeepInv, PlayInv, SelectInv
<1> PICK w : w = Head(pending)
  OBVIOUS
<1>2. /\ w \in MadeBy(saves) /\ pending' \in Seq(MadeBy(saves))
      /\ GoodWrite(files, w)
      /\ \E g \in FileStates : Plan(Current', pending', g) /\ PlayedWillBe(g)
  BY StartWritePlan
<1>3. Current = files /\ files \in FileStates /\ Current' = Effect(files, w)
  BY CurrentMoves, RefTypes
<1>4. UNCHANGED <<phase, fileNum, late, saves>> /\ saves \in Nat
  BY RefTypes DEF StartWrite
<1>5. Older(Current, saves)' /\ InOrder(Current)'
  <2>1. Older(Effect(files, w), saves) /\ InOrder(Effect(files, w))
    BY <1>2, <1>3, <1>4, EffectSound DEF RefInv
  <2>2. PICK h : h = Effect(files, w)
    OBVIOUS
  <2>3. Older(h, saves)' /\ InOrder(h)'
    BY <1>4, <2>1, <2>2 DEF Older, InOrder, OwlsInOrder, Main, Backup
  <2> QED  BY <1>3, <2>2, <2>3 DEF Older, InOrder, OwlsInOrder, Main, Backup
<1>6. pending' \in Seq(MadeBy(saves))' /\ LateIsPlayed'
  BY <1>2, <1>4 DEF RefInv, LateIsPlayed, MadeBy, Writes
<1>7. Planned'
  <2>1. ASSUME NEW g, PlayedWillBe(g) PROVE PlayedWillBe(g)'
    BY <1>4, <2>1 DEF PlayedWillBe, InPlay, Holds, Main, Backup
  <2> QED  BY <1>2, <2>1 DEF Planned, FileStates, Plan, GoodWrite
<1>8. OpenIsGood'
  <2> SUFFICES ASSUME writing'.open, NEW s \in Slots, writing'.file \in FilesOf(s)
               PROVE  Change(Current', s, Recovered(s)', Rec(Current', s))
    BY DEF OpenIsGood, FilesOf, Rec, Change, NewIn, Main, Backup
  <2>1. writing'.file = w.file /\ w \in Writes
    BY StartWriteFiles, RefTypes
  <2>2. Recovered(s)' = Rec(Opened(files, w), s)
    BY <1>1, RefTypes, StartWriteRecovers
  <2>3. Change(files, s, Rec(Opened(files, w), s), Rec(Effect(files, w), s))
    BY <1>2, <2>1 DEF GoodWrite
  <2>4. \A i \in FlashSaves \ FilesOf(s) : Effect(files, w)[i] = files[i]
    BY <1>3, <2>1 DEF Effect, FileStates
  <2>5. Change(Effect(files, w), s, Rec(Opened(files, w), s), Rec(Effect(files, w), s))
    BY <2>3, <2>4, ChangeElsewhere
  <2> QED  BY <1>3, <2>2, <2>5
<1> QED  BY <1>1, <1>5, <1>6, <1>7, <1>8 DEF RefInv

LEMMA EndWriteRefines == RefInv /\ EndWrite => RefInv'
<1> SUFFICES ASSUME RefInv, EndWrite PROVE RefInv'
  OBVIOUS
<1>1. KeepInv'
  BY NextKeepInv DEF RefInv, Next
<1>2. /\ Current' = Current /\ ~writing'.open
      /\ UNCHANGED <<pending, phase, fileNum, late, saves>>
  BY DEF EndWrite, Current, NotWriting
<1>3. Older(Current, saves)' /\ InOrder(Current)'
  BY <1>2 DEF RefInv, Older, InOrder, OwlsInOrder, Main, Backup
<1>4. pending' \in Seq(MadeBy(saves))' /\ LateIsPlayed'
  BY <1>2 DEF RefInv, LateIsPlayed, MadeBy, Writes
<1>5. Planned'
  <2>1. ASSUME NEW g, PlayedWillBe(g) PROVE PlayedWillBe(g)'
    BY <1>2, <2>1 DEF PlayedWillBe, InPlay, Holds, Main, Backup
  <2> QED  BY <1>2, <2>1 DEF RefInv, Planned, FileStates, Plan, GoodWrite
<1>6. OpenIsGood'
  BY <1>2 DEF OpenIsGood
<1> QED  BY <1>1, <1>3, <1>4, <1>5, <1>6 DEF RefInv
-----------------------------------------------------------------------------
(* The handlers start while nothing is written, and find the files as      *)
(* planned.                                                                *)
LEMMA FilesNow ==
  ASSUME RefInv, Idle
  PROVE  /\ files \in FileStates /\ Current = files /\ ~writing.open
         /\ PlayedWillBe(files) /\ Older(files, saves) /\ InOrder(files)
<1>1. Current = files /\ pending = <<>> /\ ~writing.open
  BY DEF Idle, Current
<1>2. PlayedWillBe(files)
  BY <1>1, PlanNothing DEF RefInv, Planned
<1> QED  BY <1>1, <1>2, RefTypes DEF RefInv

LEMMA HandlerPlans ==
  ASSUME NEW f \in FileStates, NEW q, NEW s, NEW m, NEW b, Reaches(f, q, s, m, b),
         files' = f, ~writing'.open, pending' = q,
         \A g \in FileStates : Holds(g, s, m, b) /\ SameElsewhere(f, g, s) => PlayedWillBe(g)'
  PROVE  Planned'
<1>1. PICK g \in FileStates : Plan(f, q, g) /\ Holds(g, s, m, b) /\ SameElsewhere(f, g, s)
  BY DEF Reaches
<1>2. Plan(Current', pending', g) /\ PlayedWillBe(g)'
  BY <1>1 DEF Current
<1> QED  BY <1>2 DEF Planned, FileStates, Plan, GoodWrite

LEMMA NobodyPlays ==
  ASSUME phase' \notin {"play", "ended"}
  PROVE  \A g : PlayedWillBe(g)'
BY DEF PlayedWillBe, InPlay

LEMMA PartsOf ==
  ASSUME NEW s, NEW a, NEW o, NEW c, NEW p, Holds(files, s, V(a, o), V(c, p))
  PROVE  /\ ReadData(Main(s), "newCycleSave") = a /\ ReadData(Main(s), "owlSave") = o
         /\ ReadData(Backup(s), "newCycleSave") = c /\ ReadData(Backup(s), "owlSave") = p
         /\ ReadEither(s, "newCycleSave") = Either(a, c)
         /\ ReadEither(s, "owlSave") = Either(o, p)
<1>1. /\ ReadData(Main(s), "newCycleSave") = a /\ ReadData(Main(s), "owlSave") = o
      /\ ReadData(Backup(s), "newCycleSave") = c /\ ReadData(Backup(s), "owlSave") = p
  BY ReadIsWhole DEF ReadData, Holds, V
<1> QED  BY <1>1 DEF ReadEither, Either

(* A slot that is checked, before and after its torn files are aside. *)
LEMMA CheckedHolds ==
  ASSUME RefInv, Idle, NEW s \in Slots, NEW h, h = MoveInvalid(s)
  PROVE  /\ h \in FileStates
         /\ \E ma, mo, ba, bo \in 0 .. MaxSaves :
              /\ Holds(files, s, V(ma, mo), V(ba, bo)) /\ Holds(h, s, V(ma, mo), V(ba, bo))
              /\ mo # 0 => bo <= mo
<1>1. files \in FileStates /\ InOrder(files)
  BY FilesNow
<1>2. /\ h \in FileStates
      /\ \A i \in FilesOf(s) : Whole(h[i]) = Whole(files[i])
  BY <1>1, ReadWhole, ReadIsWhole
<1>3. PICK ma \in 0 .. MaxSaves, mo \in 0 .. MaxSaves, ba \in 0 .. MaxSaves, bo \in 0 .. MaxSaves :
        Holds(files, s, V(ma, mo), V(ba, bo))
  BY <1>1, SlotHolds
<1>4. Holds(h, s, V(ma, mo), V(ba, bo))
  BY <1>2, <1>3 DEF Holds, FilesOf
<1>5. mo # 0 => bo <= mo
  BY <1>1, <1>3 DEF InOrder, OwlsInOrder, Holds, V
<1> QED  BY <1>2, <1>3, <1>4, <1>5

LEMMA VerifyNewCyclePlans == RefInv /\ VerifyNewCycle => Planned'
<1> SUFFICES ASSUME RefInv, VerifyNewCycle PROVE Planned'
  OBVIOUS
<1>1. PICK s \in Slots : s = checking
  BY DEF VerifyNewCycle
<1>2. PICK h : h = MoveInvalid(s)
  OBVIOUS
<1>3. /\ Idle /\ files' = h /\ ~writing'.open /\ phase' = "verify"
      /\ pending' = IF NeedsRepair(s, "newCycleSave")
                    THEN WriteSpecial(s, ReadEither(s, "newCycleSave")) ELSE <<>>
  BY <1>1, <1>2 DEF VerifyNewCycle, Idle
<1>4. PICK ma \in 0 .. MaxSaves, mo \in 0 .. MaxSaves, ba \in 0 .. MaxSaves, bo \in 0 .. MaxSaves :
        /\ Holds(files, s, V(ma, mo), V(ba, bo)) /\ Holds(h, s, V(ma, mo), V(ba, bo))
        /\ mo # 0 => bo <= mo
  BY <1>2, <1>3, CheckedHolds
<1>5. h \in FileStates
  BY <1>2, <1>3, CheckedHolds
<1>6. \A g : PlayedWillBe(g)'
  BY <1>3, NobodyPlays
<1>7. ReadEither(s, "newCycleSave") = Either(ma, ba)
  BY <1>4, PartsOf
<1>8. ma \in Nat /\ mo \in Nat /\ ba \in Nat /\ bo \in Nat /\ Either(ma, ba) \in 0 .. MaxSaves
  BY BoundsAssumption DEF Either
<1>9. CASE ~NeedsRepair(s, "newCycleSave")
  <2>1. Reaches(h, <<>>, s, V(ma, mo), V(ba, bo))
    BY <1>4, <1>5, ReachesNothing
  <2> QED  BY <1>3, <1>5, <1>6, <1>9, <2>1, HandlerPlans
<1>10. CASE NeedsRepair(s, "newCycleSave") /\ Either(ma, ba) = 0
  <2>1. ma = 0 /\ ba = 0
    BY <1>10 DEF Either
  <2>2. Reaches(h, WriteSpecial(s, 0), s, V(0, 0), V(0, 0))
    BY <1>4, <1>5, <1>8, <2>1, EraseReaches
  <2>3. pending' = WriteSpecial(s, 0)
    BY <1>3, <1>7, <1>10
  <2> QED  BY <1>3, <1>5, <1>6, <2>2, <2>3, HandlerPlans
<1>11. CASE NeedsRepair(s, "newCycleSave") /\ Either(ma, ba) # 0
  <2>1. Reaches(h, WriteSpecial(s, Either(ma, ba)), s, V(Either(ma, ba), mo), V(Either(ma, ba), bo))
    BY <1>4, <1>5, <1>8, <1>11, NewCycleRepairReaches
  <2>2. pending' = WriteSpecial(s, Either(ma, ba))
    BY <1>3, <1>7, <1>11
  <2> QED  BY <1>3, <1>5, <1>6, <2>1, <2>2, HandlerPlans
<1> QED  BY <1>9, <1>10, <1>11

LEMMA VerifyOwlPlans == RefInv /\ VerifyOwl => Planned'
<1> SUFFICES ASSUME RefInv, VerifyOwl PROVE Planned'
  OBVIOUS
<1>1. PICK s \in Slots : s = checking - NumSlots
  BY SlotsAssumption DEF VerifyOwl, Slots
<1>2. PICK h : h = MoveInvalid(s)
  OBVIOUS
<1>3. /\ Idle /\ files' = h /\ ~writing'.open /\ phase' = "verify"
      /\ pending' = IF s \notin newf \/ NeedsRepair(s, "owlSave")
                    THEN WriteOwlTwice(s, IF s \in newf THEN ReadEither(s, "owlSave") ELSE 0)
                    ELSE <<>>
  BY <1>1, <1>2 DEF VerifyOwl, Idle
<1>4. PICK ma \in 0 .. MaxSaves, mo \in 0 .. MaxSaves, ba \in 0 .. MaxSaves, bo \in 0 .. MaxSaves :
        /\ Holds(files, s, V(ma, mo), V(ba, bo)) /\ Holds(h, s, V(ma, mo), V(ba, bo))
        /\ mo # 0 => bo <= mo
  BY <1>2, <1>3, CheckedHolds
<1>5. h \in FileStates
  BY <1>2, <1>3, CheckedHolds
<1>6. \A g : PlayedWillBe(g)'
  BY <1>3, NobodyPlays
<1>7. /\ ReadEither(s, "owlSave") = Either(mo, bo)
      /\ ReadData(Main(s), "newCycleSave") = ma /\ ReadData(Backup(s), "newCycleSave") = ba
  BY <1>4, PartsOf
<1>8. /\ ma \in Nat /\ mo \in Nat /\ ba \in Nat /\ bo \in Nat /\ Either(mo, bo) \in 0 .. MaxSaves
      /\ 0 \in 0 .. MaxSaves
  BY BoundsAssumption DEF Either
<1>9. NewListed(files, s)
  <2>1. Listed(files)
    BY <1>3, ListedNow DEF RefInv, KeepInv, PlayInv
  <2>2. phase = "verify" /\ s < checking
    BY <1>1, SlotsAssumption DEF VerifyOwl, Slots
  <2> QED  BY <2>1, <2>2 DEF Listed
<1>10. CASE s \notin newf
  <2>1. Whole(files[Main(s)]) = V(0, 0) /\ Whole(files[Backup(s)]) = V(0, 0)
    BY <1>9, <1>10, WholeIs, VContents DEF NewListed, Whole
  <2>2. Holds(h, s, V(0, 0), V(0, 0))
    BY <1>4, <2>1 DEF Holds
  <2>3. Reaches(h, WriteOwlTwice(s, 0), s, V(0, 0), V(0, 0))
    BY <1>5, <1>8, <2>2, OwlNothingReaches
  <2>4. pending' = WriteOwlTwice(s, 0)
    BY <1>3, <1>10
  <2> QED  BY <1>3, <1>5, <1>6, <2>3, <2>4, HandlerPlans
<1>11. CASE s \in newf /\ ~NeedsRepair(s, "owlSave")
  <2>1. Reaches(h, <<>>, s, V(ma, mo), V(ba, bo))
    BY <1>4, <1>5, ReachesNothing
  <2> QED  BY <1>3, <1>5, <1>6, <1>11, <2>1, HandlerPlans
<1>12. CASE s \in newf /\ NeedsRepair(s, "owlSave")
  <2>1. ba = ma /\ ma # 0
    BY <1>7, <1>9, <1>12 DEF NewListed, ReadData, ReadSaveFile
  <2>2. Reaches(h, WriteOwlTwice(s, Either(mo, bo)), s, V(ma, Either(mo, bo)), V(ma, Either(mo, bo)))
    BY <1>4, <1>5, <1>8, <2>1, OwlRepairReaches
  <2>3. pending' = WriteOwlTwice(s, Either(mo, bo))
    BY <1>3, <1>7, <1>12
  <2> QED  BY <1>3, <1>5, <1>6, <2>2, <2>3, HandlerPlans
<1> QED  BY <1>10, <1>11, <1>12

LEMMA RestartPlans == RefInv /\ (VerifyHeader \/ Reset \/ Crash) => Planned'
<1> SUFFICES ASSUME RefInv, VerifyHeader \/ Reset \/ Crash PROVE Planned'
  OBVIOUS
<1>1. /\ files' = files /\ pending' = <<>> /\ ~writing'.open /\ phase' \in {"select", "verify"}
  BY DEF VerifyHeader, Reset, Crash, Idle, EnterFileSelect, NotWriting
<1>2. \A g : PlayedWillBe(g)'
  BY <1>1, NobodyPlays
<1>3. PICK s \in Slots : s = fileNum
  BY RefTypes
<1>4. PICK m, b : Holds(files, s, m, b)
  BY DEF Holds
<1>5. files \in FileStates
  BY RefTypes
<1>6. Reaches(files, <<>>, s, m, b)
  BY <1>4, <1>5, ReachesNothing
<1> QED  BY <1>1, <1>2, <1>5, <1>6, HandlerPlans
-----------------------------------------------------------------------------
(* The writes of the handlers that write more than once. *)
LEMMA EraseBothReaches ==
  ASSUME NEW s \in Slots, NEW f \in FileStates, NEW a \in Nat, NEW o \in Nat, a # 0,
         NEW c \in BOOLEAN, Holds(f, s, V(a, o), V(a, o))
  PROVE  Reaches(f, (IF c THEN WriteOwlTwice(s, 0) ELSE <<>>) \o WriteSpecial(s, 0), s, V(0, 0), V(0, 0))
<1> PICK p : p = IF c THEN WriteOwlTwice(s, 0) ELSE <<>>
  OBVIOUS
<1>1. p \in Seq(Writes) /\ WriteSpecial(s, 0) \in Seq(Writes)
  BY WriteLists, BoundsAssumption
<1>2. PICK x \in Nat : Reaches(f, p, s, V(a, x), V(a, x))
  BY OwlZeroReaches, ReachesNothing
<1>3. ASSUME NEW g \in FileStates, Holds(g, s, V(a, x), V(a, x))
      PROVE  Reaches(g, WriteSpecial(s, 0), s, V(0, 0), V(0, 0))
  BY <1>3, EraseReaches
<1> QED  BY <1>1, <1>2, <1>3, ReachesBoth

LEMMA CopyBothReaches ==
  ASSUME NEW s \in Slots, NEW t \in Slots \ {s}, NEW f \in FileStates, NEW n \in 1 .. MaxSaves,
         NEW o \in 0 .. MaxSaves, NEW c \in BOOLEAN, c <=> o # 0, Rec(f, s) = V(n, o),
         Holds(f, t, V(0, 0), V(0, 0))
  PROVE  Reaches(f, (IF c THEN WriteOwlTwice(t, o) ELSE <<>>) \o WriteSpecial(t, n), t, V(n, o), V(n, o))
<1> PICK p : p = IF c THEN WriteOwlTwice(t, o) ELSE <<>>
  OBVIOUS
<1>1. /\ p \in Seq(Writes) /\ WriteSpecial(t, n) \in Seq(Writes)
      /\ o \in Nat /\ s \in Slots \ {t}
  BY WriteLists, BoundsAssumption
<1>2. Reaches(f, p, t, V(0, o), V(0, o))
  BY OwlNothingReaches, ReachesNothing
<1>3. ASSUME NEW g \in FileStates, Holds(g, t, V(0, o), V(0, o)), SameElsewhere(f, g, t)
      PROVE  Reaches(g, WriteSpecial(t, n), t, V(n, o), V(n, o))
  <2>1. Rec(g, s) = V(n, o)
    BY <1>1, <1>3, ChangeElsewhere DEF SameElsewhere
  <2> QED  BY <1>1, <1>3, <2>1, CopyReaches
<1> QED  BY <1>1, <1>2, <1>3, ReachesBoth

LEMMA CycleReaches ==
  ASSUME NEW s \in Slots, NEW f \in FileStates, NEW n \in 1 .. MaxSaves,
         NEW a \in Nat, NEW o \in Nat, a # 0, n > a, n > o, OthersOlder(f, s, n),
         Holds(f, s, V(a, o), V(a, o))
  PROVE  /\ Reaches(f, WriteOwlTwice(s, 0) \o WriteSpecial(s, n), s, V(n, 0), V(n, 0))
         /\ Reaches(f, WriteOwlTwice(s, 0) \o <<WriteNewCycle(Main(s), n)>>, s, V(n, 0), V(a, 0))
<1>1. /\ WriteOwlTwice(s, 0) \in Seq(Writes) /\ WriteSpecial(s, n) \in Seq(Writes)
      /\ n \in Nat /\ n > 0 /\ n \in 0 .. MaxSaves
  BY WriteLists, BoundsAssumption
<1>2. <<WriteNewCycle(Main(s), n)>> \in Seq(Writes)
  BY <1>1, Puts, FilesApart
<1>3. Reaches(f, WriteOwlTwice(s, 0), s, V(a, 0), V(a, 0))
  BY OwlZeroReaches
<1>4. ASSUME NEW g \in FileStates, Holds(g, s, V(a, 0), V(a, 0)), SameElsewhere(f, g, s)
      PROVE  /\ Reaches(g, WriteSpecial(s, n), s, V(n, 0), V(n, 0))
             /\ Reaches(g, <<WriteNewCycle(Main(s), n)>>, s, V(n, 0), V(a, 0))
  <2>1. OthersOlder(g, s, n)
    BY <1>4, ChangeElsewhere DEF SameElsewhere
  <2>2. Reaches(g, WriteSpecial(s, n), s, V(n, 0), V(n, 0))
    BY <1>1, <1>4, <2>1, NewCycleReaches
  <2>3. Reaches(g, <<WriteNewCycle(Main(s), n)>>, s, V(n, 0), V(a, 0))
    BY <1>1, <1>4, <2>1, NewDayReaches
  <2> QED  BY <2>2, <2>3
<1>5. Reaches(f, WriteOwlTwice(s, 0) \o WriteSpecial(s, n), s, V(n, 0), V(n, 0))
  BY <1>1, <1>3, <1>4, ReachesBoth
<1>6. Reaches(f, WriteOwlTwice(s, 0) \o <<WriteNewCycle(Main(s), n)>>, s, V(n, 0), V(a, 0))
  BY <1>1, <1>2, <1>3, <1>4, ReachesBoth
<1> QED  BY <1>5, <1>6

(* The two orders of SaveOnMoonCrash. *)
LEMMA MoonCrashReaches ==
  ASSUME NEW s \in Slots, NEW f \in FileStates, NEW n \in 1 .. MaxSaves,
         NEW a \in Nat, NEW o \in Nat, a # 0, n > a, n > o, OthersOlder(f, s, n),
         Holds(f, s, V(a, o), V(a, o)), NEW z, z = WriteOwlTwice(s, 0),
         NEW c, c = z \o WriteSpecial(s, n)
  PROVE  /\ Reaches(f, z \o c, s, V(n, 0), V(n, 0))
         /\ Reaches(f, c \o z, s, V(n, 0), V(n, 0))
<1>1. /\ z \in Seq(Writes) /\ WriteSpecial(s, n) \in Seq(Writes) /\ c \in Seq(Writes)
      /\ n \in Nat /\ n > 0 /\ n # 0 /\ n \in 0 .. MaxSaves
  BY WriteLists, BoundsAssumption, ConcatProperties
<1>2. Reaches(f, z, s, V(a, 0), V(a, 0)) /\ Reaches(f, c, s, V(n, 0), V(n, 0))
  BY OwlZeroReaches, CycleReaches
<1>3. ASSUME NEW g \in FileStates, Holds(g, s, V(a, 0), V(a, 0)), SameElsewhere(f, g, s)
      PROVE  Reaches(g, c, s, V(n, 0), V(n, 0))
  <2>1. OthersOlder(g, s, n)
    BY <1>3, ChangeElsewhere DEF SameElsewhere
  <2> QED  BY <1>1, <1>3, <2>1, CycleReaches
<1>4. ASSUME NEW g \in FileStates, Holds(g, s, V(n, 0), V(n, 0)), SameElsewhere(f, g, s)
      PROVE  Reaches(g, z, s, V(n, 0), V(n, 0))
  BY <1>1, <1>4, OwlZeroReaches
<1>5. Reaches(f, z \o c, s, V(n, 0), V(n, 0))
  BY <1>1, <1>2, <1>3, ReachesBoth
<1>6. Reaches(f, c \o z, s, V(n, 0), V(n, 0))
  BY <1>1, <1>2, <1>4, ReachesBoth
<1> QED  BY <1>5, <1>6

-----------------------------------------------------------------------------
(* What a handler of the file select, or of the game, finds in its slot. *)
LEMMA ListedHolds ==
  ASSUME RefInv, phase = "select", Idle, NEW s \in Slots
  PROVE  \E a, o \in 0 .. MaxSaves :
           /\ Holds(files, s, V(a, o), V(a, o))
           /\ s \in newf <=> a # 0
           /\ s \in isOwlSave <=> o # 0
           /\ a = 0 => o = 0
<1>1. FullyListed(files, s) /\ files \in FileStates
  BY ListedNow DEF RefInv, KeepInv, PlayInv, Listed
<1>2. files[Main(s)] \in Contents /\ files[Backup(s)] = files[Main(s)]
  BY <1>1, FilesApart DEF FullyListed, NewListed, FileStates
<1>3. PICK a \in 0 .. MaxSaves, o \in 0 .. MaxSaves : files[Main(s)] = V(a, o)
  BY <1>2, VContents
<1>4. Holds(files, s, V(a, o), V(a, o))
  BY <1>2, <1>3, WholeIs DEF Holds
<1>5. V(a, o).newCycleSave = a /\ V(a, o).owlSave = o /\ Absent.owlSave = 0
  BY DEF V, Absent
<1> QED  BY <1>1, <1>3, <1>4, <1>5 DEF FullyListed, NewListed

LEMMA SaveIsNew ==
  ASSUME RefInv, MakeSave, Idle, NEW s \in Slots, NEW n, n = NextSave
  PROVE  /\ n \in 1 .. MaxSaves /\ n > saves /\ saves' = n /\ OthersOlder(files, s, n)
         /\ \A a, o, c, p \in Nat : Holds(files, s, V(a, o), V(c, p)) =>
              n > a /\ n > o /\ n > c /\ n > p
<1>1. saves \in Nat /\ files \in FileStates /\ Older(files, saves) /\ n = saves + 1
  BY FilesNow, RefTypes DEF NextSave
<1>2. n \in 1 .. MaxSaves /\ n > saves /\ saves' = n
  BY <1>1, BoundsAssumption DEF MakeSave, NextSave
<1> QED  BY <1>1, <1>2, NewerThanAll

LEMMA PlayedHolds ==
  ASSUME RefInv, Playing
  PROVE  \E a, o \in Nat : a # 0 /\ Holds(files, fileNum, V(a, o), V(a, o))
BY FilesNow DEF PlayedWillBe, Playing

LEMMA PlaysOn ==
  ASSUME phase' = "play", late' = 0, NEW g, NEW a \in Nat, NEW o \in Nat, a # 0,
         Holds(g, fileNum', V(a, o), V(a, o))
  PROVE  PlayedWillBe(g)'
<1>1. V(a, o) # Absent
  BY DEF V, Absent
<1> QED  BY <1>1 DEF PlayedWillBe, Holds, Main, Backup

LEMMA PlaysNoMore ==
  ASSUME phase' = "ended", NEW g, NEW m, NEW b, m # Absent \/ b = Absent,
         Holds(g, fileNum', m, b)
  PROVE  PlayedWillBe(g)'
BY DEF PlayedWillBe, Holds, Main, Backup
LEMMA InitSavePlans == ASSUME RefInv, NEW s \in Slots, InitSave(s) PROVE Planned'
<1>1. /\ phase = "select" /\ Idle /\ MakeSave /\ s \notin newf
      /\ files' = files /\ ~writing'.open /\ phase' = "select"
  BY DEF InitSave, Idle
<1>2. PICK n : n = NextSave
  OBVIOUS
<1>3. pending' = WriteSpecial(s, n)
  BY <1>2 DEF InitSave
<1>4. PICK a \in 0 .. MaxSaves, o \in 0 .. MaxSaves : Holds(files, s, V(a, o), V(a, o)) /\ a = 0 /\ o = 0
  BY <1>1, ListedHolds
<1>5. a \in Nat /\ o \in Nat /\ files \in FileStates
  BY RefTypes, BoundsAssumption
<1>6. n \in 1 .. MaxSaves /\ n > a /\ n > o /\ OthersOlder(files, s, n)
  BY <1>1, <1>2, <1>4, <1>5, SaveIsNew
<1>7. Reaches(files, WriteSpecial(s, n), s, V(n, o), V(n, o))
  BY <1>4, <1>5, <1>6, NewCycleReaches
<1>8. \A g : PlayedWillBe(g)'
  BY <1>1, NobodyPlays
<1> QED  BY <1>1, <1>3, <1>5, <1>7, <1>8, HandlerPlans

LEMMA EraseSavePlans == ASSUME RefInv, NEW s \in Slots, EraseSave(s) PROVE Planned'
<1>1. /\ phase = "select" /\ Idle /\ s \in newf
      /\ files' = files /\ ~writing'.open /\ phase' = "select"
  BY DEF EraseSave, Idle
<1>2. PICK c \in BOOLEAN : c <=> s \in isOwlSave
  <2>1. (TRUE <=> s \in isOwlSave) \/ (FALSE <=> s \in isOwlSave)
    OBVIOUS
  <2> QED  BY <2>1
<1>3. pending' = (IF c THEN WriteOwlTwice(s, 0) ELSE <<>>) \o WriteSpecial(s, 0)
  BY <1>2 DEF EraseSave
<1>4. PICK a \in 0 .. MaxSaves, o \in 0 .. MaxSaves : Holds(files, s, V(a, o), V(a, o)) /\ a # 0
  BY <1>1, ListedHolds
<1>5. a \in Nat /\ o \in Nat /\ files \in FileStates
  BY RefTypes, BoundsAssumption
<1>6. Reaches(files, (IF c THEN WriteOwlTwice(s, 0) ELSE <<>>) \o WriteSpecial(s, 0), s, V(0, 0), V(0, 0))
  BY <1>4, <1>5, EraseBothReaches
<1>7. \A g : PlayedWillBe(g)'
  BY <1>1, NobodyPlays
<1> QED  BY <1>1, <1>3, <1>5, <1>6, <1>7, HandlerPlans

LEMMA CopySavePlans ==
  ASSUME RefInv, NEW s \in Slots, NEW t \in Slots, CopySave(s, t) PROVE Planned'
<1>1. /\ phase = "select" /\ Idle /\ s \in newf /\ t \notin newf
      /\ files' = files /\ ~writing'.open /\ phase' = "select"
  BY DEF CopySave, Idle
<1>2. PICK a \in 0 .. MaxSaves, o \in 0 .. MaxSaves :
        /\ Holds(files, s, V(a, o), V(a, o)) /\ a # 0
        /\ s \in isOwlSave <=> o # 0
  BY <1>1, ListedHolds
<1>3. PICK c \in BOOLEAN : c <=> s \in isOwlSave
  <2>1. (TRUE <=> s \in isOwlSave) \/ (FALSE <=> s \in isOwlSave)
    OBVIOUS
  <2> QED  BY <2>1
<1>4. ReadData(Main(s), "newCycleSave") = a /\ ReadEither(s, "owlSave") = o
  BY <1>2, PartsOf DEF Either
<1>5. pending' = (IF c THEN WriteOwlTwice(t, o) ELSE <<>>) \o WriteSpecial(t, a)
  BY <1>3, <1>4 DEF CopySave
<1>6. Holds(files, t, V(0, 0), V(0, 0))
  BY <1>1, ListedHolds
<1>7. Rec(files, s) = V(a, o)
  BY <1>2, FoundInIs DEF Rec, FoundIn, Holds, Either
<1>8. a \in 1 .. MaxSaves /\ t \in Slots \ {s} /\ files \in FileStates
  BY <1>1, <1>2, RefTypes, BoundsAssumption
<1>9. Reaches(files, (IF c THEN WriteOwlTwice(t, o) ELSE <<>>) \o WriteSpecial(t, a), t, V(a, o), V(a, o))
  BY <1>2, <1>3, <1>6, <1>7, <1>8, CopyBothReaches
<1>10. \A g : PlayedWillBe(g)'
  BY <1>1, NobodyPlays
<1> QED  BY <1>1, <1>5, <1>8, <1>9, <1>10, HandlerPlans

LEMMA OpenSavePlans == ASSUME RefInv, NEW s \in Slots, OpenSave(s) PROVE Planned'
<1>1. /\ phase = "select" /\ Idle /\ s \in newf /\ fileNum' = s
      /\ files' = files /\ ~writing'.open /\ phase' = "play" /\ late' = late
      /\ pending' \in {WriteOwlTwice(s, 0), <<>>}
  BY DEF OpenSave, Idle
<1>2. PICK a \in 0 .. MaxSaves, o \in 0 .. MaxSaves : Holds(files, s, V(a, o), V(a, o)) /\ a # 0
  BY <1>1, ListedHolds
<1>3. a \in Nat /\ o \in Nat /\ files \in FileStates
  BY RefTypes, BoundsAssumption
<1>4. late' = 0
  BY <1>1 DEF RefInv, LateIsPlayed
<1>5. PICK x \in Nat : Reaches(files, pending', s, V(a, x), V(a, x))
  <2>1. Reaches(files, WriteOwlTwice(s, 0), s, V(a, 0), V(a, 0))
    BY <1>2, <1>3, OwlZeroReaches
  <2>2. Reaches(files, <<>>, s, V(a, o), V(a, o))
    BY <1>2, <1>3, ReachesNothing
  <2> QED  BY <1>1, <1>3, <2>1, <2>2
<1>6. ASSUME NEW g \in FileStates, Holds(g, s, V(a, x), V(a, x)) PROVE PlayedWillBe(g)'
  BY <1>1, <1>2, <1>3, <1>4, <1>6, PlaysOn
<1> QED  BY <1>1, <1>3, <1>5, <1>6, HandlerPlans

(* An import: only into a slot without files, and so never into the slot   *)
(* that is played.                                                         *)
LEMMA HandleFileDroppedPlans == RefInv /\ HandleFileDropped => Planned'
<1> SUFFICES ASSUME RefInv, HandleFileDropped PROVE Planned'
  OBVIOUS
<1>1. PICK s \in Slots : /\ files[Main(s)] = Absent
                         /\ pending' = <<Op(Main(s), "import", NextSave)>>
  BY DEF HandleFileDropped
<1>2. PICK n : n = NextSave
  OBVIOUS
<1>3. /\ Idle /\ MakeSave /\ phase \in {"select", "play", "ended"}
      /\ files' = files /\ ~writing'.open /\ fileNum' = fileNum /\ late' = late
      /\ phase = "select" => phase' = "verify"
      /\ phase # "select" => phase' = phase
  BY RefTypes DEF HandleFileDropped, Idle, EnterFileSelect, IInv, TypeOK, Phases
<1>4. files \in FileStates /\ PlayedWillBe(files) /\ fileNum \in Slots
  BY <1>3, FilesNow, RefTypes
<1>5. Whole(files[Main(s)]) = Absent
  BY <1>1, WholeIs DEF Whole
<1>6. Absent = V(0, 0)
  BY DEF Absent, V
<1>7. phase = "play" => s # fileNum
  <2> SUFFICES ASSUME phase = "play" PROVE Whole(files[Main(fileNum)]) # Absent
    BY <1>5
  <2>1. PICK a \in Nat, m \in Nat : a # 0 /\ Whole(files[Main(fileNum)]) = V(a, m)
    BY <1>4 DEF PlayedWillBe, Holds
  <2> QED  BY <2>1 DEF V, Absent
<1>8. Holds(files, s, V(0, 0), V(0, 0))
  <2>1. CASE phase = "select"
    <3>1. PICK a \in 0 .. MaxSaves, o \in 0 .. MaxSaves : Holds(files, s, V(a, o), V(a, o))
      BY <1>3, <2>1, ListedHolds
    <3> QED  BY <1>5, <1>6, <3>1 DEF Holds
  <2>2. CASE phase # "select" /\ s # fileNum
    <3>1. files[Backup(s)] = Absent
      BY <1>1, <1>3, <2>2 DEF RefInv, KeepInv, PlayInv, ImportsAreWhole, InPlay
    <3> QED  BY <1>5, <1>6, <3>1 DEF Holds, Whole
  <2>3. CASE phase # "select" /\ s = fileNum
    <3>1. Whole(files[Backup(s)]) = Absent
      BY <1>3, <1>4, <1>5, <2>3 DEF PlayedWillBe, InPlay
    <3> QED  BY <1>5, <1>6, <3>1 DEF Holds
  <2> QED  BY <2>1, <2>2, <2>3
<1>9. n \in 1 .. MaxSaves /\ OthersOlder(files, s, n)
  BY <1>2, <1>3, SaveIsNew
<1>10. Reaches(files, <<Op(Main(s), "import", n)>>, s, V(n, 0), V(0, 0))
  BY <1>4, <1>8, <1>9, ImportReaches
<1>11. ASSUME NEW g \in FileStates, Holds(g, s, V(n, 0), V(0, 0)), SameElsewhere(files, g, s)
       PROVE  PlayedWillBe(g)'
  <2>1. CASE phase = "select"
    BY <1>3, <2>1, NobodyPlays
  <2>2. CASE phase # "select" /\ s # fileNum
    <3>1. g[Main(fileNum)] = files[Main(fileNum)] /\ g[Backup(fileNum)] = files[Backup(fileNum)]
      BY <1>4, <1>11, <2>2, FilesApart DEF SameElsewhere, FilesOf
    <3>2. PlayedWillBe(g)
      BY <1>4, <3>1 DEF PlayedWillBe, Holds
    <3> QED  BY <1>3, <2>2, <3>2 DEF PlayedWillBe, InPlay, Holds, Main, Backup
  <2>3. CASE phase # "select" /\ s = fileNum
    <3>1. phase' = "ended" /\ fileNum' = s
      BY <1>3, <1>7, <2>3
    <3> QED  BY <1>6, <1>11, <3>1, PlaysNoMore
  <2> QED  BY <2>1, <2>2, <2>3
<1> QED  BY <1>1, <1>2, <1>3, <1>4, <1>10, <1>11, HandlerPlans

-----------------------------------------------------------------------------
LEMMA PlayHandlersPlan ==
  ASSUME RefInv, EnterClockTown \/ EndOfCycle \/ MoonCrash \/ MoonCrashSave
  PROVE  Planned'
<1>1. /\ Playing /\ Idle /\ files' = files /\ ~writing'.open
      /\ phase' = "play" /\ fileNum' = fileNum /\ late' = 0
  BY DEF EnterClockTown, EndOfCycle, MoonCrash, MoonCrashSave, Playing, Idle
<1>2. PICK s \in Slots : s = fileNum
  BY RefTypes
<1>3. PICK n : n = NextSave
  OBVIOUS
<1>4. PICK a \in Nat, o \in Nat : a # 0 /\ Holds(files, s, V(a, o), V(a, o))
  BY <1>1, <1>2, PlayedHolds
<1>5. files \in FileStates
  BY RefTypes
<1>6. MakeSave => n \in 1 .. MaxSaves /\ n > a /\ n > o /\ OthersOlder(files, s, n)
  BY <1>1, <1>3, <1>4, SaveIsNew
<1>7. PICK z, c : z = WriteOwlTwice(s, 0) /\ c = z \o WriteSpecial(s, n)
  OBVIOUS
<1>8. \E p, o2 \in Nat : p # 0 /\ Reaches(files, pending', s, V(p, o2), V(p, o2))
  <2>1. CASE EnterClockTown
    <3>1. MakeSave /\ pending' = WriteSpecial(s, n)
      BY <1>2, <1>3, <2>1 DEF EnterClockTown
    <3>2. Reaches(files, WriteSpecial(s, n), s, V(n, o), V(n, o))
      BY <1>4, <1>5, <1>6, <3>1, NewCycleReaches
    <3>3. n \in Nat /\ n # 0
      BY <1>6, <3>1
    <3> QED  BY <1>4, <3>1, <3>2, <3>3
  <2>2. CASE EndOfCycle
    <3>1. MakeSave /\ pending' = c
      BY <1>2, <1>3, <1>7, <2>2 DEF EndOfCycle, SaveCycle
    <3>2. Reaches(files, c, s, V(n, 0), V(n, 0))
      BY <1>4, <1>5, <1>6, <1>7, <3>1, CycleReaches
    <3>3. n \in Nat /\ n # 0 /\ 0 \in Nat
      BY <1>6, <3>1
    <3> QED  BY <3>1, <3>2, <3>3
  <2>3. CASE MoonCrash
    <3>1. pending' = WriteOwlTwice(s, 0)
      BY <1>2, <2>3 DEF MoonCrash
    <3>2. Reaches(files, WriteOwlTwice(s, 0), s, V(a, 0), V(a, 0))
      BY <1>4, <1>5, OwlZeroReaches
    <3> QED  BY <1>4, <3>1, <3>2
  <2>4. CASE MoonCrashSave
    <3>1. MakeSave /\ (pending' = z \o c \/ pending' = c \o z)
      BY <1>2, <1>3, <1>7, <2>4 DEF MoonCrashSave, SaveCycle
    <3>2. Reaches(files, z \o c, s, V(n, 0), V(n, 0)) /\ Reaches(files, c \o z, s, V(n, 0), V(n, 0))
      BY <1>4, <1>5, <1>6, <1>7, <3>1, MoonCrashReaches
    <3>3. n \in Nat /\ n # 0 /\ 0 \in Nat
      BY <1>6, <3>1
    <3> QED  BY <3>1, <3>2, <3>3
  <2> QED  BY <2>1, <2>2, <2>3, <2>4
<1>9. PICK p \in Nat, o2 \in Nat : p # 0 /\ Reaches(files, pending', s, V(p, o2), V(p, o2))
  BY <1>8
<1>10. ASSUME NEW g \in FileStates, Holds(g, s, V(p, o2), V(p, o2)) PROVE PlayedWillBe(g)'
  BY <1>1, <1>2, <1>9, <1>10, PlaysOn
<1> QED  BY <1>1, <1>5, <1>9, <1>10, HandlerPlans

(* The handlers the game ends with, and the owl save in its two steps. *)
LEMMA LastHandlersPlan ==
  ASSUME RefInv, NewDay \/ DeleteFileOnDeath
  PROVE  Planned'
<1>1. /\ Playing /\ Idle /\ files' = files /\ ~writing'.open
      /\ phase' = "ended" /\ fileNum' = fileNum
  BY DEF NewDay, DeleteFileOnDeath, Playing, Idle
<1>2. PICK s \in Slots : s = fileNum
  BY RefTypes
<1>3. PICK a \in Nat, o \in Nat : a # 0 /\ Holds(files, s, V(a, o), V(a, o))
  BY <1>1, <1>2, PlayedHolds
<1>4. files \in FileStates
  BY RefTypes
<1>5. PICK m, b : (m # Absent \/ b = Absent) /\ Reaches(files, pending', s, m, b)
  <2>1. CASE NewDay
    <3>1. PICK n : n = NextSave
      OBVIOUS
    <3>2. MakeSave /\ pending' = WriteOwlTwice(s, 0) \o <<WriteNewCycle(Main(s), n)>>
      BY <1>2, <2>1, <3>1 DEF NewDay
    <3>3. n \in 1 .. MaxSaves /\ n > a /\ n > o /\ OthersOlder(files, s, n)
      BY <1>1, <1>3, <3>1, <3>2, SaveIsNew
    <3>4. Reaches(files, WriteOwlTwice(s, 0) \o <<WriteNewCycle(Main(s), n)>>, s, V(n, 0), V(a, 0))
      BY <1>3, <1>4, <3>3, CycleReaches
    <3>5. V(n, 0) # Absent
      BY <3>3 DEF V, Absent
    <3> QED  BY <3>2, <3>4, <3>5
  <2>2. CASE DeleteFileOnDeath
    <3>1. pending' = <<Op(Main(s), "delete", 0), Op(Backup(s), "delete", 0)>>
      BY <1>2, <2>2 DEF DeleteFileOnDeath
    <3>2. Reaches(files, <<Op(Main(s), "delete", 0), Op(Backup(s), "delete", 0)>>, s, V(0, 0), V(0, 0))
      BY <1>3, <1>4, DeleteReaches
    <3>3. V(0, 0) = Absent
      BY DEF V, Absent
    <3> QED  BY <3>1, <3>2, <3>3
  <2> QED  BY <1>1, <2>1, <2>2
<1>6. ASSUME NEW g \in FileStates, Holds(g, s, m, b) PROVE PlayedWillBe(g)'
  BY <1>1, <1>2, <1>5, <1>6, PlaysNoMore
<1> QED  BY <1>1, <1>4, <1>5, <1>6, HandlerPlans

LEMMA OwlSavePlans == RefInv /\ OwlSave => Planned'
<1> SUFFICES ASSUME RefInv, OwlSave PROVE Planned'
  OBVIOUS
<1>1. PICK n : n = NextSave
  OBVIOUS
<1>2. PICK s \in Slots : s = fileNum
  BY RefTypes
<1>3. /\ Playing /\ Idle /\ MakeSave /\ files' = files /\ ~writing'.open
      /\ phase' = "play" /\ fileNum' = s /\ late' = n
      /\ pending' = <<WriteOwl(Main(s), n)>>
  BY <1>1, <1>2 DEF OwlSave, Playing, Idle
<1>4. PICK a \in Nat, o \in Nat : a # 0 /\ Holds(files, s, V(a, o), V(a, o))
  BY <1>2, <1>3, PlayedHolds
<1>5. files \in FileStates
  BY RefTypes
<1>6. n \in 1 .. MaxSaves /\ n > a /\ n > o /\ OthersOlder(files, s, n)
  BY <1>1, <1>3, <1>4, SaveIsNew
<1>7. Reaches(files, <<WriteOwl(Main(s), n)>>, s, V(a, n), V(a, o))
  BY <1>4, <1>5, <1>6, OwlMainReaches
<1>8. ASSUME NEW g \in FileStates, Holds(g, s, V(a, n), V(a, o)) PROVE PlayedWillBe(g)'
  <2>1. V(a, n) # Absent /\ n \in Nat /\ n # 0
    BY <1>4, <1>6 DEF V, Absent
  <2>2. PICK m \in Nat : m = n
    BY <2>1
  <2> QED  BY <1>3, <1>4, <1>8, <2>1, <2>2 DEF PlayedWillBe, Holds, Main, Backup
<1> QED  BY <1>3, <1>5, <1>7, <1>8, HandlerPlans

LEMMA OwlBackupPlans == RefInv /\ UpdateWriteToFlashOwlSave => Planned'
<1> SUFFICES ASSUME RefInv, UpdateWriteToFlashOwlSave PROVE Planned'
  OBVIOUS
<1>1. PICK n : n = late
  OBVIOUS
<1>2. PICK s \in Slots : s = fileNum
  BY RefTypes
<1>3. /\ phase = "play" /\ Idle /\ files' = files /\ ~writing'.open
      /\ phase' = "ended" /\ fileNum' = s
      /\ pending' = <<WriteOwl(Backup(s), n)>> /\ n # 0
  BY <1>1, <1>2 DEF UpdateWriteToFlashOwlSave, Idle
<1>4. n \in 1 .. MaxSaves
  BY <1>1, <1>3, RefTypes, BoundsAssumption DEF IInv, TypeOK
<1>5. PICK a \in Nat, o \in Nat : a # 0 /\ Holds(files, s, V(a, n), V(a, o))
  BY <1>1, <1>2, <1>3, FilesNow DEF PlayedWillBe
<1>6. files \in FileStates
  BY RefTypes
<1>7. Reaches(files, <<WriteOwl(Backup(s), n)>>, s, V(a, n), V(a, n))
  BY <1>4, <1>5, <1>6, OwlBackupReaches
<1>8. V(a, n) # Absent
  BY <1>5 DEF V, Absent
<1>9. ASSUME NEW g \in FileStates, Holds(g, s, V(a, n), V(a, n)) PROVE PlayedWillBe(g)'
  BY <1>3, <1>8, <1>9, PlaysNoMore
<1> QED  BY <1>3, <1>6, <1>7, <1>9, HandlerPlans

LEMMA HandlersPlan ==
  ASSUME AutoSaves = FALSE, RefInv, Next, ~StartWrite, ~EndWrite
  PROVE  Planned'
<1>1. ~AutoSave
  BY DEF AutoSave
<1> QED
  BY <1>1, VerifyNewCyclePlans, VerifyOwlPlans, RestartPlans, InitSavePlans, EraseSavePlans,
     CopySavePlans, OpenSavePlans, HandleFileDroppedPlans, PlayHandlersPlan, LastHandlersPlan,
     OwlSavePlans, OwlBackupPlans DEF Next
(* No handler writes a save that has not been made. *)
LEMMA HandlersWriteMade ==
  ASSUME RefInv, Next, ~StartWrite, ~EndWrite, IInv'
  PROVE  saves' >= saves /\ pending' \in Seq(MadeBy(saves'))
<1>1. /\ saves \in Nat /\ saves' \in 0 .. MaxSaves /\ fileNum \in Slots /\ IInv
      /\ files \in FileStates
  BY RefTypes DEF IInv, TypeOK
<1>2. Idle \/ Crash
  BY DEF Next, VerifyNewCycle, VerifyOwl, VerifyHeader, InitSave, EraseSave, OpenSave, CopySave,
         HandleFileDropped, EnterClockTown, EndOfCycle, NewDay, MoonCrash, MoonCrashSave, OwlSave,
         UpdateWriteToFlashOwlSave, AutoSave, DeleteFileOnDeath, Reset, Playing
<1>3. /\ saves' = saves \/ (MakeSave /\ saves' = NextSave)
      /\ MakeSave => saves' = NextSave
  BY DEF Next, VerifyNewCycle, VerifyOwl, VerifyHeader, InitSave, EraseSave, OpenSave, CopySave,
         HandleFileDropped, EnterClockTown, EndOfCycle, NewDay, MoonCrash, MoonCrashSave, OwlSave,
         UpdateWriteToFlashOwlSave, AutoSave, DeleteFileOnDeath, Reset, MakeSave, Crash
<1>4. saves' >= saves /\ saves' \in Nat
  BY <1>1, <1>3, BoundsAssumption DEF NextSave
<1>5. CASE Crash
  <2>1. pending' = <<>>
    BY <1>5 DEF Crash
  <2> QED  BY <1>4, <2>1
<1>6. CASE HandleFileDropped
  <2>1. PICK s \in Slots : pending' = <<Op(Main(s), "import", NextSave)>>
    BY <1>6 DEF HandleFileDropped
  <2>2. saves' = NextSave
    BY <1>3, <1>6 DEF HandleFileDropped
  <2>3. Op(Main(s), "import", saves') \in MadeBy(saves')
    BY <1>1, <1>4, FilesApart DEF Op, MadeBy, Writes
  <2> QED  BY <1>4, <2>1, <2>2, <2>3
<1>7. CASE Idle /\ ~HandleFileDropped
  <2>1. PICK k : k = saves'
    OBVIOUS
  <2>2. PICK M : M = 0 .. k
    OBVIOUS
  <2>3. PICK W : W = MadeBy(k)
    OBVIOUS
  <2>4. k \in Nat /\ k <= MaxSaves /\ saves <= k /\ MaxSaves \in Nat
    BY <1>1, <1>4, <2>1, BoundsAssumption
  <2>5. 0 \in M /\ late \in M
    BY <1>1, <2>2, <2>4, BoundsAssumption DEF RefInv, LateIsPlayed, IInv, TypeOK
  <2>6. MakeSave => NextSave \in M
    BY <1>1, <1>3, <2>1, <2>2, <2>4
  <2>7. \A s \in Slots, part \in Parts : ReadData(Main(s), part) \in M /\ ReadEither(s, part) \in M
    <3>1. ASSUME NEW s \in Slots, NEW i \in FilesOf(s), NEW part \in Parts
          PROVE  ReadData(i, part) \in M
      <4>1. i \in FlashSaves
        BY FilesApart DEF FilesOf
      <4>2. ReadData(i, part) = Whole(files[i])[part] /\ Whole(files[i]) \in Contents
        BY <1>1, <4>1, ReadIsWhole, WholeIs DEF ReadData
      <4>3. Whole(files[i])[part] \in Nat
        BY <4>2, BoundsAssumption DEF Contents
      <4>4. Whole(files[i]).newCycleSave <= saves /\ Whole(files[i]).owlSave <= saves
        BY <1>7, <4>1, FilesNow DEF Older
      <4>5. Whole(files[i])[part] <= saves
        BY <4>4 DEF Parts
      <4> QED  BY <1>1, <2>2, <2>4, <4>2, <4>3, <4>5
    <3> QED  BY <3>1 DEF FilesOf, ReadEither
  <2>8. \A s \in Slots, n \in M : \A i \in FilesOf(s) :
          WriteNewCycle(i, n) \in W /\ WriteOwl(i, n) \in W /\ Op(i, "delete", 0) \in W
    <3> SUFFICES ASSUME NEW s \in Slots, NEW n \in M, NEW i \in FilesOf(s)
                 PROVE  WriteNewCycle(i, n) \in W /\ WriteOwl(i, n) \in W /\ Op(i, "delete", 0) \in W
      OBVIOUS
    <3>1. i \in FlashSaves /\ n \in 0 .. MaxSaves /\ n <= k /\ 0 \in 0 .. MaxSaves /\ 0 <= k
      BY <2>2, <2>4, FilesApart DEF FilesOf
    <3> QED  BY <2>3, <3>1 DEF WriteNewCycle, WriteOwl, Op, MadeBy, Writes, Parts
  <2>9. pending' \in Seq(W)
    BY <1>1, <1>7, <2>5, <2>6, <2>7, <2>8, HandlersWrite
  <2> QED  BY <1>4, <2>1, <2>3, <2>9
<1> QED  BY <1>2, <1>5, <1>6, <1>7

(* What a handler leaves in the files: it moves torn files aside at most,  *)
(* and a crash leaves its torn file.                                       *)
LEMMA HandlersKeepFiles ==
  ASSUME RefInv, Next, ~StartWrite, ~EndWrite
  PROVE  /\ ~writing'.open /\ Current' = files'
         /\ \A i \in FlashSaves :
              /\ Whole(files'[i]) = Whole(files[i])
              /\ Whole(files[i]) = Whole(Current[i]) \/ (Crash /\ Whole(files[i]) = Absent)
<1>1. files \in FileStates /\ IInv /\ Current \in FileStates
  BY RefTypes
<1>2. ~writing'.open /\ Current' = files'
  BY DEF Next, VerifyNewCycle, VerifyOwl, VerifyHeader, InitSave, EraseSave, OpenSave, CopySave,
         HandleFileDropped, EnterClockTown, EndOfCycle, NewDay, MoonCrash, MoonCrashSave, OwlSave,
         UpdateWriteToFlashOwlSave, AutoSave, DeleteFileOnDeath, Reset, Playing, Crash, Idle,
         NotWriting, Current
<1>3. CASE VerifyNewCycle \/ VerifyOwl
  <2>1. PICK s \in Slots : files' = MoveInvalid(s)
    BY <1>3, SlotsAssumption DEF VerifyNewCycle, VerifyOwl, Slots
  <2>2. PICK h : h = MoveInvalid(s)
    OBVIOUS
  <2>3. \A i \in FlashSaves : Whole(h[i]) = Whole(files[i])
    <3>1. /\ \A i \in FilesOf(s) : h[i] = ReadSaveFile(i) /\ Whole(h[i]) = h[i]
          /\ \A i \in FlashSaves \ FilesOf(s) : h[i] = files[i]
      BY <1>1, <2>2, ReadWhole
    <3> QED  BY <3>1, ReadIsWhole
  <2>4. Idle
    BY <1>3 DEF VerifyNewCycle, VerifyOwl
  <2>5. Current = files
    BY <2>4 DEF Idle, Current
  <2> QED  BY <1>2, <2>1, <2>2, <2>3, <2>5
<1>4. CASE Crash
  <2>1. files' = files
    BY <1>4 DEF Crash
  <2>2. ASSUME NEW i \in FlashSaves
        PROVE  Whole(files[i]) = Whole(Current[i]) \/ Whole(files[i]) = Absent
    <3>1. CASE writing.open /\ i = writing.file
      BY <3>1 DEF RefInv, KeepInv, PlayInv, OpenIsTorn, Whole
    <3>2. CASE ~(writing.open /\ i = writing.file)
      <4>1. Current[i] = files[i]
        BY <1>1, <3>2 DEF Current, FileStates
      <4> QED  BY <4>1
    <3> QED  BY <3>1, <3>2
  <2> QED  BY <1>2, <1>4, <2>1, <2>2
<1>5. CASE ~(VerifyNewCycle \/ VerifyOwl \/ Crash)
  <2>1. files' = files /\ Idle
    BY <1>5 DEF Next, VerifyHeader, InitSave, EraseSave, OpenSave, CopySave,
         HandleFileDropped, EnterClockTown, EndOfCycle, NewDay, MoonCrash, MoonCrashSave, OwlSave,
         UpdateWriteToFlashOwlSave, AutoSave, DeleteFileOnDeath, Reset, Playing
  <2>2. Current = files
    BY <2>1 DEF Idle, Current
  <2> QED  BY <1>2, <2>1, <2>2
<1> QED  BY <1>3, <1>4, <1>5
LEMMA FilesOnlyFade ==
  ASSUME NEW f \in FileStates, NEW g, NEW n \in Nat, NEW k \in Nat, n <= k,
         Older(f, n), InOrder(f),
         \A i \in FlashSaves : Whole(g[i]) = Whole(f[i]) \/ Whole(g[i]) = Absent
  PROVE  Older(g, k) /\ InOrder(g)
<1>1. \A i \in FlashSaves : Whole(f[i]).newCycleSave \in Nat /\ Whole(f[i]).owlSave \in Nat
  BY WholeIs, VContents, BoundsAssumption
<1>2. Absent.newCycleSave = 0 /\ Absent.owlSave = 0
  BY DEF Absent
<1>3. Older(g, k)
  <2> SUFFICES ASSUME NEW i \in FlashSaves
               PROVE  Whole(g[i]).newCycleSave <= k /\ Whole(g[i]).owlSave <= k
    BY DEF Older
  <2>1. Whole(f[i]).newCycleSave <= n /\ Whole(f[i]).owlSave <= n
    BY DEF Older
  <2> QED  BY <1>1, <1>2, <2>1
<1>4. ASSUME NEW s \in Slots PROVE OwlsInOrder(g, s)
  <2>1. Main(s) \in FlashSaves /\ Backup(s) \in FlashSaves
    BY FilesApart
  <2>2. OwlsInOrder(f, s)
    BY DEF InOrder
  <2> QED  BY <1>1, <1>2, <2>1, <2>2 DEF OwlsInOrder
<1> QED  BY <1>3, <1>4 DEF InOrder

LEMMA LateStays ==
  ASSUME RefInv, Next, ~StartWrite, ~EndWrite, IInv'
  PROVE  LateIsPlayed'
<1>1. saves' >= saves /\ saves \in Nat /\ saves' \in Nat /\ late \in Nat
  BY HandlersWriteMade, RefTypes, BoundsAssumption DEF IInv, TypeOK
<1>2. \/ late' = 0
      \/ late' = late /\ (phase' = phase \/ late = 0)
      \/ late' = NextSave /\ saves' = NextSave /\ phase' = "play"
  BY DEF Next, VerifyNewCycle, VerifyOwl, VerifyHeader, InitSave, EraseSave, OpenSave, CopySave,
         HandleFileDropped, EnterFileSelect, EnterClockTown, EndOfCycle, NewDay, MoonCrash,
         MoonCrashSave, OwlSave, UpdateWriteToFlashOwlSave, AutoSave, DeleteFileOnDeath, Reset,
         Playing, MakeSave, Crash, RefInv, LateIsPlayed
<1>3. CASE late' = 0
  BY <1>1, <1>3 DEF LateIsPlayed
<1>4. CASE late' = late /\ (phase' = phase \/ late = 0)
  BY <1>1, <1>4 DEF RefInv, LateIsPlayed
<1>5. CASE late' = NextSave /\ saves' = NextSave /\ phase' = "play"
  BY <1>1, <1>5 DEF LateIsPlayed
<1> QED  BY <1>2, <1>3, <1>4, <1>5

LEMMA HandlersRefine ==
  ASSUME AutoSaves = FALSE, RefInv, Next, ~StartWrite, ~EndWrite
  PROVE  RefInv'
<1>1. KeepInv' /\ IInv'
  <2>1. KeepInv'
    BY NextKeepInv DEF RefInv
  <2> QED  BY <2>1 DEF KeepInv, PlayInv, SelectInv
<1>2. /\ ~writing'.open /\ Current' = files'
      /\ \A i \in FlashSaves :
           Whole(files'[i]) = Whole(Current[i]) \/ Whole(files'[i]) = Absent
  BY HandlersKeepFiles
<1>3. saves' >= saves /\ saves \in Nat /\ saves' \in Nat /\ pending' \in Seq(MadeBy(saves'))
  BY <1>1, HandlersWriteMade, RefTypes, BoundsAssumption DEF IInv, TypeOK
<1>4. PICK h, k : h = files' /\ k = saves'
  OBVIOUS
<1>5. Older(h, k) /\ InOrder(h)
  <2>1. Older(Current, saves) /\ InOrder(Current) /\ Current \in FileStates
    BY RefTypes DEF RefInv
  <2> QED  BY <1>2, <1>3, <1>4, <2>1, FilesOnlyFade
<1>6. Older(Current, saves)' /\ InOrder(Current)'
  BY <1>2, <1>4, <1>5 DEF Older, InOrder, OwlsInOrder, Main, Backup
<1>7. pending' \in Seq(MadeBy(saves))'
  BY <1>3 DEF MadeBy, Writes
<1>8. LateIsPlayed' /\ Planned' /\ OpenIsGood'
  BY <1>1, <1>2, LateStays, HandlersPlan DEF OpenIsGood
<1> QED  BY <1>1, <1>6, <1>7, <1>8 DEF RefInv

LEMMA StutterRecovers ==
  ASSUME UNCHANGED vars PROVE \A s : Recovered(s)' = Recovered(s)
<1>1. UNCHANGED <<files, writing>>
  BY DEF vars
<1> QED  BY <1>1 DEF Recovered, RecoveredPart, Settled, SoleCopyOpen, ReadData, ReadSaveFile, Main, Backup

LEMMA StutterRefines == RefInv /\ UNCHANGED vars => RefInv'
<1> SUFFICES ASSUME RefInv, UNCHANGED vars PROVE RefInv'
  OBVIOUS
<1>1. KeepInv'
  BY NextKeepInv DEF RefInv
<1>2. UNCHANGED <<files, writing, pending, phase, fileNum, late, saves>> /\ Current' = Current
  BY DEF vars, Current
<1>3. Older(Current, saves)' /\ InOrder(Current)'
  BY <1>2 DEF RefInv, Older, InOrder, OwlsInOrder, Main, Backup
<1>4. pending' \in Seq(MadeBy(saves))' /\ LateIsPlayed'
  BY <1>2 DEF RefInv, LateIsPlayed, MadeBy, Writes
<1>5. Planned'
  <2>1. ASSUME NEW g, PlayedWillBe(g) PROVE PlayedWillBe(g)'
    BY <1>2, <2>1 DEF PlayedWillBe, InPlay, Holds, Main, Backup
  <2> QED  BY <1>2, <2>1 DEF RefInv, Planned, FileStates, Plan, GoodWrite
<1>6. OpenIsGood'
  <2> SUFFICES ASSUME writing'.open, NEW s \in Slots, writing'.file \in FilesOf(s)
               PROVE  Change(Current', s, Recovered(s)', Rec(Current', s))
    BY DEF OpenIsGood, FilesOf, Rec, Change, NewIn, Main, Backup
  <2>1. Recovered(s)' = Recovered(s)
    BY StutterRecovers
  <2> QED  BY <1>2, <2>1 DEF RefInv, OpenIsGood
<1> QED  BY <1>1, <1>3, <1>4, <1>5, <1>6 DEF RefInv

LEMMA NextRefInv ==
  ASSUME AutoSaves = FALSE
  PROVE  RefInv /\ [Next]_vars => RefInv'
BY StartWriteRefines, EndWriteRefines, HandlersRefine, StutterRefines

LEMMA InitRefInv == Init => RefInv
<1> SUFFICES ASSUME Init PROVE RefInv
  OBVIOUS
<1>1. /\ files = [i \in FlashSaves |-> Absent] /\ pending = <<>> /\ ~writing.open
      /\ phase = "verify" /\ late = 0 /\ saves = 0 /\ Current = files
  BY DEF Init, NotWriting, Current
<1>2. KeepInv
  BY InitKeepInv
<1>3. files \in FileStates
  BY <1>1, WholeIs, VContents, BoundsAssumption DEF FileStates
<1>4. \A i \in FlashSaves : Whole(files[i]) = Absent
  BY <1>1 DEF Whole
<1>5. Older(Current, saves) /\ InOrder(Current)
  <2>1. \A s \in Slots : Main(s) \in FlashSaves /\ Backup(s) \in FlashSaves
    BY FilesApart
  <2> QED  BY <1>1, <1>4, <2>1 DEF Older, InOrder, OwlsInOrder, Absent
<1>6. pending \in Seq(MadeBy(saves)) /\ LateIsPlayed /\ OpenIsGood
  BY <1>1 DEF LateIsPlayed, OpenIsGood
<1>7. Planned
  <2>1. Plan(Current, pending, files)
    BY <1>1, PlanNothing
  <2>2. PlayedWillBe(files)
    BY <1>1 DEF PlayedWillBe, InPlay
  <2> QED  BY <1>3, <2>1, <2>2 DEF Planned
<1> QED  BY <1>2, <1>5, <1>6, <1>7 DEF RefInv
-----------------------------------------------------------------------------
(* Every step maps to a step of SaveSlots, or to none. *)
LEMMA RecoveredType ==
  ASSUME IInv, NEW s \in Slots
  PROVE  \E a, o \in Nat : Recovered(s) = V(a, o)
<1>1. \A i \in FlashSaves : Settled(i) \in Contents
  <2>1. writing.content \in Contents /\ files \in FileStates
    BY FilesTyped DEF IInv, TypeOK
  <2> QED  BY <2>1, ReadIsWhole, WholeIs DEF Settled
<1>2. PICK m \in Contents, b \in Contents : Settled(Main(s)) = m /\ Settled(Backup(s)) = b
  BY <1>1, FilesApart
<1>3. Recovered(s) = Found(m, b)
  BY <1>2, RecoveredIs
<1>4. /\ m.newCycleSave \in Nat /\ m.owlSave \in Nat
      /\ b.newCycleSave \in Nat /\ b.owlSave \in Nat
  BY VContents, BoundsAssumption
<1> QED  BY <1>3, <1>4, VContents DEF Found, Either

RecoveredSlots == [s \in Slots |-> Recovered(s)]

LEMMA ChangeIsStep ==
  ASSUME IInv, NEW s \in Slots, NEW f,
         \A t \in Slots \ {s} : Recovered(t) = Rec(f, t),
         \A t \in Slots \ {s} : Recovered(t)' = Recovered(t),
         Change(f, s, Recovered(s), Recovered(s)')
  PROVE  Promise!Next \/ RecoveredSlots' = RecoveredSlots
<1> PICK p, q : p = RecoveredSlots /\ q = RecoveredSlots'
  OBVIOUS
<1>1. PICK r, z : r = Recovered(s) /\ z = Recovered(s)'
  OBVIOUS
<1>2. PICK a \in Nat, o \in Nat : r = V(a, o)
  BY <1>1, RecoveredType
<1>3. /\ p \in [Slots -> {p[t] : t \in Slots}] /\ q = [p EXCEPT ![s] = z] /\ p[s] = r
      /\ \A t \in Slots \ {s} : p[t] = Rec(f, t)
  BY <1>1 DEF RecoveredSlots, Slots
<1>4. /\ r.newCycleSave = a /\ r.owlSave = o
      /\ \A n : V(n, o) = [r EXCEPT !.newCycleSave = n] /\ V(a, n) = [r EXCEPT !.owlSave = n]
  BY <1>2 DEF V
<1>5. (\E t \in Slots :
          \/ \E n \in 1 .. MaxSaves :
               \/ /\ \A u \in Slots : n > p[u].newCycleSave /\ n > p[u].owlSave
                  /\ q = [p EXCEPT ![t].newCycleSave = n]
               \/ /\ \A u \in Slots : n > p[u].newCycleSave /\ n > p[u].owlSave
                  /\ p[t].newCycleSave # 0 /\ q = [p EXCEPT ![t].owlSave = n]
          \/ q = [p EXCEPT ![t].owlSave = 0]
          \/ q = [p EXCEPT ![t] = Absent]
          \/ \E u \in Slots : p[u] = Absent /\ q = [p EXCEPT ![u] = p[t]])
      => Promise!Next
  BY DEF RecoveredSlots, Promise!Next, Promise!SaveNewCycle, Promise!SaveOwl, Promise!RemoveOwl,
         Promise!Erase, Promise!Copy, Promise!New, Promise!Empty, Absent, Slots, Main, Backup
<1>6. Change(f, s, r, z)
  BY <1>1
<1>7. CASE z = r
  BY <1>3, <1>7
<1>8. CASE z = V(r.newCycleSave, 0)
  <2>1. q = [p EXCEPT ![s].owlSave = 0]
    BY <1>3, <1>4, <1>8
  <2> QED  BY <1>5, <2>1
<1>9. CASE z = Absent
  BY <1>3, <1>5, <1>9
<1>10. CASE r = Absent /\ \E t \in Slots \ {s} : z = Rec(f, t)
  <2>1. PICK t \in Slots \ {s} : z = Rec(f, t)
    BY <1>10
  <2>2. p[s] = Absent /\ q = [p EXCEPT ![s] = p[t]]
    BY <1>3, <1>10, <2>1
  <2> QED  BY <1>5, <2>2
<1>11. ASSUME NEW n \in 1 .. MaxSaves, NewIn(f, s, r, n)
       PROVE  \A u \in Slots : n > p[u].newCycleSave /\ n > p[u].owlSave
  BY <1>3, <1>11 DEF NewIn
<1>12. CASE \E n \in 1 .. MaxSaves : NewIn(f, s, r, n) /\ z = V(n, r.owlSave)
  <2>1. PICK n \in 1 .. MaxSaves : NewIn(f, s, r, n) /\ z = V(n, r.owlSave)
    BY <1>12
  <2>2. q = [p EXCEPT ![s].newCycleSave = n]
    BY <1>3, <1>4, <2>1
  <2>3. \A u \in Slots : n > p[u].newCycleSave /\ n > p[u].owlSave
    BY <1>11, <2>1
  <2> QED  BY <1>5, <2>2, <2>3
<1>13. CASE \E n \in 1 .. MaxSaves : NewIn(f, s, r, n) /\ r.newCycleSave # 0
                                     /\ z = V(r.newCycleSave, n)
  <2>1. PICK n \in 1 .. MaxSaves : NewIn(f, s, r, n) /\ r.newCycleSave # 0
                                   /\ z = V(r.newCycleSave, n)
    BY <1>13
  <2>2. q = [p EXCEPT ![s].owlSave = n] /\ p[s].newCycleSave # 0
    BY <1>3, <1>4, <2>1
  <2>3. \A u \in Slots : n > p[u].newCycleSave /\ n > p[u].owlSave
    BY <1>11, <2>1
  <2> QED  BY <1>5, <2>2, <2>3
<1> QED  BY <1>6, <1>7, <1>8, <1>9, <1>10, <1>12, <1>13 DEF Change

LEMMA StartWriteIsPromised ==
  ASSUME RefInv, IInv', StartWrite
  PROVE  Promise!Next \/ RecoveredSlots' = RecoveredSlots
<1> PICK w : w = Head(pending)
  OBVIOUS
<1>1. /\ ~writing.open /\ IInv /\ GoodWrite(files, w) /\ files \in FileStates
      /\ w \in Writes /\ w.file \in FlashSaves
  <2>1. IInv /\ files \in FileStates
    BY RefTypes
  <2>2. w \in MadeBy(saves) /\ GoodWrite(files, w)
    BY StartWritePlan
  <2> QED  BY <2>1, <2>2 DEF StartWrite, MadeBy, Writes
<1>2. PICK s \in Slots : w.file \in FilesOf(s)
  BY <1>1, FileOfSlot DEF FilesOf
<1>3. \A t \in Slots : Recovered(t) = Rec(files, t)
  BY <1>1, RecoveredWhenClosed
<1>4. \A t \in Slots : Recovered(t)' = Rec(Opened(files, w), t)
  BY <1>1, StartWriteRecovers
<1>5. \A i \in FlashSaves \ FilesOf(s) : Opened(files, w)[i] = files[i]
  BY <1>1, <1>2 DEF Opened, FileStates
<1>6. \A t \in Slots \ {s} : Rec(Opened(files, w), t) = Rec(files, t)
  BY <1>5, ChangeElsewhere
<1>7. Change(files, s, Rec(files, s), Rec(Opened(files, w), s))
  BY <1>1, <1>2 DEF GoodWrite
<1>8. Change(files, s, Recovered(s), Recovered(s)')
  BY <1>3, <1>4, <1>7
<1>9. \A t \in Slots \ {s} : Recovered(t) = Rec(files, t) /\ Recovered(t)' = Recovered(t)
  BY <1>3, <1>4, <1>6
<1> QED  BY <1>1, <1>8, <1>9, ChangeIsStep

LEMMA EndWriteIsPromised ==
  ASSUME RefInv, IInv', EndWrite
  PROVE  Promise!Next \/ RecoveredSlots' = RecoveredSlots
<1>1. /\ writing.open /\ ~writing'.open /\ IInv /\ files' = Current
      /\ writing.file \in FlashSaves
  BY RefTypes DEF EndWrite, NotWriting, Current, IInv, TypeOK
<1>2. PICK s \in Slots : writing.file \in FilesOf(s)
  BY <1>1, FileOfSlot DEF FilesOf
<1>3. \A t \in Slots : Recovered(t)' = Rec(Current, t)
  BY <1>1, RecoveredWhenClosedNext
<1>4. ASSUME NEW t \in Slots \ {s} PROVE Recovered(t) = Rec(Current, t)
  <2>1. writing.file \notin FilesOf(t)
    BY <1>2, FilesApart
  <2> QED  BY <1>1, <2>1, RecoveredWhenClosed
<1>5. Change(Current, s, Recovered(s), Recovered(s)')
  BY <1>1, <1>2, <1>3 DEF RefInv, OpenIsGood
<1>6. \A t \in Slots \ {s} : Recovered(t) = Rec(Current, t) /\ Recovered(t)' = Recovered(t)
  BY <1>3, <1>4
<1> QED  BY <1>1, <1>5, <1>6, ChangeIsStep

(* No handler changes by itself what a restart would recover, and nor does *)
(* a crash unless it takes the only copy of a save with it.                *)
LEMMA HandlersArePromised ==
  ASSUME SoleCopyCrashes = {}, RefInv, Next, ~StartWrite, ~EndWrite
  PROVE  RecoveredSlots' = RecoveredSlots
<1>1. /\ ~writing'.open
      /\ \A i \in FlashSaves : Whole(files'[i]) = Whole(files[i])
  BY HandlersKeepFiles
<1>2. ~SoleCopyOpen
  BY DEF Next, VerifyNewCycle, VerifyOwl, VerifyHeader, InitSave, EraseSave, OpenSave, CopySave,
         HandleFileDropped, EnterClockTown, EndOfCycle, NewDay, MoonCrash, MoonCrashSave, OwlSave,
         UpdateWriteToFlashOwlSave, AutoSave, DeleteFileOnDeath, Reset, Playing, Crash, Idle,
         SoleCopyOpen
<1>3. ~SoleCopyOpen'
  BY <1>1 DEF SoleCopyOpen
<1>4. \A i \in FlashSaves : ReadSaveFile(i)' = ReadSaveFile(i)
  BY <1>1, ReadIsWhole
<1>5. \A s \in Slots : Recovered(s)' = Recovered(s)
  BY <1>2, <1>3, <1>4, SettledAsRead
<1> QED  BY <1>5 DEF RecoveredSlots, Slots

LEMMA StepIsPromised ==
  ASSUME SoleCopyCrashes = {}
  PROVE  RefInv /\ RefInv' /\ [Next]_vars => [Promise!Next]_RecoveredSlots
<1> SUFFICES ASSUME RefInv, RefInv', [Next]_vars
             PROVE  Promise!Next \/ RecoveredSlots' = RecoveredSlots
  OBVIOUS
<1>1. IInv'
  BY DEF RefInv, KeepInv, PlayInv, SelectInv
<1>2. CASE UNCHANGED vars
  BY <1>2, StutterRecovers DEF RecoveredSlots, Slots
<1> QED  BY <1>1, <1>2, StartWriteIsPromised, EndWriteIsPromised, HandlersArePromised

LEMMA StartIsPromised == Init => Promise!Init
<1> SUFFICES ASSUME Init PROVE Promise!Init
  OBVIOUS
<1>1. RefInv /\ ~writing.open /\ files = [i \in FlashSaves |-> Absent]
  BY InitRefInv DEF Init, NotWriting
<1>2. ASSUME NEW s \in Slots PROVE Recovered(s) = Absent
  <2>1. Recovered(s) = Rec(files, s)
    BY <1>1, RefTypes, RecoveredWhenClosed
  <2>2. Whole(files[Main(s)]) = Absent /\ Whole(files[Backup(s)]) = Absent
    BY <1>1, FilesApart DEF Whole
  <2>3. Absent.newCycleSave = 0
    BY DEF Absent
  <2> QED  BY <2>1, <2>2, <2>3 DEF Rec, Found, Either
<1>3. [s \in Slots |-> Recovered(s)] = [s \in Slots |-> Absent]
  BY <1>2
<1> QED  BY <1>3 DEF Promise!Init, Promise!Empty, Absent

(* RefInv holds without autosaves: what a handler still has to write is a  *)
(* plan each step of which the promise allows, no file is newer than the   *)
(* last save, and no backup is newer than its main owl save (z_sram_NES.c; *)
(* an autosave, which writes no backup, breaks the last part).             *)
THEOREM RefInvariant ==
  ASSUME AutoSaves = FALSE
  PROVE  Spec => []RefInv
BY InitRefInv, NextRefInv, PTL DEF Spec

(* Without autosaves, and where no process dies while the only whole copy  *)
(* of a save is being rewritten: the saves a restart recovers change one   *)
(* at a time and as a whole, at every step of every handler's writes and   *)
(* wherever else the process is killed (SaveManager_SysFlashrom_WriteData, *)
(* func_801457CC and the order of the writes in z_sram_NES.c).             *)
THEOREM SlotsChangeAsAWhole ==
  ASSUME AutoSaves = FALSE, SoleCopyCrashes = {}
  PROVE  Spec => ImplementsSlots
<1>1. RefInv /\ RefInv' /\ [Next]_vars => [Promise!Next]_[s \in Slots |-> Recovered(s)]
  BY StepIsPromised DEF RecoveredSlots
<1>2. Spec => []RefInv
  BY RefInvariant
<1> QED  BY <1>1, <1>2, StartIsPromised, PTL DEF Spec, ImplementsSlots, Promise!Spec
==============================================================================
