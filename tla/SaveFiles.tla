------------------------------ MODULE SaveFiles ------------------------------
(***************************************************************************)
(* The save files of mm/2s2h/SaveManager/SaveManager.cpp and the protocol  *)
(* of mm/src/code/z_sram_NES.c over them.  Each slot has a main and a      *)
(* backup file; each file holds a new-cycle save and an owl save.  A write *)
(* truncates its file and writes it in place, so a process killed in       *)
(* between leaves a torn file; the file select reads every file, moves the *)
(* torn ones aside and repairs each slot from its other file.              *)
(*                                                                         *)
(* Saves are numbered in the order the game makes them and 0 stands for    *)
(* none: the zeroed buffer, whose name field fails IS_VALID_FILE.  All of  *)
(* it runs on the game thread: "pending" lists the writes the handler now  *)
(* running still has to do, and only a crash comes between them.           *)
(***************************************************************************)
EXTENDS Naturals, Sequences

CONSTANTS
  NumSlots,         \* FILE_NUM_MAX
  AutoSaves,        \* gEnhancements.Saving.Autosave or PauseSave is on
  SoleCopyCrashes,  \* the phases in which the process may die while the
                    \* only whole copy of a save is being rewritten
  Torn,             \* a truncated file: no longer JSON
  MaxSaves,         \* bound: saves the game makes
  MaxCrashes        \* bound: times the process dies

Phases == {"verify", "select", "play", "ended"}

ASSUME SlotsAssumption == NumSlots \in Nat \ {0}
ASSUME BoundsAssumption == MaxSaves \in Nat /\ MaxCrashes \in Nat
ASSUME SettingsAssumption ==
  AutoSaves \in BOOLEAN /\ SoleCopyCrashes \subseteq Phases

VARIABLES
  files,     \* the saves folder: what each save file holds
  pending,   \* the writes left to the handler that runs, in order
  writing,   \* the file open for writing, what it held and will hold
  phase,     \* file select being set up ("verify"), shown ("select"), a game
             \* running ("play"), or over until the next reset ("ended")
  checking,  \* sp76: the save the file select checks next
  newf,      \* slots the file select lists
  isOwlSave, \* slots whose owl save it lists
  fileNum,   \* gSaveContext.fileNum: the slot that is played
  late,      \* the owl save whose backup waits for the next frame, or 0
  saves,     \* number of the last save the game made
  crashes

vars == <<files, pending, writing, phase, checking, newf, isOwlSave, fileNum,
          late, saves, crashes>>

Slots == 0 .. NumSlots - 1

(* gFlashSaveStartPages alternates main and backup, slot by slot; the page *)
(* index i of a new-cycle save stands for the file GetFileName names.      *)
FlashSaves == 0 .. 2 * NumSlots - 1
Main(s) == 2 * s
Backup(s) == 2 * s + 1

Absent == [newCycleSave |-> 0, owlSave |-> 0]
Parts == {"newCycleSave", "owlSave"}
Contents == [Parts -> 0 .. MaxSaves]
ASSUME TornAssumption == Torn \notin Contents

NotWriting == [file |-> 0, was |-> Absent, content |-> Absent, open |-> FALSE]

(* SaveManager_ReadSaveFile: the JSON of a file.  A torn one counts as     *)
(* absent, once SaveManager_MoveInvalidSaveFile has renamed it.            *)
ReadSaveFile(i) == IF files[i] = Torn THEN Absent ELSE files[i]

(* SaveManager_SysFlashrom_ReadData: the part it puts in the buffer, 0     *)
(* when it answers an error; MoveInvalid is what it leaves in the folder   *)
(* for the slots it has read.                                              *)
ReadData(i, part) == ReadSaveFile(i)[part]

(* Mutation: a torn backup is left in place. *)
MoveInvalidMainOnly(s) ==
  [i \in FlashSaves |-> IF i = Main(s) THEN ReadSaveFile(i) ELSE files[i]]

MoveInvalid(s) ==
  [i \in FlashSaves |->
    IF i \in {Main(s), Backup(s)} THEN ReadSaveFile(i) ELSE files[i]]

(* Mutation: the backup is not used. *)
ReadEitherMainOnly(s, part) == ReadData(Main(s), part)

(* The main copy, or the backup where the main one cannot be read.         *)
ReadEither(s, part) ==
  IF ReadData(Main(s), part) # 0
  THEN ReadData(Main(s), part) ELSE ReadData(Backup(s), part)

(* Mutation: a bad backup is not repaired. *)
NeedsRepairMainOnly(s, part) == ReadData(Main(s), part) = 0

(* The file select repairs a slot whose main copy cannot be read or whose  *)
(* backup differs from it.                                                 *)
NeedsRepair(s, part) ==
  \/ ReadData(Main(s), part) = 0
  \/ ReadData(Backup(s), part) # ReadData(Main(s), part)

-----------------------------------------------------------------------------
(* One SaveManager_SysFlashrom_WriteData of a file: the part written, or   *)
(* the whole file deleted or imported.                                     *)
Op(i, part, n) == [file |-> i, part |-> part, save |-> n]

WriteNewCycle(i, n) == Op(i, "newCycleSave", n)
WriteOwl(i, n) == Op(i, "owlSave", n)

(* Mutation: the page index is the slot, not twice the slot. *)
WriteSpecialUnscaled(s, n) == <<WriteNewCycle(s + 1, n), WriteNewCycle(s, n)>>

(* The "special" page count: the backup first, then the main file.         *)
WriteSpecial(s, n) == <<WriteNewCycle(Backup(s), n), WriteNewCycle(Main(s), n)>>

(* Two calls of Sram_SyncWriteToFlash, as func_80147314 and others make.   *)
WriteOwlTwice(s, n) == <<WriteOwl(Main(s), n), WriteOwl(Backup(s), n)>>

(* What the file holds after w.  The other part is read first and kept; an *)
(* invalid new-cycle save deletes the file, an invalid owl save only       *)
(* itself unless nothing else is left.                                     *)
NewCycleWritten(j, n) ==
  IF n = 0 THEN Absent ELSE [j EXCEPT !.newCycleSave = n]

OwlWritten(j, n) ==
  IF n = 0 /\ j.newCycleSave = 0 THEN Absent ELSE [j EXCEPT !.owlSave = n]

Written(w) ==
  LET j == ReadSaveFile(w.file)
  IN  IF w.part = "newCycleSave" THEN NewCycleWritten(j, w.save)
      ELSE IF w.part = "owlSave" THEN OwlWritten(j, w.save)
      ELSE NewCycleWritten(Absent, w.save)  \* "import", or "delete" with 0

(* SaveManager_WriteSaveFile opens, and so truncates, the file;            *)
(* SaveManager_DeleteSaveFile removes it in one step.                      *)
StartWrite ==
  /\ ~writing.open /\ pending # <<>>
  /\ LET w == Head(pending)
     IN  IF Written(w) = Absent
         THEN /\ files' = [files EXCEPT ![w.file] = Absent]
              /\ UNCHANGED writing
         ELSE /\ files' = [files EXCEPT ![w.file] = Torn]
              /\ writing' = [file |-> w.file, was |-> ReadSaveFile(w.file),
                             content |-> Written(w), open |-> TRUE]
  /\ pending' = Tail(pending)
  /\ UNCHANGED <<phase, checking, newf, isOwlSave, fileNum, late, saves,
                 crashes>>

EndWrite ==
  /\ writing.open
  /\ files' = [files EXCEPT ![writing.file] = writing.content]
  /\ writing' = NotWriting
  /\ UNCHANGED <<pending, phase, checking, newf, isOwlSave, fileNum, late,
                 saves, crashes>>

(* The handler has done its writes: the game thread takes its next frame.  *)
Idle == ~writing.open /\ pending = <<>>

-----------------------------------------------------------------------------
(* func_801457CC, "Verifies save and use backup if corrupted?": one        *)
(* iteration of its loop for a new-cycle save.  A slot that has none is    *)
(* written as zeros, which deletes its files.                              *)
VerifyNewCycle ==
  /\ phase = "verify" /\ checking \in Slots /\ Idle
  /\ LET s == checking
         n == ReadEither(s, "newCycleSave")
     IN  /\ pending' = IF NeedsRepair(s, "newCycleSave")
                       THEN WriteSpecial(s, n) ELSE <<>>
         /\ newf' = IF n # 0 THEN newf \cup {s} ELSE newf \ {s}
         /\ isOwlSave' = isOwlSave \ {s}
         /\ files' = MoveInvalid(s)
  /\ checking' = checking + 1
  /\ UNCHANGED <<writing, phase, fileNum, late, saves, crashes>>

(* The iterations for the owl saves.  A listed slot without an owl save    *)
(* has zeros written to both files, as an unlisted one has.                *)
VerifyOwl ==
  /\ phase = "verify" /\ checking \in NumSlots .. 2 * NumSlots - 1 /\ Idle
  /\ LET s == checking - NumSlots
         n == IF s \in newf THEN ReadEither(s, "owlSave") ELSE 0
     IN  /\ pending' = IF s \notin newf \/ NeedsRepair(s, "owlSave")
                       THEN WriteOwlTwice(s, n) ELSE <<>>
         /\ isOwlSave' = IF n # 0 THEN isOwlSave \cup {s} ELSE isOwlSave \ {s}
         /\ files' = MoveInvalid(s)
  /\ checking' = checking + 1
  /\ UNCHANGED <<writing, phase, newf, fileNum, late, saves, crashes>>

(* The last iteration reads the options, kept in a file of their own.      *)
VerifyHeader ==
  /\ phase = "verify" /\ checking = 2 * NumSlots /\ Idle
  /\ phase' = "select"
  /\ UNCHANGED <<files, pending, writing, checking, newf, isOwlSave, fileNum,
                 late, saves, crashes>>

(* FileSelect_InitContext, reached from a reset, the end of a game, a      *)
(* restart after a crash, or an import.                                    *)
EnterFileSelect ==
  /\ phase' = "verify"
  /\ checking' = 0
  /\ newf' = {} /\ isOwlSave' = {}

Reset ==
  /\ phase # "verify" /\ Idle
  /\ EnterFileSelect
  /\ late' = 0
  /\ UNCHANGED <<files, pending, writing, fileNum, saves, crashes>>

-----------------------------------------------------------------------------
(* The game makes save n, named after the last one.                        *)
NextSave == saves + 1
MakeSave == saves < MaxSaves /\ saves' = NextSave

(* Sram_InitSave and the write of the name entry.                          *)
InitSave(s) ==
  /\ phase = "select" /\ Idle /\ s \notin newf
  /\ MakeSave
  /\ pending' = WriteSpecial(s, NextSave)
  /\ newf' = newf \cup {s}
  /\ fileNum' = s
  /\ UNCHANGED <<files, writing, phase, checking, isOwlSave, late, crashes>>

(* Mutation: the owl save is copied last. *)
CopySaveNewCycleFirst(s, t) ==
  /\ phase = "select" /\ Idle /\ s \in newf /\ t \notin newf
  /\ pending' = WriteSpecial(t, ReadData(Main(s), "newCycleSave"))
                \o (IF s \in isOwlSave
                    THEN WriteOwlTwice(t, ReadEither(s, "owlSave")) ELSE <<>>)
  /\ newf' = newf \cup {t}
  /\ isOwlSave' = IF s \in isOwlSave THEN isOwlSave \cup {t} ELSE isOwlSave
  /\ UNCHANGED <<files, writing, phase, checking, fileNum, late, saves,
                 crashes>>

(* Sram_CopySave: the owl save first, in both files of the empty slot, and *)
(* then the new-cycle save of the main file.                               *)
CopySave(s, t) ==
  /\ phase = "select" /\ Idle /\ s \in newf /\ t \notin newf
  /\ pending' = (IF s \in isOwlSave
                 THEN WriteOwlTwice(t, ReadEither(s, "owlSave")) ELSE <<>>)
                \o WriteSpecial(t, ReadData(Main(s), "newCycleSave"))
  /\ newf' = newf \cup {t}
  /\ isOwlSave' = IF s \in isOwlSave THEN isOwlSave \cup {t} ELSE isOwlSave
  /\ UNCHANGED <<files, writing, phase, checking, fileNum, late, saves,
                 crashes>>

(* Sram_EraseSave and the write of the erase confirmation.                 *)
EraseSave(s) ==
  /\ phase = "select" /\ Idle /\ s \in newf
  /\ pending' = (IF s \in isOwlSave THEN WriteOwlTwice(s, 0) ELSE <<>>)
                \o WriteSpecial(s, 0)
  /\ newf' = newf \ {s} /\ isOwlSave' = isOwlSave \ {s}
  /\ UNCHANGED <<files, writing, phase, checking, fileNum, late, saves,
                 crashes>>

(* SaveManager_HandleFileDropped: into the first slot without a main file; *)
(* a file select that is shown starts over.                                *)
HandleFileDropped ==
  /\ phase # "verify" /\ Idle
  /\ MakeSave
  /\ \E s \in Slots :
       /\ files[Main(s)] = Absent
       /\ \A t \in Slots : t < s => files[Main(t)] # Absent
       /\ pending' = <<Op(Main(s), "import", NextSave)>>
  /\ IF phase = "select" THEN EnterFileSelect
     ELSE UNCHANGED <<phase, checking, newf, isOwlSave>>
  /\ UNCHANGED <<files, writing, fileNum, late, crashes>>

(* Sram_OpenSave: an owl save is removed when it is continued, unless it   *)
(* is persistent or was a pause save (VB_DELETE_OWL_SAVE).                 *)
OpenSave(s) ==
  /\ phase = "select" /\ Idle /\ s \in newf
  /\ fileNum' = s
  /\ phase' = "play"
  /\ \E persistent \in BOOLEAN :
       pending' = IF s \in isOwlSave /\ ~persistent
                  THEN WriteOwlTwice(s, 0) ELSE <<>>
  /\ UNCHANGED <<files, writing, checking, newf, isOwlSave, late, saves,
                 crashes>>

-----------------------------------------------------------------------------
Playing == phase = "play" /\ Idle /\ late = 0

(* Sram_SaveSpecialEnterClockTown.                                         *)
EnterClockTown ==
  /\ Playing /\ MakeSave
  /\ pending' = WriteSpecial(fileNum, NextSave)
  /\ UNCHANGED <<files, writing, phase, checking, newf, isOwlSave, fileNum,
                 late, crashes>>

(* MSGMODE_NEW_CYCLE_0: Sram_SaveEndOfCycle runs the hook that deletes the *)
(* owl save, then the new cycle is written.                                *)
SaveCycle == WriteOwlTwice(fileNum, 0) \o WriteSpecial(fileNum, NextSave)

EndOfCycle ==
  /\ Playing /\ MakeSave
  /\ pending' = SaveCycle
  /\ UNCHANGED <<files, writing, phase, checking, newf, isOwlSave, fileNum,
                 late, crashes>>

(* Sram_SaveSpecialNewDay: the main file only, before the ending.          *)
NewDay ==
  /\ Playing /\ MakeSave
  /\ pending' = WriteOwlTwice(fileNum, 0)
                \o <<WriteNewCycle(Main(fileNum), NextSave)>>
  /\ phase' = "ended"
  /\ UNCHANGED <<files, writing, checking, newf, isOwlSave, fileNum, late,
                 crashes>>

(* BeforeMoonCrash: the owl save goes.  With SaveOnMoonCrash the cycle is  *)
(* saved too, by a hook that runs before or after that deletion.           *)
MoonCrash ==
  /\ Playing
  /\ pending' = WriteOwlTwice(fileNum, 0)
  /\ UNCHANGED <<files, writing, phase, checking, newf, isOwlSave, fileNum,
                 late, saves, crashes>>

MoonCrashSave ==
  /\ Playing /\ MakeSave
  /\ pending' \in {WriteOwlTwice(fileNum, 0) \o SaveCycle,
                   SaveCycle \o WriteOwlTwice(fileNum, 0)}
  /\ UNCHANGED <<files, writing, phase, checking, newf, isOwlSave, fileNum,
                 late, crashes>>

(* MSGMODE_OWL_SAVE_0 at an owl statue: Sram_StartWriteToFlashOwlSave      *)
(* writes the main file, Sram_UpdateWriteToFlashOwlSave the backup a frame *)
(* later; then the game returns to the title.                              *)
OwlSave ==
  /\ Playing /\ MakeSave
  /\ pending' = <<WriteOwl(Main(fileNum), NextSave)>>
  /\ late' = NextSave
  /\ UNCHANGED <<files, writing, phase, checking, newf, isOwlSave, fileNum,
                 crashes>>

UpdateWriteToFlashOwlSave ==
  /\ phase = "play" /\ Idle /\ late # 0
  /\ pending' = <<WriteOwl(Backup(fileNum), late)>>
  /\ late' = 0
  /\ phase' = "ended"
  /\ UNCHANGED <<files, writing, checking, newf, isOwlSave, fileNum, saves,
                 crashes>>

(* HandleAutoSave and the pause menu's save.  VB_SAVE_USE_OWL_SAVE_TIMING  *)
(* sends the next frame to Sram_UpdateWriteToFlashDefault, which ends the  *)
(* write: the backup is never written.                                     *)
AutoSave ==
  /\ AutoSaves /\ Playing /\ MakeSave
  /\ pending' = <<WriteOwl(Main(fileNum), NextSave)>>
  /\ UNCHANGED <<files, writing, phase, checking, newf, isOwlSave, fileNum,
                 late, crashes>>

(* RegisterDeleteFileOnDeath: both files, then the console's "reset".      *)
DeleteFileOnDeath ==
  /\ Playing
  /\ pending' = <<Op(Main(fileNum), "delete", 0),
                  Op(Backup(fileNum), "delete", 0)>>
  /\ phase' = "ended"
  /\ UNCHANGED <<files, writing, checking, newf, isOwlSave, fileNum, late,
                 saves, crashes>>

-----------------------------------------------------------------------------
(* The file that is open held a save, and will hold one again, that a      *)
(* restart would have listed and the other file of its slot has not, nor a *)
(* newer one: the file select repairs the slot, or an autosave without a   *)
(* backup is replaced.                                                     *)
SoleCopyOpen ==
  /\ writing.open
  /\ \E s \in Slots, part \in Parts :
       /\ writing.was[part] # 0 /\ writing.content[part] # 0
       /\ \/ writing.file = Main(s)
             /\ ReadData(Backup(s), part) < writing.was[part]
          \/ writing.file = Backup(s)
             /\ ReadData(Main(s), part) = 0

(* The process is killed, and started again.                               *)
Crash ==
  /\ crashes < MaxCrashes
  /\ SoleCopyOpen => phase \in SoleCopyCrashes
  /\ crashes' = crashes + 1
  /\ pending' = <<>> /\ writing' = NotWriting /\ late' = 0
  /\ EnterFileSelect
  /\ UNCHANGED <<files, fileNum, saves>>

Init ==
  /\ files = [i \in FlashSaves |-> Absent]
  /\ pending = <<>> /\ writing = NotWriting
  /\ phase = "verify" /\ checking = 0
  /\ newf = {} /\ isOwlSave = {}
  /\ fileNum = 0 /\ late = 0
  /\ saves = 0 /\ crashes = 0

Next ==
  \/ StartWrite \/ EndWrite
  \/ VerifyNewCycle \/ VerifyOwl \/ VerifyHeader
  \/ \E s \in Slots : InitSave(s) \/ EraseSave(s) \/ OpenSave(s)
  \/ \E s, t \in Slots : CopySave(s, t)
  \/ HandleFileDropped
  \/ EnterClockTown \/ EndOfCycle \/ NewDay \/ MoonCrash \/ MoonCrashSave
  \/ OwlSave \/ UpdateWriteToFlashOwlSave
  \/ AutoSave \/ DeleteFileOnDeath
  \/ Reset \/ Crash

Spec == Init /\ [][Next]_vars
-----------------------------------------------------------------------------
(* Types: every file is whole or torn, at most one is open, and the writes *)
(* to come are writes of existing save files (the state of SaveManager.cpp *)
(* and of SramContext).                                                    *)
TypeOK ==
  /\ files \in [FlashSaves -> Contents \cup {Torn}]
  /\ pending \in Seq([file : FlashSaves, part : Parts \cup {"import", "delete"},
                     save : 0 .. MaxSaves])
  /\ writing \in [file : FlashSaves, was : Contents, content : Contents,
                  open : BOOLEAN]
  /\ phase \in Phases
  /\ checking \in 0 .. 2 * NumSlots
  /\ newf \subseteq Slots /\ isOwlSave \subseteq newf
  /\ fileNum \in Slots
  /\ late \in 0 .. MaxSaves /\ saves \in 0 .. MaxSaves
  /\ crashes \in 0 .. MaxCrashes

(* A write never finds its own file torn: whatever a crash left behind,    *)
(* the file select has read it, and so moved it aside, before any handler  *)
(* writes.  The salvage branch of SysFlashrom_WriteData ("Something went   *)
(* wrong trying to preserve the owl save") is then never needed.           *)
NoWriteMeetsTorn ==
  pending # <<>> /\ ~writing.open => files[Head(pending).file] # Torn

(* While the file select is shown, every slot has the same saves in its    *)
(* main and backup file, and they are the saves it lists, whatever crashes *)
(* and half-done handlers func_801457CC had to repair.                     *)
SelectShowsFiles ==
  phase = "select" /\ Idle =>
    \A s \in Slots :
      /\ files[Main(s)] = files[Backup(s)]
      /\ s \in newf <=> files[Main(s)].newCycleSave # 0
      /\ s \in isOwlSave <=> files[Main(s)].owlSave # 0

(* What a restart would make of the files as they are: the saves           *)
(* func_801457CC would list.  A sole copy that is being rewritten counts   *)
(* as what it will hold.                                                   *)
Settled(i) ==
  IF SoleCopyOpen /\ writing.file = i THEN writing.content ELSE ReadSaveFile(i)

RecoveredPart(s, part) ==
  IF Settled(Main(s))[part] # 0
  THEN Settled(Main(s))[part] ELSE Settled(Backup(s))[part]

Recovered(s) ==
  IF RecoveredPart(s, "newCycleSave") = 0 THEN Absent
  ELSE [part \in Parts |-> RecoveredPart(s, part)]

Promise == INSTANCE SaveSlots WITH
  Saves <- 1 .. MaxSaves,
  OldReturn <- AutoSaves,
  slots <- [s \in Slots |-> Recovered(s)]

(* Refinement: whatever the step and wherever the process is killed, the   *)
(* saves a restart recovers change one at a time and as a whole: a slot    *)
(* takes a save newer than both it has, loses its owl save, is erased, or  *)
(* becomes a copy of another (SaveManager_SysFlashrom_WriteData and the    *)
(* order of its callers' writes).  With autosaves, which rewrite the main  *)
(* file only, an owl save may give way to an older one, the backup's.      *)
ImplementsSlots == Promise!Spec

(* No save is lost on the way: what a restart would recover of a slot goes *)
(* away only by a write of zeros or a deletion that a handler means for    *)
(* that slot, never by a crash, the repair of func_801457CC or the write   *)
(* of another save.                                                        *)
LostOnlyOnPurpose ==
  [][\A s \in Slots, part \in Parts :
       Recovered(s)[part] # 0 /\ (Recovered(s)[part])' = 0 =>
         phase # "verify"
           /\ ~writing.open /\ pending # <<>> /\ Head(pending).save = 0
           /\ Head(pending).file \in {Main(s), Backup(s)}]_vars

(* Playing one slot leaves the saves of every other slot as they are; only *)
(* an import fills another one, and only an empty one                      *)
(* (gFlashSaveStartPages: each slot has pages of its own).                 *)
OtherSlotsUntouched ==
  [][\A s \in Slots \ {fileNum} :
       phase \in {"play", "ended"} /\ Recovered(s) # Absent =>
         Recovered(s)' = Recovered(s)]_vars
==============================================================================
