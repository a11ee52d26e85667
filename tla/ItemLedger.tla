------------------------------- MODULE ItemLedger -------------------------------
(***************************************************************************)
(* What the item events of the game owe the player: a thing asked for is   *)
(* given once for every time it is owed, a trap check owes its trap when   *)
(* it is given, and loading a file brings back what that file says.        *)
(***************************************************************************)
EXTENDS Naturals

CONSTANTS
  Checks,  \* randomizer checks: owed at most once at a time, kept in the save
  Traps,   \* the checks whose item is a trap
  Gifts    \* what the enhancements give: owed in play only

TrapOf(c) == <<"trap", c>>
Things == Checks \cup Gifts \cup {TrapOf(c) : c \in Traps}

Nothing == [x \in Things |-> 0]

VARIABLES owed, given, file

ledger == <<owed, given, file>>

Init == owed = Nothing /\ given = Nothing /\ file = <<Nothing, Nothing>>

Ask(x) ==
  /\ owed' = [owed EXCEPT ![x] = @ + 1]
  /\ UNCHANGED <<given, file>>

Earn(S) ==
  /\ owed' = [x \in Things |-> IF x \in S THEN 1 ELSE owed[x]]
  /\ UNCHANGED <<given, file>>

Give(x) ==
  /\ owed[x] > 0
  /\ owed' = [y \in Things |->
                owed[y] - (IF y = x THEN 1 ELSE 0)
                        + (IF x \in Traps /\ y = TrapOf(x) THEN 1 ELSE 0)]
  /\ given' = [given EXCEPT ![x] = @ + 1]
  /\ UNCHANGED file

SavedChecks == [x \in Things |-> IF x \in Checks THEN owed[x] ELSE 0]

Save == file' = <<SavedChecks, given>> /\ UNCHANGED <<owed, given>>

Load ==
  /\ \/ owed' = file[1] /\ given' = file[2]
     \/ owed' = Nothing /\ given' = Nothing  \* another save, not a rando one
  /\ UNCHANGED file

Next ==
  \/ \E S \in SUBSET Checks : Earn(S)
  \/ \E x \in Gifts : Ask(x)
  \/ \E x \in Things : Give(x)
  \/ Save
  \/ Load

Spec == Init /\ [][Next]_ledger
================================================================================
