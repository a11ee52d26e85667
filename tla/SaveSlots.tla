------------------------------ MODULE SaveSlots ------------------------------
(***************************************************************************)
(* What the save files promise the player, whatever happens to the         *)
(* process: each slot holds at most one new-cycle save and one owl save,   *)
(* and a slot changes only as a whole.  A save is named by its number, in  *)
(* the order the game made them; 0 stands for no save.  A step of the      *)
(* implementation that is none of these, a crash above all, leaves every   *)
(* slot alone.                                                             *)
(***************************************************************************)
EXTENDS Naturals

CONSTANTS
  Slots, Saves,
  OldReturn    \* an owl save that is removed may leave an older one in view
VARIABLE slots

Empty == [newCycleSave |-> 0, owlSave |-> 0]

Init == slots = [s \in Slots |-> Empty]

(* The game has just made save n: no slot has one as new. *)
New(n) == \A s \in Slots : n > slots[s].newCycleSave /\ n > slots[s].owlSave

SaveNewCycle(s, n) ==
  /\ New(n)
  /\ slots' = [slots EXCEPT ![s].newCycleSave = n]

SaveOwl(s, n) ==
  /\ New(n)
  /\ slots[s].newCycleSave # 0
  /\ slots' = [slots EXCEPT ![s].owlSave = n]

RemoveOwl(s) == slots' = [slots EXCEPT ![s].owlSave = 0]

(* Between the two writes that remove an owl save of which only the newest *)
(* copy was ever rewritten, an older one is what the slot holds.           *)
OlderOwl(s, n) ==
  /\ OldReturn
  /\ n < slots[s].owlSave
  /\ slots' = [slots EXCEPT ![s].owlSave = n]

Erase(s) == slots' = [slots EXCEPT ![s] = Empty]

Copy(s, t) ==
  /\ slots[t] = Empty
  /\ slots' = [slots EXCEPT ![t] = slots[s]]

Next ==
  \E s \in Slots :
    \/ \E n \in Saves : SaveNewCycle(s, n) \/ SaveOwl(s, n) \/ OlderOwl(s, n)
    \/ RemoveOwl(s) \/ Erase(s)
    \/ \E t \in Slots : Copy(s, t)

Spec == Init /\ [][Next]_slots
==============================================================================
