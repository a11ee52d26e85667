-------------------------- MODULE MCCommandMailbox --------------------------
EXTENDS CommandMailbox

MCOps == {"pause", "save"}
MCArgs == {0, 1}
(* One of the four submissions is out of range. *)
MCMalformed == {[op |-> "save", arg |-> 1]}
=============================================================================
