--------------------------- MODULE PolicyRegister ----------------------------
(***************************************************************************)
(* What hot reloading promises to requests: the rules in force are those   *)
(* of one save of the file, a gateway starts with the newest, and then it  *)
(* moves from save to save, never back, until it is restarted.             *)
(***************************************************************************)
EXTENDS Integers

VARIABLES
    saved,      \* the number of saves
    active      \* the save in force, -1 before there is one

registerVars == <<saved, active>>

RegisterInit == saved = 0 /\ active = -1

Save == saved' = saved + 1 /\ UNCHANGED active

Start == active = -1 /\ active' = saved /\ UNCHANGED saved

Adopt(n) == active >= 0 /\ n \in active..saved /\ active' = n /\ UNCHANGED saved

Reset == active' = -1 /\ UNCHANGED saved

RegisterNext == Save \/ Start \/ Reset \/ \E n \in active..saved : Adopt(n)

RegisterSpec == RegisterInit /\ [][RegisterNext]_registerVars
=============================================================================
