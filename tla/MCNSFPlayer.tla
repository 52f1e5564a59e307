----------------------------- MODULE MCNSFPlayer -----------------------------
(* In half cycles: periods of 6.5 and 8 cycles, at most three cycles from  *)
(* one instruction's end to the next, a watchdog of about two periods.     *)
EXTENDS NSFPlayer, TLC

MCPlayCycles == "NTSC" :> 13 @@ "PAL" :> 16
=============================================================================
