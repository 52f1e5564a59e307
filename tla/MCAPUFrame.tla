----------------------------- MODULE MCAPUFrame -----------------------------
(* The sequencer with its steps moved close together: far enough apart for *)
(* a $4017 write to be made and take effect between two of them, and with  *)
(* a PAL sequence that runs past the end of the NTSC one, as in hardware.  *)
EXTENDS APUFrame, TLC

Steps(second, fourth, fifth) == [second |-> second, fourth |-> fourth, fifth |-> fifth]
StepsOf == "NTSC" :> Steps(2, 4, 5) @@ "PAL" :> Steps(3, 7, 9)

MCHalf1 == [r \in Regions |-> StepsOf[r].second]
MCStep4 == [r \in Regions |-> StepsOf[r].fourth]
MCStep5 == [r \in Regions |-> StepsOf[r].fifth]
=============================================================================
