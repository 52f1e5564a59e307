------------------------------ MODULE A12Filter ------------------------------
(***************************************************************************)
(* Mapper::a12RisingEdge (core/mappers/MapperBase.h): how a board tells a  *)
(* new scanline by bit 12 of the PPU's addresses.  The bit rises many      *)
(* times a line; a rise counts after the bit has been low long enough.     *)
(*                                                                         *)
(* A filter is a record of the level last seen and a pin that says the     *)
(* bit has been low for LowDots dots.                                      *)
(***************************************************************************)
EXTENDS DelayedPin

CONSTANT LowDots   (* dots A12 has to be low for its rise to count: 12 *)

ASSUME LowDotsAssumption == LowDots \in Nat \ {0}

(* Mapper::resetA12. *)
A12Reset == [level |-> FALSE, low |-> PinSet(PinOf(FALSE), TRUE, LowDots)]

(* Mapper::clockPpu, at the start of each dot. *)
A12Clocked(f) == [f EXCEPT !.low = PinTick(@)]

(* A slip to be noticed: a rise does not end the time spent low. *)
MutA12Driven(f, level) ==
  IF level = f.level THEN f
  ELSE [level |-> level, low |-> IF level THEN f.low ELSE PinSet(f.low, TRUE, LowDots)]

A12Rises(f, level) == level /\ ~f.level /\ f.low.current
A12Driven(f, level) ==
  IF level = f.level THEN f
  ELSE [level |-> level,
        low |-> IF level THEN PinForce(f.low, FALSE) ELSE PinSet(f.low, TRUE, LowDots)]
=============================================================================
