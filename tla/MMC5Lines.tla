------------------------------ MODULE MMC5Lines ------------------------------
(***************************************************************************)
(* How MMC5 counts scanlines (core/mappers/Mapper005.h).  It sees no       *)
(* scanline counter and no A12 filter, only the addresses the PPU reads: a *)
(* name table address read three times in a row, and one read more, is a   *)
(* new line; three cycles of the processor without a read, and the PPU has *)
(* stopped.                                                                *)
(***************************************************************************)
EXTENDS Integers

NoAddress == -1   (* 0xFFFF, which the PPU does not drive *)

(* Mapper005::reset. *)
MMC5Reset ==
  [lastPpuAddress |-> NoAddress, repeatedAddress |-> 0, scanlinePending |-> FALSE,
   inFrame |-> FALSE, irqCounter |-> 0, irqPending |-> FALSE,
   readThisCycle |-> FALSE, idleCpuCycles |-> 0]

DetectScanline(m, irqTarget) ==
  IF ~m.inFrame
  THEN [m EXCEPT !.inFrame = TRUE, !.irqCounter = 0, !.irqPending = FALSE]
  ELSE LET count == (m.irqCounter + 1) % 256
       IN [m EXCEPT !.irqCounter = count,
                    !.irqPending = @ \/ (count = irqTarget /\ irqTarget # 0)]

(* Mapper005::ppuReadCycle; named says addr is one of a name table. *)
PpuReadCycle(m, addr, named, irqTarget) ==
  LET d == IF m.scanlinePending
           THEN [DetectScanline(m, irqTarget) EXCEPT !.scanlinePending = FALSE,
                                                     !.repeatedAddress = 0]
           ELSE m
      again == named /\ addr = m.lastPpuAddress
      count == IF d.repeatedAddress < 3 THEN d.repeatedAddress + 1 ELSE 3
  IN [d EXCEPT !.readThisCycle = TRUE,
               !.lastPpuAddress = addr,
               !.repeatedAddress = CASE again            -> count
                                     [] named /\ ~again  -> 1
                                     [] OTHER            -> 0,
               !.scanlinePending = again /\ count = 3]

(* Mapper005::clock, once each cycle of the processor. *)
MMC5Clocked(m) ==
  LET idle == CASE m.readThisCycle -> 0
                [] ~m.readThisCycle /\ m.idleCpuCycles < 3 -> m.idleCpuCycles + 1
                [] OTHER -> 3
      timed == [m EXCEPT !.readThisCycle = FALSE, !.idleCpuCycles = idle]
  IN IF idle = 3 /\ m.idleCpuCycles < 3
     THEN [timed EXCEPT !.inFrame = FALSE, !.lastPpuAddress = NoAddress,
                        !.repeatedAddress = 0, !.scanlinePending = FALSE]
     ELSE timed
=============================================================================
