---------------------------- MODULE Controllers ----------------------------
(***************************************************************************)
(* The controller ports $4016 and $4017 (NESSystem::readMemory), read by a *)
(* CPU that DMA stalls (A2A03::readData and readDMA, over DMA).      *)
(*                                                                         *)
(* A controller answers one button per clock, and NESSystem has no clock   *)
(* line: it tells a new read from a repeated one by the address of the     *)
(* read before, which DMA fetches change too.  Beside it this module keeps *)
(* the lines the machine has, one output enable per port, and compares.    *)
(*                                                                         *)
(* An address is "joy1", "joy2", "reg" (another of $4000-$4015, which the  *)
(* 2A03 answers itself) or "else"; a button is its position in the shift   *)
(* register, all positions from Buttons on reading as 1.                   *)
(***************************************************************************)
EXTENDS DMA

CONSTANT Buttons   (* buttons in a controller: 8 in the machine *)

ASSUME ButtonsAssumption == Buttons \in Nat \ {0}

Pads == {"joy1", "joy2"}

VARIABLES
  cpuAddr,           (* the address of the CPU's bus cycle                 *)
  lastBusReadAddr,   (* NESSystem: the address of the last read            *)
  controllerShift,   (* the button at the head of each shift register      *)
  controllerLatch,   (* the button latched for the port read last: the     *)
                     (* other port latches again before it answers         *)
  controllerStrobe,  (* A2A03: bit 0 of the last write to $4016            *)
  enabled,           (* ports whose output enable was asserted last cycle, *)
                     (* with the strobe off                                *)
  clocked            (* buttons those lines have clocked out since a latch *)

padVars == <<cpuAddr, lastBusReadAddr, controllerShift, controllerLatch,
             controllerStrobe, enabled, clocked>>
controllersVars == <<vars, padVars>>

Following(button) == IF button < Buttons THEN button + 1 ELSE button

ControllersInit ==
  /\ Init
  /\ cpuAddr = "else" /\ lastBusReadAddr = "else"
  /\ controllerShift = [p \in Pads |-> 0]
  /\ controllerLatch = 0
  /\ controllerStrobe = FALSE
  /\ enabled = {} /\ clocked = [p \in Pads |-> 0]

(* What an instruction may read in the cycle after a read of addr: an      *)
(* indexed read-modify-write repeats it, JMP ($addr) reads the next one.   *)
(* What would read $4015 and a register after it, JMP ($4015), is left out:*)
(* $4015 does not touch lastBusReadAddr, so that after a fetch overlaid on *)
(* $4016 the jump's own read of it would not be a new run.                 *)
NextReads(addr) ==
  CASE addr = "joy1" -> {"joy1", "joy2", "else"}
    [] addr = "joy2" -> {"joy2", "else"}
    [] addr = "reg"  -> {"else"}
    [] OTHER         -> Pads \cup {"reg", "else"}

(* Opcodes are not fetched from registers, and a data read never directly  *)
(* follows a write.                                                        *)
DriveAddress ==
  IF CpuStalled THEN UNCHANGED cpuAddr
  ELSE cpuAddr' \in IF cpuCycle' = "read" /\ CpuRead(cpuCycle)
                    THEN NextReads(cpuAddr) ELSE {"else"}

(* NESSystem::readMemory: a port shifts when a run of reads of it begins.  *)
BusRead(addr) ==
  LET new == lastBusReadAddr # addr IN
  /\ lastBusReadAddr' = addr
  /\ controllerLatch' = IF addr \notin Pads THEN 0
                        ELSE IF new \/ controllerStrobe
                        THEN controllerShift[addr] ELSE controllerLatch
  /\ controllerShift' =
       [p \in Pads |->
          IF controllerStrobe /\ ~isAPUPutCycle THEN 0
          ELSE IF p = addr /\ new /\ ~controllerStrobe
               THEN Following(controllerShift[p]) ELSE controllerShift[p]]

MutDmaOffTheBus(low) ==
  IF cpuAddr # "else" /\ low \in Pads THEN BusRead(low)
  ELSE BusRead(lastBusReadAddr)

(* A2A03::readDMA: the register a DMA address selects by its low five bits *)
(* while the CPU's own address is among the registers is read with it; the *)
(* external read that goes with a port's leaves lastBusReadAddr alone.     *)
DmaRead(low) ==
  IF cpuAddr # "else" /\ low \in Pads THEN BusRead(low) ELSE BusRead("else")

(* A2A03::latchControllers runs at the end of a get cycle while the strobe *)
(* is on: BusRead makes the registers 0 then.                              *)
NoBusRead ==
  /\ UNCHANGED <<lastBusReadAddr, controllerLatch>>
  /\ controllerShift' = IF controllerStrobe /\ ~isAPUPutCycle
                        THEN [p \in Pads |-> 0] ELSE controllerShift

(* A stall may take two fetches, of consecutive addresses: the second does *)
(* not select the port the first selected.                                 *)
DmaRegisters ==
  {"else"} \cup (IF cpuAddr = "reg" THEN Pads \ {lastBusReadAddr} ELSE Pads)

(* The lines of the machine (nes_specs/dma.txt:278-282): a port's enable   *)
(* is asserted in a read cycle whose low address bits, the bus's, and high *)
(* address bits, the CPU's, select it; letting it go clocks the port.      *)
Lines(asserted) ==
  LET advanced(p) == IF p \in enabled \ asserted
                     THEN Following(clocked[p]) ELSE clocked[p] IN
  /\ enabled' = IF controllerStrobe THEN {} ELSE asserted
  /\ clocked' = [p \in Pads |-> IF controllerStrobe /\ ~isAPUPutCycle THEN 0
                                ELSE advanced(p)]

PadsPhi2 ==
  \/ /\ action = "None" /\ CpuRead(cpuCycle) /\ cpuAddr # "reg"
     /\ BusRead(cpuAddr)
     /\ Lines(Pads \cap {cpuAddr})
  \/ /\ action \in {"DMCGet", "OAMGet"}
     /\ \E low \in DmaRegisters :
          DmaRead(low) /\ Lines(IF cpuAddr = "else" THEN {} ELSE Pads \cap {low})
  \/ /\ action = "OAMPut" \/ ~CpuRead(cpuCycle) \/ cpuAddr = "reg"
     /\ action \in {"None", "OAMPut"}
     /\ NoBusRead
     /\ Lines({})

(* A write elsewhere than to the 2A03's own units may be one to $4016.     *)
PadsWrite ==
  /\ \/ WriteOther /\ controllerStrobe' \in BOOLEAN
     \/ UNCHANGED controllerStrobe
  /\ UNCHANGED <<cpuAddr, lastBusReadAddr, controllerShift, controllerLatch,
                 enabled, clocked>>

ControllersNext ==
  \/ /\ Phi1 /\ DriveAddress
     /\ UNCHANGED <<lastBusReadAddr, controllerShift, controllerLatch,
                    controllerStrobe, enabled, clocked>>
  \/ NoWrite /\ UNCHANGED padVars
  \/ Write /\ PadsWrite
  \/ Phi2 /\ PadsPhi2 /\ UNCHANGED <<cpuAddr, controllerStrobe>>

ControllersSpec == ControllersInit /\ [][ControllersNext]_controllersVars

-----------------------------------------------------------------------------
(* However DMA interrupts, repeats or overlays the CPU's reads, each port  *)
(* has shifted once for every time its output enable was asserted, and the *)
(* read that shifted it returned the button that was first then: telling   *)
(* runs of reads by the last address does what the lines do.               *)
OneClockPerEnable ==
  phase = "phi1" =>
    \A p \in Pads :
      IF p \in enabled
      THEN /\ controllerShift[p] = Following(clocked[p])
           /\ controllerLatch = clocked[p]
      ELSE controllerShift[p] = clocked[p]
=============================================================================
