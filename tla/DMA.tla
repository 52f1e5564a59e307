------------------------------- MODULE DMA -------------------------------
(***************************************************************************)
(* The 2A03's two DMA units (core/DMA.h), the DMC channel they feed        *)
(* (core/APU.h), and the glue that clocks them with the CPU (core/A2A03.h, *)
(* NESSystem::clockOneCycle).                                              *)
(*                                                                         *)
(* One CPU cycle is three steps, in the order the code makes them:         *)
(*   Phi1       A2A03::clockPhi1 = APU clock, CPU phase 1, DMA phase 1     *)
(*   Write/Read A2A03::clockPhi2Write                                      *)
(*   Phi2       A2A03::clockPhi2 = DMA phase 2, CPU phase 2, parity flip   *)
(* Phi1 is the conjunction of three operators.  A primed variable in one   *)
(* of them is the value an earlier call of the same phase left there.      *)
(*                                                                         *)
(* The CPU is any program: each cycle it is not stalled it chooses the     *)
(* kind of its next bus cycle and, on a write, the register.  The only     *)
(* thing assumed of it is MaxWrites, the longest run of write cycles a     *)
(* 6502 instruction or interrupt sequence makes.                           *)
(*                                                                         *)
(* Definitions named Mut... are plausible slips in the definition after    *)
(* them.  No specification uses them: each is put in its place to show     *)
(* that a property notices.                                                *)
(*                                                                         *)
(* Data is abstract: a byte is the address it was read from, so what the   *)
(* PPU receives shows where every byte came from.                          *)
(***************************************************************************)
EXTENDS DelayedPin, Sequences

CONSTANTS
  PAL,            (* TRUE: 2A07, which halts only on opcode fetches        *)
  Pages,          (* page numbers written to $4014; 0 is the reset value   *)
  PageSize,       (* bytes in a page: 256 in the machine                   *)
  SampleLengths,  (* byte counts $4013 can hold                            *)
  IrqFlags,       (* values of D7 of $4010 a program writes                *)
  OutputPeriods,  (* put cycles from one end of a DMC output cycle to the  *)
                  (* next, less one: 8 timer periods in the machine        *)
  Modulus,        (* of the DMC byte counter: 2^16 in the machine          *)
  MaxWrites,      (* longest run of CPU write cycles                       *)
  NoByte          (* contents of the OAM buffer before the first read      *)

Counts == 0..Modulus-1

Bytes == Pages \X (0..PageSize-1)

ASSUME DMAAssumption ==
  /\ PAL \in BOOLEAN
  /\ PageSize \in Nat \ {0}
  /\ Pages \subseteq Nat
  /\ 0 \in Pages
  /\ SampleLengths \subseteq Counts \ {0}
  /\ 1 \in SampleLengths
  /\ IrqFlags \subseteq BOOLEAN
  /\ OutputPeriods \subseteq Nat
  /\ OutputPeriods # {}
  /\ Modulus \in Nat \ {0}
  /\ MaxWrites \in Nat
  /\ NoByte \notin Bytes

VARIABLES
  phase,             (* the step of the cycle to be made next              *)
  isAPUPutCycle,     (* A2A03: this is a put cycle                         *)
  cpuCycle,          (* CPU: kind of bus cycle in progress; "fetch" is one *)
                     (* made by the opFetch micro-op                       *)
  cpuWrites,         (* CPU: write cycles in a row up to this one          *)
  cpuFresh,          (* CPU: `fetched` was read by the CPU's own bus cycle *)
  rdy, action,       (* DMA: the RDY line and this cycle's bus access      *)
  oamPhase, oamPage, oamIndex, oamBuffer, oamHasByte,
  dmcPhase, dmcHaltOnPut, dmcHaltArmed, dmcAbortPending, hadBytesRecently,
  bytesRemaining, sampleLength, loopFlag, irqEnabled, irqPending,
  sampleBufferEmpty, outputTimer, dmaDelay,
  reloadOnPut,       (* APU: DMCChannel::dmaHaltOnPut                      *)
  oamData            (* PPU: bytes written to $2004 since the last request *)

cpuVars == <<cpuCycle, cpuWrites, cpuFresh>>
oamVars == <<oamPhase, oamPage, oamIndex, oamBuffer, oamHasByte>>
dmcVars == <<dmcPhase, dmcHaltOnPut, dmcHaltArmed, dmcAbortPending,
             hadBytesRecently>>
sampleVars == <<bytesRemaining, sampleLength, loopFlag, irqEnabled,
                irqPending>>
outputVars == <<sampleBufferEmpty, outputTimer, dmaDelay, reloadOnPut>>
vars == <<phase, isAPUPutCycle, cpuVars, rdy, action, oamVars, dmcVars,
          sampleVars, outputVars, oamData>>

CpuRead(cycle) == cycle # "write"

(* A2A03::pollIsRead: the cycles on which the CPU lets itself be halted.   *)
Haltable(cycle) == CpuRead(cycle) /\ (PAL => cycle = "fetch")

(* CPU6502::isStalled, evaluated with the RDY level of the previous cycle. *)
CpuStalled == ~rdy /\ CpuRead(cpuCycle)

-----------------------------------------------------------------------------
(* Power-on: default member initialisers, then CPU6502::reset.  The length *)
(* of the first output cycle depends on the rate the program sets.         *)
Init ==
  /\ phase = "phi1"
  /\ isAPUPutCycle = FALSE
  /\ cpuCycle = "read" /\ cpuWrites = 0 /\ cpuFresh = TRUE
  /\ rdy = TRUE /\ action = "None"
  /\ oamPhase = "Idle" /\ oamPage = 0 /\ oamIndex = 0
  /\ oamBuffer = NoByte /\ oamHasByte = FALSE
  /\ dmcPhase = "Idle" /\ dmcHaltOnPut = FALSE /\ dmcHaltArmed = FALSE
  /\ dmcAbortPending = FALSE /\ hadBytesRecently = PinOf(FALSE)
  /\ bytesRemaining = 0 /\ sampleLength = 0
  /\ loopFlag = FALSE /\ irqEnabled = FALSE /\ irqPending = FALSE
  /\ sampleBufferEmpty = TRUE /\ outputTimer \in OutputPeriods
  /\ dmaDelay = PinOf(FALSE) /\ reloadOnPut = FALSE
  /\ oamData = << >>

-----------------------------------------------------------------------------
(* APU::clock as far as it moves the DMC channel: the load delay ticks on  *)
(* every cycle; on put cycles the output unit advances, and at the end of  *)
(* an output cycle it takes the sample buffer if there is one.             *)
OutputCycleEnds == isAPUPutCycle /\ outputTimer = 0

ApuPhi1 ==
  /\ dmaDelay' = PinTick(dmaDelay)
  /\ IF OutputCycleEnds THEN outputTimer' \in OutputPeriods
     ELSE outputTimer' = IF isAPUPutCycle THEN outputTimer - 1
                         ELSE outputTimer
  /\ IF OutputCycleEnds /\ ~sampleBufferEmpty
     THEN /\ sampleBufferEmpty' = TRUE
          /\ reloadOnPut' = (reloadOnPut \/ ~dmaDelay'.current)
     ELSE UNCHANGED <<sampleBufferEmpty, reloadOnPut>>
  /\ UNCHANGED sampleVars

(* CPU6502::clockPhi1: a stalled CPU repeats its bus cycle; otherwise the  *)
(* next micro-op starts another.                                           *)
CpuPhi1 ==
  \/ CpuStalled /\ UNCHANGED cpuVars
  \/ /\ ~CpuStalled
     /\ cpuCycle' \in {"fetch", "read", "write"}
     /\ cpuWrites' = IF CpuRead(cpuCycle') THEN 0 ELSE cpuWrites + 1
     /\ cpuWrites' <= MaxWrites
     /\ cpuFresh' = FALSE

MutShortWindow ==
  PinTick(IF bytesRemaining > 0 THEN PinForce(hadBytesRecently, TRUE)
          ELSE IF hadBytesRecently.target THEN PinSet(hadBytesRecently, FALSE, 3)
          ELSE hadBytesRecently)

MutWindowRestarts ==
  PinTick(IF bytesRemaining > 0 THEN PinForce(hadBytesRecently, TRUE)
          ELSE PinSet(hadBytesRecently, FALSE, 4))

(* DMA::clockPhi1, first half: the abort window and the scheduling.        *)
HadBytesPin ==
  PinTick(IF bytesRemaining > 0 THEN PinForce(hadBytesRecently, TRUE)
          ELSE IF hadBytesRecently.target THEN PinSet(hadBytesRecently, FALSE, 4)
          ELSE hadBytesRecently)

MutFetchWhenFull == ~dmaDelay'.current

DmcReadyForFetch == sampleBufferEmpty' /\ ~dmaDelay'.current

DmcScheduled ==
  dmcPhase = "Idle" /\ hadBytesRecently'.current /\ DmcReadyForFetch

DmcAborted ==
  dmcPhase # "Idle" /\ dmcAbortPending /\ ~PinTap(hadBytesRecently', 1)

DmcPhaseNow ==
  IF DmcScheduled THEN "Halt" ELSE IF DmcAborted THEN "Idle" ELSE dmcPhase

DmcHaltsCpu ==
  DmcPhaseNow = "Halt" /\ dmcHaltArmed' /\ Haltable(cpuCycle')

MutNoDummyCycle ==
  /\ hadBytesRecently' = HadBytesPin
  /\ dmcHaltOnPut' = IF DmcScheduled THEN reloadOnPut' ELSE dmcHaltOnPut
  /\ dmcAbortPending' = (DmcScheduled \/ (dmcPhase = "Idle" /\ dmcAbortPending))
  /\ dmcHaltArmed' = \/ ~DmcScheduled /\ dmcHaltArmed
                     \/ DmcPhaseNow = "Halt" /\ isAPUPutCycle = dmcHaltOnPut'
  /\ dmcPhase' = IF DmcHaltsCpu THEN "Read" ELSE DmcPhaseNow

(* Second half: both units advance and one of them may take the bus.       *)
DmaDmcPhi1 ==
  /\ hadBytesRecently' = HadBytesPin
  /\ dmcHaltOnPut' = IF DmcScheduled THEN reloadOnPut' ELSE dmcHaltOnPut
  /\ dmcAbortPending' = (DmcScheduled \/ (dmcPhase = "Idle" /\ dmcAbortPending))
  /\ dmcHaltArmed' = \/ ~DmcScheduled /\ dmcHaltArmed
                     \/ DmcPhaseNow = "Halt" /\ isAPUPutCycle = dmcHaltOnPut'
  /\ dmcPhase' = IF DmcHaltsCpu THEN "Dummy"
                 ELSE IF DmcPhaseNow = "Dummy" THEN "Read" ELSE DmcPhaseNow

MutOamNeverWaits ==
  /\ oamPhase' = IF oamPhase = "Halt" THEN "Transfer" ELSE oamPhase
  /\ oamHasByte' = (oamHasByte /\ oamPhase' = oamPhase)
  /\ UNCHANGED <<oamPage, oamIndex, oamBuffer>>

MutOamHaltsOnFetch ==
  /\ oamPhase' = IF oamPhase = "Halt" /\ cpuCycle' = "fetch"
                 THEN "Transfer" ELSE oamPhase
  /\ oamHasByte' = (oamHasByte /\ oamPhase' = oamPhase)
  /\ UNCHANGED <<oamPage, oamIndex, oamBuffer>>

DmaOamPhi1 ==
  /\ oamPhase' = IF oamPhase = "Halt" /\ Haltable(cpuCycle')
                 THEN "Transfer" ELSE oamPhase
  /\ oamHasByte' = (oamHasByte /\ oamPhase' = oamPhase)
  /\ UNCHANGED <<oamPage, oamIndex, oamBuffer>>

DmcTakesBus == DmcPhaseNow = "Read" /\ ~isAPUPutCycle
OamGets == oamPhase = "Transfer" /\ ~oamHasByte /\ ~isAPUPutCycle
OamPuts == oamPhase = "Transfer" /\ oamHasByte /\ isAPUPutCycle

MutReleasedForRead ==
  /\ DmaDmcPhi1
  /\ DmaOamPhi1
  /\ action' =
       IF DmcTakesBus THEN "DMCGet"
       ELSE IF OamGets THEN "OAMGet"
       ELSE IF OamPuts THEN "OAMPut"
       ELSE "None"
  /\ rdy' = ~(\/ oamPhase' = "Transfer" \/ dmcPhase' = "Dummy"
              \/ dmcPhase' = "Read" /\ isAPUPutCycle)

DmaPhi1 ==
  /\ DmaDmcPhi1
  /\ DmaOamPhi1
  /\ action' =
       IF DmcTakesBus THEN "DMCGet"
       ELSE IF OamGets THEN "OAMGet"
       ELSE IF OamPuts THEN "OAMPut"
       ELSE "None"
  /\ rdy' = ~(oamPhase' = "Transfer" \/ dmcPhase' \in {"Dummy", "Read"})

Phi1 ==
  /\ phase = "phi1"
  /\ phase' = "phi2w"
  /\ ApuPhi1 /\ CpuPhi1 /\ DmaPhi1
  /\ UNCHANGED <<isAPUPutCycle, oamData>>

-----------------------------------------------------------------------------
(* A2A03::clockPhi2Write.  A write goes to A2A03::getAddr, which is the    *)
(* CPU's address only while the DMA unit leaves the bus alone.             *)
CpuWriting ==
  /\ phase = "phi2w"
  /\ ~CpuRead(cpuCycle)
  /\ action = "None"
  /\ phase' = "phi2"
  /\ UNCHANGED <<isAPUPutCycle, cpuVars, rdy, action, dmcVars>>

NoWrite ==
  /\ phase = "phi2w"
  /\ CpuRead(cpuCycle)
  /\ phase' = "phi2"
  /\ UNCHANGED <<isAPUPutCycle, cpuVars, rdy, action, oamVars, dmcVars,
                 sampleVars, outputVars, oamData>>

(* A write to RAM, to the PPU or to another channel.                       *)
WriteOther ==
  /\ CpuWriting
  /\ UNCHANGED <<oamVars, sampleVars, outputVars, oamData>>

MutIndexKept(page) ==
  /\ CpuWriting
  /\ oamPhase' = "Halt" /\ oamPage' = page
  /\ oamData' = << >>
  /\ UNCHANGED <<oamIndex, oamBuffer, oamHasByte, sampleVars, outputVars>>

(* DMA::write4014                                                          *)
WriteOAMDMA(page) ==
  /\ CpuWriting
  /\ oamPhase' = "Halt" /\ oamPage' = page /\ oamIndex' = 0
  /\ oamData' = << >>
  /\ UNCHANGED <<oamBuffer, oamHasByte, sampleVars, outputVars>>

(* DMCChannel::writeR0, the flags of $4010.                                *)
WriteDmcFlags(irq, loop) ==
  /\ CpuWriting
  /\ irqEnabled' = irq /\ loopFlag' = loop
  /\ irqPending' = (irqPending /\ irq)
  /\ UNCHANGED <<bytesRemaining, sampleLength, oamVars, outputVars, oamData>>

(* DMCChannel::writeR3                                                     *)
WriteDmcLength(length) ==
  /\ CpuWriting
  /\ sampleLength' = length
  /\ UNCHANGED <<bytesRemaining, loopFlag, irqEnabled, irqPending, oamVars,
                 outputVars, oamData>>

MutDelayStuck ==
  /\ CpuWriting
  /\ irqPending' = FALSE
  /\ IF bytesRemaining = 0
     THEN /\ bytesRemaining' = sampleLength
          /\ reloadOnPut' = FALSE
          /\ dmaDelay' = PinForce(dmaDelay, TRUE)
     ELSE UNCHANGED <<bytesRemaining, reloadOnPut, dmaDelay>>
  /\ UNCHANGED <<sampleLength, loopFlag, irqEnabled, sampleBufferEmpty,
                 outputTimer, oamVars, oamData>>

(* APU::writeData($4015) with D4 set: a finished sample restarts, and its  *)
(* first fetch waits three cycles and halts the CPU on a get cycle.        *)
StartSample ==
  /\ CpuWriting
  /\ irqPending' = FALSE
  /\ IF bytesRemaining = 0
     THEN /\ bytesRemaining' = sampleLength
          /\ reloadOnPut' = FALSE
          /\ dmaDelay' = PinSet(PinForce(dmaDelay, TRUE), FALSE, 3)
     ELSE UNCHANGED <<bytesRemaining, reloadOnPut, dmaDelay>>
  /\ UNCHANGED <<sampleLength, loopFlag, irqEnabled, sampleBufferEmpty,
                 outputTimer, oamVars, oamData>>

(* APU::writeData($4015) with D4 clear.                                    *)
StopSample ==
  /\ CpuWriting
  /\ bytesRemaining' = 0
  /\ irqPending' = FALSE
  /\ UNCHANGED <<sampleLength, loopFlag, irqEnabled, outputVars, oamVars,
                 oamData>>

-----------------------------------------------------------------------------
(* A2A03::clockPhi2: the DMA unit's bus access, then CPU6502::clockPhi2,   *)
(* which reads only when the bus is its own, then the parity flip.         *)
EndCycle ==
  /\ phase = "phi2"
  /\ phase' = "phi1"
  /\ isAPUPutCycle' = ~isAPUPutCycle
  /\ cpuFresh' = IF CpuRead(cpuCycle) THEN action = "None" ELSE cpuFresh
  /\ UNCHANGED <<cpuCycle, cpuWrites, rdy, action, dmcHaltOnPut, dmcHaltArmed,
                 dmcAbortPending, hadBytesRecently, sampleLength, loopFlag,
                 irqEnabled, outputTimer, dmaDelay, reloadOnPut>>

NoAccess ==
  /\ action = "None"
  /\ EndCycle
  /\ UNCHANGED <<oamVars, dmcPhase, bytesRemaining, irqPending,
                 sampleBufferEmpty, oamData>>

(* DMCChannel::loadSampleBuffer; bytesRemaining is a uint16_t.             *)
LoadSampleBuffer ==
  /\ sampleBufferEmpty' = FALSE
  /\ IF bytesRemaining = 1
     THEN /\ bytesRemaining' = IF loopFlag THEN sampleLength ELSE 0
          /\ irqPending' = (irqPending \/ (~loopFlag /\ irqEnabled))
     ELSE /\ bytesRemaining' = (bytesRemaining - 1) % Modulus
          /\ UNCHANGED irqPending

(* APU::loadDMCSample drops the byte of a sample that has ended.           *)
DMCGet ==
  /\ action = "DMCGet"
  /\ EndCycle
  /\ dmcPhase' = "Idle"
  /\ IF bytesRemaining = 0
     THEN UNCHANGED <<bytesRemaining, irqPending, sampleBufferEmpty>>
     ELSE LoadSampleBuffer
  /\ UNCHANGED <<oamVars, oamData>>

OAMGet ==
  /\ action = "OAMGet"
  /\ EndCycle
  /\ oamBuffer' = <<oamPage, oamIndex>>
  /\ oamHasByte' = TRUE
  /\ UNCHANGED <<oamPhase, oamPage, oamIndex, dmcPhase, bytesRemaining,
                 irqPending, sampleBufferEmpty, oamData>>

OAMPut ==
  /\ action = "OAMPut"
  /\ EndCycle
  /\ oamData' = Append(oamData, oamBuffer)
  /\ oamHasByte' = FALSE
  /\ IF oamIndex = PageSize - 1
     THEN oamPhase' = "Idle" /\ UNCHANGED oamIndex
     ELSE oamIndex' = oamIndex + 1 /\ UNCHANGED oamPhase
  /\ UNCHANGED <<oamPage, oamBuffer, dmcPhase, bytesRemaining, irqPending,
                 sampleBufferEmpty>>

-----------------------------------------------------------------------------
(* A2A03::reset, made between two cycles.  APU::reset leaves $4010-$4013,  *)
(* the sample buffer and the output unit as they were.                     *)
Reset ==
  /\ phase = "phi1"
  /\ isAPUPutCycle' = FALSE
  /\ cpuCycle' = "read" /\ cpuWrites' = 0 /\ cpuFresh' = TRUE
  /\ rdy' = TRUE /\ action' = "None"
  /\ oamPhase' = "Idle" /\ oamPage' = 0 /\ oamIndex' = 0
  /\ oamHasByte' = FALSE
  /\ oamBuffer' = NoByte
  /\ oamData' = << >>
  /\ dmcPhase' = "Idle" /\ dmcHaltOnPut' = FALSE /\ dmcHaltArmed' = FALSE
  /\ dmcAbortPending' = FALSE /\ hadBytesRecently' = PinOf(FALSE)
  /\ bytesRemaining' = 0 /\ irqPending' = FALSE
  /\ dmaDelay' = PinForce(dmaDelay, FALSE)
  /\ UNCHANGED <<phase, sampleLength, loopFlag, irqEnabled,
                 sampleBufferEmpty, outputTimer, reloadOnPut>>

(* CPU6502::jumpTo, made between two cycles by NSFPlayer: the CPU puts the *)
(* address of the routine on the bus and fetches from it when RDY lets it, *)
(* which no write may precede; it owes nothing to what it was reading.     *)
(* currentOp is left alone, so that a PAL machine still takes a held       *)
(* opcode fetch for one.                                                   *)
CpuJumps ==
  /\ phase = "phi1"
  /\ cpuCycle' = IF cpuCycle = "fetch" THEN "fetch" ELSE "read"
  /\ cpuWrites' = MaxWrites /\ cpuFresh' = TRUE
  /\ UNCHANGED <<phase, isAPUPutCycle, rdy, action, oamVars, dmcVars, outputVars,
                 oamData>>

(* NSFPlayer::triggerPlayCall                                              *)
CallPlay == CpuJumps /\ UNCHANGED sampleVars

(* NSFPlayer::initSong resets the CPU and writes the APU's registers, $15  *)
(* with D4 clear among them, but lets both DMA units go on.                *)
InitSong ==
  /\ CpuJumps
  /\ sampleLength' = 1 /\ bytesRemaining' = 0
  /\ irqEnabled' = FALSE /\ loopFlag' = FALSE /\ irqPending' = FALSE

Write ==
  \/ WriteOther
  \/ \E page \in Pages : WriteOAMDMA(page)
  \/ \E irq \in IrqFlags, loop \in BOOLEAN : WriteDmcFlags(irq, loop)
  \/ \E length \in SampleLengths : WriteDmcLength(length)
  \/ StartSample
  \/ StopSample

Phi2 == NoAccess \/ DMCGet \/ OAMGet \/ OAMPut

Clock == Phi1 \/ NoWrite \/ Write \/ Phi2

Next == Clock \/ CallPlay \/ InitSong \/ Reset

Spec == Init /\ [][Next]_vars

(* NESCoreBase::tickFrame clocks the machine for as long as it runs.       *)
FairSpec == Spec /\ WF_vars(Clock)

-----------------------------------------------------------------------------
GlueType ==
  /\ phase \in {"phi1", "phi2w", "phi2"}
  /\ isAPUPutCycle \in BOOLEAN
  /\ rdy \in BOOLEAN
  /\ action \in {"None", "DMCGet", "OAMGet", "OAMPut"}

CpuType ==
  /\ cpuCycle \in {"fetch", "read", "write"}
  /\ cpuWrites \in 0..MaxWrites
  /\ cpuFresh \in BOOLEAN

OamType ==
  /\ oamPhase \in {"Idle", "Halt", "Transfer"}
  /\ oamPage \in Pages
  /\ oamIndex \in 0..PageSize-1
  /\ oamBuffer \in Bytes \cup {NoByte}
  /\ oamHasByte \in BOOLEAN
  /\ oamData \in Seq(Bytes \cup {NoByte})

DmcType ==
  /\ dmcPhase \in {"Idle", "Halt", "Dummy", "Read"}
  /\ dmcHaltOnPut \in BOOLEAN
  /\ dmcHaltArmed \in BOOLEAN
  /\ dmcAbortPending \in BOOLEAN
  /\ hadBytesRecently \in PinsUpTo(BOOLEAN, 4)

SampleType ==
  /\ bytesRemaining \in Counts
  /\ sampleLength \in SampleLengths \cup {0}
  /\ loopFlag \in BOOLEAN
  /\ irqEnabled \in BOOLEAN
  /\ irqPending \in BOOLEAN

OutputType ==
  /\ sampleBufferEmpty \in BOOLEAN
  /\ outputTimer \in Nat
  /\ dmaDelay \in PinsUpTo(BOOLEAN, 3)
  /\ reloadOnPut \in BOOLEAN

(* Each variable has the type of the field it models.                      *)
TypeOK ==
  GlueType /\ CpuType /\ OamType /\ DmcType /\ SampleType /\ OutputType

(* The CPU goes on from a read only with a byte it read itself: the bus    *)
(* cycle before it advances was not taken by a DMA access, whose data bus  *)
(* value CPU6502::clockPhi2 declines to fetch.                             *)
NoLostRead ==
  phase = "phi1" /\ CpuRead(cpuCycle) /\ ~CpuStalled => cpuFresh

(* A CPU write reaches the address the CPU drives: A2A03::writeData takes  *)
(* its address from getAddr(), which a DMA access overrides.               *)
WritesKeepTheirAddress ==
  phase # "phi1" /\ ~CpuRead(cpuCycle) => action = "None"

(* The PPU receives the requested page from its first byte on, in order,   *)
(* each byte once, whatever the DMC unit takes in between.                 *)
OamInOrder ==
  \A i \in DOMAIN oamData : oamData[i] = <<oamPage, i - 1>>

(* A transfer that is over copied the whole page, or was never requested.  *)
OamComplete ==
  oamPhase = "Idle" => Len(oamData) \in {0, PageSize}

(* A DMC fetch in flight always finds the sample buffer empty, so it never *)
(* overwrites a byte that has not been played.                             *)
NoSampleOverwritten == dmcPhase # "Idle" => sampleBufferEmpty

(* The sample length is never exceeded: bytesRemaining does not wrap below *)
(* zero when a sample is stopped while its fetch is on the way.            *)
NoByteUnderflow == \E length \in SampleLengths : bytesRemaining <= length

(* The 2A07's SYNC-gated RDY: a PAL machine holds its CPU only on opcode   *)
(* fetches (A2A03::pollIsRead), through every overlap of the two units.    *)
PalStallsOnFetch == PAL /\ ~rdy => cpuCycle = "fetch"

(* The inductive invariant behind them.  RDY tells which unit holds the    *)
(* CPU, and it only ever catches the CPU where it may, with no OAM request *)
(* left waiting; the access chosen in Phi1 still fits the phases when Phi2 *)
(* makes it; and the copy so far is the first oamIndex bytes of the page.  *)
HoldInv ==
  /\ oamPhase = "Transfer" \/ dmcPhase \in {"Dummy", "Read"} => ~rdy
  /\ ~rdy => Haltable(cpuCycle) /\ oamPhase # "Halt"
  /\ action # "None" => ~rdy

AccessInv ==
  phase # "phi1" =>
    /\ action = "DMCGet" => dmcPhase = "Read"
    /\ action \in {"OAMGet", "OAMPut"} => oamPhase = "Transfer"
    /\ action = "OAMPut" => oamHasByte

CopyInv ==
  /\ OamInOrder
  /\ OamComplete
  /\ oamPhase = "Halt" => oamIndex = 0 /\ oamData = << >>
  /\ oamPhase = "Transfer" =>
       /\ Len(oamData) = oamIndex
       /\ oamHasByte => oamBuffer = <<oamPage, oamIndex>>

IInv ==
  HoldInv /\ AccessInv /\ CopyInv /\ NoLostRead /\ NoSampleOverwritten

(* The machine implements CycleSteal: the CPU is frozen while RDY is low,  *)
(* and a copy is under way while the OAM unit is in its Transfer phase.    *)
Steal == INSTANCE CycleSteal WITH
  job     <- IF oamPhase = "Idle" THEN -1 ELSE oamPage,
  claimed <- oamPhase = "Transfer",
  written <- oamData,
  frozen  <- ~rdy

StealSpec == Steal!Spec

(* A $4014 write is eventually served. *)
OamServed == oamPhase # "Idle" ~> oamPhase = "Idle"

(* A sample that waits for its next byte gets it or is stopped.            *)
DmcServed ==
  (sampleBufferEmpty /\ bytesRemaining > 0)
    ~> (~sampleBufferEmpty \/ bytesRemaining = 0)
=============================================================================
