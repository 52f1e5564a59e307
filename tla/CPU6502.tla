------------------------------ MODULE CPU6502 ------------------------------
(***************************************************************************)
(* The 6502 core (CPU6502.h) as a controller: the chain of micro-ops, one  *)
(* a cycle, that makes up every instruction, the polling of interrupts at  *)
(* its end, the sequence that enters a handler and the ways one interrupt  *)
(* takes over another, while DMA stalls the CPU on any read.               *)
(*                                                                         *)
(* Of the data only the interrupt-disable flag, and how far PC is past the *)
(* instruction it was last loaded for, are kept: which opcode is fetched,  *)
(* whether a branch is taken or an index crosses a page is the program's   *)
(* choice, made when it is first needed.  Micro-ops have their C++ names.  *)
(***************************************************************************)
EXTENDS DelayedPin, FiniteSets

VARIABLES
  phase,               (* 1: before clockPhi1; 2: before clockPhi2         *)
  nextOp, currentOp,
  isRead,              (* currentStep.isRead                               *)
  accessMode,
  flagI,               (* P & FLAG_I                                       *)
  nmiSignal,           (* DelayedPin: an edge seen, then visible           *)
  nmiLevel, irqLevel,  (* as sampled by clockPhi2; both active low         *)
  irqInhibitSnapshot, interruptPending,
  currentInt,
  pcAhead,             (* PC less the address of the current instruction   *)
  pushedB,             (* the B flag of the last status an interrupt pushed*)
  passed,              (* history: opcodes fetched while an NMI was visible*)
  served,              (* history: an NMI was taken while its line was low *)
                       (* and the line has been low since                  *)
  writes,              (* history: write cycles in a row                   *)
  cut                  (* history: jumpTo has cut off the entry of a       *)
                       (* handler and nothing has been fetched since       *)

pins == <<nmiSignal, nmiLevel, irqLevel>>
polls == <<irqInhibitSnapshot, interruptPending, currentInt>>
frame == <<pcAhead, pushedB>>
history == <<passed, served, writes, cut>>
vars == <<phase, nextOp, currentOp, isRead, accessMode, flagI, pins, polls, frame,
          history>>

MaxPassed == 2   (* bound: passed is not counted further *)
AccessModes == {"READ", "RMW", "WRITE"}

-----------------------------------------------------------------------------
(* Micro-ops that only put the next cycle on the bus: the op to run after  *)
(* it, and whether it is a read from PC++.                                 *)
Then(next) == [next |-> next, inc |-> 0]
ThenIncPC(next) == [next |-> next, inc |-> 1]

ReadChain == [
  am_zpx_1 |-> Then("am_zpx_2"), am_zpy_1 |-> Then("am_zpy_2"),
  am_abs_1 |-> ThenIncPC("am_abs_2"), am_abx_1 |-> ThenIncPC("am_abx_2"),
  am_aby_1 |-> ThenIncPC("am_aby_2"),
  am_izx_1 |-> Then("am_izx_2"), am_izx_2 |-> Then("am_izx_3"),
  am_izx_3 |-> Then("am_izx_4"),
  am_izy_1 |-> Then("am_izy_2"), am_izy_2 |-> Then("am_izy_3"),
  am_ind_1 |-> ThenIncPC("am_ind_2"), am_ind_2 |-> Then("am_ind_3"),
  am_ind_3 |-> Then("am_ind_4"),
  jmpAbs1_low |-> ThenIncPC("jmpAbs2_high"),
  jsr1_readLow |-> Then("jsr2_internal"), jsr4_pushPCL |-> Then("jsr5_readHigh"),
  rts1_dummyRead |-> Then("rts2_incS"), rts2_incS |-> Then("rts3_pullPCL"),
  rts3_pullPCL |-> Then("rts4_pullPCH"), rts4_pullPCH |-> Then("rts5_incPC"),
  rti1_dummyRead |-> Then("rti2_incS"), rti2_incS |-> Then("rti3_pullP"),
  rti4_pullPCL |-> Then("rti5_pullPCH"),
  pla1_dummy |-> Then("pla2_incS"), pla2_incS |-> Then("pla3_pull"),
  plp1_dummy |-> Then("plp2_incS"), plp2_incS |-> Then("plp3_pull"),
  intHw_dummy2 |-> Then("int1_dummy"),
  int5_readLow |-> Then("int6_readHigh"), int6_readHigh |-> Then("int7_fetchOpcode"),
  reset1 |-> Then("reset2"), reset2 |-> Then("reset3"), reset3 |-> Then("reset4"),
  reset4 |-> Then("reset5"), reset5 |-> Then("reset6"), reset6 |-> Then("reset7"),
  reset7 |-> Then("reset8"),
  jam_loop |-> Then("jam_loop") ]

WriteChain == [
  rmw_dummyWrite |-> "rmw_finalWrite", rmw_finalWrite |-> "opFetch",
  jsr2_internal |-> "jsr3_pushPCH", jsr3_pushPCH |-> "jsr4_pushPCL",
  pha1_dummy |-> "opFetch", php1_dummy |-> "opFetch",
  int2_pushPCH |-> "int3_pushPCL" ]

(* Micro-ops that finish an instruction and fetch the next opcode in the   *)
(* same cycle, with the I flag as it was; two more may change it first.    *)
Last == {"opFetch", "am_imm_exec", "readAndExec_", "am_rel_3_pagefix", "am_ind_4",
         "jmpAbs2_high", "jsr5_readHigh", "rts5_incPC", "rti5_pullPCH", "pla3_pull",
         "reset8"}
LastSetsFlags == {"am_imp_exec", "plp3_pull"}

(* Micro-ops after which the effective address is known, and those after   *)
(* which it is unless the index crossed a page.                            *)
Addressed == {"am_zp_1", "am_zpx_2", "am_zpy_2", "am_abs_2", "am_abx_3_fixup",
              "am_aby_3_fixup", "am_izx_4", "am_izy_4_fixup"}
Indexed == [am_abx_2 |-> "am_abx_3_fixup", am_aby_2 |-> "am_aby_3_fixup",
            am_izy_3 |-> "am_izy_4_fixup"]

(* What an opcode may be dispatched to: operands read from PC++ ...        *)
OperandOps(mode) ==
  {"am_zp_1", "am_zpx_1", "am_abs_1", "am_abx_1", "am_aby_1", "am_izx_1", "am_izy_1"}
    \cup IF mode = "RMW" THEN {} ELSE {"am_zpy_1"}
    \cup IF mode = "READ" THEN {"am_imm_exec", "jmpAbs1_low", "am_ind_1", "jsr1_readLow"}
         ELSE {}

(* ... or not, the next byte being read and left where it is.              *)
ImpliedOps == {"am_imp_exec", "pha1_dummy", "php1_dummy", "pla1_dummy", "plp1_dummy",
               "rts1_dummyRead", "rti1_dummyRead", "jam_loop"}

(* The entry of a handler, up to the push of the status.                   *)
Entry == {"intHw_dummy2", "int1_dummy", "int2_pushPCH", "int3_pushPCL"}

-----------------------------------------------------------------------------
(* CPU6502(): reset() and nothing on the pins.                             *)
Init ==
  /\ phase = 1
  /\ nextOp = "reset1" /\ currentOp = "none" /\ isRead = TRUE /\ accessMode = "READ"
  /\ flagI = TRUE
  /\ nmiSignal = PinOf(FALSE) /\ nmiLevel = TRUE /\ irqLevel = TRUE
  /\ irqInhibitSnapshot = TRUE /\ interruptPending = FALSE /\ currentInt = "None"
  /\ pcAhead = 0 /\ pushedB = FALSE
  /\ passed = 0 /\ served = FALSE /\ writes = 0 /\ cut = FALSE

-----------------------------------------------------------------------------
(* clockPhi1 first ticks the edge detector and latches the level detector. *)
Nmi == PinTick(nmiSignal)
irqDetected == ~irqLevel

(* pollInterrupts would find something.                                    *)
PollFinds == Nmi.current \/ (irqDetected /\ ~irqInhibitSnapshot)

Emit(read, next) ==
  /\ isRead' = read /\ nextOp' = next
  /\ writes' = IF read THEN 0 ELSE writes + 1

Keeps(pc) ==
  /\ pcAhead' = pc
  /\ nmiSignal' = Nmi
  /\ UNCHANGED <<accessMode, flagI, polls, pushedB, passed, served, cut>>

(* The NMI's flip-flop is cleared: its handler is going to run.            *)
ServeNMI ==
  /\ nmiSignal' = PinForce(Nmi, FALSE)
  /\ currentInt' = "NMI"
  /\ passed' = 0 /\ served' = ~nmiLevel

(* The last clause of opFetch: an opcode is read and PC moves past it.     *)
FetchOpcode(i) ==
  /\ Emit(TRUE, "decodeAndDispatch")
  /\ irqInhibitSnapshot' = i
  /\ nmiSignal' = Nmi
  /\ pcAhead' = 1
  /\ passed' = IF ~Nmi.current THEN 0 ELSE IF passed < MaxPassed THEN passed + 1 ELSE passed
  /\ UNCHANGED <<currentInt, served>>

ServeIRQ ==
  /\ nmiSignal' = Nmi
  /\ currentInt' = "IRQ"
  /\ UNCHANGED <<passed, served>>

(* A slip to be noticed: an edge that comes with an IRQ is forgotten.      *)
MutEdgeForgotten ==
  /\ Emit(TRUE, "intHw_dummy2")
  /\ nmiSignal' = PinForce(Nmi, FALSE)
  /\ currentInt' = IF Nmi.current THEN "NMI" ELSE "IRQ"
  /\ passed' = 0 /\ served' = (Nmi.current /\ ~nmiLevel)
  /\ pcAhead' = 0
  /\ UNCHANGED irqInhibitSnapshot

(* A hardware interrupt is taken: an edge still on its way counts.         *)
TakeInterrupt ==
  /\ Emit(TRUE, "intHw_dummy2")
  /\ IF Nmi.target THEN ServeNMI ELSE ServeIRQ
  /\ pcAhead' = 0
  /\ UNCHANGED irqInhibitSnapshot

(* opFetch, called with the flag as the instruction has left it; skip is   *)
(* skipNextPoll, set and used up within one clockPhi1.                     *)
OpFetch(i, skip) ==
  /\ interruptPending' = FALSE
  /\ flagI' = i /\ cut' = FALSE
  /\ IF interruptPending \/ (~skip /\ PollFinds) THEN TakeInterrupt ELSE FetchOpcode(i)
  /\ UNCHANGED <<accessMode, pushedB>>

-----------------------------------------------------------------------------
(* A slip to be noticed: the vector's low byte is written, not read.       *)
MutVectorWritten ==
  \/ /\ nextOp \in DOMAIN ReadChain
     /\ Emit(nextOp # "int5_readLow", ReadChain[nextOp].next)
     /\ Keeps(pcAhead + ReadChain[nextOp].inc)
  \/ /\ nextOp \in DOMAIN WriteChain
     /\ Emit(FALSE, WriteChain[nextOp]) /\ Keeps(pcAhead)

(* The micro-ops of the two chains.                                        *)
RunChain ==
  \/ /\ nextOp \in DOMAIN ReadChain
     /\ Emit(TRUE, ReadChain[nextOp].next) /\ Keeps(pcAhead + ReadChain[nextOp].inc)
  \/ /\ nextOp \in DOMAIN WriteChain
     /\ Emit(FALSE, WriteChain[nextOp]) /\ Keeps(pcAhead)

RunLast ==
  \/ nextOp \in Last /\ OpFetch(flagI, FALSE)
  \/ nextOp \in LastSetsFlags /\ \E i \in BOOLEAN : OpFetch(i, FALSE)

(* afterAddressing_ReadWrite                                               *)
AfterAddressing ==
  /\ \/ accessMode = "READ"  /\ Emit(TRUE, "readAndExec_")
     \/ accessMode = "RMW"   /\ Emit(TRUE, "rmw_dummyWrite")
     \/ accessMode = "WRITE" /\ Emit(FALSE, "opFetch")
  /\ Keeps(pcAhead)

RunAddressing ==
  \/ nextOp \in Addressed /\ AfterAddressing
  \/ nextOp \in DOMAIN Indexed /\ Emit(TRUE, Indexed[nextOp]) /\ Keeps(pcAhead)
  \/ nextOp \in DOMAIN Indexed /\ accessMode = "READ" /\ AfterAddressing

Dispatch(mode, next, pc) ==
  /\ Emit(TRUE, next)
  /\ accessMode' = mode
  /\ pcAhead' = pc
  /\ nmiSignal' = Nmi
  /\ UNCHANGED <<flagI, irqInhibitSnapshot, pushedB, passed, served, cut>>

DecodeAndDispatch ==
  /\ nextOp = "decodeAndDispatch"
  /\ \/ \E mode \in AccessModes : \E op \in OperandOps(mode) :
          Dispatch(mode, op, pcAhead + 1) /\ UNCHANGED <<interruptPending, currentInt>>
     \/ \E op \in ImpliedOps :
          Dispatch("READ", op, pcAhead) /\ UNCHANGED <<interruptPending, currentInt>>
     \/ /\ Dispatch("READ", "am_rel_1", pcAhead + 1)
        /\ interruptPending' = (interruptPending \/ PollFinds)
        /\ UNCHANGED currentInt
     \/ /\ Dispatch("READ", "int1_dummy", pcAhead)
        /\ currentInt' = "SoftwareBRK"
        /\ UNCHANGED interruptPending

(* A slip to be noticed: what a taken branch has polled is forgotten.      *)
MutNoPoll ==
  \/ nextOp = "am_rel_1" /\ OpFetch(flagI, FALSE)
  \/ /\ nextOp = "am_rel_1"
     /\ Emit(TRUE, "am_rel_2_taken") /\ pcAhead' = pcAhead /\ nmiSignal' = Nmi
     /\ interruptPending' = FALSE
     /\ UNCHANGED <<accessMode, flagI, irqInhibitSnapshot, currentInt, pushedB, passed,
                    served, cut>>
  \/ nextOp = "am_rel_2_taken" /\ OpFetch(flagI, TRUE)
  \/ nextOp = "am_rel_2_taken" /\ Emit(TRUE, "am_rel_3_pagefix") /\ Keeps(pcAhead)

(* A branch polls twice, and not again at its end unless it left the page. *)
Branch ==
  \/ nextOp = "am_rel_1" /\ OpFetch(flagI, FALSE)
  \/ /\ nextOp = "am_rel_1"
     /\ Emit(TRUE, "am_rel_2_taken") /\ pcAhead' = pcAhead /\ nmiSignal' = Nmi
     /\ interruptPending' = (interruptPending \/ PollFinds)
     /\ UNCHANGED <<accessMode, flagI, irqInhibitSnapshot, currentInt, pushedB, passed,
                    served, cut>>
  \/ nextOp = "am_rel_2_taken" /\ OpFetch(flagI, TRUE)
  \/ nextOp = "am_rel_2_taken" /\ Emit(TRUE, "am_rel_3_pagefix") /\ Keeps(pcAhead)

-----------------------------------------------------------------------------
Int1Dummy ==
  /\ nextOp = "int1_dummy"
  /\ Emit(FALSE, "int2_pushPCH")
  /\ Keeps(IF currentInt = "SoftwareBRK" THEN pcAhead + 1 ELSE pcAhead)

(* A slip to be noticed: the B flag tells what the interrupt has become.   *)
MutBAfterHijack ==
  currentInt = "SoftwareBRK" /\ ~PinTap(Nmi, 1) /\ ~(irqDetected /\ ~irqInhibitSnapshot)

WasBRK == currentInt = "SoftwareBRK"

(* An NMI whose edge is at most a tick away takes over an IRQ or a BRK.    *)
HijackedByNMI == currentInt # "NMI" /\ PinTap(Nmi, 1)

HijackedByIRQ == WasBRK /\ irqDetected /\ ~irqInhibitSnapshot

(* The status is pushed and the vector decided.                            *)
Int3PushPCL ==
  /\ nextOp = "int3_pushPCL"
  /\ Emit(FALSE, "int5_readLow")
  /\ IF HijackedByNMI THEN ServeNMI
     ELSE IF HijackedByIRQ THEN ServeIRQ
     ELSE nmiSignal' = Nmi /\ UNCHANGED <<currentInt, passed, served>>
  /\ pushedB' = WasBRK
  /\ flagI' = TRUE /\ irqInhibitSnapshot' = TRUE
  /\ UNCHANGED <<accessMode, interruptPending, pcAhead, cut>>

(* The handler's first opcode is fetched without polling.                  *)
Int7FetchOpcode ==
  /\ nextOp = "int7_fetchOpcode"
  /\ FetchOpcode(flagI)
  /\ UNCHANGED <<accessMode, flagI, interruptPending, pushedB, cut>>

(* A slip to be noticed: RTI leaves the snapshot as the handler had it,    *)
(* like PLP.                                                               *)
MutRtiLikePlp ==
  /\ nextOp = "rti3_pullP"
  /\ Emit(TRUE, "rti4_pullPCL")
  /\ flagI' \in BOOLEAN
  /\ pcAhead' = pcAhead /\ nmiSignal' = Nmi
  /\ UNCHANGED <<accessMode, polls, pushedB, passed, served, cut>>

(* RTI restores the flag before it polls.                                  *)
Rti3PullP ==
  /\ nextOp = "rti3_pullP"
  /\ Emit(TRUE, "rti4_pullPCL")
  /\ flagI' \in BOOLEAN /\ irqInhibitSnapshot' = flagI'
  /\ pcAhead' = pcAhead /\ nmiSignal' = Nmi
  /\ UNCHANGED <<accessMode, interruptPending, currentInt, pushedB, passed, served, cut>>

(* clockPhi1 of a CPU that is not stalled: RDY is high or the last cycle   *)
(* was a write.                                                            *)
Run ==
  /\ phase = 1 /\ phase' = 2
  /\ currentOp' = nextOp
  /\ \/ RunChain \/ RunLast \/ RunAddressing \/ DecodeAndDispatch \/ Branch
     \/ Int1Dummy \/ Int3PushPCL \/ Int7FetchOpcode \/ Rti3PullP
  /\ UNCHANGED <<nmiLevel, irqLevel>>

(* RDY is low and the last cycle was a read: it is repeated.               *)
Stall ==
  /\ phase = 1 /\ phase' = 2
  /\ isRead
  /\ nmiSignal' = Nmi
  /\ UNCHANGED <<nextOp, currentOp, isRead, accessMode, flagI, nmiLevel, irqLevel, polls,
                 frame, history>>

(* A slip to be noticed: the level is latched, not the edge.               *)
MutByLevel(level) == ~level

FallingEdge(level) == ~level /\ nmiLevel

(* clockPhi2: the pins are sampled.                                        *)
Phi2(nmi, irq) ==
  /\ phase = 2 /\ phase' = 1
  /\ nmiSignal' = IF FallingEdge(nmi) /\ ~nmiSignal.target
                  THEN PinSet(nmiSignal, TRUE, 2) ELSE nmiSignal
  /\ nmiLevel' = nmi /\ irqLevel' = irq
  /\ served' = (served /\ ~nmi)
  /\ UNCHANGED <<nextOp, currentOp, isRead, accessMode, flagI, polls, frame, passed, writes,
                 cut>>

-----------------------------------------------------------------------------
Reset ==
  /\ phase = 1
  /\ flagI' = TRUE
  /\ nmiSignal' = PinForce(nmiSignal, FALSE)
  /\ interruptPending' = FALSE /\ currentInt' = "None" /\ irqInhibitSnapshot' = TRUE
  /\ nmiLevel' = TRUE /\ irqLevel' = TRUE
  /\ isRead' = TRUE /\ nextOp' = "reset1"
  /\ passed' = 0 /\ served' = FALSE /\ writes' = 0 /\ cut' = FALSE
  /\ UNCHANGED <<phase, currentOp, accessMode, frame>>

(* The NSF player calls a routine of the tune, whatever the CPU is doing   *)
(* when the routine before has run for too long.                           *)
JumpTo ==
  /\ phase = 1
  /\ isRead' = TRUE /\ nextOp' = "opFetch"
  /\ pcAhead' = 0 /\ writes' = 0
  /\ cut' = (cut \/ nextOp \in Entry)
  /\ UNCHANGED <<phase, currentOp, accessMode, flagI, pins, polls, pushedB, passed,
                 served>>

Clock == Run \/ Stall \/ \E nmi \in BOOLEAN, irq \in BOOLEAN : Phi2(nmi, irq)

Next == Clock \/ Reset \/ JumpTo

Spec == Init /\ [][Next]_vars

(* Cycles follow one another, and DMA gives the bus back (DmcServed and    *)
(* OamServed of module DMA), so that infinitely many are not stalled.      *)
FairSpec ==
  /\ Spec
  /\ SF_vars(Run)
  /\ WF_vars(\E nmi \in BOOLEAN, irq \in BOOLEAN : Phi2(nmi, irq))
-----------------------------------------------------------------------------
(* An NMI is taken on this step, or an IRQ: at an instruction's end, or by *)
(* taking over an entry already under way.                                 *)
Takes(kind) ==
  /\ currentInt' = kind
  /\ \/ nextOp' = "intHw_dummy2" /\ nextOp # "intHw_dummy2"
     \/ nextOp' = "int5_readLow" /\ nextOp # "int5_readLow" /\ currentInt # kind

(* Once an edge is seen the NMI is taken or the CPU reset: no IRQ, BRK,    *)
(* branch or stall that comes at the same time makes the CPU forget it.    *)
NMINotLost == [][nmiSignal.target /\ ~nmiSignal'.target => Takes("NMI") \/ Reset]_vars

(* One edge, one NMI: while the line stays low after an NMI was taken, no  *)
(* other is, however long its handler and DMA take.                        *)
NMIOncePerEdge == [][Takes("NMI") => ~served]_vars

(* A visible NMI waits for at most one more instruction to begin: a branch *)
(* that did not poll at its end or a handler's first instruction, never    *)
(* one after the other.                                                    *)
NMIWaitsForOne == passed <= 1

(* An IRQ is taken only if the flag allowed it before the instruction that *)
(* ends now, or RTI has restored it: CLI, SEI and PLP act one instruction  *)
(* late, RTI at once, and a BRK is taken over under the same rule.  Calls  *)
(* of a tune's routines that cut off a handler's entry are excepted.       *)
IRQRespectsMask == [][Takes("IRQ") /\ ~cut => ~flagI]_vars

(* What an entry pushes tells who entered: the return address is that of   *)
(* the next instruction and B is clear, or two past a BRK and B is set,    *)
(* also when the BRK has been taken over.                                  *)
FrameTellsSource == nextOp = "int5_readLow" => pcAhead = IF pushedB THEN 2 ELSE 0

(* No more than three writes in a row: the DMA unit, which has to wait for *)
(* a read, is never delayed for longer.                                    *)
ThreeWritesInRow == writes <= 3

(* isOpcodeFetchCycle "corresponds to the 6502's SYNC signal (the opcode   *)
(* fetch)", as its comment says and PAL's DMA takes it.                    *)
SyncIsOpcodeFetch == phase = 2 /\ nextOp = "decodeAndDispatch" => currentOp = "opFetch"

Jammed == nextOp = "jam_loop"

(* Left alone by the host, the CPU takes an NMI it has seen unless it jams *)
HostQuiet == <>[][~Reset /\ ~JumpTo]_vars
NMIServed == HostQuiet => (nmiSignal.target ~> (~nmiSignal.target \/ Jammed))

(* and an IRQ that is held and not masked does not wait for ever.          *)
IRQServed == HostQuiet => ~<>[](~irqLevel /\ ~flagI /\ ~Jammed)

(* Neither kind of interrupt is starved by any program: see the two above.*)
InterruptsServed == NMIServed /\ IRQServed
=============================================================================
