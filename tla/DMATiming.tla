----------------------------- MODULE DMATiming -----------------------------
(***************************************************************************)
(* DMA with history variables that measure it in CPU cycles, to compare it *)
(* with the timing nes_specs/dma.txt gives: how long a stall lasts, and    *)
(* what a sample that stops does to a fetch that is about to begin.        *)
(*                                                                         *)
(* Cycles are counted at Phi1.                                             *)
(***************************************************************************)
EXTENDS DMA

CONSTANT Never   (* the event has not happened since it last mattered *)

(* The notes' figures are for a page whose copy outlasts a fetch already   *)
(* on its way, and for samples whose fetches follow each other at some     *)
(* distance: an output cycle shifts out eight bits, each of a timer period *)
(* (DMC_PERIOD_TABLE_NTSC, DMC_PERIOD_TABLE_PAL).                          *)
ASSUME TimingAssumption ==
  /\ Never \notin Nat /\ Never \notin {"put", "get"}
  /\ PageSize > 1
  /\ \A period \in OutputPeriods : period > 1

VARIABLES
  stall,        (* CPU cycles halted so far in the stall in progress       *)
  stallOam,     (* cycle kind OAM DMA halted the CPU on in this stall      *)
  stallGets,    (* DMC fetches made in this stall                          *)
  stallAborts,  (* DMC DMAs of this stall that the abort window cancelled  *)
  sinceStop,    (* cycles since Phi1 last found bytes remaining            *)
  lateGets      (* DMC fetches begun after that with nothing to fetch      *)

stallVars == <<stall, stallOam, stallGets, stallAborts>>
sampleTimes == <<sinceStop, lateGets>>
timingVars == <<vars, stallVars, sampleTimes>>

TimingInit ==
  /\ Init
  /\ stall = 0 /\ stallOam = Never /\ stallGets = 0 /\ stallAborts = 0
  /\ sinceStop = Never /\ lateGets = 0

(* A stall begins with the first cycle DMA::clockPhi1 leaves RDY low.      *)
CountStall ==
  /\ stall' = IF rdy' THEN 0 ELSE stall + 1
  /\ stallOam' = IF rdy' THEN Never
                 ELSE IF oamPhase = "Halt" /\ oamPhase' = "Transfer"
                 THEN IF isAPUPutCycle THEN "put" ELSE "get"
                 ELSE stallOam
  /\ stallGets' = IF rdy' THEN 0
                  ELSE IF action' = "DMCGet" THEN stallGets + 1 ELSE stallGets
  /\ stallAborts' = IF rdy' THEN 0
                    ELSE IF DmcAborted THEN stallAborts + 1 ELSE stallAborts

(* Cycles after which the end of a sample no longer matters: sinceStop     *)
(* stays there.                                                            *)
LongAgo == 5

CycleLater(count) == IF count \in 0..LongAgo-1 THEN count + 1 ELSE count

TimedPhi1 ==
  /\ Phi1
  /\ CountStall
  /\ sinceStop' = IF bytesRemaining > 0 THEN 0 ELSE CycleLater(sinceStop)
  /\ lateGets' = IF bytesRemaining > 0 THEN 0
                 ELSE IF action' = "DMCGet" THEN lateGets + 1 ELSE lateGets

TimedRest ==
  /\ NoWrite \/ Write \/ Phi2 \/ CallPlay \/ InitSong
  /\ UNCHANGED <<stallVars, sampleTimes>>

(* A reset ends every measurement.                                         *)
TimedReset ==
  /\ Reset
  /\ stall' = 0 /\ stallOam' = Never /\ stallGets' = 0 /\ stallAborts' = 0
  /\ sinceStop' = Never /\ lateGets' = 0

TimingNext == TimedPhi1 \/ TimedRest \/ TimedReset

TimingSpec == TimingInit /\ [][TimingNext]_timingVars

(* NESCoreBase::tickFrame clocks the machine for as long as it runs.       *)
FairTimingSpec == TimingSpec /\ WF_vars(Clock)

-----------------------------------------------------------------------------
(* OAM DMA alone halts the CPU for 513 cycles when it halts on a put cycle *)
(* and for 514 on a get cycle (dma.txt, "OAM DMA"): the halt, an alignment *)
(* cycle if needed, and a get and a put for each byte.                     *)
OamCost(halt) == 2 * PageSize + (IF halt = "put" THEN 1 ELSE 2)

(* The cycles a stall may last (dma.txt): a DMC fetch alone takes 3 or 4,   *)
(* an aborted one 1; a fetch inside OAM DMA adds 2, or 1 to 3 at the end    *)
(* of the page.                                                             *)
StallLengths(halt, gets, aborts) ==
  IF halt = Never THEN (3 * gets + aborts)..(4 * gets + aborts)
  ELSE IF gets = 0 THEN OamCost(halt)..(OamCost(halt) + aborts)
  ELSE (OamCost(halt) + 2 * gets - 1)..(OamCost(halt) + 2 * gets + 1 + aborts)

(* Whatever the two DMA units do to each other, the CPU loses exactly the   *)
(* cycles the hardware notes give.                                          *)
StallCost ==
  [][rdy' /\ ~rdy /\ phase' = "phi2w" =>
       stall \in StallLengths(stallOam, stallGets,
                              stallAborts + (IF DmcAborted THEN 1 ELSE 0))
    ]_timingVars

(* A fetch scheduled two or three cycles after its sample ended is dropped *)
(* one cycle later, an earlier one goes ahead and a later one never starts.*)
AbortWindow ==
  [][phase' = "phi2w" /\ sinceStop # Never =>
       /\ DmcScheduled => sinceStop' <= 3
       /\ dmcPhase # "Idle" /\ dmcAbortPending =>
            (DmcAborted <=> sinceStop' \in {3, 4})]_timingVars

(* A sample that has ended takes at most one more fetch from the CPU.      *)
OneLateGet == lateGets <= 1
=============================================================================
