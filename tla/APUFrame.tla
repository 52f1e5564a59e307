------------------------------ MODULE APUFrame ------------------------------
(***************************************************************************)
(* The 2A03's frame sequencer (APU.h): the counter that paces length       *)
(* counters, the frame interrupt it raises, and the CPU's accesses to      *)
(* $4015, $4017 and the channels' length registers that race with it.      *)
(*                                                                         *)
(* A CPU cycle is two steps: Phi1 clocks the APU, then the CPU makes one   *)
(* access, if any, and put and get cycles alternate (A2A03.h).  Between    *)
(* cycles the machine may be reset, perhaps for another region, and an NSF *)
(* player may start a song.  The DMC channel is in module DMA; what the    *)
(* channels play is left out.                                              *)
(***************************************************************************)
EXTENDS DelayedPin

CONSTANTS
  Channels,      (* pulse1, pulse2, triangle and noise                     *)
  Lengths,       (* the entries of LENGTH_TABLE                            *)
  Regions,       (* the regions the user may choose                        *)
  Half1,         (* region -> FRAME_COUNTER_STEPS[1], the second step      *)
  Step4, Step5   (* region -> FRAME_COUNTER_STEPS[3], [4]                  *)

ASSUME APUFrameAssumption ==
  /\ Regions # {}
  /\ Lengths \subseteq Nat \ {0}
  /\ \A r \in Regions :
       /\ Half1[r] \in Nat /\ Step4[r] \in Nat /\ Step5[r] \in Nat
       /\ 0 < Half1[r] /\ Half1[r] < Step4[r] /\ Step4[r] < Step5[r]

VARIABLES
  phase,                   (* 1: before Phi1; 2: before the CPU's access   *)
  region,
  isAPUPutCycle,
  frameCounter, frameMode, frameIRQInhibit,
  val4017,                 (* DelayedPin: the mode bit of the last write   *)
  frameIRQPending, frame4015ClearPending, frameIRQLine,
  enabled, lengthCounter, lengthHalt, skipNextLengthClock,  (* per channel *)
  unread,                  (* history: a frame has ended with interrupts   *)
                           (* allowed and $4015 was not read since         *)
  misled                   (* history: InitSong took the get cycle for a   *)
                           (* past one, and no tick has made up for it     *)

sequencerVars == <<frameCounter, frameMode, val4017>>
irqVars == <<frameIRQPending, frame4015ClearPending, frameIRQLine, unread>>
channelVars == <<enabled, lengthCounter, lengthHalt, skipNextLengthClock>>
vars == <<phase, region, isAPUPutCycle, sequencerVars, frameIRQInhibit, irqVars,
          channelVars, misled>>

Modes == {0, 1}
MaxDelay == 4   (* of a $4017 write; lengthHalt's is 2 *)

Init ==
  /\ phase = 1
  /\ region \in Regions
  /\ isAPUPutCycle = FALSE
  /\ frameCounter = 0 /\ frameMode = 0 /\ frameIRQInhibit = FALSE
  /\ val4017 = PinOf(0)
  /\ frameIRQPending = FALSE /\ frame4015ClearPending = FALSE
  /\ frameIRQLine = FALSE /\ unread = FALSE
  /\ enabled = [c \in Channels |-> FALSE]
  /\ lengthCounter = [c \in Channels |-> 0]
  /\ lengthHalt = [c \in Channels |-> PinOf(FALSE)]
  /\ skipNextLengthClock = [c \in Channels |-> FALSE]
  /\ misled = FALSE

-----------------------------------------------------------------------------
(* The put cycle of a count at which length counters are clocked.          *)
IsHalfFrameStep(count, mode) ==
  \/ count = Half1[region]
  \/ count = Step4[region] /\ mode = 0
  \/ count = Step5[region] /\ mode = 1

(* A slip to be noticed: the last count is never taken.                   *)
MutLastKept(c) ==
  IF ~skipNextLengthClock[c] /\ ~PinTick(lengthHalt[c]).current /\ lengthCounter[c] > 1
  THEN lengthCounter[c] - 1 ELSE lengthCounter[c]

(* clockHalfFrame, as far as length counters go.                           *)
LengthAfterTick(c) ==
  IF ~skipNextLengthClock[c] /\ ~PinTick(lengthHalt[c]).current /\ lengthCounter[c] > 0
  THEN lengthCounter[c] - 1 ELSE lengthCounter[c]

(* A scheduled $4017 write takes effect on this clock.                     *)
Lands == PinFires(val4017)

NewMode == IF Lands THEN val4017.target ELSE frameMode

(* frameCounter as the sequencer's steps see it, on this clock.            *)
CountNow ==
  IF Lands THEN 0
  ELSE IF isAPUPutCycle THEN frameCounter ELSE frameCounter + 1

(* Quarter and half frame come at once when mode 1 is set.                 *)
HalfFrame ==
  \/ Lands /\ NewMode = 1
  \/ isAPUPutCycle /\ IsHalfFrameStep(CountNow, NewMode)

FrameEnds == ~isAPUPutCycle /\ NewMode = 0 /\ CountNow = Step4[region] + 1

SequenceEnds ==
  ~isAPUPutCycle /\ CountNow = (IF NewMode = 0 THEN Step4[region] ELSE Step5[region]) + 1

(* The interrupt flag is raised on the two cycles before the frame ends,   *)
(* whatever the inhibit bit, which counts on the last.                     *)
RaisesFlag == NewMode = 0 /\ CountNow = Step4[region]

(* The status read of an earlier cycle takes effect before the sequencer.  *)
FlagCleared == ~isAPUPutCycle /\ frame4015ClearPending

FlagBefore == frameIRQPending /\ ~FlagCleared

(* A slip to be noticed: the read takes the flag after the sequencer.      *)
MutFlagAfter ==
  ~FlagCleared /\ IF FrameEnds THEN ~frameIRQInhibit ELSE RaisesFlag \/ frameIRQPending

FlagAfter ==
  IF FrameEnds THEN ~frameIRQInhibit ELSE RaisesFlag \/ FlagBefore

(* The frame's interrupt is new on the first of the cycles that raise it,  *)
(* and gone if it turns out to be inhibited.                               *)
UnreadAfter ==
  IF FrameEnds THEN ~frameIRQInhibit ELSE (RaisesFlag /\ ~isAPUPutCycle) \/ unread

(* APU::clock                                                              *)
Phi1 ==
  /\ phase = 1 /\ phase' = 2
  /\ lengthHalt' = [c \in Channels |-> PinTick(lengthHalt[c])]
  /\ frame4015ClearPending' = (frame4015ClearPending /\ ~FlagCleared)
  /\ frameIRQLine' = (FlagBefore /\ ~frameIRQInhibit)
  /\ val4017' = PinTick(val4017)
  /\ frameMode' = NewMode
  /\ frameCounter' = IF SequenceEnds THEN 0 ELSE CountNow
  /\ frameIRQPending' = FlagAfter
  /\ unread' = UnreadAfter
  /\ misled' = (misled /\ ~(HalfFrame /\ val4017'.countdown = NoChange))
  /\ IF HalfFrame
     THEN /\ lengthCounter' = [c \in Channels |-> LengthAfterTick(c)]
          /\ skipNextLengthClock' = [c \in Channels |-> FALSE]
     ELSE UNCHANGED <<lengthCounter, skipNextLengthClock>>
  /\ UNCHANGED <<region, isAPUPutCycle, frameIRQInhibit, enabled>>

-----------------------------------------------------------------------------
(* The rest of the cycle: an access, or none, and the cycle is over.       *)
Phi2 ==
  /\ phase = 2 /\ phase' = 1
  /\ isAPUPutCycle' = ~isAPUPutCycle
  /\ UNCHANGED <<region, misled>>

NoAccess ==
  Phi2 /\ UNCHANGED <<sequencerVars, frameIRQInhibit, irqVars, channelVars>>

(* APU::readData of $4015: the flag is shown now and cleared later.        *)
ReadStatus ==
  /\ Phi2
  /\ frame4015ClearPending' = TRUE
  /\ unread' = FALSE
  /\ UNCHANGED <<sequencerVars, frameIRQInhibit, frameIRQPending, frameIRQLine,
                 channelVars>>

WriteEnable(on) ==
  /\ Phi2
  /\ enabled' = [c \in Channels |-> c \in on]
  /\ lengthCounter' = [c \in Channels |-> IF c \in on THEN lengthCounter[c] ELSE 0]
  /\ UNCHANGED <<sequencerVars, frameIRQInhibit, irqVars, lengthHalt,
                 skipNextLengthClock>>

(* A slip to be noticed: a write between APU cycles comes a clock early.   *)
MutFixedDelay == 3

(* The sequencer restarts on a get cycle, three or four clocks later.      *)
Write4017Delay == IF isAPUPutCycle THEN 3 ELSE 4

WriteFrameCounter(mode, inhibit) ==
  /\ Phi2
  /\ frameIRQInhibit' = inhibit
  /\ frameIRQPending' = (frameIRQPending /\ ~inhibit)
  /\ unread' = (unread /\ ~inhibit)
  /\ val4017' = PinSet(val4017, mode, Write4017Delay)
  /\ UNCHANGED <<frameCounter, frameMode, frame4015ClearPending, frameIRQLine,
                 channelVars>>

WriteHalt(c, halt) ==
  /\ Phi2
  /\ lengthHalt' = [lengthHalt EXCEPT ![c] = PinSet(@, halt, 2)]
  /\ UNCHANGED <<sequencerVars, frameIRQInhibit, irqVars, enabled, lengthCounter,
                 skipNextLengthClock>>

(* isHalfFrameTickNextCycle, as the write of this cycle sees it.           *)
IsDuringTick == IsHalfFrameStep(frameCounter, frameMode) /\ ~isAPUPutCycle

(* writeR3: the reload is ignored when the next clock counts a counter     *)
(* that still runs, and is not itself counted by it.                       *)
WriteLength(c, length) ==
  /\ Phi2
  /\ IF enabled[c] /\ (~IsDuringTick \/ lengthCounter[c] = 0)
     THEN /\ lengthCounter' = [lengthCounter EXCEPT ![c] = length]
          /\ skipNextLengthClock' = [skipNextLengthClock EXCEPT ![c] = @ \/ IsDuringTick]
     ELSE UNCHANGED <<lengthCounter, skipNextLengthClock>>
  /\ UNCHANGED <<sequencerVars, frameIRQInhibit, irqVars, enabled, lengthHalt>>

-----------------------------------------------------------------------------
(* A2A03::reset and APU::reset: the mode survives, a write still on its    *)
(* way does not.                                                           *)
ResetAPU ==
  /\ phase = 1
  /\ isAPUPutCycle' = FALSE
  /\ val4017' = PinForce(val4017, val4017.current)
  /\ frameMode' = val4017.current
  /\ frameCounter' = 0
  /\ frameIRQInhibit' = FALSE
  /\ frameIRQPending' = FALSE /\ frame4015ClearPending' = FALSE /\ unread' = FALSE
  /\ misled' = FALSE
  /\ enabled' = [c \in Channels |-> FALSE]
  /\ lengthCounter' = [c \in Channels |-> 0]
  /\ skipNextLengthClock' = [c \in Channels |-> FALSE]
  /\ UNCHANGED <<phase, frameIRQLine, lengthHalt>>

Reset == ResetAPU /\ UNCHANGED region

(* A slip to be noticed: the region changes under a running counter.       *)
MutSwitchRegion ==
  /\ phase = 1
  /\ region' \in Regions \ {region}
  /\ UNCHANGED <<phase, isAPUPutCycle, sequencerVars, frameIRQInhibit, irqVars,
                 channelVars, misled>>

(* The System menu: setPalMode changes the steps and nothing else, and the *)
(* reset comes with it.                                                    *)
SwitchRegion == ResetAPU /\ region' \in Regions \ {region}

(* NSFPlayer::initSong writes every register between two cycles, and tells *)
(* APU::writeData that it does so in a get cycle: the notes of $4003, ...  *)
(* and then $4015 with all channels on and $4017 with the interrupt off.   *)
InitSong(length) ==
  LET during   == IsHalfFrameStep(frameCounter, frameMode)
      loads(c) == enabled[c] /\ (~during \/ lengthCounter[c] = 0)
  IN /\ phase = 1
     /\ lengthHalt' = [c \in Channels |-> PinSet(lengthHalt[c], FALSE, 2)]
     /\ lengthCounter' = [c \in Channels |-> IF loads(c) THEN length ELSE lengthCounter[c]]
     /\ skipNextLengthClock' =
          [c \in Channels |-> skipNextLengthClock[c] \/ (loads(c) /\ during)]
     /\ enabled' = [c \in Channels |-> TRUE]
     /\ frameIRQInhibit' = TRUE /\ frameIRQPending' = FALSE /\ unread' = FALSE
     /\ val4017' = PinSet(val4017, 0, 4)
     /\ misled' = (misled \/ ~isAPUPutCycle)
     /\ UNCHANGED <<phase, region, isAPUPutCycle, frameCounter, frameMode,
                    frame4015ClearPending, frameIRQLine>>

Next ==
  \/ Phi1
  \/ NoAccess
  \/ ReadStatus
  \/ \E on \in SUBSET Channels : WriteEnable(on)
  \/ \E mode \in Modes, inhibit \in BOOLEAN : WriteFrameCounter(mode, inhibit)
  \/ \E c \in Channels, halt \in BOOLEAN : WriteHalt(c, halt)
  \/ \E c \in Channels, length \in Lengths : WriteLength(c, length)
  \/ \E length \in Lengths : InitSong(length)
  \/ Reset
  \/ SwitchRegion

Spec == Init /\ [][Next]_vars

(* tickFrame clocks without end and every cycle is finished.               *)
LiveSpec == Spec /\ WF_vars(Phi1) /\ WF_vars(NoAccess)

-----------------------------------------------------------------------------
(* Each variable has the type of the field it models.                      *)
TypeOK ==
  /\ phase \in {1, 2}
  /\ region \in Regions
  /\ isAPUPutCycle \in BOOLEAN
  /\ frameCounter \in Nat
  /\ frameMode \in Modes /\ frameIRQInhibit \in BOOLEAN
  /\ val4017 \in PinsUpTo(Modes, MaxDelay)
  /\ frameIRQPending \in BOOLEAN /\ frame4015ClearPending \in BOOLEAN
  /\ frameIRQLine \in BOOLEAN /\ unread \in BOOLEAN
  /\ enabled \in [Channels -> BOOLEAN]
  /\ lengthCounter \in [Channels -> Nat]
  /\ lengthHalt \in [Channels -> PinsUpTo(BOOLEAN, 2)]
  /\ skipNextLengthClock \in [Channels -> BOOLEAN]
  /\ misled \in BOOLEAN

(* A reload told to sit out the next tick meets that tick on the very next *)
(* clock: a $4017 write on its way, a mode change or an odd number of      *)
(* cycles never makes the prediction of isHalfFrameTickNextCycle wrong,    *)
(* which would lose a tick of a later note.  A song started before a get   *)
(* cycle does make it wrong, but no longer than to a tick with no $4017    *)
(* write on its way.                                                       *)
SkipIsFresh ==
  ~misled => \A c \in Channels : skipNextLengthClock[c] => phase = 1 /\ HalfFrame

(* A frame's interrupt stays flagged until it has been read from $4015 or  *)
(* inhibited, even if an earlier read is still to take effect.             *)
NoLostFrameIRQ == unread => frameIRQPending

(* "Once the last step has executed, the count resets to 0 on the next APU *)
(* cycle" (nes_specs, apu frame counter): steps are found by equality, so  *)
(* a count past the last one would never come back.  Neither a mode change *)
(* nor a switch to a shorter sequence may leave it there.                  *)
CountStaysInSequence ==
  frameCounter <= (IF frameMode = 0 THEN Step4 ELSE Step5)[region]

(* Once the program writes no more, a note that is not halted ends.        *)
ProgramQuiet == <>[][Phi1 \/ NoAccess]_vars

NotesEnd ==
  ProgramQuiet =>
    \A c \in Channels : <>[](lengthCounter[c] = 0 \/ lengthHalt[c].target)
=============================================================================
