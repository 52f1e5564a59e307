--------------------------- MODULE APUFrameProofs ---------------------------
(***************************************************************************)
(* Proofs about module APUFrame: for any steps of the sequence, any        *)
(* channels and any length table.                                          *)
(***************************************************************************)
EXTENDS APUFrame, DelayedPinProofs

(* A $4017 write on its way takes effect on a get cycle: the clocks still  *)
(* to come and the kind of the next cycle agree.                           *)
LandsOnGet ==
  /\ phase = 1 => (isAPUPutCycle <=> val4017.countdown \in {2, 4})
                    \/ val4017.countdown = NoChange
  /\ phase = 2 => (isAPUPutCycle <=> val4017.countdown \in {1, 3})
                    \/ val4017.countdown = NoChange

(* What a flagged reload relies on.                                        *)
SkipBeforeTick ==
  \A c \in Channels :
    skipNextLengthClock[c] =>
      phase = 1 /\ isAPUPutCycle /\ IsHalfFrameStep(frameCounter, frameMode)

(* A read still to take effect has taken note of the interrupt.            *)
ReadMeansRead == frame4015ClearPending => ~unread

Led == LandsOnGet /\ SkipBeforeTick

IInv == TypeOK /\ (misled \/ Led)

FlagInv == NoLostFrameIRQ /\ ReadMeansRead

-----------------------------------------------------------------------------
LEMMA Constants ==
  /\ Lengths \subseteq Nat
  /\ Regions # {}
  /\ \A r \in Regions :
       /\ Half1[r] \in Nat /\ Step4[r] \in Nat /\ Step5[r] \in Nat
       /\ 0 < Half1[r] /\ Half1[r] < Step4[r] /\ Step4[r] < Step5[r]
<1>1. PICK r \in Regions : TRUE
  BY APUFrameAssumption DEF APUFrameAssumption
<1>2. QED
  BY <1>1, APUFrameAssumption DEF APUFrameAssumption

(* The types in two parts: what Phi1 computes and what the program writes. *)
ClockType ==
  /\ phase \in {1, 2} /\ region \in Regions /\ isAPUPutCycle \in BOOLEAN
  /\ frameCounter \in Nat
  /\ frameMode \in Modes
  /\ val4017 \in PinsUpTo(Modes, MaxDelay)

FlagType ==
  /\ frameIRQInhibit \in BOOLEAN
  /\ frameIRQPending \in BOOLEAN /\ frame4015ClearPending \in BOOLEAN
  /\ frameIRQLine \in BOOLEAN /\ unread \in BOOLEAN /\ misled \in BOOLEAN

ChannelType ==
  /\ enabled \in [Channels -> BOOLEAN]
  /\ lengthCounter \in [Channels -> Nat]
  /\ lengthHalt \in [Channels -> PinsUpTo(BOOLEAN, 2)]
  /\ skipNextLengthClock \in [Channels -> BOOLEAN]

LEMMA TypeParts == TypeOK <=> ClockType /\ FlagType /\ ChannelType
BY DEF TypeOK, ClockType, FlagType, ChannelType

LEMMA TypePartsNext == ClockType' /\ FlagType' /\ ChannelType' => TypeOK'
BY DEF TypeOK, ClockType, FlagType, ChannelType

LEMMA Delays == MaxDelay \in Nat /\ 2 \in Nat /\ MaxDelay = 4 /\ 0 \in Modes /\ Modes \subseteq Int
BY DEF MaxDelay, Modes

LEMMA InitType == Init => TypeOK
<1> SUFFICES ASSUME Init PROVE TypeOK
  OBVIOUS
<1>1. ClockType
  <2>1. frameCounter \in Nat
    BY Constants DEF Init
  <2>2. val4017 \in PinsUpTo(Modes, MaxDelay)
    BY Delays, PinOfType DEF Init
  <2>3. phase \in {1, 2} /\ region \in Regions /\ isAPUPutCycle \in BOOLEAN /\ frameMode \in Modes
    BY Zenon, Delays DEF Init
  <2>4. QED
    BY <2>1, <2>2, <2>3 DEF ClockType
<1>2. FlagType
  BY Zenon DEF Init, FlagType
<1>3. ChannelType
  <2>1. PinOf(FALSE) \in PinsUpTo(BOOLEAN, 2)
    BY PinOfType
  <2>2. lengthCounter \in [Channels -> Nat]
    BY DEF Init
  <2>3. QED
    BY <2>1, <2>2, Zenon DEF Init, ChannelType
<1>4. QED
  BY <1>1, <1>2, <1>3, TypeParts

LEMMA CountType ==
  ASSUME ClockType
  PROVE  CountNow \in Nat /\ NewMode \in Modes
<1>1. CountNow \in Nat
  BY Constants DEF ClockType, CountNow
<1>2. NewMode \in Modes
  BY Delays, PinFields DEF ClockType, NewMode
<1>3. QED
  BY <1>1, <1>2

LEMMA Phi1Type ==
  ASSUME TypeOK, Phi1
  PROVE  TypeOK'
<1>1. ClockType /\ FlagType /\ ChannelType
  BY TypeParts
<1>2. ClockType'
  <2>1. frameCounter' \in Nat /\ frameMode' \in Modes
    <3>1. frameCounter' = (IF SequenceEnds THEN 0 ELSE CountNow) /\ frameMode' = NewMode
      BY DEF Phi1
    <3>2. 0 \in Nat
      BY Constants
    <3>3. QED
      BY <1>1, <3>1, <3>2, CountType, Zenon
  <2>2. val4017' \in PinsUpTo(Modes, MaxDelay)
    BY <1>1, Delays, PinTickType DEF Phi1, ClockType
  <2>3. phase' = 2 /\ region' = region /\ isAPUPutCycle' = isAPUPutCycle
    BY DEF Phi1
  <2>4. QED
    BY <1>1, <2>1, <2>2, <2>3 DEF ClockType
<1>3. FlagType'
  <2>1. FlagAfter \in BOOLEAN /\ UnreadAfter \in BOOLEAN
    <3>1. (~frameIRQInhibit) \in BOOLEAN /\ (RaisesFlag \/ FlagBefore) \in BOOLEAN
          /\ ((RaisesFlag /\ ~isAPUPutCycle) \/ unread) \in BOOLEAN
      BY Zenon
    <3>2. CASE FrameEnds
      BY <3>1, <3>2, Zenon DEF FlagAfter, UnreadAfter
    <3>3. CASE ~FrameEnds
      BY <3>1, <3>3, Zenon DEF FlagAfter, UnreadAfter
    <3>4. QED
      BY <3>2, <3>3
  <2>2. QED
    BY <1>1, <2>1, Zenon DEF FlagType, Phi1
<1>4. ChannelType'
  <2>1. lengthHalt' \in [Channels -> PinsUpTo(BOOLEAN, 2)]
    BY <1>1, PinTickType DEF Phi1, ChannelType
  <2>2. \A c \in Channels : LengthAfterTick(c) \in Nat
    BY <1>1 DEF ChannelType, LengthAfterTick
  <2>3. lengthCounter' \in [Channels -> Nat]
    BY <1>1, <2>2 DEF Phi1, ChannelType
  <2>4. skipNextLengthClock' \in [Channels -> BOOLEAN]
    BY <1>1, Zenon DEF Phi1, ChannelType
  <2>5. QED
    BY <1>1, <2>1, <2>3, <2>4 DEF Phi1, ChannelType
<1>5. QED
  BY <1>2, <1>3, <1>4, TypePartsNext

LEMMA Phi2Type ==
  ASSUME ClockType, Phi2, UNCHANGED <<frameCounter, frameMode>>,
         val4017' \in PinsUpTo(Modes, MaxDelay)
  PROVE  ClockType'
<1>1. isAPUPutCycle' \in BOOLEAN
  BY Zenon DEF ClockType, Phi2
<1>2. QED
  BY <1>1 DEF ClockType, Phi2

LEMMA AccessType ==
  ASSUME TypeOK,
         \/ NoAccess \/ ReadStatus
         \/ \E on \in SUBSET Channels : WriteEnable(on)
         \/ \E mode \in Modes, inhibit \in BOOLEAN : WriteFrameCounter(mode, inhibit)
         \/ \E c \in Channels, halt \in BOOLEAN : WriteHalt(c, halt)
         \/ \E c \in Channels, length \in Lengths : WriteLength(c, length)
  PROVE  TypeOK'
<1>1. ClockType /\ FlagType /\ ChannelType
  BY TypeParts
<1>2. CASE NoAccess \/ ReadStatus
  <2>1. ClockType'
    BY <1>1, <1>2, Phi2Type DEF NoAccess, ReadStatus, sequencerVars, ClockType
  <2>2. FlagType'
    BY <1>1, <1>2, Zenon DEF NoAccess, ReadStatus, Phi2, irqVars, FlagType
  <2>3. ChannelType'
    BY <1>1, <1>2 DEF NoAccess, ReadStatus, channelVars, ChannelType
  <2>4. QED
    BY <2>1, <2>2, <2>3, TypePartsNext
<1>3. CASE \E on \in SUBSET Channels : WriteEnable(on)
  <2>1. PICK on \in SUBSET Channels : WriteEnable(on)
    BY <1>3
  <2>2. ClockType'
    BY <1>1, <2>1, Phi2Type DEF WriteEnable, sequencerVars, ClockType
  <2>3. FlagType'
    BY <1>1, <2>1, Zenon DEF WriteEnable, Phi2, irqVars, FlagType
  <2>4. ChannelType'
    <3>1. lengthCounter' \in [Channels -> Nat]
      BY <1>1, <2>1 DEF WriteEnable, ChannelType
    <3>2. enabled' \in [Channels -> BOOLEAN]
      <4>1. \A d \in Channels : (d \in on) \in BOOLEAN
        OBVIOUS
      <4>2. [d \in Channels |-> d \in on] \in [Channels -> BOOLEAN]
        BY <4>1, Zenon
      <4>3. enabled' = [d \in Channels |-> d \in on]
        BY <2>1 DEF WriteEnable
      <4>4. QED
        BY <4>2, <4>3, Zenon
    <3>3. QED
      BY <1>1, <2>1, <3>1, <3>2 DEF WriteEnable, ChannelType
  <2>5. QED
    BY <2>2, <2>3, <2>4, TypePartsNext
<1>4. CASE \E mode \in Modes, inhibit \in BOOLEAN : WriteFrameCounter(mode, inhibit)
  <2>1. PICK mode \in Modes, inhibit \in BOOLEAN : WriteFrameCounter(mode, inhibit)
    BY <1>4
  <2>2. val4017' \in PinsUpTo(Modes, MaxDelay)
    <3>1. Write4017Delay \in Nat /\ 0 < Write4017Delay /\ Write4017Delay <= MaxDelay
      BY Delays DEF Write4017Delay
    <3>2. val4017' = PinSet(val4017, mode, Write4017Delay)
      BY <2>1 DEF WriteFrameCounter
    <3>3. QED
      BY <1>1, <3>1, <3>2, Delays, PinSetType DEF ClockType
  <2>3. ClockType'
    BY <1>1, <2>1, <2>2, Phi2Type DEF WriteFrameCounter
  <2>4. FlagType'
    BY <1>1, <2>1, Zenon DEF WriteFrameCounter, Phi2, FlagType
  <2>5. ChannelType'
    BY <1>1, <2>1 DEF WriteFrameCounter, channelVars, ChannelType
  <2>6. QED
    BY <2>3, <2>4, <2>5, TypePartsNext
<1>5. CASE \E c \in Channels, halt \in BOOLEAN : WriteHalt(c, halt)
  <2>1. PICK c \in Channels, halt \in BOOLEAN : WriteHalt(c, halt)
    BY <1>5
  <2>2. ClockType'
    BY <1>1, <2>1, Phi2Type DEF WriteHalt, sequencerVars, ClockType
  <2>3. FlagType'
    BY <1>1, <2>1, Zenon DEF WriteHalt, Phi2, irqVars, FlagType
  <2>4. ChannelType'
    <3>1. PinSet(lengthHalt[c], halt, 2) \in PinsUpTo(BOOLEAN, 2)
      BY <1>1, PinSetType DEF ChannelType
    <3>2. lengthHalt' \in [Channels -> PinsUpTo(BOOLEAN, 2)]
      BY <1>1, <2>1, <3>1 DEF WriteHalt, ChannelType
    <3>3. QED
      BY <1>1, <2>1, <3>2 DEF WriteHalt, ChannelType
  <2>5. QED
    BY <2>2, <2>3, <2>4, TypePartsNext
<1>6. CASE \E c \in Channels, length \in Lengths : WriteLength(c, length)
  <2>1. PICK c \in Channels, length \in Lengths : WriteLength(c, length)
    BY <1>6
  <2>2. ClockType'
    BY <1>1, <2>1, Phi2Type DEF WriteLength, sequencerVars, ClockType
  <2>3. FlagType'
    BY <1>1, <2>1, Zenon DEF WriteLength, Phi2, irqVars, FlagType
  <2>4. ChannelType'
    <3>1. lengthCounter' \in [Channels -> Nat]
      BY <1>1, <2>1, Constants DEF WriteLength, ChannelType
    <3>2. skipNextLengthClock' \in [Channels -> BOOLEAN]
      <4>1. (skipNextLengthClock[c] \/ IsDuringTick) \in BOOLEAN
        BY Zenon
      <4>2. QED
        BY <1>1, <2>1, <4>1, Zenon DEF WriteLength, ChannelType
    <3>3. QED
      BY <1>1, <2>1, <3>1, <3>2 DEF WriteLength, ChannelType
  <2>5. QED
    BY <2>2, <2>3, <2>4, TypePartsNext
<1>7. QED
  BY <1>2, <1>3, <1>4, <1>5, <1>6

LEMMA InitSongType ==
  ASSUME TypeOK, NEW length \in Lengths, InitSong(length)
  PROVE  TypeOK'
<1>1. ClockType /\ FlagType /\ ChannelType
  BY TypeParts
<1>2. ClockType'
  <2>1. val4017' \in PinsUpTo(Modes, MaxDelay)
    BY <1>1, Delays, PinSetType DEF InitSong, ClockType
  <2>2. QED
    BY <1>1, <2>1 DEF InitSong, ClockType
<1>3. FlagType'
  <2>1. (misled \/ ~isAPUPutCycle) \in BOOLEAN
    BY Zenon
  <2>2. QED
    BY <1>1, <2>1, Zenon DEF InitSong, FlagType
<1>4. ChannelType'
  <2>1. lengthCounter' \in [Channels -> Nat]
    BY <1>1, Constants DEF InitSong, ChannelType
  <2>2. lengthHalt' \in [Channels -> PinsUpTo(BOOLEAN, 2)]
    <3>1. \A halt \in BOOLEAN, c \in Channels :
            PinSet(lengthHalt[c], halt, 2) \in PinsUpTo(BOOLEAN, 2)
      BY <1>1, PinSetType DEF ChannelType
    <3>2. \A c \in Channels : PinSet(lengthHalt[c], FALSE, 2) \in PinsUpTo(BOOLEAN, 2)
      BY <3>1, Zenon
    <3>3. QED
      BY <3>2 DEF InitSong
  <2>3. skipNextLengthClock' \in [Channels -> BOOLEAN] /\ enabled' \in [Channels -> BOOLEAN]
    BY Zenon DEF InitSong
  <2>4. QED
    BY <2>1, <2>2, <2>3 DEF ChannelType
<1>5. QED
  BY <1>2, <1>3, <1>4, TypePartsNext

LEMMA OutsideType ==
  ASSUME TypeOK, Reset \/ SwitchRegion \/ UNCHANGED vars
  PROVE  TypeOK'
<1>1. ClockType /\ FlagType /\ ChannelType
  BY TypeParts
<1>2. CASE Reset \/ SwitchRegion
  <2>1. ResetAPU /\ region' \in Regions
    BY <1>1, <1>2 DEF Reset, SwitchRegion, ClockType
  <2>2. val4017.current \in Modes
    BY <1>1, Delays, PinFields DEF ClockType
  <2>3. val4017' \in PinsUpTo(Modes, MaxDelay)
    BY <2>1, <2>2, Delays, PinForceType DEF ResetAPU
  <2>4. ClockType'
    <3>1. frameCounter' \in Nat
      BY <2>1 DEF ResetAPU
    <3>2. isAPUPutCycle' \in BOOLEAN
      BY <2>1, Zenon DEF ResetAPU
    <3>3. QED
      BY <1>1, <2>1, <2>2, <2>3, <3>1, <3>2 DEF ResetAPU, ClockType
  <2>5. FlagType'
    BY <1>1, <2>1, Zenon DEF ResetAPU, FlagType
  <2>6. ChannelType'
    <3>1. lengthCounter' \in [Channels -> Nat]
      BY <2>1 DEF ResetAPU
    <3>2. enabled' \in [Channels -> BOOLEAN] /\ skipNextLengthClock' \in [Channels -> BOOLEAN]
      BY <2>1, Zenon DEF ResetAPU
    <3>3. QED
      BY <1>1, <2>1, <3>1, <3>2 DEF ResetAPU, ChannelType
  <2>7. QED
    BY <2>4, <2>5, <2>6, TypePartsNext
<1>3. CASE UNCHANGED vars
  BY <1>1, <1>3, TypePartsNext DEF vars, sequencerVars, irqVars, channelVars,
     ClockType, FlagType, ChannelType
<1>4. QED
  BY <1>2, <1>3

(* Every field keeps its type, for any songs started, region switches,     *)
(* resets and accesses.                                                    *)
THEOREM TypeCorrect == Spec => []TypeOK
<1>1. TypeOK /\ [Next]_vars => TypeOK'
  BY Phi1Type, AccessType, InitSongType, OutsideType DEF Next
<1>2. QED
  BY <1>1, InitType, PTL DEF Spec

-----------------------------------------------------------------------------
(* A frame's interrupt is never lost, for any length of the sequence.      *)
LEMMA FlagStep ==
  ASSUME FlagInv, [Next]_vars
  PROVE  FlagInv'
<1>1. (unread => frameIRQPending) /\ (frame4015ClearPending => ~unread)
  BY DEF FlagInv, NoLostFrameIRQ, ReadMeansRead
<1>2. CASE Phi1
  <2>1. frameIRQPending' = FlagAfter /\ unread' = UnreadAfter
        /\ frame4015ClearPending' = (frame4015ClearPending /\ ~FlagCleared)
    BY <1>2, Zenon DEF Phi1
  <2>2. unread => FlagBefore
    BY <1>1, Zenon DEF FlagBefore, FlagCleared
  <2>3. UnreadAfter => FlagAfter
    BY <2>2, Zenon DEF UnreadAfter, FlagAfter
  <2>4. FrameEnds => ~isAPUPutCycle
    BY Zenon DEF FrameEnds
  <2>5. frame4015ClearPending' => ~UnreadAfter
    BY <1>1, <2>1, <2>4, Zenon DEF UnreadAfter, FlagCleared
  <2>6. QED
    BY <2>1, <2>3, <2>5, Zenon DEF FlagInv, NoLostFrameIRQ, ReadMeansRead
<1>3. CASE NoAccess \/ UNCHANGED vars
  <2>1. UNCHANGED irqVars
    BY <1>3 DEF NoAccess, vars
  <2>2. QED
    BY <1>1, <2>1 DEF irqVars, FlagInv, NoLostFrameIRQ, ReadMeansRead
<1>4. CASE ReadStatus
  BY <1>4 DEF ReadStatus, FlagInv, NoLostFrameIRQ, ReadMeansRead
<1>5. CASE \E mode \in Modes, inhibit \in BOOLEAN : WriteFrameCounter(mode, inhibit)
  <2>1. PICK inhibit \in BOOLEAN :
          /\ frameIRQPending' = (frameIRQPending /\ ~inhibit)
          /\ unread' = (unread /\ ~inhibit)
          /\ frame4015ClearPending' = frame4015ClearPending
    BY <1>5, Zenon DEF WriteFrameCounter
  <2>2. unread' => frameIRQPending'
    BY <1>1, <2>1, Zenon
  <2>3. frame4015ClearPending' => ~unread'
    BY <1>1, <2>1, Zenon
  <2>4. QED
    BY <2>2, <2>3 DEF FlagInv, NoLostFrameIRQ, ReadMeansRead
<1>6. CASE \/ \E on \in SUBSET Channels : WriteEnable(on)
           \/ \E c \in Channels, halt \in BOOLEAN : WriteHalt(c, halt)
           \/ \E c \in Channels, length \in Lengths : WriteLength(c, length)
  BY <1>1, <1>6 DEF WriteEnable, WriteHalt, WriteLength, irqVars, FlagInv, NoLostFrameIRQ,
     ReadMeansRead
<1>7. CASE Reset \/ SwitchRegion
  BY <1>7 DEF Reset, SwitchRegion, ResetAPU, FlagInv, NoLostFrameIRQ, ReadMeansRead
<1>8. CASE \E length \in Lengths : InitSong(length)
  BY <1>8 DEF InitSong, FlagInv, NoLostFrameIRQ, ReadMeansRead
<1>9. QED
  BY <1>2, <1>3, <1>4, <1>5, <1>6, <1>7, <1>8 DEF Next

(* Whatever is read, written, reset or switched, a frame interrupt that    *)
(* was allowed stays flagged until it is read or inhibited.                *)
THEOREM FrameIRQKept == Spec => []NoLostFrameIRQ
<1>1. Init => FlagInv
  BY DEF Init, FlagInv, NoLostFrameIRQ, ReadMeansRead
<1>2. FlagInv => NoLostFrameIRQ
  BY DEF FlagInv
<1>3. QED
  BY <1>1, <1>2, FlagStep, PTL DEF Spec

-----------------------------------------------------------------------------
(* The prediction of isHalfFrameTickNextCycle.                             *)
LEMMA LandingStep ==
  ASSUME TypeOK, LandsOnGet, [Next]_vars, ~misled'
  PROVE  LandsOnGet'
<1>1. /\ phase \in {1, 2} /\ isAPUPutCycle \in BOOLEAN
      /\ val4017.countdown \in {NoChange, 1, 2, 3, 4}
  BY DEF TypeOK, PinsUpTo, MaxDelay
<1>2. CASE Phi1
  <2>1. phase = 1 /\ phase' = 2 /\ isAPUPutCycle' = isAPUPutCycle
        /\ val4017' = PinTick(val4017)
    BY <1>2 DEF Phi1
  <2>2. val4017 = [val4017 EXCEPT !.countdown = val4017.countdown]
    BY DEF TypeOK, PinsUpTo
  <2>3. val4017'.countdown = IF val4017.countdown > 1 THEN val4017.countdown - 1 ELSE NoChange
    BY <1>1, <2>1 DEF TypeOK, PinsUpTo, PinTick, PinOf
  <2>4. QED
    BY <1>1, <2>1, <2>3 DEF LandsOnGet, NoChange
<1>3. CASE Phi2 /\ UNCHANGED val4017
  <2>1. phase = 2 /\ phase' = 1 /\ val4017' = val4017
    BY <1>3 DEF Phi2
  <2>2. isAPUPutCycle' <=> ~isAPUPutCycle
    BY <1>3, Zenon DEF Phi2
  <2>3. \/ val4017.countdown = NoChange
        \/ isAPUPutCycle /\ val4017.countdown \in {1, 3}
        \/ ~isAPUPutCycle /\ val4017.countdown \in {2, 4}
    BY <1>1, <2>1 DEF LandsOnGet
  <2>4. CASE isAPUPutCycle
    BY <2>1, <2>2, <2>3, <2>4 DEF LandsOnGet, NoChange
  <2>5. CASE ~isAPUPutCycle
    BY <2>1, <2>2, <2>3, <2>5 DEF LandsOnGet, NoChange
  <2>6. QED
    BY <2>4, <2>5
<1>4. CASE \E mode \in Modes, inhibit \in BOOLEAN : WriteFrameCounter(mode, inhibit)
  <2>1. PICK mode \in Modes, inhibit \in BOOLEAN : WriteFrameCounter(mode, inhibit)
    BY <1>4
  <2>2. val4017'.countdown = Write4017Delay
    BY <2>1 DEF WriteFrameCounter, PinSet, Write4017Delay
  <2>3. phase' = 1 /\ isAPUPutCycle' = ~isAPUPutCycle
    BY <2>1 DEF WriteFrameCounter, Phi2
  <2>4. isAPUPutCycle' <=> ~isAPUPutCycle
    BY <2>3, Zenon
  <2>5. CASE isAPUPutCycle
    BY <2>2, <2>3, <2>4, <2>5 DEF LandsOnGet, Write4017Delay, NoChange
  <2>6. CASE ~isAPUPutCycle
    BY <2>2, <2>3, <2>4, <2>6 DEF LandsOnGet, Write4017Delay, NoChange
  <2>7. QED
    BY <2>5, <2>6
<1>5. CASE Reset \/ SwitchRegion
  <2>1. phase' = 1 /\ val4017'.countdown = NoChange
    BY <1>5 DEF Reset, SwitchRegion, ResetAPU, PinForce, PinOf
  <2>2. QED
    BY <2>1 DEF LandsOnGet
<1>6. CASE UNCHANGED vars
  BY <1>6 DEF vars, sequencerVars, LandsOnGet
<1>7. CASE \E length \in Lengths : InitSong(length)
  <2>1. PICK length \in Lengths : InitSong(length)
    BY <1>7
  <2>2. val4017'.countdown = 4
    BY <2>1 DEF InitSong, PinSet
  <2>3. isAPUPutCycle /\ UNCHANGED <<phase, isAPUPutCycle>>
    BY <2>1, Zenon DEF InitSong
  <2>4. phase = 1
    BY <2>1 DEF InitSong
  <2>5. QED
    BY <2>2, <2>3, <2>4 DEF LandsOnGet
<1>8. QED
  BY <1>2, <1>3, <1>4, <1>5, <1>6, <1>7 DEF Next, NoAccess, ReadStatus, WriteEnable,
     WriteHalt, WriteLength, sequencerVars

(* A predicted tick is there when nothing lands in between.                *)
LEMMA PredictedTick ==
  ASSUME TypeOK, LandsOnGet, phase = 1, isAPUPutCycle,
         IsHalfFrameStep(frameCounter, frameMode)
  PROVE  HalfFrame
<1>1. ~Lands
  <2>1. val4017.countdown \in {NoChange, 2, 4}
    BY DEF LandsOnGet
  <2>2. QED
    BY <2>1 DEF Lands, PinFires, NoChange
<1>2. CountNow = frameCounter /\ NewMode = frameMode
  BY <1>1 DEF CountNow, NewMode
<1>3. QED
  BY <1>2 DEF HalfFrame

LEMMA SkipStep ==
  ASSUME TypeOK, LandsOnGet, SkipBeforeTick, [Next]_vars, ~misled'
  PROVE  SkipBeforeTick'
<1>1. phase = 2 => \A c \in Channels : ~skipNextLengthClock[c]
  BY DEF SkipBeforeTick
<1>4. CASE Phi1
  <2>1. \A c \in Channels : ~skipNextLengthClock'[c]
    <3>1. CASE HalfFrame
      BY <1>4, <3>1 DEF Phi1
    <3>2. CASE ~HalfFrame
      <4>1. skipNextLengthClock' = skipNextLengthClock /\ phase = 1
        BY <1>4, <3>2 DEF Phi1
      <4>2. QED
        BY <3>2, <4>1, PredictedTick DEF SkipBeforeTick
    <3>3. QED
      BY <3>1, <3>2
  <2>2. QED
    BY <2>1 DEF SkipBeforeTick
<1>5. CASE Phi2 /\ UNCHANGED skipNextLengthClock
  BY <1>1, <1>5 DEF Phi2, SkipBeforeTick
<1>6. CASE \E c \in Channels, length \in Lengths : WriteLength(c, length)
  <2>1. PICK c \in Channels, length \in Lengths : WriteLength(c, length)
    BY <1>6
  <2>2. /\ phase = 2 /\ phase' = 1 /\ isAPUPutCycle' = ~isAPUPutCycle
        /\ frameCounter' = frameCounter /\ frameMode' = frameMode /\ region' = region
    BY <2>1 DEF WriteLength, Phi2, sequencerVars
  <2>3. \A d \in Channels : skipNextLengthClock'[d] => IsDuringTick
    BY <1>1, <2>1, <2>2 DEF WriteLength, TypeOK
  <2>4. IsDuringTick => isAPUPutCycle' /\ IsHalfFrameStep(frameCounter, frameMode)'
    BY <2>2 DEF IsDuringTick, IsHalfFrameStep
  <2>5. QED
    BY <2>2, <2>3, <2>4 DEF SkipBeforeTick
<1>7. CASE Reset \/ SwitchRegion
  BY <1>7 DEF Reset, SwitchRegion, ResetAPU, SkipBeforeTick
<1>8. CASE UNCHANGED vars
  BY <1>8 DEF vars, sequencerVars, channelVars, SkipBeforeTick, IsHalfFrameStep
<1>9. CASE \E length \in Lengths : InitSong(length)
  <2>1. PICK length \in Lengths : InitSong(length)
    BY <1>9
  <2>2. /\ phase = 1 /\ isAPUPutCycle
        /\ UNCHANGED <<phase, region, isAPUPutCycle, frameCounter, frameMode>>
    BY <2>1, Zenon DEF InitSong
  <2>3. \A c \in Channels :
          skipNextLengthClock'[c] => skipNextLengthClock[c] \/ IsHalfFrameStep(frameCounter, frameMode)
    BY <2>1 DEF InitSong
  <2>4. QED
    BY <2>2, <2>3 DEF SkipBeforeTick, IsHalfFrameStep
<1>10. QED
  BY <1>4, <1>5, <1>6, <1>7, <1>8, <1>9 DEF Next, NoAccess, ReadStatus, WriteEnable,
     WriteFrameCounter, WriteHalt, channelVars

(* A song started before a get cycle is made up for by the first tick that *)
(* finds no $4017 write on its way: it clears the flags of all channels.   *)
LEMMA Recovery ==
  ASSUME misled, [Next]_vars, ~misled'
  PROVE  Led'
<1>1. CASE Phi1
  <2>1. HalfFrame /\ val4017'.countdown = NoChange
    BY <1>1 DEF Phi1
  <2>2. \A c \in Channels : ~skipNextLengthClock'[c]
    BY <1>1, <2>1 DEF Phi1
  <2>3. QED
    BY <2>1, <2>2 DEF Led, LandsOnGet, SkipBeforeTick
<1>2. CASE Reset \/ SwitchRegion
  <2>1. val4017'.countdown = NoChange
    BY <1>2 DEF Reset, SwitchRegion, ResetAPU, PinForce, PinOf
  <2>2. \A c \in Channels : ~skipNextLengthClock'[c]
    BY <1>2 DEF Reset, SwitchRegion, ResetAPU
  <2>3. QED
    BY <2>1, <2>2 DEF Led, LandsOnGet, SkipBeforeTick
<1>3. CASE \E length \in Lengths : InitSong(length)
  BY <1>3, Zenon DEF InitSong
<1>4. CASE UNCHANGED misled
  BY <1>4
<1>5. QED
  BY <1>1, <1>2, <1>3, <1>4 DEF Next, NoAccess, ReadStatus, WriteEnable, WriteFrameCounter,
     WriteHalt, WriteLength, Phi2, vars

(* A reload told to sit out the next tick meets that tick on the very next *)
(* clock, for any steps of the sequence, unless a song was started before  *)
(* a get cycle.                                                            *)
THEOREM SkipsMeetTheirTick == Spec => []SkipIsFresh
<1>1. Init => IInv
  <2>1. Init => LandsOnGet
    BY DEF Init, LandsOnGet, PinOf
  <2>2. Init => SkipBeforeTick
    BY DEF Init, SkipBeforeTick
  <2>3. QED
    BY <2>1, <2>2, InitType DEF IInv, Led
<1>2. IInv /\ [Next]_vars => IInv'
  <2> SUFFICES ASSUME IInv, [Next]_vars PROVE IInv'
    OBVIOUS
  <2>1. TypeOK'
    BY Phi1Type, AccessType, InitSongType, OutsideType DEF IInv, Next
  <2>2. CASE misled'
    BY <2>1, <2>2 DEF IInv
  <2>3. CASE ~misled'
    <3>1. CASE misled
      BY <2>1, <2>3, <3>1, Recovery DEF IInv
    <3>2. CASE ~misled
      <4>1. TypeOK /\ LandsOnGet /\ SkipBeforeTick
        BY <3>2 DEF IInv, Led
      <4>2. LandsOnGet' /\ SkipBeforeTick'
        BY <2>3, <4>1, LandingStep, SkipStep
      <4>3. QED
        BY <2>1, <4>2 DEF IInv, Led
    <3>3. QED
      BY <3>1, <3>2
  <2>4. QED
    BY <2>2, <2>3
<1>3. IInv => SkipIsFresh
  BY PredictedTick DEF IInv, Led, SkipBeforeTick, SkipIsFresh
<1>4. QED
  BY <1>1, <1>2, <1>3, PTL DEF Spec
-----------------------------------------------------------------------------
(* The last count of the sequence in force, a number for every region.     *)
LastCount(r, mode) == (IF mode = 0 THEN Step4 ELSE Step5)[r]

LEMMA LastCountType == \A r \in Regions, mode \in Modes : LastCount(r, mode) \in Nat
BY Constants DEF LastCount, Modes

LEMMA CountStep ==
  ASSUME TypeOK, CountStaysInSequence, [Next]_vars, TypeOK'
  PROVE  CountStaysInSequence'
<1>1. /\ region \in Regions /\ frameMode \in Modes /\ frameCounter \in Nat
      /\ region' \in Regions /\ frameMode' \in Modes
  BY DEF TypeOK
<1>2. frameCounter <= LastCount(region, frameMode)
  BY DEF CountStaysInSequence, LastCount
<1>3. frameCounter' <= LastCount(region', frameMode')
  <2>1. CASE Phi1
    <3>1. /\ region' = region /\ frameMode' = NewMode
          /\ frameCounter' = IF SequenceEnds THEN 0 ELSE CountNow
      BY <2>1 DEF Phi1
    <3>2. CASE SequenceEnds \/ Lands
      <4>1. frameCounter' = 0
        BY <3>1, <3>2 DEF CountNow
      <4>2. QED
        BY <1>1, <4>1, LastCountType
    <3>3. CASE ~SequenceEnds /\ ~Lands
      <4>1. NewMode = frameMode
        BY <3>3 DEF NewMode
      <4>2. CASE isAPUPutCycle
        BY <1>2, <3>1, <3>3, <4>1, <4>2 DEF CountNow
      <4>3. CASE ~isAPUPutCycle
        <5>1. CountNow = frameCounter + 1
          BY <3>3, <4>3 DEF CountNow
        <5>2. CountNow # LastCount(region, frameMode) + 1
          BY <3>3, <4>1, <4>3, <1>1 DEF SequenceEnds, LastCount, Modes
        <5>3. LastCount(region, frameMode) \in Nat
          BY <1>1, LastCountType
        <5>4. QED
          BY <1>1, <1>2, <3>1, <3>3, <4>1, <5>1, <5>2, <5>3
      <4>4. QED
        BY <4>2, <4>3
    <3>4. QED
      BY <3>2, <3>3
  <2>2. CASE Reset \/ SwitchRegion
    <3>1. frameCounter' = 0
      BY <2>2 DEF Reset, SwitchRegion, ResetAPU
    <3>2. QED
      BY <1>1, <3>1, LastCountType
  <2>3. CASE UNCHANGED <<region, frameMode, frameCounter>>
    BY <1>2, <2>3
  <2>4. QED
    BY <2>1, <2>2, <2>3 DEF Next, NoAccess, ReadStatus, WriteEnable, WriteFrameCounter,
       WriteHalt, WriteLength, InitSong, Phi2, sequencerVars, vars
<1>4. QED
  BY <1>3 DEF CountStaysInSequence, LastCount

(* The counter never runs past the last step of the sequence in force, for *)
(* any sequences, whatever mode is written and whatever region is chosen.  *)
THEOREM CountInSequence == Spec => []CountStaysInSequence
<1>1. Init => CountStaysInSequence
  BY Constants DEF Init, CountStaysInSequence
<1>2. TypeOK /\ [Next]_vars => TypeOK'
  BY Phi1Type, AccessType, InitSongType, OutsideType DEF Next
<1>3. TypeOK /\ CountStaysInSequence /\ [Next]_vars => CountStaysInSequence'
  BY <1>2, CountStep
<1>4. QED
  BY <1>1, <1>2, <1>3, InitType, PTL DEF Spec
=============================================================================
