----------------------------- MODULE PPU2C02Proofs ----------------------------
(***************************************************************************)
(* Proofs about two parts of the PPU (core/PPU2C02.h) that share no state: *)
(* module VBlank, the frame and its interrupt, for any number of dots and  *)
(* lines; and module SpriteEval, the search for sprites, for any number of *)
(* sprites and slots, any dots a search may take and any contents of OAM.  *)
(*                                                                         *)
(* Of the search: the types; how many sprites are on the line before one   *)
(* (Rank); what a step does to each register; the invariant SearchInv,     *)
(* which says for every dot where the machine is (Looking at a sprite,     *)
(* Copying it, Over at the end of OAM, Full and then Past the slots); and  *)
(* from it that the machine and the two searches made at once agree.       *)
(***************************************************************************)
EXTENDS VBlank, SpriteEval, DelayedPinProofs, FiniteSetTheorems, SequenceTheorems,
        WellFoundedInduction

(* The types in parts: the frame, the flags, and what is counted.          *)
FrameType ==
  /\ step \in 1..6
  /\ region \in Regions
  /\ scanline \in 0..TotalLines[region]-1 /\ cycle \in 0..Dots-1

PinType == oddFrameSkip \in PinsUpTo(BOOLEAN, 3)

BitType ==
  /\ isRead \in BOOLEAN /\ nmiLevel \in BOOLEAN
  /\ frameOdd \in BOOLEAN /\ rendering \in BOOLEAN /\ enableNmi \in BOOLEAN
  /\ verticalBlank \in BOOLEAN /\ nmiVbl \in BOOLEAN
  /\ nmiCycleLatch \in BOOLEAN /\ suppressVblThisFrame \in BOOLEAN
  /\ armed \in BOOLEAN /\ short \in BOOLEAN /\ prevShort \in BOOLEAN

CountType ==
  /\ cpuCycle \in 0..4
  /\ edges \in 0..MaxCount /\ race \in Races /\ seen \in 0..MaxCount
  /\ rendered \in 0..MaxRendered

LEMMA TypeParts == TypeOK <=> FrameType /\ PinType /\ BitType /\ CountType
BY DEF TypeOK, FrameType, PinType, BitType, CountType

LEMMA TypePartsNext == FrameType' /\ PinType' /\ BitType' /\ CountType' => TypeOK'
BY DEF TypeOK, FrameType, PinType, BitType, CountType

LEMMA FrameFacts ==
  /\ Dots \in Nat /\ Dots > 5
  /\ \A r \in Regions :
       /\ NmiLine[r] \in Nat /\ PreRenderLine[r] \in Nat /\ TotalLines[r] \in Nat
       /\ 0 < NmiLine[r] /\ NmiLine[r] < PreRenderLine[r]
       /\ PreRenderLine[r] + 1 = TotalLines[r]
BY VBlankAssumption DEF VBlankAssumption

LEMMA UpToType ==
  ASSUME NEW bound \in Nat, NEW n \in 0..bound
  PROVE  UpTo(bound, n + 1) \in 0..bound
BY DEF UpTo

(* A frame that moves on stays a frame.                                    *)
LEMMA AdvanceFrame ==
  ASSUME FrameType, Advance, UNCHANGED region, step' \in 1..6
  PROVE  FrameType'
<1>1. scanline \in 0..TotalLines[region]-1 /\ cycle \in 0..Dots-1 /\ region \in Regions
  BY DEF FrameType
<1>2. cycle' \in 0..Dots-1
  BY <1>1, FrameFacts DEF Advance, LineEnds
<1>3. scanline' \in 0..TotalLines[region]-1
  <2>1. CASE FrameEnds
    BY <1>1, <2>1, FrameFacts DEF Advance
  <2>2. CASE ~FrameEnds
    <3>1. scanline' = IF LineEnds THEN scanline + 1 ELSE scanline
      BY <2>2 DEF Advance
    <3>2. LineEnds => scanline + 1 < TotalLines[region]
      BY <1>1, <2>2, FrameFacts DEF FrameEnds
    <3>3. QED
      BY <1>1, <3>1, <3>2, FrameFacts
  <2>3. QED
    BY <2>1, <2>2
<1>4. QED
  BY <1>1, <1>2, <1>3 DEF FrameType

LEMMA SkipPinType ==
  ASSUME PinType
  PROVE  SkipPin \in PinsUpTo(BOOLEAN, 3)
<1> DEFINE decides == region = "NTSC" /\ At(PreRenderLine, Dots - 4)
           decided == frameOdd /\ rendering
<1>1. decided \in BOOLEAN
  BY Zenon
<1>2. PinSet(oddFrameSkip, decided, 3) \in PinsUpTo(BOOLEAN, 3)
  <2> HIDE DEF decided
  <2>1. QED
    BY <1>1, PinSetType DEF PinType
<1>3. SkipPin = PinTick(IF decides THEN PinSet(oddFrameSkip, decided, 3) ELSE oddFrameSkip)
  BY DEF SkipPin
<1> HIDE DEF decides, decided
<1>4. CASE decides
  BY <1>2, <1>3, <1>4, PinTickType
<1>5. CASE ~decides
  BY <1>3, <1>5, PinTickType DEF PinType
<1>6. QED
  BY <1>4, <1>5

LEMMA InitType == Init => TypeOK
<1> SUFFICES ASSUME Init PROVE TypeOK
  OBVIOUS
<1>1. FrameType
  <2>1. PreRenderLine[region] \in 0..TotalLines[region]-1
    BY FrameFacts DEF Init
  <2>2. QED
    BY <2>1, FrameFacts DEF Init, FrameType
<1>2. PinType
  BY PinOfType DEF Init, PinType
<1>3. BitType
  BY Zenon DEF Init, BitType
<1>4. CountType
  BY DEF Init, CountType, MaxCount, MaxRendered, Races
<1>5. QED
  BY <1>1, <1>2, <1>3, <1>4, TypeParts

LEMMA DotType ==
  ASSUME TypeOK, Dot
  PROVE  TypeOK'
<1>1. FrameType /\ PinType /\ BitType /\ CountType
  BY TypeParts
<1>2. FrameType'
  <2>1. step' \in 1..6
    BY <1>1 DEF Dot, FrameType
  <2>2. QED
    BY <1>1, <2>1, AdvanceFrame DEF Dot
<1>3. PinType'
  <2>1. oddFrameSkip' = PinForce(SkipPin, FALSE) \/ oddFrameSkip' = SkipPin
    BY DEF Dot, Advance
  <2>2. QED
    BY <1>1, <2>1, SkipPinType, PinForceType DEF PinType
<1>4. BitType'
  <2>1. /\ FlagAfterDot \in BOOLEAN /\ LineAfterDot \in BOOLEAN
        /\ (suppressVblThisFrame /\ ~At(NmiLine, 1)) \in BOOLEAN
        /\ (nmiCycleLatch \/ (enableNmi /\ LineAfterDot)) \in BOOLEAN
    BY Zenon DEF FlagAfterDot, LineAfterDot
  <2>2. /\ verticalBlank' \in BOOLEAN /\ nmiVbl' \in BOOLEAN
        /\ suppressVblThisFrame' \in BOOLEAN /\ nmiCycleLatch' \in BOOLEAN
    BY <2>1, Zenon DEF Dot
  <2>3. frameOdd' \in BOOLEAN /\ short' \in BOOLEAN /\ prevShort' \in BOOLEAN
    <3>1. FrameOddAfter \in BOOLEAN /\ SkipsDot \in BOOLEAN
      <4>1. (~frameOdd) \in BOOLEAN /\ SkipsDot \in BOOLEAN
        BY Zenon DEF SkipsDot
      <4>2. QED
        BY <1>1, <4>1, Zenon DEF BitType, FrameOddAfter
    <3>2. QED
      BY <1>1, <3>1, Zenon DEF Dot, Advance, BitType
  <2>4. armed' \in BOOLEAN
    BY <1>1, Zenon DEF Dot, nmiHistory, BitType
  <2>5. UNCHANGED <<isRead, nmiLevel, rendering, enableNmi>>
    BY DEF Dot, cpuVars
  <2>6. QED
    BY <1>1, <2>2, <2>3, <2>4, <2>5 DEF BitType
<1>5. CountType'
  <2>1. rendered' \in 0..MaxRendered
    <3>1. rendered' = rendered \/ rendered' = UpTo(MaxRendered, rendered + 1)
      BY DEF Dot, Advance
    <3>2. QED
      BY <1>1, <3>1, UpToType DEF CountType, MaxRendered
  <2>2. edges' \in 0..MaxCount /\ race' \in Races /\ seen' \in 0..MaxCount
    BY <1>1 DEF Dot, nmiHistory, CountType, MaxCount, Races
  <2>3. cpuCycle' = cpuCycle
    BY DEF Dot, cpuVars
  <2>4. QED
    BY <1>1, <2>1, <2>2, <2>3 DEF CountType
<1>6. QED
  BY <1>2, <1>3, <1>4, <1>5, TypePartsNext

LEMMA WriteType ==
  ASSUME TypeOK,
         \/ NoWrite
         \/ \E enable \in BOOLEAN : WriteCtrl(enable)
         \/ \E on \in BOOLEAN : WriteMask(on)
  PROVE  TypeOK'
<1>1. FrameType /\ PinType /\ BitType /\ CountType
  BY TypeParts
<1>2. CASE NoWrite
  BY <1>1, <1>2, TypePartsNext DEF NoWrite, cpuVars, frameVars, flagVars, nmiHistory,
     frameHistory, FrameType, PinType, BitType, CountType
<1>3. CASE \E enable \in BOOLEAN : WriteCtrl(enable)
  <2>1. PICK enable \in BOOLEAN : WriteCtrl(enable)
    BY <1>3
  <2>2. FrameType' /\ PinType' /\ CountType'
    BY <1>1, <2>1 DEF WriteCtrl, frameVars, frameHistory, FrameType, PinType, CountType
  <2>3. /\ isRead' = FALSE /\ enableNmi' = enable /\ armed' = (armed /\ enable)
        /\ nmiCycleLatch' = (nmiCycleLatch /\ ~(~enable /\ InRaceWindow))
    BY <2>1, Zenon DEF WriteCtrl
  <2>4. /\ isRead' \in BOOLEAN /\ enableNmi' \in BOOLEAN /\ armed' \in BOOLEAN
        /\ nmiCycleLatch' \in BOOLEAN
    BY <2>3, Zenon
  <2>5. UNCHANGED <<nmiLevel, frameOdd, rendering, verticalBlank, nmiVbl,
                    suppressVblThisFrame, short, prevShort>>
    BY <2>1 DEF WriteCtrl, frameVars, frameHistory
  <2>6. BitType'
    BY <1>1, <2>4, <2>5 DEF BitType
  <2>7. QED
    BY <2>2, <2>6, TypePartsNext
<1>4. CASE \E on \in BOOLEAN : WriteMask(on)
  <2>1. PICK on \in BOOLEAN : WriteMask(on)
    BY <1>4
  <2>2. FrameType' /\ PinType'
    BY <1>1, <2>1 DEF WriteMask, frameVars, FrameType, PinType
  <2>3. CountType'
    BY <1>1, <2>1 DEF WriteMask, nmiHistory, CountType, MaxRendered
  <2>4. BitType'
    <3>1. isRead' = FALSE /\ rendering' = on
      BY <2>1, Zenon DEF WriteMask
    <3>2. isRead' \in BOOLEAN /\ rendering' \in BOOLEAN
      BY <3>1, Zenon
    <3>3. UNCHANGED <<nmiLevel, frameOdd, enableNmi, verticalBlank, nmiVbl, nmiCycleLatch,
                      suppressVblThisFrame, armed, short, prevShort>>
      BY <2>1 DEF WriteMask, frameVars, flagVars, nmiHistory
    <3>4. QED
      BY <1>1, <3>2, <3>3 DEF BitType
  <2>5. QED
    BY <2>2, <2>3, <2>4, TypePartsNext
<1>5. QED
  BY <1>2, <1>3, <1>4

LEMMA PollType ==
  ASSUME TypeOK, NoRead \/ ReadStatus
  PROVE  TypeOK'
<1>1. FrameType /\ PinType /\ BitType /\ CountType
  BY TypeParts
<1>2. PICK latch, level : Poll(latch, level)
  BY DEF NoRead, ReadStatus
<1>3. FrameType' /\ PinType'
  BY <1>1, <1>2 DEF Poll, frameVars, FrameType, PinType
<1>4. CountType'
  <2>1. edges' \in 0..MaxCount
    <3>1. edges' = edges \/ edges' = UpTo(MaxCount, edges + 1)
      BY <1>2 DEF Poll
    <3>2. QED
      BY <1>1, <3>1, UpToType DEF CountType, MaxCount
  <2>2. cpuCycle' \in 0..4
    <3>1. (cpuCycle + 1) % 5 \in 0..4
      BY <1>1 DEF CountType
    <3>2. QED
      BY <1>1, <1>2, <3>1 DEF Poll, CountType
  <2>3. race' \in Races
    BY <1>1 DEF NoRead, ReadStatus, RaceAfterRead, CountType, Races
  <2>4. seen' \in 0..MaxCount
    <3>1. seen' = seen \/ seen' = UpTo(MaxCount, seen + 1)
      BY DEF NoRead, ReadStatus
    <3>2. QED
      BY <1>1, <3>1, UpToType DEF CountType, MaxCount
  <2>5. rendered' = rendered
    BY <1>2 DEF Poll, frameHistory
  <2>6. QED
    BY <1>1, <2>1, <2>2, <2>3, <2>4, <2>5 DEF CountType
<1>5. BitType'
  <2>1. isRead' \in BOOLEAN /\ nmiLevel' \in BOOLEAN /\ nmiCycleLatch' \in BOOLEAN
    BY <1>2, Zenon DEF Poll
  <2>2. /\ verticalBlank' \in BOOLEAN /\ nmiVbl' \in BOOLEAN
        /\ suppressVblThisFrame' \in BOOLEAN
    <3>1. (suppressVblThisFrame \/ At(NmiLine, 1)) \in BOOLEAN
      BY Zenon
    <3>2. QED
      BY <1>1, <3>1, Zenon DEF NoRead, ReadStatus, BitType
  <2>3. UNCHANGED <<frameOdd, rendering, enableNmi, armed, short, prevShort>>
    BY <1>2 DEF Poll, frameVars, frameHistory
  <2>4. QED
    BY <1>1, <2>1, <2>2, <2>3 DEF BitType
<1>6. QED
  BY <1>3, <1>4, <1>5, TypePartsNext

LEMMA OutsideType ==
  ASSUME TypeOK, Reset \/ SwitchRegion \/ UNCHANGED vars
  PROVE  TypeOK'
<1>1. FrameType /\ PinType /\ BitType /\ CountType
  BY TypeParts
<1>2. CASE Reset \/ SwitchRegion
  <2>1. ResetMachine /\ region' \in Regions
    BY <1>1, <1>2 DEF Reset, SwitchRegion, FrameType
  <2>2. FrameType'
    <3>1. PreRenderLine[region'] \in 0..TotalLines[region']-1
      BY <2>1, FrameFacts
    <3>2. QED
      BY <1>1, <2>1, <3>1, FrameFacts DEF ResetMachine, FrameType
  <2>3. PinType'
    BY <2>1, PinOfType DEF ResetMachine, PinType
  <2>4. BitType'
    BY <1>1, <2>1, Zenon DEF ResetMachine, BitType
  <2>5. CountType'
    BY <2>1 DEF ResetMachine, CountType, MaxCount, MaxRendered, Races
  <2>6. QED
    BY <2>2, <2>3, <2>4, <2>5, TypePartsNext
<1>3. CASE UNCHANGED vars
  BY <1>1, <1>3, TypePartsNext DEF vars, cpuVars, frameVars, flagVars, nmiHistory,
     frameHistory, FrameType, PinType, BitType, CountType
<1>4. QED
  BY <1>2, <1>3

LEMMA TypeStep == TypeOK /\ [Next]_vars => TypeOK'
BY DotType, WriteType, PollType, OutsideType DEF Next, Clock

(* Every field keeps its type and the beam stays inside the frame of its   *)
(* region, whatever is written, skipped, reset or switched.                *)
THEOREM FrameTypes == Spec => []TypeOK
BY InitType, TypeStep, PTL DEF Spec
-----------------------------------------------------------------------------
(* Where the flag may be found set: not on the dots before it is set.      *)
FlagLines ==
  \/ scanline = NmiLine[region] /\ cycle > 1
  \/ scanline > NmiLine[region] /\ scanline < PreRenderLine[region]
  \/ scanline = PreRenderLine[region] /\ cycle < 2

(* The dot before the flag is set, where a read may still take it back.    *)
AtTheDotBefore ==
  At(NmiLine, 1) =>
    /\ seen = 0 /\ ~verticalBlank /\ race \in {"none", "before"}
    /\ suppressVblThisFrame <=> race = "before"
    /\ nmiVbl <=> ~suppressVblThisFrame

SuppressIsFresh == suppressVblThisFrame => At(NmiLine, 1)

LineCleared == At(PreRenderLine, 1) => ~nmiVbl

FlagUnread == verticalBlank => seen = 0 /\ FlagLines

FlagInv ==
  /\ AtTheDotBefore /\ SuppressIsFresh /\ LineCleared /\ FlagUnread
  /\ LineFollowsFlag /\ FlagSeenOnce

(* Where a dot takes the beam.                                             *)
LEMMA DotMoves ==
  ASSUME FrameType, Dot
  PROVE  /\ region' = region
         /\ \/ scanline' = scanline /\ cycle' = cycle + 1
            \/ cycle' = 0 /\ cycle > 3 /\ scanline' = scanline + 1
                 /\ scanline < PreRenderLine[region]
            \/ cycle' = 0 /\ cycle > 3 /\ scanline' = 0
                 /\ scanline = PreRenderLine[region]
<1>1. /\ scanline \in 0..TotalLines[region]-1 /\ cycle \in 0..Dots-1 /\ region \in Regions
      /\ Advance /\ region' = region
  BY DEF FrameType, Dot
<1>2. LineEnds => cycle > 3
  BY <1>1, FrameFacts DEF LineEnds, SkipsDot, At
<1>3. CASE FrameEnds
  <2>1. LineEnds /\ scanline = PreRenderLine[region]
    BY <1>1, <1>3, FrameFacts DEF FrameEnds, LineEnds, SkipsDot, At
  <2>2. QED
    BY <1>1, <1>2, <1>3, <2>1 DEF Advance
<1>4. CASE ~FrameEnds /\ LineEnds
  <2>1. scanline < PreRenderLine[region]
    BY <1>1, <1>4, FrameFacts DEF FrameEnds
  <2>2. QED
    BY <1>1, <1>2, <1>4, <2>1 DEF Advance
<1>5. CASE ~FrameEnds /\ ~LineEnds
  BY <1>1, <1>5 DEF Advance
<1>6. QED
  BY <1>3, <1>4, <1>5

LEMMA DotFlags ==
  ASSUME TypeOK, FlagInv, Dot
  PROVE  FlagInv'
<1>1. FrameType
  BY TypeParts
<1>2. /\ verticalBlank' <=> FlagAfterDot
      /\ nmiVbl' <=> LineAfterDot
      /\ suppressVblThisFrame' <=> suppressVblThisFrame /\ ~At(NmiLine, 1)
  BY Zenon DEF Dot
<1>3. ~suppressVblThisFrame'
  BY <1>2, Zenon DEF FlagInv, SuppressIsFresh
<1>4. /\ At(NmiLine, 0) => race' = "none" /\ seen' = 0
      /\ ~At(NmiLine, 0) => race' = race /\ seen' = seen
  BY DEF Dot, VblankBegins, nmiHistory
<1>5. /\ region \in Regions /\ scanline \in Nat /\ cycle \in Nat /\ seen \in 0..MaxCount
      /\ NmiLine[region] \in Nat /\ PreRenderLine[region] \in Nat
      /\ 0 < NmiLine[region] /\ NmiLine[region] < PreRenderLine[region]
  BY FrameFacts DEF TypeOK
<1>6. ~verticalBlank \/ ~At(NmiLine, 0)
  BY <1>5 DEF FlagInv, FlagUnread, FlagLines, At
<1>7. AtTheDotBefore'
  <2> SUFFICES ASSUME At(NmiLine, 1)' PROVE AtTheDotBefore'
    BY Zenon DEF AtTheDotBefore
  <2>1. At(NmiLine, 0)
    BY <1>1, <1>5, DotMoves DEF At
  <2>2. ~At(NmiLine, 1)
    BY <2>1 DEF At
  <2>3. ~verticalBlank' /\ nmiVbl'
    BY <1>2, <1>6, <2>1, <2>2, Zenon DEF FlagAfterDot, LineAfterDot
  <2>4. QED
    BY <1>3, <1>4, <2>1, <2>3 DEF AtTheDotBefore
<1>8. SuppressIsFresh'
  BY <1>3, Zenon DEF SuppressIsFresh
<1>9. LineCleared'
  <2> SUFFICES ASSUME At(PreRenderLine, 1)' PROVE ~nmiVbl'
    BY Zenon DEF LineCleared
  <2>1. At(PreRenderLine, 0) /\ ~At(NmiLine, 0)
    BY <1>1, <1>5, DotMoves DEF At
  <2>2. QED
    BY <1>2, <2>1, Zenon DEF LineAfterDot
<1>10. FlagUnread'
  <2> SUFFICES ASSUME verticalBlank' PROVE seen' = 0 /\ FlagLines'
    BY Zenon DEF FlagUnread
  <2>1. At(NmiLine, 1) \/ (verticalBlank /\ ~At(PreRenderLine, 1))
    BY <1>2, Zenon DEF FlagAfterDot
  <2>2. seen = 0 /\ (At(NmiLine, 1) \/ (FlagLines /\ ~At(PreRenderLine, 1)))
    BY <2>1, Zenon DEF FlagInv, FlagUnread, AtTheDotBefore
  <2>3. seen' = 0
    BY <1>4, <2>2
  <2>4. FlagLines'
    BY <1>1, <1>5, <2>2, DotMoves DEF FlagLines, At
  <2>5. QED
    BY <2>3, <2>4
<1>11. LineFollowsFlag'
  <2>1. CASE At(NmiLine, 0) \/ At(PreRenderLine, 0)
    BY <1>1, <1>5, <2>1, DotMoves DEF LineFollowsFlag, At
  <2>2. CASE At(NmiLine, 1)
    <3>1. nmiVbl' <=> verticalBlank'
      <4>1. ~At(NmiLine, 0) /\ ~At(PreRenderLine, 0) /\ ~At(PreRenderLine, 1)
        BY <1>5, <2>2 DEF At
      <4>2. QED
        BY <1>2, <2>2, <4>1, Zenon DEF FlagInv, AtTheDotBefore, FlagAfterDot, LineAfterDot
    <3>2. nmiVbl' \in BOOLEAN /\ verticalBlank' \in BOOLEAN
      BY DotType DEF TypeOK
    <3>3. QED
      BY <3>1, <3>2, Zenon DEF LineFollowsFlag
  <2>3. CASE At(PreRenderLine, 1)
    <3>1. nmiVbl' <=> verticalBlank'
      <4>1. ~At(NmiLine, 0) /\ ~At(NmiLine, 1)
        BY <1>5, <2>3 DEF At
      <4>2. QED
        BY <1>2, <2>3, <4>1, Zenon DEF FlagInv, LineCleared, FlagAfterDot, LineAfterDot
    <3>2. nmiVbl' \in BOOLEAN /\ verticalBlank' \in BOOLEAN
      BY DotType DEF TypeOK
    <3>3. QED
      BY <3>1, <3>2, Zenon DEF LineFollowsFlag
  <2>4. CASE /\ ~At(NmiLine, 0) /\ ~At(PreRenderLine, 0)
             /\ ~At(NmiLine, 1) /\ ~At(PreRenderLine, 1)
    <3>1. nmiVbl = verticalBlank
      <4>1. ~(scanline = PreRenderLine[region] /\ cycle \in {0, 1})
        BY <2>4 DEF At
      <4>2. QED
        BY <2>4, <4>1, Zenon DEF FlagInv, LineFollowsFlag
    <3>2. (nmiVbl' <=> nmiVbl) /\ (verticalBlank' <=> verticalBlank)
      BY <1>2, <2>4, Zenon DEF FlagAfterDot, LineAfterDot
    <3>3. nmiVbl <=> verticalBlank
      BY <3>1, Zenon
    <3>4. nmiVbl' <=> verticalBlank'
      BY <3>2, <3>3, Zenon
    <3>5. nmiVbl' \in BOOLEAN /\ verticalBlank' \in BOOLEAN
      BY DotType DEF TypeOK
    <3>6. QED
      BY <3>4, <3>5, Zenon DEF LineFollowsFlag
  <2>5. QED
    BY <2>1, <2>2, <2>3, <2>4
<1>12. FlagSeenOnce'
  <2>1. seen' <= 1
    BY <1>4 DEF FlagInv, FlagSeenOnce
  <2>2. ASSUME InVblank'
        PROVE  verticalBlank' <=> seen' = 0 /\ race' # "before"
    <3>1. ~At(NmiLine, 0) /\ ~At(PreRenderLine, 1)
      BY <1>1, <1>5, <2>2, DotMoves DEF InVblank, At
    <3>2. race' = race /\ seen' = seen
      BY <1>4, <3>1
    <3>3. CASE At(NmiLine, 1)
      <4>1. verticalBlank' <=> ~suppressVblThisFrame
        BY <1>2, <3>1, <3>3, Zenon DEF FlagInv, AtTheDotBefore, FlagAfterDot
      <4>2. seen = 0 /\ (suppressVblThisFrame <=> race = "before")
        BY <3>3, Zenon DEF FlagInv, AtTheDotBefore
      <4>3. QED
        BY <3>2, <4>1, <4>2
    <3>4. CASE ~At(NmiLine, 1)
      <4>1. verticalBlank' <=> verticalBlank
        BY <1>2, <3>1, <3>4, Zenon DEF FlagAfterDot
      <4>2. InVblank
        BY <1>1, <1>5, <2>2, <3>1, <3>2, <3>4, DotMoves DEF InVblank, At
      <4>3. QED
        BY <3>2, <4>1, <4>2 DEF FlagInv, FlagSeenOnce
    <3>5. QED
      BY <3>3, <3>4
  <2>3. QED
    BY <2>1, <2>2 DEF FlagSeenOnce
<1>13. QED
  BY <1>7, <1>8, <1>9, <1>10, <1>11, <1>12 DEF FlagInv

LEMMA QuietFlags ==
  ASSUME FlagInv,
         UNCHANGED <<region, scanline, cycle, verticalBlank, nmiVbl, suppressVblThisFrame,
                     race, seen>>
  PROVE  FlagInv'
BY DEF FlagInv, AtTheDotBefore, SuppressIsFresh, LineCleared, FlagUnread, FlagLines,
   LineFollowsFlag, FlagSeenOnce, InVblank, At

LEMMA ReadFlags ==
  ASSUME TypeOK, FlagInv, ReadStatus
  PROVE  FlagInv'
<1>1. /\ UNCHANGED <<region, scanline, cycle>>
      /\ verticalBlank' = FALSE /\ nmiVbl' = FALSE
      /\ suppressVblThisFrame' <=> suppressVblThisFrame \/ At(NmiLine, 1)
      /\ race' = RaceAfterRead
      /\ seen' = IF verticalBlank THEN UpTo(MaxCount, seen + 1) ELSE seen
  BY DEF ReadStatus, Poll, frameVars
<1>2. At(NmiLine, 1)' <=> At(NmiLine, 1)
  BY <1>1 DEF At
<1>3. AtTheDotBefore'
  <2> SUFFICES ASSUME At(NmiLine, 1) PROVE AtTheDotBefore'
    BY <1>2, Zenon DEF AtTheDotBefore
  <2>1. seen = 0 /\ ~verticalBlank /\ race \in {"none", "before"}
    BY Zenon DEF FlagInv, AtTheDotBefore
  <2>2. seen' = 0 /\ ~verticalBlank' /\ ~nmiVbl' /\ suppressVblThisFrame'
    BY <1>1, <2>1
  <2>3. race' = "before"
    BY <1>1, <2>1 DEF RaceAfterRead, InRaceWindow, At
  <2>4. QED
    BY <2>2, <2>3 DEF AtTheDotBefore
<1>4. SuppressIsFresh'
  BY <1>1, <1>2, Zenon DEF FlagInv, SuppressIsFresh
<1>5. LineCleared' /\ FlagUnread' /\ LineFollowsFlag'
  BY <1>1, Zenon DEF LineCleared, FlagUnread, LineFollowsFlag
<1>6. FlagSeenOnce'
  <2>1. seen' <= 1
    <3>1. CASE verticalBlank
      BY <1>1, <3>1 DEF FlagInv, FlagUnread, UpTo, MaxCount
    <3>2. CASE ~verticalBlank
      BY <1>1, <3>2 DEF FlagInv, FlagSeenOnce
    <3>3. QED
      BY <3>1, <3>2
  <2>2. ASSUME InVblank', seen' = 0, race' # "before"
        PROVE  FALSE
    <3>1. race # "off" /\ race # "before"
      BY <1>1, <2>2 DEF InVblank, RaceAfterRead
    <3>2. InVblank
      BY <1>1, <2>2, <3>1 DEF InVblank
    <3>3. CASE verticalBlank
      <4>1. seen' = 1
        BY <1>1, <3>3 DEF FlagInv, FlagUnread, UpTo, MaxCount
      <4>2. QED
        BY <2>2, <4>1
    <3>4. CASE ~verticalBlank
      <4>1. seen = 0
        BY <1>1, <2>2, <3>4
      <4>2. QED
        BY <3>1, <3>2, <3>4, <4>1 DEF FlagInv, FlagSeenOnce
    <3>5. QED
      BY <3>3, <3>4
  <2>3. QED
    BY <1>1, <2>1, <2>2 DEF FlagSeenOnce
<1>7. QED
  BY <1>3, <1>4, <1>5, <1>6 DEF FlagInv

LEMMA ResetFlags ==
  ASSUME TypeOK, FlagInv, Reset \/ SwitchRegion
  PROVE  FlagInv'
<1>1. region' \in Regions /\ ResetMachine
  BY DEF Reset, SwitchRegion, TypeOK
<1>2. /\ scanline' = PreRenderLine[region'] /\ cycle' = 0
      /\ ~nmiVbl' /\ ~suppressVblThisFrame' /\ race' = "off" /\ seen' = 0
  BY <1>1 DEF ResetMachine
<1>3. ~At(NmiLine, 1)' /\ ~At(PreRenderLine, 1)' /\ FlagLines' /\ ~InVblank'
  BY <1>2 DEF At, FlagLines, InVblank
<1>4. AtTheDotBefore' /\ SuppressIsFresh' /\ LineCleared' /\ FlagUnread'
  BY <1>2, <1>3, Zenon DEF AtTheDotBefore, SuppressIsFresh, LineCleared, FlagUnread
<1>5. LineFollowsFlag' /\ FlagSeenOnce'
  BY <1>2, <1>3 DEF LineFollowsFlag, FlagSeenOnce
<1>6. QED
  BY <1>4, <1>5 DEF FlagInv

LEMMA FlagStep == TypeOK /\ FlagInv /\ [Next]_vars => FlagInv'
<1> SUFFICES ASSUME TypeOK, FlagInv, [Next]_vars PROVE FlagInv'
  OBVIOUS
<1>1. CASE Dot
  BY <1>1, DotFlags
<1>2. CASE ReadStatus
  BY <1>2, ReadFlags
<1>3. CASE Reset \/ SwitchRegion
  BY <1>3, ResetFlags
<1>4. CASE \/ NoWrite
           \/ \E enable \in BOOLEAN : WriteCtrl(enable)
           \/ \E on \in BOOLEAN : WriteMask(on)
           \/ NoRead
           \/ UNCHANGED vars
  <2>1. UNCHANGED <<region, scanline, cycle, verticalBlank, nmiVbl, suppressVblThisFrame,
                    race, seen>>
    BY <1>4 DEF NoWrite, WriteCtrl, WriteMask, NoRead, Poll, vars, frameVars, flagVars,
       nmiHistory
  <2>2. QED
    BY <2>1, QuietFlags
<1>5. QED
  BY <1>1, <1>2, <1>3, <1>4 DEF Next, Clock

LEMMA InitFlags == Init => FlagInv
<1> SUFFICES ASSUME Init PROVE FlagInv
  OBVIOUS
<1>1. /\ cycle = 0 /\ ~verticalBlank /\ ~nmiVbl /\ nmiVbl = verticalBlank
      /\ ~suppressVblThisFrame /\ race = "off" /\ seen = 0
  BY DEF Init
<1>2. QED
  BY <1>1 DEF FlagInv, AtTheDotBefore, SuppressIsFresh, LineCleared, FlagUnread,
     LineFollowsFlag, FlagSeenOnce, InVblank, At

(* For any frame, the NMI line kept beside the flag is the flag, but on    *)
(* the dot by which it leads and after a reset until the flag is cleared.  *)
THEOREM LineAgreesWithFlag == Spec => []LineFollowsFlag
<1>1. FlagInv => LineFollowsFlag
  BY DEF FlagInv
<1>2. QED
  BY <1>1, InitType, InitFlags, TypeStep, FlagStep, PTL DEF Spec

(* For any frame and any reads, each vblank is reported once: to the first *)
(* read of it, unless that read comes on the dot before.                   *)
THEOREM VblankReportedOnce == Spec => []FlagSeenOnce
<1>1. FlagInv => FlagSeenOnce
  BY DEF FlagInv
<1>2. QED
  BY <1>1, InitType, InitFlags, TypeStep, FlagStep, PTL DEF Spec

-----------------------------------------------------------------------------
(* One NMI a frame.  At most four dots pass between two of the CPU's       *)
(* samples, so that the first one after vblank has begun comes before the  *)
(* beam has left its first dots, and finds the line either held by the     *)
(* latch or taken back by a read; and in the lines from the pre-render     *)
(* line on, the CPU sees the line high again before the next vblank.       *)
DotsSincePoll ==
  IF step = 6 THEN 4 ELSE IF step = 5 THEN 3 ELSE IF step \in {3, 4} THEN 2 ELSE step - 1
DotsIfSampled == IF step < 4 THEN step ELSE IF step = 4 THEN 3 ELSE 4

VblankLines ==
  \/ scanline = NmiLine[region] /\ cycle > 0
  \/ scanline > NmiLine[region] /\ scanline < PreRenderLine[region]
BeforeVblank == scanline < NmiLine[region] \/ At(NmiLine, 0)

InArmedVblank == armed /\ race # "off" /\ VblankLines

NotSampled ==
  InArmedVblank /\ race = "none" /\ edges = 0 =>
    /\ nmiCycleLatch /\ nmiLevel /\ step # 1
    /\ scanline = NmiLine[region] /\ cycle <= DotsSincePoll
Sampled ==
  InArmedVblank /\ race = "none" /\ edges # 0 =>
    /\ edges = 1
    /\ ~nmiLevel \/ (~nmiCycleLatch /\ ~nmiVbl)
    /\ scanline = NmiLine[region] => cycle >= DotsIfSampled
TakenBack ==
  InArmedVblank /\ race # "none" => edges = 0 /\ ~nmiCycleLatch /\ ~nmiVbl
LineReleased ==
  BeforeVblank \/ (scanline = PreRenderLine[region] /\ cycle > 0) => ~nmiVbl
LatchReleased ==
  BeforeVblank \/ (scanline = PreRenderLine[region] /\ cycle > DotsSincePoll)
    => ~nmiCycleLatch
LevelHigh ==
  BeforeVblank /\ (scanline = 0 => cycle >= DotsSincePoll) => nmiLevel
ArmedEnabled == armed => enableNmi

NmiInv ==
  /\ NotSampled /\ Sampled /\ TakenBack
  /\ LineReleased /\ LatchReleased /\ LevelHigh /\ ArmedEnabled

LEMMA DotNmi ==
  ASSUME TypeOK, NmiInv, Dot
  PROVE  NmiInv'
<1>1. FrameType /\ BitType /\ CountType
  BY TypeParts
<1>2. /\ nmiVbl' <=> LineAfterDot
      /\ nmiCycleLatch' <=> nmiCycleLatch \/ (enableNmi /\ LineAfterDot)
      /\ nmiLevel' <=> nmiLevel
      /\ enableNmi' <=> enableNmi
  BY Zenon DEF Dot, cpuVars
<1>3. /\ At(NmiLine, 0) => edges' = 0 /\ (armed' <=> enableNmi) /\ race' = "none"
      /\ ~At(NmiLine, 0) => edges' = edges /\ (armed' <=> armed) /\ race' = race
  BY Zenon DEF Dot, VblankBegins, nmiHistory
<1>4. /\ region \in Regions /\ scanline \in Nat /\ cycle \in Nat /\ step \in 1..6
      /\ NmiLine[region] \in Nat /\ PreRenderLine[region] \in Nat
      /\ 0 < NmiLine[region] /\ NmiLine[region] < PreRenderLine[region]
  BY <1>1, FrameFacts DEF FrameType
<1>5. /\ step \in {1, 2, 4, 5}
      /\ step' = step + 1 \/ (step = 4 /\ step' = 6)
  BY <1>4 DEF Dot
<1>6. /\ DotsSincePoll' >= DotsSincePoll + 1 /\ DotsSincePoll \in 0..3
      /\ DotsSincePoll' \in 1..4 /\ step' # 1
      /\ DotsIfSampled' <= DotsIfSampled + 1 /\ DotsIfSampled' \in Nat
      /\ DotsIfSampled \in Nat
  BY <1>5 DEF DotsSincePoll, DotsIfSampled
<1>7. region' = region
  BY DEF Dot
<1> HIDE DEF DotsSincePoll, DotsIfSampled
<1>8. At(NmiLine, 0) => scanline' = NmiLine[region] /\ cycle' = 1
  BY <1>1, <1>4, DotMoves DEF At
<1>9. VblankLines' => At(NmiLine, 0) \/ VblankLines
  BY <1>1, <1>4, DotMoves DEF At, VblankLines
<1>10. /\ At(NmiLine, 0) => LineAfterDot
       /\ VblankLines => (LineAfterDot => nmiVbl)
  <2>1. At(NmiLine, 0) => LineAfterDot
    BY Zenon DEF LineAfterDot
  <2>2. VblankLines => ~At(NmiLine, 0)
    BY <1>4 DEF VblankLines, At
  <2>3. QED
    BY <2>1, <2>2, Zenon DEF LineAfterDot
<1>11. CASE At(NmiLine, 0)
  <2>1. ~InArmedVblank' \/ (enableNmi /\ nmiCycleLatch')
    BY <1>2, <1>3, <1>10, <1>11, Zenon DEF InArmedVblank
  <2>2. nmiLevel
    BY <1>4, <1>11 DEF NmiInv, LevelHigh, BeforeVblank, At
  <2>3. NotSampled'
    BY <1>2, <1>6, <1>7, <1>8, <1>11, <2>1, <2>2 DEF NotSampled
  <2>4. Sampled' /\ TakenBack'
    BY <1>3, <1>11 DEF Sampled, TakenBack
  <2>5. ArmedEnabled'
    BY <1>2, <1>3, <1>11, Zenon DEF ArmedEnabled
  <2>6. ~BeforeVblank' /\ scanline' # PreRenderLine[region']
    BY <1>4, <1>7, <1>8, <1>11 DEF BeforeVblank, At
  <2>7. LineReleased' /\ LatchReleased' /\ LevelHigh'
    BY <2>6, Zenon DEF LineReleased, LatchReleased, LevelHigh
  <2>8. QED
    BY <2>3, <2>4, <2>5, <2>7 DEF NmiInv
<1>12. CASE ~At(NmiLine, 0)
  <2>1. InArmedVblank' => InArmedVblank /\ (LineAfterDot => nmiVbl)
    BY <1>3, <1>9, <1>10, <1>12, Zenon DEF InArmedVblank
  <2>2. race' = race /\ edges' = edges
    BY <1>3, <1>12
  <2>3. NotSampled'
    <3> SUFFICES ASSUME InArmedVblank', race' = "none", edges' = 0
                 PROVE  /\ nmiCycleLatch' /\ nmiLevel' /\ step' # 1
                        /\ scanline' = NmiLine[region'] /\ cycle' <= DotsSincePoll'
      BY DEF NotSampled
    <3>1. /\ nmiCycleLatch /\ nmiLevel
          /\ scanline = NmiLine[region] /\ cycle <= DotsSincePoll
      BY <2>1, <2>2 DEF NmiInv, NotSampled
    <3>2. scanline' = scanline /\ cycle' = cycle + 1
      BY <1>1, <1>4, <1>6, <3>1, DotMoves, FrameFacts DEF Dot, Advance, LineEnds, SkipsDot, FrameEnds, At
    <3>3. QED
      BY <1>2, <1>4, <1>6, <1>7, <3>1, <3>2
  <2>4. Sampled'
    <3> SUFFICES ASSUME InArmedVblank', race' = "none", edges' # 0
                 PROVE  /\ edges' = 1
                        /\ ~nmiLevel' \/ (~nmiCycleLatch' /\ ~nmiVbl')
                        /\ scanline' = NmiLine[region'] => cycle' >= DotsIfSampled'
      BY DEF Sampled
    <3>1. /\ edges = 1
          /\ ~nmiLevel \/ (~nmiCycleLatch /\ ~nmiVbl)
          /\ scanline = NmiLine[region] => cycle >= DotsIfSampled
      BY <2>1, <2>2 DEF NmiInv, Sampled
    <3>2. ~nmiLevel' \/ (~nmiCycleLatch' /\ ~nmiVbl')
      BY <1>2, <2>1, <3>1, Zenon
    <3>3. scanline' = NmiLine[region'] => cycle' >= DotsIfSampled'
      <4> SUFFICES ASSUME scanline' = NmiLine[region] PROVE cycle' >= DotsIfSampled'
        BY <1>7
      <4>1. scanline = NmiLine[region] /\ cycle' = cycle + 1
        BY <1>1, <1>4, <2>1, DotMoves DEF InArmedVblank, VblankLines
      <4>2. QED
        BY <1>4, <1>6, <3>1, <4>1
    <3>4. QED
      BY <2>2, <3>1, <3>2, <3>3
  <2>5. TakenBack'
    BY <1>2, <2>1, <2>2, Zenon DEF NmiInv, TakenBack
  <2>6. ArmedEnabled'
    BY <1>2, <1>3, <1>12, Zenon DEF NmiInv, ArmedEnabled
  <2>7. LineReleased'
    <3> SUFFICES ASSUME BeforeVblank' \/ (scanline' = PreRenderLine[region'] /\ cycle' > 0)
                 PROVE  ~nmiVbl'
      BY DEF LineReleased
    <3>1. \/ BeforeVblank
          \/ scanline = PreRenderLine[region] /\ cycle > 0
          \/ At(PreRenderLine, 0)
      BY <1>1, <1>4, <1>7, DotMoves DEF BeforeVblank, At
    <3>2. QED
      BY <1>2, <1>12, <3>1, Zenon DEF NmiInv, LineReleased, LineAfterDot
  <2>8. LatchReleased'
    <3> SUFFICES ASSUME \/ BeforeVblank'
                        \/ scanline' = PreRenderLine[region'] /\ cycle' > DotsSincePoll'
                 PROVE  ~nmiCycleLatch'
      BY DEF LatchReleased
    <3>1. \/ BeforeVblank
          \/ scanline = PreRenderLine[region] /\ cycle > DotsSincePoll
      BY <1>1, <1>4, <1>6, <1>7, DotMoves DEF BeforeVblank, At
    <3>2. BeforeVblank \/ (scanline = PreRenderLine[region] /\ cycle > 0)
      BY <1>4, <1>6, <3>1
    <3>3. ~nmiCycleLatch /\ ~LineAfterDot
      BY <1>12, <3>1, <3>2, Zenon DEF NmiInv, LatchReleased, LineReleased, LineAfterDot
    <3>4. QED
      BY <1>2, <3>3, Zenon
  <2>9. LevelHigh'
    <3> SUFFICES ASSUME BeforeVblank', scanline' = 0 => cycle' >= DotsSincePoll'
                 PROVE  nmiLevel'
      BY DEF LevelHigh
    <3>1. BeforeVblank /\ (scanline = 0 => cycle >= DotsSincePoll)
      BY <1>1, <1>4, <1>6, <1>7, DotMoves DEF BeforeVblank, At
    <3>2. QED
      BY <1>2, <3>1, Zenon DEF NmiInv, LevelHigh
  <2>10. QED
    BY <2>3, <2>4, <2>5, <2>6, <2>7, <2>8, <2>9 DEF NmiInv
<1>13. QED
  BY <1>11, <1>12

(* What the CPU's sample finds: low, if a dot of the cycle held the line   *)
(* and no read took it back.                                               *)
LEMMA PollSamples ==
  ASSUME TypeOK, NoRead \/ ReadStatus
  PROVE  \E low \in BOOLEAN :
           /\ nmiLevel' <=> ~low
           /\ edges' = IF low /\ nmiLevel THEN UpTo(MaxCount, edges + 1) ELSE edges
           /\ low => nmiCycleLatch \/ nmiVbl
           /\ nmiVbl' => nmiVbl
           /\ enableNmi /\ nmiVbl' => low
           /\ race' = "none" /\ nmiCycleLatch => low
           /\ \/ race' = race
              \/ race = "none" /\ InRaceWindow /\ ~low /\ ~nmiVbl'
                   /\ race' \in {"before", "after"}
<1>1. CASE NoRead
  <2>1. Poll(nmiCycleLatch, nmiVbl) /\ (nmiVbl' <=> nmiVbl) /\ race' = race
    BY <1>1, Zenon DEF NoRead
  <2> DEFINE low == nmiCycleLatch \/ (enableNmi /\ nmiVbl)
  <2>2. /\ nmiLevel' <=> ~low
        /\ edges' = IF low /\ nmiLevel THEN UpTo(MaxCount, edges + 1) ELSE edges
    BY <2>1, Zenon DEF Poll
  <2>3. low \in BOOLEAN
    BY Zenon
  <2>4. /\ low => nmiCycleLatch \/ nmiVbl
        /\ enableNmi /\ nmiVbl => low
        /\ nmiCycleLatch => low
    OBVIOUS
  <2> HIDE DEF low
  <2>5. WITNESS low \in BOOLEAN
  <2>6. QED
    BY <2>1, <2>2, <2>4, Zenon
<1>2. CASE ReadStatus
  <2>1. /\ Poll(nmiCycleLatch /\ ~InRaceWindow, FALSE)
        /\ ~nmiVbl' /\ race' = RaceAfterRead
    BY <1>2, Zenon DEF ReadStatus
  <2> DEFINE low == nmiCycleLatch /\ ~InRaceWindow
  <2>2. /\ nmiLevel' <=> ~low
        /\ edges' = IF low /\ nmiLevel THEN UpTo(MaxCount, edges + 1) ELSE edges
    BY <2>1, Zenon DEF Poll
  <2>3. low \in BOOLEAN
    BY Zenon
  <2>4. /\ low => nmiCycleLatch
        /\ nmiCycleLatch /\ ~InRaceWindow => low
        /\ InRaceWindow => ~low
    OBVIOUS
  <2>5. /\ race' = race \/ (race = "none" /\ InRaceWindow /\ race' \in {"before", "after"})
        /\ race' = "none" => ~InRaceWindow
    BY <2>1 DEF RaceAfterRead
  <2> HIDE DEF low
  <2>6. WITNESS low \in BOOLEAN
  <2>7. QED
    BY <2>1, <2>2, <2>4, <2>5, Zenon
<1>3. QED
  BY <1>1, <1>2

LEMMA PollNmi ==
  ASSUME TypeOK, NmiInv, NoRead \/ ReadStatus
  PROVE  NmiInv'
<1>1. PICK low \in BOOLEAN :
           /\ nmiLevel' <=> ~low
           /\ edges' = IF low /\ nmiLevel THEN UpTo(MaxCount, edges + 1) ELSE edges
           /\ low => nmiCycleLatch \/ nmiVbl
           /\ nmiVbl' => nmiVbl
           /\ enableNmi /\ nmiVbl' => low
           /\ race' = "none" /\ nmiCycleLatch => low
           /\ \/ race' = race
              \/ race = "none" /\ InRaceWindow /\ ~low /\ ~nmiVbl'
                   /\ race' \in {"before", "after"}
  BY PollSamples
<1>2. /\ step = 6 /\ step' = 1 /\ ~nmiCycleLatch'
      /\ UNCHANGED <<region, scanline, cycle, enableNmi, armed>>
  BY DEF NoRead, ReadStatus, Poll, frameVars
<1>3. DotsSincePoll = 4 /\ DotsSincePoll' = 0 /\ DotsIfSampled = 4 /\ DotsIfSampled' = 1
  BY <1>2 DEF DotsSincePoll, DotsIfSampled
<1> HIDE DEF DotsSincePoll, DotsIfSampled
<1>4. /\ region \in Regions /\ scanline \in Nat /\ cycle \in Nat /\ edges \in 0..MaxCount
      /\ NmiLine[region] \in Nat /\ PreRenderLine[region] \in Nat
      /\ 0 < NmiLine[region] /\ NmiLine[region] < PreRenderLine[region]
  BY FrameFacts DEF TypeOK
<1>5. InArmedVblank' <=> InArmedVblank
  BY <1>1, <1>2 DEF InArmedVblank, VblankLines
<1>6. InArmedVblank => scanline # NmiLine[region] \/ cycle >= 1
  BY <1>4 DEF InArmedVblank, VblankLines
(* Before the first sample of the vblank the beam is on its first dots.    *)
<1>7. ASSUME InArmedVblank, race = "none", edges = 0
      PROVE  scanline = NmiLine[region] /\ nmiCycleLatch /\ nmiLevel
  BY <1>7 DEF NmiInv, NotSampled
<1>8. ASSUME InArmedVblank, race = "none", edges # 0
      PROVE  /\ edges = 1 /\ ~InRaceWindow
             /\ ~nmiLevel \/ (~nmiCycleLatch /\ ~nmiVbl)
  BY <1>3, <1>4, <1>8 DEF NmiInv, Sampled, InRaceWindow
<1>9. ASSUME InArmedVblank, race # "none"
      PROVE  edges = 0 /\ ~low
  BY <1>1, <1>9, Zenon DEF NmiInv, TakenBack
<1>10. NotSampled'
  <2> SUFFICES ASSUME InArmedVblank', race' = "none", edges' = 0
               PROVE  FALSE
    BY DEF NotSampled
  <2>1. InArmedVblank /\ race = "none"
    BY <1>1, <1>5
  <2>2. CASE edges = 0
    <3>1. low /\ nmiLevel
      BY <1>1, <1>7, <2>1, <2>2, Zenon
    <3>2. QED
      BY <1>1, <2>2, <3>1 DEF UpTo, MaxCount
  <2>3. CASE edges # 0
    <3>1. edges = 1
      BY <1>8, <2>1, <2>3
    <3>2. QED
      BY <1>1, <3>1 DEF UpTo, MaxCount
  <2>4. QED
    BY <2>2, <2>3
<1>11. Sampled'
  <2> SUFFICES ASSUME InArmedVblank', race' = "none", edges' # 0
               PROVE  /\ edges' = 1
                      /\ ~nmiLevel' \/ (~nmiCycleLatch' /\ ~nmiVbl')
                      /\ scanline' = NmiLine[region'] => cycle' >= DotsIfSampled'
    BY DEF Sampled
  <2>1. InArmedVblank /\ race = "none"
    BY <1>1, <1>5
  <2>2. edges' = 1
    <3>1. CASE edges = 0
      BY <1>1, <3>1 DEF UpTo, MaxCount
    <3>2. CASE edges # 0
      <4>1. edges = 1 /\ ~(low /\ nmiLevel)
        BY <1>1, <1>8, <2>1, <3>2, Zenon
      <4>2. QED
        BY <1>1, <4>1
    <3>3. QED
      BY <3>1, <3>2
  <2>3. enableNmi
    BY <2>1, Zenon DEF NmiInv, ArmedEnabled, InArmedVblank
  <2>4. ~nmiLevel' \/ (~nmiCycleLatch' /\ ~nmiVbl')
    BY <1>1, <1>2, <2>3, Zenon
  <2>5. QED
    BY <1>2, <1>3, <1>4, <1>6, <2>1, <2>2, <2>4
<1>12. TakenBack'
  <2> SUFFICES ASSUME InArmedVblank', race' # "none"
               PROVE  edges' = 0 /\ ~nmiCycleLatch' /\ ~nmiVbl'
    BY DEF TakenBack
  <2>1. InArmedVblank
    BY <1>5
  <2>2. CASE race # "none"
    <3>1. ~nmiVbl
      BY <2>1, <2>2, Zenon DEF NmiInv, TakenBack
    <3>2. edges = 0 /\ ~low
      BY <1>9, <2>1, <2>2
    <3>3. QED
      BY <1>1, <1>2, <3>1, <3>2
  <2>3. CASE race = "none"
    <3>1. InRaceWindow /\ ~low /\ ~nmiVbl'
      BY <1>1, <2>3, Zenon
    <3>2. edges = 0
      BY <1>8, <2>1, <2>3, <3>1
    <3>3. QED
      BY <1>1, <1>2, <3>1, <3>2
  <2>4. QED
    BY <2>2, <2>3
<1>13. BeforeVblank' <=> BeforeVblank
  BY <1>2 DEF BeforeVblank, At
<1>14. LineReleased' /\ LatchReleased'
  BY <1>1, <1>2, <1>13 DEF NmiInv, LineReleased, LatchReleased
<1>15. LevelHigh'
  <2> SUFFICES ASSUME BeforeVblank PROVE nmiLevel'
    BY <1>13, Zenon DEF LevelHigh
  <2>1. ~nmiVbl /\ ~nmiCycleLatch
    BY Zenon DEF NmiInv, LineReleased, LatchReleased
  <2>2. QED
    BY <1>1, <2>1, Zenon
<1>16. ArmedEnabled'
  BY <1>2, Zenon DEF NmiInv, ArmedEnabled
<1>17. QED
  BY <1>10, <1>11, <1>12, <1>14, <1>15, <1>16 DEF NmiInv

LEMMA WriteNmi ==
  ASSUME TypeOK, NmiInv,
         \/ NoWrite
         \/ \E enable \in BOOLEAN : WriteCtrl(enable)
         \/ \E on \in BOOLEAN : WriteMask(on)
  PROVE  NmiInv'
<1>1. /\ step = 3 /\ step' = 4
      /\ UNCHANGED <<region, scanline, cycle, edges, race>>
  BY DEF NoWrite, WriteCtrl, WriteMask, frameVars, nmiHistory
<1>2. DotsSincePoll' = DotsSincePoll /\ DotsIfSampled' = DotsIfSampled
  BY <1>1 DEF DotsSincePoll, DotsIfSampled
<1> HIDE DEF DotsSincePoll, DotsIfSampled
<1>3. /\ nmiVbl' <=> nmiVbl
      /\ nmiLevel' <=> nmiLevel
      /\ nmiCycleLatch' => nmiCycleLatch
      /\ armed' => armed /\ enableNmi' /\ (nmiCycleLatch' <=> nmiCycleLatch)
  <2>1. CASE NoWrite \/ \E on \in BOOLEAN : WriteMask(on)
    <3>1. UNCHANGED <<nmiVbl, nmiLevel, nmiCycleLatch, armed, enableNmi>>
      BY <2>1 DEF NoWrite, WriteMask, cpuVars, flagVars, nmiHistory
    <3>2. armed => enableNmi
      BY Zenon DEF NmiInv, ArmedEnabled
    <3>3. QED
      BY <3>1, <3>2
  <2>2. ASSUME NEW enable \in BOOLEAN, WriteCtrl(enable)
        PROVE  /\ nmiVbl' <=> nmiVbl
               /\ nmiLevel' <=> nmiLevel
               /\ nmiCycleLatch' => nmiCycleLatch
               /\ armed' => armed /\ enableNmi' /\ (nmiCycleLatch' <=> nmiCycleLatch)
    BY <2>2, Zenon DEF WriteCtrl
  <2>3. QED
    BY <2>1, <2>2
<1>4. InArmedVblank' => InArmedVblank
  BY <1>1, <1>3 DEF InArmedVblank, VblankLines
<1>5. BeforeVblank' <=> BeforeVblank
  BY <1>1 DEF BeforeVblank, At
<1>6. InArmedVblank' => (nmiCycleLatch' <=> nmiCycleLatch)
  BY <1>3, Zenon DEF InArmedVblank
<1>7. NotSampled'
  BY <1>1, <1>2, <1>3, <1>4, <1>6 DEF NmiInv, NotSampled
<1>8. Sampled'
  BY <1>1, <1>2, <1>3, <1>4 DEF NmiInv, Sampled
<1>9. TakenBack'
  BY <1>1, <1>3, <1>4 DEF NmiInv, TakenBack
<1>10. LineReleased' /\ LatchReleased' /\ LevelHigh'
  BY <1>1, <1>2, <1>3, <1>5 DEF NmiInv, LineReleased, LatchReleased, LevelHigh
<1>11. ArmedEnabled'
  BY <1>3, Zenon DEF ArmedEnabled
<1>12. QED
  BY <1>7, <1>8, <1>9, <1>10, <1>11 DEF NmiInv

(* A machine in which no vblank has begun and nothing holds the line.      *)
LEMMA ResetNmi ==
  ASSUME region \in Regions, scanline = PreRenderLine[region], cycle = 0,
         ~nmiVbl, ~nmiCycleLatch, race = "off", ~armed, nmiLevel
  PROVE  NmiInv
<1>1. ~BeforeVblank
  BY FrameFacts DEF BeforeVblank, At
<1>2. ~InArmedVblank
  BY Zenon DEF InArmedVblank
<1>3. NotSampled /\ Sampled /\ TakenBack
  BY <1>2, Zenon DEF NotSampled, Sampled, TakenBack
<1>4. LineReleased /\ LatchReleased /\ LevelHigh /\ ArmedEnabled
  BY <1>1, Zenon DEF LineReleased, LatchReleased, LevelHigh, ArmedEnabled
<1>5. QED
  BY <1>3, <1>4 DEF NmiInv

LEMMA InitNmi == Init => NmiInv
BY ResetNmi DEF Init

LEMMA NmiStep == TypeOK /\ NmiInv /\ [Next]_vars => NmiInv'
<1> SUFFICES ASSUME TypeOK, NmiInv, [Next]_vars PROVE NmiInv'
  OBVIOUS
<1>1. CASE Dot
  BY <1>1, DotNmi
<1>2. CASE NoRead \/ ReadStatus
  BY <1>2, PollNmi
<1>3. CASE \/ NoWrite
           \/ \E enable \in BOOLEAN : WriteCtrl(enable)
           \/ \E on \in BOOLEAN : WriteMask(on)
  BY <1>3, WriteNmi
<1>4. CASE Reset \/ SwitchRegion
  <2>1. region' \in Regions /\ ResetMachine
    BY <1>4 DEF Reset, SwitchRegion, TypeOK
  <2>2. /\ scanline' = PreRenderLine[region'] /\ cycle' = 0
        /\ ~nmiVbl' /\ ~nmiCycleLatch' /\ race' = "off" /\ ~armed' /\ nmiLevel'
    BY <2>1 DEF ResetMachine
  <2>3. ~BeforeVblank'
    BY <2>1, <2>2, FrameFacts DEF BeforeVblank, At
  <2>4. ~InArmedVblank'
    BY <2>2, Zenon DEF InArmedVblank
  <2>5. NotSampled' /\ Sampled' /\ TakenBack'
    BY <2>4, Zenon DEF NotSampled, Sampled, TakenBack
  <2>6. LineReleased' /\ LatchReleased' /\ LevelHigh' /\ ArmedEnabled'
    BY <2>2, <2>3, Zenon DEF LineReleased, LatchReleased, LevelHigh, ArmedEnabled
  <2>7. QED
    BY <2>5, <2>6 DEF NmiInv
<1>5. CASE UNCHANGED vars
  BY <1>5 DEF vars, cpuVars, frameVars, flagVars, nmiHistory, NmiInv, NotSampled, Sampled,
     TakenBack, LineReleased, LatchReleased, LevelHigh, ArmedEnabled, InArmedVblank,
     VblankLines, BeforeVblank, DotsSincePoll, DotsIfSampled, At
<1>6. QED
  BY <1>1, <1>2, <1>3, <1>4, <1>5 DEF Next, Clock

(* For any number of dots and lines, and wherever the CPU's cycle falls    *)
(* among the dots, a vblank for which NMI was enabled before it began is   *)
(* one edge to the CPU, and none if $2002 was read on the flag's dots.     *)
THEOREM OneNMIPerFrame == Spec => []OneNMIEachFrame
<1>1. TypeOK /\ NmiInv => OneNMIEachFrame
  <2> SUFFICES ASSUME TypeOK, NmiInv, InVblank, armed, step = 1
               PROVE  edges = (IF race = "none" THEN 1 ELSE 0)
    BY DEF OneNMIEachFrame
  <2>1. InArmedVblank
    <3>1. cycle > 1 => cycle > 0
      BY DEF TypeOK
    <3>2. QED
      BY <3>1 DEF InVblank, InArmedVblank, VblankLines
  <2>2. QED
    BY <2>1 DEF NmiInv, NotSampled, Sampled, TakenBack
<1>2. QED
  BY <1>1, InitType, InitNmi, TypeStep, NmiStep, PTL DEF Spec

-----------------------------------------------------------------------------
(* The short frame.  What the pin holds while the skip is decided but not  *)
(* yet made is the parity of the frame, and a parity that every frame with *)
(* rendering on turns over tells which of the last frames were short.      *)
DecidedDots ==
  region = "NTSC" /\ scanline = PreRenderLine[region] /\ cycle \in {Dots - 3, Dots - 2}

PinDecided ==
  DecidedDots =>
    /\ oddFrameSkip = [current |-> FALSE, target |-> oddFrameSkip.target,
                       countdown |-> Dots - 1 - cycle]
    /\ oddFrameSkip.target => frameOdd
    /\ rendered > 0 /\ frameOdd => oddFrameSkip.target
PinUndecided == ~DecidedDots => oddFrameSkip = PinOf(FALSE)
OddWasSkipped ==
  region = "NTSC" /\ At(PreRenderLine, Dots - 1) /\ rendered > 0 => ~frameOdd
RenderedOn == rendered > 0 => rendering
ShortIsEven == short => ~frameOdd /\ region = "NTSC" /\ ~prevShort
LastTellsParity == region = "NTSC" /\ rendered >= 2 => (short <=> ~frameOdd)
FormerTellsParity == region = "NTSC" /\ rendered >= 3 => (prevShort <=> frameOdd)

SkipInv ==
  /\ PinDecided /\ PinUndecided /\ OddWasSkipped /\ RenderedOn
  /\ ShortIsEven /\ LastTellsParity /\ FormerTellsParity

(* What a dot makes of the pin.                                            *)
LEMMA SkipPinIs ==
  ASSUME TypeOK, SkipInv
  PROVE  /\ region = "NTSC" /\ At(PreRenderLine, Dots - 4) =>
              SkipPin = [current |-> FALSE, target |-> (frameOdd /\ rendering),
                         countdown |-> 2]
         /\ region = "NTSC" /\ At(PreRenderLine, Dots - 3) =>
              SkipPin = [current |-> FALSE, target |-> oddFrameSkip.target,
                         countdown |-> 1]
         /\ region = "NTSC" /\ At(PreRenderLine, Dots - 2) =>
              SkipPin = PinOf(oddFrameSkip.target)
         /\ ~(/\ region = "NTSC" /\ scanline = PreRenderLine[region]
              /\ cycle \in {Dots - 4, Dots - 3, Dots - 2}) => SkipPin = PinOf(FALSE)
<1> DEFINE decided == frameOdd /\ rendering
           pin == oddFrameSkip
<1>1. /\ region = "NTSC" /\ At(PreRenderLine, Dots - 4) =>
           SkipPin = PinTick(PinSet(pin, decided, 3))
      /\ ~(region = "NTSC" /\ At(PreRenderLine, Dots - 4)) => SkipPin = PinTick(pin)
  BY DEF SkipPin
<1>2. cycle \in Nat /\ Dots \in Nat /\ Dots > 5
  BY FrameFacts DEF TypeOK
<1> HIDE DEF decided
<1>3. ASSUME region = "NTSC", At(PreRenderLine, Dots - 4)
      PROVE  SkipPin = [current |-> FALSE, target |-> decided, countdown |-> 2]
  <2>1. ~DecidedDots
    BY <1>2, <1>3 DEF DecidedDots, At
  <2>2. pin = PinOf(FALSE)
    BY <2>1, Zenon DEF SkipInv, PinUndecided
  <2>3. PinSet(pin, decided, 3) = [current |-> FALSE, target |-> decided, countdown |-> 3]
    BY <2>2, PinCounts, Zenon
  <2>4. PinTick([current |-> FALSE, target |-> decided, countdown |-> 3])
          = [current |-> FALSE, target |-> decided, countdown |-> 2]
    BY PinCounts, Zenon
  <2>5. QED
    BY <1>1, <1>3, <2>3, <2>4, Zenon
<1>4. ASSUME region = "NTSC", At(PreRenderLine, Dots - 3)
      PROVE  SkipPin = [current |-> FALSE, target |-> pin.target, countdown |-> 1]
  <2>1. DecidedDots /\ Dots - 1 - cycle = 2 /\ ~At(PreRenderLine, Dots - 4)
    BY <1>2, <1>4 DEF DecidedDots, At
  <2>2. pin = [current |-> FALSE, target |-> pin.target, countdown |-> 2]
    BY <2>1 DEF SkipInv, PinDecided
  <2> DEFINE t == pin.target
  <2> HIDE DEF t
  <2>3. PinTick([current |-> FALSE, target |-> t, countdown |-> 2])
          = [current |-> FALSE, target |-> t, countdown |-> 1]
    BY PinCounts, Zenon
  <2>4. PinTick(pin) = [current |-> FALSE, target |-> t, countdown |-> 1]
    BY <2>2, <2>3, Zenon DEF t
  <2>5. QED
    BY <1>1, <2>1, <2>4, Zenon DEF t
<1>5. ASSUME region = "NTSC", At(PreRenderLine, Dots - 2)
      PROVE  SkipPin = PinOf(pin.target)
  <2>1. DecidedDots /\ Dots - 1 - cycle = 1 /\ ~At(PreRenderLine, Dots - 4)
    BY <1>2, <1>5 DEF DecidedDots, At
  <2>2. pin = [current |-> FALSE, target |-> pin.target, countdown |-> 1]
    BY <2>1 DEF SkipInv, PinDecided
  <2> DEFINE t == pin.target
  <2> HIDE DEF t
  <2>3. PinTick([current |-> FALSE, target |-> t, countdown |-> 1]) = PinOf(t)
    BY PinCounts, Zenon
  <2>4. PinTick(pin) = PinOf(t)
    BY <2>2, <2>3, Zenon DEF t
  <2>5. QED
    BY <1>1, <2>1, <2>4, Zenon DEF t
<1>6. ASSUME ~(/\ region = "NTSC" /\ scanline = PreRenderLine[region]
               /\ cycle \in {Dots - 4, Dots - 3, Dots - 2})
      PROVE  SkipPin = PinOf(FALSE)
  <2>1. ~DecidedDots /\ ~(region = "NTSC" /\ At(PreRenderLine, Dots - 4))
    BY <1>6 DEF DecidedDots, At
  <2>2. pin = PinOf(FALSE)
    BY <2>1, Zenon DEF SkipInv, PinUndecided
  <2>3. PinTick(PinOf(FALSE)) = PinOf(FALSE)
    BY PinCounts
  <2>4. QED
    BY <1>1, <2>1, <2>2, <2>3
<1>7. QED
  BY <1>3, <1>4, <1>5, <1>6 DEF decided

(* A frame ends on the dot that is skipped, or on the last one; on NTSC    *)
(* with rendering on, which of the two its parity tells.                   *)
LEMMA FrameEndTellsParity ==
  ASSUME TypeOK, SkipInv, FrameEnds
  PROVE  /\ SkipsDot => frameOdd /\ region = "NTSC"
         /\ region = "NTSC" /\ rendered > 0 => (SkipsDot <=> frameOdd)
<1>1. /\ cycle \in 0..Dots-1 /\ Dots \in Nat /\ Dots > 5
      /\ region \in Regions /\ scanline \in 0..TotalLines[region]-1
      /\ PreRenderLine[region] \in Nat /\ PreRenderLine[region] + 1 = TotalLines[region]
  BY FrameFacts DEF TypeOK
<1>2. CASE SkipsDot
  <2>1. At(PreRenderLine, Dots - 2) /\ SkipPin.current
    BY <1>2, Zenon DEF SkipsDot
  <2>2. region = "NTSC"
    <3>1. region # "NTSC" => SkipPin = PinOf(FALSE)
      BY SkipPinIs
    <3>2. PinOf(FALSE).current = FALSE
      BY DEF PinOf
    <3>3. QED
      BY <2>1, <3>1, <3>2
  <2>3. oddFrameSkip.target
    <3>1. SkipPin = PinOf(oddFrameSkip.target)
      BY <2>1, <2>2, SkipPinIs
    <3>2. PinOf(oddFrameSkip.target).current = oddFrameSkip.target
      BY DEF PinOf
    <3>3. QED
      BY <2>1, <3>1, <3>2
  <2>4. DecidedDots
    BY <2>1, <2>2 DEF DecidedDots, At
  <2>5. frameOdd
    BY <2>3, <2>4, Zenon DEF SkipInv, PinDecided
  <2>6. QED
    BY <1>2, <2>2, <2>5
<1>3. CASE ~SkipsDot
  <2>1. At(PreRenderLine, Dots - 1)
    BY <1>1, <1>3 DEF FrameEnds, LineEnds, At
  <2>2. QED
    BY <1>3, <2>1, Zenon DEF SkipInv, OddWasSkipped
<1>4. QED
  BY <1>2, <1>3

LEMMA DotSkip ==
  ASSUME TypeOK, SkipInv, Dot
  PROVE  SkipInv'
<1>1. /\ cycle \in 0..Dots-1 /\ Dots \in Nat /\ Dots > 5
      /\ region \in Regions /\ scanline \in 0..TotalLines[region]-1
      /\ PreRenderLine[region] \in Nat /\ PreRenderLine[region] + 1 = TotalLines[region]
      /\ PreRenderLine[region] > 0 /\ rendered \in 0..MaxRendered
  BY FrameFacts DEF TypeOK
<1>2. Advance /\ region' = region /\ (rendering' <=> rendering)
  BY DEF Dot
<1>3. RenderedOn'
  <2>1. CASE FrameEnds /\ rendering
    BY <1>2, <2>1, Zenon DEF RenderedOn
  <2>2. CASE ~(FrameEnds /\ rendering)
    <3>1. rendered' = rendered
      BY <1>2, <2>2, Zenon DEF Advance
    <3>2. QED
      BY <1>2, <3>1, Zenon DEF SkipInv, RenderedOn
  <2>3. QED
    BY <2>1, <2>2
<1>4. CASE FrameEnds
  <2>1. /\ cycle' = 0 /\ scanline' = 0
        /\ frameOdd' <=> ~frameOdd
        /\ short' <=> SkipsDot
        /\ prevShort' <=> short
        /\ rendered' = IF rendering THEN UpTo(MaxRendered, rendered + 1) ELSE rendered
    <3>1. LineEnds
      BY <1>4, Zenon DEF FrameEnds, LineEnds
    <3>2. QED
      BY <1>2, <1>4, <3>1, Zenon DEF Advance, FrameOddAfter
  <2>2. ~DecidedDots' /\ ~At(PreRenderLine, Dots - 1)'
    BY <1>1, <1>2, <2>1 DEF DecidedDots, At
  <2>3. oddFrameSkip' = PinOf(FALSE)
    <3>1. CASE SkipsDot
      BY <1>2, <3>1 DEF Advance, PinForce
    <3>2. CASE ~SkipsDot
      <4>1. ~(cycle \in {Dots - 4, Dots - 3, Dots - 2})
        BY <1>1, <1>4, <3>2 DEF FrameEnds, LineEnds
      <4>2. SkipPin = PinOf(FALSE)
        BY <4>1, SkipPinIs
      <4>3. QED
        BY <1>2, <3>2, <4>2 DEF Advance
    <3>3. QED
      BY <3>1, <3>2
  <2>4. PinDecided' /\ PinUndecided' /\ OddWasSkipped'
    BY <2>2, <2>3, Zenon DEF PinDecided, PinUndecided, OddWasSkipped
  <2>5. ShortIsEven'
    BY <1>2, <1>4, <2>1, FrameEndTellsParity, Zenon DEF SkipInv, ShortIsEven
  <2>6. /\ rendered' >= 2 => rendered > 0
        /\ rendered' >= 3 => rendered >= 2
    BY <1>1, <2>1 DEF UpTo, MaxRendered
  <2>7. LastTellsParity'
    BY <1>2, <1>4, <2>1, <2>6, FrameEndTellsParity, Zenon DEF LastTellsParity
  <2>8. FormerTellsParity'
    BY <1>2, <2>1, <2>6, Zenon DEF SkipInv, LastTellsParity, FormerTellsParity
  <2>9. QED
    BY <1>3, <2>4, <2>5, <2>7, <2>8 DEF SkipInv
<1>5. CASE ~FrameEnds
  <2>1. /\ rendered' = rendered
        /\ frameOdd' <=> frameOdd
        /\ short' <=> short
        /\ prevShort' <=> prevShort
        /\ oddFrameSkip' = SkipPin
    <3>1. ~SkipsDot
      BY <1>5, Zenon DEF FrameEnds
    <3>2. UNCHANGED <<short, prevShort>>
      BY <1>2, <1>5, Zenon DEF Advance
    <3>3. QED
      BY <1>2, <1>5, <3>1, <3>2, Zenon DEF Advance, FrameOddAfter
  <2>2. /\ ~LineEnds => scanline' = scanline /\ cycle' = cycle + 1
        /\ LineEnds => cycle' = 0 /\ cycle = Dots - 1
    BY <1>1, <1>2, <1>5 DEF Advance, FrameEnds, LineEnds
  <2>3. LineEnds <=> cycle = Dots - 1
    BY <1>1, <1>5 DEF FrameEnds, LineEnds
  <2>4. ShortIsEven' /\ LastTellsParity' /\ FormerTellsParity'
    BY <1>2, <2>1, Zenon DEF SkipInv, ShortIsEven, LastTellsParity, FormerTellsParity
  <2>5. PinDecided'
    <3> SUFFICES ASSUME DecidedDots'
                 PROVE  /\ oddFrameSkip' = [current |-> FALSE,
                                            target |-> oddFrameSkip'.target,
                                            countdown |-> Dots - 1 - cycle']
                        /\ oddFrameSkip'.target => frameOdd
                        /\ rendered > 0 /\ frameOdd => oddFrameSkip'.target
      BY <2>1, Zenon DEF PinDecided
    <3>1. /\ region = "NTSC" /\ scanline = PreRenderLine[region] /\ cycle' = cycle + 1
          /\ cycle \in {Dots - 4, Dots - 3}
      BY <1>1, <1>2, <2>2 DEF DecidedDots
    <3>2. CASE cycle = Dots - 4
      <4> DEFINE decided == frameOdd /\ rendering
      <4>1. oddFrameSkip' = [current |-> FALSE, target |-> decided, countdown |-> 2]
        BY <2>1, <3>1, <3>2, SkipPinIs DEF At
      <4>2. rendered > 0 => rendering
        BY Zenon DEF SkipInv, RenderedOn
      <4>3. (decided => frameOdd) /\ (rendered > 0 /\ frameOdd => decided)
        BY <4>2
      <4> HIDE DEF decided
      <4>4. oddFrameSkip'.target = decided /\ Dots - 1 - cycle' = 2
        BY <1>1, <3>1, <3>2, <4>1
      <4>5. QED
        BY <4>1, <4>3, <4>4
    <3>3. CASE cycle = Dots - 3
      <4> DEFINE t == oddFrameSkip.target
      <4>1. oddFrameSkip' = [current |-> FALSE, target |-> t, countdown |-> 1]
        BY <2>1, <3>1, <3>3, SkipPinIs DEF At
      <4>2. DecidedDots
        BY <3>1, <3>3 DEF DecidedDots
      <4>3. (t => frameOdd) /\ (rendered > 0 /\ frameOdd => t)
        BY <4>2, Zenon DEF SkipInv, PinDecided
      <4> HIDE DEF t
      <4>4. oddFrameSkip'.target = t /\ Dots - 1 - cycle' = 1
        BY <1>1, <3>1, <3>3, <4>1
      <4>5. QED
        BY <4>1, <4>3, <4>4
    <3>4. QED
      BY <3>1, <3>2, <3>3
  <2>6. PinUndecided'
    <3> SUFFICES ASSUME ~DecidedDots' PROVE SkipPin = PinOf(FALSE)
      BY <2>1, Zenon DEF PinUndecided
    <3>1. CASE ~(region = "NTSC" /\ At(PreRenderLine, Dots - 2))
      <4>1. ~(/\ region = "NTSC" /\ scanline = PreRenderLine[region]
              /\ cycle \in {Dots - 4, Dots - 3, Dots - 2})
        BY <1>1, <1>2, <2>2, <2>3, <3>1 DEF DecidedDots, At
      <4>2. QED
        BY <4>1, SkipPinIs
    <3>2. CASE region = "NTSC" /\ At(PreRenderLine, Dots - 2)
      <4>1. SkipPin = PinOf(oddFrameSkip.target)
        BY <3>2, SkipPinIs
      <4>2. ~SkipPin.current
        BY <1>5, <3>2, Zenon DEF FrameEnds, SkipsDot
      <4>3. oddFrameSkip.target \in BOOLEAN
        BY PinFields, TypeParts DEF PinType
      <4> DEFINE t == oddFrameSkip.target
      <4>4. PinOf(t).current = t
        BY DEF PinOf
      <4> HIDE DEF t
      <4>5. t = FALSE
        BY <4>1, <4>2, <4>3, <4>4, Zenon DEF t
      <4>6. QED
        BY <4>1, <4>5 DEF t
    <3>3. QED
      BY <3>1, <3>2
  <2>7. OddWasSkipped'
    <3> SUFFICES ASSUME region = "NTSC", At(PreRenderLine, Dots - 1)', rendered > 0
                 PROVE  ~frameOdd
      BY <1>2, <2>1, Zenon DEF OddWasSkipped
    <3>1. At(PreRenderLine, Dots - 2)
      BY <1>1, <1>2, <2>2 DEF At
    <3>2. DecidedDots
      BY <3>1 DEF DecidedDots, At
    <3>3. ~SkipPin.current
      BY <1>5, <3>1, Zenon DEF FrameEnds, SkipsDot
    <3>4. SkipPin.current = oddFrameSkip.target
      BY <3>1, SkipPinIs DEF PinOf
    <3>5. QED
      BY <3>2, <3>3, <3>4, Zenon DEF SkipInv, PinDecided
  <2>8. QED
    BY <1>3, <2>4, <2>5, <2>6, <2>7 DEF SkipInv
<1>6. QED
  BY <1>4, <1>5

(* Turning rendering off starts the count again.                           *)
LEMMA MaskSkip ==
  ASSUME TypeOK, SkipInv, NEW on \in BOOLEAN, WriteMask(on)
  PROVE  SkipInv'
<1>1. UNCHANGED <<region, scanline, cycle, frameOdd, oddFrameSkip, short, prevShort>>
  BY DEF WriteMask, frameVars
<1>2. /\ rendered' > 0 => on /\ rendered' = rendered
      /\ rendered' >= 2 => rendered' = rendered
      /\ rendered' >= 3 => rendered' = rendered
  BY DEF WriteMask, TypeOK
<1>3. rendering' <=> on
  BY Zenon DEF WriteMask
<1>4. RenderedOn'
  BY <1>2, <1>3, Zenon DEF RenderedOn
<1>5. DecidedDots' <=> DecidedDots
  BY <1>1 DEF DecidedDots
<1>6. PinDecided' /\ PinUndecided'
  BY <1>1, <1>2, <1>5 DEF SkipInv, PinDecided, PinUndecided
<1>7. OddWasSkipped' /\ ShortIsEven' /\ LastTellsParity' /\ FormerTellsParity'
  BY <1>1, <1>2 DEF SkipInv, OddWasSkipped, ShortIsEven, LastTellsParity,
     FormerTellsParity, At
<1>8. QED
  BY <1>4, <1>6, <1>7 DEF SkipInv

LEMMA SkipStep == TypeOK /\ SkipInv /\ [Next]_vars => SkipInv'
<1> SUFFICES ASSUME TypeOK, SkipInv, [Next]_vars PROVE SkipInv'
  OBVIOUS
<1>1. CASE Dot
  BY <1>1, DotSkip
<1>2. CASE \E on \in BOOLEAN : WriteMask(on)
  BY <1>2, MaskSkip
<1>3. CASE Reset \/ SwitchRegion
  <2>1. region' \in Regions /\ ResetMachine
    BY <1>3 DEF Reset, SwitchRegion, TypeOK
  <2>2. /\ cycle' = 0 /\ oddFrameSkip' = PinOf(FALSE)
        /\ rendered' = 0 /\ ~short' /\ ~prevShort'
    BY <2>1 DEF ResetMachine
  <2>3. ~DecidedDots' /\ ~At(PreRenderLine, Dots - 1)'
    BY <2>2, FrameFacts DEF DecidedDots, At
  <2>4. PinDecided' /\ PinUndecided' /\ OddWasSkipped' /\ ShortIsEven'
    BY <2>2, <2>3, Zenon DEF PinDecided, PinUndecided, OddWasSkipped, ShortIsEven
  <2>5. RenderedOn' /\ LastTellsParity' /\ FormerTellsParity'
    BY <2>2 DEF RenderedOn, LastTellsParity, FormerTellsParity
  <2>6. QED
    BY <2>4, <2>5 DEF SkipInv
<1>4. CASE \/ NoWrite
           \/ \E enable \in BOOLEAN : WriteCtrl(enable)
           \/ NoRead \/ ReadStatus
           \/ UNCHANGED vars
  <2>1. UNCHANGED <<region, scanline, cycle, frameOdd, oddFrameSkip, rendering, rendered,
                    short, prevShort>>
    BY <1>4 DEF NoWrite, WriteCtrl, NoRead, ReadStatus, Poll, vars, frameVars, frameHistory
  <2>2. QED
    BY <2>1 DEF SkipInv, PinDecided, PinUndecided, DecidedDots, OddWasSkipped, RenderedOn,
       ShortIsEven, LastTellsParity, FormerTellsParity, At
<1>5. QED
  BY <1>1, <1>2, <1>3, <1>4 DEF Next, Clock

LEMMA InitSkip == Init => SkipInv
<1> SUFFICES ASSUME Init PROVE SkipInv
  OBVIOUS
<1>1. cycle = 0 /\ oddFrameSkip = PinOf(FALSE) /\ rendered = 0 /\ ~short /\ ~prevShort
  BY DEF Init
<1>2. ~DecidedDots /\ ~At(PreRenderLine, Dots - 1)
  BY <1>1, FrameFacts DEF DecidedDots, At
<1>3. PinDecided /\ PinUndecided /\ OddWasSkipped /\ ShortIsEven
  BY <1>1, <1>2, Zenon DEF PinDecided, PinUndecided, OddWasSkipped, ShortIsEven
<1>4. RenderedOn /\ LastTellsParity /\ FormerTellsParity
  BY <1>1 DEF RenderedOn, LastTellsParity, FormerTellsParity
<1>5. QED
  BY <1>3, <1>4 DEF SkipInv

(* However long the line and whenever rendering is switched, no two frames *)
(* in a row are a dot short, and every other one is while it stays on.     *)
THEOREM ShortFramesAlternate == Spec => []EveryOtherFrameShort
<1>1. TypeOK /\ SkipInv => EveryOtherFrameShort
  <2> SUFFICES ASSUME TypeOK, SkipInv PROVE EveryOtherFrameShort
    OBVIOUS
  <2>1. short => region = "NTSC" /\ ~prevShort
    BY Zenon DEF SkipInv, ShortIsEven
  <2>2. ASSUME region = "NTSC", rendered = MaxRendered
        PROVE  short # prevShort
    <3>1. (short <=> ~frameOdd) /\ (prevShort <=> frameOdd)
      BY <2>2 DEF SkipInv, LastTellsParity, FormerTellsParity, MaxRendered
    <3>2. ~(short <=> prevShort)
      BY <3>1, Zenon
    <3> SUFFICES ASSUME short = prevShort PROVE FALSE
      OBVIOUS
    <3>3. short <=> prevShort
      BY Zenon
    <3>4. QED
      BY <3>2, <3>3
  <2>3. QED
    BY <2>1, <2>2 DEF EveryOtherFrameShort
<1>2. QED
  BY <1>1, InitType, InitSkip, TypeStep, SkipStep, PTL DEF Spec

-----------------------------------------------------------------------------
(* The search for sprites. *)

Cells == (0..Bytes) \X BOOLEAN
Searches ==
  [oamAddr : 0..Bytes - 1, buffer : Cells, sec : [0..4 * Slots - 1 -> Cells],
   secAddr : 0..4 * Slots - 1, start : 0..Bytes - 1, copying : 0..3, bug : 0..3,
   addrOver : BOOLEAN, secOver : BOOLEAN, ranged : BOOLEAN]
Lines == {"prerender", "visible", "idle", "refresh"}

EvalTypes ==
  /\ line \in Lines /\ dot \in 0..LastDot /\ pal \in BOOLEAN
  /\ mask \in BOOLEAN /\ enabling \in Seq(BOOLEAN) /\ Len(enabling) = 4
  /\ renderingActive \in BOOLEAN
  /\ oam \in [0..Bytes - 1 -> 0..Bytes - 1]
  /\ e \in Searches
  /\ sprites \in Seq([1..4 -> Cells])
  /\ corruption \in {NoRow} \cup 0..4 * Slots - 1
  /\ overflowDot \in {NoDot} \cup Nat /\ overflow \in BOOLEAN
  /\ clean \in BOOLEAN /\ changes \in 0..MaxChanges

(* The sizes as numbers.                                                   *)
LEMMA EvalSizes ==
  /\ Sprites \in Nat /\ Slots \in Nat /\ EvalDots \in Nat /\ IdleDots \in Nat
  /\ 0 < Slots /\ Slots <= Sprites /\ MaxChanges \in Nat /\ IdleDots > 1
  /\ EvalDots % 2 = 0 /\ EvalDots >= 6 * Slots + 2 * Sprites
  /\ Bytes = 4 * Sprites /\ ClearEnd = 8 * Slots
  /\ EvalEnd = 8 * Slots + EvalDots /\ FetchEnd = 16 * Slots + EvalDots
  /\ LastDot = 16 * Slots + EvalDots + IdleDots
  /\ Starts \subseteq 0..Bytes - 1
BY SizeAssumption DEF SizeAssumption, Bytes, ClearEnd, EvalEnd, FetchEnd, LastDot

(* The steps of an address stay in OAM, and in the secondary OAM.          *)
LEMMA AddressSteps ==
  ASSUME NEW a \in 0..Bytes - 1
  PROVE  /\ (a + 1) % Bytes \in 0..Bytes - 1
         /\ (4 * (a \div 4 + 1)) % Bytes \in 0..Bytes - 1
         /\ 4 * (a \div 4) \in 0..Bytes - 1
         /\ (4 * (a \div 4 + 1)) % Bytes =
              IF a \div 4 + 1 = Sprites THEN 0 ELSE 4 * (a \div 4 + 1)
         /\ ((4 * (a \div 4 + 1)) % Bytes) + ((a + 1) % 4) \in 0..Bytes - 1
<1>1. a \div 4 \in 0..Sprites - 1
  BY EvalSizes
<1>2. PICK q \in 0..Sprites - 1 : q = a \div 4
  BY <1>1
<1>3. (4 * (q + 1)) % Bytes = IF q + 1 = Sprites THEN 0 ELSE 4 * (q + 1)
  BY EvalSizes
<1>4. 4 * q <= a /\ (a + 1) % 4 \in 0..3
  BY <1>2
<1>5. (a + 1) % Bytes \in 0..Bytes - 1
  BY EvalSizes
<1>6. QED
  BY <1>2, <1>3, <1>4, <1>5, EvalSizes

LEMMA SecAddressSteps ==
  ASSUME NEW a \in 0..4 * Slots - 1
  PROVE  /\ (a + 1) % (4 * Slots) \in 0..4 * Slots - 1
         /\ (a + 1) % (4 * Slots) = IF a + 1 = 4 * Slots THEN 0 ELSE a + 1
         /\ (4 * ((a + 3) \div 4)) % (4 * Slots) \in 0..4 * Slots - 1
<1>1. (a + 1) % (4 * Slots) = IF a + 1 = 4 * Slots THEN 0 ELSE a + 1
  BY EvalSizes
<1>2. PICK q \in Nat : q = 4 * ((a + 3) \div 4)
  BY EvalSizes
<1>3. q % (4 * Slots) \in 0..4 * Slots - 1
  BY <1>2, EvalSizes
<1>4. QED
  BY <1>1, <1>2, <1>3, EvalSizes

(* A corrupted row is a copy of the first, also at the end of OAM.         *)
LEMMA CorruptedType ==
  ASSUME EvalTypes, NEW row
  PROVE  Corrupted(row) \in [0..Bytes - 1 -> 0..Bytes - 1]
<1>1. RowBytes \in Nat /\ 0 < RowBytes /\ RowBytes <= Sprites
  <2>1. Sprites \div Slots \in Nat /\ 0 < Sprites \div Slots /\ Sprites \div Slots <= Sprites
    BY EvalSizes
  <2>2. QED
    BY <2>1 DEF RowBytes
<1>2. \A a \in 0..Bytes - 1 : a % RowBytes \in 0..Bytes - 1
  BY <1>1, EvalSizes
<1>3. DOMAIN oam = 0..Bytes - 1 /\ \A a \in 0..Bytes - 1 : oam[a] \in 0..Bytes - 1
  BY DEF EvalTypes
<1>4. QED
  BY <1>2, <1>3 DEF Corrupted

(* So is OAM as the dot reads it.                                          *)
LEMMA MemoryType ==
  ASSUME EvalTypes
  PROVE  Memory \in [0..Bytes - 1 -> 0..Bytes - 1]
<1>1. oam \in [0..Bytes - 1 -> 0..Bytes - 1]
  BY DEF EvalTypes
<1>2. QED
  BY <1>1, CorruptedType DEF Memory

(* Without a row waiting, the dot reads OAM as it is.                      *)
LEMMA MemoryUncorrupted == corruption = NoRow => Memory = oam
BY DEF Memory, Corrupts, RowAfter

(* What is read from OAM is a byte.                                        *)
LEMMA CellTypes ==
  ASSUME EvalTypes
  PROVE  /\ Fill \in Cells
         /\ \A a \in 0..Bytes - 1 : Seen(a) \in Cells /\ Stored(a) \in Cells
<1>1. \A a \in 0..Bytes - 1 : Memory[a] \in 0..Bytes
  <2>1. \A a \in 0..Bytes - 1 : Memory[a] \in 0..Bytes - 1
    BY MemoryType
  <2>2. Bytes \in Nat
    BY EvalSizes
  <2>3. QED
    BY <2>1, <2>2
<1>2. Bytes \in 0..Bytes
  BY EvalSizes
<1>3. \A b : (b % 4 = 2) \in BOOLEAN
  OBVIOUS
<1>4. QED
  BY <1>1, <1>2, <1>3 DEF Fill, Seen, Stored, Cells

(* Both address registers may be 0.                                        *)
LEMMA ZeroInRange == 0 \in 0..4 * Slots - 1 /\ 0 \in 0..Bytes - 1
BY EvalSizes

(* The steps of the machine keep the types of its registers.               *)
LEMMA SecNextType ==
  ASSUME NEW x \in Searches PROVE SecNext(x) \in Searches
BY SecAddressSteps DEF SecNext, Searches

LEMMA SecShownType ==
  ASSUME NEW x \in Searches PROVE SecShown(x) \in Searches
BY DEF SecShown, Searches

LEMMA NextSpriteType ==
  ASSUME NEW x \in Searches PROVE NextSprite(x) \in Searches
BY AddressSteps DEF NextSprite, Searches

LEMMA EndAtZeroType ==
  ASSUME NEW x \in Searches PROVE EndAtZero(x) \in Searches
BY DEF EndAtZero, Searches

LEMMA CopiedType ==
  ASSUME NEW x \in Searches PROVE Copied(x) \in Searches
<1> DEFINE w == [x EXCEPT !.oamAddr = (@ + 1) % Bytes]
           y == SecNext(w)
           z == [y EXCEPT !.secOver = @ \/ y.secAddr = 0]
<1>1. w \in Searches
  BY AddressSteps DEF Searches
<1>2. y \in Searches
  BY <1>1, SecNextType
<1> HIDE DEF y
<1>3. z \in Searches
  BY <1>2 DEF Searches
<1>4. Copied(x) = EndAtZero(z)
  BY DEF Copied, y
<1>5. QED
  BY <1>3, <1>4, EndAtZeroType

LEMMA ClearedType ==
  ASSUME EvalTypes, NEW x \in Searches PROVE Cleared(x) \in Searches
<1> DEFINE y == IF dot = 1 THEN [x EXCEPT !.secAddr = 0] ELSE x
           z == [y EXCEPT !.sec[y.secAddr] = y.buffer]
<1>1. y \in Searches
  BY ZeroInRange DEF Searches
<1> HIDE DEF y
<1>2. z \in Searches /\ [y EXCEPT !.buffer = Fill] \in Searches
  BY <1>1, CellTypes DEF Searches
<1>3. QED
  BY <1>2, SecNextType DEF Cleared, y

LEMMA RestartedType ==
  ASSUME NEW x \in Searches PROVE Restarted(x) \in Searches
<1> DEFINE y == [x EXCEPT !.start = x.oamAddr, !.secAddr = 0, !.copying = 0, !.bug = 0]
<1>1. y \in Searches
  <2>1. [x EXCEPT !.start = x.oamAddr] \in Searches
    BY DEF Searches
  <2>2. \A z \in Searches : [z EXCEPT !.secAddr = 0] \in Searches
    BY ZeroInRange DEF Searches
  <2>3. \A z \in Searches : [z EXCEPT !.copying = 0] \in Searches
    BY DEF Searches
  <2>4. \A z \in Searches : [z EXCEPT !.bug = 0] \in Searches
    BY DEF Searches
  <2>5. y = [[[[x EXCEPT !.start = x.oamAddr] EXCEPT !.secAddr = 0]
                 EXCEPT !.copying = 0] EXCEPT !.bug = 0]
    OBVIOUS
  <2>6. QED
    BY <2>1, <2>2, <2>3, <2>4, <2>5
<1> HIDE DEF y
<1>2. [y EXCEPT !.addrOver = FALSE, !.secOver = FALSE, !.ranged = FALSE] \in Searches
  BY <1>1 DEF Searches
<1>3. QED
  BY <1>2 DEF Restarted, y

LEMMA PastFullType ==
  ASSUME NEW x \in Searches, NEW inRange \in BOOLEAN PROVE PastFull(x, inRange) \in Searches
<1>1. CASE x.addrOver
  BY <1>1, NextSpriteType DEF PastFull
<1>2. CASE ~x.addrOver /\ (inRange \/ x.ranged)
  <2> DEFINE y == [x EXCEPT !.oamAddr = (@ + 1) % Bytes, !.ranged = TRUE,
                            !.bug = IF @ = 0 THEN 3 ELSE @ - 1]
             z == [y EXCEPT !.addrOver = TRUE, !.oamAddr = 4 * (@ \div 4)]
  <2>1. y \in Searches
    <3>1. (x.oamAddr + 1) % Bytes \in 0..Bytes - 1
      BY AddressSteps DEF Searches
    <3>2. (IF x.bug = 0 THEN 3 ELSE x.bug - 1) \in 0..3
      BY DEF Searches
    <3>3. QED
      BY <3>1, <3>2 DEF Searches
  <2> HIDE DEF y
  <2>2. z \in Searches
    BY <2>1, AddressSteps DEF Searches
  <2>3. QED
    BY <1>2, <2>1, <2>2 DEF PastFull, y
<1>3. CASE ~x.addrOver /\ ~(inRange \/ x.ranged)
  <2> DEFINE next == NextSprite(x).oamAddr + ((x.oamAddr + 1) % 4)
  <2>1. NextSprite(x).oamAddr = (4 * (x.oamAddr \div 4 + 1)) % Bytes /\ x.oamAddr \in 0..Bytes - 1
    BY DEF NextSprite, Searches
  <2>2. next \in 0..Bytes - 1
    BY <2>1, AddressSteps
  <2> HIDE DEF next
  <2>3. [x EXCEPT !.oamAddr = next, !.addrOver = next < 4] \in Searches
    <3>1. (next < 4) \in BOOLEAN
      OBVIOUS
    <3>2. \A b \in BOOLEAN : [x EXCEPT !.oamAddr = next, !.addrOver = b] \in Searches
      BY <2>2 DEF Searches
    <3>3. QED
      BY <3>1, <3>2
  <2>4. QED
    BY <1>3, <2>3 DEF PastFull, next
<1>4. QED
  BY <1>1, <1>2, <1>3

LEMMA SearchedType ==
  ASSUME NEW x \in Searches PROVE Searched(x) \in Searches
<1> DEFINE y == IF ~x.addrOver /\ ~x.secOver
                THEN [x EXCEPT !.sec[x.secAddr] = x.buffer] ELSE SecShown(x)
           c == Copied(y)
<1>1. y \in Searches
  <2>1. [x EXCEPT !.sec[x.secAddr] = x.buffer] \in Searches
    BY DEF Searches
  <2>2. QED
    BY <2>1, SecShownType
<1>2. y.copying = x.copying
  BY DEF SecShown, Searches
<1> HIDE DEF y
<1>3. c \in Searches /\ c.copying = y.copying
  <2>1. c.copying = y.copying
    BY <1>1 DEF Copied, EndAtZero, SecNext, Searches
  <2>2. QED
    BY <1>1, <2>1, CopiedType
<1> HIDE DEF c
<1>4. x.copying \in 0..3
  BY DEF Searches
<1>5. x.copying > 0 => [c EXCEPT !.copying = @ - 1] \in Searches
  BY <1>2, <1>3, <1>4 DEF Searches
<1>6. [c EXCEPT !.copying = 3] \in Searches
  BY <1>3 DEF Searches
<1>7. PastFull(y, x.buffer \in near) \in Searches /\ EndAtZero(NextSprite(y)) \in Searches
  <2>1. (x.buffer \in near) \in BOOLEAN
    OBVIOUS
  <2>2. \A b \in BOOLEAN : PastFull(y, b) \in Searches
    BY <1>1, PastFullType
  <2>3. QED
    BY <1>1, <2>1, <2>2, NextSpriteType, EndAtZeroType
<1>8. QED
  BY <1>5, <1>6, <1>7 DEF Searched, y, c

LEMMA EvaluatedType ==
  ASSUME EvalTypes, NEW x \in Searches PROVE Evaluated(x) \in Searches
<1> DEFINE y == IF dot = ClearEnd + 1 THEN Restarted(x) ELSE x
<1>1. y \in Searches
  BY RestartedType
<1> HIDE DEF y
<1>2. [y EXCEPT !.buffer = Seen(y.oamAddr)] \in Searches
  BY <1>1, CellTypes DEF Searches
<1>3. QED
  BY <1>1, <1>2, SearchedType DEF Evaluated, y

LEMMA FetchedType ==
  ASSUME NEW x \in Searches PROVE Fetched(x) \in Searches
<1>1. [x EXCEPT !.secAddr = 0] \in Searches
  BY ZeroInRange DEF Searches
<1>2. QED
  BY <1>1, SecShownType, SecNextType DEF Fetched

LEMMA ClockedType ==
  ASSUME EvalTypes, NEW x \in Searches PROVE Clocked(x) \in Searches
BY ClearedType, EvaluatedType, FetchedType, SecShownType, SecNextType DEF Clocked

(* How many sprites are on the line before the n-th.                       *)
Rank(start, n) == Cardinality(Found(start, n))

(* What is found is a finite set.                                          *)
LEMMA FoundFinite ==
  ASSUME NEW s, NEW n \in Nat
  PROVE  IsFiniteSet(Found(s, n)) /\ Rank(s, n) \in Nat /\ Rank(s, 0) = 0
<1>1. IsFiniteSet(0..n - 1)
  BY FS_Interval
<1>2. Found(s, n) \in SUBSET (0..n - 1) /\ Found(s, 0) = {}
  BY DEF Found
<1>3. IsFiniteSet(Found(s, n))
  BY <1>1, <1>2, FS_Subset
<1>4. QED
  BY <1>2, <1>3, FS_CardinalityType, FS_EmptySet DEF Rank

(* The count goes up by one at a sprite on the line, and is kept at        *)
(* others.                                                                 *)
LEMMA RankStep ==
  ASSUME NEW s, NEW n \in Nat
  PROVE  Rank(s, n + 1) =
           IF Stored((s + 4 * n) % Bytes) \in near THEN Rank(s, n) + 1 ELSE Rank(s, n)
<1>0. n \notin Found(s, n)
  BY DEF Found
<1>1. IsFiniteSet(Found(s, n)) /\ n \notin Found(s, n)
  BY <1>0, FoundFinite
<1>2. CASE Stored((s + 4 * n) % Bytes) \in near
  <2>1. Found(s, n + 1) = Found(s, n) \cup {n}
    BY <1>2 DEF Found
  <2>2. QED
    BY <1>1, <1>2, <2>1, FS_AddElement DEF Rank
<1>3. CASE Stored((s + 4 * n) % Bytes) \notin near
  <2>1. Found(s, n + 1) = Found(s, n)
    BY <1>3 DEF Found
  <2>2. QED
    BY <1>3, <2>1 DEF Rank
<1>4. QED
  BY <1>2, <1>3

(* It never goes down.                                                     *)
LEMMA RankMonotone ==
  ASSUME NEW s, NEW m \in Nat, NEW n \in Nat, m <= n
  PROVE  Rank(s, m) <= Rank(s, n)
<1>1. Found(s, m) \in SUBSET Found(s, n)
  BY DEF Found
<1>2. QED
  BY <1>1, FoundFinite, FS_Subset DEF Rank

(* A sprite found has a rank below that of what comes after it.            *)
LEMMA RankStrict ==
  ASSUME NEW s, NEW n \in Nat, NEW i \in Found(s, n)
  PROVE  i \in Nat /\ i < n /\ Rank(s, i) < Rank(s, n)
<1>1. i \in Nat /\ i < n /\ i + 1 <= n /\ Stored((s + 4 * i) % Bytes) \in near
  BY DEF Found
<1>2. Rank(s, i + 1) = Rank(s, i) + 1 /\ Rank(s, i + 1) <= Rank(s, n)
  BY <1>1, RankStep, RankMonotone
<1>3. QED
  BY <1>1, <1>2, FoundFinite

(* Two sprites on the line have different ranks.                           *)
LEMMA RankInjective ==
  ASSUME NEW s, NEW n \in Nat, NEW i \in Found(s, n), NEW j \in Found(s, n),
         Rank(s, i) = Rank(s, j)
  PROVE  i = j
<1>1. i \in Nat /\ j \in Nat
  BY DEF Found
<1>2. ASSUME i < j PROVE FALSE
  <2>1. i \in Found(s, j)
    BY <1>1, <1>2 DEF Found
  <2>2. QED
    BY <1>1, <2>1, RankStrict, FoundFinite
<1>3. ASSUME j < i PROVE FALSE
  <2>1. j \in Found(s, i)
    BY <1>1, <1>3 DEF Found
  <2>2. QED
    BY <1>1, <2>1, RankStrict, FoundFinite
<1>4. QED
  BY <1>1, <1>2, <1>3

(* A set of naturals has a first.                                          *)
LEMMA FirstNumber ==
  ASSUME NEW T, T \subseteq Nat, T # {}
  PROVE  \E x \in T : \A y \in T : x <= y
<1> DEFINE R == OpToRel(<, Nat)
<1>1. IsWellFoundedOn(R, Nat)
  BY NatLessThanWellFounded
<1> HIDE DEF R
<1>2. PICK x \in T : \A y \in T : <<y, x>> \notin R
  BY <1>1, WFMin, Zenon
<1>3. \A y \in T : <<y, x>> \notin R <=> ~(y < x)
  BY DEF R, OpToRel
<1>4. ASSUME NEW y \in T PROVE x <= y
  <2>1. ~(y < x) /\ x \in Nat /\ y \in Nat
    BY <1>2, <1>3
  <2>2. QED
    BY <2>1
<1>5. QED
  BY <1>4

(* Every rank below the count is some sprite's.                            *)
LEMMA RankOnto ==
  ASSUME NEW s, NEW n \in Nat, NEW r \in Nat, r < Rank(s, n)
  PROVE  \E i \in Found(s, n) : Rank(s, i) = r
<1> DEFINE T == {m \in Nat : r < Rank(s, m)}
<1>1. T \subseteq Nat /\ n \in T /\ 0 \notin T
  BY FoundFinite
<1>2. PICK m \in T : \A y \in T : m <= y
  <2>1. T # {}
    BY <1>1
  <2> HIDE DEF T
  <2>2. QED
    BY <1>1, <2>1, FirstNumber
<1>3. m \in Nat /\ m # 0 /\ m <= n
  BY <1>1, <1>2
<1>4. PICK i \in Nat : m = i + 1
  <2>1. m - 1 \in Nat /\ m = (m - 1) + 1
    BY <1>3
  <2>2. QED
    BY <2>1
<1>5. i \notin T
  BY <1>2, <1>4
<1>6. Rank(s, i) <= r /\ r < Rank(s, i + 1)
  BY <1>2, <1>4, <1>5, FoundFinite
<1>7. Stored((s + 4 * i) % Bytes) \in near /\ Rank(s, i + 1) = Rank(s, i) + 1
  BY <1>6, RankStep, FoundFinite
<1>8. i \in Found(s, n)
  BY <1>3, <1>4, <1>7 DEF Found
<1>9. Rank(s, i) = r
  BY <1>6, <1>7, FoundFinite
<1>10. QED
  BY <1>8, <1>9

(* The k-th sprite found is the one of rank k - 1.                         *)
LEMMA FoundAtIs ==
  ASSUME NEW s, NEW k \in Nat, NEW i \in Found(s, Sprites), Rank(s, i) = k - 1
  PROVE  FoundAt(s, k) = i
<1>1. FoundAt(s, k) \in Found(s, Sprites) /\ Rank(s, FoundAt(s, k)) = k - 1
  BY DEF FoundAt, Rank
<1>2. QED
  BY <1>1, RankInjective, EvalSizes

(* It is a sprite.                                                         *)
LEMMA FoundAtType ==
  ASSUME NEW s, NEW k \in 1..Rank(s, Sprites)
  PROVE  FoundAt(s, k) \in 0..Sprites - 1
<1>1. k \in Nat /\ k - 1 \in Nat /\ k - 1 < Rank(s, Sprites)
  BY FoundFinite, EvalSizes
<1>2. PICK i \in Found(s, Sprites) : Rank(s, i) = k - 1
  BY <1>1, RankOnto, EvalSizes
<1>3. FoundAt(s, k) = i
  BY <1>1, <1>2, FoundAtIs
<1>4. QED
  BY <1>2, <1>3 DEF Found

(* The row to be corrupted is one of the secondary OAM.                    *)
LEMMA RowType ==
  ASSUME EvalTypes, NEW on
  PROVE  RowAfter(on) \in {NoRow} \cup 0..4 * Slots - 1
<1>1. e.secAddr \in 0..4 * Slots - 1
  BY DEF EvalTypes, Searches
<1>2. (4 * ((e.secAddr + 3) \div 4)) % (4 * Slots) \in 0..4 * Slots - 1
  BY <1>1, SecAddressSteps
<1>3. corruption \in {NoRow} \cup 0..4 * Slots - 1
  BY DEF EvalTypes
<1>4. QED
  BY <1>1, <1>2, <1>3 DEF RowAfter

(* evaluateSprites finds sprites.                                          *)
LEMMA EvaluateType ==
  ASSUME EvalTypes
  PROVE  EvaluateSprites \in Seq([1..4 -> Cells])
<1> DEFINE count == Rank(e.start, Sprites)
           n == IF count < Slots THEN count ELSE Slots
<1>1. e.start \in 0..Bytes - 1 /\ count \in Nat
  BY FoundFinite, EvalSizes DEF EvalTypes, Searches
<1>2. n \in Nat /\ n <= count
  BY <1>1, EvalSizes
<1>3. ASSUME NEW k \in 1..n
      PROVE  SpriteAt((e.start + 4 * FoundAt(e.start, k)) % Bytes) \in [1..4 -> Cells]
  <2>1. FoundAt(e.start, k) \in 0..Sprites - 1
    BY <1>1, <1>2, FoundAtType
  <2>2. PICK a \in 0..Bytes - 1 : a = (e.start + 4 * FoundAt(e.start, k)) % Bytes
    BY <1>1, <2>1, EvalSizes
  <2>3. \A b \in 1..4 : (a + b - 1) % Bytes \in 0..Bytes - 1
    BY EvalSizes
  <2>4. \A b \in 1..4 : Seen((a + b - 1) % Bytes) \in Cells
    BY <2>3, CellTypes
  <2>5. SpriteAt(a) \in [1..4 -> Cells]
    BY <2>4 DEF SpriteAt
  <2>6. QED
    BY <2>2, <2>5
<1>4. EvaluateSprites = [k \in 1..n |-> SpriteAt((e.start + 4 * FoundAt(e.start, k)) % Bytes)]
  BY DEF EvaluateSprites, Rank
<1> HIDE DEF n
<1>5. QED
  BY <1>2, <1>3, <1>4

(* computeSpriteOverflowCycle gives a dot or none.                         *)
LEMMA OverflowType ==
  ASSUME EvalTypes
  PROVE  ComputeSpriteOverflowCycle \in {NoDot} \cup Nat
<1> DEFINE first == FoundAt(0, Slots) + 1
           dotOf(s) == ClearEnd + 1 + 6 * Slots + 2 * s
           ninths == {s \in first..Sprites - 1 :
                        Stored(4 * s + ((s - first) % 4)) \in near /\ dotOf(s) <= EvalEnd}
<1>1. CASE Rank(0, Sprites) < Slots \/ ninths = {}
  BY <1>1 DEF ComputeSpriteOverflowCycle, Rank
<1>2. CASE ~(Rank(0, Sprites) < Slots) /\ ninths # {}
  <2>1. first \in Nat
    <3>1. Slots \in 1..Rank(0, Sprites)
      BY <1>2, FoundFinite, EvalSizes
    <3>2. QED
      BY <3>1, FoundAtType, EvalSizes
  <2> HIDE DEF first
  <2>2. ninths \subseteq Nat
    BY <2>1, EvalSizes
  <2> HIDE DEF ninths
  <2>3. PICK s \in ninths : \A t \in ninths : s <= t
    BY <1>2, <2>2, FirstNumber
  <2>4. (CHOOSE t \in ninths : \A u \in ninths : t <= u) \in Nat
    BY <2>2, <2>3
  <2>5. ComputeSpriteOverflowCycle = 1 + dotOf(CHOOSE t \in ninths : \A u \in ninths : t <= u)
    BY <1>2 DEF ComputeSpriteOverflowCycle, Rank, ninths, first
  <2>6. QED
    BY <2>4, <2>5, EvalSizes
<1>3. QED
  BY <1>1, <1>2

(* The types hold in every state.                                          *)
LEMMA EvalTypesStart == EvalInit => EvalTypes
<1> SUFFICES ASSUME EvalInit PROVE EvalTypes
  OBVIOUS
<1>1. oam \in [0..Bytes - 1 -> 0..Bytes - 1]
  BY DEF EvalInit
<1>2. e \in Searches
  <2>1. Fill \in Cells
    <3>1. Bytes \in 0..Bytes
      BY EvalSizes
    <3>2. QED
      BY <3>1 DEF Fill, Cells
  <2>2. [a \in 0..4 * Slots - 1 |-> Fill] \in [0..4 * Slots - 1 -> Cells]
    BY <2>1
  <2>3. QED
    BY <2>1, <2>2, ZeroInRange DEF EvalInit, Searches
<1>3. enabling \in Seq(BOOLEAN) /\ Len(enabling) = 4
  BY DEF EvalInit
<1>4. dot \in 0..LastDot /\ changes \in 0..MaxChanges
  BY EvalSizes DEF EvalInit
<1>5. sprites \in Seq([1..4 -> Cells])
  BY DEF EvalInit
<1>6. QED
  BY <1>1, <1>2, <1>3, <1>4, <1>5 DEF EvalInit, EvalTypes, Lines

(* The register of renderEnableDelay loses its head and gets a new end.   *)
LEMMA EnablingMoves ==
  ASSUME NEW q \in Seq(BOOLEAN), Len(q) = 4, NEW b \in BOOLEAN
  PROVE  /\ Head(q) \in BOOLEAN
         /\ Append(Tail(q), b) \in Seq(BOOLEAN) /\ Len(Append(Tail(q), b)) = 4
<1>1. q # << >>
  BY EmptySeq
<1>2. Head(q) \in BOOLEAN
  BY <1>1, HeadTailProperties
<1>3. Tail(q) \in Seq(BOOLEAN)
  BY <1>1, HeadTailProperties
<1>4. Len(Tail(q)) = 3
  BY <1>1, HeadTailProperties
<1>5. QED
  BY <1>2, <1>3, <1>4

(* A dot keeps the types.                                                  *)
LEMMA EvalTypesDot == EvalTypes /\ ClockDot => EvalTypes'
<1> SUFFICES ASSUME EvalTypes, ClockDot PROVE EvalTypes'
  OBVIOUS
<1> DEFINE on   == Head(enabling)
           row  == RowAfter(on)
           hit  == Corrupts(on)
           e1   == IF hit THEN [e EXCEPT !.sec[row] = e.sec[0]] ELSE Refreshed(e)
           home == on /\ Drawn /\ dot \in EvalEnd + 1..FetchEnd
           e2   == IF home THEN [e1 EXCEPT !.oamAddr = 0] ELSE e1
<1>1. on \in BOOLEAN /\ enabling' \in Seq(BOOLEAN) /\ Len(enabling') = 4
  <2>1. enabling \in Seq(BOOLEAN) /\ Len(enabling) = 4 /\ mask \in BOOLEAN
    BY DEF EvalTypes
  <2>2. /\ on \in BOOLEAN
        /\ Append(Tail(enabling), mask) \in Seq(BOOLEAN)
        /\ Len(Append(Tail(enabling), mask)) = 4
    BY <2>1, EnablingMoves
  <2>3. enabling' = Append(Tail(enabling), mask)
    BY DEF ClockDot
  <2>4. QED
    BY <2>2, <2>3
<1>2. row \in {NoRow} \cup 0..4 * Slots - 1
  BY RowType
<1>3. e1 \in Searches
  <2>0. e \in Searches
    BY DEF EvalTypes
  <2>1. hit => [e EXCEPT !.sec[row] = e.sec[0]] \in Searches
    <3>1. \A z \in 0..4 * Slots - 1 : [e EXCEPT !.sec[z] = e.sec[0]] \in Searches
      BY <2>0, ZeroInRange DEF Searches
    <3>2. hit => row \in 0..4 * Slots - 1
      BY <1>2 DEF Corrupts
    <3>3. QED
      BY <3>1, <3>2, Zenon
  <2>2. Refreshed(e) \in Searches
    <3>1. (e.oamAddr + 1) % Bytes \in 0..Bytes - 1
      BY <2>0, AddressSteps DEF Searches
    <3>2. [e EXCEPT !.oamAddr = (@ + 1) % Bytes] \in Searches
      BY <2>0, <3>1 DEF Searches
    <3>3. QED
      BY <2>0, <3>2 DEF Refreshed
  <2>3. QED
    BY <2>1, <2>2
<1> HIDE DEF e1
<1>4. e2 \in Searches
  BY <1>3, ZeroInRange DEF Searches
<1>5. e' \in Searches
  BY <1>4, ClockedType DEF ClockDot, e1
<1>6. oam' \in [0..Bytes - 1 -> 0..Bytes - 1]
  BY MemoryType DEF ClockDot
<1>7. corruption' \in {NoRow} \cup 0..4 * Slots - 1
  BY <1>2 DEF ClockDot
<1>8. sprites' \in Seq([1..4 -> Cells])
  BY EvaluateType DEF ClockDot, EvalTypes
<1>9. overflowDot' \in {NoDot} \cup Nat /\ overflow' \in BOOLEAN
  BY OverflowType DEF ClockDot, EvalTypes
<1>10. dot' \in 0..LastDot /\ line' \in Lines /\ changes' \in 0..MaxChanges
  <2>1. LastDot \in Nat /\ MaxChanges \in Nat /\ dot \in 0..LastDot /\ changes \in 0..MaxChanges
        /\ line \in Lines
    BY EvalSizes DEF EvalTypes
  <2>0. AdvanceDot
    BY DEF ClockDot
  <2>2. dot' \in 0..LastDot
    BY <2>0, <2>1 DEF AdvanceDot
  <2>3. changes' \in 0..MaxChanges
    BY <2>0, <2>1 DEF AdvanceDot
  <2>4. line' \in Lines
    BY <2>1 DEF ClockDot, AdvanceDot, NextLines, Lines
  <2>5. QED
    BY <2>2, <2>3, <2>4
<1>11. clean' \in BOOLEAN /\ renderingActive' \in BOOLEAN
  BY <1>1 DEF ClockDot
<1>12. pal' \in BOOLEAN /\ mask' \in BOOLEAN
  BY DEF ClockDot, EvalTypes
<1>13. QED
  BY <1>1, <1>5, <1>6, <1>7, <1>8, <1>9, <1>10, <1>11, <1>12 DEF EvalTypes

(* So does an access.                                                      *)
LEMMA EvalTypesAct ==
  ASSUME EvalTypes, WriteRendering \/ WriteOamAddr \/ WriteOamData(0)
  PROVE  EvalTypes'
<1>1. /\ line' \in Lines /\ dot' \in 0..LastDot /\ pal' \in BOOLEAN
      /\ enabling' \in Seq(BOOLEAN) /\ Len(enabling') = 4 /\ renderingActive' \in BOOLEAN
      /\ sprites' \in Seq([1..4 -> Cells]) /\ corruption' \in {NoRow} \cup 0..4 * Slots - 1
      /\ overflowDot' \in {NoDot} \cup Nat /\ overflow' \in BOOLEAN /\ clean' \in BOOLEAN
  BY DEF EvalTypes, WriteRendering, WriteOamAddr, WriteOamData, Access
<1>2. changes' \in 0..MaxChanges
  <2>1. MaxChanges \in Nat /\ changes \in 0..MaxChanges
    BY EvalSizes DEF EvalTypes
  <2>2. changes < MaxChanges /\ changes' = changes + 1
    BY DEF WriteRendering, WriteOamAddr, WriteOamData, Access
  <2>3. QED
    BY <2>1, <2>2
<1>3. mask' \in BOOLEAN
  BY DEF EvalTypes, WriteRendering, WriteOamAddr, WriteOamData
<1>4. oam' \in [0..Bytes - 1 -> 0..Bytes - 1]
  BY ZeroInRange DEF EvalTypes, WriteRendering, WriteOamAddr, WriteOamData
<1>5. e' \in Searches
  <2>0. e \in Searches
    BY DEF EvalTypes
  <2>1. CASE WriteRendering
    BY <2>0, <2>1 DEF WriteRendering
  <2>2. CASE WriteOamAddr
    <3>1. \A a \in 0..Bytes - 1 : [e EXCEPT !.oamAddr = a] \in Searches
      BY <2>0 DEF Searches
    <3>2. QED
      BY <2>2, <3>1, EvalSizes DEF WriteOamAddr
  <2>3. CASE WriteOamData(0)
    <3>1. (e.oamAddr + 1) % Bytes \in 0..Bytes - 1
      BY <2>0, AddressSteps DEF Searches
    <3>2. [e EXCEPT !.oamAddr = (@ + 1) % Bytes] \in Searches
      BY <2>0, <3>1 DEF Searches
    <3>3. QED
      BY <2>0, <2>3, <3>2, NextSpriteType DEF WriteOamData
  <2>4. QED
    BY <2>1, <2>2, <2>3
<1>6. QED
  BY <1>1, <1>2, <1>3, <1>4, <1>5 DEF EvalTypes

(* So does every step.                                                     *)
LEMMA EvalTypesStep == EvalTypes /\ [EvalNext]_evalVars => EvalTypes'
<1>1. ASSUME EvalTypes, UNCHANGED evalVars PROVE EvalTypes'
  BY <1>1 DEF EvalTypes, evalVars, program
<1>2. QED
  BY <1>1, EvalTypesDot, EvalTypesAct DEF EvalNext

(* Object memory keeps its types.                                          *)
THEOREM EvalTypesHold == EvalSpec => []EvalTypes
BY EvalTypesStart, EvalTypesStep, PTL DEF EvalSpec

(* What one search step does to each register: a byte copied.              *)
LEMMA SearchedCopies ==
  ASSUME NEW x \in Searches, ~x.addrOver, ~x.secOver,
         x.copying > 0 \/ (x.copying = 0 /\ x.buffer \in near)
  PROVE  LET y == Searched(x)
         IN /\ y.start = x.start /\ y.bug = x.bug /\ y.ranged = x.ranged
            /\ y.sec = [x.sec EXCEPT ![x.secAddr] = x.buffer]
            /\ y.oamAddr = (x.oamAddr + 1) % Bytes
            /\ y.secAddr = (x.secAddr + 1) % (4 * Slots)
            /\ y.copying = IF x.copying = 0 THEN 3 ELSE x.copying - 1
            /\ y.addrOver <=> y.oamAddr = 0
            /\ y.secOver <=> y.secAddr = 0
<1> DEFINE w == [x EXCEPT !.sec[x.secAddr] = x.buffer]
           c == Copied(w)
<1>0. x.copying \in 0..3
  BY DEF Searches
<1>1. c \in Searches
  <2>1. w \in Searches
    BY DEF Searches
  <2>2. QED
    BY <2>1, CopiedType
<1>2. /\ c.start = x.start /\ c.bug = x.bug /\ c.ranged = x.ranged
      /\ c.sec = [x.sec EXCEPT ![x.secAddr] = x.buffer]
      /\ c.oamAddr = (x.oamAddr + 1) % Bytes
      /\ c.secAddr = (x.secAddr + 1) % (4 * Slots)
      /\ c.copying = x.copying
      /\ c.addrOver <=> c.oamAddr = 0
      /\ c.secOver <=> c.secAddr = 0
  BY DEF Copied, EndAtZero, SecNext, Searches
<1>3. Searched(x) = [c EXCEPT !.copying = IF x.copying = 0 THEN 3 ELSE @ - 1]
  <2>1. CASE x.copying > 0
    BY <1>0, <2>1 DEF Searched
  <2>2. CASE x.copying = 0
    BY <2>2 DEF Searched
  <2>3. QED
    BY <1>0, <2>1, <2>2
<1> HIDE DEF c
<1>4. QED
  BY <1>1, <1>2, <1>3 DEF Searches

(* A sprite passed over, the slots not full.                               *)
LEMMA SearchedPasses ==
  ASSUME NEW x \in Searches, ~x.secOver, x.copying = 0, x.addrOver \/ x.buffer \notin near
  PROVE  LET y == Searched(x)
         IN /\ y.start = x.start /\ y.bug = x.bug /\ y.ranged = x.ranged
            /\ y.sec = IF x.addrOver THEN x.sec ELSE [x.sec EXCEPT ![x.secAddr] = x.buffer]
            /\ y.oamAddr = (4 * (x.oamAddr \div 4 + 1)) % Bytes
            /\ y.secAddr = x.secAddr /\ y.copying = 0 /\ ~y.secOver
            /\ y.addrOver <=> (x.addrOver \/ y.oamAddr = 0)
<1> DEFINE w == IF ~x.addrOver /\ ~x.secOver
                THEN [x EXCEPT !.sec[x.secAddr] = x.buffer] ELSE SecShown(x)
<1>1. Searched(x) = EndAtZero(NextSprite(w))
  BY DEF Searched
<1>2. /\ w.start = x.start /\ w.bug = x.bug /\ w.ranged = x.ranged
      /\ w.sec = IF x.addrOver THEN x.sec ELSE [x.sec EXCEPT ![x.secAddr] = x.buffer]
      /\ w.oamAddr = x.oamAddr /\ w.secAddr = x.secAddr /\ w.copying = 0 /\ ~w.secOver
      /\ w.addrOver = x.addrOver
  BY DEF SecShown, Searches
<1>3. w \in Searches
  <2>1. [x EXCEPT !.sec[x.secAddr] = x.buffer] \in Searches
    BY DEF Searches
  <2>2. QED
    BY <2>1, SecShownType
<1> HIDE DEF w
<1>4. QED
  BY <1>1, <1>2, <1>3 DEF EndAtZero, NextSprite, Searches

(* The slots full: nothing is copied any more.                             *)
LEMMA SearchedPast ==
  ASSUME NEW x \in Searches, x.secOver, x.copying = 0
  PROVE  LET y == Searched(x)
         IN /\ y.start = x.start /\ y.sec = x.sec /\ y.secAddr = x.secAddr
            /\ y.copying = 0 /\ y.secOver
            /\ Searched(x) = PastFull(SecShown(x), x.buffer \in near)
<1>1. Searched(x) = PastFull(SecShown(x), x.buffer \in near)
  BY DEF Searched
<1> DEFINE w == SecShown(x)
<1>2. /\ w \in Searches /\ w.start = x.start /\ w.sec = x.sec /\ w.secAddr = x.secAddr
      /\ w.copying = 0 /\ w.secOver
  BY SecShownType DEF SecShown, Searches
<1> HIDE DEF w
<1>3. \A r \in BOOLEAN : LET y == PastFull(w, r)
         IN /\ y.start = w.start /\ y.sec = w.sec /\ y.secAddr = w.secAddr
            /\ y.copying = 0 /\ y.secOver
  <2> SUFFICES ASSUME NEW r \in BOOLEAN
               PROVE  LET y == PastFull(w, r)
                      IN /\ y.start = w.start /\ y.sec = w.sec /\ y.secAddr = w.secAddr
                         /\ y.copying = 0 /\ y.secOver
    OBVIOUS
  <2>1. CASE w.addrOver
    BY <1>2, <2>1 DEF PastFull, NextSprite, Searches
  <2>2. CASE ~w.addrOver /\ (r \/ w.ranged)
    BY <1>2, <2>2 DEF PastFull, Searches
  <2>3. CASE ~w.addrOver /\ ~(r \/ w.ranged)
    BY <1>2, <2>3 DEF PastFull, Searches
  <2>4. QED
    BY <2>1, <2>2, <2>3
<1>4. (x.buffer \in near) \in BOOLEAN
  OBVIOUS
<1>5. QED
  BY <1>1, <1>2, <1>3, <1>4 DEF w

(* Past the end of OAM the address only goes round.                        *)
LEMMA PastOver ==
  ASSUME NEW x \in Searches, x.secOver, x.copying = 0, x.addrOver
  PROVE  Searched(x).addrOver /\ Searched(x).ranged = x.ranged
<1>1. Searched(x) = PastFull(SecShown(x), x.buffer \in near)
  BY SearchedPast
<1>2. SecShown(x).addrOver /\ SecShown(x).ranged = x.ranged /\ SecShown(x) \in Searches
  BY SecShownType DEF SecShown, Searches
<1>3. PastFull(SecShown(x), x.buffer \in near) = NextSprite(SecShown(x))
  BY <1>2 DEF PastFull
<1>4. QED
  BY <1>1, <1>2, <1>3 DEF NextSprite, Searches

(* A ninth sprite, once come upon, is not forgotten.                       *)
LEMMA PastRanged ==
  ASSUME NEW x \in Searches, x.secOver, x.copying = 0, ~x.addrOver,
         x.ranged \/ x.buffer \in near
  PROVE  Searched(x).ranged
<1>1. Searched(x) = PastFull(SecShown(x), x.buffer \in near)
  BY SearchedPast
<1>2. ~SecShown(x).addrOver /\ SecShown(x).ranged = x.ranged /\ SecShown(x) \in Searches
  BY SecShownType DEF SecShown, Searches
<1> DEFINE w == SecShown(x)
           z == [w EXCEPT !.oamAddr = (@ + 1) % Bytes, !.ranged = TRUE,
                          !.bug = IF @ = 0 THEN 3 ELSE @ - 1]
<1>3. Searched(x) = IF z.bug = 0 THEN [z EXCEPT !.addrOver = TRUE, !.oamAddr = 4 * (@ \div 4)] ELSE z
  BY <1>1, <1>2 DEF PastFull
<1>4. z.ranged /\ DOMAIN z = DOMAIN w /\ "ranged" \in DOMAIN w
  BY <1>2 DEF Searches
<1> HIDE DEF z
<1>5. QED
  BY <1>3, <1>4

(* No ninth sprite here: on to the next, one byte along.                   *)
LEMMA PastNext ==
  ASSUME NEW x \in Searches, x.secOver, x.copying = 0, ~x.addrOver,
         ~x.ranged, x.buffer \notin near
  PROVE  LET y == Searched(x)
         IN /\ ~y.ranged
            /\ y.oamAddr = ((4 * (x.oamAddr \div 4 + 1)) % Bytes) + ((x.oamAddr + 1) % 4)
            /\ y.addrOver <=> y.oamAddr < 4
<1>1. Searched(x) = PastFull(SecShown(x), x.buffer \in near)
  BY SearchedPast
<1>2. /\ ~SecShown(x).addrOver /\ ~SecShown(x).ranged /\ SecShown(x) \in Searches
      /\ SecShown(x).oamAddr = x.oamAddr
  BY SecShownType DEF SecShown, Searches
<1> DEFINE w == SecShown(x)
           next == NextSprite(w).oamAddr + ((w.oamAddr + 1) % 4)
<1>3. Searched(x) = [w EXCEPT !.oamAddr = next, !.addrOver = next < 4]
  BY <1>1, <1>2 DEF PastFull
<1>4. next = ((4 * (x.oamAddr \div 4 + 1)) % Bytes) + ((x.oamAddr + 1) % 4)
  BY <1>2 DEF NextSprite, Searches
<1> HIDE DEF next
<1>5. QED
  BY <1>2, <1>3, <1>4 DEF Searches

(* Sprite j from the start is looked at on dot Base and the dot after.     *)
Base(s, j)    == ClearEnd + 1 + 2 * j + 6 * Rank(s, j)
Filled(x, n)  ==
  \A i \in Found(x.start, n), b \in 0..3 :
    x.sec[4 * Rank(x.start, i) + b] = Seen(x.start + 4 * i + b)
(* On an odd dot a byte is read, on the even one after it is dealt with.   *)
ReadAt(x, d, odd) == d = odd \/ (d = odd + 1 /\ x.buffer = Seen(x.oamAddr))
Free(x)       == ~x.addrOver /\ ~x.secOver /\ ~x.ranged

Looking(x, d, j) ==
  /\ Free(x) /\ x.copying = 0
  /\ x.start + 4 * j < Bytes /\ x.oamAddr = x.start + 4 * j
  /\ Rank(x.start, j) < Slots /\ x.secAddr = 4 * Rank(x.start, j)
  /\ ReadAt(x, d, Base(x.start, j))
Copying(x, d, j, c) ==
  /\ Free(x) /\ x.copying = 4 - c
  /\ x.start + 4 * j < Bytes /\ x.oamAddr = x.start + 4 * j + c
  /\ Stored(x.start + 4 * j) \in near
  /\ Rank(x.start, j) < Slots /\ x.secAddr = 4 * Rank(x.start, j) + c
  /\ \A b \in 0..c - 1 : x.sec[4 * Rank(x.start, j) + b] = Seen(x.start + 4 * j + b)
  /\ ReadAt(x, d, Base(x.start, j) + 2 * c)
Over(x, j) ==
  /\ x.addrOver /\ ~x.secOver /\ ~x.ranged /\ x.copying = 0
  /\ x.start + 4 * j = Bytes
  /\ Rank(x.start, j) < Slots /\ x.secAddr = 4 * Rank(x.start, j)

(* The slots full after sprite first - 1, a ninth sprite is looked for, in *)
(* sprite s on the dots from DotOf(s).                                     *)
DotOf(s)          == ClearEnd + 1 + 6 * Slots + 2 * s
NinthAt(first, s) == Stored(4 * s + ((s - first) % 4)) \in near
Passing(x, d, first, s) ==
  /\ ~x.addrOver /\ ~x.ranged
  /\ x.oamAddr = 4 * s + ((s - first) % 4)
  /\ \A t \in first..s - 1 : ~NinthAt(first, t)
  /\ ReadAt(x, d, DotOf(s))
Passed(x, first)  ==
  x.addrOver /\ ~x.ranged /\ \A t \in first..Sprites - 1 : ~NinthAt(first, t)
Met(x, d)         == x.ranged /\ overflowDot # NoDot /\ overflowDot < d
Past(x, d, first) ==
  Met(x, d) \/ Passed(x, first) \/ \E s \in first..Sprites - 1 : Passing(x, d, first, s)
Full(x, d, j) ==
  /\ x.secOver /\ x.copying = 0
  /\ x.start + 4 * j <= Bytes /\ Rank(x.start, j) = Slots
  /\ j - 1 \in Found(x.start, Sprites) /\ Rank(x.start, j - 1) = Slots - 1
  /\ x.start = 0 /\ Whole => Past(x, d, j)

SearchAt(x, d, j) ==
  /\ x.start % 4 = 0 /\ Filled(x, j)
  /\ \/ Looking(x, d, j)
     \/ \E c \in 1..3 : Copying(x, d, j, c)
     \/ Over(x, j)
     \/ Full(x, d, j)

Undisturbed == line = "visible" /\ clean
SearchInv ==
  /\ clean /\ Drawn /\ dot > 0 => corruption = NoRow
  /\ Undisturbed /\ dot \in ClearEnd + 1..EvalEnd + 1 => overflowDot = ComputeSpriteOverflowCycle
  /\ Undisturbed /\ dot \in ClearEnd + 2..EvalEnd + 1 /\ e.start % 4 = 0
       => \E j \in 0..Sprites : SearchAt(e, dot, j)

(* The dots on which the machine comes to a sprite are odd, as those of    *)
(* reads are.                                                              *)
LEMMA OddDots ==
  /\ \A s, j \in Nat : Base(s, j) \in Nat /\ Base(s, j) % 2 = 1
  /\ \A s \in Nat : DotOf(s) \in Nat /\ DotOf(s) % 2 = 1
<1>1. ASSUME NEW s \in Nat, NEW j \in Nat PROVE Base(s, j) \in Nat /\ Base(s, j) % 2 = 1
  <2>1. PICK m \in Nat : m = 4 * Slots + j + 3 * Rank(s, j)
    BY FoundFinite, EvalSizes
  <2>2. Base(s, j) = 2 * m + 1
    BY <2>1, FoundFinite, EvalSizes DEF Base
  <2>3. QED
    BY <2>1, <2>2
<1>2. ASSUME NEW s \in Nat PROVE DotOf(s) \in Nat /\ DotOf(s) % 2 = 1
  <2>1. PICK m \in Nat : m = 4 * Slots + s + 3 * Slots
    BY EvalSizes
  <2>2. DotOf(s) = 2 * m + 1
    BY <2>1, EvalSizes DEF DotOf
  <2>3. QED
    BY <2>1, <2>2
<1>3. QED
  BY <1>1, <1>2

(* On an odd dot the byte is still to be read.                             *)
LEMMA ReadAtOdd ==
  ASSUME NEW x, NEW d \in Nat, NEW o \in Nat, o % 2 = 1, d % 2 = 1, ReadAt(x, d, o)
  PROVE  d = o
BY DEF ReadAt

(* On an even dot it has been read.                                        *)
LEMMA ReadAtEven ==
  ASSUME NEW x, NEW d \in Nat, NEW o \in Nat, o % 2 = 1, d % 2 = 0, ReadAt(x, d, o)
  PROVE  d = o + 1 /\ x.buffer = Seen(x.oamAddr)
BY DEF ReadAt

(* Addresses of sprites in a search from a sprite's first byte.            *)
LEMMA SpriteAddress ==
  ASSUME NEW s \in 0..Bytes - 1, s % 4 = 0, NEW j \in Nat, s + 4 * j < Bytes
  PROVE  /\ j < Sprites /\ (s + 4 * j) % Bytes = s + 4 * j /\ s + 4 * j \in 0..Bytes - 1
         /\ s + 4 * (j + 1) <= Bytes
         /\ (s + 4 * j) % 4 = 0 /\ 4 * ((s + 4 * j) \div 4 + 1) = s + 4 * (j + 1)
         /\ Seen(s + 4 * j) = Stored(s + 4 * j)
         /\ \A c \in 0..3 : s + 4 * j + c \in 0..Bytes - 1
<1>1. PICK q \in Nat : s = 4 * q
  <2>1. s \div 4 \in Nat /\ s = 4 * (s \div 4)
    BY EvalSizes
  <2>2. QED
    BY <2>1
<1>2. q + j < Sprites /\ s + 4 * j = 4 * (q + j)
  BY <1>1, EvalSizes
<1>3. (s + 4 * j) % 4 = 0 /\ (s + 4 * j) \div 4 = q + j
  BY <1>1, <1>2
<1>4. (s + 4 * j) % Bytes = s + 4 * j
  BY <1>2, EvalSizes
<1>5. Seen(s + 4 * j) = Stored(s + 4 * j)
  <2>1. ~((s + 4 * j) % 4 = 2)
    BY <1>3
  <2>2. ((s + 4 * j) % 4 = 2) = FALSE
    BY <2>1
  <2>3. QED
    BY <2>2, Zenon DEF Seen, Stored
<1>6. QED
  BY <1>1, <1>2, <1>3, <1>4, <1>5, EvalSizes

(* The dot on which a byte is read.                                        *)
LEMMA SearchReads ==
  ASSUME EvalTypes, NEW j \in 0..Sprites, SearchAt(e, dot, j),
         dot \in ClearEnd + 2..EvalEnd, dot % 2 = 1
  PROVE  SearchAt(Evaluated(e), dot + 1, j)
<1> DEFINE y == [e EXCEPT !.buffer = Seen(e.oamAddr)]
<1>0. dot \in Nat /\ dot # ClearEnd + 1 /\ e.start \in Nat /\ j \in Nat
  BY EvalSizes DEF EvalTypes, Searches
<1>1. Evaluated(e) = y
  BY <1>0 DEF Evaluated
<1>2. /\ y.start = e.start /\ y.sec = e.sec /\ y.secAddr = e.secAddr /\ y.oamAddr = e.oamAddr
      /\ y.copying = e.copying /\ y.addrOver = e.addrOver /\ y.secOver = e.secOver
      /\ y.ranged = e.ranged /\ y.buffer = Seen(y.oamAddr)
  BY DEF EvalTypes, Searches
<1> HIDE DEF y
<1>3. ASSUME NEW o \in Nat, o % 2 = 1, ReadAt(e, dot, o) PROVE ReadAt(y, dot + 1, o)
  <2>1. dot = o
    BY <1>0, <1>3, ReadAtOdd
  <2>2. QED
    BY <1>2, <2>1 DEF ReadAt
<1>4. Filled(y, j) /\ y.start % 4 = 0
  BY <1>2 DEF Filled, SearchAt
<1>5. CASE Looking(e, dot, j)
  <2>1. ReadAt(y, dot + 1, Base(e.start, j))
    BY <1>0, <1>3, <1>5, OddDots DEF Looking
  <2>2. Looking(y, dot + 1, j)
    BY <1>2, <1>5, <2>1 DEF Looking, Free
  <2>3. QED
    BY <1>1, <1>4, <2>2 DEF SearchAt
<1>6. ASSUME NEW c \in 1..3, Copying(e, dot, j, c) PROVE SearchAt(Evaluated(e), dot + 1, j)
  <2>0. PICK p \in Nat : p = Base(e.start, j) /\ p % 2 = 1
    BY <1>0, OddDots
  <2>1. PICK o \in Nat : o = p + 2 * c
    OBVIOUS
  <2>2. o % 2 = 1
    BY <2>0, <2>1
  <2>3. ReadAt(y, dot + 1, o)
    BY <1>3, <1>6, <2>0, <2>1, <2>2 DEF Copying
  <2>4. Copying(y, dot + 1, j, c)
    BY <1>2, <1>6, <2>0, <2>1, <2>3 DEF Copying, Free
  <2>5. QED
    BY <1>1, <1>4, <2>4 DEF SearchAt
<1>7. CASE Over(e, j)
  <2>1. Over(y, j)
    BY <1>2, <1>7 DEF Over
  <2>2. QED
    BY <1>1, <1>4, <2>1 DEF SearchAt
<1>8. CASE Full(e, dot, j)
  <2>1. ASSUME y.start = 0, Whole PROVE Past(y, dot + 1, j)
    <3>1. Past(e, dot, j)
      BY <1>2, <1>8, <2>1 DEF Full
    <3>2. CASE Met(e, dot)
      <4>1. overflowDot \in {NoDot} \cup Nat
        BY DEF EvalTypes
      <4>2. Met(y, dot + 1)
        BY <1>0, <1>2, <3>2, <4>1 DEF Met, NoDot
      <4>3. QED
        BY <4>2 DEF Past
    <3>3. CASE Passed(e, j)
      BY <1>2, <3>3 DEF Past, Passed
    <3>4. ASSUME NEW s \in j..Sprites - 1, Passing(e, dot, j, s) PROVE Past(y, dot + 1, j)
      <4>1. s \in Nat
        BY EvalSizes
      <4>2. ReadAt(y, dot + 1, DotOf(s))
        BY <1>3, <3>4, <4>1, OddDots DEF Passing
      <4>3. Passing(y, dot + 1, j, s)
        BY <1>2, <3>4, <4>2 DEF Passing
      <4>4. QED
        BY <4>3 DEF Past
    <3>5. QED
      BY <3>1, <3>2, <3>3, <3>4 DEF Past
  <2>2. Full(y, dot + 1, j)
    BY <1>2, <1>8, <2>1 DEF Full
  <2>3. QED
    BY <1>1, <1>4, <2>2 DEF SearchAt
<1>9. QED
  BY <1>5, <1>6, <1>7, <1>8 DEF SearchAt

(* A byte stored behind the slots filled leaves them as they are.          *)
LEMMA FilledKept ==
  ASSUME NEW x \in Searches, NEW y \in Searches, NEW j \in Nat, NEW a \in 0..4 * Slots - 1, NEW v,
         Filled(x, j), y.start = x.start, y.sec = [x.sec EXCEPT ![a] = v],
         4 * Rank(x.start, j) <= a
  PROVE  Filled(y, j)
<1> SUFFICES ASSUME NEW i \in Found(x.start, j), NEW b \in 0..3
             PROVE  y.sec[4 * Rank(x.start, i) + b] = Seen(x.start + 4 * i + b)
  BY DEF Filled
<1>1. i \in Nat /\ Rank(x.start, i) < Rank(x.start, j)
  BY RankStrict
<1>2. Rank(x.start, i) \in Nat /\ Rank(x.start, j) \in Nat
  BY <1>1, FoundFinite
<1>3. PICK k \in 0..4 * Slots - 1 : k = 4 * Rank(x.start, i) + b /\ k # a
  BY <1>1, <1>2, EvalSizes
<1>4. x.sec[k] = Seen(x.start + 4 * i + b)
  BY <1>3 DEF Filled
<1>5. QED
  BY <1>3, <1>4 DEF Searches

(* Nothing is yet in the slots of a sprite that is passed over.            *)
LEMMA FilledPassed ==
  ASSUME NEW x, NEW j \in Nat, Filled(x, j), x.start + 4 * j \in Int,
         Stored((x.start + 4 * j) % Bytes) \notin near
  PROVE  Filled(x, j + 1)
<1>1. Found(x.start, j + 1) = Found(x.start, j)
  BY DEF Found
<1>2. QED
  BY <1>1 DEF Filled

(* Types at a dot of the search.                                           *)
LEMMA SearchBasics ==
  ASSUME EvalTypes, NEW j \in 0..Sprites
  PROVE  /\ e \in Searches /\ Searched(e) \in Searches /\ j \in Nat
         /\ e.start \in 0..Bytes - 1 /\ e.start \in Nat /\ Rank(e.start, j) \in Nat
         /\ dot \in Nat /\ Base(e.start, j) \in Nat /\ Base(e.start, j) % 2 = 1
         /\ Bytes \in Nat
<1>1. e \in Searches /\ dot \in Nat
  BY EvalSizes DEF EvalTypes
<1>2. Searched(e) \in Searches
  BY <1>1, SearchedType
<1>3. e.start \in 0..Bytes - 1 /\ j \in Nat /\ Bytes \in Nat
  BY <1>1, EvalSizes DEF Searches
<1>4. e.start \in Nat
  BY <1>3
<1>5. QED
  BY <1>1, <1>2, <1>3, <1>4, FoundFinite, OddDots

(* A sprite on the line: its first byte is copied.                         *)
LEMMA LookingNear ==
  ASSUME EvalTypes, NEW j \in 0..Sprites, e.start % 4 = 0, Filled(e, j), Looking(e, dot, j),
         dot % 2 = 0, Stored(e.start + 4 * j) \in near
  PROVE  Filled(Searched(e), j) /\ Copying(Searched(e), dot + 1, j, 1)
<1> DEFINE y == Searched(e)
           r == Rank(e.start, j)
<1>0. /\ e \in Searches /\ y \in Searches /\ j \in Nat /\ e.start \in 0..Bytes - 1 /\ r \in Nat
      /\ dot \in Nat /\ e.start \in Nat /\ Bytes \in Nat
      /\ Base(e.start, j) \in Nat /\ Base(e.start, j) % 2 = 1
  BY SearchBasics
<1>1. dot = Base(e.start, j) + 1 /\ e.buffer = Seen(e.oamAddr)
  BY <1>0, ReadAtEven DEF Looking
<1>2. e.buffer = Stored(e.start + 4 * j) /\ e.buffer \in near
  <2>1. e.oamAddr = e.start + 4 * j /\ e.start + 4 * j < Bytes
    BY DEF Looking
  <2>2. Seen(e.start + 4 * j) = Stored(e.start + 4 * j)
    BY <1>0, <2>1, SpriteAddress
  <2>3. QED
    BY <1>1, <2>1, <2>2
<1>3. /\ y.start = e.start /\ y.bug = e.bug /\ y.ranged = e.ranged
      /\ y.sec = [e.sec EXCEPT ![e.secAddr] = e.buffer]
      /\ y.oamAddr = (e.oamAddr + 1) % Bytes
      /\ y.secAddr = (e.secAddr + 1) % (4 * Slots)
      /\ y.copying = 3
      /\ y.addrOver <=> y.oamAddr = 0
      /\ y.secOver <=> y.secAddr = 0
  BY <1>0, <1>2, SearchedCopies DEF Looking, Free
<1> HIDE DEF y
<1>4. e.secAddr = 4 * r /\ r < Slots /\ e.secAddr \in 0..4 * Slots - 1
  BY <1>0 DEF Looking, Searches
<1>5. y.secAddr = 4 * r + 1
  BY <1>0, <1>3, <1>4, EvalSizes, SecAddressSteps
<1>6. y.oamAddr = e.start + 4 * j + 1
  <2>1. PICK a \in Nat : a = e.start + 4 * j + 1
    BY <1>0
  <2>2. a < Bytes
    BY <1>0, <2>1, SpriteAddress, EvalSizes DEF Looking
  <2>3. a % Bytes = a
    BY <2>1, <2>2, EvalSizes
  <2>4. QED
    BY <1>0, <1>3, <2>1, <2>3 DEF Looking
<1>7. Filled(y, j)
  <2>1. 4 * Rank(e.start, j) <= e.secAddr
    BY <1>0, <1>4
  <2>2. QED
    BY <1>0, <1>3, <1>4, <2>1, FilledKept
<1>8. Free(y)
  BY <1>0, <1>3, <1>5, <1>6 DEF Looking, Free
<1>9. \A b \in 0..1 - 1 : y.sec[4 * r + b] = Seen(e.start + 4 * j + b)
  <2>1. y.sec[4 * r] = Seen(e.start + 4 * j)
    <3>1. y.sec[e.secAddr] = e.buffer
      BY <1>0, <1>3, <1>4 DEF Searches
    <3>2. QED
      BY <1>1, <1>4, <3>1 DEF Looking
  <2>2. 4 * r + 0 = 4 * r /\ e.start + 4 * j + 0 = e.start + 4 * j /\ \A b \in 0..1 - 1 : b = 0
    BY <1>0
  <2>3. QED
    BY <2>1, <2>2
<1>10. ReadAt(y, dot + 1, Base(e.start, j) + 2 * 1)
  <2>1. PICK p \in Nat : p = Base(e.start, j)
    BY <1>0
  <2>2. dot + 1 = p + 2 * 1
    BY <1>1, <2>1
  <2>3. QED
    BY <2>1, <2>2 DEF ReadAt
<1>11. Copying(y, dot + 1, j, 1)
  BY <1>0, <1>3, <1>4, <1>5, <1>6, <1>8, <1>9, <1>10 DEF Copying, Looking
<1>12. QED
  BY <1>7, <1>11 DEF y

(* A sprite not on the line is passed over.                                *)
LEMMA LookingFar ==
  ASSUME EvalTypes, NEW j \in 0..Sprites, e.start % 4 = 0, Filled(e, j), Looking(e, dot, j),
         dot % 2 = 0, Stored(e.start + 4 * j) \notin near
  PROVE  /\ j + 1 \in 0..Sprites /\ Filled(Searched(e), j + 1)
         /\ Looking(Searched(e), dot + 1, j + 1) \/ Over(Searched(e), j + 1)
<1> DEFINE y == Searched(e)
           r == Rank(e.start, j)
<1>0. /\ e \in Searches /\ y \in Searches /\ j \in Nat /\ e.start \in 0..Bytes - 1 /\ r \in Nat
      /\ dot \in Nat /\ e.start \in Nat /\ Bytes \in Nat
      /\ Base(e.start, j) \in Nat /\ Base(e.start, j) % 2 = 1
  BY SearchBasics
<1>a. /\ j < Sprites /\ (e.start + 4 * j) % Bytes = e.start + 4 * j
      /\ e.start + 4 * j \in 0..Bytes - 1
      /\ e.start + 4 * (j + 1) <= Bytes
      /\ 4 * ((e.start + 4 * j) \div 4 + 1) = e.start + 4 * (j + 1)
      /\ Seen(e.start + 4 * j) = Stored(e.start + 4 * j)
  <2>1. e.start + 4 * j < Bytes
    BY DEF Looking
  <2>2. QED
    BY <1>0, <2>1, SpriteAddress
<1>1. dot = Base(e.start, j) + 1 /\ e.buffer = Seen(e.oamAddr)
  BY <1>0, ReadAtEven DEF Looking
<1>2. e.buffer \notin near
  BY <1>a, <1>1 DEF Looking
<1>3. /\ y.start = e.start /\ y.bug = e.bug /\ y.ranged = e.ranged
      /\ y.sec = [e.sec EXCEPT ![e.secAddr] = e.buffer]
      /\ y.oamAddr = (4 * (e.oamAddr \div 4 + 1)) % Bytes
      /\ y.secAddr = e.secAddr /\ y.copying = 0 /\ ~y.secOver
      /\ y.addrOver <=> y.oamAddr = 0
  BY <1>0, <1>2, SearchedPasses DEF Looking, Free
<1> HIDE DEF y
<1>4. e.secAddr = 4 * r /\ r < Slots /\ e.secAddr \in 0..4 * Slots - 1
  BY <1>0 DEF Looking, Searches
<1>5. Rank(e.start, j + 1) = r
  BY <1>0, <1>a, RankStep
<1>6. Filled(y, j + 1)
  <2>0. 4 * Rank(e.start, j) <= e.secAddr
    BY <1>0, <1>4
  <2>1. Filled(y, j)
    BY <1>0, <1>3, <1>4, <2>0, FilledKept
  <2>2. QED
    BY <1>0, <1>a, <1>3, <2>1, FilledPassed
<1>7. y.oamAddr = (e.start + 4 * (j + 1)) % Bytes
  BY <1>a, <1>3 DEF Looking
<1>8. CASE e.start + 4 * (j + 1) = Bytes
  <2>1. y.oamAddr = 0
    BY <1>7, <1>8, EvalSizes
  <2>2. Over(y, j + 1)
    BY <1>3, <1>4, <1>5, <1>8, <2>1 DEF Over, Looking, Free
  <2>3. QED
    BY <1>0, <1>a, <1>6, <2>2, EvalSizes DEF y
<1>9. CASE e.start + 4 * (j + 1) < Bytes
  <2>1. PICK a \in Nat : a = e.start + 4 * (j + 1)
    BY <1>0
  <2>2. y.oamAddr = a /\ a # 0
    <3>1. a < Bytes /\ a >= 4
      BY <1>0, <1>9, <2>1
    <3>2. a % Bytes = a
      BY <1>0, <3>1
    <3>3. QED
      BY <1>7, <2>1, <3>1, <3>2
  <2>3. Base(e.start, j + 1) = Base(e.start, j) + 2
    BY <1>0, <1>5, EvalSizes DEF Base
  <2>4. ReadAt(y, dot + 1, Base(e.start, j + 1))
    <3>1. PICK p \in Nat : p = Base(e.start, j)
      BY <1>0
    <3>2. dot + 1 = p + 2
      BY <1>1, <3>1
    <3>3. QED
      BY <2>3, <3>1, <3>2 DEF ReadAt
  <2>5. Free(y)
    BY <1>3, <2>2 DEF Looking, Free
  <2>6. Looking(y, dot + 1, j + 1)
    BY <1>3, <1>4, <1>5, <1>9, <2>1, <2>2, <2>4, <2>5 DEF Looking
  <2>7. QED
    BY <1>0, <1>a, <1>6, <2>6, EvalSizes DEF y
<1>10. e.start + 4 * (j + 1) = Bytes \/ e.start + 4 * (j + 1) < Bytes
  <2>1. PICK a \in Nat : a = e.start + 4 * (j + 1)
    BY <1>0
  <2>2. a <= Bytes
    BY <1>a, <2>1
  <2>3. a = Bytes \/ a < Bytes
    BY <1>0, <2>2
  <2>4. QED
    BY <2>1, <2>3
<1>11. QED
  BY <1>8, <1>9, <1>10

(* At the end of OAM nothing more happens.                                 *)
LEMMA OverOn ==
  ASSUME EvalTypes, NEW j \in 0..Sprites, Filled(e, j), Over(e, j)
  PROVE  Filled(Searched(e), j) /\ Over(Searched(e), j)
<1> DEFINE y == Searched(e)
<1>1. e \in Searches
  BY DEF EvalTypes
<1>2. /\ y.start = e.start /\ y.ranged = e.ranged /\ y.sec = e.sec
      /\ y.secAddr = e.secAddr /\ y.copying = 0 /\ ~y.secOver /\ y.addrOver
  BY <1>1, SearchedPasses DEF Over
<1> HIDE DEF y
<1>3. Filled(y, j) /\ Over(y, j)
  BY <1>2 DEF Filled, Over
<1>4. QED
  BY <1>3 DEF y

(* A sprite's second or third byte is copied.                              *)
LEMMA CopyingBasics ==
  ASSUME EvalTypes, NEW j \in 0..Sprites, e.start % 4 = 0, NEW c \in 1..3,
         Filled(e, j), Copying(e, dot, j, c), dot % 2 = 0
  PROVE  /\ dot = Base(e.start, j) + 2 * c + 1 /\ e.buffer = Seen(e.start + 4 * j + c)
         /\ e.secAddr = 4 * Rank(e.start, j) + c /\ e.secAddr \in 0..4 * Slots - 1
         /\ Searched(e).start = e.start /\ ~Searched(e).ranged
         /\ Searched(e).sec = [e.sec EXCEPT ![4 * Rank(e.start, j) + c] = Seen(e.start + 4 * j + c)]
         /\ Searched(e).oamAddr = (e.start + 4 * j + c + 1) % Bytes
         /\ Searched(e).secAddr = (4 * Rank(e.start, j) + c + 1) % (4 * Slots)
         /\ Searched(e).copying = 3 - c
         /\ Searched(e).addrOver <=> Searched(e).oamAddr = 0
         /\ Searched(e).secOver <=> Searched(e).secAddr = 0
         /\ Filled(Searched(e), j)
         /\ \A b \in 0..c : Searched(e).sec[4 * Rank(e.start, j) + b] = Seen(e.start + 4 * j + b)
<1> DEFINE y == Searched(e)
           r == Rank(e.start, j)
<1>0. /\ e \in Searches /\ y \in Searches /\ j \in Nat /\ e.start \in 0..Bytes - 1 /\ r \in Nat
      /\ dot \in Nat /\ e.start \in Nat /\ Bytes \in Nat
      /\ Base(e.start, j) \in Nat /\ Base(e.start, j) % 2 = 1
  BY SearchBasics
<1>1. dot = Base(e.start, j) + 2 * c + 1 /\ e.buffer = Seen(e.oamAddr)
  <2>1. PICK p \in Nat : p = Base(e.start, j)
    BY <1>0
  <2>2. PICK o \in Nat : o = p + 2 * c
    OBVIOUS
  <2>3. o % 2 = 1
    BY <1>0, <2>1, <2>2
  <2>4. dot = o + 1 /\ e.buffer = Seen(e.oamAddr)
    BY <1>0, <2>1, <2>2, <2>3, ReadAtEven DEF Copying
  <2>5. QED
    BY <2>1, <2>2, <2>4
<1>2. e.copying = 4 - c /\ e.copying > 0 /\ e.copying # 0 /\ ~e.addrOver /\ ~e.secOver /\ ~e.ranged
  BY DEF Copying, Free
<1>3. /\ y.start = e.start /\ y.ranged = e.ranged
      /\ y.sec = [e.sec EXCEPT ![e.secAddr] = e.buffer]
      /\ y.oamAddr = (e.oamAddr + 1) % Bytes
      /\ y.secAddr = (e.secAddr + 1) % (4 * Slots)
      /\ y.copying = e.copying - 1
      /\ y.addrOver <=> y.oamAddr = 0
      /\ y.secOver <=> y.secAddr = 0
  <2>1. e \in Searches
    BY <1>0
  <2>2. QED
    BY <1>2, <2>1, SearchedCopies
<1> HIDE DEF y
<1>4. e.secAddr = 4 * r + c /\ e.secAddr \in 0..4 * Slots - 1
  BY <1>0 DEF Copying, Searches
<1>5. e.oamAddr = e.start + 4 * j + c
  BY DEF Copying
<1>6. y.sec = [e.sec EXCEPT ![4 * r + c] = Seen(e.start + 4 * j + c)]
  BY <1>1, <1>3, <1>4, <1>5
<1>7. Filled(y, j)
  <2>1. 4 * Rank(e.start, j) <= e.secAddr
    BY <1>0, <1>4
  <2>2. /\ e \in Searches /\ y \in Searches /\ j \in Nat /\ y.start = e.start
        /\ y.sec = [e.sec EXCEPT ![e.secAddr] = e.buffer] /\ e.secAddr \in 0..4 * Slots - 1
    BY <1>0, <1>3, <1>4
  <2>3. Filled(e, j)
    OBVIOUS
  <2>4. QED
    BY <2>1, <2>2, <2>3, FilledKept
<1>8. \A b \in 0..c : y.sec[4 * r + b] = Seen(e.start + 4 * j + b)
  <2>1. ASSUME NEW b \in 0..c PROVE y.sec[4 * r + b] = Seen(e.start + 4 * j + b)
    <3>1. PICK k \in 0..4 * Slots - 1 : k = 4 * r + b
      <4>1. 4 * r + b \in Nat /\ 4 * r + b <= e.secAddr
        BY <1>0, <1>4
      <4>2. QED
        BY <1>4, <4>1, EvalSizes
    <3>2. CASE b = c
      BY <1>0, <1>4, <1>6, <3>1, <3>2 DEF Searches
    <3>3. CASE b # c
      <4>1. b \in 0..c - 1 /\ k # 4 * r + c
        BY <1>0, <3>1, <3>3
      <4>2. e.sec[k] = Seen(e.start + 4 * j + b)
        BY <3>1, <4>1 DEF Copying
      <4>3. y.sec[k] = e.sec[k]
        BY <1>0, <1>6, <4>1 DEF Searches
      <4>4. QED
        BY <3>1, <4>2, <4>3
    <3>4. QED
      BY <3>2, <3>3
  <2>2. QED
    BY <2>1
<1>9. y.copying = 3 - c
  BY <1>2, <1>3
<1>10. y.oamAddr = (e.start + 4 * j + c + 1) % Bytes /\ y.secAddr = (4 * r + c + 1) % (4 * Slots)
  BY <1>3, <1>4, <1>5
<1>11. QED
  BY <1>1, <1>2, <1>3, <1>4, <1>5, <1>6, <1>7, <1>8, <1>9, <1>10 DEF y

(* After it comes the next byte.                                           *)
LEMMA CopyingOn ==
  ASSUME EvalTypes, NEW j \in 0..Sprites, e.start % 4 = 0, NEW c \in 1..2,
         Filled(e, j), Copying(e, dot, j, c), dot % 2 = 0
  PROVE  Copying(Searched(e), dot + 1, j, c + 1)
<1> DEFINE y == Searched(e)
           r == Rank(e.start, j)
<1>0. /\ e \in Searches /\ j \in Nat /\ e.start \in 0..Bytes - 1 /\ r \in Nat
      /\ dot \in Nat /\ e.start \in Nat /\ Bytes \in Nat /\ Base(e.start, j) \in Nat
  BY SearchBasics
<1>1. /\ dot = Base(e.start, j) + 2 * c + 1
      /\ y.start = e.start /\ ~y.ranged
      /\ y.oamAddr = (e.start + 4 * j + c + 1) % Bytes
      /\ y.secAddr = (4 * r + c + 1) % (4 * Slots)
      /\ y.copying = 3 - c
      /\ y.addrOver <=> y.oamAddr = 0
      /\ y.secOver <=> y.secAddr = 0
      /\ \A b \in 0..c : y.sec[4 * r + b] = Seen(e.start + 4 * j + b)
  <2>1. c \in 1..3
    OBVIOUS
  <2>2. QED
    BY <2>1, CopyingBasics
<1> HIDE DEF y
<1>2. e.start + 4 * j < Bytes /\ r < Slots /\ Stored(e.start + 4 * j) \in near
  BY DEF Copying
<1>3. y.oamAddr = e.start + 4 * j + (c + 1)
  <2>1. PICK a \in Nat : a = e.start + 4 * j + (c + 1)
    BY <1>0
  <2>2. c + 1 \in 0..3
    OBVIOUS
  <2>3. a \in 0..Bytes - 1
    BY <1>0, <1>2, <2>1, <2>2, SpriteAddress
  <2>4. a % Bytes = a
    BY <1>0, <2>3
  <2>5. e.start + 4 * j + c + 1 = a
    BY <1>0, <2>1
  <2>6. QED
    BY <1>1, <2>1, <2>4, <2>5
<1>4. y.secAddr = 4 * r + (c + 1)
  <2>1. PICK a \in Nat : a = 4 * r + (c + 1)
    BY <1>0
  <2>2. a < 4 * Slots
    BY <1>0, <1>2, <2>1, EvalSizes
  <2>3. a % (4 * Slots) = a
    BY <2>1, <2>2, EvalSizes
  <2>4. 4 * r + c + 1 = a
    BY <1>0, <2>1
  <2>5. QED
    BY <1>1, <2>1, <2>3, <2>4
<1>5. Free(y)
  <2>1. y.oamAddr # 0
    BY <1>0, <1>3
  <2>2. y.secAddr # 0
    BY <1>0, <1>4
  <2>3. QED
    BY <1>1, <2>1, <2>2 DEF Free
<1>6. ReadAt(y, dot + 1, Base(e.start, j) + 2 * (c + 1))
  <2>1. PICK p \in Nat : p = Base(e.start, j)
    BY <1>0
  <2>2. dot + 1 = p + 2 * (c + 1)
    BY <1>1, <2>1
  <2>3. QED
    BY <2>1, <2>2 DEF ReadAt
<1>7. y.copying = 4 - (c + 1) /\ (c + 1) - 1 = c
  BY <1>1
<1>8. Copying(y, dot + 1, j, c + 1)
  BY <1>1, <1>2, <1>3, <1>4, <1>5, <1>6, <1>7 DEF Copying
<1>9. QED
  BY <1>8 DEF y

(* computeSpriteOverflowCycle, once the sprite that fills the slots is     *)
(* known: the first of the bytes looked at that reads as on the line.      *)
LEMMA ComputeIs ==
  ASSUME NEW first \in Nat, first - 1 \in Found(0, Sprites), Rank(0, first - 1) = Slots - 1
  PROVE  /\ \A s \in first..Sprites - 1 :
              /\ NinthAt(first, s) /\ DotOf(s) <= EvalEnd
              /\ \A t \in first..s - 1 : ~NinthAt(first, t)
              => ComputeSpriteOverflowCycle = 1 + DotOf(s)
         /\ (\A t \in first..Sprites - 1 : ~NinthAt(first, t)) => ComputeSpriteOverflowCycle = NoDot
         /\ ComputeSpriteOverflowCycle # NoDot =>
              \E s \in first..Sprites - 1 :
                NinthAt(first, s) /\ ComputeSpriteOverflowCycle = 1 + DotOf(s)
<1> DEFINE ninths == {s \in first..Sprites - 1 : NinthAt(first, s) /\ DotOf(s) <= EvalEnd}
           least == CHOOSE s \in ninths : \A t \in ninths : s <= t
<1>1. FoundAt(0, Slots) = first - 1
  BY FoundAtIs, EvalSizes
<1>2. FoundAt(0, Slots) + 1 = first
  BY <1>1
<1>3. ~(Rank(0, Sprites) < Slots)
  <2>1. Rank(0, first - 1) < Rank(0, Sprites) /\ first - 1 \in Nat
    BY RankStrict, EvalSizes
  <2>2. QED
    BY <2>1, FoundFinite, EvalSizes
<1>4. ComputeSpriteOverflowCycle = IF ninths = {} THEN NoDot ELSE 1 + DotOf(least)
  <2> DEFINE after(f) == {s \in f..Sprites - 1 : NinthAt(f, s) /\ DotOf(s) <= EvalEnd}
             result(f) == IF after(f) = {} THEN NoDot
                          ELSE 1 + DotOf(CHOOSE s \in after(f) : \A t \in after(f) : s <= t)
  <2>1. ComputeSpriteOverflowCycle =
          IF Rank(0, Sprites) < Slots THEN NoDot ELSE result(FoundAt(0, Slots) + 1)
    BY DEF ComputeSpriteOverflowCycle, Rank, NinthAt, DotOf
  <2>2. result(first) = IF ninths = {} THEN NoDot ELSE 1 + DotOf(least)
    OBVIOUS
  <2> HIDE DEF result, least, ninths
  <2>3. ComputeSpriteOverflowCycle = result(first)
    BY <1>2, <1>3, <2>1
  <2>4. QED
    BY <2>2, <2>3
<1>5. ninths \subseteq first..Sprites - 1 /\ ninths \subseteq Nat
  BY EvalSizes
<1>6. ninths # {} => least \in ninths /\ \A t \in ninths : least <= t
  <2>1. ASSUME ninths # {} PROVE \E s \in ninths : \A t \in ninths : s <= t
    <3> HIDE DEF ninths
    <3>1. QED
      BY <1>5, <2>1, FirstNumber
  <2>2. QED
    BY <2>1
<1>7. ASSUME NEW s \in first..Sprites - 1, NinthAt(first, s), DotOf(s) <= EvalEnd,
             \A t \in first..s - 1 : ~NinthAt(first, t)
      PROVE  ComputeSpriteOverflowCycle = 1 + DotOf(s)
  <2>1. s \in ninths
    BY <1>7
  <2>2. \A t \in ninths : s <= t
    <3>1. ASSUME NEW t \in ninths, t < s PROVE FALSE
      <4>1. t \in first..s - 1 /\ NinthAt(first, t)
        BY <3>1, EvalSizes
      <4>2. QED
        BY <1>7, <4>1
    <3>2. QED
      BY <1>5, <3>1, EvalSizes
  <2>3. least = s
    BY <1>5, <1>6, <2>1, <2>2, EvalSizes
  <2>4. QED
    BY <1>4, <2>1, <2>3
<1>8. ASSUME \A t \in first..Sprites - 1 : ~NinthAt(first, t)
      PROVE  ComputeSpriteOverflowCycle = NoDot
  BY <1>4, <1>8
<1>9. ASSUME ComputeSpriteOverflowCycle # NoDot
      PROVE  \E s \in first..Sprites - 1 :
               NinthAt(first, s) /\ ComputeSpriteOverflowCycle = 1 + DotOf(s)
  BY <1>4, <1>5, <1>6, <1>9
<1>10. QED
  BY <1>7, <1>8, <1>9

(* Slots that are not filled: no overflow.                                 *)
LEMMA ComputeNone ==
  ASSUME Rank(0, Sprites) < Slots
  PROVE  ComputeSpriteOverflowCycle = NoDot
BY DEF ComputeSpriteOverflowCycle, Rank

(* Bits 2 to 4 of an attribute byte make no difference to the line.        *)
LEMMA WholeReads ==
  ASSUME EvalTypes, Whole, NEW a \in 0..Bytes - 1
  PROVE  Seen(a) \in near <=> Stored(a) \in near
<1>1. Memory[a] \in 0..Bytes - 1
  BY MemoryType
<1>2. <<Memory[a], TRUE>> \in near <=> <<Memory[a], FALSE>> \in near
  BY <1>1 DEF Whole
<1>3. CASE a % 4 = 2
  <2>1. (a % 4 = 2) = TRUE
    BY <1>3
  <2>2. QED
    BY <1>2, <2>1, Zenon DEF Seen, Stored
<1>4. CASE a % 4 # 2
  <2>1. (a % 4 = 2) = FALSE
    BY <1>4
  <2>2. QED
    BY <2>1, Zenon DEF Seen, Stored
<1>5. QED
  BY <1>3, <1>4

(* Sprite after sprite, and byte after byte of them.                       *)
LEMMA PassingAddress ==
  ASSUME NEW first \in Nat, NEW s \in first..Sprites - 1
  PROVE  /\ 4 * s + ((s - first) % 4) \in 0..Bytes - 1
         /\ 4 * ((4 * s + ((s - first) % 4)) \div 4 + 1) = 4 * (s + 1)
         /\ (4 * s + ((s - first) % 4) + 1) % 4 = (s + 1 - first) % 4
<1>1. PICK n \in Nat : s = first + n /\ s \in Nat /\ s < Sprites
  <2>1. s - first \in Nat /\ s = first + (s - first) /\ s \in Nat /\ s < Sprites
    BY EvalSizes
  <2>2. QED
    BY <2>1
<1>2. PICK m \in 0..3 : m = n % 4
  BY <1>1
<1>3. (4 * s + m) \div 4 = s /\ (4 * s + m + 1) % 4 = (m + 1) % 4
  BY <1>1, <1>2
<1>4. (n + 1) % 4 = (m + 1) % 4
  BY <1>1, <1>2
<1>5. s - first = n /\ s + 1 - first = n + 1 /\ 4 * s + m < Bytes
  BY <1>1, <1>2, EvalSizes
<1>6. (s - first) % 4 = m /\ (s + 1 - first) % 4 = (m + 1) % 4
  BY <1>2, <1>4, <1>5
<1>7. 4 * s + m \in 0..Bytes - 1
  BY <1>1, <1>2, <1>5, EvalSizes
<1>8. QED
  BY <1>3, <1>6, <1>7

(* The slots full, a ninth sprite is looked for.                           *)
LEMMA FullOn ==
  ASSUME EvalTypes, NEW j \in 0..Sprites, Filled(e, j), Full(e, dot, j), dot % 2 = 0,
         dot <= EvalEnd, overflowDot = ComputeSpriteOverflowCycle
  PROVE  Filled(Searched(e), j) /\ Full(Searched(e), dot + 1, j)
<1> DEFINE y == Searched(e)
<1>0. e \in Searches /\ j \in Nat /\ dot \in Nat
  BY SearchBasics
<1>1. /\ y.start = e.start /\ y.sec = e.sec /\ y.secAddr = e.secAddr
      /\ y.copying = 0 /\ y.secOver
  BY <1>0, SearchedPast DEF Full
<1>2. e.secOver /\ e.copying = 0
  BY DEF Full
<1> HIDE DEF y
<1>3. Filled(y, j)
  BY <1>1 DEF Filled
<1>4. ASSUME e.start = 0, Whole PROVE Past(y, dot + 1, j)
  <2>0. /\ Past(e, dot, j) /\ j - 1 \in Found(0, Sprites) /\ Rank(0, j - 1) = Slots - 1
    BY <1>4 DEF Full
  <2>1. CASE Met(e, dot)
    <3>1. overflowDot \in {NoDot} \cup Nat /\ e.ranged /\ overflowDot # NoDot /\ overflowDot < dot
      BY <2>1 DEF EvalTypes, Met
    <3>2. y.ranged
      BY <1>0, <1>2, <3>1, PastOver, PastRanged DEF y
    <3>3. overflowDot < dot + 1
      BY <1>0, <3>1 DEF NoDot
    <3>4. QED
      BY <3>1, <3>2, <3>3 DEF Past, Met
  <2>2. CASE Passed(e, j)
    <3>1. y.addrOver /\ ~y.ranged
      BY <1>0, <1>2, <2>2, PastOver DEF Passed, y
    <3>2. QED
      BY <2>2, <3>1 DEF Past, Passed
  <2>3. ASSUME NEW s \in j..Sprites - 1, Passing(e, dot, j, s) PROVE Past(y, dot + 1, j)
    <3>0. s \in Nat /\ DotOf(s) \in Nat /\ DotOf(s) % 2 = 1
      <4>1. s \in Nat
        BY <1>0, EvalSizes
      <4>2. QED
        BY <4>1, OddDots
    <3> DEFINE a == 4 * s + ((s - j) % 4)
    <3>1. dot = DotOf(s) + 1 /\ e.buffer = Seen(e.oamAddr)
      BY <1>0, <2>3, <3>0, ReadAtEven DEF Passing
    <3>2. /\ ~e.addrOver /\ ~e.ranged /\ e.oamAddr = a
          /\ \A t \in j..s - 1 : ~NinthAt(j, t)
      BY <2>3 DEF Passing
    <3>3. a \in 0..Bytes - 1 /\ 4 * (a \div 4 + 1) = 4 * (s + 1) /\ (a + 1) % 4 = (s + 1 - j) % 4
      BY <1>0, PassingAddress
    <3>4. e.buffer \in near <=> NinthAt(j, s)
      BY <1>4, <3>1, <3>2, <3>3, WholeReads DEF NinthAt
    <3> HIDE DEF a
    <3>5. CASE e.buffer \in near
      <4>1. y.ranged
        BY <1>0, <1>2, <3>2, <3>5, PastRanged DEF y
      <4>2. DotOf(s) <= EvalEnd
        BY <3>0, <3>1, EvalSizes
      <4>3. overflowDot = 1 + DotOf(s)
        BY <1>0, <2>0, <3>2, <3>4, <3>5, <4>2, ComputeIs
      <4>4. overflowDot # NoDot /\ overflowDot < dot + 1
        BY <3>0, <3>1, <4>3 DEF NoDot
      <4>5. QED
        BY <4>1, <4>4 DEF Past, Met
    <3>6. CASE e.buffer \notin near
      <4>1. /\ ~y.ranged
            /\ y.oamAddr = ((4 * (s + 1)) % Bytes) + ((s + 1 - j) % 4)
            /\ y.addrOver <=> y.oamAddr < 4
        BY <1>0, <1>2, <3>2, <3>3, <3>6, PastNext DEF y
      <4>2. \A t \in j..(s + 1) - 1 : ~NinthAt(j, t)
        BY <1>0, <3>0, <3>2, <3>4, <3>6
      <4>3. (s + 1 - j) % 4 \in 0..3
        BY <1>0, <3>0
      <4>4. CASE s + 1 = Sprites
        <5>1. (4 * (s + 1)) % Bytes = 0
          BY <4>4, EvalSizes
        <5>2. y.oamAddr < 4
          BY <4>1, <4>3, <5>1
        <5>3. Passed(y, j)
          BY <4>1, <4>2, <4>4, <5>2, EvalSizes DEF Passed
        <5>4. QED
          BY <5>3 DEF Past
      <4>5. CASE s + 1 < Sprites
        <5>1. (4 * (s + 1)) % Bytes = 4 * (s + 1)
          BY <3>0, <4>5, EvalSizes
        <5>2. ~(y.oamAddr < 4) /\ y.oamAddr = 4 * (s + 1) + ((s + 1 - j) % 4)
          BY <3>0, <4>1, <4>3, <5>1
        <5>3. dot + 1 = DotOf(s + 1)
          BY <3>0, <3>1, EvalSizes DEF DotOf
        <5>4. Passing(y, dot + 1, j, s + 1)
          BY <4>1, <4>2, <5>2, <5>3 DEF Passing, ReadAt
        <5>5. s + 1 \in j..Sprites - 1
          BY <1>0, <3>0, <4>5, EvalSizes
        <5>6. QED
          BY <5>4, <5>5 DEF Past
      <4>6. QED
        BY <3>0, <4>4, <4>5, EvalSizes
    <3>7. QED
      BY <3>5, <3>6
  <2>4. QED
    BY <2>0, <2>1, <2>2, <2>3 DEF Past
<1>5. Full(y, dot + 1, j)
  BY <1>1, <1>4 DEF Full
<1>6. QED
  BY <1>3, <1>5 DEF y

(* The last byte of a sprite copied: the next is looked at, or OAM is at   *)
(* its end, or the slots are full.                                         *)
LEMMA CopyingEnds ==
  ASSUME EvalTypes, NEW j \in 0..Sprites, e.start % 4 = 0, Filled(e, j),
         Copying(e, dot, j, 3), dot % 2 = 0
  PROVE  /\ j + 1 \in 0..Sprites /\ Filled(Searched(e), j + 1)
         /\ \/ Looking(Searched(e), dot + 1, j + 1)
            \/ Over(Searched(e), j + 1)
            \/ Full(Searched(e), dot + 1, j + 1)
<1> DEFINE y == Searched(e)
           r == Rank(e.start, j)
           s == e.start
<1>0. /\ e \in Searches /\ j \in Nat /\ s \in 0..Bytes - 1 /\ r \in Nat
      /\ dot \in Nat /\ s \in Nat /\ Bytes \in Nat /\ Base(s, j) \in Nat
  BY SearchBasics
<1>1. /\ dot = Base(s, j) + 2 * 3 + 1
      /\ y.start = s /\ ~y.ranged
      /\ y.oamAddr = (s + 4 * j + 3 + 1) % Bytes
      /\ y.secAddr = (4 * r + 3 + 1) % (4 * Slots)
      /\ y.copying = 3 - 3
      /\ y.addrOver <=> y.oamAddr = 0
      /\ y.secOver <=> y.secAddr = 0
      /\ Filled(y, j)
      /\ \A b \in 0..3 : y.sec[4 * r + b] = Seen(s + 4 * j + b)
  <2>1. PICK c \in 1..3 : c = 3
    OBVIOUS
  <2>2. Copying(e, dot, j, c)
    BY <2>1
  <2>3. /\ dot = Base(s, j) + 2 * c + 1
        /\ y.start = s /\ ~y.ranged
        /\ y.oamAddr = (s + 4 * j + c + 1) % Bytes
        /\ y.secAddr = (4 * r + c + 1) % (4 * Slots)
        /\ y.copying = 3 - c
        /\ y.addrOver <=> y.oamAddr = 0
        /\ y.secOver <=> y.secAddr = 0
        /\ Filled(y, j)
        /\ \A b \in 0..c : y.sec[4 * r + b] = Seen(s + 4 * j + b)
    BY <2>2, CopyingBasics
  <2> HIDE DEF y, r, s
  <2>4. QED
    BY <2>1, <2>3
<1> HIDE DEF y
<1>2. s + 4 * j < Bytes /\ r < Slots /\ Stored(s + 4 * j) \in near
  BY DEF Copying
<1>a. j < Sprites /\ (s + 4 * j) % Bytes = s + 4 * j /\ s + 4 * (j + 1) <= Bytes
  BY <1>0, <1>2, SpriteAddress
<1>3. j + 1 \in 0..Sprites /\ j \in Found(s, j + 1) /\ j \in Found(s, Sprites)
  BY <1>0, <1>2, <1>a, EvalSizes DEF Found
<1>4. Rank(s, j + 1) = r + 1
  BY <1>0, <1>2, <1>a, RankStep
<1>5. Filled(y, j + 1)
  <2> SUFFICES ASSUME NEW i \in Found(s, j + 1), NEW b \in 0..3
               PROVE  y.sec[4 * Rank(s, i) + b] = Seen(s + 4 * i + b)
    BY <1>1 DEF Filled
  <2>1. CASE i = j
    BY <1>1, <2>1
  <2>2. CASE i # j
    <3>1. i \in Found(s, j)
      BY <1>0, <2>2 DEF Found
    <3>2. QED
      BY <1>1, <3>1 DEF Filled
  <2>3. QED
    BY <2>1, <2>2
<1>6. y.secOver <=> r + 1 = Slots
  <2>1. PICK k \in Nat : k = 4 * r + 3 + 1
    BY <1>0
  <2>2. CASE r + 1 = Slots
    <3>1. k = 4 * Slots /\ 4 * Slots > 0
      BY <1>0, <2>1, <2>2, EvalSizes
    <3>2. k % (4 * Slots) = 0
      BY <3>1, EvalSizes
    <3>3. QED
      BY <1>1, <2>1, <2>2, <3>2
  <2>3. CASE r + 1 # Slots
    <3>1. k < 4 * Slots /\ k > 0
      <4>1. r \in Nat /\ Slots \in Nat /\ r < Slots
        BY <1>0, <1>2, EvalSizes
      <4>2. QED
        BY <2>1, <2>3, <4>1
    <3>2. k % (4 * Slots) = k
      BY <2>1, <3>1, EvalSizes
    <3>3. QED
      BY <1>1, <2>1, <2>3, <3>1, <3>2
  <2>4. QED
    BY <2>2, <2>3
<1>7. y.secAddr = IF r + 1 = Slots THEN 0 ELSE 4 * (r + 1)
  <2>1. PICK k \in Nat : k = 4 * r + 3 + 1 /\ k = 4 * (r + 1)
    BY <1>0
  <2>2. CASE r + 1 = Slots
    BY <1>1, <1>6, <2>2
  <2>3. CASE r + 1 # Slots
    <3>1. k < 4 * Slots
      BY <1>0, <1>2, <2>1, <2>3, EvalSizes
    <3>2. k % (4 * Slots) = k
      BY <2>1, <3>1, EvalSizes
    <3>3. QED
      BY <1>1, <2>1, <2>3, <3>2
  <2>4. QED
    BY <2>2, <2>3
<1>8. y.oamAddr = (s + 4 * (j + 1)) % Bytes
  <2>1. s + 4 * j + 3 + 1 = s + 4 * (j + 1)
    BY <1>0
  <2>2. QED
    BY <1>1, <2>1
<1>9. y.copying = 0
  BY <1>1
<1>b. PICK a \in Nat : a = s + 4 * (j + 1) /\ a >= 4 /\ a <= Bytes
  BY <1>0, <1>a
<1>10. y.oamAddr = IF a = Bytes THEN 0 ELSE a
  <2>1. a % Bytes = IF a = Bytes THEN 0 ELSE a
    <3>1. Bytes \in Nat
      BY <1>0
    <3>2. QED
      BY <1>b, <3>1
  <2>2. QED
    BY <1>8, <1>b, <2>1
<1>11. PICK p \in Nat : p = Base(s, j)
  BY <1>0
<1>12. CASE r + 1 # Slots /\ a # Bytes
  <2>1. Base(s, j + 1) = p + 8
    BY <1>0, <1>4, <1>11, EvalSizes DEF Base
  <2>2. dot + 1 = p + 8
    BY <1>1, <1>11
  <2>3. ReadAt(y, dot + 1, Base(s, j + 1))
    BY <2>1, <2>2 DEF ReadAt
  <2>4. Free(y)
    BY <1>1, <1>6, <1>b, <1>10, <1>12 DEF Free
  <2>5. Rank(s, j + 1) < Slots /\ y.secAddr = 4 * Rank(s, j + 1)
    <3>1. r \in Nat /\ Slots \in Nat /\ r < Slots
      BY <1>0, <1>2, EvalSizes
    <3>2. QED
      BY <1>4, <1>7, <1>12, <3>1
  <2>6. y.oamAddr = a /\ a < Bytes
    BY <1>0, <1>b, <1>10, <1>12
  <2>7. Looking(y, dot + 1, j + 1)
    BY <1>1, <1>9, <1>b, <2>3, <2>4, <2>5, <2>6 DEF Looking
  <2>8. QED
    BY <1>3, <1>5, <2>7 DEF y
<1>13. CASE r + 1 # Slots /\ a = Bytes
  <2>1. y.addrOver /\ ~y.secOver
    BY <1>1, <1>6, <1>10, <1>13
  <2>2. Rank(s, j + 1) < Slots /\ y.secAddr = 4 * Rank(s, j + 1)
    <3>1. r \in Nat /\ Slots \in Nat /\ r < Slots
      BY <1>0, <1>2, EvalSizes
    <3>2. QED
      BY <1>4, <1>7, <1>13, <3>1
  <2>3. Over(y, j + 1)
    BY <1>1, <1>9, <1>b, <1>13, <2>1, <2>2 DEF Over
  <2>4. QED
    BY <1>3, <1>5, <2>3 DEF y
<1>14. CASE r + 1 = Slots
  <2>1. (j + 1) - 1 = j /\ Rank(s, j) = Slots - 1 /\ Rank(s, j + 1) = Slots
    BY <1>0, <1>4, <1>14, EvalSizes
  <2>2. ASSUME y.start = 0, Whole PROVE Past(y, dot + 1, j + 1)
    <3>0. s = 0
      BY <1>1, <2>2
    <3>1. CASE a = Bytes
      <4>1. j + 1 = Sprites
        BY <1>0, <1>b, <3>0, <3>1, EvalSizes
      <4>2. \A t \in j + 1..Sprites - 1 : ~NinthAt(j + 1, t)
        BY <1>0, <4>1, EvalSizes
      <4>3. y.addrOver
        BY <1>1, <1>10, <3>1
      <4>4. QED
        BY <1>1, <4>2, <4>3 DEF Past, Passed
    <3>2. CASE a # Bytes
      <4>1. a = 4 * (j + 1) /\ a < Bytes
        BY <1>0, <1>b, <3>0, <3>2
      <4>2. j + 1 \in j + 1..Sprites - 1
        BY <1>0, <4>1, EvalSizes
      <4>3. ((j + 1) - (j + 1)) % 4 = 0
        BY <1>0
      <4>4. y.oamAddr = 4 * (j + 1) + (((j + 1) - (j + 1)) % 4)
        BY <1>0, <1>10, <3>2, <4>1, <4>3
      <4>5. ~y.addrOver
        BY <1>1, <1>10, <1>b, <3>2
      <4>6. dot + 1 = DotOf(j + 1)
        <5>1. PICK q \in Nat : q = ClearEnd
          BY EvalSizes
        <5>2. Base(s, j) = q + 1 + 2 * j + 6 * r /\ DotOf(j + 1) = q + 1 + 6 * Slots + 2 * (j + 1)
          BY <5>1 DEF Base, DotOf
        <5>3. r = Slots - 1 /\ Slots \in Nat /\ j \in Nat
          BY <1>0, <1>14, EvalSizes
        <5>4. QED
          BY <1>1, <5>1, <5>2, <5>3
      <4>7. \A t \in j + 1..(j + 1) - 1 : ~NinthAt(j + 1, t)
        BY <1>0
      <4>8. Passing(y, dot + 1, j + 1, j + 1)
        BY <1>1, <4>4, <4>5, <4>6, <4>7 DEF Passing, ReadAt
      <4>9. QED
        BY <4>2, <4>8 DEF Past
    <3>3. QED
      BY <3>1, <3>2
  <2>3. y.secOver
    BY <1>6, <1>14
  <2>4. Full(y, dot + 1, j + 1)
    BY <1>1, <1>3, <1>9, <1>a, <2>1, <2>2, <2>3 DEF Full
  <2>5. QED
    BY <1>3, <1>5, <2>4 DEF y
<1>15. QED
  BY <1>12, <1>13, <1>14

(* One dot of the search.                                                  *)
LEMMA SearchGoesOn ==
  ASSUME EvalTypes, NEW j \in 0..Sprites, SearchAt(e, dot, j),
         dot \in ClearEnd + 2..EvalEnd, overflowDot = ComputeSpriteOverflowCycle
  PROVE  \E k \in 0..Sprites : SearchAt(Evaluated(e), dot + 1, k)
<1>0. dot \in Nat /\ dot # ClearEnd + 1 /\ dot <= EvalEnd /\ (dot % 2 = 0 \/ dot % 2 = 1)
  BY EvalSizes
<1>1. CASE dot % 2 = 1
  BY <1>1, SearchReads
<1>2. CASE dot % 2 = 0
  <2>1. Evaluated(e) = Searched(e)
    BY <1>0, <1>2 DEF Evaluated
  <2> DEFINE y == Searched(e)
  <2>2. e.start % 4 = 0 /\ Filled(e, j)
    BY DEF SearchAt
  <2>3. y.start % 4 = 0
    <3>1. CASE e.secOver
      <4>1. y.start = e.start
        BY <3>1, SearchBasics, SearchedPast DEF SearchAt, Looking, Copying, Over, Full, Free
      <4>2. QED
        BY <2>2, <4>1
    <3>2. CASE ~e.secOver
      <4>1. e.copying \in 0..3 /\ e \in Searches
        BY SearchBasics DEF Searches
      <4>2. ~e.addrOver \/ e.copying = 0
        BY <3>2 DEF SearchAt, Looking, Copying, Over, Full, Free
      <4>3. y.start = e.start
        <5>1. CASE e.copying > 0
          <6>1. ~e.addrOver
            BY <4>1, <4>2, <5>1
          <6>2. QED
            BY <3>2, <4>1, <5>1, <6>1, SearchedCopies
        <5>2. CASE e.copying = 0 /\ ~e.addrOver /\ e.buffer \in near
          BY <3>2, <4>1, <5>2, SearchedCopies
        <5>3. CASE e.copying = 0 /\ (e.addrOver \/ e.buffer \notin near)
          BY <3>2, <4>1, <5>3, SearchedPasses
        <5>4. QED
          BY <4>1, <5>1, <5>2, <5>3
      <4>4. QED
        BY <2>2, <4>3
    <3>3. QED
      BY <3>1, <3>2
  <2> HIDE DEF y
  <2>4. CASE Looking(e, dot, j) /\ Stored(e.start + 4 * j) \in near
    <3>1. Filled(y, j) /\ Copying(y, dot + 1, j, 1)
      BY <1>2, <2>2, <2>4, LookingNear DEF y
    <3>2. SearchAt(y, dot + 1, j)
      BY <2>3, <3>1 DEF SearchAt
    <3>3. QED
      BY <2>1, <3>2 DEF y
  <2>5. CASE Looking(e, dot, j) /\ Stored(e.start + 4 * j) \notin near
    <3>1. /\ j + 1 \in 0..Sprites /\ Filled(y, j + 1)
          /\ Looking(y, dot + 1, j + 1) \/ Over(y, j + 1)
      BY <1>2, <2>2, <2>5, LookingFar DEF y
    <3>2. SearchAt(y, dot + 1, j + 1)
      BY <2>3, <3>1 DEF SearchAt
    <3>3. QED
      BY <2>1, <3>1, <3>2 DEF y
  <2>6. ASSUME NEW c \in 1..3, Copying(e, dot, j, c)
        PROVE  \E k \in 0..Sprites : SearchAt(Evaluated(e), dot + 1, k)
    <3>1. CASE c \in 1..2
      <4>1. Copying(y, dot + 1, j, c + 1) /\ c + 1 \in 1..3
        BY <1>2, <2>2, <2>6, <3>1, CopyingOn DEF y
      <4>2. Filled(y, j)
        BY <1>2, <2>2, <2>6, CopyingBasics DEF y
      <4>3. SearchAt(y, dot + 1, j)
        BY <2>3, <4>1, <4>2 DEF SearchAt
      <4>4. QED
        BY <2>1, <4>3 DEF y
    <3>2. CASE c = 3
      <4>1. /\ j + 1 \in 0..Sprites /\ Filled(y, j + 1)
            /\ Looking(y, dot + 1, j + 1) \/ Over(y, j + 1) \/ Full(y, dot + 1, j + 1)
        BY <1>2, <2>2, <2>6, <3>2, CopyingEnds DEF y
      <4>2. SearchAt(y, dot + 1, j + 1)
        BY <2>3, <4>1 DEF SearchAt
      <4>3. QED
        BY <2>1, <4>1, <4>2 DEF y
    <3>3. QED
      BY <3>1, <3>2
  <2>7. CASE Over(e, j)
    <3>1. Filled(y, j) /\ Over(y, j)
      BY <2>2, <2>7, OverOn DEF y
    <3>2. SearchAt(y, dot + 1, j)
      BY <2>3, <3>1 DEF SearchAt
    <3>3. QED
      BY <2>1, <3>2 DEF y
  <2>8. CASE Full(e, dot, j)
    <3>1. Filled(y, j) /\ Full(y, dot + 1, j)
      BY <1>0, <1>2, <2>2, <2>8, FullOn DEF y
    <3>2. SearchAt(y, dot + 1, j)
      BY <2>3, <3>1 DEF SearchAt
    <3>3. QED
      BY <2>1, <3>2 DEF y
  <2>9. QED
    BY <2>4, <2>5, <2>6, <2>7, <2>8 DEF SearchAt
<1>3. QED
  BY <1>0, <1>1, <1>2

(* The dot on which the search begins.                                     *)
LEMMA SearchBegins ==
  ASSUME EvalTypes, dot = ClearEnd + 1, Evaluated(e).start % 4 = 0
  PROVE  SearchAt(Evaluated(e), dot + 1, 0)
<1> DEFINE w == Restarted(e)
           y == [w EXCEPT !.buffer = Seen(w.oamAddr)]
<1>0. e \in Searches /\ dot \in Nat /\ e.oamAddr \in 0..Bytes - 1 /\ Bytes \in Nat
  BY EvalSizes DEF EvalTypes, Searches
<1>1. dot % 2 = 1 /\ dot = Base(e.oamAddr, 0)
  <2>1. Base(e.oamAddr, 0) = ClearEnd + 1
    BY FoundFinite, EvalSizes DEF Base
  <2>2. QED
    <3>1. e.oamAddr \in Nat
      BY <1>0
    <3>2. 0 \in Nat /\ Base(e.oamAddr, 0) % 2 = 1
      BY <3>1, OddDots
    <3>3. dot = Base(e.oamAddr, 0)
      BY <2>1
    <3>4. QED
      BY <3>2, <3>3
<1>2. Evaluated(e) = y
  BY <1>1 DEF Evaluated
<1>3. /\ w \in Searches /\ w.oamAddr = e.oamAddr /\ w.start = e.oamAddr /\ w.secAddr = 0
      /\ w.copying = 0 /\ ~w.addrOver /\ ~w.secOver /\ ~w.ranged
  BY <1>0, RestartedType DEF Restarted, Searches
<1> HIDE DEF w
<1>4. /\ y.oamAddr = e.oamAddr /\ y.start = e.oamAddr /\ y.secAddr = 0
      /\ y.copying = 0 /\ ~y.addrOver /\ ~y.secOver /\ ~y.ranged
      /\ y.buffer = Seen(y.oamAddr)
  BY <1>3 DEF Searches
<1> HIDE DEF y
<1>5. Rank(e.oamAddr, 0) = 0 /\ Found(e.oamAddr, 0) = {}
  <2>1. Found(e.oamAddr, 0) = {}
    BY DEF Found
  <2>2. QED
    BY <2>1, FoundFinite
<1>6. Filled(y, 0)
  BY <1>4, <1>5 DEF Filled
<1>7. e.oamAddr + 4 * 0 = e.oamAddr /\ e.oamAddr < Bytes /\ 4 * 0 = 0
  BY <1>0
<1>8. ReadAt(y, dot + 1, Base(e.oamAddr, 0))
  BY <1>0, <1>1, <1>4 DEF ReadAt
<1>9. Looking(y, dot + 1, 0)
  BY <1>4, <1>5, <1>7, <1>8, EvalSizes DEF Looking, Free
<1>10. QED
  BY <1>2, <1>6, <1>9 DEF SearchAt

(* The dot computed lies behind the sprite that fills the slots.           *)
LEMMA ComputeAhead ==
  ASSUME EvalTypes, ComputeSpriteOverflowCycle # NoDot
  PROVE  \E first \in 1..Sprites :
           /\ first - 1 \in Found(0, Sprites) /\ Rank(0, first - 1) = Slots - 1
           /\ ComputeSpriteOverflowCycle >= 1 + DotOf(first)
<1>1. Slots - 1 \in Nat /\ Slots - 1 < Rank(0, Sprites)
  BY ComputeNone, FoundFinite, EvalSizes
<1>2. PICK i \in Found(0, Sprites) : Rank(0, i) = Slots - 1
  BY <1>1, RankOnto, EvalSizes
<1>3. i \in Nat /\ i + 1 \in 1..Sprites /\ (i + 1) - 1 = i
  BY <1>2, EvalSizes DEF Found
<1>4. PICK s \in i + 1..Sprites - 1 : ComputeSpriteOverflowCycle = 1 + DotOf(s)
  BY <1>2, <1>3, ComputeIs
<1>5. DotOf(s) >= DotOf(i + 1)
  BY <1>3, EvalSizes DEF DotOf
<1>6. DotOf(s) \in Int /\ DotOf(i + 1) \in Int
  BY <1>3, EvalSizes DEF DotOf
<1>7. ComputeSpriteOverflowCycle >= 1 + DotOf(i + 1)
  BY <1>4, <1>5, <1>6
<1>8. QED
  BY <1>2, <1>3, <1>7

(* While the slots are not full the dot of the ninth is still to come.     *)
LEMMA NinthToCome ==
  ASSUME EvalTypes, NEW j \in 0..Sprites, Rank(0, j) < Slots, ComputeSpriteOverflowCycle # NoDot
  PROVE  ComputeSpriteOverflowCycle >= ClearEnd + 4 + 6 * Slots + 2 * j
<1>1. PICK first \in 1..Sprites :
           /\ first - 1 \in Found(0, Sprites) /\ Rank(0, first - 1) = Slots - 1
           /\ ComputeSpriteOverflowCycle >= 1 + DotOf(first)
  BY ComputeAhead
<1>2. j < first
  <2>1. CASE first <= j
    <3>1. first - 1 \in Nat /\ first \in Nat /\ (first - 1) + 1 = first /\ j \in Nat
      BY EvalSizes
    <3>2. Stored((0 + 4 * (first - 1)) % Bytes) \in near
      BY <1>1 DEF Found
    <3>3. Rank(0, (first - 1) + 1) = Rank(0, first - 1) + 1
      BY <3>1, <3>2, RankStep
    <3>4. Rank(0, first) = Slots /\ Rank(0, first) <= Rank(0, j)
      BY <1>1, <2>1, <3>1, <3>3, RankMonotone, EvalSizes
    <3>5. QED
      BY <3>1, <3>4, FoundFinite, EvalSizes
  <2>2. QED
    BY <2>1, EvalSizes
<1>3. DotOf(first) >= ClearEnd + 3 + 6 * Slots + 2 * j /\ DotOf(first) \in Int
  BY <1>2, EvalSizes DEF DotOf
<1>4. PICK q \in Nat : q = ClearEnd + 3 + 6 * Slots + 2 * j
  BY EvalSizes
<1>5. ComputeSpriteOverflowCycle \in Nat
  BY OverflowType
<1>6. DotOf(first) \in Int /\ DotOf(first) >= q
  BY <1>3, <1>4
<1>7. ComputeSpriteOverflowCycle >= q + 1
  BY <1>1, <1>5, <1>6
<1>8. QED
  BY <1>4, <1>7, EvalSizes

(* In the search a ninth sprite was met if and only if its dot is past.    *)
LEMMA RangedIff ==
  ASSUME EvalTypes, NEW x \in Searches, NEW d \in Nat, NEW j \in 0..Sprites, SearchAt(x, d, j),
         x.start = 0, Whole, overflowDot = ComputeSpriteOverflowCycle
  PROVE  x.ranged <=> overflowDot # NoDot /\ overflowDot < d
<1>0. /\ j \in Nat /\ Rank(0, j) \in Nat /\ Base(0, j) = ClearEnd + 1 + 2 * j + 6 * Rank(0, j)
      /\ ClearEnd \in Nat /\ Slots \in Nat
  BY FoundFinite, EvalSizes DEF Base
<1>1. overflowDot \in {NoDot} \cup Nat
  BY DEF EvalTypes
<1>2. CASE Looking(x, d, j)
  <2>1. ~x.ranged /\ Rank(0, j) < Slots /\ (d = Base(0, j) \/ d = Base(0, j) + 1)
    BY <1>2 DEF Looking, Free, ReadAt
  <2>2. overflowDot # NoDot => overflowDot >= ClearEnd + 4 + 6 * Slots + 2 * j
    BY <2>1, NinthToCome
  <2>3. d <= ClearEnd + 2 + 2 * j + 6 * Slots
    BY <1>0, <2>1
  <2>4. overflowDot # NoDot => ~(overflowDot < d)
    BY <1>0, <1>1, <2>2, <2>3
  <2>5. QED
    BY <2>1, <2>4
<1>3. ASSUME NEW c \in 1..3, Copying(x, d, j, c)
      PROVE  x.ranged <=> overflowDot # NoDot /\ overflowDot < d
  <2>1. /\ ~x.ranged /\ Rank(0, j) < Slots
        /\ d = Base(0, j) + 2 * c \/ d = Base(0, j) + 2 * c + 1
    BY <1>3 DEF Copying, Free, ReadAt
  <2>2. overflowDot # NoDot => overflowDot >= ClearEnd + 4 + 6 * Slots + 2 * j
    BY <2>1, NinthToCome
  <2>3. d <= ClearEnd + 2 + 2 * j + 6 * Slots
    BY <1>0, <2>1
  <2>4. overflowDot # NoDot => ~(overflowDot < d)
    BY <1>0, <1>1, <2>2, <2>3
  <2>5. QED
    BY <2>1, <2>4
<1>4. CASE Over(x, j)
  <2>1. ~x.ranged /\ j = Sprites /\ Rank(0, Sprites) < Slots
    BY <1>0, <1>4, EvalSizes DEF Over
  <2>2. overflowDot = NoDot
    BY <2>1, ComputeNone
  <2>3. QED
    BY <2>1, <2>2
<1>5. CASE Full(x, d, j)
  <2>1. Past(x, d, j) /\ j - 1 \in Found(0, Sprites) /\ Rank(0, j - 1) = Slots - 1
    BY <1>5 DEF Full
  <2>2. CASE Met(x, d)
    BY <2>2 DEF Met
  <2>3. CASE Passed(x, j)
    <3>1. overflowDot = NoDot
      BY <1>0, <2>1, <2>3, ComputeIs DEF Passed
    <3>2. QED
      BY <2>3, <3>1 DEF Passed
  <2>4. ASSUME NEW s \in j..Sprites - 1, Passing(x, d, j, s)
        PROVE  x.ranged <=> overflowDot # NoDot /\ overflowDot < d
    <3>1. /\ ~x.ranged /\ (d = DotOf(s) \/ d = DotOf(s) + 1)
          /\ \A t \in j..s - 1 : ~NinthAt(j, t)
      BY <2>4 DEF Passing, ReadAt
    <3>2. ASSUME overflowDot # NoDot PROVE ~(overflowDot < d)
      <4>1. PICK t \in j..Sprites - 1 : NinthAt(j, t) /\ overflowDot = 1 + DotOf(t)
        BY <1>0, <2>1, <3>2, ComputeIs
      <4>2. s <= t /\ s \in Nat /\ t \in Nat
        BY <1>0, <3>1, <4>1, EvalSizes
      <4>3. DotOf(s) <= DotOf(t) /\ DotOf(s) \in Nat /\ DotOf(t) \in Nat
        BY <4>2, EvalSizes DEF DotOf
      <4>4. QED
        BY <3>1, <4>1, <4>3
    <3>3. QED
      BY <3>1, <3>2
  <2>5. QED
    BY <2>1, <2>2, <2>3, <2>4 DEF Past
<1>6. QED
  BY <1>2, <1>3, <1>4, <1>5 DEF SearchAt

(* A dot of the search on a line rendered undisturbed.                     *)
LEMMA QuietDot ==
  ASSUME EvalTypes, SearchInv, ClockDot, line' = "visible", clean',
         dot' \in ClearEnd + 1..EvalEnd + 1
  PROVE  /\ line = "visible" /\ clean /\ dot' = dot + 1 /\ dot \in ClearEnd..EvalEnd
         /\ Memory' = Memory /\ near' = near /\ e' = Clocked(e)
         /\ overflowDot' = IF dot = ClearEnd THEN ComputeSpriteOverflowCycle ELSE overflowDot
<1> DEFINE on   == Head(enabling)
           row  == RowAfter(on)
           hit  == Corrupts(on)
           e1   == IF hit THEN [e EXCEPT !.sec[row] = e.sec[0]] ELSE Refreshed(e)
           home == on /\ Drawn /\ dot \in EvalEnd + 1..FetchEnd
           e2   == IF home THEN [e1 EXCEPT !.oamAddr = 0] ELSE e1
           runs == on /\ (line = "visible" \/ (line = "prerender" /\ (dot = 0 \/ dot > EvalEnd)))
<1>1. on /\ (clean \/ dot = 1)
  BY DEF ClockDot
<1>2. dot \in 0..LastDot /\ ClearEnd \in Nat /\ ClearEnd >= 8 /\ EvalEnd \in Nat
  BY EvalSizes DEF EvalTypes
<1>3. line = "visible" /\ near' = near /\ dot' = dot + 1
  <2>1. AdvanceDot
    BY DEF ClockDot
  <2>2. dot # LastDot
    BY <1>2, <2>1 DEF AdvanceDot
  <2>3. QED
    BY <2>1, <2>2 DEF AdvanceDot
<1>4. dot \in ClearEnd..EvalEnd /\ dot # 1 /\ dot > 0
  BY <1>2, <1>3
<1>5. clean /\ Drawn
  BY <1>1, <1>3, <1>4 DEF Drawn
<1>0. corruption = NoRow
  BY <1>4, <1>5 DEF SearchInv
<1>6. row = NoRow /\ ~hit
  BY <1>0, <1>1 DEF RowAfter, Corrupts
<1>7. ~home /\ runs /\ Refreshed(e) = e
  <2>1. ~home
    <3>1. ~(dot \in EvalEnd + 1..FetchEnd)
      BY <1>2, <1>4, EvalSizes
    <3>2. QED
      BY <3>1
  <2>2. runs
    BY <1>1, <1>3
  <2>3. Refreshed(e) = e
    BY <1>3 DEF Refreshed
  <2>4. QED
    BY <2>1, <2>2, <2>3
<1>8. Memory' = Memory
  <2>1. Memory = oam
    BY <1>0, MemoryUncorrupted
  <2>2. oam' = Memory /\ corruption' = NoRow
    BY <1>6 DEF ClockDot
  <2>3. Memory' = oam'
    BY <2>2 DEF Memory, Corrupts, RowAfter
  <2>4. QED
    BY <2>1, <2>2, <2>3
<1>9. e' = Clocked(e)
  <2>1. e2 = e
    BY <1>6, <1>7
  <2>2. e' = IF runs THEN Clocked(e2) ELSE e2
    BY DEF ClockDot
  <2> HIDE DEF e2, runs
  <2>3. QED
    BY <1>7, <2>1, <2>2
<1>10. overflowDot' = IF dot = ClearEnd THEN ComputeSpriteOverflowCycle ELSE overflowDot
  BY <1>1, <1>3 DEF ClockDot
<1>11. QED
  BY <1>3, <1>4, <1>5, <1>8, <1>9, <1>10

(* A step of the search keeps its start.                                   *)
LEMMA SearchedStart ==
  ASSUME NEW x \in Searches
  PROVE  Searched(x).start = x.start
<1> DEFINE y == IF ~x.addrOver /\ ~x.secOver
                THEN [x EXCEPT !.sec[x.secAddr] = x.buffer] ELSE SecShown(x)
           c == Copied(y)
           p == PastFull(y, x.buffer \in near)
           q == EndAtZero(NextSprite(y))
<1>1. y \in Searches /\ y.start = x.start
  <2>1. [x EXCEPT !.sec[x.secAddr] = x.buffer] \in Searches
    BY DEF Searches
  <2>2. [x EXCEPT !.sec[x.secAddr] = x.buffer].start = x.start
    BY DEF Searches
  <2>3. SecShown(x).start = x.start
    BY DEF SecShown, Searches
  <2>4. QED
    BY <2>1, <2>2, <2>3, SecShownType
<1> HIDE DEF y
<1>2. c \in Searches /\ c.start = y.start
  <2>1. c.start = y.start
    BY <1>1 DEF Copied, EndAtZero, SecNext, Searches
  <2>2. QED
    BY <1>1, <2>1, CopiedType
<1>3. q.start = y.start
  BY <1>1 DEF NextSprite, EndAtZero, Searches
<1>4. p.start = y.start
  <2>1. NextSprite(y).start = y.start
    BY <1>1 DEF NextSprite, Searches
  <2>2. CASE y.addrOver
    BY <2>1, <2>2 DEF PastFull
  <2>3. CASE ~y.addrOver /\ (x.buffer \in near \/ y.ranged)
    <3> DEFINE z == [y EXCEPT !.oamAddr = (@ + 1) % Bytes, !.ranged = TRUE,
                              !.bug = IF @ = 0 THEN 3 ELSE @ - 1]
    <3>1. z.start = y.start
      BY <1>1 DEF Searches
    <3>2. z.start = [z EXCEPT !.addrOver = TRUE, !.oamAddr = 4 * (@ \div 4)].start
      BY <1>1 DEF Searches
    <3>3. p = IF z.bug = 0 THEN [z EXCEPT !.addrOver = TRUE, !.oamAddr = 4 * (@ \div 4)] ELSE z
      BY <2>3 DEF PastFull
    <3> HIDE DEF z
    <3>4. QED
      BY <3>1, <3>2, <3>3
  <2>4. CASE ~y.addrOver /\ ~(x.buffer \in near \/ y.ranged)
    <3> DEFINE next == NextSprite(y).oamAddr + ((y.oamAddr + 1) % 4)
    <3>1. p = [y EXCEPT !.oamAddr = next, !.addrOver = next < 4]
      BY <2>4 DEF PastFull
    <3> HIDE DEF next
    <3>2. QED
      BY <1>1, <3>1 DEF Searches
  <2>5. QED
    BY <2>2, <2>3, <2>4
<1>5. [c EXCEPT !.copying = 3].start = c.start /\ [c EXCEPT !.copying = @ - 1].start = c.start
  BY <1>2 DEF Searches
<1> HIDE DEF c, p, q
<1>6. x.copying \in 0..3
  BY DEF Searches
<1>7. QED
  BY <1>1, <1>2, <1>3, <1>4, <1>5, <1>6 DEF Searched, y, c, p, q

(* Only on its first dot does the search take a start.                     *)
LEMMA EvaluatedStart ==
  ASSUME EvalTypes, dot # ClearEnd + 1
  PROVE  Evaluated(e).start = e.start
<1>1. e \in Searches
  BY DEF EvalTypes
<1>2. [e EXCEPT !.buffer = Seen(e.oamAddr)].start = e.start
  BY <1>1 DEF Searches
<1>3. QED
  BY <1>1, <1>2, SearchedStart DEF Evaluated

(* While what is read stays, so does what is found.                       *)
LEMMA RankKept ==
  ASSUME Memory' = Memory, near' = near
  PROVE  /\ \A s, n : Found(s, n)' = Found(s, n) /\ Rank(s, n)' = Rank(s, n)
         /\ \A a : Stored(a)' = Stored(a) /\ Seen(a)' = Seen(a)
         /\ Whole' <=> Whole
<1>1. \A a : Stored(a)' = Stored(a) /\ Seen(a)' = Seen(a)
  BY DEF Stored, Seen
<1>2. \A s, n : Found(s, n)' = Found(s, n)
  BY DEF Found, Stored
<1>3. \A s, n : Rank(s, n)' = Rank(s, n)
  BY DEF Rank, Found, Stored
<1>4. QED
  BY <1>1, <1>2, <1>3 DEF Whole

(* So does the dot of the overflow.                                        *)
LEMMA ComputeKept ==
  ASSUME Memory' = Memory, near' = near
  PROVE  ComputeSpriteOverflowCycle' = ComputeSpriteOverflowCycle
BY DEF ComputeSpriteOverflowCycle, Found, FoundAt, Stored

(* So does where the machine is.                                           *)
LEMMA SearchAtKept ==
  ASSUME NEW x, NEW d, NEW k, SearchAt(x, d, k), Memory' = Memory, near' = near,
         overflowDot' = overflowDot, e' = x, dot' = d
  PROVE  SearchAt(e, dot, k)'
<1>1. Filled(x, k)' <=> Filled(x, k)
  BY RankKept DEF Filled
<1>2. Looking(x, d, k)' <=> Looking(x, d, k)
  BY RankKept DEF Looking, Free, ReadAt, Base
<1>3. \A c : Copying(x, d, k, c)' <=> Copying(x, d, k, c)
  BY RankKept DEF Copying, Free, ReadAt, Base
<1>4. Over(x, k)' <=> Over(x, k)
  BY RankKept DEF Over
<1>5. Full(x, d, k)' <=> Full(x, d, k)
  <2>1. \A f, s : NinthAt(f, s)' <=> NinthAt(f, s)
    BY RankKept DEF NinthAt
  <2>2. Passed(x, k)' <=> Passed(x, k)
    BY <2>1 DEF Passed
  <2>3. \A s : Passing(x, d, k, s)' <=> Passing(x, d, k, s)
    BY <2>1, RankKept DEF Passing, ReadAt, DotOf
  <2>4. Past(x, d, k)' <=> Past(x, d, k)
    BY <2>2, <2>3 DEF Past, Met
  <2>5. QED
    BY <2>4, RankKept DEF Full
<1>6. SearchAt(x, d, k)'
  BY <1>1, <1>2, <1>3, <1>4, <1>5 DEF SearchAt
<1>7. QED
  BY <1>6

(* The invariant at the start.                                             *)
LEMMA SearchInvStart == EvalInit => SearchInv
<1> SUFFICES ASSUME EvalInit PROVE SearchInv
  OBVIOUS
<1>1. ~clean
  BY DEF EvalInit
<1>2. QED
  BY <1>1 DEF SearchInv, Undisturbed

(* A row to be copied over is left only by a line that rendering was off   *)
(* in.                                                                     *)
LEMMA NoRowKept ==
  ASSUME EvalTypes, SearchInv, ClockDot, clean', Drawn', dot' > 0
  PROVE  corruption' = NoRow
<1> DEFINE on   == Head(enabling)
           row  == RowAfter(on)
           hit  == Corrupts(on)
<1>1. on
  BY DEF ClockDot
<1>2. line' = line
  <2>1. AdvanceDot
    BY DEF ClockDot
  <2>2. dot # LastDot
    BY <2>1 DEF AdvanceDot
  <2>3. QED
    BY <2>1, <2>2 DEF AdvanceDot
<1>3. Drawn
  BY <1>2 DEF Drawn
<1>4. corruption' = IF hit THEN NoRow ELSE row
  BY DEF ClockDot
<1>5. QED
  BY <1>1, <1>3, <1>4 DEF Corrupts

(* On an undisturbed line every dot of the search does a step of it.       *)
LEMMA SearchInvDot == EvalTypes /\ SearchInv /\ ClockDot => SearchInv'
<1> SUFFICES ASSUME EvalTypes, SearchInv, ClockDot PROVE SearchInv'
  OBVIOUS
<1>1. (clean /\ Drawn /\ dot > 0 => corruption = NoRow)'
  BY NoRowKept
<1>2. ASSUME line' = "visible", clean', dot' \in ClearEnd + 1..EvalEnd + 1
      PROVE  overflowDot' = ComputeSpriteOverflowCycle'
  <2>1. /\ line = "visible" /\ clean /\ dot' = dot + 1 /\ dot \in ClearEnd..EvalEnd
        /\ Memory' = Memory /\ near' = near
        /\ overflowDot' = IF dot = ClearEnd THEN ComputeSpriteOverflowCycle ELSE overflowDot
    BY <1>2, QuietDot
  <2>2. overflowDot' = ComputeSpriteOverflowCycle
    <3>1. CASE dot = ClearEnd
      BY <2>1, <3>1
    <3>2. CASE dot # ClearEnd
      <4>1. dot \in ClearEnd + 1..EvalEnd + 1
        BY <2>1, <3>2, EvalSizes
      <4>2. QED
        BY <2>1, <3>2, <4>1 DEF SearchInv, Undisturbed
    <3>3. QED
      BY <3>1, <3>2
  <2>3. QED
    BY <2>1, <2>2, ComputeKept
<1>3. ASSUME line' = "visible", clean', dot' \in ClearEnd + 2..EvalEnd + 1, e'.start % 4 = 0
      PROVE  \E j \in 0..Sprites : SearchAt(e, dot, j)'
  <2>0. dot' \in ClearEnd + 1..EvalEnd + 1
    BY <1>3, EvalSizes
  <2>1. /\ line = "visible" /\ clean /\ dot' = dot + 1 /\ dot \in ClearEnd..EvalEnd
        /\ Memory' = Memory /\ near' = near /\ e' = Clocked(e)
        /\ overflowDot' = IF dot = ClearEnd THEN ComputeSpriteOverflowCycle ELSE overflowDot
    BY <1>3, <2>0, QuietDot
  <2>2. dot \in ClearEnd + 1..EvalEnd /\ dot \notin 1..ClearEnd /\ dot # ClearEnd
    BY <1>3, <2>1, EvalSizes
  <2>3. e' = Evaluated(e) /\ overflowDot' = overflowDot
    <3>1. Clocked(e) = Evaluated(e)
      <4>1. dot \notin EvalEnd + 1..FetchEnd /\ dot # FetchEnd + 1
        BY <2>1, EvalSizes
      <4>2. QED
        BY <2>2, <4>1 DEF Clocked
    <3>2. overflowDot' = overflowDot
      BY <2>1, <2>2
    <3>3. QED
      BY <2>1, <3>1, <3>2
  <2>4. \E k \in 0..Sprites : SearchAt(Evaluated(e), dot + 1, k)
    <3>1. CASE dot = ClearEnd + 1
      <4>1. SearchAt(Evaluated(e), dot + 1, 0)
        BY <1>3, <2>3, <3>1, SearchBegins
      <4>2. 0 \in 0..Sprites
        BY EvalSizes
      <4>3. QED
        BY <4>1, <4>2
    <3>2. CASE dot # ClearEnd + 1
      <4>1. dot \in ClearEnd + 2..EvalEnd /\ dot \in ClearEnd + 2..EvalEnd + 1
            /\ dot \in ClearEnd + 1..EvalEnd + 1
        BY <2>2, <3>2, EvalSizes
      <4>2. e.start % 4 = 0
        BY <1>3, <2>3, <3>2, EvaluatedStart
      <4>3. PICK j \in 0..Sprites : SearchAt(e, dot, j)
        BY <2>1, <4>1, <4>2 DEF SearchInv, Undisturbed
      <4>4. overflowDot = ComputeSpriteOverflowCycle
        BY <2>1, <4>1 DEF SearchInv, Undisturbed
      <4>5. QED
        BY <4>1, <4>3, <4>4, SearchGoesOn
    <3>3. QED
      BY <3>1, <3>2
  <2>5. PICK k \in 0..Sprites : SearchAt(Evaluated(e), dot + 1, k)
    BY <2>4
  <2>6. SearchAt(e, dot, k)'
    BY <2>1, <2>3, <2>5, SearchAtKept
  <2>7. QED
    BY <2>6
<1>4. QED
  BY <1>1, <1>2, <1>3 DEF SearchInv, Undisturbed

(* And over every step.                                                    *)
LEMMA SearchInvStep == EvalTypes /\ SearchInv /\ [EvalNext]_evalVars => SearchInv'
<1> SUFFICES ASSUME EvalTypes, SearchInv, [EvalNext]_evalVars PROVE SearchInv'
  OBVIOUS
<1>1. CASE ClockDot
  BY <1>1, SearchInvDot
<1>2. CASE WriteRendering \/ WriteOamAddr \/ WriteOamData(0)
  <2>1. ~clean'
    BY <1>2 DEF WriteRendering, WriteOamAddr, WriteOamData, Access
  <2>2. QED
    BY <2>1 DEF SearchInv, Undisturbed
<1>3. CASE UNCHANGED evalVars
  <2>1. /\ near' = near /\ overflowDot' = overflowDot /\ e' = e /\ dot' = dot
        /\ line' = line /\ clean' = clean /\ corruption' = corruption /\ Memory' = Memory
    BY <1>3 DEF evalVars, program, Memory, Corrupts, RowAfter, Corrupted, Drawn
  <2>2. ComputeSpriteOverflowCycle' = ComputeSpriteOverflowCycle
    BY <2>1, ComputeKept
  <2>3. \A j : SearchAt(e, dot, j) => SearchAt(e, dot, j)'
    BY <2>1, SearchAtKept
  <2>4. (clean /\ Drawn /\ dot > 0 => corruption = NoRow)'
    BY <2>1 DEF SearchInv, Drawn
  <2>5. (Undisturbed /\ dot \in ClearEnd + 1..EvalEnd + 1
            => overflowDot = ComputeSpriteOverflowCycle)'
    BY <2>1, <2>2 DEF SearchInv, Undisturbed
  <2>6. (Undisturbed /\ dot \in ClearEnd + 2..EvalEnd + 1 /\ e.start % 4 = 0
            => \E j \in 0..Sprites : SearchAt(e, dot, j))'
    BY <2>1, <2>3 DEF SearchInv, Undisturbed
  <2>7. QED
    BY <2>4, <2>5, <2>6 DEF SearchInv
<1>4. QED
  BY <1>1, <1>2, <1>3 DEF EvalNext

(* The invariant in every state.                                           *)
LEMMA SearchInvHolds == EvalSpec => [](EvalTypes /\ SearchInv)
<1>1. EvalInit => EvalTypes /\ SearchInv
  BY EvalTypesStart, SearchInvStart
<1>2. EvalTypes /\ SearchInv /\ [EvalNext]_evalVars => (EvalTypes /\ SearchInv)'
  BY EvalTypesStep, SearchInvStep
<1>3. QED
  BY <1>1, <1>2, PTL DEF EvalSpec

(* When the search has had its dots, OAM is at its end or the slots full.  *)
LEMMA SearchEnds ==
  ASSUME EvalTypes, NEW j \in 0..Sprites, SearchAt(e, EvalEnd + 1, j)
  PROVE  /\ Filled(e, j) /\ SlotsFilled = Rank(e.start, j) /\ Rank(e.start, j) <= Slots
         /\ Over(e, j) \/ (e.secOver /\ Rank(e.start, j) = Slots)
<1> DEFINE r == Rank(e.start, j)
<1>0. /\ j \in Nat /\ j <= Sprites /\ r \in Nat /\ e.start \in Nat
      /\ Base(e.start, j) = ClearEnd + 1 + 2 * j + 6 * r
  BY SearchBasics DEF Base
<1>1. PICK b \in Nat : b = Base(e.start, j)
  BY SearchBasics
<1>2. ASSUME j < Sprites, r < Slots PROVE b + 7 < EvalEnd + 1
  <2>1. b = 8 * Slots + 1 + 2 * j + 6 * r
    BY <1>0, <1>1, EvalSizes
  <2>2. 2 * j <= 2 * Sprites - 2 /\ 6 * r <= 6 * Slots - 6
    BY <1>0, <1>2, EvalSizes
  <2>3. EvalEnd >= 14 * Slots + 2 * Sprites /\ EvalEnd \in Nat /\ Slots \in Nat /\ Sprites \in Nat
    BY EvalSizes
  <2>4. QED
    BY <1>0, <1>1, <2>1, <2>2, <2>3
<1>3. ASSUME e.start + 4 * j < Bytes PROVE j < Sprites
  BY <1>0, <1>3, EvalSizes
<1>4. EvalEnd \in Nat
  BY EvalSizes
<1>5. ~Looking(e, EvalEnd + 1, j)
  <2> SUFFICES ASSUME Looking(e, EvalEnd + 1, j) PROVE FALSE
    OBVIOUS
  <2>1. j < Sprites /\ r < Slots /\ ReadAt(e, EvalEnd + 1, b)
    BY <1>1, <1>3 DEF Looking
  <2>2. EvalEnd + 1 = b \/ EvalEnd + 1 = b + 1
    BY <2>1 DEF ReadAt
  <2>3. QED
    BY <1>1, <1>2, <1>4, <2>1, <2>2
<1>6. ASSUME NEW c \in 1..3, Copying(e, EvalEnd + 1, j, c) PROVE FALSE
  <2>1. j < Sprites /\ r < Slots /\ ReadAt(e, EvalEnd + 1, b + 2 * c)
    BY <1>1, <1>3, <1>6 DEF Copying
  <2>2. EvalEnd + 1 = b + 2 * c \/ EvalEnd + 1 = b + 2 * c + 1
    BY <2>1 DEF ReadAt
  <2>3. QED
    BY <1>1, <1>2, <1>4, <2>1, <2>2
<1>7. CASE Over(e, j)
  <2>1. ~e.secOver /\ r < Slots /\ e.secAddr = 4 * r
    BY <1>7 DEF Over
  <2>2. e.secAddr \div 4 = r
    BY <1>0, <2>1
  <2>3. r <= Slots
    BY <1>0, <2>1, EvalSizes
  <2>4. QED
    BY <1>7, <2>1, <2>2, <2>3 DEF SlotsFilled, SearchAt
<1>8. CASE Full(e, EvalEnd + 1, j)
  <2>1. e.secOver /\ r = Slots
    BY <1>8 DEF Full
  <2>2. r <= Slots
    BY <1>0, <2>1, EvalSizes
  <2>3. QED
    BY <2>1, <2>2 DEF SlotsFilled, SearchAt
<1>9. QED
  BY <1>5, <1>6, <1>7, <1>8 DEF SearchAt

(* What the machine has in the first slots, evaluateSprites finds there.   *)
LEMMA SlotsSame ==
  ASSUME EvalTypes, NEW j \in 0..Sprites, e.start % 4 = 0, Filled(e, j),
         e.start + 4 * j <= Bytes, NEW k \in 1..Rank(e.start, j)
  PROVE  /\ k \in 1..Rank(e.start, Sprites)
         /\ [b \in 1..4 |-> e.sec[4 * (k - 1) + b - 1]] =
              SpriteAt((e.start + 4 * FoundAt(e.start, k)) % Bytes)
<1> DEFINE s == e.start
<1>0. /\ j \in Nat /\ s \in 0..Bytes - 1 /\ s \in Nat /\ Rank(s, j) \in Nat
      /\ k \in Nat /\ k - 1 \in Nat
  BY SearchBasics
<1>1. PICK i \in Found(s, j) : Rank(s, i) = k - 1
  BY <1>0, RankOnto
<1>2. i \in Nat /\ i < j /\ s + 4 * i < Bytes
  <2>1. i \in Nat /\ i < j
    BY <1>0, <1>1 DEF Found
  <2>2. QED
    BY <1>0, <2>1, EvalSizes
<1>3. i \in Found(s, Sprites) /\ Rank(s, j) <= Rank(s, Sprites)
  <2>1. j <= Sprites /\ Sprites \in Nat
    BY EvalSizes
  <2>2. Rank(s, j) <= Rank(s, Sprites)
    BY <1>0, <2>1, RankMonotone
  <2>3. i \in 0..Sprites - 1
    BY <1>2, <2>1, <1>0
  <2>4. QED
    BY <1>1, <2>2, <2>3 DEF Found
<1>4. FoundAt(s, k) = i
  BY <1>0, <1>1, <1>3, FoundAtIs
<1>5. /\ (s + 4 * i) % Bytes = s + 4 * i
      /\ \A c \in 0..3 : s + 4 * i + c \in 0..Bytes - 1
  BY <1>0, <1>2, SpriteAddress
<1>6. ASSUME NEW b \in 1..4
      PROVE  e.sec[4 * (k - 1) + b - 1] = Seen((s + 4 * i + b - 1) % Bytes)
  <2>1. PICK c \in 0..3 : c = b - 1
    OBVIOUS
  <2>2. e.sec[4 * Rank(s, i) + c] = Seen(s + 4 * i + c)
    BY <1>1 DEF Filled
  <2>3. PICK a \in Nat : a = s + 4 * i + c /\ a < Bytes
    BY <1>0, <1>5, EvalSizes
  <2>4. a % Bytes = a
    BY <2>3, EvalSizes
  <2>5. s + 4 * i + b - 1 = a /\ 4 * (k - 1) + b - 1 = 4 * (k - 1) + c
    BY <1>0, <1>2, <2>1, <2>3
  <2>6. QED
    BY <1>1, <2>2, <2>3, <2>4, <2>5
<1>7. k \in 1..Rank(s, Sprites)
  <2>1. Rank(s, Sprites) \in Nat
    BY FoundFinite, EvalSizes
  <2>2. QED
    BY <1>0, <1>3, <2>1
<1>8. [b \in 1..4 |-> e.sec[4 * (k - 1) + b - 1]] = SpriteAt(s + 4 * i)
  BY <1>6 DEF SpriteAt
<1>9. QED
  BY <1>4, <1>5, <1>7, <1>8

(* The machine and evaluateSprites at the end of the search.               *)
LEMMA SearchesAgree ==
  ASSUME EvalTypes, NEW j \in 0..Sprites, SearchAt(e, EvalEnd + 1, j)
  PROVE  /\ IsPrefix(InSecondary, EvaluateSprites)
         /\ e.start = 0 => InSecondary = EvaluateSprites
<1> DEFINE s     == e.start
           r     == Rank(s, j)
           count == Rank(s, Sprites)
           n     == IF count < Slots THEN count ELSE Slots
           found(k) == SpriteAt((s + 4 * FoundAt(s, k)) % Bytes)
<1>0. /\ j \in Nat /\ s \in Nat /\ r \in Nat /\ count \in Nat /\ Slots \in Nat
      /\ e.start % 4 = 0
  BY SearchBasics, FoundFinite, EvalSizes DEF SearchAt
<1>1. /\ Filled(e, j) /\ SlotsFilled = r /\ r <= Slots
      /\ Over(e, j) \/ (e.secOver /\ r = Slots)
  BY SearchEnds
<1>2. s + 4 * j <= Bytes
  <2>1. CASE Over(e, j)
    BY <1>0, <2>1, EvalSizes DEF Over
  <2>2. CASE e.secOver
    BY <1>0, <2>2, EvalSizes DEF SearchAt, Looking, Copying, Over, Full, Free
  <2>3. QED
    BY <1>1, <2>1, <2>2
<1>3. r <= count
  <2>1. j <= Sprites /\ Sprites \in Nat
    BY EvalSizes
  <2>2. QED
    BY <1>0, <2>1, RankMonotone
<1>4. EvaluateSprites = [k \in 1..n |-> found(k)]
  BY DEF EvaluateSprites, Rank
<1>5. InSecondary = [k \in 1..r |-> [b \in 1..4 |-> e.sec[4 * (k - 1) + b - 1]]]
  BY <1>1 DEF InSecondary
<1>6. \A k \in 1..r : [b \in 1..4 |-> e.sec[4 * (k - 1) + b - 1]] = found(k)
  BY <1>0, <1>1, <1>2, SlotsSame
<1>7. r <= n /\ n \in Nat
  BY <1>0, <1>1, <1>3
<1>8. s = 0 => r = n
  <2>1. CASE Over(e, j)
    <3>1. s = 0 => j = Sprites
      BY <1>0, <2>1, EvalSizes DEF Over
    <3>2. s = 0 => r = count
      BY <3>1
    <3>3. r < Slots
      BY <2>1 DEF Over
    <3>4. QED
      BY <1>0, <3>2, <3>3
  <2>2. CASE r = Slots
    BY <1>0, <1>3, <2>2
  <2>3. QED
    BY <1>1, <2>1, <2>2
<1> HIDE DEF found, n, r, s
<1>9. InSecondary = [k \in 1..r |-> found(k)]
  BY <1>5, <1>6
<1>10. IsPrefix(InSecondary, EvaluateSprites)
  <2>1. /\ Len(InSecondary) = r /\ Len(EvaluateSprites) = n
        /\ DOMAIN InSecondary = 1..r
    BY <1>0, <1>4, <1>7, <1>9
  <2>2. SubSeq(EvaluateSprites, 1, Len(InSecondary)) = InSecondary
    BY <1>0, <1>4, <1>7, <1>9, <2>1
  <2>3. QED
    BY <1>0, <1>7, <2>1, <2>2 DEF IsPrefix
<1>11. QED
  BY <1>4, <1>8, <1>9, <1>10 DEF s

(* On the dot of evaluateSprites.                                          *)
LEMMA SlotsAgreeStep ==
  ASSUME EvalTypes, SearchInv, ClockDot, line = "visible", dot = EvalEnd + 1, clean,
         renderingActive', e.start % 4 = 0
  PROVE  /\ IsPrefix(InSecondary, sprites')
         /\ e.start = 0 => InSecondary = sprites'
<1>1. sprites' = EvaluateSprites
  BY DEF ClockDot
<1>2. dot \in ClearEnd + 2..EvalEnd + 1
  BY EvalSizes
<1>3. PICK j \in 0..Sprites : SearchAt(e, dot, j)
  BY <1>2 DEF SearchInv, Undisturbed
<1>4. QED
  BY <1>1, <1>3, SearchesAgree

(* The sprites $2004 shows are the sprites the picture has.                *)
THEOREM SlotsAgreeHolds == EvalSpec => SlotsAgree
<1>1. EvalTypes /\ SearchInv /\ [EvalNext]_evalVars =>
        [ClockDot /\ line = "visible" /\ dot = EvalEnd + 1 /\ clean /\ renderingActive'
         /\ e.start % 4 = 0
           => /\ IsPrefix(InSecondary, sprites')
              /\ e.start = 0 => InSecondary = sprites']_evalVars
  BY SlotsAgreeStep
<1>2. QED
  BY <1>1, SearchInvHolds, PTL DEF EvalSpec, SlotsAgree

(* On every dot of the search.                                             *)
LEMMA OverflowOnTimeStep ==
  ASSUME EvalTypes, SearchInv, ClockDot, line = "visible", dot \in ClearEnd + 1..EvalEnd, clean',
         e'.start = 0, Whole
  PROVE  (Ninth <=> overflowDot = dot) /\ (overflowDot = dot => overflow')
<1>0. /\ ClearEnd \in Nat /\ EvalEnd \in Nat /\ dot \in Nat /\ Slots \in Nat /\ 0 < Slots
      /\ overflowDot \in {NoDot} \cup Nat /\ 0 \in 0..Sprites /\ NoDot = -1
  BY EvalSizes DEF EvalTypes, NoDot
<1>1. line' = "visible" /\ dot' = dot + 1
  <2>1. dot # LastDot
    BY EvalSizes
  <2>2. AdvanceDot
    BY DEF ClockDot
  <2>3. QED
    BY <2>1, <2>2 DEF AdvanceDot
<1>2. dot' \in ClearEnd + 1..EvalEnd + 1
  BY <1>0, <1>1
<1>3. /\ clean /\ e' = Clocked(e)
  BY <1>1, <1>2, QuietDot
<1>4. e' = Evaluated(e)
  <2>1. dot \notin 1..ClearEnd /\ dot \notin EvalEnd + 1..FetchEnd /\ dot # FetchEnd + 1
    BY EvalSizes
  <2>2. QED
    BY <1>3, <2>1 DEF Clocked
<1>5. overflowDot = ComputeSpriteOverflowCycle
  <2>1. dot \in ClearEnd + 1..EvalEnd + 1
    BY <1>0
  <2>2. QED
    BY <1>3, <2>1 DEF SearchInv, Undisturbed
<1>6. Evaluated(e) \in Searches /\ e \in Searches
  BY EvaluatedType DEF EvalTypes
<1>7. overflowDot = dot => overflow'
  <2>1. overflow' = CASE line = "prerender" /\ dot = 0         -> FALSE
                      [] line = "visible" /\ dot = overflowDot -> TRUE
                      [] OTHER -> overflow
    BY DEF ClockDot
  <2>2. QED
    BY <2>1
<1>8. Ninth <=> overflowDot = dot
  <2>1. CASE dot = ClearEnd + 1
    <3>1. SearchAt(Evaluated(e), dot + 1, 0)
      BY <1>4, <2>1, SearchBegins
    <3>2. Evaluated(e).ranged <=> overflowDot # NoDot /\ overflowDot < dot + 1
      BY <1>0, <1>4, <1>5, <1>6, <3>1, RangedIff
    <3>3. overflowDot # NoDot => overflowDot > dot + 1
      <4>1. Rank(0, 0) < Slots
        BY <1>0, FoundFinite
      <4>2. overflowDot # NoDot => overflowDot >= ClearEnd + 4 + 6 * Slots + 2 * 0
        BY <1>0, <1>5, <4>1, NinthToCome
      <4>3. QED
        BY <1>0, <2>1, <4>2
    <3>4. ~Evaluated(e).ranged /\ overflowDot # dot
      BY <1>0, <3>2, <3>3
    <3>5. QED
      BY <1>4, <3>4 DEF Ninth
  <2>2. CASE dot # ClearEnd + 1
    <3>1. dot \in ClearEnd + 2..EvalEnd /\ dot \in ClearEnd + 2..EvalEnd + 1
      BY <1>0, <2>2
    <3>2. e.start = 0 /\ e.start % 4 = 0
      BY <1>4, <2>2, EvaluatedStart
    <3>3. PICK j \in 0..Sprites : SearchAt(e, dot, j)
      BY <1>3, <3>1, <3>2 DEF SearchInv, Undisturbed
    <3>4. PICK k \in 0..Sprites : SearchAt(Evaluated(e), dot + 1, k)
      BY <1>5, <3>1, <3>3, SearchGoesOn
    <3>5. e.ranged <=> overflowDot # NoDot /\ overflowDot < dot
      BY <1>0, <1>5, <1>6, <3>2, <3>3, RangedIff
    <3>6. Evaluated(e).ranged <=> overflowDot # NoDot /\ overflowDot < dot + 1
      BY <1>0, <1>4, <1>5, <1>6, <3>4, RangedIff
    <3>7. e'.ranged <=> overflowDot # NoDot /\ overflowDot < dot + 1
      BY <1>4, <3>6
    <3>8. QED
      BY <1>0, <2>2, <3>5, <3>7 DEF Ninth
  <2>3. QED
    BY <2>1, <2>2
<1>9. QED
  BY <1>7, <1>8

(* The overflow flag is set on the dot on which a ninth sprite is met.     *)
THEOREM OverflowOnTimeHolds == EvalSpec => OverflowOnTime
<1>1. EvalTypes /\ SearchInv /\ [EvalNext]_evalVars =>
        [ClockDot /\ line = "visible" /\ dot \in ClearEnd + 1..EvalEnd /\ clean'
         /\ e'.start = 0 /\ Whole
           => (Ninth <=> overflowDot = dot) /\ (overflowDot = dot => overflow')]_evalVars
  BY OverflowOnTimeStep
<1>2. QED
  BY <1>1, SearchInvHolds, PTL DEF EvalSpec, OverflowOnTime
=============================================================================
