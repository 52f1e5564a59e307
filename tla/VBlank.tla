------------------------------- MODULE VBlank -------------------------------
(***************************************************************************)
(* The PPU's frame (PPU2C02.h) against the CPU's accesses to it: the       *)
(* vertical blank flag a program reads from $2002, the NMI line, the frame *)
(* that is a dot short, and the races between them.                        *)
(*                                                                         *)
(* A step is a part of NESSystem::clockOneCycle: dot, dot, write, dot, on  *)
(* the PAL machine a fourth dot every fifth cycle, then the read, if any,  *)
(* and the CPU's sample of the NMI line.  Picture, scroll and sprites are  *)
(* left out; the CPU beyond its sample is in module CPU6502.               *)
(***************************************************************************)
EXTENDS DelayedPin

CONSTANTS
  Regions,           (* the regions the user may choose                    *)
  Dots,              (* of a scanline: PPU_CYCLES_PER_SCANLINE             *)
  NmiLine,           (* region -> nmiScanline                              *)
  PreRenderLine,     (* region -> preRenderScanline                        *)
  TotalLines         (* region -> totalScanlines                           *)

ASSUME VBlankAssumption ==
  /\ Regions # {}
  /\ Dots \in Nat /\ Dots > 5
  /\ \A r \in Regions :
       /\ NmiLine[r] \in Nat /\ PreRenderLine[r] \in Nat /\ TotalLines[r] \in Nat
       /\ 0 < NmiLine[r] /\ NmiLine[r] < PreRenderLine[r]
       /\ PreRenderLine[r] + 1 = TotalLines[r]

VARIABLES
  step,              (* what clockOneCycle does next, 1..6                 *)
  cpuCycle,          (* CPU6502::cycle modulo 5, on the PAL machine        *)
  isRead,            (* the CPU's access of this cycle was not a write     *)
  nmiLevel,          (* the CPU's last sample, active low                  *)
  region, scanline, cycle,
  frameOdd, oddFrameSkip,
  rendering,         (* mask.renderBackground || mask.renderSprites        *)
  enableNmi, verticalBlank, nmiVbl, nmiCycleLatch, suppressVblThisFrame,
  edges,             (* history: NMIs the CPU saw since vblank began       *)
  armed,             (* history: NMI enabled since before vblank began     *)
  race,              (* history: $2002 read as vblank began               *)
  seen,              (* history: reads since then that returned the flag   *)
  rendered,          (* history: frames ended since rendering was last off *)
  short, prevShort   (* history: the last frame, and the one before it,    *)
                     (* were a dot short                                   *)

cpuVars == <<cpuCycle, isRead, nmiLevel>>
frameVars == <<scanline, cycle, frameOdd, oddFrameSkip>>
flagVars == <<verticalBlank, nmiVbl, nmiCycleLatch, suppressVblThisFrame>>
nmiHistory == <<edges, armed, race, seen>>
frameHistory == <<rendered, short, prevShort>>
vars == <<step, cpuVars, region, frameVars, rendering, enableNmi, flagVars, nmiHistory,
          frameHistory>>

MaxCount == 2      (* bound: edges and seen are not counted further *)
MaxRendered == 3   (* bound: nor is rendered *)
UpTo(bound, n) == IF n > bound THEN bound ELSE n

(* "off": no vblank has begun since the reset; a read a dot before the     *)
(* flag is set, or within a dot after.                                     *)
Races == {"off", "none", "before", "after"}

At(line, dot) == scanline = line[region] /\ cycle = dot

(* A machine just reset; the region's line is the first it shows.          *)
Init ==
  /\ step = 1 /\ cpuCycle = 0 /\ isRead = TRUE /\ nmiLevel = TRUE
  /\ region \in Regions
  /\ scanline = PreRenderLine[region] /\ cycle = 0
  /\ frameOdd = FALSE /\ oddFrameSkip = PinOf(FALSE)
  /\ rendering = FALSE /\ enableNmi = FALSE
  /\ verticalBlank = FALSE /\ nmiVbl = FALSE
  /\ nmiCycleLatch = FALSE /\ suppressVblThisFrame = FALSE
  /\ edges = 0 /\ armed = FALSE /\ race = "off" /\ seen = 0
  /\ rendered = 0 /\ short = FALSE /\ prevShort = FALSE

-----------------------------------------------------------------------------
(* The skip is decided three dots before it is made.                       *)
SkipPin ==
  PinTick(IF region = "NTSC" /\ At(PreRenderLine, Dots - 4)
          THEN PinSet(oddFrameSkip, frameOdd /\ rendering, 3)
          ELSE oddFrameSkip)

SkipsDot == At(PreRenderLine, Dots - 2) /\ SkipPin.current

LineEnds == SkipsDot \/ cycle + 1 >= Dots

FrameEnds == SkipsDot \/ (LineEnds /\ scanline + 1 >= TotalLines[region])

(* Slips to be noticed: a short frame keeps its parity, or the dot is left *)
(* out of every frame with rendering on.                                   *)
MutFrameOddAfter == IF FrameEnds /\ ~SkipsDot THEN ~frameOdd ELSE frameOdd

FrameOddAfter == IF FrameEnds THEN ~frameOdd ELSE frameOdd

(* advanceCycle                                                            *)
Advance ==
  /\ cycle' = IF LineEnds THEN 0 ELSE cycle + 1
  /\ scanline' = IF FrameEnds THEN 0 ELSE IF LineEnds THEN scanline + 1 ELSE scanline
  /\ frameOdd' = FrameOddAfter
  /\ oddFrameSkip' = IF SkipsDot THEN PinForce(SkipPin, FALSE) ELSE SkipPin
  /\ rendered' = IF FrameEnds /\ rendering THEN UpTo(MaxRendered, rendered + 1)
                 ELSE rendered
  /\ IF FrameEnds THEN short' = SkipsDot /\ prevShort' = short
                  ELSE UNCHANGED <<short, prevShort>>

(* The flag is set and cleared a dot after the line it stands for.         *)
FlagAfterDot ==
  \/ At(NmiLine, 1) /\ ~suppressVblThisFrame
  \/ verticalBlank /\ ~At(PreRenderLine, 1)

LineAfterDot == At(NmiLine, 0) \/ (nmiVbl /\ ~At(PreRenderLine, 0))

VblankBegins == At(NmiLine, 0)

PALExtraDot == region = "PAL" /\ cpuCycle = 0

(* PPU2C02::clock, three or four times a CPU cycle.                        *)
Dot ==
  /\ step \in {1, 2, 4, 5}
  /\ step' = IF step = 4 /\ ~PALExtraDot THEN 6 ELSE step + 1
  /\ verticalBlank' = FlagAfterDot
  /\ suppressVblThisFrame' = (suppressVblThisFrame /\ ~At(NmiLine, 1))
  /\ nmiVbl' = LineAfterDot
  /\ nmiCycleLatch' = (nmiCycleLatch \/ (enableNmi /\ LineAfterDot))
  /\ Advance
  /\ IF VblankBegins THEN edges' = 0 /\ armed' = enableNmi /\ race' = "none" /\ seen' = 0
                     ELSE UNCHANGED nmiHistory
  /\ UNCHANGED <<cpuVars, region, rendering, enableNmi>>

-----------------------------------------------------------------------------
(* The dots around the flag's, on which an access takes the NMI back.      *)
InRaceWindow == scanline = NmiLine[region] /\ cycle \in {1, 2, 3}

RaceAfterRead ==
  IF ~InRaceWindow \/ race # "none" THEN race ELSE IF cycle = 1 THEN "before" ELSE "after"

(* clockPhi2Write: at most one register is written a cycle.                *)
NoWrite ==
  /\ step = 3 /\ step' = 4
  /\ UNCHANGED <<cpuVars, region, frameVars, rendering, enableNmi, flagVars, nmiHistory,
                 frameHistory>>

WriteCtrl(enable) ==
  /\ step = 3 /\ step' = 4
  /\ isRead' = FALSE
  /\ enableNmi' = enable
  /\ nmiCycleLatch' = (nmiCycleLatch /\ ~(~enable /\ InRaceWindow))
  /\ armed' = (armed /\ enable)
  /\ UNCHANGED <<cpuCycle, nmiLevel, region, frameVars, rendering, verticalBlank, nmiVbl,
                 suppressVblThisFrame, edges, race, seen, frameHistory>>

WriteMask(on) ==
  /\ step = 3 /\ step' = 4
  /\ isRead' = FALSE
  /\ rendering' = on
  /\ rendered' = IF on THEN rendered ELSE 0
  /\ UNCHANGED <<cpuCycle, nmiLevel, region, frameVars, enableNmi, flagVars, nmiHistory,
                 short, prevShort>>

-----------------------------------------------------------------------------
(* A slip to be noticed: only what the line is at the end of the cycle is  *)
(* sampled, not a pulse within it.                                         *)
MutPoll(latch, line) ==
  /\ step = 6 /\ step' = 1
  /\ nmiCycleLatch' = FALSE
  /\ nmiLevel' = ~(enableNmi /\ line)
  /\ edges' = IF ~nmiLevel' /\ nmiLevel THEN UpTo(MaxCount, edges + 1) ELSE edges
  /\ isRead' = TRUE
  /\ cpuCycle' = IF region = "PAL" THEN (cpuCycle + 1) % 5 ELSE cpuCycle
  /\ UNCHANGED <<region, frameVars, rendering, enableNmi, armed, frameHistory>>

(* pollNmiLow and the CPU's edge detector; the latch holds what the line   *)
(* was at any dot of the cycle.                                            *)
Poll(latch, line) ==
  LET low == latch \/ (enableNmi /\ line) IN
  /\ step = 6 /\ step' = 1
  /\ nmiCycleLatch' = FALSE
  /\ nmiLevel' = ~low
  /\ edges' = IF low /\ nmiLevel THEN UpTo(MaxCount, edges + 1) ELSE edges
  /\ isRead' = TRUE
  /\ cpuCycle' = IF region = "PAL" THEN (cpuCycle + 1) % 5 ELSE cpuCycle
  /\ UNCHANGED <<region, frameVars, rendering, enableNmi, armed, frameHistory>>

NoRead ==
  /\ Poll(nmiCycleLatch, nmiVbl)
  /\ UNCHANGED <<verticalBlank, nmiVbl, suppressVblThisFrame, race, seen>>

(* Slips to be noticed: the line stays low when the flag has been read, or *)
(* the flag is set after all although it was read a dot before.            *)
MutReadLeavesLine ==
  /\ isRead
  /\ Poll(nmiCycleLatch /\ ~InRaceWindow, FALSE)
  /\ verticalBlank' = FALSE /\ UNCHANGED nmiVbl
  /\ suppressVblThisFrame' = (suppressVblThisFrame \/ At(NmiLine, 1))
  /\ race' = RaceAfterRead
  /\ seen' = IF verticalBlank THEN UpTo(MaxCount, seen + 1) ELSE seen

MutNoSuppress ==
  /\ isRead
  /\ Poll(nmiCycleLatch /\ ~InRaceWindow, FALSE)
  /\ verticalBlank' = FALSE /\ nmiVbl' = FALSE
  /\ UNCHANGED suppressVblThisFrame
  /\ race' = RaceAfterRead
  /\ seen' = IF verticalBlank THEN UpTo(MaxCount, seen + 1) ELSE seen

(* readStatus, by the CPU or a DMA unit, then the sample.                  *)
ReadStatus ==
  /\ isRead
  /\ Poll(nmiCycleLatch /\ ~InRaceWindow, FALSE)
  /\ verticalBlank' = FALSE /\ nmiVbl' = FALSE
  /\ suppressVblThisFrame' = (suppressVblThisFrame \/ At(NmiLine, 1))
  /\ race' = RaceAfterRead
  /\ seen' = IF verticalBlank THEN UpTo(MaxCount, seen + 1) ELSE seen

-----------------------------------------------------------------------------
(* NESSystem::reset between cycles, after the System menu has changed the  *)
(* region or not.  The flag survives until the line it is cleared on.      *)
ResetMachine ==
  /\ step = 1
  /\ cpuCycle' = 0 /\ nmiLevel' = TRUE
  /\ scanline' = PreRenderLine[region'] /\ cycle' = 0
  /\ frameOdd' = FALSE /\ oddFrameSkip' = PinOf(FALSE)
  /\ rendering' = FALSE /\ enableNmi' = FALSE
  /\ nmiVbl' = FALSE /\ nmiCycleLatch' = FALSE /\ suppressVblThisFrame' = FALSE
  /\ edges' = 0 /\ armed' = FALSE /\ race' = "off" /\ seen' = 0
  /\ rendered' = 0 /\ short' = FALSE /\ prevShort' = FALSE
  /\ UNCHANGED <<step, isRead, verticalBlank>>

Reset == region' = region /\ ResetMachine

SwitchRegion == region' \in Regions \ {region} /\ ResetMachine

Clock ==
  \/ Dot
  \/ NoWrite
  \/ \E enable \in BOOLEAN : WriteCtrl(enable)
  \/ \E on \in BOOLEAN : WriteMask(on)
  \/ NoRead
  \/ ReadStatus

Next == Clock \/ Reset \/ SwitchRegion

Spec == Init /\ [][Next]_vars

-----------------------------------------------------------------------------
(* Each variable has the type of the field it models, and the frame the    *)
(* lines of its region.                                                    *)
TypeOK ==
  /\ step \in 1..6 /\ cpuCycle \in 0..4 /\ isRead \in BOOLEAN /\ nmiLevel \in BOOLEAN
  /\ region \in Regions
  /\ scanline \in 0..TotalLines[region]-1 /\ cycle \in 0..Dots-1
  /\ frameOdd \in BOOLEAN /\ oddFrameSkip \in PinsUpTo(BOOLEAN, 3)
  /\ rendering \in BOOLEAN /\ enableNmi \in BOOLEAN
  /\ verticalBlank \in BOOLEAN /\ nmiVbl \in BOOLEAN
  /\ nmiCycleLatch \in BOOLEAN /\ suppressVblThisFrame \in BOOLEAN
  /\ edges \in 0..MaxCount /\ armed \in BOOLEAN /\ race \in Races /\ seen \in 0..MaxCount
  /\ rendered \in 0..MaxRendered /\ short \in BOOLEAN /\ prevShort \in BOOLEAN

(* "The PPU pulls /NMI low if and only if both vblank_flag and NMI_output  *)
(* are true" (nes_specs, nmi): the line kept beside the flag agrees with   *)
(* it, but for the dot by which it leads and a flag left over by a reset.  *)
LineFollowsFlag ==
  \/ nmiVbl = verticalBlank
  \/ At(NmiLine, 1)
  \/ scanline = PreRenderLine[region] /\ cycle \in {0, 1}

(* Between the dot that sets the flag and the line that clears it.         *)
InVblank ==
  /\ race # "off"
  /\ \/ scanline = NmiLine[region] /\ cycle > 1
     \/ scanline > NmiLine[region] /\ scanline < PreRenderLine[region]

(* A program that polls $2002 is told of each vblank once: the first read  *)
(* finds the flag, unless it comes a dot before and loses it for the frame *)
(* (nes_specs, PPU frame timing), and no later read finds it again.        *)
FlagSeenOnce ==
  /\ seen <= 1
  /\ InVblank => (verticalBlank <=> seen = 0 /\ race # "before")

(* With NMI enabled since before vblank, the CPU sees exactly one edge,    *)
(* whatever the alignment of its cycles, or none when $2002 was read on    *)
(* the dots around the flag's.                                             *)
OneNMIEachFrame ==
  InVblank /\ armed /\ step = 1 => edges = (IF race = "none" THEN 1 ELSE 0)

(* With rendering on, every other frame is a dot short, on NTSC only; and  *)
(* however rendering is turned on and off, never two in a row.             *)
EveryOtherFrameShort ==
  /\ short => region = "NTSC" /\ ~prevShort
  /\ region = "NTSC" /\ rendered = MaxRendered => short # prevShort
=============================================================================
