----------------------------- MODULE PPUAddress -----------------------------
(***************************************************************************)
(* The address of the PPU (core/PPU2C02.h): the registers v and t that     *)
(* $2000, $2005, $2006 and $2007 share with rendering, the pipelines by    *)
(* which a $2006 write and a $2007 read reach v some dots late, the        *)
(* addresses a line puts on the cartridge's bus, and the two ways a board  *)
(* tells lines by them: A12Filter and MMC5Lines.                           *)
(*                                                                         *)
(* A step is a dot of an NTSC machine, or an access of its program: a      *)
(* write after two dots of a cycle, a read after three.  Addresses have    *)
(* the fields of the machine's, with fewer columns and rows; a pattern     *)
(* address is the table it is in; a byte is the address it was read from.  *)
(***************************************************************************)
EXTENDS A12Filter, MMC5Lines, Sequences, SequencesExt

CONSTANTS
  Columns, Height,     (* tiles in the coarse fields of an address: 32, 32 *)
  Rows,                (* rows of tiles before the attributes: 30          *)
  Slots,               (* sprites fetched in a line: 8                     *)
  Lines, VBlankLines,  (* visible lines, and lines not rendered after them *)
  IrqTargets,          (* what may be in MMC5's $5203                      *)
  Starts,              (* addresses v and t may be left at before vblank   *)
  Ctrls,               (* what the program writes to $2000: records of     *)
                       (* name, increment, background and sprite           *)
  ScrollXs, ScrollYs,  (* to $2005: columns, and pairs of row and fine row *)
  Highs, Lows,         (* to $2006                                         *)
  AccessDots,          (* dots before which the program may act            *)
  Spacing,             (* dots from one access to the next, at least: 12   *)
  MaxChanges           (* bound on its acts                                *)

Table == Columns * Height * 4   (* $1000 *)
Page  == Table \div 16          (* $100 *)
Names == 2 * Table              (* $2000 *)
Bus   == 4 * Table              (* $4000 *)

TilesEnd    == 8 * Columns
SpritesEnd  == TilesEnd + 8 * Slots
PrefetchEnd == SpritesEnd + 16
LastDot     == PrefetchEnd + 4
PreRender   == Lines + VBlankLines

ASSUME SizeAssumption ==
  /\ Columns \in Nat \ {0, 1} /\ Height \in Nat /\ Rows \in 1..Height
  /\ Page > 0 /\ Table = 16 * Page
  /\ Slots \in Nat \ {0} /\ Lines \in Nat \ {0} /\ VBlankLines \in Nat \ {0}

(* The attributes that follow the tiles of a table end with it.            *)
ASSUME AttributeAssumption ==
  Columns * Rows + ((Height - 1) \div 4) * (Columns \div 4) + ((Columns - 1) \div 4)
    < Columns * Height

Addresses == 0..8 * Table - 1   (* of 15 bits *)

ASSUME InputAssumption ==
  /\ Starts \subseteq Addresses
  /\ \A c \in Ctrls : /\ c.name \in 0..3 /\ c.increment \in 1..Table - 1
                      /\ c.background \in 0..1 /\ c.sprite \in 0..1
  /\ ScrollXs \subseteq 0..Columns - 1 /\ ScrollYs \subseteq (0..Height - 1) \X (0..7)
  /\ Highs \subseteq 0..63 /\ Lows \subseteq 0..Page - 1
  /\ IrqTargets \subseteq Nat /\ MaxChanges \in Nat

(* An instruction that writes is four cycles long, and reads follow writes *)
(* in a cycle.                                                             *)
ASSUME SpacingAssumption == Spacing \in Nat /\ Spacing >= 11

(* MMC5 counts lines in a byte.                                            *)
ASSUME LinesAssumption == Lines <= 256

(* A rise of A12 counts after a line's background or sprites, and not      *)
(* after the dots between a line's last tile and the next line's first.    *)
ASSUME PauseAssumption ==
  LowDots >= 10 /\ LowDots <= 8 * Columns + 4 /\ LowDots <= 8 * Slots + 4

VARIABLES
  scanline, cycle,     (* the dot to be clocked next                       *)
  third,               (* dots clocked in this cycle of the processor      *)
  frameOdd, oddFrameSkip,
  carry,               (* oddFrameCarryOverAddr, while oddFrameCarryOver   *)
  ctrl,
  mask, enabling,      (* rendering bits of $2001; renderEnableDelay       *)
  rendering,           (* renderingActive                                  *)
  v, t,                (* vramAddr, tramAddr                               *)
  addressLatch,
  addrPending,         (* vramAddrWritePending                             *)
  addrWrite,           (* vramAddrWrite with its value, NoAddress if none  *)
  readPending, dataRead,   (* likewise for $2007 reads                     *)
  buffer,              (* where ppuDataBuffer was read, or Unknown         *)
  addressLow,          (* ppuAddressLow, the latch of the low byte         *)
  tablePatternBg,      (* curTilePatternBg                                 *)
  irqTarget,           (* MMC5's                                           *)
  a12, mmc5,           (* the boards' view of the bus                      *)
  rest,                (* dots before the program may act again            *)
  changes

VARIABLES              (* history                                          *)
  origin,              (* where the picture, by the registers, begins      *)
  undisturbed,         (* it was rendered since, and v not touched         *)
  ideal,               (* [address, buffer] of a PPU that has no pipelines *)
  rises,               (* rises of A12 counted since the tiles of the line *)
                       (* before, while calm                               *)
  calm,                (* lines rendered without a disturbance, at most 2  *)
  held,                (* rendered since the last tile of the line before  *)
  top,                 (* first line rendered whole, or NoLine             *)
  steady               (* v not touched in the picture of this frame       *)

dotVars == <<scanline, cycle, third, frameOdd, oddFrameSkip, carry>>
busVars == <<addressLow, tablePatternBg, a12, mmc5>>
history == <<origin, undisturbed, ideal, rises, calm, held, top, steady>>
vars == <<dotVars, ctrl, mask, enabling, rendering, v, t, addressLatch, addrPending,
          addrWrite, readPending, dataRead, buffer, busVars, irqTarget, rest, changes, history>>

Unknown == -2
NoLine  == -1

-----------------------------------------------------------------------------
(* The fields of an address: fineY, nametableY, nametableX, coarseY,       *)
(* coarseX from the most significant on.                                   *)
Address(fine, ny, nx, cy, cx) == cx + (Columns * (cy + (Height * (nx + (2 * (ny + (2 * fine)))))))
CoarseX(a) == a % Columns
CoarseY(a) == (a \div Columns) % Height
NameX(a)   == (a \div (Columns * Height)) % 2
NameY(a)   == (a \div (2 * Columns * Height)) % 2
FineY(a)   == a \div Table

TransferX(a, from) == Address(FineY(a), NameY(a), NameX(from), CoarseY(a), CoarseX(from))
TransferY(a, from) == TransferX(from, a)

IncrementX(a) ==
  IF CoarseX(a) = Columns - 1
  THEN Address(FineY(a), NameY(a), 1 - NameX(a), CoarseY(a), 0) ELSE a + 1

(* A slip to be noticed: the name tables are taken to be all tiles. *)
MutIncrementY(a) ==
  CASE FineY(a) < 7           -> a + Table
    [] CoarseY(a) = Height - 1 -> Address(0, 1 - NameY(a), NameX(a), 0, CoarseX(a))
    [] OTHER -> Address(0, NameY(a), NameX(a), CoarseY(a) + 1, CoarseX(a))

IncrementY(a) ==
  CASE FineY(a) < 7            -> a + Table
    [] FineY(a) = 7 /\ CoarseY(a) = Rows - 1 ->
         Address(0, 1 - NameY(a), NameX(a), 0, CoarseX(a))
    [] OTHER -> Address(0, NameY(a), NameX(a), (CoarseY(a) + 1) % Height, CoarseX(a))

Named(a)   == a \in Names..Names + Table - 1
NameOf(a)  == Names + (a % Table)
AttributeOf(a) ==
  Names + (Columns * Height * (NameX(a) + 2 * NameY(a))) + (Columns * Rows)
    + ((CoarseY(a) \div 4) * (Columns \div 4)) + (CoarseX(a) \div 4)
Palette(a) == a >= Bus - Page

-----------------------------------------------------------------------------
(* The end of vblank, in which the program has left v and t where it did.  *)
Init ==
  /\ scanline = PreRender - 1 /\ cycle = 0 /\ third \in 0..2
  /\ frameOdd \in BOOLEAN /\ oddFrameSkip = PinOf(FALSE) /\ carry = NoAddress
  /\ ctrl \in Ctrls
  /\ mask \in BOOLEAN /\ enabling = <<mask, mask, mask, mask>> /\ rendering = mask
  /\ v \in Starts /\ t = v /\ addressLatch = 0
  /\ addrPending = FALSE /\ addrWrite = <<NoAddress, NoAddress, NoAddress>>
  /\ readPending = NoAddress /\ dataRead = <<NoAddress, NoAddress, NoAddress, NoAddress>>
  /\ buffer = Unknown
  /\ addressLow = 0 /\ tablePatternBg = 0
  /\ irqTarget \in IrqTargets
  /\ a12 = A12Reset /\ mmc5 = MMC5Reset
  /\ rest = 0 /\ changes = 0
  /\ origin = v /\ undisturbed = FALSE /\ ideal = [address |-> v, buffer |-> Unknown]
  /\ rises = 0 /\ calm = 0 /\ held = FALSE /\ top = NoLine /\ steady = TRUE

-----------------------------------------------------------------------------
(* What a dot puts on the bus. *)

Drawn == scanline < Lines \/ scanline = PreRender
On == Head(enabling)
Fetching == On /\ Drawn

SpriteDot == cycle \in TilesEnd + 1..SpritesEnd
TileDot   == cycle \in 1..TilesEnd \cup SpritesEnd + 1..PrefetchEnd
FetchDot  == cycle # 0
Eighth    == (cycle - 1) % 8

(* $2006 arrives before anything is fetched. *)
Arrived == IF Head(addrWrite) # NoAddress THEN Head(addrWrite) ELSE v

(* backgroundFetchPhase, spriteFetchPhase and the two dummy fetches. *)
NameDot == Eighth \in {0, 1} \/ (Eighth \in {2, 3} /\ ~TileDot)
TableNow ==
  CASE SpriteDot                 -> ctrl.sprite
    [] TileDot /\ Eighth = 4     -> ctrl.background
    [] OTHER                     -> tablePatternBg
Fetched ==
  CASE NameDot                           -> NameOf(Arrived)
    [] ~NameDot /\ Eighth \in {2, 3}     -> AttributeOf(Arrived)
    [] OTHER                             -> Table * TableNow

(* A fetch takes two dots: the first latches the low byte of the address,  *)
(* the second reads, whatever the high bits are then.                      *)
Begins   == Fetching /\ FetchDot /\ cycle % 2 = 1
Finishes == Fetching /\ FetchDot /\ cycle % 2 = 0
Latched(a) == (Page * (a \div Page)) + addressLow

Driven(a) == <<[addr |-> a % Bus, drives |-> TRUE, reads |-> FALSE]>>
Read(a)   == <<[addr |-> a % Bus, drives |-> TRUE, reads |-> TRUE]>>

(* The increments and transfers of rendering. *)
Scrolled ==
  LET x == IF Fetching /\ TileDot /\ Eighth = 7 THEN IncrementX(Arrived) ELSE Arrived
      y == IF Fetching /\ cycle = TilesEnd THEN IncrementY(x) ELSE x
      z == IF Fetching /\ cycle = TilesEnd + 1 THEN TransferX(y, t) ELSE y
  IN IF Fetching /\ scanline = PreRender /\ cycle \in TilesEnd + 3 * Slots..TilesEnd + 6 * Slots
     THEN TransferY(z, t) ELSE z

(* incrementVramAddr, after a $2007 access. *)
Stepped(a, drawing) ==
  IF drawing THEN IncrementX(IncrementY(a)) ELSE (a + ctrl.increment) % (8 * Table)

(* A $2007 read comes to its end.  Where rendering has latched an address  *)
(* the byte just read stands for its low byte, and any byte may have been. *)
Due == Head(dataRead)
Updates(low) ==
  CASE Due = NoAddress               -> <<>>
    [] Due # NoAddress /\ Begins     -> Read((Page * (Fetched \div Page)) + low)
    [] Due # NoAddress /\ Finishes   -> <<>>
    [] OTHER -> <<[addr |-> Due, drives |-> FALSE, reads |-> TRUE]>>
Reached == IF Due = NoAddress THEN Scrolled ELSE Stepped(Scrolled, Fetching)

(* The read of the dot that an odd frame leaves out, made in the next.     *)
Carried == IF carry # NoAddress /\ rendering THEN Read(Latched(carry)) ELSE <<>>

OnBus(low) ==
  (IF Head(addrWrite) # NoAddress THEN Driven(Arrived) ELSE <<>>)
    \o (CASE Begins   -> Driven(Fetched)
          [] Finishes -> Read(Latched(Fetched))
          [] OTHER    -> <<>>)
    \o Updates(low)
    \o (IF Due # NoAddress THEN Driven(Scrolled) \o Driven(Reached) ELSE <<>>)

(* The boards.  ppuAddress goes to A12, ppuReadCycle to MMC5; the update of *)
(* the data buffer reads at an address it has not driven.                  *)
Level(a) == (a \div Table) % 2 = 1
Sees(b, e) ==
  [a12   |-> IF e.drives THEN A12Driven(b.a12, Level(e.addr)) ELSE b.a12,
   rises |-> IF e.drives /\ A12Rises(b.a12, Level(e.addr)) THEN b.rises + 1 ELSE b.rises,
   mmc5  |-> IF e.reads THEN PpuReadCycle(b.mmc5, e.addr, Named(e.addr), irqTarget) ELSE b.mmc5]
Seen(b, events) == FoldLeft(Sees, b, events)
Boards(count) == [a12 |-> a12, rises |-> count, mmc5 |-> mmc5]

-----------------------------------------------------------------------------
(* PPU2C02::advanceCycle. *)

SkipPin ==
  PinTick(IF scanline = PreRender /\ cycle = LastDot - 3
          THEN PinSet(oddFrameSkip, frameOdd /\ mask, 3) ELSE oddFrameSkip)
SkipsDot  == scanline = PreRender /\ cycle = LastDot - 1 /\ SkipPin.current
LineEnds  == SkipsDot \/ cycle = LastDot
FrameEnds == LineEnds /\ scanline = PreRender

(* A slip to be noticed: the dot left out takes its read with it. *)
MutCarry == NoAddress
Carry == IF SkipsDot THEN NameOf(Reached) ELSE NoAddress
Advance ==
  /\ cycle' = IF LineEnds THEN 0 ELSE cycle + 1
  /\ scanline' = CASE FrameEnds -> 0 [] LineEnds /\ ~FrameEnds -> scanline + 1 [] OTHER -> scanline
  /\ frameOdd' = (frameOdd # FrameEnds)
  /\ oddFrameSkip' = IF SkipsDot THEN PinForce(SkipPin, FALSE) ELSE SkipPin
  /\ carry' = Carry

-----------------------------------------------------------------------------
(* PPU2C02::clock, and Cartridge::clock after the second dot of a cycle.   *)

(* A slip to be noticed: a $2007 read stays pending. *)
MutReadPendingAfter == readPending
ReadPendingAfter == NoAddress

Touched == Head(addrWrite) # NoAddress \/ Due # NoAddress

DotHistory ==
  /\ origin' = LET x == IF Fetching /\ cycle = TilesEnd + 1 THEN TransferX(origin, t) ELSE origin
               IN IF Fetching /\ scanline = PreRender /\ cycle = TilesEnd + 6 * Slots
                  THEN TransferY(x, t) ELSE x
  /\ undisturbed' = /\ Fetching /\ ~Touched
                    /\ undisturbed \/ (scanline = PreRender /\ cycle = TilesEnd + 1)
  /\ ideal' = IF Fetching
              THEN [address |-> Unknown,
                    buffer  |-> IF Range(dataRead) = {NoAddress} /\ readPending = NoAddress
                                THEN ideal.buffer ELSE Unknown]
              ELSE ideal
  /\ calm' = IF ~Fetching \/ Touched THEN 0
             ELSE IF cycle = 0 /\ calm < 2 THEN calm + 1 ELSE calm
  /\ held' = (On /\ (held \/ cycle = PrefetchEnd + 1))
  /\ top' = CASE ~Fetching -> NoLine
              [] Fetching /\ scanline < Lines /\ cycle = 4 /\ held /\ top = NoLine -> scanline
              [] OTHER -> top
  /\ steady' = \/ ~Drawn
               \/ /\ steady /\ ~Touched
                  /\ ~(On /\ ~rendering /\ (cycle > PrefetchEnd + 1 \/ cycle < 5))

Dot ==
  \E low \in 0..Page - 1 :
    LET before == Seen(Boards(IF cycle = TilesEnd + 1 THEN 0 ELSE rises), Carried)
        after  == Seen([before EXCEPT !.a12 = A12Clocked(@)], OnBus(low))
    IN /\ (Due # NoAddress /\ Begins) \/ low = 0
       /\ third' = (third + 1) % 3
       /\ enabling' = Append(Tail(enabling), mask) /\ rendering' = On
       /\ addrWrite' = Append(Tail(addrWrite), IF addrPending THEN t ELSE NoAddress)
       /\ addrPending' = FALSE
       /\ dataRead' = Append(Tail(dataRead), readPending)
       /\ readPending' = ReadPendingAfter
       /\ v' = Reached
       /\ buffer' = CASE Due = NoAddress                       -> buffer
                      [] Due # NoAddress /\ (Begins \/ Finishes) -> Unknown
                      [] OTHER                                 -> Due
       /\ addressLow' = CASE Begins /\ Due = NoAddress  -> Fetched % Page
                          [] Begins /\ Due # NoAddress  -> low
                          [] OTHER                      -> addressLow
       /\ tablePatternBg' = IF Fetching /\ TileDot THEN TableNow ELSE tablePatternBg
       /\ a12' = after.a12 /\ rises' = after.rises
       /\ mmc5' = IF third = 1 THEN MMC5Clocked(after.mmc5) ELSE after.mmc5
       /\ rest' = IF rest > 0 THEN rest - 1 ELSE 0
       /\ Advance /\ DotHistory
       /\ UNCHANGED <<ctrl, mask, t, addressLatch, irqTarget, changes>>

-----------------------------------------------------------------------------
(* The program. *)

Access ==
  /\ rest = 0 /\ changes < MaxChanges /\ cycle \in AccessDots
  /\ rest' = Spacing /\ changes' = changes + 1
  /\ UNCHANGED <<dotVars, enabling, rendering, addrWrite, dataRead, addressLow,
                 tablePatternBg, mmc5, irqTarget, origin, held, top>>
Writes == third = 2 /\ Access
Reads  == third = 0 /\ Access

KeepsV == UNCHANGED <<v, addrPending, readPending, buffer, a12, rises, undisturbed, steady>>

WriteCtrl(c) ==
  /\ Writes /\ KeepsV
  /\ ctrl' = c
  /\ t' = Address(FineY(t), c.name \div 2, c.name % 2, CoarseY(t), CoarseX(t))
  /\ calm' = 0
  /\ UNCHANGED <<mask, addressLatch, ideal>>

WriteMask ==
  /\ Writes /\ KeepsV
  /\ mask' = ~mask
  /\ UNCHANGED <<ctrl, t, addressLatch, ideal, calm>>

WriteScroll ==
  /\ Writes /\ KeepsV
  /\ addressLatch' = 1 - addressLatch
  /\ \/ /\ addressLatch = 0
        /\ \E x \in ScrollXs : t' = Address(FineY(t), NameY(t), NameX(t), CoarseY(t), x)
     \/ /\ addressLatch = 1
        /\ \E y \in ScrollYs : t' = Address(y[2], NameY(t), NameX(t), y[1], CoarseX(t))
  /\ UNCHANGED <<ctrl, mask, ideal, calm>>

WriteAddr ==
  /\ Writes
  /\ addressLatch' = 1 - addressLatch
  /\ \/ /\ addressLatch = 0
        /\ \E high \in Highs : t' = (Page * high) + (t % Page)
        /\ UNCHANGED <<addrPending, ideal>>
     \/ /\ addressLatch = 1
        /\ \E low \in Lows : t' = (Page * (t \div Page)) + low
        /\ addrPending' = TRUE
        /\ ideal' = [ideal EXCEPT !.address = t']
  /\ UNCHANGED <<ctrl, mask, v, readPending, buffer, a12, rises, undisturbed, steady, calm>>

(* $2007.  The address moves on in the same cycle as a write, and some     *)
(* dots after a read.                                                      *)
Blank == ~(rendering /\ Drawn)
After(a) == IF Blank /\ a # Unknown THEN Stepped(a, FALSE) ELSE Unknown

WriteData ==
  /\ Writes
  /\ v' = Stepped(v, ~Blank)
  /\ LET seen == Seen(Boards(rises), Driven(v) \o Driven(v'))
     IN a12' = seen.a12 /\ rises' = seen.rises
  /\ ideal' = [ideal EXCEPT !.address = After(@)]
  /\ undisturbed' = FALSE /\ calm' = 0 /\ steady' = (steady /\ ~Drawn)
  /\ UNCHANGED <<ctrl, mask, t, addressLatch, addrPending, readPending, buffer>>

Shadow(a) == IF Palette(a) THEN a - Table ELSE a
ReadData ==
  /\ Reads
  /\ readPending' = Shadow(v % Bus)
  /\ ideal' = [address |-> After(ideal.address),
               buffer  |-> IF ideal.address # Unknown /\ Blank
                           THEN Shadow(ideal.address % Bus) ELSE Unknown]
  /\ UNCHANGED <<ctrl, mask, v, t, addressLatch, addrPending, buffer, a12, rises,
                 undisturbed, steady, calm>>

ReadStatus ==
  /\ Reads /\ KeepsV
  /\ addressLatch' = 0
  /\ UNCHANGED <<ctrl, mask, t, ideal, calm>>

Next ==
  \/ Dot
  \/ \E c \in Ctrls : WriteCtrl(c)
  \/ WriteMask \/ WriteScroll \/ WriteAddr \/ WriteData
  \/ ReadData \/ ReadStatus

Spec == Init /\ [][Next]_vars

-----------------------------------------------------------------------------
(* Where the picture is, rows of pixels below the origin and tiles to the  *)
(* right of it: name tables are Columns tiles by Rows, and join into a     *)
(* torus of two by two; rows of attributes shown as tiles end at the first *)
(* row of the same table.                                                  *)
PixelRow(a) == (8 * CoarseY(a)) + FineY(a)
RowsDown(a, n) ==
  LET past == (PixelRow(a) + n) - (8 * Height)
      row  == IF CoarseY(a) < Rows
              THEN ((8 * Rows * NameY(a)) + PixelRow(a) + n) % (16 * Rows)
              ELSE ((8 * Rows * NameY(a)) + past) % (16 * Rows)
  IN IF CoarseY(a) >= Rows /\ past < 0
     THEN Address((PixelRow(a) + n) % 8, NameY(a), NameX(a), (PixelRow(a) + n) \div 8, CoarseX(a))
     ELSE Address(row % 8, row \div (8 * Rows), NameX(a), (row % (8 * Rows)) \div 8, CoarseX(a))
TilesRight(a, n) ==
  LET column == ((Columns * NameX(a)) + CoarseX(a) + n) % (2 * Columns)
  IN Address(FineY(a), NameY(a), column \div Columns, CoarseY(a), column % Columns)

(* The program's scroll position is the picture: while a frame is rendered *)
(* and v not touched, every tile of every line is read from the place in   *)
(* the name tables that the scroll position of this line (across) and of   *)
(* this frame (down) puts there, whenever the program wrote it, and at the *)
(* fine row that belongs to it (nes_specs/ppu.txt:298).                    *)
LineShown == IF cycle <= TilesEnd THEN scanline ELSE IF scanline = PreRender THEN 0 ELSE scanline + 1
TileShown == IF cycle <= TilesEnd THEN 2 + ((cycle - 1) \div 8) ELSE (cycle - SpritesEnd - 1) \div 8
Shown == TilesRight(RowsDown(origin, LineShown), TileShown)
ScrollHonoured ==
  [][undisturbed /\ undisturbed' /\ ~SpriteDot /\ Finishes /\ NameDot /\ Dot
       => Arrived = Shown /\ Latched(Fetched) = NameOf(Shown)]_vars

(* Outside the picture a program need not know of the pipelines: each      *)
(* $2007 access is made at the address its last $2006 writes and accesses  *)
(* since lead to, and a read returns the byte read by the read before it,  *)
(* also if a picture was rendered meanwhile.                               *)
AddressKept ==
  [][(WriteData \/ ReadData) /\ Blank
       => /\ ideal.address # Unknown => v = ideal.address
          /\ ReadData /\ ideal.buffer # Unknown => buffer = ideal.buffer]_vars

(* The filter on A12 counts a line once, with the background in either     *)
(* table and the sprites in the other: neither the switching from tile to  *)
(* tile nor the pause between two lines is a rise, and the rise there is   *)
(* counts (nes_specs/mappers/004.txt:190).                                 *)
OneClockPerLine ==
  [][cycle = TilesEnd /\ calm' = 2 /\ ctrl.background # ctrl.sprite /\ Dot => rises' = 1]_vars

(* MMC5's counter is the number of the line, counted from the first line   *)
(* rendered whole since rendering was last off, on every alignment of the  *)
(* processor to the PPU and in frames that leave a dot out; where there is *)
(* none its signal says so (nes_specs/mappers/005.txt:394-424).            *)
LinesCounted ==
  steady /\ rendering /\ scanline < Lines /\ cycle > 4 =>
    /\ mmc5.inFrame = (top # NoLine)
    /\ top # NoLine =>
         /\ mmc5.irqCounter = scanline - top
         /\ mmc5.irqPending = (irqTarget \in 1..mmc5.irqCounter)
=============================================================================
