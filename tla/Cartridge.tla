------------------------------ MODULE Cartridge ------------------------------
(***************************************************************************)
(* The cartridge on its two buses (core/Cartridge.h, mappers/MapperBase.h):*)
(* the processor's writes find PRG RAM or the board, the PPU's addresses   *)
(* move its A12 line and throw tile latches, both clocks run its counter.  *)
(*                                                                         *)
(* One cartridge of Instances is in the machine from the start: a board,   *)
(* its ROM (n banks of 16 KB, k of 8 KB) and the registers a program       *)
(* studied here writes.                                                    *)
(***************************************************************************)
EXTENDS MapperRegistry, A12Filter

CONSTANTS
  Instances,           \* records [board, n, k, study]
  Writes(_, _),        \* addresses and data written to a board in a study
  MaxWrites(_, _),     \* bound on the writes to a board in a study
  MaxClocks            \* bound on the processor clocks counted

(* A cycle of the processor is three dots, and a scanline is more. *)
ASSUME DotsAssumption == ScanlineDots \in Nat /\ ScanlineDots >= 3
(* The processor's address lines are sixteen and its data lines eight. *)
Words == 0..65535
Bytes == 0..255
ASSUME WritesAssumption ==
  \A c \in Instances : Writes(c.board, c.study) \subseteq Words \X Bytes
(* A cartridge loads when the registry knows its board (Cartridge.h:94); a *)
(* board that switches PRG has at least 32 KB of it to switch, those of 16 *)
(* KB being NROM and CNROM.  The factory hands it its CHR banks as a byte. *)
ASSUME SizesAssumption ==
  \A c \in Instances :
    /\ c.board \in Registered
    /\ c.n \in Nat /\ c.n >= (IF c.board \in {0, 3} THEN 1 ELSE 2)
    /\ c.k \in Bytes

VARIABLES
  cart,         \* the cartridge in the machine, one of Instances
  r,            \* the bank registers of its board
  irq,          \* its interrupt counter
  a12,          \* MapperBase::a12 and a12LowQualified, a filter
  ramWritten,   \* whether a write has landed in PRG RAM
  writes, clocks,
  due, fresh    \* when the board's document says the counter next expires

board == cart.board
n == cart.n
k == cart.k
registers == <<r, irq, ramWritten>>
alarm == <<due, fresh>>
vars == <<cart, registers, a12, writes, clocks, alarm>>

Counts  == board \in IrqBoards /\ cart.study = "irq"

-----------------------------------------------------------------------------
(* What the documents say of the counters, for properties to compare.  due *)
(* is the number of clocks left before the counter expires, in dots where  *)
(* VRC6 counts scanlines; Never and Unknown when no document gives it.     *)
Never   == -2
Unknown == -1

Scale(b, i) ==
  CASE b = 64            -> IF i.mode THEN 4 ELSE 1
    [] b \in {24, 26}    -> IF i.mode THEN 1 ELSE ScanlineDots
    [] OTHER             -> 1
Cost(b, i) == IF b \in {24, 26} /\ ~i.mode THEN 3 ELSE 1

(* Clocks from the write that starts a counter, and from one expiry to the *)
(* next.                                                                   *)
AfterStart(b, i) ==
  CASE b \in MMC3Boards \cup {48, 91, 189, 245} -> i.reload + 1
    [] b = 64         -> (i.reload + 2) * Scale(b, i)
    [] b = 65         -> IF i.counter = 0 THEN Never ELSE i.counter
    [] b \in {67, 69} -> i.counter + 1
    [] b = 73         -> IF i.mode THEN 256 - (i.reload % 256) ELSE 65536 - i.reload
    [] b \in {24, 26} -> (256 - i.reload) * Scale(b, i)
AfterExpiry(b, i) ==
  CASE b \in MMC3Boards \cup {64} ->
         IF i.reload = 0 THEN Never ELSE (i.reload + 1) * Scale(b, i)
    [] b = 65         -> Never
    [] b \in {67, 69} -> 65536
    [] OTHER          -> AfterStart(b, i)

(* The writes that start a counter, and those that change its reload value *)
(* while the counter may yet take it.                                      *)
Starts(b, a, d) ==
  CASE b \in (MMC3Boards \ {182}) \cup {48, 64, 189, 245} ->
         Page(a) \in {12, 13} /\ (IF b = 48 THEN a % 4 = 1 ELSE Odd(a))
    [] b = 182        -> Page(a) \in {12, 13} /\ Odd(a)
    [] b = 91         -> Page(a) = 7 /\ a % 4 = 3
    [] b = 65         -> a = \h9004
    [] b = 67         -> Page(a) = 12 /\ Bit(a, 11) = 1
    [] b = 69         -> Page(a) \in {10, 11} /\ r.command \in {14, 15}
    [] b = 73         -> Page(a) = 12 /\ Bit(d, 1) = 1
    [] b \in {24, 26} -> Canon(b, a) = \hF001 /\ Bit(d, 1) = 1
Reloads(b, a) ==
  b \in A12Boards \ {91, 182} /\ Page(a) \in {12, 13}
    /\ (IF b = 48 THEN a % 4 = 0 ELSE Even(a))

AlarmWritten(a, d, i) ==
  CASE Starts(board, a, d) -> due' = AfterStart(board, i) /\ fresh' = TRUE
    [] ~Starts(board, a, d) /\ Reloads(board, a) /\ (fresh \/ due = Never) ->
         due' = Unknown /\ UNCHANGED fresh
    [] ~Starts(board, a, d) /\ i.mode # irq.mode -> due' = Unknown /\ UNCHANGED fresh
    [] OTHER -> UNCHANGED alarm

Expires == due > 0 /\ due <= Cost(board, irq)
AlarmClocked(i) ==
  IF Expires
  THEN /\ due' = LET period == AfterExpiry(board, i)
                 IN IF period = Never THEN Never ELSE due - Cost(board, irq) + period
       /\ fresh' = TRUE
  ELSE /\ due' = IF due > 0 THEN due - Cost(board, irq) ELSE due
       /\ fresh' = (fresh /\ board = 64 /\ irq.mode /\ (due - 1) % 4 # 0)

-----------------------------------------------------------------------------
Init ==
  /\ cart \in Instances
  /\ r = ResetOf(board, Built(board, n, k), n, k)
  /\ irq = IrqReset(board)
  /\ a12 = A12Reset
  /\ ramWritten = FALSE
  /\ writes = 0 /\ clocks = 0
  /\ due = Unknown /\ fresh = FALSE

(* Cartridge::cpuWrite.  The board may take a write first; PRG RAM takes  *)
(* what is at $6000-$7FFF, then a byte of ROM may pull bits of the data    *)
(* low; what is left reaches the board's registers.                        *)
InPrgRam(a) == HasPrgRam(board, r) /\ a \in \h6000..\h7FFF
Common(d, byte) == LET both(i) == Bit(d, i) * Bit(byte, i) * 2^i
                   IN both(0) + both(1) + both(2) + both(3)
                        + both(4) + both(5) + both(6) + both(7)
Drives(a) ==
  /\ Conflicts(board) /\ Upper(a)
  /\ Prg(board, r, n)[(a - \h8000) \div \h2000] \in 0..2 * n - 1
OnTheBus(a, d) ==
  IF Drives(a)
  THEN {Common(d, byte) : byte \in {w[2] : w \in Writes(board, cart.study)} \cup {255}}
  ELSE {d}

ToBoard(a, d) ==
  /\ r' = Written(board, r, a, d, n, k)
  /\ IF board \in IrqBoards
     THEN LET i == IrqWritten(board, IF board = 69 THEN r.command ELSE 0, irq, a, d)
          IN irq' = i /\ AlarmWritten(a, d, i)
     ELSE UNCHANGED <<irq, alarm>>
  /\ UNCHANGED ramWritten

CpuWrite(a, d) ==
  /\ writes < MaxWrites(board, cart.study)
  /\ writes' = writes + 1
  /\ \/ /\ Takes(board, r, a)
        /\ r' = Taking(board, r, a, d)
        /\ UNCHANGED <<irq, ramWritten, alarm>>
     \/ /\ ~Takes(board, r, a) /\ InPrgRam(a)
        /\ ramWritten' = TRUE
        /\ UNCHANGED <<r, irq, alarm>>
     \/ /\ ~Takes(board, r, a) /\ ~InPrgRam(a)
        /\ \E v \in OnTheBus(a, d) : ToBoard(a, v)
  /\ UNCHANGED <<cart, a12, clocks>>

(* One dot of the PPU: Cartridge::clockPpu, then ppuAddress with A12 at a  *)
(* level (a12RisingEdge).  RAMBO-1 does not look at A12 while it counts    *)
(* processor cycles.                                                       *)
Watches == board \in A12Boards /\ ~(board = 64 /\ irq.mode)
Rises(level) == Watches /\ A12Rises(A12Clocked(a12), level)

A12Seen(level) ==
  LET clocked == A12Clocked(a12)
  IN a12' = IF Watches THEN A12Driven(clocked, level) ELSE clocked

LineTicked == IF board \in MMC3Boards THEN [irq EXCEPT !.line = PinTick(@)] ELSE irq

PpuDot(level) ==
  /\ Counts /\ board \in A12Boards
  /\ A12Seen(level)
  /\ irq' = IF Rises(level) THEN A12Ticked(board, LineTicked) ELSE LineTicked
  /\ IF Rises(level) THEN AlarmClocked(irq') ELSE UNCHANGED alarm
  /\ UNCHANGED <<cart, r, ramWritten, writes, clocks>>

(* Cartridge::clock, once each cycle of the processor. *)
Running == CASE board = 69          -> irq.counting
             [] board = 64          -> irq.mode
             [] OTHER               -> irq.enable
CpuClock ==
  /\ Counts /\ board \in CpuBoards /\ clocks < MaxClocks
  /\ clocks' = clocks + 1
  /\ irq' = CpuTicked(board, irq)
  /\ IF Running THEN AlarmClocked(irq') ELSE UNCHANGED alarm
  /\ UNCHANGED <<cart, r, ramWritten, a12, writes>>

(* Cartridge::ppuRead of the tiles MMC2 and MMC4 watch. *)
WatchedTiles == {\h0FD8, \h0FDC, \h0FE8, \h1FD8, \h1FEF}
PpuFetch(addr) ==
  /\ r' = Fetched(board, r, addr)
  /\ r' # r
  /\ UNCHANGED <<cart, irq, ramWritten, a12, writes, clocks, alarm>>

(* Cartridge::reset, Mapper::resetA12 among it where the board counts A12. *)
Reset ==
  /\ r' = ResetOf(board, r, n, k)
  /\ irq' = IrqReset(board)
  /\ IF board \in A12Boards
     THEN a12' = A12Reset
     ELSE UNCHANGED a12
  /\ due' = Unknown /\ fresh' = FALSE
  /\ UNCHANGED <<cart, ramWritten, writes, clocks>>

Next ==
  \/ \E w \in Writes(board, cart.study) : CpuWrite(w[1], w[2])
  \/ \E level \in BOOLEAN : PpuDot(level)
  \/ CpuClock
  \/ \E addr \in WatchedTiles : PpuFetch(addr)
  \/ Reset

Spec == Init /\ [][Next]_vars

-----------------------------------------------------------------------------
(* What a program and a player can rely on. *)

(* The windows a board keeps inside its ROM: all those whose bank it       *)
(* reduces by the number of banks, and those that are fixed.               *)
KeptPrg ==
  CASE board \in DOMAIN LatchBoards ->
         CASE LatchMasked(board) -> PrgWindows
           [] \E i \in DOMAIN LatchBoards[board].prgMap :
                LatchBoards[board].prgMap[i] = "lo16" -> {2, 3}
           [] OTHER -> {}
    [] board \in {22, 28, 34, 46, 57, 60, 72, 92, 193, 226, 227, 228, 232, 243, 246,
                  4, 74, 118, 119, 182, 191, 192, 194, 49, 115, 205, 189,
                  48, 67, 69, 24, 26} -> PrgWindows
    [] board \in {33, 71, 76, 88, 154, 10, 68, 73, 91, 112} -> {2, 3}
    [] board \in {32, 64, 65, 75, 80, 82, 95} -> {3}
    [] board = 9 -> {1, 2, 3}
    [] board = 5 -> {w \in PrgWindows : ~InRam(r, w)}
    [] board = 1 -> IF n \in {16, 32} THEN PrgWindows ELSE {}
    [] OTHER -> {}
KeptChr ==
  IF \/ k = 0 /\ board # 1
     \/ board \in DOMAIN LatchBoards /\ LatchBoards[board].chrMap # "masked8"
     \/ board \in {15, 32, 33, 44, 47, 64, 65, 67, 68, 71, 75, 76, 80, 82, 88, 91, 95, 112,
                   154, 189, 226, 227, 230, 232, 234, 245, 246}
  THEN {} ELSE ChrWindows

(* Whatever banks a program writes, and whatever the size of the ROM, a    *)
(* window its board keeps reads a byte of the cartridge: its bank is one   *)
(* there is (mapper_helpers::maskBank and the masks of each board).        *)
WindowsInRom ==
  /\ \A w \in KeptPrg : Prg(board, r, n)[w] \in 0..2 * n - 1
  /\ \A w \in KeptChr : Chr(board, r, k)[w] \in 0..(IF k = 0 THEN 8 ELSE 8 * k) - 1

(* A reset brings back the PRG the program started in, banks the board     *)
(* keeps ready included, and no interrupt is left over: the reset vector   *)
(* is the one of power-on.  Boards 60 and 230 move on by design, 28 has no *)
(* reset(), and that of 15 misses the register (Mapper015.h:19).           *)
ResetRestarts ==
  [][Reset /\ board \notin {15, 28, 60, 230} =>
       /\ Prg(board, r', n) = Prg(board, ResetOf(board, Built(board, n, k), n, k), n)
       /\ ~irq'.line.current /\ ~irq'.line.target /\ ~irq'.enable]_vars

(* A counter decides to interrupt at the clock its document counts, from   *)
(* the write that started it or from its last expiry, if interrupts are    *)
(* enabled then; at no other clock does it.  Enabling, acknowledging and   *)
(* new reload values in between make no difference to that.  How long      *)
(* after that clock the line goes up is not its matter (line.target is     *)
(* what was decided, line.current the line): the code has no delay where   *)
(* 048.txt:76 and 064.txt:160 want one longer than MMC3's.                 *)
OnTime(i) == i.line.target = (irq.line.target \/ (Expires /\ irq.enable))
IrqOnTime ==
  [][/\ \A level \in BOOLEAN :
          PpuDot(level) /\ Rises(level) /\ due # Unknown => OnTime(irq')
     /\ CpuClock /\ Running /\ due # Unknown => OnTime(irq')]_vars

(* The line goes up only while the program has interrupts enabled: one on  *)
(* its way when the program disables them does not arrive afterwards.      *)
IrqQuiet == [][~irq.line.current /\ irq'.line.current => irq.enable]_vars

(* src/nes_specs/mappers/087.txt:16 "Regs are at $6000-7FFF, so these games*)
(* have no SRAM.", 091.txt:14, 140.txt:14, 184.txt:19, 189.txt:22,         *)
(* 193.txt:15 and 205.txt:15 likewise: on those boards no write is one to  *)
(* PRG RAM.                                                                *)
WithoutRam == {87, 91, 140, 184, 189, 193, 205}
RegistersReached == board \in WithoutRam => ~ramWritten
=============================================================================
