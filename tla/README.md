# NitroNES in TLA+

NitroNES emulates the NES and Famicom cycle by cycle: every CPU cycle clocks
the PPU three times, the cartridge once and the 2A03 (CPU, APU and DMA units)
in two phases, and what a game sees depends on the order in which they look at
each other's pins. Around the machine are an application with save states,
rewinding and scanline synchronisation, and a player for NSF music files.

This directory models the parts where order matters, checks them with TLC on
small instances and proves the central results with TLAPS for all values of
their constants. The source is the reference: `PROJECT.json` maps every
definition to the lines it translates. Paths below are relative to `src/src/`
unless they start with `src/`.

## 1. The system

| Component | State it keeps | Operations | Talks to |
|---|---|---|---|
| CPU6502 (`core/CPU6502.h`) | registers, the micro-op of this cycle and of the next, NMI and IRQ pipelines, the kind of interrupt being entered | `clockPhi1`, `clockPhi2`, `reset`, `jumpTo`, `setRdy` | the A2A03 for memory, RDY from DMA, NMI and IRQ lines through the core |
| DMA units (`core/DMA.h`) | phase of the OAM and of the DMC unit, address, latch, halt and abort pins | `clockPhi1`, `clockPhi2`, `startOAMDMA`, `reset` | CPU's RDY and address, APU's sample state |
| APU (`core/APU.h`) | frame counter and mode, length counters, four channels' generators, the DMC channel | `clock`, `readData`, `writeData`, `reset`, `setPalMode` | CPU by IRQ, DMA by the sample buffer |
| A2A03 (`core/A2A03.h`) | get/put parity, internal and external data bus, controller strobe | three steps of a cycle, register overlay of a DMA read, `reset`, `save`, `load` | joins the three above to a core |
| PPU (`core/PPU2C02.h`) | dot, line, flags, scroll registers and their pipelines, OAM, fetch and sprite units, frame buffer | `clock`, `cpuRead`, `cpuWrite`, `pollNmiLow`, `reset`, `setRegion` | cartridge on every fetch, CPU by NMI |
| Cartridge and mappers (`core/Cartridge.h`, `core/mappers/`) | ROM, RAM, bank registers, the A12 filter, IRQ counters | reads, writes, `ppuAddress`, `clockPpu`, `clock`, `reset` | PPU and CPU buses, IRQ |
| NESSystem (`core/NESSystem.h`) | RAM, controller latches, the address last read | order of a CPU cycle, memory map, `saveState`, `loadState` | all of the above |
| NSFPlayer (`core/NSFPlayer.h`) | banks, trampoline, call timer, song number, expansion chip | `clockOneCycle`, `initSong`, `loadState`, song choice | the 2A03 without a PPU |
| Session (`IFileSession.h`, `NESSession.h`, `NSFSession.h`) | differences of past frames, the buffer they are taken against, synchronisation | capture, rewind, slots, ticking | a core; files |
| Application (`App.h`, `sdl/`) | the open session, a pending action, settings, window and devices | events, menu callbacks, the main loop | a session |

What is hard in it:

* **Two phases and pins.** The APU, the CPU and the DMA units are clocked in
  that order, and a value that is looked at one phase early or late is a
  cycle's difference. Several pins answer after some ticks (`DelayedPin.h`).
* **Two DMA units on one bus**, which halt the CPU on reads only, align with
  the get/put parity, and are started and cancelled by writes that race with
  them.
* **Races with a running counter.** `$2002` against the vertical blank flag,
  `$4015` against the frame interrupt, `$4017` and length writes against the
  sequencer, interrupts against branches and other interrupts.
* **Searches and addresses made twice.** The PPU looks for the sprites of a
  line three times, and the mappers tell lines from the addresses it happens to
  read, while the program writes the same registers at any dot.
* **Raw memory.** States are saved as bytes of objects; rewinding keeps
  differences only, among actions of the user that replace the machine.
* **Programs.** Any byte sequence is a program; nothing may be assumed of it
  but what the CPU itself can do in a cycle.

What makes each part correct is in section 4, property by property; the
hazards each is aimed at are listed, by line, in `PROJECT.json`.

## 2. Modules

| Module | What it is | Source |
|---|---|---|
| `DelayedPin` | the pin and the shift register as operators | `core/DelayedPin.h` |
| `DMA` | both DMA units, the DMC channel that feeds one of them, the CPU as any sequence of reads and writes, moved by the NSF player or not | `core/DMA.h`, `A2A03.h`, the DMC part of `APU.h`, `jumpTo` and `initSong` |
| `CycleSteal` | abstract: a copy is one uninterrupted freeze of the CPU and comes out whole | what `DMA` implements |
| `DMATiming` | `DMA` with history variables that count cycles | `core/DMA.h` |
| `Controllers` | `DMA` with the addresses of reads, the two ports and their strobe | `core/NESSystem.h`, `A2A03.h` |
| `CPU6502` | the micro-op chains and the interrupt logic | `core/CPU6502.h` |
| `APUFrame` | sequencer, frame interrupt, length counters | `core/APU.h` |
| `VBlank` | dots and lines, vertical blank flag, NMI line, short frames | `core/PPU2C02.h`, `NESSystem.h` |
| `SpriteEval` | OAM, its address, the three searches for sprites, overflow, corruption, PAL's refresh | `core/PPU2C02.h` |
| `PPUAddress` | v, t and the registers at `$2000`, `$2005`–`$2007`, and every address a line is read from | `core/PPU2C02.h` |
| `A12Filter`, `MMC5Lines` | the two ways a board tells lines by those addresses | `mappers/MapperBase.h`, `Mapper005.h` |
| `Boards`, `BoardsMulti`, `BoardsBanked`, `BoardsMMC3`, `BoardsIRQ`, `BoardsMMC5` | a cartridge board as operators: registers at power-on, after a write, after a reset, the windows they lay out, the counter | `core/mappers/` |
| `MapperRegistry` | from the number of a board to those operators | `mappers/MapperRegistry.h` |
| `Cartridge` | one cartridge on its buses: writes, PRG RAM, both clocks, A12, fetches, reset | `core/Cartridge.h` |
| `NSFPlayer` | INIT and PLAY calls, watchdog, songs | `core/NSFPlayer.h`, `NSFSession.h` |
| `Session` | main loop, slots, rewinding, process restarts | `App.h`, `IFileSession.h` |
| `StateHistory` | abstract: a bounded stack of whole states | what `Session` implements |
| `*Proofs` | the theorems about the module of that name; `DMAProofs` also those about `DMATiming` and `Controllers`, `PPU2C02Proofs` those about `VBlank` and `SpriteEval`, `SessionProofs` those about `NSFPlayer` and the refinement of `StateHistory`, `PPUAddressProofs` those about what `A12Filter` and `MMC5Lines` make of the bus | |
| `MC*` | its small instance | |

State and actions keep the code's names. A step of `DMA`, `APUFrame` and
`CPU6502` is one phase of a CPU cycle; of `VBlank` one part of
`NESSystem::clockOneCycle` (dot, dot, write, dot, perhaps a fourth dot, read and
sample); of `SpriteEval` and `PPUAddress` a dot, or an access between two; of
`Cartridge` an event on one of its buses; of `NSFPlayer` one `clockOneCycle` or
one act of the user between frames; of `Session` one part of a turn of
`App::run`. A handler is one action, with every call it makes in it.

They compose as the machine does. `Controllers` conjoins each action of `DMA`
with what it does to the ports. `PPUAddress` drives `A12Filter` and `MMC5Lines`
with the addresses it fetches, `Cartridge` drives `A12Filter` with any levels.
In `DMA` the CPU is a variable saying what it does in this cycle, chosen
freely; `CPU6502` is the same interface from the other side, with the stall
chosen freely. The assumptions that join the two are each other's results:
`DMA` lets the CPU write at most `MaxWrites` = 3 cycles in a row, which `CPU6502`
shows (`ThreeWritesInRow`); `CPU6502` expects that RDY comes back, which is what
`DMA` shows (RDY is low only while a unit has the CPU, by `HoldInv`, and each
unit comes to an end, by `OamServed` and `DmcServed`). `NSFPlayer` moves the CPU
between two of its cycles, and what that does to a CPU entering an interrupt is
in `CPU6502`, to a DMA under way in `DMA` (`CallPlay`, `InitSong`), to the
sequencer in `APUFrame` (`InitSong`).

Data is kept only where a property tells it apart: a byte of a page is its
page and index, a byte of OAM the place it came from, a button its position, a
machine state a function from parts to contents, a program a choice among what
may come next. Boards keep their numbers, since what may go wrong in a mapper
is arithmetic. Definitions whose name starts with `Mut` are slips, each a way
to get the definition after it wrong; TLC finds each of them out by the
property `PROJECT.json` pairs it with.

## 3. Instances, bounds and fairness

* **`dma`** — a page of 2 bytes (a first and a last), two page numbers so that
  a page mixed from two is seen, samples of 1 and 2 bytes (the last byte is the
  first, or is not), an output period of 3 APU cycles, short enough for several
  fetches in a copy and in one stall. `$4010`–`$4015`, reset, a call of PLAY and a
  new song may come between any two cycles. `IrqFlags` = {TRUE}: a program that
  turns the sample's interrupt off again would only double the states, and
  `InitSong` turns it off. The lengths of stalls need no bound of their own: every
  stall of this machine ends.
* **`controllers`** — a page of one byte, samples of one, a period of 5, two
  buttons: enough for each kind of fetch to fall between the repeats of a
  stalled read, and for a button too many to be seen.
* **`cpu`** — the whole of the controller, which is finite: no constants. Counts
  stop at `MaxPassed` = 2 and 4 writes, past what their properties allow.
* **`apu`** — one length counter, since the counters share nothing but the tick,
  and lengths of 2; steps at 2, 4, 5 (NTSC) and 3, 7, 9 (PAL) in APU cycles: far
  enough for a `$4017` write to be made and take effect between two, and the
  PAL sequence is longer than the NTSC one, as in the hardware.
* **`vblank`** — lines of 11 dots: 11 and 341 leave the same remainder on
  division by a CPU cycle's three, and frames of an odd number of dots take
  the PAL machine (16 dots in five cycles) through all its alignments. Counts
  stop at `MaxCount` = 2 and `MaxRendered` = 3, past what is compared.
* **`sprites`** — 4 sprites and 2 slots, so that a line may have none, the last
  slot filled, an overflow, and a sprite that only the faulty diagonal search
  after the ninth comes to. 22 dots of search let it wrap and wait; 10 idle dots make a PAL
  refresh line advance the address a whole number of turns, as 341 dots do. The
  program acts at most twice, at a dot of the clearing, of the search, of the
  sprite fetches and of the rest of a line, or in the refresh.
* **`ppu_address`** — tables of 2 by 2 tiles and 4 rows of address, so that both
  the wrap at row 29 (here 1) and that at row 31 (here 3) happen; 3 lines, one
  blank line, lines of 53 dots, whose remainder by three is that of 341, with the
  real filter of 12 dots and the real 9 dots between the last fetch of one line
  and the first of the next. Two accesses at three dots, 12 dots (four CPU
  cycles) apart or more, as two stores are. The assumption, and with it the
  proofs, asks for 11: in a cycle a read is a dot later than a write.
* **`cartridge`** — every board of the registry, on ROMs as small as it takes, of
  sizes that are no power of two, and of 32 banks; for each the registers it
  decodes with the bytes that tell them apart, 3 to 6 writes by the number of
  writes a mode, a bank and a counter take. A filter of 2 dots, a prescaler of 7,
  16 clocks: counters are loaded with small numbers.
* **`nsf`** — units of half a cycle, since periods are not whole cycles;
  periods of 6.5 and 8 cycles, instructions of at most 3, a watchdog of 15,
  about two periods. A song's lead is not counted past `-MaxLag - 1`, where
  the property has failed, nor its timer once the CPU is stuck.
* **`session_nes`** — two parts of two contents each, one slot, 2 frames of
  history, 1 restart: every pattern of changed parts, the dropping of the
  oldest frame, and a rewind past where a slot was loaded.

Fairness is weak fairness of the clock (`Clock`, `Phi1`, `ClockOneCycle`):
`tickFrame` and `tickWhile` clock the machine in a loop until something
happens in it. Nothing is assumed of programs, except where a property says so
itself: `NotesEnd` and `InterruptsServed` are about the time after the
program's writes, or resets and calls of the host, cease. `CPU6502` has strong
fairness of a cycle that is not stalled, justified by `DMA` as said above; in
`OamServed` and `DmcServed` nothing asks the program to stop: a CPU has to read
after three writes. Calls of PLAY do not stop a DMA from being served, however
often they come. `Session`, `Cartridge`, `VBlank`, `SpriteEval` and `PPUAddress` have
no liveness: they wait for the user, or are clocked by a machine whose loop ends
by counting dots.

Deadlock is checked everywhere. A jammed CPU, an ended song or a closed
session still has a next step.

## 4. What is checked

**`dma`** (and theorems in `DMAProofs`). `NoLostRead`: the CPU continues from a
read only with a byte it read itself. `OamInOrder`: a page reaches the PPU
in order, each byte once, whatever the DMC takes in between.
`NoSampleOverwritten`: a fetch under way finds its buffer empty. `StealSpec`: the
machine implements `CycleSteal`. `OamServed`, `DmcServed`: every copy ends, every
sample that waits for a byte gets it. `StallCost`: the CPU loses exactly the
cycles of `src/nes_specs/dma.txt` for each combination of copy, fetches and
aborted fetches. `AbortWindow`: which scheduled fetches are dropped when their
sample ends. `OneLateGet`: an ended sample costs one more fetch at most. All of
them hold with the CPU moved by the NSF player between any two cycles: what keeps
a song whole is that `emitRead` gives the moved CPU a read on the bus, which a
stall holds like any other.

**`controllers`** (and theorems in `DMAProofs`). `OneClockPerEnable`: the code has no
clock line to a controller and tells a new read from a repeated one by the
address of the read before. It shifts a port exactly when letting go of the
real machine's output enable would, and returns the button that was first then,
with DMC and OAM fetches between the repeats, or on the register itself.

**`cpu`** (and theorems in `CPU6502Proofs`, as for every module below). `NMINotLost`, `NMIOncePerEdge`, `NMIWaitsForOne`: an edge is taken, once,
and at most one instruction late. `IRQRespectsMask`: CLI, SEI and PLP act one
instruction late and RTI at once. `FrameTellsSource`: what an entry pushes says
who entered, takeovers included. `ThreeWritesInRow`. `InterruptsServed`: an NMI, or
an IRQ that stays and is not masked, is served unless the CPU jams.
**`cpu_sync`** (violated). `isOpcodeFetchCycle` recognises only fetches that follow
a write; its comment calls it SYNC, and the PAL machine's DMA waits for it.

**`apu`**. `NoLostFrameIRQ`: an interrupt the program allowed stays flagged until
read or inhibited, even when an earlier read is still to take effect.
`SkipIsFresh`: a length reload told to sit out the next tick meets that tick on
the very next clock, unless an NSF song was started on the wrong half of a cycle. `CountStaysInSequence`: no mode change or region switch
leaves the counter past its last step, where equality would never find it.
`NotesEnd`: a note that is not halted ends.

**`vblank`**. `FlagSeenOnce`: a program polling `$2002` is told of a vblank once, or
not at all if it reads a dot before. `LineFollowsFlag`: the NMI line kept in a
variable of its own agrees with the flag. `OneNMIEachFrame`: with NMI enabled
the CPU's sampling sees one edge a vblank at every alignment, none after a read
around the flag's dot. `EveryOtherFrameShort`, and never two short frames in a
row.

**`sprites`**. `SlotsAgree`: the sprites `$2004` shows while a line is searched are
those the picture has. `OverflowOnTime`: the overflow flag rises on the dot the
search comes upon the ninth sprite, although that dot was computed before. Both
on a line rendered undisturbed, whatever was done to the lines before.

**`ppu_address`**. `ScrollHonoured`: every tile of an undisturbed picture comes from
where the scroll registers put it, through wraps and tables. `AddressKept`:
outside a picture `$2007` goes where `$2006` led and returns the byte of the read
before, whatever the pipelines were at. `OneClockPerLine`: the A12 filter lets
through one rise a line. `LinesCounted`: MMC5's counter is the number of the line
for every alignment of the CPU, in frames that leave a dot out too.

**`cartridge`**. `WindowsInRom`: a window the board keeps reads a byte of its ROM,
for any bank written and any size. `ResetRestarts`: a reset brings back the PRG of
power-on and leaves no interrupt. `IrqOnTime`: a counter decides to interrupt at
the clock its document counts and at no other; how long after it the line goes up is
not its matter (below). `IrqQuiet`: none arrives while the
program has it disabled. **`cartridge_registers`** (violated). Seven boards have
their registers at `$6000`, where `Cartridge::cpuWrite` finds PRG RAM first.

**`nsf`**. `CallsKeepTime`: nothing is lost from call to call; a song is at most a
period ahead of the beat and a watchdog (and an instruction) behind.
`OnlyOverrunsAreCut`: a PLAY that has not returned is cut off only when a
watchdog overdue. `FramesEnd`: every `tickFrame` ends unless the CPU has jammed
where no call is timed.

**`session_nes`**. `LoadsWholeState`: a rewind or a load gives back the whole
machine of that moment, after any rewinds, loads, resets, partial frames and
dropped frames. `HistorySpec`: the session implements `StateHistory`.

### What the model showed and no run is about

Of the player and the session:

* `NSFPlayer::saveState` leaves out banks, `extRam`, `callDone`, `playTimer`,
  `currentSong` and the expansion chip, so that a rewound tune goes on in a state it never
  was in, though `src/README.md:22` promises rewinding. `Session` checked with a
  machine that saves only some of its parts violates `LoadsWholeState`.
* `NSFPlayer::loadState` takes the region of the state without the PLAY rate that
  goes with it (`core/NSFPlayer.h:226`).
* A slot holds the CPU's member-function pointers (`core/A2A03.h:71`). A file
  written by another build, or on some systems by another run, points anywhere;
  a session reads it without a check.
* A file of 255 songs reaches a song 0 (`core/NSFPlayer.h:184`: a byte wraps before
  it is compared), and an INIT that jams the CPU hangs `tickFrame`.

Of the 2A03:

* The byte of an ended sample's late fetch is dropped (`core/APU.h:539`); `dma.txt:153`
  says it is played.
* The APU flags the frame interrupt at the fourth step also when it is
  inhibited; a clock or two later it is cleared again.
* `initSong` writes the APU's registers as on a get cycle, whichever it is. Its
  `$4017` may then take effect on a put cycle, and a note of the song before may
  keep a flag that eats a tick of the new song's; `SkipIsFresh` leaves these songs out
  up to the tick that makes up for it.

Of the PPU:

* From a `$2003` other than 0, `evaluateSprites` goes on past the end of OAM, where
  the search stops (`ppu.txt:258`); the overflow dot is computed from sprite 0, without
  the attribute bits OAM does not have, and is kept if rendering is turned off
  after dot 64.
* When rendering is turned off the bus keeps the address of the last fetch,
  where the machine puts v.
* MMC5 finds a line at its dot 4; `mappers/005.txt:431` guesses dot 336 of the line
  before.

Of the mappers: the lines of 48 (`mappers/Mapper048.h:144`) and 64
(`mappers/Mapper064.h:166`, in both its modes) go up at the clock that decides it,
two dots before MMC3's (`mappers/Mapper004.h:137`), where `048.txt:76` has them some 4
CPU cycles and `064.txt:160` some 5 dots later than MMC3's, or pictures shake. That a line
goes up only when it was on its way before (`irq.line.target`) holds of MMC3 and fails
on both. And 44 keeps a game to 64 KB of its block of 128 KB; a mode
written to MMC3's `$8000` moves no bank until the next `$8001`; 15 has a reset that
misses the register; 64 in CPU mode goes on with a stale A12; 95 never reaches its
one-screen mirroring; no board honours the header's four screens; MMC1 takes
writes of consecutive cycles, where the chip ignores the second, and leaves the PRG bank unmasked on small
ROMs; CHR bank counts and MMC5's number of PRG banks are cut to a byte.

## 5. What is proved

Each component's proofs have `Spec => []Inv` for an invariant made of named parts,
one step per action and one lemma per part, and its other theorems from it.
Types are theorems of `DMA`, `Session`, `APUFrame`, `VBlank`, `NSFPlayer`, `CPU6502`,
`Cartridge`, `PPUAddress` and `SpriteEval`, so that
no run spends time on them; nothing depends on the bounds of section 3, only on the
assumptions named in each module (`DMAAssumption` and so on), which TLC evaluates.

* **DMA** — for any page size, samples, rates and modulus. `IInv` says RDY is
  low while a unit has the CPU, and only on a cycle that may be held
  (`HoldInv`), that an access under way belongs to the unit and phase that made
  it (`AccessInv`) and that the bytes copied are a prefix of the page whose
  length is the index reached (`CopyInv`). `OamInOrder` is not inductive alone: a
  put writes the latch, and only `CopyInv` knows that it holds the byte of that
  index. From it: `CpuUndisturbed` (which adds that a write keeps its address to
  `NoLostRead`), `CopyCorrect`, `SamplesKept`, `CounterNeverWraps`, `HeldOnFetch`
  (a PAL machine's CPU is held on opcode fetches only) and `ImplementsCycleSteal`.
* **Controllers** — `PadsShiftWithTheirLines`, on top of DMA's `IInv`: `PadInv` says
  that a port's line is asserted exactly when the address last read is the
  port's, with the shift register one ahead of the clocks then, and what a
  stalled CPU's address may be.
* **DelayedPin** — a scheduled change is made on exactly its tick
  (`FiresExactlyOnce`); a tap is the value the pin is about to have
  (`TapForetells`).
* **VBlank** — for any number of dots above 5 and lines: types, `LineFollowsFlag`
  and `FlagSeenOnce`, by what each dot may still do to the flag.
  `OneNMIPerFrame` needs `NmiInv`: from the dot that raises the line to the next
  sample the edge is not sampled, sampled or taken back by a read, at most four
  dots go by between two samples, and a line released and low again within a
  cycle is remembered by the latch. `ShortFramesAlternate` needs `SkipInv`: what
  the pin holds on the three dots between the decision and its effect, and that
  the parity tells which of the last frames was short. TLC checked both
  invariants before they were proved.
* **SpriteEval** — `SlotsAgreeHolds` and `OverflowOnTimeHolds`, for any number of
  sprites and slots, any contents of OAM, any set `near` of bytes that put a sprite on
  the line and any accesses. `SizeAssumption` says that the slots divide the sprites,
  that the search has an even number of dots, enough for eight to each slot and two to
  each other sprite (192, where 176 are needed), and that `$2003` is written with bytes.
  `Rank(s, n)`, how many of the first `n` sprites from `s` are on the line, is what the
  three searches have in common: the machine comes to sprite `j` on a dot that is a
  function of `j` and its rank (`Base`), and writes it to the slot of that rank (`Filled`);
  `evaluateSprites` puts there the sprite found with that rank (`FoundAtIs`, from
  `RankOnto` and `RankInjective`). `SearchInv` says for every dot of an undisturbed line
  which sprite the machine is at and what it does there: `Looking` at it, `Copying` it,
  `Over` when OAM has ended, or `Full`, and then whether `Past` the slots the ninth has
  been `Met`, there is none (`Passed`), or the bytes read so far were of none
  (`Passing`). The dot computed ahead is the first of those the machine will be
  `Passing` at (`ComputeIs`), so that it is past exactly when the ninth was met
  (`RangedIff`). Neither property is inductive: each speaks of one dot, and what it
  says there rests on every step of the search. TLC checked `SearchInv` over the
  2 032 776 states of the instance, and over 37 million of one with four sprite starts,
  before it was proved.
* **APUFrame** — for any steps with half < fourth < fifth. `LandsOnGet`: a
  `$4017` write on its way takes effect on a get cycle; `SkipBeforeTick`: what a
  flagged reload relies on; the two together make the prediction inductive, and
  `Recovery` gives them back after a song that broke them.
  `FrameIRQKept` needs that a read still to take effect has noted the flag.
* **NSFPlayer** — for any tune, period and watchdog, provided a period is
  longer than the longest instruction and three cycles (29 780 against some
  hundreds). `Beat`: the timer is the song's lead, and how far behind it may
  be depends on what is waited for.
* **Session** — for any parts, slots and history length, the chain of
  differences leads back through every kept frame (`HistoryKept`), and if
  `saveState` writes every part every load is whole (`WholeStateComesBack`). A
  difference holds the old contents of what changed, so `Undo` after `Changes`
  is the identity; the invariant is that the chain starts at the buffer of the
  last captured or rewound frame, not at the live machine.

* **DMATiming** — `StallCostHolds`, `AbortWindowHolds`, `AtMostOneLateGet`, for
  any page of two bytes or more and any output period above one, both of which
  are needed: a page of one byte ends before a fetch on its way, and with a period
  of one a fetch waits for the next. `TimingInv` gives what is left of a stall as
  a function of the units' phases, the bytes copied and the parity, and what the
  abort pin still holds as a function of the cycles since the sample ended.
* **CPU6502** — `Invariance` and from it all six of its safety and action
  properties. `IInv` names what each micro-op knows of the interrupt it may be
  in: the pipelines of the pins (`PinInv`), the writes made in a row at every
  place of every chain (`WriteInv`), who entered and what was pushed
  (`FrameInv`, `EntryInv`, `ServedInv`, `CutInv`), how late a pending edge may be
  (`PassedInv`, `PendingInv`), the mask that counts (`SnapshotInv`). TLC checked it over
  the 152 062 states of the instance first; since the module has no constants, the
  theorem adds an argument, not generality.
* **StateHistory** — `ImplementsStateHistory`: a session is a bounded stack of
  whole states. Its stack is read off the chain of differences by a recursive
  function; that it is the only such function is `WFMin` on the naturals.
* **Cartridge** — `OnTheDocumentedClock` (the clock counted, not the delay of the line
  after it) and `QuietWhenDisabled`, for every board with a
  counter, any values written and any number of writes and clocks. For each
  board `IInv` says how many of the clocks counted are left until the interrupt,
  as a function of the counter's registers (`AlarmInv`), beside types, the range
  of each register and that an interrupt pending was asked for. What the code
  computes with exclusive ors stays opaque, which is all the argument needs.
  `DotsAssumption` and `WritesAssumption` say that writes are bytes and dots are
  counted.
  `BanksStayInRom` and `ResetBringsBack` state `WindowsInRom` and `ResetRestarts`, for every
  one of the 93 boards, every number of banks and every sequence of writes. `BanksInv` says
  what the registers of each board hold: `WindowsInRom` alone is not inductive, since MMC3
  and its family keep the banks in use apart from the registers they come from
  (`Regs004`), MMC5's modes pick among layouts and a latch's mode must be one it has.
  The layouts rest on a few lemmas: `maskBank` returns a bank there is for any number of
  banks, a power of two or not (`MaskBankIn`), also where that number has been cut to a
  byte, zero included (`MaskByteIn`). `SizesAssumption` says the registry knows the board, that
  boards other than NROM and CNROM have at least the 32 KB of PRG that switching takes,
  and that the number of CHR banks is a byte, as the factory makes it. The theorem says
  nothing of the windows `KeptPrg` and `KeptChr` leave out, those whose bank the code does
  not reduce.
  TLC checked both invariants over the 352 549 states of the instance first.

* **PPUAddress** — `AddressKept`, `OneClockPerLine`, `LinesCounted` and `ScrollHonoured`,
  for name tables, lines and frames of any size and any program of accesses. The assumptions: accesses
  are at least 11 dots apart (`SpacingAssumption`; a store takes 12); the attributes of
  a table end with it (`AttributeAssumption`); the filter's delay is longer than the
  pause between two lines and not longer than a line's tiles and than its sprites
  (`PauseAssumption`, which 12 dots meet); `$2007` advances the address by a step below
  a table's size, 1 or 32 in the code (`InputAssumption`); MMC5's byte can count the
  picture's lines (`LinesAssumption`). Sizes being open, the fields of an address are
  arithmetic with products of constants: the first part of the module gives quotients
  and remainders of sums (`Quotient`, `FieldsOf`), what `TransferX`, `IncrementX` and
  the like do to each field, and that every fetch stays in its table.
  - `AddressKeptHolds`: at most one access is on its way outside a picture, since the
    longest pipeline is shorter than `Spacing` (`InFlight` ties how far each has come to
    the dots since the last act); what it still carries is where the ideal address
    already is (`IdealInv`).
  - `OneClockPerLineHolds`: after a whole line rendered without a disturbance, the state
    of the filter at each dot of a calm line, with background low and sprites high or
    the other way round (`LowBackground`, `HighBackground`), is a function of the dots
    since A12 last fell; how many rises were let through follows from the dot.
  - `LinesCountedHolds`: `LinesInv` has a part for each thing MMC5 relies on. Outside
    the picture it falls idle and cannot take two accesses of the program for repeated
    fetches (`BlankInv`); a program that turns rendering off cannot turn it on again
    before MMC5 has noticed, since the accesses are as far apart as three cycles without
    a read take at any alignment (`DarkInv`, `Aligned`); no line is counted before the
    picture (`StartInv`, `TopInv`); within a line, the number of times the name on the
    bus has been repeated is a function of the dot (`RepeatInv`), also where the dot an
    odd frame leaves out carries its read into the next line (`CarryLine`); a reading
    PPU is never idle for three cycles at any alignment (`FedInv`). With these the
    counter is the line's number (`CountInv`). TLC checked `LinesInv` over the states of
    the instance, at a `Spacing` of 11 and of 12, before it was proved.
  - `ScrollHonouredHolds`: in `ScrollInv`, while nothing has disturbed the picture, the
    column of the address is the scroll position's plus the tiles fetched since the line
    began, modulo two tables (`RightByOne`), and its row the scroll position's taken down
    as many rows as lines were shown (`Placed`). That `RowsDown`, which is arithmetic, is
    what `IncrementY` does line by line, also past row 29, and through the attribute
    rows to 31, is `DownNext`; that a tile's second fetch still has the low byte of
    its address in the latch is a part of the invariant of its own. TLC checked
    `ScrollInv` over the 3 371 422 states of the instance first.

Every invariant and every action property of a passing run is thus a theorem, and so
are both refinements. Only model-checked: liveness (`OamServed`, `DmcServed`, `NotesEnd`,
`FramesEnd`, `InterruptsServed`), which is beyond this prover.

## 6. What is not modelled, and what could be next

Not at all: sound generation and filtering (numbers that nothing looks back at,
but for sweeps and the linear counter), expansion sound, the picture's colours,
ImGui and SDL, settings and languages, pacing arithmetic, trace output, the
parsing of file headers. Of modelled parts, each component's note in
`PROJECT.json` says what was left.

The program's own code is some 11 000 lines under `src/src/`, and the map covers more
than half of it. The rest of the repository's 56 000 lines — the cc65 compiler
with its samples and headers (`src/cc65-snapshot-win32`), the test ROMs of
`src/nes-test-roms-master`, with the tools that build their data, and a font
written out as bytes (`src/src/sdl/imgui/PressStart2P-Regular.h`) — has no behaviour
of the emulator's in it.

What could be added, the more useful first:

1. `CPU6502` composed with `DMA` in place of the two assumptions, and the
   read-modify-write accesses that touch `$2006` and `$2007` twice in a row.
2. Sprite 0 and a sprite height changed within a line, beside `SpriteEval`; a reset
   of the PPU, PAL's fourth dot and the data of VRAM in `PPUAddress`.
3. MMC5's split screen, nametables, extended attributes and multiplier; the CHR
   RAM that boards 74, 77, 119, 191, 192 and 194 mix with ROM; nametables in CHR
   ROM (68, 228); an NES 2.0 header of more banks than a byte counts.
4. The linear counter and the sweep's muting beside `APUFrame`, and the length
   counters of MMC5.
5. The assumption of `PPUAddress` on `Spacing` derived from `CPU6502`.
