--------------------------- MODULE CartridgeProofs ---------------------------
(***************************************************************************)
(* Theorems about Cartridge, for every board, every size of ROM and every  *)
(* write of a program: the interrupt counter asserts its line at the clock *)
(* its document gives and the line never goes up with interrupts disabled; *)
(* a window that a board keeps reads a byte of the cartridge; a reset      *)
(* brings back the PRG of power-on.                                        *)
(*                                                                         *)
(* The counters first.  The alarm of Cartridge counts the clocks a document*)
(* gives.  The proof ties it to the registers: Waits says, for each way of *)
(* counting, how many clocks are left as a function of the counter, its    *)
(* reload value, its flag and its prescaler.  There are lemmas on what one *)
(* tick or one write does to a counter (Arrives, Told), then that each     *)
(* keeps Waits, board by board, and then one lemma for each action.        *)
(*                                                                         *)
(* Then the banks.  RegInv says what the registers of each board hold;     *)
(* there are lemmas on the layouts (PrgIn, ChrIn: within the ROM), then for*)
(* each board that a write keeps RegInv and that its layout is within the  *)
(* ROM, and then the same of the machine.                                  *)
(***************************************************************************)
EXTENDS Cartridge, DelayedPinProofs, SequenceTheorems

(* A line behind the two ticks of Mapper::setIrq's delay, and the record of*)
(* BoardsIRQ that holds any board's counter.                               *)
Lines == PinsUpTo(BOOLEAN, 2)

Counters ==
  [line : Lines, enable : BOOLEAN, onAck : BOOLEAN, mode : BOOLEAN,
   counting : BOOLEAN, counter : Nat, reload : Nat, reloadFlag : BOOLEAN, highNext : BOOLEAN,
   prescaler : Int]

(* An interrupt on its way was enabled, and still is.                      *)
Wanted(i) == i.line.target /\ ~i.line.current => i.enable

(* A line that rests low, and one that rests high.                         *)
LEMMA LineLow ==
  PinOf(FALSE) \in Lines /\ ~PinOf(FALSE).current /\ ~PinOf(FALSE).target
<1>1. PinOf(FALSE) \in Lines
  BY PinOfType DEF Lines
<1>2. QED
  BY <1>1 DEF PinOf

LEMMA LineUp ==
  PinOf(TRUE) \in Lines /\ PinOf(TRUE).current /\ PinOf(TRUE).target
<1>1. PinOf(TRUE) \in Lines
  BY PinOfType DEF Lines
<1>2. QED
  BY <1>1 DEF PinOf

(* Fields of a counter replaced one at a time.                             *)
LEMMA WithLine ==
  ASSUME NEW i \in Counters, NEW p \in Lines, NEW j, j = [i EXCEPT !.line = p]
  PROVE  /\ j \in Counters /\ j.line = p
         /\ j.enable = i.enable /\ j.onAck = i.onAck /\ j.mode = i.mode
         /\ j.counting = i.counting /\ j.counter = i.counter /\ j.reload = i.reload
         /\ j.reloadFlag = i.reloadFlag /\ j.highNext = i.highNext
         /\ j.prescaler = i.prescaler
BY DEF Counters

LEMMA WithPrescaler ==
  ASSUME NEW i \in Counters, NEW p \in Int, NEW j, j = [i EXCEPT !.prescaler = p]
  PROVE  /\ j \in Counters /\ j.line = i.line
         /\ j.enable = i.enable /\ j.onAck = i.onAck /\ j.mode = i.mode
         /\ j.counting = i.counting /\ j.counter = i.counter /\ j.reload = i.reload
         /\ j.reloadFlag = i.reloadFlag /\ j.highNext = i.highNext
         /\ j.prescaler = p
BY DEF Counters

LEMMA PrescalerCleared ==
  ASSUME NEW i \in Counters, NEW j, j = [i EXCEPT !.prescaler = 0]
  PROVE  /\ j \in Counters /\ j.line = i.line
         /\ j.enable = i.enable /\ j.reload = i.reload /\ j.mode = i.mode
         /\ j.counter = i.counter /\ j.reloadFlag = i.reloadFlag /\ j.prescaler = 0
<1>1. 0 \in Int
  OBVIOUS
<1> QED
  BY <1>1, WithPrescaler

(* Lines set at once, with a delay, and ticked.                            *)
LEMMA LineSet ==
  ASSUME NEW p \in Lines, NEW v \in BOOLEAN
  PROVE  /\ PinSet(p, v, 2) \in Lines
         /\ PinSet(p, v, 2).target = v
         /\ PinSet(p, v, 2).current = p.current
         /\ PinSet(p, v, 0) = PinOf(v)
BY PinSetType DEF Lines, PinSet

LEMMA LineLater ==
  ASSUME NEW p \in Lines
  PROVE  /\ PinSet(p, TRUE, 2) \in Lines
         /\ PinSet(p, TRUE, 2).target
         /\ PinSet(p, TRUE, 2).current <=> p.current
         /\ PinSet(p, TRUE, 0) = PinOf(TRUE)
<1>1. TRUE \in BOOLEAN
  OBVIOUS
<1>2. \A v \in BOOLEAN : 
         /\ PinSet(p, v, 2) \in Lines
         /\ PinSet(p, v, 2).target = v
         /\ PinSet(p, v, 2).current = p.current
         /\ PinSet(p, v, 0) = PinOf(v)
  BY LineSet
<1>5. QED
  BY <1>1, <1>2, Zenon

LEMMA LineTicks ==
  ASSUME NEW p \in Lines
  PROVE  /\ PinTick(p) \in Lines
         /\ PinTick(p).target <=> p.target
         /\ PinTick(p).current => p.current \/ p.target
         /\ p.current /\ p.target => PinTick(p).current
<1>1. PinTick(p) \in Lines
  BY PinTickType DEF Lines
<1>2. QED
  BY <1>1 DEF PinTick, PinOf, Lines, PinsUpTo

(* What an interrupt does to a counter: its line, and nothing else.        *)
SameCount(i, j) ==
  /\ j.enable = i.enable /\ j.onAck = i.onAck /\ j.mode = i.mode
  /\ j.counting = i.counting /\ j.counter = i.counter /\ j.reload = i.reload
  /\ j.reloadFlag = i.reloadFlag /\ j.highNext = i.highNext
  /\ j.prescaler = i.prescaler

(* Acknowledging a counter and raising its line touch the line only.       *)
LEMMA AcknowledgedType ==
  ASSUME NEW i \in Counters
  PROVE  /\ Acknowledged(i) \in Counters /\ SameCount(i, Acknowledged(i))
         /\ Acknowledged(i).line = PinOf(FALSE)
<1> DEFINE p == PinOf(FALSE)
<1>1. Acknowledged(i) = [i EXCEPT !.line = p]
  BY DEF Acknowledged, PinForce
<1>2. p \in Lines
  BY LineLow
<1> HIDE DEF p
<1>3. /\ Acknowledged(i) \in Counters /\ SameCount(i, Acknowledged(i))
      /\ Acknowledged(i).line = p
  BY <1>1, <1>2, WithLine DEF SameCount
<1> QED
  BY <1>3 DEF p

LEMMA RaisedType ==
  ASSUME NEW i \in Counters, NEW delay \in {0, 2}
  PROVE  /\ Raised(i, delay) \in Counters /\ SameCount(i, Raised(i, delay))
         /\ Raised(i, delay).line.target
         /\ delay = 2 => (Raised(i, delay).line.current <=> i.line.current)
         /\ delay = 0 => Raised(i, delay).line.current
<1> DEFINE p == PinSet(i.line, TRUE, delay)
<1>1. i.line \in Lines
  BY DEF Counters
<1>2. Raised(i, delay) = [i EXCEPT !.line = p]
  BY Zenon DEF Raised
<1>3. /\ p \in Lines /\ p.target /\ (delay = 2 => (p.current <=> i.line.current))
      /\ delay = 0 => p.current
  <2>1. CASE delay = 2
    <3>1. delay # 0
      BY <2>1
    <3> QED
      BY <1>1, <2>1, <3>1, LineLater, Zenon
  <2>2. CASE delay = 0
    <3>1. PinSet(i.line, TRUE, 0) = PinOf(TRUE)
      BY <1>1, LineLater, Zenon
    <3>2. p = PinOf(TRUE)
      BY <2>2, <3>1, Zenon
    <3>3. delay # 2
      BY <2>2
    <3> HIDE DEF p
    <3> QED
      BY <3>2, <3>3, LineUp, Zenon
  <2> QED
    BY <2>1, <2>2
<1> HIDE DEF p
<1>4. /\ Raised(i, delay) \in Counters /\ SameCount(i, Raised(i, delay))
      /\ Raised(i, delay).line = p
  BY <1>2, <1>3, WithLine DEF SameCount
<1> QED
  BY <1>3, <1>4, Zenon

Arrives(i, j) ==
  /\ j \in Counters /\ Wanted(j)
  /\ ~i.line.current /\ j.line.current => i.enable

(* A counter that fires, or does not.                                      *)
Fired(i, s, c) ==
  /\ SameCount(i, s) /\ Arrives(i, s)
  /\ s.line.target <=> i.line.target \/ (c /\ i.enable)

(* FiresIf raises the line when its condition holds and interrupts are     *)
(* enabled.                                                                *)
LEMMA Fires ==
  ASSUME NEW i \in Counters, Wanted(i), NEW delay \in {0, 2}, NEW c \in BOOLEAN,
         NEW s, s = FiresIf(c, i, delay)
  PROVE  s \in Counters /\ Fired(i, s, c)
<1>1. CASE c /\ i.enable
  <2>1. s = Raised(i, delay)
    BY <1>1 DEF FiresIf
  <2>2. /\ s \in Counters /\ SameCount(i, s) /\ s.line.target
        /\ delay = 2 => (s.line.current <=> i.line.current)
    BY <2>1, RaisedType, Zenon
  <2>3. s.enable
    BY <1>1, <2>2 DEF SameCount
  <2> QED
    BY <1>1, <2>2, <2>3, Zenon DEF Fired, Arrives, Wanted
<1>2. CASE ~(c /\ i.enable)
  <2>1. s = i
    BY <1>2 DEF FiresIf
  <2>2. i.line.target \in BOOLEAN
    BY DEF Counters, Lines, PinsUpTo
  <2> QED
    BY <1>2, <2>1, Zenon DEF Fired, SameCount, Arrives
<1> QED
  BY <1>1, <1>2

(* What one clock does to the counters behind A12: MMC3's, that of 48, 91, *)
(* 189 and 245, and RAMBO-1's.                                             *)
LEMMA Ticked004Step ==
  ASSUME NEW i \in Counters, Wanted(i), NEW j, j = Ticked004(i)
  PROVE  /\ Arrives(i, j)
         /\ j.enable = i.enable /\ j.reload = i.reload /\ j.mode = i.mode /\ ~j.reloadFlag
         /\ j.counter = IF i.counter = 0 \/ i.reloadFlag THEN i.reload ELSE i.counter - 1
         /\ j.line.target <=> \/ i.line.target
                              \/ /\ i.enable
                                 /\ IF i.counter = 0 \/ i.reloadFlag THEN i.reloadFlag /\ i.reload = 0
                                    ELSE i.counter = 1
<1> DEFINE reloads == i.counter = 0 \/ i.reloadFlag
           next == IF reloads THEN i.reload ELSE i.counter - 1
           fires == IF reloads THEN i.reloadFlag /\ i.reload = 0 ELSE next = 0
           s == FiresIf(fires, i, 2)
<1>1. j = [s EXCEPT !.counter = next, !.reloadFlag = FALSE]
  BY DEF Ticked004
<1>2. next \in Nat /\ fires \in BOOLEAN
  <2>1. next \in Nat
    BY DEF Counters
  <2>2. fires \in BOOLEAN
    BY Zenon
  <2> QED
    BY <2>1, <2>2
<1>3. s \in Counters /\ Fired(i, s, fires)
  <2> HIDE DEF fires
  <2> QED
    BY <1>2, Fires
<1> HIDE DEF s
<1>4. /\ j \in Counters /\ j.line = s.line /\ j.enable = s.enable
      /\ j.reload = s.reload /\ j.mode = s.mode /\ ~j.reloadFlag /\ j.counter = next
  BY <1>1, <1>2, <1>3 DEF Counters
<1>5. j.line.target <=> i.line.target \/ (fires /\ i.enable)
  BY <1>3, <1>4 DEF Fired
<1>6. Arrives(i, j)
  BY <1>3, <1>4 DEF Fired, Arrives, Wanted
<1> QED
  BY <1>3, <1>4, <1>5, <1>6 DEF Fired, SameCount, Counters

LEMMA TickedBStep ==
  ASSUME NEW i \in Counters, Wanted(i), NEW j, j = TickedB(i)
  PROVE  /\ Arrives(i, j)
         /\ j.enable = i.enable /\ j.reload = i.reload /\ j.mode = i.mode /\ ~j.reloadFlag
         /\ j.counter = IF i.counter = 0 \/ i.reloadFlag THEN i.reload ELSE i.counter - 1
         /\ j.line.target <=> i.line.target \/ (j.counter = 0 /\ i.enable)
<1> DEFINE next == IF i.counter = 0 \/ i.reloadFlag THEN i.reload ELSE i.counter - 1
           fires == next = 0
           s == FiresIf(fires, i, 0)
<1>1. j = [s EXCEPT !.counter = next, !.reloadFlag = FALSE]
  BY DEF TickedB
<1>2. next \in Nat /\ fires \in BOOLEAN
  BY DEF Counters
<1>3. s \in Counters /\ Fired(i, s, fires)
  <2> HIDE DEF fires
  <2> QED
    BY <1>2, Fires
<1> HIDE DEF s
<1>4. /\ j \in Counters /\ j.line = s.line /\ j.enable = s.enable
      /\ j.reload = s.reload /\ j.mode = s.mode /\ ~j.reloadFlag /\ j.counter = next
  BY <1>1, <1>2, <1>3 DEF Counters
<1>5. j.line.target <=> i.line.target \/ (fires /\ i.enable)
  BY <1>3, <1>4 DEF Fired
<1>6. Arrives(i, j)
  BY <1>3, <1>4 DEF Fired, Arrives, Wanted
<1> QED
  BY <1>3, <1>4, <1>5, <1>6 DEF Fired, SameCount, Counters

(* One count down, as RAMBO-1 and H-3001 do it.                            *)
LEMMA CountsDown ==
  ASSUME NEW i \in Counters, Wanted(i), i.counter > 0,
         NEW j, j = [FiresIf(i.counter = 1, i, 0) EXCEPT !.counter = @ - 1]
  PROVE  /\ Arrives(i, j)
         /\ j.enable = i.enable /\ j.reload = i.reload /\ j.mode = i.mode
         /\ j.reloadFlag = i.reloadFlag /\ j.prescaler = i.prescaler
         /\ j.counter = i.counter - 1
         /\ j.line.target <=> i.line.target \/ (i.counter = 1 /\ i.enable)
<1> DEFINE fires == i.counter = 1
           s == FiresIf(fires, i, 0)
<1>1. j = [s EXCEPT !.counter = s.counter - 1]
  OBVIOUS
<1>2. fires \in BOOLEAN
  OBVIOUS
<1>3. s \in Counters /\ Fired(i, s, fires)
  <2> HIDE DEF fires
  <2> QED
    BY <1>2, Fires
<1> HIDE DEF s
<1>4. s.counter - 1 \in Nat /\ s.counter = i.counter
  BY <1>3 DEF Counters, Fired, SameCount
<1>5. /\ j \in Counters /\ j.line = s.line /\ j.enable = s.enable
      /\ j.reload = s.reload /\ j.mode = s.mode /\ j.reloadFlag = s.reloadFlag
      /\ j.prescaler = s.prescaler /\ j.counter = s.counter - 1
  BY <1>1, <1>3, <1>4 DEF Counters
<1>6. j.line.target <=> i.line.target \/ (fires /\ i.enable)
  BY <1>3, <1>5 DEF Fired
<1>7. Arrives(i, j)
  BY <1>3, <1>5 DEF Fired, Arrives, Wanted
<1> QED
  BY <1>3, <1>4, <1>5, <1>6, <1>7 DEF Fired, SameCount

(* What RAMBO-1's counter does on a tick of its own.                       *)
Counted064(i, j) ==
  /\ ~j.reloadFlag
  /\ j.counter = IF i.reloadFlag THEN i.reload + 1
                 ELSE IF i.counter = 0 THEN i.reload ELSE i.counter - 1
  /\ j.line.target <=> (i.line.target \/ (~i.reloadFlag /\ i.counter = 1 /\ i.enable))

LEMMA Ticked064Step ==
  ASSUME NEW i \in Counters, Wanted(i), NEW j, j = Ticked064(i)
  PROVE  /\ Arrives(i, j) /\ Counted064(i, j)
         /\ j.enable = i.enable /\ j.reload = i.reload /\ j.mode = i.mode
         /\ j.prescaler = i.prescaler
<1>1. CASE i.reloadFlag
  <2>1. j = [i EXCEPT !.counter = i.reload + 1, !.reloadFlag = FALSE]
    BY <1>1 DEF Ticked064
  <2>2. i.reload + 1 \in Nat
    BY DEF Counters
  <2> QED
    BY <1>1, <2>1, <2>2 DEF Counters, Arrives, Wanted, Counted064
<1>2. CASE ~i.reloadFlag /\ i.counter = 0
  <2>1. j = [i EXCEPT !.counter = i.reload]
    BY <1>2 DEF Ticked064
  <2> QED
    BY <1>2, <2>1 DEF Counters, Arrives, Wanted, Counted064
<1>3. CASE ~i.reloadFlag /\ i.counter > 0
  <2>1. i.counter # 0
    BY <1>3
  <2>2. j = [FiresIf(i.counter = 1, i, 0) EXCEPT !.counter = @ - 1]
    BY <1>3, <2>1 DEF Ticked064
  <2>3. /\ Arrives(i, j)
        /\ j.enable = i.enable /\ j.reload = i.reload /\ j.mode = i.mode
        /\ j.reloadFlag = i.reloadFlag /\ j.prescaler = i.prescaler
        /\ j.counter = i.counter - 1
        /\ j.line.target <=> i.line.target \/ (i.counter = 1 /\ i.enable)
    BY <1>3, <2>2, CountsDown
  <2> QED
    BY <1>3, <2>1, <2>3 DEF Counted064
<1>4. i.counter = 0 \/ i.counter > 0
  BY DEF Counters
<1> QED
  BY <1>1, <1>2, <1>3, <1>4

(* RAMBO-1 on the processor's clock: one tick in four.                     *)
LEMMA CpuTicked064Step ==
  ASSUME NEW i \in Counters, Wanted(i), i.mode, i.prescaler \in 0..3,
         NEW j, j = CpuTicked064(i)
  PROVE  /\ Arrives(i, j)
         /\ j.enable = i.enable /\ j.reload = i.reload /\ j.mode = i.mode
         /\ i.prescaler < 3 => /\ j.prescaler = i.prescaler + 1
                               /\ j.counter = i.counter /\ j.reloadFlag = i.reloadFlag
                               /\ j.line = i.line
         /\ i.prescaler = 3 => j.prescaler = 0 /\ Counted064(i, j)
<1>1. CASE i.prescaler < 3
  <2>1. j = [i EXCEPT !.prescaler = i.prescaler + 1]
    BY <1>1 DEF CpuTicked064
  <2>2. i.prescaler + 1 \in Int
    OBVIOUS
  <2>3. /\ j \in Counters /\ j.line = i.line /\ j.enable = i.enable /\ j.reload = i.reload
        /\ j.mode = i.mode /\ j.counter = i.counter /\ j.reloadFlag = i.reloadFlag
        /\ j.prescaler = i.prescaler + 1
    BY <2>1, <2>2 DEF Counters
  <2> QED
    BY <1>1, <2>3 DEF Arrives, Wanted
<1>2. CASE i.prescaler = 3
  <2>0. PICK s : s = [i EXCEPT !.prescaler = 0]
    OBVIOUS
  <2>1. j = Ticked064(s)
    BY <1>2, <2>0 DEF CpuTicked064
  <2>2. /\ s \in Counters /\ s.line = i.line /\ s.enable = i.enable /\ s.reload = i.reload
        /\ s.mode = i.mode /\ s.counter = i.counter /\ s.reloadFlag = i.reloadFlag
        /\ s.prescaler = 0
    BY <2>0, PrescalerCleared, Zenon
  <2>3. Wanted(s)
    BY <2>2 DEF Wanted
  <2>4. /\ Arrives(s, j) /\ Counted064(s, j)
        /\ j.enable = s.enable /\ j.reload = s.reload /\ j.mode = s.mode
        /\ j.prescaler = s.prescaler
    BY <2>1, <2>2, <2>3, Ticked064Step
  <2> QED
    BY <1>2, <2>2, <2>4 DEF Arrives, Counted064
<1>3. i.prescaler < 3 \/ i.prescaler = 3
  OBVIOUS
<1> QED
  BY <1>1, <1>2, <1>3, Zenon

-----------------------------------------------------------------------------
(* What a write may do to a counter's line: lower it, or leave it and      *)
(* interrupts enabled if they were.                                        *)
Told(i, j) ==
  /\ j \in Counters
  /\ j.line = PinOf(FALSE) \/ (j.line = i.line /\ (i.enable => j.enable))

(* No write brings an interrupt that was not wanted.                       *)
LEMMA ToldArrives ==
  ASSUME NEW i \in Counters, Wanted(i), NEW j, Told(i, j)
  PROVE  Arrives(i, j)
<1>1. CASE j.line = PinOf(FALSE)
  BY <1>1, LineLow, Zenon DEF Told, Arrives, Wanted
<1>2. CASE j.line = i.line /\ (i.enable => j.enable)
  BY <1>2, Zenon DEF Told, Arrives, Wanted
<1> QED
  BY <1>1, <1>2 DEF Told

(* The parts of a counter that a write leaves alone besides.               *)
SameMode(i, j) == (j.mode <=> i.mode) /\ j.prescaler = i.prescaler

(* The writes that boards have in common: disabling, restarting, enabling  *)
(* and a new reload value.                                                 *)
LEMMA DisabledTold ==
  ASSUME NEW i \in Counters, NEW j, j = Disabled(i)
  PROVE  /\ Told(i, j) /\ SameMode(i, j) /\ j.counter = i.counter /\ j.reload = i.reload
         /\ j.reloadFlag <=> i.reloadFlag
<1> DEFINE s == Acknowledged(i)
<1>1. s \in Counters /\ s.line = PinOf(FALSE) /\ SameCount(i, s)
  BY AcknowledgedType
<1>2. j = [s EXCEPT !.enable = FALSE]
  BY DEF Disabled
<1> HIDE DEF s
<1>3. /\ j \in Counters /\ j.line = s.line /\ j.counter = s.counter /\ j.reload = s.reload
      /\ j.reloadFlag = s.reloadFlag /\ j.mode = s.mode /\ j.prescaler = s.prescaler
  BY <1>1, <1>2 DEF Counters
<1>4. j.reloadFlag <=> i.reloadFlag
  BY <1>1, <1>3, Zenon DEF SameCount
<1>5. (j.mode <=> i.mode) /\ j.line = PinOf(FALSE)
  BY <1>1, <1>3, Zenon DEF SameCount
<1> QED
  BY <1>1, <1>3, <1>4, <1>5 DEF Told, SameMode, SameCount

LEMMA ReloadingTold ==
  ASSUME NEW i \in Counters, NEW j, j = Reloading(i)
  PROVE  /\ Told(i, j) /\ SameMode(i, j) /\ j.counter = 0 /\ j.reload = i.reload /\ j.reloadFlag
<1>1. /\ j \in Counters /\ j.line = i.line /\ j.counter = 0 /\ j.reload = i.reload
      /\ j.reloadFlag = TRUE /\ j.mode = i.mode /\ j.prescaler = i.prescaler
      /\ j.enable = i.enable
  BY DEF Counters, Reloading
<1> QED
  BY <1>1 DEF Told, SameMode

LEMMA EnabledTold ==
  ASSUME NEW i \in Counters, NEW j, j = [i EXCEPT !.enable = TRUE]
  PROVE  /\ Told(i, j) /\ SameMode(i, j) /\ j.counter = i.counter /\ j.reload = i.reload
         /\ j.reloadFlag <=> i.reloadFlag
<1>1. /\ j \in Counters /\ j.line = i.line /\ j.counter = i.counter /\ j.reload = i.reload
      /\ j.reloadFlag = i.reloadFlag /\ j.mode = i.mode /\ j.prescaler = i.prescaler
      /\ j.enable = TRUE
  BY DEF Counters
<1> QED
  BY <1>1 DEF Told, SameMode

LEMMA ReloadTold ==
  ASSUME NEW i \in Counters, NEW v \in Nat, NEW j, j = [i EXCEPT !.reload = v]
  PROVE  /\ Told(i, j) /\ SameMode(i, j) /\ j.counter = i.counter /\ j.reload = v
         /\ j.reloadFlag <=> i.reloadFlag
<1>1. /\ j \in Counters /\ j.line = i.line /\ j.counter = i.counter /\ j.reload = v
      /\ j.reloadFlag = i.reloadFlag /\ j.mode = i.mode /\ j.prescaler = i.prescaler
      /\ j.enable = i.enable
  BY DEF Counters
<1> QED
  BY <1>1 DEF Told, SameMode

(* A write that does nothing, and two writes in a row.                     *)
LEMMA UntoldTold ==
  ASSUME NEW i \in Counters
  PROVE  Told(i, i) /\ SameMode(i, i)
BY DEF Told, SameMode

LEMMA ToldType ==
  ASSUME NEW i \in Counters, NEW j, Told(i, j)
  PROVE  j \in Counters
BY Zenon DEF Told

LEMMA ToldTwice ==
  ASSUME NEW i \in Counters, NEW s, NEW j, Told(i, s), SameMode(i, s), Told(s, j), SameMode(s, j)
  PROVE  Told(i, j) /\ SameMode(i, j)
<1>1. Told(i, j)
  BY Zenon DEF Told
<1>2. SameMode(i, j)
  BY DEF SameMode
<1> QED
  BY <1>1, <1>2

(* A write to an MMC3 counter, where c says whether it restarts it and e   *)
(* whether it is one to the reload value.                                  *)
Write004(i, j, c, e) ==
  /\ Told(i, j) /\ SameMode(i, j)
  /\ c => j.reloadFlag /\ j.counter = 0
  /\ ~c => (j.reloadFlag <=> i.reloadFlag) /\ j.counter = i.counter
  /\ ~e => j.reload = i.reload

(* MMC3's four registers.                                                  *)
LEMMA Irq004Told ==
  ASSUME NEW i \in Counters, NEW a \in Nat, NEW d \in Nat, NEW j, j = Irq004(i, a, d)
  PROVE  Write004(i, j, Page(a) \in {12, 13} /\ Odd(a), Page(a) \in {12, 13} /\ Even(a))
<1>0. Even(a) <=> ~Odd(a)
  BY DEF Even, Odd
<1>1. CASE Page(a) \in {12, 13} /\ Even(a)
  <2>1. j = [i EXCEPT !.reload = d]
    BY <1>0, <1>1 DEF Irq004
  <2> QED
    BY <1>0, <1>1, <2>1, ReloadTold DEF Write004
<1>2. CASE Page(a) \in {12, 13} /\ Odd(a)
  <2>1. j = Reloading(i)
    BY <1>0, <1>2 DEF Irq004
  <2> QED
    BY <1>0, <1>2, <2>1, ReloadingTold DEF Write004
<1>3. CASE Page(a) \in {14, 15} /\ Even(a)
  <2>1. j = Disabled(i) /\ Page(a) \notin {12, 13}
    BY <1>0, <1>3 DEF Irq004
  <2> QED
    BY <2>1, DisabledTold DEF Write004
<1>4. CASE Page(a) \in {14, 15} /\ Odd(a)
  <2>1. j = [i EXCEPT !.enable = TRUE] /\ Page(a) \notin {12, 13}
    BY <1>0, <1>4 DEF Irq004
  <2> QED
    BY <2>1, EnabledTold DEF Write004
<1>5. CASE Page(a) \notin {12, 13, 14, 15}
  <2>1. j = i
    BY <1>5 DEF Irq004
  <2> QED
    BY <1>5, <2>1, UntoldTold DEF Write004
<1> QED
  BY <1>0, <1>1, <1>2, <1>3, <1>4, <1>5

(* Mapper182::cpuMapWrite gives one write of its own to two of MMC3's      *)
(* registers.                                                              *)
LEMMA Irq182Loads ==
  ASSUME NEW i \in Counters, NEW d \in Nat, NEW j, j = Irq004(Irq004(i, \hC000, d), \hC001, d)
  PROVE  Told(i, j) /\ SameMode(i, j) /\ j.reloadFlag /\ j.counter = 0
<1>1. Page(\hC000) = 12 /\ Page(\hC001) = 12 /\ ~Odd(\hC000) /\ Odd(\hC001)
  BY DEF Page, Odd, Bit
<1>2. PICK s : s = Irq004(i, \hC000, d)
  OBVIOUS
<1>3. \hC000 \in Nat /\ \hC001 \in Nat
  OBVIOUS
<1>4. Write004(i, s, Page(\hC000) \in {12, 13} /\ Odd(\hC000),
                     Page(\hC000) \in {12, 13} /\ Even(\hC000))
  BY <1>2, <1>3, Irq004Told
<1>5. s \in Counters /\ Told(i, s) /\ SameMode(i, s)
  <2>1. Told(i, s)
    BY <1>4 DEF Write004
  <2>2. SameMode(i, s)
    BY <1>4 DEF Write004
  <2> QED
    BY <2>1, <2>2, ToldType
<1>6. Write004(s, j, Page(\hC001) \in {12, 13} /\ Odd(\hC001),
                     Page(\hC001) \in {12, 13} /\ Even(\hC001))
  BY <1>2, <1>3, <1>5, Irq004Told
<1>7. Told(s, j) /\ SameMode(s, j) /\ j.reloadFlag /\ j.counter = 0
  BY <1>1, <1>6 DEF Write004
<1>8. Told(i, j) /\ SameMode(i, j)
  BY <1>5, <1>7, ToldTwice
<1> QED
  BY <1>7, <1>8

LEMMA Irq182Told ==
  ASSUME NEW i \in Counters, NEW a \in Nat, NEW d \in Nat, NEW j, j = Irq182(i, a, d)
  PROVE  LET c == Page(a) \in {12, 13} /\ Odd(a) IN Write004(i, j, c, c)
<1> DEFINE c == Page(a) \in {12, 13} /\ Odd(a)
           write == Remapped182(a, d)
           loaded == IF write[1] = \hC001 THEN Irq004(i, \hC000, d) ELSE i
<1>1. j = Irq004(loaded, write[1], write[2])
  BY DEF Irq182
<1>2. CASE c
  <2>1. write = <<\hC001, d>>
    BY <1>2 DEF Remapped182, Page, Odd, Bit, Upper
  <2>2. j = Irq004(Irq004(i, \hC000, d), \hC001, d)
    BY <1>1, <2>1
  <2> QED
    BY <1>2, <2>2, Irq182Loads DEF Write004
<1>3. CASE ~c
  <2>1. /\ write[1] \in Nat /\ write[1] # \hC001
        /\ Page(write[1]) \notin {12, 13}
        /\ Page(write[1]) \in {14, 15} => write[2] \in Nat
    <3> DEFINE reg == (a \div \h2000) * \h2000 + (a % 2)
    <3>1. CASE ~Upper(a)
      <4>1. write = <<a, d>>
        BY <3>1 DEF Remapped182, Upper
      <4> QED
        BY <3>1, <4>1 DEF Upper, Page
    <3>2. CASE Upper(a) /\ reg = \h8001
      <4>1. write = <<\hA000, d>>
        BY <3>2 DEF Remapped182, Upper
      <4> QED
        BY <4>1 DEF Page
    <3>3. CASE Upper(a) /\ reg = \hA000
      <4>1. write[1] = \h8000
        BY <3>3 DEF Remapped182, Upper
      <4> QED
        BY <4>1 DEF Page
    <3>4. CASE Upper(a) /\ reg = \hC000
      <4>1. write = <<\h8001, d>>
        BY <3>4 DEF Remapped182, Upper
      <4> QED
        BY <4>1 DEF Page
    <3>5. CASE Upper(a) /\ reg \in {\hE000, \hE001}
      <4>1. write = <<reg, d>>
        BY <3>5 DEF Remapped182, Upper
      <4> QED
        BY <3>5, <4>1 DEF Page
    <3>6. CASE Upper(a) /\ reg \notin {\h8001, \hA000, \hC000, \hE000, \hE001}
      <4>1. reg # \hC001
        BY <1>3 DEF Page, Odd, Bit
      <4>2. write = <<0, d>>
        BY <3>6, <4>1 DEF Remapped182, Upper
      <4> QED
        BY <4>2 DEF Page
    <3> QED
      BY <3>1, <3>2, <3>3, <3>4, <3>5, <3>6
  <2>2. j = Irq004(i, write[1], write[2])
    BY <1>1, <2>1
  <2>3. CASE Page(write[1]) \in {14, 15}
    <3>1. Write004(i, j, FALSE, FALSE)
      BY <2>1, <2>2, <2>3, Irq004Told DEF Write004
    <3> QED
      BY <1>3, <3>1 DEF Write004
  <2>4. CASE Page(write[1]) \notin {14, 15}
    <3>1. j = i
      BY <2>1, <2>2, <2>4 DEF Irq004
    <3> QED
      BY <1>3, <3>1, UntoldTold DEF Write004
  <2> QED
    BY <2>3, <2>4
<1> QED
  BY <1>2, <1>3

(* The registers of 48 and of 91 do what MMC3's do.                        *)
LEMMA Irq048Told ==
  ASSUME NEW i \in Counters, NEW a \in Nat, NEW d \in Nat, d <= 255, NEW j, j = Irq048(i, a, d)
  PROVE  Write004(i, j, Page(a) \in {12, 13} /\ a % 4 = 1, Page(a) \in {12, 13} /\ a % 4 = 0)
<1>0. a % 4 \in 0..3
  OBVIOUS
<1>1. CASE Page(a) \in {12, 13} /\ a % 4 = 0
  <2>1. j = [i EXCEPT !.reload = 255 - d] /\ 255 - d \in Nat
    BY <1>1 DEF Irq048
  <2> QED
    BY <1>1, <2>1, ReloadTold DEF Write004
<1>2. CASE Page(a) \in {12, 13} /\ a % 4 = 1
  <2>1. j = Reloading(i)
    BY <1>2 DEF Irq048
  <2> QED
    BY <1>2, <2>1, ReloadingTold DEF Write004
<1>3. CASE Page(a) \in {12, 13} /\ a % 4 = 2
  <2>1. j = [i EXCEPT !.enable = TRUE]
    BY <1>3 DEF Irq048
  <2> QED
    BY <1>3, <2>1, EnabledTold DEF Write004
<1>4. CASE Page(a) \in {12, 13} /\ a % 4 = 3
  <2>1. j = Disabled(i)
    BY <1>4 DEF Irq048
  <2> QED
    BY <1>4, <2>1, DisabledTold DEF Write004
<1>5. CASE Page(a) \notin {12, 13}
  <2>1. j = i
    BY <1>5 DEF Irq048
  <2> QED
    BY <1>5, <2>1, UntoldTold DEF Write004
<1> QED
  BY <1>0, <1>1, <1>2, <1>3, <1>4, <1>5

LEMMA Irq091Told ==
  ASSUME NEW i \in Counters, NEW a \in Nat, NEW d \in Nat, NEW j, j = Irq091(i, a, d)
  PROVE  /\ Write004(i, j, Page(a) = 7 /\ a % 4 = 3, FALSE)
<1>1. CASE Page(a) = 7 /\ a % 4 = 2
  <2>1. j = Disabled(i)
    BY <1>1 DEF Irq091
  <2> QED
    BY <1>1, <2>1, DisabledTold DEF Write004
<1>2. CASE Page(a) = 7 /\ a % 4 = 3
  <2> DEFINE s == Reloading(i)
  <2>1. j = [s EXCEPT !.enable = TRUE]
    BY <1>2 DEF Irq091
  <2>2. Told(i, s) /\ SameMode(i, s) /\ s.counter = 0 /\ s.reload = i.reload /\ s.reloadFlag
    BY ReloadingTold
  <2> HIDE DEF s
  <2>3. /\ Told(s, j) /\ SameMode(s, j) /\ j.counter = s.counter /\ j.reload = s.reload
        /\ j.reloadFlag <=> s.reloadFlag
    BY <2>1, <2>2, EnabledTold DEF Told
  <2>4. Told(i, j) /\ SameMode(i, j)
    BY <2>2, <2>3 DEF Told, SameMode
  <2> QED
    BY <1>2, <2>2, <2>3, <2>4 DEF Write004
<1>3. CASE ~(Page(a) = 7 /\ a % 4 \in {2, 3})
  <2>1. j = i
    BY <1>3 DEF Irq091
  <2> QED
    BY <1>3, <2>1, UntoldTold DEF Write004
<1> QED
  BY <1>1, <1>2, <1>3

Moded(i, m) == [i EXCEPT !.reloadFlag = TRUE, !.mode = m, !.prescaler = 0]

(* RAMBO-1: a restart also chooses what is counted and clears the          *)
(* prescaler.                                                              *)
LEMMA ModedTold ==
  ASSUME NEW i \in Counters, NEW m \in BOOLEAN, NEW j, j = Moded(i, m)
  PROVE  /\ j \in Counters /\ j.line = i.line /\ j.enable = i.enable
         /\ j.reloadFlag = TRUE /\ j.prescaler = 0 /\ j.mode = m
         /\ j.reload = i.reload /\ j.counter = i.counter
<1>1. PICK s : s = [i EXCEPT !.reloadFlag = TRUE, !.mode = m]
  OBVIOUS
<1>2. /\ s \in Counters /\ s.line = i.line /\ s.enable = i.enable
      /\ s.reloadFlag = TRUE /\ s.mode = m /\ s.reload = i.reload /\ s.counter = i.counter
  BY <1>1 DEF Counters
<1>3. j = [s EXCEPT !.prescaler = 0]
  BY <1>1 DEF Moded
<1> QED
  BY <1>2, <1>3, PrescalerCleared

LEMMA Irq064Told ==
  ASSUME NEW i \in Counters, NEW a \in Nat, NEW d \in Nat, NEW j, j = Irq064(i, a, d)
  PROVE  /\ Told(i, j)
         /\ Page(a) \in {12, 13} /\ Odd(a) =>
              j.reloadFlag /\ j.prescaler = 0
         /\ ~(Page(a) \in {12, 13} /\ Odd(a)) =>
              Write004(i, j, FALSE, Page(a) \in {12, 13} /\ Even(a))
<1>1. CASE Page(a) \in {12, 13} /\ Odd(a)
  <2> DEFINE m == Odd(d)
  <2>0. m \in BOOLEAN
    BY Zenon DEF Odd
  <2>1. j = Moded(i, m)
    BY <1>1, Zenon DEF Irq064, Moded
  <2>2. ASSUME NEW v \in BOOLEAN
        PROVE  /\ Moded(i, v) \in Counters /\ Moded(i, v).line = i.line
               /\ Moded(i, v).enable = i.enable /\ Moded(i, v).reloadFlag = TRUE
               /\ Moded(i, v).prescaler = 0
    <3>1. PICK x : x = Moded(i, v)
      OBVIOUS
    <3>2. /\ x \in Counters /\ x.line = i.line /\ x.enable = i.enable
          /\ x.reloadFlag = TRUE /\ x.prescaler = 0
      BY <3>1, ModedTold, ZenonT(60)
    <3> QED
      BY <3>1, <3>2
  <2> HIDE DEF m
  <2>3. /\ j \in Counters /\ j.line = i.line /\ j.enable = i.enable
        /\ j.reloadFlag = TRUE /\ j.prescaler = 0
    BY <2>0, <2>1, <2>2, Zenon
  <2> QED
    BY <1>1, <2>3 DEF Told
<1>2. CASE ~(Page(a) \in {12, 13} /\ Odd(a))
  <2>1. j = Irq004(i, a, d)
    BY <1>2 DEF Irq064
  <2>2. Write004(i, j, Page(a) \in {12, 13} /\ Odd(a), Page(a) \in {12, 13} /\ Even(a))
    BY <2>1, Irq004Told
  <2> QED
    BY <1>2, <2>2 DEF Write004
<1> QED
  BY <1>1, <1>2

(* The flags of a counter set to whatever bits of a write.                 *)
WithEnable(i, v)   == [i EXCEPT !.enable = v]
WithCounting(i, v) == [i EXCEPT !.counting = v]
WithMode(i, v)     == [i EXCEPT !.mode = v]
WithOnAck(i, v)    == [i EXCEPT !.onAck = v]
WithHighNext(i, v) == [i EXCEPT !.highNext = v]
WithCounter(i, v)  == [i EXCEPT !.counter = v]

(* Nothing but flags differs. *)
Flagged(i, j) ==
  /\ j \in Counters /\ j.line = i.line /\ j.counter = i.counter /\ j.reload = i.reload
  /\ j.prescaler = i.prescaler

(* Setting a flag or the number of a counter changes nothing else.         *)
LEMMA FlagsSet ==
  ASSUME NEW i \in Counters, NEW v \in BOOLEAN
  PROVE  /\ Flagged(i, WithEnable(i, v)) /\ Flagged(i, WithCounting(i, v))
         /\ Flagged(i, WithMode(i, v)) /\ Flagged(i, WithOnAck(i, v))
         /\ Flagged(i, WithHighNext(i, v))
<1>1. Flagged(i, WithEnable(i, v))
  BY DEF Counters, Flagged, WithEnable
<1>2. Flagged(i, WithCounting(i, v))
  BY DEF Counters, Flagged, WithCounting
<1>3. Flagged(i, WithMode(i, v))
  BY DEF Counters, Flagged, WithMode
<1>4. Flagged(i, WithOnAck(i, v))
  BY DEF Counters, Flagged, WithOnAck
<1>5. Flagged(i, WithHighNext(i, v))
  BY DEF Counters, Flagged, WithHighNext
<1> QED
  BY <1>1, <1>2, <1>3, <1>4, <1>5, Zenon

LEMMA CounterSet ==
  ASSUME NEW i \in Counters, NEW v \in Nat, NEW j, j = WithCounter(i, v)
  PROVE  /\ j \in Counters /\ j.line = i.line /\ j.counter = v /\ j.reload = i.reload
         /\ j.prescaler = i.prescaler /\ j.enable = i.enable
BY DEF Counters, WithCounter

LEMMA CountingTold ==
  ASSUME NEW i \in Counters, NEW v \in Nat
  PROVE  Told(i, WithCounter(Acknowledged(i), v))
<1>1. PICK s \in Counters : s = Acknowledged(i) /\ s.line = PinOf(FALSE)
  BY AcknowledgedType
<1>2. PICK j : j = WithCounter(s, v)
  OBVIOUS
<1>3. j \in Counters /\ j.line = s.line
  BY <1>2, CounterSet
<1> QED
  BY <1>1, <1>2, <1>3, Zenon DEF Told

(* What a write does to a counter of the processor's clock: unless c, it   *)
(* leaves its number alone.                                                *)
WriteCpu(i, j, c) ==
  /\ Told(i, j)
  /\ ~c => j.counter = i.counter /\ j.prescaler = i.prescaler

LEMMA FlaggedTold ==
  ASSUME NEW i \in Counters, NEW s, s = Acknowledged(i), NEW j, Flagged(s, j)
  PROVE  /\ Told(i, j) /\ j.counter = i.counter /\ j.prescaler = i.prescaler
         /\ j.reload = i.reload
<1>1. SameCount(i, s) /\ s.line = PinOf(FALSE)
  BY AcknowledgedType
<1> QED
  BY <1>1, Zenon DEF Flagged, Told, SameCount

(* A number written by bytes stays one of sixteen bits.                    *)
LEMMA NumberTypes ==
  ASSUME NEW v \in Nat, NEW d \in Nat, d <= 255
  PROVE  WithLow(v, d) \in Nat /\ WithHigh(v, d) \in Nat
<1>1. v \div 256 \in Nat /\ v % 256 \in 0..255
  OBVIOUS
<1>2. \A q \in Nat, p \in 0..255 : q * 256 + d \in Nat /\ p + 256 * d \in Nat
  OBVIOUS
<1> QED
  BY <1>1, <1>2, Zenon DEF WithLow, WithHigh

LEMMA NumberBounds ==
  ASSUME NEW v \in Nat, v <= 65535, NEW d \in Nat, d <= 255
  PROVE  WithLow(v, d) <= 65535 /\ WithHigh(v, d) <= 65535
<1>1. v \div 256 \in Nat /\ v % 256 \in Nat
  OBVIOUS
<1>2. v \div 256 <= 255 /\ v % 256 <= 255
  OBVIOUS
<1>3. (v \div 256) * 256 + d <= 65535
  BY <1>1, <1>2
<1>4. (v % 256) + 256 * d <= 65535
  BY <1>1, <1>2
<1> QED
  BY <1>3, <1>4 DEF WithLow, WithHigh

(* What each register of the boards on the processor's clock does to the   *)
(* line, the number and the flags: 65, 67, 69.                             *)
LEMMA Irq065Told ==
  ASSUME NEW i \in Counters, NEW a \in Nat, NEW d \in Nat, d <= 255, NEW j, j = Irq065(i, a, d)
  PROVE  WriteCpu(i, j, a = \h9004)
<1>1. CASE a = \h9003
  <2> DEFINE s == Acknowledged(i)
             e == Bit(d, 7) = 1
  <2>1. j = WithEnable(s, e)
    BY <1>1 DEF Irq065, WithEnable
  <2>2. e \in BOOLEAN /\ s \in Counters
    BY AcknowledgedType
  <2>3. \A v \in BOOLEAN : Flagged(s, WithEnable(s, v))
    BY <2>2, FlagsSet
  <2> HIDE DEF e
  <2>4. Flagged(s, j)
    BY <2>1, <2>2, <2>3, Zenon
  <2> QED
    BY <1>1, <2>4, FlaggedTold DEF WriteCpu
<1>2. CASE a = \h9004
  <2>1. j = WithCounter(Acknowledged(i), i.reload)
    BY <1>2 DEF Irq065, WithCounter
  <2>2. i.reload \in Nat
    BY DEF Counters
  <2>6. Told(i, j)
    BY <2>1, <2>2, CountingTold, Zenon
  <2> QED
    BY <1>2, <2>6 DEF WriteCpu
<1>3. CASE a \in {\h9005, \h9006}
  <2>1. PICK v \in Nat : j = [i EXCEPT !.reload = v]
    <3>1. i.reload \in Nat
      BY DEF Counters
    <3>2. WithHigh(i.reload, d) \in Nat /\ WithLow(i.reload, d) \in Nat
      BY <3>1, NumberTypes
    <3>3. \/ j = [i EXCEPT !.reload = WithHigh(i.reload, d)]
          \/ j = [i EXCEPT !.reload = WithLow(i.reload, d)]
      BY <1>3 DEF Irq065
    <3> QED
      BY <3>2, <3>3
  <2> QED
    BY <1>3, <2>1, ReloadTold DEF WriteCpu, SameMode
<1>4. CASE a \notin {\h9003, \h9004, \h9005, \h9006}
  <2>1. j = i
    BY <1>4 DEF Irq065
  <2> QED
    BY <2>1, UntoldTold DEF WriteCpu
<1> QED
  BY <1>1, <1>2, <1>3, <1>4

LEMMA Irq067Told ==
  ASSUME NEW i \in Counters, NEW a \in Nat, NEW d \in Nat, d <= 255, NEW j, j = Irq067(i, a, d)
  PROVE  WriteCpu(i, j, Page(a) = 12 /\ Bit(a, 11) = 1)
<1>1. CASE Page(a) = 12 /\ Bit(a, 11) = 1
  <2>1. /\ i.counter \in Nat /\ i.highNext \in BOOLEAN
    BY DEF Counters
  <2>2. WithHigh(i.counter, d) \in Nat /\ WithLow(i.counter, d) \in Nat
    BY <2>1, NumberTypes
  <2>3. PICK v \in Nat : v = IF i.highNext THEN WithHigh(i.counter, d) ELSE WithLow(i.counter, d)
    BY <2>2
  <2> DEFINE h == ~i.highNext
  <2>4. PICK s : s = WithCounter(i, v)
    OBVIOUS
  <2>5. s \in Counters /\ s.line = i.line /\ s.enable = i.enable
    BY <2>4, CounterSet
  <2>6. j = WithHighNext(s, h)
    BY <1>1, <2>3, <2>4 DEF Irq067, WithCounter, WithHighNext
  <2>7. \A w \in BOOLEAN : WithHighNext(s, w) \in Counters /\ WithHighNext(s, w).line = s.line
                           /\ WithHighNext(s, w).enable = s.enable
    BY <2>5 DEF Counters, WithHighNext
  <2>8. h \in BOOLEAN
    BY Zenon
  <2> HIDE DEF h
  <2>9. j \in Counters /\ j.line = i.line /\ j.enable = i.enable
    BY <2>5, <2>6, <2>7, <2>8, Zenon
  <2> QED
    BY <1>1, <2>9 DEF WriteCpu, Told
<1>2. CASE Page(a) = 13 /\ Bit(a, 11) = 1
  <2> DEFINE s == Acknowledged(i)
             e == Bit(d, 4) = 1
             t == WithEnable(s, e)
  <2>1. j = WithHighNext(t, TRUE)
    BY <1>2 DEF Irq067, WithEnable, WithHighNext
  <2>2. e \in BOOLEAN /\ s \in Counters
    BY AcknowledgedType
  <2>3. \A v \in BOOLEAN : Flagged(s, WithEnable(s, v))
    BY <2>2, FlagsSet
  <2> HIDE DEF e
  <2>4. Flagged(s, t)
    BY <2>2, <2>3, Zenon
  <2> HIDE DEF t
  <2>5. Flagged(t, j)
    <3>1. \A v \in BOOLEAN : Flagged(t, WithHighNext(t, v))
      BY <2>4, FlagsSet DEF Flagged
    <3> QED
      BY <2>1, <3>1, Zenon
  <2>6. Flagged(s, j)
    BY <2>4, <2>5, Zenon DEF Flagged
  <2> QED
    BY <1>2, <2>6, FlaggedTold DEF WriteCpu
<1>3. CASE ~(Page(a) \in {12, 13} /\ Bit(a, 11) = 1)
  <2>1. j = i
    BY <1>3 DEF Irq067
  <2> QED
    BY <2>1, UntoldTold DEF WriteCpu
<1> QED
  BY <1>1, <1>2, <1>3

LEMMA Irq069Told ==
  ASSUME NEW i \in Counters, NEW command, NEW a \in Nat, NEW d \in Nat, d <= 255,
         NEW j, j = Irq069(i, command, a, d)
  PROVE  /\ WriteCpu(i, j, Page(a) \in {10, 11} /\ command \in {14, 15})
         /\ i.counter <= 65535 => j.counter <= 65535
<1>1. CASE Page(a) \in {10, 11} /\ command = 13
  <2> DEFINE s == Acknowledged(i)
             e == Odd(d)
             g == Bit(d, 7) = 1
             t == WithEnable(s, e)
  <2>1. j = WithCounting(t, g)
    BY <1>1 DEF Irq069, WithEnable, WithCounting
  <2>2. e \in BOOLEAN /\ g \in BOOLEAN /\ s \in Counters
    BY AcknowledgedType, Zenon DEF Odd
  <2>3. \A v \in BOOLEAN : Flagged(s, WithEnable(s, v))
    BY <2>2, FlagsSet
  <2> HIDE DEF e, g
  <2>4. Flagged(s, t)
    BY <2>2, <2>3, Zenon
  <2> HIDE DEF t
  <2>5. Flagged(t, j)
    <3>1. \A v \in BOOLEAN : Flagged(t, WithCounting(t, v))
      BY <2>4, FlagsSet DEF Flagged
    <3> QED
      BY <2>1, <2>2, <3>1, Zenon
  <2>6. Flagged(s, j)
    BY <2>4, <2>5, Zenon DEF Flagged
  <2>7. Told(i, j) /\ j.counter = i.counter /\ j.prescaler = i.prescaler
    BY <2>6, FlaggedTold
  <2>8. WriteCpu(i, j, Page(a) \in {10, 11} /\ command \in {14, 15})
    BY <2>7 DEF WriteCpu
  <2>9. i.counter <= 65535 => j.counter <= 65535
    BY <2>7
  <2> QED
    BY <2>8, <2>9
<1>2. CASE Page(a) \in {10, 11} /\ command \in {14, 15}
  <2>1. i.counter \in Nat
    BY DEF Counters
  <2>2. WithLow(i.counter, d) \in Nat /\ WithHigh(i.counter, d) \in Nat
    BY <2>1, NumberTypes
  <2>3. i.counter <= 65535 =>
          WithLow(i.counter, d) <= 65535 /\ WithHigh(i.counter, d) <= 65535
    BY <2>1, NumberBounds
  <2>4. \/ j = WithCounter(i, WithLow(i.counter, d))
        \/ j = WithCounter(i, WithHigh(i.counter, d))
    BY <1>2 DEF Irq069, WithCounter
  <2>5. PICK v \in Nat : j = WithCounter(i, v) /\ (i.counter <= 65535 => v <= 65535)
    BY <2>2, <2>3, <2>4
  <2>6. j \in Counters /\ j.line = i.line /\ j.counter = v /\ j.enable = i.enable
    BY <2>5, CounterSet
  <2>7. WriteCpu(i, j, Page(a) \in {10, 11} /\ command \in {14, 15})
    BY <1>2, <2>6 DEF WriteCpu, Told
  <2>8. i.counter <= 65535 => j.counter <= 65535
    BY <2>5, <2>6
  <2> QED
    BY <2>7, <2>8
<1>3. CASE ~(Page(a) \in {10, 11} /\ command \in {13, 14, 15})
  <2>1. j = i
    BY <1>3 DEF Irq069
  <2> QED
    BY <1>3, <2>1, UntoldTold DEF WriteCpu
<1> QED
  BY <1>1, <1>2, <1>3

(* The control registers of VRC3 and VRC6.                                 *)
LEMMA ControlledTold ==
  ASSUME NEW i \in Counters, NEW d \in Nat, d <= 255, NEW j, j = Controlled(i, d)
  PROVE  /\ Told(i, j) /\ j.reload = i.reload /\ j.prescaler = i.prescaler
         /\ j.counter = IF Bit(d, 1) = 1 THEN i.reload ELSE i.counter
<1> DEFINE s == Acknowledged(i)
           m == Bit(d, 2) = 1
           e == Bit(d, 1) = 1
           o == Bit(d, 0) = 1
           v == IF Bit(d, 1) = 1 THEN i.reload ELSE s.counter
           t1 == WithMode(s, m)
           t2 == WithEnable(t1, e)
           t3 == WithOnAck(t2, o)
<1>1. j = WithCounter(t3, v)
  BY DEF Controlled, WithMode, WithEnable, WithOnAck, WithCounter
<1>2. m \in BOOLEAN /\ e \in BOOLEAN /\ o \in BOOLEAN
  BY Zenon
<1>3. /\ s \in Counters /\ s.counter = i.counter /\ s.reload = i.reload
      /\ s.prescaler = i.prescaler /\ s.line = PinOf(FALSE)
  BY AcknowledgedType, Zenon DEF SameCount
<1>4. v = (IF Bit(d, 1) = 1 THEN i.reload ELSE i.counter) /\ v \in Nat
  BY <1>3 DEF Counters
<1> HIDE DEF m, e, o, s, v
<1>5. Flagged(s, t1)
  <2>1. \A w \in BOOLEAN : Flagged(s, WithMode(s, w))
    BY <1>3, FlagsSet
  <2> QED
    BY <1>2, <2>1, Zenon
<1> HIDE DEF t1
<1>6. Flagged(t1, t2)
  <2>1. \A w \in BOOLEAN : Flagged(t1, WithEnable(t1, w))
    BY <1>5, FlagsSet DEF Flagged
  <2> QED
    BY <1>2, <2>1, Zenon
<1> HIDE DEF t2
<1>7. Flagged(t2, t3)
  <2>1. \A w \in BOOLEAN : Flagged(t2, WithOnAck(t2, w))
    BY <1>6, FlagsSet DEF Flagged
  <2> QED
    BY <1>2, <2>1, Zenon
<1> HIDE DEF t3
<1>8. /\ t3 \in Counters /\ t3.line = PinOf(FALSE) /\ t3.reload = i.reload
      /\ t3.prescaler = i.prescaler
  BY <1>3, <1>5, <1>6, <1>7, Zenon DEF Flagged
<1>9. /\ j \in Counters /\ j.line = PinOf(FALSE) /\ j.counter = v /\ j.reload = i.reload
      /\ j.prescaler = i.prescaler
  <2>1. v \in Nat
    BY <1>4
  <2>2. PICK c \in Counters : c = t3
    BY <1>8
  <2>3. PICK w \in Nat : w = v
    BY <2>1
  <2>4. j = WithCounter(c, w)
    BY <1>1, <2>2, <2>3, Zenon
  <2>5. /\ j \in Counters /\ j.line = c.line /\ j.counter = w /\ j.reload = c.reload
        /\ j.prescaler = c.prescaler
    BY <2>4 DEF Counters, WithCounter
  <2> QED
    BY <1>8, <2>2, <2>3, <2>5, Zenon
<1>10. Told(i, j)
  BY <1>9, Zenon DEF Told
<1> QED
  BY <1>4, <1>9, <1>10

LEMMA AckedOnTold ==
  ASSUME NEW i \in Counters, NEW j, j = AckedOn(i)
  PROVE  /\ Told(i, j) /\ j.reload = i.reload /\ j.prescaler = i.prescaler
         /\ j.counter = i.counter
<1> DEFINE s == Acknowledged(i)
           o == i.onAck
<1>1. j = WithEnable(s, o)
  BY DEF AckedOn, WithEnable
<1>2. o \in BOOLEAN /\ s \in Counters
  BY AcknowledgedType DEF Counters
<1>3. Flagged(s, j)
  BY <1>1, <1>2, FlagsSet
<1> QED
  BY <1>3, FlaggedTold

(* A nibble of VRC3's reload value.                                        *)
Nibbled(v, at, d) == v + at * ((d % 16) - ((v \div at) % 16))

(* A nibble of a sixteen-bit number replaced leaves one of sixteen bits.   *)
LEMMA NibbledType ==
  ASSUME NEW v \in Nat, NEW d \in Nat, d <= 255, NEW at \in Nat,
         at = 1 \/ at = 16 \/ at = 256 \/ at = 4096
  PROVE  /\ Nibbled(v, at, d) \in Nat
         /\ v <= 65535 => Nibbled(v, at, d) <= 65535
<1>0. d % 16 \in 0..15
  OBVIOUS
<1>1. CASE at = 1
  <2>1. PICK q \in Nat : q = v \div 1 /\ q = v
    OBVIOUS
  <2>2. q % 16 \in 0..15 /\ q % 16 <= q /\ (q <= 65535 => q - (q % 16) <= 65520)
    OBVIOUS
  <2> QED
    BY <1>0, <1>1, <2>1, <2>2 DEF Nibbled
<1>2. CASE at = 16
  <2>1. PICK q \in Nat : q = v \div 16 /\ 16 * q <= v /\ v < 16 * q + 16
    OBVIOUS
  <2>2. q % 16 \in 0..15 /\ q % 16 <= q /\ (q <= 4095 => q - (q % 16) <= 4080)
    OBVIOUS
  <2> QED
    BY <1>0, <1>2, <2>1, <2>2 DEF Nibbled
<1>3. CASE at = 256
  <2>1. PICK q \in Nat : q = v \div 256 /\ 256 * q <= v /\ v < 256 * q + 256
    OBVIOUS
  <2>2. q % 16 \in 0..15 /\ q % 16 <= q /\ (q <= 255 => q - (q % 16) <= 240)
    OBVIOUS
  <2> QED
    BY <1>0, <1>3, <2>1, <2>2 DEF Nibbled
<1>4. CASE at = 4096
  <2>1. PICK q \in Nat : q = v \div 4096 /\ 4096 * q <= v /\ v < 4096 * q + 4096
    OBVIOUS
  <2>2. q % 16 \in 0..15 /\ q % 16 <= q /\ (q <= 15 => q - (q % 16) <= 0)
    OBVIOUS
  <2> QED
    BY <1>0, <1>4, <2>1, <2>2 DEF Nibbled
<1> QED
  BY <1>1, <1>2, <1>3, <1>4

LEMMA NibblePlaces ==
  ASSUME NEW p \in Nat, p <= 3
  PROVE  16^p \in {1, 16, 256, 4096}
<1>1. CASE p = 0
  BY <1>1
<1>2. CASE p = 1
  BY <1>2
<1>3. CASE p = 2
  BY <1>3, 16^2 = 256
<1>4. CASE p = 3
  BY <1>4, 16^3 = 4096
<1> QED
  BY <1>1, <1>2, <1>3, <1>4

(* Every register of VRC3, and of VRC6.                                    *)
LEMMA Irq073Told ==
  ASSUME NEW i \in Counters, NEW a \in Nat, NEW d \in Nat, d <= 255, NEW j, j = Irq073(i, a, d)
  PROVE  LET c == Page(a) = 12 /\ Bit(d, 1) = 1
         IN  /\ WriteCpu(i, j, c)
             /\ c => j.counter = j.reload
             /\ i.reload <= 65535 => j.reload <= 65535
<1>1. CASE Page(a) \in 8..11
  <2>1. PICK at \in Nat : /\ at = 1 \/ at = 16 \/ at = 256 \/ at = 4096
                         /\ at = 16^(Page(a) - 8)
    <3>1. Page(a) - 8 \in Nat /\ Page(a) - 8 <= 3
      BY <1>1
    <3>2. 16^(Page(a) - 8) \in {1, 16, 256, 4096}
      BY <3>1, NibblePlaces
    <3> QED
      BY <3>2
  <2>2. PICK u \in Nat : u = i.reload
    BY DEF Counters
  <2>3. j = [i EXCEPT !.reload = Nibbled(u, at, d)]
    BY <1>1, <2>1, <2>2 DEF Irq073, Nibbled
  <2>4. PICK v \in Nat : v = Nibbled(u, at, d) /\ (u <= 65535 => v <= 65535)
    <3>0. at = 1 \/ at = 16 \/ at = 256 \/ at = 4096
      BY <2>1, Zenon
    <3>1. Nibbled(u, at, d) \in Nat
      BY <3>0, NibbledType
    <3>2. u <= 65535 => Nibbled(u, at, d) <= 65535
      BY <3>0, NibbledType
    <3> QED
      BY <3>1, <3>2
  <2>5. Told(i, j) /\ SameMode(i, j) /\ j.counter = i.counter /\ j.reload = v
    BY <2>3, <2>4, ReloadTold
  <2> QED
    BY <1>1, <2>2, <2>4, <2>5 DEF WriteCpu, SameMode
<1>2. CASE Page(a) = 12
  <2>1. j = Controlled(i, d)
    BY <1>2 DEF Irq073
  <2> QED
    BY <1>2, <2>1, ControlledTold DEF WriteCpu
<1>3. CASE Page(a) = 13
  <2>1. j = AckedOn(i)
    BY <1>3 DEF Irq073
  <2> QED
    BY <1>3, <2>1, AckedOnTold DEF WriteCpu
<1>4. CASE Page(a) \notin 8..13
  <2>1. j = i
    BY <1>4 DEF Irq073
  <2> QED
    BY <1>4, <2>1, UntoldTold DEF WriteCpu
<1> QED
  BY <1>1, <1>2, <1>3, <1>4

LEMMA Irq024Told ==
  ASSUME ScanlineDots \in Nat, NEW i \in Counters, NEW reg, NEW d \in Nat, d <= 255,
         NEW j, j = Irq024(i, reg, d)
  PROVE  LET c == reg = \hF001 /\ Bit(d, 1) = 1
         IN  /\ WriteCpu(i, j, c)
             /\ c => j.counter = j.reload /\ j.prescaler = ScanlineDots
             /\ i.reload <= 255 => j.reload <= 255
             /\ i.reload <= 255 /\ i.counter <= 255 => j.counter <= 255
<1>1. CASE reg = \hF000
  <2>1. j = [i EXCEPT !.reload = d] /\ d \in Nat
    BY <1>1 DEF Irq024
  <2>2. Told(i, j) /\ SameMode(i, j) /\ j.counter = i.counter /\ j.reload = d
    BY <2>1, ReloadTold
  <2> QED
    BY <1>1, <2>2 DEF WriteCpu, SameMode
<1>2. CASE reg = \hF001
  <2>1. PICK s : s = Controlled(i, d)
    OBVIOUS
  <2>2. /\ Told(i, s) /\ s.reload = i.reload /\ s.prescaler = i.prescaler
        /\ s.counter = IF Bit(d, 1) = 1 THEN i.reload ELSE i.counter
    BY <2>1, ControlledTold
  <2>3. s \in Counters
    BY <2>2, ToldType
  <2>4. PICK v \in Int : v = IF Bit(d, 1) = 1 THEN ScanlineDots ELSE s.prescaler
    BY <2>3 DEF Counters
  <2>5. j = [s EXCEPT !.prescaler = v]
    BY <1>2, <2>1, <2>4 DEF Irq024
  <2>6. /\ j \in Counters /\ j.line = s.line /\ j.enable = s.enable /\ j.counter = s.counter
        /\ j.reload = s.reload /\ j.prescaler = v
    BY <2>3, <2>5, WithPrescaler
  <2>7. Told(i, j)
    BY <2>2, <2>6, Zenon DEF Told
  <2> QED
    BY <1>2, <2>2, <2>4, <2>6, <2>7 DEF WriteCpu
<1>3. CASE reg = \hF002
  <2>1. j = AckedOn(i)
    BY <1>3 DEF Irq024
  <2> QED
    BY <1>3, <2>1, AckedOnTold DEF WriteCpu
<1>4. CASE reg \notin {\hF000, \hF001, \hF002}
  <2>1. j = i
    BY <1>4 DEF Irq024
  <2> QED
    BY <1>4, <2>1, UntoldTold DEF WriteCpu
<1> QED
  BY <1>1, <1>2, <1>3, <1>4

-----------------------------------------------------------------------------
(* A tick of the processor's clock: it fires when c holds and interrupts   *)
(* are enabled, and its counter becomes v.                                 *)
Kept(i, j) ==
  /\ j.enable <=> i.enable
  /\ j.mode <=> i.mode
  /\ j.reload = i.reload /\ j.prescaler = i.prescaler

(* A clock that may fire and sets the number, and one that does neither.   *)
LEMMA FiresThen ==
  ASSUME NEW i \in Counters, Wanted(i), NEW c \in BOOLEAN, NEW v \in Nat,
         NEW j, j = WithCounter(FiresIf(c, i, 0), v)
  PROVE  /\ Arrives(i, j) /\ Kept(i, j) /\ j.counter = v
         /\ j.line.target <=> i.line.target \/ (c /\ i.enable)
<1>1. PICK s : s = FiresIf(c, i, 0)
  OBVIOUS
<1>2. s \in Counters /\ Fired(i, s, c)
  BY <1>1, Fires
<1>3. j = [s EXCEPT !.counter = v]
  BY <1>1 DEF WithCounter
<1>4. /\ j \in Counters /\ j.line = s.line /\ j.enable = s.enable /\ j.counter = v
      /\ j.reload = s.reload /\ j.mode = s.mode /\ j.prescaler = s.prescaler
  BY <1>2, <1>3 DEF Counters
<1>5. j.line.target <=> i.line.target \/ (c /\ i.enable)
  BY <1>2, <1>4, Zenon DEF Fired
<1>6. Arrives(i, j)
  BY <1>2, <1>4, Zenon DEF Fired, Arrives, Wanted
<1>7. Kept(i, j)
  BY <1>2, <1>4, Zenon DEF Fired, SameCount, Kept
<1> QED
  BY <1>4, <1>5, <1>6, <1>7

LEMMA Stays ==
  ASSUME NEW i \in Counters, Wanted(i)
  PROVE  Arrives(i, i) /\ Kept(i, i)
BY DEF Arrives, Kept

(* One processor clock of 65, 67 and 69.                                   *)
LEMMA Ticked065Step ==
  ASSUME NEW i \in Counters, Wanted(i), NEW j, j = Ticked065(i)
  PROVE  /\ Arrives(i, j)
         /\ i.enable => j.counter = IF i.counter = 0 THEN 0 ELSE i.counter - 1
         /\ i.enable => (j.line.target <=> i.line.target \/ i.counter = 1)
         /\ ~i.enable => j = i
<1>1. CASE i.enable /\ i.counter > 0
  <2>1. j = [FiresIf(i.counter = 1, i, 0) EXCEPT !.counter = @ - 1]
    BY <1>1 DEF Ticked065
  <2>2. /\ Arrives(i, j) /\ j.counter = i.counter - 1
        /\ j.line.target <=> i.line.target \/ (i.counter = 1 /\ i.enable)
    BY <1>1, <2>1, CountsDown
  <2> QED
    BY <1>1, <2>2
<1>2. CASE ~i.enable \/ i.counter = 0
  <2>1. j = i
    BY <1>2 DEF Ticked065
  <2>2. i.line.target \in BOOLEAN
    BY DEF Counters, Lines, PinsUpTo
  <2> QED
    BY <1>2, <2>1, <2>2, Stays
<1>3. i.counter > 0 \/ i.counter = 0
  BY DEF Counters
<1> QED
  BY <1>1, <1>2, <1>3

LEMMA Ticked067Step ==
  ASSUME NEW i \in Counters, Wanted(i), NEW j, j = Ticked067(i)
  PROVE  /\ Arrives(i, j)
         /\ i.enable => j.counter = IF i.counter = 0 THEN 65535 ELSE i.counter - 1
         /\ i.enable => (j.line.target <=> i.line.target \/ i.counter = 0)
         /\ ~i.enable => j = i
<1>1. CASE i.enable /\ i.counter = 0
  <2>1. PICK s : s = Raised(i, 0)
    OBVIOUS
  <2>2. s \in Counters /\ SameCount(i, s) /\ s.line.target /\ s.line.current
    BY <2>1, RaisedType
  <2>3. j = [s EXCEPT !.enable = FALSE, !.counter = 65535]
    BY <1>1, <2>1 DEF Ticked067
  <2>4. PICK t : t = [s EXCEPT !.enable = FALSE]
    OBVIOUS
  <2>5. t \in Counters /\ t.line = s.line
    BY <2>2, <2>4 DEF Counters
  <2>6. j = WithCounter(t, 65535)
    BY <2>3, <2>4 DEF WithCounter
  <2>7. j \in Counters /\ j.line = s.line /\ j.counter = 65535
    BY <2>5, <2>6, CounterSet
  <2>8. j.line.target /\ j.line.current
    BY <2>2, <2>7
  <2>9. Arrives(i, j)
    <3>1. Wanted(j)
      BY <2>8 DEF Wanted
    <3> QED
      BY <1>1, <2>7, <3>1 DEF Arrives
  <2> QED
    BY <1>1, <2>7, <2>8, <2>9
<1>2. CASE i.enable /\ i.counter > 0
  <2>1. PICK v \in Nat : v = i.counter - 1
    BY <1>2 DEF Counters
  <2>2. j = [i EXCEPT !.counter = v]
    BY <1>2, <2>1 DEF Ticked067
  <2>3. /\ j \in Counters /\ j.line = i.line /\ j.counter = v /\ j.enable = i.enable
    BY <2>2 DEF Counters
  <2>4. Arrives(i, j) /\ (j.line.target <=> i.line.target)
    BY <2>3, Zenon DEF Arrives, Wanted
  <2>5. i.counter # 0
    BY <1>2
  <2> QED
    BY <1>2, <2>1, <2>3, <2>4, <2>5
<1>3. CASE ~i.enable
  <2>1. j = i
    BY <1>3 DEF Ticked067
  <2> QED
    BY <1>3, <2>1, Stays
<1>4. i.counter > 0 \/ i.counter = 0
  BY DEF Counters
<1> QED
  BY <1>1, <1>2, <1>3, <1>4

LEMMA Ticked069Step ==
  ASSUME NEW i \in Counters, Wanted(i), i.counter <= 65535, NEW j, j = Ticked069(i)
  PROVE  /\ Arrives(i, j) /\ j.counter <= 65535
         /\ i.counting => j.counter = IF i.counter = 0 THEN 65535 ELSE i.counter - 1
         /\ i.counting => (j.line.target <=> i.line.target \/ (i.counter = 0 /\ i.enable))
         /\ ~i.counting => j = i
<1>1. CASE i.counting
  <2> DEFINE c == i.counter = 0
  <2>1. PICK v \in Nat : v = (i.counter + 65535) % 65536
    BY DEF Counters
  <2>2. c \in BOOLEAN
    OBVIOUS
  <2>3. v = (IF i.counter = 0 THEN 65535 ELSE i.counter - 1) /\ v <= 65535
    BY <2>1 DEF Counters
  <2>4. j = WithCounter(FiresIf(c, i, 0), v)
    <3>1. FiresIf(c, i, 0).counter = i.counter
      <4> HIDE DEF c
      <4>1. PICK s : s = FiresIf(c, i, 0)
        OBVIOUS
      <4>2. Fired(i, s, c)
        BY <2>2, <4>1, Fires
      <4> QED
        BY <4>1, <4>2 DEF Fired, SameCount
    <3>2. j = [FiresIf(c, i, 0) EXCEPT !.counter = (FiresIf(c, i, 0).counter + 65535) % 65536]
      BY <1>1 DEF Ticked069
    <3> QED
      BY <2>1, <3>1, <3>2 DEF WithCounter
  <2>5. /\ Arrives(i, j) /\ j.counter = v
        /\ j.line.target <=> i.line.target \/ (c /\ i.enable)
    <3> HIDE DEF c
    <3> QED
      BY <2>2, <2>4, FiresThen
  <2> QED
    BY <1>1, <2>3, <2>5
<1>2. CASE ~i.counting
  <2>1. j = i
    BY <1>2 DEF Ticked069
  <2> QED
    BY <1>2, <2>1, Stays
<1> QED
  BY <1>1, <1>2

(* The part of VRC3's counter that counts: eight bits of it or all.        *)
Low073(i) == IF i.mode THEN i.counter % 256 ELSE i.counter
Top073(i) == IF i.mode THEN 255 ELSE 65535
Start073(i) == IF i.mode THEN i.reload % 256 ELSE i.reload

(* VRC3's low byte counts on its own: the high byte stays what it was.     *)
LEMMA Wraps073 ==
  ASSUME NEW c \in Nat, c <= 65535, NEW l \in Nat, l <= 65535
  PROVE  LET low == c % 256
             next == IF low = 255 THEN l % 256 ELSE low + 1
         IN  /\ (c - low) + next \in Nat /\ (c - low) + next <= 65535
             /\ ((c - low) + next) % 256 = next
<1>1. PICK q \in Nat : q = c \div 256 /\ q <= 255 /\ c = 256 * q + (c % 256)
  OBVIOUS
<1>2. c % 256 \in 0..255 /\ l % 256 \in 0..255
  OBVIOUS
<1>3. PICK x \in 0..255 : x = IF c % 256 = 255 THEN l % 256 ELSE (c % 256) + 1
  BY <1>2
<1>4. c - (c % 256) = 256 * q
  BY <1>1, <1>2
<1>5. 256 * q + x <= 65535 /\ (256 * q + x) % 256 = x /\ 256 * q + x \in Nat
  BY <1>1, <1>3
<1> QED
  BY <1>3, <1>4, <1>5

(* One processor clock of VRC3.                                            *)
LEMMA Ticked073Step ==
  ASSUME NEW i \in Counters, Wanted(i), i.counter <= 65535, i.reload <= 65535,
         NEW j, j = Ticked073(i)
  PROVE  /\ Arrives(i, j) /\ j.counter <= 65535 /\ j.reload = i.reload /\ (j.mode <=> i.mode)
         /\ i.enable => Low073(j) = IF Low073(i) = Top073(i) THEN Start073(i) ELSE Low073(i) + 1
         /\ i.enable => (j.line.target <=> i.line.target \/ Low073(i) = Top073(i))
         /\ ~i.enable => j = i
<1>1. CASE i.enable
  <2> DEFINE top  == IF i.mode THEN 256 ELSE 65536
             low  == i.counter % top
             next == IF low = top - 1 THEN i.reload % top ELSE low + 1
             c    == low = top - 1
             v    == (i.counter - low) + next
  <2>1. j = WithCounter(FiresIf(c, i, 0), v)
    BY <1>1 DEF Ticked073, WithCounter
  <2>2. c \in BOOLEAN
    OBVIOUS
  <2>3. i.counter \in Nat /\ i.reload \in Nat
    BY DEF Counters
  <2>4. /\ v \in Nat /\ v <= 65535 /\ (c <=> Low073(i) = Top073(i))
        /\ (IF i.mode THEN v % 256 ELSE v)
             = IF Low073(i) = Top073(i) THEN Start073(i) ELSE Low073(i) + 1
    <3>1. CASE i.mode
      <4>1. top = 256
        BY <3>1
      <4>2. LET l == i.counter % 256
                x == IF l = 255 THEN i.reload % 256 ELSE l + 1
            IN  /\ (i.counter - l) + x \in Nat /\ (i.counter - l) + x <= 65535
                /\ ((i.counter - l) + x) % 256 = x
        BY <2>3, Wraps073
      <4> QED
        BY <3>1, <4>1, <4>2 DEF Low073, Top073, Start073
    <3>2. CASE ~i.mode
      <4>1. top = 65536
        BY <3>2
      <4>2. low = i.counter /\ i.reload % top = i.reload
        BY <2>3, <4>1
      <4> QED
        BY <2>3, <3>2, <4>1, <4>2 DEF Low073, Top073, Start073
    <3> QED
      BY <3>1, <3>2
  <2> HIDE DEF c, v
  <2>5. /\ Arrives(i, j) /\ Kept(i, j) /\ j.counter = v
        /\ j.line.target <=> i.line.target \/ (c /\ i.enable)
    BY <2>1, <2>2, <2>4, FiresThen
  <2>6. Low073(j) = IF i.mode THEN v % 256 ELSE v
    BY <2>5 DEF Low073, Kept
  <2>7. j.line.target <=> i.line.target \/ Low073(i) = Top073(i)
    BY <1>1, <2>4, <2>5
  <2>8. j.reload = i.reload /\ (j.mode <=> i.mode) /\ j.counter <= 65535
    BY <2>4, <2>5 DEF Kept
  <2> QED
    BY <1>1, <2>4, <2>5, <2>6, <2>7, <2>8
<1>2. CASE ~i.enable
  <2>1. j = i
    BY <1>2 DEF Ticked073
  <2> QED
    BY <1>2, <2>1, Stays DEF Kept
<1> QED
  BY <1>1, <1>2

(* VRC6's counter when its prescaler lets it count.                        *)
LEMMA Counted024Step ==
  ASSUME NEW i \in Counters, Wanted(i), i.enable, NEW j, j = Counted024(i)
  PROVE  /\ Arrives(i, j) /\ Kept(i, j)
         /\ j.counter = IF i.counter = 255 THEN i.reload ELSE i.counter + 1
         /\ j.line.target <=> i.line.target \/ i.counter = 255
<1> DEFINE c == i.counter = 255
<1>1. PICK v \in Nat : v = IF i.counter = 255 THEN i.reload ELSE i.counter + 1
  BY DEF Counters
<1>2. j = WithCounter(FiresIf(c, i, 0), v)
  BY <1>1 DEF Counted024, WithCounter
<1>3. c \in BOOLEAN
  OBVIOUS
<1>4. /\ Arrives(i, j) /\ Kept(i, j) /\ j.counter = v
      /\ j.line.target <=> i.line.target \/ (c /\ i.enable)
  <2> HIDE DEF c
  <2> QED
    BY <1>2, <1>3, FiresThen
<1> QED
  BY <1>1, <1>4

(* VRC6 counts in cycles, or in scanlines behind its prescaler.            *)
LEMMA Ticked024Step ==
  ASSUME ScanlineDots \in Nat, NEW i \in Counters, Wanted(i), NEW j, j = Ticked024(i)
  PROVE  LET counted == j.counter = IF i.counter = 255 THEN i.reload ELSE i.counter + 1
             fired == j.line.target <=> i.line.target \/ i.counter = 255
         IN  /\ Arrives(i, j) /\ j.reload = i.reload /\ (j.mode <=> i.mode)
             /\ ~i.enable => j = i
             /\ i.enable /\ i.mode => j.prescaler = i.prescaler /\ counted /\ fired
             /\ i.enable /\ ~i.mode /\ i.prescaler > 3 =>
                  /\ j.prescaler = i.prescaler - 3 /\ j.counter = i.counter
                  /\ j.line = i.line
             /\ i.enable /\ ~i.mode /\ i.prescaler <= 3 =>
                  j.prescaler = i.prescaler - 3 + ScanlineDots /\ counted /\ fired
<1>0. i.prescaler \in Int
  BY DEF Counters
<1>1. CASE ~i.enable
  <2>1. j = i
    BY <1>1 DEF Ticked024
  <2> QED
    BY <1>1, <2>1, Stays DEF Kept
<1>2. CASE i.enable /\ i.mode
  <2>1. j = Counted024(i)
    BY <1>2 DEF Ticked024
  <2> QED
    BY <1>2, <2>1, Counted024Step DEF Kept
<1>3. CASE i.enable /\ ~i.mode /\ i.prescaler > 3
  <2>1. PICK v \in Int : v = i.prescaler - 3
    BY <1>0
  <2>2. j = [i EXCEPT !.prescaler = v]
    BY <1>0, <1>3, <2>1 DEF Ticked024
  <2>3. /\ j \in Counters /\ j.line = i.line /\ j.enable = i.enable /\ j.mode = i.mode
        /\ j.counter = i.counter /\ j.reload = i.reload /\ j.prescaler = v
    BY <2>2, WithPrescaler
  <2>4. Arrives(i, j)
    BY <2>3, Zenon DEF Arrives, Wanted
  <2>5. j.mode <=> i.mode
    BY <2>3, Zenon
  <2>6. i.prescaler > 3 /\ ~(i.prescaler <= 3)
    BY <1>0, <1>3
  <2>7. j.prescaler = i.prescaler - 3 /\ j.counter = i.counter /\ j.line = i.line
        /\ j.reload = i.reload
    BY <2>1, <2>3
  <2> QED
    BY <1>3, <2>4, <2>5, <2>6, <2>7, Zenon
<1>4. CASE i.enable /\ ~i.mode /\ i.prescaler <= 3
  <2>1. PICK v \in Int : v = i.prescaler - 3 + ScanlineDots
    BY <1>0
  <2>2. PICK s : s = Counted024(i)
    OBVIOUS
  <2>3. j = [s EXCEPT !.prescaler = v]
    BY <1>0, <1>4, <2>1, <2>2 DEF Ticked024
  <2>4. /\ Arrives(i, s) /\ Kept(i, s)
        /\ s.counter = IF i.counter = 255 THEN i.reload ELSE i.counter + 1
        /\ s.line.target <=> i.line.target \/ i.counter = 255
    BY <1>4, <2>2, Counted024Step
  <2>5. s \in Counters
    BY <2>4 DEF Arrives
  <2>6. /\ j \in Counters /\ j.line = s.line /\ j.enable = s.enable /\ j.mode = s.mode
        /\ j.counter = s.counter /\ j.reload = s.reload /\ j.prescaler = v
    BY <2>3, <2>5, WithPrescaler
  <2>7. Arrives(i, j)
    BY <2>4, <2>6, Zenon DEF Arrives, Wanted
  <2>8. (j.mode <=> i.mode) /\ j.reload = i.reload
    BY <2>4, <2>6, Zenon DEF Kept
  <2>9. j.line.target <=> i.line.target \/ i.counter = 255
    BY <2>4, <2>6, Zenon
  <2> QED
    BY <1>0, <1>4, <2>1, <2>4, <2>6, <2>7, <2>8, <2>9
<1> QED
  BY <1>0, <1>1, <1>2, <1>3, <1>4

-----------------------------------------------------------------------------
(* When each counter expires next: t clocks from now, f if it has still to *)
(* take its reload value.                                                  *)
Idle004(i) == i.reload = 0 /\ i.counter = 0 /\ ~i.reloadFlag
Counting004(i) == ~i.reloadFlag /\ i.counter > 0
Waits004(i, t, f) ==
  IF t = Never THEN Idle004(i)
  ELSE IF Counting004(i) THEN t = i.counter
  ELSE f /\ t = i.reload + 1 /\ (i.reloadFlag \/ i.reload > 0)
WaitsB(i, t, f) ==
  IF Counting004(i) THEN t = i.counter ELSE f /\ t = i.reload + 1

(* What a clock does to t and f; period is what the document gives when the*)
(* counter expires.                                                        *)
Passes(t, t2, f2, period) ==
  IF t = 1 THEN t2 = period /\ f2
  ELSE t2 = (IF t > 0 THEN t - 1 ELSE t)

(* A clock leaves MMC3's counter due one clock sooner, or its period later *)
(* when it expires, and fires it exactly then.                             *)
LEMMA Waits004Step ==
  ASSUME NEW i \in Counters, Wanted(i), NEW j, j = Ticked004(i), NEW t \in Int, NEW f,
         Waits004(i, t, f), NEW t2, NEW f2,
         Passes(t, t2, f2, IF j.reload = 0 THEN Never ELSE j.reload + 1)
  PROVE  /\ j.line.target <=> i.line.target \/ (t = 1 /\ i.enable)
         /\ Waits004(j, t2, f2)
<1>1. /\ j.reload = i.reload /\ ~j.reloadFlag
      /\ j.counter = IF i.counter = 0 \/ i.reloadFlag THEN i.reload ELSE i.counter - 1
      /\ j.line.target <=> \/ i.line.target
                           \/ /\ i.enable
                              /\ IF i.counter = 0 \/ i.reloadFlag THEN i.reloadFlag /\ i.reload = 0
                                 ELSE i.counter = 1
  BY Ticked004Step
<1>2. i.counter \in Nat /\ i.reload \in Nat
  BY DEF Counters
<1>3. CASE t = Never
  <2>1. i.reload = 0 /\ i.counter = 0 /\ ~i.reloadFlag /\ t # 1 /\ ~(t > 0)
    BY <1>3 DEF Waits004, Idle004, Never
  <2>2. t2 = Never /\ j.counter = 0 /\ j.reload = 0
    BY <1>1, <1>3, <2>1 DEF Passes
  <2>3. Waits004(j, t2, f2)
    BY <1>1, <2>2 DEF Waits004, Idle004
  <2>4. j.line.target <=> i.line.target
    BY <1>1, <2>1
  <2> QED
    BY <2>1, <2>3, <2>4
<1>4. CASE t # Never /\ Counting004(i)
  <2>1. t = i.counter /\ i.counter > 0 /\ ~i.reloadFlag
    BY <1>4 DEF Waits004, Counting004
  <2>2. j.counter = t - 1 /\ (j.line.target <=> i.line.target \/ (t = 1 /\ i.enable))
    BY <1>1, <1>2, <2>1
  <2>3. CASE t = 1
    <3>1. t2 = (IF j.reload = 0 THEN Never ELSE j.reload + 1) /\ f2 /\ j.counter = 0
      BY <2>2, <2>3 DEF Passes
    <3> QED
      BY <1>1, <1>2, <2>2, <3>1 DEF Waits004, Idle004, Counting004, Never
  <2>4. CASE t # 1
    <3>1. t2 = t - 1 /\ t2 > 0 /\ t2 = j.counter
      BY <1>2, <2>1, <2>2, <2>4 DEF Passes
    <3> QED
      BY <1>1, <2>2, <3>1 DEF Waits004, Counting004, Never
  <2> QED
    BY <2>3, <2>4
<1>5. CASE t # Never /\ ~Counting004(i)
  <2>1. t = i.reload + 1 /\ (i.reloadFlag \/ i.reload > 0) /\ (i.counter = 0 \/ i.reloadFlag)
    BY <1>2, <1>5 DEF Waits004, Counting004
  <2>2. j.counter = i.reload
    BY <1>1, <2>1
  <2>3. j.line.target <=> i.line.target \/ (t = 1 /\ i.enable)
    <3>1. t = 1 <=> i.reload = 0
      BY <1>2, <2>1
    <3>2. t = 1 <=> i.reloadFlag /\ i.reload = 0
      BY <1>2, <2>1, <3>1
    <3> QED
      BY <1>1, <2>1, <3>2
  <2>4. CASE t = 1
    <3>1. t2 = Never /\ j.reload = 0 /\ j.counter = 0
      BY <1>1, <1>2, <2>1, <2>2, <2>4 DEF Passes
    <3> QED
      BY <1>1, <2>3, <3>1 DEF Waits004, Idle004
  <2>5. CASE t # 1
    <3>1. t2 = j.counter /\ j.counter > 0
      BY <1>2, <2>1, <2>2, <2>5 DEF Passes
    <3> QED
      BY <1>1, <1>2, <2>2, <2>3, <3>1 DEF Waits004, Counting004, Never
  <2> QED
    BY <2>4, <2>5
<1> QED
  BY <1>3, <1>4, <1>5

(* The same of the counters of 48, 91, 189 and 245, which take their       *)
(* reload value once they are at zero.                                     *)
LEMMA WaitsBStep ==
  ASSUME NEW i \in Counters, Wanted(i), NEW j, j = TickedB(i), NEW t \in Int, NEW f,
         WaitsB(i, t, f), NEW t2, NEW f2, Passes(t, t2, f2, j.reload + 1)
  PROVE  /\ j.line.target <=> i.line.target \/ (t = 1 /\ i.enable)
         /\ WaitsB(j, t2, f2)
<1>1. /\ j.reload = i.reload /\ ~j.reloadFlag
      /\ j.counter = IF i.counter = 0 \/ i.reloadFlag THEN i.reload ELSE i.counter - 1
      /\ j.line.target <=> i.line.target \/ (j.counter = 0 /\ i.enable)
  BY TickedBStep
<1>2. i.counter \in Nat /\ i.reload \in Nat
  BY DEF Counters
<1>3. j.counter = t - 1 /\ t > 0
  <2>1. CASE Counting004(i)
    BY <1>1, <1>2, <2>1 DEF WaitsB, Counting004
  <2>2. CASE ~Counting004(i)
    <3>1. t = i.reload + 1 /\ (i.counter = 0 \/ i.reloadFlag)
      BY <1>2, <2>2 DEF WaitsB, Counting004
    <3> QED
      BY <1>1, <1>2, <3>1
  <2> QED
    BY <2>1, <2>2
<1>4. j.counter = 0 <=> t = 1
  BY <1>3
<1>5. j.line.target <=> i.line.target \/ (t = 1 /\ i.enable)
  BY <1>1, <1>4
<1>6. CASE t = 1
  <2>1. t2 = j.reload + 1 /\ f2 /\ j.counter = 0
    BY <1>3, <1>6 DEF Passes
  <2> QED
    BY <1>5, <2>1 DEF WaitsB, Counting004
<1>7. CASE t # 1
  <2>1. t2 = j.counter /\ j.counter > 0
    BY <1>3, <1>7 DEF Passes
  <2> QED
    BY <1>1, <1>5, <2>1 DEF WaitsB, Counting004
<1> QED
  BY <1>6, <1>7

(* RAMBO-1 counts ticks, each of four cycles when it counts those.         *)
Ticks064(i) ==
  IF i.reloadFlag THEN i.reload + 2 ELSE IF i.counter > 0 THEN i.counter ELSE i.reload + 1
Taken064(i) == i.reloadFlag \/ i.reload > 0
Waits064(i, t, f) ==
  IF t = Never THEN Idle004(i)
  ELSE /\ t = IF i.mode THEN 4 * Ticks064(i) - i.prescaler ELSE Ticks064(i)
       /\ Counting004(i) \/ (f /\ Taken064(i))

(* One tick of RAMBO-1's, wherever it comes from.                          *)
LEMMA Counted064Ticks ==
  ASSUME NEW i \in Counters, NEW j \in Counters, Counted064(i, j), j.reload = i.reload
  PROVE  /\ Idle004(i) => Idle004(j) /\ (j.line.target <=> i.line.target)
         /\ Counting004(i) \/ Taken064(i) =>
              /\ Ticks064(i) \in Nat /\ Ticks064(i) > 0
              /\ j.line.target <=> i.line.target \/ (Ticks064(i) = 1 /\ i.enable)
              /\ Ticks064(i) = 1 => ~j.reloadFlag /\ j.counter = 0
              /\ Ticks064(i) > 1 => Counting004(j) /\ Ticks064(j) = Ticks064(i) - 1
<1>1. /\ ~j.reloadFlag
      /\ j.counter = IF i.reloadFlag THEN i.reload + 1
                     ELSE IF i.counter = 0 THEN i.reload ELSE i.counter - 1
      /\ j.line.target <=> (i.line.target \/ (~i.reloadFlag /\ i.counter = 1 /\ i.enable))
  BY DEF Counted064
<1>2. i.counter \in Nat /\ i.reload \in Nat
  BY DEF Counters
<1>3. Idle004(i) => Idle004(j) /\ (j.line.target <=> i.line.target)
  BY <1>1 DEF Idle004
<1>4. ASSUME Counting004(i) \/ Taken064(i)
      PROVE  /\ Ticks064(i) \in Nat /\ Ticks064(i) > 0
             /\ j.line.target <=> i.line.target \/ (Ticks064(i) = 1 /\ i.enable)
             /\ Ticks064(i) = 1 => ~j.reloadFlag /\ j.counter = 0
             /\ Ticks064(i) > 1 => Counting004(j) /\ Ticks064(j) = Ticks064(i) - 1
  <2>1. CASE i.reloadFlag
    <3>1. /\ Ticks064(i) = i.reload + 2 /\ j.counter = i.reload + 1
          /\ j.line.target <=> i.line.target
      BY <1>1, <2>1 DEF Ticks064
    <3> QED
      BY <1>1, <1>2, <3>1 DEF Ticks064, Counting004
  <2>2. CASE ~i.reloadFlag /\ i.counter > 0
    <3>1. Ticks064(i) = i.counter /\ j.counter = i.counter - 1
      BY <1>1, <1>2, <2>2 DEF Ticks064
    <3>2. j.line.target <=> i.line.target \/ (Ticks064(i) = 1 /\ i.enable)
      BY <1>1, <2>2, <3>1
    <3>3. Ticks064(i) > 1 => Counting004(j) /\ Ticks064(j) = Ticks064(i) - 1
      BY <1>1, <1>2, <3>1 DEF Ticks064, Counting004
    <3> QED
      BY <1>1, <1>2, <2>2, <3>1, <3>2, <3>3
  <2>3. CASE ~i.reloadFlag /\ i.counter = 0
    <3>1. i.reload > 0 /\ Ticks064(i) = i.reload + 1 /\ j.counter = i.reload
      BY <1>1, <1>2, <1>4, <2>3 DEF Ticks064, Counting004, Taken064
    <3>2. j.line.target <=> i.line.target \/ (Ticks064(i) = 1 /\ i.enable)
      BY <1>1, <1>2, <2>3, <3>1
    <3>3. Ticks064(i) > 1 => Counting004(j) /\ Ticks064(j) = Ticks064(i) - 1
      BY <1>1, <1>2, <3>1 DEF Ticks064, Counting004
    <3> QED
      BY <1>1, <1>2, <3>1, <3>2, <3>3
  <2>4. i.counter > 0 \/ i.counter = 0
    BY <1>2
  <2> QED
    BY <2>1, <2>2, <2>3, <2>4
<1> QED
  BY <1>3, <1>4

(* RAMBO-1 by A12, and by the processor's clock.                           *)
LEMMA Waits064Step ==
  ASSUME NEW i \in Counters, Wanted(i), ~i.mode, NEW j, j = Ticked064(i), NEW t \in Int, NEW f,
         Waits064(i, t, f), NEW t2, NEW f2,
         Passes(t, t2, f2, IF j.reload = 0 THEN Never ELSE j.reload + 1)
  PROVE  /\ j.line.target <=> i.line.target \/ (t = 1 /\ i.enable)
         /\ Waits064(j, t2, f2)
<1>1. j \in Counters /\ Counted064(i, j) /\ j.reload = i.reload /\ ~j.mode
  <2>1. /\ Arrives(i, j) /\ Counted064(i, j) /\ j.reload = i.reload /\ j.mode = i.mode
    BY Ticked064Step
  <2>2. ~j.mode
    BY <2>1, Zenon
  <2> QED
    BY <2>1, <2>2 DEF Arrives
<1>2. j.reload \in Nat
  BY <1>1 DEF Counters
<1>3. CASE t = Never
  <2>1. Idle004(i)
    BY <1>3 DEF Waits004, Waits064
  <2>2. Idle004(j) /\ (j.line.target <=> i.line.target)
    BY <1>1, <2>1, Counted064Ticks
  <2>3. t # 1 /\ t2 = Never
    BY <1>3 DEF Passes, Never
  <2> QED
    BY <2>2, <2>3 DEF Waits064
<1>4. CASE t # Never
  <2>1. t = Ticks064(i) /\ (Counting004(i) \/ Taken064(i))
    BY <1>4 DEF Waits064
  <2>2. /\ t > 0
        /\ j.line.target <=> i.line.target \/ (t = 1 /\ i.enable)
        /\ t = 1 => ~j.reloadFlag /\ j.counter = 0
        /\ t > 1 => Counting004(j) /\ Ticks064(j) = t - 1
    BY <1>1, <2>1, Counted064Ticks
  <2>3. CASE t = 1
    <3>1. /\ t2 = (IF j.reload = 0 THEN Never ELSE j.reload + 1) /\ f2
          /\ ~j.reloadFlag /\ j.counter = 0
      BY <2>2, <2>3 DEF Passes
    <3>2. Waits064(j, t2, f2)
      BY <1>1, <1>2, <3>1 DEF Waits064, Idle004, Ticks064, Taken064, Never
    <3> QED
      BY <2>2, <3>2
  <2>4. CASE t # 1
    <3>1. t2 = t - 1 /\ Counting004(j) /\ Ticks064(j) = t2 /\ t2 # Never
      BY <2>2, <2>4 DEF Passes, Never
    <3>2. Waits064(j, t2, f2)
      BY <1>1, <3>1 DEF Waits064
    <3> QED
      BY <2>2, <3>2
  <2> QED
    BY <2>3, <2>4
<1> QED
  BY <1>3, <1>4

LEMMA WaitsCpu064Step ==
  ASSUME NEW i \in Counters, Wanted(i), i.mode, i.prescaler \in 0..3,
         NEW j, j = CpuTicked064(i), NEW t \in Int, NEW f,
         Waits064(i, t, f), NEW t2, NEW f2,
         Passes(t, t2, f2, IF j.reload = 0 THEN Never ELSE 4 * (j.reload + 1)),
         t # 1 => (f2 <=> f /\ (t - 1) % 4 # 0)
  PROVE  /\ j.line.target <=> i.line.target \/ (t = 1 /\ i.enable)
         /\ Waits064(j, t2, f2) /\ j.prescaler \in 0..3
<1>1. /\ j \in Counters /\ j.reload = i.reload /\ j.mode
      /\ i.prescaler < 3 => /\ j.prescaler = i.prescaler + 1
                            /\ j.counter = i.counter /\ (j.reloadFlag <=> i.reloadFlag)
                            /\ j.line = i.line
      /\ i.prescaler = 3 => j.prescaler = 0 /\ Counted064(i, j)
  <2>1. /\ Arrives(i, j)
        /\ j.enable = i.enable /\ j.reload = i.reload /\ j.mode = i.mode
        /\ i.prescaler < 3 => /\ j.prescaler = i.prescaler + 1
                              /\ j.counter = i.counter /\ j.reloadFlag = i.reloadFlag
                              /\ j.line = i.line
        /\ i.prescaler = 3 => j.prescaler = 0 /\ Counted064(i, j)
    BY CpuTicked064Step
  <2>2. j.mode
    BY <2>1, Zenon
  <2> QED
    BY <2>1, <2>2 DEF Arrives
<1>2. j.reload \in Nat /\ j.prescaler \in 0..3
  BY <1>1 DEF Counters
<1>3. CASE t = Never
  <2>1. Idle004(i)
    BY <1>3 DEF Waits064
  <2>2. Idle004(j) /\ (j.line.target <=> i.line.target)
    <3>1. CASE i.prescaler < 3
      BY <1>1, <2>1, <3>1 DEF Idle004
    <3>2. CASE i.prescaler = 3
      BY <1>1, <2>1, <3>2, Counted064Ticks
    <3> QED
      BY <3>1, <3>2
  <2>3. t # 1 /\ t2 = Never
    BY <1>3 DEF Passes, Never
  <2> QED
    BY <1>2, <2>2, <2>3 DEF Waits064
<1>4. CASE t # Never /\ i.prescaler < 3
  <2>1. /\ t = 4 * Ticks064(i) - i.prescaler
        /\ Counting004(i) \/ (f /\ Taken064(i))
    BY <1>4 DEF Waits064
  <2>2. Ticks064(i) \in Nat /\ Ticks064(i) > 0
    BY DEF Ticks064, Counters
  <2>3. t > 1 /\ (t - 1) % 4 # 0
    BY <1>4, <2>1, <2>2
  <2>4. t2 = t - 1 /\ (f2 <=> f)
    BY <2>3 DEF Passes
  <2>5. Ticks064(j) = Ticks064(i) /\ (Counting004(j) <=> Counting004(i))
        /\ (Taken064(j) <=> Taken064(i))
    BY <1>1, <1>4 DEF Ticks064, Counting004, Taken064
  <2>6. t2 = 4 * Ticks064(j) - j.prescaler /\ t2 # Never
    BY <1>1, <1>4, <2>1, <2>2, <2>3, <2>4, <2>5 DEF Never
  <2>7. Waits064(j, t2, f2)
    BY <1>1, <2>1, <2>4, <2>5, <2>6 DEF Waits064
  <2>8. j.line.target <=> i.line.target \/ (t = 1 /\ i.enable)
    BY <1>1, <1>4, <2>3
  <2> QED
    BY <1>2, <2>7, <2>8
<1>5. CASE t # Never /\ i.prescaler = 3
  <2>1. /\ t = 4 * Ticks064(i) - 3
        /\ Counting004(i) \/ Taken064(i)
    BY <1>5 DEF Waits064
  <2>2. /\ Ticks064(i) \in Nat /\ Ticks064(i) > 0
        /\ j.line.target <=> i.line.target \/ (Ticks064(i) = 1 /\ i.enable)
        /\ Ticks064(i) = 1 => ~j.reloadFlag /\ j.counter = 0
        /\ Ticks064(i) > 1 => Counting004(j) /\ Ticks064(j) = Ticks064(i) - 1
    BY <1>1, <1>5, <2>1, Counted064Ticks
  <2>3. Ticks064(i) = 1 <=> t = 1
    BY <2>1, <2>2
  <2>4. j.line.target <=> i.line.target \/ (t = 1 /\ i.enable)
    BY <2>2, <2>3
  <2>5. CASE t = 1
    <3>1. /\ t2 = (IF j.reload = 0 THEN Never ELSE 4 * (j.reload + 1)) /\ f2
          /\ ~j.reloadFlag /\ j.counter = 0 /\ j.prescaler = 0
      BY <1>1, <1>5, <2>2, <2>3, <2>5 DEF Passes
    <3>2. Waits064(j, t2, f2)
      BY <1>1, <1>2, <3>1 DEF Waits064, Idle004, Ticks064, Taken064, Never
    <3> QED
      BY <1>2, <2>4, <3>2
  <2>6. CASE t # 1
    <3>1. Ticks064(i) > 1 /\ t > 1
      BY <2>1, <2>2, <2>6
    <3>2. Counting004(j) /\ t2 = t - 1 /\ t2 = 4 * Ticks064(j) - 0 /\ t2 # Never
      BY <2>1, <2>2, <3>1 DEF Passes, Never
    <3>3. Waits064(j, t2, f2)
      BY <1>1, <1>5, <3>2 DEF Waits064
    <3> QED
      BY <1>2, <2>4, <3>3
  <2> QED
    BY <2>5, <2>6
<1> QED
  BY <1>3, <1>4, <1>5

(* The counters the processor clocks: 65, 67, 69, 73, and 24 and 26.       *)
Waits065(i, t) == t = IF i.counter = 0 THEN Never ELSE i.counter
Waits067(i, t) == t = i.counter + 1
Waits073(i, t) == t = Top073(i) + 1 - Low073(i)
Waits024(i, t) ==
  t = IF i.mode THEN 256 - i.counter ELSE (255 - i.counter) * ScanlineDots + i.prescaler

(* The counters that count down to zero or below, and VRC3's, which counts *)
(* up.                                                                     *)
LEMMA Waits065Step ==
  ASSUME NEW i \in Counters, Wanted(i), i.enable, NEW j, j = Ticked065(i), NEW t \in Int,
         Waits065(i, t), NEW t2, NEW f2, Passes(t, t2, f2, Never)
  PROVE  /\ j.line.target <=> i.line.target \/ (t = 1 /\ i.enable)
         /\ Waits065(j, t2)
<1>1. /\ j.counter = IF i.counter = 0 THEN 0 ELSE i.counter - 1
      /\ j.line.target <=> i.line.target \/ i.counter = 1
  BY Ticked065Step
<1>2. i.counter \in Nat
  BY DEF Counters
<1>3. t = 1 <=> i.counter = 1
  BY <1>2 DEF Waits065, Never
<1>4. Waits065(j, t2)
  BY <1>1, <1>2 DEF Waits065, Passes, Never
<1>5. j.line.target <=> i.line.target \/ (t = 1 /\ i.enable)
  BY <1>1, <1>3
<1> QED
  BY <1>4, <1>5

LEMMA Waits067Step ==
  ASSUME NEW i \in Counters, Wanted(i), i.enable, NEW j, j = Ticked067(i), NEW t \in Int,
         Waits067(i, t), NEW t2, NEW f2, Passes(t, t2, f2, 65536)
  PROVE  /\ j.line.target <=> i.line.target \/ (t = 1 /\ i.enable)
         /\ Waits067(j, t2)
<1>1. /\ j.counter = IF i.counter = 0 THEN 65535 ELSE i.counter - 1
      /\ j.line.target <=> i.line.target \/ i.counter = 0
  BY Ticked067Step
<1>2. i.counter \in Nat
  BY DEF Counters
<1>3. t = 1 <=> i.counter = 0
  BY <1>2 DEF Waits067
<1>4. Waits067(j, t2)
  BY <1>1, <1>2 DEF Waits067, Passes
<1>5. j.line.target <=> i.line.target \/ (t = 1 /\ i.enable)
  BY <1>1, <1>3
<1> QED
  BY <1>4, <1>5

LEMMA Waits069Step ==
  ASSUME NEW i \in Counters, Wanted(i), i.counting, i.counter <= 65535,
         NEW j, j = Ticked069(i), NEW t \in Int,
         Waits067(i, t), NEW t2, NEW f2, Passes(t, t2, f2, 65536)
  PROVE  /\ j.line.target <=> i.line.target \/ (t = 1 /\ i.enable)
         /\ Waits067(j, t2)
<1>1. /\ j.counter = IF i.counter = 0 THEN 65535 ELSE i.counter - 1
      /\ j.line.target <=> i.line.target \/ (i.counter = 0 /\ i.enable)
  BY Ticked069Step
<1>2. i.counter \in Nat
  BY DEF Counters
<1>3. t = 1 <=> i.counter = 0
  BY <1>2 DEF Waits067
<1>4. Waits067(j, t2)
  BY <1>1, <1>2 DEF Waits067, Passes
<1>5. j.line.target <=> i.line.target \/ (t = 1 /\ i.enable)
  BY <1>1, <1>3
<1> QED
  BY <1>4, <1>5

LEMMA Waits073Step ==
  ASSUME NEW i \in Counters, Wanted(i), i.enable, i.counter <= 65535, i.reload <= 65535,
         NEW j, j = Ticked073(i), NEW t \in Int, Waits073(i, t), NEW t2, NEW f2,
         Passes(t, t2, f2, IF j.mode THEN 256 - (j.reload % 256) ELSE 65536 - j.reload)
  PROVE  /\ j.line.target <=> i.line.target \/ (t = 1 /\ i.enable)
         /\ Waits073(j, t2)
<1>1. /\ j.reload = i.reload /\ (j.mode <=> i.mode)
      /\ Low073(j) = IF Low073(i) = Top073(i) THEN Start073(i) ELSE Low073(i) + 1
      /\ j.line.target <=> i.line.target \/ Low073(i) = Top073(i)
  BY Ticked073Step
<1>2. Low073(i) \in Nat /\ Top073(i) \in Nat /\ Low073(i) <= Top073(i)
  BY DEF Counters, Low073, Top073
<1>3. t = 1 <=> Low073(i) = Top073(i)
  BY <1>2 DEF Waits073
<1>4. Top073(j) = Top073(i) /\ Start073(j) = Start073(i)
  BY <1>1 DEF Top073, Start073
<1>5. (IF j.mode THEN 256 - (j.reload % 256) ELSE 65536 - j.reload) = Top073(j) + 1 - Start073(j)
  <2>1. j.reload \in Nat
    BY <1>1 DEF Counters
  <2> QED
    BY <2>1 DEF Top073, Start073
<1>6. Waits073(j, t2)
  <2>1. CASE t = 1
    <3>1. t2 = Top073(j) + 1 - Start073(j)
      BY <1>5, <2>1 DEF Passes
    <3> QED
      BY <1>1, <1>3, <1>4, <2>1, <3>1 DEF Waits073
  <2>2. CASE t # 1
    <3>1. t2 = t - 1
      BY <1>2, <2>2 DEF Passes, Waits073
    <3>2. Low073(j) = Low073(i) + 1
      BY <1>1, <1>3, <2>2
    <3> QED
      BY <1>2, <1>4, <3>1, <3>2 DEF Waits073
  <2> QED
    BY <2>1, <2>2
<1>7. j.line.target <=> i.line.target \/ (t = 1 /\ i.enable)
  BY <1>1, <1>3
<1> QED
  BY <1>6, <1>7

(* Products of a number of lines and their dots, which the arithmetic of   *)
(* the provers leaves alone.                                               *)
LEMMA Scanlines ==
  ASSUME NEW x \in Nat, NEW s \in Nat, s >= 3
  PROVE  /\ (x + 1) * s = x * s + s
         /\ x * s \in Nat
         /\ x > 0 => x * s >= 3
<1>1. (x + 1) * s = x * s + s /\ x * s \in Nat
  BY SMT
<1>2. ASSUME x > 0 PROVE x * s >= 3
  <2>1. PICK y \in Nat : x = y + 1
    <3>1. x - 1 \in Nat /\ x = (x - 1) + 1
      BY <1>2
    <3> QED
      BY <3>1
  <2>2. (y + 1) * s = y * s + s /\ y * s \in Nat
    BY SMT
  <2>3. \A z \in Nat : z + s >= 3
    OBVIOUS
  <2>4. x * s = y * s + s
    BY <2>1, <2>2
  <2>5. PICK z \in Nat : z = y * s
    BY <2>2
  <2> QED
    BY <2>3, <2>4, <2>5
<1> QED
  BY <1>1, <1>2

(* VRC6: a clock takes a dot in cycle mode and three when it counts        *)
(* scanlines, and the lines still to come after this one take ScanlineDots *)
(* each.                                                                   *)
LEMMA Waits024Step ==
  ASSUME ScanlineDots \in Nat, ScanlineDots >= 3, NEW i \in Counters, Wanted(i), i.enable,
         i.counter <= 255, i.reload <= 255, i.prescaler > 0,
         NEW j, j = Ticked024(i), NEW t \in Int, Waits024(i, t), NEW t2, NEW cost \in Nat,
         cost = IF i.mode THEN 1 ELSE 3,
         t2 = IF t > 0 /\ t <= cost
              THEN t - cost + (256 - j.reload) * (IF j.mode THEN 1 ELSE ScanlineDots)
              ELSE IF t > 0 THEN t - cost ELSE t
  PROVE  /\ j.line.target <=> i.line.target \/ (t > 0 /\ t <= cost /\ i.enable)
         /\ Waits024(j, t2)
         /\ j.counter <= 255 /\ j.reload <= 255 /\ j.prescaler > 0
<1>1. /\ j.reload = i.reload /\ (j.mode <=> i.mode)
      /\ i.mode => /\ j.prescaler = i.prescaler
                   /\ j.counter = IF i.counter = 255 THEN i.reload ELSE i.counter + 1
                   /\ j.line.target <=> i.line.target \/ i.counter = 255
      /\ ~i.mode /\ i.prescaler > 3 =>
           /\ j.prescaler = i.prescaler - 3 /\ j.counter = i.counter
           /\ j.line = i.line
      /\ ~i.mode /\ i.prescaler <= 3 =>
           /\ j.prescaler = i.prescaler - 3 + ScanlineDots
           /\ j.counter = IF i.counter = 255 THEN i.reload ELSE i.counter + 1
           /\ j.line.target <=> i.line.target \/ i.counter = 255
  BY Ticked024Step
<1>2. i.counter \in Nat /\ i.reload \in Nat /\ i.prescaler \in Int
  BY DEF Counters
<1>3. PICK v \in Nat : v = i.counter /\ v <= 255
  BY <1>2
<1>4. PICK l \in Nat : l = i.reload /\ l <= 255
  BY <1>2
<1>5. PICK p \in Int : p = i.prescaler /\ p > 0
  BY <1>2
<1>6. CASE i.mode
  <2>1. cost = 1 /\ t = 256 - v /\ j.mode /\ j.prescaler = p /\ j.reload = l
    BY <1>1, <1>3, <1>4, <1>5, <1>6 DEF Waits024
  <2>2. j.counter = IF v = 255 THEN l ELSE v + 1
    BY <1>1, <1>3, <1>4, <1>6
  <2>3. t > 0 /\ (t <= cost <=> v = 255)
    BY <2>1, <1>3
  <2>4. t2 = IF v = 255 THEN 256 - l ELSE t - 1
    BY <1>3, <1>4, <2>1, <2>3
  <2>5. Waits024(j, t2)
    BY <1>3, <1>4, <2>1, <2>2, <2>4 DEF Waits024
  <2>6. j.line.target <=> i.line.target \/ (t > 0 /\ t <= cost /\ i.enable)
    BY <1>1, <1>3, <1>6, <2>3
  <2>7. j.counter <= 255 /\ j.reload <= 255 /\ j.prescaler > 0
    BY <1>3, <1>4, <1>5, <2>1, <2>2
  <2> QED
    BY <2>5, <2>6, <2>7
<1>7. CASE ~i.mode
  <2>0. PICK g \in Nat : g = 255 - v
    BY <1>3
  <2>1. PICK m \in Nat : m = g * ScanlineDots
    BY Scanlines
  <2>2. g > 0 => m >= 3
    BY <2>1, Scanlines
  <2>3. cost = 3 /\ t = m + p /\ ~j.mode /\ j.reload = l
    BY <1>1, <1>3, <1>4, <1>5, <1>7, <2>0, <2>1 DEF Waits024
  <2>4. t > 0 /\ (t <= 3 <=> v = 255 /\ p <= 3)
    <3>1. g = 0 => m = 0
      BY <2>1
    <3> QED
      BY <1>3, <1>5, <2>0, <2>2, <2>3, <3>1
  <2>5. CASE p > 3
    <3>1. j.prescaler = p - 3 /\ j.counter = v /\ j.line = i.line
      BY <1>1, <1>3, <1>5, <1>7, <2>5
    <3>2. ~(t <= cost) /\ t2 = t - 3
      BY <2>3, <2>4, <2>5
    <3>3. t2 = m + (p - 3)
      BY <2>3, <3>2
    <3>4. Waits024(j, t2)
      BY <1>3, <2>0, <2>1, <2>3, <3>1, <3>3 DEF Waits024
    <3>5. j.line.target <=> i.line.target \/ (t > 0 /\ t <= cost /\ i.enable)
      BY <3>1, <3>2
    <3> QED
      BY <1>3, <1>4, <2>3, <2>5, <3>1, <3>4, <3>5
  <2>6. CASE p <= 3
    <3>1. /\ j.prescaler = p - 3 + ScanlineDots
          /\ j.counter = IF v = 255 THEN l ELSE v + 1
      BY <1>1, <1>3, <1>4, <1>5, <1>7, <2>6
    <3>2. j.line.target <=> i.line.target \/ v = 255
      BY <1>1, <1>3, <1>5, <1>7, <2>6
    <3>3. (t > 0 /\ t <= cost) <=> v = 255
      BY <2>3, <2>4, <2>6
    <3>4. Waits024(j, t2)
      <4>1. CASE v = 255
        <5>1. PICK h \in Nat : h = 255 - l
          BY <1>4
        <5>2. (256 - l) * ScanlineDots = h * ScanlineDots + ScanlineDots
          <6>1. 256 - l = h + 1
            BY <1>4, <5>1
          <6> QED
            BY <6>1, Scanlines
        <5>3. m = 0
          BY <2>0, <2>1, <4>1
        <5>4. PICK o \in Nat : o = h * ScanlineDots
          BY Scanlines
        <5>5. t2 = t - 3 + (256 - l) * ScanlineDots
          BY <2>3, <3>3, <4>1
        <5>6. t2 = p - 3 + (o + ScanlineDots)
          BY <2>3, <5>2, <5>3, <5>4, <5>5
        <5>7. t2 = o + (p - 3 + ScanlineDots)
          BY <5>6
        <5> QED
          BY <2>3, <3>1, <4>1, <5>1, <5>4, <5>7 DEF Waits024
      <4>2. CASE v # 255
        <5>1. PICK h \in Nat : h = 255 - (v + 1) /\ g = h + 1
          <6>1. 255 - (v + 1) \in Nat /\ g = (255 - (v + 1)) + 1
            BY <1>3, <2>0, <4>2
          <6> QED
            BY <6>1
        <5>2. PICK o \in Nat : o = h * ScanlineDots
          BY Scanlines
        <5>3. m = o + ScanlineDots
          BY <2>1, <5>1, <5>2, Scanlines
        <5>4. t2 = t - 3
          BY <2>3, <2>4, <3>3, <4>2
        <5>5. t2 = o + (p - 3 + ScanlineDots)
          BY <2>3, <5>3, <5>4
        <5> QED
          BY <2>3, <3>1, <4>2, <5>1, <5>2, <5>5 DEF Waits024
      <4> QED
        BY <4>1, <4>2
    <3>5. j.line.target <=> i.line.target \/ (t > 0 /\ t <= cost /\ i.enable)
      BY <3>2, <3>3
    <3>6. j.counter <= 255 /\ j.reload <= 255 /\ j.prescaler > 0
      BY <1>3, <1>4, <1>5, <2>3, <3>1
    <3> QED
      BY <3>4, <3>5, <3>6
  <2> QED
    BY <1>5, <2>5, <2>6
<1> QED
  BY <1>6, <1>7

(* When the counter of board b expires next, and the values it has.        *)
Waits(b, i, t, f) ==
  /\ b \in MMC3Boards => Waits004(i, t, f)
  /\ b \in {48, 91, 189, 245} => WaitsB(i, t, f)
  /\ b = 64 => Waits064(i, t, f)
  /\ b = 65 => Waits065(i, t)
  /\ b \in {67, 69} => Waits067(i, t)
  /\ b = 73 => Waits073(i, t)
  /\ b \in {24, 26} => Waits024(i, t)

(* The values a board's counter has.                                       *)
Bounded(b, i) ==
  /\ b = 64 => i.prescaler \in 0..3
  /\ b \in {69, 73} => i.counter <= 65535
  /\ b = 73 => i.reload <= 65535
  /\ b \in {24, 26} => i.counter <= 255 /\ i.reload <= 255 /\ i.prescaler > 0

(* A write of d at a leaves the line quiet or as it was, and the count that*)
(* the document gives right: from the start when it is a write that starts *)
(* the counter, and untouched unless it changes what the counter has still *)
(* to take, or how it counts.                                              *)
Upsets(b, a, t, f) == Reloads(b, a) /\ (f \/ t = Never)
WriteKeeps(b, i, j, a, d, t, f) ==
  /\ Told(i, j) /\ Bounded(b, j)
  /\ AfterStart(b, j) \in Int
  /\ Starts(b, a, d) => Waits(b, j, AfterStart(b, j), TRUE)
  /\ ~Starts(b, a, d) /\ (j.mode <=> i.mode) /\ ~Upsets(b, a, t, f) /\ Waits(b, i, t, f)
       => Waits(b, j, t, f)

(* The counters MMC3's writes are for: c is the write that starts them, e  *)
(* the one of a reload value.                                              *)
RightAfter(i, j, c, e, t, f) ==
  /\ c => Waits004(j, j.reload + 1, TRUE) /\ WaitsB(j, j.reload + 1, TRUE)
  /\ ~c /\ (e => ~f /\ t # Never) =>
       /\ Waits004(i, t, f) => Waits004(j, t, f)
       /\ WaitsB(i, t, f) => WaitsB(j, t, f)
  /\ Told(i, j)
  /\ j.reload + 1 \in Int

(* A write keeps the alarm right when it restarts the counter, or leaves   *)
(* what the alarm rests on as it was.                                      *)
LEMMA WriteWaits ==
  ASSUME NEW i \in Counters, NEW j, NEW c \in BOOLEAN, NEW e \in BOOLEAN, Write004(i, j, c, e),
         NEW t \in Int, NEW f \in BOOLEAN
  PROVE  RightAfter(i, j, c, e, t, f)
<1>1. /\ j \in Counters /\ Told(i, j)
      /\ c => j.reloadFlag /\ j.counter = 0
      /\ ~c => (j.reloadFlag <=> i.reloadFlag) /\ j.counter = i.counter
      /\ ~e => j.reload = i.reload
  BY DEF Write004, Told
<1>2. i.counter \in Nat /\ i.reload \in Nat /\ j.counter \in Nat /\ j.reload \in Nat
  BY <1>1 DEF Counters
<1>3. ASSUME c PROVE Waits004(j, j.reload + 1, TRUE) /\ WaitsB(j, j.reload + 1, TRUE)
  BY <1>1, <1>2, <1>3 DEF Waits004, WaitsB, Counting004, Never
<1>4. ASSUME ~c, e => ~f /\ t # Never
      PROVE  /\ Waits004(i, t, f) => Waits004(j, t, f)
             /\ WaitsB(i, t, f) => WaitsB(j, t, f)
  <2>1. CASE e
    BY <1>1, <1>2, <1>4, <2>1 DEF Waits004, WaitsB, Counting004
  <2>2. CASE ~e
    BY <1>1, <1>2, <1>4, <2>2 DEF Waits004, WaitsB, Counting004, Idle004
  <2> QED
    BY <2>1, <2>2
<1>5. j.reload + 1 \in Int
  BY <1>2
<1> QED
  BY <1>1, <1>3, <1>4, <1>5, Zenon DEF RightAfter

(* Boards whose counter is due as MMC3's is, and what a write to one keeps.*)
CountsAsMMC3(b) ==
  \/ \A x, y, z : Waits(b, x, y, z) <=> Waits004(x, y, z)
  \/ \A x, y, z : Waits(b, x, y, z) <=> WaitsB(x, y, z)

LEMMA KeepsA12 ==
  ASSUME NEW b, NEW i \in Counters, NEW j, NEW a, NEW d, NEW t \in Int, NEW f \in BOOLEAN,
         NEW c \in BOOLEAN, NEW e \in BOOLEAN, Write004(i, j, c, e),
         Starts(b, a, d) <=> c, ~c /\ e => Reloads(b, a),
         AfterStart(b, j) = j.reload + 1, Bounded(b, j),
         CountsAsMMC3(b)
  PROVE  WriteKeeps(b, i, j, a, d, t, f)
<1>1. RightAfter(i, j, c, e, t, f)
  BY WriteWaits
<1>2. Starts(b, a, d) => Waits(b, j, AfterStart(b, j), TRUE)
  BY <1>1, Zenon DEF CountsAsMMC3, RightAfter
<1>3. ~c /\ ~Upsets(b, a, t, f) => (e => ~f /\ t # Never)
  BY Zenon DEF Upsets
<1>4. ~Starts(b, a, d) /\ ~Upsets(b, a, t, f) /\ Waits(b, i, t, f) => Waits(b, j, t, f)
  BY <1>1, <1>3, Zenon DEF CountsAsMMC3, RightAfter
<1>5. AfterStart(b, j) \in Int
  BY <1>1 DEF RightAfter
<1> QED
  BY <1>1, <1>2, <1>4, <1>5, Zenon DEF WriteKeeps, RightAfter

(* Which boards count in which way.                                        *)
LEMMA WaitsWhich ==
  ASSUME NEW b
  PROVE  /\ b \in MMC3Boards \cup {48, 91, 189, 245} => CountsAsMMC3(b)
         /\ b \in MMC3Boards \cup {48, 91, 189, 245} =>
              \A x : Bounded(b, x) /\ AfterStart(b, x) = x.reload + 1
<1>1. b \in MMC3Boards => b \notin {48, 91, 189, 245, 64, 65, 67, 69, 73, 24, 26}
  BY DEF MMC3Boards
<1>2. b \in {48, 91, 189, 245} => b \notin MMC3Boards /\ b \notin {64, 65, 67, 69, 73, 24, 26}
  BY DEF MMC3Boards
<1>3. b \in MMC3Boards => \A x, y, z : Waits(b, x, y, z) <=> Waits004(x, y, z)
  BY <1>1 DEF Waits
<1>4. b \in {48, 91, 189, 245} => \A x, y, z : Waits(b, x, y, z) <=> WaitsB(x, y, z)
  BY <1>2 DEF Waits
<1>5. b \in MMC3Boards \cup {48, 91, 189, 245} => \A x : Bounded(b, x)
  BY <1>1, <1>2 DEF Bounded
<1>6. ASSUME b \in MMC3Boards \cup {48, 91, 189, 245}, NEW x
      PROVE  AfterStart(b, x) = x.reload + 1
  BY <1>6 DEF AfterStart, MMC3Boards
<1> QED
  BY <1>3, <1>4, <1>5, <1>6 DEF CountsAsMMC3

(* Which writes start or reload the counters of MMC3's family.             *)
LEMMA StartsWhich ==
  ASSUME NEW b, NEW a \in Nat, NEW d \in Nat
  PROVE  /\ b \in (MMC3Boards \ {182}) \cup {64, 189, 245} =>
              /\ Starts(b, a, d) <=> Page(a) \in {12, 13} /\ Odd(a)
              /\ Page(a) \in {12, 13} /\ Even(a) => Reloads(b, a)
         /\ b = 182 => (Starts(b, a, d) <=> Page(a) \in {12, 13} /\ Odd(a))
         /\ b = 48 => /\ Starts(b, a, d) <=> Page(a) \in {12, 13} /\ a % 4 = 1
                      /\ Page(a) \in {12, 13} /\ a % 4 = 0 => Reloads(b, a)
         /\ b = 91 => (Starts(b, a, d) <=> Page(a) = 7 /\ a % 4 = 3)
<1> DEFINE p == Page(a) \in {12, 13}
           o == Odd(a)
<1>1. o \in BOOLEAN /\ p \in BOOLEAN
  BY DEF Odd
<1>2. ASSUME b \in (MMC3Boards \ {182}) \cup {64, 189, 245}
      PROVE  /\ Starts(b, a, d) <=> p /\ o
             /\ p /\ ~o => Reloads(b, a)
  <2>1. b # 48 /\ b \in (MMC3Boards \ {182}) \cup {48, 64, 189, 245} /\ b \notin {91, 182}
        /\ b \in A12Boards
    BY <1>2 DEF MMC3Boards, A12Boards
  <2>2. Starts(b, a, d) <=> p /\ o
    <3>1. b \notin {182, 91, 65, 67, 69, 73, 24, 26}
      BY <1>2 DEF MMC3Boards
    <3> HIDE DEF p, o
    <3>2. b \in (MMC3Boards \ {182}) \cup {48, 64, 189, 245} =>
            Starts(b, a, d) = (p /\ (IF b = 48 THEN a % 4 = 1 ELSE o))
      BY <2>1, <3>1, SMTT(30) DEF Starts, p, o
    <3> QED
      BY <1>1, <2>1, <3>2
  <2>3. Reloads(b, a) <=> p /\ ~o
    BY <1>1, <2>1 DEF Reloads, Even
  <2> QED
    BY <2>2, <2>3
<1>3. b = 182 => (Starts(b, a, d) <=> p /\ o)
  BY <1>1 DEF Starts, MMC3Boards
<1>4. b = 48 => /\ Starts(b, a, d) <=> p /\ a % 4 = 1
                /\ p /\ a % 4 = 0 => Reloads(b, a)
  BY <1>1 DEF Starts, Reloads, A12Boards, MMC3Boards
<1>5. b = 91 => (Starts(b, a, d) <=> Page(a) = 7 /\ a % 4 = 3)
  BY DEF Starts, MMC3Boards
<1> QED
  BY <1>2, <1>3, <1>4, <1>5 DEF Even

(* A write to each board keeps its alarm right.                            *)
LEMMA Keeps004 ==
  ASSUME NEW b \in (MMC3Boards \ {182}) \cup {189, 245}, NEW i \in Counters, NEW a \in Nat,
         NEW d \in Nat, NEW t \in Int, NEW f \in BOOLEAN, NEW j, j = Irq004(i, a, d)
  PROVE  WriteKeeps(b, i, j, a, d, t, f)
<1> DEFINE c == Page(a) \in {12, 13} /\ Odd(a)
           e == Page(a) \in {12, 13} /\ Even(a)
<1>1. c \in BOOLEAN /\ e \in BOOLEAN
  OBVIOUS
<1>2. Write004(i, j, c, e)
  BY Irq004Told
<1>3. (Starts(b, a, d) <=> c) /\ (~c /\ e => Reloads(b, a))
  <2>1. b \in (MMC3Boards \ {182}) \cup {64, 189, 245}
    OBVIOUS
  <2> QED
    BY <2>1, StartsWhich, ZenonT(60)
<1> HIDE DEF c, e
<1> QED
  BY <1>1, <1>2, <1>3, WaitsWhich, KeepsA12

LEMMA Keeps182 ==
  ASSUME NEW i \in Counters, NEW a \in Nat, NEW d \in Nat, NEW t \in Int, NEW f \in BOOLEAN,
         NEW j, j = Irq182(i, a, d)
  PROVE  WriteKeeps(182, i, j, a, d, t, f)
<1> DEFINE c == Page(a) \in {12, 13} /\ Odd(a)
<1>1. c \in BOOLEAN
  OBVIOUS
<1>2. Write004(i, j, c, c)
  BY Irq182Told
<1>3. Starts(182, a, d) <=> c
  BY StartsWhich, Zenon
<1>4. 182 \in MMC3Boards
  BY DEF MMC3Boards
<1> HIDE DEF c
<1> QED
  BY <1>1, <1>2, <1>3, <1>4, WaitsWhich, KeepsA12

LEMMA Keeps048 ==
  ASSUME NEW i \in Counters, NEW a \in Nat, NEW d \in Nat, d <= 255,
         NEW t \in Int, NEW f \in BOOLEAN, NEW j, j = Irq048(i, a, d)
  PROVE  WriteKeeps(48, i, j, a, d, t, f)
<1> DEFINE c == Page(a) \in {12, 13} /\ a % 4 = 1
           e == Page(a) \in {12, 13} /\ a % 4 = 0
<1>1. c \in BOOLEAN /\ e \in BOOLEAN
  OBVIOUS
<1>2. Write004(i, j, c, e)
  BY Irq048Told
<1>3. (Starts(48, a, d) <=> c) /\ (~c /\ e => Reloads(48, a))
  BY StartsWhich
<1> HIDE DEF c, e
<1> QED
  BY <1>1, <1>2, <1>3, WaitsWhich, KeepsA12

LEMMA Keeps091 ==
  ASSUME NEW i \in Counters, NEW a \in Nat, NEW d \in Nat, NEW t \in Int, NEW f \in BOOLEAN,
         NEW j, j = Irq091(i, a, d)
  PROVE  WriteKeeps(91, i, j, a, d, t, f)
<1> DEFINE c == Page(a) = 7 /\ a % 4 = 3
<1>0. PICK e \in BOOLEAN : e = FALSE
  OBVIOUS
<1>1. c \in BOOLEAN /\ (~c /\ e => Reloads(91, a))
  BY <1>0
<1>2. Write004(i, j, c, e)
  BY <1>0, Irq091Told
<1>3. Starts(91, a, d) <=> c
  BY StartsWhich, ZenonT(60)
<1>4. CountsAsMMC3(91) /\ Bounded(91, j) /\ AfterStart(91, j) = j.reload + 1
  BY WaitsWhich
<1> HIDE DEF c
<1> QED
  BY <1>1, <1>2, <1>3, <1>4, KeepsA12

LEMMA Keeps064 ==
  ASSUME NEW i \in Counters, i.prescaler \in 0..3, NEW a \in Nat,
         NEW d \in Nat, NEW t \in Int, NEW f \in BOOLEAN, NEW j, j = Irq064(i, a, d)
  PROVE  WriteKeeps(64, i, j, a, d, t, f)
<1> DEFINE c == Page(a) \in {12, 13} /\ Odd(a)
           e == Page(a) \in {12, 13} /\ Even(a)
<1>1. /\ Told(i, j)
      /\ c => j.reloadFlag /\ j.prescaler = 0
      /\ ~c => Write004(i, j, FALSE, e)
  BY Irq064Told
<1>2. j \in Counters
  BY <1>1 DEF Told
<1>3. i.counter \in Nat /\ i.reload \in Nat /\ j.counter \in Nat /\ j.reload \in Nat
  BY <1>2 DEF Counters
<1>4. (Starts(64, a, d) <=> c) /\ (e => Reloads(64, a))
  BY StartsWhich, Zenon
<1>5. AfterStart(64, j) = (j.reload + 2) * (IF j.mode THEN 4 ELSE 1)
  BY DEF AfterStart, MMC3Boards, Scale
<1>6. ~c => /\ (j.reloadFlag <=> i.reloadFlag) /\ j.counter = i.counter
            /\ j.prescaler = i.prescaler /\ (j.mode <=> i.mode)
            /\ ~e => j.reload = i.reload
  BY <1>1 DEF Write004, SameMode
<1>7. Bounded(64, j)
  BY <1>1, <1>6 DEF Bounded
<1>8. ASSUME c PROVE Waits064(j, (j.reload + 2) * (IF j.mode THEN 4 ELSE 1), TRUE)
  BY <1>1, <1>3, <1>8 DEF Waits064, Ticks064, Taken064, Never
<1>9. ASSUME ~c, ~Upsets(64, a, t, f), Waits064(i, t, f) PROVE Waits064(j, t, f)
  <2> HIDE DEF c, e
  <2>1. CASE e
    <3>1. ~f /\ t # Never
      BY <1>4, <1>9, <2>1 DEF Upsets
    <3>2. Counting004(i)
      BY <1>9, <3>1 DEF Waits064
    <3> QED
      BY <1>3, <1>6, <1>9, <3>1, <3>2 DEF Waits064, Counting004, Ticks064
  <2>2. CASE ~e
    BY <1>3, <1>6, <1>9, <2>2 DEF Waits064, Counting004, Ticks064, Taken064, Idle004
  <2> QED
    BY <2>1, <2>2
<1>10. \A x, y, z : Waits(64, x, y, z) <=> Waits064(x, y, z)
  BY DEF Waits, MMC3Boards
<1> HIDE DEF c, e
<1>11. Starts(64, a, d) => Waits(64, j, AfterStart(64, j), TRUE)
  BY <1>4, <1>5, <1>8, <1>10
<1>12. ~Starts(64, a, d) /\ ~Upsets(64, a, t, f) /\ Waits(64, i, t, f) => Waits(64, j, t, f)
  BY <1>4, <1>9, <1>10
<1>13. AfterStart(64, j) \in Int
  BY <1>3, <1>5
<1> QED
  BY <1>1, <1>7, <1>11, <1>12, <1>13 DEF WriteKeeps

LEMMA Keeps065 ==
  ASSUME NEW i \in Counters, NEW a \in Nat, NEW d \in Nat, d <= 255,
         NEW t \in Int, NEW f \in BOOLEAN, NEW j, j = Irq065(i, a, d)
  PROVE  WriteKeeps(65, i, j, a, d, t, f)
<1>1. WriteCpu(i, j, a = \h9004)
  BY Irq065Told
<1>2. Told(i, j)
  BY <1>1 DEF WriteCpu
<1>3. j.counter \in Nat
  BY <1>2 DEF Told, Counters
<1>4. AfterStart(65, j) = IF j.counter = 0 THEN Never ELSE j.counter
  BY DEF AfterStart, MMC3Boards
<1>5. Bounded(65, j)
  BY DEF Bounded
<1>6. Starts(65, a, d) <=> a = \h9004
  BY DEF Starts, MMC3Boards
<1>7. Waits065(j, AfterStart(65, j)) /\ AfterStart(65, j) \in Int
  BY <1>3, <1>4 DEF Waits065, Never
<1>8. a # \h9004 => (Waits065(i, t) <=> Waits065(j, t))
  BY <1>1 DEF WriteCpu, Waits065
<1>9. Waits(65, j, AfterStart(65, j), TRUE)
  BY <1>7 DEF Waits, MMC3Boards
<1>10. ~Starts(65, a, d) /\ Waits(65, i, t, f) => Waits(65, j, t, f)
  BY <1>6, <1>8 DEF Waits, MMC3Boards
<1>11. Starts(65, a, d) => Waits(65, j, AfterStart(65, j), TRUE)
  BY <1>9, Zenon
<1>12. ~Starts(65, a, d) /\ (j.mode <=> i.mode) /\ ~Upsets(65, a, t, f) /\ Waits(65, i, t, f)
         => Waits(65, j, t, f)
  BY <1>10, Zenon
<1> QED
  BY <1>2, <1>5, <1>7, <1>11, <1>12, Zenon DEF WriteKeeps

LEMMA Keeps067 ==
  ASSUME NEW i \in Counters, NEW a \in Nat, NEW d \in Nat, d <= 255,
         NEW t \in Int, NEW f \in BOOLEAN, NEW j, j = Irq067(i, a, d)
  PROVE  WriteKeeps(67, i, j, a, d, t, f)
<1> DEFINE c == Page(a) = 12 /\ Bit(a, 11) = 1
<1>1. WriteCpu(i, j, c)
  BY Irq067Told
<1>2. Told(i, j) /\ (~c => j.counter = i.counter)
  BY <1>1 DEF WriteCpu
<1>3. j.counter \in Nat
  BY <1>2 DEF Told, Counters
<1>4. AfterStart(67, j) = j.counter + 1
  BY DEF AfterStart, MMC3Boards
<1>5. Bounded(67, j)
  BY DEF Bounded
<1>6. Starts(67, a, d) <=> c
  BY DEF Starts, MMC3Boards
<1> HIDE DEF c
<1>7. Waits067(j, AfterStart(67, j)) /\ AfterStart(67, j) \in Int
  BY <1>3, <1>4 DEF Waits067
<1>8. ~c => (Waits067(i, t) <=> Waits067(j, t))
  BY <1>2 DEF Waits067
<1>9. Waits(67, j, AfterStart(67, j), TRUE)
  BY <1>7 DEF Waits, MMC3Boards
<1>10. ~Starts(67, a, d) /\ Waits(67, i, t, f) => Waits(67, j, t, f)
  BY <1>6, <1>8 DEF Waits, MMC3Boards
<1> QED
  BY <1>2, <1>5, <1>7, <1>9, <1>10 DEF WriteKeeps

LEMMA Keeps069 ==
  ASSUME NEW i \in Counters, Bounded(69, i), NEW a \in Nat, NEW d \in Nat, d <= 255,
         NEW t \in Int, NEW f \in BOOLEAN, NEW j, j = Irq069(i, r.command, a, d)
  PROVE  WriteKeeps(69, i, j, a, d, t, f)
<1> DEFINE c == Page(a) \in {10, 11} /\ r.command \in {14, 15}
<1>1. WriteCpu(i, j, c) /\ j.counter <= 65535
  BY Irq069Told DEF Bounded
<1>2. Told(i, j) /\ (~c => j.counter = i.counter)
  BY <1>1 DEF WriteCpu
<1>3. j.counter \in Nat
  BY <1>2 DEF Told, Counters
<1>4. AfterStart(69, j) = j.counter + 1
  BY DEF AfterStart, MMC3Boards
<1>5. Bounded(69, j)
  BY <1>1 DEF Bounded
<1>6. Starts(69, a, d) <=> c
  BY DEF Starts, MMC3Boards
<1> HIDE DEF c
<1>7. Waits067(j, AfterStart(69, j)) /\ AfterStart(69, j) \in Int
  BY <1>3, <1>4 DEF Waits067
<1>8. ~c => (Waits067(i, t) <=> Waits067(j, t))
  BY <1>2 DEF Waits067
<1>9. Waits(69, j, AfterStart(69, j), TRUE)
  BY <1>7 DEF Waits, MMC3Boards
<1>10. ~Starts(69, a, d) /\ Waits(69, i, t, f) => Waits(69, j, t, f)
  BY <1>6, <1>8 DEF Waits, MMC3Boards
<1>11. Starts(69, a, d) => Waits(69, j, AfterStart(69, j), TRUE)
  BY <1>9, Zenon
<1>12. ~Starts(69, a, d) /\ (j.mode <=> i.mode) /\ ~Upsets(69, a, t, f) /\ Waits(69, i, t, f)
         => Waits(69, j, t, f)
  BY <1>10, Zenon
<1> QED
  BY <1>2, <1>5, <1>7, <1>11, <1>12, Zenon DEF WriteKeeps

LEMMA Keeps073 ==
  ASSUME NEW i \in Counters, Bounded(73, i),
         NEW a \in Nat, NEW d \in Nat, d <= 255,
         NEW t \in Int, NEW f \in BOOLEAN, NEW j, j = Irq073(i, a, d)
  PROVE  WriteKeeps(73, i, j, a, d, t, f)
<1> DEFINE c == Page(a) = 12 /\ Bit(d, 1) = 1
<1>1. WriteCpu(i, j, c) /\ (c => j.counter = j.reload) /\ j.reload <= 65535
  BY Irq073Told DEF Bounded
<1>2. Told(i, j) /\ (~c => j.counter = i.counter)
  BY <1>1 DEF WriteCpu
<1>3. j.counter \in Nat /\ j.reload \in Nat
  BY <1>2 DEF Told, Counters
<1>4. AfterStart(73, j) = IF j.mode THEN 256 - (j.reload % 256) ELSE 65536 - j.reload
  BY DEF AfterStart, MMC3Boards
<1>6. Starts(73, a, d) <=> c
  BY DEF Starts, MMC3Boards
<1> HIDE DEF c
<1>5. Bounded(73, j)
  BY <1>1, <1>2, <1>3 DEF Bounded
<1>7. AfterStart(73, j) \in Int /\ (c => Waits073(j, AfterStart(73, j)))
  BY <1>1, <1>3, <1>4 DEF Waits073, Low073, Top073
<1>8. ~c /\ (j.mode <=> i.mode) => (Waits073(i, t) <=> Waits073(j, t))
  BY <1>2 DEF Waits073, Low073, Top073
<1>9. c => Waits(73, j, AfterStart(73, j), TRUE)
  BY <1>7 DEF Waits, MMC3Boards
<1>10. ~Starts(73, a, d) /\ (j.mode <=> i.mode) /\ Waits(73, i, t, f) => Waits(73, j, t, f)
  BY <1>6, <1>8 DEF Waits, MMC3Boards
<1>11. Starts(73, a, d) => Waits(73, j, AfterStart(73, j), TRUE)
  BY <1>6, <1>9, Zenon
<1>12. ~Starts(73, a, d) /\ (j.mode <=> i.mode) /\ ~Upsets(73, a, t, f) /\ Waits(73, i, t, f)
         => Waits(73, j, t, f)
  BY <1>10, Zenon
<1> QED
  BY <1>2, <1>5, <1>7, <1>11, <1>12, Zenon DEF WriteKeeps

LEMMA Keeps024 ==
  ASSUME NEW b, b = 24 \/ b = 26, NEW i \in Counters,
         i.counter <= 255, i.reload <= 255, i.prescaler > 0,
         NEW a \in Nat, NEW d \in Nat, d <= 255,
         NEW t \in Int, NEW f \in BOOLEAN, NEW j, j = Irq024(i, Canon(b, a), d)
  PROVE  WriteKeeps(b, i, j, a, d, t, f)
<1>0. ScanlineDots \in Nat /\ ScanlineDots >= 3
  BY DotsAssumption
<1> DEFINE c == Canon(b, a) = \hF001 /\ Bit(d, 1) = 1
<1>1. /\ WriteCpu(i, j, c) /\ (c => j.counter = j.reload /\ j.prescaler = ScanlineDots)
      /\ j.reload <= 255 /\ j.counter <= 255
  BY <1>0, Irq024Told
<1>2. Told(i, j) /\ (~c => j.counter = i.counter /\ j.prescaler = i.prescaler)
  BY <1>1 DEF WriteCpu
<1>3. j.counter \in Nat /\ j.reload \in Nat
  BY <1>2 DEF Told, Counters
<1>4. AfterStart(b, j) = (256 - j.reload) * (IF j.mode THEN 1 ELSE ScanlineDots)
  BY DEF AfterStart, MMC3Boards, Scale
<1>6. Starts(b, a, d) <=> c
  <2>1. CASE b = 24
    BY <2>1 DEF Starts, MMC3Boards
  <2>2. CASE b = 26
    BY <2>2 DEF Starts, MMC3Boards
  <2> QED
    BY <2>1, <2>2
<1> HIDE DEF c
<1>5. Bounded(b, j)
  BY <1>0, <1>1, <1>2 DEF Bounded
<1>7. AfterStart(b, j) \in Int
  BY <1>0, <1>3, <1>4
<1>8. c => Waits024(j, AfterStart(b, j))
  <2>1. PICK l \in Nat : l = 255 - j.reload
    BY <1>1, <1>3
  <2>2. (l + 1) * ScanlineDots = l * ScanlineDots + ScanlineDots
    BY <1>0, <2>1, Scanlines
  <2>3. 256 - j.reload = l + 1
    BY <1>3, <2>1
  <2> QED
    BY <1>1, <1>3, <1>4, <2>1, <2>2, <2>3 DEF Waits024
<1>9. ~c /\ (j.mode <=> i.mode) => (Waits024(i, t) <=> Waits024(j, t))
  BY <1>2 DEF Waits024
<1>10. c => Waits(b, j, AfterStart(b, j), TRUE)
  <2>1. CASE b = 24
    BY <1>8, <2>1 DEF Waits, MMC3Boards
  <2>2. CASE b = 26
    BY <1>8, <2>2 DEF Waits, MMC3Boards
  <2> QED
    BY <2>1, <2>2
<1>11. ~Starts(b, a, d) /\ (j.mode <=> i.mode) /\ Waits(b, i, t, f) => Waits(b, j, t, f)
  BY <1>6, <1>9 DEF Waits, MMC3Boards
<1> QED
  BY <1>2, <1>5, <1>6, <1>7, <1>10, <1>11 DEF WriteKeeps

(* Every board's write.                                                    *)
LEMMA KeepsEach ==
  ASSUME NEW b \in IrqBoards, NEW i \in Counters, Bounded(b, i), NEW a \in Nat,
         NEW d \in Nat, d <= 255, NEW t \in Int, NEW f \in BOOLEAN,
         NEW j, j = IrqWritten(b, IF b = 69 THEN r.command ELSE 0, i, a, d)
  PROVE  WriteKeeps(b, i, j, a, d, t, f)
<1>1. CASE b \in (MMC3Boards \ {182}) \cup {189, 245}
  <2>1. j = Irq004(i, a, d)
    BY <1>1 DEF IrqWritten, MMC3Boards
  <2> QED
    BY <1>1, <2>1, Keeps004
<1>2. CASE b = 182
  <2>1. j = Irq182(i, a, d)
    BY <1>2 DEF IrqWritten, MMC3Boards
  <2> QED
    BY <1>2, <2>1, Keeps182
<1>3. CASE b = 48
  <2>1. j = Irq048(i, a, d)
    BY <1>3 DEF IrqWritten, MMC3Boards
  <2> QED
    BY <1>3, <2>1, Keeps048
<1>4. CASE b = 64
  <2>1. j = Irq064(i, a, d) /\ i.prescaler \in 0..3
    BY <1>4 DEF IrqWritten, MMC3Boards, Bounded
  <2> QED
    BY <1>4, <2>1, Keeps064
<1>5. CASE b = 65
  <2>1. j = Irq065(i, a, d)
    BY <1>5 DEF IrqWritten, MMC3Boards
  <2> QED
    BY <1>5, <2>1, Keeps065
<1>6. CASE b = 67
  <2>1. j = Irq067(i, a, d)
    BY <1>6 DEF IrqWritten, MMC3Boards
  <2> QED
    BY <1>6, <2>1, Keeps067
<1>7. CASE b = 69
  <2>1. j = Irq069(i, r.command, a, d) /\ Bounded(69, i)
    BY <1>7 DEF IrqWritten, MMC3Boards
  <2> QED
    BY <1>7, <2>1, Keeps069
<1>8. CASE b = 73
  <2>1. j = Irq073(i, a, d) /\ Bounded(73, i)
    BY <1>8 DEF IrqWritten, MMC3Boards
  <2> QED
    BY <1>8, <2>1, Keeps073
<1>9. CASE b = 91
  <2>1. j = Irq091(i, a, d)
    BY <1>9 DEF IrqWritten, MMC3Boards
  <2> QED
    BY <1>9, <2>1, Keeps091
<1>10. CASE b = 24 \/ b = 26
  <2>1. j = Irq024(i, Canon(b, a), d)
    BY <1>10 DEF IrqWritten, MMC3Boards
  <2>2. i.counter <= 255 /\ i.reload <= 255 /\ i.prescaler > 0
    BY <1>10 DEF Bounded
  <2> QED
    BY <1>10, <2>1, <2>2, Keeps024
<1>11. \/ b \in (MMC3Boards \ {182}) \cup {189, 245}
       \/ b \in {182, 48, 64, 65, 67, 69, 73, 91} \/ b = 24 \/ b = 26
  BY DEF IrqBoards, A12Boards, CpuBoards
<1> QED
  BY <1>1, <1>2, <1>3, <1>4, <1>5, <1>6, <1>7, <1>8, <1>9, <1>10, <1>11

-----------------------------------------------------------------------------
(* A clock of the counter of board b, i before it and j after: AlarmClocked*)
(* takes t and f to t2 and f2.                                             *)
Elapses(b, i, j, t, f, t2, f2) ==
  IF t > 0 /\ t <= Cost(b, i)
  THEN /\ t2 = IF AfterExpiry(b, j) = Never THEN Never ELSE t - Cost(b, i) + AfterExpiry(b, j)
       /\ f2 <=> TRUE
  ELSE /\ t2 = IF t > 0 THEN t - Cost(b, i) ELSE t
       /\ f2 <=> (f /\ b = 64 /\ i.mode /\ (t - 1) % 4 # 0)
FiresOn(b, i, j, t) ==
  j.line.target <=> i.line.target \/ (t > 0 /\ t <= Cost(b, i) /\ i.enable)

(* Where a clock costs one, the alarm passes by one.                       *)
LEMMA ElapsesOne ==
  ASSUME NEW b, b \notin {24, 26}, NEW i, NEW j, NEW t \in Int, NEW f, NEW t2, NEW f2,
         AfterExpiry(b, j) \in Int, Elapses(b, i, j, t, f, t2, f2)
  PROVE  /\ Passes(t, t2, f2, AfterExpiry(b, j))
         /\ t # 1 => (f2 <=> (f /\ b = 64 /\ i.mode /\ (t - 1) % 4 # 0))
         /\ t2 \in Int
         /\ (j.line.target <=> i.line.target \/ (t = 1 /\ i.enable)) => FiresOn(b, i, j, t)
<1>1. Cost(b, i) = 1
  BY DEF Cost
<1>2. t > 0 /\ t <= 1 <=> t = 1
  OBVIOUS
<1>3. CASE t = 1
  <2>1. f2 /\ t2 = IF AfterExpiry(b, j) = Never THEN Never ELSE t - 1 + AfterExpiry(b, j)
    BY <1>1, <1>3 DEF Elapses
  <2> QED
    BY <1>1, <1>2, <1>3, <2>1 DEF Passes, FiresOn
<1>4. CASE t # 1
  <2>1. /\ t2 = IF t > 0 THEN t - 1 ELSE t
        /\ f2 <=> (f /\ b = 64 /\ i.mode /\ (t - 1) % 4 # 0)
    BY <1>1, <1>2, <1>4 DEF Elapses
  <2> QED
    BY <1>1, <1>2, <1>4, <2>1 DEF Passes, FiresOn
<1> QED
  BY <1>3, <1>4

(* The line when A12 rises: the boards of MMC3's family.                   *)
LEMMA A12Arrives ==
  ASSUME NEW b \in A12Boards, NEW i \in Counters, Wanted(i), Bounded(b, i), ~(b = 64 /\ i.mode),
         NEW j, j = A12Ticked(b, i)
  PROVE  Arrives(i, j) /\ Bounded(b, j)
<1>1. CASE b \in MMC3Boards
  <2>1. j = Ticked004(i)
    BY <1>1 DEF A12Ticked, MMC3Boards
  <2>2. Bounded(b, j)
    BY <1>1, WaitsWhich
  <2> QED
    BY <2>1, <2>2, Ticked004Step
<1>2. CASE b \in {48, 91, 189, 245}
  <2>1. j = TickedB(i)
    BY <1>2 DEF A12Ticked, MMC3Boards
  <2>2. Bounded(b, j)
    BY <1>2, WaitsWhich
  <2> QED
    BY <2>1, <2>2, TickedBStep
<1>3. CASE b = 64
  <2>1. j = Ticked064(i)
    BY <1>3 DEF A12Ticked, MMC3Boards
  <2>2. Arrives(i, j) /\ j.prescaler = i.prescaler
    BY <2>1, Ticked064Step
  <2>3. Bounded(b, j)
    BY <1>3, <2>2 DEF Bounded
  <2> QED
    BY <2>2, <2>3
<1> QED
  BY <1>1, <1>2, <1>3 DEF A12Boards

(* A12's rise keeps every board's alarm right, and fires it on time.       *)
LEMMA A12Waits ==
  ASSUME NEW b \in A12Boards, NEW i \in Counters, Wanted(i), Bounded(b, i), ~(b = 64 /\ i.mode),
         NEW j, j = A12Ticked(b, i), NEW t \in Int, NEW f, Waits(b, i, t, f),
         NEW t2, NEW f2, Elapses(b, i, j, t, f, t2, f2)
  PROVE  FiresOn(b, i, j, t) /\ Waits(b, j, t2, f2) /\ t2 \in Int
<1>0. j.reload \in Nat
  BY A12Arrives DEF Arrives, Counters
<1>1. CASE b \in MMC3Boards
  <2>1. j = Ticked004(i) /\ Waits004(i, t, f)
    BY <1>1 DEF A12Ticked, Waits, MMC3Boards
  <2>2. AfterExpiry(b, j) = (IF j.reload = 0 THEN Never ELSE j.reload + 1)
    BY <1>0, <1>1 DEF AfterExpiry, Scale, MMC3Boards
  <2>3. AfterExpiry(b, j) \in Int /\ b \notin {24, 26}
    BY <1>0, <1>1, <2>2 DEF Never, MMC3Boards
  <2>4. Passes(t, t2, f2, IF j.reload = 0 THEN Never ELSE j.reload + 1) /\ t2 \in Int
    BY <2>2, <2>3, ElapsesOne
  <2>5. /\ j.line.target <=> i.line.target \/ (t = 1 /\ i.enable)
        /\ Waits004(j, t2, f2)
    BY <2>1, <2>4, Waits004Step
  <2>6. FiresOn(b, i, j, t)
    BY <2>3, <2>5, ElapsesOne
  <2>7. Waits(b, j, t2, f2)
    BY <1>1, <2>5 DEF Waits, MMC3Boards
  <2> QED
    BY <2>4, <2>6, <2>7
<1>2. CASE b \in {48, 91, 189, 245}
  <2>1. j = TickedB(i) /\ WaitsB(i, t, f)
    BY <1>2 DEF A12Ticked, MMC3Boards, Waits
  <2>2. AfterExpiry(b, j) = j.reload + 1
    BY <1>0, <1>2 DEF AfterExpiry, AfterStart, MMC3Boards
  <2>3. AfterExpiry(b, j) \in Int /\ b \notin {24, 26}
    BY <1>0, <1>2, <2>2
  <2>4. Passes(t, t2, f2, j.reload + 1) /\ t2 \in Int
    BY <2>2, <2>3, ElapsesOne
  <2>5. /\ j.line.target <=> i.line.target \/ (t = 1 /\ i.enable)
        /\ WaitsB(j, t2, f2)
    BY <2>1, <2>4, WaitsBStep
  <2>6. FiresOn(b, i, j, t)
    BY <2>3, <2>5, ElapsesOne
  <2>7. Waits(b, j, t2, f2)
    BY <1>2, <2>5 DEF Waits, MMC3Boards
  <2> QED
    BY <2>4, <2>6, <2>7
<1>3. CASE b = 64
  <2>1. j = Ticked064(i) /\ Waits064(i, t, f) /\ ~i.mode
    BY <1>3 DEF A12Ticked, MMC3Boards, Waits
  <2>2. ~j.mode
    <3>1. j.mode = i.mode
      BY <2>1, Ticked064Step
    <3> QED
      BY <2>1, <3>1, Zenon
  <2>3. AfterExpiry(b, j) = (IF j.reload = 0 THEN Never ELSE j.reload + 1)
    BY <1>0, <1>3, <2>2 DEF AfterExpiry, Scale, MMC3Boards
  <2>4. AfterExpiry(b, j) \in Int /\ b \notin {24, 26}
    BY <1>0, <1>3, <2>3 DEF Never
  <2>5. Passes(t, t2, f2, IF j.reload = 0 THEN Never ELSE j.reload + 1) /\ t2 \in Int
    BY <2>3, <2>4, ElapsesOne
  <2>6. /\ j.line.target <=> i.line.target \/ (t = 1 /\ i.enable)
        /\ Waits064(j, t2, f2)
    BY <2>1, <2>5, Waits064Step
  <2>7. FiresOn(b, i, j, t)
    BY <2>4, <2>6, ElapsesOne
  <2>8. Waits(b, j, t2, f2)
    BY <1>3, <2>6 DEF Waits, MMC3Boards
  <2> QED
    BY <2>5, <2>7, <2>8
<1> QED
  BY <1>1, <1>2, <1>3 DEF A12Boards

(* The processor's clock.  A counter that does not run stays as it is.     *)
Counting(b, i) == CASE b = 69 -> i.counting [] b = 64 -> i.mode [] OTHER -> i.enable

(* Which of the counters a processor clock moves.                          *)
LEMMA CpuTickedWhich ==
  ASSUME NEW i
  PROVE  /\ CpuTicked(64, i) = CpuTicked064(i) /\ CpuTicked(65, i) = Ticked065(i)
         /\ CpuTicked(67, i) = Ticked067(i) /\ CpuTicked(69, i) = Ticked069(i)
         /\ CpuTicked(73, i) = Ticked073(i)
         /\ CpuTicked(24, i) = Ticked024(i) /\ CpuTicked(26, i) = Ticked024(i)
BY DEF CpuTicked

(* A processor clock: types and the wanted line, a counter that does not   *)
(* run, the bounds, and the alarm.                                         *)
LEMMA CpuArrives ==
  ASSUME NEW b \in CpuBoards, NEW i \in Counters, Wanted(i), Bounded(b, i),
         NEW j, j = CpuTicked(b, i)
  PROVE  Arrives(i, j)
<1>1. CASE b = 64
  <2>1. j = CpuTicked064(i) /\ i.prescaler \in 0..3
    BY <1>1, CpuTickedWhich DEF Bounded
  <2>2. CASE i.mode
    BY <2>1, <2>2, CpuTicked064Step
  <2>3. CASE ~i.mode
    <3>1. j = i
      BY <2>1, <2>3 DEF CpuTicked064
    <3> QED
      BY <3>1, Stays
  <2> QED
    BY <2>2, <2>3
<1>2. CASE b = 65
  <2>1. j = Ticked065(i)
    BY <1>2, CpuTickedWhich
  <2> QED
    BY <2>1, Ticked065Step
<1>3. CASE b = 67
  <2>1. j = Ticked067(i)
    BY <1>3, CpuTickedWhich
  <2> QED
    BY <2>1, Ticked067Step
<1>4. CASE b = 69
  <2>1. j = Ticked069(i) /\ i.counter <= 65535
    BY <1>4, CpuTickedWhich DEF Bounded
  <2> QED
    BY <2>1, Ticked069Step
<1>5. CASE b = 73
  <2>1. j = Ticked073(i) /\ i.counter <= 65535 /\ i.reload <= 65535
    BY <1>5, CpuTickedWhich DEF Bounded
  <2> QED
    BY <2>1, Ticked073Step
<1>6. CASE b = 24 \/ b = 26
  <2>1. j = Ticked024(i)
    BY <1>6, CpuTickedWhich
  <2> QED
    BY <2>1, Ticked024Step, DotsAssumption
<1> QED
  BY <1>1, <1>2, <1>3, <1>4, <1>5, <1>6 DEF CpuBoards

LEMMA CpuStill ==
  ASSUME NEW b \in CpuBoards, NEW i \in Counters, ~Counting(b, i)
  PROVE  CpuTicked(b, i) = i
<1>1. CASE b = 64
  <2>1. ~i.mode
    BY <1>1 DEF Counting
  <2>2. CpuTicked064(i) = i
    BY <2>1 DEF CpuTicked064
  <2> QED
    BY <1>1, <2>2, CpuTickedWhich
<1>2. CASE b = 65
  BY <1>2, CpuTickedWhich DEF Counting, Ticked065
<1>3. CASE b = 67
  <2>1. ~i.enable
    BY <1>3 DEF Counting
  <2>2. Ticked067(i) = i
    BY <2>1 DEF Ticked067
  <2> QED
    BY <1>3, <2>2, CpuTickedWhich
<1>4. CASE b = 69
  BY <1>4, CpuTickedWhich DEF Counting, Ticked069
<1>5. CASE b = 73
  BY <1>5, CpuTickedWhich DEF Counting, Ticked073
<1>6. CASE b = 24
  BY <1>6, CpuTickedWhich DEF Counting, Ticked024
<1>7. CASE b = 26
  BY <1>7, CpuTickedWhich DEF Counting, Ticked024
<1> QED
  BY <1>1, <1>2, <1>3, <1>4, <1>5, <1>6, <1>7 DEF CpuBoards

LEMMA CpuBounded ==
  ASSUME NEW b \in CpuBoards, NEW i \in Counters, Wanted(i), Bounded(b, i),
         NEW j, j = CpuTicked(b, i)
  PROVE  Bounded(b, j)
<1>0. CASE ~Counting(b, i)
  BY <1>0, CpuStill
<1>1. CASE Counting(b, i) /\ b = 64
  <2>1. j = CpuTicked064(i) /\ i.prescaler \in 0..3 /\ i.mode
    BY <1>1, CpuTickedWhich DEF Bounded, Counting
  <2>2. /\ i.prescaler < 3 => j.prescaler = i.prescaler + 1
        /\ i.prescaler = 3 => j.prescaler = 0
    BY <2>1, CpuTicked064Step
  <2>3. j.prescaler \in 0..3
    BY <2>1, <2>2
  <2> QED
    BY <1>1, <2>3 DEF Bounded
<1>2. CASE b \in {65, 67}
  BY <1>2 DEF Bounded
<1>3. CASE b = 69
  <2>1. j = Ticked069(i) /\ i.counter <= 65535
    BY <1>3, CpuTickedWhich DEF Bounded
  <2>2. j.counter <= 65535
    BY <2>1, Ticked069Step
  <2> QED
    BY <1>3, <2>2 DEF Bounded
<1>4. CASE b = 73
  <2>1. j = Ticked073(i) /\ i.counter <= 65535 /\ i.reload <= 65535
    BY <1>4, CpuTickedWhich DEF Bounded
  <2>2. j.counter <= 65535 /\ j.reload = i.reload
    BY <2>1, Ticked073Step
  <2> QED
    BY <1>4, <2>1, <2>2 DEF Bounded
<1>5. CASE Counting(b, i) /\ (b = 24 \/ b = 26)
  <2>1. /\ j = Ticked024(i) /\ i.enable
        /\ i.counter <= 255 /\ i.reload <= 255 /\ i.prescaler > 0
    BY <1>5, CpuTickedWhich DEF Bounded, Counting
  <2>2. /\ j.reload = i.reload
        /\ i.mode => /\ j.prescaler = i.prescaler
                     /\ j.counter = IF i.counter = 255 THEN i.reload ELSE i.counter + 1
        /\ ~i.mode /\ i.prescaler > 3 =>
             j.prescaler = i.prescaler - 3 /\ j.counter = i.counter
        /\ ~i.mode /\ i.prescaler <= 3 =>
             /\ j.prescaler = i.prescaler - 3 + ScanlineDots
             /\ j.counter = IF i.counter = 255 THEN i.reload ELSE i.counter + 1
    BY <2>1, Ticked024Step, DotsAssumption
  <2>3. i.counter \in Nat /\ i.reload \in Nat /\ i.prescaler \in Int
    BY DEF Counters
  <2>4. j.counter <= 255 /\ j.reload <= 255 /\ j.prescaler > 0
    BY <2>1, <2>2, <2>3, DotsAssumption
  <2> QED
    BY <1>5, <2>4 DEF Bounded
<1> QED
  BY <1>0, <1>1, <1>2, <1>3, <1>4, <1>5 DEF CpuBoards

LEMMA CpuWaits ==
  ASSUME NEW b \in CpuBoards, NEW i \in Counters, Wanted(i), Bounded(b, i), Counting(b, i),
         NEW j, j = CpuTicked(b, i), NEW t \in Int, NEW f, Waits(b, i, t, f),
         NEW t2, NEW f2, Elapses(b, i, j, t, f, t2, f2)
  PROVE  FiresOn(b, i, j, t) /\ Waits(b, j, t2, f2) /\ t2 \in Int
<1>0. j.reload \in Nat
  BY CpuArrives DEF Arrives, Counters
<1>1. CASE b = 64
  <2>1. j = CpuTicked064(i) /\ Waits064(i, t, f) /\ i.mode /\ i.prescaler \in 0..3
    BY <1>1, CpuTickedWhich DEF Waits, Counting, Bounded
  <2>2. j.mode
    <3>1. j.mode = i.mode
      BY <2>1, CpuTicked064Step
    <3> QED
      BY <2>1, <3>1, Zenon
  <2>3. AfterExpiry(b, j) = (IF j.reload = 0 THEN Never ELSE 4 * (j.reload + 1))
    BY <1>0, <1>1, <2>2 DEF AfterExpiry, Scale, MMC3Boards
  <2>4. AfterExpiry(b, j) \in Int /\ b \notin {24, 26}
    BY <1>0, <1>1, <2>3 DEF Never
  <2>5. /\ Passes(t, t2, f2, IF j.reload = 0 THEN Never ELSE 4 * (j.reload + 1)) /\ t2 \in Int
        /\ t # 1 => (f2 <=> f /\ (t - 1) % 4 # 0)
    <3>1. /\ Passes(t, t2, f2, AfterExpiry(b, j)) /\ t2 \in Int
          /\ t # 1 => (f2 <=> (f /\ b = 64 /\ i.mode /\ (t - 1) % 4 # 0))
      BY <2>4, ElapsesOne
    <3> QED
      BY <1>1, <2>1, <2>3, <3>1
  <2>6. /\ j.line.target <=> i.line.target \/ (t = 1 /\ i.enable)
        /\ Waits064(j, t2, f2)
    BY <2>1, <2>5, WaitsCpu064Step
  <2>7. FiresOn(b, i, j, t)
    BY <2>4, <2>6, ElapsesOne
  <2>8. Waits(b, j, t2, f2)
    BY <1>1, <2>6 DEF Waits, MMC3Boards
  <2> QED
    BY <2>5, <2>7, <2>8
<1>2. CASE b = 65
  <2>1. j = Ticked065(i) /\ Waits065(i, t) /\ i.enable
    BY <1>2, CpuTickedWhich DEF Waits, Counting
  <2>2. AfterExpiry(b, j) = Never
    BY <1>2 DEF AfterExpiry, MMC3Boards
  <2>3. AfterExpiry(b, j) \in Int /\ b \notin {24, 26}
    BY <1>2, <2>2 DEF Never
  <2>4. Passes(t, t2, f2, Never) /\ t2 \in Int
    BY <2>2, <2>3, ElapsesOne
  <2>5. /\ j.line.target <=> i.line.target \/ (t = 1 /\ i.enable)
        /\ Waits065(j, t2)
    BY <2>1, <2>4, Waits065Step
  <2>6. FiresOn(b, i, j, t)
    BY <2>3, <2>5, ElapsesOne
  <2>7. Waits(b, j, t2, f2)
    BY <1>2, <2>5 DEF Waits, MMC3Boards
  <2> QED
    BY <2>4, <2>6, <2>7
<1>3. CASE b = 67
  <2>1. j = Ticked067(i) /\ Waits067(i, t) /\ i.enable
    BY <1>3, CpuTickedWhich DEF Waits, Counting
  <2>2. AfterExpiry(b, j) = 65536
    BY <1>3 DEF AfterExpiry, MMC3Boards
  <2>3. AfterExpiry(b, j) \in Int /\ b \notin {24, 26}
    BY <1>3, <2>2
  <2>4. Passes(t, t2, f2, 65536) /\ t2 \in Int
    BY <2>2, <2>3, ElapsesOne
  <2>5. /\ j.line.target <=> i.line.target \/ (t = 1 /\ i.enable)
        /\ Waits067(j, t2)
    BY <2>1, <2>4, Waits067Step
  <2>6. FiresOn(b, i, j, t)
    BY <2>3, <2>5, ElapsesOne
  <2>7. Waits(b, j, t2, f2)
    BY <1>3, <2>5 DEF Waits, MMC3Boards
  <2> QED
    BY <2>4, <2>6, <2>7
<1>4. CASE b = 69
  <2>1. j = Ticked069(i) /\ Waits067(i, t) /\ i.counting /\ i.counter <= 65535
    BY <1>4, CpuTickedWhich DEF Waits, Counting, Bounded
  <2>2. AfterExpiry(b, j) = 65536
    BY <1>4 DEF AfterExpiry, MMC3Boards
  <2>3. AfterExpiry(b, j) \in Int /\ b \notin {24, 26}
    BY <1>4, <2>2
  <2>4. Passes(t, t2, f2, 65536) /\ t2 \in Int
    BY <2>2, <2>3, ElapsesOne
  <2>5. /\ j.line.target <=> i.line.target \/ (t = 1 /\ i.enable)
        /\ Waits067(j, t2)
    BY <2>1, <2>4, Waits069Step
  <2>6. FiresOn(b, i, j, t)
    BY <2>3, <2>5, ElapsesOne
  <2>7. Waits(b, j, t2, f2)
    BY <1>4, <2>5 DEF Waits, MMC3Boards
  <2> QED
    BY <2>4, <2>6, <2>7
<1>5. CASE b = 73
  <2>1. /\ j = Ticked073(i) /\ Waits073(i, t) /\ i.enable
        /\ i.counter <= 65535 /\ i.reload <= 65535
    BY <1>5, CpuTickedWhich DEF Waits, Counting, Bounded
  <2>2. AfterExpiry(b, j) = (IF j.mode THEN 256 - (j.reload % 256) ELSE 65536 - j.reload)
    BY <1>5 DEF AfterExpiry, AfterStart, MMC3Boards
  <2>3. AfterExpiry(b, j) \in Int /\ b \notin {24, 26}
    BY <1>0, <1>5, <2>2
  <2>4. /\ Passes(t, t2, f2, IF j.mode THEN 256 - (j.reload % 256) ELSE 65536 - j.reload)
        /\ t2 \in Int
    BY <2>2, <2>3, ElapsesOne
  <2>5. /\ j.line.target <=> i.line.target \/ (t = 1 /\ i.enable)
        /\ Waits073(j, t2)
    BY <2>1, <2>4, Waits073Step
  <2>6. FiresOn(b, i, j, t)
    BY <2>3, <2>5, ElapsesOne
  <2>7. Waits(b, j, t2, f2)
    BY <1>5, <2>5 DEF Waits, MMC3Boards
  <2> QED
    BY <2>4, <2>6, <2>7
<1>6. CASE b = 24 \/ b = 26
  <2>0. b \notin MMC3Boards /\ b \notin {48, 91, 189, 245, 64, 65, 67, 69, 73} /\ b \in {24, 26}
    BY <1>6 DEF MMC3Boards
  <2>1. /\ j = Ticked024(i) /\ Waits024(i, t) /\ i.enable
        /\ i.counter <= 255 /\ i.reload <= 255 /\ i.prescaler > 0
    BY <1>6, <2>0, CpuTickedWhich DEF Waits, Counting, Bounded
  <2>2. AfterExpiry(b, j) = (256 - j.reload) * (IF j.mode THEN 1 ELSE ScanlineDots)
    BY <2>0 DEF AfterExpiry, AfterStart, Scale
  <2>3. PICK cost \in Nat : cost = IF i.mode THEN 1 ELSE 3
    OBVIOUS
  <2>4. Cost(b, i) = cost
    BY <2>0, <2>3 DEF Cost
  <2>5. j.reload <= 255 /\ ScanlineDots \in Nat /\ ScanlineDots >= 3
    <3>1. Bounded(b, j)
      BY CpuBounded
    <3> QED
      BY <2>0, <3>1, DotsAssumption DEF Bounded
  <2>6. AfterExpiry(b, j) \in Nat
    <3>1. 256 - j.reload \in Nat
      BY <1>0, <2>5
    <3>2. (256 - j.reload) * ScanlineDots \in Nat
      BY <2>5, <3>1, Scanlines
    <3> QED
      BY <2>2, <3>1, <3>2
  <2>7. t2 = IF t > 0 /\ t <= cost
             THEN t - cost + (256 - j.reload) * (IF j.mode THEN 1 ELSE ScanlineDots)
             ELSE IF t > 0 THEN t - cost ELSE t
    <3>1. AfterExpiry(b, j) # Never
      BY <2>6 DEF Never
    <3>2. t2 = IF t > 0 /\ t <= cost THEN t - cost + AfterExpiry(b, j)
               ELSE IF t > 0 THEN t - cost ELSE t
      BY <2>4, <3>1 DEF Elapses
    <3> QED
      BY <2>2, <3>2
  <2>8. t2 \in Int
    <3>1. PICK m \in Nat : m = AfterExpiry(b, j)
      BY <2>6
    <3> QED
      BY <2>2, <2>7, <3>1
  <2>9. /\ j.line.target <=> i.line.target \/ (t > 0 /\ t <= cost /\ i.enable)
        /\ Waits024(j, t2)
    BY <2>1, <2>3, <2>5, <2>7, Waits024Step
  <2>10. FiresOn(b, i, j, t)
    BY <2>4, <2>9 DEF FiresOn
  <2>11. Waits(b, j, t2, f2)
    BY <2>0, <2>9 DEF Waits
  <2> QED
    BY <2>8, <2>10, <2>11
<1> QED
  BY <1>1, <1>2, <1>3, <1>4, <1>5, <1>6 DEF CpuBoards

-----------------------------------------------------------------------------
(* The invariant: an interrupt on its way is wanted, the counter has the   *)
(* values of its board, and the alarm agrees with it.                      *)
TypeOK ==
  /\ cart \in Instances
  /\ irq \in Counters
  /\ due \in Int
  /\ fresh \in BOOLEAN
AlarmInv == due # Unknown => Waits(board, irq, due, fresh)
IInv == TypeOK /\ Wanted(irq) /\ Bounded(board, irq) /\ AlarmInv

(* A reset leaves no interrupt and a counter within its bounds.            *)
LEMMA ResetType ==
  ASSUME NEW b
  PROVE  /\ IrqReset(b) \in Counters /\ Wanted(IrqReset(b)) /\ Bounded(b, IrqReset(b))
         /\ ~IrqReset(b).line.current
<1> DEFINE p == PinOf(FALSE)
<1>1. p \in Lines /\ ~p.current /\ ~p.target
  BY LineLow
<1> HIDE DEF p
<1>2. IrqReset(b) =
        [line |-> p, enable |-> FALSE, onAck |-> FALSE, mode |-> FALSE, counting |-> FALSE,
         counter |-> 0, reload |-> IF b = 91 THEN 7 ELSE 0, reloadFlag |-> FALSE,
         highNext |-> TRUE, prescaler |-> IF b \in {24, 26} THEN ScanlineDots ELSE 0]
  BY DEF IrqReset, p
<1>3. IrqReset(b) \in Counters
  BY <1>1, <1>2, DotsAssumption DEF Counters
<1>4. IrqReset(b).line = p
  BY <1>2
<1>5. Bounded(b, IrqReset(b))
  BY <1>2, DotsAssumption DEF Bounded
<1> QED
  BY <1>1, <1>3, <1>4, <1>5 DEF Wanted

LEMMA Initially == Init => IInv
<1> SUFFICES ASSUME Init PROVE IInv
  OBVIOUS
<1>1. irq \in Counters /\ Wanted(irq) /\ Bounded(board, irq)
  BY ResetType DEF Init
<1>2. due = Unknown /\ due \in Int /\ cart \in Instances
  BY DEF Init, Unknown
<1>3. fresh \in BOOLEAN
  BY Zenon DEF Init
<1> QED
  BY <1>1, <1>2, <1>3 DEF IInv, TypeOK, AlarmInv

(* What is on the bus is a byte.                                           *)
LEMMA BitType ==
  ASSUME NEW d \in Nat, NEW p \in Nat, p > 0
  PROVE  (d \div p) % 2 \in {0, 1}
<1>1. d \div p \in Int
  OBVIOUS
<1> QED
  BY <1>1

LEMMA CommonType ==
  ASSUME NEW d \in Nat, NEW byte \in Nat
  PROVE  Common(d, byte) \in Nat /\ Common(d, byte) <= 255
<1>1. 2^0 = 1 /\ 2^1 = 2 /\ 2^2 = 4 /\ 2^3 = 8 /\ 2^4 = 16 /\ 2^5 = 32 /\ 2^6 = 64 /\ 2^7 = 128
  BY SMT
<1>2. \A p \in {1, 2, 4, 8, 16, 32, 64, 128} :
        ((d \div p) % 2) * ((byte \div p) % 2) \in {0, 1}
  <2> SUFFICES ASSUME NEW p \in {1, 2, 4, 8, 16, 32, 64, 128}
               PROVE  ((d \div p) % 2) * ((byte \div p) % 2) \in {0, 1}
    OBVIOUS
  <2>1. (d \div p) % 2 \in {0, 1} /\ (byte \div p) % 2 \in {0, 1}
    BY BitType
  <2> QED
    BY <2>1
<1>3. PICK v0 \in {0, 1} : v0 = ((d \div 1) % 2) * ((byte \div 1) % 2)
  BY <1>2
<1>4. PICK v1 \in {0, 1} : v1 = ((d \div 2) % 2) * ((byte \div 2) % 2)
  BY <1>2
<1>5. PICK v2 \in {0, 1} : v2 = ((d \div 4) % 2) * ((byte \div 4) % 2)
  BY <1>2
<1>6. PICK v3 \in {0, 1} : v3 = ((d \div 8) % 2) * ((byte \div 8) % 2)
  BY <1>2
<1>7. PICK v4 \in {0, 1} : v4 = ((d \div 16) % 2) * ((byte \div 16) % 2)
  BY <1>2
<1>8. PICK v5 \in {0, 1} : v5 = ((d \div 32) % 2) * ((byte \div 32) % 2)
  BY <1>2
<1>9. PICK v6 \in {0, 1} : v6 = ((d \div 64) % 2) * ((byte \div 64) % 2)
  BY <1>2
<1>10. PICK v7 \in {0, 1} : v7 = ((d \div 128) % 2) * ((byte \div 128) % 2)
  BY <1>2
<1>11. Common(d, byte) = v0 * 1 + v1 * 2 + v2 * 4 + v3 * 8 + v4 * 16 + v5 * 32 + v6 * 64 + v7 * 128
  BY <1>1, <1>3, <1>4, <1>5, <1>6, <1>7, <1>8, <1>9, <1>10 DEF Common, Bit
<1> QED
  BY <1>11

(* Addresses and data of a program are words and bytes.                    *)
LEMMA WordTypes ==
  (\A x \in Words : x \in Nat) /\ (\A x \in Bytes : x \in Nat /\ x <= 255)
BY DEF Words, Bytes

LEMMA OnTheBusType ==
  ASSUME cart \in Instances, NEW w \in Writes(board, cart.study), NEW v \in OnTheBus(w[1], w[2])
  PROVE  w[1] \in Nat /\ v \in Nat /\ v <= 255
<1>1. Writes(board, cart.study) \subseteq Words \X Bytes
  BY WritesAssumption, Zenon DEF board
<1>2. ASSUME NEW x \in Writes(board, cart.study)
      PROVE  x[1] \in Words /\ x[2] \in Bytes
  <2>1. x \in Words \X Bytes
    BY <1>1, Zenon
  <2> QED
    BY <2>1
<1> DEFINE S == {x[2] : x \in Writes(board, cart.study)} \cup {255}
<1>3. v = w[2] \/ \E x \in Nat : v = Common(w[2], x)
  <2>1. \A byte \in S : byte \in Nat
    <3>1. \A byte \in {x[2] : x \in Writes(board, cart.study)} : byte \in Bytes
      BY <1>2, Zenon
    <3>2. 255 \in Nat
      OBVIOUS
    <3> QED
      BY <3>1, <3>2, WordTypes, Zenon
  <2>2. v \in {w[2]} \/ v \in {Common(w[2], byte) : byte \in S}
    BY Zenon DEF OnTheBus
  <2> HIDE DEF S
  <2> QED
    BY <2>1, <2>2, Zenon
<1>4. w[1] \in Nat /\ w[2] \in Nat /\ w[2] <= 255
  BY <1>2, WordTypes, Zenon
<1>5. CASE v = w[2]
  BY <1>4, <1>5
<1>6. CASE \E x \in Nat : v = Common(w[2], x)
  BY <1>4, <1>6, CommonType
<1> QED
  BY <1>3, <1>5, <1>6

(* What AlarmWritten does, case by case.                                   *)
LEMMA AlarmCases ==
  ASSUME NEW a, NEW d, NEW i, AlarmWritten(a, d, i), due \in Int, fresh \in BOOLEAN,
         irq.mode \in BOOLEAN, i.mode \in BOOLEAN
  PROVE  \/ Starts(board, a, d) /\ due' = AfterStart(board, i) /\ fresh' = TRUE
         \/ due' = Unknown /\ fresh' = fresh
         \/ /\ ~Starts(board, a, d) /\ ~Upsets(board, a, due, fresh) /\ (i.mode <=> irq.mode)
            /\ due' = due /\ fresh' = fresh
<1> DEFINE s == Starts(board, a, d)
           u == Reloads(board, a) /\ (fresh \/ due = Never)
           m == i.mode # irq.mode
<1>1. CASE s
  BY <1>1 DEF AlarmWritten
<1>2. CASE ~s /\ (u \/ m)
  <2>1. due' = Unknown /\ fresh' = fresh
    BY <1>2 DEF AlarmWritten
  <2> QED
    BY <2>1
<1>3. CASE ~s /\ ~u /\ ~m
  <2>1. due' = due /\ fresh' = fresh
    BY <1>3 DEF AlarmWritten, alarm
  <2>2. ~Upsets(board, a, due, fresh)
    BY <1>3 DEF Upsets
  <2> QED
    BY <1>3, <2>1, <2>2
<1> QED
  BY <1>1, <1>2, <1>3

(* The alarm and its flag after a write are of their types, and right.     *)
LEMMA AlarmAfterWrite ==
  ASSUME IInv, NEW a, NEW d, NEW i, AlarmWritten(a, d, i),
         WriteKeeps(board, irq, i, a, d, due, fresh)
  PROVE  due' \in Int /\ fresh' \in BOOLEAN /\ (due' # Unknown => Waits(board, i, due', fresh'))
<1>1. due \in Int /\ fresh \in BOOLEAN /\ irq.mode \in BOOLEAN
      /\ (due # Unknown => Waits(board, irq, due, fresh))
  BY DEF IInv, TypeOK, Counters, AlarmInv
<1>2. i.mode \in BOOLEAN
  BY DEF WriteKeeps, Told, Counters
<1>3. \/ Starts(board, a, d) /\ due' = AfterStart(board, i) /\ fresh' = TRUE
      \/ due' = Unknown /\ fresh' = fresh
      \/ /\ ~Starts(board, a, d) /\ ~Upsets(board, a, due, fresh) /\ (i.mode <=> irq.mode)
         /\ due' = due /\ fresh' = fresh
  BY <1>1, <1>2, AlarmCases
<1>4. CASE Starts(board, a, d) /\ due' = AfterStart(board, i) /\ fresh' = TRUE
  <2>1. AfterStart(board, i) \in Int /\ Waits(board, i, AfterStart(board, i), TRUE)
    BY <1>4, Zenon DEF WriteKeeps
  <2> QED
    BY <1>4, <2>1, Zenon
<1>5. CASE due' = Unknown /\ fresh' = fresh
  BY <1>1, <1>5 DEF Unknown
<1>6. CASE /\ ~Starts(board, a, d) /\ ~Upsets(board, a, due, fresh) /\ (i.mode <=> irq.mode)
           /\ due' = due /\ fresh' = fresh
  <2>1. due # Unknown => Waits(board, i, due, fresh)
    BY <1>1, <1>6, Zenon DEF WriteKeeps
  <2> QED
    BY <1>1, <1>6, <2>1, Zenon
<1> QED
  BY <1>3, <1>4, <1>5, <1>6

(* The interrupt line goes up only while interrupts are enabled.           *)
QuietStep == ~irq.line.current /\ irq'.line.current => irq.enable

(* A write that reaches the board's registers.                             *)
LEMMA ToBoardStep ==
  ASSUME IInv, NEW a \in Nat, NEW d \in Nat, d <= 255, ToBoard(a, d), cart' = cart
  PROVE  IInv' /\ QuietStep
<1>0. board' = board
  BY DEF board
<1>1. CASE board \in IrqBoards
  <2>1. PICK i : i = IrqWritten(board, IF board = 69 THEN r.command ELSE 0, irq, a, d)
    OBVIOUS
  <2>2. irq' = i /\ AlarmWritten(a, d, i)
    BY <1>1, <2>1 DEF ToBoard
  <2>3. WriteKeeps(board, irq, i, a, d, due, fresh)
    BY <1>1, <2>1, KeepsEach DEF IInv, TypeOK
  <2>4. Arrives(irq, i)
    BY <2>3, ToldArrives DEF WriteKeeps, IInv, TypeOK
  <2>5. due' \in Int /\ fresh' \in BOOLEAN /\ (due' # Unknown => Waits(board, i, due', fresh'))
    BY <2>2, <2>3, AlarmAfterWrite
  <2>6. i \in Counters /\ Wanted(i) /\ Bounded(board, i)
    BY <2>3, <2>4 DEF Arrives, WriteKeeps
  <2>7. IInv'
    BY <1>0, <2>2, <2>5, <2>6 DEF IInv, TypeOK, AlarmInv
  <2>8. QuietStep
    BY <2>2, <2>4, Zenon DEF Arrives, QuietStep
  <2> QED
    BY <2>7, <2>8
<1>2. CASE board \notin IrqBoards
  <2>1. irq' = irq /\ due' = due /\ fresh' = fresh
    BY <1>2 DEF ToBoard, alarm
  <2>2. IInv'
    BY <1>0, <2>1 DEF IInv, TypeOK, AlarmInv
  <2>3. QuietStep
    BY <2>1, Zenon DEF QuietStep
  <2> QED
    BY <2>2, <2>3
<1> QED
  BY <1>1, <1>2

(* A step that leaves cartridge, counter and alarm alone.                  *)
LEMMA Unmoved ==
  ASSUME IInv, UNCHANGED <<cart, irq, alarm>>
  PROVE  IInv' /\ QuietStep
<1>1. IInv'
  BY DEF IInv, TypeOK, AlarmInv, alarm, board
<1>2. QuietStep
  BY Zenon DEF QuietStep
<1> QED
  BY <1>1, <1>2

(* One lemma for each action of Next.                                      *)
LEMMA CpuWriteStep ==
  ASSUME IInv, NEW w \in Writes(board, cart.study), CpuWrite(w[1], w[2])
  PROVE  IInv' /\ QuietStep
<1>1. cart' = cart
  BY Zenon DEF CpuWrite
<1>2. CASE UNCHANGED <<irq, alarm>>
  BY <1>1, <1>2, Unmoved
<1>3. CASE \E v \in OnTheBus(w[1], w[2]) : ToBoard(w[1], v)
  <2>1. PICK v \in OnTheBus(w[1], w[2]) : ToBoard(w[1], v)
    BY <1>3
  <2>2. w[1] \in Nat /\ v \in Nat /\ v <= 255
    BY OnTheBusType DEF IInv, TypeOK
  <2> QED
    BY <1>1, <2>1, <2>2, ToBoardStep
<1> QED
  BY <1>2, <1>3, Zenon DEF CpuWrite

(* A dot: the line is ticked, then A12 may clock the counter.              *)
LEMMA LineTickedStep ==
  ASSUME IInv, NEW s, s = LineTicked
  PROVE  /\ s \in Counters /\ Wanted(s) /\ Bounded(board, s)
         /\ ~irq.line.current /\ s.line.current => irq.enable
         /\ s.line.target <=> irq.line.target
         /\ s.enable = irq.enable /\ s.mode = irq.mode
         /\ \A t, f : Waits(board, irq, t, f) => Waits(board, s, t, f)
<1>1. irq \in Counters /\ Wanted(irq) /\ Bounded(board, irq)
  BY DEF IInv, TypeOK
<1>2. CASE board \notin MMC3Boards
  <2>1. s = irq
    BY <1>2, Zenon DEF LineTicked
  <2>2. (s.line.target <=> irq.line.target) /\ s.enable = irq.enable /\ s.mode = irq.mode
    BY <2>1, Zenon
  <2>3. ~irq.line.current /\ s.line.current => irq.enable
    BY <2>1, Zenon
  <2> QED
    BY <1>1, <2>1, <2>2, <2>3
<1>3. CASE board \in MMC3Boards
  <2>1. PICK p : p = PinTick(irq.line)
    OBVIOUS
  <2>2. irq.line \in Lines
    BY <1>1 DEF Counters
  <2>3. p \in Lines /\ (p.target <=> irq.line.target)
        /\ (p.current => irq.line.current \/ irq.line.target)
        /\ (irq.line.current /\ irq.line.target => p.current)
    BY <2>1, <2>2, LineTicks
  <2>4. s = [irq EXCEPT !.line = p]
    BY <1>3, <2>1, Zenon DEF LineTicked
  <2>5. /\ s \in Counters /\ s.line = p
        /\ s.enable = irq.enable /\ s.mode = irq.mode
        /\ s.counter = irq.counter /\ s.reload = irq.reload /\ s.reloadFlag = irq.reloadFlag
    BY <1>1, <2>3, <2>4, WithLine
  <2>6. Bounded(board, s) /\ \A t, f : Waits(board, irq, t, f) => Waits(board, s, t, f)
    <3>1. \A t, f : Waits004(irq, t, f) => Waits004(s, t, f)
      BY <2>5 DEF Waits004, Idle004, Counting004
    <3>2. board \notin {48, 91, 189, 245} /\ board \notin {64, 65, 67, 69, 73, 24, 26}
      BY <1>3 DEF MMC3Boards
    <3> QED
      BY <1>3, <3>1, <3>2 DEF Bounded, Waits
  <2>7. Wanted(s)
    BY <1>1, <2>3, <2>5, Zenon DEF Wanted
  <2>8. ~irq.line.current /\ s.line.current => irq.enable
    BY <1>1, <2>3, <2>5, Zenon DEF Wanted
  <2>9. s.line.target <=> irq.line.target
    BY <2>3, <2>5, Zenon
  <2> QED
    BY <2>5, <2>6, <2>7, <2>8, <2>9
<1> QED
  BY <1>2, <1>3

(* AlarmClocked is what Elapses says of the alarm.                         *)
LEMMA AlarmElapses ==
  ASSUME NEW i, AlarmClocked(i)
  PROVE  Elapses(board, irq, i, due, fresh, due', fresh')
BY DEF AlarmClocked, Expires, Elapses

(* A counter clocked by A12: when it fires, and that the alarm agrees.     *)
LEMMA RisesStep ==
  ASSUME IInv, board \in A12Boards, NEW level \in BOOLEAN, Rises(level), AlarmClocked(irq'),
         irq' = A12Ticked(board, LineTicked), cart' = cart
  PROVE  /\ IInv' /\ QuietStep
         /\ due # Unknown => FiresOn(board, irq, irq', due)
<1>1. PICK s : s = LineTicked
  OBVIOUS
<1>2. /\ s \in Counters /\ Wanted(s) /\ Bounded(board, s)
      /\ ~irq.line.current /\ s.line.current => irq.enable
      /\ s.line.target <=> irq.line.target
      /\ s.enable = irq.enable /\ s.mode = irq.mode
      /\ \A t, f : Waits(board, irq, t, f) => Waits(board, s, t, f)
  BY <1>1, LineTickedStep
<1>3. ~(board = 64 /\ s.mode)
  BY <1>2, Zenon DEF Rises, Watches
<1>4. irq' = A12Ticked(board, s)
  BY <1>1
<1>5. Arrives(s, irq') /\ Bounded(board, irq')
  BY <1>2, <1>3, <1>4, A12Arrives
<1>6. QuietStep
  BY <1>2, <1>5, Zenon DEF Arrives, QuietStep
<1>7. Elapses(board, irq, irq', due, fresh, due', fresh')
  BY AlarmElapses
<1>8. Elapses(board, s, irq', due, fresh, due', fresh')
  BY <1>2, <1>7, Zenon DEF Elapses, Cost
<1>9. due \in Int /\ fresh \in BOOLEAN
  BY DEF IInv, TypeOK
<1>10. fresh' \in BOOLEAN
  BY Zenon DEF AlarmClocked
<1>11. CASE due # Unknown
  <2>1. Waits(board, s, due, fresh)
    BY <1>2, <1>11, Zenon DEF IInv, AlarmInv
  <2>2. FiresOn(board, s, irq', due) /\ Waits(board, irq', due', fresh') /\ due' \in Int
    BY <1>2, <1>3, <1>4, <1>8, <1>9, <2>1, A12Waits
  <2>3. FiresOn(board, irq, irq', due)
    BY <1>2, <2>2, Zenon DEF FiresOn, Cost
  <2>4. IInv'
    BY <1>5, <1>10, <2>2 DEF IInv, TypeOK, AlarmInv, Arrives, board
  <2> QED
    BY <1>6, <2>3, <2>4
<1>12. CASE due = Unknown
  <2>1. due' = Unknown
    BY <1>7, <1>12 DEF Elapses, Unknown
  <2>2. due' \in Int
    BY <2>1 DEF Unknown
  <2>3. IInv'
    BY <1>5, <1>10, <2>1, <2>2 DEF IInv, TypeOK, AlarmInv, Arrives, board
  <2> QED
    BY <1>6, <1>12, <2>3
<1> QED
  BY <1>11, <1>12

(* Running, of a board and a counter.                                      *)
LEMMA RunningCounts ==
  ASSUME board \in CpuBoards
  PROVE  Running <=> Counting(board, irq)
BY Zenon DEF Running, Counting

LEMMA CpuRunsStep ==
  ASSUME IInv, board \in CpuBoards, Running, AlarmClocked(irq'),
         irq' = CpuTicked(board, irq), cart' = cart
  PROVE  /\ IInv' /\ QuietStep
         /\ due # Unknown => FiresOn(board, irq, irq', due)
<1>1. Counting(board, irq)
  BY RunningCounts
<1>2. irq \in Counters /\ Wanted(irq) /\ Bounded(board, irq)
      /\ due \in Int /\ fresh \in BOOLEAN
  BY DEF IInv, TypeOK
<1>3. Arrives(irq, irq') /\ Bounded(board, irq')
  BY <1>2, CpuArrives, CpuBounded
<1>4. QuietStep
  BY <1>3, Zenon DEF Arrives, QuietStep
<1>5. Elapses(board, irq, irq', due, fresh, due', fresh')
  BY AlarmElapses
<1>6. fresh' \in BOOLEAN
  BY Zenon DEF AlarmClocked
<1>7. CASE due # Unknown
  <2>1. Waits(board, irq, due, fresh)
    BY <1>7 DEF IInv, AlarmInv
  <2>2. FiresOn(board, irq, irq', due) /\ Waits(board, irq', due', fresh') /\ due' \in Int
    BY <1>1, <1>2, <1>5, <2>1, CpuWaits
  <2>3. IInv'
    BY <1>3, <1>6, <2>2 DEF IInv, TypeOK, AlarmInv, Arrives, board
  <2> QED
    BY <1>4, <2>2, <2>3
<1>8. CASE due = Unknown
  <2>1. due' = Unknown
    BY <1>5, <1>8 DEF Elapses, Unknown
  <2>2. due' \in Int
    BY <2>1 DEF Unknown
  <2>3. IInv'
    BY <1>3, <1>6, <2>1, <2>2 DEF IInv, TypeOK, AlarmInv, Arrives, board
  <2> QED
    BY <1>4, <1>8, <2>3
<1> QED
  BY <1>7, <1>8

LEMMA PpuDotStep ==
  ASSUME IInv, NEW level \in BOOLEAN, PpuDot(level)
  PROVE  IInv' /\ QuietStep
<1>1. CASE Rises(level)
  <2>1. /\ board \in A12Boards /\ AlarmClocked(irq') /\ irq' = A12Ticked(board, LineTicked)
        /\ cart' = cart
    BY <1>1, Zenon DEF PpuDot
  <2> QED
    BY <1>1, <2>1, RisesStep
<1>2. CASE ~Rises(level)
  <2>1. irq' = LineTicked /\ UNCHANGED <<cart, alarm>>
    BY <1>2, Zenon DEF PpuDot
  <2>2. /\ irq' \in Counters /\ Wanted(irq') /\ Bounded(board, irq')
        /\ ~irq.line.current /\ irq'.line.current => irq.enable
        /\ \A t, f : Waits(board, irq, t, f) => Waits(board, irq', t, f)
    BY <2>1, LineTickedStep
  <2>3. IInv'
    BY <2>1, <2>2 DEF IInv, TypeOK, AlarmInv, alarm, board
  <2>4. QuietStep
    BY <2>2, Zenon DEF QuietStep
  <2> QED
    BY <2>3, <2>4
<1> QED
  BY <1>1, <1>2

LEMMA CpuClockStep ==
  ASSUME IInv, CpuClock
  PROVE  IInv' /\ QuietStep
<1>1. board \in CpuBoards /\ irq' = CpuTicked(board, irq) /\ cart' = cart
  BY Zenon DEF CpuClock
<1>2. CASE Running
  <2>1. AlarmClocked(irq')
    BY <1>2, Zenon DEF CpuClock
  <2> QED
    BY <1>1, <1>2, <2>1, CpuRunsStep
<1>3. CASE ~Running
  <2>1. UNCHANGED alarm
    BY <1>3, Zenon DEF CpuClock
  <2>2. irq' = irq
    BY <1>1, <1>3, RunningCounts, CpuStill DEF IInv, TypeOK
  <2> QED
    BY <1>1, <2>1, <2>2, Unmoved
<1> QED
  BY <1>2, <1>3

LEMMA ResetStep ==
  ASSUME IInv, Reset
  PROVE  IInv' /\ QuietStep
<1>1. irq' = IrqReset(board) /\ due' = Unknown /\ cart' = cart
  BY Zenon DEF Reset
<1>2. fresh' \in BOOLEAN
  BY Zenon DEF Reset
<1>3. /\ irq' \in Counters /\ Wanted(irq') /\ Bounded(board, irq')
      /\ ~irq'.line.current
  BY <1>1, ResetType
<1>4. IInv'
  BY <1>1, <1>2, <1>3 DEF IInv, TypeOK, AlarmInv, Unknown, board
<1>5. QuietStep
  BY <1>3, Zenon DEF QuietStep
<1> QED
  BY <1>4, <1>5

LEMMA Steps == IInv /\ [Next]_vars => IInv' /\ QuietStep
<1> SUFFICES ASSUME IInv, [Next]_vars PROVE IInv' /\ QuietStep
  OBVIOUS
<1>1. CASE \E w \in Writes(board, cart.study) : CpuWrite(w[1], w[2])
  BY <1>1, CpuWriteStep
<1>2. CASE \E level \in BOOLEAN : PpuDot(level)
  BY <1>2, PpuDotStep
<1>3. CASE CpuClock
  BY <1>3, CpuClockStep
<1>4. CASE \E addr \in WatchedTiles : PpuFetch(addr)
  <2>1. UNCHANGED <<cart, irq, alarm>>
    BY <1>4, Zenon DEF PpuFetch
  <2> QED
    BY <2>1, Unmoved
<1>5. CASE Reset
  BY <1>5, ResetStep
<1>6. CASE UNCHANGED vars
  <2>1. UNCHANGED <<cart, irq, alarm>>
    BY <1>6 DEF vars, registers
  <2> QED
    BY <2>1, Unmoved
<1> QED
  BY <1>1, <1>2, <1>3, <1>4, <1>5, <1>6, Zenon DEF Next

(* The counter of a board stays within its bounds and the alarm within     *)
(* what it tells of: the invariant of the two theorems below.              *)
THEOREM Invariance == Spec => []IInv
<1>1. Init => IInv
  BY Initially
<1>2. IInv /\ [Next]_vars => IInv'
  BY Steps
<1> QED
  BY <1>1, <1>2, PTL DEF Spec

(* IrqQuiet: on every board an interrupt reaches the processor only while  *)
(* the program has interrupts enabled, one that waits for its delay        *)
(* (Mapper004.h:142) or for its dot included.                              *)
THEOREM QuietWhenDisabled == Spec => IrqQuiet
<1>1. IInv /\ [Next]_vars => [~irq.line.current /\ irq'.line.current => irq.enable]_vars
  BY Steps DEF QuietStep
<1> QED
  BY <1>1, Invariance, PTL DEF Spec, IrqQuiet

(* IrqOnTime: whatever the program writes meanwhile, a counter decides to  *)
(* interrupt at the clock that its document counts, and at no other.       *)
THEOREM OnTheDocumentedClock == Spec => IrqOnTime
<1> DEFINE A == /\ \A level \in BOOLEAN :
                     PpuDot(level) /\ Rises(level) /\ due # Unknown => OnTime(irq')
                /\ CpuClock /\ Running /\ due # Unknown => OnTime(irq')
<1>1. ASSUME IInv', FiresOn(board, irq, irq', due) PROVE OnTime(irq')
  <2>1. irq'.line.target <=> irq.line.target \/ (Expires /\ irq.enable)
    BY <1>1, Zenon DEF FiresOn, Expires
  <2>2. irq'.line.target \in BOOLEAN
    BY <1>1 DEF IInv, TypeOK, Counters, Lines, PinsUpTo
  <2>3. (irq.line.target \/ (Expires /\ irq.enable)) \in BOOLEAN
    BY Zenon
  <2> QED
    BY <2>1, <2>2, <2>3, Zenon DEF OnTime
<1>2. ASSUME IInv, NEW level \in BOOLEAN, PpuDot(level), Rises(level), due # Unknown
      PROVE  OnTime(irq')
  <2>1. /\ board \in A12Boards /\ AlarmClocked(irq') /\ irq' = A12Ticked(board, LineTicked)
        /\ cart' = cart
    BY <1>2, Zenon DEF PpuDot
  <2> QED
    BY <1>1, <1>2, <2>1, RisesStep
<1>3. ASSUME IInv, CpuClock, Running, due # Unknown
      PROVE  OnTime(irq')
  <2>1. /\ board \in CpuBoards /\ AlarmClocked(irq') /\ irq' = CpuTicked(board, irq)
        /\ cart' = cart
    BY <1>3, Zenon DEF CpuClock
  <2> QED
    BY <1>1, <1>3, <2>1, CpuRunsStep
<1>4. IInv => [A]_vars
  BY <1>2, <1>3
<1> QED
  BY <1>4, Invariance, PTL DEF Spec, IrqOnTime

-----------------------------------------------------------------------------
(* Banks: the arithmetic of their numbers and of the fields of a write.    *)

(* Shifts and widths a board decodes with.                                 *)
Shifts == 0..14

(* Powers of two: positive numbers.                                        *)
LEMMA PowerType ==
  ASSUME NEW i \in Shifts
  PROVE  2^i \in Nat \ {0}
<1>1. /\ 2^0 \in Nat \ {0} /\ 2^1 \in Nat \ {0} /\ 2^2 \in Nat \ {0} /\ 2^3 \in Nat \ {0}
      /\ 2^4 \in Nat \ {0} /\ 2^5 \in Nat \ {0} /\ 2^6 \in Nat \ {0} /\ 2^7 \in Nat \ {0}
      /\ 2^8 \in Nat \ {0} /\ 2^9 \in Nat \ {0} /\ 2^10 \in Nat \ {0} /\ 2^11 \in Nat \ {0}
      /\ 2^12 \in Nat \ {0} /\ 2^13 \in Nat \ {0} /\ 2^14 \in Nat \ {0}
  BY SMT
<1>2. \/ i = 0 \/ i = 1 \/ i = 2 \/ i = 3 \/ i = 4 \/ i = 5 \/ i = 6 \/ i = 7
      \/ i = 8 \/ i = 9 \/ i = 10 \/ i = 11 \/ i = 12 \/ i = 13 \/ i = 14
  BY DEF Shifts
<1> QED
  BY <1>1, <1>2, Zenon

(* A remainder is below what it is of, and a quotient no larger.           *)
LEMMA Remainder ==
  ASSUME NEW x \in Int, NEW y \in Nat \ {0}
  PROVE  x % y \in Nat /\ x % y < y
OBVIOUS

(* A field of a number is below the power of two of its width.             *)
LEMMA BitsType ==
  ASSUME NEW d \in Nat, NEW lo \in Shifts, NEW width \in Shifts
  PROVE  Bits(d, lo, width) \in Nat /\ Bits(d, lo, width) < 2^width
<1>1. PICK p \in Nat \ {0} : p = 2^lo
  BY PowerType
<1>2. PICK q \in Nat \ {0} : q = 2^width
  BY PowerType
<1>3. d \div p \in Int
  OBVIOUS
<1>4. (d \div p) % q \in Nat /\ (d \div p) % q < q
  BY <1>3, Remainder
<1> QED
  BY <1>1, <1>2, <1>4 DEF Bits

(* A bit is 0 or 1.                                                        *)
LEMMA BitIs ==
  ASSUME NEW d \in Nat, NEW lo \in Shifts
  PROVE  Bit(d, lo) \in {0, 1}
<1>1. PICK p \in Nat \ {0} : p = 2^lo
  BY PowerType
<1>2. d \div p \in Int
  OBVIOUS
<1>3. (d \div p) % 2 \in {0, 1}
  BY <1>2
<1> QED
  BY <1>1, <1>3 DEF Bit

(* Fields and bits are numbers.                                            *)
LEMMA BitsInt ==
  ASSUME NEW d \in Nat, NEW lo \in Shifts, NEW width \in Shifts
  PROVE  Bits(d, lo, width) \in Nat /\ Bit(d, lo) \in Nat
BY BitsType, BitIs

-----------------------------------------------------------------------------
(* Layouts that stay in a ROM of m banks of 16 KB, or of j of 8 KB.        *)
PrgIn(layout, m) == \A w \in PrgWindows : layout[w] \in 0..2 * m - 1
ChrIn(layout, j) == \A w \in ChrWindows : layout[w] \in 0..8 * j - 1

(* mapper_helpers::maskBank returns a bank there is, for every number of   *)
(* banks, a power of two or not.                                           *)
LEMMA MaskBankIn ==
  ASSUME NEW bank \in Int, NEW m \in Nat \ {0}
  PROVE  MaskBank(bank, m) \in 0..m - 1
BY Remainder DEF MaskBank

(* The number of 8 KB banks is often a byte; a bank reduced by it is one   *)
(* there is for all that.                                                  *)
LEMMA MaskByteIn ==
  ASSUME NEW bank \in Int, NEW m \in Nat \ {0}
  PROVE  MaskBank(bank, (2 * m) % 256) \in 0..2 * m - 1
<1> DEFINE c == (2 * m) % 256
<1>1. c \in Nat /\ c <= 2 * m
  OBVIOUS
<1> HIDE DEF c
<1>2. ASSUME c = 0 PROVE MaskBank(bank, c) \in 0..2 * m - 1
  BY <1>2 DEF MaskBank
<1>3. ASSUME c # 0 PROVE MaskBank(bank, c) \in 0..2 * m - 1
  <2>1. c \in Nat \ {0}
    BY <1>1, <1>3
  <2>2. MaskBank(bank, c) \in 0..c - 1
    BY <2>1, MaskBankIn
  <2>3. \A x \in 0..c - 1 : x \in 0..2 * m - 1
    BY <1>1, <2>1
  <2> QED
    BY <2>2, <2>3
<1>4. MaskBank(bank, c) \in 0..2 * m - 1
  BY <1>2, <1>3
<1> QED
  BY <1>4 DEF c

(* Two banks of 16 KB that are there make a layout within the ROM.         *)
LEMMA Raw16In ==
  ASSUME NEW m \in Nat \ {0}, NEW lo \in 0..m - 1, NEW hi \in 0..m - 1
  PROVE  PrgIn(Raw16(lo, hi), m)
BY DEF PrgIn, Raw16, PrgWindows

(* So do the upper two windows, whatever is below them.                    *)
LEMMA Raw16HiIn ==
  ASSUME NEW m \in Nat \ {0}, NEW lo, NEW hi \in 0..m - 1
  PROVE  \A w \in {2, 3} : Raw16(lo, hi)[w] \in 0..2 * m - 1
BY DEF Raw16, PrgWindows

(* A bank of 32 KB, reduced by the number of them.                         *)
LEMMA Prg32In ==
  ASSUME NEW bank \in Int, NEW m \in Nat, m > 1
  PROVE  PrgIn(Prg32(bank, m), m)
<1>1. m \div 2 \in Nat \ {0} /\ 4 * (m \div 2) <= 2 * m
  OBVIOUS
<1>2. PICK c \in 0..(m \div 2) - 1 : c = MaskBank(bank, m \div 2)
  BY <1>1, MaskBankIn
<1>3. Prg32(bank, m) = Raw32(c)
  BY <1>1, <1>2 DEF Prg32
<1>4. 4 * c + 3 < 2 * m /\ c \in Nat
  BY <1>1, <1>2
<1>5. \A w \in 0..3 : Raw32(c)[w] = c * 4 + w
  BY DEF Raw32, PrgWindows
<1> QED
  BY <1>3, <1>4, <1>5 DEF PrgIn, PrgWindows

(* A bank of 16 KB reduced by their number: in both halves, in the lower,  *)
(* in the upper.                                                           *)
LEMMA Prg16In ==
  ASSUME NEW bank \in Int, NEW m \in Nat \ {0}
  PROVE  /\ PrgIn(Raw16(MaskBank(bank, m), MaskBank(bank, m)), m)
         /\ PrgIn(Prg16FixedHi(bank, m), m)
         /\ PrgIn(Prg16FixedLo(bank, m), m)
<1>1. MaskBank(bank, m) \in 0..m - 1 /\ MaskBank(m - 1, m) \in 0..m - 1 /\ 0 \in 0..m - 1
  BY MaskBankIn
<1> QED
  BY <1>1, Raw16In DEF Prg16FixedHi, Prg16FixedLo

(* Four banks of 8 KB that are there.                                      *)
LEMMA Prg8sIn ==
  ASSUME NEW m \in Nat \ {0}, NEW b0 \in 0..2 * m - 1, NEW b1 \in 0..2 * m - 1,
         NEW b2 \in 0..2 * m - 1, NEW b3 \in 0..2 * m - 1
  PROVE  PrgIn(Prg8s(b0, b1, b2, b3), m)
BY DEF PrgIn, Prg8s, PrgWindows

(* The last and the last but one.                                          *)
LEMMA Last8In ==
  ASSUME NEW m \in Nat \ {0}, NEW back \in {1, 2}
  PROVE  Last8(m, back) \in 0..2 * m - 1
BY DEF Last8

(* A bank of 8 KB of CHR, reduced by their number.                         *)
LEMMA Chr8In ==
  ASSUME NEW bank \in Int, NEW j \in Nat \ {0}
  PROVE  ChrIn(Chr8(bank, j), j)
<1>1. PICK c \in 0..j - 1 : c = MaskBank(bank, j)
  BY MaskBankIn
<1>2. Chr8(bank, j) = Raw8(c)
  BY <1>1 DEF Chr8
<1>3. \A w \in ChrWindows : Raw8(c)[w] = c * 8 + w
  BY DEF Raw8
<1> QED
  BY <1>2, <1>3 DEF ChrIn, ChrWindows

(* A layout reduced by the number of banks.                                *)
LEMMA ModuloIn ==
  ASSUME NEW total \in Nat \ {0}, NEW S, NEW layout \in [S -> Int]
  PROVE  \A w \in S : Modulo(layout, total)[w] \in 0..total - 1
<1>1. \A w \in S : layout[w] \in Int
  OBVIOUS
<1>2. \A w \in S : layout[w] % total \in 0..total - 1
  BY <1>1, Remainder
<1>3. DOMAIN layout = S /\ total # 0
  OBVIOUS
<1>4. \A w \in S : Modulo(layout, total)[w] = layout[w] % total
  BY <1>3 DEF Modulo
<1> QED
  BY <1>2, <1>4

(* Two windows of 2 KB and four of 1 KB make eight.                        *)
LEMMA Chr2And1Type ==
  ASSUME NEW c0 \in Int, NEW c1 \in Int, NEW ones \in [0..3 -> Int]
  PROVE  Chr2And1(c0, c1, ones) \in [ChrWindows -> Int]
BY DEF Chr2And1, ChrWindows

-----------------------------------------------------------------------------
(* What a board's registers hold: numbers, and tables of them.             *)
Has(regs, f) == f \in DOMAIN regs /\ regs[f] \in Int
HasEach(regs, f, S) == f \in DOMAIN regs /\ regs[f] \in [S -> Int]

Regs034(s) == Has(s, "prg") /\ Has(s, "chr0") /\ Has(s, "chr1")
Regs046(s) == Has(s, "prgHi") /\ Has(s, "chrHi") /\ Has(s, "prgLo") /\ Has(s, "chrLo")
Nats(regs, f) == f \in DOMAIN regs /\ regs[f] \in Nat
Regs057(s) == Nats(s, "reg8000") /\ Nats(s, "reg8800")
Regs060(s) == Has(s, "block")
RegsEdge(s) == Has(s, "prgBank") /\ Has(s, "chrBank")
Regs226(s) == Has(s, "prgLo") /\ Has(s, "prgHi")
Regs227(s) == Has(s, "page")
Regs228(s) == Has(s, "prgChip") /\ Has(s, "prgPage") /\ Has(s, "chrLo") /\ Has(s, "chrHi")
Regs232(s) == Has(s, "block") /\ Has(s, "page")
Regs243(s) == Has(s, "prg") /\ Has(s, "chrH") /\ Has(s, "chrL") /\ Has(s, "chrD")
Regs028(s) == /\ Nats(s, "selected") /\ Nats(s, "chrBank") /\ Nats(s, "prgInner")
              /\ Nats(s, "mode") /\ Nats(s, "prgOuter")

(* 034: a write keeps what its registers hold.                             *)
LEMMA Keeps034 ==
  ASSUME NEW s, Regs034(s), NEW a \in Nat, NEW d \in Nat
  PROVE  Regs034(Written034(s, a, d))
BY DEF Regs034, Has, Written034

(* 046: a write keeps what its registers hold.                             *)
LEMMA Keeps046 ==
  ASSUME NEW s, Regs046(s), NEW a \in Nat, NEW d \in Nat
  PROVE  Regs046(Written046(s, a, d))
BY BitsInt DEF Regs046, Has, Written046, Shifts

(* 057: a write keeps what its registers hold.                             *)
LEMMA Keeps057 ==
  ASSUME NEW s, Regs057(s), NEW a \in Nat, NEW d \in Nat
  PROVE  Regs057(Written057(s, a, d))
BY DEF Regs057, Nats, Written057

(* 060: a write keeps what its registers hold.                             *)
LEMMA Keeps060 ==
  ASSUME NEW s, Regs060(s)
  PROVE  Regs060(Reset060(s))
BY DEF Regs060, Has, Reset060

(* 072 and 092: a write keeps what its registers hold.                     *)
LEMMA KeepsEdge ==
  ASSUME NEW s, RegsEdge(s), NEW a \in Nat, NEW d \in Nat
  PROVE  RegsEdge(WrittenEdge(s, a, d))
BY BitsInt DEF RegsEdge, Has, WrittenEdge, Shifts

(* 226: a write keeps what its registers hold.                             *)
LEMMA Keeps226 ==
  ASSUME NEW s, Regs226(s), NEW a \in Nat, NEW d \in Nat
  PROVE  Regs226(Written226(s, a, d))
BY BitsInt DEF Regs226, Has, Written226, Shifts

(* 227: a write keeps what its registers hold.                             *)
LEMMA Keeps227 ==
  ASSUME NEW s, Regs227(s), NEW a \in Nat, NEW d \in Nat
  PROVE  Regs227(Written227(s, a, d))
<1>1. 2 \in Shifts /\ 5 \in Shifts /\ 8 \in Shifts
  BY DEF Shifts
<1>2. PICK x \in Int : x = Bits(a, 2, 5) + 32 * Bit(a, 8)
  <2>1. Bits(a, 2, 5) \in Nat /\ Bit(a, 8) \in Nat
    BY <1>1, BitsInt
  <2> QED
    BY <2>1
<1>4. Written227(s, a, d) = s \/ Written227(s, a, d) =
        [page |-> x, single |-> Bit(a, 0), outer |-> Bit(a, 7), last |-> Bit(a, 9),
         mirror |-> OutOf(<<"V", "H">>, Bit(a, 1))]
  BY <1>2, Zenon DEF Written227
<1>5. DEFINE t == [page |-> x, single |-> Bit(a, 0), outer |-> Bit(a, 7), last |-> Bit(a, 9),
                   mirror |-> OutOf(<<"V", "H">>, Bit(a, 1))]
<1>6. "page" \in DOMAIN t /\ t.page = x
  BY Zenon
<1> QED
  BY <1>2, <1>4, <1>6, Zenon DEF Regs227, Has

(* 228: a write keeps what its registers hold.                             *)
LEMMA Keeps228 ==
  ASSUME NEW s, Regs228(s), NEW a \in Nat, NEW d \in Nat
  PROVE  Regs228(Written228(s, a, d))
BY BitsInt, SMTT(40) DEF Regs228, Has, Written228, Shifts

(* 232: a write keeps what its registers hold.                             *)
LEMMA Keeps232 ==
  ASSUME NEW s, Regs232(s), NEW a \in Nat, NEW d \in Nat
  PROVE  Regs232(Written232(s, a, d))
<1>1. Bits(d, 3, 2) \in Nat /\ Bits(d, 0, 2) \in Nat
  BY BitsInt DEF Shifts
<1>2. \A v \in Nat : Regs232([s EXCEPT !.block = v]) /\ Regs232([s EXCEPT !.page = v])
  BY DEF Regs232, Has
<1>3. Written232(s, a, d) \in
        {s, [s EXCEPT !.block = Bits(d, 3, 2)], [s EXCEPT !.page = Bits(d, 0, 2)]}
  BY DEF Written232
<1> QED
  BY <1>1, <1>2, <1>3

(* 243: a write keeps what its registers hold.                             *)
LEMMA Keeps243 ==
  ASSUME NEW s, Regs243(s), NEW a \in Nat, NEW d \in Nat
  PROVE  Regs243(Written243(s, a, d))
<1>1. ASSUME NEW v
      PROVE  /\ Regs243([s EXCEPT !.addrPort = v]) /\ Regs243([s EXCEPT !.mirror = v])
  BY DEF Regs243, Has
<1>2. ASSUME NEW v \in Nat
      PROVE  /\ Regs243([s EXCEPT !.chrH = v]) /\ Regs243([s EXCEPT !.chrL = v])
             /\ Regs243([s EXCEPT !.prg = v]) /\ Regs243([s EXCEPT !.chrD = v])
  BY DEF Regs243, Has
<1>3. d % 2 \in Nat /\ d % 4 \in Nat /\ d % 8 \in Nat
  OBVIOUS
<1> DEFINE m == OutOf(<<"H", "V", "lo", "hi">>, Bits(d, 1, 2))
          Inner == CASE s.addrPort = 2 -> [s EXCEPT !.chrH = d % 2]
                     [] s.addrPort = 4 -> [s EXCEPT !.chrL = d % 2]
                     [] s.addrPort = 5 -> [s EXCEPT !.prg = d % 8]
                     [] s.addrPort = 6 -> [s EXCEPT !.chrD = d % 4]
                     [] s.addrPort = 7 -> [s EXCEPT !.mirror = m]
                     [] OTHER -> s
<1>4. Regs243(Inner)
  <2> HIDE DEF m
  <2>1. Inner \in {s, [s EXCEPT !.chrH = d % 2], [s EXCEPT !.chrL = d % 2],
                  [s EXCEPT !.prg = d % 8], [s EXCEPT !.chrD = d % 4], [s EXCEPT !.mirror = m]}
    OBVIOUS
  <2> HIDE DEF Inner
  <2> QED
    BY <1>1, <1>2, <1>3, <2>1
<1>5. Written243(s, a, d) \in {s, [s EXCEPT !.addrPort = d % 8], Inner}
  BY DEF Written243
<1> HIDE DEF m, Inner
<1> QED
  BY <1>1, <1>4, <1>5

(* 028: a write keeps what its registers hold.                             *)
LEMMA Keeps028 ==
  ASSUME NEW s, Regs028(s), NEW a \in Nat, NEW d \in Nat
  PROVE  Regs028(Written028(s, a, d))
BY BitsInt DEF Regs028, Nats, Written028, OneScreen028, Shifts

(* 034: every window is in the ROM.                                        *)
LEMMA Windows034 ==
  ASSUME NEW s, Regs034(s), NEW j \in Nat \ {0}
  PROVE  ChrIn(Chr034(s, j), j)
<1>1. 2 * j \in Nat \ {0} /\ s.chr0 \in Int /\ s.chr1 \in Int
  BY DEF Regs034, Has
<1>2. PICK x \in 0..2 * j - 1 : x = MaskBank(s.chr0, 2 * j)
  BY <1>1, MaskBankIn
<1>3. PICK y \in 0..2 * j - 1 : y = MaskBank(s.chr1, 2 * j)
  BY <1>1, MaskBankIn
<1> QED
  BY <1>2, <1>3 DEF Chr034, ChrIn, ChrWindows

(* 046: every window is in the ROM.                                        *)
LEMMA Windows046 ==
  ASSUME NEW s, Regs046(s), NEW m \in Nat, m > 1, NEW j \in Nat \ {0}
  PROVE  PrgIn(Prg046(s, m), m) /\ ChrIn(Chr046(s, j), j)
<1>1. s.prgHi * 2 + s.prgLo \in Int /\ s.chrHi * 8 + s.chrLo \in Int
  BY DEF Regs046, Has
<1> QED
  BY <1>1, Prg32In, Chr8In DEF Prg046, Chr046

(* 057: every window is in the ROM.                                        *)
LEMMA Windows057 ==
  ASSUME NEW s, Regs057(s), NEW m \in Nat, m > 1, NEW j \in Nat \ {0}
  PROVE  PrgIn(Prg057(s, m), m) /\ ChrIn(Chr057(s, j), j)
<1>0. /\ s.reg8800 \in Nat /\ s.reg8000 \in Nat
      /\ 3 \in Shifts /\ 5 \in Shifts /\ 6 \in Shifts
  BY DEF Regs057, Nats, Shifts
<1>1. PICK x \in Nat : x = Bits(s.reg8800, 5, 3)
  BY <1>0, BitsInt
<1>2. x \div 2 \in Int
  OBVIOUS
<1>3. PrgIn(Prg057(s, m), m)
  BY <1>1, <1>2, Prg32In, Prg16In DEF Prg057
<1>4. PICK b \in Nat : b = Bit(s.reg8000, 6)
  BY <1>0, BitsInt
<1>5. 2^0 = 1 /\ 2^1 = 2 /\ 2^2 = 4
  BY SMT
<1>6. PICK c \in Int : Chr057(s, j) = Chr8(c, j)
  BY <1>4, <1>5 DEF Chr057
<1> QED
  BY <1>3, <1>6, Chr8In

(* 060: every window is in the ROM.                                        *)
LEMMA Windows060 ==
  ASSUME NEW s, Regs060(s), NEW m \in Nat, m > 1, NEW j \in Nat \ {0}
  PROVE  PrgIn(Prg060(s, m), m) /\ ChrIn(Chr060(s, j), j)
BY Prg16In, Chr8In DEF Regs060, Has, Prg060, Chr060

(* 072 and 092: every window is in the ROM.                                *)
LEMMA WindowsEdge ==
  ASSUME NEW s, RegsEdge(s), NEW m \in Nat, m > 1, NEW j \in Nat \ {0}
  PROVE  PrgIn(Prg072(s, m), m) /\ PrgIn(Prg092(s, m), m) /\ ChrIn(ChrEdge(s, j), j)
BY Prg16In, Chr8In DEF RegsEdge, Has, Prg072, Prg092, ChrEdge

(* 226: every window is in the ROM.                                        *)
LEMMA Windows226 ==
  ASSUME NEW s, Regs226(s), NEW m \in Nat, m > 1
  PROVE  PrgIn(Prg226(s, m), m)
<1>1. PICK c \in Int : c = s.prgHi * 64 + s.prgLo
  BY DEF Regs226, Has
<1>2. c \div 2 \in Int
  OBVIOUS
<1> QED
  BY <1>1, <1>2, Prg16In, Prg32In DEF Prg226

(* 227: every window is in the ROM.                                        *)
LEMMA Windows227 ==
  ASSUME NEW s, Regs227(s), NEW m \in Nat, m > 1
  PROVE  PrgIn(Prg227(s, m), m)
<1>1. s.page \in Int
  BY DEF Regs227, Has
<1>2. PICK half \in Int : half = s.page \div 2
  BY <1>1
<1>3. PICK game \in Int : game = 8 * (s.page \div 8)
  BY <1>1
<1>4. PICK lo \in Int : lo = IF s.outer = 0 /\ s.single = 1 THEN 2 * (s.page \div 2) ELSE s.page
  BY <1>1, <1>2
<1>5. PICK hi \in Int : hi = CASE s.outer = 1 -> s.page
              [] s.outer = 0 /\ s.last = 1 -> 8 * (s.page \div 8) + 7
              [] OTHER -> 8 * (s.page \div 8)
  BY <1>1, <1>3
<1>6. MaskBank(lo, m) \in 0..m - 1 /\ MaskBank(hi, m) \in 0..m - 1
  BY MaskBankIn
<1>7. Prg227(s, m) \in {Prg32(half, m), Raw16(MaskBank(lo, m), MaskBank(hi, m))}
  BY <1>2, <1>4, <1>5 DEF Prg227
<1> QED
  BY <1>6, <1>7, Prg32In, Raw16In

(* 228: every window is in the ROM.                                        *)
LEMMA Windows228 ==
  ASSUME NEW s, Regs228(s), NEW m \in Nat, m > 1, NEW j \in Nat \ {0}
  PROVE  PrgIn(Prg228(s, m), m) /\ ChrIn(Chr228(s, j), j)
<1>1. s.prgChip \in Int /\ s.prgPage \in Int /\ s.chrLo \in Int /\ s.chrHi \in Int
  BY DEF Regs228, Has
<1>2. PICK base \in Int : base = 64 * (IF s.prgChip = 2 THEN 1 ELSE s.prgChip)
  BY <1>1
<1>3. PICK half \in Int : half = s.prgPage \div 2
  BY <1>1
<1>4. 2 * m \in Nat \ {0}
  OBVIOUS
<1>5. ASSUME NEW w \in PrgWindows PROVE Prg228(s, m)[w] \in 0..2 * m - 1
  <2>1. PICK c \in Int : c = base + (IF s.mode16 = 1 THEN s.prgPage * 2 + (w % 2)
                     ELSE half * 4 + w)
    BY <1>1 DEF PrgWindows
  <2>2. Prg228(s, m)[w] = c % (2 * m)
    BY <1>2, <1>3, <2>1 DEF Prg228
  <2>3. c % (2 * m) \in 0..2 * m - 1
    BY <1>4, Remainder
  <2> QED
    BY <2>2, <2>3
<1>6. s.chrHi * 4 + s.chrLo \in Int
  BY <1>1
<1> QED
  BY <1>5, <1>6, Chr8In DEF PrgIn, Chr228

(* 232: every window is in the ROM.                                        *)
LEMMA Windows232 ==
  ASSUME NEW s, Regs232(s), NEW m \in Nat, m > 1
  PROVE  PrgIn(Prg232(s, m), m)
<1>1. PICK x \in Int : x = s.block * 4 + s.page
  BY DEF Regs232, Has
<1>2. PICK y \in Int : y = s.block * 4 + 3
  BY DEF Regs232, Has
<1>3. MaskBank(x, m) \in 0..m - 1 /\ MaskBank(y, m) \in 0..m - 1
  BY MaskBankIn
<1> QED
  BY <1>1, <1>2, <1>3, Raw16In DEF Prg232

(* 243: every window is in the ROM.                                        *)
LEMMA Windows243 ==
  ASSUME NEW s, Regs243(s), NEW j \in Nat \ {0}
  PROVE  ChrIn(Chr243(s, j), j)
<1>1. s.chrH * 8 + s.chrD * 2 + s.chrL \in Int
  BY DEF Regs243, Has
<1> QED
  BY <1>1, Chr8In DEF Chr243

(* 028's bank is a number, whatever the size of its game.                  *)
LEMMA Bank028Type ==
  ASSUME NEW s, Regs028(s), NEW slot \in {0, 1}
  PROVE  Bank028(s, slot) \in Int
<1>1. /\ s.mode \in Nat /\ s.prgInner \in Nat /\ s.prgOuter \in Nat
  BY DEF Regs028, Nats
<1>2. 2 \in Shifts /\ 4 \in Shifts
  BY DEF Shifts
<1>20. \A lo \in Shifts : Bits(s.mode, lo, 2) \in Nat /\ Bits(s.mode, lo, 2) < 4
  <2>1. 2^2 = 4
    BY SMT
  <2> QED
    BY <1>1, <1>2, <2>1, BitsType, Zenon
<1>3. PICK t \in Shifts : t = Bits(s.mode, 4, 2)
  BY <1>2, <1>20 DEF Shifts
<1>4. PICK size \in Nat \ {0} : size = 2^t
  BY <1>3, PowerType
<1>5. PICK twice \in Nat \ {0} : twice = 2 * size
  OBVIOUS
<1>6. PICK q \in Int : q = (2 * s.prgOuter) \div twice
  BY <1>1
<1>7. PICK base \in Int : base = q * 2 * size
  OBVIOUS
<1>8. PICK x \in Int : x = s.prgInner % twice
  BY <1>1
<1>9. PICK y \in Int : y = s.prgInner % size
  BY <1>1
<1>10. PICK c \in Nat : c = Bits(s.mode, 2, 2) /\ c < 4
  BY <1>2, <1>20
<1>11. base + 2 * y + slot \in Int /\ base + x \in Int /\ 2 * s.prgOuter + slot \in Int
  BY <1>1
<1>12. Bank028(s, slot) = CASE c < 2 -> base + 2 * y + slot
      [] c = 2 -> IF slot = 1 THEN base + x ELSE 2 * s.prgOuter + slot
      [] c = 3 -> IF slot = 1 THEN 2 * s.prgOuter + slot ELSE base + x
  BY <1>3, <1>4, <1>5, <1>6, <1>7, <1>8, <1>9, <1>10, Zenon DEF Bank028
<1>13. c \in {0, 1} \/ c = 2 \/ c = 3
  BY <1>10
<1>14. CASE c \in {0, 1}
  <2>1. Bank028(s, slot) = base + 2 * y + slot
    BY <1>12, <1>14
  <2> QED
    BY <1>11, <2>1
<1>15. CASE c = 2
  <2>1. Bank028(s, slot) \in {base + x, 2 * s.prgOuter + slot}
    BY <1>12, <1>15
  <2> QED
    BY <1>11, <2>1
<1>16. CASE c = 3
  <2>1. Bank028(s, slot) \in {base + x, 2 * s.prgOuter + slot}
    BY <1>12, <1>16
  <2> QED
    BY <1>11, <2>1
<1> QED
  BY <1>13, <1>14, <1>15, <1>16

(* 028: every window is in the ROM.                                        *)
LEMMA Windows028 ==
  ASSUME NEW s, Regs028(s), NEW m \in Nat, m > 1, NEW j \in Nat \ {0}
  PROVE  PrgIn(Prg028(s, m), m) /\ ChrIn(Chr028(s, j), j)
<1>1. Bank028(s, 0) \in Int /\ Bank028(s, 1) \in Int
  BY Bank028Type
<1>2. Bank028(s, 0) % m \in 0..m - 1 /\ Bank028(s, 1) % m \in 0..m - 1
  BY <1>1, Remainder
<1>3. PICK c \in 0..j - 1 : c = s.chrBank % j
  BY Remainder DEF Regs028, Nats
<1>4. \A w \in ChrWindows : Raw8(c)[w] = c * 8 + w
  BY DEF Raw8
<1> QED
  BY <1>2, <1>3, <1>4, Raw16In DEF Prg028, Chr028, ChrIn, ChrWindows

Regs001(s) == /\ Nats(s, "controlReg") /\ Nats(s, "chrBank0") /\ Nats(s, "chrBank1")
              /\ Nats(s, "prgBankReg") /\ Nats(s, "loadReg")

(* 001, MMC1: what its registers hold.                                     *)
LEMMA Built001In == Regs001(Built001)
BY DEF Regs001, Nats, Built001

(* The fifth write to a register of MMC1 changes one of them.              *)
LEMMA Loaded001In ==
  ASSUME NEW s, Regs001(s), NEW a \in Nat, NEW v \in Nat, NEW m, NEW j
  PROVE  Regs001(Loaded001(s, a, v, m, j))
<1> DEFINE done == [s EXCEPT !.loadReg = 0, !.loadCount = 0]
<1>1. Regs001(done)
  BY DEF Regs001, Nats
<1> HIDE DEF done
<1>2. \A x : Regs001([done EXCEPT !.controlReg = v, !.mirror = x])
  BY <1>1 DEF Regs001, Nats
<1>3. \A x : Regs001([done EXCEPT !.chrBank0 = v, !.prgRamEnabled = x])
  BY <1>1 DEF Regs001, Nats
<1>4. Regs001([done EXCEPT !.chrBank1 = v])
  BY <1>1 DEF Regs001, Nats
<1>5. \A x : Regs001([done EXCEPT !.prgBankReg = v, !.prgRamEnabled = x])
  BY <1>1 DEF Regs001, Nats
<1>6. PICK c : c = Bits(a, 13, 2)
  OBVIOUS
<1>60. c \in {0, 1, 2, 3}
  <2>1. 2^2 = 4 /\ 13 \in Shifts /\ 2 \in Shifts
    BY SMT DEF Shifts
  <2>2. Bits(a, 13, 2) \in Nat /\ Bits(a, 13, 2) < 4
    BY <2>1, BitsType, Zenon
  <2> QED
    BY <1>6, <2>2
<1>7. Loaded001(s, a, v, m, j) =
        CASE c = 0 -> [done EXCEPT !.controlReg = v,
                         !.mirror = OutOf(<<"lo", "hi", "V", "H">>, v % 4)]
       [] c = 1 -> [done EXCEPT !.chrBank0 = v,
                         !.prgRamEnabled = IF j = 0 /\ m <= 16 THEN Bit(v, 4) = 0 ELSE @]
       [] c = 2 -> [done EXCEPT !.chrBank1 = v]
       [] c = 3 -> [done EXCEPT !.prgBankReg = v, !.prgRamEnabled = Bit(v, 4) = 0]
  BY <1>6, Zenon DEF Loaded001, done
<1>8. CASE c = 0
  <2>1. Loaded001(s, a, v, m, j) = [done EXCEPT !.controlReg = v,
                         !.mirror = OutOf(<<"lo", "hi", "V", "H">>, v % 4)]
    BY <1>7, <1>8
  <2> QED
    BY <1>2, <2>1
<1>9. CASE c = 1
  <2>1. Loaded001(s, a, v, m, j) = [done EXCEPT !.chrBank0 = v,
                         !.prgRamEnabled = IF j = 0 /\ m <= 16 THEN Bit(v, 4) = 0 ELSE @]
    BY <1>7, <1>9
  <2> QED
    BY <1>3, <2>1
<1>10. CASE c = 2
  BY <1>4, <1>7, <1>10
<1>11. CASE c = 3
  <2>1. Loaded001(s, a, v, m, j) = [done EXCEPT !.prgBankReg = v, !.prgRamEnabled = Bit(v, 4) = 0]
    BY <1>7, <1>11
  <2> QED
    BY <1>5, <2>1
<1> QED
  BY <1>60, <1>8, <1>9, <1>10, <1>11

(* 001: a write keeps what its registers hold.                             *)
LEMMA Written001In ==
  ASSUME NEW s, Regs001(s), NEW a \in Nat, NEW d \in Nat, NEW m, NEW j
  PROVE  Regs001(Written001(s, a, d, m, j))
<1>1. 0 \in Shifts /\ 4 \in Shifts
  BY DEF Shifts
<1>2. s.loadReg \in Nat /\ s.controlReg \in Nat
  BY DEF Regs001, Nats
<1>3. Bit(d, 0) \in Nat /\ Bit(s.controlReg, 4) \in Nat
  BY <1>1, <1>2, BitsInt
<1>4. PICK x \in Nat : x = s.loadReg \div 2 + 16 * Bit(d, 0)
  BY <1>2, <1>3
<1>5. PICK y \in Nat : y = 16 * Bit(s.controlReg, 4) + 12 + (s.controlReg % 4)
  BY <1>2, <1>3
<1>6. Regs001([s EXCEPT !.loadReg = 0, !.loadCount = 0, !.controlReg = y])
  BY DEF Regs001, Nats
<1>7. \A c : Regs001([s EXCEPT !.loadReg = x, !.loadCount = c])
  BY DEF Regs001, Nats
<1>8. Regs001(Loaded001(s, a, x, m, j))
  BY Loaded001In
<1>9. \/ Written001(s, a, d, m, j) = s
      \/ Written001(s, a, d, m, j) = [s EXCEPT !.loadReg = 0, !.loadCount = 0, !.controlReg = y]
      \/ Written001(s, a, d, m, j) = Loaded001(s, a, x, m, j)
      \/ Written001(s, a, d, m, j) = [s EXCEPT !.loadReg = x, !.loadCount = s.loadCount + 1]
  BY <1>4, <1>5 DEF Written001
<1> QED
  BY <1>6, <1>7, <1>8, <1>9

(* 001: every window is in a PRG ROM of the sizes it was made in.          *)
LEMMA Prg001In ==
  ASSUME NEW s, Regs001(s), NEW m \in {16, 32}
  PROVE  PrgIn(Prg001(s, m), m)
<1>1. s.chrBank0 \in Nat /\ s.prgBankReg \in Nat /\ s.controlReg \in Nat
  BY DEF Regs001, Nats
<1>2. PICK outer \in 0..m - 16 : outer = IF m > 16 THEN 16 * Bit(s.chrBank0, 4) ELSE 0
  BY <1>1, BitIs DEF Shifts
<1>3. PICK bank \in 0..m - 1 : bank = outer + (s.prgBankReg % 16)
  BY <1>1, <1>2
<1>4. PICK last \in 0..m - 1 : last = IF m > 16 THEN outer + 15 ELSE m - 1
  BY <1>2
<1>5. PICK p : p = Bit(s.controlReg, 3)
  OBVIOUS
<1>6. PICK q : q = Bits(s.controlReg, 2, 2)
  OBVIOUS
<1>7. p = 0 \/ q = 2 \/ q = 3
  BY <1>1, <1>5, <1>6 DEF Bit, Bits
<1>8. Prg001(s, m) = CASE p = 0 -> Raw32(bank \div 2)
       [] q = 3 -> Raw16(bank, last)
       [] q = 2 -> Raw16(outer, bank)
  BY <1>2, <1>3, <1>4, <1>5, <1>6, Zenon DEF Prg001
<1>9. outer \in 0..m - 1
  BY <1>2
<1>10. PICK half \in Nat : half = bank \div 2 /\ 4 * half + 3 < 2 * m
  BY <1>3
<1>11. PrgIn(Raw32(half), m)
  <2>1. \A w \in 0..3 : Raw32(half)[w] = half * 4 + w
    BY DEF Raw32, PrgWindows
  <2> QED
    BY <1>10, <2>1 DEF PrgIn, PrgWindows
<1>12. PrgIn(Raw16(bank, last), m) /\ PrgIn(Raw16(outer, bank), m)
  BY <1>9, Raw16In
<1>13. Prg001(s, m) \in {Raw32(half), Raw16(bank, last), Raw16(outer, bank)}
  BY <1>7, <1>8, <1>10
<1> QED
  BY <1>11, <1>12, <1>13

Least(j) == IF j = 0 THEN 1 ELSE j

(* 001: every window is in the CHR, or in its RAM where there is none.     *)
LEMMA Chr001In ==
  ASSUME NEW s, Regs001(s), NEW j \in Nat
  PROVE  ChrIn(Chr001(s, j), Least(j))
<1>1. s.chrBank0 \in Nat /\ s.chrBank1 \in Nat /\ s.controlReg \in Nat
  BY DEF Regs001, Nats
<1>2. PICK y \in Nat \ {0} : y = Least(j)
  BY DEF Least
<1>3. PICK t \in Nat \ {0} : t = IF j > 0 THEN 2 * j ELSE 2
  OBVIOUS
<1>4. t = 2 * y
  BY <1>2, <1>3 DEF Least
<1>5. PICK c0 \in 0..t - 1 : c0 = s.chrBank0 % t
  BY <1>1
<1>6. PICK c1 \in 0..t - 1 : c1 = s.chrBank1 % t
  BY <1>1
<1>7. PICK p : p = Bit(s.controlReg, 4) /\ p \in {0, 1}
  BY <1>1, BitIs DEF Shifts
<1>8. CASE p = 1
  <2>1. Chr001(s, j) = [w \in ChrWindows |-> (IF w < 4 THEN c0 ELSE c1) * 4 + (w % 4)]
    BY <1>3, <1>5, <1>6, <1>7, <1>8 DEF Chr001
  <2> QED
    BY <1>2, <1>4, <2>1 DEF ChrIn, ChrWindows
<1>9. CASE p = 0
  <2>1. Chr001(s, j) = IF j = 0 THEN Raw8(0) ELSE Chr8(s.chrBank0 \div 2, j)
    BY <1>7, <1>9 DEF Chr001
  <2>2. s.chrBank0 \div 2 \in Int
    BY <1>1
  <2>3. ChrIn(Raw8(0), 1)
    BY DEF Raw8, ChrIn, ChrWindows
  <2> QED
    BY <2>1, <2>2, <2>3, Chr8In DEF Least
<1> QED
  BY <1>7, <1>8, <1>9

-----------------------------------------------------------------------------
(* 009 and 010: two pairs of banks.                                        *)
RegsLatched(s) ==
  /\ HasEach(s, "chrA", {1, 2}) /\ HasEach(s, "chrB", {1, 2})

(* MMC2 and MMC4 start with what their registers hold.                     *)
LEMMA BuiltLatchedIn == RegsLatched(BuiltLatched)
<1>1. <<0, 0>> \in [{1, 2} -> Int]
  <2>1. DOMAIN <<0, 0>> = 1..2 /\ <<0, 0>>[1] = 0 /\ <<0, 0>>[2] = 0
    OBVIOUS
  <2>2. 1..2 = {1, 2}
    OBVIOUS
  <2>3. <<0, 0>> = [i \in {1, 2} |-> 0]
    BY <2>1, <2>2
  <2> QED
    BY <2>3
<1> QED
  BY <1>1 DEF RegsLatched, HasEach, BuiltLatched

(* A table of a board with one entry replaced.                             *)
LEMMA EntryPut ==
  ASSUME NEW S, NEW t \in [S -> Int], NEW i, NEW x \in Int
  PROVE  [t EXCEPT ![i] = x] \in [S -> Int]
OBVIOUS

(* A write keeps it, and so does the fetch of a watched tile.              *)
LEMMA WrittenLatchedIn ==
  ASSUME NEW s, RegsLatched(s), NEW a \in Nat, NEW d \in Nat
  PROVE  RegsLatched(WrittenLatched(s, a, d))
<1>1. PICK x \in Int : x = d % 32
  OBVIOUS
<1>2. \A i, v : RegsLatched([s EXCEPT !.prgBank = v]) /\ RegsLatched([s EXCEPT !.mirror = v])
  BY DEF RegsLatched, HasEach
<1>3. \A i : /\ [s.chrA EXCEPT ![i] = x] \in [{1, 2} -> Int]
             /\ [s.chrB EXCEPT ![i] = x] \in [{1, 2} -> Int]
  BY EntryPut DEF RegsLatched, HasEach
<1>4. \A i : RegsLatched([s EXCEPT !.chrA[i] = x])
  BY <1>3 DEF RegsLatched, HasEach
<1>5. \A i : RegsLatched([s EXCEPT !.chrB[i] = x])
  BY <1>3 DEF RegsLatched, HasEach
<1> QED
  BY <1>1, <1>2, <1>4, <1>5 DEF WrittenLatched

(* The fetch of a watched tile throws a latch, and moves no bank.          *)
LEMMA FetchedIn ==
  ASSUME NEW s, RegsLatched(s), NEW a
  PROVE  RegsLatched(Fetched009(s, a)) /\ RegsLatched(Fetched010(s, a))
<1>1. \A i, v : RegsLatched([s EXCEPT !.latch[i] = v])
  BY DEF RegsLatched, HasEach
<1>2. Fetched009(s, a) \in {s, [s EXCEPT !.latch[1] = "FD"], [s EXCEPT !.latch[1] = "FE"],
                            [s EXCEPT !.latch[2] = "FD"], [s EXCEPT !.latch[2] = "FE"]}
  BY DEF Fetched009
<1>3. Fetched010(s, a) \in {s, [s EXCEPT !.latch[1] = "FD"], [s EXCEPT !.latch[1] = "FE"],
                            [s EXCEPT !.latch[2] = "FD"], [s EXCEPT !.latch[2] = "FE"]}
  BY DEF Fetched010
<1> QED
  BY <1>1, <1>2, <1>3

(* Whichever bank the latches choose is in the CHR.                        *)
LEMMA ChrLatchedIn ==
  ASSUME NEW s, RegsLatched(s), NEW j \in Nat \ {0}
  PROVE  ChrIn(ChrLatched(s, j), j)
<1>1. 2 * j \in Nat \ {0} /\ j # 0
  OBVIOUS
<1> DEFINE bank(half) == MaskBank(IF s.latch[half] = "FD" THEN s.chrA[half] ELSE s.chrB[half], 2 * j)
<1>2. \A half \in {1, 2} : bank(half) \in 0..2 * j - 1
  BY <1>1, MaskBankIn DEF RegsLatched, HasEach
<1> HIDE DEF bank
<1>3. ChrLatched(s, j) = [w \in ChrWindows |-> bank(1 + w \div 4) * 4 + (w % 4)]
  BY <1>1, Zenon DEF ChrLatched, bank
<1>4. \A w \in ChrWindows : 1 + w \div 4 \in {1, 2}
  BY DEF ChrWindows
<1>5. ASSUME NEW w \in ChrWindows PROVE ChrLatched(s, j)[w] \in 0..8 * j - 1
  <2>1. PICK c \in 0..2 * j - 1 : c = bank(1 + w \div 4)
    BY <1>2, <1>4
  <2>2. ChrLatched(s, j)[w] = c * 4 + (w % 4)
    BY <1>3, <2>1
  <2> QED
    BY <2>2 DEF ChrWindows
<1> QED
  BY <1>5 DEF ChrIn

(* The windows that 009 keeps fixed.                                       *)
LEMMA Prg009In ==
  ASSUME NEW s, NEW m \in Nat, m > 1
  PROVE  \A w \in {1, 2, 3} : Prg009(s, m)[w] \in 0..2 * m - 1
BY DEF Prg009, Prg8s, PrgWindows

(* A table with an entry replaced, where it has that entry.                *)
LEMMA EntrySet ==
  ASSUME NEW S, NEW t \in [S -> Int], NEW i, NEW x, i \in S => x \in Int
  PROVE  [t EXCEPT ![i] = x] \in [S -> Int]
OBVIOUS

(* Tables of zeros.                                                        *)
LEMMA ZerosType ==
  /\ Zeros(2) \in [0..1 -> Int] /\ Zeros(3) \in [0..2 -> Int] /\ Zeros(4) \in [0..3 -> Int]
  /\ Zeros(6) \in [0..5 -> Int] /\ Zeros(8) \in [0..7 -> Int]
BY DEF Zeros

(* The banks at the end of the ROM are numbers.                            *)
LEMMA Last8Type ==
  ASSUME NEW m \in Nat, NEW back \in Nat
  PROVE  Last8(m, back) \in Nat
BY DEF Last8

(* Windows of 8 KB whose banks are reduced by the byte that holds their    *)
(* number.                                                                 *)
LEMMA ByBytesIn ==
  ASSUME NEW m \in Nat \ {0}, NEW b0 \in Int, NEW b1 \in Int, NEW b2 \in Int, NEW b3 \in Int,
         NEW t, t = (2 * m) % 256
  PROVE  PrgIn(Prg8s(MaskBank(b0, t), MaskBank(b1, t), MaskBank(b2, t), MaskBank(b3, t)), m)
<1> DEFINE c(bank) == MaskBank(bank, t)
<1>1. c(b0) \in 0..2 * m - 1 /\ c(b1) \in 0..2 * m - 1 /\ c(b2) \in 0..2 * m - 1 /\ c(b3) \in 0..2 * m - 1
  BY MaskByteIn
<1> HIDE DEF c
<1>2. PrgIn(Prg8s(c(b0), c(b1), c(b2), c(b3)), m)
  BY <1>1, Prg8sIn
<1> QED
  BY <1>2 DEF c

-----------------------------------------------------------------------------
Regs022(s) == HasEach(s, "prg", 0..1) /\ HasEach(s, "chr", 0..7)

(* 022: a write keeps what its registers hold.                             *)
LEMMA Keeps022 ==
  ASSUME NEW s, Regs022(s), NEW a \in Nat, NEW d \in Nat
  PROVE  Regs022(Written022(s, a, d))
<1>1. s.prg \in [0..1 -> Int] /\ s.chr \in [0..7 -> Int]
  BY DEF Regs022, HasEach
<1>2. PICK v \in Int : v = d % 16
  OBVIOUS
<1>3. PICK i : i = (Page(a) - 11) * 2 + Bit(a, 0)
  OBVIOUS
<1>4. PICK x : x = IF Bit(a, 1) = 1 THEN (s.chr[i] % 16) + 16 * v
                   ELSE 16 * (s.chr[i] \div 16) + v
  OBVIOUS
<1>5. i \in 0..7 => x \in Int
  BY <1>1, <1>4
<1>6. [s.chr EXCEPT ![i] = x] \in [0..7 -> Int]
  BY <1>1, <1>5, EntrySet
<1>7. \A q : [s.prg EXCEPT ![q] = v] \in [0..1 -> Int]
  BY <1>1, EntrySet
<1>8. Regs022([s EXCEPT !.chr[i] = x])
  BY <1>6 DEF Regs022, HasEach
<1>9. \A q : Regs022([s EXCEPT !.prg[q] = v])
  BY <1>7 DEF Regs022, HasEach
<1>10. \A q : Regs022([s EXCEPT !.mirror = q])
  BY DEF Regs022, HasEach
<1>11. \/ Written022(s, a, d) = s
       \/ Written022(s, a, d) = [s EXCEPT !.prg[0] = v]
       \/ Written022(s, a, d) = [s EXCEPT !.prg[1] = v]
       \/ Written022(s, a, d) = [s EXCEPT !.mirror = FourWays(d % 4)]
       \/ Written022(s, a, d) = [s EXCEPT !.chr[i] = x]
  BY <1>2, <1>3, <1>4, SMT DEF Written022
<1> QED
  BY <1>8, <1>9, <1>10, <1>11

(* 022: what its registers hold.                                           *)
LEMMA Built022In == Regs022(Built022)
BY ZerosType DEF Regs022, HasEach, Built022

(* 022: every window is in the ROM.                                        *)
LEMMA Windows022 ==
  ASSUME NEW s, Regs022(s), NEW m \in Nat \ {0}, NEW j \in Nat \ {0}
  PROVE  PrgIn(Prg022(s, m), m) /\ ChrIn(Chr022(s, j), j)
<1>1. s.prg[0] \in Int /\ s.prg[1] \in Int /\ \A w \in 0..7 : s.chr[w] \in Int
  BY DEF Regs022, HasEach
<1>2. Last8(m, 1) \in Int /\ Last8(m, 2) \in Int
  BY Last8Type
<1>3. PrgIn(Prg022(s, m), m)
  <2>1. PICK c : c = (2 * m) % 256
    OBVIOUS
  <2>2. PICK p0 \in Int, p1 \in Int, p2 \in Int, p3 \in Int :
          p0 = s.prg[0] /\ p1 = s.prg[1] /\ p2 = Last8(m, 2) /\ p3 = Last8(m, 1)
    BY <1>1, <1>2
  <2>3. Prg022(s, m) = Prg8s(MaskBank(p0, c), MaskBank(p1, c), MaskBank(p2, c), MaskBank(p3, c))
    BY <2>1, <2>2 DEF Prg022
  <2>4. PrgIn(Prg8s(MaskBank(p0, c), MaskBank(p1, c), MaskBank(p2, c), MaskBank(p3, c)), m)
    BY <2>1, ByBytesIn
  <2> QED
    BY <2>3, <2>4, Zenon
<1>4. PICK t \in Nat \ {0} : t = 8 * j
  OBVIOUS
<1>5. ASSUME NEW w \in 0..7 PROVE (s.chr[w] \div 2) % t \in 0..t - 1
  <2>1. s.chr[w] \div 2 \in Int
    BY <1>1
  <2> QED
    BY <2>1, Remainder
<1>6. Chr022(s, j) = [w \in ChrWindows |-> (s.chr[w] \div 2) % t]
  BY <1>4, Zenon DEF Chr022
<1> QED
  BY <1>3, <1>4, <1>5, <1>6 DEF ChrIn, ChrWindows

-----------------------------------------------------------------------------
Regs193(s) == HasEach(s, "reg", 0..3)

(* 193: a write keeps what its registers hold.                             *)
LEMMA Keeps193 ==
  ASSUME NEW s, Regs193(s), NEW a \in Nat, NEW d \in Nat
  PROVE  Regs193(Written193(s, a, d))
<1>1. \A q : [s.reg EXCEPT ![q] = d] \in [0..3 -> Int]
  BY EntrySet DEF Regs193, HasEach
<1>2. \A q : Regs193([s EXCEPT !.reg[q] = d])
  BY <1>1 DEF Regs193, HasEach
<1> QED
  BY <1>2 DEF Written193

(* 193: every window is in the ROM.                                        *)
LEMMA Windows193 ==
  ASSUME NEW s, Regs193(s), NEW m \in Nat \ {0}, NEW j \in Nat \ {0}
  PROVE  PrgIn(Prg193(s, m), m) /\ ChrIn(Chr193(s, j), j)
<1>1. \A i \in 0..3 : s.reg[i] \in Int
  BY DEF Regs193, HasEach
<1>2. Last8(m, 1) \in Int /\ Last8(m, 2) \in Int /\ Last8(m, 3) \in Int
  BY DEF Last8
<1>20. s.reg[3] \in Int
  BY <1>1
<1>3. PrgIn(Prg193(s, m), m)
  <2>0. PICK c : c = (2 * m) % 256
    OBVIOUS
  <2>1. PICK p0 \in Int, p1 \in Int, p2 \in Int, p3 \in Int :
          p0 = s.reg[3] /\ p1 = Last8(m, 3) /\ p2 = Last8(m, 2) /\ p3 = Last8(m, 1)
    BY <1>2, <1>20
  <2>2. Prg193(s, m) = Prg8s(MaskBank(p0, c), MaskBank(p1, c), MaskBank(p2, c), MaskBank(p3, c))
    BY <2>0, <2>1 DEF Prg193
  <2>3. PrgIn(Prg8s(MaskBank(p0, c), MaskBank(p1, c), MaskBank(p2, c), MaskBank(p3, c)), m)
    BY <2>0, ByBytesIn
  <2> QED
    BY <2>2, <2>3, Zenon
<1>4. PICK t \in Nat \ {0} : t = 8 * j
  OBVIOUS
<1>5. ASSUME NEW w \in ChrWindows PROVE Chr193(s, j)[w] \in 0..t - 1
  <2>1. PICK x : x = CASE w < 4        -> 4 * (s.reg[0] \div 4) + w
             [] w \in {4, 5} -> 2 * (s.reg[1] \div 2) + (w % 2)
             [] w \in {6, 7} -> 2 * (s.reg[2] \div 2) + (w % 2)
    OBVIOUS
  <2>2. x \in Int
    BY <1>1, <2>1 DEF ChrWindows
  <2>3. Chr193(s, j)[w] = x % t
    BY <1>4, <2>1 DEF Chr193
  <2> QED
    BY <2>2, <2>3, Remainder
<1> QED
  BY <1>3, <1>4, <1>5 DEF ChrIn

-----------------------------------------------------------------------------
Regs246(s) == HasEach(s, "prg", 0..3)

(* 246: a write keeps what its registers hold.                             *)
LEMMA Keeps246 ==
  ASSUME NEW s, Regs246(s), NEW a \in Nat, NEW d \in Nat
  PROVE  Regs246(Written246(s, a, d))
<1>1. \A q : [s.prg EXCEPT ![q] = d] \in [0..3 -> Int]
  BY EntrySet DEF Regs246, HasEach
<1>2. \A q : Regs246([s EXCEPT !.prg[q] = d]) /\ Regs246([s EXCEPT !.chr[q] = d])
  BY <1>1 DEF Regs246, HasEach
<1>3. Written246(s, a, d) \in {s, [s EXCEPT !.prg[a % 8] = d], [s EXCEPT !.chr[(a % 8) - 4] = d]}
  BY DEF Written246
<1> QED
  BY <1>2, <1>3

(* 246: every window is in the ROM.                                        *)
LEMMA Windows246 ==
  ASSUME NEW s, Regs246(s), NEW m \in Nat \ {0}
  PROVE  PrgIn(Prg246(s, m), m)
<1>1. PICK t \in Nat \ {0} : t = 2 * m
  OBVIOUS
<1>2. \A w \in 0..3 : s.prg[w] \in Int
  BY DEF Regs246, HasEach
<1>3. \A w \in 0..3 : s.prg[w] % t \in 0..t - 1
  BY <1>2, Remainder
<1>4. Prg246(s, m) = [w \in PrgWindows |-> s.prg[w] % t]
  BY <1>1, Zenon DEF Prg246
<1> QED
  BY <1>1, <1>3, <1>4 DEF PrgIn, PrgWindows

-----------------------------------------------------------------------------
Regs189(s) == Has(s, "prg32")

(* 189's bank is a number.                                                 *)
LEMMA JoinedType ==
  ASSUME NEW d \in Nat
  PROVE  Joined(d) \in Int
<1>1. 2^0 = 1 /\ 2^1 = 2 /\ 2^2 = 4 /\ 2^3 = 8
  BY SMT
<1> QED
  BY <1>1 DEF Joined

(* 189: a write keeps what its registers hold.                             *)
LEMMA Keeps189 ==
  ASSUME NEW s, Regs189(s), NEW a \in Nat, NEW d \in Nat
  PROVE  Regs189(Written189(s, a, d))
<1>1. PICK x \in Int : x = Joined(d)
  BY JoinedType
<1>2. /\ Regs189([s EXCEPT !.prg32 = x]) /\ Regs189(Target(s, d))
      /\ \A q : Regs189([s EXCEPT !.mirror = q])
  BY DEF Regs189, Has, Target
<1>3. PICK put : put = [s EXCEPT !.R[s.target] = d]
  OBVIOUS
<1>4. Regs189(put)
  BY <1>3 DEF Regs189, Has
<1>5. \A q : Regs189([put EXCEPT !.chrBank = q])
  BY <1>4 DEF Regs189, Has
<1>6. Written189(s, a, d) \in {s, [s EXCEPT !.prg32 = x], Target(s, d),
                               [put EXCEPT !.chrBank = ChrMMC3(put)],
                               [s EXCEPT !.mirror = VH(d % 2)]}
  BY <1>1, <1>3 DEF Written189
<1> QED
  BY <1>2, <1>4, <1>5, <1>6

(* 189: every window is in the ROM.                                        *)
LEMMA Windows189 ==
  ASSUME NEW s, Regs189(s), NEW m \in Nat, m > 1
  PROVE  PrgIn(Prg32(s.prg32, m), m)
BY Prg32In DEF Regs189, Has

-----------------------------------------------------------------------------
Regs048(s) == HasEach(s, "prg", 0..1) /\ HasEach(s, "chr", 0..5)

(* 048: a write keeps what its registers hold.                             *)
LEMMA Banks048 ==
  ASSUME NEW s, Regs048(s), NEW a \in Nat, NEW d \in Nat
  PROVE  Regs048(Written048(s, a, d))
<1>1. PICK v \in Int : v = d % 64
  OBVIOUS
<1>2. \A q : /\ [s.chr EXCEPT ![q] = d] \in [0..5 -> Int]
             /\ [s.prg EXCEPT ![q] = v] \in [0..1 -> Int]
  BY EntrySet DEF Regs048, HasEach
<1>3. \A q : /\ Regs048([s EXCEPT !.chr[q] = d]) /\ Regs048([s EXCEPT !.prg[q] = v])
             /\ Regs048([s EXCEPT !.mirror = q])
  BY <1>2 DEF Regs048, HasEach
<1>4. \/ Written048(s, a, d) = s
      \/ Written048(s, a, d) = [s EXCEPT !.prg[a % 4] = v]
      \/ Written048(s, a, d) = [s EXCEPT !.chr[(a % 4) - 2] = d]
      \/ Written048(s, a, d) = [s EXCEPT !.chr[(a % 4) + 2] = d]
      \/ Written048(s, a, d) = [s EXCEPT !.mirror = VH(Bit(d, 6))]
  BY <1>1 DEF Written048
<1> QED
  BY <1>3, <1>4

(* 048: every window is in the ROM.                                        *)
LEMMA Windows048 ==
  ASSUME NEW s, Regs048(s), NEW m \in Nat \ {0}, NEW j \in Nat \ {0}
  PROVE  PrgIn(Prg048(s, m), m) /\ ChrIn(Chr048(s, j), j)
<1>1. s.prg[0] \in Int /\ s.prg[1] \in Int /\ \A w \in 0..5 : s.chr[w] \in Int
  BY DEF Regs048, HasEach
<1>2. Last8(m, 1) \in Int /\ Last8(m, 2) \in Int
  BY Last8Type
<1>3. ASSUME NEW w \in 0..3 PROVE Prg048(s, m)[w] \in 0..2 * m - 1
  <2>1. PICK x : x = <<s.prg[0], s.prg[1], Last8(m, 2), Last8(m, 1)>>[w + 1]
    OBVIOUS
  <2>2. x \in Int
    BY <1>1, <1>2, <2>1
  <2>3. Prg048(s, m)[w] = MaskBank(x, (2 * m) % 256)
    BY <2>1, Zenon DEF Prg048, PrgWindows
  <2> QED
    BY <2>2, <2>3, MaskByteIn
<1>4. PICK t \in Nat \ {0} : t = 8 * j
  OBVIOUS
<1>5. PICK ones \in [0..3 -> Int] : ones = [i \in 0..3 |-> s.chr[i + 2]]
  <2>1. \A i \in 0..3 : i + 2 \in 0..5
    OBVIOUS
  <2> QED
    BY <1>1, <2>1
<1>6. PICK layout \in [ChrWindows -> Int] : layout = Chr2And1(s.chr[0], s.chr[1], ones)
  BY <1>1, Chr2And1Type
<1>7. Chr048(s, j) = Modulo(layout, t)
  BY <1>4, <1>5, <1>6, Zenon DEF Chr048
<1>8. \A w \in ChrWindows : Modulo(layout, t)[w] \in 0..t - 1
  BY ModuloIn
<1> QED
  BY <1>3, <1>4, <1>7, <1>8 DEF PrgIn, ChrIn, PrgWindows

-----------------------------------------------------------------------------
Regs067(s) == Has(s, "prg")

(* 067: a write keeps what its registers hold.                             *)
LEMMA Banks067 ==
  ASSUME NEW s, Regs067(s), NEW a \in Nat, NEW d \in Nat
  PROVE  Regs067(Written067(s, a, d))
<1>1. \A q : /\ Regs067([s EXCEPT !.chr[q] = d]) /\ Regs067([s EXCEPT !.prg = d])
             /\ Regs067([s EXCEPT !.mirror = q])
  BY DEF Regs067, Has
<1>2. Written067(s, a, d) \in {s, [s EXCEPT !.chr[Page(a) - 8] = d],
                      [s EXCEPT !.mirror = FourWays(d % 4)], [s EXCEPT !.prg = d]}
  BY DEF Written067
<1> QED
  BY <1>1, <1>2

(* 067: every window is in the ROM.                                        *)
LEMMA Windows067 ==
  ASSUME NEW s, Regs067(s), NEW m \in Nat \ {0}
  PROVE  PrgIn(Prg067(s, m), m)
BY Prg16In DEF Regs067, Has, Prg067

-----------------------------------------------------------------------------
Regs069(s) == HasEach(s, "prg", 0..2) /\ HasEach(s, "chr", 0..7)

(* 069: a write keeps what its registers hold.                             *)
LEMMA Banks069 ==
  ASSUME NEW s, Regs069(s), NEW a \in Nat, NEW d \in Nat
  PROVE  Regs069(Written069(s, a, d))
<1>1. PICK v \in Int : v = d % 64
  OBVIOUS
<1>2. \A q : /\ [s.chr EXCEPT ![q] = d] \in [0..7 -> Int]
             /\ [s.prg EXCEPT ![q] = v] \in [0..2 -> Int]
  BY EntrySet DEF Regs069, HasEach
<1>3. \A q : /\ Regs069([s EXCEPT !.chr[q] = d]) /\ Regs069([s EXCEPT !.prg[q] = v])
             /\ Regs069([s EXCEPT !.mirror = q]) /\ Regs069([s EXCEPT !.command = q])
             /\ Regs069([s EXCEPT !.workRam = q])
  BY <1>2 DEF Regs069, HasEach
<1>4. \/ Written069(s, a, d) = s
      \/ Written069(s, a, d) = [s EXCEPT !.command = d % 16]
      \/ Written069(s, a, d) = [s EXCEPT !.chr[s.command] = d]
      \/ Written069(s, a, d) = [s EXCEPT !.workRam = d]
      \/ Written069(s, a, d) = [s EXCEPT !.prg[s.command - 9] = v]
      \/ Written069(s, a, d) = [s EXCEPT !.mirror = FourWays(d % 4)]
  BY <1>1 DEF Written069
<1> QED
  BY <1>3, <1>4

(* 069: every window is in the ROM.                                        *)
LEMMA Windows069 ==
  ASSUME NEW s, Regs069(s), NEW m \in Nat \ {0}, NEW j \in Nat \ {0}
  PROVE  PrgIn(Prg069(s, m), m) /\ ChrIn(Chr069(s, j), j)
<1>1. \A w \in 0..2 : s.prg[w] \in Int
  BY DEF Regs069, HasEach
<1>2. \A w \in 0..7 : s.chr[w] \in Int
  BY DEF Regs069, HasEach
<1>3. PICK t \in Nat \ {0} : t = 2 * m
  OBVIOUS
<1>4. PICK u \in Nat \ {0} : u = 8 * j
  OBVIOUS
<1>5. ASSUME NEW w \in PrgWindows PROVE Prg069(s, m)[w] \in 0..t - 1
  <2>1. PICK x : x = IF w < 3 THEN s.prg[w] ELSE t - 1
    OBVIOUS
  <2>2. x \in Int
    BY <1>1, <2>1 DEF PrgWindows
  <2>3. Prg069(s, m)[w] = MaskBank(x, t)
    BY <1>3, <2>1, Zenon DEF Prg069
  <2> QED
    BY <2>2, <2>3, MaskBankIn
<1>6. ASSUME NEW w \in ChrWindows PROVE Chr069(s, j)[w] \in 0..u - 1
  <2>1. Chr069(s, j)[w] = MaskBank(s.chr[w], u)
    BY <1>4, Zenon DEF Chr069
  <2>2. s.chr[w] \in Int
    BY <1>2 DEF ChrWindows
  <2> QED
    BY <2>1, <2>2, MaskBankIn
<1> QED
  BY <1>3, <1>4, <1>5, <1>6 DEF PrgIn, ChrIn

Regs024(s) ==
  /\ Has(s, "prg16") /\ Has(s, "prg8") /\ Nats(s, "bMode") /\ HasEach(s, "chrReg", 0..7)

(* 024: a write keeps what its registers hold.                             *)
LEMMA Banks024 ==
  ASSUME NEW s, Regs024(s), NEW b, NEW a \in Nat, NEW d \in Nat
  PROVE  Regs024(Written024(b, s, a, d))
<1>1. d % 16 \in Int /\ d % 32 \in Int /\ d % 4 \in Nat
  OBVIOUS
<1>2. \A q : [s.chrReg EXCEPT ![q] = d] \in [0..7 -> Int]
  BY EntrySet DEF Regs024, HasEach
<1>3. \A q : Regs024([s EXCEPT !.chrReg[q] = d])
  BY <1>2 DEF Regs024, HasEach, Has, Nats
<1>4. \A x \in Int : Regs024([s EXCEPT !.prg16 = x]) /\ Regs024([s EXCEPT !.prg8 = x])
  BY DEF Regs024, HasEach, Has, Nats
<1>5. \A p, q : \A x \in Nat : Regs024([s EXCEPT !.bMode = x, !.ppuA10rule = p, !.mirror = q])
  BY DEF Regs024, HasEach, Has, Nats
<1>6. PICK reg : reg = Canon(b, a)
  OBVIOUS
<1>7. \/ Written024(b, s, a, d) = s
      \/ Written024(b, s, a, d) = [s EXCEPT !.prg16 = d % 16]
      \/ Written024(b, s, a, d) = [s EXCEPT !.bMode = d % 4, !.ppuA10rule = Bit(d, 5) = 1,
                                     !.mirror = FourWays(Bits(d, 2, 2))]
      \/ Written024(b, s, a, d) = [s EXCEPT !.prg8 = d % 32]
      \/ Written024(b, s, a, d) = [s EXCEPT !.chrReg[(Page(a) - 13) * 4 + (reg % 4)] = d]
  BY <1>6, SMT DEF Written024
<1>9. /\ Regs024([s EXCEPT !.prg16 = d % 16]) /\ Regs024([s EXCEPT !.prg8 = d % 32])
      /\ Regs024([s EXCEPT !.bMode = d % 4, !.ppuA10rule = Bit(d, 5) = 1,
                           !.mirror = FourWays(Bits(d, 2, 2))])
      /\ Regs024([s EXCEPT !.chrReg[(Page(a) - 13) * 4 + (reg % 4)] = d])
  BY <1>1, <1>3, <1>4, <1>5, Zenon
<1> QED
  BY <1>7, <1>9, Zenon

(* 024: every window is in the ROM.                                        *)
LEMMA Windows024 ==
  ASSUME NEW s, Regs024(s), NEW m \in Nat \ {0}, NEW j \in Nat \ {0}
  PROVE  PrgIn(Prg024(s, m), m) /\ ChrIn(Chr024(s, j), j)
<1>1. /\ s.prg16 \in Int /\ s.prg8 \in Int /\ s.bMode \in Nat
      /\ \A i \in 0..7 : s.chrReg[i] \in Int
  BY DEF Regs024, HasEach, Has, Nats
<1>2. Last8(m, 1) \in Int
  BY DEF Last8
<1>3. ASSUME NEW w \in 0..3 PROVE Prg024(s, m)[w] \in 0..2 * m - 1
  <2>1. PICK x : x = <<2 * s.prg16, 2 * s.prg16 + 1, s.prg8, Last8(m, 1)>>[w + 1]
    OBVIOUS
  <2>2. x \in Int
    BY <1>1, <1>2, <2>1
  <2>3. Prg024(s, m)[w] = MaskBank(x, (2 * m) % 256)
    BY <2>1, Zenon DEF Prg024, PrgWindows
  <2> QED
    BY <2>2, <2>3, MaskByteIn
<1> DEFINE pair(reg, w) == IF s.ppuA10rule THEN 2 * (reg \div 2) + (w % 2) ELSE reg
<1> DEFINE plain(w) ==
      CASE s.bMode = 0            -> s.chrReg[w]
        [] s.bMode = 1            -> pair(s.chrReg[w \div 2], w)
        [] s.bMode > 1 /\ w < 4   -> s.chrReg[w]
        [] s.bMode > 1 /\ w >= 4  -> pair(s.chrReg[2 + w \div 2], w)
<1> DEFINE layout == [w \in ChrWindows |-> plain(w)]
<1>4. PICK t \in Nat \ {0} : t = 8 * j
  OBVIOUS
<1>5. ASSUME NEW w \in 0..7 PROVE plain(w) \in Int
  <2>1. /\ w \div 2 \in 0..7 /\ 2 + w \div 2 \in 0..7
    OBVIOUS
  <2>2. \A x \in Int : pair(x, w) \in Int
    OBVIOUS
  <2> HIDE DEF pair
  <2>3. /\ s.chrReg[w] \in Int /\ pair(s.chrReg[w \div 2], w) \in Int
        /\ pair(s.chrReg[2 + w \div 2], w) \in Int
    BY <1>1, <2>1, <2>2
  <2>4. s.bMode = 0 \/ s.bMode = 1 \/ (s.bMode > 1 /\ w < 4) \/ (s.bMode > 1 /\ w >= 4)
    BY <1>1
  <2> QED
    BY <2>3, <2>4
<1>6. layout \in [ChrWindows -> Int]
  <2> HIDE DEF plain
  <2> QED
    BY <1>5 DEF ChrWindows
<1>7. Chr024(s, j) = Modulo(layout, t)
  BY <1>4, Zenon DEF Chr024
<1> HIDE DEF layout
<1>8. \A w \in ChrWindows : Modulo(layout, t)[w] \in 0..t - 1
  BY <1>6, ModuloIn
<1> QED
  BY <1>3, <1>4, <1>7, <1>8 DEF PrgIn, ChrIn, PrgWindows

-----------------------------------------------------------------------------
(* 005                                                                     *)
Regs005(s) ==
  /\ "prgMode" \in DOMAIN s /\ s.prgMode \in 0..3
  /\ "chrMode" \in DOMAIN s /\ s.chrMode \in 0..3
  /\ Nats(s, "chrHigh")
  /\ "prgReg" \in DOMAIN s /\ s.prgReg \in [1..5 -> Nat]
  /\ HasEach(s, "chrA", 0..7) /\ HasEach(s, "chrB", 0..3)

(* MMC5 starts with what its registers hold.                               *)
LEMMA Built005In == Regs005(Built005)
<1>1. /\ Built005.prgMode = 3 /\ Built005.chrMode = 3 /\ Built005.chrHigh = 0
      /\ Built005.prgReg = <<0, 0, 0, 0, 255>>
      /\ Built005.chrA = [i \in 0..7 |-> 0] /\ Built005.chrB = [i \in 0..3 |-> 0]
      /\ "prgMode" \in DOMAIN Built005 /\ "chrMode" \in DOMAIN Built005
      /\ "chrHigh" \in DOMAIN Built005 /\ "prgReg" \in DOMAIN Built005
      /\ "chrA" \in DOMAIN Built005 /\ "chrB" \in DOMAIN Built005
  BY DEF Built005
<1>2. <<0, 0, 0, 0, 255>> \in [1..5 -> Nat]
  OBVIOUS
<1> QED
  BY <1>1, <1>2 DEF Regs005, HasEach, Nats

(* A write to MMC5 keeps it.                                               *)
LEMMA Written005In ==
  ASSUME NEW s, Regs005(s), NEW a \in Nat, NEW d \in Nat
  PROVE  Regs005(Written005(s, a, d))
<1>1. PICK v \in 0..3 : v = d % 4
  OBVIOUS
<1>2. PICK x \in Int : x = 256 * s.chrHigh + d
  BY DEF Regs005, Nats
<1>3. \A q : /\ [s.chrA EXCEPT ![q] = x] \in [0..7 -> Int]
             /\ [s.chrB EXCEPT ![q] = x] \in [0..3 -> Int]
  BY EntrySet DEF Regs005, HasEach
<1>4. \A q : [s.prgReg EXCEPT ![q] = d] \in [1..5 -> Nat]
  BY DEF Regs005
<1>5. \A q, p : Regs005([s EXCEPT !.chrA[q] = x, !.lastChrSetB = p])
  BY <1>3 DEF Regs005, HasEach, Nats
<1>6. \A q, p : Regs005([s EXCEPT !.chrB[q] = x, !.lastChrSetB = p])
  BY <1>3 DEF Regs005, HasEach, Nats
<1>7. \A q : Regs005([s EXCEPT !.prgReg[q] = d])
  BY <1>4 DEF Regs005, HasEach, Nats
<1>8. /\ Regs005([s EXCEPT !.prgMode = v]) /\ Regs005([s EXCEPT !.chrMode = v])
      /\ Regs005([s EXCEPT !.chrHigh = v])
  BY DEF Regs005, HasEach, Nats
<1>10. PICK p : p = a - \h5112
  OBVIOUS
<1>11. PICK q : q = a - \h5120
  OBVIOUS
<1>12. PICK t : t = a - \h5128
  OBVIOUS
<1>9. \/ Written005(s, a, d) = s
      \/ Written005(s, a, d) = [s EXCEPT !.prgMode = v]
      \/ Written005(s, a, d) = [s EXCEPT !.chrMode = v]
      \/ Written005(s, a, d) = [s EXCEPT !.chrHigh = v]
      \/ Written005(s, a, d) = [s EXCEPT !.prgReg[p] = d]
      \/ Written005(s, a, d) = [s EXCEPT !.chrA[q] = x, !.lastChrSetB = FALSE]
      \/ Written005(s, a, d) = [s EXCEPT !.chrB[t] = x, !.lastChrSetB = TRUE]
  BY <1>1, <1>2, <1>10, <1>11, <1>12, SMT DEF Written005
<1>13. /\ Regs005([s EXCEPT !.prgReg[p] = d])
       /\ Regs005([s EXCEPT !.chrA[q] = x, !.lastChrSetB = FALSE])
       /\ Regs005([s EXCEPT !.chrB[t] = x, !.lastChrSetB = TRUE])
  BY <1>5, <1>6, <1>7, Zenon
<1> QED
  BY <1>8, <1>9, <1>13, Zenon

(* 005: every window that is not of its RAM is in the ROM.                 *)
LEMMA Prg005In ==
  ASSUME NEW s, Regs005(s), NEW m \in Nat \ {0}, NEW w \in PrgWindows, ~InRam(s, w)
  PROVE  Prg005(s, m)[w] \in 0..2 * m - 1
<1>1. PICK g : g = PrgGroup(s, w)
  OBVIOUS
<1>2. g \in {1, 2, 4} /\ w \in 0..3
  BY <1>1 DEF PrgGroup, PrgWindows
<1>3. 2 + LastOf(w, g) \in 1..5
  BY <1>2 DEF LastOf
<1>4. PICK x \in Nat : x = SlotRegister(s, w)
  BY <1>1, <1>3 DEF SlotRegister, Regs005
<1>5. PICK bank \in Int : bank = g * ((x % 128) \div g) + (w % g)
  BY <1>2
<1>6. Prg005(s, m)[w] = MaskBank(bank, (2 * m) % 256)
  BY <1>1, <1>4, <1>5, Zenon DEF Prg005
<1> QED
  BY <1>6, MaskByteIn

(* 005: every window of CHR is in the ROM.                                 *)
LEMMA Chr005In ==
  ASSUME NEW s, Regs005(s), NEW j \in Nat \ {0}
  PROVE  ChrIn(Chr005(s, j), j)
<1>1. PICK t \in Nat \ {0} : t = 8 * j
  OBVIOUS
<1>2. PICK g : g = 8 \div 2^s.chrMode
  OBVIOUS
<1>3. g \in {1, 2, 4, 8}
  <2>1. 2^0 = 1 /\ 2^1 = 2 /\ 2^2 = 4 /\ 2^3 = 8
    BY SMT
  <2>2. s.chrMode = 0 \/ s.chrMode = 1 \/ s.chrMode = 2 \/ s.chrMode = 3
    BY DEF Regs005
  <2>3. PICK q : q = 2^s.chrMode
    OBVIOUS
  <2>4. q \in {1, 2, 4, 8}
    BY <2>1, <2>2, <2>3, Zenon
  <2>5. 8 \div q \in {1, 2, 4, 8}
    BY <2>4
  <2> QED
    BY <1>2, <2>3, <2>5
<1>4. PICK half : half = IF g = 8 THEN 4 ELSE g
  OBVIOUS
<1>5. /\ \A i \in 0..7 : s.chrA[i] \in Int
      /\ \A i \in 0..3 : s.chrB[i] \in Int
  BY DEF Regs005, HasEach
<1>6. ASSUME NEW w \in ChrWindows PROVE Chr005(s, j)[w] \in 0..t - 1
  <2>1. LastOf(w, g) \in 0..7 /\ LastOf(w % 4, half) \in 0..3 /\ w % g \in Int
    BY <1>3, <1>4 DEF LastOf, ChrWindows
  <2>2. PICK x \in Int : x = IF s.lastChrSetB THEN s.chrB[LastOf(w % 4, half)]
                             ELSE s.chrA[LastOf(w, g)]
    BY <1>5, <2>1
  <2>3. PICK y \in Int : y = x * g + (w % g)
    BY <1>3, <2>1
  <2>4. Chr005(s, j)[w] = y % t
    <3>1. j # 0
      OBVIOUS
    <3> QED
      BY <1>1, <1>2, <1>4, <2>2, <2>3, <3>1, Zenon DEF Chr005
  <2> QED
    BY <2>4, Remainder
<1> QED
  BY <1>1, <1>6 DEF ChrIn

-----------------------------------------------------------------------------
(* MMC3.                                                                   *)
Regs004(s, m, j) ==
  /\ HasEach(s, "R", 0..7) /\ Has(s, "chrInversion")
  /\ "prgBank" \in DOMAIN s /\ s.prgBank \in [PrgWindows -> 0..2 * m - 1]
  /\ "chrBank" \in DOMAIN s /\ s.chrBank \in [ChrWindows -> 0..8 * Least(j) - 1]
  /\ "outer" \in DOMAIN s

(* MMC3's CHR layout, inverted or not, is one of banks.                    *)
LEMMA ChrMMC3Type ==
  ASSUME NEW s, HasEach(s, "R", 0..7), Has(s, "chrInversion")
  PROVE  ChrMMC3(s) \in [ChrWindows -> Int]
<1>1. PICK ones \in [0..3 -> Int] : ones = [i \in 0..3 |-> s.R[i + 2]]
  <2>1. \A i \in 0..3 : i + 2 \in 0..7
    OBVIOUS
  <2> QED
    BY <2>1 DEF HasEach
<1>2. s.R[0] \in Int /\ s.R[1] \in Int /\ s.chrInversion \in Int
  BY DEF HasEach, Has
<1>3. PICK layout \in [ChrWindows -> Int] : layout = Chr2And1(s.R[0], s.R[1], ones)
  BY <1>2, Chr2And1Type
<1>4. \A w \in ChrWindows : (w + 4 * s.chrInversion) % 8 \in ChrWindows
  BY <1>2 DEF ChrWindows
<1>5. ChrMMC3(s) = [w \in ChrWindows |-> layout[(w + 4 * s.chrInversion) % 8]]
  BY <1>1, <1>3, Zenon DEF ChrMMC3
<1> QED
  BY <1>4, <1>5

(* A CHR bank of MMC3 is in the CHR, or in its RAM where there is none.    *)
LEMMA ChrBankMaskedIn ==
  ASSUME NEW x \in Int, NEW j \in Nat
  PROVE  ChrBankMasked(x, j) \in 0..8 * Least(j) - 1
<1>1. PICK t \in Nat \ {0} : t = 8 * Least(j)
  BY DEF Least
<1>2. PICK u \in Nat \ {0} : u = IF j > 0 THEN 8 * j ELSE 8
  OBVIOUS
<1>3. t = u
  BY <1>1, <1>2 DEF Least
<1>4. PICK y \in 0..t - 1 : y = x % u
  BY <1>3, Remainder
<1>5. y % 256 \in 0..t - 1
  BY <1>4
<1> QED
  BY <1>1, <1>2, <1>4, <1>5 DEF ChrBankMasked

(* MMC3's PRG layout, in either mode, is one of banks that are there.      *)
LEMMA PrgMMC3In ==
  ASSUME NEW s, NEW m \in Nat \ {0}, NEW x \in 0..2 * m - 1, NEW y \in 0..2 * m - 1
  PROVE  PrgMMC3(s, x, y, m) \in [PrgWindows -> 0..2 * m - 1]
<1>1. \A b0, b1, b2, b3 \in 0..2 * m - 1 : Prg8s(b0, b1, b2, b3) \in [PrgWindows -> 0..2 * m - 1]
  BY DEF Prg8s, PrgWindows
<1>2. 2 * m - 2 \in 0..2 * m - 1 /\ 2 * m - 1 \in 0..2 * m - 1
  OBVIOUS
<1> QED
  BY <1>1, <1>2 DEF PrgMMC3

(* updateBanks brings the banks in use within the ROM.                     *)
LEMMA UpdateBanksIn ==
  ASSUME NEW s, HasEach(s, "R", 0..7), Has(s, "chrInversion"), "prgBank" \in DOMAIN s,
         "chrBank" \in DOMAIN s, "outer" \in DOMAIN s, NEW m \in Nat \ {0}, NEW j \in Nat
  PROVE  Regs004(UpdateBanks(s, m, j), m, j) /\ UpdateBanks(s, m, j).outer = s.outer
<1>1. s.R[6] \in Int /\ s.R[7] \in Int /\ 2 * m \in Nat \ {0}
  BY DEF HasEach
<1>2. PICK x \in 0..2 * m - 1 : x = MaskBank(s.R[6], 2 * m)
  BY <1>1, MaskBankIn
<1>3. PICK y \in 0..2 * m - 1 : y = MaskBank(s.R[7], 2 * m)
  BY <1>1, MaskBankIn
<1>4. PICK p \in [PrgWindows -> 0..2 * m - 1] : p = PrgMMC3(s, x, y, m)
  BY PrgMMC3In
<1>5. PICK c : c = [w \in ChrWindows |-> ChrBankMasked(ChrMMC3(s)[w], j)]
  OBVIOUS
<1>6. c \in [ChrWindows -> 0..8 * Least(j) - 1]
  BY <1>5, ChrMMC3Type, ChrBankMaskedIn
<1>7. UpdateBanks(s, m, j) = [s EXCEPT !.prgBank = p, !.chrBank = c]
  BY <1>2, <1>3, <1>4, <1>5, Zenon DEF UpdateBanks
<1> QED
  BY <1>6, <1>7 DEF Regs004, HasEach, Has

(* MMC3 starts with its banks within the ROM, and comes back to it.        *)
LEMMA Built004In ==
  ASSUME NEW m \in Nat \ {0}, NEW j \in Nat
  PROVE  Regs004(Built004(m, j), m, j) /\ Built004(m, j).outer = 0
<1>1. /\ HasEach(Cleared, "R", 0..7) /\ Has(Cleared, "chrInversion")
      /\ "prgBank" \in DOMAIN Cleared /\ "chrBank" \in DOMAIN Cleared
      /\ "outer" \in DOMAIN Cleared /\ Cleared.outer = 0
  BY ZerosType DEF Cleared, HasEach, Has
<1> QED
  BY <1>1, UpdateBanksIn DEF Built004

(* A reset of MMC3 does.                                                   *)
LEMMA Reset004In ==
  ASSUME NEW s, NEW m \in Nat \ {0}, NEW j \in Nat
  PROVE  Regs004(Reset004(s, m, j), m, j) /\ Reset004(s, m, j).outer = 0
BY Built004In DEF Reset004, Regs004, HasEach, Has

(* A write to MMC3 keeps the banks in use within the ROM: those that move  *)
(* registers without updateBanks leave them alone.                         *)
LEMMA Written004In ==
  ASSUME NEW m \in Nat \ {0}, NEW j \in Nat, NEW s, Regs004(s, m, j), NEW a, NEW d \in Nat
  PROVE  /\ Regs004(Written004(s, a, d, m, j), m, j)
         /\ Written004(s, a, d, m, j).outer = s.outer
<1>1. PICK put : put = [s EXCEPT !.R[s.target] = d]
  OBVIOUS
<1>0. s.R \in [0..7 -> Int] /\ d \in Int
  BY DEF Regs004, HasEach
<1>2. [s.R EXCEPT ![s.target] = d] \in [0..7 -> Int]
  BY <1>0, EntrySet
<1>3. /\ HasEach(put, "R", 0..7) /\ Has(put, "chrInversion") /\ "prgBank" \in DOMAIN put
      /\ "chrBank" \in DOMAIN put /\ "outer" \in DOMAIN put /\ put.outer = s.outer
  BY <1>1, <1>2 DEF Regs004, HasEach, Has
<1>4. Regs004(UpdateBanks(put, m, j), m, j) /\ UpdateBanks(put, m, j).outer = s.outer
  BY <1>3, UpdateBanksIn
<1>5. Regs004(Target(s, d), m, j) /\ Target(s, d).outer = s.outer
  <2>1. PICK i \in Int : i = Bit(d, 7)
    BY BitIs DEF Shifts
  <2>2. \A t, p : LET q == [s EXCEPT !.target = t, !.prgMode = p, !.chrInversion = i]
                  IN Regs004(q, m, j) /\ q.outer = s.outer
    BY DEF Regs004, HasEach, Has
  <2> QED
    BY <2>1, <2>2 DEF Target
<1>6. \A x : LET q == [s EXCEPT !.mirror = x] IN Regs004(q, m, j) /\ q.outer = s.outer
  BY DEF Regs004, HasEach, Has
<1>7. \A x, y : LET q == [s EXCEPT !.wramEnabled = x, !.wramReadOnly = y]
                IN Regs004(q, m, j) /\ q.outer = s.outer
  BY DEF Regs004, HasEach, Has
<1>8. \/ Written004(s, a, d, m, j) = s
      \/ Written004(s, a, d, m, j) = Target(s, d)
      \/ Written004(s, a, d, m, j) = UpdateBanks(put, m, j)
      \/ Written004(s, a, d, m, j) = [s EXCEPT !.mirror = VH(d % 2)]
      \/ Written004(s, a, d, m, j) = [s EXCEPT !.wramEnabled = Bit(d, 7) = 1, !.wramReadOnly = Bit(d, 6) = 1]
  BY <1>1, SMT DEF Written004
<1>9. LET q == [s EXCEPT !.mirror = VH(d % 2)] IN Regs004(q, m, j) /\ q.outer = s.outer
  BY <1>6, Zenon
<1>10. LET q == [s EXCEPT !.wramEnabled = Bit(d, 7) = 1, !.wramReadOnly = Bit(d, 6) = 1]
       IN Regs004(q, m, j) /\ q.outer = s.outer
  BY <1>7, Zenon
<1> QED
  BY <1>4, <1>5, <1>8, <1>9, <1>10, Zenon

(* The boards around MMC3, with what their outer register holds.           *)
OuterIn(b, o) ==
  /\ b = 49 => o \in Nat
  /\ b = 205 => o \in {0, 1, 2, 3}
  /\ b = 115 => Has(o, "page") /\ Has(o, "chrBlock") /\ "prgMode" \in DOMAIN o

RegsFamily(b, s, m, j) == Regs004(s, m, j) /\ OuterIn(b, s.outer)

(* A new outer register changes nothing else.                              *)
LEMMA OuterSet ==
  ASSUME NEW m, NEW j, NEW s, Regs004(s, m, j), NEW o
  PROVE  Regs004([s EXCEPT !.outer = o], m, j) /\ [s EXCEPT !.outer = o].outer = o
BY DEF Regs004, HasEach, Has

(* The boards around MMC3 start with what their registers hold, and a      *)
(* reset brings it back.                                                   *)
LEMMA BuiltFamilyIn ==
  ASSUME NEW m \in Nat \ {0}, NEW j \in Nat, NEW s
  PROVE  /\ \A b : b # 115 => /\ RegsFamily(b, Built004(m, j), m, j)
                              /\ RegsFamily(b, Reset004(s, m, j), m, j)
         /\ RegsFamily(115, [Built004(m, j) EXCEPT !.outer = Outer115], m, j)
         /\ RegsFamily(115, [Reset004(s, m, j) EXCEPT !.outer = Outer115], m, j)
<1>1. /\ Regs004(Built004(m, j), m, j) /\ Built004(m, j).outer = 0
      /\ Regs004(Reset004(s, m, j), m, j) /\ Reset004(s, m, j).outer = 0
  BY Built004In, Reset004In
<1>2. \A b : b # 115 => OuterIn(b, 0)
  BY DEF OuterIn
<1>3. OuterIn(115, Outer115)
  BY DEF OuterIn, Outer115, Has
<1> QED
  BY <1>1, <1>2, <1>3, OuterSet DEF RegsFamily

(* A write that MMC3 handles keeps the outer register.                     *)
LEMMA FamilyWrite ==
  ASSUME NEW m \in Nat \ {0}, NEW j \in Nat, NEW b, NEW s, RegsFamily(b, s, m, j), NEW a,
         NEW d \in Nat
  PROVE  RegsFamily(b, Written004(s, a, d, m, j), m, j)
BY Written004In DEF RegsFamily

(* 044, 047, 049 and 205: a write keeps what the registers hold.           *)
LEMMA WrittenFamilyIn ==
  ASSUME NEW m \in Nat \ {0}, NEW j \in Nat, NEW s, NEW a \in Nat, NEW d \in Nat
  PROVE  /\ RegsFamily(44, s, m, j) => RegsFamily(44, Written044(s, a, d, m, j), m, j)
         /\ RegsFamily(47, s, m, j) => RegsFamily(47, Written047(s, a, d, m, j), m, j)
         /\ RegsFamily(49, s, m, j) => RegsFamily(49, Written049(s, a, d, m, j), m, j)
         /\ RegsFamily(205, s, m, j) => RegsFamily(205, Written205(s, a, d, m, j), m, j)
<1>1. ASSUME RegsFamily(44, s, m, j) PROVE RegsFamily(44, Written044(s, a, d, m, j), m, j)
  <2>1. PICK x : x = IF d % 8 > 6 THEN 6 ELSE d % 8
    OBVIOUS
  <2>2. RegsFamily(44, [s EXCEPT !.outer = x], m, j)
    BY <1>1, OuterSet DEF RegsFamily, OuterIn
  <2>3. /\ RegsFamily(44, Written004([s EXCEPT !.outer = x], a, d, m, j), m, j)
        /\ RegsFamily(44, Written004(s, a, d, m, j), m, j)
    BY <1>1, <2>2, FamilyWrite
  <2> QED
    BY <2>1, <2>3, Zenon DEF Written044
<1>2. ASSUME RegsFamily(47, s, m, j) PROVE RegsFamily(47, Written047(s, a, d, m, j), m, j)
  <2>0. PICK o : o = d % 2
    OBVIOUS
  <2>1. RegsFamily(47, [s EXCEPT !.outer = o], m, j)
    BY <1>2, OuterSet DEF RegsFamily, OuterIn
  <2>2. RegsFamily(47, Written004(s, a, d, m, j), m, j)
    BY <1>2, FamilyWrite
  <2> QED
    BY <2>0, <2>1, <2>2 DEF Written047
<1>3. ASSUME RegsFamily(49, s, m, j) PROVE RegsFamily(49, Written049(s, a, d, m, j), m, j)
  <2>1. RegsFamily(49, [s EXCEPT !.outer = d], m, j)
    BY <1>3, OuterSet DEF RegsFamily, OuterIn
  <2>2. RegsFamily(49, Written004(s, a, d, m, j), m, j)
    BY <1>3, FamilyWrite
  <2> QED
    BY <2>1, <2>2 DEF Written049
<1>4. ASSUME RegsFamily(205, s, m, j) PROVE RegsFamily(205, Written205(s, a, d, m, j), m, j)
  <2>1. PICK o \in {0, 1, 2, 3} : o = d % 4
    OBVIOUS
  <2>2. RegsFamily(205, [s EXCEPT !.outer = o], m, j)
    BY <1>4, <2>1, OuterSet DEF RegsFamily, OuterIn
  <2>3. RegsFamily(205, Written004(s, a, d, m, j), m, j)
    BY <1>4, FamilyWrite
  <2> QED
    BY <2>1, <2>2, <2>3 DEF Written205
<1> QED
  BY <1>1, <1>2, <1>3, <1>4

(* 115: a write keeps what its registers hold.                             *)
LEMMA Written115In ==
  ASSUME NEW m \in Nat \ {0}, NEW j \in Nat, NEW s, RegsFamily(115, s, m, j),
         NEW a \in Nat, NEW d \in Nat
  PROVE  RegsFamily(115, Written115(s, a, d, m, j), m, j)
<1>1. d % 2 \in Int /\ d % 16 \in Int
  OBVIOUS
<1>2. PICK o : o = s.outer
  OBVIOUS
<1>3. /\ Has(o, "page") /\ Has(o, "chrBlock") /\ "prgMode" \in DOMAIN o
      /\ Regs004(s, m, j)
  BY <1>2 DEF RegsFamily, OuterIn
<1>4. PICK o1 : o1 = [o EXCEPT !.chrBlock = d % 2]
  OBVIOUS
<1>5. PICK p \in BOOLEAN : p = (Bit(d, 7) = 1)
  OBVIOUS
<1>6. PICK o2 : o2 = [[o EXCEPT !.prgMode = p] EXCEPT !.page = d % 16]
  OBVIOUS
<1>7. OuterIn(115, o1)
  BY <1>1, <1>3, <1>4 DEF OuterIn, Has
<1>8. OuterIn(115, o2)
  BY <1>1, <1>3, <1>6 DEF OuterIn, Has
<1>9. RegsFamily(115, [s EXCEPT !.outer = o1], m, j) /\ RegsFamily(115, [s EXCEPT !.outer = o2], m, j)
  BY <1>3, <1>7, <1>8, OuterSet DEF RegsFamily
<1>10. [s EXCEPT !.outer.chrBlock = d % 2] = [s EXCEPT !.outer = o1]
  BY <1>2, <1>4
<1>11. [s EXCEPT !.outer.prgMode = Bit(d, 7) = 1, !.outer.page = d % 16] = [s EXCEPT !.outer = o2]
  BY <1>2, <1>3, <1>5, <1>6 DEF Regs004
<1>12. RegsFamily(115, Written004(s, a, d, m, j), m, j)
  BY FamilyWrite
<1>13. Written115(s, a, d, m, j) \in
         {[s EXCEPT !.outer.chrBlock = d % 2],
          [s EXCEPT !.outer.prgMode = Bit(d, 7) = 1, !.outer.page = d % 16],
          Written004(s, a, d, m, j)}
  BY DEF Written115
<1>14. Written115(s, a, d, m, j) \in
         {[s EXCEPT !.outer = o1], [s EXCEPT !.outer = o2], Written004(s, a, d, m, j)}
  BY <1>10, <1>11, <1>13, Zenon
<1> QED
  BY <1>9, <1>12, <1>14, Zenon

(* 182: a write, moved to another address, is one of MMC3's.               *)
LEMMA Written182In ==
  ASSUME NEW m \in Nat \ {0}, NEW j \in Nat, NEW s, RegsFamily(182, s, m, j),
         NEW a \in Nat, NEW d \in Nat
  PROVE  RegsFamily(182, Written182(s, a, d, m, j), m, j)
<1>1. PICK x \in Nat : x = 64 * Bits(d, 6, 2) + Order182[1 + (d % 8)]
  <2>1. 6 \in Shifts /\ 2 \in Shifts
    BY DEF Shifts
  <2>2. Bits(d, 6, 2) \in Nat
    BY <2>1, BitsInt
  <2>3. 1 + (d % 8) \in 1..8
    OBVIOUS
  <2>4. \A i \in 1..8 : Order182[i] \in Nat
    BY DEF Order182
  <2> QED
    BY <2>2, <2>3, <2>4
<1>2. PICK reg : reg = (a \div \h2000) * \h2000 + (a % 2)
  OBVIOUS
<1>3. Remapped182(a, d)[2] \in {d, x}
  BY <1>1, <1>2, SMT DEF Remapped182
<1>4. Remapped182(a, d)[2] \in Nat
  BY <1>3
<1> QED
  BY <1>4, FamilyWrite DEF Written182

-----------------------------------------------------------------------------

(* A layout confined to a block is one of banks.                           *)
LEMMA WithinType ==
  ASSUME NEW S, NEW layout \in [S -> Int], NEW size \in Nat \ {0}, NEW block \in Int
  PROVE  Within(layout, size, block) \in [S -> Int]
<1>1. \A w \in S : layout[w] % size \in Int
  OBVIOUS
<1>2. block * size \in Int
  OBVIOUS
<1>3. DOMAIN layout = S
  OBVIOUS
<1>4. Within(layout, size, block) = [w \in S |-> (layout[w] % size) + block * size]
  BY <1>3, Zenon DEF Within, Inside
<1> QED
  BY <1>1, <1>2, <1>4

(* Reduced by the byte that holds the number of banks, a layout of banks   *)
(* below 64 is in the ROM even when that byte is zero.                     *)
LEMMA ModuloByteIn ==
  ASSUME NEW m \in Nat \ {0}, NEW layout \in [PrgWindows -> 0..63]
  PROVE  PrgIn(Modulo(layout, (2 * m) % 256), m)
<1>1. PICK c : c = (2 * m) % 256
  OBVIOUS
<1>2. ASSUME c = 0 PROVE PrgIn(Modulo(layout, c), m)
  <2>1. 2 * m >= 256
    BY <1>1, <1>2
  <2>2. Modulo(layout, c) = layout
    BY <1>2 DEF Modulo
  <2> QED
    BY <2>1, <2>2 DEF PrgIn
<1>3. ASSUME c # 0 PROVE PrgIn(Modulo(layout, c), m)
  <2>1. c \in Nat \ {0} /\ c <= 2 * m
    BY <1>1, <1>3
  <2>2. layout \in [PrgWindows -> Int]
    OBVIOUS
  <2>3. \A w \in PrgWindows : Modulo(layout, c)[w] \in 0..c - 1
    BY <2>1, <2>2, ModuloIn
  <2>4. \A x \in 0..c - 1 : x \in 0..2 * m - 1
    BY <2>1
  <2> QED
    BY <2>3, <2>4 DEF PrgIn
<1>4. PrgIn(Modulo(layout, c), m)
  BY <1>2, <1>3
<1> QED
  BY <1>1, <1>4

(* A CHR layout reduced by the number of banks is in the CHR.              *)
LEMMA ModuloChrIn ==
  ASSUME NEW j \in Nat \ {0}, NEW layout \in [ChrWindows -> Int]
  PROVE  ChrIn(Modulo(layout, 8 * j), j)
<1>1. PICK t \in Nat \ {0} : t = 8 * j
  OBVIOUS
<1> QED
  BY <1>1, ModuloIn DEF ChrIn

(* MMC3's banks in use are its layouts.                                    *)
LEMMA Windows004 ==
  ASSUME NEW m \in Nat \ {0}, NEW j \in Nat \ {0}, NEW s, Regs004(s, m, j)
  PROVE  PrgIn(s.prgBank, m) /\ ChrIn(s.chrBank, j)
BY DEF Regs004, PrgIn, ChrIn, Least

(* 049: every window is in the ROM.                                        *)
LEMMA Windows049 ==
  ASSUME NEW m \in Nat \ {0}, NEW j \in Nat \ {0}, NEW s, RegsFamily(49, s, m, j)
  PROVE  PrgIn(Prg049(s, m), m) /\ ChrIn(Chr049(s, j), j)
<1>0. /\ s.outer \in Nat /\ s.prgBank \in [PrgWindows -> Int] /\ s.chrBank \in [ChrWindows -> Int]
      /\ 6 \in Shifts /\ 2 \in Shifts /\ 4 \in Shifts
      /\ 16 \in Nat \ {0} /\ 128 \in Nat \ {0}
  BY DEF RegsFamily, Regs004, OuterIn, Shifts
<1>1. 2^2 = 4
  BY SMT
<1>2. PICK block \in 0..3 : block = Bits(s.outer, 6, 2)
  <2>1. Bits(s.outer, 6, 2) \in Nat /\ Bits(s.outer, 6, 2) < 4
    BY <1>0, <1>1, BitsType, Zenon
  <2> QED
    BY <2>1
<1>3. PICK page \in Nat : page = Bits(s.outer, 4, 2)
  BY <1>0, BitsInt
<1>4. PICK layout : layout = Within(s.prgBank, 16, block)
  OBVIOUS
<1>40. block \in Int
  OBVIOUS
<1>5. layout \in [PrgWindows -> Int]
      /\ \A w \in PrgWindows : layout[w] = (s.prgBank[w] % 16) + block * 16
  <2>1. PICK size \in Nat \ {0} : size = 16
    OBVIOUS
  <2>2. layout = Within(s.prgBank, size, block)
    BY <1>4, <2>1
  <2>3. /\ Within(s.prgBank, size, block) \in [PrgWindows -> Int]
        /\ \A w \in PrgWindows :
             Within(s.prgBank, size, block)[w] = (s.prgBank[w] % size) + block * size
    <3>1. Within(s.prgBank, size, block) \in [PrgWindows -> Int]
      BY <1>0, <1>40, WithinType, Zenon
    <3>2. DOMAIN s.prgBank = PrgWindows
      BY <1>0
    <3> QED
      BY <3>1, <3>2, Zenon DEF Within, Inside
  <2> QED
    BY <2>1, <2>2, <2>3
<1>6. layout \in [PrgWindows -> 0..63]
  BY <1>0, <1>5
<1>7. PrgIn(Modulo(layout, (2 * m) % 256), m)
  BY <1>6, ModuloByteIn
<1>8. PICK menu : menu = [w \in PrgWindows |->
                            MaskBank(block * 16 + page * 4 + w, (2 * m) % 256)]
  OBVIOUS
<1>9. PrgIn(menu, m)
  <2>1. ASSUME NEW w \in PrgWindows PROVE menu[w] \in 0..2 * m - 1
    <3>1. block * 16 + page * 4 + w \in Int
      BY DEF PrgWindows
    <3> QED
      BY <1>8, <3>1, MaskByteIn
  <2> QED
    BY <2>1 DEF PrgIn
<1>10. Prg049(s, m) \in {Modulo(layout, (2 * m) % 256), menu}
  BY <1>2, <1>3, <1>4, <1>8 DEF Prg049
<1>11. PICK chr : chr = Within(s.chrBank, 128, block)
  OBVIOUS
<1>12. chr \in [ChrWindows -> Int]
  BY <1>0, <1>11, <1>40, WithinType, Zenon
<1>13. Chr049(s, j) = Modulo(chr, 8 * j)
  <2>1. j # 0
    OBVIOUS
  <2> QED
    BY <1>2, <1>11, <2>1 DEF Chr049
<1> QED
  BY <1>7, <1>9, <1>10, <1>12, <1>13, ModuloChrIn

(* 115: every window is in the ROM.                                        *)
LEMMA Windows115 ==
  ASSUME NEW m \in Nat \ {0}, NEW j \in Nat \ {0}, NEW s, RegsFamily(115, s, m, j)
  PROVE  PrgIn(Prg115(s, m), m) /\ ChrIn(Chr115(s, j), j)
<1>0. /\ s.outer.page \in Int /\ s.outer.chrBlock \in Int
      /\ s.prgBank \in [PrgWindows -> 0..2 * m - 1] /\ s.chrBank \in [ChrWindows -> Int]
      /\ 256 \in Nat \ {0}
  BY DEF RegsFamily, Regs004, OuterIn, Has
<1>1. PICK c \in 0..m - 1 : c = MaskBank(s.outer.page, m)
  BY <1>0, MaskBankIn
<1>2. PrgIn(Prg115(s, m), m)
  BY <1>0, <1>1 DEF Prg115, PrgIn, PrgWindows
<1>3. PICK chr : chr = Within(s.chrBank, 256, s.outer.chrBlock)
  OBVIOUS
<1>4. chr \in [ChrWindows -> Int]
  <2>1. PICK size \in Nat \ {0} : size = 256
    OBVIOUS
  <2>2. Within(s.chrBank, size, s.outer.chrBlock) \in [ChrWindows -> Int]
    BY <1>0, WithinType, Zenon
  <2> QED
    BY <1>3, <2>1, <2>2
<1>5. Chr115(s, j) = Modulo(chr, 8 * j)
  <2>1. j # 0
    OBVIOUS
  <2> QED
    BY <1>3, <2>1 DEF Chr115
<1> QED
  BY <1>2, <1>4, <1>5, ModuloChrIn

(* 205: every window is in the ROM.                                        *)
LEMMA Windows205 ==
  ASSUME NEW m \in Nat \ {0}, NEW j \in Nat \ {0}, NEW s, RegsFamily(205, s, m, j)
  PROVE  PrgIn(Prg205(s, m), m) /\ ChrIn(Chr205(s, j), j)
<1>0. /\ s.outer \in {0, 1, 2, 3}
      /\ s.prgBank \in [PrgWindows -> Int] /\ s.chrBank \in [ChrWindows -> Int]
  BY DEF RegsFamily, Regs004, OuterIn
<1> DEFINE p(bank) == CASE s.outer = 0 -> bank % 32
                        [] s.outer = 1 -> (bank % 16) + 16
                        [] s.outer > 1 -> Inside(bank, 16, s.outer)
           c(bank) == CASE s.outer = 0 -> bank % 256
                        [] s.outer = 1 -> (bank % 128) + 128
                        [] s.outer > 1 -> Inside(bank, 128, s.outer)
           prg == [w \in PrgWindows |-> p(s.prgBank[w])]
           chr == [w \in ChrWindows |-> c(s.chrBank[w])]
<1>1. ASSUME NEW bank \in Int PROVE p(bank) \in 0..63 /\ c(bank) \in Int
  BY <1>0 DEF Inside
<1>2. Prg205(s, m) = Modulo(prg, (2 * m) % 256)
  BY Zenon DEF Prg205
<1>3. Chr205(s, j) = Modulo(chr, 8 * j)
  <2>1. j # 0
    OBVIOUS
  <2> QED
    BY <2>1, Zenon DEF Chr205
<1> HIDE DEF p, c
<1>4. prg \in [PrgWindows -> 0..63] /\ chr \in [ChrWindows -> Int]
  BY <1>0, <1>1
<1> HIDE DEF prg, chr
<1> QED
  BY <1>2, <1>3, <1>4, ModuloByteIn, ModuloChrIn

-----------------------------------------------------------------------------
(* 095: the last window only.                                              *)
Regs095(s, m) == "prgBank" \in DOMAIN s /\ s.prgBank[3] = 2 * m - 1

(* 095: a write keeps what its registers hold.                             *)
LEMMA Keeps095 ==
  ASSUME NEW m \in Nat \ {0}, NEW s, Regs095(s, m), NEW a \in Nat, NEW d \in Nat
  PROVE  Regs095(Written095(s, a, d, m), m)
<1>1. \A b0, b1, b2, b3 : Prg8s(b0, b1, b2, b3)[3] = b3
  BY DEF Prg8s, PrgWindows
<1>3. PICK put : put = [s EXCEPT !.R[s.target] = d % 32]
  OBVIOUS
<1>4. Regs095(put, m)
  BY <1>3 DEF Regs095
<1>5. PrgMMC3(put, put.R[6], put.R[7], m)[3] = 2 * m - 1
  BY <1>1 DEF PrgMMC3
<1>6. PICK t : t = LET screen(i) == Bit(put.R[i], 4)
                   IN IF put.chrInversion = 1
                      THEN Mirror095(screen(2), screen(3), screen(4), screen(5))
                      ELSE Mirror095(screen(0), screen(0), screen(1), screen(1))
  OBVIOUS
<1>7. PICK all : all = [put EXCEPT !.prgBank = PrgMMC3(put, put.R[6], put.R[7], m),
                                   !.chrBank = ChrMMC3(put), !.mirror = t]
  OBVIOUS
<1>8. Regs095(all, m)
  BY <1>4, <1>5, <1>7 DEF Regs095
<1>9. Regs095(Target(s, d), m)
  BY DEF Regs095, Target
<1>10. Written095(s, a, d, m) \in {s, Target(s, d), all}
  BY <1>3, <1>6, <1>7 DEF Written095
<1> QED
  BY <1>8, <1>9, <1>10

(* The fields of a latch, in one part or two.                              *)
Parts == [from : {"data", "addr"}, lo : Shifts, width : Shifts, to : Shifts]
One(field) == field \in Seq(Parts) /\ Len(field) = 1
IsField(field) == field \in Seq(Parts) /\ Len(field) \in {0, 1, 2}

(* A single part of a field.                                               *)
LEMMA OneField ==
  ASSUME NEW lo \in Shifts, NEW width \in Shifts
  PROVE  One(Data(lo, width)) /\ One(Addr(lo, width))
BY DEF One, Parts, Data, Addr, Shifts

(* A field moved up is one.                                                *)
LEMMA UpField ==
  ASSUME NEW field, One(field), NEW by \in Shifts
  PROVE  One(Up(field, by))
<1>1. field[1] \in Parts
  BY DEF One
<1>2. [field[1] EXCEPT !.to = by] \in Parts
  BY <1>1 DEF Parts
<1> QED
  BY <1>2 DEF One, Up

(* Two parts, joined.                                                      *)
LEMMA JoinedField ==
  ASSUME NEW f, One(f), NEW g, One(g)
  PROVE  IsField(f \o g)
BY ConcatProperties DEF One, IsField

(* The fields Data and Addr make.                                          *)
LEMMA FieldTypes ==
  /\ IsField(<<>>)
  /\ \A lo, width \in Shifts : IsField(Data(lo, width)) /\ IsField(Addr(lo, width))
BY OneField DEF One, IsField

(* A part of a latch taken from a write is a number.                       *)
LEMMA PartType ==
  ASSUME NEW f \in Parts, NEW a \in Nat, NEW d \in Nat
  PROVE  Part(f, a, d) \in Nat
<1>1. /\ f.lo \in Shifts /\ f.width \in Shifts /\ f.to \in Shifts
  BY DEF Parts
<1>2. PICK v \in Nat : v = IF f.from = "data" THEN d ELSE a
  OBVIOUS
<1>3. PICK x \in Nat : x = Bits(v, f.lo, f.width)
  BY <1>1, BitsInt
<1>4. PICK y \in Nat : y = 2^f.to
  BY <1>1, PowerType
<1>5. x * y \in Nat
  OBVIOUS
<1> QED
  BY <1>2, <1>3, <1>4, <1>5 DEF Part

(* A field taken from a write is a number.                                 *)
LEMMA TakenType ==
  ASSUME NEW field, IsField(field), NEW a \in Nat, NEW d \in Nat
  PROVE  Taken(field, a, d) \in Nat
<1>1. ASSUME NEW i \in 1..Len(field) PROVE Part(field[i], a, d) \in Nat
  <2>1. field[i] \in Parts
    BY DEF IsField
  <2> QED
    BY <2>1, PartType
<1>2. CASE Len(field) = 0
  BY <1>2 DEF Taken
<1>3. CASE Len(field) = 1
  <2>1. Part(field[1], a, d) \in Nat
    BY <1>1, <1>3
  <2> QED
    BY <1>3, <2>1 DEF Taken
<1>4. CASE Len(field) = 2
  <2>1. Part(field[1], a, d) \in Nat /\ Part(field[2], a, d) \in Nat
    BY <1>1, <1>4
  <2> QED
    BY <1>4, <2>1 DEF Taken
<1> QED
  BY <1>2, <1>3, <1>4 DEF IsField

(* A bit that chooses between two layouts.                                 *)
Chooses(field) == \E lo \in Shifts : field \in {Data(lo, 1), Addr(lo, 1)}

(* The bit taken is 0 or 1.                                                *)
LEMMA ChoosesType ==
  ASSUME NEW field, Chooses(field), NEW a \in Nat, NEW d \in Nat
  PROVE  Taken(field, a, d) \in {0, 1}
<1>1. PICK lo \in Shifts : field \in {Data(lo, 1), Addr(lo, 1)}
  BY DEF Chooses
<1>2. /\ Len(field) = 1 /\ field[1].lo = lo /\ field[1].width = 1 /\ field[1].to = 0
  BY <1>1 DEF Data, Addr
<1>3. PICK v \in Nat : v = IF field[1].from = "data" THEN d ELSE a
  OBVIOUS
<1>4. 2^0 = 1 /\ 2^1 = 2
  BY SMT
<1>5. Bits(v, lo, 1) = Bit(v, lo)
  BY <1>4, Zenon DEF Bits, Bit
<1>6. Bit(v, lo) \in {0, 1}
  BY BitIs
<1>7. Taken(field, a, d) = Bits(v, lo, 1) * 2^0
  BY <1>2, <1>3 DEF Taken, Part
<1> QED
  BY <1>4, <1>5, <1>6, <1>7

(* What the latch of a board is made of.                                   *)
Shaped(M) ==
  /\ IsField(M.prg) /\ IsField(M.chr)
  /\ \/ M.mode = <<>> /\ DOMAIN M.prgMap = {1}
     \/ /\ Chooses(M.mode) /\ DOMAIN M.prgMap = {1, 2}
        /\ M.prgMap[1] # "lo16" /\ M.prgMap[2] # "lo16"
  /\ DOMAIN M.start = {"prg", "chr", "mode", "mirror"}
  /\ M.start.prg \in Nat /\ M.start.chr \in Nat /\ M.start.mode = 0
  /\ M.startsLast \in Shifts
  /\ M.resets \/ M.prgMap = <<"nrom">>

(* Shifts the latches use.                                                 *)
LEMMA Places ==
  /\ 0 \in Shifts /\ 1 \in Shifts /\ 2 \in Shifts /\ 3 \in Shifts /\ 4 \in Shifts
  /\ 5 \in Shifts /\ 6 \in Shifts /\ 7 \in Shifts /\ 8 \in Shifts /\ 12 \in Shifts /\ 14 \in Shifts
BY DEF Shifts

(* A field, and one above it.                                              *)
LEMMA JoinedUp ==
  ASSUME NEW f, One(f), NEW g, One(g), NEW by \in Shifts
  PROVE  IsField(f \o Up(g, by)) /\ IsField(Up(f, by) \o g)
<1>1. One(Up(g, by)) /\ One(Up(f, by))
  BY UpField
<1> QED
  BY <1>1, JoinedField, Zenon

(* Each of the latches has that shape.                                     *)
LEMMA Shapes000 ==
  /\ Shaped(Mapper000)
  /\ Shaped(Mapper002)
  /\ Shaped(Mapper003)
  /\ Shaped(Mapper007)
  /\ Shaped(Mapper011)
  /\ Shaped(Mapper013)
  /\ Shaped(Mapper066)
BY FieldTypes, Places DEF Shaped, Plain, Switched,
   Mapper000, Mapper002, Mapper003, Mapper007, Mapper011, Mapper013, Mapper066

LEMMA Shapes070 ==
  /\ Shaped(Mapper070)
  /\ Shaped(Mapper077)
  /\ Shaped(Mapper078)
  /\ Shaped(Mapper093)
  /\ Shaped(Mapper094)
  /\ Shaped(Mapper097)
  /\ Shaped(Mapper107)
BY FieldTypes, Places DEF Shaped, Plain, Switched,
   Mapper070, Mapper077, Mapper078, Mapper093, Mapper094, Mapper097, Mapper107

LEMMA Shapes140 ==
  /\ Shaped(Mapper140)
  /\ Shaped(Mapper152)
  /\ Shaped(Mapper164)
  /\ Shaped(Mapper180)
  /\ Shaped(Mapper185)
  /\ Shaped(Mapper200)
  /\ Shaped(Mapper201)
BY FieldTypes, Places DEF Shaped, Plain, Switched,
   Mapper140, Mapper152, Mapper164, Mapper180, Mapper185, Mapper200, Mapper201

LEMMA Shapes203 ==
  /\ Shaped(Mapper203)
  /\ Shaped(Mapper240)
  /\ Shaped(Mapper242)
BY FieldTypes, Places DEF Shaped, Plain, Switched,
   Mapper203, Mapper240, Mapper242

LEMMA Shape058 == Shaped(Mapper058)
<1>1. Chooses(Addr(6, 1))
  BY Places DEF Chooses
<1> QED
  BY <1>1, FieldTypes, Places DEF Shaped, Mapper058, Plain, Switched

LEMMA Shape061 == Shaped(Mapper061)
<1>1. IsField(Addr(5, 1) \o Up(Addr(0, 4), 1))
  <2>1. One(Addr(5, 1)) /\ One(Addr(0, 4))
    BY Places, OneField
  <2> QED
    BY <2>1, Places, JoinedUp
<1>2. Chooses(Addr(4, 1))
  BY Places DEF Chooses
<1> QED
  BY <1>1, <1>2, FieldTypes, Places DEF Shaped, Mapper061, Plain, Switched

LEMMA Shape062 == Shaped(Mapper062)
<1>1. IsField(Addr(8, 6) \o Up(Addr(6, 1), 6))
  <2>1. One(Addr(8, 6)) /\ One(Addr(6, 1))
    BY Places, OneField
  <2> QED
    BY <2>1, Places, JoinedUp
<1>2. IsField(Data(0, 2) \o Up(Addr(0, 5), 2))
  <2>1. One(Data(0, 2)) /\ One(Addr(0, 5))
    BY Places, OneField
  <2> QED
    BY <2>1, Places, JoinedUp
<1>3. Chooses(Addr(5, 1))
  BY Places DEF Chooses
<1> QED
  BY <1>1, <1>2, <1>3, FieldTypes, Places DEF Shaped, Mapper062, Plain, Switched

LEMMA Shape079 == Shaped(Mapper079)
<1>1. IsField(Data(0, 3) \o Up(Data(6, 1), 3))
  <2>1. One(Data(0, 3)) /\ One(Data(6, 1))
    BY Places, OneField
  <2> QED
    BY <2>1, Places, JoinedUp
<1> QED
  BY <1>1, FieldTypes, Places DEF Shaped, Mapper079, Plain, Switched

LEMMA Shape087 == Shaped(Mapper087)
<1>1. IsField(Up(Data(0, 1), 1) \o Data(1, 1))
  <2>1. One(Data(0, 1)) /\ One(Data(1, 1))
    BY Places, OneField
  <2> QED
    BY <2>1, Places, JoinedUp
<1> QED
  BY <1>1, FieldTypes, Places DEF Shaped, Mapper087, Plain, Switched

LEMMA Shape089 == Shaped(Mapper089)
<1>1. IsField(Data(0, 3) \o Up(Data(7, 1), 3))
  <2>1. One(Data(0, 3)) /\ One(Data(7, 1))
    BY Places, OneField
  <2> QED
    BY <2>1, Places, JoinedUp
<1> QED
  BY <1>1, FieldTypes, Places DEF Shaped, Mapper089, Plain, Switched

LEMMA Shape113 == Shaped(Mapper113)
<1>1. IsField(Data(0, 3) \o Up(Data(6, 1), 3))
  <2>1. One(Data(0, 3)) /\ One(Data(6, 1))
    BY Places, OneField
  <2> QED
    BY <2>1, Places, JoinedUp
<1> QED
  BY <1>1, FieldTypes, Places DEF Shaped, Mapper113, Plain, Switched

LEMMA Shape184 == Shaped(Mapper184)
<1>1. IsField(Data(0, 3) \o Up(Data(4, 3), 3))
  <2>1. One(Data(0, 3)) /\ One(Data(4, 3))
    BY Places, OneField
  <2> QED
    BY <2>1, Places, JoinedUp
<1> QED
  BY <1>1, FieldTypes, Places DEF Shaped, Mapper184, Plain, Switched

LEMMA Shape225 == Shaped(Mapper225)
<1>1. IsField(Addr(6, 6) \o Up(Addr(14, 1), 6))
  <2>1. One(Addr(6, 6)) /\ One(Addr(14, 1))
    BY Places, OneField
  <2> QED
    BY <2>1, Places, JoinedUp
<1>2. IsField(Addr(0, 6) \o Up(Addr(14, 1), 6))
  <2>1. One(Addr(0, 6)) /\ One(Addr(14, 1))
    BY Places, OneField
  <2> QED
    BY <2>1, Places, JoinedUp
<1>3. Chooses(Addr(12, 1))
  BY Places DEF Chooses
<1> QED
  BY <1>1, <1>2, <1>3, FieldTypes, Places DEF Shaped, Mapper225, Plain, Switched

LEMMA Shape231 == Shaped(Mapper231)
<1>1. IsField(Addr(5, 1) \o Up(Addr(1, 4), 1))
  <2>1. One(Addr(5, 1)) /\ One(Addr(1, 4))
    BY Places, OneField
  <2> QED
    BY <2>1, Places, JoinedUp
<1> QED
  BY <1>1, FieldTypes, Places DEF Shaped, Mapper231, Plain, Switched

LEMMA Shape233 == Shaped(Mapper233)
<1>1. Chooses(Data(5, 1))
  BY Places DEF Chooses
<1> QED
  BY <1>1, FieldTypes, Places DEF Shaped, Mapper233, Plain, Switched

(* The boards that are a latch.                                            *)
LEMMA LatchDomain ==
  DOMAIN LatchBoards = {0, 2, 3, 7, 11, 13, 58, 61, 62, 66, 70, 77, 78, 79, 87, 89, 93, 94,
          97, 107, 113, 140, 152, 164, 180, 184, 185, 200, 201, 203, 225, 231,
          233, 240, 242}
BY DEF LatchBoards

(* All of them have the shape.                                             *)
LEMMA LatchShaped ==
  ASSUME NEW b \in DOMAIN LatchBoards
  PROVE  Shaped(LatchBoards[b])
<1>1. CASE b \in {0, 2, 3, 7, 11, 13, 58}
  <2>1. /\ LatchBoards[0] = Mapper000
        /\ LatchBoards[2] = Mapper002
        /\ LatchBoards[3] = Mapper003
        /\ LatchBoards[7] = Mapper007
        /\ LatchBoards[11] = Mapper011
        /\ LatchBoards[13] = Mapper013
        /\ LatchBoards[58] = Mapper058
    BY DEF LatchBoards
  <2>2. /\ Shaped(LatchBoards[0])
        /\ Shaped(LatchBoards[2])
        /\ Shaped(LatchBoards[3])
        /\ Shaped(LatchBoards[7])
        /\ Shaped(LatchBoards[11])
        /\ Shaped(LatchBoards[13])
        /\ Shaped(LatchBoards[58])
    BY <2>1, Shape058, Shapes000
  <2> QED
    BY <1>1, <2>2
<1>2. CASE b \in {61, 62, 66, 70, 77, 78, 79}
  <2>1. /\ LatchBoards[61] = Mapper061
        /\ LatchBoards[62] = Mapper062
        /\ LatchBoards[66] = Mapper066
        /\ LatchBoards[70] = Mapper070
        /\ LatchBoards[77] = Mapper077
        /\ LatchBoards[78] = Mapper078
        /\ LatchBoards[79] = Mapper079
    BY DEF LatchBoards
  <2>2. /\ Shaped(LatchBoards[61])
        /\ Shaped(LatchBoards[62])
        /\ Shaped(LatchBoards[66])
        /\ Shaped(LatchBoards[70])
        /\ Shaped(LatchBoards[77])
        /\ Shaped(LatchBoards[78])
        /\ Shaped(LatchBoards[79])
    BY <2>1, Shape061, Shape062, Shape079, Shapes000, Shapes070
  <2> QED
    BY <1>2, <2>2
<1>3. CASE b \in {87, 89, 93, 94, 97, 107, 113}
  <2>1. /\ LatchBoards[87] = Mapper087
        /\ LatchBoards[89] = Mapper089
        /\ LatchBoards[93] = Mapper093
        /\ LatchBoards[94] = Mapper094
        /\ LatchBoards[97] = Mapper097
        /\ LatchBoards[107] = Mapper107
        /\ LatchBoards[113] = Mapper113
    BY DEF LatchBoards
  <2>2. /\ Shaped(LatchBoards[87])
        /\ Shaped(LatchBoards[89])
        /\ Shaped(LatchBoards[93])
        /\ Shaped(LatchBoards[94])
        /\ Shaped(LatchBoards[97])
        /\ Shaped(LatchBoards[107])
        /\ Shaped(LatchBoards[113])
    BY <2>1, Shape087, Shape089, Shape113, Shapes070
  <2> QED
    BY <1>3, <2>2
<1>4. CASE b \in {140, 152, 164, 180, 184, 185, 200}
  <2>1. /\ LatchBoards[140] = Mapper140
        /\ LatchBoards[152] = Mapper152
        /\ LatchBoards[164] = Mapper164
        /\ LatchBoards[180] = Mapper180
        /\ LatchBoards[184] = Mapper184
        /\ LatchBoards[185] = Mapper185
        /\ LatchBoards[200] = Mapper200
    BY DEF LatchBoards
  <2>2. /\ Shaped(LatchBoards[140])
        /\ Shaped(LatchBoards[152])
        /\ Shaped(LatchBoards[164])
        /\ Shaped(LatchBoards[180])
        /\ Shaped(LatchBoards[184])
        /\ Shaped(LatchBoards[185])
        /\ Shaped(LatchBoards[200])
    BY <2>1, Shape184, Shapes140
  <2> QED
    BY <1>4, <2>2
<1>5. CASE b \in {201, 203, 225, 231, 233, 240, 242}
  <2>1. /\ LatchBoards[201] = Mapper201
        /\ LatchBoards[203] = Mapper203
        /\ LatchBoards[225] = Mapper225
        /\ LatchBoards[231] = Mapper231
        /\ LatchBoards[233] = Mapper233
        /\ LatchBoards[240] = Mapper240
        /\ LatchBoards[242] = Mapper242
    BY DEF LatchBoards
  <2>2. /\ Shaped(LatchBoards[201])
        /\ Shaped(LatchBoards[203])
        /\ Shaped(LatchBoards[225])
        /\ Shaped(LatchBoards[231])
        /\ Shaped(LatchBoards[233])
        /\ Shaped(LatchBoards[240])
        /\ Shaped(LatchBoards[242])
    BY <2>1, Shape225, Shape231, Shape233, Shapes140, Shapes203
  <2> QED
    BY <1>5, <2>2
<1> QED
  BY <1>1, <1>2, <1>3, <1>4, <1>5, LatchDomain, Zenon

(* What the latch of a board holds.                                        *)
RegsLatch(b, s) ==
  /\ s.prg \in Nat /\ s.chr \in Nat
  /\ s.mode \in Nat /\ s.mode + 1 \in DOMAIN LatchBoards[b].prgMap

(* A latch starts with what it holds.                                      *)
LEMMA LatchStartIn ==
  ASSUME NEW b \in DOMAIN LatchBoards, NEW m \in Nat
  PROVE  RegsLatch(b, LatchStart(b, m))
<1>1. PICK M : M = LatchBoards[b]
  OBVIOUS
<1>2. Shaped(M)
  BY <1>1, LatchShaped
<1>3. PICK y \in Nat \ {0} : y = 2^M.startsLast
  BY <1>2, PowerType DEF Shaped
<1>4. ASSUME m \div 2 # 0 PROVE ((m \div 2) - 1) % y \in Nat
  BY <1>4
<1>5. PICK x : x = ((m \div 2) - 1) % y
  OBVIOUS
<1>6. LatchStart(b, m) = IF M.startsLast = 0 \/ m \div 2 = 0 THEN M.start
                         ELSE [M.start EXCEPT !.prg = x]
  BY <1>1, <1>3, <1>5, Zenon DEF LatchStart
<1>7. 1 \in DOMAIN M.prgMap
  BY <1>2 DEF Shaped
<1>8. LatchStart(b, m).mode = 0 /\ LatchStart(b, m).prg \in Nat /\ LatchStart(b, m).chr \in Nat
  BY <1>2, <1>4, <1>5, <1>6 DEF Shaped
<1> QED
  BY <1>1, <1>7, <1>8 DEF RegsLatch

(* A write keeps what a latch holds: its mode names a layout.              *)
LEMMA LatchWrittenIn ==
  ASSUME NEW b \in DOMAIN LatchBoards, NEW s, RegsLatch(b, s), NEW a \in Nat, NEW d \in Nat
  PROVE  RegsLatch(b, LatchWritten(b, s, a, d))
<1>1. PICK M : M = LatchBoards[b]
  OBVIOUS
<1>2. Shaped(M)
  BY <1>1, LatchShaped
<1>3. PICK x \in Nat : x = Taken(M.prg, a, d)
  BY <1>2, TakenType DEF Shaped
<1>4. PICK y \in Nat : y = Taken(M.chr, a, d)
  BY <1>2, TakenType DEF Shaped
<1>5. PICK z : z = Taken(M.mode, a, d)
  OBVIOUS
<1>6. z \in Nat /\ z + 1 \in DOMAIN M.prgMap
  <2>1. CASE M.mode = <<>> /\ DOMAIN M.prgMap = {1}
    <3>1. Len(M.mode) = 0
      BY <2>1
    <3>2. z = 0
      BY <1>5, <3>1 DEF Taken
    <3> QED
      BY <2>1, <3>2
  <2>2. CASE Chooses(M.mode) /\ DOMAIN M.prgMap = {1, 2}
    BY <1>5, <2>2, ChoosesType
  <2> QED
    BY <1>2, <2>1, <2>2 DEF Shaped
<1>7. PICK q : q = M.mirrors[1 + Taken(M.mirror, a, d)]
  OBVIOUS
<1>8. LatchWritten(b, s, a, d) =
        IF ~Decodes(M.at, a) THEN s
        ELSE [prg |-> x, chr |-> y, mode |-> z, mirror |-> q]
  BY <1>1, <1>3, <1>4, <1>5, <1>7, Zenon DEF LatchWritten
<1> QED
  BY <1>1, <1>6, <1>8 DEF RegsLatch

(* A latch whose layouts reduce their bank: every window is in the ROM.    *)
LEMMA LatchPrgIn ==
  ASSUME NEW b \in DOMAIN LatchBoards, NEW s, RegsLatch(b, s), LatchMasked(b),
         NEW m \in Nat, m > 1 \/ (m = 1 /\ b \in {0, 3})
  PROVE  PrgIn(LatchPrg(b, s, m), m)
<1>1. PICK map : map = LatchBoards[b].prgMap[s.mode + 1]
  OBVIOUS
<1>2. map \in MaskedLayouts
  BY <1>1 DEF RegsLatch, LatchMasked
<1>3. s.prg \in Nat
  BY DEF RegsLatch
<1>4. CASE map = "nrom"
  <2>1. LatchPrg(b, s, m) = IF m > 1 THEN Raw32(0) ELSE Raw16(0, 0)
    BY <1>1, <1>4 DEF LatchPrg
  <2>2. \A w \in 0..3 : Raw32(0)[w] = w /\ Raw16(0, 0)[w] = w % 2
    BY DEF Raw32, Raw16, PrgWindows
  <2> QED
    BY <2>1, <2>2 DEF PrgIn, PrgWindows
<1>5. ASSUME map # "nrom" PROVE m > 1
  <2>1. LatchBoards[0].prgMap = <<"nrom">> /\ LatchBoards[3].prgMap = <<"nrom">>
    <3>1. LatchBoards[0] = Mapper000 /\ LatchBoards[3] = Mapper003
      BY DEF LatchBoards
    <3>2. Mapper000.prgMap = <<"nrom">> /\ Mapper003.prgMap = <<"nrom">>
      BY DEF Mapper000, Mapper003, Plain
    <3> QED
      BY <3>1, <3>2
  <2>2. ASSUME b \in {0, 3} PROVE FALSE
    <3>1. LatchBoards[b].prgMap = <<"nrom">>
      BY <2>1, <2>2
    <3>2. s.mode + 1 = 1
      BY <3>1 DEF RegsLatch
    <3> QED
      BY <1>1, <1>5, <3>1, <3>2
  <2> QED
    BY <2>2
<1>6. CASE map = "masked32"
  <2>1. LatchPrg(b, s, m) = Prg32(s.prg, m)
    BY <1>1, <1>6 DEF LatchPrg
  <2> QED
    BY <1>3, <1>5, <1>6, <2>1, Prg32In
<1>7. CASE map = "half32"
  <2>1. LatchPrg(b, s, m) = Prg32(s.prg \div 2, m)
    BY <1>1, <1>7 DEF LatchPrg
  <2>2. s.prg \div 2 \in Int
    BY <1>3
  <2> QED
    BY <1>5, <1>7, <2>1, <2>2, Prg32In
<1>8. CASE map = "maskedLo16"
  <2>1. LatchPrg(b, s, m) = Prg16FixedHi(s.prg, m)
    BY <1>1, <1>8 DEF LatchPrg
  <2> QED
    BY <1>3, <2>1, Prg16In
<1>9. CASE map = "both16"
  <2>1. LatchPrg(b, s, m) = Raw16(MaskBank(s.prg, m), MaskBank(s.prg, m))
    BY <1>1, <1>9 DEF LatchPrg
  <2> QED
    BY <1>3, <2>1, Prg16In
<1>10. CASE map = "even16"
  <2>1. PICK x \in Int : x = (s.prg \div 2) * 2
    BY <1>3
  <2>2. LatchPrg(b, s, m) = Raw16(MaskBank(x, m), MaskBank(s.prg, m))
    BY <1>1, <1>10, <2>1 DEF LatchPrg
  <2>3. MaskBank(x, m) \in 0..m - 1 /\ MaskBank(s.prg, m) \in 0..m - 1
    BY <1>3, MaskBankIn
  <2> QED
    BY <2>2, <2>3, Raw16In
<1> QED
  BY <1>2, <1>4, <1>6, <1>7, <1>8, <1>9, <1>10 DEF MaskedLayouts

(* A latch that fixes the upper half: its two windows are.                 *)
LEMMA LatchFixedIn ==
  ASSUME NEW b \in DOMAIN LatchBoards, NEW s, RegsLatch(b, s),
         NEW i \in DOMAIN LatchBoards[b].prgMap, LatchBoards[b].prgMap[i] = "lo16",
         NEW m \in Nat \ {0}
  PROVE  \A w \in {2, 3} : LatchPrg(b, s, m)[w] \in 0..2 * m - 1
<1>1. s.mode + 1 = i
  BY LatchShaped DEF Shaped, RegsLatch
<1>2. LatchPrg(b, s, m) = Raw16(s.prg, m - 1)
  BY <1>1 DEF LatchPrg
<1>3. m - 1 \in 0..m - 1
  OBVIOUS
<1> QED
  BY <1>2, <1>3, Raw16HiIn

(* A latch that reduces its CHR bank: every window is in the CHR.          *)
LEMMA LatchChrIn ==
  ASSUME NEW b \in DOMAIN LatchBoards, NEW s, RegsLatch(b, s),
         LatchBoards[b].chrMap = "masked8", NEW j \in Nat \ {0}
  PROVE  ChrIn(LatchChr(b, s, j), j)
<1>1. LatchChr(b, s, j) = Chr8(s.chr, j)
  BY DEF LatchChr
<1> QED
  BY <1>1, Chr8In DEF RegsLatch

(* Which module's definitions answer the calls of class Mapper, board by   *)
(* board.                                                                  *)
LEMMA BuiltWhich ==
  ASSUME NEW m, NEW j
  PROVE  /\ \A b \in DOMAIN LatchBoards : Built(b, m, j) = LatchStart(b, m)
         /\ Built(34, m, j) = Built034(m) /\ Built(46, m, j) = Built046
         /\ Built(57, m, j) = Built057 /\ Built(60, m, j) = Built060
         /\ Built(71, m, j) = Built071 /\ \A b \in {72, 92} : Built(b, m, j) = BuiltEdge
         /\ Built(226, m, j) = Built226 /\ Built(227, m, j) = Built227
         /\ Built(228, m, j) = Built228 /\ Built(232, m, j) = Built232
         /\ Built(243, m, j) = Built243 /\ Built(28, m, j) = Built028
         /\ Built(1, m, j) = Built001 /\ \A b \in {9, 10} : Built(b, m, j) = BuiltLatched
         /\ Built(22, m, j) = Built022 /\ Built(193, m, j) = Built193
         /\ Built(246, m, j) = Built246 /\ Built(189, m, j) = Built189
         /\ Built(48, m, j) = Built048 /\ Built(67, m, j) = Built067
         /\ Built(69, m, j) = Built069 /\ \A b \in {24, 26} : Built(b, m, j) = Built024
         /\ Built(5, m, j) = Built005 /\ Built(95, m, j) = Built095(m)
         /\ Built(115, m, j) = [Built004(m, j) EXCEPT !.outer = Outer115]
         /\ \A b \in MMC3Boards \ {115} : Built(b, m, j) = Built004(m, j)
BY LatchDomain DEF Built, MMC3Boards

LEMMA ResetWhich ==
  ASSUME NEW b, NEW s, NEW m, NEW j
  PROVE  /\ b \in DOMAIN LatchBoards => ResetOf(b, s, m, j) = LatchReset(b, s, m)
         /\ b = 60 => ResetOf(b, s, m, j) = Reset060(s)
         /\ b = 71 => ResetOf(b, s, m, j) = Reset071(s)
         /\ b = 28 => ResetOf(b, s, m, j) = s
         /\ b = 115 => ResetOf(b, s, m, j) = [Reset004(s, m, j) EXCEPT !.outer = Outer115]
         /\ b \in MMC3Boards \ {115} => ResetOf(b, s, m, j) = Reset004(s, m, j)
         /\ b \notin DOMAIN LatchBoards \cup {60, 71, 15, 230, 28} \cup MMC3Boards =>
              ResetOf(b, s, m, j) = Built(b, m, j)
BY LatchDomain DEF ResetOf, MMC3Boards

LEMMA WrittenWhich ==
  ASSUME NEW s, NEW a, NEW d, NEW m, NEW j
  PROVE  /\ \A b \in DOMAIN LatchBoards : Written(b, s, a, d, m, j) = LatchWritten(b, s, a, d)
         /\ Written(34, s, a, d, m, j) = Written034(s, a, d)
         /\ Written(46, s, a, d, m, j) = Written046(s, a, d)
         /\ Written(57, s, a, d, m, j) = Written057(s, a, d)
         /\ \A b \in {5, 60} : Written(b, s, a, d, m, j) = s
         /\ Written(71, s, a, d, m, j) = Written071(s, a, d)
         /\ \A b \in {72, 92} : Written(b, s, a, d, m, j) = WrittenEdge(s, a, d)
         /\ Written(226, s, a, d, m, j) = Written226(s, a, d)
         /\ Written(227, s, a, d, m, j) = Written227(s, a, d)
         /\ Written(228, s, a, d, m, j) = Written228(s, a, d)
         /\ Written(232, s, a, d, m, j) = Written232(s, a, d)
         /\ Written(243, s, a, d, m, j) = Written243(s, a, d)
         /\ Written(28, s, a, d, m, j) = Written028(s, a, d)
         /\ Written(1, s, a, d, m, j) = Written001(s, a, d, m, j)
         /\ \A b \in {9, 10} : Written(b, s, a, d, m, j) = WrittenLatched(s, a, d)
         /\ Written(22, s, a, d, m, j) = Written022(s, a, d)
         /\ Written(193, s, a, d, m, j) = Written193(s, a, d)
         /\ Written(246, s, a, d, m, j) = Written246(s, a, d)
         /\ Written(189, s, a, d, m, j) = Written189(s, a, d)
         /\ Written(48, s, a, d, m, j) = Written048(s, a, d)
         /\ Written(67, s, a, d, m, j) = Written067(s, a, d)
         /\ Written(69, s, a, d, m, j) = Written069(s, a, d)
         /\ \A b \in {24, 26} : Written(b, s, a, d, m, j) = Written024(b, s, a, d)
         /\ Written(95, s, a, d, m, j) = Written095(s, a, d, m)
         /\ Written(44, s, a, d, m, j) = Written044(s, a, d, m, j)
         /\ Written(47, s, a, d, m, j) = Written047(s, a, d, m, j)
         /\ Written(49, s, a, d, m, j) = Written049(s, a, d, m, j)
         /\ Written(115, s, a, d, m, j) = Written115(s, a, d, m, j)
         /\ Written(205, s, a, d, m, j) = Written205(s, a, d, m, j)
         /\ Written(182, s, a, d, m, j) = Written182(s, a, d, m, j)
         /\ \A b \in {4, 74, 118, 119, 191, 192, 194} :
              Written(b, s, a, d, m, j) = Written004(s, a, d, m, j)
BY LatchDomain DEF Written, MMC3Boards

LEMMA PrgWhich ==
  ASSUME NEW s, NEW m
  PROVE  /\ \A b \in DOMAIN LatchBoards : Prg(b, s, m) = LatchPrg(b, s, m)
         /\ \A b \in {34, 243} : Prg(b, s, m) = Prg32(s.prg, m)
         /\ Prg(46, s, m) = Prg046(s, m) /\ Prg(57, s, m) = Prg057(s, m)
         /\ Prg(60, s, m) = Prg060(s, m) /\ Prg(71, s, m) = Prg071(s, m)
         /\ Prg(72, s, m) = Prg072(s, m) /\ Prg(92, s, m) = Prg092(s, m)
         /\ Prg(226, s, m) = Prg226(s, m) /\ Prg(227, s, m) = Prg227(s, m)
         /\ Prg(228, s, m) = Prg228(s, m) /\ Prg(232, s, m) = Prg232(s, m)
         /\ Prg(28, s, m) = Prg028(s, m) /\ Prg(1, s, m) = Prg001(s, m)
         /\ Prg(9, s, m) = Prg009(s, m) /\ Prg(10, s, m) = Prg010(s, m)
         /\ Prg(22, s, m) = Prg022(s, m) /\ Prg(32, s, m) = Prg032(s, m)
         /\ Prg(33, s, m) = Prg033(s, m) /\ Prg(68, s, m) = Prg068(s, m)
         /\ Prg(75, s, m) = Prg075(s, m) /\ Prg(112, s, m) = Prg112(s, m)
         /\ \A b \in {76, 88, 154} : Prg(b, s, m) = Prg076(s, m)
         /\ \A b \in {80, 82} : Prg(b, s, m) = Prg080(s, m)
         /\ Prg(193, s, m) = Prg193(s, m) /\ Prg(246, s, m) = Prg246(s, m)
         /\ Prg(189, s, m) = Prg32(s.prg32, m)
         /\ Prg(49, s, m) = Prg049(s, m) /\ Prg(115, s, m) = Prg115(s, m)
         /\ Prg(205, s, m) = Prg205(s, m)
         /\ \A b \in {4, 74, 95, 118, 119, 182, 191, 192, 194} : Prg(b, s, m) = s.prgBank
         /\ Prg(48, s, m) = Prg048(s, m) /\ Prg(64, s, m) = Prg064(s, m)
         /\ Prg(65, s, m) = Prg065(s, m) /\ Prg(67, s, m) = Prg067(s, m)
         /\ Prg(69, s, m) = Prg069(s, m) /\ Prg(73, s, m) = Prg073(s, m)
         /\ Prg(91, s, m) = Prg091(s, m)
         /\ \A b \in {24, 26} : Prg(b, s, m) = Prg024(s, m)
         /\ Prg(5, s, m) = Prg005(s, m)
BY LatchDomain DEF Prg, Namco118Like

LEMMA ChrWhich ==
  ASSUME NEW s, NEW j
  PROVE  /\ \A b \in DOMAIN LatchBoards : Chr(b, s, j) = LatchChr(b, s, j)
         /\ Chr(34, s, j) = Chr034(s, j) /\ Chr(46, s, j) = Chr046(s, j)
         /\ Chr(57, s, j) = Chr057(s, j) /\ Chr(60, s, j) = Chr060(s, j)
         /\ \A b \in {72, 92} : Chr(b, s, j) = ChrEdge(s, j)
         /\ Chr(73, s, j) = Raw8(0)
         /\ Chr(228, s, j) = Chr228(s, j) /\ Chr(243, s, j) = Chr243(s, j)
         /\ Chr(28, s, j) = Chr028(s, j) /\ Chr(1, s, j) = Chr001(s, j)
         /\ \A b \in {9, 10} : Chr(b, s, j) = ChrLatched(s, j)
         /\ Chr(22, s, j) = Chr022(s, j) /\ Chr(193, s, j) = Chr193(s, j)
         /\ Chr(49, s, j) = Chr049(s, j) /\ Chr(115, s, j) = Chr115(s, j)
         /\ Chr(205, s, j) = Chr205(s, j)
         /\ \A b \in {4, 74, 118, 119, 182, 191, 192, 194} : Chr(b, s, j) = s.chrBank
         /\ Chr(48, s, j) = Chr048(s, j) /\ Chr(69, s, j) = Chr069(s, j)
         /\ \A b \in {24, 26} : Chr(b, s, j) = Chr024(s, j)
         /\ Chr(5, s, j) = Chr005(s, j)
BY LatchDomain DEF Chr

(* The registers each board was built with, in a machine with nothing yet  *)
(* written.                                                                *)
LEMMA StartsIn ==
  ASSUME NEW m \in Nat
  PROVE  /\ Regs034(Built034(m)) /\ Regs046(Built046) /\ Regs057(Built057)
         /\ Regs060(Built060) /\ RegsEdge(BuiltEdge) /\ Regs226(Built226)
         /\ Regs227(Built227) /\ Regs228(Built228) /\ Regs232(Built232)
         /\ Regs243(Built243) /\ Regs028(Built028)
<1>1. Regs034(Built034(m))
  BY DEF Regs034, Has, Built034
<1>2. Regs046(Built046)
  BY DEF Regs046, Has, Built046
<1>3. Regs057(Built057)
  BY DEF Regs057, Nats, Built057
<1>4. Regs060(Built060)
  BY DEF Regs060, Has, Built060
<1>5. RegsEdge(BuiltEdge)
  BY DEF RegsEdge, Has, BuiltEdge
<1>6. Regs226(Built226)
  BY DEF Regs226, Has, Built226
<1>7. Regs227(Built227)
  BY DEF Regs227, Has, Built227
<1>8. Regs228(Built228)
  BY DEF Regs228, Has, Built228
<1>9. Regs232(Built232)
  BY DEF Regs232, Has, Built232
<1>10. Regs243(Built243)
  BY DEF Regs243, Has, Built243
<1>11. Regs028(Built028)
  BY DEF Regs028, Nats, Built028
<1> QED
  BY <1>1, <1>2, <1>3, <1>4, <1>5, <1>6, <1>7, <1>8, <1>9, <1>10, <1>11

(* The others of the boards that switch more than one bank.                *)
LEMMA BanksStartIn ==
  ASSUME NEW m \in Nat \ {0}
  PROVE  /\ Regs193(Built193) /\ Regs246(Built246) /\ Regs189(Built189)
         /\ Regs048(Built048) /\ Regs067(Built067) /\ Regs069(Built069)
         /\ Regs024(Built024) /\ Regs095(Built095(m), m)
         /\ "prgBankLo" \in DOMAIN Built071
<1>1. Regs193(Built193)
  BY ZerosType DEF Regs193, HasEach, Built193
<1>2. Regs246(Built246)
  BY DEF Regs246, HasEach, Built246
<1>3. Regs189(Built189)
  BY DEF Regs189, Has, Built189
<1>4. Regs048(Built048)
  BY ZerosType DEF Regs048, HasEach, Built048
<1>5. Regs067(Built067)
  BY DEF Regs067, Has, Built067
<1>6. Regs069(Built069)
  BY ZerosType DEF Regs069, HasEach, Built069
<1>7. Regs024(Built024)
  BY ZerosType DEF Regs024, Has, Nats, HasEach, Built024
<1>8. Regs095(Built095(m), m)
  <2>1. \A b0, b1, b2, b3 : Prg8s(b0, b1, b2, b3)[3] = b3
    BY DEF Prg8s, PrgWindows
  <2> QED
    BY <2>1 DEF Regs095, Built095
<1>9. "prgBankLo" \in DOMAIN Built071
  BY DEF Built071
<1> QED
  BY <1>1, <1>2, <1>3, <1>4, <1>5, <1>6, <1>7, <1>8, <1>9

(* What the registers of any board hold: the invariant of r.               *)
RegsSimple(b, s, m) ==
  /\ b \in DOMAIN LatchBoards => RegsLatch(b, s)
  /\ b = 34 => Regs034(s)
  /\ b = 46 => Regs046(s)
  /\ b = 57 => Regs057(s)
  /\ b = 60 => Regs060(s)
  /\ b = 71 => "prgBankLo" \in DOMAIN s
  /\ b \in {72, 92} => RegsEdge(s)
  /\ b = 226 => Regs226(s)
  /\ b = 227 => Regs227(s)
  /\ b = 228 => Regs228(s)
  /\ b = 232 => Regs232(s)
  /\ b = 243 => Regs243(s)
  /\ b = 28 => Regs028(s)
RegsBanked(b, s, m, j) ==
  /\ b = 1 => Regs001(s)
  /\ b \in {9, 10} => RegsLatched(s)
  /\ b = 22 => Regs022(s)
  /\ b = 193 => Regs193(s)
  /\ b = 246 => Regs246(s)
  /\ b = 189 => Regs189(s)
  /\ b = 48 => Regs048(s)
  /\ b = 67 => Regs067(s)
  /\ b = 69 => Regs069(s)
  /\ b \in {24, 26} => Regs024(s)
  /\ b = 5 => Regs005(s)
  /\ b = 95 => Regs095(s, m)
  /\ b \in MMC3Boards => RegsFamily(b, s, m, j)
RegInv(b, s, m, j) == RegsSimple(b, s, m) /\ RegsBanked(b, s, m, j)

(* Every board starts with what its registers hold,                        *)
LEMMA BuiltKeeps ==
  ASSUME NEW b, NEW m \in Nat \ {0}, NEW j \in Nat
  PROVE  RegInv(b, Built(b, m, j), m, j)
<1>1. b \in DOMAIN LatchBoards => RegsLatch(b, Built(b, m, j))
  BY BuiltWhich, LatchStartIn
<1>2. RegsSimple(b, Built(b, m, j), m)
  BY <1>1, BuiltWhich, StartsIn, BanksStartIn DEF RegsSimple
<1>3. b \in MMC3Boards => RegsFamily(b, Built(b, m, j), m, j)
  <2>1. CASE b = 115
    <3>1. PICK x : x = [Built004(m, j) EXCEPT !.outer = Outer115]
      OBVIOUS
    <3>2. Built(b, m, j) = x
      BY <2>1, <3>1, BuiltWhich
    <3>3. RegsFamily(115, x, m, j)
      BY <3>1, BuiltFamilyIn
    <3> QED
      BY <2>1, <3>2, <3>3
  <2>2. CASE b \in MMC3Boards \ {115}
    <3>1. Built(b, m, j) = Built004(m, j)
      BY <2>2, BuiltWhich
    <3>2. b # 115
      BY <2>2
    <3> QED
      BY <3>1, <3>2, BuiltFamilyIn
  <2> QED
    BY <2>1, <2>2
<1>4. RegsBanked(b, Built(b, m, j), m, j)
  BY <1>3, BuiltWhich, BanksStartIn, Built001In, BuiltLatchedIn, Built022In, Built005In
  DEF RegsBanked
<1> QED
  BY <1>2, <1>4 DEF RegInv

(* a reset keeps it,                                                       *)
LEMMA ResetKeeps ==
  ASSUME NEW m \in Nat \ {0}, NEW j \in Nat, NEW b, NEW s, RegInv(b, s, m, j)
  PROVE  RegInv(b, ResetOf(b, s, m, j), m, j)
<1>0. PICK t : t = ResetOf(b, s, m, j)
  OBVIOUS
<1>1. CASE b \in DOMAIN LatchBoards
  <2>1. t = LatchReset(b, s, m)
    BY <1>1, <1>0, ResetWhich
  <2>2. LatchReset(b, s, m) = IF LatchBoards[b].resets THEN LatchStart(b, m) ELSE s
    BY DEF LatchReset
  <2>3. RegsLatch(b, s)
    BY <1>1 DEF RegInv, RegsSimple
  <2>4. RegsLatch(b, t)
    BY <1>1, <2>1, <2>2, <2>3, LatchStartIn
  <2> QED
    BY <1>0, <1>1, <2>4, LatchDomain DEF RegInv, RegsSimple, RegsBanked, MMC3Boards
<1>2. CASE b = 60
  <2>1. t = Reset060(s) /\ Regs060(s)
    BY <1>2, <1>0, ResetWhich DEF RegInv, RegsSimple
  <2>2. Regs060(t)
    BY <2>1, Keeps060
  <2> QED
    BY <1>0, <1>2, <2>2, LatchDomain DEF RegInv, RegsSimple, RegsBanked, MMC3Boards
<1>3. CASE b = 71
  <2>1. t = Reset071(s) /\ "prgBankLo" \in DOMAIN s
    BY <1>3, <1>0, ResetWhich DEF RegInv, RegsSimple
  <2>2. "prgBankLo" \in DOMAIN t
    BY <2>1 DEF Reset071
  <2> QED
    BY <1>0, <1>3, <2>2, LatchDomain DEF RegInv, RegsSimple, RegsBanked, MMC3Boards
<1>4. CASE b = 28
  BY <1>4, <1>0, ResetWhich
<1>5. CASE b \in {15, 230}
  BY <1>5, LatchDomain DEF RegInv, RegsSimple, RegsBanked, MMC3Boards
<1>6. CASE b \in MMC3Boards
  <2>1. RegsFamily(b, t, m, j)
    <3>1. CASE b = 115
      <4>1. PICK x : x = [Reset004(s, m, j) EXCEPT !.outer = Outer115]
        OBVIOUS
      <4>2. t = x
        BY <1>0, <3>1, <4>1, ResetWhich
      <4>3. RegsFamily(115, x, m, j)
        BY <4>1, BuiltFamilyIn
      <4> QED
        BY <3>1, <4>2, <4>3
    <3>2. CASE b # 115
      <4>1. t = Reset004(s, m, j)
        BY <1>6, <3>2, <1>0, ResetWhich
      <4> QED
        BY <3>2, <4>1, BuiltFamilyIn
    <3> QED
      BY <3>1, <3>2
  <2> QED
    BY <1>0, <1>6, <2>1, LatchDomain DEF RegInv, RegsSimple, RegsBanked, MMC3Boards
<1>7. CASE b \notin DOMAIN LatchBoards \cup {60, 71, 15, 230, 28} \cup MMC3Boards
  BY <1>7, <1>0, ResetWhich, BuiltKeeps
<1> QED
  BY <1>1, <1>2, <1>3, <1>4, <1>5, <1>6, <1>7

(* and so does a write, whatever its address and its byte.                 *)
LEMMA WrittenKeeps ==
  ASSUME NEW m \in Nat \ {0}, NEW j \in Nat, NEW b, NEW s, RegInv(b, s, m, j),
         NEW a \in Nat, NEW d \in Nat
  PROVE  RegInv(b, Written(b, s, a, d, m, j), m, j)
<1> DEFINE t == Written(b, s, a, d, m, j)
<1>1. b \in DOMAIN LatchBoards => RegsLatch(b, t)
  <2>1. b \in DOMAIN LatchBoards => t = LatchWritten(b, s, a, d)
    BY LatchDomain DEF Written, MMC3Boards
  <2> HIDE DEF t
  <2> QED
    BY <2>1, LatchWrittenIn DEF RegInv, RegsSimple
<1>2. RegsSimple(b, t, m)
  <2>1. b = 34 => Regs034(t)
    BY WrittenWhich, Keeps034 DEF RegInv, RegsSimple
  <2>2. b = 46 => Regs046(t)
    BY WrittenWhich, Keeps046 DEF RegInv, RegsSimple
  <2>3. b = 57 => Regs057(t)
    BY WrittenWhich, Keeps057 DEF RegInv, RegsSimple
  <2>4. b = 60 => Regs060(t)
    BY WrittenWhich DEF RegInv, RegsSimple
  <2>5. b = 71 => "prgBankLo" \in DOMAIN t
    <3>1. b = 71 => t = Written071(s, a, d)
      BY WrittenWhich
    <3>2. "prgBankLo" \in DOMAIN s => "prgBankLo" \in DOMAIN Written071(s, a, d)
      BY DEF Written071
    <3> QED
      BY <3>1, <3>2 DEF RegInv, RegsSimple
  <2>6. b \in {72, 92} => RegsEdge(t)
    BY WrittenWhich, KeepsEdge DEF RegInv, RegsSimple
  <2>7. b = 226 => Regs226(t)
    BY WrittenWhich, Keeps226 DEF RegInv, RegsSimple
  <2>8. b = 227 => Regs227(t)
    BY WrittenWhich, Keeps227 DEF RegInv, RegsSimple
  <2>9. b = 228 => Regs228(t)
    BY WrittenWhich, Keeps228 DEF RegInv, RegsSimple
  <2>10. b = 232 => Regs232(t)
    BY WrittenWhich, Keeps232 DEF RegInv, RegsSimple
  <2>11. b = 243 => Regs243(t)
    BY WrittenWhich, Keeps243 DEF RegInv, RegsSimple
  <2>12. b = 28 => Regs028(t)
    <3>1. b = 28 => t = Written028(s, a, d)
      BY DEF Written
    <3> QED
      BY <3>1, Keeps028 DEF RegInv, RegsSimple
  <2> HIDE DEF t
  <2> QED
    BY <1>1, <2>1, <2>2, <2>3, <2>4, <2>5, <2>6, <2>7, <2>8, <2>9, <2>10, <2>11, <2>12
    DEF RegsSimple
<1>3. RegsBanked(b, t, m, j)
  <2>1. b = 1 => Regs001(t)
    BY WrittenWhich, Written001In DEF RegInv, RegsBanked
  <2>2. b \in {9, 10} => RegsLatched(t)
    BY WrittenWhich, WrittenLatchedIn DEF RegInv, RegsBanked
  <2>3. b = 22 => Regs022(t)
    BY WrittenWhich, Keeps022 DEF RegInv, RegsBanked
  <2>4. b = 193 => Regs193(t)
    BY WrittenWhich, Keeps193 DEF RegInv, RegsBanked
  <2>5. b = 246 => Regs246(t)
    BY WrittenWhich, Keeps246 DEF RegInv, RegsBanked
  <2>6. b = 189 => Regs189(t)
    BY WrittenWhich, Keeps189 DEF RegInv, RegsBanked
  <2>7. b = 48 => Regs048(t)
    BY WrittenWhich, Banks048 DEF RegInv, RegsBanked
  <2>8. b = 67 => Regs067(t)
    BY WrittenWhich, Banks067 DEF RegInv, RegsBanked
  <2>9. b = 69 => Regs069(t)
    BY WrittenWhich, Banks069 DEF RegInv, RegsBanked
  <2>10. b \in {24, 26} => Regs024(t)
    BY WrittenWhich, Banks024 DEF RegInv, RegsBanked
  <2>11. b = 5 => Regs005(t)
    BY WrittenWhich DEF RegInv, RegsBanked
  <2>12. b = 95 => Regs095(t, m)
    BY WrittenWhich, Keeps095 DEF RegInv, RegsBanked
  <2>13. ASSUME b \in MMC3Boards PROVE RegsFamily(b, t, m, j)
    <3>1. RegsFamily(b, s, m, j)
      BY <2>13 DEF RegInv, RegsBanked
    <3>2. CASE b \in {4, 74, 118, 119, 191, 192, 194}
      BY <3>1, <3>2, WrittenWhich, FamilyWrite
    <3>3. CASE b \in {44, 47, 49, 205}
      BY <3>1, <3>3, WrittenWhich, WrittenFamilyIn
    <3>4. CASE b = 115
      BY <3>1, <3>4, WrittenWhich, Written115In
    <3>5. CASE b = 182
      BY <3>1, <3>5, WrittenWhich, Written182In
    <3> QED
      BY <2>13, <3>2, <3>3, <3>4, <3>5 DEF MMC3Boards
  <2> HIDE DEF t
  <2> QED
    BY <2>1, <2>2, <2>3, <2>4, <2>5, <2>6, <2>7, <2>8, <2>9, <2>10, <2>11, <2>12, <2>13
    DEF RegsBanked
<1> QED
  BY <1>2, <1>3 DEF RegInv

(* Where KeptPrg and KeptChr take a window from.                           *)
Banked == {22, 28, 34, 46, 57, 60, 72, 92, 193, 226, 227, 228, 232, 243, 246,
           4, 74, 118, 119, 182, 191, 192, 194, 49, 115, 205, 189, 48, 67, 69, 24, 26}

LEMMA KeptPrgWhich ==
  ASSUME NEW w \in KeptPrg
  PROVE  \/ board \in DOMAIN LatchBoards /\ LatchMasked(board) /\ w \in PrgWindows
         \/ /\ board \in DOMAIN LatchBoards /\ w \in {2, 3}
            /\ \E i \in DOMAIN LatchBoards[board].prgMap : LatchBoards[board].prgMap[i] = "lo16"
         \/ board \in Banked /\ w \in PrgWindows
         \/ board \in {33, 71, 76, 88, 154, 10, 68, 73, 91, 112} /\ w \in {2, 3}
         \/ board \in {32, 64, 65, 75, 80, 82, 95} /\ w = 3
         \/ board = 9 /\ w \in {1, 2, 3}
         \/ board = 5 /\ w \in PrgWindows /\ ~InRam(r, w)
         \/ board = 1 /\ n \in {16, 32} /\ w \in PrgWindows
BY LatchDomain DEF KeptPrg, Banked

LEMMA KeptChrWhich ==
  ASSUME NEW w \in KeptChr, board \in Registered
  PROVE  /\ w \in ChrWindows /\ (k # 0 \/ board = 1)
         /\ \/ board \in DOMAIN LatchBoards /\ LatchBoards[board].chrMap = "masked8"
            \/ board \in {34, 46, 57, 60, 72, 92, 228, 243, 28, 1, 9, 10, 22, 193, 4, 74, 118,
                          119, 182, 191, 192, 194, 49, 115, 205, 48, 69, 24, 26, 5, 73}
BY LatchDomain DEF KeptChr, Registered, IrqBoards, A12Boards, CpuBoards, MMC3Boards

(* The windows that boards fix at the end of the ROM.                      *)
LEMMA FixedIn ==
  ASSUME NEW s, NEW m \in Nat, m > 1
  PROVE  /\ \A w \in {2, 3} : /\ Prg033(s, m)[w] \in 0..2 * m - 1
                              /\ Prg076(s, m)[w] \in 0..2 * m - 1
                              /\ Prg091(s, m)[w] \in 0..2 * m - 1
                              /\ Prg112(s, m)[w] \in 0..2 * m - 1
         /\ Prg032(s, m)[3] \in 0..2 * m - 1 /\ Prg064(s, m)[3] \in 0..2 * m - 1
         /\ Prg065(s, m)[3] \in 0..2 * m - 1 /\ Prg075(s, m)[3] \in 0..2 * m - 1
         /\ Prg080(s, m)[3] \in 0..2 * m - 1
<1>1. \A b0, b1, b2, b3 : Prg8s(b0, b1, b2, b3)[2] = b2 /\ Prg8s(b0, b1, b2, b3)[3] = b3
  BY DEF Prg8s, PrgWindows
<1>2. Last8(m, 1) \in 0..2 * m - 1 /\ Last8(m, 2) \in 0..2 * m - 1
  BY Last8In
<1>3. /\ Prg033(s, m)[2] \in 0..2 * m - 1 /\ Prg033(s, m)[3] \in 0..2 * m - 1
      /\ Prg076(s, m)[2] \in 0..2 * m - 1 /\ Prg076(s, m)[3] \in 0..2 * m - 1
      /\ Prg091(s, m)[2] \in 0..2 * m - 1 /\ Prg091(s, m)[3] \in 0..2 * m - 1
      /\ Prg112(s, m)[2] \in 0..2 * m - 1 /\ Prg112(s, m)[3] \in 0..2 * m - 1
  <2>1. 2 * m - 2 \in 0..2 * m - 1 /\ 2 * m - 1 \in 0..2 * m - 1
    OBVIOUS
  <2> QED
    BY <1>1, <1>2, <2>1 DEF Prg033, Prg076, Prg091, Prg112
<1>4. /\ Prg032(s, m)[3] \in 0..2 * m - 1 /\ Prg064(s, m)[3] \in 0..2 * m - 1
      /\ Prg065(s, m)[3] \in 0..2 * m - 1 /\ Prg075(s, m)[3] \in 0..2 * m - 1
      /\ Prg080(s, m)[3] \in 0..2 * m - 1
  BY <1>1, <1>2 DEF Prg032, Prg064, Prg065, Prg075, Prg080
<1> QED
  BY <1>3, <1>4

(* The upper half, on the boards that fix the last 16 KB there.            *)
LEMMA Fixed16In ==
  ASSUME NEW s, NEW m \in Nat, m > 1, NEW w \in {2, 3}
  PROVE  /\ Prg010(s, m)[w] \in 0..2 * m - 1 /\ Prg068(s, m)[w] \in 0..2 * m - 1
         /\ Prg073(s, m)[w] \in 0..2 * m - 1 /\ Prg071(s, m)[w] \in 0..2 * m - 1
<1>1. m - 1 \in 0..m - 1
  OBVIOUS
<1>2. (m - 1) % 256 \in 0..m - 1
  OBVIOUS
<1>3. \A lo : Raw16(lo, m - 1)[w] \in 0..2 * m - 1
  BY <1>1, Raw16HiIn
<1>4. \A lo : Raw16(lo, (m - 1) % 256)[w] \in 0..2 * m - 1
  BY <1>2, Raw16HiIn
<1> QED
  BY <1>3, <1>4 DEF Prg010, Prg068, Prg073, Prg071

(* What the sizes of a cartridge are.                                      *)
Sized == /\ board \in Registered /\ n \in Nat \ {0} /\ k \in Nat
         /\ n > 1 \/ (n = 1 /\ board \in {0, 3})

(* Every window of a board that reduces its banks.                         *)
LEMMA BankedIn ==
  ASSUME Sized, RegInv(board, r, n, k), board \in Banked
  PROVE  PrgIn(Prg(board, r, n), n)
<1>0. n \in Nat \ {0} /\ n > 1
  BY DEF Sized, Banked
<1>1. PICK m : m = n
  OBVIOUS
<1>2. PICK one \in Nat \ {0} : one = 1
  OBVIOUS
<1>3. CASE board \in {34, 243}
  <2>1. r.prg \in Int
    BY <1>3 DEF RegInv, RegsSimple, Regs034, Regs243, Has
  <2> QED
    BY <1>0, <1>3, <2>1, PrgWhich, Prg32In
<1>4. CASE board = 46
  BY <1>0, <1>2, <1>4, PrgWhich, Windows046 DEF RegInv, RegsSimple
<1>5. CASE board = 57
  BY <1>0, <1>2, <1>5, PrgWhich, Windows057 DEF RegInv, RegsSimple
<1>6. CASE board = 60
  BY <1>0, <1>2, <1>6, PrgWhich, Windows060 DEF RegInv, RegsSimple
<1>7. CASE board \in {72, 92}
  BY <1>0, <1>2, <1>7, PrgWhich, WindowsEdge DEF RegInv, RegsSimple
<1>8. CASE board \in {226, 227, 232}
  BY <1>0, <1>8, PrgWhich, Windows226, Windows227, Windows232 DEF RegInv, RegsSimple
<1>9. CASE board = 228
  BY <1>0, <1>2, <1>9, PrgWhich, Windows228 DEF RegInv, RegsSimple
<1>10. CASE board = 28
  BY <1>0, <1>2, <1>10, PrgWhich, Windows028 DEF RegInv, RegsSimple
<1>11. CASE board \in {22, 193, 48, 69}
  BY <1>0, <1>2, <1>11, PrgWhich, Windows022, Windows193, Windows048, Windows069
  DEF RegInv, RegsBanked
<1>12. CASE board \in {246, 67}
  BY <1>0, <1>12, PrgWhich, Windows246, Windows067 DEF RegInv, RegsBanked
<1>13. CASE board = 189
  BY <1>0, <1>13, PrgWhich, Windows189 DEF RegInv, RegsBanked
<1>14. CASE board \in {24, 26}
  BY <1>0, <1>2, <1>14, PrgWhich, Windows024 DEF RegInv, RegsBanked
<1>15. CASE board \in {4, 74, 118, 119, 182, 191, 192, 194, 49, 115, 205}
  <2>1. RegsFamily(board, r, n, k)
    BY <1>15 DEF RegInv, RegsBanked, MMC3Boards
  <2>2. PICK j \in Nat \ {0} : j = Least(k)
    BY DEF Sized, Least
  <2>3. RegsFamily(board, r, n, j)
    <3>1. Least(j) = Least(k)
      BY <2>2 DEF Least
    <3> QED
      BY <2>1, <3>1 DEF RegsFamily, Regs004
  <2>4. CASE board \in {4, 74, 118, 119, 182, 191, 192, 194}
    <3>1. Prg(board, r, n) = r.prgBank
      BY <2>4, PrgWhich
    <3> QED
      BY <1>0, <2>2, <2>3, <3>1, Windows004 DEF RegsFamily
  <2>5. CASE board \in {49, 115, 205}
    BY <1>0, <2>2, <2>3, <2>5, PrgWhich, Windows049, Windows115, Windows205
  <2> QED
    BY <1>15, <2>4, <2>5
<1> QED
  BY <1>3, <1>4, <1>5, <1>6, <1>7, <1>8, <1>9, <1>10, <1>11, <1>12, <1>13, <1>14, <1>15 DEF Banked

(* Every window that KeptPrg and KeptChr name.                             *)
LEMMA PrgHolds ==
  ASSUME Sized, RegInv(board, r, n, k), NEW w \in KeptPrg
  PROVE  Prg(board, r, n)[w] \in 0..2 * n - 1
<1>0. n \in Nat \ {0}
  BY DEF Sized
<1>1. CASE board \in DOMAIN LatchBoards /\ LatchMasked(board) /\ w \in PrgWindows
  <2>1. RegsLatch(board, r)
    BY <1>1 DEF RegInv, RegsSimple
  <2>2. PrgIn(LatchPrg(board, r, n), n)
    BY <1>0, <1>1, <2>1, LatchPrgIn DEF Sized
  <2>3. Prg(board, r, n) = LatchPrg(board, r, n)
    BY <1>1, LatchDomain DEF Prg, Namco118Like
  <2> QED
    BY <1>1, <2>2, <2>3 DEF PrgIn
<1>2. CASE /\ board \in DOMAIN LatchBoards /\ w \in {2, 3}
           /\ \E i \in DOMAIN LatchBoards[board].prgMap : LatchBoards[board].prgMap[i] = "lo16"
  <2>1. RegsLatch(board, r)
    BY <1>2 DEF RegInv, RegsSimple
  <2>2. \A v \in {2, 3} : LatchPrg(board, r, n)[v] \in 0..2 * n - 1
    BY <1>0, <1>2, <2>1, LatchFixedIn
  <2>3. Prg(board, r, n) = LatchPrg(board, r, n)
    BY <1>2, LatchDomain DEF Prg, Namco118Like
  <2> QED
    BY <1>2, <2>2, <2>3
<1>3. CASE board \in Banked /\ w \in PrgWindows
  BY <1>3, BankedIn DEF PrgIn
<1>4. ASSUME board \notin DOMAIN LatchBoards PROVE n > 1
  BY <1>4, LatchDomain DEF Sized
<1>5. CASE board \in {33, 71, 76, 88, 154, 10, 68, 73, 91, 112} /\ w \in {2, 3}
  <2>1. n \in Nat /\ n > 1
    BY <1>0, <1>4, <1>5, LatchDomain
  <2>2. CASE board \in {33, 76, 88, 154, 91, 112}
    BY <1>5, <2>1, <2>2, PrgWhich, FixedIn
  <2>3. CASE board \in {71, 10, 68, 73}
    BY <1>5, <2>1, <2>3, PrgWhich, Fixed16In
  <2> QED
    BY <1>5, <2>2, <2>3
<1>6. CASE board \in {32, 64, 65, 75, 80, 82} /\ w = 3
  <2>1. n \in Nat /\ n > 1
    BY <1>0, <1>4, <1>6, LatchDomain
  <2> QED
    BY <1>6, <2>1, PrgWhich, FixedIn
<1>7. CASE board = 95 /\ w = 3
  <2>1. Prg(board, r, n) = r.prgBank
    BY <1>7, PrgWhich
  <2>2. r.prgBank[3] = 2 * n - 1
    BY <1>7 DEF RegInv, RegsBanked, Regs095
  <2> QED
    BY <1>0, <1>7, <2>1, <2>2
<1>8. CASE board = 9 /\ w \in {1, 2, 3}
  <2>1. n \in Nat /\ n > 1
    BY <1>0, <1>4, <1>8, LatchDomain
  <2> QED
    BY <1>8, <2>1, PrgWhich, Prg009In
<1>9. CASE board = 5 /\ w \in PrgWindows /\ ~InRam(r, w)
  BY <1>0, <1>9, PrgWhich, Prg005In DEF RegInv, RegsBanked
<1>10. CASE board = 1 /\ n \in {16, 32} /\ w \in PrgWindows
  BY <1>10, PrgWhich, Prg001In DEF RegInv, RegsBanked, PrgIn
<1> QED
  BY KeptPrgWhich, <1>1, <1>2, <1>3, <1>5, <1>6, <1>7, <1>8, <1>9, <1>10

(* The same of the CHR.                                                    *)
LEMMA ChrHolds ==
  ASSUME Sized, RegInv(board, r, n, k), NEW w \in KeptChr
  PROVE  Chr(board, r, k)[w] \in 0..(IF k = 0 THEN 8 ELSE 8 * k) - 1
<1>0. /\ w \in ChrWindows /\ n \in Nat \ {0} /\ k \in Nat /\ board \in Registered
      /\ k # 0 \/ board = 1
  BY KeptChrWhich DEF Sized
<1>1. CASE board = 1
  <2>1. ChrIn(Chr(board, r, k), Least(k))
    BY <1>0, <1>1, ChrWhich, Chr001In DEF RegInv, RegsBanked
  <2> QED
    BY <1>0, <2>1 DEF ChrIn, Least
<1>2. CASE board # 1
  <2>0. k \in Nat \ {0} /\ board \in Registered
    BY <1>0, <1>2
  <2> SUFFICES ChrIn(Chr(board, r, k), k)
    BY <1>0, <2>0 DEF ChrIn
  <2>1. CASE board \in DOMAIN LatchBoards /\ LatchBoards[board].chrMap = "masked8"
    <3>1. RegsLatch(board, r)
      BY <2>1 DEF RegInv, RegsSimple
    <3>2. Chr(board, r, k) = LatchChr(board, r, k)
      BY <2>1, ChrWhich
    <3> QED
      BY <2>0, <2>1, <3>1, <3>2, LatchChrIn
  <2>2. PICK m \in Nat : m = 2 /\ m > 1
    OBVIOUS
  <2>3. CASE board \in {34, 243}
    BY <2>0, <2>3, ChrWhich, Windows034, Windows243 DEF RegInv, RegsSimple
  <2>4. CASE board = 46
    BY <2>0, <2>2, <2>4, ChrWhich, Windows046 DEF RegInv, RegsSimple
  <2>5. CASE board = 57
    BY <2>0, <2>2, <2>5, ChrWhich, Windows057 DEF RegInv, RegsSimple
  <2>6. CASE board = 60
    BY <2>0, <2>2, <2>6, ChrWhich, Windows060 DEF RegInv, RegsSimple
  <2>7. CASE board \in {72, 92}
    BY <2>0, <2>2, <2>7, ChrWhich, WindowsEdge DEF RegInv, RegsSimple
  <2>8. CASE board = 228
    BY <2>0, <2>2, <2>8, ChrWhich, Windows228 DEF RegInv, RegsSimple
  <2>9. CASE board = 28
    BY <2>0, <2>2, <2>9, ChrWhich, Windows028 DEF RegInv, RegsSimple
  <2>10. CASE board \in {9, 10}
    BY <2>0, <2>10, ChrWhich, ChrLatchedIn DEF RegInv, RegsBanked
  <2>11. CASE board \in {22, 193, 48, 69}
    BY <1>0, <2>0, <2>11, ChrWhich, Windows022, Windows193, Windows048, Windows069
    DEF RegInv, RegsBanked
  <2>12. CASE board \in {24, 26}
    BY <1>0, <2>0, <2>12, ChrWhich, Windows024 DEF RegInv, RegsBanked
  <2>13. CASE board \in {4, 74, 118, 119, 182, 191, 192, 194, 49, 115, 205}
    <3>1. RegsFamily(board, r, n, k)
      BY <2>13 DEF RegInv, RegsBanked, MMC3Boards
    <3>2. CASE board \in {4, 74, 118, 119, 182, 191, 192, 194}
      <4>1. Chr(board, r, k) = r.chrBank
        BY <3>2, ChrWhich
      <4> QED
        BY <1>0, <2>0, <3>1, <4>1, Windows004 DEF RegsFamily
    <3>3. CASE board \in {49, 115, 205}
      BY <1>0, <2>0, <3>1, <3>3, ChrWhich, Windows049, Windows115, Windows205
    <3> QED
      BY <2>13, <3>2, <3>3
  <2>14. CASE board = 5
    BY <2>0, <2>14, ChrWhich, Chr005In DEF RegInv, RegsBanked
  <2>15. CASE board = 73
    <3>1. Chr(board, r, k) = Raw8(0)
      BY <2>15, ChrWhich
    <3> QED
      BY <2>0, <3>1 DEF Raw8, ChrIn, ChrWindows
  <2> QED
    BY <1>0, <1>2, KeptChrWhich, <2>1, <2>3, <2>4, <2>5, <2>6, <2>7, <2>8, <2>9, <2>10, <2>11,
       <2>12, <2>13, <2>14, <2>15
<1> QED
  BY <1>1, <1>2

(* The invariant of the registers, and the sizes of the cartridge.         *)
BanksInv == cart \in Instances /\ RegInv(board, r, n, k)

(* The cartridge has the sizes SizesAssumption gives it.                   *)
LEMMA CartridgeSized ==
  ASSUME cart \in Instances
  PROVE  Sized
<1>1. /\ board \in Registered /\ k \in Bytes
      /\ n \in Nat /\ n >= (IF board \in {0, 3} THEN 1 ELSE 2)
  BY SizesAssumption DEF board, n, k
<1> QED
  BY <1>1 DEF Sized, Bytes

(* The invariant holds at the start, and each step keeps it.               *)
LEMMA BanksInitially == Init => BanksInv
<1> SUFFICES ASSUME Init PROVE BanksInv
  OBVIOUS
<1>1. cart \in Instances
  BY DEF Init
<1>2. n \in Nat \ {0} /\ k \in Nat
  BY <1>1, CartridgeSized DEF Sized
<1>3. RegInv(board, Built(board, n, k), n, k)
  BY <1>2, BuiltKeeps
<1>4. RegInv(board, ResetOf(board, Built(board, n, k), n, k), n, k)
  BY <1>2, <1>3, ResetKeeps
<1>5. r = ResetOf(board, Built(board, n, k), n, k)
  BY DEF Init
<1> QED
  BY <1>1, <1>4, <1>5 DEF BanksInv

(* A write that the board takes before PRG RAM does: MMC5 only.            *)
LEMMA TakingKeeps ==
  ASSUME NEW b, NEW m, NEW j, NEW s, RegInv(b, s, m, j), NEW a \in Nat, NEW d \in Nat
  PROVE  RegInv(b, Taking(b, s, a, d), m, j)
<1>1. CASE b # 5
  BY <1>1 DEF Taking
<1>2. CASE b = 5
  <2>1. PICK t : t = Written005(s, a, d)
    OBVIOUS
  <2>2. Regs005(t)
    BY <1>2, <2>1, Written005In DEF RegInv, RegsBanked
  <2>3. Taking(b, s, a, d) = t
    BY <1>2, <2>1 DEF Taking
  <2> QED
    BY <1>2, <2>2, <2>3, LatchDomain DEF RegInv, RegsSimple, RegsBanked, MMC3Boards
<1> QED
  BY <1>1, <1>2

(* A fetch that throws a latch.                                            *)
LEMMA FetchedKeeps ==
  ASSUME NEW b, NEW m, NEW j, NEW s, RegInv(b, s, m, j), NEW addr
  PROVE  RegInv(b, Fetched(b, s, addr), m, j)
<1>1. CASE b \notin {9, 10}
  BY <1>1 DEF Fetched
<1>2. CASE b \in {9, 10}
  <2>1. PICK t : t = Fetched(b, s, addr)
    OBVIOUS
  <2>2. RegsLatched(t)
    BY <1>2, <2>1, FetchedIn DEF RegInv, RegsBanked, Fetched
  <2> QED
    BY <1>2, <2>1, <2>2, LatchDomain DEF RegInv, RegsSimple, RegsBanked, MMC3Boards
<1> QED
  BY <1>1, <1>2

(* One case for each action of Next.                                       *)
LEMMA BanksStep == BanksInv /\ [Next]_vars => BanksInv'
<1> SUFFICES ASSUME BanksInv, [Next]_vars PROVE BanksInv'
  OBVIOUS
<1>0. /\ cart \in Instances /\ RegInv(board, r, n, k)
      /\ n \in Nat \ {0} /\ k \in Nat
  BY CartridgeSized DEF BanksInv, Sized
<1>1. cart' = cart
  BY DEF Next, CpuWrite, PpuDot, CpuClock, PpuFetch, Reset, vars
<1> SUFFICES RegInv(board, r', n, k)
  BY <1>0, <1>1 DEF BanksInv, board, n, k
<1>2. ASSUME NEW w \in Writes(board, cart.study), CpuWrite(w[1], w[2])
      PROVE  RegInv(board, r', n, k)
  <2>1. w \in Words \X Bytes
    BY <1>0, WritesAssumption, Zenon DEF board
  <2>2. w[1] \in Nat /\ w[2] \in Nat
    <3>1. w[1] \in Words /\ w[2] \in Bytes
      BY <2>1
    <3> QED
      BY <3>1, WordTypes, Zenon
  <2>3. CASE r' = Taking(board, r, w[1], w[2])
    BY <1>0, <2>2, <2>3, TakingKeeps
  <2>4. CASE UNCHANGED r
    BY <1>0, <2>4
  <2>5. CASE \E v \in OnTheBus(w[1], w[2]) : ToBoard(w[1], v)
    <3>1. PICK v \in OnTheBus(w[1], w[2]) : ToBoard(w[1], v)
      BY <2>5
    <3>2. v \in Nat
      BY <1>0, OnTheBusType
    <3>3. r' = Written(board, r, w[1], v, n, k)
      BY <3>1, Zenon DEF ToBoard
    <3> QED
      BY <1>0, <2>2, <3>2, <3>3, WrittenKeeps
  <2> QED
    BY <1>2, <2>3, <2>4, <2>5, Zenon DEF CpuWrite
<1>3. ASSUME NEW addr \in WatchedTiles, PpuFetch(addr)
      PROVE  RegInv(board, r', n, k)
  <2>1. r' = Fetched(board, r, addr)
    BY <1>3, Zenon DEF PpuFetch
  <2> QED
    BY <1>0, <2>1, FetchedKeeps
<1>4. CASE Reset
  <2>1. r' = ResetOf(board, r, n, k)
    BY <1>4, Zenon DEF Reset
  <2> QED
    BY <1>0, <2>1, ResetKeeps
<1>5. CASE (\E level \in BOOLEAN : PpuDot(level)) \/ CpuClock \/ UNCHANGED vars
  <2>1. r' = r
    BY <1>5, Zenon DEF PpuDot, CpuClock, vars, registers
  <2> QED
    BY <1>0, <2>1
<1> QED
  BY <1>2, <1>3, <1>4, <1>5, Zenon DEF Next

(* The registers of every board stay of the shape and within the ranges    *)
(* its windows are computed from, whatever a program writes.               *)
THEOREM RegistersKept == Spec => []BanksInv
  BY BanksInitially, BanksStep, PTL DEF Spec

(* WindowsInRom: on every board, for every size of ROM the board can have  *)
(* and every sequence of writes, fetches and resets, a window that the     *)
(* board keeps reads a byte of the cartridge.                              *)
THEOREM BanksStayInRom == Spec => []WindowsInRom
<1>1. BanksInv => WindowsInRom
  <2> SUFFICES ASSUME BanksInv PROVE WindowsInRom
    OBVIOUS
  <2>1. Sized /\ RegInv(board, r, n, k)
    BY CartridgeSized DEF BanksInv
  <2> QED
    BY <2>1, PrgHolds, ChrHolds, Zenon DEF WindowsInRom
<1> QED
  BY <1>1, RegistersKept, PTL

(* PRG after a reset does not depend on what the registers held before it. *)
LEMMA LatchRestarts ==
  ASSUME NEW b \in DOMAIN LatchBoards, NEW m \in Nat, NEW s, RegsLatch(b, s)
  PROVE  LatchPrg(b, LatchReset(b, s, m), m) = LatchPrg(b, LatchStart(b, m), m)
<1>1. CASE LatchBoards[b].resets
  BY <1>1 DEF LatchReset
<1>2. CASE ~LatchBoards[b].resets
  <2>1. LatchBoards[b].prgMap = <<"nrom">>
    BY <1>2, LatchShaped DEF Shaped
  <2>2. \A t : RegsLatch(b, t) => LatchPrg(b, t, m) = IF m > 1 THEN Raw32(0) ELSE Raw16(0, 0)
    <3>1. ASSUME NEW t, RegsLatch(b, t) PROVE t.mode + 1 = 1
      BY <2>1, <3>1 DEF RegsLatch
    <3> QED
      BY <2>1, <3>1 DEF LatchPrg
  <2>3. RegsLatch(b, LatchStart(b, m))
    BY LatchStartIn
  <2>4. LatchReset(b, s, m) = s
    BY <1>2 DEF LatchReset
  <2> QED
    BY <2>2, <2>3, <2>4
<1> QED
  BY <1>1, <1>2

(* The PRG of MMC3's family is a function of the banks in use and the      *)
(* outer register.                                                         *)
LEMMA FamilyPrg ==
  ASSUME NEW b \in MMC3Boards, NEW m, NEW s, NEW t, s.prgBank = t.prgBank, s.outer = t.outer
  PROVE  Prg(b, s, m) = Prg(b, t, m)
<1>1. CASE b \in {4, 74, 118, 119, 182, 191, 192, 194}
  BY <1>1, PrgWhich
<1>2. CASE b = 44
  <2>1. \A u : Prg(44, u, m) = Prg044(u, m)
    BY LatchDomain DEF Prg, Namco118Like
  <2> QED
    BY <1>2, <2>1, Zenon DEF Prg044
<1>3. CASE b = 47
  <2>1. \A u : Prg(47, u, m) = Prg047(u, m)
    BY LatchDomain DEF Prg, Namco118Like
  <2> QED
    BY <1>3, <2>1, Zenon DEF Prg047
<1>4. CASE b = 49
  <2>1. Prg049(s, m) = Prg049(t, m)
    BY Zenon DEF Prg049
  <2> QED
    BY <1>4, <2>1, PrgWhich
<1>5. CASE b = 115
  <2>1. Prg115(s, m) = Prg115(t, m)
    BY Zenon DEF Prg115
  <2> QED
    BY <1>5, <2>1, PrgWhich
<1>6. CASE b = 205
  <2>1. Prg205(s, m) = Prg205(t, m)
    <3>1. PICK o, q : o = s.outer /\ q = s.prgBank
      OBVIOUS
    <3> DEFINE p(bank) == CASE o = 0 -> bank % 32
                            [] o = 1 -> (bank % 16) + 16
                            [] o > 1 -> Inside(bank, 16, o)
    <3>2. ASSUME NEW u, u.outer = o, u.prgBank = q
          PROVE  Prg205(u, m) = Modulo([w \in PrgWindows |-> p(q[w])], (2 * m) % 256)
      BY <3>2, SMT DEF Prg205
    <3> QED
      BY <3>1, <3>2, Zenon
  <2> QED
    BY <1>6, <2>1, PrgWhich
<1> QED
  BY <1>1, <1>2, <1>3, <1>4, <1>5, <1>6 DEF MMC3Boards

(* MMC3's reset brings the banks in use back to those it was built with.   *)
LEMMA Reset004Same ==
  ASSUME NEW m \in Nat \ {0}, NEW j \in Nat, NEW s
  PROVE  Reset004(s, m, j).prgBank = Built004(m, j).prgBank
<1>1. PICK u : u = Built004(m, j)
  OBVIOUS
<1>2. "prgBank" \in DOMAIN u
  BY <1>1, Built004In DEF Regs004
<1> QED
  BY <1>1, <1>2 DEF Reset004

(* PRG after a reset is the same whatever the registers held.              *)
LEMMA PrgRestarts ==
  ASSUME NEW m \in Nat \ {0}, NEW j \in Nat, NEW b, NEW s, RegInv(b, s, m, j),
         b \notin {15, 28, 60, 230}
  PROVE  Prg(b, ResetOf(b, s, m, j), m) = Prg(b, ResetOf(b, Built(b, m, j), m, j), m)
<1>0. PICK u : u = Built(b, m, j)
  OBVIOUS
<1>1. RegInv(b, u, m, j)
  BY <1>0, BuiltKeeps
<1> SUFFICES Prg(b, ResetOf(b, s, m, j), m) = Prg(b, ResetOf(b, u, m, j), m)
  BY <1>0
<1>2. CASE b \in DOMAIN LatchBoards
  <2>1. \A t : Prg(b, t, m) = LatchPrg(b, t, m)
    BY <1>2, LatchDomain DEF Prg, Namco118Like
  <2>2. ResetOf(b, s, m, j) = LatchReset(b, s, m) /\ ResetOf(b, u, m, j) = LatchReset(b, u, m)
    BY <1>2, ResetWhich
  <2>3. RegsLatch(b, s) /\ RegsLatch(b, u)
    BY <1>1, <1>2 DEF RegInv, RegsSimple
  <2>4. /\ LatchPrg(b, LatchReset(b, s, m), m) = LatchPrg(b, LatchStart(b, m), m)
        /\ LatchPrg(b, LatchReset(b, u, m), m) = LatchPrg(b, LatchStart(b, m), m)
    BY <1>2, <2>3, LatchRestarts
  <2> QED
    BY <2>1, <2>2, <2>4
<1>3. CASE b = 71
  <2>1. "prgBankLo" \in DOMAIN s /\ "prgBankLo" \in DOMAIN u
    BY <1>1, <1>3 DEF RegInv, RegsSimple
  <2>2. Reset071(s).prgBankLo = 0 /\ Reset071(u).prgBankLo = 0
    BY <2>1 DEF Reset071
  <2>3. ResetOf(b, s, m, j) = Reset071(s) /\ ResetOf(b, u, m, j) = Reset071(u)
    BY <1>3, ResetWhich
  <2>4. Prg071(Reset071(s), m) = Prg071(Reset071(u), m)
    BY <2>2 DEF Prg071
  <2> QED
    BY <1>3, <2>3, <2>4, PrgWhich
<1>4. CASE b \in MMC3Boards
  <2>1. /\ Reset004(s, m, j).prgBank = Reset004(u, m, j).prgBank
        /\ Reset004(s, m, j).outer = 0 /\ Reset004(u, m, j).outer = 0
    BY Reset004Same, Reset004In
  <2>2. PICK x, y : x = ResetOf(b, s, m, j) /\ y = ResetOf(b, u, m, j)
    OBVIOUS
  <2>3. x.prgBank = y.prgBank /\ x.outer = y.outer
    <3>1. CASE b # 115
      <4>1. x = Reset004(s, m, j) /\ y = Reset004(u, m, j)
        BY <1>4, <2>2, <3>1, ResetWhich
      <4> QED
        BY <2>1, <4>1
    <3>2. CASE b = 115
      <4>1. PICK v, w : v = Reset004(s, m, j) /\ w = Reset004(u, m, j)
        OBVIOUS
      <4>2. x = [v EXCEPT !.outer = Outer115] /\ y = [w EXCEPT !.outer = Outer115]
        BY <2>2, <3>2, <4>1, ResetWhich
      <4>3. /\ "prgBank" \in DOMAIN v /\ "outer" \in DOMAIN v
            /\ "prgBank" \in DOMAIN w /\ "outer" \in DOMAIN w
        BY <4>1, Reset004In DEF Regs004
      <4> QED
        BY <2>1, <4>1, <4>2, <4>3
    <3> QED
      BY <3>1, <3>2
  <2> QED
    BY <1>4, <2>2, <2>3, FamilyPrg
<1>5. CASE b \notin DOMAIN LatchBoards \cup {60, 71, 15, 230, 28} \cup MMC3Boards
  <2>1. ResetOf(b, s, m, j) = u /\ ResetOf(b, u, m, j) = u
    BY <1>0, <1>5, ResetWhich
  <2> QED
    BY <2>1
<1> QED
  BY <1>2, <1>3, <1>4, <1>5

(* ResetRestarts: whatever the program had written, a reset brings back the*)
(* PRG of power-on and leaves no interrupt, on every board whose reset is  *)
(* meant to.                                                               *)
THEOREM ResetBringsBack == Spec => ResetRestarts
<1>1. ASSUME BanksInv, Reset, board \notin {15, 28, 60, 230}
      PROVE  /\ Prg(board, r', n) = Prg(board, ResetOf(board, Built(board, n, k), n, k), n)
             /\ ~irq'.line.current /\ ~irq'.line.target /\ ~irq'.enable
  <2>1. n \in Nat \ {0} /\ k \in Nat /\ RegInv(board, r, n, k)
    BY <1>1, CartridgeSized DEF BanksInv, Sized
  <2>2. r' = ResetOf(board, r, n, k) /\ irq' = IrqReset(board)
    BY <1>1, Zenon DEF Reset
  <2>3. Prg(board, r', n) = Prg(board, ResetOf(board, Built(board, n, k), n, k), n)
    BY <1>1, <2>1, <2>2, PrgRestarts
  <2>4. irq'.line = PinOf(FALSE) /\ irq'.enable = FALSE
    BY <2>2 DEF IrqReset
  <2> QED
    BY <2>3, <2>4, LineLow, Zenon
<1>2. BanksInv =>
        [Reset /\ board \notin {15, 28, 60, 230} =>
           /\ Prg(board, r', n) = Prg(board, ResetOf(board, Built(board, n, k), n, k), n)
           /\ ~irq'.line.current /\ ~irq'.line.target /\ ~irq'.enable]_vars
  BY <1>1
<1> QED
  BY <1>2, RegistersKept, PTL DEF Spec, ResetRestarts
=============================================================================
