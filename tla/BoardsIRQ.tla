------------------------------ MODULE BoardsIRQ ------------------------------
(***************************************************************************)
(* Boards with an interrupt counter of their own: their banks, and the     *)
(* counters of all, MMC3's family included.  A counter is clocked by the   *)
(* rises of PPU A12 that MapperBase lets through, or by the processor.     *)
(***************************************************************************)
EXTENDS BoardsMMC3, DelayedPin

CONSTANT ScanlineDots      \* dots of a scanline in VRC6's prescaler: 341

-----------------------------------------------------------------------------
(* 048: Taito TC0690. *)
Built048 == [prg |-> [i \in 0..1 |-> i], chr |-> Zeros(6), mirror |-> "H"]
Written048(r, a, d) ==
  CASE Page(a) \in {8, 9} /\ a % 4 < 2  -> [r EXCEPT !.prg[a % 4] = d % 64]
    [] Page(a) \in {8, 9} /\ a % 4 > 1  -> [r EXCEPT !.chr[(a % 4) - 2] = d]
    [] Page(a) \in {10, 11}             -> [r EXCEPT !.chr[(a % 4) + 2] = d]
    [] Page(a) \in {14, 15} /\ a % 4 = 0 -> [r EXCEPT !.mirror = VH(Bit(d, 6))]
    [] OTHER -> r
Prg048(r, n) ==
  LET total == (2 * n) % 256
      plain == <<r.prg[0], r.prg[1], Last8(n, 2), Last8(n, 1)>>
  IN [w \in PrgWindows |-> MaskBank(plain[w + 1], total)]
Chr048(r, k) ==
  Modulo(Chr2And1(r.chr[0], r.chr[1], [i \in 0..3 |-> r.chr[i + 2]]), 8 * k)

(* 064: RAMBO-1. *)
Built064 == [bankSel |-> 0, prgMode |-> 0, chrMode |-> 0, k1k |-> FALSE, R |-> Zeros(16),
             mirror |-> "H"]
Written064(r, a, d) ==
  CASE Page(a) \in {8, 9} /\ Even(a) ->
         [r EXCEPT !.bankSel = d % 16, !.prgMode = Bit(d, 6), !.chrMode = Bit(d, 7),
                   !.k1k = Bit(d, 5) = 1]
    [] Page(a) \in {8, 9} /\ Odd(a)    -> [r EXCEPT !.R[r.bankSel] = d]
    [] Page(a) \in {10, 11} /\ Even(a) -> [r EXCEPT !.mirror = VH(d % 2)]
    [] OTHER -> r
Prg064(r, n) ==
  IF r.prgMode = 1 THEN Prg8s(r.R[15], r.R[6], r.R[7], Last8(n, 1))
  ELSE Prg8s(r.R[6], r.R[7], r.R[15], Last8(n, 1))
Chr064(r, k) ==
  LET ones  == [i \in 0..3 |-> r.R[i + 2]]
      plain == IF r.k1k
               THEN [w \in ChrWindows |-> IF w < 4 THEN r.R[(w \div 2) + 8 * (w % 2)] ELSE ones[w - 4]]
               ELSE Chr2And1(r.R[0], r.R[1], ones)
  IN [w \in ChrWindows |-> plain[(w + 4 * r.chrMode) % 8]]

(* 065: Irem H-3001. *)
Built065(n) == [prg |-> [i \in 0..2 |-> IF i = 2 THEN Last8(n, 2) ELSE i], chr |-> Zeros(8),
                mirror |-> "V"]
Written065(r, a, d) ==
  CASE a \in {\h8000, \hA000, \hC000} -> [r EXCEPT !.prg[(Page(a) - 8) \div 2] = d]
    [] a = \h9001                     -> [r EXCEPT !.mirror = VH(Bit(d, 7))]
    [] a \in \hB000..\hB007           -> [r EXCEPT !.chr[a % 8] = d]
    [] OTHER -> r
Prg065(r, n) == Prg8s(r.prg[0], r.prg[1], r.prg[2], Last8(n, 1))

(* 067: Sunsoft-3. *)
Built067 == [prg |-> 0, chr |-> Zeros(4), mirror |-> "V"]
Written067(r, a, d) ==
  CASE Page(a) \in 8..11 /\ Bit(a, 11) = 1 -> [r EXCEPT !.chr[Page(a) - 8] = d]
    [] Page(a) = 14 /\ Bit(a, 11) = 1      -> [r EXCEPT !.mirror = FourWays(d % 4)]
    [] Page(a) = 15 /\ Bit(a, 11) = 1      -> [r EXCEPT !.prg = d]
    [] OTHER -> r
Prg067(r, n) == Prg16FixedHi(r.prg, n)

(* 069: FME-7, a command and its parameter. *)
Built069 == [command |-> 0, workRam |-> 0, chr |-> Zeros(8), prg |-> Zeros(3), mirror |-> "V"]
Written069(r, a, d) ==
  CASE Page(a) \in {8, 9} -> [r EXCEPT !.command = d % 16]
    [] Page(a) \in {10, 11} /\ r.command < 8  -> [r EXCEPT !.chr[r.command] = d]
    [] Page(a) \in {10, 11} /\ r.command = 8  -> [r EXCEPT !.workRam = d]
    [] Page(a) \in {10, 11} /\ r.command \in 9..11 -> [r EXCEPT !.prg[r.command - 9] = d % 64]
    [] Page(a) \in {10, 11} /\ r.command = 12 -> [r EXCEPT !.mirror = FourWays(d % 4)]
    [] OTHER -> r
Prg069(r, n) ==
  [w \in PrgWindows |-> MaskBank(IF w < 3 THEN r.prg[w] ELSE 2 * n - 1, 2 * n)]
Chr069(r, k) == [w \in ChrWindows |-> MaskBank(r.chr[w], 8 * k)]

(* 073: VRC3. *)
Built073 == [prg |-> 0, mirror |-> "header"]
Written073(r, a, d) == IF Page(a) = 15 THEN [r EXCEPT !.prg = d % 16] ELSE r
Prg073(r, n) == Raw16(r.prg, n - 1)

(* 091: all its registers over the PRG RAM. *)
Built091 == [prg |-> Zeros(2), chr |-> Zeros(4), mirror |-> "header"]
Written091(r, a, d) ==
  CASE Page(a) = 6 -> [r EXCEPT !.chr[a % 4] = d]
    [] Page(a) = 7 /\ a % 4 < 2 -> [r EXCEPT !.prg[a % 4] = d % 16]
    [] OTHER -> r
Prg091(r, n) == Prg8s(r.prg[0], r.prg[1], Last8(n, 2), Last8(n, 1))

(* 024 and 026: VRC6; 026 has its two low address lines crossed. *)
Canon(b, a) ==
  IF b = 24 THEN Page(a) * \h1000 + (a % 4)
  ELSE Page(a) * \h1000 + Bit(a, 0) * 2 + Bit(a, 1)
Built024 == [prg16 |-> 0, prg8 |-> 0, chrReg |-> Zeros(8), bMode |-> 0, ppuA10rule |-> TRUE,
             mirror |-> "H"]
Written024(b, r, a, d) ==
  LET reg == Canon(b, a)
  IN CASE Page(a) = 8   -> [r EXCEPT !.prg16 = d % 16]
       [] reg = \hB003  -> [r EXCEPT !.bMode = d % 4, !.ppuA10rule = Bit(d, 5) = 1,
                                     !.mirror = FourWays(Bits(d, 2, 2))]
       [] Page(a) = 12  -> [r EXCEPT !.prg8 = d % 32]
       [] Page(a) \in {13, 14} -> [r EXCEPT !.chrReg[(Page(a) - 13) * 4 + (reg % 4)] = d]
       [] OTHER -> r
Prg024(r, n) ==
  LET plain == <<2 * r.prg16, 2 * r.prg16 + 1, r.prg8, Last8(n, 1)>>
  IN [w \in PrgWindows |-> MaskBank(plain[w + 1], (2 * n) % 256)]
Chr024(r, k) ==
  LET pair(reg, w) == IF r.ppuA10rule THEN 2 * (reg \div 2) + (w % 2) ELSE reg
      plain(w) == CASE r.bMode = 0            -> r.chrReg[w]
                    [] r.bMode = 1            -> pair(r.chrReg[w \div 2], w)
                    [] r.bMode > 1 /\ w < 4   -> r.chrReg[w]
                    [] r.bMode > 1 /\ w >= 4  -> pair(r.chrReg[2 + w \div 2], w)
  IN Modulo([w \in ChrWindows |-> plain(w)], 8 * k)

-----------------------------------------------------------------------------
(* The counters.  A counter has the fields its board uses; line is what    *)
(* the processor sees, a pin because MMC3's comes two dots late.           *)

MMC3Boards == {4, 44, 47, 49, 74, 115, 118, 119, 182, 191, 192, 194, 205}
A12Boards  == MMC3Boards \cup {48, 64, 91, 189, 245}
CpuBoards  == {24, 26, 64, 65, 67, 69, 73}
IrqBoards  == A12Boards \cup CpuBoards

IrqReset(b) ==
  [line |-> PinOf(FALSE), enable |-> FALSE, onAck |-> FALSE, mode |-> FALSE, counting |-> FALSE,
   counter |-> 0, reload |-> IF b = 91 THEN 7 ELSE 0, reloadFlag |-> FALSE, highNext |-> TRUE,
   prescaler |-> IF b \in {24, 26} THEN ScanlineDots ELSE 0]

MutAcknowledged(irq) == [irq EXCEPT !.line.current = FALSE]
Acknowledged(irq) == [irq EXCEPT !.line = PinForce(@, FALSE)]
Disabled(irq)     == [Acknowledged(irq) EXCEPT !.enable = FALSE]
Reloading(irq)    == [irq EXCEPT !.reloadFlag = TRUE, !.counter = 0]
Raised(irq, delay) == [irq EXCEPT !.line = PinSet(@, TRUE, delay)]
WithLow(v, d)  == (v \div 256) * 256 + d
WithHigh(v, d) == (v % 256) + 256 * d

Irq004(irq, a, d) ==
  CASE Page(a) \in {12, 13} /\ Even(a) -> [irq EXCEPT !.reload = d]
    [] Page(a) \in {12, 13} /\ Odd(a)  -> Reloading(irq)
    [] Page(a) \in {14, 15} /\ Even(a) -> Disabled(irq)
    [] Page(a) \in {14, 15} /\ Odd(a)  -> [irq EXCEPT !.enable = TRUE]
    [] OTHER -> irq
Irq182(irq, a, d) ==
  LET write == Remapped182(a, d)
      loaded == IF write[1] = \hC001 THEN Irq004(irq, \hC000, d) ELSE irq
  IN Irq004(loaded, write[1], write[2])
Irq048(irq, a, d) ==
  CASE Page(a) \in {12, 13} /\ a % 4 = 0 -> [irq EXCEPT !.reload = 255 - d]
    [] Page(a) \in {12, 13} /\ a % 4 = 1 -> Reloading(irq)
    [] Page(a) \in {12, 13} /\ a % 4 = 2 -> [irq EXCEPT !.enable = TRUE]
    [] Page(a) \in {12, 13} /\ a % 4 = 3 -> Disabled(irq)
    [] OTHER -> irq
Irq064(irq, a, d) ==
  IF Page(a) \in {12, 13} /\ Odd(a)
  THEN [irq EXCEPT !.reloadFlag = TRUE, !.mode = Odd(d), !.prescaler = 0]
  ELSE Irq004(irq, a, d)
Irq065(irq, a, d) ==
  CASE a = \h9003 -> [Acknowledged(irq) EXCEPT !.enable = Bit(d, 7) = 1]
    [] a = \h9004 -> [Acknowledged(irq) EXCEPT !.counter = irq.reload]
    [] a = \h9005 -> [irq EXCEPT !.reload = WithHigh(@, d)]
    [] a = \h9006 -> [irq EXCEPT !.reload = WithLow(@, d)]
    [] OTHER -> irq
Irq067(irq, a, d) ==
  CASE Page(a) = 12 /\ Bit(a, 11) = 1 ->
         [irq EXCEPT !.counter = IF irq.highNext THEN WithHigh(@, d) ELSE WithLow(@, d),
                     !.highNext = ~@]
    [] Page(a) = 13 /\ Bit(a, 11) = 1 ->
         [Acknowledged(irq) EXCEPT !.enable = Bit(d, 4) = 1, !.highNext = TRUE]
    [] OTHER -> irq
Irq069(irq, command, a, d) ==
  CASE Page(a) \in {10, 11} /\ command = 13 ->
         [Acknowledged(irq) EXCEPT !.enable = Odd(d), !.counting = Bit(d, 7) = 1]
    [] Page(a) \in {10, 11} /\ command = 14 -> [irq EXCEPT !.counter = WithLow(@, d)]
    [] Page(a) \in {10, 11} /\ command = 15 -> [irq EXCEPT !.counter = WithHigh(@, d)]
    [] OTHER -> irq

(* VRC3 and VRC6: a control register that loads the counter and starts it, *)
(* and an acknowledge that goes on with the enable bit kept for it.        *)
Controlled(irq, d) ==
  [Acknowledged(irq) EXCEPT !.mode = Bit(d, 2) = 1, !.enable = Bit(d, 1) = 1,
                            !.onAck = Bit(d, 0) = 1,
                            !.counter = IF Bit(d, 1) = 1 THEN irq.reload ELSE @]
AckedOn(irq) == [Acknowledged(irq) EXCEPT !.enable = irq.onAck]
Irq073(irq, a, d) ==
  CASE Page(a) \in 8..11 ->
         LET at == 16^(Page(a) - 8)
         IN [irq EXCEPT !.reload = @ + at * ((d % 16) - ((@ \div at) % 16))]
    [] Page(a) = 12 -> Controlled(irq, d)
    [] Page(a) = 13 -> AckedOn(irq)
    [] OTHER -> irq
Irq024(irq, reg, d) ==
  CASE reg = \hF000 -> [irq EXCEPT !.reload = d]
    [] reg = \hF001 -> [Controlled(irq, d) EXCEPT
                          !.prescaler = IF Bit(d, 1) = 1 THEN ScanlineDots ELSE @]
    [] reg = \hF002 -> AckedOn(irq)
    [] OTHER -> irq
Irq091(irq, a, d) ==
  CASE Page(a) = 7 /\ a % 4 = 2 -> Disabled(irq)
    [] Page(a) = 7 /\ a % 4 = 3 -> [Reloading(irq) EXCEPT !.enable = TRUE]
    [] OTHER -> irq

IrqWritten(b, command, irq, a, d) ==
  CASE b \in (MMC3Boards \ {182}) \cup {189, 245} -> Irq004(irq, a, d)
    [] b = 182       -> Irq182(irq, a, d)
    [] b = 48        -> Irq048(irq, a, d)
    [] b = 64        -> Irq064(irq, a, d)
    [] b = 65        -> Irq065(irq, a, d)
    [] b = 67        -> Irq067(irq, a, d)
    [] b = 69        -> Irq069(irq, command, a, d)
    [] b = 73        -> Irq073(irq, a, d)
    [] b = 91        -> Irq091(irq, a, d)
    [] b \in {24, 26} -> Irq024(irq, Canon(b, a), d)

-----------------------------------------------------------------------------
(* Clocks. *)

FiresIf(condition, irq, delay) == IF condition /\ irq.enable THEN Raised(irq, delay) ELSE irq

(* MMC3, revision A: never by sitting at zero, and by a reload only when   *)
(* it was asked for.                                                       *)
MutTicked004(irq) ==
  LET next == IF irq.counter = 0 \/ irq.reloadFlag THEN irq.reload ELSE irq.counter - 1
  IN [FiresIf(next = 0, irq, 2) EXCEPT !.counter = next, !.reloadFlag = FALSE]
Ticked004(irq) ==
  LET reloads == irq.counter = 0 \/ irq.reloadFlag
      next    == IF reloads THEN irq.reload ELSE irq.counter - 1
      fires   == IF reloads THEN irq.reloadFlag /\ irq.reload = 0 ELSE next = 0
  IN [FiresIf(fires, irq, 2) EXCEPT !.counter = next, !.reloadFlag = FALSE]

(* The other counters of that kind are of revision B: at zero they fire. *)
TickedB(irq) ==
  LET next == IF irq.counter = 0 \/ irq.reloadFlag THEN irq.reload ELSE irq.counter - 1
  IN [FiresIf(next = 0, irq, 0) EXCEPT !.counter = next, !.reloadFlag = FALSE]

Ticked064(irq) ==
  CASE irq.reloadFlag -> [irq EXCEPT !.counter = irq.reload + 1, !.reloadFlag = FALSE]
    [] ~irq.reloadFlag /\ irq.counter = 0 -> [irq EXCEPT !.counter = irq.reload]
    [] ~irq.reloadFlag /\ irq.counter # 0 ->
         [FiresIf(irq.counter = 1, irq, 0) EXCEPT !.counter = @ - 1]

A12Ticked(b, irq) ==
  CASE b \in MMC3Boards        -> Ticked004(irq)
    [] b \in {48, 91, 189, 245} -> TickedB(irq)
    [] b = 64                  -> IF irq.mode THEN irq ELSE Ticked064(irq)

CpuTicked064(irq) ==
  CASE ~irq.mode -> irq
    [] irq.mode /\ irq.prescaler < 3 -> [irq EXCEPT !.prescaler = @ + 1]
    [] irq.mode /\ irq.prescaler = 3 -> Ticked064([irq EXCEPT !.prescaler = 0])
Ticked065(irq) ==
  IF ~irq.enable \/ irq.counter = 0 THEN irq
  ELSE [FiresIf(irq.counter = 1, irq, 0) EXCEPT !.counter = @ - 1]
Ticked067(irq) ==
  CASE ~irq.enable -> irq
    [] irq.enable /\ irq.counter = 0 -> [Raised(irq, 0) EXCEPT !.enable = FALSE, !.counter = 65535]
    [] irq.enable /\ irq.counter > 0 -> [irq EXCEPT !.counter = @ - 1]
Ticked069(irq) ==
  IF ~irq.counting THEN irq
  ELSE [FiresIf(irq.counter = 0, irq, 0) EXCEPT !.counter = (@ + 65535) % 65536]
Ticked073(irq) ==
  LET top  == IF irq.mode THEN 256 ELSE 65536
      low  == irq.counter % top
      next == IF low = top - 1 THEN irq.reload % top ELSE low + 1
  IN IF ~irq.enable THEN irq
     ELSE [FiresIf(low = top - 1, irq, 0) EXCEPT !.counter = (irq.counter - low) + next]

Counted024(irq) ==
  [FiresIf(irq.counter = 255, irq, 0) EXCEPT
     !.counter = IF irq.counter = 255 THEN irq.reload ELSE irq.counter + 1]
Ticked024(irq) ==
  LET left == irq.prescaler - 3
  IN CASE ~irq.enable -> irq
       [] irq.enable /\ irq.mode -> Counted024(irq)
       [] irq.enable /\ ~irq.mode /\ left > 0  -> [irq EXCEPT !.prescaler = left]
       [] irq.enable /\ ~irq.mode /\ left <= 0 ->
            [Counted024(irq) EXCEPT !.prescaler = left + ScanlineDots]

CpuTicked(b, irq) ==
  CASE b = 64        -> CpuTicked064(irq)
    [] b = 65        -> Ticked065(irq)
    [] b = 67        -> Ticked067(irq)
    [] b = 69        -> Ticked069(irq)
    [] b = 73        -> Ticked073(irq)
    [] b \in {24, 26} -> Ticked024(irq)
=============================================================================
