---------------------------- MODULE BoardsBanked ----------------------------
(***************************************************************************)
(* Boards that switch PRG by 8 KB or CHR by 1, 2 or 4 KB and raise no IRQ, *)
(* MMC1 with its serial port and MMC2 and MMC4 with their CHR latches      *)
(* among them.                                                             *)
(***************************************************************************)
EXTENDS BoardsMulti

Page(a) == a \div \h1000
Prg8s(b0, b1, b2, b3) == [w \in PrgWindows |-> <<b0, b1, b2, b3>>[w + 1]]
Last8(n, back) == (2 * n - back) % 256
Zeros(len) == [i \in 0..len - 1 |-> 0]
HV(i) == OutOf(<<"H", "V">>, i)
VH(i) == OutOf(<<"V", "H">>, i)
FourWays(i) == OutOf(<<"V", "H", "lo", "hi">>, i)

(* Two pairs of 1 KB windows and four windows of their own, MMC3's layout. *)
Chr2And1(c0, c1, ones) ==
  [w \in ChrWindows |-> CASE w < 2 -> 2 * (c0 \div 2) + w
                          [] w \in {2, 3} -> 2 * (c1 \div 2) + (w % 2)
                          [] w > 3 -> ones[w - 4]]
Chr2s(twos) == [w \in ChrWindows |-> twos[w \div 2] * 2 + (w % 2)]

-----------------------------------------------------------------------------
(* 001: MMC1.  Five writes of one bit make a register. *)
Built001 == [loadReg |-> 0, loadCount |-> 0, controlReg |-> \h1C, chrBank0 |-> 0,
             chrBank1 |-> 0, prgBankReg |-> 0, prgRamEnabled |-> TRUE, mirror |-> "H"]
Loaded001(r, a, v, n, k) ==
  LET done == [r EXCEPT !.loadReg = 0, !.loadCount = 0]
  IN CASE Bits(a, 13, 2) = 0 ->
            [done EXCEPT !.controlReg = v,
                         !.mirror = OutOf(<<"lo", "hi", "V", "H">>, v % 4)]
       [] Bits(a, 13, 2) = 1 ->
            [done EXCEPT !.chrBank0 = v,
                         !.prgRamEnabled = IF k = 0 /\ n <= 16 THEN Bit(v, 4) = 0 ELSE @]
       [] Bits(a, 13, 2) = 2 -> [done EXCEPT !.chrBank1 = v]
       [] Bits(a, 13, 2) = 3 ->
            [done EXCEPT !.prgBankReg = v, !.prgRamEnabled = Bit(v, 4) = 0]
Written001(r, a, d, n, k) ==
  LET shifted == r.loadReg \div 2 + 16 * Bit(d, 0)
  IN CASE ~Upper(a) -> r
       [] Upper(a) /\ Bit(d, 7) = 1 ->
            [r EXCEPT !.loadReg = 0, !.loadCount = 0,
                      !.controlReg = 16 * Bit(@, 4) + 12 + (@ % 4)]
       [] Upper(a) /\ Bit(d, 7) = 0 /\ r.loadCount = 4 -> Loaded001(r, a, shifted, n, k)
       [] OTHER -> [r EXCEPT !.loadReg = shifted, !.loadCount = @ + 1]
Prg001(r, n) ==
  LET outer == IF n > 16 THEN 16 * Bit(r.chrBank0, 4) ELSE 0
      bank  == outer + (r.prgBankReg % 16)
      last  == IF n > 16 THEN outer + 15 ELSE n - 1
  IN CASE Bit(r.controlReg, 3) = 0 -> Raw32(bank \div 2)
       [] Bits(r.controlReg, 2, 2) = 3 -> Raw16(bank, last)
       [] Bits(r.controlReg, 2, 2) = 2 -> Raw16(outer, bank)
Chr001(r, k) ==
  LET masked4(reg) == reg % (IF k > 0 THEN 2 * k ELSE 2)
  IN CASE Bit(r.controlReg, 4) = 1 ->
            [w \in ChrWindows |->
               masked4(IF w < 4 THEN r.chrBank0 ELSE r.chrBank1) * 4 + (w % 4)]
       [] Bit(r.controlReg, 4) = 0 -> IF k = 0 THEN Raw8(0) ELSE Chr8(r.chrBank0 \div 2, k)

(* 009 and 010: MMC2 and MMC4.  Fetching a certain tile throws the latch   *)
(* that chooses between the two banks of its half.                         *)
BuiltLatched == [prgBank |-> 0, chrA |-> <<0, 0>>, chrB |-> <<0, 0>>,
                 latch |-> <<"FE", "FE">>, mirror |-> "H"]
WrittenLatched(r, a, d) ==
  CASE Page(a) = 10 -> [r EXCEPT !.prgBank = d % 16]
    [] Page(a) = 11 -> [r EXCEPT !.chrA[1] = d % 32]
    [] Page(a) = 12 -> [r EXCEPT !.chrB[1] = d % 32]
    [] Page(a) = 13 -> [r EXCEPT !.chrA[2] = d % 32]
    [] Page(a) = 14 -> [r EXCEPT !.chrB[2] = d % 32]
    [] Page(a) = 15 -> [r EXCEPT !.mirror = VH(d % 2)]
    [] OTHER -> r
Fetched009(r, addr) ==
  CASE addr = \h0FD8             -> [r EXCEPT !.latch[1] = "FD"]
    [] addr = \h0FE8             -> [r EXCEPT !.latch[1] = "FE"]
    [] addr \in \h1FD8..\h1FDF   -> [r EXCEPT !.latch[2] = "FD"]
    [] addr \in \h1FE8..\h1FEF   -> [r EXCEPT !.latch[2] = "FE"]
    [] OTHER -> r
Fetched010(r, addr) ==
  CASE addr \in \h0FD8..\h0FDF   -> [r EXCEPT !.latch[1] = "FD"]
    [] addr \in \h0FE8..\h0FEF   -> [r EXCEPT !.latch[1] = "FE"]
    [] addr \in \h1FD8..\h1FDF   -> [r EXCEPT !.latch[2] = "FD"]
    [] addr \in \h1FE8..\h1FEF   -> [r EXCEPT !.latch[2] = "FE"]
    [] OTHER -> r
Prg009(r, n) == Prg8s(r.prgBank, 2 * n - 3, 2 * n - 2, 2 * n - 1)
Prg010(r, n) == Raw16(r.prgBank, n - 1)
ChrLatched(r, k) ==
  LET masked(reg) == IF k = 0 THEN reg ELSE MaskBank(reg, 2 * k)
      bank(half)  == masked(IF r.latch[half] = "FD" THEN r.chrA[half] ELSE r.chrB[half])
  IN [w \in ChrWindows |-> bank(1 + w \div 4) * 4 + (w % 4)]

-----------------------------------------------------------------------------
(* 022: VRC2a, its two low address lines crossed. *)
Built022 == [prg |-> Zeros(2), chr |-> Zeros(8), mirror |-> "V"]
Written022(r, a, d) ==
  LET slot == (Page(a) - 11) * 2 + Bit(a, 0)
      v    == d % 16
  IN CASE Page(a) = 8  -> [r EXCEPT !.prg[0] = v]
       [] Page(a) = 9  -> [r EXCEPT !.mirror = FourWays(d % 4)]
       [] Page(a) = 10 -> [r EXCEPT !.prg[1] = v]
       [] Page(a) \in 11..14 ->
            [r EXCEPT !.chr[slot] = IF Bit(a, 1) = 1 THEN (@ % 16) + 16 * v
                                    ELSE 16 * (@ \div 16) + v]
       [] OTHER -> r
Prg022(r, n) ==
  LET total == (2 * n) % 256
  IN Prg8s(MaskBank(r.prg[0], total), MaskBank(r.prg[1], total),
           MaskBank(Last8(n, 2), total), MaskBank(Last8(n, 1), total))
Chr022(r, k) ==
  [w \in ChrWindows |-> (r.chr[w] \div 2) % (IF k = 0 THEN 8 ELSE 8 * k)]

(* 032: Irem G-101. *)
Built032 == [prg0 |-> 0, prg1 |-> 0, prgMode |-> 0, chr |-> Zeros(8), mirror |-> "V"]
Written032(r, a, d) ==
  CASE Page(a) = 8  -> [r EXCEPT !.prg0 = d % 32]
    [] Page(a) = 9  -> [r EXCEPT !.prgMode = Bit(d, 1), !.mirror = VH(d % 2)]
    [] Page(a) = 10 -> [r EXCEPT !.prg1 = d % 32]
    [] Page(a) = 11 -> [r EXCEPT !.chr[a % 8] = d]
    [] OTHER -> r
Prg032(r, n) ==
  IF r.prgMode = 1 THEN Prg8s(Last8(n, 2), r.prg1, r.prg0, Last8(n, 1))
  ELSE Prg8s(r.prg0, r.prg1, Last8(n, 2), Last8(n, 1))

(* 033: Taito TC0190. *)
Built033 == [prg0 |-> 0, prg1 |-> 0, chr2k |-> Zeros(2), chr1k |-> Zeros(4), mirror |-> "V"]
Written033(r, a, d) ==
  CASE Page(a) \in {8, 9} /\ a % 4 = 0 ->
         [r EXCEPT !.prg0 = d % 64, !.mirror = VH(Bit(d, 6))]
    [] Page(a) \in {8, 9} /\ a % 4 = 1 -> [r EXCEPT !.prg1 = d % 64]
    [] Page(a) \in {8, 9} /\ a % 4 > 1 -> [r EXCEPT !.chr2k[(a % 4) - 2] = d]
    [] Page(a) \in {10, 11}            -> [r EXCEPT !.chr1k[a % 4] = d]
    [] OTHER -> r
Prg033(r, n) == Prg8s(r.prg0, r.prg1, 2 * n - 2, 2 * n - 1)
Chr033(r, k) ==
  [w \in ChrWindows |-> IF w < 4 THEN r.chr2k[w \div 2] * 2 + (w % 2) ELSE r.chr1k[w - 4]]

(* 068: Sunsoft-4. *)
Built068 == [chr |-> Zeros(4), prg |-> 0, mirror |-> "V"]
Written068(r, a, d) ==
  CASE Page(a) \in 8..11 -> [r EXCEPT !.chr[Page(a) - 8] = d]
    [] Page(a) = 14      -> [r EXCEPT !.mirror = VH(d % 2)]
    [] Page(a) = 15      -> [r EXCEPT !.prg = d % 16]
    [] OTHER -> r
Prg068(r, n) == Raw16(r.prg, n - 1)

(* 075: VRC1; the high bits of both CHR banks share the mirroring register. *)
Built075 == [prg |-> Zeros(3), chrLo |-> Zeros(2), chrHi |-> 0, mirror |-> "V"]
Written075(r, a, d) ==
  CASE Page(a) \in {8, 10, 12} -> [r EXCEPT !.prg[(Page(a) - 8) \div 2] = d % 16]
    [] Page(a) = 9             -> [r EXCEPT !.mirror = VH(d % 2), !.chrHi = 2 * Bits(d, 1, 2)]
    [] Page(a) \in {14, 15}    -> [r EXCEPT !.chrLo[Page(a) - 14] = d % 16]
    [] OTHER -> r
Prg075(r, n) == Prg8s(r.prg[0], r.prg[1], r.prg[2], Last8(n, 1))
Chr075(r, k) ==
  [w \in ChrWindows |->
     (16 * Bit(r.chrHi, 1 + w \div 4) + r.chrLo[w \div 4]) * 4 + (w % 4)]

(* 076, 088 and 154: a register number, then its value. *)
Built076 == [bankSel |-> 0, R |-> Zeros(8), mirror |-> "header"]
Written076(r, a, d) ==
  CASE Upper(a) /\ Bit(a, 0) = 0 -> [r EXCEPT !.bankSel = d % 8]
    [] Upper(a) /\ Bit(a, 0) = 1 -> [r EXCEPT !.R[r.bankSel] = d]
    [] OTHER -> r
Prg076(r, n) == Prg8s(r.R[6] % 64, r.R[7] % 64, Last8(n, 2), Last8(n, 1))
Chr076(r, k) == Chr2s([i \in 0..3 |-> r.R[i + 2] % 64])

Built154 == [Built076 EXCEPT !.mirror = "lo"]
Written154(r, a, d) ==
  IF Upper(a) /\ Bit(a, 0) = 0
  THEN [Written076(r, a, d) EXCEPT !.mirror = OutOf(<<"lo", "hi">>, Bit(d, 6))]
  ELSE Written076(r, a, d)
Chr088(r, k) ==
  Chr2And1(r.R[0] % 64, r.R[1] % 64,
           [i \in 0..3 |-> r.R[i + 2] + 64 * (1 - Bit(r.R[i + 2], 6))])

(* 080 and 082: Taito X1-005 and X1-017, registers at the top of $7EFx. *)
Built080 == [chr |-> Zeros(6), prg |-> Zeros(3), mirror |-> "H", ramEnabled |-> FALSE]
Written080(r, a, d) ==
  LET reg == a % 16
  IN CASE a \notin \h7EF0..\h7EFF -> r
       [] a \in \h7EF0..\h7EF5 -> [r EXCEPT !.chr[reg] = d]
       [] a \in \h7EF6..\h7EF7 -> [r EXCEPT !.mirror = HV(d % 2)]
       [] a \in \h7EF8..\h7EF9 -> [r EXCEPT !.ramEnabled = d = \hA3]
       [] a \in \h7EFA..\h7EFF -> [r EXCEPT !.prg[(reg - 10) \div 2] = d]
Built082 == [chr |-> Zeros(6), prg |-> Zeros(3), mirror |-> "H", chrMode |-> FALSE]
Written082(r, a, d) ==
  LET reg == a % 16
  IN CASE a \in \h7EF0..\h7EF5 -> [r EXCEPT !.chr[reg] = d]
       [] a = \h7EF6           -> [r EXCEPT !.mirror = HV(d % 2), !.chrMode = Bit(d, 1) = 1]
       [] a \in \h7EFA..\h7EFC -> [r EXCEPT !.prg[reg - 10] = d \div 4]
       [] OTHER -> r
Prg080(r, n) == Prg8s(r.prg[0], r.prg[1], r.prg[2], Last8(n, 1))
Chr080(r, k) == Chr2And1(r.chr[0], r.chr[1], [i \in 0..3 |-> r.chr[i + 2]])
Chr082(r, k) ==
  [w \in ChrWindows |-> Chr080(r, k)[IF r.chrMode THEN (w + 4) % 8 ELSE w]]

(* 112: like 076 with its selector and data far apart. *)
Built112 == [sel |-> 0, R |-> Zeros(8), mirror |-> "V"]
Written112(r, a, d) ==
  CASE Page(a) \in {8, 9} /\ Bit(a, 0) = 0   -> [r EXCEPT !.sel = d % 8]
    [] Page(a) \in {10, 11} /\ Bit(a, 0) = 0 -> [r EXCEPT !.R[r.sel] = d]
    [] Page(a) \in {14, 15} /\ Bit(a, 0) = 0 -> [r EXCEPT !.mirror = VH(d % 2)]
    [] OTHER -> r
Prg112(r, n) == Prg8s(r.R[0], r.R[1], Last8(n, 2), Last8(n, 1))
Chr112(r, k) == Chr2And1(r.R[2], r.R[3], [i \in 0..3 |-> r.R[i + 4]])

(* 193: NTDEC, four registers over the PRG RAM. *)
Built193 == [reg |-> Zeros(4), mirror |-> "header"]
Written193(r, a, d) ==
  IF a \in \h6000..\h7FFF THEN [r EXCEPT !.reg[a % 4] = d] ELSE r
Prg193(r, n) ==
  LET total == (2 * n) % 256
  IN Prg8s(MaskBank(r.reg[3], total), MaskBank(Last8(n, 3), total),
           MaskBank(Last8(n, 2), total), MaskBank(Last8(n, 1), total))
Chr193(r, k) ==
  [w \in ChrWindows |->
     IF k = 0 THEN w
     ELSE (CASE w < 4        -> 4 * (r.reg[0] \div 4) + w
             [] w \in {4, 5} -> 2 * (r.reg[1] \div 2) + (w % 2)
             [] w \in {6, 7} -> 2 * (r.reg[2] \div 2) + (w % 2)) % (8 * k)]

(* 246: C&E, eight registers over the first 2 KB of the PRG RAM. *)
Built246 == [prg |-> [i \in 0..3 |-> IF i = 3 THEN 255 ELSE 0], chr |-> Zeros(4),
             mirror |-> "header"]
Written246(r, a, d) ==
  CASE a \in \h6000..\h67FF /\ a % 8 < 4  -> [r EXCEPT !.prg[a % 8] = d]
    [] a \in \h6000..\h67FF /\ a % 8 >= 4 -> [r EXCEPT !.chr[(a % 8) - 4] = d]
    [] OTHER -> r
Prg246(r, n) == [w \in PrgWindows |-> r.prg[w] % (2 * n)]
Chr246(r, k) == Chr2s(r.chr)
=============================================================================
