---------------------------- MODULE BoardsMulti ----------------------------
(***************************************************************************)
(* Boards of several registers that switch PRG by 16 or 32 KB: multicarts, *)
(* the boards with an edge-triggered latch, Action 53.  A board has the    *)
(* registers it is built with, what a write makes of them and the two      *)
(* layouts of module Boards; r is the record of its registers.             *)
(***************************************************************************)
EXTENDS Boards

Upper(a) == a >= \h8000
OutOf(mirrors, i) == mirrors[i + 1]

-----------------------------------------------------------------------------
(* 034: BNROM and NINA-001 at once. *)
Built034(n) == [prg |-> IF n \div 2 > 0 THEN (n \div 2) - 1 ELSE 0,
                chr0 |-> 0, chr1 |-> 1, mirror |-> "header"]
Written034(r, a, d) ==
  CASE a = \h7FFE             -> [r EXCEPT !.chr0 = d]
    [] a = \h7FFF             -> [r EXCEPT !.chr1 = d]
    [] a = \h7FFD \/ Upper(a) -> [r EXCEPT !.prg = d]
    [] OTHER                  -> r
Chr034(r, k) ==
  IF k = 0 THEN Raw8(0)
  ELSE [w \in ChrWindows |->
          MaskBank(IF w < 4 THEN r.chr0 ELSE r.chr1, 2 * k) * 4 + (w % 4)]

(* 046: the low bits of both banks are the game's, the high ones the menu's. *)
Built046 == [prgHi |-> 0, chrHi |-> 0, prgLo |-> 0, chrLo |-> 0, mirror |-> "header"]
Written046(r, a, d) ==
  IF Upper(a) THEN [r EXCEPT !.prgLo = Bits(d, 0, 1), !.chrLo = Bits(d, 4, 3)]
  ELSE IF a >= \h6000 THEN [r EXCEPT !.prgHi = Bits(d, 0, 4), !.chrHi = Bits(d, 4, 4)]
  ELSE r
Prg046(r, n) == Prg32(r.prgHi * 2 + r.prgLo, n)
Chr046(r, k) == Chr8(r.chrHi * 8 + r.chrLo, k)

(* 057: two latches, both of which give bits to the CHR bank. *)
Built057 == [reg8000 |-> 0, reg8800 |-> 0, mirror |-> "V"]
Written057(r, a, d) ==
  CASE Upper(a) /\ Bit(a, 11) = 0 -> [r EXCEPT !.reg8000 = d]
    [] Upper(a) /\ Bit(a, 11) = 1 ->
         [r EXCEPT !.reg8800 = d, !.mirror = OutOf(<<"V", "H">>, Bit(d, 3))]
    [] OTHER -> r
Prg057(r, n) ==
  LET bank == Bits(r.reg8800, 5, 3)
  IN IF Bit(r.reg8800, 4) = 1 THEN Prg32(bank \div 2, n)
     ELSE Raw16(MaskBank(bank, n), MaskBank(bank, n))
Chr057(r, k) ==
  LET either(i) == IF Bit(r.reg8000, i) + Bit(r.reg8800, i) > 0 THEN 2^i ELSE 0
  IN Chr8(Bit(r.reg8000, 6) * 8 + either(0) + either(1) + either(2), k)

(* 060: four games; only a reset goes to the next. *)
Built060 == [block |-> 255, mirror |-> "header"]
Reset060(r) == [r EXCEPT !.block = (@ + 1) % 4]
Prg060(r, n) == Raw16(MaskBank(r.block, n), MaskBank(r.block, n))
Chr060(r, k) == Chr8(r.block, k)

(* 071: the nametables are the header's until the first write to $8000. *)
Built071 == [prgBankLo |-> 0, mirror |-> "header"]
Reset071(r) == [r EXCEPT !.prgBankLo = 0]
Written071(r, a, d) ==
  CASE a \in \h8000..\h9FFF -> [r EXCEPT !.mirror = OutOf(<<"lo", "hi">>, Bit(d, 4))]
    [] a >= \hC000          -> [r EXCEPT !.prgBankLo = Bits(d, 0, 4)]
    [] OTHER                -> r
Prg071(r, n) == Raw16(r.prgBankLo, (n - 1) % 256)

(* 072 and 092: a bank is taken at the rise of its strobe bit only. *)
BuiltEdge == [prgBank |-> 0, chrBank |-> 0, lastP |-> 0, lastC |-> 0, mirror |-> "header"]
WrittenEdge(r, a, d) ==
  LET p == Bit(d, 7)
      c == Bit(d, 6)
      taken(strobe, last, bank) ==
        IF strobe = 1 /\ last = 0 THEN Bits(d, 0, 4) ELSE bank
  IN IF ~Upper(a) THEN r
     ELSE [r EXCEPT !.prgBank = taken(p, r.lastP, @),
                    !.chrBank = taken(c, r.lastC, @), !.lastP = p, !.lastC = c]
Prg072(r, n) == Prg16FixedHi(r.prgBank, n)
Prg092(r, n) == Prg16FixedLo(r.prgBank, n)
ChrEdge(r, k) == Chr8(r.chrBank, k)

(* 015: the low address bits of the last write choose the layout.  reset() *)
(* clears a member of that name that nothing reads, and not addrLow.       *)
Built015 == [reg |-> 0, addrLow |-> 0, mirror |-> "H"]
Reset015(r) == [r EXCEPT !.reg = 0]
Written015(r, a, d) ==
  IF ~Upper(a) THEN r
  ELSE [reg |-> d, addrLow |-> a % 4, mirror |-> OutOf(<<"V", "H">>, Bit(d, 6))]
Prg015(r, n) ==
  LET bank == Bits(r.reg, 0, 6)
  IN CASE r.addrLow = 0 -> Raw16(bank, 2 * (bank \div 2) + 1)
       [] r.addrLow = 1 -> Raw16(bank, (n - 1) % 256)
       [] r.addrLow = 2 -> [w \in PrgWindows |-> bank * 2 + Bit(r.reg, 7)]
       [] r.addrLow = 3 -> Raw16(bank, bank)

-----------------------------------------------------------------------------
(* 226: 76 in 1. *)
Built226 == [prgLo |-> 0, prgHi |-> 0, mode32 |-> TRUE, mirror |-> "H"]
Written226(r, a, d) ==
  CASE Upper(a) /\ Bit(a, 0) = 0 ->
         [r EXCEPT !.prgLo = Bits(d, 0, 5) + 32 * Bit(d, 6),
                   !.mode32 = Bit(d, 5) = 0, !.mirror = OutOf(<<"H", "V">>, Bit(d, 6))]
    [] Upper(a) /\ Bit(a, 0) = 1 -> [r EXCEPT !.prgHi = Bit(d, 0)]
    [] OTHER -> r
Prg226(r, n) ==
  LET bank == r.prgHi * 64 + r.prgLo
  IN IF r.mode32 THEN Prg32(bank \div 2, n)
     ELSE Raw16(MaskBank(bank, n), MaskBank(bank, n))

(* 227: the address holds everything. *)
Built227 == [page |-> 0, outer |-> 0, last |-> 0, single |-> 0, mirror |-> "V"]
Written227(r, a, d) ==
  IF ~Upper(a) THEN r
  ELSE [page |-> Bits(a, 2, 5) + 32 * Bit(a, 8), single |-> Bit(a, 0),
        outer |-> Bit(a, 7), last |-> Bit(a, 9),
        mirror |-> OutOf(<<"V", "H">>, Bit(a, 1))]
Prg227(r, n) ==
  LET lo == IF r.outer = 0 /\ r.single = 1 THEN 2 * (r.page \div 2) ELSE r.page
      hi == CASE r.outer = 1 -> r.page
              [] r.outer = 0 /\ r.last = 1 -> 8 * (r.page \div 8) + 7
              [] OTHER -> 8 * (r.page \div 8)
  IN IF r.outer = 1 /\ r.single = 1 THEN Prg32(r.page \div 2, n)
     ELSE Raw16(MaskBank(lo, n), MaskBank(hi, n))

(* 228: Action 52, three PRG chips, the third numbered 3. *)
Built228 == [prgChip |-> 0, prgPage |-> 0, mode16 |-> 0, chrLo |-> 0, chrHi |-> 0,
             mirror |-> "V"]
Written228(r, a, d) ==
  IF ~Upper(a) THEN r
  ELSE [prgChip |-> Bits(a, 11, 2), prgPage |-> Bits(a, 6, 5), mode16 |-> Bit(a, 5),
        chrLo |-> Bits(d, 0, 2), chrHi |-> Bits(a, 0, 4),
        mirror |-> OutOf(<<"V", "H">>, Bit(a, 13))]
Prg228(r, n) ==
  LET chipBase == 64 * (IF r.prgChip = 2 THEN 1 ELSE r.prgChip)
  IN [w \in PrgWindows |->
        (chipBase + (IF r.mode16 = 1 THEN r.prgPage * 2 + (w % 2)
                     ELSE (r.prgPage \div 2) * 4 + w)) % (2 * n)]
Chr228(r, k) == Chr8(r.chrHi * 4 + r.chrLo, k)

(* 230: a reset changes between Contra and the 22 games behind it. *)
Built230 == [reg |-> 0, contraMode |-> TRUE, mirror |-> "H"]
Reset230(r) == [reg |-> 0, contraMode |-> ~r.contraMode,
                mirror |-> IF r.contraMode THEN "H" ELSE "V"]
Written230(r, a, d) ==
  CASE ~Upper(a)                  -> r
    [] Upper(a) /\ r.contraMode   -> [r EXCEPT !.reg = d]
    [] Upper(a) /\ ~r.contraMode  ->
         [r EXCEPT !.reg = d, !.mirror = OutOf(<<"H", "V">>, Bit(d, 6))]
Prg230(r, n) ==
  LET page == Bits(r.reg, 0, 5)
  IN IF r.contraMode THEN Raw16(Bits(r.reg, 0, 3), 7)
     ELSE [w \in PrgWindows |->
             (16 + (IF Bit(r.reg, 5) = 1 THEN page * 2 + (w % 2)
                    ELSE (page \div 2) * 4 + w)) % (2 * n)]

(* 232: Quattro, four games of four pages; $C000 has the last page of its game. *)
Built232 == [block |-> 0, page |-> 0, mirror |-> "header"]
Written232(r, a, d) ==
  CASE a \in \h8000..\hBFFF -> [r EXCEPT !.block = Bits(d, 3, 2)]
    [] a >= \hC000          -> [r EXCEPT !.page = Bits(d, 0, 2)]
    [] OTHER                -> r
Prg232(r, n) == Raw16(MaskBank(r.block * 4 + r.page, n), MaskBank(r.block * 4 + 3, n))

(* 234: Maxi 15; once a game is chosen only a reset lets go of it. *)
Built234 == [reg0 |-> 0, reg2 |-> 0, locked |-> FALSE, mirror |-> "V"]
Written234(r, a, d) ==
  LET row == (a \div 8) * 8
  IN CASE row \in \hFF80..\hFF98 /\ ~r.locked ->
            [r EXCEPT !.reg0 = d, !.locked = Bits(d, 0, 6) # 0,
                      !.mirror = OutOf(<<"V", "H">>, Bit(d, 7))]
       [] row \in {\hFFE8, \hFFF0} -> [r EXCEPT !.reg2 = d]
       [] OTHER -> r
Prg234(r, n) ==
  Raw32(Bits(r.reg0, 1, 3) * 2 + (IF Bit(r.reg0, 6) = 1 THEN Bit(r.reg2, 0)
                                  ELSE Bit(r.reg0, 0)))
Chr234(r, k) ==
  LET page == Bits(r.reg2, 4, 2)
  IN Raw8(Bits(r.reg0, 1, 3) * 16 + Bit(r.reg0, 0) * 8 +
          (IF Bit(r.reg0, 6) = 1 THEN Bit(r.reg2, 6) * 4 + page
           ELSE page * 2 + page \div 2))

(* 243: the data port of a numbered register. *)
Built243 == [addrPort |-> 0, prg |-> 0, chrH |-> 0, chrL |-> 0, chrD |-> 0, mirror |-> "H"]
Written243(r, a, d) ==
  LET decoded == a \in \h4020..\h4FFF /\ Bit(a, 8) = 1 /\ Bit(a, 14) = 1
  IN CASE decoded /\ Bit(a, 0) = 0 -> [r EXCEPT !.addrPort = d % 8]
       [] decoded /\ Bit(a, 0) = 1 ->
            CASE r.addrPort = 2 -> [r EXCEPT !.chrH = d % 2]
              [] r.addrPort = 4 -> [r EXCEPT !.chrL = d % 2]
              [] r.addrPort = 5 -> [r EXCEPT !.prg = d % 8]
              [] r.addrPort = 6 -> [r EXCEPT !.chrD = d % 4]
              [] r.addrPort = 7 ->
                   [r EXCEPT !.mirror = OutOf(<<"H", "V", "lo", "hi">>, Bits(d, 1, 2))]
              [] OTHER -> r
       [] OTHER -> r
Chr243(r, k) ==
  Chr8(r.chrH * 8 + r.chrD * 2 + r.chrL, k)

(* 028: Action 53.  The registers say how large the game is, where it lies *)
(* and which half of the address space moves.                              *)
Mirror028(mode) == OutOf(<<"lo", "hi", "V", "H">>, mode % 4)
Built028 == [selected |-> 0, chrBank |-> 0, prgInner |-> 15, mode |-> 12,
             prgOuter |-> 255, mirror |-> Mirror028(12)]
OneScreen028(r, d) ==
  IF Bit(r.mode, 1) = 1 THEN r
  ELSE LET mode == 2 * (r.mode \div 2) + Bit(d, 4)
       IN [r EXCEPT !.mode = mode, !.mirror = Mirror028(mode)]
Written028(r, a, d) ==
  CASE a \in \h5000..\h5FFF -> [r EXCEPT !.selected = Bit(d, 7) * 128 + Bit(d, 0)]
    [] Upper(a) /\ r.selected = 0   -> OneScreen028([r EXCEPT !.chrBank = d % 4], d)
    [] Upper(a) /\ r.selected = 1   -> OneScreen028([r EXCEPT !.prgInner = d % 16], d)
    [] Upper(a) /\ r.selected = 128 ->
         [r EXCEPT !.mode = d % 64, !.mirror = Mirror028(d % 64)]
    [] Upper(a) /\ r.selected = 129 -> [r EXCEPT !.prgOuter = d]
    [] OTHER -> r
Bank028(r, slot) ==
  LET size  == 2^Bits(r.mode, 4, 2)
      base  == ((2 * r.prgOuter) \div (2 * size)) * 2 * size
      inner == base + (r.prgInner % (2 * size))
      fixed == 2 * r.prgOuter + slot
  IN CASE Bits(r.mode, 2, 2) < 2 -> base + 2 * (r.prgInner % size) + slot
       [] Bits(r.mode, 2, 2) = 2 -> IF slot = 1 THEN inner ELSE fixed
       [] Bits(r.mode, 2, 2) = 3 -> IF slot = 1 THEN fixed ELSE inner
Prg028(r, n) == Raw16(Bank028(r, 0) % n, Bank028(r, 1) % n)
Chr028(r, k) == Raw8(IF k = 0 THEN r.chrBank ELSE r.chrBank % k)
=============================================================================
