----------------------------- MODULE BoardsMMC3 -----------------------------
(***************************************************************************)
(* MMC3 and the boards built around it: the bank registers.  Its counter   *)
(* is in module BoardsIRQ.  The banks in use are kept apart from the       *)
(* registers they come from, and follow them only when updateBanks runs.   *)
(***************************************************************************)
EXTENDS BoardsBanked

Odd(a) == Bit(a, 0) = 1
Even(a) == ~Odd(a)
Target(r, d) == [r EXCEPT !.target = d % 8, !.prgMode = Bit(d, 6), !.chrInversion = Bit(d, 7)]

(* Registers to windows; chrInversion exchanges the halves of the CHR,     *)
(* prgMode the windows at $8000 and $C000.                                 *)
ChrMMC3(r) ==
  LET plain == Chr2And1(r.R[0], r.R[1], [i \in 0..3 |-> r.R[i + 2]])
  IN [w \in ChrWindows |-> plain[(w + 4 * r.chrInversion) % 8]]
PrgMMC3(r, r6, r7, n) ==
  IF r.prgMode = 1 THEN Prg8s(2 * n - 2, r7, r6, 2 * n - 1)
  ELSE Prg8s(r6, r7, 2 * n - 2, 2 * n - 1)

-----------------------------------------------------------------------------
(* 004.  A CHR bank is a byte even where the ROM has more of them. *)
ChrBankMasked(reg, k) == (reg % (IF k > 0 THEN 8 * k ELSE 8)) % 256

UpdateBanks(r, n, k) ==
  [r EXCEPT !.prgBank = PrgMMC3(r, MaskBank(r.R[6], 2 * n), MaskBank(r.R[7], 2 * n), n),
            !.chrBank = [w \in ChrWindows |-> ChrBankMasked(ChrMMC3(r)[w], k)]]

Cleared == [target |-> 0, prgMode |-> 0, chrInversion |-> 0, R |-> Zeros(8),
            prgBank |-> Raw32(0), chrBank |-> Raw8(0), outer |-> 0,
            wramEnabled |-> TRUE, wramReadOnly |-> FALSE, mirror |-> "V"]
Built004(n, k) == UpdateBanks(Cleared, n, k)
MutReset004(r, n, k) ==
  [Built004(n, k) EXCEPT !.wramEnabled = r.wramEnabled, !.prgBank = r.prgBank]
Reset004(r, n, k) == [Built004(n, k) EXCEPT !.wramEnabled = r.wramEnabled]

Written004(r, a, d, n, k) ==
  CASE Page(a) \in {8, 9} /\ Even(a)   -> Target(r, d)
    [] Page(a) \in {8, 9} /\ Odd(a)    -> UpdateBanks([r EXCEPT !.R[r.target] = d], n, k)
    [] Page(a) \in {10, 11} /\ Even(a) -> [r EXCEPT !.mirror = VH(d % 2)]
    [] Page(a) \in {10, 11} /\ Odd(a)  ->
         [r EXCEPT !.wramEnabled = Bit(d, 7) = 1, !.wramReadOnly = Bit(d, 6) = 1]
    [] OTHER -> r

(* Writes to $6000-$7FFF that cpuWriteDirect takes without storing them. *)
Refused004(r, a) == (~r.wramEnabled \/ r.wramReadOnly) /\ a \in \h6000..\h7FFF

-----------------------------------------------------------------------------
(* Multicarts: an outer register picks the 128 KB (or 256 KB) of the game. *)
(* Inside(bank, size, block) keeps a bank within a block of size banks.    *)
Inside(bank, size, block) == (bank % size) + block * size
Within(layout, size, block) == [w \in DOMAIN layout |-> Inside(layout[w], size, block)]
Modulo(layout, total) ==
  IF total = 0 THEN layout ELSE [w \in DOMAIN layout |-> layout[w] % total]

Written044(r, a, d, n, k) ==
  IF Page(a) \in {10, 11} /\ Odd(a)
  THEN Written004([r EXCEPT !.outer = IF d % 8 > 6 THEN 6 ELSE d % 8], a, d, n, k)
  ELSE Written004(r, a, d, n, k)
Prg044(r, n) ==
  [w \in PrgWindows |-> (r.prgBank[w] % (IF r.outer = 6 THEN 16 ELSE 8)) + 16 * r.outer]
Chr044(r, k) ==
  IF r.outer = 6 THEN Within(r.chrBank, 256, 3) ELSE Within(r.chrBank, 128, r.outer)

Written047(r, a, d, n, k) ==
  IF a \in \h6000..\h7FFF THEN [r EXCEPT !.outer = d % 2] ELSE Written004(r, a, d, n, k)
Prg047(r, n) == Within(r.prgBank, 16, r.outer)
Chr047(r, k) == Within(r.chrBank, 128, r.outer)

Written049(r, a, d, n, k) ==
  IF a \in \h6000..\h7FFF THEN [r EXCEPT !.outer = d] ELSE Written004(r, a, d, n, k)
Prg049(r, n) ==
  LET total == (2 * n) % 256
      block == Bits(r.outer, 6, 2)
  IN IF Bit(r.outer, 0) = 1 THEN Modulo(Within(r.prgBank, 16, block), total)
     ELSE [w \in PrgWindows |-> MaskBank(block * 16 + Bits(r.outer, 4, 2) * 4 + w, total)]
Chr049(r, k) ==
  IF k = 0 THEN r.chrBank ELSE Modulo(Within(r.chrBank, 128, Bits(r.outer, 6, 2)), 8 * k)

(* 115: its outer register holds a 16 KB page over $8000 and a CHR block. *)
Outer115 == [prgMode |-> FALSE, page |-> 0, chrBlock |-> 0]
Written115(r, a, d, n, k) ==
  CASE a \in \h6000..\h7FFF /\ Odd(a)  -> [r EXCEPT !.outer.chrBlock = d % 2]
    [] a \in \h6000..\h7FFF /\ Even(a) ->
         [r EXCEPT !.outer.prgMode = Bit(d, 7) = 1, !.outer.page = d % 16]
    [] OTHER -> Written004(r, a, d, n, k)
Prg115(r, n) ==
  [w \in PrgWindows |-> IF r.outer.prgMode /\ w < 2
                        THEN MaskBank(r.outer.page, n) * 2 + w ELSE r.prgBank[w]]
Chr115(r, k) ==
  IF k = 0 THEN r.chrBank ELSE Modulo(Within(r.chrBank, 256, r.outer.chrBlock), 8 * k)

(* 205: four blocks, the first two of the PRG of 32 banks that overlap. *)
Written205(r, a, d, n, k) ==
  IF a \in \h6000..\h7FFF THEN [r EXCEPT !.outer = d % 4] ELSE Written004(r, a, d, n, k)
Prg205(r, n) ==
  LET confined(bank) ==
        CASE r.outer = 0 -> bank % 32
          [] r.outer = 1 -> (bank % 16) + 16
          [] r.outer > 1 -> Inside(bank, 16, r.outer)
  IN Modulo([w \in PrgWindows |-> confined(r.prgBank[w])], (2 * n) % 256)
Chr205(r, k) ==
  LET confined(bank) ==
        CASE r.outer = 0 -> bank % 256
          [] r.outer = 1 -> (bank % 128) + 128
          [] r.outer > 1 -> Inside(bank, 128, r.outer)
  IN IF k = 0 THEN r.chrBank
     ELSE Modulo([w \in ChrWindows |-> confined(r.chrBank[w])], 8 * k)

(* 182: the registers of 004 at other addresses, in another order.  A      *)
(* write becomes one to 004, at an address 004 does not decode if at none  *)
(* of these; one to $C001 follows one to $C000, which moves no bank.       *)
Order182 == <<0, 3, 1, 5, 6, 7, 2, 4>>
Remapped182(a, d) ==
  LET reg == (a \div \h2000) * \h2000 + (a % 2)
  IN CASE ~Upper(a)     -> <<a, d>>
       [] reg = \h8001  -> <<\hA000, d>>
       [] reg = \hA000  -> <<\h8000, 64 * Bits(d, 6, 2) + Order182[1 + (d % 8)]>>
       [] reg = \hC000  -> <<\h8001, d>>
       [] reg \in {\hC001, \hE000, \hE001} -> <<reg, d>>
       [] OTHER -> <<0, d>>
Written182(r, a, d, n, k) ==
  LET write == Remapped182(a, d)
  IN Written004(r, write[1], write[2], n, k)

-----------------------------------------------------------------------------
(* 095: Namco 118 with five bits to a register; the top one of a CHR       *)
(* register picks the nametable behind its window.                         *)
Built095(n) == [target |-> 0, prgMode |-> 0, chrInversion |-> 0, R |-> Zeros(8),
                prgBank |-> Prg8s(0, 1, 2 * n - 2, 2 * n - 1),
                chrBank |-> [w \in ChrWindows |-> 0], mirror |-> "V"]
Mirror095(a, b, c, d) ==
  IF a = c /\ b = d THEN "V" ELSE "H"
Written095(r, a, d, n) ==
  LET put == [r EXCEPT !.R[r.target] = d % 32]
      screen(i) == Bit(put.R[i], 4)
  IN CASE Page(a) \in {8, 9} /\ Even(a) -> Target(r, d)
       [] Page(a) \in {8, 9} /\ Odd(a)  ->
            [put EXCEPT !.prgBank = PrgMMC3(put, put.R[6], put.R[7], n),
                        !.chrBank = ChrMMC3(put),
                        !.mirror =
                          IF put.chrInversion = 1
                          THEN Mirror095(screen(2), screen(3), screen(4), screen(5))
                          ELSE Mirror095(screen(0), screen(0), screen(1), screen(1))]
       [] OTHER -> r

(* 189: the CHR of MMC3 without its masks, and 32 KB of PRG from a         *)
(* register below $8000 whose two nibbles are joined.                      *)
Built189 == [target |-> 0, prgMode |-> 0, chrInversion |-> 0, R |-> Zeros(8), prg32 |-> 0,
             chrBank |-> [w \in ChrWindows |-> 0], mirror |-> "H"]
Joined(d) == LET either(i) == IF Bit(d, i) + Bit(d, i + 4) > 0 THEN 2^i ELSE 0
             IN either(0) + either(1) + either(2) + either(3)
Written189(r, a, d) ==
  LET put == [r EXCEPT !.R[r.target] = d]
  IN CASE a \in \h4120..\h7FFF          -> [r EXCEPT !.prg32 = Joined(d)]
       [] Page(a) \in {8, 9} /\ Even(a) -> Target(r, d)
       [] Page(a) \in {8, 9} /\ Odd(a)  -> [put EXCEPT !.chrBank = ChrMMC3(put)]
       [] Page(a) \in {10, 11} /\ Even(a) -> [r EXCEPT !.mirror = VH(d % 2)]
       [] OTHER -> r

(* 245: the CHR register R0 has the bit that picks the half of the PRG. *)
Built245 == [target |-> 0, prgMode |-> 0, chrInversion |-> 0, R |-> Zeros(8), mirror |-> "H"]
Written245(r, a, d) ==
  CASE Page(a) \in {8, 9} /\ Even(a)   -> Target(r, d)
    [] Page(a) \in {8, 9} /\ Odd(a)    -> [r EXCEPT !.R[r.target] = d]
    [] Page(a) \in {10, 11} /\ Even(a) -> [r EXCEPT !.mirror = VH(d % 2)]
    [] OTHER -> r
Prg245(r, n) ==
  LET half(bank) == (bank % 64) + 64 * Bit(r.R[0], 1)
      plain == PrgMMC3(r, r.R[6], r.R[7], n)
  IN [w \in PrgWindows |-> half(plain[w])]
Chr245(r, k) ==
  IF k = 0 THEN [w \in ChrWindows |-> (w + 4 * r.chrInversion) % 8] ELSE ChrMMC3(r)
=============================================================================
