----------------------------- MODULE BoardsMMC5 -----------------------------
(***************************************************************************)
(* The banks of MMC5 (005).  Its registers lie below $6000 and are taken   *)
(* from the bus before PRG RAM; each 8 KB window from $8000 on, but for    *)
(* the last, is ROM or RAM by bit 7 of its register; CHR has two sets of   *)
(* registers, one for 8x16 sprites and one for the background.             *)
(*                                                                         *)
(* Left out: nametables, extended attributes, the split screen, the        *)
(* multiplier, write protection and the contents of its RAM.  MMC5Lines    *)
(* has its scanline counter.                                               *)
(***************************************************************************)
EXTENDS Boards

Built005 == [prgMode |-> 3, prgReg |-> <<0, 0, 0, 0, 255>>, chrMode |-> 3, chrHigh |-> 0,
             chrA |-> [i \in 0..7 |-> 0], chrB |-> [i \in 0..3 |-> 0], lastChrSetB |-> FALSE]

Written005(r, a, d) ==
  CASE a = \h5100           -> [r EXCEPT !.prgMode = d % 4]
    [] a = \h5101           -> [r EXCEPT !.chrMode = d % 4]
    [] a \in \h5113..\h5117 -> [r EXCEPT !.prgReg[a - \h5112] = d]
    [] a \in \h5120..\h5127 -> [r EXCEPT !.chrA[a - \h5120] = 256 * r.chrHigh + d,
                                         !.lastChrSetB = FALSE]
    [] a \in \h5128..\h512B -> [r EXCEPT !.chrB[a - \h5128] = 256 * r.chrHigh + d,
                                         !.lastChrSetB = TRUE]
    [] a = \h5130           -> [r EXCEPT !.chrHigh = d % 4]
    [] OTHER -> r

(* A register of a mode rules a group of windows, and the last of a group  *)
(* is the one whose register is used.                                      *)
PrgGroup(r, w) ==
  CASE r.prgMode = 0                            -> 4
    [] r.prgMode = 1 \/ (r.prgMode = 2 /\ w < 2) -> 2
    [] OTHER                                    -> 1
LastOf(w, group) == w - (w % group) + group - 1
SlotRegister(r, w) == r.prgReg[2 + LastOf(w, PrgGroup(r, w))]

InRam(r, w) == LastOf(w, PrgGroup(r, w)) # 3 /\ SlotRegister(r, w) < 128
Prg005(r, n) ==
  [w \in PrgWindows |->
     LET group == PrgGroup(r, w)
         bank  == group * ((SlotRegister(r, w) % 128) \div group) + (w % group)
     IN IF InRam(r, w) THEN NoBank ELSE MaskBank(bank, (2 * n) % 256)]

(* The set used last rules what the background is fetched from.            *)
Chr005(r, k) ==
  LET group == 8 \div 2^r.chrMode
      half  == IF group = 8 THEN 4 ELSE group
      reg(w) == IF r.lastChrSetB THEN r.chrB[LastOf(w % 4, half)] ELSE r.chrA[LastOf(w, group)]
  IN [w \in ChrWindows |-> (reg(w) * group + (w % group)) % (IF k = 0 THEN 8 ELSE 8 * k)]

(* Mapper005::cpuWriteDirect: its registers, its RAM below $8000 and the   *)
(* windows that show it.                                                   *)
Takes005(r, a) ==
  \/ a \in \h5000..\h5015
  \/ a \in \h5100..\h5206
  \/ a \in \h5C00..\h7FFF
  \/ a >= \h8000 /\ InRam(r, (a - \h8000) \div \h2000)
=============================================================================
