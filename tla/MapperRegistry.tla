--------------------------- MODULE MapperRegistry ---------------------------
(***************************************************************************)
(* From the number of a board to what it does: the virtual calls of class  *)
(* Mapper, answered by the boards of the other modules.                    *)
(***************************************************************************)
EXTENDS BoardsIRQ, BoardsMMC5

Namco118Like == {76, 88, 154}

(* MapperRegistry::isRegistered: the numbers a header can name a board by. *)
Registered ==
  DOMAIN LatchBoards \cup IrqBoards \cup
  {5, 34, 46, 57, 60, 71, 72, 92, 15, 226, 227, 228, 230, 232, 234, 243, 28, 1, 9, 10, 22, 32, 33,
   68, 75, 76, 88, 154, 80, 82, 112, 193, 246, 95}

Built(b, n, k) ==
  CASE b \in DOMAIN LatchBoards -> LatchStart(b, n)
    [] b = 34 -> Built034(n)        [] b = 46 -> Built046
    [] b = 57 -> Built057           [] b = 60 -> Built060
    [] b = 71 -> Built071           [] b \in {72, 92} -> BuiltEdge
    [] b = 15 -> Built015           [] b = 226 -> Built226
    [] b = 227 -> Built227          [] b = 228 -> Built228
    [] b = 230 -> Built230          [] b = 232 -> Built232
    [] b = 234 -> Built234          [] b = 243 -> Built243
    [] b = 28 -> Built028           [] b = 1 -> Built001
    [] b \in {9, 10} -> BuiltLatched [] b = 22 -> Built022
    [] b = 32 -> Built032           [] b = 33 -> Built033
    [] b = 68 -> Built068           [] b = 75 -> Built075
    [] b \in {76, 88} -> Built076   [] b = 154 -> Built154
    [] b = 80 -> Built080           [] b = 82 -> Built082
    [] b = 112 -> Built112          [] b = 193 -> Built193
    [] b = 246 -> Built246          [] b = 95 -> Built095(n)
    [] b = 189 -> Built189          [] b = 245 -> Built245
    [] b = 115 -> [Built004(n, k) EXCEPT !.outer = Outer115]
    [] b \in MMC3Boards \ {115} -> Built004(n, k)
    [] b = 48 -> Built048           [] b = 64 -> Built064
    [] b = 65 -> Built065(n)        [] b = 67 -> Built067
    [] b = 69 -> Built069           [] b = 73 -> Built073
    [] b = 91 -> Built091           [] b \in {24, 26} -> Built024
    [] b = 5 -> Built005

(* Mapper::reset; the boards not named come back to what they were built as. *)
ResetOf(b, r, n, k) ==
  CASE b \in DOMAIN LatchBoards -> LatchReset(b, r, n)
    [] b = 60  -> Reset060(r)       [] b = 71 -> Reset071(r)
    [] b = 15  -> Reset015(r)       [] b = 230 -> Reset230(r)
    [] b = 28  -> r
    [] b = 115 -> [Reset004(r, n, k) EXCEPT !.outer = Outer115]
    [] b \in MMC3Boards \ {115} -> Reset004(r, n, k)
    [] OTHER   -> Built(b, n, k)

(* Mapper::cpuMapWrite *)
Written(b, r, a, d, n, k) ==
  CASE b \in DOMAIN LatchBoards -> LatchWritten(b, r, a, d)
    [] b = 34 -> Written034(r, a, d)   [] b = 46 -> Written046(r, a, d)
    [] b = 57 -> Written057(r, a, d)   [] b \in {5, 60} -> r
    [] b = 71 -> Written071(r, a, d)   [] b \in {72, 92} -> WrittenEdge(r, a, d)
    [] b = 15 -> Written015(r, a, d)   [] b = 226 -> Written226(r, a, d)
    [] b = 227 -> Written227(r, a, d)  [] b = 228 -> Written228(r, a, d)
    [] b = 230 -> Written230(r, a, d)  [] b = 232 -> Written232(r, a, d)
    [] b = 234 -> Written234(r, a, d)  [] b = 243 -> Written243(r, a, d)
    [] b = 28 -> Written028(r, a, d)   [] b = 1 -> Written001(r, a, d, n, k)
    [] b \in {9, 10} -> WrittenLatched(r, a, d)
    [] b = 22 -> Written022(r, a, d)   [] b = 32 -> Written032(r, a, d)
    [] b = 33 -> Written033(r, a, d)   [] b = 68 -> Written068(r, a, d)
    [] b = 75 -> Written075(r, a, d)   [] b \in {76, 88} -> Written076(r, a, d)
    [] b = 154 -> Written154(r, a, d)  [] b = 80 -> Written080(r, a, d)
    [] b = 82 -> Written082(r, a, d)   [] b = 112 -> Written112(r, a, d)
    [] b = 193 -> Written193(r, a, d)  [] b = 246 -> Written246(r, a, d)
    [] b = 95 -> Written095(r, a, d, n) [] b = 189 -> Written189(r, a, d)
    [] b = 245 -> Written245(r, a, d)  [] b = 44 -> Written044(r, a, d, n, k)
    [] b = 47 -> Written047(r, a, d, n, k)   [] b = 49 -> Written049(r, a, d, n, k)
    [] b = 115 -> Written115(r, a, d, n, k)  [] b = 205 -> Written205(r, a, d, n, k)
    [] b = 182 -> Written182(r, a, d, n, k)
    [] b \in {4, 74, 118, 119, 191, 192, 194} -> Written004(r, a, d, n, k)
    [] b = 48 -> Written048(r, a, d)   [] b = 64 -> Written064(r, a, d)
    [] b = 65 -> Written065(r, a, d)   [] b = 67 -> Written067(r, a, d)
    [] b = 69 -> Written069(r, a, d)   [] b = 73 -> Written073(r, a, d)
    [] b = 91 -> Written091(r, a, d)   [] b \in {24, 26} -> Written024(b, r, a, d)

(* Mapper::cpuMapRead, over $8000-$FFFF *)
Prg(b, r, n) ==
  CASE b \in DOMAIN LatchBoards -> LatchPrg(b, r, n)
    [] b = 34 -> Prg32(r.prg, n)  [] b = 46 -> Prg046(r, n)  [] b = 57 -> Prg057(r, n)
    [] b = 60 -> Prg060(r, n)     [] b = 71 -> Prg071(r, n)  [] b = 72 -> Prg072(r, n)
    [] b = 92 -> Prg092(r, n)     [] b = 15 -> Prg015(r, n)  [] b = 226 -> Prg226(r, n)
    [] b = 227 -> Prg227(r, n)    [] b = 228 -> Prg228(r, n) [] b = 230 -> Prg230(r, n)
    [] b = 232 -> Prg232(r, n)    [] b = 234 -> Prg234(r, n) [] b = 243 -> Prg32(r.prg, n)
    [] b = 28 -> Prg028(r, n)     [] b = 1 -> Prg001(r, n)   [] b = 9 -> Prg009(r, n)
    [] b = 10 -> Prg010(r, n)     [] b = 22 -> Prg022(r, n)  [] b = 32 -> Prg032(r, n)
    [] b = 33 -> Prg033(r, n)     [] b = 68 -> Prg068(r, n)  [] b = 75 -> Prg075(r, n)
    [] b \in Namco118Like -> Prg076(r, n)
    [] b \in {80, 82} -> Prg080(r, n) [] b = 112 -> Prg112(r, n) [] b = 193 -> Prg193(r, n)
    [] b = 246 -> Prg246(r, n)    [] b = 189 -> Prg32(r.prg32, n)
    [] b = 245 -> Prg245(r, n)    [] b = 44 -> Prg044(r, n)  [] b = 47 -> Prg047(r, n)
    [] b = 49 -> Prg049(r, n)     [] b = 115 -> Prg115(r, n) [] b = 205 -> Prg205(r, n)
    [] b \in {4, 74, 95, 118, 119, 182, 191, 192, 194} -> r.prgBank
    [] b = 48 -> Prg048(r, n)     [] b = 64 -> Prg064(r, n)  [] b = 65 -> Prg065(r, n)
    [] b = 67 -> Prg067(r, n)     [] b = 69 -> Prg069(r, n)  [] b = 73 -> Prg073(r, n)
    [] b = 91 -> Prg091(r, n)     [] b \in {24, 26} -> Prg024(r, n)
    [] b = 5 -> Prg005(r, n)

(* Mapper::ppuMapRead, over $0000-$1FFF *)
Chr(b, r, k) ==
  CASE b \in DOMAIN LatchBoards -> LatchChr(b, r, k)
    [] b = 34 -> Chr034(r, k)     [] b = 46 -> Chr046(r, k)  [] b = 57 -> Chr057(r, k)
    [] b = 60 -> Chr060(r, k)     [] b \in {72, 92} -> ChrEdge(r, k)
    [] b \in {71, 15, 226, 227, 230, 232, 73} -> Raw8(0)
    [] b = 228 -> Chr228(r, k)    [] b = 234 -> Chr234(r, k) [] b = 243 -> Chr243(r, k)
    [] b = 28 -> Chr028(r, k)     [] b = 1 -> Chr001(r, k)
    [] b \in {9, 10} -> ChrLatched(r, k)
    [] b = 22 -> Chr022(r, k)     [] b \in {32, 65} -> r.chr [] b = 33 -> Chr033(r, k)
    [] b \in {67, 68, 91} -> Chr2s(r.chr)
    [] b = 75 -> Chr075(r, k)     [] b = 76 -> Chr076(r, k)
    [] b \in {88, 154} -> Chr088(r, k)
    [] b = 80 -> Chr080(r, k)     [] b = 82 -> Chr082(r, k)  [] b = 112 -> Chr112(r, k)
    [] b = 193 -> Chr193(r, k)    [] b = 246 -> Chr246(r, k) [] b = 245 -> Chr245(r, k)
    [] b = 44 -> Chr044(r, k)     [] b = 47 -> Chr047(r, k)  [] b = 49 -> Chr049(r, k)
    [] b = 115 -> Chr115(r, k)    [] b = 205 -> Chr205(r, k)
    [] b \in {4, 74, 95, 118, 119, 182, 189, 191, 192, 194} -> r.chrBank
    [] b = 48 -> Chr048(r, k)     [] b = 64 -> Chr064(r, k)  [] b = 69 -> Chr069(r, k)
    [] b \in {24, 26} -> Chr024(r, k) [] b = 5 -> Chr005(r, k)

(* Mapper::hasPrgRam, cpuWriteDirect (whether it takes a write, and what it *)
(* makes of it), hasBusConflicts                                           *)
HasPrgRam(b, r) ==
  CASE b = 1 -> r.prgRamEnabled
    [] b \in MMC3Boards -> r.wramEnabled
    [] b = 69 -> Bits(r.workRam, 6, 2) = 3
    [] b \in {22, 28} -> FALSE
    [] OTHER -> TRUE
Takes(b, r, a) ==
  \/ b \in MMC3Boards /\ Refused004(r, a)
  \/ b = 5 /\ Takes005(r, a)
Taking(b, r, a, d) == IF b = 5 THEN Written005(r, a, d) ELSE r
Conflicts(b) ==
  IF b \in DOMAIN LatchBoards THEN LatchBoards[b].conflicts ELSE b \in {34, 72, 92}

(* Fetches that throw a latch of the board: MMC2 and MMC4 only. *)
Fetched(b, r, addr) ==
  CASE b = 9 -> Fetched009(r, addr) [] b = 10 -> Fetched010(r, addr) [] OTHER -> r
=============================================================================
