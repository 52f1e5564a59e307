------------------------------- MODULE Boards -------------------------------
(***************************************************************************)
(* Cartridge boards whose registers are one latch (src/src/core/mappers).  *)
(*                                                                         *)
(* A board is a record: where the program writes the latch, which bits of  *)
(* the address or of the data go to its fields, and how the fields lay out *)
(* the ROM.  A layout is a function from the windows of the processor to   *)
(* banks: PRG windows 0..3 are the 8 KB from $8000 on, CHR windows 0..7    *)
(* the 1 KB from $0000 on, a bank the number of such a unit in the ROM,    *)
(* and NoBank a window the board does not answer.  n and k are the numbers *)
(* of 16 KB PRG and of 8 KB CHR banks of the cartridge; k = 0 is CHR RAM.  *)
(***************************************************************************)
EXTENDS Integers, Sequences

PrgWindows == 0..3
ChrWindows == 0..7
NoBank == -1

Bit(d, i) == (d \div 2^i) % 2
Bits(d, lo, width) == (d \div 2^lo) % 2^width

-----------------------------------------------------------------------------
(* mapper_helpers.  Both branches of maskBank are a remainder. *)

MaskBank(bank, banks) == IF banks = 0 THEN 0 ELSE bank % banks

Raw16(lo, hi) == [w \in PrgWindows |-> (IF w < 2 THEN lo ELSE hi) * 2 + (w % 2)]
Raw32(bank)   == [w \in PrgWindows |-> bank * 4 + w]
Raw8(bank)    == [w \in ChrWindows |-> bank * 8 + w]

MutPrg16FixedHi(bank, n) == Raw16(bank, MaskBank(n - 1, n))
Prg16FixedHi(bank, n) == Raw16(MaskBank(bank, n), MaskBank(n - 1, n))
Prg16FixedLo(bank, n) == Raw16(0, MaskBank(bank, n))
Prg32(bank, n) ==
  Raw32(MaskBank(bank, IF n \div 2 = 0 THEN 1 ELSE n \div 2))
Chr8(bank, k) == Raw8(MaskBank(bank, k))

-----------------------------------------------------------------------------
(* A field takes bits of a write in one part or two, each moved up by to. *)

Data(lo, width) == <<[from |-> "data", lo |-> lo, width |-> width, to |-> 0]>>
Addr(lo, width) == <<[from |-> "addr", lo |-> lo, width |-> width, to |-> 0]>>
Up(field, by)   == <<[field[1] EXCEPT !.to = by]>>

Part(f, a, d) == Bits(IF f.from = "data" THEN d ELSE a, f.lo, f.width) * 2^f.to
Taken(field, a, d) ==
  CASE Len(field) = 0 -> 0
    [] Len(field) = 1 -> Part(field[1], a, d)
    [] Len(field) = 2 -> Part(field[1], a, d) + Part(field[2], a, d)

(* Where a board decodes its latch. *)
Decodes(at, a) ==
  CASE at = "$8000-$FFFF" -> a >= \h8000
    [] at = "$6000-$7FFF" -> a \in \h6000..\h7FFF
    [] at = "$4100-$5FFF" -> a \in \h4100..\h5FFF /\ Bit(a, 8) = 1
    [] at = "$4020-$5FFF" -> a \in \h4020..\h5FFF
    [] at = "$5000,$D000" -> a \div 4096 \in {5, 13} /\ Bits(a, 8, 2) = 0
    [] at = "nowhere"     -> FALSE

(* A board with nothing to switch, for the others to differ from: PRG as   *)
(* its 32 KB, CHR as its 8 KB, nametables soldered, no bus conflicts, and  *)
(* a reset() that brings the latch back to what it was built with.         *)
Plain == [at |-> "$8000-$FFFF", prg |-> <<>>, chr |-> <<>>, mode |-> <<>>,
          mirror |-> <<>>, mirrors |-> <<"header">>,
          prgMap |-> <<"first32">>, chrMap |-> "first8",
          start |-> [prg |-> 0, chr |-> 0, mode |-> 0, mirror |-> "header"],
          startsLast |-> 0, conflicts |-> FALSE, resets |-> TRUE]

Switched(mirror) == [Plain.start EXCEPT !.mirror = mirror]

Mapper000 == [Plain EXCEPT !.at = "nowhere", !.prgMap = <<"nrom">>]
Mapper002 == [Plain EXCEPT !.prg = Data(0, 4), !.prgMap = <<"lo16">>]
Mapper003 == [Plain EXCEPT !.chr = Data(0, 2), !.prgMap = <<"nrom">>,
              !.chrMap = "raw8", !.conflicts = TRUE, !.resets = FALSE]
Mapper007 == [Plain EXCEPT !.prg = Data(0, 3), !.prgMap = <<"masked32">>,
              !.mirror = Data(4, 1), !.mirrors = <<"lo", "hi">>,
              !.start = Switched("lo")]
Mapper011 == [Plain EXCEPT !.prg = Data(0, 2), !.chr = Data(4, 4),
              !.prgMap = <<"masked32">>, !.chrMap = "masked8",
              !.startsLast = 2, !.conflicts = TRUE]
Mapper013 == [Plain EXCEPT !.chr = Data(0, 2), !.chrMap = "hi4", !.conflicts = TRUE]
Mapper058 == [Plain EXCEPT !.prg = Addr(0, 3), !.chr = Addr(3, 3),
              !.mode = Addr(6, 1), !.mirror = Addr(7, 1),
              !.mirrors = <<"V", "H">>, !.start = Switched("V"),
              !.prgMap = <<"rawHalf32", "rawNext16">>, !.chrMap = "raw8"]
Mapper061 == [Plain EXCEPT !.prg = Addr(5, 1) \o Up(Addr(0, 4), 1),
              !.mode = Addr(4, 1), !.prgMap = <<"half32", "both16">>,
              !.chrMap = "masked8", !.mirror = Addr(7, 1),
              !.mirrors = <<"V", "H">>, !.start = Switched("V")]
Mapper062 == [Plain EXCEPT !.prg = Addr(8, 6) \o Up(Addr(6, 1), 6),
              !.chr = Data(0, 2) \o Up(Addr(0, 5), 2),
              !.mode = Addr(5, 1), !.prgMap = <<"half32", "both16">>,
              !.chrMap = "masked8", !.mirror = Addr(7, 1),
              !.mirrors = <<"V", "H">>, !.start = Switched("V")]
Mapper066 == [Plain EXCEPT !.prg = Data(4, 2), !.chr = Data(0, 2),
              !.prgMap = <<"masked32">>, !.chrMap = "masked8",
              !.startsLast = 2, !.conflicts = TRUE]
Mapper070 == [Plain EXCEPT !.prg = Data(4, 3), !.chr = Data(0, 4),
              !.prgMap = <<"lo16">>, !.chrMap = "raw8"]
Mapper077 == [Plain EXCEPT !.prg = Data(0, 4), !.chr = Data(4, 4),
              !.prgMap = <<"masked32">>, !.chrMap = "lo2", !.conflicts = TRUE]
Mapper078 == [Plain EXCEPT !.prg = Data(0, 3), !.chr = Data(4, 4),
              !.prgMap = <<"lo16">>, !.chrMap = "masked8",
              !.mirror = Data(3, 1), !.mirrors = <<"H", "V">>,
              !.start = Switched("H"), !.startsLast = 3, !.conflicts = TRUE]
Mapper079 == [Plain EXCEPT !.at = "$4100-$5FFF", !.prg = Data(3, 1),
              !.chr = Data(0, 3) \o Up(Data(6, 1), 3),
              !.prgMap = <<"raw32">>, !.chrMap = "raw8"]
Mapper087 == [Plain EXCEPT !.at = "$6000-$7FFF",
              !.chr = Up(Data(0, 1), 1) \o Data(1, 1), !.chrMap = "raw8"]
Mapper089 == [Plain EXCEPT !.prg = Data(4, 3),
              !.chr = Data(0, 3) \o Up(Data(7, 1), 3),
              !.prgMap = <<"lo16">>, !.chrMap = "raw8",
              !.mirror = Data(3, 1), !.mirrors = <<"lo", "hi">>,
              !.start = Switched("lo"), !.conflicts = TRUE]
Mapper093 == [Plain EXCEPT !.prg = Data(4, 4), !.prgMap = <<"maskedLo16">>,
              !.chrMap = "masked8", !.conflicts = TRUE]
Mapper094 == [Plain EXCEPT !.prg = Data(2, 3), !.prgMap = <<"lo16">>,
              !.conflicts = TRUE]
Mapper097 == [Plain EXCEPT !.prg = Data(0, 4), !.prgMap = <<"hi16">>,
              !.mirror = Data(6, 2), !.mirrors = <<"lo", "H", "V", "hi">>,
              !.start = Switched("lo")]
Mapper107 == [Plain EXCEPT !.prg = Data(1, 7), !.chr = Data(0, 8),
              !.prgMap = <<"masked32">>, !.chrMap = "masked8"]
Mapper113 == [Plain EXCEPT !.at = "$4100-$5FFF", !.prg = Data(3, 3),
              !.chr = Data(0, 3) \o Up(Data(6, 1), 3),
              !.prgMap = <<"raw32">>, !.chrMap = "raw8",
              !.mirror = Data(7, 1), !.mirrors = <<"H", "V">>,
              !.start = Switched("H")]
Mapper140 == [Plain EXCEPT !.at = "$6000-$7FFF", !.prg = Data(4, 2),
              !.chr = Data(0, 4), !.prgMap = <<"raw32">>, !.chrMap = "raw8"]
Mapper152 == [Plain EXCEPT !.prg = Data(4, 3), !.chr = Data(0, 4),
              !.prgMap = <<"lo16">>, !.chrMap = "raw8",
              !.mirror = Data(7, 1), !.mirrors = <<"lo", "hi">>,
              !.start = Switched("lo"), !.conflicts = TRUE]
Mapper164 == [Plain EXCEPT !.at = "$5000,$D000", !.prg = Data(0, 8),
              !.prgMap = <<"masked32">>, !.chrMap = "masked8",
              !.start = [Plain.start EXCEPT !.prg = 255]]
Mapper180 == [Plain EXCEPT !.prg = Data(0, 3), !.prgMap = <<"firstHi16">>,
              !.conflicts = TRUE]
Mapper184 == [Plain EXCEPT !.at = "$6000-$7FFF",
              !.chr = Data(0, 3) \o Up(Data(4, 3), 3), !.chrMap = "pair4",
              !.start = [Plain.start EXCEPT !.chr = 32]]
Mapper185 == [Plain EXCEPT !.chr = Data(0, 8), !.chrMap = "gated",
              !.conflicts = TRUE]
Mapper200 == [Plain EXCEPT !.prg = Addr(0, 3), !.chr = Addr(0, 3),
              !.prgMap = <<"both16">>, !.chrMap = "masked8",
              !.mirror = Addr(3, 1), !.mirrors = <<"V", "H">>,
              !.start = Switched("V")]
Mapper201 == [Plain EXCEPT !.prg = Addr(0, 8), !.chr = Addr(0, 8),
              !.prgMap = <<"masked32">>, !.chrMap = "masked8"]
Mapper203 == [Plain EXCEPT !.prg = Data(2, 6), !.chr = Data(0, 2),
              !.prgMap = <<"both16">>, !.chrMap = "masked8"]
Mapper225 == [Plain EXCEPT !.prg = Addr(6, 6) \o Up(Addr(14, 1), 6),
              !.chr = Addr(0, 6) \o Up(Addr(14, 1), 6),
              !.mode = Addr(12, 1), !.prgMap = <<"rawHalf32", "rawBoth16">>,
              !.chrMap = "raw8", !.mirror = Addr(13, 1),
              !.mirrors = <<"V", "H">>, !.start = Switched("V")]
Mapper231 == [Plain EXCEPT !.prg = Addr(5, 1) \o Up(Addr(1, 4), 1),
              !.prgMap = <<"even16">>, !.mirror = Addr(7, 1),
              !.mirrors = <<"V", "H">>, !.start = Switched("V")]
Mapper233 == [Plain EXCEPT !.prg = Data(0, 5), !.mode = Data(5, 1),
              !.prgMap = <<"half32", "both16">>, !.chrMap = "masked8",
              !.mirror = Data(6, 2), !.mirrors = <<"lo", "V", "H", "hi">>,
              !.start = Switched("lo")]
Mapper240 == [Plain EXCEPT !.at = "$4020-$5FFF", !.prg = Data(4, 4),
              !.chr = Data(0, 4), !.prgMap = <<"masked32">>, !.chrMap = "masked8"]
Mapper242 == [Plain EXCEPT !.prg = Addr(3, 4), !.prgMap = <<"masked32">>,
              !.mirror = Addr(1, 1), !.mirrors = <<"V", "H">>,
              !.start = Switched("V")]

LatchBoards ==
  [b \in {0, 2, 3, 7, 11, 13, 58, 61, 62, 66, 70, 77, 78, 79, 87, 89, 93, 94,
          97, 107, 113, 140, 152, 164, 180, 184, 185, 200, 201, 203, 225, 231,
          233, 240, 242} |->
     CASE b = 0   -> Mapper000 [] b = 2   -> Mapper002 [] b = 3   -> Mapper003
       [] b = 7   -> Mapper007 [] b = 11  -> Mapper011 [] b = 13  -> Mapper013
       [] b = 58  -> Mapper058 [] b = 61  -> Mapper061 [] b = 62  -> Mapper062
       [] b = 66  -> Mapper066 [] b = 70  -> Mapper070 [] b = 77  -> Mapper077
       [] b = 78  -> Mapper078 [] b = 79  -> Mapper079 [] b = 87  -> Mapper087
       [] b = 89  -> Mapper089 [] b = 93  -> Mapper093 [] b = 94  -> Mapper094
       [] b = 97  -> Mapper097 [] b = 107 -> Mapper107 [] b = 113 -> Mapper113
       [] b = 140 -> Mapper140 [] b = 152 -> Mapper152 [] b = 164 -> Mapper164
       [] b = 180 -> Mapper180 [] b = 184 -> Mapper184 [] b = 185 -> Mapper185
       [] b = 200 -> Mapper200 [] b = 201 -> Mapper201 [] b = 203 -> Mapper203
       [] b = 225 -> Mapper225 [] b = 231 -> Mapper231 [] b = 233 -> Mapper233
       [] b = 240 -> Mapper240 [] b = 242 -> Mapper242]

-----------------------------------------------------------------------------
LatchStart(b, n) ==
  LET board == LatchBoards[b]
      pages == n \div 2
  IN IF board.startsLast = 0 \/ pages = 0 THEN board.start
     ELSE [board.start EXCEPT !.prg = (pages - 1) % 2^board.startsLast]

LatchReset(b, r, n) == IF LatchBoards[b].resets THEN LatchStart(b, n) ELSE r

LatchWritten(b, r, a, d) ==
  LET board == LatchBoards[b]
  IN IF ~Decodes(board.at, a) THEN r
     ELSE [prg    |-> Taken(board.prg, a, d),
           chr    |-> Taken(board.chr, a, d),
           mode   |-> Taken(board.mode, a, d),
           mirror |-> board.mirrors[1 + Taken(board.mirror, a, d)]]

(* The banks of the PRG windows, one layout to each cpuMapRead. *)
LatchPrg(b, r, n) ==
  LET map  == LatchBoards[b].prgMap[r.mode + 1]
      bank == r.prg
      last == n - 1
  IN CASE map = "first32"    -> Raw32(0)
       [] map = "nrom"       -> IF n > 1 THEN Raw32(0) ELSE Raw16(0, 0)
       [] map = "raw32"      -> Raw32(bank)
       [] map = "masked32"   -> Prg32(bank, n)
       [] map = "half32"     -> Prg32(bank \div 2, n)
       [] map = "rawHalf32"  -> Raw32(bank \div 2)
       [] map = "lo16"       -> Raw16(bank, last)
       [] map = "maskedLo16" -> Prg16FixedHi(bank, n)
       [] map = "hi16"       -> Raw16(last, bank)
       [] map = "firstHi16"  -> Raw16(0, bank)
       [] map = "both16"     -> Raw16(MaskBank(bank, n), MaskBank(bank, n))
       [] map = "rawBoth16"  -> Raw16(bank, bank)
       [] map = "rawNext16"  -> Raw16(bank, bank + 1)
       [] map = "even16"     -> Raw16(MaskBank((bank \div 2) * 2, n), MaskBank(bank, n))

(* The banks of the CHR windows, one layout to each ppuMapRead. *)
LatchChr(b, r, k) ==
  LET map  == LatchBoards[b].chrMap
      bank == r.chr
  IN CASE map = "first8"  -> Raw8(0)
       [] map = "raw8"    -> Raw8(bank)
       [] map = "masked8" -> Chr8(bank, k)
       [] map = "hi4"     -> [w \in ChrWindows |-> IF w < 4 THEN w ELSE bank * 4 + (w % 4)]
       [] map = "lo2"     -> [w \in ChrWindows |-> IF w < 2 THEN bank * 2 + w ELSE w]
       [] map = "pair4"   -> [w \in ChrWindows |->
                                (IF w < 4 THEN bank % 8 ELSE ((bank \div 8) % 4) + 4) * 4 + (w % 4)]
       [] map = "gated"   -> [w \in ChrWindows |->
                                IF bank % 16 # 0 /\ bank # \h13 THEN w ELSE NoBank]

(* The PRG layouts of these boards that stay inside the ROM whatever bank   *)
(* is written: those that reduce it by the number of banks.                 *)
MaskedLayouts == {"nrom", "masked32", "half32", "maskedLo16", "both16", "even16"}
LatchMasked(b) == \A i \in DOMAIN LatchBoards[b].prgMap :
                     LatchBoards[b].prgMap[i] \in MaskedLayouts
=============================================================================
