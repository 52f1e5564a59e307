----------------------------- MODULE MCCartridge -----------------------------
(* The cartridges of the runs, and what the programs in them write.        *)
EXTENDS Cartridge

AddressLatches == {58, 61, 62, 200, 201, 225, 227, 228, 231, 242}
PagesFrom(first) == {p * \h1000 : p \in first..15}

BankAddresses(b) ==
  CASE b \in AddressLatches -> {\h8000, \h8035, \h8047, \h8282, \h80A1, \hFFFF}
    [] b \in {87, 140, 184} -> {\h6000, \h8000}
    [] b \in {79, 113}  -> {\h4100, \h4200}
    [] b = 240          -> {\h4020}
    [] b = 164          -> {\h5000, \hD000}
    [] b = 34           -> {\h7FFD, \h7FFE, \h7FFF, \h8000}
    [] b = 46           -> {\h6000, \h8000}
    [] b = 57           -> {\h8000, \h8800}
    [] b \in {71, 232}  -> {\h8000, \hC000}
    [] b = 15           -> \h8000..\h8003
    [] b \in {76, 88, 95, 154, 226, 245} -> {\h8000, \h8001}
    [] b = 234          -> {\hFF80, \hFFE8}
    [] b = 243          -> {\h4100, \h4101}
    [] b = 28           -> {\h5000, \h8000}
    [] b = 5            -> {\h5100, \h5101, \h5114, \h5117, \h5127, \h512B, \h5130, \h8000}
    [] b = 1            -> {\h6000, \h8000, \hA000, \hC000, \hE000}
    [] b \in {9, 10, 68, 75} -> PagesFrom(8)
    [] b = 22           -> PagesFrom(8) \cup {\hB002, \hE001}
    [] b = 32           -> PagesFrom(8) \cup {\hB007}
    [] b = 33           -> \h8000..\h8003 \cup {\hA000}
    [] b \in {80, 82}   -> {\h7EF0, \h7EF2, \h7EF6, \h7EF8, \h7EFA, \h7EFC}
    [] b = 112          -> {\h8000, \hA000, \hE000}
    [] b = 193          -> \h6000..\h6003
    [] b = 246          -> {\h6000, \h6003, \h6004}
    [] b = 189          -> {\h4120, \h8000, \h8001, \hA000}
    [] b = 182          -> {\h6000, \h8001, \hA000, \hC000}
    [] b \in MMC3Boards \ {182} -> {\h6000, \h8000, \h8001, \hA000, \hA001}
    [] b = 48           -> \h8000..\h8003 \cup {\hA000, \hE000}
    [] b = 64           -> {\h8000, \h8001, \hA000}
    [] b = 65           -> {\h8000, \h9001, \hA000, \hB000, \hC000}
    [] b = 67           -> {\h8800, \hE800, \hF800}
    [] b = 69           -> {\h6000, \h8000, \hA000}
    [] b = 91           -> {\h6000, \h7000}
    [] b \in {24, 26}   -> {\h8000, \hB003, \hC000, \hD000, \hE000}
    [] OTHER            -> {\h8000, \hF000}

BankData(b) ==
  CASE b = 1  -> {0, 1, 128}
    [] b = 28 -> {0, 1, 44, 128, 129, 255}
    [] b = 69 -> {0, 3, 8, 9, 255}
    [] b \in MMC3Boards \cup {64, 95, 189, 245} -> {0, 6, 70, 128, 255}
    [] b \in {76, 88, 112, 154} -> {0, 1, 6, 255}
    [] OTHER -> {0, 5, 18, 255}

IrqWrites(b) ==
  CASE b \in (MMC3Boards \ {182}) \cup {189, 245} ->
         {<<\hC000, 0>>, <<\hC000, 1>>, <<\hC000, 2>>, <<\hC001, 0>>, <<\hE000, 0>>, <<\hE001, 0>>}
    [] b = 182 -> {<<\hC001, 0>>, <<\hC001, 1>>, <<\hC001, 2>>, <<\hE000, 0>>, <<\hE001, 0>>}
    [] b = 48  -> {<<\hC000, 255>>, <<\hC000, 253>>, <<\hC001, 0>>, <<\hC002, 0>>, <<\hC003, 0>>}
    [] b = 64  -> {<<\hC000, 0>>, <<\hC000, 1>>, <<\hC001, 0>>, <<\hC001, 1>>,
                   <<\hE000, 0>>, <<\hE001, 0>>}
    [] b = 65  -> {<<\h9003, 0>>, <<\h9003, 128>>, <<\h9004, 0>>, <<\h9005, 0>>,
                   <<\h9006, 1>>, <<\h9006, 3>>}
    [] b = 67  -> {<<\hC800, 0>>, <<\hC800, 3>>, <<\hD800, 0>>, <<\hD800, 16>>}
    [] b = 69  -> {<<\h8000, 13>>, <<\h8000, 14>>, <<\h8000, 15>>,
                   <<\hA000, 0>>, <<\hA000, 128>>, <<\hA000, 129>>}
    [] b = 73  -> {<<\h8000, 14>>, <<\h9000, 15>>, <<\hC000, 2>>, <<\hC000, 6>>, <<\hC000, 7>>,
                   <<\hD000, 0>>}
    [] b = 91  -> {<<\h7002, 0>>, <<\h7003, 0>>}
    [] b = 24  -> {<<\hF000, 254>>, <<\hF000, 255>>, <<\hF001, 2>>, <<\hF001, 3>>, <<\hF001, 6>>,
                   <<\hF001, 7>>, <<\hF002, 0>>}
    [] b = 26  -> {<<\hF000, 254>>, <<\hF000, 255>>, <<\hF002, 2>>, <<\hF002, 3>>, <<\hF002, 7>>,
                   <<\hF001, 0>>}

BoardWrites(b, study) ==
  IF study = "irq" THEN IrqWrites(b) ELSE BankAddresses(b) \X BankData(b)
BoardMaxWrites(b, study) ==
  CASE study = "irq" -> 6
    [] b = 1         -> 6
    [] OTHER         -> 3

-----------------------------------------------------------------------------
(* Of 16 KB and 8 KB banks: a cartridge of the least size, sizes that are  *)
(* not powers of two, and the largest the board is for.                    *)
Sizes(b) ==
  CASE b \in {0, 3} -> {<<1, 1>>, <<2, 1>>, <<8, 0>>}
    [] b = 1   -> {<<8, 0>>, <<16, 0>>, <<32, 4>>}
    [] b = 230 -> {<<40, 0>>}
    [] b \in MMC3Boards -> {<<2, 1>>, <<6, 3>>, <<32, 32>>}
    [] OTHER   -> {<<2, 1>>, <<3, 2>>, <<8, 0>>}

TimedBoards == {4, 24, 26, 48, 64, 65, 67, 69, 73, 91, 182, 189, 245}

Studied(b, s, study) == [board |-> b, n |-> s[1], k |-> s[2], study |-> study]
BoardInstances ==
  UNION {{Studied(b, s, "banks") : s \in Sizes(b)} : b \in Registered}
    \cup {Studied(b, <<8, 1>>, "irq") : b \in TimedBoards}
RamInstances == {Studied(b, <<2, 1>>, "banks") : b \in WithoutRam}
=============================================================================
