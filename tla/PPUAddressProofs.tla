-------------------------- MODULE PPUAddressProofs --------------------------
(***************************************************************************)
(* The address of the PPU and the boards that listen to it, for every size *)
(* of the name tables, of the lines and of the frame that the assumptions  *)
(* of PPUAddress allow, and for every program of accesses:                 *)
(*   1. arithmetic, and the fields of an address;                          *)
(*   2. what a board has seen after a sequence of events;                  *)
(*   3. types: what is on the bus, and what the boards keep of it;         *)
(*   4. the pipelines of $2006 and $2007 (AddressKept);                    *)
(*   5. the filter on A12 (OneClockPerLine);                               *)
(*   6. MMC5's lines (LinesCounted): what it sees of a dot, when it takes  *)
(*      the PPU to be stopped, and what it has read twice where.           *)
(*   7. the picture's rows and columns (ScrollHonoured).                   *)
(***************************************************************************)
EXTENDS PPUAddress, DelayedPinProofs, SequenceTheorems, WellFoundedInduction

-----------------------------------------------------------------------------
(* Arithmetic.                                                             *)
(* Division by a constant, and multiples of one.                           *)
LEMMA Divides ==
  ASSUME NEW a \in Nat, NEW b \in Nat, b > 0
  PROVE  /\ a \div b \in Nat /\ a % b \in 0..b - 1
         /\ a = b * (a \div b) + (a % b)
OBVIOUS

LEMMA LessTimes ==
  ASSUME NEW b \in Nat, NEW p \in Int, NEW q \in Int, p < q
  PROVE  b * p + b <= b * q
<1>1. PICK d \in Nat : q = p + 1 + d
  <2>1. q - p - 1 \in Nat
    OBVIOUS
  <2>2. q = p + 1 + (q - p - 1)
    OBVIOUS
  <2>3. QED
    BY <2>1, <2>2
<1>2. b * q = b * p + b + b * d
  BY <1>1
<1>3. b * d >= 0
  OBVIOUS
<1>4. QED
  BY <1>2, <1>3

(* The quotient and the remainder of a sum that shows them.                *)
LEMMA Quotient ==
  ASSUME NEW b \in Nat, b > 0, NEW q \in Nat, NEW r \in 0..b - 1
  PROVE  /\ (b * q + r) \div b = q /\ (b * q + r) % b = r
<1> DEFINE a == b * q + r
           p == a \div b
           s == a % b
<1>1. b * q \in Nat
  OBVIOUS
<1>2. a \in Nat
  BY <1>1
<1>3. p \in Nat /\ s \in 0..b - 1 /\ a = b * p + s
  BY <1>2, Divides
<1> HIDE DEF p, s
<1>4. ~(p < q)
  <2> SUFFICES ASSUME p < q PROVE FALSE
    OBVIOUS
  <2>1. b * p + b <= b * q
    BY <1>3, LessTimes
  <2> QED
    BY <1>3, <2>1, <1>1
<1>5. ~(q < p)
  <2> SUFFICES ASSUME q < p PROVE FALSE
    OBVIOUS
  <2>1. b * q + b <= b * p
    BY <1>3, LessTimes
  <2> QED
    BY <1>3, <2>1, <1>1
<1>6. p = q
  BY <1>3, <1>4, <1>5
<1>7. s = r
  BY <1>3, <1>6
<1>8. QED
  BY <1>6, <1>7 DEF p, s

-----------------------------------------------------------------------------
LEMMA Sizes ==
  /\ Columns \in Nat /\ Columns > 1 /\ Height \in Nat /\ Height > 0
  /\ Rows \in 1..Height
  /\ Columns * Height \in Nat /\ Columns * Height >= Columns
  /\ Table = 4 * (Columns * Height) /\ Table \in Nat
<1>1. Columns \in Nat /\ Columns > 1 /\ Height \in Nat /\ Height > 0 /\ Rows \in 1..Height
  BY SizeAssumption DEF SizeAssumption
<1>2. Columns * 0 + Columns <= Columns * Height
  BY <1>1, LessTimes
<1>3. Columns * Height \in Nat
  BY <1>1
<1>4. Columns * 0 = 0
  BY <1>1
<1>5. QED
  BY <1>1, <1>2, <1>3, <1>4 DEF Table

(* The fields of an address made of fields.                                *)
LEMMA FieldsOf ==
  ASSUME NEW f \in Nat, NEW ny \in 0..1, NEW nx \in 0..1,
         NEW cy \in 0..Height - 1, NEW cx \in 0..Columns - 1
  PROVE  LET a == Address(f, ny, nx, cy, cx)
         IN /\ a \in Nat
            /\ FineY(a) = f /\ NameY(a) = ny /\ NameX(a) = nx
            /\ CoarseY(a) = cy /\ CoarseX(a) = cx
            /\ a = Table * f + (Columns * Height) * (2 * ny + nx) + Columns * cy + cx
            /\ Columns * cy + cx \in 0..Columns * Height - 1
<1> DEFINE a  == Address(f, ny, nx, cy, cx)
           p  == Columns * Height
           m3 == ny + 2 * f
           m2 == nx + 2 * m3
           m1 == cy + Height * m2
           at == Columns * cy + cx
<1>0. a = cx + Columns * m1
  BY DEF Address
<1>1. m3 \in Nat /\ m2 \in Nat /\ Columns \in Nat /\ Height \in Nat /\ Columns > 1 /\ Height > 0
      /\ p \in Nat
  BY Sizes
<1> HIDE DEF m2, a
<1>2. Height * m2 \in Nat
  BY <1>1
<1>3. m1 \in Nat
  BY <1>2
<1>4. Columns * m1 \in Nat
  BY <1>1, <1>3
<1>5. a \in Nat
  BY <1>0, <1>4
<1>6. CoarseX(a) = cx /\ a \div Columns = m1
  <2>1. a = Columns * m1 + cx
    BY <1>0, <1>3, <1>4
  <2>2. QED
    BY <1>1, <1>3, <2>1, Quotient DEF CoarseX
<1>7. CoarseY(a) = cy /\ m1 \div Height = m2
  <2>1. m1 = Height * m2 + cy
    BY <1>2
  <2>2. (a \div Columns) % Height = cy /\ m1 \div Height = m2
    BY <1>1, <1>6, <2>1, Quotient
  <2>3. QED
    BY <2>2 DEF CoarseY
<1>8. at \in 0..p - 1
  <2>1. Columns * cy + Columns <= Columns * Height
    BY <1>1, LessTimes
  <2>2. Columns * cy \in Nat
    BY <1>1
  <2>3. QED
    BY <1>1, <2>1, <2>2
<1>9. a = p * m2 + at
  <2>1. Columns * m1 = Columns * cy + Columns * (Height * m2)
    BY <1>1, <1>2
  <2>2. Columns * (Height * m2) = p * m2
    BY <1>1
  <2>3. QED
    BY <1>0, <1>1, <2>1, <2>2
<1>10. a \div p = m2
  BY <1>1, <1>8, <1>9, Sizes, Quotient
<1>11. NameX(a) = nx
  BY <1>10, <1>1 DEF NameX, m2
<1>12. p * m2 = p * nx + 2 * (p * m3) /\ p * m3 = p * ny + 2 * (p * f)
       /\ p * m3 \in Nat /\ p * f \in Nat /\ p * nx \in 0..p /\ p * ny \in 0..p
  BY <1>1 DEF m2
<1>13. a \div (2 * Columns * Height) = m3
  <2>1. 2 * Columns * Height = 2 * p
    BY <1>1
  <2>2. (2 * p) * m3 = 2 * (p * m3)
    BY <1>1
  <2>3. p * nx + at \in 0..2 * p - 1
    BY <1>1, <1>8, <1>12
  <2>4. a = (2 * p) * m3 + (p * nx + at)
    BY <1>1, <1>8, <1>9, <1>12, <2>2
  <2>5. QED
    BY <1>1, <2>1, <2>3, <2>4, Sizes, Quotient
<1>14. NameY(a) = ny
  BY <1>13 DEF NameY
<1>15. a \div Table = f
  <2>1. Table * f = 4 * (p * f)
    BY <1>1, Sizes
  <2>2. 2 * (p * ny) + p * nx + at \in 0..Table - 1
    <3>1. p * ny = 0 \/ p * ny = p
      BY <1>1
    <3>2. p * nx = 0 \/ p * nx = p
      BY <1>1
    <3>3. QED
      BY <3>1, <3>2, <1>1, <1>8, Sizes
  <2>3. a = Table * f + (2 * (p * ny) + p * nx + at)
    BY <1>1, <1>8, <1>9, <1>12, <2>1
  <2>4. QED
    BY <1>1, <2>2, <2>3, Sizes, Quotient
<1>16. a = Table * f + p * (2 * ny + nx) + Columns * cy + cx
  <2>1. p * (2 * ny + nx) = 2 * (p * ny) + p * nx
    BY <1>1
  <2>2. Table * f = 4 * (p * f)
    BY <1>1, Sizes
  <2>3. a = 4 * (p * f) + (2 * (p * ny) + p * nx) + at
    BY <1>1, <1>8, <1>9, <1>12
  <2>4. at = Columns * cy + cx
    OBVIOUS
  <2>5. Columns * cy \in Nat /\ p * ny \in Int /\ p * nx \in Int /\ p * f \in Int
    BY <1>1
  <2>6. QED
    BY <2>1, <2>2, <2>3, <2>5
<1>17. QED
  BY <1>5, <1>6, <1>7, <1>8, <1>11, <1>14, <1>15, <1>16 DEF FineY, a

LEMMA FieldsAre ==
  ASSUME NEW f \in Nat, NEW ny \in 0..1, NEW nx \in 0..1,
         NEW cy \in 0..Height - 1, NEW cx \in 0..Columns - 1
  PROVE  /\ Address(f, ny, nx, cy, cx) \in Nat
         /\ FineY(Address(f, ny, nx, cy, cx)) = f
         /\ NameY(Address(f, ny, nx, cy, cx)) = ny
         /\ NameX(Address(f, ny, nx, cy, cx)) = nx
         /\ CoarseY(Address(f, ny, nx, cy, cx)) = cy
         /\ CoarseX(Address(f, ny, nx, cy, cx)) = cx
BY FieldsOf, SMTT(30)

LEMMA FieldsSum ==
  ASSUME NEW f \in Nat, NEW ny \in 0..1, NEW nx \in 0..1,
         NEW cy \in 0..Height - 1, NEW cx \in 0..Columns - 1
  PROVE  Address(f, ny, nx, cy, cx)
           = Table * f + (Columns * Height) * (2 * ny + nx) + Columns * cy + cx
BY FieldsOf

(* Fields in their ranges make an address of 15 bits.                      *)
LEMMA AddressType ==
  ASSUME NEW f \in 0..7, NEW ny \in 0..1, NEW nx \in 0..1,
         NEW cy \in 0..Height - 1, NEW cx \in 0..Columns - 1
  PROVE  Address(f, ny, nx, cy, cx) \in Addresses
<1> DEFINE a == Address(f, ny, nx, cy, cx)
           p == Columns * Height
           w == Columns * cy + cx
<1>1. a \in Nat /\ a = Table * f + p * (2 * ny + nx) + Columns * cy + cx /\ w \in 0..p - 1
  BY FieldsOf, SMTT(30)
<1>2. PICK u \in Nat : u = Table * f
  BY Sizes
<1>3. u <= 7 * Table
  <2>1. f \in {0, 1, 2, 3, 4, 5, 6, 7}
    OBVIOUS
  <2>2. QED
    BY <1>2, <2>1, Sizes
<1>4. PICK q \in Nat : q = p * (2 * ny + nx)
  BY Sizes
<1>5. q <= 3 * p
  <2>1. 2 * ny + nx \in {0, 1, 2, 3}
    OBVIOUS
  <2>2. QED
    BY <1>4, <2>1, Sizes
<1>6. a = u + q + w
  <2>1. Columns * cy \in Nat
    BY Sizes
  <2>2. QED
    BY <1>1, <1>2, <1>4, <2>1
<1>7. a <= 7 * Table + 3 * p + (p - 1)
  BY <1>1, <1>3, <1>5, <1>6, Sizes
<1>8. QED
  BY <1>1, <1>7, Sizes DEF Addresses

(* Every address is made of its fields.                                    *)
LEMMA FieldRanges ==
  ASSUME NEW a \in Addresses
  PROVE  /\ FineY(a) \in 0..7 /\ NameY(a) \in 0..1 /\ NameX(a) \in 0..1
         /\ CoarseY(a) \in 0..Height - 1 /\ CoarseX(a) \in 0..Columns - 1
         /\ a = Address(FineY(a), NameY(a), NameX(a), CoarseY(a), CoarseX(a))
<1> DEFINE p == Columns * Height
<1>1. a \in Nat /\ a < 8 * Table
  BY Sizes DEF Addresses
<1>2. PICK m1 \in Nat, cx \in 0..Columns - 1 :
        a = Columns * m1 + cx /\ m1 = a \div Columns /\ cx = a % Columns
  BY <1>1, Sizes, Divides
<1>3. PICK m2 \in Nat, cy \in 0..Height - 1 :
        m1 = Height * m2 + cy /\ m2 = m1 \div Height /\ cy = m1 % Height
  BY Sizes, Divides
<1>4. PICK m3 \in Nat, nx \in 0..1 : m2 = 2 * m3 + nx
  <2>1. m2 = 2 * (m2 \div 2) + (m2 % 2) /\ m2 \div 2 \in Nat /\ m2 % 2 \in 0..1
    OBVIOUS
  <2>2. QED
    BY <2>1
<1>5. PICK f \in Nat, ny \in 0..1 : m3 = 2 * f + ny
  <2>1. m3 = 2 * (m3 \div 2) + (m3 % 2) /\ m3 \div 2 \in Nat /\ m3 % 2 \in 0..1
    OBVIOUS
  <2>2. QED
    BY <2>1
<1>6. a = Address(f, ny, nx, cy, cx)
  <2>1. nx + 2 * (ny + 2 * f) = m2
    BY <1>4, <1>5
  <2>2. cy + Height * m2 = m1
    <3>1. Height * m2 \in Nat
      BY Sizes
    <3>2. QED
      BY <1>3, <3>1
  <2>3. cx + Columns * m1 = a
    <3>1. Columns * m1 \in Nat
      BY Sizes
    <3>2. QED
      BY <1>2, <3>1
  <2>4. QED
    BY <2>1, <2>2, <2>3 DEF Address
<1>7. /\ FineY(a) = f /\ NameY(a) = ny /\ NameX(a) = nx /\ CoarseY(a) = cy /\ CoarseX(a) = cx
      /\ a = Table * f + p * (2 * ny + nx) + Columns * cy + cx
  BY <1>6, FieldsOf, SMTT(30)
<1>8. f <= 7
  <2> SUFFICES ASSUME f >= 8 PROVE FALSE
    OBVIOUS
  <2>1. PICK d \in Nat : f = 8 + d
    <3>1. f - 8 \in Nat /\ f = 8 + (f - 8)
      OBVIOUS
    <3>2. QED
      BY <3>1
  <2>2. Table * f = 8 * Table + Table * d
    BY <2>1, Sizes
  <2>3. Table * d \in Nat /\ p * (2 * ny + nx) \in Nat /\ Columns * cy \in Nat
    BY Sizes
  <2>4. QED
    BY <1>1, <1>7, <2>2, <2>3, Sizes
<1>9. QED
  BY <1>6, <1>7, <1>8

(* What the increments do to the fields.                                   *)
LEMMA IncrementXOf ==
  ASSUME NEW f \in Nat, NEW ny \in 0..1, NEW nx \in 0..1,
         NEW cy \in 0..Height - 1, NEW cx \in 0..Columns - 1
  PROVE  IncrementX(Address(f, ny, nx, cy, cx))
           = IF cx = Columns - 1 THEN Address(f, ny, 1 - nx, cy, 0)
             ELSE Address(f, ny, nx, cy, cx + 1)
<1> DEFINE a == Address(f, ny, nx, cy, cx)
<1>1. /\ a \in Nat /\ FineY(a) = f /\ NameY(a) = ny /\ NameX(a) = nx
      /\ CoarseY(a) = cy /\ CoarseX(a) = cx
  BY FieldsAre, SMTT(30)
<1>2. cx # Columns - 1 => Address(f, ny, nx, cy, cx + 1) = a + 1
  <2> DEFINE m == Columns * (cy + (Height * (nx + (2 * (ny + (2 * f))))))
  <2>1. m \in Nat
    <3>1. PICK m2 \in Nat : m2 = nx + (2 * (ny + (2 * f)))
      OBVIOUS
    <3>2. PICK m1 \in Nat : m1 = cy + (Height * m2)
      <4>1. Height * m2 \in Nat
        BY Sizes
      <4>2. QED
        BY <4>1
    <3>3. Columns * m1 \in Nat
      BY Sizes
    <3>4. QED
      BY <3>1, <3>2, <3>3
  <2> HIDE DEF m
  <2>2. cx + m \in Nat /\ (cx + 1) + m = (cx + m) + 1
    BY <2>1
  <2>3. QED
    BY <2>2 DEF Address, m
<1>3. QED
  BY <1>1, <1>2 DEF IncrementX

LEMMA IncrementYOf ==
  ASSUME NEW f \in 0..7, NEW ny \in 0..1, NEW nx \in 0..1,
         NEW cy \in 0..Height - 1, NEW cx \in 0..Columns - 1
  PROVE  IncrementY(Address(f, ny, nx, cy, cx))
           = CASE f < 7                -> Address(f + 1, ny, nx, cy, cx)
               [] f = 7 /\ cy = Rows - 1 -> Address(0, 1 - ny, nx, 0, cx)
               [] f = 7 /\ cy # Rows - 1 ->
                    Address(0, ny, nx, IF cy = Height - 1 THEN 0 ELSE cy + 1, cx)
<1> DEFINE a == Address(f, ny, nx, cy, cx)
<1>1. /\ a \in Nat /\ FineY(a) = f /\ NameY(a) = ny /\ NameX(a) = nx
      /\ CoarseY(a) = cy /\ CoarseX(a) = cx
  BY FieldsAre, SMTT(30)
<1>2. f < 7 => Address(f + 1, ny, nx, cy, cx) = a + Table
  <2> SUFFICES ASSUME f < 7 PROVE Address(f + 1, ny, nx, cy, cx) = a + Table
    OBVIOUS
  <2>1. /\ Address(f + 1, ny, nx, cy, cx)
             = Table * (f + 1) + (Columns * Height) * (2 * ny + nx) + Columns * cy + cx
        /\ a = Table * f + (Columns * Height) * (2 * ny + nx) + Columns * cy + cx
    BY FieldsSum
  <2>2. Table * (f + 1) = Table * f + Table
    BY Sizes
  <2>3. PICK p \in Nat, q \in Nat, r \in Nat :
          p = Table * f /\ q = (Columns * Height) * (2 * ny + nx) /\ r = Columns * cy
    BY Sizes
  <2>4. Table * (f + 1) = p + Table
    BY <2>2, <2>3
  <2>5. Address(f + 1, ny, nx, cy, cx) = (p + Table) + q + r + cx /\ a = p + q + r + cx
    BY <2>1, <2>3, <2>4
  <2>6. QED
    BY <2>3, <2>5, Sizes
<1>3. f = 7 => (cy + 1) % Height = IF cy = Height - 1 THEN 0 ELSE cy + 1
  <2>1. CASE cy = Height - 1
    <3>1. Height = Height * 1 + 0
      BY Sizes
    <3>2. Height % Height = 0
      BY <3>1, Sizes, Quotient
    <3>3. QED
      BY <2>1, <3>2, Sizes
  <2>2. CASE cy # Height - 1
    <3>1. Height * 0 + (cy + 1) = cy + 1 /\ cy + 1 \in 0..Height - 1
      BY <2>2, Sizes
    <3>2. (cy + 1) % Height = cy + 1
      BY <3>1, Sizes, Quotient
    <3>3. QED
      BY <2>2, <3>2
  <2>3. QED
    BY <2>1, <2>2
<1>4. CASE f < 7
  BY <1>1, <1>2, <1>4 DEF IncrementY
<1>5. CASE f = 7 /\ cy = Rows - 1
  BY <1>1, <1>5 DEF IncrementY
<1>6. CASE f = 7 /\ cy # Rows - 1
  BY <1>1, <1>3, <1>6 DEF IncrementY
<1>7. QED
  BY <1>4, <1>5, <1>6

(* Increments and transfers stay among the addresses.                      *)
LEMMA IncrementTypes ==
  ASSUME NEW a \in Addresses
  PROVE  IncrementX(a) \in Addresses /\ IncrementY(a) \in Addresses
<1>1. PICK f \in 0..7, ny \in 0..1, nx \in 0..1, cy \in 0..Height - 1, cx \in 0..Columns - 1 :
        a = Address(f, ny, nx, cy, cx)
  BY FieldRanges
<1>2. IncrementX(a) \in Addresses
  <2>1. CASE cx = Columns - 1
    BY <1>1, <2>1, IncrementXOf, AddressType, Sizes
  <2>2. CASE cx # Columns - 1
    <3>1. cx + 1 \in 0..Columns - 1
      BY <2>2, Sizes
    <3>2. QED
      BY <1>1, <2>2, <3>1, IncrementXOf, AddressType
  <2>3. QED
    BY <2>1, <2>2
<1>3. IncrementY(a) \in Addresses
  <2>1. CASE f < 7
    <3>1. f + 1 \in 0..7
      BY <2>1
    <3>2. IncrementY(a) = Address(f + 1, ny, nx, cy, cx)
      BY <1>1, <2>1, IncrementYOf
    <3>3. QED
      BY <3>1, <3>2, AddressType
  <2>2. CASE f = 7 /\ cy = Rows - 1
    <3>1. IncrementY(a) = Address(0, 1 - ny, nx, 0, cx)
      BY <1>1, <2>2, IncrementYOf
    <3>2. QED
      BY <3>1, AddressType, Sizes
  <2>3. CASE f = 7 /\ cy # Rows - 1
    <3>1. PICK y \in 0..Height - 1 : y = IF cy = Height - 1 THEN 0 ELSE cy + 1
      BY Sizes
    <3>2. IncrementY(a) = Address(0, ny, nx, y, cx)
      BY <1>1, <2>3, <3>1, IncrementYOf
    <3>3. QED
      BY <3>2, AddressType
  <2>4. QED
    BY <2>1, <2>2, <2>3
<1>4. QED
  BY <1>2, <1>3

LEMMA TransferTypes ==
  ASSUME NEW a \in Addresses, NEW from \in Addresses
  PROVE  TransferX(a, from) \in Addresses /\ TransferY(a, from) \in Addresses
BY FieldRanges, AddressType DEF TransferX, TransferY

-----------------------------------------------------------------------------
(* Shifts of the registers.                                                *)
LEMMA ShiftThree ==
  ASSUME NEW S, NEW a \in S, NEW b \in S, NEW c \in S, NEW x \in S, NEW s, s = <<a, b, c>>
  PROVE  Head(s) = a /\ Append(Tail(s), x) = <<b, c, x>>
<1>1. s \in Seq(S) /\ Len(s) = 3 /\ s[1] = a /\ s[2] = b /\ s[3] = c
  OBVIOUS
<1>2. PICK r \in Seq(S) : r = Tail(s) /\ Len(r) = 2 /\ r[1] = b /\ r[2] = c
  <2>1. s # << >>
    BY <1>1
  <2>2. Tail(s) \in Seq(S) /\ Len(Tail(s)) = 2 /\ \A i \in 1..2 : Tail(s)[i] = s[i + 1]
    BY <1>1, <2>1, HeadTailProperties
  <2>3. Tail(s)[1] = s[2] /\ Tail(s)[2] = s[3]
    BY <2>2
  <2>4. QED
    BY <1>1, <2>2, <2>3
<1>3. Append(r, x) = <<b, c, x>>
  <2>1. Append(r, x) \in Seq(S) /\ Len(Append(r, x)) = 3 /\ Append(r, x)[3] = x
        /\ \A i \in 1..2 : Append(r, x)[i] = r[i]
    BY <1>2, AppendProperties
  <2>2. <<b, c, x>> \in Seq(S) /\ Len(<<b, c, x>>) = 3
    OBVIOUS
  <2>3. \A i \in 1..3 : Append(r, x)[i] = <<b, c, x>>[i]
    BY <1>2, <2>1
  <2>4. QED
    BY <2>1, <2>2, <2>3, SeqEqual
<1>4. QED
  BY <1>1, <1>2, <1>3
LEMMA ShiftFour ==
  ASSUME NEW S, NEW a \in S, NEW b \in S, NEW c \in S, NEW d \in S, NEW x \in S,
         NEW s, s = <<a, b, c, d>>
  PROVE  Head(s) = a /\ Append(Tail(s), x) = <<b, c, d, x>>
<1>1. s \in Seq(S) /\ Len(s) = 4 /\ s[1] = a /\ s[2] = b /\ s[3] = c /\ s[4] = d
  OBVIOUS
<1>2. PICK r \in Seq(S) : r = Tail(s) /\ Len(r) = 3 /\ r[1] = b /\ r[2] = c /\ r[3] = d
  <2>1. s # << >>
    BY <1>1
  <2>2. Tail(s) \in Seq(S) /\ Len(Tail(s)) = 3 /\ \A i \in 1..3 : Tail(s)[i] = s[i + 1]
    BY <1>1, <2>1, HeadTailProperties
  <2>3. Tail(s)[1] = s[2] /\ Tail(s)[2] = s[3] /\ Tail(s)[3] = s[4]
    BY <2>2
  <2>4. QED
    BY <1>1, <2>2, <2>3
<1>3. Append(r, x) = <<b, c, d, x>>
  <2>1. Append(r, x) \in Seq(S) /\ Len(Append(r, x)) = 4 /\ Append(r, x)[4] = x
        /\ \A i \in 1..3 : Append(r, x)[i] = r[i]
    BY <1>2, AppendProperties
  <2>2. <<b, c, d, x>> \in Seq(S) /\ Len(<<b, c, d, x>>) = 4
    OBVIOUS
  <2>3. \A i \in 1..4 : Append(r, x)[i] = <<b, c, d, x>>[i]
    BY <1>2, <2>1
  <2>4. QED
    BY <2>1, <2>2, <2>3, SeqEqual
<1>4. QED
  BY <1>1, <1>2, <1>3

-----------------------------------------------------------------------------
(* Folds.                                                                  *)
LEMMA LeastNumber ==
  ASSUME NEW T, T \subseteq Nat, T # {}
  PROVE  \E x \in T : \A y \in T : x <= y
<1> DEFINE R == OpToRel(<, Nat)
<1>1. IsWellFoundedOn(R, Nat)
  BY NatLessThanWellFounded
<1> HIDE DEF R
<1>2. PICK x \in T : \A y \in T : <<y, x>> \notin R
  BY <1>1, WFMin, Zenon
<1>3. \A y \in T : <<y, x>> \notin R <=> ~(y < x)
  BY DEF R, OpToRel
<1>4. ASSUME NEW y \in T PROVE x <= y
  <2>1. ~(y < x) /\ x \in Nat /\ y \in Nat
    BY <1>2, <1>3
  <2>2. QED
    BY <2>1
<1>5. QED
  BY <1>4

(* The greatest member of a set of naturals.                               *)
LEMMA MaxIs ==
  ASSUME NEW s, s \subseteq Nat, NEW m \in s, \A y \in s : y <= m
  PROVE  Max(s) = m
<1>1. Max(s) \in s /\ \A y \in s : Max(s) >= y
  <2>1. \E x \in s : \A y \in s : x >= y
    OBVIOUS
  <2>2. QED
    BY <2>1 DEF Max
<1>2. PICK x : x = Max(s)
  OBVIOUS
<1>3. x \in Nat /\ m \in Nat /\ x >= m /\ x <= m
  BY <1>1, <1>2
<1>4. QED
  BY <1>2, <1>3

LEMMA MaxIn ==
  ASSUME NEW n \in Nat, NEW s, s \subseteq 1..n, s # {}
  PROVE  Max(s) \in s /\ \A y \in s : y <= Max(s)
<1> DEFINE T == {n - y : y \in s}
<1>1. T \subseteq Nat /\ T # {}
  <2>1. \A x \in s : n - x \in Nat /\ n - x \in T
    OBVIOUS
  <2>2. QED
    BY <2>1
<1>2. PICK d \in T : \A u \in T : d <= u
  BY <1>1, LeastNumber
<1>3. PICK m \in s : d = n - m
  OBVIOUS
<1>4. \A y \in s : y <= m
  <2>1. \A y \in s : n - m <= n - y
    BY <1>2, <1>3
  <2>2. QED
    BY <2>1
<1>5. Max(s) = m
  <2>1. s \subseteq Nat
    OBVIOUS
  <2>2. QED
    BY <1>4, <2>1, MaxIs
<1>6. QED
  BY <1>4, <1>5

(* The fold of a sequence of n events, a function of subsets of its        *)
(* indices.                                                                *)
Folds(F, b, events, n) ==
  F = [s \in SUBSET (1..n) |->
         IF s = {} THEN b ELSE Sees(F[s \ {Max(s)}], events[Max(s)])]

(* The fold of no event.                                                   *)
LEMMA FoldsFromNone ==
  ASSUME NEW b, NEW events
  PROVE  \E F : Folds(F, b, events, 0)
<1> DEFINE F == [s \in SUBSET (1..0) |-> b]
<1>1. \A s \in SUBSET (1..0) : s = {}
  OBVIOUS
<1>2. F = [s \in SUBSET (1..0) |->
             IF s = {} THEN b ELSE Sees(F[s \ {Max(s)}], events[Max(s)])]
  BY <1>1
<1>3. QED
  BY <1>2 DEF Folds

(* A fold of k events is continued by one more.                            *)
LEMMA FoldsFurther ==
  ASSUME NEW b, NEW events, NEW n \in Nat, NEW F, Folds(F, b, events, n)
  PROVE  \E G : Folds(G, b, events, n + 1)
<1> DEFINE m == n + 1
           G == [s \in SUBSET (1..m) |->
                   IF m \in s THEN Sees(F[s \ {m}], events[m]) ELSE F[s]]
           Body(s) == IF s = {} THEN b ELSE Sees(G[s \ {Max(s)}], events[Max(s)])
<1>1. ASSUME NEW s \in SUBSET (1..m) PROVE G[s] = Body(s)
  <2>1. CASE s = {}
    <3>1. G[s] = F[{}] /\ {} \in SUBSET (1..n)
      BY <2>1
    <3>2. F[{}] = b
      BY <3>1 DEF Folds
    <3>3. QED
      BY <2>1, <3>1, <3>2
  <2>2. CASE m \in s
    <3>1. Max(s) = m
      <4>1. s \subseteq Nat /\ \A y \in s : y <= m
        OBVIOUS
      <4>2. QED
        BY <2>2, <4>1, MaxIs
    <3>2. s \ {m} \in SUBSET (1..n) /\ s \ {m} \in SUBSET (1..m) /\ m \notin s \ {m}
      OBVIOUS
    <3>3. G[s \ {m}] = F[s \ {m}]
      BY <3>2
    <3>4. G[s] = Sees(F[s \ {m}], events[m])
      BY <2>2
    <3>5. QED
      BY <2>2, <3>1, <3>3, <3>4
  <2>3. CASE s # {} /\ m \notin s
    <3>1. s \in SUBSET (1..n)
      BY <2>3
    <3>2. Max(s) \in s
      BY <2>3, <3>1, MaxIn
    <3>3. s \ {Max(s)} \in SUBSET (1..m) /\ m \notin s \ {Max(s)}
      BY <2>3
    <3>4. G[s \ {Max(s)}] = F[s \ {Max(s)}] /\ G[s] = F[s]
      BY <2>3, <3>3
    <3>5. F[s] = Sees(F[s \ {Max(s)}], events[Max(s)])
      BY <2>3, <3>1 DEF Folds
    <3>6. QED
      BY <2>3, <3>4, <3>5
  <2>4. QED
    BY <2>1, <2>2, <2>3
<1>2. G = [s \in SUBSET (1..m) |-> G[s]]
  OBVIOUS
<1> HIDE DEF G
<1>3. G = [s \in SUBSET (1..m) |-> Body(s)]
  BY <1>1, <1>2, Zenon
<1>4. QED
  BY <1>3 DEF Folds

(* A fold of events exists, however many there are.                        *)
LEMMA FoldsExist ==
  ASSUME NEW b, NEW events, NEW n \in Nat
  PROVE  \E F : Folds(F, b, events, n)
<1> DEFINE T == {k \in Nat : ~ \E F : Folds(F, b, events, k)}
<1> SUFFICES ASSUME T # {} PROVE FALSE
  OBVIOUS
<1>1. T \subseteq Nat
  OBVIOUS
<1>2. PICK k \in T : \A y \in T : k <= y
  BY <1>1, LeastNumber
<1>3. CASE k = 0
  BY <1>2, <1>3, FoldsFromNone
<1>4. CASE k # 0
  <2>1. k - 1 \in Nat /\ k - 1 \notin T /\ (k - 1) + 1 = k
    BY <1>2, <1>4
  <2>2. PICK F : Folds(F, b, events, k - 1)
    BY <2>1
  <2>3. \E G : Folds(G, b, events, (k - 1) + 1)
    BY <2>1, <2>2, FoldsFurther
  <2>4. QED
    BY <1>2, <2>1, <2>3
<1>5. QED
  BY <1>3, <1>4

(* What the boards have seen after each event.                             *)
LEMMA SeenSteps ==
  ASSUME NEW b, NEW S, NEW events \in Seq(S)
  PROVE  \E h : /\ h[0] = b /\ Seen(b, events) = h[Len(events)]
                /\ \A k \in 0..Len(events) - 1 : h[k + 1] = Sees(h[k], events[k + 1])
<1> DEFINE n == Len(events)
<1>0. n \in Nat /\ DOMAIN events = 1..n
  OBVIOUS
<1> HIDE DEF n
<1>1. PICK F : F = CHOOSE G : G = [s \in SUBSET DOMAIN events |->
                 IF s = {} THEN b ELSE Sees(G[s \ {Max(s)}], events[Max(s)])]
  OBVIOUS
<1>2. Seen(b, events) = F[1..n]
  BY <1>0, <1>1 DEF Seen, FoldLeft, MapThenFoldSet
<1>3. Folds(F, b, events, n)
  <2>1. \E G : Folds(G, b, events, n)
    BY <1>0, FoldsExist
  <2>2. QED
    BY <1>0, <1>1, <2>1 DEF Folds
<1> DEFINE h == [k \in 0..n |-> F[1..k]]
<1>4. h[0] = b
  <2>1. 1..0 = {} /\ {} \in SUBSET (1..n) /\ 0 \in 0..n
    BY <1>0
  <2>2. F[{}] = b
    BY <1>3, <2>1 DEF Folds
  <2>3. QED
    BY <2>1, <2>2
<1>5. h[n] = F[1..n]
  BY <1>0
<1>6. ASSUME NEW k \in 0..n - 1 PROVE h[k + 1] = Sees(h[k], events[k + 1])
  <2> DEFINE s == 1..k + 1
  <2>1. s \in SUBSET (1..n) /\ s # {} /\ k + 1 \in s /\ k + 1 \in 0..n /\ k \in 0..n
    BY <1>0
  <2>2. Max(s) = k + 1
    <3>1. s \subseteq Nat /\ \A y \in s : y <= k + 1
      BY <1>0
    <3>2. QED
      BY <2>1, <3>1, MaxIs
  <2>3. s \ {k + 1} = 1..k
    BY <1>0
  <2>4. F[s] = Sees(F[s \ {Max(s)}], events[Max(s)])
    BY <1>3, <2>1 DEF Folds
  <2>5. h[k + 1] = F[s] /\ h[k] = F[1..k]
    BY <2>1
  <2>6. QED
    BY <2>2, <2>3, <2>4, <2>5
<1> HIDE DEF h
<1>7. QED
  BY <1>2, <1>4, <1>5, <1>6 DEF n

(* Two cases of it.                                                        *)
LEMMA SeenNone ==
  ASSUME NEW b
  PROVE  Seen(b, << >>) = b
<1>1. PICK events \in Seq({}) : events = << >> /\ Len(events) = 0
  <2>1. << >> \in Seq({}) /\ Len(<< >>) = 0
    OBVIOUS
  <2>2. QED
    BY <2>1, Zenon
<1>2. PICK h : h[0] = b /\ Seen(b, events) = h[Len(events)]
  BY SeenSteps
<1>3. QED
  BY <1>1, <1>2

LEMMA SeenOne ==
  ASSUME NEW b, NEW e
  PROVE  Seen(b, <<e>>) = Sees(b, e)
<1>1. PICK events \in Seq({e}) : events = <<e>> /\ Len(events) = 1 /\ events[1] = e
  <2>1. <<e>> \in Seq({e}) /\ Len(<<e>>) = 1 /\ <<e>>[1] = e
    OBVIOUS
  <2>2. QED
    BY <2>1, Zenon
<1>2. PICK h : /\ h[0] = b /\ Seen(b, events) = h[Len(events)]
               /\ \A k \in 0..Len(events) - 1 : h[k + 1] = Sees(h[k], events[k + 1])
  BY SeenSteps
<1>3. h[1] = Sees(h[0], events[1])
  <2>1. 0 \in 0..Len(events) - 1 /\ 0 + 1 = 1
    BY <1>1
  <2>2. QED
    BY <1>2, <2>1
<1>4. QED
  BY <1>1, <1>2, <1>3

(* What holds after each event holds after all of them.                    *)
LEMMA SeenType ==
  ASSUME NEW V, NEW E, NEW b \in V, NEW events \in Seq(E),
         \A x \in V, e \in E : Sees(x, e) \in V
  PROVE  Seen(b, events) \in V
<1> DEFINE n == Len(events)
<1>0. n \in Nat /\ \A k \in 1..n : events[k] \in E
  OBVIOUS
<1> HIDE DEF n
<1>1. PICK h : /\ h[0] = b /\ Seen(b, events) = h[n]
               /\ \A k \in 0..n - 1 : h[k + 1] = Sees(h[k], events[k + 1])
  BY SeenSteps DEF n
<1> DEFINE T == {k \in 0..n : h[k] \notin V}
<1>2. T = {}
  <2> SUFFICES ASSUME T # {} PROVE FALSE
    OBVIOUS
  <2>1. T \subseteq Nat
    BY <1>0
  <2>2. PICK k \in T : \A y \in T : k <= y
    BY <2>1, LeastNumber
  <2>3. k # 0
    BY <1>1, <2>2
  <2>4. k - 1 \in 0..n - 1 /\ k - 1 \in 0..n /\ k - 1 \notin T /\ (k - 1) + 1 = k /\ k \in 1..n
    BY <1>0, <2>2, <2>3
  <2>5. h[k] = Sees(h[k - 1], events[k])
    BY <1>1, <2>4
  <2>6. h[k - 1] \in V /\ events[k] \in E
    BY <1>0, <2>4
  <2>7. QED
    BY <2>2, <2>5, <2>6
<1>3. QED
  BY <1>0, <1>1, <1>2

(* The pin of a filter whose bit has been low for k dots, and the filters  *)
(* there are.                                                              *)
LowFor(k) ==
  IF k < LowDots THEN [current |-> FALSE, target |-> TRUE, countdown |-> LowDots - k]
  ELSE PinOf(TRUE)
Low(k) == [level |-> FALSE, low |-> LowFor(k)]
High   == [level |-> TRUE, low |-> PinOf(FALSE)]
Filters == {High} \cup {Low(k) : k \in Nat}

LineCounters ==
  [lastPpuAddress : Nat \cup {NoAddress}, repeatedAddress : 0..3, scanlinePending : BOOLEAN,
   inFrame : BOOLEAN, irqCounter : 0..255, irqPending : BOOLEAN,
   readThisCycle : BOOLEAN, idleCpuCycles : 0..3]

Accesses == [addr : 0..Bus - 1, drives : BOOLEAN, reads : BOOLEAN]
Views    == [a12 : Filters, rises : Nat, mmc5 : LineCounters]

BusAddress == 0..Bus - 1
Maybe(S)   == S \cup {NoAddress}

Types ==
  /\ scanline \in 0..PreRender /\ cycle \in 0..LastDot /\ third \in 0..2
  /\ frameOdd \in BOOLEAN /\ oddFrameSkip \in PinsUpTo(BOOLEAN, 3)
  /\ carry \in Maybe(Names..Names + Table - 1)
  /\ ctrl \in Ctrls
  /\ mask \in BOOLEAN /\ enabling \in BOOLEAN \X BOOLEAN \X BOOLEAN \X BOOLEAN
  /\ rendering \in BOOLEAN
  /\ v \in Addresses /\ t \in Addresses /\ addressLatch \in 0..1
  /\ addrPending \in BOOLEAN
  /\ addrWrite \in Maybe(Addresses) \X Maybe(Addresses) \X Maybe(Addresses)
  /\ readPending \in Maybe(BusAddress)
  /\ dataRead \in Maybe(BusAddress) \X Maybe(BusAddress) \X Maybe(BusAddress) \X Maybe(BusAddress)
  /\ addressLow \in 0..Page - 1 /\ tablePatternBg \in 0..1
  /\ irqTarget \in IrqTargets
  /\ a12 \in Filters /\ mmc5 \in LineCounters /\ rises \in Nat
  /\ rest \in 0..Spacing /\ changes \in Nat
  /\ origin \in Addresses /\ undisturbed \in BOOLEAN
  /\ calm \in 0..2 /\ held \in BOOLEAN
  /\ top \in {NoLine} \cup 0..Lines - 1 /\ steady \in BOOLEAN

(* What is on its way, by the time since the access that sent it.          *)
InFlight ==
  /\ addrPending => rest = Spacing
  /\ addrWrite[3] # NoAddress => rest = Spacing - 1
  /\ addrWrite[2] # NoAddress => rest = Spacing - 2
  /\ addrWrite[1] # NoAddress => rest = Spacing - 3
  /\ readPending # NoAddress => rest = Spacing
  /\ dataRead[4] # NoAddress => rest = Spacing - 1
  /\ dataRead[3] # NoAddress => rest = Spacing - 2
  /\ dataRead[2] # NoAddress => rest = Spacing - 3
  /\ dataRead[1] # NoAddress => rest = Spacing - 4

WriteOnItsWay == addrPending \/ \E i \in 1..3 : addrWrite[i] # NoAddress
ReadOnItsWay  == readPending # NoAddress \/ \E i \in 1..4 : dataRead[i] # NoAddress

(* Where the address will be when all on its way has arrived, and what the *)
(* buffer will be of.                                                      *)
IdealInv ==
  /\ ideal \in [address : Addresses \cup {Unknown}, buffer : BusAddress \cup {Unknown}]
  /\ buffer \in BusAddress \cup {Unknown}
  /\ ~(WriteOnItsWay /\ ReadOnItsWay)
  /\ ideal.address # Unknown =>
       /\ addrPending => t = ideal.address
       /\ \A i \in 1..3 : addrWrite[i] # NoAddress => addrWrite[i] = ideal.address
       /\ ReadOnItsWay => Stepped(v, FALSE) = ideal.address
       /\ ~WriteOnItsWay /\ ~ReadOnItsWay => v = ideal.address
  /\ ideal.buffer # Unknown =>
       /\ readPending # NoAddress => readPending = ideal.buffer
       /\ \A i \in 1..4 : dataRead[i] # NoAddress => dataRead[i] = ideal.buffer
       /\ ~ReadOnItsWay => buffer = ideal.buffer

(* Which tile a dot is of, since calm began. *)
Phase(k) == (cycle - k) % 8
B == ctrl.background
Settled == calm = 2 \/ (calm = 1 /\ cycle = 0)

(* The filter in a line with the background in the low table and the       *)
(* sprites in the high one.                                                *)
LowBackground ==
  B = 0 /\ ctrl.sprite = 1 =>
    /\ calm > 0 /\ cycle \in 2..TilesEnd + 5 =>
         \E k \in Nat : k >= cycle - 2 /\ a12 = Low(k)
    /\ calm > 0 /\ cycle \in TilesEnd + 2..TilesEnd + 5 => rises = 0
    /\ calm > 0 /\ cycle \in TilesEnd + 6..SpritesEnd + 1 =>
         a12 = IF Phase(TilesEnd + 2) > 3 THEN High ELSE Low(Phase(TilesEnd + 2))
    /\ (calm > 0 /\ cycle \in SpritesEnd + 2..LastDot) \/ (Settled /\ cycle \in 0..TilesEnd + 5) =>
         \E k \in Nat : a12 = Low(k)
    /\ (calm > 0 /\ cycle \in TilesEnd + 6..LastDot) \/ (Settled /\ cycle \in 0..TilesEnd + 1) =>
         rises = 1

(* And with the background in the high table and the sprites in the low.   *)
HighBackground ==
  B = 1 /\ ctrl.sprite = 0 =>
    /\ calm > 0 /\ cycle \in 6..TilesEnd + 1 =>
         a12 = IF Phase(2) > 3 THEN High
               ELSE Low(Phase(2))
    /\ calm > 0 /\ cycle \in TilesEnd + 2..SpritesEnd + 5 => a12 = Low(cycle - TilesEnd - 2) /\ rises = 0
    /\ calm > 0 /\ cycle \in SpritesEnd + 6..PrefetchEnd + 1 =>
         a12 = IF Phase(SpritesEnd + 2) > 3 THEN High ELSE Low(Phase(SpritesEnd + 2))
    /\ calm > 0 /\ cycle \in PrefetchEnd + 2..LastDot => a12 = Low(cycle - PrefetchEnd - 2)
    /\ Settled /\ cycle \in 0..5 =>
         \E k \in 0..cycle + 3 : a12 = Low(k)
    /\ (calm > 0 /\ cycle \in SpritesEnd + 6..LastDot) \/ (Settled /\ cycle \in 0..TilesEnd + 1) =>
         rises = 1

CarryInv == carry # NoAddress => cycle = 0
CalmInv ==
  /\ calm > 0 /\ cycle >= 6 => tablePatternBg = B

-----------------------------------------------------------------------------
(* Sizes and types.                                                        *)
LEMMA BusSizes ==
  /\ Page \in Nat /\ Page > 0 /\ Table = 16 * Page /\ Names = 2 * Table /\ Bus = 4 * Table
  /\ Table \in Nat /\ Table > 0 /\ Bus \in Nat /\ Bus > 0
<1>1. Page \in Int /\ Page > 0 /\ Table = 16 * Page
  BY Sizes, SizeAssumption DEF SizeAssumption, Page
<1>2. QED
  BY <1>1, Sizes DEF Names, Bus

(* Where the parts of a line begin.                                        *)
LEMMA DotSizes ==
  /\ TilesEnd = 8 * Columns /\ SpritesEnd = TilesEnd + 8 * Slots
  /\ PrefetchEnd = SpritesEnd + 16 /\ LastDot = PrefetchEnd + 4
  /\ Columns \in Nat /\ Columns >= 2 /\ Slots \in Nat /\ Slots >= 1
  /\ Lines \in Nat /\ Lines >= 1 /\ VBlankLines \in Nat /\ VBlankLines >= 1
  /\ PreRender = Lines + VBlankLines
  /\ TilesEnd \in Nat /\ SpritesEnd \in Nat /\ PrefetchEnd \in Nat /\ LastDot \in Nat
BY SizeAssumption DEF SizeAssumption, TilesEnd, SpritesEnd, PrefetchEnd, LastDot, PreRender

(* Names and attributes are read from the name tables.                     *)
LEMMA NameOfRange ==
  ASSUME NEW a \in Addresses
  PROVE  NameOf(a) \in Names..Names + Table - 1
<1>1. a % Table \in 0..Table - 1
  BY BusSizes DEF Addresses
<1>2. QED
  BY <1>1, BusSizes DEF NameOf

LEMMA AttributeRange ==
  ASSUME NEW a \in Addresses
  PROVE  AttributeOf(a) \in Names..Names + Table - 1
<1> DEFINE p == Columns * Height
           cy == CoarseY(a)
           cx == CoarseX(a)
           q == cy \div 4
           r == (Height - 1) \div 4
           s == Columns \div 4
<1>1. NameX(a) \in 0..1 /\ NameY(a) \in 0..1 /\ cy \in 0..Height - 1 /\ cx \in 0..Columns - 1
  BY FieldRanges
<1>2. q \in Nat /\ r \in Nat /\ s \in Nat /\ q <= r
  BY <1>1, Sizes
<1>3. q * s <= r * s /\ q * s \in Nat
  <2>1. PICK d \in Nat : r = q + d
    <3>1. r - q \in Nat /\ r = q + (r - q)
      BY <1>2
    <3>2. QED
      BY <3>1
  <2>2. r * s = q * s + d * s /\ d * s \in Nat /\ q * s \in Nat /\ r * s \in Nat
    BY <1>2, <2>1
  <2>3. QED
    BY <2>2
<1>4. cx \div 4 \in Nat /\ cx \div 4 <= (Columns - 1) \div 4
  BY <1>1, Sizes
<1>5. Columns * Rows \in Nat
  BY Sizes
<1>6. PICK rest1 \in Nat : rest1 = (Columns * Rows) + q * s + (cx \div 4) /\ rest1 < p
  <2>1. Columns * Rows + r * s + ((Columns - 1) \div 4) < p
    BY AttributeAssumption DEF AttributeAssumption
  <2>2. PICK x \in Nat, y \in Nat, z \in Nat, w \in Nat :
           x = q * s /\ y = r * s /\ z = Columns * Rows /\ w = (Columns - 1) \div 4
    BY <1>2, <1>3, <1>5, Sizes
  <2>3. PICK u \in Nat : u = cx \div 4 /\ u <= w
    BY <1>4, <2>2
  <2>4. z + y + w < p /\ x <= y
    BY <1>3, <2>1, <2>2
  <2>5. z + x + u \in Nat /\ z + x + u < p
    BY <2>3, <2>4, Sizes
  <2>6. z + x + u = (Columns * Rows) + q * s + (cx \div 4)
    BY <2>2, <2>3
  <2>7. QED
    BY <2>5, <2>6
<1>7. AttributeOf(a) = Names + p * (NameX(a) + 2 * NameY(a)) + rest1
  <2>1. PICK g \in Nat : g = p * (NameX(a) + 2 * NameY(a))
    BY <1>1, Sizes
  <2>2. PICK x \in Nat, u \in Nat, z \in Nat : x = q * s /\ u = cx \div 4 /\ z = Columns * Rows
    BY <1>3, <1>4, <1>5
  <2>3. AttributeOf(a) = Names + g + z + x + u
    BY <2>1, <2>2 DEF AttributeOf
  <2>4. rest1 = z + x + u
    BY <1>6, <2>2
  <2>5. QED
    BY <2>1, <2>3, <2>4, BusSizes
<1>8. p * (NameX(a) + 2 * NameY(a)) \in 0..3 * p
  <2>1. NameX(a) + 2 * NameY(a) \in {0, 1, 2, 3}
    BY <1>1
  <2>2. QED
    BY <2>1, Sizes
<1>9. QED
  BY <1>6, <1>7, <1>8, Sizes, BusSizes

(* A level is the table an address is in.                                  *)
LEMMA NameLevel ==
  ASSUME NEW a \in Names..Names + Table - 1
  PROVE  ~Level(a) /\ a % Bus = a
<1>1. PICK r \in 0..Table - 1 : a = Table * 2 + r
  <2>1. a - 2 * Table \in 0..Table - 1 /\ a = Table * 2 + (a - 2 * Table)
    BY BusSizes
  <2>2. QED
    BY <2>1
<1>2. a \div Table = 2
  BY <1>1, BusSizes, Quotient
<1>3. a \in 0..Bus - 1 /\ a = Bus * 0 + a
  BY BusSizes
<1>4. a % Bus = a
  BY <1>3, BusSizes, Quotient
<1>5. QED
  BY <1>2, <1>4 DEF Level

(* A pattern is read from the table its number says.                       *)
LEMMA PatternLevel ==
  ASSUME NEW n \in 0..1
  PROVE  /\ Table * n \in BusAddress /\ (Table * n) % Bus = Table * n
         /\ Level(Table * n) <=> n = 1
<1>1. Table * n \in 0..Bus - 1 /\ Table * n = Bus * 0 + Table * n
  BY BusSizes
<1>2. (Table * n) % Bus = Table * n
  BY <1>1, BusSizes, Quotient
<1>3. Table * n = Table * n + 0 /\ 0 \in 0..Table - 1
  BY BusSizes
<1>4. (Table * n) \div Table = n
  BY <1>3, BusSizes, Quotient
<1>5. QED
  BY <1>1, <1>2, <1>4 DEF Level, BusAddress

(* The latch of the low byte keeps an address in its table.                *)
LEMMA LatchedLevel ==
  ASSUME NEW a \in BusAddress, NEW low \in 0..Page - 1
  PROVE  LET b == (Page * (a \div Page)) + low
         IN b \in BusAddress /\ b % Bus = b /\ (Level(b) <=> Level(a))
<1> DEFINE b == (Page * (a \div Page)) + low
<1>0. a \in Nat /\ a < Bus
  BY BusSizes DEF BusAddress
<1>1. PICK q \in Nat, r \in 0..Page - 1 : a = Page * q + r /\ q = a \div Page
  <2>1. /\ a \div Page \in Nat /\ a % Page \in 0..Page - 1
        /\ a = Page * (a \div Page) + (a % Page)
    BY <1>0, BusSizes, Divides
  <2>2. QED
    BY <2>1
<1>2. b = Page * q + low
  BY <1>1
<1>3. PICK u \in Nat, w \in 0..15 : q = 16 * u + w
  <2>1. q = 16 * (q \div 16) + (q % 16) /\ q \div 16 \in Nat /\ q % 16 \in 0..15
    OBVIOUS
  <2>2. QED
    BY <2>1
<1>4. Page * q = Table * u + Page * w
  BY <1>3, BusSizes
<1>5. Page * w \in Nat /\ Page * w + Page <= Table
  <2>1. Page * w + Page <= Page * 16
    BY BusSizes, LessTimes
  <2>2. Page * w \in Nat
    BY BusSizes
  <2>3. QED
    BY <2>1, <2>2, BusSizes
<1>6. Table * u \in Nat
  BY BusSizes
<1>7. a = Table * u + (Page * w + r) /\ b = Table * u + (Page * w + low)
  BY <1>1, <1>2, <1>4, <1>5, <1>6
<1>8. Page * w + r \in 0..Table - 1 /\ Page * w + low \in 0..Table - 1
  BY <1>5, BusSizes
<1>9. a \div Table = u /\ b \div Table = u
  BY <1>7, <1>8, BusSizes, Quotient
<1>10. u <= 3
  <2> SUFFICES ASSUME 3 < u PROVE FALSE
    OBVIOUS
  <2>1. Table * 3 + Table <= Table * u
    BY BusSizes, LessTimes
  <2>2. QED
    BY <1>0, <1>7, <1>8, <2>1, <1>6, BusSizes
<1>11. Table * u <= 3 * Table
  <2>1. u \in {0, 1, 2, 3}
    BY <1>10
  <2>2. QED
    BY <2>1, BusSizes
<1>12. b \in 0..Bus - 1
  BY <1>6, <1>7, <1>8, <1>11, BusSizes
<1>13. b = Bus * 0 + b
  BY <1>12, BusSizes
<1>14. b % Bus = b
  BY <1>12, <1>13, BusSizes, Quotient
<1>15. QED
  BY <1>9, <1>12, <1>14 DEF Level, BusAddress

(* The pipelines are sequences of three and four.                          *)
LEMMA Registers ==
  ASSUME Types
  PROVE  /\ enabling = <<enabling[1], enabling[2], enabling[3], enabling[4]>>
         /\ \A i \in 1..4 : enabling[i] \in BOOLEAN
         /\ addrWrite = <<addrWrite[1], addrWrite[2], addrWrite[3]>>
         /\ \A i \in 1..3 : addrWrite[i] \in Maybe(Addresses)
         /\ dataRead = <<dataRead[1], dataRead[2], dataRead[3], dataRead[4]>>
         /\ \A i \in 1..4 : dataRead[i] \in Maybe(BusAddress)
BY DEF Types

(* A dot takes their first cell and puts one at their end.                 *)
LEMMA Shifts ==
  ASSUME Types
  PROVE  /\ On = enabling[1] /\ Head(addrWrite) = addrWrite[1] /\ Due = dataRead[1]
         /\ \A x \in BOOLEAN :
              Append(Tail(enabling), x) = <<enabling[2], enabling[3], enabling[4], x>>
         /\ \A x \in Maybe(Addresses) :
              Append(Tail(addrWrite), x) = <<addrWrite[2], addrWrite[3], x>>
         /\ \A x \in Maybe(BusAddress) :
              Append(Tail(dataRead), x) = <<dataRead[2], dataRead[3], dataRead[4], x>>
<1>1. /\ On = enabling[1]
      /\ \A x \in BOOLEAN :
           Append(Tail(enabling), x) = <<enabling[2], enabling[3], enabling[4], x>>
  BY Registers, ShiftFour DEF On
<1>2. /\ Head(addrWrite) = addrWrite[1]
      /\ \A x \in Maybe(Addresses) :
           Append(Tail(addrWrite), x) = <<addrWrite[2], addrWrite[3], x>>
  BY Registers, ShiftThree
<1>3. /\ Due = dataRead[1]
      /\ \A x \in Maybe(BusAddress) :
           Append(Tail(dataRead), x) = <<dataRead[2], dataRead[3], dataRead[4], x>>
  BY Registers, ShiftFour DEF Due
<1>4. QED
  BY <1>1, <1>2, <1>3

(* The marks of absence are no addresses.                                  *)
LEMMA NoAddressIsNone ==
  /\ NoAddress \notin Nat /\ NoAddress \notin Addresses /\ NoAddress \notin BusAddress
  /\ Unknown \notin Nat /\ Unknown # NoAddress /\ NoLine \notin Nat
BY BusSizes DEF NoAddress, Unknown, NoLine, Addresses, BusAddress

(* Types of what a dot computes from the state.                            *)
LEMMA ArrivedType ==
  ASSUME Types
  PROVE  Arrived \in Addresses
BY Registers, Shifts DEF Types, Arrived, Maybe

LEMMA CtrlType ==
  ASSUME Types
  PROVE  /\ ctrl.increment \in Nat /\ B \in 0..1 /\ ctrl.sprite \in 0..1 /\ ctrl.name \in 0..3
         /\ TableNow \in 0..1
<1>1. /\ ctrl.increment \in Nat /\ ctrl.background \in 0..1 /\ ctrl.sprite \in 0..1
      /\ ctrl.name \in 0..3
  BY InputAssumption DEF InputAssumption, Types
<1>2. TableNow \in {ctrl.sprite, ctrl.background, tablePatternBg}
  <2>1. CASE SpriteDot
    BY <2>1 DEF TableNow
  <2>2. CASE ~SpriteDot /\ TileDot /\ Eighth = 4
    BY <2>2 DEF TableNow
  <2>3. CASE ~SpriteDot /\ ~(TileDot /\ Eighth = 4)
    BY <2>3 DEF TableNow
  <2>4. QED
    BY <2>1, <2>2, <2>3
<1>3. tablePatternBg \in 0..1
  BY DEF Types
<1>4. QED
  BY <1>1, <1>2, <1>3 DEF B

LEMMA NameIsOnBus ==
  ASSUME NEW a \in Names..Names + Table - 1
  PROVE  a \in BusAddress /\ a % Bus = a /\ ~Level(a)
BY BusSizes, NameLevel DEF BusAddress

(* What a dot fetches: a byte of a name table, or of a pattern.            *)
LEMMA FetchedIs ==
  ASSUME Types
  PROVE  /\ Fetched \in BusAddress /\ Fetched % Bus = Fetched
         /\ NameDot \/ Eighth \in {2, 3} =>
              Fetched \in Names..Names + Table - 1 /\ ~Level(Fetched)
         /\ NameDot => Fetched = NameOf(Arrived)
         /\ ~NameDot /\ Eighth \in {2, 3} => Fetched = AttributeOf(Arrived)
         /\ ~NameDot /\ Eighth \notin {2, 3} =>
              Fetched = Table * TableNow /\ (Level(Fetched) <=> TableNow = 1)
<1>1. CASE NameDot
  <2>1. Fetched = NameOf(Arrived)
    BY <1>1 DEF Fetched
  <2>2. QED
    BY <1>1, <2>1, ArrivedType, NameOfRange, NameIsOnBus
<1>2. CASE ~NameDot /\ Eighth \in {2, 3}
  <2>1. Fetched = AttributeOf(Arrived)
    BY <1>2 DEF Fetched
  <2>2. QED
    BY <1>2, <2>1, ArrivedType, AttributeRange, NameIsOnBus
<1>3. CASE ~NameDot /\ Eighth \notin {2, 3}
  <2>1. Fetched = Table * TableNow
    BY <1>3 DEF Fetched
  <2>2. QED
    BY <1>3, <2>1, CtrlType, PatternLevel
<1>4. QED
  BY <1>1, <1>2, <1>3

LEMMA SteppedType ==
  ASSUME Types, NEW a \in Addresses, NEW drawing \in BOOLEAN
  PROVE  Stepped(a, drawing) \in Addresses
<1>1. CASE drawing
  BY <1>1, IncrementTypes DEF Stepped
<1>2. CASE ~drawing
  <2>1. a + ctrl.increment \in Nat /\ 8 * Table \in Nat /\ 8 * Table > 0
    BY CtrlType, BusSizes DEF Addresses
  <2>2. (a + ctrl.increment) % (8 * Table) \in 0..8 * Table - 1
    BY <2>1, Divides
  <2>3. QED
    BY <1>2, <2>2 DEF Stepped, Addresses
<1>3. QED
  BY <1>1, <1>2

LEMMA ScrolledType ==
  ASSUME Types
  PROVE  Scrolled \in Addresses
<1>1. t \in Addresses
  BY DEF Types
<1> DEFINE x == IF Fetching /\ TileDot /\ Eighth = 7 THEN IncrementX(Arrived) ELSE Arrived
           y == IF Fetching /\ cycle = TilesEnd THEN IncrementY(x) ELSE x
           z == IF Fetching /\ cycle = TilesEnd + 1 THEN TransferX(y, t) ELSE y
<1>2. x \in Addresses
  BY ArrivedType, IncrementTypes
<1> HIDE DEF x
<1>3. y \in Addresses
  BY <1>2, IncrementTypes
<1> HIDE DEF y
<1>4. z \in Addresses
  BY <1>1, <1>3, TransferTypes
<1> HIDE DEF z
<1>5. TransferY(z, t) \in Addresses
  BY <1>1, <1>4, TransferTypes
<1>6. Scrolled \in {z, TransferY(z, t)}
  BY Zenon DEF Scrolled, z, y, x
<1>7. QED
  BY <1>4, <1>5, <1>6

LEMMA ReachedType ==
  ASSUME Types
  PROVE  Reached \in Addresses
<1>1. Fetching \in BOOLEAN
  BY DEF Fetching
<1>2. Stepped(Scrolled, Fetching) \in Addresses
  BY <1>1, ScrolledType, SteppedType
<1>3. QED
  BY <1>2, ScrolledType DEF Reached

-----------------------------------------------------------------------------
(* What is on the bus.                                                     *)
LEMMA DrivenType ==
  ASSUME NEW a \in Addresses
  PROVE  Driven(a) \in Seq(Accesses)
<1>1. a % Bus \in 0..Bus - 1
  BY BusSizes, Divides DEF Addresses
<1>2. [addr |-> a % Bus, drives |-> TRUE, reads |-> FALSE] \in Accesses
  BY <1>1 DEF Accesses
<1>3. QED
  BY <1>2 DEF Driven

(* The events of a dot.                                                    *)
LEMMA ReadType ==
  ASSUME NEW a \in Nat
  PROVE  Read(a) \in Seq(Accesses)
<1>1. a % Bus \in 0..Bus - 1
  BY BusSizes, Divides
<1>2. [addr |-> a % Bus, drives |-> TRUE, reads |-> TRUE] \in Accesses
  BY <1>1 DEF Accesses
<1>3. QED
  BY <1>2 DEF Read

LEMMA LatchedType ==
  ASSUME Types, NEW a \in BusAddress
  PROVE  Latched(a) \in BusAddress /\ Latched(a) % Bus = Latched(a)
         /\ (Level(Latched(a)) <=> Level(a))
BY LatchedLevel DEF Types, Latched

LEMMA CarriedType ==
  ASSUME Types
  PROVE  Carried \in Seq(Accesses)
<1>1. CASE carry # NoAddress /\ rendering
  <2>1. carry \in BusAddress
    BY <1>1, NameIsOnBus DEF Types, Maybe
  <2>2. Latched(carry) \in Nat
    BY <2>1, LatchedType DEF BusAddress
  <2>3. QED
    BY <1>1, <2>2, ReadType DEF Carried
<1>2. CASE ~(carry # NoAddress /\ rendering)
  BY <1>2 DEF Carried
<1>3. QED
  BY <1>1, <1>2

LEMMA UpdatesType ==
  ASSUME Types, NEW low \in 0..Page - 1
  PROVE  Updates(low) \in Seq(Accesses)
<1>1. CASE Due = NoAddress \/ (Due # NoAddress /\ ~Begins /\ Finishes)
  <2>1. Updates(low) = << >>
    BY <1>1 DEF Updates
  <2>2. QED
    BY <2>1
<1>2. CASE Due # NoAddress /\ Begins
  <2>1. ~Finishes
    BY <1>2 DEF Begins, Finishes, Types
  <2>2. Updates(low) = Read((Page * (Fetched \div Page)) + low)
    BY <1>2, <2>1 DEF Updates
  <2>3. (Page * (Fetched \div Page)) + low \in Nat
    BY FetchedIs, LatchedLevel DEF BusAddress
  <2>4. QED
    BY <2>2, <2>3, ReadType
<1>3. CASE Due # NoAddress /\ ~Begins /\ ~Finishes
  <2>1. Updates(low) = <<[addr |-> Due, drives |-> FALSE, reads |-> TRUE]>>
    BY <1>3 DEF Updates
  <2>2. Due \in 0..Bus - 1
    BY <1>3, Registers, Shifts DEF Maybe, BusAddress
  <2>3. [addr |-> Due, drives |-> FALSE, reads |-> TRUE] \in Accesses
    BY <2>2 DEF Accesses
  <2>4. QED
    BY <2>1, <2>3
<1>4. QED
  BY <1>1, <1>2, <1>3

Fetches ==
  CASE Begins   -> Driven(Fetched)
    [] Finishes -> Read(Latched(Fetched))
    [] OTHER    -> <<>>

LEMMA FetchesType ==
  ASSUME Types
  PROVE  Fetches \in Seq(Accesses)
<1>1. CASE Begins
  <2>1. Fetched \in Addresses
    BY FetchedIs, BusSizes DEF BusAddress, Addresses
  <2>2. ~Finishes
    BY <1>1 DEF Begins, Finishes, Types
  <2>3. QED
    BY <1>1, <2>1, <2>2, DrivenType DEF Fetches
<1>2. CASE Finishes
  <2>1. ~Begins
    BY <1>2 DEF Begins, Finishes, Types
  <2>2. Latched(Fetched) \in Nat
    BY FetchedIs, LatchedType DEF BusAddress
  <2>3. QED
    BY <1>2, <2>1, <2>2, ReadType DEF Fetches
<1>3. CASE ~Begins /\ ~Finishes
  BY <1>3 DEF Fetches
<1>4. QED
  BY <1>1, <1>2, <1>3

(* A dot in which v is not touched puts only its fetch on the bus.         *)
LEMMA OnBusIs ==
  ASSUME Types, NEW low \in 0..Page - 1
  PROVE  /\ OnBus(low) \in Seq(Accesses)
         /\ ~Touched => OnBus(low) = Fetches
<1> DEFINE p == IF Head(addrWrite) # NoAddress THEN Driven(Arrived) ELSE <<>>
           q == Updates(low)
           r == IF Due # NoAddress THEN Driven(Scrolled) \o Driven(Reached) ELSE <<>>
<1>1. OnBus(low) = ((p \o Fetches) \o q) \o r
  BY Zenon DEF OnBus, Fetches
<1>2. p \in Seq(Accesses)
  BY ArrivedType, DrivenType
<1>3. q \in Seq(Accesses)
  BY UpdatesType
<1>4. r \in Seq(Accesses)
  BY ScrolledType, ReachedType, DrivenType
<1>5. ASSUME ~Touched PROVE p = <<>> /\ q = <<>> /\ r = <<>>
  BY <1>5 DEF Touched, Updates
<1> HIDE DEF p, q, r
<1>6. Fetches \in Seq(Accesses)
  BY FetchesType
<1>7. \A f \in Seq(Accesses) : (<<>> \o f) \o <<>> = f /\ f \o <<>> = f
  OBVIOUS
<1>8. QED
  BY <1>1, <1>2, <1>3, <1>4, <1>5, <1>6, <1>7

-----------------------------------------------------------------------------
(* The boards.                                                             *)
LEMMA TickIs ==
  /\ \A x : PinTick(PinOf(x)) = PinOf(x)
  /\ \A x, y : \A n \in Nat : 
       n > 1 => PinTick([current |-> x, target |-> y, countdown |-> n])
                  = [current |-> x, target |-> y, countdown |-> n - 1]
  /\ \A x, y : PinTick([current |-> x, target |-> y, countdown |-> 1]) = PinOf(y)
<1>1. \A x : PinTick(PinOf(x)) = PinOf(x)
  BY DEF PinTick, PinOf, NoChange
<1>2. ASSUME NEW x, NEW y, NEW n \in Nat, n > 1
      PROVE  PinTick([current |-> x, target |-> y, countdown |-> n])
                  = [current |-> x, target |-> y, countdown |-> n - 1]
  <2> DEFINE p == [current |-> x, target |-> y, countdown |-> n]
  <2>1. p.countdown = n
    OBVIOUS
  <2>2. [p EXCEPT !.countdown = @ - 1] = [current |-> x, target |-> y, countdown |-> n - 1]
    OBVIOUS
  <2>3. QED
    BY <1>2, <2>1, <2>2 DEF PinTick
<1>3. ASSUME NEW x, NEW y
      PROVE  PinTick([current |-> x, target |-> y, countdown |-> 1]) = PinOf(y)
  BY DEF PinTick
<1>4. QED
  BY <1>1, <1>2, <1>3

(* A tick of a filter is one of its pin.                                   *)
LEMMA ClockedIs ==
  \A x, y : A12Clocked([level |-> x, low |-> y]) = [level |-> x, low |-> PinTick(y)]
<1> SUFFICES ASSUME NEW x, NEW y
             PROVE  A12Clocked([level |-> x, low |-> y]) = [level |-> x, low |-> PinTick(y)]
  OBVIOUS
<1>1. PICK z : z = PinTick(y)
  OBVIOUS
<1> DEFINE f == [level |-> x, low |-> y]
<1>2. [f EXCEPT !.low = z] = [level |-> x, low |-> z]
  OBVIOUS
<1>3. f.low = y
  OBVIOUS
<1>4. A12Clocked(f) = [f EXCEPT !.low = PinTick(f.low)]
  BY Zenon DEF A12Clocked
<1>5. QED
  BY <1>1, <1>2, <1>3, <1>4

(* A filter is High, or Low for a number of dots; how it goes on.          *)
LEMMA FilterSteps ==
  /\ A12Clocked(High) = High
  /\ A12Driven(High, TRUE) = High /\ A12Driven(High, FALSE) = Low(0)
  /\ ~A12Rises(High, TRUE) /\ \A f : ~A12Rises(f, FALSE)
  /\ \A k \in Nat : /\ A12Clocked(Low(k)) = Low(k + 1)
                    /\ A12Driven(Low(k), TRUE) = High /\ A12Driven(Low(k), FALSE) = Low(k)
                    /\ A12Rises(Low(k), TRUE) <=> k >= LowDots
<1>1. LowDots \in Nat /\ LowDots > 0
  BY LowDotsAssumption DEF LowDotsAssumption
<1>2. A12Clocked(High) = High
  BY TickIs, ClockedIs DEF High
<1>3. A12Driven(High, TRUE) = High
  BY DEF A12Driven, High
<1>4. A12Driven(High, FALSE) = Low(0)
  <2>1. PinSet(PinOf(FALSE), TRUE, LowDots) = [current |-> FALSE, target |-> TRUE, countdown |-> LowDots]
    BY <1>1 DEF PinSet, PinOf
  <2>2. LowFor(0) = [current |-> FALSE, target |-> TRUE, countdown |-> LowDots]
    BY <1>1 DEF LowFor
  <2>3. QED
    BY <2>1, <2>2 DEF A12Driven, High, Low
<1>5. ~A12Rises(High, TRUE) /\ \A f : ~A12Rises(f, FALSE)
  BY DEF A12Rises, High
<1>6. ASSUME NEW k \in Nat
      PROVE  /\ A12Clocked(Low(k)) = Low(k + 1)
             /\ A12Driven(Low(k), TRUE) = High /\ A12Driven(Low(k), FALSE) = Low(k)
             /\ A12Rises(Low(k), TRUE) <=> k >= LowDots
  <2>1. A12Driven(Low(k), TRUE) = High /\ A12Driven(Low(k), FALSE) = Low(k)
    BY DEF A12Driven, Low, High, PinForce, PinOf
  <2>2. PinTick(LowFor(k)) = LowFor(k + 1)
    <3>1. CASE k + 1 < LowDots
      <4>1. /\ k < LowDots /\ k + 1 < LowDots /\ LowDots - (k + 1) = (LowDots - k) - 1
            /\ LowDots - k \in Nat /\ LowDots - k > 1
        BY <1>1, <3>1
      <4>2. LowFor(k) = [current |-> FALSE, target |-> TRUE, countdown |-> LowDots - k]
        BY <4>1, Zenon DEF LowFor
      <4>3. LowFor(k + 1) = [current |-> FALSE, target |-> TRUE, countdown |-> (LowDots - k) - 1]
        BY <4>1, Zenon DEF LowFor
      <4>4. QED
        BY <4>1, <4>2, <4>3, TickIs
    <3>2. CASE k + 1 = LowDots
      <4>1. k < LowDots /\ ~(k + 1 < LowDots) /\ LowDots - k = 1
        BY <1>1, <3>2
      <4>2. /\ LowFor(k) = [current |-> FALSE, target |-> TRUE, countdown |-> 1]
            /\ LowFor(k + 1) = PinOf(TRUE)
        BY <4>1, Zenon DEF LowFor
      <4>3. QED
        BY <4>2, TickIs
    <3>3. CASE k + 1 > LowDots
      <4>1. ~(k < LowDots) /\ ~(k + 1 < LowDots)
        BY <1>1, <3>3
      <4>2. LowFor(k) = PinOf(TRUE) /\ LowFor(k + 1) = PinOf(TRUE)
        BY <4>1, Zenon DEF LowFor
      <4>3. QED
        BY <4>2, TickIs
    <3>4. QED
      BY <1>1, <3>1, <3>2, <3>3
  <2>3. A12Clocked(Low(k)) = Low(k + 1)
    BY <2>2, ClockedIs DEF Low
  <2>4. A12Rises(Low(k), TRUE) <=> k >= LowDots
    BY <1>1 DEF A12Rises, Low, LowFor, PinOf
  <2>5. QED
    BY <2>1, <2>3, <2>4
<1>7. QED
  BY <1>2, <1>3, <1>4, <1>5, <1>6

(* Filters stay filters.                                                   *)
LEMMA FilterTypes ==
  ASSUME NEW f \in Filters
  PROVE  A12Clocked(f) \in Filters /\ \A up \in BOOLEAN : A12Driven(f, up) \in Filters
<1>1. CASE f = High
  <2>1. Low(0) \in Filters /\ High \in Filters
    BY DEF Filters
  <2>2. \A up \in BOOLEAN : up = TRUE \/ up = FALSE
    OBVIOUS
  <2>3. QED
    BY <1>1, <2>1, <2>2, FilterSteps
<1>2. CASE \E k \in Nat : f = Low(k)
  <2>1. PICK k \in Nat : f = Low(k)
    BY <1>2
  <2>2. Low(k + 1) \in Filters /\ High \in Filters /\ Low(k) \in Filters
    BY DEF Filters
  <2>3. QED
    BY <2>1, <2>2, FilterSteps
<1>3. QED
  BY <1>1, <1>2 DEF Filters

(* Changes to single fields of MMC5's counters keep their types.           *)
LEMMA FrameField ==
  ASSUME NEW m \in LineCounters, NEW p \in BOOLEAN
  PROVE  [m EXCEPT !.inFrame = p] \in LineCounters
BY DEF LineCounters

LEMMA CountFields ==
  ASSUME NEW m \in LineCounters, NEW n \in 0..255, NEW p \in BOOLEAN
  PROVE  [m EXCEPT !.irqCounter = n, !.irqPending = p] \in LineCounters
BY DEF LineCounters

LEMMA RepeatFields ==
  ASSUME NEW m \in LineCounters, NEW r \in 0..3, NEW p \in BOOLEAN
  PROVE  [m EXCEPT !.scanlinePending = p, !.repeatedAddress = r] \in LineCounters
BY DEF LineCounters

LEMMA RepeatField ==
  ASSUME NEW m \in LineCounters, NEW r \in 0..3
  PROVE  [m EXCEPT !.repeatedAddress = r] \in LineCounters
BY DEF LineCounters

LEMMA PendingField ==
  ASSUME NEW m \in LineCounters, NEW p \in BOOLEAN
  PROVE  [m EXCEPT !.scanlinePending = p] \in LineCounters
BY DEF LineCounters

LEMMA AddressField ==
  ASSUME NEW m \in LineCounters, NEW a \in Nat \cup {NoAddress}
  PROVE  [m EXCEPT !.lastPpuAddress = a] \in LineCounters
BY DEF LineCounters

(* A detected line, a read and a cycle keep the counters' types.           *)
LEMMA DetectType ==
  ASSUME NEW m \in LineCounters, NEW target \in Nat
  PROVE  DetectScanline(m, target) \in LineCounters
<1>1. PICK count \in 0..255 : count = (m.irqCounter + 1) % 256
  <2>1. (m.irqCounter + 1) % 256 \in 0..255
    BY DEF LineCounters
  <2>2. QED
    BY <2>1
<1>2. CASE ~m.inFrame
  <2>1. [m EXCEPT !.inFrame = TRUE, !.irqCounter = 0, !.irqPending = FALSE] \in LineCounters
    <3>1. 0 \in 0..255 /\ TRUE \in BOOLEAN /\ FALSE \in BOOLEAN
      OBVIOUS
    <3>2. PICK z \in 0..255, yes \in BOOLEAN, no \in BOOLEAN : z = 0 /\ yes = TRUE /\ no = FALSE
      BY <3>1, Zenon
    <3>3. PICK f \in LineCounters : f = [m EXCEPT !.inFrame = yes]
      BY FrameField, Zenon
    <3>4. [f EXCEPT !.irqCounter = z, !.irqPending = no] \in LineCounters
      BY CountFields
    <3>5. QED
      BY <3>2, <3>3, <3>4, Zenon
  <2>2. QED
    BY <1>2, <2>1, Zenon DEF DetectScanline
<1>3. CASE m.inFrame
  <2>1. PICK p \in BOOLEAN : p = (m.irqPending \/ (count = target /\ target # 0))
    <3>1. (m.irqPending \/ (count = target /\ target # 0)) \in BOOLEAN
      BY Zenon
    <3>2. QED
      BY <3>1, Zenon
  <2>2. [m EXCEPT !.irqCounter = count, !.irqPending = p] \in LineCounters
    BY DEF LineCounters
  <2>3. DetectScanline(m, target) = [m EXCEPT !.irqCounter = count, !.irqPending = p]
    BY <1>1, <1>3, <2>1, Zenon DEF DetectScanline
  <2>4. QED
    BY <2>2, <2>3
<1>4. QED
  BY <1>2, <1>3

LEMMA PpuReadType ==
  ASSUME NEW m \in LineCounters, NEW addr \in Nat, NEW named \in BOOLEAN, NEW target \in Nat
  PROVE  PpuReadCycle(m, addr, named, target) \in LineCounters
<1> DEFINE d == IF m.scanlinePending
                THEN [DetectScanline(m, target) EXCEPT !.scanlinePending = FALSE,
                                                       !.repeatedAddress = 0]
                ELSE m
           again == named /\ addr = m.lastPpuAddress
           count == IF d.repeatedAddress < 3 THEN d.repeatedAddress + 1 ELSE 3
           rep == CASE again -> count [] named /\ ~again -> 1 [] OTHER -> 0
<1>1. d \in LineCounters
  <2>1. PICK n \in LineCounters : n = DetectScanline(m, target)
    BY DetectType
  <2>2. [n EXCEPT !.scanlinePending = FALSE, !.repeatedAddress = 0] \in LineCounters
    <3>1. 0 \in 0..3 /\ FALSE \in BOOLEAN
      OBVIOUS
    <3>2. PICK z \in 0..3, no \in BOOLEAN : z = 0 /\ no = FALSE
      BY <3>1, Zenon
    <3>3. [n EXCEPT !.scanlinePending = no, !.repeatedAddress = z] \in LineCounters
      BY RepeatFields
    <3>4. QED
      BY <3>2, <3>3, Zenon
  <2>3. QED
    BY <2>1, <2>2
<1> HIDE DEF d
<1>2. count \in 0..3
  BY <1>1 DEF LineCounters
<1>3. rep \in 0..3
  BY <1>2
<1>4. PICK r \in 0..3, p \in BOOLEAN : r = rep /\ p = (again /\ count = 3)
  <2>1. (again /\ count = 3) \in BOOLEAN
    BY Zenon
  <2>2. QED
    BY <1>3, <2>1, Zenon
<1>5. [d EXCEPT !.readThisCycle = TRUE, !.lastPpuAddress = addr, !.repeatedAddress = r,
                !.scanlinePending = p] \in LineCounters
  BY <1>1 DEF LineCounters
<1>6. PpuReadCycle(m, addr, named, target)
        = [d EXCEPT !.readThisCycle = TRUE, !.lastPpuAddress = addr, !.repeatedAddress = r,
                    !.scanlinePending = p]
  BY <1>4, Zenon DEF PpuReadCycle, d
<1>7. QED
  BY <1>5, <1>6

LEMMA MMC5ClockedType ==
  ASSUME NEW m \in LineCounters
  PROVE  MMC5Clocked(m) \in LineCounters
<1> DEFINE idle == CASE m.readThisCycle -> 0
                     [] ~m.readThisCycle /\ m.idleCpuCycles < 3 -> m.idleCpuCycles + 1
                     [] OTHER -> 3
           timed == [m EXCEPT !.readThisCycle = FALSE, !.idleCpuCycles = idle]
<1>1. idle \in 0..3
  <2>1. CASE m.readThisCycle
    BY <2>1
  <2>2. CASE ~m.readThisCycle /\ m.idleCpuCycles < 3
    BY <2>2 DEF LineCounters
  <2>3. CASE ~m.readThisCycle /\ ~(m.idleCpuCycles < 3)
    BY <2>3
  <2>4. QED
    BY <2>1, <2>2, <2>3
<1> HIDE DEF idle
<1>2. timed \in LineCounters
  BY <1>1 DEF LineCounters
<1> HIDE DEF timed
<1>3. [timed EXCEPT !.inFrame = FALSE, !.lastPpuAddress = NoAddress,
                    !.repeatedAddress = 0, !.scanlinePending = FALSE] \in LineCounters
  <2>1. 0 \in 0..3 /\ FALSE \in BOOLEAN /\ NoAddress \in Nat \cup {NoAddress}
    OBVIOUS
  <2>2. PICK z \in 0..3, no \in BOOLEAN, none \in Nat \cup {NoAddress} :
          z = 0 /\ no = FALSE /\ none = NoAddress
    BY <2>1, Zenon
  <2>3. PICK f \in LineCounters : f = [timed EXCEPT !.inFrame = no]
    BY <1>2, FrameField, Zenon
  <2>4. PICK g \in LineCounters : g = [f EXCEPT !.lastPpuAddress = none]
    BY AddressField, Zenon
  <2>5. PICK h \in LineCounters : h = [g EXCEPT !.repeatedAddress = z]
    BY RepeatField, Zenon
  <2>6. [h EXCEPT !.scanlinePending = no] \in LineCounters
    BY PendingField
  <2>7. QED
    BY <2>2, <2>3, <2>4, <2>5, <2>6, Zenon
<1>4. MMC5Clocked(m) \in
        {timed, [timed EXCEPT !.inFrame = FALSE, !.lastPpuAddress = NoAddress,
                              !.repeatedAddress = 0, !.scanlinePending = FALSE]}
  BY Zenon DEF MMC5Clocked, timed, idle
<1>5. QED
  BY <1>2, <1>3, <1>4

(* What an event leaves a board with.                                      *)
LEMMA SeesType ==
  ASSUME Types
  PROVE  \A b \in Views, e \in Accesses : Sees(b, e) \in Views
<1> SUFFICES ASSUME NEW b \in Views, NEW e \in Accesses PROVE Sees(b, e) \in Views
  OBVIOUS
<1>1. irqTarget \in Nat
  BY InputAssumption DEF InputAssumption, Types
<1>2. /\ b.a12 \in Filters /\ b.rises \in Nat /\ b.mmc5 \in LineCounters
      /\ e.addr \in Nat
  BY DEF Views, Accesses
<1>3. Level(e.addr) \in BOOLEAN /\ Named(e.addr) \in BOOLEAN
  BY DEF Level, Named
<1>4. A12Driven(b.a12, Level(e.addr)) \in Filters
  BY <1>2, <1>3, FilterTypes
<1>5. PpuReadCycle(b.mmc5, e.addr, Named(e.addr), irqTarget) \in LineCounters
  BY <1>1, <1>2, <1>3, PpuReadType
<1>6. QED
  BY <1>2, <1>4, <1>5 DEF Sees, Views

Before == Seen(Boards(IF cycle = TilesEnd + 1 THEN 0 ELSE rises), Carried)
After12(low) == Seen([Before EXCEPT !.a12 = A12Clocked(@)], OnBus(low))

(* The boards before and after the fetch of a dot.                         *)
LEMMA BeforeType ==
  ASSUME Types
  PROVE  Before \in Views /\ [Before EXCEPT !.a12 = A12Clocked(@)] \in Views
<1>1. Boards(IF cycle = TilesEnd + 1 THEN 0 ELSE rises) \in Views
  BY DEF Types, Boards, Views
<1>2. Before \in Views
  BY <1>1, CarriedType, SeesType, SeenType DEF Before
<1>3. A12Clocked(Before.a12) \in Filters
  BY <1>2, FilterTypes DEF Views
<1>4. QED
  BY <1>2, <1>3 DEF Views

LEMMA AfterType ==
  ASSUME Types, NEW low \in 0..Page - 1
  PROVE  After12(low) \in Views
BY BeforeType, OnBusIs, SeesType, SeenType DEF After12

(* The types a dot leaves.                                                 *)
LEMMA PinTypes ==
  ASSUME Types
  PROVE  SkipPin \in PinsUpTo(BOOLEAN, 3)
<1>1. (frameOdd /\ mask) \in BOOLEAN /\ oddFrameSkip \in PinsUpTo(BOOLEAN, 3)
  BY DEF Types
<1>2. PinSet(oddFrameSkip, frameOdd /\ mask, 3) \in PinsUpTo(BOOLEAN, 3)
  <2>1. PICK b \in BOOLEAN : b = (frameOdd /\ mask)
    BY <1>1, Zenon
  <2>2. PinSet(oddFrameSkip, b, 3) \in PinsUpTo(BOOLEAN, 3)
    BY <1>1, PinSetType
  <2>3. QED
    BY <2>1, <2>2, Zenon
<1>3. QED
  BY <1>1, <1>2, PinTickType DEF SkipPin

LEMMA AdvanceTypes ==
  ASSUME Types, Advance
  PROVE  /\ scanline' \in 0..PreRender /\ cycle' \in 0..LastDot
         /\ frameOdd' \in BOOLEAN /\ oddFrameSkip' \in PinsUpTo(BOOLEAN, 3)
         /\ carry' \in Maybe(Names..Names + Table - 1)
<1>0. cycle \in 0..LastDot /\ scanline \in 0..PreRender
  BY DEF Types
<1>1. cycle' \in 0..LastDot
  <2>1. CASE LineEnds
    BY <2>1, DotSizes DEF Advance
  <2>2. CASE ~LineEnds
    <3>1. cycle # LastDot /\ cycle' = cycle + 1
      BY <2>2 DEF Advance, LineEnds
    <3>2. QED
      BY <1>0, <3>1, DotSizes
  <2>3. QED
    BY <2>1, <2>2
<1>2. scanline' \in 0..PreRender
  <2>1. CASE FrameEnds
    BY <2>1, DotSizes DEF Advance
  <2>2. CASE LineEnds /\ ~FrameEnds
    <3>1. scanline # PreRender /\ scanline' = scanline + 1
      BY <2>2 DEF FrameEnds, Advance
    <3>2. QED
      BY <1>0, <3>1, DotSizes
  <2>3. CASE ~LineEnds
    BY <2>3 DEF Advance, Types, FrameEnds
  <2>4. QED
    BY <2>1, <2>2, <2>3
<1>3. frameOdd' \in BOOLEAN
  BY DEF Advance
<1>4. oddFrameSkip' \in PinsUpTo(BOOLEAN, 3)
  BY PinTypes, PinForceType DEF Advance
<1>5. carry' \in Maybe(Names..Names + Table - 1)
  BY ReachedType, NameOfRange DEF Advance, Carry, Maybe
<1>6. QED
  BY <1>1, <1>2, <1>3, <1>4, <1>5

LEMMA HistoryTypes ==
  ASSUME Types, DotHistory
  PROVE  /\ origin' \in Addresses /\ undisturbed' \in BOOLEAN
         /\ calm' \in 0..2 /\ held' \in BOOLEAN
         /\ top' \in {NoLine} \cup 0..Lines - 1 /\ steady' \in BOOLEAN
<1>1. origin' \in Addresses
  <2> DEFINE x == IF Fetching /\ cycle = TilesEnd + 1 THEN TransferX(origin, t) ELSE origin
  <2>1. x \in Addresses
    BY TransferTypes DEF Types
  <2> HIDE DEF x
  <2>2. TransferY(x, t) \in Addresses
    BY <2>1, TransferTypes DEF Types
  <2>3. origin' \in {x, TransferY(x, t)}
    BY Zenon DEF DotHistory, x
  <2>4. QED
    BY <2>1, <2>2, <2>3
<1>2. undisturbed' \in BOOLEAN
  BY DEF DotHistory
<1>3. calm' \in 0..2
  <2>1. CASE ~Fetching \/ Touched
    <3>1. calm' = 0
      BY <2>1 DEF DotHistory
    <3>2. QED
      BY <3>1
  <2>2. CASE ~(~Fetching \/ Touched) /\ cycle = 0 /\ calm < 2
    BY <2>2 DEF DotHistory, Types
  <2>3. CASE ~(~Fetching \/ Touched) /\ ~(cycle = 0 /\ calm < 2)
    BY <2>3 DEF DotHistory, Types
  <2>4. QED
    BY <2>1, <2>2, <2>3
<1>4. held' \in BOOLEAN
  BY DEF DotHistory
<1>5. top' \in {NoLine} \cup 0..Lines - 1
  <2>1. CASE ~Fetching
    BY <2>1 DEF DotHistory
  <2>2. CASE Fetching /\ scanline < Lines /\ cycle = 4 /\ held /\ top = NoLine
    <3>1. top' = scanline
      BY <2>2 DEF DotHistory
    <3>2. QED
      BY <2>2, <3>1, DotSizes DEF Types
  <2>3. CASE Fetching /\ ~(scanline < Lines /\ cycle = 4 /\ held /\ top = NoLine)
    <3>1. top' = top
      BY <2>3 DEF DotHistory
    <3>2. QED
      BY <3>1 DEF Types
  <2>4. QED
    BY <2>1, <2>2, <2>3
<1>6. steady' \in BOOLEAN
  BY DEF DotHistory
<1>7. QED
  BY <1>1, <1>2, <1>3, <1>4, <1>5, <1>6

LEMMA DotTypes ==
  ASSUME Types, Dot
  PROVE  Types'
<1>1. PICK low \in 0..Page - 1 :
        /\ (Due # NoAddress /\ Begins) \/ low = 0
        /\ addressLow' = CASE Begins /\ Due = NoAddress  -> Fetched % Page
                           [] Begins /\ Due # NoAddress  -> low
                           [] OTHER                      -> addressLow
        /\ a12' = After12(low).a12 /\ rises' = After12(low).rises
        /\ mmc5' = IF third = 1 THEN MMC5Clocked(After12(low).mmc5) ELSE After12(low).mmc5
  BY Zenon DEF Dot, After12, Before
<1>2. /\ third' = (third + 1) % 3
      /\ enabling' = Append(Tail(enabling), mask) /\ rendering' = On
      /\ addrWrite' = Append(Tail(addrWrite), IF addrPending THEN t ELSE NoAddress)
      /\ addrPending' = FALSE
      /\ dataRead' = Append(Tail(dataRead), readPending)
      /\ readPending' = NoAddress
      /\ v' = Reached
      /\ tablePatternBg' = IF Fetching /\ TileDot THEN TableNow ELSE tablePatternBg
      /\ rest' = IF rest > 0 THEN rest - 1 ELSE 0
      /\ Advance /\ DotHistory
      /\ UNCHANGED <<ctrl, mask, t, addressLatch, irqTarget, changes>>
  BY Zenon DEF Dot, ReadPendingAfter
<1>3. a12' \in Filters /\ rises' \in Nat /\ mmc5' \in LineCounters
  BY <1>1, AfterType, MMC5ClockedType DEF Views
<1>4. addressLow' \in 0..Page - 1
  <2>1. Fetched % Page \in 0..Page - 1
    BY FetchedIs, BusSizes, Divides DEF BusAddress
  <2>2. addressLow' \in {Fetched % Page, low, addressLow}
    BY <1>1
  <2>3. QED
    BY <2>1, <2>2 DEF Types
<1>5. third' \in 0..2 /\ rest' \in 0..Spacing /\ tablePatternBg' \in 0..1 /\ v' \in Addresses
  BY <1>2, CtrlType, ReachedType, SpacingAssumption DEF Types, SpacingAssumption
<1>6. /\ enabling' \in BOOLEAN \X BOOLEAN \X BOOLEAN \X BOOLEAN /\ rendering' \in BOOLEAN
      /\ addrWrite' \in Maybe(Addresses) \X Maybe(Addresses) \X Maybe(Addresses)
      /\ dataRead' \in Maybe(BusAddress) \X Maybe(BusAddress) \X Maybe(BusAddress)
                         \X Maybe(BusAddress)
  <2>1. mask \in BOOLEAN /\ readPending \in Maybe(BusAddress)
    BY DEF Types
  <2>2. (IF addrPending THEN t ELSE NoAddress) \in Maybe(Addresses)
    BY DEF Types, Maybe
  <2>3. QED
    BY <1>2, <2>1, <2>2, Registers, Shifts
<1>7. addrPending' \in BOOLEAN /\ readPending' \in Maybe(BusAddress)
  BY <1>2 DEF Maybe
<1>8. QED
  BY <1>2, <1>3, <1>4, <1>5, <1>6, <1>7, AdvanceTypes, HistoryTypes DEF Types

(* A $2007 read is of an address on the bus.                               *)
LEMMA ShadowType ==
  ASSUME Types
  PROVE  Shadow(v % Bus) \in BusAddress
<1>1. v % Bus \in 0..Bus - 1
  BY BusSizes, Divides DEF Types, Addresses
<1>2. QED
  BY <1>1, BusSizes DEF Shadow, Palette, BusAddress

(* Of the program's acts those on the addresses need an argument.          *)
LEMMA AccessTypes ==
  ASSUME Types, (\E c \in Ctrls : WriteCtrl(c)) \/ WriteMask \/ WriteScroll \/ WriteAddr
                \/ WriteData \/ ReadData \/ ReadStatus
  PROVE  Types'
<1>0. Spacing \in Nat /\ \A r \in 0..Spacing : r \in Nat
  BY SpacingAssumption DEF SpacingAssumption
<1>1. ASSUME Access
      PROVE  /\ scanline' \in 0..PreRender /\ cycle' \in 0..LastDot /\ third' \in 0..2
             /\ frameOdd' \in BOOLEAN /\ oddFrameSkip' \in PinsUpTo(BOOLEAN, 3)
             /\ carry' \in Maybe(Names..Names + Table - 1)
             /\ enabling' \in BOOLEAN \X BOOLEAN \X BOOLEAN \X BOOLEAN
             /\ rendering' \in BOOLEAN
             /\ addrWrite' \in Maybe(Addresses) \X Maybe(Addresses) \X Maybe(Addresses)
             /\ dataRead' \in Maybe(BusAddress) \X Maybe(BusAddress) \X Maybe(BusAddress)
                                \X Maybe(BusAddress)
             /\ addressLow' \in 0..Page - 1 /\ tablePatternBg' \in 0..1
             /\ irqTarget' \in IrqTargets /\ mmc5' \in LineCounters
             /\ rest' \in 0..Spacing /\ changes' \in Nat
             /\ origin' \in Addresses /\ held' \in BOOLEAN
             /\ top' \in {NoLine} \cup 0..Lines - 1
  BY <1>0, <1>1 DEF Access, Types, dotVars
<1>2. ASSUME KeepsV
      PROVE  /\ v' \in Addresses /\ addrPending' \in BOOLEAN
             /\ readPending' \in Maybe(BusAddress) /\ a12' \in Filters /\ rises' \in Nat
             /\ undisturbed' \in BOOLEAN /\ steady' \in BOOLEAN
  BY <1>2 DEF KeepsV, Types
<1>3. CASE \E c \in Ctrls : WriteCtrl(c)
  <2>1. PICK c \in Ctrls : WriteCtrl(c)
    BY <1>3
  <2>2. Access /\ KeepsV
    BY <2>1 DEF WriteCtrl, Writes
  <2>3. c.name \div 2 \in 0..1 /\ c.name % 2 \in 0..1
    BY InputAssumption DEF InputAssumption
  <2>4. t' \in Addresses
    BY <2>1, <2>3, FieldRanges, AddressType DEF WriteCtrl, Types
  <2>5. ctrl' \in Ctrls /\ mask' \in BOOLEAN /\ addressLatch' \in 0..1 /\ calm' \in 0..2
    BY <2>1 DEF WriteCtrl, Types
  <2>6. QED
    BY <1>1, <1>2, <2>2, <2>4, <2>5 DEF Types
<1>4. CASE WriteMask \/ ReadStatus
  <2>1. Access /\ KeepsV
    BY <1>4 DEF WriteMask, ReadStatus, Writes, Reads
  <2>2. /\ ctrl' \in Ctrls /\ mask' \in BOOLEAN /\ addressLatch' \in 0..1 /\ calm' \in 0..2
        /\ t' \in Addresses
    <3>1. CASE WriteMask
      BY <3>1 DEF WriteMask, Types
    <3>2. CASE ReadStatus
      BY <3>2 DEF ReadStatus, Types
    <3>3. QED
      BY <1>4, <3>1, <3>2
  <2>3. QED
    BY <1>1, <1>2, <2>1, <2>2 DEF Types
<1>5. CASE WriteScroll
  <2>1. Access /\ KeepsV
    BY <1>5 DEF WriteScroll, Writes
  <2>2. t' \in Addresses
    <3>1. /\ FineY(t) \in 0..7 /\ NameY(t) \in 0..1 /\ NameX(t) \in 0..1
          /\ CoarseY(t) \in 0..Height - 1 /\ CoarseX(t) \in 0..Columns - 1
      BY FieldRanges DEF Types
    <3>2. CASE \E x \in ScrollXs : t' = Address(FineY(t), NameY(t), NameX(t), CoarseY(t), x)
      BY <3>1, <3>2, AddressType, InputAssumption DEF InputAssumption
    <3>3. CASE \E y \in ScrollYs : t' = Address(y[2], NameY(t), NameX(t), y[1], CoarseX(t))
      <4>1. PICK y \in ScrollYs : t' = Address(y[2], NameY(t), NameX(t), y[1], CoarseX(t))
        BY <3>3
      <4>2. y[1] \in 0..Height - 1 /\ y[2] \in 0..7
        BY InputAssumption DEF InputAssumption
      <4>3. QED
        BY <3>1, <4>1, <4>2, AddressType
    <3>4. QED
      BY <1>5, <3>2, <3>3 DEF WriteScroll
  <2>3. ctrl' \in Ctrls /\ mask' \in BOOLEAN /\ addressLatch' \in 0..1 /\ calm' \in 0..2
    BY <1>5 DEF WriteScroll, Types
  <2>4. QED
    BY <1>1, <1>2, <2>1, <2>2, <2>3 DEF Types
<1>6. CASE WriteAddr
  <2>1. Access
    BY <1>6 DEF WriteAddr, Writes
  <2>2. t' \in Addresses
    <3>0. t \in Nat /\ t < 8 * Table
      BY BusSizes DEF Types, Addresses
    <3>1. CASE \E high \in Highs : t' = (Page * high) + (t % Page)
      <4>1. PICK high \in Highs : t' = (Page * high) + (t % Page)
        BY <3>1
      <4>2. high \in 0..63
        BY InputAssumption DEF InputAssumption
      <4>3. t % Page \in 0..Page - 1
        BY <3>0, BusSizes, Divides
      <4>4. Page * high \in Nat /\ Page * high + Page <= Page * 64
        BY <4>2, BusSizes, LessTimes
      <4>5. PICK r \in 0..Page - 1 : r = t % Page
        BY <4>3
      <4>6. t' = (Page * high) + r
        BY <4>1, <4>5
      <4>7. QED
        BY <4>4, <4>6, BusSizes DEF Addresses
    <3>2. CASE \E low \in Lows : t' = (Page * (t \div Page)) + low
      <4>1. PICK low \in Lows : t' = (Page * (t \div Page)) + low
        BY <3>2
      <4>2. low \in 0..Page - 1
        BY InputAssumption DEF InputAssumption
      <4>3. PICK q \in Nat, r \in 0..Page - 1 : t = Page * q + r /\ q = t \div Page
        <5>1. /\ t \div Page \in Nat /\ t % Page \in 0..Page - 1
              /\ t = Page * (t \div Page) + (t % Page)
          BY <3>0, BusSizes, Divides
        <5>2. QED
          BY <5>1
      <4>4. q < 128
        <5> SUFFICES ASSUME 127 < q PROVE FALSE
          OBVIOUS
        <5>1. Page * 127 + Page <= Page * q
          BY BusSizes, LessTimes
        <5>2. Page * q \in Nat
          BY BusSizes
        <5>3. QED
          BY <3>0, <4>3, <5>1, <5>2, BusSizes
      <4>5. Page * q + Page <= Page * 128 /\ Page * q \in Nat
        BY <4>4, BusSizes, LessTimes
      <4>6. t' = Page * q + low
        BY <4>1, <4>3
      <4>7. QED
        BY <4>2, <4>5, <4>6, BusSizes DEF Addresses
    <3>3. QED
      BY <1>6, <3>1, <3>2 DEF WriteAddr
  <2>3. /\ ctrl' \in Ctrls /\ mask' \in BOOLEAN /\ addressLatch' \in 0..1 /\ calm' \in 0..2
        /\ v' \in Addresses /\ addrPending' \in BOOLEAN
        /\ readPending' \in Maybe(BusAddress) /\ a12' \in Filters /\ rises' \in Nat
        /\ undisturbed' \in BOOLEAN /\ steady' \in BOOLEAN
    <3>1. addrPending' \in BOOLEAN
      BY <1>6 DEF WriteAddr, Types
    <3>2. /\ ctrl' \in Ctrls /\ mask' \in BOOLEAN /\ addressLatch' \in 0..1 /\ calm' \in 0..2
          /\ v' \in Addresses
          /\ readPending' \in Maybe(BusAddress) /\ a12' \in Filters /\ rises' \in Nat
          /\ undisturbed' \in BOOLEAN /\ steady' \in BOOLEAN
      BY <1>6 DEF WriteAddr, Types
    <3>3. QED
      BY <3>1, <3>2
  <2>4. QED
    BY <1>1, <2>1, <2>2, <2>3 DEF Types
<1>7. CASE WriteData
  <2>1. Access
    BY <1>7 DEF WriteData, Writes
  <2>2. v \in Addresses /\ v' \in Addresses
    <3>1. (~Blank) \in BOOLEAN
      OBVIOUS
    <3>2. QED
      BY <1>7, <3>1, SteppedType DEF WriteData, Types
  <2>3. PICK b \in Views : b = Seen(Boards(rises), Driven(v) \o Driven(v'))
    <3>1. Boards(rises) \in Views
      BY DEF Types, Boards, Views
    <3>2. Driven(v) \in Seq(Accesses) /\ Driven(v') \in Seq(Accesses)
      BY <2>2, DrivenType
    <3>3. Driven(v) \o Driven(v') \in Seq(Accesses)
      BY <3>2
    <3>4. QED
      BY <3>1, <3>3, SeesType, SeenType
  <2>4. a12' \in Filters /\ rises' \in Nat
    BY <1>7, <2>3 DEF WriteData, Views
  <2>5. /\ ctrl' \in Ctrls /\ mask' \in BOOLEAN /\ addressLatch' \in 0..1 /\ calm' \in 0..2
        /\ t' \in Addresses /\ addrPending' \in BOOLEAN
        /\ readPending' \in Maybe(BusAddress)
        /\ undisturbed' \in BOOLEAN /\ steady' \in BOOLEAN
    <3>1. steady' \in BOOLEAN
      BY <1>7, Zenon DEF WriteData
    <3>2. /\ ctrl' \in Ctrls /\ mask' \in BOOLEAN /\ addressLatch' \in 0..1 /\ calm' \in 0..2
          /\ t' \in Addresses /\ addrPending' \in BOOLEAN
          /\ readPending' \in Maybe(BusAddress)
      BY <1>7 DEF WriteData, Types
    <3>3. undisturbed' \in BOOLEAN
      BY <1>7, Zenon DEF WriteData
    <3>4. QED
      BY <3>1, <3>2, <3>3
  <2>6. QED
    BY <1>1, <2>1, <2>2, <2>4, <2>5 DEF Types
<1>8. CASE ReadData
  <2>1. Access
    BY <1>8 DEF ReadData, Reads
  <2>2. readPending' \in Maybe(BusAddress)
    BY <1>8, ShadowType DEF ReadData, Maybe
  <2>3. /\ ctrl' \in Ctrls /\ mask' \in BOOLEAN /\ addressLatch' \in 0..1 /\ calm' \in 0..2
        /\ v' \in Addresses /\ t' \in Addresses /\ addrPending' \in BOOLEAN
        /\ a12' \in Filters /\ rises' \in Nat
        /\ undisturbed' \in BOOLEAN /\ steady' \in BOOLEAN
    BY <1>8 DEF ReadData, Types
  <2>4. QED
    BY <1>1, <2>1, <2>2, <2>3 DEF Types
<1>9. QED
  BY <1>3, <1>4, <1>5, <1>6, <1>7, <1>8

(* A board begins with the bit low.                                        *)
LEMMA ResetIsLow ==
  A12Reset = Low(0)
<1>1. LowDots \in Nat /\ LowDots > 0 /\ ~(LowDots <= 0) /\ LowDots - 0 = LowDots /\ 0 < LowDots
  BY LowDotsAssumption DEF LowDotsAssumption
<1>2. PinSet(PinOf(FALSE), TRUE, LowDots)
        = [current |-> FALSE, target |-> TRUE, countdown |-> LowDots]
  BY <1>1 DEF PinSet, PinOf
<1>3. LowFor(0) = [current |-> FALSE, target |-> TRUE, countdown |-> LowDots]
  BY <1>1 DEF LowFor
<1>4. QED
  BY <1>2, <1>3 DEF A12Reset, Low

(* The types hold initially, and every step keeps them.                    *)
LEMMA InitTypes ==
  ASSUME Init
  PROVE  Types
<1>1. v \in Addresses /\ t \in Addresses /\ origin \in Addresses
  BY InputAssumption DEF Init, InputAssumption
<1>2. a12 \in Filters
  <2>1. A12Reset = Low(0)
    BY ResetIsLow
  <2>2. QED
    BY <2>1 DEF Init, Filters
<1>3. mmc5 \in LineCounters
  BY DEF Init, MMC5Reset, LineCounters
<1>4. oddFrameSkip \in PinsUpTo(BOOLEAN, 3)
  BY PinOfType DEF Init
<1>5. scanline \in 0..PreRender /\ cycle \in 0..LastDot
  BY DotSizes DEF Init
<1>6. addressLow \in 0..Page - 1
  BY BusSizes DEF Init
<1>7. rest \in 0..Spacing
  BY SpacingAssumption DEF SpacingAssumption, Init
<1>8. /\ enabling \in BOOLEAN \X BOOLEAN \X BOOLEAN \X BOOLEAN
      /\ mask \in BOOLEAN /\ rendering \in BOOLEAN
  BY DEF Init
<1>9. /\ NoAddress \in Maybe(Addresses) /\ NoAddress \in Maybe(BusAddress)
      /\ NoAddress \in Maybe(Names..Names + Table - 1)
  BY DEF Maybe
<1>10. /\ addrWrite \in Maybe(Addresses) \X Maybe(Addresses) \X Maybe(Addresses)
       /\ dataRead \in Maybe(BusAddress) \X Maybe(BusAddress) \X Maybe(BusAddress) \X Maybe(BusAddress)
  BY <1>9 DEF Init
<1>11. /\ third \in 0..2 /\ frameOdd \in BOOLEAN /\ carry \in Maybe(Names..Names + Table - 1)
       /\ ctrl \in Ctrls /\ addressLatch \in 0..1 /\ addrPending \in BOOLEAN
       /\ readPending \in Maybe(BusAddress) /\ tablePatternBg \in 0..1
       /\ irqTarget \in IrqTargets /\ rises \in Nat /\ changes \in Nat
       /\ undisturbed \in BOOLEAN /\ calm \in 0..2 /\ held \in BOOLEAN
       /\ top \in {NoLine} \cup 0..Lines - 1 /\ steady \in BOOLEAN
  <2>1. /\ frameOdd \in BOOLEAN /\ addrPending \in BOOLEAN /\ undisturbed \in BOOLEAN
        /\ held \in BOOLEAN /\ steady \in BOOLEAN
    BY Zenon DEF Init
  <2>2. /\ third \in 0..2 /\ carry \in Maybe(Names..Names + Table - 1)
        /\ ctrl \in Ctrls /\ addressLatch \in 0..1
        /\ readPending \in Maybe(BusAddress) /\ tablePatternBg \in 0..1
        /\ irqTarget \in IrqTargets /\ rises \in Nat /\ changes \in Nat
        /\ calm \in 0..2 /\ top \in {NoLine} \cup 0..Lines - 1
    BY <1>9 DEF Init
  <2>3. QED
    BY <2>1, <2>2
<1>12. QED
  BY <1>1, <1>2, <1>3, <1>4, <1>5, <1>6, <1>7, <1>8, <1>10, <1>11 DEF Types

LEMMA StepTypes ==
  ASSUME Types, [Next]_vars
  PROVE  Types'
<1>1. CASE Dot
  BY <1>1, DotTypes
<1>2. CASE (\E c \in Ctrls : WriteCtrl(c)) \/ WriteMask \/ WriteScroll \/ WriteAddr
           \/ WriteData \/ ReadData \/ ReadStatus
  BY <1>2, AccessTypes
<1>3. CASE UNCHANGED vars
  BY <1>3 DEF vars, dotVars, busVars, history, Types
<1>4. QED
  BY <1>1, <1>2, <1>3 DEF Next

-----------------------------------------------------------------------------
(* The pipelines.                                                          *)
LEMMA SpacingIs == Spacing \in Nat /\ Spacing >= 11
BY SpacingAssumption DEF SpacingAssumption

(* What a dot does to them.                                                *)
LEMMA DotShifts ==
  ASSUME Types, Dot
  PROVE  /\ rest' = IF rest > 0 THEN rest - 1 ELSE 0
         /\ addrPending' = FALSE /\ readPending' = NoAddress
         /\ addrWrite'[1] = addrWrite[2] /\ addrWrite'[2] = addrWrite[3]
         /\ addrWrite'[3] = IF addrPending THEN t ELSE NoAddress
         /\ dataRead'[1] = dataRead[2] /\ dataRead'[2] = dataRead[3]
         /\ dataRead'[3] = dataRead[4] /\ dataRead'[4] = readPending
         /\ enabling'[1] = enabling[2] /\ enabling'[2] = enabling[3]
         /\ enabling'[3] = enabling[4] /\ enabling'[4] = mask
         /\ rendering' = enabling[1]
         /\ UNCHANGED <<t, ctrl, mask, irqTarget>>
<1>1. /\ enabling' = Append(Tail(enabling), mask) /\ rendering' = On
      /\ addrWrite' = Append(Tail(addrWrite), IF addrPending THEN t ELSE NoAddress)
      /\ addrPending' = FALSE
      /\ dataRead' = Append(Tail(dataRead), readPending)
      /\ readPending' = NoAddress
      /\ rest' = IF rest > 0 THEN rest - 1 ELSE 0
      /\ UNCHANGED <<t, ctrl, mask, irqTarget>>
  BY Zenon DEF Dot, ReadPendingAfter
<1>2. mask \in BOOLEAN /\ readPending \in Maybe(BusAddress)
  BY DEF Types
<1>3. PICK w \in Maybe(Addresses) : w = (IF addrPending THEN t ELSE NoAddress)
  <2>1. (IF addrPending THEN t ELSE NoAddress) \in Maybe(Addresses)
    BY DEF Types, Maybe
  <2>2. QED
    BY <2>1
<1>4. /\ enabling' = <<enabling[2], enabling[3], enabling[4], mask>>
      /\ dataRead' = <<dataRead[2], dataRead[3], dataRead[4], readPending>>
      /\ addrWrite' = <<addrWrite[2], addrWrite[3], w>>
      /\ rendering' = enabling[1]
  BY <1>1, <1>2, <1>3, Shifts
<1>5. /\ enabling'[1] = enabling[2] /\ enabling'[2] = enabling[3]
      /\ enabling'[3] = enabling[4] /\ enabling'[4] = mask
  BY <1>4
<1>6. /\ dataRead'[1] = dataRead[2] /\ dataRead'[2] = dataRead[3]
      /\ dataRead'[3] = dataRead[4] /\ dataRead'[4] = readPending
  BY <1>4
<1>7. addrWrite'[1] = addrWrite[2] /\ addrWrite'[2] = addrWrite[3] /\ addrWrite'[3] = w
  BY <1>4
<1>8. QED
  BY <1>1, <1>3, <1>4, <1>5, <1>6, <1>7

(* The pause between accesses is a number.                                 *)
LEMMA RestIs == ASSUME Types PROVE rest \in Nat
BY SpacingIs DEF Types

(* The program does nothing while something is on its way.                 *)
LEMMA NothingOnItsWay ==
  ASSUME Types, InFlight, rest = 0
  PROVE  ~WriteOnItsWay /\ ~ReadOnItsWay
<1>1. /\ ~addrPending /\ addrWrite[1] = NoAddress /\ addrWrite[2] = NoAddress
      /\ addrWrite[3] = NoAddress /\ readPending = NoAddress
      /\ dataRead[1] = NoAddress /\ dataRead[2] = NoAddress
      /\ dataRead[3] = NoAddress /\ dataRead[4] = NoAddress
  BY SpacingIs DEF InFlight
<1>2. QED
  BY <1>1 DEF WriteOnItsWay, ReadOnItsWay

(* What is on its way, cell by cell.                                       *)
LEMMA OnItsWay ==
  /\ WriteOnItsWay <=> \/ addrPending \/ addrWrite[1] # NoAddress
                       \/ addrWrite[2] # NoAddress \/ addrWrite[3] # NoAddress
  /\ ReadOnItsWay <=> \/ readPending # NoAddress \/ dataRead[1] # NoAddress
                      \/ dataRead[2] # NoAddress \/ dataRead[3] # NoAddress
                      \/ dataRead[4] # NoAddress
<1>1. \A i : i \in 1..3 <=> i \in {1, 2, 3}
  OBVIOUS
<1>2. \A i : i \in 1..4 <=> i \in {1, 2, 3, 4}
  OBVIOUS
<1>3. QED
  BY <1>1, <1>2, Zenon DEF WriteOnItsWay, ReadOnItsWay

(* A dot moves what is on its way on by a cell.                            *)
LEMMA InFlightDot ==
  ASSUME Types, InFlight, Dot
  PROVE  InFlight'
BY DotShifts, SpacingIs DEF InFlight

(* An access sends one thing on its way.                                   *)
LEMMA InFlightAccess ==
  ASSUME Types, InFlight, Access
  PROVE  InFlight'
<1>1. /\ rest = 0 /\ rest' = Spacing
      /\ addrWrite' = addrWrite /\ dataRead' = dataRead
  BY DEF Access
<1>2. ~WriteOnItsWay /\ ~ReadOnItsWay
  BY <1>1, NothingOnItsWay
<1>3. /\ addrWrite[1] = NoAddress /\ addrWrite[2] = NoAddress
      /\ addrWrite[3] = NoAddress
      /\ dataRead[1] = NoAddress /\ dataRead[2] = NoAddress
      /\ dataRead[3] = NoAddress /\ dataRead[4] = NoAddress
  BY <1>2, OnItsWay
<1>4. QED
  BY <1>1, <1>3 DEF InFlight

(* While nothing is fetched only what is due moves the address.            *)
LEMMA NotFetching ==
  ASSUME Types, ~Fetching, Dot
  PROVE  /\ v' = IF Due = NoAddress THEN Arrived ELSE Stepped(Arrived, FALSE)
         /\ buffer' = IF Due = NoAddress THEN buffer ELSE Due
         /\ ideal' = ideal
<1>1. ~Begins /\ ~Finishes
  BY DEF Begins, Finishes
<1>2. Scrolled = Arrived
  BY DEF Scrolled
<1>3. v' = Reached
  BY Zenon DEF Dot
<1>4. Reached = IF Due = NoAddress THEN Arrived ELSE Stepped(Arrived, FALSE)
  <2>1. Fetching = FALSE
    BY DEF Fetching
  <2>2. QED
    BY <1>2, <2>1 DEF Reached
<1>5. buffer' = IF Due = NoAddress THEN buffer ELSE Due
  BY <1>1, Zenon DEF Dot
<1>6. ideal' = ideal
  <2>1. DotHistory
    BY Zenon DEF Dot
  <2>2. QED
    BY <2>1 DEF DotHistory
<1>7. QED
  BY <1>3, <1>4, <1>5, <1>6

(* A dot brings the address and the buffer nearer to where they lead.      *)
LEMMA IdealDot ==
  ASSUME Types, InFlight, IdealInv, Dot
  PROVE  IdealInv'
<1>1. /\ ideal \in [address : Addresses \cup {Unknown}, buffer : BusAddress \cup {Unknown}]
      /\ buffer \in BusAddress \cup {Unknown}
      /\ ~(WriteOnItsWay /\ ReadOnItsWay)
  BY DEF IdealInv
<1>2. Due = dataRead[1] /\ Due \in Maybe(BusAddress)
  BY Registers, Shifts
<1>3. buffer' \in BusAddress \cup {Unknown} /\ (Due = NoAddress => buffer' = buffer)
  <2>1. Due = NoAddress => buffer' = buffer
    BY Zenon DEF Dot
  <2>2. Due # NoAddress => buffer' \in {Unknown, Due}
    BY Zenon DEF Dot
  <2>3. QED
    BY <1>1, <1>2, <2>1, <2>2 DEF Maybe
<1>4. /\ WriteOnItsWay' => WriteOnItsWay
      /\ ReadOnItsWay' => ReadOnItsWay /\ Due = NoAddress
      /\ ~WriteOnItsWay' => ~addrPending /\ addrWrite[2] = NoAddress /\ addrWrite[3] = NoAddress
      /\ ~ReadOnItsWay' => /\ readPending = NoAddress /\ dataRead[2] = NoAddress
                           /\ dataRead[3] = NoAddress /\ dataRead[4] = NoAddress
  <2>1. t # NoAddress
    BY NoAddressIsNone DEF Types
  <2>2. /\ WriteOnItsWay' <=> \/ addrPending' \/ addrWrite'[1] # NoAddress
                              \/ addrWrite'[2] # NoAddress \/ addrWrite'[3] # NoAddress
        /\ ReadOnItsWay' <=> \/ readPending' # NoAddress \/ dataRead'[1] # NoAddress
                             \/ dataRead'[2] # NoAddress \/ dataRead'[3] # NoAddress
                             \/ dataRead'[4] # NoAddress
    <3>1. \A i : i \in 1..3 <=> i \in {1, 2, 3}
      OBVIOUS
    <3>2. \A i : i \in 1..4 <=> i \in {1, 2, 3, 4}
      OBVIOUS
    <3>3. QED
      BY <3>1, <3>2, Zenon DEF WriteOnItsWay, ReadOnItsWay
  <2>3. ReadOnItsWay' => Due = NoAddress
    BY <1>2, <2>2, DotShifts, SpacingIs DEF InFlight
  <2>4. QED
    BY <2>1, <2>2, <2>3, DotShifts, OnItsWay
<1>5. ~(WriteOnItsWay' /\ ReadOnItsWay')
  BY <1>1, <1>4
<1>6. CASE Fetching
  <2>1. ideal' = [address |-> Unknown,
                  buffer  |-> IF Range(dataRead) = {NoAddress} /\ readPending = NoAddress
                              THEN ideal.buffer ELSE Unknown]
    <3>1. DotHistory
      BY Zenon DEF Dot
    <3>2. QED
      BY <1>6, <3>1 DEF DotHistory
  <2>2. PICK b \in BusAddress \cup {Unknown} :
          /\ ideal' = [address |-> Unknown, buffer |-> b]
          /\ b # Unknown => b = ideal.buffer /\ ~ReadOnItsWay
    <3>1. CASE Range(dataRead) = {NoAddress} /\ readPending = NoAddress
      <4>1. \A i \in 1..4 : dataRead[i] \in Range(dataRead)
        <5>1. DOMAIN dataRead = 1..4
          BY DEF Types
        <5>2. QED
          BY <5>1, Zenon DEF Range
      <4>2. ~ReadOnItsWay
        BY <3>1, <4>1, Zenon DEF ReadOnItsWay
      <4>3. ideal' = [address |-> Unknown, buffer |-> ideal.buffer]
        BY <2>1, <3>1
      <4>4. ideal.buffer \in BusAddress \cup {Unknown}
        BY <1>1
      <4>5. QED
        BY <4>2, <4>3, <4>4
    <3>2. CASE ~(Range(dataRead) = {NoAddress} /\ readPending = NoAddress)
      <4>1. ideal' = [address |-> Unknown, buffer |-> Unknown]
        BY <2>1, <3>2
      <4>2. QED
        BY <4>1
    <3>3. QED
      BY <3>1, <3>2
  <2>3. ideal' \in [address : Addresses \cup {Unknown}, buffer : BusAddress \cup {Unknown}]
        /\ ideal'.address = Unknown /\ ideal'.buffer = b
    BY <2>2
  <2>4. b # Unknown => ~ReadOnItsWay' /\ buffer' = b
    BY <1>2, <1>3, <1>4, <2>2, OnItsWay DEF IdealInv
  <2>5. ~ReadOnItsWay' => readPending' = NoAddress /\ \A i \in 1..4 : dataRead'[i] = NoAddress
    BY Zenon DEF ReadOnItsWay
  <2>6. QED
    BY <1>3, <1>5, <2>3, <2>4, <2>5, Zenon DEF IdealInv
<1>7. CASE ~Fetching
  <2>1. /\ v' = IF Due = NoAddress THEN Arrived ELSE Stepped(Arrived, FALSE)
        /\ buffer' = IF Due = NoAddress THEN buffer ELSE Due
        /\ ideal' = ideal
    BY <1>7, NotFetching
  <2>2. Arrived = IF addrWrite[1] # NoAddress THEN addrWrite[1] ELSE v
    BY Shifts DEF Arrived
  <2>4. ASSUME ideal.address # Unknown
        PROVE  /\ \A i \in 1..3 : addrWrite'[i] # NoAddress => addrWrite'[i] = ideal.address
               /\ ReadOnItsWay' => Stepped(v, FALSE)' = ideal.address
               /\ ~WriteOnItsWay' /\ ~ReadOnItsWay' => v' = ideal.address
    <3>1. /\ addrPending => t = ideal.address
          /\ \A i \in 1..3 : addrWrite[i] # NoAddress => addrWrite[i] = ideal.address
          /\ ReadOnItsWay => Stepped(v, FALSE) = ideal.address
          /\ ~WriteOnItsWay /\ ~ReadOnItsWay => v = ideal.address
      BY <2>4 DEF IdealInv
    <3>2. \A i \in 1..3 : addrWrite'[i] # NoAddress => addrWrite'[i] = ideal.address
      <4>1. \A i \in 1..3 : i = 1 \/ i = 2 \/ i = 3
        OBVIOUS
      <4>2. QED
        BY <3>1, <4>1, DotShifts
    <3>3. ASSUME ReadOnItsWay' PROVE Stepped(v, FALSE)' = ideal.address
      <4>1. ReadOnItsWay /\ Due = NoAddress /\ ~WriteOnItsWay
        BY <1>1, <1>4, <3>3
      <4>2. v' = v
        BY <2>1, <2>2, <4>1, OnItsWay
      <4>3. QED
        BY <3>1, <4>1, <4>2, DotShifts DEF Stepped
    <3>4. ASSUME ~WriteOnItsWay', ~ReadOnItsWay' PROVE v' = ideal.address
      <4>1. /\ ~addrPending /\ addrWrite[2] = NoAddress /\ addrWrite[3] = NoAddress
            /\ readPending = NoAddress /\ dataRead[2] = NoAddress
            /\ dataRead[3] = NoAddress /\ dataRead[4] = NoAddress
        BY <1>4, <3>4
      <4>2. CASE addrWrite[1] # NoAddress
        <5>1. WriteOnItsWay
          BY <4>2, OnItsWay
        <5>2. Due = NoAddress
          BY <1>1, <1>2, <5>1, OnItsWay
        <5>3. QED
          BY <2>1, <2>2, <3>1, <4>2, <5>2
      <4>3. CASE addrWrite[1] = NoAddress
        <5>1. ~WriteOnItsWay /\ Arrived = v
          BY <2>2, <4>1, <4>3, OnItsWay
        <5>2. CASE Due = NoAddress
          BY <1>2, <2>1, <3>1, <4>1, <5>1, <5>2, OnItsWay
        <5>3. CASE Due # NoAddress
          BY <1>2, <2>1, <3>1, <5>1, <5>3, OnItsWay
        <5>4. QED
          BY <5>2, <5>3
      <4>4. QED
        BY <4>2, <4>3
    <3>5. QED
      BY <3>2, <3>3, <3>4
  <2>5. ASSUME ideal.buffer # Unknown
        PROVE  /\ \A i \in 1..4 : dataRead'[i] # NoAddress => dataRead'[i] = ideal.buffer
               /\ ~ReadOnItsWay' => buffer' = ideal.buffer
    <3>1. /\ readPending # NoAddress => readPending = ideal.buffer
          /\ \A i \in 1..4 : dataRead[i] # NoAddress => dataRead[i] = ideal.buffer
          /\ ~ReadOnItsWay => buffer = ideal.buffer
      BY <2>5 DEF IdealInv
    <3>2. \A i \in 1..4 : dataRead'[i] # NoAddress => dataRead'[i] = ideal.buffer
      <4>1. \A i \in 1..4 : i = 1 \/ i = 2 \/ i = 3 \/ i = 4
        OBVIOUS
      <4>2. QED
        BY <3>1, <4>1, DotShifts
    <3>3. ~ReadOnItsWay' => buffer' = ideal.buffer
      BY <1>2, <1>4, <2>1, <3>1, OnItsWay
    <3>4. QED
      BY <3>2, <3>3
  <2>6. addrPending' = FALSE /\ readPending' = NoAddress
    BY DotShifts
  <2>7. QED
    BY <1>1, <1>3, <1>5, <2>1, <2>4, <2>5, <2>6, Zenon DEF IdealInv
<1>8. QED
  BY <1>6, <1>7

(* An access changes both alike.                                           *)
LEMMA IdealAccess ==
  ASSUME Types, InFlight, IdealInv,
         (\E c \in Ctrls : WriteCtrl(c)) \/ WriteMask \/ WriteScroll \/ WriteAddr
           \/ WriteData \/ ReadData \/ ReadStatus
  PROVE  IdealInv' /\ InFlight'
<1>1. /\ ideal \in [address : Addresses \cup {Unknown}, buffer : BusAddress \cup {Unknown}]
      /\ buffer \in BusAddress \cup {Unknown}
  BY DEF IdealInv
<1>2. ASSUME Access PROVE rest = 0 /\ rest' = Spacing /\ addrWrite' = addrWrite /\ dataRead' = dataRead
  BY <1>2 DEF Access
<1>3. ASSUME Access
      PROVE  /\ addrPending = FALSE /\ readPending = NoAddress
             /\ \A i \in 1..3 : addrWrite'[i] = NoAddress
             /\ \A i \in 1..4 : dataRead'[i] = NoAddress
             /\ ideal.address # Unknown => v = ideal.address
             /\ ideal.buffer # Unknown => buffer = ideal.buffer
  <2>1. ~WriteOnItsWay /\ ~ReadOnItsWay
    BY <1>2, <1>3, NothingOnItsWay
  <2>2. addrPending \in BOOLEAN
    BY DEF Types
  <2>3. QED
    BY <1>2, <1>3, <2>1, <2>2, Zenon DEF WriteOnItsWay, ReadOnItsWay, IdealInv
<1>4. ASSUME Access, ideal' = ideal, v' = v, buffer' = buffer,
             addrPending' = addrPending, readPending' = readPending
      PROVE  IdealInv' /\ InFlight'
  <2>1. /\ addrPending' = FALSE /\ readPending' = NoAddress
        /\ \A i \in 1..3 : addrWrite'[i] = NoAddress
        /\ \A i \in 1..4 : dataRead'[i] = NoAddress
    BY <1>3, <1>4, Zenon
  <2>2. ~WriteOnItsWay' /\ ~ReadOnItsWay'
    BY <2>1, Zenon DEF WriteOnItsWay, ReadOnItsWay
  <2>3. IdealInv'
    BY <1>1, <1>3, <1>4, <2>1, <2>2, Zenon DEF IdealInv
  <2>4. QED
    BY <1>4, <2>3, InFlightAccess
<1>5. CASE (\E c \in Ctrls : WriteCtrl(c)) \/ WriteMask \/ WriteScroll \/ ReadStatus
             \/ (WriteAddr /\ addressLatch = 0)
  <2>1. Access /\ ideal' = ideal /\ v' = v /\ buffer' = buffer
          /\ addrPending' = addrPending /\ readPending' = readPending
    BY <1>5 DEF WriteCtrl, WriteMask, WriteScroll, ReadStatus, WriteAddr, Writes, Reads, KeepsV
  <2>2. QED
    BY <1>4, <2>1
<1>6. CASE WriteAddr /\ addressLatch # 0
  <2>1. Access /\ v' = v /\ buffer' = buffer /\ readPending' = readPending /\ addrPending' = TRUE
          /\ ideal' = [ideal EXCEPT !.address = t']
    BY <1>6, Zenon DEF WriteAddr, Writes
  <2>2. t' \in Addresses
    BY <1>6, AccessTypes DEF Types
  <2>3. PICK n \in Addresses : n = t'
    BY <2>2
  <2>4. ideal' = [address |-> n, buffer |-> ideal.buffer]
    BY <1>1, <2>1, <2>3
  <2>5. ideal'.address = n /\ ideal'.buffer = ideal.buffer
        /\ ideal' \in [address : Addresses \cup {Unknown}, buffer : BusAddress \cup {Unknown}]
    BY <1>1, <2>4
  <2>6. /\ readPending' = NoAddress
        /\ \A i \in 1..3 : addrWrite'[i] = NoAddress
        /\ \A i \in 1..4 : dataRead'[i] = NoAddress
    BY <1>3, <2>1, Zenon
  <2>7. WriteOnItsWay' /\ ~ReadOnItsWay'
    BY <2>1, <2>6, Zenon DEF WriteOnItsWay, ReadOnItsWay
  <2>8. IdealInv'
    BY <1>1, <1>3, <2>1, <2>3, <2>5, <2>6, <2>7, Zenon DEF IdealInv
  <2>9. QED
    BY <2>1, <2>8, InFlightAccess
<1>7. CASE WriteData
  <2>1. /\ Access /\ v' = Stepped(v, ~Blank) /\ ideal' = [ideal EXCEPT !.address = After(@)]
        /\ UNCHANGED <<addrPending, readPending, buffer>>
    BY <1>7, Zenon DEF WriteData, Writes
  <2>2. v' \in Addresses
    BY <1>7, AccessTypes DEF Types
  <2>3. PICK n \in Addresses \cup {Unknown} :
          n = After(ideal.address) /\ (n # Unknown => n = v')
    <3>1. CASE Blank /\ ideal.address # Unknown
      <4>1. (~Blank) = FALSE
        BY <3>1
      <4>2. After(ideal.address) = Stepped(v, FALSE)
        BY <1>3, <2>1, <3>1 DEF After
      <4>3. v' = Stepped(v, FALSE)
        BY <2>1, <4>1
      <4>4. QED
        BY <2>2, <4>2, <4>3
    <3>2. CASE ~(Blank /\ ideal.address # Unknown)
      BY <3>2 DEF After
    <3>3. QED
      BY <3>1, <3>2
  <2>4. ideal' = [address |-> n, buffer |-> ideal.buffer]
    <3>1. [ideal EXCEPT !.address = n] = [address |-> n, buffer |-> ideal.buffer]
      BY <1>1
    <3>2. ideal' = [ideal EXCEPT !.address = n]
      BY <2>1, <2>3, Zenon
    <3>3. QED
      BY <3>1, <3>2
  <2>5. ideal'.address = n /\ ideal'.buffer = ideal.buffer
        /\ ideal' \in [address : Addresses \cup {Unknown}, buffer : BusAddress \cup {Unknown}]
    BY <1>1, <2>4
  <2>6. /\ addrPending' = FALSE /\ readPending' = NoAddress
        /\ \A i \in 1..3 : addrWrite'[i] = NoAddress
        /\ \A i \in 1..4 : dataRead'[i] = NoAddress
    BY <1>3, <2>1, Zenon
  <2>7. ~WriteOnItsWay' /\ ~ReadOnItsWay'
    BY <2>6, Zenon DEF WriteOnItsWay, ReadOnItsWay
  <2>8. IdealInv'
    BY <1>1, <1>3, <2>1, <2>3, <2>5, <2>6, <2>7, Zenon DEF IdealInv
  <2>9. QED
    BY <2>1, <2>8, InFlightAccess
<1>8. CASE ReadData
  <2>1. /\ Access /\ v' = v /\ readPending' = Shadow(v % Bus)
        /\ ideal' = [address |-> After(ideal.address),
                     buffer  |-> IF ideal.address # Unknown /\ Blank
                                 THEN Shadow(ideal.address % Bus) ELSE Unknown]
        /\ UNCHANGED <<addrPending, buffer, ctrl>>
    BY <1>8 DEF ReadData, Reads
  <2>2. Shadow(v % Bus) \in BusAddress
    BY ShadowType
  <2>3. PICK n \in Addresses \cup {Unknown}, b \in BusAddress \cup {Unknown} :
          /\ ideal' = [address |-> n, buffer |-> b]
          /\ n # Unknown => n = Stepped(v, FALSE)
          /\ b # Unknown => b = readPending'
    <3>1. CASE ideal.address # Unknown /\ Blank
      <4>1. v = ideal.address
        BY <1>3, <2>1, <3>1
      <4>2. After(ideal.address) = Stepped(v, FALSE)
        BY <3>1, <4>1 DEF After
      <4>3. Stepped(v, FALSE) \in Addresses
        BY SteppedType DEF Types
      <4>4. ideal' = [address |-> Stepped(v, FALSE), buffer |-> Shadow(v % Bus)]
        BY <2>1, <3>1, <4>1, <4>2
      <4>5. QED
        BY <2>1, <2>2, <4>3, <4>4
    <3>2. CASE ~(ideal.address # Unknown /\ Blank)
      <4>1. After(ideal.address) = Unknown
        BY <3>2 DEF After
      <4>2. ideal' = [address |-> Unknown, buffer |-> Unknown]
        BY <2>1, <3>2, <4>1
      <4>3. QED
        BY <4>2
    <3>3. QED
      BY <3>1, <3>2
  <2>4. ideal'.address = n /\ ideal'.buffer = b
        /\ ideal' \in [address : Addresses \cup {Unknown}, buffer : BusAddress \cup {Unknown}]
    BY <2>3
  <2>5. /\ addrPending' = FALSE /\ readPending' # NoAddress
        /\ \A i \in 1..3 : addrWrite'[i] = NoAddress
        /\ \A i \in 1..4 : dataRead'[i] = NoAddress
    BY <1>3, <2>1, <2>2, NoAddressIsNone
  <2>6. ~WriteOnItsWay' /\ ReadOnItsWay'
    BY <2>5, Zenon DEF WriteOnItsWay, ReadOnItsWay
  <2>7. Stepped(v, FALSE)' = Stepped(v, FALSE)
    BY <2>1 DEF Stepped
  <2>8. IdealInv'
    BY <1>1, <2>1, <2>3, <2>4, <2>5, <2>6, <2>7, Zenon DEF IdealInv
  <2>9. QED
    BY <2>1, <2>8, InFlightAccess
<1>9. QED
  BY <1>5, <1>6, <1>7, <1>8

(* What the address and the buffer are when the program acts.              *)
PipelineInv == Types /\ InFlight /\ IdealInv

(* The invariant of the pipelines holds initially and is inductive.        *)
LEMMA PipelineInit == Init => PipelineInv
<1> SUFFICES ASSUME Init PROVE PipelineInv
  OBVIOUS
<1>1. Types
  BY InitTypes
<1>2. /\ addrPending = FALSE /\ readPending = NoAddress
      /\ \A i \in 1..3 : addrWrite[i] = NoAddress
      /\ \A i \in 1..4 : dataRead[i] = NoAddress
  BY DEF Init
<1>3. InFlight
  BY <1>2 DEF InFlight
<1>4. ideal = [address |-> v, buffer |-> Unknown] /\ buffer = Unknown
  BY Zenon DEF Init
<1>5. ideal.address = v /\ ideal.buffer = Unknown
      /\ ideal \in [address : Addresses \cup {Unknown}, buffer : BusAddress \cup {Unknown}]
  BY <1>1, <1>4 DEF Types
<1>6. ~WriteOnItsWay /\ ~ReadOnItsWay
  BY <1>2, Zenon DEF WriteOnItsWay, ReadOnItsWay
<1>7. IdealInv
  BY <1>2, <1>4, <1>5, <1>6 DEF IdealInv
<1>8. QED
  BY <1>1, <1>3, <1>7 DEF PipelineInv

LEMMA PipelineStep == PipelineInv /\ [Next]_vars => PipelineInv'
<1> SUFFICES ASSUME PipelineInv, [Next]_vars PROVE PipelineInv'
  OBVIOUS
<1> USE DEF PipelineInv
<1>1. Types'
  BY StepTypes
<1>2. CASE Dot
  BY <1>1, <1>2, InFlightDot, IdealDot
<1>3. CASE (\E c \in Ctrls : WriteCtrl(c)) \/ WriteMask \/ WriteScroll \/ WriteAddr
           \/ WriteData \/ ReadData \/ ReadStatus
  BY <1>1, <1>3, IdealAccess
<1>4. CASE UNCHANGED vars
  <2>1. InFlight'
    BY <1>4 DEF vars, InFlight
  <2>2. IdealInv'
    BY <1>4 DEF vars, history, IdealInv, WriteOnItsWay, ReadOnItsWay, Stepped
  <2>3. QED
    BY <1>1, <2>1, <2>2
<1>5. QED
  BY <1>2, <1>3, <1>4 DEF Next

(* When the program acts nothing is on its way.                            *)
LEMMA PipelineAct ==
  ASSUME PipelineInv, Access
  PROVE  /\ ideal.address # Unknown => v = ideal.address
         /\ ideal.buffer # Unknown => buffer = ideal.buffer
<1>1. ~WriteOnItsWay /\ ~ReadOnItsWay
  BY NothingOnItsWay DEF PipelineInv, Access
<1>2. QED
  BY <1>1 DEF PipelineInv, IdealInv

(* Outside the picture each $2007 access is made at the address the program's*)
(* accesses led to, and returns the byte of the read before it, for every  *)
(* distance of accesses from 11 dots on.                                   *)
THEOREM AddressKeptHolds == Spec => AddressKept
<1>1. PipelineInv /\ [Next]_vars =>
        [(WriteData \/ ReadData) /\ Blank
           => /\ ideal.address # Unknown => v = ideal.address
              /\ ReadData /\ ideal.buffer # Unknown => buffer = ideal.buffer]_vars
  BY PipelineAct DEF WriteData, ReadData, Writes, Reads
<1>2. QED
  BY <1>1, PipelineInit, PipelineStep, PTL DEF Spec, AddressKept

(* Every register keeps the type of the field it models: addresses their 15*)
(* bits, the filter one of its shapes and MMC5's counters their ranges.    *)
THEOREM TypesHold == Spec => []Types
<1>1. PipelineInv => Types
  BY DEF PipelineInv
<1>2. QED
  BY <1>1, PipelineInit, PipelineStep, PTL DEF Spec

-----------------------------------------------------------------------------
(* The filter on A12.                                                      *)
Counted == IF cycle = TilesEnd + 1 THEN 0 ELSE rises

(* What a board sees of a dot in which the program disturbs nothing.       *)
LEMMA SeesA12 ==
  ASSUME NEW b, NEW x \in 0..Bus - 1, NEW r \in BOOLEAN
  PROVE  LET e == [addr |-> x, drives |-> TRUE, reads |-> r]
         IN /\ Sees(b, e).a12 = A12Driven(b.a12, Level(x))
            /\ Sees(b, e).rises = IF A12Rises(b.a12, Level(x)) THEN b.rises + 1 ELSE b.rises
BY DEF Sees

(* A single access to the bus.                                             *)
LEMMA DrivenOne ==
  ASSUME NEW b, NEW x \in BusAddress, x % Bus = x
  PROVE  /\ Seen(b, Driven(x)).a12 = A12Driven(b.a12, Level(x))
         /\ Seen(b, Read(x)).a12 = A12Driven(b.a12, Level(x))
         /\ Seen(b, Driven(x)).rises = IF A12Rises(b.a12, Level(x)) THEN b.rises + 1 ELSE b.rises
         /\ Seen(b, Read(x)).rises = IF A12Rises(b.a12, Level(x)) THEN b.rises + 1 ELSE b.rises
<1>1. /\ Driven(x) = <<[addr |-> x, drives |-> TRUE, reads |-> FALSE]>>
      /\ Read(x) = <<[addr |-> x, drives |-> TRUE, reads |-> TRUE]>>
  BY DEF Driven, Read
<1>2. x \in 0..Bus - 1
  BY DEF BusAddress
<1>3. /\ Seen(b, Driven(x)) = Sees(b, [addr |-> x, drives |-> TRUE, reads |-> FALSE])
      /\ Seen(b, Read(x)) = Sees(b, [addr |-> x, drives |-> TRUE, reads |-> TRUE])
  BY <1>1, SeenOne
<1>4. QED
  BY <1>2, <1>3, SeesA12

(* What the carried read of a name leaves of the filter.                   *)
Entered == IF carry # NoAddress /\ rendering THEN A12Driven(a12, FALSE) ELSE a12

(* The carried read is of a name, and cannot raise the bit.                *)
LEMMA BeforeIs ==
  ASSUME Types
  PROVE  Before.a12 = Entered /\ Before.rises = Counted
<1> DEFINE b == Boards(Counted)
<1>1. b.a12 = a12 /\ b.rises = Counted
  BY DEF Boards
<1>2. Before = Seen(b, Carried)
  BY Zenon DEF Before, Counted, b
<1> HIDE DEF b
<1>3. CASE carry # NoAddress /\ rendering
  <2>1. carry \in BusAddress /\ ~Level(carry)
    BY <1>3, NameIsOnBus DEF Types, Maybe
  <2>2. /\ Latched(carry) \in BusAddress /\ Latched(carry) % Bus = Latched(carry)
        /\ ~Level(Latched(carry))
    BY <2>1, LatchedType
  <2>3. Level(Latched(carry)) = FALSE
    BY <2>2 DEF Level
  <2>4. Carried = Read(Latched(carry))
    BY <1>3 DEF Carried
  <2>5. /\ Before.a12 = A12Driven(a12, FALSE)
        /\ Before.rises = IF A12Rises(a12, FALSE) THEN Counted + 1 ELSE Counted
    BY <1>1, <1>2, <2>2, <2>3, <2>4, DrivenOne
  <2>6. QED
    BY <1>3, <2>5, FilterSteps DEF Entered
<1>4. CASE ~(carry # NoAddress /\ rendering)
  <2>1. Carried = << >>
    BY <1>4 DEF Carried
  <2>2. Before = b
    BY <1>2, <2>1, SeenNone DEF b
  <2>3. QED
    BY <1>1, <1>4, <2>2 DEF Entered
<1>5. QED
  BY <1>3, <1>4

LEMMA BoardStep ==
  ASSUME Types, Dot, ~Touched
  PROVE  LET f == A12Clocked(Entered)
             lv == Level(Fetched)
         IN /\ a12' = IF Fetching /\ FetchDot THEN A12Driven(f, lv) ELSE f
            /\ rises' = IF Fetching /\ FetchDot /\ A12Rises(f, lv) THEN Counted + 1 ELSE Counted
<1> DEFINE f == A12Clocked(Entered)
           lv == Level(Fetched)
           b == [Before EXCEPT !.a12 = A12Clocked(@)]
<1>1. PICK low \in 0..Page - 1 : a12' = After12(low).a12 /\ rises' = After12(low).rises
  BY Zenon DEF Dot, After12, Before
<1>2. b.a12 = f /\ b.rises = Counted
  <2>1. PICK g : g = A12Clocked(Before.a12)
    OBVIOUS
  <2>2. Before \in Views
    BY BeforeType
  <2>3. [Before EXCEPT !.a12 = g].a12 = g /\ [Before EXCEPT !.a12 = g].rises = Before.rises
    BY <2>2 DEF Views
  <2>4. b = [Before EXCEPT !.a12 = g]
    BY <2>1, Zenon
  <2>5. QED
    BY <2>1, <2>3, <2>4, BeforeIs
<1>3. After12(low) = Seen(b, Fetches)
  BY OnBusIs, Zenon DEF After12
<1> HIDE DEF f, b
<1>4. /\ Fetched \in BusAddress /\ Fetched % Bus = Fetched
      /\ Latched(Fetched) \in BusAddress /\ Latched(Fetched) % Bus = Latched(Fetched)
      /\ Level(Latched(Fetched)) = lv
  <2>1. /\ Fetched \in BusAddress /\ Fetched % Bus = Fetched
    BY FetchedIs
  <2>2. /\ Latched(Fetched) \in BusAddress /\ Latched(Fetched) % Bus = Latched(Fetched)
        /\ (Level(Latched(Fetched)) <=> Level(Fetched))
    BY <2>1, LatchedType
  <2>3. Level(Latched(Fetched)) \in BOOLEAN /\ Level(Fetched) \in BOOLEAN
    BY DEF Level
  <2>4. QED
    BY <2>1, <2>2, <2>3
<1>5. cycle \in Nat
  BY DotSizes DEF Types
<1>6. CASE Fetching /\ FetchDot
  <2>1. (Begins /\ ~Finishes) \/ (Finishes /\ ~Begins)
    BY <1>5, <1>6 DEF Begins, Finishes
  <2>2. Fetches = Driven(Fetched) \/ Fetches = Read(Latched(Fetched))
    BY <2>1 DEF Fetches
  <2>3. QED
    BY <1>1, <1>2, <1>3, <1>4, <1>6, <2>2, DrivenOne DEF f
<1>7. CASE ~(Fetching /\ FetchDot)
  <2>1. ~Begins /\ ~Finishes
    BY <1>7 DEF Begins, Finishes
  <2>2. Fetches = << >>
    BY <2>1 DEF Fetches
  <2>3. QED
    BY <1>1, <1>2, <1>3, <1>7, <2>2, SeenNone DEF f
<1>8. QED
  BY <1>6, <1>7

(* A calm dot.                                                             *)
LEMMA CalmDot ==
  ASSUME Types, Dot, calm' > 0
  PROVE  /\ Fetching /\ ~Touched
         /\ cycle # 0 => calm = calm'
         /\ cycle = 0 => calm' = IF calm < 2 THEN calm + 1 ELSE 2
<1>1. DotHistory
  BY Zenon DEF Dot
<1>2. calm' = IF ~Fetching \/ Touched THEN 0
              ELSE IF cycle = 0 /\ calm < 2 THEN calm + 1 ELSE calm
  BY <1>1 DEF DotHistory
<1>3. calm \in 0..2
  BY DEF Types
<1>4. QED
  BY <1>2, <1>3

(* The next dot, and when a read is carried into it.                       *)
LEMMA NextDot ==
  ASSUME Types, Dot
  PROVE  /\ \/ cycle' = 0 /\ cycle \in LastDot - 1..LastDot
            \/ cycle' = cycle + 1 /\ cycle \in 0..LastDot - 1
         /\ carry' # NoAddress => cycle' = 0
<1>1. Advance
  BY Zenon DEF Dot
<1>2. cycle \in 0..LastDot
  BY DEF Types
<1>3. CASE LineEnds
  BY <1>1, <1>2, <1>3, DotSizes DEF Advance, LineEnds, SkipsDot
<1>4. CASE ~LineEnds
  <2>1. cycle' = cycle + 1 /\ cycle # LastDot /\ ~SkipsDot
    BY <1>1, <1>4 DEF Advance, LineEnds
  <2>2. carry' = NoAddress
    BY <1>1, <2>1 DEF Advance, Carry
  <2>3. QED
    BY <1>2, <2>1, <2>2, DotSizes
<1>5. QED
  BY <1>3, <1>4

(* The tables a dot of a calm line is of: names and attributes first, then *)
(* the pattern of the background or of a sprite.                           *)
E(c) == (c - 1) % 8

LEMMA DotLevel ==
  ASSUME Types, Fetching, cycle \in 1..LastDot, cycle >= 6 => tablePatternBg = B
  PROVE  /\ Level(Fetched) \in BOOLEAN
         /\ E(cycle) < 4 => ~Level(Fetched)
         /\ E(cycle) >= 4 /\ SpriteDot => (Level(Fetched) <=> ctrl.sprite = 1)
         /\ E(cycle) >= 4 /\ ~SpriteDot => (Level(Fetched) <=> B = 1)
         /\ cycle > PrefetchEnd => E(cycle) < 4
         /\ E(cycle) \in 0..7
<1>1. Eighth = E(cycle) /\ Eighth \in 0..7
  <2>1. cycle - 1 \in Nat
    BY DotSizes
  <2>2. (cycle - 1) % 8 \in 0..7
    BY <2>1
  <2>3. QED
    BY <2>2 DEF Eighth, E
<1>2. Level(Fetched) \in BOOLEAN
  BY DEF Level
<1>3. cycle > PrefetchEnd => E(cycle) < 4
  <2> SUFFICES ASSUME cycle > PrefetchEnd PROVE E(cycle) < 4
    OBVIOUS
  <2>1. PICK r \in 0..3 : cycle - 1 = 8 * (Columns + Slots + 2) + r
    <3>1. cycle - 1 - PrefetchEnd \in 0..3
      BY DotSizes
    <3>2. cycle - 1 = 8 * (Columns + Slots + 2) + (cycle - 1 - PrefetchEnd)
      BY DotSizes
    <3>3. QED
      BY <3>1, <3>2
  <2>2. Columns + Slots + 2 \in Nat /\ r \in 0..8 - 1
    BY DotSizes
  <2>3. (8 * (Columns + Slots + 2) + r) % 8 = r
    BY <2>2, Quotient
  <2>4. QED
    BY <2>1, <2>3 DEF E
<1>4. CASE Eighth < 4
  <2>1. NameDot \/ Eighth \in {2, 3}
    BY <1>1, <1>4 DEF NameDot
  <2>2. QED
    BY <1>1, <1>2, <1>3, <1>4, <2>1, FetchedIs
<1>5. CASE Eighth >= 4
  <2>1. ~NameDot /\ Eighth \notin {2, 3}
    BY <1>1, <1>5 DEF NameDot
  <2>2. Level(Fetched) <=> TableNow = 1
    BY <2>1, FetchedIs
  <2>3. SpriteDot => TableNow = ctrl.sprite
    BY DotSizes DEF TableNow, SpriteDot, TileDot
  <2>4. ASSUME ~SpriteDot PROVE TableNow = B
    <3>1. TileDot
      BY <1>1, <1>3, <1>5, <2>4, DotSizes DEF TileDot, SpriteDot
    <3>2. CASE Eighth = 4
      BY <2>4, <3>1, <3>2 DEF TableNow, B
    <3>3. CASE Eighth # 4
      <4>1. cycle >= 6
        <5> SUFFICES ASSUME cycle <= 5 PROVE FALSE
          BY DotSizes
        <5>1. cycle \in {1, 2, 3, 4, 5}
          BY DotSizes
        <5>2. QED
          BY <1>5, <3>3, <5>1 DEF Eighth
      <4>2. TableNow = tablePatternBg
        BY <2>4, <3>3 DEF TableNow
      <4>3. QED
        BY <4>1, <4>2
    <3>4. QED
      BY <3>2, <3>3
  <2>5. QED
    BY <1>1, <1>2, <1>3, <1>5, <2>2, <2>3, <2>4
<1>6. QED
  BY <1>1, <1>4, <1>5

(* The four things that can happen to the filter.                          *)
LEMMA FourSteps ==
  ASSUME Types, CarryInv, Dot, Fetching, ~Touched
  PROVE  /\ \A k \in Nat : a12 = Low(k) /\ (cycle = 0 \/ ~Level(Fetched)) =>
              a12' = Low(k + 1) /\ rises' = Counted
         /\ a12 = High /\ cycle # 0 /\ ~Level(Fetched) => a12' = Low(0) /\ rises' = Counted
         /\ \A k \in Nat : a12 = Low(k) /\ cycle # 0 /\ Level(Fetched) =>
              /\ a12' = High
              /\ k + 1 >= LowDots => rises' = Counted + 1
              /\ k + 1 < LowDots => rises' = Counted
         /\ a12 = High /\ cycle # 0 /\ Level(Fetched) => a12' = High /\ rises' = Counted
<1> DEFINE lv == Level(Fetched)
<1>1. /\ a12' = IF FetchDot THEN A12Driven(A12Clocked(Entered), lv) ELSE A12Clocked(Entered)
      /\ rises' = IF FetchDot /\ A12Rises(A12Clocked(Entered), lv) THEN Counted + 1 ELSE Counted
  BY BoardStep
<1>2. lv \in BOOLEAN /\ (FetchDot <=> cycle # 0)
  BY DEF Level, FetchDot
<1>3. cycle # 0 => Entered = a12
  BY DEF Entered, CarryInv
<1>4. \A k \in Nat : a12 = Low(k) => Entered = Low(k)
  BY FilterSteps DEF Entered
<1> HIDE DEF lv
<1>5. ASSUME NEW k \in Nat, a12 = Low(k)
      PROVE  /\ cycle = 0 \/ ~lv => a12' = Low(k + 1) /\ rises' = Counted
             /\ cycle # 0 /\ lv => /\ a12' = High
                                   /\ k + 1 >= LowDots => rises' = Counted + 1
                                   /\ k + 1 < LowDots => rises' = Counted
  <2>1. A12Clocked(Entered) = Low(k + 1) /\ k + 1 \in Nat
    <3>1. Entered = Low(k)
      BY <1>4, <1>5, Zenon
    <3>2. A12Clocked(Low(k)) = Low(k + 1)
      BY FilterSteps, Zenon
    <3>3. k + 1 \in Nat
      OBVIOUS
    <3>4. QED
      BY <3>1, <3>2, <3>3, Zenon
  <2>2. CASE cycle = 0
    BY <1>1, <1>2, <2>1, <2>2
  <2>3. CASE cycle # 0 /\ ~lv
    <3>1. lv = FALSE
      BY <1>2, <2>3
    <3>2. QED
      BY <1>1, <1>2, <2>1, <2>3, <3>1, FilterSteps
  <2>4. CASE cycle # 0 /\ lv
    <3>1. lv = TRUE
      BY <1>2, <2>4
    <3>2. A12Rises(Low(k + 1), TRUE) <=> k + 1 >= LowDots
      BY <2>1, FilterSteps
    <3>3. LowDots \in Nat
      BY LowDotsAssumption DEF LowDotsAssumption
    <3>4. A12Driven(Low(k + 1), TRUE) = High
      BY <2>1, FilterSteps, Zenon
    <3>5. PICK f : f = Low(k + 1)
      OBVIOUS
    <3>6. /\ a12' = A12Driven(f, TRUE)
          /\ rises' = IF A12Rises(f, TRUE) THEN Counted + 1 ELSE Counted
      BY <1>1, <1>2, <2>1, <2>4, <3>1, <3>5
    <3>7. a12' = High
      BY <3>4, <3>5, <3>6
    <3>8. k + 1 < LowDots <=> ~(k + 1 >= LowDots)
      BY <2>1, <3>3
    <3>9. CASE k + 1 >= LowDots
      BY <2>4, <3>2, <3>5, <3>6, <3>7, <3>8, <3>9, Zenon
    <3>10. CASE ~(k + 1 >= LowDots)
      BY <2>4, <3>2, <3>5, <3>6, <3>7, <3>8, <3>10, Zenon
    <3>11. QED
      BY <3>9, <3>10
  <2>5. QED
    BY <2>2, <2>3, <2>4
<1>6. ASSUME a12 = High, cycle # 0
      PROVE  /\ ~lv => a12' = Low(0) /\ rises' = Counted
             /\ lv => a12' = High /\ rises' = Counted
  <2>1. A12Clocked(Entered) = High
    BY <1>3, <1>6, FilterSteps
  <2>2. lv = TRUE \/ lv = FALSE
    BY <1>2
  <2>3. QED
    BY <1>1, <1>2, <1>6, <2>1, <2>2, FilterSteps
<1>7. QED
  BY <1>5, <1>6 DEF lv

CalmInvs == CarryInv /\ CalmInv

(* The table of the background is known within a calm line.                *)
LEMMA CalmInvsDot ==
  ASSUME Types, CalmInvs, Dot
  PROVE  CalmInvs'
<1>1. CarryInv'
  BY NextDot DEF CarryInv
<1>2. ASSUME calm' > 0, cycle' >= 6
      PROVE  tablePatternBg' = B'
  <2>1. /\ cycle' = cycle + 1 /\ cycle >= 5 /\ cycle \in 0..LastDot - 1 /\ calm > 0
        /\ Fetching
    BY <1>2, NextDot, CalmDot
  <2>2. tablePatternBg' = IF Fetching /\ TileDot THEN TableNow ELSE tablePatternBg
    BY Zenon DEF Dot
  <2>3. ctrl' = ctrl
    BY DotShifts
  <2>4. cycle >= 6 => tablePatternBg = B
    BY <2>1 DEF CalmInvs, CalmInv
  <2>5. CASE ~TileDot
    <3>1. cycle # 5
      BY <2>5, DotSizes DEF TileDot
    <3>2. QED
      BY <2>1, <2>2, <2>3, <2>4, <2>5, <3>1 DEF B
  <2>6. CASE TileDot
    <3>1. ~SpriteDot
      BY <2>6, DotSizes DEF TileDot, SpriteDot
    <3>2. TableNow = IF Eighth = 4 THEN ctrl.background ELSE tablePatternBg
      BY <2>6, <3>1 DEF TableNow
    <3>3. cycle = 5 => Eighth = 4
      BY DEF Eighth
    <3>4. QED
      BY <2>1, <2>2, <2>3, <2>4, <2>6, <3>2, <3>3 DEF B
  <2>7. QED
    BY <2>5, <2>6
<1>3. QED
  BY <1>1, <1>2 DEF CalmInvs, CalmInv

(* The lengths of the pauses.                                              *)
LEMMA PauseSizes ==
  /\ LowDots \in Nat /\ LowDots >= 10 /\ LowDots <= TilesEnd + 4
  /\ LowDots <= 8 * Slots + 4
BY LowDotsAssumption, PauseAssumption, DotSizes DEF LowDotsAssumption, PauseAssumption

(* The phase of a dot within a tile, and of the next.                      *)
LEMMA PhaseIs ==
  ASSUME NEW a \in Nat, NEW c \in Nat, c >= 8 * a + 1
  PROVE  /\ E(c) \in 0..7 /\ (c + 1 - (8 * a + 2)) % 8 = E(c)
         /\ c >= 8 * a + 2 => LET p == (c - (8 * a + 2)) % 8
                              IN p \in 0..7 /\ E(c) = IF p = 7 THEN 0 ELSE p + 1
BY DEF E

(* Tiles, or sprites, whose patterns are in the high table: the bit is up  *)
(* for four dots of eight, and none of its rises counts.                   *)
LEMMA PatternStep ==
  ASSUME Types, CarryInv, Dot, Fetching, ~Touched, NEW a \in Nat, cycle >= 8 * a + 2,
         a12 = IF Phase(8 * a + 2) > 3 THEN High ELSE Low(Phase(8 * a + 2)),
         E(cycle) >= 4 => Level(Fetched), E(cycle) < 4 => ~Level(Fetched)
  PROVE  a12' = (IF E(cycle) > 3 THEN High ELSE Low(E(cycle))) /\ rises' = Counted
<1> DEFINE p == Phase(8 * a + 2)
<1>1. cycle \in Nat /\ cycle # 0
  BY DotSizes DEF Types
<1>2. /\ E(cycle) \in 0..7 /\ p \in 0..7
      /\ E(cycle) = IF p = 7 THEN 0 ELSE p + 1
  BY <1>1, PhaseIs DEF Phase
<1>3. LowDots \in Nat /\ LowDots >= 10
  BY PauseSizes
<1> HIDE DEF p
<1>4. a12 = IF p > 3 THEN High ELSE Low(p)
  BY DEF p
<1>5. CASE p = 7
  <2>1. a12 = High /\ E(cycle) = 0 /\ ~Level(Fetched)
    BY <1>2, <1>4, <1>5
  <2>2. QED
    BY <1>1, <2>1, FourSteps
<1>6. CASE p \in 4..6
  <2>1. a12 = High /\ E(cycle) > 3 /\ Level(Fetched)
    BY <1>2, <1>4, <1>6
  <2>2. QED
    BY <1>1, <2>1, FourSteps
<1>7. CASE p = 3
  <2>1. a12 = Low(3) /\ E(cycle) = 4 /\ Level(Fetched) /\ 3 + 1 < LowDots /\ 3 \in Nat
    BY <1>2, <1>3, <1>4, <1>7
  <2>2. a12' = High /\ rises' = Counted
    BY <1>1, <2>1, FourSteps
  <2>3. QED
    BY <2>1, <2>2
<1>8. CASE p \in 0..2
  <2>1. a12 = Low(p) /\ E(cycle) = p + 1 /\ E(cycle) < 4 /\ ~Level(Fetched) /\ p \in Nat
    BY <1>2, <1>4, <1>8
  <2>2. a12' = Low(p + 1) /\ rises' = Counted
    BY <1>1, <2>1, FourSteps
  <2>3. QED
    BY <2>1, <2>2
<1>9. QED
  BY <1>2, <1>5, <1>6, <1>7, <1>8

(* What a dot of a calm line leaves of the filter, where its background is *)
(* in the low table and its sprites in the high one.                       *)
LEMMA LowLevels ==
  ASSUME Types, CalmInvs, Fetching, calm > 0, cycle \in 1..LastDot, B = 0, ctrl.sprite = 1
  PROVE  /\ Level(Fetched) <=> E(cycle) >= 4 /\ SpriteDot
         /\ cycle <= TilesEnd + 4 \/ cycle > SpritesEnd => ~Level(Fetched)
         /\ cycle = TilesEnd + 5 => Level(Fetched)
<1>1. Level(Fetched) <=> E(cycle) >= 4 /\ SpriteDot
  BY DotLevel DEF CalmInvs, CalmInv
<1>2. cycle <= TilesEnd \/ cycle > SpritesEnd => ~SpriteDot
  BY DotSizes DEF SpriteDot
<1>3. cycle \in TilesEnd + 1..TilesEnd + 5 => E(cycle) = cycle - TilesEnd - 1
  BY DotSizes DEF E
<1>4. cycle = TilesEnd + 5 => SpriteDot
  BY DotSizes DEF SpriteDot
<1>5. QED
  BY <1>1, <1>2, <1>3, <1>4, DotSizes

(* Every dot keeps the invariant of such lines.                            *)
LEMMA LowBackgroundDot ==
  ASSUME Types, CalmInvs, LowBackground, Dot
  PROVE  LowBackground'
<1> SUFFICES ASSUME B = 0, ctrl.sprite = 1, calm' > 0
             PROVE  LowBackground'
  <2>1. B' = B /\ ctrl' = ctrl
    BY DotShifts DEF B
  <2>2. calm' \in 0..2
    BY DotTypes DEF Types
  <2>3. QED
    BY <2>1, <2>2 DEF LowBackground, Settled
<1>1. /\ Fetching /\ ~Touched
      /\ cycle # 0 => calm = calm' /\ calm > 0
      /\ cycle = 0 => calm' = IF calm < 2 THEN calm + 1 ELSE 2
      /\ calm \in 0..2 /\ cycle \in 0..LastDot
  BY CalmDot DEF Types
<1>2. \/ cycle' = 0 /\ cycle \in LastDot - 1..LastDot
      \/ cycle' = cycle + 1 /\ cycle \in 0..LastDot - 1
  BY NextDot
<1>3. cycle \in 1..LastDot =>
        /\ Level(Fetched) <=> E(cycle) >= 4 /\ SpriteDot
        /\ cycle <= TilesEnd + 4 \/ cycle > SpritesEnd => ~Level(Fetched)
        /\ cycle = TilesEnd + 5 => Level(Fetched)
  BY <1>1, LowLevels
<1>4. a12 = High \/ \E k \in Nat : a12 = Low(k)
  BY DEF Types, Filters
<1>5. rises' = Counted \/ rises' = Counted + 1
  BY <1>1, BoardStep
<1>6. CASE cycle = 0
  <2>1. cycle' = 1 /\ Counted = rises
    BY <1>2, <1>6, DotSizes DEF Counted
  <2>2. ASSUME Settled' PROVE (\E k \in Nat : a12' = Low(k)) /\ rises' = 1
    <3>1. Settled
      BY <1>1, <1>6, <2>1, <2>2 DEF Settled
    <3>2. (\E k \in Nat : a12 = Low(k)) /\ rises = 1
      BY <1>6, <3>1, DotSizes DEF LowBackground
    <3>3. PICK k \in Nat : a12 = Low(k)
      BY <3>2
    <3>4. a12' = Low(k + 1) /\ rises' = 1
      BY <1>1, <1>6, <2>1, <3>2, <3>3, FourSteps DEF CalmInvs
    <3>5. QED
      BY <3>4
  <2>3. QED
    BY <2>1, <2>2, DotSizes DEF LowBackground
<1>7. CASE cycle \in 1..TilesEnd + 4
  <2>1. cycle' = cycle + 1 /\ ~Level(Fetched) /\ cycle # 0
    BY <1>2, <1>3, <1>7, DotSizes
  <2>2. PICK k \in Nat : k >= cycle' - 2 /\ a12' = Low(k) /\ rises' = Counted
    <3>1. CASE cycle = 1
      <4>1. CASE a12 = High
        <5>1. a12' = Low(0) /\ rises' = Counted
          BY <1>1, <2>1, <4>1, FourSteps DEF CalmInvs
        <5>2. 0 >= cycle' - 2
          BY <2>1, <3>1
        <5>3. QED
          BY <5>1, <5>2
      <4>2. CASE \E k \in Nat : a12 = Low(k)
        <5>1. PICK k \in Nat : a12 = Low(k)
          BY <4>2
        <5>2. a12' = Low(k + 1) /\ rises' = Counted
          BY <1>1, <2>1, <5>1, FourSteps DEF CalmInvs
        <5>3. k + 1 >= cycle' - 2
          BY <2>1, <3>1
        <5>4. QED
          BY <5>2, <5>3
      <4>3. QED
        BY <1>4, <4>1, <4>2
    <3>2. CASE cycle # 1
      <4>1. \E k \in Nat : k >= cycle - 2 /\ a12 = Low(k)
        BY <1>1, <1>7, <2>1, <3>2, DotSizes DEF LowBackground
      <4>2. PICK k \in Nat : k >= cycle - 2 /\ a12 = Low(k)
        BY <4>1
      <4>3. a12' = Low(k + 1) /\ rises' = Counted
        BY <1>1, <2>1, <4>2, FourSteps DEF CalmInvs
      <4>4. k + 1 >= cycle' - 2
        BY <2>1, <4>2, DotSizes, <1>7
      <4>5. QED
        BY <4>3, <4>4
    <3>3. QED
      BY <3>1, <3>2
  <2>3. cycle' \in TilesEnd + 2..TilesEnd + 5 => rises' = 0
    <3>1. CASE cycle = TilesEnd + 1
      BY <2>2, <3>1 DEF Counted
    <3>2. CASE cycle \in TilesEnd + 2..TilesEnd + 4
      <4>1. rises = 0
        BY <1>1, <2>1, <3>2, DotSizes DEF LowBackground
      <4>2. QED
        BY <2>2, <3>2, <4>1, DotSizes DEF Counted
    <3>3. QED
      BY <1>7, <2>1, <3>1, <3>2, DotSizes
  <2>4. Settled' /\ cycle' \in 0..TilesEnd + 1 => rises' = 1
    <3> SUFFICES ASSUME Settled', cycle' \in 0..TilesEnd + 1 PROVE rises' = 1
      OBVIOUS
    <3>1. Settled
      BY <1>1, <1>7, <2>1, DotSizes DEF Settled
    <3>2. rises = 1
      BY <1>7, <2>1, <3>1, DotSizes DEF LowBackground
    <3>3. QED
      BY <1>7, <2>1, <2>2, <3>2, DotSizes DEF Counted
  <2>5. cycle' \in 2..TilesEnd + 5
    BY <1>7, <2>1, DotSizes
  <2>6. /\ \E j \in Nat : j >= cycle' - 2 /\ a12' = Low(j)
        /\ \E j \in Nat : a12' = Low(j)
    BY <2>2
  <2>7. /\ cycle' \notin TilesEnd + 6..SpritesEnd + 1 /\ cycle' \notin SpritesEnd + 2..LastDot
        /\ cycle' \notin TilesEnd + 6..LastDot
    BY <2>5, DotSizes
  <2>8. QED
    BY <2>3, <2>4, <2>6, <2>7 DEF LowBackground
<1>8. CASE cycle = TilesEnd + 5
  <2>1. cycle' = TilesEnd + 6 /\ Level(Fetched) /\ cycle # 0
    BY <1>2, <1>3, <1>8, DotSizes
  <2>2. PICK k \in Nat : k >= cycle - 2 /\ a12 = Low(k)
    <3>1. \E k \in Nat : k >= cycle - 2 /\ a12 = Low(k)
      BY <1>1, <1>8, <2>1, DotSizes DEF LowBackground
    <3>2. QED
      BY <3>1
  <2>3. k + 1 >= LowDots
    BY <1>8, <2>2, PauseSizes, DotSizes
  <2>4. Counted = 0
    BY <1>1, <1>8, <2>1, DotSizes DEF LowBackground, Counted
  <2>5. a12' = High /\ rises' = 1
    BY <1>1, <2>1, <2>2, <2>3, <2>4, FourSteps DEF CalmInvs
  <2>6. Phase(TilesEnd + 2)' = 4
    BY <2>1, DotSizes DEF Phase
  <2>7. QED
    BY <2>1, <2>5, <2>6, DotSizes DEF LowBackground
<1>9. CASE cycle \in TilesEnd + 6..SpritesEnd + 1
  <2>1. cycle' = cycle + 1 /\ cycle # 0 /\ cycle \in 1..LastDot /\ Counted = rises
    BY <1>2, <1>9, DotSizes DEF Counted
  <2>2. /\ a12 = IF Phase(TilesEnd + 2) > 3 THEN High ELSE Low(Phase(TilesEnd + 2))
        /\ rises = 1
    BY <1>1, <1>9, <2>1, DotSizes DEF LowBackground
  <2>3. cycle = SpritesEnd + 1 => E(cycle) = 0
    BY DotSizes DEF E
  <2>4. /\ TilesEnd + 2 = 8 * Columns + 2 /\ Columns \in Nat /\ cycle >= 8 * Columns + 2
    BY <1>9, DotSizes
  <2>5. (E(cycle) >= 4 => Level(Fetched)) /\ (E(cycle) < 4 => ~Level(Fetched))
    <3>1. E(cycle) \in 0..7
      BY <1>9, <2>4, PhaseIs, DotSizes
    <3>2. CASE cycle = SpritesEnd + 1
      BY <1>3, <2>1, <2>3, <3>2
    <3>3. CASE cycle # SpritesEnd + 1
      <4>1. SpriteDot
        BY <1>9, <3>3, DotSizes DEF SpriteDot
      <4>2. QED
        BY <1>3, <2>1, <3>1, <4>1
    <3>4. QED
      BY <3>2, <3>3
  <2>6. a12' = (IF E(cycle) > 3 THEN High ELSE Low(E(cycle))) /\ rises' = 1
    BY <1>1, <2>1, <2>2, <2>5, <2>4, PatternStep DEF CalmInvs
  <2>7. Phase(TilesEnd + 2)' = E(cycle) /\ E(cycle) \in Nat
    BY <2>1, <2>4, PhaseIs, DotSizes DEF Phase
  <2>8. cycle = SpritesEnd + 1 => a12' = Low(0)
    BY <2>3, <2>6
  <2>9. QED
    BY <1>9, <2>1, <2>6, <2>7, <2>8, DotSizes DEF LowBackground
<1>10. CASE cycle \in SpritesEnd + 2..LastDot
  <2>1. /\ cycle # 0 /\ cycle \in 1..LastDot /\ Counted = rises /\ ~Level(Fetched)
    BY <1>3, <1>10, DotSizes DEF Counted
  <2>2. (\E k \in Nat : a12 = Low(k)) /\ rises = 1
    BY <1>1, <1>10, <2>1, DotSizes DEF LowBackground
  <2>3. PICK k \in Nat : a12 = Low(k)
    BY <2>2
  <2>4. a12' = Low(k + 1) /\ rises' = 1 /\ k + 1 \in Nat
    BY <1>1, <2>1, <2>2, <2>3, FourSteps DEF CalmInvs
  <2>5. cycle' = 0 \/ cycle' \in SpritesEnd + 3..LastDot
    BY <1>2, <1>10, DotSizes
  <2>6. QED
    BY <2>4, <2>5, DotSizes DEF LowBackground
<1>11. QED
  BY <1>1, <1>6, <1>7, <1>8, <1>9, <1>10, DotSizes

(* The same with the background in the high table and the sprites in the   *)
(* low one.                                                                *)
LEMMA HighLevels ==
  ASSUME Types, CalmInvs, Fetching, calm > 0, cycle \in 1..LastDot, B = 1, ctrl.sprite = 0
  PROVE  /\ Level(Fetched) <=> E(cycle) >= 4 /\ ~SpriteDot
         /\ cycle \in 1..4 => ~Level(Fetched)
         /\ cycle \in TilesEnd + 1..SpritesEnd + 4 => ~Level(Fetched)
         /\ cycle \in PrefetchEnd + 1..LastDot => ~Level(Fetched)
         /\ cycle = 5 \/ cycle = SpritesEnd + 5 => Level(Fetched)
         /\ E(cycle) \in 0..7
<1>1. /\ Level(Fetched) <=> E(cycle) >= 4 /\ ~SpriteDot
      /\ E(cycle) \in 0..7
      /\ cycle > PrefetchEnd => E(cycle) < 4
  BY DotLevel DEF CalmInvs, CalmInv
<1>2. cycle \in 1..5 => E(cycle) = cycle - 1
  BY DEF E
<1>3. cycle \in SpritesEnd + 1..SpritesEnd + 5 => E(cycle) = cycle - SpritesEnd - 1
  BY DotSizes DEF E
<1>4. cycle \in TilesEnd + 1..SpritesEnd <=> SpriteDot
  BY DotSizes DEF SpriteDot
<1>5. cycle \in 1..4 => ~Level(Fetched)
  BY <1>1, <1>2
<1>6. cycle \in TilesEnd + 1..SpritesEnd + 4 => ~Level(Fetched)
  <2>1. CASE SpriteDot
    BY <1>1, <2>1
  <2>2. CASE ~SpriteDot /\ cycle \in TilesEnd + 1..SpritesEnd + 4
    <3>1. cycle \in SpritesEnd + 1..SpritesEnd + 4
      BY <1>4, <2>2, DotSizes
    <3>2. E(cycle) < 4
      BY <1>3, <3>1, DotSizes
    <3>3. QED
      BY <1>1, <3>2
  <2>3. QED
    BY <2>1, <2>2
<1>7. cycle \in PrefetchEnd + 1..LastDot => ~Level(Fetched)
  BY <1>1, DotSizes
<1>8. ASSUME cycle = 5 \/ cycle = SpritesEnd + 5 PROVE Level(Fetched)
  <2>1. E(cycle) = 4
    BY <1>2, <1>3, <1>8, DotSizes
  <2>2. ~SpriteDot
    BY <1>4, <1>8, DotSizes
  <2>3. QED
    BY <1>1, <2>1, <2>2
<1>9. QED
  BY <1>1, <1>5, <1>6, <1>7, <1>8

(* Every dot keeps the invariant of such lines.                            *)
LEMMA HighBackgroundDot ==
  ASSUME Types, CalmInvs, HighBackground, Dot
  PROVE  HighBackground'
<1> SUFFICES ASSUME B = 1, ctrl.sprite = 0, calm' > 0
             PROVE  HighBackground'
  <2>1. B' = B /\ ctrl' = ctrl
    BY DotShifts DEF B
  <2>2. calm' \in 0..2
    BY DotTypes DEF Types
  <2>3. QED
    BY <2>1, <2>2 DEF HighBackground, Settled
<1>1. /\ Fetching /\ ~Touched
      /\ cycle # 0 => calm = calm' /\ calm > 0
      /\ cycle = 0 => calm' = IF calm < 2 THEN calm + 1 ELSE 2
      /\ calm \in 0..2 /\ cycle \in 0..LastDot
  BY CalmDot DEF Types
<1>2. \/ cycle' = 0 /\ cycle \in LastDot - 1..LastDot
      \/ cycle' = cycle + 1 /\ cycle \in 0..LastDot - 1
  BY NextDot
<1>3. cycle \in 1..LastDot =>
         /\ Level(Fetched) <=> E(cycle) >= 4 /\ ~SpriteDot
         /\ cycle \in 1..4 => ~Level(Fetched)
         /\ cycle \in TilesEnd + 1..SpritesEnd + 4 => ~Level(Fetched)
         /\ cycle \in PrefetchEnd + 1..LastDot => ~Level(Fetched)
         /\ cycle = 5 \/ cycle = SpritesEnd + 5 => Level(Fetched)
         /\ E(cycle) \in 0..7
  BY <1>1, HighLevels
<1>4. a12 = High \/ \E k \in Nat : a12 = Low(k)
  BY DEF Types, Filters
<1>5. LowDots \in Nat /\ LowDots >= 10 /\ LowDots <= 8 * Slots + 4
  BY PauseSizes
<1>6. CASE cycle \in 0..4
  <2>1. cycle' = cycle + 1 /\ Counted = rises /\ (cycle = 0 \/ ~Level(Fetched))
    BY <1>2, <1>3, <1>6, DotSizes DEF Counted
  <2>2. ASSUME Settled' PROVE (\E k \in 0..cycle' + 3 : a12' = Low(k)) /\ rises' = 1
    <3>1. Settled
      BY <1>1, <1>6, <2>1, <2>2 DEF Settled
    <3>2. (\E k \in 0..cycle + 3 : a12 = Low(k)) /\ rises = 1
      BY <1>6, <3>1, DotSizes DEF HighBackground
    <3>3. PICK k \in 0..cycle + 3 : a12 = Low(k)
      BY <3>2
    <3>4. a12' = Low(k + 1) /\ rises' = 1 /\ k \in Nat
      <4>1. k \in Nat
        BY <1>6
      <4>2. QED
        BY <1>1, <2>1, <3>2, <3>3, <4>1, FourSteps DEF CalmInvs
    <3>5. k + 1 \in 0..cycle' + 3
      BY <1>6, <2>1
    <3>6. QED
      BY <3>4, <3>5
  <2>3. /\ cycle' \notin 6..TilesEnd + 1 /\ cycle' \notin TilesEnd + 2..SpritesEnd + 5
        /\ cycle' \notin SpritesEnd + 6..PrefetchEnd + 1
        /\ cycle' \notin PrefetchEnd + 2..LastDot /\ cycle' \notin SpritesEnd + 6..LastDot
    BY <1>6, <2>1, DotSizes
  <2>4. QED
    BY <2>2, <2>3 DEF HighBackground
<1>7. CASE cycle = 5
  <2>1. cycle' = 6 /\ Level(Fetched) /\ cycle # 0 /\ Counted = rises
    BY <1>2, <1>3, <1>7, DotSizes DEF Counted
  <2>2. a12' = High
    BY <1>1, <1>4, <2>1, FourSteps DEF CalmInvs
  <2>3. ASSUME Settled' PROVE rises' = 1
    <3>1. Settled
      BY <1>1, <1>7, <2>1, <2>3 DEF Settled
    <3>2. (\E k \in 0..cycle + 3 : a12 = Low(k)) /\ rises = 1
      BY <1>7, <3>1, DotSizes DEF HighBackground
    <3>3. PICK k \in 0..cycle + 3 : a12 = Low(k)
      BY <3>2
    <3>4. k \in Nat /\ k + 1 < LowDots
      BY <1>5, <1>7
    <3>5. QED
      BY <1>1, <2>1, <3>2, <3>3, <3>4, FourSteps DEF CalmInvs
  <2>4. Phase(2)' = 4
    BY <2>1 DEF Phase
  <2>5. QED
    BY <2>1, <2>2, <2>3, <2>4, DotSizes DEF HighBackground
<1>8. CASE cycle \in 6..TilesEnd + 1
  <2>1. cycle' = cycle + 1 /\ cycle # 0 /\ cycle \in 1..LastDot
    BY <1>2, <1>8, DotSizes
  <2>2. a12 = IF Phase(2) > 3 THEN High ELSE Low(Phase(2))
    BY <1>1, <1>8, <2>1, DotSizes DEF HighBackground
  <2>3. cycle = TilesEnd + 1 => E(cycle) = 0
    BY DotSizes DEF E
  <2>4. (E(cycle) >= 4 => Level(Fetched)) /\ (E(cycle) < 4 => ~Level(Fetched))
    <3>1. CASE cycle = TilesEnd + 1
      BY <1>3, <2>1, <2>3, <3>1, DotSizes
    <3>2. CASE cycle # TilesEnd + 1
      <4>1. ~SpriteDot
        BY <1>8, <3>2, DotSizes DEF SpriteDot
      <4>2. QED
        BY <1>3, <2>1, <4>1
    <3>3. QED
      BY <3>1, <3>2
  <2>5. a12' = (IF E(cycle) > 3 THEN High ELSE Low(E(cycle))) /\ rises' = Counted
    <3>1. 0 \in Nat /\ cycle >= 8 * 0 + 2 /\ 8 * 0 + 2 = 2
      BY <1>8, DotSizes
    <3>2. QED
      BY <1>1, <2>2, <2>4, <3>1, PatternStep DEF CalmInvs
  <2>6. Phase(2)' = E(cycle) /\ E(cycle) \in Nat
    <3>1. 0 \in Nat /\ cycle \in Nat /\ cycle >= 8 * 0 + 1 /\ 8 * 0 + 2 = 2
      BY <1>8, DotSizes
    <3>2. QED
      BY <2>1, <3>1, PhaseIs DEF Phase
  <2>7. ASSUME Settled', cycle' \in 0..TilesEnd + 1 PROVE rises' = 1
    <3>1. Settled /\ Counted = rises
      BY <1>1, <1>8, <2>1, <2>7, DotSizes DEF Settled, Counted
    <3>2. rises = 1
      BY <1>8, <2>1, <2>7, <3>1, DotSizes DEF HighBackground
    <3>3. QED
      BY <2>5, <3>1, <3>2
  <2>8. cycle = TilesEnd + 1 => a12' = Low(0) /\ rises' = 0
    BY <2>3, <2>5 DEF Counted
  <2>9. QED
    BY <1>8, <2>1, <2>5, <2>6, <2>7, <2>8, DotSizes DEF HighBackground
<1>9. CASE cycle \in TilesEnd + 2..SpritesEnd + 4
  <2>1. /\ cycle' = cycle + 1 /\ cycle # 0 /\ cycle \in 1..LastDot /\ Counted = rises
        /\ ~Level(Fetched)
    BY <1>2, <1>3, <1>9, DotSizes DEF Counted
  <2>2. a12 = Low(cycle - TilesEnd - 2) /\ rises = 0
    BY <1>1, <1>9, <2>1, DotSizes DEF HighBackground
  <2>3. cycle - TilesEnd - 2 \in Nat /\ (cycle - TilesEnd - 2) + 1 = cycle' - TilesEnd - 2
    BY <1>9, <2>1, DotSizes
  <2>4. a12' = Low(cycle' - TilesEnd - 2) /\ rises' = 0
    BY <1>1, <2>1, <2>2, <2>3, FourSteps DEF CalmInvs
  <2>5. /\ cycle' \notin 6..TilesEnd + 1 /\ cycle' \notin 0..5 /\ cycle' \notin 0..TilesEnd + 1
        /\ cycle' \notin SpritesEnd + 6..PrefetchEnd + 1
        /\ cycle' \notin PrefetchEnd + 2..LastDot /\ cycle' \notin SpritesEnd + 6..LastDot
    BY <1>9, <2>1, DotSizes
  <2>6. QED
    BY <2>4, <2>5 DEF HighBackground
<1>10. CASE cycle = SpritesEnd + 5
  <2>1. /\ cycle' = SpritesEnd + 6 /\ cycle # 0 /\ cycle \in 1..LastDot /\ Counted = rises
        /\ Level(Fetched)
    BY <1>2, <1>3, <1>10, DotSizes DEF Counted
  <2>2. a12 = Low(cycle - TilesEnd - 2) /\ rises = 0
    BY <1>1, <1>10, <2>1, DotSizes DEF HighBackground
  <2>3. cycle - TilesEnd - 2 \in Nat /\ (cycle - TilesEnd - 2) + 1 >= LowDots
    BY <1>5, <1>10, DotSizes
  <2>4. a12' = High /\ rises' = 1
    BY <1>1, <2>1, <2>2, <2>3, FourSteps DEF CalmInvs
  <2>5. Phase(SpritesEnd + 2)' = 4
    BY <2>1, DotSizes DEF Phase
  <2>6. QED
    BY <2>1, <2>4, <2>5, DotSizes DEF HighBackground
<1>11. CASE cycle \in SpritesEnd + 6..PrefetchEnd + 1
  <2>1. cycle' = cycle + 1 /\ cycle # 0 /\ cycle \in 1..LastDot /\ Counted = rises
    BY <1>2, <1>11, DotSizes DEF Counted
  <2>2. /\ a12 = IF Phase(SpritesEnd + 2) > 3 THEN High ELSE Low(Phase(SpritesEnd + 2))
        /\ rises = 1
    BY <1>1, <1>11, <2>1, DotSizes DEF HighBackground
  <2>3. /\ SpritesEnd + 2 = 8 * (Columns + Slots) + 2 /\ Columns + Slots \in Nat
        /\ cycle >= 8 * (Columns + Slots) + 2
    BY <1>11, DotSizes
  <2>4. (E(cycle) >= 4 => Level(Fetched)) /\ (E(cycle) < 4 => ~Level(Fetched))
    <3>1. ~SpriteDot
      BY <1>11, DotSizes DEF SpriteDot
    <3>2. QED
      BY <1>3, <2>1, <3>1
  <2>5. a12' = (IF E(cycle) > 3 THEN High ELSE Low(E(cycle))) /\ rises' = 1
    BY <1>1, <2>1, <2>2, <2>3, <2>4, PatternStep DEF CalmInvs
  <2>6. Phase(SpritesEnd + 2)' = E(cycle) /\ E(cycle) \in Nat
    BY <2>1, <2>3, PhaseIs, DotSizes DEF Phase
  <2>7. cycle = PrefetchEnd + 1 => a12' = Low(0)
    <3>1. cycle = PrefetchEnd + 1 => E(cycle) = 0
      BY DotSizes DEF E
    <3>2. QED
      BY <2>5, <3>1
  <2>8. QED
    BY <1>11, <2>1, <2>5, <2>6, <2>7, DotSizes DEF HighBackground
<1>12. CASE cycle \in PrefetchEnd + 2..LastDot
  <2>1. /\ cycle # 0 /\ cycle \in 1..LastDot /\ Counted = rises /\ ~Level(Fetched)
    BY <1>3, <1>12, DotSizes DEF Counted
  <2>2. a12 = Low(cycle - PrefetchEnd - 2) /\ rises = 1
    BY <1>1, <1>12, <2>1, DotSizes DEF HighBackground
  <2>3. PICK k \in Nat : k = cycle - PrefetchEnd - 2 /\ k <= 2
    <3>1. cycle - PrefetchEnd - 2 \in Nat /\ cycle - PrefetchEnd - 2 <= 2
      BY <1>12, DotSizes
    <3>2. QED
      BY <3>1
  <2>4. a12' = Low(k + 1) /\ rises' = 1
    BY <1>1, <2>1, <2>2, <2>3, FourSteps DEF CalmInvs
  <2>5. CASE cycle' = 0
    <3>1. k + 1 \in 0..cycle' + 3
      BY <2>3, <2>5
    <3>2. \E j \in 0..cycle' + 3 : a12' = Low(j)
      BY <2>4, <3>1
    <3>3. QED
      BY <2>4, <2>5, <3>2, DotSizes DEF HighBackground
  <2>6. CASE cycle' = cycle + 1 /\ cycle < LastDot
    <3>1. k + 1 = cycle' - PrefetchEnd - 2
      BY <1>12, <2>3, <2>6, DotSizes
    <3>2. /\ cycle' \notin 6..TilesEnd + 1 /\ cycle' \notin 0..5 /\ cycle' \notin 0..TilesEnd + 1
          /\ cycle' \notin SpritesEnd + 6..PrefetchEnd + 1
          /\ cycle' \notin TilesEnd + 2..SpritesEnd + 5
      BY <1>12, <2>6, DotSizes
    <3>3. QED
      BY <2>4, <3>1, <3>2 DEF HighBackground
  <2>7. QED
    BY <1>2, <2>5, <2>6, DotSizes
<1>13. QED
  BY <1>1, <1>6, <1>7, <1>8, <1>9, <1>10, <1>11, <1>12, DotSizes

(* The program's acts end the calm or leave the filter alone.              *)
LEMMA FilterAccess ==
  ASSUME Types, CalmInvs, LowBackground, HighBackground,
         (\E c \in Ctrls : WriteCtrl(c)) \/ WriteMask \/ WriteScroll \/ WriteAddr
           \/ WriteData \/ ReadData \/ ReadStatus
  PROVE  CalmInvs' /\ LowBackground' /\ HighBackground'
<1>1. cycle' = cycle /\ carry' = carry /\ tablePatternBg' = tablePatternBg
  <2>1. Access
    BY DEF WriteCtrl, WriteMask, WriteScroll, WriteAddr, WriteData, ReadData, ReadStatus,
           Writes, Reads
  <2>2. QED
    BY <2>1 DEF Access, dotVars
<1>2. CASE (\E c \in Ctrls : WriteCtrl(c)) \/ WriteData
  <2>1. calm' = 0
    BY <1>2 DEF WriteCtrl, WriteData
  <2>2. ~(calm' > 0) /\ ~Settled'
    BY <2>1 DEF Settled
  <2>3. QED
    BY <1>1, <2>2 DEF CalmInvs, CarryInv, CalmInv, LowBackground, HighBackground
<1>3. CASE WriteMask \/ WriteScroll \/ WriteAddr \/ ReadData \/ ReadStatus
  <2>1. calm' = calm /\ a12' = a12 /\ rises' = rises /\ ctrl' = ctrl
    BY <1>3 DEF WriteMask, WriteScroll, WriteAddr, ReadData, ReadStatus, KeepsV
  <2>2. Settled' = Settled /\ B' = B /\ \A k : Phase(k)' = Phase(k)
    BY <1>1, <2>1 DEF Settled, B, Phase
  <2>3. CalmInvs'
    BY <1>1, <2>1, <2>2 DEF CalmInvs, CarryInv, CalmInv
  <2>4. LowBackground'
    BY <1>1, <2>1 DEF LowBackground, Settled, B, Phase
  <2>5. HighBackground'
    BY <1>1, <2>1 DEF HighBackground, Settled, B, Phase
  <2>6. QED
    BY <2>3, <2>4, <2>5
<1>4. QED
  BY <1>2, <1>3

FilterInv == Types /\ CalmInvs /\ LowBackground /\ HighBackground

(* The filter's invariant holds initially and is inductive.                *)
LEMMA FilterInit == Init => FilterInv
<1> SUFFICES ASSUME Init PROVE FilterInv
  OBVIOUS
<1>1. Types
  BY InitTypes
<1>2. calm = 0 /\ carry = NoAddress
  BY DEF Init
<1>3. ~(calm > 0) /\ ~Settled
  BY <1>2 DEF Settled
<1>4. QED
  BY <1>1, <1>2, <1>3 DEF FilterInv, CalmInvs, CarryInv, CalmInv, LowBackground, HighBackground

LEMMA FilterStep == FilterInv /\ [Next]_vars => FilterInv'
<1> SUFFICES ASSUME FilterInv, [Next]_vars PROVE FilterInv'
  OBVIOUS
<1> USE DEF FilterInv
<1>1. Types'
  BY StepTypes
<1>2. CASE Dot
  BY <1>1, <1>2, CalmInvsDot, LowBackgroundDot, HighBackgroundDot
<1>3. CASE (\E c \in Ctrls : WriteCtrl(c)) \/ WriteMask \/ WriteScroll \/ WriteAddr
           \/ WriteData \/ ReadData \/ ReadStatus
  BY <1>1, <1>3, FilterAccess
<1>4. CASE UNCHANGED vars
  <2>1. /\ cycle' = cycle /\ carry' = carry /\ tablePatternBg' = tablePatternBg
        /\ calm' = calm /\ a12' = a12 /\ rises' = rises /\ ctrl' = ctrl
    BY <1>4 DEF vars, history, dotVars, busVars
  <2>2. CalmInvs'
    BY <2>1 DEF CalmInvs, CarryInv, CalmInv, B
  <2>3. LowBackground'
    BY <2>1 DEF LowBackground, Settled, B, Phase
  <2>4. HighBackground'
    BY <2>1 DEF HighBackground, Settled, B, Phase
  <2>5. QED
    BY <1>1, <2>2, <2>3, <2>4
<1>5. QED
  BY <1>2, <1>3, <1>4 DEF Next

(* The A12 filter counts each line of a calm picture once, whichever table *)
(* background and sprites are in, for lines of every length.               *)
THEOREM OneClockPerLineHolds == Spec => OneClockPerLine
<1>1. ASSUME FilterInv, FilterInv', cycle = TilesEnd, calm' = 2,
             ctrl.background # ctrl.sprite, Dot
      PROVE  rises' = 1
  <2>1. cycle' = TilesEnd + 1
    BY <1>1, NextDot, DotSizes DEF FilterInv
  <2>2. ctrl' = ctrl
    BY <1>1, DotShifts DEF FilterInv
  <2>3. (B = 0 /\ ctrl.sprite = 1) \/ (B = 1 /\ ctrl.sprite = 0)
    BY <1>1, CtrlType DEF B, FilterInv
  <2>4. (B' = 0 /\ ctrl'.sprite = 1) \/ (B' = 1 /\ ctrl'.sprite = 0)
    BY <2>2, <2>3 DEF B
  <2>5. Settled' /\ cycle' \in 0..TilesEnd + 1
    BY <1>1, <2>1, DotSizes DEF Settled
  <2>6. QED
    BY <1>1, <2>4, <2>5 DEF FilterInv, LowBackground, HighBackground
<1>2. FilterInv /\ FilterInv' /\ [Next]_vars =>
        [cycle = TilesEnd /\ calm' = 2 /\ ctrl.background # ctrl.sprite /\ Dot => rises' = 1]_vars
  BY <1>1
<1>3. QED
  BY <1>2, FilterInit, FilterStep, PTL DEF Spec, OneClockPerLine

-----------------------------------------------------------------------------
(* MMC5's counters.                                                        *)
Fresh(m) == /\ ~m.inFrame /\ ~m.scanlinePending
            /\ m.repeatedAddress = 0 /\ m.lastPpuAddress = NoAddress

CountAfter(m) == (m.irqCounter + 1) % 256

(* A read by the fields it leaves.                                         *)
LEMMA DetectFields ==
  ASSUME NEW m \in LineCounters, NEW target \in Nat
  PROVE  /\ DetectScanline(m, target).inFrame = TRUE
         /\ DetectScanline(m, target).idleCpuCycles = m.idleCpuCycles
         /\ ~m.inFrame => /\ DetectScanline(m, target).irqCounter = 0
                          /\ DetectScanline(m, target).irqPending = FALSE
         /\ m.inFrame => /\ DetectScanline(m, target).irqCounter = CountAfter(m)
                         /\ DetectScanline(m, target).irqPending
                              <=> m.irqPending \/ (CountAfter(m) = target /\ target # 0)
<1> DEFINE d == DetectScanline(m, target)
           count == CountAfter(m)
<1>1. CASE ~m.inFrame
  <2>1. d = [m EXCEPT !.inFrame = TRUE, !.irqCounter = 0, !.irqPending = FALSE]
    BY <1>1, Zenon DEF DetectScanline
  <2> HIDE DEF d
  <2>2. d.inFrame = TRUE /\ d.idleCpuCycles = m.idleCpuCycles /\ d.irqCounter = 0 /\ d.irqPending = FALSE
    BY <2>1 DEF LineCounters
  <2>3. QED
    BY <1>1, <2>2 DEF d
<1>2. CASE m.inFrame
  <2>1. PICK p \in BOOLEAN : p = (m.irqPending \/ (count = target /\ target # 0))
    <3>1. (m.irqPending \/ (count = target /\ target # 0)) \in BOOLEAN
      BY Zenon
    <3>2. QED
      BY <3>1, Zenon
  <2>2. d = [m EXCEPT !.irqCounter = count, !.irqPending = p]
    BY <1>2, <2>1, Zenon DEF DetectScanline, CountAfter
  <2> HIDE DEF d, count
  <2>3. /\ d.inFrame = m.inFrame /\ d.idleCpuCycles = m.idleCpuCycles /\ d.irqCounter = count
        /\ d.irqPending = p
    BY <2>2 DEF LineCounters
  <2>4. m.inFrame = TRUE
    BY <1>2 DEF LineCounters
  <2>5. QED
    BY <1>2, <2>1, <2>3, <2>4, Zenon DEF d, count
<1>3. QED
  BY <1>1, <1>2

LineStep(n, m, x, named, target) ==
  LET again == named /\ x = m.lastPpuAddress
  IN /\ n.lastPpuAddress = x
     /\ ~named => n.repeatedAddress = 0
     /\ ~m.scanlinePending =>
          /\ n.inFrame = m.inFrame /\ n.irqCounter = m.irqCounter
          /\ n.irqPending = m.irqPending
          /\ again => n.repeatedAddress = IF m.repeatedAddress < 3
                                          THEN m.repeatedAddress + 1 ELSE 3
          /\ named /\ ~again => n.repeatedAddress = 1
          /\ n.scanlinePending <=> again /\ m.repeatedAddress >= 2
     /\ m.scanlinePending =>
          /\ n.inFrame = TRUE /\ n.repeatedAddress <= 1 /\ n.scanlinePending = FALSE
          /\ ~m.inFrame => n.irqCounter = 0 /\ n.irqPending = FALSE
          /\ m.inFrame => /\ n.irqCounter = CountAfter(m)
                          /\ n.irqPending <=> m.irqPending
                               \/ (CountAfter(m) = target /\ target # 0)

(* What a read leaves, whether it completes a line or not.                 *)
LEMMA ReadFields ==
  ASSUME NEW m \in LineCounters, NEW addr \in Nat, NEW named \in BOOLEAN, NEW target \in Nat
  PROVE  /\ LineStep(PpuReadCycle(m, addr, named, target), m, addr, named, target)
         /\ PpuReadCycle(m, addr, named, target) \in LineCounters
         /\ PpuReadCycle(m, addr, named, target).readThisCycle = TRUE
<1> DEFINE n == PpuReadCycle(m, addr, named, target)
           d == IF m.scanlinePending
                THEN [DetectScanline(m, target) EXCEPT !.scanlinePending = FALSE,
                                                       !.repeatedAddress = 0]
                ELSE m
           again == named /\ addr = m.lastPpuAddress
           count == IF d.repeatedAddress < 3 THEN d.repeatedAddress + 1 ELSE 3
           rep == CASE again -> count [] named /\ ~again -> 1 [] OTHER -> 0
<1>0. n \in LineCounters
  BY PpuReadType
<1>1. /\ d \in LineCounters /\ (~m.scanlinePending => d = m)
      /\ m.scanlinePending => d.repeatedAddress = 0
      /\ \E f \in LineCounters : /\ f = DetectScanline(m, target)
                                 /\ m.scanlinePending =>
                                      /\ d.inFrame = f.inFrame /\ d.irqCounter = f.irqCounter
                                      /\ d.irqPending = f.irqPending
                                      /\ d.idleCpuCycles = f.idleCpuCycles
  <2>1. PICK f \in LineCounters : f = DetectScanline(m, target)
    BY DetectType
  <2>2. PICK z \in 0..3, no \in BOOLEAN : z = 0 /\ no = FALSE
    <3>1. 0 \in 0..3 /\ FALSE \in BOOLEAN
      OBVIOUS
    <3>2. QED
      BY <3>1, Zenon
  <2>3. PICK g : g = [f EXCEPT !.scanlinePending = no, !.repeatedAddress = z]
    OBVIOUS
  <2>4. g \in LineCounters
    BY <2>3, RepeatFields
  <2>5. /\ g.repeatedAddress = z
        /\ g.inFrame = f.inFrame /\ g.irqCounter = f.irqCounter
        /\ g.irqPending = f.irqPending /\ g.idleCpuCycles = f.idleCpuCycles
    BY <2>3 DEF LineCounters
  <2>6. d = IF m.scanlinePending THEN g ELSE m
    BY <2>1, <2>2, <2>3, Zenon
  <2> HIDE DEF d
  <2>7. CASE m.scanlinePending
    BY <2>1, <2>2, <2>4, <2>5, <2>6, <2>7
  <2>8. CASE ~m.scanlinePending
    BY <2>1, <2>6, <2>8
  <2>9. QED
    BY <2>7, <2>8
<1> HIDE DEF d
<1>2. count \in 0..3 /\ rep \in 0..3
  BY <1>1 DEF LineCounters
<1>3. PICK r \in 0..3, p \in BOOLEAN : r = rep /\ p = (again /\ count = 3)
  <2>1. (again /\ count = 3) \in BOOLEAN
    BY Zenon
  <2>2. QED
    BY <1>2, <2>1, Zenon
<1>4. n = [d EXCEPT !.readThisCycle = TRUE, !.lastPpuAddress = addr, !.repeatedAddress = r,
                    !.scanlinePending = p]
  BY <1>3, Zenon DEF PpuReadCycle, d
<1>40. (p <=> again /\ count = 3) /\ r = rep
  BY <1>3, Zenon
<1> HIDE DEF n
<1>5. /\ n.readThisCycle = TRUE /\ n.lastPpuAddress = addr /\ n.repeatedAddress = r
      /\ n.scanlinePending = p /\ n.inFrame = d.inFrame /\ n.irqCounter = d.irqCounter
      /\ n.irqPending = d.irqPending /\ n.idleCpuCycles = d.idleCpuCycles
  BY <1>1, <1>4 DEF LineCounters
<1>6. ~named => r = 0
  BY <1>3
<1>7. CASE ~m.scanlinePending
  <2>1. d = m
    BY <1>1, <1>7
  <2>2. again => r = IF m.repeatedAddress < 3 THEN m.repeatedAddress + 1 ELSE 3
    BY <1>3, <2>1
  <2>3. named /\ ~again => r = 1
    BY <1>3
  <2>4. m.repeatedAddress \in 0..3
    BY DEF LineCounters
  <2>5. count = 3 <=> m.repeatedAddress >= 2
    BY <2>1, <2>4
  <2>50. p <=> again /\ m.repeatedAddress >= 2
    BY <1>40, <2>5, Zenon
  <2>6. QED
    BY <1>0, <1>5, <1>6, <1>7, <2>1, <2>2, <2>3, <2>50 DEF n, LineStep
<1>8. CASE m.scanlinePending
  <2>1. PICK f \in LineCounters : /\ f = DetectScanline(m, target)
                                  /\ d.inFrame = f.inFrame /\ d.irqCounter = f.irqCounter
                                  /\ d.irqPending = f.irqPending
                                  /\ d.idleCpuCycles = f.idleCpuCycles
    BY <1>1, <1>8
  <2>2. d.repeatedAddress = 0
    BY <1>1, <1>8
  <2>3. count = 1 /\ rep \in {0, 1}
    BY <2>2
  <2>4. r <= 1 /\ ~p
    BY <1>40, <2>3
  <2>5. /\ n.inFrame = TRUE
        /\ ~m.inFrame => n.irqCounter = 0 /\ n.irqPending = FALSE
        /\ m.inFrame => /\ n.irqCounter = CountAfter(m)
                        /\ n.irqPending <=> m.irqPending \/ (CountAfter(m) = target /\ target # 0)
        /\ n.idleCpuCycles = m.idleCpuCycles
    <3>1. /\ f.inFrame = TRUE /\ f.idleCpuCycles = m.idleCpuCycles
          /\ ~m.inFrame => f.irqCounter = 0 /\ f.irqPending = FALSE
          /\ m.inFrame => /\ f.irqCounter = CountAfter(m)
                          /\ f.irqPending <=> m.irqPending \/ (CountAfter(m) = target /\ target # 0)
      <4>1. PICK c : c = CountAfter(m)
        OBVIOUS
      <4>2. PICK g : g = DetectScanline(m, target)
        OBVIOUS
      <4>3. /\ g.inFrame = TRUE /\ g.idleCpuCycles = m.idleCpuCycles
            /\ ~m.inFrame => g.irqCounter = 0 /\ g.irqPending = FALSE
            /\ m.inFrame => /\ g.irqCounter = c
                            /\ g.irqPending <=> m.irqPending \/ (c = target /\ target # 0)
        BY <4>1, <4>2, DetectFields, Zenon
      <4>4. f = g
        BY <2>1, <4>2
      <4>5. QED
        BY <4>1, <4>3, <4>4, Zenon
    <3>2. /\ n.inFrame = f.inFrame /\ n.irqCounter = f.irqCounter
          /\ n.irqPending = f.irqPending /\ n.idleCpuCycles = f.idleCpuCycles
      BY <1>5, <2>1
    <3>3. QED
      BY <3>1, <3>2, Zenon
  <2>6. n.scanlinePending = FALSE /\ n.repeatedAddress <= 1
    BY <1>5, <2>4
  <2>7. QED
    BY <1>0, <1>5, <1>6, <1>8, <2>5, <2>6, Zenon DEF n, LineStep
<1>9. QED
  BY <1>7, <1>8

(* A cycle of the processor: the third without a read forgets the frame.   *)
LEMMA ClockFields ==
  ASSUME NEW m \in LineCounters
  PROVE  LET n == MMC5Clocked(m)
         IN /\ n \in LineCounters /\ n.readThisCycle = FALSE
            /\ n.irqCounter = m.irqCounter /\ n.irqPending = m.irqPending
            /\ m.readThisCycle => n.idleCpuCycles = 0
            /\ ~m.readThisCycle /\ m.idleCpuCycles < 3 => n.idleCpuCycles = m.idleCpuCycles + 1
            /\ ~m.readThisCycle /\ m.idleCpuCycles = 3 => n.idleCpuCycles = 3
            /\ m.readThisCycle \/ m.idleCpuCycles # 2 =>
                 /\ n.inFrame = m.inFrame /\ n.scanlinePending = m.scanlinePending
                 /\ n.repeatedAddress = m.repeatedAddress /\ n.lastPpuAddress = m.lastPpuAddress
            /\ ~m.readThisCycle /\ m.idleCpuCycles = 2 => Fresh(n)
<1> DEFINE n == MMC5Clocked(m)
           idle == CASE m.readThisCycle -> 0
                     [] ~m.readThisCycle /\ m.idleCpuCycles < 3 -> m.idleCpuCycles + 1
                     [] OTHER -> 3
           timed == [m EXCEPT !.readThisCycle = FALSE, !.idleCpuCycles = idle]
           forgot == [timed EXCEPT !.inFrame = FALSE, !.lastPpuAddress = NoAddress,
                                   !.repeatedAddress = 0, !.scanlinePending = FALSE]
<1>0. n \in LineCounters
  BY MMC5ClockedType
<1>1. m.idleCpuCycles \in 0..3 /\ m.readThisCycle \in BOOLEAN
  BY DEF LineCounters
<1>2. /\ m.readThisCycle => idle = 0
      /\ ~m.readThisCycle /\ m.idleCpuCycles < 3 => idle = m.idleCpuCycles + 1
      /\ ~m.readThisCycle /\ m.idleCpuCycles = 3 => idle = 3
  BY <1>1
<1>3. n = IF idle = 3 /\ m.idleCpuCycles < 3 THEN forgot ELSE timed
  BY Zenon DEF MMC5Clocked
<1> HIDE DEF n, idle
<1>4. /\ timed.readThisCycle = FALSE /\ timed.idleCpuCycles = idle
      /\ timed.inFrame = m.inFrame /\ timed.scanlinePending = m.scanlinePending
      /\ timed.repeatedAddress = m.repeatedAddress /\ timed.lastPpuAddress = m.lastPpuAddress
      /\ timed.irqCounter = m.irqCounter /\ timed.irqPending = m.irqPending
  BY DEF LineCounters
<1>5. /\ forgot.readThisCycle = FALSE /\ forgot.idleCpuCycles = idle
      /\ forgot.inFrame = FALSE /\ forgot.scanlinePending = FALSE
      /\ forgot.repeatedAddress = 0 /\ forgot.lastPpuAddress = NoAddress
      /\ forgot.irqCounter = m.irqCounter /\ forgot.irqPending = m.irqPending
  BY DEF LineCounters
<1> HIDE DEF timed, forgot
<1>6. CASE ~m.readThisCycle /\ m.idleCpuCycles = 2
  <2>1. n = forgot
    BY <1>2, <1>3, <1>6
  <2>2. QED
    BY <1>0, <1>2, <1>5, <1>6, <2>1 DEF Fresh, n
<1>7. CASE m.readThisCycle \/ m.idleCpuCycles # 2
  <2>1. n = timed
    BY <1>1, <1>2, <1>3, <1>7
  <2>2. QED
    BY <1>0, <1>1, <1>2, <1>4, <1>7, <2>1 DEF n
<1>8. QED
  BY <1>1, <1>6, <1>7

(* The same, with a name for the number of events.                         *)
Runs(h, b, events, n) ==
  /\ h[0] = b /\ Seen(b, events) = h[n]
  /\ \A k \in 0..n - 1 : h[k + 1] = Sees(h[k], events[k + 1])

LEMMA SeenRuns ==
  ASSUME NEW b, NEW S, NEW events \in Seq(S), NEW n, n = Len(events)
  PROVE  \E h : Runs(h, b, events, n)
<1>1. PICK h : /\ h[0] = b /\ Seen(b, events) = h[Len(events)]
               /\ \A k \in 0..Len(events) - 1 : h[k + 1] = Sees(h[k], events[k + 1])
  BY SeenSteps
<1>2. Runs(h, b, events, n)
  BY <1>1 DEF Runs
<1>3. QED
  BY <1>2

(* Events seen one after the other.                                        *)
LEMMA SeenTwice ==
  ASSUME NEW b, NEW S, NEW p \in Seq(S), NEW q \in Seq(S)
  PROVE  Seen(b, p \o q) = Seen(Seen(b, p), q)
<1> DEFINE s == p \o q
<1>0. PICK n \in Nat, m \in Nat : n = Len(p) /\ m = Len(q)
  OBVIOUS
<1>1. /\ s \in Seq(S) /\ Len(s) = n + m
      /\ \A k \in 1..n : s[k] = p[k]
      /\ \A k \in 1..m : s[n + k] = q[k]
  BY <1>0
<1>2. PICK h : Runs(h, b, s, n + m)
  BY <1>1, SeenRuns
<1> HIDE DEF s
<1>3. PICK g : Runs(g, b, p, n)
  BY <1>0, SeenRuns
<1>4. PICK f : Runs(f, g[n], q, m)
  BY <1>0, SeenRuns
<1> USE DEF Runs
<1> DEFINE T == {k \in 0..n : h[k] # g[k]}
           U == {k \in 0..m : h[n + k] # f[k]}
<1>5. T = {}
  <2> SUFFICES ASSUME T # {} PROVE FALSE
    OBVIOUS
  <2>1. PICK k \in T : \A y \in T : k <= y
    <3>1. T \subseteq Nat
      OBVIOUS
    <3>2. QED
      BY <3>1, LeastNumber
  <2>2. k # 0 /\ k \in 0..n
    BY <1>2, <1>3, <2>1
  <2>3. PICK j : j = k - 1
    OBVIOUS
  <2>4. j \in 0..n - 1 /\ j \in 0..(n + m) - 1 /\ j \in 0..n /\ j + 1 = k /\ k \in 1..n /\ ~(k <= j)
    BY <2>2, <2>3
  <2>5. h[j] = g[j]
    BY <2>1, <2>4
  <2>6. h[k] = Sees(h[j], s[k]) /\ g[k] = Sees(g[j], p[k]) /\ s[k] = p[k]
    BY <1>1, <1>2, <1>3, <2>4
  <2>7. QED
    BY <2>1, <2>5, <2>6
<1>6. h[n] = g[n]
  BY <1>5
<1>7. U = {}
  <2> SUFFICES ASSUME U # {} PROVE FALSE
    OBVIOUS
  <2>1. PICK k \in U : \A y \in U : k <= y
    <3>1. U \subseteq Nat
      OBVIOUS
    <3>2. QED
      BY <3>1, LeastNumber
  <2>2. k # 0 /\ k \in 0..m
    BY <1>4, <1>6, <2>1
  <2>3. PICK j : j = k - 1
    OBVIOUS
  <2>4. j \in 0..m - 1 /\ j \in 0..m /\ j + 1 = k /\ k \in 1..m /\ ~(k <= j)
    BY <2>2, <2>3
  <2>5. h[n + j] = f[j]
    BY <2>1, <2>4
  <2>6. n + j \in 0..(n + m) - 1 /\ (n + j) + 1 = n + k
    BY <2>2, <2>4
  <2>7. h[n + k] = Sees(h[n + j], s[n + k])
    BY <1>2, <2>6
  <2>8. f[k] = Sees(f[j], q[k]) /\ s[n + k] = q[k]
    BY <1>1, <1>4, <2>4
  <2>9. QED
    BY <2>1, <2>5, <2>7, <2>8
<1>8. h[n + m] = f[m]
  BY <1>7
<1>9. QED
  BY <1>2, <1>3, <1>4, <1>8 DEF s

(* MMC5 sees what is read, and nothing of what is only driven.             *)
ReadBy(m, x) == PpuReadCycle(m, x, Named(x), irqTarget)

LEMMA SeesLines ==
  ASSUME NEW b, NEW x, NEW drives
  PROVE  /\ Sees(b, [addr |-> x, drives |-> drives, reads |-> FALSE]).mmc5 = b.mmc5
         /\ Sees(b, [addr |-> x, drives |-> drives, reads |-> TRUE]).mmc5 = ReadBy(b.mmc5, x)
BY DEF Sees, ReadBy

(* An address driven, and one read.                                        *)
LEMMA DrivenLines ==
  ASSUME NEW b, NEW a
  PROVE  /\ Seen(b, Driven(a)).mmc5 = b.mmc5
         /\ Seen(b, Read(a)).mmc5 = ReadBy(b.mmc5, a % Bus)
<1>1. PICK x, d, r : /\ x = a % Bus
                     /\ d = [addr |-> x, drives |-> TRUE, reads |-> FALSE]
                     /\ r = [addr |-> x, drives |-> TRUE, reads |-> TRUE]
  OBVIOUS
<1>2. Driven(a) = <<d>> /\ Read(a) = <<r>>
  BY <1>1 DEF Driven, Read
<1>3. Seen(b, Driven(a)) = Sees(b, d) /\ Seen(b, Read(a)) = Sees(b, r)
  BY <1>2, SeenOne
<1>4. Sees(b, d).mmc5 = b.mmc5 /\ Sees(b, r).mmc5 = ReadBy(b.mmc5, x)
  BY <1>1, SeesLines, Zenon
<1>5. QED
  BY <1>1, <1>3, <1>4

AfterCarry == IF carry # NoAddress /\ rendering THEN ReadBy(mmc5, Latched(carry)) ELSE mmc5
AfterFetch == IF Finishes THEN ReadBy(AfterCarry, Latched(Fetched)) ELSE AfterCarry

(* What MMC5 sees of a dot: a read carried into it, the fetch it finishes, *)
(* and the $2007 read that is due.                                         *)
LEMMA OnBusLines ==
  ASSUME Types, NEW low \in 0..Page - 1, NEW b
  PROVE  LET m == IF Finishes THEN ReadBy(b.mmc5, Latched(Fetched)) ELSE b.mmc5
             n == Seen(b, OnBus(low)).mmc5
         IN /\ Due = NoAddress \/ Finishes => n = m
            /\ Due # NoAddress /\ ~Begins /\ ~Finishes => n = ReadBy(m, Due)
            /\ Due # NoAddress /\ Begins => \E x \in BusAddress : n = ReadBy(m, x)
<1> DEFINE p == IF Head(addrWrite) # NoAddress THEN Driven(Arrived) ELSE <<>>
           q == Updates(low)
           r == IF Due # NoAddress THEN Driven(Scrolled) \o Driven(Reached) ELSE <<>>
           m == IF Finishes THEN ReadBy(b.mmc5, Latched(Fetched)) ELSE b.mmc5
<1>1. OnBus(low) = ((p \o Fetches) \o q) \o r
  BY Zenon DEF OnBus, Fetches
<1>2. p \in Seq(Accesses) /\ \A c : Seen(c, p).mmc5 = c.mmc5
  BY ArrivedType, DrivenType, DrivenLines, SeenNone
<1>3. Fetches \in Seq(Accesses)
  BY FetchesType
<1>4. q \in Seq(Accesses)
  BY UpdatesType
<1>5. r \in Seq(Accesses) /\ \A c : Seen(c, r).mmc5 = c.mmc5
  <2>1. Driven(Scrolled) \in Seq(Accesses) /\ Driven(Reached) \in Seq(Accesses)
    BY ScrolledType, ReachedType, DrivenType
  <2>2. \A c : Seen(c, Driven(Scrolled) \o Driven(Reached)) = Seen(Seen(c, Driven(Scrolled)), Driven(Reached))
    BY <2>1, SeenTwice
  <2>3. \A c : Seen(c, Driven(Scrolled) \o Driven(Reached)).mmc5 = c.mmc5
    BY <2>2, DrivenLines
  <2>4. QED
    BY <2>1, <2>3, SeenNone
<1>6. ~(Begins /\ Finishes)
  BY DEF Begins, Finishes, Types
<1>7. \A c : Seen(c, Fetches).mmc5 = IF Finishes THEN ReadBy(c.mmc5, Latched(Fetched)) ELSE c.mmc5
  <2>1. CASE Begins
    BY <1>6, <2>1, DrivenLines DEF Fetches
  <2>2. CASE Finishes
    <3>1. Fetches = Read(Latched(Fetched))
      BY <1>6, <2>2 DEF Fetches
    <3>2. Latched(Fetched) % Bus = Latched(Fetched)
      BY FetchedIs, LatchedType
    <3>3. QED
      BY <2>2, <3>1, <3>2, DrivenLines
  <2>3. CASE ~Begins /\ ~Finishes
    BY <2>3, SeenNone DEF Fetches
  <2>4. QED
    BY <2>1, <2>2, <2>3
<1>8. /\ Due = NoAddress \/ Finishes => \A c : Seen(c, q).mmc5 = c.mmc5
      /\ Due # NoAddress /\ ~Begins /\ ~Finishes =>
           \A c : Seen(c, q).mmc5 = ReadBy(c.mmc5, Due)
      /\ Due # NoAddress /\ Begins =>
           \E x \in BusAddress : \A c : Seen(c, q).mmc5 = ReadBy(c.mmc5, x)
  <2>1. CASE Due = NoAddress \/ Finishes
    <3>1. q = << >>
      BY <1>6, <2>1 DEF Updates
    <3>2. QED
      BY <1>6, <2>1, <3>1, SeenNone
  <2>2. CASE Due # NoAddress /\ ~Begins /\ ~Finishes
    <3>1. PICK e : e = [addr |-> Due, drives |-> FALSE, reads |-> TRUE]
      OBVIOUS
    <3>2. q = <<e>>
      BY <2>2, <3>1 DEF Updates
    <3>3. \A c : Seen(c, q) = Sees(c, e)
      BY <3>2, SeenOne
    <3>4. \A c : Sees(c, e).mmc5 = ReadBy(c.mmc5, Due)
      BY <3>1, SeesLines, Zenon
    <3>5. QED
      BY <2>2, <3>3, <3>4
  <2>3. CASE Due # NoAddress /\ Begins
    <3>1. q = Read((Page * (Fetched \div Page)) + low)
      BY <1>6, <2>3 DEF Updates
    <3>2. ((Page * (Fetched \div Page)) + low) % Bus \in BusAddress
      <4>1. (Page * (Fetched \div Page)) + low \in Nat
        BY FetchedIs, LatchedLevel DEF BusAddress
      <4>2. QED
        BY <4>1, BusSizes, Divides DEF BusAddress
    <3>3. QED
      BY <1>6, <2>3, <3>1, <3>2, DrivenLines
  <2>4. QED
    BY <2>1, <2>2, <2>3
<1> HIDE DEF p, q, r
<1>9. Seen(b, OnBus(low)) = Seen(Seen(Seen(Seen(b, p), Fetches), q), r)
  <2>0. PICK pf \in Seq(Accesses) : pf = p \o Fetches
    <3>1. p \o Fetches \in Seq(Accesses)
      BY <1>2, <1>3
    <3>2. QED
      BY <3>1, Zenon
  <2>1. PICK pfq \in Seq(Accesses) : pfq = pf \o q
    <3>1. pf \o q \in Seq(Accesses)
      BY <1>4
    <3>2. QED
      BY <3>1, Zenon
  <2>2. Seen(b, pfq \o r) = Seen(Seen(b, pfq), r)
    BY <1>5, SeenTwice
  <2>3. Seen(b, pf \o q) = Seen(Seen(b, pf), q)
    BY <1>4, SeenTwice
  <2>4. Seen(b, p \o Fetches) = Seen(Seen(b, p), Fetches)
    BY <1>2, <1>3, SeenTwice
  <2>5. OnBus(low) = pfq \o r
    BY <1>1, <2>0, <2>1, Zenon
  <2>6. QED
    BY <2>0, <2>1, <2>2, <2>3, <2>4, <2>5, Zenon
<1>10. PICK c : c = Seen(Seen(b, p), Fetches)
  OBVIOUS
<1>11. c.mmc5 = m /\ Seen(b, OnBus(low)).mmc5 = Seen(c, q).mmc5
  BY <1>2, <1>5, <1>7, <1>9, <1>10
<1> HIDE DEF m
<1>12. QED
  BY <1>8, <1>11 DEF m

(* What a dot leaves of MMC5's counters, before its clock.                 *)
LEMMA LinesDot ==
  ASSUME Types, Dot
  PROVE  \E m \in LineCounters :
           /\ mmc5' = IF third = 1 THEN MMC5Clocked(m) ELSE m
           /\ Due = NoAddress \/ Finishes => m = AfterFetch
           /\ Due # NoAddress /\ ~Begins /\ ~Finishes => m = ReadBy(AfterFetch, Due)
           /\ Due # NoAddress /\ Begins => \E x \in BusAddress : m = ReadBy(AfterFetch, x)
<1> DEFINE b == [Before EXCEPT !.a12 = A12Clocked(@)]
<1>1. PICK low \in 0..Page - 1 :
        mmc5' = IF third = 1 THEN MMC5Clocked(After12(low).mmc5) ELSE After12(low).mmc5
  BY Zenon DEF Dot, After12, Before
<1>2. After12(low) \in Views
  BY AfterType
<1>3. After12(low).mmc5 \in LineCounters
  BY <1>2 DEF Views
<1>4. b.mmc5 = AfterCarry
  <2>1. PICK g : g = A12Clocked(Before.a12)
    OBVIOUS
  <2>2. Before \in Views
    BY BeforeType
  <2>3. [Before EXCEPT !.a12 = g].mmc5 = Before.mmc5
    BY <2>2 DEF Views
  <2>4. b = [Before EXCEPT !.a12 = g]
    BY <2>1, Zenon
  <2>5. b.mmc5 = Before.mmc5
    BY <2>3, <2>4
  <2>6. PICK d : d = Boards(IF cycle = TilesEnd + 1 THEN 0 ELSE rises)
    OBVIOUS
  <2>7. d.mmc5 = mmc5 /\ Before = Seen(d, Carried)
    BY <2>6 DEF Boards, Before
  <2>8. CASE carry # NoAddress /\ rendering
    <3>1. carry \in BusAddress
      BY <2>8, NameIsOnBus DEF Types, Maybe
    <3>2. Latched(carry) % Bus = Latched(carry)
      BY <3>1, LatchedType
    <3>3. Carried = Read(Latched(carry))
      BY <2>8 DEF Carried
    <3>4. QED
      BY <2>5, <2>7, <2>8, <3>2, <3>3, DrivenLines DEF AfterCarry
  <2>9. CASE ~(carry # NoAddress /\ rendering)
    <3>1. Carried = << >>
      BY <2>9 DEF Carried
    <3>2. QED
      BY <2>5, <2>7, <2>9, <3>1, SeenNone DEF AfterCarry
  <2>10. QED
    BY <2>8, <2>9
<1>5. After12(low) = Seen(b, OnBus(low))
  BY DEF After12
<1> HIDE DEF b
<1>6. PICK n : n = After12(low).mmc5
  OBVIOUS
<1>7. /\ Due = NoAddress \/ Finishes => n = AfterFetch
      /\ Due # NoAddress /\ ~Begins /\ ~Finishes => n = ReadBy(AfterFetch, Due)
      /\ Due # NoAddress /\ Begins => \E x \in BusAddress : n = ReadBy(AfterFetch, x)
  <2>1. AfterFetch = IF Finishes THEN ReadBy(b.mmc5, Latched(Fetched)) ELSE b.mmc5
    BY <1>4 DEF AfterFetch
  <2>2. n = Seen(b, OnBus(low)).mmc5
    BY <1>5, <1>6
  <2>3. QED
    BY <2>1, <2>2, OnBusLines
<1>8. QED
  BY <1>1, <1>3, <1>6, <1>7

(* The dots until three cycles without a read have passed, if none comes,  *)
(* and MMC5 takes the PPU to be stopped; none, if it does.                 *)
Wait == CASE third = 0 -> 2 [] third = 1 -> 1 [] OTHER -> 3
LeftOf(m, w) ==
  CASE Fresh(m)                        -> 0
    [] ~Fresh(m) /\ m.readThisCycle    -> w + 9
    [] OTHER                           -> w + 3 * (2 - m.idleCpuCycles)
Left == LeftOf(mmc5, Wait)
IdleInv ==
  /\ third = 2 => ~mmc5.readThisCycle
  /\ Fresh(mmc5) \/ mmc5.readThisCycle \/ mmc5.idleCpuCycles < 3

(* Where the processor is while something is on its way.                   *)
Aligned ==
  /\ mask # enabling[4]        => third = 2 /\ rest = Spacing
  /\ enabling[4] # enabling[3] => third = 0 /\ rest = Spacing - 1
  /\ enabling[3] # enabling[2] => third = 1 /\ rest = Spacing - 2
  /\ enabling[2] # enabling[1] => third = 2 /\ rest = Spacing - 3
  /\ enabling[1] # rendering   => third = 0 /\ rest = Spacing - 4
  /\ readPending # NoAddress => third = 0
  /\ dataRead[4] # NoAddress => third = 1
  /\ dataRead[3] # NoAddress => third = 2
  /\ dataRead[2] # NoAddress => third = 0
  /\ dataRead[1] # NoAddress => third = 1

(* Rendering does not come back before MMC5 has noticed it is off.         *)
DarkInv ==
  /\ ~enabling[1] => Left <= IF mask THEN 4 - (Spacing - rest) ELSE rest + 4
  /\ enabling[1] /\ ~rendering => Left = 0

(* Outside the picture it notices, and sees no two reads in a row.         *)
NextRead == IF ReadOnItsWay THEN 5 - (Spacing - rest) ELSE rest + 5
Early(n) == scanline = Lines /\ cycle + Left <= n
Parted == mmc5.repeatedAddress = 0 \/ mmc5.lastPpuAddress # NameOf(v)
Strange == mmc5.inFrame \/ mmc5.scanlinePending \/ mmc5.repeatedAddress >= 2
BlankInv ==
  ~Drawn =>
    /\ Left = 0 \/ Left + 2 <= NextRead \/ Early(11)
    /\ Strange => Early(21)
    /\ Parted \/ Left <= 3 \/ Early(21)
    /\ WriteOnItsWay => Left <= 3 \/ Early(21)
    /\ readPending # NoAddress => readPending = Shadow(v % Bus)
    /\ \A i \in 1..4 : dataRead[i] # NoAddress =>
         dataRead[i] = Shadow(v % Bus) \/ (scanline = Lines /\ cycle + i <= 4)
    /\ cycle > 0 \/ scanline > Lines => top = NoLine

(* A line whose fetches MMC5 sees from its first, by the dot.              *)
Name == NameOf(v)
LowIsName == addressLow = Name % Page
Repeats(n) == ~mmc5.scanlinePending /\ mmc5.repeatedAddress <= n
Counting(line) ==
  /\ mmc5.inFrame <=> top # NoLine
  /\ top # NoLine =>
       /\ top <= line /\ mmc5.irqCounter = line - top
       /\ mmc5.irqPending <=> irqTarget \in 1..mmc5.irqCounter
Bound(c) == CASE c % 8 \in {3, 4} -> 1 [] c % 8 \in {5, 6} -> 2 [] OTHER -> 0
StartInv ==
  Drawn /\ steady /\ scanline = PreRender /\ cycle < 3 =>
    /\ ~Strange /\ top = NoLine
    /\ Parted \/ Left <= 2 - cycle
TopInv ==
  /\ ~rendering => top = NoLine
  /\ scanline = PreRender => top = NoLine
  /\ steady /\ rendering /\ scanline = PreRender => ~mmc5.inFrame
CountInv ==
  steady /\ rendering /\ scanline < Lines =>
    /\ cycle < 5 => held /\ Counting(scanline - 1)
    /\ cycle >= 5 => Counting(scanline)
RepeatInv ==
  Drawn /\ steady /\ rendering =>
    /\ scanline = PreRender /\ cycle \in 3..4 => Repeats(1)
    /\ cycle \in 5..6 => Repeats(2)
    /\ cycle \in 7..PrefetchEnd + 2 => Repeats(Bound(cycle))
    /\ cycle > PrefetchEnd + 1 => held
    /\ cycle \in {PrefetchEnd + 2, PrefetchEnd + 4, 2} => LowIsName
    /\ cycle > PrefetchEnd + 2 =>
         /\ Repeats(1) /\ mmc5.repeatedAddress = 1 /\ mmc5.lastPpuAddress = Name
    /\ scanline < Lines /\ cycle < 3 =>
         /\ Repeats(2) /\ mmc5.lastPpuAddress = Name
         /\ mmc5.repeatedAddress = IF carry = NoAddress THEN 2 ELSE 1
         /\ carry # NoAddress => carry = Name /\ LowIsName
    /\ scanline < Lines /\ cycle \in 3..4 => mmc5.scanlinePending
FedInv ==
  Drawn /\ steady /\ rendering
    /\ (mmc5.inFrame \/ cycle > PrefetchEnd + 2 \/ (scanline < Lines /\ cycle < 5))
    => Left >= CASE cycle = 0 /\ carry = NoAddress -> 9 [] cycle % 2 = 1 -> 8 [] OTHER -> 7
CarryLine == carry # NoAddress => cycle = 0 /\ scanline = 0

(* Where a dot leads.                                                      *)
LEMMA NextLine ==
  ASSUME Types, Dot
  PROVE  /\ \/ cycle' = 0 /\ cycle \in LastDot - 1..LastDot
            \/ cycle' = cycle + 1 /\ cycle \in 0..LastDot - 1
         /\ cycle' # 0 => scanline' = scanline
         /\ cycle' = 0 => scanline' = IF scanline = PreRender THEN 0 ELSE scanline + 1
         /\ carry' # NoAddress => /\ cycle' = 0 /\ cycle = LastDot - 1 /\ scanline' = 0
                                  /\ carry' = NameOf(v')
         /\ carry' = NoAddress /\ cycle' = 0 => cycle = LastDot
         /\ cycle' = 0 /\ cycle = LastDot - 1 => scanline = PreRender
         /\ third' = (third + 1) % 3
<1>1. Advance /\ third' = (third + 1) % 3 /\ v' = Reached
  BY Zenon DEF Dot
<1>2. cycle \in 0..LastDot /\ scanline \in 0..PreRender
  BY DEF Types
<1>3. NameOf(Reached) # NoAddress
  BY ReachedType, NameOfRange, BusSizes DEF NoAddress
<1>4. CASE LineEnds
  <2>1. cycle' = 0 /\ cycle \in LastDot - 1..LastDot
    BY <1>1, <1>2, <1>4, DotSizes DEF Advance, LineEnds, SkipsDot
  <2>2. scanline' = IF scanline = PreRender THEN 0 ELSE scanline + 1
    BY <1>1, <1>4 DEF Advance, FrameEnds
  <2>3. CASE SkipsDot
    BY <1>1, <1>3, <2>1, <2>2, <2>3, DotSizes DEF Advance, Carry, SkipsDot
  <2>4. CASE ~SkipsDot
    <3>1. cycle = LastDot /\ carry' = NoAddress
      BY <1>1, <1>4, <2>4 DEF Advance, Carry, LineEnds
    <3>2. QED
      BY <1>1, <2>1, <2>2, <3>1, DotSizes
  <2>5. QED
    BY <2>3, <2>4
<1>5. CASE ~LineEnds
  <2>1. cycle' = cycle + 1 /\ cycle # LastDot /\ ~SkipsDot
    BY <1>1, <1>5 DEF Advance, LineEnds
  <2>2. carry' = NoAddress /\ scanline' = scanline
    BY <1>1, <1>5, <2>1 DEF Advance, Carry, FrameEnds
  <2>3. QED
    BY <1>1, <1>2, <2>1, <2>2, DotSizes
<1>6. QED
  BY <1>4, <1>5

(* The dots left, by the dot of the cycle.                                 *)
LEMMA LeftIs ==
  ASSUME Types, IdleInv
  PROVE  /\ Left \in 0..11 - third
         /\ Left = 0 <=> Fresh(mmc5)
         /\ ~Fresh(mmc5) => Left = IF mmc5.readThisCycle THEN Wait + 9
                                   ELSE Wait + 3 * (2 - mmc5.idleCpuCycles)
<1>1. third \in {0, 1, 2} /\ mmc5 \in LineCounters
  BY DEF Types
<1>2. mmc5.readThisCycle \in BOOLEAN /\ mmc5.idleCpuCycles \in 0..3
  BY <1>1 DEF LineCounters
<1>3. Wait = IF third = 0 THEN 2 ELSE IF third = 1 THEN 1 ELSE 3
  BY <1>1 DEF Wait
<1>4. CASE Fresh(mmc5)
  <2>1. Left = 0
    BY <1>4 DEF Left, LeftOf
  <2>2. QED
    BY <1>1, <1>4, <2>1
<1>5. CASE ~Fresh(mmc5)
  <2>1. Left = IF mmc5.readThisCycle THEN Wait + 9 ELSE Wait + 3 * (2 - mmc5.idleCpuCycles)
    BY <1>5 DEF Left, LeftOf
  <2>2. mmc5.readThisCycle => third # 2
    BY DEF IdleInv
  <2>3. mmc5.readThisCycle \/ mmc5.idleCpuCycles \in 0..2
    BY <1>2, <1>5 DEF IdleInv
  <2>4. QED
    BY <1>1, <1>2, <1>3, <1>5, <2>1, <2>2, <2>3
<1>6. QED
  BY <1>4, <1>5

(* A dot without a read.                                                   *)
LEMMA QuietLeft ==
  ASSUME Types, Types', IdleInv, third' = (third + 1) % 3,
         mmc5' = IF third = 1 THEN MMC5Clocked(mmc5) ELSE mmc5
  PROVE  /\ IdleInv'
         /\ Left' = IF Left > 0 THEN Left - 1 ELSE 0
         /\ mmc5'.irqCounter = mmc5.irqCounter /\ mmc5'.irqPending = mmc5.irqPending
         /\ Left # 1 => /\ mmc5'.inFrame = mmc5.inFrame
                        /\ mmc5'.scanlinePending = mmc5.scanlinePending
                        /\ mmc5'.repeatedAddress = mmc5.repeatedAddress
                        /\ mmc5'.lastPpuAddress = mmc5.lastPpuAddress
<1>1. third \in {0, 1, 2} /\ mmc5 \in LineCounters /\ mmc5' \in LineCounters
  BY DEF Types
<1>2. mmc5.readThisCycle \in BOOLEAN /\ mmc5.idleCpuCycles \in 0..3
  BY <1>1 DEF LineCounters
<1>3. /\ Wait = IF third = 0 THEN 2 ELSE IF third = 1 THEN 1 ELSE 3
      /\ Wait' = IF third' = 0 THEN 2 ELSE IF third' = 1 THEN 1 ELSE 3
  BY <1>1 DEF Wait, Types
<1>4. third' = IF third = 0 THEN 1 ELSE IF third = 1 THEN 2 ELSE 0
  BY <1>1
<1>5. /\ Fresh(mmc5) => Left = 0
      /\ ~Fresh(mmc5) => Left = IF mmc5.readThisCycle THEN Wait + 9
                                ELSE Wait + 3 * (2 - mmc5.idleCpuCycles)
  BY LeftIs
<1>6. /\ Fresh(mmc5)' => Left' = 0
      /\ ~Fresh(mmc5)' => Left' = IF mmc5'.readThisCycle THEN Wait' + 9
                                  ELSE Wait' + 3 * (2 - mmc5'.idleCpuCycles)
  BY DEF Left, LeftOf
<1>7. CASE third # 1
  <2>1. mmc5' = mmc5
    BY <1>7
  <2>2. Fresh(mmc5)' <=> Fresh(mmc5)
    BY <2>1
  <2>3. IdleInv'
    BY <1>4, <1>7, <2>1, <2>2 DEF IdleInv
  <2>4. CASE Fresh(mmc5)
    BY <1>5, <1>6, <2>1, <2>2, <2>3, <2>4
  <2>5. CASE ~Fresh(mmc5)
    <3>1. mmc5.readThisCycle \/ mmc5.idleCpuCycles \in 0..2
      BY <1>2, <2>5 DEF IdleInv
    <3>2. Left' = Left - 1 /\ Left > 1
      BY <1>1, <1>2, <1>3, <1>4, <1>5, <1>6, <1>7, <2>1, <2>2, <2>5, <3>1 DEF IdleInv
    <3>3. Left \in 0..11 - third
      BY LeftIs
    <3>4. QED
      BY <1>1, <2>1, <2>3, <3>2, <3>3
  <2>6. QED
    BY <2>4, <2>5
<1>8. CASE third = 1
  <2> DEFINE n == MMC5Clocked(mmc5)
  <2>1. mmc5' = n
    BY <1>8
  <2>2. /\ n.readThisCycle = FALSE
        /\ n.irqCounter = mmc5.irqCounter /\ n.irqPending = mmc5.irqPending
        /\ mmc5.readThisCycle => n.idleCpuCycles = 0
        /\ ~mmc5.readThisCycle /\ mmc5.idleCpuCycles < 3 => n.idleCpuCycles = mmc5.idleCpuCycles + 1
        /\ mmc5.readThisCycle \/ mmc5.idleCpuCycles # 2 =>
             /\ n.inFrame = mmc5.inFrame /\ n.scanlinePending = mmc5.scanlinePending
             /\ n.repeatedAddress = mmc5.repeatedAddress /\ n.lastPpuAddress = mmc5.lastPpuAddress
        /\ ~mmc5.readThisCycle /\ mmc5.idleCpuCycles = 2 => Fresh(n)
    BY <1>1, ClockFields
  <2> HIDE DEF n
  <2>3. mmc5'.readThisCycle = FALSE
    BY <2>1, <2>2
  <2>4. CASE Fresh(mmc5)
    <3>1. Fresh(n)
      BY <2>2, <2>4 DEF Fresh
    <3>2. /\ n.inFrame = mmc5.inFrame /\ n.scanlinePending = mmc5.scanlinePending
          /\ n.repeatedAddress = mmc5.repeatedAddress /\ n.lastPpuAddress = mmc5.lastPpuAddress
      <4>1. n \in LineCounters
        BY <1>1, <2>1
      <4>2. QED
        BY <1>1, <2>4, <3>1, <4>1 DEF Fresh, LineCounters
    <3>3. IdleInv'
      BY <1>4, <1>8, <2>1, <2>3, <3>1 DEF IdleInv
    <3>4. Left = 0 /\ Left' = 0
      BY <1>5, <1>6, <2>1, <2>4, <3>1
    <3>5. QED
      BY <2>1, <2>2, <3>2, <3>3, <3>4
  <2>5. CASE ~Fresh(mmc5) /\ (mmc5.readThisCycle \/ mmc5.idleCpuCycles # 2)
    <3>1. /\ n.inFrame = mmc5.inFrame /\ n.scanlinePending = mmc5.scanlinePending
          /\ n.repeatedAddress = mmc5.repeatedAddress /\ n.lastPpuAddress = mmc5.lastPpuAddress
      BY <2>2, <2>5
    <3>2. ~Fresh(n)
      BY <2>5, <3>1 DEF Fresh
    <3>3. mmc5.readThisCycle \/ mmc5.idleCpuCycles \in 0..1
      BY <1>2, <2>5 DEF IdleInv
    <3>4. n.idleCpuCycles = IF mmc5.readThisCycle THEN 0 ELSE mmc5.idleCpuCycles + 1
      BY <1>2, <2>2, <3>3
    <3>5. IdleInv'
      BY <1>2, <2>1, <2>3, <3>3, <3>4 DEF IdleInv
    <3>6. Left' = 3 + 3 * (2 - n.idleCpuCycles)
      BY <1>3, <1>4, <1>6, <1>8, <2>1, <2>3, <3>2
    <3>7. Left = IF mmc5.readThisCycle THEN 10 ELSE 1 + 3 * (2 - mmc5.idleCpuCycles)
      BY <1>3, <1>5, <1>8, <2>5
    <3>8. Left' = Left - 1 /\ Left > 1
      BY <1>2, <3>3, <3>4, <3>6, <3>7
    <3>9. Left \in 0..11 - third
      BY LeftIs
    <3>10. QED
      BY <1>1, <2>1, <2>2, <3>1, <3>5, <3>8, <3>9
  <2>6. CASE ~Fresh(mmc5) /\ ~mmc5.readThisCycle /\ mmc5.idleCpuCycles = 2
    <3>1. Fresh(n)
      BY <2>2, <2>6
    <3>2. Left = 1 /\ Left' = 0
      BY <1>3, <1>5, <1>6, <1>8, <2>1, <2>6, <3>1
    <3>3. IdleInv'
      BY <1>4, <1>8, <2>1, <2>3, <3>1 DEF IdleInv
    <3>4. QED
      BY <2>1, <2>2, <3>2, <3>3
  <2>7. QED
    BY <2>4, <2>5, <2>6
<1>9. QED
  BY <1>7, <1>8

(* A dot with a read.                                                      *)
LEMMA ReadLeft ==
  ASSUME Types, Types', third' = (third + 1) % 3,
         NEW m \in LineCounters, m.readThisCycle, m.lastPpuAddress # NoAddress,
         mmc5' = IF third = 1 THEN MMC5Clocked(m) ELSE m
  PROVE  /\ IdleInv'
         /\ Left' = IF third = 0 THEN 10 ELSE IF third = 1 THEN 9 ELSE 11
         /\ mmc5'.irqCounter = m.irqCounter /\ mmc5'.irqPending = m.irqPending
         /\ mmc5'.inFrame = m.inFrame /\ mmc5'.scanlinePending = m.scanlinePending
         /\ mmc5'.repeatedAddress = m.repeatedAddress
         /\ mmc5'.lastPpuAddress = m.lastPpuAddress
<1>1. third \in {0, 1, 2}
  BY DEF Types
<1>3. Wait' = IF third' = 0 THEN 2 ELSE IF third' = 1 THEN 1 ELSE 3
  BY DEF Wait, Types
<1>4. third' = IF third = 0 THEN 1 ELSE IF third = 1 THEN 2 ELSE 0
  BY <1>1
<1>6. ~Fresh(mmc5)' => Left' = IF mmc5'.readThisCycle THEN Wait' + 9
                               ELSE Wait' + 3 * (2 - mmc5'.idleCpuCycles)
  BY DEF Left, LeftOf
<1>7. CASE third # 1
  <2>1. mmc5' = m
    BY <1>7
  <2>2. ~Fresh(mmc5)'
    BY <2>1 DEF Fresh
  <2>3. IdleInv'
    BY <1>4, <1>7, <2>1, <2>2 DEF IdleInv
  <2>4. QED
    BY <1>1, <1>3, <1>4, <1>6, <1>7, <2>1, <2>2, <2>3
<1>8. CASE third = 1
  <2> DEFINE n == MMC5Clocked(m)
  <2>1. mmc5' = n
    BY <1>8
  <2>2. /\ n.readThisCycle = FALSE
        /\ n.irqCounter = m.irqCounter /\ n.irqPending = m.irqPending
        /\ n.idleCpuCycles = 0
        /\ n.inFrame = m.inFrame /\ n.scanlinePending = m.scanlinePending
        /\ n.repeatedAddress = m.repeatedAddress /\ n.lastPpuAddress = m.lastPpuAddress
    BY ClockFields
  <2> HIDE DEF n
  <2>3. ~Fresh(mmc5)'
    BY <2>1, <2>2 DEF Fresh
  <2>4. IdleInv'
    BY <1>4, <1>8, <2>1, <2>2, <2>3 DEF IdleInv
  <2>5. QED
    BY <1>3, <1>4, <1>6, <1>8, <2>1, <2>2, <2>3, <2>4
<1>9. QED
  BY <1>7, <1>8

Carries == carry # NoAddress /\ rendering
NoRead  == Due = NoAddress /\ ~Finishes /\ ~Carries

(* The addresses read, and what a read leaves.                             *)
LEMMA ReadByIs ==
  ASSUME Types, NEW m \in LineCounters, NEW x \in BusAddress
  PROVE  /\ LineStep(ReadBy(m, x), m, x, Named(x), irqTarget)
         /\ ReadBy(m, x) \in LineCounters /\ ReadBy(m, x).readThisCycle
         /\ ReadBy(m, x).lastPpuAddress = x /\ x # NoAddress
<1>1. x \in Nat /\ x # NoAddress
  BY BusSizes, NoAddressIsNone DEF BusAddress
<1>2. irqTarget \in Nat /\ Named(x) \in BOOLEAN
  BY InputAssumption DEF InputAssumption, Types, Named
<1>3. /\ LineStep(ReadBy(m, x), m, x, Named(x), irqTarget)
      /\ ReadBy(m, x) \in LineCounters /\ ReadBy(m, x).readThisCycle = TRUE
  BY <1>1, <1>2, ReadFields DEF ReadBy
<1>4. ReadBy(m, x).lastPpuAddress = x
  BY <1>3 DEF LineStep
<1>5. QED
  BY <1>1, <1>3, <1>4

(* The counters after the reads of rendering.                              *)
LEMMA AfterTypes ==
  ASSUME Types
  PROVE  /\ AfterCarry \in LineCounters /\ AfterFetch \in LineCounters
         /\ Latched(Fetched) \in BusAddress
         /\ Carries \/ Finishes =>
              AfterFetch.readThisCycle /\ AfterFetch.lastPpuAddress # NoAddress
         /\ ~Carries => AfterCarry = mmc5
         /\ ~Carries /\ ~Finishes => AfterFetch = mmc5
<1>1. Latched(Fetched) \in BusAddress
  BY FetchedIs, LatchedType
<1>2. carry # NoAddress => Latched(carry) \in BusAddress
  BY NameIsOnBus, LatchedType DEF Types, Maybe
<1>3. mmc5 \in LineCounters
  BY DEF Types
<1>4. /\ AfterCarry \in LineCounters
      /\ Carries => AfterCarry.readThisCycle /\ AfterCarry.lastPpuAddress # NoAddress
      /\ ~Carries => AfterCarry = mmc5
  BY <1>2, <1>3, ReadByIs DEF AfterCarry, Carries
<1>5. CASE Finishes
  BY <1>1, <1>4, <1>5, ReadByIs DEF AfterFetch
<1>6. CASE ~Finishes
  <2>1. AfterFetch = AfterCarry
    BY <1>6 DEF AfterFetch
  <2>2. QED
    BY <1>1, <1>4, <1>6, <2>1
<1>7. QED
  BY <1>5, <1>6

(* A dot, by whether MMC5 sees a read.                                     *)
LEMMA AnyDot ==
  ASSUME Types, IdleInv, Dot
  PROVE  /\ IdleInv'
         /\ Left' \in 0..11 - third'
         /\ ~NoRead => Left' = IF third = 0 THEN 10 ELSE IF third = 1 THEN 9 ELSE 11
         /\ NoRead =>
              /\ Left' = IF Left > 0 THEN Left - 1 ELSE 0
              /\ mmc5'.irqCounter = mmc5.irqCounter /\ mmc5'.irqPending = mmc5.irqPending
              /\ Left # 1 => /\ mmc5'.inFrame = mmc5.inFrame
                             /\ mmc5'.scanlinePending = mmc5.scanlinePending
                             /\ mmc5'.repeatedAddress = mmc5.repeatedAddress
                             /\ mmc5'.lastPpuAddress = mmc5.lastPpuAddress
              /\ Left' = 0 => Fresh(mmc5')
<1>0. Types'
  BY DotTypes
<1>1. PICK m \in LineCounters :
        /\ mmc5' = IF third = 1 THEN MMC5Clocked(m) ELSE m
        /\ Due = NoAddress \/ Finishes => m = AfterFetch
        /\ Due # NoAddress /\ ~Begins /\ ~Finishes => m = ReadBy(AfterFetch, Due)
        /\ Due # NoAddress /\ Begins => \E x \in BusAddress : m = ReadBy(AfterFetch, x)
  BY LinesDot
<1>2. third' = (third + 1) % 3 /\ third \in {0, 1, 2}
  BY NextLine DEF Types
<1>3. third' = IF third = 0 THEN 1 ELSE IF third = 1 THEN 2 ELSE 0
  BY <1>2
<1>4. CASE NoRead
  <2>1. m = mmc5
    BY <1>1, <1>4, AfterTypes DEF NoRead
  <2>2. /\ IdleInv'
        /\ Left' = IF Left > 0 THEN Left - 1 ELSE 0
        /\ mmc5'.irqCounter = mmc5.irqCounter /\ mmc5'.irqPending = mmc5.irqPending
        /\ Left # 1 => /\ mmc5'.inFrame = mmc5.inFrame
                       /\ mmc5'.scanlinePending = mmc5.scanlinePending
                       /\ mmc5'.repeatedAddress = mmc5.repeatedAddress
                       /\ mmc5'.lastPpuAddress = mmc5.lastPpuAddress
    BY <1>0, <1>1, <1>2, <2>1, QuietLeft
  <2>3. Left \in 0..11 - third
    BY LeftIs
  <2>4. Left' \in 0..11 - third'
    BY <1>2, <1>3, <2>2, <2>3
  <2>5. Left' = 0 => Fresh(mmc5')
    <3> SUFFICES ASSUME ~Fresh(mmc5') PROVE Left' # 0
      OBVIOUS
    <3>1. Left' = LeftOf(mmc5', Wait')
      BY DEF Left
    <3>2. Wait' \in {1, 2, 3}
      BY <1>0 DEF Wait, Types
    <3>3. mmc5' \in LineCounters
      BY <1>0 DEF Types
    <3>4. mmc5'.readThisCycle \/ mmc5'.idleCpuCycles \in 0..2
      BY <2>2, <3>3 DEF IdleInv, LineCounters
    <3>5. QED
      BY <3>1, <3>2, <3>4 DEF LeftOf
  <2>6. QED
    BY <1>4, <2>2, <2>4, <2>5
<1>5. CASE ~NoRead
  <2>1. m.readThisCycle /\ m.lastPpuAddress # NoAddress
    <3>1. CASE Due = NoAddress \/ Finishes
      BY <1>1, <1>5, <3>1, AfterTypes DEF NoRead
    <3>2. CASE Due # NoAddress /\ ~Begins /\ ~Finishes
      <4>1. Due \in BusAddress
        BY <3>2, Registers, Shifts DEF Maybe
      <4>2. QED
        BY <1>1, <3>2, <4>1, AfterTypes, ReadByIs
    <3>3. CASE Due # NoAddress /\ Begins
      <4>1. PICK x \in BusAddress : m = ReadBy(AfterFetch, x)
        BY <1>1, <3>3
      <4>2. QED
        BY <4>1, AfterTypes, ReadByIs
    <3>4. QED
      BY <3>1, <3>2, <3>3
  <2>2. IdleInv' /\ Left' = IF third = 0 THEN 10 ELSE IF third = 1 THEN 9 ELSE 11
    BY <1>0, <1>1, <1>2, <2>1, ReadLeft
  <2>3. QED
    BY <1>2, <1>3, <1>5, <2>2
<1>6. QED
  BY <1>4, <1>5

(* A dot with a single read.                                               *)
LEMMA OneRead ==
  ASSUME Types, Dot, NEW x \in BusAddress,
         \/ Due # NoAddress /\ ~Fetching /\ ~Carries /\ x = Due
         \/ Due = NoAddress /\ Finishes /\ ~Carries /\ x = Latched(Fetched)
         \/ Due = NoAddress /\ ~Finishes /\ Carries /\ x = Latched(carry)
  PROVE  LineStep(mmc5', mmc5, x, Named(x), irqTarget)
<1>0. Types'
  BY DotTypes
<1>1. PICK m \in LineCounters :
        /\ mmc5' = IF third = 1 THEN MMC5Clocked(m) ELSE m
        /\ Due = NoAddress \/ Finishes => m = AfterFetch
        /\ Due # NoAddress /\ ~Begins /\ ~Finishes => m = ReadBy(AfterFetch, Due)
        /\ Due # NoAddress /\ Begins => \E y \in BusAddress : m = ReadBy(AfterFetch, y)
  BY LinesDot
<1>2. third' = (third + 1) % 3
  BY NextLine
<1>3. mmc5 \in LineCounters
  BY DEF Types
<1>4. m = ReadBy(mmc5, x)
  <2>1. CASE Due # NoAddress /\ ~Fetching /\ ~Carries /\ x = Due
    <3>1. ~Begins /\ ~Finishes
      BY <2>1 DEF Begins, Finishes
    <3>2. QED
      BY <1>1, <2>1, <3>1, AfterTypes
  <2>2. CASE Due = NoAddress /\ Finishes /\ ~Carries /\ x = Latched(Fetched)
    BY <1>1, <2>2, AfterTypes DEF AfterFetch
  <2>3. CASE Due = NoAddress /\ ~Finishes /\ Carries /\ x = Latched(carry)
    BY <1>1, <2>3 DEF AfterFetch, AfterCarry, Carries
  <2>4. QED
    BY <2>1, <2>2, <2>3
<1>5. m.readThisCycle /\ m.lastPpuAddress # NoAddress
  BY <1>3, <1>4, ReadByIs
<1>6. /\ mmc5'.irqCounter = m.irqCounter /\ mmc5'.irqPending = m.irqPending
      /\ mmc5'.inFrame = m.inFrame /\ mmc5'.scanlinePending = m.scanlinePending
      /\ mmc5'.repeatedAddress = m.repeatedAddress
      /\ mmc5'.lastPpuAddress = m.lastPpuAddress
  BY <1>0, <1>1, <1>2, <1>5, ReadLeft
<1>7. LineStep(m, mmc5, x, Named(x), irqTarget)
  BY <1>3, <1>4, ReadByIs
<1>8. QED
  BY <1>6, <1>7 DEF LineStep

(* The three dots of a cycle.                                              *)
LEMMA NextThird ==
  ASSUME Types, Dot
  PROVE  /\ third \in {0, 1, 2}
         /\ third' = IF third = 0 THEN 1 ELSE IF third = 1 THEN 2 ELSE 0
<1>1. third' = (third + 1) % 3 /\ third \in {0, 1, 2}
  BY NextLine DEF Types
<1>2. QED
  BY <1>1

(* A dot moves all that is on its way on by a cell.                        *)
LEMMA AlignedDot ==
  ASSUME Types, Aligned, Dot
  PROVE  Aligned'
<1>1. /\ rest' = IF rest > 0 THEN rest - 1 ELSE 0
      /\ readPending' = NoAddress
      /\ dataRead'[1] = dataRead[2] /\ dataRead'[2] = dataRead[3]
      /\ dataRead'[3] = dataRead[4] /\ dataRead'[4] = readPending
      /\ enabling'[1] = enabling[2] /\ enabling'[2] = enabling[3]
      /\ enabling'[3] = enabling[4] /\ enabling'[4] = mask
      /\ rendering' = enabling[1] /\ mask' = mask
  BY DotShifts
<1>2. QED
  BY <1>1, NextThird, SpacingIs DEF Aligned

(* A read is carried only into the first dot of a frame.                   *)
LEMMA CarryLineDot ==
  ASSUME Types, Dot
  PROVE  CarryLine'
BY NextLine DEF CarryLine

(* When rendering is neither on nor off, the program waits.                *)
LEMMA Switching ==
  ASSUME Types, Aligned
  PROVE  /\ enabling[1] # rendering => rest = Spacing - 4 /\ third = 0 /\ mask = enabling[1]
         /\ enabling[2] # enabling[1] =>
              rest = Spacing - 3 /\ third = 2 /\ mask = enabling[2] /\ enabling[1] = rendering
         /\ mask # enabling[1] => rest \in Spacing - 3..Spacing /\ enabling[1] = rendering
         /\ mask # enabling[2] => rest \in Spacing - 2..Spacing /\ enabling[1] = enabling[2]
<1>1. /\ mask # enabling[4]        => third = 2 /\ rest = Spacing
      /\ enabling[4] # enabling[3] => third = 0 /\ rest = Spacing - 1
      /\ enabling[3] # enabling[2] => third = 1 /\ rest = Spacing - 2
      /\ enabling[2] # enabling[1] => third = 2 /\ rest = Spacing - 3
      /\ enabling[1] # rendering   => third = 0 /\ rest = Spacing - 4
  BY DEF Aligned
<1>2. rest \in Nat
  BY RestIs
<1>3. CASE enabling[1] # rendering
  <2>1. rest = Spacing - 4
    BY <1>1, <1>3
  <2>2. /\ mask = enabling[4] /\ enabling[4] = enabling[3]
        /\ enabling[3] = enabling[2] /\ enabling[2] = enabling[1]
    BY <1>1, <2>1, SpacingIs
  <2>3. QED
    BY <1>1, <1>3, <2>1, <2>2
<1>4. CASE enabling[2] # enabling[1]
  <2>1. rest = Spacing - 3
    BY <1>1, <1>4
  <2>2. /\ mask = enabling[4] /\ enabling[4] = enabling[3]
        /\ enabling[3] = enabling[2] /\ enabling[1] = rendering
    BY <1>1, <2>1, SpacingIs
  <2>3. QED
    BY <1>1, <1>4, <2>1, <2>2, SpacingIs
<1>5. CASE enabling[1] = rendering /\ enabling[2] = enabling[1]
  <2>1. mask # enabling[2] => rest \in Spacing - 2..Spacing
    BY <1>1, <1>2, SpacingIs
  <2>2. QED
    BY <1>5, <2>1, SpacingIs
<1>6. QED
  BY <1>3, <1>4, <1>5

(* A dot keeps what is known while rendering is off.                       *)
LEMMA DarkDot ==
  ASSUME Types, InFlight, IdleInv, Aligned, DarkInv, Dot
  PROVE  DarkInv'
<1>1. /\ rest' = IF rest > 0 THEN rest - 1 ELSE 0
      /\ enabling'[1] = enabling[2] /\ rendering' = enabling[1] /\ mask' = mask
  BY DotShifts
<1>2. /\ Left' \in 0..11 - third'
      /\ ~NoRead => Left' = IF third = 0 THEN 10 ELSE IF third = 1 THEN 9 ELSE 11
      /\ NoRead => Left' = IF Left > 0 THEN Left - 1 ELSE 0
  BY AnyDot
<1>3. /\ mask \in BOOLEAN /\ enabling[1] \in BOOLEAN /\ enabling[2] \in BOOLEAN
      /\ rendering \in BOOLEAN /\ rest \in Nat /\ rest <= Spacing
  BY Registers, SpacingIs DEF Types
<1>4. Left \in 0..11 - third
  BY LeftIs
<1>5. Due # NoAddress => rest = Spacing - 4 /\ third = 1
  BY Shifts DEF InFlight, Aligned
<1>6. ~enabling[1] => ~Finishes
  BY Shifts DEF Finishes, Fetching
<1>7. CASE ~enabling[1] /\ ~rendering /\ rest > Spacing - 4
  <2>1. NoRead
    BY <1>3, <1>5, <1>6, <1>7, SpacingIs DEF NoRead, Carries
  <2>2. Left' = IF Left > 0 THEN Left - 1 ELSE 0
    BY <1>2, <2>1
  <2>3. Left <= IF mask THEN 4 - (Spacing - rest) ELSE rest + 4
    BY <1>7 DEF DarkInv
  <2>4. enabling[2] => mask /\ rest = Spacing - 3
    BY <1>3, <1>7, Switching
  <2>5. ~enabling[2] /\ mask => rest >= Spacing - 2
    <3> SUFFICES ASSUME ~enabling[2], mask PROVE rest >= Spacing - 2
      OBVIOUS
    <3>1. mask # enabling[2]
      BY <1>3
    <3>2. rest \in Spacing - 2..Spacing
      BY <3>1, Switching
    <3>3. QED
      BY <3>2, SpacingIs
  <2>6. CASE enabling[2]
    <3>1. Left <= 1 /\ Left' = 0
      BY <1>3, <1>4, <2>2, <2>3, <2>4, <2>6, SpacingIs, NextThird
    <3>2. enabling'[1]
      BY <1>1, <2>6
    <3>3. QED
      BY <3>1, <3>2 DEF DarkInv
  <2>7. CASE ~enabling[2]
    <3>1. ~enabling'[1]
      BY <1>1, <2>7
    <3>2. Left' <= IF mask THEN 4 - (Spacing - rest') ELSE rest' + 4
      BY <1>1, <1>3, <1>4, <1>7, <2>2, <2>3, <2>5, <2>7, SpacingIs, NextThird
    <3>3. QED
      BY <1>1, <3>1, <3>2 DEF DarkInv
  <2>8. QED
    BY <2>6, <2>7
<1>8. CASE ~(~enabling[1] /\ ~rendering /\ rest > Spacing - 4)
  <2>1. CASE enabling[1]
    <3>1. rendering'
      BY <1>1, <2>1
    <3>2. ~enabling[2] => ~mask /\ rest = Spacing - 3 /\ third = 2
      BY <1>3, <2>1, Switching
    <3>3. ~enabling[2] => Left' <= rest' + 4
      BY <1>1, <1>2, <1>3, <3>2, SpacingIs, NextThird
    <3>4. QED
      BY <1>1, <3>1, <3>2, <3>3 DEF DarkInv
  <2>2. CASE ~enabling[1] /\ rest <= Spacing - 4
    <3>1. enabling[2] = enabling[1] /\ mask = enabling[1]
      BY <1>3, <2>2, Switching, SpacingIs
    <3>2. ~mask /\ ~enabling'[1]
      BY <1>1, <2>2, <3>1
    <3>3. Left <= rest + 4
      BY <2>2, <3>2 DEF DarkInv
    <3>4. Left' <= rest' + 4
      <4>1. CASE NoRead
        BY <1>1, <1>2, <1>3, <1>4, <2>2, <3>3, <4>1, NextThird
      <4>2. CASE ~NoRead
        <5>1. rest = Spacing - 4 /\ third # 2
          <6>1. CASE Due # NoAddress
            BY <1>5, <6>1
          <6>2. CASE Carries
            <7>1. enabling[1] # rendering
              BY <2>2, <6>2 DEF Carries
            <7>2. QED
              BY <7>1, Switching
          <6>3. QED
            BY <1>6, <2>2, <4>2, <6>1, <6>2 DEF NoRead
        <5>2. QED
          BY <1>1, <1>2, <4>2, <5>1, SpacingIs, NextThird
      <4>3. QED
        BY <4>1, <4>2
    <3>5. QED
      BY <1>1, <3>2, <3>4 DEF DarkInv
  <2>3. CASE ~enabling[1] /\ rendering
    <3>1. rest = Spacing - 4
      BY <1>3, <2>3, Switching
    <3>2. QED
      BY <2>2, <2>3, <3>1, SpacingIs
  <2>4. QED
    BY <1>3, <1>8, <2>1, <2>2, <2>3, SpacingIs
<1>9. QED
  BY <1>7, <1>8

(* Before a line's first tile has been fetched and after its last the      *)
(* address stays, unless the program moves it.                             *)
LEMMA AddressStays ==
  ASSUME Types, Dot, ~Touched,
         ~Fetching \/ cycle \in 0..6 \/ cycle > PrefetchEnd
  PROVE  v' = v /\ Arrived = v
<1>1. Due = NoAddress /\ Head(addrWrite) = NoAddress
  BY DEF Touched
<1>2. Arrived = v
  BY <1>1 DEF Arrived
<1>3. v' = Scrolled
  <2>1. v' = Reached
    BY Zenon DEF Dot
  <2>2. QED
    BY <1>1, <2>1 DEF Reached
<1>4. Scrolled = v
  <2>1. CASE ~Fetching
    BY <1>2, <2>1 DEF Scrolled
  <2>2. CASE cycle \in 0..6 \/ cycle > PrefetchEnd
    <3>1. cycle \in Nat
      BY DotSizes DEF Types
    <3>2. ~(TileDot /\ Eighth = 7)
      <4>1. CASE cycle > PrefetchEnd
        BY <3>1, <4>1, DotSizes DEF TileDot
      <4>2. CASE cycle \in 0..6
        <5>1. cycle \in {0, 1, 2, 3, 4, 5, 6}
          BY <4>2
        <5>2. cycle # 0 => Eighth # 7
          BY <5>1 DEF Eighth
        <5>3. cycle = 0 => ~TileDot
          BY DotSizes DEF TileDot
        <5>4. QED
          BY <5>2, <5>3
      <4>3. QED
        BY <2>2, <4>1, <4>2
    <3>3. cycle # TilesEnd /\ cycle # TilesEnd + 1
      BY <2>2, <3>1, DotSizes
    <3>4. cycle \notin TilesEnd + 3 * Slots..TilesEnd + 6 * Slots
      BY <2>2, <3>1, DotSizes
    <3>5. QED
      BY <1>2, <3>2, <3>3, <3>4, Zenon DEF Scrolled
  <2>3. QED
    BY <2>1, <2>2
<1>5. QED
  BY <1>2, <1>3, <1>4

(* No multiple of the number of addresses in a table is within a table of 0*)
LEMMA BetweenTables ==
  ASSUME NEW d \in 1..Table - 1, NEW q \in Int
  PROVE  d # Table * q
<1>1. CASE q <= 0
  <2>1. Table * q <= 0
    <3>1. CASE q = 0
      BY <3>1, BusSizes
    <3>2. CASE q < 0
      <4>1. Table * q + Table <= Table * 0
        BY <3>2, BusSizes, LessTimes
      <4>2. PICK p \in Int : p = Table * q
        BY BusSizes
      <4>3. QED
        BY <4>1, <4>2, BusSizes
    <3>3. QED
      BY <1>1, <3>1, <3>2
  <2>2. PICK p \in Int : p = Table * q
    BY BusSizes
  <2>3. QED
    BY <2>1, <2>2, BusSizes
<1>2. CASE q > 0
  <2>1. Table * 0 + Table <= Table * q
    BY <1>2, BusSizes, LessTimes
  <2>2. PICK p \in Int : p = Table * q
    BY BusSizes
  <2>3. QED
    BY <2>1, <2>2, BusSizes
<1>3. QED
  BY <1>1, <1>2

(* After a $2007 read the name at the address is not the byte read.        *)
LEMMA SteppedAway ==
  ASSUME Types, Named(Shadow(v % Bus))
  PROVE  NameOf(Stepped(v, FALSE)) # Shadow(v % Bus)
<1> DEFINE s == Shadow(v % Bus)
           w == Stepped(v, FALSE)
<1>1. v \in Nat
  BY BusSizes DEF Types, Addresses
<1>2. ctrl.increment \in 1..Table - 1
  BY InputAssumption DEF InputAssumption, Types
<1>3. PICK a \in Int : s = v + Table * a
  <2>1. PICK p \in Nat : p = v \div Bus /\ v = Bus * p + (v % Bus) /\ v % Bus \in Nat
    BY <1>1, BusSizes, Divides
  <2>2. PICK r \in Nat : r = v % Bus
    BY <2>1
  <2>3. v = 4 * (Table * p) + r
    BY <2>1, <2>2, BusSizes
  <2>4. s = r \/ s = r - Table
    BY <2>2 DEF Shadow
  <2>5. PICK x \in Int : x = Table * p
    BY BusSizes
  <2>6. Table * (-(4 * p)) = -(4 * x) /\ Table * (-(4 * p) - 1) = -(4 * x) - Table
    BY <2>5, BusSizes
  <2>7. s = v + Table * (-(4 * p)) \/ s = v + Table * (-(4 * p) - 1)
    BY <2>3, <2>4, <2>5, <2>6, BusSizes
  <2>8. QED
    BY <2>7
<1>4. PICK b \in Int : w = v + ctrl.increment + Table * b
  <2>1. PICK n \in Nat : n = v + ctrl.increment
    BY <1>1, <1>2, BusSizes
  <2>2. 8 * Table \in Nat /\ 8 * Table > 0
    BY BusSizes
  <2>3. PICK p \in Nat : n = (8 * Table) * p + (n % (8 * Table))
    BY <2>1, <2>2, Divides
  <2>4. w = n % (8 * Table)
    BY <2>1 DEF Stepped
  <2>5. PICK r \in Int : r = n % (8 * Table)
    BY <2>1, <2>2, Divides
  <2>6. PICK x \in Int : x = Table * p
    BY BusSizes
  <2>7. n = 8 * x + r
    BY <2>3, <2>5, <2>6, BusSizes
  <2>8. Table * (-(8 * p)) = -(8 * x)
    BY <2>6, BusSizes
  <2>9. PICK b \in Int : b = -(8 * p)
    OBVIOUS
  <2>10. PICK y \in Int : y = Table * b
    BY BusSizes
  <2>11. w = r /\ y = -(8 * x)
    BY <2>4, <2>5, <2>8, <2>9, <2>10
  <2>12. r = n + y
    BY <2>5, <2>6, <2>7, <2>10, <2>11
  <2>13. n + y = v + ctrl.increment + y
    BY <2>1
  <2>14. w = v + ctrl.increment + y
    BY <2>11, <2>12, <2>13, Zenon
  <2>15. QED
    BY <2>10, <2>14
<1>5. PICK c \in Int : NameOf(w) = w + Table * c
  <2>1. w \in Nat
    <3>1. v \in Addresses /\ FALSE \in BOOLEAN
      BY DEF Types
    <3>2. w \in Addresses
      BY <3>1, SteppedType
    <3> HIDE DEF w
    <3>3. QED
      BY <3>2, BusSizes DEF Addresses
  <2> HIDE DEF w
  <2>2. PICK p \in Nat : p = w \div Table /\ w = Table * p + (w % Table)
    BY <2>1, BusSizes, Divides
  <2>3. PICK r \in Int : r = w % Table
    BY <2>1, BusSizes, Divides
  <2>4. PICK x \in Int : x = Table * p
    BY BusSizes
  <2>5. NameOf(w) = 2 * Table + r
    BY <2>3, BusSizes DEF NameOf
  <2>6. w = x + r
    BY <2>2, <2>3, <2>4
  <2>7. Table * (2 - p) = 2 * Table - x
    BY <2>4, BusSizes
  <2>8. PICK c \in Int : c = 2 - p
    OBVIOUS
  <2>9. PICK y \in Int : y = Table * c
    BY BusSizes
  <2>10. y = 2 * Table - x
    BY <2>7, <2>8, <2>9
  <2>11. NameOf(w) = w + y
    BY <2>3, <2>4, <2>5, <2>6, <2>10, BusSizes
  <2>12. QED
    BY <2>9, <2>11
<1> HIDE DEF s, w
<1>6. SUFFICES ASSUME NameOf(w) = s PROVE FALSE
  BY DEF s, w
<1>7. PICK x \in Int, y \in Int, z \in Int : x = Table * a /\ y = Table * b /\ z = Table * c
  BY BusSizes
<1>8. ctrl.increment = x - y - z
  BY <1>1, <1>2, <1>3, <1>4, <1>5, <1>6, <1>7, BusSizes
<1>9. Table * (a - b - c) = x - y - z
  BY <1>7, BusSizes
<1>10. ctrl.increment # Table * (a - b - c)
  BY <1>2, BetweenTables
<1>11. QED
  BY <1>8, <1>9, <1>10

(* Outside the picture nothing is fetched, and nothing carried over.       *)
LEMMA NotDrawn ==
  ASSUME Types, CarryLine, ~Drawn
  PROVE  /\ ~Fetching /\ ~Carries /\ ~Finishes
         /\ scanline \in Lines..PreRender - 1 /\ cycle \in 0..LastDot
         /\ NoRead <=> Due = NoAddress
<1>1. scanline \in Lines..PreRender - 1 /\ cycle \in 0..LastDot
  BY DotSizes DEF Types, Drawn
<1>2. scanline # 0
  BY <1>1, DotSizes
<1>3. ~Fetching /\ ~Carries /\ ~Finishes
  BY <1>2 DEF Fetching, Finishes, CarryLine, Carries
<1>4. QED
  BY <1>1, <1>3 DEF NoRead

(* A dot early in the first line after the picture.                        *)
LEMMA EarlyDot ==
  ASSUME Types, Dot, scanline = Lines, cycle <= 21
  PROVE  scanline' = Lines /\ cycle' = cycle + 1
<1>1. cycle \in 0..LastDot /\ LastDot >= 44
  BY DotSizes DEF Types
<1>2. QED
  BY <1>1, NextLine, DotSizes

Remains(n) == scanline' = Lines /\ cycle' + Left' <= n

(* What a dot outside the picture leaves, also when the next is in it.     *)
LEMMA QuietBlank ==
  ASSUME Types, InFlight, IdealInv, IdleInv, CarryLine, BlankInv, Dot, ~Drawn, Due = NoAddress
  PROVE  /\ Left' = IF Left > 0 THEN Left - 1 ELSE 0
         /\ \A n \in 0..21 : Early(n) => Left' = 0 \/ Remains(n)
         /\ Strange' => Remains(21)
         /\ Parted' \/ Left' <= 2 \/ Remains(21)
<1>1. NoRead
  BY NotDrawn
<1>2. /\ Left' = IF Left > 0 THEN Left - 1 ELSE 0
      /\ Left # 1 => /\ mmc5'.inFrame = mmc5.inFrame
                     /\ mmc5'.scanlinePending = mmc5.scanlinePending
                     /\ mmc5'.repeatedAddress = mmc5.repeatedAddress
                     /\ mmc5'.lastPpuAddress = mmc5.lastPpuAddress
      /\ Left' = 0 => Fresh(mmc5')
  BY <1>1, AnyDot
<1>3. Left \in 0..11
  <2>1. Left \in 0..11 - third /\ third \in {0, 1, 2}
    BY LeftIs DEF Types
  <2>2. QED
    BY <2>1
<1>4. cycle \in Nat
  BY DotSizes DEF Types
<1>5. ASSUME NEW n \in 0..21, Early(n) PROVE Left' = 0 \/ Remains(n)
  <2>1. scanline = Lines /\ cycle + Left <= n /\ cycle <= 21
    BY <1>3, <1>4, <1>5 DEF Early
  <2>2. scanline' = Lines /\ cycle' = cycle + 1
    BY <2>1, EarlyDot
  <2>3. QED
    BY <1>2, <1>3, <1>4, <2>1, <2>2 DEF Remains
<1>6. ASSUME Left' = 0 PROVE ~Strange' /\ Parted'
  <2>1. Fresh(mmc5')
    BY <1>2, <1>6
  <2>2. QED
    BY <2>1 DEF Fresh, Strange, Parted
<1>7. ASSUME Strange' PROVE Remains(21)
  <2>1. Left' # 0
    BY <1>6, <1>7
  <2>2. Left # 1
    BY <1>2, <2>1
  <2>3. Strange
    BY <1>2, <1>7, <2>2 DEF Strange
  <2>4. Early(21)
    BY <2>3 DEF BlankInv
  <2>5. QED
    BY <1>5, <2>1, <2>4
<1>8. Parted' \/ Left' <= 2 \/ Remains(21)
  <2> SUFFICES ASSUME Left' # 0, ~(Left' <= 2), ~Remains(21) PROVE Parted'
    BY <1>6
  <2>1. ~Early(21) /\ ~(Left <= 3)
    BY <1>2, <1>3, <1>5
  <2>2. Parted /\ ~WriteOnItsWay
    BY <2>1 DEF BlankInv
  <2>3. Arrived = v
    BY <2>2, OnItsWay, Shifts DEF Arrived
  <2>4. v' = v
    BY <2>3, NotDrawn, NotFetching
  <2>5. Left # 1
    BY <1>3, <2>1
  <2>6. QED
    BY <1>2, <2>2, <2>4, <2>5 DEF Parted
<1>9. QED
  BY <1>2, <1>5, <1>7, <1>8

(* A $2007 read that MMC5 sees outside the picture.                        *)
LEMMA ReadBlank ==
  ASSUME Types, InFlight, IdealInv, IdleInv, Aligned, CarryLine, BlankInv, Dot, ~Drawn,
         Due # NoAddress
  PROVE  /\ Left' = 9 /\ rest' = Spacing - 5
         /\ Strange' => Remains(21)
         /\ Parted' \/ Remains(21)
<1>1. ~NoRead /\ ~Fetching /\ ~Carries
  BY NotDrawn
<1>2. Due = dataRead[1] /\ Due \in BusAddress
  BY Registers, Shifts DEF Maybe
<1>3. rest = Spacing - 4 /\ third = 1
  BY <1>2 DEF InFlight, Aligned
<1>4. Left' = 9
  BY <1>1, <1>3, AnyDot
<1>5. rest' = Spacing - 5
  BY <1>3, DotShifts, SpacingIs
<1>6. Left \in 0..11 /\ cycle \in Nat
  <2>1. Left \in 0..11 - third
    BY LeftIs
  <2>2. QED
    BY <1>3, <2>1, DotSizes DEF Types
<1>7. ReadOnItsWay
  BY <1>2, OnItsWay
<1>8. Left = 0 \/ Early(11)
  <2>1. NextRead = 1
    BY <1>3, <1>7, SpacingIs DEF NextRead
  <2>2. QED
    BY <1>6, <2>1 DEF BlankInv
<1>9. ASSUME Left # 0 PROVE Remains(21)
  <2>1. scanline = Lines /\ cycle + Left <= 11
    BY <1>8, <1>9 DEF Early
  <2>2. cycle <= 10
    BY <1>6, <1>9, <2>1
  <2>3. scanline' = Lines /\ cycle' = cycle + 1
    BY <1>6, <2>1, <2>2, EarlyDot
  <2>4. QED
    BY <1>4, <1>6, <2>2, <2>3 DEF Remains
<1>10. LineStep(mmc5', mmc5, Due, Named(Due), irqTarget)
  BY <1>1, <1>2, OneRead
<1>11. ASSUME Left = 0 PROVE ~Strange'
  <2>1. Fresh(mmc5) /\ Due # NoAddress
    BY <1>11, LeftIs
  <2>2. /\ mmc5'.inFrame = mmc5.inFrame
        /\ mmc5'.repeatedAddress \in {0, 1}
        /\ ~mmc5'.scanlinePending
    BY <1>10, <2>1 DEF LineStep, Fresh
  <2>3. QED
    BY <2>1, <2>2 DEF Strange, Fresh
<1>12. Parted' \/ Remains(21)
  <2>1. Due = Shadow(v % Bus) \/ (scanline = Lines /\ cycle + 1 <= 4)
    BY <1>2 DEF BlankInv
  <2>2. CASE scanline = Lines /\ cycle + 1 <= 4
    <3>1. scanline' = Lines /\ cycle' = cycle + 1
      BY <1>6, <2>2, EarlyDot
    <3>2. QED
      BY <1>4, <1>6, <2>2, <3>1 DEF Remains
  <2>3. CASE Due = Shadow(v % Bus)
    <3>1. ~WriteOnItsWay
      BY <1>7 DEF IdealInv
    <3>2. Arrived = v
      BY <3>1, OnItsWay, Shifts DEF Arrived
    <3>3. v' = Stepped(v, FALSE)
      BY <1>1, <3>2, NotFetching
    <3>4. mmc5'.lastPpuAddress = Due /\ (~Named(Due) => mmc5'.repeatedAddress = 0)
      BY <1>10 DEF LineStep
    <3>5. Named(Due) => NameOf(v') # Due
      BY <2>3, <3>3, SteppedAway
    <3>6. QED
      BY <3>4, <3>5 DEF Parted
  <2>4. QED
    BY <2>1, <2>2, <2>3
<1>13. QED
  BY <1>4, <1>5, <1>9, <1>11, <1>12

(* What is on its way after a dot was so before it, and what was due not.  *)
LEMMA StillOnItsWay ==
  ASSUME Types, InFlight, Dot
  PROVE  /\ WriteOnItsWay' => WriteOnItsWay
         /\ ReadOnItsWay' <=> ReadOnItsWay /\ Due = NoAddress
         /\ \/ readPending' # NoAddress \/ dataRead'[1] # NoAddress \/ dataRead'[2] # NoAddress
            \/ dataRead'[3] # NoAddress \/ dataRead'[4] # NoAddress
            => ReadOnItsWay'
<1>1. t # NoAddress
  BY NoAddressIsNone DEF Types
<1>2. /\ WriteOnItsWay' <=> \/ addrPending' \/ addrWrite'[1] # NoAddress
                            \/ addrWrite'[2] # NoAddress \/ addrWrite'[3] # NoAddress
      /\ ReadOnItsWay' <=> \/ readPending' # NoAddress \/ dataRead'[1] # NoAddress
                           \/ dataRead'[2] # NoAddress \/ dataRead'[3] # NoAddress
                           \/ dataRead'[4] # NoAddress
  <2>1. \A i : i \in 1..3 <=> i \in {1, 2, 3}
    OBVIOUS
  <2>2. \A i : i \in 1..4 <=> i \in {1, 2, 3, 4}
    OBVIOUS
  <2>3. QED
    BY <2>1, <2>2, Zenon DEF WriteOnItsWay, ReadOnItsWay
<1>3. Due = dataRead[1]
  BY Registers, Shifts
<1>4. ReadOnItsWay' => Due = NoAddress
  BY <1>2, <1>3, DotShifts, SpacingIs DEF InFlight
<1>5. QED
  BY <1>1, <1>2, <1>3, <1>4, DotShifts, OnItsWay

(* The dots to the next read, and those left, dot by dot.                  *)
LEMMA NextReadDot ==
  ASSUME Types, InFlight, IdealInv, IdleInv, Aligned, CarryLine, BlankInv, Dot, ~Drawn
  PROVE  Left' = 0 \/ Left' + 2 <= NextRead' \/ Remains(11)
<1>1. rest' = (IF rest > 0 THEN rest - 1 ELSE 0) /\ rest \in Nat
  BY DotShifts, RestIs
<1>2. NextRead' = IF ReadOnItsWay' THEN 5 - (Spacing - rest') ELSE rest' + 5
  BY DEF NextRead
<1>3. CASE Due = NoAddress
  <2>1. /\ Left' = IF Left > 0 THEN Left - 1 ELSE 0
        /\ \A n \in 0..21 : Early(n) => Left' = 0 \/ Remains(n)
    BY <1>3, QuietBlank
  <2>2. ReadOnItsWay' <=> ReadOnItsWay
    BY <1>3, StillOnItsWay
  <2>3. ReadOnItsWay => rest > 0
    BY OnItsWay, SpacingIs DEF InFlight
  <2>4. NextRead = IF ReadOnItsWay THEN 5 - (Spacing - rest) ELSE rest + 5
    BY DEF NextRead
  <2>5. Left \in Nat
    BY LeftIs, NextThird
  <2>6. NextRead \in Int /\ NextRead' \in Int /\ NextRead' >= NextRead - 1
    BY <1>1, <1>2, <2>2, <2>3, <2>4, SpacingIs
  <2>7. Left = 0 \/ Left + 2 <= NextRead \/ Early(11)
    BY DEF BlankInv
  <2>8. CASE Early(11)
    BY <2>1, <2>8
  <2>9. CASE Left = 0 \/ Left + 2 <= NextRead
    BY <2>1, <2>5, <2>6, <2>9
  <2>10. QED
    BY <2>7, <2>8, <2>9
<1>4. CASE Due # NoAddress
  <2>1. Left' = 9 /\ rest' = Spacing - 5
    BY <1>4, ReadBlank
  <2>2. ~ReadOnItsWay'
    BY <1>4, StillOnItsWay
  <2>3. QED
    BY <1>2, <2>1, <2>2, SpacingIs
<1>5. QED
  BY <1>3, <1>4

(* What is on its way outside the picture, dot by dot.                     *)
LEMMA OnItsWayBlank ==
  ASSUME Types, InFlight, IdealInv, IdleInv, Aligned, CarryLine, BlankInv, Dot, ~Drawn
  PROVE  /\ WriteOnItsWay' => Left' <= 3 \/ Remains(21)
         /\ readPending' = NoAddress
         /\ \A i \in 1..4 : dataRead'[i] # NoAddress =>
              dataRead'[i] = Shadow(v' % Bus) \/ (scanline' = Lines /\ cycle' + i <= 4)
<1>1. ASSUME WriteOnItsWay'
      PROVE  Left' <= 3 \/ Remains(21)
  <2>1. WriteOnItsWay
    BY <1>1, StillOnItsWay
  <2>2. Due = NoAddress
    <3>1. ~ReadOnItsWay
      BY <2>1 DEF IdealInv
    <3>2. QED
      BY <3>1, OnItsWay, Shifts
  <2>3. /\ Left' = IF Left > 0 THEN Left - 1 ELSE 0
        /\ \A n \in 0..21 : Early(n) => Left' = 0 \/ Remains(n)
    BY <2>2, QuietBlank
  <2>4. Left <= 3 \/ Early(21)
    BY <2>1 DEF BlankInv
  <2>5. Left \in Nat
    BY LeftIs, NextThird
  <2>6. QED
    BY <2>3, <2>4, <2>5
<1>2. readPending' = NoAddress
  BY DotShifts
<1>3. ASSUME NEW i \in 1..4, dataRead'[i] # NoAddress
      PROVE  dataRead'[i] = Shadow(v' % Bus) \/ (scanline' = Lines /\ cycle' + i <= 4)
  <2>1. i \in {1, 2, 3, 4}
    OBVIOUS
  <2>2. ReadOnItsWay'
    BY <1>3, <2>1, StillOnItsWay
  <2>3. ReadOnItsWay /\ Due = NoAddress
    BY <2>2, StillOnItsWay
  <2>4. Arrived = v
    <3>1. ~WriteOnItsWay
      BY <2>3 DEF IdealInv
    <3>2. QED
      BY <3>1, OnItsWay, Shifts DEF Arrived
  <2>5. v' = v
    BY <2>3, <2>4, NotDrawn, NotFetching
  <2>6. CASE i = 4
    <3>1. dataRead'[i] = readPending
      BY <2>6, DotShifts
    <3>2. readPending = Shadow(v % Bus)
      BY <1>3, <3>1 DEF BlankInv
    <3>3. QED
      BY <2>5, <3>1, <3>2
  <2>7. CASE i # 4
    <3>1. PICK j \in 1..4 : j = i + 1
      BY <2>7
    <3>2. dataRead'[i] = dataRead[j]
      BY <2>1, <2>7, <3>1, DotShifts
    <3>3. dataRead[j] = Shadow(v % Bus) \/ (scanline = Lines /\ cycle + j <= 4)
      BY <1>3, <3>2 DEF BlankInv
    <3>4. CASE dataRead[j] = Shadow(v % Bus)
      BY <2>5, <3>2, <3>4
    <3>5. CASE scanline = Lines /\ cycle + j <= 4
      <4>1. cycle \in Nat
        BY DotSizes DEF Types
      <4>2. scanline' = Lines /\ cycle' = cycle + 1
        BY <3>5, <4>1, EarlyDot
      <4>3. QED
        BY <3>1, <3>5, <4>1, <4>2
    <3>6. QED
      BY <3>3, <3>4, <3>5
  <2>8. QED
    BY <2>6, <2>7
<1>4. QED
  BY <1>1, <1>2, <1>3

(* A dot keeps what is known outside the picture.                          *)
LEMMA BlankDot ==
  ASSUME Types, InFlight, IdealInv, IdleInv, Aligned, CarryLine, BlankInv, Dot
  PROVE  BlankInv'
<1> SUFFICES ASSUME ~Drawn' PROVE BlankInv'
  BY DEF BlankInv
<1>1. Left' \in 0..11
  <2>1. Left' \in 0..11 - third'
    BY AnyDot
  <2>2. third' \in {0, 1, 2}
    BY NextThird
  <2>3. PICK n \in {0, 1, 2} : n = third'
    BY <2>2
  <2>4. Left' \in 0..11 - n
    BY <2>1, <2>3
  <2>5. QED
    BY <2>4
<1>2. \A n : Early(n)' <=> Remains(n)
  BY DEF Early, Remains
<1>3. CASE ~Drawn
  <2>1. Left' = 0 \/ Left' + 2 <= NextRead' \/ Remains(11)
    BY <1>3, NextReadDot
  <2>2. /\ Strange' => Remains(21)
        /\ Parted' \/ Left' <= 3 \/ Remains(21)
    <3>1. CASE Due = NoAddress
      <4>1. /\ Strange' => Remains(21)
            /\ Parted' \/ Left' <= 2 \/ Remains(21)
        BY <1>3, <3>1, QuietBlank
      <4>2. QED
        BY <1>1, <4>1
    <3>2. CASE Due # NoAddress
      BY <1>3, <3>2, ReadBlank
    <3>3. QED
      BY <3>1, <3>2
  <2>3. /\ WriteOnItsWay' => Left' <= 3 \/ Remains(21)
        /\ readPending' = NoAddress
        /\ \A i \in 1..4 : dataRead'[i] # NoAddress =>
              dataRead'[i] = Shadow(v' % Bus) \/ (scanline' = Lines /\ cycle' + i <= 4)
    BY <1>3, OnItsWayBlank
  <2>4. top' = NoLine
    <3>1. ~Fetching
      BY <1>3, NotDrawn
    <3>2. DotHistory
      BY Zenon DEF Dot
    <3>3. QED
      BY <3>1, <3>2 DEF DotHistory
  <2>5. QED
    BY <1>2, <2>1, <2>2, <2>3, <2>4, Zenon DEF BlankInv, Shadow, Palette
<1>4. CASE Drawn
  <2>1. scanline' = Lines /\ cycle' = 0
    <3>1. scanline \in 0..PreRender /\ PreRender = Lines + VBlankLines /\ Lines >= 1
          /\ Lines \in Nat /\ VBlankLines \in Nat /\ VBlankLines >= 1
      BY DotSizes DEF Types
    <3>2. ~(scanline' < Lines) /\ scanline' # PreRender
      BY DEF Drawn
    <3>3. cycle' = 0
      BY <1>4, <3>2, NextLine DEF Drawn
    <3>4. scanline' = IF scanline = PreRender THEN 0 ELSE scanline + 1
      BY <3>3, NextLine
    <3>5. QED
      BY <1>4, <3>1, <3>2, <3>3, <3>4 DEF Drawn
  <2>2. Remains(11) /\ Remains(21)
    <3>1. PICK n \in 0..11 : n = Left'
      BY <1>1
    <3>2. 0 + n <= 11 /\ 0 + n <= 21
      OBVIOUS
    <3>3. QED
      BY <2>1, <3>1, <3>2 DEF Remains
  <2>3. readPending' = NoAddress
    BY DotShifts
  <2>4. \A i \in 1..4 : scanline' = Lines /\ cycle' + i <= 4
    BY <2>1
  <2>5. ~(cycle' > 0) /\ ~(scanline' > Lines)
    BY <2>1, DotSizes
  <2>6. QED
    BY <1>2, <2>2, <2>3, <2>4, <2>5, Zenon DEF BlankInv
<1>5. QED
  BY <1>3, <1>4

(* How the lines drawn follow those that are not.                          *)
LEMMA DrawnNext ==
  ASSUME Types, Dot
  PROVE  /\ Drawn' /\ ~Drawn => scanline' = PreRender /\ cycle' = 0
         /\ Drawn /\ scanline' = PreRender => scanline = PreRender /\ cycle' = cycle + 1
         /\ scanline' < Lines =>
              /\ Drawn
              /\ \/ scanline' = scanline /\ cycle' = cycle + 1
                 \/ cycle' = 0 /\ scanline = PreRender /\ scanline' = 0
                 \/ cycle' = 0 /\ scanline < Lines /\ scanline' = scanline + 1
         /\ Lines < PreRender
<1>1. /\ scanline \in 0..PreRender /\ PreRender = Lines + VBlankLines /\ Lines >= 1
      /\ Lines \in Nat /\ VBlankLines \in Nat /\ VBlankLines >= 1
  BY DotSizes DEF Types
<1>2. /\ cycle' = 0 \/ cycle' = cycle + 1
      /\ cycle' # 0 => scanline' = scanline
      /\ cycle' = 0 => scanline' = IF scanline = PreRender THEN 0 ELSE scanline + 1
  BY NextLine
<1>3. Drawn' <=> scanline' < Lines \/ scanline' = PreRender
  BY DEF Drawn
<1>4. CASE cycle' # 0
  BY <1>1, <1>2, <1>3, <1>4 DEF Drawn
<1>5. CASE cycle' = 0
  <2>1. CASE scanline = PreRender
    BY <1>1, <1>2, <1>3, <1>5, <2>1 DEF Drawn
  <2>2. CASE scanline # PreRender
    BY <1>1, <1>2, <1>3, <1>5, <2>2 DEF Drawn
  <2>3. QED
    BY <2>1, <2>2
<1>6. QED
  BY <1>4, <1>5

(* A picture that stays undisturbed, dot by dot.                           *)
LEMMA SteadyDot ==
  ASSUME Types, IdleInv, DarkInv, Dot, Drawn, steady'
  PROVE  /\ steady /\ ~Touched /\ Due = NoAddress
         /\ On /\ ~rendering => /\ cycle \in 5..PrefetchEnd + 1
                                /\ Left = 0 /\ Fresh(mmc5)
         /\ rendering' = On
<1>1. DotHistory /\ rendering' = On
  BY Zenon DEF Dot
<1>2. /\ steady /\ ~Touched
      /\ ~(On /\ ~rendering /\ (cycle > PrefetchEnd + 1 \/ cycle < 5))
  BY <1>1 DEF DotHistory
<1>3. Due = NoAddress
  BY <1>2 DEF Touched
<1>4. On /\ ~rendering => Left = 0 /\ Fresh(mmc5)
  BY Shifts, LeftIs DEF DarkInv
<1>5. On /\ ~rendering => cycle \in 5..PrefetchEnd + 1
  BY <1>2, DotSizes DEF Types
<1>6. QED
  BY <1>1, <1>2, <1>3, <1>4, <1>5

(* What MMC5 reads in a line drawn, if the program reads nothing.          *)
LEMMA DrawnReads ==
  ASSUME Types, CarryLine, Dot, Due = NoAddress
  PROVE  /\ Finishes => /\ cycle # 0 /\ cycle % 2 = 0 /\ ~NoRead
                        /\ LineStep(mmc5', mmc5, Latched(Fetched), Named(Latched(Fetched)), irqTarget)
         /\ Carries => /\ cycle = 0 /\ scanline = 0 /\ ~NoRead
                       /\ LineStep(mmc5', mmc5, Latched(carry), Named(Latched(carry)), irqTarget)
         /\ ~Finishes /\ ~Carries => NoRead
<1>1. Finishes => cycle # 0 /\ cycle % 2 = 0 /\ ~NoRead
  BY DEF Finishes, FetchDot, NoRead
<1>2. Carries => cycle = 0 /\ scanline = 0 /\ ~NoRead
  BY DEF CarryLine, Carries, NoRead
<1>3. ~(Finishes /\ Carries)
  BY <1>1, <1>2
<1>4. ~Finishes /\ ~Carries => NoRead
  BY DEF NoRead
<1>5. ASSUME Finishes
      PROVE  LineStep(mmc5', mmc5, Latched(Fetched), Named(Latched(Fetched)), irqTarget)
  BY <1>3, <1>5, AfterTypes, OneRead
<1>6. ASSUME Carries
      PROVE  LineStep(mmc5', mmc5, Latched(carry), Named(Latched(carry)), irqTarget)
  <2>1. Latched(carry) \in BusAddress
    BY <1>6, NameIsOnBus, LatchedType DEF Types, Maybe, Carries
  <2>2. QED
    BY <1>3, <1>6, <2>1, OneRead
<1>7. QED
  BY <1>1, <1>2, <1>4, <1>5, <1>6

(* MMC5 counts no line where none is pending.                              *)
LEMMA CountKept ==
  ASSUME Types, IdleInv, CarryLine, Dot, Due = NoAddress, ~mmc5.scanlinePending \/ NoRead
  PROVE  (mmc5.inFrame => Left # 1 \/ ~NoRead)
         => /\ mmc5'.inFrame <=> mmc5.inFrame
            /\ mmc5'.irqCounter = mmc5.irqCounter
            /\ mmc5'.irqPending <=> mmc5.irqPending
<1>1. CASE NoRead
  <2>1. /\ Left' = IF Left > 0 THEN Left - 1 ELSE 0
        /\ mmc5'.irqCounter = mmc5.irqCounter /\ mmc5'.irqPending = mmc5.irqPending
        /\ Left # 1 => mmc5'.inFrame = mmc5.inFrame
        /\ Left' = 0 => Fresh(mmc5')
    BY <1>1, AnyDot
  <2>2. Left = 1 => ~mmc5'.inFrame
    BY <2>1 DEF Fresh
  <2>3. QED
    BY <1>1, <2>1, <2>2
<1>2. CASE Finishes
  <2>1. LineStep(mmc5', mmc5, Latched(Fetched), Named(Latched(Fetched)), irqTarget) /\ ~NoRead
    BY <1>2, DrawnReads
  <2>2. QED
    BY <2>1 DEF LineStep
<1>3. CASE Carries
  <2>1. LineStep(mmc5', mmc5, Latched(carry), Named(Latched(carry)), irqTarget) /\ ~NoRead
    BY <1>3, DrawnReads
  <2>2. QED
    BY <2>1 DEF LineStep
<1>4. QED
  BY <1>1, <1>2, <1>3, DrawnReads

(* Repetitions without a read.                                             *)
LEMMA RepeatsKept ==
  ASSUME Types, IdleInv, Dot, NoRead
  PROVE  /\ \A n \in Nat : Repeats(n) => ~mmc5'.scanlinePending /\ mmc5'.repeatedAddress <= n
         /\ Left # 1 => /\ mmc5'.scanlinePending = mmc5.scanlinePending
                        /\ mmc5'.repeatedAddress = mmc5.repeatedAddress
                        /\ mmc5'.lastPpuAddress = mmc5.lastPpuAddress
<1>1. /\ Left' = IF Left > 0 THEN Left - 1 ELSE 0
      /\ Left # 1 => /\ mmc5'.scanlinePending = mmc5.scanlinePending
                     /\ mmc5'.repeatedAddress = mmc5.repeatedAddress
                     /\ mmc5'.lastPpuAddress = mmc5.lastPpuAddress
      /\ Left' = 0 => Fresh(mmc5')
  BY AnyDot
<1>2. Left = 1 => ~mmc5'.scanlinePending /\ mmc5'.repeatedAddress = 0
  BY <1>1 DEF Fresh
<1>3. QED
  BY <1>1, <1>2 DEF Repeats

(* The first line whole, while rendering goes on.                          *)
LEMMA TopDot ==
  ASSUME Types, Dot
  PROVE  /\ ~Fetching => top' = NoLine
         /\ Fetching /\ (scanline = PreRender \/ cycle # 4) => top' = top
         /\ Fetching /\ scanline < Lines /\ cycle = 4 /\ held =>
              top' = IF top = NoLine THEN scanline ELSE top
         /\ held' <=> On /\ (held \/ cycle = PrefetchEnd + 1)
<1>1. DotHistory
  BY Zenon DEF Dot
<1>2. ~(scanline = PreRender /\ scanline < Lines)
  BY DotSizes
<1>3. top' = CASE ~Fetching -> NoLine
              [] Fetching /\ scanline < Lines /\ cycle = 4 /\ held /\ top = NoLine -> scanline
              [] OTHER -> top
  BY <1>1 DEF DotHistory
<1>4. held' = (On /\ (held \/ cycle = PrefetchEnd + 1))
  BY <1>1 DEF DotHistory
<1>5. QED
  BY <1>2, <1>3, <1>4

(* A frame begins with MMC5 at rest.                                       *)
LEMMA StartDot ==
  ASSUME Types, InFlight, IdealInv, IdleInv, Aligned, DarkInv, CarryLine, BlankInv, StartInv, Dot
  PROVE  StartInv'
<1> SUFFICES ASSUME Drawn', steady', scanline' = PreRender, cycle' < 3
             PROVE  ~Strange' /\ top' = NoLine /\ (Parted' \/ Left' <= 2 - cycle')
  BY DEF StartInv
<1>1. ASSUME Left' = 0 PROVE ~Strange' /\ Parted'
  <2>1. Fresh(mmc5')
    <3>1. IdleInv' /\ Types'
      BY AnyDot, DotTypes
    <3>2. Left' = LeftOf(mmc5', Wait')
      BY DEF Left
    <3>3. Wait' \in {1, 2, 3}
      BY <3>1 DEF Wait, Types
    <3>4. mmc5' \in LineCounters
      BY <3>1 DEF Types
    <3>5. Fresh(mmc5') \/ mmc5'.readThisCycle \/ mmc5'.idleCpuCycles \in 0..2
      BY <3>1, <3>4 DEF IdleInv, LineCounters
    <3>6. QED
      BY <1>1, <3>2, <3>3, <3>5 DEF LeftOf
  <2>2. QED
    BY <2>1 DEF Fresh, Strange, Parted
<1>2. CASE ~Drawn
  <2>1. cycle' = 0 /\ Lines < PreRender /\ Lines \in Nat /\ PreRender \in Nat
    BY <1>2, DrawnNext, DotSizes
  <2>2. \A n : ~Remains(n)
    BY <2>1 DEF Remains
  <2>3. ~Strange' /\ (Parted' \/ Left' <= 2)
    BY <1>2, <2>2, QuietBlank, ReadBlank
  <2>4. top' = NoLine
    BY <1>2, NotDrawn, TopDot
  <2>5. QED
    BY <2>1, <2>3, <2>4
<1>3. CASE Drawn
  <2>1. scanline = PreRender /\ cycle' = cycle + 1 /\ cycle \in {0, 1}
    <3>1. scanline = PreRender /\ cycle' = cycle + 1
      BY <1>3, DrawnNext
    <3>2. cycle \in Nat
      BY DotSizes DEF Types
    <3>3. QED
      BY <3>1, <3>2
  <2>2. steady /\ ~Touched /\ Due = NoAddress
    BY <1>3, SteadyDot
  <2>3. ~Strange /\ top = NoLine /\ (Parted \/ Left <= 2 - cycle)
    BY <1>3, <2>1, <2>2 DEF StartInv
  <2>4. NoRead
    <3>1. ~Finishes
      BY <2>1 DEF Finishes, FetchDot
    <3>2. ~Carries
      BY <2>1, DotSizes DEF CarryLine, Carries
    <3>3. QED
      BY <2>2, <3>1, <3>2, DrawnReads
  <2>5. v' = v
    BY <2>1, <2>2, AddressStays
  <2>6. /\ Left' = IF Left > 0 THEN Left - 1 ELSE 0
        /\ Left # 1 => /\ mmc5'.inFrame = mmc5.inFrame
                       /\ mmc5'.scanlinePending = mmc5.scanlinePending
                       /\ mmc5'.repeatedAddress = mmc5.repeatedAddress
                       /\ mmc5'.lastPpuAddress = mmc5.lastPpuAddress
    BY <2>4, AnyDot
  <2>7. top' = NoLine
    BY <2>1, <2>3, TopDot
  <2>8. Left \in Nat
    BY LeftIs, NextThird
  <2>9. CASE Left \in {0, 1}
    BY <1>1, <2>6, <2>7, <2>9
  <2>10. CASE Left > 1
    <3>1. ~Strange'
      BY <2>3, <2>6, <2>10 DEF Strange
    <3>2. Parted => Parted'
      BY <2>5, <2>6, <2>10 DEF Parted
    <3>3. Left <= 2 - cycle => Left' <= 2 - cycle'
      BY <2>1, <2>6, <2>8, <2>10
    <3>4. QED
      BY <2>3, <2>7, <3>1, <3>2, <3>3
  <2>11. QED
    BY <2>8, <2>9, <2>10
<1>4. QED
  BY <1>2, <1>3

(* Nothing is pending while a line is drawn but after its second name.     *)
LEMMA NotPending ==
  ASSUME Types, IdleInv, DarkInv, StartInv, RepeatInv, Dot, Drawn, steady', On,
         scanline = PreRender \/ cycle \notin 3..4
  PROVE  ~mmc5.scanlinePending
<1>1. cycle \in Nat
  BY DotSizes DEF Types
<1>2. steady
  BY SteadyDot
<1>3. CASE ~rendering
  BY <1>3, SteadyDot DEF Fresh
<1>4. CASE rendering
  <2>1. CASE cycle >= 5
    <3>1. CASE cycle \in 5..6
      BY <1>2, <1>4, <3>1 DEF RepeatInv, Repeats
    <3>2. CASE cycle \in 7..PrefetchEnd + 2
      BY <1>2, <1>4, <3>2 DEF RepeatInv, Repeats
    <3>3. CASE cycle > PrefetchEnd + 2
      BY <1>2, <1>4, <3>3 DEF RepeatInv, Repeats
    <3>4. QED
      BY <1>1, <2>1, <3>1, <3>2, <3>3, DotSizes
  <2>2. CASE cycle < 5 /\ scanline = PreRender
    <3>1. CASE cycle < 3
      BY <1>2, <2>2, <3>1 DEF StartInv, Strange
    <3>2. CASE cycle \in 3..4
      BY <1>2, <1>4, <2>2, <3>2 DEF RepeatInv, Repeats
    <3>3. QED
      BY <1>1, <2>2, <3>1, <3>2
  <2>3. CASE cycle < 5 /\ scanline # PreRender
    <3>1. scanline < Lines /\ cycle < 3
      BY <1>1, <2>3 DEF Drawn
    <3>2. QED
      BY <1>2, <1>4, <3>1 DEF RepeatInv, Repeats
  <2>4. QED
    BY <1>1, <2>1, <2>2, <2>3
<1>5. QED
  BY <1>3, <1>4 DEF Types

(* No line is counted before the picture.                                  *)
LEMMA TopInvDot ==
  ASSUME Types, IdleInv, DarkInv, CarryLine, StartInv, RepeatInv, TopInv, Dot, StartInv'
  PROVE  TopInv'
<1>1. rendering' = On
  BY Zenon DEF Dot
<1>2. ~rendering' => top' = NoLine
  BY <1>1, TopDot DEF Fetching
<1>3. ASSUME scanline' = PreRender
      PROVE  top' = NoLine
  <2>1. CASE ~Drawn
    BY <2>1, TopDot DEF Fetching
  <2>2. CASE Drawn
    <3>1. scanline = PreRender
      BY <1>3, <2>2, DrawnNext
    <3>2. top = NoLine
      BY <3>1 DEF TopInv
    <3>3. QED
      BY <3>1, <3>2, TopDot
  <2>3. QED
    BY <2>1, <2>2
<1>4. ASSUME steady', rendering', scanline' = PreRender
      PROVE  ~mmc5'.inFrame
  <2>1. Drawn'
    BY <1>4 DEF Drawn
  <2>2. CASE cycle' < 3
    BY <1>4, <2>1, <2>2 DEF StartInv, Strange
  <2>3. CASE ~(cycle' < 3)
    <3>1. Drawn
      BY <2>1, <2>3, DrawnNext
    <3>2. scanline = PreRender
      BY <1>4, <3>1, DrawnNext
    <3>3. Due = NoAddress /\ steady
      BY <1>4, <3>1, SteadyDot
    <3>4. ~mmc5.scanlinePending
      BY <1>1, <1>4, <3>1, <3>2, NotPending
    <3>5. ~mmc5.inFrame
      <4>1. CASE rendering
        BY <3>2, <3>3, <4>1 DEF TopInv
      <4>2. CASE ~rendering
        BY <1>1, <1>4, <3>1, <4>2, SteadyDot DEF Fresh
      <4>3. QED
        BY <4>1, <4>2 DEF Types
    <3>6. QED
      BY <3>3, <3>4, <3>5, CountKept
  <2>4. QED
    BY <2>2, <2>3
<1>5. QED
  BY <1>2, <1>3, <1>4 DEF TopInv

(* MMC5 takes note of a line.                                              *)
LEMMA CountedLine ==
  ASSUME NEW n \in Nat, n <= 255, NEW m \in LineCounters, m.irqCounter = n - 1, n > 0
  PROVE  CountAfter(m) = n
<1>1. m.irqCounter + 1 = n
  BY DEF LineCounters
<1>2. n % 256 = n
  OBVIOUS
<1>3. QED
  BY <1>1, <1>2, Zenon DEF CountAfter

(* A dot keeps the count.                                                  *)
LEMMA CountDot ==
  ASSUME Types, IdleInv, DarkInv, CarryLine, StartInv, RepeatInv, TopInv, CountInv, FedInv, Dot
  PROVE  CountInv'
<1> SUFFICES ASSUME steady', rendering', scanline' < Lines
             PROVE  /\ cycle' < 5 => held' /\ Counting(scanline - 1)'
                    /\ cycle' >= 5 => Counting(scanline)'
  BY DEF CountInv
<1>1. /\ Drawn /\ cycle \in 0..LastDot /\ scanline \in Nat
      /\ top \in {NoLine} \cup 0..Lines - 1 /\ Lines \in Nat /\ Lines <= 256
      /\ mmc5 \in LineCounters /\ mmc5.irqCounter \in 0..255 /\ irqTarget' = irqTarget
      /\ irqTarget \in Nat
  <2>1. mmc5 \in LineCounters
    BY DEF Types
  <2>2. irqTarget' = irqTarget
    BY DotShifts
  <2>3. irqTarget \in Nat
    BY InputAssumption DEF InputAssumption, Types
  <2>4. Lines \in Nat /\ Lines <= 256 /\ PreRender \in Nat
    BY DotSizes, LinesAssumption DEF LinesAssumption
  <2>5. Drawn
    BY DrawnNext
  <2>6. QED
    BY <2>1, <2>2, <2>3, <2>4, <2>5 DEF Types, LineCounters
<1>2. /\ steady /\ ~Touched /\ Due = NoAddress
      /\ On /\ (~rendering => cycle \in 5..PrefetchEnd + 1 /\ Left = 0 /\ Fresh(mmc5))
  BY <1>1, SteadyDot
<1>3. Fetching
  BY <1>1, <1>2 DEF Fetching
<1>4. rendering => Left >= 7 \/ ~(mmc5.inFrame \/ cycle > PrefetchEnd + 2
                                    \/ (scanline < Lines /\ cycle < 5))
  <2>1. Left \in Nat
    BY LeftIs, NextThird
  <2>2. ASSUME rendering, mmc5.inFrame \/ cycle > PrefetchEnd + 2 \/ (scanline < Lines /\ cycle < 5)
        PROVE  Left >= 7
    <3>1. Left >= CASE cycle = 0 /\ carry = NoAddress -> 9 [] cycle % 2 = 1 -> 8 [] OTHER -> 7
      BY <1>1, <1>2, <2>2 DEF FedInv
    <3>2. (CASE cycle = 0 /\ carry = NoAddress -> 9 [] cycle % 2 = 1 -> 8 [] OTHER -> 7) \in {7, 8, 9}
      BY <1>1
    <3>3. QED
      BY <2>1, <3>1, <3>2
  <2>3. QED
    BY <2>2
(* Unless a line is counted in this dot, all stays. *)
<1>5. ASSUME scanline = PreRender \/ cycle # 4
      PROVE  /\ mmc5'.inFrame <=> mmc5.inFrame
             /\ mmc5'.irqCounter = mmc5.irqCounter
             /\ mmc5'.irqPending <=> mmc5.irqPending
             /\ top' = top
  <2>1. ~mmc5.scanlinePending \/ NoRead
    <3>1. CASE scanline # PreRender /\ cycle = 3
      <4>1. ~Finishes /\ ~Carries
        BY <3>1 DEF Finishes, Carries, CarryLine
      <4>2. QED
        BY <1>2, <4>1, DrawnReads
    <3>2. CASE scanline = PreRender \/ cycle # 3
      <4>1. scanline = PreRender \/ cycle \notin 3..4
        BY <1>1, <1>5, <3>2
      <4>2. QED
        BY <1>1, <1>2, <4>1, NotPending
    <3>3. QED
      BY <3>1, <3>2
  <2>2. mmc5.inFrame => Left # 1
    <3>1. CASE rendering
      BY <1>4, <3>1
    <3>2. CASE ~rendering
      BY <1>2, <3>2 DEF Fresh
    <3>3. QED
      BY <3>1, <3>2
  <2>3. /\ mmc5'.inFrame <=> mmc5.inFrame
        /\ mmc5'.irqCounter = mmc5.irqCounter
        /\ mmc5'.irqPending <=> mmc5.irqPending
    BY <1>2, <2>1, <2>2, CountKept
  <2>4. top' = top
    BY <1>3, <1>5, TopDot
  <2>5. QED
    BY <2>3, <2>4
<1>6. ASSUME NEW n \in Int, Counting(n), scanline = PreRender \/ cycle # 4
      PROVE  Counting(n)'
  BY <1>1, <1>5, <1>6 DEF Counting
<1>7. CASE cycle' = 0
  <2>1. cycle > PrefetchEnd + 2 /\ cycle # 4 /\ cycle >= 5
    BY <1>7, NextLine, DotSizes
  <2>2. rendering /\ held
    <3>1. rendering
      BY <1>2, <2>1, DotSizes DEF Types
    <3>2. QED
      BY <1>1, <1>2, <2>1, <3>1, DotSizes DEF RepeatInv
  <2>3. held'
    BY <1>2, <2>2, TopDot
  <2>4. CASE scanline = PreRender
    <3>1. top = NoLine /\ ~mmc5.inFrame
      BY <1>2, <2>2, <2>4 DEF TopInv
    <3>2. top' = NoLine /\ ~mmc5'.inFrame
      BY <1>5, <2>1, <3>1
    <3>3. QED
      BY <1>7, <2>3, <3>2 DEF Counting
  <2>5. CASE scanline # PreRender
    <3>1. scanline < Lines /\ scanline' = scanline + 1
      BY <1>1, <1>7, <2>5, NextLine DEF Drawn
    <3>2. Counting(scanline)
      BY <1>2, <2>1, <2>2, <3>1 DEF CountInv
    <3>3. scanline' - 1 = scanline
      BY <1>1, <3>1
    <3>4. PICK n \in Int : n = scanline
      BY <1>1
    <3>5. Counting(n)'
      BY <1>6, <2>1, <3>2, <3>4
    <3>6. Counting(scanline - 1)'
      BY <3>3, <3>4, <3>5 DEF Counting
    <3>7. QED
      BY <1>7, <2>3, <3>6
  <2>6. QED
    BY <2>4, <2>5
<1>8. CASE cycle' # 0
  <2>1. scanline' = scanline /\ cycle' = cycle + 1 /\ scanline < Lines /\ scanline # PreRender
    BY <1>8, DrawnNext, DotSizes
  <2>2. CASE cycle < 4
    <3>1. rendering
      BY <1>2, <2>2 DEF Types
    <3>2. held /\ Counting(scanline - 1)
      BY <1>1, <1>2, <2>1, <2>2, <3>1 DEF CountInv
    <3>3. PICK n \in Int : n = scanline - 1
      BY <1>1
    <3>4. Counting(n)'
      BY <1>6, <2>2, <3>2, <3>3
    <3>5. Counting(scanline - 1)'
      BY <2>1, <3>3, <3>4 DEF Counting
    <3>6. held'
      BY <1>2, <3>2, TopDot
    <3>7. QED
      BY <1>1, <2>1, <2>2, <3>5, <3>6
  <2>3. CASE cycle > 4
    <3>1. PICK n \in Int : n = scanline
      BY <1>1
    <3>2. Counting(n)
      <4>1. CASE rendering
        BY <1>1, <1>2, <2>1, <2>3, <3>1, <4>1 DEF CountInv
      <4>2. CASE ~rendering
        BY <1>2, <4>2 DEF TopInv, Counting, Fresh
      <4>3. QED
        BY <4>1, <4>2
    <3>3. Counting(n)'
      BY <1>6, <2>3, <3>2
    <3>4. Counting(scanline)'
      BY <2>1, <3>1, <3>3 DEF Counting
    <3>5. QED
      BY <1>1, <2>1, <2>3, <3>4
  <2>4. CASE cycle = 4
    <3>1. rendering
      BY <1>2, <2>4
    <3>2. held /\ Counting(scanline - 1) /\ mmc5.scanlinePending
      BY <1>1, <1>2, <2>1, <2>4, <3>1 DEF CountInv, RepeatInv
    <3>3. top' = IF top = NoLine THEN scanline ELSE top
      BY <1>3, <2>1, <2>4, <3>2, TopDot
    <3>4. Finishes
      BY <1>3, <2>4 DEF Finishes, FetchDot
    <3>5. LineStep(mmc5', mmc5, Latched(Fetched), Named(Latched(Fetched)), irqTarget)
      BY <1>2, <3>4, DrawnReads
    <3>6. /\ mmc5'.inFrame = TRUE
          /\ ~mmc5.inFrame => mmc5'.irqCounter = 0 /\ mmc5'.irqPending = FALSE
          /\ mmc5.inFrame => /\ mmc5'.irqCounter = CountAfter(mmc5)
                             /\ mmc5'.irqPending <=> mmc5.irqPending
                                  \/ (CountAfter(mmc5) = irqTarget /\ irqTarget # 0)
      BY <3>2, <3>5, Zenon DEF LineStep
    <3>7. CASE ~mmc5.inFrame
      <4>1. top' = scanline /\ scanline # NoLine
        BY <1>1, <3>2, <3>3, <3>7, NoAddressIsNone DEF Counting
      <4>2. scanline' - top' = 0
        BY <1>1, <2>1, <4>1
      <4>3. Counting(scanline)'
        BY <1>1, <2>1, <3>6, <3>7, <4>1, <4>2 DEF Counting
      <4>4. QED
        BY <2>1, <2>4, <4>3
    <3>8. CASE mmc5.inFrame
      <4>1. /\ top # NoLine /\ top \in Nat /\ top' = top
            /\ top <= scanline - 1 /\ mmc5.irqCounter = scanline - 1 - top
            /\ mmc5.irqPending <=> irqTarget \in 1..mmc5.irqCounter
        BY <1>1, <3>2, <3>3, <3>8 DEF Counting
      <4>2. PICK n \in Nat : n = scanline - top
        BY <1>1, <4>1
      <4>3. n > 0 /\ n <= 255 /\ mmc5.irqCounter = n - 1
        BY <1>1, <2>1, <4>1, <4>2
      <4>4. CountAfter(mmc5) = n
        BY <1>1, <4>3, CountedLine
      <4>5. mmc5'.irqCounter = n /\ (mmc5'.irqPending <=> mmc5.irqPending \/ (n = irqTarget /\ irqTarget # 0))
        BY <3>6, <3>8, <4>4, Zenon
      <4>6. mmc5'.irqPending <=> irqTarget \in 1..n
        BY <1>1, <4>1, <4>3, <4>5
      <4>7. Counting(scanline)'
        BY <1>1, <2>1, <3>6, <4>1, <4>2, <4>5, <4>6 DEF Counting
      <4>8. QED
        BY <2>1, <2>4, <4>7
    <3>9. QED
      BY <3>7, <3>8
  <2>5. QED
    BY <1>1, <2>2, <2>3, <2>4
<1>9. QED
  BY <1>7, <1>8

(* Where in a tile's eight dots the lines drawn end.                       *)
LEMMA EightDots ==
  /\ PrefetchEnd % 8 = 0 /\ (PrefetchEnd + 2) % 8 = 2
  /\ (PrefetchEnd + 1) % 2 = 1 /\ (PrefetchEnd + 3) % 2 = 1
  /\ (PrefetchEnd + 2) % 2 = 0 /\ (PrefetchEnd + 4) % 2 = 0
  /\ ((PrefetchEnd + 1) - 1) % 8 = 0 /\ ((PrefetchEnd + 2) - 1) % 8 = 1
  /\ ((PrefetchEnd + 3) - 1) % 8 = 2 /\ ((PrefetchEnd + 4) - 1) % 8 = 3
  /\ PrefetchEnd >= 40 /\ TilesEnd >= 16
<1>1. PICK k \in Nat : PrefetchEnd = 8 * k /\ k >= 5
  <2>1. PrefetchEnd = 8 * (Columns + Slots + 2)
    BY DotSizes
  <2>2. PICK k \in Nat : k = Columns + Slots + 2
    BY DotSizes
  <2>3. PrefetchEnd = 8 * k
    BY <2>1, <2>2, Zenon
  <2>4. k >= 5
    BY <2>2, DotSizes
  <2>5. QED
    BY <2>3, <2>4
<1>2. QED
  BY <1>1, DotSizes

(* The name read twice: its low byte from the latch, the rest from where   *)
(* it is found again.                                                      *)
LEMMA NameLatched ==
  ASSUME Types, LowIsName
  PROVE  /\ Latched(Name) = Name /\ Named(Name) /\ Name \in BusAddress
<1>1. Name \in Names..Names + Table - 1
  BY NameOfRange DEF Types, Name
<1>2. Name \in BusAddress /\ Name \in Nat
  BY <1>1, NameIsOnBus, BusSizes DEF BusAddress
<1>3. Named(Name)
  BY <1>1 DEF Named
<1>4. PICK n \in Nat : n = Name
  BY <1>2
<1>5. n = Page * (n \div Page) + (n % Page)
  BY BusSizes, Divides
<1>6. Latched(Name) = (Page * (n \div Page)) + (n % Page)
  BY <1>4 DEF Latched, LowIsName
<1>7. QED
  BY <1>2, <1>3, <1>4, <1>5, <1>6

(* What is read of a pattern is not of a name table.                       *)
LEMMA PatternNotNamed ==
  ASSUME Types, NEW n \in 0..1
  PROVE  ~Named(Latched(Table * n))
<1>1. Table * n = Page * (16 * n) + 0 /\ 16 * n \in Nat /\ 0 \in 0..Page - 1
  BY BusSizes
<1>2. (Table * n) \div Page = 16 * n
  BY <1>1, BusSizes, Quotient
<1>3. Latched(Table * n) = Page * (16 * n) + addressLow
  BY <1>2 DEF Latched
<1>4. addressLow < Page /\ addressLow \in Nat
  BY BusSizes DEF Types
<1>5. CASE n = 0
  BY <1>3, <1>4, <1>5, BusSizes DEF Named
<1>6. CASE n = 1
  BY <1>3, <1>4, <1>6, BusSizes DEF Named
<1>7. QED
  BY <1>5, <1>6

(* The fetches of a tile: a name, the attributes or the name again, and    *)
(* the two of a pattern.                                                   *)
LEMMA FetchedByDot ==
  ASSUME Types, cycle > 0
  PROVE  /\ Eighth \in {0, 1} \/ (Eighth \in {2, 3} /\ cycle > PrefetchEnd) =>
              Fetched = NameOf(Arrived)
         /\ Eighth \in {4, 5, 6, 7} => \E n \in 0..1 : Fetched = Table * n
<1>1. cycle > PrefetchEnd => ~TileDot
  BY DotSizes DEF TileDot, Types
<1>2. Eighth \in {0, 1} \/ (Eighth \in {2, 3} /\ cycle > PrefetchEnd) => NameDot
  BY <1>1 DEF NameDot
<1>3. Eighth \in {4, 5, 6, 7} => ~NameDot /\ Eighth \notin {2, 3}
  BY DEF NameDot
<1>4. QED
  BY <1>2, <1>3, FetchedIs, CtrlType

(* The residue of a dot, and where the next one is.                        *)
LEMMA EighthIs ==
  ASSUME NEW c \in Nat, c > 0
  PROVE  /\ (c - 1) % 8 = IF c % 8 = 0 THEN 7 ELSE (c % 8) - 1
         /\ c % 8 \in 0..7
         /\ c % 2 = 0 <=> c % 8 \in {0, 2, 4, 6}
         /\ (c + 1) % 8 = IF c % 8 = 7 THEN 0 ELSE (c % 8) + 1
<1>1. PICK q \in Nat, r \in 0..7 : c = 8 * q + r /\ r = c % 8
  <2>1. c = 8 * (c \div 8) + (c % 8) /\ c \div 8 \in Nat /\ c % 8 \in 0..7
    OBVIOUS
  <2>2. QED
    BY <2>1
<1>2. QED
  BY <1>1

(* No address is repeated beyond what a tile's fetches allow.              *)
LEMMA TileRepeats ==
  ASSUME Types, IdleInv, CarryLine, Dot, Drawn, On, ~Touched, cycle \in 6..PrefetchEnd + 1,
         Repeats(Bound(cycle))
  PROVE  ~mmc5'.scanlinePending /\ mmc5'.repeatedAddress <= Bound(cycle + 1)
<1>1. cycle \in Nat /\ cycle > 0 /\ Due = NoAddress /\ Fetching
  BY DotSizes DEF Fetching, Touched
<1>2. ~Carries
  BY <1>1 DEF CarryLine, Carries
<1>3. PICK r \in 0..7 : /\ r = cycle % 8
                        /\ Eighth = IF r = 0 THEN 7 ELSE r - 1
                        /\ cycle % 2 = 0 <=> r \in {0, 2, 4, 6}
                        /\ (cycle + 1) % 8 = IF r = 7 THEN 0 ELSE r + 1
  BY <1>1, EighthIs DEF Eighth
<1>4. /\ Bound(cycle) = IF r \in {3, 4} THEN 1 ELSE IF r \in {5, 6} THEN 2 ELSE 0
      /\ Bound(cycle + 1) = IF r \in {2, 3} THEN 1 ELSE IF r \in {4, 5} THEN 2 ELSE 0
  BY <1>3 DEF Bound
<1>5. Finishes <=> r \in {0, 2, 4, 6}
  BY <1>1, <1>3 DEF Finishes, FetchDot
<1>6. CASE r \notin {0, 2, 4, 6}
  <2>1. NoRead
    BY <1>1, <1>2, <1>5, <1>6, DrawnReads
  <2>2. Bound(cycle + 1) = Bound(cycle) /\ Bound(cycle) \in Nat
    BY <1>4, <1>6
  <2>3. QED
    BY <2>1, <2>2, RepeatsKept
<1>7. CASE r \in {0, 2, 4, 6}
  <2>1. LineStep(mmc5', mmc5, Latched(Fetched), Named(Latched(Fetched)), irqTarget)
    BY <1>1, <1>5, <1>7, DrawnReads
  <2>2. mmc5.repeatedAddress \in 0..3 /\ mmc5'.repeatedAddress \in 0..3
    BY DotTypes DEF Types, LineCounters
  <2>3. ~mmc5.scanlinePending /\ mmc5.repeatedAddress <= Bound(cycle)
    BY DEF Repeats
  <2>4. PICK named : named = Named(Latched(Fetched))
    OBVIOUS
  <2>5. /\ ~named => mmc5'.repeatedAddress = 0 /\ ~mmc5'.scanlinePending
        /\ mmc5.repeatedAddress <= 1 =>
             ~mmc5'.scanlinePending /\ mmc5'.repeatedAddress <= mmc5.repeatedAddress + 1
    BY <2>1, <2>2, <2>3, <2>4 DEF LineStep
  <2>6. CASE r \in {0, 6}
    <3>1. ~named
      BY <1>1, <1>3, <2>4, <2>6, FetchedByDot, PatternNotNamed
    <3>2. QED
      BY <1>4, <2>5, <2>6, <3>1
  <2>7. CASE r \in {2, 4}
    BY <1>4, <2>2, <2>3, <2>5, <2>7
  <2>8. QED
    BY <1>7, <2>6, <2>7
<1>8. QED
  BY <1>6, <1>7

(* The first dot of a name's fetch latches its low byte.                   *)
LEMMA NameLatches ==
  ASSUME Types, Dot, Drawn, On, ~Touched, cycle \in {1, PrefetchEnd + 1, PrefetchEnd + 3}
  PROVE  LowIsName' /\ v' = v
<1>1. cycle > 0 /\ cycle % 2 = 1 /\ Due = NoAddress /\ cycle \in Nat
  BY EightDots, DotSizes DEF Touched
<1>2. v' = v /\ Arrived = v
  <2>1. cycle \in 0..6 \/ cycle > PrefetchEnd
    BY DotSizes
  <2>2. QED
    BY <2>1, AddressStays
<1>3. Begins
  BY <1>1 DEF Begins, Fetching, FetchDot
<1>4. addressLow' = Fetched % Page
  <2>1. PICK low \in 0..Page - 1 :
          addressLow' = CASE Begins /\ Due = NoAddress  -> Fetched % Page
                          [] Begins /\ Due # NoAddress  -> low
                          [] OTHER                      -> addressLow
    BY <1>1, <1>3, Zenon DEF Dot
  <2>2. QED
    BY <1>1, <1>3, <2>1
<1>5. Eighth \in {0, 1} \/ (Eighth \in {2, 3} /\ cycle > PrefetchEnd)
  BY EightDots, DotSizes DEF Eighth
<1>6. Fetched = NameOf(v)
  BY <1>1, <1>2, <1>5, FetchedByDot
<1>7. QED
  BY <1>2, <1>4, <1>6 DEF LowIsName, Name

(* The second reads it.                                                    *)
LEMMA NameIsRead ==
  ASSUME Types, CarryLine, Dot, Drawn, On, ~Touched, LowIsName,
         cycle \in {2, PrefetchEnd + 2, PrefetchEnd + 4}
  PROVE  LineStep(mmc5', mmc5, Name, TRUE, irqTarget) /\ v' = v
<1>1. cycle > 0 /\ cycle % 2 = 0 /\ Due = NoAddress /\ cycle \in Nat
  BY EightDots, DotSizes DEF Touched
<1>2. v' = v /\ Arrived = v
  <2>1. cycle \in 0..6 \/ cycle > PrefetchEnd
    BY DotSizes
  <2>2. QED
    BY <2>1, AddressStays
<1>3. Finishes
  BY <1>1 DEF Finishes, Fetching, FetchDot
<1>5. Eighth \in {0, 1} \/ (Eighth \in {2, 3} /\ cycle > PrefetchEnd)
  BY EightDots, DotSizes DEF Eighth
<1>6. Fetched = Name
  BY <1>1, <1>2, <1>5, FetchedByDot DEF Name
<1>7. LineStep(mmc5', mmc5, Latched(Fetched), Named(Latched(Fetched)), irqTarget)
  BY <1>1, <1>3, DrawnReads
<1>8. Latched(Fetched) = Name /\ Named(Name) = TRUE
  BY <1>6, NameLatched DEF Named
<1>9. QED
  BY <1>2, <1>7, <1>8

(* What a reading of the name leaves.                                      *)
LEMMA NameAgain ==
  ASSUME Types, Dot, LineStep(mmc5', mmc5, Name, TRUE, irqTarget), ~mmc5.scanlinePending
  PROVE  /\ mmc5'.lastPpuAddress = Name
         /\ mmc5.lastPpuAddress = Name =>
              /\ mmc5.repeatedAddress < 3 => mmc5'.repeatedAddress = mmc5.repeatedAddress + 1
              /\ mmc5'.scanlinePending <=> mmc5.repeatedAddress >= 2
         /\ mmc5.lastPpuAddress # Name \/ mmc5.repeatedAddress = 0 =>
              mmc5'.repeatedAddress = 1 /\ ~mmc5'.scanlinePending
BY DEF LineStep

(* While MMC5 counts, or is about to, it is not about to stop.             *)
LEMMA Fed ==
  ASSUME Types, IdleInv, FedInv, Drawn, steady, rendering,
         mmc5.inFrame \/ cycle > PrefetchEnd + 2 \/ (scanline < Lines /\ cycle < 5)
  PROVE  /\ Left >= 7 /\ (cycle % 2 = 1 => Left >= 8)
         /\ cycle = 0 /\ carry = NoAddress => Left >= 9
<1>1. Left >= CASE cycle = 0 /\ carry = NoAddress -> 9 [] cycle % 2 = 1 -> 8 [] OTHER -> 7
  BY DEF FedInv
<1>2. Left \in Nat /\ cycle \in Nat
  BY LeftIs, DotSizes DEF Types
<1>3. CASE cycle = 0 /\ carry = NoAddress
  BY <1>1, <1>2, <1>3
<1>4. CASE ~(cycle = 0 /\ carry = NoAddress) /\ cycle % 2 = 1
  <2>1. Left >= 8
    BY <1>1, <1>4
  <2>2. QED
    BY <1>2, <1>4, <2>1
<1>5. CASE ~(cycle = 0 /\ carry = NoAddress) /\ cycle % 2 # 1
  <2>1. Left >= 7
    BY <1>1, <1>5
  <2>2. QED
    BY <1>2, <1>5, <2>1
<1>6. QED
  BY <1>3, <1>4, <1>5

(* An odd dot reads nothing.                                               *)
LEMMA OddDot ==
  ASSUME Types, CarryLine, Dot, ~Touched, cycle % 2 = 1
  PROVE  NoRead
<1>1. cycle # 0 /\ Due = NoAddress
  BY DEF Touched
<1>2. ~Finishes /\ ~Carries
  BY <1>1 DEF Finishes, CarryLine, Carries
<1>3. QED
  BY <1>1, <1>2, DrawnReads

LineInv == /\ Types /\ IdleInv /\ CarryLine /\ DarkInv
           /\ StartInv /\ RepeatInv /\ FedInv

(* Names in the first tile of a frame, which may be read thrice.           *)
LEMMA FirstNames ==
  ASSUME LineInv, Dot, Drawn, steady', On, scanline = PreRender, cycle \in 2..3
  PROVE  ~mmc5'.scanlinePending /\ mmc5'.repeatedAddress <= 1
<1> USE DEF LineInv
<1>1. steady /\ ~Touched /\ rendering
  <2>1. steady /\ ~Touched /\ (~rendering => cycle \in 5..PrefetchEnd + 1)
    BY SteadyDot
  <2>2. QED
    BY <2>1
<1>2. CASE cycle = 2
  <2>1. LowIsName
    BY <1>1, <1>2 DEF RepeatInv
  <2>2. LineStep(mmc5', mmc5, Name, TRUE, irqTarget)
    BY <1>1, <1>2, <2>1, NameIsRead
  <2>3. ~Strange /\ (Parted \/ Left <= 0)
    BY <1>1, <1>2 DEF StartInv
  <2>4. Left <= 0 => Fresh(mmc5)
    <3>1. Left \in Nat
      BY LeftIs, NextThird
    <3>2. QED
      BY <3>1, LeftIs
  <2>5. ~mmc5.scanlinePending /\ (mmc5.lastPpuAddress # Name \/ mmc5.repeatedAddress = 0)
    BY <2>3, <2>4 DEF Strange, Parted, Fresh, Name
  <2>6. QED
    BY <2>2, <2>5, NameAgain
<1>3. CASE cycle = 3
  <2>1. NoRead
    BY <1>1, <1>3, OddDot
  <2>2. Repeats(1)
    BY <1>1, <1>3 DEF RepeatInv
  <2>3. QED
    BY <2>1, <2>2, RepeatsKept
<1>4. QED
  BY <1>2, <1>3

(* In the tiles.                                                           *)
LEMMA TilesRepeat ==
  ASSUME LineInv, Dot, Drawn, steady', On, cycle \in 4..PrefetchEnd + 1
  PROVE  ~mmc5'.scanlinePending /\ mmc5'.repeatedAddress <= Bound(cycle + 1)
<1> USE DEF LineInv
<1>1. steady /\ ~Touched /\ Due = NoAddress /\ cycle \in Nat
      /\ (~rendering => cycle \in 5..PrefetchEnd + 1 /\ Fresh(mmc5))
  BY SteadyDot
<1>2. CASE cycle = 4
  <2>1. rendering
    BY <1>1, <1>2 DEF Types
  <2>2. Finishes
    BY <1>2 DEF Finishes, Fetching, FetchDot
  <2>3. LineStep(mmc5', mmc5, Latched(Fetched), Named(Latched(Fetched)), irqTarget)
    BY <1>1, <2>2, DrawnReads
  <2>4. PICK named : named = Named(Latched(Fetched))
    OBVIOUS
  <2>5. Bound(cycle + 1) = 2
    BY <1>2 DEF Bound
  <2>6. mmc5.repeatedAddress \in 0..3 /\ mmc5'.repeatedAddress \in 0..3
    BY DotTypes DEF Types, LineCounters
  <2>7. CASE scanline = PreRender
    <3>1. ~mmc5.scanlinePending /\ mmc5.repeatedAddress <= 1
      BY <1>1, <1>2, <2>1, <2>7 DEF RepeatInv, Repeats
    <3>2. QED
      BY <2>3, <2>4, <2>5, <2>6, <3>1 DEF LineStep
  <2>8. CASE scanline # PreRender
    <3>1. mmc5.scanlinePending
      BY <1>1, <1>2, <2>1, <2>8 DEF RepeatInv, Drawn
    <3>2. QED
      BY <2>3, <2>5, <2>6, <3>1 DEF LineStep
  <2>9. QED
    BY <2>7, <2>8
<1>3. CASE cycle > 4
  <2>1. Repeats(Bound(cycle))
    <3>1. CASE ~rendering
      <4>1. Bound(cycle) \in {0, 1, 2}
        BY DEF Bound
      <4>2. QED
        BY <1>1, <3>1, <4>1 DEF Repeats, Fresh
    <3>2. CASE rendering /\ cycle \in 5..6
      <4>1. Bound(cycle) = 2
        BY <3>2 DEF Bound
      <4>2. QED
        BY <1>1, <3>2, <4>1 DEF RepeatInv
    <3>3. CASE rendering /\ cycle > 6
      <4>1. cycle \in 7..PrefetchEnd + 2
        BY <1>1, <3>3, DotSizes
      <4>2. QED
        BY <1>1, <3>3, <4>1 DEF RepeatInv
    <3>4. QED
      BY <1>1, <1>3, <3>1, <3>2, <3>3
  <2>2. CASE cycle = 5
    <3>1. NoRead
      BY <1>1, <2>2, OddDot
    <3>2. Bound(cycle) = 2 /\ Bound(cycle + 1) = 2
      BY <2>2 DEF Bound
    <3>3. QED
      BY <2>1, <3>1, <3>2, RepeatsKept
  <2>3. CASE cycle > 5
    BY <1>1, <2>1, <2>3, TileRepeats
  <2>4. QED
    BY <1>1, <1>3, <2>2, <2>3
<1>4. QED
  BY <1>1, <1>2, <1>3

(* After them the name of the next line's first tile is read twice, and,   *)
(* as its first dot or the dot left out says, in it again.                 *)
LEMMA NameReadTwice ==
  ASSUME LineInv, Dot, Drawn, steady', On, cycle > PrefetchEnd + 1
  PROVE  /\ cycle' # 0 => /\ mmc5'.repeatedAddress = 1 /\ ~mmc5'.scanlinePending
         /\ cycle' = 0 => /\ mmc5'.repeatedAddress = IF carry' = NoAddress THEN 2 ELSE 1
                          /\ carry' # NoAddress => carry' = Name' /\ LowIsName'
         /\ ~mmc5'.scanlinePending /\ mmc5'.lastPpuAddress = Name'
<1> USE DEF LineInv
<1>1. steady /\ ~Touched /\ Due = NoAddress /\ cycle \in Nat /\ rendering /\ cycle <= PrefetchEnd + 4
  <2>1. /\ steady /\ ~Touched /\ Due = NoAddress
        /\ ~rendering => cycle \in 5..PrefetchEnd + 1
    BY SteadyDot
  <2>2. cycle \in Nat /\ cycle <= PrefetchEnd + 4 /\ PrefetchEnd \in Nat
    BY DotSizes DEF Types
  <2>3. QED
    BY <2>1, <2>2 DEF Types
<1>2. v' = v /\ Name' = Name
  <2>1. v' = v
    BY <1>1, AddressStays, DotSizes
  <2>2. QED
    BY <2>1 DEF Name
<1>3. CASE cycle = PrefetchEnd + 2
  <2>1. LowIsName /\ Repeats(Bound(cycle))
    BY <1>1, <1>3, EightDots, DotSizes DEF RepeatInv
  <2>2. Bound(cycle) = 0
    BY <1>3, EightDots DEF Bound
  <2>3. ~mmc5.scanlinePending /\ mmc5.repeatedAddress = 0
    BY <2>1, <2>2 DEF Repeats, Types, LineCounters
  <2>4. LineStep(mmc5', mmc5, Name, TRUE, irqTarget)
    BY <1>1, <1>3, <2>1, NameIsRead
  <2>5. cycle' # 0
    BY <1>3, NextLine, DotSizes
  <2>6. QED
    BY <1>2, <2>3, <2>4, <2>5, NameAgain
<1>4. CASE cycle = PrefetchEnd + 3
  <2>1. ~mmc5.scanlinePending /\ mmc5.repeatedAddress = 1 /\ mmc5.lastPpuAddress = Name
    BY <1>1, <1>4, DotSizes DEF RepeatInv, Repeats
  <2>2. cycle % 2 = 1
    BY <1>4, EightDots
  <2>3. NoRead
    BY <1>1, <2>2, OddDot
  <2>4. Left # 1
    BY <1>1, <1>4, DotSizes, Fed
  <2>5. mmc5'.repeatedAddress = 1 /\ ~mmc5'.scanlinePending /\ mmc5'.lastPpuAddress = Name
    BY <2>1, <2>3, <2>4, RepeatsKept
  <2>6. LowIsName'
    BY <1>1, <1>4, NameLatches
  <2>7. /\ cycle' = 0 => carry' # NoAddress
        /\ carry' # NoAddress => carry' = Name'
    BY <1>4, NextLine, DotSizes DEF Name
  <2>8. QED
    BY <1>2, <2>5, <2>6, <2>7
<1>5. CASE cycle = PrefetchEnd + 4
  <2>1. /\ ~mmc5.scanlinePending /\ mmc5.repeatedAddress = 1 /\ mmc5.lastPpuAddress = Name
        /\ LowIsName
    BY <1>1, <1>5, DotSizes DEF RepeatInv, Repeats
  <2>2. LineStep(mmc5', mmc5, Name, TRUE, irqTarget)
    BY <1>1, <1>5, <2>1, NameIsRead
  <2>3. cycle' = 0 /\ carry' = NoAddress
    BY <1>5, NextLine, DotSizes
  <2>4. QED
    BY <1>2, <2>1, <2>2, <2>3, NameAgain
<1>6. QED
  BY <1>1, <1>3, <1>4, <1>5, DotSizes

(* And so the second name of a line is one too many.                       *)
LEMMA NameOnceMore ==
  ASSUME LineInv, Dot, Drawn, steady', On, scanline < Lines, cycle < 4
  PROVE  /\ cycle < 2 => /\ ~mmc5'.scanlinePending /\ mmc5'.lastPpuAddress = Name'
                         /\ mmc5'.repeatedAddress = 2
         /\ cycle >= 2 => mmc5'.scanlinePending
<1> USE DEF LineInv
<1>1. steady /\ ~Touched /\ Due = NoAddress /\ cycle \in {0, 1, 2, 3} /\ rendering
  <2>1. cycle \in Nat
    BY DotSizes DEF Types
  <2>2. steady /\ ~Touched /\ Due = NoAddress /\ (~rendering => cycle \in 5..PrefetchEnd + 1)
    BY SteadyDot
  <2>3. QED
    BY <2>1, <2>2
<1>2. v' = v /\ Name' = Name
  <2>1. v' = v
    BY <1>1, AddressStays
  <2>2. QED
    BY <2>1 DEF Name
<1>3. ASSUME cycle < 3
      PROVE  /\ ~mmc5.scanlinePending /\ mmc5.lastPpuAddress = Name
             /\ mmc5.repeatedAddress = IF carry = NoAddress THEN 2 ELSE 1
             /\ carry # NoAddress => carry = Name /\ LowIsName
  BY <1>1, <1>3 DEF RepeatInv, Repeats
<1>4. carry # NoAddress => cycle = 0
  BY DEF CarryLine
<1>5. ASSUME NoRead, cycle = 0 => carry = NoAddress
      PROVE  /\ mmc5'.scanlinePending = mmc5.scanlinePending
             /\ mmc5'.repeatedAddress = mmc5.repeatedAddress
             /\ mmc5'.lastPpuAddress = mmc5.lastPpuAddress
  <2>1. Left # 1
    BY <1>1, Fed
  <2>2. QED
    BY <1>5, <2>1, RepeatsKept
<1>6. CASE cycle = 0 /\ carry # NoAddress
  <2>1. Carries
    BY <1>1, <1>6 DEF Carries
  <2>2. LineStep(mmc5', mmc5, Latched(carry), Named(Latched(carry)), irqTarget)
    BY <1>1, <2>1, DrawnReads
  <2>3. Latched(carry) = Name /\ Named(Name) = TRUE
    BY <1>3, <1>6, NameLatched DEF Named
  <2>4. LineStep(mmc5', mmc5, Name, TRUE, irqTarget)
    BY <2>2, <2>3
  <2>5. QED
    BY <1>2, <1>3, <1>6, <2>4, NameAgain
<1>7. CASE cycle = 0 /\ carry = NoAddress
  <2>1. NoRead
    <3>1. ~Finishes /\ ~Carries
      BY <1>7 DEF Finishes, FetchDot, Carries
    <3>2. QED
      BY <1>1, <3>1, DrawnReads
  <2>2. QED
    BY <1>2, <1>3, <1>5, <1>7, <2>1
<1>8. CASE cycle \in {1, 3}
  <2>1. NoRead
    BY <1>1, <1>8, OddDot
  <2>2. cycle = 3 => mmc5.scanlinePending
    BY <1>1 DEF RepeatInv
  <2>3. QED
    BY <1>2, <1>3, <1>4, <1>5, <1>8, <2>1, <2>2
<1>9. CASE cycle = 2
  <2>1. LowIsName
    BY <1>1, <1>9 DEF RepeatInv
  <2>2. LineStep(mmc5', mmc5, Name, TRUE, irqTarget)
    BY <1>1, <1>9, <2>1, NameIsRead
  <2>3. QED
    BY <1>3, <1>4, <1>9, <2>2, NameAgain
<1>10. QED
  BY <1>1, <1>6, <1>7, <1>8, <1>9

(* A dot keeps what is known of the repetitions.                           *)
LEMMA RepeatDot ==
  ASSUME LineInv, Dot
  PROVE  RepeatInv'
<1> USE DEF LineInv
<1> SUFFICES ASSUME Drawn', steady', rendering' PROVE RepeatInv'
  BY DEF RepeatInv
<1>0. PrefetchEnd \in Nat /\ PrefetchEnd >= 40 /\ LastDot = PrefetchEnd + 4
      /\ cycle \in Nat /\ cycle' \in Nat /\ Lines \in Nat /\ PreRender \in Nat
  <2>1. Types'
    BY DotTypes
  <2>2. QED
    BY <2>1, EightDots, DotSizes DEF Types
<1>1. CASE ~Drawn
  <2>1. cycle' = 0 /\ scanline' = PreRender /\ ~(scanline' < Lines)
    BY <1>0, <1>1, DrawnNext
  <2>2. QED
    BY <1>0, <2>1 DEF RepeatInv
<1>2. CASE Drawn
  <2>1. On /\ steady /\ ~Touched /\ (~rendering => cycle \in 5..PrefetchEnd + 1)
    BY <1>2, SteadyDot
  <2>2. cycle' = 0 \/ cycle' = cycle + 1
    BY NextLine
  <2>3. scanline' = PreRender /\ cycle' \in 3..4 => Repeats(1)'
    <3> SUFFICES ASSUME scanline' = PreRender, cycle' \in 3..4 PROVE Repeats(1)'
      OBVIOUS
    <3>1. scanline = PreRender /\ cycle \in 2..3
      BY <1>0, <1>2, <2>2, DrawnNext
    <3>2. QED
      BY <1>2, <2>1, <3>1, FirstNames DEF Repeats
  <2>4. ASSUME cycle' \in 5..PrefetchEnd + 2
        PROVE  ~mmc5'.scanlinePending /\ mmc5'.repeatedAddress <= Bound(cycle')
    <3>1. cycle' = cycle + 1 /\ cycle \in 4..PrefetchEnd + 1
      BY <1>0, <2>2, <2>4
    <3>2. QED
      BY <1>2, <2>1, <3>1, TilesRepeat
  <2>5. cycle' \in 5..6 => Repeats(2)'
    <3> SUFFICES ASSUME cycle' \in 5..6 PROVE Repeats(2)'
      OBVIOUS
    <3>1. Bound(cycle') = 2 /\ cycle' \in 5..PrefetchEnd + 2
      BY <1>0 DEF Bound
    <3>2. QED
      BY <2>4, <3>1 DEF Repeats
  <2>6. cycle' \in 7..PrefetchEnd + 2 => Repeats(Bound(cycle))'
    <3> SUFFICES ASSUME cycle' \in 7..PrefetchEnd + 2 PROVE Repeats(Bound(cycle))'
      OBVIOUS
    <3>1. cycle' \in 5..PrefetchEnd + 2
      BY <1>0
    <3>2. QED
      BY <2>4, <3>1 DEF Repeats
  <2>7. cycle' > PrefetchEnd + 1 => held'
    <3> SUFFICES ASSUME cycle' > PrefetchEnd + 1 PROVE held'
      OBVIOUS
    <3>1. cycle' = cycle + 1 /\ cycle >= PrefetchEnd + 1
      BY <1>0, <2>2
    <3>2. CASE cycle = PrefetchEnd + 1
      BY <2>1, <3>2, TopDot
    <3>3. CASE cycle > PrefetchEnd + 1
      <4>1. rendering
        BY <1>0, <2>1, <3>3
      <4>2. held
        BY <1>2, <2>1, <3>3, <4>1 DEF RepeatInv
      <4>3. QED
        BY <2>1, <4>2, TopDot
    <3>4. QED
      BY <1>0, <3>1, <3>2, <3>3
  <2>8. cycle' \in {PrefetchEnd + 2, PrefetchEnd + 4, 2} => LowIsName'
    <3> SUFFICES ASSUME cycle' \in {PrefetchEnd + 2, PrefetchEnd + 4, 2} PROVE LowIsName'
      OBVIOUS
    <3>1. cycle \in {1, PrefetchEnd + 1, PrefetchEnd + 3}
      BY <1>0, <2>2
    <3>2. QED
      BY <1>2, <2>1, <3>1, NameLatches
  <2>9. cycle' > PrefetchEnd + 2 =>
          /\ Repeats(1)' /\ mmc5'.repeatedAddress = 1 /\ mmc5'.lastPpuAddress = Name'
    <3> SUFFICES ASSUME cycle' > PrefetchEnd + 2
                 PROVE  Repeats(1)' /\ mmc5'.repeatedAddress = 1 /\ mmc5'.lastPpuAddress = Name'
      OBVIOUS
    <3>1. cycle > PrefetchEnd + 1 /\ cycle' # 0
      BY <1>0, <2>2
    <3>2. /\ mmc5'.repeatedAddress = 1 /\ ~mmc5'.scanlinePending
          /\ mmc5'.lastPpuAddress = Name'
      BY <1>2, <2>1, <3>1, NameReadTwice
    <3>3. QED
      BY <3>2 DEF Repeats
  <2>10. ASSUME scanline' < Lines, cycle' < 3
         PROVE  /\ Repeats(2)' /\ mmc5'.lastPpuAddress = Name'
                /\ mmc5'.repeatedAddress = IF carry' = NoAddress THEN 2 ELSE 1
                /\ carry' # NoAddress => carry' = Name' /\ LowIsName'
    <3>1. CASE cycle' = 0
      <4>1. cycle > PrefetchEnd + 1
        BY <1>0, <3>1, NextLine
      <4>2. QED
        BY <1>2, <2>1, <3>1, <4>1, NameReadTwice DEF Repeats
    <3>2. CASE cycle' # 0
      <4>1. scanline < Lines /\ cycle < 2 /\ cycle < 4
        BY <1>0, <2>2, <2>10, <3>2, DrawnNext
      <4>2. ~mmc5'.scanlinePending /\ mmc5'.lastPpuAddress = Name' /\ mmc5'.repeatedAddress = 2
        BY <1>2, <2>1, <4>1, NameOnceMore
      <4>3. carry' = NoAddress
        BY <3>2, NextLine
      <4>4. QED
        BY <4>2, <4>3 DEF Repeats
    <3>3. QED
      BY <3>1, <3>2
  <2>11. ASSUME scanline' < Lines, cycle' \in 3..4
         PROVE  mmc5'.scanlinePending
    <3>1. scanline < Lines /\ cycle >= 2 /\ cycle < 4
      BY <1>0, <2>2, <2>11, DrawnNext
    <3>2. QED
      BY <1>2, <2>1, <3>1, NameOnceMore
  <2>12. QED
    BY <2>3, <2>5, <2>6, <2>7, <2>8, <2>9, <2>10, <2>11, Zenon DEF RepeatInv
<1>3. QED
  BY <1>1, <1>2

(* A dot keeps MMC5 from stopping.                                         *)
LEMMA FedDot ==
  ASSUME LineInv, TopInv, Dot, StartInv'
  PROVE  FedInv'
<1> USE DEF LineInv
<1> SUFFICES ASSUME Drawn', steady', rendering',
                    mmc5'.inFrame \/ cycle' > PrefetchEnd + 2 \/ (scanline' < Lines /\ cycle' < 5)
             PROVE  Left' >= CASE cycle' = 0 /\ carry' = NoAddress -> 9
                               [] cycle' % 2 = 1 -> 8 [] OTHER -> 7
  BY DEF FedInv
<1>0. PrefetchEnd \in Nat /\ PrefetchEnd >= 40 /\ LastDot = PrefetchEnd + 4
      /\ cycle \in Nat /\ cycle' \in Nat /\ Lines \in Nat /\ PreRender \in Nat /\ Left \in Nat
  <2>1. Types'
    BY DotTypes
  <2>2. QED
    BY <2>1, EightDots, DotSizes, LeftIs, NextThird DEF Types
<1>1. Drawn
  <2> SUFFICES ASSUME ~Drawn PROVE FALSE
    OBVIOUS
  <2>1. cycle' = 0 /\ scanline' = PreRender /\ ~(scanline' < Lines)
    BY <1>0, DrawnNext
  <2>2. ~mmc5'.inFrame
    BY <2>1 DEF StartInv, Strange
  <2>3. QED
    BY <1>0, <2>1, <2>2
<1>2. /\ On /\ steady /\ ~Touched /\ Due = NoAddress
      /\ ~rendering => cycle \in 5..PrefetchEnd + 1 /\ Left = 0 /\ Fresh(mmc5)
  BY <1>1, SteadyDot
<1>3. /\ \/ cycle' = 0 /\ cycle \in LastDot - 1..LastDot
         \/ cycle' = cycle + 1 /\ cycle \in 0..LastDot - 1
      /\ cycle' = 0 /\ carry' = NoAddress => cycle = LastDot
  BY NextLine
<1>4. CASE ~NoRead
  <2>1. Left' \in {9, 10, 11}
    BY <1>4, AnyDot, NextThird
  <2>2. (CASE cycle' = 0 /\ carry' = NoAddress -> 9
           [] cycle' % 2 = 1 -> 8 [] OTHER -> 7) \in {7, 8, 9}
    BY <1>0
  <2>3. QED
    BY <2>1, <2>2
<1>5. CASE NoRead
  <2>1. cycle % 2 = 1 \/ cycle = 0
    <3>1. cycle # 0 /\ cycle % 2 = 0 => Finishes
      BY <1>1, <1>2 DEF Finishes, Fetching, FetchDot
    <3>2. ~Finishes
      BY <1>5 DEF NoRead
    <3>3. cycle % 2 = 0 \/ cycle % 2 = 1
      BY <1>0
    <3>4. QED
      BY <3>1, <3>2, <3>3
  <2>2. /\ Left' = IF Left > 0 THEN Left - 1 ELSE 0
        /\ Left # 1 => mmc5'.inFrame = mmc5.inFrame
        /\ Left' = 0 => Fresh(mmc5')
    BY <1>5, AnyDot
  <2>3. mmc5'.inFrame => mmc5.inFrame
    <3>1. Left = 1 => ~mmc5'.inFrame
      BY <2>2 DEF Fresh
    <3>2. QED
      BY <2>2, <3>1
  <2>4. /\ cycle' > PrefetchEnd + 2 => cycle > PrefetchEnd + 2
        /\ cycle' = 0 => cycle > PrefetchEnd + 2
    <3>1. cycle # PrefetchEnd + 2
      BY <2>1, EightDots
    <3>2. QED
      BY <1>0, <1>3, <3>1
  <2>5. /\ mmc5.inFrame \/ cycle > PrefetchEnd + 2 \/ (scanline < Lines /\ cycle < 5)
        /\ rendering
    <3>1. CASE mmc5'.inFrame
      BY <1>2, <2>3, <3>1 DEF Fresh, Types
    <3>2. CASE cycle' > PrefetchEnd + 2 \/ cycle' = 0
      BY <1>0, <1>2, <2>4, <3>2 DEF Types
    <3>3. CASE scanline' < Lines /\ cycle' < 5 /\ cycle' # 0
      <4>1. scanline < Lines /\ cycle < 5
        BY <1>0, <1>3, <3>3, DrawnNext
      <4>2. QED
        BY <1>0, <1>2, <4>1 DEF Types
    <3>4. QED
      BY <3>1, <3>2, <3>3
  <2>6. /\ cycle % 2 = 1 => Left >= 8
        /\ cycle = 0 /\ carry = NoAddress => Left >= 9
    BY <1>1, <1>2, <2>5, Fed
  <2>7. CASE cycle = 0
    <3>1. carry = NoAddress
      BY <1>5, <2>5 DEF NoRead, Carries
    <3>2. Left' >= 8 /\ cycle' = 1
      BY <1>0, <1>3, <2>2, <2>6, <2>7, <3>1
    <3>3. QED
      BY <3>2
  <2>8. CASE cycle % 2 = 1
    <3>1. Left' >= 7 /\ Left' \in Nat
      BY <1>0, <2>2, <2>6, <2>8
    <3>2. cycle' % 2 # 1 /\ ~(cycle' = 0 /\ carry' = NoAddress)
      <4>1. LastDot % 2 = 0
        BY <1>0, EightDots
      <4>2. cycle # LastDot
        BY <2>8, <4>1
      <4>3. cycle' = 0 => carry' # NoAddress
        BY <1>3, <4>2
      <4>4. cycle' = cycle + 1 => cycle' % 2 # 1
        BY <1>0, <2>8
      <4>5. QED
        BY <1>3, <4>3, <4>4
    <3>3. QED
      BY <3>1, <3>2
  <2>9. QED
    BY <2>1, <2>7, <2>8
<1>6. QED
  BY <1>4, <1>5

LinesInv == /\ PipelineInv /\ LineInv
            /\ Aligned /\ BlankInv /\ TopInv /\ CountInv

(* The invariant of the lines holds initially and is inductive.            *)
LEMMA LinesInit == Init => LinesInv
<1> SUFFICES ASSUME Init PROVE LinesInv
  OBVIOUS
<1>1. PipelineInv /\ Types
  BY PipelineInit DEF PipelineInv
<1>2. ~Drawn /\ scanline # PreRender /\ ~(scanline < Lines) /\ scanline > Lines - 1
  BY DotSizes DEF Init, Drawn
<1>3. Fresh(mmc5) /\ ~mmc5.readThisCycle
  BY DEF Init, MMC5Reset, Fresh
<1>4. IdleInv /\ Left = 0
  BY <1>3 DEF IdleInv, Left, LeftOf
<1>5. /\ \A i \in 1..4 : enabling[i] = mask
      /\ rendering = mask /\ top = NoLine /\ carry = NoAddress /\ rest = 0
      /\ readPending = NoAddress /\ \A i \in 1..4 : dataRead[i] = NoAddress
  BY DEF Init
<1>6. ~Strange /\ Parted
  BY <1>3 DEF Fresh, Strange, Parted
<1>7. LineInv
  BY <1>1, <1>2, <1>4, <1>5 DEF LineInv, CarryLine, DarkInv, StartInv, RepeatInv, FedInv
<1>8. Aligned
  BY <1>5 DEF Aligned
<1>9. BlankInv
  BY <1>4, <1>5, <1>6 DEF BlankInv
<1>10. TopInv /\ CountInv
  BY <1>2, <1>5 DEF TopInv, CountInv
<1>11. QED
  BY <1>1, <1>7, <1>8, <1>9, <1>10 DEF LinesInv

(* What an access leaves alone.                                            *)
LEMMA LinesUntouched ==
  ASSUME UNCHANGED <<dotVars, enabling, rendering, addressLow, mmc5, irqTarget, held, top>>
  PROVE  /\ Left' = Left /\ Drawn' = Drawn /\ Strange' = Strange
         /\ Early(11)' = Early(11) /\ Early(21)' = Early(21)
         /\ IdleInv' = IdleInv /\ CarryLine' = CarryLine
         /\ v' = v => Parted' = Parted /\ Name' = Name /\ LowIsName' = LowIsName
<1>1. Left' = Left
  BY DEF dotVars, Left, Wait, LeftOf
<1>2. Drawn' = Drawn /\ Strange' = Strange /\ CarryLine' = CarryLine
  BY DEF dotVars, Drawn, Strange, CarryLine
<1>3. Early(11)' = Early(11) /\ Early(21)' = Early(21)
  BY <1>1 DEF dotVars, Early
<1>4. IdleInv' = IdleInv
  BY DEF dotVars, IdleInv
<1>5. v' = v => Parted' = Parted /\ Name' = Name /\ LowIsName' = LowIsName
  BY DEF Parted, Name, LowIsName
<1>6. QED
  BY <1>1, <1>2, <1>3, <1>4, <1>5

(* An access changes nothing of a line that stays undisturbed.             *)
LEMMA LinesSame ==
  ASSUME UNCHANGED <<dotVars, enabling, rendering, addressLow, mmc5, irqTarget, held, top>>,
         steady' => steady /\ (Drawn => v' = v),
         StartInv, TopInv, CountInv, RepeatInv, FedInv
  PROVE  StartInv' /\ TopInv' /\ CountInv' /\ RepeatInv' /\ FedInv'
<1>1. /\ Left' = Left /\ Drawn' = Drawn /\ Strange' = Strange
      /\ v' = v => Parted' = Parted /\ Name' = Name /\ LowIsName' = LowIsName
  BY LinesUntouched
<1>2. /\ scanline' = scanline /\ cycle' = cycle /\ carry' = carry /\ rendering' = rendering
      /\ mmc5' = mmc5 /\ held' = held /\ top' = top /\ irqTarget' = irqTarget
  BY DEF dotVars
<1>3. StartInv'
  BY <1>1, <1>2 DEF StartInv
<1>4. TopInv'
  BY <1>2 DEF TopInv
<1>5. CountInv'
  BY <1>2 DEF CountInv, Counting
<1>6. RepeatInv'
  BY <1>1, <1>2 DEF RepeatInv, Repeats, Bound
<1>7. FedInv'
  BY <1>1, <1>2 DEF FedInv
<1>8. QED
  BY <1>3, <1>4, <1>5, <1>6, <1>7

(* The program acts when rendering is on or off for good.                  *)
LEMMA LinesAct ==
  ASSUME LinesInv, PipelineInv', Access,
         mask' # mask => third = 2,
         readPending' # NoAddress => /\ third = 0 /\ v' = v
                                     /\ readPending' = Shadow(v % Bus),
         steady' => steady /\ (Drawn => v' = v)
  PROVE  LinesInv'
<1> USE DEF LinesInv, PipelineInv, LineInv
<1>1. UNCHANGED <<dotVars, enabling, rendering, addressLow, mmc5, irqTarget, held, top>>
  BY DEF Access
<1>2. rest = 0 /\ rest' = Spacing /\ Spacing \in Nat /\ Spacing >= 11
  BY SpacingIs DEF Access
<1>3. StartInv' /\ TopInv' /\ CountInv' /\ RepeatInv' /\ FedInv'
  BY <1>1, LinesSame
<1>4. /\ Left' = Left /\ Drawn' = Drawn /\ Strange' = Strange
      /\ Early(11)' = Early(11) /\ Early(21)' = Early(21)
      /\ IdleInv' /\ CarryLine'
  BY <1>1, LinesUntouched
<1>5. /\ ~WriteOnItsWay /\ ~ReadOnItsWay
      /\ \A i \in 1..4 : dataRead[i] = NoAddress
  <2>1. ~WriteOnItsWay /\ ~ReadOnItsWay
    BY <1>2, NothingOnItsWay
  <2>2. QED
    BY <2>1 DEF ReadOnItsWay
<1>6. /\ enabling[4] = mask /\ enabling[3] = mask /\ enabling[2] = mask /\ enabling[1] = mask
      /\ rendering = mask /\ mask \in BOOLEAN
  BY <1>2 DEF Aligned, Types
<1>7. dataRead' = dataRead /\ enabling' = enabling /\ rendering' = rendering
      /\ third' = third /\ scanline' = scanline /\ cycle' = cycle /\ top' = top
  BY DEF Access, dotVars
<1>8. Aligned'
  BY <1>2, <1>5, <1>6, <1>7 DEF Aligned
<1>9. Left \in 0..11
  <2>1. Left \in 0..11 - third /\ third \in {0, 1, 2}
    BY LeftIs DEF Types
  <2>2. QED
    BY <2>1
<1>10. DarkInv'
  BY <1>2, <1>4, <1>6, <1>7, <1>9 DEF DarkInv
<1>11. BlankInv'
  <2> SUFFICES ASSUME ~Drawn' PROVE BlankInv'
    BY DEF BlankInv
  <2>1. ~Drawn
    BY <1>4
  <2>2. Left = 0 \/ Left + 2 <= 5 \/ Early(11)
    BY <1>2, <1>5, <2>1 DEF BlankInv, NextRead
  <2>3. Early(11) => Early(21)
    BY <1>9, DotSizes DEF Early, Types
  <2>4. Left <= 3 \/ Early(21)
    BY <1>9, <2>2, <2>3
  <2>5. Left' = 0 \/ Left' + 2 <= NextRead' \/ Early(11)'
    <3>1. NextRead' >= 5 /\ NextRead' \in Int
      BY <1>2 DEF NextRead
    <3>2. QED
      BY <1>4, <1>9, <2>2, <3>1
  <2>6. Strange' => Early(21)'
    BY <1>4, <2>1 DEF BlankInv
  <2>7. Left' <= 3 \/ Early(21)'
    BY <1>4, <2>4
  <2>8. readPending' # NoAddress => readPending' = Shadow(v' % Bus)
    OBVIOUS
  <2>9. \A i \in 1..4 : dataRead'[i] = NoAddress
    BY <1>5, <1>7
  <2>10. cycle' > 0 \/ scanline' > Lines => top' = NoLine
    BY <1>7, <2>1 DEF BlankInv
  <2>11. QED
    BY <2>5, <2>6, <2>7, <2>8, <2>9, <2>10, Zenon DEF BlankInv, Shadow, Palette
<1>12. QED
  BY <1>3, <1>4, <1>8, <1>10, <1>11

(* Every step keeps the invariant.                                         *)
LEMMA LinesStep == LinesInv /\ [Next]_vars => LinesInv'
<1> SUFFICES ASSUME LinesInv, [Next]_vars PROVE LinesInv'
  OBVIOUS
<1>1. PipelineInv' /\ Types' /\ Types
  BY PipelineStep DEF LinesInv, PipelineInv
<1>2. CASE Dot
  <2> USE DEF LinesInv, PipelineInv
  <2>1. LineInv /\ IdleInv /\ CarryLine /\ DarkInv /\ StartInv /\ RepeatInv /\ FedInv
    BY DEF LineInv
  <2>2. IdleInv' /\ CarryLine' /\ Aligned' /\ DarkInv'
    BY <1>1, <1>2, <2>1, AnyDot, CarryLineDot, AlignedDot, DarkDot
  <2>3. BlankInv'
    BY <1>1, <1>2, <2>1, BlankDot
  <2>4. StartInv'
    BY <1>1, <1>2, <2>1, StartDot
  <2>5. TopInv'
    BY <1>1, <1>2, <2>1, <2>4, TopInvDot
  <2>6. CountInv'
    BY <1>1, <1>2, <2>1, CountDot
  <2>7. RepeatInv' /\ FedInv'
    BY <1>1, <1>2, <2>1, <2>4, RepeatDot, FedDot
  <2>8. QED
    BY <1>1, <2>2, <2>3, <2>4, <2>5, <2>6, <2>7 DEF LineInv
<1>3. ASSUME Access, KeepsV, mask' # mask => third = 2
      PROVE  LinesInv'
  <2>1. v' = v /\ readPending' = readPending /\ steady' = steady
    BY <1>3 DEF KeepsV
  <2>2. readPending' = NoAddress
    BY <1>3, <2>1, NothingOnItsWay, OnItsWay DEF Access, LinesInv, PipelineInv
  <2>3. QED
    BY <1>1, <1>3, <2>1, <2>2, LinesAct
<1>4. CASE (\E c \in Ctrls : WriteCtrl(c)) \/ WriteMask \/ WriteScroll \/ ReadStatus
  <2>1. Access /\ KeepsV /\ (mask' # mask => third = 2)
    BY <1>4 DEF WriteCtrl, WriteMask, WriteScroll, ReadStatus, Writes, Reads
  <2>2. QED
    BY <1>3, <2>1
<1>5. CASE WriteAddr \/ WriteData
  <2>1. Access /\ mask' = mask /\ readPending' = readPending
        /\ (steady' => steady /\ (Drawn => v' = v))
    <3>1. CASE WriteAddr
      BY <3>1 DEF WriteAddr, Writes
    <3>2. CASE WriteData
      <4>1. steady' = (steady /\ ~Drawn)
        BY <3>2, Zenon DEF WriteData
      <4>2. steady' => steady /\ ~Drawn
        BY <4>1, Zenon
      <4>3. Access /\ mask' = mask /\ readPending' = readPending
        BY <3>2 DEF WriteData, Writes
      <4>4. QED
        BY <4>2, <4>3, Zenon
    <3>3. QED
      BY <1>5, <3>1, <3>2
  <2>2. readPending' = NoAddress
    BY <2>1, NothingOnItsWay, OnItsWay DEF Access, LinesInv, PipelineInv
  <2>3. QED
    BY <1>1, <2>1, <2>2, LinesAct
<1>6. CASE ReadData
  <2>1. Access /\ third = 0 /\ mask' = mask /\ v' = v /\ readPending' = Shadow(v % Bus)
        /\ steady' = steady
    BY <1>6 DEF ReadData, Reads
  <2>2. QED
    BY <1>1, <2>1, LinesAct
<1>7. CASE UNCHANGED vars
  <2> USE DEF LinesInv, LineInv, PipelineInv
  <2>1. /\ UNCHANGED <<dotVars, enabling, rendering, addressLow, mmc5, irqTarget, held, top>>
        /\ UNCHANGED <<v, steady, mask, rest, readPending, dataRead, addrPending, addrWrite>>
    BY <1>7 DEF vars, history, busVars
  <2>2. StartInv' /\ TopInv' /\ CountInv' /\ RepeatInv' /\ FedInv'
    BY <2>1, LinesSame
  <2>3. /\ Left' = Left /\ Drawn' = Drawn /\ Strange' = Strange /\ Parted' = Parted
        /\ Early(11)' = Early(11) /\ Early(21)' = Early(21)
        /\ IdleInv' /\ CarryLine'
    BY <2>1, LinesUntouched
  <2>4. Aligned' /\ DarkInv'
    BY <2>1, <2>3 DEF Aligned, DarkInv, dotVars
  <2>5. NextRead' = NextRead /\ WriteOnItsWay' = WriteOnItsWay
    BY <2>1 DEF NextRead, ReadOnItsWay, WriteOnItsWay
  <2>6. BlankInv'
    BY <2>1, <2>3, <2>5 DEF BlankInv, Shadow, Palette, dotVars
  <2>7. QED
    BY <1>1, <2>2, <2>3, <2>4, <2>6
<1>8. QED
  BY <1>2, <1>4, <1>5, <1>6, <1>7 DEF Next

(* MMC5's counter is the number of the line.                               *)
THEOREM LinesCountedHolds == Spec => []LinesCounted
<1>1. LinesInv => LinesCounted
  <2> SUFFICES ASSUME LinesInv, steady, rendering, scanline < Lines, cycle > 4
               PROVE  /\ mmc5.inFrame = (top # NoLine)
                      /\ top # NoLine =>
                           /\ mmc5.irqCounter = scanline - top
                           /\ mmc5.irqPending = (irqTarget \in 1..mmc5.irqCounter)
    BY DEF LinesCounted
  <2>1. cycle >= 5 /\ mmc5.inFrame \in BOOLEAN /\ mmc5.irqPending \in BOOLEAN
    BY DotSizes DEF LinesInv, PipelineInv, Types, LineCounters
  <2>2. /\ mmc5.inFrame <=> top # NoLine
        /\ top # NoLine =>
             /\ mmc5.irqCounter = scanline - top
             /\ mmc5.irqPending <=> irqTarget \in 1..mmc5.irqCounter
    BY <2>1 DEF LinesInv, CountInv, Counting
  <2>3. mmc5.inFrame = (top # NoLine)
    BY <2>1, <2>2, Zenon
  <2>4. ASSUME top # NoLine
        PROVE  mmc5.irqPending = (irqTarget \in 1..mmc5.irqCounter)
    <3>1. (irqTarget \in 1..mmc5.irqCounter) \in BOOLEAN
      OBVIOUS
    <3>2. mmc5.irqPending <=> irqTarget \in 1..mmc5.irqCounter
      BY <2>2, <2>4
    <3>3. QED
      BY <2>1, <3>1, <3>2, Zenon
  <2>5. QED
    BY <2>2, <2>3, <2>4
<1>2. QED
  BY <1>1, LinesInit, LinesStep, PTL DEF Spec

-----------------------------------------------------------------------------
(* Where the picture is: the row and the column of an address.             *)
Row(a)    == <<FineY(a), NameY(a), CoarseY(a)>>
Column(a) == (Columns * NameX(a)) + CoarseX(a)

(* A column is of a table and in it.                                       *)
LEMMA ColumnParts ==
  ASSUME NEW nx \in 0..1, NEW cx \in 0..Columns - 1
  PROVE  /\ Columns * nx + cx \in 0..2 * Columns - 1
         /\ (Columns * nx + cx) \div Columns = nx /\ (Columns * nx + cx) % Columns = cx
<1>1. Columns * nx \in {0, Columns}
  BY Sizes
<1>2. (Columns * nx + cx) \div Columns = nx /\ (Columns * nx + cx) % Columns = cx
  BY Sizes, Quotient
<1>3. QED
  BY <1>1, <1>2, Sizes

LEMMA PlaceOf ==
  ASSUME NEW f \in 0..7, NEW ny \in 0..1, NEW nx \in 0..1,
         NEW cy \in 0..Height - 1, NEW cx \in 0..Columns - 1
  PROVE  LET a == Address(f, ny, nx, cy, cx)
         IN a \in Addresses /\ Row(a) = <<f, ny, cy>> /\ Column(a) = Columns * nx + cx
<1>1. Address(f, ny, nx, cy, cx) \in Addresses
  BY AddressType
<1>2. QED
  BY <1>1, FieldsOf, SMTT(30) DEF Row, Column

(* A number and the next, modulo m.                                        *)
LEMMA NextModulo ==
  ASSUME NEW m \in Nat, m > 0, NEW x \in Nat
  PROVE  /\ x % m \in 0..m - 1
         /\ (x + 1) % m = IF x % m = m - 1 THEN 0 ELSE (x % m) + 1
         /\ (x + 1) % m = ((x % m) + 1) % m
<1>1. PICK q \in Nat, r \in 0..m - 1 : x = m * q + r /\ r = x % m
  <2>1. x \div m \in Nat /\ x % m \in 0..m - 1 /\ x = m * (x \div m) + (x % m)
    BY Divides
  <2>2. QED
    BY <2>1
<1>2. CASE r = m - 1
  <2>1. m * (q + 1) = m * q + m /\ m * q \in Nat
    OBVIOUS
  <2>2. x + 1 = m * (q + 1) + 0 /\ r + 1 = m * 1 + 0
    BY <1>1, <1>2, <2>1
  <2>3. q + 1 \in Nat /\ 1 \in Nat /\ 0 \in 0..m - 1
    OBVIOUS
  <2>4. (m * (q + 1) + 0) % m = 0
    BY <2>3, Quotient
  <2>5. (m * 1 + 0) % m = 0
    BY <2>3, Quotient
  <2>6. (x + 1) % m = 0 /\ (r + 1) % m = 0
    BY <2>2, <2>4, <2>5
  <2>7. QED
    BY <1>1, <1>2, <2>6
<1>3. CASE r # m - 1
  <2>1. r + 1 \in 0..m - 1 /\ m * q \in Nat /\ m * 0 = 0 /\ 0 \in Nat
    BY <1>3
  <2>2. x + 1 = m * q + (r + 1) /\ r + 1 = m * 0 + (r + 1)
    BY <1>1, <2>1
  <2>3. (m * q + (r + 1)) % m = r + 1
    BY <2>1, Quotient
  <2>4. (m * 0 + (r + 1)) % m = r + 1
    BY <2>1, Quotient
  <2>5. (x + 1) % m = r + 1 /\ (r + 1) % m = r + 1
    BY <2>2, <2>3, <2>4
  <2>6. QED
    BY <1>1, <1>3, <2>5
<1>4. QED
  BY <1>2, <1>3

(* A number below m is itself modulo m.                                    *)
LEMMA SmallModulo ==
  ASSUME NEW m \in Nat, NEW x \in 0..m - 1
  PROVE  x % m = x
<1>1. m > 0 /\ m * 0 = 0 /\ 0 \in Nat /\ x = m * 0 + x
  OBVIOUS
<1>2. (m * 0 + x) % m = x
  BY <1>1, Quotient
<1>3. QED
  BY <1>1, <1>2

(* The increments of rendering go a tile to the right, or a row down.      *)
LEMMA RightByOne ==
  ASSUME NEW a \in Addresses
  PROVE  /\ Row(IncrementX(a)) = Row(a)
         /\ Column(a) \in 0..2 * Columns - 1
         /\ Column(IncrementX(a)) = (Column(a) + 1) % (2 * Columns)
<1>1. PICK f \in 0..7, ny \in 0..1, nx \in 0..1, cy \in 0..Height - 1, cx \in 0..Columns - 1 :
        a = Address(f, ny, nx, cy, cx)
  BY FieldRanges
<1>2. Row(a) = <<f, ny, cy>> /\ Column(a) = Columns * nx + cx
  BY <1>1, PlaceOf
<1>3. Columns * nx \in {0, Columns} /\ (nx = 1 <=> Columns * nx = Columns)
  BY Sizes
<1>4. Column(a) \in 0..2 * Columns - 1
  BY <1>2, <1>3, Sizes
<1>5. (Column(a) + 1) % (2 * Columns)
        = IF Column(a) = 2 * Columns - 1 THEN 0 ELSE Column(a) + 1
  <2>1. Column(a) % (2 * Columns) = Column(a)
    BY <1>4, SmallModulo, Sizes
  <2>2. QED
    BY <1>4, <2>1, NextModulo, Sizes
<1>6. CASE cx = Columns - 1
  <2>1. IncrementX(a) = Address(f, ny, 1 - nx, cy, 0)
    BY <1>1, <1>6, IncrementXOf
  <2>2. 1 - nx \in 0..1 /\ 0 \in 0..Columns - 1
    BY Sizes
  <2>3. Row(IncrementX(a)) = <<f, ny, cy>> /\ Column(IncrementX(a)) = Columns * (1 - nx) + 0
    BY <2>1, <2>2, PlaceOf
  <2>4. Columns * (1 - nx) = IF nx = 1 THEN 0 ELSE Columns
    BY Sizes
  <2>5. QED
    BY <1>2, <1>3, <1>4, <1>5, <1>6, <2>3, <2>4, Sizes
<1>7. CASE cx # Columns - 1
  <2>1. IncrementX(a) = Address(f, ny, nx, cy, cx + 1)
    BY <1>1, <1>7, IncrementXOf
  <2>2. cx + 1 \in 0..Columns - 1
    BY <1>7, Sizes
  <2>3. Row(IncrementX(a)) = <<f, ny, cy>> /\ Column(IncrementX(a)) = Columns * nx + (cx + 1)
    BY <2>1, <2>2, PlaceOf
  <2>4. QED
    BY <1>2, <1>3, <1>4, <1>5, <1>7, <2>2, <2>3, Sizes
<1>8. QED
  BY <1>4, <1>6, <1>7

RowBelow(f, ny, cy) ==
  CASE f < 7                   -> <<f + 1, ny, cy>>
    [] f = 7 /\ cy = Rows - 1  -> <<0, 1 - ny, 0>>
    [] f = 7 /\ cy # Rows - 1  -> <<0, ny, IF cy = Height - 1 THEN 0 ELSE cy + 1>>
(* The row of pixels below, by the fields.                                 *)
LEMMA DownByOne ==
  ASSUME NEW a \in Addresses
  PROVE  /\ Row(IncrementY(a)) = RowBelow(FineY(a), NameY(a), CoarseY(a))
         /\ Column(IncrementY(a)) = Column(a)
<1>1. PICK f \in 0..7, ny \in 0..1, nx \in 0..1, cy \in 0..Height - 1, cx \in 0..Columns - 1 :
        /\ a = Address(f, ny, nx, cy, cx)
        /\ f = FineY(a) /\ ny = NameY(a) /\ cy = CoarseY(a)
  BY FieldRanges
<1>2. Column(a) = Columns * nx + cx
  BY <1>1, PlaceOf
<1>3. CASE f < 7
  <2>1. IncrementY(a) = Address(f + 1, ny, nx, cy, cx) /\ f + 1 \in 0..7
    BY <1>1, <1>3, IncrementYOf
  <2>2. Row(IncrementY(a)) = <<f + 1, ny, cy>> /\ Column(IncrementY(a)) = Columns * nx + cx
    BY <2>1, PlaceOf
  <2>3. QED
    BY <1>1, <1>2, <1>3, <2>2 DEF RowBelow
<1>4. CASE f = 7 /\ cy = Rows - 1
  <2>0. f = 7 /\ ~(f < 7) /\ cy = Rows - 1
    BY <1>4
  <2>1. IncrementY(Address(f, ny, nx, cy, cx)) = Address(0, 1 - ny, nx, 0, cx)
    BY <2>0, IncrementYOf
  <2>2. 1 - ny \in 0..1 /\ 0 \in 0..7 /\ 0 \in 0..Height - 1
    BY Sizes
  <2>3. Row(IncrementY(a)) = <<0, 1 - ny, 0>> /\ Column(IncrementY(a)) = Columns * nx + cx
    BY <1>1, <2>1, <2>2, PlaceOf
  <2>4. RowBelow(f, ny, cy) = <<0, 1 - ny, 0>>
    BY <2>0 DEF RowBelow
  <2>5. QED
    BY <1>1, <1>2, <2>3, <2>4
<1>5. CASE f = 7 /\ cy # Rows - 1
  <2> DEFINE d == IF cy = Height - 1 THEN 0 ELSE cy + 1
  <2>0. f = 7 /\ ~(f < 7) /\ cy # Rows - 1
    BY <1>5
  <2>1. IncrementY(Address(f, ny, nx, cy, cx)) = Address(0, ny, nx, d, cx)
    BY <2>0, IncrementYOf
  <2>2. d \in 0..Height - 1 /\ 0 \in 0..7
    BY Sizes
  <2>3. Row(IncrementY(a)) = <<0, ny, d>> /\ Column(IncrementY(a)) = Columns * nx + cx
    <3> HIDE DEF d
    <3>1. QED
      BY <1>1, <2>1, <2>2, PlaceOf
  <2>4. RowBelow(f, ny, cy) = <<0, ny, d>>
    BY <2>0 DEF RowBelow
  <2>5. QED
    <3> HIDE DEF d
    <3>1. QED
      BY <1>1, <1>2, <2>3, <2>4
<1>6. QED
  BY <1>3, <1>4, <1>5

(* Only the row of an address matters to the row below.                    *)
LEMMA SameRow ==
  ASSUME NEW a \in Addresses, NEW b \in Addresses, Row(a) = Row(b)
  PROVE  Row(IncrementY(a)) = Row(IncrementY(b))
<1>1. FineY(a) = FineY(b) /\ NameY(a) = NameY(b) /\ CoarseY(a) = CoarseY(b)
  BY DEF Row
<1>2. QED
  BY <1>1, DownByOne

(* A transfer takes the column, or the row.                                *)
LEMMA TransferPlaces ==
  ASSUME NEW a \in Addresses, NEW from \in Addresses
  PROVE  /\ Row(TransferX(a, from)) = Row(a) /\ Column(TransferX(a, from)) = Column(from)
         /\ Row(TransferY(a, from)) = Row(from) /\ Column(TransferY(a, from)) = Column(a)
<1>1. ASSUME NEW x \in Addresses, NEW y \in Addresses
      PROVE  Row(TransferX(x, y)) = Row(x) /\ Column(TransferX(x, y)) = Column(y)
  <2>1. /\ FineY(x) \in 0..7 /\ NameY(x) \in 0..1 /\ CoarseY(x) \in 0..Height - 1
        /\ NameX(y) \in 0..1 /\ CoarseX(y) \in 0..Columns - 1
    BY FieldRanges
  <2>2. QED
    BY <2>1, PlaceOf DEF TransferX, Row, Column
<1>2. QED
  BY <1>1 DEF TransferY

(* The rows of pixels of the two tables, one below the other.              *)
RowAt(k) == <<k % 8, k \div (8 * Rows), (k % (8 * Rows)) \div 8>>

(* A row by its table and its number there.                                *)
LEMMA RowAtParts ==
  ASSUME NEW ny \in 0..1, NEW p \in 0..8 * Rows - 1
  PROVE  /\ 8 * Rows * ny + p \in 0..16 * Rows - 1
         /\ RowAt(8 * Rows * ny + p) = <<p % 8, ny, p \div 8>>
<1> DEFINE m == 8 * Rows
           k == m * ny + p
<1>1. m \in Nat /\ m > 0 /\ m * ny \in {0, m} /\ Rows \in Nat
  BY Sizes
<1>2. k \div m = ny /\ k % m = p
  BY <1>1, Quotient
<1>3. k % 8 = p % 8
  BY <1>1
<1>4. k \in 0..16 * Rows - 1
  BY <1>1
<1>5. QED
  BY <1>2, <1>3, <1>4 DEF RowAt

LEMMA RowAtFields ==
  ASSUME NEW k \in 0..16 * Rows - 1
  PROVE  \E ny \in 0..1, p \in 0..8 * Rows - 1 : k = 8 * Rows * ny + p
<1>1. Rows \in Nat
  BY Sizes
<1>2. CASE k < 8 * Rows
  <2>1. k \in 0..8 * Rows - 1 /\ k = 8 * Rows * 0 + k
    BY <1>1, <1>2
  <2>2. QED
    BY <2>1
<1>3. CASE k >= 8 * Rows
  <2>1. k - 8 * Rows \in 0..8 * Rows - 1 /\ k = 8 * Rows * 1 + (k - 8 * Rows)
    BY <1>1, <1>3
  <2>2. QED
    BY <2>1
<1>4. QED
  BY <1>1, <1>2, <1>3

(* The row below is the next, and the last is above the first.             *)
LEMMA RowAtNext ==
  ASSUME NEW k \in 0..16 * Rows - 1
  PROVE  RowBelow(k % 8, k \div (8 * Rows), (k % (8 * Rows)) \div 8)
           = RowAt(IF k = 16 * Rows - 1 THEN 0 ELSE k + 1)
<1>1. PICK ny \in 0..1, p \in 0..8 * Rows - 1 : k = 8 * Rows * ny + p
  BY RowAtFields
<1>2. Rows \in Nat /\ Rows >= 1 /\ Rows <= Height /\ Height \in Nat
  BY Sizes
<1>3. k % 8 = p % 8 /\ k \div (8 * Rows) = ny /\ (k % (8 * Rows)) \div 8 = p \div 8
  BY <1>1, RowAtParts DEF RowAt
<1> DEFINE f  == p % 8
           cy == p \div 8
<1>4. f \in 0..7 /\ cy \in 0..Rows - 1 /\ p = 8 * cy + f
  BY <1>2
<1>5. 8 * Rows * ny = IF ny = 0 THEN 0 ELSE 8 * Rows
  BY <1>2
<1> HIDE DEF f, cy
<1>6. CASE f < 7
  <2>1. p + 1 \in 0..8 * Rows - 1 /\ (p + 1) % 8 = f + 1 /\ (p + 1) \div 8 = cy
    BY <1>2, <1>4, <1>6
  <2>2. RowAt(8 * Rows * ny + (p + 1)) = <<f + 1, ny, cy>>
    BY <2>1, RowAtParts
  <2>3. k # 16 * Rows - 1 /\ k + 1 = 8 * Rows * ny + (p + 1)
    BY <1>1, <1>2, <1>5, <2>1
  <2>4. RowBelow(f, ny, cy) = <<f + 1, ny, cy>>
    BY <1>6 DEF RowBelow
  <2>5. QED
    BY <1>3, <2>2, <2>3, <2>4 DEF f, cy
<1>7. CASE f = 7 /\ cy = Rows - 1
  <2>1. p = 8 * Rows - 1 /\ 0 \in 0..8 * Rows - 1 /\ 0 % 8 = 0 /\ 0 \div 8 = 0
    BY <1>2, <1>4, <1>7
  <2>2. RowAt(8 * Rows * (1 - ny) + 0) = <<0, 1 - ny, 0>>
    <3>1. 1 - ny \in 0..1
      OBVIOUS
    <3>2. QED
      BY <2>1, <3>1, RowAtParts
  <2>3. (IF k = 16 * Rows - 1 THEN 0 ELSE k + 1) = 8 * Rows * (1 - ny) + 0
    BY <1>1, <1>2, <1>5, <2>1
  <2>4. RowBelow(f, ny, cy) = <<0, 1 - ny, 0>>
    <3>1. f = 7 /\ ~(f < 7) /\ cy = Rows - 1
      BY <1>7
    <3>2. QED
      BY <3>1 DEF RowBelow
  <2>5. QED
    BY <1>3, <2>2, <2>3, <2>4 DEF f, cy
<1>8. CASE f = 7 /\ cy # Rows - 1
  <2>1. p + 1 \in 0..8 * Rows - 1 /\ (p + 1) % 8 = 0 /\ (p + 1) \div 8 = cy + 1
    BY <1>2, <1>4, <1>8
  <2>2. RowAt(8 * Rows * ny + (p + 1)) = <<0, ny, cy + 1>>
    BY <2>1, RowAtParts
  <2>3. k # 16 * Rows - 1 /\ k + 1 = 8 * Rows * ny + (p + 1)
    BY <1>1, <1>2, <1>5, <2>1
  <2>4. cy # Height - 1
    BY <1>2, <1>4, <1>8
  <2>5. RowBelow(f, ny, cy) = <<0, ny, cy + 1>>
    <3>1. f = 7 /\ ~(f < 7) /\ cy # Rows - 1
      BY <1>8
    <3>2. QED
      BY <2>4, <3>1 DEF RowBelow
  <2>6. QED
    BY <1>3, <2>2, <2>3, <2>5 DEF f, cy
<1>9. QED
  BY <1>4, <1>6, <1>7, <1>8

(* An address in a row of pixels.                                          *)
LEMMA AtRow ==
  ASSUME NEW k \in 0..16 * Rows - 1, NEW nx \in 0..1, NEW cx \in 0..Columns - 1
  PROVE  LET b == Address(k % 8, k \div (8 * Rows), nx, (k % (8 * Rows)) \div 8, cx)
         IN b \in Addresses /\ Row(b) = RowAt(k) /\ Column(b) = Columns * nx + cx
<1>1. PICK ny \in 0..1, p \in 0..8 * Rows - 1 : k = 8 * Rows * ny + p
  BY RowAtFields
<1>2. k % 8 = p % 8 /\ k \div (8 * Rows) = ny /\ (k % (8 * Rows)) \div 8 = p \div 8
  BY <1>1, RowAtParts DEF RowAt
<1>3. p % 8 \in 0..7 /\ p \div 8 \in 0..Height - 1
  BY Sizes
<1>4. QED
  BY <1>2, <1>3, PlaceOf DEF RowAt

(* Where a number of rows down is, from a tile or from an attribute.       *)
First(a) == 8 * Rows * NameY(a)
LEMMA DownFromTile ==
  ASSUME NEW a \in Addresses, NEW n \in Nat, CoarseY(a) < Rows
  PROVE  LET k == (First(a) + PixelRow(a) + n) % (16 * Rows)
         IN /\ k \in 0..16 * Rows - 1
            /\ RowsDown(a, n) \in Addresses
            /\ Row(RowsDown(a, n)) = RowAt(k) /\ Column(RowsDown(a, n)) = Column(a)
<1> DEFINE k == (First(a) + PixelRow(a) + n) % (16 * Rows)
<1>1. /\ FineY(a) \in 0..7 /\ NameY(a) \in 0..1 /\ CoarseY(a) \in Nat
      /\ NameX(a) \in 0..1 /\ CoarseX(a) \in 0..Columns - 1
  BY FieldRanges, Sizes
<1>2. First(a) \in Nat /\ PixelRow(a) \in Nat
  BY <1>1, Sizes DEF First, PixelRow
<1>3. k \in 0..16 * Rows - 1
  BY <1>2, NextModulo, Sizes
<1>4. RowsDown(a, n) = Address(k % 8, k \div (8 * Rows), NameX(a), (k % (8 * Rows)) \div 8, CoarseX(a))
  <2>1. ~(CoarseY(a) >= Rows)
    BY <1>1, Sizes
  <2>2. QED
    BY <2>1 DEF RowsDown, First
<1> HIDE DEF k
<1>5. QED
  BY <1>1, <1>3, <1>4, AtRow DEF Column, k

LEMMA DownFromAttribute ==
  ASSUME NEW a \in Addresses, NEW n \in Nat, CoarseY(a) >= Rows
  PROVE  LET past == (PixelRow(a) + n) - (8 * Height)
             k    == (First(a) + past) % (16 * Rows)
         IN /\ RowsDown(a, n) \in Addresses /\ Column(RowsDown(a, n)) = Column(a)
            /\ past < 0 => /\ Row(RowsDown(a, n))
                                = <<(PixelRow(a) + n) % 8, NameY(a), (PixelRow(a) + n) \div 8>>
                           /\ (PixelRow(a) + n) \div 8 \in Rows..Height - 1
            /\ past >= 0 => k \in 0..16 * Rows - 1 /\ Row(RowsDown(a, n)) = RowAt(k)
<1> DEFINE r    == PixelRow(a) + n
           past == r - (8 * Height)
           k    == (First(a) + past) % (16 * Rows)
<1>1. /\ FineY(a) \in 0..7 /\ NameY(a) \in 0..1 /\ CoarseY(a) \in 0..Height - 1
      /\ NameX(a) \in 0..1 /\ CoarseX(a) \in 0..Columns - 1
  BY FieldRanges
<1>2. First(a) \in Nat /\ r \in Nat /\ r >= 8 * Rows
  BY <1>1, Sizes DEF First, PixelRow
<1> HIDE DEF r
<1>3. ASSUME past < 0
      PROVE  /\ RowsDown(a, n) \in Addresses /\ Column(RowsDown(a, n)) = Column(a)
             /\ Row(RowsDown(a, n)) = <<r % 8, NameY(a), r \div 8>>
             /\ r \div 8 \in Rows..Height - 1
  <2>1. r \div 8 \in Rows..Height - 1 /\ r \div 8 \in 0..Height - 1 /\ r % 8 \in 0..7
    BY <1>2, <1>3, Sizes
  <2>2. RowsDown(a, n) = Address(r % 8, NameY(a), NameX(a), r \div 8, CoarseX(a))
    BY <1>3 DEF RowsDown, r
  <2>3. QED
    BY <1>1, <2>1, <2>2, PlaceOf DEF Column
<1>4. ASSUME past >= 0
      PROVE  /\ RowsDown(a, n) \in Addresses /\ Column(RowsDown(a, n)) = Column(a)
             /\ k \in 0..16 * Rows - 1 /\ Row(RowsDown(a, n)) = RowAt(k)
  <2>1. past \in Nat /\ ~(past < 0)
    BY <1>2, <1>4, Sizes
  <2>2. k \in 0..16 * Rows - 1
    BY <1>2, <2>1, NextModulo, Sizes
  <2>3. ~(CoarseY(a) < Rows)
    BY <1>1, Sizes
  <2>4. RowsDown(a, n)
          = Address(k % 8, k \div (8 * Rows), NameX(a), (k % (8 * Rows)) \div 8, CoarseX(a))
    BY <2>1, <2>3 DEF RowsDown, First, r
  <2> HIDE DEF k
  <2>5. QED
    BY <1>1, <2>2, <2>4, AtRow DEF Column
<1>5. past < 0 \/ past >= 0
  BY <1>2, Sizes
<1>6. QED
  BY <1>3, <1>4, <1>5 DEF r

(* Rows down stay in their column.                                         *)
LEMMA DownTypes ==
  ASSUME NEW a \in Addresses, NEW n \in Nat
  PROVE  RowsDown(a, n) \in Addresses /\ Column(RowsDown(a, n)) = Column(a)
<1>1. CoarseY(a) < Rows \/ CoarseY(a) >= Rows
  BY FieldRanges, Sizes
<1>2. QED
  BY <1>1, DownFromTile, DownFromAttribute

(* The row below an address in a row of pixels.                            *)
LEMMA BelowRow ==
  ASSUME NEW b \in Addresses, NEW k \in 0..16 * Rows - 1, Row(b) = RowAt(k)
  PROVE  Row(IncrementY(b)) = RowAt(IF k = 16 * Rows - 1 THEN 0 ELSE k + 1)
<1>1. FineY(b) = k % 8 /\ NameY(b) = k \div (8 * Rows) /\ CoarseY(b) = (k % (8 * Rows)) \div 8
  BY DEF Row, RowAt
<1>2. QED
  BY <1>1, DownByOne, RowAtNext

(* One row further down is the row below.                                  *)
LEMMA DownNext ==
  ASSUME NEW a \in Addresses, NEW n \in Nat
  PROVE  Row(RowsDown(a, n + 1)) = Row(IncrementY(RowsDown(a, n)))
<1> DEFINE m == 16 * Rows
           b == RowsDown(a, n)
<1>1. b \in Addresses /\ m \in Nat /\ m > 0 /\ n + 1 \in Nat
  BY DownTypes, Sizes
<1>2. /\ FineY(a) \in 0..7 /\ NameY(a) \in 0..1 /\ CoarseY(a) \in 0..Height - 1
      /\ Rows \in 1..Height /\ Height \in Nat
  BY FieldRanges, Sizes
<1>3. First(a) \in {0, 8 * Rows} /\ First(a) \in Nat /\ PixelRow(a) \in Nat
  BY <1>2 DEF First, PixelRow
<1>4. ASSUME NEW x \in Nat, Row(b) = RowAt(x % m), Row(RowsDown(a, n + 1)) = RowAt((x + 1) % m)
      PROVE  Row(RowsDown(a, n + 1)) = Row(IncrementY(b))
  <2> DEFINE k == x % m
  <2>1. k \in 0..m - 1 /\ (x + 1) % m = IF k = m - 1 THEN 0 ELSE k + 1
    BY <1>1, NextModulo
  <2>2. Row(IncrementY(b)) = RowAt(IF k = m - 1 THEN 0 ELSE k + 1)
    <3> HIDE DEF k
    <3>1. Row(b) = RowAt(k)
      BY <1>4 DEF k
    <3>2. QED
      BY <1>1, <2>1, <3>1, BelowRow
  <2>3. QED
    BY <1>4, <2>1, <2>2
<1>5. CASE CoarseY(a) < Rows
  <2> DEFINE x == First(a) + PixelRow(a) + n
  <2>1. x \in Nat /\ x + 1 = First(a) + PixelRow(a) + (n + 1)
    BY <1>3
  <2>2. Row(b) = RowAt(x % m)
    BY <1>5, DownFromTile
  <2>3. Row(RowsDown(a, n + 1)) = RowAt((First(a) + PixelRow(a) + (n + 1)) % m)
    BY <1>1, <1>5, DownFromTile
  <2> HIDE DEF x
  <2>4. QED
    BY <1>4, <2>1, <2>2, <2>3
<1>6. CASE CoarseY(a) >= Rows
  <2> DEFINE r == PixelRow(a) + n
  <2>1. r \in Nat /\ PixelRow(a) + (n + 1) = r + 1 /\ r >= 8 * Rows
    BY <1>2, <1>3, <1>6 DEF PixelRow
  <2>2. /\ r - 8 * Height < 0 =>
             /\ Row(b) = <<r % 8, NameY(a), r \div 8>> /\ r \div 8 \in Rows..Height - 1
        /\ r - 8 * Height >= 0 => Row(b) = RowAt((First(a) + (r - 8 * Height)) % m)
    BY <1>6, DownFromAttribute
  <2>3. /\ (r + 1) - 8 * Height < 0 =>
             Row(RowsDown(a, n + 1)) = <<(r + 1) % 8, NameY(a), (r + 1) \div 8>>
        /\ (r + 1) - 8 * Height >= 0 =>
             Row(RowsDown(a, n + 1)) = RowAt((First(a) + ((r + 1) - 8 * Height)) % m)
    BY <1>1, <1>6, <2>1, DownFromAttribute
  <2> HIDE DEF r
  <2>4. CASE r >= 8 * Height
    <3> DEFINE x == First(a) + (r - 8 * Height)
    <3>1. x \in Nat /\ x + 1 = First(a) + ((r + 1) - 8 * Height)
      BY <1>2, <1>3, <2>1, <2>4
    <3>2. r - 8 * Height >= 0 /\ (r + 1) - 8 * Height >= 0
      BY <1>2, <2>1, <2>4
    <3>3. Row(b) = RowAt(x % m)
      BY <2>2, <3>2
    <3>4. Row(RowsDown(a, n + 1)) = RowAt((x + 1) % m)
      BY <2>3, <3>1, <3>2
    <3> HIDE DEF x
    <3>5. QED
      BY <1>4, <3>1, <3>3, <3>4
  <2>5. ASSUME r < 8 * Height
        PROVE  /\ FineY(b) = r % 8 /\ NameY(b) = NameY(a) /\ CoarseY(b) = r \div 8
               /\ r \div 8 \in Rows..Height - 1 /\ r \div 8 # Rows - 1
    <3>1. r - 8 * Height < 0
      BY <1>2, <2>1, <2>5
    <3>2. Row(b) = <<r % 8, NameY(a), r \div 8>> /\ r \div 8 \in Rows..Height - 1
      BY <2>2, <3>1
    <3>3. QED
      BY <1>2, <3>2 DEF Row
  <2>6. CASE r = 8 * Height - 1
    <3>1. r % 8 = 7 /\ r \div 8 = Height - 1 /\ r < 8 * Height
          /\ (r + 1) - 8 * Height >= 0 /\ (r + 1) - 8 * Height = 0
      BY <1>2, <2>1, <2>6
    <3>2. FineY(b) = 7 /\ NameY(b) = NameY(a) /\ CoarseY(b) = Height - 1 /\ Height - 1 # Rows - 1
      BY <2>5, <3>1
    <3>3. Row(IncrementY(b)) = RowBelow(7, NameY(a), Height - 1)
      BY <1>1, <3>2, DownByOne
    <3>4. RowBelow(7, NameY(a), Height - 1) = <<0, NameY(a), 0>>
      <4>1. ~(7 < 7)
        OBVIOUS
      <4>2. QED
        BY <3>2, <4>1 DEF RowBelow
    <3>5. Row(RowsDown(a, n + 1)) = RowAt((First(a) + 0) % m)
      BY <2>3, <3>1
    <3>6. (First(a) + 0) % m = First(a) + 0
      <4>1. First(a) + 0 \in 0..m - 1
        BY <1>2, <1>3
      <4>2. QED
        BY <1>1, <4>1, SmallModulo
    <3>7. RowAt(First(a) + 0) = <<0, NameY(a), 0>>
      <4>1. 0 \in 0..8 * Rows - 1 /\ 0 % 8 = 0 /\ 0 \div 8 = 0
        BY <1>2
      <4>2. QED
        BY <1>2, <4>1, RowAtParts DEF First
    <3>8. QED
      BY <3>3, <3>4, <3>5, <3>6, <3>7
  <2>7. CASE r < 8 * Height - 1
    <3>1. (r + 1) - 8 * Height < 0 /\ r < 8 * Height
      BY <1>2, <2>1, <2>7
    <3>2. Row(RowsDown(a, n + 1)) = <<(r + 1) % 8, NameY(a), (r + 1) \div 8>>
      BY <2>3, <3>1
    <3>3. Row(IncrementY(b)) = RowBelow(r % 8, NameY(a), r \div 8)
      BY <1>1, <2>5, <3>1, DownByOne
    <3>4. CASE r % 8 = 7
      <4>1. (r + 1) % 8 = 0 /\ (r + 1) \div 8 = (r \div 8) + 1 /\ r \div 8 # Height - 1
        BY <1>2, <2>1, <2>7, <3>4
      <4>2. ~(r % 8 < 7) /\ r \div 8 # Rows - 1
        BY <2>5, <3>1, <3>4
      <4>3. RowBelow(r % 8, NameY(a), r \div 8) = <<0, NameY(a), (r \div 8) + 1>>
        BY <3>4, <4>1, <4>2 DEF RowBelow
      <4>4. QED
        BY <3>2, <3>3, <4>1, <4>3
    <3>5. CASE r % 8 # 7
      <4>1. (r + 1) % 8 = (r % 8) + 1 /\ (r + 1) \div 8 = r \div 8 /\ r % 8 < 7
        BY <2>1, <3>5
      <4>2. RowBelow(r % 8, NameY(a), r \div 8) = <<(r % 8) + 1, NameY(a), r \div 8>>
        BY <4>1 DEF RowBelow
      <4>3. QED
        BY <3>2, <3>3, <4>1, <4>2
    <3>6. QED
      BY <3>4, <3>5
  <2>8. QED
    BY <1>2, <2>1, <2>4, <2>6, <2>7
<1>7. QED
  BY <1>2, <1>5, <1>6

(* No row down is the row itself, and only the row matters.                *)
LEMMA DownNone ==
  ASSUME NEW a \in Addresses
  PROVE  Row(RowsDown(a, 0)) = Row(a)
<1>1. /\ FineY(a) \in 0..7 /\ NameY(a) \in 0..1 /\ CoarseY(a) \in 0..Height - 1
      /\ Rows \in 1..Height /\ Height \in Nat
  BY FieldRanges, Sizes
<1> DEFINE p == PixelRow(a)
<1>2. p \in Nat /\ p % 8 = FineY(a) /\ p \div 8 = CoarseY(a) /\ p + 0 = p
  BY <1>1 DEF PixelRow
<1>3. CASE CoarseY(a) < Rows
  <2>1. p \in 0..8 * Rows - 1
    BY <1>1, <1>3 DEF PixelRow
  <2>2. /\ First(a) + p \in 0..16 * Rows - 1
        /\ RowAt(First(a) + p) = <<p % 8, NameY(a), p \div 8>>
    BY <1>1, <2>1, RowAtParts DEF First
  <2>3. (First(a) + p) % (16 * Rows) = First(a) + p
    BY <1>1, <2>2, SmallModulo
  <2>4. First(a) + p + 0 = First(a) + p
    BY <2>2
  <2>5. Row(RowsDown(a, 0)) = RowAt((First(a) + p + 0) % (16 * Rows))
    BY <1>3, DownFromTile
  <2>6. QED
    BY <1>2, <2>2, <2>3, <2>4, <2>5 DEF Row
<1>4. CASE CoarseY(a) >= Rows
  <2>1. (p + 0) - 8 * Height < 0
    BY <1>1 DEF PixelRow
  <2>2. Row(RowsDown(a, 0)) = <<(p + 0) % 8, NameY(a), (p + 0) \div 8>>
    BY <1>4, <2>1, DownFromAttribute
  <2>3. QED
    BY <1>2, <2>2 DEF Row
<1>5. QED
  BY <1>1, <1>3, <1>4

LEMMA DownSame ==
  ASSUME NEW a \in Addresses, NEW b \in Addresses, NEW n \in Nat, Row(a) = Row(b)
  PROVE  Row(RowsDown(a, n)) = Row(RowsDown(b, n))
<1>1. /\ FineY(a) = FineY(b) /\ NameY(a) = NameY(b) /\ CoarseY(a) = CoarseY(b)
      /\ First(a) = First(b) /\ PixelRow(a) = PixelRow(b)
  BY DEF Row, First, PixelRow
<1>2. CASE CoarseY(a) < Rows
  BY <1>1, <1>2, DownFromTile
<1>3. CASE CoarseY(a) >= Rows
  <2> DEFINE past == (PixelRow(a) + n) - (8 * Height)
  <2>1. past \in Int /\ past = (PixelRow(b) + n) - (8 * Height) /\ CoarseY(b) >= Rows
    BY <1>1, <1>3, FieldRanges, Sizes DEF PixelRow
  <2>2. CASE past < 0
    BY <1>1, <1>3, <2>1, <2>2, DownFromAttribute
  <2>3. CASE past >= 0
    <3>1. Row(RowsDown(a, n)) = RowAt((First(a) + past) % (16 * Rows))
      BY <1>3, <2>3, DownFromAttribute
    <3>2. Row(RowsDown(b, n)) = RowAt((First(b) + past) % (16 * Rows))
      BY <2>1, <2>3, DownFromAttribute
    <3>3. QED
      BY <1>1, <3>1, <3>2
  <2>4. QED
    BY <2>1, <2>2, <2>3
<1>4. QED
  BY <1>2, <1>3, FieldRanges, Sizes

(* Tiles to the right are columns.                                         *)
LEMMA RightIs ==
  ASSUME NEW a \in Addresses, NEW b \in Addresses, NEW n \in Nat,
         Row(a) = Row(b), Column(a) = (Column(b) + n) % (2 * Columns)
  PROVE  a = TilesRight(b, n)
<1>1. /\ FineY(a) = FineY(b) /\ NameY(a) = NameY(b) /\ CoarseY(a) = CoarseY(b)
  BY DEF Row
<1>2. NameX(a) \in 0..1 /\ CoarseX(a) \in 0..Columns - 1
      /\ a = Address(FineY(a), NameY(a), NameX(a), CoarseY(a), CoarseX(a))
  BY FieldRanges
<1>3. Column(a) \div Columns = NameX(a) /\ Column(a) % Columns = CoarseX(a)
  BY <1>2, ColumnParts DEF Column
<1>4. TilesRight(b, n)
        = Address(FineY(b), NameY(b), Column(a) \div Columns, CoarseY(b), Column(a) % Columns)
  BY DEF TilesRight, Column
<1>5. QED
  BY <1>1, <1>2, <1>3, <1>4

(* The tiles between v and the origin's column, and what is known of v and *)
(* of the latch while the picture is undisturbed.                          *)
TilesAt(c) ==
  IF c = 0 THEN 2
  ELSE IF c <= TilesEnd + 1 THEN 2 + ((c - 1) \div 8)
  ELSE IF c <= SpritesEnd THEN 0 ELSE (c - SpritesEnd - 1) \div 8
TilesIn == TilesAt(cycle)
Visible   == scanline < Lines \/ (scanline = PreRender /\ cycle > TilesEnd + 1)
Placed    == scanline = PreRender => cycle > TilesEnd + 6 * Slots
SecondDot == ~SpriteDot /\ NameDot /\ cycle # 0 /\ cycle % 2 = 0
ScrollInv ==
  undisturbed =>
    /\ Visible \/ (scanline = Lines /\ cycle = 0)
    /\ Visible => /\ Column(v) = (Column(origin) + TilesIn) % (2 * Columns)
                  /\ Placed => Row(v) = Row(RowsDown(origin, LineShown))
                  /\ SecondDot => addressLow = NameOf(v) % Page

(* What an undisturbed dot does to v, to its origin and to the latch.      *)
LEMMA UndisturbedDot ==
  ASSUME Types, Dot, undisturbed'
  PROVE  /\ Fetching /\ Arrived = v /\ v' = Scrolled
         /\ undisturbed \/ (scanline = PreRender /\ cycle = TilesEnd + 1)
         /\ Begins => addressLow' = Fetched % Page
<1>1. DotHistory /\ v' = Reached
  BY Zenon DEF Dot
<1>2. /\ Fetching /\ ~Touched
      /\ undisturbed \/ (scanline = PreRender /\ cycle = TilesEnd + 1)
  BY <1>1 DEF DotHistory
<1>3. Head(addrWrite) = NoAddress /\ Due = NoAddress
  BY <1>2 DEF Touched
<1>4. Begins => addressLow' = Fetched % Page
  <2>1. \E low \in 0..Page - 1 :
          addressLow' = CASE Begins /\ Due = NoAddress  -> Fetched % Page
                          [] Begins /\ Due # NoAddress  -> low
                          [] OTHER                      -> addressLow
    BY Zenon DEF Dot
  <2>2. QED
    BY <1>3, <2>1
<1>5. QED
  BY <1>1, <1>2, <1>3, <1>4 DEF Arrived, Reached

TransferDot == scanline = PreRender /\ cycle \in TilesEnd + 3 * Slots..TilesEnd + 6 * Slots
(* The increments and transfers of a dot, by row and column.               *)
LEMMA ScrolledPlaces ==
  ASSUME Types, Fetching, Arrived = v
  PROVE  /\ Column(Scrolled) = IF cycle = TilesEnd + 1 THEN Column(t)
                               ELSE IF TileDot /\ Eighth = 7
                                    THEN (Column(v) + 1) % (2 * Columns) ELSE Column(v)
         /\ Row(Scrolled) = IF TransferDot THEN Row(t)
                            ELSE IF cycle = TilesEnd THEN Row(IncrementY(v)) ELSE Row(v)
         /\ ~(TileDot /\ Eighth = 7) /\ cycle \notin TilesEnd..TilesEnd + 1 /\ ~TransferDot
              => Scrolled = v
<1> DEFINE x == IF TileDot /\ Eighth = 7 THEN IncrementX(v) ELSE v
           y == IF cycle = TilesEnd THEN IncrementY(x) ELSE x
           z == IF cycle = TilesEnd + 1 THEN TransferX(y, t) ELSE y
<1>1. v \in Addresses /\ t \in Addresses /\ cycle \in Nat
  BY DotSizes DEF Types
<1>2. Scrolled = IF TransferDot THEN TransferY(z, t) ELSE z
  BY DEF Scrolled, TransferDot
<1>3. /\ x \in Addresses /\ Row(x) = Row(v)
      /\ Column(x) = IF TileDot /\ Eighth = 7 THEN (Column(v) + 1) % (2 * Columns) ELSE Column(v)
      /\ ~(TileDot /\ Eighth = 7) => x = v
  BY <1>1, IncrementTypes, RightByOne
<1> HIDE DEF x
<1>4. /\ y \in Addresses /\ Column(y) = Column(x)
      /\ Row(y) = IF cycle = TilesEnd THEN Row(IncrementY(v)) ELSE Row(v)
      /\ cycle # TilesEnd => y = x
  <2>1. CASE cycle = TilesEnd
    BY <1>1, <1>3, <2>1, IncrementTypes, DownByOne, SameRow
  <2>2. CASE cycle # TilesEnd
    BY <1>3, <2>2
  <2>3. QED
    BY <2>1, <2>2
<1> HIDE DEF y
<1>5. /\ z \in Addresses /\ Row(z) = Row(y)
      /\ Column(z) = IF cycle = TilesEnd + 1 THEN Column(t) ELSE Column(y)
      /\ cycle # TilesEnd + 1 => z = y
  BY <1>1, <1>4, TransferTypes, TransferPlaces
<1> HIDE DEF z
<1>6. /\ Column(Scrolled) = Column(z)
      /\ Row(Scrolled) = IF TransferDot THEN Row(t) ELSE Row(z)
      /\ ~TransferDot => Scrolled = z
  BY <1>1, <1>2, <1>5, TransferPlaces
<1>7. ASSUME ~(TileDot /\ Eighth = 7), cycle \notin TilesEnd..TilesEnd + 1, ~TransferDot
      PROVE  Scrolled = v
  <2>1. cycle # TilesEnd /\ cycle # TilesEnd + 1
    BY <1>7, DotSizes
  <2>2. QED
    BY <1>3, <1>4, <1>5, <1>6, <1>7, <2>1
<1>8. Column(Scrolled) = IF cycle = TilesEnd + 1 THEN Column(t)
                         ELSE IF TileDot /\ Eighth = 7
                              THEN (Column(v) + 1) % (2 * Columns) ELSE Column(v)
  BY <1>3, <1>4, <1>5, <1>6
<1>9. Row(Scrolled) = IF TransferDot THEN Row(t)
                      ELSE IF cycle = TilesEnd THEN Row(IncrementY(v)) ELSE Row(v)
  BY <1>4, <1>5, <1>6
<1>10. QED
  BY <1>7, <1>8, <1>9

(* The origin moves with the transfers.                                    *)
LEMMA OriginPlaces ==
  ASSUME Types, Dot, Fetching
  PROVE  /\ origin \in Addresses /\ origin' \in Addresses
         /\ Column(origin') = IF cycle = TilesEnd + 1 THEN Column(t) ELSE Column(origin)
         /\ Row(origin') = IF scanline = PreRender /\ cycle = TilesEnd + 6 * Slots
                           THEN Row(t) ELSE Row(origin)
<1> DEFINE x == IF cycle = TilesEnd + 1 THEN TransferX(origin, t) ELSE origin
<1>1. origin \in Addresses /\ t \in Addresses /\ cycle \in Nat
  BY DotSizes DEF Types
<1>2. DotHistory
  BY Zenon DEF Dot
<1>3. origin' = IF scanline = PreRender /\ cycle = TilesEnd + 6 * Slots
                THEN TransferY(x, t) ELSE x
  BY <1>2 DEF DotHistory
<1>4. /\ x \in Addresses /\ Row(x) = Row(origin)
      /\ Column(x) = IF cycle = TilesEnd + 1 THEN Column(t) ELSE Column(origin)
  BY <1>1, TransferTypes, TransferPlaces
<1> HIDE DEF x
<1>5. QED
  BY <1>1, <1>3, <1>4, TransferTypes, TransferPlaces

(* The tiles that the next dot is further on.                              *)
LEMMA TilesNext ==
  ASSUME Types, Dot
  PROVE  /\ TilesIn \in Nat
         /\ cycle = TilesEnd + 1 => TilesIn' = 0
         /\ cycle # TilesEnd + 1 /\ TileDot /\ Eighth = 7 => TilesIn' = TilesIn + 1
         /\ cycle # TilesEnd + 1 /\ ~(TileDot /\ Eighth = 7) => TilesIn' = TilesIn
<1> SUFFICES /\ TilesAt(cycle) \in Nat
             /\ cycle = TilesEnd + 1 => TilesAt(cycle') = 0
             /\ cycle # TilesEnd + 1 /\ TileDot /\ Eighth = 7
                  => TilesAt(cycle') = TilesAt(cycle) + 1
             /\ cycle # TilesEnd + 1 /\ ~(TileDot /\ Eighth = 7)
                  => TilesAt(cycle') = TilesAt(cycle)
  BY DEF TilesIn, TilesAt, TilesEnd, SpritesEnd
<1>1. /\ \/ cycle' = 0 /\ cycle \in LastDot - 1..LastDot
         \/ cycle' = cycle + 1 /\ cycle \in 0..LastDot - 1
      /\ cycle \in Nat
  BY NextLine, DotSizes DEF Types
<1>2. PICK u \in Nat, w \in Nat : /\ TilesEnd = 8 * u /\ SpritesEnd = 8 * w /\ w >= u + 1 /\ u >= 1
                                  /\ PrefetchEnd = 8 * w + 16 /\ LastDot = 8 * w + 20
  <2>1. Columns + Slots \in Nat /\ SpritesEnd = 8 * (Columns + Slots)
    BY DotSizes
  <2>2. QED
    BY <2>1, DotSizes
<1>3. CASE cycle = 0
  <2>1. cycle' = 1 /\ ~TileDot
    BY <1>1, <1>2, <1>3 DEF TileDot
  <2>2. TilesAt(cycle) = 2
    BY <1>1, <1>2, <1>3 DEF TilesAt
  <2>3. TilesAt(cycle') = 2
    BY <1>2, <2>1 DEF TilesAt, TilesEnd
  <2>4. QED
    BY <1>2, <1>3, <2>1, <2>2, <2>3
<1>4. CASE cycle \in 1..TilesEnd
  <2>1. cycle' = cycle + 1 /\ cycle' \in 1..TilesEnd + 1 /\ cycle # 0 /\ cycle' # 0
    BY <1>1, <1>2, <1>4
  <2>2. TilesAt(cycle) = 2 + ((cycle - 1) \div 8)
    BY <1>1, <1>2, <1>4, <2>1 DEF TilesAt
  <2>3. TilesAt(cycle') = 2 + (cycle \div 8)
    <3>1. cycle' - 1 = cycle
      BY <2>1, <1>1
    <3>2. QED
      BY <1>2, <2>1, <3>1 DEF TilesAt, TilesEnd
  <2>4. TileDot /\ cycle # TilesEnd + 1
    BY <1>2, <1>4 DEF TileDot
  <2>5. cycle \div 8 = IF (cycle - 1) % 8 = 7 THEN ((cycle - 1) \div 8) + 1 ELSE (cycle - 1) \div 8
    BY <1>1, <2>1
  <2>6. QED
    BY <1>1, <2>1, <2>2, <2>3, <2>4, <2>5 DEF Eighth
<1>5. CASE cycle = TilesEnd + 1
  <2>1. cycle' = TilesEnd + 2 /\ cycle' \in TilesEnd + 2..SpritesEnd /\ cycle' # 0
        /\ cycle' \notin 1..TilesEnd + 1 /\ cycle \in 1..TilesEnd + 1 /\ cycle # 0
    BY <1>1, <1>2, <1>5
  <2>2. TilesAt(cycle') = 0
    BY <1>1, <1>2, <2>1 DEF TilesAt
  <2>3. TilesAt(cycle) = 2 + ((cycle - 1) \div 8)
    BY <1>1, <1>2, <2>1 DEF TilesAt
  <2>4. QED
    BY <1>1, <1>5, <2>1, <2>2, <2>3
<1>6. CASE cycle \in TilesEnd + 2..SpritesEnd
  <2>1. cycle' = cycle + 1 /\ cycle' # 0 /\ cycle' \notin 1..TilesEnd + 1 /\ ~TileDot
        /\ cycle # 0 /\ cycle \notin 1..TilesEnd + 1 /\ ~(cycle > SpritesEnd)
    BY <1>1, <1>2, <1>6 DEF TileDot
  <2>2. TilesAt(cycle) = 0
    BY <1>1, <1>2, <1>6, <2>1 DEF TilesAt
  <2>3. TilesAt(cycle') = 0
    <3>1. CASE cycle = SpritesEnd
      <4>1. cycle' > SpritesEnd /\ cycle' \notin TilesEnd + 2..SpritesEnd
            /\ (cycle' - SpritesEnd - 1) \div 8 = 0
        BY <1>2, <2>1, <3>1
      <4>2. QED
        BY <1>1, <1>2, <2>1, <4>1 DEF TilesAt
    <3>2. CASE cycle # SpritesEnd
      <4>1. cycle' \in TilesEnd + 2..SpritesEnd
        BY <1>2, <1>6, <2>1, <3>2
      <4>2. QED
        BY <1>1, <1>2, <2>1, <4>1 DEF TilesAt
    <3>3. QED
      BY <3>1, <3>2
  <2>4. QED
    BY <1>2, <1>6, <2>1, <2>2, <2>3
<1>7. CASE cycle > SpritesEnd
  <2>1. cycle # 0 /\ cycle \notin 1..TilesEnd + 1 /\ cycle \notin TilesEnd + 2..SpritesEnd
        /\ cycle # TilesEnd + 1 /\ cycle <= LastDot
    BY <1>1, <1>2, <1>7
  <2>2. TilesAt(cycle) = (cycle - SpritesEnd - 1) \div 8
    BY <1>1, <1>2, <1>7, <2>1 DEF TilesAt
  <2>3. CASE cycle' = 0
    <3>1. TilesAt(cycle') = 2
      BY <1>1, <1>2, <2>3 DEF TilesAt
    <3>2. TilesAt(cycle) = 2 /\ ~TileDot
      BY <1>1, <1>2, <1>7, <2>2, <2>3 DEF TileDot
    <3>3. QED
      BY <2>1, <3>1, <3>2
  <2>4. CASE cycle' = cycle + 1 /\ cycle <= LastDot - 1
    <3>1. cycle' > SpritesEnd /\ cycle' # 0 /\ cycle' \notin 1..TilesEnd + 1
          /\ cycle' \notin TilesEnd + 2..SpritesEnd /\ cycle' - SpritesEnd - 1 = cycle - SpritesEnd
      BY <1>1, <1>2, <1>7, <2>4
    <3>2. TilesAt(cycle') = (cycle - SpritesEnd) \div 8
      BY <1>1, <1>2, <3>1 DEF TilesAt
    <3>3. TileDot <=> cycle <= PrefetchEnd
      BY <1>1, <1>2, <1>7 DEF TileDot
    <3>4. (cycle - 1) % 8 = (cycle - SpritesEnd - 1) % 8
      BY <1>1, <1>2, <1>7
    <3>5. PICK e \in 1..19 : e = cycle - SpritesEnd
      BY <1>1, <1>2, <1>7, <2>4
    <3>6. cycle - SpritesEnd - 1 = e - 1
      BY <1>1, <1>2, <3>5
    <3>7. e \div 8 = IF (e - 1) % 8 = 7 THEN ((e - 1) \div 8) + 1 ELSE (e - 1) \div 8
      OBVIOUS
    <3>8. cycle > PrefetchEnd => e \div 8 = 2 /\ (e - 1) \div 8 = 2
      BY <1>1, <1>2, <3>5
    <3>9. (e - 1) \div 8 \in Nat
      OBVIOUS
    <3>10. QED
      BY <1>1, <1>2, <2>1, <2>2, <3>2, <3>3, <3>4, <3>5, <3>6, <3>7, <3>8, <3>9 DEF Eighth
  <2>5. QED
    BY <1>1, <1>2, <1>7, <2>3, <2>4
<1>8. QED
  BY <1>1, <1>2, <1>3, <1>4, <1>5, <1>6, <1>7

(* A dot keeps v in its column and in its row.                             *)
LEMMA ScrollColumn ==
  ASSUME Types, ScrollInv, Dot, undisturbed'
  PROVE  Column(v') = (Column(origin') + TilesIn') % (2 * Columns)
<1> DEFINE m == 2 * Columns
<1>1. /\ Fetching /\ Arrived = v /\ v' = Scrolled
      /\ undisturbed \/ (scanline = PreRender /\ cycle = TilesEnd + 1)
  BY UndisturbedDot
<1>2. /\ Column(v') = IF cycle = TilesEnd + 1 THEN Column(t)
                      ELSE IF TileDot /\ Eighth = 7 THEN (Column(v) + 1) % m ELSE Column(v)
      /\ Column(origin') = IF cycle = TilesEnd + 1 THEN Column(t) ELSE Column(origin)
  BY <1>1, ScrolledPlaces, OriginPlaces
<1>3. m \in Nat /\ m > 0
  BY Sizes
<1>4. Column(t) \in 0..m - 1 /\ Column(origin) \in 0..m - 1
  BY RightByOne DEF Types
<1>5. CASE cycle = TilesEnd + 1
  <2>1. TilesIn' = 0 /\ Column(v') = Column(t) /\ Column(origin') = Column(t)
    BY <1>2, <1>5, TilesNext
  <2>2. (Column(t) + 0) % m = Column(t)
    <3>1. Column(t) + 0 = Column(t)
      BY <1>4
    <3>2. QED
      BY <1>3, <1>4, <3>1, SmallModulo
  <2>3. QED
    BY <2>1, <2>2
<1>6. CASE cycle # TilesEnd + 1
  <2>1. undisturbed /\ Drawn
    BY <1>1, <1>6 DEF Fetching
  <2>2. Visible
    BY <2>1, DotSizes DEF ScrollInv, Drawn
  <2>3. Column(v) = (Column(origin) + TilesIn) % m /\ TilesIn \in Nat
    BY <2>1, <2>2, TilesNext DEF ScrollInv
  <2>4. Column(origin') = Column(origin)
    BY <1>2, <1>6
  <2>5. CASE TileDot /\ Eighth = 7
    <3> DEFINE x == Column(origin) + TilesIn
    <3>1. TilesIn' = TilesIn + 1 /\ Column(v') = ((x % m) + 1) % m
      BY <1>2, <1>6, <2>3, <2>5, TilesNext
    <3>2. x \in Nat /\ Column(origin) + (TilesIn + 1) = x + 1
      BY <1>3, <1>4, <2>3
    <3>3. (x + 1) % m = ((x % m) + 1) % m
      <4> HIDE DEF x
      <4>1. QED
        BY <1>3, <3>2, NextModulo
    <3>4. QED
      BY <2>4, <3>1, <3>2, <3>3
  <2>6. CASE ~(TileDot /\ Eighth = 7)
    BY <1>2, <1>6, <2>3, <2>4, <2>6, TilesNext
  <2>7. QED
    BY <2>5, <2>6
<1>7. QED
  BY <1>5, <1>6

LEMMA ScrollRow ==
  ASSUME Types, ScrollInv, Dot, undisturbed', Visible', Placed'
  PROVE  Row(v') = Row(RowsDown(origin', LineShown'))
<1>1. /\ Fetching /\ Arrived = v /\ v' = Scrolled
      /\ undisturbed \/ (scanline = PreRender /\ cycle = TilesEnd + 1)
  BY UndisturbedDot
<1>2. /\ Row(v') = IF TransferDot THEN Row(t)
                   ELSE IF cycle = TilesEnd THEN Row(IncrementY(v)) ELSE Row(v)
      /\ origin \in Addresses /\ origin' \in Addresses
      /\ Row(origin') = IF scanline = PreRender /\ cycle = TilesEnd + 6 * Slots
                        THEN Row(t) ELSE Row(origin)
  BY <1>1, ScrolledPlaces, OriginPlaces
<1>3. /\ \/ cycle' = 0 /\ cycle \in LastDot - 1..LastDot
         \/ cycle' = cycle + 1 /\ cycle \in 0..LastDot - 1
      /\ cycle' # 0 => scanline' = scanline
      /\ cycle' = 0 => scanline' = IF scanline = PreRender THEN 0 ELSE scanline + 1
      /\ cycle \in Nat /\ scanline \in 0..PreRender
  BY NextLine, DotSizes DEF Types
<1>4. /\ Lines \in Nat /\ Lines >= 1 /\ PreRender \in Nat /\ PreRender > Lines
      /\ TilesEnd \in Nat /\ TilesEnd > 0 /\ Slots \in Nat /\ Slots >= 1
      /\ SpritesEnd = TilesEnd + 8 * Slots /\ LastDot = SpritesEnd + 20
  BY DotSizes
<1>5. scanline < Lines \/ scanline = PreRender
  BY <1>1 DEF Fetching, Drawn
<1>6. /\ v \in Addresses
      /\ LineShown' = IF cycle' <= TilesEnd THEN scanline'
                      ELSE IF scanline' = PreRender THEN 0 ELSE scanline' + 1
  BY DEF Types, LineShown, TilesEnd, PreRender
<1>7. CASE scanline = PreRender /\ cycle <= TilesEnd + 6 * Slots
  <2>1. cycle' = cycle + 1 /\ scanline' = PreRender
    BY <1>3, <1>4, <1>7
  <2>2. cycle = TilesEnd + 6 * Slots
    <3>1. cycle' > TilesEnd + 6 * Slots
      BY <2>1 DEF Placed, TilesEnd, PreRender
    <3>2. QED
      BY <1>3, <1>4, <1>7, <2>1, <3>1
  <2>3. TransferDot
    BY <1>4, <1>7, <2>2 DEF TransferDot
  <2>4. LineShown' = 0
    BY <1>4, <1>6, <2>1, <2>2
  <2>5. Row(v') = Row(origin')
    BY <1>2, <1>7, <2>2, <2>3
  <2>6. QED
    BY <1>2, <2>4, <2>5, DownNone
<1>8. CASE scanline = PreRender /\ cycle > TilesEnd + 6 * Slots
  <2>1. undisturbed /\ Visible /\ Placed /\ cycle > TilesEnd + 1
    BY <1>1, <1>3, <1>4, <1>8 DEF Visible, Placed
  <2>2. LineShown = 0
    BY <1>3, <1>4, <1>8 DEF LineShown
  <2>3. Row(v) = Row(RowsDown(origin, 0))
    BY <2>1, <2>2 DEF ScrollInv
  <2>4. ~TransferDot /\ cycle # TilesEnd /\ cycle # TilesEnd + 6 * Slots
    BY <1>3, <1>4, <1>8 DEF TransferDot
  <2>5. Row(v') = Row(v) /\ Row(origin') = Row(origin)
    BY <1>2, <2>4
  <2>6. LineShown' = 0
    BY <1>3, <1>4, <1>6, <1>8
  <2>7. QED
    BY <1>2, <2>3, <2>5, <2>6, DownSame
<1>9. CASE scanline < Lines
  <2>1. undisturbed /\ Visible /\ Placed /\ scanline # PreRender
    BY <1>1, <1>3, <1>4, <1>9 DEF Visible, Placed
  <2>2. Row(v) = Row(RowsDown(origin, LineShown))
    BY <2>1 DEF ScrollInv
  <2>3. ~TransferDot /\ Row(origin') = Row(origin)
    BY <1>2, <2>1 DEF TransferDot
  <2>4. LineShown = IF cycle <= TilesEnd THEN scanline ELSE scanline + 1
    BY <2>1 DEF LineShown
  <2>5. LineShown \in Nat
    BY <1>3, <2>4
  <2>6. CASE cycle = TilesEnd
    <3>1. LineShown' = LineShown + 1
      BY <1>3, <1>4, <1>6, <2>1, <2>4, <2>6
    <3>2. Row(v') = Row(IncrementY(v))
      BY <1>2, <2>3, <2>6
    <3>3. RowsDown(origin, LineShown) \in Addresses
      BY <1>2, <2>5, DownTypes
    <3>4. Row(IncrementY(v)) = Row(IncrementY(RowsDown(origin, LineShown)))
      BY <1>6, <2>2, <3>3, SameRow
    <3>5. Row(RowsDown(origin, LineShown + 1)) = Row(IncrementY(RowsDown(origin, LineShown)))
      BY <1>2, <2>5, DownNext
    <3>6. LineShown + 1 \in Nat
      BY <2>5
    <3>7. Row(RowsDown(origin', LineShown + 1)) = Row(RowsDown(origin, LineShown + 1))
      BY <1>2, <2>3, <3>6, DownSame
    <3>8. QED
      BY <3>1, <3>2, <3>4, <3>5, <3>7
  <2>7. CASE cycle # TilesEnd
    <3>1. LineShown' = LineShown
      BY <1>3, <1>4, <1>6, <2>1, <2>4, <2>7
    <3>2. Row(v') = Row(v)
      BY <1>2, <2>3, <2>7
    <3>3. Row(RowsDown(origin', LineShown)) = Row(RowsDown(origin, LineShown))
      BY <1>2, <2>3, <2>5, DownSame
    <3>4. QED
      BY <2>2, <3>1, <3>2, <3>3
  <2>8. QED
    BY <2>6, <2>7
<1>10. QED
  BY <1>3, <1>4, <1>5, <1>7, <1>8, <1>9

(* A name's low byte is latched in the dot before it is read.              *)
LEMMA ScrollLatch ==
  ASSUME Types, Dot, undisturbed', SecondDot'
  PROVE  addressLow' = NameOf(v') % Page
<1>1. /\ Fetching /\ Arrived = v /\ v' = Scrolled
      /\ Begins => addressLow' = Fetched % Page
  BY UndisturbedDot
<1>2. /\ \/ cycle' = 0 /\ cycle \in LastDot - 1..LastDot
         \/ cycle' = cycle + 1 /\ cycle \in 0..LastDot - 1
      /\ cycle \in Nat
  BY NextLine, DotSizes DEF Types
<1>3. /\ cycle' # 0 /\ cycle' % 2 = 0
      /\ cycle' \notin TilesEnd + 1..SpritesEnd
      /\ (cycle' - 1) % 8 \in {0, 1} \/
           ((cycle' - 1) % 8 \in {2, 3} /\ cycle' \notin 1..TilesEnd \cup SpritesEnd + 1..PrefetchEnd)
  BY DEF SecondDot, SpriteDot, NameDot, Eighth, TileDot, TilesEnd, SpritesEnd, PrefetchEnd
<1>4. PICK u \in Nat, w \in Nat : /\ TilesEnd = 8 * u /\ SpritesEnd = 8 * w /\ w >= u + 1 /\ u >= 1
                                  /\ PrefetchEnd = 8 * w + 16 /\ LastDot = 8 * w + 20
  <2>1. Columns + Slots \in Nat /\ SpritesEnd = 8 * (Columns + Slots)
    BY DotSizes
  <2>2. QED
    BY <2>1, DotSizes
<1>5. cycle' = cycle + 1 /\ cycle % 2 = 1 /\ cycle # 0
  BY <1>2, <1>3
<1>6. Begins
  BY <1>1, <1>5 DEF Begins, FetchDot
<1>7. /\ cycle \notin TilesEnd..SpritesEnd
      /\ (cycle - 1) % 8 = 0 \/ ((cycle - 1) % 8 = 2 /\ cycle \notin 1..TilesEnd \cup SpritesEnd + 1..PrefetchEnd)
  BY <1>2, <1>3, <1>4, <1>5
<1>8. NameDot /\ Eighth # 7
  BY <1>7 DEF NameDot, Eighth, TileDot
<1>9. cycle \notin TilesEnd..TilesEnd + 1 /\ ~TransferDot
  <2>1. TilesEnd + 3 * Slots \in Nat /\ TilesEnd + 6 * Slots \in Nat
        /\ TilesEnd + 3 * Slots >= TilesEnd /\ TilesEnd + 6 * Slots <= SpritesEnd
    BY DotSizes
  <2>2. QED
    BY <1>2, <1>4, <1>7, <2>1 DEF TransferDot
<1>10. v' = v
  BY <1>1, <1>8, <1>9, ScrolledPlaces
<1>11. Fetched = NameOf(v)
  BY <1>1, <1>8 DEF Fetched
<1>12. QED
  BY <1>1, <1>6, <1>10, <1>11

(* The invariant of the scroll position holds initially and is inductive.  *)
LEMMA ScrollInit == Init => ScrollInv
BY DEF Init, ScrollInv

LEMMA ScrollDot ==
  ASSUME Types, ScrollInv, Dot
  PROVE  ScrollInv'
<1> SUFFICES ASSUME undisturbed' PROVE ScrollInv'
  BY DEF ScrollInv
<1>1. Fetching /\ (undisturbed \/ (scanline = PreRender /\ cycle = TilesEnd + 1))
  BY UndisturbedDot
<1>2. /\ \/ cycle' = 0 /\ cycle \in LastDot - 1..LastDot
         \/ cycle' = cycle + 1 /\ cycle \in 0..LastDot - 1
      /\ cycle' # 0 => scanline' = scanline
      /\ cycle' = 0 => scanline' = IF scanline = PreRender THEN 0 ELSE scanline + 1
      /\ cycle \in Nat /\ scanline \in 0..PreRender
  BY NextLine, DotSizes DEF Types
<1>3. scanline < Lines \/ (scanline = PreRender /\ cycle >= TilesEnd + 1)
  <2>1. scanline < Lines \/ scanline = PreRender
    BY <1>1 DEF Fetching, Drawn
  <2>2. undisturbed /\ scanline = PreRender => cycle >= TilesEnd + 1
    BY <1>2, DotSizes DEF ScrollInv, Visible
  <2>3. QED
    BY <1>1, <1>2, <2>1, <2>2, DotSizes
<1>4. \/ scanline' < Lines \/ (scanline' = PreRender /\ cycle' > TilesEnd + 1)
      \/ scanline' = Lines /\ cycle' = 0
  BY <1>2, <1>3, DotSizes
<1>5. Visible' \/ (scanline' = Lines /\ cycle' = 0)
  BY <1>4 DEF Visible, PreRender, TilesEnd
<1>6. Column(v') = (Column(origin') + TilesIn') % (2 * Columns)
  BY ScrollColumn
<1>7. Visible' /\ Placed' => Row(v') = Row(RowsDown(origin', LineShown'))
  BY ScrollRow
<1>8. SecondDot' => addressLow' = NameOf(v') % Page
  BY ScrollLatch
<1>9. QED
  BY <1>5, <1>6, <1>7, <1>8 DEF ScrollInv, Column, Row, NameOf

LEMMA ScrollStep == Types /\ ScrollInv /\ [Next]_vars => ScrollInv'
<1> SUFFICES ASSUME Types, ScrollInv, [Next]_vars PROVE ScrollInv'
  OBVIOUS
<1>1. CASE Dot
  BY <1>1, ScrollDot
<1>2. ASSUME UNCHANGED <<dotVars, addressLow, origin, v, undisturbed>>
      PROVE  ScrollInv'
  <2>1. /\ scanline' = scanline /\ cycle' = cycle /\ addressLow' = addressLow
        /\ origin' = origin /\ v' = v /\ undisturbed' = undisturbed
    BY <1>2 DEF dotVars
  <2>2. /\ Visible' = Visible /\ Placed' = Placed /\ SecondDot' = SecondDot
        /\ LineShown' = LineShown /\ TilesIn' = TilesIn
    BY <2>1 DEF Visible, Placed, SecondDot, SpriteDot, NameDot, TileDot, Eighth, LineShown,
                TilesIn
  <2>3. QED
    BY <2>1, <2>2 DEF ScrollInv
<1>3. ASSUME NEW c \in Ctrls, WriteCtrl(c)
      PROVE  ScrollInv'
  BY <1>2, <1>3 DEF WriteCtrl, Writes, Access, KeepsV
<1>4. CASE WriteMask
  BY <1>2, <1>4 DEF WriteMask, Writes, Access, KeepsV
<1>5. CASE WriteScroll
  BY <1>2, <1>5 DEF WriteScroll, Writes, Access, KeepsV
<1>6. CASE WriteAddr
  BY <1>2, <1>6 DEF WriteAddr, Writes, Access
<1>7. CASE WriteData
  BY <1>7 DEF WriteData, ScrollInv
<1>8. CASE ReadData
  BY <1>2, <1>8 DEF ReadData, Reads, Access
<1>9. CASE ReadStatus
  BY <1>2, <1>9 DEF ReadStatus, Reads, Access, KeepsV
<1>10. CASE UNCHANGED vars
  BY <1>2, <1>10 DEF vars, busVars, history
<1>11. QED
  BY <1>1, <1>3, <1>4, <1>5, <1>6, <1>7, <1>8, <1>9, <1>10 DEF Next

(* Where a name is read, its place and its address are those of the scroll *)
(* position.                                                               *)
LEMMA ScrollShown ==
  ASSUME Types, ScrollInv, Dot, undisturbed, undisturbed', ~SpriteDot, Finishes, NameDot
  PROVE  Arrived = Shown /\ Latched(Fetched) = NameOf(Shown)
<1>1. Fetching /\ Arrived = v
  BY UndisturbedDot
<1>2. cycle \in Nat /\ scanline \in 0..PreRender /\ cycle # 0 /\ cycle % 2 = 0
      /\ v \in Addresses /\ origin \in Addresses
  BY DotSizes DEF Finishes, FetchDot, Types
<1>3. Visible
  <2>1. scanline < Lines \/ scanline = PreRender
    BY <1>1 DEF Fetching, Drawn
  <2>2. QED
    BY <1>2, <2>1, DotSizes DEF ScrollInv, Visible
<1>4. cycle \notin TilesEnd + 1..SpritesEnd
  BY DEF SpriteDot
<1>5. Placed
  BY <1>2, <1>3, <1>4, DotSizes DEF Visible, Placed
<1>6. /\ Column(v) = (Column(origin) + TilesIn) % (2 * Columns)
      /\ Row(v) = Row(RowsDown(origin, LineShown))
      /\ addressLow = NameOf(v) % Page
  BY <1>2, <1>3, <1>5 DEF ScrollInv, SecondDot
<1>7. TilesIn = TileShown /\ TilesIn \in Nat
  BY <1>2, <1>4, DotSizes, TilesNext DEF TilesIn, TilesAt, TileShown
<1>8. LineShown \in Nat
  BY <1>2, DotSizes DEF LineShown
<1>9. RowsDown(origin, LineShown) \in Addresses
      /\ Column(RowsDown(origin, LineShown)) = Column(origin)
  BY <1>2, <1>8, DownTypes
<1>10. v = Shown
  BY <1>2, <1>6, <1>7, <1>9, RightIs DEF Shown
<1>11. Fetched = NameOf(v)
  BY <1>1 DEF Fetched
<1>12. NameOf(v) \in Nat
  BY <1>2, NameOfRange, BusSizes
<1>13. Page * (NameOf(v) \div Page) + (NameOf(v) % Page) = NameOf(v)
  BY <1>12, BusSizes, Divides
<1>14. QED
  BY <1>1, <1>6, <1>10, <1>11, <1>13 DEF Latched

(* Every tile of an undisturbed picture is read from the place the scroll  *)
(* position gives, through wraps and tables and for name tables and frames *)
(* of every size, whenever the program wrote it.                           *)
THEOREM ScrollHonouredHolds == Spec => ScrollHonoured
<1>1. Init => ScrollInv
  BY ScrollInit
<1>2. Types /\ ScrollInv /\ [Next]_vars =>
        [undisturbed /\ undisturbed' /\ ~SpriteDot /\ Finishes /\ NameDot /\ Dot
           => Arrived = Shown /\ Latched(Fetched) = NameOf(Shown)]_vars
  BY ScrollShown
<1>3. QED
  BY <1>1, <1>2, ScrollStep, TypesHold, PTL DEF Spec, ScrollHonoured
=============================================================================
