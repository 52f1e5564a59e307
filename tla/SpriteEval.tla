----------------------------- MODULE SpriteEval -----------------------------
(***************************************************************************)
(* The object memory of the PPU (core/PPU2C02.h): OAM and its address,     *)
(* the search of each line for the sprites of the next, the overflow flag, *)
(* and what turning rendering off in a line does to OAM.                   *)
(*                                                                         *)
(* The search is in the code three times.  A machine goes through it dot   *)
(* by dot and fills the secondary OAM, which $2004 shows; evaluateSprites  *)
(* makes it at once, after the machine is done, for the picture; and       *)
(* computeSpriteOverflowCycle makes it at once, before the machine starts, *)
(* for the dot of the overflow flag.                                       *)
(*                                                                         *)
(* A byte is the address of OAM it came from, with a mark when bits 2 to 4 *)
(* were cut off it in reading; near is the set of bytes that, taken as a Y *)
(* position, put a sprite on the line.  Any bytes may be.                  *)
(***************************************************************************)
EXTENDS Integers, Sequences, SequencesExt, FiniteSets

CONSTANTS
  Sprites, Slots,      \* 64 and 8
  EvalDots,            \* dots the search may take: 192
  IdleDots,            \* dots of a line after the sprite fetches: 20
  NearSets,            \* what near may be on a line
  Starts,              \* what the program writes to $2003
  AccessDots,          \* dots before which the program may act
  MaxChanges           \* bound on its acts, and on lines unlike the last

Bytes    == 4 * Sprites
ClearEnd == 8 * Slots
EvalEnd  == ClearEnd + EvalDots
FetchEnd == EvalEnd + 8 * Slots
LastDot  == FetchEnd + IdleDots

ASSUME SizeAssumption ==
  /\ Sprites \in Nat \ {0} /\ Slots \in 1..Sprites /\ Sprites % Slots = 0
  /\ EvalDots \in Nat /\ EvalDots % 2 = 0 /\ EvalDots >= 8 * Slots + 2 * (Sprites - Slots)
  /\ IdleDots \in Nat /\ IdleDots > 1 /\ MaxChanges \in Nat
  /\ Starts \subseteq 0..Bytes - 1

VARIABLES
  line, dot,           \* kind of scanline and the dot to be clocked next
  pal,                 \* region == PAL
  mask, enabling,      \* rendering bits of $2001; ShiftDelay renderEnableDelay
  renderingActive,
  oam, near,
  e,                   \* the search's registers, a record
  sprites,             \* spriteScanline: the sprites the picture will have
  corruption,          \* row of OAM to be corrupted (oamCorruptionPending)
  overflowDot,         \* spriteOverflowCycle, NoDot for -1
  overflow,            \* status.spriteOverflow
  clean,               \* this line has been rendered undisturbed so far
  changes

program == <<mask, near, changes>>
evalVars == <<line, dot, pal, program, enabling, renderingActive, oam, e, sprites, corruption,
              overflowDot, overflow, clean>>

NoDot == -1
NoRow == -1
Fill  == <<Bytes, FALSE>>        \* $FF, on no line
Whole == \A a \in 0..Bytes - 1 : <<a, TRUE>> \in near <=> <<a, FALSE>> \in near

(* The end of the first blanking, in which the program has filled OAM and  *)
(* maybe turned rendering on.                                              *)
EvalInit ==
  /\ line = "prerender" /\ dot = 0 /\ pal \in BOOLEAN
  /\ mask \in BOOLEAN /\ enabling = <<mask, mask, mask, mask>> /\ renderingActive = mask
  /\ oam = [a \in 0..Bytes - 1 |-> a] /\ near \in NearSets
  /\ e = [oamAddr |-> 0, buffer |-> Fill, sec |-> [a \in 0..4 * Slots - 1 |-> Fill],
          secAddr |-> 0, start |-> 0, copying |-> 0, bug |-> 0,
          addrOver |-> FALSE, secOver |-> FALSE, ranged |-> FALSE]
  /\ sprites = <<>> /\ corruption = NoRow
  /\ overflowDot = NoDot /\ overflow = FALSE
  /\ clean = FALSE /\ changes = 0

-----------------------------------------------------------------------------
(* Object memory on a dot: a row to be corrupted is copied over before     *)
(* anything of the dot reads OAM.                                          *)

Drawn == line \in {"visible", "prerender"}

(* Turned off in a line, rendering leaves a row to be copied over from the *)
(* first row when it is on again.                                          *)
RowAfter(on) ==
  IF Drawn /\ renderingActive /\ ~on
  THEN IF pal THEN NoRow
       ELSE IF dot \in ClearEnd + 1..EvalEnd THEN (4 * ((e.secAddr + 3) \div 4)) % (4 * Slots)
       ELSE e.secAddr
  ELSE corruption
RowBytes == Sprites \div Slots
Corrupted(row) ==
  [a \in DOMAIN oam |-> IF a \div RowBytes = row THEN oam[a % RowBytes] ELSE oam[a]]
Corrupts(on) == RowAfter(on) # NoRow /\ on /\ Drawn
Memory ==
  LET on == Head(enabling) IN IF Corrupts(on) THEN Corrupted(RowAfter(on)) ELSE oam

Stored(a) == <<Memory[a], FALSE>>
Seen(a)   == <<Memory[a], a % 4 = 2>>

-----------------------------------------------------------------------------
(* The machine: PPU2C02::clockOAMClearAndEvaluation. *)

SecNext(x)    == [x EXCEPT !.secAddr = (@ + 1) % (4 * Slots)]
SecShown(x)   == [x EXCEPT !.buffer = x.sec[x.secAddr]]
NextSprite(x) == [x EXCEPT !.oamAddr = (4 * (@ \div 4 + 1)) % Bytes]
EndAtZero(x)  == [x EXCEPT !.addrOver = @ \/ x.oamAddr = 0]

Copied(x) ==
  LET y == SecNext([x EXCEPT !.oamAddr = (@ + 1) % Bytes])
  IN EndAtZero([y EXCEPT !.secOver = @ \/ y.secAddr = 0])

Cleared(x) ==
  LET y == IF dot = 1 THEN [x EXCEPT !.secAddr = 0] ELSE x
  IN IF dot % 2 = 1 THEN [y EXCEPT !.buffer = Fill]
     ELSE SecNext([y EXCEPT !.sec[y.secAddr] = y.buffer])

MutRestarted(x) ==
  [x EXCEPT !.start = x.oamAddr, !.secAddr = 0, !.bug = 0,
            !.addrOver = FALSE, !.secOver = FALSE, !.ranged = FALSE]
Restarted(x) ==
  [x EXCEPT !.start = x.oamAddr, !.secAddr = 0, !.copying = 0, !.bug = 0,
            !.addrOver = FALSE, !.secOver = FALSE, !.ranged = FALSE]

(* With the slots full, the byte looked at moves along the sprite as the   *)
(* sprite moves along OAM; once one is in range, three bytes more are read.*)
PastFull(x, inRange) ==
  CASE x.addrOver -> NextSprite(x)
    [] ~x.addrOver /\ (inRange \/ x.ranged) ->
         LET y == [x EXCEPT !.oamAddr = (@ + 1) % Bytes, !.ranged = TRUE,
                            !.bug = IF @ = 0 THEN 3 ELSE @ - 1]
         IN IF y.bug = 0 THEN [y EXCEPT !.addrOver = TRUE, !.oamAddr = 4 * (@ \div 4)] ELSE y
    [] OTHER ->
         LET next == NextSprite(x).oamAddr + ((x.oamAddr + 1) % 4)
         IN [x EXCEPT !.oamAddr = next, !.addrOver = next < 4]

Searched(x) ==
  LET y == IF ~x.addrOver /\ ~x.secOver
           THEN [x EXCEPT !.sec[x.secAddr] = x.buffer] ELSE SecShown(x)
      inRange == x.buffer \in near
  IN CASE x.copying > 0                -> [Copied(y) EXCEPT !.copying = @ - 1]
       [] x.copying = 0 /\ x.secOver   -> PastFull(y, inRange)
       [] x.copying = 0 /\ ~x.secOver /\ inRange /\ ~x.addrOver ->
            [Copied(y) EXCEPT !.copying = 3]
       [] OTHER                        -> EndAtZero(NextSprite(y))

Evaluated(x) ==
  LET y == IF dot = ClearEnd + 1 THEN Restarted(x) ELSE x
  IN IF dot % 2 = 1 THEN [y EXCEPT !.buffer = Seen(y.oamAddr)] ELSE Searched(y)

Fetched(x) ==
  CASE dot = EvalEnd + 1                     -> SecShown([x EXCEPT !.secAddr = 0])
    [] dot > EvalEnd + 1 /\ (dot - EvalEnd - 1) % 8 <= 3 -> SecShown(SecNext(x))
    [] OTHER                                 -> SecShown(x)

Clocked(x) ==
  CASE dot \in 1..ClearEnd           -> Cleared(x)
    [] dot \in ClearEnd + 1..EvalEnd -> Evaluated(x)
    [] dot \in EvalEnd + 1..FetchEnd -> Fetched(x)
    [] dot = FetchEnd + 1            -> SecShown(SecNext(x))
    [] OTHER                         -> SecShown(x)

-----------------------------------------------------------------------------
(* The two searches made at once. *)

(* Both go through OAM from a start, every fourth byte a Y position, and   *)
(* count the sprites on the line.                                          *)
Found(start, n) == {i \in 0..n - 1 : Stored((start + 4 * i) % Bytes) \in near}
FoundAt(start, k) ==
  CHOOSE i \in Found(start, Sprites) : Cardinality(Found(start, i)) = k - 1

(* PPU2C02::evaluateSprites: from where the machine started, past the end  *)
(* of OAM on to its beginning.                                             *)
SpriteAt(a) == [b \in 1..4 |-> Seen((a + b - 1) % Bytes)]
EvaluateSprites ==
  LET count == Cardinality(Found(e.start, Sprites))
  IN [k \in 1..(IF count < Slots THEN count ELSE Slots) |->
        SpriteAt((e.start + 4 * FoundAt(e.start, k)) % Bytes)]

(* PPU2C02::computeSpriteOverflowCycle: from the first sprite, eight dots  *)
(* to one that is copied and two to any other.                             *)
MutComputeSpriteOverflowCycle ==
  IF Cardinality(Found(0, Sprites)) <= Slots THEN NoDot
  ELSE 2 + ClearEnd + 6 * Slots + 2 * FoundAt(0, Slots + 1)
ComputeSpriteOverflowCycle ==
  LET first == FoundAt(0, Slots) + 1
      dotOf(s)  == ClearEnd + 1 + 6 * Slots + 2 * s
      ninths == {s \in first..Sprites - 1 :
                   Stored(4 * s + ((s - first) % 4)) \in near /\ dotOf(s) <= EvalEnd}
  IN IF Cardinality(Found(0, Sprites)) < Slots \/ ninths = {} THEN NoDot
     ELSE 1 + dotOf(CHOOSE s \in ninths : \A t \in ninths : s <= t)

-----------------------------------------------------------------------------
(* PPU2C02::clock, what it does to object memory, in the order of the code.*)

Refreshed(x) ==
  IF line = "refresh" /\ dot # 0 /\ dot % 2 = 0
  THEN [x EXCEPT !.oamAddr = (@ + 1) % Bytes] ELSE x

NextLines ==
  CASE line = "prerender" -> {"visible"}
    [] line = "visible"   -> {"visible", "idle"}
    [] line = "idle"      -> IF pal THEN {"idle", "refresh"} ELSE {"idle", "prerender"}
    [] line = "refresh"   -> {"refresh", "prerender"}

AdvanceDot ==
  IF dot = LastDot
  THEN /\ dot' = 0 /\ line' \in NextLines
       /\ \/ UNCHANGED <<near, changes>>
          \/ changes < MaxChanges /\ changes' = changes + 1 /\ near' \in NearSets \ {near}
  ELSE dot' = dot + 1 /\ UNCHANGED <<line, near, changes>>

ClockDot ==
  LET on   == Head(enabling)
      row  == RowAfter(on)
      hit  == Corrupts(on)
      e1   == IF hit THEN [e EXCEPT !.sec[row] = e.sec[0]] ELSE Refreshed(e)
      home == on /\ Drawn /\ dot \in EvalEnd + 1..FetchEnd
      e2   == IF home THEN [e1 EXCEPT !.oamAddr = 0] ELSE e1
      runs == on /\ (line = "visible" \/ (line = "prerender" /\ (dot = 0 \/ dot > EvalEnd)))
  IN /\ enabling' = Append(Tail(enabling), mask)
     /\ renderingActive' = on
     /\ corruption' = IF hit THEN NoRow ELSE row
     /\ oam' = Memory
     /\ e' = IF runs THEN Clocked(e2) ELSE e2
     /\ sprites' = IF line = "visible" /\ on /\ dot = EvalEnd + 1 THEN EvaluateSprites ELSE sprites
     /\ overflowDot' = CASE line = "prerender" /\ dot = 0      -> NoDot
                         [] line = "visible" /\ dot = ClearEnd ->
                              IF on THEN ComputeSpriteOverflowCycle ELSE NoDot
                         [] OTHER -> overflowDot
     /\ overflow' = CASE line = "prerender" /\ dot = 0         -> FALSE
                      [] line = "visible" /\ dot = overflowDot -> TRUE
                      [] OTHER -> overflow
     /\ clean' = (on /\ (clean \/ dot = 1))
     /\ AdvanceDot
     /\ UNCHANGED <<pal, mask>>

-----------------------------------------------------------------------------
(* The program, between two dots. *)

Access ==
  /\ changes < MaxChanges /\ dot \in AccessDots
  /\ changes' = changes + 1
  /\ clean' = FALSE
  /\ UNCHANGED <<line, dot, pal, enabling, renderingActive, sprites, corruption, overflowDot, overflow>>

(* $2001, of which only whether it renders anything is kept here. *)
WriteRendering == Access /\ mask' = ~mask /\ UNCHANGED <<oam, near, e>>

(* $2003 and $2004. *)
WriteOamAddr ==
  /\ Access
  /\ \E a \in Starts : e' = [e EXCEPT !.oamAddr = a]
  /\ UNCHANGED <<oam, near, mask>>

WriteOamData(byte) ==
  /\ Access
  /\ IF renderingActive /\ Drawn
     THEN e' = NextSprite(e) /\ UNCHANGED oam
     ELSE /\ oam' = [oam EXCEPT ![e.oamAddr] = byte]
          /\ e' = IF line = "refresh" /\ (dot % 2 = 0 \/ dot = LastDot - 1) THEN e
                  ELSE [e EXCEPT !.oamAddr = (@ + 1) % Bytes]
  /\ UNCHANGED <<near, mask>>

EvalNext == ClockDot \/ WriteRendering \/ WriteOamAddr \/ WriteOamData(0)

EvalSpec == EvalInit /\ [][EvalNext]_evalVars

-----------------------------------------------------------------------------
(* What the three searches have to agree on. *)

SlotsFilled == IF e.secOver THEN Slots ELSE e.secAddr \div 4
InSecondary == [i \in 1..SlotsFilled |-> [b \in 1..4 |-> e.sec[4 * (i - 1) + b - 1]]]

(* The sprites $2004 shows are the sprites the picture has: on a line that *)
(* was rendered undisturbed, whatever happened on the lines before it, the *)
(* secondary OAM the machine filled and spriteScanline hold the same       *)
(* sprites in the same slots.  From a start other than sprite 0 the        *)
(* machine stops at the end of OAM, where evaluateSprites goes on.         *)
SlotsAgree ==
  [][ClockDot /\ line = "visible" /\ dot = EvalEnd + 1 /\ clean /\ renderingActive' /\ e.start % 4 = 0
       => /\ IsPrefix(InSecondary, sprites')
          /\ e.start = 0 => InSecondary = sprites']_evalVars

(* The overflow flag is set on the dot on which the machine comes upon the *)
(* ninth sprite, and on no other, although that dot was computed before    *)
(* the search began: for a line rendered undisturbed from sprite 0, and    *)
(* attributes of no bits but those OAM has.                                *)
Ninth == e'.ranged /\ ~(e.ranged /\ dot # ClearEnd + 1)
OverflowOnTime ==
  [][ClockDot /\ line = "visible" /\ dot \in ClearEnd + 1..EvalEnd /\ clean' /\ e'.start = 0 /\ Whole
       => (Ninth <=> overflowDot = dot) /\ (overflowDot = dot => overflow')]_evalVars
=============================================================================
