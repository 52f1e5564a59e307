------------------------------ MODULE NSFPlayer ------------------------------
(***************************************************************************)
(* The NSF player's call control (NSFPlayer.h): a tune is two routines of  *)
(* the user's file.  INIT is called when a song is chosen, PLAY once a     *)
(* period; each is entered by a jump, with the address of a loop of the    *)
(* player's own, the trampoline, as its return address.                    *)
(*                                                                         *)
(* The tune is any program: of the CPU only is kept whether PC is in the   *)
(* trampoline and how far the CPU is from the end of an instruction.  The  *)
(* application acts between calls of tickFrame only.                       *)
(***************************************************************************)
EXTENDS Integers

CONSTANTS
  Systems,           (* the regions the user may choose                    *)
  OneCycle,          (* the 1.0 playTimer loses each cycle, in units that  *)
                     (* make playCycles a whole number                     *)
  PlayCycles,        (* region -> cycles from one PLAY to the next         *)
  Watchdog,          (* CALL_WATCHDOG_CYCLES                               *)
  Longest,           (* the longest time from the end of an instruction to *)
                     (* that of the next, DMA stalls included              *)
  TotalSongs, StartingSong,
  ByteSize           (* song numbers are uint8_t                           *)

ASSUME NSFAssumption ==
  /\ OneCycle \in Nat \ {0} /\ Watchdog \in Nat /\ Longest \in Nat
  /\ \A s \in Systems : PlayCycles[s] \in Nat /\ PlayCycles[s] >= Longest + 3 * OneCycle
  /\ TotalSongs \in Nat /\ ByteSize \in Nat /\ TotalSongs < ByteSize
  /\ StartingSong \in 1 .. TotalSongs

VARIABLES
  cpu,               (* at: where PC is; op: what the CPU is about to do;  *)
                     (* since: the time since op was last "boundary"       *)
  callDone, playTimer, playCycles, system, currentSong,
  ticking,           (* the application is in tickFrame                    *)
  returned,          (* history: the routine last called has returned, or  *)
                     (* PLAY has not been called in this song              *)
  ahead              (* history: the PLAYs of this song, in time, less the *)
                     (* time it has been playing                           *)

call == <<callDone, playTimer>>
settings == <<playCycles, system, currentSong>>
songHistory == <<returned, ahead>>
playerVars == <<cpu, call, settings, ticking, songHistory>>

(* The furthest a song may fall behind.                                    *)
MaxLag == Watchdog + Longest + 2 * OneCycle

(* bound: ahead is not counted past the first value that is too low.       *)
Counted(n) == IF n < -MaxLag THEN -MaxLag - 1 ELSE n

-----------------------------------------------------------------------------
(* "boundary": the next micro-op is decodeAndDispatch; "fetch": it is the  *)
(* opFetch of jumpTo; "inside": any other but jam_loop, which is "jammed". *)
CPUStates == [at : {"trampoline", "code"}, op : {"boundary", "fetch", "inside", "jammed"},
              since : 0 .. Longest]

Boundary(at) == [at |-> at, op |-> "boundary", since |-> 0]
Inside(at) == [at |-> at, op |-> "inside", since |-> 0]
Jammed == [at |-> "code", op |-> "jammed", since |-> 0]
JumpedTo == [at |-> "code", op |-> "fetch", since |-> 0]

Later(c, op) == [c EXCEPT !.op = op, !.since = @ + OneCycle]

(* A cycle of the CPU.  DMA may hold it where it is; what it is inside,    *)
(* an instruction or the entry of a handler, ends in the tune's code or in *)
(* the trampoline; a JAM never does.                                       *)
Cycle(c, c1) ==
  \/ c.op \in {"boundary", "jammed"} /\ c1 = c
  \/ c.op = "boundary" /\ c.at = "code" /\ c1 = Jammed
  \/ c.op = "boundary" /\ c1 = Later(c, "inside")
  \/ c.op = "fetch" /\ c1 \in {Boundary("code"), Later(c, "fetch"), Later(c, "inside")}
  \/ c.op = "inside" /\ c1 \in {Boundary("code"), Boundary("trampoline"), Later(c, "inside")}

-----------------------------------------------------------------------------
(* The part of the player clockOneCycle looks at; calls: those it makes.   *)
Player == [cpu |-> cpu, done |-> callDone, timer |-> playTimer, calls |-> 0]

(* A slip to be noticed: the period counts from the call, not from when it *)
(* was due.                                                                *)
MutTriggerPlayCall(p) ==
  [cpu |-> JumpedTo, done |-> FALSE, timer |-> playCycles, calls |-> p.calls + 1]

TriggerPlayCall(p) ==
  [cpu |-> JumpedTo, done |-> FALSE, timer |-> p.timer + playCycles, calls |-> p.calls + 1]

IsAtTrampoline(p) == p.cpu.at = "trampoline"

(* A slip to be noticed: PLAY is called whether or not the last returned.  *)
MutTrampolineMaintenance(p) ==
  IF p.timer <= 0 /\ p.cpu.op = "boundary" THEN TriggerPlayCall(p) ELSE p

TrampolineMaintenance(p) ==
  IF p.done /\ p.timer <= 0 /\ p.cpu.op = "boundary" THEN TriggerPlayCall(p) ELSE p

(* INIT has overrun, or a handler cut into the trampoline, and jammed: no  *)
(* PLAY is ever due again, and the timer is not counted further.           *)
Stuck == callDone /\ cpu.op = "jammed"

(* A slip to be noticed: the time a routine takes is not counted.          *)
MutCountDown(p) == IF Stuck \/ ~p.done THEN p ELSE [p EXCEPT !.timer = @ - OneCycle]

CountDown(p) ==
  IF Stuck THEN p
  ELSE [cpu |-> p.cpu, done |-> p.done, timer |-> p.timer - OneCycle, calls |-> p.calls]

WatchCall(p) ==
  IF p.done THEN p
  ELSE IF IsAtTrampoline(p)
  THEN [cpu |-> p.cpu, done |-> TRUE, timer |-> p.timer, calls |-> p.calls]
  ELSE IF p.timer < -Watchdog THEN TriggerPlayCall(p)
  ELSE p

(* clockOneCycle; tickFrame ends with the cycle in which PLAY is called.   *)
ClockOneCycle ==
  /\ ticking
  /\ LET p == WatchCall(CountDown(TrampolineMaintenance(Player))) IN
       /\ cpu' \in {c1 \in CPUStates : Cycle(p.cpu, c1)}
       /\ callDone' = p.done /\ playTimer' = p.timer
       /\ ticking' = (p.calls = 0)
       /\ returned' = (p.calls = 0 /\ (returned \/ cpu.at = "trampoline"))
       /\ ahead' = Counted(ahead + p.calls * playCycles - (IF Stuck THEN 0 ELSE OneCycle))
  /\ UNCHANGED settings

-----------------------------------------------------------------------------
(* initSong, which runs INIT until it returns or CALL_WATCHDOG_CYCLES have *)
(* passed: the CPU is left anywhere.                                       *)
Anywhere == {Boundary("code"), Boundary("trampoline"), Inside("code"), Inside("trampoline"),
             JumpedTo, Jammed}

InitSong(song) ==
  /\ currentSong' = song
  /\ playTimer' = 0 /\ callDone' = TRUE
  /\ cpu' \in Anywhere
  /\ returned' = TRUE /\ ahead' = 0

(* A byte one up or one down wraps.                                        *)
Byte(n) == IF n = ByteSize THEN 0 ELSE IF n < 0 THEN n + ByteSize ELSE n
NextSong == LET next == Byte(currentSong + 1) IN IF next > TotalSongs THEN 1 ELSE next

PrevSong == LET prev == Byte(currentSong - 1) IN IF prev < 1 THEN TotalSongs ELSE prev

ChooseSong ==
  /\ ~ticking
  /\ \E song \in {currentSong, NextSong, PrevSong} : InitSong(song)
  /\ UNCHANGED <<ticking, playCycles, system>>

(* The menu's setSystem, which does nothing if it is that of now, and      *)
(* onReset.                                                                *)
SwitchSystem ==
  /\ ~ticking
  /\ \E s \in Systems :
       /\ system' = s
       /\ playCycles' = IF s = system THEN playCycles ELSE PlayCycles[s]
  /\ InitSong(currentSong)
  /\ UNCHANGED ticking

(* loadState, of a slot or of the frame before: the CPU and the region are *)
(* those of another time, the rest is not.                                 *)
LoadPlayer ==
  /\ ~ticking
  /\ cpu' \in Anywhere /\ system' \in Systems
  /\ UNCHANGED <<call, playCycles, currentSong, ticking, songHistory>>

TickFrame ==
  /\ ~ticking
  /\ ticking' = TRUE
  /\ UNCHANGED <<cpu, call, settings, songHistory>>

PlayerInit ==
  /\ cpu \in Anywhere
  /\ callDone = TRUE /\ playTimer = 0
  /\ system \in Systems /\ playCycles = PlayCycles[system] /\ currentSong = StartingSong
  /\ ticking = FALSE
  /\ returned = TRUE /\ ahead = 0

PlayerNext == ClockOneCycle \/ ChooseSong \/ SwitchSystem \/ LoadPlayer \/ TickFrame

PlayerSpec == PlayerInit /\ [][PlayerNext]_playerVars

(* tickFrame clocks the player until PLAY is called.                       *)
PlayerLiveSpec == PlayerSpec /\ WF_playerVars(ClockOneCycle)

-----------------------------------------------------------------------------
(* The songs of the file; where their count is the last byte there is, the *)
(* song after the last is numbered 0.                                      *)
Songs == IF TotalSongs + 1 = ByteSize THEN 0 .. TotalSongs ELSE 1 .. TotalSongs

(* Songs are those of the file, and playTimer stays within a period above  *)
(* zero and a watchdog, and what it takes to act on it, below              *)
(* (NSFPlayer.h:183-193, 249-255).                                         *)
PlayerTypeOK ==
  /\ cpu \in CPUStates
  /\ callDone \in BOOLEAN /\ ticking \in BOOLEAN /\ returned \in BOOLEAN
  /\ system \in Systems /\ playCycles \in {PlayCycles[s] : s \in Systems}
  /\ currentSong \in Songs
  /\ playTimer \in -MaxLag .. playCycles
  /\ ahead \in Int

(* However long the calls take, whichever are cut off and however late the *)
(* CPU reaches the end of an instruction, a song is never further from the *)
(* beat than a period ahead or a watchdog behind (NSFPlayer.h:250-254,     *)
(* 331-346): nothing is lost from call to call.                            *)
CallsKeepTime == -MaxLag <= ahead /\ ahead <= playCycles

(* A PLAY that has not returned is cut off by the next only if it has run  *)
(* a watchdog past the time of the next (NSFPlayer.h:252-255, 332).        *)
OnlyOverrunsAreCut ==
  [][ticking /\ ~ticking' /\ ~returned => ahead - OneCycle < -Watchdog]_playerVars

(* Every tickFrame ends, whatever PLAY does, unless the CPU has jammed     *)
(* where no call is timed (NSFPlayer.h:253-254, NESCoreBase.h:46).         *)
FramesEnd == ticking ~> (~ticking \/ Stuck)
=============================================================================
