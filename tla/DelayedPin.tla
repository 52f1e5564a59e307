---------------------------- MODULE DelayedPin ----------------------------
(***************************************************************************)
(* core/DelayedPin.h as operators: a pin that takes a new value a number   *)
(* of ticks after it was asked to, and a fixed-depth shift register.  The  *)
(* CPU's NMI latch, the APU's $4017 write, the DMC's load delay, the DMA   *)
(* unit's abort window and the PPU's register pipelines are all built from *)
(* these two, so every component module extends this one.                  *)
(*                                                                         *)
(* A pin is a record [current, target, countdown]; countdown is -1 when no *)
(* change is scheduled, as in the class.                                   *)
(***************************************************************************)
EXTENDS Integers

NoChange == -1

PinOf(v) == [current |-> v, target |-> v, countdown |-> NoChange]

(* DelayedPin::set: schedule v, or take it at once when delay is not       *)
(* positive.  A change already scheduled is forgotten.                     *)
PinSet(pin, v, delay) ==
  IF delay <= 0 THEN PinOf(v)
  ELSE [current |-> pin.current, target |-> v, countdown |-> delay]

(* DelayedPin::force: take v now and forget what was scheduled.            *)
PinForce(pin, v) == PinOf(v)

(* DelayedPin::tick returns TRUE on the tick that makes the change; the    *)
(* countdown = 0 branch of the source is the second disjunct.              *)
PinFires(pin) == pin.countdown \in {0, 1}

PinTick(pin) ==
  IF pin.countdown > 1 THEN [pin EXCEPT !.countdown = @ - 1]
  ELSE PinOf(pin.target)

(* DelayedPin::getTap: the value the pin will have `ahead` ticks from now. *)
PinTap(pin, ahead) ==
  IF pin.countdown # NoChange /\ pin.countdown <= ahead
  THEN pin.target ELSE pin.current

Pins(V) == [current : V, target : V, countdown : Int]

(* The states the operations above can produce: no change scheduled means  *)
(* nothing is left to change.                                              *)
PinsUpTo(V, maxDelay) ==
  {pin \in [current : V, target : V, countdown : {NoChange} \cup 1..maxDelay] :
     pin.countdown = NoChange => pin.current = pin.target}

(***************************************************************************)
(* ShiftDelay<T, N>: a ring of N cells; a tick returns the cell at head    *)
(* and overwrites it.                                                      *)
(***************************************************************************)
ShiftOf(v, N) == [buf |-> [i \in 0..N-1 |-> v], head |-> 0]

ShiftOut(reg) == reg.buf[reg.head]

ShiftTick(reg, v, N) ==
  [buf |-> [reg.buf EXCEPT ![reg.head] = v], head |-> (reg.head + 1) % N]
=============================================================================
