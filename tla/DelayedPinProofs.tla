-------------------------- MODULE DelayedPinProofs --------------------------
(***************************************************************************)
(* Facts about the pins of module DelayedPin, for any values and any       *)
(* delays, that the proofs about the components cite.                      *)
(***************************************************************************)
EXTENDS DelayedPin, TLAPS

(* A pin stays within its bound through each of its operations.            *)
LEMMA PinOfType ==
  ASSUME NEW V, NEW v \in V, NEW n \in Nat
  PROVE  PinOf(v) \in PinsUpTo(V, n)
BY DEF PinOf, PinsUpTo, NoChange

LEMMA PinForceType ==
  ASSUME NEW V, NEW v \in V, NEW n \in Nat, NEW pin
  PROVE  PinForce(pin, v) \in PinsUpTo(V, n)
BY PinOfType DEF PinForce

LEMMA PinSetType ==
  ASSUME NEW V, NEW v \in V, NEW n \in Nat, NEW m \in Nat, 0 < m, m <= n,
         NEW pin \in PinsUpTo(V, n)
  PROVE  PinSet(pin, v, m) \in PinsUpTo(V, n)
BY DEF PinSet, PinOf, PinsUpTo, NoChange

LEMMA PinTickType ==
  ASSUME NEW V, NEW n \in Nat, NEW pin \in PinsUpTo(V, n)
  PROVE  PinTick(pin) \in PinsUpTo(V, n)
BY DEF PinTick, PinOf, PinsUpTo, NoChange

LEMMA PinFields ==
  ASSUME NEW V, NEW n \in Nat, NEW pin \in PinsUpTo(V, n)
  PROVE  pin.current \in V /\ pin.target \in V
BY DEF PinsUpTo

(* A change three ticks off, tick by tick.                                 *)
LEMMA PinCounts ==
  ASSUME NEW v, NEW t
  PROVE  /\ PinSet(PinOf(v), t, 3) = [current |-> v, target |-> t, countdown |-> 3]
         /\ PinTick([current |-> v, target |-> t, countdown |-> 3])
              = [current |-> v, target |-> t, countdown |-> 2]
         /\ PinTick([current |-> v, target |-> t, countdown |-> 2])
              = [current |-> v, target |-> t, countdown |-> 1]
         /\ PinTick([current |-> v, target |-> t, countdown |-> 1]) = PinOf(t)
         /\ PinTick(PinOf(v)) = PinOf(v)
BY DEF PinTick, PinSet, PinOf, NoChange

(* The same from four ticks off, and what a tap shows of it.               *)
LEMMA PinTaps ==
  ASSUME NEW v, NEW t
  PROVE  /\ PinTick(PinSet(PinOf(v), t, 4))
              = [current |-> v, target |-> t, countdown |-> 3]
         /\ PinTap([current |-> v, target |-> t, countdown |-> 3], 1) = v
         /\ PinTap([current |-> v, target |-> t, countdown |-> 2], 1) = v
         /\ PinTap([current |-> v, target |-> t, countdown |-> 1], 1) = t
BY DEF PinTick, PinSet, PinOf, PinTap, NoChange

LEMMA PinRests ==
  ASSUME NEW v
  PROVE  /\ PinTick(PinForce(PinOf(v), v)) = PinOf(v)
         /\ PinTick(PinOf(v)) = PinOf(v)
         /\ PinTap(PinOf(v), 1) = v
         /\ PinOf(v).current = v /\ PinOf(v).target = v
BY DEF PinTick, PinForce, PinOf, PinTap, NoChange

(* getTap(0) is the value the pin shows now.                               *)
LEMMA TapNow ==
  ASSUME NEW V, NEW n \in Nat, NEW pin \in PinsUpTo(V, n)
  PROVE  PinTap(pin, 0) = pin.current
BY DEF PinTap, PinsUpTo, NoChange

(* A tick brings every tap one tick nearer, so that getTap(k) foretells    *)
(* what the pin shows k ticks later: what the DMA unit's abort window and  *)
(* the comment on DelayedPin::getTap rely on.                              *)
THEOREM TapForetells ==
  ASSUME NEW V, NEW n \in Nat, NEW pin \in PinsUpTo(V, n), NEW k \in Nat
  PROVE  PinTap(pin, k + 1) = PinTap(PinTick(pin), k)
BY DEF PinTap, PinTick, PinOf, PinsUpTo, NoChange

(* DelayedPin::tick's promise: it fires exactly on the tick that reaches   *)
(* the end of the countdown, and then the pin shows its target.            *)
THEOREM FiresExactlyOnce ==
  ASSUME NEW V, NEW n \in Nat, NEW pin \in PinsUpTo(V, n)
  PROVE  /\ PinFires(pin) => PinTick(pin) = PinOf(pin.target)
         /\ ~PinFires(pin) => PinTick(pin).current = pin.current
         /\ ~PinFires(PinOf(pin.target))
BY DEF PinFires, PinTick, PinOf, PinsUpTo, NoChange
=============================================================================
