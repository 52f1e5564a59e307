--------------------------- MODULE CPU6502Proofs ---------------------------
(***************************************************************************)
(* Theorems about CPU6502: which interrupts are taken, when, how often and *)
(* with what on the stack, for every program and every pattern of NMI,     *)
(* IRQ, RDY, resets and calls of the NSF player.                           *)
(***************************************************************************)
EXTENDS CPU6502, DelayedPinProofs

-----------------------------------------------------------------------------
(* Micro-ops that are written out one by one in the model, and all of them *)
(* that some cycle may leave for the next.                                 *)
SingleOps == {"decodeAndDispatch", "am_rel_1", "am_rel_2_taken", "int1_dummy",
              "int3_pushPCL", "int7_fetchOpcode", "rti3_pullP"}
MicroOps ==
  DOMAIN ReadChain \cup DOMAIN WriteChain \cup Last \cup LastSetsFlags
    \cup Addressed \cup DOMAIN Indexed \cup SingleOps

Sources == {"None", "NMI", "IRQ", "SoftwareBRK"}

(* Every field keeps its type; in particular no chain leads to a micro-op  *)
(* that has no step, where the CPU would stop.                             *)
TypeOK ==
  /\ phase \in {1, 2}
  /\ nextOp \in MicroOps
  /\ isRead \in BOOLEAN /\ flagI \in BOOLEAN
  /\ accessMode \in AccessModes
  /\ nmiSignal \in PinsUpTo(BOOLEAN, 2)
  /\ nmiLevel \in BOOLEAN /\ irqLevel \in BOOLEAN
  /\ irqInhibitSnapshot \in BOOLEAN /\ interruptPending \in BOOLEAN
  /\ currentInt \in Sources
  /\ pushedB \in BOOLEAN
  /\ passed \in {0, 1}
  /\ served \in BOOLEAN /\ cut \in BOOLEAN

(* The NMI's pin is set only; it falls at once.                            *)
PinInv == nmiSignal.current => nmiSignal.target

(* Write cycles since the last read, told by the micro-op they lead to.    *)
Pushing == {"jsr3_pushPCH", "int2_pushPCH", "rmw_finalWrite"}
Pushing2 == {"jsr4_pushPCL", "int3_pushPCL"}
WriteInv ==
  /\ nextOp = "opFetch" => writes \in 0..2
  /\ nextOp \in Pushing => writes = 1
  /\ nextOp \in Pushing2 => writes = 2
  /\ nextOp = "int5_readLow" => writes = 3
  /\ nextOp \notin {"opFetch", "int5_readLow"} \cup Pushing \cup Pushing2 => writes = 0

(* How far PC is past the instruction that will be returned to, on the way *)
(* into a handler.                                                         *)
FrameInv ==
  /\ nextOp = "decodeAndDispatch" => pcAhead = 1
  /\ nextOp = "intHw_dummy2" => pcAhead = 0
  /\ nextOp = "int1_dummy" => pcAhead = IF currentInt = "SoftwareBRK" THEN 1 ELSE 0
  /\ nextOp \in {"int2_pushPCH", "int3_pushPCL"} =>
       pcAhead = IF currentInt = "SoftwareBRK" THEN 2 ELSE 0
  /\ FrameTellsSource

EntryInv ==
  /\ nextOp = "intHw_dummy2" => currentInt \in {"NMI", "IRQ"}
  /\ nextOp \in Entry => currentInt # "None"

(* Branch ops that come after a poll whose result they keep.               *)
Polled == {"am_rel_1", "am_rel_2_taken", "am_rel_3_pagefix"}

(* An NMI that an opcode was fetched past is still to be taken: a branch   *)
(* has noted it, and nothing else can get to the end of an entry without   *)
(* taking it.                                                              *)
PassedInv ==
  passed = 1 =>
    /\ nmiSignal.current
    /\ nextOp \in Polled => interruptPending
    /\ nextOp \in {"intHw_dummy2", "int1_dummy", "int2_pushPCH", "int3_pushPCL"} =>
         currentInt = "SoftwareBRK"
    /\ nextOp \notin {"int5_readLow", "int6_readHigh", "int7_fetchOpcode"}

(* After an NMI was taken nothing is seen while its line stays low.        *)
ServedInv == served => ~nmiLevel /\ ~nmiSignal.target

CutInv == cut => nextOp = "opFetch"

(* What was polled at the end of the instruction before is the mask this   *)
(* one began with, until a hardware interrupt has been taken.              *)
SnapshotInv ==
  \/ irqInhibitSnapshot = flagI
  \/ cut
  \/ nextOp \in Entry /\ currentInt # "SoftwareBRK"

(* What a branch has noted is an NMI not taken yet or an IRQ not masked.   *)
PendingInv ==
  interruptPending =>
    /\ nextOp \in Polled \cup {"opFetch"}
    /\ nmiSignal.target \/ ~flagI

IInv ==
  /\ TypeOK /\ PinInv /\ WriteInv /\ FrameInv /\ EntryInv /\ PassedInv
  /\ ServedInv /\ CutInv /\ SnapshotInv /\ PendingInv
-----------------------------------------------------------------------------
(* Where the chains lead, read off their tables.                           *)
Landmarks == {"opFetch", "decodeAndDispatch", "intHw_dummy2", "int5_readLow"}
               \cup Pushing \cup Pushing2 \cup Polled

LEMMA ReadTargets ==
  ASSUME NEW op \in DOMAIN ReadChain
  PROVE  /\ ReadChain[op].next \in MicroOps \ Landmarks
         /\ ReadChain[op].next = "int1_dummy" => op = "intHw_dummy2" /\ ReadChain[op].inc = 0
         /\ op = "intHw_dummy2" => ReadChain[op].next = "int1_dummy"
         /\ ReadChain[op].next = "int6_readHigh" => op = "int5_readLow"
         /\ ReadChain[op].next = "int7_fetchOpcode" => op = "int6_readHigh"
BY DEF ReadChain, Then, ThenIncPC, MicroOps, Landmarks, Pushing, Pushing2, Polled, WriteChain,
       Last, LastSetsFlags, Addressed, Indexed, SingleOps

LEMMA WriteTargets ==
  ASSUME NEW op \in DOMAIN WriteChain
  PROVE  /\ WriteChain[op] = "opFetch" => op \in {"rmw_finalWrite", "pha1_dummy", "php1_dummy"}
         /\ WriteChain[op] = "rmw_finalWrite" => op = "rmw_dummyWrite"
         /\ WriteChain[op] = "jsr3_pushPCH" => op = "jsr2_internal"
         /\ WriteChain[op] = "jsr4_pushPCL" => op = "jsr3_pushPCH"
         /\ WriteChain[op] = "int3_pushPCL" => op = "int2_pushPCH"
         /\ WriteChain[op] \in {"opFetch", "rmw_finalWrite", "jsr3_pushPCH", "jsr4_pushPCL",
                               "int3_pushPCL"}
BY DEF WriteChain

(* Only reads come before the micro-ops of the first table, and of the     *)
(* entry only its first cycle is in it.                                    *)
LEMMA ReadSources ==
  ASSUME NEW op \in DOMAIN ReadChain
  PROVE  /\ op \notin {"opFetch", "decodeAndDispatch"} \cup Pushing
         /\ op \in Pushing2 => op = "jsr4_pushPCL"
         /\ op \in Entry => op = "intHw_dummy2"
         /\ op \notin Polled
BY DEF ReadChain, Then, ThenIncPC, Pushing, Pushing2, Polled, Entry

LEMMA WriteSources ==
  ASSUME NEW op \in DOMAIN WriteChain
  PROVE  op \in {"rmw_dummyWrite", "rmw_finalWrite", "jsr2_internal", "jsr3_pushPCH",
                 "pha1_dummy", "php1_dummy", "int2_pushPCH"}
BY DEF WriteChain

(* The micro-ops an entry goes through have steps of their own.            *)
LEMMA EntryOps ==
  {"intHw_dummy2", "int2_pushPCH", "int5_readLow"} \subseteq MicroOps
<1>1. {"intHw_dummy2", "int5_readLow"} \subseteq DOMAIN ReadChain
  BY DEF ReadChain
<1>2. "int2_pushPCH" \in DOMAIN WriteChain
  BY DEF WriteChain
<1> QED
  BY <1>1, <1>2 DEF MicroOps

(* What a tick does to the NMI's pin.                                      *)
LEMMA NmiTicks ==
  ASSUME TypeOK, PinInv
  PROVE  /\ Nmi \in PinsUpTo(BOOLEAN, 2)
         /\ Nmi.target \in BOOLEAN /\ Nmi.current \in BOOLEAN
         /\ Nmi.target = nmiSignal.target
         /\ Nmi.current => Nmi.target
         /\ nmiSignal.current => Nmi.current
         /\ PinTap(Nmi, 1) => Nmi.target
         /\ Nmi.current => PinTap(Nmi, 1)
<1>1. nmiSignal \in PinsUpTo(BOOLEAN, 2)
  BY DEF TypeOK
<1>2. Nmi \in PinsUpTo(BOOLEAN, 2)
  BY <1>1, PinTickType DEF Nmi
<1>3. Nmi.target \in BOOLEAN /\ Nmi.current \in BOOLEAN
  BY <1>2, PinFields
<1>4. Nmi.target = nmiSignal.target
  BY <1>1 DEF Nmi, PinTick, PinOf, PinsUpTo
<1>5. Nmi = nmiSignal \/ Nmi = PinOf(nmiSignal.target)
        \/ Nmi = [nmiSignal EXCEPT !.countdown = @ - 1]
  BY <1>1 DEF Nmi, PinTick, PinsUpTo
<1>6. Nmi.current = nmiSignal.current \/ Nmi.current = nmiSignal.target
  BY <1>1, <1>5 DEF PinOf, PinsUpTo
<1>7. PinTap(Nmi, 1) = Nmi.target \/ PinTap(Nmi, 1) = Nmi.current
  BY DEF PinTap
<1>8. nmiSignal.current \in BOOLEAN /\ nmiSignal.target \in BOOLEAN
  BY <1>1, PinFields
<1>9. Nmi.current => Nmi.target
  BY <1>4, <1>6, <1>8 DEF PinInv
<1>10. nmiSignal.current => Nmi.current
  BY <1>6, <1>8 DEF PinInv
<1>11. PinTap(Nmi, 1) => Nmi.target
  BY <1>3, <1>7, <1>9
<1>12. Nmi.current => PinTap(Nmi, 1)
  BY <1>3, <1>7, <1>9
<1> QED
  BY <1>2, <1>3, <1>4, <1>9, <1>10, <1>11, <1>12

LEMMA RunChainStep ==
  ASSUME IInv, RunChain, phase' \in {1, 2}, UNCHANGED <<nmiLevel, irqLevel>>
  PROVE  IInv'
<1>1. Emit(TRUE, ReadChain[nextOp].next) /\ Keeps(pcAhead + ReadChain[nextOp].inc)
        /\ nextOp \in DOMAIN ReadChain => IInv'
  <2> SUFFICES ASSUME nextOp \in DOMAIN ReadChain, Emit(TRUE, ReadChain[nextOp].next),
                      Keeps(pcAhead + ReadChain[nextOp].inc)
               PROVE  IInv'
    OBVIOUS
  <2>1. TypeOK'
    BY NmiTicks, ReadTargets DEF IInv, TypeOK, Emit, Keeps, polls
  <2>2. PinInv'
    BY NmiTicks DEF IInv, PinInv, Keeps
  <2>3. WriteInv'
    BY ReadTargets DEF WriteInv, Emit, Landmarks
  <2>4. FrameInv'
    BY ReadTargets, ReadSources DEF IInv, EntryInv, FrameInv, FrameTellsSource, Emit, Keeps,
      polls, Landmarks, Pushing, Pushing2
  <2>5. EntryInv'
    BY ReadTargets DEF IInv, EntryInv, Emit, Keeps, polls, Landmarks, Pushing, Pushing2, Entry
  <2>6. PassedInv'
    BY NmiTicks, ReadTargets DEF IInv, PassedInv, Emit, Keeps, polls, Landmarks, Pushing, Pushing2
  <2>7. ServedInv'
    BY NmiTicks DEF IInv, ServedInv, Keeps
  <2>8. CutInv'
    BY ReadSources DEF IInv, CutInv, Emit, Keeps
  <2>9. SnapshotInv'
    BY ReadTargets, ReadSources DEF IInv, CutInv, SnapshotInv, Emit, Keeps, polls, Entry, Landmarks,
      Pushing, Pushing2
  <2>10. PendingInv'
    BY NmiTicks, ReadSources DEF IInv, PendingInv, Emit, Keeps, polls
  <2> QED
    BY <2>1, <2>2, <2>3, <2>4, <2>5, <2>6, <2>7, <2>8, <2>9, <2>10 DEF IInv
<1>2. nextOp \in DOMAIN WriteChain /\ Emit(FALSE, WriteChain[nextOp]) /\ Keeps(pcAhead) => IInv'
  <2> SUFFICES ASSUME nextOp \in DOMAIN WriteChain, Emit(FALSE, WriteChain[nextOp]),
                      Keeps(pcAhead)
               PROVE  IInv'
    OBVIOUS
  <2>1. TypeOK'
    <3>1. nextOp' \in MicroOps
      BY WriteTargets DEF Emit, MicroOps, Last, ReadChain, WriteChain, SingleOps
    <3> QED
      BY <3>1, NmiTicks DEF IInv, TypeOK, Emit, Keeps, polls
  <2>2. PinInv'
    BY NmiTicks DEF IInv, PinInv, Keeps
  <2>3. WriteInv'
    <3>1. writes' = writes + 1 /\ nextOp' = WriteChain[nextOp]
      BY DEF Emit
    <3>2. nextOp \in Pushing => writes = 1
      BY DEF IInv, WriteInv
    <3>3. nextOp \in {"rmw_dummyWrite", "jsr2_internal", "pha1_dummy", "php1_dummy"} => writes = 0
      BY DEF IInv, WriteInv, Pushing, Pushing2
    <3>4. nextOp' \in {"rmw_finalWrite", "jsr3_pushPCH"} => writes' = 1
      BY <3>1, <3>3, WriteTargets
    <3>5. nextOp' \in {"jsr4_pushPCL", "int3_pushPCL"} => writes' = 2
      BY <3>1, <3>2, WriteTargets DEF Pushing
    <3>6. nextOp' = "opFetch" => writes' \in 0..2
      BY <3>1, <3>2, <3>3, WriteTargets DEF Pushing
    <3>7. nextOp' \in {"opFetch", "rmw_finalWrite", "jsr3_pushPCH", "jsr4_pushPCL",
                      "int3_pushPCL"}
      BY <3>1, WriteTargets
    <3> QED
      BY <3>4, <3>5, <3>6, <3>7 DEF WriteInv, Pushing, Pushing2
  <2>4. FrameInv'
    BY WriteTargets, WriteSources DEF IInv, FrameInv, FrameTellsSource, Emit, Keeps, polls
  <2>5. EntryInv'
    BY WriteTargets, WriteSources DEF IInv, EntryInv, Emit, Keeps, polls, Entry
  <2>6. PassedInv'
    BY NmiTicks, WriteTargets, WriteSources DEF IInv, PassedInv, Emit, Keeps, polls, Polled
  <2>7. ServedInv'
    BY NmiTicks DEF IInv, ServedInv, Keeps
  <2>8. CutInv'
    BY WriteSources DEF IInv, CutInv, Emit, Keeps
  <2>9. SnapshotInv'
    BY WriteTargets, WriteSources DEF IInv, CutInv, SnapshotInv, Emit, Keeps, polls, Entry
  <2>10. PendingInv'
    BY NmiTicks, WriteSources DEF IInv, PendingInv, Emit, Keeps, polls, Polled
  <2> QED
    BY <2>1, <2>2, <2>3, <2>4, <2>5, <2>6, <2>7, <2>8, <2>9, <2>10 DEF IInv
<1> QED
  BY <1>1, <1>2 DEF RunChain

(* What the two ends of an instruction leave: an opcode fetched, or the    *)
(* entry of a hardware interrupt begun.                                    *)
Ends == Last \cup LastSetsFlags \cup {"am_rel_1", "am_rel_2_taken"}

LEMMA EndSources ==
  ASSUME NEW op \in Ends
  PROVE  op \notin Entry \cup {"int5_readLow", "int6_readHigh", "int7_fetchOpcode",
                               "decodeAndDispatch"}
BY DEF Ends, Last, LastSetsFlags, Entry

(* Where opFetch is called the masks agree, but after a call that cut off  *)
(* an entry; what a branch knows of an NMI it has noted.                   *)
LEMMA OpFetchStep ==
  ASSUME IInv, phase' \in {1, 2}, UNCHANGED <<nmiLevel, irqLevel>>,
         NEW i \in BOOLEAN, NEW skip \in BOOLEAN, OpFetch(i, skip),
         nextOp \in Ends, skip => nextOp = "am_rel_2_taken"
  PROVE  IInv'
<1>1. CASE TakeInterrupt
  <2>1. /\ nextOp' = "intHw_dummy2" /\ isRead' = TRUE /\ writes' = 0 /\ pcAhead' = 0
        /\ cut' = FALSE /\ interruptPending' = FALSE /\ flagI' = i
        /\ UNCHANGED <<irqInhibitSnapshot, accessMode, pushedB>>
    BY <1>1 DEF OpFetch, TakeInterrupt, Emit
  <2>2. \/ /\ Nmi.target /\ nmiSignal' = PinOf(FALSE) /\ currentInt' = "NMI"
           /\ passed' = 0 /\ served' = ~nmiLevel
        \/ /\ ~Nmi.target /\ nmiSignal' = Nmi /\ currentInt' = "IRQ"
           /\ UNCHANGED <<passed, served>>
    BY <1>1 DEF TakeInterrupt, ServeNMI, ServeIRQ, PinForce
  <2>3. PinOf(FALSE) \in PinsUpTo(BOOLEAN, 2) /\ PinOf(FALSE).current = FALSE
          /\ PinOf(FALSE).target = FALSE
    BY PinOfType DEF PinOf
  <2>4. TypeOK'
    <3>1. nextOp' \in MicroOps /\ currentInt' \in Sources
      BY <2>1, <2>2, EntryOps DEF Sources
    <3>2. nmiSignal' \in PinsUpTo(BOOLEAN, 2)
      BY <2>2, <2>3, NmiTicks DEF IInv
    <3>3. passed' \in {0, 1} /\ served' \in BOOLEAN
      BY <2>2 DEF IInv, TypeOK
    <3> QED
      BY <2>1, <3>1, <3>2, <3>3 DEF IInv, TypeOK
  <2>5. PinInv'
    BY <2>2, <2>3, NmiTicks DEF IInv, PinInv
  <2>6. WriteInv' /\ FrameInv'
    BY <2>1 DEF WriteInv, FrameInv, FrameTellsSource, Pushing, Pushing2
  <2>7. EntryInv'
    BY <2>1, <2>2 DEF EntryInv
  <2>8. PassedInv'
    BY <2>1, <2>2, NmiTicks DEF IInv, PassedInv, PinInv
  <2>9. ServedInv'
    BY <2>2, <2>3, NmiTicks DEF IInv, ServedInv
  <2>10. CutInv' /\ SnapshotInv' /\ PendingInv'
    BY <2>1, <2>2 DEF CutInv, SnapshotInv, PendingInv, Entry
  <2> QED
    BY <2>4, <2>5, <2>6, <2>7, <2>8, <2>9, <2>10 DEF IInv
<1>2. CASE ~interruptPending /\ (skip \/ ~PollFinds) /\ FetchOpcode(i)
  <2>1. /\ nextOp' = "decodeAndDispatch" /\ isRead' = TRUE /\ writes' = 0 /\ pcAhead' = 1
        /\ cut' = FALSE /\ interruptPending' = FALSE /\ flagI' = i /\ irqInhibitSnapshot' = i
        /\ nmiSignal' = Nmi /\ UNCHANGED <<currentInt, served, accessMode, pushedB>>
    BY <1>2 DEF OpFetch, FetchOpcode, Emit
  <2>2. Nmi.current => passed = 0
    <3>1. CASE nextOp = "am_rel_2_taken"
      BY <3>1, <1>2 DEF IInv, PassedInv, TypeOK, Polled
    <3>2. CASE nextOp # "am_rel_2_taken"
      BY <3>2, <1>2, NmiTicks DEF PollFinds
    <3> QED
      BY <3>1, <3>2
  <2>3. passed' = IF ~Nmi.current THEN 0
                  ELSE IF passed < MaxPassed THEN passed + 1 ELSE passed
    BY <1>2 DEF FetchOpcode
  <2>4. passed' = 0 \/ (passed' = 1 /\ Nmi.current)
    BY <2>2, <2>3 DEF MaxPassed
  <2>5. TypeOK'
    BY <2>1, <2>4, NmiTicks DEF IInv, TypeOK, MicroOps, SingleOps
  <2>6. PinInv'
    BY <2>1, NmiTicks DEF IInv, PinInv
  <2>7. WriteInv' /\ FrameInv'
    BY <2>1 DEF WriteInv, FrameInv, FrameTellsSource, Pushing, Pushing2
  <2>8. EntryInv'
    BY <2>1 DEF EntryInv, Entry
  <2>9. PassedInv'
    BY <2>1, <2>4 DEF PassedInv, Polled
  <2>10. ServedInv'
    BY <2>1, NmiTicks DEF IInv, ServedInv
  <2>11. CutInv' /\ SnapshotInv' /\ PendingInv'
    BY <2>1 DEF CutInv, SnapshotInv, PendingInv
  <2> QED
    BY <2>5, <2>6, <2>7, <2>8, <2>9, <2>10, <2>11 DEF IInv
<1> QED
  BY <1>1, <1>2 DEF OpFetch

LEMMA RunLastStep ==
  ASSUME IInv, RunLast, phase' \in {1, 2}, UNCHANGED <<nmiLevel, irqLevel>>
  PROVE  IInv'
<1>1. \E i \in BOOLEAN : OpFetch(i, FALSE)
  BY DEF RunLast, IInv, TypeOK
<1>2. nextOp \in Ends
  BY DEF RunLast, Ends
<1> QED
  BY <1>1, <1>2, OpFetchStep

(* A cycle within an instruction from whose micro-op neither an entry nor  *)
(* a branch comes, to one of the same kind.                                *)
LEMMA InsideStep ==
  ASSUME IInv, phase' \in {1, 2}, UNCHANGED <<nmiLevel, irqLevel>>,
         Keeps(pcAhead), nextOp \notin Entry \cup Polled \cup {"opFetch"},
         \/ Emit(TRUE, nextOp') /\ nextOp' \in MicroOps \ (Landmarks \cup Entry)
         \/ Emit(FALSE, "opFetch") /\ writes = 0,
         nextOp' \notin {"int6_readHigh", "int7_fetchOpcode"}
  PROVE  IInv'
<1>1. nextOp' \in MicroOps
  BY DEF Emit, MicroOps, Last
<1>2. nextOp' \notin Entry \cup Polled \cup {"int5_readLow", "decodeAndDispatch"}
  BY DEF Emit, Landmarks, Entry, Polled
<1>3. TypeOK'
  <2>1. isRead' \in BOOLEAN
    BY DEF Emit
  <2>2. nmiSignal' \in PinsUpTo(BOOLEAN, 2)
    BY NmiTicks DEF IInv, Keeps, polls
  <2> QED
    BY <1>1, <2>1, <2>2 DEF IInv, TypeOK, Keeps, polls
<1>4. PinInv'
  BY NmiTicks DEF IInv, PinInv, Keeps
<1>5. WriteInv'
  BY DEF WriteInv, Emit, Landmarks, Pushing, Pushing2
<1>6. FrameInv' /\ EntryInv'
  BY <1>2 DEF FrameInv, FrameTellsSource, EntryInv, Entry
<1>7. PassedInv'
  BY <1>2, NmiTicks DEF IInv, PassedInv, Keeps, Entry
<1>8. ServedInv'
  BY NmiTicks DEF IInv, ServedInv, Keeps
<1>9. CutInv' /\ SnapshotInv' /\ PendingInv'
  BY <1>2 DEF IInv, CutInv, SnapshotInv, PendingInv, Keeps, polls
<1> QED
  BY <1>3, <1>4, <1>5, <1>6, <1>7, <1>8, <1>9 DEF IInv

LEMMA RunAddressingStep ==
  ASSUME IInv, RunAddressing, phase' \in {1, 2}, UNCHANGED <<nmiLevel, irqLevel>>
  PROVE  IInv'
<1>1. nextOp \in Addressed \cup DOMAIN Indexed
  BY DEF RunAddressing
<1>2. nextOp \notin Entry \cup Polled \cup {"opFetch", "int5_readLow"} \cup Pushing \cup Pushing2
  BY <1>1 DEF Addressed, Indexed, Entry, Polled, Pushing, Pushing2
<1>3. writes = 0
  BY <1>2 DEF IInv, WriteInv
<1>4. CASE AfterAddressing
  <2>1. {"readAndExec_", "rmw_dummyWrite"} \subseteq MicroOps \ (Landmarks \cup Entry)
    BY DEF MicroOps, Landmarks, Pushing, Pushing2, Polled, Entry, Last, WriteChain
  <2>2. \/ Emit(TRUE, nextOp') /\ nextOp' \in {"readAndExec_", "rmw_dummyWrite"}
        \/ Emit(FALSE, "opFetch")
    BY <1>4 DEF AfterAddressing, Emit
  <2>3. Keeps(pcAhead) /\ nextOp' \notin {"int6_readHigh", "int7_fetchOpcode"}
    BY <1>4, <2>2 DEF AfterAddressing, Emit
  <2> QED
    BY <1>2, <1>3, <2>1, <2>2, <2>3, InsideStep
<1>5. CASE nextOp \in DOMAIN Indexed /\ Emit(TRUE, Indexed[nextOp]) /\ Keeps(pcAhead)
  <2>1. Indexed[nextOp] \in {"am_abx_3_fixup", "am_aby_3_fixup", "am_izy_4_fixup"}
    BY <1>5 DEF Indexed
  <2>2. {"am_abx_3_fixup", "am_aby_3_fixup", "am_izy_4_fixup"} \subseteq MicroOps \ (Landmarks \cup Entry)
    BY DEF MicroOps, Landmarks, Pushing, Pushing2, Polled, Entry, Addressed
  <2>3. nextOp' = Indexed[nextOp]
    BY <1>5 DEF Emit
  <2> QED
    BY <1>2, <1>5, <2>1, <2>2, <2>3, InsideStep
<1> QED
  BY <1>4, <1>5 DEF RunAddressing

LEMMA DecodeStep ==
  ASSUME IInv, DecodeAndDispatch, phase' \in {1, 2}, UNCHANGED <<nmiLevel, irqLevel>>
  PROVE  IInv'
<1>1. /\ nextOp = "decodeAndDispatch" /\ pcAhead = 1 /\ ~cut /\ ~interruptPending
      /\ irqInhibitSnapshot = flagI
  BY DEF DecodeAndDispatch, IInv, FrameInv, CutInv, SnapshotInv, PendingInv, Polled, Entry
<1>2. /\ isRead' = TRUE /\ writes' = 0 /\ nmiSignal' = Nmi
      /\ UNCHANGED <<flagI, irqInhibitSnapshot, pushedB, passed, served, cut>>
  BY DEF DecodeAndDispatch, Dispatch, Emit
<1>3. accessMode' \in AccessModes
  BY DEF DecodeAndDispatch, Dispatch, AccessModes
<1>4. PinInv' /\ ServedInv'
  BY <1>2, NmiTicks DEF IInv, PinInv, ServedInv
<1>5. CASE nextOp' \in MicroOps \ (Landmarks \cup Entry \cup {"int6_readHigh", "int7_fetchOpcode"})
           /\ UNCHANGED <<interruptPending, currentInt>>
  <2>1. TypeOK'
    BY <1>2, <1>3, <1>5, NmiTicks DEF IInv, TypeOK
  <2>2. WriteInv' /\ FrameInv' /\ EntryInv'
    BY <1>2, <1>5 DEF WriteInv, FrameInv, EntryInv, FrameTellsSource, Landmarks, Entry
  <2>3. PassedInv'
    BY <1>2, <1>5, NmiTicks DEF IInv, PassedInv, Landmarks, Entry
  <2>4. CutInv' /\ SnapshotInv' /\ PendingInv'
    BY <1>1, <1>2, <1>5 DEF CutInv, SnapshotInv, PendingInv
  <2> QED
    BY <1>4, <2>1, <2>2, <2>3, <2>4 DEF IInv
<1>6. CASE nextOp' = "am_rel_1" /\ interruptPending' = (interruptPending \/ PollFinds)
           /\ UNCHANGED currentInt
  <2>1. interruptPending' <=> PollFinds
    BY <1>1, <1>6
  <2>2. interruptPending' \in BOOLEAN
    BY <1>1, <1>6 DEF PollFinds
  <2>3. TypeOK'
    BY <1>2, <1>3, <1>6, <2>2, NmiTicks DEF IInv, TypeOK, MicroOps, SingleOps
  <2>4. WriteInv' /\ FrameInv' /\ EntryInv'
    BY <1>2, <1>6 DEF WriteInv, FrameInv, EntryInv, FrameTellsSource, Entry, Pushing, Pushing2
  <2>5. nmiSignal.current => PollFinds
    BY NmiTicks DEF IInv, PollFinds
  <2>6. PassedInv'
    BY <1>2, <1>6, <2>1, <2>5, NmiTicks DEF IInv, PassedInv
  <2>7. PollFinds => Nmi.target \/ ~flagI
    BY <1>1, NmiTicks DEF IInv, PollFinds
  <2>8. CutInv' /\ SnapshotInv' /\ PendingInv'
    BY <1>1, <1>2, <1>6, <2>1, <2>7 DEF CutInv, SnapshotInv, PendingInv, Polled
  <2> QED
    BY <1>4, <2>3, <2>4, <2>6, <2>8 DEF IInv
<1>7. CASE nextOp' = "int1_dummy" /\ pcAhead' = pcAhead /\ currentInt' = "SoftwareBRK"
           /\ UNCHANGED interruptPending
  <2>1. TypeOK'
    BY <1>2, <1>3, <1>7, NmiTicks DEF IInv, TypeOK, MicroOps, SingleOps, Sources
  <2>2. WriteInv' /\ FrameInv' /\ EntryInv'
    BY <1>1, <1>2, <1>7 DEF WriteInv, FrameInv, EntryInv, FrameTellsSource, Pushing, Pushing2
  <2>3. PassedInv'
    BY <1>2, <1>7, NmiTicks DEF IInv, PassedInv, Polled
  <2>4. CutInv' /\ SnapshotInv' /\ PendingInv'
    BY <1>1, <1>2, <1>7 DEF CutInv, SnapshotInv, PendingInv
  <2> QED
    BY <1>4, <2>1, <2>2, <2>3, <2>4 DEF IInv
<1>8. \A mode : OperandOps(mode) \cup ImpliedOps
        \subseteq MicroOps \ (Landmarks \cup Entry \cup {"int6_readHigh", "int7_fetchOpcode"})
  BY DEF OperandOps, ImpliedOps, MicroOps, Landmarks, Pushing, Pushing2, Polled, Entry, ReadChain,
    WriteChain, Last, LastSetsFlags, Addressed
<1> QED
  BY <1>5, <1>6, <1>7, <1>8 DEF DecodeAndDispatch, Dispatch, Emit

(* A branch goes on to its next micro-op with what it has polled.          *)
LEMMA BranchStep ==
  ASSUME IInv, Branch, phase' \in {1, 2}, UNCHANGED <<nmiLevel, irqLevel>>
  PROVE  IInv'
<1>1. CASE nextOp \in {"am_rel_1", "am_rel_2_taken"} /\ \E skip \in BOOLEAN :
             OpFetch(flagI, skip) /\ (skip => nextOp = "am_rel_2_taken")
  BY <1>1, OpFetchStep DEF IInv, TypeOK, Ends
<1>2. CASE /\ nextOp = "am_rel_1"
           /\ Emit(TRUE, "am_rel_2_taken") /\ nmiSignal' = Nmi
           /\ interruptPending' = (interruptPending \/ PollFinds)
           /\ UNCHANGED <<accessMode, flagI, irqInhibitSnapshot, currentInt, pushedB, passed,
                          served, cut>>
  <2>1. /\ ~cut /\ irqInhibitSnapshot = flagI
    BY <1>2 DEF IInv, CutInv, SnapshotInv, Entry
  <2>2. /\ nextOp' = "am_rel_2_taken" /\ writes' = 0 /\ isRead' = TRUE
    BY <1>2 DEF Emit
  <2>3. interruptPending' <=> (interruptPending \/ PollFinds)
    BY <1>2
  <2>4. interruptPending' \in BOOLEAN
    BY <1>2
  <2>5. TypeOK'
    BY <1>2, <2>2, <2>4, NmiTicks DEF IInv, TypeOK, MicroOps, SingleOps
  <2>6. PinInv' /\ ServedInv'
    BY <1>2, NmiTicks DEF IInv, PinInv, ServedInv
  <2>7. WriteInv' /\ FrameInv' /\ EntryInv'
    BY <2>2 DEF WriteInv, FrameInv, EntryInv, FrameTellsSource, Entry, Pushing, Pushing2
  <2>8. PassedInv'
    BY <1>2, <2>2, <2>3, NmiTicks DEF IInv, PassedInv, Polled
  <2>9. PollFinds => Nmi.target \/ ~flagI
    BY <2>1, NmiTicks DEF IInv, PollFinds
  <2>10. interruptPending => Nmi.target \/ ~flagI
    BY NmiTicks DEF IInv, PendingInv
  <2>11. CutInv' /\ SnapshotInv' /\ PendingInv'
    BY <1>2, <2>1, <2>2, <2>3, <2>9, <2>10 DEF CutInv, SnapshotInv, PendingInv, Polled
  <2> QED
    BY <2>5, <2>6, <2>7, <2>8, <2>11 DEF IInv
<1>3. CASE nextOp = "am_rel_2_taken" /\ Emit(TRUE, "am_rel_3_pagefix") /\ Keeps(pcAhead)
  <2>1. nextOp' = "am_rel_3_pagefix" /\ writes' = 0 /\ isRead' = TRUE
    BY <1>3 DEF Emit
  <2>2. TypeOK'
    BY <1>3, <2>1, NmiTicks DEF IInv, TypeOK, Keeps, polls, MicroOps, Last
  <2>3. PinInv' /\ ServedInv'
    BY <1>3, NmiTicks DEF IInv, PinInv, ServedInv, Keeps
  <2>4. WriteInv' /\ FrameInv' /\ EntryInv'
    BY <2>1 DEF WriteInv, FrameInv, EntryInv, FrameTellsSource, Entry, Pushing, Pushing2
  <2>5. PassedInv'
    BY <1>3, <2>1, NmiTicks DEF IInv, PassedInv, Polled, Keeps, polls
  <2>6. CutInv' /\ SnapshotInv' /\ PendingInv'
    BY <1>3, <2>1, NmiTicks DEF IInv, CutInv, SnapshotInv, PendingInv, Polled, Keeps, polls, Entry
  <2> QED
    BY <2>2, <2>3, <2>4, <2>5, <2>6 DEF IInv
<1> QED
  BY <1>1, <1>2, <1>3 DEF Branch

LEMMA Int1Step ==
  ASSUME IInv, Int1Dummy, phase' \in {1, 2}, UNCHANGED <<nmiLevel, irqLevel>>
  PROVE  IInv'
<1>1. nextOp = "int1_dummy" /\ nextOp' = "int2_pushPCH" /\ isRead' = FALSE /\ writes' = writes + 1
  BY DEF Int1Dummy, Emit
<1>2. writes = 0 /\ pcAhead = IF currentInt = "SoftwareBRK" THEN 1 ELSE 0
  BY <1>1 DEF IInv, WriteInv, FrameInv, Pushing, Pushing2
<1>3. pcAhead' = IF currentInt = "SoftwareBRK" THEN pcAhead + 1 ELSE pcAhead
  BY DEF Int1Dummy, Keeps
<1>4. /\ nmiSignal' = Nmi
      /\ UNCHANGED <<accessMode, flagI, irqInhibitSnapshot, interruptPending, currentInt, pushedB,
                     passed, served, cut>>
  BY DEF Int1Dummy, Keeps, polls
<1>5. TypeOK'
  BY <1>1, <1>4, EntryOps, NmiTicks DEF IInv, TypeOK
<1>6. PinInv' /\ ServedInv'
  BY <1>4, NmiTicks DEF IInv, PinInv, ServedInv
<1>7. WriteInv' /\ FrameInv' /\ EntryInv'
  BY <1>1, <1>2, <1>3, <1>4 DEF IInv, WriteInv, FrameInv, EntryInv, FrameTellsSource, Entry,
    Pushing, Pushing2
<1>8. PassedInv'
  BY <1>1, <1>4, NmiTicks DEF IInv, PassedInv, Polled
<1>9. CutInv' /\ SnapshotInv' /\ PendingInv'
  BY <1>1, <1>4 DEF IInv, CutInv, SnapshotInv, PendingInv, Entry, Polled
<1> QED
  BY <1>5, <1>6, <1>7, <1>8, <1>9 DEF IInv

(* An NMI that an opcode was fetched past takes over the BRK it stopped at.*)
LEMMA Int3Step ==
  ASSUME IInv, Int3PushPCL, phase' \in {1, 2}, UNCHANGED <<nmiLevel, irqLevel>>
  PROVE  IInv'
<1>1. nextOp = "int3_pushPCL" /\ nextOp' = "int5_readLow" /\ isRead' = FALSE /\ writes' = writes + 1
  BY DEF Int3PushPCL, Emit
<1>2. writes = 2 /\ pcAhead = IF currentInt = "SoftwareBRK" THEN 2 ELSE 0
  BY <1>1 DEF IInv, WriteInv, FrameInv, Pushing2
<1>3. /\ pushedB' = (currentInt = "SoftwareBRK") /\ flagI' = TRUE /\ irqInhibitSnapshot' = TRUE
      /\ UNCHANGED <<accessMode, interruptPending, pcAhead, cut>>
  BY DEF Int3PushPCL, WasBRK
<1>4. \/ /\ HijackedByNMI /\ nmiSignal' = PinOf(FALSE) /\ currentInt' = "NMI"
         /\ passed' = 0 /\ served' = ~nmiLevel
      \/ /\ ~HijackedByNMI /\ nmiSignal' = Nmi /\ currentInt' \in {currentInt, "IRQ"}
         /\ UNCHANGED <<passed, served>>
  BY DEF Int3PushPCL, ServeNMI, ServeIRQ, PinForce
<1>5. PinOf(FALSE) \in PinsUpTo(BOOLEAN, 2) /\ PinOf(FALSE).current = FALSE
        /\ PinOf(FALSE).target = FALSE
  BY PinOfType DEF PinOf
<1>6. passed = 1 => HijackedByNMI
  BY <1>1, NmiTicks DEF IInv, PassedInv, HijackedByNMI
<1>7. passed' = 0
  BY <1>4, <1>6 DEF IInv, TypeOK
<1>8. served' \in BOOLEAN /\ (served' => ~nmiLevel /\ ~nmiSignal'.target)
  <2>1. nmiLevel \in BOOLEAN /\ served \in BOOLEAN
    BY DEF IInv, TypeOK
  <2>2. CASE nmiSignal' = PinOf(FALSE) /\ served' = ~nmiLevel
    BY <1>5, <2>1, <2>2
  <2>3. CASE nmiSignal' = Nmi /\ served' = served
    <3>1. served' => ~nmiLevel /\ ~nmiSignal.target
      BY <2>3 DEF IInv, ServedInv
    <3>2. ~nmiSignal.target => ~nmiSignal'.target
      BY <2>3, NmiTicks DEF IInv
    <3> QED
      BY <2>1, <2>3, <3>1, <3>2
  <2> QED
    BY <1>4, <2>2, <2>3
<1>9. TypeOK'
  <2>1. nextOp' \in MicroOps /\ currentInt' \in Sources
    BY <1>1, <1>4, EntryOps DEF IInv, TypeOK, Sources
  <2>2. nmiSignal' \in PinsUpTo(BOOLEAN, 2)
    BY <1>4, <1>5, NmiTicks DEF IInv
  <2>3. pushedB' \in BOOLEAN /\ flagI' \in BOOLEAN
    BY <1>3 DEF IInv, TypeOK
  <2> QED
    BY <1>1, <1>3, <1>7, <1>8, <2>1, <2>2, <2>3 DEF IInv, TypeOK
<1>10. PinInv'
  BY <1>4, <1>5, NmiTicks DEF IInv, PinInv
<1>11. ServedInv'
  BY <1>8 DEF ServedInv
<1>12. FrameTellsSource'
  BY <1>2, <1>3 DEF FrameTellsSource
<1>13. WriteInv' /\ FrameInv' /\ EntryInv'
  BY <1>1, <1>2, <1>12 DEF WriteInv, FrameInv, EntryInv, Entry, Pushing, Pushing2
<1>14. PassedInv'
  BY <1>7 DEF PassedInv
<1>15. CutInv' /\ SnapshotInv' /\ PendingInv'
  BY <1>1, <1>3 DEF IInv, CutInv, SnapshotInv, PendingInv, Polled
<1> QED
  BY <1>9, <1>10, <1>11, <1>13, <1>14, <1>15 DEF IInv

LEMMA Int7Step ==
  ASSUME IInv, Int7FetchOpcode, phase' \in {1, 2}, UNCHANGED <<nmiLevel, irqLevel>>
  PROVE  IInv'
<1>1. /\ nextOp = "int7_fetchOpcode" /\ nextOp' = "decodeAndDispatch"
      /\ isRead' = TRUE /\ writes' = 0 /\ pcAhead' = 1 /\ irqInhibitSnapshot' = flagI
      /\ nmiSignal' = Nmi
      /\ UNCHANGED <<accessMode, flagI, interruptPending, currentInt, pushedB, served, cut>>
  BY DEF Int7FetchOpcode, FetchOpcode, Emit
<1>2. passed = 0
  BY <1>1 DEF IInv, TypeOK, PassedInv
<1>3. passed' = 0 \/ (passed' = 1 /\ Nmi.current)
  BY <1>2 DEF Int7FetchOpcode, FetchOpcode, MaxPassed
<1>4. TypeOK'
  BY <1>1, <1>3, NmiTicks DEF IInv, TypeOK, MicroOps, SingleOps
<1>5. PinInv' /\ ServedInv'
  BY <1>1, NmiTicks DEF IInv, PinInv, ServedInv
<1>6. WriteInv' /\ FrameInv' /\ EntryInv'
  BY <1>1 DEF WriteInv, FrameInv, EntryInv, FrameTellsSource, Entry, Pushing, Pushing2
<1>7. PassedInv'
  BY <1>1, <1>3 DEF PassedInv, Polled
<1>8. CutInv' /\ SnapshotInv' /\ PendingInv'
  BY <1>1 DEF IInv, CutInv, SnapshotInv, PendingInv, Polled
<1> QED
  BY <1>4, <1>5, <1>6, <1>7, <1>8 DEF IInv

LEMMA RtiStep ==
  ASSUME IInv, Rti3PullP, phase' \in {1, 2}, UNCHANGED <<nmiLevel, irqLevel>>
  PROVE  IInv'
<1>1. /\ nextOp = "rti3_pullP" /\ nextOp' = "rti4_pullPCL"
      /\ isRead' = TRUE /\ writes' = 0 /\ flagI' \in BOOLEAN /\ irqInhibitSnapshot' = flagI'
      /\ nmiSignal' = Nmi
      /\ UNCHANGED <<accessMode, interruptPending, currentInt, pushedB, passed, served, cut>>
  BY DEF Rti3PullP, Emit
<1>2. TypeOK'
  BY <1>1, NmiTicks DEF IInv, TypeOK, MicroOps, ReadChain
<1>3. PinInv' /\ ServedInv'
  BY <1>1, NmiTicks DEF IInv, PinInv, ServedInv
<1>4. WriteInv' /\ FrameInv' /\ EntryInv'
  BY <1>1 DEF WriteInv, FrameInv, EntryInv, FrameTellsSource, Entry, Pushing, Pushing2
<1>5. PassedInv'
  BY <1>1, NmiTicks DEF IInv, PassedInv, Polled
<1>6. CutInv' /\ SnapshotInv' /\ PendingInv'
  BY <1>1 DEF IInv, CutInv, SnapshotInv, PendingInv, Polled
<1> QED
  BY <1>2, <1>3, <1>4, <1>5, <1>6 DEF IInv

LEMMA RunStep ==
  ASSUME IInv, Run
  PROVE  IInv'
<1>1. phase' \in {1, 2} /\ UNCHANGED <<nmiLevel, irqLevel>>
  BY DEF Run
<1>2. \/ RunChain \/ RunLast \/ RunAddressing \/ DecodeAndDispatch \/ Branch
      \/ Int1Dummy \/ Int3PushPCL \/ Int7FetchOpcode \/ Rti3PullP
  BY DEF Run
<1> QED
  BY <1>1, <1>2, RunChainStep, RunLastStep, RunAddressingStep, DecodeStep, BranchStep, Int1Step,
     Int3Step, Int7Step, RtiStep

-----------------------------------------------------------------------------
LEMMA StallStep ==
  ASSUME IInv, Stall
  PROVE  IInv'
<1>1. /\ phase' = 2 /\ nmiSignal' = Nmi
      /\ UNCHANGED <<nextOp, isRead, accessMode, flagI, nmiLevel, irqLevel, irqInhibitSnapshot,
                     interruptPending, currentInt, pcAhead, pushedB, passed, served, writes, cut>>
  BY DEF Stall, polls, frame, history
<1>2. TypeOK'
  BY <1>1, NmiTicks DEF IInv, TypeOK
<1>3. PinInv' /\ ServedInv' /\ PassedInv'
  BY <1>1, NmiTicks DEF IInv, PinInv, ServedInv, PassedInv
<1>4. WriteInv' /\ FrameInv' /\ EntryInv' /\ CutInv' /\ SnapshotInv'
  BY <1>1 DEF IInv, WriteInv, FrameInv, EntryInv, FrameTellsSource, CutInv, SnapshotInv
<1>5. PendingInv'
  BY <1>1, NmiTicks DEF IInv, PendingInv
<1> QED
  BY <1>2, <1>3, <1>4, <1>5 DEF IInv

LEMMA Phi2Step ==
  ASSUME IInv, NEW nmi \in BOOLEAN, NEW irq \in BOOLEAN, Phi2(nmi, irq)
  PROVE  IInv'
<1>1. /\ phase' = 1 /\ nmiLevel' = nmi /\ irqLevel' = irq /\ served' = (served /\ ~nmi)
      /\ UNCHANGED <<nextOp, isRead, accessMode, flagI, irqInhibitSnapshot,
                     interruptPending, currentInt, pcAhead, pushedB, passed, writes, cut>>
  BY DEF Phi2, polls, frame
<1>2. \/ /\ FallingEdge(nmi) /\ ~nmiSignal.target
         /\ nmiSignal' = [current |-> nmiSignal.current, target |-> TRUE, countdown |-> 2]
      \/ nmiSignal' = nmiSignal /\ UNCHANGED nmiSignal
  BY DEF Phi2, PinSet
<1>3. nmiSignal \in PinsUpTo(BOOLEAN, 2)
  BY DEF IInv, TypeOK
<1>4. nmiSignal'.current = nmiSignal.current
  BY <1>2
<1>5. nmiSignal'.target = TRUE \/ nmiSignal' = nmiSignal
  BY <1>2
<1>6. nmiSignal' \in PinsUpTo(BOOLEAN, 2)
  <2>1. PinSet(nmiSignal, TRUE, 2) \in PinsUpTo(BOOLEAN, 2)
    <3>1. \A v \in BOOLEAN : PinSet(nmiSignal, v, 2) \in PinsUpTo(BOOLEAN, 2)
      <4> TAKE v \in BOOLEAN
      <4> QED
        BY <1>3, PinSetType
    <3> QED
      BY <3>1, Zenon
  <2>2. nmiSignal' \in {PinSet(nmiSignal, TRUE, 2), nmiSignal}
    BY DEF Phi2
  <2> QED
    BY <1>3, <2>1, <2>2
<1>7. served' \in BOOLEAN
  BY <1>1
<1>8. TypeOK'
  BY <1>1, <1>6, <1>7 DEF IInv, TypeOK
<1>9. PinInv'
  BY <1>4, <1>5 DEF IInv, PinInv
<1>10. served' => served /\ ~nmi
  BY <1>1
<1>11. served' => nmiSignal' = nmiSignal
  BY <1>2, <1>10 DEF IInv, ServedInv, FallingEdge
<1>12. ServedInv'
  BY <1>1, <1>10, <1>11 DEF IInv, ServedInv
<1>13. PassedInv'
  BY <1>1, <1>4 DEF IInv, PassedInv
<1>14. WriteInv' /\ FrameInv' /\ EntryInv' /\ CutInv' /\ SnapshotInv'
  BY <1>1 DEF IInv, WriteInv, FrameInv, EntryInv, FrameTellsSource, CutInv, SnapshotInv
<1>15. PendingInv'
  BY <1>1, <1>5 DEF IInv, PendingInv
<1> QED
  BY <1>8, <1>9, <1>12, <1>13, <1>14, <1>15 DEF IInv

LEMMA ResetStep ==
  ASSUME IInv, Reset
  PROVE  IInv'
<1>1. PinOf(FALSE) \in PinsUpTo(BOOLEAN, 2) /\ PinOf(FALSE).current = FALSE
        /\ PinOf(FALSE).target = FALSE
  BY PinOfType DEF PinOf
<1>2. nmiSignal' = PinOf(FALSE)
  BY DEF Reset, PinForce
<1>3. TypeOK'
  BY <1>1, <1>2 DEF Reset, IInv, TypeOK, MicroOps, ReadChain, Sources, frame
<1>4. PinInv' /\ ServedInv'
  BY <1>1, <1>2 DEF Reset, PinInv, ServedInv
<1>5. WriteInv' /\ FrameInv' /\ EntryInv' /\ PassedInv'
  BY DEF Reset, WriteInv, FrameInv, EntryInv, FrameTellsSource, PassedInv, Entry, Pushing, Pushing2
<1>6. CutInv' /\ SnapshotInv' /\ PendingInv'
  BY DEF Reset, CutInv, SnapshotInv, PendingInv
<1> QED
  BY <1>3, <1>4, <1>5, <1>6 DEF IInv

(* A call of the NSF player leaves what was polled as it was.              *)
LEMMA JumpStep ==
  ASSUME IInv, JumpTo
  PROVE  IInv'
<1>1. /\ isRead' = TRUE /\ nextOp' = "opFetch" /\ writes' = 0 /\ cut' = (cut \/ nextOp \in Entry)
      /\ UNCHANGED <<phase, accessMode, flagI, nmiSignal, nmiLevel, irqLevel, irqInhibitSnapshot,
                     interruptPending, currentInt, pushedB, passed, served>>
  BY DEF JumpTo, pins, polls
<1>2. cut' \in BOOLEAN
  BY <1>1 DEF IInv, TypeOK
<1>3. TypeOK'
  BY <1>1, <1>2 DEF IInv, TypeOK, MicroOps, Last
<1>4. PinInv' /\ ServedInv'
  BY <1>1 DEF IInv, PinInv, ServedInv
<1>5. WriteInv' /\ FrameInv' /\ EntryInv' /\ CutInv'
  BY <1>1 DEF WriteInv, FrameInv, EntryInv, FrameTellsSource, CutInv, Entry, Pushing, Pushing2
<1>6. PassedInv'
  BY <1>1 DEF IInv, PassedInv, Polled
<1>7. SnapshotInv' /\ PendingInv'
  BY <1>1 DEF IInv, SnapshotInv, PendingInv
<1> QED
  BY <1>3, <1>4, <1>5, <1>6, <1>7 DEF IInv

LEMMA StepInv ==
  ASSUME IInv, [Next]_vars
  PROVE  IInv'
<1>1. CASE Run
  BY <1>1, RunStep
<1>2. CASE Stall
  BY <1>2, StallStep
<1>3. CASE \E nmi \in BOOLEAN, irq \in BOOLEAN : Phi2(nmi, irq)
  BY <1>3, Phi2Step
<1>4. CASE Reset
  BY <1>4, ResetStep
<1>5. CASE JumpTo
  BY <1>5, JumpStep
<1>6. CASE UNCHANGED vars
  BY <1>6 DEF IInv, TypeOK, PinInv, WriteInv, FrameInv, EntryInv, FrameTellsSource, PassedInv,
    ServedInv, CutInv, SnapshotInv, PendingInv, vars, pins, polls, frame, history
<1> QED
  BY <1>1, <1>2, <1>3, <1>4, <1>5, <1>6 DEF Next, Clock

LEMMA InitInv ==
  ASSUME Init
  PROVE  IInv
<1>1. PinOf(FALSE) \in PinsUpTo(BOOLEAN, 2) /\ PinOf(FALSE).current = FALSE
        /\ PinOf(FALSE).target = FALSE
  BY PinOfType DEF PinOf
<1>2. TypeOK
  BY <1>1 DEF Init, TypeOK, MicroOps, ReadChain, Sources, AccessModes
<1>3. PinInv /\ ServedInv
  BY <1>1 DEF Init, PinInv, ServedInv
<1>5. WriteInv /\ FrameInv /\ EntryInv /\ PassedInv
  BY DEF Init, WriteInv, FrameInv, EntryInv, FrameTellsSource, PassedInv, Entry, Pushing, Pushing2
<1>4. CutInv /\ SnapshotInv /\ PendingInv
  BY DEF Init, CutInv, SnapshotInv, PendingInv
<1> QED
  BY <1>2, <1>3, <1>4, <1>5 DEF IInv

(* Every chain of micro-ops stays in the tables, with bus direction, pins, *)
(* polls and the frame of an entry in step with it, under any program and  *)
(* any host.                                                               *)
THEOREM Invariance == Spec => []IInv
<1>1. Init => IInv
  BY InitInv
<1>2. IInv /\ [Next]_vars => IInv'
  BY StepInv
<1> QED
  BY <1>1, <1>2, PTL DEF Spec

-----------------------------------------------------------------------------
(* Steps that begin an entry, and the one that decides its vector.         *)
Enters == nextOp \in Ends /\ (interruptPending \/ PollFinds) /\ TakeInterrupt
Decides == Enters \/ Int3PushPCL

(* Of all steps only these and a reset can clear the NMI's pin, and only   *)
(* these take an interrupt.                                                *)
LEMMA QuietSteps ==
  ASSUME IInv, [Next]_vars, ~Decides, ~Reset
  PROVE  /\ nmiSignal.target => nmiSignal'.target
         /\ nextOp' = "intHw_dummy2" => nextOp = "intHw_dummy2"
         /\ nextOp' = "int5_readLow" => nextOp = "int5_readLow"
<1> DEFINE Quiet == /\ nmiSignal' = Nmi
                    /\ nextOp' \notin {"intHw_dummy2", "int5_readLow"}
<1>1. Quiet => /\ nmiSignal.target => nmiSignal'.target
               /\ nextOp' = "intHw_dummy2" => nextOp = "intHw_dummy2"
               /\ nextOp' = "int5_readLow" => nextOp = "int5_readLow"
  BY NmiTicks DEF IInv
<1>2. CASE RunChain
  <2>1. CASE nextOp \in DOMAIN ReadChain /\ Emit(TRUE, ReadChain[nextOp].next)
    <3>1. nextOp' \notin Landmarks
      BY <2>1, ReadTargets DEF Emit
    <3>2. Quiet
      BY <1>2, <3>1 DEF RunChain, Keeps, Landmarks
    <3> QED
      BY <1>1, <3>2
  <2>2. CASE nextOp \in DOMAIN WriteChain /\ Emit(FALSE, WriteChain[nextOp])
    <3>1. nextOp' \notin {"intHw_dummy2", "int5_readLow"}
      BY <2>2, WriteTargets DEF Emit
    <3>2. Quiet
      BY <1>2, <3>1 DEF RunChain, Keeps
    <3> QED
      BY <1>1, <3>2
  <2> QED
    BY <1>2, <2>1, <2>2 DEF RunChain
<1>3. ASSUME NEW i, NEW skip, OpFetch(i, skip), nextOp \in Ends
      PROVE  Quiet
  <2>1. FetchOpcode(i)
    BY <1>3 DEF OpFetch, Decides, Enters
  <2> QED
    BY <2>1 DEF FetchOpcode, Emit
<1>4. CASE RunLast
  BY <1>1, <1>3, <1>4 DEF RunLast, Ends
<1>5. CASE RunAddressing
  <2>1. nmiSignal' = Nmi
    BY <1>5 DEF RunAddressing, AfterAddressing, Keeps
  <2>2. nextOp' \in {"readAndExec_", "rmw_dummyWrite", "opFetch"} \cup {Indexed[nextOp]}
    BY <1>5 DEF RunAddressing, AfterAddressing, Emit
  <2>3. nextOp \in DOMAIN Indexed => Indexed[nextOp] \notin {"intHw_dummy2", "int5_readLow"}
    BY DEF Indexed
  <2>4. nextOp \notin DOMAIN Indexed => nextOp' \in {"readAndExec_", "rmw_dummyWrite", "opFetch"}
    BY <1>5 DEF RunAddressing, AfterAddressing, Emit
  <2>5. Quiet
    BY <2>1, <2>2, <2>3, <2>4
  <2> QED
    BY <1>1, <2>5
<1>6. CASE DecodeAndDispatch
  <2>1. \A mode : {"intHw_dummy2", "int5_readLow"} \cap (OperandOps(mode) \cup ImpliedOps) = {}
    BY DEF OperandOps, ImpliedOps
  <2>2. Quiet
    BY <1>6, <2>1 DEF DecodeAndDispatch, Dispatch, Emit
  <2> QED
    BY <1>1, <2>2
<1>7. CASE Branch
  <2>1. CASE nextOp \in Ends /\ \E skip : OpFetch(flagI, skip)
    BY <1>1, <1>3, <2>1
  <2>2. CASE Quiet
    BY <1>1, <2>2
  <2> QED
    BY <1>7, <2>1, <2>2 DEF Branch, Ends, Emit, Keeps
<1>8. CASE Int1Dummy \/ Int7FetchOpcode \/ Rti3PullP
  <2>1. Quiet
    BY <1>8 DEF Int1Dummy, Int7FetchOpcode, FetchOpcode, Rti3PullP, Keeps, Emit
  <2> QED
    BY <1>1, <2>1
<1>9. CASE Stall
  <2>1. nmiSignal' = Nmi /\ nextOp' = nextOp
    BY <1>9 DEF Stall
  <2> QED
    BY <2>1, NmiTicks DEF IInv
<1>10. CASE \E nmi \in BOOLEAN, irq \in BOOLEAN : Phi2(nmi, irq)
  <2>1. nextOp' = nextOp
    BY <1>10 DEF Phi2
  <2>2. nmiSignal' = nmiSignal \/ nmiSignal' = [current |-> nmiSignal.current, target |-> TRUE, countdown |-> 2]
    BY <1>10 DEF Phi2, PinSet
  <2>3. nmiSignal.target => nmiSignal'.target
    BY <2>2
  <2> QED
    BY <2>1, <2>3
<1>11. CASE JumpTo
  BY <1>11 DEF JumpTo, pins
<1>12. CASE UNCHANGED vars
  BY <1>12 DEF vars, pins
<1> QED
  BY <1>2, <1>4, <1>5, <1>6, <1>7, <1>8, <1>9, <1>10, <1>11, <1>12 DEF Next, Clock, Run, Decides

(* No more than three writes in a row: DMA, which waits for a read, is     *)
(* never delayed for longer.                                               *)
THEOREM WritesBounded == Spec => []ThreeWritesInRow
<1>1. IInv => ThreeWritesInRow
  BY DEF IInv, WriteInv, ThreeWritesInRow
<1> QED
  BY <1>1, Invariance, PTL

(* What an entry pushes tells who entered, also when a BRK was taken over. *)
THEOREM FramesTold == Spec => []FrameTellsSource
<1>1. IInv => FrameTellsSource
  BY DEF IInv, FrameInv
<1> QED
  BY <1>1, Invariance, PTL

(* A visible NMI waits for at most one more instruction to begin.          *)
THEOREM NMIWaitsShortly == Spec => []NMIWaitsForOne
<1>1. IInv => NMIWaitsForOne
  BY DEF IInv, TypeOK, NMIWaitsForOne
<1> QED
  BY <1>1, Invariance, PTL

(* An edge that was seen ends in its handler or in a reset.                *)
THEOREM NMIKept == Spec => NMINotLost
<1>1. ASSUME IInv, [Next]_vars, nmiSignal.target, ~nmiSignal'.target
      PROVE  Takes("NMI") \/ Reset
  <2>1. CASE Enters
    <3>1. nextOp # "intHw_dummy2"
      BY <2>1, EndSources DEF Enters, Entry
    <3>2. Nmi.target
      BY <1>1, NmiTicks DEF IInv
    <3> QED
      BY <2>1, <3>1, <3>2 DEF Enters, TakeInterrupt, ServeNMI, Takes, Emit
  <2>2. CASE Int3PushPCL
    <3>1. HijackedByNMI
      <4>1. ~HijackedByNMI => nmiSignal' = Nmi
        BY <2>2 DEF Int3PushPCL, ServeIRQ
      <4> QED
        BY <1>1, <4>1, NmiTicks DEF IInv
    <3> QED
      BY <2>2, <3>1 DEF Int3PushPCL, HijackedByNMI, ServeNMI, Takes, Emit
  <2> QED
    BY <1>1, <2>1, <2>2, QuietSteps DEF Decides
<1> QED
  BY <1>1, Invariance, PTL DEF Spec, NMINotLost

(* One edge is one NMI: none is taken while the line stays low.            *)
THEOREM NMITakenOnce == Spec => NMIOncePerEdge
<1>1. ASSUME IInv, [Next]_vars, Takes("NMI")
      PROVE  ~served
  <2>1. served => ~nmiSignal.target
    BY <1>1 DEF IInv, ServedInv
  <2>2. CASE Enters
    <3>1. Nmi.target
      BY <1>1, <2>2 DEF Enters, TakeInterrupt, ServeIRQ, Takes
    <3> QED
      BY <1>1, <2>1, <3>1, NmiTicks DEF IInv
  <2>3. CASE Int3PushPCL
    <3>1. currentInt # "NMI"
      BY <1>1, <2>3 DEF Takes, Int3PushPCL, Emit
    <3>2. HijackedByNMI
      BY <1>1, <2>3, <3>1 DEF Int3PushPCL, ServeIRQ, Takes
    <3> QED
      BY <1>1, <2>1, <3>2, NmiTicks DEF IInv, HijackedByNMI
  <2>4. CASE Reset
    BY <1>1, <2>4 DEF Reset, Takes
  <2> QED
    BY <1>1, <2>2, <2>3, <2>4, QuietSteps DEF Decides, Takes
<1> QED
  BY <1>1, Invariance, PTL DEF Spec, NMIOncePerEdge

(* An IRQ is taken only if the mask allowed it before the instruction that *)
(* ends with it, or RTI has restored one that does, unless a call of the   *)
(* host has cut off an entry.                                              *)
THEOREM IRQMasked == Spec => IRQRespectsMask
<1>1. ASSUME IInv, [Next]_vars, Takes("IRQ"), ~cut
      PROVE  ~flagI
  <2>1. CASE Enters
    <3>1. ~Nmi.target
      BY <1>1, <2>1 DEF Enters, TakeInterrupt, ServeNMI, Takes
    <3>2. irqInhibitSnapshot = flagI
      BY <1>1, <2>1, EndSources DEF Enters, IInv, SnapshotInv
    <3>3. interruptPending => ~flagI
      BY <1>1, <3>1, NmiTicks DEF IInv, PendingInv
    <3>4. PollFinds => ~flagI
      BY <1>1, <3>1, <3>2, NmiTicks DEF IInv, PollFinds
    <3> QED
      BY <2>1, <3>3, <3>4 DEF Enters
  <2>2. CASE Int3PushPCL
    <3>1. currentInt # "IRQ" /\ HijackedByIRQ
      BY <1>1, <2>2 DEF Takes, Int3PushPCL, ServeNMI, Emit
    <3>2. irqInhibitSnapshot = flagI
      BY <1>1, <3>1 DEF IInv, SnapshotInv, HijackedByIRQ, WasBRK
    <3> QED
      BY <3>1, <3>2 DEF HijackedByIRQ
  <2>3. CASE Reset
    BY <1>1, <2>3 DEF Reset, Takes
  <2> QED
    BY <1>1, <2>1, <2>2, <2>3, QuietSteps DEF Decides, Takes
<1> QED
  BY <1>1, Invariance, PTL DEF Spec, IRQRespectsMask
=============================================================================
