----------------------------- MODULE DMAProofs -----------------------------
(***************************************************************************)
(* The 2A03 around its DMA units, for every page size, every set of sample *)
(* lengths, every DMC rate and every program.  Three parts, of which the   *)
(* later two rest on the first:                                            *)
(*   1. module DMA: what the units may not lose, and that they implement   *)
(*      CycleSteal;                                                        *)
(*   2. module DMATiming: how long they stall the CPU, and which fetches   *)
(*      of a stopped sample are dropped;                                   *)
(*   3. module Controllers: the ports shift once for each assertion of     *)
(*      their output enables, for every number of buttons.                 *)
(***************************************************************************)
EXTENDS Controllers, DMATiming, DelayedPinProofs

(* What the proofs need of the constants.                                  *)
LEMMA ConstantTypes ==
  /\ PageSize \in Nat /\ PageSize > 0
  /\ MaxWrites \in Nat
  /\ Modulus \in Nat /\ Modulus > 0
  /\ 0 \in Pages
  /\ \A length \in SampleLengths : length \in Counts
  /\ \A period \in OutputPeriods : period \in Nat
  /\ 1 \in SampleLengths
  /\ \A irq \in IrqFlags : irq \in BOOLEAN
BY DMAAssumption DEF DMAAssumption

LEMMA ZeroInRange == 0 \in Counts /\ 0 \in 0..PageSize-1
BY ConstantTypes DEF Counts

LEMMA HadBytesType ==
  ASSUME hadBytesRecently \in PinsUpTo(BOOLEAN, 4), bytesRemaining \in Counts
  PROVE  HadBytesPin \in PinsUpTo(BOOLEAN, 4)
<1>1. PinForce(hadBytesRecently, TRUE) \in PinsUpTo(BOOLEAN, 4)
  BY PinForceType
<1>2. PinSet(hadBytesRecently, FALSE, 4) \in PinsUpTo(BOOLEAN, 4)
  <2>1. 4 \in Nat /\ 0 < 4 /\ 4 <= 4
    OBVIOUS
  <2>2. QED
    BY <2>1, PinSetType
<1>3. QED
  BY <1>1, <1>2, PinTickType DEF HadBytesPin

LEMMA InitType == Init => TypeOK
<1> SUFFICES ASSUME Init PROVE TypeOK
  OBVIOUS
<1>1. PinOf(FALSE) \in PinsUpTo(BOOLEAN, 4) /\ PinOf(FALSE) \in PinsUpTo(BOOLEAN, 3)
  BY PinOfType
<1>2. GlueType
  BY DEF Init, GlueType
<1>3. CpuType
  BY ConstantTypes DEF Init, CpuType
<1>4. OamType
  <2>1. oamData \in Seq(Bytes \cup {NoByte}) /\ oamBuffer \in Bytes \cup {NoByte}
    BY DEF Init
  <2>2. oamPage \in Pages /\ oamIndex \in 0..PageSize-1
    BY ZeroInRange, ConstantTypes DEF Init
  <2>3. QED
    BY <2>1, <2>2 DEF Init, OamType
<1>5. DmcType
  BY <1>1 DEF Init, DmcType
<1>6. SampleType
  BY ZeroInRange DEF Init, SampleType
<1>7. OutputType
  BY <1>1, ConstantTypes DEF Init, OutputType
<1>8. QED
  BY <1>2, <1>3, <1>4, <1>5, <1>6, <1>7 DEF TypeOK

(* Phi1, one conjunct of its composition at a time.                        *)
LEMMA ApuPhi1Type ==
  ASSUME ApuPhi1, OutputType, isAPUPutCycle \in BOOLEAN
  PROVE  OutputType' /\ UNCHANGED sampleVars
<1>1. dmaDelay' \in PinsUpTo(BOOLEAN, 3)
  BY PinTickType DEF ApuPhi1, OutputType
<1>2. outputTimer' \in Nat
  BY ConstantTypes DEF ApuPhi1, OutputCycleEnds, OutputType
<1>3. sampleBufferEmpty' \in BOOLEAN /\ reloadOnPut' \in BOOLEAN
  BY DEF ApuPhi1, OutputType
<1>4. QED
  BY <1>1, <1>2, <1>3 DEF OutputType, ApuPhi1

LEMMA CpuPhi1Type ==
  ASSUME CpuPhi1, CpuType
  PROVE  CpuType'
<1>1. CASE UNCHANGED cpuVars
  BY <1>1 DEF CpuType, cpuVars
<1>2. CASE ~CpuStalled
  <2>1. cpuWrites' \in 0..MaxWrites
    BY ConstantTypes DEF CpuPhi1, CpuType, cpuVars
  <2>2. QED
    BY <1>2, <2>1 DEF CpuPhi1, CpuType, cpuVars
<1>3. QED
  BY <1>1, <1>2 DEF CpuPhi1

LEMMA DmaDmcPhi1Type ==
  ASSUME DmaDmcPhi1, DmcType, bytesRemaining \in Counts, reloadOnPut' \in BOOLEAN
  PROVE  DmcType'
<1>1. hadBytesRecently' \in PinsUpTo(BOOLEAN, 4)
  BY HadBytesType DEF DmaDmcPhi1, DmcType
<1>2. /\ dmcHaltOnPut' \in BOOLEAN
      /\ dmcHaltArmed' \in BOOLEAN
      /\ dmcAbortPending' \in BOOLEAN
  BY DEF DmaDmcPhi1, DmcType
<1>3. DmcPhaseNow \in {"Idle", "Halt", "Dummy", "Read"}
  BY DEF DmcPhaseNow, DmcType
<1>4. dmcPhase' \in {"Idle", "Halt", "Dummy", "Read"}
  BY <1>3 DEF DmaDmcPhi1
<1>5. QED
  BY <1>1, <1>2, <1>4 DEF DmcType

LEMMA Phi1Type == TypeOK /\ Phi1 => TypeOK'
<1> SUFFICES ASSUME TypeOK, Phi1 PROVE TypeOK'
  OBVIOUS
<1>1. ApuPhi1 /\ CpuPhi1 /\ DmaDmcPhi1 /\ DmaOamPhi1
  BY DEF Phi1, DmaPhi1
<1>2. OutputType' /\ UNCHANGED sampleVars
  BY <1>1, ApuPhi1Type DEF TypeOK, GlueType
<1>3. SampleType'
  BY <1>2 DEF TypeOK, SampleType, sampleVars
<1>4. CpuType'
  BY <1>1, CpuPhi1Type DEF TypeOK
<1>5. DmcType'
  BY <1>1, <1>2, DmaDmcPhi1Type DEF TypeOK, SampleType, OutputType
<1>6. OamType'
  BY <1>1 DEF DmaOamPhi1, Phi1, TypeOK, OamType
<1>7. GlueType'
  BY DEF Phi1, DmaPhi1, TypeOK, GlueType
<1>8. QED
  BY <1>2, <1>3, <1>4, <1>5, <1>6, <1>7 DEF TypeOK

(* A CPU write leaves the CPU, RDY, the access and the DMC unit alone.     *)
LEMMA CpuWritingType ==
  ASSUME CpuWriting, TypeOK
  PROVE  GlueType' /\ CpuType' /\ DmcType'
BY DEF CpuWriting, TypeOK, GlueType, CpuType, DmcType, cpuVars, dmcVars

LEMMA WriteType == TypeOK /\ (NoWrite \/ Write) => TypeOK'
<1> SUFFICES ASSUME TypeOK, NoWrite \/ Write PROVE TypeOK'
  OBVIOUS
<1>1. CASE NoWrite
  <2>1. GlueType' /\ CpuType' /\ DmcType'
    BY <1>1 DEF NoWrite, TypeOK, GlueType, CpuType, DmcType, cpuVars, dmcVars
  <2>2. OamType' /\ SampleType' /\ OutputType'
    BY <1>1 DEF NoWrite, TypeOK, OamType, SampleType, OutputType, oamVars,
                sampleVars, outputVars
  <2>3. QED
    BY <2>1, <2>2 DEF TypeOK
<1>2. CASE WriteOther
  <2>1. OamType' /\ SampleType' /\ OutputType'
    BY <1>2 DEF WriteOther, TypeOK, OamType, SampleType, OutputType, oamVars,
                sampleVars, outputVars
  <2>2. QED
    BY <1>2, <2>1, CpuWritingType DEF WriteOther, TypeOK
<1>3. ASSUME NEW page \in Pages, WriteOAMDMA(page) PROVE TypeOK'
  <2>1. SampleType' /\ OutputType'
    BY <1>3 DEF WriteOAMDMA, TypeOK, SampleType, OutputType, sampleVars, outputVars
  <2>2. OamType'
    BY <1>3, ConstantTypes DEF WriteOAMDMA, TypeOK, OamType
  <2>3. QED
    BY <1>3, <2>1, <2>2, CpuWritingType DEF WriteOAMDMA, TypeOK
<1>4. ASSUME NEW irq \in IrqFlags, NEW loop \in BOOLEAN, WriteDmcFlags(irq, loop)
      PROVE  TypeOK'
  <2>1. OamType' /\ OutputType'
    BY <1>4 DEF WriteDmcFlags, TypeOK, OamType, OutputType, oamVars, outputVars
  <2>2. SampleType'
    BY <1>4, ConstantTypes DEF WriteDmcFlags, TypeOK, SampleType
  <2>3. QED
    BY <1>4, <2>1, <2>2, CpuWritingType DEF WriteDmcFlags, TypeOK
<1>5. ASSUME NEW length \in SampleLengths, WriteDmcLength(length) PROVE TypeOK'
  <2>1. OamType' /\ OutputType'
    BY <1>5 DEF WriteDmcLength, TypeOK, OamType, OutputType, oamVars, outputVars
  <2>2. SampleType'
    BY <1>5 DEF WriteDmcLength, TypeOK, SampleType
  <2>3. QED
    BY <1>5, <2>1, <2>2, CpuWritingType DEF WriteDmcLength, TypeOK
<1>6. CASE StartSample
  <2>1. PinSet(PinForce(dmaDelay, TRUE), FALSE, 3) \in PinsUpTo(BOOLEAN, 3)
    <3>1. PinForce(dmaDelay, TRUE) \in PinsUpTo(BOOLEAN, 3)
      BY PinForceType
    <3>2. 3 \in Nat /\ 0 < 3 /\ 3 <= 3
      OBVIOUS
    <3>3. QED
      BY <3>1, <3>2, PinSetType
  <2>2. OutputType'
    BY <1>6, <2>1 DEF StartSample, TypeOK, OutputType
  <2>3. SampleType'
    BY <1>6, ConstantTypes DEF StartSample, TypeOK, SampleType, Counts
  <2>4. OamType'
    BY <1>6 DEF StartSample, TypeOK, OamType, oamVars
  <2>5. QED
    BY <1>6, <2>2, <2>3, <2>4, CpuWritingType DEF StartSample, TypeOK
<1>7. CASE StopSample
  <2>1. OamType' /\ OutputType'
    BY <1>7 DEF StopSample, TypeOK, OamType, OutputType, oamVars, outputVars
  <2>2. SampleType'
    BY <1>7, ZeroInRange DEF StopSample, TypeOK, SampleType
  <2>3. QED
    BY <1>7, <2>1, <2>2, CpuWritingType DEF StopSample, TypeOK
<1>8. QED
  BY <1>1, <1>2, <1>3, <1>4, <1>5, <1>6, <1>7 DEF Write

LEMMA Phi2Type == TypeOK /\ Phi2 => TypeOK'
<1> SUFFICES ASSUME TypeOK, Phi2 PROVE TypeOK'
  OBVIOUS
<1>0. EndCycle
  BY DEF Phi2, NoAccess, DMCGet, OAMGet, OAMPut
<1>1. GlueType' /\ CpuType'
  BY <1>0 DEF EndCycle, TypeOK, GlueType, CpuType
<1>2. CASE NoAccess
  <2>1. OamType' /\ DmcType'
    BY <1>0, <1>2 DEF EndCycle, NoAccess, TypeOK, OamType, DmcType, oamVars
  <2>2. SampleType' /\ OutputType'
    BY <1>0, <1>2 DEF EndCycle, NoAccess, TypeOK, SampleType, OutputType
  <2>3. QED
    BY <1>1, <2>1, <2>2 DEF TypeOK
<1>3. CASE DMCGet
  <2>1. OamType' /\ DmcType'
    BY <1>0, <1>3 DEF EndCycle, DMCGet, TypeOK, OamType, DmcType, oamVars
  <2>2. bytesRemaining' \in Counts
    <3>1. CASE bytesRemaining = 0
      BY <1>3, <3>1 DEF DMCGet, TypeOK, SampleType
    <3>2. CASE bytesRemaining = 1
      BY <1>3, <3>2, ZeroInRange, ConstantTypes
         DEF DMCGet, LoadSampleBuffer, TypeOK, SampleType
    <3>3. CASE bytesRemaining # 0 /\ bytesRemaining # 1
      <4>1. bytesRemaining' = (bytesRemaining - 1) % Modulus
        BY <1>3, <3>3 DEF DMCGet, LoadSampleBuffer
      <4>2. bytesRemaining - 1 \in Int /\ Modulus \in Int /\ Modulus > 0
        BY ConstantTypes DEF TypeOK, SampleType, Counts
      <4>3. QED
        BY <4>1, <4>2 DEF Counts
    <3>4. QED
      BY <3>1, <3>2, <3>3
  <2>3. SampleType'
    BY <1>0, <1>3, <2>2 DEF EndCycle, DMCGet, LoadSampleBuffer, TypeOK, SampleType
  <2>4. OutputType'
    BY <1>0, <1>3 DEF EndCycle, DMCGet, LoadSampleBuffer, TypeOK, OutputType
  <2>5. QED
    BY <1>1, <2>1, <2>3, <2>4 DEF TypeOK
<1>4. CASE OAMGet
  <2>1. OamType'
    BY <1>4 DEF OAMGet, TypeOK, OamType, Bytes
  <2>2. DmcType' /\ SampleType' /\ OutputType'
    BY <1>0, <1>4 DEF EndCycle, OAMGet, TypeOK, DmcType, SampleType, OutputType
  <2>3. QED
    BY <1>1, <2>1, <2>2 DEF TypeOK
<1>5. CASE OAMPut
  <2>1. oamIndex' \in 0..PageSize-1
    BY <1>5, ConstantTypes DEF OAMPut, TypeOK, OamType
  <2>2. oamData' \in Seq(Bytes \cup {NoByte})
    BY <1>5 DEF OAMPut, TypeOK, OamType
  <2>3. /\ oamPhase' \in {"Idle", "Halt", "Transfer"}
        /\ oamHasByte' \in BOOLEAN
        /\ UNCHANGED <<oamPage, oamBuffer>>
    BY <1>5 DEF OAMPut, TypeOK, OamType
  <2>4. OamType'
    BY <2>1, <2>2, <2>3 DEF TypeOK, OamType
  <2>5. DmcType' /\ SampleType' /\ OutputType'
    BY <1>0, <1>5 DEF EndCycle, OAMPut, TypeOK, DmcType, SampleType, OutputType
  <2>6. QED
    BY <1>1, <2>4, <2>5 DEF TypeOK
<1>6. QED
  BY <1>2, <1>3, <1>4, <1>5 DEF Phi2

LEMMA ResetType == TypeOK /\ Reset => TypeOK'
<1> SUFFICES ASSUME TypeOK, Reset PROVE TypeOK'
  OBVIOUS
<1>1. /\ PinForce(dmaDelay, FALSE) \in PinsUpTo(BOOLEAN, 3)
      /\ PinOf(FALSE) \in PinsUpTo(BOOLEAN, 4)
  BY PinOfType, PinForceType
<1>2. GlueType' /\ CpuType'
  <2>1. 0 \in 0..MaxWrites
    BY ConstantTypes
  <2>2. QED
    BY <2>1 DEF Reset, TypeOK, GlueType, CpuType
<1>3. OamType'
  <2>1. oamData' \in Seq(Bytes \cup {NoByte}) /\ oamBuffer' \in Bytes \cup {NoByte}
    BY DEF Reset
  <2>2. oamPage' \in Pages /\ oamIndex' \in 0..PageSize-1
    BY ZeroInRange, ConstantTypes DEF Reset
  <2>3. QED
    BY <2>1, <2>2 DEF Reset, OamType
<1>4. DmcType'
  BY <1>1 DEF Reset, DmcType
<1>5. SampleType' /\ OutputType'
  BY <1>1, ZeroInRange DEF Reset, TypeOK, SampleType, OutputType
<1>6. QED
  BY <1>2, <1>3, <1>4, <1>5 DEF TypeOK

(* The NSF player's jumps leave the units as they are.                     *)
LEMMA JumpType == TypeOK /\ (CallPlay \/ InitSong) => TypeOK'
<1> SUFFICES ASSUME TypeOK, CallPlay \/ InitSong PROVE TypeOK'
  OBVIOUS
<1>1. CpuJumps
  BY DEF CallPlay, InitSong
<1>2. GlueType' /\ CpuType' /\ DmcType'
  <2>1. MaxWrites \in 0..MaxWrites
    BY ConstantTypes
  <2>2. QED
    BY <1>1, <2>1 DEF CpuJumps, TypeOK, GlueType, CpuType, DmcType, dmcVars
<1>3. OamType' /\ OutputType'
  BY <1>1 DEF CpuJumps, TypeOK, OamType, OutputType, oamVars, outputVars
<1>4. SampleType'
  <2>1. CASE CallPlay
    BY <2>1 DEF CallPlay, TypeOK, SampleType, sampleVars
  <2>2. CASE InitSong
    BY <2>2, ZeroInRange, ConstantTypes DEF InitSong, SampleType
  <2>3. QED
    BY <2>1, <2>2
<1>5. QED
  BY <1>2, <1>3, <1>4 DEF TypeOK

LEMMA StutterType == TypeOK /\ UNCHANGED vars => TypeOK'
<1> SUFFICES ASSUME TypeOK, UNCHANGED vars PROVE TypeOK'
  OBVIOUS
<1>1. GlueType' /\ CpuType' /\ DmcType'
  BY DEF vars, TypeOK, GlueType, CpuType, DmcType, cpuVars, dmcVars
<1>2. OamType' /\ SampleType' /\ OutputType'
  BY DEF vars, TypeOK, OamType, SampleType, OutputType, oamVars, sampleVars, outputVars
<1>3. QED
  BY <1>1, <1>2 DEF TypeOK

(* Every variable keeps the type of the field it models, whatever program  *)
(* runs and whenever the machine is reset.                                 *)
THEOREM TypeCorrect == Spec => []TypeOK
<1>1. TypeOK /\ [Next]_vars => TypeOK'
  BY Phi1Type, WriteType, Phi2Type, JumpType, ResetType, StutterType DEF Next, Clock
<1>2. QED
  BY <1>1, InitType, PTL DEF Spec

-----------------------------------------------------------------------------
(* The inductive invariant, one conjunct at a time.                        *)
LEMMA InitInv == Init => IInv
<1> SUFFICES ASSUME Init PROVE IInv
  OBVIOUS
<1>1. HoldInv /\ AccessInv
  BY DEF Init, HoldInv, AccessInv
<1>2. CopyInv
  BY DEF Init, CopyInv, OamInOrder, OamComplete
<1>3. NoLostRead /\ NoSampleOverwritten
  BY DEF Init, NoLostRead, NoSampleOverwritten
<1>4. QED
  BY <1>1, <1>2, <1>3 DEF IInv

(* After DMA phase 1 the RDY line agrees with the phases, and the CPU was  *)
(* caught on a read: a unit starts to hold the CPU only in a cycle that is *)
(* haltable, and a held CPU repeats its read.                              *)
LEMMA Phi1Hold ==
  ASSUME TypeOK, IInv, Phi1
  PROVE  HoldInv' /\ AccessInv'
<1>1. ApuPhi1 /\ CpuPhi1 /\ DmaPhi1 /\ DmaDmcPhi1 /\ DmaOamPhi1
  BY DEF Phi1, DmaPhi1
<1>2. rdy' = ~(oamPhase' = "Transfer" \/ dmcPhase' \in {"Dummy", "Read"})
  BY <1>1 DEF DmaPhi1
<1>3. ~rdy => Haltable(cpuCycle')
  BY <1>1 DEF CpuPhi1, CpuStalled, cpuVars, Haltable, IInv, HoldInv
<1>4. oamPhase' = "Transfer" => Haltable(cpuCycle')
  BY <1>1, <1>3 DEF DmaOamPhi1, IInv, HoldInv
<1>5. dmcPhase' \in {"Dummy", "Read"} => Haltable(cpuCycle')
  <2>1. dmcPhase' \in {"Dummy", "Read"} =>
          DmcHaltsCpu \/ DmcPhaseNow \in {"Dummy", "Read"}
    BY <1>1 DEF DmaDmcPhi1
  <2>2. DmcPhaseNow \in {"Dummy", "Read"} => dmcPhase \in {"Dummy", "Read"}
    BY DEF DmcPhaseNow
  <2>3. QED
    BY <2>1, <2>2, <1>3 DEF DmcHaltsCpu, IInv, HoldInv
<1>6. ~rdy' => oamPhase' # "Halt"
  <2>1. CASE Haltable(cpuCycle')
    BY <1>1, <2>1 DEF DmaOamPhi1
  <2>2. CASE ~Haltable(cpuCycle')
    <3>1. oamPhase' = oamPhase
      BY <1>1, <2>2 DEF DmaOamPhi1
    <3>2. dmcPhase' \in {"Dummy", "Read"} => DmcPhaseNow \in {"Dummy", "Read"}
      BY <1>1, <2>2 DEF DmaDmcPhi1, DmcHaltsCpu
    <3>3. DmcPhaseNow \in {"Dummy", "Read"} => dmcPhase \in {"Dummy", "Read"}
      BY DEF DmcPhaseNow
    <3>4. ~rdy' => ~rdy
      BY <1>2, <3>1, <3>2, <3>3 DEF IInv, HoldInv
    <3>5. QED
      BY <3>1, <3>4 DEF IInv, HoldInv
  <2>3. QED
    BY <2>1, <2>2
<1>7. /\ action' = "DMCGet" => dmcPhase' = "Read"
      /\ action' = "OAMGet" => oamPhase' = "Transfer"
      /\ action' = "OAMPut" => oamPhase' = "Transfer" /\ oamHasByte'
  <2>1. action' = "DMCGet" => DmcPhaseNow = "Read"
    BY <1>1 DEF DmaPhi1, DmcTakesBus
  <2>2. DmcPhaseNow = "Read" => dmcPhase' = "Read"
    BY <1>1 DEF DmaDmcPhi1, DmcHaltsCpu
  <2>3. action' = "OAMGet" => oamPhase = "Transfer"
    BY <1>1 DEF DmaPhi1, OamGets
  <2>4. action' = "OAMPut" => oamPhase = "Transfer" /\ oamHasByte
    BY <1>1 DEF DmaPhi1, OamPuts
  <2>5. oamPhase = "Transfer" => oamPhase' = "Transfer" /\ oamHasByte' = oamHasByte
    BY <1>1 DEF DmaOamPhi1, TypeOK, OamType
  <2>6. QED
    BY <2>1, <2>2, <2>3, <2>4, <2>5
<1>8. action' \in {"None", "DMCGet", "OAMGet", "OAMPut"}
  BY <1>1 DEF DmaPhi1
<1>9. action' # "None" => ~rdy'
  BY <1>2, <1>7, <1>8
<1>10. QED
  BY <1>2, <1>4, <1>5, <1>6, <1>7, <1>9 DEF HoldInv, AccessInv

LEMMA Phi1Inv == TypeOK /\ IInv /\ Phi1 => IInv'
<1> SUFFICES ASSUME TypeOK, IInv, Phi1 PROVE IInv'
  OBVIOUS
<1>1. HoldInv' /\ AccessInv'
  BY Phi1Hold
<1>2. CopyInv'
  <2>1. UNCHANGED <<oamPage, oamIndex, oamBuffer, oamData>>
    BY DEF Phi1, DmaPhi1, DmaOamPhi1
  <2>2. /\ oamPhase' \in {oamPhase, "Transfer"}
        /\ oamPhase' # oamPhase => oamPhase = "Halt" /\ ~oamHasByte'
        /\ oamHasByte' => oamHasByte
    BY DEF Phi1, DmaPhi1, DmaOamPhi1
  <2>3. OamInOrder'
    BY <2>1 DEF IInv, CopyInv, OamInOrder
  <2>4. OamComplete'
    BY <2>1, <2>2 DEF IInv, CopyInv, OamComplete
  <2>5. oamPhase' = "Halt" => oamIndex' = 0 /\ oamData' = << >>
    BY <2>1, <2>2 DEF IInv, CopyInv
  <2>6. oamPhase' = "Transfer" =>
          /\ Len(oamData') = oamIndex'
          /\ oamHasByte' => oamBuffer' = <<oamPage', oamIndex'>>
    BY <2>1, <2>2 DEF IInv, CopyInv
  <2>7. QED
    BY <2>3, <2>4, <2>5, <2>6 DEF CopyInv
<1>3. NoLostRead'
  BY DEF Phi1, NoLostRead
<1>4. NoSampleOverwritten'
  <2>1. sampleBufferEmpty => sampleBufferEmpty'
    BY DEF Phi1, ApuPhi1
  <2>2. dmcPhase' # "Idle" => DmcPhaseNow # "Idle"
    BY DEF Phi1, DmaPhi1, DmaDmcPhi1, DmcHaltsCpu
  <2>3. DmcPhaseNow # "Idle" => DmcScheduled \/ dmcPhase # "Idle"
    BY DEF DmcPhaseNow
  <2>4. QED
    BY <2>1, <2>2, <2>3
       DEF DmcScheduled, DmcReadyForFetch, IInv, NoSampleOverwritten
<1>5. QED
  BY <1>1, <1>2, <1>3, <1>4 DEF IInv

(* A write happens with the CPU running, so no unit is holding it.         *)
LEMMA WriteInv == TypeOK /\ IInv /\ (NoWrite \/ Write) => IInv'
<1> SUFFICES ASSUME TypeOK, IInv, NoWrite \/ Write PROVE IInv'
  OBVIOUS
<1>1. CASE NoWrite
  <2>1. UNCHANGED <<cpuVars, rdy, action, oamVars, dmcVars, outputVars, oamData>>
        /\ phase' = "phi2" /\ phase # "phi1"
    BY <1>1 DEF NoWrite
  <2>2. HoldInv' /\ AccessInv'
    BY <2>1 DEF IInv, HoldInv, AccessInv, cpuVars, oamVars, dmcVars
  <2>3. CopyInv'
    BY <2>1 DEF IInv, CopyInv, OamInOrder, OamComplete, oamVars
  <2>4. NoLostRead' /\ NoSampleOverwritten'
    BY <2>1 DEF IInv, NoLostRead, NoSampleOverwritten, dmcVars, outputVars
  <2>5. QED
    BY <2>2, <2>3, <2>4 DEF IInv
<1>2. CASE Write
  <2>1. /\ CpuWriting
        /\ UNCHANGED sampleBufferEmpty
        /\ \/ UNCHANGED <<oamVars, oamData>>
           \/ \E page \in Pages : WriteOAMDMA(page)
    BY <1>2 DEF Write, WriteOther, WriteOAMDMA, WriteDmcFlags, WriteDmcLength,
                StartSample, StopSample, outputVars
  <2>2. /\ phase' = "phi2" /\ action = "None" /\ ~CpuRead(cpuCycle)
        /\ UNCHANGED <<cpuVars, rdy, action, dmcVars>>
    BY <2>1 DEF CpuWriting
  <2>3. rdy
    BY <2>2 DEF IInv, HoldInv, Haltable, TypeOK, GlueType
  <2>4. oamPhase' # "Transfer"
    BY <2>1, <2>3 DEF WriteOAMDMA, IInv, HoldInv, oamVars
  <2>5. HoldInv' /\ AccessInv'
    BY <2>2, <2>3, <2>4 DEF IInv, HoldInv, AccessInv, cpuVars, dmcVars
  <2>6. CopyInv'
    <3>1. CASE UNCHANGED <<oamVars, oamData>>
      BY <3>1 DEF IInv, CopyInv, OamInOrder, OamComplete, oamVars
    <3>2. ASSUME NEW page \in Pages, WriteOAMDMA(page) PROVE CopyInv'
      <4>1. oamPhase' = "Halt" /\ oamIndex' = 0 /\ oamData' = << >>
        BY <3>2 DEF WriteOAMDMA
      <4>2. QED
        BY <4>1 DEF CopyInv, OamInOrder, OamComplete
    <3>3. QED
      BY <2>1, <3>1, <3>2
  <2>7. NoLostRead' /\ NoSampleOverwritten'
    BY <2>1, <2>2 DEF IInv, NoLostRead, NoSampleOverwritten, dmcVars
  <2>8. QED
    BY <2>5, <2>6, <2>7 DEF IInv
<1>3. QED
  BY <1>1, <1>2

(* Phase 2 makes the access chosen in phase 1: the byte put is the byte    *)
(* the preceding get read, and the CPU fetches only on a cycle of its own. *)
LEMMA OAMPutCopies ==
  ASSUME TypeOK, IInv, OAMPut
  PROVE  CopyInv'
<1>1. /\ oamPhase = "Transfer"
      /\ oamBuffer = <<oamPage, oamIndex>>
      /\ Len(oamData) = oamIndex
  BY DEF OAMPut, EndCycle, IInv, AccessInv, CopyInv
<1>2. /\ oamData' = Append(oamData, <<oamPage, oamIndex>>)
      /\ UNCHANGED oamPage
      /\ ~oamHasByte'
  BY <1>1 DEF OAMPut
<1>3. oamData \in Seq(Bytes \cup {NoByte})
  BY DEF TypeOK, OamType
<1>4. Len(oamData') = oamIndex + 1
  BY <1>1, <1>2, <1>3
<1>5. OamInOrder'
  <2>1. SUFFICES ASSUME NEW i \in DOMAIN oamData'
                 PROVE  oamData'[i] = <<oamPage, i - 1>>
    BY <1>2 DEF OamInOrder
  <2>2. CASE i = oamIndex + 1
    BY <1>1, <1>2, <1>3, <2>2
  <2>3. CASE i # oamIndex + 1
    <3>1. i \in DOMAIN oamData /\ oamData'[i] = oamData[i]
      BY <1>1, <1>2, <1>3, <2>1, <2>3
    <3>2. QED
      BY <3>1 DEF IInv, CopyInv, OamInOrder
  <2>4. QED
    BY <2>2, <2>3
<1>6. CASE oamIndex = PageSize - 1
  <2>1. oamPhase' = "Idle" /\ Len(oamData') = PageSize
    BY <1>4, <1>6, ConstantTypes DEF OAMPut
  <2>2. QED
    BY <1>5, <2>1 DEF CopyInv, OamComplete
<1>7. CASE oamIndex # PageSize - 1
  <2>1. oamPhase' = "Transfer" /\ oamIndex' = oamIndex + 1
    BY <1>1, <1>7 DEF OAMPut
  <2>2. QED
    BY <1>2, <1>4, <1>5, <2>1 DEF CopyInv, OamComplete
<1>8. QED
  BY <1>6, <1>7

LEMMA Phi2Inv == TypeOK /\ IInv /\ Phi2 => IInv'
<1> SUFFICES ASSUME TypeOK, IInv, Phi2 PROVE IInv'
  OBVIOUS
<1>1. /\ EndCycle
      /\ oamPhase' = oamPhase \/ oamPhase' = "Idle"
      /\ dmcPhase' = dmcPhase \/ dmcPhase' = "Idle"
  BY DEF Phi2, NoAccess, DMCGet, OAMGet, OAMPut, oamVars
<1>2. phase' = "phi1" /\ UNCHANGED <<cpuCycle, rdy, action>>
  BY <1>1 DEF EndCycle
<1>3. HoldInv'
  BY <1>1, <1>2 DEF IInv, HoldInv
<1>4. AccessInv'
  BY <1>2 DEF AccessInv
<1>5. CopyInv'
  <2>1. CASE NoAccess \/ DMCGet
    BY <2>1 DEF NoAccess, DMCGet, oamVars, IInv, CopyInv, OamInOrder, OamComplete
  <2>2. CASE OAMGet
    BY <2>2 DEF OAMGet, IInv, CopyInv, OamInOrder, OamComplete
  <2>3. CASE OAMPut
    BY <2>3, OAMPutCopies
  <2>4. QED
    BY <2>1, <2>2, <2>3 DEF Phi2
<1>6. NoLostRead'
  <2>1. rdy => action = "None"
    BY DEF IInv, HoldInv
  <2>2. CpuRead(cpuCycle) => cpuFresh' = (action = "None")
    BY <1>1 DEF EndCycle
  <2>3. QED
    BY <1>2, <2>1, <2>2 DEF NoLostRead, CpuStalled
<1>7. NoSampleOverwritten'
  <2>1. CASE DMCGet
    BY <2>1 DEF DMCGet, NoSampleOverwritten
  <2>2. CASE NoAccess \/ OAMGet \/ OAMPut
    BY <2>2 DEF NoAccess, OAMGet, OAMPut, IInv, NoSampleOverwritten
  <2>3. QED
    BY <2>1, <2>2 DEF Phi2
<1>8. QED
  BY <1>3, <1>4, <1>5, <1>6, <1>7 DEF IInv

LEMMA ResetInv == TypeOK /\ IInv /\ Reset => IInv'
<1> SUFFICES ASSUME Reset PROVE IInv'
  OBVIOUS
<1>1. HoldInv' /\ AccessInv'
  BY DEF Reset, HoldInv, AccessInv
<1>2. CopyInv'
  BY DEF Reset, CopyInv, OamInOrder, OamComplete
<1>3. NoLostRead' /\ NoSampleOverwritten'
  BY DEF Reset, NoLostRead, NoSampleOverwritten
<1>4. QED
  BY <1>1, <1>2, <1>3 DEF IInv

LEMMA JumpInv == IInv /\ (CallPlay \/ InitSong) => IInv'
<1> SUFFICES ASSUME IInv, CpuJumps PROVE IInv'
  BY DEF CallPlay, InitSong
<1>1. /\ phase' = "phi1"
      /\ UNCHANGED <<rdy, action, oamPhase, oamPage, oamIndex, oamBuffer, oamHasByte,
                     oamData, dmcPhase, sampleBufferEmpty>>
      /\ cpuFresh' = TRUE
      /\ Haltable(cpuCycle) => Haltable(cpuCycle')
  BY DEF CpuJumps, oamVars, dmcVars, outputVars, Haltable, CpuRead
<1>2. HoldInv' /\ AccessInv'
  BY <1>1 DEF CpuJumps, IInv, HoldInv, AccessInv
<1>3. CopyInv'
  BY <1>1 DEF IInv, CopyInv, OamInOrder, OamComplete
<1>4. NoLostRead' /\ NoSampleOverwritten'
  BY <1>1 DEF IInv, NoLostRead, NoSampleOverwritten
<1>5. QED
  BY <1>2, <1>3, <1>4 DEF IInv

LEMMA StutterInv == IInv /\ UNCHANGED vars => IInv'
<1> SUFFICES ASSUME IInv, UNCHANGED vars PROVE IInv'
  OBVIOUS
<1>1. HoldInv' /\ AccessInv'
  BY DEF vars, IInv, HoldInv, AccessInv, cpuVars, oamVars, dmcVars
<1>2. CopyInv'
  BY DEF vars, IInv, CopyInv, OamInOrder, OamComplete, oamVars
<1>3. NoLostRead' /\ NoSampleOverwritten'
  BY DEF vars, IInv, NoLostRead, NoSampleOverwritten, CpuStalled, cpuVars,
         dmcVars, outputVars
<1>4. QED
  BY <1>1, <1>2, <1>3 DEF IInv

LEMMA StepInv == TypeOK /\ IInv /\ [Next]_vars => IInv'
BY Phi1Inv, WriteInv, Phi2Inv, JumpInv, ResetInv, StutterInv DEF Next, Clock

(* The inductive invariant holds in every reachable state.                 *)
THEOREM Invariance == Spec => []IInv
<1>1. TypeOK /\ IInv /\ [Next]_vars => IInv'
  BY StepInv
<1>2. QED
  BY <1>1, InitInv, TypeCorrect, PTL DEF Spec

(* No read of the CPU is lost to a DMA access, and no write is moved to    *)
(* the address of one, on either machine and under any program.            *)
THEOREM CpuUndisturbed == Spec => [](NoLostRead /\ WritesKeepTheirAddress)
<1>1. IInv => NoLostRead /\ WritesKeepTheirAddress
  BY DEF IInv, HoldInv, Haltable, WritesKeepTheirAddress
<1>2. QED
  BY <1>1, Invariance, PTL

(* A 2A07 is only ever held on an opcode fetch.                            *)
THEOREM HeldOnFetch == Spec => []PalStallsOnFetch
<1>1. IInv => PalStallsOnFetch
  BY DEF IInv, HoldInv, Haltable, PalStallsOnFetch
<1>2. QED
  BY <1>1, Invariance, PTL

(* The PPU receives whole pages, in order, for every page size.            *)
THEOREM CopyCorrect == Spec => [](OamInOrder /\ OamComplete)
<1>1. IInv => OamInOrder /\ OamComplete
  BY DEF IInv, CopyInv
<1>2. QED
  BY <1>1, Invariance, PTL

(* No sample byte is overwritten before it is played.                      *)
THEOREM SamplesKept == Spec => []NoSampleOverwritten
<1>1. IInv => NoSampleOverwritten
  BY DEF IInv
<1>2. QED
  BY <1>1, Invariance, PTL

-----------------------------------------------------------------------------
(* The byte counter only ever counts down from a sample length, so its     *)
(* sixteen-bit subtraction never wraps.                                    *)
LEMMA CounterStep ==
  ASSUME TypeOK, NoByteUnderflow, [Next]_vars
  PROVE  NoByteUnderflow'
<1>1. CASE UNCHANGED bytesRemaining
  BY <1>1 DEF NoByteUnderflow
<1>2. CASE bytesRemaining' = 0
  BY <1>2, DMAAssumption DEF NoByteUnderflow, DMAAssumption, Counts
<1>3. CASE bytesRemaining' = sampleLength /\ sampleLength # 0
  <2>1. sampleLength \in SampleLengths
    BY <1>3 DEF TypeOK, SampleType
  <2>2. bytesRemaining' <= sampleLength
    BY <1>3, <2>1, ConstantTypes DEF Counts
  <2>3. QED
    BY <2>1, <2>2 DEF NoByteUnderflow
<1>4. CASE bytesRemaining # 0 /\ bytesRemaining' = (bytesRemaining - 1) % Modulus
  <2>1. /\ bytesRemaining \in Nat /\ bytesRemaining > 0 /\ bytesRemaining < Modulus
        /\ Modulus \in Nat
    BY <1>4, ConstantTypes DEF TypeOK, SampleType, Counts
  <2>2. bytesRemaining' = bytesRemaining - 1
    BY <1>4, <2>1
  <2>3. PICK length \in SampleLengths : bytesRemaining <= length
    BY DEF NoByteUnderflow
  <2>4. bytesRemaining' <= length
    BY <2>1, <2>2, <2>3, ConstantTypes DEF Counts
  <2>5. QED
    BY <2>4 DEF NoByteUnderflow
<1>5. Write => \/ UNCHANGED bytesRemaining
               \/ bytesRemaining' = 0
               \/ bytesRemaining' = sampleLength
  BY DEF Write, WriteOther, WriteOAMDMA, WriteDmcFlags, WriteDmcLength,
         StartSample, StopSample, sampleVars
<1>6. Phi2 => \/ UNCHANGED bytesRemaining
              \/ bytesRemaining' = 0
              \/ bytesRemaining' = sampleLength
              \/ bytesRemaining # 0 /\ bytesRemaining' = (bytesRemaining - 1) % Modulus
  BY DEF Phi2, NoAccess, DMCGet, OAMGet, OAMPut, LoadSampleBuffer
<1>7. Phi1 \/ NoWrite \/ UNCHANGED vars => UNCHANGED bytesRemaining
  BY DEF Phi1, ApuPhi1, NoWrite, vars, sampleVars
<1>8. /\ Reset \/ InitSong => bytesRemaining' = 0
      /\ CallPlay => UNCHANGED bytesRemaining
  BY DEF Reset, InitSong, CallPlay, sampleVars
<1>9. QED
  BY <1>1, <1>2, <1>3, <1>4, <1>5, <1>6, <1>7, <1>8 DEF Next, Clock

THEOREM CounterNeverWraps == Spec => []NoByteUnderflow
<1>1. Init => NoByteUnderflow
  BY DMAAssumption DEF Init, NoByteUnderflow, DMAAssumption, Counts
<1>2. TypeOK /\ NoByteUnderflow /\ [Next]_vars => NoByteUnderflow'
  BY CounterStep
<1>3. QED
  BY <1>1, <1>2, TypeCorrect, PTL DEF Spec

-----------------------------------------------------------------------------
(* The refinement, one kind of step at a time.                             *)
LEMMA Phi1Steals ==
  ASSUME TypeOK, IInv, IInv', Phi1
  PROVE  [Steal!Next]_(Steal!vars)
<1>1. /\ oamPhase' = IF oamPhase = "Halt" /\ Haltable(cpuCycle')
                     THEN "Transfer" ELSE oamPhase
      /\ UNCHANGED <<oamPage, oamData>>
  BY DEF Phi1, DmaPhi1, DmaOamPhi1
<1>2. (oamPhase' = "Idle") = (oamPhase = "Idle")
  BY <1>1
<1>3. oamPhase = "Transfer" => oamPhase' = "Transfer"
  BY <1>1
<1>4. /\ ~rdy => oamPhase # "Halt"
      /\ ~rdy' => oamPhase' # "Halt"
      /\ oamPhase = "Transfer" => ~rdy
      /\ oamPhase' = "Transfer" => ~rdy'
  BY DEF IInv, HoldInv
<1>5. /\ oamPhase \in {"Idle", "Halt", "Transfer"} /\ oamPage \in Nat
      /\ rdy \in BOOLEAN
  BY DMAAssumption DEF TypeOK, OamType, GlueType, DMAAssumption
<1>6. oamPhase' \in {"Idle", "Halt", "Transfer"} /\ rdy' \in BOOLEAN
  BY <1>1, <1>5 DEF Phi1, DmaPhi1
<1>7. CASE rdy /\ ~rdy'
  <2>1. Steal!Freeze
    BY <1>1, <1>2, <1>4, <1>5, <1>6, <1>7 DEF Steal!Freeze, Steal!NoPage
  <2>2. QED
    BY <2>1 DEF Steal!Next
<1>8. CASE ~rdy /\ rdy'
  <2>1. Steal!Thaw
    BY <1>1, <1>2, <1>3, <1>4, <1>8 DEF Steal!Thaw
  <2>2. QED
    BY <2>1 DEF Steal!Next
<1>9. CASE rdy' = rdy
  <2>1. (oamPhase' = "Transfer") = (oamPhase = "Transfer")
    BY <1>1, <1>4, <1>9
  <2>2. QED
    BY <1>1, <1>2, <1>9, <2>1 DEF Steal!vars
<1>10. QED
  BY <1>5, <1>6, <1>7, <1>8, <1>9

LEMMA WriteSteals ==
  ASSUME TypeOK, IInv, NoWrite \/ Write
  PROVE  [Steal!Next]_(Steal!vars)
<1>1. CASE UNCHANGED <<rdy, oamPhase, oamPage, oamData>>
  BY <1>1 DEF Steal!vars
<1>2. ASSUME NEW page \in Pages, WriteOAMDMA(page)
      PROVE  [Steal!Next]_(Steal!vars)
  <2>1. rdy /\ oamPhase # "Transfer"
    BY <1>2 DEF WriteOAMDMA, CpuWriting, TypeOK, GlueType, IInv, HoldInv, Haltable
  <2>2. /\ oamPhase' = "Halt" /\ oamPage' = page
        /\ oamData' = << >> /\ rdy' = rdy
    BY <1>2 DEF WriteOAMDMA, CpuWriting
  <2>3. Steal!Request(page)
    BY <2>1, <2>2 DEF Steal!Request
  <2>4. QED
    BY <2>3 DEF Steal!Next
<1>3. \/ UNCHANGED <<rdy, oamPhase, oamPage, oamData>>
      \/ \E page \in Pages : WriteOAMDMA(page)
  BY DEF NoWrite, Write, WriteOther, WriteDmcFlags, WriteDmcLength, StartSample,
         StopSample, CpuWriting, oamVars
<1>4. QED
  BY <1>1, <1>2, <1>3

LEMMA Phi2Steals ==
  ASSUME TypeOK, IInv, Phi2
  PROVE  [Steal!Next]_(Steal!vars)
<1>1. CASE NoAccess \/ DMCGet \/ OAMGet
  BY <1>1 DEF NoAccess, DMCGet, OAMGet, EndCycle, oamVars, Steal!vars
<1>2. CASE OAMPut
  <2>1. /\ ~rdy /\ oamPhase = "Transfer"
        /\ oamBuffer = <<oamPage, Len(oamData)>>
        /\ Len(oamData) = oamIndex
    BY <1>2 DEF OAMPut, EndCycle, IInv, HoldInv, AccessInv, CopyInv
  <2>2. /\ oamData' = Append(oamData, <<oamPage, Len(oamData)>>)
        /\ UNCHANGED <<rdy, oamPage>>
        /\ oamPhase' = IF oamIndex = PageSize - 1 THEN "Idle" ELSE "Transfer"
    BY <1>2, <2>1 DEF OAMPut, EndCycle
  <2>3. (Len(oamData) + 1 = PageSize) = (oamIndex = PageSize - 1)
    BY <2>1, ConstantTypes DEF TypeOK, OamType
  <2>4. Steal!CopyByte
    BY <2>1, <2>2, <2>3 DEF Steal!CopyByte, Steal!NoPage
  <2>5. QED
    BY <2>4 DEF Steal!Next
<1>3. QED
  BY <1>1, <1>2 DEF Phi2

LEMMA ResetSteals ==
  ASSUME Reset
  PROVE  [Steal!Next]_(Steal!vars)
<1>1. Steal!Reset
  BY DEF Reset, Steal!Reset, Steal!NoPage
<1>2. QED
  BY <1>1 DEF Steal!Next

LEMMA JumpSteals ==
  ASSUME CallPlay \/ InitSong
  PROVE  [Steal!Next]_(Steal!vars)
BY DEF CallPlay, InitSong, CpuJumps, oamVars, Steal!vars

(* The two DMA units, interleaved with the CPU and with each other phase   *)
(* by phase, implement the uninterrupted copy of CycleSteal.               *)
THEOREM ImplementsCycleSteal == Spec => StealSpec
<1>1. Init => Steal!Init
  BY DEF Init, Steal!Init, Steal!NoPage
<1>2. TypeOK /\ IInv /\ IInv' /\ [Next]_vars => [Steal!Next]_(Steal!vars)
  <2>1. UNCHANGED vars => UNCHANGED Steal!vars
    BY DEF vars, oamVars, Steal!vars
  <2>2. QED
    BY <2>1, Phi1Steals, WriteSteals, Phi2Steals, JumpSteals, ResetSteals DEF Next, Clock
<1>3. QED
  BY <1>1, <1>2, TypeCorrect, Invariance, PTL DEF Spec, StealSpec, Steal!Spec

-----------------------------------------------------------------------------
(***************************************************************************)
(* Part 2: DMATiming.  The access a cycle makes is chosen in its Phi1 and  *)
(* made in its Phi2.  The invariants are stated for all three steps of a   *)
(* cycle, of the DMC unit and the sample buffer as Phi2 will leave them.   *)
(***************************************************************************)
Fetching == phase # "phi1" /\ action = "DMCGet"

DmcNow == IF Fetching THEN "Idle" ELSE dmcPhase

EmptyNow == IF Fetching THEN bytesRemaining = 0 ELSE sampleBufferEmpty

(* The next cycle to begin is a put cycle.                                 *)
NextPut == IF phase = "phi1" THEN isAPUPutCycle ELSE ~isAPUPutCycle

-----------------------------------------------------------------------------
TimingType ==
  /\ stall \in Nat
  /\ stallOam \in {Never, "put", "get"}
  /\ stallGets \in Nat
  /\ stallAborts \in Nat
  /\ sinceStop \in 0..LongAgo \cup {Never}
  /\ lateGets \in Nat

(* The abort window's pin tells how long ago the sample stopped.           *)
Closing(n) == [current |-> TRUE, target |-> FALSE, countdown |-> n]

WindowAt(pin, since) ==
  /\ since = 0 => pin = PinOf(TRUE)
  /\ since = 1 => pin = Closing(3)
  /\ since = 2 => pin = Closing(2)
  /\ since = 3 => pin = Closing(1)
  /\ since \notin 0..3 => pin = PinOf(FALSE)

WindowInv == WindowAt(hadBytesRecently, sinceStop)

(* A fetch is only undecided in the cycle after it was scheduled.          *)
StopInv ==
  /\ dmcPhase # "Idle" => sinceStop # Never
  /\ dmcPhase # "Idle" /\ dmcAbortPending =>
       sinceStop \in 0..3 /\ dmcPhase \in {"Halt", "Dummy"}

(* A fetch scheduled after a late one is within the abort window.          *)
LateInv ==
  /\ lateGets \in {0, 1}
  /\ lateGets = 1 =>
       /\ sinceStop \in 1..LongAgo
       /\ DmcNow # "Idle" => dmcAbortPending /\ sinceStop \in {2, 3}

(* The load delay holds the channel back from $4015 on, while the reload   *)
(* side of the channel is not yet in play.                                 *)
DelayInv ==
  \/ dmaDelay = PinOf(FALSE)
  \/ dmaDelay \in {Closing(1), Closing(2), Closing(3)} /\ ~reloadOnPut

NoStall ==
  rdy => stall = 0 /\ stallOam = Never /\ stallGets = 0 /\ stallAborts = 0

InStall ==
  ~rdy =>
    /\ stall > 0
    /\ oamPhase = "Transfer" => stallOam # Never
    /\ oamPhase = "Idle" => DmcNow # "Halt" \/ stallOam # Never

(* What a stall without OAM DMA has cost so far.                           *)
FetchAlone ==
  ~rdy /\ stallOam = Never =>
    /\ stallAborts = 0
    /\ DmcNow = "Idle" => stall \in 3 * stallGets .. 4 * stallGets
    /\ DmcNow = "Dummy" => stall \in 3 * stallGets + 1 .. 4 * stallGets + 1
    /\ DmcNow = "Read" =>
         \/ stall \in 3 * stallGets + 2 .. 4 * stallGets + 2
         \/ stall \in 3 * stallGets + 3 .. 4 * stallGets + 3 /\ ~NextPut

(* How far the cycle in progress is with the byte at oamIndex.             *)
ByteSteps ==
  IF phase = "phi1"
  THEN IF ~isAPUPutCycle THEN 0 ELSE IF oamHasByte THEN 1 ELSE -1
  ELSE IF action = "OAMGet" THEN 1 ELSE IF action = "OAMPut" THEN 2
       ELSE IF isAPUPutCycle THEN 0 ELSE -1

(* While a copy lasts every fetch has cost it a get and a put cycle.       *)
CopyCost ==
  oamPhase = "Transfer" =>
    /\ oamHasByte =>
         IF phase = "phi1" THEN isAPUPutCycle ELSE action = "OAMPut"
    /\ phase # "phi1" /\ action # "None" => (isAPUPutCycle <=> action = "OAMPut")
    /\ stall = OamCost(stallOam) - 2 * (PageSize - oamIndex) + 2 * stallGets
                 + ByteSteps

(* A fetch that the abort window is going to cancel.                       *)
Doomed == dmcAbortPending /\ bytesRemaining = 0 /\ sinceStop \in {2, 3}

(* In a stall with OAM DMA, a fetch on its way was either scheduled by the *)
(* output unit, which then is far from needing another, or it was on its   *)
(* way when the stall was young, or it is doomed.                          *)
FetchAge ==
  ~rdy /\ stallOam # Never =>
    /\ \A n \in 1..3 : dmaDelay = Closing(n) => n + stall <= 3
    /\ DmcNow = "Idle" /\ EmptyNow /\ dmaDelay = PinOf(FALSE) =>
         bytesRemaining = 0 /\ sinceStop # 0
    /\ DmcNow = "Halt" =>
         /\ NextPut <=> dmcHaltOnPut
         /\ Doomed \/ stall <= (IF NextPut THEN 1 ELSE 3)
    /\ DmcNow = "Dummy" =>
         Doomed \/ (IF NextPut THEN stall <= 4 ELSE outputTimer > 1 \/ stall <= 2)
    /\ DmcNow = "Read" =>
         IF NextPut THEN outputTimer > 1 \/ stall <= 3
         ELSE outputTimer > 0 \/ stall <= 5

(* What a stall has cost beyond its copy and two cycles for each fetch.    *)
Extra == stall - (OamCost(stallOam) + 2 * stallGets)

(* What is left of a stall once its copy is over.                          *)
TailCost ==
  ~rdy /\ stallOam # Never /\ oamPhase = "Idle" =>
    /\ DmcNow = "Idle" =>
         \/ Extra = 0 /\ ~NextPut
         \/ NextPut /\ stallGets > 0 /\ Extra = -1
         \/ /\ NextPut /\ stallGets > 0 /\ Extra = 1
            /\ EmptyNow \/ outputTimer > 0
    /\ DmcNow = "Halt" => Extra = 0 /\ ~NextPut
    /\ DmcNow = "Dummy" =>
         \/ Extra = 0 /\ ~NextPut
         \/ Extra = 1 /\ NextPut
         \/ Extra = 2 /\ ~NextPut /\ stallGets > 0 /\ Doomed
    /\ DmcNow = "Read" =>
         \/ Extra \in {0, 2} /\ ~NextPut
         \/ Extra = 1 /\ NextPut

TimingInv ==
  /\ TimingType /\ WindowInv /\ StopInv /\ LateInv /\ DelayInv /\ NoStall /\ InStall
  /\ FetchAlone /\ CopyCost /\ FetchAge /\ TailCost

-----------------------------------------------------------------------------
LEMMA TimingConstants ==
  /\ Never \notin Nat /\ Never # "put" /\ Never # "get"
  /\ PageSize \in Nat /\ PageSize > 1
  /\ \A period \in OutputPeriods : period \in Nat /\ period > 1
BY TimingAssumption, ConstantTypes DEF TimingAssumption

LEMMA CostOfCopy ==
  ASSUME stallOam \in {"put", "get"}
  PROVE  OamCost(stallOam) \in {2 * PageSize + 1, 2 * PageSize + 2}
BY TimingConstants DEF OamCost

(* The pin of the abort window, tick by tick, and what it shows.           *)
LEMMA WindowTicks ==
  /\ PinTick(PinForce(PinOf(TRUE), TRUE)) = PinOf(TRUE)
  /\ PinTick(PinSet(PinOf(TRUE), FALSE, 4)) = Closing(3)
  /\ PinTick(Closing(3)) = Closing(2)
  /\ PinTick(Closing(2)) = Closing(1)
  /\ PinTick(Closing(1)) = PinOf(FALSE)
  /\ PinTick(PinOf(FALSE)) = PinOf(FALSE)
<1>1. PinTick(PinForce(PinOf(TRUE), TRUE)) = PinOf(TRUE)
  BY PinRests, Zenon
<1>2. PinTick(PinSet(PinOf(TRUE), FALSE, 4)) = Closing(3)
  BY PinTaps, Zenon DEF Closing
<1>3. PinTick(Closing(3)) = Closing(2) /\ PinTick(Closing(2)) = Closing(1)
  BY PinCounts, Zenon DEF Closing
<1>4. PinTick(Closing(1)) = PinOf(FALSE) /\ PinTick(PinOf(FALSE)) = PinOf(FALSE)
  BY PinCounts, PinRests, Zenon DEF Closing
<1>5. QED
  BY <1>1, <1>2, <1>3, <1>4

LEMMA WindowShows ==
  /\ PinOf(TRUE).current /\ PinOf(TRUE).target
  /\ ~PinOf(FALSE).current /\ ~PinOf(FALSE).target
  /\ \A n : Closing(n).current /\ ~Closing(n).target
  /\ PinTap(PinOf(TRUE), 1) /\ ~PinTap(PinOf(FALSE), 1)
  /\ PinTap(Closing(3), 1) /\ PinTap(Closing(2), 1) /\ ~PinTap(Closing(1), 1)
<1>1. \A n : Closing(n).current /\ ~Closing(n).target
  BY DEF Closing
<1>2. PinTap(PinOf(TRUE), 1) /\ ~PinTap(PinOf(FALSE), 1)
  BY PinRests, Zenon
<1>3. PinTap(Closing(3), 1) /\ PinTap(Closing(2), 1) /\ ~PinTap(Closing(1), 1)
  BY PinTaps, Zenon DEF Closing
<1>4. /\ PinOf(TRUE).current /\ PinOf(TRUE).target
      /\ ~PinOf(FALSE).current /\ ~PinOf(FALSE).target
  BY PinRests, Zenon
<1>5. QED
  BY <1>1, <1>2, <1>3, <1>4

-----------------------------------------------------------------------------
(* How the time since the sample stopped moves, and the pin with it.       *)
LEMMA SinceMoves ==
  ASSUME TypeOK, TimingType, TimedPhi1
  PROVE  /\ sinceStop' \in 0..LongAgo \cup {Never}
         /\ bytesRemaining \in Nat
         /\ bytesRemaining > 0 => sinceStop' = 0
         /\ bytesRemaining = 0 /\ sinceStop \in 0..4 => sinceStop' = sinceStop + 1
         /\ bytesRemaining = 0 /\ sinceStop \notin 0..4 => sinceStop' = sinceStop
<1>1. bytesRemaining \in Nat
  BY ConstantTypes DEF TypeOK, SampleType, Counts
<1>2. sinceStop' = IF bytesRemaining > 0 THEN 0 ELSE CycleLater(sinceStop)
  BY DEF TimedPhi1
<1>3. sinceStop \in 0..5 \/ sinceStop = Never
  BY DEF TimingType, LongAgo
<1>4. sinceStop \notin 0..4 => CycleLater(sinceStop) = sinceStop
  BY DEF CycleLater, LongAgo
<1>5. sinceStop \in 0..4 => CycleLater(sinceStop) = sinceStop + 1
  BY DEF CycleLater, LongAgo
<1>6. QED
  BY <1>1, <1>2, <1>3, <1>4, <1>5 DEF LongAgo

LEMMA WindowMoves ==
  ASSUME TypeOK, TimingType, WindowInv, TimedPhi1
  PROVE  WindowInv'
<1>1. hadBytesRecently' = HadBytesPin
  BY DEF TimedPhi1, Phi1, DmaPhi1, DmaDmcPhi1
<1>2. bytesRemaining \in Nat
  BY SinceMoves
<1>3. CASE bytesRemaining > 0
  <2>1. sinceStop' = 0
    BY <1>3, SinceMoves
  <2>2. hadBytesRecently' = PinTick(PinForce(hadBytesRecently, TRUE))
    BY <1>1, <1>3 DEF HadBytesPin
  <2>3. hadBytesRecently' = PinOf(TRUE)
    BY <2>2, WindowTicks, Zenon DEF PinForce
  <2>4. QED
    BY <2>1, <2>3 DEF WindowInv, WindowAt
<1>4. CASE ~(bytesRemaining > 0)
  <2>1. /\ hadBytesRecently.target =>
             hadBytesRecently' = PinTick(PinSet(hadBytesRecently, FALSE, 4))
        /\ ~hadBytesRecently.target => hadBytesRecently' = PinTick(hadBytesRecently)
    BY <1>1, <1>4, Zenon DEF HadBytesPin
  <2>2. hadBytesRecently = PinOf(TRUE) => hadBytesRecently' = Closing(3)
    BY <2>1, WindowTicks, WindowShows, Zenon
  <2>3. hadBytesRecently = PinOf(FALSE) => hadBytesRecently' = PinOf(FALSE)
    BY <2>1, WindowTicks, WindowShows, Zenon
  <2>4. \A n : hadBytesRecently = Closing(n) => hadBytesRecently' = PinTick(Closing(n))
    BY <2>1, WindowShows, Zenon
  <2>5. /\ hadBytesRecently = Closing(3) => hadBytesRecently' = Closing(2)
        /\ hadBytesRecently = Closing(2) => hadBytesRecently' = Closing(1)
        /\ hadBytesRecently = Closing(1) => hadBytesRecently' = PinOf(FALSE)
    BY <2>4, WindowTicks, Zenon
  <2>6. bytesRemaining = 0
    BY <1>2, <1>4
  <2>7. /\ sinceStop \in 0..3 => sinceStop' = sinceStop + 1
        /\ sinceStop \notin 0..3 => sinceStop' \notin 0..3
    BY <2>6, SinceMoves
  <2>8. CASE sinceStop \in 0..3
    <3>1. CASE sinceStop = 0
      BY <2>2, <2>7, <3>1 DEF WindowInv, WindowAt
    <3>2. CASE sinceStop = 1
      BY <2>5, <2>7, <3>2 DEF WindowInv, WindowAt
    <3>3. CASE sinceStop = 2
      BY <2>5, <2>7, <3>3 DEF WindowInv, WindowAt
    <3>4. CASE sinceStop = 3
      BY <2>5, <2>7, <3>4 DEF WindowInv, WindowAt
    <3>5. QED
      BY <2>8, <3>1, <3>2, <3>3, <3>4
  <2>9. CASE sinceStop \notin 0..3
    <3>1. hadBytesRecently' = PinOf(FALSE)
      BY <2>3, <2>9 DEF WindowInv, WindowAt
    <3>2. sinceStop' # 0 /\ sinceStop' # 1 /\ sinceStop' # 2 /\ sinceStop' # 3
      BY <2>7, <2>9
    <3>3. QED
      BY <3>1, <3>2, Zenon DEF WindowInv, WindowAt
  <2>10. QED
    BY <2>8, <2>9
<1>5. QED
  BY <1>3, <1>4

(* The window is open for three cycles more, and a fetch that would begin  *)
(* in its last cycle is cancelled.                                         *)
LEMMA WindowOpen ==
  ASSUME NEW pin, NEW since, WindowAt(pin, since)
  PROVE  /\ pin.current <=> since \in 0..3
         /\ PinTap(pin, 1) <=> since \in 0..2
<1> DEFINE current == pin.current
           tap == PinTap(pin, 1)
<1>1. /\ since = 0 => current /\ tap
      /\ since = 1 => current /\ tap
      /\ since = 2 => current /\ tap
      /\ since = 3 => current /\ ~tap
      /\ since \notin 0..3 => ~current /\ ~tap
  BY WindowShows, Zenon DEF WindowAt
<1> HIDE DEF current, tap
<1>2. (current <=> since \in 0..3) /\ (tap <=> since \in 0..2)
  BY <1>1
<1>3. QED
  BY <1>2 DEF current, tap

(* What DMA::clockPhi1 decides about a fetch, in terms of that time.       *)
LEMMA DmcDecides ==
  ASSUME TypeOK, TimingType, WindowInv, TimedPhi1
  PROVE  /\ DmcScheduled <=> /\ dmcPhase = "Idle" /\ sinceStop' \in 0..3
                             /\ sampleBufferEmpty' /\ ~dmaDelay'.current
         /\ DmcAborted <=> /\ dmcPhase # "Idle" /\ dmcAbortPending
                           /\ sinceStop' \notin 0..2
<1>1. WindowAt(hadBytesRecently', sinceStop')
  BY WindowMoves DEF WindowInv
<1>2. /\ hadBytesRecently'.current <=> sinceStop' \in 0..3
      /\ PinTap(hadBytesRecently', 1) <=> sinceStop' \in 0..2
  BY <1>1, WindowOpen, Zenon
<1>3. QED
  BY <1>2, Zenon DEF DmcScheduled, DmcReadyForFetch, DmcAborted

(* Where the unit goes from each of its phases.                            *)
LEMMA DmcMoves ==
  ASSUME TypeOK, IInv, TimedPhi1
  PROVE  /\ dmcPhase = "Idle" /\ ~DmcScheduled => dmcPhase' = "Idle"
         /\ DmcScheduled =>
              /\ dmcPhase' \in {"Halt", "Dummy"} /\ dmcAbortPending'
              /\ (dmcHaltOnPut' <=> reloadOnPut')
              /\ Haltable(cpuCycle') =>
                   (dmcPhase' = "Dummy" <=> (isAPUPutCycle <=> reloadOnPut'))
         /\ ~DmcScheduled => dmcHaltOnPut' = dmcHaltOnPut
         /\ DmcAborted => dmcPhase' = "Idle"
         /\ dmcPhase = "Halt" /\ ~DmcAborted => dmcPhase' \in {"Halt", "Dummy"}
         /\ dmcPhase = "Halt" /\ ~DmcAborted /\ Haltable(cpuCycle') =>
              (dmcPhase' = "Halt" => (isAPUPutCycle <=> ~dmcHaltOnPut))
         /\ dmcPhase = "Dummy" /\ ~DmcAborted => dmcPhase' = "Read"
         /\ dmcPhase = "Read" /\ ~DmcAborted => dmcPhase' = "Read"
         /\ action' = "DMCGet" <=>
              dmcPhase = "Read" /\ ~DmcAborted /\ ~isAPUPutCycle
<1> DEFINE halts == DmcPhaseNow = "Halt" /\ dmcHaltArmed' /\ Haltable(cpuCycle')
<1>1. /\ dmcHaltOnPut' = IF DmcScheduled THEN reloadOnPut' ELSE dmcHaltOnPut
      /\ dmcAbortPending' = (DmcScheduled \/ (dmcPhase = "Idle" /\ dmcAbortPending))
      /\ dmcHaltArmed' = \/ ~DmcScheduled /\ dmcHaltArmed
                         \/ DmcPhaseNow = "Halt" /\ isAPUPutCycle = dmcHaltOnPut'
      /\ dmcPhase' = IF halts THEN "Dummy"
                     ELSE IF DmcPhaseNow = "Dummy" THEN "Read" ELSE DmcPhaseNow
  BY Zenon DEF TimedPhi1, Phi1, DmaPhi1, DmaDmcPhi1, DmcHaltsCpu
<1>2. /\ DmcScheduled => DmcPhaseNow = "Halt" /\ dmcPhase = "Idle" /\ ~DmcAborted
      /\ DmcAborted => DmcPhaseNow = "Idle" /\ ~DmcScheduled
      /\ ~DmcScheduled /\ ~DmcAborted => DmcPhaseNow = dmcPhase
  BY DEF DmcPhaseNow, DmcScheduled, DmcAborted
<1>3. action' = "DMCGet" <=> DmcPhaseNow = "Read" /\ ~isAPUPutCycle
  BY DEF TimedPhi1, Phi1, DmaPhi1, DmcTakesBus
<1>4. /\ isAPUPutCycle \in BOOLEAN /\ dmcHaltOnPut \in BOOLEAN
      /\ reloadOnPut' \in BOOLEAN
      /\ dmcPhase \in {"Idle", "Halt", "Dummy", "Read"}
  <2>1. TypeOK'
    BY Phi1Type DEF TimedPhi1
  <2>2. QED
    BY <2>1 DEF TypeOK, GlueType, DmcType, OutputType
<1> HIDE DEF halts
<1>5. CASE DmcScheduled
  <2>1. DmcPhaseNow = "Halt" /\ dmcPhase = "Idle" /\ ~DmcAborted
    BY <1>2, <1>5
  <2>2. dmcHaltOnPut' = reloadOnPut' /\ dmcAbortPending'
    BY <1>1, <1>5, Zenon
  <2>3. dmcHaltArmed' <=> (isAPUPutCycle <=> reloadOnPut')
    BY <1>1, <1>4, <1>5, <2>1, <2>2
  <2>4. halts <=> dmcHaltArmed' /\ Haltable(cpuCycle')
    BY <2>1 DEF halts
  <2>5. dmcPhase' = IF halts THEN "Dummy" ELSE "Halt"
    BY <1>1, <2>1
  <2>6. QED
    BY <1>3, <1>5, <2>1, <2>2, <2>3, <2>4, <2>5
<1>6. CASE DmcAborted
  <2>1. DmcPhaseNow = "Idle" /\ ~DmcScheduled /\ dmcPhase # "Idle"
    BY <1>2, <1>6 DEF DmcAborted
  <2>2. ~halts
    BY <2>1 DEF halts
  <2>3. dmcPhase' = "Idle" /\ dmcHaltOnPut' = dmcHaltOnPut
    BY <1>1, <2>1, <2>2, Zenon
  <2>4. QED
    BY <1>3, <1>6, <2>1, <2>3
<1>7. CASE ~DmcScheduled /\ ~DmcAborted
  <2>1. DmcPhaseNow = dmcPhase
    BY <1>2, <1>7
  <2>2. dmcHaltOnPut' = dmcHaltOnPut
    BY <1>1, <1>7, Zenon
  <2>3. /\ dmcPhase = "Halt" => (dmcPhase' = IF halts THEN "Dummy" ELSE "Halt")
        /\ dmcPhase = "Dummy" => dmcPhase' = "Read"
        /\ dmcPhase = "Read" => dmcPhase' = "Read"
        /\ dmcPhase = "Idle" => dmcPhase' = "Idle"
    BY <1>1, <2>1 DEF halts
  <2>4. dmcPhase = "Halt" /\ (isAPUPutCycle <=> dmcHaltOnPut) => dmcHaltArmed'
    BY <1>1, <1>4, <2>1, <2>2
  <2>5. dmcPhase = "Halt" /\ Haltable(cpuCycle') /\ dmcHaltArmed' => halts
    BY <2>1 DEF halts
  <2>6. dmcPhase = "Halt" /\ Haltable(cpuCycle') /\ dmcPhase' = "Halt" =>
          (isAPUPutCycle <=> ~dmcHaltOnPut)
    BY <1>4, <2>3, <2>4, <2>5
  <2>7. QED
    BY <1>3, <1>7, <2>1, <2>2, <2>3, <2>6
<1>8. QED
  BY <1>5, <1>6, <1>7

-----------------------------------------------------------------------------
(* The steps between two Phi1 finish what the last one decided.            *)
LEMMA RestKeeps ==
  ASSUME TimedRest
  PROVE  /\ UNCHANGED <<rdy, action, hadBytesRecently, dmcAbortPending,
                        dmcHaltOnPut, outputTimer, stallVars, sampleTimes>>
         /\ dmcPhase' = dmcPhase \/ dmcPhase' = "Idle"
<1>1. UNCHANGED <<stallVars, sampleTimes>>
  BY DEF TimedRest
<1>2. CASE NoWrite \/ CallPlay \/ InitSong
  BY <1>1, <1>2 DEF NoWrite, CallPlay, InitSong, CpuJumps, dmcVars, outputVars
<1>3. CASE Write
  <2>1. CpuWriting /\ UNCHANGED outputTimer
    BY <1>3 DEF Write, WriteOther, WriteOAMDMA, WriteDmcFlags, WriteDmcLength,
                StartSample, StopSample, outputVars
  <2>2. QED
    BY <1>1, <2>1 DEF CpuWriting, dmcVars
<1>4. CASE Phi2
  <2>1. EndCycle /\ (dmcPhase' = dmcPhase \/ dmcPhase' = "Idle")
    BY <1>4 DEF Phi2, NoAccess, DMCGet, OAMGet, OAMPut
  <2>2. QED
    BY <1>1, <2>1 DEF EndCycle
<1>5. QED
  BY <1>2, <1>3, <1>4 DEF TimedRest

LEMMA NowKept ==
  ASSUME TypeOK, IInv, TimedRest
  PROVE  /\ DmcNow' = DmcNow
         /\ NextPut' <=> NextPut
         /\ EmptyNow' <=> EmptyNow
         /\ bytesRemaining = 0 /\ ~rdy /\ (DmcNow # "Idle" \/ EmptyNow)
              => bytesRemaining' = 0
<1>1. CASE NoWrite
  BY <1>1 DEF NoWrite, DmcNow, NextPut, EmptyNow, Fetching, dmcVars, sampleVars,
              outputVars
<1>2. CASE CallPlay \/ InitSong
  <2>1. CpuJumps /\ (bytesRemaining' = bytesRemaining \/ bytesRemaining' = 0)
    BY <1>2 DEF CallPlay, InitSong, sampleVars
  <2>2. QED
    BY <2>1 DEF CpuJumps, DmcNow, NextPut, EmptyNow, Fetching, dmcVars, outputVars
<1>3. CASE Write
  <2>1. CpuWriting /\ UNCHANGED sampleBufferEmpty
    BY <1>3 DEF Write, WriteOther, WriteOAMDMA, WriteDmcFlags, WriteDmcLength,
                StartSample, StopSample, outputVars
  <2>2. rdy
    BY <2>1 DEF CpuWriting, IInv, HoldInv, Haltable
  <2>3. QED
    BY <2>1, <2>2 DEF CpuWriting, DmcNow, NextPut, EmptyNow, Fetching, dmcVars
<1>4. CASE Phi2 /\ ~DMCGet
  <2>1. /\ EndCycle /\ action # "DMCGet"
        /\ UNCHANGED <<dmcPhase, bytesRemaining, sampleBufferEmpty>>
    BY <1>4 DEF Phi2, NoAccess, OAMGet, OAMPut
  <2>2. QED
    BY <2>1 DEF EndCycle, DmcNow, NextPut, EmptyNow, Fetching, TypeOK, GlueType
<1>5. CASE DMCGet
  <2>1. EndCycle /\ action = "DMCGet" /\ dmcPhase' = "Idle"
    BY <1>5 DEF DMCGet
  <2>2. DmcNow' = "Idle" /\ DmcNow = "Idle"
    BY <2>1 DEF EndCycle, DmcNow, Fetching
  <2>3. NextPut' <=> NextPut
    BY <2>1 DEF EndCycle, NextPut, TypeOK, GlueType
  <2>4. EmptyNow' <=> sampleBufferEmpty'
    BY <2>1 DEF EndCycle, EmptyNow, Fetching
  <2>5. EmptyNow <=> bytesRemaining = 0
    BY <2>1 DEF EndCycle, EmptyNow, Fetching
  <2>6. sampleBufferEmpty
    BY <2>1 DEF EndCycle, IInv, AccessInv, NoSampleOverwritten
  <2>7. /\ bytesRemaining = 0 => UNCHANGED <<sampleBufferEmpty, bytesRemaining>>
        /\ bytesRemaining # 0 => sampleBufferEmpty' = FALSE
    BY <1>5 DEF DMCGet, LoadSampleBuffer
  <2>8. EmptyNow' <=> EmptyNow
    BY <2>4, <2>5, <2>6, <2>7, Zenon
  <2>9. QED
    BY <2>2, <2>3, <2>7, <2>8
<1>6. QED
  BY <1>1, <1>2, <1>3, <1>4, <1>5 DEF TimedRest

-----------------------------------------------------------------------------
(* The abort window.                                                       *)
LEMMA StopPhi1 ==
  ASSUME TypeOK, IInv, TimingType, WindowInv, StopInv, TimedPhi1
  PROVE  StopInv'
<1>1. dmcPhase' # "Idle" => sinceStop' # Never
  <2>1. CASE DmcScheduled
    BY <2>1, DmcDecides, TimingConstants
  <2>2. CASE ~DmcScheduled
    <3>1. dmcPhase' # "Idle" => dmcPhase # "Idle"
      BY <2>2, DmcMoves
    <3>2. sinceStop # Never => sinceStop' # Never
      BY SinceMoves, TimingConstants
    <3>3. QED
      BY <3>1, <3>2 DEF StopInv
  <2>3. QED
    BY <2>1, <2>2
<1>2. dmcPhase' # "Idle" /\ dmcAbortPending' =>
        sinceStop' \in 0..3 /\ dmcPhase' \in {"Halt", "Dummy"}
  <2>1. CASE DmcScheduled
    BY <2>1, DmcDecides, DmcMoves
  <2>2. CASE ~DmcScheduled
    <3>1. dmcAbortPending' => dmcPhase = "Idle"
      BY <2>2 DEF TimedPhi1, Phi1, DmaPhi1, DmaDmcPhi1
    <3>2. QED
      BY <2>2, <3>1, DmcMoves
  <2>3. QED
    BY <2>1, <2>2
<1>3. QED
  BY <1>1, <1>2 DEF StopInv

LEMMA StopRest ==
  ASSUME WindowInv, StopInv, TimedRest
  PROVE  WindowInv' /\ StopInv'
BY RestKeeps DEF WindowInv, StopInv, sampleTimes

(* A fetch scheduled two or three cycles after its sample ended is dropped *)
(* one cycle later, and only that one.                                     *)
LEMMA WindowDecides ==
  ASSUME TypeOK, TimingType, WindowInv, StopInv, TimedPhi1
  PROVE  /\ DmcScheduled => sinceStop' <= 3
         /\ dmcPhase # "Idle" /\ dmcAbortPending =>
              (DmcAborted <=> sinceStop' \in {3, 4})
<1>1. DmcScheduled => sinceStop' <= 3
  <2>1. DmcScheduled => sinceStop' \in 0..3
    BY DmcDecides
  <2>2. QED
    BY <2>1
<1>2. ASSUME dmcPhase # "Idle", dmcAbortPending
      PROVE  DmcAborted <=> sinceStop' \in {3, 4}
  <2>1. sinceStop \in 0..3
    BY <1>2 DEF StopInv
  <2>2. sinceStop' \in 0..4
    BY <2>1, SinceMoves
  <2>3. DmcAborted <=> sinceStop' \notin 0..2
    BY <1>2, DmcDecides
  <2>4. QED
    BY <2>2, <2>3
<1>3. QED
  BY <1>1, <1>2

-----------------------------------------------------------------------------
(* A sample that has ended takes at most one more fetch.                   *)
LEMMA LatePhi1 ==
  ASSUME TypeOK, IInv, TimingType, WindowInv, StopInv, LateInv, TimedPhi1
  PROVE  LateInv'
<1>1. lateGets' = IF bytesRemaining > 0 THEN 0
                  ELSE IF action' = "DMCGet" THEN lateGets + 1 ELSE lateGets
  BY DEF TimedPhi1
<1>2. phase = "phi1" /\ phase' = "phi2w"
  BY DEF TimedPhi1, Phi1
<1>3. DmcNow = dmcPhase /\ DmcNow' = IF action' = "DMCGet" THEN "Idle" ELSE dmcPhase'
  BY <1>2 DEF DmcNow, Fetching
<1>4. CASE bytesRemaining > 0
  BY <1>1, <1>4 DEF LateInv
<1>5. CASE bytesRemaining = 0 /\ action' = "DMCGet"
  <2>1. dmcPhase = "Read"
    BY <1>5, DmcMoves
  <2>2. ~(dmcAbortPending /\ dmcPhase # "Idle")
    BY <2>1 DEF StopInv
  <2>3. lateGets = 0
    BY <1>3, <2>1, <2>2 DEF LateInv
  <2>4. sinceStop # Never
    BY <2>1 DEF StopInv
  <2>5. sinceStop' \in 1..LongAgo
    BY <1>5, <2>4, SinceMoves DEF TimingType, LongAgo
  <2>6. QED
    BY <1>1, <1>3, <1>5, <2>3, <2>5 DEF LateInv
<1>6. CASE bytesRemaining = 0 /\ action' # "DMCGet"
  <2>1. lateGets' = lateGets
    BY <1>1, <1>6
  <2>2. SUFFICES ASSUME lateGets = 1
                 PROVE  /\ sinceStop' \in 1..LongAgo
                        /\ dmcPhase' # "Idle" => dmcAbortPending' /\ sinceStop' \in {2, 3}
    BY <1>3, <1>6, <2>1 DEF LateInv
  <2>3. sinceStop \in 1..5
    BY <2>2 DEF LateInv, LongAgo
  <2>4. sinceStop' \in 1..LongAgo /\ (sinceStop' \in 0..3 => sinceStop' \in {2, 3})
    BY <1>6, <2>3, SinceMoves DEF LongAgo
  <2>5. CASE DmcScheduled
    BY <2>4, <2>5, DmcDecides, DmcMoves
  <2>6. CASE dmcPhase # "Idle"
    <3>1. dmcAbortPending /\ sinceStop \in {2, 3}
      BY <1>3, <2>2, <2>6 DEF LateInv
    <3>2. sinceStop' \notin 0..2
      BY <1>6, <3>1, SinceMoves
    <3>3. dmcPhase' = "Idle"
      BY <2>6, <3>1, <3>2, DmcDecides, DmcMoves
    <3>4. QED
      BY <2>4, <3>3
  <2>7. CASE dmcPhase = "Idle" /\ ~DmcScheduled
    BY <2>4, <2>7, DmcMoves
  <2>8. QED
    BY <2>5, <2>6, <2>7
<1>7. QED
  BY <1>4, <1>5, <1>6, SinceMoves

LEMMA LateRest ==
  ASSUME TypeOK, IInv, LateInv, TimedRest
  PROVE  LateInv'
BY RestKeeps, NowKept DEF LateInv, sampleTimes

-----------------------------------------------------------------------------
(* The load delay of a started sample.                                     *)
LEMMA ClosingDiffers ==
  /\ \A n : Closing(n) # PinOf(FALSE)
  /\ \A m, n : Closing(m) = Closing(n) => m = n
<1>1. \A n : Closing(n) # PinOf(FALSE)
  <2>1. \A n : Closing(n).current /\ ~PinOf(FALSE).current
    BY WindowShows
  <2>2. QED
    BY <2>1, Zenon
<1>2. ASSUME NEW m, NEW n, Closing(m) = Closing(n)
      PROVE  m = n
  <2>1. Closing(m).countdown = m /\ Closing(n).countdown = n
    BY DEF Closing
  <2>2. QED
    BY <1>2, <2>1, Zenon
<1>3. QED
  BY <1>1, <1>2, Zenon

LEMMA DelayPhi1 ==
  ASSUME TypeOK, DelayInv, TimedPhi1
  PROVE  /\ DelayInv'
         /\ dmaDelay = PinOf(FALSE) => dmaDelay' = PinOf(FALSE)
         /\ dmaDelay = Closing(1) => dmaDelay' = PinOf(FALSE)
         /\ dmaDelay = Closing(2) => dmaDelay' = Closing(1)
         /\ dmaDelay = Closing(3) => dmaDelay' = Closing(2)
         /\ dmaDelay'.current <=> dmaDelay' # PinOf(FALSE)
<1>1. dmaDelay' = PinTick(dmaDelay)
  BY DEF TimedPhi1, Phi1, ApuPhi1
<1>2. /\ dmaDelay = PinOf(FALSE) => dmaDelay' = PinOf(FALSE)
      /\ dmaDelay = Closing(1) => dmaDelay' = PinOf(FALSE)
      /\ dmaDelay = Closing(2) => dmaDelay' = Closing(1)
      /\ dmaDelay = Closing(3) => dmaDelay' = Closing(2)
  BY <1>1, WindowTicks, Zenon
<1>3. dmaDelay' \in {PinOf(FALSE), Closing(1), Closing(2)}
  BY <1>2, Zenon DEF DelayInv
<1>4. dmaDelay'.current <=> dmaDelay' # PinOf(FALSE)
  <2>1. dmaDelay' = PinOf(FALSE) => ~dmaDelay'.current
    BY WindowShows, Zenon
  <2>2. \A n : dmaDelay' = Closing(n) => dmaDelay'.current /\ dmaDelay' # PinOf(FALSE)
    BY WindowShows, ClosingDiffers, Zenon
  <2>3. QED
    BY <1>3, <2>1, <2>2, Zenon
<1>5. dmaDelay' # PinOf(FALSE) => ~reloadOnPut'
  <2>1. ASSUME dmaDelay' # PinOf(FALSE)
        PROVE  ~reloadOnPut'
    <3>1. dmaDelay # PinOf(FALSE)
      BY <1>2, <2>1
    <3>2. ~reloadOnPut
      BY <3>1, Zenon DEF DelayInv
    <3>3. dmaDelay'.current
      BY <1>4, <2>1
    <3>4. \/ reloadOnPut' = (reloadOnPut \/ ~dmaDelay'.current)
          \/ reloadOnPut' = reloadOnPut
      BY Zenon DEF TimedPhi1, Phi1, ApuPhi1
    <3>5. QED
      BY <3>2, <3>3, <3>4, Zenon
  <2>2. QED
    BY <2>1
<1>6. DelayInv'
  BY <1>3, <1>5, Zenon DEF DelayInv
<1>7. QED
  BY <1>2, <1>4, <1>6, Zenon

LEMMA DelayRest ==
  ASSUME DelayInv, TimedRest
  PROVE  DelayInv'
<1>1. CASE UNCHANGED <<dmaDelay, reloadOnPut>>
  BY <1>1, Zenon DEF DelayInv
<1>2. CASE StartSample /\ bytesRemaining = 0
  <2>1. /\ dmaDelay' = PinSet(PinForce(dmaDelay, TRUE), FALSE, 3)
        /\ reloadOnPut' = FALSE
    BY <1>2 DEF StartSample
  <2>2. dmaDelay' = Closing(3)
    <3>1. dmaDelay' = PinSet(PinOf(TRUE), FALSE, 3)
      BY <2>1, Zenon DEF PinForce
    <3>2. PinSet(PinOf(TRUE), FALSE, 3) = Closing(3)
      BY PinCounts, Zenon DEF Closing
    <3>3. QED
      BY <3>1, <3>2, Zenon
  <2>3. QED
    BY <2>1, <2>2, Zenon DEF DelayInv
<1>3. Write => \/ UNCHANGED <<dmaDelay, reloadOnPut>>
               \/ StartSample /\ bytesRemaining = 0
  BY DEF Write, WriteOther, WriteOAMDMA, WriteDmcFlags, WriteDmcLength,
         StartSample, StopSample, outputVars
<1>4. NoWrite \/ CallPlay \/ InitSong \/ Phi2 => UNCHANGED <<dmaDelay, reloadOnPut>>
  BY DEF NoWrite, CallPlay, InitSong, CpuJumps, Phi2, NoAccess, DMCGet, OAMGet,
         OAMPut, EndCycle, outputVars
<1>5. QED
  BY <1>1, <1>2, <1>3, <1>4 DEF TimedRest

(* What the output unit does to the buffer, the reload side and its timer. *)
LEMMA OutputMoves ==
  ASSUME TypeOK, TimedPhi1
  PROVE  /\ sampleBufferEmpty' <=> sampleBufferEmpty \/ OutputCycleEnds
         /\ OutputCycleEnds =>
              /\ isAPUPutCycle /\ outputTimer = 0
              /\ outputTimer' \in Nat /\ outputTimer' > 1
         /\ ~OutputCycleEnds /\ isAPUPutCycle =>
              outputTimer > 0 /\ outputTimer' = outputTimer - 1
         /\ ~OutputCycleEnds /\ ~isAPUPutCycle => outputTimer' = outputTimer
         /\ sampleBufferEmpty => (reloadOnPut' <=> reloadOnPut)
         /\ ~sampleBufferEmpty /\ OutputCycleEnds /\ ~dmaDelay'.current => reloadOnPut'
         /\ outputTimer \in Nat
<1>1. /\ IF OutputCycleEnds THEN outputTimer' \in OutputPeriods
         ELSE outputTimer' = IF isAPUPutCycle THEN outputTimer - 1 ELSE outputTimer
      /\ IF OutputCycleEnds /\ ~sampleBufferEmpty
         THEN /\ sampleBufferEmpty' = TRUE
              /\ reloadOnPut' = (reloadOnPut \/ ~dmaDelay'.current)
         ELSE UNCHANGED <<sampleBufferEmpty, reloadOnPut>>
  BY DEF TimedPhi1, Phi1, ApuPhi1
<1>2. outputTimer \in Nat
  BY DEF TypeOK, OutputType
<1>3. OutputCycleEnds => /\ isAPUPutCycle /\ outputTimer = 0
                         /\ outputTimer' \in Nat /\ outputTimer' > 1
  BY <1>1, TimingConstants DEF OutputCycleEnds
<1>4. /\ ~OutputCycleEnds /\ isAPUPutCycle =>
           outputTimer > 0 /\ outputTimer' = outputTimer - 1
      /\ ~OutputCycleEnds /\ ~isAPUPutCycle => outputTimer' = outputTimer
  BY <1>1, <1>2 DEF OutputCycleEnds
<1>5. /\ sampleBufferEmpty' <=> sampleBufferEmpty \/ OutputCycleEnds
      /\ sampleBufferEmpty => (reloadOnPut' <=> reloadOnPut)
      /\ ~sampleBufferEmpty /\ OutputCycleEnds /\ ~dmaDelay'.current => reloadOnPut'
  <2>1. CASE OutputCycleEnds /\ ~sampleBufferEmpty
    <3>1. sampleBufferEmpty' = TRUE /\ reloadOnPut' = (reloadOnPut \/ ~dmaDelay'.current)
      BY <1>1, <2>1, Zenon
    <3>2. QED
      BY <2>1, <3>1, Zenon
  <2>2. CASE ~(OutputCycleEnds /\ ~sampleBufferEmpty)
    <3>1. sampleBufferEmpty' = sampleBufferEmpty /\ reloadOnPut' = reloadOnPut
      BY <1>1, <2>2, Zenon
    <3>2. QED
      BY <2>2, <3>1, Zenon
  <2>3. QED
    BY <2>1, <2>2, Zenon
<1>6. QED
  BY <1>2, <1>3, <1>4, <1>5, Zenon

-----------------------------------------------------------------------------
(* Phi1 as the measured quantities see it.                                 *)
LEMMA Phi1Frame ==
  ASSUME TimedPhi1
  PROVE  /\ phase = "phi1" /\ phase' = "phi2w"
         /\ UNCHANGED <<isAPUPutCycle, oamIndex, bytesRemaining>>
         /\ rdy' <=> ~(oamPhase' = "Transfer" \/ dmcPhase' \in {"Dummy", "Read"})
BY DEF TimedPhi1, Phi1, ApuPhi1, DmaPhi1, DmaOamPhi1, sampleVars

LEMMA NowAtPhi1 ==
  ASSUME TimedPhi1
  PROVE  /\ DmcNow = dmcPhase
         /\ DmcNow' = IF action' = "DMCGet" THEN "Idle" ELSE dmcPhase'
         /\ EmptyNow <=> sampleBufferEmpty
         /\ action' = "DMCGet" => (EmptyNow' <=> bytesRemaining' = 0)
         /\ action' # "DMCGet" => (EmptyNow' <=> sampleBufferEmpty')
         /\ NextPut <=> isAPUPutCycle
         /\ NextPut' <=> ~isAPUPutCycle'
BY Phi1Frame DEF DmcNow, EmptyNow, NextPut, Fetching

LEMMA StallMoves ==
  ASSUME TimedPhi1
  PROVE  /\ rdy' => /\ stall' = 0 /\ stallOam' = Never
                    /\ stallGets' = 0 /\ stallAborts' = 0
         /\ ~rdy' =>
              /\ stall' = stall + 1
              /\ stallGets' = IF action' = "DMCGet" THEN stallGets + 1 ELSE stallGets
              /\ stallAborts' = IF DmcAborted THEN stallAborts + 1 ELSE stallAborts
              /\ IF oamPhase = "Halt" /\ oamPhase' = "Transfer"
                 THEN stallOam' = IF isAPUPutCycle THEN "put" ELSE "get"
                 ELSE stallOam' = stallOam
BY DEF TimedPhi1, CountStall

LEMMA OamMoves ==
  ASSUME TypeOK, IInv, TimedPhi1
  PROVE  /\ ~rdy => /\ Haltable(cpuCycle') /\ oamPhase # "Halt"
                    /\ oamPhase' = oamPhase /\ oamHasByte' = oamHasByte
         /\ rdy => /\ oamPhase # "Transfer" /\ dmcPhase \in {"Idle", "Halt"}
                   /\ oamPhase' = "Transfer" =>
                        oamPhase = "Halt" /\ oamIndex = 0 /\ ~oamHasByte'
         /\ ~rdy' => Haltable(cpuCycle') /\ oamPhase' # "Halt"
         /\ action' \in {"None", "DMCGet", "OAMGet", "OAMPut"}
         /\ action' = "OAMGet" <=> /\ oamPhase = "Transfer" /\ ~oamHasByte
                                   /\ ~isAPUPutCycle /\ action' # "DMCGet"
         /\ action' = "OAMPut" <=> oamPhase = "Transfer" /\ oamHasByte /\ isAPUPutCycle
<1>1. ApuPhi1 /\ CpuPhi1 /\ DmaPhi1 /\ DmaDmcPhi1 /\ DmaOamPhi1
  BY DEF TimedPhi1, Phi1, DmaPhi1
<1>2. HoldInv' /\ HoldInv
  BY Phi1Hold DEF TimedPhi1, IInv
<1>3. ~rdy => /\ Haltable(cpuCycle') /\ oamPhase # "Halt"
              /\ oamPhase' = oamPhase /\ oamHasByte' = oamHasByte
  <2>1. SUFFICES ASSUME ~rdy
                 PROVE  /\ Haltable(cpuCycle') /\ oamPhase # "Halt"
                        /\ oamPhase' = oamPhase /\ oamHasByte' = oamHasByte
    OBVIOUS
  <2>2. Haltable(cpuCycle) /\ oamPhase # "Halt"
    BY <1>2, <2>1 DEF HoldInv
  <2>3. Haltable(cpuCycle')
    BY <1>1, <2>1, <2>2 DEF CpuPhi1, CpuStalled, cpuVars, Haltable
  <2>4. oamPhase' = oamPhase
    BY <1>1, <2>2 DEF DmaOamPhi1
  <2>5. oamHasByte' = (oamHasByte /\ oamPhase' = oamPhase) /\ oamHasByte \in BOOLEAN
    BY <1>1, Zenon DEF DmaOamPhi1, TypeOK, OamType
  <2>6. oamHasByte' = oamHasByte
    BY <2>4, <2>5, Zenon
  <2>7. QED
    BY <2>2, <2>3, <2>4, <2>6
<1>4. rdy => oamPhase # "Transfer" /\ dmcPhase \in {"Idle", "Halt"}
  BY <1>2 DEF HoldInv, TypeOK, DmcType
<1>5. rdy /\ oamPhase' = "Transfer" => oamPhase = "Halt" /\ oamIndex = 0 /\ ~oamHasByte'
  BY <1>1, <1>4 DEF DmaOamPhi1, IInv, CopyInv
<1>6. ~rdy' => Haltable(cpuCycle') /\ oamPhase' # "Halt"
  BY <1>2 DEF HoldInv, Haltable
<1>7. /\ action' \in {"None", "DMCGet", "OAMGet", "OAMPut"}
      /\ action' = "OAMGet" <=> /\ oamPhase = "Transfer" /\ ~oamHasByte
                                /\ ~isAPUPutCycle /\ action' # "DMCGet"
      /\ action' = "OAMPut" <=> oamPhase = "Transfer" /\ oamHasByte /\ isAPUPutCycle
  BY <1>1 DEF DmaPhi1, DmcTakesBus, OamGets, OamPuts
<1>8. QED
  BY <1>3, <1>4, <1>5, <1>6, <1>7

LEMMA TimingTypePhi1 ==
  ASSUME TypeOK, TimingType, TimedPhi1
  PROVE  TimingType'
<1>1. stall' \in Nat /\ stallGets' \in Nat /\ stallAborts' \in Nat
  BY StallMoves DEF TimingType
<1>2. stallOam' \in {Never, "put", "get"}
  BY StallMoves DEF TimingType
<1>3. sinceStop' \in 0..LongAgo \cup {Never}
  BY SinceMoves
<1>4. lateGets' \in Nat
  BY DEF TimedPhi1, TimingType
<1>5. QED
  BY <1>1, <1>2, <1>3, <1>4 DEF TimingType

LEMMA StallPhi1 ==
  ASSUME TypeOK, IInv, TimingType, InStall, TimedPhi1
  PROVE  NoStall' /\ InStall'
<1>1. NoStall'
  BY StallMoves DEF NoStall
<1>2. ~rdy' => stall' > 0
  BY StallMoves DEF TimingType
<1>3. ~rdy' /\ oamPhase' = "Transfer" => stallOam' # Never
  <2>1. CASE rdy
    BY <2>1, OamMoves, StallMoves, TimingConstants
  <2>2. CASE ~rdy
    BY <2>2, OamMoves, StallMoves DEF InStall
  <2>3. QED
    BY <2>1, <2>2
<1>4. ~rdy' /\ oamPhase' = "Idle" => DmcNow' # "Halt"
  BY Phi1Frame, NowAtPhi1
<1>5. QED
  BY <1>1, <1>2, <1>3, <1>4 DEF InStall

(* A stall that begins without OAM DMA begins with a dummy cycle.          *)
LEMMA StallBegins ==
  ASSUME TypeOK, IInv, StopInv, NoStall, TimedPhi1, rdy, ~rdy'
  PROVE  /\ stall' = 1 /\ stallGets' = 0 /\ action' # "DMCGet"
         /\ dmcPhase' \in {"Idle", "Halt", "Dummy"}
         /\ oamPhase' = "Transfer" => stallOam' = IF isAPUPutCycle THEN "put" ELSE "get"
         /\ oamPhase' # "Transfer" =>
              stallOam' = Never /\ dmcPhase' = "Dummy" /\ stallAborts' = 0
<1>1. dmcPhase \in {"Idle", "Halt"}
  BY OamMoves
<1>2. action' # "DMCGet" /\ dmcPhase' \in {"Idle", "Halt", "Dummy"}
  BY <1>1, DmcMoves
<1>3. stall' = 1 /\ stallGets' = 0
  BY <1>2, StallMoves DEF NoStall
<1>4. oamPhase' = "Transfer" => stallOam' = IF isAPUPutCycle THEN "put" ELSE "get"
  BY OamMoves, StallMoves
<1>5. ASSUME oamPhase' # "Transfer"
      PROVE  stallOam' = Never /\ dmcPhase' = "Dummy" /\ stallAborts' = 0
  <2>1. dmcPhase' = "Dummy"
    BY <1>2, <1>5, Phi1Frame
  <2>2. ~DmcAborted
    BY <2>1, DmcMoves
  <2>3. QED
    BY <1>5, <2>1, <2>2, StallMoves DEF NoStall
<1>6. QED
  BY <1>2, <1>3, <1>4, <1>5

LEMMA FetchAlonePhi1 ==
  ASSUME TypeOK, IInv, TimingType, StopInv, NoStall, InStall, FetchAlone, TimedPhi1
  PROVE  FetchAlone'
<1>1. CASE rdy /\ ~rdy'
  <2>1. stallOam' = Never => /\ stall' = 1 /\ stallGets' = 0 /\ stallAborts' = 0
                             /\ dmcPhase' = "Dummy" /\ action' # "DMCGet"
    BY <1>1, StallBegins, TimingConstants
  <2>2. stallOam' = Never => DmcNow' = "Dummy"
    BY <2>1, NowAtPhi1
  <2>3. QED
    BY <2>1, <2>2 DEF FetchAlone
<1>2. CASE ~rdy /\ ~rdy' /\ stallOam' = Never
  <2>1. stallOam = Never /\ stall' = stall + 1
    BY <1>2, OamMoves, StallMoves
  <2>2. oamPhase # "Transfer" /\ oamPhase # "Halt" /\ oamPhase' = oamPhase
    BY <1>2, <2>1, OamMoves DEF InStall
  <2>3. dmcPhase' \in {"Dummy", "Read"}
    BY <1>2, <2>2, Phi1Frame
  <2>4. ~DmcAborted
    BY <2>3, DmcMoves
  <2>5. stallAborts' = 0
    BY <1>2, <2>1, <2>4, StallMoves DEF FetchAlone
  <2>6. oamPhase = "Idle"
    BY <2>2 DEF TypeOK, OamType
  <2>7. dmcPhase # "Halt"
    BY <1>2, <2>1, <2>6, NowAtPhi1 DEF InStall
  <2>8. stall \in Nat /\ stallGets \in Nat
    BY DEF TimingType
  <2>9. CASE dmcPhase = "Idle"
    <3>1. dmcPhase' = "Dummy" /\ action' # "DMCGet"
      BY <2>3, <2>9, DmcMoves
    <3>2. DmcNow' = "Dummy" /\ stallGets' = stallGets
      BY <1>2, <3>1, NowAtPhi1, StallMoves
    <3>3. stall \in 3 * stallGets .. 4 * stallGets
      BY <1>2, <2>1, <2>9, NowAtPhi1 DEF FetchAlone
    <3>4. stall' \in 3 * stallGets' + 1 .. 4 * stallGets' + 1
      BY <2>1, <2>8, <3>2, <3>3
    <3>5. QED
      BY <2>5, <3>2, <3>4 DEF FetchAlone
  <2>10. CASE dmcPhase = "Dummy"
    <3>1. dmcPhase' = "Read" /\ action' # "DMCGet"
      BY <2>4, <2>10, DmcMoves
    <3>2. DmcNow' = "Read" /\ stallGets' = stallGets
      BY <1>2, <3>1, NowAtPhi1, StallMoves
    <3>3. stall \in 3 * stallGets + 1 .. 4 * stallGets + 1
      BY <1>2, <2>1, <2>10, NowAtPhi1 DEF FetchAlone
    <3>4. stall' \in 3 * stallGets' + 2 .. 4 * stallGets' + 2
      BY <2>1, <2>8, <3>2, <3>3
    <3>5. QED
      BY <2>5, <3>2, <3>4 DEF FetchAlone
  <2>11. CASE dmcPhase = "Read"
    <3>1. \/ stall \in 3 * stallGets + 2 .. 4 * stallGets + 2
          \/ stall \in 3 * stallGets + 3 .. 4 * stallGets + 3 /\ ~NextPut
      BY <1>2, <2>1, <2>11, NowAtPhi1 DEF FetchAlone
    <3>2. CASE isAPUPutCycle
      <4>1. action' # "DMCGet" /\ dmcPhase' = "Read"
        BY <2>4, <2>11, <3>2, DmcMoves
      <4>2. DmcNow' = "Read" /\ stallGets' = stallGets /\ ~NextPut'
        BY <1>2, <3>2, <4>1, NowAtPhi1, StallMoves, Phi1Frame
      <4>3. stall' \in 3 * stallGets' + 3 .. 4 * stallGets' + 3
        BY <2>1, <2>8, <3>1, <3>2, <4>2, NowAtPhi1
      <4>4. QED
        BY <2>5, <4>2, <4>3 DEF FetchAlone
    <3>3. CASE ~isAPUPutCycle
      <4>1. action' = "DMCGet"
        BY <2>4, <2>11, <3>3, DmcMoves
      <4>2. DmcNow' = "Idle" /\ stallGets' = stallGets + 1
        BY <1>2, <4>1, NowAtPhi1, StallMoves
      <4>3. stall' \in 3 * stallGets' .. 4 * stallGets'
        BY <2>1, <2>8, <3>1, <4>2
      <4>4. QED
        BY <2>5, <4>2, <4>3 DEF FetchAlone
    <3>4. QED
      BY <3>2, <3>3
  <2>12. QED
    BY <2>7, <2>9, <2>10, <2>11 DEF TypeOK, DmcType
<1>3. QED
  BY <1>1, <1>2 DEF FetchAlone

LEMMA CopyCostPhi1 ==
  ASSUME TypeOK, IInv, TimingType, StopInv, NoStall, InStall, CopyCost, TimedPhi1
  PROVE  CopyCost'
<1>1. phase = "phi1" /\ phase' = "phi2w" /\ oamIndex' = oamIndex
      /\ (isAPUPutCycle' <=> isAPUPutCycle)
  BY Phi1Frame
<1>2. SUFFICES ASSUME oamPhase' = "Transfer"
               PROVE  /\ oamHasByte' => action' = "OAMPut"
                      /\ action' # "None" => (isAPUPutCycle' <=> action' = "OAMPut")
                      /\ stall' = OamCost(stallOam') - 2 * (PageSize - oamIndex)
                                    + 2 * stallGets' + ByteSteps'
  BY <1>1 DEF CopyCost
<1>3. ~rdy'
  BY <1>2, Phi1Frame
<1>4. /\ stall \in Nat /\ stallGets \in Nat /\ oamIndex \in Nat /\ PageSize \in Nat
      /\ stallOam' \in {"put", "get"}
  <2>1. stallOam' # Never
    BY <1>2, <1>3, StallPhi1 DEF InStall
  <2>2. QED
    BY <2>1, TimingTypePhi1, TimingConstants DEF TimingType, TypeOK, OamType
<1>5. ByteSteps' = IF action' = "OAMGet" THEN 1 ELSE IF action' = "OAMPut" THEN 2
                   ELSE IF isAPUPutCycle THEN 0 ELSE -1
  BY <1>1 DEF ByteSteps
<1>6. action' # "None" => (isAPUPutCycle' <=> action' = "OAMPut")
  BY <1>1, OamMoves, DmcMoves
<1>7. CASE rdy
  <2>1. /\ oamPhase # "Transfer" /\ oamIndex = 0 /\ ~oamHasByte'
        /\ stall' = 1 /\ stallGets' = 0 /\ action' # "DMCGet"
        /\ stallOam' = IF isAPUPutCycle THEN "put" ELSE "get"
    BY <1>2, <1>3, <1>7, OamMoves, StallBegins
  <2>2. action' = "None"
    BY <2>1, OamMoves
  <2>3. OamCost(stallOam') = 2 * PageSize + (IF isAPUPutCycle THEN 1 ELSE 2)
    BY <2>1 DEF OamCost
  <2>4. ByteSteps' = IF isAPUPutCycle THEN 0 ELSE -1
    BY <1>5, <2>2
  <2>5. stall' = OamCost(stallOam') - 2 * (PageSize - oamIndex) + 2 * stallGets'
                   + ByteSteps'
    BY <1>4, <2>1, <2>3, <2>4
  <2>6. QED
    BY <1>6, <2>1, <2>5
<1>8. CASE ~rdy
  <2>1. /\ oamPhase = "Transfer" /\ stall' = stall + 1 /\ stallOam' = stallOam
        /\ (oamHasByte' <=> oamHasByte)
    BY <1>2, <1>3, <1>8, OamMoves, StallMoves
  <2>2. /\ oamHasByte => isAPUPutCycle
        /\ stall = OamCost(stallOam) - 2 * (PageSize - oamIndex) + 2 * stallGets
                     + ByteSteps
    BY <1>1, <2>1 DEF CopyCost
  <2>3. ByteSteps = IF ~isAPUPutCycle THEN 0 ELSE IF oamHasByte THEN 1 ELSE -1
    BY <1>1 DEF ByteSteps
  <2>4. oamHasByte' => action' = "OAMPut"
    BY <2>1, <2>2, OamMoves
  <2>5. OamCost(stallOam) \in Int
    BY <1>4, <2>1 DEF OamCost
  <2>6. CASE action' = "DMCGet"
    <3>1. stallGets' = stallGets + 1 /\ ~isAPUPutCycle
      BY <1>3, <2>6, StallMoves, DmcMoves
    <3>2. ByteSteps = 0 /\ ByteSteps' = -1
      BY <1>5, <2>3, <2>6, <3>1
    <3>3. stall' = OamCost(stallOam') - 2 * (PageSize - oamIndex) + 2 * stallGets'
                     + ByteSteps'
      BY <1>4, <2>1, <2>2, <2>5, <3>1, <3>2
    <3>4. QED
      BY <1>6, <2>4, <3>3
  <2>7. CASE action' # "DMCGet"
    <3>1. stallGets' = stallGets
      BY <1>3, <2>7, StallMoves
    <3>2. ByteSteps' = ByteSteps + 1
      BY <1>5, <2>1, <2>2, <2>3, <2>7, OamMoves
    <3>3. ByteSteps \in Int
      BY <2>3
    <3>4. stall' = OamCost(stallOam') - 2 * (PageSize - oamIndex) + 2 * stallGets'
                     + ByteSteps'
      BY <1>4, <2>1, <2>2, <2>5, <3>1, <3>2, <3>3
    <3>5. QED
      BY <1>6, <2>4, <3>4
  <2>8. QED
    BY <2>6, <2>7
<1>9. QED
  BY <1>7, <1>8

-----------------------------------------------------------------------------
(* A doomed fetch does not outlive the cycle.                              *)
LEMMA DoomedEnds ==
  ASSUME TypeOK, TimingType, WindowInv, TimedPhi1, Doomed, dmcPhase # "Idle"
  PROVE  DmcAborted
<1>1. bytesRemaining = 0 /\ sinceStop \in {2, 3} /\ dmcAbortPending
  BY DEF Doomed
<1>2. sinceStop' \notin 0..2
  BY <1>1, SinceMoves
<1>3. QED
  BY <1>1, <1>2, DmcDecides

(* What can schedule a fetch while the CPU is held: the output unit, whose *)
(* next request is then far off; the load delay of a start just before the *)
(* stall; or the emptiness that a stopped sample left behind.              *)
LEMMA HeldSchedule ==
  ASSUME TypeOK, IInv, TimingType, WindowInv, DelayInv, FetchAge, TimedPhi1,
         ~rdy, stallOam # Never, DmcScheduled
  PROVE  \/ /\ OutputCycleEnds /\ ~sampleBufferEmpty
            /\ dmcPhase' = "Dummy" /\ isAPUPutCycle /\ outputTimer' > 1
         \/ /\ sampleBufferEmpty /\ stall <= 2
            /\ dmcPhase' = "Dummy" <=> ~isAPUPutCycle
         \/ sampleBufferEmpty /\ Doomed'
<1>1. /\ dmcPhase = "Idle" /\ sinceStop' \in 0..3 /\ sampleBufferEmpty'
      /\ ~dmaDelay'.current
  BY DmcDecides
<1>2. Haltable(cpuCycle')
  BY OamMoves
<1>3. dmcAbortPending' /\ (dmcPhase' = "Dummy" <=> (isAPUPutCycle <=> reloadOnPut'))
  BY <1>2, DmcMoves
<1>4. CASE ~sampleBufferEmpty
  <2>1. OutputCycleEnds /\ isAPUPutCycle /\ outputTimer' > 1
    BY <1>1, <1>4, OutputMoves
  <2>2. reloadOnPut'
    BY <1>1, <1>4, <2>1, OutputMoves
  <2>3. QED
    BY <1>3, <1>4, <2>1, <2>2
<1>5. CASE sampleBufferEmpty /\ dmaDelay = PinOf(FALSE)
  <2>1. DmcNow = "Idle" /\ EmptyNow
    BY <1>1, <1>5, NowAtPhi1
  <2>2. bytesRemaining = 0 /\ sinceStop # 0
    BY <1>5, <2>1, Zenon DEF FetchAge
  <2>3. sinceStop' \in {2, 3}
    <3>1. sinceStop \in 1..4 \/ sinceStop \notin 0..4
      BY <2>2
    <3>2. CASE sinceStop \in 1..4
      BY <1>1, <2>2, <3>2, SinceMoves
    <3>3. CASE sinceStop \notin 0..4
      BY <1>1, <2>2, <3>3, SinceMoves
    <3>4. QED
      BY <3>1, <3>2, <3>3
  <2>4. bytesRemaining' = 0
    BY <2>2, Phi1Frame
  <2>5. QED
    BY <1>3, <1>5, <2>3, <2>4 DEF Doomed
<1>6. CASE sampleBufferEmpty /\ dmaDelay # PinOf(FALSE)
  <2>1. dmaDelay' = PinOf(FALSE)
    BY <1>1, DelayPhi1
  <2>2. dmaDelay \in {Closing(1), Closing(2), Closing(3)} /\ ~reloadOnPut
    BY <1>6, Zenon DEF DelayInv
  <2>3. dmaDelay = Closing(1)
    BY <2>1, <2>2, DelayPhi1, ClosingDiffers, Zenon
  <2>4. 1 + stall <= 3
    <3>1. \A n \in 1..3 : dmaDelay = Closing(n) => n + stall <= 3
      BY Zenon DEF FetchAge
    <3>2. 1 \in 1..3
      OBVIOUS
    <3>3. QED
      BY <2>3, <3>1, <3>2, Zenon
  <2>5. stall <= 2
    BY <2>4 DEF TimingType
  <2>6. ~reloadOnPut'
    BY <1>6, <2>2, OutputMoves
  <2>7. QED
    BY <1>3, <1>6, <2>5, <2>6
<1>7. QED
  BY <1>4, <1>5, <1>6

(* A fetch in a stall with OAM DMA, and how old it can be.                 *)
LEMMA FetchAgeBegins ==
  ASSUME TypeOK, IInv, TimingType, WindowInv, StopInv, DelayInv, NoStall, TimedPhi1,
         rdy, ~rdy'
  PROVE  /\ \A n \in 1..3 : dmaDelay' = Closing(n) => n + stall' <= 3
         /\ DmcNow' = "Halt" => stall' <= (IF NextPut' THEN 1 ELSE 3)
         /\ DmcNow' = "Dummy" => stall' <= 2
         /\ DmcNow' # "Read"
<1>1. /\ stall' = 1 /\ action' # "DMCGet"
      /\ dmcPhase' \in {"Idle", "Halt", "Dummy"}
  BY StallBegins
<1>2. DmcNow' # "Read"
  BY <1>1, NowAtPhi1
<1>3. \A n \in 1..3 : dmaDelay' = Closing(n) => n + stall' <= 3
  <2>1. dmaDelay' # Closing(3)
    <3>1. dmaDelay' \in {PinOf(FALSE), Closing(1), Closing(2)}
      BY DelayPhi1, Zenon DEF DelayInv
    <3>2. 1 # 3 /\ 2 # 3
      OBVIOUS
    <3>3. QED
      BY <3>1, <3>2, ClosingDiffers, Zenon
  <2>2. SUFFICES ASSUME NEW n \in 1..3, dmaDelay' = Closing(n) PROVE n + stall' <= 3
    OBVIOUS
  <2>3. n # 3
    BY <2>1, <2>2, Zenon
  <2>4. QED
    BY <1>1, <2>2, <2>3
<1>4. QED
  BY <1>1, <1>2, <1>3

LEMMA FetchAgeHeld ==
  ASSUME TypeOK, IInv, TimingType, WindowInv, StopInv, DelayInv, FetchAge, TimedPhi1,
         ~rdy, ~rdy', stallOam # Never
  PROVE  /\ DmcNow' = "Halt" => Doomed' \/ stall' <= (IF NextPut' THEN 1 ELSE 3)
         /\ DmcNow' = "Dummy" =>
              \/ Doomed'
              \/ IF NextPut' THEN stall' <= 4 ELSE outputTimer' > 1 \/ stall' <= 2
         /\ DmcNow' = "Read" =>
              IF NextPut' THEN outputTimer' > 1 \/ stall' <= 3
              ELSE outputTimer' > 0 \/ stall' <= 5
<1>1. stall' = stall + 1 /\ stall \in Nat /\ outputTimer \in Nat
  BY StallMoves, OutputMoves DEF TimingType
<1>2. (NextPut <=> isAPUPutCycle) /\ (NextPut' <=> ~isAPUPutCycle) /\ DmcNow = dmcPhase
  BY NowAtPhi1, Phi1Frame
<1>3. dmcPhase \in {"Idle", "Halt", "Dummy", "Read"}
  BY DEF TypeOK, DmcType
<1>4. DmcNow' # "Idle" => DmcNow' = dmcPhase' /\ action' # "DMCGet" /\ ~DmcAborted
  BY NowAtPhi1, DmcMoves
<1>5. dmcPhase # "Idle" /\ ~DmcAborted => ~Doomed
  BY DoomedEnds
<1>6. Haltable(cpuCycle')
  BY OamMoves
<1>7. CASE DmcScheduled
  <2>1. dmcPhase' \in {"Halt", "Dummy"}
    BY <1>7, DmcMoves
  <2>2. \/ dmcPhase' = "Dummy" /\ isAPUPutCycle /\ outputTimer' > 1
        \/ stall <= 2 /\ (dmcPhase' = "Dummy" <=> ~isAPUPutCycle)
        \/ Doomed'
    BY <1>7, HeldSchedule
  <2>3. QED
    BY <1>1, <1>2, <1>4, <2>1, <2>2
<1>8. CASE dmcPhase = "Idle" /\ ~DmcScheduled
  BY <1>4, <1>8, DmcMoves
<1>9. CASE dmcPhase = "Halt"
  <2>1. /\ NextPut <=> dmcHaltOnPut
        /\ Doomed \/ stall <= (IF NextPut THEN 1 ELSE 3)
    BY <1>2, <1>9, Zenon DEF FetchAge
  <2>2. DmcNow' # "Idle" => dmcPhase' = "Dummy" /\ stall <= (IF NextPut THEN 1 ELSE 3)
    BY <1>2, <1>4, <1>5, <1>6, <1>9, <2>1, DmcMoves
  <2>3. QED
    BY <1>1, <1>2, <1>4, <2>2
<1>10. CASE dmcPhase = "Dummy"
  <2>1. Doomed \/ (IF NextPut THEN stall <= 4 ELSE outputTimer > 1 \/ stall <= 2)
    BY <1>2, <1>10, Zenon DEF FetchAge
  <2>2. DmcNow' # "Idle" =>
          /\ dmcPhase' = "Read"
          /\ IF NextPut THEN stall <= 4 ELSE outputTimer > 1 \/ stall <= 2
    BY <1>4, <1>5, <1>10, <2>1, DmcMoves
  <2>3. ~isAPUPutCycle => outputTimer' = outputTimer
    BY OutputMoves
  <2>4. QED
    BY <1>1, <1>2, <1>4, <2>2, <2>3
<1>11. CASE dmcPhase = "Read"
  <2>1. NextPut => outputTimer > 1 \/ stall <= 3
    BY <1>2, <1>11, Zenon DEF FetchAge
  <2>2. DmcNow' # "Idle" => dmcPhase' = "Read" /\ isAPUPutCycle
    BY <1>4, <1>11, DmcMoves
  <2>3. isAPUPutCycle => outputTimer' > 1 \/ outputTimer' = outputTimer - 1
    BY OutputMoves
  <2>4. outputTimer' \in Nat
    BY <1>1, OutputMoves
  <2>5. QED
    BY <1>1, <1>2, <1>4, <2>1, <2>2, <2>3, <2>4
<1>12. QED
  BY <1>3, <1>7, <1>8, <1>9, <1>10, <1>11

LEMMA FetchAgePhi1 ==
  ASSUME TypeOK, IInv, TimingType, WindowInv, StopInv, DelayInv, NoStall, InStall,
         FetchAge, TimedPhi1
  PROVE  FetchAge'
<1>1. SUFFICES ASSUME ~rdy', stallOam' # Never PROVE FetchAge'
  BY Zenon DEF FetchAge
<1>2. ~rdy => stallOam # Never
  BY <1>1, OamMoves, StallMoves
<1>3. \A n \in 1..3 : dmaDelay' = Closing(n) => n + stall' <= 3
  <2>1. CASE rdy
    BY <1>1, <2>1, FetchAgeBegins, Zenon
  <2>2. CASE ~rdy
    <3>1. \A n \in 1..3 : dmaDelay = Closing(n) => n + stall <= 3
      BY <1>2, <2>2, Zenon DEF FetchAge
    <3>2. stall' = stall + 1 /\ stall \in Nat
      BY <1>1, StallMoves DEF TimingType
    <3>3. \/ dmaDelay' = PinOf(FALSE)
          \/ dmaDelay' = Closing(1) /\ dmaDelay = Closing(2)
          \/ dmaDelay' = Closing(2) /\ dmaDelay = Closing(3)
      BY DelayPhi1, Zenon DEF DelayInv
    <3>4. CASE dmaDelay' = PinOf(FALSE)
      BY <3>4, ClosingDiffers, Zenon
    <3>5. CASE dmaDelay' = Closing(1) /\ dmaDelay = Closing(2)
      <4>1. 2 + stall <= 3
        BY <3>1, <3>5
      <4>2. 1 + stall' <= 3
        BY <3>2, <4>1
      <4>3. QED
        BY <3>5, <4>2, ClosingDiffers, Zenon
    <3>6. CASE dmaDelay' = Closing(2) /\ dmaDelay = Closing(3)
      <4>1. 3 + stall <= 3
        BY <3>1, <3>6
      <4>2. 2 + stall' <= 3
        BY <3>2, <4>1
      <4>3. QED
        BY <3>6, <4>2, ClosingDiffers, Zenon
    <3>7. QED
      BY <3>3, <3>4, <3>5, <3>6, Zenon
  <2>3. QED
    BY <2>1, <2>2
<1>4. DmcNow' = "Idle" /\ EmptyNow' /\ dmaDelay' = PinOf(FALSE) =>
        bytesRemaining' = 0 /\ sinceStop' # 0
  <2>1. SUFFICES ASSUME DmcNow' = "Idle", EmptyNow', dmaDelay' = PinOf(FALSE)
                 PROVE  bytesRemaining = 0
    <3>1. bytesRemaining = 0 => sinceStop' # 0
      <4>1. CASE sinceStop \in 0..4
        BY <4>1, SinceMoves
      <4>2. CASE sinceStop \notin 0..4
        BY <4>2, SinceMoves
      <4>3. QED
        BY <4>1, <4>2
    <3>2. QED
      BY <3>1, Phi1Frame
  <2>2. CASE action' = "DMCGet"
    BY <2>1, <2>2, NowAtPhi1, Phi1Frame
  <2>3. CASE action' # "DMCGet"
    <3>1. dmcPhase' = "Idle" /\ sampleBufferEmpty' /\ ~dmaDelay'.current
      BY <2>1, <2>3, NowAtPhi1, DelayPhi1
    <3>2. ~DmcScheduled /\ (dmcPhase = "Idle" \/ DmcAborted)
      BY <3>1, DmcMoves DEF TypeOK, DmcType
    <3>3. sinceStop' \notin 0..2
      BY <3>1, <3>2, DmcDecides
    <3>4. QED
      BY <3>3, SinceMoves
  <2>4. QED
    BY <2>2, <2>3
<1>5. DmcNow' = "Halt" => (NextPut' <=> dmcHaltOnPut')
  <2>1. SUFFICES ASSUME DmcNow' = "Halt" PROVE isAPUPutCycle <=> ~dmcHaltOnPut'
    BY NowAtPhi1, Phi1Frame
  <2>2. dmcPhase' = "Halt" /\ Haltable(cpuCycle')
    BY <1>1, <2>1, NowAtPhi1, OamMoves
  <2>3. CASE DmcScheduled
    BY <2>2, <2>3, DmcMoves
  <2>4. CASE ~DmcScheduled
    <3>1. dmcPhase = "Halt" /\ ~DmcAborted
      BY <2>2, <2>4, DmcMoves DEF TypeOK, DmcType
    <3>2. (isAPUPutCycle <=> ~dmcHaltOnPut) /\ dmcHaltOnPut' = dmcHaltOnPut
      BY <2>2, <2>4, <3>1, DmcMoves
    <3>3. QED
      BY <3>2, Zenon
  <2>5. QED
    BY <2>3, <2>4
<1>6. /\ DmcNow' = "Halt" => Doomed' \/ stall' <= (IF NextPut' THEN 1 ELSE 3)
      /\ DmcNow' = "Dummy" =>
           \/ Doomed'
           \/ IF NextPut' THEN stall' <= 4 ELSE outputTimer' > 1 \/ stall' <= 2
      /\ DmcNow' = "Read" =>
           IF NextPut' THEN outputTimer' > 1 \/ stall' <= 3
           ELSE outputTimer' > 0 \/ stall' <= 5
  <2>1. CASE rdy
    <3>1. stall' = 1
      BY <1>1, <2>1, StallBegins
    <3>2. QED
      BY <1>1, <2>1, <3>1, FetchAgeBegins
  <2>2. CASE ~rdy
    BY <1>1, <1>2, <2>2, FetchAgeHeld, Zenon
  <2>3. QED
    BY <2>1, <2>2, Zenon
<1>7. QED
  BY <1>3, <1>4, <1>5, <1>6, Zenon DEF FetchAge

(* By the time a copy is over the stall is too long for a fetch of its     *)
(* beginning to be still on its way.                                       *)
LEMMA OldStall ==
  ASSUME TimingType, stallOam # Never, Extra >= 0
  PROVE  stall > 4 /\ (Extra > 0 => stall > 5)
<1>1. OamCost(stallOam) \in {2 * PageSize + 1, 2 * PageSize + 2}
  BY CostOfCopy DEF TimingType
<1>2. stall \in Nat /\ stallGets \in Nat /\ PageSize \in Nat /\ PageSize > 1
  BY TimingConstants DEF TimingType
<1>3. OamCost(stallOam) >= 5
  BY <1>1, <1>2
<1>4. OamCost(stallOam) \in Int
  BY <1>1, <1>2
<1>5. QED
  BY <1>2, <1>3, <1>4 DEF Extra

LEMMA TailCostPhi1 ==
  ASSUME TypeOK, IInv, TimingType, WindowInv, StopInv, DelayInv, NoStall, InStall,
         FetchAge, TailCost, TimedPhi1
  PROVE  TailCost'
<1>1. SUFFICES ASSUME ~rdy', stallOam' # Never, oamPhase' = "Idle"
               PROVE  TailCost'
  BY Zenon DEF TailCost
<1>2. ~rdy
  <2>1. rdy => stallOam' = Never
    BY <1>1, StallBegins
  <2>2. QED
    BY <1>1, <2>1
<1>3. oamPhase = "Idle" /\ stallOam' = stallOam /\ stallOam # Never
  BY <1>1, <1>2, OamMoves, StallMoves
<1>4. /\ stall \in Nat /\ stallGets \in Nat /\ OamCost(stallOam) \in Int
      /\ Extra \in Int /\ stallGets' \in Nat
  BY <1>3, CostOfCopy, TimingConstants, TimingTypePhi1 DEF TimingType, Extra
<1>5. /\ action' = "DMCGet" =>
           stallGets' = stallGets + 1 /\ Extra' = Extra - 1
      /\ action' # "DMCGet" => stallGets' = stallGets /\ Extra' = Extra + 1
  <2>1. stall' = stall + 1
        /\ stallGets' = IF action' = "DMCGet" THEN stallGets + 1 ELSE stallGets
    BY <1>1, StallMoves
  <2>2. OamCost(stallOam') = OamCost(stallOam)
    BY <1>3
  <2>3. Extra' = stall' - (OamCost(stallOam') + 2 * stallGets')
    BY DEF Extra
  <2>4. Extra = stall - (OamCost(stallOam) + 2 * stallGets)
    BY DEF Extra
  <2>5. CASE action' = "DMCGet"
    BY <1>4, <2>1, <2>2, <2>3, <2>4, <2>5
  <2>6. CASE action' # "DMCGet"
    BY <1>4, <2>1, <2>2, <2>3, <2>4, <2>6
  <2>7. QED
    BY <2>5, <2>6
<1>6. (NextPut <=> isAPUPutCycle) /\ (NextPut' <=> ~isAPUPutCycle) /\ DmcNow = dmcPhase
  BY NowAtPhi1, Phi1Frame
<1>7. dmcPhase' \in {"Dummy", "Read"} /\ ~DmcAborted
  BY <1>1, Phi1Frame, DmcMoves
<1>8. action' # "DMCGet" => DmcNow' = dmcPhase'
  BY NowAtPhi1
<1>9. CASE dmcPhase = "Idle"
  <2>1. DmcScheduled /\ dmcPhase' = "Dummy" /\ action' # "DMCGet"
    BY <1>7, <1>9, DmcMoves
  <2>2. \/ Extra = 0 /\ ~NextPut
        \/ NextPut /\ Extra = -1
        \/ NextPut /\ stallGets > 0 /\ Extra = 1 /\ (EmptyNow \/ outputTimer > 0)
    BY <1>2, <1>3, <1>6, <1>9, Zenon DEF TailCost
  <2>3. CASE ~(NextPut /\ stallGets > 0 /\ Extra = 1)
    <3>1. \/ Extra' = 1 /\ NextPut'
          \/ Extra' = 0 /\ ~NextPut'
      BY <1>5, <1>6, <2>1, <2>2, <2>3
    <3>2. DmcNow' = "Dummy"
      BY <1>8, <2>1
    <3>3. QED
      BY <3>1, <3>2 DEF TailCost
  <2>4. CASE NextPut /\ stallGets > 0 /\ Extra = 1
    <3>1. ~(stall <= 2)
      BY <1>3, <1>4, <2>4, OldStall
    <3>2. ~(OutputCycleEnds /\ ~sampleBufferEmpty)
      <4>1. OutputCycleEnds => outputTimer = 0
        BY OutputMoves
      <4>2. EmptyNow \/ outputTimer > 0
        BY <2>2, <2>4
      <4>3. QED
        BY <4>1, <4>2, NowAtPhi1
    <3>3. Doomed'
      BY <1>2, <1>3, <2>1, <3>1, <3>2, HeldSchedule
    <3>4. Extra' = 2 /\ stallGets' > 0 /\ ~NextPut'
      BY <1>4, <1>5, <1>6, <2>1, <2>4
    <3>5. DmcNow' = "Dummy"
      BY <1>8, <2>1
    <3>6. QED
      BY <3>3, <3>4, <3>5 DEF TailCost
  <2>5. QED
    BY <2>3, <2>4
<1>10. CASE dmcPhase = "Halt"
  <2>1. dmcPhase' = "Dummy" /\ action' # "DMCGet"
    BY <1>7, <1>10, DmcMoves
  <2>2. Extra = 0 /\ ~NextPut
    BY <1>2, <1>3, <1>6, <1>10, Zenon DEF TailCost
  <2>3. Extra' = 1 /\ NextPut'
    BY <1>5, <1>6, <2>1, <2>2
  <2>4. QED
    BY <1>8, <2>1, <2>3 DEF TailCost
<1>11. CASE dmcPhase = "Dummy"
  <2>1. dmcPhase' = "Read" /\ action' # "DMCGet"
    BY <1>7, <1>11, DmcMoves
  <2>2. ~Doomed
    BY <1>7, <1>11, DoomedEnds
  <2>3. (Extra = 0 /\ ~NextPut) \/ (Extra = 1 /\ NextPut)
    BY <1>2, <1>3, <1>6, <1>11, <2>2 DEF TailCost
  <2>4. (Extra' = 1 /\ NextPut') \/ (Extra' = 2 /\ ~NextPut')
    BY <1>5, <1>6, <2>1, <2>3
  <2>5. QED
    BY <1>8, <2>1, <2>4 DEF TailCost
<1>12. CASE dmcPhase = "Read"
  <2>1. (Extra \in {0, 2} /\ ~NextPut) \/ (Extra = 1 /\ NextPut)
    BY <1>2, <1>3, <1>6, <1>12 DEF TailCost
  <2>2. CASE isAPUPutCycle
    <3>1. dmcPhase' = "Read" /\ action' # "DMCGet"
      BY <1>7, <1>12, <2>2, DmcMoves
    <3>2. Extra = 1
      BY <1>6, <2>1, <2>2
    <3>3. Extra' = 2 /\ ~NextPut'
      BY <1>5, <1>6, <2>2, <3>1, <3>2
    <3>4. QED
      BY <1>8, <3>1, <3>3 DEF TailCost
  <2>3. CASE ~isAPUPutCycle
    <3>1. action' = "DMCGet"
      BY <1>7, <1>12, <2>3, DmcMoves
    <3>2. DmcNow' = "Idle" /\ stallGets' > 0 /\ NextPut'
      BY <1>4, <1>5, <1>6, <2>3, <3>1, NowAtPhi1
    <3>3. (Extra' = -1 /\ Extra = 0) \/ (Extra' = 1 /\ Extra = 2)
      BY <1>5, <1>6, <2>1, <2>3, <3>1
    <3>4. Extra' = 1 => outputTimer' > 0
      <4>1. Extra' = 1 => stall > 5
        BY <1>3, <3>3, OldStall
      <4>2. outputTimer > 0 \/ stall <= 5
        BY <1>2, <1>3, <1>6, <1>12, <2>3, Zenon DEF FetchAge
      <4>3. outputTimer' = outputTimer
        BY <2>3, OutputMoves DEF OutputCycleEnds
      <4>4. QED
        BY <1>4, <4>1, <4>2, <4>3
    <3>5. QED
      BY <3>2, <3>3, <3>4 DEF TailCost
  <2>4. QED
    BY <2>2, <2>3
<1>13. QED
  BY <1>9, <1>10, <1>11, <1>12 DEF TypeOK, DmcType

LEMMA TimingPhi1 ==
  ASSUME TypeOK, IInv, TimingInv, TimedPhi1
  PROVE  TimingInv'
<1>1. /\ TimingType /\ WindowInv /\ StopInv /\ LateInv /\ DelayInv /\ NoStall /\ InStall
      /\ FetchAlone /\ CopyCost /\ FetchAge /\ TailCost
  BY DEF TimingInv
<1>2. TimingType' /\ WindowInv' /\ StopInv' /\ LateInv' /\ DelayInv'
  BY <1>1, TimingTypePhi1, WindowMoves, StopPhi1, LatePhi1, DelayPhi1
<1>3. NoStall' /\ InStall' /\ FetchAlone' /\ CopyCost'
  BY <1>1, StallPhi1, FetchAlonePhi1, CopyCostPhi1
<1>4. FetchAge' /\ TailCost'
  BY <1>1, FetchAgePhi1, TailCostPhi1
<1>5. QED
  BY <1>2, <1>3, <1>4 DEF TimingInv

-----------------------------------------------------------------------------
(* The other steps.  A CPU write finds the CPU running.                    *)
LEMMA WriteRuns == TypeOK /\ IInv /\ Write => rdy /\ phase # "phi1"
<1> SUFFICES ASSUME TypeOK, IInv, Write PROVE rdy /\ phase # "phi1"
  OBVIOUS
<1>1. CpuWriting
  BY DEF Write, WriteOther, WriteOAMDMA, WriteDmcFlags, WriteDmcLength, StartSample,
         StopSample
<1>2. QED
  BY <1>1 DEF CpuWriting, IInv, HoldInv, Haltable, TypeOK, GlueType

(* What they do to a copy.                                                 *)
LEMMA HeldRest ==
  ASSUME TypeOK, IInv, TimedRest, ~rdy
  PROVE  /\ \/ oamPhase' = oamPhase
            \/ /\ OAMPut /\ oamPhase = "Transfer" /\ oamPhase' = "Idle"
               /\ oamIndex = PageSize - 1
         /\ dmaDelay' = dmaDelay
         /\ ~Write
<1>1. ~Write
  BY WriteRuns
<1>2. CASE NoWrite \/ CallPlay \/ InitSong
  BY <1>1, <1>2 DEF NoWrite, CallPlay, InitSong, CpuJumps, oamVars, outputVars
<1>3. CASE NoAccess \/ DMCGet \/ OAMGet
  BY <1>1, <1>3 DEF NoAccess, DMCGet, OAMGet, EndCycle, oamVars
<1>4. CASE OAMPut
  BY <1>1, <1>4 DEF OAMPut, EndCycle, IInv, AccessInv
<1>5. QED
  BY <1>1, <1>2, <1>3, <1>4 DEF TimedRest, Phi2

LEMMA RunningRest ==
  ASSUME TypeOK, IInv, TimedRest, rdy
  PROVE  oamPhase' # "Transfer"
<1>1. oamPhase # "Transfer"
  BY DEF IInv, HoldInv
<1>2. CASE NoWrite \/ CallPlay \/ InitSong
  BY <1>1, <1>2 DEF NoWrite, CallPlay, InitSong, CpuJumps, oamVars
<1>3. CASE Write
  BY <1>1, <1>3 DEF Write, WriteOther, WriteOAMDMA, WriteDmcFlags, WriteDmcLength,
                    StartSample, StopSample, oamVars
<1>4. CASE Phi2
  BY <1>1, <1>4 DEF Phi2, NoAccess, DMCGet, OAMGet, OAMPut, oamVars
<1>5. QED
  BY <1>2, <1>3, <1>4 DEF TimedRest

LEMMA StallRest ==
  ASSUME TypeOK, IInv, TimingType, NoStall, InStall, FetchAlone, TimedRest
  PROVE  TimingType' /\ NoStall' /\ InStall' /\ FetchAlone'
<1>1. UNCHANGED <<rdy, stall, stallOam, stallGets, stallAborts, sinceStop, lateGets>>
  BY RestKeeps DEF stallVars, sampleTimes
<1>2. DmcNow' = DmcNow /\ (NextPut' <=> NextPut)
  BY NowKept
<1>3. TimingType'
  BY <1>1 DEF TimingType
<1>4. NoStall'
  BY <1>1 DEF NoStall
<1>5. InStall'
  BY <1>1, <1>2, HeldRest DEF InStall
<1>6. FetchAlone'
  BY <1>1, <1>2 DEF FetchAlone
<1>7. QED
  BY <1>3, <1>4, <1>5, <1>6

LEMMA CopyCostRest ==
  ASSUME TypeOK, IInv, TimingType, InStall, CopyCost, TimedRest
  PROVE  CopyCost'
<1>1. SUFFICES ASSUME oamPhase' = "Transfer" PROVE CopyCost'
  BY DEF CopyCost
<1>2. ~rdy /\ oamPhase = "Transfer" /\ ~Write
  BY <1>1, RunningRest, HeldRest
<1>3. UNCHANGED <<stall, stallOam, stallGets, action>>
  BY RestKeeps DEF stallVars
<1>4. /\ oamHasByte =>
           IF phase = "phi1" THEN isAPUPutCycle ELSE action = "OAMPut"
      /\ phase # "phi1" /\ action # "None" => (isAPUPutCycle <=> action = "OAMPut")
      /\ stall = OamCost(stallOam) - 2 * (PageSize - oamIndex) + 2 * stallGets
                   + ByteSteps
  BY <1>2 DEF CopyCost
<1>5. /\ stall \in Nat /\ stallGets \in Nat /\ OamCost(stallOam) \in Int
      /\ PageSize \in Nat /\ oamIndex \in Nat /\ ByteSteps \in Int
  <2>1. stallOam # Never
    BY <1>2 DEF InStall
  <2>2. OamCost(stallOam) \in Int
    BY <2>1, CostOfCopy, TimingConstants DEF TimingType
  <2>3. QED
    BY <2>2, TimingConstants DEF TimingType, TypeOK, OamType, ByteSteps
<1>6. CASE NoWrite \/ CallPlay \/ InitSong
  <2>1. /\ UNCHANGED <<isAPUPutCycle, oamIndex, oamHasByte>>
        /\ phase' = "phi1" <=> phase = "phi1"
    BY <1>6 DEF NoWrite, CallPlay, InitSong, CpuJumps, oamVars
  <2>2. ByteSteps' = ByteSteps
    BY <1>3, <2>1 DEF ByteSteps
  <2>3. stall' = OamCost(stallOam') - 2 * (PageSize - oamIndex') + 2 * stallGets'
                   + ByteSteps'
    BY <1>3, <1>4, <2>1, <2>2
  <2>4. QED
    BY <1>3, <1>4, <2>1, <2>3 DEF CopyCost
<1>7. CASE Phi2
  <2>1. EndCycle
    BY <1>7 DEF Phi2, NoAccess, DMCGet, OAMGet, OAMPut
  <2>2. phase = "phi2" /\ phase' = "phi1" /\ (isAPUPutCycle' <=> ~isAPUPutCycle)
    BY <2>1 DEF EndCycle, TypeOK, GlueType
  <2>3. ByteSteps = IF action = "OAMGet" THEN 1 ELSE IF action = "OAMPut" THEN 2
                    ELSE IF isAPUPutCycle THEN 0 ELSE -1
    BY <2>2 DEF ByteSteps
  <2>4. ByteSteps' = IF isAPUPutCycle THEN 0 ELSE IF oamHasByte' THEN 1 ELSE -1
    BY <2>2 DEF ByteSteps
  <2>5. CASE NoAccess \/ DMCGet
    <3>1. /\ action # "OAMGet" /\ action # "OAMPut"
          /\ oamIndex' = oamIndex /\ oamHasByte' = oamHasByte
      BY <2>5 DEF NoAccess, DMCGet, oamVars
    <3>2. ~oamHasByte'
      BY <1>4, <2>2, <3>1
    <3>3. ByteSteps' = ByteSteps
      BY <2>3, <2>4, <3>1, <3>2
    <3>4. stall' = OamCost(stallOam') - 2 * (PageSize - oamIndex') + 2 * stallGets'
                     + ByteSteps'
      BY <1>3, <1>4, <3>1, <3>3
    <3>5. QED
      BY <2>2, <3>2, <3>4 DEF CopyCost
  <2>6. CASE OAMGet
    <3>1. action = "OAMGet" /\ oamIndex' = oamIndex /\ oamHasByte'
      BY <2>6 DEF OAMGet
    <3>2. isAPUPutCycle'
      BY <1>4, <2>2, <3>1
    <3>3. ByteSteps' = ByteSteps
      BY <2>2, <2>3, <2>4, <3>1, <3>2
    <3>4. stall' = OamCost(stallOam') - 2 * (PageSize - oamIndex') + 2 * stallGets'
                     + ByteSteps'
      BY <1>3, <1>4, <3>1, <3>3
    <3>5. QED
      BY <2>2, <3>2, <3>4 DEF CopyCost
  <2>7. CASE OAMPut
    <3>1. action = "OAMPut" /\ ~oamHasByte' /\ oamIndex' = oamIndex + 1
      BY <1>1, <2>7 DEF OAMPut
    <3>2. ByteSteps = 2 /\ ByteSteps' = 0
      BY <1>4, <2>2, <2>3, <2>4, <3>1
    <3>3. stall' = OamCost(stallOam') - 2 * (PageSize - oamIndex') + 2 * stallGets'
                     + ByteSteps'
      BY <1>3, <1>4, <1>5, <3>1, <3>2
    <3>4. QED
      BY <2>2, <3>1, <3>3 DEF CopyCost
  <2>8. QED
    BY <1>7, <2>5, <2>6, <2>7 DEF Phi2
<1>8. QED
  BY <1>2, <1>6, <1>7 DEF TimedRest

LEMMA FetchAgeRest ==
  ASSUME TypeOK, IInv, FetchAge, TimedRest
  PROVE  FetchAge'
<1>1. SUFFICES ASSUME ~rdy, stallOam # Never PROVE FetchAge'
  BY RestKeeps, Zenon DEF FetchAge, stallVars
<1>2. /\ UNCHANGED <<stall, sinceStop, dmcAbortPending, dmcHaltOnPut, outputTimer>>
      /\ dmaDelay' = dmaDelay
  BY <1>1, RestKeeps, HeldRest DEF stallVars, sampleTimes
<1>3. /\ DmcNow' = DmcNow /\ (NextPut' <=> NextPut) /\ (EmptyNow' <=> EmptyNow)
      /\ bytesRemaining = 0 /\ (DmcNow # "Idle" \/ EmptyNow) => bytesRemaining' = 0
  BY <1>1, NowKept
<1>4. DmcNow # "Idle" /\ Doomed => Doomed'
  BY <1>2, <1>3, Zenon DEF Doomed
<1>5. /\ \A n \in 1..3 : dmaDelay = Closing(n) => n + stall <= 3
      /\ DmcNow = "Idle" /\ EmptyNow /\ dmaDelay = PinOf(FALSE) =>
           bytesRemaining = 0 /\ sinceStop # 0
  BY <1>1, Zenon DEF FetchAge
<1>6. /\ \A n \in 1..3 : dmaDelay' = Closing(n) => n + stall' <= 3
      /\ DmcNow' = "Idle" /\ EmptyNow' /\ dmaDelay' = PinOf(FALSE) =>
           bytesRemaining' = 0 /\ sinceStop' # 0
  BY <1>2, <1>3, <1>5, Zenon
<1>7. /\ DmcNow = "Halt" =>
           /\ NextPut <=> dmcHaltOnPut
           /\ Doomed \/ stall <= (IF NextPut THEN 1 ELSE 3)
      /\ DmcNow = "Dummy" =>
           Doomed \/ (IF NextPut THEN stall <= 4 ELSE outputTimer > 1 \/ stall <= 2)
      /\ DmcNow = "Read" =>
           IF NextPut THEN outputTimer > 1 \/ stall <= 3
           ELSE outputTimer > 0 \/ stall <= 5
  BY <1>1, Zenon DEF FetchAge
<1>8. /\ DmcNow' = "Halt" =>
           /\ NextPut' <=> dmcHaltOnPut'
           /\ Doomed' \/ stall' <= (IF NextPut' THEN 1 ELSE 3)
      /\ DmcNow' = "Dummy" =>
           \/ Doomed'
           \/ IF NextPut' THEN stall' <= 4 ELSE outputTimer' > 1 \/ stall' <= 2
      /\ DmcNow' = "Read" =>
           IF NextPut' THEN outputTimer' > 1 \/ stall' <= 3
           ELSE outputTimer' > 0 \/ stall' <= 5
  BY <1>2, <1>3, <1>4, <1>7
<1>9. QED
  BY <1>6, <1>8, Zenon DEF FetchAge

LEMMA TailCostRest ==
  ASSUME TypeOK, IInv, TimingType, InStall, CopyCost, TailCost, TimedRest
  PROVE  TailCost'
<1>1. SUFFICES ASSUME ~rdy, stallOam # Never, oamPhase' = "Idle" PROVE TailCost'
  BY RestKeeps, Zenon DEF TailCost, stallVars
<1>2. UNCHANGED <<stall, stallOam, stallGets, sinceStop, dmcAbortPending, outputTimer>>
  BY <1>1, RestKeeps DEF stallVars, sampleTimes
<1>3. /\ DmcNow' = DmcNow /\ (NextPut' <=> NextPut) /\ (EmptyNow' <=> EmptyNow)
      /\ bytesRemaining = 0 /\ (DmcNow # "Idle" \/ EmptyNow) => bytesRemaining' = 0
  BY <1>1, NowKept
<1>4. DmcNow # "Idle" /\ Doomed => Doomed'
  BY <1>2, <1>3, Zenon DEF Doomed
<1>5. Extra' = Extra
  BY <1>2 DEF Extra, OamCost
<1>6. CASE oamPhase = "Idle"
  BY <1>1, <1>2, <1>3, <1>4, <1>5, <1>6 DEF TailCost
<1>7. CASE OAMPut /\ oamPhase = "Transfer" /\ oamIndex = PageSize - 1
  <2>1. phase = "phi2" /\ action = "OAMPut"
    BY <1>7 DEF OAMPut, EndCycle
  <2>2. ByteSteps = 2 /\ isAPUPutCycle /\ ~NextPut
    BY <1>7, <2>1 DEF ByteSteps, CopyCost, NextPut
  <2>3. stall = OamCost(stallOam) - 2 * (PageSize - oamIndex) + 2 * stallGets + ByteSteps
    BY <1>7 DEF CopyCost
  <2>4. OamCost(stallOam) \in Int /\ PageSize \in Nat /\ stallGets \in Nat
    BY <1>1, CostOfCopy, TimingConstants DEF TimingType
  <2>5. Extra = 0
    BY <1>7, <2>2, <2>3, <2>4 DEF Extra
  <2>6. QED
    BY <1>3, <1>5, <2>2, <2>5 DEF TailCost
<1>8. QED
  BY <1>1, <1>6, <1>7, HeldRest

LEMMA TimingRest ==
  ASSUME TypeOK, IInv, TimingInv, TimedRest
  PROVE  TimingInv'
<1>1. /\ TimingType /\ WindowInv /\ StopInv /\ LateInv /\ DelayInv /\ NoStall /\ InStall
      /\ FetchAlone /\ CopyCost /\ FetchAge /\ TailCost
  BY DEF TimingInv
<1>2. WindowInv' /\ StopInv' /\ LateInv' /\ DelayInv'
  BY <1>1, StopRest, LateRest, DelayRest
<1>3. TimingType' /\ NoStall' /\ InStall' /\ FetchAlone'
  BY <1>1, StallRest
<1>4. CopyCost' /\ FetchAge' /\ TailCost'
  BY <1>1, CopyCostRest, FetchAgeRest, TailCostRest
<1>5. QED
  BY <1>2, <1>3, <1>4 DEF TimingInv

(* Power-on and a reset leave nothing to measure.                          *)
LEMMA WindowClosed == WindowAt(PinOf(FALSE), Never)
<1>1. Never # 0 /\ Never # 1 /\ Never # 2 /\ Never # 3
  BY TimingConstants
<1>2. QED
  BY <1>1, Zenon DEF WindowAt

LEMMA TimingStarts ==
  TimingInit => TimingInv
<1> SUFFICES ASSUME TimingInit PROVE TimingInv
  OBVIOUS
<1>1. /\ rdy = TRUE /\ action = "None" /\ oamPhase = "Idle" /\ dmcPhase = "Idle"
      /\ hadBytesRecently = PinOf(FALSE) /\ dmaDelay = PinOf(FALSE)
      /\ stall = 0 /\ stallOam = Never /\ stallGets = 0 /\ stallAborts = 0
      /\ sinceStop = Never /\ lateGets = 0
  BY DEF TimingInit, Init
<1>2. TimingType
  BY <1>1 DEF TimingType
<1>3. WindowInv /\ StopInv /\ LateInv /\ DelayInv
  <2>1. WindowInv
    BY <1>1, WindowClosed, Zenon DEF WindowInv
  <2>2. QED
    BY <1>1, <2>1 DEF StopInv, LateInv, DelayInv
<1>4. NoStall /\ InStall /\ FetchAlone /\ CopyCost /\ FetchAge /\ TailCost
  BY <1>1 DEF NoStall, InStall, FetchAlone, CopyCost, FetchAge, TailCost
<1>5. QED
  BY <1>2, <1>3, <1>4 DEF TimingInv

LEMMA TimingRestarts ==
  ASSUME TimedReset
  PROVE  TimingInv'
<1>1. /\ rdy' = TRUE /\ action' = "None" /\ oamPhase' = "Idle" /\ dmcPhase' = "Idle"
      /\ hadBytesRecently' = PinOf(FALSE)
      /\ dmaDelay' = PinForce(dmaDelay, FALSE)
      /\ stall' = 0 /\ stallOam' = Never /\ stallGets' = 0 /\ stallAborts' = 0
      /\ sinceStop' = Never /\ lateGets' = 0
  BY DEF TimedReset, Reset
<1>2. dmaDelay' = PinOf(FALSE)
  BY <1>1, Zenon DEF PinForce
<1>3. TimingType'
  BY <1>1 DEF TimingType
<1>4. WindowInv' /\ StopInv' /\ LateInv' /\ DelayInv'
  <2>1. WindowInv'
    BY <1>1, WindowClosed, Zenon DEF WindowInv
  <2>2. DelayInv'
    BY <1>2, Zenon DEF DelayInv
  <2>3. DmcNow' = "Idle"
    BY <1>1 DEF DmcNow
  <2>4. StopInv' /\ LateInv'
    BY <1>1, <2>3 DEF StopInv, LateInv
  <2>5. QED
    BY <2>1, <2>2, <2>4
<1>5. NoStall' /\ InStall' /\ FetchAlone' /\ CopyCost' /\ FetchAge' /\ TailCost'
  BY <1>1 DEF NoStall, InStall, FetchAlone, CopyCost, FetchAge, TailCost
<1>6. QED
  BY <1>3, <1>4, <1>5 DEF TimingInv

LEMMA TimingStutters ==
  ASSUME TimingInv, UNCHANGED timingVars
  PROVE  TimingInv'
<1>1. UNCHANGED <<phase, isAPUPutCycle, rdy, action, oamPhase, oamIndex, oamHasByte,
                  dmcPhase, dmcHaltOnPut, dmcAbortPending, hadBytesRecently>>
  BY DEF timingVars, vars, oamVars, dmcVars
<1>2. UNCHANGED <<bytesRemaining, sampleBufferEmpty, outputTimer, dmaDelay,
                  reloadOnPut>>
  BY DEF timingVars, vars, sampleVars, outputVars
<1>3. UNCHANGED <<stall, stallOam, stallGets, stallAborts, sinceStop, lateGets>>
  BY DEF timingVars, stallVars, sampleTimes
<1>4. /\ DmcNow' = DmcNow /\ EmptyNow' = EmptyNow /\ NextPut' = NextPut
      /\ Doomed' = Doomed
  BY <1>1, <1>2, <1>3, Zenon DEF DmcNow, EmptyNow, NextPut, Fetching, Doomed
<1>5. ByteSteps' = ByteSteps /\ Extra' = Extra
  BY <1>1, <1>3 DEF ByteSteps, Extra, OamCost
<1>6. TimingType' /\ WindowInv' /\ StopInv' /\ LateInv' /\ DelayInv'
  BY <1>1, <1>2, <1>3, <1>4, Zenon
     DEF TimingInv, TimingType, WindowInv, StopInv, LateInv, DelayInv
<1>7. NoStall' /\ InStall' /\ FetchAlone' /\ CopyCost'
  BY <1>1, <1>3, <1>4, <1>5, Zenon
     DEF TimingInv, NoStall, InStall, FetchAlone, CopyCost, OamCost
<1>8. FetchAge' /\ TailCost'
  BY <1>1, <1>2, <1>3, <1>4, <1>5, Zenon DEF TimingInv, FetchAge, TailCost
<1>9. QED
  BY <1>6, <1>7, <1>8 DEF TimingInv

-----------------------------------------------------------------------------
(* The measured machine is the machine.                                    *)
LEMMA TimedStep == [TimingNext]_timingVars => [Next]_vars
BY DEF TimingNext, TimedPhi1, TimedRest, TimedReset, Next, Clock, timingVars

(* The invariant behind the figures holds in every reachable state.        *)
THEOREM TimingInvariance == TimingSpec => [](TypeOK /\ IInv /\ TimingInv)
<1>1. TimingInit => TypeOK /\ IInv /\ TimingInv
  BY InitType, InitInv, TimingStarts DEF TimingInit
<1>2. TypeOK /\ IInv /\ TimingInv /\ [TimingNext]_timingVars
        => (TypeOK /\ IInv /\ TimingInv)'
  <2> SUFFICES ASSUME TypeOK, IInv, TimingInv, [TimingNext]_timingVars
               PROVE  TypeOK' /\ IInv' /\ TimingInv'
    OBVIOUS
  <2>1. [Next]_vars
    BY TimedStep
  <2>2. TypeOK' /\ IInv'
    BY <2>1, StepInv, Phi1Type, WriteType, Phi2Type, JumpType, ResetType, StutterType
       DEF Next, Clock
  <2>3. TimingInv'
    BY TimingPhi1, TimingRest, TimingRestarts, TimingStutters DEF TimingNext
  <2>4. QED
    BY <2>2, <2>3
<1>3. QED
  BY <1>1, <1>2, PTL DEF TimingSpec

(* Only Phi1 takes a cycle to its CPU write.                               *)
LEMMA Phi1Only ==
  ASSUME TimingNext, phase' = "phi2w"
  PROVE  TimedPhi1
<1>1. TimedRest => phase' # "phi2w"
  <2>1. NoWrite \/ CallPlay \/ InitSong => phase' # "phi2w"
    BY DEF NoWrite, CallPlay, InitSong, CpuJumps
  <2>2. Write => phase' # "phi2w"
    BY DEF Write, WriteOther, WriteOAMDMA, WriteDmcFlags, WriteDmcLength, StartSample,
           StopSample, CpuWriting
  <2>3. Phi2 => phase' # "phi2w"
    BY DEF Phi2, NoAccess, DMCGet, OAMGet, OAMPut, EndCycle
  <2>4. QED
    BY <2>1, <2>2, <2>3 DEF TimedRest
<1>2. TimedReset => phase' # "phi2w"
  BY DEF TimedReset, Reset
<1>3. QED
  BY <1>1, <1>2 DEF TimingNext

(* A sample that has ended takes at most one more fetch from the CPU,      *)
(* however the end falls among the cycles of the two units.                *)
THEOREM AtMostOneLateGet == TimingSpec => []OneLateGet
<1>1. TimingInv => OneLateGet
  BY DEF TimingInv, LateInv, OneLateGet
<1>2. QED
  BY <1>1, TimingInvariance, PTL

(* A fetch scheduled two or three cycles after its sample ended is the one *)
(* the abort window cancels, whatever the program and the other unit do.   *)
THEOREM AbortWindowHolds == TimingSpec => AbortWindow
<1>1. ASSUME TypeOK, TimingInv, TimingNext, phase' = "phi2w"
      PROVE  /\ DmcScheduled => sinceStop' <= 3
             /\ dmcPhase # "Idle" /\ dmcAbortPending =>
                  (DmcAborted <=> sinceStop' \in {3, 4})
  BY <1>1, Phi1Only, WindowDecides DEF TimingInv
<1>2. TypeOK /\ TimingInv /\ [TimingNext]_timingVars =>
        [phase' = "phi2w" /\ sinceStop # Never =>
           /\ DmcScheduled => sinceStop' <= 3
           /\ dmcPhase # "Idle" /\ dmcAbortPending =>
                (DmcAborted <=> sinceStop' \in {3, 4})]_timingVars
  BY <1>1
<1>3. QED
  BY <1>2, TimingInvariance, PTL DEF TimingSpec, AbortWindow

(* What a stall has cost when RDY is released.                             *)
LEMMA CostOfFetches ==
  ASSUME TypeOK, IInv, TimingInv, TimedPhi1, rdy', ~rdy, stallOam = Never
  PROVE  stall \in StallLengths(stallOam, stallGets,
                                stallAborts + (IF DmcAborted THEN 1 ELSE 0))
<1>1. oamPhase # "Transfer" /\ oamPhase # "Halt" /\ dmcPhase' \notin {"Dummy", "Read"}
  BY Phi1Frame, OamMoves
<1>2. DmcNow = dmcPhase /\ stall \in Nat /\ stallGets \in Nat
  BY NowAtPhi1 DEF TimingInv, TimingType
<1>3. stallAborts = 0 /\ (dmcPhase = "Idle" => stall \in 3 * stallGets .. 4 * stallGets)
      /\ (dmcPhase = "Dummy" => stall \in 3 * stallGets + 1 .. 4 * stallGets + 1)
  BY <1>2 DEF TimingInv, FetchAlone
<1>4. dmcPhase # "Halt"
  BY <1>1, <1>2 DEF TimingInv, InStall, TypeOK, OamType
<1>5. dmcPhase # "Read"
  <2>1. dmcPhase = "Read" => ~DmcAborted
    BY DEF TimingInv, StopInv, DmcAborted
  <2>2. QED
    BY <1>1, <2>1, DmcMoves
<1>6. CASE dmcPhase = "Idle"
  <2>1. ~DmcAborted
    BY <1>6 DEF DmcAborted
  <2>2. QED
    BY <1>2, <1>3, <1>6, <2>1 DEF StallLengths
<1>7. CASE dmcPhase = "Dummy"
  <2>1. DmcAborted
    BY <1>1, <1>7, DmcMoves
  <2>2. QED
    BY <1>2, <1>3, <1>7, <2>1 DEF StallLengths
<1>8. QED
  BY <1>4, <1>5, <1>6, <1>7 DEF TypeOK, DmcType

LEMMA CostOfStall ==
  ASSUME TypeOK, IInv, TimingInv, TimedPhi1, rdy', ~rdy, stallOam # Never
  PROVE  stall \in StallLengths(stallOam, stallGets,
                                stallAborts + (IF DmcAborted THEN 1 ELSE 0))
<1> DEFINE aborts == stallAborts + (IF DmcAborted THEN 1 ELSE 0)
<1>1. oamPhase = "Idle" /\ dmcPhase' \notin {"Dummy", "Read"}
  BY Phi1Frame, OamMoves DEF TypeOK, OamType
<1>2. /\ DmcNow = dmcPhase /\ stall \in Nat /\ stallGets \in Nat /\ stallAborts \in Nat
      /\ OamCost(stallOam) \in Int
  BY NowAtPhi1, CostOfCopy, TimingConstants DEF TimingInv, TimingType
<1>3. aborts \in Nat /\ (DmcAborted => aborts > 0)
  BY <1>2
<1>4. dmcPhase # "Read"
  <2>1. dmcPhase = "Read" => ~DmcAborted
    BY DEF TimingInv, StopInv, DmcAborted
  <2>2. QED
    BY <1>1, <2>1, DmcMoves
<1>5. dmcPhase = "Dummy" => DmcAborted
  BY <1>1, DmcMoves
<1>6. \/ Extra = 0
      \/ stallGets > 0 /\ Extra \in {-1, 1}
      \/ DmcAborted /\ Extra = 1
      \/ DmcAborted /\ Extra = 2 /\ stallGets > 0
  <2>1. TailCost
    BY DEF TimingInv
  <2>2. CASE dmcPhase = "Idle"
    BY <1>1, <1>2, <2>1, <2>2 DEF TailCost
  <2>3. CASE dmcPhase = "Halt"
    BY <1>1, <1>2, <2>1, <2>3 DEF TailCost
  <2>4. CASE dmcPhase = "Dummy"
    BY <1>1, <1>2, <1>5, <2>1, <2>4 DEF TailCost
  <2>5. QED
    BY <1>4, <2>2, <2>3, <2>4 DEF TypeOK, DmcType
<1>7. stall = Extra + OamCost(stallOam) + 2 * stallGets
  BY <1>2 DEF Extra
<1> HIDE DEF aborts
<1>8. stall \in StallLengths(stallOam, stallGets, aborts)
  BY <1>2, <1>3, <1>6, <1>7 DEF StallLengths
<1>9. QED
  BY <1>8 DEF aborts

(* Whatever the two units do to each other, the program does and however   *)
(* the sample rate changes, the CPU loses exactly the cycles the hardware  *)
(* notes give.                                                             *)
THEOREM StallCostHolds == TimingSpec => StallCost
<1>1. ASSUME TypeOK, IInv, TimingInv, TimingNext, rdy', ~rdy, phase' = "phi2w"
      PROVE  stall \in StallLengths(stallOam, stallGets,
                                    stallAborts + (IF DmcAborted THEN 1 ELSE 0))
  BY <1>1, Phi1Only, CostOfFetches, CostOfStall
<1>2. TypeOK /\ IInv /\ TimingInv /\ [TimingNext]_timingVars =>
        [rdy' /\ ~rdy /\ phase' = "phi2w" =>
           stall \in StallLengths(stallOam, stallGets,
                                  stallAborts + (IF DmcAborted THEN 1 ELSE 0))
        ]_timingVars
  BY <1>1
<1>3. QED
  BY <1>2, TimingInvariance, PTL DEF TimingSpec, StallCost

-----------------------------------------------------------------------------
(***************************************************************************)
(* Part 3: Controllers.                                                    *)
(***************************************************************************)
(* The inductive invariant.  PadsAgree is OneClockPerEnable at every step  *)
(* of a cycle.  A line left asserted is that of the last port read; while  *)
(* the strobe is on none is, but for the write cycle that raises it.       *)
PadType ==
  /\ cpuAddr \in Pads \cup {"reg", "else"}
  /\ controllerStrobe \in BOOLEAN
  /\ controllerShift = [p \in Pads |-> controllerShift[p]]
  /\ clocked = [p \in Pads |-> clocked[p]]
  /\ enabled \subseteq Pads

PadsAgree ==
  \A p \in Pads :
    /\ p \in enabled => /\ controllerShift[p] = Following(clocked[p])
                        /\ controllerLatch = clocked[p]
    /\ p \notin enabled => controllerShift[p] = clocked[p]

LinesFollowReads ==
  /\ enabled \subseteq {lastBusReadAddr}
  /\ controllerStrobe /\ (phase = "phi1" \/ CpuRead(cpuCycle)) => enabled = {}

(* A port that was read last and is not enabled any more is not about to   *)
(* be read again as if its run went on: the strobe is on, or the CPU has   *)
(* to fetch from elsewhere first.                                          *)
RunEnded ==
  lastBusReadAddr \in Pads \ enabled =>
    \/ controllerStrobe
    \/ ~CpuRead(cpuCycle)
    \/ cpuAddr = "reg"
    \/ phase # "phi1" /\ cpuAddr = "else"

(* OAM DMA catches the CPU in the cycle after its write, or in an opcode   *)
(* fetch on a PAL machine, so it never finds it at a port; and with a byte *)
(* read, the last read on the bus was its own.                             *)
CopyOffPads ==
  /\ oamPhase = "Halt" => ~Haltable(cpuCycle)
  /\ oamPhase = "Transfer" => cpuAddr = "else"
  /\ oamPhase = "Transfer" /\ oamHasByte => lastBusReadAddr \notin Pads

PadInv == PadType /\ PadsAgree /\ LinesFollowReads /\ RunEnded /\ CopyOffPads
ControllersInv == TypeOK /\ IInv /\ PadInv

-----------------------------------------------------------------------------
LEMMA PadInit == ControllersInit => ControllersInv
<1> SUFFICES ASSUME ControllersInit PROVE ControllersInv
  OBVIOUS
<1>1. TypeOK /\ IInv
  BY InitType, InitInv DEF ControllersInit
<1>2. PadType /\ PadsAgree
  BY DEF ControllersInit, PadType, PadsAgree, Pads
<1>3. LinesFollowReads /\ RunEnded
  BY DEF ControllersInit, LinesFollowReads, RunEnded, Pads
<1>4. CopyOffPads
  BY DEF ControllersInit, Init, CopyOffPads
<1>5. QED
  BY <1>1, <1>2, <1>3, <1>4 DEF ControllersInv, PadInv

(* DriveAddress in words: a stalled CPU keeps its address, one that goes   *)
(* on drives a register only for a data read that follows another read.    *)
LEMMA AddressDriven ==
  ASSUME DriveAddress, cpuAddr \in Pads \cup {"reg", "else"}
  PROVE  /\ cpuAddr' \in Pads \cup {"reg", "else"}
         /\ CpuStalled => cpuAddr' = cpuAddr
         /\ ~CpuStalled /\ cpuAddr' # "else" =>
              cpuCycle' = "read" /\ CpuRead(cpuCycle) /\ cpuAddr # "reg"
BY DEF DriveAddress, NextReads, Pads

LEMMA PadPhi1 ==
  ASSUME ControllersInv, Phi1, DriveAddress,
         UNCHANGED <<lastBusReadAddr, controllerShift, controllerLatch,
                     controllerStrobe, enabled, clocked>>
  PROVE  PadInv'
<1>1. PadType'
  BY AddressDriven DEF ControllersInv, PadInv, PadType
<1>2. PadsAgree'
  BY DEF ControllersInv, PadInv, PadsAgree
<1>3. phase = "phi1" /\ phase' = "phi2w"
  BY DEF Phi1
<1>4. LinesFollowReads'
  BY <1>3 DEF ControllersInv, PadInv, LinesFollowReads
<1>5. RunEnded'
  <2> SUFFICES ASSUME lastBusReadAddr \in Pads \ enabled, ~controllerStrobe
               PROVE  cpuAddr' \in {"reg", "else"}
    BY <1>3 DEF RunEnded
  <2>1. ~CpuRead(cpuCycle) \/ cpuAddr = "reg"
    BY <1>3 DEF ControllersInv, PadInv, RunEnded
  <2>2. QED
    BY <2>1, AddressDriven DEF ControllersInv, PadInv, PadType, CpuStalled
<1>6. CopyOffPads'
  <2>1. DmaOamPhi1 /\ CpuPhi1
    BY DEF Phi1, DmaPhi1
  <2>2. oamPhase' = "Halt" => ~Haltable(cpuCycle')
    BY <2>1 DEF DmaOamPhi1
  <2>3. oamPhase = "Transfer" => CpuStalled /\ cpuAddr = "else"
    BY DEF ControllersInv, IInv, HoldInv, PadInv, CopyOffPads, CpuStalled, Haltable
  <2>4. oamPhase = "Halt" /\ Haltable(cpuCycle') => cpuAddr' = "else"
    <3> SUFFICES ASSUME oamPhase = "Halt", Haltable(cpuCycle')
                 PROVE  cpuAddr' = "else"
      OBVIOUS
    <3>1. ~Haltable(cpuCycle)
      BY DEF ControllersInv, PadInv, CopyOffPads
    <3>2. ~CpuStalled
      BY DEF ControllersInv, IInv, HoldInv, CpuStalled
    <3>3. ~CpuRead(cpuCycle) \/ cpuCycle' = "fetch"
      BY <3>1 DEF Haltable
    <3>4. QED
      BY <3>2, <3>3, AddressDriven DEF ControllersInv, PadInv, PadType
  <2>5. oamPhase' = "Transfer" => cpuAddr' = "else"
    BY <2>1, <2>3, <2>4, AddressDriven DEF DmaOamPhi1, ControllersInv, PadInv, PadType
  <2>6. oamPhase' = "Transfer" /\ oamHasByte' => lastBusReadAddr' \notin Pads
    BY <2>1 DEF DmaOamPhi1, ControllersInv, PadInv, CopyOffPads
  <2>7. QED
    BY <2>2, <2>5, <2>6 DEF CopyOffPads
<1>7. QED
  BY <1>1, <1>2, <1>4, <1>5, <1>6 DEF PadInv

LEMMA PadNoWrite ==
  ASSUME ControllersInv, NoWrite, UNCHANGED padVars
  PROVE  PadInv'
<1>1. /\ phase = "phi2w" /\ phase' = "phi2"
      /\ UNCHANGED <<cpuCycle, oamPhase, oamHasByte>>
  BY DEF NoWrite, cpuVars, oamVars
<1>2. PadType' /\ PadsAgree'
  BY DEF padVars, ControllersInv, PadInv, PadType, PadsAgree
<1>3. LinesFollowReads' /\ RunEnded' /\ CopyOffPads'
  BY <1>1 DEF padVars, ControllersInv, PadInv, LinesFollowReads, RunEnded, CopyOffPads
<1>4. QED
  BY <1>2, <1>3 DEF PadInv

(* A write happens in a write cycle, whatever its register.                *)
LEMMA WriteCycle ==
  ASSUME Write
  PROVE  /\ phase = "phi2w" /\ phase' = "phi2" /\ UNCHANGED cpuCycle
         /\ ~CpuRead(cpuCycle)
         /\ oamPhase' = "Halt" \/ UNCHANGED <<oamPhase, oamHasByte>>
BY DEF Write, WriteOther, WriteOAMDMA, WriteDmcFlags, WriteDmcLength, StartSample,
       StopSample, CpuWriting, cpuVars, oamVars

LEMMA PadWrite ==
  ASSUME ControllersInv, Write, PadsWrite
  PROVE  PadInv'
<1>1. UNCHANGED <<cpuAddr, lastBusReadAddr, controllerShift, controllerLatch,
                  enabled, clocked>>
  BY DEF PadsWrite
<1>2. controllerStrobe' \in BOOLEAN
  BY DEF PadsWrite, ControllersInv, PadInv, PadType
<1>3. PadType' /\ PadsAgree'
  BY <1>1, <1>2 DEF ControllersInv, PadInv, PadType, PadsAgree
<1>4. LinesFollowReads' /\ RunEnded'
  BY <1>1, WriteCycle DEF ControllersInv, PadInv, LinesFollowReads, RunEnded
<1>5. CopyOffPads'
  BY <1>1, WriteCycle DEF ControllersInv, PadInv, CopyOffPads, Haltable
<1>6. QED
  BY <1>3, <1>4, <1>5 DEF PadInv

-----------------------------------------------------------------------------
(* One read of the bus, by the CPU or by DMA, with the enable its address  *)
(* asserts: it begins a run exactly when the enable was not asserted.      *)
LEMMA ReadAgrees ==
  ASSUME PadType, PadsAgree, enabled \subseteq {lastBusReadAddr},
         NEW addr \in Pads \cup {"reg", "else"},
         controllerStrobe => enabled = {},
         ~controllerStrobe /\ addr \in Pads /\ lastBusReadAddr = addr => addr \in enabled,
         BusRead(addr), Lines(Pads \cap {addr})
  PROVE  /\ PadsAgree'
         /\ enabled' \subseteq {addr} /\ enabled' \subseteq Pads
         /\ controllerStrobe => enabled' = {}
         /\ ~controllerStrobe => enabled' = Pads \cap {addr}
         /\ controllerShift' = [p \in Pads |-> controllerShift'[p]]
         /\ clocked' = [p \in Pads |-> clocked'[p]]
<1>1. enabled' = IF controllerStrobe THEN {} ELSE Pads \cap {addr}
  BY DEF Lines
<1>2. \A p \in Pads :
        clocked'[p] = IF controllerStrobe /\ ~isAPUPutCycle THEN 0
                      ELSE IF p \in enabled \ {addr} THEN Following(clocked[p])
                      ELSE clocked[p]
  BY DEF Lines
<1>3. \A p \in Pads :
        controllerShift'[p] =
          IF controllerStrobe /\ ~isAPUPutCycle THEN 0
          ELSE IF p = addr /\ lastBusReadAddr # addr /\ ~controllerStrobe
               THEN Following(controllerShift[p]) ELSE controllerShift[p]
  BY DEF BusRead
<1>4. /\ controllerShift' = [p \in Pads |-> controllerShift'[p]]
      /\ clocked' = [p \in Pads |-> clocked'[p]]
  BY DEF BusRead, Lines
<1>5. PadsAgree'
  <2> SUFFICES ASSUME NEW p \in Pads
               PROVE  /\ p \in enabled' => /\ controllerShift'[p] = Following(clocked'[p])
                                           /\ controllerLatch' = clocked'[p]
                      /\ p \notin enabled' => controllerShift'[p] = clocked'[p]
    BY DEF PadsAgree, Following
  <2>1. CASE controllerStrobe
    BY <1>1, <1>2, <1>3, <2>1 DEF PadsAgree
  <2>2. CASE ~controllerStrobe /\ p # addr
    BY <1>1, <1>2, <1>3, <2>2 DEF PadsAgree
  <2>3. CASE ~controllerStrobe /\ p = addr
    <3>1. p \in enabled' /\ clocked'[p] = clocked[p]
      BY <1>1, <1>2, <2>3
    <3>2. controllerLatch' = IF lastBusReadAddr # p THEN controllerShift[p]
                             ELSE controllerLatch
      BY <2>3 DEF BusRead
    <3>3. controllerShift'[p] = IF lastBusReadAddr # p THEN Following(controllerShift[p])
                                ELSE controllerShift[p]
      BY <1>3, <2>3
    <3>4. CASE lastBusReadAddr # p
      <4>1. p \notin enabled
        BY <3>4
      <4>2. controllerShift[p] = clocked[p]
        BY <4>1 DEF PadsAgree
      <4>3. QED
        BY <3>1, <3>2, <3>3, <3>4, <4>2
    <3>5. CASE lastBusReadAddr = p
      <4>1. p \in enabled
        BY <2>3, <3>5
      <4>2. controllerShift[p] = Following(clocked[p]) /\ controllerLatch = clocked[p]
        BY <4>1 DEF PadsAgree
      <4>3. QED
        BY <3>1, <3>2, <3>3, <3>5, <4>2
    <3>6. QED
      BY <3>4, <3>5
  <2>4. QED
    BY <2>1, <2>2, <2>3
<1>6. QED
  BY <1>1, <1>4, <1>5

(* A cycle without a read: the ports enabled in the one before are let go. *)
LEMMA QuietAgrees ==
  ASSUME PadType, PadsAgree, NoBusRead, Lines({})
  PROVE  /\ PadsAgree' /\ enabled' = {}
         /\ controllerShift' = [p \in Pads |-> controllerShift'[p]]
         /\ clocked' = [p \in Pads |-> clocked'[p]]
<1>1. enabled' = {}
  BY DEF Lines
<1>2. \A p \in Pads :
        clocked'[p] = IF controllerStrobe /\ ~isAPUPutCycle THEN 0
                      ELSE IF p \in enabled THEN Following(clocked[p])
                      ELSE clocked[p]
  BY DEF Lines
<1>3. \A p \in Pads :
        controllerShift'[p] = IF controllerStrobe /\ ~isAPUPutCycle THEN 0
                              ELSE controllerShift[p]
  BY DEF NoBusRead
<1>4. controllerShift' = [p \in Pads |-> controllerShift'[p]]
  BY DEF NoBusRead, PadType
<1>5. clocked' = [p \in Pads |-> clocked'[p]]
  BY DEF Lines
<1>6. PadsAgree'
  BY <1>1, <1>2, <1>3 DEF PadsAgree
<1>7. QED
  BY <1>1, <1>4, <1>5, <1>6

LEMMA PadPhi2 ==
  ASSUME ControllersInv, Phi2, PadsPhi2, UNCHANGED <<cpuAddr, controllerStrobe>>
  PROVE  PadInv'
<1>1. phase = "phi2" /\ phase' = "phi1" /\ UNCHANGED <<cpuCycle, action>>
  BY DEF Phi2, NoAccess, DMCGet, OAMGet, OAMPut, EndCycle
<1>2. PadType /\ PadsAgree /\ LinesFollowReads /\ RunEnded /\ CopyOffPads
  BY DEF ControllersInv, PadInv
<1>3. action # "None" => CpuRead(cpuCycle)
  BY DEF ControllersInv, IInv, HoldInv, Haltable
<1>4. /\ oamPhase' = oamPhase \/ oamPhase' = "Idle"
      /\ action = "OAMPut" => oamPhase = "Transfer" /\ oamHasByte /\ ~oamHasByte'
      /\ action # "OAMGet" /\ oamHasByte' => oamHasByte
  <2>1. action = "OAMPut" => oamPhase = "Transfer" /\ oamHasByte
    BY <1>1 DEF ControllersInv, IInv, AccessInv
  <2>2. QED
    BY <2>1 DEF Phi2, NoAccess, DMCGet, OAMGet, OAMPut, oamVars
<1>5. CASE /\ CpuRead(cpuCycle)
           /\ \E addr \in Pads \cup {"reg", "else"} :
                /\ BusRead(addr) /\ Lines(Pads \cap {addr})
                /\ cpuAddr = "else" => addr = "else"
                /\ cpuAddr = "reg" => addr \notin Pads \cap {lastBusReadAddr}
  <2>1. PICK addr \in Pads \cup {"reg", "else"} :
          /\ BusRead(addr) /\ Lines(Pads \cap {addr})
          /\ cpuAddr = "else" => addr = "else"
          /\ cpuAddr = "reg" => addr \notin Pads \cap {lastBusReadAddr}
    BY <1>5
  <2>2. enabled \subseteq {lastBusReadAddr} /\ (controllerStrobe => enabled = {})
    BY <1>2, <1>5 DEF LinesFollowReads
  <2>3. ~controllerStrobe /\ addr \in Pads /\ lastBusReadAddr = addr => addr \in enabled
    BY <1>2, <1>5, <2>1 DEF RunEnded, Pads
  <2>4. /\ PadsAgree'
        /\ enabled' \subseteq {addr} /\ enabled' \subseteq Pads
        /\ controllerStrobe => enabled' = {}
        /\ ~controllerStrobe => enabled' = Pads \cap {addr}
        /\ controllerShift' = [p \in Pads |-> controllerShift'[p]]
        /\ clocked' = [p \in Pads |-> clocked'[p]]
    BY <1>2, <2>1, <2>2, <2>3, ReadAgrees
  <2>5. lastBusReadAddr' = addr
    BY <2>1 DEF BusRead
  <2>6. PadType'
    BY <1>2, <2>4 DEF PadType
  <2>7. LinesFollowReads' /\ RunEnded'
    BY <2>4, <2>5 DEF LinesFollowReads, RunEnded
  <2>8. CopyOffPads'
    BY <1>1, <1>2, <1>4, <2>1, <2>5 DEF CopyOffPads, Pads
  <2>9. QED
    BY <2>4, <2>6, <2>7, <2>8 DEF PadInv
<1>6. CASE /\ NoBusRead /\ Lines({})
           /\ action = "OAMPut" \/ ~CpuRead(cpuCycle) \/ cpuAddr = "reg"
           /\ action \in {"None", "OAMPut"}
  <2>1. /\ PadsAgree' /\ enabled' = {}
        /\ controllerShift' = [p \in Pads |-> controllerShift'[p]]
        /\ clocked' = [p \in Pads |-> clocked'[p]]
    BY <1>2, <1>6, QuietAgrees
  <2>2. lastBusReadAddr' = lastBusReadAddr
    BY <1>6 DEF NoBusRead
  <2>3. PadType' /\ LinesFollowReads'
    BY <1>2, <2>1 DEF PadType, LinesFollowReads
  <2>4. RunEnded'
    BY <1>1, <1>2, <1>4, <1>6, <2>2 DEF RunEnded, CopyOffPads
  <2>5. CopyOffPads'
    BY <1>1, <1>2, <1>4, <1>6, <2>2 DEF CopyOffPads
  <2>6. QED
    BY <2>1, <2>3, <2>4, <2>5 DEF PadInv
<1>7. QED
  <2>1. CASE /\ action = "None" /\ CpuRead(cpuCycle) /\ cpuAddr # "reg"
             /\ BusRead(cpuAddr) /\ Lines(Pads \cap {cpuAddr})
    BY <1>2, <1>5, <2>1 DEF PadType
  <2>2. CASE /\ action \in {"DMCGet", "OAMGet"}
             /\ \E low \in DmaRegisters :
                  DmaRead(low) /\ Lines(IF cpuAddr = "else" THEN {} ELSE Pads \cap {low})
    <3>1. PICK low \in DmaRegisters :
            DmaRead(low) /\ Lines(IF cpuAddr = "else" THEN {} ELSE Pads \cap {low})
      BY <2>2
    <3>2. low \in Pads \cup {"else"} /\ (cpuAddr = "reg" /\ low \in Pads => low # lastBusReadAddr)
      BY <3>1 DEF DmaRegisters, Pads
    <3>3. CpuRead(cpuCycle)
      BY <1>3, <2>2
    <3>4. CASE cpuAddr # "else" /\ low \in Pads
      <4>1. BusRead(low) /\ Lines(Pads \cap {low})
        BY <3>1, <3>4 DEF DmaRead
      <4>2. QED
        BY <1>5, <3>2, <3>3, <3>4, <4>1
    <3>5. CASE ~(cpuAddr # "else" /\ low \in Pads)
      <4>1. Pads \cap {"else"} = {}
        BY DEF Pads
      <4>2. (IF cpuAddr = "else" THEN {} ELSE Pads \cap {low}) = Pads \cap {"else"}
        BY <3>2, <3>5, <4>1
      <4>3. BusRead("else") /\ Lines(Pads \cap {"else"})
        BY <3>1, <3>5, <4>2 DEF DmaRead
      <4>4. QED
        BY <1>5, <3>3, <4>1, <4>3
    <3>6. QED
      BY <3>4, <3>5
  <2>3. QED
    BY <1>6, <2>1, <2>2 DEF PadsPhi2

LEMMA ControllersStep == ControllersInv /\ [ControllersNext]_controllersVars => ControllersInv'
<1> SUFFICES ASSUME ControllersInv, [ControllersNext]_controllersVars
             PROVE  ControllersInv'
  OBVIOUS
<1>1. CASE UNCHANGED controllersVars
  <2>1. TypeOK' /\ IInv'
    BY <1>1, StutterType, StutterInv DEF controllersVars, ControllersInv
  <2>2. UNCHANGED <<phase, cpuCycle, oamPhase, oamHasByte>> /\ UNCHANGED padVars
    BY <1>1 DEF controllersVars, vars, cpuVars, oamVars
  <2>3. PadInv'
    BY <2>2 DEF padVars, ControllersInv, PadInv, PadType, PadsAgree, LinesFollowReads,
                RunEnded, CopyOffPads
  <2>4. QED
    BY <2>1, <2>3 DEF ControllersInv
<1>2. CASE /\ Phi1 /\ DriveAddress
           /\ UNCHANGED <<lastBusReadAddr, controllerShift, controllerLatch,
                          controllerStrobe, enabled, clocked>>
  BY <1>2, Phi1Type, Phi1Inv, PadPhi1 DEF ControllersInv
<1>3. CASE NoWrite /\ UNCHANGED padVars
  BY <1>3, WriteType, WriteInv, PadNoWrite DEF ControllersInv
<1>4. CASE Write /\ PadsWrite
  BY <1>4, WriteType, WriteInv, PadWrite DEF ControllersInv
<1>5. CASE Phi2 /\ PadsPhi2 /\ UNCHANGED <<cpuAddr, controllerStrobe>>
  BY <1>5, Phi2Type, Phi2Inv, PadPhi2 DEF ControllersInv
<1>6. QED
  BY <1>1, <1>2, <1>3, <1>4, <1>5 DEF ControllersNext

(* The port shifts once for each assertion of its output enable, and gives *)
(* the button that was first then: NESSystem::readMemory's run of reads is *)
(* the machine's, whatever DMA does to the reads of a program.             *)
THEOREM PadsShiftWithTheirLines == ControllersSpec => []OneClockPerEnable
<1>1. ControllersInv => OneClockPerEnable
  BY DEF ControllersInv, PadInv, PadsAgree, OneClockPerEnable
<1>2. QED
  BY <1>1, PadInit, ControllersStep, PTL DEF ControllersSpec
=============================================================================
