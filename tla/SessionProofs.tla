--------------------------- MODULE SessionProofs ---------------------------
(***************************************************************************)
(* The rewind history is exact for any machine, any history length and any *)
(* number of slots: proofs about module Session.  After them those about   *)
(* module NSFPlayer, a song that is never far from its beat.               *)
(***************************************************************************)
EXTENDS Session, NSFPlayer, SequenceTheorems, WellFoundedInduction, TLAPS

LEMMA SavedTypes ==
  /\ \A p \in Saved : p \in Parts
  /\ MaxHistory \in Nat /\ MaxHistory > 0
  /\ MaxRestarts \in Nat
  /\ NoState \notin Buffers /\ NoState \notin States
BY SessionAssumption DEF SessionAssumption, Buffers, States

LEMMA SaveStateType ==
  ASSUME NEW state \in States
  PROVE  SaveState(state) \in Buffers
BY SavedTypes DEF States, Buffers, SaveState

LEMMA LoadStateType ==
  ASSUME NEW state \in States, NEW buf \in Buffers
  PROVE  LoadState(state, buf) \in States
BY DEF States, Buffers, LoadState

LEMMA ChangesType ==
  ASSUME NEW old \in Buffers, NEW new \in Buffers
  PROVE  Changes(old, new) \in Differences
<1> DEFINE parts == {q \in Saved : old[q] # new[q]}
<1>1. parts \in SUBSET Saved
  OBVIOUS
<1>2. Changes(old, new) \in [parts -> Values]
  BY DEF Changes, Buffers
<1>3. QED
  BY <1>1, <1>2 DEF Differences

LEMMA UndoType ==
  ASSUME NEW changes \in Differences, NEW buf \in Buffers
  PROVE  Undo(changes, buf) \in Buffers
<1>1. PICK parts \in SUBSET Saved : changes \in [parts -> Values]
  BY DEF Differences
<1>2. QED
  BY <1>1 DEF Undo, Buffers

(* Undoing what changed gives the old buffer back.                         *)
LEMMA UndoChanges ==
  ASSUME NEW old \in Buffers, NEW new \in Buffers
  PROVE  Undo(Changes(old, new), new) = old
<1> DEFINE parts == {q \in Saved : old[q] # new[q]}
<1>1. DOMAIN Changes(old, new) = parts
  BY DEF Changes
<1>2. \A p \in parts : Changes(old, new)[p] = old[p]
  BY DEF Changes
<1>3. \A p \in Saved : Undo(Changes(old, new), new)[p] = old[p]
  BY <1>1, <1>2 DEF Undo
<1>4. QED
  BY <1>3 DEF Undo, Buffers

(* Loading what was saved of a machine whose every part is saved is that   *)
(* machine, whatever ran before.                                           *)
LEMMA LoadSaved ==
  ASSUME Saved = Parts, NEW now \in States, NEW state \in States
  PROVE  LoadState(now, SaveState(state)) = state
BY DEF States, LoadState, SaveState

-----------------------------------------------------------------------------
(* Chains of differences grow at the new end and lose either end.          *)
LEMMA ChainGrows ==
  ASSUME NEW history \in Seq(Differences), NEW ends \in Seq(States),
         Chained(history, ends), NEW state \in States
  PROVE  Chained(Append(history, Changes(SaveState(ends[Len(ends)]),
                                         SaveState(state))),
                 Append(ends, state))
<1> DEFINE n == Len(history)
           d == Changes(SaveState(ends[Len(ends)]), SaveState(state))
           h == Append(history, d)
           e == Append(ends, state)
<1>1. n \in Nat /\ Len(ends) = n + 1 /\ Len(h) = n + 1 /\ Len(e) = n + 2
  BY DEF Chained
<1>2. ends[n + 1] \in States
  BY <1>1
<1>3. e[n + 2] = state /\ e[n + 1] = ends[n + 1] /\ h[n + 1] = d
  BY <1>1
<1>4. Undo(h[n + 1], SaveState(e[n + 2])) = SaveState(e[n + 1])
  BY <1>1, <1>2, <1>3, SaveStateType, UndoChanges
<1>5. \A i \in 1..n : h[i] = history[i] /\ e[i] = ends[i] /\ e[i + 1] = ends[i + 1]
  BY <1>1
<1>6. \A i \in 1..n : Undo(h[i], SaveState(e[i + 1])) = SaveState(e[i])
  BY <1>5 DEF Chained
<1>7. \A i \in 1..Len(h) : i = n + 1 \/ i \in 1..n
  BY <1>1
<1>8. \A i \in 1..Len(h) : Undo(h[i], SaveState(e[i + 1])) = SaveState(e[i])
  <2>1. TAKE i \in 1..Len(h)
  <2>2. CASE i = n + 1
    <3>1. i + 1 = n + 2
      BY <1>1, <2>2
    <3>2. QED
      BY <1>4, <2>2, <3>1
  <2>3. CASE i \in 1..n
    BY <1>6, <2>3
  <2>4. QED
    BY <1>7, <2>2, <2>3
<1>9. QED
  BY <1>1, <1>8 DEF Chained

LEMMA ChainLosesOldest ==
  ASSUME NEW history \in Seq(Differences), NEW ends \in Seq(States),
         Chained(history, ends), history # << >>
  PROVE  Chained(Tail(history), Tail(ends))
<1> DEFINE n == Len(history)
<1>1. n \in Nat /\ n > 0 /\ Len(ends) = n + 1
  BY DEF Chained
<1>2. Len(Tail(history)) = n - 1 /\ Len(Tail(ends)) = n
  BY <1>1
<1>3. \A i \in 1..n-1 : /\ Tail(history)[i] = history[i + 1]
                        /\ Tail(ends)[i] = ends[i + 1]
                        /\ Tail(ends)[i + 1] = ends[i + 2]
  BY <1>1
<1>4. \A i \in 1..n-1 : i + 1 \in 1..n /\ (i + 1) + 1 = i + 2
  BY <1>1
<1>5. \A i \in 1..n-1 :
        Undo(Tail(history)[i], SaveState(Tail(ends)[i + 1])) = SaveState(Tail(ends)[i])
  BY <1>3, <1>4 DEF Chained
<1>6. QED
  BY <1>1, <1>2, <1>5 DEF Chained

LEMMA WithoutLast ==
  ASSUME NEW S, NEW seq \in Seq(S), Len(seq) > 0
  PROVE  /\ SubSeq(seq, 1, Len(seq) - 1) \in Seq(S)
         /\ Len(SubSeq(seq, 1, Len(seq) - 1)) = Len(seq) - 1
         /\ \A i \in 1..Len(seq)-1 : SubSeq(seq, 1, Len(seq) - 1)[i] = seq[i]
<1> DEFINE m == Len(seq) - 1
<1>1. m \in Nat /\ 1 \in Int
  OBVIOUS
<1>2. \A i \in 1..m : seq[i] \in S
  OBVIOUS
<1>3. /\ SubSeq(seq, 1, m) \in Seq(S)
      /\ Len(SubSeq(seq, 1, m)) = IF 1 <= m THEN m - 1 + 1 ELSE 0
      /\ \A i \in 1 .. m - 1 + 1 : SubSeq(seq, 1, m)[i] = seq[1 + i - 1]
  BY <1>1, <1>2, SubSeqProperties
<1>4. Len(SubSeq(seq, 1, m)) = m
  <2>1. ASSUME NEW k \in Nat
        PROVE  (IF 1 <= k THEN k - 1 + 1 ELSE 0) = k
    OBVIOUS
  <2>2. QED
    BY <1>1, <1>3, <2>1
<1>5. \A i \in 1..m : SubSeq(seq, 1, m)[i] = seq[i]
  <2>1. m - 1 + 1 = m /\ \A i \in 1..m : 1 + i - 1 = i
    BY <1>1
  <2>2. QED
    BY <1>3, <2>1
<1>6. QED
  BY <1>3, <1>4, <1>5

LEMMA ChainLosesNewest ==
  ASSUME NEW history \in Seq(Differences), NEW ends \in Seq(States),
         Chained(history, ends), history # << >>
  PROVE  Chained(SubSeq(history, 1, Len(history) - 1),
                 SubSeq(ends, 1, Len(ends) - 1))
<1> DEFINE n == Len(history)
           h == SubSeq(history, 1, n - 1)
           e == SubSeq(ends, 1, Len(ends) - 1)
<1>1. n \in Nat /\ n > 0 /\ Len(ends) = n + 1
  BY DEF Chained
<1>2. Len(h) = n - 1 /\ \A i \in 1..n-1 : h[i] = history[i]
  BY <1>1, WithoutLast
<1>3. Len(e) = n /\ \A i \in 1..n : e[i] = ends[i]
  BY <1>1, WithoutLast
<1>4. \A i \in 1..n-1 : i \in 1..n /\ i + 1 \in 1..n
  BY <1>1
<1>5. \A i \in 1..n-1 : Undo(h[i], SaveState(e[i + 1])) = SaveState(e[i])
  BY <1>2, <1>3, <1>4 DEF Chained
<1>6. QED
  BY <1>1, <1>2, <1>3, <1>5 DEF Chained

LEMMA DropOldest ==
  ASSUME NEW S, NEW seq \in Seq(S), NEW n \in Nat, Len(seq) <= n + 1
  PROVE  KeepNewest(seq, n) \in Seq(S) /\ Len(KeepNewest(seq, n)) <= n
<1>1. CASE Len(seq) > n
  <2>1. seq # << >>
    BY <1>1
  <2>2. Tail(seq) \in Seq(S) /\ Len(Tail(seq)) = Len(seq) - 1
    BY <2>1, HeadTailProperties
  <2>3. QED
    BY <1>1, <2>2 DEF KeepNewest
<1>2. CASE ~(Len(seq) > n)
  BY <1>2 DEF KeepNewest
<1>3. QED
  BY <1>1, <1>2

-----------------------------------------------------------------------------
(* A captured frame becomes the new end of the chain.                      *)
LEMMA CaptureKeeps ==
  ASSUME TypeOK, HistoryInv, NEW state \in States, Capture(state)
  PROVE  /\ prevBuf' \in Buffers
         /\ frames' \in Seq(States)
         /\ rewindHistory' \in Seq(Differences)
         /\ Len(rewindHistory') <= MaxHistory
         /\ HistoryInv'
<1>1. prevBuf' = SaveState(state) /\ prevBuf' \in Buffers /\ prevBuf' # NoState
  BY SaveStateType, SavedTypes DEF Capture
<1>2. CASE prevBuf = NoState
  <2>1. frames' = <<state>> /\ rewindHistory' = << >>
    BY <1>2 DEF Capture, HistoryInv
  <2>2. Chained(rewindHistory', frames')
    BY <2>1 DEF Chained
  <2>3. frames'[Len(frames')] = state
    BY <2>1
  <2>4. QED
    BY <1>1, <2>1, <2>2, <2>3, SavedTypes DEF HistoryInv
<1>3. CASE prevBuf # NoState
  <2> DEFINE d == Changes(prevBuf, SaveState(state))
             h == Append(rewindHistory, d)
             e == Append(frames, state)
  <2>1. /\ Chained(rewindHistory, frames)
        /\ prevBuf = SaveState(frames[Len(frames)])
    BY <1>3 DEF HistoryInv
  <2>2. /\ rewindHistory \in Seq(Differences) /\ Len(rewindHistory) <= MaxHistory
        /\ frames \in Seq(States) /\ prevBuf \in Buffers
    BY <1>3 DEF TypeOK
  <2>3. d \in Differences
    BY <2>2, SaveStateType, ChangesType
  <2>4. /\ h \in Seq(Differences) /\ Len(h) = Len(rewindHistory) + 1
        /\ e \in Seq(States) /\ Len(e) = Len(frames) + 1 /\ e[Len(e)] = state
    BY <2>2, <2>3
  <2>5. Chained(h, e)
    BY <2>1, <2>2, ChainGrows
  <2>6. Len(e) = Len(h) + 1
    BY <2>5 DEF Chained
  <2>7. /\ rewindHistory' = KeepNewest(h, MaxHistory)
        /\ frames' = KeepNewest(e, MaxHistory + 1)
    BY <1>3 DEF Capture
  <2>8. /\ rewindHistory' \in Seq(Differences) /\ Len(rewindHistory') <= MaxHistory
        /\ frames' \in Seq(States)
    <3>1. MaxHistory \in Nat /\ MaxHistory + 1 \in Nat
      BY SavedTypes
    <3>2. Len(h) <= MaxHistory + 1 /\ Len(e) <= (MaxHistory + 1) + 1
      BY <2>2, <2>4, <2>6, SavedTypes
    <3>3. rewindHistory' \in Seq(Differences) /\ Len(rewindHistory') <= MaxHistory
      BY <2>4, <2>7, <3>1, <3>2, DropOldest
    <3>4. frames' \in Seq(States)
      BY <2>4, <2>7, <3>1, <3>2, DropOldest
    <3>5. QED
      BY <3>3, <3>4
  <2>9. Chained(rewindHistory', frames') /\ frames'[Len(frames')] = state
    <3>1. CASE Len(h) > MaxHistory
      <4>1. rewindHistory' = Tail(h) /\ frames' = Tail(e)
        BY <2>4, <2>6, <2>7, <3>1, SavedTypes DEF KeepNewest
      <4>2. h # << >> /\ e # << >> /\ Len(h) > 0
        BY <2>4, <2>6, <3>1, SavedTypes
      <4>3. Chained(Tail(h), Tail(e))
        BY <2>4, <2>5, <4>2, ChainLosesOldest
      <4>4. Len(Tail(e)) = Len(e) - 1 /\ Len(Tail(e)) \in 1..Len(Tail(e))
        BY <2>4, <2>6, <4>2
      <4>5. Tail(e)[Len(e) - 1] = e[Len(e)]
        <5>1. \A i \in 1..Len(Tail(e)) : Tail(e)[i] = e[i + 1]
          BY <2>4, <4>2, HeadTailProperties
        <5>2. (Len(e) - 1) + 1 = Len(e)
          BY <2>4
        <5>3. QED
          BY <4>4, <5>1, <5>2
      <4>6. QED
        BY <2>4, <4>1, <4>3, <4>4, <4>5
    <3>2. CASE ~(Len(h) > MaxHistory)
      <4>1. rewindHistory' = h /\ frames' = e
        BY <2>4, <2>6, <2>7, <3>2, SavedTypes DEF KeepNewest
      <4>2. QED
        BY <2>4, <2>5, <4>1
    <3>3. QED
      BY <3>1, <3>2
  <2>10. QED
    BY <1>1, <2>8, <2>9 DEF HistoryInv
<1>4. QED
  BY <1>2, <1>3

(* The state gone back to is the one at the end of the frame before the    *)
(* newest kept, and the chain ends there.                                  *)
LEMMA RewindKeeps ==
  ASSUME TypeOK, HistoryInv, RewindFrame
  PROVE  /\ prevBuf' \in Buffers
         /\ frames' \in Seq(States)
         /\ rewindHistory' \in Seq(Differences)
         /\ Len(rewindHistory') <= MaxHistory
         /\ HistoryInv'
         /\ Len(frames) - 1 \in 1..Len(frames)
         /\ RewindTarget = SaveState(frames[Len(frames) - 1])
<1> DEFINE n == Len(rewindHistory)
<1>1. rewindHistory # << >> /\ rewindHistory \in Seq(Differences) /\ n <= MaxHistory
  BY DEF RewindFrame, TypeOK
<1>2. prevBuf # NoState
  BY <1>1 DEF HistoryInv
<1>3. /\ Chained(rewindHistory, frames) /\ prevBuf = SaveState(frames[Len(frames)])
      /\ frames \in Seq(States) /\ prevBuf \in Buffers
  BY <1>2 DEF HistoryInv, TypeOK
<1>4. n \in Nat /\ n > 0 /\ Len(frames) = n + 1 /\ n \in 1..n
  BY <1>1, <1>3 DEF Chained
<1>5. RewindTarget = SaveState(frames[n])
  BY <1>3, <1>4 DEF RewindTarget, Chained
<1>6. frames[n] \in States /\ n \in 1..Len(frames)
  BY <1>3, <1>4
<1>7. prevBuf' = SaveState(frames[n]) /\ prevBuf' \in Buffers
  BY <1>5, <1>6, SaveStateType DEF RewindFrame
<1>8. /\ rewindHistory' = SubSeq(rewindHistory, 1, n - 1)
      /\ frames' = SubSeq(frames, 1, Len(frames) - 1)
  BY DEF RewindFrame
<1>9. rewindHistory' \in Seq(Differences) /\ Len(rewindHistory') = n - 1
  BY <1>1, <1>4, <1>8, WithoutLast
<1>10. /\ frames' \in Seq(States) /\ Len(frames') = n
       /\ \A i \in 1..n : frames'[i] = frames[i]
  BY <1>3, <1>4, <1>8, WithoutLast
<1>11. Chained(rewindHistory', frames')
  BY <1>1, <1>3, <1>8, ChainLosesNewest
<1>12. prevBuf' = SaveState(frames'[Len(frames')])
  BY <1>4, <1>7, <1>10
<1>13. HistoryInv'
  BY <1>7, <1>11, <1>12, SavedTypes DEF HistoryInv
<1>14. QED
  BY <1>1, <1>4, <1>5, <1>6, <1>7, <1>9, <1>10, <1>13, SavedTypes

-----------------------------------------------------------------------------
(* What every step keeps.                                                  *)
IInv == TypeOK /\ HistoryInv /\ FilesInv

AppType ==
  /\ turn \in {"events", "menu"}
  /\ pending \in {"None", "Open", "Reload", "Close"}
  /\ open \in BOOLEAN /\ paused \in BOOLEAN
  /\ restarts \in 0..MaxRestarts
  /\ restored \in BOOLEAN

RewindType ==
  /\ prevBuf \in Buffers \cup {NoState}
  /\ frames \in Seq(States)
  /\ rewindHistory \in Seq(Differences) /\ Len(rewindHistory) <= MaxHistory

FilesType ==
  /\ files \in [Slots -> Buffers \cup {NoState}]
  /\ filed \in [Slots -> States \cup {NoState}]

LEMMA TypeParts == TypeOK <=> AppType /\ machine \in States /\ RewindType /\ FilesType
BY DEF TypeOK, AppType, RewindType, FilesType

LEMMA TypePartsNext ==
  AppType' /\ machine' \in States /\ RewindType' /\ FilesType' => TypeOK'
BY DEF TypeOK, AppType, RewindType, FilesType

LEMMA RewindKept ==
  ASSUME RewindType, HistoryInv, UNCHANGED rewindVars
  PROVE  RewindType' /\ HistoryInv'
BY DEF RewindType, HistoryInv, Chained, rewindVars

LEMMA FilesKept ==
  ASSUME FilesType, FilesInv, UNCHANGED fileVars
  PROVE  FilesType' /\ FilesInv'
BY DEF FilesType, FilesInv, fileVars

LEMMA EmptyHistory ==
  ASSUME NoHistory
  PROVE  RewindType' /\ HistoryInv'
<1>1. prevBuf' = NoState /\ rewindHistory' = << >> /\ frames' = << >>
  BY DEF NoHistory
<1>2. Len(<< >>) = 0 /\ << >> \in Seq(Differences) /\ << >> \in Seq(States)
  OBVIOUS
<1>3. QED
  BY <1>1, <1>2, SavedTypes DEF RewindType, HistoryInv

(* A new session or none: the history is empty either way.                 *)
LEMMA SessionChange ==
  ASSUME TypeOK, LoadFile \/ NoSession
  PROVE  /\ open' \in BOOLEAN /\ paused' \in BOOLEAN /\ machine' \in States
         /\ RewindType' /\ HistoryInv'
<1>1. NoHistory
  BY DEF LoadFile, NewSession, NoSession
<1>2. machine' \in States
  BY DEF LoadFile, NewSession, NoSession, TypeOK
<1>3. open' \in BOOLEAN /\ paused' \in BOOLEAN
  BY DEF LoadFile, NewSession, NoSession
<1>4. QED
  BY <1>1, <1>2, <1>3, EmptyHistory

-----------------------------------------------------------------------------
LEMMA InitIInv == Init => IInv
<1> SUFFICES ASSUME Init PROVE IInv
  OBVIOUS
<1>1. AppType
  <2>1. restarts \in 0..MaxRestarts
    BY SavedTypes DEF Init
  <2>2. /\ turn \in {"events", "menu"}
        /\ pending \in {"None", "Open", "Reload", "Close"}
        /\ open \in BOOLEAN /\ paused \in BOOLEAN
        /\ restored \in BOOLEAN
    BY Zenon DEF Init
  <2>3. QED
    BY <2>1, <2>2 DEF AppType
<1>2. machine \in States
  BY DEF Init
<1>3. RewindType /\ HistoryInv
  <2>1. Len(<< >>) = 0 /\ << >> \in Seq(Differences) /\ << >> \in Seq(States)
    OBVIOUS
  <2>2. QED
    BY <2>1, SavedTypes DEF Init, RewindType, HistoryInv
<1>4. FilesType /\ FilesInv
  BY DEF Init, FilesType, FilesInv
<1>5. QED
  BY <1>1, <1>2, <1>3, <1>4, TypeParts DEF IInv

(* Turns of the loop that leave history and files alone.                   *)
LEMMA QuietStep ==
  ASSUME IInv,
         \/ IdleTurn \/ TogglePause \/ ResetMachine
         \/ \E command \in {"Open", "Reload", "Close"} : Choose(command)
         \/ UNCHANGED vars
  PROVE  IInv'
<1>1. TypeOK /\ HistoryInv /\ FilesInv /\ AppType /\ machine \in States
      /\ RewindType /\ FilesType
  BY TypeParts DEF IInv
<1>2. UNCHANGED rewindVars /\ UNCHANGED fileVars
  BY DEF IdleTurn, Clocked, TogglePause, ResetMachine, Choose, vars
<1>3. machine' \in States
  BY <1>1 DEF IdleTurn, Clocked, TogglePause, ResetMachine, Choose, vars, appVars
<1>4. AppType'
  BY <1>1 DEF AppType, IdleTurn, Clocked, TogglePause, ResetMachine, Choose, vars,
              appVars
<1>5. QED
  BY <1>1, <1>2, <1>3, <1>4, RewindKept, FilesKept, TypePartsNext DEF IInv

LEMMA ForwardStep ==
  ASSUME IInv, ForwardFrame \/ SyncScanline
  PROVE  IInv'
<1>1. TypeOK /\ HistoryInv /\ FilesInv /\ AppType /\ machine \in States
      /\ RewindType /\ FilesType
  BY TypeParts DEF IInv
<1>2. Clocked /\ UNCHANGED restored /\ UNCHANGED fileVars
  BY DEF ForwardFrame, SyncScanline, Clocked
<1>3. AppType'
  BY <1>1, <1>2 DEF AppType, Clocked
<1>4. machine' \in States /\ RewindType' /\ HistoryInv'
  <2>1. CASE machine' \in States /\ UNCHANGED rewindVars
    BY <1>1, <2>1, RewindKept
  <2>2. CASE \E state \in States : Capture(state) /\ machine' \in States
    <3>1. PICK state \in States : Capture(state) /\ machine' \in States
      BY <2>2
    <3>2. RewindType' /\ HistoryInv'
      BY <1>1, <3>1, CaptureKeeps DEF RewindType
    <3>3. QED
      BY <3>1, <3>2
  <2>3. QED
    BY <2>1, <2>2 DEF ForwardFrame, SyncScanline
<1>5. QED
  BY <1>1, <1>2, <1>3, <1>4, FilesKept, TypePartsNext DEF IInv

LEMMA RewindStep ==
  ASSUME IInv, RewindFrame
  PROVE  IInv'
<1>1. TypeOK /\ HistoryInv /\ FilesInv /\ AppType /\ machine \in States
      /\ RewindType /\ FilesType
  BY TypeParts DEF IInv
<1>2. RewindType' /\ HistoryInv'
  BY <1>1, RewindKeeps DEF RewindType
<1>3. machine' \in States
  BY DEF RewindFrame
<1>4. AppType'
  BY <1>1 DEF AppType, RewindFrame, Clocked
<1>5. UNCHANGED fileVars
  BY DEF RewindFrame, Clocked
<1>6. QED
  BY <1>1, <1>2, <1>3, <1>4, <1>5, FilesKept, TypePartsNext DEF IInv

LEMMA SaveFileStep ==
  ASSUME IInv, NEW slot \in Slots, SaveStateToFile(slot)
  PROVE  IInv'
<1>1. TypeOK /\ HistoryInv /\ FilesInv /\ AppType /\ machine \in States
      /\ RewindType /\ FilesType
  BY TypeParts DEF IInv
<1>2. /\ UNCHANGED rewindVars /\ machine' = machine
      /\ files' = [files EXCEPT ![slot] = SaveState(machine)]
      /\ filed' = [filed EXCEPT ![slot] = machine]
  BY DEF SaveStateToFile
<1>3. AppType'
  BY <1>1 DEF AppType, SaveStateToFile, appVars
<1>4. FilesType'
  BY <1>1, <1>2, SaveStateType DEF FilesType
<1>5. FilesInv'
  <2>1. \A s \in Slots : /\ files'[s] = IF s = slot THEN SaveState(machine) ELSE files[s]
                         /\ filed'[s] = IF s = slot THEN machine ELSE filed[s]
    BY <1>1, <1>2 DEF FilesType
  <2>2. QED
    BY <1>1, <2>1 DEF FilesInv
<1>6. QED
  BY <1>1, <1>2, <1>3, <1>4, <1>5, RewindKept, TypePartsNext DEF IInv

LEMMA LoadFileStep ==
  ASSUME IInv, NEW slot \in Slots, LoadStateFromFile(slot)
  PROVE  IInv'
<1>1. TypeOK /\ HistoryInv /\ FilesInv /\ AppType /\ machine \in States
      /\ RewindType /\ FilesType
  BY TypeParts DEF IInv
<1>2. /\ UNCHANGED rewindVars /\ UNCHANGED fileVars
      /\ machine' = LoadState(machine, files[slot])
  BY DEF LoadStateFromFile
<1>3. files[slot] \in Buffers
  BY <1>1 DEF FilesType, LoadStateFromFile
<1>4. machine' \in States
  BY <1>1, <1>2, <1>3, LoadStateType
<1>5. AppType'
  BY <1>1 DEF AppType, LoadStateFromFile, appVars
<1>6. QED
  BY <1>1, <1>2, <1>4, <1>5, RewindKept, FilesKept, TypePartsNext DEF IInv

LEMMA SessionStep ==
  ASSUME IInv, DropFile \/ ApplyPending \/ Restart
  PROVE  IInv'
<1>1. TypeOK /\ HistoryInv /\ FilesInv /\ AppType /\ machine \in States
      /\ RewindType /\ FilesType
  BY TypeParts DEF IInv
<1>2. UNCHANGED fileVars
  BY DEF DropFile, ApplyPending, Restart
<1>3. \/ LoadFile \/ NoSession
      \/ UNCHANGED <<open, paused, machine, rewindVars>>
  BY DEF DropFile, ApplyPending, Restart
<1>4. /\ open' \in BOOLEAN /\ paused' \in BOOLEAN /\ machine' \in States
      /\ RewindType' /\ HistoryInv'
  <2>1. CASE LoadFile \/ NoSession
    BY <1>1, <2>1, SessionChange
  <2>2. CASE UNCHANGED <<open, paused, machine, rewindVars>>
    BY <1>1, <2>2, RewindKept DEF AppType
  <2>3. QED
    BY <1>3, <2>1, <2>2
<1>5. AppType'
  <2>1. turn' \in {"events", "menu"} /\ pending' \in {"None", "Open", "Reload", "Close"}
        /\ restored' \in BOOLEAN
    BY <1>1 DEF AppType, DropFile, ApplyPending, Restart
  <2>2. restarts' \in 0..MaxRestarts
    <3>1. CASE Restart
      BY <1>1, <3>1, SavedTypes DEF AppType, Restart
    <3>2. CASE UNCHANGED restarts
      BY <1>1, <3>2 DEF AppType
    <3>3. QED
      BY <3>1, <3>2 DEF DropFile, ApplyPending
  <2>3. QED
    BY <1>4, <2>1, <2>2 DEF AppType
<1>6. QED
  BY <1>1, <1>2, <1>4, <1>5, FilesKept, TypePartsNext DEF IInv

LEMMA NextIInv == IInv /\ [Next]_vars => IInv'
<1> SUFFICES ASSUME IInv, [Next]_vars PROVE IInv'
  OBVIOUS
<1>1. CASE ForwardFrame \/ SyncScanline
  BY <1>1, ForwardStep
<1>2. CASE RewindFrame
  BY <1>2, RewindStep
<1>3. CASE \E slot \in Slots : SaveStateToFile(slot) \/ LoadStateFromFile(slot)
  BY <1>3, SaveFileStep, LoadFileStep
<1>4. CASE DropFile \/ ApplyPending \/ Restart
  BY <1>4, SessionStep
<1>5. CASE \/ IdleTurn \/ TogglePause \/ ResetMachine
           \/ \E command \in {"Open", "Reload", "Close"} : Choose(command)
           \/ UNCHANGED vars
  BY <1>5, QuietStep
<1>6. QED
  BY <1>1, <1>2, <1>3, <1>4, <1>5 DEF Next

LEMMA Invariance == Spec => []IInv
<1>1. QED
  BY InitIInv, NextIInv, PTL DEF Spec

-----------------------------------------------------------------------------
(* Every field keeps its type and the history its bound, for any number of *)
(* parts, slots and restarts.                                              *)
THEOREM TypeCorrect == Spec => []TypeOK
<1>1. IInv => TypeOK
  BY DEF IInv
<1>2. QED
  BY <1>1, Invariance, PTL

(* However long the program runs and whatever is loaded, rewound, reset or *)
(* dropped (captureRewindFrame, applyRewindFrame), the differences lead    *)
(* from the buffer back through every frame kept.                          *)
THEOREM HistoryKept == Spec => []HistoryInv
<1>1. IInv => HistoryInv
  BY DEF IInv
<1>2. QED
  BY <1>1, Invariance, PTL

(* When saveState leaves nothing out, rewinding and loading a slot give    *)
(* back exactly the machine of that time.                                  *)
THEOREM WholeStateComesBack ==
  ASSUME Saved = Parts
  PROVE  Spec => []LoadsWholeState
<1>1. Init => LoadsWholeState
  BY DEF Init, LoadsWholeState
<1>2. IInv /\ LoadsWholeState /\ [Next]_vars => LoadsWholeState'
  <2> SUFFICES ASSUME IInv, restored, [Next]_vars PROVE restored'
    BY DEF LoadsWholeState
  <2>1. TypeOK /\ HistoryInv /\ FilesInv /\ machine \in States
    BY TypeParts DEF IInv
  <2>2. CASE RewindFrame
    <3>1. frames[Len(frames) - 1] \in States
      BY <2>1, <2>2, RewindKeeps DEF TypeOK
    <3>2. LoadState(machine, RewindTarget) = frames[Len(frames) - 1]
      BY <2>1, <2>2, <3>1, RewindKeeps, LoadSaved
    <3>3. QED
      BY <2>2, <3>2 DEF RewindFrame
  <2>3. CASE \E slot \in Slots : LoadStateFromFile(slot)
    <3>1. PICK slot \in Slots : LoadStateFromFile(slot)
      BY <2>3
    <3>2. filed[slot] \in States /\ files[slot] = SaveState(filed[slot])
      BY <2>1, <3>1 DEF FilesInv, LoadStateFromFile
    <3>3. LoadState(machine, files[slot]) = filed[slot]
      BY <2>1, <3>2, LoadSaved
    <3>4. QED
      BY <3>1, <3>3 DEF LoadStateFromFile
  <2>4. CASE UNCHANGED restored
    BY <2>4
  <2>5. QED
    BY <2>2, <2>3, <2>4 DEF Next, vars, IdleTurn, ForwardFrame, SyncScanline,
       SaveStateToFile, TogglePause, ResetMachine, Choose, DropFile, ApplyPending, Restart
<1>3. QED
  BY <1>1, <1>2, Invariance, PTL DEF Spec

-----------------------------------------------------------------------------
(* The rewind history as a stack of states.                                *)
Saves(ends) == [i \in 1..Len(ends) |-> SaveState(ends[i])]

Kept == IF prevBuf = NoState THEN << >> ELSE Saves(frames)

Decodes(f, n, last, back) ==
  f = [i \in 1..n+1 |-> IF i = n + 1 THEN last ELSE Undo(back[i], f[i + 1])]

LEMMA LeastNumber ==
  ASSUME NEW T, T \subseteq Nat, T # {}
  PROVE  \E x \in T : \A y \in T : x <= y
<1> DEFINE R == OpToRel(<, Nat)
<1>1. IsWellFoundedOn(R, Nat)
  BY NatLessThanWellFounded
<1> HIDE DEF R
<1>2. PICK x \in T : \A y \in T : <<y, x>> \notin R
  BY <1>1, WFMin, Zenon
<1>3. \A y \in T : <<y, x>> \notin R <=> ~(y < x)
  BY DEF R, OpToRel
<1>4. ASSUME NEW y \in T PROVE x <= y
  <2>1. ~(y < x) /\ x \in Nat /\ y \in Nat
    BY <1>2, <1>3
  <2>2. QED
    BY <2>1
<1>5. QED
  BY <1>4

LEMMA GreatestIndex ==
  ASSUME NEW n \in Nat, NEW D, D \subseteq 1..n, D # {}
  PROVE  \E x \in D : \A y \in D : y <= x
<1> DEFINE T == {n - x : x \in D}
<1>1. T \subseteq Nat /\ T # {}
  <2>1. \A x \in D : n - x \in Nat /\ n - x \in T
    OBVIOUS
  <2>2. QED
    BY <2>1
<1>2. PICK t \in T : \A u \in T : t <= u
  BY <1>1, LeastNumber
<1>3. PICK x \in D : t = n - x
  OBVIOUS
<1>4. \A y \in D : n - x <= n - y
  BY <1>2, <1>3
<1>5. QED
  BY <1>4

(* A function that decodes from its last index back is the only one.       *)
LEMMA DecodingUnique ==
  ASSUME NEW n \in Nat, NEW last, NEW back, NEW f, NEW g,
         Decodes(f, n, last, back), Decodes(g, n, last, back)
  PROVE  f = g
<1> DEFINE D == {i \in 1..n+1 : f[i] # g[i]}
<1> USE DEF Decodes
<1>1. DOMAIN f = 1..n+1 /\ DOMAIN g = 1..n+1
  OBVIOUS
<1>2. SUFFICES ASSUME D # {} PROVE FALSE
  <2>1. \A i \in 1..n+1 : f[i] = g[i]
    BY <1>2
  <2>2. QED
    BY <1>1, <2>1
<1>3. n + 1 \in Nat /\ D \subseteq 1..n+1
  OBVIOUS
<1> HIDE DEF D
<1>4. PICK x \in D : \A y \in D : y <= x
  BY <1>2, <1>3, GreatestIndex
<1> USE DEF D
<1>5. x \in 1..n+1 /\ f[x] # g[x]
  BY <1>4
<1>6. CASE x = n + 1
  BY <1>5, <1>6
<1>7. CASE x # n + 1
  <2>1. x + 1 \in 1..n+1 /\ ~(x + 1 <= x)
    BY <1>5, <1>7
  <2>2. f[x + 1] = g[x + 1]
    BY <1>4, <2>1
  <2>3. f[x] = Undo(back[x], f[x + 1]) /\ g[x] = Undo(back[x], g[x + 1])
    BY <1>5, <1>7
  <2>4. QED
    BY <1>5, <2>2, <2>3
<1>8. QED
  BY <1>6, <1>7

-----------------------------------------------------------------------------
(* What the application can rewind to is the saved part of the frames      *)
(* kept: the function that decodes it, from the buffer back through the    *)
(* differences, is unique, since two that differ would differ at a last    *)
(* index.                                                                  *)
LEMMA DecodedUnfolds ==
  ASSUME HistoryInv, TypeOK, prevBuf # NoState
  PROVE  Decoded = Saves(frames)
<1> DEFINE n == Len(rewindHistory)
           Step(f) == [i \in 1..n+1 |->
                         IF i = n + 1 THEN prevBuf ELSE Undo(rewindHistory[i], f[i + 1])]
           at == CHOOSE f : f = Step(f)
           kept == Saves(frames)
<1>1. /\ n \in Nat /\ Len(frames) = n + 1
      /\ prevBuf = SaveState(frames[n + 1])
      /\ \A i \in 1..n :
           Undo(rewindHistory[i], SaveState(frames[i + 1])) = SaveState(frames[i])
  BY DEF HistoryInv, Chained, TypeOK
<1>2. kept = [i \in 1..n+1 |-> SaveState(frames[i])]
  BY <1>1 DEF Saves
<1>3. \A i \in 1..n+1 : i # n + 1 => i \in 1..n /\ i + 1 \in 1..n+1
  BY <1>1
<1> HIDE DEF n, kept
<1>4. kept = Step(kept)
  <2>1. \A i \in 1..n+1 :
          SaveState(frames[i]) =
            IF i = n + 1 THEN prevBuf ELSE Undo(rewindHistory[i], kept[i + 1])
    BY <1>1, <1>2, <1>3
  <2>2. QED
    BY <1>2, <2>1, Zenon
<1>5. at = Step(at)
  BY <1>4, Zenon
<1> HIDE DEF at
<1>6. at = kept
  <2>1. Decodes(at, n, prevBuf, rewindHistory) /\ Decodes(kept, n, prevBuf, rewindHistory)
    BY <1>4, <1>5, Zenon DEF Decodes
  <2>2. QED
    BY <1>1, <2>1, DecodingUnique, Zenon
<1>7. Decoded = [i \in 1..n+1 |-> at[i]]
  BY Zenon DEF Decoded, at, n
<1>8. QED
  BY <1>2, <1>6, <1>7 DEF kept

LEMMA DecodedAs == IInv => Decoded = Kept
<1> SUFFICES ASSUME IInv PROVE Decoded = Kept
  OBVIOUS
<1>1. TypeOK /\ HistoryInv
  BY DEF IInv
<1>2. CASE prevBuf = NoState
  BY <1>2, Zenon DEF Decoded, Kept
<1>3. CASE prevBuf # NoState
  BY <1>1, <1>3, DecodedUnfolds, Zenon DEF Kept
<1>4. QED
  BY <1>2, <1>3

LEMMA DecodedNext == IInv' => Decoded' = Kept'
<1>1. (IInv => Decoded = Kept)'
  BY DecodedAs, PTL
<1>2. QED
  BY <1>1


-----------------------------------------------------------------------------
(* The sequence of kept states under the operations on the frames.         *)
LEMMA SavesType ==
  ASSUME NEW ends \in Seq(States)
  PROVE  /\ Saves(ends) \in Seq(Buffers) /\ Len(Saves(ends)) = Len(ends)
         /\ \A i \in 1..Len(ends) : Saves(ends)[i] = SaveState(ends[i])
<1>1. \A i \in 1..Len(ends) : SaveState(ends[i]) \in Buffers
  BY SaveStateType
<1>2. QED
  BY <1>1 DEF Saves

LEMMA SavesAppend ==
  ASSUME NEW ends \in Seq(States), NEW state \in States
  PROVE  Saves(Append(ends, state)) = Append(Saves(ends), SaveState(state))
<1> DEFINE e == Append(ends, state)
           s == Append(Saves(ends), SaveState(state))
<1>1. /\ e \in Seq(States) /\ Len(e) = Len(ends) + 1 /\ e[Len(ends) + 1] = state
      /\ \A i \in 1..Len(ends) : e[i] = ends[i]
  OBVIOUS
<1>2. SaveState(state) \in Buffers
  BY SaveStateType
<1>3. /\ s \in Seq(Buffers) /\ Len(s) = Len(ends) + 1
      /\ s[Len(ends) + 1] = SaveState(state)
      /\ \A i \in 1..Len(ends) : s[i] = SaveState(ends[i])
  BY <1>2, SavesType
<1>4. /\ Saves(e) \in Seq(Buffers) /\ Len(Saves(e)) = Len(ends) + 1
      /\ \A i \in 1..Len(ends)+1 : Saves(e)[i] = SaveState(e[i])
  BY <1>1, SavesType
<1> HIDE DEF e, s
<1>5. \A i \in 1..Len(ends)+1 : i = Len(ends) + 1 \/ i \in 1..Len(ends)
  OBVIOUS
<1>6. \A i \in 1..Len(ends)+1 : Saves(e)[i] = s[i]
  BY <1>1, <1>3, <1>4, <1>5
<1>7. Saves(e) = s
  BY <1>3, <1>4, <1>6, SeqEqual
<1>8. QED
  BY <1>7 DEF e, s

LEMMA SavesTail ==
  ASSUME NEW ends \in Seq(States), ends # << >>
  PROVE  Saves(Tail(ends)) = Tail(Saves(ends))
<1>1. /\ Tail(ends) \in Seq(States) /\ Len(Tail(ends)) = Len(ends) - 1
      /\ \A i \in 1..Len(ends)-1 : Tail(ends)[i] = ends[i + 1]
      /\ Len(ends) \in Nat /\ Len(ends) > 0
  BY HeadTailProperties
<1>2. Saves(ends) \in Seq(Buffers) /\ Len(Saves(ends)) = Len(ends)
  BY SavesType
<1>3. Saves(ends) # << >>
  BY <1>1, <1>2
<1>4. /\ Tail(Saves(ends)) \in Seq(Buffers) /\ Len(Tail(Saves(ends))) = Len(ends) - 1
      /\ \A i \in 1..Len(ends)-1 : Tail(Saves(ends))[i] = Saves(ends)[i + 1]
  <2> HIDE DEF Saves
  <2>1. /\ Tail(Saves(ends)) \in Seq(Buffers)
        /\ Len(Tail(Saves(ends))) = Len(Saves(ends)) - 1
        /\ \A i \in 1..Len(Saves(ends))-1 : Tail(Saves(ends))[i] = Saves(ends)[i + 1]
    BY <1>2, <1>3, HeadTailProperties
  <2> QED
    BY <1>2, <2>1
<1>5. /\ Saves(Tail(ends)) \in Seq(Buffers) /\ Len(Saves(Tail(ends))) = Len(ends) - 1
      /\ \A i \in 1..Len(ends)-1 : Saves(Tail(ends))[i] = SaveState(Tail(ends)[i])
  BY <1>1, SavesType
<1>6. \A i \in 1..Len(ends)-1 : i + 1 \in 1..Len(ends)
  BY <1>1
<1>7. \A i \in 1..Len(ends)-1 : Saves(Tail(ends))[i] = Tail(Saves(ends))[i]
  BY <1>1, <1>4, <1>5, <1>6, SavesType
<1>8. QED
  <2>1. Len(Saves(Tail(ends))) = Len(Tail(Saves(ends)))
    BY <1>4, <1>5
  <2>2. \A i \in 1..Len(Saves(Tail(ends))) : Saves(Tail(ends))[i] = Tail(Saves(ends))[i]
    BY <1>5, <1>7
  <2> HIDE DEF Saves
  <2> QED
    BY <1>4, <1>5, <2>1, <2>2, SeqEqual

LEMMA SavesFront ==
  ASSUME NEW ends \in Seq(States), Len(ends) > 0
  PROVE  Saves(SubSeq(ends, 1, Len(ends) - 1))
           = SubSeq(Saves(ends), 1, Len(Saves(ends)) - 1)
<1> DEFINE e == SubSeq(ends, 1, Len(ends) - 1)
           s == SubSeq(Saves(ends), 1, Len(ends) - 1)
<1>1. /\ e \in Seq(States) /\ Len(e) = Len(ends) - 1
      /\ \A i \in 1..Len(ends)-1 : e[i] = ends[i]
  BY WithoutLast
<1>2. Saves(ends) \in Seq(Buffers) /\ Len(Saves(ends)) = Len(ends)
  BY SavesType
<1>3. /\ s \in Seq(Buffers) /\ Len(s) = Len(ends) - 1
      /\ \A i \in 1..Len(ends)-1 : s[i] = Saves(ends)[i]
  BY <1>2, WithoutLast
<1>4. /\ Saves(e) \in Seq(Buffers) /\ Len(Saves(e)) = Len(ends) - 1
      /\ \A i \in 1..Len(ends)-1 : Saves(e)[i] = SaveState(e[i])
  BY <1>1, SavesType
<1> HIDE DEF e, s
<1>5. \A i \in 1..Len(ends)-1 : i \in 1..Len(ends)
  OBVIOUS
<1>6. \A i \in 1..Len(ends)-1 : Saves(e)[i] = s[i]
  BY <1>1, <1>3, <1>4, <1>5, SavesType
<1>7. Saves(e) = s
  BY <1>3, <1>4, <1>6, SeqEqual
<1>8. QED
  BY <1>2, <1>7 DEF e, s

-----------------------------------------------------------------------------
(* The refinement, one kind of step at a time.                             *)
LEMMA CaptureRemembers ==
  ASSUME IInv, NEW state \in States, Capture(state),
         Decoded = Kept, Decoded' = Kept'
  PROVE  History!Remember(SaveState(state))
<1>1. TypeOK /\ HistoryInv
  BY DEF IInv
<1>2. prevBuf' # NoState
  BY SaveStateType, SavedTypes DEF Capture
<1>3. Decoded' = Saves(frames')
  BY <1>2 DEF Kept
<1>4. CASE prevBuf = NoState
  <2>1. Decoded = << >> /\ frames' = <<state>>
    BY <1>4 DEF Kept, Capture
  <2>2. Decoded' = <<SaveState(state)>>
    <3>1. Saves(<<state>>) = <<SaveState(state)>>
      BY SaveStateType DEF Saves
    <3>2. QED
      BY <1>3, <2>1, <3>1
  <2>3. Append(<< >>, SaveState(state)) = <<SaveState(state)>>
        /\ Len(<<SaveState(state)>>) = 1
    OBVIOUS
  <2>4. ~(1 > MaxHistory + 1)
    BY SavedTypes
  <2>5. QED
    BY <2>1, <2>2, <2>3, <2>4 DEF History!Remember, History!Newest
<1>5. CASE prevBuf # NoState
  <2> DEFINE e == Append(frames, state)
  <2>1. Decoded = Saves(frames) /\ frames \in Seq(States)
    BY <1>1, <1>5 DEF Kept, TypeOK
  <2>2. frames' = KeepNewest(e, MaxHistory + 1)
    BY <1>5 DEF Capture
  <2>3. Saves(e) = Append(Decoded, SaveState(state))
    BY <2>1, SavesAppend
  <2>4. e \in Seq(States) /\ e # << >> /\ Len(Saves(e)) = Len(e)
    <3>1. e \in Seq(States) /\ Len(e) = Len(frames) + 1 /\ Len(frames) \in Nat
      BY <2>1
    <3> HIDE DEF e
    <3>2. QED
      BY <3>1, SavesType
  <2> HIDE DEF e
  <2>5. Saves(frames') = History!Newest(Saves(e), MaxHistory + 1)
    <3>1. CASE Len(e) > MaxHistory + 1
      BY <2>2, <2>4, <3>1, SavesTail DEF KeepNewest, History!Newest
    <3>2. CASE ~(Len(e) > MaxHistory + 1)
      BY <2>2, <2>4, <3>2 DEF KeepNewest, History!Newest
    <3>3. QED
      BY <3>1, <3>2
  <2>6. QED
    BY <1>3, <2>3, <2>5 DEF History!Remember
<1>6. QED
  BY <1>4, <1>5

LEMMA RewindRecalls ==
  ASSUME IInv, RewindFrame, Decoded = Kept, Decoded' = Kept'
  PROVE  History!Recall
<1>1. TypeOK /\ HistoryInv
  BY DEF IInv
<1>2. prevBuf # NoState /\ rewindHistory # << >> /\ frames \in Seq(States)
  BY <1>1 DEF RewindFrame, HistoryInv, TypeOK
<1>3. prevBuf' # NoState
  BY <1>1, RewindKeeps, SavedTypes
<1>4. Len(frames) > 1
  <2>1. rewindHistory \in Seq(Differences) /\ Len(frames) = Len(rewindHistory) + 1
    BY <1>1, <1>2 DEF HistoryInv, Chained, TypeOK
  <2>2. QED
    BY <1>2, <2>1
<1>5. Decoded = Saves(frames) /\ Decoded' = Saves(SubSeq(frames, 1, Len(frames) - 1))
  BY <1>2, <1>3 DEF Kept, RewindFrame
<1>6. Len(Saves(frames)) = Len(frames) /\ Len(frames) > 0
  BY <1>2, <1>4, SavesType
<1>7. Decoded' = SubSeq(Decoded, 1, Len(Decoded) - 1)
  BY <1>2, <1>5, <1>6, SavesFront
<1>8. QED
  BY <1>4, <1>5, <1>6, <1>7 DEF History!Recall

LEMMA HistoryStep ==
  ASSUME IInv, [Next]_vars, Decoded = Kept, Decoded' = Kept'
  PROVE  [History!Next]_Decoded
<1>1. CASE RewindFrame
  BY <1>1, RewindRecalls DEF History!Next
<1>2. CASE \E state \in States : Capture(state)
  <2>1. PICK state \in States : Capture(state)
    BY <1>2
  <2>2. History!Remember(SaveState(state)) /\ SaveState(state) \in Buffers
    BY <2>1, CaptureRemembers, SaveStateType
  <2>3. QED
    BY <2>2 DEF History!Next
<1>3. CASE NoHistory
  <2>1. Decoded' = << >>
    BY <1>3 DEF Kept, NoHistory
  <2>2. QED
    BY <2>1 DEF History!Next, History!Forget
<1>4. CASE UNCHANGED rewindVars
  <2>1. Kept' = Kept
    BY <1>4 DEF Kept, rewindVars
  <2>2. QED
    BY <2>1
<1>5. \/ RewindFrame \/ NoHistory \/ UNCHANGED rewindVars
      \/ \E state \in States : Capture(state)
  <2>1. ForwardFrame \/ SyncScanline =>
          (\E state \in States : Capture(state)) \/ UNCHANGED rewindVars
    BY DEF ForwardFrame, SyncScanline
  <2>2. DropFile \/ ApplyPending \/ Restart => NoHistory \/ UNCHANGED rewindVars
    BY DEF DropFile, ApplyPending, Restart, LoadFile, NewSession, NoSession
  <2>3. (\/ IdleTurn \/ TogglePause \/ ResetMachine
         \/ \E command \in {"Open", "Reload", "Close"} : Choose(command)
         \/ \E slot \in Slots : SaveStateToFile(slot) \/ LoadStateFromFile(slot)
         \/ UNCHANGED vars)
          => UNCHANGED rewindVars
    BY DEF IdleTurn, TogglePause, ResetMachine, Choose, SaveStateToFile,
           LoadStateFromFile, vars
  <2>4. QED
    BY <2>1, <2>2, <2>3 DEF Next
<1>6. QED
  BY <1>1, <1>2, <1>3, <1>4, <1>5

(* One state and the differences that lead back from it implement a stack  *)
(* of whole states, for any machine and any depth of history.              *)
THEOREM ImplementsStateHistory == Spec => HistorySpec
<1>1. Init => History!Init
  BY Zenon DEF Init, History!Init, Decoded
<1>2. IInv /\ IInv' /\ [Next]_vars => [History!Next]_Decoded
  BY HistoryStep, DecodedAs, DecodedNext
<1>3. QED
  BY <1>1, <1>2, Invariance, PTL DEF Spec, HistorySpec, History!Spec

-----------------------------------------------------------------------------
(* The player of a tune's session, module NSFPlayer: for any tune whose    *)
(* period is longer than the longest instruction, any watchdog and any     *)
(* regions.                                                                *)

Types ==
  /\ cpu \in CPUStates
  /\ callDone \in BOOLEAN /\ ticking \in BOOLEAN /\ returned \in BOOLEAN
  /\ system \in Systems /\ playCycles \in {PlayCycles[s] : s \in Systems}
  /\ currentSong \in Songs
  /\ playTimer \in Int /\ ahead \in Int

(* The beat: the timer is how far the song is ahead, and how far it may be *)
(* behind depends on what is waited for: a routine within its watchdog, or *)
(* the end of an instruction.                                              *)
Beat ==
  /\ ahead = playTimer
  /\ playTimer <= playCycles
  /\ ~callDone \/ ~ticking => playTimer >= -Watchdog
  /\ callDone /\ cpu.op # "boundary" => playTimer + cpu.since >= -Watchdog - OneCycle
  /\ callDone => playTimer >= -MaxLag

(* A call is done when its routine has been seen to return.                *)
DoneReturned == callDone <=> returned

PlayerInv == Types /\ Beat /\ DoneReturned

-----------------------------------------------------------------------------
LEMMA Constants ==
  /\ OneCycle \in Nat /\ OneCycle > 0 /\ Watchdog \in Nat /\ Longest \in Nat
  /\ MaxLag = Watchdog + Longest + 2 * OneCycle /\ MaxLag \in Nat
  /\ TotalSongs \in Nat /\ ByteSize \in Nat /\ TotalSongs < ByteSize
  /\ StartingSong \in 1 .. TotalSongs
BY NSFAssumption DEF NSFAssumption, MaxLag

LEMMA Period ==
  ASSUME playCycles \in {PlayCycles[s] : s \in Systems}
  PROVE  playCycles \in Nat /\ playCycles >= Longest + 3 * OneCycle
BY NSFAssumption DEF NSFAssumption

LEMMA AnywhereType == Anywhere \subseteq CPUStates
BY Constants DEF Anywhere, CPUStates, Boundary, Inside, JumpedTo, Jammed

LEMMA AnywhereSince == \A c \in Anywhere : c.since = 0
BY DEF Anywhere, Boundary, Inside, JumpedTo, Jammed

(* A CPU that does not reach the end of an instruction is a cycle later.   *)
LEMMA CycleTime ==
  ASSUME NEW c \in CPUStates, NEW c1 \in CPUStates, Cycle(c, c1),
         c.op \in {"fetch", "inside"}, c1.op # "boundary"
  PROVE  c1.since = c.since + OneCycle
<1>1. c1 = Later(c, "fetch") \/ c1 = Later(c, "inside")
  BY DEF Cycle, Boundary
<1>2. QED
  BY <1>1 DEF Later, CPUStates

-----------------------------------------------------------------------------
(* The ways a cycle goes.                                                  *)
CPUCycles(c) == cpu' \in CPUStates /\ Cycle(c, cpu')

Calls ==
  /\ ~callDone' /\ ~ticking' /\ ~returned'
  /\ playTimer' = playTimer + playCycles - OneCycle
  /\ ahead' = Counted(ahead + playCycles - OneCycle)

OnTime == callDone /\ playTimer <= 0 /\ cpu.op = "boundary" /\ Calls

CutOff ==
  ~callDone /\ cpu.at # "trampoline" /\ playTimer - OneCycle < -Watchdog /\ Calls

Counts ==
  /\ ticking'
  /\ playTimer' = playTimer - OneCycle /\ ahead' = Counted(ahead - OneCycle)
  /\ CPUCycles(cpu)

Noticed == ~callDone /\ cpu.at = "trampoline" /\ callDone' /\ returned' /\ Counts

Runs ==
  /\ ~callDone /\ cpu.at # "trampoline" /\ playTimer - OneCycle >= -Watchdog
  /\ ~callDone' /\ (returned' <=> returned) /\ Counts

Idles ==
  /\ callDone /\ cpu.op # "jammed" /\ (cpu.op = "boundary" => playTimer > 0)
  /\ callDone' /\ (returned => returned') /\ Counts

StaysStuck ==
  /\ Stuck /\ callDone' /\ ticking' /\ (returned => returned')
  /\ playTimer' = playTimer /\ ahead' = Counted(ahead)
  /\ CPUCycles(cpu)

LEMMA CountDownFields ==
  ASSUME ~Stuck, NEW r
  PROVE  /\ CountDown(r).cpu = r.cpu /\ CountDown(r).done = r.done
         /\ CountDown(r).timer = r.timer - OneCycle /\ CountDown(r).calls = r.calls
BY DEF CountDown

LEMMA WatchCallType ==
  ASSUME NEW r, r.done \in BOOLEAN
  PROVE  WatchCall(r).done \in BOOLEAN
BY DEF WatchCall, TriggerPlayCall

LEMMA ClockCases ==
  ASSUME PlayerInv, ClockOneCycle
  PROVE  /\ OnTime \/ CutOff \/ Noticed \/ Runs \/ Idles \/ StaysStuck
         /\ cpu' \in CPUStates
         /\ UNCHANGED settings
<1> DEFINE p == WatchCall(CountDown(TrampolineMaintenance(Player)))
<1>1. /\ ticking /\ UNCHANGED settings
      /\ cpu' \in CPUStates /\ Cycle(p.cpu, cpu')
      /\ callDone' = p.done /\ playTimer' = p.timer
      /\ ticking' = (p.calls = 0)
      /\ returned' = (p.calls = 0 /\ (returned \/ cpu.at = "trampoline"))
      /\ ahead' = Counted(ahead + p.calls * playCycles - (IF Stuck THEN 0 ELSE OneCycle))
  BY DEF ClockOneCycle
<1>2. /\ playTimer \in Int /\ ahead \in Int /\ playCycles \in Int
      /\ playCycles >= Longest + 3 * OneCycle
      /\ callDone \in BOOLEAN /\ returned \in BOOLEAN /\ (callDone <=> returned)
      /\ callDone => playTimer >= -MaxLag
  BY Period DEF PlayerInv, Types, Beat, DoneReturned
<1> HIDE DEF p
<1> DEFINE due == callDone /\ playTimer <= 0 /\ cpu.op = "boundary"
<1>3. CASE due
  <2>1. TrampolineMaintenance(Player)
          = [cpu |-> JumpedTo, done |-> FALSE, timer |-> playTimer + playCycles, calls |-> 1]
    BY <1>2, <1>3 DEF TrampolineMaintenance, TriggerPlayCall, Player
  <2>2. ~Stuck
    BY <1>3 DEF Stuck
  <2> DEFINE q == CountDown(TrampolineMaintenance(Player))
  <2>3. /\ q.cpu = JumpedTo /\ ~q.done /\ q.calls = 1
        /\ q.timer = playTimer + playCycles - OneCycle
    <3>1. /\ TrampolineMaintenance(Player).cpu = JumpedTo
          /\ ~TrampolineMaintenance(Player).done
          /\ TrampolineMaintenance(Player).calls = 1
          /\ TrampolineMaintenance(Player).timer = playTimer + playCycles
      BY <2>1
    <3> DEFINE r == TrampolineMaintenance(Player)
    <3> HIDE DEF r
    <3>2. q = CountDown(r)
      BY DEF r
    <3>3. ~r.done
      BY <3>1 DEF r
    <3>4. /\ r.cpu = JumpedTo /\ r.calls = 1
          /\ r.timer = playTimer + playCycles
      BY <3>1 DEF r
    <3> HIDE DEF q
    <3>5. q.done = r.done
      BY <2>2, <3>2, CountDownFields
    <3>6. q.cpu = r.cpu /\ q.timer = r.timer - OneCycle /\ q.calls = r.calls
      BY <2>2, <3>2, CountDownFields
    <3>7. ~q.done
      BY <3>3, <3>5
    <3>8. /\ q.cpu = JumpedTo /\ q.calls = 1
          /\ q.timer = playTimer + playCycles - OneCycle
      BY <3>4, <3>6, <1>2, Constants
    <3>9. QED
      BY <3>7, <3>8
  <2> HIDE DEF q
  <2>4. ~(q.timer < -Watchdog) /\ q.cpu.at # "trampoline"
    BY <1>2, <1>3, <2>3, Constants DEF JumpedTo
  <2>5. p = q
    <3>1. WatchCall(q) = q
      BY <2>3, <2>4 DEF WatchCall, IsAtTrampoline
    <3>2. QED
      BY <3>1 DEF p, q
  <2>6. /\ ~callDone' /\ ~ticking' /\ ~returned'
        /\ playTimer' = playTimer + playCycles - OneCycle
    <3>1. ~p.done /\ p.calls # 0 /\ p.timer = playTimer + playCycles - OneCycle
      BY <2>3, <2>5
    <3>2. QED
      BY <1>1, <3>1
  <2>7. ahead' = Counted(ahead + playCycles - OneCycle)
    BY <1>1, <1>2, <2>2, <2>3, <2>5
  <2>8. OnTime
    BY <1>3, <2>6, <2>7 DEF OnTime, Calls
  <2>9. QED
    BY <1>1, <2>8
<1>4. CASE ~due
  <2>1. TrampolineMaintenance(Player) = Player
    BY <1>4 DEF TrampolineMaintenance, Player
  <2>2. CASE Stuck
    <3>1. p = Player
      BY <2>1, <2>2 DEF p, CountDown, WatchCall, Player, Stuck
    <3>2. /\ CPUCycles(cpu) /\ playTimer' = playTimer
          /\ callDone' /\ ticking' /\ (returned => returned')
      BY <1>1, <2>2, <3>1 DEF Player, CPUCycles, Stuck
    <3>3. ahead' = Counted(ahead)
      BY <1>1, <1>2, <2>2, <3>1 DEF Player
    <3>4. QED
      BY <1>1, <2>2, <3>2, <3>3 DEF StaysStuck
  <2>3. CASE ~Stuck
    <3> DEFINE p2 == [cpu |-> cpu, done |-> callDone, timer |-> playTimer - OneCycle,
                      calls |-> 0]
    <3>1. CountDown(TrampolineMaintenance(Player)) = p2
      BY <2>1, <2>3 DEF CountDown, Player
    <3>2. CASE callDone
      <4>1. p = p2
        BY <3>1, <3>2 DEF p, WatchCall
      <4>2. /\ ticking' /\ callDone' /\ (returned => returned')
            /\ playTimer' = playTimer - OneCycle /\ CPUCycles(cpu)
        BY <1>1, <3>2, <4>1 DEF CPUCycles
      <4>3. ahead' = Counted(ahead - OneCycle)
        BY <1>1, <1>2, <2>3, <4>1, Constants
      <4>4. cpu.op # "jammed" /\ (cpu.op = "boundary" => playTimer > 0)
        BY <1>2, <1>4, <2>3, <3>2 DEF Stuck
      <4>5. QED
        BY <1>1, <3>2, <4>2, <4>3, <4>4 DEF Idles, Counts
    <3>3. CASE ~callDone /\ cpu.at = "trampoline"
      <4>1. p = [cpu |-> cpu, done |-> TRUE, timer |-> playTimer - OneCycle, calls |-> 0]
        <5>1. WatchCall(p2)
                = [cpu |-> cpu, done |-> TRUE, timer |-> playTimer - OneCycle, calls |-> 0]
          BY <3>3 DEF WatchCall, IsAtTrampoline
        <5>2. QED
          BY <3>1, <5>1 DEF p
      <4>2. /\ ticking' /\ callDone' /\ returned'
            /\ playTimer' = playTimer - OneCycle /\ CPUCycles(cpu)
        BY <1>1, <3>3, <4>1 DEF CPUCycles
      <4>3. ahead' = Counted(ahead - OneCycle)
        BY <1>1, <1>2, <2>3, <4>1, Constants
      <4>4. QED
        BY <1>1, <3>3, <4>2, <4>3 DEF Noticed, Counts
    <3>4. CASE ~callDone /\ cpu.at # "trampoline" /\ playTimer - OneCycle < -Watchdog
      <4>1. p = [cpu |-> JumpedTo, done |-> FALSE,
                 timer |-> playTimer - OneCycle + playCycles, calls |-> 1]
        BY <3>1, <3>4 DEF p, WatchCall, IsAtTrampoline, TriggerPlayCall
      <4>2. /\ ~callDone' /\ ~ticking' /\ ~returned'
            /\ playTimer' = playTimer + playCycles - OneCycle
        <5>1. ~p.done /\ p.calls # 0 /\ p.timer = playTimer + playCycles - OneCycle
          BY <1>2, <4>1, Constants
        <5>2. QED
          BY <1>1, <5>1
      <4>3. ahead' = Counted(ahead + playCycles - OneCycle)
        BY <1>1, <1>2, <2>3, <4>1, Constants
      <4>4. QED
        BY <1>1, <3>4, <4>2, <4>3 DEF CutOff, Calls
    <3>5. CASE ~callDone /\ cpu.at # "trampoline" /\ playTimer - OneCycle >= -Watchdog
      <4>1. p = p2
        BY <3>1, <3>5, <1>2, Constants DEF p, WatchCall, IsAtTrampoline
      <4>2. /\ ticking' /\ ~callDone' /\ (returned' <=> returned)
            /\ playTimer' = playTimer - OneCycle /\ CPUCycles(cpu)
        BY <1>1, <3>5, <4>1 DEF CPUCycles
      <4>3. ahead' = Counted(ahead - OneCycle)
        BY <1>1, <1>2, <2>3, <4>1, Constants
      <4>4. QED
        BY <1>1, <3>5, <4>2, <4>3 DEF Runs, Counts
    <3>6. QED
      BY <3>2, <3>3, <3>4, <3>5, <1>2, Constants
  <2>4. QED
    BY <2>2, <2>3
<1>5. QED
  BY <1>3, <1>4

-----------------------------------------------------------------------------
(* What a call leaves behind, made on time or after a watchdog.            *)
LEMMA CallsKeepInv ==
  ASSUME PlayerInv, Calls, UNCHANGED playCycles,
         playTimer + playCycles - OneCycle >= -Watchdog,
         playTimer <= OneCycle
  PROVE  Beat' /\ DoneReturned'
<1>1. /\ playTimer \in Int /\ ahead = playTimer /\ playCycles \in Nat
  BY Period DEF PlayerInv, Types, Beat
<1>2. /\ playTimer' = playTimer + playCycles - OneCycle
      /\ ~callDone' /\ ~returned' /\ ahead' = Counted(ahead + playCycles - OneCycle)
  BY DEF Calls
<1>3. ahead' = playTimer'
  BY <1>1, <1>2, Constants DEF Counted
<1>4. playTimer' <= playCycles' /\ playTimer' >= -Watchdog
  BY <1>1, <1>2, Constants
<1>5. Beat'
  BY <1>2, <1>3, <1>4 DEF Beat
<1>6. QED
  BY <1>2, <1>5 DEF DoneReturned

LEMMA ClockBeat ==
  ASSUME PlayerInv, ClockOneCycle
  PROVE  Beat' /\ DoneReturned'
<1>1. /\ playTimer \in Int /\ ahead = playTimer /\ playTimer <= playCycles
      /\ playCycles \in Nat /\ playCycles >= Longest + 3 * OneCycle
      /\ cpu \in CPUStates /\ cpu.since \in 0 .. Longest
      /\ ~callDone => playTimer >= -Watchdog
      /\ callDone => playTimer >= -MaxLag
      /\ callDone /\ cpu.op # "boundary" => playTimer + cpu.since >= -Watchdog - OneCycle
      /\ callDone <=> returned
  BY Period DEF PlayerInv, Types, Beat, DoneReturned, CPUStates
<1>2. /\ cpu' \in CPUStates /\ cpu'.since \in 0 .. Longest
      /\ playCycles' = playCycles
  BY ClockCases DEF CPUStates, settings
<1>3. CASE OnTime
  <2>1. Calls /\ callDone /\ playTimer <= 0
    BY <1>3 DEF OnTime
  <2>2. QED
    BY <1>1, <1>2, <2>1, CallsKeepInv, Constants
<1>4. CASE CutOff
  <2>1. Calls /\ ~callDone /\ playTimer - OneCycle < -Watchdog
    BY <1>4 DEF CutOff
  <2>2. QED
    BY <1>1, <1>2, <2>1, CallsKeepInv, Constants
<1>5. ASSUME Counts
      PROVE  /\ playTimer' = playTimer - OneCycle /\ ticking'
             /\ playTimer - OneCycle >= -MaxLag => ahead' = playTimer'
             /\ Cycle(cpu, cpu')
  BY <1>1, <1>5, Constants DEF Counts, CPUCycles, Counted
<1>6. CASE Noticed
  <2>1. ~callDone /\ callDone' /\ returned' /\ Counts
    BY <1>6 DEF Noticed
  <2>2. playTimer' = playTimer - OneCycle /\ playTimer' >= -Watchdog - OneCycle /\ ticking'
    BY <1>1, <1>5, <2>1, Constants
  <2>3. ahead' = playTimer' /\ playTimer' >= -MaxLag /\ playTimer' <= playCycles'
    BY <1>1, <1>2, <1>5, <2>1, <2>2, Constants
  <2>4. playTimer' + cpu'.since >= -Watchdog - OneCycle
    BY <1>1, <1>2, <2>2, Constants
  <2>5. Beat'
    BY <2>1, <2>2, <2>3, <2>4 DEF Beat
  <2>6. QED
    BY <2>1, <2>5 DEF DoneReturned
<1>7. CASE Runs
  <2>1. /\ ~callDone /\ ~callDone' /\ (returned' <=> returned) /\ Counts
        /\ playTimer - OneCycle >= -Watchdog
    BY <1>7 DEF Runs
  <2>2. /\ playTimer' = playTimer - OneCycle /\ playTimer' >= -Watchdog
        /\ ahead' = playTimer' /\ playTimer' <= playCycles'
    BY <1>1, <1>2, <1>5, <2>1, Constants
  <2>3. Beat'
    BY <2>1, <2>2 DEF Beat
  <2>4. QED
    BY <1>1, <2>1, <2>3 DEF DoneReturned
<1>8. CASE Idles
  <2>1. /\ callDone /\ callDone' /\ (returned => returned') /\ Counts
        /\ cpu.op # "jammed" /\ (cpu.op = "boundary" => playTimer > 0)
    BY <1>8 DEF Idles
  <2>2. /\ playTimer' = playTimer - OneCycle /\ ticking'
        /\ playTimer - OneCycle >= -MaxLag => ahead' = playTimer'
        /\ Cycle(cpu, cpu')
    BY <1>5, <2>1
  <2>3. playTimer' >= -MaxLag
    BY <1>1, <2>1, <2>2, Constants
  <2>4. ASSUME cpu'.op # "boundary"
        PROVE  playTimer' + cpu'.since >= -Watchdog - OneCycle
    <3>1. CASE cpu.op = "boundary"
      BY <1>1, <1>2, <2>1, <2>2, <3>1, Constants
    <3>2. CASE cpu.op # "boundary"
      <4>1. cpu.op \in {"fetch", "inside"}
        BY <1>1, <2>1, <3>2 DEF CPUStates
      <4>2. cpu'.since = cpu.since + OneCycle
        BY <1>1, <1>2, <2>2, <2>4, <4>1, CycleTime
      <4>3. playTimer + cpu.since >= -Watchdog - OneCycle
        BY <1>1, <2>1, <3>2
      <4>4. QED
        BY <1>1, <2>2, <4>2, <4>3, Constants
    <3>3. QED
      BY <3>1, <3>2
  <2>5. ahead' = playTimer' /\ playTimer' <= playCycles'
    BY <1>1, <1>2, <2>2, <2>3, Constants
  <2>6. Beat'
    BY <2>1, <2>2, <2>3, <2>4, <2>5 DEF Beat
  <2>7. QED
    BY <1>1, <2>1, <2>6 DEF DoneReturned
<1>9. CASE StaysStuck
  <2>1. /\ callDone /\ cpu.op = "jammed" /\ callDone' /\ ticking' /\ (returned => returned')
        /\ playTimer' = playTimer /\ ahead' = Counted(ahead) /\ Cycle(cpu, cpu')
    BY <1>9 DEF StaysStuck, Stuck, CPUCycles
  <2>2. cpu' = cpu
    BY <2>1 DEF Cycle
  <2>3. ahead' = playTimer' /\ playTimer' <= playCycles' /\ playTimer' >= -MaxLag
    BY <1>1, <1>2, <2>1, Constants DEF Counted
  <2>4. playTimer' + cpu'.since >= -Watchdog - OneCycle
    BY <1>1, <2>1, <2>2
  <2>5. Beat'
    BY <2>1, <2>3, <2>4 DEF Beat
  <2>6. QED
    BY <1>1, <2>1, <2>5 DEF DoneReturned
<1>10. QED
  BY <1>3, <1>4, <1>6, <1>7, <1>8, <1>9, ClockCases

-----------------------------------------------------------------------------
LEMMA ClockTypes ==
  ASSUME PlayerInv, ClockOneCycle
  PROVE  Types'
<1>1. /\ cpu' \in CPUStates
      /\ playCycles' = playCycles /\ system' = system /\ currentSong' = currentSong
  BY ClockCases DEF settings
<1>2. playTimer \in Int /\ ahead \in Int /\ playCycles \in Nat
  BY Period DEF PlayerInv, Types
<1>3. callDone' \in BOOLEAN /\ ticking' \in BOOLEAN /\ returned' \in BOOLEAN
  <2> DEFINE p == WatchCall(CountDown(TrampolineMaintenance(Player)))
  <2>1. /\ callDone' = p.done
        /\ ticking' = (p.calls = 0)
        /\ returned' = (p.calls = 0 /\ (returned \/ cpu.at = "trampoline"))
    BY DEF ClockOneCycle
  <2>2. p.done \in BOOLEAN
    <3>1. Player.done \in BOOLEAN
      BY DEF PlayerInv, Types, Player
    <3>2. TrampolineMaintenance(Player).done \in BOOLEAN
      BY <3>1 DEF TrampolineMaintenance, TriggerPlayCall
    <3>3. CountDown(TrampolineMaintenance(Player)).done \in BOOLEAN
      BY <3>2 DEF CountDown
    <3>4. QED
      BY <3>3, WatchCallType
  <2> HIDE DEF p
  <2>3. callDone' \in BOOLEAN
    BY <2>1, <2>2
  <2>4. (p.calls = 0) \in BOOLEAN
        /\ (p.calls = 0 /\ (returned \/ cpu.at = "trampoline")) \in BOOLEAN
    OBVIOUS
  <2>5. QED
    BY <2>1, <2>3, <2>4
<1>4. playTimer' \in Int /\ ahead' \in Int
  BY <1>2, ClockCases, Constants DEF OnTime, CutOff, Noticed, Runs, Idles, StaysStuck,
     Calls, Counts, Counted
<1>5. QED
  BY <1>1, <1>3, <1>4 DEF PlayerInv, Types

(* A song chosen, or the machine reset: the beat starts over.              *)
LEMMA InitSongInv ==
  ASSUME PlayerInv, NEW song \in Songs, InitSong(song), UNCHANGED ticking,
         system' \in Systems, playCycles' \in {PlayCycles[s] : s \in Systems}
  PROVE  PlayerInv'
<1>1. /\ cpu' \in Anywhere /\ currentSong' = song
      /\ playTimer' = 0 /\ ahead' = 0 /\ callDone' /\ returned'
      /\ callDone' = TRUE /\ returned' = TRUE
  BY DEF InitSong
<1>2. cpu' \in CPUStates /\ cpu'.since = 0
  BY <1>1, AnywhereType, AnywhereSince
<1>3. Types'
  BY <1>1, <1>2 DEF PlayerInv, Types
<1>4. playCycles' \in Nat
  BY NSFAssumption, Constants DEF NSFAssumption
<1>5. Beat'
  BY <1>1, <1>2, <1>4, Constants DEF Beat
<1>6. DoneReturned'
  BY <1>1 DEF DoneReturned
<1>7. QED
  BY <1>3, <1>5, <1>6 DEF PlayerInv

LEMMA SongsOfFile ==
  ASSUME currentSong \in Songs
  PROVE  NextSong \in Songs /\ PrevSong \in Songs
<1>1. CASE TotalSongs + 1 = ByteSize
  <2>1. Songs = 0 .. TotalSongs
    BY <1>1 DEF Songs
  <2>2. Byte(currentSong + 1) = IF currentSong = TotalSongs THEN 0 ELSE currentSong + 1
    BY <1>1, <2>1, Constants DEF Byte
  <2>3. Byte(currentSong - 1) = IF currentSong = 0 THEN TotalSongs ELSE currentSong - 1
    BY <1>1, <2>1, Constants DEF Byte
  <2>4. QED
    BY <2>1, <2>2, <2>3, Constants DEF NextSong, PrevSong
<1>2. CASE TotalSongs + 1 # ByteSize
  <2>1. Songs = 1 .. TotalSongs
    BY <1>2 DEF Songs
  <2>2. Byte(currentSong + 1) = currentSong + 1 /\ Byte(currentSong - 1) = currentSong - 1
    BY <1>2, <2>1, Constants DEF Byte
  <2>3. QED
    BY <2>1, <2>2, Constants DEF NextSong, PrevSong
<1>3. QED
  BY <1>1, <1>2

LEMMA LoadInv ==
  ASSUME PlayerInv, LoadPlayer
  PROVE  PlayerInv'
<1>1. /\ cpu' \in Anywhere /\ system' \in Systems /\ ~ticking
      /\ callDone' = callDone /\ playTimer' = playTimer /\ playCycles' = playCycles
      /\ currentSong' = currentSong /\ ticking' = ticking
      /\ returned' = returned /\ ahead' = ahead
  BY DEF LoadPlayer, call, songHistory
<1>2. cpu' \in CPUStates /\ cpu'.since = 0
  BY <1>1, AnywhereType, AnywhereSince
<1>3. Types'
  BY <1>1, <1>2 DEF PlayerInv, Types
<1>4. /\ playTimer \in Int /\ ahead = playTimer /\ playTimer <= playCycles
      /\ playTimer >= -Watchdog
  BY <1>1 DEF PlayerInv, Types, Beat
<1>5. playTimer' + cpu'.since >= -Watchdog - OneCycle /\ playTimer' >= -MaxLag
  BY <1>1, <1>2, <1>4, Constants
<1>6. Beat'
  BY <1>1, <1>4, <1>5 DEF Beat
<1>7. DoneReturned'
  BY <1>1 DEF PlayerInv, DoneReturned
<1>8. QED
  BY <1>3, <1>6, <1>7 DEF PlayerInv

LEMMA InitInv == PlayerInit => PlayerInv
<1> SUFFICES ASSUME PlayerInit PROVE PlayerInv
  OBVIOUS
<1>1. cpu \in CPUStates /\ cpu.since = 0
  BY AnywhereType, AnywhereSince DEF PlayerInit
<1>2. /\ playTimer = 0 /\ ahead = 0 /\ callDone = TRUE /\ returned = TRUE /\ ticking = FALSE
      /\ system \in Systems /\ playCycles = PlayCycles[system] /\ currentSong = StartingSong
  BY DEF PlayerInit
<1>3. Types
  <2>1. callDone \in BOOLEAN /\ ticking \in BOOLEAN /\ returned \in BOOLEAN
    BY <1>2
  <2>2. playTimer \in Int /\ ahead \in Int
    BY <1>2
  <2>3. QED
    BY <1>1, <1>2, <2>1, <2>2, Constants DEF Types, Songs
<1>4. playCycles \in Nat
  BY <1>3, Period DEF Types
<1>5. Beat
  BY <1>1, <1>2, <1>4, Constants DEF Beat
<1>6. QED
  BY <1>2, <1>3, <1>5 DEF PlayerInv, DoneReturned

LEMMA StepInv == PlayerInv /\ [PlayerNext]_playerVars => PlayerInv'
<1> SUFFICES ASSUME PlayerInv, [PlayerNext]_playerVars PROVE PlayerInv'
  OBVIOUS
<1>1. CASE ClockOneCycle
  BY <1>1, ClockTypes, ClockBeat DEF PlayerInv
<1>2. CASE ChooseSong
  <2>1. PICK song \in {currentSong, NextSong, PrevSong} : InitSong(song)
    BY <1>2 DEF ChooseSong
  <2>2. song \in Songs
    BY <2>1, SongsOfFile DEF PlayerInv, Types
  <2>3. UNCHANGED <<ticking, playCycles, system>>
    BY <1>2 DEF ChooseSong
  <2>4. system' \in Systems /\ playCycles' \in {PlayCycles[s] : s \in Systems}
    BY <2>3 DEF PlayerInv, Types
  <2>5. QED
    BY <2>1, <2>2, <2>3, <2>4, InitSongInv
<1>3. CASE SwitchSystem
  <2>1. InitSong(currentSong) /\ UNCHANGED ticking
    BY <1>3 DEF SwitchSystem
  <2>2. system' \in Systems /\ playCycles' \in {PlayCycles[s] : s \in Systems}
    BY <1>3 DEF SwitchSystem, PlayerInv, Types
  <2>3. currentSong \in Songs
    BY DEF PlayerInv, Types
  <2>4. QED
    BY <2>1, <2>2, <2>3, InitSongInv
<1>4. CASE LoadPlayer
  BY <1>4, LoadInv
<1>5. CASE TickFrame
  <2>1. /\ ticking' = TRUE
        /\ UNCHANGED <<cpu, callDone, playTimer, playCycles, system, currentSong, returned,
                       ahead>>
    BY <1>5 DEF TickFrame, call, settings, songHistory
  <2>2. Types'
    BY <2>1 DEF PlayerInv, Types
  <2>3. Beat' /\ DoneReturned'
    BY <2>1 DEF PlayerInv, Beat, DoneReturned
  <2>4. QED
    BY <2>2, <2>3 DEF PlayerInv
<1>6. CASE UNCHANGED playerVars
  BY <1>6 DEF playerVars, call, settings, songHistory, PlayerInv, Types, Beat, DoneReturned
<1>7. QED
  BY <1>1, <1>2, <1>3, <1>4, <1>5, <1>6 DEF PlayerNext

LEMMA BeatBounds ==
  ASSUME PlayerInv
  PROVE  -MaxLag <= playTimer /\ playTimer <= playCycles /\ ahead = playTimer
BY Constants DEF PlayerInv, Types, Beat

(* For any tune, period, watchdog and number of songs, the fields keep     *)
(* their types and playTimer its range.                                    *)
THEOREM PlayerTypeCorrect == PlayerSpec => []PlayerTypeOK
<1>1. PlayerInv => PlayerTypeOK
  <2> SUFFICES ASSUME PlayerInv PROVE PlayerTypeOK
    OBVIOUS
  <2>1. playTimer \in -MaxLag .. playCycles
    BY BeatBounds, Constants, Period DEF PlayerInv, Types
  <2>2. QED
    BY <2>1 DEF PlayerInv, Types, PlayerTypeOK
<1>2. QED
  BY <1>1, InitInv, StepInv, PTL DEF PlayerSpec

(* For any tune, however its routines run over, a song stays within a      *)
(* period and a watchdog of the beat.                                      *)
THEOREM BeatKept == PlayerSpec => []CallsKeepTime
<1>1. PlayerInv => CallsKeepTime
  BY BeatBounds DEF CallsKeepTime
<1>2. QED
  BY <1>1, InitInv, StepInv, PTL DEF PlayerSpec

(* For any tune, a PLAY that has not returned is cut off only by the       *)
(* watchdog.                                                               *)
THEOREM CutsAreOverruns == PlayerSpec => OnlyOverrunsAreCut
<1>1. PlayerInv /\ [PlayerNext]_playerVars
        => [ticking /\ ~ticking' /\ ~returned => ahead - OneCycle < -Watchdog]_playerVars
  <2> SUFFICES ASSUME PlayerInv, PlayerNext, ticking, ~ticking', ~returned
               PROVE  ahead - OneCycle < -Watchdog
    OBVIOUS
  <2>1. ClockOneCycle
    BY DEF PlayerNext, ChooseSong, SwitchSystem, LoadPlayer, TickFrame
  <2>2. ~callDone /\ ahead = playTimer
    BY DEF PlayerInv, DoneReturned, Beat
  <2>3. CutOff
    BY <2>1, <2>2, ClockCases DEF OnTime, Noticed, Runs, Idles, StaysStuck, Stuck, Counts
  <2>4. QED
    BY <2>2, <2>3 DEF CutOff
<1>2. QED
  BY <1>1, InitInv, StepInv, PTL DEF PlayerSpec, OnlyOverrunsAreCut
=============================================================================
