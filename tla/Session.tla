------------------------------ MODULE Session ------------------------------
(***************************************************************************)
(* The application's session: its main loop (App.h), the rewind history    *)
(* and the save-state slots (IFileSession.h) of the machine it runs, and   *)
(* the process restarts the slots outlive.                                 *)
(*                                                                         *)
(* The machine is a function from its parts to their contents; a frame may *)
(* change any of them.  Parts in Saved are what saveState() writes.        *)
(*                                                                         *)
(* One turn of App::run is: events, clockCore, menu callbacks made while   *)
(* the window is drawn, the pending action.  A name starting with Mut is a *)
(* slip to be noticed, as in module DMA.                                   *)
(***************************************************************************)
EXTENDS Sequences, Integers

CONSTANTS
  Parts, Saved,
  Values,       (* contents of a part                                      *)
  Slots,        (* save-state slots: 0..9 in the program                   *)
  MaxHistory,   (* rewind frames kept: 10000 in the program                *)
  MaxRestarts,  (* bound on process restarts                               *)
  NoState

ASSUME SessionAssumption ==
  /\ Saved \subseteq Parts
  /\ MaxHistory \in Nat \ {0}
  /\ MaxRestarts \in Nat
  /\ NoState \notin [Saved -> Values]
  /\ NoState \notin [Parts -> Values]

States == [Parts -> Values]
Buffers == [Saved -> Values]
Differences == UNION {[parts -> Values] : parts \in SUBSET Saved}

VARIABLES
  turn,          (* "events" or "menu": what the main loop does            *)
  pending,       (* App::pending                                           *)
  open,          (* App::session holds a session                           *)
  paused,        (* NESCoreBase::paused of that session                    *)
  machine,       (* its machine                                            *)
  prevBuf,       (* NoState stands for the empty buffers of a new session  *)
  rewindHistory, (* differences, the newest last                           *)
  files,         (* slot -> contents of its file, or NoState               *)
  restarts,
  frames,        (* history: the machine at the end of each kept frame     *)
  filed,         (* history: the machine when each file was written        *)
  restored       (* history: the last load gave back the machine it was of *)

appVars == <<turn, pending, open, paused>>
rewindVars == <<prevBuf, rewindHistory, frames>>
fileVars == <<files, filed>>
vars == <<appVars, machine, rewindVars, fileVars, restarts, restored>>

-----------------------------------------------------------------------------
(* saveState, loadState                                                    *)
SaveState(state) == [p \in Saved |-> state[p]]

LoadState(state, buf) == [p \in Parts |-> IF p \in Saved THEN buf[p] ELSE state[p]]

(* What captureRewindFrame records of a frame and applyRewindFrame undoes. *)
MutNewValues(old, new) == [p \in {q \in Saved : old[q] # new[q]} |-> new[p]]

Changes(old, new) == [p \in {q \in Saved : old[q] # new[q]} |-> old[p]]

Undo(changes, buf) ==
  [p \in Saved |-> IF p \in DOMAIN changes THEN changes[p] ELSE buf[p]]

MutDropNewest(seq, n) == IF Len(seq) > n THEN SubSeq(seq, 1, n) ELSE seq

KeepNewest(seq, n) == IF Len(seq) > n THEN Tail(seq) ELSE seq

(* captureRewindFrame: the first frame fills the buffer, each later one    *)
(* adds the differences that lead back to the one before it.               *)
Capture(state) ==
  IF prevBuf = NoState
  THEN /\ prevBuf' = SaveState(state)
       /\ frames' = <<state>>
       /\ UNCHANGED rewindHistory
  ELSE /\ prevBuf' = SaveState(state)
       /\ rewindHistory' = KeepNewest(
            Append(rewindHistory, Changes(prevBuf, SaveState(state))), MaxHistory)
       /\ frames' = KeepNewest(Append(frames, state), MaxHistory + 1)

-----------------------------------------------------------------------------
NoHistory == prevBuf' = NoState /\ rewindHistory' = << >> /\ frames' = << >>

NewSession == open' = TRUE /\ machine' \in States /\ paused' = FALSE /\ NoHistory

(* The machine of a session that is gone is left to be overwritten.        *)
NoSession == open' = FALSE /\ UNCHANGED machine /\ paused' = FALSE /\ NoHistory

Init ==
  /\ turn = "events" /\ pending = "None"
  /\ open = FALSE /\ paused = FALSE
  /\ restarts = 0
  /\ machine \in States
  /\ prevBuf = NoState /\ rewindHistory = << >> /\ frames = << >>
  /\ files = [s \in Slots |-> NoState] /\ filed = files
  /\ restored = TRUE

(* IFileSession::clockCore.  An idle turn is one without a session, a      *)
(* paused one, or one that finds the audio queue full.                     *)
Clocked ==
  /\ turn = "events" /\ turn' = "menu"
  /\ UNCHANGED <<pending, open, paused, fileVars, restarts>>

IdleTurn == Clocked /\ UNCHANGED <<machine, rewindVars, restored>>

(* tickFrame at a speed that is not negative: the frame is captured.       *)
ForwardFrame ==
  /\ Clocked
  /\ open /\ ~paused
  /\ machine' \in States
  /\ Capture(machine')
  /\ UNCHANGED restored

(* syncScanline: the machine runs to a scanline, past the end of a frame   *)
(* or not, and goes on after what was captured.                            *)
SyncScanline ==
  /\ Clocked
  /\ open /\ ~paused
  /\ \/ machine' \in States /\ UNCHANGED rewindVars
     \/ \E state \in States :
          Capture(state) /\ machine' \in States
  /\ UNCHANGED restored

RewindTarget == Undo(rewindHistory[Len(rewindHistory)], prevBuf)

(* applyRewindFrame, then tickFrame with no capture: what is shown is the  *)
(* frame that follows the state gone back to.                              *)
RewindFrame ==
  /\ Clocked
  /\ open /\ ~paused
  /\ rewindHistory # << >>
  /\ prevBuf' = RewindTarget
  /\ rewindHistory' = SubSeq(rewindHistory, 1, Len(rewindHistory) - 1)
  /\ frames' = SubSeq(frames, 1, Len(frames) - 1)
  /\ machine' \in States
  /\ restored' = (LoadState(machine, RewindTarget) = frames[Len(frames) - 1])

-----------------------------------------------------------------------------
(* Commands of the keyboard and of the menu.                               *)
SaveStateToFile(slot) ==
  /\ open
  /\ files' = [files EXCEPT ![slot] = SaveState(machine)]
  /\ filed' = [filed EXCEPT ![slot] = machine]
  /\ UNCHANGED <<appVars, machine, rewindVars, restarts, restored>>

(* The history is left as it is: the next capture records the jump.        *)
LoadStateFromFile(slot) ==
  /\ open
  /\ files[slot] # NoState
  /\ machine' = LoadState(machine, files[slot])
  /\ restored' = (machine' = filed[slot])
  /\ UNCHANGED <<appVars, rewindVars, fileVars, restarts>>

TogglePause ==
  /\ open
  /\ paused' = ~paused
  /\ UNCHANGED <<turn, pending, open, machine, rewindVars, fileVars, restarts,
                 restored>>

ResetMachine ==
  /\ open
  /\ machine' \in States
  /\ UNCHANGED <<appVars, rewindVars, fileVars, restarts, restored>>

Choose(command) ==
  /\ pending' = command
  /\ UNCHANGED <<turn, open, paused, machine, rewindVars, fileVars, restarts,
                 restored>>

(* App::loadFile; makeSession may throw, and then there is no session.     *)
LoadFile == NewSession \/ NoSession

DropFile ==
  /\ turn = "events"
  /\ LoadFile
  /\ UNCHANGED <<turn, pending, fileVars, restarts, restored>>

(* App::applyPendingSessionAction; the file dialog may be cancelled.       *)
ApplyPending ==
  /\ turn = "menu" /\ turn' = "events"
  /\ pending' = "None"
  /\ \/ pending = "Open" /\ LoadFile
     \/ pending = "Reload" /\ open /\ LoadFile
     \/ pending = "Close" /\ NoSession
     \/ /\ pending \in {"None", "Open"} \/ (pending = "Reload" /\ ~open)
        /\ UNCHANGED <<open, paused, machine, rewindVars>>
  /\ UNCHANGED <<fileVars, restarts, restored>>

(* The program ends and is started again; only the files remain.           *)
Restart ==
  /\ restarts < MaxRestarts /\ restarts' = restarts + 1
  /\ turn' = "events" /\ pending' = "None"
  /\ NoSession
  /\ UNCHANGED <<fileVars, restored>>

Next ==
  \/ IdleTurn \/ ForwardFrame \/ SyncScanline \/ RewindFrame
  \/ \E slot \in Slots : SaveStateToFile(slot) \/ LoadStateFromFile(slot)
  \/ TogglePause \/ ResetMachine
  \/ \E command \in {"Open", "Reload", "Close"} : Choose(command)
  \/ DropFile
  \/ ApplyPending
  \/ Restart

Spec == Init /\ [][Next]_vars

-----------------------------------------------------------------------------
(* Each variable has the type of the field it models.                      *)
TypeOK ==
  /\ turn \in {"events", "menu"}
  /\ pending \in {"None", "Open", "Reload", "Close"}
  /\ open \in BOOLEAN /\ paused \in BOOLEAN
  /\ machine \in States
  /\ prevBuf \in Buffers \cup {NoState}
  /\ frames \in Seq(States)
  /\ rewindHistory \in Seq(Differences) /\ Len(rewindHistory) <= MaxHistory
  /\ files \in [Slots -> Buffers \cup {NoState}]
  /\ filed \in [Slots -> States \cup {NoState}]
  /\ restarts \in 0..MaxRestarts
  /\ restored \in BOOLEAN

(* Through captures, rewinds, loads and the dropping of old frames, the    *)
(* buffer holds the newest kept frame and each difference leads from a     *)
(* kept frame back to the one before it.                                   *)
Chained(history, ends) ==
  /\ Len(ends) = Len(history) + 1
  /\ \A i \in 1..Len(history) :
       Undo(history[i], SaveState(ends[i + 1])) = SaveState(ends[i])

HistoryInv ==
  IF prevBuf = NoState THEN rewindHistory = << >>
  ELSE /\ Chained(rewindHistory, frames)
       /\ prevBuf = SaveState(frames[Len(frames)])

(* A slot's file is the saved part of the machine it was written from.     *)
FilesInv ==
  \A slot \in Slots :
    files[slot] # NoState =>
      filed[slot] \in States /\ files[slot] = SaveState(filed[slot])

(* Rewinding a frame or loading a slot gives back the whole machine as it  *)
(* was then (README.md:19, 22).                                            *)
LoadsWholeState == restored

(* The session implements the stack of states: the state `steps` frames    *)
(* back is the newest one with the differences since undone.               *)
Decoded ==
  LET n == Len(rewindHistory)
      at[i \in 1..n+1] ==
        IF i = n + 1 THEN prevBuf ELSE Undo(rewindHistory[i], at[i + 1])
  IN  IF prevBuf = NoState THEN << >> ELSE [i \in 1..n+1 |-> at[i]]

History == INSTANCE StateHistory WITH past <- Decoded

HistorySpec == History!Spec
=============================================================================
