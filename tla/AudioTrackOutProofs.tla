------------------------ MODULE AudioTrackOutProofs ------------------------
(***************************************************************************)
(* What AudioTrackOut promises for any number of formats, pauses, volumes  *)
(* and seeks.  IInv is the inductive invariant: what the thread still      *)
(* knows when it sleeps, where it is for each state of its owner, and how  *)
(* far it can get after a pause.                                           *)
(***************************************************************************)
EXTENDS AudioTrackOut, TLAPS

\* The thread exists between aout_open_audio and the join, and keeps the
\* AudioTrack from its start to its end.
ThreadInv ==
  /\ owner = "new" => pc = "none"
  /\ owner = "closed" => pc = "end"
  /\ owner = "freed" => pc \in {"none", "end"}
  /\ owner \in {"new", "opened", "ready", "aborted"} => ~abort_request
  /\ tracks = IF pc \in {"none", "end"} THEN 0 ELSE 1

\* With the buffer that was under way the thread comes back to the head of its
\* loop, from where a pause lets it go to sleep and no further.
Held == {"loop", "lock", "asleep", "woken"}
LateInv ==
  /\ pc = "none" => late = 0
  /\ ~abort_request => late <= 1
  /\ ~abort_request /\ pause_on /\ late = 1 => pc \in Held

IInv == Places /\ Counters /\ NoFalseSleep /\ ThreadInv /\ LateInv

-----------------------------------------------------------------------------

LEMMA InitIInv == Init => IInv
  <1> SUFFICES ASSUME Init PROVE IInv
    OBVIOUS
  <1>1. Places /\ Counters
    BY BoundsAssumption DEF Init, Places, Counters
  <1>2. NoFalseSleep /\ ThreadInv /\ LateInv
    BY DEF Init, NoFalseSleep, ThreadInv, LateInv
  <1> QED
    BY <1>1, <1>2 DEF IInv

\* A flag is only set to a flag.
LEMMA NextFlags == Flags /\ [Next]_vars => Flags'
  <1> SUFFICES ASSUME Flags, [Next]_vars PROVE Flags'
    OBVIOUS
  <1> USE DEF Flags, requests, player
  <1>1. CASE OpenFails \/ Open \/ ReadThread \/ FreeOutput
    BY <1>1 DEF OpenFails, Open, ReadThread, Ready, AbortQueue, Close, Join, FreeOutput,
                PauseAudio
  <1>2. CASE ToggleBegin \/ ToggleEnd \/ SetVolume \/ Decode \/ Seek
    BY <1>2 DEF ToggleBegin, ToggleEnd, SetVolume, Decode, Seek, PauseAudio
  <1>3. CASE First \/ Start \/ Loop \/ TimeOut \/ Callback \/ Write \/ FreeTrack
    BY <1>3 DEF First, Start, Loop, TimeOut, Callback, Write, FreeTrack
  <1>4. CASE Lock \/ Woken
    BY <1>4 DEF Lock, Woken, Proceed
  <1>5. CASE Read \/ Flush \/ After
    BY <1>5 DEF Read, Flush, After
  <1>6. CASE UNCHANGED vars
    BY <1>6 DEF vars
  <1> QED
    BY <1>1, <1>2, <1>3, <1>4, <1>5, <1>6 DEF Next, AudioThread

LEMMA FlagsInvariance == Spec => []Flags
  <1>1. Init => Flags
    BY DEF Init, Flags
  <1> QED
    BY <1>1, NextFlags, PTL DEF Spec

\* aout_pause_audio, whoever calls it: what it changes keeps the invariant.
LEMMA PauseAudioKeeps ==
  ASSUME IInv, NEW on \in BOOLEAN, PauseAudio(on),
         owner # "new" \/ owner' = owner,
         UNCHANGED <<abort_request, tracks>>
  PROVE  /\ late' \in Nat /\ NoFalseSleep' /\ LateInv'
         /\ pc' = pc \/ (pc = "asleep" /\ pc' = "woken")
  <1> USE DEF IInv, Places, Counters
  <1>1. late' \in Nat
    BY DEF PauseAudio
  <1>2. pc' = pc \/ (pc = "asleep" /\ pc' = "woken")
    BY DEF PauseAudio, Signalled
  <1>3. NoFalseSleep'
    BY DEF PauseAudio, Signalled, NoFalseSleep
  <1>4. LateInv'
    BY DEF PauseAudio, Signalled, LateInv, Held
  <1> QED
    BY <1>1, <1>2, <1>3, <1>4

LEMMA OwnerIInv ==
  IInv /\ (OpenFails \/ Open \/ ReadThread \/ FreeOutput) => IInv'
  <1> SUFFICES ASSUME IInv, OpenFails \/ Open \/ ReadThread \/ FreeOutput PROVE IInv'
    OBVIOUS
  <1> USE BoundsAssumption
      DEF IInv, Places, Counters, NoFalseSleep, ThreadInv, LateInv, Held, requests, player
  <1>1. CASE OpenFails
    BY <1>1 DEF OpenFails, Freed
  <1>2. CASE Open
    BY <1>2 DEF Open
  <1>3. CASE Ready
    <2>1. /\ late' \in Nat /\ NoFalseSleep' /\ LateInv'
          /\ pc' = pc \/ (pc = "asleep" /\ pc' = "woken")
      BY <1>3, PauseAudioKeeps DEF Ready
    <2> QED
      BY <1>3, <2>1 DEF Ready
  <1>4. CASE AbortQueue
    BY <1>4 DEF AbortQueue
  <1>5. CASE Close
    BY <1>5 DEF Close, Signalled
  <1>6. CASE Join
    BY <1>6 DEF Join, Joinable
  <1>7. CASE FreeOutput
    BY <1>7 DEF FreeOutput
  <1> QED
    BY <1>1, <1>2, <1>3, <1>4, <1>5, <1>6, <1>7 DEF ReadThread

LEMMA CallersIInv ==
  IInv /\ (ToggleBegin \/ ToggleEnd \/ SetVolume \/ Decode \/ Seek) => IInv'
  <1> SUFFICES ASSUME IInv, ToggleBegin \/ ToggleEnd \/ SetVolume \/ Decode \/ Seek
               PROVE  IInv'
    OBVIOUS
  <1> USE BoundsAssumption
      DEF IInv, Places, Counters, NoFalseSleep, ThreadInv, LateInv, Held, requests, player
  <1>1. CASE ToggleBegin
    BY <1>1 DEF ToggleBegin
  <1>2. CASE ToggleEnd
    <2>1. /\ late' \in Nat /\ NoFalseSleep' /\ LateInv'
          /\ pc' = pc \/ (pc = "asleep" /\ pc' = "woken")
      BY <1>2, PauseAudioKeeps DEF ToggleEnd
    <2> QED
      BY <1>2, <2>1 DEF ToggleEnd
  <1>3. CASE SetVolume
    BY <1>3 DEF SetVolume, Signalled
  <1>4. CASE Decode
    BY <1>4 DEF Decode
  <1>5. CASE Seek
    BY <1>5 DEF Seek
  <1> QED
    BY <1>1, <1>2, <1>3, <1>4, <1>5

LEMMA AudioThreadIInv == IInv /\ (AudioThread \/ TimeOut) => IInv'
  <1> SUFFICES ASSUME IInv, AudioThread \/ TimeOut PROVE IInv'
    OBVIOUS
  <1> USE BoundsAssumption
      DEF IInv, Places, Counters, NoFalseSleep, ThreadInv, LateInv, Held, requests, player, Goes
  <1>1. CASE First \/ Start \/ Loop
    BY <1>1 DEF First, Start, Loop
  <1>2. CASE Lock
    <2>1. CASE MustWait
      BY <1>2, <2>1 DEF Lock, MustWait, Silenced
    <2>2. CASE ~MustWait
      BY <1>2, <2>2 DEF Lock, MustWait, Proceed
    <2> QED
      BY <2>1, <2>2
  <1>3. CASE Woken
    <2>1. CASE MustWait
      BY <1>3, <2>1 DEF Woken, MustWait
    <2>2. CASE ~MustWait
      <3>1. Resumed \in {"stopped", "playing", "paused"}
        BY DEF Resumed
      <3> QED
        BY <1>3, <2>2, <3>1 DEF Woken, MustWait, Proceed
    <2> QED
      BY <2>1, <2>2
  <1>4. CASE TimeOut
    BY <1>4 DEF TimeOut
  <1>5. CASE Callback
    BY <1>5 DEF Callback
  <1>6. CASE Read
    BY <1>6 DEF Read
  <1>7. CASE Flush \/ After
    BY <1>7 DEF Flush, After
  <1>8. CASE Write
    BY <1>8 DEF Write
  <1>9. CASE FreeTrack
    BY <1>9 DEF FreeTrack, Freed
  <1> QED
    BY <1>1, <1>2, <1>3, <1>4, <1>5, <1>6, <1>7, <1>8, <1>9 DEF AudioThread

LEMMA NextIInv == IInv /\ [Next]_vars => IInv'
  <1> SUFFICES ASSUME IInv, [Next]_vars PROVE IInv'
    OBVIOUS
  <1>1. CASE UNCHANGED vars
    BY <1>1 DEF vars, IInv, Places, Counters, NoFalseSleep, ThreadInv, LateInv
  <1> QED
    BY <1>1, OwnerIInv, CallersIInv, AudioThreadIInv DEF Next

LEMMA Invariance == Spec => []IInv
  <1> QED
    BY InitIInv, NextIInv, PTL DEF Spec

-----------------------------------------------------------------------------

\* Every variable keeps its type: the thread only gets to places it has, and one
\* AudioTrack at most is open.
THEOREM TypeCorrect == Spec => []TypeOK
  <1>1. Flags /\ IInv => TypeOK
    BY DEF IInv, TypeOK
  <1> QED
    BY <1>1, FlagsInvariance, Invariance, PTL

\* aout_thread_n sleeps in SDL_CondWaitTimeout only while it is to: each of the
\* requests that end the sleep is made and signalled in one section.
THEOREM SleepIsAsked == Spec => []NoFalseSleep
  <1>1. IInv => NoFalseSleep
    BY DEF IInv
  <1> QED
    BY <1>1, Invariance, PTL

\* However often the output is paused and resumed, at most the buffer that was
\* in the callback is heard after a pause.
THEOREM PauseIsSilent == Spec => []OneBufferAfterPause
  <1>1. IInv => OneBufferAfterPause
    BY DEF IInv, Places, Counters, LateInv, OneBufferAfterPause
  <1> QED
    BY <1>1, Invariance, PTL

\* aout_close_audio and aout_free_l leave no thread and no AudioTrack behind,
\* also after failed attempts to open.
THEOREM CloseReleases == Spec => []FreedUnused
  <1>1. IInv => FreedUnused
    BY DEF IInv, ThreadInv, FreedUnused
  <1> QED
    BY <1>1, Invariance, PTL

=============================================================================
