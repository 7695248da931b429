--------------------------- MODULE AudioTrackOut ---------------------------
(***************************************************************************)
(* The audio output of Android (ijksdl_aout_android_audiotrack.c): a       *)
(* thread that plays an AudioTrack, and the calls that pause, flush and    *)
(* close it and set its volume under wakeup_mutex.  The callback of the    *)
(* thread is sdl_audio_callback of ff_ffplay.c, which takes frames from    *)
(* sampq, may block there, and may itself ask for a flush; it runs outside *)
(* the mutex.  The read thread opens the output, unpauses it, and closes   *)
(* it after having aborted the queue.                                      *)
(*                                                                         *)
(* Everything between SDL_LockMutex and SDL_UnlockMutex, or a wait, is one *)
(* step: the calls of AudioTrack in it do not block.                       *)
(***************************************************************************)
EXTENDS Naturals

CONSTANTS MaxOpens,    \* bound: formats tried by audio_open
          MaxPauses,   \* bound: calls of stream_toggle_pause_l
          MaxVolumes,  \* bound: calls of aout_set_volume
          MaxSeeks     \* bound: changes of the serial of audioq

ASSUME BoundsAssumption ==
  MaxOpens \in Nat \ {0} /\ MaxPauses \in Nat /\ MaxVolumes \in Nat /\ MaxSeeks \in Nat

VARIABLES
  owner,           \* what the read thread, or ffp_destroy, has done with the output
  pc,              \* where the audio thread is
  tracks, track,   \* the AudioTrack objects, and what the thread's one is doing
  pause_on, abort_request, need_flush, need_set_volume,
  volume, applied, \* the volume asked for and that of the AudioTrack
  paused,          \* is->paused
  toggling,        \* the argument stream_toggle_pause_l is about to pass on, or "none"
  sampq, stale,    \* the frames, and whether they are of an older serial than audioq
  sound,           \* the callback has filled the buffer with sound
  late,            \* the buffers with sound played since the output was paused
  opens, pauses, seeks

vars == <<owner, pc, tracks, track, pause_on, abort_request, need_flush, need_set_volume,
          volume, applied, paused, toggling, sampq, stale, sound, late, opens, pauses, seeks>>
requests == <<pause_on, abort_request, need_flush, need_set_volume, volume>>
player == <<paused, toggling, sampq, stale, pauses, seeks>>

Flags ==
  /\ pause_on \in BOOLEAN /\ abort_request \in BOOLEAN
  /\ need_flush \in BOOLEAN /\ need_set_volume \in BOOLEAN
  /\ paused \in BOOLEAN /\ stale \in BOOLEAN /\ sound \in BOOLEAN

Places ==
  /\ owner \in {"new", "opened", "ready", "aborted", "closing", "closed", "freed"}
  /\ pc \in {"none", "first", "start", "loop", "lock", "asleep", "woken", "callback",
             "reading", "flush", "after", "write", "free", "end"}
  /\ track \in {"stopped", "playing", "paused"}
  /\ toggling \in {"none", "pause", "play"}
  /\ sampq \in {"empty", "frame", "aborted"}

Counters ==
  /\ tracks \in 0..1 /\ late \in Nat
  /\ volume \in 0..MaxVolumes /\ applied \in 0..MaxVolumes
  /\ opens \in 0..MaxOpens /\ pauses \in 0..MaxPauses /\ seeks \in 0..MaxSeeks

TypeOK == Flags /\ Places /\ Counters

Init ==
  /\ owner = "new" /\ pc = "none"
  /\ tracks = 0 /\ track = "stopped"
  /\ pause_on = FALSE /\ abort_request = FALSE
  /\ need_flush = FALSE /\ need_set_volume = FALSE
  /\ volume = 0 /\ applied = 0
  /\ paused = FALSE /\ toggling = "none"
  /\ sampq = "empty" /\ stale = FALSE /\ sound = FALSE
  /\ late = 0 /\ opens = 0 /\ pauses = 0 /\ seeks = 0

\* SDL_CondSignal: the audio thread is the only one that waits.  A slip: a
\* request that is not signalled.
NotSignalled(where) == where
Signalled(where) == IF where = "asleep" THEN "woken" ELSE where

\* SDL_Android_AudioTrack_free.
Freed(n) == n - 1

-----------------------------------------------------------------------------
(* The read thread and ffp_destroy.                                        *)

\* aout_open_audio without a track, a buffer or a thread; audio_open goes on
\* with another format.
OpenFails ==
  /\ owner = "new" /\ opens + 1 < MaxOpens
  /\ opens' = opens + 1
  /\ tracks' \in {tracks, Freed(tracks + 1)}
  /\ UNCHANGED <<owner, pc, track, requests, applied, player, sound, late>>

Open ==
  /\ owner = "new" /\ opens < MaxOpens
  /\ owner' = "opened"
  /\ opens' = opens + 1
  /\ tracks' = tracks + 1
  /\ pause_on' = TRUE /\ abort_request' = FALSE
  /\ pc' = "first"
  /\ UNCHANGED <<track, need_flush, need_set_volume, volume, applied, player, sound, late>>

\* aout_pause_audio.
PauseAudio(on) ==
  /\ pause_on' = on
  /\ pc' = IF on THEN pc ELSE Signalled(pc)
  /\ late' = IF on /\ ~pause_on THEN 0 ELSE late

\* The end of stream_component_open.
Ready ==
  /\ owner = "opened"
  /\ owner' = "ready"
  /\ PauseAudio(FALSE)
  /\ UNCHANGED <<tracks, track, abort_request, need_flush, need_set_volume, volume, applied,
                 player, sound, opens>>

\* stream_component_close: packet_queue_abort and frame_queue_signal, ...
AbortQueue ==
  /\ owner = "ready"
  /\ owner' = "aborted"
  /\ sampq' = "aborted"
  /\ UNCHANGED <<pc, tracks, track, requests, applied, paused, toggling, stale, sound, late,
                 opens, pauses, seeks>>

\* ... aout_close_audio, which aout_free_l repeats ...
Close ==
  /\ owner = "aborted"
  /\ owner' = "closing"
  /\ abort_request' = TRUE
  /\ pc' = Signalled(pc)
  /\ UNCHANGED <<tracks, track, pause_on, need_flush, need_set_volume, volume, applied,
                 player, sound, late, opens>>

\* ... and which joins the thread.
Unjoined == pc # "none"   \* a slip: only looks whether there is a thread
Joinable == pc = "end"
Join ==
  /\ owner = "closing" /\ Joinable
  /\ owner' = "closed"
  /\ UNCHANGED <<pc, tracks, track, requests, applied, player, sound, late, opens>>

\* aout_free_l, when the player's threads have ended, or when there never was an
\* audio stream: the cond, the mutex and the buffer are gone.
FreeOutput ==
  /\ owner \in {"new", "closed"} /\ toggling = "none"
  /\ owner' = "freed"
  /\ UNCHANGED <<pc, tracks, track, requests, applied, player, sound, late, opens>>

ReadThread == Ready \/ AbortQueue \/ Close \/ Join

-----------------------------------------------------------------------------
(* The other threads.                                                      *)

\* stream_toggle_pause_l: is->paused, then the output.
ToggleBegin ==
  /\ owner \in {"ready", "aborted", "closing", "closed"} /\ toggling = "none"
  /\ pauses < MaxPauses
  /\ pauses' = pauses + 1
  /\ \E on \in BOOLEAN :
       /\ paused' = on
       /\ toggling' = IF on THEN "pause" ELSE "play"
  /\ UNCHANGED <<owner, pc, tracks, track, requests, applied, sampq, stale, sound, late,
                 opens, seeks>>

ToggleEnd ==
  /\ toggling # "none"
  /\ toggling' = "none"
  /\ PauseAudio(toggling = "pause")
  /\ UNCHANGED <<owner, tracks, track, abort_request, need_flush, need_set_volume, volume,
                 applied, paused, sampq, stale, sound, opens, pauses, seeks>>

\* aout_set_volume, by the application, with or without a thread.
SetVolume ==
  /\ owner # "freed"
  /\ volume < MaxVolumes
  /\ volume' = volume + 1
  /\ need_set_volume' = TRUE
  /\ pc' = Signalled(pc)
  /\ UNCHANGED <<owner, tracks, track, pause_on, abort_request, need_flush, applied, player,
                 sound, late, opens>>

\* The decoder pushes a frame, of the serial of audioq; ...
Decode ==
  /\ owner \in {"ready", "aborted"} /\ sampq = "empty"
  /\ sampq' = "frame" /\ stale' = FALSE
  /\ UNCHANGED <<owner, pc, tracks, track, requests, applied, paused, toggling, sound, late,
                 opens, pauses, seeks>>

\* ... a seek changes that.
Seek ==
  /\ owner = "ready" /\ seeks < MaxSeeks
  /\ seeks' = seeks + 1
  /\ stale' = TRUE
  /\ UNCHANGED <<owner, pc, tracks, track, requests, applied, paused, toggling, sampq, sound,
                 late, opens, pauses>>

-----------------------------------------------------------------------------
(* The audio thread.                                                       *)

Goes(from, to) == pc = from /\ pc' = to

\* aout_thread_n tests pause_on without the mutex ...
First ==
  /\ pc = "first"
  /\ pc' = IF ~abort_request /\ ~pause_on THEN "start" ELSE "loop"
  /\ UNCHANGED <<owner, tracks, track, requests, applied, player, sound, late, opens>>

\* ... and plays.
Start ==
  /\ Goes("start", "loop")
  /\ track' = "playing"
  /\ UNCHANGED <<owner, tracks, requests, applied, player, sound, late, opens>>

Loop ==
  /\ Goes("loop", IF abort_request THEN "free" ELSE "lock")
  /\ UNCHANGED <<owner, tracks, track, requests, applied, player, sound, late, opens>>

\* The condition of the loop that waits.  A slip: it forgets the abort.
MustWaitPaused == pause_on
MustWait == ~abort_request /\ pause_on

\* The section after the wait: flush and volume; the callback is called even if
\* the output has been aborted meanwhile.
Proceed(state) ==
  /\ pc' = "callback"
  /\ track' = state
  /\ need_flush' = FALSE
  /\ need_set_volume' = FALSE
  /\ applied' = IF need_set_volume THEN volume ELSE applied
  /\ UNCHANGED <<pause_on, abort_request, volume>>

\* A pause takes effect.  A slip: the AudioTrack goes on with what it has.
Unsilenced == track
Silenced == "paused"

Lock ==
  /\ pc = "lock"
  /\ IF MustWait THEN /\ track' = Silenced
                      /\ pc' = "asleep"
                      /\ UNCHANGED <<requests, applied>>
                 ELSE Proceed(track)
  /\ UNCHANGED <<owner, tracks, player, sound, late, opens>>

\* SDL_CondWaitTimeout ends after a second ...
TimeOut ==
  /\ Goes("asleep", "woken")
  /\ UNCHANGED <<owner, tracks, track, requests, applied, player, sound, late, opens>>

\* The AudioTrack plays again after the wait.  A slip: it stays paused.
NotResumed == track
Resumed == IF abort_request THEN track ELSE "playing"

WokenOnce ==   \* a slip: the conditions are not tested again
  /\ pc = "woken"
  /\ Proceed(Resumed)
  /\ UNCHANGED <<owner, tracks, player, sound, late, opens>>

\* ... and the conditions are tested again.
Woken ==
  /\ pc = "woken"
  /\ IF MustWait THEN pc' = "asleep" /\ UNCHANGED <<requests, track, applied>>
                 ELSE Proceed(Resumed)
  /\ UNCHANGED <<owner, tracks, player, sound, late, opens>>

\* sdl_audio_callback has something of its buffer left, or is paused, or asks
\* for a frame, ...
Callback ==
  /\ pc = "callback"
  /\ \/ sound' = TRUE /\ pc' = (IF stale THEN "flush" ELSE "after")
     \/ ~paused /\ sound' = FALSE /\ pc' = "reading"
     \/ paused /\ sound' = FALSE /\ pc' = (IF stale THEN "flush" ELSE "after")
  /\ UNCHANGED <<owner, tracks, track, requests, applied, player, late, opens>>

\* ... for which frame_queue_peek_readable waits; a frame of an older serial is
\* dropped.
Read ==
  /\ pc = "reading"
  /\ \/ /\ sampq = "aborted"
        /\ pc' = IF stale THEN "flush" ELSE "after"
        /\ UNCHANGED <<sampq, sound>>
     \/ /\ sampq = "frame" /\ sampq' = "empty"
        /\ pc' = IF stale THEN "reading" ELSE "after"
        /\ sound' = ~stale
  /\ UNCHANGED <<owner, tracks, track, requests, applied, paused, toggling, stale, late, opens,
                 pauses, seeks>>

\* The serial has changed: silence, and aout_flush_audio, with wakeup_mutex.
Flush ==
  /\ Goes("flush", "after")
  /\ sound' = FALSE
  /\ need_flush' = TRUE
  /\ UNCHANGED <<owner, tracks, track, pause_on, abort_request, need_set_volume, volume,
                 applied, player, late, opens>>

After ==
  /\ Goes("after", "write")
  /\ need_flush' = FALSE
  /\ UNCHANGED <<owner, tracks, track, pause_on, abort_request, need_set_volume, volume,
                 applied, player, sound, late, opens>>

Write ==
  /\ Goes("write", "loop")
  /\ late' = IF pause_on /\ sound /\ track = "playing" THEN late + 1 ELSE late
  /\ UNCHANGED <<owner, tracks, track, requests, applied, player, sound, opens>>

FreeTrack ==
  /\ Goes("free", "end")
  /\ tracks' = Freed(tracks)
  /\ UNCHANGED <<owner, track, requests, applied, player, sound, late, opens>>

AudioThread ==
  \/ First \/ Start \/ Loop \/ Lock \/ Woken \/ Callback \/ Read \/ Flush \/ After \/ Write
  \/ FreeTrack

Next ==
  \/ OpenFails \/ Open \/ ReadThread \/ FreeOutput
  \/ ToggleBegin \/ ToggleEnd \/ SetVolume \/ Decode \/ Seek
  \/ AudioThread \/ TimeOut
  \/ owner = "freed" /\ UNCHANGED vars

\* The threads are scheduled, a wait times out, and a call that has begun is
\* finished.  The stream may never end: nobody has to close the output.
Fairness ==
  /\ WF_vars(AudioThread) /\ WF_vars(TimeOut)
  /\ WF_vars(ToggleEnd) /\ WF_vars(Ready) /\ WF_vars(Close) /\ WF_vars(Join)

Spec == Init /\ [][Next]_vars /\ Fairness

-----------------------------------------------------------------------------
(* Properties. *)

\* The audio thread sleeps only while it is asked to pause: a resume or a close
\* does not have to wait for the second after which SDL_CondWaitTimeout returns,
\* although the requests come from four threads and share one cond.
NoFalseSleep == pc = "asleep" => pause_on /\ ~abort_request

\* The callback runs without the mutex, so a buffer can still be on its way when
\* the output is paused: one, even if the thread was blocked on the frame queue
\* and whatever wakes it later.  A close lets it play what it likes.
OneBufferAfterPause == late > 1 => abort_request

\* When aout_close_audio has returned nobody uses the buffer, the mutex and the
\* AudioTrack, which has been released.
FreedUnused == owner \in {"closed", "freed"} => pc \in {"none", "end"} /\ tracks = 0

\* A pause silences the AudioTrack, unless the thread is kept in the callback by an
\* empty frame queue, and also if it came between the test of pause_on and the
\* play of aout_thread_n.
PauseTakesEffect ==
  pause_on ~> track # "playing" \/ ~pause_on \/ abort_request \/ pc = "reading"

\* What has been paused plays again when the output is resumed.
ResumeTakesEffect ==
  track = "paused" /\ ~pause_on ~> track = "playing" \/ pause_on \/ abort_request

\* A close ends the thread, wherever it waits: for the end of a pause or, in the
\* callback, for a frame.
CloseTerminates == owner = "aborted" ~> owner = "closed"

\* "The audio track being played" needs a call of AudioTrack.play.
PlayStarts ==
  owner = "ready" /\ ~pause_on
    ~> track = "playing" \/ pause_on \/ owner # "ready"

=============================================================================
