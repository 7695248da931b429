---------------------------- MODULE PlayerProofs ----------------------------
(***************************************************************************)
(* Properties of Player proved for every source, capacity and number of    *)
(* calls: those of the playback that the message loop's calls keep as      *)
(* well, that a pause reported is a pause asked for, that the last start   *)
(* is not undone, nor lost unless the queue has lost a message, the types, *)
(* with the serials owed to the calls, and, under the calls that           *)
(* ijkplayer.h lists for a state, that the player does not fail.           *)
(***************************************************************************)
EXTENDS Player, PlaybackProofs, RemovalProofs

\* What a step of the player does to the playback: a thread's step, a control
\* call, a new read thread, or nothing that play depends on.
LEMMA NextIsPlayback ==
  ASSUME [Next]_allVars
  PROVE  \/ Threads \/ ControlCall
         \/ rpc' \in {rpc, "open"} /\ play' = play /\ announced' = announced
  <1>1. CASE Application \/ InCall \/ PutOther
    BY <1>1
       DEF Application, InCall, SetDataSource, PrepareAsync, StreamOpen, PrepareAgain,
           Start, Pause, SeekTo, Stop, Begin, Release, RemoveNext, PutRequest, StopBegin,
           StopEnd, ReleaseFree, ReleaseClear, PutOther, playbackVars, playVars, readVars
  <1>2. CASE \/ LoopEnd \/ LoopGet \/ HandlePrepared \/ HandleCompleted
             \/ HandleSeekComplete \/ HandleRequest \/ Crash
    BY <1>2
       DEF LoopEnd, LoopGet, HandlePrepared, HandleCompleted, HandleSeekComplete,
           HandleRequest, Crash, playbackVars, playVars, readVars
  <1>3. CASE \/ DoStart \/ DoStartFromBeginning \/ DoStartFromBuffering
             \/ DoStartFromSeek \/ DoPause \/ DoSeek
    BY <1>3
       DEF DoStart, DoStartFromBeginning, DoStartFromBuffering, DoStartFromSeek,
           DoPause, DoSeek, ControlCall
  <1>4. CASE Resting \/ UNCHANGED allVars
    BY <1>4 DEF Resting, allVars, playbackVars, playVars, readVars
  <1> QED
    BY <1>1, <1>2, <1>3, <1>4 DEF Next, MessageLoop

LEMMA PlayerPlayInv == PlayInv /\ [Next]_allVars => PlayInv'
  <1> SUFFICES ASSUME PlayInv, [Next]_allVars PROVE PlayInv'
    OBVIOUS
  <1>1. CASE Threads
    BY <1>1, ReadThreadPlayInv, DecoderPlayInv, RendererPlayInv DEF Threads
  <1>2. CASE ControlCall
    BY <1>2, CallPlayInv
  <1>3. CASE rpc' \in {rpc, "open"} /\ play' = play /\ announced' = announced
    BY <1>3, PlayKept DEF InSeek
  <1> QED
    BY <1>1, <1>2, <1>3, NextIsPlayback

\* The threads are started once.
Unopened == mp_state \in {"IDLE", "INITIALIZED"} => rpc = "none"

LEMMA ReadThreadStarted == ReadThread => rpc # "none"
  BY DEF ReadThread, ReadOpen, ReadProbe, ReadAutoStart, ReadAutoClear,
         ReadLoop, ReadSeek, ReadSeekFlush, ReadSeeked, ReadSeekPlay, ReadSeekComplete,
         ReadSeekBuffering, ReadFull, ReadFullBuffering, ReadCompleted, ReadComplete,
         ReadCompleteBuffering, ReadCompletePause, ReadCompletePut, ReadMore,
         ReadPacket, Answers, ReadCheck, ReadEnd, ReadError, ReadAgain, ReadFailed,
         ReadCleanup, ReadJoin

LEMMA DecoderAndRendererAside == Decoder \/ Renderer => rpc' = rpc
  BY DEF Decoder, DecoderGet, DecoderEmpty, DecoderStarve, DecoderDecode, DecoderPush,
         DecoderExit, Renderer, RenderLoop, RenderNothing, RenderSkip, RenderShow,
         RenderShown, readVars

LEMMA DecoderAndRendererMute == Decoder \/ Renderer => UNCHANGED queueVars
  BY DEF Decoder, DecoderGet, DecoderEmpty, DecoderStarve, DecoderDecode, DecoderPush,
         DecoderExit, Renderer, RenderLoop, RenderNothing, RenderSkip, RenderShow,
         RenderShown, msgVars, queueVars

LEMMA PlayerEndInv == (Unopened /\ EndInv) /\ [Next]_allVars => (Unopened /\ EndInv)'
  <1> SUFFICES ASSUME Unopened, EndInv, [Next]_allVars PROVE Unopened' /\ EndInv'
    OBVIOUS
  <1>1. CASE Threads /\ UNCHANGED playerVars
    <2>1. mp_state' = mp_state /\ (rpc' = rpc \/ rpc # "none")
      BY <1>1, ReadThreadStarted, DecoderAndRendererAside DEF Threads, playerVars
    <2> QED
      BY <1>1, <2>1, ThreadsEndInv DEF Unopened
  <1>2. CASE PrepareAsync
    BY <1>2, OthersEndInv DEF PrepareAsync, StreamOpen, Unopened, packetVars
  <1>3. CASE Application /\ ~PrepareAsync
    BY <1>3, OthersEndInv
       DEF Application, SetDataSource, PrepareAgain, Start, Pause, SeekTo, Stop, Begin,
           Release, Unopened, playbackVars, packetVars, readVars
  <1>4. CASE InCall \/ PutOther
    BY <1>4, OthersEndInv
       DEF InCall, RemoveNext, PutRequest, StopBegin, StopEnd, ReleaseFree, ReleaseClear,
           PutOther, Unopened, playbackVars, playerVars, packetVars, readVars
  <1>5. CASE \/ LoopEnd \/ LoopGet \/ HandlePrepared \/ HandleCompleted
             \/ HandleSeekComplete \/ HandleRequest \/ Crash
    BY <1>5, OthersEndInv
       DEF LoopEnd, LoopGet, HandlePrepared, HandleCompleted, HandleSeekComplete,
           HandleRequest, Crash, Unopened, playbackVars, packetVars, readVars
  <1>6. CASE \/ DoStart \/ DoStartFromBeginning \/ DoStartFromBuffering
             \/ DoStartFromSeek \/ DoPause \/ DoSeek
    BY <1>6, OthersEndInv
       DEF DoStart, DoStartFromBeginning, DoStartFromBuffering, DoStartFromSeek, DoPause,
           DoSeek, CallStart, CallStartFrom, StartFromBuffering, StartFromSeek, CallPause,
           CallSeek, Unopened, playerVars, packetVars, readVars
  <1>7. CASE Resting \/ UNCHANGED allVars
    BY <1>7, OthersEndInv DEF Resting, allVars, playbackVars, playerVars, Unopened,
                              packetVars, readVars
  <1> QED
    BY <1>1, <1>2, <1>3, <1>4, <1>5, <1>6, <1>7 DEF Next, MessageLoop

\* The playback's own properties hold with the message loop and the application
\* as the callers, whatever they call and when (ijkmp_get_msg).
THEOREM PlayerPlayback ==
  Spec => [](BufferingAnnounced /\ PausedForAReason /\ NothingAfterCompletion)
  <1>1. Init => PlayInv /\ Unopened /\ EndInv
    BY InitPlayInv, InitEndInv DEF Init, PlaybackInit, Unopened
  <1>2. PlayInv => BufferingAnnounced /\ PausedForAReason
    BY DEF PlayInv
  <1>3. EndInv => NothingAfterCompletion
    BY DEF EndInv, AfterCompletion, Decoding, NothingAfterCompletion, Unshown
  <1> QED
    BY <1>1, <1>2, <1>3, PlayerPlayInv, PlayerEndInv, PTL DEF Spec

-----------------------------------------------------------------------------
(* A pause reported is a pause asked for.                                  *)

\* Nothing is left that could start a paused player.
HeldBack == play.pause_req = TRUE /\ auto_start = FALSE

PInv ==
  /\ mp_state = "PAUSED" => HeldBack
  /\ from # "" => lpc = "inside" /\ msg = "REQ_START" /\ mp_state = "COMPLETED"
  /\ Calling => lpc # "inside"

\* Only a start takes a pause back: not the end of a step, the end of buffering,
\* the completion, or a seek for which no start is left.
LEMMA ThreadsHoldBack ==
  ASSUME PlayType, HeldBack, Threads
  PROVE  HeldBack'
  <1>1. CASE \/ ReadOpen \/ ReadProbe \/ ReadAutoStart \/ ReadSeek \/ ReadSeekFlush
             \/ ReadSeeked \/ ReadSeekComplete \/ ReadFull \/ ReadCompleted
             \/ ReadCompletePut \/ ReadMore \/ ReadPacket \/ ReadEnd \/ ReadError
             \/ ReadAgain \/ ReadCleanup \/ ReadJoin
    BY <1>1
       DEF HeldBack, ReadOpen, ReadProbe, ReadAutoStart, ReadSeek, ReadSeekFlush,
           ReadSeeked, ReadSeekComplete, ReadFull, ReadCompleted, ReadCompletePut,
           ReadMore, ReadPacket, ReadEnd, ReadError, ReadAgain, ReadFails, ReadCleanup,
           ReadJoin, playVars
  <1>2. CASE ReadAutoClear \/ ReadComplete
    BY <1>2 DEF HeldBack, ReadAutoClear, ReadComplete
  <1>3. CASE \/ ReadLoop \/ ReadSeekBuffering \/ ReadFullBuffering
             \/ ReadCompleteBuffering \/ ReadCheck \/ ReadFailed \/ DecoderStarve
    BY <1>3
       DEF HeldBack, PlayType, ReadLoop, ReadSeekBuffering, ReadFullBuffering,
           ReadCompleteBuffering, ReadCheck, ReadFailed, DecoderStarve,
           ToggleBuffering, UpdatePause
  <1>4. CASE ReadSeekPlay
    BY <1>4 DEF HeldBack, PlayType, ReadSeekPlay, StepToNextFrame
  <1>5. CASE ReadCompletePause
    BY <1>5 DEF HeldBack, PlayType, ReadCompletePause, TogglePause, UpdatePause
  <1>6. CASE RenderShown
    BY <1>6 DEF HeldBack, PlayType, RenderShown, UpdatePause
  <1>7. CASE \/ DecoderGet \/ DecoderEmpty \/ DecoderDecode \/ DecoderPush \/ DecoderExit
             \/ RenderLoop \/ RenderNothing \/ RenderSkip \/ RenderShow
    BY <1>7
       DEF HeldBack, DecoderGet, DecoderEmpty, DecoderDecode, DecoderPush, DecoderExit,
           RenderLoop, RenderNothing, RenderSkip, RenderShow, playVars
  <1> QED
    BY <1>1, <1>2, <1>3, <1>4, <1>5, <1>6, <1>7 DEF Threads, ReadThread, Decoder, Renderer

LEMMA ThreadsPInv == PlayInv /\ PInv /\ Threads /\ UNCHANGED playerVars => PInv'
  <1> SUFFICES ASSUME PlayInv, PInv, Threads, UNCHANGED playerVars PROVE PInv'
    OBVIOUS
  <1>1. from' = from
    BY DEF Threads, ReadThread, ReadOpen, ReadProbe, ReadAutoStart, ReadAutoClear,
           ReadLoop, ReadSeek, ReadSeekFlush, ReadSeeked, ReadSeekPlay, ReadSeekComplete,
           ReadSeekBuffering, ReadFull, ReadFullBuffering, ReadCompleted, ReadComplete,
           ReadCompleteBuffering, ReadCompletePause, ReadCompletePut, ReadMore,
           ReadPacket, ReadCheck, ReadEnd, ReadError, ReadAgain, ReadFails, ReadFailed,
           ReadCleanup, ReadJoin, Decoder, DecoderGet, DecoderEmpty, DecoderStarve,
           DecoderDecode, DecoderPush, DecoderExit, Renderer, RenderLoop, RenderNothing,
           RenderSkip, RenderShow, RenderShown, callVars
  <1>2. mp_state' = "PAUSED" => HeldBack'
    BY ThreadsHoldBack DEF PlayInv, PInv, playerVars
  <1> QED
    BY <1>1, <1>2 DEF PInv, Calling, playerVars, callingVars

LEMMA NextPInv == PlayInv /\ PInv /\ [Next]_allVars => PInv'
  <1> SUFFICES ASSUME PlayInv, PInv, [Next]_allVars PROVE PInv'
    OBVIOUS
  <1> USE DEF PInv, Calling, callingVars
  <1>1. CASE Threads /\ UNCHANGED playerVars
    BY <1>1, ThreadsPInv
  <1>2. CASE Application
    BY <1>2
       DEF Application, SetDataSource, PrepareAsync, PrepareAgain, Start, Pause, SeekTo, Stop,
           Begin, MayCall, MutexFree, LoopInside, Release, HeldBack, playbackVars, playVars,
           callVars
  <1>10. CASE InCall \/ PutOther
    BY <1>10
       DEF InCall, RemoveNext, PutRequest, StopBegin, StopEnd, ReleaseFree, ReleaseClear,
           PutOther, HeldBack, playbackVars, playerVars, playVars, callVars
  <1>3. CASE \/ LoopEnd \/ LoopGet \/ HandlePrepared \/ HandleCompleted
             \/ HandleSeekComplete \/ HandleRequest \/ Crash
    BY <1>3
       DEF LoopEnd, LoopGet, HandlePrepared, HandleCompleted, HandleSeekComplete,
           HandleRequest, Handling, MutexFree, Crash, HeldBack, playbackVars, playVars,
           callVars
  <1>4. CASE DoStart
    BY <1>4 DEF DoStart, Inside, LoopInside, CallStart
  <1>5. CASE DoStartFromBeginning
    BY <1>5 DEF DoStartFromBeginning, Inside, LoopInside, CallStartFrom, playerVars
  <1>6. CASE DoStartFromBuffering \/ DoStartFromSeek
    BY <1>6 DEF DoStartFromBuffering, DoStartFromSeek, Inside, LoopInside,
                StartFromBuffering, StartFromSeek, playerVars
  <1>7. CASE DoPause
    BY <1>7 DEF DoPause, Inside, LoopInside, CallPause, TogglePause, UpdatePause,
                HeldBack, PlayInv, PlayType
  <1>8. CASE DoSeek
    BY <1>8 DEF DoSeek, Inside, LoopInside, CallSeek, HeldBack, playVars
  <1>9. CASE Resting \/ UNCHANGED allVars
    BY <1>9 DEF Resting, allVars, playbackVars, playerVars, playVars, callVars, HeldBack
  <1> QED
    BY <1>1, <1>2, <1>3, <1>4, <1>5, <1>6, <1>7, <1>8, <1>9, <1>10 DEF Next, MessageLoop

\* A player that reports PAUSED has been asked to pause (ijkmp_get_msg sets the
\* state under mp->mutex, the read thread pause_req under play_mutex).
THEOREM PausesAreAsked == Spec => []PausedIsAsked
  <1>1. Init => PlayInv /\ PInv
    BY InitPlayInv DEF Init, PlaybackInit, PInv
  <1>2. (PlayInv /\ PInv) /\ [Next]_allVars => (PlayInv /\ PInv)'
    BY PlayerPlayInv, NextPInv
  <1>3. PInv => PausedIsAsked
    BY DEF PInv, HeldBack, PausedIsAsked
  <1> QED
    BY <1>1, <1>2, <1>3, PTL DEF Spec

-----------------------------------------------------------------------------
(* No fault, under the calls that ijkplayer.h lists for a state.           *)

\* A player that is prepared once, and not released while it is in use.
AsListed ==
  /\ Documented = TRUE
  /\ \A m \in DOMAIN Calls : Calls[m] \subseteq {"start", "pause", "seek", "stop"}

RunningStates == ReadStates \ {"none", "open", "probe", "cleanup", "join", "end"}

\* What the read thread puts when the media cannot be opened.
OneError == <<"ERROR">>

LEMMA OneErrorIs ==
  /\ Append(<<>>, "ERROR") = OneError
  /\ Head(OneError) = "ERROR" /\ Tail(OneError) = <<>>
  <1>1. Append(<<>>, "ERROR") = <<"ERROR">>
    OBVIOUS
  <1>2. Head(<<"ERROR">>) = "ERROR" /\ Tail(<<"ERROR">>) = <<>>
    OBVIOUS
  <1> QED
    BY <1>1, <1>2 DEF OneError

\* Until the media is prepared nothing can be asked of the player.
BeforePrepared ==
  ~prepared =>
    /\ mp_state \in {"IDLE", "INITIALIZED", "ASYNC_PREPARING", "ERROR"}
    /\ lpc \in {"none", "get", "end"}
    /\ q = <<>> \/ (q = OneError /\ rpc = "end")
    /\ rpc \notin RunningStates
    /\ ~abort_request /\ apc = "idle" /\ left = <<>> /\ ~astray /\ from = ""

\* The VideoState is there from the start of the read thread on, and the
\* AVFormatContext from the preparation to a stop.
InUse ==
  /\ is \in {"null", "open"}
  /\ mp_state \in {"IDLE", "INITIALIZED"} => rpc = "none"
  /\ rpc = "none" => ~prepared
  /\ rpc # "none" => is = "open"
  /\ ic \in {"null", "open"} \union Media
  /\ prepared /\ ~abort_request => rpc \in RunningStates /\ ic \in Media

\* A request is carried out for a prepared player that nobody stops, and none
\* is after a stop, although the loop may have taken one before it.
Stopped ==
  /\ apc = "idle" \/ Calling
  /\ Calling => lpc # "inside"
  /\ lpc = "inside" => ~abort_request
  /\ abort_request => \/ apc = "stopping"
                      \/ q_abort /\ (lpc = "handle" => mp_state = "STOPPED")

FInv == NoFault /\ BeforePrepared /\ InUse /\ Stopped

LEMMA InitFInv == Init => FInv
  BY DEF Init, PlaybackInit, FInv, NoFault, BeforePrepared, InUse, Stopped, Calling,
         RunningStates

\* The read thread once it runs: it goes on until a stop, and keeps the media.
LEMMA ReadThreadRuns ==
  ASSUME ReadThread, rpc \in RunningStates
  PROVE  /\ prepared' = prepared /\ ic' = ic
         /\ rpc' \in RunningStates \/ (abort_request /\ rpc' = "cleanup")
  <1> USE DEF RunningStates, ReadStates
  <1>1. CASE ReadOpen \/ ReadProbe \/ ReadCleanup \/ ReadJoin
    BY <1>1 DEF ReadOpen, ReadProbe, ReadCleanup, ReadJoin
  <1>2. CASE ReadAutoStart \/ ReadAutoClear \/ ReadLoop
    BY <1>2 DEF ReadAutoStart, ReadAutoClear, ReadLoop
  <1>3. CASE \/ ReadSeek \/ ReadSeekFlush \/ ReadSeeked \/ ReadSeekPlay
             \/ ReadSeekComplete \/ ReadSeekBuffering
    BY <1>3 DEF ReadSeek, ReadSeekFlush, ReadSeeked, ReadSeekPlay, ReadSeekComplete,
                ReadSeekBuffering, readVars
  <1>4. CASE \/ ReadFull \/ ReadFullBuffering \/ ReadCompleted \/ ReadComplete
             \/ ReadCompleteBuffering \/ ReadCompletePause \/ ReadCompletePut \/ ReadMore
    BY <1>4 DEF ReadFull, ReadFullBuffering, ReadCompleted, ReadComplete,
                ReadCompleteBuffering, ReadCompletePause, ReadCompletePut, ReadMore
  <1>5. CASE \/ ReadPacket \/ ReadCheck \/ ReadEnd \/ ReadError \/ ReadAgain \/ ReadFailed
    BY <1>5 DEF ReadPacket, ReadCheck, ReadEnd, ReadError, ReadAgain, ReadFails, ReadFailed
  <1> QED
    BY <1>1, <1>2, <1>3, <1>4, <1>5 DEF ReadThread

\* The read thread takes the media away only when a stop has been asked for.
LEMMA ReadThreadFInv ==
  ASSUME FInv, ReadThread, UNCHANGED playerVars
  PROVE  FInv'
  <1>1. UNCHANGED <<mp_state, is, lpc, apc, left, fault>>
    BY DEF playerVars, callingVars
  <1>2. UNCHANGED <<q_abort, abort_request, from>>
    BY DEF ReadThread, ReadOpen, ReadProbe, ReadAutoStart, ReadAutoClear,
           ReadLoop, ReadSeek, ReadSeekFlush, ReadSeeked, ReadSeekPlay, ReadSeekComplete,
           ReadSeekBuffering, ReadFull, ReadFullBuffering, ReadCompleted, ReadComplete,
           ReadCompleteBuffering, ReadCompletePause, ReadCompletePut, ReadMore,
           ReadPacket, ReadCheck, ReadEnd, ReadError, ReadAgain, ReadFails, ReadFailed,
           ReadCleanup, ReadJoin, msgVars, callVars
  <1>3. NoFault' /\ Stopped'
    BY <1>1, <1>2 DEF FInv, NoFault, Stopped, Calling
  <1>4. rpc # "none"
    BY ReadThreadStarted
  <1>5. /\ is \in {"null", "open"} /\ is = "open"
        /\ mp_state \notin {"IDLE", "INITIALIZED"}
        /\ ic \in {"null", "open"} \union Media
    BY <1>4 DEF FInv, InUse
  <1>6. CASE rpc \in RunningStates
    <2>1. prepared' /\ ic' = ic /\ ic \in {"null", "open"} \union Media
          /\ rpc' # "none"
      BY <1>5, <1>6, ReadThreadRuns DEF FInv, BeforePrepared, RunningStates
    <2>2. ~abort_request => ic \in Media /\ rpc' \in RunningStates
      BY <1>6, ReadThreadRuns DEF FInv, BeforePrepared, InUse
    <2> QED
      BY <1>1, <1>2, <1>3, <1>5, <2>1, <2>2 DEF FInv, BeforePrepared, InUse
  <1>7. CASE rpc \notin RunningStates
    <2>1. prepared => abort_request
      BY <1>7 DEF FInv, InUse
    <2>2. ReadOpen \/ ReadProbe \/ ReadCleanup \/ ReadJoin
      BY <1>7
         DEF ReadThread, ReadAutoStart, ReadAutoClear,
             ReadLoop, ReadSeek, ReadSeekFlush, ReadSeeked, ReadSeekPlay, ReadSeekComplete,
             ReadSeekBuffering, ReadFull, ReadFullBuffering, ReadCompleted, ReadComplete,
             ReadCompleteBuffering, ReadCompletePause, ReadCompletePut, ReadMore,
             ReadPacket, Answers, ReadCheck, ReadEnd, ReadError, ReadAgain, ReadFailed,
             RunningStates, ReadStates
    <2>3. rpc # "end" /\ rpc' # "none" /\ ic' \in {"null", "open"} \union Media
      BY <1>5, <2>2 DEF ReadOpen, ReadProbe, ReadCleanup, ReadJoin, readVars
    <2>4. prepared' /\ ~abort_request => rpc' \in RunningStates /\ ic' \in Media
      BY <2>1, <2>2
         DEF ReadOpen, ReadProbe, ReadCleanup, ReadJoin, RunningStates, ReadStates
    <2>5. ~prepared' => /\ ~prepared /\ rpc' \notin RunningStates
                        /\ ~astray => astray' = astray
                        /\ ~astray => q' = q \/ (rpc' = "end" /\ q' = Append(q, "ERROR"))
      BY <2>2 DEF ReadOpen, ReadProbe, ReadCleanup, ReadJoin, Notify, msgVars, queueVars,
                  RunningStates
    <2>6. ~prepared' => ~astray' /\ (q' = <<>> \/ (q' = OneError /\ rpc' = "end"))
      BY <2>3, <2>5, OneErrorIs DEF FInv, BeforePrepared
    <2>7. BeforePrepared'
      BY <1>1, <1>2, <2>5, <2>6 DEF FInv, BeforePrepared
    <2>8. InUse'
      BY <1>1, <1>2, <1>5, <2>3, <2>4 DEF InUse
    <2> QED
      BY <1>3, <2>7, <2>8 DEF FInv
  <1> QED
    BY <1>6, <1>7

LEMMA ThreadsFInv ==
  ASSUME FInv, Threads, UNCHANGED playerVars
  PROVE  FInv'
  <1>1. CASE ReadThread
    BY <1>1, ReadThreadFInv
  <1>2. CASE Decoder \/ Renderer
    <2>1. UNCHANGED <<msgVars, readVars, abort_request, callVars>>
      BY <1>2
         DEF Decoder, DecoderGet, DecoderEmpty, DecoderStarve, DecoderDecode, DecoderPush,
             DecoderExit, Renderer, RenderLoop, RenderNothing, RenderSkip, RenderShow,
             RenderShown
    <2> QED
      BY <2>1 DEF FInv, NoFault, BeforePrepared, InUse, Stopped, Calling, msgVars, queueVars,
                  readVars, callVars, playerVars, callingVars
  <1> QED
    BY <1>1, <1>2 DEF Threads

\* What the application asks finds a prepared player.
LEMMA MayCallPrepared ==
  ASSUME AsListed, FInv, NEW call \in {"start", "pause", "seek", "stop"}, MayCall(call)
  PROVE  /\ prepared /\ apc = "idle" /\ lpc # "inside"
         /\ mp_state \notin {"IDLE", "INITIALIZED", "ASYNC_PREPARING", "ERROR"}
  BY DEF AsListed, FInv, BeforePrepared, MayCall, MutexFree, LoopInside, Lists, Playable

\* The calls that the application does not make.
LEMMA NotMade == AsListed /\ FInv => ~PrepareAgain /\ ~Release
  BY CallsAssumption DEF AsListed, FInv, InUse, PrepareAgain, Release

LEMMA ApplicationFInv ==
  ASSUME AsListed, FInv, Application
  PROVE  FInv'
  <1> USE DEF FInv, NoFault, BeforePrepared, InUse, Stopped, RunningStates, Calling, callingVars
  <1>1. CASE SetDataSource
    BY <1>1 DEF SetDataSource, playbackVars, msgVars, queueVars, readVars, callVars
  <1>2. CASE PrepareAsync
    BY <1>2 DEF PrepareAsync, StreamOpen, queueVars, callVars
  <1>3. ASSUME NEW call \in {"start", "pause", "seek", "stop"}, Begin(call)
        PROVE  FInv'
    <2>1. /\ prepared /\ apc = "idle" /\ lpc # "inside"
          /\ mp_state \notin {"IDLE", "INITIALIZED", "ASYNC_PREPARING", "ERROR"}
      BY <1>3, MayCallPrepared DEF Begin
    <2>2. /\ apc' = call
          /\ UNCHANGED <<prepared, rpc, ic, abort_request, q_abort, mp_state, is, lpc, fault>>
      BY <1>3 DEF Begin, msgVars, readVars
    <2> QED
      BY <2>1, <2>2
  <1> QED
    BY <1>1, <1>2, <1>3, NotMade DEF Application, Start, Pause, SeekTo, Stop

\* A call is carried out for a prepared player.
LEMMA InCallFInv ==
  ASSUME FInv, InCall \/ PutOther
  PROVE  FInv'
  <1> USE DEF FInv, NoFault, BeforePrepared, InUse, Stopped, RunningStates, Calling, callingVars
  <1>1. CASE RemoveNext
    <2>1. prepared /\ fault' \in {"", "hang"}
      BY <1>1 DEF RemoveNext, Remove
    <2>2. UNCHANGED <<prepared, rpc, ic, abort_request, q_abort, mp_state, is, lpc, apc>>
      BY <1>1 DEF RemoveNext, readVars
    <2> QED
      BY <2>1, <2>2
  <1>2. CASE PutRequest
    <2>1. prepared /\ apc \in {"start", "pause", "seek"} /\ apc' = "idle"
      BY <1>2 DEF PutRequest
    <2>2. UNCHANGED <<prepared, rpc, ic, abort_request, q_abort, mp_state, is, lpc, fault>>
      BY <1>2 DEF PutRequest, readVars
    <2> QED
      BY <2>1, <2>2
  <1>3. CASE StopBegin
    BY <1>3 DEF StopBegin, readVars
  <1>4. CASE StopEnd
    BY <1>4 DEF StopEnd, readVars, callVars
  <1>5. CASE ReleaseFree \/ ReleaseClear
    BY <1>5 DEF ReleaseFree, ReleaseClear
  <1>6. CASE PutOther
    BY <1>6 DEF PutOther, playerVars, readVars
  <1> QED
    BY <1>1, <1>2, <1>3, <1>4, <1>5, <1>6 DEF InCall

\* The state is tested again under mp->mutex: a request is begun only for a
\* prepared player, not stopped.
LEMMA RequestFInv ==
  ASSUME FInv, HandleRequest
  PROVE  FInv'
  <1>1. UNCHANGED <<playbackVars, mp_state, is, apc, left, fault>> /\ lpc = "handle"
    BY DEF HandleRequest, Handling, callingVars
  <1>2. lpc' \in {"get", "inside"}
    BY DEF HandleRequest
  <1>3. lpc' = "inside" => mp_state \in Playable \union {"ASYNC_PREPARING"} /\ ~Calling
    BY DEF HandleRequest, Handling, MutexFree, Requested, Accepts
  <1>4. lpc' = "inside" => ~abort_request /\ prepared /\ apc = "idle"
    BY <1>1, <1>3 DEF FInv, BeforePrepared, Stopped, Playable
  <1> QED
    BY <1>1, <1>2, <1>4 DEF FInv, NoFault, BeforePrepared, InUse, Stopped, Calling,
                            playbackVars, msgVars, queueVars, readVars, callVars

LEMMA LoopFInv ==
  ASSUME FInv, MessageLoop
  PROVE  FInv'
  <1> USE DEF FInv, NoFault, BeforePrepared, InUse, Stopped, Calling, callingVars
  <1>1. CASE LoopEnd
    BY <1>1 DEF LoopEnd, playbackVars, msgVars, queueVars, readVars, callVars
  <1>2. CASE LoopGet
    BY <1>2, OneErrorIs DEF LoopGet, readVars, callVars
  <1>3. CASE HandlePrepared \/ HandleCompleted \/ HandleSeekComplete
    <2>1. /\ lpc = "handle" /\ lpc' = "get"
          /\ mp_state' \in {mp_state, "PREPARED", "COMPLETED"}
          /\ ~Calling
          /\ UNCHANGED <<playbackVars, is, apc, left, fault>>
      BY <1>3 DEF HandlePrepared, HandleCompleted, HandleSeekComplete, Handling, MutexFree
    <2> QED
      BY <2>1 DEF playbackVars, msgVars, queueVars, readVars, callVars
  <1>4. CASE HandleRequest
    BY <1>4, RequestFInv
  <1>5. CASE Crash
    BY <1>5, MediaAssumption DEF Crash, LoopInside
  <1>6. CASE \/ DoStart \/ DoStartFromBeginning \/ DoStartFromBuffering
             \/ DoStartFromSeek \/ DoPause \/ DoSeek
    <2>1. /\ lpc = "inside" /\ lpc' \in {"get", "inside"}
          /\ mp_state' \in {mp_state, "STARTED", "PAUSED"}
          /\ UNCHANGED <<msgVars, readVars, abort_request, is, apc, left, fault>>
      BY <1>6
         DEF DoStart, DoStartFromBeginning, DoStartFromBuffering, DoStartFromSeek,
             DoPause, DoSeek, Inside, LoopInside, CallStart, CallStartFrom, StartFromBuffering,
             StartFromSeek, CallPause, CallSeek, playerVars
    <2> QED
      BY <2>1 DEF msgVars, queueVars, readVars
  <1> QED
    BY <1>1, <1>2, <1>3, <1>4, <1>5, <1>6 DEF MessageLoop

\* Under the calls that ijkplayer.h lists for a state, however late the message
\* loop carries them out, no assert fails and no NULL or freed VideoState or
\* AVFormatContext is used; a removal may still not end (ijkmp_get_msg, ffp_seek_to_l,
\* ijkmp_stop_l).
THEOREM NoFaultAsListed == AsListed => (Spec => []NoFault)
  <1> SUFFICES ASSUME AsListed PROVE Spec => []NoFault
    OBVIOUS
  <1>1. FInv /\ [Next]_allVars => FInv'
    <2> SUFFICES ASSUME FInv, [Next]_allVars PROVE FInv'
      OBVIOUS
    <2>1. CASE Threads /\ UNCHANGED playerVars
      BY <2>1, ThreadsFInv
    <2>2. CASE Application \/ InCall \/ PutOther
      BY <2>2, ApplicationFInv, InCallFInv
    <2>3. CASE MessageLoop
      BY <2>3, LoopFInv
    <2>4. CASE Resting \/ UNCHANGED allVars
      <3>1. UNCHANGED <<fault, prepared, mp_state, lpc, q, astray, rpc, abort_request, apc,
                        left, from, is, ic, q_abort>>
        BY <2>4 DEF Resting, allVars, playbackVars, playerVars, callingVars, msgVars, queueVars,
                    readVars, callVars
      <3> QED
        BY <3>1 DEF FInv, NoFault, BeforePrepared, InUse, Stopped, Calling
    <2> QED
      BY <2>1, <2>2, <2>3, <2>4 DEF Next
  <1>2. FInv => NoFault
    BY DEF FInv
  <1> QED
    BY <1>1, <1>2, InitFInv, PTL DEF Spec

-----------------------------------------------------------------------------
(* What the operations on the queue do to the messages in it.              *)

LEMMA ThinsItself ==
  ASSUME NEW X, NEW s \in Seq(X)
  PROVE  Thins(s, s)
  <1>1. SubSeq(s, 1, Len(s)) = s
    BY SubSeqFull
  <1>2. Len(s) \in 0 .. Len(s)
    BY LenProperties
  <1>3. Thins(SubSeq(s, 1, Len(s)), s)
    BY <1>2, PrefixThins
  <1> QED
    BY <1>1, <1>3

LEMMA UnlinkedIs ==
  ASSUME NEW s \in Seq(Messages), NEW k \in 1 .. Len(s)
  PROVE  /\ Unlinked(s, k) \in Seq(Messages)
         /\ Thins(Unlinked(s, k), s)
         /\ Elements(s) \ {s[k]} \subseteq Elements(Unlinked(s, k))
         /\ Single(s, s[k]) => s[k] \notin Elements(Unlinked(s, k))
  <1> DEFINE t == Unlinked(s, k)
             g == [j \in 1 .. Len(s) - 1 |-> IF j < k THEN j ELSE j + 1]
  <1>1. Len(s) \in Nat \ {0} /\ \A i \in 1 .. Len(s) : s[i] \in Messages
    BY ElementOfSeq, LenProperties
  <1>2. \A j \in 1 .. Len(s) - 1 : g[j] \in 1 .. Len(s) /\ g[j] # k
    BY <1>1
  <1>3. \A i, j \in 1 .. Len(s) - 1 : g[i] = g[j] => i = j
    BY <1>1
  <1>4. \A i \in 1 .. Len(s) : i # k => \E j \in 1 .. Len(s) - 1 : g[j] = i
    <2> SUFFICES ASSUME NEW i \in 1 .. Len(s), i # k
                 PROVE  \E j \in 1 .. Len(s) - 1 : g[j] = i
      OBVIOUS
    <2>1. CASE i < k
      <3>1. i \in 1 .. Len(s) - 1 /\ g[i] = i
        BY <1>1, <2>1
      <3> HIDE DEF g
      <3> QED
        BY <3>1
    <2>2. CASE i > k
      <3>1. i - 1 \in 1 .. Len(s) - 1 /\ g[i - 1] = i
        BY <1>1, <2>2
      <3> HIDE DEF g
      <3> QED
        BY <3>1
    <2> QED
      BY <1>1, <2>1, <2>2
  <1>5. t = [j \in 1 .. Len(s) - 1 |-> s[g[j]]]
    <2>1. t = [j \in 1 .. Len(s) - 1 |-> IF j < k THEN s[j] ELSE s[j + 1]]
      BY DEF Unlinked
    <2>2. \A j \in 1 .. Len(s) - 1 : s[g[j]] = IF j < k THEN s[j] ELSE s[j + 1]
      OBVIOUS
    <2> HIDE DEF g, t
    <2> QED
      BY <2>1, <2>2
  <1> HIDE DEF t, g
  <1>6. t \in Seq(Messages) /\ Len(t) = Len(s) - 1
    <2>1. \A j \in 1 .. Len(s) - 1 : s[g[j]] \in Messages
      BY <1>1, <1>2
    <2>2. Len(s) - 1 \in Nat
      BY <1>1
    <2>3. t \in [1 .. Len(s) - 1 -> Messages]
      BY <1>5, <2>1
    <2> QED
      BY <2>2, <2>3, SeqDef, LenProperties
  <1>7. \A j \in 1 .. Len(t) : t[j] = s[g[j]]
    BY <1>5, <1>6
  <1>8. Thins(t, s)
    <2>1. g \in [1 .. Len(t) -> 1 .. Len(s)]
      <3>1. g = [j \in 1 .. Len(t) |-> g[j]]
        BY <1>6 DEF g
      <3> QED
        BY <1>2, <1>6, <3>1
    <2>2. g \in Injection(1 .. Len(t), 1 .. Len(s))
      BY <1>3, <1>6, <2>1 DEF Injection, IsInjective
    <2> QED
      BY <1>7, <2>2 DEF Thins
  <1>9. Elements(s) \ {s[k]} \subseteq Elements(t)
    <2> SUFFICES ASSUME NEW i \in 1 .. Len(s), s[i] # s[k]
                 PROVE  s[i] \in Elements(t)
      BY DEF Elements
    <2>1. PICK j \in 1 .. Len(s) - 1 : g[j] = i
      BY <1>4
    <2>2. j \in 1 .. Len(t) /\ t[j] = s[i]
      BY <1>6, <1>7, <2>1
    <2> QED
      BY <2>2 DEF Elements
  <1>10. Single(s, s[k]) => s[k] \notin Elements(t)
    BY <1>2, <1>6, <1>7 DEF Elements, Single
  <1> QED
    BY <1>6, <1>8, <1>9, <1>10 DEF t

\* msg_queue_remove takes out one message of the kind, and none of the others.
LEMMA RemoveKeeps ==
  ASSUME QueueType, NEW what, Remove(what)
  PROVE  /\ QueueType' /\ Thins(q', q) /\ lost' = lost
         /\ Elements(q) \ {what} \subseteq Elements(q')
         /\ Single(q, what) /\ ~q_abort => what \notin Elements(q')
  <1>1. q \in Seq(Messages) /\ DOMAIN q = 1 .. Len(q) /\ Thins(q, q)
    BY ThinsItself, LenProperties DEF QueueType
  <1>2. CASE q_abort /\ UNCHANGED queueVars
    BY <1>1, <1>2 DEF QueueType, queueVars
  <1>3. CASE /\ \A i \in DOMAIN q : q[i] # what
             /\ astray' = FALSE /\ UNCHANGED <<q, lost>>
    <2>1. what \notin Elements(q)
      BY <1>1, <1>3 DEF Elements
    <2> QED
      BY <1>1, <1>3, <2>1 DEF QueueType
  <1>4. ASSUME NEW i \in DOMAIN q, q[i] = what, q' = Unlinked(q, i),
               astray' \in BOOLEAN, lost' = lost
        PROVE  /\ QueueType' /\ Thins(q', q) /\ lost' = lost
               /\ Elements(q) \ {what} \subseteq Elements(q')
               /\ Single(q, what) /\ ~q_abort => what \notin Elements(q')
    <2>1. i \in 1 .. Len(q)
      BY <1>1, <1>4
    <2>2. /\ q' \in Seq(Messages) /\ Thins(q', q)
          /\ Elements(q) \ {what} \subseteq Elements(q')
          /\ Single(q, what) => what \notin Elements(q')
      BY <1>1, <1>4, <2>1, UnlinkedIs
    <2> QED
      BY <1>4, <2>2 DEF QueueType
  <1>5. \/ q_abort /\ UNCHANGED queueVars
        \/ (\A i \in DOMAIN q : q[i] # what) /\ astray' = FALSE /\ UNCHANGED <<q, lost>>
        \/ lost' = lost /\ \E i \in DOMAIN q :
             q[i] = what /\ q' = Unlinked(q, i) /\ astray' \in BOOLEAN
    BY DEF Remove
  <1> QED
    BY <1>2, <1>3, <1>4, <1>5

\* A message is put behind those that are there, or behind some of them.
LEMMA NotifyKeeps ==
  ASSUME QueueType, NEW what \in Messages, Notify(what)
  PROVE  /\ QueueType' /\ (lost => lost')
         /\ \/ q' = q
            \/ \E t \in Seq(Messages) : Thins(t, q) /\ q' = Append(t, what)
         /\ ~lost' /\ ~q_abort => q' = Append(q, what)
         /\ ~lost' /\ q_abort => q' = q
  <1>1. q \in Seq(Messages) /\ Thins(q, q)
    BY ThinsItself DEF QueueType
  <1>2. QueueType'
    BY NotifyQueueType
  <1>3. \A n \in 0 .. Len(q) : SubSeq(q, 1, n) \in Seq(Messages) /\ Thins(SubSeq(q, 1, n), q)
    BY <1>1, PrefixThins
  <1>4. SubSeq(q, 1, Len(q)) = q
    BY <1>1, SubSeqFull
  <1>5. CASE UNCHANGED queueVars /\ q_abort
    BY <1>2, <1>5 DEF queueVars
  <1>6. CASE ~q_abort /\ q' = Append(q, what) /\ UNCHANGED <<astray, lost>>
    BY <1>1, <1>2, <1>6
  <1>7. CASE ~q_abort /\ lost' = TRUE /\ q' = q
    BY <1>2, <1>7
  <1>8. ASSUME NEW n \in 0 .. Len(q), ~q_abort, q' = Append(SubSeq(q, 1, n), what),
               lost' = (lost \/ n # Len(q))
        PROVE  /\ lost => lost'
               /\ \E t \in Seq(Messages) : Thins(t, q) /\ q' = Append(t, what)
               /\ ~lost' => q' = Append(q, what)
    BY <1>3, <1>4, <1>8
  <1> QED
    BY <1>2, <1>5, <1>6, <1>7, <1>8 DEF Notify

LEMMA PutOtherKeeps ==
  ASSUME QueueType, PutOther
  PROVE  QueueType' /\ Thins(q', q) /\ lost' = TRUE /\ q # <<>>
  <1>1. PICK n \in 0 .. Len(q) - 1 : q' = SubSeq(q, 1, n)
    BY DEF PutOther
  <1>2. q \in Seq(Messages) /\ n \in 0 .. Len(q)
    BY LenProperties DEF QueueType
  <1>3. q' \in Seq(Messages) /\ Thins(q', q)
    BY <1>1, <1>2, PrefixThins
  <1>4. q # <<>>
    OBVIOUS
  <1>5. astray' = FALSE /\ lost' = TRUE
    BY DEF PutOther
  <1> QED
    BY <1>3, <1>4, <1>5 DEF QueueType

\* Such a message adds itself to what there was, and no more.
LEMMA PutElements ==
  ASSUME NEW s \in Seq(Messages), NEW t \in Seq(Messages), Thins(t, s), NEW what \in Messages
  PROVE  /\ Elements(Append(t, what)) \subseteq Elements(s) \union {what}
         /\ \A e : Single(s, e) /\ (e = what => e \notin Elements(s))
                     => Single(Append(t, what), e)
  <1>1. Elements(t) \subseteq Elements(s) /\ \A e : Single(s, e) => Single(t, e)
    BY ThinsElements
  <1>2. Elements(Append(t, what)) = Elements(t) \union {what}
    BY ElementsAppend
  <1>3. ASSUME NEW e, Single(t, e), e = what => e \notin Elements(t)
        PROVE  Single(Append(t, what), e)
    <2>1. /\ Len(Append(t, what)) = Len(t) + 1 /\ Len(t) \in Nat
          /\ \A i \in 1 .. Len(t) : Append(t, what)[i] = t[i]
          /\ Append(t, what)[Len(t) + 1] = what
      BY AppendProperties, LenProperties
    <2>2. \A i \in 1 .. Len(t) + 1 : i \in 1 .. Len(t) \/ i = Len(t) + 1
      BY <2>1
    <2>3. e = what => \A i \in 1 .. Len(t) : t[i] # e
      BY <1>3 DEF Elements
    <2>4. \A i, j \in 1 .. Len(t) : t[i] = e /\ t[j] = e => i = j
      BY <1>3 DEF Single
    <2>5. \A i, j \in 1 .. Len(t) + 1 :
            Append(t, what)[i] = e /\ Append(t, what)[j] = e => i = j
      BY <2>1, <2>2, <2>3, <2>4
    <2> QED
      BY <2>1, <2>5 DEF Single
  <1> QED
    BY <1>1, <1>2, <1>3

LEMMA NotifyElements ==
  ASSUME QueueType, NEW what \in Messages, Notify(what)
  PROVE  /\ QueueType' /\ (lost => lost')
         /\ Elements(q') \subseteq Elements(q) \union {what}
         /\ \A e : Single(q, e) /\ (e = what => e \notin Elements(q)) => Single(q', e)
         /\ ~lost' /\ ~q_abort => Elements(q') = Elements(q) \union {what}
         /\ ~lost' /\ q_abort => q' = q
  <1>1. q \in Seq(Messages)
    BY DEF QueueType
  <1>2. CASE q' = q
    BY <1>1, <1>2, ElementsAppend, NotifyKeeps
  <1>3. CASE \E t \in Seq(Messages) : Thins(t, q) /\ q' = Append(t, what)
    BY <1>1, <1>3, ElementsAppend, PutElements, NotifyKeeps
  <1> QED
    BY <1>2, <1>3, NotifyKeeps

LEMMA TailSingle ==
  ASSUME NEW s \in Seq(Messages), s # <<>>, NEW e, Single(s, e)
  PROVE  Single(Tail(s), e)
  <1>1. /\ Len(s) \in Nat /\ Len(Tail(s)) = Len(s) - 1
        /\ \A i \in 1 .. Len(Tail(s)) : Tail(s)[i] = s[i + 1]
    BY HeadTailProperties, LenProperties
  <1>2. \A i \in 1 .. Len(Tail(s)) : i \in Nat /\ i + 1 \in 1 .. Len(s)
    BY <1>1
  <1>3. \A i, j \in 1 .. Len(Tail(s)) : i + 1 = j + 1 => i = j
    OBVIOUS
  <1> QED
    BY <1>1, <1>2, <1>3 DEF Single

-----------------------------------------------------------------------------
(* A start that was accepted last is lost with a message only.             *)

StartAndPause == <<"REQ_START", "REQ_PAUSE">>
OnlyPause == <<"REQ_PAUSE">>
OnlySeek == <<"REQ_SEEK">>

LEMMA ObsoleteIs ==
  /\ Obsolete("seek") = OnlySeek
  /\ \A call \in {"start", "pause", "stop"} : Obsolete(call) = StartAndPause
  /\ StartAndPause # <<>> /\ Head(StartAndPause) = "REQ_START" /\ Tail(StartAndPause) = OnlyPause
  /\ OnlyPause # <<>> /\ Head(OnlyPause) = "REQ_PAUSE" /\ Tail(OnlyPause) = <<>>
  /\ OnlySeek # <<>> /\ Head(OnlySeek) = "REQ_SEEK" /\ Tail(OnlySeek) = <<>>
  <1> USE DEF Obsolete, StartAndPause, OnlyPause, OnlySeek
  <1>1. /\ Obsolete("seek") = OnlySeek
        /\ \A call \in {"start", "pause", "stop"} : Obsolete(call) = StartAndPause
    OBVIOUS
  <1>2. StartAndPause # <<>> /\ Head(StartAndPause) = "REQ_START"
        /\ Tail(StartAndPause) = OnlyPause
    OBVIOUS
  <1>3. OnlyPause # <<>> /\ Head(OnlyPause) = "REQ_PAUSE" /\ Tail(OnlyPause) = <<>>
    OBVIOUS
  <1>4. OnlySeek # <<>> /\ Head(OnlySeek) = "REQ_SEEK" /\ Tail(OnlySeek) = <<>>
    OBVIOUS
  <1> QED
    BY <1>1, <1>2, <1>3, <1>4

InHand(kind) == lpc \in {"handle", "inside"} /\ msg = kind

\* What a call has still to remove.
LeftInOrder ==
  /\ apc \in {"start", "pause", "stop"} => left \in {StartAndPause, OnlyPause, <<>>}
  /\ apc = "seek" => left \in {OnlySeek, <<>>}
  /\ apc \notin {"start", "pause", "seek", "stop"} => left = <<>>

\* The message loop has nothing to do before there is a VideoState, and is not
\* inside a request during a call.
InOrder ==
  /\ (apc = "idle" \/ Calling) /\ is # "open" =>
       /\ mp_state \in {"IDLE", "INITIALIZED", "ERROR"} /\ q = <<>>
       /\ lpc \in {"none", "get", "end"} /\ rpc = "none"
  /\ Calling => lpc # "inside" /\ is = "open"
  /\ lpc = "inside" => mp_state \in Playable \union {"ASYNC_PREPARING"}
  /\ want # "" => /\ apc \in {"idle", "start", "pause", "seek"}
                  /\ mp_state \notin {"IDLE", "INITIALIZED", "ASYNC_PREPARING"}
  /\ apc = "pause" => want # "start"

\* After a stop only a COMPLETED that the loop had taken already moves the state.
AfterStop ==
  (apc = "idle" \/ Calling) /\ q_abort =>
    \/ mp_state \in {"IDLE", "INITIALIZED", "STOPPED"}
    \/ mp_state = "COMPLETED" /\ lpc \in {"get", "end"}

\* A removal takes out one pause, which is the only one.
OnePause ==
  /\ Single(q, "REQ_PAUSE")
  /\ apc \in {"start", "pause"} /\ left = <<>> /\ ~q_abort => "REQ_PAUSE" \notin Elements(q)

\* The request of a start comes after any pause that is left, and stays until
\* it is carried out.
StartComes ==
  /\ "REQ_PAUSE" \notin Elements(q)
  /\ InHand("REQ_PAUSE") => "REQ_START" \in Elements(q)
  /\ mp_state \in {"PREPARED", "PAUSED"} => "REQ_START" \in Elements(q) \/ InHand("REQ_START")
StartKept == want = "start" /\ apc # "start" /\ ~q_abort /\ ~lost => StartComes

WInv == QueueType /\ LeftInOrder /\ InOrder /\ AfterStop /\ OnePause /\ StartKept

LEMMA InitWInv == Init => WInv
  <1> SUFFICES ASSUME Init PROVE WInv
    OBVIOUS
  <1>1. /\ q = <<>> /\ mp_state = "IDLE" /\ lpc = "none" /\ rpc = "none"
        /\ want = "" /\ apc = "idle" /\ left = <<>>
    BY DEF Init, PlaybackInit
  <1>2. QueueType
    BY InitTypes DEF Init
  <1>3. OnePause
    <2>1. Single(<<>>, "REQ_PAUSE")
      BY DEF Single
    <2> QED
      BY <1>1, <2>1 DEF OnePause
  <1> QED
    BY <1>1, <1>2, <1>3 DEF WInv, LeftInOrder, InOrder, Calling, AfterStop, StartKept

\* A step that leaves the player alone, and the queue, or that puts a message which is
\* no pause.
LEMMA MessagesKeepStart ==
  ASSUME WInv, QueueType', lost => lost', UNCHANGED <<q_abort, apc, left, want>>,
         "REQ_PAUSE" \in Elements(q') => "REQ_PAUSE" \in Elements(q),
         Single(q, "REQ_PAUSE") => Single(q', "REQ_PAUSE"),
         StartComes /\ ~lost' /\ ~q_abort => StartComes'
  PROVE  OnePause' /\ StartKept'
  BY DEF WInv, OnePause, StartKept

LEMMA ThreadsWInv ==
  ASSUME WInv, Threads, UNCHANGED playerVars
  PROVE  WInv'
  <1>1. /\ q_abort' = q_abort
        /\ UNCHANGED <<mp_state, is, lpc, msg, apc, left, want>>
    BY ThreadsNotify DEF playerVars, callingVars
  <1>2. rpc = "none" => q' = q /\ rpc' = rpc
    BY ReadThreadStarted, DecoderAndRendererAside, DecoderAndRendererMute
       DEF Threads, queueVars
  <1>3. /\ QueueType' /\ (lost => lost')
        /\ "REQ_PAUSE" \in Elements(q') => "REQ_PAUSE" \in Elements(q)
        /\ Single(q, "REQ_PAUSE") => Single(q', "REQ_PAUSE")
        /\ ~lost' /\ ~q_abort => Elements(q) \subseteq Elements(q')
    <2>1. CASE UNCHANGED queueVars
      BY <2>1 DEF WInv, QueueType, queueVars
    <2>2. CASE \E what \in Notified : Notify(what)
      <3>1. PICK what \in Notified : Notify(what)
        BY <2>2
      <3>2. what \in Messages /\ what # "REQ_PAUSE"
        BY DEF Notified
      <3> QED
        BY <3>1, <3>2, NotifyElements DEF WInv
    <2> QED
      BY <2>1, <2>2, ThreadsNotify
  <1>4. LeftInOrder' /\ InOrder' /\ AfterStop'
    BY <1>1, <1>2 DEF WInv, LeftInOrder, InOrder, AfterStop, Calling
  <1>5. StartComes /\ ~lost' /\ ~q_abort => StartComes'
    BY <1>1, <1>3 DEF StartComes, InHand
  <1>6. OnePause' /\ StartKept'
    BY <1>1, <1>3, <1>5, MessagesKeepStart
  <1> QED
    BY <1>3, <1>4, <1>6 DEF WInv

LEMMA BeginWInv ==
  ASSUME WInv, NEW call \in {"start", "pause", "seek", "stop"}, Begin(call)
  PROVE  WInv'
  <1>1. /\ apc' = call /\ left' = Obsolete(call)
        /\ want' = CASE call = "seek" -> want [] call = "stop" -> "" [] OTHER -> call
        /\ UNCHANGED <<q, astray, lost, q_abort, rpc, mp_state, is, lpc, msg>>
    BY DEF Begin, readVars, msgVars, queueVars
  <1>2. /\ apc = "idle" /\ lpc # "inside"
        /\ mp_state \notin {"IDLE", "INITIALIZED", "ERROR"}
        /\ call \in {"start", "pause"} => mp_state # "ASYNC_PREPARING"
    BY DEF Begin, MayCall, MutexFree, LoopInside, Accepts, Playable
  <1>3. is = "open"
    BY <1>2 DEF WInv, InOrder
  <1>4. QueueType' /\ LeftInOrder'
    BY <1>1, ObsoleteIs DEF WInv, QueueType, LeftInOrder
  <1>5. InOrder' /\ AfterStop'
    BY <1>1, <1>2, <1>3 DEF WInv, InOrder, AfterStop, Calling
  <1>6. OnePause'
    BY <1>1, ObsoleteIs DEF WInv, OnePause
  <1>7. StartKept'
    <2>1. CASE call = "seek"
      BY <1>1, <1>2, <2>1 DEF WInv, StartKept, StartComes, InHand
    <2>2. CASE call # "seek"
      BY <1>1, <2>2 DEF StartKept
    <2> QED
      BY <2>1, <2>2
  <1> QED
    BY <1>4, <1>5, <1>6, <1>7 DEF WInv

LEMMA RemoveWInv ==
  ASSUME WInv, RemoveNext
  PROVE  WInv'
  <1>1. /\ left # <<>> /\ Remove(Head(left)) /\ left' = Tail(left)
        /\ UNCHANGED <<q_abort, rpc, mp_state, is, lpc, msg, apc, want>>
    BY DEF RemoveNext, readVars
  <1>2. /\ apc \in {"start", "pause", "stop"} => left \in {StartAndPause, OnlyPause}
        /\ apc = "seek" => left = OnlySeek
        /\ apc \in {"start", "pause", "stop", "seek"}
    BY <1>1 DEF WInv, LeftInOrder
  <1>3. /\ QueueType' /\ Thins(q', q) /\ lost' = lost
        /\ Elements(q) \ {Head(left)} \subseteq Elements(q')
        /\ Single(q, Head(left)) /\ ~q_abort => Head(left) \notin Elements(q')
    BY <1>1, RemoveKeeps DEF WInv
  <1>4. /\ Elements(q') \subseteq Elements(q)
        /\ Single(q, "REQ_PAUSE") => Single(q', "REQ_PAUSE")
    BY <1>3, ThinsElements
  <1>5. LeftInOrder'
    BY <1>1, <1>2, ObsoleteIs DEF LeftInOrder
  <1>6. InOrder' /\ AfterStop'
    BY <1>1, <1>2 DEF WInv, InOrder, AfterStop, Calling
  <1>7. OnePause'
    <2>1. apc \in {"start", "pause"} /\ left' = <<>> => Head(left) = "REQ_PAUSE"
      BY <1>1, <1>2, ObsoleteIs
    <2> QED
      BY <1>1, <1>3, <1>4, <2>1 DEF WInv, OnePause
  <1>8. StartKept'
    <2>1. CASE apc = "seek"
      <3>1. Head(left) = "REQ_SEEK"
        BY <1>2, <2>1, ObsoleteIs
      <3> QED
        BY <1>1, <1>3, <1>4, <2>1, <3>1 DEF WInv, StartKept, StartComes, InHand
    <2>2. CASE apc # "seek"
      BY <1>1, <1>2, <2>2 DEF WInv, StartKept, InOrder
    <2> QED
      BY <2>1, <2>2
  <1> QED
    BY <1>3, <1>5, <1>6, <1>7, <1>8 DEF WInv

\* A request is queued after what it makes obsolete has been removed.
LEMMA RequestWInv ==
  ASSUME WInv, PutRequest
  PROVE  WInv'
  <1>1. /\ apc \in {"start", "pause", "seek"} /\ left = <<>> /\ left' = left
        /\ Notify(Request(apc)) /\ apc' = "idle"
        /\ UNCHANGED <<q_abort, rpc, mp_state, is, lpc, msg, want>>
    BY DEF PutRequest, readVars
  <1>2. /\ Request(apc) \in Messages
        /\ Request(apc) = "REQ_PAUSE" <=> apc = "pause"
        /\ apc = "start" => Request(apc) = "REQ_START"
    BY <1>1 DEF Request, Messages
  <1>3. /\ QueueType' /\ (lost => lost')
        /\ Elements(q') \subseteq Elements(q) \union {Request(apc)}
        /\ \A e : Single(q, e) /\ (e = Request(apc) => e \notin Elements(q)) => Single(q', e)
        /\ ~lost' /\ ~q_abort => Elements(q') = Elements(q) \union {Request(apc)}
    BY <1>1, <1>2, NotifyElements DEF WInv
  <1>4. LeftInOrder' /\ AfterStop'
    BY <1>1 DEF WInv, LeftInOrder, AfterStop, Calling
  <1>5. InOrder'
    BY <1>1 DEF WInv, InOrder, Calling
  <1>6. OnePause'
    <2>1. CASE apc # "pause" \/ ~q_abort
      <3>1. "REQ_PAUSE" = Request(apc) => "REQ_PAUSE" \notin Elements(q)
        BY <1>1, <1>2, <2>1 DEF WInv, OnePause
      <3>2. Single(q', "REQ_PAUSE")
        BY <1>3, <3>1 DEF WInv, OnePause
      <3> QED
        BY <1>1, <3>2 DEF OnePause
    <2>2. CASE q_abort
      <3>1. q' = q
        BY <1>1, <2>2 DEF Notify, queueVars
      <3> QED
        BY <1>1, <3>1 DEF WInv, OnePause
    <2> QED
      BY <2>1, <2>2
  <1>7. StartKept'
    <2>1. CASE apc = "start"
      BY <1>1, <1>2, <1>3, <2>1 DEF WInv, OnePause, StartKept, StartComes
    <2>2. CASE apc = "pause"
      BY <1>1, <2>2 DEF WInv, InOrder, StartKept
    <2>3. CASE apc = "seek"
      BY <1>1, <1>2, <1>3, <2>3 DEF WInv, StartKept, StartComes, InHand
    <2> QED
      BY <1>1, <2>1, <2>2, <2>3
  <1> QED
    BY <1>3, <1>4, <1>5, <1>6, <1>7 DEF WInv

LEMMA PutOtherWInv ==
  ASSUME WInv, PutOther
  PROVE  WInv'
  <1>1. UNCHANGED <<q_abort, rpc, mp_state, is, lpc, msg, apc, left, want>>
    BY DEF PutOther, readVars, playerVars, callingVars
  <1>2. QueueType' /\ Thins(q', q) /\ lost' = TRUE /\ q # <<>>
    BY PutOtherKeeps DEF WInv
  <1>3. /\ Elements(q') \subseteq Elements(q)
        /\ Single(q, "REQ_PAUSE") => Single(q', "REQ_PAUSE")
    BY <1>2, ThinsElements
  <1>4. LeftInOrder' /\ InOrder' /\ AfterStop'
    BY <1>1, <1>2 DEF WInv, LeftInOrder, InOrder, AfterStop, Calling
  <1>5. OnePause' /\ StartKept'
    BY <1>1, <1>2, <1>3 DEF WInv, OnePause, StartKept
  <1> QED
    BY <1>2, <1>4, <1>5 DEF WInv

LEMMA ApplicationWInv ==
  ASSUME WInv, Application
  PROVE  WInv'
  <1> USE DEF WInv, LeftInOrder, InOrder, Calling, AfterStop, OnePause, StartKept, StartComes,
              InHand
  <1>1. CASE Start \/ Pause \/ SeekTo \/ Stop
    BY <1>1, BeginWInv DEF Start, Pause, SeekTo, Stop
  <1>2. CASE SetDataSource \/ PrepareAgain
    <2>1. /\ UNCHANGED <<queueVars, q_abort, rpc, is, lpc, msg, apc, left, want>>
          /\ \/ mp_state' = mp_state
             \/ apc = "idle" /\ mp_state = "IDLE" /\ mp_state' = "INITIALIZED"
      BY <1>2 DEF SetDataSource, PrepareAgain, playbackVars, msgVars, readVars, callingVars
    <2>2. QueueType'
      BY <2>1, TypesKept
    <2> QED
      BY <2>1, <2>2 DEF queueVars, Playable
  <1>3. CASE PrepareAsync
    <2>1. /\ apc = "idle" /\ mp_state = "INITIALIZED" /\ q_abort' = FALSE /\ lpc' = "get"
          /\ UNCHANGED <<queueVars, msg, apc, left, want>>
          /\ \/ is' = "open"
             \/ mp_state' = "ERROR" /\ UNCHANGED <<rpc, is>>
      BY <1>3 DEF PrepareAsync, callingVars
    <2>2. want = ""
      BY <2>1
    <2>3. QueueType'
      BY <2>1, TypesKept
    <2> QED
      BY <2>1, <2>2, <2>3 DEF queueVars
  <1>4. CASE Release
    <2>1. /\ apc = "idle" /\ apc' \in {"join", "released"} /\ want' = ""
          /\ UNCHANGED <<queueVars, mp_state, lpc, left>>
      BY <1>4 DEF Release
    <2>2. QueueType'
      BY <2>1, TypesKept
    <2> QED
      BY <2>1, <2>2 DEF queueVars
  <1> QED
    BY <1>1, <1>2, <1>3, <1>4 DEF Application

LEMMA InCallWInv ==
  ASSUME WInv, InCall
  PROVE  WInv'
  <1> USE DEF WInv, LeftInOrder, InOrder, Calling, AfterStop, OnePause, StartKept
  <1>1. CASE RemoveNext
    BY <1>1, RemoveWInv
  <1>2. CASE PutRequest
    BY <1>2, RequestWInv
  <1>3. CASE StopBegin
    <2>1. /\ apc = "stop" /\ apc' = "stopping" /\ left = <<>>
          /\ UNCHANGED <<queueVars, q_abort, mp_state, is, lpc, rpc, left, want>>
      BY <1>3 DEF StopBegin, msgVars, readVars
    <2>2. QueueType' /\ want = ""
      BY <2>1, TypesKept
    <2> QED
      BY <2>1, <2>2 DEF queueVars
  <1>4. CASE StopEnd
    <2>1. /\ apc = "stopping" /\ apc' = "idle" /\ q_abort' = TRUE /\ mp_state' = "STOPPED"
          /\ UNCHANGED <<queueVars, is, lpc, left, want>>
      BY <1>4 DEF StopEnd
    <2>2. QueueType' /\ want = ""
      BY <2>1, TypesKept
    <2> QED
      BY <2>1, <2>2 DEF queueVars
  <1>5. CASE ReleaseFree \/ ReleaseClear
    <2>1. /\ apc \in {"join", "freed"} /\ apc' \in {"freed", "released"}
          /\ UNCHANGED <<queueVars, mp_state, lpc, left, want>>
      BY <1>5 DEF ReleaseFree, ReleaseClear, playbackVars, msgVars
    <2>2. QueueType' /\ want = ""
      BY <2>1, TypesKept
    <2> QED
      BY <2>1, <2>2 DEF queueVars
  <1> QED
    BY <1>1, <1>2, <1>3, <1>4, <1>5 DEF InCall

\* The loop takes the first message: a start moves from the queue to its hand.
LEMMA GetWInv ==
  ASSUME WInv, LoopGet
  PROVE  WInv'
  <1>1. /\ lpc = "get" /\ ~q_abort /\ q # <<>> /\ msg' = Head(q) /\ q' = Tail(q)
        /\ lpc' = IF Head(q) = "ERROR" THEN "get" ELSE "handle"
        /\ UNCHANGED <<astray, lost, q_abort, rpc, mp_state, is, apc, left, want>>
    BY DEF LoopGet, readVars, callingVars
  <1>2. q \in Seq(Messages)
    BY DEF WInv, QueueType
  <1>3. /\ q' \in Seq(Messages) /\ Head(q) = q[1]
        /\ Elements(q) = Elements(q') \union {Head(q)}
        /\ Single(q, "REQ_PAUSE") => Single(q', "REQ_PAUSE")
    BY <1>1, <1>2, ElementsTail, HeadTailProperties, TailSingle
  <1>4. QueueType' /\ LeftInOrder'
    BY <1>1, <1>3 DEF WInv, QueueType, LeftInOrder
  <1>5. InOrder' /\ AfterStop'
    BY <1>1 DEF WInv, InOrder, AfterStop, Calling
  <1>6. OnePause'
    BY <1>1, <1>3 DEF WInv, OnePause
  <1>7. StartKept'
    BY <1>1, <1>3 DEF WInv, StartKept, StartComes, InHand
  <1> QED
    BY <1>4, <1>5, <1>6, <1>7 DEF WInv

\* The steps of the loop that leave the queue and the calls alone.
LEMMA LoopAside ==
  ASSUME WInv, UNCHANGED <<queueVars, q_abort, apc, left, want>>, InOrder', AfterStop',
         want = "start" /\ apc # "start" /\ ~q_abort /\ StartComes => StartComes'
  PROVE  WInv'
  <1>1. QueueType' /\ LeftInOrder' /\ OnePause'
    BY TypesKept DEF WInv, LeftInOrder, OnePause, queueVars
  <1>2. StartKept'
    BY DEF WInv, StartKept, queueVars
  <1> QED
    BY <1>1, <1>2 DEF WInv

LEMMA LoopWInv ==
  ASSUME WInv, MessageLoop
  PROVE  WInv'
  <1> USE DEF InOrder, AfterStop, Calling, StartComes, InHand
  <1>0. InOrder /\ AfterStop
    BY DEF WInv
  <1>1. CASE LoopEnd
    <2>1. /\ lpc = "get" /\ lpc' = "end"
          /\ UNCHANGED <<queueVars, q_abort, rpc, mp_state, is, msg, apc, left, want>>
      BY <1>1 DEF LoopEnd, playbackVars, msgVars, readVars, callingVars
    <2>2. InOrder' /\ AfterStop' /\ (StartComes => StartComes')
      BY <1>0, <2>1 DEF queueVars
    <2> QED
      BY <2>1, <2>2, LoopAside
  <1>2. CASE LoopGet
    BY <1>2, GetWInv
  <1>3. CASE HandlePrepared \/ HandleCompleted \/ HandleSeekComplete
    <2>1. /\ lpc = "handle" /\ msg \in {"PREPARED", "COMPLETED", "SEEK_COMPLETE"}
          /\ ~Calling /\ lpc' = "get"
          /\ \/ mp_state' = mp_state \/ mp_state' = "COMPLETED"
             \/ mp_state = "ASYNC_PREPARING" /\ mp_state' = "PREPARED"
          /\ UNCHANGED <<queueVars, q_abort, rpc, is, msg, apc, left, want>>
      BY <1>3 DEF HandlePrepared, HandleCompleted, HandleSeekComplete, Handling, MutexFree,
                  playbackVars, msgVars, readVars, callingVars
    <2>2. InOrder' /\ AfterStop'
      BY <1>0, <2>1 DEF queueVars
    <2>3. want = "start" /\ apc # "start" /\ ~q_abort /\ StartComes => StartComes'
      BY <1>0, <2>1 DEF queueVars
    <2> QED
      BY <2>1, <2>2, <2>3, LoopAside
  <1>4. CASE HandleRequest
    <2>1. /\ lpc = "handle" /\ ~Calling /\ msg \in DOMAIN Requested
          /\ IF mp_state \in Accepts(Requested[msg]) /\ is # "null"
               THEN lpc' = "inside" ELSE lpc' = "get"
          /\ UNCHANGED <<queueVars, q_abort, rpc, mp_state, is, msg, apc, left, want>>
      BY <1>4 DEF HandleRequest, Handling, MutexFree, playbackVars, msgVars, readVars,
                  callingVars
    <2>2. /\ mp_state \in Accepts(Requested[msg]) =>
               mp_state \in Playable \union {"ASYNC_PREPARING"}
          /\ msg = "REQ_START" /\ mp_state \in Playable =>
               mp_state \in Accepts(Requested[msg])
      BY <2>1 DEF Requested, Accepts
    <2>3. apc = "idle" => is = "open"
      BY <1>0, <2>1
    <2>4. InOrder' /\ AfterStop'
      BY <1>0, <2>1, <2>2, <2>3 DEF queueVars, Playable
    <2>5. want = "start" /\ apc # "start" /\ ~q_abort /\ StartComes => StartComes'
      BY <1>0, <2>1, <2>2, <2>3 DEF queueVars, Playable
    <2> QED
      BY <2>1, <2>4, <2>5, LoopAside
  <1>5. CASE Crash \/ DoStartFromBeginning \/ DoStartFromBuffering
    <2>1. UNCHANGED <<queueVars, q_abort, rpc, mp_state, is, lpc, msg, apc, left, want>>
      BY <1>5 DEF Crash, DoStartFromBeginning, DoStartFromBuffering, CallStartFrom,
                  StartFromBuffering, playbackVars, msgVars, readVars, playerVars, callingVars
    <2>2. InOrder' /\ AfterStop' /\ (StartComes => StartComes')
      BY <1>0, <2>1 DEF queueVars
    <2> QED
      BY <2>1, <2>2, LoopAside
  <1>6. CASE DoStart \/ DoStartFromSeek \/ DoPause \/ DoSeek
    <2>1. /\ lpc = "inside" /\ lpc' = "get"
          /\ \/ mp_state' = "STARTED"
             \/ msg = "REQ_PAUSE" /\ mp_state' = "PAUSED"
             \/ msg = "REQ_SEEK" /\ mp_state' = mp_state
          /\ UNCHANGED <<queueVars, q_abort, rpc, is, msg, apc, left, want>>
      BY <1>6 DEF DoStart, DoStartFromSeek, DoPause, DoSeek, Inside, LoopInside, CallStart,
                  StartFromSeek, CallPause, CallSeek, msgVars, readVars, callingVars
    <2>2. InOrder' /\ AfterStop'
      BY <1>0, <2>1 DEF queueVars, Playable
    <2>3. want = "start" /\ apc # "start" /\ ~q_abort /\ StartComes => StartComes'
      BY <1>0, <2>1 DEF queueVars
    <2> QED
      BY <2>1, <2>2, <2>3, LoopAside
  <1> QED
    BY <1>1, <1>2, <1>3, <1>4, <1>5, <1>6 DEF MessageLoop

\* The application's last accepted start is carried out, or a message after it
\* has moved the player on, when nothing is left to handle: unless a message was
\* lost by the tail pointer that a removal left wrong (ijkmp_start_l, ijkmp_pause_l,
\* msg_queue_remove, ijkmp_get_msg).
THEOREM StartsAreKept == Spec => []StartWins
  <1>1. WInv /\ [Next]_allVars => WInv'
    <2> SUFFICES ASSUME WInv, [Next]_allVars PROVE WInv'
      OBVIOUS
    <2>1. CASE Resting \/ UNCHANGED allVars
      <3>1. UNCHANGED <<queueVars, q_abort, rpc, mp_state, is, lpc, msg, apc, left, want>>
        BY <2>1 DEF Resting, allVars, playbackVars, msgVars, readVars, playerVars, callingVars
      <3>2. InOrder' /\ AfterStop' /\ (StartComes => StartComes')
        BY <3>1 DEF WInv, InOrder, AfterStop, Calling, StartComes, InHand, queueVars
      <3> QED
        BY <3>1, <3>2, LoopAside
    <2> QED
      BY <2>1, ThreadsWInv, ApplicationWInv, InCallWInv, PutOtherWInv, LoopWInv DEF Next
  <1>2. WInv => StartWins
    <2>1. Elements(<<>>) = {}
      BY DEF Elements
    <2> QED
      BY <2>1 DEF WInv, AfterStop, StartKept, StartComes, InHand, StartWins, Quiet
  <1> QED
    BY <1>1, <1>2, InitWInv, PTL DEF Spec

-----------------------------------------------------------------------------
(* Types.  Besides those of the playback, whose serial is bounded by the   *)
(* calls: each seek is paid for by a call, through the queue, the message  *)
(* loop's hand, auto_start or seek_req.                                    *)

FlagTypes == restart \in BOOLEAN /\ mp_seek_req \in BOOLEAN /\ told \in BOOLEAN
LeftType == left \in {<<>>, StartAndPause, OnlyPause, OnlySeek}
FieldTypes ==
  /\ mp_state \in States
  /\ is \in {"null", "open", "freed"}
  /\ lpc \in {"none", "get", "handle", "inside", "end"}
  /\ msg \in {""} \union Messages
  /\ apc \in {"idle", "start", "pause", "seek", "stop", "stopping", "join", "freed", "released"}
  /\ fault \in {"", "hang", "assert", "null_ic", "dead_is"}
  /\ want \in {"", "start", "pause"}
PlayerType == FieldTypes /\ FlagTypes /\ LeftType

LEMMA InitPlayerType == Init => PlayerType
  <1> SUFFICES ASSUME Init PROVE PlayerType
    OBVIOUS
  <1>1. /\ mp_state = "IDLE" /\ restart = FALSE /\ mp_seek_req = FALSE /\ told = FALSE
        /\ is = "null" /\ lpc = "none" /\ msg = "" /\ apc = "idle"
        /\ fault = "" /\ want = ""
    BY DEF Init
  <1>2. FieldTypes
    BY <1>1 DEF FieldTypes, States
  <1>3. left = <<>>
    BY DEF Init
  <1>4. LeftType
    BY <1>3 DEF LeftType
  <1>5. FlagTypes
    BY <1>1 DEF FlagTypes
  <1> QED
    BY <1>2, <1>4, <1>5 DEF PlayerType

LEMMA NextLeftType ==
  ASSUME LeftType, [Next]_allVars
  PROVE  LeftType'
  <1>1. ASSUME NEW call \in {"start", "pause", "seek", "stop"}, Begin(call) PROVE LeftType'
    <2>1. left' = Obsolete(call)
      BY <1>1 DEF Begin
    <2> QED
      BY <2>1, ObsoleteIs DEF LeftType
  <1>2. ASSUME RemoveNext PROVE LeftType'
    <2>1. left # <<>> /\ left' = Tail(left)
      BY <1>2 DEF RemoveNext
    <2> QED
      BY <2>1, ObsoleteIs DEF LeftType
  <1>3. CASE Start \/ Pause \/ SeekTo \/ Stop \/ RemoveNext
    BY <1>1, <1>2, <1>3 DEF Start, Pause, SeekTo, Stop
  <1>4. CASE ~(Start \/ Pause \/ SeekTo \/ Stop \/ RemoveNext)
    <2>1. left' = left
      <3>1. CASE Threads /\ UNCHANGED playerVars
        BY <3>1 DEF playerVars, callingVars
      <3>2. CASE Application \/ InCall \/ PutOther
        BY <1>4, <3>2 DEF Application, InCall, SetDataSource, PrepareAsync, PrepareAgain, Release,
                          PutRequest, StopBegin, StopEnd, ReleaseFree, ReleaseClear, PutOther,
                          playerVars, callingVars
      <3>3. CASE MessageLoop
        BY <3>3 DEF MessageLoop, LoopEnd, LoopGet, HandlePrepared, HandleCompleted,
                    HandleSeekComplete, HandleRequest, Crash, DoStart, DoStartFromBeginning,
                    DoStartFromBuffering, DoStartFromSeek, DoPause, DoSeek, playerVars, callingVars
      <3>4. CASE Resting \/ UNCHANGED allVars
        BY <3>4 DEF Resting, allVars, playerVars, callingVars
      <3> QED
        BY <3>1, <3>2, <3>3, <3>4 DEF Next
    <2> QED
      BY <2>1 DEF LeftType
  <1> QED
    BY <1>3, <1>4

LEMMA NextFlagTypes ==
  ASSUME FlagTypes, [Next]_allVars
  PROVE  FlagTypes'
  <1>1. CASE (Threads /\ UNCHANGED playerVars) \/ PutOther \/ Resting \/ UNCHANGED allVars
    <2>1. restart' = restart /\ mp_seek_req' = mp_seek_req /\ told' = told
      BY <1>1 DEF PutOther, Resting, allVars, playerVars
    <2> QED
      BY <2>1 DEF FlagTypes
  <1>2. CASE Application \/ InCall
    <2>1. restart' = restart /\ told' = told
      BY <1>2 DEF Application, InCall, SetDataSource, PrepareAsync, PrepareAgain, Start, Pause,
                  SeekTo, Stop, Begin, Release, RemoveNext, PutRequest, StopBegin, StopEnd,
                  ReleaseFree, ReleaseClear
    <2>2. mp_seek_req' = mp_seek_req \/ mp_seek_req' \in BOOLEAN
      BY <1>2 DEF Application, InCall, SetDataSource, PrepareAsync, PrepareAgain, Start, Pause,
                  SeekTo, Stop, Begin, Release, RemoveNext, PutRequest, StopBegin, StopEnd,
                  ReleaseFree, ReleaseClear
    <2> QED
      BY <2>1, <2>2 DEF FlagTypes
  <1>3. CASE MessageLoop
    <2>1. told' = told \/ told' \in BOOLEAN
      BY <1>3 DEF MessageLoop, LoopEnd, LoopGet, HandlePrepared, HandleCompleted,
                  HandleSeekComplete, HandleRequest, Crash, DoStart, DoStartFromBeginning,
                  DoStartFromBuffering, DoStartFromSeek, DoPause, DoSeek, playerVars
    <2>2. restart' = restart \/ restart' \in BOOLEAN
      BY <1>3 DEF MessageLoop, LoopEnd, LoopGet, HandlePrepared, HandleCompleted,
                  HandleSeekComplete, HandleRequest, Crash, DoStart, DoStartFromBeginning,
                  DoStartFromBuffering, DoStartFromSeek, DoPause, DoSeek, playerVars
    <2>3. mp_seek_req' = mp_seek_req \/ mp_seek_req' = FALSE
      BY <1>3 DEF MessageLoop, LoopEnd, LoopGet, HandlePrepared, HandleCompleted,
                  HandleSeekComplete, HandleRequest, Crash, DoStart, DoStartFromBeginning,
                  DoStartFromBuffering, DoStartFromSeek, DoPause, DoSeek, playerVars
    <2> QED
      BY <2>1, <2>2, <2>3 DEF FlagTypes
  <1> QED
    BY <1>1, <1>2, <1>3 DEF Next

LEMMA NextFieldTypes ==
  ASSUME QueueType, FieldTypes, [Next]_allVars
  PROVE  FieldTypes'
  <1>1. CASE (Threads /\ UNCHANGED playerVars) \/ PutOther
    <2>1. UNCHANGED <<mp_state, is, lpc, msg, apc, fault, want>>
      BY <1>1 DEF PutOther, playerVars, callingVars
    <2> QED
      BY <2>1 DEF FieldTypes
  <1>2. CASE SetDataSource \/ PrepareAsync \/ PrepareAgain
    BY <1>2 DEF SetDataSource, PrepareAsync, PrepareAgain, callingVars, FieldTypes, States
  <1>3. CASE Start \/ Pause \/ SeekTo \/ Stop
    <2>1. PICK call \in {"start", "pause", "seek", "stop"} : Begin(call)
      BY <1>3 DEF Start, Pause, SeekTo, Stop
    <2>2. /\ want' \in {want, "start", "pause", ""}
          /\ apc' = call
          /\ UNCHANGED <<mp_state, is, lpc, msg, fault>>
      BY <2>1 DEF Begin
    <2> QED
      BY <2>2 DEF FieldTypes
  <1>4. CASE PutRequest \/ StopBegin \/ StopEnd
    BY <1>4 DEF PutRequest, StopBegin, StopEnd, FieldTypes, States
  <1>11. CASE RemoveNext
    <2>1. /\ fault' = fault \/ fault' \in {"", "hang"}
          /\ UNCHANGED <<mp_state, is, lpc, msg, apc, want>>
      BY <1>11 DEF RemoveNext, Remove
    <2> QED
      BY <2>1 DEF FieldTypes
  <1>5. CASE Release \/ ReleaseFree \/ ReleaseClear
    BY <1>5 DEF Release, ReleaseFree, ReleaseClear, FieldTypes
  <1>6. CASE LoopGet
    <2>1. Head(q) \in Messages
      BY <1>6, HeadTailProperties DEF LoopGet, QueueType
    <2>2. /\ msg' = Head(q) /\ lpc' \in {"get", "handle"}
          /\ UNCHANGED <<mp_state, is, apc, fault, want>>
      BY <1>6 DEF LoopGet, callingVars
    <2>3. msg' \in {""} \union Messages
      BY <2>1, <2>2
    <2> QED
      BY <2>2, <2>3 DEF FieldTypes
  <1>7. CASE \/ LoopEnd \/ HandlePrepared \/ HandleCompleted \/ HandleSeekComplete \/ Crash
    BY <1>7 DEF LoopEnd, HandlePrepared, HandleCompleted, HandleSeekComplete, Crash,
                callingVars, FieldTypes, States
  <1>8. CASE HandleRequest
    <2>1. /\ lpc' \in {"get", "inside"}
          /\ UNCHANGED <<mp_state, is, msg, apc, fault, want>>
      BY <1>8 DEF HandleRequest, callingVars
    <2> QED
      BY <2>1 DEF FieldTypes
  <1>9. CASE DoStart \/ DoStartFromSeek \/ DoPause \/ DoSeek
    <2>1. /\ mp_state' \in {mp_state, "STARTED", "PAUSED"} /\ lpc' = "get"
          /\ UNCHANGED <<is, msg, apc, fault, want>>
      BY <1>9 DEF DoStart, DoStartFromSeek, DoPause, DoSeek, callingVars
    <2> QED
      BY <2>1 DEF FieldTypes, States
  <1>10. CASE \/ DoStartFromBeginning \/ DoStartFromBuffering \/ Resting \/ UNCHANGED allVars
    <2>1. UNCHANGED <<mp_state, is, lpc, msg, apc, fault, want>>
      BY <1>10 DEF DoStartFromBeginning, DoStartFromBuffering, Resting, allVars, playerVars,
                   callingVars
    <2> QED
      BY <2>1 DEF FieldTypes
  <1> QED
    BY <1>1, <1>2, <1>3, <1>4, <1>5, <1>6, <1>7, <1>8, <1>9, <1>10, <1>11
       DEF Next, Application, InCall, MessageLoop

LEMMA NextPlayerType ==
  ASSUME QueueType, PlayerType, [Next]_allVars
  PROVE  PlayerType'
  BY NextLeftType, NextFlagTypes, NextFieldTypes DEF PlayerType

\* The playback's types, under the calls of the message loop.
LEMMA NextPlaybackTypes ==
  ASSUME QueueType, ThreadType, CallType, CallCount, EndInv, [Next]_allVars
  PROVE  QueueType' /\ ThreadType' /\ CallType' /\ CallCount'
  <1>c. MaxCalls \in Nat
    BY MaxCallsAssumption
  <1>1. CASE Threads
    <2>1. CallCount'
      BY <1>1, ThreadsCallNothing, TypesKept
    <2>2. CallType'
      BY <1>1, ThreadsCallNothing, TypesKept
    <2> QED
      BY <1>1, <2>1, <2>2, ThreadsQueueType, ThreadsType
  <1>2. CASE PrepareAsync
    <2>1. /\ UNCHANGED <<queueVars, abort_request, from, calls>> /\ q_abort' = FALSE
          /\ UNCHANGED <<auto_start, prepared, error, seek_req, eof, completed, pq_abort, ic, dpc>>
          /\ (rpc' = "open" /\ vpc' = "loop") \/ UNCHANGED <<rpc, vpc>>
      BY <1>2 DEF PrepareAsync, StreamOpen, playVars, packetVars, decoderVars, callVars
    <2>2. CallType'
      BY <2>1 DEF CallType
    <2> QED
      BY <2>1, <2>2, TypesKept, TypesOpened
  <1>3. CASE Start \/ Pause \/ SeekTo \/ Stop
    <2>1. PICK call \in {"start", "pause", "seek", "stop"} : Begin(call)
      BY <1>3 DEF Start, Pause, SeekTo, Stop
    <2>2. calls' = calls + 1 /\ calls < MaxCalls
      BY <2>1 DEF Begin, MayCall
    <2>3. CallCount'
      BY <1>c, <2>2, CallCounted
    <2>4. UNCHANGED <<queueVars, q_abort, abort_request, from, auto_start, prepared, error,
                      seek_req, eof, completed, pq_abort, ic, rpc, dpc, vpc>>
      BY <2>1 DEF Begin, msgVars, playVars, readVars, packetVars, decoderVars
    <2> QED
      BY <2>3, <2>4, TypesKept
  <1>4. CASE RemoveNext \/ PutRequest \/ PutOther
    <2>1. QueueType'
      <3>1. ASSUME PutRequest PROVE QueueType'
        <4>1. Notify(Request(apc)) /\ Request(apc) \in Messages
          BY <3>1 DEF PutRequest, Request, Messages
        <4> QED
          BY <4>1, NotifyQueueType
      <3>2. ASSUME RemoveNext PROVE QueueType'
        BY <3>2, RemoveKeeps DEF RemoveNext
      <3> QED
        BY <1>4, <3>1, <3>2, PutOtherKeeps
    <2>2. UNCHANGED <<q_abort, abort_request, from, calls, auto_start, prepared, error,
                      seek_req, eof, completed, pq_abort, ic, rpc, dpc, vpc>>
      BY <1>4 DEF RemoveNext, PutRequest, PutOther, playVars, readVars, packetVars, decoderVars,
                  callVars
    <2> QED
      BY <2>1, <2>2, TypesKept
  <1>5. CASE Release \/ StopBegin \/ StopEnd
    <2>1. /\ abort_request' \in BOOLEAN \/ abort_request' = abort_request
          /\ q_abort' = TRUE \/ q_abort' = q_abort
          /\ pq_abort' = (pq_abort \/ is = "open") \/ pq_abort' = pq_abort
          /\ UNCHANGED <<queueVars, from, calls, auto_start, prepared, error, seek_req, eof,
                         completed, ic, rpc, dpc, vpc>>
      BY <1>5 DEF Release, StopBegin, StopEnd, msgVars, playVars, readVars, packetVars,
                  decoderVars, callVars
    <2>2. CallType'
      BY <2>1 DEF CallType
    <2>3. ThreadType'
      <3>1. pq_abort' \in BOOLEAN
        BY <2>1 DEF ThreadType
      <3> QED
        BY <2>1, <3>1 DEF ThreadType
    <2> QED
      BY <2>1, <2>2, <2>3, TypesKept
  <1>6. CASE LoopGet
    <2>1. QueueType'
      BY <1>6, HeadTailProperties DEF LoopGet, QueueType
    <2>2. UNCHANGED <<q_abort, abort_request, from, calls, auto_start, prepared, error, seek_req,
                      eof, completed, pq_abort, ic, rpc, dpc, vpc>>
      BY <1>6 DEF LoopGet, playVars, readVars, packetVars, decoderVars, callVars
    <2> QED
      BY <2>1, <2>2, TypesKept
  <1>7. CASE \/ DoStart \/ DoStartFromBeginning \/ DoStartFromBuffering \/ DoStartFromSeek
             \/ DoPause \/ DoSeek
    <2>1. /\ UNCHANGED <<queueVars, q_abort, abort_request, calls, prepared, error,
                         eof, completed, pq_abort, ic, rpc, dpc, vpc>>
          /\ auto_start' = auto_start \/ auto_start' \in BOOLEAN
          /\ seek_req' = seek_req \/ seek_req' = TRUE
          /\ from' \in {from, "buffering", "seek", ""}
      BY <1>7 DEF DoStart, DoStartFromBeginning, DoStartFromBuffering, DoStartFromSeek,
                  DoPause, DoSeek, CallStart, CallPause, CallSeek, CallStartFrom,
                  StartFromBuffering, StartFromSeek, TogglePause, StreamSeek, msgVars,
                  playVars, readVars, packetVars, decoderVars
    <2>2. CallType'
      BY <2>1 DEF CallType
    <2>3. auto_start' \in BOOLEAN /\ seek_req' \in BOOLEAN
      BY <2>1 DEF ThreadType
    <2>4. ThreadType'
      BY <2>1, <2>3 DEF ThreadType
    <2> QED
      BY <2>1, <2>2, <2>4, TypesKept
  <1>8. CASE \/ SetDataSource \/ PrepareAgain \/ ReleaseFree \/ ReleaseClear
             \/ LoopEnd \/ HandlePrepared \/ HandleCompleted \/ HandleSeekComplete
             \/ HandleRequest \/ Crash \/ Resting \/ UNCHANGED allVars
    <2>1. UNCHANGED playbackVars
      BY <1>8 DEF SetDataSource, PrepareAgain, ReleaseFree, ReleaseClear, LoopEnd,
                  HandlePrepared, HandleCompleted, HandleSeekComplete, HandleRequest, Crash,
                  Resting, allVars
    <2>2. UNCHANGED <<queueVars, q_abort, abort_request, from, calls, auto_start, prepared, error,
                      seek_req, eof, completed, pq_abort, ic, rpc, dpc, vpc>>
      BY <2>1 DEF playbackVars, msgVars, playVars, readVars, packetVars, decoderVars, callVars
    <2> QED
      BY <2>2, TypesKept
  <1> QED
    BY <1>1, <1>2, <1>3, <1>4, <1>5, <1>6, <1>7, <1>8
       DEF Next, Application, InCall, MessageLoop

-----------------------------------------------------------------------------
(* Each serial is paid for.  A call that was counted owes at most one seek,*)
(* and what it owes is in one place: the queue, the message loop's hand,   *)
(* auto_start, or the playback's seek_req.                                 *)

SeekKinds == {"REQ_SEEK", "REQ_START"}
Asking == IF apc \in {"start", "pause", "seek"} THEN 1 ELSE 0
Queued == Count(q, SeekKinds) + Asking
Hand == IF \E kind \in SeekKinds : InHand(kind) THEN 1 ELSE 0

\* While the read thread may still put a REQ_START for auto_start.
AutoStages == Opening \union {"auto_start"}
AutoDue == IF auto_start = TRUE /\ rpc \in AutoStages THEN 1 ELSE 0

\* A player that has completed is past the start of its read thread.
Completes ==
  \/ mp_state = "COMPLETED" \/ "COMPLETED" \in Elements(q)
  \/ lpc = "handle" /\ msg = "COMPLETED"
Finished == Completes => rpc \notin AutoStages

Within(spent, queued, hand, auto, made) == spent + queued + hand + auto <= made + 1
Amounts(spent, queued, hand, auto, made) == {spent, queued, hand, auto, made} \subseteq Nat
Owed == Within(Spent, Queued, Hand, AutoDue, calls)

\* The steps that keep what is owed within the calls that were made: nothing new,
\* a call, the auto_start of the read thread, a message taken, a seek asked for,
\* and a start.
Pays(s, c, h, a, n, s2, c2, h2, a2, n2) ==
  \/ n2 = n /\ s2 <= s /\ c2 <= c /\ h2 <= h /\ a2 <= a
  \/ n2 = n + 1 /\ s2 <= s /\ c2 <= c + 1 /\ h2 <= h /\ a2 <= a
  \/ n2 = n /\ s2 <= s /\ c2 <= c + 1 /\ h2 <= h /\ a = 1 /\ a2 = 0
  \/ n2 = n /\ s2 <= s /\ c2 + h2 <= c /\ a2 <= a
  \/ n2 = n /\ s2 <= s + 1 /\ c2 = c /\ h = 1 /\ h2 = 0 /\ a2 <= a
  \/ n2 = n /\ s2 <= s /\ c2 = c /\ h = 1 /\ h2 = 0 /\ a2 <= a + 1

LEMMA Paid ==
  ASSUME NEW s, NEW c, NEW h, NEW a, NEW n, NEW s2, NEW c2, NEW h2, NEW a2, NEW n2,
         Amounts(s, c, h, a, n), Amounts(s2, c2, h2, a2, n2),
         Within(s, c, h, a, n), Pays(s, c, h, a, n, s2, c2, h2, a2, n2)
  PROVE  Within(s2, c2, h2, a2, n2)
  BY DEF Amounts, Within, Pays

LEMMA OwedAreNat ==
  EndInv /\ QueueType /\ CallCount =>
    Spent \in Nat /\ Queued \in Nat /\ Hand \in Nat /\ AutoDue \in Nat /\ calls \in Nat
  <1> SUFFICES ASSUME EndInv, QueueType, CallCount
               PROVE  /\ Spent \in Nat /\ Queued \in Nat /\ Hand \in Nat /\ AutoDue \in Nat
                      /\ calls \in Nat
    OBVIOUS
  <1>1. Spent \in Nat
    BY SpentIs
  <1>2. Queued \in Nat
    <2>1. Count(q, SeekKinds) \in Nat
      BY CountIsNat DEF QueueType
    <2>2. Asking \in Nat /\ \A n, m \in Nat : n + m \in Nat
      BY DEF Asking
    <2> QED
      BY <2>1, <2>2, Zenon DEF Queued
  <1> QED
    BY <1>1, <1>2 DEF Hand, AutoDue, CallCount

\* A step that pays keeps the budget.
LEMMA OwedKept ==
  ASSUME EndInv, QueueType, CallCount, (EndInv /\ QueueType /\ CallCount)', Owed,
         Pays(Spent, Queued, Hand, AutoDue, calls, Spent', Queued', Hand', AutoDue', calls')
  PROVE  Owed'
  <1>1. Spent \in Nat /\ Queued \in Nat /\ Hand \in Nat /\ AutoDue \in Nat /\ calls \in Nat
    BY OwedAreNat
  <1>2. (EndInv /\ QueueType /\ CallCount =>
           Spent \in Nat /\ Queued \in Nat /\ Hand \in Nat /\ AutoDue \in Nat /\ calls \in Nat)'
    BY OwedAreNat, PTL
  <1>3. /\ Spent' \in Nat /\ Queued' \in Nat /\ Hand' \in Nat /\ AutoDue' \in Nat
        /\ calls' \in Nat
    BY <1>2
  <1>4. Within(Spent, Queued, Hand, AutoDue, calls)
    BY DEF Owed
  <1>5. Within(Spent', Queued', Hand', AutoDue', calls')
    <2>1. Amounts(Spent, Queued, Hand, AutoDue, calls)
      BY <1>1 DEF Amounts
    <2>2. Amounts(Spent', Queued', Hand', AutoDue', calls')
      BY <1>3 DEF Amounts
    <2> QED
      BY <1>4, <2>1, <2>2, Paid, Zenon
  <1> QED
    BY <1>5 DEF Owed

\* What a step that asks for no seek leaves of a sum.
LEMMA AtMost == \A n \in Nat : n <= n /\ 0 <= n /\ n <= n + 1
  OBVIOUS

\* The parts that a step leaves alone.
LEMMA PartsKept ==
  /\ UNCHANGED <<seek_req, serial>> /\ (rpc' = rpc \/ (rpc = "none" /\ rpc' = "open"))
       => Spent' = Spent
  /\ q' = q /\ apc' = apc => Queued' = Queued
  /\ lpc' = lpc /\ msg' = msg => Hand' = Hand
  /\ auto_start' = auto_start /\ (rpc' = rpc \/ (rpc = "none" /\ rpc' = "open"))
       => AutoDue' = AutoDue
  <1>1. UNCHANGED <<seek_req, serial>> /\ (rpc' = rpc \/ (rpc = "none" /\ rpc' = "open"))
          => Spent' = Spent
    BY DEF Spent, SeekDue, Opening
  <1>2. q' = q /\ apc' = apc => Queued' = Queued
    BY DEF Queued, Asking
  <1>3. lpc' = lpc /\ msg' = msg => Hand' = Hand
    BY DEF Hand, InHand
  <1>4. auto_start' = auto_start /\ (rpc' = rpc \/ (rpc = "none" /\ rpc' = "open"))
          => AutoDue' = AutoDue
    BY DEF AutoDue, AutoStages, Opening
  <1> QED
    BY <1>1, <1>2, <1>3, <1>4

LEMMA ThreadsAuto ==
  ASSUME Threads
  PROVE  /\ rpc' \in AutoStages => rpc \in AutoStages
         /\ AutoDue' = AutoDue \/ AutoDue' = 0
  <1>1. rpc' \in AutoStages => rpc \in AutoStages
    <2>1. CASE ReadThread
      BY <2>1
         DEF AutoStages, Opening, ReadThread, ReadOpen, ReadProbe, ReadAutoStart,
             ReadAutoClear, ReadLoop, ReadSeek, ReadSeekFlush, ReadSeeked, ReadSeekPlay,
             ReadSeekComplete, ReadSeekBuffering, ReadFull, ReadFullBuffering,
             ReadCompleted, ReadComplete, ReadCompleteBuffering, ReadCompletePause,
             ReadCompletePut, ReadMore, ReadPacket, ReadCheck, ReadEnd, ReadError,
             ReadAgain, ReadFails, ReadFailed, ReadCleanup, ReadJoin
    <2> QED
      BY <2>1, DecoderAndRendererAside DEF Threads
  <1>2. CASE ReadCompletePause
    BY <1>2 DEF ReadCompletePause, AutoDue, AutoStages, Opening
  <1>3. CASE ~ReadCompletePause
    <2>1. auto_start' = auto_start \/ auto_start' = FALSE
      <3>1. CASE Decoder \/ Renderer
        BY <3>1 DEF Decoder, DecoderGet, DecoderEmpty, DecoderStarve, DecoderDecode,
                    DecoderPush, DecoderExit, Renderer, RenderLoop, RenderNothing,
                    RenderSkip, RenderShow, RenderShown, playVars
      <3> QED
        BY <3>1, ReadThreadSets DEF Threads
    <2> QED
      BY <1>1, <2>1 DEF AutoDue
  <1> QED
    BY <1>2, <1>3

LEMMA ThreadsFinished ==
  ASSUME QueueType, Finished, Threads, UNCHANGED playerVars
  PROVE  Finished'
  <1>1. UNCHANGED <<mp_state, lpc, msg>>
    BY DEF playerVars
  <1>2. rpc' \in AutoStages => rpc \in AutoStages
    BY ThreadsAuto
  <1>3. CASE UNCHANGED queueVars
    BY <1>1, <1>2, <1>3 DEF Finished, Completes, queueVars
  <1>4. CASE \E what \in Notified : Notify(what) /\ (what = "COMPLETED" => rpc' = "read")
    <2>1. PICK what \in Notified : Notify(what) /\ (what = "COMPLETED" => rpc' = "read")
      BY <1>4
    <2>2. Elements(q') \subseteq Elements(q) \union {what}
      BY <2>1, NotifyElements DEF Notified
    <2>3. "read" \notin AutoStages
      BY DEF AutoStages, Opening
    <2> QED
      BY <1>1, <1>2, <2>1, <2>2, <2>3 DEF Finished, Completes
  <1> QED
    BY <1>3, <1>4, ThreadsNotify

\* A message adds itself to what was queued, and no more.
LEMMA NotifyCounts ==
  ASSUME QueueType, NEW what \in Messages, Notify(what)
  PROVE  /\ Count(q', SeekKinds) \in Nat /\ Count(q, SeekKinds) \in Nat
         /\ Count(q', SeekKinds) <= Count(q, SeekKinds) + One(what, SeekKinds)
  <1>1. q \in Seq(Messages) /\ q' \in Seq(Messages)
    BY NotifyQueueType DEF QueueType
  <1>2. Count(q, SeekKinds) \in Nat /\ Count(q', SeekKinds) \in Nat
    BY <1>1, CountIsNat
  <1>3. One(what, SeekKinds) \in Nat
    BY DEF One
  <1>4. \A n, m \in Nat : n <= n + m
    OBVIOUS
  <1>5. CASE q' = q
    BY <1>2, <1>3, <1>4, <1>5, Zenon
  <1>6. ASSUME NEW t \in Seq(Messages), Thins(t, q), q' = Append(t, what)
        PROVE  Count(q', SeekKinds) <= Count(q, SeekKinds) + One(what, SeekKinds)
    <2>1. Count(t, SeekKinds) <= Count(q, SeekKinds) /\ Count(t, SeekKinds) \in Nat
      BY <1>1, <1>6, ThinsCount, CountIsNat
    <2>2. Count(q', SeekKinds) = Count(t, SeekKinds) + One(what, SeekKinds)
      BY <1>6, CountAppend
    <2>3. \A n, m, k \in Nat : n <= m => n + k <= m + k
      OBVIOUS
    <2> QED
      BY <1>2, <1>3, <2>1, <2>2, <2>3, Zenon
  <1> QED
    BY <1>2, <1>5, <1>6, NotifyKeeps

\* A REQ_START that the read thread puts is the one auto_start owed.
LEMMA ThreadsPay ==
  ASSUME EndInv, QueueType, CallCount, SeekAsked, Threads, UNCHANGED playerVars
  PROVE  Pays(Spent, Queued, Hand, AutoDue, calls, Spent', Queued', Hand', AutoDue', calls')
  <1>1. Spent \in Nat /\ Queued \in Nat /\ Hand \in Nat /\ AutoDue \in Nat /\ calls \in Nat
    BY OwedAreNat
  <1>2. Spent' <= Spent /\ calls' = calls
    BY ThreadsSpend, ThreadsCallNothing
  <1>3. Hand' = Hand
    BY PartsKept DEF playerVars
  <1>4. AutoDue' = AutoDue \/ AutoDue' = 0
    BY ThreadsAuto
  <1>5. Hand' <= Hand /\ AutoDue' <= AutoDue
    BY <1>1, <1>3, <1>4, AtMost, Zenon
  <1>6. Asking' = Asking /\ Asking \in Nat
    BY DEF Asking, playerVars, callingVars
  <1>7. CASE UNCHANGED queueVars
    <2>1. Queued' = Queued
      BY <1>6, <1>7 DEF Queued, queueVars
    <2>2. Queued' <= Queued
      BY <1>1, <2>1, AtMost, Zenon
    <2> QED
      BY <1>2, <1>5, <2>2 DEF Pays
  <1>8. CASE \E what \in Notified :
               /\ Notify(what)
               /\ what = "REQ_START" =>
                    auto_start = TRUE /\ rpc = "auto_start" /\ rpc' = "auto_clear"
    <2>1. PICK what \in Notified :
            /\ Notify(what)
            /\ what = "REQ_START" =>
                 auto_start = TRUE /\ rpc = "auto_start" /\ rpc' = "auto_clear"
      BY <1>8
    <2>2. /\ Count(q', SeekKinds) \in Nat /\ Count(q, SeekKinds) \in Nat
          /\ Count(q', SeekKinds) <= Count(q, SeekKinds) + One(what, SeekKinds)
      BY <2>1, NotifyCounts DEF Notified
    <2>3. CASE what = "REQ_START"
      <3>1. AutoDue = 1 /\ AutoDue' = 0
        BY <2>1, <2>3 DEF AutoDue, AutoStages, Opening
      <3>2. Count(q', SeekKinds) <= Count(q, SeekKinds) + 1
        BY <2>2, <2>3 DEF One, SeekKinds
      <3>3. \A n, then, more \in Nat : then <= n + 1 => then + more <= n + more + 1
        OBVIOUS
      <3>4. Count(q', SeekKinds) + Asking <= Count(q, SeekKinds) + Asking + 1
        BY <1>6, <2>2, <3>2, <3>3, Zenon
      <3>5. Queued' <= Queued + 1
        BY <1>6, <3>4 DEF Queued
      <3> QED
        BY <1>2, <1>5, <3>1, <3>5 DEF Pays
    <2>4. CASE what # "REQ_START"
      <3>1. One(what, SeekKinds) = 0
        BY <2>4 DEF One, SeekKinds, Notified
      <3>2. \A n, then, more \in Nat : then <= n + 0 => then + more <= n + more
        OBVIOUS
      <3>3. Count(q', SeekKinds) + Asking <= Count(q, SeekKinds) + Asking
        BY <1>6, <2>2, <3>1, <3>2, Zenon
      <3>4. Queued' <= Queued
        BY <1>6, <3>3 DEF Queued
      <3> QED
        BY <1>2, <1>5, <3>4 DEF Pays
    <2> QED
      BY <2>3, <2>4
  <1> QED
    BY <1>7, <1>8, ThreadsNotify

\* Steps that owe nothing new: what was in hand is still, or has been dropped.
LEMMA NothingNewPays ==
  ASSUME EndInv, QueueType, CallCount,
         UNCHANGED <<q, calls, seek_req, serial, msg>>,
         apc' = apc \/ apc' \notin {"start", "pause", "seek"},
         rpc' = rpc \/ (rpc = "none" /\ rpc' = "open"),
         lpc' \in {lpc, "get", "end"} \/ (lpc = "handle" /\ lpc' = "inside"),
         AutoDue' = AutoDue \/ AutoDue' = 0
  PROVE  Pays(Spent, Queued, Hand, AutoDue, calls, Spent', Queued', Hand', AutoDue', calls')
  <1>1. Spent \in Nat /\ Queued \in Nat /\ Hand \in Nat /\ AutoDue \in Nat /\ calls \in Nat
    BY OwedAreNat
  <1>2. Spent' = Spent
    BY PartsKept
  <1>3. Hand' = Hand \/ Hand' = 0
    BY DEF Hand, InHand
  <1>5. Queued' <= Queued
    <2>1. Count(q, SeekKinds) \in Nat /\ Count(q', SeekKinds) = Count(q, SeekKinds)
      BY CountIsNat DEF QueueType
    <2>2. Asking \in {0, 1} /\ (Asking' = Asking \/ Asking' = 0)
      BY DEF Asking
    <2>3. \A n \in Nat : \A a \in {0, 1} : n + a <= n + a /\ n + 0 <= n + a
      OBVIOUS
    <2>4. Count(q, SeekKinds) + Asking' <= Count(q, SeekKinds) + Asking
      BY <2>1, <2>2, <2>3, Zenon
    <2> QED
      BY <2>1, <2>4 DEF Queued
  <1>4. Spent' <= Spent /\ Hand' <= Hand /\ AutoDue' <= AutoDue
    BY <1>1, <1>2, <1>3, AtMost, Zenon
  <1> QED
    BY <1>4, <1>5 DEF Pays

\* A call, which may have a request to put.
LEMMA CallPays ==
  ASSUME EndInv, QueueType, CallCount, NEW call, Begin(call)
  PROVE  Pays(Spent, Queued, Hand, AutoDue, calls, Spent', Queued', Hand', AutoDue', calls')
  <1>1. Spent \in Nat /\ Queued \in Nat /\ Hand \in Nat /\ AutoDue \in Nat /\ calls \in Nat
    BY OwedAreNat
  <1>2. /\ calls' = calls + 1 /\ apc = "idle"
        /\ UNCHANGED <<q, seek_req, serial, rpc, msg, lpc, auto_start>>
    BY DEF Begin, MayCall, msgVars, queueVars, playVars, readVars, packetVars
  <1>3. Spent' = Spent /\ Hand' = Hand /\ AutoDue' = AutoDue
    BY <1>2, PartsKept
  <1>4. Spent' <= Spent /\ Hand' <= Hand /\ AutoDue' <= AutoDue
    BY <1>1, <1>3, AtMost, Zenon
  <1>5. Queued' <= Queued + 1
    <2>1. Count(q, SeekKinds) \in Nat /\ Count(q', SeekKinds) = Count(q, SeekKinds)
      BY <1>2, CountIsNat DEF QueueType
    <2>2. Asking = 0 /\ Asking' \in {0, 1}
      BY <1>2 DEF Asking
    <2>3. \A n \in Nat : \A a \in {0, 1} : n + a <= n + 0 + 1
      OBVIOUS
    <2>4. Count(q, SeekKinds) + Asking' <= Count(q, SeekKinds) + Asking + 1
      BY <2>1, <2>2, <2>3, Zenon
    <2> QED
      BY <2>1, <2>4 DEF Queued
  <1> QED
    BY <1>2, <1>4, <1>5 DEF Pays

\* What a removal leaves, and a request that its call owed.
LEMMA InCallPays ==
  ASSUME EndInv, QueueType, CallCount, RemoveNext \/ PutRequest \/ PutOther
  PROVE  Pays(Spent, Queued, Hand, AutoDue, calls, Spent', Queued', Hand', AutoDue', calls')
  <1>1. Spent \in Nat /\ Queued \in Nat /\ Hand \in Nat /\ AutoDue \in Nat /\ calls \in Nat
    BY OwedAreNat
  <1>2. UNCHANGED <<calls, seek_req, serial, rpc, msg, lpc, auto_start>>
    BY DEF RemoveNext, PutRequest, PutOther, playerVars, playVars, readVars, packetVars, callVars
  <1>3. Spent' = Spent /\ Hand' = Hand /\ AutoDue' = AutoDue
    BY <1>2, PartsKept
  <1>4. Spent' <= Spent /\ Hand' <= Hand /\ AutoDue' <= AutoDue
    BY <1>1, <1>3, AtMost, Zenon
  <1>5. Queued' <= Queued
    <2>1. CASE RemoveNext \/ PutOther
      <3>1. QueueType' /\ Thins(q', q)
        BY <2>1, RemoveKeeps, PutOtherKeeps DEF RemoveNext
      <3>2. q \in Seq(Messages) /\ q' \in Seq(Messages)
        BY <3>1 DEF QueueType
      <3>3. /\ Count(q', SeekKinds) <= Count(q, SeekKinds)
            /\ Count(q', SeekKinds) \in Nat /\ Count(q, SeekKinds) \in Nat
        BY <3>1, <3>2, ThinsCount, CountIsNat
      <3>4. Asking' = Asking /\ Asking \in Nat
        BY <2>1 DEF RemoveNext, PutOther, playerVars, callingVars, Asking
      <3>5. \A n, m, k \in Nat : n <= m => n + k <= m + k
        OBVIOUS
      <3>6. Count(q', SeekKinds) + Asking <= Count(q, SeekKinds) + Asking
        BY <3>3, <3>4, <3>5, Zenon
      <3> QED
        BY <3>4, <3>6 DEF Queued
    <2>2. CASE PutRequest
      <3>1. Request(apc) \in Messages /\ Notify(Request(apc))
        BY <2>2 DEF PutRequest, Request, Messages
      <3>2. /\ Count(q', SeekKinds) \in Nat /\ Count(q, SeekKinds) \in Nat
            /\ Count(q', SeekKinds) <= Count(q, SeekKinds) + One(Request(apc), SeekKinds)
        BY <3>1, NotifyCounts
      <3>3. Asking = 1 /\ Asking' = 0 /\ One(Request(apc), SeekKinds) \in {0, 1}
        BY <2>2 DEF PutRequest, Asking, One
      <3>4. \A n, then \in Nat : \A one \in {0, 1} : then <= n + one => then + 0 <= n + 1
        OBVIOUS
      <3>5. Count(q', SeekKinds) + Asking' <= Count(q, SeekKinds) + Asking
        BY <3>2, <3>3, <3>4, Zenon
      <3> QED
        BY <3>5 DEF Queued
    <2> QED
      BY <2>1, <2>2
  <1> QED
    BY <1>2, <1>4, <1>5 DEF Pays

\* What the loop takes moves from the queue to its hand.
LEMMA GetPays ==
  ASSUME EndInv, QueueType, CallCount, LoopGet
  PROVE  Pays(Spent, Queued, Hand, AutoDue, calls, Spent', Queued', Hand', AutoDue', calls')
  <1>1. Spent \in Nat /\ Queued \in Nat /\ Hand \in Nat /\ AutoDue \in Nat /\ calls \in Nat
    BY OwedAreNat
  <1>2. /\ lpc = "get" /\ q # <<>> /\ msg' = Head(q) /\ q' = Tail(q)
        /\ lpc' = IF Head(q) = "ERROR" THEN "get" ELSE "handle"
        /\ UNCHANGED <<calls, seek_req, serial, rpc, auto_start, apc>>
    BY DEF LoopGet, playVars, readVars, packetVars, callVars, callingVars
  <1>3. Spent' = Spent /\ AutoDue' = AutoDue
    BY <1>2, PartsKept
  <1>4. Spent' <= Spent /\ AutoDue' <= AutoDue
    BY <1>1, <1>3, AtMost, Zenon
  <1>5. Head(q) = q[1]
    BY <1>2, HeadTailProperties DEF QueueType
  <1>6. Hand' = One(q[1], SeekKinds)
    BY <1>2, <1>5 DEF Hand, InHand, One, SeekKinds
  <1>7. Count(Tail(q), SeekKinds) + One(q[1], SeekKinds) <= Count(q, SeekKinds)
    BY <1>2, CountTail DEF QueueType
  <1>8. Queued' + Hand' <= Queued
    <2>1. Asking' = Asking /\ Asking \in Nat /\ One(q[1], SeekKinds) \in Nat
      BY <1>2 DEF Asking, One
    <2>2. Count(Tail(q), SeekKinds) \in Nat /\ Count(q, SeekKinds) \in Nat
      BY <1>2, CountIsNat, HeadTailProperties DEF QueueType
    <2>3. \A n, one, all, more \in Nat : n + one <= all => n + more + one <= all + more
      OBVIOUS
    <2>4. Count(Tail(q), SeekKinds) + Asking + One(q[1], SeekKinds)
            <= Count(q, SeekKinds) + Asking
      BY <1>7, <2>1, <2>2, <2>3, Zenon
    <2> QED
      BY <1>2, <1>6, <2>1, <2>4 DEF Queued
  <1> QED
    BY <1>2, <1>4, <1>8 DEF Pays

\* The seek that was in hand is asked for.
LEMMA SeekPays ==
  ASSUME EndInv, QueueType, CallCount, DoSeek \/ DoStartFromSeek
  PROVE  Pays(Spent, Queued, Hand, AutoDue, calls, Spent', Queued', Hand', AutoDue', calls')
  <1>1. Spent \in Nat /\ Queued \in Nat /\ Hand \in Nat /\ AutoDue \in Nat /\ calls \in Nat
    BY OwedAreNat
  <1>2. /\ lpc = "inside" /\ msg \in SeekKinds /\ lpc' = "get"
        /\ UNCHANGED <<q, calls, serial, rpc, auto_start, apc>>
    BY DEF DoSeek, DoStartFromSeek, CallSeek, StartFromSeek, Inside, LoopInside, SeekKinds,
           msgVars, queueVars, playVars, readVars, packetVars, callingVars
  <1>3. Hand = 1 /\ Hand' = 0
    BY <1>2 DEF Hand, InHand
  <1>4. Queued' = Queued /\ AutoDue' = AutoDue
    BY <1>2, PartsKept
  <1>5. AutoDue' <= AutoDue
    BY <1>1, <1>4, AtMost, Zenon
  <1>6. Spent' <= Spent + 1
    <2> DEFINE counted == IF rpc \in Opening THEN 1 ELSE serial
    <2>1. Spent = counted + SeekDue /\ Spent' = counted + SeekDue'
      BY <1>2 DEF Spent
    <2>2. counted \in Nat
      BY DEF EndInv, Serials
    <2>3. SeekDue \in {0, 1} /\ SeekDue' \in {0, 1}
      BY DEF SeekDue
    <2>4. \A n \in Nat : \A due, then \in {0, 1} : n + then <= n + due + 1
      OBVIOUS
    <2> HIDE DEF counted
    <2>5. counted + SeekDue' <= counted + SeekDue + 1
      BY <2>2, <2>3, <2>4, Zenon
    <2> QED
      BY <2>1, <2>5
  <1> QED
    BY <1>2, <1>3, <1>4, <1>5, <1>6 DEF Pays

\* The start that was in hand may be left to the read thread.
LEMMA StartPays ==
  ASSUME EndInv, QueueType, CallCount, DoStart
  PROVE  Pays(Spent, Queued, Hand, AutoDue, calls, Spent', Queued', Hand', AutoDue', calls')
  <1>1. Spent \in Nat /\ Queued \in Nat /\ Hand \in Nat /\ AutoDue \in Nat /\ calls \in Nat
    BY OwedAreNat
  <1>2. /\ lpc = "inside" /\ msg \in SeekKinds /\ lpc' = "get"
        /\ UNCHANGED <<q, calls, serial, rpc, seek_req, apc>>
    BY DEF DoStart, CallStart, Inside, LoopInside, SeekKinds, msgVars, queueVars, readVars,
           packetVars, callingVars
  <1>3. Hand = 1 /\ Hand' = 0
    BY <1>2 DEF Hand, InHand
  <1>4. Queued' = Queued /\ Spent' = Spent
    BY <1>2, PartsKept
  <1>5. Spent' <= Spent
    BY <1>1, <1>4, AtMost, Zenon
  <1>6. AutoDue' <= AutoDue + 1
    <2>1. AutoDue \in {0, 1} /\ AutoDue' \in {0, 1}
      BY DEF AutoDue
    <2>2. \A due, then \in {0, 1} : then <= due + 1
      OBVIOUS
    <2> QED
      BY <2>1, <2>2, Zenon
  <1> QED
    BY <1>2, <1>3, <1>4, <1>5, <1>6 DEF Pays

LEMMA NextPays ==
  ASSUME Unopened, EndInv, QueueType, CallCount, SeekAsked, Finished, [Next]_allVars
  PROVE  Pays(Spent, Queued, Hand, AutoDue, calls, Spent', Queued', Hand', AutoDue', calls')
  <1>1. CASE Threads /\ UNCHANGED playerVars
    BY <1>1, ThreadsPay
  <1>2. CASE PrepareAsync
    <2>1. /\ rpc = "none" /\ rpc' \in {"open", "none"} /\ lpc' = "get"
          /\ UNCHANGED <<q, calls, seek_req, serial, msg, auto_start, apc>>
      BY <1>2 DEF PrepareAsync, StreamOpen, Unopened, queueVars, playVars, packetVars, callVars,
                  callingVars
    <2> QED
      BY <2>1, NothingNewPays, PartsKept
  <1>3. CASE Start \/ Pause \/ SeekTo \/ Stop
    BY <1>3, CallPays DEF Start, Pause, SeekTo, Stop
  <1>10. CASE RemoveNext \/ PutRequest \/ PutOther
    BY <1>10, InCallPays
  <1>4. CASE LoopGet
    BY <1>4, GetPays
  <1>5. CASE DoSeek \/ DoStartFromSeek
    BY <1>5, SeekPays
  <1>6. CASE DoStart
    BY <1>6, StartPays
  <1>7. CASE DoPause \/ DoStartFromBeginning
    <2>1. /\ lpc' \in {lpc, "get"}
          /\ UNCHANGED <<q, calls, seek_req, serial, msg, rpc, apc>>
      BY <1>7 DEF DoPause, CallPause, DoStartFromBeginning, CallStartFrom, playerVars,
                  callingVars, msgVars, queueVars, readVars, packetVars
    <2>2. AutoDue' = 0
      <3>1. CASE DoPause
        BY <3>1 DEF DoPause, CallPause, TogglePause, AutoDue
      <3>2. CASE DoStartFromBeginning
        BY <2>1, <3>2 DEF DoStartFromBeginning, Finished, Completes, AutoDue
      <3> QED
        BY <1>7, <3>1, <3>2
    <2> QED
      BY <2>1, <2>2, NothingNewPays
  <1>8. CASE HandlePrepared \/ HandleCompleted \/ HandleSeekComplete \/ HandleRequest
    <2>1. /\ lpc = "handle" /\ lpc' \in {"get", "inside"}
          /\ UNCHANGED <<q, calls, seek_req, serial, msg, rpc, auto_start, apc>>
      BY <1>8 DEF HandlePrepared, HandleCompleted, HandleSeekComplete, HandleRequest, Handling,
                  playbackVars, msgVars, queueVars, playVars, readVars, packetVars, callVars,
                  callingVars
    <2> QED
      BY <2>1, NothingNewPays, PartsKept
  <1>9. CASE \/ SetDataSource \/ PrepareAgain \/ Release \/ StopBegin \/ StopEnd
             \/ ReleaseFree \/ ReleaseClear \/ LoopEnd \/ Crash \/ DoStartFromBuffering
             \/ Resting \/ UNCHANGED allVars
    <2>1. /\ lpc' \in {lpc, "end"}
          /\ apc' \in {apc, "idle", "stopping", "join", "freed", "released"}
          /\ UNCHANGED <<q, calls, seek_req, serial, msg, rpc, auto_start>>
      BY <1>9 DEF SetDataSource, PrepareAgain, Release, StopBegin, StopEnd, ReleaseFree,
                  ReleaseClear, LoopEnd, Crash, DoStartFromBuffering, StartFromBuffering,
                  Resting, allVars, playbackVars, playerVars, callingVars, msgVars, queueVars,
                  playVars, readVars, packetVars, callVars
    <2> QED
      BY <2>1, NothingNewPays, PartsKept
  <1> QED
    BY <1>1, <1>2, <1>3, <1>4, <1>5, <1>6, <1>7, <1>8, <1>9, <1>10
       DEF Next, Application, InCall, MessageLoop

LEMMA NextFinished ==
  ASSUME Unopened, QueueType, Finished, [Next]_allVars
  PROVE  Finished'
  <1>1. CASE Threads /\ UNCHANGED playerVars
    BY <1>1, ThreadsFinished
  <1>2. CASE SetDataSource \/ PrepareAsync
    <2>1. /\ mp_state \in {"IDLE", "INITIALIZED"} /\ mp_state' # "COMPLETED"
          /\ q' = q /\ msg' = msg /\ lpc' \in {lpc, "get"}
          /\ rpc' \in {rpc, "open"}
      BY <1>2 DEF SetDataSource, PrepareAsync, StreamOpen, playbackVars, msgVars, queueVars,
                  readVars
    <2>2. rpc \in AutoStages
      BY <2>1 DEF Unopened, AutoStages, Opening
    <2> QED
      BY <2>1, <2>2 DEF Finished, Completes
  <1>3. CASE RemoveNext \/ PutRequest \/ PutOther
    <2>1. UNCHANGED <<mp_state, lpc, msg, rpc>>
      BY <1>3 DEF RemoveNext, PutRequest, PutOther, playerVars, readVars
    <2>2. "COMPLETED" \in Elements(q') => "COMPLETED" \in Elements(q)
      <3>1. CASE RemoveNext \/ PutOther
        <4>1. Thins(q', q)
          BY <3>1, RemoveKeeps, PutOtherKeeps DEF RemoveNext
        <4> QED
          BY <4>1, ThinsElements
      <3>2. CASE PutRequest
        <4>1. /\ Request(apc) \in Messages /\ Notify(Request(apc))
              /\ Request(apc) # "COMPLETED"
          BY <3>2 DEF PutRequest, Request, Messages
        <4> QED
          BY <4>1, NotifyElements
      <3> QED
        BY <1>3, <3>1, <3>2
    <2> QED
      BY <2>1, <2>2 DEF Finished, Completes
  <1>4. CASE Start \/ Pause \/ SeekTo \/ Stop
    <2>1. UNCHANGED <<q, mp_state, lpc, msg, rpc>>
      BY <1>4 DEF Start, Pause, SeekTo, Stop, Begin, msgVars, queueVars, readVars
    <2> QED
      BY <2>1 DEF Finished, Completes
  <1>5. CASE LoopGet
    <2>1. /\ q # <<>> /\ msg' = Head(q) /\ q' = Tail(q) /\ lpc' \in {"get", "handle"}
          /\ UNCHANGED <<mp_state, rpc>>
      BY <1>5 DEF LoopGet, readVars
    <2>2. Head(q) = q[1] /\ Elements(q) = Elements(q') \union {Head(q)}
      BY <2>1, ElementsTail, HeadTailProperties DEF QueueType
    <2> QED
      BY <2>1, <2>2 DEF Finished, Completes
  <1>6. CASE HandlePrepared \/ HandleCompleted \/ HandleSeekComplete \/ HandleRequest
    <2>1. /\ lpc = "handle" /\ lpc' \in {"get", "inside"}
          /\ mp_state' \in {mp_state, "PREPARED"} \/ msg = "COMPLETED"
          /\ UNCHANGED <<q, msg, rpc>>
      BY <1>6 DEF HandlePrepared, HandleCompleted, HandleSeekComplete, HandleRequest, Handling,
                  playbackVars, msgVars, queueVars, readVars
    <2> QED
      BY <2>1 DEF Finished, Completes
  <1>7. CASE DoStart \/ DoStartFromSeek \/ DoPause \/ DoSeek
    <2>1. /\ lpc' = "get" /\ mp_state' \in {mp_state, "STARTED", "PAUSED"}
          /\ UNCHANGED <<q, msg, rpc>>
      BY <1>7 DEF DoStart, DoStartFromSeek, DoPause, DoSeek, CallStart, StartFromSeek,
                  CallPause, CallSeek, msgVars, queueVars, readVars
    <2> QED
      BY <2>1 DEF Finished, Completes
  <1>8. CASE \/ PrepareAgain \/ Release \/ StopBegin \/ StopEnd \/ ReleaseFree \/ ReleaseClear
             \/ LoopEnd \/ Crash \/ DoStartFromBeginning \/ DoStartFromBuffering \/ Resting
             \/ UNCHANGED allVars
    <2>1. /\ lpc' \in {lpc, "end"} /\ mp_state' \in {mp_state, "STOPPED"}
          /\ UNCHANGED <<q, msg, rpc>>
      BY <1>8 DEF PrepareAgain, Release, StopBegin, StopEnd, ReleaseFree, ReleaseClear, LoopEnd,
                  Crash, DoStartFromBeginning, CallStartFrom, DoStartFromBuffering,
                  StartFromBuffering, Resting, allVars, playbackVars, playerVars, msgVars,
                  queueVars, readVars
    <2> QED
      BY <2>1 DEF Finished, Completes
  <1> QED
    BY <1>1, <1>2, <1>3, <1>4, <1>5, <1>6, <1>7, <1>8
       DEF Next, Application, InCall, MessageLoop

LEMMA NextSeekAsked ==
  ASSUME EndInv, SeekAsked, [Next]_allVars
  PROVE  SeekAsked'
  <1>1. CASE Threads
    BY <1>1, ThreadsSpend
  <1>2. CASE Application \/ InCall \/ PutOther
    <2>1. rpc' \in {rpc, "open"} /\ seek_req' = seek_req
      BY <1>2 DEF Application, SetDataSource, PrepareAsync, StreamOpen, PrepareAgain, Start,
                  Pause, SeekTo, Stop, Begin, Release, InCall, RemoveNext, PutRequest, StopBegin,
                  StopEnd, ReleaseFree, ReleaseClear, PutOther, playbackVars, readVars
    <2> QED
      BY <2>1 DEF SeekAsked
  <1>3. CASE MessageLoop
    <2>1. rpc' = rpc /\ seek_req' \in {seek_req, TRUE}
      BY <1>3 DEF MessageLoop, LoopEnd, LoopGet, HandlePrepared, HandleCompleted,
                  HandleSeekComplete, HandleRequest, Crash, DoStart, DoStartFromBeginning,
                  DoStartFromBuffering, DoStartFromSeek, DoPause, DoSeek, CallStart,
                  CallStartFrom, StartFromBuffering, StartFromSeek, CallPause, CallSeek,
                  StreamSeek, playbackVars, readVars
    <2> QED
      BY <2>1 DEF SeekAsked
  <1>4. CASE Resting \/ UNCHANGED allVars
    BY <1>4 DEF Resting, allVars, playbackVars, readVars, SeekAsked
  <1> QED
    BY <1>1, <1>2, <1>3, <1>4 DEF Next

-----------------------------------------------------------------------------

TInv ==
  /\ PlayInv /\ Unopened /\ EndInv
  /\ QueueType /\ ThreadType /\ CallType /\ CallCount /\ PlayerType
  /\ SeekAsked /\ Finished /\ Owed

LEMMA InitTInv == Init => TInv
  <1> SUFFICES ASSUME Init PROVE TInv
    OBVIOUS
  <1>1. /\ PlaybackInit
        /\ rpc = "none" /\ seek_req = FALSE /\ q = <<>> /\ lpc = "none"
        /\ mp_state = "IDLE" /\ auto_start = FALSE /\ calls = 0 /\ apc = "idle"
    BY DEF Init, PlaybackInit
  <1>2. PlayInv /\ Unopened /\ EndInv /\ SeekAsked
    BY <1>1, InitPlayInv, InitEndInv DEF Unopened, SeekAsked
  <1>3. QueueType /\ ThreadType /\ CallType /\ CallCount /\ PlayerType
    BY <1>1, InitTypes, InitPlayerType
  <1>4. Finished
    <2>1. Elements(<<>>) = {}
      BY DEF Elements
    <2> QED
      BY <1>1, <2>1 DEF Finished, Completes
  <1>5. Owed
    <2>1. Spent = 1 /\ Hand = 0 /\ AutoDue = 0
      BY <1>1 DEF Spent, SeekDue, Opening, Hand, InHand, AutoDue
    <2>2. Queued = 0
      <3>1. Places(<<>>, SeekKinds, 0) = {} /\ Len(<<>>) = 0
        BY DEF Places
      <3>2. Count(q, SeekKinds) = 0 /\ Asking = 0
        BY <1>1, <3>1, FS_EmptySet DEF Asking, Count
      <3> QED
        BY <3>2 DEF Queued
    <2>3. Within(1, 0, 0, 0, 0)
      BY DEF Within
    <2> QED
      BY <1>1, <2>1, <2>2, <2>3 DEF Owed
  <1> QED
    BY <1>2, <1>3, <1>4, <1>5 DEF TInv

LEMMA NextTInv == TInv /\ [Next]_allVars => TInv'
  <1> SUFFICES ASSUME TInv, [Next]_allVars PROVE TInv'
    OBVIOUS
  <1>0. /\ PlayInv /\ Unopened /\ EndInv
        /\ QueueType /\ ThreadType /\ CallType /\ CallCount /\ PlayerType
        /\ SeekAsked /\ Finished /\ Owed
    BY DEF TInv
  <1>1. PlayInv' /\ Unopened' /\ EndInv'
    BY <1>0, PlayerPlayInv, PlayerEndInv
  <1>2. QueueType' /\ ThreadType' /\ CallType' /\ CallCount'
    BY <1>0, NextPlaybackTypes
  <1>3. PlayerType'
    BY <1>0, NextPlayerType
  <1>4. SeekAsked' /\ Finished'
    BY <1>0, NextSeekAsked, NextFinished
  <1>5. Pays(Spent, Queued, Hand, AutoDue, calls, Spent', Queued', Hand', AutoDue', calls')
    BY <1>0, NextPays
  <1>6. Owed'
    BY <1>0, <1>1, <1>2, <1>5, OwedKept
  <1> QED
    BY <1>1, <1>2, <1>3, <1>4, <1>6 DEF TInv

\* The types of the player.  That no more serials are used than seeks were asked
\* for and that each of those is owed to one call of its own holds however
\* requests are removed, queued again, taken, left to auto_start or overtaken
\* (ijkmp_get_msg, stream_seek, read_thread).
THEOREM PlayerTypesCorrect == Spec => []TypeOK
  <1>1. TInv => TypeOK
    <2> SUFFICES ASSUME TInv PROVE TypeOK
      OBVIOUS
    <2>0. /\ PlayInv /\ EndInv /\ QueueType /\ ThreadType /\ CallType /\ CallCount
          /\ PlayerType /\ Owed
      BY DEF TInv
    <2>1. Amounts(Spent, Queued, Hand, AutoDue, calls)
      BY <2>0, OwedAreNat DEF Amounts
    <2>2. \A s, c, h, a, n :
            Amounts(s, c, h, a, n) /\ Within(s, c, h, a, n) => s <= n + 1
      BY DEF Amounts, Within
    <2>3. Spent <= calls + 1
      BY <2>0, <2>1, <2>2, Zenon DEF Owed
    <2>4. PlaybackTypeOK
      BY <2>0, <2>3, TypesHold
    <2>5. FieldTypes /\ FlagTypes /\ LeftType
      BY <2>0 DEF PlayerType
    <2>6. restart \in BOOLEAN /\ mp_seek_req \in BOOLEAN /\ told \in BOOLEAN
      BY <2>5 DEF FlagTypes
    <2>7. left \in {<<>>, <<"REQ_START", "REQ_PAUSE">>, <<"REQ_PAUSE">>, <<"REQ_SEEK">>}
      BY <2>5 DEF LeftType, StartAndPause, OnlyPause, OnlySeek
    <2>8. msg \in {"", "PREPARED", "COMPLETED", "ERROR", "SEEK_COMPLETE",
                  "REQ_START", "REQ_PAUSE", "REQ_SEEK"}
      BY <2>5 DEF FieldTypes, Messages
    <2>9. /\ mp_state \in States
          /\ is \in {"null", "open", "freed"}
          /\ lpc \in {"none", "get", "handle", "inside", "end"}
          /\ apc \in {"idle", "start", "pause", "seek", "stop", "stopping",
                      "join", "freed", "released"}
          /\ fault \in {"", "hang", "assert", "null_ic", "dead_is"}
          /\ want \in {"", "start", "pause"}
      BY <2>5 DEF FieldTypes
    <2> QED
      BY <2>4, <2>6, <2>7, <2>8, <2>9, Zenon DEF TypeOK
  <1> QED
    BY <1>1, InitTInv, NextTInv, PTL DEF Spec

=============================================================================
