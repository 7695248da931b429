------------------------------- MODULE Player -------------------------------
(***************************************************************************)
(* IjkMediaPlayer (ijkplayer.c): the state machine that the application's  *)
(* calls and the message loop share, on top of one Playback.               *)
(*                                                                         *)
(* The application calls ijkmp_* from one thread.  start, pause and seek   *)
(* only queue a request; ijkmp_get_msg, on the message loop's thread,      *)
(* carries it out later.  Both hold mp->mutex, so what they do is one step *)
(* as far as nothing outside the mutex can interfere: the message loop has *)
(* its message before it locks, ffp_start_from_l takes play_mutex halfway, *)
(* a call changes the message queue several times, stop is seen by the     *)
(* read thread before the queue is aborted, and ijkmp_shutdown does not    *)
(* take mp->mutex at all.                                                  *)
(*                                                                         *)
(* A fault (a failed assert, a dereference of ffp->is or is->ic when it is *)
(* NULL or freed, a removal that does not end) ends the program.           *)
(***************************************************************************)
EXTENDS Playback

CONSTANTS Calls,      \* the calls the application makes after preparing,
                      \* for each value of is->ic
          Documented  \* whether it makes them only in the states for which
                      \* ijkplayer.h lists them

CallNames == {"start", "pause", "seek", "stop", "prepare", "release"}

ASSUME CallsAssumption      ==
  Calls \in [{"null", "open"} \union Media -> SUBSET CallNames]
ASSUME DocumentedAssumption == Documented \in BOOLEAN

VARIABLES
  mp_state,
  restart,      \* mp->restart_from_beginning
  mp_seek_req,  \* mp->seek_req
  is,           \* ffp->is: "null", "open", or "freed"
  lpc, msg,     \* the message loop and the message it has
  apc,          \* the call the application is in, or where it is in release
  left,         \* the requests that call has still to remove from the queue
  fault,
  want,         \* the last of start and pause that was accepted, until a stop
  told          \* the application has got an ERROR

callingVars == <<apc, left>>
playerVars == <<mp_state, restart, mp_seek_req, is, lpc, msg, callingVars, fault,
                want, told>>
allVars == <<playbackVars, playerVars>>

States == {"IDLE", "INITIALIZED", "ASYNC_PREPARING", "PREPARED", "STARTED",
           "PAUSED", "COMPLETED", "STOPPED", "ERROR"}
Playable == {"PREPARED", "STARTED", "PAUSED", "COMPLETED"}

TypeOK ==
  /\ PlaybackTypeOK
  /\ mp_state \in States
  /\ restart \in BOOLEAN /\ mp_seek_req \in BOOLEAN
  /\ is \in {"null", "open", "freed"}
  /\ lpc \in {"none", "get", "handle", "inside", "end"}
  /\ msg \in {"", "PREPARED", "COMPLETED", "ERROR", "SEEK_COMPLETE",
              "REQ_START", "REQ_PAUSE", "REQ_SEEK"}
  /\ apc \in {"idle", "start", "pause", "seek", "stop", "stopping",
              "join", "freed", "released"}
  /\ left \in {<<>>, <<"REQ_START", "REQ_PAUSE">>, <<"REQ_PAUSE">>, <<"REQ_SEEK">>}
  /\ fault \in {"", "hang", "assert", "null_ic", "dead_is"}
  /\ want \in {"", "start", "pause"} /\ told \in BOOLEAN

Init ==
  /\ PlaybackInit
  /\ mp_state = "IDLE" /\ restart = FALSE /\ mp_seek_req = FALSE
  /\ is = "null" /\ lpc = "none" /\ msg = "" /\ apc = "idle" /\ left = <<>>
  /\ fault = "" /\ want = "" /\ told = FALSE

-----------------------------------------------------------------------------

\* ikjmp_chkst_start_l, _pause_l and _seek_l, and the tests of ijkmp_stop_l and
\* ijkmp_prepare_async_l: the states in which the code accepts a call.
Accepts(call) ==
  CASE call \in {"start", "pause"} -> Playable
    [] call = "seek"               -> Playable \union {"ASYNC_PREPARING"}
    [] call = "stop"               -> Playable \union {"ASYNC_PREPARING", "STOPPED"}
    [] call = "prepare"            -> {"INITIALIZED", "STOPPED"}
    [] call = "release"            -> States

\* The comments of ijkplayer.h on the states.
Lists(call) ==
  CASE call \in {"start", "seek"} -> Playable
    [] call = "pause"             -> Playable \ {"PREPARED"}
    [] call = "stop"              -> (Playable \ {"PREPARED"}) \union {"STOPPED"}
    [] call = "prepare"           -> {"INITIALIZED", "STOPPED"}
    [] call = "release"           -> States

Request(call) ==
  [start |-> "REQ_START", pause |-> "REQ_PAUSE", seek |-> "REQ_SEEK"][call]

\* The requests a call makes obsolete, in the order in which it removes them.
Obsolete(call) == IF call = "seek" THEN <<"REQ_SEEK">> ELSE <<"REQ_START", "REQ_PAUSE">>

\* The queue s without its i-th message.  A slip: it loses the one behind it.
UnlinkedNext(s, i) == [j \in 1 .. Len(s) - 1 |-> IF j <= i THEN s[j] ELSE s[j + 1]]
Unlinked(s, i) == [j \in 1 .. Len(s) - 1 |-> IF j < i THEN s[j] ELSE s[j + 1]]

\* msg_queue_remove.  The first message of the kind is unlinked; from it the loop
\* gets to the recycle list, and never to the rest of the queue.  If a node there is
\* of the same kind the loop does not end, with q->mutex and mp->mutex held.  Else
\* q->last_msg is the last node of that list; or, when the list was empty, the node
\* before the unlinked one, which is the last if that was (unless a message that is
\* not modelled was behind it).  If there is no such message q->last_msg is put right.
Remove(what) ==
  \/ q_abort /\ UNCHANGED <<queueVars, fault>>
  \/ /\ ~q_abort /\ \A i \in DOMAIN q : q[i] # what
     /\ astray' = FALSE /\ UNCHANGED <<q, lost, fault>>
  \/ /\ ~q_abort /\ UNCHANGED lost
     /\ \E i \in DOMAIN q :
          /\ q[i] = what /\ \A j \in 1 .. i - 1 : q[j] # what
          /\ q' = Unlinked(q, i)
          /\ astray' \in IF i = Len(q) THEN BOOLEAN ELSE {TRUE}
     /\ fault' \in {"", "hang"}

\* The message loop holds mp->mutex while it carries out a request, the application
\* while it is in one of these calls.  A slip: nobody locks.
LoopInside == lpc = "inside"
Calling == apc \in {"start", "pause", "seek", "stop", "stopping"}
Unguarded == TRUE
MutexFree == ~LoopInside /\ ~Calling

-----------------------------------------------------------------------------
(* The application.                                                        *)

SetDataSource ==
  /\ apc = "idle" /\ mp_state = "IDLE"
  /\ mp_state' = "INITIALIZED"
  /\ UNCHANGED <<playbackVars, restart, mp_seek_req, is, lpc, msg, callingVars, fault, want,
                 told>>

\* ijkmp_prepare_async_l; stream_open may fail.
PrepareAsync ==
  /\ apc = "idle" /\ mp_state = "INITIALIZED"
  /\ q_abort' = FALSE
  /\ lpc' = "get"
  /\ \/ /\ StreamOpen
        /\ is' = "open"
        /\ mp_state' = "ASYNC_PREPARING"
     \/ /\ mp_state' = "ERROR"
        /\ UNCHANGED <<rpc, vpc, is>>
  /\ UNCHANGED <<queueVars, playVars, eof, completed, prepared, error, ic, abort_request,
                 seek_req, packetVars, decoderVars, frame, callVars,
                 restart, mp_seek_req, msg, callingVars, fault, want, told>>

\* After a stop ffp->is is still there, which ffp_prepare_async_l and
\* stream_open assert it is not.
PrepareAgain ==
  /\ "prepare" \in Calls[ic]
  /\ apc = "idle" /\ MutexFree
  /\ mp_state \in Accepts("prepare") /\ is = "open"
  /\ fault' = "assert"
  /\ UNCHANGED <<playbackVars, mp_state, restart, mp_seek_req, is, lpc, msg, callingVars, want,
                 told>>

MayCall(call) ==
  /\ call \in Calls[ic]
  /\ calls < MaxCalls
  /\ apc = "idle" /\ MutexFree
  /\ Documented => mp_state \in Lists(call)
  /\ mp_state \in Accepts(call)
  /\ calls' = calls + 1

\* ijkmp_start_l, ijkmp_pause_l, ijkmp_seek_to_l and ijkmp_stop_l: the state is
\* tested, ...
Begin(call) ==
  /\ MayCall(call)
  /\ apc' = call /\ left' = Obsolete(call)
  /\ mp_seek_req' = (mp_seek_req \/ call = "seek")
  /\ want' = CASE call = "seek" -> want [] call = "stop" -> "" [] OTHER -> call
  /\ UNCHANGED <<msgVars, playVars, readVars, abort_request, seek_req, packetVars,
                 decoderVars, frame, vpc, from, mp_state, restart, is, lpc, msg, fault, told>>

Start == Begin("start")
Pause == Begin("pause")
SeekTo == Begin("seek")
Stop == Begin("stop")

\* ... the obsolete requests are removed, each in a lock section of its own, ...
RemoveNext ==
  /\ left # <<>>
  /\ Remove(Head(left))
  /\ left' = Tail(left)
  /\ UNCHANGED <<q_abort, playVars, readVars, abort_request, seek_req, packetVars, decoderVars,
                 frame, vpc, callVars, mp_state, restart, mp_seek_req, is, lpc, msg, apc, want,
                 told>>

\* ... and the request is put, ...
PutRequest ==
  /\ apc \in {"start", "pause", "seek"} /\ left = <<>>
  /\ Notify(Request(apc))
  /\ apc' = "idle"
  /\ UNCHANGED <<q_abort, playVars, readVars, abort_request, seek_req, packetVars, decoderVars,
                 frame, vpc, callVars, mp_state, restart, mp_seek_req, is, lpc, msg, left, fault,
                 want, told>>

\* ... or, by ffp_stop_l, is->abort_request set and then the queue aborted.
StopBegin ==
  /\ apc = "stop" /\ left = <<>>
  /\ abort_request' = TRUE
  /\ apc' = "stopping"
  /\ UNCHANGED <<msgVars, playVars, readVars, seek_req, packetVars, decoderVars, frame, vpc,
                 callVars, mp_state, restart, mp_seek_req, is, lpc, msg, left, fault, want,
                 told>>

StopEnd ==
  /\ apc = "stopping"
  /\ q_abort' = TRUE
  /\ mp_state' = "STOPPED"
  /\ apc' = "idle"
  /\ UNCHANGED <<queueVars, playVars, readVars, abort_request, seek_req, packetVars,
                 decoderVars, frame, vpc, callVars, restart, mp_seek_req, is, lpc, msg, left,
                 fault, want, told>>

\* ijkmp_shutdown: ffp_stop_l, and stream_close aborts the packet queue.  The
\* caller does not hold mp->mutex.
Release ==
  /\ "release" \in Calls[ic]
  /\ apc = "idle"
  /\ abort_request' = (is = "open")
  /\ q_abort' = TRUE
  /\ pq_abort' = (pq_abort \/ is = "open")
  /\ apc' = IF is = "open" THEN "join" ELSE "released"
  /\ want' = ""
  /\ UNCHANGED <<queueVars, playVars, readVars, seek_req, packets, serial, decoderVars, frame,
                 vpc, callVars, mp_state, restart, mp_seek_req, is, lpc, msg, left, fault, told>>

\* stream_close joins the two threads and frees the VideoState ...
ReleaseFree ==
  /\ apc = "join"
  /\ rpc = "end" /\ vpc = "end"
  /\ is' = "freed"
  /\ apc' = "freed"
  /\ UNCHANGED <<playbackVars, mp_state, restart, mp_seek_req, lpc, msg, left, fault, want, told>>

\* ... and only then ffp_wait_stop_l clears ffp->is.
ReleaseClear ==
  /\ apc = "freed"
  /\ is' = "null"
  /\ apc' = "released"
  /\ UNCHANGED <<playbackVars, mp_state, restart, mp_seek_req, lpc, msg, left, fault, want, told>>

Application == SetDataSource \/ PrepareAsync \/ PrepareAgain \/ Start \/ Pause \/ SeekTo
               \/ Stop \/ Release
InCall == RemoveNext \/ PutRequest \/ StopBegin \/ StopEnd \/ ReleaseFree \/ ReleaseClear

\* A message that is not modelled (the video size, buffering) is linked behind
\* q->last_msg, and those behind that are lost.
PutOther ==
  /\ ~q_abort /\ astray
  /\ \E n \in 0 .. Len(q) - 1 : q' = SubSeq(q, 1, n)
  /\ lost' = TRUE /\ astray' = FALSE
  /\ UNCHANGED <<q_abort, playVars, readVars, abort_request, seek_req, packetVars, decoderVars,
                 frame, vpc, callVars, playerVars>>

-----------------------------------------------------------------------------
(* The message loop: ijkmp_get_msg, called again for every message.        *)

LoopEnd ==
  /\ lpc = "get" /\ q_abort
  /\ lpc' = "end"
  /\ UNCHANGED <<playbackVars, mp_state, restart, mp_seek_req, is, msg, callingVars, fault, want,
                 told>>

\* An ERROR is only passed on to the application.
LoopGet ==
  /\ lpc = "get" /\ ~q_abort /\ q # <<>>
  /\ msg' = Head(q)
  /\ q' = Tail(q)
  /\ lpc' = IF Head(q) = "ERROR" THEN "get" ELSE "handle"
  /\ told' = (told \/ Head(q) = "ERROR")
  /\ UNCHANGED <<q_abort, astray, lost, playVars, readVars, abort_request, seek_req, packetVars,
                 decoderVars, frame, vpc, callVars, mp_state, restart, mp_seek_req,
                 is, callingVars, fault, want>>

Handling(what) == lpc = "handle" /\ msg = what /\ MutexFree

HandlePrepared ==
  /\ Handling("PREPARED")
  /\ mp_state' = IF mp_state = "ASYNC_PREPARING" THEN "PREPARED" ELSE mp_state
  /\ lpc' = "get"
  /\ UNCHANGED <<playbackVars, restart, mp_seek_req, is, msg, callingVars, fault, want, told>>

\* Whatever the state is by now.
HandleCompleted ==
  /\ Handling("COMPLETED")
  /\ restart' = TRUE
  /\ mp_state' = "COMPLETED"
  /\ lpc' = "get"
  /\ UNCHANGED <<playbackVars, mp_seek_req, is, msg, callingVars, fault, want, told>>

HandleSeekCompleteOnly ==   \* a slip: the end of the seek is not noted
  /\ Handling("SEEK_COMPLETE")
  /\ lpc' = "get"
  /\ UNCHANGED <<playbackVars, mp_state, restart, mp_seek_req, is, msg, callingVars, fault, want,
                 told>>

HandleSeekComplete ==
  /\ Handling("SEEK_COMPLETE")
  /\ mp_seek_req' = FALSE
  /\ lpc' = "get"
  /\ UNCHANGED <<playbackVars, mp_state, restart, is, msg, callingVars, fault, want, told>>

Requested == [REQ_START |-> "start", REQ_PAUSE |-> "pause", REQ_SEEK |-> "seek"]

\* The state is tested again, and ffp->is is read; without one the call fails.
HandleRequest ==
  /\ msg \in DOMAIN Requested /\ Handling(msg)
  /\ IF mp_state \in Accepts(Requested[msg])
       THEN IF is = "null"
              THEN /\ lpc' = "get"
                   /\ restart' = (restart /\ ~(msg = "REQ_START" /\ mp_state = "COMPLETED"))
              ELSE lpc' = "inside" /\ UNCHANGED restart
       ELSE lpc' = "get" /\ UNCHANGED restart
  /\ UNCHANGED <<playbackVars, mp_state, mp_seek_req, is, msg, callingVars, fault, want, told>>

\* The fields of the VideoState are used; a seek reads is->ic->start_time.
Seeking == msg = "REQ_SEEK" \/ from = "seek"
Crash ==
  /\ LoopInside
  /\ is # "open" \/ (Seeking /\ ic = "null")
  /\ fault' = IF is # "open" THEN "dead_is" ELSE "null_ic"
  /\ UNCHANGED <<playbackVars, mp_state, restart, mp_seek_req, is, lpc, msg, callingVars, want,
                 told>>

Inside(what) == LoopInside /\ msg = what /\ is = "open"

DoStart ==
  /\ Inside("REQ_START") /\ from = ""
  /\ ~(mp_state = "COMPLETED" /\ restart)
  /\ CallStart
  /\ mp_state' = "STARTED"
  /\ restart' = (restart /\ mp_state # "COMPLETED")
  /\ lpc' = "get"
  /\ UNCHANGED <<calls, mp_seek_req, is, msg, callingVars, fault, want, told>>

DoStartFromBeginning ==
  /\ Inside("REQ_START") /\ from = ""
  /\ mp_state = "COMPLETED" /\ restart
  /\ CallStartFrom
  /\ UNCHANGED <<calls, playerVars>>

DoStartFromBuffering ==
  /\ Inside("REQ_START")
  /\ StartFromBuffering
  /\ UNCHANGED playerVars

DoStartFromSeek ==
  /\ Inside("REQ_START") /\ ic # "null"
  /\ StartFromSeek
  /\ mp_state' = "STARTED" /\ restart' = FALSE
  /\ lpc' = "get"
  /\ UNCHANGED <<mp_seek_req, is, msg, callingVars, fault, want, told>>

DoPause ==
  /\ Inside("REQ_PAUSE")
  /\ CallPause
  /\ mp_state' = "PAUSED"
  /\ lpc' = "get"
  /\ UNCHANGED <<calls, restart, mp_seek_req, is, msg, callingVars, fault, want, told>>

DoSeek ==
  /\ Inside("REQ_SEEK") /\ ic # "null"
  /\ CallSeek
  /\ restart' = FALSE
  /\ lpc' = "get"
  /\ UNCHANGED <<calls, mp_state, mp_seek_req, is, msg, callingVars, fault, want, told>>

MessageLoop ==
  \/ LoopEnd \/ LoopGet \/ HandlePrepared \/ HandleCompleted \/ HandleSeekComplete
  \/ HandleRequest \/ Crash \/ DoStart \/ DoStartFromBeginning
  \/ DoStartFromBuffering \/ DoStartFromSeek \/ DoPause \/ DoSeek

-----------------------------------------------------------------------------

\* The application makes no call, and the player waits for one.
Resting ==
  /\ \/ fault # "" \/ apc = "released" \/ mp_state = "ERROR" \/ Waiting
     \/ rpc = "end"
  /\ UNCHANGED allVars

Next ==
  \/ /\ fault = ""
     /\ \/ Threads /\ UNCHANGED playerVars
        \/ Application \/ InCall \/ MessageLoop \/ PutOther
  \/ Resting

\* The threads and the message loop are scheduled; what the application has
\* begun it finishes.  It need not make any call.
Fairness ==
  /\ WF_allVars(fault = "" /\ ReadThread /\ UNCHANGED playerVars)
  /\ SF_allVars(fault = "" /\ (ReadPacket \/ ReadEnd \/ ReadError) /\ UNCHANGED playerVars)
  /\ WF_allVars(fault = "" /\ Decoder /\ UNCHANGED playerVars)
  /\ SF_allVars(fault = "" /\ DecoderDecode /\ dpc' = "push" /\ UNCHANGED playerVars)
  /\ WF_allVars(fault = "" /\ Renderer /\ UNCHANGED playerVars)
  /\ SF_allVars(fault = "" /\ RenderShow /\ UNCHANGED playerVars)
  /\ WF_allVars(fault = "" /\ MessageLoop)
  /\ WF_allVars(fault = "" /\ InCall)

Spec == Init /\ [][Next]_allVars /\ Fairness

-----------------------------------------------------------------------------
(* Properties. *)

\* No assert fails and no NULL or freed VideoState or AVFormatContext is used.  (That
\* a removal may not end is known, and not what this is about.)
NoFault == fault \in {"", "hang"}

\* A player that reports PAUSED has been asked to pause: no start that was left
\* for the read thread to carry out, with a seek, undoes it.
PausedIsAsked == mp_state = "PAUSED" => play.pause_req

\* Nothing is on its way from the application to the message loop.
Quiet == q = <<>> /\ lpc = "get" /\ apc = "idle"

\* A start that was accepted last, and no stop since, is not undone by an older
\* pause, although a removal takes out the first request of its kind only and the
\* read thread puts a start of its own; and it is lost in no other way than by the
\* tail pointer that a removal leaves wrong.
StartWins == Quiet /\ want = "start" /\ ~lost => mp_state \notin {"PREPARED", "PAUSED"}

\* A player that reports STARTED does not keep a request to pause: completion,
\* a restart from the beginning and a pending seek may cross each other.  (If the
\* COMPLETED of a player that has paused itself is lost, it does.)
StartedRuns ==
  mp_state = "STARTED" /\ play.pause_req ~>
    \/ ~play.pause_req \/ mp_state # "STARTED"
    \/ abort_request \/ told \/ lost \/ fault # ""

\* Every seek that was accepted is acknowledged, even when it is dropped because
\* another is pending: the position reported is not frozen, unless a removal has
\* left the tail pointer wrong and a message was lost.
SeekAcknowledged == mp_seek_req ~> ~mp_seek_req \/ abort_request \/ lost \/ fault # ""

\* ijkmp_shutdown returns, wherever the threads are.
ReleaseReturns == apc = "join" ~> apc = "released" \/ fault # ""

=============================================================================
