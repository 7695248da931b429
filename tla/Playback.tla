------------------------------ MODULE Playback ------------------------------
(***************************************************************************)
(* The threads of one playback and the state they share (VideoState and    *)
(* the control fields of FFPlayer, ff_ffplay.c): the read thread, which    *)
(* opens the media, seeks, reads packets, announces completion; a decoder; *)
(* a renderer (the video refresh thread, or the audio callback); and the   *)
(* calls ffp_start_l, ffp_pause_l, ffp_seek_to_l, ffp_start_from_l and     *)
(* ffp_stop_l that control them.                                           *)
(*                                                                         *)
(* One stream is modelled.  Its packets are of three kinds and carry no    *)
(* payload; its serial, which a seek increments, is kept.  play holds the  *)
(* four fields that play_mutex protects; every section under it is one     *)
(* step.  The message queue is a sequence (MessageQueue has its lists); of *)
(* msg_queue_remove, which Player calls, it shows what may become of the   *)
(* tail pointer (astray).  Not all messages are in it: of the buffering    *)
(* messages announced is the last one put.                                 *)
(*                                                                         *)
(* What the network and the demuxer answer is nondeterministic.  Timed     *)
(* waits (10 ms, 100 ms, 1 s) only delay the next iteration of their loop. *)
(***************************************************************************)
EXTENDS Naturals, Sequences

CONSTANTS Media,     \* what the stream may be: "video", "audio"
          Source,    \* what reading from the source of each may result in
          Capacity,  \* the packets that fill the packet queue
          MaxCalls   \* bound on the control calls

ASSUME MediaAssumption    == Media \subseteq {"video", "audio"}
ASSUME SourceAssumption   ==
  Source \in [Media -> SUBSET {"packet", "end", "error", "again"}]
ASSUME CapacityAssumption == Capacity \in Nat \ {0}
ASSUME MaxCallsAssumption == MaxCalls \in Nat

VARIABLES
  q, q_abort,       \* ffp->msg_queue and its abort_request
  astray,           \* q->last_msg may not be the last node of the queue
  lost,             \* (history) for that reason, a message was not delivered
  announced,        \* whether the last buffering message was BUFFERING_START
  auto_start, prepared, error,  \* of FFPlayer; error: a read has failed
  play,             \* pause_req, buffering_on, step, paused of VideoState
  abort_request, seek_req,      \* of VideoState
  ic,               \* is->ic: "null", "open", then what the stream is
  rpc, eof, completed,          \* the read thread and its locals
  packets, serial, pq_abort,    \* the packet queue
  dpc, pkt_serial, finished,    \* the decoder
  frame,            \* the serial of the frame in the frame queue, 0 if none
  vpc,              \* the renderer
  from,             \* how far ffp_start_from_l is
  calls             \* the number of calls made

queueVars == <<q, astray, lost>>
msgVars  == <<queueVars, q_abort>>
playVars == <<play, announced, auto_start>>
readVars == <<rpc, eof, completed, prepared, error, ic>>
packetVars == <<packets, serial, pq_abort>>
decoderVars == <<dpc, pkt_serial, finished>>
callVars == <<from, calls>>
playbackVars == <<msgVars, playVars, readVars, abort_request, seek_req,
                  packetVars, decoderVars, frame, vpc, callVars>>

ReadStates == {"none", "open", "probe", "auto_start", "auto_clear", "loop",
  "seek", "flushed", "seeked", "seek_play", "seek_complete", "seek_buffering",
  "queue", "full", "complete", "complete_pause", "complete_put", "read", "check", "read_failed",
  "cleanup", "join", "end"}

PlaybackTypeOK ==
  /\ q \in Seq({"PREPARED", "COMPLETED", "ERROR", "SEEK_COMPLETE",
                "REQ_START", "REQ_PAUSE", "REQ_SEEK"})
  /\ play \in [pause_req : BOOLEAN, buffering_on : BOOLEAN,
               step : BOOLEAN, paused : BOOLEAN]
  /\ {q_abort, announced, auto_start, prepared, error, abort_request, seek_req,
      eof, completed, pq_abort, astray, lost} \subseteq BOOLEAN
  /\ ic \in {"null", "open", "video", "audio"}
  /\ rpc \in ReadStates
  /\ packets \in Seq({"flush", "data", "null"})
  /\ {serial, pkt_serial, finished, frame} \subseteq 0 .. MaxCalls + 1
  /\ dpc \in {"none", "get", "starving", "blocked", "data", "null", "push", "end"}
  /\ vpc \in {"none", "loop", "refresh", "shown", "end"}
  /\ from \in {"", "buffering", "seek"}
  /\ calls \in 0 .. MaxCalls

PlaybackInit ==
  /\ q = <<>> /\ q_abort = TRUE /\ astray = FALSE /\ lost = FALSE
  /\ announced = FALSE
  /\ auto_start = FALSE /\ prepared = FALSE /\ error = FALSE
  /\ play = [pause_req |-> FALSE, buffering_on |-> FALSE,
             step |-> FALSE, paused |-> FALSE]
  /\ abort_request = FALSE /\ seek_req = FALSE /\ ic = "null"
  /\ rpc = "none" /\ eof = FALSE /\ completed = FALSE
  /\ packets = <<>> /\ serial = 0 /\ pq_abort = TRUE
  /\ dpc = "none" /\ pkt_serial = 0 /\ finished = 0
  /\ frame = 0 /\ vpc = "none"
  /\ from = "" /\ calls = 0

-----------------------------------------------------------------------------
(* The operations the threads share.                                       *)

\* ffp_notify_msg*: an aborted queue refuses the message.  It is linked behind
\* q->last_msg: when that is a node on the recycle list, the message is never
\* delivered; when it is a node in the middle of the queue, those behind it are not.
\* (All n are kept when only messages that are not modelled are behind it, and when
\* the queue has been empty meanwhile, which clears q->last_msg.)
Notify(what) ==
  \/ q_abort /\ UNCHANGED queueVars
  \/ ~q_abort /\ ~astray /\ q' = Append(q, what) /\ UNCHANGED <<astray, lost>>
  \/ ~q_abort /\ astray /\ lost' = TRUE /\ UNCHANGED <<q, astray>>
  \/ /\ ~q_abort /\ astray /\ astray' = FALSE
     /\ \E n \in 0 .. Len(q) : /\ q' = Append(SubSeq(q, 1, n), what)
                              /\ lost' = (lost \/ n # Len(q))

\* stream_update_pause_l
UpdatePause(p) ==
  [p EXCEPT !.paused = ~p.step /\ (p.pause_req \/ p.buffering_on)]

\* ffp_toggle_buffering.  Two slips: the end of buffering is not announced;
\* stream_update_pause_l is not called.
ToggleBufferingSilent(on) ==
  IF on # play.buffering_on
    THEN /\ play' = UpdatePause([play EXCEPT !.buffering_on = on])
         /\ announced' = TRUE
    ELSE UNCHANGED <<play, announced>>
ToggleBufferingOnly(on) ==
  /\ play' = [play EXCEPT !.buffering_on = on]
  /\ announced' = on
ToggleBuffering(on) ==
  IF on # play.buffering_on
    THEN /\ play' = UpdatePause([play EXCEPT !.buffering_on = on])
         /\ announced' = on
    ELSE UNCHANGED <<play, announced>>

\* toggle_pause: step is cleared after it has been used.  A slip: a request to
\* start that a seek was to carry out is kept when the player is paused.
TogglePauseKeeps(on) ==
  /\ play' = [UpdatePause([play EXCEPT !.pause_req = on]) EXCEPT !.step = FALSE]
  /\ auto_start' = (auto_start \/ ~on)
TogglePause(on) ==
  /\ play' = [UpdatePause([play EXCEPT !.pause_req = on]) EXCEPT !.step = FALSE]
  /\ auto_start' = ~on

\* step_to_next_frame_l
StepToNextFrame(p) == [p EXCEPT !.paused = FALSE, !.step = TRUE]

\* stream_seek: a seek that is pending is not replaced.
StreamSeek == seek_req' = TRUE

\* stream_open: the two threads start.
StreamOpen ==
  /\ rpc' = "open"
  /\ vpc' = "loop"

-----------------------------------------------------------------------------
(* The read thread.                                                        *)

ReadOpen ==
  /\ rpc = "open"
  /\ \/ rpc' = "probe" /\ ic' = "open"
     \/ rpc' = "cleanup" /\ UNCHANGED ic
  /\ UNCHANGED <<msgVars, playVars, eof, completed, prepared, error, abort_request,
                 seek_req, packetVars, decoderVars, frame, vpc, callVars>>

\* avformat_find_stream_info and stream_component_open: packet_queue_start clears
\* abort_request, even if stream_close has set it, and puts the first flush packet;
\* the decoder starts.
ReadProbe ==
  /\ rpc = "probe"
  /\ \/ /\ packets' = <<"flush">> /\ serial' = 1 /\ pq_abort' = FALSE /\ dpc' = "get"
        /\ ic' \in Media
        /\ prepared' = TRUE
        /\ Notify("PREPARED")
        /\ rpc' = "auto_start"
     \/ /\ rpc' = "cleanup"
        /\ UNCHANGED <<queueVars, packetVars, dpc, prepared, ic>>
  /\ UNCHANGED <<q_abort, playVars, eof, completed, error, abort_request, seek_req,
                 pkt_serial, finished, frame, vpc, callVars>>

\* ffp->auto_start is tested, REQ_START put, and the flag then cleared, with
\* no lock: a start or a pause may be handled in between.
ReadAutoStart ==
  /\ rpc = "auto_start"
  /\ IF auto_start
       THEN Notify("REQ_START") /\ rpc' = "auto_clear"
       ELSE rpc' = "loop" /\ UNCHANGED queueVars
  /\ UNCHANGED <<q_abort, playVars, eof, completed, prepared, error, ic, abort_request,
                 seek_req, packetVars, decoderVars, frame, vpc, callVars>>

ReadAutoClear ==
  /\ rpc = "auto_clear"
  /\ auto_start' = FALSE
  /\ rpc' = "loop"
  /\ UNCHANGED <<msgVars, play, announced, eof, completed, prepared, error, ic,
                 abort_request, seek_req, packetVars, decoderVars, frame, vpc, callVars>>

\* The head of the loop: abort, then a seek, then the packet queue.
ReadLoop ==
  /\ rpc = "loop"
  /\ \/ /\ abort_request
        /\ rpc' = "cleanup"
        /\ UNCHANGED <<play, announced>>
     \/ /\ ~abort_request /\ seek_req
        /\ ToggleBuffering(TRUE)
        /\ rpc' = "seek"
     \/ /\ ~abort_request /\ ~seek_req
        /\ rpc' = "queue"
        /\ UNCHANGED <<play, announced>>
  /\ UNCHANGED <<msgVars, auto_start, eof, completed, prepared, error, ic, abort_request,
                 seek_req, packetVars, decoderVars, frame, vpc, callVars>>

\* The flush packet increments the serial.  A slip: so does the flush.
SerialTwice == serial + 2
NextSerial == serial + 1

\* avformat_seek_file; when it succeeds the packets are flushed.
ReadSeek ==
  /\ rpc = "seek"
  /\ \/ packets' = <<>> /\ rpc' = "flushed"
     \/ UNCHANGED packets /\ rpc' = "seeked"
  /\ UNCHANGED <<msgVars, playVars, eof, completed, prepared, error, ic, abort_request,
                 seek_req, serial, pq_abort, decoderVars, frame, vpc, callVars>>

\* In a lock section of its own, the flush packet is put, unless the queue is
\* aborted by now.
ReadSeekFlush ==
  /\ rpc = "flushed"
  /\ rpc' = "seeked"
  /\ IF pq_abort THEN UNCHANGED <<packets, serial>>
     ELSE packets' = Append(packets, "flush") /\ serial' = NextSerial
  /\ UNCHANGED <<msgVars, playVars, eof, completed, prepared, error, ic, abort_request,
                 seek_req, pq_abort, decoderVars, frame, vpc, callVars>>

\* What a seek makes of a player to be started.  A slip: pause_req is kept.
ResumedPaused == UpdatePause([play EXCEPT !.buffering_on = TRUE])
Resumed == UpdatePause([play EXCEPT !.pause_req = FALSE, !.buffering_on = TRUE])

\* The request is cleared, whatever was asked since it was read.
ReadSeeked ==
  /\ rpc = "seeked"
  /\ seek_req' = FALSE /\ eof' = FALSE /\ completed' = FALSE
  /\ rpc' = "seek_play"
  /\ UNCHANGED <<msgVars, playVars, prepared, error, ic, abort_request,
                 packetVars, decoderVars, frame, vpc, callVars>>

\* A player to be started is, without a message; a paused one shows one frame.
ReadSeekPlay ==
  /\ rpc = "seek_play"
  /\ LET started == IF auto_start THEN Resumed ELSE play
     IN play' = IF started.pause_req THEN StepToNextFrame(started) ELSE started
  /\ auto_start' = FALSE
  /\ rpc' = "seek_complete"
  /\ UNCHANGED <<msgVars, announced, eof, completed, prepared, error, ic, abort_request,
                 seek_req, packetVars, decoderVars, frame, vpc, callVars>>

ReadSeekComplete ==
  /\ rpc = "seek_complete"
  /\ Notify("SEEK_COMPLETE")
  /\ rpc' = "seek_buffering"
  /\ UNCHANGED <<q_abort, playVars, eof, completed, prepared, error, ic, abort_request,
                 seek_req, packetVars, decoderVars, frame, vpc, callVars>>

ReadSeekBuffering ==
  /\ rpc = "seek_buffering"
  /\ ToggleBuffering(TRUE)
  /\ rpc' = "queue"
  /\ UNCHANGED <<msgVars, auto_start, eof, completed, prepared, error, ic, abort_request,
                 seek_req, packetVars, decoderVars, frame, vpc, callVars>>

Full == ~seek_req /\ (Len(packets) >= Capacity \/ pq_abort)

\* The decoder has met the end of the current serial, all its frames are shown.
\* A slip: the frames are not looked at.
DrainedButFrames == (~play.paused \/ completed) /\ finished = serial
Drained == (~play.paused \/ completed) /\ finished = serial /\ frame = 0

ReadFull ==
  /\ rpc = "queue" /\ Full
  /\ rpc' = IF eof THEN "loop" ELSE "full"
  /\ UNCHANGED <<msgVars, playVars, eof, completed, prepared, error, ic, abort_request,
                 seek_req, packetVars, decoderVars, frame, vpc, callVars>>

\* By now the decoder may have emptied the queue, and begun to buffer.
ReadFullBuffering ==
  /\ rpc = "full"
  /\ ToggleBuffering(FALSE)
  /\ rpc' = "loop"
  /\ UNCHANGED <<msgVars, auto_start, eof, completed, prepared, error, ic, abort_request,
                 seek_req, packetVars, decoderVars, frame, vpc, callVars>>

\* Completion announced already: wait for an abort or a seek.
ReadCompleted ==
  /\ rpc = "queue" /\ ~Full /\ Drained /\ completed
  /\ \/ abort_request /\ rpc' = "read"
     \/ ~abort_request /\ seek_req /\ rpc' = "loop"
  /\ UNCHANGED <<msgVars, playVars, eof, completed, prepared, error, ic, abort_request,
                 seek_req, packetVars, decoderVars, frame, vpc, callVars>>

\* The end, to be announced; ffp->loop is 1 and autoexit is 0.
ReadComplete ==
  /\ rpc = "queue" /\ ~Full /\ Drained /\ ~completed
  /\ completed' = TRUE
  /\ auto_start' = FALSE
  /\ rpc' = "complete"
  /\ UNCHANGED <<msgVars, play, announced, eof, prepared, error, ic, abort_request,
                 seek_req, packetVars, decoderVars, frame, vpc, callVars>>

ReadCompleteBuffering ==
  /\ rpc = "complete"
  /\ ToggleBuffering(FALSE)
  /\ rpc' = "complete_pause"
  /\ UNCHANGED <<msgVars, auto_start, eof, completed, prepared, error, ic, abort_request,
                 seek_req, packetVars, decoderVars, frame, vpc, callVars>>

ReadCompletePause ==
  /\ rpc = "complete_pause"
  /\ TogglePause(TRUE)
  /\ rpc' = "complete_put"
  /\ UNCHANGED <<msgVars, announced, eof, completed, prepared, error, ic, abort_request,
                 seek_req, packetVars, decoderVars, frame, vpc, callVars>>

ReadCompletePut ==
  /\ rpc = "complete_put"
  /\ Notify(IF error THEN "ERROR" ELSE "COMPLETED")
  /\ rpc' = "read"
  /\ UNCHANGED <<q_abort, playVars, eof, completed, prepared, error, ic, abort_request,
                 seek_req, packetVars, decoderVars, frame, vpc, callVars>>

ReadMore ==
  /\ rpc = "queue" /\ ~Full /\ ~Drained
  /\ rpc' = "read"
  /\ UNCHANGED <<msgVars, playVars, eof, completed, prepared, error, ic, abort_request,
                 seek_req, packetVars, decoderVars, frame, vpc, callVars>>

\* av_read_frame is called, and its answer is one of those of the source.
Answers(answer) == rpc = "read" /\ answer \in Source[ic]

\* packet_queue_put: an aborted queue drops the packet.
ReadPacket ==
  /\ Answers("packet")
  /\ eof' = FALSE
  /\ packets' = IF pq_abort THEN packets ELSE Append(packets, "data")
  /\ rpc' = "check"
  /\ UNCHANGED <<msgVars, playVars, completed, prepared, error, ic, abort_request,
                 seek_req, serial, pq_abort, decoderVars, frame, vpc, callVars>>

\* ffp_check_buffering_l, now and then: the high water mark may be reached.
ReadCheck ==
  /\ rpc = "check"
  /\ \/ ToggleBuffering(FALSE)
     \/ UNCHANGED <<play, announced>>
  /\ rpc' = "loop"
  /\ UNCHANGED <<msgVars, auto_start, eof, completed, prepared, error, ic, abort_request,
                 seek_req, packetVars, decoderVars, frame, vpc, callVars>>

\* av_read_frame fails: at the end of the file, with an I/O error, or with
\* nothing to read for now.  A null packet makes the decoder finish.
ReadFails(atEof, ioError) ==
  LET nulls == (IF atEof /\ ~eof THEN <<"null">> ELSE <<>>)
                 \o (IF ioError THEN <<"null">> ELSE <<>>)
  IN /\ packets' = IF pq_abort THEN packets ELSE packets \o nulls
     /\ eof' = (eof \/ atEof \/ ioError)
     /\ error' = ioError
     /\ rpc' = "read_failed"
     /\ UNCHANGED <<msgVars, playVars, completed, prepared, ic, abort_request,
                    seek_req, serial, pq_abort, decoderVars, frame, vpc, callVars>>

ReadEnd   == Answers("end") /\ ReadFails(TRUE, FALSE)
ReadError == Answers("error") /\ \E atEof \in BOOLEAN : ReadFails(atEof, TRUE)
ReadAgain == Answers("again") /\ ReadFails(FALSE, FALSE)

ReadFailedOnly ==   \* a slip: the end of the file does not end buffering
  /\ rpc = "read_failed"
  /\ rpc' = "loop"
  /\ UNCHANGED <<msgVars, playVars, eof, completed, prepared, error, ic, abort_request,
                 seek_req, packetVars, decoderVars, frame, vpc, callVars>>

ReadFailed ==
  /\ rpc = "read_failed"
  /\ IF eof THEN ToggleBuffering(FALSE) ELSE UNCHANGED <<play, announced>>
  /\ rpc' = "loop"
  /\ UNCHANGED <<msgVars, auto_start, eof, completed, prepared, error, ic, abort_request,
                 seek_req, packetVars, decoderVars, frame, vpc, callVars>>

\* stream_component_close aborts the packet queue, then joins the decoder.
ReadCleanup ==
  /\ rpc = "cleanup"
  /\ pq_abort' = TRUE
  /\ rpc' = "join"
  /\ UNCHANGED <<msgVars, playVars, eof, completed, prepared, error, ic, abort_request,
                 seek_req, packets, serial, decoderVars, frame, vpc, callVars>>

\* The audio output is closed with its stream and is->ic cleared; an error is
\* reported if the media never got prepared or if nobody asked to stop.
ReadJoin ==
  /\ rpc = "join"
  /\ dpc = "none" \/ (dpc = "end" /\ (ic # "audio" \/ vpc = "end"))
  /\ ic' = "null"
  /\ IF ~prepared \/ ~abort_request THEN Notify("ERROR") ELSE UNCHANGED queueVars
  /\ rpc' = "end"
  /\ UNCHANGED <<q_abort, playVars, eof, completed, prepared, error, abort_request,
                 seek_req, packetVars, decoderVars, frame, vpc, callVars>>

ReadThread ==
  \/ ReadOpen \/ ReadProbe \/ ReadAutoStart \/ ReadAutoClear \/ ReadLoop
  \/ ReadSeek \/ ReadSeekFlush \/ ReadSeeked \/ ReadSeekPlay \/ ReadSeekComplete
  \/ ReadSeekBuffering \/ ReadFull \/ ReadFullBuffering \/ ReadCompleted
  \/ ReadComplete \/ ReadCompleteBuffering \/ ReadCompletePause
  \/ ReadCompletePut \/ ReadMore \/ ReadPacket \/ ReadCheck
  \/ ReadEnd \/ ReadError \/ ReadAgain \/ ReadFailed \/ ReadCleanup \/ ReadJoin

-----------------------------------------------------------------------------
(* The decoder: decoder_decode_frame and its thread.                       *)

\* A packet is taken.  After the end of a serial the packets of that serial
\* are thrown away; a flush packet starts the next one.
DecoderGet ==
  /\ dpc \in {"get", "blocked"}
  /\ packets # <<>> /\ ~pq_abort
  /\ packets' = Tail(packets)
  /\ pkt_serial' = serial
  /\ IF Head(packets) = "flush"
       THEN finished' = 0 /\ dpc' = "get"
       ELSE /\ dpc' = IF finished = serial THEN "get" ELSE Head(packets)
            /\ UNCHANGED finished
  /\ UNCHANGED <<msgVars, playVars, readVars, abort_request, seek_req,
                 serial, pq_abort, frame, vpc, callVars>>

\* packet_queue_get_or_buffering finds no packet; it starts buffering unless
\* the decoder has met the end of the stream, and then blocks.
DecoderEmpty ==
  /\ dpc = "get"
  /\ packets = <<>> /\ ~pq_abort
  /\ dpc' = IF finished = 0 THEN "starving" ELSE "blocked"
  /\ UNCHANGED <<msgVars, playVars, readVars, abort_request, seek_req,
                 packetVars, pkt_serial, finished, frame, vpc, callVars>>

DecoderStarve ==
  /\ dpc = "starving"
  /\ ToggleBuffering(TRUE)
  /\ dpc' = "blocked"
  /\ UNCHANGED <<msgVars, auto_start, readVars, abort_request, seek_req,
                 packetVars, pkt_serial, finished, frame, vpc, callVars>>

\* A packet gives a frame or, for now, none.  A null packet gives none (those a
\* codec holds back are not modelled): the stream of this serial has ended.  A slip:
\* that is not noted.
DecoderDecodeOnly ==
  /\ \/ dpc = "data" /\ dpc' \in {"push", "get"}
     \/ dpc = "null" /\ dpc' = "get"
  /\ UNCHANGED <<msgVars, playVars, readVars, abort_request, seek_req,
                 packetVars, pkt_serial, finished, frame, vpc, callVars>>

DecoderDecode ==
  /\ \/ dpc = "data" /\ dpc' \in {"push", "get"} /\ UNCHANGED finished
     \/ dpc = "null" /\ dpc' = "get" /\ finished' = pkt_serial
  /\ UNCHANGED <<msgVars, playVars, readVars, abort_request, seek_req,
                 packetVars, pkt_serial, frame, vpc, callVars>>

\* frame_queue_push (FrameQueue has the ring); an aborted queue refuses it.
DecoderPush ==
  /\ dpc = "push" /\ ~pq_abort
  /\ frame = 0
  /\ frame' = pkt_serial
  /\ dpc' = "get"
  /\ UNCHANGED <<msgVars, playVars, readVars, abort_request, seek_req,
                 packetVars, pkt_serial, finished, vpc, callVars>>

\* Where the abort of the packet queue reaches the decoder: at a packet, asleep
\* without one, or in the frame queue, which stream_component_close signals.
\* Two slips: one of the signals is forgotten.
NotSignalled == {"get", "blocked"}
NotWoken == {"get", "push"}
Abortable == {"get", "blocked", "push"}

DecoderExit ==
  /\ dpc \in Abortable
  /\ pq_abort
  /\ dpc' = "end"
  /\ UNCHANGED <<msgVars, playVars, readVars, abort_request, seek_req,
                 packetVars, pkt_serial, finished, frame, vpc, callVars>>

Decoder == DecoderGet \/ DecoderEmpty \/ DecoderStarve \/ DecoderDecode
           \/ DecoderPush \/ DecoderExit

-----------------------------------------------------------------------------
(* The renderer: video_refresh and its thread, or the audio callback with  *)
(* audio_decode_frame.  Both test paused once, before they look at frames. *)

\* The refresh thread looks at is->abort_request; the audio thread ends when the
\* read thread closes the audio output.
RenderEnds == IF ic = "audio" THEN rpc = "join" ELSE abort_request

RenderLoop ==
  /\ vpc = "loop"
  /\ IF RenderEnds THEN vpc' = "end" ELSE ~play.paused /\ vpc' = "refresh"
  /\ UNCHANGED <<msgVars, playVars, readVars, abort_request, seek_req,
                 packetVars, decoderVars, frame, callVars>>

\* Nothing to show, or not yet.  The audio callback blocks until there is a
\* frame or the queue is aborted.
RenderNothing ==
  /\ vpc = "refresh"
  /\ IF ic # "audio" THEN frame \in {0, serial} ELSE pq_abort
  /\ vpc' = "loop"
  /\ UNCHANGED <<msgVars, playVars, readVars, abort_request, seek_req,
                 packetVars, decoderVars, frame, callVars>>

\* A frame from before the last seek is skipped.
RenderSkip ==
  /\ vpc = "refresh"
  /\ frame \notin {0, serial}
  /\ frame' = 0
  /\ UNCHANGED <<msgVars, playVars, readVars, abort_request, seek_req,
                 packetVars, decoderVars, vpc, callVars>>

RenderShow ==
  /\ vpc = "refresh"
  /\ frame = serial /\ frame # 0
  /\ frame' = 0
  /\ vpc' = IF ic # "audio" THEN "shown" ELSE "loop"
  /\ UNCHANGED <<msgVars, playVars, readVars, abort_request, seek_req,
                 packetVars, decoderVars, callVars>>

\* A step ends when its picture has been shown; only video_refresh does it.
RenderShown ==
  /\ vpc = "shown"
  /\ vpc' = "loop"
  /\ LET stepped == [play EXCEPT !.step = FALSE]
     IN play' = IF play.step /\ ~play.paused THEN UpdatePause(stepped) ELSE stepped
  /\ UNCHANGED <<msgVars, announced, auto_start, readVars, abort_request, seek_req,
                 packetVars, decoderVars, frame, callVars>>

Renderer == RenderLoop \/ RenderNothing \/ RenderSkip \/ RenderShow \/ RenderShown

-----------------------------------------------------------------------------
(* The control calls, one caller at a time (mp->mutex).                    *)

CallStart ==
  /\ TogglePause(FALSE)
  /\ UNCHANGED <<msgVars, announced, readVars, abort_request, seek_req,
                 packetVars, decoderVars, frame, vpc, from>>

CallPause ==
  /\ TogglePause(TRUE)
  /\ UNCHANGED <<msgVars, announced, readVars, abort_request, seek_req,
                 packetVars, decoderVars, frame, vpc, from>>

CallSeek ==
  /\ StreamSeek
  /\ UNCHANGED <<msgVars, playVars, readVars, abort_request,
                 packetVars, decoderVars, frame, vpc, from>>

\* ffp_start_from_l: auto_start, then buffering, then the seek.
CallStartFrom ==
  /\ auto_start' = TRUE
  /\ from' = "buffering"
  /\ UNCHANGED <<msgVars, play, announced, readVars, abort_request, seek_req,
                 packetVars, decoderVars, frame, vpc>>

StartFromBuffering ==
  /\ from = "buffering"
  /\ ToggleBuffering(TRUE)
  /\ from' = "seek"
  /\ UNCHANGED <<msgVars, auto_start, readVars, abort_request, seek_req,
                 packetVars, decoderVars, frame, vpc, calls>>

StartFromSeek ==
  /\ from = "seek"
  /\ StreamSeek
  /\ from' = ""
  /\ UNCHANGED <<msgVars, playVars, readVars, abort_request,
                 packetVars, decoderVars, frame, vpc, calls>>

\* ffp_stop_l: is->abort_request, then msg_queue_abort.
CallStop ==
  /\ abort_request' = TRUE
  /\ q_abort' = TRUE
  /\ UNCHANGED <<queueVars, playVars, readVars, seek_req,
                 packetVars, decoderVars, frame, vpc, from>>

-----------------------------------------------------------------------------
(* The playback on its own, under calls in any order, with nobody to read  *)
(* its messages: their queue is not started.  Player composes it with the  *)
(* message loop and the application.                                       *)

Threads == ReadThread \/ Decoder \/ Renderer

Open ==
  /\ rpc = "none"
  /\ StreamOpen
  /\ UNCHANGED <<msgVars, playVars, eof, completed, prepared, error, ic, abort_request,
                 seek_req, packetVars, decoderVars, frame, callVars>>

Call ==
  /\ rpc # "none" /\ from = "" /\ ~abort_request
  /\ calls < MaxCalls
  /\ calls' = calls + 1
  /\ \/ prepared /\ (CallStart \/ CallPause \/ CallSeek)
     \/ completed /\ CallStartFrom
     \/ CallStop

\* All the threads have ended, or completion has been announced and the read
\* thread waits, 100 ms at a time, for a seek or a stop.
Waiting == rpc = "queue" /\ ~Full /\ Drained /\ completed /\ ~seek_req

Idle ==
  /\ (rpc = "end" /\ vpc = "end") \/ Waiting
  /\ UNCHANGED playbackVars

PlaybackNext == Threads \/ Open \/ Call \/ StartFromBuffering \/ StartFromSeek \/ Idle

\* Every thread is scheduled, the frame in the queue is due at some time, a
\* codec that is fed yields a frame at some time, and the source does not fail
\* to deliver for ever.
ThreadFairness ==
  /\ WF_playbackVars(ReadThread)
  /\ SF_playbackVars(ReadPacket \/ ReadEnd \/ ReadError)
  /\ WF_playbackVars(Decoder)
  /\ SF_playbackVars(DecoderDecode /\ dpc' = "push")
  /\ WF_playbackVars(Renderer)
  /\ SF_playbackVars(RenderShow)

PlaybackFairness ==
  /\ ThreadFairness
  /\ WF_playbackVars(StartFromBuffering \/ StartFromSeek)

PlaybackSpec == PlaybackInit /\ [][PlaybackNext]_playbackVars /\ PlaybackFairness

-----------------------------------------------------------------------------
(* Properties. *)

\* The application knows whether the player is buffering: the last buffering
\* message put tells, although a seek may set buffering_on without a message.
BufferingAnnounced == announced = play.buffering_on

\* The player is never left paused with nothing that asks for it, whichever
\* of the threads that update pause_req, buffering_on and step came last.
PausedForAReason == play.paused => play.pause_req \/ play.buffering_on

\* A frame of the current serial is still on its way to the renderer.
Unshown ==
  \/ frame = serial /\ serial # 0
  \/ dpc \in {"data", "push"} /\ pkt_serial = serial

\* Completion is announced after the last frame was taken, and nothing is
\* shown after it until a seek: the comparison of the decoder's finished
\* serial with the queue's holds under any interleaving with a flush.
NothingAfterCompletion == completed => ~Unshown

\* The situations in which buffering is not guaranteed to end.  The queue was
\* filled, and the end of the file met, between the decoder's look at an empty
\* queue and its start of buffering: a full queue ends buffering only before
\* the end.  The source delivers again after an end or an error, and the
\* decoder, which has finished its serial, throws away what is read.  Or the
\* player consumes while it buffers: a start has come during a step, or the
\* stream is audio, whose steps do not end.
FullAtEnd == eof /\ Full /\ play.buffering_on
Revived   == finished = serial /\ ~eof
Leaking   == play.buffering_on /\ ~play.paused /\ (play.step => ic = "audio")

\* Buffering ends: the read thread fills the queue, reaches the high water
\* mark, or meets the end.
BufferingEnds ==
  play.buffering_on ~>
    ~play.buffering_on \/ abort_request \/ FullAtEnd \/ Revived \/ Leaking

\* The end of the stream is announced, unless the player is paused, sought
\* or stopped first, or more can be read.
EndAnnounced ==
  eof ~> completed \/ ~eof \/ play.pause_req \/ abort_request \/ FullAtEnd

\* A stop ends the threads, wherever they are.
StopTerminates == abort_request ~> rpc = "end" /\ vpc = "end" /\ dpc \in {"none", "end"}

\* MP_STATE_PAUSED, "ijkmp_pause() -> self": a player asked to pause before the
\* end of the stream, and not stepping, is paused.
PauseHolds == play.pause_req /\ ~play.step /\ ~completed => play.paused

\* MP_STATE_PAUSED, "ijkmp_seek_to() -> self": a player asked to pause is
\* paused again some time after a seek.
PauseResumes ==
  play.pause_req ~> play.paused \/ ~play.pause_req \/ abort_request

=============================================================================
