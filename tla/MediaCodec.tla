----------------------------- MODULE MediaCodec -----------------------------
(***************************************************************************)
(* The video decoder on top of Android's MediaCodec                        *)
(* (ffpipenode_android_mediacodec_vdec.c).  Two threads share the codec:   *)
(* the input thread, which takes packets from videoq and feeds them, and   *)
(* the video thread, which takes pictures out and puts them into pictq.    *)
(* The video thread holds acodec_mutex while it does so, even while it     *)
(* waits for room in pictq; the input thread needs it to flush the codec   *)
(* after a seek, and asks for it with acodec_flush_request.  A packet that *)
(* the codec cannot take, because there is no surface or it has failed,    *)
(* goes through fake_pictq instead.                                        *)
(*                                                                         *)
(* The read thread, the renderer and the pauses are what Playback shows of *)
(* them.  A surface is there from the beginning or never.                  *)
(***************************************************************************)
EXTENDS Naturals, Sequences

CONSTANTS
  Capacity,           \* of pictq
  Inputs,             \* the packets the codec holds
  MaxPackets, MaxSeeks, MaxPauses,  \* bounds: packets read, seeks, changes of pause_req
  FailsBeforeFlush    \* the codec may fail while a flush is still to come

ASSUME SizesAssumption == Capacity \in Nat \ {0} /\ Inputs \in Nat \ {0}
ASSUME BoundsAssumption == MaxPackets \in Nat /\ MaxSeeks \in Nat /\ MaxPauses \in Nat
ASSUME FailsAssumption == FailsBeforeFlush \in BOOLEAN

VARIABLES
  videoq, serial, q_abort,     \* the packets, the serial of the queue, its abort
  pkt_serial, packet_pending,  \* of the Decoder: the packet taken, or "none"
  finished,                    \* d->finished
  fpc, dpc,                    \* where the input thread and the video thread are
  acodec_flush_request,
  input_packet_count,
  codec, inside,               \* the codec, and the serials of the packets in it
  jsurface,
  fake_pictq, fake_abort,
  queued,                      \* the serial the video thread gives its next picture
  pictq,                       \* the serials of the pictures
  pause_req, step, buffering_on,
  seeking,                     \* the read thread is in the second half of a seek
  packets, seeks, pauses

vars == <<videoq, serial, q_abort, pkt_serial, packet_pending, finished, fpc, dpc,
          acodec_flush_request, input_packet_count, codec, inside, jsurface, fake_pictq,
          fake_abort, queued, pictq, pause_req, step, buffering_on, seeking, packets, seeks,
          pauses>>

playVars == <<pause_req, step, buffering_on, seeking, packets, seeks, pauses>>
queueVars == <<videoq, serial, q_abort>>
feedVars == <<pkt_serial, packet_pending, finished, fpc, acodec_flush_request,
              input_packet_count>>
codecVars == <<codec, inside, jsurface>>
fakeVars == <<fake_pictq, fake_abort>>
drainVars == <<dpc, queued>>

Serials == 1..(MaxSeeks + 1)

Flags ==
  /\ q_abort \in BOOLEAN /\ fake_abort \in BOOLEAN
  /\ acodec_flush_request \in BOOLEAN /\ jsurface \in BOOLEAN
  /\ pause_req \in BOOLEAN /\ step \in BOOLEAN /\ buffering_on \in BOOLEAN
  /\ seeking \in BOOLEAN
Places ==
  /\ fpc \in {"loop", "get", "flush", "input", "queue", "fake", "exit", "end"}
  /\ dpc \in {"loop", "lock", "cond", "relock", "dequeue", "fake", "push", "exit", "join", "end"}
  /\ packet_pending \in {"none", "packet", "null"}
  /\ codec \in {"running", "failed", "stopped"}
Counters ==
  /\ serial \in Serials /\ input_packet_count \in Nat
  /\ {pkt_serial, finished, queued} \subseteq {0} \union Serials
  /\ packets \in 0..MaxPackets /\ seeks \in 0..MaxSeeks /\ pauses \in 0..MaxPauses
Queues ==
  /\ videoq \in Seq({"flush", "packet", "null"})
  /\ fake_pictq \in Seq({"flush", "packet"})
  /\ pictq \in Seq({0} \union Serials) /\ Len(pictq) <= Capacity
  /\ inside \in Seq(Serials) /\ Len(inside) <= Inputs
TypeOK == Flags /\ Places /\ Counters /\ Queues

\* The decoder has been created, its codec configured and started.  The input thread
\* may not get its JNI environment, and ends before its first packet.
Init ==
  /\ videoq = <<"flush">> /\ serial = 1 /\ q_abort = FALSE
  /\ pkt_serial = 0 /\ packet_pending = "none" /\ finished = 0
  /\ fpc \in {"loop", "exit"} /\ dpc = "loop"
  /\ acodec_flush_request = FALSE /\ input_packet_count = 0
  /\ codec = "running" /\ inside = <<>> /\ jsurface \in BOOLEAN
  /\ fake_pictq = <<"flush">> /\ fake_abort = FALSE
  /\ queued = 0 /\ pictq = <<>>
  /\ pause_req \in BOOLEAN /\ step = FALSE /\ buffering_on = FALSE /\ seeking = FALSE
  /\ packets = 0 /\ seeks = 0 /\ pauses = 0

-----------------------------------------------------------------------------
(* The rest of the player.                                                 *)

ReadPacket ==
  /\ ~q_abort /\ ~seeking /\ packets < MaxPackets
  /\ \A i \in DOMAIN videoq : videoq[i] # "null"
  /\ finished # serial /\ packet_pending # "null"
  /\ packets' = packets + 1
  /\ \E what \in {"packet", "null"} : videoq' = Append(videoq, what)
  /\ UNCHANGED <<serial, q_abort, feedVars, codecVars, fakeVars, drainVars, pictq, pause_req,
                 step, buffering_on, seeking, seeks, pauses>>

\* A seek flushes the queue, with a new serial, while the player is buffering, ...
Seek ==
  /\ ~q_abort /\ ~seeking /\ seeks < MaxSeeks
  /\ seeks' = seeks + 1
  /\ videoq' = <<"flush">> /\ serial' = serial + 1
  /\ seeking' = TRUE /\ buffering_on' = TRUE
  /\ UNCHANGED <<q_abort, feedVars, codecVars, fakeVars, drainVars, pictq, pause_req, step,
                 packets, pauses>>

\* ... and lets a paused player step to the next picture.
SeekPlay ==
  /\ seeking /\ seeking' = FALSE
  /\ step' = (step \/ pause_req)
  /\ UNCHANGED <<queueVars, feedVars, codecVars, fakeVars, drainVars, pictq, pause_req,
                 buffering_on, packets, seeks, pauses>>

\* The read thread ends buffering whatever the decoder does.
EndBuffering ==
  /\ buffering_on /\ ~seeking /\ buffering_on' = FALSE
  /\ UNCHANGED <<queueVars, feedVars, codecVars, fakeVars, drainVars, pictq, pause_req, step,
                 seeking, packets, seeks, pauses>>

TogglePause ==
  /\ pauses < MaxPauses /\ pauses' = pauses + 1
  /\ pause_req' = ~pause_req /\ step' = FALSE
  /\ UNCHANGED <<queueVars, feedVars, codecVars, fakeVars, drainVars, pictq, buffering_on,
                 seeking, packets, seeks>>

\* stream_component_close, which then joins the video thread.
Abort ==
  /\ ~q_abort /\ ~seeking /\ q_abort' = TRUE
  /\ UNCHANGED <<videoq, serial, feedVars, codecVars, fakeVars, drainVars, pictq, playVars>>

\* video_refresh drops the pictures of an older serial and shows the others.
Showing == step \/ (~pause_req /\ ~buffering_on)
Render ==
  /\ Showing /\ pictq # <<>>
  /\ pictq' = Tail(pictq)
  /\ step' = (step /\ Head(pictq) # serial)
  /\ UNCHANGED <<queueVars, feedVars, codecVars, fakeVars, drainVars, pause_req, buffering_on,
                 seeking, packets, seeks, pauses>>

\* MediaCodec goes into its error state, in which every call throws.
Fail ==
  /\ codec = "running"
  /\ FailsBeforeFlush = FALSE =>
       seeks = MaxSeeks /\ pkt_serial = serial /\ fpc # "flush"
  /\ codec' = "failed"
  /\ UNCHANGED <<queueVars, feedVars, inside, jsurface, fakeVars, drainVars, pictq, playVars>>

-----------------------------------------------------------------------------
(* acodec_mutex: the input thread does all it does with it in one step.    *)

DrainHolds == dpc \in {"dequeue", "fake", "push"}
DrainWaits == dpc = "cond"

-----------------------------------------------------------------------------
(* The input thread: enqueue_thread_func and feed_input_buffer.            *)

FeedLoop ==
  /\ fpc = "loop"
  /\ fpc' = IF q_abort THEN "exit"
            ELSE IF packet_pending = "none" \/ serial # pkt_serial THEN "get" ELSE "input"
  /\ UNCHANGED <<queueVars, pkt_serial, packet_pending, finished, acodec_flush_request,
                 input_packet_count, codecVars, fakeVars, drainVars, pictq, playVars>>

\* packet_queue_get_or_buffering, on an empty queue, ...
FeedStarve ==
  /\ fpc = "get" /\ ~q_abort /\ videoq = <<>>
  /\ finished # pkt_serial /\ ~buffering_on
  /\ buffering_on' = TRUE
  /\ UNCHANGED <<queueVars, feedVars, codecVars, fakeVars, drainVars, pictq, pause_req, step,
                 seeking, packets, seeks, pauses>>

FeedAborted ==
  /\ fpc = "get" /\ q_abort
  /\ fpc' = "exit"
  /\ UNCHANGED <<queueVars, pkt_serial, packet_pending, finished, acodec_flush_request,
                 input_packet_count, codecVars, fakeVars, drainVars, pictq, playVars>>

\* ... and with a packet.  The flush is requested before the mutex is taken.
FeedGet ==
  /\ fpc = "get" /\ ~q_abort /\ videoq # <<>>
  /\ videoq' = Tail(videoq)
  /\ pkt_serial' = serial
  /\ IF Head(videoq) = "flush"
       THEN /\ acodec_flush_request' = TRUE
            /\ fpc' = "flush"
            /\ UNCHANGED packet_pending
       ELSE /\ packet_pending' = IF finished = serial THEN "none" ELSE Head(videoq)
            /\ fpc' = IF finished = serial THEN "get" ELSE "input"
            /\ UNCHANGED acodec_flush_request
  /\ UNCHANGED <<serial, q_abort, finished, input_packet_count, codecVars, fakeVars, drainVars,
                 pictq, playVars>>

\* What a flush leaves in the codec: nothing, but it is not flushed when nothing
\* has been put into it.  A slip: the count has been cleared before.
NotFlushed == inside
Flushed == IF input_packet_count > 0 THEN <<>> ELSE inside

FeedFlush ==
  /\ fpc = "flush" /\ ~DrainHolds
  /\ inside' = Flushed
  /\ input_packet_count' = 0
  /\ acodec_flush_request' = FALSE
  /\ dpc' = IF DrainWaits THEN "relock" ELSE dpc
  /\ finished' = 0
  /\ fpc' = "get"
  /\ UNCHANGED <<queueVars, pkt_serial, packet_pending, codec, jsurface, fakeVars, queued,
                 pictq, playVars>>

\* The null packet of the end of the stream.
FeedFinish ==
  /\ fpc = "input" /\ packet_pending = "null"
  /\ packet_pending' = "none"
  /\ finished' = pkt_serial
  /\ fpc' = "loop"
  /\ UNCHANGED <<queueVars, pkt_serial, acodec_flush_request, input_packet_count, codecVars,
                 fakeVars, drainVars, pictq, playVars>>

\* dequeueInputBuffer, outside acodec_mutex: a buffer, a timeout, or an exception.
FeedInput ==
  /\ fpc = "input" /\ packet_pending = "packet"
  /\ fpc' = IF ~jsurface \/ codec # "running" THEN "fake"
            ELSE IF Len(inside) < Inputs THEN "queue" ELSE "loop"
  /\ fake_pictq' = IF fpc' = "queue" THEN <<>> ELSE fake_pictq
  /\ UNCHANGED <<queueVars, pkt_serial, packet_pending, finished, acodec_flush_request,
                 input_packet_count, codecVars, fake_abort, drainVars, pictq, playVars>>

\* getInputBuffer and queueInputBuffer.  The thread ends if either fails, which
\* getInputBuffer may do (it allocates, and calls Java) while the codec is fine.
FeedQueue ==
  /\ fpc = "queue"
  /\ \/ /\ codec = "running"
        /\ inside' = Append(inside, pkt_serial)
        /\ input_packet_count' = input_packet_count + 1
        /\ packet_pending' = "none"
        /\ fpc' = "loop"
     \/ /\ fpc' = "exit"
        /\ UNCHANGED <<inside, input_packet_count, packet_pending>>
  /\ UNCHANGED <<queueVars, pkt_serial, finished, acodec_flush_request, codec, jsurface,
                 fakeVars, drainVars, pictq, playVars>>

\* amc_decode_picture_fake: the wait for room in fake_pictq ends after a second
\* whether there is room or not.
FeedFake ==
  /\ fpc = "fake"
  /\ IF fake_abort
       THEN fpc' = "exit" /\ UNCHANGED <<fake_pictq, packet_pending>>
       ELSE /\ fake_pictq' = Append(fake_pictq, "packet")
            /\ packet_pending' = "none"
            /\ fpc' = "loop"
  /\ UNCHANGED <<queueVars, pkt_serial, finished, acodec_flush_request, input_packet_count,
                 codecVars, fake_abort, drainVars, pictq, playVars>>

\* The end of either thread aborts fake_pictq.  A slip: only the video thread's.
NotAborted == fake_abort
FakeAborted == TRUE

FeedExit ==
  /\ fpc = "exit"
  /\ fake_abort' = FakeAborted
  /\ fpc' = "end"
  /\ UNCHANGED <<queueVars, pkt_serial, packet_pending, finished, acodec_flush_request,
                 input_packet_count, codecVars, fake_pictq, drainVars, pictq, playVars>>

Feed ==
  \/ FeedLoop \/ FeedStarve \/ FeedAborted \/ FeedGet \/ FeedFlush \/ FeedFinish \/ FeedInput
  \/ FeedQueue \/ FeedFake \/ FeedExit

-----------------------------------------------------------------------------
(* The video thread: func_run_sync and drain_output_buffer.                *)

DrainGoes(to) ==
  /\ dpc' = to
  /\ UNCHANGED <<queueVars, feedVars, codecVars, fakeVars, queued, pictq, playVars>>

DrainLoop == dpc = "loop" /\ DrainGoes(IF q_abort THEN "exit" ELSE "lock")

\* "let feed_input_buffer() get mutex".  A slip: nobody does.
NeverYields == FALSE
Yields == acodec_flush_request

DrainLock == dpc = "lock" /\ DrainGoes(IF Yields THEN "cond" ELSE "dequeue")
DrainTimeOut == dpc = "cond" /\ DrainGoes("relock")
DrainRelock == dpc = "relock" /\ DrainGoes("dequeue")

\* dequeueOutputBuffer: nothing yet, or an exception, after which a fake picture
\* is waited for, ...
DrainNothing == dpc = "dequeue" /\ codec = "running" /\ DrainGoes("loop")
DrainException == dpc = "dequeue" /\ codec # "running" /\ DrainGoes("fake")

\* ... or a picture, which gets the serial of the packet last taken.
DrainPicture ==
  /\ dpc = "dequeue" /\ codec = "running" /\ inside # <<>>
  /\ inside' = Tail(inside)
  /\ queued' = pkt_serial
  /\ dpc' = "push"
  /\ UNCHANGED <<queueVars, feedVars, codec, jsurface, fakeVars, pictq, playVars>>

\* packet_queue_get of fake_pictq blocks, with acodec_mutex.
DrainFakeAborted == dpc = "fake" /\ fake_abort /\ DrainGoes("exit")
DrainFake ==
  /\ dpc = "fake" /\ ~fake_abort /\ fake_pictq # <<>>
  /\ fake_pictq' = Tail(fake_pictq)
  /\ queued' = pkt_serial
  /\ dpc' = IF Head(fake_pictq) = "flush" THEN "loop" ELSE "push"
  /\ UNCHANGED <<queueVars, feedVars, codecVars, fake_abort, pictq, playVars>>

\* amc_queue_picture: frame_queue_peek_writable blocks, with acodec_mutex.
Room == Len(pictq) < Capacity

DrainPushAborted == dpc = "push" /\ q_abort /\ DrainGoes("loop")
DrainPush ==
  /\ dpc = "push" /\ Room
  /\ pictq' = Append(pictq, queued)
  /\ dpc' = "loop"
  /\ UNCHANGED <<queueVars, feedVars, codecVars, fakeVars, queued, playVars>>

DrainExit ==
  /\ dpc = "exit"
  /\ fake_abort' = TRUE
  /\ codec' = "stopped"
  /\ dpc' = "join"
  /\ UNCHANGED <<queueVars, feedVars, inside, jsurface, fake_pictq, queued, pictq, playVars>>
DrainJoin == dpc = "join" /\ fpc = "end" /\ DrainGoes("end")

Drain ==
  \/ DrainLoop \/ DrainLock \/ DrainTimeOut \/ DrainRelock \/ DrainNothing \/ DrainException
  \/ DrainPicture \/ DrainFakeAborted \/ DrainFake \/ DrainPushAborted \/ DrainPush
  \/ DrainExit \/ DrainJoin

-----------------------------------------------------------------------------

Next ==
  \/ ReadPacket \/ Seek \/ SeekPlay \/ EndBuffering \/ TogglePause \/ Abort \/ Render \/ Fail
  \/ Feed \/ Drain
  \/ dpc = "end" /\ UNCHANGED vars

\* The threads are scheduled.  Nothing makes pthread mutexes fair, so a thread that
\* unlocks one and locks it again may do so for ever; but in the 100 ms that the
\* video thread waits for acodec_cond the input thread gets the mutex some time.
Fairness ==
  /\ WF_vars(Feed) /\ WF_vars(Drain) /\ SF_vars(FeedFlush /\ DrainWaits)
  /\ WF_vars(SeekPlay) /\ WF_vars(EndBuffering) /\ WF_vars(Render)

Spec == Init /\ [][Next]_vars /\ Fairness

-----------------------------------------------------------------------------
(* Properties. *)

\* Whatever the two threads were doing at a seek, from the flush on the codec holds
\* only packets taken after it, although it is flushed only if input_packet_count
\* says that it is not empty.
InsideIsCurrent ==
  fpc # "flush" => \A i \in DOMAIN inside : inside[i] = pkt_serial

\* "request flush before lock, or never get mutex": the input thread gets the mutex
\* although the video thread takes it again at once, and may hold it waiting for
\* room in pictq.  Only a pause right after a seek, which leaves the pictures of
\* before the seek in pictq, puts the flush off, until the pause ends.
FlushServed == acodec_flush_request ~> (~acodec_flush_request \/ []pause_req)

\* After the abort of videoq both threads end, wherever they wait: stream_close
\* joins the video thread, which joins the input thread.
CloseTerminates == q_abort ~> dpc = "end"

\* When the codec has failed and the input thread has ended, before that or because
\* of it, the video thread does not wait for its fake pictures for ever: it ends
\* too, unless it waits for the room that a paused player does not make.  (With a
\* codec that works, func_run_sync goes on until the abort of videoq.)
EndsTogether ==
  fpc = "end" /\ codec # "running" ~> (dpc = "end" \/ []pause_req)

=============================================================================
