--------------------------- MODULE PlaybackProofs ---------------------------
(***************************************************************************)
(* Properties of Playback proved for every source, capacity and number of  *)
(* calls.  Two are about play, which three threads and the caller update,  *)
(* under play_mutex but with different parts of the state in mind; one is  *)
(* about completion, decided under no lock; the last is the type           *)
(* invariant, with the bound of the serial.                                *)
(***************************************************************************)
EXTENDS Playback, SequenceTheorems, TLAPS

Messages == {"PREPARED", "COMPLETED", "ERROR", "SEEK_COMPLETE",
              "REQ_START", "REQ_PAUSE", "REQ_SEEK"}

\* What the threads put: a start, for a player to be started, and no request else.
Notified == Messages \ {"REQ_PAUSE", "REQ_SEEK"}

LEMMA ThreadsNotify ==
  ASSUME Threads
  PROVE  /\ q_abort' = q_abort
         /\ \/ UNCHANGED queueVars
            \/ \E what \in Notified :
                 /\ Notify(what)
                 /\ what = "COMPLETED" => rpc' = "read"
                 /\ what = "REQ_START" =>
                      auto_start = TRUE /\ rpc = "auto_start" /\ rpc' = "auto_clear"
  <1>1. CASE ReadProbe \/ ReadAutoStart \/ ReadSeekComplete \/ ReadCompletePut \/ ReadJoin
    BY <1>1 DEF ReadProbe, ReadAutoStart, ReadSeekComplete, ReadCompletePut, ReadJoin, Notified,
                Messages
  <1>2. CASE \/ ReadOpen \/ ReadAutoClear \/ ReadLoop \/ ReadSeek \/ ReadSeekFlush \/ ReadSeeked
             \/ ReadSeekPlay \/ ReadSeekBuffering \/ ReadFull \/ ReadFullBuffering
             \/ ReadCompleted \/ ReadComplete \/ ReadCompleteBuffering \/ ReadCompletePause
             \/ ReadMore \/ ReadPacket \/ ReadCheck \/ ReadEnd \/ ReadError \/ ReadAgain
             \/ ReadFailed \/ ReadCleanup
    BY <1>2
       DEF ReadOpen, ReadAutoClear, ReadLoop, ReadSeek, ReadSeekFlush, ReadSeeked,
           ReadSeekPlay, ReadSeekBuffering, ReadFull, ReadFullBuffering, ReadCompleted,
           ReadComplete, ReadCompleteBuffering, ReadCompletePause, ReadMore, ReadPacket,
           ReadCheck, ReadEnd, ReadError, ReadAgain, ReadFails, ReadFailed, ReadCleanup,
           msgVars, queueVars
  <1>3. CASE Decoder \/ Renderer
    BY <1>3
       DEF Decoder, DecoderGet, DecoderEmpty, DecoderStarve, DecoderDecode, DecoderPush,
           DecoderExit, Renderer, RenderLoop, RenderNothing, RenderSkip, RenderShow,
           RenderShown, msgVars, queueVars
  <1> QED
    BY <1>1, <1>2, <1>3 DEF Threads, ReadThread

PlayType ==
  /\ play \in [pause_req : BOOLEAN, buffering_on : BOOLEAN,
               step : BOOLEAN, paused : BOOLEAN]
  /\ announced \in BOOLEAN

\* Where the read thread is in a seek that has announced buffering.
InSeek == {"seek", "flushed", "seeked", "seek_play"}

\* A seek has announced buffering before it may set buffering_on silently, and
\* nobody ends the buffering in between: only the read thread could.
SeekBuffers == rpc \in InSeek => play.buffering_on

PlayInv == PlayType /\ PausedForAReason /\ BufferingAnnounced /\ SeekBuffers

\* ffp_toggle_buffering, whoever calls it.
LEMMA Toggled ==
  ASSUME PlayInv, NEW on \in BOOLEAN, ToggleBuffering(on)
  PROVE  PlayType' /\ PausedForAReason' /\ BufferingAnnounced' /\ play'.buffering_on = on
  BY DEF PlayInv, PlayType, ToggleBuffering, UpdatePause, PausedForAReason,
         BufferingAnnounced

\* toggle_pause, whoever calls it.
LEMMA PauseToggled ==
  ASSUME PlayInv, NEW on \in BOOLEAN, TogglePause(on), announced' = announced
  PROVE  /\ PlayType' /\ PausedForAReason' /\ BufferingAnnounced'
         /\ play'.buffering_on = play.buffering_on
  BY DEF PlayInv, PlayType, TogglePause, UpdatePause, PausedForAReason,
         BufferingAnnounced

LEMMA InitPlayInv == PlaybackInit => PlayInv
  <1> SUFFICES ASSUME PlaybackInit PROVE PlayInv
    OBVIOUS
  <1> DEFINE playing == [pause_req |-> FALSE, buffering_on |-> FALSE,
                         step |-> FALSE, paused |-> FALSE]
  <1>1. play = playing /\ announced = FALSE /\ rpc = "none"
    BY DEF PlaybackInit
  <1>2. PlayType
    BY <1>1 DEF PlayType
  <1>3. ~play.paused /\ ~play.buffering_on
    BY <1>1
  <1>4. PausedForAReason
    BY <1>3 DEF PausedForAReason
  <1>5. BufferingAnnounced
    <2>1. announced = FALSE /\ play.buffering_on = FALSE
      BY <1>1
    <2> QED
      BY <2>1 DEF BufferingAnnounced
  <1>6. SeekBuffers
    BY <1>1 DEF SeekBuffers, InSeek
  <1> QED
    BY <1>2, <1>4, <1>5, <1>6 DEF PlayInv

\* A step that leaves play alone, and is not the start of a seek.
LEMMA PlayKept ==
  ASSUME PlayInv, play' = play, announced' = announced,
         rpc' \in InSeek => rpc \in InSeek
  PROVE  PlayInv'
  BY DEF PlayInv, PlayType, PausedForAReason, BufferingAnnounced, SeekBuffers

\* A step that leaves a seek, or is not part of one, has only play to keep.
LEMMA PlayChanged ==
  ASSUME PlayType', PausedForAReason', BufferingAnnounced',
         rpc' \notin InSeek
  PROVE  PlayInv'
  BY DEF PlayInv, SeekBuffers

\* A step of another thread does not move the read thread.
LEMMA PlayChangedAside ==
  ASSUME PlayInv, PlayType', PausedForAReason', BufferingAnnounced', rpc' = rpc,
         play'.buffering_on \/ play'.buffering_on = play.buffering_on
  PROVE  PlayInv'
  BY DEF PlayInv, SeekBuffers

\* ffp_toggle_buffering, at the end of a step of the read thread.
LEMMA ToggledByReader ==
  ASSUME PlayInv, NEW on \in BOOLEAN,
         ToggleBuffering(on) \/ UNCHANGED <<play, announced>>,
         rpc' \notin InSeek
  PROVE  PlayInv'
  <1>1. CASE ToggleBuffering(on)
    BY <1>1, Toggled, PlayChanged
  <1>2. CASE UNCHANGED <<play, announced>>
    BY <1>2, PlayKept
  <1> QED
    BY <1>1, <1>2

\* The section of a seek that may start the player and steps a paused one.
LEMMA SeekedPlayInv == PlayInv /\ ReadSeekPlay => PlayInv'
  <1> SUFFICES ASSUME PlayInv, ReadSeekPlay PROVE PlayInv'
    OBVIOUS
  <1> DEFINE started == IF auto_start THEN Resumed ELSE play
             stepping == StepToNextFrame(started)
  <1>1. /\ play' = IF started.pause_req THEN stepping ELSE started
        /\ announced' = announced /\ rpc = "seek_play" /\ rpc' = "seek_complete"
    BY DEF ReadSeekPlay
  <1>2. PlayType /\ PausedForAReason /\ announced = TRUE /\ play.buffering_on = TRUE
    BY <1>1 DEF PlayInv, PlayType, SeekBuffers, InSeek, BufferingAnnounced
  <1>3. /\ started \in [pause_req : BOOLEAN, buffering_on : BOOLEAN,
                        step : BOOLEAN, paused : BOOLEAN]
        /\ started.buffering_on = TRUE
    BY <1>2 DEF PlayType, Resumed, UpdatePause
  <1>4. /\ stepping \in [pause_req : BOOLEAN, buffering_on : BOOLEAN,
                         step : BOOLEAN, paused : BOOLEAN]
        /\ stepping.buffering_on = TRUE
    BY <1>3 DEF StepToNextFrame
  <1> HIDE DEF started, stepping
  <1>5. /\ play' \in [pause_req : BOOLEAN, buffering_on : BOOLEAN,
                      step : BOOLEAN, paused : BOOLEAN]
        /\ play'.buffering_on = TRUE
    BY <1>1, <1>3, <1>4
  <1>6. PlayType' /\ PausedForAReason' /\ BufferingAnnounced'
    BY <1>1, <1>2, <1>5 DEF PlayType, PausedForAReason, BufferingAnnounced
  <1> QED
    BY <1>1, <1>6, PlayChanged DEF InSeek

LEMMA ReadThreadPlayInv == PlayInv /\ ReadThread => PlayInv'
  <1> SUFFICES ASSUME PlayInv, ReadThread PROVE PlayInv'
    OBVIOUS
  <1>1. CASE \/ ReadOpen \/ ReadProbe \/ ReadAutoStart \/ ReadAutoClear
    BY <1>1, PlayKept
       DEF ReadOpen, ReadProbe, ReadAutoStart, ReadAutoClear, InSeek, playVars
  <1>2. CASE ReadLoop
    <2>1. CASE rpc' = "seek" /\ ToggleBuffering(TRUE)
      <3>1. PlayType' /\ PausedForAReason' /\ BufferingAnnounced'
            /\ play'.buffering_on = TRUE
        BY <2>1, Toggled
      <3> QED
        BY <3>1 DEF PlayInv, SeekBuffers
    <2>2. CASE rpc' \in {"cleanup", "queue"} /\ UNCHANGED <<play, announced>>
      BY <2>2, PlayKept DEF InSeek
    <2> QED
      BY <1>2, <2>1, <2>2 DEF ReadLoop
  <1>3. CASE ReadSeek \/ ReadSeekFlush \/ ReadSeeked
    BY <1>3, PlayKept DEF ReadSeek, ReadSeekFlush, ReadSeeked, InSeek, playVars
  <1>4. CASE ReadSeekPlay
    BY <1>4, SeekedPlayInv
  <1>5. CASE \/ ReadSeekComplete \/ ReadFull \/ ReadCompleted \/ ReadComplete
             \/ ReadCompletePut \/ ReadMore
    BY <1>5, PlayKept
       DEF ReadSeekComplete, ReadFull, ReadCompleted, ReadComplete,
           ReadCompletePut, ReadMore, InSeek, playVars
  <1>6. CASE ReadSeekBuffering
    BY <1>6, ToggledByReader DEF ReadSeekBuffering, InSeek
  <1>7. CASE \/ ReadFullBuffering \/ ReadCompleteBuffering \/ ReadCheck
             \/ ReadFailed
    BY <1>7, ToggledByReader
       DEF ReadFullBuffering, ReadCompleteBuffering, ReadCheck, ReadFailed, InSeek
  <1>8. CASE ReadCompletePause
    BY <1>8, PauseToggled, PlayChanged DEF ReadCompletePause, InSeek
  <1>9. CASE ReadPacket \/ ReadEnd \/ ReadError \/ ReadAgain
    BY <1>9, PlayKept
       DEF ReadPacket, ReadEnd, ReadError, ReadAgain, ReadFails, InSeek, playVars
  <1>10. CASE ReadCleanup \/ ReadJoin
    BY <1>10, PlayKept DEF ReadCleanup, ReadJoin, InSeek, playVars
  <1> QED
    BY <1>1, <1>2, <1>3, <1>4, <1>5, <1>6, <1>7, <1>8, <1>9, <1>10 DEF ReadThread

LEMMA DecoderPlayInv == PlayInv /\ Decoder => PlayInv'
  <1> SUFFICES ASSUME PlayInv, Decoder PROVE PlayInv'
    OBVIOUS
  <1>1. CASE DecoderStarve
    <2>1. ToggleBuffering(TRUE) /\ rpc' = rpc
      BY <1>1 DEF DecoderStarve, readVars
    <2> QED
      BY <2>1, Toggled, PlayChangedAside
  <1>2. CASE \/ DecoderGet \/ DecoderEmpty \/ DecoderDecode \/ DecoderPush
             \/ DecoderExit
    BY <1>2, PlayKept
       DEF DecoderGet, DecoderEmpty, DecoderDecode, DecoderPush, DecoderExit,
           playVars, readVars
  <1> QED
    BY <1>1, <1>2 DEF Decoder

\* The end of a step updates the pause.
LEMMA ShownPlayInv == PlayInv /\ RenderShown => PlayInv'
  <1> SUFFICES ASSUME PlayInv, RenderShown PROVE PlayInv'
    OBVIOUS
  <1>1. announced' = announced /\ rpc' = rpc
    BY DEF RenderShown, readVars
  <1>2. PlayType' /\ PausedForAReason' /\ play'.buffering_on = play.buffering_on
    BY <1>1 DEF RenderShown, PlayInv, PlayType, PausedForAReason, UpdatePause
  <1>3. BufferingAnnounced'
    BY <1>1, <1>2 DEF PlayInv, BufferingAnnounced
  <1> QED
    BY <1>1, <1>2, <1>3, PlayChangedAside

LEMMA RendererPlayInv == PlayInv /\ Renderer => PlayInv'
  <1> SUFFICES ASSUME PlayInv, Renderer PROVE PlayInv'
    OBVIOUS
  <1>1. CASE RenderShown
    BY <1>1, ShownPlayInv
  <1>2. CASE RenderLoop \/ RenderNothing \/ RenderSkip \/ RenderShow
    BY <1>2, PlayKept
       DEF RenderLoop, RenderNothing, RenderSkip, RenderShow, playVars, readVars
  <1> QED
    BY <1>1, <1>2 DEF Renderer

\* The control calls, whoever makes them.
ControlCall == \/ CallStart \/ CallPause \/ CallSeek \/ CallStartFrom \/ CallStop
               \/ StartFromBuffering \/ StartFromSeek

LEMMA CallPlayInv == PlayInv /\ ControlCall => PlayInv'
  <1> SUFFICES ASSUME PlayInv, ControlCall PROVE PlayInv'
    OBVIOUS
  <1>1. CASE CallStart \/ CallPause
    <2>1. PICK on \in BOOLEAN : TogglePause(on)
      BY <1>1 DEF CallStart, CallPause
    <2>2. announced' = announced /\ rpc' = rpc
      BY <1>1 DEF CallStart, CallPause, readVars
    <2> QED
      BY <2>1, <2>2, PauseToggled, PlayChangedAside
  <1>2. CASE CallSeek \/ CallStartFrom \/ CallStop \/ StartFromSeek
    BY <1>2, PlayKept
       DEF CallSeek, CallStartFrom, CallStop, StartFromSeek, playVars, readVars
  <1>3. CASE StartFromBuffering
    <2>1. ToggleBuffering(TRUE) /\ rpc' = rpc
      BY <1>3 DEF StartFromBuffering, readVars
    <2> QED
      BY <2>1, Toggled, PlayChangedAside
  <1> QED
    BY <1>1, <1>2, <1>3 DEF ControlCall

LEMMA NextPlayInv == PlayInv /\ [PlaybackNext]_playbackVars => PlayInv'
  <1> SUFFICES ASSUME PlayInv, [PlaybackNext]_playbackVars PROVE PlayInv'
    OBVIOUS
  <1>1. CASE ReadThread
    BY <1>1, ReadThreadPlayInv
  <1>2. CASE Decoder
    BY <1>2, DecoderPlayInv
  <1>3. CASE Renderer
    BY <1>3, RendererPlayInv
  <1>4. CASE Open
    BY <1>4, PlayKept DEF Open, StreamOpen, InSeek, playVars
  <1>5. CASE Call \/ StartFromBuffering \/ StartFromSeek
    BY <1>5, CallPlayInv DEF Call, ControlCall
  <1>6. CASE Idle \/ UNCHANGED playbackVars
    BY <1>6, PlayKept DEF Idle, playbackVars, playVars, readVars
  <1> QED
    BY <1>1, <1>2, <1>3, <1>4, <1>5, <1>6 DEF PlaybackNext, Threads

LEMMA PlayInvariance == PlaybackSpec => []PlayInv
  <1> QED
    BY InitPlayInv, NextPlayInv, PTL DEF PlaybackSpec

\* The application's view of the buffering is right however the seeks, the
\* starving decoder and the read thread interleave (ffp_toggle_buffering_l;
\* read_thread sets buffering_on itself when a seek starts the player).
THEOREM BufferingIsAnnounced == PlaybackSpec => []BufferingAnnounced
  <1>1. PlayInv => BufferingAnnounced
    BY DEF PlayInv
  <1> QED
    BY <1>1, PlayInvariance, PTL

\* Whatever the order of the updates of pause_req, buffering_on and step, the
\* player is not left paused without a cause (stream_update_pause_l).
THEOREM PausesHaveAReason == PlaybackSpec => []PausedForAReason
  <1>1. PlayInv => PausedForAReason
    BY DEF PlayInv
  <1> QED
    BY <1>1, PlayInvariance, PTL

-----------------------------------------------------------------------------
(* Nothing is shown after the end has been announced.  The read thread     *)
(* decides by a comparison of the decoder's finished serial with that of   *)
(* the packet queue, under no common lock, while a packet or a flush may   *)
(* be on its way through the decoder.                                      *)

Kinds == {"flush", "data", "null"}

\* No serial is ahead of the packet queue's.
Serials ==
  /\ serial \in Nat /\ pkt_serial \in Nat /\ finished \in Nat /\ frame \in Nat
  /\ pkt_serial <= serial /\ finished <= serial /\ frame <= serial
  /\ packets \in Seq(Kinds)

\* A flush packet that was not taken yet is the first in the queue, and the
\* decoder is still at an earlier serial.
FlushLeads ==
  \A i \in 1 .. Len(packets) : packets[i] = "flush" =>
    i = 1 /\ pkt_serial < serial /\ finished < serial

\* The serial starts with the streams; a seek has emptied the queue before it
\* puts its flush packet.
Opening == {"none", "open", "probe"}
Ending == {"cleanup", "join", "end"}
Stages ==
  /\ rpc \in Opening => serial = 0 /\ ~completed /\ dpc = "none"
  /\ rpc \notin Opening \union Ending => serial >= 1
  /\ rpc = "flushed" => packets = <<>>

\* A decoder that has met the end of the current serial has nothing of it.
Decoding == {"data", "null", "push"}
EndIsMet == finished = serial /\ serial >= 1 => pkt_serial = serial /\ dpc \notin Decoding

\* Once the end is announced, nothing is left, until a seek that has succeeded
\* withdraws it; by then the decoder may have taken its flush packet.
AfterCompletion ==
  completed =>
    /\ frame = 0 /\ serial >= 1 /\ dpc \notin Decoding
    /\ \/ finished = serial
       \/ rpc = "seeked" /\ \A i \in 1 .. Len(packets) : packets[i] = "flush"

EndInv == Serials /\ FlushLeads /\ Stages /\ EndIsMet /\ AfterCompletion

LEMMA NoPackets == <<>> \in Seq(Kinds) /\ Len(<<>>) = 0
  OBVIOUS

LEMMA OneFlush ==
  /\ <<"flush">> \in Seq(Kinds) /\ Len(<<"flush">>) = 1 /\ <<"flush">>[1] = "flush"
  BY DEF Kinds

LEMMA InitEndInv == PlaybackInit => EndInv
  <1> SUFFICES ASSUME PlaybackInit PROVE EndInv
    OBVIOUS
  <1>1. /\ packets = <<>> /\ serial = 0 /\ pkt_serial = 0 /\ finished = 0 /\ frame = 0
        /\ rpc = "none" /\ dpc = "none" /\ completed = FALSE
    BY DEF PlaybackInit
  <1>2. packets \in Seq(Kinds) /\ Len(packets) = 0
    BY <1>1, NoPackets
  <1>3. Serials /\ FlushLeads
    BY <1>1, <1>2 DEF Serials, FlushLeads
  <1>4. Stages /\ EndIsMet /\ AfterCompletion
    BY <1>1 DEF Stages, EndIsMet, AfterCompletion, Opening, Ending
  <1> QED
    BY <1>3, <1>4 DEF EndInv

\* A step that leaves the packets and the decoder alone, and does not announce
\* the end or enter a seek.
LEMMA EndKept ==
  ASSUME EndInv, UNCHANGED <<packets, serial, dpc, pkt_serial, finished, frame>>,
         completed' = completed,
         rpc' = rpc \/ (rpc = "none" /\ rpc' = "open")
           \/ (rpc \notin Opening \union {"seeked"} /\ rpc' \notin Opening \union {"flushed"}
               /\ (rpc \in Ending => rpc' \in Ending))
           \/ (rpc \in Opening /\ rpc' \in Opening \union Ending)
  PROVE  EndInv'
  BY DEF EndInv, Serials, FlushLeads, Stages, EndIsMet, AfterCompletion, Opening, Ending

-----------------------------------------------------------------------------
(* The read thread.                                                        *)

\* packet_queue_put, of packets that are not flush packets: they queue up.
LEMMA PacketsPut ==
  ASSUME EndInv, NEW new \in Seq({"data", "null"}),
         packets' = packets \/ packets' = packets \o new,
         UNCHANGED <<serial, dpc, pkt_serial, finished, frame, completed>>,
         rpc = "read", rpc' \in {"check", "read_failed"}
  PROVE  EndInv'
  <1>1. packets \in Seq(Kinds) /\ new \in Seq(Kinds) /\ packets \o new \in Seq(Kinds)
    <2>1. new \in Seq(Kinds)
      <3>1. {"data", "null"} \subseteq Kinds
        BY DEF Kinds
      <3>2. Len(new) \in Nat /\ \A i \in 1 .. Len(new) : new[i] \in Kinds
        BY <3>1
      <3> QED
        BY <3>2, SeqDef
    <2> QED
      BY <2>1, ConcatProperties DEF EndInv, Serials
  <1>2. \A i \in 1 .. Len(new) : new[i] # "flush"
    BY ElementOfSeq
  <1>3. \A i \in 1 .. Len(packets') : packets'[i] = "flush" =>
          i \in 1 .. Len(packets) /\ packets[i] = "flush"
    <2>1. CASE packets' = packets \o new
      <3>1. /\ Len(packets') = Len(packets) + Len(new) /\ Len(packets) \in Nat /\ Len(new) \in Nat
            /\ \A i \in 1 .. Len(packets) + Len(new) :
                 packets'[i] = IF i <= Len(packets) THEN packets[i] ELSE new[i - Len(packets)]
        BY <1>1, <2>1, ConcatProperties, LenProperties
      <3> QED
        BY <1>2, <3>1
    <2> QED
      BY <2>1
  <1>4. Serials'
    BY <1>1 DEF EndInv, Serials
  <1>5. FlushLeads'
    BY <1>3 DEF EndInv, FlushLeads
  <1> QED
    BY <1>4, <1>5 DEF EndInv, Stages, EndIsMet, AfterCompletion, Opening, Ending

\* avformat_seek_file has succeeded: the queue is emptied.
LEMMA SeekEndInv == EndInv /\ ReadSeek => EndInv'
  <1> SUFFICES ASSUME EndInv, ReadSeek PROVE EndInv'
    OBVIOUS
  <1>1. /\ rpc = "seek" /\ UNCHANGED <<serial, dpc, pkt_serial, finished, frame, completed>>
        /\ \/ packets' = <<>> /\ rpc' = "flushed"
           \/ packets' = packets /\ rpc' = "seeked"
    BY DEF ReadSeek, decoderVars
  <1>2. Serials' /\ FlushLeads'
    <2>1. CASE packets' = packets
      BY <1>1, <2>1 DEF EndInv, Serials, FlushLeads
    <2>2. CASE packets' = <<>>
      <3>1. packets' \in Seq(Kinds) /\ Len(packets') = 0
        BY <2>2, NoPackets
      <3> QED
        BY <1>1, <3>1 DEF EndInv, Serials, FlushLeads
    <2> QED
      BY <1>1, <2>1, <2>2
  <1>3. Stages' /\ EndIsMet'
    BY <1>1 DEF EndInv, Stages, EndIsMet, Opening, Ending
  <1>4. AfterCompletion'
    BY <1>1 DEF EndInv, AfterCompletion
  <1> QED
    BY <1>2, <1>3, <1>4 DEF EndInv

\* The flush packet starts a serial that no frame has and the decoder has not met.
LEMMA FlushEndInv == EndInv /\ ReadSeekFlush => EndInv'
  <1> SUFFICES ASSUME EndInv, ReadSeekFlush PROVE EndInv'
    OBVIOUS
  <1>1. /\ rpc = "flushed" /\ rpc' = "seeked"
        /\ UNCHANGED <<dpc, pkt_serial, finished, frame, completed>>
        /\ packets = <<>> /\ serial >= 1
    BY DEF ReadSeekFlush, decoderVars, EndInv, Stages, Opening, Ending
  <1>2. CASE pq_abort
    BY <1>1, <1>2, NoPackets
       DEF ReadSeekFlush, EndInv, Serials, FlushLeads, Stages, EndIsMet, AfterCompletion,
           Opening, Ending
  <1>3. CASE ~pq_abort
    <2>1. packets' = Append(packets, "flush") /\ serial' = serial + 1
      BY <1>3 DEF ReadSeekFlush, NextSerial
    <2>2. packets' \in Seq(Kinds) /\ Len(packets') = 1 /\ packets'[1] = "flush"
      BY <1>1, <2>1, NoPackets, AppendProperties DEF Kinds
    <2>3. Serials'
      BY <1>1, <2>1, <2>2 DEF EndInv, Serials
    <2>4. FlushLeads'
      BY <1>1, <2>1, <2>2 DEF EndInv, Serials, FlushLeads
    <2>5. Stages' /\ EndIsMet'
      BY <1>1, <2>1 DEF EndInv, Serials, Stages, EndIsMet, Opening, Ending
    <2>6. AfterCompletion'
      BY <1>1, <2>1, <2>2 DEF EndInv, Serials, AfterCompletion
    <2> QED
      BY <2>3, <2>4, <2>5, <2>6 DEF EndInv
  <1> QED
    BY <1>2, <1>3

LEMMA ProbeEndInv == EndInv /\ ReadProbe => EndInv'
  <1> SUFFICES ASSUME EndInv, ReadProbe PROVE EndInv'
    OBVIOUS
  <1>1. CASE rpc' = "cleanup" /\ UNCHANGED <<packets, serial, dpc>>
    BY <1>1, EndKept DEF ReadProbe, Opening, Ending
  <1>2. CASE packets' = <<"flush">> /\ serial' = 1 /\ dpc' = "get" /\ rpc' = "auto_start"
    <2>1. /\ UNCHANGED <<pkt_serial, finished, frame, completed>>
          /\ serial = 0 /\ ~completed
      BY DEF ReadProbe, EndInv, Stages, Opening
    <2>2. pkt_serial = 0 /\ finished = 0 /\ frame = 0
      BY <2>1 DEF EndInv, Serials
    <2>3. packets' \in Seq(Kinds) /\ Len(packets') = 1
      BY <1>2, OneFlush
    <2>4. Serials' /\ FlushLeads'
      BY <1>2, <2>1, <2>2, <2>3 DEF Serials, FlushLeads
    <2>5. Stages' /\ EndIsMet' /\ AfterCompletion'
      BY <1>2, <2>1, <2>2 DEF Stages, EndIsMet, AfterCompletion, Opening, Ending
    <2> QED
      BY <2>4, <2>5 DEF EndInv
  <1> QED
    BY <1>1, <1>2 DEF ReadProbe, packetVars

\* The end is announced when the decoder has finished the serial of the queue and
\* its last frame has been taken.
LEMMA CompleteEndInv == EndInv /\ ReadComplete => EndInv'
  BY DEF ReadComplete, Drained, packetVars, decoderVars, EndInv, Serials, FlushLeads, Stages,
         EndIsMet, AfterCompletion, Opening, Ending

LEMMA SeekedEndInv == EndInv /\ ReadSeeked => EndInv'
  BY DEF ReadSeeked, packetVars, decoderVars, EndInv, Serials, FlushLeads, Stages,
         EndIsMet, AfterCompletion, Opening, Ending

LEMMA ReadThreadEndInv == EndInv /\ ReadThread => EndInv'
  <1> SUFFICES ASSUME EndInv, ReadThread PROVE EndInv'
    OBVIOUS
  <1>1. CASE \/ ReadOpen \/ ReadAutoStart \/ ReadAutoClear \/ ReadLoop
    BY <1>1, EndKept
       DEF ReadOpen, ReadAutoStart, ReadAutoClear, ReadLoop, packetVars, decoderVars,
           Opening, Ending
  <1>2. CASE ReadSeekPlay \/ ReadSeekComplete \/ ReadSeekBuffering
    BY <1>2, EndKept
       DEF ReadSeekPlay, ReadSeekComplete, ReadSeekBuffering, packetVars, decoderVars,
           Opening, Ending
  <1>3. CASE ReadFull \/ ReadFullBuffering \/ ReadCompleted \/ ReadMore
    BY <1>3, EndKept
       DEF ReadFull, ReadFullBuffering, ReadCompleted, ReadMore, packetVars, decoderVars,
           Opening, Ending
  <1>4. CASE ReadCompleteBuffering \/ ReadCompletePause \/ ReadCompletePut
    BY <1>4, EndKept
       DEF ReadCompleteBuffering, ReadCompletePause, ReadCompletePut, packetVars,
           decoderVars, Opening, Ending
  <1>5. CASE ReadCheck \/ ReadFailed
    BY <1>5, EndKept DEF ReadCheck, ReadFailed, packetVars, decoderVars, Opening, Ending
  <1>6. CASE ReadCleanup \/ ReadJoin
    BY <1>6, EndKept DEF ReadCleanup, ReadJoin, packetVars, decoderVars, Opening, Ending
  <1>7. CASE ReadPacket
    <2>1. <<"data">> \in Seq({"data", "null"})
      OBVIOUS
    <2>2. packets' = packets \/ packets' = packets \o <<"data">>
      BY <1>7, AppendIsConcat DEF ReadPacket, EndInv, Serials, Kinds
    <2> QED
      BY <1>7, <2>1, <2>2, PacketsPut DEF ReadPacket, Answers, decoderVars
  <1>8. CASE ReadEnd \/ ReadError \/ ReadAgain
    <2>1. PICK atEof \in BOOLEAN, ioError \in BOOLEAN : ReadFails(atEof, ioError)
      BY <1>8 DEF ReadEnd, ReadError, ReadAgain
    <2>2. rpc = "read"
      BY <1>8 DEF ReadEnd, ReadError, ReadAgain, Answers
    <2> DEFINE nulls == (IF atEof /\ ~eof THEN <<"null">> ELSE <<>>)
                          \o (IF ioError THEN <<"null">> ELSE <<>>)
    <2>3. nulls \in Seq({"data", "null"})
      <3>1. /\ <<"null">> \in Seq({"data", "null"})
            /\ <<>> \in Seq({"data", "null"})
        OBVIOUS
      <3> QED
        BY <3>1, ConcatProperties
    <2>4. packets' = packets \/ packets' = packets \o nulls
      BY <2>1 DEF ReadFails
    <2> HIDE DEF nulls
    <2> QED
      BY <2>1, <2>2, <2>3, <2>4, PacketsPut DEF ReadFails, decoderVars
  <1> QED
    BY <1>1, <1>2, <1>3, <1>4, <1>5, <1>6, <1>7, <1>8, SeekEndInv, FlushEndInv, ProbeEndInv,
       CompleteEndInv, SeekedEndInv DEF ReadThread

-----------------------------------------------------------------------------
(* The decoder and the renderer.                                           *)

\* The decoder notes the serial of the queue, not of the packet: the two differ
\* only while a flush packet is the next to come.
LEMMA GetEndInv == EndInv /\ DecoderGet => EndInv'
  <1> SUFFICES ASSUME EndInv, DecoderGet PROVE EndInv'
    OBVIOUS
  <1>1. /\ dpc \in {"get", "blocked"} /\ packets # <<>> /\ packets' = Tail(packets)
        /\ pkt_serial' = serial /\ UNCHANGED <<serial, frame, rpc, completed>>
    BY DEF DecoderGet, readVars
  <1>2. /\ packets \in Seq(Kinds) /\ packets' \in Seq(Kinds) /\ Len(packets) >= 1
        /\ Len(packets') = Len(packets) - 1 /\ Len(packets) \in Nat
        /\ Head(packets) = packets[1] /\ packets[1] \in Kinds
        /\ \A i \in 1 .. Len(packets') : packets'[i] = packets[i + 1]
    BY <1>1, HeadTailProperties, EmptySeq DEF EndInv, Serials
  <1>3. \A i \in 1 .. Len(packets') : packets'[i] # "flush"
    BY <1>2 DEF EndInv, FlushLeads
  <1>4. rpc \notin Opening /\ rpc # "flushed"
    BY <1>1 DEF EndInv, Stages
  <1>5. CASE packets[1] = "flush"
    <2>1. finished' = 0 /\ dpc' = "get"
      BY <1>2, <1>5 DEF DecoderGet
    <2>2. finished < serial
      BY <1>2, <1>5 DEF EndInv, FlushLeads
    <2>3. Serials' /\ FlushLeads'
      BY <1>1, <1>2, <1>3, <2>1 DEF EndInv, Serials, FlushLeads
    <2>4. Stages' /\ EndIsMet'
      BY <1>1, <1>4, <2>1 DEF EndInv, Stages, EndIsMet, Decoding
    <2>5. AfterCompletion'
      <3>1. completed => /\ rpc = "seeked" /\ frame = 0 /\ serial >= 1
                         /\ \A i \in 1 .. Len(packets) : packets[i] = "flush"
        BY <2>2 DEF EndInv, Serials, AfterCompletion
      <3>2. completed => \A i \in 1 .. Len(packets') : packets'[i] = "flush"
        BY <1>2, <3>1
      <3> QED
        BY <1>1, <2>1, <3>1, <3>2 DEF AfterCompletion, Decoding
    <2> QED
      BY <2>3, <2>4, <2>5 DEF EndInv
  <1>6. CASE packets[1] # "flush"
    <2>1. finished' = finished /\ dpc' = IF finished = serial THEN "get" ELSE packets[1]
      BY <1>2, <1>6 DEF DecoderGet
    <2>2. Serials' /\ FlushLeads'
      BY <1>1, <1>2, <1>3, <2>1 DEF EndInv, Serials, FlushLeads
    <2>3. Stages' /\ EndIsMet'
      BY <1>1, <1>4, <2>1 DEF EndInv, Stages, EndIsMet, Decoding
    <2>4. completed => finished = serial
      BY <1>2, <1>6 DEF EndInv, AfterCompletion
    <2>5. AfterCompletion'
      BY <1>1, <2>1, <2>4 DEF EndInv, AfterCompletion, Decoding
    <2> QED
      BY <2>2, <2>3, <2>5 DEF EndInv
  <1> QED
    BY <1>5, <1>6

LEMMA DecoderEndInv == EndInv /\ Decoder => EndInv'
  <1> SUFFICES ASSUME EndInv, Decoder PROVE EndInv'
    OBVIOUS
  <1>1. CASE DecoderGet
    BY <1>1, GetEndInv
  <1>2. CASE DecoderEmpty \/ DecoderStarve \/ DecoderExit
    <2>1. /\ UNCHANGED <<packets, serial, pkt_serial, finished, frame, rpc, completed>>
          /\ dpc # "none" /\ dpc' \notin Decoding
      BY <1>2 DEF DecoderEmpty, DecoderStarve, DecoderExit, Abortable, packetVars, readVars,
                  Decoding
    <2> QED
      BY <2>1 DEF EndInv, Serials, FlushLeads, Stages, EndIsMet, AfterCompletion
  <1>3. CASE DecoderDecode
    <2>1. UNCHANGED <<packets, serial, pkt_serial, frame, rpc, completed>>
      BY <1>3 DEF DecoderDecode, packetVars, readVars
    <2>2. \/ dpc = "data" /\ dpc' \in {"push", "get"} /\ finished' = finished
          \/ dpc = "null" /\ dpc' = "get" /\ finished' = pkt_serial
      BY <1>3 DEF DecoderDecode
    <2> QED
      BY <2>1, <2>2
         DEF EndInv, Serials, FlushLeads, Stages, EndIsMet, AfterCompletion, Decoding
  <1>4. CASE DecoderPush
    <2>1. /\ UNCHANGED <<packets, serial, pkt_serial, finished, rpc, completed>>
          /\ dpc = "push" /\ dpc' = "get" /\ frame' = pkt_serial
      BY <1>4 DEF DecoderPush, packetVars, readVars
    <2> QED
      BY <2>1 DEF EndInv, Serials, FlushLeads, Stages, EndIsMet, AfterCompletion, Decoding
  <1> QED
    BY <1>1, <1>2, <1>3, <1>4 DEF Decoder

LEMMA RendererEndInv == EndInv /\ Renderer => EndInv'
  <1> SUFFICES ASSUME EndInv, Renderer PROVE EndInv'
    OBVIOUS
  <1>1. /\ UNCHANGED <<packets, serial, dpc, pkt_serial, finished, rpc, completed>>
        /\ frame' \in {frame, 0}
    BY DEF Renderer, RenderLoop, RenderNothing, RenderSkip, RenderShow, RenderShown,
           packetVars, decoderVars, readVars
  <1> QED
    BY <1>1 DEF EndInv, Serials, FlushLeads, Stages, EndIsMet, AfterCompletion

-----------------------------------------------------------------------------

LEMMA ThreadsEndInv == EndInv /\ Threads => EndInv'
  BY ReadThreadEndInv, DecoderEndInv, RendererEndInv DEF Threads

\* Whoever calls, and whatever starts the threads.
LEMMA OthersEndInv ==
  ASSUME EndInv, UNCHANGED <<packets, serial, decoderVars, frame, completed>>,
         rpc' = rpc \/ (rpc = "none" /\ rpc' = "open")
  PROVE  EndInv'
  BY EndKept DEF decoderVars

LEMMA NextEndInv == EndInv /\ [PlaybackNext]_playbackVars => EndInv'
  <1> SUFFICES ASSUME EndInv, [PlaybackNext]_playbackVars PROVE EndInv'
    OBVIOUS
  <1>1. CASE Threads
    BY <1>1, ThreadsEndInv
  <1>2. CASE Open
    BY <1>2, OthersEndInv DEF Open, StreamOpen, packetVars
  <1>3. CASE Call \/ StartFromBuffering \/ StartFromSeek
    BY <1>3, OthersEndInv
       DEF Call, CallStart, CallPause, CallSeek, CallStartFrom, CallStop,
           StartFromBuffering, StartFromSeek, packetVars, readVars
  <1>4. CASE Idle \/ UNCHANGED playbackVars
    BY <1>4, OthersEndInv DEF Idle, playbackVars, packetVars, readVars
  <1> QED
    BY <1>1, <1>2, <1>3, <1>4 DEF PlaybackNext

\* Completion is announced after the last frame was taken, and nothing is shown
\* after it until a seek (read_thread's test of the finished serials).
THEOREM CompletionIsFinal == PlaybackSpec => []NothingAfterCompletion
  <1>1. EndInv => NothingAfterCompletion
    BY DEF EndInv, AfterCompletion, Decoding, NothingAfterCompletion, Unshown
  <1> QED
    BY <1>1, InitEndInv, NextEndInv, PTL DEF PlaybackSpec

-----------------------------------------------------------------------------
(* Types.  That the serial stays within MaxCalls + 1 takes an argument: a  *)
(* seek is done for a call, and done once.                                 *)

QueueType ==
  /\ q \in Seq(Messages)
  /\ astray \in BOOLEAN /\ lost \in BOOLEAN

ThreadType ==
  /\ auto_start \in BOOLEAN /\ prepared \in BOOLEAN /\ error \in BOOLEAN
  /\ seek_req \in BOOLEAN /\ eof \in BOOLEAN /\ completed \in BOOLEAN
  /\ pq_abort \in BOOLEAN
  /\ ic \in {"null", "open", "video", "audio"}
  /\ rpc \in ReadStates
  /\ dpc \in {"none", "get", "starving", "blocked", "data", "null", "push", "end"}
  /\ vpc \in {"none", "loop", "refresh", "shown", "end"}

CallType ==
  /\ q_abort \in BOOLEAN /\ abort_request \in BOOLEAN
  /\ from \in {"", "buffering", "seek"}

CallCount == calls \in Nat /\ calls <= MaxCalls

\* What the read thread does to each variable of its own, and of the others'.
LEMMA ReadThreadSets ==
  ASSUME ReadThread
  PROVE  /\ auto_start' = auto_start \/ auto_start' = FALSE
         /\ prepared' = prepared \/ prepared' = TRUE
         /\ seek_req' = seek_req \/ seek_req' = FALSE
         /\ completed' = completed \/ completed' \in BOOLEAN
         /\ pq_abort' = pq_abort \/ pq_abort' \in BOOLEAN
         /\ ic' = ic \/ ic' \in {"null", "open"} \union Media
         /\ dpc' = dpc \/ dpc' = "get"
         /\ vpc' = vpc
  <1>1. CASE ReadOpen \/ ReadProbe \/ ReadAutoStart \/ ReadAutoClear \/ ReadLoop
    BY <1>1 DEF ReadOpen, ReadProbe, ReadAutoStart, ReadAutoClear, ReadLoop, playVars,
                decoderVars, packetVars
  <1>2. CASE \/ ReadSeek \/ ReadSeekFlush \/ ReadSeeked \/ ReadSeekPlay
             \/ ReadSeekComplete \/ ReadSeekBuffering
    BY <1>2 DEF ReadSeek, ReadSeekFlush, ReadSeeked, ReadSeekPlay, ReadSeekComplete,
                ReadSeekBuffering, playVars, decoderVars, packetVars
  <1>3. CASE \/ ReadFull \/ ReadFullBuffering \/ ReadCompleted \/ ReadComplete
             \/ ReadCompleteBuffering
    BY <1>3 DEF ReadFull, ReadFullBuffering, ReadCompleted, ReadComplete,
                ReadCompleteBuffering, playVars, decoderVars, packetVars
  <1>4. CASE \/ ReadCompletePause \/ ReadCompletePut \/ ReadMore \/ ReadPacket \/ ReadCheck
    BY <1>4 DEF ReadCompletePause, TogglePause, ReadCompletePut, ReadMore, ReadPacket,
                ReadCheck, playVars, decoderVars, packetVars
  <1>5. CASE ReadEnd \/ ReadError \/ ReadAgain
    BY <1>5 DEF ReadEnd, ReadError, ReadAgain, ReadFails, playVars, decoderVars
  <1>6. CASE ReadFailed \/ ReadCleanup \/ ReadJoin
    BY <1>6 DEF ReadFailed, ReadCleanup, ReadJoin, playVars, decoderVars, packetVars
  <1> QED
    BY <1>1, <1>2, <1>3, <1>4, <1>5, <1>6 DEF ReadThread

LEMMA ReadThreadReads ==
  ASSUME ThreadType, ReadThread
  PROVE  eof' \in BOOLEAN /\ error' \in BOOLEAN /\ rpc' \in ReadStates
  <1>0. eof \in BOOLEAN /\ error \in BOOLEAN
    BY DEF ThreadType
  <1> USE DEF ReadStates
  <1>1. CASE ReadOpen \/ ReadProbe \/ ReadAutoStart \/ ReadAutoClear \/ ReadLoop
    BY <1>0, <1>1 DEF ReadOpen, ReadProbe, ReadAutoStart, ReadAutoClear, ReadLoop
  <1>2. CASE \/ ReadSeek \/ ReadSeekFlush \/ ReadSeeked \/ ReadSeekPlay
             \/ ReadSeekComplete \/ ReadSeekBuffering
    BY <1>0, <1>2 DEF ReadSeek, ReadSeekFlush, ReadSeeked, ReadSeekPlay, ReadSeekComplete,
                      ReadSeekBuffering
  <1>3. CASE \/ ReadFull \/ ReadFullBuffering \/ ReadCompleted \/ ReadComplete
             \/ ReadCompleteBuffering
    BY <1>0, <1>3 DEF ReadFull, ReadFullBuffering, ReadCompleted, ReadComplete,
                      ReadCompleteBuffering
  <1>4. CASE \/ ReadCompletePause \/ ReadCompletePut \/ ReadMore \/ ReadPacket \/ ReadCheck
    BY <1>0, <1>4 DEF ReadCompletePause, ReadCompletePut, ReadMore, ReadPacket, ReadCheck
  <1>5. CASE ReadEnd \/ ReadError \/ ReadAgain
    BY <1>0, <1>5 DEF ReadEnd, ReadError, ReadAgain, ReadFails
  <1>6. CASE ReadFailed \/ ReadCleanup \/ ReadJoin
    BY <1>0, <1>6 DEF ReadFailed, ReadCleanup, ReadJoin
  <1> QED
    BY <1>1, <1>2, <1>3, <1>4, <1>5, <1>6 DEF ReadThread

LEMMA ThreadsCallNothing == Threads => UNCHANGED <<q_abort, abort_request, from, calls>>
  BY DEF Threads, ReadThread, ReadOpen, ReadProbe, ReadAutoStart,
         ReadAutoClear, ReadLoop, ReadSeek, ReadSeekFlush, ReadSeeked, ReadSeekPlay,
         ReadSeekComplete, ReadSeekBuffering, ReadFull, ReadFullBuffering, ReadCompleted,
         ReadComplete, ReadCompleteBuffering, ReadCompletePause, ReadCompletePut, ReadMore,
         ReadPacket, ReadCheck, ReadEnd, ReadError, ReadAgain, ReadFails, ReadFailed,
         ReadCleanup, ReadJoin, Decoder, DecoderGet, DecoderEmpty, DecoderStarve,
         DecoderDecode, DecoderPush, DecoderExit, Renderer, RenderLoop, RenderNothing,
         RenderSkip, RenderShow, RenderShown, callVars, msgVars

\* A message cut short of some of its predecessors is still one of the queue's.
LEMMA SubSeqIsSeq ==
  ASSUME NEW S, NEW s \in Seq(S), NEW n \in 0 .. Len(s)
  PROVE  SubSeq(s, 1, n) \in Seq(S)
  <1>1. Len(s) \in Nat /\ \A i \in 1 .. Len(s) : s[i] \in S
    BY ElementOfSeq
  <1>2. 1 \in Int /\ n \in Int /\ \A i \in 1 .. n : s[i] \in S
    BY <1>1
  <1> QED
    BY <1>2, SubSeqProperties

LEMMA NotifyQueueType ==
  ASSUME QueueType, NEW what \in Messages, Notify(what)
  PROVE  QueueType'
  <1>1. CASE UNCHANGED queueVars
    BY <1>1 DEF QueueType, queueVars
  <1>2. CASE q' = Append(q, what) /\ UNCHANGED <<astray, lost>>
    BY <1>2, AppendProperties DEF QueueType
  <1>3. CASE lost' = TRUE /\ UNCHANGED <<q, astray>>
    BY <1>3 DEF QueueType
  <1>4. ASSUME NEW n \in 0 .. Len(q), q' = Append(SubSeq(q, 1, n), what),
               astray' = FALSE, lost' = (lost \/ n # Len(q))
        PROVE  QueueType'
    <2>1. SubSeq(q, 1, n) \in Seq(Messages)
      BY SubSeqIsSeq DEF QueueType
    <2>2. q' \in Seq(Messages)
      BY <1>4, <2>1, AppendProperties
    <2> QED
      BY <1>4, <2>2 DEF QueueType
  <1> QED
    BY <1>1, <1>2, <1>3, <1>4 DEF Notify

LEMMA ThreadsQueueType == QueueType /\ Threads => QueueType'
  <1>1. Notified \subseteq Messages
    BY DEF Notified
  <1> SUFFICES ASSUME QueueType, Threads PROVE QueueType'
    OBVIOUS
  <1>2. CASE UNCHANGED queueVars
    BY <1>2 DEF QueueType, queueVars
  <1>3. CASE \E what \in Notified : Notify(what)
    BY <1>1, <1>3, NotifyQueueType
  <1> QED
    BY <1>2, <1>3, ThreadsNotify

LEMMA ThreadsType ==
  ASSUME EndInv, ThreadType, Threads
  PROVE  ThreadType'
  <1>1. CASE ReadThread
    <2>1. eof' \in BOOLEAN /\ error' \in BOOLEAN /\ rpc' \in ReadStates
      BY <1>1, ReadThreadReads
    <2>2. ic' \in {"null", "open", "video", "audio"}
      BY <1>1, ReadThreadSets, MediaAssumption DEF ThreadType
    <2>3. /\ auto_start' \in BOOLEAN /\ prepared' \in BOOLEAN /\ seek_req' \in BOOLEAN
          /\ completed' \in BOOLEAN /\ pq_abort' \in BOOLEAN
      BY <1>1, ReadThreadSets DEF ThreadType
    <2>4. /\ dpc' \in {"none", "get", "starving", "blocked", "data", "null", "push", "end"}
          /\ vpc' \in {"none", "loop", "refresh", "shown", "end"}
      BY <1>1, ReadThreadSets DEF ThreadType
    <2> QED
      BY <2>1, <2>2, <2>3, <2>4 DEF ThreadType
  <1>2. CASE DecoderGet
    <2>1. Head(packets) \in Kinds
      BY <1>2, HeadTailProperties DEF DecoderGet, EndInv, Serials
    <2>2. dpc' \in {"get", "data", "null"}
      BY <1>2, <2>1 DEF DecoderGet, Kinds
    <2>3. UNCHANGED <<auto_start, prepared, error, seek_req, eof, completed, pq_abort, ic,
                      rpc, vpc>>
      BY <1>2 DEF DecoderGet, playVars, readVars
    <2> QED
      BY <2>2, <2>3 DEF ThreadType
  <1>3. CASE DecoderEmpty \/ DecoderStarve \/ DecoderDecode \/ DecoderPush \/ DecoderExit
    <2>1. dpc' \in {"get", "starving", "blocked", "push", "end"}
      BY <1>3 DEF DecoderEmpty, DecoderStarve, DecoderDecode, DecoderPush, DecoderExit
    <2>2. UNCHANGED <<auto_start, prepared, error, seek_req, eof, completed, pq_abort, ic,
                      rpc, vpc>>
      BY <1>3 DEF DecoderEmpty, DecoderStarve, DecoderDecode, DecoderPush, DecoderExit,
                  playVars, readVars, packetVars
    <2> QED
      BY <2>1, <2>2 DEF ThreadType
  <1>4. CASE Renderer
    <2>1. vpc' \in {vpc, "loop", "refresh", "shown", "end"}
      BY <1>4 DEF Renderer, RenderLoop, RenderNothing, RenderSkip, RenderShow, RenderShown
    <2>2. UNCHANGED <<auto_start, prepared, error, seek_req, eof, completed, pq_abort, ic,
                      rpc, dpc>>
      BY <1>4 DEF Renderer, RenderLoop, RenderNothing, RenderSkip, RenderShow, RenderShown,
                  playVars, readVars, packetVars, decoderVars
    <2> QED
      BY <2>1, <2>2 DEF ThreadType
  <1> QED
    BY <1>1, <1>2, <1>3, <1>4 DEF Threads, Decoder

\* The serials that there are, the first one counted from the start, and the
\* one that the seek asked for will add.
SeekDue == IF seek_req /\ rpc # "seeked" THEN 1 ELSE 0
Spent == (IF rpc \in Opening THEN 1 ELSE serial) + SeekDue

SeekAsked == rpc \in {"seek", "flushed"} => seek_req

LEMMA SpentIs == EndInv => Spent \in Nat /\ serial <= Spent
  BY DEF EndInv, Serials, Stages, Spent, SeekDue

LEMMA SpentPrimeIs == (EndInv => Spent \in Nat /\ serial <= Spent)'
  BY SpentIs, PTL

LEMMA SumMonotone == \A n, a, b \in Nat : a <= b => n + a <= n + b /\ a + n <= b + n
  OBVIOUS

LEMMA SpentKept ==
  ASSUME serial \in Nat, serial' = serial, seek_req' = seek_req,
         rpc' \in Opening <=> rpc \in Opening, rpc = "seeked" => rpc' = "seeked"
  PROVE  Spent' <= Spent
  <1> DEFINE counted == IF rpc \in Opening THEN 1 ELSE serial
  <1>1. counted \in Nat /\ SeekDue \in Nat /\ SeekDue' \in Nat
    BY DEF SeekDue
  <1>2. SeekDue' <= SeekDue
    BY DEF SeekDue
  <1>3. Spent = counted + SeekDue /\ Spent' = counted + SeekDue'
    BY DEF Spent
  <1> HIDE DEF counted
  <1>4. counted + SeekDue' <= counted + SeekDue
    BY <1>1, <1>2, SumMonotone, Zenon
  <1> QED
    BY <1>3, <1>4

\* No thread asks for a seek; the read thread pays for each serial with one.
LEMMA ThreadsSpend ==
  ASSUME EndInv, SeekAsked, Threads
  PROVE  SeekAsked' /\ Spent' <= Spent
  <1>1. serial \in Nat
    BY DEF EndInv, Serials
  <1>2. CASE ReadProbe \/ ReadOpen
    <2>1. /\ serial = 0 /\ rpc \in {"open", "probe"} /\ seek_req' = seek_req
          /\ rpc' \in {"probe", "cleanup", "auto_start"}
          /\ serial' \in {0, 1} /\ (rpc' = "cleanup" => serial' = 0)
      BY <1>2 DEF ReadOpen, ReadProbe, EndInv, Stages, Opening, packetVars
    <2>2. SeekDue' = SeekDue /\ SeekDue \in Nat
      BY <2>1 DEF SeekDue
    <2>3. Spent = 1 + SeekDue
      BY <2>1 DEF Spent, Opening
    <2>4. \E n \in {0, 1} : Spent' = n + SeekDue
      BY <2>1, <2>2 DEF Spent, Opening
    <2> QED
      BY <2>1, <2>2, <2>3, <2>4 DEF SeekAsked
  <1>3. CASE ReadSeekFlush
    <2>1. /\ rpc = "flushed" /\ rpc' = "seeked" /\ seek_req
          /\ serial' = serial \/ serial' = serial + 1
      BY <1>3 DEF ReadSeekFlush, NextSerial, SeekAsked
    <2>2. SeekDue = 1 /\ SeekDue' = 0
      BY <2>1 DEF SeekDue
    <2>3. Spent = serial + 1 /\ Spent' = serial' + 0
      BY <2>1, <2>2 DEF Spent, Opening
    <2> QED
      BY <1>1, <2>1, <2>3 DEF SeekAsked
  <1>4. CASE ReadSeeked
    <2>1. rpc = "seeked" /\ rpc' = "seek_play" /\ seek_req' = FALSE /\ serial' = serial
      BY <1>4 DEF ReadSeeked, packetVars
    <2>2. SeekDue = 0 /\ SeekDue' = 0
      BY <2>1 DEF SeekDue
    <2> QED
      BY <1>1, <2>1, <2>2 DEF Spent, Opening, SeekAsked
  <1>5. CASE \/ ReadAutoStart \/ ReadAutoClear \/ ReadLoop \/ ReadSeek \/ ReadSeekPlay
             \/ ReadSeekComplete \/ ReadSeekBuffering
    <2>1. /\ serial' = serial /\ seek_req' = seek_req
          /\ rpc \notin Opening \union {"seeked"} /\ rpc' \notin Opening
          /\ rpc' \in {"seek", "flushed"} => seek_req \/ rpc = "seek"
      BY <1>5
         DEF ReadAutoStart, ReadAutoClear, ReadLoop, ReadSeek, ReadSeekPlay,
             ReadSeekComplete, ReadSeekBuffering, packetVars, Opening
    <2> QED
      BY <1>1, <2>1, SpentKept DEF SeekAsked
  <1>6. CASE \/ ReadFull \/ ReadFullBuffering \/ ReadCompleted \/ ReadComplete
             \/ ReadCompleteBuffering \/ ReadCompletePause \/ ReadCompletePut \/ ReadMore
             \/ ReadPacket \/ ReadCheck \/ ReadEnd \/ ReadError \/ ReadAgain \/ ReadFailed
             \/ ReadCleanup \/ ReadJoin
    <2>1. /\ serial' = serial /\ seek_req' = seek_req
          /\ rpc \notin Opening \union {"seeked"}
          /\ rpc' \notin Opening \union {"seek", "flushed"}
      BY <1>6
         DEF ReadFull, ReadFullBuffering, ReadCompleted, ReadComplete, ReadCompleteBuffering,
             ReadCompletePause, ReadCompletePut, ReadMore, ReadPacket, Answers, ReadCheck,
             ReadEnd, ReadError, ReadAgain, ReadFails, ReadFailed, ReadCleanup, ReadJoin,
             packetVars, Opening
    <2> QED
      BY <1>1, <2>1, SpentKept DEF SeekAsked
  <1>7. CASE Decoder \/ Renderer
    <2>1. UNCHANGED <<rpc, seek_req, serial>>
      BY <1>7
         DEF Decoder, DecoderGet, DecoderEmpty, DecoderStarve, DecoderDecode, DecoderPush,
             DecoderExit, Renderer, RenderLoop, RenderNothing, RenderSkip, RenderShow,
             RenderShown, readVars, packetVars
    <2> QED
      BY <1>1, <2>1, SpentKept DEF SeekAsked
  <1> QED
    BY <1>2, <1>3, <1>4, <1>5, <1>6, <1>7 DEF Threads, ReadThread

\* A seek that a start from a position will ask for is owed to its call.
StartDue == IF from = "" THEN 0 ELSE 1
InBudget == SeekAsked /\ Spent + StartDue <= calls + 1

TypeInv ==
  /\ PlayInv /\ EndInv
  /\ QueueType /\ ThreadType /\ CallType /\ CallCount
  /\ InBudget

LEMMA InitTypes == PlaybackInit => QueueType /\ ThreadType /\ CallType /\ CallCount
  <1> SUFFICES ASSUME PlaybackInit PROVE QueueType /\ ThreadType /\ CallType /\ CallCount
    OBVIOUS
  <1>1. QueueType
    <2>1. q = <<>> /\ astray = FALSE /\ lost = FALSE
      BY DEF PlaybackInit
    <2>2. <<>> \in Seq(Messages)
      OBVIOUS
    <2> QED
      BY <2>1, <2>2 DEF QueueType
  <1>2. ThreadType
    <2>1. /\ auto_start = FALSE /\ prepared = FALSE /\ error = FALSE
          /\ seek_req = FALSE /\ eof = FALSE /\ completed = FALSE
          /\ pq_abort = TRUE /\ ic = "null" /\ rpc = "none" /\ dpc = "none" /\ vpc = "none"
      BY DEF PlaybackInit
    <2> QED
      BY <2>1 DEF ThreadType, ReadStates
  <1>3. CallType
    <2>1. q_abort = TRUE /\ abort_request = FALSE /\ from = ""
      BY DEF PlaybackInit
    <2> QED
      BY <2>1 DEF CallType
  <1>4. CallCount
    <2>1. calls = 0
      BY DEF PlaybackInit
    <2> QED
      BY <2>1, MaxCallsAssumption DEF CallCount
  <1> QED
    BY <1>1, <1>2, <1>3, <1>4

LEMMA InitTypeInv == PlaybackInit => TypeInv
  <1> SUFFICES ASSUME PlaybackInit PROVE TypeInv
    OBVIOUS
  <1>1. rpc = "none" /\ seek_req = FALSE /\ from = "" /\ calls = 0
    BY DEF PlaybackInit
  <1>2. SeekDue = 0 /\ StartDue = 0
    BY <1>1 DEF SeekDue, StartDue
  <1>3. Spent = 1 + SeekDue
    BY <1>1 DEF Spent, Opening
  <1>4. Spent + StartDue <= calls + 1
    <2>1. Spent = 1 + 0 /\ StartDue = 0 /\ calls = 0
      BY <1>1, <1>2, <1>3
    <2>2. (1 + 0) + 0 <= 0 + 1
      OBVIOUS
    <2> QED
      BY <2>1, <2>2, Zenon
  <1>5. InBudget
    BY <1>1, <1>4 DEF InBudget, SeekAsked
  <1> QED
    BY <1>5, InitPlayInv, InitEndInv, InitTypes DEF TypeInv

LEMMA CallCounted ==
  ASSUME CallCount, calls' = calls + 1, calls < MaxCalls, MaxCalls \in Nat
  PROVE  CallCount'
  <1>1. \A n, most \in Nat : n < most => n + 1 \in Nat /\ n + 1 <= most
    OBVIOUS
  <1> QED
    BY <1>1, Zenon DEF CallCount

LEMMA TypesKept ==
  /\ QueueType /\ UNCHANGED queueVars => QueueType'
  /\ ThreadType /\ UNCHANGED <<auto_start, prepared, error, seek_req, eof, completed,
                               pq_abort, ic, rpc, dpc, vpc>> => ThreadType'
  /\ CallType /\ UNCHANGED <<q_abort, abort_request, from>> => CallType'
  /\ CallCount /\ calls' = calls => CallCount'
  <1>1. ThreadType /\ UNCHANGED <<auto_start, prepared, error, seek_req, eof, completed,
                                 pq_abort, ic, rpc, dpc, vpc>> => ThreadType'
    BY DEF ThreadType
  <1>2. CallType /\ UNCHANGED <<q_abort, abort_request, from>> => CallType'
    BY DEF CallType
  <1> QED
    BY <1>1, <1>2 DEF QueueType, queueVars, CallCount

\* A call is counted before the seek that it asks for.
LEMMA CallsInBudget ==
  ASSUME TypeInv, Call \/ StartFromBuffering \/ StartFromSeek
  PROVE  QueueType' /\ ThreadType' /\ CallType' /\ CallCount' /\ InBudget'
  <1>1. serial \in Nat /\ calls \in Nat
    BY MaxCallsAssumption DEF TypeInv, CallCount, EndInv, Serials
  <1>2. UNCHANGED <<q, astray, lost, prepared, error, eof, completed, pq_abort, ic, rpc, dpc,
                    vpc, serial>>
    BY DEF Call, CallStart, CallPause, CallSeek, CallStartFrom, CallStop,
           StartFromBuffering, StartFromSeek, msgVars, queueVars, readVars, packetVars, decoderVars
  <1>3. auto_start' = auto_start \/ auto_start' \in BOOLEAN
    BY DEF Call, CallStart, CallPause, CallSeek, CallStartFrom, CallStop,
           StartFromBuffering, StartFromSeek, TogglePause, playVars
  <1>4. seek_req' = seek_req \/ seek_req' = TRUE
    BY DEF Call, CallStart, CallPause, CallSeek, CallStartFrom, CallStop,
           StartFromBuffering, StartFromSeek, StreamSeek
  <1>5. QueueType' /\ ThreadType'
    <2>1. auto_start' \in BOOLEAN /\ seek_req' \in BOOLEAN
      BY <1>3, <1>4 DEF TypeInv, ThreadType
    <2>2. QueueType'
      BY <1>2 DEF TypeInv, QueueType
    <2> QED
      BY <1>2, <2>1, <2>2 DEF TypeInv, ThreadType
  <1>6. /\ from' \in {"buffering", "seek", "", from}
        /\ abort_request' = abort_request \/ abort_request' = TRUE
        /\ q_abort' = q_abort \/ q_abort' = TRUE
        /\ calls' = calls \/ (calls' = calls + 1 /\ calls < MaxCalls)
    BY DEF Call, CallStart, CallPause, CallSeek, CallStartFrom, CallStop,
           StartFromBuffering, StartFromSeek, msgVars
  <1>7. CallType' /\ CallCount'
    <2>1. CallType'
      BY <1>6 DEF TypeInv, CallType
    <2>2. CallCount'
      BY <1>6, CallCounted, TypesKept, MaxCallsAssumption, Zenon DEF TypeInv
    <2> QED
      BY <2>1, <2>2
  <1>8. SeekAsked'
    BY <1>2, <1>4 DEF TypeInv, InBudget, SeekAsked
  <1>9. Spent' + StartDue' <= calls' + 1
    <2> DEFINE counted == IF rpc \in Opening THEN 1 ELSE serial
    <2>1. Spent = counted + SeekDue /\ Spent' = counted + SeekDue'
      BY <1>2 DEF Spent
    <2>2. counted \in Nat
      BY <1>1
    <2>3. seek_req' = seek_req => SeekDue' = SeekDue
      BY <1>2 DEF SeekDue
    <2>4. SeekDue \in 0 .. 1 /\ SeekDue' \in 0 .. 1 /\ StartDue \in 0 .. 1 /\ StartDue' \in 0 .. 1
      BY DEF SeekDue, StartDue
    <2> HIDE DEF counted
    <2>5. counted + SeekDue + StartDue <= calls + 1
      BY <2>1 DEF TypeInv, InBudget
    <2>6. counted + SeekDue' + StartDue' <= calls' + 1
      <3>1. CASE Call
        <4>1. /\ from = "" /\ calls' = calls + 1
              /\ from' = "" \/ (from' = "buffering" /\ seek_req' = seek_req)
          BY <3>1 DEF Call, CallStart, CallPause, CallSeek, CallStartFrom, CallStop
        <4>2. StartDue = 0 /\ (StartDue' = 0 \/ SeekDue' = SeekDue)
          BY <2>3, <4>1 DEF StartDue
        <4>3. \A n, made \in Nat : \A due, dueThen, more \in 0 .. 1 :
                n + due + 0 <= made + 1 /\ (more = 0 \/ dueThen = due) =>
                  n + dueThen + more <= made + 1 + 1
          OBVIOUS
        <4>4. counted + SeekDue' + StartDue' <= calls + 1 + 1
          BY <1>1, <2>2, <2>4, <2>5, <4>2, <4>3, Zenon
        <4> QED
          BY <4>1, <4>4
      <3>2. CASE StartFromBuffering
        <4>1. from = "buffering" /\ from' = "seek" /\ calls' = calls /\ seek_req' = seek_req
          BY <3>2 DEF StartFromBuffering
        <4>2. StartDue = 1 /\ StartDue' = 1 /\ SeekDue' = SeekDue
          BY <2>3, <4>1 DEF StartDue
        <4> QED
          BY <2>5, <4>1, <4>2
      <3>3. CASE StartFromSeek
        <4>1. from = "seek" /\ from' = "" /\ calls' = calls
          BY <3>3 DEF StartFromSeek
        <4>2. StartDue = 1 /\ StartDue' = 0
          BY <4>1 DEF StartDue
        <4>3. \A n, made \in Nat : \A due, dueThen \in 0 .. 1 :
                n + due + 1 <= made + 1 => n + dueThen + 0 <= made + 1
          OBVIOUS
        <4>4. counted + SeekDue' + StartDue' <= calls + 1
          BY <1>1, <2>2, <2>4, <2>5, <4>2, <4>3, Zenon
        <4> QED
          BY <4>1, <4>4
      <3> QED
        BY <3>1, <3>2, <3>3
    <2> QED
      BY <2>1, <2>6
  <1> QED
    BY <1>5, <1>7, <1>8, <1>9 DEF InBudget

LEMMA TypesOpened ==
  ASSUME ThreadType, rpc' = "open", vpc' = "loop",
         UNCHANGED <<auto_start, prepared, error, seek_req, eof, completed, pq_abort, ic, dpc>>
  PROVE  ThreadType'
  BY DEF ThreadType, ReadStates

LEMMA NextTypeInv == TypeInv /\ [PlaybackNext]_playbackVars => TypeInv'
  <1> SUFFICES ASSUME TypeInv, [PlaybackNext]_playbackVars PROVE TypeInv'
    OBVIOUS
  <1>1. PlayInv' /\ EndInv'
    BY NextPlayInv, NextEndInv DEF TypeInv
  <1>2. CASE Threads
    <2>1. UNCHANGED <<q_abort, abort_request, from, calls>>
      BY <1>2, ThreadsCallNothing
    <2>2. QueueType' /\ ThreadType' /\ CallType'
      BY <1>2, <2>1, ThreadsQueueType, ThreadsType DEF TypeInv, CallType
    <2>c. CallCount'
      BY <2>1 DEF TypeInv, CallCount
    <2>3. SeekAsked' /\ Spent' <= Spent
      BY <1>2, ThreadsSpend DEF TypeInv, InBudget
    <2>4. Spent \in Nat /\ Spent' \in Nat
      BY <1>1, SpentIs, SpentPrimeIs DEF TypeInv
    <2>5. calls \in Nat /\ StartDue \in 0 .. 1 /\ StartDue' = StartDue /\ calls' = calls
      BY <2>1, MaxCallsAssumption DEF TypeInv, CallCount, StartDue
    <2>6. Spent + StartDue <= calls + 1
      BY DEF TypeInv, InBudget
    <2>7. Spent' + StartDue <= calls + 1
      <3>1. \A n, then, made \in Nat : \A more \in 0 .. 1 :
              then <= n /\ n + more <= made + 1 => then + more <= made + 1
        OBVIOUS
      <3> QED
        BY <2>3, <2>4, <2>5, <2>6, <3>1, Zenon
    <2> QED
      BY <1>1, <2>2, <2>c, <2>3, <2>5, <2>7 DEF TypeInv, InBudget
  <1>3. CASE Open
    <2>1. /\ rpc = "none" /\ rpc' = "open" /\ vpc' = "loop"
          /\ UNCHANGED <<queueVars, q_abort, auto_start, prepared, error, seek_req, eof,
                         completed, pq_abort, ic, dpc, abort_request, from, calls, serial>>
      BY <1>3 DEF Open, StreamOpen, msgVars, playVars, packetVars, decoderVars, callVars
    <2>2. QueueType' /\ ThreadType' /\ CallType' /\ CallCount'
      BY <2>1, TypesOpened, TypesKept DEF TypeInv
    <2>3. SeekDue' = SeekDue /\ StartDue' = StartDue
      BY <2>1 DEF SeekDue, StartDue
    <2>4. Spent' = Spent
      BY <2>1, <2>3 DEF Spent, Opening
    <2>5. calls' = calls /\ SeekAsked'
      BY <2>1 DEF SeekAsked
    <2> QED
      BY <1>1, <2>2, <2>3, <2>4, <2>5 DEF TypeInv, InBudget
  <1>4. CASE Call \/ StartFromBuffering \/ StartFromSeek
    BY <1>1, <1>4, CallsInBudget DEF TypeInv
  <1>5. CASE Idle \/ UNCHANGED playbackVars
    <2>1. UNCHANGED <<queueVars, q_abort, auto_start, prepared, error, seek_req, eof, completed,
                      pq_abort, ic, rpc, dpc, vpc, abort_request, from, calls, serial>>
      BY <1>5 DEF Idle, playbackVars, msgVars, playVars, readVars, packetVars, decoderVars,
                  callVars
    <2>2. QueueType' /\ ThreadType' /\ CallType' /\ CallCount'
      BY <2>1, TypesKept DEF TypeInv
    <2>3. SeekDue' = SeekDue /\ StartDue' = StartDue
      BY <2>1 DEF SeekDue, StartDue
    <2>4. Spent' = Spent
      BY <2>1, <2>3 DEF Spent, Opening
    <2>5. calls' = calls /\ SeekAsked'
      BY <2>1 DEF TypeInv, InBudget, SeekAsked
    <2> QED
      BY <1>1, <2>2, <2>3, <2>4, <2>5 DEF TypeInv, InBudget
  <1> QED
    BY <1>2, <1>3, <1>4, <1>5 DEF PlaybackNext

LEMMA TypesHold ==
  ASSUME PlayInv, EndInv, QueueType, ThreadType, CallType, CallCount, Spent <= calls + 1
  PROVE  PlaybackTypeOK
  <1>0. MaxCalls \in Nat /\ calls \in Nat /\ calls <= MaxCalls
    BY MaxCallsAssumption DEF CallCount
  <1>1. {serial, pkt_serial, finished, frame} \subseteq 0 .. MaxCalls + 1
    <2>1. Spent \in Nat /\ serial <= Spent
      BY SpentIs
    <2>2. /\ serial \in Nat /\ pkt_serial \in Nat /\ finished \in Nat /\ frame \in Nat
          /\ pkt_serial <= serial /\ finished <= serial /\ frame <= serial
      BY DEF EndInv, Serials
    <2> QED
      BY <1>0, <2>1, <2>2
  <1>2. /\ play \in [pause_req : BOOLEAN, buffering_on : BOOLEAN,
                     step : BOOLEAN, paused : BOOLEAN]
        /\ announced \in BOOLEAN
    BY DEF PlayInv, PlayType
  <1>3. packets \in Seq({"flush", "data", "null"})
    BY DEF EndInv, Serials, Kinds
  <1>4. {q_abort, announced, auto_start, prepared, error, abort_request, seek_req,
         eof, completed, pq_abort, astray, lost} \subseteq BOOLEAN
    BY <1>2 DEF QueueType, ThreadType, CallType
  <1>5. calls \in 0 .. MaxCalls
    BY <1>0
  <1> QED
    BY <1>1, <1>2, <1>3, <1>4, <1>5, Zenon
       DEF QueueType, ThreadType, CallType, Messages, PlaybackTypeOK

\* The types; no serial is used up but by a call that was made, however the
\* seeks overtake each other (stream_seek, read_thread, ffp_start_from_l).
THEOREM PlaybackTypesCorrect == PlaybackSpec => []PlaybackTypeOK
  <1>1. TypeInv => PlaybackTypeOK
    <2> SUFFICES ASSUME TypeInv PROVE PlaybackTypeOK
      OBVIOUS
    <2>1. Spent \in Nat /\ calls \in Nat /\ StartDue \in 0 .. 1
      BY SpentIs, MaxCallsAssumption DEF TypeInv, StartDue, CallCount
    <2>2. Spent + StartDue <= calls + 1
      BY DEF TypeInv, InBudget
    <2>3. Spent <= calls + 1
      BY <2>1, <2>2
    <2> QED
      BY <2>3, TypesHold DEF TypeInv
  <1> QED
    BY <1>1, InitTypeInv, NextTypeInv, PTL DEF PlaybackSpec

=============================================================================
