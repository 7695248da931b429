------------------------- MODULE MediaCodecProofs --------------------------
(***************************************************************************)
(* What MediaCodec promises for any capacity of pictq and of the codec,    *)
(* and any number of packets, seeks and pauses.  IInv is the inductive     *)
(* invariant: where the flush packet of a seek is in videoq, and what      *)
(* input_packet_count says of the codec.                                   *)
(***************************************************************************)
EXTENDS MediaCodec, TLAPS

\* Only the first packet of videoq may be a flush; unless it is one, the input
\* thread has taken the flush of the queue's serial.
FlushFirst ==
  /\ \A i \in 2..Len(videoq) : videoq[i] # "flush"
  /\ (videoq = <<>> \/ videoq[1] # "flush") => pkt_serial = serial

\* A codec into which nothing has been put since the last flush is empty.
CountTells == input_packet_count = 0 => inside = <<>>

\* There is room in the codec for the packet about to be put into it.
BufferHeld == fpc = "queue" => Len(inside) < Inputs

\* The packets are of the serial the input thread has taken, which is one.
HoldsTaken ==
  fpc \in {"flush", "input", "queue", "fake"} \/ packet_pending # "none"
    => pkt_serial \in Serials

IInv ==
  /\ Places /\ Counters /\ Queues /\ serial = seeks + 1
  /\ FlushFirst /\ CountTells /\ BufferHeld /\ HoldsTaken /\ InsideIsCurrent

-----------------------------------------------------------------------------

LEMMA Nothing == \A S : <<>> \in Seq(S)
  OBVIOUS

LEMMA Appended == \A S : \A s \in Seq(S), e \in S : Append(s, e) \in Seq(S)
  OBVIOUS

LEMMA FlushAlone ==
  <<"flush">> \in Seq({"flush", "packet"}) /\ <<"flush">> \in Seq({"flush", "packet", "null"})
  OBVIOUS

\* A flag is only set to a flag.
LEMMA NextFlags == Flags /\ [Next]_vars => Flags'
  <1> SUFFICES ASSUME Flags, [Next]_vars PROVE Flags'
    OBVIOUS
  <1> USE DEF Flags, feedVars, codecVars, fakeVars, drainVars, queueVars, playVars
  <1>1. CASE ReadPacket \/ Seek \/ SeekPlay \/ EndBuffering
    BY <1>1 DEF ReadPacket, Seek, SeekPlay, EndBuffering
  <1>2. CASE TogglePause \/ Abort \/ Render \/ Fail
    BY <1>2 DEF TogglePause, Abort, Render, Fail
  <1>3. CASE FeedLoop \/ FeedStarve \/ FeedAborted \/ FeedGet \/ FeedFlush
    BY <1>3 DEF FeedLoop, FeedStarve, FeedAborted, FeedGet, FeedFlush
  <1>4. CASE FeedFinish \/ FeedInput \/ FeedQueue \/ FeedFake \/ FeedExit
    BY <1>4 DEF FeedFinish, FeedInput, FeedQueue, FeedFake, FeedExit, FakeAborted
  <1>5. CASE \/ DrainLoop \/ DrainLock \/ DrainTimeOut \/ DrainRelock \/ DrainNothing
             \/ DrainException
    BY <1>5 DEF DrainLoop, DrainLock, DrainTimeOut, DrainRelock, DrainNothing, DrainException,
                DrainGoes
  <1>6. CASE DrainPicture \/ DrainFakeAborted \/ DrainFake \/ DrainPushAborted \/ DrainPush
    BY <1>6 DEF DrainPicture, DrainFakeAborted, DrainFake, DrainPushAborted, DrainPush, DrainGoes
  <1>7. CASE DrainExit \/ DrainJoin \/ UNCHANGED vars
    BY <1>7 DEF DrainExit, DrainJoin, DrainGoes, vars
  <1> QED
    BY <1>1, <1>2, <1>3, <1>4, <1>5, <1>6, <1>7 DEF Next, Feed, Drain

LEMMA FlagsInvariance == Spec => []Flags
  <1>1. Init => Flags
    BY DEF Init, Flags
  <1> QED
    BY <1>1, NextFlags, PTL DEF Spec

LEMMA InitIInv == Init => IInv
  <1> SUFFICES ASSUME Init PROVE IInv
    OBVIOUS
  <1> USE SizesAssumption, BoundsAssumption DEF Init
  <1>1. Places /\ Counters
    BY DEF Places, Counters, Serials
  <1>2. Queues
    BY FlushAlone, Nothing DEF Queues
  <1>3. FlushFirst /\ CountTells /\ BufferHeld /\ HoldsTaken /\ InsideIsCurrent
    BY DEF FlushFirst, CountTells, BufferHeld, HoldsTaken, InsideIsCurrent
  <1> QED
    BY <1>1, <1>2, <1>3 DEF IInv

\* A step that leaves these alone can only disturb the types.
coreVars == <<videoq, serial, seeks, pkt_serial, packet_pending, fpc, input_packet_count, inside>>

LEMMA CoreKept ==
  ASSUME IInv, UNCHANGED coreVars, Places', Counters', Queues'
  PROVE  IInv'
  BY DEF IInv, coreVars, FlushFirst, CountTells, BufferHeld, HoldsTaken, InsideIsCurrent

\* The rest of the player: a new packet comes last, the flush of a seek is alone.
LEMMA PlayerIInv ==
  /\ IInv
  /\ ReadPacket \/ Seek \/ SeekPlay \/ EndBuffering \/ TogglePause \/ Abort \/ Render \/ Fail
  => IInv'
  <1> SUFFICES ASSUME IInv,
                      ReadPacket \/ Seek \/ SeekPlay \/ EndBuffering \/ TogglePause \/ Abort
                      \/ Render \/ Fail
               PROVE  IInv'
    OBVIOUS
  <1> USE SizesAssumption, BoundsAssumption
      DEF IInv, Serials, feedVars, codecVars, fakeVars, drainVars, queueVars, playVars
  <1>1. CASE ReadPacket
    <2> USE <1>1 DEF ReadPacket
    <2>a. PICK what \in {"packet", "null"} : videoq' = Append(videoq, what)
      OBVIOUS
    <2>1. Places' /\ Counters' /\ (serial = seeks + 1)'
      BY <2>a DEF Places, Counters
    <2>2. Queues'
      BY <2>a DEF Queues
    <2>3. FlushFirst'
      BY <2>a DEF Queues, FlushFirst
    <2>4. CountTells' /\ BufferHeld' /\ HoldsTaken'
      BY DEF CountTells, BufferHeld, HoldsTaken
    <2>5. InsideIsCurrent'
      BY DEF InsideIsCurrent
    <2> QED
      BY <2>1, <2>2, <2>3, <2>4, <2>5
  <1>2. CASE Seek
    <2> USE <1>2 DEF Seek
    <2>1. Places' /\ Counters' /\ (serial = seeks + 1)'
      BY DEF Places, Counters
    <2>2. Queues'
      BY FlushAlone DEF Queues
    <2>3. FlushFirst'
      BY FlushAlone DEF Queues, FlushFirst
    <2>4. CountTells' /\ BufferHeld' /\ HoldsTaken'
      BY DEF CountTells, BufferHeld, HoldsTaken
    <2>5. InsideIsCurrent'
      BY DEF InsideIsCurrent
    <2> QED
      BY <2>1, <2>2, <2>3, <2>4, <2>5
  <1>3. CASE SeekPlay \/ EndBuffering \/ TogglePause \/ Abort \/ Fail
    <2> USE <1>3 DEF SeekPlay, EndBuffering, TogglePause, Abort, Fail
    <2>1. UNCHANGED <<coreVars, finished, queued, packets, fake_pictq, pictq>>
      BY DEF coreVars
    <2>2. pauses' \in 0..MaxPauses
      BY DEF Counters
    <2>3. Places'
      BY DEF Places
    <2>4. Counters' /\ Queues'
      BY <2>1, <2>2 DEF Counters, Queues
    <2> QED
      BY <2>1, <2>3, <2>4, CoreKept
  <1>4. CASE Render
    <2> USE <1>4 DEF Render
    <2>1. UNCHANGED coreVars /\ Places' /\ Counters'
      BY DEF coreVars, Places, Counters
    <2>2. Queues'
      BY DEF Queues
    <2> QED
      BY <2>1, <2>2, CoreKept
  <1> QED
    BY <1>1, <1>2, <1>3, <1>4

\* The input thread: it takes the flush of a new serial before a packet of it.
LEMMA FeedIInv == IInv /\ Feed => IInv'
  <1> SUFFICES ASSUME IInv, Feed PROVE IInv'
    OBVIOUS
  <1> USE SizesAssumption, BoundsAssumption
      DEF IInv, Serials, feedVars, codecVars, fakeVars, drainVars, queueVars, playVars
  <1>1. CASE FeedLoop \/ FeedStarve \/ FeedAborted \/ FeedExit
    <2> USE <1>1 DEF FeedLoop, FeedStarve, FeedAborted, FeedExit, FakeAborted
    <2>1. Places' /\ Counters' /\ (serial = seeks + 1)'
      BY DEF Places, Counters
    <2>2. Queues'
      BY DEF Queues
    <2>3. FlushFirst'
      BY DEF Queues, FlushFirst
    <2>4. CountTells' /\ BufferHeld' /\ HoldsTaken'
      BY DEF CountTells, BufferHeld, HoldsTaken
    <2>5. InsideIsCurrent'
      BY DEF InsideIsCurrent
    <2> QED
      BY <2>1, <2>2, <2>3, <2>4, <2>5
  <1>2. CASE FeedGet
    <2> USE <1>2 DEF FeedGet
    <2>1. Places' /\ Counters' /\ (serial = seeks + 1)'
      BY DEF Places, Counters, Queues
    <2>2. Queues'
      BY DEF Queues
    <2>3. FlushFirst'
      BY DEF Queues, FlushFirst
    <2>4. CountTells' /\ BufferHeld' /\ HoldsTaken'
      BY DEF Counters, CountTells, BufferHeld, HoldsTaken
    <2>5. InsideIsCurrent'
      BY DEF FlushFirst, InsideIsCurrent
    <2> QED
      BY <2>1, <2>2, <2>3, <2>4, <2>5
  <1>3. CASE FeedFlush
    <2> USE <1>3 DEF FeedFlush
    <2>a. inside' = <<>>
      BY DEF Flushed, CountTells, Counters
    <2>1. Places' /\ Counters' /\ (serial = seeks + 1)'
      BY DEF Places, Counters
    <2>2. Queues'
      BY <2>a, Nothing DEF Queues
    <2>3. FlushFirst'
      BY DEF FlushFirst
    <2>4. CountTells' /\ BufferHeld' /\ HoldsTaken'
      BY <2>a DEF CountTells, BufferHeld, HoldsTaken
    <2>5. InsideIsCurrent'
      BY <2>a DEF InsideIsCurrent
    <2> QED
      BY <2>1, <2>2, <2>3, <2>4, <2>5
  <1>4. CASE FeedFinish
    <2> USE <1>4 DEF FeedFinish
    <2>1. Places' /\ Counters' /\ (serial = seeks + 1)'
      BY DEF Places, Counters
    <2>2. Queues'
      BY DEF Queues
    <2>3. FlushFirst'
      BY DEF Queues, FlushFirst
    <2>4. CountTells' /\ BufferHeld' /\ HoldsTaken'
      BY DEF CountTells, BufferHeld, HoldsTaken
    <2>5. InsideIsCurrent'
      BY DEF InsideIsCurrent
    <2> QED
      BY <2>1, <2>2, <2>3, <2>4, <2>5
  <1>5. CASE FeedInput
    <2> USE <1>5 DEF FeedInput
    <2>1. Places' /\ Counters' /\ (serial = seeks + 1)'
      BY DEF Places, Counters
    <2>2. Queues'
      BY Nothing DEF Queues
    <2>3. FlushFirst'
      BY Nothing DEF Queues, FlushFirst
    <2>4. CountTells' /\ BufferHeld' /\ HoldsTaken'
      BY DEF CountTells, BufferHeld, HoldsTaken
    <2>5. InsideIsCurrent'
      BY DEF InsideIsCurrent
    <2> QED
      BY <2>1, <2>2, <2>3, <2>4, <2>5
  <1>6. CASE FeedQueue
    <2> USE <1>6 DEF FeedQueue
    <2>1. Places' /\ Counters' /\ (serial = seeks + 1)'
      BY DEF Places, Counters
    <2>2. CASE codec = "running" /\ inside' = Append(inside, pkt_serial)
                /\ input_packet_count' = input_packet_count + 1 /\ packet_pending' = "none"
                /\ fpc' = "loop"
      <3>1. inside' = Append(inside, pkt_serial) /\ pkt_serial \in Serials
        BY <2>2 DEF HoldsTaken
      <3>2. inside' \in Seq(Serials) /\ Len(inside') = Len(inside) + 1
        BY <3>1 DEF Queues
      <3>3. Queues'
        BY <3>2 DEF Queues, BufferHeld
      <3>4. FlushFirst'
        BY DEF FlushFirst
      <3>5. CountTells' /\ BufferHeld' /\ HoldsTaken'
        BY <2>2, <3>1 DEF CountTells, Counters, BufferHeld, HoldsTaken
      <3>6. InsideIsCurrent'
        BY <3>1 DEF InsideIsCurrent, Queues
      <3> QED
        BY <2>1, <3>3, <3>4, <3>5, <3>6
    <2>3. CASE fpc' = "exit" /\ UNCHANGED <<inside, input_packet_count, packet_pending>>
      <3>1. UNCHANGED <<inside, input_packet_count, packet_pending>> /\ fpc' = "exit"
        BY <2>3
      <3> QED
        BY <2>1, <3>1
        DEF Queues, FlushFirst, CountTells, BufferHeld, HoldsTaken, InsideIsCurrent
    <2> QED
      BY <2>2, <2>3
  <1>7. CASE FeedFake
    <2> USE <1>7 DEF FeedFake
    <2>1. Places' /\ Counters' /\ (serial = seeks + 1)'
      BY DEF Places, Counters
    <2>2. fake_pictq' = fake_pictq \/ fake_pictq' = Append(fake_pictq, "packet")
      OBVIOUS
    <2>3. fake_pictq' \in Seq({"flush", "packet"})
      BY <2>2, Appended, Zenon DEF Queues
    <2>4. Queues' /\ FlushFirst' /\ CountTells'
      BY <2>3 DEF Queues, FlushFirst, CountTells
    <2>5. BufferHeld' /\ HoldsTaken' /\ InsideIsCurrent'
      BY DEF BufferHeld, HoldsTaken, InsideIsCurrent
    <2> QED
      BY <2>1, <2>4, <2>5
  <1> QED
    BY <1>1, <1>2, <1>3, <1>4, <1>5, <1>6, <1>7 DEF Feed

\* The video thread only takes from the codec.
LEMMA DrainIInv == IInv /\ Drain => IInv'
  <1> SUFFICES ASSUME IInv, Drain PROVE IInv'
    OBVIOUS
  <1> USE SizesAssumption, BoundsAssumption
      DEF IInv, Serials, feedVars, codecVars, fakeVars, drainVars, queueVars, playVars
  <1>1. ASSUME NEW to, DrainGoes(to), Places' PROVE IInv'
    <2>1. UNCHANGED coreVars /\ Counters' /\ Queues'
      BY <1>1 DEF DrainGoes, coreVars, Counters, Queues
    <2> QED
      BY <1>1, <2>1, CoreKept
  <1>2. CASE DrainLoop \/ DrainLock \/ DrainTimeOut \/ DrainRelock \/ DrainNothing
    <2>1. Places'
      BY <1>2 DEF DrainLoop, DrainLock, DrainTimeOut, DrainRelock, DrainNothing, DrainGoes, Places
    <2> QED
      BY <1>1, <1>2, <2>1 DEF DrainLoop, DrainLock, DrainTimeOut, DrainRelock, DrainNothing
  <1>3. CASE DrainException \/ DrainFakeAborted \/ DrainPushAborted \/ DrainJoin
    <2>1. Places'
      BY <1>3 DEF DrainException, DrainFakeAborted, DrainPushAborted, DrainJoin, DrainGoes, Places
    <2> QED
      BY <1>1, <1>3, <2>1 DEF DrainException, DrainFakeAborted, DrainPushAborted, DrainJoin
  <1>4. CASE DrainPicture
    <2> USE <1>4 DEF DrainPicture
    <2>1. Places' /\ Counters' /\ (serial = seeks + 1)'
      BY DEF Places, Counters
    <2>2. Queues'
      BY DEF Queues
    <2>3. FlushFirst' /\ CountTells' /\ BufferHeld' /\ HoldsTaken'
      BY DEF FlushFirst, CountTells, BufferHeld, HoldsTaken
    <2>4. InsideIsCurrent'
      BY DEF InsideIsCurrent, Queues
    <2> QED
      BY <2>1, <2>2, <2>3, <2>4
  <1>5. CASE DrainFake \/ DrainPush \/ DrainExit
    <2> USE <1>5 DEF DrainFake, DrainPush, DrainExit
    <2>1. UNCHANGED coreVars /\ Places' /\ Counters'
      BY DEF coreVars, Places, Counters
    <2>2. fake_pictq' \in Seq({"flush", "packet"})
      <3>1. CASE DrainFake
        BY <3>1 DEF Queues
      <3>2. CASE ~DrainFake
        BY <3>2 DEF Queues
      <3> QED
        BY <3>1, <3>2
    <2>3. pictq' \in Seq({0} \union Serials) /\ Len(pictq') <= Capacity
      <3>1. CASE DrainPush
        BY <3>1 DEF Queues, Counters, Room
      <3>2. CASE ~DrainPush
        BY <3>2 DEF Queues
      <3> QED
        BY <3>1, <3>2
    <2> QED
      BY <2>1, <2>2, <2>3, CoreKept DEF Queues, coreVars
  <1> QED
    BY <1>2, <1>3, <1>4, <1>5 DEF Drain

LEMMA NextIInv == IInv /\ [Next]_vars => IInv'
  <1> SUFFICES ASSUME IInv, [Next]_vars PROVE IInv'
    OBVIOUS
  <1>1. CASE UNCHANGED vars
    BY <1>1 DEF vars, IInv, Places, Counters, Queues,
                FlushFirst, CountTells, BufferHeld, HoldsTaken, InsideIsCurrent
  <1> QED
    BY <1>1, PlayerIInv, FeedIInv, DrainIInv DEF Next

LEMMA Invariance == Spec => []IInv
  <1> QED
    BY InitIInv, NextIInv, PTL DEF Spec

-----------------------------------------------------------------------------

\* Every variable keeps its type: the codec is never given more packets than it has
\* buffers, pictq never more pictures than it has slots, and both threads are at
\* one of their places.
THEOREM TypeCorrect == Spec => []TypeOK
  <1>1. Flags /\ IInv => TypeOK
    BY DEF IInv, TypeOK
  <1> QED
    BY <1>1, FlagsInvariance, Invariance, PTL

\* From the flush of a seek on the codec holds only packets taken after it, although
\* feed_input_buffer flushes it only if input_packet_count is not 0.
THEOREM CodecIsCurrent == Spec => []InsideIsCurrent
  <1>1. IInv => InsideIsCurrent
    BY DEF IInv
  <1> QED
    BY <1>1, Invariance, PTL

=============================================================================
