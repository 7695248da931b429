# A TLA+ model of the ijkplayer core in crystal_vo

The repository is an Android and iOS media player: a port of FFmpeg's ffplay to
a library (`src/ijkplayer-android/ijkmedia/ijkplayer`), with outputs for each
platform (`ijksdl`), an RTMP publisher (`ijkpublisher`), a JNI layer and Java
classes.  What is hard in it is the concurrency of the C core: a read thread, a
decoder thread per stream, a video refresh thread, an audio callback, a message
loop and the application share a handful of flags and queues, under five
different mutexes and often under none.  That core is modelled here, with the three
parts of the Android port that have threads of their own: the JNI layer's reference
counts, the AudioTrack output and the MediaCodec decoder.

Paths below are relative to `src/ijkplayer-android/ijkmedia/ijkplayer/`.

## 1. Inventory

| Component | State | Operations | Interacts with | Hard part | Correct when |
|---|---|---|---|---|---|
| Message queue (`ff_ffmsg_queue.h`) | linked list, recycle list, abort flag, mutex, cond | put, get (blocking), remove, flush, start, abort, destroy | put by every thread, read by the message loop, removed from by the application | a node is in one of two lists; remove edits the list while walking it | every message put is delivered, once and in order; no node is lost |
| Packet queue (`ff_ffplay.c` 77-289) | packets, serial, abort flag | put, get, flush, start, abort | read thread to decoder | a seek changes the serial under the decoder; starvation starts buffering | packets of an old serial are not shown |
| Frame queue (`ff_ffplay.c` 424-545) | ring, read and write index, size, the frame kept for redisplay | peek_writable, push, peek_readable, peek, next, signal | decoder to renderer, aborted by the read thread | one cond for both sides, indexes outside the mutex, a frame used after `next` | a FIFO; no slot is read while it is written; nobody sleeps for ever |
| Decoder (`ff_ffplay.c` 299-409, 1407-1492) | packet serial, finished serial | decode_frame | both queues, buffering | the end of a serial against a flush | the end of each serial is found, once |
| Read thread (`ff_ffplay.c` 2173-2624) | eof, completed, `ffp->error`, `seek_req`, `auto_start` | open, seek, read, fill, complete, clean up | everything | flags tested without a lock, timed waits, requests that arrive at any point | ends on a stop; announces the end; buffering ends |
| Renderers (`ff_ffplay.c` 886-1033, 1674-1830, 2705-2719) | the frame in hand | refresh, callback | frame queue, play control | `paused` tested once, before looking at frames | a paused player shows at most the frame of a step |
| Play control (`ff_ffplay.c` 759-833, 3019-3098, 3218-3239) | `pause_req`, `buffering_on`, `step`, `paused`, `auto_start` | toggle_pause, toggle_buffering, step, seek, start_from, stop | changed by four threads under `play_mutex` | `paused` is derived from three flags by whoever changes one | paused exactly as long as there is a reason |
| Player (`ijkplayer.c`) | `mp_state`, `seek_req`, `restart_from_beginning`, `ffp->is` | set_data_source, prepare, start, pause, seek, stop, shutdown, get_msg | application and message loop, `mp->mutex` | requests are carried out later, in a state that has changed | the reported state agrees with the playback; no use of a missing `VideoState` |
| JNI layer (`android/ijkplayer_jni.c`, `IjkMediaPlayer.java`) | reference count, the field of the Java object, `weak_thiz`, posted events | get/set player, prepare, stop, release, reset, message loop, event handler | any Java thread, the message loop, the handler | the count is all that keeps a player alive during a call; reset builds a new player behind the same object | the count is exact; destroyed once, after the last use; freed after release |
| AudioTrack output (`ijksdl/android/ijksdl_aout_android_audiotrack.c`) | `pause_on`, `abort_request`, `need_flush`, `need_set_volume`, the AudioTrack | open, pause, volume, flush, close, the audio thread | read thread, play control, the audio callback | requests from four threads, one cond; the callback blocks outside the mutex | sleeps only while paused; a pause, a resume and a close take effect |
| MediaCodec decoder (`android/pipeline/ffpipenode_android_mediacodec_vdec.c`) | the codec, `acodec_flush_request`, `input_packet_count`, `fake_pictq` | feed, flush, drain, fake pictures, abort | packet and frame queue, read thread, renderer | two threads and `acodec_mutex`, held while waiting for room in `pictq` | no packet of before a seek in the codec after it; the flush is served; both threads end |
| Native window output (`ijksdl/android/ijksdl_vout_android_nativewindow.c`) | surface, overlay format | set surface, display | renderer, surface callbacks | one mutex | |
| RTMP publisher (`ijkpublisher/`) | the output context, the audio FIFO, `m_iAbortRequest` | init, set sizes, start, put audio and video, close | Java threads and a push thread | the FIFO has no lock | |
| Clocks, buffering marks, metadata, options, pipeline tables, SDL wrappers, utilities, iOS, Java widgets | | | | arithmetic on real time, or no concurrency | |

## 2. Plan

Done, in this order: **FrameQueue** (the ring) refining the abstract **FrameFifo**;
**MessageQueue** (the list); **Playback** (the threads of one playback); **Player**, which
composes Playback with the state machine and the message loop; **PlayerRef**;
**AudioTrackOut**; **MediaCodec**.  Proofs: **FrameQueueProofs** (with the refinement),
**RemovalProofs** (queues with messages taken out), **MessageQueueProofs** and **PlayerProofs** on
top of it, **PlaybackProofs** under the latter, **PlayerRefProofs**, **AudioTrackOutProofs**,
**MediaCodecProofs**.

Next:
1. **PacketQueue**: its list with sizes, the recycle list and per-packet serials; today its
   operations, each one lock section, are steps of Playback and MediaCodec.
2. Seek positions in Player, to state which of two seeks wins and that the position reported
   does not jump back.
3. Two streams in Playback: completion with both, one of them ending first.
4. The change of the surface in MediaCodec, with the reconfiguration of the codec.
5. Proofs: every safety invariant and the refinement that the runs check are theorems now; what
   comes next belongs to the modules above.

## 3. Modules

### FrameFifo, FrameQueue

`FrameFifo` is what a frame queue with `keep_last` promises: a FIFO of pending
frames and the frame shown last, together within the capacity.

`FrameQueue` is `frame_queue_*` with the three threads that call it.  The variables
are the fields of `FrameQueue` (`slot` is `queue[].frame`, `shown` is
`rindex_shown`, `abort` is `pktq->abort_request`), the owner of `f->mutex`, and where
each thread is.  The mutex is explicit because `packet_queue_abort` sets the
abort flag without it: between the test of that flag and `SDL_CondWait` the thread
holds the mutex (state `sleep`), and `frame_queue_signal` has to wait for it.
`frame_queue_push` and `frame_queue_next` are two steps each, since the index
changes outside the mutex and the size inside.  `reader` is chosen initially: the
audio callback ("blocking", `frame_queue_peek_readable`, and it uses the frame
*after* `frame_queue_next`) or `video_refresh` ("polling").  `paused` is `is->paused`: while it is
set `audio_decode_frame` returns before it takes a frame and `video_refresh` takes none either
(`ReaderLock`, `RefreshPeek`), so that no room is made; it changes at any moment
(`TogglePaused`), also under a reader that has begun to take a frame.

| Action | Code |
|---|---|
| `WriterLock` `WriterTest` `WriterSleep` `WriterCheck` | `frame_queue_peek_writable` |
| `WriterFill` `WriterGiveUp` | `queue_picture`, `audio_thread` |
| `WriterAdvance` `WriterCommit` | `frame_queue_push` |
| `ReaderLock` `ReaderTest` `ReaderSleep` `ReaderCheck` `ReaderUse` | `frame_queue_peek_readable`, `audio_decode_frame` |
| `RefreshPeek` `RefreshEarly` | `video_refresh` |
| `ReaderNextKeep` `ReaderNextRelease` `ReaderNextDec` | `frame_queue_next` |
| `CloserAbort` `CloserSignal` `CloserJoin` | `stream_component_close` |
| `TogglePaused` | `stream_update_pause_l` and its callers |

Left out: `force_refresh` is never set in this code base, so `frame_queue_prev` is
never called; spurious wake-ups (both waits are in loops); the destruction of the
ring, which follows the joins.

### MessageQueue

The list itself: `next`, `last`, `recycle` and `body` are the heap, `allocated` the
nodes got from `av_malloc`, which fails when all are taken.  `HEAD` stands for the
address `&q->first_msg`, so that `p_msg` of `msg_queue_remove` is a node or `HEAD`.
Every operation holds `q->mutex` from end to end and is one action; `msg_queue_remove`
reads `first_msg` before it locks (`RemoveEnter`), and takes one step per iteration
because its loop may not end.  `pending` (what the queue should hold), `sent`,
`delivered` and `removed` are history variables: no action reads them, except that
`sent` bounds the puts.

`removed` separates two questions.  The properties of the passing run are about
a queue that `msg_queue_remove` has not gone through; with it they fail, and the
run `MessageQueueLost` shows what comes of it (section 6).  `DeliveredInOrder` holds
in either case.

### Playback

One `VideoState` with one stream.  `play` is the record of the four fields under
`play_mutex`, and each section under that mutex is one step; a call of
`ffp_toggle_buffering` is a step of its own wherever other threads can run before
or after it.  `rpc`, `dpc` and `vpc` are where the read thread, the decoder and
the renderer are; `eof` and `completed` are locals of `read_thread`; `packets` and
`serial` are the packet queue; `frame` is the serial of the frame in the frame
queue; `announced` is the last of `FFP_MSG_BUFFERING_START` and `_END` that was put.

Each branch of `read_thread`'s loop is an action named `Read...`, with the lines in
the map.  What `av_read_frame` answers is a nondeterministic choice out of
`Source`: a packet, the end, an I/O error, or nothing for now.

Abstractions:
- one stream; its packets carry no payload, its frame queue has one slot (the
  ring is in FrameQueue);
- the message queue is a sequence, the messages that `first_msg` leads to (the list is in
  MessageQueue).  `astray` says that `last_msg`, after a removal of the Player, may not be the last of
  them: the next put (`Notify`) then either finds it right after all, or is lost on the recycle
  list, or lands behind an earlier message and loses those behind it, or finds the queue empty and
  puts it right.  `lost` is the history of such a loss.  The buffering messages are not queued;
- `pq_abort` is set until `stream_component_open` starts the packet queue (`ReadProbe`), which clears
  it, also after `stream_close` has set it; the audio callback runs until the output is closed,
  which the read thread does at its end (`RenderEnds`), `video_refresh` until the stop;
- a seek's flush of the packet queue and its flush packet are two steps, as in the
  code, so a decoder that starves between them is in the model; the clocks are not;
- the test for completion, which reads five fields, is one step;
- a packet yields one frame or none; the frames a codec holds back until the end
  and the late frames `video_refresh` drops are left out;
- timed waits only delay, so they are left out; the RTSP and MMSH branch of a
  paused player, attached pictures, `ffp->loop` and `autoexit` are left out.

### Player

EXTENDS Playback with `mp_state`, `mp->seek_req`, `restart_from_beginning`, `ffp->is`,
the message loop and the application, which makes `MaxCalls` calls out of `Calls`
after preparing.  The handling of a message is one step under
`mp->mutex`, except where something outside the mutex can come in between: the
message loop gets its message before it locks (`LoopGet`, `Handle...`); a request
reads `ffp->is` and goes on to use it (`HandleRequest`, then `Do...`, or `Crash` when the
`VideoState` is gone).  A call tests the state (`Begin`), removes the obsolete requests
from the message queue one after the other (`left`, `RemoveNext`) and puts its own (`PutRequest`), while
other threads put theirs in between; a stop is seen by the read thread before the message queue
is aborted (`StopBegin`, `StopEnd`); a shutdown frees before it clears (`ReleaseFree`,
`ReleaseClear`) and takes no mutex.  With `Documented` the application calls only in
the states for which `ijkplayer.h` lists the call; without, whenever the code
accepts it.

`Remove` is `msg_queue_remove` on the sequence, with what its loop does when it follows the
node it has recycled: it unlinks the *first* message of the kind only, it leaves `last_msg` on the
recycle list, or right, depending on what that list holds (`astray` is either), and, if that list
holds a message of the same kind, it does not end (the fault `hang`).  The recycle list is not in the
model, so both outcomes are possible whenever a message is found; MessageQueue has the list itself.

`fault` records a failed assert, a dereference of a missing `VideoState` or
`AVFormatContext`, or a removal that does not end, after which nothing runs.  `want` (the last of start and
pause that was accepted; a stop and a release reset it) and `told` are history variables.
`FFP_MSG_FLUSH`, `_PLAYBACK_STATE_CHANGED`, `_VIDEO_SIZE_CHANGED`, `_SAR_CHANGED` and
`_BUFFERING_UPDATE` are not put one by one: no code of the player reacts to them.  But a put of any of them
through a wrong tail pointer loses messages too, and is a step (`PutOther`).

`Accepts` is the code's test of the state and `Lists` the header's list; they are
the definitions to look at when a call is added.

`PlaybackMC` and `PlayerMC` define, for TLC, what the source of each kind of media answers and
which calls are made; they add nothing to the models.

### PlayerRef

The life of the native players behind one Java object.  `ref_count` is `mp->ref_count`, `field`
is `mNativeMediaPlayer`, `lock` is `g_clazz.mutex`; `op` and `pc` say what each Java thread calls and
how far it is, `holds` which references its variables (`mp`, `old`, and `mp` of the enclosing
`reset`) have, `seen` the address it has read from the field without a reference yet.  `loop` is
where each player's message loop is, `weak` is `mp->weak_thiz`, `posted` the handler's queue.

| Action | Code |
|---|---|
| `GetNull` `GetRead` `GetInc` | `jni_get_media_player` |
| `Clear` `Publish` `DropOld` | `jni_set_media_player` |
| `Drop` `DropOuter` `Destroy` | `ijkmp_dec_ref_p`, `ijkmp_destroy` |
| `UseCall` `UsePrepare` `UseStop` | a JNI call in the middle of its work |
| `Take` `Shutdown` `DeleteWeak` `Create` `RemoveMessages` | `release`, `reset`, `native_setup` |
| `LoopBegin` `LoopGet` `LoopPost` `LoopAborted` `LoopDrop` `LoopDestroy` `LoopExit` | `message_loop`, `message_loop_n`, `SDL_RunThread` |
| `HandleMessage` | `EventHandler.handleMessage` |

Reading the field and counting the reference are two steps, with `g_clazz.mutex` held in
between; the count itself is changed with an atomic operation.  A prepare after a stop, which would
count a second reference for a second message loop, ends the program at `assert(!ffp->is)` (section 6)
and is left out (`UsePrepare`).  `native_finalize` runs when no
thread has the object any more and does what `release` does; it is not a separate action.

### AudioTrackOut

`aout_thread_n` with every call on the output.  The variables are the fields of `SDL_Aout_Opaque`
(`pause_on`, `abort_request`, `need_flush`, `need_set_volume`), the state of the AudioTrack, where the
audio thread is (`pc`) and where the owner, the read thread, is in open, unpause, abort, close and
free.  A section of `wakeup_mutex` up to its unlock or its wait is one step (`Lock`, `Woken`); the
callback (`Callback`, `Read`) runs outside it, blocks on `sampq` and asks for a flush when the frame it gets
has another serial.  `ToggleBegin` and `ToggleEnd` are `stream_toggle_pause_l`, which sets
`is->paused` first and calls the output afterwards.  `sound` and `late` are history variables.
`applied` is the volume the AudioTrack has; no property is about it.

### MediaCodec

The input thread (`Feed...`) and the video thread (`Drain...`) of the MediaCodec decoder, with
`videoq`, `pictq` and `fake_pictq` as sequences, the packets inside the codec as the sequence
of their serials, and the read thread, renderer and pauses as Playback shows them.
`acodec_mutex` is implicit in `dpc`: the video thread holds it in `DrainHolds`, waits for
`acodec_cond`, with the mutex released, in `cond`, and the input thread needs it in `FeedFlush` alone.

| Action | Code |
|---|---|
| `FeedLoop` `FeedStarve` `FeedGet` `FeedAborted` `FeedFlush` `FeedInput` `FeedQueue` `FeedFake` `FeedFinish` `FeedExit` | `enqueue_thread_func`, `feed_input_buffer` |
| `DrainLoop` `DrainLock` `DrainTimeOut` `DrainRelock` `DrainNothing` `DrainException` `DrainPicture` `DrainFake` `DrainFakeAborted` | `func_run_sync`, `drain_output_buffer`, `drain_output_buffer_l` |
| `DrainPush` `DrainPushAborted` `DrainExit` `DrainJoin` | `amc_queue_picture`, the end of `func_run_sync` |
| `Fail` | an exception of the codec (external) |
| `ReadPacket` `Seek` `SeekPlay` `EndBuffering` `TogglePause` `Abort` `Render` | the threads around it |

The input thread may also give up on a codec that works: because it cannot attach to the Java
VM, at its start (`Init`), or because `getInputBuffer` returns NULL (`FeedQueue`).  The video thread then goes
on until the close.  With `FailsBeforeFlush = FALSE` the codec fails only when no flush can follow.

A surface is there from the beginning or never; its change, the sorted output of the
OMX.TI.DUCATI1 codec and the output buffers that overlays hold are left out.

## 4. Runs

| Run | Instance | Shows |
|---|---|---|
| `FrameQueue` | `MaxSize = 3`, two frames, both renderers, pauses at any moment | `NoOverwrite`, `NoUseAfterUnref`, `NoLostWakeup`, `NeverBothAsleep`, `ImplementsFifo`, `CloseTerminates`, `WriterResumes` |
| `MessageQueue` | three nodes, two events, two requests, four puts | `HoldsPending`, `NodesAccounted`, `EventuallyDelivered`, `DeliveredInOrder` |
| `MessageQueueLost` | the same with one event | *violated:* `SleepsOnlyWithoutMessage` |
| `Playback` | video or audio, any source, two calls | `BufferingAnnounced`, `PausedForAReason`, `NothingAfterCompletion`, `BufferingEnds`, `EndAnnounced`, `StopTerminates` |
| `PlayerSafety` | three calls: start, pause, stop on a video with any source; a seek as well on an empty audio stream | `NoFault`, `PausedIsAsked`, `StartWins` |
| `PlayerLiveness` | two calls: start, pause on a video that may end; a seek as well on an empty audio stream | `StartedRuns`, `SeekAcknowledged` |
| `PlayerRelease` | audio; one of seek, stop, prepare, and a release at any time, also outside the documented states | `ReleaseReturns` |
| `PlayerRef` | two Java threads, three native players, five calls, one event | `CountIsExact`, `UsedIsLive`, `DestroyedOnce`, `EventuallyFreed` |
| `AudioTrackOut` | two formats, three pauses or resumes, two volumes, two seeks | `NoFalseSleep`, `OneBufferAfterPause`, `FreedUnused`, `PauseTakesEffect`, `ResumeTakesEffect`, `CloseTerminates` |
| `AudioTrackStart` | one format, no pause | *violated:* `PlayStarts` |
| `MediaCodec` | `pictq` of one, two input buffers, three packets, a seek, a pause, a codec that fails after the last flush, an input thread that gives up | `InsideIsCurrent`, `FlushServed`, `CloseTerminates`, `EndsTogether` |
| `MediaCodecFails` | a codec that fails before a flush | *violated:* `FlushServed` |

MessageQueue, Playback and Player have their type invariants in these runs; those of the other
modules are theorems alone, and all of them are theorems (section 7).

**Bounds.**  `MaxSize = 3` is the smallest ring where the kept frame, a frame to show and
a frame being written are three slots; the proofs cover the others.  Three nodes
let a message be queued, a second one be recycled and the third be allocated or
fail; four puts reuse a node.  `Capacity = 1`: one packet fills the packet queue, so
full, empty and starving queues follow each other at once; larger capacities
only add states in between, and the proofs cover them.  The calls, besides the preparation and a
release, can cross each other at every point of the threads: two of them are a request and one
that removes or overtakes it, and three (`PlayerSafety`) a request that is obsolete twice; serials go to
`MaxCalls + 1`.  The source may deliver packets for ever, so the length of the stream is not bounded.
The source and the calls differ between video and audio to keep the runs small: the seeks of the
empty audio stream cross completion and each other, not packets, whose flow the video has; the
`Playback` run has seeks with packets.

In `PlayerRef` five calls are a prepare, a stop and a release crossing a call of the other thread, or
two resets, for which there are three players; one posted event is enough to be stale.  In
`AudioTrackOut` three toggles pause, resume and pause again around one wait, two formats are a
failed and a successful opening.  In `MediaCodec` one slot in `pictq` makes the video thread wait with the
mutex, two input buffers let the codec hold a packet on both sides of a flush request, and
one seek has a serial before and after it.

`Playback` on its own starts no message queue: it is about its threads, and a
message put into a queue nobody reads would only count states.

## 5. Fairness

Every thread gets scheduled: weak fairness of each thread's steps.  In FrameQueue the
mutex is contended, so taking it, and noticing the abort at the head of a loop that
may do something else, are strongly fair; nothing makes anybody close the queue, pause or go on.  The
reader's lock is strongly fair only once it has begun to take a frame: at the head of its loop it
finds the player paused and owes nothing, and `WriterResumes` excepts a pause that comes before the
decoder has its room.
In Playback, strong fairness says that the frame in the queue is due at some time
(`RenderShow`; `video_refresh` polls every 10 ms until the frame's time has come), that a
codec that is fed yields a frame at some time, and that the source does not answer
"nothing for now" for ever.  The application is never forced to call; `Closing` says that
it finishes what it has begun.  `StopTerminates` and `ReleaseReturns` assume that a
blocking read of the network returns, which `decode_interrupt_cb` sees to.

In PlayerRef every thread and every message loop is scheduled and nobody has to make another
call.  In AudioTrackOut the threads are scheduled and a timed wait ends.  In MediaCodec nothing makes
a pthread mutex fair, and the video thread unlocks `acodec_mutex` only to lock it again: that the input
thread gets it is assumed only for the 100 ms in which the video thread waits for `acodec_cond`
with the mutex released (`FeedFlush /\ DrainWaits` is strongly fair), which it does because
`acodec_flush_request` asks for it.  `FlushServed` and `EndsTogether` except a player that stays paused: the
pictures of before a seek stay in `pictq` then, since `force_refresh` is never set, and the video
thread may wait for room with the mutex until the player goes on.

The exclusions in `BufferingEnds` and `EndAnnounced` are behaviours of the code, found
with TLC, in which the promise does not hold, named where they are defined:
`FullAtEnd` (buffering starts when the queue is already full and the end met: a full
queue ends buffering only before the end, ff_ffplay.c:2483), `Revived` (a source that delivers
again after an end: the decoder has finished its serial and discards, 280) and
`Leaking` (the player consumes while it buffers: a start during a step, 812-815, or an
audio stream, whose steps do not end).

## 6. What the code does not keep

Three runs check a sentence of the repository and find it violated:

1. `MessageQueueLost`: `msg_queue_remove` continues with `p_msg = &msg->next` after it has
   moved `msg` to the recycle list, so it walks that list.  The tail pointer ends up on a
   recycled node, the next message is linked behind it, and the message loop
   sleeps with a message pending.  If the recycle list holds a message of the same kind
   the loop does not end.  In Player a start, a pause or a seek can be lost in this way, so `StartWins`,
   `StartedRuns` and `SeekAcknowledged` hold except when a message was lost (`lost`), and the last two
   except when a removal hangs.
2. `AudioTrackStart`: the output is opened paused and unpaused at once; if that happens between the audio
   thread's first, unlocked test of `pause_on` and its first lock, neither of the two places
   that call `AudioTrack.play` is reached.
3. `MediaCodecFails`: the codec throws, and the next packet is a flush.  The video thread waits for a
   fake picture while it holds `acodec_mutex`; the input thread, which is to give it,
   waits for that mutex.  Only the end of one of them would abort `fake_pictq`.

Others that TLC shows when the property is added to a configuration, by hand:

- `PauseHolds` (`Playback`, video, `MaxCalls = 3`): a pause during the one-frame step of a
  paused seek is lost; `toggle_pause_l` clears `step` after it has been used (ff_ffplay.c:815).
- `PauseResumes` (`Playback`, audio, `MaxCalls = 2`): a paused player without video plays on after
  a seek; only `video_refresh` ends a step (980).
- `NoFault` of `Player`, with `"release"` in `Calls`: `ijkmp_shutdown` does not take `mp->mutex` and frees
  the `VideoState` under the message loop (ijkplayer.c:256).  With `"prepare"`: `ijkmp_prepare_async`
  after `ijkmp_stop`, which the header lists, meets `assert(!ffp->is)` (ff_ffplay.c:3006).
- `NoStaleEvent` (`PlayerRef`, two players, two calls, one event): the message loop of the player
  that `reset` has replaced is not joined and posts after `reset` has removed its messages.

Seen while modelling, in the models where they can matter and without a property:

- a seek in `ASYNC_PREPARING`, which `ijkmp_seek_to` accepts, reads `is->ic` while it is still NULL
  (ijkplayer.c:502, ff_ffplay.c:3088; the fault `null_ic`, reachable only without `Documented`);
- a pause handled between the test of `auto_start` and the `REQ_START` that follows is undone
  (2374-2376); COMPLETED handled after a stop overwrites STOPPED (ijkplayer.c:633); a pause in COMPLETED
  gives PAUSED, where ijkplayer.h:114 says "self"; an asynchronous error never sets `MP_STATE_ERROR`,
  which ijkplayer.h:71 and 93 announce;
- `audio_open` steps through sample rates with an index that nothing stops at 0 (1871-1876), and
  `aout_open_audio_n` keeps the buffer of a failed attempt (ijksdl_aout_android_audiotrack.c:152);
- `SDL_RunThread` writes `retval` into a thread that belongs to a player its function may have been
  the last to drop (ijksdl_thread.c:35);
- `MAX_FAKE_FRAMES` does not bound `fake_pictq` (ffpipenode_android_mediacodec_vdec.c:366); a picture the codec
  had ready at a seek gets the serial of after it (331, TODO at 853); `finished` is set when the
  last packet has gone in, not when the last picture has come out (FIXME at 610).

## 7. Proofs

All are for every value of the constants that the modules' named assumptions allow; TLC
evaluates those in every run, and has checked each inductive invariant on a small instance.

`FrameQueueProofs` proves for every `MaxSize`, `Frames` and choice of `Readers`:

- `TypeCorrect`: `Spec => []TypeOK`;
- `WriterKeepsOff`: `Spec => []NoOverwrite`, `FrameStays`: `Spec => []NoUseAfterUnref`;
- `WakeupsArrive`, `OneSleeps`: `Spec => []NoLostWakeup` (assuming `MaxSize > 1`) and
  `Spec => []NeverBothAsleep`;
- `RingIsFifo`: `Spec => ImplementsFifo`, the refinement of `FrameFifo`.

The inductive invariant has two parts.  `IInv` (lemmas `InitIInv`, `NextIInv`,
`Invariance`) relates the thread states to the mutex and to `size`: who holds the mutex
when; that a thread in `sleep` has just seen the condition it sleeps on and nothing can
have changed it; that `windex` is `rindex + size` modulo `MaxSize`, corrected by the half
pushes and half releases in progress.  `NoOverwrite` alone is not inductive: it needs the
distance between the indexes.  The slot invariant (`SlotsKept`, `NextSlotInv`,
`SlotInvariance`) says which slots hold a frame; it rests on the first part.

For the refinement, `Window` is the stretch of the ring that the mapping shows as the FIFO's
pending frames: lemmas say what a push, a release and a write into a free slot do to it,
and `KeptInv` what `keep_last` leaves in the ring.  `FifoStep` then has one case per
action: the second half of a push is the FIFO's `Put`, the first half of `frame_queue_next` its `Show`, and
everything else a stutter, the write of `queue_picture` into the slot outside the window included.

`RemovalProofs` has two parts.  `Without`, with which MessageQueue says what its list should hold, is a recursive function: the library's induction needs
an operator as a parameter, so `RangeInduction` states induction over `0 .. n` about a *set*, from the
well-foundedness of `<`.  With it `WithoutRecursion` unfolds the function, and the lemmas
say what it does to the set of messages (`WithoutElements`) and that it gives the tail when only
the first message goes (`WithoutHead`).  The other part is about the queue of Player: a sequence is *thinned* (`Thins`)
by taking out one message or cutting it off, and the lemmas say what that does to the set of
messages (`ThinsElements`) and to how many there are of some kinds (`ThinsCount`; `CountAppend` and
`CountTail` say so of a put and a get).

`MessageQueueProofs` proves for every `Nodes`, `Requests` and `MaxPuts`, with `NodesAssumption`
(the nodes are finitely many, neither NULL nor the queue itself):

- `QueueTypeCorrect`: `Spec => []TypeOK`, and `DeliveriesAreOrdered`: `Spec => DeliveredInOrder`, *with*
  `msg_queue_remove` at work.  `QInv` is what survives its mistake: no two pointers of the heap are equal
  (`Unshared`), and the nodes that `first_msg` leads to are sorted by the number of their put, each
  pointing at its successor (`Sorted`); nothing is said of `last_msg`, which may be anywhere;
- `QueueHoldsPending`: `Spec => []HoldsPending` and `QueueAccountsForNodes`: `Spec => []NodesAccounted`.
  `LInv` names the two lists as sequences of nodes, distinct and disjoint, that `next` follows to
  NULL and that between them hold all that was allocated; put, get and flush move a node from one to the
  other.  `Follows` being a statement about places, no induction along the list is needed for a step, but
  that the recursive function by which the properties read a list (`ChainFrom`) agrees with it takes
  `RangeInduction`.

`PlaybackProofs` proves for every `Media`, `Source`, `Capacity` and `MaxCalls`:

- `BufferingIsAnnounced`: `PlaybackSpec => []BufferingAnnounced`;
- `PausesHaveAReason`: `PlaybackSpec => []PausedForAReason`;
- `CompletionIsFinal`: `PlaybackSpec => []NothingAfterCompletion`;
- `PlaybackTypesCorrect`: `PlaybackSpec => []PlaybackTypeOK`.

`PlayInv` strengthens the two with the type of `play` and with `SeekBuffers`: from
`ffp_toggle_buffering` at the start of a seek until the section that may set `buffering_on`
without a message, buffering is on, because only the read thread, which is in that
seek, ends it.  There is one lemma for each operation on `play` and one for each
thread.

For `CompletionIsFinal`, the invariant `EndInv` says why the comparison of `finished` with the queue's serial, made under no
lock, is right: no serial is ahead of the queue's (`Serials`); a flush packet that was not taken is the
first in the queue, because a seek empties it before, and until it is taken the decoder is at
an older serial (`FlushLeads`); a decoder that has finished the queue's serial has nothing of it in
its hands (`EndIsMet`); and what is true when completion is announced stays true until the seek
that withdraws it, also in the window in which the flush packet has already been put
(`AfterCompletion`).

The type invariant bounds the serial by the calls, which no action does: the bound is a promise of the
protocol.  `Spent` counts the serials that there are and the one that a pending `seek_req` will add;
`ThreadsSpend` shows that no thread raises it (a seek asked for while one is
pending is served by the same serial), and
`InBudget` that each call raises it by one at most, the two halves of `ffp_start_from_l` included.

`PlayerProofs` extends it and proves of the whole player:

- `PlayerPlayback`: the three properties above, under any calls and a release at any moment (a step of
  the player is a step of a thread, a control call, or leaves the playback alone);
- `PausesAreAsked`: `Spec => []PausedIsAsked`.  What is inductive is more: a player that reports PAUSED has
  `pause_req` set *and* `auto_start` clear, since the read thread would start it otherwise;
- `StartsAreKept`: `Spec => []StartWins`, with `msg_queue_remove` as it is: it takes out the first message of
  a kind only and may leave the tail pointer wrong.  `OnePause` says why the first is enough: there is never more than
  one pause on its way, because a call that puts one has removed the one before it.  `StartKept` says where the
  start is, unless a message was lost: no pause is left in the queue; if the loop has one in
  its hand already, the start is still queued behind it; and a player that is not started has the
  start in the queue or the loop's hand.  `LeftInOrder` ties what a call has still to remove to the call.
  `InOrder` and `AfterStop` tie the state machine to the queue (nothing queued before there is a
  `VideoState`, a loop that is not inside a request when a stop ends);
- `PlayerTypesCorrect`: `Spec => []TypeOK`.  In the player what a call owes travels: from the queue (`Queued`
  counts the seeks and starts there) to the loop's hand (`Hand`), from a start to `auto_start` before
  the read thread has looked at it (`AutoDue`), back to the queue as the read thread's own `REQ_START`, and
  at last to `seek_req` (`Spent`).  `Owed` says that all of it together never exceeds the calls plus
  one; `Pays` lists the six ways in which a step may move it, and there is a lemma for each.  `Finished` is
  needed for the restart from the beginning, which sets `auto_start` too: a player that has
  completed is past the point where the read thread would turn it into a request;
- `NoFaultAsListed`: if the application calls only in the states that ijkplayer.h lists, prepares once and does
  not release, `Spec => []NoFault` (that a removal may hang is not excluded).  `FInv` follows the request from the test of the state, to the
  second test under `mp->mutex`, to the use of `is->ic`: nothing can be asked before the preparation
  (`BeforePrepared`), the read thread takes the media away only after a stop (`InUse`), and a request
  that the loop took before a stop is not begun after it (`Stopped`).

`PlayerRefProofs` proves `TypeCorrect`, `CountsReferences` (`CountIsExact`), `NoUseAfterRelease`
(`UsedIsLive`) and `OneDestroys` (`DestroyedOnce`) for any number of threads, players and calls.  `CountIsExact`
counts variables with `Cardinality`; the lemmas `OneMore` and `OneLess` say what a reference taken or
dropped does to it, and `ReferencedIsCounted` that a player somebody refers to has a count above zero, which is what makes
it safe to use.  `LockInv`, `SlotInv` and `LifeInv` say who has the mutex, which variables are in use at which place, and
which players are alive.

`AudioTrackOutProofs` proves `TypeCorrect`, `SleepIsAsked` (`NoFalseSleep`), `PauseIsSilent`
(`OneBufferAfterPause`) and `CloseReleases` (`FreedUnused`).  `ThreadInv` ties the thread to the AudioTrack and the owner;
`LateInv` says that a thread that has played its late buffer is at a place from which it must
look at `pause_on` before it plays another.

`MediaCodecProofs` proves `TypeCorrect` and `CodecIsCurrent` (`InsideIsCurrent`).  The flush packet is the first
of its serial (`FlushFirst`), and `input_packet_count` is zero only if the codec is empty (`CountTells`): what
makes it safe to skip the flush of a codec that has had no input.

Not proved, and why: the liveness properties, which need fairness and `ENABLED` and stay with TLC.  All
safety properties of the passing runs are theorems.  `NoFaultAsListed` is the one with a hypothesis
about the application (`AsListed`), which the run `PlayerSafety` meets; without it the property does
not hold (section 6).  `StartsAreKept` has the hypothesis `~lost` in its property: what the mistake of the
list costs is the finding of `MessageQueueLost`, and what is proved is that nothing else loses or undoes a
start.

## 8. Not modelled

- The packet queue's list, the two clocks and A/V synchronisation (floating point on real time), the
  percentages of the buffering marks, the selection of streams.
- The RTMP publisher: a prototype of one push thread.  It reads the audio FIFO without a lock while Java
  threads write it, its video branch is compiled out, `ffmpeg_uninit_data`, which would set
  `m_iAbortRequest` (and clear it again without waiting), is called by nobody.  There is no
  protocol to state.
- The Java widgets: `VideoView` runs on one thread.  A pause before the preparation is overwritten
  when it is done (`VideoView.java`:338), and its suspend states are never entered.
- The native window output: every operation is one section of its mutex.
- Metadata, options and pipeline tables (no concurrent state); the SDL wrappers (what the models
  use as primitives); iOS (other outputs and views over the same core).
- Vendored code: three copies of x264 and the scripts that fetch and build FFmpeg are most of the
  repository's lines, and not this program's logic.  The map covers about 40% of `ff_ffplay.c`,
  60% of `ijkplayer.c` and of the AudioTrack output, 75% of the message queue and a third of the MediaCodec decoder.
- Memory allocation failure is modelled in MessageQueue alone (Player's puts do not fail for that reason); the failure to create a thread as
  a failure of `stream_open` that leaves no `VideoState`, and in PlayerRef for the message loop.
