----------------------------- MODULE FrameQueue -----------------------------
(***************************************************************************)
(* The ring of decoded frames between one decoder thread (the writer) and  *)
(* one renderer (the reader): frame_queue_* of ff_ffplay.c, with the       *)
(* threads that call them.                                                 *)
(*                                                                         *)
(* sampq is read by the audio callback, which blocks in                    *)
(* frame_queue_peek_readable ("blocking"); pictq is read by video_refresh, *)
(* which polls frame_queue_nb_remaining ("polling").  A third thread, in   *)
(* stream_component_close, aborts the packet queue and signals the ring.   *)
(*                                                                         *)
(* f->mutex is explicit, because f->pktq->abort_request is set without it: *)
(* a thread that has found the abort flag clear still holds f->mutex until *)
(* it sleeps on f->cond ("sleep").  windex, rindex and rindex_shown are    *)
(* written outside the mutex by their only owner, so the two halves of     *)
(* frame_queue_push and of frame_queue_next are separate steps.            *)
(***************************************************************************)
EXTENDS Naturals, Sequences

CONSTANTS MaxSize,   \* f->max_size, after FFMIN(max_size, FRAME_QUEUE_SIZE)
          Frames,    \* the decoded frames, told apart by their content only
          None,      \* a slot whose frame has been unreferenced
          Readers    \* the renderers considered: "blocking", "polling"

ASSUME MaxSizeAssumption == MaxSize \in Nat \ {0}
ASSUME NoneAssumption    == None \notin Frames
ASSUME ReadersAssumption == Readers \subseteq {"blocking", "polling"}

VARIABLES slot,    \* f->queue[].frame
          rindex, windex, size,
          shown,   \* f->rindex_shown
          abort,   \* f->pktq->abort_request
          mutex,   \* the thread holding f->mutex across steps, or "free"
          wpc, rpc, cpc, \* where the writer, the reader and the closer are
          cur,     \* the index of the frame the reader took (af or vp)
          after,   \* where the reader continues once frame_queue_next returns
          reader,  \* which of the renderers reads this queue
          paused   \* is->paused: neither renderer takes frames

vars == <<slot, rindex, windex, size, shown, abort, mutex,
          wpc, rpc, cpc, cur, after, reader, paused>>

Indices == 0 .. MaxSize - 1

WriterStates == {"idle", "test", "sleep", "wait", "woken", "check",
                 "fill", "push", "commit", "done"}
ReaderStates == {"idle", "test", "sleep", "wait", "woken", "check", "retry",
                 "hold", "dec", "use", "done"}
CloserStates == {"open", "signal", "join", "closed"}

TypeOK ==
  /\ slot \in [Indices -> Frames \union {None}]
  /\ rindex \in Indices
  /\ windex \in Indices
  /\ size \in 0 .. MaxSize
  /\ shown \in {0, 1}
  /\ abort \in BOOLEAN
  /\ mutex \in {"free", "writer", "reader"}
  /\ wpc \in WriterStates
  /\ rpc \in ReaderStates
  /\ cpc \in CloserStates
  /\ cur \in Indices
  /\ after \in {"use", "retry", "idle"}
  /\ reader \in Readers /\ paused \in BOOLEAN

-----------------------------------------------------------------------------

\* ++index, back to 0 at max_size.
Succ(i) == IF i + 1 = MaxSize THEN 0 ELSE i + 1

\* (rindex + rindex_shown) % max_size, the next frame to render.
PeekIndex == (rindex + shown) % MaxSize

\* frame_queue_nb_remaining; a comparison with 0, so Nat is enough.
NbRemaining == IF size > shown THEN size - shown ELSE 0

\* The tests of frame_queue_peek_writable and frame_queue_peek_readable, and
\* two slips: an off-by-one, and forgetting the frame kept for redisplay.
FullOffByOne == size > MaxSize
Full == size >= MaxSize
EmptyButKept == size = 0
Empty == size <= shown

\* SDL_CondSignal(f->cond) by one of the two threads wakes the other.
NotWoken(pc) == pc
Woken(pc) == IF pc = "wait" THEN "woken" ELSE pc

\* SDL_CondSignal(f->cond) by a third thread: one sleeper, if there is one, is
\* woken.
NoSignal == UNCHANGED <<wpc, rpc>>
Signal ==
  \/ wpc = "wait" /\ wpc' = "woken" /\ UNCHANGED rpc
  \/ rpc = "wait" /\ rpc' = "woken" /\ UNCHANGED wpc
  \/ wpc # "wait" /\ rpc # "wait" /\ UNCHANGED <<wpc, rpc>>

\* Init is the queue after frame_queue_init, when stream_component_open has
\* started the packet queue and the threads.
Init ==
  /\ slot = [i \in Indices |-> None]
  /\ rindex = 0 /\ windex = 0 /\ size = 0 /\ shown = 0
  /\ abort = FALSE
  /\ mutex = "free"
  /\ wpc = "idle" /\ rpc = "idle" /\ cpc = "open"
  /\ cur = 0 /\ after = "idle"
  /\ reader \in Readers /\ paused = FALSE

ringVars  == <<slot, rindex, windex, size, shown>>
readVars  == <<cur, after, reader, paused>>

-----------------------------------------------------------------------------
(* The writer: frame_queue_peek_writable, the caller's fill of the slot,   *)
(* frame_queue_push.                                                       *)

WriterLock ==
  /\ wpc \in {"idle", "woken"}
  /\ mutex = "free"
  /\ mutex' = "writer"
  /\ wpc' = "test"
  /\ UNCHANGED <<ringVars, abort, rpc, cpc, readVars>>

WriterTestThenSleep ==   \* a slip: test and sleep are not one section
  /\ wpc = "test"
  /\ wpc' = IF Full /\ ~abort THEN "sleep" ELSE "check"
  /\ mutex' = "free"
  /\ UNCHANGED <<ringVars, abort, rpc, cpc, readVars>>

WriterTest ==
  /\ wpc = "test"
  /\ IF Full /\ ~abort
       THEN wpc' = "sleep" /\ UNCHANGED mutex
       ELSE wpc' = "check" /\ mutex' = "free"
  /\ UNCHANGED <<ringVars, abort, rpc, cpc, readVars>>

WriterSleep ==
  /\ wpc = "sleep"
  /\ wpc' = "wait"
  /\ mutex' = "free"
  /\ UNCHANGED <<ringVars, abort, rpc, cpc, readVars>>

\* The abort flag is read again, without the mutex; NULL ends the thread.
WriterCheck ==
  /\ wpc = "check"
  /\ wpc' = IF abort THEN "done" ELSE "fill"
  /\ UNCHANGED <<ringVars, abort, mutex, rpc, cpc, readVars>>

\* queue_picture and audio_thread move the decoded frame into the slot.
WriterFill ==
  /\ wpc = "fill"
  /\ \E f \in Frames : slot' = [slot EXCEPT ![windex] = f]
  /\ wpc' = "push"
  /\ UNCHANGED <<rindex, windex, size, shown, abort, mutex, rpc, cpc, readVars>>

\* queue_picture gives the slot up: the overlay could not be allocated, or
\* the queue was aborted during the allocation, which ends the thread.
WriterGiveUpQueued ==   \* a slip: the slot is pushed without a picture
  /\ reader = "polling" /\ wpc = "fill" /\ wpc' = "push"
  /\ UNCHANGED <<ringVars, abort, mutex, rpc, cpc, readVars>>

WriterGiveUp ==
  /\ reader = "polling"
  /\ wpc = "fill"
  /\ wpc' = IF abort THEN "done" ELSE "idle"
  /\ UNCHANGED <<ringVars, abort, mutex, rpc, cpc, readVars>>

WriterAdvance ==
  /\ wpc = "push"
  /\ windex' = Succ(windex)
  /\ wpc' = "commit"
  /\ UNCHANGED <<slot, rindex, size, shown, abort, mutex, rpc, cpc, readVars>>

WriterCommit ==
  /\ wpc = "commit"
  /\ mutex = "free"
  /\ size' = size + 1
  /\ wpc' = "idle"
  /\ rpc' = Woken(rpc)
  /\ UNCHANGED <<slot, rindex, windex, shown, abort, mutex, cpc, readVars>>

\* The decoder found its packet queue aborted (decoder_decode_frame).
WriterExit ==
  /\ wpc = "idle"
  /\ abort
  /\ wpc' = "done"
  /\ UNCHANGED <<ringVars, abort, mutex, rpc, cpc, readVars>>

Writer == \/ WriterLock \/ WriterTest \/ WriterSleep \/ WriterCheck \/ WriterFill
          \/ WriterGiveUp \/ WriterAdvance \/ WriterCommit \/ WriterExit

-----------------------------------------------------------------------------
(* The audio callback: audio_decode_frame takes a frame with               *)
(* frame_queue_peek_readable, calls frame_queue_next, and only then reads  *)
(* af->serial and the samples.  is->paused is tested once per call, before *)
(* the loop over stale frames.                                             *)

ReaderLock ==
  /\ reader = "blocking"
  /\ rpc \in {"idle", "retry", "woken"}
  /\ rpc = "idle" => ~paused
  /\ mutex = "free"
  /\ mutex' = "reader"
  /\ rpc' = "test"
  /\ UNCHANGED <<ringVars, abort, wpc, cpc, readVars>>

ReaderTest ==
  /\ rpc = "test"
  /\ IF Empty /\ ~abort
       THEN rpc' = "sleep" /\ UNCHANGED mutex
       ELSE rpc' = "check" /\ mutex' = "free"
  /\ UNCHANGED <<ringVars, abort, wpc, cpc, readVars>>

ReaderSleep ==
  /\ rpc = "sleep"
  /\ rpc' = "wait"
  /\ mutex' = "free"
  /\ UNCHANGED <<ringVars, abort, wpc, cpc, readVars>>

\* NULL makes the callback play silence; the audio output calls it again.
ReaderCheck ==
  /\ rpc = "check"
  /\ IF abort
       THEN rpc' = "idle" /\ UNCHANGED cur
       ELSE rpc' = "hold" /\ cur' = PeekIndex
  /\ UNCHANGED <<ringVars, abort, mutex, wpc, cpc, after, reader, paused>>

\* af->serial is stale (the loop of audio_decode_frame) or the samples have
\* been converted and copied out.
ReaderUse ==
  /\ rpc = "use"
  /\ rpc' \in {"idle", "retry"}
  /\ UNCHANGED <<ringVars, abort, mutex, wpc, cpc, readVars>>

-----------------------------------------------------------------------------
(* video_refresh: frames are dropped (stale serial, or late) until one is  *)
(* shown or is not due.  is->force_refresh is never set in this code base, *)
(* so a frame is never shown twice and frame_queue_prev is never called;   *)
(* and ffplay_video_refresh_thread does not call video_refresh in a pause. *)

RefreshPeek ==
  /\ reader = "polling"
  /\ rpc \in {"idle", "retry"}
  /\ rpc = "idle" => ~paused
  /\ IF NbRemaining = 0
       THEN rpc' = "idle" /\ UNCHANGED cur
       ELSE rpc' = "hold" /\ cur' = PeekIndex
  /\ UNCHANGED <<ringVars, abort, mutex, wpc, cpc, after, reader, paused>>

\* The picture is not due yet: return.
RefreshEarly ==
  /\ reader = "polling"
  /\ rpc = "hold"
  /\ rpc' = "idle"
  /\ UNCHANGED <<ringVars, abort, mutex, wpc, cpc, readVars>>

-----------------------------------------------------------------------------
(* frame_queue_next.  keep_last is 1 for sampq and for pictq: the first    *)
(* call only marks the frame as shown; later ones release the frame shown  *)
(* before, and leave the new one in the queue until the next call.         *)

\* A video frame that is dropped makes video_refresh retry; audio_decode_frame
\* goes on with the frame it took.
Continuations == IF reader = "blocking" THEN {"use"} ELSE {"idle", "retry"}

ReaderNextKeep ==
  /\ rpc = "hold"
  /\ shown = 0
  /\ shown' = 1
  /\ after' \in Continuations
  /\ rpc' = after'
  /\ UNCHANGED <<slot, rindex, windex, size, abort, mutex, wpc, cpc, cur, reader, paused>>

ReaderNextRelease ==
  /\ rpc = "hold"
  /\ shown = 1
  /\ slot' = [slot EXCEPT ![rindex] = None]
  /\ rindex' = Succ(rindex)
  /\ after' \in Continuations
  /\ rpc' = "dec"
  /\ UNCHANGED <<windex, size, shown, abort, mutex, wpc, cpc, cur, reader, paused>>

ReaderNextDec ==
  /\ rpc = "dec"
  /\ mutex = "free"
  /\ size' = size - 1
  /\ rpc' = after
  /\ wpc' = Woken(wpc)
  /\ UNCHANGED <<slot, rindex, windex, shown, abort, mutex, cpc, readVars>>

\* SDL_AoutCloseAudio stops the audio thread, stream_close joins the refresh
\* thread: neither calls its reader again once its own abort flag is set.
ReaderExit ==
  /\ rpc = "idle"
  /\ abort
  /\ rpc' = "done"
  /\ UNCHANGED <<ringVars, abort, mutex, wpc, cpc, readVars>>

ReaderStep == \/ ReaderLock \/ ReaderTest \/ ReaderSleep \/ ReaderCheck \/ ReaderUse
              \/ RefreshPeek \/ RefreshEarly
              \/ ReaderNextKeep \/ ReaderNextRelease \/ ReaderNextDec \/ ReaderExit

-----------------------------------------------------------------------------
(* stream_component_close: packet_queue_abort, frame_queue_signal, join.   *)

CloserAbort ==
  /\ cpc = "open"
  /\ abort' = TRUE
  /\ cpc' = "signal"
  /\ UNCHANGED <<ringVars, mutex, wpc, rpc, readVars>>

CloserSignal ==
  /\ cpc = "signal"
  /\ mutex = "free"
  /\ Signal
  /\ cpc' = "join"
  /\ UNCHANGED <<ringVars, abort, mutex, readVars>>

CloserJoin ==
  /\ cpc = "join"
  /\ wpc = "done"
  /\ reader = "blocking" => rpc = "done"
  /\ cpc' = "closed"
  /\ UNCHANGED <<ringVars, abort, mutex, wpc, rpc, readVars>>

Closer == CloserAbort \/ CloserSignal \/ CloserJoin

\* The player is paused, to wait for a start or for its buffers, or goes on.
TogglePaused ==
  /\ cpc # "closed"
  /\ paused' = ~paused
  /\ UNCHANGED <<ringVars, abort, mutex, wpc, rpc, cpc, cur, after, reader>>

\* The queue is closed and both threads are gone.
Terminated ==
  /\ cpc = "closed" /\ rpc = "done"
  /\ UNCHANGED vars

Next == Writer \/ ReaderStep \/ Closer \/ TogglePaused \/ Terminated

\* Every thread is scheduled; nothing forces anybody to close the queue, or to
\* end a pause.  A renderer that keeps finding the player paused owes nothing: only
\* one that has begun to take a frame gets the mutex among the writer's turns.
Fairness ==
  /\ WF_vars(Writer)
  /\ WF_vars(ReaderStep)
  /\ SF_vars(WriterLock)
  /\ SF_vars(ReaderLock /\ rpc # "idle")
  /\ SF_vars(WriterExit)
  /\ SF_vars(ReaderExit)
  /\ WF_vars(CloserSignal)
  /\ WF_vars(CloserJoin)

Spec == Init /\ [][Next]_vars /\ Fairness

-----------------------------------------------------------------------------
(* Properties. *)

\* The reader works on queue[cur]: between peek and frame_queue_next, and,
\* for the audio callback, after frame_queue_next has returned.
Reading == rpc \in {"hold", "use"} \/ (rpc = "dec" /\ reader = "blocking")

\* The decoder never writes into the frame the renderer is working on, even
\* though audio_decode_frame goes on reading af after frame_queue_next.
NoOverwrite == wpc \in {"fill", "push"} /\ Reading => windex # cur

\* The frame in the reader's hands has not been unreferenced either, by its
\* own frame_queue_next: keep_last delays that to the following call.
NoUseAfterUnref == Reading => slot[cur] # None

\* The decoder sleeps only on a full queue and the renderer only on one with
\* nothing to show: no wake-up is lost between the test and the sleep, and
\* none is taken by the wrong thread of the condition both of them share.
NoLostWakeup ==
  /\ wpc = "wait" => size = MaxSize
  /\ rpc = "wait" => size <= shown
  /\ cpc \in {"join", "closed"} => wpc # "wait" /\ rpc # "wait"

\* With room for two frames the two threads never sleep at the same time:
\* this is why one cond and SDL_CondSignal are enough.
NeverBothAsleep == MaxSize > 1 => ~(wpc = "wait" /\ rpc = "wait")

\* Once stream_component_close has aborted the packet queue, the threads it
\* joins end.
CloseTerminates == cpc = "signal" ~> cpc = "closed"

\* A decoder that sleeps on a full queue is woken by the audio callback, unless the
\* player is paused: then audio_decode_frame returns before it takes a frame.
WriterResumes == reader = "blocking" /\ wpc = "wait" ~> (wpc # "wait" \/ paused)

-----------------------------------------------------------------------------
(* The ring implements FrameFifo.  While frame_queue_next is between       *)
(* rindex++ and size-- the frame it released is still counted.             *)

Counted == IF rpc = "dec" THEN size - 1 ELSE size

PendingFrames ==
  [i \in 1 .. (IF Counted > shown THEN Counted - shown ELSE 0) |->
     slot[(rindex + shown + i - 1) % MaxSize]]

LastFrame == IF shown = 1 THEN slot[rindex] ELSE None

Fifo == INSTANCE FrameFifo
          WITH Capacity <- MaxSize, pending <- PendingFrames, last <- LastFrame

\* Frames come out in the order and with the content they were queued.
ImplementsFifo == Fifo!FifoSpec

=============================================================================
