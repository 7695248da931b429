------------------------------ MODULE FrameFifo ------------------------------
(***************************************************************************)
(* What a frame queue with keep_last promises, whatever its threads do:    *)
(* the frames not yet shown are a FIFO, the frame shown last stays         *)
(* available until the next one replaces it, and the two together never    *)
(* exceed the capacity.                                                    *)
(***************************************************************************)
EXTENDS Naturals, Sequences

CONSTANTS Capacity, Frames, None

VARIABLES pending,  \* the frames to show, in decoding order
          last      \* the frame shown last, or None

fifoVars == <<pending, last>>

Kept == IF last = None THEN 0 ELSE 1

FifoInit == pending = <<>> /\ last = None

Put ==
  /\ Len(pending) + Kept < Capacity
  /\ \E f \in Frames : pending' = Append(pending, f)
  /\ UNCHANGED last

\* Showing a frame and dropping it are the same: it becomes the last one.
Show ==
  /\ pending # <<>>
  /\ last' = Head(pending)
  /\ pending' = Tail(pending)

FifoNext == Put \/ Show

FifoSpec == FifoInit /\ [][FifoNext]_fifoVars

=============================================================================
