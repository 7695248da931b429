-------------------------- MODULE FrameQueueProofs --------------------------
(***************************************************************************)
(* What FrameQueue promises for every capacity, every set of frames and    *)
(* both renderers.  IInv is the inductive invariant: who holds the mutex,  *)
(* what a thread that passed a test still knows when it acts on it without *)
(* the mutex, and where the write index is, counted from the read index.   *)
(***************************************************************************)
EXTENDS FrameQueue, SequenceTheorems, TLAPS

\* The frames between the read and the write index: size is too large by one
\* in the middle of frame_queue_next, too small in that of frame_queue_push.
Spread ==
  size - (IF rpc = "dec" THEN 1 ELSE 0) + (IF wpc = "commit" THEN 1 ELSE 0)

Wrap(i) == IF i >= MaxSize THEN i - MaxSize ELSE i

\* f->mutex is held across steps exactly by a thread between its test and its
\* sleep; each renderer stays on its own path.
MutexInv ==
  /\ mutex = "writer" <=> wpc \in {"test", "sleep"}
  /\ mutex = "reader" <=> rpc \in {"test", "sleep"}
  /\ reader = "polling" => rpc \in {"idle", "retry", "hold", "dec", "done"}
  /\ rpc = "dec" => after \in Continuations

\* What a test has found true stays true until the thread acts on it.
TestInv ==
  /\ wpc \in {"sleep", "wait"} => size = MaxSize
  /\ wpc = "check" => size < MaxSize \/ abort
  /\ wpc \in {"fill", "push", "commit"} => size < MaxSize
  /\ rpc \in {"sleep", "wait"} => size <= shown
  /\ rpc = "check" => size > shown \/ abort
  /\ rpc = "hold" => size > shown
  /\ rpc = "dec" => size > 1 /\ shown = 1
  /\ rpc = "use" => size > 0 /\ shown = 1

\* Where the indices are.
IndexInv ==
  /\ windex = Wrap(rindex + Spread)
  /\ rpc = "hold" => cur = Wrap(rindex + shown)
  /\ rpc \in {"dec", "use"} => cur = rindex

\* The closer signals after it has aborted, and nobody sleeps from then on.
CloseInv ==
  /\ abort <=> cpc # "open"
  /\ MaxSize > 1 /\ cpc \in {"join", "closed"} =>
       wpc \notin {"sleep", "wait"} /\ rpc \notin {"sleep", "wait"}

IInv == TypeOK /\ MutexInv /\ TestInv /\ IndexInv /\ CloseInv

-----------------------------------------------------------------------------

\* frame_queue_peek's modulo is a wrap-around, its operands being in range.
LEMMA PeekWraps ==
  ASSUME TypeOK
  PROVE  PeekIndex = Wrap(rindex + shown) /\ PeekIndex \in Indices
<1>1. MaxSize \in Nat \ {0} /\ rindex \in 0 .. MaxSize - 1 /\ shown \in {0, 1}
  BY MaxSizeAssumption DEF TypeOK, Indices
<1>2. CASE rindex + shown < MaxSize
  BY <1>1, <1>2 DEF PeekIndex, Wrap, Indices
<1>3. CASE rindex + shown = MaxSize
  <2>1. MaxSize % MaxSize = 0
    BY <1>1
  <2> QED
    BY <1>1, <1>3, <2>1 DEF PeekIndex, Wrap, Indices
<1> QED
  BY <1>1, <1>2, <1>3

LEMMA SuccWraps == ASSUME NEW i \in Indices PROVE Succ(i) = Wrap(i + 1) /\ Succ(i) \in Indices
  BY MaxSizeAssumption DEF Succ, Wrap, Indices

LEMMA InitIInv == Init => IInv
<1> SUFFICES ASSUME Init PROVE IInv
  OBVIOUS
<1> USE MaxSizeAssumption, ReadersAssumption DEF Init, Indices
<1>1. TypeOK
  <2>1. slot \in [Indices -> Frames \union {None}]
    OBVIOUS
  <2>2. abort \in BOOLEAN
    OBVIOUS
  <2>3. /\ rindex \in Indices /\ windex \in Indices /\ cur \in Indices
        /\ size \in 0 .. MaxSize
    OBVIOUS
  <2> QED
    BY <2>1, <2>2, <2>3 DEF TypeOK, WriterStates, ReaderStates, CloserStates
<1>2. MutexInv
  BY DEF MutexInv
<1>3. TestInv
  BY DEF TestInv
<1>4. IndexInv
  BY DEF IndexInv, Spread, Wrap
<1>5. CloseInv
  BY DEF CloseInv
<1> QED
  BY <1>1, <1>2, <1>3, <1>4, <1>5 DEF IInv

-----------------------------------------------------------------------------

\* One step for each action, and in it one for each part of the invariant.
LEMMA NextIInv == IInv /\ [Next]_vars => IInv'
<1> SUFFICES ASSUME IInv, [Next]_vars PROVE IInv'
  OBVIOUS
<1> USE MaxSizeAssumption, ReadersAssumption
    DEF IInv, ringVars, readVars, Indices, Continuations
<1>1. CASE WriterLock
  <2>1. TypeOK'
    BY <1>1 DEF WriterLock, TypeOK, MutexInv, TestInv, WriterStates, ReaderStates, CloserStates
  <2>2. MutexInv'
    BY <1>1 DEF WriterLock, TypeOK, MutexInv, TestInv
  <2>3. TestInv'
    BY <1>1 DEF WriterLock, TypeOK, MutexInv, TestInv
  <2>4. IndexInv'
    BY <1>1 DEF WriterLock, TypeOK, MutexInv, TestInv, IndexInv, Spread, Wrap
  <2>5. CloseInv'
    BY <1>1 DEF WriterLock, TypeOK, MutexInv, TestInv, CloseInv
  <2> QED
    BY <2>1, <2>2, <2>3, <2>4, <2>5
<1>2. CASE WriterTest
  <2>1. TypeOK'
    BY <1>2 DEF WriterTest, Full, TypeOK, MutexInv, TestInv, WriterStates, ReaderStates, CloserStates
  <2>2. MutexInv'
    BY <1>2 DEF WriterTest, Full, TypeOK, MutexInv, TestInv
  <2>3. TestInv'
    BY <1>2 DEF WriterTest, Full, TypeOK, MutexInv, TestInv
  <2>4. IndexInv'
    BY <1>2 DEF WriterTest, Full, TypeOK, MutexInv, TestInv, IndexInv, Spread, Wrap
  <2>5. CloseInv'
    BY <1>2 DEF WriterTest, Full, TypeOK, MutexInv, TestInv, CloseInv
  <2> QED
    BY <2>1, <2>2, <2>3, <2>4, <2>5
<1>3. CASE WriterSleep
  <2>1. TypeOK'
    BY <1>3 DEF WriterSleep, TypeOK, MutexInv, TestInv, WriterStates, ReaderStates, CloserStates
  <2>2. MutexInv'
    BY <1>3 DEF WriterSleep, TypeOK, MutexInv, TestInv
  <2>3. TestInv'
    BY <1>3 DEF WriterSleep, TypeOK, MutexInv, TestInv
  <2>4. IndexInv'
    BY <1>3 DEF WriterSleep, TypeOK, MutexInv, TestInv, IndexInv, Spread, Wrap
  <2>5. CloseInv'
    BY <1>3 DEF WriterSleep, TypeOK, MutexInv, TestInv, CloseInv
  <2> QED
    BY <2>1, <2>2, <2>3, <2>4, <2>5
<1>4. CASE WriterCheck
  <2>1. TypeOK'
    BY <1>4 DEF WriterCheck, TypeOK, MutexInv, TestInv, WriterStates, ReaderStates, CloserStates
  <2>2. MutexInv'
    BY <1>4 DEF WriterCheck, TypeOK, MutexInv, TestInv
  <2>3. TestInv'
    BY <1>4 DEF WriterCheck, TypeOK, MutexInv, TestInv
  <2>4. IndexInv'
    BY <1>4 DEF WriterCheck, TypeOK, MutexInv, TestInv, IndexInv, Spread, Wrap
  <2>5. CloseInv'
    BY <1>4 DEF WriterCheck, TypeOK, MutexInv, TestInv, CloseInv
  <2> QED
    BY <2>1, <2>2, <2>3, <2>4, <2>5
<1>5. CASE WriterFill
  <2>1. TypeOK'
    BY <1>5 DEF WriterFill, TypeOK, MutexInv, TestInv, WriterStates, ReaderStates, CloserStates
  <2>2. MutexInv'
    BY <1>5 DEF WriterFill, TypeOK, MutexInv, TestInv
  <2>3. TestInv'
    BY <1>5 DEF WriterFill, TypeOK, MutexInv, TestInv
  <2>4. IndexInv'
    BY <1>5 DEF WriterFill, TypeOK, MutexInv, TestInv, IndexInv, Spread, Wrap
  <2>5. CloseInv'
    BY <1>5 DEF WriterFill, TypeOK, MutexInv, TestInv, CloseInv
  <2> QED
    BY <2>1, <2>2, <2>3, <2>4, <2>5
<1>6. CASE WriterGiveUp
  <2>1. TypeOK'
    BY <1>6 DEF WriterGiveUp, TypeOK, MutexInv, TestInv, WriterStates, ReaderStates, CloserStates
  <2>2. MutexInv'
    BY <1>6 DEF WriterGiveUp, TypeOK, MutexInv, TestInv
  <2>3. TestInv'
    BY <1>6 DEF WriterGiveUp, TypeOK, MutexInv, TestInv
  <2>4. IndexInv'
    BY <1>6 DEF WriterGiveUp, TypeOK, MutexInv, TestInv, IndexInv, Spread, Wrap
  <2>5. CloseInv'
    BY <1>6 DEF WriterGiveUp, TypeOK, MutexInv, TestInv, CloseInv
  <2> QED
    BY <2>1, <2>2, <2>3, <2>4, <2>5
<1>7. CASE WriterAdvance
  <2>1. TypeOK'
    BY <1>7, SuccWraps DEF WriterAdvance, TypeOK, MutexInv, TestInv, WriterStates, ReaderStates, CloserStates
  <2>2. MutexInv'
    BY <1>7, SuccWraps DEF WriterAdvance, TypeOK, MutexInv, TestInv
  <2>3. TestInv'
    BY <1>7, SuccWraps DEF WriterAdvance, TypeOK, MutexInv, TestInv
  <2>4. IndexInv'
    BY <1>7, SuccWraps DEF WriterAdvance, TypeOK, MutexInv, TestInv, IndexInv, Spread, Wrap
  <2>5. CloseInv'
    BY <1>7, SuccWraps DEF WriterAdvance, TypeOK, MutexInv, TestInv, CloseInv
  <2> QED
    BY <2>1, <2>2, <2>3, <2>4, <2>5
<1>8. CASE WriterCommit
  <2>1. TypeOK'
    BY <1>8 DEF WriterCommit, Woken, TypeOK, MutexInv, TestInv, WriterStates, ReaderStates, CloserStates
  <2>2. MutexInv'
    BY <1>8 DEF WriterCommit, Woken, TypeOK, MutexInv, TestInv
  <2>3. TestInv'
    BY <1>8 DEF WriterCommit, Woken, TypeOK, MutexInv, TestInv
  <2>4. IndexInv'
    BY <1>8 DEF WriterCommit, Woken, TypeOK, MutexInv, TestInv, IndexInv, Spread, Wrap
  <2>5. CloseInv'
    BY <1>8 DEF WriterCommit, Woken, TypeOK, MutexInv, TestInv, CloseInv
  <2> QED
    BY <2>1, <2>2, <2>3, <2>4, <2>5
<1>9. CASE WriterExit
  <2>1. TypeOK'
    BY <1>9 DEF WriterExit, TypeOK, MutexInv, TestInv, WriterStates, ReaderStates, CloserStates
  <2>2. MutexInv'
    BY <1>9 DEF WriterExit, TypeOK, MutexInv, TestInv
  <2>3. TestInv'
    BY <1>9 DEF WriterExit, TypeOK, MutexInv, TestInv
  <2>4. IndexInv'
    BY <1>9 DEF WriterExit, TypeOK, MutexInv, TestInv, IndexInv, Spread, Wrap
  <2>5. CloseInv'
    BY <1>9 DEF WriterExit, TypeOK, MutexInv, TestInv, CloseInv
  <2> QED
    BY <2>1, <2>2, <2>3, <2>4, <2>5
<1>10. CASE ReaderLock
  <2>1. TypeOK'
    BY <1>10 DEF ReaderLock, TypeOK, MutexInv, TestInv, WriterStates, ReaderStates, CloserStates
  <2>2. MutexInv'
    BY <1>10 DEF ReaderLock, TypeOK, MutexInv, TestInv
  <2>3. TestInv'
    BY <1>10 DEF ReaderLock, TypeOK, MutexInv, TestInv
  <2>4. IndexInv'
    BY <1>10 DEF ReaderLock, TypeOK, MutexInv, TestInv, IndexInv, Spread, Wrap
  <2>5. CloseInv'
    BY <1>10 DEF ReaderLock, TypeOK, MutexInv, TestInv, CloseInv
  <2> QED
    BY <2>1, <2>2, <2>3, <2>4, <2>5
<1>11. CASE ReaderTest
  <2>1. TypeOK'
    BY <1>11 DEF ReaderTest, Empty, TypeOK, MutexInv, TestInv, WriterStates, ReaderStates, CloserStates
  <2>2. MutexInv'
    BY <1>11 DEF ReaderTest, Empty, TypeOK, MutexInv, TestInv
  <2>3. TestInv'
    BY <1>11 DEF ReaderTest, Empty, TypeOK, MutexInv, TestInv
  <2>4. IndexInv'
    BY <1>11 DEF ReaderTest, Empty, TypeOK, MutexInv, TestInv, IndexInv, Spread, Wrap
  <2>5. CloseInv'
    BY <1>11 DEF ReaderTest, Empty, TypeOK, MutexInv, TestInv, CloseInv
  <2> QED
    BY <2>1, <2>2, <2>3, <2>4, <2>5
<1>12. CASE ReaderSleep
  <2>1. TypeOK'
    BY <1>12 DEF ReaderSleep, TypeOK, MutexInv, TestInv, WriterStates, ReaderStates, CloserStates
  <2>2. MutexInv'
    BY <1>12 DEF ReaderSleep, TypeOK, MutexInv, TestInv
  <2>3. TestInv'
    BY <1>12 DEF ReaderSleep, TypeOK, MutexInv, TestInv
  <2>4. IndexInv'
    BY <1>12 DEF ReaderSleep, TypeOK, MutexInv, TestInv, IndexInv, Spread, Wrap
  <2>5. CloseInv'
    BY <1>12 DEF ReaderSleep, TypeOK, MutexInv, TestInv, CloseInv
  <2> QED
    BY <2>1, <2>2, <2>3, <2>4, <2>5
<1>13. CASE ReaderCheck
  <2>1. TypeOK'
    BY <1>13, PeekWraps DEF ReaderCheck, TypeOK, MutexInv, TestInv, WriterStates, ReaderStates, CloserStates
  <2>2. MutexInv'
    BY <1>13, PeekWraps DEF ReaderCheck, TypeOK, MutexInv, TestInv
  <2>3. TestInv'
    BY <1>13, PeekWraps DEF ReaderCheck, TypeOK, MutexInv, TestInv
  <2>4. IndexInv'
    BY <1>13, PeekWraps DEF ReaderCheck, TypeOK, MutexInv, TestInv, IndexInv, Spread, Wrap
  <2>5. CloseInv'
    BY <1>13, PeekWraps DEF ReaderCheck, TypeOK, MutexInv, TestInv, CloseInv
  <2> QED
    BY <2>1, <2>2, <2>3, <2>4, <2>5
<1>14. CASE ReaderUse
  <2>1. TypeOK'
    BY <1>14 DEF ReaderUse, TypeOK, MutexInv, TestInv, WriterStates, ReaderStates, CloserStates
  <2>2. MutexInv'
    BY <1>14 DEF ReaderUse, TypeOK, MutexInv, TestInv
  <2>3. TestInv'
    BY <1>14 DEF ReaderUse, TypeOK, MutexInv, TestInv
  <2>4. IndexInv'
    BY <1>14 DEF ReaderUse, TypeOK, MutexInv, TestInv, IndexInv, Spread, Wrap
  <2>5. CloseInv'
    BY <1>14 DEF ReaderUse, TypeOK, MutexInv, TestInv, CloseInv
  <2> QED
    BY <2>1, <2>2, <2>3, <2>4, <2>5
<1>15. CASE RefreshPeek
  <2>1. TypeOK'
    BY <1>15, PeekWraps DEF RefreshPeek, NbRemaining, TypeOK, MutexInv, TestInv, WriterStates, ReaderStates, CloserStates
  <2>2. MutexInv'
    BY <1>15, PeekWraps DEF RefreshPeek, NbRemaining, TypeOK, MutexInv, TestInv
  <2>3. TestInv'
    BY <1>15, PeekWraps DEF RefreshPeek, NbRemaining, TypeOK, MutexInv, TestInv
  <2>4. IndexInv'
    BY <1>15, PeekWraps DEF RefreshPeek, NbRemaining, TypeOK, MutexInv, TestInv, IndexInv, Spread, Wrap
  <2>5. CloseInv'
    BY <1>15, PeekWraps DEF RefreshPeek, NbRemaining, TypeOK, MutexInv, TestInv, CloseInv
  <2> QED
    BY <2>1, <2>2, <2>3, <2>4, <2>5
<1>16. CASE RefreshEarly
  <2>1. TypeOK'
    BY <1>16 DEF RefreshEarly, TypeOK, MutexInv, TestInv, WriterStates, ReaderStates, CloserStates
  <2>2. MutexInv'
    BY <1>16 DEF RefreshEarly, TypeOK, MutexInv, TestInv
  <2>3. TestInv'
    BY <1>16 DEF RefreshEarly, TypeOK, MutexInv, TestInv
  <2>4. IndexInv'
    BY <1>16 DEF RefreshEarly, TypeOK, MutexInv, TestInv, IndexInv, Spread, Wrap
  <2>5. CloseInv'
    BY <1>16 DEF RefreshEarly, TypeOK, MutexInv, TestInv, CloseInv
  <2> QED
    BY <2>1, <2>2, <2>3, <2>4, <2>5
<1>17. CASE ReaderNextKeep
  <2>1. TypeOK'
    BY <1>17 DEF ReaderNextKeep, TypeOK, MutexInv, TestInv, WriterStates, ReaderStates, CloserStates
  <2>2. MutexInv'
    BY <1>17 DEF ReaderNextKeep, TypeOK, MutexInv, TestInv
  <2>3. TestInv'
    BY <1>17 DEF ReaderNextKeep, TypeOK, MutexInv, TestInv
  <2>4. IndexInv'
    BY <1>17 DEF ReaderNextKeep, TypeOK, MutexInv, TestInv, IndexInv, Spread, Wrap
  <2>5. CloseInv'
    BY <1>17 DEF ReaderNextKeep, TypeOK, MutexInv, TestInv, CloseInv
  <2> QED
    BY <2>1, <2>2, <2>3, <2>4, <2>5
<1>18. CASE ReaderNextRelease
  <2>1. TypeOK'
    BY <1>18, SuccWraps DEF ReaderNextRelease, TypeOK, MutexInv, TestInv, WriterStates, ReaderStates, CloserStates
  <2>2. MutexInv'
    BY <1>18, SuccWraps DEF ReaderNextRelease, TypeOK, MutexInv, TestInv
  <2>3. TestInv'
    BY <1>18, SuccWraps DEF ReaderNextRelease, TypeOK, MutexInv, TestInv
  <2>4. IndexInv'
    <3>1. size > 1 /\ cur = Wrap(rindex + 1) /\ rindex' = Wrap(rindex + 1)
      BY <1>18, SuccWraps DEF ReaderNextRelease, TypeOK, TestInv, IndexInv
    <3>2. Spread' = Spread - 1 /\ Spread \in 1 .. MaxSize
      BY <1>18 DEF ReaderNextRelease, TypeOK, TestInv, Spread
    <3>3. windex' = Wrap(rindex' + Spread')
      BY <1>18, <3>1, <3>2 DEF ReaderNextRelease, TypeOK, IndexInv, Wrap
    <3> QED
      BY <1>18, <3>1, <3>3 DEF ReaderNextRelease, IndexInv
  <2>5. CloseInv'
    BY <1>18, SuccWraps DEF ReaderNextRelease, TypeOK, MutexInv, TestInv, CloseInv
  <2> QED
    BY <2>1, <2>2, <2>3, <2>4, <2>5
<1>19. CASE ReaderNextDec
  <2>1. TypeOK'
    <3>1. size' \in 0 .. MaxSize
      BY <1>19 DEF ReaderNextDec, Woken, TypeOK, TestInv
    <3>2. wpc' \in WriterStates /\ rpc' \in ReaderStates
      BY <1>19 DEF ReaderNextDec, Woken, TypeOK, WriterStates, ReaderStates
    <3> QED
      BY <1>19, <3>1, <3>2 DEF ReaderNextDec, Woken, TypeOK
  <2>2. MutexInv'
    BY <1>19 DEF ReaderNextDec, Woken, TypeOK, MutexInv, TestInv
  <2>3. TestInv'
    BY <1>19 DEF ReaderNextDec, Woken, TypeOK, MutexInv, TestInv
  <2>4. IndexInv'
    BY <1>19 DEF ReaderNextDec, Woken, TypeOK, MutexInv, TestInv, IndexInv, Spread, Wrap
  <2>5. CloseInv'
    BY <1>19 DEF ReaderNextDec, Woken, TypeOK, MutexInv, TestInv, CloseInv
  <2> QED
    BY <2>1, <2>2, <2>3, <2>4, <2>5
<1>20. CASE ReaderExit
  <2>1. TypeOK'
    BY <1>20 DEF ReaderExit, TypeOK, MutexInv, TestInv, WriterStates, ReaderStates, CloserStates
  <2>2. MutexInv'
    BY <1>20 DEF ReaderExit, TypeOK, MutexInv, TestInv
  <2>3. TestInv'
    BY <1>20 DEF ReaderExit, TypeOK, MutexInv, TestInv
  <2>4. IndexInv'
    BY <1>20 DEF ReaderExit, TypeOK, MutexInv, TestInv, IndexInv, Spread, Wrap
  <2>5. CloseInv'
    BY <1>20 DEF ReaderExit, TypeOK, MutexInv, TestInv, CloseInv
  <2> QED
    BY <2>1, <2>2, <2>3, <2>4, <2>5
<1>21. CASE CloserAbort
  <2>1. TypeOK'
    BY <1>21 DEF CloserAbort, TypeOK, MutexInv, TestInv, WriterStates, ReaderStates, CloserStates
  <2>2. MutexInv'
    BY <1>21 DEF CloserAbort, TypeOK, MutexInv, TestInv
  <2>3. TestInv'
    BY <1>21 DEF CloserAbort, TypeOK, MutexInv, TestInv
  <2>4. IndexInv'
    BY <1>21 DEF CloserAbort, TypeOK, MutexInv, TestInv, IndexInv, Spread, Wrap
  <2>5. CloseInv'
    BY <1>21 DEF CloserAbort, TypeOK, MutexInv, TestInv, CloseInv
  <2> QED
    BY <2>1, <2>2, <2>3, <2>4, <2>5
<1>22. CASE CloserSignal
  <2>1. TypeOK'
    BY <1>22 DEF CloserSignal, Signal, TypeOK, MutexInv, TestInv, WriterStates, ReaderStates, CloserStates
  <2>2. MutexInv'
    BY <1>22 DEF CloserSignal, Signal, TypeOK, MutexInv, TestInv
  <2>3. TestInv'
    BY <1>22 DEF CloserSignal, Signal, TypeOK, MutexInv, TestInv
  <2>4. IndexInv'
    BY <1>22 DEF CloserSignal, Signal, TypeOK, MutexInv, TestInv, IndexInv, Spread, Wrap
  <2>5. CloseInv'
    BY <1>22 DEF CloserSignal, Signal, TypeOK, MutexInv, TestInv, CloseInv
  <2> QED
    BY <2>1, <2>2, <2>3, <2>4, <2>5
<1>23. CASE CloserJoin
  <2>1. TypeOK'
    BY <1>23 DEF CloserJoin, TypeOK, MutexInv, TestInv, WriterStates, ReaderStates, CloserStates
  <2>2. MutexInv'
    BY <1>23 DEF CloserJoin, TypeOK, MutexInv, TestInv
  <2>3. TestInv'
    BY <1>23 DEF CloserJoin, TypeOK, MutexInv, TestInv
  <2>4. IndexInv'
    BY <1>23 DEF CloserJoin, TypeOK, MutexInv, TestInv, IndexInv, Spread, Wrap
  <2>5. CloseInv'
    BY <1>23 DEF CloserJoin, TypeOK, MutexInv, TestInv, CloseInv
  <2> QED
    BY <2>1, <2>2, <2>3, <2>4, <2>5
<1>24. CASE UNCHANGED vars
  BY <1>24 DEF vars, TypeOK, MutexInv, TestInv, IndexInv, CloseInv, Spread, Wrap
<1>25. CASE TogglePaused
  BY <1>25 DEF TogglePaused, TypeOK, MutexInv, TestInv, IndexInv, CloseInv, Spread, Wrap
<1> QED
  BY <1>1, <1>2, <1>3, <1>4, <1>5, <1>6, <1>7, <1>8, <1>9, <1>10, <1>11, <1>12, <1>13, <1>14, <1>15, <1>16, <1>17, <1>18, <1>19, <1>20, <1>21, <1>22, <1>23, <1>24, <1>25
     DEF Next, Writer, ReaderStep, Closer, Terminated

LEMMA Invariance == Spec => []IInv
<1> QED
  BY InitIInv, NextIInv, PTL DEF Spec

-----------------------------------------------------------------------------
(* The slots: every index from the read index on, up to Spread, holds a    *)
(* frame that has not been unreferenced.                                   *)

SlotInv ==
  /\ \A k \in Indices : k < Spread => slot[Wrap(rindex + k)] # None
  /\ wpc = "push" => slot[windex] # None

\* An action that leaves the slots and the indices where they are.
LEMMA SlotsKept ==
  ASSUME SlotInv, TypeOK, TypeOK', wpc' = "push" => wpc = "push",
         UNCHANGED <<slot, rindex, windex>>, Spread' = Spread
  PROVE  SlotInv'
  BY DEF SlotInv, Wrap

LEMMA NextSlotInv == IInv /\ IInv' /\ SlotInv /\ [Next]_vars => SlotInv'
<1> SUFFICES ASSUME IInv, IInv', SlotInv, [Next]_vars PROVE SlotInv'
  OBVIOUS
<1> USE MaxSizeAssumption, NoneAssumption DEF IInv
<1>1. CASE WriterFill
  <2>1. PICK f \in Frames : slot' = [slot EXCEPT ![windex] = f]
    BY <1>1 DEF WriterFill
  <2>2. Spread' = Spread /\ Spread \in 0 .. MaxSize - 1
    BY <1>1 DEF WriterFill, TypeOK, TestInv, Spread
  <2>3. slot'[windex] = f /\ f # None
    BY <2>1 DEF TypeOK
  <2>4. ASSUME NEW k \in Indices, k < Spread PROVE slot'[Wrap(rindex + k)] # None
    <3>1. Wrap(rindex + k) \in Indices /\ Wrap(rindex + k) # windex
      BY <2>2, <2>4 DEF IndexInv, TypeOK, Indices, Wrap
    <3> QED
      BY <2>1, <2>4, <3>1 DEF SlotInv, TypeOK
  <2> QED
    BY <1>1, <2>2, <2>3, <2>4 DEF WriterFill, SlotInv, Wrap
<1>2. CASE WriterAdvance
  <2>1. Spread' = Spread + 1 /\ Spread \in 0 .. MaxSize - 1
    BY <1>2 DEF WriterAdvance, ringVars, TypeOK, TestInv, Spread
  <2>2. slot[windex] # None /\ windex = Wrap(rindex + Spread)
    BY <1>2 DEF WriterAdvance, SlotInv, IndexInv
  <2>3. ASSUME NEW k \in Indices, k < Spread' PROVE slot'[Wrap(rindex + k)] # None
    BY <1>2, <2>1, <2>2, <2>3 DEF WriterAdvance, SlotInv, Indices
  <2> QED
    BY <1>2, <2>3 DEF WriterAdvance, SlotInv, Wrap
<1>3. CASE ReaderNextRelease
  <2>1. Spread' = Spread - 1 /\ Spread \in 1 .. MaxSize
    BY <1>3 DEF ReaderNextRelease, TypeOK, TestInv, Spread
  <2>2. rindex' = Wrap(rindex + 1) /\ slot' = [slot EXCEPT ![rindex] = None]
    BY <1>3, SuccWraps DEF ReaderNextRelease, TypeOK
  <2>3. wpc' = wpc /\ windex' = windex
    BY <1>3 DEF ReaderNextRelease
  <2>4. ASSUME NEW k \in Indices, k < Spread' PROVE slot'[Wrap(rindex' + k)] # None
    <3>1. k + 1 \in Indices /\ k + 1 < Spread
      BY <2>1, <2>4 DEF Indices
    <3>2. /\ Wrap(rindex' + k) = Wrap(rindex + (k + 1))
          /\ Wrap(rindex + (k + 1)) # rindex
          /\ Wrap(rindex + (k + 1)) \in Indices
      BY <2>2, <3>1 DEF TypeOK, Indices, Wrap
    <3> QED
      BY <2>2, <3>1, <3>2 DEF SlotInv, TypeOK
  <2>5. ASSUME wpc' = "push" PROVE slot'[windex'] # None
    <3>1. windex # rindex
      <4>1. Spread < MaxSize
        BY <1>3, <2>3, <2>5 DEF ReaderNextRelease, TypeOK, TestInv, Spread
      <4> QED
        BY <2>1, <4>1 DEF TypeOK, IndexInv, Indices, Wrap
    <3> QED
      BY <2>2, <2>3, <2>5, <3>1 DEF SlotInv, TypeOK
  <2> QED
    BY <2>4, <2>5 DEF SlotInv, Wrap
<1>4. CASE Writer /\ ~WriterFill /\ ~WriterAdvance
  <2>1. UNCHANGED <<slot, rindex, windex>> /\ (wpc' = "push" => wpc = "push")
    BY <1>4
       DEF Writer, ringVars, Spread,
           WriterLock, WriterTest, WriterSleep, WriterCheck,
           WriterGiveUp, WriterCommit, WriterExit
  <2>2. CASE WriterCommit
    BY <2>1, <2>2, SlotsKept DEF WriterCommit, Woken, TypeOK, Spread
  <2>3. CASE ~WriterCommit
    <3>1. size' = size /\ rpc' = rpc /\ wpc # "commit" /\ wpc' # "commit"
      BY <1>4, <2>3
         DEF Writer, ringVars,
             WriterLock, WriterTest, WriterSleep, WriterCheck,
             WriterGiveUp, WriterExit
    <3> QED
      BY <2>1, <3>1, SlotsKept DEF Spread
  <2> QED
    BY <2>2, <2>3
<1>5. CASE ReaderStep /\ ~ReaderNextRelease
  <2>1. UNCHANGED <<slot, rindex, windex>> /\ (wpc' = "push" => wpc = "push")
    BY <1>5
       DEF ReaderStep, ringVars, Spread,
           ReaderLock, ReaderTest, ReaderSleep, ReaderCheck, ReaderUse,
           RefreshPeek, RefreshEarly, ReaderNextKeep, ReaderNextDec, ReaderExit, Woken
  <2>2. CASE ReaderNextDec
    <3>1. rpc = "dec" /\ rpc' # "dec" /\ size' = size - 1 /\ size \in Nat
      BY <2>2, ReadersAssumption DEF ReaderNextDec, Woken, TypeOK, MutexInv, Continuations
    <3>2. wpc' = "commit" <=> wpc = "commit"
      BY <2>2 DEF ReaderNextDec, Woken
    <3> QED
      BY <2>1, <3>1, <3>2, SlotsKept DEF Spread
  <2>3. CASE ~ReaderNextDec
    <3>1. size' = size /\ wpc' = wpc /\ rpc # "dec"
      BY <1>5, <2>3
         DEF ReaderStep, ringVars,
             ReaderLock, ReaderTest, ReaderSleep, ReaderCheck, ReaderUse,
             RefreshPeek, RefreshEarly, ReaderNextKeep, ReaderExit
    <3>2. rpc' # "dec"
      BY <1>5, <2>3
         DEF ReaderStep, Continuations,
             ReaderLock, ReaderTest, ReaderSleep, ReaderCheck, ReaderUse,
             RefreshPeek, RefreshEarly, ReaderNextKeep, ReaderExit
    <3> QED
      BY <2>1, <3>1, <3>2, SlotsKept DEF Spread
  <2> QED
    BY <2>2, <2>3
<1>6. CASE Closer
  <2>1. UNCHANGED <<slot, rindex, windex>> /\ (wpc' = "push" => wpc = "push")
    BY <1>6
       DEF Closer, Signal, ringVars, Spread,
           CloserAbort, CloserSignal,
           CloserJoin
  <2>2. Spread' = Spread
    BY <1>6, ReadersAssumption
       DEF Closer, Signal, ringVars, Spread,
           CloserAbort, CloserSignal,
           CloserJoin,
           TypeOK, MutexInv, TestInv, Continuations
  <2> QED
    BY <2>1, <2>2, SlotsKept
<1>7. CASE TogglePaused \/ UNCHANGED vars
  <2>1. UNCHANGED <<slot, rindex, windex>> /\ (wpc' = "push" => wpc = "push")
    BY <1>7
       DEF TogglePaused, vars, ringVars, Spread
  <2>2. Spread' = Spread
    BY <1>7, ReadersAssumption
       DEF TogglePaused, vars, ringVars, Spread
  <2> QED
    BY <2>1, <2>2, SlotsKept
<1> QED
  BY <1>1, <1>2, <1>3, <1>4, <1>5, <1>6, <1>7 DEF Next, Terminated, Writer, ReaderStep

LEMMA SlotInvariance == Spec => []SlotInv
<1>1. Init => SlotInv
  BY MaxSizeAssumption DEF Init, SlotInv, Spread, Indices
<1>2. IInv /\ IInv' /\ SlotInv /\ [Next]_vars => SlotInv'
  BY NextSlotInv
<1> QED
  BY <1>1, <1>2, Invariance, PTL DEF Spec

-----------------------------------------------------------------------------

\* Type correctness: no index leaves the ring and size stays within it.
THEOREM TypeCorrect == Spec => []TypeOK
<1>1. IInv => TypeOK
  BY DEF IInv
<1> QED
  BY <1>1, Invariance, PTL

\* The decoder never writes the frame the renderer works on, whatever the
\* capacity: the two share no lock around it, only the indices keep them apart.
THEOREM WriterKeepsOff == Spec => []NoOverwrite
<1>1. ASSUME IInv PROVE NoOverwrite
  <2> SUFFICES ASSUME wpc \in {"fill", "push"}, Reading PROVE windex # cur
    BY DEF NoOverwrite
  <2>1. rindex \in 0 .. MaxSize - 1 /\ size < MaxSize /\ size \in Nat /\ shown \in {0, 1}
    BY <1>1 DEF IInv, TypeOK, TestInv, Indices
  <2>2. CASE rpc = "hold"
    BY <1>1, <2>1, <2>2, MaxSizeAssumption DEF IInv, TestInv, IndexInv, Spread, Wrap
  <2>3. CASE rpc \in {"use", "dec"}
    BY <1>1, <2>1, <2>3, MaxSizeAssumption DEF IInv, TestInv, IndexInv, Spread, Wrap
  <2> QED
    BY <2>2, <2>3 DEF Reading
<1> QED
  BY <1>1, Invariance, PTL

\* The frame the renderer works on has not been unreferenced, not even by the
\* frame_queue_next that audio_decode_frame calls before it reads the samples.
THEOREM FrameStays == Spec => []NoUseAfterUnref
<1>1. ASSUME IInv, SlotInv PROVE NoUseAfterUnref
  <2> SUFFICES ASSUME Reading PROVE slot[cur] # None
    BY DEF NoUseAfterUnref
  <2>1. rindex \in 0 .. MaxSize - 1 /\ size \in 0 .. MaxSize /\ shown \in {0, 1}
    BY <1>1 DEF IInv, TypeOK, Indices
  <2>2. CASE rpc = "hold"
    <3>1. shown \in Indices /\ shown < Spread /\ cur = Wrap(rindex + shown)
      BY <1>1, <2>1, <2>2, MaxSizeAssumption DEF IInv, TestInv, IndexInv, Spread, Indices
    <3> QED
      BY <1>1, <3>1 DEF SlotInv
  <2>3. CASE rpc \in {"use", "dec"}
    <3>1. 0 \in Indices /\ 0 < Spread /\ cur = Wrap(rindex + 0)
      BY <1>1, <2>1, <2>3, MaxSizeAssumption
      DEF IInv, TestInv, IndexInv, Spread, Indices, Wrap
    <3> QED
      BY <1>1, <3>1 DEF SlotInv
  <2> QED
    BY <2>2, <2>3 DEF Reading
<1> QED
  BY <1>1, Invariance, SlotInvariance, PTL

\* With room for two frames nobody misses a wake-up, although both threads
\* wait on one cond that is signalled and never broadcast.
THEOREM WakeupsArrive == ASSUME MaxSize > 1 PROVE Spec => []NoLostWakeup
<1>1. IInv => NoLostWakeup
  BY DEF IInv, TestInv, CloseInv, NoLostWakeup
<1> QED
  BY <1>1, Invariance, PTL

\* The reason: the two threads are never asleep together.
THEOREM OneSleeps == Spec => []NeverBothAsleep
<1>1. IInv => NeverBothAsleep
  BY MaxSizeAssumption DEF IInv, TypeOK, TestInv, NeverBothAsleep
<1> QED
  BY <1>1, Invariance, PTL

-----------------------------------------------------------------------------
(* The ring is a FIFO: every step of the threads is a Put, a Show or a     *)
(* stutter of FrameFifo under the refinement mapping of FrameQueue.        *)

\* The frame kept for redisplay is counted, also while frame_queue_next is
\* between rindex++ and size--.
KeptInv == shown <= Counted

LEMMA ModWraps == \A j \in 0 .. 2 * MaxSize - 1 : j % MaxSize = Wrap(j)
<1> SUFFICES ASSUME NEW j \in 0 .. 2 * MaxSize - 1 PROVE j % MaxSize = Wrap(j)
  OBVIOUS
<1>1. CASE j < MaxSize
  BY <1>1, MaxSizeAssumption DEF Wrap
<1>2. CASE j >= MaxSize
  BY <1>2, MaxSizeAssumption DEF Wrap
<1> QED
  BY <1>1, <1>2, MaxSizeAssumption

LEMMA KeptInvariance == Spec => []KeptInv
<1>1. Init => KeptInv
  BY DEF Init, KeptInv, Counted
<1>2. ASSUME IInv, KeptInv, [Next]_vars PROVE KeptInv'
  <2>1. size \in Nat /\ shown \in {0, 1}
    BY <1>2 DEF IInv, TypeOK
  <2>2. CASE WriterCommit
    BY <1>2, <2>1, <2>2 DEF WriterCommit, Woken, KeptInv, Counted
  <2>3. CASE ReaderNextKeep
    BY <1>2, <2>1, <2>3 DEF ReaderNextKeep, Continuations, IInv, TestInv, KeptInv, Counted
  <2>4. CASE ReaderNextRelease
    BY <1>2, <2>1, <2>4 DEF ReaderNextRelease, IInv, TestInv, KeptInv, Counted
  <2>5. CASE ReaderNextDec
    BY <1>2, <2>1, <2>5 DEF ReaderNextDec, Continuations, IInv, MutexInv, KeptInv, Counted
  <2>6. CASE \/ Writer /\ ~WriterCommit
             \/ ReaderStep /\ ~ReaderNextKeep /\ ~ReaderNextRelease /\ ~ReaderNextDec
             \/ Closer \/ TogglePaused
             \/ UNCHANGED vars
    <3>1. UNCHANGED <<size, shown>> /\ (rpc' = "dec" <=> rpc = "dec")
      BY <2>6
         DEF Writer, ReaderStep, Closer, TogglePaused, Signal, vars, ringVars, WriterLock, WriterTest,
             WriterSleep, WriterCheck, WriterFill, WriterGiveUp, WriterAdvance, WriterExit,
             ReaderLock, ReaderTest, ReaderSleep, ReaderCheck, ReaderUse, RefreshPeek,
             RefreshEarly, ReaderExit, CloserAbort, CloserSignal, CloserJoin
    <3> QED
      BY <1>2, <3>1 DEF KeptInv, Counted
  <2> QED
    BY <1>2, <2>2, <2>3, <2>4, <2>5, <2>6 DEF Next, Terminated
<1> QED
  BY <1>1, <1>2, Invariance, PTL DEF Spec

\* The frames to show of a ring with content s, read index r and c frames, of
\* which the first k has been shown.
Window(s, r, k, c) == [i \in 1 .. c - k |-> s[Wrap(r + (k + i - 1))]]

Slots == Frames \union {None}

\* What the operations of the ring do to the window, each as one equation.
LEMMA WindowIsSeq ==
  ASSUME NEW s \in [Indices -> Slots], NEW r \in Indices, NEW k \in {0, 1},
         NEW c \in k .. MaxSize
  PROVE  /\ Window(s, r, k, c) \in Seq(Slots)
         /\ Len(Window(s, r, k, c)) = c - k
<1>1. ASSUME NEW i \in 1 .. c - k PROVE s[Wrap(r + (k + i - 1))] \in Slots
  <2>1. Wrap(r + (k + i - 1)) \in Indices
    BY MaxSizeAssumption DEF Wrap, Indices
  <2> QED
    BY <2>1
<1>2. Window(s, r, k, c) \in [1 .. c - k -> Slots]
  BY <1>1 DEF Window
<1>3. c - k \in Nat
  BY MaxSizeAssumption
<1> QED
  BY <1>2, <1>3

LEMMA WindowPut ==
  ASSUME NEW s \in [Indices -> Slots], NEW r \in Indices, NEW k \in {0, 1},
         NEW c \in k .. MaxSize - 1
  PROVE  Window(s, r, k, c + 1) = Append(Window(s, r, k, c), s[Wrap(r + c)])
<1>1. /\ Window(s, r, k, c) \in Seq(Slots) /\ Len(Window(s, r, k, c)) = c - k
      /\ Window(s, r, k, c + 1) \in Seq(Slots) /\ Len(Window(s, r, k, c + 1)) = c + 1 - k
      /\ s[Wrap(r + c)] \in Slots
  <2>1. c \in k .. MaxSize /\ c + 1 \in k .. MaxSize /\ Wrap(r + c) \in Indices
    BY MaxSizeAssumption DEF Wrap, Indices
  <2>2. Window(s, r, k, c) \in Seq(Slots) /\ Len(Window(s, r, k, c)) = c - k
    BY <2>1, WindowIsSeq
  <2>3. Window(s, r, k, c + 1) \in Seq(Slots) /\ Len(Window(s, r, k, c + 1)) = c + 1 - k
    BY <2>1, WindowIsSeq
  <2>4. s[Wrap(r + c)] \in Slots
    BY <2>1
  <2> QED
    BY <2>2, <2>3, <2>4
<1> DEFINE longer == Append(Window(s, r, k, c), s[Wrap(r + c)])
<1>2. longer \in Seq(Slots) /\ Len(longer) = c + 1 - k
  BY <1>1, MaxSizeAssumption
<1>3. ASSUME NEW i \in 1 .. c + 1 - k PROVE Window(s, r, k, c + 1)[i] = longer[i]
  <2>1. CASE i <= c - k
    BY <1>1, <2>1, MaxSizeAssumption DEF Window
  <2>2. CASE i = c + 1 - k
    BY <1>1, <2>2, MaxSizeAssumption DEF Window
  <2>3. i <= c - k \/ i = c + 1 - k
    BY MaxSizeAssumption
  <2> QED
    BY <2>1, <2>2, <2>3
<1> QED
  BY <1>1, <1>2, <1>3, SeqEqual

LEMMA WindowShow ==
  ASSUME NEW s \in [Indices -> Slots], NEW r \in Indices, NEW c \in 1 .. MaxSize
  PROVE  /\ Window(s, r, 0, c) # <<>>
         /\ Head(Window(s, r, 0, c)) = s[r]
         /\ Tail(Window(s, r, 0, c)) = Window(s, r, 1, c)
<1>1. /\ Window(s, r, 0, c) \in Seq(Slots) /\ Len(Window(s, r, 0, c)) = c
      /\ Window(s, r, 1, c) \in Seq(Slots) /\ Len(Window(s, r, 1, c)) = c - 1
  BY WindowIsSeq, MaxSizeAssumption
<1>2. Window(s, r, 0, c) # <<>> /\ Head(Window(s, r, 0, c)) = s[r]
  BY <1>1, MaxSizeAssumption DEF Window, Wrap, Indices
<1>3. ASSUME NEW i \in 1 .. c - 1
      PROVE  Tail(Window(s, r, 0, c))[i] = Window(s, r, 1, c)[i]
  BY <1>1, MaxSizeAssumption DEF Window
<1> QED
  BY <1>1, <1>2, <1>3, SeqEqual, HeadTailProperties

LEMMA WindowRelease ==
  ASSUME NEW s \in [Indices -> Slots], NEW r \in Indices, NEW c \in 2 .. MaxSize
  PROVE  LET t == [s EXCEPT ![r] = None]
             n == Wrap(r + 1)
         IN /\ Window(s, r, 1, c) # <<>>
            /\ Head(Window(s, r, 1, c)) = t[n]
            /\ Tail(Window(s, r, 1, c)) = Window(t, n, 1, c - 1)
<1> DEFINE t == [s EXCEPT ![r] = None]
           n == Wrap(r + 1)
<1>1. n \in Indices /\ n # r /\ t \in [Indices -> Slots]
  BY MaxSizeAssumption DEF Wrap, Indices, Slots
<1>2. /\ Window(s, r, 1, c) \in Seq(Slots) /\ Len(Window(s, r, 1, c)) = c - 1
      /\ Window(t, n, 1, c - 1) \in Seq(Slots) /\ Len(Window(t, n, 1, c - 1)) = c - 2
  <2>1. c \in 1 .. MaxSize /\ c - 1 \in 1 .. MaxSize
    BY MaxSizeAssumption
  <2>2. Window(s, r, 1, c) \in Seq(Slots) /\ Len(Window(s, r, 1, c)) = c - 1
    BY <2>1, WindowIsSeq
  <2>3. Window(t, n, 1, c - 1) \in Seq(Slots) /\ Len(Window(t, n, 1, c - 1)) = c - 1 - 1
    BY <1>1, <2>1, WindowIsSeq
  <2> QED
    BY <2>2, <2>3, MaxSizeAssumption
<1>3. Window(s, r, 1, c) # <<>> /\ Head(Window(s, r, 1, c)) = t[n]
  BY <1>1, <1>2, MaxSizeAssumption DEF Window
<1>4. ASSUME NEW i \in 1 .. c - 2
      PROVE  Tail(Window(s, r, 1, c))[i] = Window(t, n, 1, c - 1)[i]
  <2>1. Tail(Window(s, r, 1, c))[i] = s[Wrap(r + (i + 1))]
    BY <1>2, MaxSizeAssumption DEF Window
  <2>2. Window(t, n, 1, c - 1)[i] = t[Wrap(n + i)]
    BY <1>2, MaxSizeAssumption DEF Window
  <2>3. Wrap(n + i) = Wrap(r + (i + 1)) /\ Wrap(r + (i + 1)) # r /\ Wrap(r + (i + 1)) \in Indices
    BY MaxSizeAssumption DEF Wrap, Indices
  <2> QED
    BY <2>1, <2>2, <2>3
<1>5. Tail(Window(s, r, 1, c)) \in Seq(Slots) /\ Len(Tail(Window(s, r, 1, c))) = c - 2
  BY <1>2, <1>3
<1>6. Tail(Window(s, r, 1, c)) = Window(t, n, 1, c - 1)
  BY <1>2, <1>4, <1>5, SeqEqual
<1> QED
  BY <1>3, <1>6

LEMMA WindowFill ==
  ASSUME NEW s \in [Indices -> Slots], NEW r \in Indices, NEW k \in {0, 1},
         NEW c \in k .. MaxSize - 1, NEW f
  PROVE  Window([s EXCEPT ![Wrap(r + c)] = f], r, k, c) = Window(s, r, k, c)
<1>1. ASSUME NEW i \in 1 .. c - k
      PROVE  /\ Wrap(r + (k + i - 1)) \in Indices
             /\ Wrap(r + (k + i - 1)) # Wrap(r + c)
  BY MaxSizeAssumption DEF Wrap, Indices
<1> QED
  BY <1>1 DEF Window

LEMMA CountedBounds == IInv /\ KeptInv => Counted \in shown .. MaxSize /\ Counted \in Nat
  BY MaxSizeAssumption DEF IInv, TypeOK, TestInv, KeptInv, Counted

LEMMA MappedFrames ==
  IInv /\ KeptInv => PendingFrames = Window(slot, rindex, shown, Counted)
<1> SUFFICES ASSUME IInv, KeptInv
             PROVE  PendingFrames = Window(slot, rindex, shown, Counted)
  OBVIOUS
<1>1. Counted \in shown .. MaxSize /\ rindex \in Indices /\ shown \in {0, 1}
  BY CountedBounds DEF IInv, TypeOK
<1>2. (IF Counted > shown THEN Counted - shown ELSE 0) = Counted - shown
  BY <1>1, MaxSizeAssumption
<1>3. ASSUME NEW i \in 1 .. Counted - shown
      PROVE  (rindex + shown + i - 1) % MaxSize = Wrap(rindex + (shown + i - 1))
  <2>1. /\ rindex + shown + i - 1 = rindex + (shown + i - 1)
        /\ rindex + (shown + i - 1) \in 0 .. 2 * MaxSize - 1
    BY <1>1, MaxSizeAssumption DEF Indices
  <2> QED
    BY <2>1, ModWraps
<1> QED
  BY <1>2, <1>3 DEF PendingFrames, Window

\* A step that leaves the ring, and what is counted in it, alone.
LEMMA RingKept ==
  ASSUME UNCHANGED <<slot, rindex, shown>>, Counted' = Counted
  PROVE  UNCHANGED Fifo!fifoVars
  BY DEF Fifo!fifoVars, PendingFrames, LastFrame

LEMMA FifoStep ==
  IInv /\ IInv' /\ SlotInv /\ KeptInv /\ KeptInv' /\ [Next]_vars
    => [Fifo!FifoNext]_(Fifo!fifoVars)
<1> SUFFICES ASSUME IInv, IInv', SlotInv, KeptInv, KeptInv', [Next]_vars
             PROVE  Fifo!FifoNext \/ UNCHANGED Fifo!fifoVars
  OBVIOUS
<1> USE MaxSizeAssumption, NoneAssumption
<1>1. /\ slot \in [Indices -> Slots] /\ rindex \in Indices /\ shown \in {0, 1}
      /\ Counted \in shown .. MaxSize /\ Counted \in Nat
      /\ PendingFrames = Window(slot, rindex, shown, Counted)
  BY CountedBounds, MappedFrames DEF IInv, TypeOK, Slots
<1>2. PendingFrames' = Window(slot', rindex', shown', Counted')
  <2>1. (IInv /\ KeptInv => PendingFrames = Window(slot, rindex, shown, Counted))'
    BY MappedFrames, PTL
  <2> QED
    BY <2>1 DEF Window, Wrap
<1>3. CASE WriterFill
  <2>1. PICK f \in Frames : slot' = [slot EXCEPT ![windex] = f]
    BY <1>3 DEF WriterFill
  <2>2. /\ UNCHANGED <<rindex, shown>> /\ Counted' = Counted /\ Counted \in shown .. MaxSize - 1
        /\ windex = Wrap(rindex + Counted)
    BY <1>1, <1>3 DEF WriterFill, IInv, TypeOK, TestInv, IndexInv, Spread, Counted
  <2>3. Window(slot', rindex, shown, Counted) = Window(slot, rindex, shown, Counted)
    <3>1. Window([slot EXCEPT ![Wrap(rindex + Counted)] = f], rindex, shown, Counted)
            = Window(slot, rindex, shown, Counted)
      <4>1. /\ slot \in [Indices -> Slots] /\ rindex \in Indices /\ shown \in {0, 1}
            /\ Counted \in shown .. MaxSize - 1
        BY <1>1, <2>2
      <4> QED
        BY ONLY <4>1, WindowFill, Zenon
    <3> QED
      BY <2>1, <2>2, <3>1
  <2>4. shown = 1 => windex # rindex
    BY <1>1, <2>2 DEF Wrap, Indices
  <2>5. LastFrame' = LastFrame
    BY <1>1, <2>1, <2>2, <2>4 DEF LastFrame
  <2> QED
    BY <1>1, <1>2, <2>2, <2>3, <2>5 DEF Fifo!fifoVars
<1>4. CASE WriterCommit
  <2>1. /\ UNCHANGED <<slot, rindex, shown>> /\ Counted' = Counted + 1
        /\ Counted \in shown .. MaxSize - 1 /\ Spread = Counted + 1
    BY <1>1, <1>4 DEF WriterCommit, Woken, IInv, TypeOK, TestInv, Spread, Counted
  <2>2. Wrap(rindex + Counted) \in Indices /\ slot[Wrap(rindex + Counted)] \in Frames
    <3>1. Counted \in Indices /\ Wrap(rindex + Counted) \in Indices
      BY <1>1, <2>1 DEF Indices, Wrap
    <3>2. slot[Wrap(rindex + Counted)] # None
      BY <1>1, <2>1, <3>1 DEF SlotInv
    <3> QED
      BY <1>1, <3>1, <3>2 DEF Slots
  <2>3. PendingFrames' = Append(PendingFrames, slot[Wrap(rindex + Counted)])
    BY <1>1, <1>2, <2>1, WindowPut
  <2>4. LastFrame' = LastFrame
    BY <2>1 DEF LastFrame
  <2>5. Len(PendingFrames) + Fifo!Kept < MaxSize
    <3>1. Len(PendingFrames) = Counted - shown
      BY <1>1, WindowIsSeq
    <3>2. Fifo!Kept = shown
      <4>1. CASE shown = 0
        BY <4>1 DEF Fifo!Kept, LastFrame
      <4>2. CASE shown = 1
        <5>1. 0 \in Indices /\ 0 < Spread /\ Wrap(rindex + 0) = rindex
          BY <1>1, <2>1, <4>2 DEF Indices, Wrap
        <5>2. slot[rindex] # None
          BY <5>1 DEF SlotInv
        <5> QED
          BY <4>2, <5>2 DEF Fifo!Kept, LastFrame
      <4> QED
        BY <1>1, <4>1, <4>2
    <3> QED
      BY <1>1, <2>1, <3>1, <3>2
  <2> QED
    BY <2>2, <2>3, <2>4, <2>5 DEF Fifo!FifoNext, Fifo!Put
<1>5. CASE ReaderNextKeep
  <2>1. /\ UNCHANGED <<slot, rindex>> /\ shown = 0 /\ shown' = 1
        /\ Counted' = Counted /\ Counted \in 1 .. MaxSize
    BY <1>1, <1>5, ReadersAssumption
       DEF ReaderNextKeep, Continuations, IInv, TypeOK, TestInv, Counted
  <2>2. /\ PendingFrames # <<>> /\ Head(PendingFrames) = slot[rindex]
        /\ Tail(PendingFrames) = PendingFrames'
    BY <1>1, <1>2, <2>1, WindowShow
  <2>3. LastFrame' = slot[rindex]
    BY <2>1 DEF LastFrame
  <2> QED
    BY <2>2, <2>3 DEF Fifo!FifoNext, Fifo!Show
<1>6. CASE ReaderNextRelease
  <2>1. /\ slot' = [slot EXCEPT ![rindex] = None] /\ shown = 1 /\ shown' = 1
        /\ rindex' = Wrap(rindex + 1)
    BY <1>1, <1>6, SuccWraps DEF ReaderNextRelease
  <2>2. Counted \in 2 .. MaxSize /\ Counted' = Counted - 1
    BY <1>1, <1>6 DEF ReaderNextRelease, IInv, TypeOK, TestInv, Counted
  <2>3. /\ PendingFrames # <<>> /\ Head(PendingFrames) = slot'[rindex']
        /\ Tail(PendingFrames) = PendingFrames'
    BY <1>1, <1>2, <2>1, <2>2, WindowRelease
  <2>4. LastFrame' = slot'[rindex']
    BY <2>1 DEF LastFrame
  <2> QED
    BY <2>3, <2>4 DEF Fifo!FifoNext, Fifo!Show
<1>7. CASE ReaderNextDec
  <2>1. UNCHANGED <<slot, rindex, shown>> /\ Counted' = Counted
    BY <1>7 DEF ReaderNextDec, Continuations, IInv, MutexInv, Counted
  <2> QED
    BY <2>1, RingKept
<1>8. CASE \/ Writer /\ ~WriterFill /\ ~WriterCommit
           \/ ReaderStep /\ ~ReaderNextKeep /\ ~ReaderNextRelease /\ ~ReaderNextDec
           \/ Closer \/ TogglePaused
           \/ UNCHANGED vars
  <2>1. UNCHANGED <<slot, rindex, shown, size>> /\ (rpc' = "dec" <=> rpc = "dec")
    BY <1>8
       DEF Writer, ReaderStep, Closer, TogglePaused, Signal, vars, ringVars, WriterLock, WriterTest,
           WriterSleep, WriterCheck, WriterGiveUp, WriterAdvance, WriterExit,
           ReaderLock, ReaderTest, ReaderSleep, ReaderCheck, ReaderUse, RefreshPeek,
           RefreshEarly, ReaderExit, CloserAbort, CloserSignal, CloserJoin
  <2> QED
    BY <2>1, RingKept DEF Counted
<1> QED
  BY <1>3, <1>4, <1>5, <1>6, <1>7, <1>8 DEF Next, Terminated

\* Frames come out in the order and with the content they were queued, the frame
\* shown last stays until the next one replaces it, and the ring never holds more
\* than its capacity: frame_queue_* implements FrameFifo for every max_size.
THEOREM RingIsFifo == Spec => ImplementsFifo
<1>1. Init => Fifo!FifoInit
  BY DEF Init, Fifo!FifoInit, PendingFrames, LastFrame, Counted
<1>2. [][Next]_vars /\ []IInv /\ []SlotInv /\ []KeptInv => [][Fifo!FifoNext]_(Fifo!fifoVars)
  BY FifoStep, PTL
<1> QED
  BY <1>1, <1>2, Invariance, SlotInvariance, KeptInvariance, PTL
     DEF Spec, ImplementsFifo, Fifo!FifoSpec

=============================================================================
