----------------------------- MODULE PlayerRef -----------------------------
(***************************************************************************)
(* The life of an IjkMediaPlayer behind one Java object: its reference     *)
(* count (ijkplayer.c), the field mNativeMediaPlayer that jni_get_ and     *)
(* jni_set_media_player read and write under g_clazz.mutex                 *)
(* (ijkplayer_jni.c), the message loop, which has a reference of its own,  *)
(* and the events it posts to the handler of IjkMediaPlayer.java.          *)
(*                                                                         *)
(* Any thread may make an ordinary call (getCurrentPosition, start, ...):  *)
(* it gets the player with a reference, uses it and drops the reference.   *)
(* One thread, Owner (the UI thread, whose looper has the handler),        *)
(* prepares, stops, releases and resets.  A player whose count falls to 0  *)
(* is destroyed by the thread that dropped the last reference, whichever   *)
(* it is: nothing but the count keeps a player alive during a call.        *)
(***************************************************************************)
EXTENDS Naturals, FiniteSets, Sequences

CONSTANTS Threads, Owner,
          Players,   \* the native players created for the object, one after another
          First,     \* the one the constructor created
          NULL,
          MaxCalls,  \* bound: calls of the threads
          MaxPosts   \* bound: events posted by the message loops

ASSUME ThreadsAssumption == IsFiniteSet(Threads) /\ Owner \in Threads /\ NULL \notin Threads
ASSUME PlayersAssumption == First \in Players /\ NULL \notin Players
ASSUME BoundsAssumption  == MaxCalls \in Nat /\ MaxPosts \in Nat

VARIABLES
  ref_count,    \* mp->ref_count
  life,         \* "unborn", "live", "dying" (the count is 0), or "freed"
  field,        \* mNativeMediaPlayer of the Java object
  lock,         \* the thread that holds g_clazz.mutex, or NULL
  op, pc,       \* what each thread calls, and where it is
  seen,         \* the field as the thread has read it, without a reference yet
  holds,        \* the references in each thread's variables
  doomed,       \* the player the thread is destroying, in ijkmp_dec_ref
  loop,         \* the message loop of each player
  aborted,      \* its message queue has been aborted
  weak,         \* mp->weak_thiz: "null", "set", "taken" by reset, or "deleted"
  listening,    \* the Java object has its listeners
  posted,       \* the events in the handler's queue, told apart by their player
  calls, posts

vars == <<ref_count, life, field, lock, op, pc, seen, holds, doomed, loop, aborted,
          weak, listening, posted, calls, posts>>

\* The variables a call keeps references in: mp of reset, mp of the function
\* that reset or the caller calls, and old of jni_set_media_player.
Slots == {"outer", "mp", "old"}
Places == Threads \X Slots
Lifecycle == {"prepare", "stop", "release", "reset"}
LoopHolds == {"begin", "get", "post", "drop"}

ThreadTypes ==
  /\ op \in [Threads -> {"none", "call"} \union Lifecycle]
  /\ pc \in [Threads -> {"idle", "get", "inc", "use", "take", "shutdown", "weak", "clear",
                         "drop_old", "create", "publish", "drop", "drop_outer", "remove"}]
  /\ seen \in [Threads -> Players \union {NULL}]
  /\ holds \in [Places -> Players \union {NULL}]
  /\ doomed \in [Threads -> Players \union {NULL}]
  /\ lock \in Threads \union {NULL}

PlayerTypes ==
  /\ ref_count \in [Players -> Nat]
  /\ life \in [Players -> {"unborn", "live", "dying", "freed"}]
  /\ field \in Players \union {NULL}
  /\ loop \in [Players -> LoopHolds \union {"none", "failed", "destroy", "exit", "end"}]

EventTypes ==
  /\ aborted \in [Players -> BOOLEAN]
  /\ weak \in [Players -> {"null", "set", "taken", "deleted"}]
  /\ listening \in BOOLEAN
  /\ posted \in Seq(Players)
  /\ calls \in Nat /\ posts \in Nat

TypeOK == ThreadTypes /\ PlayerTypes /\ EventTypes

\* IjkMediaPlayer_native_setup has returned: the field has the only reference.
Init ==
  /\ ref_count = [p \in Players |-> IF p = First THEN 1 ELSE 0]
  /\ life = [p \in Players |-> IF p = First THEN "live" ELSE "unborn"]
  /\ field = First
  /\ lock = NULL
  /\ op = [t \in Threads |-> "none"]
  /\ pc = [t \in Threads |-> "idle"]
  /\ seen = [t \in Threads |-> NULL]
  /\ holds = [x \in Places |-> NULL]
  /\ doomed = [t \in Threads |-> NULL]
  /\ loop = [p \in Players |-> "none"]
  /\ aborted = [p \in Players |-> FALSE]
  /\ weak = [p \in Players |-> IF p = First THEN "set" ELSE "null"]
  /\ listening = TRUE
  /\ posted = <<>>
  /\ calls = 0 /\ posts = 0

-----------------------------------------------------------------------------
(* Getting and dropping references.                                        *)

\* Reset gets the player once itself and once more through release.
Slot(t) == IF op[t] = "reset" /\ holds[<<t, "outer">>] = NULL THEN "outer" ELSE "mp"

At(t, where) == pc[t] = where /\ doomed[t] = NULL

\* g_clazz.mutex.  A slip: nobody takes it.
Unlocked == TRUE
LockFree == lock = NULL

Begin(t, call) ==
  /\ At(t, "idle")
  /\ calls < MaxCalls
  /\ t = Owner \/ call = "call"
  /\ calls' = calls + 1
  /\ op' = [op EXCEPT ![t] = call]
  /\ pc' = [pc EXCEPT ![t] = "get"]
  /\ listening' = (listening /\ call # "release")
  /\ UNCHANGED <<ref_count, life, field, lock, seen, holds, doomed, loop, aborted, weak,
                 posted, posts>>

\* jni_get_media_player without a player: the call throws or returns, release
\* inside reset goes on with the creation.
GetNull(t) ==
  /\ At(t, "get") /\ LockFree
  /\ field = NULL
  /\ pc' = [pc EXCEPT ![t] = IF op[t] # "reset" THEN "idle"
                             ELSE IF Slot(t) = "outer" THEN "remove" ELSE "create"]
  /\ UNCHANGED <<ref_count, life, field, lock, op, seen, holds, doomed, loop, aborted, weak,
                 listening, posted, calls, posts>>

GetRead(t) ==
  /\ At(t, "get") /\ LockFree
  /\ field # NULL
  /\ seen' = [seen EXCEPT ![t] = field]
  /\ lock' = t
  /\ pc' = [pc EXCEPT ![t] = "inc"]
  /\ UNCHANGED <<ref_count, life, field, op, holds, doomed, loop, aborted, weak,
                 listening, posted, calls, posts>>

\* Where a call goes on when it has its reference.
Body(t) ==
  CASE Slot(t) = "outer"           -> "take"
    [] op[t] \in {"release", "reset"} /\ Slot(t) = "mp" -> "shutdown"
    [] OTHER                       -> "use"

GetIncOnly(t) ==   \* a slip: the reference is not counted
  /\ At(t, "inc")
  /\ holds' = [holds EXCEPT ![<<t, Slot(t)>>] = seen[t]]
  /\ lock' = NULL
  /\ pc' = [pc EXCEPT ![t] = Body(t)]
  /\ UNCHANGED <<ref_count, life, field, op, seen, doomed, loop, aborted, weak,
                 listening, posted, calls, posts>>

GetInc(t) ==
  /\ At(t, "inc")
  /\ ref_count' = [ref_count EXCEPT ![seen[t]] = @ + 1]
  /\ holds' = [holds EXCEPT ![<<t, Slot(t)>>] = seen[t]]
  /\ lock' = NULL
  /\ pc' = [pc EXCEPT ![t] = Body(t)]
  /\ UNCHANGED <<life, field, op, seen, doomed, loop, aborted, weak,
                 listening, posted, calls, posts>>

\* ijkmp_dec_ref: one atomic subtraction, whose result tells the last holder.
\* A slip: the count is looked at before the subtraction.
LastOrNext(p) == ref_count[p] <= 2
Last(p) == ref_count[p] = 1

DropRef(t, slot, next) ==
  LET p == holds[<<t, slot>>]
  IN /\ pc' = [pc EXCEPT ![t] = next]
     /\ IF p = NULL
          THEN UNCHANGED <<ref_count, holds, life, doomed>>
          ELSE /\ ref_count' = [ref_count EXCEPT ![p] = @ - 1]
               /\ holds' = [holds EXCEPT ![<<t, slot>>] = NULL]
               /\ life' = IF Last(p) THEN [life EXCEPT ![p] = "dying"] ELSE life
               /\ doomed' = IF Last(p) THEN [doomed EXCEPT ![t] = p] ELSE doomed
     /\ UNCHANGED <<field, lock, op, seen, loop, aborted, weak, listening, posted,
                    calls, posts>>

\* old of jni_set_media_player, after g_clazz.mutex has been unlocked.
DropOld(t) == At(t, "drop_old") /\ DropRef(t, "old", "drop")

\* The end of a call, of release inside reset, or of native_setup.
Drop(t) ==
  /\ At(t, "drop")
  /\ DropRef(t, "mp", IF op[t] # "reset" THEN "idle"
                      ELSE IF field = NULL THEN "create" ELSE "drop_outer")

DropOuter(t) == At(t, "drop_outer") /\ DropRef(t, "outer", "remove")

\* ijkmp_dec_ref goes on: ijkmp_shutdown joins what is left of the player's
\* threads, ijkmp_destroy_p frees it.
Destroy(t) ==
  /\ doomed[t] # NULL
  /\ life' = [life EXCEPT ![doomed[t]] = "freed"]
  /\ doomed' = [doomed EXCEPT ![t] = NULL]
  /\ UNCHANGED <<ref_count, field, lock, op, pc, seen, holds, loop, aborted, weak,
                 listening, posted, calls, posts>>

-----------------------------------------------------------------------------
(* What the calls do with their player.                                    *)

UseCall(t) ==
  /\ At(t, "use") /\ op[t] = "call"
  /\ pc' = [pc EXCEPT ![t] = "drop"]
  /\ UNCHANGED <<ref_count, life, field, lock, op, seen, holds, doomed, loop, aborted, weak,
                 listening, posted, calls, posts>>

\* ijkmp_prepare_async_l: the message loop gets a reference, which is lost if its
\* thread cannot be created.  A second one is refused; the one that is not, after a
\* stop, would count another reference, but ends the program at assert(!ffp->is)
\* (Player, PrepareAgain) and is left out.
UsePrepare(t) ==
  /\ At(t, "use") /\ op[t] = "prepare"
  /\ LET p == holds[<<t, "mp">>]
     IN IF loop[p] = "none"
          THEN /\ ref_count' = [ref_count EXCEPT ![p] = @ + 1]
               /\ \E l \in {"begin", "failed"} : loop' = [loop EXCEPT ![p] = l]
          ELSE UNCHANGED <<ref_count, loop>>
  /\ pc' = [pc EXCEPT ![t] = "drop"]
  /\ UNCHANGED <<life, field, lock, op, seen, holds, doomed, aborted, weak,
                 listening, posted, calls, posts>>

\* ijkmp_stop_l, refused before the player has been prepared.
UseStop(t) ==
  /\ At(t, "use") /\ op[t] = "stop"
  /\ LET p == holds[<<t, "mp">>]
     IN aborted' = [aborted EXCEPT ![p] = @ \/ loop[p] # "none"]
  /\ pc' = [pc EXCEPT ![t] = "drop"]
  /\ UNCHANGED <<ref_count, life, field, lock, op, seen, holds, doomed, loop, weak,
                 listening, posted, calls, posts>>

\* IjkMediaPlayer_reset keeps weak_thiz for the next player.
Take(t) ==
  /\ At(t, "take")
  /\ LET p == holds[<<t, "outer">>]
     IN weak' = [weak EXCEPT ![p] = IF @ = "set" THEN "taken" ELSE @]
  /\ pc' = [pc EXCEPT ![t] = "get"]
  /\ UNCHANGED <<ref_count, life, field, lock, op, seen, holds, doomed, loop, aborted,
                 listening, posted, calls, posts>>

\* IjkMediaPlayer_release: the surface, ijkmp_shutdown, ...
Shutdown(t) ==
  /\ At(t, "shutdown")
  /\ aborted' = [aborted EXCEPT ![holds[<<t, "mp">>]] = TRUE]
  /\ pc' = [pc EXCEPT ![t] = "weak"]
  /\ UNCHANGED <<ref_count, life, field, lock, op, seen, holds, doomed, loop, weak,
                 listening, posted, calls, posts>>

\* ... weak_thiz, unless reset has taken it, ...
DeleteWeak(t) ==
  /\ At(t, "weak")
  /\ LET p == holds[<<t, "mp">>]
     IN weak' = [weak EXCEPT ![p] = IF @ = "set" THEN "deleted" ELSE @]
  /\ pc' = [pc EXCEPT ![t] = "clear"]
  /\ UNCHANGED <<ref_count, life, field, lock, op, seen, holds, doomed, loop, aborted,
                 listening, posted, calls, posts>>

\* ... and the field, whose reference passes to old.
Clear(t) ==
  /\ At(t, "clear") /\ LockFree
  /\ holds' = [holds EXCEPT ![<<t, "old">>] = field]
  /\ field' = NULL
  /\ pc' = [pc EXCEPT ![t] = "drop_old"]
  /\ UNCHANGED <<ref_count, life, lock, op, seen, doomed, loop, aborted, weak,
                 listening, posted, calls, posts>>

\* IjkMediaPlayer_native_setup, which may run out of memory, ...
Create(t) ==
  /\ At(t, "create")
  /\ \/ \E p \in Players :
          /\ life[p] = "unborn"
          /\ life' = [life EXCEPT ![p] = "live"]
          /\ ref_count' = [ref_count EXCEPT ![p] = 1]
          /\ holds' = [holds EXCEPT ![<<t, "mp">>] = p]
          /\ pc' = [pc EXCEPT ![t] = "publish"]
     \/ /\ pc' = [pc EXCEPT ![t] = "drop_outer"]
        /\ UNCHANGED <<ref_count, life, holds>>
  /\ UNCHANGED <<field, lock, op, seen, doomed, loop, aborted, weak,
                 listening, posted, calls, posts>>

\* ... jni_set_media_player, and ijkmp_set_weak_thiz, which nobody reads before
\* the player is prepared.
Publish(t) ==
  /\ At(t, "publish") /\ LockFree
  /\ LET p == holds[<<t, "mp">>]
     IN /\ ref_count' = [ref_count EXCEPT ![p] = @ + 1]
        /\ weak' = [weak EXCEPT ![p] = "set"]
        /\ field' = p
  /\ holds' = [holds EXCEPT ![<<t, "old">>] = field]
  /\ pc' = [pc EXCEPT ![t] = "drop_old"]
  /\ UNCHANGED <<life, lock, op, seen, doomed, loop, aborted, listening, posted,
                 calls, posts>>

\* IjkMediaPlayer.reset, back in Java: removeCallbacksAndMessages.
RemoveMessages(t) ==
  /\ At(t, "remove")
  /\ posted' = <<>>
  /\ pc' = [pc EXCEPT ![t] = "idle"]
  /\ UNCHANGED <<ref_count, life, field, lock, op, seen, holds, doomed, loop, aborted, weak,
                 listening, calls, posts>>

\* EventHandler.handleMessage, between two calls of the looper's thread: the
\* listener is called if the object has a player and a listener.
HandleMessage ==
  /\ At(Owner, "idle")
  /\ posted # <<>>
  /\ posted' = Tail(posted)
  /\ UNCHANGED <<ref_count, life, field, lock, op, pc, seen, holds, doomed, loop, aborted,
                 weak, listening, calls, posts>>

Step(t) ==
  \/ GetNull(t) \/ GetRead(t) \/ GetInc(t) \/ DropOld(t) \/ Drop(t) \/ DropOuter(t)
  \/ Destroy(t) \/ UseCall(t) \/ UsePrepare(t) \/ UseStop(t) \/ Take(t) \/ Shutdown(t)
  \/ DeleteWeak(t) \/ Clear(t) \/ Create(t) \/ Publish(t) \/ RemoveMessages(t)

-----------------------------------------------------------------------------
(* The message loop of a player.                                           *)

LoopAt(p, where) == loop[p] = where

\* Without a weak_thiz there is nobody to tell.
LoopBegin(p) ==
  /\ LoopAt(p, "begin")
  /\ loop' = [loop EXCEPT ![p] = IF weak[p] = "set" THEN "get" ELSE "drop"]
  /\ UNCHANGED <<ref_count, life, field, lock, op, pc, seen, holds, doomed, aborted, weak,
                 listening, posted, calls, posts>>

LoopGet(p) ==
  /\ LoopAt(p, "get") /\ ~aborted[p]
  /\ posts < MaxPosts
  /\ posts' = posts + 1
  /\ loop' = [loop EXCEPT ![p] = "post"]
  /\ UNCHANGED <<ref_count, life, field, lock, op, pc, seen, holds, doomed, aborted, weak,
                 listening, posted, calls>>

\* post_event, with the weak_thiz read at the beginning.
LoopPost(p) ==
  /\ LoopAt(p, "post")
  /\ posted' = Append(posted, p)
  /\ loop' = [loop EXCEPT ![p] = "get"]
  /\ UNCHANGED <<ref_count, life, field, lock, op, pc, seen, holds, doomed, aborted, weak,
                 listening, calls, posts>>

LoopAborted(p) ==
  /\ LoopAt(p, "get") /\ aborted[p]
  /\ loop' = [loop EXCEPT ![p] = "drop"]
  /\ UNCHANGED <<ref_count, life, field, lock, op, pc, seen, holds, doomed, aborted, weak,
                 listening, posted, calls, posts>>

LoopDropKeeps(p) ==   \* a slip: the loop ends with its reference
  /\ LoopAt(p, "drop")
  /\ loop' = [loop EXCEPT ![p] = "exit"]
  /\ UNCHANGED <<ref_count, life, field, lock, op, pc, seen, holds, doomed, aborted, weak,
                 listening, posted, calls, posts>>

LoopDrop(p) ==
  /\ LoopAt(p, "drop")
  /\ ref_count' = [ref_count EXCEPT ![p] = @ - 1]
  /\ life' = IF Last(p) THEN [life EXCEPT ![p] = "dying"] ELSE life
  /\ loop' = [loop EXCEPT ![p] = IF Last(p) THEN "destroy" ELSE "exit"]
  /\ UNCHANGED <<field, lock, op, pc, seen, holds, doomed, aborted, weak,
                 listening, posted, calls, posts>>

LoopDestroy(p) ==
  /\ LoopAt(p, "destroy")
  /\ life' = [life EXCEPT ![p] = "freed"]
  /\ loop' = [loop EXCEPT ![p] = "exit"]
  /\ UNCHANGED <<ref_count, field, lock, op, pc, seen, holds, doomed, aborted, weak,
                 listening, posted, calls, posts>>

\* SDL_RunThread stores the result in mp->_msg_thread.
LoopExit(p) ==
  /\ LoopAt(p, "exit")
  /\ loop' = [loop EXCEPT ![p] = "end"]
  /\ UNCHANGED <<ref_count, life, field, lock, op, pc, seen, holds, doomed, aborted, weak,
                 listening, posted, calls, posts>>

MessageLoop(p) ==
  \/ LoopBegin(p) \/ LoopGet(p) \/ LoopPost(p) \/ LoopAborted(p) \/ LoopDrop(p)
  \/ LoopDestroy(p) \/ LoopExit(p)

-----------------------------------------------------------------------------

\* The application makes no call and the message loops wait.
Resting ==
  /\ \A t \in Threads : At(t, "idle")
  /\ \A p \in Players : loop[p] \in {"none", "failed", "end"} \/ LoopAt(p, "get")
  /\ UNCHANGED vars

Next ==
  \/ \E t \in Threads : Step(t) \/ \E call \in {"call"} \union Lifecycle : Begin(t, call)
  \/ \E p \in Players : MessageLoop(p)
  \/ HandleMessage
  \/ Resting

\* The threads are scheduled; nobody has to make another call.
Fairness ==
  /\ \A t \in Threads : WF_vars(Step(t))
  /\ \A p \in Players : WF_vars(MessageLoop(p))

Spec == Init /\ [][Next]_vars /\ Fairness

-----------------------------------------------------------------------------
(* Properties. *)

\* The references to a player: those in variables, that of the field, and that
\* of the message loop, which is lost if the loop's thread was not created.
RefsIn(p) == {x \in Places : holds[x] = p}
RefOfField(p) == IF field = p THEN 1 ELSE 0
RefOfLoop(p) == IF loop[p] \in LoopHolds \union {"failed"} THEN 1 ELSE 0

\* The count is exact at every moment, although it is changed without a lock by
\* callers, by the message loop and by whoever replaces the field.
CountIsExact ==
  \A p \in Players :
    ref_count[p] = Cardinality(RefsIn(p)) + RefOfField(p) + RefOfLoop(p)

\* No thread is inside a call on a player that is being destroyed or is gone,
\* not even one that has read the field and not yet counted its reference.
UsedIsLive ==
  /\ \A x \in Places : holds[x] # NULL => life[holds[x]] = "live"
  /\ \A t \in Threads : pc[t] = "inc" => life[seen[t]] = "live"
  /\ field # NULL => life[field] = "live"
  /\ \A p \in Players : loop[p] \in LoopHolds => life[p] = "live"

\* A player is destroyed by one thread, once.
Destroying(p) == {t \in Threads : doomed[t] = p}
DestroyedOnce ==
  \A p \in Players :
    /\ Destroying(p) # {} \/ loop[p] = "destroy" => life[p] = "dying"
    /\ Cardinality(Destroying(p)) <= IF loop[p] = "destroy" THEN 0 ELSE 1

\* A player that has been released or reset is freed in the end, by whoever is
\* last, unless the reference of a loop that never ran keeps it.
EventuallyFreed ==
  \A p \in Players :
    weak[p] \in {"taken", "deleted"} ~> life[p] = "freed" \/ loop[p] = "failed"

\* After reset "none of the listeners get called anymore" for what the previous
\* player had posted.
NoStaleEvent ==
  [][HandleMessage /\ listening /\ field # NULL => Head(posted) = field]_vars

=============================================================================
