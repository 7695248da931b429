---------------------------- MODULE MessageQueue ----------------------------
(***************************************************************************)
(* The message queue between the player and the application's message      *)
(* loop (ff_ffmsg_queue.h), at the level of its linked list: messages are  *)
(* nodes chained by next from first_msg, and the nodes of the messages     *)
(* taken out are chained from recycle_msg and used again.                  *)
(*                                                                         *)
(* Threads: the player's own threads put event messages; the application   *)
(* thread issues requests, each of which removes the requests it makes     *)
(* obsolete and then puts its own (ijkmp_start_l, _pause_l, _seek_to_l);   *)
(* the message loop gets messages and sleeps on the cond when there are    *)
(* none; stop aborts the queue.                                            *)
(*                                                                         *)
(* Every operation runs under q->mutex and is one action, except           *)
(* msg_queue_remove: it reads first_msg before it locks the mutex, and its *)
(* loop, which may not end, takes one action per iteration.                *)
(***************************************************************************)
EXTENDS Naturals, Sequences, FiniteSets, SequencesExt, Removal

CONSTANTS Nodes,      \* the addresses av_malloc can return; when all are in
                      \* use it returns NULL
          NULL,
          Events,     \* kinds of the messages the player puts
          Requests,   \* the requests this application issues
          MaxPuts     \* bound on the messages put

RequestKinds == {"REQ_START", "REQ_PAUSE", "REQ_SEEK"}
Kinds == Events \union RequestKinds \union {"FLUSH"}

HEAD == "first_msg"   \* the address &q->first_msg, where p_msg starts

ASSUME NodesAssumption    == IsFiniteSet(Nodes) /\ NULL \notin Nodes /\ HEAD \notin Nodes
ASSUME RequestsAssumption == Requests \subseteq RequestKinds
ASSUME MaxPutsAssumption  == MaxPuts \in Nat

VARIABLES next,      \* msg->next; next[HEAD] is q->first_msg
          last,      \* q->last_msg
          recycle,   \* q->recycle_msg
          body,      \* msg->what, with the number of the put that wrote it
          allocated, \* the nodes obtained from av_malloc
          nb_messages, abort_request,
          loop,      \* the message loop: not created, running, waiting on
                     \* the cond, ended; "freed" after msg_queue_destroy
          request,   \* the kinds the application's request has still to
                     \* remove, and the one it puts ("" when there is none)
          removing,  \* the locals of msg_queue_remove
          removed,   \* whether msg_queue_remove has gone through a list
          sent,      \* the number of puts
          pending,   \* the messages put and not delivered, removed or
                     \* flushed since: what the queue should hold
          delivered  \* the number of the last message the loop got

heapVars == <<next, last, recycle, body, allocated, nb_messages>>
vars == <<heapVars, abort_request, loop, request, removing, removed, sent,
          pending, delivered>>

Pointer == Nodes \union {NULL}
Messages == [what : Kinds, id : 0 .. MaxPuts]
\* The locals of msg_queue_remove outside it.  A slip: p_msg does not start at
\* the head of the queue.
NotReset == [what |-> "", locked |-> FALSE, p_msg |-> NULL, last_msg |-> NULL]
NotRemoving == [what |-> "", locked |-> FALSE, p_msg |-> HEAD, last_msg |-> NULL]

first == next[HEAD]

TypeOK ==
  /\ next \in [Nodes \union {HEAD} -> Pointer]
  /\ last \in Pointer /\ recycle \in Pointer
  /\ body \in [Nodes -> Messages]
  /\ allocated \subseteq Nodes
  /\ nb_messages \in 0 .. MaxPuts
  /\ abort_request \in BOOLEAN
  /\ loop \in {"none", "run", "wait", "end", "freed"}
  /\ request \in [remove : Seq(RequestKinds), put : RequestKinds \union {""}]
  /\ removing \in [what : RequestKinds \union {""}, locked : BOOLEAN,
                   p_msg : Nodes \union {HEAD}, last_msg : Pointer]
  /\ removed \in BOOLEAN
  /\ sent \in 0 .. MaxPuts
  /\ pending \in Seq(Messages)
  /\ delivered \in 0 .. MaxPuts

-----------------------------------------------------------------------------

\* The queue as msg_queue_init leaves it: aborted until it is started.
Init ==
  /\ next = [n \in Nodes \union {HEAD} |-> NULL]
  /\ last = NULL /\ recycle = NULL
  /\ body = [n \in Nodes |-> [what |-> "FLUSH", id |-> 0]]
  /\ allocated = {}
  /\ nb_messages = 0
  /\ abort_request = TRUE
  /\ loop = "none"
  /\ request = [remove |-> <<>>, put |-> ""]
  /\ removing = NotRemoving /\ removed = FALSE
  /\ sent = 0 /\ pending = <<>> /\ delivered = 0

Unlocked == ~removing.locked

\* Node n becomes the last of the list.  Its own next is cleared before
\* last_msg->next is set.  Two slips: it is not cleared; n becomes the first.
LinkedDirty(n) == [next EXCEPT ![IF last = NULL THEN HEAD ELSE last] = n]
LinkedFirst(n) == [next EXCEPT ![n] = first, ![HEAD] = n]
Linked(n) == [next EXCEPT ![n] = NULL, ![IF last = NULL THEN HEAD ELSE last] = n]

\* The first node moves to the recycle list, with a slip: its next is kept.
RecycledDirty == [next EXCEPT ![HEAD] = next[first]]
Recycled == [next EXCEPT ![HEAD] = next[first], ![first] = recycle]

\* SDL_CondSignal(q->cond)
NotWoken == loop
Woken == IF loop = "wait" THEN "run" ELSE loop

\* The end of msg_queue_put_private.
Enqueue(n, kind) ==
  LET msg == [what |-> kind, id |-> sent + 1]
  IN /\ body' = [body EXCEPT ![n] = msg]
     /\ next' = Linked(n)
     /\ last' = n
     /\ nb_messages' = nb_messages + 1
     /\ sent' = sent + 1
     /\ pending' = Append(pending, msg)
     /\ loop' = Woken

\* msg_queue_put_private: a recycled node, else a new one, else failure.  The
\* callers, msg_queue_put_simple*, ignore the result.
PutPrivate(kind) ==
  /\ sent < MaxPuts
  /\ \/ /\ recycle # NULL
        /\ recycle' = next[recycle]
        /\ Enqueue(recycle, kind)
        /\ UNCHANGED allocated
     \/ /\ recycle = NULL /\ allocated # Nodes
        /\ LET n == CHOOSE m \in Nodes : m \notin allocated
           IN allocated' = allocated \union {n} /\ Enqueue(n, kind)
        /\ UNCHANGED recycle
     \/ /\ recycle = NULL /\ allocated = Nodes
        /\ UNCHANGED <<heapVars, loop, sent, pending>>

\* A put by one of the player's threads; an aborted queue refuses it.
PutEvent ==
  /\ Unlocked /\ ~abort_request
  /\ \E kind \in Events : PutPrivate(kind)
  /\ UNCHANGED <<abort_request, request, removing, delivered, removed>>

\* msg_queue_start, by ijkmp_prepare_async_l.
Start ==
  /\ Unlocked /\ loop = "none" /\ abort_request
  /\ abort_request' = FALSE
  /\ PutPrivate("FLUSH")
  /\ UNCHANGED <<request, removing, delivered, removed>>

\* ijkmp_prepare_async_l then creates the thread of the message loop.
CreateLoop ==
  /\ loop = "none" /\ ~abort_request
  /\ loop' = "run"
  /\ UNCHANGED <<heapVars, abort_request, request, removing, sent, pending, delivered, removed>>

\* msg_queue_abort, by ffp_stop_l.
Abort ==
  /\ Unlocked /\ loop # "none" /\ ~abort_request
  /\ abort_request' = TRUE
  /\ loop' = Woken
  /\ UNCHANGED <<heapVars, request, removing, sent, pending, delivered, removed>>

-----------------------------------------------------------------------------
(* msg_queue_get, blocking, by the message loop.                           *)

GetAborted ==
  /\ Unlocked /\ loop = "run" /\ abort_request
  /\ loop' = "end"
  /\ UNCHANGED <<heapVars, abort_request, request, removing, sent, pending, delivered, removed>>

GetMessage ==
  /\ Unlocked /\ loop = "run" /\ ~abort_request /\ first # NULL
  /\ next' = Recycled
  /\ recycle' = first
  /\ last' = IF next[first] = NULL THEN NULL ELSE last
  /\ nb_messages' = nb_messages - 1
  /\ delivered' = body[first].id
  /\ pending' = Without(pending, {body[first]})
  /\ UNCHANGED <<body, allocated, abort_request, loop, request, removing, sent, removed>>

GetSleep ==
  /\ Unlocked /\ loop = "run" /\ ~abort_request /\ first = NULL
  /\ loop' = "wait"
  /\ UNCHANGED <<heapVars, abort_request, request, removing, sent, pending, delivered, removed>>

-----------------------------------------------------------------------------
(* A request of the application: removals, one after the other, then a put.*)

Obsoletes(kind) ==
  IF kind = "REQ_SEEK" THEN <<"REQ_SEEK">> ELSE <<"REQ_START", "REQ_PAUSE">>

RequestBegin ==
  /\ request.put = ""
  /\ loop \in {"run", "wait"}
  /\ \E kind \in Requests : request' = [remove |-> Obsoletes(kind), put |-> kind]
  /\ UNCHANGED <<heapVars, abort_request, loop, removing, sent, pending, delivered, removed>>

\* msg_queue_remove up to its lock: last_msg is read without the mutex.
RemoveEnter ==
  /\ request.remove # <<>> /\ removing.what = ""
  /\ removing' = [NotRemoving EXCEPT !.what = Head(request.remove), !.last_msg = first]
  /\ request' = [request EXCEPT !.remove = Tail(@)]
  /\ UNCHANGED <<heapVars, abort_request, loop, sent, pending, delivered, removed>>

RemoveLock ==
  /\ removing.what # "" /\ Unlocked
  /\ removing' = IF abort_request \/ first = NULL THEN NotRemoving
                 ELSE [removing EXCEPT !.locked = TRUE]
  /\ removed' = (removed \/ removing'.locked)
  /\ UNCHANGED <<heapVars, abort_request, loop, request, sent, pending, delivered>>

\* The loop meets a message of the kind to remove.  The node goes to the
\* recycle list and p_msg then points at its next, which is that list.
RemoveMatch ==
  LET msg == next[removing.p_msg] IN
  /\ removing.locked /\ msg # NULL
  /\ body[msg].what = removing.what
  /\ next' = [next EXCEPT ![removing.p_msg] = next[msg], ![msg] = recycle]
  /\ recycle' = msg
  /\ removing' = [removing EXCEPT !.p_msg = msg]
  /\ UNCHANGED <<last, body, allocated, nb_messages, abort_request, loop, request,
                 sent, pending, delivered, removed>>

RemoveRetain ==
  LET msg == next[removing.p_msg] IN
  /\ removing.locked /\ msg # NULL
  /\ body[msg].what # removing.what
  /\ removing' = [removing EXCEPT !.p_msg = msg, !.last_msg = msg]
  /\ UNCHANGED <<heapVars, abort_request, loop, request, sent, pending, delivered, removed>>

\* p_msg has reached the end of a list.
RemoveEnd ==
  /\ removing.locked /\ next[removing.p_msg] = NULL
  /\ last' = IF first # NULL THEN removing.last_msg ELSE NULL
  /\ pending' = Without(pending, [what : {removing.what}, id : 0 .. MaxPuts])
  /\ removing' = NotRemoving
  /\ UNCHANGED <<next, recycle, body, allocated, nb_messages, abort_request, loop,
                 request, sent, delivered, removed>>

RequestPut ==
  /\ Unlocked /\ request.put # "" /\ request.remove = <<>> /\ removing.what = ""
  /\ request' = [request EXCEPT !.put = ""]
  /\ IF abort_request
       THEN UNCHANGED <<heapVars, loop, sent, pending>>
       ELSE PutPrivate(request.put)
  /\ UNCHANGED <<abort_request, removing, delivered, removed>>

RemoveStep == RemoveLock \/ RemoveMatch \/ RemoveRetain \/ RemoveEnd
Application == RequestBegin \/ RemoveEnter \/ RemoveStep \/ RequestPut

-----------------------------------------------------------------------------

\* The nodes of the list that starts at a node, in order; a list longer than
\* the heap has a cycle and is cut there.
ChainFrom(node) ==
  LET chain[k \in 0 .. Cardinality(Nodes)] ==
        IF k = 0 THEN [seq |-> <<>>, at |-> node]
        ELSE IF chain[k - 1].at = NULL THEN chain[k - 1]
        ELSE [seq |-> Append(chain[k - 1].seq, chain[k - 1].at),
              at  |-> next[chain[k - 1].at]]
  IN chain[Cardinality(Nodes)].seq

\* msg_queue_flush and the loop of msg_queue_destroy, once the last reference
\* to the player is gone: every queued and recycled node is freed.
Destroy ==
  /\ loop = "end" /\ request.put = ""
  /\ loop' = "freed"
  /\ allocated' = allocated \ (ToSet(ChainFrom(first)) \union ToSet(ChainFrom(recycle)))
  /\ next' = [next EXCEPT ![HEAD] = NULL]
  /\ last' = NULL /\ recycle' = NULL /\ nb_messages' = 0
  /\ pending' = <<>>
  /\ UNCHANGED <<body, abort_request, request, removing, sent, delivered, removed>>

Terminated == loop = "freed" /\ UNCHANGED vars

Next == \/ PutEvent \/ Start \/ CreateLoop \/ Abort
        \/ GetAborted \/ GetMessage \/ GetSleep
        \/ Application \/ Destroy \/ Terminated

\* The message loop runs, and an operation once started goes on.
Fairness ==
  /\ WF_vars(CreateLoop)
  /\ WF_vars(GetAborted \/ GetMessage \/ GetSleep)
  /\ WF_vars(RemoveEnter \/ RemoveStep \/ RequestPut)

Spec == Init /\ [][Next]_vars /\ Fairness

-----------------------------------------------------------------------------
(* Properties.  The first three are about a queue that msg_queue_remove    *)
(* has not gone through: with it they fail, and SleepsOnlyWithoutMessage   *)
(* shows what comes of it.                                                 *)

\* The list, its tail pointer and its counter hold exactly the messages put
\* and not taken out since, in order.
HoldsPending ==
  LET queue == ChainFrom(first)
  IN ~removed =>
       /\ [i \in 1 .. Len(queue) |-> body[queue[i]]] = pending
       /\ nb_messages = Len(queue)
       /\ last = IF queue = <<>> THEN NULL ELSE Last(queue)

\* Every node obtained from av_malloc is in exactly one place of exactly one of
\* the two lists, so nothing is leaked or used twice, and destroy frees all.
NodesAccounted ==
  LET all == ChainFrom(first) \o ChainFrom(recycle)
  IN ~removed =>
       /\ ToSet(all) = allocated
       /\ Len(all) = Cardinality(allocated)
       /\ loop = "freed" => allocated = {}

\* A message put in a queue that is not aborted gets to the loop.
EventuallyDelivered ==
  \A n \in 1 .. MaxPuts :
    (\E i \in DOMAIN pending : pending[i].id = n)
      ~> (abort_request \/ removed \/ delivered = n)

\* The loop gets the messages in the order they were put, none twice, whatever
\* msg_queue_remove does to the list.
DeliveredInOrder == [][GetMessage => body[first].id > delivered]_vars

\* "return < 0 if aborted, 0 if no msg and > 0 if msg": a blocking get sleeps
\* only when the queue has no message.
SleepsOnlyWithoutMessage == loop = "wait" => pending = <<>>

=============================================================================
