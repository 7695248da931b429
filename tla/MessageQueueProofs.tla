-------------------------- MODULE MessageQueueProofs --------------------------
(***************************************************************************)
(* Properties of MessageQueue proved for every heap, every set of requests *)
(* and every number of messages.                                           *)
(*                                                                         *)
(* msg_queue_remove loses messages, leaves last_msg on the recycle list    *)
(* and can join the two lists.  Two facts survive all that and make the    *)
(* deliveries ordered.  No two pointers of the heap are equal, so a node   *)
(* that is used again is in no list.  And the nodes that first_msg leads   *)
(* to are sorted by the number of the put that wrote them, each pointing   *)
(* at its successor.  last_msg need not be known at all.                   *)
(***************************************************************************)
EXTENDS MessageQueue, RemovalProofs, FiniteSetTheorems

Cells == Nodes \union {HEAD}

\* No pointer but NULL is stored twice, and none to a node that is free.
Unshared ==
  /\ \A p, r \in Cells : next[p] = next[r] /\ next[p] # NULL => p = r
  /\ \A p \in Cells : next[p] # NULL => next[p] # recycle
PointsToAllocated ==
  /\ \A p \in Cells : next[p] # NULL => next[p] \in allocated
  /\ recycle # NULL => recycle \in allocated

\* F is the set of the nodes that first_msg leads to: they are sorted, and no
\* other pointer leads to one of them.
Sorted(F) ==
  /\ F \subseteq allocated
  /\ first # NULL => first \in F
  /\ first = NULL => F = {}
  /\ \A n \in F : body[first].id <= body[n].id /\ body[n].id <= sent
  /\ \A n \in F : next[n] = NULL => \A m \in F : body[m].id <= body[n].id
  /\ \A n \in F : next[n] # NULL =>
       /\ next[n] \in F /\ body[n].id < body[next[n]].id
       /\ \A m \in F : body[m].id <= body[n].id \/ body[next[n]].id <= body[m].id
  /\ \A n, m \in F : body[n].id = body[m].id => n = m
  /\ recycle \notin F
  /\ \A n \in Nodes : next[n] \in F => n \in F

HeapType ==
  /\ next \in [Cells -> Pointer] /\ recycle \in Pointer
  /\ body \in [Nodes -> Messages]
  /\ allocated \subseteq Nodes
  /\ sent \in 0 .. MaxPuts

Heap(F) == HeapType /\ Unshared /\ PointsToAllocated /\ Sorted(F)

\* The node that p points at goes to the recycle list: what msg_queue_get does
\* at the head of the queue, and msg_queue_remove wherever its loop is.
Taken(p) ==
  /\ next' = [next EXCEPT ![p] = next[next[p]], ![next[p]] = recycle]
  /\ recycle' = next[p]
  /\ UNCHANGED <<body, allocated, sent>>

LEMMA TakenHeap ==
  ASSUME NEW F, Heap(F), NEW p \in Cells, NEW msg, msg = next[p], msg # NULL, Taken(p)
  PROVE  Heap(F \ {msg})'
<1>0. /\ NULL \notin Nodes /\ HEAD \notin Nodes
      /\ msg \in Nodes /\ msg \in Cells /\ msg \in allocated
  BY NodesAssumption DEF Heap, HeapType, Cells, Pointer, PointsToAllocated
<1>1. /\ recycle' = msg /\ next'[msg] = recycle
      /\ p # msg => next'[p] = next[msg]
      /\ \A x \in Cells \ {p, msg} : next'[x] = next[x]
      /\ body' = body /\ allocated' = allocated /\ sent' = sent
  BY <1>0 DEF Taken, Heap, HeapType
<1>2. HeapType'
  <2>1. next[msg] \in Pointer /\ recycle \in Pointer /\ msg \in Pointer
    BY <1>0 DEF Heap, HeapType, Pointer
  <2>2. next' \in [Cells -> Pointer]
    BY <1>0, <2>1 DEF Taken, Heap, HeapType
  <2> QED
    BY <1>1, <2>1, <2>2 DEF Heap, HeapType
<1>3. Unshared'
  BY <1>0, <1>1 DEF Heap, HeapType, Unshared
<1>4. PointsToAllocated'
  BY <1>0, <1>1 DEF Heap, PointsToAllocated
<1>5. Sorted(F \ {msg})'
  <2> DEFINE G == F \ {msg}
  <2>0. \A n \in F : n \in Nodes /\ n # NULL /\ n # HEAD /\ body[n].id \in Nat
    BY <1>0 DEF Heap, HeapType, Sorted, Messages
  <2>1. CASE msg \in F
    <3>1. p = HEAD \/ p \in F
      BY <1>0, <2>1 DEF Heap, Sorted, Cells
    <3>2. p # msg
      BY <1>0, <2>0, <2>1, <3>1 DEF Heap, Sorted
    <3>3. \A n \in G : n # p => next'[n] = next[n] /\ next[n] # msg
      BY <1>0, <1>1, <2>0 DEF Heap, Unshared, Cells
    <3>4. next[msg] # NULL => next[msg] \in G /\ body[msg].id < body[next[msg]].id
      BY <2>0, <2>1 DEF Heap, Sorted
    <3>5. \A m \in G : body[m].id <= body[msg].id => body[m].id < body[msg].id
      BY <2>0, <2>1 DEF Heap, Sorted
    <3>6. p = HEAD => first' = next[msg] /\ first = msg
      BY <1>1, <3>2 DEF first
    <3>7. p \in F => /\ first' = first /\ first \in G
                     /\ p \in G /\ next'[p] = next[msg]
                     /\ body[p].id < body[msg].id
                     /\ \A m \in F : body[m].id <= body[p].id \/ body[msg].id <= body[m].id
      <4> SUFFICES ASSUME p \in F PROVE
                  /\ first' = first /\ first \in G
                  /\ p \in G /\ next'[p] = next[msg]
                  /\ body[p].id < body[msg].id
                  /\ \A m \in F : body[m].id <= body[p].id \/ body[msg].id <= body[m].id
        OBVIOUS
      <4>1. /\ body[p].id < body[msg].id
            /\ \A m \in F : body[m].id <= body[p].id \/ body[msg].id <= body[m].id
        BY <1>0 DEF Heap, Sorted
      <4>2. first \in F /\ body[first].id <= body[p].id
        BY DEF Heap, Sorted
      <4>3. first # msg
        BY <2>0, <2>1, <4>1, <4>2
      <4>4. first' = first
        BY <1>0, <1>1, <2>0, <4>3 DEF first, Cells, Heap, Unshared
      <4> QED
        BY <1>1, <3>2, <4>1, <4>2, <4>3, <4>4
    <3>8. \A m \in G : next[msg] = NULL => body[m].id < body[msg].id
      BY <2>1, <3>5 DEF Heap, Sorted
    <3>9. \A m \in G : next[msg] # NULL =>
             body[m].id < body[msg].id \/ body[next[msg]].id <= body[m].id
      BY <2>1, <3>5 DEF Heap, Sorted
    <3>10. first' # NULL => first' \in G
      BY <3>1, <3>4, <3>6, <3>7
    <3>11. \A n \in G : first' # NULL /\ body[first'].id <= body[n].id
      <4>1. CASE p = HEAD
        BY <2>0, <2>1, <3>6, <3>8, <3>9, <4>1 DEF Heap, Sorted
      <4>2. CASE p \in F
        BY <2>0, <3>7, <4>2 DEF Heap, Sorted
      <4> QED
        BY <3>1, <4>1, <4>2
    <3>12. \A n \in G : next'[n] = NULL => \A m \in G : body[m].id <= body[n].id
      <4>1. ASSUME NEW n \in G, NEW m \in G, next'[n] = NULL PROVE body[m].id <= body[n].id
        <5>1. CASE n = p
          BY <2>0, <2>1, <3>7, <3>8, <4>1, <5>1
        <5>2. CASE n # p
          BY <3>3, <4>1, <5>2 DEF Heap, Sorted
        <5> QED
          BY <5>1, <5>2
      <4> QED
        BY <4>1
    <3>13. \A n \in G : next'[n] # NULL =>
             /\ next'[n] \in G /\ body[n].id < body[next'[n]].id
             /\ \A m \in G : body[m].id <= body[n].id \/ body[next'[n]].id <= body[m].id
      <4> SUFFICES ASSUME NEW n \in G, next'[n] # NULL PROVE
             /\ next'[n] \in G /\ body[n].id < body[next'[n]].id
             /\ \A m \in G : body[m].id <= body[n].id \/ body[next'[n]].id <= body[m].id
        OBVIOUS
      <4>1. CASE n = p
        <5>1. next'[n] = next[msg] /\ next[msg] \in G /\ n \in F
          BY <3>4, <3>7, <4>1
        <5>2. \A m \in G : body[m].id <= body[n].id \/ body[next[msg]].id <= body[m].id
          BY <2>0, <2>1, <3>7, <3>9, <4>1, <5>1
        <5>3. body[n].id < body[next[msg]].id
          BY <2>0, <2>1, <3>4, <3>7, <4>1, <5>1
        <5> QED
          BY <5>1, <5>2, <5>3
      <4>2. CASE n # p
        BY <3>3, <4>2 DEF Heap, Sorted
      <4> QED
        BY <4>1, <4>2
    <3>14. recycle' \notin G /\ \A n \in Nodes : next'[n] \in G => n \in G
      BY <1>0, <1>1, <2>1, <3>1, <3>2 DEF Heap, Sorted, Cells
    <3> QED
      BY <1>1, <3>10, <3>11, <3>12, <3>13, <3>14 DEF Heap, Sorted
  <2>2. CASE msg \notin F
    <3>1. p \notin F /\ p # HEAD
      BY <1>0, <2>2 DEF Heap, Sorted, first
    <3>2. p \in Nodes /\ first' = first /\ next[msg] \notin F
      BY <1>0, <1>1, <2>2, <3>1 DEF Heap, Sorted, Cells, first
    <3>3. \A n \in F : next'[n] = next[n]
      BY <1>1, <2>0, <2>2, <3>1 DEF Cells
    <3>4. \A n \in Nodes : next'[n] \in F => n \in F
      BY <1>0, <1>1, <2>2, <3>1, <3>2 DEF Heap, Sorted, Cells
    <3>5. recycle' \notin F /\ F \ {msg} = F
      BY <1>1, <2>2
    <3> QED
      BY <1>1, <3>2, <3>3, <3>4, <3>5 DEF Heap, Sorted
  <2> QED
    BY <2>1, <2>2
<1> QED
  BY <1>2, <1>3, <1>4, <1>5 DEF Heap

\* The node n is written and linked where last_msg says, wherever that is.
Written(n, kind) ==
  /\ body' = [body EXCEPT ![n] = [what |-> kind, id |-> sent + 1]]
  /\ next' = Linked(n)
  /\ sent' = sent + 1
  /\ \/ recycle = n /\ recycle' = next[n] /\ allocated' = allocated
     \/ recycle = NULL /\ recycle' = NULL /\ n \notin allocated
        /\ allocated' = allocated \union {n}

LEMMA WrittenHeap ==
  ASSUME NEW F, Heap(F), last \in Pointer, sent < MaxPuts,
         NEW n \in Nodes, NEW kind \in Kinds, Written(n, kind)
  PROVE  \E G : G \subseteq F \union {n} /\ Heap(G)'
<1> PICK at : at = IF last = NULL THEN HEAD ELSE last
  OBVIOUS
<1>0. /\ NULL \notin Nodes /\ HEAD \notin Nodes /\ at \in Cells
      /\ n \in Cells /\ n # NULL /\ n # HEAD
  BY NodesAssumption DEF Pointer, Cells
<1>1. /\ \A p \in Cells : next[p] # n
      /\ n \notin F
      /\ recycle' # n
      /\ n \in allocated'
  BY <1>0 DEF Written, Heap, Unshared, PointsToAllocated, Sorted
<1>2. /\ next'[at] = n
      /\ at # n => next'[n] = NULL
      /\ \A x \in Cells \ {at, n} : next'[x] = next[x]
      /\ next' \in [Cells -> Pointer]
  <2>1. next' = [next EXCEPT ![n] = NULL, ![at] = n] /\ n \in Pointer /\ NULL \in Pointer
    BY DEF Written, Linked, Pointer
  <2> QED
    BY <1>0, <2>1 DEF Heap, HeapType
<1>3. /\ body'[n].id = sent + 1
      /\ \A m \in Nodes \ {n} : body'[m] = body[m]
      /\ body' \in [Nodes -> Messages]
      /\ sent' = sent + 1 /\ sent \in Nat
  <2>1. [what |-> kind, id |-> sent + 1] \in Messages
    BY MaxPutsAssumption DEF Heap, HeapType, Messages
  <2> QED
    BY <2>1 DEF Written, Heap, HeapType
<1>4. HeapType'
  BY <1>0, <1>2, <1>3, MaxPutsAssumption DEF Written, Heap, HeapType, Pointer
<1>5. Unshared'
  BY <1>0, <1>1, <1>2 DEF Written, Heap, HeapType, Unshared
<1>6. PointsToAllocated'
  BY <1>0, <1>1, <1>2 DEF Written, Heap, PointsToAllocated
<1>7. \A m \in F : /\ m \in Nodes /\ m \in Cells /\ m # n /\ m # HEAD
                   /\ body'[m] = body[m] /\ body[m].id \in Nat /\ body[m].id <= sent
                   /\ m \in allocated'
                   /\ m # at => next'[m] = next[m]
  BY <1>0, <1>1, <1>2, <1>3 DEF Written, Heap, HeapType, Sorted, Messages, Cells
<1>8. recycle' \notin F /\ \A m \in Nodes : next[m] \in F => m \in F
  BY <1>0, <1>1, <1>7 DEF Written, Heap, Sorted
<1>9. CASE last = NULL
  <2>1. at = HEAD /\ first' = n /\ next'[n] = NULL
    BY <1>0, <1>2, <1>9 DEF first
  <2>2. \A m \in Nodes : next'[m] \in {n} => m \in {n}
    BY <1>0, <1>1, <1>2, <2>1 DEF Cells
  <2>3. Sorted({n})'
    BY <1>0, <1>1, <1>3, <2>1, <2>2 DEF Sorted
  <2> QED
    BY <1>4, <1>5, <1>6, <2>3 DEF Heap
<1>10. CASE last # NULL /\ last \notin F
  <2>1. at = last /\ at \in Nodes /\ at # HEAD /\ first' = first
    BY <1>0, <1>2, <1>10 DEF first, Pointer, Cells
  <2>2. \A m \in Nodes : next'[m] \in F => m \in F
    BY <1>0, <1>1, <1>2, <1>7, <1>8, <2>1 DEF Cells
  <2>3. F \subseteq allocated'
    BY <1>7
  <2>4. \A m \in F : next'[m] = next[m]
    BY <1>7, <1>10, <2>1
  <2>5. \A m \in F : body'[first].id <= body'[m].id /\ body'[m].id <= sent + 1
    BY <1>3, <1>7 DEF Heap, Sorted
  <2>6. \A m \in F : next[m] # NULL =>
       /\ next[m] \in F /\ body'[m].id < body'[next[m]].id
       /\ \A k \in F : body'[k].id <= body'[m].id \/ body'[next[m]].id <= body'[k].id
    BY <1>7 DEF Heap, Sorted
  <2>7. Sorted(F)'
    BY <1>3, <1>7, <1>8, <2>1, <2>2, <2>3, <2>4, <2>5, <2>6 DEF Heap, Sorted
  <2> QED
    BY <1>4, <1>5, <1>6, <2>7 DEF Heap
<1>11. CASE last \in F
  <2>1. at = last /\ at \in F /\ at # n /\ at # HEAD /\ next'[n] = NULL
    BY <1>0, <1>2, <1>7, <1>11
  <2> PICK K : K = {m \in F : body[m].id <= body[at].id}
    OBVIOUS
  <2> DEFINE G == K \union {n}
  <2>2. /\ at \in K /\ K \subseteq F
        /\ \A m \in K : body'[m] = body[m] /\ body[m].id \in Nat
        /\ \A m \in K : body[m].id <= body[at].id /\ body[m].id < sent + 1
    BY <1>3, <1>7, <2>1
  <2>3. first' = first /\ first \in K
    BY <1>0, <1>1, <1>2, <1>7, <2>1 DEF first, Cells, Heap, Sorted
  <2>4. G \subseteq allocated'
    BY <1>1, <1>7, <2>2
  <2>5. \A m \in G : body'[first].id <= body'[m].id /\ body'[m].id <= sent + 1
    BY <1>3, <2>2, <2>3 DEF Heap, Sorted
  <2>6. \A m \in K : m # at => /\ next'[m] = next[m] /\ next[m] # NULL /\ next[m] \in K
                                /\ body[m].id < body[next[m]].id
                                /\ \A k \in K : body[k].id <= body[m].id \/ body[next[m]].id <= body[k].id
    BY <1>7, <2>1, <2>2 DEF Heap, Sorted
  <2>7. \A m \in G : next'[m] = NULL => m = n
    BY <1>0, <1>2, <2>6
  <2>8. \A m \in G : next'[m] # NULL =>
       /\ next'[m] \in G /\ body'[m].id < body'[next'[m]].id
       /\ \A k \in G : body'[k].id <= body'[m].id \/ body'[next'[m]].id <= body'[k].id
    BY <1>2, <1>3, <2>1, <2>2, <2>6
  <2>9. \A m, k \in G : body'[m].id = body'[k].id => m = k
    BY <1>3, <2>2 DEF Heap, Sorted
  <2>10. recycle' \notin G /\ \A m \in Nodes : next'[m] \in G => m \in G
    <3>1. recycle' \notin G
      BY <1>1, <1>8, <2>2
    <3>2. ASSUME NEW m \in Nodes, next'[m] \in G, m \notin G PROVE FALSE
      <4>1. m # at /\ m # n /\ m \in Cells
        BY <2>2, <3>2 DEF Cells
      <4>2. next'[m] = next[m] /\ next[m] # n /\ next[m] \in K
        BY <1>1, <1>2, <3>2, <4>1
      <4>3. m \in F /\ body[m].id < body[next[m]].id
        BY <1>0, <1>7, <1>8, <2>2, <4>2 DEF Heap, Sorted
      <4> QED
        BY <1>7, <2>1, <2>2, <3>2, <4>2, <4>3
    <3> QED
      BY <3>1, <3>2
  <2>11. Sorted(G)'
    <3>1. first' \in G /\ first' # NULL
      BY <1>0, <1>7, <2>2, <2>3
    <3>2. \A m \in G : next'[m] = NULL => \A k \in G : body'[k].id <= body'[m].id
      BY <1>3, <2>2, <2>7
    <3> HIDE DEF G
    <3> QED
      BY <1>3, <2>3, <2>4, <2>5, <2>8, <2>9, <2>10, <3>1, <3>2 DEF Sorted
  <2>12. G \subseteq F \union {n}
    BY <2>2
  <2> QED
    BY <1>4, <1>5, <1>6, <2>11, <2>12 DEF Heap
<1> QED
  BY <1>9, <1>10, <1>11

-----------------------------------------------------------------------------
(* The invariant of the whole system.  nb_messages is at least the number  *)
(* of those nodes: msg_queue_remove does not count what it takes out.      *)

Waiting(F) ==
  /\ \A n \in F : delivered < body[n].id
  /\ IsFiniteSet(F) /\ Cardinality(F) <= nb_messages

QInv ==
  /\ TypeOK
  /\ nb_messages <= sent /\ delivered <= sent
  /\ loop \in {"end", "freed"} => abort_request
  /\ loop # "freed" => \E F : Heap(F) /\ Waiting(F)

RequestType == [remove : Seq(RequestKinds), put : RequestKinds \union {""}]
RemovingType == [what : RequestKinds \union {""}, locked : BOOLEAN,
                 p_msg : Nodes \union {HEAD}, last_msg : Pointer]

LEMMA InitQInv == Init => QInv
<1> SUFFICES ASSUME Init PROVE QInv
  OBVIOUS
<1>0. /\ sent = 0 /\ delivered = 0 /\ nb_messages = 0 /\ loop = "none"
      /\ \A p \in Cells : next[p] = NULL
      /\ recycle = NULL /\ allocated = {}
  BY DEF Init, Cells
<1>1. TypeOK
  <2>0. 0 \in 0 .. MaxPuts
    BY MaxPutsAssumption
  <2>1. [what |-> "FLUSH", id |-> 0] \in Messages
    BY <2>0 DEF Messages, Kinds
  <2>2. body \in [Nodes -> Messages]
    BY <2>1 DEF Init
  <2>3. request \in RequestType
    <3>1. <<>> \in Seq(RequestKinds)
      OBVIOUS
    <3> QED
      BY <3>1 DEF Init, RequestType
  <2>4. removing \in RemovingType
    BY DEF Init, RemovingType, NotRemoving, Pointer
  <2>5. pending \in Seq(Messages)
    <3>1. <<>> \in Seq(Messages)
      OBVIOUS
    <3> QED
      BY <3>1 DEF Init
  <2>6. /\ next \in [Nodes \union {HEAD} -> Pointer] /\ last \in Pointer
        /\ recycle \in Pointer /\ allocated \subseteq Nodes
        /\ abort_request \in BOOLEAN /\ removed \in BOOLEAN
    BY DEF Init, Pointer
  <2> QED
    BY <1>0, <2>0, <2>2, <2>3, <2>4, <2>5, <2>6 DEF TypeOK, RequestType, RemovingType
<1>2. Heap({})
  BY <1>0, <1>1, NodesAssumption
     DEF TypeOK, Heap, HeapType, Unshared, PointsToAllocated, Sorted, Cells, first
<1>3. Waiting({})
  BY <1>0, FS_EmptySet DEF Waiting
<1> QED
  BY <1>0, <1>1, <1>2, <1>3 DEF QInv

\* msg_queue_put_private keeps it, whoever calls it.
LEMMA EnqueueQInv ==
  ASSUME QInv, loop \notin {"end", "freed"}, sent < MaxPuts,
         NEW n \in Nodes, NEW kind \in Kinds, Enqueue(n, kind),
         \/ recycle = n /\ recycle' = next[n] /\ allocated' = allocated
         \/ recycle = NULL /\ recycle' = NULL /\ n \notin allocated
            /\ allocated' = allocated \union {n},
         abort_request' \in BOOLEAN, request' \in RequestType,
         UNCHANGED <<removing, delivered, removed>>
  PROVE  QInv'
<1>1. PICK F : Heap(F) /\ Waiting(F)
  BY DEF QInv
<1>2. Written(n, kind) /\ last \in Pointer
  BY DEF Written, Enqueue, QInv, TypeOK
<1>3. PICK G : G \subseteq F \union {n} /\ Heap(G)'
  BY <1>1, <1>2, WrittenHeap
<1>4. /\ nb_messages' = nb_messages + 1 /\ nb_messages \in Nat /\ sent \in Nat
      /\ sent' = sent + 1 /\ last' = n /\ delivered' = delivered /\ delivered \in Nat
  <2>1. nb_messages \in Nat /\ sent \in Nat /\ delivered \in Nat
    <3>1. 0 .. MaxPuts \subseteq Nat
      BY MaxPutsAssumption
    <3> QED
      BY <3>1, Zenon DEF QInv, TypeOK
  <2> QED
    BY <2>1 DEF Enqueue
<1>5. Waiting(G)'
  <2>1. IsFiniteSet(F \union {n}) /\ Cardinality(F \union {n}) <= Cardinality(F) + 1
    <3>1. IsFiniteSet(F) /\ Cardinality(F) \in Nat
      BY <1>1, FS_CardinalityType DEF Waiting
    <3>2. /\ IsFiniteSet(F \union {n})
          /\ Cardinality(F \union {n}) = IF n \in F THEN Cardinality(F) ELSE Cardinality(F) + 1
      BY <3>1, FS_AddElement
    <3> QED
      BY <3>1, <3>2
  <2>2. IsFiniteSet(G) /\ Cardinality(G) <= Cardinality(F \union {n})
    BY <1>3, <2>1, FS_Subset
  <2>3. Cardinality(F) <= nb_messages /\ Cardinality(F) \in Nat
        /\ Cardinality(G) \in Nat /\ Cardinality(F \union {n}) \in Nat
    BY <1>1, <2>1, <2>2, FS_CardinalityType DEF Waiting
  <2>4. Cardinality(G) <= nb_messages'
    BY <1>4, <2>1, <2>2, <2>3
  <2>5. ASSUME NEW m \in G PROVE delivered' < body'[m].id
    <3>1. body' = [body EXCEPT ![n] = [what |-> kind, id |-> sent + 1]]
          /\ body \in [Nodes -> Messages]
      BY DEF Enqueue, QInv, TypeOK
    <3>2. CASE m = n
      <4>1. body'[m].id = sent + 1
        BY <3>1, <3>2
      <4> QED
        BY <1>4, <4>1 DEF QInv
    <3>3. CASE m # n
      <4>1. m \in F /\ m \in Nodes
        BY <1>1, <1>3, <2>5, <3>3 DEF Heap, HeapType, Sorted
      <4> QED
        BY <1>1, <1>4, <3>1, <3>3, <4>1 DEF Waiting
    <3> QED
      BY <3>2, <3>3
  <2> QED
    BY <2>2, <2>4, <2>5 DEF Waiting
<1>6. TypeOK'
  <2>1. pending' \in Seq(Messages)
    <3>1. [what |-> kind, id |-> sent + 1] \in Messages
      BY <1>4, MaxPutsAssumption DEF Messages
    <3>2. pending' = Append(pending, [what |-> kind, id |-> sent + 1])
      BY DEF Enqueue
    <3> QED
      BY <3>1, <3>2, AppendProperties DEF QInv, TypeOK
  <2>2. /\ next' \in [Nodes \union {HEAD} -> Pointer] /\ recycle' \in Pointer
        /\ body' \in [Nodes -> Messages] /\ allocated' \subseteq Nodes
        /\ sent' \in 0 .. MaxPuts
    BY <1>3 DEF Heap, HeapType, Cells
  <2>3. nb_messages' \in 0 .. MaxPuts
    BY <1>4, MaxPutsAssumption DEF QInv
  <2>4. loop' \in {"none", "run", "wait", "end", "freed"}
    BY DEF Enqueue, Woken, QInv, TypeOK
  <2> QED
    BY <1>4, <2>1, <2>2, <2>3, <2>4 DEF QInv, TypeOK, RequestType, Pointer
<1>7. loop' \notin {"end", "freed"}
  BY DEF Enqueue, Woken
<1>8. nb_messages' <= sent' /\ delivered' <= sent'
  BY <1>4 DEF QInv
<1> QED
  BY <1>3, <1>5, <1>6, <1>7, <1>8 DEF QInv

LEMMA PutPrivateQInv ==
  ASSUME QInv, loop \notin {"end", "freed"}, NEW kind \in Kinds, PutPrivate(kind),
         abort_request' \in BOOLEAN, request' \in RequestType,
         UNCHANGED <<removing, delivered, removed>>
  PROVE  QInv'
<1>1. CASE recycle # NULL /\ recycle' = next[recycle] /\ Enqueue(recycle, kind)
           /\ allocated' = allocated
  <2>1. recycle \in Nodes
    BY <1>1 DEF QInv, TypeOK, Pointer
  <2> QED
    BY <1>1, <2>1, EnqueueQInv DEF PutPrivate
<1>2. CASE /\ recycle = NULL /\ allocated # Nodes /\ recycle' = recycle
           /\ LET n == CHOOSE m \in Nodes : m \notin allocated
              IN allocated' = allocated \union {n} /\ Enqueue(n, kind)
  <2>1. PICK n \in Nodes : /\ n \notin allocated /\ allocated' = allocated \union {n}
                           /\ Enqueue(n, kind)
    BY <1>2 DEF QInv, TypeOK
  <2> QED
    BY <1>2, <2>1, EnqueueQInv DEF PutPrivate
<1>3. CASE UNCHANGED <<heapVars, loop, sent, pending>>
  BY <1>3 DEF heapVars, QInv, TypeOK, RequestType, Heap, HeapType, Unshared, PointsToAllocated,
              Sorted, first, Waiting
<1> QED
  BY <1>1, <1>2, <1>3 DEF PutPrivate

\* A step that leaves the lists alone.
LEMMA ListsAlone ==
  ASSUME QInv, UNCHANGED <<next, recycle, body, allocated, nb_messages, sent, delivered>>,
         last' \in Pointer, abort_request' \in BOOLEAN,
         loop' \in {"none", "run", "wait", "end", "freed"},
         loop' \in {"end", "freed"} => abort_request', loop' # "freed" => loop # "freed",
         request' \in RequestType, removing' \in RemovingType, removed' \in BOOLEAN,
         pending' \in Seq(Messages)
  PROVE  QInv'
<1>1. TypeOK'
  BY DEF QInv, TypeOK, RequestType, RemovingType
<1>2. ASSUME NEW F, Heap(F), Waiting(F) PROVE Heap(F)' /\ Waiting(F)'
  BY <1>2 DEF Heap, HeapType, Unshared, PointsToAllocated, Sorted, first, Waiting
<1> QED
  BY <1>1, <1>2 DEF QInv

LEMMA TypesKept ==
  ASSUME QInv
  PROVE  /\ last \in Pointer /\ abort_request \in BOOLEAN
         /\ loop \in {"none", "run", "wait", "end", "freed"}
         /\ request \in RequestType /\ removing \in RemovingType /\ removed \in BOOLEAN
         /\ pending \in Seq(Messages)
  BY DEF QInv, TypeOK, RequestType, RemovingType

LEMMA NumbersKept ==
  ASSUME QInv
  PROVE  /\ MaxPuts \in Nat /\ nb_messages \in Nat /\ sent \in Nat /\ delivered \in Nat
         /\ nb_messages <= sent /\ delivered <= sent /\ sent <= MaxPuts
<1>1. nb_messages \in 0 .. MaxPuts /\ sent \in 0 .. MaxPuts /\ delivered \in 0 .. MaxPuts
  BY Zenon DEF QInv, TypeOK
<1>2. nb_messages <= sent /\ delivered <= sent
  BY DEF QInv
<1> QED
  BY <1>1, <1>2, MaxPutsAssumption

\* The node that GetMessage takes is the oldest of those that wait.
LEMMA GetQInv == QInv /\ GetMessage => QInv' /\ body[first].id > delivered
<1> SUFFICES ASSUME QInv, GetMessage PROVE QInv' /\ body[first].id > delivered
  OBVIOUS
<1>1. PICK F : Heap(F) /\ Waiting(F)
  BY DEF QInv, GetMessage
<1> PICK msg : msg = first
  OBVIOUS
<1>2. /\ msg \in F /\ msg \in Nodes /\ HEAD \in Cells /\ msg = next[HEAD] /\ msg # NULL
      /\ delivered < body[msg].id /\ body[msg].id <= sent
  BY <1>1 DEF GetMessage, Heap, HeapType, Sorted, Waiting, Cells, first
<1>3. Heap(F \ {msg})'
  <2>1. Taken(HEAD)
    BY DEF GetMessage, Recycled, Taken, first
  <2> QED
    BY <1>1, <1>2, <2>1, TakenHeap
<1>4. /\ delivered' = body[msg].id /\ body' = body /\ sent' = sent
      /\ nb_messages' = nb_messages - 1
  BY DEF GetMessage
<1>5. \A n \in F \ {msg} : delivered' < body'[n].id
  BY <1>1, <1>2, <1>4 DEF Heap, HeapType, Sorted, Messages, first
<1>6. IsFiniteSet(F \ {msg}) /\ nb_messages \in Nat /\ nb_messages >= 1
      /\ Cardinality(F \ {msg}) <= nb_messages - 1
  <2>1. IsFiniteSet(F) /\ Cardinality(F) <= nb_messages
    BY <1>1 DEF Waiting
  <2>2. /\ IsFiniteSet(F \ {msg}) /\ Cardinality(F \ {msg}) = Cardinality(F) - 1
        /\ Cardinality(F \ {msg}) \in Nat /\ Cardinality(F) \in Nat
    BY <1>2, <2>1, FS_RemoveElement, FS_CardinalityType
  <2>3. nb_messages \in Nat
    <3>1. 0 .. MaxPuts \subseteq Nat
      BY MaxPutsAssumption
    <3> QED
      BY <3>1, Zenon DEF QInv, TypeOK
  <2> QED
    BY <2>1, <2>2, <2>3
<1>7. TypeOK'
  <2>1. pending' \in Seq(Messages)
    BY TypesKept, WithoutIsSeq DEF GetMessage
  <2>2. /\ next' \in [Nodes \union {HEAD} -> Pointer] /\ recycle' \in Pointer
        /\ body' \in [Nodes -> Messages] /\ allocated' \subseteq Nodes
        /\ sent' \in 0 .. MaxPuts
    BY <1>3 DEF Heap, HeapType, Cells
  <2>3. nb_messages' \in 0 .. MaxPuts
    BY <1>4, <1>6, NumbersKept
  <2>4. delivered' \in 0 .. MaxPuts
    BY <1>2, <1>4 DEF QInv, TypeOK, Messages
  <2>5. last' \in Pointer
    BY TypesKept DEF GetMessage, Pointer
  <2> QED
    BY <2>1, <2>2, <2>3, <2>4, <2>5 DEF GetMessage, QInv, TypeOK
<1>8. nb_messages' <= sent' /\ delivered' <= sent'
  BY <1>2, <1>4, <1>6, NumbersKept
<1>9. Waiting(F \ {msg})'
  BY <1>4, <1>5, <1>6 DEF Waiting
<1> QED
  BY <1>2, <1>3, <1>7, <1>8, <1>9 DEF QInv, GetMessage

\* msg_queue_remove takes a node out of the queue, or out of the recycle list
\* if its loop has got there.
LEMMA RemoveMatchQInv == QInv /\ RemoveMatch => QInv'
<1> SUFFICES ASSUME QInv, RemoveMatch PROVE QInv'
  OBVIOUS
<1> PICK p, msg : p = removing.p_msg /\ msg = next[p]
  OBVIOUS
<1>0. p \in Cells /\ msg \in Nodes /\ msg \in Cells /\ msg # NULL
  BY DEF RemoveMatch, QInv, TypeOK, Pointer, Cells
<1>1. /\ next' = [next EXCEPT ![p] = next[msg], ![msg] = recycle] /\ recycle' = msg
      /\ removing' = [removing EXCEPT !.p_msg = msg]
      /\ UNCHANGED <<last, body, allocated, nb_messages, abort_request, loop, request,
                     sent, pending, delivered, removed>>
  BY DEF RemoveMatch
<1>2. TypeOK'
  <2>1. next' \in [Nodes \union {HEAD} -> Pointer] /\ recycle' \in Pointer
    <3>1. next[msg] \in Pointer /\ recycle \in Pointer /\ msg \in Pointer
      BY <1>0 DEF QInv, TypeOK, Pointer, Cells
    <3> QED
      BY <1>1, <3>1 DEF QInv, TypeOK
  <2>2. removing' \in RemovingType
    BY <1>0, <1>1, TypesKept DEF RemovingType
  <2> QED
    BY <1>1, <2>1, <2>2 DEF QInv, TypeOK, RemovingType
<1>3. ASSUME loop # "freed" PROVE \E F : Heap(F)' /\ Waiting(F)'
  <2>1. PICK F : Heap(F) /\ Waiting(F)
    BY <1>3 DEF QInv
  <2>2. Heap(F \ {msg})'
    BY <1>0, <1>1, <2>1, TakenHeap DEF Taken
  <2>3. Waiting(F \ {msg})'
    <3>1. IsFiniteSet(F) /\ Cardinality(F) <= nb_messages /\ nb_messages \in Nat
      <4>1. 0 .. MaxPuts \subseteq Nat
        BY MaxPutsAssumption
      <4>2. nb_messages \in Nat
        BY <4>1, Zenon DEF QInv, TypeOK
      <4> QED
        BY <2>1, <4>2 DEF Waiting
    <3>2. IsFiniteSet(F \ {msg}) /\ Cardinality(F \ {msg}) <= Cardinality(F)
      BY <3>1, FS_Subset
    <3>3. Cardinality(F) \in Nat /\ Cardinality(F \ {msg}) \in Nat
      BY <3>1, <3>2, FS_CardinalityType
    <3> QED
      BY <1>1, <2>1, <3>1, <3>2, <3>3 DEF Waiting
  <2> QED
    BY <2>2, <2>3
<1> QED
  BY <1>1, <1>2, <1>3 DEF QInv

\* What the application's requests are made of.
LEMMA ObsoletesIsSeq ==
  ASSUME NEW kind \in Requests
  PROVE  kind \in RequestKinds /\ kind # "" /\ Obsoletes(kind) \in Seq(RequestKinds)
<1>1. <<"REQ_SEEK">> \in Seq(RequestKinds) /\ <<"REQ_START", "REQ_PAUSE">> \in Seq(RequestKinds)
  BY DEF RequestKinds
<1> QED
  BY <1>1, RequestsAssumption DEF Obsoletes, RequestKinds

LEMMA NextQInv == QInv /\ [Next]_vars => QInv'
<1> SUFFICES ASSUME QInv, [Next]_vars PROVE QInv'
  OBVIOUS
<1>1. CASE PutEvent
  <2>1. loop \notin {"end", "freed"}
    BY <1>1 DEF PutEvent, QInv
  <2>2. PICK kind \in Kinds : PutPrivate(kind)
    BY <1>1 DEF PutEvent, Kinds
  <2> QED
    BY <1>1, <2>1, <2>2, TypesKept, PutPrivateQInv DEF PutEvent
<1>2. CASE Start
  <2>1. loop \notin {"end", "freed"} /\ "FLUSH" \in Kinds
    BY <1>2 DEF Start, Kinds
  <2> QED
    BY <1>2, <2>1, TypesKept, PutPrivateQInv DEF Start
<1>3. CASE CreateLoop \/ Abort \/ GetAborted \/ GetSleep
  <2>1. /\ UNCHANGED <<heapVars, sent, delivered, request, removing, removed, pending>>
        /\ loop' \in {"run", "wait", "end", loop}
        /\ loop' \in {"end", "freed"} => abort_request'
        /\ loop' # "freed" => loop # "freed"
        /\ abort_request' \in {abort_request, TRUE}
    BY <1>3 DEF CreateLoop, Abort, GetAborted, GetSleep, Woken, QInv
  <2> QED
    <3>1. UNCHANGED <<next, last, recycle, body, allocated, nb_messages, sent, delivered>>
      BY <2>1 DEF heapVars
    <3>2. /\ request' \in RequestType /\ removing' \in RemovingType /\ removed' \in BOOLEAN
          /\ pending' \in Seq(Messages) /\ last' \in Pointer
      BY <2>1, <3>1, TypesKept
    <3>3. abort_request' \in BOOLEAN /\ loop' \in {"none", "run", "wait", "end", "freed"}
      BY <2>1, TypesKept
    <3> QED
      BY <2>1, <3>1, <3>2, <3>3, ListsAlone
<1>4. CASE GetMessage
  BY <1>4, GetQInv
<1>5. CASE RequestBegin
  <2>1. request' \in RequestType
    <3>1. PICK kind \in Requests : request' = [remove |-> Obsoletes(kind), put |-> kind]
      BY <1>5 DEF RequestBegin
    <3>2. kind \in RequestKinds /\ Obsoletes(kind) \in Seq(RequestKinds)
      BY ObsoletesIsSeq
    <3> QED
      BY <3>1, <3>2 DEF RequestType
  <2> QED
    BY <1>5, <2>1, TypesKept, ListsAlone DEF RequestBegin, heapVars, QInv
<1>6. CASE RemoveEnter
  <2>1. Head(request.remove) \in RequestKinds /\ Tail(request.remove) \in Seq(RequestKinds)
    <3>1. request.remove \in Seq(RequestKinds) /\ request.remove # <<>>
      BY <1>6, TypesKept DEF RemoveEnter, RequestType
    <3> QED
      BY <3>1, HeadTailProperties
  <2>2. request' \in RequestType
    BY <1>6, <2>1, TypesKept DEF RemoveEnter, RequestType
  <2>3. removing' \in RemovingType
    BY <1>6, <2>1 DEF RemoveEnter, RemovingType, NotRemoving, QInv, TypeOK, first
  <2> QED
    BY <1>6, <2>2, <2>3, TypesKept, ListsAlone DEF RemoveEnter, heapVars, QInv
<1>7. CASE RemoveLock
  <2>1. removing' \in RemovingType
    BY <1>7, TypesKept DEF RemoveLock, RemovingType, NotRemoving, Pointer
  <2>2. removed' \in BOOLEAN
    BY <1>7, <2>1, TypesKept DEF RemoveLock, RemovingType
  <2> QED
    BY <1>7, <2>1, <2>2, TypesKept, ListsAlone DEF RemoveLock, heapVars, QInv
<1>8. CASE RemoveMatch
  BY <1>8, RemoveMatchQInv
<1>9. CASE RemoveRetain
  <2>1. removing' \in RemovingType
    BY <1>9, TypesKept DEF RemoveRetain, RemovingType, QInv, TypeOK, Pointer
  <2> QED
    BY <1>9, <2>1, TypesKept, ListsAlone DEF RemoveRetain, heapVars, QInv
<1>10. CASE RemoveEnd
  <2>1. removing' \in RemovingType /\ last' \in Pointer
    BY <1>10, TypesKept DEF RemoveEnd, RemovingType, NotRemoving, Pointer
  <2>2. pending' \in Seq(Messages)
    BY <1>10, TypesKept, WithoutIsSeq DEF RemoveEnd
  <2> QED
    BY <1>10, <2>1, <2>2, TypesKept, ListsAlone DEF RemoveEnd, QInv
<1>11. CASE RequestPut
  <2>1. request' \in RequestType
    BY <1>11, TypesKept DEF RequestPut, RequestType
  <2>2. CASE abort_request
    BY <1>11, <2>1, <2>2, TypesKept, ListsAlone DEF RequestPut, heapVars, QInv
  <2>3. CASE ~abort_request
    <3>1. loop \notin {"end", "freed"} /\ request.put \in Kinds
      BY <1>11, <2>3, TypesKept DEF RequestPut, QInv, RequestType, Kinds
    <3> QED
      BY <1>11, <2>1, <2>3, <3>1, TypesKept, PutPrivateQInv DEF RequestPut
  <2> QED
    BY <2>2, <2>3
<1>12. CASE Destroy
  <2>1. next' \in [Nodes \union {HEAD} -> Pointer] /\ last' \in Pointer /\ recycle' \in Pointer
    BY <1>12 DEF Destroy, QInv, TypeOK, Pointer
  <2>2. pending' \in Seq(Messages)
    <3>1. <<>> \in Seq(Messages)
      OBVIOUS
    <3> QED
      BY <1>12, <3>1 DEF Destroy
  <2>3. nb_messages' \in 0 .. MaxPuts /\ sent' \in 0 .. MaxPuts /\ nb_messages' = 0 /\ 0 <= sent'
    <3>1. nb_messages' = 0 /\ sent' = sent
      BY <1>12 DEF Destroy
    <3> QED
      BY <3>1, NumbersKept
  <2> QED
    BY <1>12, <2>1, <2>2, <2>3 DEF Destroy, QInv, TypeOK
<1>13. CASE UNCHANGED vars
  BY <1>13, TypesKept, ListsAlone DEF vars, heapVars, QInv
<1> QED
  BY <1>1, <1>2, <1>3, <1>4, <1>5, <1>6, <1>7, <1>8, <1>9, <1>10, <1>11, <1>12, <1>13
     DEF Next, Application, RemoveStep, Terminated

\* The state of the queue is well formed, the pointers and the counter of the
\* messages included, whatever msg_queue_remove does to the lists.
THEOREM QueueTypeCorrect == Spec => []TypeOK
<1>1. QInv => TypeOK
  BY DEF QInv
<1> QED
  BY <1>1, InitQInv, NextQInv, PTL DEF Spec

\* The message loop gets the messages in the order they were put and none
\* twice, although msg_queue_remove loses messages and mixes up the lists.
THEOREM DeliveriesAreOrdered == Spec => DeliveredInOrder
<1>1. QInv /\ [Next]_vars => [GetMessage => body[first].id > delivered]_vars
  BY GetQInv
<1> QED
  BY <1>1, InitQInv, NextQInv, PTL DEF Spec, DeliveredInOrder

-----------------------------------------------------------------------------
(* Sequences without repetition, and lists.                                *)

Distinct(s) == \A i, j \in 1 .. Len(s) : s[i] = s[j] => i = j

LEMMA TailDistinct ==
  ASSUME NEW X, NEW s \in Seq(X), s # <<>>, Distinct(s)
  PROVE  /\ Tail(s) \in Seq(X) /\ Distinct(Tail(s))
         /\ s[1] \notin Elements(Tail(s)) /\ Elements(s) = Elements(Tail(s)) \union {s[1]}
<1>1. /\ Len(s) \in Nat \ {0} /\ Tail(s) \in Seq(X) /\ Len(Tail(s)) = Len(s) - 1
      /\ \A i \in 1 .. Len(Tail(s)) : Tail(s)[i] = s[i + 1] /\ i + 1 \in 1 .. Len(s)
  BY HeadTailProperties, LenProperties, EmptySeq
<1>2. Distinct(Tail(s))
  BY <1>1 DEF Distinct
<1>3. s[1] \notin Elements(Tail(s))
  BY <1>1 DEF Distinct, Elements
<1> QED
  BY <1>1, <1>2, <1>3, ElementsTail

LEMMA AppendDistinct ==
  ASSUME NEW X, NEW s \in Seq(X), Distinct(s), NEW x \in X, x \notin Elements(s)
  PROVE  Distinct(Append(s, x))
<1>1. /\ Len(s) \in Nat /\ Len(Append(s, x)) = Len(s) + 1
      /\ \A i \in 1 .. Len(s) : Append(s, x)[i] = s[i]
      /\ Append(s, x)[Len(s) + 1] = x
  BY AppendProperties, LenProperties
<1>2. \A i \in 1 .. Len(s) : s[i] # x
  BY DEF Elements
<1> QED
  BY <1>1, <1>2 DEF Distinct

LEMMA ConsDistinct ==
  ASSUME NEW X, NEW s \in Seq(X), Distinct(s), NEW x \in X, x \notin Elements(s)
  PROVE  /\ <<x>> \o s \in Seq(X) /\ Distinct(<<x>> \o s)
         /\ Elements(<<x>> \o s) = Elements(s) \union {x}
         /\ Len(<<x>> \o s) = Len(s) + 1
         /\ (<<x>> \o s)[1] = x
         /\ \A i \in 1 .. Len(s) : (<<x>> \o s)[i + 1] = s[i]
<1> DEFINE t == <<x>> \o s
<1>1. /\ Len(s) \in Nat /\ t \in Seq(X) /\ Len(t) = Len(s) + 1
      /\ \A i \in 1 .. Len(s) + 1 : t[i] = IF i = 1 THEN x ELSE s[i - 1]
  <2>1. <<x>> \in Seq(X) /\ Len(<<x>>) = 1 /\ <<x>>[1] = x /\ Len(s) \in Nat
    OBVIOUS
  <2>2. /\ t \in Seq(X) /\ Len(t) = 1 + Len(s)
        /\ \A i \in 1 .. 1 + Len(s) : t[i] = IF i <= 1 THEN <<x>>[i] ELSE s[i - 1]
    BY <2>1, ConcatProperties
  <2> HIDE DEF t
  <2> QED
    BY <2>1, <2>2
<1> HIDE DEF t
<1>2. \A i \in 1 .. Len(s) : s[i] # x
  BY DEF Elements
<1>3. Distinct(t)
  BY <1>1, <1>2 DEF Distinct
<1>4. Elements(t) \subseteq Elements(s) \union {x}
  BY <1>1 DEF Elements
<1>5. t[1] = x /\ \A i \in 1 .. Len(s) : t[i + 1] = s[i] /\ i + 1 \in 1 .. Len(t)
  BY <1>1
<1>6. Elements(s) \union {x} \subseteq Elements(t)
  <2>1. 1 \in 1 .. Len(t)
    BY <1>1
  <2> QED
    BY <1>5, <2>1 DEF Elements
<1> QED
  BY <1>1, <1>3, <1>4, <1>5, <1>6 DEF t

\* A sequence without repetition is as long as its set is large.
LEMMA DistinctCardinality ==
  ASSUME NEW X, NEW s \in Seq(X), Distinct(s)
  PROVE  IsFiniteSet(Elements(s)) /\ Cardinality(Elements(s)) = Len(s)
<1>1. Len(s) \in Nat
  OBVIOUS
<1>2. IsFiniteSet(1 .. Len(s)) /\ Cardinality(1 .. Len(s)) = Len(s)
  BY <1>1, FS_Interval
<1>3. ExistsBijection(1 .. Len(s), Elements(s))
  <2> DEFINE f == [i \in 1 .. Len(s) |-> s[i]]
  <2>1. f \in Bijection(1 .. Len(s), Elements(s))
    BY DEF Bijection, Injection, Surjection, IsInjective, Distinct, Elements
  <2> QED
    BY <2>1 DEF ExistsBijection
<1> QED
  BY <1>2, <1>3, FS_Bijection

\* The nodes of the list that starts at p, when nx holds the pointers.
Follows(p, s, nx) ==
  /\ s \in Seq(Nodes)
  /\ p = IF s = <<>> THEN NULL ELSE s[1]
  /\ \A i \in 1 .. Len(s) : nx[s[i]] = IF i = Len(s) THEN NULL ELSE s[i + 1]

LEMMA FollowsSame ==
  ASSUME NEW p, NEW s, NEW nx, NEW nx2, Follows(p, s, nx),
         \A x \in Elements(s) : nx2[x] = nx[x]
  PROVE  Follows(p, s, nx2)
  BY DEF Follows, Elements

LEMMA FollowsTail ==
  ASSUME NEW p, NEW s, NEW nx, Follows(p, s, nx), p # NULL
  PROVE  /\ s # <<>> /\ p = s[1] /\ p \in Nodes
         /\ Follows(nx[p], Tail(s), nx)
<1>1. s # <<>> /\ p = s[1] /\ s \in Seq(Nodes)
  BY DEF Follows
<1>2. /\ Len(s) \in Nat \ {0} /\ Tail(s) \in Seq(Nodes) /\ Len(Tail(s)) = Len(s) - 1
      /\ \A i \in 1 .. Len(Tail(s)) : Tail(s)[i] = s[i + 1] /\ i + 1 \in 1 .. Len(s)
  BY <1>1, HeadTailProperties, LenProperties, EmptySeq
<1>3. p \in Nodes
  BY <1>1, <1>2, ElementOfSeq
<1>4. nx[p] = IF Tail(s) = <<>> THEN NULL ELSE Tail(s)[1]
  <2>0. 1 \in 1 .. Len(s) /\ 1 + 1 = 2
    BY <1>2
  <2>1. nx[s[1]] = IF 1 = Len(s) THEN NULL ELSE s[2]
    BY <2>0 DEF Follows
  <2>2. Tail(s) = <<>> <=> Len(s) = 1
    BY <1>2, EmptySeq
  <2> QED
    BY <1>1, <1>2, <2>1, <2>2
<1>5. \A i \in 1 .. Len(Tail(s)) :
         nx[Tail(s)[i]] = IF i = Len(Tail(s)) THEN NULL ELSE Tail(s)[i + 1]
  <2> PICK t : t = Tail(s)
    OBVIOUS
  <2>1. /\ Len(s) \in Nat /\ Len(t) = Len(s) - 1
        /\ \A i \in 1 .. Len(t) : t[i] = s[i + 1] /\ i + 1 \in 1 .. Len(s)
    BY <1>2
  <2>2. \A i \in 1 .. Len(s) : nx[s[i]] = IF i = Len(s) THEN NULL ELSE s[i + 1]
    BY DEF Follows
  <2>3. \A i \in 1 .. Len(t) : nx[t[i]] = IF i = Len(t) THEN NULL ELSE t[i + 1]
    BY <2>1, <2>2
  <2> QED
    BY <2>3
<1> QED
  BY <1>1, <1>2, <1>3, <1>4, <1>5 DEF Follows

LEMMA FollowsCons ==
  ASSUME NEW p, NEW s, NEW nx, NEW nx2, Follows(p, s, nx), Distinct(s),
         NEW n \in Nodes, n \notin Elements(s), nx2[n] = p,
         \A x \in Elements(s) : nx2[x] = nx[x]
  PROVE  Follows(n, <<n>> \o s, nx2)
<1> DEFINE t == <<n>> \o s
<1>1. /\ s \in Seq(Nodes) /\ Len(s) \in Nat /\ t \in Seq(Nodes) /\ Len(t) = Len(s) + 1
      /\ t[1] = n /\ \A i \in 1 .. Len(s) : t[i + 1] = s[i]
  BY ConsDistinct, LenProperties DEF Follows
<1> HIDE DEF t
<1>2. Follows(p, s, nx2)
  BY FollowsSame
<1>3. ASSUME NEW i \in 1 .. Len(t) PROVE nx2[t[i]] = IF i = Len(t) THEN NULL ELSE t[i + 1]
  <2>1. CASE i = 1
    <3>1. s = <<>> <=> Len(s) = 0
      BY <1>1, EmptySeq
    <3> QED
      BY <1>1, <1>2, <2>1, <3>1 DEF Follows
  <2>2. CASE i # 1
    <3>1. i - 1 \in 1 .. Len(s) /\ (i - 1) + 1 = i
      BY <1>1, <2>2
    <3>2. t[i] = s[i - 1] /\ (i # Len(t) => t[i + 1] = s[i])
      BY <1>1, <3>1
    <3> QED
      BY <1>1, <1>2, <3>1, <3>2 DEF Follows
  <2> QED
    BY <2>1, <2>2
<1>4. t # <<>>
  BY <1>1, EmptySeq
<1> QED
  BY <1>1, <1>3, <1>4 DEF Follows, t

LEMMA FollowsAppend ==
  ASSUME NEW p, NEW s, NEW nx, NEW nx2, Follows(p, s, nx), Distinct(s),
         NEW n \in Nodes, n \notin Elements(s), nx2[n] = NULL,
         s # <<>> => nx2[s[Len(s)]] = n,
         \A i \in 1 .. Len(s) : i # Len(s) => nx2[s[i]] = nx[s[i]]
  PROVE  Follows(IF s = <<>> THEN n ELSE p, Append(s, n), nx2)
<1> DEFINE t == Append(s, n)
<1>1. /\ s \in Seq(Nodes) /\ Len(s) \in Nat /\ t \in Seq(Nodes) /\ Len(t) = Len(s) + 1
      /\ t # <<>>
      /\ t[Len(s) + 1] = n /\ \A i \in 1 .. Len(s) : t[i] = s[i]
      /\ s = <<>> <=> Len(s) = 0
  BY AppendProperties, LenProperties, EmptySeq DEF Follows
<1> HIDE DEF t
<1>2. t[1] = IF s = <<>> THEN n ELSE p
  BY <1>1 DEF Follows
<1>3. ASSUME NEW i \in 1 .. Len(t) PROVE nx2[t[i]] = IF i = Len(t) THEN NULL ELSE t[i + 1]
  BY <1>1 DEF Follows
<1> QED
  BY <1>1, <1>2, <1>3 DEF Follows, t

-----------------------------------------------------------------------------
(* ChainFrom collects the nodes of a list that is not longer than the heap.*)

Collects(f, node) ==
  f = [k \in 0 .. Cardinality(Nodes) |->
         IF k = 0 THEN [seq |-> <<>>, at |-> node]
         ELSE IF f[k - 1].at = NULL THEN f[k - 1]
         ELSE [seq |-> Append(f[k - 1].seq, f[k - 1].at), at |-> next[f[k - 1].at]]]

LEMMA ChainFromIs ==
  ASSUME NEW p, NEW s, Follows(p, s, next), Len(s) <= Cardinality(Nodes)
  PROVE  ChainFrom(p) = s
<1> DEFINE N == Cardinality(Nodes)
           Prefix(k) == [seq |-> SubSeq(s, 1, IF k <= Len(s) THEN k ELSE Len(s)),
                         at  |-> IF k < Len(s) THEN s[k + 1] ELSE NULL]
           f == CHOOSE g : Collects(g, p)
<1>1. /\ s \in Seq(Nodes) /\ Len(s) \in Nat /\ N \in Nat /\ NULL \notin Nodes
      /\ \A i \in 1 .. Len(s) : s[i] \in Nodes
      /\ \A i \in 1 .. Len(s) : next[s[i]] = IF i = Len(s) THEN NULL ELSE s[i + 1]
  BY NodesAssumption, FS_CardinalityType, ElementOfSeq DEF Follows
<1>2. Prefix(0) = [seq |-> <<>>, at |-> p]
  <2>1. SubSeq(s, 1, 0) = <<>> /\ (s = <<>> <=> Len(s) = 0)
    BY <1>1, SubSeqEmpty, EmptySeq
  <2> QED
    BY <1>1, <2>1 DEF Follows
<1>3. ASSUME NEW k \in 1 .. N
      PROVE  Prefix(k) = IF Prefix(k - 1).at = NULL THEN Prefix(k - 1)
                         ELSE [seq |-> Append(Prefix(k - 1).seq, Prefix(k - 1).at),
                               at  |-> next[Prefix(k - 1).at]]
  <2>1. CASE k <= Len(s)
    <3>1. /\ k \in 1 .. Len(s) /\ k - 1 < Len(s) /\ (k - 1) + 1 = k /\ k - 1 <= Len(s)
          /\ 1 \in 1 .. Len(s) /\ k - 1 \in 0 .. Len(s)
      BY <1>1, <2>1
    <3>2. Prefix(k - 1) = [seq |-> SubSeq(s, 1, k - 1), at |-> s[k]]
      BY <3>1
    <3>3. Append(SubSeq(s, 1, k - 1), s[k]) = SubSeq(s, 1, k)
      <4>1. SubSeq(s, 1, k) = SubSeq(s, 1, k - 1) \o <<s[k]>>
        BY <1>1, <3>1, SubSeqRecursiveSecond
      <4>2. SubSeq(s, 1, k - 1) \in Seq(Nodes)
        BY <1>1, <3>1, SubSeqProperties
      <4> QED
        BY <1>1, <3>1, <4>1, <4>2, AppendIsConcat
    <3>4. Prefix(k) = [seq |-> SubSeq(s, 1, k), at |-> next[s[k]]]
      BY <1>1, <2>1, <3>1
    <3>5. s[k] # NULL
      BY <1>1, <3>1
    <3>6. Prefix(k - 1).at = s[k] /\ Prefix(k - 1).seq = SubSeq(s, 1, k - 1)
      BY <3>2
    <3> HIDE DEF Prefix
    <3> QED
      BY <3>3, <3>4, <3>5, <3>6
  <2>2. CASE ~(k <= Len(s))
    <3>1. Prefix(k) = [seq |-> SubSeq(s, 1, Len(s)), at |-> NULL]
      BY <1>1, <2>2
    <3>2. Prefix(k - 1) = [seq |-> SubSeq(s, 1, Len(s)), at |-> NULL]
      <4>1. CASE k - 1 = Len(s)
        BY <1>1, <4>1
      <4>2. CASE k - 1 > Len(s)
        BY <1>1, <4>2
      <4> QED
        BY <1>1, <2>2, <4>1, <4>2
    <3> HIDE DEF Prefix
    <3> QED
      BY <3>1, <3>2
  <2> QED
    BY <2>1, <2>2
<1> HIDE DEF Prefix
<1>4. Collects([k \in 0 .. N |-> Prefix(k)], p)
  <2> DEFINE h == [k \in 0 .. N |-> Prefix(k)]
  <2>1. \A k \in 0 .. N : k # 0 => k \in 1 .. N /\ k - 1 \in 0 .. N
    BY <1>1
  <2>2. \A k \in 0 .. N : h[k] = IF k = 0 THEN [seq |-> <<>>, at |-> p]
                                 ELSE IF h[k - 1].at = NULL THEN h[k - 1]
                                 ELSE [seq |-> Append(h[k - 1].seq, h[k - 1].at),
                                       at  |-> next[h[k - 1].at]]
    BY <1>2, <1>3, <2>1
  <2> QED
    BY <2>2 DEF Collects
<1>5. Collects(f, p)
  BY <1>4
<1>6. ChainFrom(p) = f[N].seq
  BY DEF ChainFrom, Collects
<1> HIDE DEF f
<1> DEFINE T == {k \in 0 .. N : f[k] = Prefix(k)}
<1>7. 0 \in T
  BY <1>1, <1>2, <1>5 DEF Collects
<1>8. ASSUME NEW k \in 0 .. N - 1, k \in T PROVE k + 1 \in T
  <2>1. k + 1 \in 0 .. N /\ k + 1 \in 1 .. N /\ (k + 1) - 1 = k /\ k + 1 # 0
    BY <1>1
  <2>2. f[k + 1] = IF f[k].at = NULL THEN f[k]
                   ELSE [seq |-> Append(f[k].seq, f[k].at), at |-> next[f[k].at]]
    BY <1>5, <2>1 DEF Collects
  <2>3. f[k] = Prefix(k)
    BY <1>8
  <2>4. f[k + 1] = Prefix(k + 1)
    BY <1>3, <2>1, <2>2, <2>3
  <2> QED
    BY <2>1, <2>4
<1>9. N \in T
  <2> HIDE DEF T
  <2> QED
    BY <1>1, <1>7, <1>8, RangeInduction
<1>10. Prefix(N).seq = s
  <2>1. Prefix(N).seq = SubSeq(s, 1, Len(s))
    BY <1>1 DEF Prefix
  <2> QED
    BY <1>1, <2>1, SubSeqFull
<1> QED
  BY <1>6, <1>9, <1>10

-----------------------------------------------------------------------------
(* As long as msg_queue_remove has not gone through them, the two lists    *)
(* hold every node, and the queue what was put and not taken out.          *)

Lists(qs, rs) ==
  /\ Follows(first, qs, next) /\ Distinct(qs)
  /\ Follows(recycle, rs, next) /\ Distinct(rs)
  /\ Elements(qs) \intersect Elements(rs) = {}
  /\ Elements(qs) \union Elements(rs) = allocated
  /\ last = IF qs = <<>> THEN NULL ELSE qs[Len(qs)]
  /\ nb_messages = Len(qs)

Holds(qs) ==
  /\ Len(pending) = Len(qs)
  /\ \A i \in 1 .. Len(qs) : pending[i] = body[qs[i]] /\ body[qs[i]].id <= sent
  /\ \A i, j \in 1 .. Len(qs) : i < j => body[qs[i]].id < body[qs[j]].id

LInv ==
  /\ removing.locked => removed
  /\ ~removed => \E qs, rs : Lists(qs, rs) /\ Holds(qs)
  /\ ~removed /\ loop = "freed" => allocated = {}

LEMMA InitLInv == Init => LInv
<1> SUFFICES ASSUME Init PROVE LInv
  OBVIOUS
<1>1. <<>> \in Seq(Nodes) /\ Len(<<>>) = 0
  OBVIOUS
<1>2. first = NULL /\ recycle = NULL /\ last = NULL /\ nb_messages = 0 /\ allocated = {}
  BY DEF Init, first
<1>3. Lists(<<>>, <<>>)
  BY <1>1, <1>2 DEF Lists, Follows, Distinct, Elements
<1>4. Holds(<<>>)
  <2>1. pending = <<>>
    BY DEF Init
  <2> QED
    BY <1>1, <2>1 DEF Holds
<1> QED
  BY <1>3, <1>4 DEF Init, LInv, NotRemoving

\* The nodes of a list, with their types.
LEMMA ListNodes ==
  ASSUME NEW p, NEW s, NEW nx, Follows(p, s, nx)
  PROVE  /\ s \in Seq(Nodes) /\ Len(s) \in Nat /\ Elements(s) \subseteq Nodes
         /\ \A i \in 1 .. Len(s) : s[i] \in Nodes /\ s[i] \in Elements(s)
         /\ s = <<>> <=> Len(s) = 0
         /\ s # <<>> => Len(s) \in 1 .. Len(s) /\ 1 \in 1 .. Len(s)
<1>1. s \in Seq(Nodes)
  BY DEF Follows
<1>2. Len(s) \in Nat /\ (s = <<>> <=> Len(s) = 0)
  BY <1>1, LenProperties, EmptySeq
<1>3. \A i \in 1 .. Len(s) : s[i] \in Nodes
  BY <1>1, ElementOfSeq
<1> QED
  BY <1>1, <1>2, <1>3 DEF Elements

\* The node is the first of the recycle list, or a new one when that is empty.
LEMMA EnqueueLInv ==
  ASSUME QInv, LInv, loop # "freed", NEW n \in Nodes, NEW kind \in Kinds,
         Enqueue(n, kind),
         \/ recycle = n /\ recycle # NULL /\ recycle' = next[n] /\ allocated' = allocated
         \/ recycle = NULL /\ recycle' = NULL /\ n \notin allocated
            /\ allocated' = allocated \union {n},
         UNCHANGED <<removing, removed>>
  PROVE  LInv'
<1> SUFFICES ASSUME ~removed PROVE \E qs, rs : Lists(qs, rs)' /\ Holds(qs)'
  <2>1. loop' # "freed"
    BY DEF Enqueue, Woken
  <2> QED
    BY <2>1 DEF LInv
<1>1. PICK qs, rs : Lists(qs, rs) /\ Holds(qs)
  BY DEF LInv
<1>2. PICK t : /\ Follows(recycle', t, next) /\ Distinct(t)
               /\ n \notin Elements(t) /\ n \notin Elements(qs)
               /\ Elements(qs) \intersect Elements(t) = {}
               /\ Elements(qs) \union Elements(t) \union {n} = allocated'
  <2>1. CASE recycle = n /\ recycle # NULL /\ recycle' = next[n] /\ allocated' = allocated
    <3>1. rs # <<>> /\ n = rs[1] /\ Follows(next[n], Tail(rs), next)
      BY <1>1, <2>1, FollowsTail DEF Lists
    <3>2. /\ Distinct(Tail(rs)) /\ n \notin Elements(Tail(rs))
          /\ Elements(rs) = Elements(Tail(rs)) \union {n}
      BY <1>1, <3>1, TailDistinct DEF Lists, Follows
    <3> QED
      BY <1>1, <2>1, <3>1, <3>2 DEF Lists
  <2>2. CASE recycle = NULL /\ recycle' = NULL /\ n \notin allocated
             /\ allocated' = allocated \union {n}
    BY <1>1, <2>2 DEF Lists
  <2> QED
    BY <2>1, <2>2
<1> DEFINE ext == Append(qs, n)
<1>3. /\ qs \in Seq(Nodes) /\ Len(qs) \in Nat /\ Elements(qs) \subseteq Nodes
      /\ \A i \in 1 .. Len(qs) : qs[i] \in Nodes /\ qs[i] \in Elements(qs) /\ qs[i] # n
      /\ qs = <<>> <=> Len(qs) = 0
      /\ qs # <<>> => Len(qs) \in 1 .. Len(qs)
  BY <1>1, <1>2, ListNodes DEF Lists
<1>4. /\ ext \in Seq(Nodes) /\ ext # <<>> /\ Len(ext) = Len(qs) + 1
      /\ \A i \in 1 .. Len(qs) : ext[i] = qs[i]
      /\ ext[Len(qs) + 1] = n
  BY <1>3, AppendProperties
<1>5. Distinct(ext) /\ Elements(ext) = Elements(qs) \union {n}
  BY <1>1, <1>2, <1>3, AppendDistinct, ElementsAppend DEF Lists
<1>6. /\ next' = [next EXCEPT ![n] = NULL, ![IF last = NULL THEN HEAD ELSE last] = n]
      /\ next \in [Nodes \union {HEAD} -> Pointer]
      /\ last' = n /\ nb_messages' = nb_messages + 1 /\ sent' = sent + 1
      /\ body' = [body EXCEPT ![n] = [what |-> kind, id |-> sent + 1]]
      /\ pending' = Append(pending, [what |-> kind, id |-> sent + 1])
      /\ HEAD \notin Nodes /\ NULL \notin Nodes
  BY NodesAssumption DEF Enqueue, Linked, QInv, TypeOK
<1>7. /\ next'[n] = NULL
      /\ qs = <<>> => next'[HEAD] = n
      /\ qs # <<>> => next'[qs[Len(qs)]] = n /\ next'[HEAD] = next[HEAD]
      /\ \A x \in Nodes : x # n /\ (qs # <<>> => x # qs[Len(qs)]) => next'[x] = next[x]
  <2>1. CASE qs = <<>>
    <3>1. next' = [next EXCEPT ![n] = NULL, ![HEAD] = n]
      BY <1>1, <1>6, <2>1 DEF Lists
    <3> QED
      BY <1>6, <2>1, <3>1
  <2>2. CASE qs # <<>>
    <3>1. last = qs[Len(qs)] /\ last \in Nodes /\ last # n
      BY <1>1, <1>3, <2>2 DEF Lists
    <3>2. next' = [next EXCEPT ![n] = NULL, ![last] = n]
      BY <1>6, <3>1
    <3> QED
      BY <1>6, <2>2, <3>1, <3>2
  <2> QED
    BY <2>1, <2>2
<1>8. Follows(first', ext, next')
  <2>1. Follows(first, qs, next) /\ Distinct(qs)
    BY <1>1 DEF Lists
  <2>2. \A i \in 1 .. Len(qs) : i # Len(qs) => next'[qs[i]] = next[qs[i]]
    BY <1>3, <1>7, <2>1 DEF Distinct
  <2>3. Follows(IF qs = <<>> THEN n ELSE first, ext, next')
    <3>1. /\ n \notin Elements(qs) /\ next'[n] = NULL
          /\ qs # <<>> => next'[qs[Len(qs)]] = n
      BY <1>2, <1>7
    <3> QED
      BY <2>1, <2>2, <3>1, FollowsAppend, Zenon
  <2>4. first' = IF qs = <<>> THEN n ELSE first
    BY <1>7 DEF first
  <2> QED
    BY <2>3, <2>4
<1>9. Follows(recycle', t, next')
  <2>1. \A x \in Elements(t) : next'[x] = next[x]
    BY <1>2, <1>3, <1>7, ListNodes
  <2> QED
    BY <1>2, <2>1, FollowsSame
<1>10. Lists(ext, t)'
  <2>1. Elements(ext) \intersect Elements(t) = {} /\ Elements(ext) \union Elements(t) = allocated'
    BY <1>2, <1>5
  <2>2. last' = ext[Len(ext)] /\ nb_messages' = Len(ext)
    BY <1>1, <1>4, <1>6 DEF Lists
  <2> HIDE DEF ext
  <2> QED
    BY <1>2, <1>4, <1>5, <1>8, <1>9, <2>1, <2>2 DEF Lists
<1>11. Holds(ext)'
  <2>1. /\ \A i \in 1 .. Len(qs) : body'[ext[i]] = body[qs[i]]
        /\ body'[n] = [what |-> kind, id |-> sent + 1]
    <3>1. body \in [Nodes -> Messages]
      BY DEF QInv, TypeOK
    <3> QED
      BY <1>3, <1>4, <1>6, <3>1
  <2>2. \A i \in 1 .. Len(qs) : body[qs[i]].id \in Nat /\ body[qs[i]].id <= sent
    <3>1. \A x \in Nodes : body[x] \in Messages
      BY DEF QInv, TypeOK
    <3>2. \A m \in Messages : m.id \in Nat
      BY MaxPutsAssumption DEF Messages
    <3> QED
      BY <1>1, <1>3, <3>1, <3>2 DEF Holds
  <2>3. /\ Len(pending') = Len(ext)
        /\ \A i \in 1 .. Len(qs) : pending'[i] = pending[i]
        /\ pending'[Len(qs) + 1] = [what |-> kind, id |-> sent + 1]
    <3>1. pending \in Seq(Messages) /\ Len(pending) = Len(qs)
      BY <1>1, TypesKept DEF Holds
    <3> QED
      BY <1>4, <1>6, <3>1
  <2>4. \A i \in 1 .. Len(ext) : i \in 1 .. Len(qs) \/ i = Len(qs) + 1
    BY <1>3, <1>4
  <2>5. sent \in Nat
    BY NumbersKept
  <2>6. ASSUME NEW i \in 1 .. Len(ext)
        PROVE  pending'[i] = body'[ext[i]] /\ body'[ext[i]].id <= sent'
    BY <1>1, <1>4, <1>6, <2>1, <2>2, <2>3, <2>4, <2>5 DEF Holds
  <2>7. ASSUME NEW i \in 1 .. Len(ext), NEW j \in 1 .. Len(ext), i < j
        PROVE  body'[ext[i]].id < body'[ext[j]].id
    <3>1. i \in 1 .. Len(qs)
      BY <1>3, <1>4, <2>7
    <3>2. CASE j \in 1 .. Len(qs)
      BY <1>1, <2>1, <2>7, <3>1, <3>2 DEF Holds
    <3>3. CASE j = Len(qs) + 1
      BY <1>4, <2>1, <2>2, <2>5, <3>1, <3>3
    <3> QED
      BY <2>4, <3>2, <3>3
  <2> HIDE DEF ext
  <2> QED
    BY <2>3, <2>6, <2>7 DEF Holds
<1> QED
  BY <1>10, <1>11

LEMMA PutPrivateLInv ==
  ASSUME QInv, LInv, loop # "freed", NEW kind \in Kinds, PutPrivate(kind),
         UNCHANGED <<removing, removed>>
  PROVE  LInv'
<1>1. CASE recycle # NULL /\ recycle' = next[recycle] /\ Enqueue(recycle, kind)
           /\ allocated' = allocated
  <2>1. recycle \in Nodes
    BY <1>1 DEF QInv, TypeOK, Pointer
  <2> QED
    BY <1>1, <2>1, EnqueueLInv DEF PutPrivate
<1>2. CASE /\ recycle = NULL /\ allocated # Nodes /\ recycle' = recycle
           /\ LET n == CHOOSE m \in Nodes : m \notin allocated
              IN allocated' = allocated \union {n} /\ Enqueue(n, kind)
  <2>1. PICK n \in Nodes : /\ n \notin allocated /\ allocated' = allocated \union {n}
                           /\ Enqueue(n, kind)
    BY <1>2 DEF QInv, TypeOK
  <2> QED
    BY <1>2, <2>1, EnqueueLInv DEF PutPrivate
<1>3. CASE UNCHANGED <<heapVars, loop, sent, pending>>
  BY <1>3 DEF heapVars, LInv, Lists, Holds, first
<1> QED
  BY <1>1, <1>2, <1>3 DEF PutPrivate

LEMMA GetLInv == QInv /\ LInv /\ GetMessage => LInv'
<1> SUFFICES ASSUME QInv, LInv, GetMessage, ~removed PROVE \E qs, rs : Lists(qs, rs)' /\ Holds(qs)'
  BY DEF GetMessage, LInv
<1>1. PICK qs, rs : Lists(qs, rs) /\ Holds(qs)
  BY DEF LInv
<1> PICK msg : msg = first
  OBVIOUS
<1> DEFINE rest == Tail(qs)
           used == <<msg>> \o rs
<1>2. /\ qs # <<>> /\ msg = qs[1] /\ msg \in Nodes /\ msg # NULL
      /\ Follows(next[msg], rest, next)
  BY <1>1, FollowsTail DEF GetMessage, Lists
<1>3. /\ Distinct(rest) /\ msg \notin Elements(rest) /\ Elements(qs) = Elements(rest) \union {msg}
      /\ rest \in Seq(Nodes)
  BY <1>1, <1>2, TailDistinct DEF Lists, Follows
<1>4. /\ next' = [next EXCEPT ![HEAD] = next[msg], ![msg] = recycle]
      /\ next \in [Nodes \union {HEAD} -> Pointer]
      /\ recycle' = msg /\ nb_messages' = nb_messages - 1
      /\ last' = IF next[msg] = NULL THEN NULL ELSE last
      /\ pending' = Without(pending, {body[msg]})
      /\ body' = body /\ allocated' = allocated /\ sent' = sent
      /\ HEAD \notin Nodes
  BY NodesAssumption DEF GetMessage, Recycled, QInv, TypeOK, first
<1>5. /\ next'[HEAD] = next[msg] /\ next'[msg] = recycle
      /\ \A x \in Nodes : x # msg => next'[x] = next[x]
  BY <1>2, <1>4
<1>6. Follows(first', rest, next')
  <2>1. \A x \in Elements(rest) : next'[x] = next[x]
    BY <1>2, <1>3, <1>5, ListNodes
  <2>2. first' = next[msg]
    BY <1>5 DEF first
  <2> QED
    BY <1>2, <2>1, <2>2, FollowsSame
<1>7. Follows(recycle', used, next') /\ Distinct(used) /\ Elements(used) = Elements(rs) \union {msg}
  <2>1. msg \notin Elements(rs) /\ Follows(recycle, rs, next) /\ Distinct(rs) /\ rs \in Seq(Nodes)
    BY <1>1, <1>3 DEF Lists, Follows
  <2>2. \A x \in Elements(rs) : next'[x] = next[x]
    BY <1>5, <2>1, ListNodes
  <2>3. Follows(msg, used, next')
    BY <1>2, <1>5, <2>1, <2>2, FollowsCons
  <2>4. Distinct(used) /\ Elements(used) = Elements(rs) \union {msg}
    BY <1>2, <2>1, ConsDistinct
  <2> QED
    BY <1>4, <2>3, <2>4
<1>8. /\ Len(qs) \in Nat \ {0} /\ Len(rest) = Len(qs) - 1
      /\ \A i \in 1 .. Len(rest) : rest[i] = qs[i + 1] /\ i + 1 \in 1 .. Len(qs)
      /\ rest = <<>> <=> Len(rest) = 0
  <2>1. qs \in Seq(Nodes)
    BY <1>1 DEF Lists, Follows
  <2>2. Len(qs) \in Nat \ {0}
    BY <1>2, <2>1, EmptySeq
  <2>3. /\ Len(rest) = Len(qs) - 1
        /\ \A i \in 1 .. Len(rest) : rest[i] = qs[i + 1]
    BY <1>2, <2>1, HeadTailProperties
  <2>4. rest = <<>> <=> Len(rest) = 0
    BY <1>3, EmptySeq
  <2> HIDE DEF rest
  <2> QED
    BY <2>2, <2>3, <2>4
<1> HIDE DEF rest, used
<1>9. Lists(rest, used)'
  <2>1. Elements(rest) \intersect Elements(used) = {} /\ Elements(rest) \union Elements(used) = allocated'
    BY <1>1, <1>3, <1>4, <1>7 DEF Lists
  <2>2. nb_messages' = Len(rest)
    BY <1>1, <1>4, <1>8 DEF Lists
  <2>3. last' = IF rest = <<>> THEN NULL ELSE rest[Len(rest)]
    <3>1. CASE rest = <<>>
      BY <1>2, <1>4, <3>1 DEF Follows
    <3>2. CASE rest # <<>>
      <4>1. next[msg] = rest[1] /\ 1 \in 1 .. Len(rest) /\ Len(rest) \in 1 .. Len(rest)
        BY <1>2, <1>8, <3>2 DEF Follows
      <4>2. next[msg] # NULL /\ rest[Len(rest)] = qs[Len(qs)]
        BY <1>3, <1>8, <4>1, NodesAssumption, ElementOfSeq
      <4> QED
        BY <1>1, <1>2, <1>4, <3>2, <4>2 DEF Lists
    <3> QED
      BY <3>1, <3>2
  <2> QED
    BY <1>3, <1>6, <1>7, <2>1, <2>2, <2>3 DEF Lists
<1>10. Holds(rest)'
  <2>1. pending \in Seq(Messages) /\ Len(pending) = Len(qs) /\ pending # <<>>
    BY <1>1, <1>8, TypesKept, EmptySeq DEF Holds
  <2>2. \A m \in Nodes : body[m].id \in Nat
    <3>1. \A x \in Nodes : body[x] \in Messages
      BY DEF QInv, TypeOK
    <3>2. \A m \in Messages : m.id \in Nat
      BY MaxPutsAssumption DEF Messages
    <3> QED
      BY <3>1, <3>2
  <2>3. pending' = Tail(pending)
    <3>1. 1 \in 1 .. Len(qs) /\ pending[1] \in {body[msg]}
      BY <1>1, <1>2, <1>8 DEF Holds
    <3>2. ASSUME NEW i \in 2 .. Len(pending) PROVE pending[i] \notin {body[msg]}
      <4>1. i \in 1 .. Len(qs) /\ 1 < i
        BY <1>8, <2>1, <3>2
      <4>2. pending[i] = body[qs[i]] /\ body[qs[1]].id < body[qs[i]].id
        BY <1>1, <3>1, <4>1 DEF Holds
      <4>3. qs[i] \in Nodes
        BY <1>1, <4>1, ListNodes DEF Lists
      <4> QED
        BY <1>2, <2>2, <4>2, <4>3
    <3> QED
      BY <1>4, <2>1, <3>1, <3>2, WithoutHead
  <2>4. Len(pending') = Len(rest) /\ \A i \in 1 .. Len(rest) : pending'[i] = pending[i + 1]
    BY <1>8, <2>1, <2>3, HeadTailProperties
  <2>5. ASSUME NEW i \in 1 .. Len(rest)
        PROVE  pending'[i] = body[rest[i]] /\ body[rest[i]].id <= sent
    BY <1>1, <1>8, <2>4 DEF Holds
  <2>6. ASSUME NEW i \in 1 .. Len(rest), NEW j \in 1 .. Len(rest), i < j
        PROVE  body[rest[i]].id < body[rest[j]].id
    <3>1. i + 1 < j + 1 /\ i + 1 \in 1 .. Len(qs) /\ j + 1 \in 1 .. Len(qs)
      BY <1>8, <2>6
    <3>2. body[qs[i + 1]].id < body[qs[j + 1]].id
      BY <1>1, <3>1 DEF Holds
    <3> QED
      BY <1>8, <3>2
  <2> QED
    BY <1>4, <2>4, <2>5, <2>6 DEF Holds
<1> QED
  BY <1>9, <1>10

\* What the two lists hold together.
LEMMA ListsHoldAll ==
  ASSUME NEW qs, NEW rs, Lists(qs, rs), allocated \subseteq Nodes
  PROVE  /\ ChainFrom(first) = qs /\ ChainFrom(recycle) = rs
         /\ ToSet(qs) = Elements(qs) /\ ToSet(rs) = Elements(rs)
         /\ ToSet(qs \o rs) = allocated /\ Len(qs \o rs) = Cardinality(allocated)
<1>1. /\ qs \in Seq(Nodes) /\ Distinct(qs) /\ Len(qs) \in Nat
      /\ rs \in Seq(Nodes) /\ Distinct(rs) /\ Len(rs) \in Nat
      /\ Elements(qs) \subseteq Nodes /\ Elements(rs) \subseteq Nodes
  BY ListNodes DEF Lists
<1>2. /\ IsFiniteSet(Elements(qs)) /\ Cardinality(Elements(qs)) = Len(qs)
      /\ IsFiniteSet(Elements(rs)) /\ Cardinality(Elements(rs)) = Len(rs)
  BY <1>1, DistinctCardinality
<1>3. Len(qs) <= Cardinality(Nodes) /\ Len(rs) <= Cardinality(Nodes)
  BY <1>1, <1>2, NodesAssumption, FS_Subset
<1>4. ChainFrom(first) = qs /\ ChainFrom(recycle) = rs
  BY <1>3, ChainFromIs DEF Lists
<1>5. ToSet(qs) = Elements(qs) /\ ToSet(rs) = Elements(rs)
  BY <1>1, LenProperties DEF ToSet, Elements
<1> DEFINE all == qs \o rs
<1>6. /\ all \in Seq(Nodes) /\ Len(all) = Len(qs) + Len(rs) /\ DOMAIN all = 1 .. Len(all)
      /\ \A i \in 1 .. Len(qs) + Len(rs) :
           all[i] = IF i <= Len(qs) THEN qs[i] ELSE rs[i - Len(qs)]
  <2>1. all \in Seq(Nodes)
    BY <1>1, ConcatProperties
  <2> HIDE DEF all
  <2>2. DOMAIN all = 1 .. Len(all)
    BY <2>1, LenProperties
  <2> USE DEF all
  <2> QED
    BY <1>1, <2>1, <2>2, ConcatProperties
<1>7. Len(all) = Cardinality(allocated)
  <2>1. Cardinality(Elements(qs) \union Elements(rs)) = Len(qs) + Len(rs)
    <3>1. Cardinality(Elements(qs) \intersect Elements(rs)) = 0
      BY FS_EmptySet DEF Lists
    <3>2. Cardinality(Elements(qs) \union Elements(rs))
            = Len(qs) + Len(rs) - Cardinality(Elements(qs) \intersect Elements(rs))
      BY <1>2, FS_Union
    <3> QED
      BY <1>1, <3>1, <3>2
  <2> QED
    BY <1>6, <2>1 DEF Lists
<1>8. ToSet(all) = Elements(qs) \union Elements(rs)
  <2> HIDE DEF all
  <2>1. ASSUME NEW x \in ToSet(all) PROVE x \in Elements(qs) \union Elements(rs)
    <3>1. PICK i \in 1 .. Len(qs) + Len(rs) : x = all[i]
      BY <1>6 DEF ToSet
    <3>2. i <= Len(qs) \/ i - Len(qs) \in 1 .. Len(rs)
      BY <1>1
    <3> QED
      BY <1>1, <1>6, <3>1, <3>2 DEF Elements
  <2>2. ASSUME NEW x \in Elements(qs) PROVE x \in ToSet(all)
    BY <1>1, <1>6 DEF ToSet, Elements
  <2>3. ASSUME NEW x \in Elements(rs) PROVE x \in ToSet(all)
    <3>1. PICK i \in 1 .. Len(rs) : x = rs[i]
      BY DEF Elements
    <3>2. /\ i + Len(qs) \in 1 .. Len(qs) + Len(rs) /\ ~(i + Len(qs) <= Len(qs))
          /\ (i + Len(qs)) - Len(qs) = i
      BY <1>1
    <3> QED
      BY <1>6, <3>1, <3>2 DEF ToSet
  <2> QED
    BY <2>1, <2>2, <2>3
<1> QED
  BY <1>4, <1>5, <1>7, <1>8 DEF Lists

LEMMA DestroyLInv == QInv /\ LInv /\ Destroy => LInv'
<1> SUFFICES ASSUME QInv, LInv, Destroy PROVE LInv'
  OBVIOUS
<1>0. UNCHANGED <<removing, removed>>
  BY DEF Destroy
<1> SUFFICES ASSUME ~removed PROVE allocated' = {} /\ \E qs, rs : Lists(qs, rs)' /\ Holds(qs)'
  BY <1>0 DEF LInv
<1>1. PICK qs, rs : Lists(qs, rs) /\ Holds(qs)
  BY DEF LInv
<1>2. allocated' = {}
  <2>1. allocated \subseteq Nodes
    BY DEF QInv, TypeOK
  <2>2. allocated' = allocated \ (Elements(qs) \union Elements(rs))
    BY <1>1, <2>1, ListsHoldAll DEF Destroy
  <2> QED
    BY <1>1, <2>2 DEF Lists
<1>3. <<>> \in Seq(Nodes) /\ Len(<<>>) = 0
  OBVIOUS
<1>4. /\ first' = NULL /\ recycle' = NULL /\ last' = NULL /\ nb_messages' = 0
      /\ pending' = <<>>
  BY DEF Destroy, first, QInv, TypeOK
<1>5. Lists(<<>>, <<>>)'
  BY <1>2, <1>3, <1>4 DEF Lists, Follows, Distinct, Elements
<1>6. Holds(<<>>)'
  BY <1>3, <1>4 DEF Holds
<1> QED
  BY <1>2, <1>5, <1>6

LEMMA NextLInv == QInv /\ LInv /\ [Next]_vars => LInv'
<1> SUFFICES ASSUME QInv, LInv, [Next]_vars PROVE LInv'
  OBVIOUS
<1>1. ASSUME UNCHANGED <<heapVars, sent, pending>>, loop' = "freed" => loop = "freed",
             removed' = (removed \/ removing'.locked)
      PROVE  LInv'
  BY <1>1 DEF heapVars, LInv, Lists, Holds, first
<1>2. CASE PutEvent
  <2>1. PICK kind \in Kinds : PutPrivate(kind)
    BY <1>2 DEF PutEvent, Kinds
  <2> QED
    BY <1>2, <2>1, PutPrivateLInv DEF PutEvent, QInv
<1>3. CASE Start
  BY <1>3, PutPrivateLInv DEF Start, Kinds
<1>4. CASE CreateLoop \/ Abort \/ GetAborted \/ GetSleep \/ RequestBegin
  <2>1. /\ UNCHANGED <<heapVars, sent, pending, removing, removed>>
        /\ loop' = "freed" => loop = "freed"
    BY <1>4 DEF CreateLoop, Abort, GetAborted, GetSleep, RequestBegin, Woken
  <2> QED
    BY <1>1, <2>1, TypesKept DEF LInv, RemovingType
<1>5. CASE GetMessage
  BY <1>5, GetLInv
<1>6. CASE RemoveEnter
  <2>1. UNCHANGED <<heapVars, sent, pending, loop, removed>> /\ ~removing'.locked
    BY <1>6 DEF RemoveEnter, NotRemoving
  <2> QED
    BY <1>1, <2>1, TypesKept
<1>7. CASE RemoveLock
  BY <1>1, <1>7 DEF RemoveLock
<1>8. CASE RemoveMatch \/ RemoveRetain \/ RemoveEnd
  <2>1. removed /\ removed' = removed
    BY <1>8 DEF RemoveMatch, RemoveRetain, RemoveEnd, LInv
  <2> QED
    BY <2>1 DEF LInv
<1>9. CASE RequestPut
  <2>1. CASE abort_request
    BY <1>1, <1>9, <2>1, TypesKept DEF RequestPut, LInv, RemovingType
  <2>2. CASE ~abort_request
    <3>1. loop # "freed" /\ request.put \in Kinds
      BY <1>9, <2>2, TypesKept DEF RequestPut, QInv, RequestType, Kinds
    <3> QED
      BY <1>9, <2>2, <3>1, PutPrivateLInv DEF RequestPut
  <2> QED
    BY <2>1, <2>2
<1>10. CASE Destroy
  BY <1>10, DestroyLInv
<1>11. CASE UNCHANGED vars
  BY <1>1, <1>11, TypesKept DEF vars, LInv, RemovingType
<1> QED
  BY <1>2, <1>3, <1>4, <1>5, <1>6, <1>7, <1>8, <1>9, <1>10, <1>11
     DEF Next, Application, RemoveStep, Terminated

\* The queue holds, in order, what was put and not taken out, and its tail
\* pointer and counter agree with it, until msg_queue_remove goes through it.
THEOREM QueueHoldsPending == Spec => []HoldsPending
<1>1. QInv /\ LInv => HoldsPending
  <2> SUFFICES ASSUME QInv, LInv, ~removed
               PROVE  LET queue == ChainFrom(first)
                      IN  /\ [i \in 1 .. Len(queue) |-> body[queue[i]]] = pending
                          /\ nb_messages = Len(queue)
                          /\ last = IF queue = <<>> THEN NULL ELSE Last(queue)
    BY DEF HoldsPending
  <2>1. PICK qs, rs : Lists(qs, rs) /\ Holds(qs)
    BY DEF LInv
  <2>2. ChainFrom(first) = qs
    BY <2>1, ListsHoldAll DEF QInv, TypeOK
  <2>3. [i \in 1 .. Len(qs) |-> body[qs[i]]] = pending
    <3>1. pending \in [1 .. Len(qs) -> Messages]
      BY <2>1, TypesKept, LenProperties DEF Holds
    <3> QED
      BY <2>1, <3>1 DEF Holds
  <2>4. nb_messages = Len(qs) /\ last = IF qs = <<>> THEN NULL ELSE Last(qs)
    BY <2>1 DEF Lists, Last
  <2> QED
    BY <2>2, <2>3, <2>4
<1>2. Init => QInv /\ LInv
  BY InitQInv, InitLInv
<1>3. (QInv /\ LInv) /\ [Next]_vars => (QInv /\ LInv)'
  BY NextQInv, NextLInv
<1> QED
  BY <1>1, <1>2, <1>3, PTL DEF Spec

\* No node is lost or in two places, and msg_queue_destroy frees every one,
\* until msg_queue_remove goes through the lists.
THEOREM QueueAccountsForNodes == Spec => []NodesAccounted
<1>1. QInv /\ LInv => NodesAccounted
  <2> SUFFICES ASSUME QInv, LInv, ~removed
               PROVE  LET all == ChainFrom(first) \o ChainFrom(recycle)
                      IN  /\ ToSet(all) = allocated
                          /\ Len(all) = Cardinality(allocated)
                          /\ loop = "freed" => allocated = {}
    BY DEF NodesAccounted
  <2>1. PICK qs, rs : Lists(qs, rs)
    BY DEF LInv
  <2>2. /\ ChainFrom(first) = qs /\ ChainFrom(recycle) = rs
        /\ ToSet(qs \o rs) = allocated /\ Len(qs \o rs) = Cardinality(allocated)
    BY <2>1, ListsHoldAll DEF QInv, TypeOK
  <2>3. loop = "freed" => allocated = {}
    BY DEF LInv
  <2> QED
    BY <2>2, <2>3
<1>2. Init => QInv /\ LInv
  BY InitQInv, InitLInv
<1>3. (QInv /\ LInv) /\ [Next]_vars => (QInv /\ LInv)'
  BY NextQInv, NextLInv
<1> QED
  BY <1>1, <1>2, <1>3, PTL DEF Spec

=============================================================================
