-------------------------- MODULE PlayerRefProofs --------------------------
(***************************************************************************)
(* What PlayerRef promises for any number of threads and players.  IInv is *)
(* the inductive invariant: what a thread that holds the mutex knows, in   *)
(* which variable of a call a reference can be at each of its places, and  *)
(* that a player lives as long as it is referenced.  The count is exact    *)
(* because each step that changes it also moves one reference.             *)
(***************************************************************************)
EXTENDS PlayerRef, FiniteSetTheorems, TLAPS

\* g_clazz.mutex is held across steps exactly by a thread that has read the
\* field and not yet counted its reference.
LockInv ==
  \A t \in Threads :
    /\ lock = t <=> pc[t] = "inc"
    /\ pc[t] = "inc" => field # NULL /\ seen[t] = field

\* Where a call has its references: none is overwritten, none is left behind.
CallRefs(t) ==
  /\ holds[<<t, "old">>] # NULL => pc[t] = "drop_old"
  /\ holds[<<t, "mp">>] # NULL =>
       pc[t] \in {"use", "shutdown", "weak", "clear", "publish", "drop_old", "drop"}
  /\ pc[t] \in {"use", "shutdown", "weak", "clear", "publish"} => holds[<<t, "mp">>] # NULL
  /\ holds[<<t, "outer">>] # NULL =>
       op[t] = "reset" /\ pc[t] \notin {"idle", "use", "remove"}
  /\ pc[t] = "take" => holds[<<t, "outer">>] # NULL
SlotInv == \A t \in Threads : CallRefs(t)

\* A player lives as long as it is referenced, and is destroyed by one thread.
LifeInv ==
  /\ \A p \in Players : life[p] = "live" <=> ref_count[p] > 0
  /\ \A t \in Threads : doomed[t] # NULL =>
       /\ life[doomed[t]] = "dying"
       /\ loop[doomed[t]] # "destroy"
       /\ \A u \in Threads : doomed[u] = doomed[t] => u = t
  /\ \A p \in Players : loop[p] = "destroy" => life[p] = "dying"

IInv == ThreadTypes /\ PlayerTypes /\ LockInv /\ SlotInv /\ LifeInv /\ CountIsExact
-----------------------------------------------------------------------------
(* Counting references.                                                    *)

Held(h, p) == {x \in Places : h[x] = p}

LEMMA HeldFinite ==
  ASSUME NEW h, NEW p
  PROVE  IsFiniteSet(Held(h, p)) /\ Cardinality(Held(h, p)) \in Nat
  <1>1. IsFiniteSet({}) /\ {} \union {"outer"} = {"outer"}
    BY FS_EmptySet
  <1>2. IsFiniteSet({"outer"} \union {"mp"})
    BY <1>1, FS_AddElement
  <1>3. IsFiniteSet(({"outer"} \union {"mp"}) \union {"old"})
    BY <1>2, FS_AddElement
  <1>4. IsFiniteSet(Slots)
    <2>1. Slots = ({"outer"} \union {"mp"}) \union {"old"}
      BY DEF Slots
    <2> QED
      BY <1>3, <2>1
  <1>5. IsFiniteSet(Places)
    BY <1>4, ThreadsAssumption, FS_Product DEF Places
  <1>6. Held(h, p) \in SUBSET Places
    BY DEF Held
  <1>7. IsFiniteSet(Held(h, p))
    BY <1>5, <1>6, FS_Subset
  <1> QED
    BY <1>7, FS_CardinalityType

\* A reference that is put into an empty variable is one more.
LEMMA OneMore ==
  ASSUME NEW h \in [Places -> Players \union {NULL}], NEW x \in Places, h[x] = NULL,
         NEW p \in Players \union {NULL}, NEW r \in Players
  PROVE  Cardinality(Held([h EXCEPT ![x] = p], r)) =
           Cardinality(Held(h, r)) + (IF r = p THEN 1 ELSE 0)
  <1> DEFINE g == [h EXCEPT ![x] = p]
  <1>1. r # NULL
    BY PlayersAssumption
  <1>2. CASE r = p
    <2>1. Held(g, r) = Held(h, r) \union {x} /\ x \notin Held(h, r)
      BY <1>1, <1>2 DEF Held
    <2> QED
      BY <1>2, <2>1, HeldFinite, FS_AddElement
  <1>3. CASE r # p
    <2>1. Held(g, r) = Held(h, r)
      BY <1>1, <1>3 DEF Held
    <2> QED
      BY <1>3, <2>1, HeldFinite
  <1> QED
    BY <1>2, <1>3

\* A variable that is cleared is one less.
LEMMA OneLess ==
  ASSUME NEW h \in [Places -> Players \union {NULL}], NEW x \in Places, h[x] \in Players,
         NEW r \in Players
  PROVE  Cardinality(Held([h EXCEPT ![x] = NULL], r)) =
           Cardinality(Held(h, r)) - (IF r = h[x] THEN 1 ELSE 0)
  <1> DEFINE g == [h EXCEPT ![x] = NULL]
  <1>1. r # NULL
    BY PlayersAssumption
  <1>2. CASE r = h[x]
    <2>1. Held(g, r) = Held(h, r) \ {x} /\ x \in Held(h, r)
      BY <1>1, <1>2 DEF Held
    <2> QED
      BY <1>2, <2>1, HeldFinite, FS_RemoveElement
  <1>3. CASE r # h[x]
    <2>1. Held(g, r) = Held(h, r)
      BY <1>1, <1>3 DEF Held
    <2> QED
      BY <1>3, <2>1, HeldFinite
  <1> QED
    BY <1>2, <1>3

\* What is referenced is counted.
LEMMA ReferencedIsCounted ==
  ASSUME PlayerTypes, CountIsExact, NEW p \in Players
  PROVE  /\ ref_count[p] \in Nat
         /\ \A x \in Places : holds[x] = p => ref_count[p] > 0
         /\ field = p => ref_count[p] > 0
         /\ loop[p] \in LoopHolds \union {"failed"} => ref_count[p] > 0
  <1>1. RefsIn(p) = Held(holds, p)
    BY DEF RefsIn, Held
  <1>2. IsFiniteSet(RefsIn(p)) /\ Cardinality(RefsIn(p)) \in Nat
    BY <1>1, HeldFinite
  <1>3. ref_count[p] = Cardinality(RefsIn(p)) + RefOfField(p) + RefOfLoop(p)
    BY DEF CountIsExact
  <1>4. ASSUME NEW x \in Places, holds[x] = p PROVE Cardinality(RefsIn(p)) # 0
    BY <1>2, <1>4, FS_EmptySet DEF RefsIn
  <1> QED
    BY <1>2, <1>3, <1>4 DEF PlayerTypes, RefOfField, RefOfLoop

-----------------------------------------------------------------------------
(* The steps that move no reference.                                       *)

LEMMA CountKept ==
  ASSUME CountIsExact, UNCHANGED <<ref_count, holds, field>>,
         \A p \in Players : RefOfLoop(p)' = RefOfLoop(p)
  PROVE  CountIsExact'
  BY DEF CountIsExact, RefsIn, RefOfField

LEMMA LifeKept ==
  ASSUME LifeInv, ThreadTypes, UNCHANGED <<ref_count, life, doomed>>,
         \A p \in Players : loop'[p] = "destroy" <=> loop[p] = "destroy"
  PROVE  LifeInv'
  BY DEF LifeInv, ThreadTypes

\* A call goes on to a place that needs no other references.
LEMMA CallKeeps ==
  ASSUME IInv, NEW t \in Threads,
         \/ GetNull(t) \/ GetRead(t) \/ UseCall(t) \/ UseStop(t) \/ Take(t) \/ Shutdown(t)
         \/ DeleteWeak(t) \/ RemoveMessages(t)
         \/ \E call \in {"call"} \union Lifecycle : Begin(t, call)
  PROVE  IInv'
  <1> USE DEF IInv
  <1>1. UNCHANGED <<ref_count, life, field, holds, doomed, loop>>
    BY DEF GetNull, GetRead, UseCall, UseStop, Take, Shutdown, DeleteWeak, RemoveMessages, Begin
  <1>2. PlayerTypes' /\ LifeInv' /\ CountIsExact'
    BY <1>1, CountKept, LifeKept DEF PlayerTypes, RefOfLoop
  <1>3. CASE \E call \in {"call"} \union Lifecycle : Begin(t, call)
    BY <1>1, <1>2, <1>3 DEF Begin, At, ThreadTypes, LockInv, SlotInv, CallRefs
  <1>4. CASE GetNull(t)
    BY <1>1, <1>2, <1>4 DEF GetNull, At, Slot, LockFree, ThreadTypes, LockInv, SlotInv, CallRefs
  <1>5. CASE GetRead(t)
    BY <1>1, <1>2, <1>5, ThreadsAssumption
       DEF GetRead, At, LockFree, ThreadTypes, PlayerTypes, LockInv, SlotInv, CallRefs
  <1>6. CASE UseCall(t) \/ UseStop(t)
    BY <1>1, <1>2, <1>6 DEF UseCall, UseStop, At, ThreadTypes, LockInv, SlotInv, CallRefs
  <1>7. CASE Take(t)
    BY <1>1, <1>2, <1>7 DEF Take, At, ThreadTypes, LockInv, SlotInv, CallRefs
  <1>8. CASE Shutdown(t) \/ DeleteWeak(t)
    BY <1>1, <1>2, <1>8 DEF Shutdown, DeleteWeak, At, ThreadTypes, LockInv, SlotInv, CallRefs
  <1>9. CASE RemoveMessages(t)
    BY <1>1, <1>2, <1>9 DEF RemoveMessages, At, ThreadTypes, LockInv, SlotInv, CallRefs
  <1> QED
    BY <1>3, <1>4, <1>5, <1>6, <1>7, <1>8, <1>9

\* The message loop posts, and keeps its reference meanwhile.
LEMMA LoopKeeps ==
  ASSUME IInv, NEW p \in Players,
         LoopBegin(p) \/ LoopGet(p) \/ LoopPost(p) \/ LoopAborted(p) \/ LoopExit(p)
  PROVE  IInv'
  <1> USE DEF IInv
  <1>1. UNCHANGED <<ref_count, life, field, lock, op, pc, seen, holds, doomed>>
    BY DEF LoopBegin, LoopGet, LoopPost, LoopAborted, LoopExit
  <1>2. PICK l \in LoopHolds \union {"end"} :
          /\ loop' = [loop EXCEPT ![p] = l]
          /\ l = "end" <=> loop[p] = "exit"
          /\ loop[p] \in LoopHolds \union {"exit"}
    BY DEF LoopBegin, LoopGet, LoopPost, LoopAborted, LoopExit, LoopAt, LoopHolds
  <1>3. \A r \in Players : /\ loop'[r] = "destroy" <=> loop[r] = "destroy"
                           /\ RefOfLoop(r)' = RefOfLoop(r)
    BY <1>2 DEF PlayerTypes, RefOfLoop, LoopHolds
  <1>4. ThreadTypes' /\ LockInv' /\ SlotInv'
    BY <1>1 DEF ThreadTypes, LockInv, SlotInv, CallRefs
  <1>5. PlayerTypes'
    BY <1>1, <1>2 DEF PlayerTypes
  <1> QED
    BY <1>1, <1>3, <1>4, <1>5, CountKept, LifeKept

-----------------------------------------------------------------------------
(* The steps that move references.                                         *)

LEMMA RefsMore ==
  ASSUME ThreadTypes, NEW x \in Places, holds[x] = NULL,
         NEW p \in Players \union {NULL}, holds' = [holds EXCEPT ![x] = p], NEW r \in Players
  PROVE  /\ Cardinality(RefsIn(r)) \in Nat
         /\ Cardinality(RefsIn(r)') = Cardinality(RefsIn(r)) + (IF r = p THEN 1 ELSE 0)
  <1>1. RefsIn(r) = Held(holds, r) /\ RefsIn(r)' = Held(holds', r)
    BY DEF RefsIn, Held
  <1>2. Cardinality(Held(holds', r)) =
          Cardinality(Held(holds, r)) + (IF r = p THEN 1 ELSE 0)
    <2>1. holds \in [Places -> Players \union {NULL}]
      BY DEF ThreadTypes
    <2>2. Cardinality(Held([holds EXCEPT ![x] = p], r)) =
            Cardinality(Held(holds, r)) + (IF r = p THEN 1 ELSE 0)
      BY <2>1, OneMore
    <2> QED
      BY <2>2
  <1> QED
    BY <1>1, <1>2, HeldFinite

LEMMA RefsLess ==
  ASSUME ThreadTypes, NEW x \in Places, holds[x] \in Players,
         holds' = [holds EXCEPT ![x] = NULL], NEW r \in Players
  PROVE  /\ Cardinality(RefsIn(r)) \in Nat
         /\ Cardinality(RefsIn(r)') = Cardinality(RefsIn(r)) - (IF r = holds[x] THEN 1 ELSE 0)
  <1>1. RefsIn(r) = Held(holds, r) /\ RefsIn(r)' = Held(holds', r)
    BY DEF RefsIn, Held
  <1>2. Cardinality(Held(holds', r)) =
          Cardinality(Held(holds, r)) - (IF r = holds[x] THEN 1 ELSE 0)
    <2>1. holds \in [Places -> Players \union {NULL}]
      BY DEF ThreadTypes
    <2>2. Cardinality(Held([holds EXCEPT ![x] = NULL], r)) =
            Cardinality(Held(holds, r)) - (IF r = holds[x] THEN 1 ELSE 0)
      BY <2>1, OneLess
    <2> QED
      BY <2>2
  <1> QED
    BY <1>1, <1>2, HeldFinite

\* The thread holds the mutex and the field the reference it has read: the
\* player cannot have been destroyed before its count is raised.
LEMMA GetIncKeeps == ASSUME IInv, NEW t \in Threads, GetInc(t) PROVE IInv'
  <1> USE DEF IInv
  <1> DEFINE p == seen[t]
             x == <<t, Slot(t)>>
  <1>1. /\ pc[t] = "inc" /\ lock = t
        /\ p = field /\ p \in Players
    BY DEF GetInc, At, LockInv, PlayerTypes
  <1>2. Slot(t) \in {"outer", "mp"} /\ x \in Places /\ holds[x] = NULL
    BY <1>1 DEF Slot, Places, Slots, SlotInv, CallRefs
  <1>3. /\ holds' = [holds EXCEPT ![x] = p]
        /\ ref_count' = [ref_count EXCEPT ![p] = @ + 1]
        /\ pc' = [pc EXCEPT ![t] = Body(t)]
        /\ lock' = NULL
        /\ UNCHANGED <<life, field, op, seen, doomed, loop>>
    BY DEF GetInc
  <1>4. ref_count[p] > 0 /\ ref_count[p] \in Nat
    BY <1>1, ReferencedIsCounted
  <1>5. Body(t) = IF Slot(t) = "outer" THEN "take"
                  ELSE IF op[t] \in {"release", "reset"} THEN "shutdown" ELSE "use"
    BY <1>2 DEF Body
  <1>6. ThreadTypes' /\ PlayerTypes'
    BY <1>1, <1>2, <1>3, <1>5 DEF ThreadTypes, PlayerTypes
  <1>7. LockInv'
    BY <1>1, <1>3, <1>5, ThreadsAssumption DEF LockInv, ThreadTypes
  <1>8. SlotInv'
    <2>1. \A u \in Threads, s \in Slots :
            holds'[<<u, s>>] = IF u = t /\ s = Slot(t) THEN p ELSE holds[<<u, s>>]
      BY <1>2, <1>3 DEF ThreadTypes, Places
    <2>2. \A u \in Threads : pc'[u] = IF u = t THEN Body(t) ELSE pc[u]
      BY <1>3 DEF ThreadTypes
    <2>3. op' = op /\ p # NULL
      BY <1>1, <1>3, PlayersAssumption
    <2> SUFFICES ASSUME NEW u \in Threads PROVE CallRefs(u)'
      BY DEF SlotInv
    <2> QED
      BY <1>1, <1>2, <1>5, <2>1, <2>2, <2>3 DEF SlotInv, CallRefs, Slots, Slot
  <1>9. LifeInv'
    BY <1>1, <1>3, <1>4 DEF LifeInv, PlayerTypes, ThreadTypes
  <1>10. CountIsExact'
    <2> SUFFICES ASSUME NEW r \in Players
                 PROVE  ref_count'[r] = Cardinality(RefsIn(r)') + RefOfField(r)' + RefOfLoop(r)'
      BY DEF CountIsExact
    <2>1. Cardinality(RefsIn(r)') = Cardinality(RefsIn(r)) + (IF r = p THEN 1 ELSE 0)
      BY <1>1, <1>2, <1>3, RefsMore
    <2>2. Cardinality(RefsIn(r)) \in Nat
      BY <1>1, <1>2, <1>3, RefsMore
    <2>3. RefOfField(r)' = RefOfField(r) /\ RefOfLoop(r)' = RefOfLoop(r)
      BY <1>3 DEF RefOfField, RefOfLoop
    <2>4. ref_count[r] = Cardinality(RefsIn(r)) + RefOfField(r) + RefOfLoop(r)
      BY DEF CountIsExact
    <2>5. ref_count'[r] = ref_count[r] + (IF r = p THEN 1 ELSE 0)
      BY <1>1, <1>3 DEF PlayerTypes
    <2> QED
      BY <2>1, <2>2, <2>3, <2>4, <2>5 DEF RefOfField, RefOfLoop
  <1> QED
    BY <1>6, <1>7, <1>8, <1>9, <1>10

\* ijkmp_dec_ref: exactly the thread that drops the last reference destroys.
LEMMA DropRefMoves ==
  ASSUME IInv, NEW t \in Threads, NEW slot \in Slots, NEW next,
         DropRef(t, slot, next), doomed[t] = NULL
  PROVE  /\ PlayerTypes' /\ LifeInv' /\ CountIsExact'
         /\ holds' = [holds EXCEPT ![<<t, slot>>] = NULL]
         /\ doomed' \in [Threads -> Players \union {NULL}]
  <1> USE DEF IInv
  <1> DEFINE x == <<t, slot>>
             p == holds[x]
  <1>1. x \in Places /\ holds \in [Places -> Players \union {NULL}]
    BY DEF Places, ThreadTypes
  <1>2. CASE p = NULL
    <2>1. UNCHANGED <<ref_count, holds, life, doomed, field, loop>>
      BY <1>2 DEF DropRef
    <2>2. holds' = [holds EXCEPT ![x] = NULL]
      BY <1>1, <1>2, <2>1
    <2> QED
      BY <2>1, <2>2, CountKept, LifeKept DEF PlayerTypes, ThreadTypes, RefOfLoop
  <1>3. CASE p # NULL
    <2>1. /\ p \in Players
          /\ holds' = [holds EXCEPT ![x] = NULL]
          /\ ref_count' = [ref_count EXCEPT ![p] = @ - 1]
          /\ life' = IF ref_count[p] = 1 THEN [life EXCEPT ![p] = "dying"] ELSE life
          /\ doomed' = IF ref_count[p] = 1 THEN [doomed EXCEPT ![t] = p] ELSE doomed
          /\ UNCHANGED <<field, loop>>
      BY <1>1, <1>3 DEF DropRef, Last
    <2>2. ref_count[p] \in Nat /\ ref_count[p] > 0
      BY <1>1, <2>1, ReferencedIsCounted
    <2>3. PlayerTypes'
      BY <2>1, <2>2 DEF PlayerTypes
    <2>4. LifeInv'
      <3>1. life[p] = "live"
        BY <2>1, <2>2 DEF LifeInv
      <3>2. CASE ref_count[p] = 1
        <4>1. /\ life' = [life EXCEPT ![p] = "dying"]
              /\ doomed' = [doomed EXCEPT ![t] = p] /\ loop' = loop
          BY <2>1, <3>2
        <4>2. \A r \in Players : life'[r] = "live" <=> ref_count'[r] > 0
          <5> TAKE r \in Players
          <5>1. CASE r = p
            BY <2>1, <3>2, <4>1, <5>1 DEF PlayerTypes
          <5>2. CASE r # p
            BY <2>1, <4>1, <5>2 DEF LifeInv, PlayerTypes
          <5> QED
            BY <5>1, <5>2
        <4>3. \A r \in Players : loop'[r] = "destroy" => life'[r] = "dying"
          BY <2>1, <4>1 DEF LifeInv, PlayerTypes
        <4>4. \A u \in Threads : doomed[u] # p
          <5> TAKE u \in Threads
          <5>1. p # NULL
            BY <2>1, PlayersAssumption
          <5> QED
            BY <3>1, <5>1 DEF LifeInv
        <4>5. loop[p] # "destroy"
          BY <2>1, <3>1 DEF LifeInv
        <4>6. ASSUME NEW u \in Threads, doomed'[u] # NULL
              PROVE  /\ life'[doomed'[u]] = "dying"
                     /\ loop'[doomed'[u]] # "destroy"
                     /\ \A v \in Threads : doomed'[v] = doomed'[u] => v = u
          <5>1. CASE u = t
            BY <2>1, <4>1, <4>4, <4>5, <5>1 DEF PlayerTypes, ThreadTypes
          <5>2. CASE u # t
            <6>1. doomed'[u] = doomed[u] /\ doomed[u] \in Players /\ doomed[u] # p
              BY <4>1, <4>4, <4>6, <5>2 DEF ThreadTypes
            <6>2. /\ life[doomed[u]] = "dying" /\ loop[doomed[u]] # "destroy"
                  /\ \A v \in Threads : doomed[v] = doomed[u] => v = u
              BY <4>6, <6>1 DEF LifeInv
            <6> QED
              BY <2>1, <4>1, <6>1, <6>2 DEF PlayerTypes, ThreadTypes
          <5> QED
            BY <5>1, <5>2
        <4> QED
          BY <4>2, <4>3, <4>6 DEF LifeInv
      <3>3. CASE ref_count[p] # 1
        BY <2>1, <2>2, <3>1, <3>3 DEF LifeInv, PlayerTypes, ThreadTypes
      <3> QED
        BY <3>2, <3>3
    <2>5. CountIsExact'
      <3> SUFFICES ASSUME NEW r \in Players
                   PROVE  ref_count'[r] = Cardinality(RefsIn(r)') + RefOfField(r)' + RefOfLoop(r)'
        BY DEF CountIsExact
      <3>1. /\ Cardinality(RefsIn(r)) \in Nat
            /\ Cardinality(RefsIn(r)') = Cardinality(RefsIn(r)) - (IF r = p THEN 1 ELSE 0)
        BY <1>1, <2>1, RefsLess
      <3>2. RefOfField(r)' = RefOfField(r) /\ RefOfLoop(r)' = RefOfLoop(r)
        BY <2>1 DEF RefOfField, RefOfLoop
      <3>3. ref_count[r] = Cardinality(RefsIn(r)) + RefOfField(r) + RefOfLoop(r)
        BY DEF CountIsExact
      <3>4. ref_count'[r] = ref_count[r] - (IF r = p THEN 1 ELSE 0)
        BY <2>1, <2>2 DEF PlayerTypes
      <3> QED
        BY <3>1, <3>2, <3>3, <3>4 DEF RefOfField, RefOfLoop
    <2>6. doomed' \in [Threads -> Players \union {NULL}]
      BY <2>1 DEF ThreadTypes
    <2> QED
      BY <2>1, <2>3, <2>4, <2>5, <2>6
  <1> QED
    BY <1>2, <1>3

LEMMA DropKeeps ==
  ASSUME IInv, NEW t \in Threads, DropOld(t) \/ Drop(t) \/ DropOuter(t)
  PROVE  IInv'
  <1> USE DEF IInv
  <1>1. PICK slot \in Slots, next \in {"idle", "drop", "create", "drop_outer", "remove"} :
          /\ DropRef(t, slot, next) /\ doomed[t] = NULL
          /\ \/ pc[t] = "drop_old" /\ slot = "old" /\ next = "drop"
             \/ pc[t] = "drop" /\ slot = "mp" /\ next = "idle" /\ op[t] # "reset"
             \/ pc[t] = "drop" /\ slot = "mp" /\ next \in {"create", "drop_outer"}
             \/ pc[t] = "drop_outer" /\ slot = "outer" /\ next = "remove"
    BY DEF DropOld, Drop, DropOuter, At, Slots
  <1>2. /\ PlayerTypes' /\ LifeInv' /\ CountIsExact'
        /\ holds' = [holds EXCEPT ![<<t, slot>>] = NULL]
        /\ doomed' \in [Threads -> Players \union {NULL}]
    BY <1>1, DropRefMoves
  <1>3. /\ pc' = [pc EXCEPT ![t] = next]
        /\ UNCHANGED <<field, lock, op, seen>>
    BY <1>1 DEF DropRef
  <1>4. ThreadTypes'
    BY <1>2, <1>3 DEF ThreadTypes
  <1>5. LockInv'
    BY <1>1, <1>3 DEF LockInv, ThreadTypes
  <1>6. SlotInv'
    <2>1. \A u \in Threads, s \in Slots :
            holds'[<<u, s>>] = IF u = t /\ s = slot THEN NULL ELSE holds[<<u, s>>]
      BY <1>2 DEF ThreadTypes, Places
    <2>2. \A u \in Threads : pc'[u] = IF u = t THEN next ELSE pc[u]
      BY <1>3 DEF ThreadTypes
    <2> SUFFICES ASSUME NEW u \in Threads PROVE CallRefs(u)'
      BY DEF SlotInv
    <2> QED
      BY <1>1, <1>3, <2>1, <2>2 DEF SlotInv, CallRefs, Slots
  <1> QED
    BY <1>2, <1>4, <1>5, <1>6

\* The end of ijkmp_dec_ref, in a call or in the message loop.
LEMMA DestroyKeeps == ASSUME IInv, NEW t \in Threads, Destroy(t) PROVE IInv'
  <1> USE DEF IInv
  <1>1. /\ doomed[t] \in Players
        /\ life' = [life EXCEPT ![doomed[t]] = "freed"]
        /\ doomed' = [doomed EXCEPT ![t] = NULL]
        /\ UNCHANGED <<ref_count, field, lock, op, pc, seen, holds, loop>>
    BY DEF Destroy, ThreadTypes
  <1>2. ThreadTypes' /\ PlayerTypes' /\ LockInv' /\ SlotInv'
    BY <1>1 DEF ThreadTypes, PlayerTypes, LockInv, SlotInv, CallRefs
  <1>3. LifeInv'
    BY <1>1, PlayersAssumption DEF LifeInv, ThreadTypes, PlayerTypes
  <1> QED
    BY <1>1, <1>2, <1>3, CountKept DEF RefOfLoop

LEMMA LoopDestroyKeeps == ASSUME IInv, NEW p \in Players, LoopDestroy(p) PROVE IInv'
  <1> USE DEF IInv
  <1>1. /\ loop[p] = "destroy"
        /\ life' = [life EXCEPT ![p] = "freed"]
        /\ loop' = [loop EXCEPT ![p] = "exit"]
        /\ UNCHANGED <<ref_count, field, lock, op, pc, seen, holds, doomed>>
    BY DEF LoopDestroy, LoopAt
  <1>2. ThreadTypes' /\ PlayerTypes' /\ LockInv' /\ SlotInv'
    BY <1>1 DEF ThreadTypes, PlayerTypes, LockInv, SlotInv, CallRefs
  <1>3. LifeInv'
    BY <1>1 DEF LifeInv, ThreadTypes, PlayerTypes
  <1>4. \A r \in Players : RefOfLoop(r)' = RefOfLoop(r)
    BY <1>1 DEF RefOfLoop, LoopHolds, PlayerTypes
  <1> QED
    BY <1>1, <1>2, <1>3, <1>4, CountKept

\* The new message loop gets its reference from a thread that has one.
LEMMA PrepareKeeps == ASSUME IInv, NEW t \in Threads, UsePrepare(t) PROVE IInv'
  <1> USE DEF IInv
  <1> DEFINE p == holds[<<t, "mp">>]
  <1>1. /\ pc[t] = "use" /\ p \in Players /\ <<t, "mp">> \in Places
        /\ pc' = [pc EXCEPT ![t] = "drop"]
        /\ UNCHANGED <<life, field, lock, op, seen, holds, doomed>>
    BY DEF UsePrepare, At, SlotInv, CallRefs, ThreadTypes, Places, Slots
  <1>2. ThreadTypes' /\ LockInv' /\ SlotInv'
    BY <1>1 DEF ThreadTypes, LockInv, SlotInv, CallRefs
  <1>3. ref_count[p] \in Nat /\ ref_count[p] > 0
    BY <1>1, ReferencedIsCounted
  <1>4. CASE loop[p] = "none"
    <2>1. PICK l \in {"begin", "failed"} : loop' = [loop EXCEPT ![p] = l]
      BY <1>4 DEF UsePrepare
    <2>2. ref_count' = [ref_count EXCEPT ![p] = @ + 1]
      BY <1>4 DEF UsePrepare
    <2>3. PlayerTypes' /\ LifeInv'
      BY <1>1, <1>3, <1>4, <2>1, <2>2 DEF PlayerTypes, LifeInv, ThreadTypes, LoopHolds
    <2>4. CountIsExact'
      <3> SUFFICES ASSUME NEW r \in Players
                   PROVE  ref_count'[r] = Cardinality(RefsIn(r)') + RefOfField(r)' + RefOfLoop(r)'
        BY DEF CountIsExact
      <3>1. RefsIn(r)' = RefsIn(r) /\ RefOfField(r)' = RefOfField(r)
        BY <1>1 DEF RefsIn, RefOfField
      <3>2. RefOfLoop(r)' = RefOfLoop(r) + (IF r = p THEN 1 ELSE 0)
        BY <1>1, <1>4, <2>1 DEF RefOfLoop, LoopHolds, PlayerTypes
      <3>3. Cardinality(RefsIn(r)) \in Nat
        <4>1. RefsIn(r) = Held(holds, r)
          BY DEF RefsIn, Held
        <4> QED
          BY <4>1, HeldFinite
      <3>4. ref_count[r] = Cardinality(RefsIn(r)) + RefOfField(r) + RefOfLoop(r)
        BY DEF CountIsExact
      <3>5. ref_count'[r] = ref_count[r] + (IF r = p THEN 1 ELSE 0)
        BY <1>1, <2>2 DEF PlayerTypes
      <3> QED
        BY <3>1, <3>2, <3>3, <3>4, <3>5 DEF RefOfField, RefOfLoop
    <2> QED
      BY <1>2, <2>3, <2>4
  <1>5. CASE loop[p] # "none"
    <2>1. UNCHANGED <<ref_count, loop>>
      BY <1>5 DEF UsePrepare
    <2> QED
      BY <1>1, <1>2, <2>1, CountKept, LifeKept DEF PlayerTypes, RefOfLoop
  <1> QED
    BY <1>4, <1>5

\* jni_set_media_player(NULL): the reference of the field passes to old.
LEMMA ClearKeeps == ASSUME IInv, NEW t \in Threads, Clear(t) PROVE IInv'
  <1> USE DEF IInv
  <1> DEFINE x == <<t, "old">>
  <1>1. /\ pc[t] = "clear" /\ lock = NULL
        /\ x \in Places /\ holds[x] = NULL
        /\ holds' = [holds EXCEPT ![x] = field]
        /\ field' = NULL
        /\ pc' = [pc EXCEPT ![t] = "drop_old"]
        /\ UNCHANGED <<ref_count, life, lock, op, seen, doomed, loop>>
    BY DEF Clear, At, LockFree, SlotInv, CallRefs, Places, Slots
  <1>2. ThreadTypes' /\ PlayerTypes'
    BY <1>1 DEF ThreadTypes, PlayerTypes
  <1>3. LockInv'
    BY <1>1, ThreadsAssumption DEF LockInv, ThreadTypes
  <1>4. SlotInv'
    BY <1>1 DEF SlotInv, CallRefs, ThreadTypes, Places, Slots
  <1>5. LifeInv'
    BY <1>1, LifeKept
  <1>6. CountIsExact'
    <2> SUFFICES ASSUME NEW r \in Players
                 PROVE  ref_count'[r] = Cardinality(RefsIn(r)') + RefOfField(r)' + RefOfLoop(r)'
      BY DEF CountIsExact
    <2>1. /\ Cardinality(RefsIn(r)) \in Nat
          /\ Cardinality(RefsIn(r)') = Cardinality(RefsIn(r)) + (IF r = field THEN 1 ELSE 0)
      BY <1>1, RefsMore DEF PlayerTypes
    <2>2. RefOfField(r)' = 0 /\ RefOfLoop(r)' = RefOfLoop(r)
      BY <1>1, PlayersAssumption DEF RefOfField, RefOfLoop
    <2>3. ref_count[r] = Cardinality(RefsIn(r)) + RefOfField(r) + RefOfLoop(r)
      BY DEF CountIsExact
    <2> QED
      BY <1>1, <2>1, <2>2, <2>3 DEF RefOfField, RefOfLoop
  <1> QED
    BY <1>2, <1>3, <1>4, <1>5, <1>6

\* jni_set_media_player with a player: the field has a reference of its own.
LEMMA PublishKeeps == ASSUME IInv, NEW t \in Threads, Publish(t) PROVE IInv'
  <1> USE DEF IInv
  <1> DEFINE x == <<t, "old">>
             p == holds[<<t, "mp">>]
  <1>1. /\ pc[t] = "publish" /\ lock = NULL
        /\ x \in Places /\ holds[x] = NULL
        /\ <<t, "mp">> \in Places /\ p \in Players
    BY DEF Publish, At, LockFree, SlotInv, CallRefs, Places, Slots, ThreadTypes
  <1>2. /\ holds' = [holds EXCEPT ![x] = field]
        /\ ref_count' = [ref_count EXCEPT ![p] = @ + 1]
        /\ field' = p
        /\ pc' = [pc EXCEPT ![t] = "drop_old"]
        /\ UNCHANGED <<life, lock, op, seen, doomed, loop>>
    BY DEF Publish
  <1>3. ref_count[p] \in Nat /\ ref_count[p] > 0
    BY <1>1, ReferencedIsCounted
  <1>4. ThreadTypes' /\ PlayerTypes'
    BY <1>1, <1>2 DEF ThreadTypes, PlayerTypes
  <1>5. LockInv'
    BY <1>1, <1>2, ThreadsAssumption DEF LockInv, ThreadTypes
  <1>6. SlotInv'
    BY <1>1, <1>2 DEF SlotInv, CallRefs, ThreadTypes, Places, Slots
  <1>7. LifeInv'
    BY <1>1, <1>2, <1>3 DEF LifeInv, PlayerTypes, ThreadTypes
  <1>8. CountIsExact'
    <2> SUFFICES ASSUME NEW r \in Players
                 PROVE  ref_count'[r] = Cardinality(RefsIn(r)') + RefOfField(r)' + RefOfLoop(r)'
      BY DEF CountIsExact
    <2>1. /\ Cardinality(RefsIn(r)) \in Nat
          /\ Cardinality(RefsIn(r)') = Cardinality(RefsIn(r)) + (IF r = field THEN 1 ELSE 0)
      BY <1>1, <1>2, RefsMore DEF PlayerTypes
    <2>2. RefOfField(r)' = (IF r = p THEN 1 ELSE 0) /\ RefOfLoop(r)' = RefOfLoop(r)
      BY <1>2 DEF RefOfField, RefOfLoop
    <2>3. ref_count[r] = Cardinality(RefsIn(r)) + RefOfField(r) + RefOfLoop(r)
      BY DEF CountIsExact
    <2>4. ref_count'[r] = ref_count[r] + (IF r = p THEN 1 ELSE 0)
      BY <1>1, <1>2 DEF PlayerTypes
    <2> QED
      BY <2>1, <2>2, <2>3, <2>4 DEF RefOfField, RefOfLoop
  <1> QED
    BY <1>4, <1>5, <1>6, <1>7, <1>8

\* A player that did not exist had no reference, and starts with one.
LEMMA CreateKeeps == ASSUME IInv, NEW t \in Threads, Create(t) PROVE IInv'
  <1> USE DEF IInv
  <1> DEFINE x == <<t, "mp">>
  <1>1. /\ pc[t] = "create" /\ x \in Places /\ holds[x] = NULL
        /\ UNCHANGED <<field, lock, op, seen, doomed, loop>>
    BY DEF Create, At, SlotInv, CallRefs, Places, Slots
  <1>2. CASE /\ pc' = [pc EXCEPT ![t] = "drop_outer"]
             /\ UNCHANGED <<ref_count, life, holds>>
    <2>1. ThreadTypes' /\ PlayerTypes' /\ LockInv' /\ SlotInv'
      BY <1>1, <1>2 DEF ThreadTypes, PlayerTypes, LockInv, SlotInv, CallRefs
    <2> QED
      BY <1>1, <1>2, <2>1, CountKept, LifeKept DEF RefOfLoop
  <1>3. ASSUME NEW p \in Players,
               /\ life[p] = "unborn"
               /\ life' = [life EXCEPT ![p] = "live"]
               /\ ref_count' = [ref_count EXCEPT ![p] = 1]
               /\ holds' = [holds EXCEPT ![x] = p]
               /\ pc' = [pc EXCEPT ![t] = "publish"]
        PROVE  IInv'
    <2>1. ref_count[p] = 0
      BY <1>3, ReferencedIsCounted DEF LifeInv
    <2>2. ThreadTypes' /\ PlayerTypes'
      BY <1>1, <1>3 DEF ThreadTypes, PlayerTypes
    <2>3. LockInv'
      BY <1>1, <1>3 DEF LockInv, ThreadTypes
    <2>4. SlotInv'
      BY <1>1, <1>3, PlayersAssumption DEF SlotInv, CallRefs, ThreadTypes, Places, Slots
    <2>5. LifeInv'
      BY <1>1, <1>3 DEF LifeInv, PlayerTypes, ThreadTypes
    <2>6. CountIsExact'
      <3> SUFFICES ASSUME NEW r \in Players
                   PROVE  ref_count'[r] = Cardinality(RefsIn(r)') + RefOfField(r)' + RefOfLoop(r)'
        BY DEF CountIsExact
      <3>1. /\ Cardinality(RefsIn(r)) \in Nat
            /\ Cardinality(RefsIn(r)') = Cardinality(RefsIn(r)) + (IF r = p THEN 1 ELSE 0)
        BY <1>1, <1>3, RefsMore
      <3>2. RefOfField(r)' = RefOfField(r) /\ RefOfLoop(r)' = RefOfLoop(r)
        BY <1>1 DEF RefOfField, RefOfLoop
      <3>3. ref_count[r] = Cardinality(RefsIn(r)) + RefOfField(r) + RefOfLoop(r)
        BY DEF CountIsExact
      <3>4. ref_count'[r] = ref_count[r] + (IF r = p THEN 1 ELSE 0)
        BY <1>3, <2>1 DEF PlayerTypes
      <3> QED
        BY <3>1, <3>2, <3>3, <3>4 DEF RefOfField, RefOfLoop
    <2> QED
      BY <2>2, <2>3, <2>4, <2>5, <2>6
  <1> QED
    BY <1>2, <1>3 DEF Create

\* The message loop drops its reference, and destroys the player if it is last.
LEMMA LoopLeaves == ASSUME IInv, NEW p \in Players, LoopDrop(p) PROVE IInv'
  <1> USE DEF IInv
  <1>1. /\ loop[p] = "drop"
        /\ ref_count' = [ref_count EXCEPT ![p] = @ - 1]
        /\ life' = IF ref_count[p] = 1 THEN [life EXCEPT ![p] = "dying"] ELSE life
        /\ loop' = [loop EXCEPT ![p] = IF ref_count[p] = 1 THEN "destroy" ELSE "exit"]
        /\ UNCHANGED <<field, lock, op, pc, seen, holds, doomed>>
    BY DEF LoopDrop, LoopAt, Last
  <1>2. ref_count[p] \in Nat /\ ref_count[p] > 0 /\ life[p] = "live"
    BY <1>1, ReferencedIsCounted DEF LoopHolds, LifeInv
  <1>3. ThreadTypes' /\ LockInv' /\ SlotInv'
    BY <1>1 DEF ThreadTypes, LockInv, SlotInv, CallRefs
  <1>4. PlayerTypes'
    BY <1>1, <1>2 DEF PlayerTypes
  <1>5. LifeInv'
    <2>1. CASE ref_count[p] = 1
      BY <1>1, <1>2, <2>1 DEF LifeInv, PlayerTypes, ThreadTypes
    <2>2. CASE ref_count[p] # 1
      BY <1>1, <1>2, <2>2 DEF LifeInv, PlayerTypes, ThreadTypes
    <2> QED
      BY <2>1, <2>2
  <1>6. CountIsExact'
    <2> SUFFICES ASSUME NEW r \in Players
                 PROVE  ref_count'[r] = Cardinality(RefsIn(r)') + RefOfField(r)' + RefOfLoop(r)'
      BY DEF CountIsExact
    <2>1. RefsIn(r)' = RefsIn(r) /\ RefOfField(r)' = RefOfField(r)
      BY <1>1 DEF RefsIn, RefOfField
    <2>2. RefOfLoop(r)' = RefOfLoop(r) - (IF r = p THEN 1 ELSE 0)
      BY <1>1 DEF RefOfLoop, LoopHolds, PlayerTypes
    <2>3. Cardinality(RefsIn(r)) \in Nat
      <3>1. RefsIn(r) = Held(holds, r)
        BY DEF RefsIn, Held
      <3> QED
        BY <3>1, HeldFinite
    <2>4. ref_count[r] = Cardinality(RefsIn(r)) + RefOfField(r) + RefOfLoop(r)
      BY DEF CountIsExact
    <2>5. ref_count'[r] = ref_count[r] - (IF r = p THEN 1 ELSE 0)
      BY <1>1, <1>2 DEF PlayerTypes
    <2> QED
      BY <2>1, <2>2, <2>3, <2>4, <2>5 DEF RefOfField, RefOfLoop
  <1> QED
    BY <1>3, <1>4, <1>5, <1>6

-----------------------------------------------------------------------------
(* The invariant.                                                          *)

LEMMA InitIInv == Init => IInv
  <1> SUFFICES ASSUME Init PROVE IInv
    OBVIOUS
  <1>1. ThreadTypes /\ PlayerTypes /\ LockInv
    BY ThreadsAssumption, PlayersAssumption DEF Init, ThreadTypes, PlayerTypes, LockInv
  <1>2. SlotInv
    BY DEF Init, SlotInv, CallRefs, Places, Slots
  <1>3. LifeInv
    BY DEF Init, LifeInv
  <1>4. CountIsExact
    <2> SUFFICES ASSUME NEW r \in Players
                 PROVE  ref_count[r] = Cardinality(RefsIn(r)) + RefOfField(r) + RefOfLoop(r)
      BY DEF CountIsExact
    <2>1. RefsIn(r) = {}
      BY PlayersAssumption DEF Init, RefsIn
    <2>2. RefOfField(r) = (IF r = First THEN 1 ELSE 0) /\ RefOfLoop(r) = 0
      BY DEF Init, RefOfField, RefOfLoop, LoopHolds
    <2> QED
      BY <2>1, <2>2, FS_EmptySet DEF Init
  <1> QED
    BY <1>1, <1>2, <1>3, <1>4 DEF IInv

LEMMA NextIInv == IInv /\ [Next]_vars => IInv'
  <1> SUFFICES ASSUME IInv, [Next]_vars PROVE IInv'
    OBVIOUS
  <1>1. ASSUME NEW t \in Threads,
               Step(t) \/ \E call \in {"call"} \union Lifecycle : Begin(t, call)
        PROVE  IInv'
    BY <1>1, CallKeeps, GetIncKeeps, DropKeeps, DestroyKeeps, PrepareKeeps, ClearKeeps,
       CreateKeeps, PublishKeeps
    DEF Step
  <1>2. ASSUME NEW p \in Players, MessageLoop(p) PROVE IInv'
    BY <1>2, LoopKeeps, LoopLeaves, LoopDestroyKeeps DEF MessageLoop
  <1>3. CASE HandleMessage \/ Resting \/ UNCHANGED vars
    <2>1. UNCHANGED <<ref_count, life, field, lock, op, pc, seen, holds, doomed, loop>>
      BY <1>3 DEF HandleMessage, Resting, vars
    <2>2. ThreadTypes' /\ PlayerTypes' /\ LockInv' /\ SlotInv'
      BY <2>1 DEF IInv, ThreadTypes, PlayerTypes, LockInv, SlotInv, CallRefs
    <2> QED
      BY <2>1, <2>2, CountKept, LifeKept DEF IInv, RefOfLoop
  <1> QED
    BY <1>1, <1>2, <1>3 DEF Next

LEMMA Invariance == Spec => []IInv
  <1> QED
    BY InitIInv, NextIInv, PTL DEF Spec

LEMMA NextEventTypes == EventTypes /\ [Next]_vars => EventTypes'
  <1> SUFFICES ASSUME EventTypes, [Next]_vars PROVE EventTypes'
    OBVIOUS
  <1> USE DEF EventTypes
  <1>1. ASSUME NEW t \in Threads, Step(t) PROVE EventTypes'
    <2>1. CASE GetNull(t) \/ GetRead(t) \/ GetInc(t) \/ DropOld(t) \/ Drop(t) \/ DropOuter(t)
               \/ Destroy(t) \/ UseCall(t) \/ UsePrepare(t) \/ Clear(t) \/ Create(t)
      BY <2>1 DEF GetNull, GetRead, GetInc, DropOld, Drop, DropOuter, DropRef, Destroy,
                  UseCall, UsePrepare, Clear, Create
    <2>2. CASE UseStop(t) \/ Shutdown(t)
      <3>1. aborted' \in [Players -> BOOLEAN]
        BY <2>2 DEF UseStop, Shutdown
      <3> QED
        BY <2>2, <3>1 DEF UseStop, Shutdown
    <2>3. CASE Take(t) \/ DeleteWeak(t) \/ Publish(t)
      BY <2>3 DEF Take, DeleteWeak, Publish
    <2>4. CASE RemoveMessages(t)
      BY <2>4 DEF RemoveMessages
    <2> QED
      BY <1>1, <2>1, <2>2, <2>3, <2>4 DEF Step
  <1>2. ASSUME NEW t \in Threads, NEW call \in {"call"} \union Lifecycle, Begin(t, call)
        PROVE  EventTypes'
    <2>1. listening' \in BOOLEAN
      BY <1>2 DEF Begin
    <2>2. UNCHANGED <<aborted, weak, posted, posts>> /\ calls' \in Nat
      BY <1>2 DEF Begin
    <2> QED
      BY <2>1, <2>2
  <1>3. ASSUME NEW p \in Players, MessageLoop(p) PROVE EventTypes'
    <2>1. CASE LoopBegin(p) \/ LoopAborted(p) \/ LoopDrop(p) \/ LoopDestroy(p) \/ LoopExit(p)
      BY <2>1 DEF LoopBegin, LoopAborted, LoopDrop, LoopDestroy, LoopExit
    <2>2. CASE LoopGet(p)
      BY <2>2 DEF LoopGet
    <2>3. CASE LoopPost(p)
      <3>1. posted' \in Seq(Players)
        BY <2>3 DEF LoopPost
      <3> QED
        BY <2>3, <3>1 DEF LoopPost
    <2> QED
      BY <1>3, <2>1, <2>2, <2>3 DEF MessageLoop
  <1>4. CASE HandleMessage
    <2>1. posted' \in Seq(Players)
      BY <1>4 DEF HandleMessage
    <2> QED
      BY <1>4, <2>1 DEF HandleMessage
  <1>5. CASE Resting \/ UNCHANGED vars
    BY <1>5 DEF Resting, vars
  <1> QED
    BY <1>1, <1>2, <1>3, <1>4, <1>5 DEF Next

LEMMA EventInvariance == Spec => []EventTypes
  <1>1. Init => EventTypes
    BY DEF Init, EventTypes
  <1> QED
    BY <1>1, NextEventTypes, PTL DEF Spec

-----------------------------------------------------------------------------

\* Every variable keeps its type, the calls and loops their places.
THEOREM TypeCorrect == Spec => []TypeOK
  <1>1. IInv /\ EventTypes => TypeOK
    BY DEF IInv, TypeOK
  <1> QED
    BY <1>1, Invariance, EventInvariance, PTL

\* ref_count is the number of references at every moment, in a call, in the
\* field and in the message loop: each atomic add or subtract goes with one.
THEOREM CountsReferences == Spec => []CountIsExact
  <1>1. IInv => CountIsExact
    BY DEF IInv
  <1> QED
    BY <1>1, Invariance, PTL

\* Whatever threads call while the player is released or reset, nobody works on a
\* player that ijkmp_dec_ref has begun to destroy (jni_get_media_player).
THEOREM NoUseAfterRelease == Spec => []UsedIsLive
  <1>1. ASSUME IInv PROVE UsedIsLive
    <2> USE <1>1 DEF IInv
    <2>1. ASSUME NEW p \in Players, ref_count[p] > 0 PROVE life[p] = "live"
      BY <2>1 DEF LifeInv
    <2>2. ASSUME NEW x \in Places, holds[x] # NULL PROVE life[holds[x]] = "live"
      <3>1. holds[x] \in Players
        BY <2>2 DEF ThreadTypes
      <3> QED
        BY <3>1, <2>1, ReferencedIsCounted
    <2>3. field # NULL => life[field] = "live"
      BY <2>1, ReferencedIsCounted DEF PlayerTypes
    <2>4. \A t \in Threads : pc[t] = "inc" => life[seen[t]] = "live"
      BY <2>3 DEF LockInv
    <2>5. \A p \in Players : loop[p] \in LoopHolds => life[p] = "live"
      BY <2>1, ReferencedIsCounted
    <2> QED
      BY <2>2, <2>3, <2>4, <2>5 DEF UsedIsLive
  <1> QED
    BY <1>1, Invariance, PTL

\* Two threads that drop references at once, or a thread and the message loop,
\* do not both shut down and free the player (ijkmp_dec_ref).
THEOREM OneDestroys == Spec => []DestroyedOnce
  <1>1. ASSUME IInv PROVE DestroyedOnce
    <2> SUFFICES ASSUME NEW p \in Players
                 PROVE  /\ Destroying(p) # {} \/ loop[p] = "destroy" => life[p] = "dying"
                        /\ Cardinality(Destroying(p)) <= IF loop[p] = "destroy" THEN 0 ELSE 1
      BY DEF DestroyedOnce
    <2> USE <1>1, PlayersAssumption DEF IInv, LifeInv, Destroying
    <2>1. Destroying(p) # {} \/ loop[p] = "destroy" => life[p] = "dying"
      OBVIOUS
    <2>2. CASE Destroying(p) = {}
      BY <2>1, <2>2, FS_EmptySet
    <2>3. CASE Destroying(p) # {}
      <3>1. PICK t \in Threads : doomed[t] = p
        BY <2>3
      <3>2. Destroying(p) = {t} /\ loop[p] # "destroy"
        BY <3>1
      <3>3. Cardinality(Destroying(p)) = 1
        BY <3>2, FS_Singleton
      <3> QED
        BY <2>1, <3>2, <3>3
    <2> QED
      BY <2>2, <2>3
  <1> QED
    BY <1>1, Invariance, PTL

=============================================================================
