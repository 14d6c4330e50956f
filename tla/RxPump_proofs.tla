--------------------------- MODULE RxPump_proofs ---------------------------
(***************************************************************************)
(* Proofs about RxPump for any buses, threads and capacities: types and    *)
(* bounds, exact accounting of every frame, per-thread order, fair shares,  *)
(* and which frame is discarded at a full queue.                            *)
(***************************************************************************)
EXTENDS RxPump, FiniteSetTheorems, TLAPS

(* The first share of a pump is a positive number of frames. *)
LEMMA ShareType == Order # <<>> => Share \in Nat \ {0}
<1>1. ASSUME Order # <<>> PROVE Len(Order) \in Nat \ {0}
  BY <1>1, BusAssumption
<1>2. ASSUME Order # <<>> PROVE BatchMax \div Len(Order) \in Nat
  BY <1>1, <1>2, BoundAssumption
<1> QED BY <1>1, <1>2 DEF Share

(* The initial state is well typed. *)
LEMMA InitType == Init => TypeOK
BY BoundAssumption, ThreadAssumption, NoFrameAssumption DEF Init, TypeOK, Labels, Frame

(* What a thread that is enqueueing holds. *)
LEMMA HeldFrame ==
  ASSUME TypeOK, NEW t \in Threads, pc[t] # "idle"
  PROVE  /\ held[t] \in Frame
         /\ held[t].bus \in Buses
         /\ held[t].thread \in Threads
         /\ held[t].n \in Nat
<1>1. held[t] \in Frame BY DEF TypeOK
<1> QED BY <1>1 DEF Frame

(* Stamping a frame preserves the types. *)
LEMMA StampType ==
  ASSUME TypeOK, NEW t \in Threads, NEW b \in Buses, Stamp(t, b)
  PROVE  TypeOK'
<1> DEFINE f == [bus |-> b, thread |-> t, n |-> made[t] + 1]
<1>0. made[t] + 1 \in Nat BY DEF TypeOK
<1>1. f \in Frame BY <1>0 DEF Frame
<1>2. f # NoFrame BY <1>1, NoFrameAssumption
<1>3. /\ held' = [held EXCEPT ![t] = f]
      /\ pc' = [pc EXCEPT ![t] = "check"]
      /\ made' = [made EXCEPT ![t] = @ + 1]
      /\ stamped' = [stamped EXCEPT ![b] = @ + 1]
      /\ UNCHANGED <<queue, dropped, overtaken, phase, at, quota, batch, sawEmpty, taken, lastTaken>>
  BY DEF Stamp, GoTo, drainVars
<1>4. /\ held' \in [Threads -> Frame \cup {NoFrame}]
      /\ pc' \in [Threads -> Labels]
      /\ made' \in [Threads -> Nat]
      /\ stamped' \in [Buses -> Nat]
  BY <1>1, <1>3 DEF TypeOK, Labels
<1>5. \A u \in Threads : (pc'[u] = "idle") <=> (held'[u] = NoFrame)
  BY <1>2, <1>3 DEF TypeOK
<1> QED BY <1>3, <1>4, <1>5 DEF TypeOK

(* Each step of _enqueue preserves the types. *)
LEMMA EnqueueType ==
  ASSUME TypeOK, NEW t \in Threads, Enqueue(t)
  PROVE  TypeOK'
<1> USE DEF GoTo, Return, Looks, drainVars, Labels
<1>0. pc[t] # "idle" BY DEF Enqueue, CheckFull, Evict, EvictFindsEmpty, CountEvicted,
                             Put, PutFindsFull, CountRejected
<1>h. held[t] \in Frame /\ held[t].bus \in Buses BY <1>0, HeldFrame
<1>1. CASE CheckFull(t) BY <1>1, <1>0 DEF CheckFull, TypeOK
<1>2. CASE Evict(t)
  <2> DEFINE b == held[t].bus
  <2>1. /\ queue[b] \in Seq(Frame)
        /\ queue[b] # <<>>
        /\ Len(queue[b]) <= Capacity
    BY <1>2, <1>h DEF Evict, TypeOK
  <2>2. /\ Tail(queue[b]) \in Seq(Frame)
        /\ Len(Tail(queue[b])) = Len(queue[b]) - 1
        /\ Len(queue[b]) \in Nat
    BY <2>1
  <2>3. queue' = [queue EXCEPT ![b] = Tail(@)] BY <1>2 DEF Evict
  <2>4. /\ queue' \in [Buses -> Seq(Frame)]
        /\ \A c \in Buses : Len(queue'[c]) <= Capacity
    <3> HIDE DEF b
    <3>1. b \in Buses /\ queue \in [Buses -> Seq(Frame)] BY <1>h DEF TypeOK, b
    <3>2. queue' \in [Buses -> Seq(Frame)] BY <2>2, <2>3, <3>1
    <3>3. ASSUME NEW c \in Buses PROVE Len(queue'[c]) <= Capacity
      <4>1. Len(queue[c]) <= Capacity BY DEF TypeOK
      <4>2. CASE c = b BY <4>2, <2>1, <2>2, <2>3, <3>1, BoundAssumption
      <4>3. CASE c # b BY <4>1, <4>3, <2>3, <3>1
      <4> QED BY <4>2, <4>3
    <3> QED BY <3>2, <3>3
  <2> QED BY <1>2, <2>4, <1>0 DEF Evict, TypeOK
<1>3. CASE EvictFindsEmpty(t) BY <1>3, <1>0 DEF EvictFindsEmpty, TypeOK
<1>4. CASE CountEvicted(t) BY <1>4, <1>0, <1>h, SMTT(30) DEF CountEvicted, TypeOK
<1>5. CASE Put(t)
  <2> DEFINE b == held[t].bus
  <2>1. /\ queue[b] \in Seq(Frame)
        /\ Len(queue[b]) < Capacity
    BY <1>5, <1>h DEF Put, TypeOK
  <2>2. /\ Append(queue[b], held[t]) \in Seq(Frame)
        /\ Len(Append(queue[b], held[t])) = Len(queue[b]) + 1
        /\ Len(queue[b]) \in Nat
    BY <2>1, <1>h
  <2>3. queue' = [queue EXCEPT ![b] = Append(@, held[t])] BY <1>5 DEF Put
  <2>4. /\ queue' \in [Buses -> Seq(Frame)]
        /\ \A c \in Buses : Len(queue'[c]) <= Capacity
    BY <2>1, <2>2, <2>3, <1>h, BoundAssumption, SMTT(30) DEF TypeOK
  <2>5. overtaken' \subseteq Threads BY <1>5 DEF Put, Enqueueing, TypeOK
  <2> QED BY <1>5, <2>4, <2>5, NoFrameAssumption DEF Put, TypeOK
<1>6. CASE PutFindsFull(t) BY <1>6, <1>0 DEF PutFindsFull, TypeOK
<1>7. CASE CountRejected(t) BY <1>7, <1>h, NoFrameAssumption, SMTT(30) DEF CountRejected, TypeOK
<1> QED BY <1>1, <1>2, <1>3, <1>4, <1>5, <1>6, <1>7 DEF Enqueue

(* What TakeFrame and the other drain steps need to know of the pump reached. *)
LEMMA CurrentPump ==
  ASSUME TypeOK, phase \in {"first", "second"}
  PROVE  Order[at] \in Buses
<1>1. at \in 1..Len(Order) BY BusAssumption DEF TypeOK
<1> QED BY <1>1, BusAssumption

(* Taking a frame preserves the types. *)
LEMMA TakeType ==
  ASSUME TypeOK, TakeFrame
  PROVE  TypeOK'
<1> DEFINE b == Order[at]
           f == Head(queue[b])
<1>1. phase \in {"first", "second"} BY DEF TakeFrame
<1>2. b \in Buses BY <1>1, CurrentPump
<1>3. /\ queue[b] \in Seq(Frame)
      /\ queue[b] # <<>>
      /\ Len(queue[b]) <= Capacity
      /\ quota > 0
      /\ queue' = [queue EXCEPT ![b] = Tail(@)]
      /\ batch' = Append(batch, f)
      /\ quota' = quota - 1
      /\ taken' = [taken EXCEPT ![b] = @ + 1]
      /\ lastTaken' = [lastTaken EXCEPT ![b][f.thread] = f.n]
      /\ UNCHANGED <<dropped, pc, held, made, overtaken, phase, at, sawEmpty, stamped>>
  BY <1>2 DEF TakeFrame, TypeOK, enqueueVars
<1>4. /\ f \in Frame
      /\ Tail(queue[b]) \in Seq(Frame)
      /\ Len(Tail(queue[b])) = Len(queue[b]) - 1
      /\ Len(queue[b]) \in Nat
  BY <1>3
<1>5. f.thread \in Threads /\ f.n \in Nat BY <1>4 DEF Frame
<1> HIDE DEF b, f
<1>6. queue' \in [Buses -> Seq(Frame)] BY <1>2, <1>3, <1>4 DEF TypeOK
<1>7. ASSUME NEW c \in Buses PROVE Len(queue'[c]) <= Capacity
  <2>1. Len(queue[c]) <= Capacity /\ queue \in [Buses -> Seq(Frame)] BY DEF TypeOK
  <2>2. CASE c = b BY <2>1, <2>2, <1>2, <1>3, <1>4, BoundAssumption
  <2>3. CASE c # b BY <2>1, <2>3, <1>2, <1>3
  <2> QED BY <2>2, <2>3
<1>8. batch' \in Seq(Frame) /\ Len(batch') = Len(batch) + 1 /\ Len(batch) \in Nat
  BY <1>3, <1>4 DEF TypeOK
<1>9. quota' \in Nat /\ Len(batch') + quota' <= BatchMax
  BY <1>3, <1>8, BoundAssumption DEF TypeOK
<1>10. taken' \in [Buses -> Nat] BY <1>2, <1>3 DEF TypeOK
<1>11. lastTaken' \in [Buses -> [Threads -> Nat]] BY <1>2, <1>3, <1>5 DEF TypeOK
<1> QED BY <1>1, <1>3, <1>6, <1>7, <1>8, <1>9, <1>10, <1>11 DEF TypeOK

(* Ending a pump's share grows only the set of queues seen empty. *)
LEMMA PumpDoneType ==
  ASSUME TypeOK, PumpDone
  PROVE  /\ sawEmpty' \subseteq Buses
         /\ phase \in {"first", "second"}
         /\ Len(batch) \in Nat
         /\ UNCHANGED <<queue, dropped, pc, held, made, overtaken, batch, stamped, taken, lastTaken>>
<1>1. phase \in {"first", "second"} BY DEF PumpDone
<1>2. Order[at] \in Buses BY <1>1, CurrentPump
<1> QED BY <1>1, <1>2 DEF PumpDone, TypeOK, enqueueVars

(* Each step of the drain preserves the types. *)
LEMMA DrainType ==
  ASSUME TypeOK, Drain
  PROVE  TypeOK'
<1>l. Len(Order) \in Nat BY BusAssumption
<1>1. CASE StartDrain
  <2>1. Order # <<>> /\ phase = "idle" /\ batch = <<>> BY <1>1 DEF StartDrain, TypeOK
  <2>2. Len(Order) >= 1 /\ Len(batch) = 0 BY <2>1, <1>l, BusAssumption
  <2>3. Share \in Nat BY <2>1, ShareType
  <2>4. quota' \in Nat /\ Len(batch) + quota' <= BatchMax
    BY <1>1, <2>2, <2>3, BoundAssumption DEF StartDrain, Lesser
  <2> QED BY <1>1, <2>1, <2>2, <2>4 DEF StartDrain, TypeOK, enqueueVars
<1>2. CASE TakeFrame BY <1>2, TakeType
<1>3. CASE NextPump
  <2>1. PumpDone BY <1>3 DEF NextPump
  <2>2. Order # <<>> BY <1>3, <1>l, BusAssumption DEF NextPump, TypeOK
  <2>3. Share \in Nat BY <2>2, ShareType
  <2>4. Len(batch) \in Nat BY <2>1, PumpDoneType
  <2>5. quota' \in Nat /\ Len(batch) + quota' <= BatchMax
    BY <1>3, <2>3, <2>4, BoundAssumption DEF NextPump, Lesser, Room
  <2>6. at' \in Nat \ {0} /\ at' <= Len(Order) BY <1>3, <1>l DEF NextPump, TypeOK
  <2> QED BY <1>3, <2>1, <2>5, <2>6, PumpDoneType DEF NextPump, TypeOK
<1>4. CASE SecondPass
  <2>1. PumpDone BY <1>4 DEF SecondPass
  <2>2. Len(batch) \in Nat BY <2>1, PumpDoneType
  <2>3. quota' \in Nat /\ Len(batch) + quota' <= BatchMax
    BY <1>4, <2>2, BoundAssumption DEF SecondPass, Room
  <2>4. at' \in Nat \ {0} /\ at' <= Len(Order) BY <1>4, <1>l DEF SecondPass, TypeOK
  <2> QED BY <1>4, <2>1, <2>3, <2>4, PumpDoneType DEF SecondPass, TypeOK
<1>5. CASE DrainDone
  <2>1. PumpDone BY <1>5 DEF DrainDone
  <2>2. Len(batch) \in Nat /\ Len(batch) <= BatchMax BY <2>1, PumpDoneType, BoundAssumption DEF TypeOK
  <2> QED BY <1>5, <2>1, <2>2, PumpDoneType DEF DrainDone, TypeOK
<1>6. CASE BatchSent
  <2>1. Len(<<>>) = 0 /\ <<>> \in Seq(Frame) OBVIOUS
  <2>2. quota <= BatchMax /\ quota \in Nat BY BoundAssumption DEF TypeOK
  <2> QED BY <1>6, <2>1, <2>2 DEF BatchSent, TypeOK, enqueueVars
<1> QED BY <1>1, <1>2, <1>3, <1>4, <1>5, <1>6 DEF Drain

(* Queues and batches keep their bounds and every variable its type, for any  *)
(* number of buses and threads and any capacities.                            *)
THEOREM TypeCorrect == Spec => []TypeOK
<1>1. Init => TypeOK BY InitType
<1>2. TypeOK /\ [Next]_vars => TypeOK'
  <2> SUFFICES ASSUME TypeOK, [Next]_vars PROVE TypeOK'
    OBVIOUS
  <2>1. ASSUME NEW t \in Threads, NEW b \in Buses, Stamp(t, b) PROVE TypeOK'
    BY <2>1, StampType
  <2>2. ASSUME NEW t \in Threads, Enqueue(t) PROVE TypeOK'
    BY <2>2, EnqueueType
  <2>3. CASE Drain BY <2>3, DrainType
  <2>4. CASE UNCHANGED vars BY <2>4 DEF vars, TypeOK
  <2> QED BY <2>1, <2>2, <2>3, <2>4 DEF Next
<1> QED BY <1>1, <1>2, PTL DEF Spec

-----------------------------------------------------------------------------
(* Which frame is discarded at a full queue *)

(* A thread that has found or made room in its queue still has it, unless     *)
(* another's frame was put since: the drain can only make more.               *)
RoomKept ==
    \A t \in Threads \ overtaken :
        /\ pc[t] \in {"count_evicted", "put"} => Len(queue[held[t].bus]) < Capacity
        /\ pc[t] # "count_rejected"

(* Each step of _enqueue keeps the room of every producer it does not overtake. *)
LEMMA RoomKeptEnqueue ==
  ASSUME TypeOK, RoomKept, NEW t \in Threads, Enqueue(t)
  PROVE  RoomKept'
<1> USE DEF GoTo, Return, Looks, drainVars
<1> DEFINE b == held[t].bus
<1>0. pc[t] # "idle" BY DEF Enqueue, CheckFull, Evict, EvictFindsEmpty, CountEvicted,
                             Put, PutFindsFull, CountRejected
<1>h. held[t] \in Frame /\ b \in Buses BY <1>0, HeldFrame
<1>q. queue[b] \in Seq(Frame) /\ Len(queue[b]) \in Nat /\ Len(queue[b]) <= Capacity
  BY <1>h DEF TypeOK
<1>1. ASSUME queue' = queue, held' = held, pc' = [pc EXCEPT ![t] = pc'[t]],
             overtaken \subseteq overtaken' \cup {t},
             \/ t \in overtaken'
             \/ pc'[t] = "evict"
             \/ pc'[t] = "put" /\ Len(queue[b]) < Capacity
      PROVE  RoomKept'
  BY <1>1 DEF RoomKept, TypeOK
<1>2. CASE CheckFull(t)
  <2>1. pc'[t] \in {"evict", "put"} /\ pc' = [pc EXCEPT ![t] = pc'[t]]
    BY <1>2 DEF CheckFull, TypeOK
  <2>2. pc'[t] = "put" => Len(queue[b]) < Capacity
    BY <1>2, <1>q, BoundAssumption DEF CheckFull, TypeOK
  <2>3. queue' = queue /\ held' = held /\ overtaken' = overtaken \ {t}
    BY <1>2 DEF CheckFull
  <2>4. overtaken \subseteq overtaken' \cup {t} BY <2>3
  <2> QED BY <1>1, <2>1, <2>2, <2>3, <2>4
<1>3. CASE Evict(t)
  <2>1. Len(Tail(queue[b])) = Len(queue[b]) - 1 BY <1>3, <1>q DEF Evict
  <2>2. queue' = [queue EXCEPT ![b] = Tail(@)] /\ held' = held
        /\ pc' = [pc EXCEPT ![t] = "count_evicted"] /\ overtaken' = overtaken \ {t}
    BY <1>3 DEF Evict
  <2>3. Len(queue'[b]) < Capacity /\ Len(queue'[b]) <= Len(queue[b])
    BY <2>1, <2>2, <1>q, <1>h, BoundAssumption DEF TypeOK
  <2>4. \A c : c # b => queue'[c] = queue[c] BY <2>2 DEF TypeOK
  <2> QED BY <2>2, <2>3, <2>4 DEF RoomKept, TypeOK
<1>4. CASE EvictFindsEmpty(t)
  <2>1. Len(queue[b]) < Capacity BY <1>4, BoundAssumption DEF EvictFindsEmpty
  <2> QED BY <1>1, <1>4, <2>1 DEF EvictFindsEmpty, TypeOK
<1>5. CASE CountEvicted(t)
  <2>1. t \in overtaken \/ Len(queue[b]) < Capacity BY <1>5 DEF CountEvicted, RoomKept
  <2>2. queue' = queue /\ held' = held /\ overtaken' = overtaken
        /\ pc' = [pc EXCEPT ![t] = "put"] /\ pc'[t] = "put"
    BY <1>5 DEF CountEvicted, TypeOK
  <2>3. pc' = [pc EXCEPT ![t] = pc'[t]] BY <2>2
  <2> QED BY <1>1, <2>1, <2>2, <2>3
<1>6. CASE Put(t)
  <2>1. queue' = [queue EXCEPT ![b] = Append(@, held[t])]
        /\ pc' = [pc EXCEPT ![t] = "idle"]
        /\ held' = [held EXCEPT ![t] = NoFrame]
        /\ overtaken' = (overtaken \cup Enqueueing(b)) \ {t}
    BY <1>6 DEF Put
  <2>2. ASSUME NEW u \in Threads \ overtaken', u # t, pc[u] # "idle"
        PROVE  u \notin overtaken /\ held[u].bus # b
    BY <2>1, <2>2 DEF Enqueueing
  <2>3. \A u \in Threads \ overtaken' :
           u # t /\ pc[u] # "idle" => queue'[held[u].bus] = queue[held[u].bus]
    BY <2>1, <2>2
  <2> QED BY <2>1, <2>2, <2>3 DEF RoomKept, TypeOK
<1>7. CASE PutFindsFull(t)
  <2>1. t \in overtaken BY <1>7, <1>q, BoundAssumption DEF PutFindsFull, RoomKept
  <2>2. queue' = queue /\ held' = held /\ overtaken' = overtaken
        /\ pc' = [pc EXCEPT ![t] = "count_rejected"] /\ pc'[t] = "count_rejected"
    BY <1>7 DEF PutFindsFull, TypeOK
  <2>3. pc' = [pc EXCEPT ![t] = pc'[t]] BY <2>2
  <2> QED BY <1>1, <2>1, <2>2, <2>3
<1>8. CASE CountRejected(t) BY <1>8 DEF CountRejected, RoomKept, TypeOK
<1> QED BY <1>2, <1>3, <1>4, <1>5, <1>6, <1>7, <1>8 DEF Enqueue

(* A step of the drain never fills a queue. *)
LEMMA DrainShrinks ==
  ASSUME TypeOK, Drain
  PROVE  /\ UNCHANGED <<pc, held, made, overtaken>>
         /\ \A b \in Buses : Len(queue'[b]) <= Len(queue[b])
<1>1. \A b \in Buses : Len(queue[b]) \in Nat BY DEF TypeOK
<1>2. CASE TakeFrame
  <2> DEFINE b == Order[at]
  <2>1. b \in Buses BY <1>2, CurrentPump DEF TakeFrame
  <2>2. queue[b] \in Seq(Frame) /\ queue[b] # <<>> BY <1>2, <2>1 DEF TakeFrame, TypeOK
  <2>3. Len(Tail(queue[b])) = Len(queue[b]) - 1 BY <2>2
  <2>4. queue' = [queue EXCEPT ![b] = Tail(@)] BY <1>2 DEF TakeFrame
  <2> HIDE DEF b
  <2>5. \A c \in Buses : Len(queue'[c]) <= Len(queue[c])
    BY <1>1, <2>1, <2>3, <2>4 DEF TypeOK
  <2> QED BY <1>2, <2>5 DEF TakeFrame, enqueueVars
<1>3. ASSUME ~TakeFrame PROVE UNCHANGED <<pc, held, made, overtaken, queue>>
  BY <1>3 DEF Drain, StartDrain, NextPump, SecondPass, DrainDone, BatchSent, PumpDone, enqueueVars
<1> QED BY <1>1, <1>2, <1>3

(* For any number of producers of a queue and any interleaving with the drain *)
(* an arriving frame is discarded only if another producer's frame took the   *)
(* room it had found or made: a bus that is only received on drops its oldest. *)
THEOREM OnlyOvertakenAreDiscarded == Spec => []DiscardedOnlyIfOvertaken
<1>1. Init => RoomKept BY DEF Init, RoomKept
<1>2. TypeOK /\ RoomKept /\ [Next]_vars => RoomKept'
  <2> SUFFICES ASSUME TypeOK, RoomKept, [Next]_vars PROVE RoomKept'
    OBVIOUS
  <2>1. ASSUME NEW t \in Threads, NEW b \in Buses, Stamp(t, b) PROVE RoomKept'
    BY <2>1 DEF Stamp, GoTo, RoomKept, TypeOK
  <2>2. ASSUME NEW t \in Threads, Enqueue(t) PROVE RoomKept'
    BY <2>2, RoomKeptEnqueue
  <2>3. CASE Drain
    <3>1. UNCHANGED <<pc, held, overtaken>> BY <2>3, DrainShrinks
    <3>2. ASSUME NEW t \in Threads, pc[t] # "idle"
          PROVE  /\ Len(queue'[held[t].bus]) <= Len(queue[held[t].bus])
                 /\ Len(queue'[held[t].bus]) \in Nat
                 /\ Len(queue[held[t].bus]) \in Nat
      <4>1. held[t].bus \in Buses BY <3>2, HeldFrame
      <4>2. TypeOK' BY <2>3, DrainType
      <4>3. \A b \in Buses : Len(queue[b]) \in Nat /\ Len(queue'[b]) \in Nat
        BY <4>2 DEF TypeOK
      <4> QED BY <2>3, <4>1, <4>3, DrainShrinks
    <3> QED BY <3>1, <3>2, BoundAssumption DEF RoomKept
  <2>4. CASE UNCHANGED vars BY <2>4 DEF vars, RoomKept
  <2> QED BY <2>1, <2>2, <2>3, <2>4 DEF Next
<1>3. RoomKept => DiscardedOnlyIfOvertaken BY DEF RoomKept, DiscardedOnlyIfOvertaken
<1> QED BY <1>1, <1>2, <1>3, TypeCorrect, PTL DEF Spec

-----------------------------------------------------------------------------
(* Accounting *)

(* A set of threads is finite, and grows or shrinks by one with one thread.   *)
LEMMA ThreadSets ==
  ASSUME NEW S \in SUBSET Threads, NEW t \in Threads
  PROVE  /\ Cardinality(S) \in Nat
         /\ t \notin S => Cardinality(S \cup {t}) = Cardinality(S) + 1
         /\ t \in S => Cardinality(S \ {t}) = Cardinality(S) - 1
<1>1. IsFiniteSet(S) BY ThreadAssumption, FS_Subset
<1>2. Cardinality(S) \in Nat BY <1>1, FS_CardinalityType
<1>3. t \notin S => Cardinality(S \cup {t}) = Cardinality(S) + 1 BY <1>1, FS_AddElement
<1>4. t \in S => Cardinality(S \ {t}) = Cardinality(S) - 1 BY <1>1, FS_RemoveElement
<1> QED BY <1>2, <1>3, <1>4

(* The terms of the accounting equation of one bus, by name.                  *)
Made(b)   == stamped[b]
Busy(b)   == Cardinality(Enqueueing(b))
Queued(b) == Len(queue[b])
Sent(b)   == taken[b]
Lost(b)   == dropped[b]
Unseen(b) == Cardinality(Uncounted(b))

AccountedFor(b) == Made(b) = Busy(b) + Queued(b) + Sent(b) + Lost(b) + Unseen(b)

(* Accounted is the equation of every bus. *)
LEMMA AccountedByBus == Accounted <=> \A b \in Buses : AccountedFor(b)
BY DEF Accounted, AccountedFor, Made, Busy, Queued, Sent, Lost, Unseen

(* The terms of the equation are numbers. *)
LEMMA TermTypes ==
  ASSUME TypeOK, NEW b \in Buses
  PROVE  /\ Enqueueing(b) \in SUBSET Threads
         /\ Uncounted(b) \in SUBSET Threads
         /\ Made(b) \in Nat
         /\ Busy(b) \in Nat
         /\ Queued(b) \in Nat
         /\ Sent(b) \in Nat
         /\ Lost(b) \in Nat
         /\ Unseen(b) \in Nat
<1>1. Enqueueing(b) \in SUBSET Threads /\ Uncounted(b) \in SUBSET Threads
  BY DEF Enqueueing, Uncounted
<1>2. Cardinality(Enqueueing(b)) \in Nat /\ Cardinality(Uncounted(b)) \in Nat
  BY <1>1, ThreadAssumption, ThreadSets
<1> QED BY <1>1, <1>2 DEF TypeOK, Made, Busy, Queued, Sent, Lost, Unseen

(* A thread that enters or leaves _enqueue, or an uncounted eviction that     *)
(* begins or ends, moves its term by one.                                     *)
LEMMA TermMoves ==
  ASSUME TypeOK, NEW b \in Buses, NEW t \in Threads
  PROVE  /\ t \notin Enqueueing(b) /\ Enqueueing(b)' = Enqueueing(b) \cup {t}
               => Busy(b)' = Busy(b) + 1
         /\ t \in Enqueueing(b) /\ Enqueueing(b)' = Enqueueing(b) \ {t}
               => Busy(b)' = Busy(b) - 1
         /\ Enqueueing(b)' = Enqueueing(b) => Busy(b)' = Busy(b)
         /\ t \notin Uncounted(b) /\ Uncounted(b)' = Uncounted(b) \cup {t}
               => Unseen(b)' = Unseen(b) + 1
         /\ t \in Uncounted(b) /\ Uncounted(b)' = Uncounted(b) \ {t}
               => Unseen(b)' = Unseen(b) - 1
         /\ Uncounted(b)' = Uncounted(b) => Unseen(b)' = Unseen(b)
<1>1. Enqueueing(b) \in SUBSET Threads /\ Uncounted(b) \in SUBSET Threads
  BY TermTypes
<1>2. /\ t \notin Enqueueing(b) => Cardinality(Enqueueing(b) \cup {t}) = Cardinality(Enqueueing(b)) + 1
      /\ t \in Enqueueing(b) => Cardinality(Enqueueing(b) \ {t}) = Cardinality(Enqueueing(b)) - 1
  BY <1>1, ThreadSets
<1>3. /\ t \notin Uncounted(b) => Cardinality(Uncounted(b) \cup {t}) = Cardinality(Uncounted(b)) + 1
      /\ t \in Uncounted(b) => Cardinality(Uncounted(b) \ {t}) = Cardinality(Uncounted(b)) - 1
  BY <1>1, ThreadSets
<1> QED BY <1>2, <1>3 DEF Busy, Unseen

(* Stamping a frame adds one on each side. *)
LEMMA AccountedStamp ==
  ASSUME TypeOK, Accounted, NEW t \in Threads, NEW c \in Buses, Stamp(t, c)
  PROVE  Accounted'
<1> SUFFICES ASSUME NEW b \in Buses PROVE AccountedFor(b)'
  BY DEF Accounted, AccountedFor, Made, Busy, Queued, Sent, Lost, Unseen
<1>1. AccountedFor(b) BY AccountedByBus
<1>t. Made(b) \in Nat /\ Busy(b) \in Nat /\ Queued(b) \in Nat /\ Sent(b) \in Nat
      /\ Lost(b) \in Nat /\ Unseen(b) \in Nat
  BY TermTypes
<1>2. /\ pc' = [pc EXCEPT ![t] = "check"] /\ pc[t] = "idle"
      /\ held' = [held EXCEPT ![t] = [bus |-> c, thread |-> t, n |-> made[t] + 1]]
      /\ stamped' = [stamped EXCEPT ![c] = @ + 1]
      /\ UNCHANGED <<queue, dropped, taken>>
  BY DEF Stamp, GoTo, drainVars
<1>3. Uncounted(b)' = Uncounted(b) BY <1>2 DEF Uncounted, TypeOK
<1>4. Unseen(b)' = Unseen(b) BY <1>3, TermMoves
<1>5. Queued(b)' = Queued(b) /\ Sent(b)' = Sent(b) /\ Lost(b)' = Lost(b)
  BY <1>2 DEF Queued, Sent, Lost
<1>6. CASE b = c
  <2>1. Enqueueing(b)' = Enqueueing(b) \cup {t} BY <1>2, <1>6 DEF Enqueueing, TypeOK
  <2>2. t \notin Enqueueing(b) BY <1>2 DEF Enqueueing
  <2>3. Busy(b)' = Busy(b) + 1 BY <2>1, <2>2, TermMoves
  <2>4. Made(b)' = Made(b) + 1 BY <1>2, <1>6 DEF TypeOK, Made
  <2> QED BY <1>1, <1>t, <1>4, <1>5, <2>3, <2>4 DEF AccountedFor
<1>7. CASE b # c
  <2>1. Enqueueing(b)' = Enqueueing(b) BY <1>2, <1>7 DEF Enqueueing, TypeOK
  <2>2. Busy(b)' = Busy(b) BY <2>1, TermMoves
  <2>3. Made(b)' = Made(b) BY <1>2, <1>7 DEF TypeOK, Made
  <2> QED BY <1>1, <1>t, <1>4, <1>5, <2>2, <2>3 DEF AccountedFor
<1> QED BY <1>6, <1>7

(* A step of _enqueue moves a frame from one term to another. *)
LEMMA AccountedEnqueue ==
  ASSUME TypeOK, Accounted, NEW t \in Threads, Enqueue(t)
  PROVE  Accounted'
<1> USE DEF GoTo, Return, Looks, drainVars
<1> SUFFICES ASSUME NEW b \in Buses PROVE AccountedFor(b)'
  BY DEF Accounted, AccountedFor, Made, Busy, Queued, Sent, Lost, Unseen
<1>a. AccountedFor(b) BY AccountedByBus
<1>t. Made(b) \in Nat /\ Busy(b) \in Nat /\ Queued(b) \in Nat /\ Sent(b) \in Nat
      /\ Lost(b) \in Nat /\ Unseen(b) \in Nat
  BY TermTypes
<1>0. pc[t] # "idle" BY DEF Enqueue, CheckFull, Evict, EvictFindsEmpty, CountEvicted,
                             Put, PutFindsFull, CountRejected
<1>h. held[t] \in Frame /\ held[t].bus \in Buses BY <1>0, HeldFrame
<1>s. Made(b)' = Made(b) /\ Sent(b)' = Sent(b)
  BY DEF Enqueue, CheckFull, Evict, EvictFindsEmpty, CountEvicted, Put, PutFindsFull,
         CountRejected, Made, Sent
<1>o. CASE held[t].bus # b
  <2>1. Queued(b)' = Queued(b) /\ Lost(b)' = Lost(b)
    BY <1>o, <1>h DEF Enqueue, CheckFull, Evict, EvictFindsEmpty, CountEvicted,
                      Put, PutFindsFull, CountRejected, TypeOK, Queued, Lost
  <2>2. /\ \A u \in Threads : u # t => pc'[u] = pc[u] /\ held'[u] = held[u]
        /\ pc'[t] = "idle" \/ (held'[t] = held[t])
    BY DEF Enqueue, CheckFull, Evict, EvictFindsEmpty, CountEvicted,
           Put, PutFindsFull, CountRejected, TypeOK
  <2>3. Enqueueing(b)' = Enqueueing(b) BY <2>2, <1>o DEF Enqueueing
  <2>4. Uncounted(b)' = Uncounted(b) BY <2>2, <1>o DEF Uncounted
  <2>5. Busy(b)' = Busy(b) /\ Unseen(b)' = Unseen(b) BY <2>3, <2>4, TermMoves
  <2> QED BY <1>a, <1>s, <2>1, <2>5 DEF AccountedFor
<1>m. CASE held[t].bus = b
  <2>q. queue[b] \in Seq(Frame) BY DEF TypeOK
  <2>1. ASSUME UNCHANGED <<queue, dropped, held>>, pc' = [pc EXCEPT ![t] = pc'[t]],
               pc[t] # "count_evicted", pc'[t] \notin {"idle", "count_evicted"}
        PROVE  AccountedFor(b)'
    <3>1. Enqueueing(b)' = Enqueueing(b) BY <2>1, <1>0 DEF Enqueueing, TypeOK
    <3>2. Uncounted(b)' = Uncounted(b) BY <2>1 DEF Uncounted, TypeOK
    <3>3. Busy(b)' = Busy(b) /\ Unseen(b)' = Unseen(b) BY <3>1, <3>2, TermMoves
    <3>4. Queued(b)' = Queued(b) /\ Lost(b)' = Lost(b) BY <2>1 DEF Queued, Lost
    <3> QED BY <1>a, <1>s, <3>3, <3>4 DEF AccountedFor
  <2>2. CASE CheckFull(t) BY <2>1, <2>2 DEF CheckFull, TypeOK
  <2>3. CASE Evict(t)
    <3>1. /\ pc' = [pc EXCEPT ![t] = "count_evicted"] /\ pc[t] = "evict"
          /\ UNCHANGED <<held, dropped>>
      BY <2>3 DEF Evict
    <3>2. Enqueueing(b)' = Enqueueing(b) BY <3>1 DEF Enqueueing, TypeOK
    <3>3. Uncounted(b)' = Uncounted(b) \cup {t} /\ t \notin Uncounted(b)
      BY <3>1, <1>m DEF Uncounted, TypeOK
    <3>4. Busy(b)' = Busy(b) /\ Unseen(b)' = Unseen(b) + 1 BY <3>2, <3>3, TermMoves
    <3>5. Queued(b)' = Queued(b) - 1 BY <2>3, <1>m, <2>q DEF Evict, TypeOK, Queued
    <3>6. Lost(b)' = Lost(b) BY <3>1 DEF Lost
    <3> QED BY <1>a, <1>s, <1>t, <3>4, <3>5, <3>6 DEF AccountedFor
  <2>4. CASE EvictFindsEmpty(t) BY <2>1, <2>4 DEF EvictFindsEmpty, TypeOK
  <2>5. CASE CountEvicted(t)
    <3>1. /\ pc' = [pc EXCEPT ![t] = "put"] /\ pc[t] = "count_evicted"
          /\ UNCHANGED <<held, queue>>
      BY <2>5 DEF CountEvicted
    <3>2. Enqueueing(b)' = Enqueueing(b) BY <3>1 DEF Enqueueing, TypeOK
    <3>3. Uncounted(b)' = Uncounted(b) \ {t} /\ t \in Uncounted(b)
      BY <3>1, <1>m DEF Uncounted, TypeOK
    <3>4. Busy(b)' = Busy(b) /\ Unseen(b)' = Unseen(b) - 1 BY <3>2, <3>3, TermMoves
    <3>5. Lost(b)' = Lost(b) + 1 BY <2>5, <1>m DEF CountEvicted, TypeOK, Lost
    <3>6. Queued(b)' = Queued(b) BY <3>1 DEF Queued
    <3> QED BY <1>a, <1>s, <1>t, <3>4, <3>5, <3>6 DEF AccountedFor
  <2>6. ASSUME pc' = [pc EXCEPT ![t] = "idle"], pc[t] # "count_evicted",
               held' = [held EXCEPT ![t] = NoFrame]
        PROVE  Busy(b)' = Busy(b) - 1 /\ Unseen(b)' = Unseen(b)
    <3>1. Enqueueing(b)' = Enqueueing(b) \ {t} /\ t \in Enqueueing(b)
      BY <2>6, <1>0, <1>m DEF Enqueueing, TypeOK
    <3>2. Uncounted(b)' = Uncounted(b) BY <2>6 DEF Uncounted, TypeOK
    <3> QED BY <3>1, <3>2, TermMoves
  <2>7. CASE Put(t)
    <3>1. Busy(b)' = Busy(b) - 1 /\ Unseen(b)' = Unseen(b) BY <2>6, <2>7 DEF Put
    <3>2. Queued(b)' = Queued(b) + 1 BY <2>7, <1>m, <1>h, <2>q DEF Put, TypeOK, Queued
    <3>3. Lost(b)' = Lost(b) BY <2>7 DEF Put, Lost
    <3> QED BY <1>a, <1>s, <1>t, <3>1, <3>2, <3>3 DEF AccountedFor
  <2>8. CASE PutFindsFull(t) BY <2>1, <2>8 DEF PutFindsFull, TypeOK
  <2>9. CASE CountRejected(t)
    <3>1. Busy(b)' = Busy(b) - 1 /\ Unseen(b)' = Unseen(b) BY <2>6, <2>9 DEF CountRejected
    <3>2. Lost(b)' = Lost(b) + 1 BY <2>9, <1>m DEF CountRejected, TypeOK, Lost
    <3>3. Queued(b)' = Queued(b) BY <2>9 DEF CountRejected, Queued
    <3> QED BY <1>a, <1>s, <1>t, <3>1, <3>2, <3>3 DEF AccountedFor
  <2> QED BY <2>2, <2>3, <2>4, <2>5, <2>7, <2>8, <2>9 DEF Enqueue
<1> QED BY <1>o, <1>m

(* Taking a frame moves it from the queue to the batch. *)
LEMMA AccountedDrain ==
  ASSUME TypeOK, Accounted, Drain
  PROVE  Accounted'
<1> SUFFICES ASSUME NEW b \in Buses PROVE AccountedFor(b)'
  BY DEF Accounted, AccountedFor, Made, Busy, Queued, Sent, Lost, Unseen
<1>1. AccountedFor(b) BY AccountedByBus
<1>t. Made(b) \in Nat /\ Busy(b) \in Nat /\ Queued(b) \in Nat /\ Sent(b) \in Nat
      /\ Lost(b) \in Nat /\ Unseen(b) \in Nat
  BY TermTypes
<1>2. UNCHANGED <<pc, held, dropped, stamped>>
  BY DEF Drain, StartDrain, TakeFrame, NextPump, SecondPass, DrainDone, BatchSent,
         PumpDone, enqueueVars
<1>3. Busy(b)' = Busy(b) /\ Unseen(b)' = Unseen(b) /\ Lost(b)' = Lost(b) /\ Made(b)' = Made(b)
  BY <1>2 DEF Busy, Unseen, Enqueueing, Uncounted, Lost, Made
<1>4. CASE TakeFrame
  <2> DEFINE c == Order[at]
  <2>1. c \in Buses BY <1>4, CurrentPump DEF TakeFrame
  <2>2. queue[c] \in Seq(Frame) /\ queue[c] # <<>> BY <1>4, <2>1 DEF TakeFrame, TypeOK
  <2>3. Len(Tail(queue[c])) = Len(queue[c]) - 1 BY <2>2
  <2>4. /\ queue' = [queue EXCEPT ![c] = Tail(@)]
        /\ taken' = [taken EXCEPT ![c] = @ + 1]
    BY <1>4 DEF TakeFrame
  <2> HIDE DEF c
  <2>5. CASE b = c
    <3>1. Queued(b)' = Queued(b) - 1 /\ Sent(b)' = Sent(b) + 1
      BY <2>1, <2>3, <2>4, <2>5 DEF TypeOK, Queued, Sent
    <3> QED BY <1>1, <1>3, <1>t, <3>1 DEF AccountedFor
  <2>6. CASE b # c
    <3>1. Queued(b)' = Queued(b) /\ Sent(b)' = Sent(b)
      BY <2>1, <2>4, <2>6 DEF TypeOK, Queued, Sent
    <3> QED BY <1>1, <1>3, <3>1 DEF AccountedFor
  <2> QED BY <2>5, <2>6
<1>5. CASE ~TakeFrame
  <2>1. Queued(b)' = Queued(b) /\ Sent(b)' = Sent(b)
    BY <1>5 DEF Drain, StartDrain, NextPump, SecondPass, DrainDone, BatchSent, PumpDone,
                Queued, Sent
  <2> QED BY <1>1, <1>3, <2>1 DEF AccountedFor
<1> QED BY <1>4, <1>5

(* Whatever the number of producers and however their steps interleave with   *)
(* each other and with the drain, every stamped frame is queued, taken, still *)
(* with its producer, or counted as dropped exactly once.                     *)
THEOREM EveryFrameAccounted == Spec => []Accounted
<1>1. Init => Accounted
  <2> SUFFICES ASSUME Init, NEW b \in Buses PROVE AccountedFor(b)
    BY AccountedByBus
  <2>1. Enqueueing(b) = {} /\ Uncounted(b) = {} BY DEF Init, Enqueueing, Uncounted
  <2>2. Cardinality(Enqueueing(b)) = 0 /\ Cardinality(Uncounted(b)) = 0
    BY <2>1, FS_EmptySet
  <2>3. Len(queue[b]) = 0 BY DEF Init
  <2> QED BY <2>2, <2>3 DEF Init, AccountedFor, Made, Busy, Queued, Sent, Lost, Unseen
<1>2. TypeOK /\ Accounted /\ [Next]_vars => Accounted'
  <2> SUFFICES ASSUME TypeOK, Accounted, [Next]_vars PROVE Accounted'
    OBVIOUS
  <2>1. ASSUME NEW t \in Threads, NEW b \in Buses, Stamp(t, b) PROVE Accounted'
    BY <2>1, AccountedStamp
  <2>2. ASSUME NEW t \in Threads, Enqueue(t) PROVE Accounted'
    BY <2>2, AccountedEnqueue
  <2>3. CASE Drain BY <2>3, AccountedDrain
  <2>4. CASE UNCHANGED vars BY <2>4 DEF vars, Accounted, Enqueueing, Uncounted
  <2> QED BY <2>1, <2>2, <2>3, <2>4 DEF Next
<1> QED BY <1>1, <1>2, TypeCorrect, PTL DEF Spec

-----------------------------------------------------------------------------
(* Order *)

(* Removing the head of an ordered queue keeps it ordered, also with the head *)
(* recorded as the last frame taken of its thread.                            *)
LEMMA TailInOrder ==
  ASSUME NEW q \in Seq(Frame), q # <<>>, NEW last \in [Threads -> Nat], InOrder(q, last)
  PROVE  /\ InOrder(Tail(q), last)
         /\ InOrder(Tail(q), [last EXCEPT ![Head(q).thread] = Head(q).n])
<1>1. /\ Tail(q) \in Seq(Frame)
      /\ Len(Tail(q)) = Len(q) - 1
      /\ Len(q) \in Nat \ {0}
      /\ Head(q) = q[1]
  OBVIOUS
<1>2. \A i \in 1..Len(Tail(q)) : Tail(q)[i] = q[i + 1] /\ i + 1 \in 1..Len(q)
  BY <1>1
<1>3. \A i \in 1..Len(q) : q[i] \in Frame OBVIOUS
<1>4. \A i \in 1..Len(q) : q[i].thread \in Threads /\ q[i].n \in Nat BY <1>3 DEF Frame
<1>5. \A i, j \in 1..Len(Tail(q)) :
         i < j /\ Tail(q)[i].thread = Tail(q)[j].thread => Tail(q)[i].n < Tail(q)[j].n
  <2> SUFFICES ASSUME NEW i \in 1..Len(Tail(q)), NEW j \in 1..Len(Tail(q)),
                      i < j, Tail(q)[i].thread = Tail(q)[j].thread
               PROVE  Tail(q)[i].n < Tail(q)[j].n
    OBVIOUS
  <2>1. i + 1 < j + 1 /\ i + 1 \in 1..Len(q) /\ j + 1 \in 1..Len(q) BY <1>1
  <2> QED BY <1>2, <2>1 DEF InOrder
<1>6. \A i \in 1..Len(Tail(q)) : last[Tail(q)[i].thread] < Tail(q)[i].n
  BY <1>2 DEF InOrder
<1>7. ASSUME NEW i \in 1..Len(Tail(q))
      PROVE  [last EXCEPT ![Head(q).thread] = Head(q).n][Tail(q)[i].thread] < Tail(q)[i].n
  <2>1. Tail(q)[i] = q[i + 1] /\ i + 1 \in 1..Len(q) BY <1>2
  <2>2. 1 < i + 1 /\ 1 \in 1..Len(q) BY <1>1
  <2>3. CASE q[i + 1].thread = q[1].thread
    <3>1. q[1].n < q[i + 1].n BY <2>1, <2>2, <2>3 DEF InOrder
    <3> QED BY <1>1, <1>4, <2>1, <2>2, <2>3, <3>1
  <2>4. CASE q[i + 1].thread # q[1].thread
    BY <1>1, <1>4, <1>6, <2>1, <2>2, <2>4
  <2> QED BY <2>3, <2>4
<1> QED BY <1>5, <1>6, <1>7 DEF InOrder

(* Appending a frame newer than all those of its thread keeps the order. *)
LEMMA AppendInOrder ==
  ASSUME NEW q \in Seq(Frame), NEW last \in [Threads -> Nat], InOrder(q, last),
         NEW f \in Frame, last[f.thread] < f.n,
         \A i \in 1..Len(q) : q[i].thread = f.thread => q[i].n < f.n
  PROVE  InOrder(Append(q, f), last)
<1> DEFINE r == Append(q, f)
<1>1. /\ Len(r) = Len(q) + 1
      /\ Len(q) \in Nat
      /\ r[Len(q) + 1] = f
      /\ \A i \in 1..Len(q) : r[i] = q[i]
  OBVIOUS
<1>2. \A i \in 1..Len(r) : i \in 1..Len(q) \/ i = Len(q) + 1 BY <1>1
<1> HIDE DEF r
<1>3. \A i \in 1..Len(r) : last[r[i].thread] < r[i].n BY <1>1, <1>2 DEF InOrder
<1>4. ASSUME NEW i \in 1..Len(r), NEW j \in 1..Len(r), i < j, r[i].thread = r[j].thread
      PROVE  r[i].n < r[j].n
  <2>1. i \in 1..Len(q) BY <1>1, <1>2, <1>4
  <2>2. CASE j \in 1..Len(q) BY <1>1, <1>4, <2>1, <2>2 DEF InOrder
  <2>3. CASE j = Len(q) + 1 BY <1>1, <1>4, <2>1, <2>3
  <2> QED BY <1>2, <2>2, <2>3
<1>5. InOrder(r, last) BY <1>3, <1>4 DEF InOrder
<1> QED BY <1>5 DEF r

(* Frames carry the number of the thread that stamped them: what is queued or *)
(* was taken is at most the thread's last number, and below it while the      *)
(* thread still holds that last frame.                                        *)
Newest(t, n) == n <= made[t] /\ (pc[t] # "idle" => n < made[t])

Numbered ==
    /\ \A t \in Threads : pc[t] # "idle" => held[t].thread = t /\ held[t].n = made[t]
    /\ \A b \in Buses : \A i \in 1..Len(queue[b]) : Newest(queue[b][i].thread, queue[b][i].n)
    /\ \A b \in Buses, t \in Threads : Newest(t, lastTaken[b][t])

OrderInv == Numbered /\ PerThreadOrder

(* The frames of a queue are frames. *)
LEMMA QueuedFrames ==
  ASSUME TypeOK, NEW b \in Buses
  PROVE  /\ queue[b] \in Seq(Frame)
         /\ lastTaken[b] \in [Threads -> Nat]
         /\ \A i \in 1..Len(queue[b]) :
               /\ queue[b][i] \in Frame
               /\ queue[b][i].thread \in Threads
               /\ queue[b][i].n \in Nat
<1>1. queue[b] \in Seq(Frame) /\ lastTaken[b] \in [Threads -> Nat] BY DEF TypeOK
<1>2. \A i \in 1..Len(queue[b]) : queue[b][i] \in Frame BY <1>1
<1> QED BY <1>1, <1>2 DEF Frame

(* A new frame of an idle thread is above all its earlier ones. *)
LEMMA OrderStamp ==
  ASSUME TypeOK, OrderInv, NEW t \in Threads, NEW c \in Buses, Stamp(t, c)
  PROVE  OrderInv'
<1>1. /\ pc[t] = "idle"
      /\ pc' = [pc EXCEPT ![t] = "check"]
      /\ held' = [held EXCEPT ![t] = [bus |-> c, thread |-> t, n |-> made[t] + 1]]
      /\ made' = [made EXCEPT ![t] = @ + 1]
      /\ UNCHANGED <<queue, lastTaken>>
  BY DEF Stamp, GoTo, drainVars
<1>2. PerThreadOrder' BY <1>1 DEF OrderInv, PerThreadOrder
<1>3. \A u \in Threads : pc'[u] # "idle" => held'[u].thread = u /\ held'[u].n = made'[u]
  BY <1>1 DEF OrderInv, Numbered, TypeOK
<1>4. \A u \in Threads : /\ made[u] \in Nat
                         /\ u # t => made'[u] = made[u] /\ pc'[u] = pc[u]
                         /\ u = t => made'[u] = made[u] + 1 /\ pc[u] = "idle"
  BY <1>1 DEF TypeOK
<1>5. ASSUME NEW b \in Buses, NEW i \in 1..Len(queue'[b])
      PROVE  Newest(queue[b][i].thread, queue[b][i].n)'
  <2> DEFINE u == queue[b][i].thread
             n == queue[b][i].n
  <2>1. i \in 1..Len(queue[b]) /\ queue' = queue BY <1>1, <1>5
  <2>2. u \in Threads /\ n \in Nat BY <2>1, QueuedFrames
  <2>3. Newest(u, n) BY <2>1 DEF OrderInv, Numbered
  <2>4. u' = u /\ n' = n BY <2>1
  <2> HIDE DEF u, n
  <2>5. n <= made'[u] /\ (pc'[u] # "idle" => n < made'[u])
    BY <1>4, <2>2, <2>3 DEF Newest
  <2>6. Newest(u, n)' BY <2>4, <2>5 DEF Newest
  <2> QED BY <2>6 DEF u, n
<1>6. ASSUME NEW b \in Buses, NEW u \in Threads PROVE Newest(u, lastTaken[b][u])'
  <2>1. lastTaken[b][u] \in Nat /\ made[u] \in Nat BY DEF TypeOK
  <2>2. Newest(u, lastTaken[b][u]) BY DEF OrderInv, Numbered
  <2> QED BY <1>1, <2>1, <2>2, SMTT(30) DEF Newest, TypeOK
<1> QED BY <1>2, <1>3, <1>5, <1>6 DEF OrderInv, Numbered

(* A queue that only lost its head, or gained the held frame, stays ordered. *)
LEMMA OrderEnqueue ==
  ASSUME TypeOK, OrderInv, NEW t \in Threads, Enqueue(t)
  PROVE  OrderInv'
<1> USE DEF GoTo, Return, Looks, drainVars
<1> DEFINE c == held[t].bus
<1>0. pc[t] # "idle" BY DEF Enqueue, CheckFull, Evict, EvictFindsEmpty, CountEvicted,
                             Put, PutFindsFull, CountRejected
<1>h. held[t] \in Frame /\ c \in Buses BY <1>0, HeldFrame
<1>1. /\ \A u \in Threads : u # t => pc'[u] = pc[u] /\ held'[u] = held[u]
      /\ pc'[t] = "idle" \/ (pc'[t] # "idle" /\ held'[t] = held[t])
      /\ UNCHANGED <<made, lastTaken>>
  BY DEF Enqueue, CheckFull, Evict, EvictFindsEmpty, CountEvicted,
         Put, PutFindsFull, CountRejected, TypeOK
<1>2. \A u \in Threads : pc'[u] # "idle" => held'[u].thread = u /\ held'[u].n = made'[u]
  BY <1>0, <1>1 DEF OrderInv, Numbered
<1>3. \A u \in Threads : pc'[u] # "idle" => pc[u] # "idle" BY <1>0, <1>1
<1>4. \A b \in Buses, u \in Threads : Newest(u, lastTaken[b][u])'
  BY <1>1, <1>3 DEF OrderInv, Numbered, Newest
<1>5. ASSUME queue' = queue PROVE OrderInv'
  <2>1. PerThreadOrder' BY <1>1, <1>5 DEF OrderInv, PerThreadOrder
  <2>2. ASSUME NEW b \in Buses, NEW i \in 1..Len(queue[b])
        PROVE  Newest(queue[b][i].thread, queue[b][i].n)'
    <3>1. queue[b][i].thread \in Threads BY QueuedFrames
    <3>2. Newest(queue[b][i].thread, queue[b][i].n) BY DEF OrderInv, Numbered
    <3> QED BY <1>1, <1>3, <1>5, <3>1, <3>2 DEF Newest
  <2> QED BY <1>2, <1>4, <1>5, <2>1, <2>2 DEF OrderInv, Numbered
<1>6. CASE Evict(t)
  <2>1. queue' = [queue EXCEPT ![c] = Tail(@)] /\ queue[c] # <<>> BY <1>6 DEF Evict
  <2>2. InOrder(Tail(queue[c]), lastTaken[c])
    BY <1>h, <2>1, QueuedFrames, TailInOrder DEF OrderInv, PerThreadOrder
  <2>3. Len(Tail(queue[c])) = Len(queue[c]) - 1 /\ Len(queue[c]) \in Nat
        /\ \A i \in 1..Len(Tail(queue[c])) : Tail(queue[c])[i] = queue[c][i + 1]
    BY <1>h, <2>1, QueuedFrames
  <2> HIDE DEF c
  <2>4. \A b \in Buses : queue'[b] = IF b = c THEN Tail(queue[c]) ELSE queue[b]
    BY <2>1, <1>h DEF TypeOK
  <2>5. PerThreadOrder' BY <1>1, <2>2, <2>4 DEF OrderInv, PerThreadOrder
  <2>6. ASSUME NEW b \in Buses, NEW i \in 1..Len(queue'[b])
        PROVE  \E j \in 1..Len(queue[b]) : queue'[b][i] = queue[b][j]
    <3>1. CASE b = c
      <4>1. i + 1 \in 1..Len(queue[b]) /\ queue'[b][i] = queue[b][i + 1]
        <5>1. queue'[b] = Tail(queue[c]) BY <2>4, <3>1
        <5>2. i \in 1..(Len(queue[c]) - 1) BY <2>3, <2>6, <5>1
        <5>3. i + 1 \in 1..Len(queue[c]) BY <2>3, <5>2
        <5> QED BY <2>3, <3>1, <5>1, <5>2, <5>3
      <4> QED BY <4>1
    <3>2. CASE b # c BY <2>4, <2>6, <3>2
    <3> QED BY <3>1, <3>2
  <2>7. ASSUME NEW b \in Buses, NEW i \in 1..Len(queue'[b])
        PROVE  Newest(queue[b][i].thread, queue[b][i].n)'
    <3>1. PICK j \in 1..Len(queue[b]) : queue'[b][i] = queue[b][j] BY <2>6, <2>7
    <3>2. queue[b][j].thread \in Threads BY QueuedFrames
    <3>3. Newest(queue[b][j].thread, queue[b][j].n) BY DEF OrderInv, Numbered
    <3> QED BY <1>1, <1>3, <3>1, <3>2, <3>3 DEF Newest
  <2> QED BY <1>2, <1>4, <2>5, <2>7 DEF OrderInv, Numbered
<1>7. CASE Put(t)
  <2> DEFINE f == held[t]
  <2>1. /\ queue' = [queue EXCEPT ![c] = Append(@, f)]
        /\ pc' = [pc EXCEPT ![t] = "idle"]
    BY <1>7 DEF Put
  <2>2. f.thread = t /\ f.n = made[t] /\ made[t] \in Nat
    BY <1>0 DEF OrderInv, Numbered, TypeOK
  <2>3. lastTaken[c][f.thread] < f.n BY <1>0, <1>h, <2>2 DEF OrderInv, Numbered, Newest
  <2>4. \A i \in 1..Len(queue[c]) : queue[c][i].thread = f.thread => queue[c][i].n < f.n
    BY <1>0, <1>h, <2>2 DEF OrderInv, Numbered, Newest
  <2>5. InOrder(Append(queue[c], f), lastTaken[c])
    BY <1>h, <2>3, <2>4, QueuedFrames, AppendInOrder DEF OrderInv, PerThreadOrder
  <2>6. /\ Len(Append(queue[c], f)) = Len(queue[c]) + 1 /\ Len(queue[c]) \in Nat
        /\ Append(queue[c], f)[Len(queue[c]) + 1] = f
        /\ \A i \in 1..Len(queue[c]) : Append(queue[c], f)[i] = queue[c][i]
    BY <1>h, QueuedFrames
  <2>q. c \in Buses BY <1>h
  <2> HIDE DEF c, f
  <2>7. \A b \in Buses : queue'[b] = IF b = c THEN Append(queue[c], f) ELSE queue[b]
    BY <2>1, <2>q DEF TypeOK
  <2>8. PerThreadOrder' BY <1>1, <2>5, <2>7 DEF OrderInv, PerThreadOrder
  <2>9. ASSUME NEW b \in Buses, NEW i \in 1..Len(queue'[b])
        PROVE  \/ \E j \in 1..Len(queue[b]) : queue'[b][i] = queue[b][j]
               \/ queue'[b][i] = f
    <3>1. CASE b = c /\ i = Len(queue[c]) + 1 BY <2>6, <2>7, <3>1
    <3>2. CASE b = c /\ i # Len(queue[c]) + 1
      <4>0. queue'[b] = Append(queue[c], f) BY <2>7, <3>2
      <4>1. i \in 1..Len(queue[c])
        <5>1. i \in 1..(Len(queue[c]) + 1) BY <2>6, <2>9, <4>0
        <5> QED BY <2>6, <3>2, <5>1
      <4> QED BY <2>6, <2>7, <3>2, <4>1
    <3>3. CASE b # c BY <2>7, <2>9, <3>3
    <3> QED BY <3>1, <3>2, <3>3
  <2>10. ASSUME NEW b \in Buses, NEW i \in 1..Len(queue'[b])
         PROVE  Newest(queue[b][i].thread, queue[b][i].n)'
    <3>1. ASSUME NEW j \in 1..Len(queue[b]), queue'[b][i] = queue[b][j]
          PROVE  Newest(queue[b][i].thread, queue[b][i].n)'
      <4>1. queue[b][j].thread \in Threads BY QueuedFrames
      <4>2. Newest(queue[b][j].thread, queue[b][j].n) BY DEF OrderInv, Numbered
      <4> QED BY <1>1, <1>3, <3>1, <4>1, <4>2 DEF Newest
    <3>2. CASE queue'[b][i] = f
      <4>1. pc'[t] = "idle" BY <2>1 DEF TypeOK
      <4> QED BY <1>1, <2>2, <3>2, <4>1 DEF Newest
    <3> QED BY <2>9, <2>10, <3>1, <3>2
  <2> QED BY <1>2, <1>4, <2>8, <2>10 DEF OrderInv, Numbered
<1>8. CASE ~Evict(t) /\ ~Put(t)
  <2>1. queue' = queue
    BY <1>8 DEF Enqueue, CheckFull, EvictFindsEmpty, CountEvicted, PutFindsFull, CountRejected
  <2> QED BY <1>5, <2>1
<1> QED BY <1>6, <1>7, <1>8

(* Taking the head of a queue records it as the last frame of its thread. *)
LEMMA OrderDrain ==
  ASSUME TypeOK, OrderInv, Drain
  PROVE  OrderInv'
<1>1. UNCHANGED <<pc, held, made>>
  BY DEF Drain, StartDrain, TakeFrame, NextPump, SecondPass, DrainDone, BatchSent,
         PumpDone, enqueueVars
<1>2. CASE TakeFrame
  <2> DEFINE c == Order[at]
             f == Head(queue[c])
  <2>1. c \in Buses BY <1>2, CurrentPump DEF TakeFrame
  <2>2. /\ queue[c] # <<>>
        /\ queue' = [queue EXCEPT ![c] = Tail(@)]
        /\ lastTaken' = [lastTaken EXCEPT ![c][f.thread] = f.n]
    BY <1>2 DEF TakeFrame
  <2>3. InOrder(Tail(queue[c]), [lastTaken[c] EXCEPT ![f.thread] = f.n])
    BY <2>1, <2>2, QueuedFrames, TailInOrder DEF OrderInv, PerThreadOrder
  <2>4. /\ Len(Tail(queue[c])) = Len(queue[c]) - 1 /\ Len(queue[c]) \in Nat
        /\ \A i \in 1..Len(Tail(queue[c])) : Tail(queue[c])[i] = queue[c][i + 1]
        /\ f = queue[c][1] /\ 1 \in 1..Len(queue[c])
    BY <2>1, <2>2, QueuedFrames
  <2>5. f.thread \in Threads /\ f.n \in Nat /\ Newest(f.thread, f.n)
    BY <2>1, <2>4, QueuedFrames DEF OrderInv, Numbered
  <2> HIDE DEF c, f
  <2>6. \A b \in Buses : /\ queue'[b] = IF b = c THEN Tail(queue[c]) ELSE queue[b]
                         /\ lastTaken'[b] = IF b = c THEN [lastTaken[c] EXCEPT ![f.thread] = f.n]
                                                     ELSE lastTaken[b]
    BY <2>1, <2>2 DEF TypeOK
  <2>7. PerThreadOrder' BY <2>3, <2>6 DEF OrderInv, PerThreadOrder
  <2>8. ASSUME NEW b \in Buses, NEW i \in 1..Len(queue'[b])
        PROVE  Newest(queue[b][i].thread, queue[b][i].n)'
    <3>1. \E j \in 1..Len(queue[b]) : queue'[b][i] = queue[b][j]
      <4>1. CASE b = c
        <5>1. i + 1 \in 1..Len(queue[b]) /\ queue'[b][i] = queue[b][i + 1]
          <6>1. queue'[b] = Tail(queue[c]) BY <2>6, <4>1
          <6>2. i \in 1..(Len(queue[c]) - 1) BY <2>4, <2>8, <6>1
          <6>3. i + 1 \in 1..Len(queue[c]) BY <2>4, <6>2
          <6> QED BY <2>4, <4>1, <6>1, <6>2, <6>3
        <5> QED BY <5>1
      <4>2. CASE b # c BY <2>6, <2>8, <4>2
      <4> QED BY <4>1, <4>2
    <3>2. PICK j \in 1..Len(queue[b]) : queue'[b][i] = queue[b][j] BY <3>1
    <3>3. Newest(queue[b][j].thread, queue[b][j].n) BY DEF OrderInv, Numbered
    <3> QED BY <1>1, <3>2, <3>3 DEF Newest
  <2>9. ASSUME NEW b \in Buses, NEW u \in Threads PROVE Newest(u, lastTaken[b][u])'
    <3>1. Newest(u, lastTaken[b][u]) /\ lastTaken[b] \in [Threads -> Nat]
      BY DEF OrderInv, Numbered, TypeOK
    <3>2. CASE b = c /\ u = f.thread BY <1>1, <2>5, <2>6, <3>1, <3>2 DEF Newest, TypeOK
    <3>3. CASE ~(b = c /\ u = f.thread)
      <4>1. lastTaken'[b][u] = lastTaken[b][u] BY <2>5, <2>6, <3>1, <3>3
      <4> QED BY <1>1, <3>1, <4>1 DEF Newest
    <3> QED BY <3>2, <3>3
  <2>10. \A u \in Threads : pc'[u] # "idle" => held'[u].thread = u /\ held'[u].n = made'[u]
    BY <1>1 DEF OrderInv, Numbered
  <2> QED BY <2>7, <2>8, <2>9, <2>10 DEF OrderInv, Numbered
<1>3. CASE ~TakeFrame
  <2>1. UNCHANGED <<queue, lastTaken>>
    BY <1>3 DEF Drain, StartDrain, NextPump, SecondPass, DrainDone, BatchSent, PumpDone
  <2> QED BY <1>1, <2>1 DEF OrderInv, Numbered, PerThreadOrder, Newest
<1> QED BY <1>2, <1>3

(* The frames of one thread leave each queue in the order it stamped them,    *)
(* for any number of producers, any capacity and any evictions.               *)
THEOREM ThreadOrderKept == Spec => []PerThreadOrder
<1>1. Init => OrderInv
  <2> SUFFICES ASSUME Init PROVE OrderInv
    OBVIOUS
  <2>1. \A b \in Buses : queue[b] = <<>> /\ Len(queue[b]) = 0 BY DEF Init
  <2>2. PerThreadOrder BY <2>1 DEF PerThreadOrder, InOrder
  <2>3. Numbered BY <2>1 DEF Init, Numbered, Newest
  <2> QED BY <2>2, <2>3 DEF OrderInv
<1>2. TypeOK /\ OrderInv /\ [Next]_vars => OrderInv'
  <2> SUFFICES ASSUME TypeOK, OrderInv, [Next]_vars PROVE OrderInv'
    OBVIOUS
  <2>1. ASSUME NEW t \in Threads, NEW b \in Buses, Stamp(t, b) PROVE OrderInv'
    BY <2>1, OrderStamp
  <2>2. ASSUME NEW t \in Threads, Enqueue(t) PROVE OrderInv'
    BY <2>2, OrderEnqueue
  <2>3. CASE Drain BY <2>3, OrderDrain
  <2>4. CASE UNCHANGED vars
    BY <2>4 DEF vars, OrderInv, Numbered, PerThreadOrder, Newest
  <2> QED BY <2>1, <2>2, <2>3, <2>4 DEF Next
<1>3. OrderInv => PerThreadOrder BY DEF OrderInv
<1> QED BY <1>1, <1>2, <1>3, TypeCorrect, PTL DEF Spec

-----------------------------------------------------------------------------
(* Fairness of a drain *)

(* A queue has frames of its own bus only. *)
OwnFrames == \A b \in Buses : \A i \in 1..Len(queue[b]) : queue[b][i].bus = b

Served(b) == Got(b) >= Share \/ b \in sawEmpty

(* The first pass: the pumps passed are served, the current one is served     *)
(* once its quota is used up, and the room left is enough for the others.     *)
FirstPass ==
    phase = "first" =>
        /\ Len(batch) + quota <= at * Share
        /\ \A i \in 1..(at - 1) : Served(Order[i])
        /\ Got(Order[at]) + quota >= Share

(* The second pass: every pump is served, each may take what room there is,   *)
(* and those passed were found empty.                                         *)
SecondPassInv ==
    phase = "second" =>
        /\ Len(batch) + quota = BatchMax
        /\ \A b \in Buses : Served(b)
        /\ \A i \in 1..(at - 1) : Order[i] \in sawEmpty

FairInv == OwnFrames /\ FirstPass /\ SecondPassInv /\ FairShare

(* What the batch has of each bus. *)
LEMMA GotType ==
  ASSUME TypeOK
  PROVE  \A b \in Buses : Got(b) \in Nat
<1>1. ASSUME NEW b \in Buses PROVE Got(b) \in Nat
  <2>1. IsFiniteSet(1..Len(batch)) BY FS_Interval DEF TypeOK
  <2>2. IsFiniteSet({i \in 1..Len(batch) : batch[i].bus = b}) BY <2>1, FS_Subset
  <2> QED BY <2>2, FS_CardinalityType DEF Got
<1> QED BY <1>1

(* A frame more counts for its bus. *)
LEMMA GotAppend ==
  ASSUME TypeOK, NEW f \in Frame, batch' = Append(batch, f), NEW b \in Buses
  PROVE  Got(b)' = IF f.bus = b THEN Got(b) + 1 ELSE Got(b)
<1> DEFINE S == {i \in 1..Len(batch) : batch[i].bus = b}
           T == {i \in 1..Len(batch') : batch'[i].bus = b}
<1>1. /\ Len(batch) \in Nat /\ Len(batch') = Len(batch) + 1
      /\ batch'[Len(batch) + 1] = f
      /\ \A i \in 1..Len(batch) : batch'[i] = batch[i]
  BY DEF TypeOK
<1>2. IsFiniteSet(S) /\ Len(batch) + 1 \notin S
  <2>1. IsFiniteSet(1..Len(batch)) BY <1>1, FS_Interval
  <2> QED BY <1>1, <2>1, FS_Subset
<1>3. T = IF f.bus = b THEN S \cup {Len(batch) + 1} ELSE S
  <2>1. \A i : i \in 1..Len(batch') <=> i \in 1..Len(batch) \/ i = Len(batch) + 1 BY <1>1
  <2> QED BY <1>1, <2>1
<1>4. Got(b) = Cardinality(S) /\ Got(b)' = Cardinality(T) BY DEF Got
<1> HIDE DEF S, T
<1>5. Cardinality(S \cup {Len(batch) + 1}) = Cardinality(S) + 1
  BY <1>2, FS_AddElement
<1> QED BY <1>3, <1>4, <1>5

(* A queue that loses its head, or gains a frame of its bus, has frames of    *)
(* its bus only.                                                              *)
LEMMA OwnFramesKept ==
  ASSUME TypeOK, OwnFrames, [Next]_vars
  PROVE  OwnFrames'
<1>1. ASSUME UNCHANGED queue PROVE OwnFrames'
  BY <1>1 DEF OwnFrames
<1>2. ASSUME NEW b \in Buses, queue[b] # <<>>, queue' = [queue EXCEPT ![b] = Tail(@)]
      PROVE  OwnFrames'
  <2>1. queue[b] \in Seq(Frame) /\ \A c \in Buses : c # b => queue'[c] = queue[c]
    BY <1>2 DEF TypeOK
  <2>2. queue'[b] = Tail(queue[b]) BY <1>2 DEF TypeOK
  <2>3. \A i \in 1..Len(queue'[b]) : i + 1 \in 1..Len(queue[b]) /\ queue'[b][i] = queue[b][i + 1]
    <3>1. PICK q \in Seq(Frame) : q = queue[b] /\ q # <<>> BY <1>2, <2>1
    <3>2. Len(Tail(q)) = Len(q) - 1 /\ \A i \in 1..(Len(q) - 1) : Tail(q)[i] = q[i + 1]
      BY <3>1
    <3>3. Len(q) \in Nat BY <3>1
    <3>4. \A i \in 1..(Len(q) - 1) : i + 1 \in 1..Len(q) BY <3>3
    <3> QED BY <2>2, <3>1, <3>2, <3>4
  <2> QED BY <2>1, <2>3 DEF OwnFrames
<1>3. ASSUME NEW t \in Threads, pc[t] # "idle",
             queue' = [queue EXCEPT ![held[t].bus] = Append(@, held[t])]
      PROVE  OwnFrames'
  <2>1. PICK b \in Buses : b = held[t].bus BY <1>3, HeldFrame
  <2>2. queue[b] \in Seq(Frame) /\ \A c \in Buses : c # b => queue'[c] = queue[c]
    BY <1>3, <2>1 DEF TypeOK
  <2>3. queue'[b] = Append(queue[b], held[t]) BY <1>3, <2>1 DEF TypeOK
  <2>4. \A i \in 1..Len(queue'[b]) :
           \/ i \in 1..Len(queue[b]) /\ queue'[b][i] = queue[b][i]
           \/ queue'[b][i] = held[t]
    BY <1>3, <2>2, <2>3, HeldFrame
  <2> QED BY <2>1, <2>2, <2>4 DEF OwnFrames
<1>4. ASSUME NEW t \in Threads, Enqueue(t) PROVE OwnFrames'
  <2>1. CASE Evict(t)
    <3>1. held[t].bus \in Buses BY <2>1, HeldFrame DEF Evict
    <3> QED BY <1>2, <2>1, <3>1 DEF Evict
  <2>2. CASE Put(t) BY <1>3, <2>2 DEF Put
  <2>3. CASE ~Evict(t) /\ ~Put(t)
    BY <1>1, <1>4, <2>3
    DEF Enqueue, CheckFull, EvictFindsEmpty, CountEvicted, PutFindsFull, CountRejected
  <2> QED BY <2>1, <2>2, <2>3
<1>5. CASE TakeFrame
  <2>1. Order[at] \in Buses BY <1>5, CurrentPump DEF TakeFrame
  <2> QED BY <1>2, <1>5, <2>1 DEF TakeFrame
<1>6. CASE StartDrain \/ NextPump \/ SecondPass \/ DrainDone \/ BatchSent
  BY <1>1, <1>6 DEF StartDrain, NextPump, SecondPass, DrainDone, BatchSent, PumpDone
<1>7. CASE \E t \in Threads, b \in Buses : Stamp(t, b) BY <1>1, <1>7 DEF Stamp
<1>8. CASE UNCHANGED vars BY <1>1, <1>8 DEF vars
<1> QED BY <1>4, <1>5, <1>6, <1>7, <1>8 DEF Next, Drain

(* A step that leaves the drain alone keeps its part of the invariant. *)
LEMMA ElsewhereFair ==
  ASSUME FairInv, OwnFrames', UNCHANGED <<phase, at, quota, batch, sawEmpty>>
  PROVE  FairInv'
<1>1. \A b : Got(b)' = Got(b) BY DEF Got
<1>2. \A b : Served(b)' <=> Served(b) BY <1>1 DEF Served, Share
<1> QED BY <1>1, <1>2 DEF FairInv, FirstPass, SecondPassInv, FairShare, Share

(* The shares of all pumps fit into a batch. *)
LEMMA SharesFit ==
  ASSUME Order # <<>>, Len(Order) <= BatchMax
  PROVE  /\ Len(Order) * Share <= BatchMax
         /\ Share <= BatchMax
<1>1. PICK n \in Nat \ {0} : n = Len(Order) BY BusAssumption
<1>2. PICK m \in Nat \ {0} : m = BatchMax /\ n <= m BY <1>1, BoundAssumption
<1>3. PICK d \in Nat : d = m \div n /\ n * d <= m BY <1>1, <1>2
<1>4. Share = IF d > 1 THEN d ELSE 1 BY <1>1, <1>2, <1>3 DEF Share
<1>5. CASE d > 1
  <2>1. d <= n * d BY <1>1, <1>3
  <2> QED BY <1>1, <1>2, <1>3, <1>4, <1>5, <2>1
<1>6. CASE ~(d > 1) BY <1>1, <1>2, <1>4, <1>6
<1> QED BY <1>3, <1>5, <1>6

LEMMA OneMoreShare ==
  ASSUME NEW n \in Nat, NEW k \in Nat, NEW s \in Nat, k < n
  PROVE  (k + 1) * s = k * s + s /\ k * s + s <= n * s
<1>1. (k + 1) * s = k * s + s OBVIOUS
<1>2. PICK r \in Nat : n = k + 1 + r
  <2>1. n - k - 1 \in Nat /\ n = k + 1 + (n - k - 1) OBVIOUS
  <2> QED BY <2>1
<1>3. n * s = (k + 1) * s + r * s BY <1>2
<1>4. r * s \in Nat /\ (k + 1) * s \in Nat BY <1>2
<1> QED BY <1>1, <1>3, <1>4

(* The pump that is done is served. *)
LEMMA DoneIsServed ==
  ASSUME TypeOK, FairInv, phase = "first", PumpDone
  PROVE  \A i \in 1..at : Got(Order[i]) >= Share \/ Order[i] \in sawEmpty'
<1>1. sawEmpty \subseteq sawEmpty' BY DEF PumpDone
<1>2. Order[at] \in Buses /\ at \in Nat \ {0} BY CurrentPump DEF TypeOK
<1>3. Got(Order[at]) >= Share \/ Order[at] \in sawEmpty'
  <2>1. CASE quota = 0
    <3>1. Got(Order[at]) \in Nat BY <1>2, GotType
    <3> QED BY <2>1, <3>1 DEF FairInv, FirstPass
  <2>2. CASE quota # 0 BY <2>2 DEF PumpDone
  <2> QED BY <2>1, <2>2
<1>4. ASSUME NEW i \in 1..(at - 1)
      PROVE  Got(Order[i]) >= Share \/ Order[i] \in sawEmpty'
  BY <1>1 DEF FairInv, FirstPass, Served
<1> QED BY <1>2, <1>3, <1>4

(* No drain step but a taken frame changes what the batch has. *)
LEMMA SameBatch ==
  ASSUME UNCHANGED batch
  PROVE  /\ \A b \in Buses : Got(b)' = Got(b)
         /\ \A b \in Buses : Served(b)' <=> Got(b) >= Share \/ b \in sawEmpty'
BY DEF Got, Served, Share

LEMMA FairDrain ==
  ASSUME Len(Order) <= BatchMax, TypeOK, FairInv, OwnFrames', Drain
  PROVE  FairInv'
<1>o. \A i \in 1..Len(Order) : Order[i] \in Buses BY BusAssumption
<1>n. Len(Order) \in Nat BY BusAssumption
<1>t. /\ at \in Nat \ {0} /\ quota \in Nat /\ Len(batch) \in Nat /\ BatchMax \in Nat
      /\ Len(batch) + quota <= BatchMax
  BY BoundAssumption DEF TypeOK
<1>1. CASE StartDrain
  <2>1. Order # <<>> /\ batch = <<>> /\ UNCHANGED batch /\ Len(batch) = 0
    BY <1>1 DEF StartDrain, TypeOK
  <2>2. phase' = "first" /\ at' = 1 /\ quota' = Share
    BY <1>1, <2>1, SharesFit, ShareType, BoundAssumption DEF StartDrain, Lesser
  <2>3. Order[1] \in Buses BY <1>o, <1>n, <2>1, BusAssumption
  <2>4. Got(Order[1]) \in Nat BY <2>3, GotType
  <2>5. Share' = Share /\ Got(Order[1])' = Got(Order[1]) BY <2>1, <2>3, SameBatch DEF Share
  <2>6. FirstPass' BY <2>1, <2>2, <2>4, <2>5, ShareType DEF FirstPass
  <2> QED BY <2>2, <2>6 DEF FairInv, SecondPassInv, FairShare
<1>2. CASE TakeFrame
  <2>1. PICK c \in Buses : c = Order[at] /\ queue[c] # <<>> BY <1>2, CurrentPump DEF TakeFrame
  <2>2. PICK f \in Frame : f = Head(queue[c]) /\ f.bus = c
    <3>1. queue[c] \in Seq(Frame) /\ 1 \in 1..Len(queue[c]) /\ Head(queue[c]) = queue[c][1]
      BY <2>1, QueuedFrames
    <3>2. queue[c][1].bus = c BY <3>1 DEF FairInv, OwnFrames
    <3>3. Head(queue[c]) \in Frame BY <3>1, QueuedFrames
    <3> QED BY <3>1, <3>2, <3>3
  <2>3. batch' = Append(batch, f) /\ quota' = quota - 1 /\ UNCHANGED <<phase, at, sawEmpty>>
        /\ phase \in {"first", "second"} /\ quota' \in Nat
    BY <1>2, <1>t, <2>1, <2>2 DEF TakeFrame
  <2>4. Len(batch') + quota' = Len(batch) + quota BY <1>t, <2>3 DEF TypeOK
  <2>5. \A b \in Buses : Got(b) \in Nat /\ Got(b)' = IF c = b THEN Got(b) + 1 ELSE Got(b)
    BY <2>2, <2>3, GotAppend, GotType
  <2>6. Share' = Share BY DEF Share
  <2>7. ASSUME NEW b \in Buses, Served(b) PROVE Served(b)'
    <3>1. Order # <<>> BY <2>3, <1>n, BusAssumption DEF TypeOK
    <3>2. Share \in Nat BY <3>1, ShareType
    <3> QED BY <2>3, <2>5, <2>6, <2>7, <3>2 DEF Served
  <2>8. FirstPass'
    <3>1. SUFFICES ASSUME phase = "first" PROVE FirstPass'
      BY <2>3 DEF FirstPass
    <3>2. Got(c)' + quota' >= Share
      <4>1. PICK i \in Nat, j \in Nat : i = Got(c) /\ j = quota BY <1>t, <2>1, <2>5
      <4>2. Got(c)' = i + 1 /\ quota' = j - 1 BY <2>1, <2>3, <2>5, <4>1
      <4>3. i + j >= Share BY <2>1, <3>1, <4>1 DEF FairInv, FirstPass
      <4>4. (i + 1) + (j - 1) = i + j OBVIOUS
      <4> QED BY <4>2, <4>3, <4>4
    <3>3. \A i \in 1..(at - 1) : Order[i] \in Buses
      BY <1>o, <1>n, <1>t, <2>3 DEF TypeOK
    <3>4. \A i \in 1..(at - 1) : Served(Order[i])' 
      BY <2>7, <3>1, <3>3, <2>3 DEF FairInv, FirstPass
    <3>5. Len(batch') + quota' <= at' * Share BY <2>3, <2>4, <3>1 DEF FairInv, FirstPass
    <3>6. Order[at'] = c BY <2>1, <2>3
    <3> QED BY <2>3, <2>6, <3>2, <3>4, <3>5, <3>6 DEF FirstPass
  <2>9. SecondPassInv' BY <2>3, <2>4, <2>7 DEF FairInv, SecondPassInv
  <2> QED BY <2>3, <2>8, <2>9 DEF FairInv, FairShare
<1>3. CASE NextPump
  <2>1. PumpDone /\ UNCHANGED <<batch, phase>> /\ phase \in {"first", "second"}
        /\ Room > 0 /\ at < Len(Order) /\ at' = at + 1
    BY <1>3, PumpDoneType DEF NextPump
  <2>2. Order # <<>> /\ Order[at + 1] \in Buses /\ Share \in Nat \ {0}
    BY <1>o, <1>n, <1>t, <2>1, ShareType, BusAssumption
  <2>3. PICK d \in Buses : d = Order[at + 1] BY <2>2
  <2>6. Got(d) \in Nat /\ Share' = Share BY GotType DEF Share
  <2>4. CASE phase = "first"
    <3>1. Len(batch) <= at * Share BY <1>t, <2>2, <2>4 DEF FairInv, FirstPass
    <3>2. (at + 1) * Share = at * Share + Share /\ at * Share + Share <= BatchMax
      BY <1>t, <1>n, <2>1, <2>2, OneMoreShare, SharesFit
    <3>3. quota' = Share BY <1>3, <1>t, <2>2, <2>4, <3>1, <3>2 DEF NextPump, Lesser, Room
    <3>4. Len(batch') + quota' <= at' * Share BY <1>t, <2>1, <2>2, <3>1, <3>2, <3>3
    <3>5. \A i \in 1..(at' - 1) : Served(Order[i])'
      <4>1. ASSUME NEW i \in 1..(at' - 1) PROVE Served(Order[i])'
        <5>1. i \in 1..at /\ Order[i] \in Buses BY <1>o, <1>n, <1>t, <2>1
        <5> QED BY <2>1, <2>4, <5>1, SameBatch, DoneIsServed
      <4> QED BY <4>1
    <3>6. Got(d)' + quota' >= Share
      BY <2>1, <2>2, <2>6, <3>3, SameBatch
    <3>7. Order[at'] = d BY <2>1, <2>3
    <3>8. FirstPass' BY <2>6, <3>4, <3>5, <3>6, <3>7 DEF FirstPass
    <3> QED BY <2>1, <2>4, <3>8 DEF FairInv, SecondPassInv, FairShare
  <2>5. CASE phase = "second"
    <3>1. quota > 0 BY <1>t, <2>1, <2>5 DEF Room, FairInv, SecondPassInv
    <3>2. sawEmpty' = sawEmpty \cup {Order[at]} BY <2>1, <3>1 DEF PumpDone
    <3>3. quota' = BatchMax - Len(batch) BY <1>3, <2>5 DEF NextPump, Room
    <3>4. \A b \in Buses : Served(b)' BY <2>1, <2>5, <3>2, SameBatch DEF FairInv, SecondPassInv, Served
    <3>5. \A i \in 1..(at' - 1) : Order[i] \in sawEmpty'
      BY <1>t, <2>1, <2>5, <3>2 DEF FairInv, SecondPassInv
    <3> QED BY <1>t, <2>1, <2>5, <3>3, <3>4, <3>5 DEF FairInv, FirstPass, SecondPassInv, FairShare
  <2> QED BY <2>1, <2>4, <2>5
<1>4. CASE SecondPass
  <2>1. PumpDone /\ UNCHANGED batch /\ phase = "first" /\ at = Len(Order) /\ at' = 1
        /\ phase' = "second" /\ quota' = BatchMax - Len(batch)
    BY <1>4, PumpDoneType DEF SecondPass, Room
  <2>2. \A b \in Buses : Served(b)' BY <2>1, SameBatch, DoneIsServed, BusAssumption
  <2>3. SecondPassInv' BY <1>t, <2>1, <2>2 DEF SecondPassInv
  <2> QED BY <2>1, <2>3 DEF FairInv, FirstPass, FairShare
<1>5. CASE DrainDone
  <2>1. PumpDone /\ UNCHANGED batch /\ phase' = "sending"
        /\ (Room = 0 \/ (phase = "second" /\ at = Len(Order)))
        /\ phase \in {"first", "second"}
    BY <1>5, PumpDoneType DEF DrainDone
  <2>2. CASE phase = "first"
    <3>1. Len(batch) = BatchMax /\ quota = 0 BY <1>t, <2>1, <2>2 DEF Room
    <3>2. at = Len(Order)
      <4>1. Order # <<>> /\ Share \in Nat \ {0}
        BY <1>n, <1>t, <2>1, ShareType, BusAssumption DEF TypeOK
      <4>2. at <= Len(Order) /\ BatchMax <= at * Share
        BY <1>t, <2>2, <3>1 DEF TypeOK, FairInv, FirstPass
      <4>3. ASSUME at < Len(Order) PROVE FALSE
        <5>1. at * Share + Share <= BatchMax
          BY <1>t, <1>n, <4>1, <4>3, OneMoreShare, SharesFit
        <5> QED BY <1>t, <4>1, <4>2, <5>1
      <4> QED BY <1>n, <1>t, <4>2, <4>3
    <3>3. \A b \in Buses : Served(b)' BY <2>1, <2>2, <3>2, SameBatch, DoneIsServed, BusAssumption
    <3>4. ~(Len(batch') < BatchMax) BY <1>t, <2>1, <3>1
    <3> QED BY <2>1, <3>3, <3>4 DEF FairInv, FirstPass, SecondPassInv, FairShare, Served
  <2>3. CASE phase = "second"
    <3>1. sawEmpty \subseteq sawEmpty' /\ sawEmpty' \subseteq Buses BY <2>1, PumpDoneType DEF PumpDone
    <3>2. \A b \in Buses : Served(b)'
      BY <2>1, <2>3, <3>1, SameBatch DEF FairInv, SecondPassInv, Served
    <3>3. ASSUME Len(batch) < BatchMax PROVE sawEmpty' = Buses
      <4>1. at = Len(Order) BY <1>t, <2>1, <3>3 DEF Room
      <4>2. quota > 0 BY <1>t, <2>3, <3>3 DEF FairInv, SecondPassInv
      <4>3. Order[at] \in sawEmpty' BY <2>1, <4>2 DEF PumpDone
      <4>4. \A i \in 1..Len(Order) : Order[i] \in sawEmpty'
        BY <1>n, <1>t, <2>3, <3>1, <4>1, <4>3 DEF FairInv, SecondPassInv
      <4>5. \A b \in Buses : b \in sawEmpty' BY <4>4, BusAssumption
      <4> QED BY <3>1, <4>5
    <3> QED BY <2>1, <3>2, <3>3 DEF FairInv, FirstPass, SecondPassInv, FairShare, Served
  <2> QED BY <2>1, <2>2, <2>3
<1>6. CASE BatchSent
  <2>1. phase' = "idle" BY <1>6 DEF BatchSent
  <2> QED BY <2>1 DEF FairInv, FirstPass, SecondPassInv, FairShare
<1> QED BY <1>1, <1>2, <1>3, <1>4, <1>5, <1>6 DEF Drain

(* A hot bus cannot starve another: with no more buses open than a batch has  *)
(* frames, each gets its share of every batch or was found empty, and a batch *)
(* with room left took everything there was (bus.py, drain_rx), whatever the  *)
(* producers do between two get_nowait calls.                                 *)
THEOREM NoBusStarves ==
  ASSUME Len(Order) <= BatchMax
  PROVE  Spec => []FairShare
<1>1. Init => FairInv
  <2> SUFFICES ASSUME Init PROVE FairInv
    OBVIOUS
  <2>1. \A b \in Buses : Len(queue[b]) = 0 BY DEF Init
  <2>2. phase = "idle" BY DEF Init
  <2> QED BY <2>1, <2>2 DEF FairInv, OwnFrames, FirstPass, SecondPassInv, FairShare
<1>2. TypeOK /\ FairInv /\ [Next]_vars => FairInv'
  <2> SUFFICES ASSUME TypeOK, FairInv, [Next]_vars PROVE FairInv'
    OBVIOUS
  <2>0. OwnFrames' BY OwnFramesKept DEF FairInv
  <2>1. CASE Drain BY <2>0, <2>1, FairDrain
  <2>2. CASE \E t \in Threads, b \in Buses : Stamp(t, b)
    BY <2>0, <2>2, ElsewhereFair DEF Stamp, drainVars
  <2>3. CASE \E t \in Threads : Enqueue(t)
    BY <2>0, <2>3, ElsewhereFair
    DEF Enqueue, CheckFull, Evict, EvictFindsEmpty, CountEvicted, Put, PutFindsFull,
        CountRejected, drainVars
  <2>4. CASE UNCHANGED vars BY <2>0, <2>4, ElsewhereFair DEF vars
  <2> QED BY <2>1, <2>2, <2>3, <2>4 DEF Next
<1>3. FairInv => FairShare BY DEF FairInv
<1> QED BY <1>1, <1>2, <1>3, TypeCorrect, PTL DEF Spec
=============================================================================
