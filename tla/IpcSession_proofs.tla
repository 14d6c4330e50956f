------------------------- MODULE IpcSession_proofs -------------------------
(* Proofs of the safety properties of IpcSession, for any number of requests  *)
(* and any limits.                                                            *)
EXTENDS IpcSession, FiniteSetTheorems, SequenceTheorems, TLAPS

(* A lock that is free was given back with room below the high-water mark.    *)
TypeInv ==
    /\ TypeOK
    /\ holder = None /\ ~closed /\ alive => Len(down) <= HighWater
    /\ ~alive => waiting = <<>>

(* The messages on their way to main, and the answers among them.             *)
Flight  == {down[i] : i \in DOMAIN down} \cup {waiting[i].msg : i \in DOMAIN waiting}
Replies == {m \in Flight : m.kind = "reply"}

(* What an answer says is so.                                                 *)
TrueAnswer(r, ok) ==
    /\ type[r] = "open" /\ ok =>
          r \in openBuses \/ \E c \in Ids : type[c] = "close" /\ arg[c] = r
    /\ type[r] = "open" /\ ~ok => r \notin openBuses
    /\ type[r] = "close" => arg[r] \notin openBuses

Settled(r) == outcome[r] \in {"resolved", "refused"}

(* The numbers of requests that were made, and what a close is for.           *)
RequestInv ==
    /\ \A r \in Ids : /\ r > requestSeq <=> type[r] = "none"
                      /\ r > requestSeq <=> outcome[r] = "none"
    /\ \A r \in Ids : type[r] = "close" =>
          arg[r] \in Ids /\ type[arg[r]] = "open" /\ outcome[arg[r]] = "resolved"
    /\ \A r \in openBuses : type[r] = "open"

(* A request the engine has not read yet has no answer, and is there once.    *)
UpInv ==
    /\ \A i \in DOMAIN up :
          /\ up[i] <= requestSeq
          /\ ~Settled(up[i])
          /\ \A m \in Replies : m.id # up[i]
          /\ up[i] \notin openBuses
    /\ \A i, j \in DOMAIN up : i < j => up[i] < up[j]

(* An answer on its way is true, and stays so until it arrives.               *)
ReplyInv ==
    \A m \in Replies : m.id <= requestSeq /\ (alive => TrueAnswer(m.id, m.ok))

AnswerInv == RequestInv /\ UpInv /\ ReplyInv /\ AnswersAreTrue

-----------------------------------------------------------------------------
(* Types *)

(* What a write or a wait for the lock keeps.                                 *)
WriteType ==
    /\ down \in Seq(Messages) /\ Len(down) <= HighWater + 1
    /\ ended \subseteq Tasks /\ holder \in Tasks \cup {None}
    /\ waiting \in Seq([task : Tasks, msg : Messages])
    /\ holder = None /\ ~closed /\ alive => Len(down) <= HighWater

LEMMA WriteKept ==
  ASSUME WriteType, alive, holder = None, NEW t \in Tasks, NEW m \in Messages,
         Write(t, m), closed' = closed, alive' = alive,
         waiting' \in Seq([task : Tasks, msg : Messages])
  PROVE  WriteType'
<1>1. CASE holder' = t /\ ended' = ended /\ down' = IF closed THEN down ELSE Append(down, m)
  <2>1. t # None
    BY NoneAssumption DEF Tasks
  <2>2. down' \in Seq(Messages) /\ Len(down') <= HighWater + 1
    BY <1>1, HighWaterAssumption DEF WriteType
  <2> QED
    BY <1>1, <2>1, <2>2 DEF WriteType
<1>2. CASE holder' = None /\ ended' = ended \cup {t} /\ down' = down
  BY <1>2 DEF WriteType
<1> QED
  BY <1>1, <1>2 DEF Write

LEMMA SendKept ==
  ASSUME WriteType, alive, NEW t \in Tasks, NEW m \in Messages,
         Send(t, m), closed' = closed, alive' = alive
  PROVE  WriteType'
<1>1. CASE holder = None /\ waiting = <<>>
  BY <1>1, WriteKept DEF Send, WriteType
<1>2. CASE ~(holder = None /\ waiting = <<>>)
  <2>1. /\ waiting' = Append(waiting, [task |-> t, msg |-> m])
        /\ UNCHANGED <<down, ended, holder>>
    BY <1>2 DEF Send
  <2>2. waiting' \in Seq([task : Tasks, msg : Messages])
    BY <2>1 DEF WriteType
  <2> QED
    BY <2>1, <2>2 DEF WriteType
<1> QED
  BY <1>1, <1>2

(* The number of pending requests only grows below the cap.                   *)
LEMMA PendingCount ==
  ASSUME NEW S \in SUBSET Ids
  PROVE  /\ IsFiniteSet(S) /\ Cardinality(S) \in Nat
         /\ \A r : Cardinality(S \ {r}) <= Cardinality(S)
         /\ \A r : Cardinality(S \cup {r}) <= Cardinality(S) + 1
<1>1. IsFiniteSet(Ids)
  BY FS_Interval, MaxRequestsAssumption DEF Ids
<1>2. IsFiniteSet(S) /\ Cardinality(S) \in Nat
  BY <1>1, FS_Subset, FS_CardinalityType
<1>3. ASSUME NEW r PROVE Cardinality(S \ {r}) <= Cardinality(S)
  <2>1. Cardinality(S \ {r}) = IF r \in S THEN Cardinality(S) - 1 ELSE Cardinality(S)
    BY <1>2, FS_RemoveElement, Zenon
  <2> QED
    BY <1>2, <2>1
<1>4. ASSUME NEW r PROVE Cardinality(S \cup {r}) <= Cardinality(S) + 1
  <2>1. Cardinality(S \cup {r}) = IF r \in S THEN Cardinality(S) ELSE Cardinality(S) + 1
    BY <1>2, FS_AddElement, Zenon
  <2> QED
    BY <1>2, <2>1
<1> QED
  BY <1>2, <1>3, <1>4

(* The map of pending requests is what has not been settled.                  *)
PendingType ==
    /\ requestSeq \in 0..MaxRequests
    /\ type \in [Ids -> {"none", "open", "close", "other"}]
    /\ arg \in [Ids -> Ids \cup {None}]
    /\ outcome \in [Ids -> {"none", "pending", "resolved", "refused", "timeout",
                            "disconnected"}]
    /\ pending = {r \in Ids : outcome[r] = "pending"}
    /\ Cardinality(pending) <= MaxPending

LEMMA RequestType ==
  ASSUME PendingType, NEW t \in {"open", "close", "other"}, NEW b \in Ids \cup {None},
         Request(t, b)
  PROVE  PendingType' /\ requestSeq' \in Ids
<1>1. requestSeq' \in Ids
  BY MaxRequestsAssumption DEF Request, PendingType, Ids
<1>2. Cardinality(pending') <= MaxPending
  <2>1. pending \subseteq Ids
    BY DEF PendingType
  <2>2. pending' = pending \cup {requestSeq'} /\ Cardinality(pending) < MaxPending
    BY DEF Request
  <2>3. Cardinality(pending) \in Nat /\ Cardinality(pending') <= Cardinality(pending) + 1
    BY <2>1, <2>2, PendingCount
  <2>4. Cardinality(pending') \in Nat
    BY <1>1, <2>1, <2>2, PendingCount
  <2> QED
    BY <2>2, <2>3, <2>4, MaxPendingAssumption
<1>3. pending' = {r \in Ids : outcome'[r] = "pending"}
  BY <1>1 DEF Request, PendingType
<1> QED
  BY <1>1, <1>2, <1>3 DEF Request, PendingType, Ids

LEMMA SettleType ==
  ASSUME PendingType, NEW r \in Ids, NEW how \in {"resolved", "refused", "timeout"},
         Settle(r, how), UNCHANGED <<requestSeq, type, arg>>
  PROVE  PendingType'
<1>1. Cardinality(pending') <= MaxPending
  <2>1. pending \subseteq Ids
    BY DEF PendingType
  <2>2. pending' = pending \ {r} /\ Cardinality(pending) <= MaxPending
    BY DEF Settle, PendingType
  <2>3. pending' \subseteq Ids
    BY <2>1, <2>2
  <2> QED
    BY <2>1, <2>2, <2>3, PendingCount, MaxPendingAssumption
<1> QED
  BY <1>1 DEF Settle, PendingType

LEMMA RejectType ==
  ASSUME PendingType, RejectPending, UNCHANGED <<requestSeq, type, arg>>
  PROVE  PendingType'
<1>1. Cardinality(pending') <= MaxPending
  BY FS_EmptySet, MaxPendingAssumption DEF RejectPending
<1> QED
  BY <1>1 DEF RejectPending, PendingType

LEMMA TypeInvKept == Spec => []TypeInv
<1> DEFINE RestType == /\ closed \in BOOLEAN /\ alive \in BOOLEAN
                       /\ up \in Seq(Ids)
                       /\ openBuses \subseteq Ids /\ queued \subseteq openBuses
                       /\ ~alive => waiting = <<>>
<1>0. TypeInv <=> PendingType /\ WriteType /\ RestType
  BY DEF TypeInv, TypeOK, PendingType, WriteType
<1>1. Init => TypeInv
  <2> SUFFICES ASSUME Init PROVE PendingType /\ WriteType /\ RestType
    BY <1>0
  <2>1. PendingType
    <3>1. pending = {}
      BY DEF Init
    <3>2. Cardinality(pending) <= MaxPending
      BY <3>1, FS_EmptySet, MaxPendingAssumption
    <3> QED
      BY <3>1, <3>2, MaxRequestsAssumption DEF Init, PendingType
  <2>2. WriteType
    <3>1. [kind |-> "hello"] \in Messages
      BY DEF Messages
    <3>2. down \in Seq(Messages) /\ Len(down) = 1
      BY <3>1 DEF Init
    <3>3. holder \in Tasks /\ holder # None
      BY NoneAssumption DEF Init, Tasks
    <3> QED
      BY <3>2, <3>3, HighWaterAssumption DEF Init, WriteType
  <2>3. closed \in BOOLEAN /\ alive \in BOOLEAN /\ (~alive => waiting = <<>>)
    BY Zenon DEF Init
  <2>4. up \in Seq(Ids) /\ openBuses \subseteq Ids /\ queued \subseteq openBuses
    BY DEF Init
  <2> QED
    BY <2>1, <2>2, <2>3, <2>4, Zenon
<1>2. PendingType /\ WriteType /\ RestType /\ [Next]_vars
        => PendingType' /\ WriteType' /\ RestType'
  <2> SUFFICES ASSUME PendingType, WriteType, RestType, [Next]_vars
               PROVE  PendingType' /\ WriteType' /\ RestType'
    OBVIOUS
  <2>0. UNCHANGED <<requestSeq, type, arg, pending, outcome>> => PendingType'
    BY DEF PendingType
  <2>1. ASSUME NEW t \in {"open", "close", "other"}, NEW b \in Ids \cup {None}, Request(t, b)
        PROVE  PendingType' /\ WriteType' /\ RestType'
    <3>1. PendingType' /\ requestSeq' \in Ids
      BY <2>1, RequestType
    <3>2. WriteType'
      BY <2>1 DEF Request, WriteType, writeVars
    <3>3. up' \in Seq(Ids)
      BY <2>1, <3>1 DEF Request
    <3> QED
      BY <2>1, <3>1, <3>2, <3>3 DEF Request, writeVars, busVars
  <2>2. ASSUME NEW r \in Ids, Timeout(r) PROVE PendingType' /\ WriteType' /\ RestType'
    BY <2>2, SettleType DEF Timeout, WriteType, writeVars, busVars
  <2>3. CASE Receive
    <3>1. PendingType'
      <4>1. CASE Head(down).kind = "reply" /\ Head(down).id \in pending
        BY <2>3, <4>1, SettleType DEF Receive, Dispatch, PendingType
      <4>2. CASE ~(Head(down).kind = "reply" /\ Head(down).id \in pending)
        BY <2>3, <4>2, <2>0 DEF Receive, Dispatch
      <4> QED
        BY <4>1, <4>2
    <3>2. WriteType'
      BY <2>3, HighWaterAssumption DEF Receive, WriteType
    <3> QED
      BY <2>3, <3>1, <3>2 DEF Receive, busVars
  <2>4. CASE SocketCloses
    BY <2>4, RejectType DEF SocketCloses, WriteType, writeVars, busVars
  <2>5. CASE Close
    BY <2>5, RejectType, HighWaterAssumption DEF Close, WriteType, busVars
  <2>6. CASE Handle
    <3>1. PICK ok \in BOOLEAN :
             /\ ServeOpen(Head(up), ok) \/ ServeClose(Head(up), ok) \/ ServeOther(Head(up))
             /\ Send("handler", [kind |-> "reply", id |-> Head(up), ok |-> ok])
      BY <2>6 DEF Handle
    <3>2. Head(up) \in Ids /\ up' \in Seq(Ids)
      BY <2>6 DEF Handle
    <3>3. WriteType'
      BY <2>6, <3>1, <3>2, SendKept DEF Handle, Ready, Messages, Tasks, clientVars
    <3>4. openBuses' \subseteq Ids /\ queued' \subseteq openBuses'
      BY <3>1, <3>2 DEF ServeOpen, ServeClose, ServeOther, busVars
    <3> QED
      BY <2>6, <2>0, <3>2, <3>3, <3>4 DEF Handle, Ready, clientVars
  <2>7. CASE Flush
    <3>1. [kind |-> "batch", buses |-> queued] \in Messages
      BY DEF Messages
    <3>2. WriteType'
      BY <2>7, <3>1, SendKept DEF Flush, Ready, Tasks, clientVars
    <3> QED
      BY <2>7, <2>0, <3>2 DEF Flush, Ready, clientVars
  <2>8. CASE Beat
    <3>1. WriteType'
      BY <2>8, SendKept DEF Beat, Ready, Tasks, Messages, clientVars
    <3> QED
      BY <2>8, <2>0, <3>1 DEF Beat, Ready, clientVars, busVars
  <2>9. CASE Wake
    <3>1. /\ Head(waiting).task \in Tasks /\ Head(waiting).msg \in Messages
          /\ waiting' \in Seq([task : Tasks, msg : Messages])
      <4>1. waiting \in Seq([task : Tasks, msg : Messages]) /\ waiting # <<>>
        BY <2>9 DEF Wake, WriteType
      <4>2. /\ Head(waiting) \in [task : Tasks, msg : Messages]
            /\ Tail(waiting) \in Seq([task : Tasks, msg : Messages])
        BY <4>1, HeadTailProperties
      <4> QED
        BY <2>9, <4>2 DEF Wake
    <3>2. WriteType'
      BY <2>9, <3>1, WriteKept DEF Wake, clientVars
    <3> QED
      BY <2>9, <2>0, <3>2 DEF Wake, clientVars, busVars
  <2>10. CASE Drained
    BY <2>10, <2>0 DEF Drained, WriteType, clientVars, busVars
  <2>11. CASE LosesPeer
    BY <2>11, <2>0 DEF LosesPeer, Tasks, WriteType, clientVars, busVars
  <2>12. CASE EndSession
    BY <2>12, <2>0 DEF EndSession, WriteType, clientVars, busVars
  <2>13. ASSUME NEW b \in Ids, FrameArrives(b) PROVE PendingType' /\ WriteType' /\ RestType'
    BY <2>13, <2>0 DEF FrameArrives, WriteType, clientVars, writeVars
  <2>14. CASE Die
    <3>1. down' \in Seq(Messages) /\ Len(down') <= HighWater + 1
      BY <2>14, HighWaterAssumption DEF Die, WriteType
    <3>2. WriteType'
      BY <2>14, <3>1 DEF Die, WriteType
    <3> QED
      <4>1. closed' \in BOOLEAN /\ alive' \in BOOLEAN /\ waiting' = <<>>
        BY <2>14, Zenon DEF Die, clientVars
      <4>2. up' \in Seq(Ids) /\ openBuses' \subseteq Ids /\ queued' \subseteq openBuses'
        BY <2>14 DEF Die
      <4>3. PendingType'
        BY <2>14, <2>0 DEF Die, clientVars
      <4> QED
        BY <3>2, <4>1, <4>2, <4>3, Zenon
  <2>15. CASE UNCHANGED vars
    BY <2>15, <2>0 DEF vars, WriteType
  <2> QED
    BY <2>1, <2>2, <2>3, <2>4, <2>5, <2>6, <2>7, <2>8, <2>9, <2>10, <2>11, <2>12, <2>13,
       <2>14, <2>15
    DEF Next, Client, Engine, Over
<1> QED
  BY <1>0, <1>1, <1>2, PTL DEF Spec

-----------------------------------------------------------------------------
(* Answers *)

LEMMA FlightType ==
  ASSUME TypeInv
  PROVE  /\ Flight \subseteq Messages
         /\ \A m \in Replies : m.id \in Ids /\ m.ok \in BOOLEAN
<1>1. down \in Seq(Messages) /\ waiting \in Seq([task : Tasks, msg : Messages])
  BY DEF TypeInv, TypeOK
<1>2. Flight \subseteq Messages
  <2>1. \A i \in DOMAIN down : down[i] \in Messages
    BY <1>1, ElementOfSeq
  <2>2. \A i \in DOMAIN waiting : waiting[i] \in [task : Tasks, msg : Messages]
    <3> DEFINE S == [task : Tasks, msg : Messages]
    <3>1. waiting \in Seq(S)
      BY <1>1
    <3>2. \A i \in DOMAIN waiting : waiting[i] \in S
      <4> HIDE DEF S
      <4> QED
        BY <3>1, ElementOfSeq
    <3> QED
      BY <3>2
  <2>3. \A i \in DOMAIN waiting : waiting[i].msg \in Messages
    BY <2>2
  <2> QED
    BY <2>1, <2>3 DEF Flight
<1>3. ASSUME NEW m \in Messages, m.kind = "reply" PROVE m.id \in Ids /\ m.ok \in BOOLEAN
  BY <1>3 DEF Messages
<1> QED
  BY <1>2, <1>3 DEF Replies

(* A send puts one message on its way, a wake-up none.                        *)
LEMMA WriteFlight ==
  ASSUME TypeInv, NEW t \in Tasks, NEW m \in Messages, Write(t, m)
  PROVE  \A i \in DOMAIN down' : down'[i] = m \/ (i \in DOMAIN down /\ down'[i] = down[i])
<1>1. down \in Seq(Messages)
  BY DEF TypeInv, TypeOK
<1>2. down' = down \/ down' = Append(down, m)
  BY DEF Write
<1> QED
  BY <1>1, <1>2

LEMMA SendFlight ==
  ASSUME TypeInv, NEW t \in Tasks, NEW m \in Messages, Send(t, m)
  PROVE  Flight' \subseteq Flight \cup {m}
<1>1. down \in Seq(Messages) /\ waiting \in Seq([task : Tasks, msg : Messages])
  BY DEF TypeInv, TypeOK
<1>2. CASE Write(t, m) /\ UNCHANGED waiting
  BY <1>2, WriteFlight DEF Flight
<1>3. CASE /\ waiting' = Append(waiting, [task |-> t, msg |-> m])
           /\ UNCHANGED <<down, ended, holder>>
  <2>1. \A i \in DOMAIN waiting' :
           waiting'[i].msg = m \/ (i \in DOMAIN waiting /\ waiting'[i] = waiting[i])
    BY <1>1, <1>3
  <2> QED
    BY <1>3, <2>1 DEF Flight
<1> QED
  BY <1>2, <1>3 DEF Send

LEMMA WakeFlight ==
  ASSUME TypeInv, Wake
  PROVE  Flight' \subseteq Flight
<1>1. waiting \in Seq([task : Tasks, msg : Messages]) /\ waiting # <<>>
  BY DEF TypeInv, TypeOK, Wake
<1>2. Head(waiting) \in [task : Tasks, msg : Messages] /\ Head(waiting) = waiting[1]
  <2>1. Head(waiting) \in [task : Tasks, msg : Messages]
    BY <1>1, HeadTailProperties
  <2>2. Head(waiting) = waiting[1]
    BY <1>1
  <2> QED
    BY <2>1, <2>2
<1>3. 1 \in DOMAIN waiting
  BY <1>1
<1>4. \A i \in DOMAIN down' :
         down'[i] = waiting[1].msg \/ (i \in DOMAIN down /\ down'[i] = down[i])
  BY <1>2, WriteFlight DEF Wake
<1>5. \A i \in DOMAIN waiting' : i + 1 \in DOMAIN waiting /\ waiting'[i] = waiting[i + 1]
  BY <1>1 DEF Wake
<1> QED
  BY <1>3, <1>4, <1>5 DEF Flight

(* Only the handler sends answers.                                            *)
NotHandle == \/ Client \/ Flush \/ Beat \/ Wake \/ Drained \/ LosesPeer \/ EndSession
             \/ \E b \in Ids : FrameArrives(b)
             \/ Die \/ UNCHANGED vars

LEMMA OthersSendNoReplies ==
  ASSUME TypeInv, NotHandle
  PROVE  Replies' \subseteq Replies
<1>1. down \in Seq(Messages) /\ waiting \in Seq([task : Tasks, msg : Messages])
  BY DEF TypeInv, TypeOK
<1>2. CASE Receive
  <2>1. \A i \in DOMAIN down' : i + 1 \in DOMAIN down /\ down'[i] = down[i + 1]
    BY <1>1, <1>2 DEF Receive
  <2> QED
    BY <1>2, <2>1 DEF Receive, Flight, Replies
<1>3. CASE Flush
  <2>1. [kind |-> "batch", buses |-> queued] \in Messages
    BY DEF TypeInv, TypeOK, Messages
  <2> QED
    BY <1>3, <2>1, SendFlight DEF Flush, Tasks, Replies
<1>4. CASE Beat
  BY <1>4, SendFlight DEF Beat, Tasks, Messages, Replies
<1>5. CASE Wake
  BY <1>5, WakeFlight DEF Replies
<1>6. CASE Die
  <2>1. PICK n \in 0..Len(down) : down' = SubSeq(down, 1, n)
    BY <1>6 DEF Die
  <2>2. \A i \in DOMAIN down' : i \in DOMAIN down /\ down'[i] = down[i]
    BY <1>1, <2>1
  <2>3. waiting' = <<>>
    BY <1>6 DEF Die
  <2> QED
    BY <2>2, <2>3 DEF Flight, Replies
<1>7. CASE Close \/ EndSession
  BY <1>7 DEF Close, EndSession, Flight, Replies
<1>8. CASE UNCHANGED <<down, waiting>>
  BY <1>8 DEF Flight, Replies
<1> QED
  BY <1>2, <1>3, <1>4, <1>5, <1>6, <1>7, <1>8
  DEF NotHandle, Client, Request, Timeout, SocketCloses, Drained, LosesPeer, FrameArrives,
      writeVars, vars

(* Steps that leave the engine's buses, the requests and what is answered     *)
(* alone, and send no answer.                                                 *)
LEMMA AnswersStay ==
  ASSUME AnswerInv, Replies' \subseteq Replies, UNCHANGED <<requestSeq, type, arg, alive>>,
         UNCHANGED <<up, openBuses>>,
         \A r \in Ids : outcome'[r] = outcome[r]
                          \/ (outcome[r] = "pending" /\ outcome'[r] \in {"timeout", "disconnected"}),
         up \in Seq(Ids)
  PROVE  AnswerInv'
<1>1. RequestInv'
  BY DEF AnswerInv, RequestInv
<1>2. UpInv'
  BY ElementOfSeq DEF AnswerInv, UpInv, Settled
<1>3. ReplyInv'
  BY DEF AnswerInv, ReplyInv, TrueAnswer
<1>4. AnswersAreTrue'
  BY DEF AnswerInv, AnswersAreTrue
<1> QED
  BY <1>1, <1>2, <1>3, <1>4 DEF AnswerInv

LEMMA AnswerInvKept == Spec => []AnswerInv
<1>1. Init => AnswerInv
  <2> SUFFICES ASSUME Init PROVE AnswerInv
    OBVIOUS
  <2>1. Replies = {}
    BY DEF Init, Replies, Flight
  <2> QED
    BY <2>1, MaxRequestsAssumption
    DEF Init, AnswerInv, RequestInv, UpInv, ReplyInv, AnswersAreTrue, Ids
<1>2. TypeInv /\ AnswerInv /\ [Next]_vars => AnswerInv'
  <2> SUFFICES ASSUME TypeInv, AnswerInv, [Next]_vars PROVE AnswerInv'
    OBVIOUS
  <2>0. up \in Seq(Ids)
    BY DEF TypeInv, TypeOK
  <2>1. CASE Handle
    <3>0. PICK r \in Ids : r = Head(up)
      BY <2>0, <2>1 DEF Handle
    <3>1. PICK ok \in BOOLEAN :
             /\ ServeOpen(r, ok) \/ ServeClose(r, ok) \/ ServeOther(r)
             /\ Send("handler", [kind |-> "reply", id |-> r, ok |-> ok])
      BY <2>1, <3>0 DEF Handle
    <3> DEFINE m == [kind |-> "reply", id |-> r, ok |-> ok]
    <3>2. /\ r = up[1] /\ 1 \in DOMAIN up
          /\ \A i \in DOMAIN up' : i \in Nat /\ i >= 1 /\ i + 1 \in DOMAIN up /\ up'[i] = up[i + 1]
      BY <2>0, <2>1, <3>0 DEF Handle
    <3>3. /\ r <= requestSeq /\ ~Settled(r) /\ r \notin openBuses
          /\ \A n \in Replies : n.id # r
          /\ \A i \in DOMAIN up' : r < up'[i]
      <4>1. \A i, j \in DOMAIN up : i < j => up[i] < up[j]
        BY DEF AnswerInv, UpInv
      <4>2. \A i \in DOMAIN up' : r < up'[i]
        BY <3>2, <4>1
      <4> QED
        BY <3>2, <4>2 DEF AnswerInv, UpInv
    <3>4. Replies' \subseteq Replies \cup {m}
      <4>1. m \in Messages
        BY DEF Messages
      <4>2. Flight' \subseteq Flight \cup {m}
        <5> HIDE DEF m
        <5> QED
          BY <3>1, <4>1, SendFlight DEF Tasks, m
      <4> QED
        BY <4>2 DEF Replies
    <3>5. UNCHANGED <<requestSeq, type, arg, outcome>> /\ alive /\ alive'
      BY <2>1, Zenon DEF Handle, Ready, clientVars
    <3>6. openBuses' \subseteq openBuses \cup {r} /\ (r \in openBuses' => type[r] = "open")
      BY <3>1, <3>3 DEF ServeOpen, ServeClose, ServeOther, busVars
    <3>7. TrueAnswer(r, ok)'
      BY <3>1, <3>3, <3>5 DEF ServeOpen, ServeClose, ServeOther, busVars, TrueAnswer
    <3>8. ASSUME NEW s \in Ids, s # r, NEW k \in BOOLEAN, TrueAnswer(s, k)
          PROVE  TrueAnswer(s, k)'
      <4>1. type[s] = "close" => arg[s] # r
        BY <3>3 DEF AnswerInv, RequestInv, Settled
      <4>2. s \in openBuses =>
              s \in openBuses' \/ \E c \in Ids : type[c] = "close" /\ arg[c] = s
        BY <3>1, <3>2 DEF ServeOpen, ServeClose, ServeOther, busVars
      <4> QED
        BY <3>5, <3>6, <3>8, <4>1, <4>2 DEF TrueAnswer
    <3>9. RequestInv'
      BY <3>5, <3>6 DEF AnswerInv, RequestInv
    <3>10. UpInv'
      <4>1. ASSUME NEW i \in DOMAIN up'
            PROVE  /\ up'[i] <= requestSeq' /\ outcome'[up'[i]] \notin {"resolved", "refused"}
                   /\ \A n \in Replies' : n.id # up'[i]
                   /\ up'[i] \notin openBuses'
        <5>1. i + 1 \in DOMAIN up /\ up'[i] = up[i + 1]
          BY <3>2
        <5>2. /\ up[i + 1] <= requestSeq /\ ~Settled(up[i + 1])
              /\ \A n \in Replies : n.id # up[i + 1]
              /\ up[i + 1] \notin openBuses
          BY <5>1 DEF AnswerInv, UpInv
        <5>3. up'[i] # r
          BY <2>0, <3>2, <3>3, <5>1 DEF Ids
        <5>4. \A n \in Replies' : n.id # up'[i]
          BY <3>4, <5>1, <5>2, <5>3
        <5> QED
          BY <3>5, <3>6, <5>1, <5>2, <5>3, <5>4 DEF Settled
      <4>2. \A i, j \in DOMAIN up' : i < j => up'[i] < up'[j]
        <5>1. \A i, j \in DOMAIN up : i < j => up[i] < up[j]
          BY DEF AnswerInv, UpInv
        <5>2. \A i \in DOMAIN up' : i \in Int
          BY <2>0, <2>1 DEF Handle
        <5> QED
          BY <3>2, <5>1, <5>2
      <4> QED
        BY <4>1, <4>2 DEF UpInv, Settled
    <3>11. ReplyInv'
      <4>1. ASSUME NEW n \in Replies' PROVE n.id <= requestSeq' /\ TrueAnswer(n.id, n.ok)'
        <5>1. CASE n = m
          <6>1. n.id = r /\ n.ok = ok
            BY <5>1
          <6> QED
            BY <3>3, <3>5, <3>7, <6>1
        <5>2. CASE n \in Replies
          <6>1. n.id \in Ids /\ n.ok \in BOOLEAN
            BY <5>2, FlightType
          <6>2. n.id # r /\ n.id <= requestSeq /\ TrueAnswer(n.id, n.ok)
            BY <3>3, <3>5, <5>2 DEF AnswerInv, ReplyInv
          <6> QED
            BY <3>5, <3>8, <6>1, <6>2
        <5> QED
          BY <3>4, <5>1, <5>2
      <4> QED
        BY <4>1 DEF ReplyInv
    <3>12. AnswersAreTrue'
      <4>1. ASSUME NEW s \in Ids, Settled(s)
            PROVE  /\ outcome[s] = "resolved" => TrueAnswer(s, TRUE)'
                   /\ outcome[s] = "refused" => TrueAnswer(s, FALSE)'
        <5>1. s # r
          BY <3>3, <4>1
        <5>2. /\ outcome[s] = "resolved" => TrueAnswer(s, TRUE)
              /\ outcome[s] = "refused" => TrueAnswer(s, FALSE)
          BY <3>5 DEF AnswerInv, AnswersAreTrue, TrueAnswer
        <5> QED
          BY <3>8, <5>1, <5>2
      <4> QED
        BY <3>5, <4>1 DEF AnswersAreTrue, TrueAnswer, Settled
    <3> QED
      BY <3>9, <3>10, <3>11, <3>12 DEF AnswerInv
  <2>2. CASE NotHandle
    <3>1. Replies' \subseteq Replies
      BY <2>2, OthersSendNoReplies
    <3>2. ASSUME NEW t \in {"open", "close", "other"}, NEW b \in Ids \cup {None}, Request(t, b)
          PROVE  AnswerInv'
      <4> DEFINE n == requestSeq'
      <4>1. /\ n \in Ids /\ n = requestSeq + 1 /\ requestSeq \in Nat
            /\ type' = [type EXCEPT ![n] = t] /\ arg' = [arg EXCEPT ![n] = b]
            /\ outcome' = [outcome EXCEPT ![n] = "pending"]
            /\ type[n] = "none" /\ outcome[n] = "none"
            /\ \A r \in Ids : r # n => (r > n <=> r > requestSeq)
        <5>1. n \in Ids /\ n = requestSeq + 1 /\ requestSeq \in Nat
          BY <3>2, MaxRequestsAssumption DEF Request, TypeInv, TypeOK, Ids
        <5>2. type[n] = "none" /\ outcome[n] = "none"
          BY <5>1 DEF AnswerInv, RequestInv
        <5>3. \A r \in Ids : r # n => (r > n <=> r > requestSeq)
          BY <5>1 DEF Ids
        <5> QED
          BY <3>2, <5>1, <5>2, <5>3 DEF Request
      <4>2. UNCHANGED <<alive, openBuses>>
        BY <3>2 DEF Request, busVars
      <4>3. \A r \in Ids : r # n => type'[r] = type[r] /\ arg'[r] = arg[r] /\ outcome'[r] = outcome[r]
        BY <4>1 DEF TypeInv, TypeOK
      <4>4. type'[n] = t /\ arg'[n] = b /\ outcome'[n] = "pending"
        BY <4>1 DEF TypeInv, TypeOK
      <4>5. t = "close" => b \in Ids /\ type[b] = "open" /\ outcome[b] = "resolved" /\ b # n
        BY <3>2, <4>1 DEF Request, Askable
      <4>6. n \notin openBuses /\ \A c \in Ids : type[c] = "close" => arg[c] # n
        BY <4>1 DEF AnswerInv, RequestInv
      <4>7. RequestInv'
        <5>1. ASSUME NEW r \in Ids
              PROVE  /\ r > n <=> type'[r] = "none"
                     /\ r > n <=> outcome'[r] = "none"
          <6>1. CASE r = n
            BY <4>1, <4>4, <6>1
          <6>2. CASE r # n
            BY <4>1, <4>3, <6>2 DEF AnswerInv, RequestInv
          <6> QED
            BY <6>1, <6>2
        <5>2. ASSUME NEW r \in Ids, type'[r] = "close"
              PROVE  arg'[r] \in Ids /\ type'[arg'[r]] = "open" /\ outcome'[arg'[r]] = "resolved"
          <6>1. CASE r = n
            BY <4>3, <4>4, <4>5, <5>2, <6>1
          <6>2. CASE r # n
            <7>1. arg[r] \in Ids /\ type[arg[r]] = "open" /\ outcome[arg[r]] = "resolved"
              BY <4>3, <5>2, <6>2 DEF AnswerInv, RequestInv
            <7> QED
              BY <4>1, <4>3, <6>2, <7>1
          <6> QED
            BY <6>1, <6>2
        <5>3. \A r \in openBuses : type'[r] = "open"
          BY <4>3, <4>6 DEF AnswerInv, RequestInv, TypeInv, TypeOK
        <5> QED
          BY <4>2, <5>1, <5>2, <5>3 DEF RequestInv
      <4>8. \A m \in Replies' : m.id \in Ids /\ m.id # n /\ m.ok \in BOOLEAN
        BY <3>1, <4>1, FlightType DEF AnswerInv, ReplyInv
      <4>9. UpInv'
        <5>1. up' = up \/ up' = Append(up, n)
          BY <3>2 DEF Request
        <5>2. \A i \in DOMAIN up' : (i \in DOMAIN up /\ up'[i] = up[i]) \/ (i = Len(up) + 1 /\ up'[i] = n)
          BY <2>0, <5>1
        <5>3. \A i \in DOMAIN up : up[i] \in Ids /\ up[i] # n /\ up[i] < n /\ i \in 1..Len(up)
          <6>1. \A i \in DOMAIN up : up[i] \in Ids /\ i \in 1..Len(up)
            BY <2>0, ElementOfSeq
          <6>2. \A i \in DOMAIN up : up[i] <= requestSeq
            BY DEF AnswerInv, UpInv
          <6> QED
            BY <4>1, <6>1, <6>2 DEF Ids
        <5>4. ASSUME NEW i \in DOMAIN up'
              PROVE  /\ up'[i] <= n /\ outcome'[up'[i]] \notin {"resolved", "refused"}
                     /\ \A m \in Replies' : m.id # up'[i]
                     /\ up'[i] \notin openBuses'
          <6>1. CASE up'[i] = n
            BY <4>1, <4>2, <4>4, <4>6, <4>8, <6>1 DEF Settled
          <6>2. CASE i \in DOMAIN up /\ up'[i] = up[i]
            <7>1. /\ outcome[up[i]] \notin {"resolved", "refused"}
                  /\ \A m \in Replies : m.id # up[i]
                  /\ up[i] \notin openBuses
              BY <6>2 DEF AnswerInv, UpInv, Settled
            <7>2. up[i] \in Ids /\ up[i] # n /\ up[i] <= n
              BY <4>1, <5>3, <6>2 DEF Ids
            <7> QED
              BY <3>1, <4>2, <4>3, <6>2, <7>1, <7>2
          <6> QED
            BY <5>2, <6>1, <6>2
        <5>5. \A i, j \in DOMAIN up' : i < j => up'[i] < up'[j]
          BY <2>0, <5>2, <5>3 DEF AnswerInv, UpInv
        <5> QED
          BY <5>4, <5>5 DEF UpInv, Settled
      <4>10. ASSUME NEW s \in Ids, s # n, NEW k \in BOOLEAN, TrueAnswer(s, k)
             PROVE  TrueAnswer(s, k)'
        <5>1. \A c \in Ids : type[c] = "close" => c # n
          BY <4>1
        <5> QED
          BY <4>2, <4>3, <4>10, <5>1 DEF TrueAnswer
      <4>11. ReplyInv'
        <5>1. ASSUME NEW m \in Replies' PROVE m.id <= n /\ (alive => TrueAnswer(m.id, m.ok)')
          <6>1. m.id \in Ids /\ m.id # n /\ m.ok \in BOOLEAN
            BY <4>8
          <6>2. m.id <= requestSeq /\ (alive => TrueAnswer(m.id, m.ok))
            BY <3>1 DEF AnswerInv, ReplyInv
          <6>3. m.id <= n
            BY <4>1, <6>1, <6>2 DEF Ids
          <6>4. alive => TrueAnswer(m.id, m.ok)'
            BY <4>10, <6>1, <6>2
          <6> QED
            BY <6>3, <6>4
        <5> QED
          BY <4>2, <5>1 DEF ReplyInv
      <4>12. AnswersAreTrue'
        <5>1. ASSUME NEW s \in Ids, alive
              PROVE  /\ outcome'[s] = "resolved" => TrueAnswer(s, TRUE)'
                     /\ outcome'[s] = "refused" => TrueAnswer(s, FALSE)'
          <6>1. CASE s = n
            BY <4>4, <6>1
          <6>2. CASE s # n
            <7>1. /\ outcome[s] = "resolved" => TrueAnswer(s, TRUE)
                  /\ outcome[s] = "refused" => TrueAnswer(s, FALSE)
              BY <5>1 DEF AnswerInv, AnswersAreTrue, TrueAnswer
            <7> QED
              BY <4>3, <4>10, <6>2, <7>1
          <6> QED
            BY <6>1, <6>2
        <5> QED
          BY <4>2, <5>1 DEF AnswersAreTrue, TrueAnswer
      <4> QED
        BY <4>7, <4>9, <4>11, <4>12 DEF AnswerInv
    <3>3. CASE Receive
      <4>1. CASE Head(down).kind = "reply" /\ Head(down).id \in pending
        <5> DEFINE m == Head(down)
        <5>1. m \in Replies
          <6>1. m = down[1] /\ 1 \in DOMAIN down
            BY <3>3 DEF Receive, TypeInv, TypeOK
          <6> QED
            BY <4>1, <6>1 DEF Flight, Replies
        <5>2. m.id \in Ids /\ m.ok \in BOOLEAN /\ outcome[m.id] = "pending"
          BY <4>1, <5>1, FlightType DEF TypeInv, TypeOK
        <5>3. outcome' = [outcome EXCEPT ![m.id] = IF m.ok THEN "resolved" ELSE "refused"]
          BY <3>3, <4>1 DEF Receive, Dispatch, Settle
        <5>4. /\ \A s \in Ids : s # m.id => outcome'[s] = outcome[s]
              /\ outcome'[m.id] = IF m.ok THEN "resolved" ELSE "refused"
          BY <5>2, <5>3 DEF TypeInv, TypeOK
        <5>5. UNCHANGED <<requestSeq, type, arg, alive, up, openBuses>>
          BY <3>3 DEF Receive, busVars
        <5>6. RequestInv'
          <6>1. ASSUME NEW r \in Ids PROVE outcome[r] = "none" <=> outcome'[r] = "none"
            BY <5>2, <5>4
          <6>2. ASSUME NEW r \in Ids, outcome[r] = "resolved" PROVE outcome'[r] = "resolved"
            BY <5>2, <5>4, <6>2
          <6> QED
            BY <5>5, <6>1, <6>2 DEF AnswerInv, RequestInv
        <5>7. UpInv'
          <6>1. \A i \in DOMAIN up : up[i] \in Ids /\ up[i] # m.id
            BY <2>0, <5>1, ElementOfSeq DEF AnswerInv, UpInv
          <6> QED
            BY <3>1, <5>4, <5>5, <6>1 DEF AnswerInv, UpInv, Settled
        <5>8. ReplyInv'
          BY <3>1, <5>5 DEF AnswerInv, ReplyInv, TrueAnswer
        <5>9. AnswersAreTrue'
          <6>1. ASSUME NEW s \in Ids, alive
                PROVE  /\ outcome'[s] = "resolved" => TrueAnswer(s, TRUE)
                       /\ outcome'[s] = "refused" => TrueAnswer(s, FALSE)
            <7>1. CASE s = m.id
              <8>1. TrueAnswer(s, m.ok)
                BY <5>1, <6>1, <7>1 DEF AnswerInv, ReplyInv
              <8>2. CASE m.ok = TRUE
                BY <5>4, <7>1, <8>1, <8>2
              <8>3. CASE m.ok = FALSE
                BY <5>4, <7>1, <8>1, <8>3
              <8> QED
                BY <5>2, <8>2, <8>3
            <7>2. CASE s # m.id
              BY <5>4, <6>1, <7>2 DEF AnswerInv, AnswersAreTrue, TrueAnswer
            <7> QED
              BY <7>1, <7>2
          <6> QED
            BY <5>5, <6>1 DEF AnswersAreTrue, TrueAnswer
        <5> QED
          BY <5>6, <5>7, <5>8, <5>9 DEF AnswerInv
      <4>2. CASE ~(Head(down).kind = "reply" /\ Head(down).id \in pending)
        <5>1. UNCHANGED <<requestSeq, type, arg, alive, up, openBuses, outcome>>
          BY <3>3, <4>2 DEF Receive, Dispatch, busVars
        <5> QED
          BY <2>0, <3>1, <5>1, AnswersStay
      <4> QED
        BY <4>1, <4>2
    <3>4. CASE Die
      <4>1. up' = <<>> /\ openBuses' = {} /\ UNCHANGED <<requestSeq, type, arg, outcome>>
        BY <3>4 DEF Die, clientVars
      <4>2. ~alive'
        BY <3>4, Zenon DEF Die
      <4>3. RequestInv' /\ UpInv'
        BY <4>1 DEF AnswerInv, RequestInv, UpInv
      <4>4. ReplyInv' /\ AnswersAreTrue'
        BY <3>1, <4>1, <4>2 DEF AnswerInv, ReplyInv, AnswersAreTrue
      <4> QED
        BY <4>3, <4>4 DEF AnswerInv
    <3>5. CASE \/ \E r \in Ids : Timeout(r)
               \/ SocketCloses \/ Close
      <4>1. \A s \in Ids : outcome'[s] = outcome[s]
                              \/ (outcome[s] = "pending" /\ outcome'[s] \in {"timeout", "disconnected"})
        BY <3>5 DEF Timeout, Settle, SocketCloses, Close, RejectPending, TypeInv, TypeOK
      <4>2. UNCHANGED <<requestSeq, type, arg, alive, up, openBuses>>
        BY <3>5 DEF Timeout, SocketCloses, Close, busVars
      <4> QED
        BY <2>0, <3>1, <4>1, <4>2, AnswersStay
    <3>6. CASE UNCHANGED <<requestSeq, type, arg, alive, up, openBuses, outcome>>
      BY <2>0, <3>1, <3>6, AnswersStay
    <3> QED
      BY <2>2, <3>2, <3>3, <3>4, <3>5, <3>6
      DEF NotHandle, Client, Flush, Beat, Wake, Drained, LosesPeer, EndSession, FrameArrives,
          clientVars, busVars, vars
  <2> QED
    BY <2>1, <2>2 DEF Next, Engine, Over, NotHandle
<1> QED
  BY <1>1, <1>2, TypeInvKept, PTL DEF Spec

-----------------------------------------------------------------------------
(* Order *)

(* The messages before the i-th of those unsent, and of those that wait.      *)
Before(d, i)        == {d[j] : j \in 1..(i - 1)}
WaitBefore(d, w, i) == {d[j] : j \in DOMAIN d} \cup {w[j].msg : j \in 1..(i - 1)}

IsReply(m, r) == m.kind = "reply" /\ m.id = r

(* A batch after the messages of S: main knows each of its buses, or will from *)
(* an answer in S, and has not been told, in S or before, that one is closed.  *)
InOrder(m, S, ty, ar, pe, out) ==
    m.kind = "batch" =>
        \A b \in m.buses :
            /\ b \in Ids /\ ty[b] = "open"
            /\ b \notin pe \/ \E n \in S : IsReply(n, b)
            /\ \A c \in Ids : ty[c] = "close" /\ ar[c] = b =>
                  /\ out[c] \notin {"resolved", "refused"}
                  /\ \A n \in S : ~IsReply(n, c)

DownInv ==
    \A i \in DOMAIN down : InOrder(down[i], Before(down, i), type, arg, pending, outcome)

WaitInv ==
    \A i \in DOMAIN waiting :
        InOrder(waiting[i].msg, WaitBefore(down, waiting, i), type, arg, pending, outcome)

(* A batch of every open bus may be sent at any time.                          *)
OpenInv ==
    alive => InOrder([kind |-> "batch", buses |-> openBuses], Flight, type, arg, pending, outcome)

ClosedInv == closed => pending = {}

OrderInv == ClosedInv /\ DownInv /\ WaitInv /\ OpenInv

LEMMA InOrderFewer ==
  ASSUME NEW m, NEW S, NEW T, NEW ty, NEW ar, NEW pe, NEW out,
         InOrder(m, S, ty, ar, pe, out), T \subseteq S,
         pe = {} \/ \A n \in S \ T : n.kind # "reply"
  PROVE  InOrder(m, T, ty, ar, pe, out)
BY DEF InOrder, IsReply

(* The client's part of a step, for a batch that stays where it is.            *)
LEMMA ClientQuiet ==
  ASSUME NEW m, NEW S, InOrder(m, S, type, arg, pending, outcome),
         UNCHANGED <<type, arg>>, pending' \subseteq pending,
         \A r \in Ids : outcome'[r] = outcome[r] \/ outcome'[r] \in {"timeout", "disconnected"}
  PROVE  InOrder(m, S, type', arg', pending', outcome')
BY DEF InOrder

LEMMA ClientReceives ==
  ASSUME TypeInv, NEW m, NEW S, Receive,
         InOrder(m, {Head(down)} \cup S, type, arg, pending, outcome)
  PROVE  InOrder(m, S, type', arg', pending', outcome')
<1> DEFINE h == Head(down)
<1>1. UNCHANGED <<type, arg>>
  BY DEF Receive
<1>2. CASE h.kind = "reply" /\ h.id \in pending
  <2>1. pending' = pending \ {h.id}
    BY <1>2 DEF Receive, Dispatch, Settle
  <2>2. \A r \in Ids : r # h.id => outcome'[r] = outcome[r]
    BY <1>2 DEF Receive, Dispatch, Settle, TypeInv, TypeOK
  <2>3. IsReply(h, h.id)
    BY <1>2 DEF IsReply
  <2>4. \A r \in pending' : ~IsReply(h, r)
    BY <2>1 DEF IsReply
  <2> HIDE DEF h
  <2>5. InOrder(m, {h} \cup S, type, arg, pending, outcome)
    BY DEF h
  <2> QED
    BY <1>1, <2>1, <2>2, <2>3, <2>4, <2>5 DEF InOrder
<1>3. CASE ~(h.kind = "reply" /\ h.id \in pending)
  <2>1. UNCHANGED <<pending, outcome>>
    BY <1>3 DEF Receive, Dispatch
  <2>2. \A r \in pending : ~IsReply(h, r)
    BY <1>3 DEF IsReply
  <2> HIDE DEF h
  <2>3. InOrder(m, {h} \cup S, type, arg, pending, outcome)
    BY DEF h
  <2> QED
    BY <1>1, <2>1, <2>2, <2>3 DEF InOrder
<1> QED
  BY <1>2, <1>3

(* A write puts a message behind those that are unsent, or drops it: a batch,  *)
(* or any when main has closed.                                                *)
LEMMA WriteOrder ==
  ASSUME TypeInv, DownInv, NEW t \in Tasks, NEW m \in Messages, Write(t, m),
         InOrder(m, {down[j] : j \in DOMAIN down}, type, arg, pending, outcome),
         UNCHANGED <<type, arg, pending, outcome>>
  PROVE  DownInv'
<1>1. down \in Seq(Messages)
  BY DEF TypeInv, TypeOK
<1>2. CASE down' = down
  BY <1>2 DEF DownInv
<1>3. CASE down' = Append(down, m)
  <2>1. ASSUME NEW i \in DOMAIN down, i \in DOMAIN down'
        PROVE  InOrder(down'[i], Before(down', i), type, arg, pending, outcome)
    <3>1. down'[i] = down[i] /\ Before(down', i) = Before(down, i)
      BY <1>1, <1>3 DEF Before
    <3> QED
      BY <3>1 DEF DownInv
  <2>2. Before(down', Len(down) + 1) = {down[j] : j \in DOMAIN down}
    BY <1>1, <1>3 DEF Before
  <2>3. \A i \in DOMAIN down' : i \in DOMAIN down \/ i = Len(down) + 1
    BY <1>1, <1>3
  <2>4. down'[Len(down) + 1] = m
    BY <1>1, <1>3
  <2> QED
    BY <2>1, <2>2, <2>3, <2>4 DEF DownInv
<1> QED
  BY <1>2, <1>3 DEF Write

LEMMA SendOrder ==
  ASSUME TypeInv, OrderInv, NEW t \in Tasks, NEW m \in Messages, Send(t, m),
         InOrder(m, Flight, type, arg, pending, outcome),
         UNCHANGED <<type, arg, pending, outcome>>
  PROVE  /\ DownInv' /\ WaitInv'
         /\ Flight \subseteq Flight'
         /\ m.kind = "reply" => pending = {} \/ m \in Flight'
<1>1. down \in Seq(Messages) /\ waiting \in Seq([task : Tasks, msg : Messages])
  BY DEF TypeInv, TypeOK
<1>2. CASE waiting = <<>> /\ Write(t, m) /\ UNCHANGED waiting
  <2>1. Flight = {down[j] : j \in DOMAIN down}
    BY <1>2 DEF Flight
  <2>2. DownInv'
    BY <1>2, <2>1, WriteOrder DEF OrderInv
  <2>3. WaitInv'
    BY <1>2 DEF WaitInv
  <2>4. CASE m.kind # "batch" /\ ~closed
    <3>1. down' = Append(down, m)
      BY <1>2, <2>4 DEF Write
    <3>2. /\ \A i \in DOMAIN down : i \in DOMAIN down' /\ down'[i] = down[i]
          /\ Len(down) + 1 \in DOMAIN down' /\ down'[Len(down) + 1] = m
      BY <1>1, <3>1
    <3> QED
      BY <1>2, <2>2, <2>3, <3>2 DEF Flight
  <2>5. CASE m.kind = "batch" \/ closed
    <3>1. \A i \in DOMAIN down : i \in DOMAIN down' /\ down'[i] = down[i]
      BY <1>1, <1>2 DEF Write
    <3>2. m.kind = "reply" => pending = {}
      BY <2>5 DEF OrderInv, ClosedInv
    <3> QED
      BY <1>2, <2>2, <2>3, <3>1, <3>2 DEF Flight
  <2> QED
    BY <2>4, <2>5
<1>3. CASE /\ waiting' = Append(waiting, [task |-> t, msg |-> m])
           /\ UNCHANGED <<down, ended, holder>>
  <2>1. /\ \A i \in DOMAIN waiting : i \in DOMAIN waiting' /\ waiting'[i] = waiting[i]
        /\ Len(waiting) + 1 \in DOMAIN waiting' /\ waiting'[Len(waiting) + 1].msg = m
        /\ \A i \in DOMAIN waiting' : i \in DOMAIN waiting \/ i = Len(waiting) + 1
        /\ DOMAIN waiting = 1..Len(waiting) /\ Len(waiting) \in Nat
    BY <1>1, <1>3
  <2>2. DownInv'
    BY <1>3 DEF OrderInv, DownInv
  <2>3. WaitInv'
    <3>1. ASSUME NEW i \in DOMAIN waiting
          PROVE  InOrder(waiting'[i].msg, WaitBefore(down', waiting', i), type, arg, pending, outcome)
      <4>1. \A j \in 1..(i - 1) : waiting'[j] = waiting[j]
        BY <2>1
      <4>2. WaitBefore(down', waiting', i) = WaitBefore(down, waiting, i)
        BY <1>3, <4>1 DEF WaitBefore
      <4> QED
        BY <2>1, <4>2 DEF OrderInv, WaitInv
    <3>2. WaitBefore(down', waiting', Len(waiting) + 1) = Flight
      <4>1. 1..((Len(waiting) + 1) - 1) = DOMAIN waiting
        BY <2>1
      <4> QED
        BY <1>3, <2>1, <4>1 DEF WaitBefore, Flight
    <3> QED
      BY <2>1, <3>1, <3>2 DEF WaitInv
  <2>4. Flight \subseteq Flight' /\ m \in Flight'
    BY <1>3, <2>1 DEF Flight
  <2> QED
    BY <2>2, <2>3, <2>4
<1> QED
  BY <1>2, <1>3 DEF Send

(* The first waiter's message goes behind those that are unsent.               *)
LEMMA WakeOrder ==
  ASSUME TypeInv, OrderInv, Wake
  PROVE  OrderInv'
<1> DEFINE m == waiting[1].msg
<1>1. /\ down \in Seq(Messages) /\ waiting \in Seq([task : Tasks, msg : Messages])
      /\ waiting # <<>>
  BY DEF TypeInv, TypeOK, Wake
<1>2. /\ Head(waiting) = waiting[1] /\ 1 \in DOMAIN waiting
      /\ \A i \in DOMAIN waiting' : i + 1 \in DOMAIN waiting /\ waiting'[i] = waiting[i + 1]
      /\ DOMAIN waiting' \subseteq Nat \ {0}
  BY <1>1 DEF Wake
<1>3. waiting[1].task \in Tasks /\ m \in Messages
  <2>1. Head(waiting) \in [task : Tasks, msg : Messages]
    BY <1>1, HeadTailProperties
  <2> QED
    BY <1>2, <2>1
<1>4. UNCHANGED <<type, arg, pending, outcome, closed, alive, openBuses>>
  BY DEF Wake, clientVars, busVars
<1>5. Write(waiting[1].task, m)
  BY <1>2 DEF Wake
<1>6. DownInv'
  <2>1. WaitBefore(down, waiting, 1) = {down[j] : j \in DOMAIN down}
    BY DEF WaitBefore
  <2>2. InOrder(m, {down[j] : j \in DOMAIN down}, type, arg, pending, outcome)
    BY <1>2, <2>1 DEF OrderInv, WaitInv
  <2> HIDE DEF m
  <2> QED
    BY <1>3, <1>4, <1>5, <2>2, WriteOrder DEF OrderInv
<1>7. /\ {down'[j] : j \in DOMAIN down'} \subseteq {down[j] : j \in DOMAIN down} \cup {m}
      /\ {down[j] : j \in DOMAIN down} \subseteq {down'[j] : j \in DOMAIN down'}
      /\ \/ pending = {} \/ m.kind = "batch" \/ m \in {down'[j] : j \in DOMAIN down'}
  <2>1. CASE down' = down /\ (closed \/ m.kind = "batch")
    BY <2>1 DEF OrderInv, ClosedInv
  <2>2. CASE down' = Append(down, m)
    <3>1. /\ \A i \in DOMAIN down : i \in DOMAIN down' /\ down'[i] = down[i]
          /\ Len(down) + 1 \in DOMAIN down' /\ down'[Len(down) + 1] = m
          /\ \A i \in DOMAIN down' : i \in DOMAIN down \/ i = Len(down) + 1
      BY <1>1, <2>2
    <3> QED
      BY <3>1
  <2> QED
    BY <1>5, <2>1, <2>2 DEF Write
<1>8. WaitInv'
  <2> SUFFICES ASSUME NEW i \in DOMAIN waiting'
               PROVE  InOrder(waiting'[i].msg, WaitBefore(down', waiting', i),
                              type, arg, pending, outcome)
    BY <1>4 DEF WaitInv
  <2> DEFINE Old == WaitBefore(down, waiting, i + 1)
             New == WaitBefore(down', waiting', i)
  <2>1. InOrder(waiting'[i].msg, Old, type, arg, pending, outcome)
    BY <1>2 DEF OrderInv, WaitInv
  <2>2. Old = {down[j] : j \in DOMAIN down} \cup {m} \cup {waiting'[j].msg : j \in 1..(i - 1)}
    <3>1. \A j \in 1..(i - 1) : j \in DOMAIN waiting'
      BY <1>1, <1>2 DEF Wake
    <3>2. \A j \in 1..(i - 1) : waiting'[j].msg = waiting[j + 1].msg /\ j + 1 \in 1..((i + 1) - 1)
      BY <1>2, <3>1
    <3>3. \A j \in 1..((i + 1) - 1) : j = 1 \/ (j - 1 \in 1..(i - 1) /\ waiting[j].msg = waiting'[j - 1].msg)
      BY <1>2, <3>1
    <3>4. {waiting[j].msg : j \in 1..((i + 1) - 1)} = {m} \cup {waiting'[j].msg : j \in 1..(i - 1)}
      <4>1. 1 \in 1..((i + 1) - 1)
        BY <1>2
      <4> QED
        BY <3>2, <3>3, <4>1
    <3> QED
      BY <3>4 DEF WaitBefore
  <2>3. New \subseteq Old /\ (pending = {} \/ \A n \in Old \ New : n.kind # "reply")
    BY <1>7, <2>2 DEF WaitBefore
  <2> HIDE DEF Old, New
  <2>4. InOrder(waiting'[i].msg, New, type, arg, pending, outcome)
    BY <2>1, <2>3, InOrderFewer
  <2> QED
    BY <2>4 DEF New
<1>9. OpenInv'
  <2>1. \A i \in DOMAIN waiting : i = 1 \/ (i - 1 \in DOMAIN waiting' /\ waiting'[i - 1] = waiting[i])
    BY <1>1 DEF Wake
  <2>2. Flight' \subseteq Flight
    BY WakeFlight
  <2>3. pending = {} \/ \A n \in Flight \ Flight' : n.kind # "reply"
    BY <1>7, <2>1 DEF Flight
  <2>4. alive => InOrder([kind |-> "batch", buses |-> openBuses], Flight',
                         type, arg, pending, outcome)
    BY <2>2, <2>3, InOrderFewer DEF OrderInv, OpenInv
  <2> QED
    BY <1>4, <2>4 DEF OpenInv
<1>10. ClosedInv'
  BY <1>4 DEF OrderInv, ClosedInv
<1> QED
  BY <1>6, <1>8, <1>9, <1>10 DEF OrderInv

(* An answer goes behind all that is on its way, and what it says of the open  *)
(* buses is known when it arrives.                                             *)
LEMMA HandleOrder ==
  ASSUME TypeInv, AnswerInv, OrderInv, Handle
  PROVE  OrderInv'
<1>0. up \in Seq(Ids) /\ up # <<>>
  BY DEF TypeInv, TypeOK, Handle
<1>1. PICK r \in Ids : r = Head(up) /\ r = up[1] /\ 1 \in DOMAIN up
  BY <1>0
<1>2. PICK ok \in BOOLEAN :
         /\ ServeOpen(r, ok) \/ ServeClose(r, ok) \/ ServeOther(r)
         /\ Send("handler", [kind |-> "reply", id |-> r, ok |-> ok])
  BY <1>1 DEF Handle
<1> DEFINE m == [kind |-> "reply", id |-> r, ok |-> ok]
<1>3. ~Settled(r) /\ r \notin openBuses
  BY <1>1 DEF AnswerInv, UpInv
<1>4. UNCHANGED <<type, arg, pending, outcome, closed>> /\ alive
  BY Zenon DEF Handle, Ready, clientVars
<1>5. m \in Messages /\ m.kind = "reply" /\ m.id = r
  BY DEF Messages
<1>6. InOrder(m, Flight, type, arg, pending, outcome)
  BY DEF InOrder
<1>7. /\ DownInv' /\ WaitInv'
      /\ Flight \subseteq Flight' /\ Flight' \subseteq Flight \cup {m}
      /\ pending = {} \/ m \in Flight'
  <2> HIDE DEF m
  <2> QED
    BY <1>2, <1>4, <1>5, <1>6, SendOrder, SendFlight DEF Tasks, m
<1>8. /\ openBuses' \subseteq openBuses \cup {r}
      /\ r \in openBuses' => type[r] = "open"
      /\ type[r] = "close" => arg[r] \notin openBuses'
  BY <1>2, <1>3 DEF ServeOpen, ServeClose, ServeOther, busVars
<1>9. ASSUME NEW b \in openBuses'
      PROVE  /\ b \in Ids /\ type[b] = "open"
             /\ b \notin pending \/ \E n \in Flight' : IsReply(n, b)
             /\ \A c \in Ids : type[c] = "close" /\ arg[c] = b =>
                   /\ outcome[c] \notin {"resolved", "refused"}
                   /\ \A n \in Flight' : ~IsReply(n, c)
  <2>1. CASE b = r
    <3>1. b \in Ids /\ type[b] = "open"
      BY <1>8, <2>1
    <3>2. b \notin pending \/ \E n \in Flight' : IsReply(n, b)
      <4>1. IsReply(m, b)
        BY <2>1 DEF IsReply
      <4> HIDE DEF m
      <4> QED
        BY <1>7, <4>1
    <3>3. \A c \in Ids : type[c] = "close" => arg[c] # b
      BY <1>3, <2>1 DEF AnswerInv, RequestInv, Settled
    <3> QED
      BY <3>1, <3>2, <3>3
  <2>2. CASE b # r
    <3>1. b \in openBuses
      BY <1>8, <2>2
    <3>2. InOrder([kind |-> "batch", buses |-> openBuses], Flight, type, arg, pending, outcome)
      BY <1>4 DEF OrderInv, OpenInv
    <3>3. /\ b \in Ids /\ type[b] = "open"
          /\ b \notin pending \/ \E n \in Flight : IsReply(n, b)
          /\ \A c \in Ids : type[c] = "close" /\ arg[c] = b =>
                /\ outcome[c] \notin {"resolved", "refused"}
                /\ \A n \in Flight : ~IsReply(n, c)
      BY <3>1, <3>2 DEF InOrder
    <3>4. \A c \in Ids : type[c] = "close" /\ arg[c] = b => ~IsReply(m, c)
      BY <1>8 DEF IsReply
    <3> HIDE DEF m
    <3> QED
      BY <1>7, <3>3, <3>4
  <2> QED
    BY <2>1, <2>2
<1>10. OpenInv'
  BY <1>4, <1>9 DEF OpenInv, InOrder
<1>11. ClosedInv'
  BY <1>4 DEF OrderInv, ClosedInv
<1> QED
  BY <1>7, <1>10, <1>11 DEF OrderInv

LEMMA ReceiveOrder ==
  ASSUME TypeInv, OrderInv, Receive
  PROVE  OrderInv'
<1> DEFINE h == Head(down)
<1>1. /\ down \in Seq(Messages) /\ down # <<>>
      /\ h = down[1] /\ 1 \in DOMAIN down
      /\ \A i \in DOMAIN down' : i + 1 \in DOMAIN down /\ down'[i] = down[i + 1]
      /\ \A i \in DOMAIN down : i = 1 \/ (i - 1 \in DOMAIN down' /\ down'[i - 1] = down[i])
      /\ DOMAIN down' \subseteq Nat \ {0}
      /\ \A i \in DOMAIN down' : \A j \in 1..(i - 1) : j \in DOMAIN down'
  BY DEF TypeInv, TypeOK, Receive
<1>2. UNCHANGED <<waiting, alive, openBuses, closed>> /\ ~closed
  BY Zenon DEF Receive, busVars
<1>3. {down[j] : j \in DOMAIN down} = {h} \cup {down'[j] : j \in DOMAIN down'}
  <2>1. ASSUME NEW j \in DOMAIN down
        PROVE  down[j] = h \/ \E k \in DOMAIN down' : down[j] = down'[k]
    <3>1. j = 1 \/ (j - 1 \in DOMAIN down' /\ down'[j - 1] = down[j])
      BY <1>1
    <3> QED
      BY <1>1, <3>1
  <2>2. \A k \in DOMAIN down' : \E j \in DOMAIN down : down'[k] = down[j]
    BY <1>1
  <2>3. \E j \in DOMAIN down : h = down[j]
    BY <1>1
  <2> QED
    BY <2>1, <2>2, <2>3
<1>4. DownInv'
  <2> SUFFICES ASSUME NEW i \in DOMAIN down'
               PROVE  InOrder(down'[i], Before(down', i), type', arg', pending', outcome')
    BY DEF DownInv
  <2>1. InOrder(down'[i], Before(down, i + 1), type, arg, pending, outcome)
    BY <1>1 DEF OrderInv, DownInv
  <2>2. Before(down, i + 1) = {h} \cup Before(down', i)
    <3>1. \A j \in 1..(i - 1) : down'[j] = down[j + 1] /\ j + 1 \in 1..((i + 1) - 1)
      BY <1>1
    <3>2. \A j \in 1..((i + 1) - 1) : j = 1 \/ (j - 1 \in 1..(i - 1) /\ down[j] = down'[j - 1])
      BY <1>1
    <3>3. 1 \in 1..((i + 1) - 1)
      BY <1>1
    <3> QED
      BY <1>1, <3>1, <3>2, <3>3 DEF Before
  <2> QED
    BY <2>1, <2>2, ClientReceives
<1>5. WaitInv'
  <2> SUFFICES ASSUME NEW i \in DOMAIN waiting
               PROVE  InOrder(waiting[i].msg, WaitBefore(down', waiting, i),
                              type', arg', pending', outcome')
    BY <1>2 DEF WaitInv
  <2>1. WaitBefore(down, waiting, i) = {h} \cup WaitBefore(down', waiting, i)
    BY <1>3 DEF WaitBefore
  <2> QED
    BY <2>1, ClientReceives DEF OrderInv, WaitInv
<1>6. OpenInv'
  <2>1. Flight = {h} \cup Flight'
    BY <1>2, <1>3 DEF Flight
  <2>2. alive => InOrder([kind |-> "batch", buses |-> openBuses], Flight',
                         type', arg', pending', outcome')
    BY <2>1, ClientReceives DEF OrderInv, OpenInv
  <2> QED
    BY <1>2, <2>2 DEF OpenInv
<1>7. ClosedInv'
  BY <1>2 DEF ClosedInv
<1> QED
  BY <1>4, <1>5, <1>6, <1>7 DEF OrderInv

(* A new request is one nothing has been said of yet.                          *)
LEMMA RequestOrder ==
  ASSUME TypeInv, AnswerInv, OrderInv,
         NEW t \in {"open", "close", "other"}, NEW b \in Ids \cup {None}, Request(t, b)
  PROVE  OrderInv'
<1> DEFINE n == requestSeq'
<1>1. /\ n \in Ids /\ n > requestSeq /\ requestSeq \in Nat
      /\ pending' = pending \cup {n}
      /\ \A r \in Ids : r # n => type'[r] = type[r] /\ arg'[r] = arg[r] /\ outcome'[r] = outcome[r]
      /\ outcome'[n] = "pending" /\ type[n] = "none"
  <2>1. n \in Ids /\ n > requestSeq /\ requestSeq \in Nat
    BY MaxRequestsAssumption DEF Request, TypeInv, TypeOK, Ids
  <2>2. type[n] = "none"
    BY <2>1 DEF AnswerInv, RequestInv
  <2> QED
    BY <2>1, <2>2 DEF Request, TypeInv, TypeOK
<1>2. UNCHANGED <<down, waiting, alive, openBuses>> /\ ~closed'
  BY Zenon DEF Request, writeVars, busVars
<1>3. \A x \in Flight : ~IsReply(x, n)
  <2>1. \A x \in Replies : x.id \in Ids /\ x.id <= requestSeq
    BY FlightType DEF AnswerInv, ReplyInv
  <2> QED
    BY <1>1, <2>1 DEF IsReply, Replies, Ids
<1>4. ASSUME NEW m, NEW S \in SUBSET Flight, InOrder(m, S, type, arg, pending, outcome)
      PROVE  InOrder(m, S, type', arg', pending', outcome')
  <2> HIDE DEF n
  <2>1. \A x \in S : ~IsReply(x, n)
    BY <1>3
  <2> QED
    BY <1>1, <1>4, <2>1 DEF InOrder
<1>5. DownInv'
  <2>1. \A i \in DOMAIN down : Before(down, i) \in SUBSET Flight
    BY DEF Before, Flight, TypeInv, TypeOK
  <2> QED
    BY <1>2, <1>4, <2>1 DEF OrderInv, DownInv
<1>6. WaitInv'
  <2>1. ASSUME NEW i \in DOMAIN waiting PROVE WaitBefore(down, waiting, i) \in SUBSET Flight
    <3>1. \A j \in 1..(i - 1) : j \in DOMAIN waiting
      BY DEF TypeInv, TypeOK
    <3> QED
      BY <3>1 DEF WaitBefore, Flight
  <2> QED
    BY <1>2, <1>4, <2>1 DEF OrderInv, WaitInv
<1>7. OpenInv'
  BY <1>2, <1>4 DEF OrderInv, OpenInv, Flight
<1>8. ClosedInv'
  BY <1>2, Zenon DEF ClosedInv
<1> QED
  BY <1>5, <1>6, <1>7, <1>8 DEF OrderInv

(* The flush loop and the heartbeat send what is in order.                     *)
LEMMA LoopOrder ==
  ASSUME TypeInv, OrderInv, NEW t \in Tasks, NEW m \in Messages, Send(t, m), m.kind # "reply",
         InOrder(m, Flight, type, arg, pending, outcome),
         UNCHANGED <<type, arg, pending, outcome, closed, alive, openBuses>>
  PROVE  OrderInv'
<1>1. DownInv' /\ WaitInv' /\ Flight \subseteq Flight' /\ Flight' \subseteq Flight \cup {m}
  BY SendOrder, SendFlight
<1>2. \A n \in Flight' \ Flight : \A r : ~IsReply(n, r)
  BY <1>1 DEF IsReply
<1>3. OpenInv'
  BY <1>1, <1>2 DEF OrderInv, OpenInv, InOrder
<1>4. ClosedInv'
  BY DEF OrderInv, ClosedInv
<1> QED
  BY <1>1, <1>3, <1>4 DEF OrderInv

(* Main gives up on requests, and both ends lose what they have not sent.      *)
LEMMA EndOrder ==
  ASSUME TypeInv, OrderInv, UNCHANGED <<type, arg>>, pending' \subseteq pending,
         \A r \in Ids : outcome'[r] = outcome[r] \/ outcome'[r] \in {"timeout", "disconnected"},
         \/ UNCHANGED <<down, waiting>>
         \/ pending' = {} /\ (UNCHANGED down \/ down' = <<>>)
                          /\ (UNCHANGED waiting \/ waiting' = <<>>),
         alive' = alive, openBuses' = openBuses, closed' => pending' = {}
  PROVE  OrderInv'
<1>1. Flight' \subseteq Flight /\ (pending' = {} \/ Flight' = Flight)
  BY DEF Flight
<1>2. DownInv'
  BY ClientQuiet DEF OrderInv, DownInv
<1>3. WaitInv'
  <2> SUFFICES ASSUME NEW i \in DOMAIN waiting, waiting' = waiting
               PROVE  InOrder(waiting[i].msg, WaitBefore(down', waiting, i),
                              type', arg', pending', outcome')
    BY DEF WaitInv
  <2>1. InOrder(waiting[i].msg, WaitBefore(down, waiting, i), type', arg', pending', outcome')
    BY ClientQuiet DEF OrderInv, WaitInv
  <2>2. WaitBefore(down', waiting, i) \subseteq WaitBefore(down, waiting, i)
    BY DEF WaitBefore
  <2> QED
    BY <2>1, <2>2, InOrderFewer
<1>4. OpenInv'
  <2>1. alive => InOrder([kind |-> "batch", buses |-> openBuses], Flight,
                         type', arg', pending', outcome')
    BY ClientQuiet DEF OrderInv, OpenInv
  <2>2. alive => InOrder([kind |-> "batch", buses |-> openBuses], Flight',
                         type', arg', pending', outcome')
    BY <1>1, <2>1, InOrderFewer
  <2> QED
    BY <2>2 DEF OpenInv
<1>5. ClosedInv'
  BY DEF ClosedInv
<1> QED
  BY <1>2, <1>3, <1>4, <1>5 DEF OrderInv

LEMMA DieOrder ==
  ASSUME TypeInv, OrderInv, Die
  PROVE  OrderInv'
<1>1. PICK k \in 0..Len(down) : down' = SubSeq(down, 1, k)
  BY DEF Die
<1>2. \A i \in DOMAIN down' : i \in DOMAIN down /\ down'[i] = down[i]
                              /\ \A j \in 1..(i - 1) : down'[j] = down[j]
  BY <1>1 DEF TypeInv, TypeOK
<1>3. waiting' = <<>> /\ UNCHANGED <<type, arg, pending, outcome, closed>>
  BY DEF Die, clientVars
<1>4. ~alive'
  BY Zenon DEF Die
<1>5. DownInv'
  <2>1. \A i \in DOMAIN down' : Before(down', i) = Before(down, i)
    BY <1>2 DEF Before
  <2> QED
    BY <1>2, <1>3, <2>1 DEF OrderInv, DownInv
<1>6. WaitInv' /\ OpenInv'
  BY <1>3, <1>4 DEF WaitInv, OpenInv
<1>7. ClosedInv'
  BY <1>3 DEF OrderInv, ClosedInv
<1> QED
  BY <1>5, <1>6, <1>7 DEF OrderInv

LEMMA OrderInvKept == Spec => []OrderInv
<1>1. Init => OrderInv
  <2> SUFFICES ASSUME Init PROVE OrderInv
    OBVIOUS
  <2>1. /\ \A i \in DOMAIN down : down[i].kind = "hello"
        /\ waiting = <<>> /\ pending = {} /\ openBuses = {}
    BY DEF Init
  <2> QED
    BY <2>1 DEF OrderInv, ClosedInv, DownInv, WaitInv, OpenInv, InOrder
<1>2. TypeInv /\ AnswerInv /\ OrderInv /\ [Next]_vars => OrderInv'
  <2> SUFFICES ASSUME TypeInv, AnswerInv, OrderInv, [Next]_vars PROVE OrderInv'
    OBVIOUS
  <2>0. closed => pending = {}
    BY DEF OrderInv, ClosedInv
  <2>1. ASSUME NEW t \in {"open", "close", "other"}, NEW b \in Ids \cup {None}, Request(t, b)
        PROVE  OrderInv'
    BY <2>1, RequestOrder
  <2>2. ASSUME NEW r \in Ids, Timeout(r) PROVE OrderInv'
    <3>1. \A s \in Ids : outcome'[s] = outcome[s] \/ outcome'[s] \in {"timeout", "disconnected"}
      BY <2>2 DEF Timeout, Settle, TypeInv, TypeOK
    <3>2. /\ UNCHANGED <<type, arg, down, waiting, alive, openBuses, closed>>
          /\ pending' \subseteq pending
      BY <2>2 DEF Timeout, Settle, writeVars, busVars
    <3> QED
      BY <2>0, <3>1, <3>2, EndOrder
  <2>3. CASE SocketCloses \/ Close
    <3>1. \A s \in Ids : outcome'[s] = outcome[s] \/ outcome'[s] \in {"timeout", "disconnected"}
      BY <2>3 DEF SocketCloses, Close, RejectPending
    <3>2. /\ UNCHANGED <<type, arg, waiting, alive, openBuses>>
          /\ pending' = {} /\ (UNCHANGED down \/ down' = <<>>)
      BY <2>3 DEF SocketCloses, Close, RejectPending, writeVars, busVars
    <3> QED
      BY <3>1, <3>2, EndOrder
  <2>4. CASE Flush
    <3> DEFINE m == [kind |-> "batch", buses |-> queued]
    <3>1. m \in Messages /\ m.kind # "reply"
      BY DEF TypeInv, TypeOK, Messages
    <3>2. /\ Send("flush", m) /\ alive
          /\ UNCHANGED <<type, arg, pending, outcome, closed, alive, openBuses>>
      BY <2>4, Zenon DEF Flush, Ready, clientVars
    <3>3. InOrder(m, Flight, type, arg, pending, outcome)
      BY <3>2 DEF OrderInv, OpenInv, InOrder, TypeInv, TypeOK
    <3> HIDE DEF m
    <3> QED
      BY <3>1, <3>2, <3>3, LoopOrder DEF Tasks
  <2>5. CASE Beat
    <3> DEFINE m == [kind |-> "beat"]
    <3>1. m \in Messages /\ m.kind # "reply"
      BY DEF Messages
    <3>2. /\ Send("beat", m)
          /\ UNCHANGED <<type, arg, pending, outcome, closed, alive, openBuses>>
      BY <2>5 DEF Beat, clientVars, busVars
    <3>3. InOrder(m, Flight, type, arg, pending, outcome)
      BY DEF InOrder
    <3> HIDE DEF m
    <3> QED
      BY <3>1, <3>2, <3>3, LoopOrder DEF Tasks
  <2>6. CASE EndSession
    <3>1. /\ UNCHANGED <<type, arg, pending, outcome, down, alive, openBuses, closed>>
          /\ waiting' = <<>>
      BY <2>6 DEF EndSession, clientVars, busVars
    <3>2. pending' = {}
      <4>1. closed
        BY <2>6, Zenon DEF EndSession
      <4> QED
        BY <2>0, <3>1, <4>1
    <3> QED
      BY <3>1, <3>2, EndOrder
  <2>7. CASE Drained \/ LosesPeer \/ (\E b \in Ids : FrameArrives(b)) \/ UNCHANGED vars
    <3>1. UNCHANGED <<type, arg, pending, outcome, closed, down, waiting, alive, openBuses>>
      BY <2>7 DEF Drained, LosesPeer, FrameArrives, clientVars, writeVars, busVars, vars
    <3> QED
      BY <2>0, <3>1, EndOrder
  <2>8. CASE Wake \/ Handle \/ Receive \/ Die
    BY <2>8, WakeOrder, HandleOrder, ReceiveOrder, DieOrder
  <2> QED
    BY <2>1, <2>2, <2>3, <2>4, <2>5, <2>6, <2>7, <2>8 DEF Next, Client, Engine, Over
<1> QED
  BY <1>1, <1>2, TypeInvKept, AnswerInvKept, PTL DEF Spec

-----------------------------------------------------------------------------
(* Theorems *)

(* For any number of requests and any limits, the session keeps its types: the *)
(* map of pending requests is at its cap at most and has one entry per request *)
(* that is not settled (engineClient.ts, request), and what is unsent is one   *)
(* message over the high-water mark at most (server.py, send).                 *)
THEOREM SessionTypesCorrect == Spec => []TypeOK
<1>1. TypeInv => TypeOK
  BY DEF TypeInv
<1> QED
  BY <1>1, TypeInvKept, PTL

(* What main was told of a bus is so, while answers come late, requests time   *)
(* out, batches go between and messages wait for the lock (engineClient.ts,    *)
(* dispatch; server.py, handle_request).                                       *)
THEOREM AnswersCorrect == Spec => []AnswersAreTrue
<1>1. AnswerInv => AnswersAreTrue
  BY DEF AnswerInv
<1> QED
  BY <1>1, AnswerInvKept, PTL

(* A batch that reaches main has frames of buses main knows: the answer to the *)
(* open of each has arrived before, and that to its close has not (server.py,  *)
(* the order of drain_rx, the handlers and write_lock).                        *)
THEOREM BatchesInOrder == Spec => []BatchesOfKnownBuses
<1>1. TypeInv /\ OrderInv => BatchesOfKnownBuses
  <2> SUFFICES ASSUME TypeInv, OrderInv, down # <<>>, Head(down).kind = "batch",
                      NEW b \in Head(down).buses
               PROVE  /\ outcome[b] # "pending"
                      /\ \A c \in Ids : type[c] = "close" /\ arg[c] = b =>
                            outcome[c] \notin {"resolved", "refused"}
    BY DEF BatchesOfKnownBuses
  <2>1. Head(down) = down[1] /\ 1 \in DOMAIN down /\ Before(down, 1) = {}
    BY DEF TypeInv, TypeOK, Before
  <2>2. InOrder(Head(down), {}, type, arg, pending, outcome)
    BY <2>1 DEF OrderInv, DownInv
  <2> QED
    BY <2>2 DEF InOrder, TypeInv, TypeOK
<1> QED
  BY <1>1, TypeInvKept, OrderInvKept, PTL

=============================================================================
