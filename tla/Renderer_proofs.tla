--------------------------- MODULE Renderer_proofs ---------------------------
(* Proofs about Renderer, for any interfaces, and any number of calls, of     *)
(* restored definitions and of deaths of the engine.                          *)
EXTENDS Renderer, Arrays_proofs

-----------------------------------------------------------------------------
(* The first position found is one of those sought. *)
LEMMA FirstIsOne ==
  ASSUME NEW S \in SUBSET Nat, S # {}
  PROVE  Min(S) \in S
<1>1. PICK x \in S : \A y \in S : ~(<<y, x>> \in OpToRel(<, Nat))
  BY NatLessThanWellFounded, WFMin
<1>2. \A y \in S : x <= y
  <2>1. ASSUME NEW y \in S, y < x PROVE FALSE BY <1>1, <2>1 DEF OpToRel
  <2>2. \A y \in S : ~(y < x) BY <2>1
  <2> QED BY <2>2
<1> QED BY <1>2 DEF Min

LEMMA FoundIsShown ==
  ASSUME NEW list \in Seq(OpenedBus), NEW name
  PROVE  /\ FindOpened(list, name) \in {NoBus} \cup {list[i].bus : i \in DOMAIN list}
         /\ name \in {list[i].name : i \in DOMAIN list}
              => FindOpened(list, name) \in {list[i].bus : i \in DOMAIN list}
<1> DEFINE at == {i \in DOMAIN list : list[i].name = name}
<1>1. ASSUME at # {} PROVE Min(at) \in at
  <2>1. at \in SUBSET Nat OBVIOUS
  <2> HIDE DEF at
  <2> QED BY <1>1, <2>1, FirstIsOne
<1> QED BY <1>1 DEF FindOpened

(* What a push and a pop do to a sequence, position by position.              *)
LEMMA Pushed ==
  ASSUME NEW X, NEW s \in Seq(X), NEW m \in X, NEW t, t = Append(s, m)
  PROVE  /\ t \in Seq(X) /\ Len(s) \in Nat /\ Len(t) = Len(s) + 1
         /\ t[Len(s) + 1] = m
         /\ \A p \in 1..Len(s) : p \in 1..Len(t) /\ t[p] = s[p]
         /\ \A p \in 1..Len(t) : p \in 1..Len(s) \/ (p = Len(s) + 1 /\ t[p] = m)
         /\ DOMAIN t = 1..Len(t) /\ DOMAIN s = 1..Len(s)
OBVIOUS

LEMMA Popped ==
  ASSUME NEW X, NEW s \in Seq(X), s # <<>>, NEW t, t = Tail(s)
  PROVE  /\ t \in Seq(X) /\ Len(s) \in Nat /\ Len(t) = Len(s) - 1
         /\ 1 \in 1..Len(s) /\ s[1] = Head(s) /\ Head(s) \in X
         /\ \A p \in 1..Len(t) : p + 1 \in 1..Len(s) /\ t[p] = s[p + 1]
         /\ \A p \in 1..Len(s) : p = 1 \/ (p - 1 \in 1..Len(t) /\ t[p - 1] = s[p])
         /\ DOMAIN t = 1..Len(t) /\ DOMAIN s = 1..Len(s)
<1>1. Len(s) \in Nat \ {0} /\ t \in Seq(X) /\ Len(t) = Len(s) - 1 OBVIOUS
<1>2. \A p \in 1..(Len(s) - 1) : t[p] = s[p + 1] OBVIOUS
<1>3. s[1] = Head(s) /\ Head(s) \in X /\ DOMAIN s = 1..Len(s) OBVIOUS
<1>4. \A p \in 1..Len(t) : p + 1 \in 1..Len(s) /\ t[p] = s[p + 1] BY <1>1, <1>2
<1>5. ASSUME NEW p \in 1..Len(s), p # 1 PROVE p - 1 \in 1..Len(t) /\ t[p - 1] = s[p]
  <2>1. p - 1 \in 1..Len(t) /\ (p - 1) + 1 = p BY <1>1, <1>5
  <2> QED BY <1>4, <2>1
<1>6. DOMAIN t = 1..Len(t) BY <1>1
<1> QED BY <1>1, <1>3, <1>4, <1>5, <1>6

LEMMA Updated ==
  ASSUME NEW X, NEW s \in Seq(X), NEW i \in 1..Len(s), NEW e \in X,
         NEW t, t = [s EXCEPT ![i] = e]
  PROVE  /\ t \in Seq(X) /\ Len(t) = Len(s)
         /\ \A j \in 1..Len(s) : t[j] = IF j = i THEN e ELSE s[j]
OBVIOUS

-----------------------------------------------------------------------------
(* A switch of the graph's bus.  The effect keeps entries of the catalog only *)
(* when the bus stays.                                                        *)

LEMMA EffectSwaps ==
  ASSUME NEW list, NEW name, NEW entries, GraphEffect(list, name, entries)
  PROVE  active' # active => picker' \subseteq {active'}
<1> SUFFICES ASSUME active' # active PROVE picker' \subseteq {active'}
  OBVIOUS
<1>1. active' = FindOpened(list, name) BY DEF GraphEffect
<1>2. \/ picker' = {}
      \/ \E kept \in SUBSET ({} \ {active'}) : picker' = {active'} \cup kept
  BY <1>1 DEF GraphEffect
<1> QED BY <1>2

(* README: "Switching the active bus swaps that bus's DBC catalog": whatever  *)
(* answers arrive late, and also when a DBC was loaded for another bus than   *)
(* the one shown by now, after a switch the picker has nothing of another bus *)
(* (App.tsx, the effect on opened and selectedBus).                           *)
THEOREM SwitchAlwaysSwaps == Spec => SwitchSwapsCatalog
<1>1. [Next]_vars => [active' # active => picker' \subseteq {active'}]_vars
  <2> SUFFICES ASSUME Next, active' # active PROVE picker' \subseteq {active'}
    BY DEF vars
  <2>1. CASE User
    BY <2>1, EffectSwaps DEF User, SelectHeaderBus, HeaderConnect, HeaderDisconnect,
       HeaderLoadDbc, StartCyclic, StopJob, Call, graphVars
  <2>2. CASE Engine \/ Timeout \/ Crash \/ Respawn
    BY <2>2 DEF Engine, HandleList, HandleFails, HandleOpen, HandleClose, HandleLoad,
       HandleStart, HandleStop, Taken, HalfDone, Timeout, Crash, Respawn, windowVars,
       graphVars
  <2>3. CASE Disconnected
    BY <2>3 DEF Disconnected, graphVars
  <2>4. CASE LoadAnswered
    BY <2>4, EffectSwaps DEF LoadAnswered, graphVars
  <2>5. CASE ListAnswered \/ OpenAnswered \/ CloseAnswered
    BY <2>5, EffectSwaps DEF ListAnswered, OpenAnswered, CloseAnswered, graphVars
  <2>6. CASE Connected \/ StartAnswered \/ StopAnswered
    BY <2>6 DEF Connected, StartAnswered, StopAnswered, graphVars
  <2> QED BY <2>1, <2>2, <2>3, <2>4, <2>5, <2>6 DEF Next, Deliver
<1> QED BY <1>1, PTL DEF Spec, SwitchSwapsCatalog

-----------------------------------------------------------------------------
(* Types.  What is sent aims at something the window has seen, so its ids are *)
(* those of calls made.                                                       *)

Aims(m, n) ==
    /\ m.kind \notin {"list", "status"} => m.id \in 1..n
    /\ m.kind \in {"close", "load", "start", "stop"} => m.target \in 1..n
    /\ m.kind \in {"list", "open", "close"} => m.name \in Names

CallOK(c, n) == c \in Calls /\ Aims(c, n)

MessageOK(m, n) ==
    /\ m \in Messages /\ Aims(m, n)
    /\ m.gone => ~m.ok /\ m.kind \in {"close", "stop"}

EngineType ==
    /\ calls \in 0..MaxCalls /\ up \in BOOLEAN
    /\ DOMAIN buses \subseteq 1..calls
    /\ \A b \in DOMAIN buses : buses[b] \in [name : Names, dbc : 0..MaxCalls]
    /\ DOMAIN jobs \subseteq 1..calls /\ \A j \in DOMAIN jobs : jobs[j] \in DOMAIN buses
    /\ ~up => DOMAIN buses = {} /\ queue = <<>>

WireType ==
    /\ queue \in Seq(Calls) /\ \A i \in 1..Len(queue) : CallOK(queue[i], calls)
    /\ inbox \in Seq(Messages) /\ \A p \in 1..Len(inbox) : MessageOK(inbox[p], calls)
    /\ lost \subseteq [kind : Kinds, id : 0..MaxCalls, target : Int]
    /\ \A i \in 1..Len(queue) : ~queue[i].live => Lose(queue[i]) \in lost

WindowType ==
    /\ info \in BOOLEAN /\ connecting \in BOOLEAN /\ crashes \in 0..MaxCrashes
    /\ opened \in Seq(OpenedBus) /\ \A i \in 1..Len(opened) : opened[i].bus \in 1..calls
    /\ selected \in Names
    /\ rows \in Seq(CyclicJobRow)
    /\ \A i \in 1..Len(rows) : /\ rows[i].id = -i \/ rows[i].id \in 1..calls
                               /\ rows[i].running => rows[i].id \in 1..calls
    /\ active \in {NoBus} \cup BusesShown /\ picker \subseteq Ids

TypeInv == EngineType /\ WireType /\ WindowType

LEMMA TypeInvImplies == TypeInv => TypeOK
<1> SUFFICES ASSUME TypeInv PROVE TypeOK
  OBVIOUS
<1>1. 1..calls \subseteq Ids BY RendererBounds DEF TypeInv, EngineType, Ids
<1> QED BY <1>1 DEF TypeInv, EngineType, WireType, WindowType, TypeOK

LEMMA AimsLater ==
  ASSUME NEW m, NEW n \in Nat, NEW k \in Nat, n <= k
  PROVE  (CallOK(m, n) => CallOK(m, k)) /\ (MessageOK(m, n) => MessageOK(m, k))
<1>1. 1..n \subseteq 1..k OBVIOUS
<1>2. Aims(m, n) => Aims(m, k) BY <1>1 DEF Aims
<1> QED BY <1>2 DEF CallOK, MessageOK

LEMMA AnswerIsMessage ==
  ASSUME NEW n \in Nat, NEW c, CallOK(c, n), NEW ok \in BOOLEAN, NEW gone \in BOOLEAN,
         gone => ~ok /\ c.kind \in {"close", "stop"}
  PROVE  /\ Answer(c, ok, gone) \in Messages
         /\ MessageOK(Answer(c, ok, gone), n)
<1>1. Answer(c, ok, gone) \in Messages BY DEF CallOK, Calls, Answer, Messages
<1>2. Aims(Answer(c, ok, gone), n) BY DEF CallOK, Aims, Answer
<1>3. Answer(c, ok, gone).gone = gone /\ Answer(c, ok, gone).ok = ok
      /\ Answer(c, ok, gone).kind = c.kind
  BY DEF Answer
<1>4. Answer(c, ok, gone).gone => ~Answer(c, ok, gone).ok /\ c.kind \in {"close", "stop"}
  BY <1>3, Zenon
<1> QED BY <1>1, <1>2, <1>3, <1>4 DEF MessageOK

LEMMA StatusIsMessage ==
  ASSUME NEW n \in Nat, NEW ok \in BOOLEAN
  PROVE  Status(ok) \in Messages /\ MessageOK(Status(ok), n)
<1>1. Status(ok) \in Messages BY RendererBounds DEF Status, Messages
<1>2. Aims(Status(ok), n) BY DEF Status, Aims
<1>3. Status(ok).gone = FALSE BY DEF Status
<1> QED BY <1>1, <1>2, <1>3 DEF MessageOK

(* The inbox gains a message, loses its first one, or both. *)
LEMMA PushedMessage ==
  ASSUME NEW n \in Nat, NEW k \in Nat, n <= k,
         NEW s \in Seq(Messages), \A p \in 1..Len(s) : MessageOK(s[p], n),
         NEW m, MessageOK(m, k)
  PROVE  /\ Append(s, m) \in Seq(Messages)
         /\ \A p \in 1..Len(Append(s, m)) : MessageOK(Append(s, m)[p], k)
<1>1. m \in Messages BY DEF MessageOK
<1> DEFINE t == Append(s, m)
<1>2. \A p \in 1..Len(s) : MessageOK(s[p], k) BY AimsLater
<1>3. t \in Seq(Messages) BY <1>1
<1>4. \A p \in 1..Len(t) : t[p] = m \/ (p \in 1..Len(s) /\ t[p] = s[p])
  BY <1>1, Pushed
<1> HIDE DEF t
<1>5. \A p \in 1..Len(t) : MessageOK(t[p], k) BY <1>2, <1>4
<1> QED BY <1>3, <1>5 DEF t

LEMMA PoppedMessage ==
  ASSUME NEW n, NEW s \in Seq(Messages), s # <<>>,
         \A p \in 1..Len(s) : MessageOK(s[p], n)
  PROVE  /\ MessageOK(Head(s), n) /\ Head(s) \in Messages
         /\ Tail(s) \in Seq(Messages) /\ \A p \in 1..Len(Tail(s)) : MessageOK(Tail(s)[p], n)
<1> DEFINE t == Tail(s)
<1>1. t \in Seq(Messages) /\ s[1] = Head(s) /\ 1 \in 1..Len(s) /\ Head(s) \in Messages
      /\ \A p \in 1..Len(t) : p + 1 \in 1..Len(s) /\ t[p] = s[p + 1]
  BY Popped
<1> HIDE DEF t
<1>2. \A p \in 1..Len(t) : MessageOK(t[p], n) BY <1>1
<1> QED BY <1>1, <1>2 DEF t

(* A call that the bridge sends, or refuses. *)
LEMMA RequestTypes ==
  ASSUME TypeInv, NEW k \in Nat, calls <= k, NEW c, CallOK(c, k), c.live = TRUE,
         NEW s \in Seq(Messages), \A p \in 1..Len(s) : MessageOK(s[p], calls),
         Request(c, s), calls' = k, lost' = lost
  PROVE  WireType' /\ (~up => queue' = queue)
<1>0. calls \in Nat /\ c \in Calls BY DEF TypeInv, EngineType, CallOK
<1>1. queue \in Seq(Calls) /\ \A i \in 1..Len(queue) :
         CallOK(queue[i], k) /\ (~queue[i].live => Lose(queue[i]) \in lost)
  BY <1>0, AimsLater DEF TypeInv, WireType
<1>2. CASE up
  <2>1. queue' = Append(queue, c) /\ inbox' = s BY <1>2 DEF Request
  <2>2. queue' \in Seq(Calls)
        /\ \A i \in 1..Len(queue') : (i \in 1..Len(queue) /\ queue'[i] = queue[i]) \/ queue'[i] = c
    BY <1>0, <1>1, <2>1, Pushed
  <2>3. \A p \in 1..Len(s) : MessageOK(s[p], k) BY <1>0, AimsLater
  <2>4. \A i \in 1..Len(queue') :
           CallOK(queue'[i], k) /\ (~queue'[i].live => Lose(queue'[i]) \in lost)
    <3> SUFFICES ASSUME NEW i \in 1..Len(queue')
                 PROVE  CallOK(queue'[i], k) /\ (~queue'[i].live => Lose(queue'[i]) \in lost)
      OBVIOUS
    <3>1. CASE i \in 1..Len(queue) /\ queue'[i] = queue[i] BY <1>1, <3>1
    <3>2. CASE queue'[i] = c BY <3>2
    <3> QED BY <2>2, <3>1, <3>2
  <2>5. WireType' BY <2>1, <2>2, <2>3, <2>4 DEF TypeInv, WireType
  <2> QED BY <1>2, <2>5
<1>3. CASE ~up
  <2>1. inbox' = Append(s, Fails(c)) /\ queue' = queue BY <1>3 DEF Request
  <2>2. MessageOK(Fails(c), k) BY AnswerIsMessage DEF Fails
  <2>3. inbox' \in Seq(Messages) /\ \A p \in 1..Len(inbox') : MessageOK(inbox'[p], k)
    BY <1>0, <2>1, <2>2, PushedMessage
  <2>4. WireType' BY <1>1, <2>1, <2>3 DEF TypeInv, WireType
  <2> QED BY <2>1, <2>4
<1> QED BY <1>2, <1>3

LEMMA CallTypes ==
  ASSUME TypeInv, NEW kind \in Kinds \ {"list"}, NEW target, NEW name, Call(kind, target, name),
         target \in 0..calls, kind # "open" => target # 0,
         name \in Names \cup {NoName}, kind \in {"open", "close"} => name \in Names,
         connecting' \in BOOLEAN
  PROVE  TypeInv'
<1>1. PICK n \in Nat : n = calls /\ n + 1 \in 0..MaxCalls /\ MaxCalls \in Nat
  BY RendererBounds DEF TypeInv, EngineType, Call
<1> DEFINE c == [kind |-> kind, id |-> n + 1, target |-> target, name |-> name, live |-> TRUE]
<1>2. CallOK(c, n + 1) BY <1>1 DEF CallOK, Calls, Aims
<1>3. c.live = TRUE /\ n <= n + 1 /\ n + 1 \in Nat OBVIOUS
<1>4. Request(c, inbox) /\ calls' = n + 1
      /\ UNCHANGED <<up, buses, jobs, info, opened, selected, rows, active, picker, lost, crashes>>
  BY <1>1 DEF Call, engineVars, graphVars
<1> HIDE DEF c
<1>5. WireType' /\ (~up => queue' = queue)
  BY <1>1, <1>2, <1>3, <1>4, RequestTypes DEF TypeInv, WireType
<1>6. 1..n \subseteq 1..(n + 1) OBVIOUS
<1>7. EngineType' BY <1>1, <1>4, <1>5, <1>6 DEF TypeInv, EngineType
<1>8. WindowType' BY <1>1, <1>4, <1>6 DEF TypeInv, WindowType, BusesShown
<1> QED BY <1>5, <1>7, <1>8 DEF TypeInv

(* The engine answers a call, main answers for it, or the news of its death   *)
(* and of the next engine go out.                                             *)
LEMMA TakenTypes ==
  ASSUME TypeInv, queue # <<>>, NEW ok \in BOOLEAN, NEW gone \in BOOLEAN, Taken(ok, gone),
         gone = FALSE \/ (ok = FALSE /\ Head(queue).kind \in {"close", "stop"})
  PROVE  /\ WireType' /\ WindowType' /\ up /\ up' = up /\ calls' = calls
         /\ CallOK(Head(queue), calls) /\ calls \in Nat /\ 1..calls \subseteq 0..MaxCalls
<1>1. PICK n \in Nat : n = calls /\ 1..n \subseteq 0..MaxCalls
  BY RendererBounds DEF TypeInv, EngineType
<1>2. /\ queue' \in Seq(Calls) /\ Head(queue) \in Calls
      /\ 1 \in 1..Len(queue) /\ queue[1] = Head(queue)
      /\ \A i \in 1..Len(queue') : i + 1 \in 1..Len(queue) /\ queue'[i] = queue[i + 1]
  BY Popped DEF TypeInv, WireType, Taken
<1>3. CallOK(Head(queue), n) BY <1>1, <1>2 DEF TypeInv, WireType
<1>a. gone => ~ok /\ Head(queue).kind \in {"close", "stop"} OBVIOUS
<1>4. MessageOK(Answer(Head(queue), ok, gone), n) BY <1>1, <1>a, <1>3, AnswerIsMessage
<1>5. inbox' \in Seq(Messages) /\ \A p \in 1..Len(inbox') : MessageOK(inbox'[p], n)
  <2>1. CASE Head(queue).live
    <3>1. inbox' = Append(inbox, Answer(Head(queue), ok, gone)) BY <2>1 DEF Taken
    <3>2. inbox \in Seq(Messages) /\ \A p \in 1..Len(inbox) : MessageOK(inbox[p], n)
      BY <1>1 DEF TypeInv, WireType
    <3> QED BY <1>1, <1>4, <3>1, <3>2, PushedMessage
  <2>2. CASE ~Head(queue).live BY <1>1, <2>2 DEF TypeInv, WireType, Taken
  <2> QED BY <2>1, <2>2
<1>6. UNCHANGED <<up, calls, lost, crashes, info, opened, selected, connecting, rows,
                  active, picker>>
  BY DEF Taken, windowVars, graphVars
<1>7. \A i \in 1..Len(queue') :
        CallOK(queue'[i], n) /\ (~queue'[i].live => Lose(queue'[i]) \in lost')
  BY <1>1, <1>2, <1>6 DEF TypeInv, WireType
<1>8. WireType' BY <1>1, <1>2, <1>5, <1>6, <1>7 DEF TypeInv, WireType
<1>9. WindowType' BY <1>6 DEF TypeInv, WindowType, BusesShown
<1>10. up /\ up' = up /\ calls' = calls BY <1>6 DEF TypeInv, EngineType
<1> QED BY <1>1, <1>3, <1>8, <1>9, <1>10

LEMMA HalfDoneTypes ==
  ASSUME TypeInv, queue # <<>>, Head(queue).kind # "list", HalfDone
  PROVE  /\ WireType' /\ WindowType' /\ up /\ up' = up /\ calls' = calls
         /\ CallOK(Head(queue), calls) /\ calls \in Nat /\ 1..calls \subseteq 0..MaxCalls
<1>1. PICK n \in Nat : n = calls /\ 1..n \subseteq 0..MaxCalls
  BY RendererBounds DEF TypeInv, EngineType
<1>2. /\ queue' \in Seq(Calls) /\ Head(queue) \in Calls
      /\ 1 \in 1..Len(queue) /\ queue[1] = Head(queue)
      /\ \A i \in 1..Len(queue') : i + 1 \in 1..Len(queue) /\ queue'[i] = queue[i + 1]
  BY Popped DEF TypeInv, WireType, HalfDone
<1>3. CallOK(Head(queue), n) BY <1>1, <1>2 DEF TypeInv, WireType
<1>4. MessageOK(Fails(Head(queue)), n) BY <1>1, <1>3, AnswerIsMessage DEF Fails
<1>5. inbox' \in Seq(Messages) /\ \A p \in 1..Len(inbox') : MessageOK(inbox'[p], n)
  <2>1. CASE Head(queue).live
    <3>1. inbox' = Append(inbox, Fails(Head(queue))) BY <2>1 DEF HalfDone
    <3>2. inbox \in Seq(Messages) /\ \A p \in 1..Len(inbox) : MessageOK(inbox[p], n)
      BY <1>1 DEF TypeInv, WireType
    <3> QED BY <1>1, <1>4, <3>1, <3>2, PushedMessage
  <2>2. CASE ~Head(queue).live BY <1>1, <2>2 DEF TypeInv, WireType, HalfDone
  <2> QED BY <2>1, <2>2
<1>6. /\ UNCHANGED <<up, calls, crashes, info, opened, selected, connecting, rows, active, picker>>
      /\ lost' = lost \cup {Lose(Head(queue))}
  BY DEF HalfDone, windowVars, graphVars
<1>7. \A i \in 1..Len(queue') :
        CallOK(queue'[i], n) /\ (~queue'[i].live => Lose(queue'[i]) \in lost')
  BY <1>1, <1>2, <1>6 DEF TypeInv, WireType
<1>8. Lose(Head(queue)) \in [kind : Kinds, id : 0..MaxCalls, target : Int]
  <2>1. Head(queue).target \in Int BY <1>2, RendererBounds DEF Calls
  <2> QED BY <1>2, <2>1 DEF Calls, Lose
<1>9. WireType' BY <1>1, <1>2, <1>5, <1>6, <1>7, <1>8 DEF TypeInv, WireType
<1>10. WindowType' BY <1>6 DEF TypeInv, WindowType, BusesShown
<1>11. up /\ up' = up /\ calls' = calls BY <1>6 DEF TypeInv, EngineType
<1> QED BY <1>1, <1>3, <1>9, <1>10, <1>11

LEMMA EngineKeepsTypes == TypeInv /\ Engine => TypeInv'
<1> SUFFICES ASSUME TypeInv, Engine PROVE TypeInv'
  OBVIOUS
<1> DEFINE c == Head(queue)
<1>0. queue # <<>>
  BY DEF Engine, HandleList, HandleFails, HandleOpen, HandleClose, HandleLoad, HandleStart,
     HandleStop, NextCall
<1>a. TRUE \in BOOLEAN /\ FALSE \in BOOLEAN /\ FALSE = FALSE OBVIOUS
<1>1. CASE HandleList \/ HandleFails
  <2>1. PICK ok \in BOOLEAN : Taken(ok, FALSE) BY <1>1, <1>a, Zenon DEF HandleList, HandleFails
  <2>2. WireType' /\ WindowType' /\ up /\ up' = up /\ calls' = calls
    BY <1>0, <1>a, <2>1, TakenTypes, Zenon
  <2>3. UNCHANGED <<buses, jobs>> BY <1>1 DEF HandleList, HandleFails
  <2>4. EngineType' BY <2>2, <2>3 DEF TypeInv, EngineType
  <2> QED BY <2>2, <2>4 DEF TypeInv
<1>2. CASE HandleOpen
  <2>1. Taken(TRUE, FALSE) BY <1>2 DEF HandleOpen
  <2>2. /\ WireType' /\ WindowType' /\ up /\ up' = up /\ calls' = calls
        /\ CallOK(c, calls) /\ calls \in Nat /\ 1..calls \subseteq 0..MaxCalls
    BY <1>0, <1>a, <2>1, TakenTypes, Zenon
  <2>3. c.id \in 1..calls /\ c.name \in Names BY <1>2, <2>2 DEF CallOK, Aims, HandleOpen, NextCall
  <2>4. DOMAIN buses' = DOMAIN buses \cup {c.id} /\ jobs' = jobs BY <1>2 DEF HandleOpen
  <2>5. \A b \in DOMAIN buses' :
           buses'[b] = IF b = c.id THEN [name |-> c.name, dbc |-> 0] ELSE buses[b]
    BY <1>2 DEF HandleOpen
  <2>6. 0 \in 0..MaxCalls BY RendererBounds
  <2>7. \A b \in DOMAIN buses' : buses'[b] \in [name : Names, dbc : 0..MaxCalls]
    BY <2>3, <2>4, <2>5, <2>6 DEF TypeInv, EngineType
  <2> HIDE DEF c
  <2>8. EngineType' BY <2>2, <2>3, <2>4, <2>7 DEF TypeInv, EngineType
  <2> QED BY <2>2, <2>8 DEF TypeInv
<1>3. CASE HandleClose
  <2>1. HalfDone \/ Taken(TRUE, FALSE) \/ Taken(FALSE, TRUE)
    <3>1. HalfDone \/ Taken(c.target \in DOMAIN buses, c.target \notin DOMAIN buses)
      BY <1>3 DEF HandleClose
    <3>2. CASE c.target \in DOMAIN buses
      BY <3>1, <3>2 DEF Taken, Answer
    <3>3. CASE c.target \notin DOMAIN buses
      <4>1. (c.target \in DOMAIN buses) = FALSE BY <3>3
      <4>2. (c.target \notin DOMAIN buses) = TRUE BY <3>3
      <4> QED BY <3>1, <4>1, <4>2, Zenon
    <3> QED BY <3>2, <3>3
  <2>2. c.kind = "close" BY <1>3 DEF HandleClose, NextCall
  <2>a. c.kind # "list" BY <2>2
  <2>3. WireType' /\ WindowType' /\ up /\ up' = up /\ calls' = calls
    BY <1>0, <1>a, <2>1, <2>2, <2>a, TakenTypes, HalfDoneTypes, Zenon
  <2>4. /\ DOMAIN buses' = DOMAIN buses \ {c.target}
        /\ \A b \in DOMAIN buses' : buses'[b] = buses[b]
        /\ DOMAIN jobs' = {k \in DOMAIN jobs : jobs[k] # c.target}
        /\ \A j \in DOMAIN jobs' : jobs'[j] = jobs[j]
    BY <1>3 DEF HandleClose
  <2> HIDE DEF c
  <2>5. \A j \in DOMAIN jobs' : jobs'[j] \in DOMAIN buses'
    <3> SUFFICES ASSUME NEW j \in DOMAIN jobs' PROVE jobs'[j] \in DOMAIN buses' OBVIOUS
    <3>1. jobs'[j] = jobs[j] /\ jobs[j] \in DOMAIN buses /\ jobs[j] # c.target
      BY <2>4 DEF TypeInv, EngineType
    <3> QED BY <2>4, <3>1
  <2>6. EngineType' BY <2>3, <2>4, <2>5 DEF TypeInv, EngineType
  <2> QED BY <2>3, <2>6 DEF TypeInv
<1>4. CASE HandleLoad
  <2>1. Taken(TRUE, FALSE) \/ HalfDone BY <1>4 DEF HandleLoad
  <2>a. c.kind # "list" BY <1>4 DEF HandleLoad, NextCall
  <2>2. /\ WireType' /\ WindowType' /\ up /\ up' = up /\ calls' = calls
        /\ CallOK(c, calls) /\ calls \in Nat /\ 1..calls \subseteq 0..MaxCalls
    BY <1>0, <1>a, <2>1, <2>a, TakenTypes, HalfDoneTypes, Zenon
  <2>3. c.id \in 1..calls BY <1>4, <2>2 DEF CallOK, Aims, HandleLoad, NextCall
  <2>4. c.target \in DOMAIN buses /\ jobs' = jobs
        /\ buses' = [buses EXCEPT ![c.target].dbc = c.id]
    BY <1>4 DEF HandleLoad
  <2> HIDE DEF c
  <2>5. DOMAIN buses' = DOMAIN buses BY <2>4
  <2>6. \A b \in DOMAIN buses' : buses'[b] \in [name : Names, dbc : 0..MaxCalls]
    <3> SUFFICES ASSUME NEW b \in DOMAIN buses PROVE buses'[b] \in [name : Names, dbc : 0..MaxCalls]
      BY <2>5
    <3>1. buses[b] \in [name : Names, dbc : 0..MaxCalls] BY DEF TypeInv, EngineType
    <3>2. buses'[b] = IF b = c.target THEN [buses[b] EXCEPT !.dbc = c.id] ELSE buses[b]
      BY <2>4
    <3>3. c.id \in 0..MaxCalls BY <2>2, <2>3
    <3> QED BY <3>1, <3>2, <3>3
  <2>7. EngineType' BY <2>2, <2>4, <2>5, <2>6 DEF TypeInv, EngineType
  <2> QED BY <2>2, <2>7 DEF TypeInv
<1>5. CASE HandleStart
  <2>1. Taken(TRUE, FALSE) BY <1>5 DEF HandleStart
  <2>2. /\ WireType' /\ WindowType' /\ up /\ up' = up /\ calls' = calls
        /\ CallOK(c, calls) /\ calls \in Nat /\ 1..calls \subseteq 0..MaxCalls
    BY <1>0, <1>a, <2>1, TakenTypes, Zenon
  <2>3. c.id \in 1..calls BY <1>5, <2>2 DEF CallOK, Aims, HandleStart, NextCall
  <2>4. c.target \in DOMAIN buses /\ buses' = buses /\ DOMAIN jobs' = DOMAIN jobs \cup {c.id}
    BY <1>5 DEF HandleStart
  <2>5. \A j \in DOMAIN jobs' : jobs'[j] = IF j = c.id THEN c.target ELSE jobs[j]
    BY <1>5 DEF HandleStart
  <2> HIDE DEF c
  <2>6. EngineType' BY <2>2, <2>3, <2>4, <2>5 DEF TypeInv, EngineType
  <2> QED BY <2>2, <2>6 DEF TypeInv
<1>6. CASE HandleStop
  <2>1. Taken(TRUE, FALSE) \/ Taken(FALSE, TRUE)
    <3>1. Taken(c.target \in DOMAIN jobs, c.target \notin DOMAIN jobs) BY <1>6 DEF HandleStop
    <3>2. CASE c.target \in DOMAIN jobs
      BY <3>1, <3>2 DEF Taken, Answer
    <3>3. CASE c.target \notin DOMAIN jobs
      <4>1. (c.target \in DOMAIN jobs) = FALSE BY <3>3
      <4>2. (c.target \notin DOMAIN jobs) = TRUE BY <3>3
      <4> QED BY <3>1, <4>1, <4>2, Zenon
    <3> QED BY <3>2, <3>3
  <2>2. c.kind = "stop" BY <1>6 DEF HandleStop, NextCall
  <2>3. WireType' /\ WindowType' /\ up /\ up' = up /\ calls' = calls
    BY <1>0, <1>a, <2>1, <2>2, TakenTypes, Zenon
  <2>4. /\ buses' = buses /\ DOMAIN jobs' = DOMAIN jobs \ {c.target}
        /\ \A j \in DOMAIN jobs' : jobs'[j] = jobs[j]
    BY <1>6 DEF HandleStop
  <2> HIDE DEF c
  <2>6. EngineType' BY <2>3, <2>4 DEF TypeInv, EngineType
  <2> QED BY <2>3, <2>6 DEF TypeInv
<1> QED BY <1>1, <1>2, <1>3, <1>4, <1>5, <1>6 DEF Engine

(* What the window is told when the engine dies: the status, then a refusal   *)
(* of every call that main still waited for.                                  *)
LEMMA CrashedInbox ==
  ASSUME TypeInv, Crash
  PROVE  /\ inbox' \in Seq(Messages)
         /\ \E n \in Nat : \E h \in [1..n -> {i \in 1..Len(queue) : queue[i].live}] :
              /\ \A k, l \in 1..n : h[k] = h[l] => k = l
              /\ Len(inbox') = Len(inbox) + 1 + n
              /\ \A p \in 1..Len(inbox) : p \in 1..Len(inbox') /\ inbox'[p] = inbox[p]
              /\ inbox'[Len(inbox) + 1] = Status(FALSE)
              /\ \A p \in 1..Len(inbox') :
                   \/ p \in 1..Len(inbox)
                   \/ p = Len(inbox) + 1
                   \/ \E k \in 1..n : p = Len(inbox) + 1 + k /\ inbox'[p] = Fails(queue[h[k]])
<1> DEFINE S == {i \in 1..Len(queue) : queue[i].live}
           n == Cardinality(S)
           w == Filtered(queue, S)
           f == [i \in 1..n |-> Fails(w[i])]
<1>1. queue \in Seq(Calls) /\ inbox \in Seq(Messages) /\ S \in SUBSET (1..Len(queue))
  BY DEF TypeInv, WireType
<1>2. PICK h \in [1..n -> S] :
         /\ w = [k \in 1..n |-> queue[h[k]]]
         /\ n \in Nat
         /\ \A k, l \in 1..n : h[k] = h[l] => k = l
  <2> HIDE DEF S
  <2> QED BY <1>1, FilteredElements, SMTT(30)
<1>3. inbox' = inbox \o <<Status(FALSE)>> \o f
  <2>1. {i \in DOMAIN queue : queue[i].live} = S BY <1>1
  <2>2. inbox' = inbox \o <<Status(FALSE)>> \o [i \in DOMAIN w |-> Fails(w[i])]
    BY <2>1 DEF Crash
  <2>3. DOMAIN w = 1..n BY <1>2
  <2> QED BY <2>2, <2>3
<1>4. \A k \in 1..n : w[k] = queue[h[k]] /\ queue[h[k]] \in Calls
  <2>1. \A k \in 1..n : h[k] \in 1..Len(queue) BY <1>2
  <2>2. \A i \in 1..Len(queue) : queue[i] \in Calls BY <1>1
  <2> HIDE DEF S, n, w
  <2> QED BY <1>2, <2>1, <2>2
<1>5. \A k \in 1..n : f[k] = Fails(queue[h[k]]) /\ f[k] \in Messages
  <2> HIDE DEF n, w
  <2>1. \A k \in 1..n : Fails(queue[h[k]]) \in Messages
    BY <1>4 DEF Fails, Answer, Calls, Messages
  <2> QED BY <1>4, <2>1
<1>6. Status(FALSE) \in Messages BY RendererBounds DEF Status, Messages
<1> DEFINE s == Status(FALSE)
<1>7. f \in Seq(Messages) /\ Len(f) = n
  <2> HIDE DEF n, w
  <2>1. f \in [1..n -> Messages] BY <1>5
  <2> HIDE DEF f
  <2> QED BY <1>2, <2>1
<1> HIDE DEF S, n, w, f, s
<1>8. inbox' = inbox \o <<s>> \o f /\ s \in Messages BY <1>3, <1>6 DEF s
<1> DEFINE g == inbox \o <<s>>
<1>9. g \in Seq(Messages) /\ Len(g) = Len(inbox) + 1 /\ g[Len(inbox) + 1] = s
      /\ \A p \in 1..Len(inbox) : g[p] = inbox[p]
  BY <1>1, <1>8
<1>10. Len(inbox) \in Nat BY <1>1
<1>11. inbox' = g \o f BY <1>8 DEF g
<1> HIDE DEF g
<1>12. /\ inbox' \in Seq(Messages) /\ Len(inbox') = Len(g) + n
       /\ \A p \in 1..Len(g) : inbox'[p] = g[p]
       /\ \A p \in 1..Len(inbox') : p > Len(g) => inbox'[p] = f[p - Len(g)]
  <2>1. /\ inbox' \in Seq(Messages) /\ Len(inbox') = Len(g) + Len(f)
        /\ \A p \in 1..Len(g) : inbox'[p] = g[p]
        /\ \A p \in 1..Len(inbox') : p > Len(g) => inbox'[p] = f[p - Len(g)]
    <3>1. PICK u, v, w1 : u = inbox' /\ v = g /\ w1 = f OBVIOUS
    <3>2. v \in Seq(Messages) /\ w1 \in Seq(Messages) BY <1>7, <1>9, <3>1
    <3>3. u = v \o w1 BY <1>11, <3>1
    <3>4. /\ u \in Seq(Messages) /\ Len(u) = Len(v) + Len(w1)
          /\ \A p \in 1..Len(v) : u[p] = v[p]
          /\ \A p \in 1..Len(u) : p > Len(v) => u[p] = w1[p - Len(v)]
      BY <3>2, <3>3
    <3> QED BY <3>1, <3>4
  <2> QED BY <1>7, <2>1
<1>13. PICK a \in Nat, b \in Nat : a = Len(inbox) /\ b = n BY <1>2, <1>10
<1>14. ASSUME NEW p \in 1..Len(inbox'), p \notin 1..Len(inbox), p # Len(inbox) + 1
       PROVE  \E k \in 1..n : p = Len(inbox) + 1 + k /\ inbox'[p] = Fails(queue[h[k]])
  <2>1. Len(inbox') = a + 1 + b /\ Len(g) = a + 1 BY <1>9, <1>12, <1>13
  <2>2. p - (a + 1) \in 1..b /\ p > a + 1 /\ p = a + 1 + (p - (a + 1))
    BY <1>13, <1>14, <2>1
  <2>3. inbox'[p] = f[p - (a + 1)] BY <1>12, <2>1, <2>2
  <2> QED BY <1>5, <1>13, <2>2, <2>3
<1>15. Len(inbox') = a + 1 + b /\ \A p \in 1..a : p \in 1..(a + 1 + b)
  BY <1>9, <1>12, <1>13
<1>16. inbox'[a + 1] = s /\ \A p \in 1..a : inbox'[p] = inbox[p]
  BY <1>9, <1>12, <1>13
<1>17. /\ Len(inbox') = Len(inbox) + 1 + n
       /\ \A p \in 1..Len(inbox) : p \in 1..Len(inbox') /\ inbox'[p] = inbox[p]
       /\ inbox'[Len(inbox) + 1] = Status(FALSE)
  BY <1>13, <1>15, <1>16 DEF s
<1> QED BY <1>2, <1>12, <1>14, <1>17, ZenonT(40) DEF S

LEMMA ElsewhereKeepsTypes ==
  ASSUME TypeInv, Timeout \/ Crash \/ Respawn
  PROVE  TypeInv'
<1>1. PICK n \in Nat : n = calls /\ n <= n BY RendererBounds DEF TypeInv, EngineType
<1>2. queue \in Seq(Calls) /\ inbox \in Seq(Messages) /\ calls' = calls
      /\ (\A i \in 1..Len(queue) : CallOK(queue[i], n))
      /\ \A p \in 1..Len(inbox) : MessageOK(inbox[p], n)
  BY <1>1 DEF TypeInv, WireType, Timeout, Crash, Respawn
<1>3. WindowType'
  <2>1. UNCHANGED windowVars
    BY DEF Timeout, Crash, Respawn
  <2>2. crashes' \in 0..MaxCrashes
    <3>1. PICK a \in Nat, b \in Nat : a = crashes /\ b = MaxCrashes /\ a <= b
      BY RendererBounds DEF TypeInv, WindowType
    <3>2. crashes' = a \/ (crashes' = a + 1 /\ a < b)
      BY <3>1 DEF Timeout, Crash, Respawn
    <3> QED BY <3>1, <3>2
  <2> QED BY <1>2, <2>1, <2>2 DEF TypeInv, WindowType, windowVars, graphVars, BusesShown
<1>4. CASE Timeout
  <2>1. PICK i \in DOMAIN queue :
          /\ queue' = [queue EXCEPT ![i].live = FALSE]
          /\ inbox' = Append(inbox, Fails(queue[i]))
          /\ lost' = lost \cup {Lose(queue[i])}
    BY <1>4 DEF Timeout
  <2>2. i \in 1..Len(queue) /\ CallOK(queue[i], n) BY <1>2
  <2>3. MessageOK(Fails(queue[i]), n) BY <2>2, AnswerIsMessage DEF Fails
  <2>4. inbox' \in Seq(Messages) /\ \A p \in 1..Len(inbox') : MessageOK(inbox'[p], n)
    BY <1>1, <1>2, <2>1, <2>3, PushedMessage
  <2>5. queue' \in Seq(Calls) /\ Len(queue') = Len(queue)
        /\ \A j \in 1..Len(queue) : queue'[j] = IF j = i THEN [queue[i] EXCEPT !.live = FALSE]
                                                ELSE queue[j]
    <3> DEFINE d == [queue[i] EXCEPT !.live = FALSE]
    <3>1. d \in Calls BY <2>2 DEF CallOK, Calls
    <3>2. queue' = [queue EXCEPT ![i] = d] BY <2>1
    <3> HIDE DEF d
    <3>3. queue' \in Seq(Calls) /\ Len(queue') = Len(queue)
          /\ \A j \in 1..Len(queue) : queue'[j] = IF j = i THEN d ELSE queue[j]
      BY <1>2, <2>2, <3>1, <3>2, Updated
    <3> QED BY <3>3 DEF d
  <2>6. queue[i] \in Calls BY <2>2 DEF CallOK
  <2>7. CallOK([queue[i] EXCEPT !.live = FALSE], n)
        /\ Lose([queue[i] EXCEPT !.live = FALSE]) = Lose(queue[i])
    BY <2>2, <2>6 DEF CallOK, Calls, Aims, Lose
  <2>8. \A j \in 1..Len(queue') :
           CallOK(queue'[j], n) /\ (~queue'[j].live => Lose(queue'[j]) \in lost')
    <3> SUFFICES ASSUME NEW j \in 1..Len(queue)
                 PROVE  CallOK(queue'[j], n) /\ (~queue'[j].live => Lose(queue'[j]) \in lost')
      BY <2>5
    <3>1. CASE j = i BY <2>1, <2>5, <2>7, <3>1
    <3>2. CASE j # i BY <1>2, <2>1, <2>5, <3>2 DEF TypeInv, WireType
    <3> QED BY <3>1, <3>2
  <2>9. Lose(queue[i]) \in [kind : Kinds, id : 0..MaxCalls, target : Int]
    <3>1. \A x \in 0..MaxCalls : x \in Int BY RendererBounds
    <3> QED BY <2>6, <3>1 DEF Lose, Calls
  <2>10. WireType' BY <1>1, <1>2, <2>1, <2>4, <2>5, <2>8, <2>9 DEF TypeInv, WireType
  <2>11. queue # <<>> BY <1>2, <2>2
  <2>12. EngineType' BY <1>4, <2>11 DEF TypeInv, EngineType, Timeout, engineVars
  <2> QED BY <1>3, <2>10, <2>12 DEF TypeInv
<1>5. CASE Crash
  <2>1. \A p \in 1..Len(inbox') :
           \/ p \in 1..Len(inbox) /\ inbox'[p] = inbox[p]
           \/ inbox'[p] = Status(FALSE)
           \/ \E i \in 1..Len(queue) : inbox'[p] = Fails(queue[i])
    BY <1>5, CrashedInbox
  <2>2. inbox' \in Seq(Messages) BY <1>5, CrashedInbox
  <2>3. \A i \in 1..Len(queue) : MessageOK(Fails(queue[i]), n)
    BY <1>2, AnswerIsMessage DEF Fails
  <2>4. MessageOK(Status(FALSE), n) BY StatusIsMessage
  <2>5. \A p \in 1..Len(inbox') : MessageOK(inbox'[p], n)
    BY <1>2, <2>1, <2>3, <2>4
  <2>6. queue' = <<>> /\ lost' = lost /\ up' = FALSE /\ buses' = Nothing /\ jobs' = Nothing
    BY <1>5 DEF Crash
  <2>7. WireType' BY <1>1, <1>2, <2>2, <2>5, <2>6 DEF TypeInv, WireType
  <2>8. EngineType' BY <1>2, <2>6 DEF TypeInv, EngineType, Nothing
  <2> QED BY <1>3, <2>7, <2>8 DEF TypeInv
<1>6. CASE Respawn
  <2>1. inbox' = Append(inbox, Status(TRUE)) /\ MessageOK(Status(TRUE), n)
    BY <1>6, StatusIsMessage DEF Respawn
  <2>2. inbox' \in Seq(Messages) /\ \A p \in 1..Len(inbox') : MessageOK(inbox'[p], n)
    BY <1>1, <1>2, <2>1, PushedMessage
  <2>3. WireType' BY <1>1, <1>2, <1>6, <2>2 DEF TypeInv, WireType, Respawn
  <2>4. EngineType' BY <1>2, <1>6 DEF TypeInv, EngineType, Respawn
  <2> QED BY <1>3, <2>3, <2>4 DEF TypeInv
<1> QED BY <1>4, <1>5, <1>6

(* The graph follows a bus that the header shows. *)
LEMMA EffectTypes ==
  ASSUME NEW list \in Seq(OpenedBus), NEW name, NEW entries \in SUBSET Ids,
         GraphEffect(list, name, entries)
  PROVE  /\ active' \in {NoBus} \cup {list[i].bus : i \in DOMAIN list}
         /\ picker' \subseteq Ids
<1>1. active' = FindOpened(list, name) BY DEF GraphEffect
<1>2. active' \in {NoBus} \cup {list[i].bus : i \in DOMAIN list} BY <1>1, FoundIsShown
<1>3. CASE \E i \in DOMAIN list : list[i].bus = active' /\ list[i].dbc # 0
  <2>1. PICK kept \in SUBSET (entries \ {active'}) :
          picker' = {active'} \cup kept \/ picker' = {active'}
    BY <1>1, <1>3 DEF GraphEffect
  <2>2. PICK i \in DOMAIN list : list[i].bus = active' BY <1>3
  <2>3. list[i] \in OpenedBus OBVIOUS
  <2>4. active' \in Ids BY <2>2, <2>3 DEF OpenedBus
  <2>5. kept \subseteq Ids OBVIOUS
  <2> QED BY <1>2, <2>1, <2>4, <2>5
<1>4. CASE ~\E i \in DOMAIN list : list[i].bus = active' /\ list[i].dbc # 0
  <2>1. picker' = entries \/ picker' = {} BY <1>1, <1>4 DEF GraphEffect
  <2> QED BY <1>2, <2>1
<1> QED BY <1>2, <1>3, <1>4

(* What is left of the buses shown when one is closed. *)
LEMMA WithoutOne ==
  ASSUME NEW bus, opened \in Seq(OpenedBus), NEW w, w = Without(opened, bus)
  PROVE  /\ w \in Seq(OpenedBus)
         /\ \E h \in [1..Len(w) -> 1..Len(opened)] : \A k \in 1..Len(w) :
              /\ w[k] = opened[h[k]] /\ opened[h[k]].bus # bus
              /\ \A l \in 1..Len(w) : h[k] = h[l] => k = l
         /\ \A i \in 1..Len(opened) : opened[i].bus # bus =>
              \E k \in 1..Len(w) : w[k] = opened[i]
<1> DEFINE S == {i \in 1..Len(opened) : opened[i].bus # bus}
           n == Cardinality(S)
<1>1. S \in SUBSET (1..Len(opened)) OBVIOUS
<1>2. w = Filtered(opened, S)
  <2>1. {i \in DOMAIN opened : opened[i].bus # bus} = S OBVIOUS
  <2> QED BY <2>1 DEF Without
<1>3. \A i \in S : i \in 1..Len(opened) /\ opened[i].bus # bus OBVIOUS
<1>4. \A i \in 1..Len(opened) : opened[i].bus # bus => i \in S OBVIOUS
<1> HIDE DEF S, n
<1>5. PICK h \in [1..n -> S] :
         /\ w = [k \in 1..n |-> opened[h[k]]]
         /\ n \in Nat
         /\ \A k, l \in 1..n : h[k] = h[l] => k = l
         /\ \A i \in S : \E k \in 1..n : h[k] = i
  BY <1>1, <1>2, FilteredElements DEF n
<1>6. \A k \in 1..n : h[k] \in 1..Len(opened) /\ opened[h[k]].bus # bus
                     /\ opened[h[k]] \in OpenedBus
  BY <1>3, <1>5
<1>7. w \in [1..n -> OpenedBus] BY <1>5, <1>6
<1>8. w \in Seq(OpenedBus) /\ Len(w) = n BY <1>5, <1>7
<1>9. h \in [1..n -> 1..Len(opened)] BY <1>5, <1>6
<1>10. \A k \in 1..n : /\ w[k] = opened[h[k]] /\ opened[h[k]].bus # bus
                       /\ \A l \in 1..n : h[k] = h[l] => k = l
  BY <1>5, <1>6
<1>11. \A i \in 1..Len(opened) : opened[i].bus # bus => \E k \in 1..n : w[k] = opened[i]
  BY <1>4, <1>5
<1> QED BY <1>8, <1>9, <1>10, <1>11, SMTT(30)

(* The bus of a load is one of those shown. *)
LEMMA TargetIsShown ==
  ASSUME opened \in Seq(OpenedBus), opened # <<>>
  PROVE  headerTargetBus \in BusesShown
<1>1. 1 \in DOMAIN opened OBVIOUS
<1> QED BY <1>1, FoundIsShown DEF headerTargetBus, BusesShown, NamesShown

LEMMA UserKeepsTypes == TypeInv /\ User => TypeInv'
<1> SUFFICES ASSUME TypeInv, User PROVE TypeInv'
  OBVIOUS
<1>0. opened \in Seq(OpenedBus) /\ (\A i \in 1..Len(opened) : opened[i].bus \in 1..calls)
      /\ selected \in Names /\ picker \in SUBSET Ids
  BY DEF TypeInv, WindowType
<1>1. PICK n \in Nat : n = calls BY RendererBounds DEF TypeInv, EngineType
<1>2. \A b \in BusesShown : b \in 0..n /\ b # 0 BY <1>0, <1>1 DEF BusesShown
<1>3. selected \in NamesShown => FindOpened(opened, selected) \in BusesShown
  BY <1>0, FoundIsShown DEF BusesShown, NamesShown
<1>4. CASE \E name \in Names : SelectHeaderBus(name)
  <2>1. PICK name \in Names : SelectHeaderBus(name) BY <1>4
  <2>2. active' \in {NoBus} \cup BusesShown /\ picker' \subseteq Ids
    BY <1>0, <2>1, EffectTypes DEF SelectHeaderBus, BusesShown
  <2>3. UNCHANGED <<up, buses, jobs, queue, inbox, info, opened, connecting, rows,
                    lost, calls, crashes>> /\ selected' = name
    BY <2>1 DEF SelectHeaderBus, engineVars
  <2>4. EngineType' BY <2>3 DEF TypeInv, EngineType
  <2>5. WireType' BY <2>3 DEF TypeInv, WireType
  <2>6. WindowType' BY <2>2, <2>3 DEF TypeInv, WindowType, BusesShown
  <2> QED BY <2>4, <2>5, <2>6 DEF TypeInv
<1>5. CASE HeaderConnect
  <2>1. Call("open", NoBus, selected) /\ connecting' \in BOOLEAN BY <1>5 DEF HeaderConnect
  <2>2. NoBus \in 0..calls BY <1>1 DEF NoBus
  <2> QED BY <1>0, <2>1, <2>2, CallTypes DEF Kinds
<1>6. CASE HeaderDisconnect
  <2> DEFINE bus == FindOpened(opened, selected)
             name == remainingSelectedBus(opened, bus, selected)
  <2>1. Call("close", bus, name) /\ connecting' \in BOOLEAN
    BY <1>6 DEF HeaderDisconnect, TypeInv, WindowType
  <2>2. bus \in 0..calls /\ bus # 0 BY <1>1, <1>2, <1>3, <1>6 DEF HeaderDisconnect
  <2>3. name \in Names
    <3> HIDE DEF bus
    <3> DEFINE w == Without(opened, bus)
    <3>1. w \in Seq(OpenedBus) BY <1>0, WithoutOne
    <3> HIDE DEF w
    <3>2. ASSUME w # <<>> PROVE w[1].name \in Names
      <4>1. w[1] \in OpenedBus BY <3>1, <3>2
      <4> QED BY <4>1 DEF OpenedBus
    <3> QED BY <1>0, <3>2 DEF remainingSelectedBus, w
  <2> HIDE DEF bus, name
  <2> QED BY <2>1, <2>2, <2>3, CallTypes DEF Kinds
<1>7. CASE HeaderLoadDbc
  <2> DEFINE bus == headerTargetBus
  <2>1. Call("load", bus, NoName) /\ connecting' \in BOOLEAN /\ opened # <<>>
    BY <1>7 DEF HeaderLoadDbc, TypeInv, WindowType
  <2>2. bus \in 0..calls /\ bus # 0 BY <1>0, <1>1, <1>2, <2>1, TargetIsShown
  <2> HIDE DEF bus
  <2> QED BY <2>1, <2>2, CallTypes DEF Kinds
<1>8. CASE StartCyclic
  <2>1. PICK bus \in BusesShown : Call("start", bus, NoName) BY <1>8 DEF StartCyclic
  <2>2. bus \in 0..calls /\ bus # 0 /\ connecting' \in BOOLEAN
    BY <1>1, <1>2, <1>8 DEF StartCyclic, TypeInv, WindowType
  <2> QED BY <2>1, <2>2, CallTypes DEF Kinds
<1>9. CASE StopJob
  <2>1. PICK i \in DOMAIN rows : rows[i].running /\ Call("stop", rows[i].id, NoName)
    BY <1>9 DEF StopJob
  <2>2. rows[i].id \in 1..n BY <1>1, <2>1 DEF TypeInv, WindowType
  <2>3. rows[i].id \in 0..calls /\ rows[i].id # 0 /\ connecting' \in BOOLEAN
    BY <1>1, <1>9, <2>2 DEF StopJob, TypeInv, WindowType
  <2> QED BY <2>1, <2>3, CallTypes DEF Kinds
<1> QED BY <1>4, <1>5, <1>6, <1>7, <1>8, <1>9 DEF User

LEMMA DeliverTypes ==
  ASSUME TypeInv, inbox # <<>>, inbox' = Tail(inbox), Elsewhere
  PROVE  /\ EngineType' /\ WireType' /\ calls' = calls /\ crashes' = crashes
         /\ MessageOK(Head(inbox), calls)
<1>1. UNCHANGED <<up, buses, jobs, queue, lost, calls, crashes>> BY DEF Elsewhere, engineVars
<1>2. /\ MessageOK(Head(inbox), calls) /\ inbox' \in Seq(Messages)
      /\ \A p \in 1..Len(inbox') : MessageOK(inbox'[p], calls)
  BY PoppedMessage DEF TypeInv, WireType
<1>3. EngineType' BY <1>1 DEF TypeInv, EngineType
<1>4. WireType' BY <1>1, <1>2 DEF TypeInv, WireType
<1> QED BY <1>1, <1>2, <1>3, <1>4

(* The rows after a handler that may stop some and rename what it stops. *)
LEMMA RowsKeepType ==
  ASSUME NEW n, WindowType, calls = n, NEW r, r = [i \in DOMAIN rows |-> r[i]],
         \A i \in DOMAIN rows : \/ r[i] = rows[i] \/ r[i] = Stopped(rows[i])
                              \/ r[i] = [Stopped(rows[i]) EXCEPT !.id = -i]
  PROVE  /\ r \in Seq(CyclicJobRow) /\ Len(r) = Len(rows)
         /\ \A i \in 1..Len(r) : /\ r[i].id = -i \/ r[i].id \in 1..n
                                 /\ r[i].running => r[i].id \in 1..n
<1>1. rows \in Seq(CyclicJobRow) /\ Len(rows) \in Nat /\ DOMAIN rows = 1..Len(rows)
  BY DEF WindowType
<1>2. ASSUME NEW i \in 1..Len(rows)
      PROVE  /\ r[i] \in CyclicJobRow /\ (r[i].id = -i \/ r[i].id \in 1..n)
             /\ r[i].running => r[i].id \in 1..n
  <2>1. rows[i] \in CyclicJobRow /\ -i \in Int BY <1>1
  <2>2. /\ rows[i].id = -i \/ rows[i].id \in 1..n
        /\ rows[i].running => rows[i].id \in 1..n
    BY DEF WindowType
  <2>3. Stopped(rows[i]) \in CyclicJobRow /\ Stopped(rows[i]).id = rows[i].id
        /\ Stopped(rows[i]).running = FALSE
    BY <2>1 DEF Stopped, CyclicJobRow
  <2>4. [Stopped(rows[i]) EXCEPT !.id = -i] \in CyclicJobRow
        /\ [Stopped(rows[i]) EXCEPT !.id = -i].id = -i
        /\ [Stopped(rows[i]) EXCEPT !.id = -i].running = FALSE
    BY <2>1, <2>3 DEF CyclicJobRow
  <2>5. r[i] = rows[i] \/ r[i] = Stopped(rows[i]) \/ r[i] = [Stopped(rows[i]) EXCEPT !.id = -i]
    BY <1>1
  <2> QED BY <2>1, <2>2, <2>3, <2>4, <2>5
<1>4. r \in Seq(CyclicJobRow) /\ Len(r) = Len(rows)
  <2>1. \A i \in 1..Len(rows) : r[i] \in CyclicJobRow BY <1>2
  <2>2. r \in [1..Len(rows) -> CyclicJobRow] BY <1>1, <2>1
  <2> QED BY <1>1, <2>2
<1> QED BY <1>2, <1>4
LEMMA DeliverKeepsTypes == TypeInv /\ Deliver => TypeInv'
<1> SUFFICES ASSUME TypeInv, Deliver PROVE TypeInv'
  OBVIOUS
<1> DEFINE m == Head(inbox)
<1>1. PICK n \in Nat : n = calls /\ 1..n \subseteq Ids /\ 1..n \subseteq 0..MaxCalls
  BY RendererBounds DEF TypeInv, EngineType, Ids
<1>2. /\ info \in BOOLEAN /\ connecting \in BOOLEAN /\ crashes \in 0..MaxCrashes
      /\ opened \in Seq(OpenedBus) /\ (\A i \in 1..Len(opened) : opened[i].bus \in 1..n)
      /\ selected \in Names /\ rows \in Seq(CyclicJobRow)
      /\ (\A i \in 1..Len(rows) : /\ rows[i].id = -i \/ rows[i].id \in 1..n
                                  /\ rows[i].running => rows[i].id \in 1..n)
      /\ active \in {NoBus} \cup BusesShown /\ picker \in SUBSET Ids
  BY <1>1 DEF TypeInv, WindowType
<1>3. TRUE \in BOOLEAN /\ FALSE \in BOOLEAN OBVIOUS
<1>4. CASE Disconnected
  <2>1. EngineType' /\ WireType' /\ calls' = calls /\ crashes' = crashes
    BY <1>4, DeliverTypes DEF Disconnected, Receive
  <2>2. CASE info
    <3>1. /\ opened' = <<>> /\ rows' = ResetRows /\ active' = NoBus /\ picker' = {}
          /\ info' = FALSE /\ selected' = selected /\ connecting' = connecting
      BY <1>4, <2>2 DEF Disconnected
    <3>2. ResetRows = [i \in DOMAIN rows |-> ResetRows[i]]
          /\ \A i \in DOMAIN rows : \/ ResetRows[i] = Stopped(rows[i])
                                   \/ ResetRows[i] = [Stopped(rows[i]) EXCEPT !.id = -i]
      <4>1. \A i \in DOMAIN rows :
               ResetRows[i] = [Stopped(rows[i]) EXCEPT
                                 !.id = IF rows[i].running THEN -i ELSE Stopped(rows[i]).id]
        BY DEF ResetRows, cyclicJobDefinitionId
      <4>2. \A i \in DOMAIN rows :
               [Stopped(rows[i]) EXCEPT !.id = Stopped(rows[i]).id] = Stopped(rows[i])
        BY DEF Stopped
      <4>3. ResetRows = [i \in DOMAIN rows |-> ResetRows[i]] BY DEF ResetRows
      <4> QED BY <4>1, <4>2, <4>3
    <3>3. /\ ResetRows \in Seq(CyclicJobRow)
          /\ \A i \in 1..Len(ResetRows) :
               /\ ResetRows[i].id = -i \/ ResetRows[i].id \in 1..n
               /\ ResetRows[i].running => ResetRows[i].id \in 1..n
      <4> DEFINE r == ResetRows
      <4>1. WindowType /\ calls = n BY <1>1 DEF TypeInv
      <4> HIDE DEF r
      <4> QED BY <3>2, <4>1, RowsKeepType DEF r
    <3>4. opened' \in Seq(OpenedBus) /\ Len(opened') = 0 BY <3>1
    <3>5. \A i \in 1..Len(opened') : opened'[i].bus \in 1..n BY <3>4
    <3>6. active' \in {NoBus} \cup BusesShown' /\ picker' \subseteq Ids BY <3>1
    <3>7. info' \in BOOLEAN BY <1>3, <3>1
    <3>8. rows' \in Seq(CyclicJobRow)
          /\ \A i \in 1..Len(rows') : /\ rows'[i].id = -i \/ rows'[i].id \in 1..n
                                      /\ rows'[i].running => rows'[i].id \in 1..n
      BY <3>1, <3>3
    <3>9. UNCHANGED <<selected, connecting, crashes, calls>> BY <2>1, <3>1
    <3>10. WindowType' BY <1>1, <1>2, <3>4, <3>5, <3>6, <3>7, <3>8, <3>9 DEF WindowType
    <3> QED BY <2>1, <3>10 DEF TypeInv
  <2>3. CASE ~info
    <3>1. UNCHANGED <<opened, rows, active, picker, selected, connecting>> /\ info' = FALSE
      BY <1>4, <2>3 DEF Disconnected, graphVars
    <3> QED BY <1>1, <1>2, <1>3, <2>1, <3>1 DEF TypeInv, WindowType, BusesShown
  <2> QED BY <2>2, <2>3
<1>5. CASE Connected
  <2> DEFINE c == [kind |-> "list", id |-> 0, target |-> 0, name |-> selected, live |-> TRUE]
             s == Tail(inbox)
  <2>1. CallOK(c, n) BY <1>1, <1>2, RendererBounds DEF CallOK, Calls, Kinds, Aims
  <2>2. c.live = TRUE /\ n <= n OBVIOUS
  <2>3. Request(c, s) /\ calls' = n /\ lost' = lost BY <1>1, <1>5 DEF Connected
  <2>4. s \in Seq(Messages) /\ \A p \in 1..Len(s) : MessageOK(s[p], n)
    BY <1>1, <1>5, PoppedMessage DEF Connected, TypeInv, WireType
  <2> HIDE DEF c, s
  <2>5. WireType' /\ (~up => queue' = queue) BY <1>1, <2>1, <2>2, <2>3, <2>4, RequestTypes
  <2>6. UNCHANGED <<up, buses, jobs, opened, selected, connecting, rows, active, picker,
                    calls, crashes>> /\ info' = TRUE
    BY <1>5 DEF Connected, engineVars, graphVars
  <2>7. EngineType' BY <2>5, <2>6 DEF TypeInv, EngineType
  <2>8. WindowType' BY <1>1, <1>2, <1>3, <2>6 DEF WindowType, BusesShown
  <2> QED BY <2>5, <2>7, <2>8 DEF TypeInv
<1>6. CASE ListAnswered
  <2>1. EngineType' /\ WireType' /\ calls' = calls /\ crashes' = crashes
    BY <1>6, DeliverTypes DEF ListAnswered, Receive
  <2>2. UNCHANGED <<info, opened, connecting, rows>> BY <1>6 DEF ListAnswered
  <2>3. selected' \in Names /\ active' \in {NoBus} \cup BusesShown /\ picker' \subseteq Ids
    <3>1. CASE UNCHANGED <<selected, graphVars>> BY <1>2, <3>1 DEF graphVars
    <3>2. CASE \E first \in Names : selected' = first /\ GraphEffect(opened, first, picker)
      BY <1>2, <3>2, EffectTypes DEF BusesShown
    <3> QED BY <1>6, <3>1, <3>2 DEF ListAnswered
  <2> QED BY <1>1, <1>2, <2>1, <2>2, <2>3 DEF TypeInv, WindowType, BusesShown
<1>7. CASE OpenAnswered
  <2>1. EngineType' /\ WireType' /\ calls' = calls /\ crashes' = crashes /\ MessageOK(m, n)
    BY <1>1, <1>7, DeliverTypes DEF OpenAnswered, Receive
  <2>2. connecting' = FALSE /\ info' = info /\ rows' = rows BY <1>7 DEF OpenAnswered
  <2>3. CASE m.ok
    <3> DEFINE e == [bus |-> m.id, name |-> m.name, dbc |-> 0]
               list == Append(opened, e)
    <3>1. opened' = list /\ selected' = m.name /\ GraphEffect(list, m.name, picker)
      BY <1>7, <2>3 DEF OpenAnswered
    <3>2. m.id \in 1..n /\ m.name \in Names
      BY <1>7, <2>1 DEF OpenAnswered, Receive, MessageOK, Aims
    <3>3. e \in OpenedBus /\ e.bus \in 1..n BY <1>1, <3>2, RendererBounds DEF OpenedBus
    <3> HIDE DEF e
    <3>4. list \in Seq(OpenedBus)
          /\ \A i \in 1..Len(list) : (i \in 1..Len(opened) /\ list[i] = opened[i]) \/ list[i] = e
      BY <1>2, <3>3, Pushed
    <3> HIDE DEF list
    <3>5. active' \in {NoBus} \cup {list[i].bus : i \in DOMAIN list} /\ picker' \subseteq Ids
      BY <1>2, <3>1, <3>4, EffectTypes
    <3>6. \A i \in 1..Len(list) : list[i].bus \in 1..n BY <1>2, <3>3, <3>4
    <3> HIDE DEF m
    <3> QED BY <1>1, <1>2, <1>3, <2>1, <2>2, <3>1, <3>2, <3>4, <3>5, <3>6
        DEF TypeInv, WindowType, BusesShown
  <2>4. CASE ~m.ok
    <3>1. UNCHANGED <<opened, selected, active, picker>>
      BY <1>7, <2>4 DEF OpenAnswered, graphVars
    <3> QED BY <1>1, <1>2, <1>3, <2>1, <2>2, <3>1 DEF TypeInv, WindowType, BusesShown
  <2> QED BY <2>3, <2>4
<1>8. CASE CloseAnswered
  <2>1. EngineType' /\ WireType' /\ calls' = calls /\ crashes' = crashes /\ MessageOK(m, n)
    BY <1>1, <1>8, DeliverTypes DEF CloseAnswered, Receive
  <2>2. connecting' = connecting /\ info' = info BY <1>8 DEF CloseAnswered
  <2>3. CASE m.ok
    <3> DEFINE list == Without(opened, m.target)
               r == RowsWithout(m.target)
    <3>1. opened' = list /\ selected' = m.name /\ GraphEffect(list, m.name, picker)
          /\ rows' = r
      BY <1>8, <2>3 DEF CloseAnswered
    <3>2. m.name \in Names
      BY <1>8, <2>1 DEF CloseAnswered, Receive, MessageOK, Aims
    <3>3. r = [i \in DOMAIN rows |-> r[i]]
          /\ \A i \in DOMAIN rows : r[i] = rows[i] \/ r[i] = Stopped(rows[i])
      BY DEF RowsWithout
    <3>4. list \in Seq(OpenedBus) /\ \A i \in 1..Len(list) : list[i].bus \in 1..n
      <4> HIDE DEF m
      <4>1. PICK h \in [1..Len(list) -> 1..Len(opened)] : \A k \in 1..Len(list) :
              list[k] = opened[h[k]]
        BY <1>2, WithoutOne
      <4>2. list \in Seq(OpenedBus) BY <1>2, WithoutOne
      <4> HIDE DEF list
      <4>3. \A k \in 1..Len(list) : h[k] \in 1..Len(opened) BY <4>1
      <4> QED BY <1>2, <4>1, <4>2, <4>3
    <3> HIDE DEF list, r, m
    <3>5. active' \in {NoBus} \cup {list[i].bus : i \in DOMAIN list} /\ picker' \subseteq Ids
      BY <1>2, <3>1, <3>4, EffectTypes
    <3>6. WindowType /\ calls = n BY <1>1 DEF TypeInv
    <3>7. r \in Seq(CyclicJobRow)
          /\ \A i \in 1..Len(r) : /\ r[i].id = -i \/ r[i].id \in 1..n
                                  /\ r[i].running => r[i].id \in 1..n
      BY <3>3, <3>6, RowsKeepType
    <3> QED BY <1>1, <1>2, <1>3, <2>1, <2>2, <3>1, <3>2, <3>4, <3>5, <3>7
        DEF TypeInv, WindowType, BusesShown
  <2>4. CASE ~m.ok
    <3>1. UNCHANGED <<opened, selected, rows, active, picker>>
      BY <1>8, <2>4 DEF CloseAnswered, graphVars
    <3> QED BY <1>1, <1>2, <1>3, <2>1, <2>2, <3>1 DEF TypeInv, WindowType, BusesShown
  <2> QED BY <2>3, <2>4
<1>9. CASE LoadAnswered
  <2>1. EngineType' /\ WireType' /\ calls' = calls /\ crashes' = crashes /\ MessageOK(m, n)
    BY <1>1, <1>9, DeliverTypes DEF LoadAnswered, Receive
  <2>2. UNCHANGED <<info, selected, connecting, rows>> BY <1>9 DEF LoadAnswered
  <2>3. CASE m.ok
    <3> DEFINE list == WithDbc(m)
    <3>1. PICK kept \in SUBSET (picker \ {m.target}) :
             opened' = list /\ GraphEffect(list, selected, {m.target} \cup kept)
      BY <1>9, <2>3 DEF LoadAnswered
    <3>2. m.id \in 1..n /\ m.target \in 1..n
      BY <1>9, <2>1 DEF LoadAnswered, Receive, MessageOK, Aims
    <3>3. list \in Seq(OpenedBus) /\ \A i \in 1..Len(list) : list[i].bus \in 1..n
      <4>1. \A i \in 1..Len(opened) :
               list[i] = opened[i] \/ list[i] = [opened[i] EXCEPT !.dbc = m.id]
        BY <1>2 DEF WithDbc
      <4>2. list = [i \in 1..Len(opened) |-> list[i]] BY <1>2 DEF WithDbc
      <4> HIDE DEF list
      <4>3. \A i \in 1..Len(opened) : list[i] \in OpenedBus /\ list[i].bus = opened[i].bus
        <5> SUFFICES ASSUME NEW i \in 1..Len(opened)
                     PROVE  list[i] \in OpenedBus /\ list[i].bus = opened[i].bus
          OBVIOUS
        <5>1. opened[i] \in OpenedBus /\ m.id \in 0..MaxCalls BY <1>1, <1>2, <3>2
        <5>2. [opened[i] EXCEPT !.dbc = m.id] \in OpenedBus
              /\ [opened[i] EXCEPT !.dbc = m.id].bus = opened[i].bus
          BY <5>1 DEF OpenedBus
        <5> QED BY <4>1, <5>1, <5>2
      <4>4. list \in [1..Len(opened) -> OpenedBus] /\ Len(opened) \in Nat BY <1>2, <4>2, <4>3
      <4>5. list \in Seq(OpenedBus) /\ Len(list) = Len(opened) BY <4>4
      <4> QED BY <1>2, <4>3, <4>5
    <3>4. {m.target} \cup kept \in SUBSET Ids BY <1>1, <1>2, <3>2
    <3> HIDE DEF list, m
    <3>5. active' \in {NoBus} \cup {list[i].bus : i \in DOMAIN list} /\ picker' \subseteq Ids
      BY <3>1, <3>3, <3>4, EffectTypes
    <3> QED BY <1>1, <1>2, <2>1, <2>2, <3>1, <3>3, <3>5 DEF TypeInv, WindowType, BusesShown
  <2>4. CASE ~m.ok
    <3>1. UNCHANGED <<opened, active, picker>>
      BY <1>9, <2>4 DEF LoadAnswered, graphVars
    <3> QED BY <1>1, <1>2, <2>1, <2>2, <3>1 DEF TypeInv, WindowType, BusesShown
  <2> QED BY <2>3, <2>4
<1>10. CASE StartAnswered
  <2>1. EngineType' /\ WireType' /\ calls' = calls /\ crashes' = crashes /\ MessageOK(m, n)
    BY <1>1, <1>10, DeliverTypes DEF StartAnswered, Receive
  <2>2. UNCHANGED <<info, opened, selected, connecting, active, picker>>
    BY <1>10 DEF StartAnswered, graphVars
  <2>3. rows' \in Seq(CyclicJobRow)
        /\ \A i \in 1..Len(rows') : /\ rows'[i].id = -i \/ rows'[i].id \in 1..n
                                    /\ rows'[i].running => rows'[i].id \in 1..n
    <3>1. CASE m.ok
      <4> DEFINE e == [id |-> m.id, bus |-> m.target, running |-> TRUE]
      <4>1. rows' = Append(rows, e) BY <1>10, <3>1 DEF StartAnswered
      <4>2. m.id \in 1..n /\ m.target \in 1..n
        BY <1>10, <2>1 DEF StartAnswered, Receive, MessageOK, Aims
      <4>3. e \in CyclicJobRow /\ e.id \in 1..n BY <1>1, <4>2 DEF CyclicJobRow
      <4> HIDE DEF e
      <4>4. rows' \in Seq(CyclicJobRow)
            /\ \A i \in 1..Len(rows') :
                 (i \in 1..Len(rows) /\ rows'[i] = rows[i]) \/ rows'[i] = e
        BY <1>2, <4>1, <4>3, Pushed
      <4> QED BY <1>2, <4>3, <4>4
    <3>2. CASE ~m.ok BY <1>2, <1>10, <3>2 DEF StartAnswered
    <3> QED BY <3>1, <3>2
  <2> QED BY <1>1, <1>2, <2>1, <2>2, <2>3 DEF TypeInv, WindowType, BusesShown
<1>11. CASE StopAnswered
  <2>1. EngineType' /\ WireType' /\ calls' = calls /\ crashes' = crashes
    BY <1>11, DeliverTypes DEF StopAnswered, Receive
  <2>2. UNCHANGED <<info, opened, selected, connecting, active, picker>>
    BY <1>11 DEF StopAnswered, graphVars
  <2>3. rows' = [i \in DOMAIN rows |-> rows'[i]]
        /\ \A i \in DOMAIN rows : rows'[i] = rows[i] \/ rows'[i] = Stopped(rows[i])
    BY <1>11 DEF StopAnswered
  <2>4. WindowType /\ calls = n BY <1>1 DEF TypeInv
  <2>5. rows' \in Seq(CyclicJobRow)
        /\ \A i \in 1..Len(rows') : /\ rows'[i].id = -i \/ rows'[i].id \in 1..n
                                    /\ rows'[i].running => rows'[i].id \in 1..n
    BY <2>3, <2>4, RowsKeepType
  <2> QED BY <1>1, <1>2, <2>1, <2>2, <2>5 DEF TypeInv, WindowType, BusesShown
<1> QED BY <1>4, <1>5, <1>6, <1>7, <1>8, <1>9, <1>10, <1>11 DEF Deliver

LEMMA InitTypes == Init => TypeInv
<1> SUFFICES ASSUME Init PROVE TypeInv
  OBVIOUS
<1>0. /\ calls = 0 /\ crashes = 0 /\ up = FALSE /\ lost = {} /\ queue = <<>> /\ inbox = <<>>
      /\ DOMAIN buses = {} /\ DOMAIN jobs = {}
  BY DEF Init, Nothing
<1>a. EngineType
  <2>1. calls \in 0..MaxCalls BY <1>0, RendererBounds
  <2>2. up \in BOOLEAN BY <1>0, Zenon
  <2> QED BY <1>0, <2>1, <2>2 DEF EngineType
<1>b. WireType
  <2>1. queue \in Seq(Calls) /\ inbox \in Seq(Messages) /\ Len(queue) = 0 /\ Len(inbox) = 0
    BY <1>0
  <2> QED BY <1>0, <2>1 DEF WireType
<1>2. Hydrated \in Nat /\ rows = [i \in 1..Hydrated |-> [id |-> -i, bus |-> 0, running |-> FALSE]]
  BY RendererBounds DEF Init, NoBus, cyclicJobDefinitionId
<1>3. \A i \in 1..Hydrated : [id |-> -i, bus |-> 0, running |-> FALSE] \in CyclicJobRow
  BY RendererBounds DEF CyclicJobRow
<1>4. rows \in [1..Hydrated -> CyclicJobRow] BY <1>2, <1>3
<1>5. rows \in Seq(CyclicJobRow) /\ Len(rows) = Hydrated BY <1>2, <1>4
<1>6. \A i \in 1..Len(rows) : rows[i].id = -i /\ rows[i].running = FALSE BY <1>2, <1>5
<1>7. opened \in Seq(OpenedBus) /\ Len(opened) = 0 BY DEF Init
<1>8. WindowType
  <2>1. info = FALSE /\ connecting = FALSE /\ selected \in Names /\ active = NoBus /\ picker = {}
    BY RendererBounds DEF Init
  <2>2. crashes \in 0..MaxCrashes BY <1>0, RendererBounds
  <2>3. \A i \in 1..Len(opened) : opened[i].bus \in 1..calls BY <1>7
  <2>4. info \in BOOLEAN /\ connecting \in BOOLEAN BY <2>1
  <2> QED BY <1>5, <1>6, <1>7, <2>1, <2>2, <2>3, <2>4 DEF WindowType
<1> QED BY <1>a, <1>b, <1>8 DEF TypeInv

LEMMA TypeInvKept == Spec => []TypeInv
<1>1. TypeInv /\ [Next]_vars => TypeInv'
  <2> SUFFICES ASSUME TypeInv, [Next]_vars PROVE TypeInv'
    OBVIOUS
  <2>1. CASE UNCHANGED vars
    BY <2>1 DEF vars, engineVars, windowVars, graphVars, TypeInv, EngineType, WireType,
       WindowType, BusesShown
  <2> QED BY <2>1, UserKeepsTypes, EngineKeepsTypes, ElsewhereKeepsTypes, DeliverKeepsTypes
      DEF Next
<1> QED BY <1>1, InitTypes, PTL DEF Spec

(* The types of the window, of the bridge and of the engine's tables          *)
(* (App.tsx, useTransmitModel.ts): what the header, the rows and the graph    *)
(* name are ids of calls that were made.                                      *)
THEOREM RendererTypes == Spec => []TypeOK
BY TypeInvKept, TypeInvImplies, PTL

-----------------------------------------------------------------------------
(* What the window shows mirrors what the engine has.                         *)
(*                                                                            *)
(* The parts of the invariant are stated of the values of the variables: s is *)
(* the inbox, q the queue, B the buses, J the jobs, O the buses shown, R the  *)
(* rows, L the lost calls.                                                    *)

-----------------------------------------------------------------------------
(* Messages that change what the window shows. *)

IsDown(m)   == m.kind = "status" /\ ~m.ok
IsUp(m)     == m.kind = "status" /\ m.ok
OkAnswer(m) == m.kind \notin {"status", "list"} /\ m.ok
Ok(m, kind) == m.kind = kind /\ m.ok
Ends(m)     == m.kind = "stop" /\ (m.ok \/ m.gone)
Neutral(m)  == ~IsDown(m) /\ ~OkAnswer(m) /\ ~m.gone

DownAfter(s, p) == \E i \in 1..Len(s) : p < i /\ IsDown(s[i])
OkAfter(s, p, kind, target) ==
    \E i \in 1..Len(s) : p < i /\ Ok(s[i], kind) /\ s[i].target = target
EndsAfter(s, p, target) ==
    \E i \in 1..Len(s) : p < i /\ Ends(s[i]) /\ s[i].target = target
(* The answer of a call that made something is on its way, and the engine has *)
(* not died since.                                                            *)
NewsOf(s, kind, id) ==
    \E i \in 1..Len(s) : Ok(s[i], kind) /\ s[i].id = id /\ ~DownAfter(s, i)

(* The inbox t is s with more messages: none says that the engine died, or    *)
(* none changes what the window shows, or one is the answer of c.             *)
Grown(s, t) ==
    /\ Len(s) <= Len(t) /\ \A p \in 1..Len(s) : p \in 1..Len(t) /\ t[p] = s[p]
    /\ \A p \in 1..Len(t) : p \in 1..Len(s) \/ ~IsDown(t[p])

Quiet(s, t) == Grown(s, t) /\ \A p \in 1..Len(t) : p \in 1..Len(s) \/ Neutral(t[p])

Answered(s, t, L, c, ok, gone) ==
    /\ Grown(s, t) /\ Len(t) <= Len(s) + 1
    /\ \A p \in 1..Len(t) : p \in 1..Len(s) \/ t[p] = Answer(c, ok, gone)
    /\ \/ Len(s) + 1 \in 1..Len(t) /\ t[Len(s) + 1] = Answer(c, ok, gone)
       \/ Lose(c) \in L

(* The engine died. *)
Fallen(s, t) ==
    /\ Len(s) <= Len(t) /\ \A p \in 1..Len(s) : p \in 1..Len(t) /\ t[p] = s[p]
    /\ \A p \in 0..Len(s) : DownAfter(t, p)
    /\ \A p \in 1..Len(t) : p \in 1..Len(s) \/ (~OkAnswer(t[p]) /\ ~t[p].gone)

LEMMA GrownNews ==
  ASSUME NEW s \in Seq(Messages), NEW t \in Seq(Messages), Grown(s, t)
  PROVE  /\ \A p \in Nat : DownAfter(t, p) <=> DownAfter(s, p)
         /\ \A p \in Nat : \A kind, target :
               OkAfter(s, p, kind, target) => OkAfter(t, p, kind, target)
         /\ \A p \in Nat : \A target : EndsAfter(s, p, target) => EndsAfter(t, p, target)
         /\ \A kind, id : NewsOf(s, kind, id) => NewsOf(t, kind, id)
<1>1. \A p \in Nat : DownAfter(t, p) <=> DownAfter(s, p) BY DEF Grown, DownAfter
<1>2. \A p \in Nat : \A kind, target :
         OkAfter(s, p, kind, target) => OkAfter(t, p, kind, target)
  BY DEF Grown, OkAfter
<1>3. \A p \in Nat : \A target : EndsAfter(s, p, target) => EndsAfter(t, p, target)
  BY DEF Grown, EndsAfter
<1>4. \A i \in 1..Len(s) : i \in Nat OBVIOUS
<1>5. \A kind, id : NewsOf(s, kind, id) => NewsOf(t, kind, id)
  BY <1>1, <1>4 DEF Grown, NewsOf
<1> QED BY <1>1, <1>2, <1>3, <1>5

LEMMA QuietNews ==
  ASSUME NEW s \in Seq(Messages), NEW t \in Seq(Messages), Quiet(s, t)
  PROVE  /\ \A p \in Nat : \A target : EndsAfter(t, p, target) => EndsAfter(s, p, target)
         /\ \A kind \in Kinds \ {"list"}, p \in 1..Len(t) :
               Ok(t[p], kind) => p \in 1..Len(s) /\ t[p] = s[p]
         /\ \A p \in 1..Len(t) : Ends(t[p]) => p \in 1..Len(s) /\ t[p] = s[p]
<1>1. \A kind \in Kinds \ {"list"}, p \in 1..Len(t) :
         Ok(t[p], kind) => p \in 1..Len(s) /\ t[p] = s[p]
  BY DEF Quiet, Grown, Ok, Neutral, OkAnswer, Kinds
<1>2. \A p \in 1..Len(t) : Ends(t[p]) => p \in 1..Len(s) /\ t[p] = s[p]
  BY DEF Quiet, Grown, Ends, Neutral, OkAnswer
<1>3. \A p \in Nat : \A target : EndsAfter(t, p, target) => EndsAfter(s, p, target)
  BY <1>2 DEF EndsAfter
<1> QED BY <1>1, <1>2, <1>3

(* The window takes the first message. *)
LEMMA TailNews ==
  ASSUME NEW s \in Seq(Messages), s # <<>>, NEW t, t = Tail(s)
  PROVE  /\ t \in Seq(Messages) /\ 1 \in 1..Len(s) /\ s[1] = Head(s) /\ Len(t) = Len(s) - 1
         /\ \A p \in 1..Len(t) : p + 1 \in 1..Len(s) /\ t[p] = s[p + 1]
         /\ \A p \in Nat : DownAfter(t, p) <=> DownAfter(s, p + 1)
         /\ \A p \in Nat : \A kind, target :
               OkAfter(t, p, kind, target) <=> OkAfter(s, p + 1, kind, target)
         /\ \A p \in Nat : \A target : EndsAfter(t, p, target) <=> EndsAfter(s, p + 1, target)
         /\ DownAfter(s, 0) <=> (IsDown(Head(s)) \/ DownAfter(t, 0))
         /\ \A kind, target : OkAfter(s, 0, kind, target) <=>
               (Ok(Head(s), kind) /\ Head(s).target = target) \/ OkAfter(t, 0, kind, target)
         /\ \A target : EndsAfter(s, 0, target) <=>
               (Ends(Head(s)) /\ Head(s).target = target) \/ EndsAfter(t, 0, target)
         /\ \A kind, id : NewsOf(s, kind, id) =>
               \/ Ok(Head(s), kind) /\ Head(s).id = id /\ ~DownAfter(t, 0)
               \/ NewsOf(t, kind, id)
<1>1. /\ t \in Seq(Messages) /\ Len(s) \in Nat /\ Len(t) = Len(s) - 1
      /\ 1 \in 1..Len(s) /\ s[1] = Head(s) /\ Head(s) \in Messages
      /\ \A p \in 1..Len(t) : p + 1 \in 1..Len(s) /\ t[p] = s[p + 1]
      /\ \A p \in 1..Len(s) : p = 1 \/ (p - 1 \in 1..Len(t) /\ t[p - 1] = s[p])
  BY Popped
<1>2. ASSUME NEW p \in Nat PROVE DownAfter(t, p) <=> DownAfter(s, p + 1)
  <2>1. ASSUME DownAfter(t, p) PROVE DownAfter(s, p + 1)
    <3>1. PICK i \in 1..Len(t) : p < i /\ IsDown(t[i]) BY <2>1 DEF DownAfter
    <3>2. i + 1 \in 1..Len(s) /\ p + 1 < i + 1 /\ IsDown(s[i + 1]) BY <1>1, <3>1
    <3> QED BY <3>2 DEF DownAfter
  <2>2. ASSUME DownAfter(s, p + 1) PROVE DownAfter(t, p)
    <3>1. PICK i \in 1..Len(s) : p + 1 < i /\ IsDown(s[i]) BY <2>2 DEF DownAfter
    <3>2. i - 1 \in 1..Len(t) /\ p < i - 1 /\ IsDown(t[i - 1]) BY <1>1, <3>1
    <3> QED BY <3>2 DEF DownAfter
  <2> QED BY <2>1, <2>2
<1>3. ASSUME NEW p \in Nat, NEW kind, NEW target
      PROVE  OkAfter(t, p, kind, target) <=> OkAfter(s, p + 1, kind, target)
  <2>1. ASSUME OkAfter(t, p, kind, target) PROVE OkAfter(s, p + 1, kind, target)
    <3>1. PICK i \in 1..Len(t) : p < i /\ Ok(t[i], kind) /\ t[i].target = target
      BY <2>1 DEF OkAfter
    <3>2. i + 1 \in 1..Len(s) /\ p + 1 < i + 1 /\ s[i + 1] = t[i] BY <1>1, <3>1
    <3> QED BY <3>1, <3>2 DEF OkAfter
  <2>2. ASSUME OkAfter(s, p + 1, kind, target) PROVE OkAfter(t, p, kind, target)
    <3>1. PICK i \in 1..Len(s) : p + 1 < i /\ Ok(s[i], kind) /\ s[i].target = target
      BY <2>2 DEF OkAfter
    <3>2. i - 1 \in 1..Len(t) /\ p < i - 1 /\ t[i - 1] = s[i] BY <1>1, <3>1
    <3> QED BY <3>1, <3>2 DEF OkAfter
  <2> QED BY <2>1, <2>2
<1>4. ASSUME NEW p \in Nat, NEW target
      PROVE  EndsAfter(t, p, target) <=> EndsAfter(s, p + 1, target)
  <2>1. ASSUME EndsAfter(t, p, target) PROVE EndsAfter(s, p + 1, target)
    <3>1. PICK i \in 1..Len(t) : p < i /\ Ends(t[i]) /\ t[i].target = target
      BY <2>1 DEF EndsAfter
    <3>2. i + 1 \in 1..Len(s) /\ p + 1 < i + 1 /\ s[i + 1] = t[i] BY <1>1, <3>1
    <3> QED BY <3>1, <3>2 DEF EndsAfter
  <2>2. ASSUME EndsAfter(s, p + 1, target) PROVE EndsAfter(t, p, target)
    <3>1. PICK i \in 1..Len(s) : p + 1 < i /\ Ends(s[i]) /\ s[i].target = target
      BY <2>2 DEF EndsAfter
    <3>2. i - 1 \in 1..Len(t) /\ p < i - 1 /\ t[i - 1] = s[i] BY <1>1, <3>1
    <3> QED BY <3>1, <3>2 DEF EndsAfter
  <2> QED BY <2>1, <2>2
<1>5. DownAfter(s, 0) <=> (IsDown(s[1]) \/ DownAfter(s, 1)) BY <1>1 DEF DownAfter
<1>6. \A kind, target : OkAfter(s, 0, kind, target) <=>
         (Ok(s[1], kind) /\ s[1].target = target) \/ OkAfter(s, 1, kind, target)
  BY <1>1 DEF OkAfter
<1>7. \A target : EndsAfter(s, 0, target) <=>
         (Ends(s[1]) /\ s[1].target = target) \/ EndsAfter(s, 1, target)
  BY <1>1 DEF EndsAfter
<1>8. 0 \in Nat /\ 0 + 1 = 1 OBVIOUS
<1>9. (DownAfter(t, 0) <=> DownAfter(s, 1))
      /\ (\A kind, target : OkAfter(t, 0, kind, target) <=> OkAfter(s, 1, kind, target))
      /\ \A target : EndsAfter(t, 0, target) <=> EndsAfter(s, 1, target)
  BY <1>2, <1>3, <1>4, <1>8
<1>10. ASSUME NEW kind, NEW id, NewsOf(s, kind, id)
       PROVE  \/ Ok(s[1], kind) /\ s[1].id = id /\ ~DownAfter(t, 0)
              \/ NewsOf(t, kind, id)
  <2>1. PICK i \in 1..Len(s) : Ok(s[i], kind) /\ s[i].id = id /\ ~DownAfter(s, i)
    BY <1>10 DEF NewsOf
  <2>2. CASE i = 1 BY <1>9, <2>1, <2>2
  <2>3. CASE i # 1
    <3>1. i - 1 \in 1..Len(t) /\ t[i - 1] = s[i] /\ i - 1 \in Nat /\ (i - 1) + 1 = i
      BY <1>1, <2>3
    <3>2. ~DownAfter(t, i - 1) BY <1>2, <2>1, <3>1
    <3> QED BY <2>1, <3>1, <3>2 DEF NewsOf
  <2> QED BY <2>2, <2>3
<1> QED BY <1>1, <1>2, <1>3, <1>4, <1>5, <1>6, <1>7, <1>9, <1>10
LEMMA PushQuiet ==
  ASSUME NEW s \in Seq(Messages), NEW m \in Messages, Neutral(m), NEW t, t = Append(s, m)
  PROVE  t \in Seq(Messages) /\ Quiet(s, t)
<1>1. /\ t \in Seq(Messages) /\ Len(t) = Len(s) + 1 /\ Len(s) \in Nat
      /\ \A p \in 1..Len(s) : p \in 1..Len(t) /\ t[p] = s[p]
      /\ \A p \in 1..Len(t) : p \in 1..Len(s) \/ t[p] = m
  BY Pushed
<1> QED BY <1>1 DEF Quiet, Grown, Neutral

LEMMA SameQuiet ==
  ASSUME NEW s \in Seq(Messages)
  PROVE  Quiet(s, s)
BY DEF Quiet, Grown

LEMMA NeutralFails ==
  ASSUME NEW c, c.kind # "status"
  PROVE  Neutral(Fails(c)) /\ Neutral(Status(TRUE))
<1>1. Fails(c).ok = FALSE /\ Fails(c).gone = FALSE /\ Fails(c).kind = c.kind
  BY DEF Fails, Answer
<1>2. Neutral(Fails(c)) BY <1>1 DEF Neutral, IsDown, OkAnswer
<1> QED BY <1>2 DEF Neutral, IsDown, OkAnswer, Status

(* A call in the queue keeps what it is. *)
SameCall(c, d) == c.kind = d.kind /\ c.id = d.id /\ c.target = d.target /\ c.name = d.name

Kept(q, r) ==
    /\ Len(r) = Len(q)
    /\ \A i \in 1..Len(q) : SameCall(r[i], q[i]) /\ (r[i].live => q[i].live)

(* What a button may call. *)
Made(c) ==
    /\ c \in Calls /\ c.kind # "list" /\ c.live = TRUE /\ c.id = calls + 1
    /\ c.kind \in {"close", "load", "start"} => c.target \in BusesShown
    /\ c.kind = "stop" => \E i \in 1..Len(rows) : rows[i].id = c.target
    /\ c.kind = "open" => ~connecting /\ connecting' /\ c.name \notin NamesShown
    /\ c.kind # "open" => connecting' = connecting
LEMMA Requested ==
  ASSUME queue \in Seq(Calls), NEW s \in Seq(Messages), NEW c, c \in Calls,
         c.name \in Names \cup {NoName}, Request(c, s)
  PROVE  /\ inbox' \in Seq(Messages) /\ Quiet(s, inbox')
         /\ \/ up /\ queue' = Append(queue, c) /\ inbox' = s
            \/ ~up /\ queue' = queue /\ inbox' = Append(s, Fails(c))
<1>1. CASE up BY <1>1, SameQuiet DEF Request
<1>2. CASE ~up
  <2>1. inbox' = Append(s, Fails(c)) /\ queue' = queue BY <1>2 DEF Request
  <2>2. Fails(c) \in Messages BY DEF Fails, Answer, Messages, Calls
  <2>3. c.kind # "status" BY DEF Calls, Kinds
  <2> QED BY <1>2, <2>1, <2>2, <2>3, NeutralFails, PushQuiet
<1> QED BY <1>1, <1>2

(* A button: no call, or one call that is sent or refused. *)
LEMMA UserSteps ==
  ASSUME TypeInv, User
  PROVE  /\ UNCHANGED <<up, buses, jobs, info, opened, rows, lost>>
         /\ \/ UNCHANGED <<queue, inbox, connecting, calls>>
            \/ calls' = calls + 1 /\ \E c \in Calls : Made(c) /\ Request(c, inbox)
<1>1. opened \in Seq(OpenedBus) /\ rows \in Seq(CyclicJobRow) /\ calls \in Nat
      /\ calls \in 0..MaxCalls /\ MaxCalls \in Nat
      /\ (\A i \in 1..Len(opened) : opened[i].bus \in 1..calls) /\ selected \in Names
  BY RendererBounds DEF TypeInv, EngineType, WindowType
<1>2. selected \in NamesShown => FindOpened(opened, selected) \in BusesShown
  BY <1>1, FoundIsShown DEF BusesShown, NamesShown
<1>3. CASE \E name \in Names : SelectHeaderBus(name)
  BY <1>3 DEF SelectHeaderBus, engineVars
<1>4. ASSUME NEW kind \in Kinds \ {"list"}, NEW target \in 0..MaxCalls,
             NEW name \in Names \cup {NoName}, Call(kind, target, name),
             kind \in {"close", "load", "start"} => target \in BusesShown,
             kind = "stop" => \E i \in 1..Len(rows) : rows[i].id = target,
             kind = "open" => ~connecting /\ connecting' /\ name \notin NamesShown,
             kind # "open" => connecting' = connecting
      PROVE  /\ UNCHANGED <<up, buses, jobs, info, opened, rows, lost>>
             /\ calls' = calls + 1 /\ \E c \in Calls : Made(c) /\ Request(c, inbox)
  <2> DEFINE c == [kind |-> kind, id |-> calls + 1, target |-> target, name |-> name,
                   live |-> TRUE]
  <2>1. /\ UNCHANGED <<up, buses, jobs, info, opened, rows, lost>>
        /\ calls' = calls + 1 /\ calls < MaxCalls /\ Request(c, inbox)
    BY <1>4 DEF Call, engineVars
  <2>2. calls + 1 \in 0..MaxCalls
    <3>1. PICK n \in Nat, N \in Nat : n = calls /\ N = MaxCalls /\ n < N BY <1>1, <2>1
    <3> QED BY <3>1
  <2>3. c \in Calls BY <2>2 DEF Calls
  <2>4. c.kind = kind /\ c.id = calls + 1 /\ c.target = target /\ c.name = name
        /\ c.live = TRUE
    OBVIOUS
  <2> HIDE DEF c
  <2>5. Made(c) BY <1>4, <2>3, <2>4 DEF Made
  <2> QED BY <2>1, <2>3, <2>5
<1>5. \A b \in BusesShown : b \in 0..MaxCalls
  <2>1. \A b \in 1..calls : b \in 0..MaxCalls BY <1>1
  <2> QED BY <1>1, <2>1 DEF BusesShown
<1>6. CASE HeaderConnect
  <2>1. Call("open", NoBus, selected) /\ ~connecting /\ connecting' = TRUE
        /\ selected \notin NamesShown
    BY <1>6 DEF HeaderConnect
  <2>2. NoBus \in 0..MaxCalls /\ "open" \in Kinds \ {"list"}
    BY <1>1 DEF NoBus, Kinds
  <2> QED BY <1>1, <1>4, <2>1, <2>2
<1>7. CASE HeaderDisconnect
  <2> DEFINE bus == FindOpened(opened, selected)
             name == remainingSelectedBus(opened, bus, selected)
  <2>1. Call("close", bus, name) /\ connecting' = connecting /\ selected \in NamesShown
    BY <1>7 DEF HeaderDisconnect
  <2>2. bus \in BusesShown /\ bus \in 0..MaxCalls BY <1>2, <1>5, <2>1
  <2>3. name \in Names
    <3> HIDE DEF bus
    <3> DEFINE w == Without(opened, bus)
    <3>1. w \in Seq(OpenedBus) BY <1>1, WithoutOne
    <3> HIDE DEF w
    <3>2. ASSUME w # <<>> PROVE w[1].name \in Names
      <4>1. w[1] \in OpenedBus BY <3>1, <3>2
      <4> QED BY <4>1 DEF OpenedBus
    <3> QED BY <1>1, <3>2 DEF remainingSelectedBus, w
  <2> HIDE DEF bus, name
  <2>4. "close" \in Kinds \ {"list"} BY DEF Kinds
  <2> QED BY <1>4, <2>1, <2>2, <2>3, <2>4
<1>8. CASE HeaderLoadDbc
  <2> DEFINE bus == headerTargetBus
  <2>1. Call("load", bus, NoName) /\ connecting' = connecting /\ opened # <<>>
    BY <1>8 DEF HeaderLoadDbc
  <2>2. bus \in BusesShown /\ bus \in 0..MaxCalls BY <1>1, <1>5, <2>1, TargetIsShown
  <2> HIDE DEF bus
  <2>3. "load" \in Kinds \ {"list"} BY DEF Kinds
  <2> QED BY <1>4, <2>1, <2>2, <2>3
<1>9. CASE StartCyclic
  <2>1. PICK bus \in BusesShown : Call("start", bus, NoName) BY <1>9 DEF StartCyclic
  <2>2. connecting' = connecting /\ bus \in 0..MaxCalls BY <1>5, <1>9 DEF StartCyclic
  <2>3. "start" \in Kinds \ {"list"} BY DEF Kinds
  <2> QED BY <1>4, <2>1, <2>2, <2>3
<1>10. CASE StopJob
  <2>1. PICK i \in 1..Len(rows) : rows[i].running /\ Call("stop", rows[i].id, NoName)
    BY <1>1, <1>10 DEF StopJob
  <2>2. connecting' = connecting BY <1>10 DEF StopJob
  <2>3. rows[i].id \in 1..calls BY <2>1 DEF TypeInv, WindowType
  <2>4. rows[i].id \in 0..MaxCalls BY <1>1, <2>3
  <2>5. "stop" \in Kinds \ {"list"} BY DEF Kinds
  <2> QED BY <1>4, <2>1, <2>2, <2>4, <2>5
<1> QED BY <1>3, <1>6, <1>7, <1>8, <1>9, <1>10 DEF User
(* The answer of the call that the engine takes. *)
LEMMA TakenAnswers ==
  ASSUME TypeInv, queue # <<>>, NEW ok \in BOOLEAN, NEW gone \in BOOLEAN, Taken(ok, gone),
         gone = FALSE \/ (ok = FALSE /\ Head(queue).kind \in {"close", "stop"})
  PROVE  /\ inbox' \in Seq(Messages) /\ Answered(inbox, inbox', lost, Head(queue), ok, gone)
         /\ CallOK(Head(queue), calls) /\ up /\ queue' = Tail(queue)
         /\ UNCHANGED <<up, info, opened, rows, connecting, lost, calls>>
<1> DEFINE c == Head(queue)
           m == Answer(c, ok, gone)
<1>1. /\ up /\ UNCHANGED <<up, info, opened, rows, connecting, lost, calls>>
      /\ queue' = Tail(queue) /\ CallOK(c, calls) /\ calls \in Nat
  BY TakenTypes DEF Taken, windowVars
<1>2. inbox \in Seq(Messages) /\ queue \in Seq(Calls) BY DEF TypeInv, WireType
<1>3. m \in Messages
  <2>1. gone => ~ok /\ c.kind \in {"close", "stop"} OBVIOUS
  <2> HIDE DEF c
  <2> QED BY <1>1, <2>1, AnswerIsMessage
<1>4. m.kind = c.kind /\ c.kind # "status" BY <1>1 DEF Answer, CallOK, Calls, Kinds
<1>5. ~IsDown(m) BY <1>4 DEF IsDown
<1>6. CASE c.live
  <2>1. inbox' = Append(inbox, m) BY <1>6 DEF Taken
  <2> HIDE DEF m
  <2>2. /\ inbox' \in Seq(Messages) /\ Len(inbox') = Len(inbox) + 1 /\ Len(inbox) \in Nat
        /\ inbox'[Len(inbox) + 1] = m
        /\ \A p \in 1..Len(inbox) : p \in 1..Len(inbox') /\ inbox'[p] = inbox[p]
        /\ \A p \in 1..Len(inbox') : p \in 1..Len(inbox) \/ inbox'[p] = m
    BY <1>2, <1>3, <2>1, Pushed
  <2>3. Answered(inbox, inbox', lost, c, ok, gone)
    BY <1>5, <2>2 DEF Answered, Grown, m
  <2> QED BY <1>1, <2>2, <2>3
<1>7. CASE ~c.live
  <2>1. inbox' = inbox BY <1>7 DEF Taken
  <2>2. 1 \in 1..Len(queue) /\ queue[1] = c BY <1>2, Popped
  <2>3. Lose(c) \in lost BY <1>7, <2>2 DEF TypeInv, WireType
  <2>4. Answered(inbox, inbox', lost, c, ok, gone)
    BY <1>2, <2>1, <2>3 DEF Answered, Grown
  <2> QED BY <1>1, <1>2, <2>1, <2>4
<1> QED BY <1>6, <1>7

(* The engine's table changes by the call it takes. *)
LEMMA HandledOpen ==
  ASSUME TypeInv, HandleOpen
  PROVE  /\ queue # <<>> /\ Head(queue).kind = "open"
         /\ inbox' \in Seq(Messages) /\ Answered(inbox, inbox', lost, Head(queue), TRUE, FALSE)
         /\ CallOK(Head(queue), calls) /\ up /\ queue' = Tail(queue)
         /\ UNCHANGED <<up, info, opened, rows, connecting, lost, calls>>
         /\ jobs' = jobs /\ DOMAIN buses' = DOMAIN buses \cup {Head(queue).id}
         /\ buses'[Head(queue).id].dbc = 0
         /\ \A b \in DOMAIN buses : b # Head(queue).id => buses'[b] = buses[b]
<1>1. queue # <<>> /\ Head(queue).kind = "open" /\ Taken(TRUE, FALSE) /\ jobs' = jobs
  BY DEF HandleOpen, NextCall
<1>2. TRUE \in BOOLEAN /\ FALSE \in BOOLEAN /\ FALSE = FALSE OBVIOUS
<1>3. /\ DOMAIN buses' = DOMAIN buses \cup {Head(queue).id}
      /\ buses'[Head(queue).id].dbc = 0
      /\ \A b \in DOMAIN buses : b # Head(queue).id => buses'[b] = buses[b]
  BY DEF HandleOpen
<1>4. /\ inbox' \in Seq(Messages) /\ Answered(inbox, inbox', lost, Head(queue), TRUE, FALSE)
      /\ CallOK(Head(queue), calls) /\ up /\ queue' = Tail(queue)
      /\ UNCHANGED <<up, info, opened, rows, connecting, lost, calls>>
  BY <1>1, <1>2, TakenAnswers, Zenon
<1> QED BY <1>1, <1>3, <1>4

(* What a load and a close do to the engine's tables, however the call is     *)
(* answered.                                                                  *)
LoadDone(c) ==
    /\ jobs' = jobs /\ DOMAIN buses' = DOMAIN buses /\ c.target \in DOMAIN buses
    /\ buses'[c.target].dbc = c.id
    /\ \A b \in DOMAIN buses : b # c.target => buses'[b] = buses[b]

CloseDone(c) ==
    /\ DOMAIN buses' = DOMAIN buses \ {c.target}
    /\ (\A b \in DOMAIN buses' : buses'[b] = buses[b])
    /\ DOMAIN jobs' = {j \in DOMAIN jobs : jobs[j] # c.target}
    /\ \A j \in DOMAIN jobs' : jobs'[j] = jobs[j]

FullLoad  == HandleLoad /\ Taken(TRUE, FALSE)
FullClose == /\ HandleClose
             /\ Taken(Head(queue).target \in DOMAIN buses, Head(queue).target \notin DOMAIN buses)
HalfLoad  == HandleLoad /\ HalfDone
HalfClose == HandleClose /\ HalfDone
Half      == HalfLoad \/ HalfClose

LEMMA LoadDoes ==
  ASSUME TypeInv, HandleLoad
  PROVE  queue # <<>> /\ Head(queue).kind = "load" /\ LoadDone(Head(queue))
<1>1. queue # <<>> /\ Head(queue).kind = "load" /\ jobs' = jobs BY DEF HandleLoad, NextCall
<1>2. /\ DOMAIN buses' = DOMAIN buses /\ Head(queue).target \in DOMAIN buses
      /\ \A b \in DOMAIN buses : b # Head(queue).target => buses'[b] = buses[b]
  BY DEF HandleLoad
<1>3. buses'[Head(queue).target].dbc = Head(queue).id
  <2> DEFINE b == Head(queue).target
             n == Head(queue).id
  <2>1. buses[b] \in [name : Names, dbc : 0..MaxCalls] BY <1>2 DEF TypeInv, EngineType
  <2>2. buses'[b] = [buses[b] EXCEPT !.dbc = n] BY <1>2 DEF HandleLoad
  <2> HIDE DEF b, n
  <2>3. buses'[b].dbc = n BY <2>1, <2>2
  <2> QED BY <2>3 DEF b, n
<1> QED BY <1>1, <1>2, <1>3 DEF LoadDone

LEMMA CloseDoes ==
  ASSUME HandleClose
  PROVE  queue # <<>> /\ Head(queue).kind = "close" /\ CloseDone(Head(queue))
BY DEF HandleClose, NextCall, CloseDone

LEMMA HandledLoad ==
  ASSUME TypeInv, FullLoad
  PROVE  /\ queue # <<>> /\ Head(queue).kind = "load"
         /\ inbox' \in Seq(Messages) /\ Answered(inbox, inbox', lost, Head(queue), TRUE, FALSE)
         /\ CallOK(Head(queue), calls) /\ up /\ queue' = Tail(queue)
         /\ UNCHANGED <<up, info, opened, rows, connecting, lost, calls>>
         /\ jobs' = jobs /\ DOMAIN buses' = DOMAIN buses /\ Head(queue).target \in DOMAIN buses
         /\ buses'[Head(queue).target].dbc = Head(queue).id
         /\ \A b \in DOMAIN buses : b # Head(queue).target => buses'[b] = buses[b]
<1>1. queue # <<>> /\ Head(queue).kind = "load" /\ LoadDone(Head(queue)) /\ Taken(TRUE, FALSE)
  BY LoadDoes DEF FullLoad
<1>2. TRUE \in BOOLEAN /\ FALSE \in BOOLEAN /\ FALSE = FALSE OBVIOUS
<1>3. /\ inbox' \in Seq(Messages) /\ Answered(inbox, inbox', lost, Head(queue), TRUE, FALSE)
      /\ CallOK(Head(queue), calls) /\ up /\ queue' = Tail(queue)
      /\ UNCHANGED <<up, info, opened, rows, connecting, lost, calls>>
  BY <1>1, <1>2, TakenAnswers, Zenon
<1> QED BY <1>1, <1>3 DEF LoadDone

(* A call that is only half done: the window is told of a failure, and the    *)
(* call is noted as lost, as if main had given up on it before.               *)
LEMMA HalfSteps ==
  ASSUME TypeInv, Half
  PROVE  LET c == Head(queue) IN
         /\ queue # <<>> /\ c.kind \in {"load", "close"}
         /\ inbox' \in Seq(Messages) /\ Quiet(inbox, inbox')
         /\ lost \subseteq lost' /\ Answered(inbox', inbox', lost', c, TRUE, FALSE)
         /\ CallOK(c, calls) /\ up /\ queue' = Tail(queue)
         /\ UNCHANGED <<up, info, opened, rows, connecting, calls>>
         /\ (c.kind = "load" /\ LoadDone(c)) \/ (c.kind = "close" /\ CloseDone(c))
<1> DEFINE c == Head(queue)
<1>1. /\ queue # <<>> /\ HalfDone
      /\ (c.kind = "load" /\ LoadDone(c)) \/ (c.kind = "close" /\ CloseDone(c))
  BY LoadDoes, CloseDoes DEF Half, HalfLoad, HalfClose
<1>2. c.kind \in {"load", "close"} /\ c.kind # "list" BY <1>1
<1>3. /\ up /\ up' = up /\ CallOK(c, calls) /\ queue' = Tail(queue) /\ lost' = lost \cup {Lose(c)}
      /\ UNCHANGED <<info, opened, rows, connecting, calls>>
  BY <1>1, <1>2, HalfDoneTypes DEF HalfDone, windowVars
<1>4. inbox \in Seq(Messages) BY DEF TypeInv, WireType
<1>5. inbox' \in Seq(Messages) /\ Quiet(inbox, inbox')
  <2> DEFINE m == Fails(c)
  <2>1. c \in Calls BY <1>3 DEF CallOK
  <2>2. m \in Messages /\ c.kind # "status"
    BY <2>1 DEF Fails, Answer, Messages, Calls, Kinds
  <2>3. Neutral(m) BY <2>2, NeutralFails
  <2>4. inbox' = Append(inbox, m) \/ inbox' = inbox BY <1>1 DEF HalfDone
  <2> HIDE DEF m
  <2> QED BY <1>4, <2>2, <2>3, <2>4, PushQuiet, SameQuiet
<1>6. Lose(c) \in lost' /\ lost \subseteq lost' BY <1>3
<1>7. Grown(inbox', inbox') BY <1>5 DEF Grown
<1>8. Len(inbox') <= Len(inbox') + 1 BY <1>5
<1>9. Answered(inbox', inbox', lost', c, TRUE, FALSE) BY <1>6, <1>7, <1>8 DEF Answered
<1> QED BY <1>1, <1>2, <1>3, <1>5, <1>6, <1>9

LEMMA HandledStart ==
  ASSUME TypeInv, HandleStart
  PROVE  /\ queue # <<>> /\ Head(queue).kind = "start"
         /\ inbox' \in Seq(Messages) /\ Answered(inbox, inbox', lost, Head(queue), TRUE, FALSE)
         /\ CallOK(Head(queue), calls) /\ up /\ queue' = Tail(queue)
         /\ UNCHANGED <<up, info, opened, rows, connecting, lost, calls>>
         /\ buses' = buses /\ DOMAIN jobs' = DOMAIN jobs \cup {Head(queue).id}
         /\ jobs'[Head(queue).id] = Head(queue).target
         /\ \A j \in DOMAIN jobs : j # Head(queue).id => jobs'[j] = jobs[j]
<1>1. queue # <<>> /\ Head(queue).kind = "start" /\ Taken(TRUE, FALSE) /\ buses' = buses
  BY DEF HandleStart, NextCall
<1>2. TRUE \in BOOLEAN /\ FALSE \in BOOLEAN /\ FALSE = FALSE OBVIOUS
<1>3. /\ DOMAIN jobs' = DOMAIN jobs \cup {Head(queue).id}
      /\ jobs'[Head(queue).id] = Head(queue).target
      /\ \A j \in DOMAIN jobs : j # Head(queue).id => jobs'[j] = jobs[j]
  BY DEF HandleStart
<1>4. /\ inbox' \in Seq(Messages) /\ Answered(inbox, inbox', lost, Head(queue), TRUE, FALSE)
      /\ CallOK(Head(queue), calls) /\ up /\ queue' = Tail(queue)
      /\ UNCHANGED <<up, info, opened, rows, connecting, lost, calls>>
  BY <1>1, <1>2, TakenAnswers, Zenon
<1> QED BY <1>1, <1>3, <1>4

(* A close or a stop that finds nothing is answered with `gone`. *)
LEMMA HandledClose ==
  ASSUME TypeInv, FullClose
  PROVE  LET c == Head(queue) IN
         /\ queue # <<>> /\ c.kind = "close" /\ inbox' \in Seq(Messages)
         /\ \/ c.target \in DOMAIN buses /\ Answered(inbox, inbox', lost, c, TRUE, FALSE)
            \/ c.target \notin DOMAIN buses /\ Answered(inbox, inbox', lost, c, FALSE, TRUE)
         /\ CallOK(c, calls) /\ up /\ queue' = Tail(queue)
         /\ UNCHANGED <<up, info, opened, rows, connecting, lost, calls>>
         /\ DOMAIN buses' = DOMAIN buses \ {c.target}
         /\ (\A b \in DOMAIN buses' : buses'[b] = buses[b])
         /\ DOMAIN jobs' = {j \in DOMAIN jobs : jobs[j] # c.target}
         /\ \A j \in DOMAIN jobs' : jobs'[j] = jobs[j]
<1> DEFINE c == Head(queue)
           known == c.target \in DOMAIN buses
<1>1. queue # <<>> /\ c.kind = "close" /\ Taken(c.target \in DOMAIN buses, c.target \notin DOMAIN buses)
  BY CloseDoes DEF FullClose
<1>2. TRUE \in BOOLEAN /\ FALSE \in BOOLEAN /\ FALSE = FALSE OBVIOUS
<1>3. /\ DOMAIN buses' = DOMAIN buses \ {c.target}
      /\ (\A b \in DOMAIN buses' : buses'[b] = buses[b])
      /\ DOMAIN jobs' = {j \in DOMAIN jobs : jobs[j] # c.target}
      /\ \A j \in DOMAIN jobs' : jobs'[j] = jobs[j]
  BY CloseDoes DEF FullClose, CloseDone
<1>4. (known /\ Taken(TRUE, FALSE)) \/ (~known /\ Taken(FALSE, TRUE))
  <2>1. CASE known
    <3>1. Taken(TRUE, FALSE) BY <1>1, <2>1 DEF Taken, Answer
    <3> QED BY <2>1, <3>1, Zenon
  <2>2. CASE ~known
    <3>1. known = FALSE BY <2>2
    <3>2. (c.target \notin DOMAIN buses) = TRUE BY <2>2
    <3>3. Taken(FALSE, TRUE) BY <1>1, <3>1, <3>2, Zenon
    <3> QED BY <2>2, <3>3
  <2> QED BY <2>1, <2>2
<1>5. c.kind \in {"close", "stop"} BY <1>1
<1>6. /\ \/ known /\ Answered(inbox, inbox', lost, c, TRUE, FALSE)
         \/ ~known /\ Answered(inbox, inbox', lost, c, FALSE, TRUE)
      /\ inbox' \in Seq(Messages) /\ CallOK(c, calls) /\ up /\ queue' = Tail(queue)
      /\ UNCHANGED <<up, info, opened, rows, connecting, lost, calls>>
  <2> HIDE DEF known
  <2> QED BY <1>1, <1>2, <1>4, <1>5, TakenAnswers, Zenon
<1> QED BY <1>1, <1>3, <1>6

LEMMA HandledStop ==
  ASSUME TypeInv, HandleStop
  PROVE  LET c == Head(queue) IN
         /\ queue # <<>> /\ c.kind = "stop" /\ inbox' \in Seq(Messages)
         /\ \/ c.target \in DOMAIN jobs /\ Answered(inbox, inbox', lost, c, TRUE, FALSE)
            \/ c.target \notin DOMAIN jobs /\ Answered(inbox, inbox', lost, c, FALSE, TRUE)
         /\ CallOK(c, calls) /\ up /\ queue' = Tail(queue)
         /\ UNCHANGED <<up, info, opened, rows, connecting, lost, calls>>
         /\ buses' = buses /\ DOMAIN jobs' = DOMAIN jobs \ {c.target}
         /\ \A j \in DOMAIN jobs' : jobs'[j] = jobs[j]
<1> DEFINE c == Head(queue)
           known == c.target \in DOMAIN jobs
<1>1. queue # <<>> /\ c.kind = "stop" /\ Taken(c.target \in DOMAIN jobs, c.target \notin DOMAIN jobs) /\ buses' = buses
  BY DEF HandleStop, NextCall
<1>2. TRUE \in BOOLEAN /\ FALSE \in BOOLEAN /\ FALSE = FALSE OBVIOUS
<1>3. DOMAIN jobs' = DOMAIN jobs \ {c.target} /\ \A j \in DOMAIN jobs' : jobs'[j] = jobs[j]
  BY DEF HandleStop
<1>4. (known /\ Taken(TRUE, FALSE)) \/ (~known /\ Taken(FALSE, TRUE))
  <2>1. CASE known
    <3>1. Taken(TRUE, FALSE) BY <1>1, <2>1 DEF Taken, Answer
    <3> QED BY <2>1, <3>1, Zenon
  <2>2. CASE ~known
    <3>1. known = FALSE BY <2>2
    <3>2. (c.target \notin DOMAIN jobs) = TRUE BY <2>2
    <3>3. Taken(FALSE, TRUE) BY <1>1, <3>1, <3>2, Zenon
    <3> QED BY <2>2, <3>3
  <2> QED BY <2>1, <2>2
<1>5. c.kind \in {"close", "stop"} BY <1>1
<1>6. /\ \/ known /\ Answered(inbox, inbox', lost, c, TRUE, FALSE)
         \/ ~known /\ Answered(inbox, inbox', lost, c, FALSE, TRUE)
      /\ inbox' \in Seq(Messages) /\ CallOK(c, calls) /\ up /\ queue' = Tail(queue)
      /\ UNCHANGED <<up, info, opened, rows, connecting, lost, calls>>
  <2> HIDE DEF known
  <2> QED BY <1>1, <1>2, <1>4, <1>5, TakenAnswers, Zenon
<1> QED BY <1>1, <1>3, <1>6
(* The steps that tell the window nothing about a bus or a job. *)
QuietStep == User \/ Timeout \/ Respawn \/ HandleList \/ HandleFails

(* The queue after them. *)
QueueStep ==
    \/ calls' = calls /\ Kept(queue, queue')
    \/ calls' = calls /\ queue # <<>> /\ queue' = Tail(queue)
    \/ /\ calls' = calls + 1
       /\ \E c \in Calls : Made(c) /\ (queue' = Append(queue, c) \/ queue' = queue)

LEMMA QuietSteps ==
  ASSUME TypeInv, QuietStep
  PROVE  /\ inbox' \in Seq(Messages) /\ Quiet(inbox, inbox') /\ QueueStep
         /\ UNCHANGED <<buses, jobs, info, opened, rows>> /\ lost \subseteq lost'
<1>0. queue \in Seq(Calls) /\ inbox \in Seq(Messages) /\ Len(queue) \in Nat
  BY DEF TypeInv, WireType
<1>1. Kept(queue, queue) BY DEF Kept, SameCall
<1>2. CASE User
  <2>1. UNCHANGED <<up, buses, jobs, info, opened, rows, lost>> BY <1>2, UserSteps
  <2>2. CASE UNCHANGED <<queue, inbox, connecting, calls>>
    BY <1>0, <1>1, <2>1, <2>2, SameQuiet DEF QueueStep
  <2>3. CASE calls' = calls + 1 /\ \E c \in Calls : Made(c) /\ Request(c, inbox)
    <3>1. PICK c \in Calls : Made(c) /\ Request(c, inbox) BY <2>3
    <3>2. c.name \in Names \cup {NoName} BY DEF Calls
    <3>3. inbox' \in Seq(Messages) /\ Quiet(inbox, inbox')
          /\ (queue' = Append(queue, c) \/ queue' = queue)
      BY <1>0, <3>1, <3>2, Requested
    <3> QED BY <2>1, <2>3, <3>1, <3>3 DEF QueueStep
  <2> QED BY <1>2, <2>2, <2>3, UserSteps
<1>3. CASE Timeout
  <2>1. PICK i \in DOMAIN queue :
          /\ queue' = [queue EXCEPT ![i].live = FALSE]
          /\ inbox' = Append(inbox, Fails(queue[i]))
          /\ lost' = lost \cup {Lose(queue[i])}
    BY <1>3 DEF Timeout
  <2>2. i \in 1..Len(queue) /\ queue[i] \in Calls BY <1>0
  <2>3. Fails(queue[i]) \in Messages /\ queue[i].kind # "status"
    BY <2>2 DEF Fails, Answer, Messages, Calls, Kinds
  <2>4. inbox' \in Seq(Messages) /\ Quiet(inbox, inbox')
    <3> DEFINE m == Fails(queue[i])
    <3>1. Neutral(m) /\ m \in Messages BY <2>3, NeutralFails
    <3>2. inbox' = Append(inbox, m) BY <2>1
    <3> HIDE DEF m
    <3> QED BY <1>0, <3>1, <3>2, PushQuiet
  <2>5. Kept(queue, queue')
    <3> DEFINE d == [queue[i] EXCEPT !.live = FALSE]
    <3>1. d \in Calls /\ SameCall(d, queue[i]) /\ d.live = FALSE
      BY <2>2 DEF Calls, SameCall
    <3>2. queue' = [queue EXCEPT ![i] = d] BY <2>1
    <3> HIDE DEF d
    <3>3. Len(queue') = Len(queue)
          /\ \A j \in 1..Len(queue) : queue'[j] = IF j = i THEN d ELSE queue[j]
      BY <1>0, <3>1, <3>2, Updated
    <3> QED BY <3>1, <3>3 DEF Kept, SameCall
  <2>6. UNCHANGED <<buses, jobs, info, opened, rows, calls>> /\ lost \subseteq lost'
    BY <1>3, <2>1 DEF Timeout, engineVars, windowVars
  <2> QED BY <2>4, <2>5, <2>6 DEF QueueStep
<1>4. CASE Respawn
  <2>1. UNCHANGED <<buses, jobs, queue, info, opened, rows, calls, lost>>
        /\ inbox' = Append(inbox, Status(TRUE))
    BY <1>4 DEF Respawn, windowVars
  <2>2. Status(TRUE) \in Messages BY RendererBounds DEF Status, Messages
  <2>3. Neutral(Status(TRUE)) BY DEF Neutral, IsDown, OkAnswer, Status
  <2>4. inbox' \in Seq(Messages) /\ Quiet(inbox, inbox')
    <3> DEFINE m == Status(TRUE)
    <3>1. Neutral(m) /\ m \in Messages /\ inbox' = Append(inbox, m) BY <2>1, <2>2, <2>3
    <3> HIDE DEF m
    <3> QED BY <1>0, <3>1, PushQuiet
  <2> QED BY <1>1, <2>1, <2>4 DEF QueueStep
<1>5. CASE HandleList \/ HandleFails
  <2>1. PICK ok \in BOOLEAN : /\ Taken(ok, FALSE) /\ queue # <<>>
                              /\ UNCHANGED <<buses, jobs>>
                              /\ ok = FALSE \/ Head(queue).kind = "list"
    <3>1. CASE HandleList BY <3>1, Zenon DEF HandleList, NextCall
    <3>2. CASE HandleFails BY <3>2, Zenon DEF HandleFails
    <3> QED BY <1>5, <3>1, <3>2
  <2>2. Head(queue) \in Calls BY <1>0, <2>1
  <2> DEFINE c == Head(queue)
             m == Answer(c, ok, FALSE)
  <2>3. m \in Messages BY <2>2 DEF Answer, Messages, Calls
  <2>4. c.kind # "status" BY <2>2 DEF Calls, Kinds
  <2>5. m.kind = c.kind /\ m.ok = ok /\ m.gone = FALSE BY DEF Answer
  <2>6. Neutral(m) BY <2>1, <2>4, <2>5 DEF Neutral, IsDown, OkAnswer
  <2>7. UNCHANGED <<buses, jobs, info, opened, rows, calls, lost>> /\ queue' = Tail(queue)
        /\ (inbox' = Append(inbox, m) \/ inbox' = inbox)
    BY <2>1 DEF Taken, windowVars
  <2> HIDE DEF m
  <2>8. inbox' \in Seq(Messages) /\ Quiet(inbox, inbox')
    BY <1>0, <2>3, <2>6, <2>7, PushQuiet, SameQuiet
  <2> QED BY <2>1, <2>7, <2>8 DEF QueueStep
<1> QED BY <1>2, <1>3, <1>4, <1>5 DEF QuietStep

LEMMA CrashFalls ==
  ASSUME TypeInv, Crash
  PROVE  /\ inbox' \in Seq(Messages) /\ Fallen(inbox, inbox')
         /\ queue' = <<>> /\ DOMAIN buses' = {} /\ DOMAIN jobs' = {}
         /\ UNCHANGED <<info, opened, rows, connecting, lost, calls>> /\ up' = FALSE
<1>1. /\ queue' = <<>> /\ DOMAIN buses' = {} /\ DOMAIN jobs' = {}
      /\ UNCHANGED <<info, opened, rows, connecting, lost, calls>> /\ up' = FALSE
  BY DEF Crash, Nothing, windowVars
<1>2. inbox \in Seq(Messages) /\ queue \in Seq(Calls) BY DEF TypeInv, WireType
<1>3. PICK a \in Nat : a = Len(inbox) BY <1>2
<1>4. /\ inbox' \in Seq(Messages)
      /\ \E n \in Nat : Len(inbox') = a + 1 + n
      /\ \A p \in 1..a : p \in 1..Len(inbox') /\ inbox'[p] = inbox[p]
      /\ inbox'[a + 1] = Status(FALSE)
      /\ \A p \in 1..Len(inbox') :
           \/ p \in 1..a \/ p = a + 1
           \/ \E i \in 1..Len(queue) : inbox'[p] = Fails(queue[i])
  BY <1>3, CrashedInbox
<1>5. IsDown(Status(FALSE)) /\ ~OkAnswer(Status(FALSE)) /\ ~Status(FALSE).gone
  BY DEF IsDown, OkAnswer, Status
<1>6. \A i \in 1..Len(queue) : ~OkAnswer(Fails(queue[i])) /\ ~Fails(queue[i]).gone
  BY DEF OkAnswer, Fails, Answer
<1>7. \A p \in 1..Len(inbox') : p \in 1..a \/ (~OkAnswer(inbox'[p]) /\ ~inbox'[p].gone)
  BY <1>4, <1>5, <1>6
<1>8. PICK b \in Nat : Len(inbox') = b /\ a + 1 <= b BY <1>4
<1>9. \A p \in 0..a : DownAfter(inbox', p)
  <2>1. a + 1 \in 1..b /\ \A p \in 0..a : p < a + 1 BY <1>8
  <2> QED BY <1>4, <1>5, <1>8, <2>1 DEF DownAfter
<1>10. Fallen(inbox, inbox')
  BY <1>3, <1>4, <1>7, <1>8, <1>9 DEF Fallen
<1> QED BY <1>1, <1>4, <1>10
(* The window hears of the next engine and lists the interfaces. *)
LEMMA ConnectedSteps ==
  ASSUME TypeInv, Connected
  PROVE  /\ inbox # <<>> /\ Head(inbox).kind = "status" /\ Head(inbox).ok
         /\ inbox' \in Seq(Messages) /\ Quiet(Tail(inbox), inbox')
         /\ UNCHANGED <<up, buses, jobs, opened, rows, connecting, lost, calls>> /\ info' = TRUE
         /\ \/ queue' = queue
            \/ \E c \in Calls : c.kind = "list" /\ queue' = Append(queue, c)
<1> DEFINE c == [kind |-> "list", id |-> 0, target |-> 0, name |-> selected, live |-> TRUE]
           s == Tail(inbox)
<1>1. /\ inbox # <<>> /\ Head(inbox).kind = "status" /\ Head(inbox).ok
      /\ UNCHANGED <<up, buses, jobs, opened, rows, connecting, lost, calls>> /\ info' = TRUE
      /\ Request(c, s)
  BY DEF Connected, engineVars
<1>2. selected \in Names /\ queue \in Seq(Calls) /\ inbox \in Seq(Messages)
  BY DEF TypeInv, WireType, WindowType
<1>3. c \in Calls /\ c.name \in Names \cup {NoName} /\ c.kind = "list"
  BY <1>2, RendererBounds DEF Calls, Kinds
<1>4. s \in Seq(Messages) BY <1>1, <1>2
<1> HIDE DEF c, s
<1>5. inbox' \in Seq(Messages) /\ Quiet(s, inbox')
      /\ (queue' = queue \/ queue' = Append(queue, c))
  BY <1>1, <1>2, <1>3, <1>4, Requested
<1> QED BY <1>1, <1>3, <1>5 DEF s

(* The window hears anything else. *)
Delivered == \/ Disconnected \/ ListAnswered \/ OpenAnswered \/ CloseAnswered
             \/ LoadAnswered \/ StartAnswered \/ StopAnswered

LEMMA DeliveredSteps ==
  ASSUME Delivered
  PROVE  /\ inbox # <<>> /\ inbox' = Tail(inbox)
         /\ UNCHANGED <<up, buses, jobs, queue, lost, calls>>
BY DEF Delivered, Disconnected, ListAnswered, OpenAnswered, CloseAnswered, LoadAnswered,
   StartAnswered, StopAnswered, Receive, Elsewhere, engineVars

LEMMA NextSteps ==
  ASSUME Next
  PROVE  \/ QuietStep \/ HandleOpen \/ FullClose \/ FullLoad \/ Half \/ HandleStart \/ HandleStop
         \/ Crash \/ Connected \/ Delivered
<1>1. HandleClose => FullClose \/ Half BY DEF HandleClose, FullClose, Half, HalfClose
<1>2. HandleLoad => FullLoad \/ Half BY DEF HandleLoad, FullLoad, Half, HalfLoad
<1> QED BY <1>1, <1>2 DEF Next, Engine, Deliver, QuietStep, Delivered

-----------------------------------------------------------------------------
(* A call is waited for once: its id is in one place. *)

Distinct(q, s) ==
    /\ \A i, j \in 1..Len(q) :
         q[i].kind # "list" /\ q[j].kind # "list" /\ q[i].id = q[j].id => i = j
    /\ \A p, r \in 1..Len(s) :
         OkAnswer(s[p]) /\ OkAnswer(s[r]) /\ s[p].id = s[r].id => p = r
    /\ \A p \in 1..Len(s), i \in 1..Len(q) :
         OkAnswer(s[p]) /\ q[i].kind # "list" => s[p].id # q[i].id

LEMMA DistinctQuiet ==
  ASSUME NEW s \in Seq(Messages), NEW t \in Seq(Messages), Quiet(s, t),
         NEW q \in Seq(Calls), Distinct(q, s)
  PROVE  Distinct(q, t)
<1>1. \A p \in 1..Len(t) : OkAnswer(t[p]) => p \in 1..Len(s) /\ t[p] = s[p]
  BY DEF Quiet, Grown, Neutral
<1> QED BY <1>1 DEF Distinct

LEMMA DistinctKept ==
  ASSUME NEW s, NEW q, NEW r, Kept(q, r), Distinct(q, s)
  PROVE  Distinct(r, s)
BY DEF Distinct, Kept, SameCall

LEMMA DistinctTaken ==
  ASSUME NEW s, NEW q \in Seq(Calls), q # <<>>, Distinct(q, s)
  PROVE  Distinct(Tail(q), s)
<1> DEFINE r == Tail(q)
<1>1. r \in Seq(Calls) /\ Len(r) \in Nat
      /\ \A i \in 1..Len(r) : i + 1 \in 1..Len(q) /\ r[i] = q[i + 1]
  BY Popped
<1> HIDE DEF r
<1>2. \A i, j \in 1..Len(r) :
         r[i].kind # "list" /\ r[j].kind # "list" /\ r[i].id = r[j].id => i = j
  <2> SUFFICES ASSUME NEW i \in 1..Len(r), NEW j \in 1..Len(r),
                      r[i].kind # "list", r[j].kind # "list", r[i].id = r[j].id
               PROVE  i = j
    OBVIOUS
  <2>1. PICK a \in 1..Len(q), b \in 1..Len(q) :
           a = i + 1 /\ b = j + 1 /\ r[i] = q[a] /\ r[j] = q[b]
    BY <1>1
  <2>2. a = b BY <2>1 DEF Distinct
  <2> QED BY <1>1, <2>1, <2>2
<1>a. ASSUME NEW p \in 1..Len(s), NEW i \in 1..Len(r), OkAnswer(s[p]), r[i].kind # "list"
      PROVE  s[p].id # r[i].id
  <2>1. PICK a \in 1..Len(q) : r[i] = q[a] BY <1>1
  <2> QED BY <1>a, <2>1 DEF Distinct
<1>3. Distinct(r, s) BY <1>2, <1>a DEF Distinct
<1> QED BY <1>3 DEF r

LEMMA DistinctNew ==
  ASSUME NEW s, NEW q \in Seq(Calls), NEW c \in Calls, Distinct(q, s),
         \/ c.kind = "list"
         \/ /\ \A i \in 1..Len(q) : q[i].kind # "list" => q[i].id # c.id
            /\ \A p \in 1..Len(s) : OkAnswer(s[p]) => s[p].id # c.id
  PROVE  Distinct(Append(q, c), s)
<1> DEFINE r == Append(q, c)
<1>1. r \in Seq(Calls) /\ Len(q) \in Nat /\ Len(r) = Len(q) + 1
      /\ \A i \in 1..Len(r) : (i \in 1..Len(q) /\ r[i] = q[i]) \/ (i = Len(q) + 1 /\ r[i] = c)
  BY Pushed
<1> HIDE DEF r
<1>2. Distinct(r, s) BY <1>1 DEF Distinct
<1> QED BY <1>2 DEF r

LEMMA DistinctAnswered ==
  ASSUME NEW s \in Seq(Messages), NEW t \in Seq(Messages), NEW q \in Seq(Calls), q # <<>>,
         Head(q).kind # "list", NEW L, NEW ok, NEW gone,
         Answered(s, t, L, Head(q), ok, gone), Distinct(q, s)
  PROVE  Distinct(Tail(q), t)
<1> DEFINE c == Head(q)
           r == Tail(q)
           m == Answer(c, ok, gone)
<1>1. /\ r \in Seq(Calls) /\ Len(r) \in Nat /\ 1 \in 1..Len(q) /\ q[1] = c
      /\ \A i \in 1..Len(r) : i + 1 \in 1..Len(q) /\ r[i] = q[i + 1] /\ i + 1 # 1
  BY Popped
<1>2. m.id = c.id BY DEF Answer
<1>3. Distinct(r, s) BY DistinctTaken
<1>4. Len(s) \in Nat /\ Len(t) \in Nat OBVIOUS
<1> HIDE DEF c, r, m
<1>5. \A p \in 1..Len(t) :
         (p \in 1..Len(s) /\ t[p] = s[p]) \/ (p = Len(s) + 1 /\ t[p] = m)
  BY <1>4 DEF Answered, Grown, c, m
<1>6. \A p \in 1..Len(s) : OkAnswer(s[p]) => s[p].id # m.id
  BY <1>1, <1>2 DEF Distinct, c
<1>7. \A i \in 1..Len(r) : r[i].kind # "list" => r[i].id # m.id
  <2> SUFFICES ASSUME NEW i \in 1..Len(r), r[i].kind # "list", r[i].id = m.id
               PROVE  FALSE
    OBVIOUS
  <2>1. PICK k : k = i + 1 OBVIOUS
  <2>2. k \in 1..Len(q) /\ k # 1 /\ r[i] = q[k] BY <1>1, <2>1
  <2>3. q[k].kind # "list" /\ q[1].kind # "list" /\ q[k].id = q[1].id
    BY <1>1, <1>2, <2>2 DEF c
  <2>4. \A j, l \in 1..Len(q) :
           q[j].kind # "list" /\ q[l].kind # "list" /\ q[j].id = q[l].id => j = l
    BY DEF Distinct
  <2> QED BY <1>1, <2>2, <2>3, <2>4
<1>8. \A p1, p2 \in 1..Len(t) :
         OkAnswer(t[p1]) /\ OkAnswer(t[p2]) /\ t[p1].id = t[p2].id => p1 = p2
  BY <1>3, <1>5, <1>6 DEF Distinct
<1>9. \A p \in 1..Len(t), i \in 1..Len(r) :
         OkAnswer(t[p]) /\ r[i].kind # "list" => t[p].id # r[i].id
  BY <1>3, <1>5, <1>7 DEF Distinct
<1>10. Distinct(r, t) BY <1>3, <1>8, <1>9 DEF Distinct
<1> QED BY <1>10 DEF r

LEMMA DistinctFallen ==
  ASSUME NEW s, NEW t, Fallen(s, t), NEW q, Distinct(q, s)
  PROVE  Distinct(<<>>, t)
<1>1. \A p \in 1..Len(t) : OkAnswer(t[p]) => p \in 1..Len(s) /\ t[p] = s[p]
  BY DEF Fallen
<1>2. 1..Len(<<>>) = {} OBVIOUS
<1> QED BY <1>1, <1>2 DEF Distinct

LEMMA DistinctDelivered ==
  ASSUME NEW s \in Seq(Messages), s # <<>>, NEW q, Distinct(q, s)
  PROVE  Distinct(q, Tail(s))
<1> DEFINE t == Tail(s)
<1>1. t \in Seq(Messages) /\ Len(t) \in Nat
      /\ \A p \in 1..Len(t) : p + 1 \in 1..Len(s) /\ t[p] = s[p + 1]
  BY TailNews
<1> HIDE DEF t
<1>2. \A p, r \in 1..Len(t) :
         OkAnswer(t[p]) /\ OkAnswer(t[r]) /\ t[p].id = t[r].id => p = r
  <2> SUFFICES ASSUME NEW p \in 1..Len(t), NEW r \in 1..Len(t),
                      OkAnswer(t[p]), OkAnswer(t[r]), t[p].id = t[r].id
               PROVE  p = r
    OBVIOUS
  <2>1. p + 1 = r + 1 BY <1>1 DEF Distinct
  <2> QED BY <1>1, <2>1
<1>3. Distinct(q, t) BY <1>1, <1>2 DEF Distinct
<1> QED BY <1>3 DEF t
LEMMA KnownIds ==
  ASSUME TypeInv
  PROVE  /\ queue \in Seq(Calls) /\ inbox \in Seq(Messages) /\ calls \in Nat
         /\ \A i \in 1..Len(queue) : queue[i].kind # "list" => queue[i].id \in 1..calls
         /\ \A p \in 1..Len(inbox) : OkAnswer(inbox[p]) => inbox[p].id \in 1..calls
         /\ \A i \in 1..Len(queue) : queue[i].kind \in {"close", "load", "start", "stop"} =>
               queue[i].target \in 1..calls
         /\ \A p \in 1..Len(inbox) : inbox[p].kind \in {"close", "load", "start", "stop"} =>
               inbox[p].target \in 1..calls
<1>1. queue \in Seq(Calls) /\ inbox \in Seq(Messages) /\ calls \in Nat
  BY RendererBounds DEF TypeInv, WireType, EngineType
<1>2. \A i \in 1..Len(queue) : queue[i].kind # "status" /\ Aims(queue[i], calls)
  BY DEF TypeInv, WireType, CallOK, Calls, Kinds
<1>3. \A p \in 1..Len(inbox) : Aims(inbox[p], calls)
  BY DEF TypeInv, WireType, MessageOK
<1> QED BY <1>1, <1>2, <1>3 DEF Aims, OkAnswer

LEMMA DistinctStep ==
  ASSUME TypeInv, Distinct(queue, inbox), Next
  PROVE  Distinct(queue, inbox)'
<1>0. queue \in Seq(Calls) /\ inbox \in Seq(Messages) BY KnownIds
<1>1. CASE QuietStep
  <2>1. inbox' \in Seq(Messages) /\ Quiet(inbox, inbox') /\ QueueStep BY <1>1, QuietSteps
  <2>2. Distinct(queue, inbox') BY <1>0, <2>1, DistinctQuiet
  <2>3. Distinct(queue', inbox)
    <3>1. CASE Kept(queue, queue') BY <3>1, DistinctKept
    <3>2. CASE queue # <<>> /\ queue' = Tail(queue) BY <1>0, <3>2, DistinctTaken
    <3>3. ASSUME NEW c \in Calls, Made(c), queue' = Append(queue, c)
          PROVE  Distinct(queue', inbox)
      <4>1. PICK n \in Nat : n = calls BY KnownIds
      <4>2. c.id = n + 1 /\ n + 1 \notin 1..n BY <3>3, <4>1 DEF Made
      <4>3. \A i \in 1..Len(queue) : queue[i].kind # "list" => queue[i].id # c.id
        BY <4>1, <4>2, KnownIds
      <4>4. \A p \in 1..Len(inbox) : OkAnswer(inbox[p]) => inbox[p].id # c.id
        BY <4>1, <4>2, KnownIds
      <4> QED BY <1>0, <3>3, <4>3, <4>4, DistinctNew
    <3>4. CASE queue' = queue BY <3>4
    <3> QED BY <2>1, <3>1, <3>2, <3>3, <3>4 DEF QueueStep
  <2>4. PICK s \in Seq(Messages), t \in Seq(Messages), r \in Seq(Calls) :
          s = inbox /\ t = inbox' /\ r = queue'
    <3>1. TypeInv' BY <1>1, UserKeepsTypes, EngineKeepsTypes, ElsewhereKeepsTypes
          DEF QuietStep, Engine
    <3> QED BY <1>0, <2>1, <3>1 DEF TypeInv, WireType
  <2>5. Distinct(r, t) BY <2>1, <2>3, <2>4, DistinctQuiet
  <2> QED BY <2>4, <2>5
<1>2. CASE HandleOpen
  BY <1>0, <1>2, HandledOpen, DistinctAnswered
<1>3. CASE FullLoad
  BY <1>0, <1>3, HandledLoad, DistinctAnswered
<1>4. CASE HandleStart
  BY <1>0, <1>4, HandledStart, DistinctAnswered
<1>5. CASE FullClose
  BY <1>0, <1>5, HandledClose, DistinctAnswered
<1>6. CASE HandleStop
  BY <1>0, <1>6, HandledStop, DistinctAnswered
<1>7. CASE Crash
  BY <1>7, CrashFalls, DistinctFallen
<1>8. CASE Delivered
  BY <1>0, <1>8, DeliveredSteps, DistinctDelivered
<1>9. CASE Connected
  <2>1. PICK s, t, r :
          /\ s = Tail(inbox) /\ t = inbox' /\ r = queue'
          /\ t \in Seq(Messages) /\ s \in Seq(Messages) /\ Quiet(s, t)
          /\ r = queue \/ \E c \in Calls : c.kind = "list" /\ r = Append(queue, c)
    <3>1. Tail(inbox) \in Seq(Messages) BY <1>0, <1>9, ConnectedSteps
    <3> QED BY <1>9, <3>1, ConnectedSteps
  <2>2. Distinct(queue, s) BY <1>0, <1>9, <2>1, ConnectedSteps, DistinctDelivered
  <2>3. Distinct(queue, t) BY <1>0, <2>1, <2>2, DistinctQuiet
  <2>4. Distinct(r, t) BY <1>0, <2>1, <2>3, DistinctNew
  <2> QED BY <2>1, <2>4
<1>10. CASE Half
  <2>1. PICK t \in Seq(Messages), r \in Seq(Calls) :
          /\ t = inbox' /\ r = queue' /\ Quiet(inbox, t) /\ queue # <<>> /\ r = Tail(queue)
    BY <1>0, <1>10, HalfSteps, SMTT(60)
  <2>2. Distinct(r, inbox) BY <1>0, <2>1, DistinctTaken
  <2>3. Distinct(r, t) BY <1>0, <2>1, <2>2, DistinctQuiet
  <2> QED BY <2>1, <2>3
<1> QED BY <1>1, <1>2, <1>3, <1>4, <1>5, <1>6, <1>7, <1>8, <1>9, <1>10, NextSteps
-----------------------------------------------------------------------------
(* The window has heard of the engine before it hears an answer of it.        *)

(* In the first n messages every death is followed by the news of the next    *)
(* engine, and there is such news.                                            *)
Healed(s, n) == \A p \in 1..n : IsDown(s[p]) => \E r \in 1..n : p < r /\ IsUp(s[r])
Heard(s, n)  == \E r \in 1..n : IsUp(s[r])

Connection ==
    /\ up => Healed(inbox, Len(inbox)) /\ (~info => Heard(inbox, Len(inbox)))
    /\ \A p \in 1..Len(inbox) : OkAnswer(inbox[p]) =>
         Healed(inbox, p - 1) /\ (~info => Heard(inbox, p - 1))

Blank == ~info => Len(opened) = 0 /\ \A i \in 1..Len(rows) : ~rows[i].running

LEMMA HealedGrown ==
  ASSUME NEW s \in Seq(Messages), NEW t \in Seq(Messages), Grown(s, t)
  PROVE  /\ \A n \in 0..Len(s) : (Healed(s, n) => Healed(t, n)) /\ (Heard(s, n) => Heard(t, n))
         /\ Healed(s, Len(s)) => Healed(t, Len(t))
         /\ Heard(s, Len(s)) => Heard(t, Len(t))
<1>1. Len(s) \in Nat /\ Len(t) \in Nat OBVIOUS
<1>2. ASSUME NEW n \in 0..Len(s)
      PROVE  (Healed(s, n) => Healed(t, n)) /\ (Heard(s, n) => Heard(t, n))
  <2>1. \A p \in 1..n : p \in 1..Len(s) BY <1>1
  <2>2. \A p \in 1..n : t[p] = s[p] BY <2>1 DEF Grown
  <2> QED BY <2>2 DEF Healed, Heard
<1>3. \A p \in 1..Len(s) : p \in 1..Len(t) /\ t[p] = s[p] BY DEF Grown
<1>4. \A p \in 1..Len(t) : IsDown(t[p]) => p \in 1..Len(s) BY DEF Grown
<1>5. Heard(s, Len(s)) => Heard(t, Len(t)) BY <1>3 DEF Heard
<1>6. ASSUME Healed(s, Len(s)) PROVE Healed(t, Len(t))
  BY <1>3, <1>4, <1>6 DEF Healed
<1> QED BY <1>2, <1>5, <1>6

LEMMA HealedDelivered ==
  ASSUME NEW s \in Seq(Messages), s # <<>>, NEW t, t = Tail(s), NEW n \in Nat, n + 1 <= Len(s)
  PROVE  /\ Healed(s, n + 1) => Healed(t, n)
         /\ Heard(s, n + 1) /\ ~IsUp(Head(s)) => Heard(t, n)
         /\ Healed(s, n + 1) /\ IsDown(Head(s)) => Heard(t, n)
<1>1. /\ t \in Seq(Messages) /\ 1 \in 1..Len(s) /\ s[1] = Head(s) /\ Len(t) = Len(s) - 1
      /\ Len(s) \in Nat
      /\ \A p \in 1..Len(t) : p + 1 \in 1..Len(s) /\ t[p] = s[p + 1]
  BY TailNews
<1>2. \A p \in 1..n : p + 1 \in 1..(n + 1) /\ t[p] = s[p + 1]
  <2>1. \A p \in 1..n : p \in 1..Len(t) BY <1>1
  <2> QED BY <1>1, <2>1
<1>3. \A r \in 1..(n + 1) : r = 1 \/ (r - 1 \in 1..n /\ t[r - 1] = s[r])
  <2> SUFFICES ASSUME NEW r \in 1..(n + 1), r # 1
               PROVE  r - 1 \in 1..n /\ t[r - 1] = s[r]
    OBVIOUS
  <2>1. r - 1 \in 1..n /\ (r - 1) + 1 = r OBVIOUS
  <2> QED BY <1>2, <2>1
<1>4. ASSUME Healed(s, n + 1) PROVE Healed(t, n)
  <2> SUFFICES ASSUME NEW p \in 1..n, IsDown(t[p])
               PROVE  \E r \in 1..n : p < r /\ IsUp(t[r])
    BY DEF Healed
  <2>1. p + 1 \in 1..(n + 1) /\ IsDown(s[p + 1]) BY <1>2
  <2>2. PICK r \in 1..(n + 1) : p + 1 < r /\ IsUp(s[r]) BY <1>4, <2>1 DEF Healed
  <2>3. r - 1 \in 1..n /\ t[r - 1] = s[r] /\ p < r - 1 BY <1>3, <2>2
  <2> QED BY <2>2, <2>3
<1>5. ASSUME Heard(s, n + 1), ~IsUp(Head(s)) PROVE Heard(t, n)
  <2>1. PICK r \in 1..(n + 1) : IsUp(s[r]) BY <1>5 DEF Heard
  <2>2. r - 1 \in 1..n /\ t[r - 1] = s[r] BY <1>1, <1>3, <1>5, <2>1
  <2> QED BY <2>1, <2>2 DEF Heard
<1>6. ASSUME Healed(s, n + 1), IsDown(Head(s)) PROVE Heard(t, n)
  <2>1. 1 \in 1..(n + 1) OBVIOUS
  <2>2. PICK r \in 1..(n + 1) : 1 < r /\ IsUp(s[r]) BY <1>1, <1>6, <2>1 DEF Healed
  <2>3. r - 1 \in 1..n /\ t[r - 1] = s[r] BY <1>3, <2>2
  <2> QED BY <2>2, <2>3 DEF Heard
<1> QED BY <1>4, <1>5, <1>6

LEMMA ConnectionStep ==
  ASSUME TypeInv, Connection, Next
  PROVE  Connection'
<1>0. inbox \in Seq(Messages) /\ Len(inbox) \in Nat BY KnownIds
<1>1. PICK s \in Seq(Messages), a \in Nat : s = inbox /\ a = Len(s) BY <1>0
<1>2. CASE QuietStep \/ Half
  <2>1. PICK t \in Seq(Messages) : t = inbox' /\ Quiet(s, t)
    BY <1>1, <1>2, QuietSteps, HalfSteps
  <2>2. info' = info BY <1>2, QuietSteps, HalfSteps
  <2>3. \A p \in 1..Len(t) : OkAnswer(t[p]) =>
           Healed(t, p - 1) /\ (~info => Heard(t, p - 1))
    <3> SUFFICES ASSUME NEW p \in 1..Len(t), OkAnswer(t[p])
                 PROVE  Healed(t, p - 1) /\ (~info => Heard(t, p - 1))
      OBVIOUS
    <3>1. p \in 1..Len(s) /\ t[p] = s[p] BY <2>1 DEF Quiet, Grown, Neutral
    <3>2. Healed(s, p - 1) /\ (~info => Heard(s, p - 1)) BY <1>1, <3>1 DEF Connection
    <3>3. p - 1 \in 0..Len(s) BY <3>1
    <3> QED BY <2>1, <3>2, <3>3, HealedGrown DEF Quiet
  <2>4. CASE Respawn
    <3>1. t = Append(s, Status(TRUE)) BY <1>1, <2>1, <2>4 DEF Respawn
    <3> DEFINE m == Status(TRUE)
    <3>2. m \in Messages /\ IsUp(m) /\ ~IsDown(m)
      BY RendererBounds DEF Status, Messages, IsUp, IsDown
    <3>3. t = Append(s, m) BY <3>1
    <3> HIDE DEF m
    <3>4. Len(t) = a + 1 /\ t[a + 1] = m
      BY <1>1, <3>2, <3>3
    <3>5. a + 1 \in 1..Len(t) /\ \A p \in 1..Len(t) : p = a + 1 \/ p < a + 1 BY <3>4
    <3>6. Healed(t, Len(t)) /\ Heard(t, Len(t)) BY <3>2, <3>4, <3>5 DEF Healed, Heard
    <3> QED BY <2>1, <2>2, <2>3, <3>6 DEF Connection
  <2>5. CASE ~Respawn
    <3>1. up' = up
      BY <1>2, <2>5, UserSteps, HalfSteps
         DEF QuietStep, Timeout, HandleList, HandleFails, Taken, engineVars
    <3>2. (Healed(s, Len(s)) => Healed(t, Len(t))) /\ (Heard(s, Len(s)) => Heard(t, Len(t)))
      BY <2>1, HealedGrown DEF Quiet
    <3> QED BY <1>1, <2>1, <2>2, <2>3, <3>1, <3>2 DEF Connection
  <2> QED BY <2>4, <2>5
<1>3. CASE HandleOpen \/ FullLoad \/ HandleStart \/ FullClose \/ HandleStop
  <2>1. up /\ up' = up /\ info' = info /\ inbox' \in Seq(Messages)
        /\ \E L, c, ok, gone : Answered(inbox, inbox', L, c, ok, gone)
    <3>1. CASE HandleOpen BY <3>1, HandledOpen
    <3>2. CASE FullLoad BY <3>2, HandledLoad
    <3>3. CASE HandleStart BY <3>3, HandledStart
    <3>4. CASE FullClose BY <3>4, HandledClose
    <3>5. CASE HandleStop BY <3>5, HandledStop
    <3> QED BY <1>3, <3>1, <3>2, <3>3, <3>4, <3>5
  <2>2. PICK t \in Seq(Messages) : t = inbox' /\ Grown(s, t) /\ Len(t) <= a + 1
    BY <1>1, <2>1 DEF Answered
  <2>3. Healed(s, a) /\ (~info => Heard(s, a)) BY <1>1, <2>1 DEF Connection
  <2>4. \A p \in 1..Len(t) : OkAnswer(t[p]) =>
           Healed(t, p - 1) /\ (~info => Heard(t, p - 1))
    <3> SUFFICES ASSUME NEW p \in 1..Len(t), OkAnswer(t[p])
                 PROVE  Healed(t, p - 1) /\ (~info => Heard(t, p - 1))
      OBVIOUS
    <3>1. p - 1 \in 0..a /\ (p \in 1..a \/ p - 1 = a) BY <2>2
    <3>2. Healed(s, p - 1) /\ (~info => Heard(s, p - 1))
      <4>1. CASE p \in 1..a
        <5>1. t[p] = s[p] BY <1>1, <2>2, <4>1 DEF Grown
        <5> QED BY <1>1, <4>1, <5>1 DEF Connection
      <4>2. CASE p - 1 = a BY <2>3, <4>2
      <4> QED BY <3>1, <4>1, <4>2
    <3> QED BY <1>1, <2>2, <3>1, <3>2, HealedGrown
  <2>5. (Healed(s, Len(s)) => Healed(t, Len(t))) /\ (Heard(s, Len(s)) => Heard(t, Len(t)))
    BY <2>2, HealedGrown
  <2> QED BY <1>1, <2>1, <2>2, <2>3, <2>4, <2>5 DEF Connection
<1>4. CASE Crash
  <2>1. PICK t \in Seq(Messages) : t = inbox' /\ Fallen(s, t) BY <1>1, <1>4, CrashFalls
  <2>2. info' = info /\ ~up' BY <1>4, CrashFalls
  <2>3. \A p \in 1..Len(t) : OkAnswer(t[p]) =>
           Healed(t, p - 1) /\ (~info => Heard(t, p - 1))
    <3> SUFFICES ASSUME NEW p \in 1..Len(t), OkAnswer(t[p])
                 PROVE  Healed(t, p - 1) /\ (~info => Heard(t, p - 1))
      OBVIOUS
    <3>1. p \in 1..Len(s) /\ t[p] = s[p] BY <2>1 DEF Fallen
    <3>2. Healed(s, p - 1) /\ (~info => Heard(s, p - 1)) BY <1>1, <3>1 DEF Connection
    <3>3. \A r \in 1..(p - 1) : r \in 1..Len(s) BY <3>1
    <3>4. \A r \in 1..(p - 1) : t[r] = s[r] BY <2>1, <3>3 DEF Fallen
    <3> QED BY <3>2, <3>4 DEF Healed, Heard
  <2> QED BY <2>1, <2>2, <2>3 DEF Connection
<1>5. CASE Delivered
  <2>1. s # <<>> /\ inbox' = Tail(s) /\ up' = up BY <1>1, <1>5, DeliveredSteps
  <2>2. PICK t \in Seq(Messages) : /\ t = inbox' /\ t = Tail(s) /\ Len(t) = a - 1 /\ a \in 1..a
                                  /\ \A p \in 1..Len(t) : p + 1 \in 1..Len(s) /\ t[p] = s[p + 1]
    <3>1. PICK u : u = Tail(s) OBVIOUS
    <3>2. /\ u \in Seq(Messages) /\ 1 \in 1..Len(s) /\ Len(u) = Len(s) - 1
          /\ \A p \in 1..Len(u) : p + 1 \in 1..Len(s) /\ u[p] = s[p + 1]
      BY <2>1, <3>1, TailNews
    <3>3. a \in 1..a /\ u = inbox' BY <1>1, <2>1, <3>1, <3>2
    <3> QED BY <1>1, <3>1, <3>2, <3>3
  <2>3. \/ IsDown(Head(s)) /\ ~info'
        \/ ~IsUp(Head(s)) /\ (info' <=> info)
    <3>1. CASE Disconnected BY <1>1, <3>1 DEF Disconnected, Receive, IsDown
    <3>2. CASE ~Disconnected
      <4>1. info' = info /\ Head(s).kind # "status"
        BY <1>1, <1>5, <3>2 DEF Delivered, ListAnswered, OpenAnswered, CloseAnswered,
           LoadAnswered, StartAnswered, StopAnswered, Receive
      <4> QED BY <4>1 DEF IsUp
    <3> QED BY <3>1, <3>2
  <2>4. ASSUME NEW n \in Nat, n + 1 <= a, Healed(s, n + 1), ~info => Heard(s, n + 1)
        PROVE  Healed(t, n) /\ (~info' => Heard(t, n))
    <3>1. Healed(t, n) /\ (Heard(s, n + 1) /\ ~IsUp(Head(s)) => Heard(t, n))
          /\ (IsDown(Head(s)) => Heard(t, n))
      BY <1>1, <2>1, <2>2, <2>4, HealedDelivered
    <3> QED BY <2>3, <2>4, <3>1
  <2>5. \A p \in 1..Len(t) : OkAnswer(t[p]) =>
           Healed(t, p - 1) /\ (~info' => Heard(t, p - 1))
    <3> SUFFICES ASSUME NEW p \in 1..Len(t), OkAnswer(t[p])
                 PROVE  Healed(t, p - 1) /\ (~info' => Heard(t, p - 1))
      OBVIOUS
    <3>1. p + 1 \in 1..Len(s) /\ OkAnswer(s[p + 1]) /\ (p + 1) - 1 = p BY <2>2
    <3>2. Healed(s, p) /\ (~info => Heard(s, p)) BY <1>1, <3>1 DEF Connection
    <3>3. p - 1 \in Nat /\ (p - 1) + 1 = p /\ p <= a BY <1>1, <3>1
    <3> QED BY <2>4, <3>2, <3>3
  <2>6. ASSUME up PROVE Healed(t, Len(t)) /\ (~info' => Heard(t, Len(t)))
    <3>1. Healed(s, a) /\ (~info => Heard(s, a)) BY <1>1, <2>6 DEF Connection
    <3>2. Len(t) \in Nat /\ Len(t) + 1 = a /\ a <= a BY <2>2
    <3> QED BY <2>4, <3>1, <3>2
  <2> QED BY <2>1, <2>2, <2>5, <2>6 DEF Connection
<1>6. CASE Connected
  <2>1. PICK u, t : /\ u = Tail(s) /\ t = inbox' /\ s # <<>> /\ Head(s).kind = "status"
                   /\ t \in Seq(Messages) /\ u \in Seq(Messages) /\ Quiet(u, t)
    <3>1. Tail(inbox) \in Seq(Messages) BY <1>0, <1>6, ConnectedSteps
    <3> QED BY <1>1, <1>6, <3>1, ConnectedSteps
  <2>2. info' /\ up' = up BY <1>6, ConnectedSteps
  <2>3. /\ Len(u) = a - 1 /\ a \in 1..a
        /\ \A p \in 1..Len(u) : p + 1 \in 1..Len(s) /\ u[p] = s[p + 1]
    <3>1. /\ 1 \in 1..Len(s) /\ Len(u) = Len(s) - 1
          /\ \A p \in 1..Len(u) : p + 1 \in 1..Len(s) /\ u[p] = s[p + 1]
      BY <2>1, TailNews
    <3>2. a \in 1..a BY <1>1, <3>1
    <3> QED BY <1>1, <3>1, <3>2
  <2>4. \A p \in 1..Len(t) : OkAnswer(t[p]) => Healed(t, p - 1)
    <3> SUFFICES ASSUME NEW p \in 1..Len(t), OkAnswer(t[p]) PROVE Healed(t, p - 1)
      OBVIOUS
    <3>1. p \in 1..Len(u) /\ t[p] = u[p] BY <2>1 DEF Quiet, Grown, Neutral
    <3>2. p + 1 \in 1..Len(s) /\ OkAnswer(s[p + 1]) /\ (p + 1) - 1 = p BY <2>3, <3>1
    <3>3. Healed(s, p) BY <1>1, <3>2 DEF Connection
    <3>4. p - 1 \in Nat /\ (p - 1) + 1 = p /\ p <= a /\ p - 1 \in 0..Len(u)
      BY <1>1, <3>1, <3>2
    <3>5. Healed(u, p - 1) BY <1>1, <2>1, <3>3, <3>4, HealedDelivered, ZenonT(40)
    <3> QED BY <2>1, <3>4, <3>5, HealedGrown DEF Quiet
  <2>5. ASSUME up PROVE Healed(t, Len(t))
    <3>1. Healed(s, a) BY <1>1, <2>5 DEF Connection
    <3>2. Len(u) \in Nat /\ Len(u) + 1 = a /\ a <= a BY <2>3
    <3>3. Healed(u, Len(u)) BY <1>1, <2>1, <3>1, <3>2, HealedDelivered, ZenonT(40)
    <3> QED BY <2>1, <3>3, HealedGrown DEF Quiet
  <2> QED BY <2>1, <2>2, <2>4, <2>5 DEF Connection
<1> QED BY <1>2, <1>3, <1>4, <1>5, <1>6, NextSteps
(* An answer that says something was made or ended reaches a window that      *)
(* knows of the engine.                                                       *)
LEMMA AnswerFindsInfo ==
  ASSUME TypeInv, Connection, inbox # <<>>, OkAnswer(Head(inbox))
  PROVE  info
<1>1. 1 \in 1..Len(inbox) /\ inbox[1] = Head(inbox) BY KnownIds, TailNews
<1>2. ~info => Heard(inbox, 1 - 1) BY <1>1 DEF Connection
<1>3. ~Heard(inbox, 1 - 1) BY DEF Heard
<1> QED BY <1>2, <1>3

LEMMA BlankStep ==
  ASSUME TypeInv, Connection, Blank, Next
  PROVE  Blank'
<1>0. rows \in Seq(CyclicJobRow) /\ opened \in Seq(OpenedBus) BY DEF TypeInv, WindowType
<1>1. CASE QuietStep
  <2>1. UNCHANGED <<info, opened, rows>> BY <1>1, QuietSteps
  <2> QED BY <2>1 DEF Blank
<1>2. CASE HandleOpen \/ FullLoad \/ HandleStart \/ FullClose \/ Half \/ HandleStop \/ Crash
  <2>1. UNCHANGED <<info, opened, rows>>
    BY <1>2, HandledOpen, HandledLoad, HandledStart, HandledClose, HalfSteps, HandledStop,
       CrashFalls
  <2> QED BY <2>1 DEF Blank
<1>3. CASE Connected
  <2>1. info' BY <1>3, ConnectedSteps
  <2> QED BY <2>1 DEF Blank
<1>4. CASE Disconnected
  <2>1. CASE info
    <3>1. opened' = <<>> /\ rows' = ResetRows BY <1>4, <2>1 DEF Disconnected
    <3>2. Len(opened') = 0 BY <3>1
    <3>3. ResetRows \in Seq(CyclicJobRow) /\ Len(ResetRows) = Len(rows)
          /\ \A i \in 1..Len(rows) : ~ResetRows[i].running
      <4>1. ResetRows = [i \in 1..Len(rows) |->
                           [Stopped(rows[i]) EXCEPT
                              !.id = IF rows[i].running THEN -i ELSE Stopped(rows[i]).id]]
        BY <1>0 DEF ResetRows, cyclicJobDefinitionId
      <4>2. \A i \in 1..Len(rows) :
               /\ Stopped(rows[i]) \in CyclicJobRow /\ Stopped(rows[i]).running = FALSE
               /\ -i \in Int /\ Stopped(rows[i]).id \in Int
        <5>1. \A i \in 1..Len(rows) : rows[i] \in CyclicJobRow BY <1>0
        <5>2. \A i \in 1..Len(rows) : Stopped(rows[i]) \in CyclicJobRow
                                     /\ Stopped(rows[i]).running = FALSE
          BY <5>1 DEF Stopped, CyclicJobRow
        <5>3. \A i \in 1..Len(rows) : Stopped(rows[i]).id \in Int BY <5>2 DEF CyclicJobRow
        <5>4. \A i \in 1..Len(rows) : -i \in Int OBVIOUS
        <5> QED BY <5>2, <5>3, <5>4
      <4>3. ASSUME NEW i \in 1..Len(rows)
            PROVE  ResetRows[i] \in CyclicJobRow /\ ResetRows[i].running = FALSE
        <5> DEFINE r == Stopped(rows[i])
                   n == IF rows[i].running THEN -i ELSE Stopped(rows[i]).id
        <5>1. r \in CyclicJobRow /\ r.running = FALSE /\ n \in Int BY <4>2
        <5>2. ResetRows[i] = [r EXCEPT !.id = n] BY <4>1
        <5> HIDE DEF r, n
        <5> QED BY <5>1, <5>2 DEF CyclicJobRow
      <4>4. ResetRows \in [1..Len(rows) -> CyclicJobRow] BY <4>1, <4>3
      <4> HIDE DEF ResetRows
      <4>5. ResetRows \in Seq(CyclicJobRow) /\ Len(ResetRows) = Len(rows) BY <1>0, <4>4
      <4> QED BY <4>3, <4>5
    <3> QED BY <3>1, <3>2, <3>3 DEF Blank
  <2>2. CASE ~info
    <3>1. opened' = opened /\ rows' = rows BY <1>4, <2>2 DEF Disconnected
    <3> QED BY <2>2, <3>1 DEF Blank
  <2> QED BY <2>1, <2>2
<1>5. CASE ListAnswered BY <1>5 DEF ListAnswered, Blank
<1>6. CASE OpenAnswered \/ CloseAnswered \/ LoadAnswered \/ StartAnswered
  <2>1. info' = info /\ inbox # <<>> /\ Head(inbox).kind \in {"open", "close", "load", "start"}
    BY <1>6 DEF OpenAnswered, CloseAnswered, LoadAnswered, StartAnswered, Receive
  <2>2. CASE Head(inbox).ok
    <3>1. info BY <2>1, <2>2, AnswerFindsInfo DEF OkAnswer
    <3> QED BY <2>1, <3>1 DEF Blank
  <2>3. CASE ~Head(inbox).ok
    <3>1. opened' = opened /\ rows' = rows
      BY <1>6, <2>3 DEF OpenAnswered, CloseAnswered, LoadAnswered, StartAnswered
    <3> QED BY <2>1, <3>1 DEF Blank
  <2> QED BY <2>2, <2>3
<1>7. CASE StopAnswered
  <2>1. /\ info' = info /\ opened' = opened
        /\ rows' = [i \in DOMAIN rows |->
              IF rows[i].id = Head(inbox).target /\ (Head(inbox).ok \/ Head(inbox).gone)
              THEN Stopped(rows[i]) ELSE rows[i]]
    BY <1>7 DEF StopAnswered
  <2>2. \A i \in 1..Len(rows) : rows[i] \in CyclicJobRow BY <1>0
  <2>3. \A i \in 1..Len(rows) : Stopped(rows[i]) \in CyclicJobRow
                               /\ Stopped(rows[i]).running = FALSE
    BY <2>2 DEF Stopped, CyclicJobRow
  <2>4. \A i \in 1..Len(rows) : /\ rows'[i] \in CyclicJobRow
                                /\ rows'[i] = rows[i] \/ ~rows'[i].running
    BY <1>0, <2>1, <2>2, <2>3
  <2>5. Len(rows') = Len(rows)
    <3>1. rows' = [i \in 1..Len(rows) |-> rows'[i]] BY <1>0, <2>1
    <3>2. rows' \in [1..Len(rows) -> CyclicJobRow] BY <2>4, <3>1
    <3> QED BY <1>0, <3>2
  <2> QED BY <2>1, <2>4, <2>5 DEF Blank
<1> QED BY <1>1, <1>2, <1>3, <1>4, <1>5, <1>6, <1>7, NextSteps DEF Delivered
-----------------------------------------------------------------------------
(* What the handlers do to the buses shown and to the rows, one by one.       *)

SameRow(r, row) == r.id = row.id /\ r.bus = row.bus

LEMMA DisconnectedWindow ==
  ASSUME TypeInv, Disconnected
  PROVE  /\ IsDown(Head(inbox)) /\ ~info' /\ connecting' = connecting
         /\ ~info => opened' = opened /\ rows' = rows
         /\ info =>
              /\ Len(opened') = 0 /\ Len(rows') = Len(rows)
              /\ \A i \in 1..Len(rows) :
                   /\ ~rows'[i].running /\ rows'[i].bus = rows[i].bus
                   /\ rows'[i].id = IF rows[i].running THEN -i ELSE rows[i].id
<1>1. rows \in Seq(CyclicJobRow) /\ Len(rows) \in Nat BY DEF TypeInv, WindowType
<1>2. IsDown(Head(inbox)) /\ ~info' /\ connecting' = connecting
  BY DEF Disconnected, Receive, IsDown
<1>3. ~info => opened' = opened /\ rows' = rows BY DEF Disconnected
<1>4. ASSUME info
      PROVE  /\ Len(opened') = 0 /\ Len(rows') = Len(rows)
             /\ \A i \in 1..Len(rows) :
                   /\ ~rows'[i].running /\ rows'[i].bus = rows[i].bus
                   /\ rows'[i].id = IF rows[i].running THEN -i ELSE rows[i].id
  <2>1. opened' = <<>> /\ rows' = ResetRows BY <1>4 DEF Disconnected
  <2>2. Len(opened') = 0 BY <2>1
  <2>3. rows' = [i \in 1..Len(rows) |->
                  [Stopped(rows[i]) EXCEPT
                     !.id = IF rows[i].running THEN -i ELSE Stopped(rows[i]).id]]
    BY <1>1, <2>1 DEF ResetRows, cyclicJobDefinitionId
  <2>4. ASSUME NEW i \in 1..Len(rows)
        PROVE  /\ rows'[i] \in CyclicJobRow
               /\ ~rows'[i].running /\ rows'[i].bus = rows[i].bus
               /\ rows'[i].id = IF rows[i].running THEN -i ELSE rows[i].id
    <3> DEFINE r == Stopped(rows[i])
               n == IF rows[i].running THEN -i ELSE r.id
    <3>1. rows[i] \in CyclicJobRow BY <1>1
    <3>2. r \in CyclicJobRow /\ r.running = FALSE /\ r.id = rows[i].id /\ r.bus = rows[i].bus
      BY <3>1 DEF Stopped, CyclicJobRow
    <3>3. -i \in Int /\ r.id \in Int BY <3>2 DEF CyclicJobRow
    <3>4. rows'[i] = [r EXCEPT !.id = n] /\ n \in Int BY <2>3, <3>3
    <3>5. n = IF rows[i].running THEN -i ELSE rows[i].id BY <3>2
    <3> HIDE DEF r, n
    <3>6. /\ rows'[i] \in CyclicJobRow /\ rows'[i].id = n
          /\ rows'[i].running = r.running /\ rows'[i].bus = r.bus
      BY <3>2, <3>4 DEF CyclicJobRow
    <3> QED BY <3>2, <3>5, <3>6
  <2>5. Len(rows') = Len(rows)
    <3>1. rows' = [i \in 1..Len(rows) |-> rows'[i]] BY <2>3
    <3>2. rows' \in [1..Len(rows) -> CyclicJobRow] BY <2>4, <3>1
    <3> QED BY <1>1, <3>2
  <2> QED BY <2>2, <2>4, <2>5
<1> QED BY <1>2, <1>3, <1>4

LEMMA OpenedWindow ==
  ASSUME TypeInv, OpenAnswered
  PROVE  /\ inbox # <<>> /\ Head(inbox).kind = "open" /\ info' = info /\ rows' = rows
         /\ ~connecting'
         /\ ~Head(inbox).ok => opened' = opened
         /\ Head(inbox).ok =>
              /\ Len(opened') = Len(opened) + 1
              /\ \A i \in 1..Len(opened) : i \in 1..Len(opened') /\ opened'[i] = opened[i]
              /\ \A i \in 1..Len(opened') : i \in 1..Len(opened) \/ i = Len(opened) + 1
              /\ Len(opened) + 1 \in 1..Len(opened')
              /\ opened'[Len(opened) + 1].bus = Head(inbox).id
              /\ opened'[Len(opened) + 1].name = Head(inbox).name
              /\ opened'[Len(opened) + 1].dbc = 0
<1> DEFINE m == Head(inbox)
           e == [bus |-> m.id, name |-> m.name, dbc |-> 0]
<1>1. inbox # <<>> /\ m.kind = "open" /\ info' = info /\ rows' = rows /\ ~connecting'
  BY DEF OpenAnswered, Receive
<1>2. ~m.ok => opened' = opened BY DEF OpenAnswered
<1>3. opened \in Seq(OpenedBus) /\ Len(opened) \in Nat BY DEF TypeInv, WindowType
<1>4. e \in OpenedBus
  <2>1. MessageOK(m, calls) /\ calls \in 0..MaxCalls
    BY <1>1, PoppedMessage DEF TypeInv, WireType, EngineType
  <2>2. m.id \in 1..calls /\ m.name \in Names BY <1>1, <2>1 DEF MessageOK, Aims
  <2>3. m.id \in Ids BY <2>1, <2>2, RendererBounds DEF Ids
  <2> QED BY <2>2, <2>3, RendererBounds DEF OpenedBus
<1>5. e.bus = m.id /\ e.name = m.name /\ e.dbc = 0 OBVIOUS
<1>6. m.ok => opened' = Append(opened, e) BY DEF OpenAnswered
<1> HIDE DEF e
<1>7. ASSUME m.ok
      PROVE  /\ Len(opened') = Len(opened) + 1
             /\ \A i \in 1..Len(opened) : i \in 1..Len(opened') /\ opened'[i] = opened[i]
             /\ \A i \in 1..Len(opened') : i \in 1..Len(opened) \/ i = Len(opened) + 1
             /\ Len(opened) + 1 \in 1..Len(opened')
             /\ opened'[Len(opened) + 1] = e
  BY <1>3, <1>4, <1>6, <1>7, Pushed
<1> QED BY <1>1, <1>2, <1>5, <1>7

LEMMA ClosedWindow ==
  ASSUME TypeInv, CloseAnswered
  PROVE  /\ inbox # <<>> /\ Head(inbox).kind = "close" /\ info' = info
         /\ connecting' = connecting
         /\ ~Head(inbox).ok => opened' = opened /\ rows' = rows
         /\ Head(inbox).ok =>
              /\ \E h \in [1..Len(opened') -> 1..Len(opened)] :
                   \A k \in 1..Len(opened') :
                      /\ opened'[k] = opened[h[k]] /\ opened[h[k]].bus # Head(inbox).target
                      /\ \A l \in 1..Len(opened') : h[k] = h[l] => k = l
              /\ \A i \in 1..Len(opened) : opened[i].bus # Head(inbox).target =>
                   \E k \in 1..Len(opened') : opened'[k] = opened[i]
              /\ Len(rows') = Len(rows)
              /\ \A i \in 1..Len(rows) :
                   /\ SameRow(rows'[i], rows[i])
                   /\ rows'[i].running <=> rows[i].running /\ rows[i].bus # Head(inbox).target
<1> DEFINE m == Head(inbox)
           b == m.target
<1>1. /\ inbox # <<>> /\ m.kind = "close" /\ info' = info /\ connecting' = connecting
      /\ ~m.ok => opened' = opened /\ rows' = rows
      /\ m.ok => opened' = Without(opened, b) /\ rows' = RowsWithout(b)
  BY DEF CloseAnswered, Receive
<1>2. opened \in Seq(OpenedBus) /\ rows \in Seq(CyclicJobRow) /\ Len(rows) \in Nat
  BY DEF TypeInv, WindowType
<1> HIDE DEF b
<1>3. ASSUME m.ok
      PROVE  /\ \E h \in [1..Len(opened') -> 1..Len(opened)] :
                   \A k \in 1..Len(opened') :
                      /\ opened'[k] = opened[h[k]] /\ opened[h[k]].bus # b
                      /\ \A l \in 1..Len(opened') : h[k] = h[l] => k = l
             /\ \A i \in 1..Len(opened) : opened[i].bus # b =>
                   \E k \in 1..Len(opened') : opened'[k] = opened[i]
  <2>1. PICK w, d : w = opened' /\ d = b /\ w = Without(opened, d) BY <1>1, <1>3
  <2>2. \E h \in [1..Len(w) -> 1..Len(opened)] : \A k \in 1..Len(w) :
           /\ w[k] = opened[h[k]] /\ opened[h[k]].bus # d
           /\ \A l \in 1..Len(w) : h[k] = h[l] => k = l
    BY <1>2, <2>1, WithoutOne
  <2>3. \A i \in 1..Len(opened) : opened[i].bus # d => \E k \in 1..Len(w) : w[k] = opened[i]
    <3> SUFFICES ASSUME NEW i \in 1..Len(opened), opened[i].bus # d
                 PROVE  \E k \in 1..Len(w) : w[k] = opened[i]
      OBVIOUS
    <3>1. w = Without(opened, d) /\ opened \in Seq(OpenedBus) BY <1>2, <2>1
    <3> QED BY <3>1, WithoutOne
  <2> QED BY <2>1, <2>2, <2>3
<1>4. ASSUME m.ok
      PROVE  /\ Len(rows') = Len(rows)
             /\ \A i \in 1..Len(rows) :
                   /\ SameRow(rows'[i], rows[i])
                   /\ rows'[i].running <=> rows[i].running /\ rows[i].bus # b
  <2>1. rows' = [i \in 1..Len(rows) |->
                   IF rows[i].bus = b THEN Stopped(rows[i]) ELSE rows[i]]
    BY <1>1, <1>2, <1>4 DEF RowsWithout
  <2>2. ASSUME NEW i \in 1..Len(rows)
        PROVE  /\ rows'[i] \in CyclicJobRow /\ SameRow(rows'[i], rows[i])
               /\ rows'[i].running <=> rows[i].running /\ rows[i].bus # b
    <3>1. rows[i] \in CyclicJobRow BY <1>2
    <3>2. Stopped(rows[i]) \in CyclicJobRow /\ Stopped(rows[i]).running = FALSE
          /\ SameRow(Stopped(rows[i]), rows[i])
      BY <3>1 DEF Stopped, CyclicJobRow, SameRow
    <3>3. rows'[i] = IF rows[i].bus = b THEN Stopped(rows[i]) ELSE rows[i] BY <2>1
    <3>4. CASE rows[i].bus = b BY <3>2, <3>3, <3>4
    <3>5. CASE rows[i].bus # b BY <3>1, <3>3, <3>5 DEF SameRow
    <3> QED BY <3>4, <3>5
  <2>3. rows' = [i \in 1..Len(rows) |-> rows'[i]] BY <2>1
  <2>4. rows' \in [1..Len(rows) -> CyclicJobRow] BY <2>2, <2>3
  <2>5. Len(rows') = Len(rows) BY <1>2, <2>4
  <2> QED BY <2>2, <2>5
<1> QED BY <1>1, <1>3, <1>4 DEF b

LEMMA LoadedWindow ==
  ASSUME TypeInv, LoadAnswered
  PROVE  /\ inbox # <<>> /\ Head(inbox).kind = "load" /\ info' = info /\ rows' = rows
         /\ connecting' = connecting
         /\ ~Head(inbox).ok => opened' = opened
         /\ Head(inbox).ok =>
              /\ Len(opened') = Len(opened)
              /\ \A i \in 1..Len(opened) :
                   /\ opened'[i].bus = opened[i].bus /\ opened'[i].name = opened[i].name
                   /\ opened'[i].dbc = IF opened[i].bus = Head(inbox).target
                                       THEN Head(inbox).id ELSE opened[i].dbc
<1> DEFINE m == Head(inbox)
<1>1. /\ inbox # <<>> /\ m.kind = "load" /\ info' = info /\ rows' = rows
      /\ connecting' = connecting /\ (~m.ok => opened' = opened)
      /\ m.ok => opened' = WithDbc(m)
  BY DEF LoadAnswered, Receive
<1>2. opened \in Seq(OpenedBus) /\ Len(opened) \in Nat BY DEF TypeInv, WindowType
<1>3. m \in Messages BY <1>1, PoppedMessage DEF TypeInv, WireType
<1> HIDE DEF m
<1>4. ASSUME m.ok
      PROVE  /\ Len(opened') = Len(opened)
             /\ \A i \in 1..Len(opened) :
                   /\ opened'[i].bus = opened[i].bus /\ opened'[i].name = opened[i].name
                   /\ opened'[i].dbc = IF opened[i].bus = m.target THEN m.id ELSE opened[i].dbc
  <2>1. opened' = [i \in 1..Len(opened) |->
                     IF opened[i].bus = m.target THEN [opened[i] EXCEPT !.dbc = m.id]
                     ELSE opened[i]]
    BY <1>1, <1>2, <1>4 DEF WithDbc
  <2>2. ASSUME NEW i \in 1..Len(opened)
        PROVE  /\ opened'[i] \in OpenedBus
               /\ opened'[i].bus = opened[i].bus /\ opened'[i].name = opened[i].name
               /\ opened'[i].dbc = IF opened[i].bus = m.target THEN m.id ELSE opened[i].dbc
    <3> DEFINE e == [opened[i] EXCEPT !.dbc = m.id]
    <3>1. opened[i] \in OpenedBus BY <1>2
    <3>2. m.id \in 0..MaxCalls BY <1>3 DEF Messages
    <3>3. e \in OpenedBus /\ e.bus = opened[i].bus /\ e.name = opened[i].name /\ e.dbc = m.id
      BY <3>1, <3>2 DEF OpenedBus
    <3>4. opened'[i] = IF opened[i].bus = m.target THEN e ELSE opened[i] BY <2>1
    <3> HIDE DEF e
    <3> QED BY <3>1, <3>3, <3>4
  <2>3. opened' = [i \in 1..Len(opened) |-> opened'[i]] BY <2>1
  <2>4. opened' \in [1..Len(opened) -> OpenedBus] BY <2>2, <2>3
  <2>5. Len(opened') = Len(opened) BY <1>2, <2>4
  <2> QED BY <2>2, <2>5
<1> QED BY <1>1, <1>4 DEF m

LEMMA StartedWindow ==
  ASSUME TypeInv, StartAnswered
  PROVE  /\ inbox # <<>> /\ Head(inbox).kind = "start" /\ info' = info /\ opened' = opened
         /\ connecting' = connecting
         /\ ~Head(inbox).ok => rows' = rows
         /\ Head(inbox).ok =>
              /\ \A i \in 1..Len(rows) : i \in 1..Len(rows') /\ rows'[i] = rows[i]
              /\ \A i \in 1..Len(rows') : i \in 1..Len(rows) \/ i = Len(rows) + 1
              /\ Len(rows) + 1 \in 1..Len(rows')
              /\ rows'[Len(rows) + 1].id = Head(inbox).id
              /\ rows'[Len(rows) + 1].bus = Head(inbox).target
              /\ rows'[Len(rows) + 1].running
<1> DEFINE m == Head(inbox)
           e == [id |-> m.id, bus |-> m.target, running |-> TRUE]
<1>1. /\ inbox # <<>> /\ m.kind = "start" /\ info' = info /\ opened' = opened
      /\ connecting' = connecting /\ (~m.ok => rows' = rows)
      /\ m.ok => rows' = Append(rows, e)
  BY DEF StartAnswered, Receive
<1>2. rows \in Seq(CyclicJobRow) /\ Len(rows) \in Nat BY DEF TypeInv, WindowType
<1>3. e \in CyclicJobRow
  <2>1. m \in Messages BY <1>1, PoppedMessage DEF TypeInv, WireType
  <2>2. m.id \in Int /\ m.target \in 0..MaxCalls BY <2>1, RendererBounds DEF Messages
  <2> HIDE DEF m
  <2> QED BY <2>2 DEF CyclicJobRow
<1>4. e.id = m.id /\ e.bus = m.target /\ e.running = TRUE OBVIOUS
<1> HIDE DEF e
<1>5. ASSUME m.ok
      PROVE  /\ \A i \in 1..Len(rows) : i \in 1..Len(rows') /\ rows'[i] = rows[i]
             /\ \A i \in 1..Len(rows') : i \in 1..Len(rows) \/ i = Len(rows) + 1
             /\ Len(rows) + 1 \in 1..Len(rows') /\ rows'[Len(rows) + 1] = e
  BY <1>1, <1>2, <1>3, <1>5, Pushed
<1> QED BY <1>1, <1>4, <1>5

LEMMA StoppedWindow ==
  ASSUME TypeInv, StopAnswered
  PROVE  /\ inbox # <<>> /\ Head(inbox).kind = "stop" /\ info' = info /\ opened' = opened
         /\ connecting' = connecting /\ Len(rows') = Len(rows)
         /\ \A i \in 1..Len(rows) :
              /\ SameRow(rows'[i], rows[i])
              /\ rows'[i].running <=>
                   rows[i].running /\ ~(rows[i].id = Head(inbox).target /\ Ends(Head(inbox)))
<1> DEFINE m == Head(inbox)
<1>1. /\ inbox # <<>> /\ m.kind = "stop" /\ info' = info /\ opened' = opened
      /\ connecting' = connecting
  BY DEF StopAnswered, Receive
<1>2. rows \in Seq(CyclicJobRow) /\ Len(rows) \in Nat BY DEF TypeInv, WindowType
<1>3. Ends(m) <=> m.ok \/ m.gone BY <1>1 DEF Ends
<1>4. rows' = [i \in 1..Len(rows) |->
                 IF rows[i].id = m.target /\ Ends(m) THEN Stopped(rows[i]) ELSE rows[i]]
  BY <1>2, <1>3 DEF StopAnswered
<1>5. ASSUME NEW i \in 1..Len(rows)
      PROVE  /\ rows'[i] \in CyclicJobRow /\ SameRow(rows'[i], rows[i])
             /\ rows'[i].running <=> rows[i].running /\ ~(rows[i].id = m.target /\ Ends(m))
  <2>1. rows[i] \in CyclicJobRow BY <1>2
  <2>2. Stopped(rows[i]) \in CyclicJobRow /\ Stopped(rows[i]).running = FALSE
        /\ SameRow(Stopped(rows[i]), rows[i])
    BY <2>1 DEF Stopped, CyclicJobRow, SameRow
  <2>3. CASE rows[i].id = m.target /\ Ends(m) BY <1>4, <2>2, <2>3
  <2>4. CASE ~(rows[i].id = m.target /\ Ends(m)) BY <1>4, <2>1, <2>4 DEF SameRow
  <2> QED BY <2>3, <2>4
<1>6. rows' = [i \in 1..Len(rows) |-> rows'[i]] BY <1>4
<1>7. rows' \in [1..Len(rows) -> CyclicJobRow] BY <1>5, <1>6
<1>8. Len(rows') = Len(rows) BY <1>2, <1>7
<1> QED BY <1>1, <1>5, <1>8
-----------------------------------------------------------------------------
(* What a call makes is new: until its answer has been delivered nothing else *)
(* on the way, and nothing the window shows, is of that bus or job.           *)

CallsOf(q) == {Lose(q[i]) : i \in {j \in 1..Len(q) : q[j].kind # "list"}}
NewsIn(s)  == {Lose(s[p]) : p \in {r \in 1..Len(s) : OkAnswer(s[r]) \/ s[r].gone}}
OnWay(q, s) == CallsOf(q) \cup NewsIn(s)

FreshBuses(W, O) ==
    \A x \in W : x.kind = "open" =>
        /\ \A y \in W : y.kind \in {"close", "load", "start"} => y.target # x.id
        /\ \A i \in 1..Len(O) : O[i].bus # x.id

FreshJobs(W, R) ==
    \A x \in W : x.kind = "start" =>
        /\ \A y \in W : y.kind = "stop" => y.target # x.id
        /\ \A i \in 1..Len(R) : R[i].id # x.id

FreshIds(q, B, J) ==
    \A i \in 1..Len(q) : /\ q[i].kind = "open" => q[i].id \notin DOMAIN B
                         /\ q[i].kind = "start" => q[i].id \notin DOMAIN J

LEMMA CallsStep ==
  ASSUME NEW q \in Seq(Calls)
  PROVE  /\ \A r : Kept(q, r) => CallsOf(r) \subseteq CallsOf(q)
         /\ q # <<>> => CallsOf(Tail(q)) \subseteq CallsOf(q)
         /\ q # <<>> /\ Head(q).kind # "list" => Lose(Head(q)) \in CallsOf(q)
         /\ \A c \in Calls : /\ CallsOf(Append(q, c)) \subseteq CallsOf(q) \cup {Lose(c)}
                             /\ c.kind = "list" => CallsOf(Append(q, c)) \subseteq CallsOf(q)
<1>1. ASSUME NEW r, Kept(q, r) PROVE CallsOf(r) \subseteq CallsOf(q)
  <2>1. \A i \in 1..Len(r) : i \in 1..Len(q) /\ r[i].kind = q[i].kind /\ Lose(r[i]) = Lose(q[i])
    BY <1>1 DEF Kept, SameCall, Lose
  <2> QED BY <2>1 DEF CallsOf
<1>2. ASSUME q # <<>> PROVE CallsOf(Tail(q)) \subseteq CallsOf(q)
  <2>1. PICK r : r = Tail(q) OBVIOUS
  <2>2. \A i \in 1..Len(r) : i + 1 \in 1..Len(q) /\ r[i] = q[i + 1] BY <1>2, <2>1, Popped
  <2>3. CallsOf(r) \subseteq CallsOf(q) BY <2>2 DEF CallsOf
  <2> QED BY <2>1, <2>3
<1>3. ASSUME q # <<>>, Head(q).kind # "list" PROVE Lose(Head(q)) \in CallsOf(q)
  <2>1. 1 \in 1..Len(q) /\ q[1] = Head(q) BY <1>3, Popped
  <2> QED BY <1>3, <2>1 DEF CallsOf
<1>4. ASSUME NEW c \in Calls
      PROVE  /\ CallsOf(Append(q, c)) \subseteq CallsOf(q) \cup {Lose(c)}
             /\ c.kind = "list" => CallsOf(Append(q, c)) \subseteq CallsOf(q)
  <2>1. PICK r : r = Append(q, c) OBVIOUS
  <2>2. \A i \in 1..Len(r) : (i \in 1..Len(q) /\ r[i] = q[i]) \/ r[i] = c BY <2>1, Pushed
  <2>3. CallsOf(r) \subseteq CallsOf(q) \cup {Lose(c)} BY <2>2 DEF CallsOf
  <2>4. c.kind = "list" => CallsOf(r) \subseteq CallsOf(q) BY <2>2 DEF CallsOf
  <2> QED BY <2>1, <2>3, <2>4
<1> QED BY <1>1, <1>2, <1>3, <1>4

LEMMA NewsStep ==
  ASSUME NEW s \in Seq(Messages), NEW t \in Seq(Messages)
  PROVE  /\ Quiet(s, t) => NewsIn(t) \subseteq NewsIn(s)
         /\ Fallen(s, t) => NewsIn(t) \subseteq NewsIn(s)
         /\ s # <<>> /\ t = Tail(s) => NewsIn(t) \subseteq NewsIn(s)
         /\ \A L, c, ok, gone : Answered(s, t, L, c, ok, gone) =>
               NewsIn(t) \subseteq NewsIn(s) \cup {Lose(c)}
<1>1. ASSUME Quiet(s, t) \/ Fallen(s, t) PROVE NewsIn(t) \subseteq NewsIn(s)
  <2>1. \A p \in 1..Len(t) : OkAnswer(t[p]) \/ t[p].gone => p \in 1..Len(s) /\ t[p] = s[p]
    BY <1>1 DEF Quiet, Grown, Fallen, Neutral
  <2> QED BY <2>1 DEF NewsIn
<1>2. ASSUME s # <<>>, t = Tail(s) PROVE NewsIn(t) \subseteq NewsIn(s)
  <2>1. \A p \in 1..Len(t) : p + 1 \in 1..Len(s) /\ t[p] = s[p + 1] BY <1>2, Popped
  <2> QED BY <2>1 DEF NewsIn
<1>3. ASSUME NEW L, NEW c, NEW ok, NEW gone, Answered(s, t, L, c, ok, gone)
      PROVE  NewsIn(t) \subseteq NewsIn(s) \cup {Lose(c)}
  <2>1. \A p \in 1..Len(t) : (p \in 1..Len(s) /\ t[p] = s[p]) \/ Lose(t[p]) = Lose(c)
    BY <1>3 DEF Answered, Grown, Lose, Answer
  <2> QED BY <2>1 DEF NewsIn
<1> QED BY <1>1, <1>2, <1>3

(* Only a button puts something on the way. *)
LEMMA OnWayStep ==
  ASSUME TypeInv, Next
  PROVE  \/ calls' = calls /\ OnWay(queue', inbox') \subseteq OnWay(queue, inbox)
         \/ /\ calls' = calls + 1 /\ UNCHANGED <<opened, rows, buses, jobs>>
            /\ \E c \in Calls : /\ Made(c) /\ (queue' = Append(queue, c) \/ queue' = queue)
                                /\ OnWay(queue', inbox') \subseteq OnWay(queue, inbox) \cup {Lose(c)}
<1>0. queue \in Seq(Calls) /\ inbox \in Seq(Messages) BY KnownIds
<1>1. CASE QuietStep
  <2>1. inbox' \in Seq(Messages) /\ NewsIn(inbox') \subseteq NewsIn(inbox) /\ QueueStep
        /\ UNCHANGED <<opened, rows, buses, jobs>>
    BY <1>0, <1>1, QuietSteps, NewsStep
  <2>2. CASE calls' = calls /\ Kept(queue, queue')
    <3>1. CallsOf(queue') \subseteq CallsOf(queue) BY <1>0, <2>2, CallsStep
    <3> QED BY <2>1, <2>2, <3>1 DEF OnWay
  <2>3. CASE calls' = calls /\ queue # <<>> /\ queue' = Tail(queue)
    <3>1. CallsOf(queue') \subseteq CallsOf(queue) BY <1>0, <2>3, CallsStep
    <3> QED BY <2>1, <2>3, <3>1 DEF OnWay
  <2>4. CASE /\ calls' = calls + 1
             /\ \E c \in Calls : Made(c) /\ (queue' = Append(queue, c) \/ queue' = queue)
    <3>1. PICK c \in Calls : Made(c) /\ (queue' = Append(queue, c) \/ queue' = queue) BY <2>4
    <3>2. CallsOf(queue') \subseteq CallsOf(queue) \cup {Lose(c)} BY <1>0, <3>1, CallsStep
    <3>3. OnWay(queue', inbox') \subseteq OnWay(queue, inbox) \cup {Lose(c)}
      BY <2>1, <3>2 DEF OnWay
    <3> QED BY <2>1, <2>4, <3>1, <3>3
  <2> QED BY <2>1, <2>2, <2>3, <2>4 DEF QueueStep
<1>2. ASSUME queue # <<>>, Head(queue).kind # "list", queue' = Tail(queue), calls' = calls,
             inbox' \in Seq(Messages),
             \E L, ok, gone : Answered(inbox, inbox', L, Head(queue), ok, gone)
      PROVE  calls' = calls /\ OnWay(queue', inbox') \subseteq OnWay(queue, inbox)
  <2>1. CallsOf(queue') \subseteq CallsOf(queue) /\ Lose(Head(queue)) \in CallsOf(queue)
    BY <1>0, <1>2, CallsStep
  <2>2. NewsIn(inbox') \subseteq NewsIn(inbox) \cup {Lose(Head(queue))}
    BY <1>0, <1>2, NewsStep
  <2> QED BY <1>2, <2>1, <2>2 DEF OnWay
<1>3. CASE HandleOpen BY <1>2, <1>3, HandledOpen
<1>4. CASE FullLoad BY <1>2, <1>4, HandledLoad
<1>5. CASE HandleStart BY <1>2, <1>5, HandledStart
<1>6. CASE FullClose BY <1>2, <1>6, HandledClose
<1>7. CASE HandleStop BY <1>2, <1>7, HandledStop
<1>8. CASE Crash
  <2>1. inbox' \in Seq(Messages) /\ Fallen(inbox, inbox') /\ queue' = <<>> /\ calls' = calls
    BY <1>8, CrashFalls
  <2>2. NewsIn(inbox') \subseteq NewsIn(inbox) BY <1>0, <2>1, NewsStep
  <2>3. 1..Len(<<>>) = {} OBVIOUS
  <2>4. CallsOf(<<>>) \subseteq CallsOf(queue) BY <2>3 DEF CallsOf
  <2> QED BY <2>1, <2>2, <2>4 DEF OnWay
<1>9. CASE Connected
  <2>1. PICK s : s = Tail(inbox) OBVIOUS
  <2>2. /\ inbox # <<>> /\ inbox' \in Seq(Messages) /\ Quiet(s, inbox') /\ calls' = calls
        /\ queue' = queue \/ \E c \in Calls : c.kind = "list" /\ queue' = Append(queue, c)
    BY <1>9, <2>1, ConnectedSteps
  <2>3. s \in Seq(Messages) BY <1>0, <2>1, <2>2
  <2>4. NewsIn(inbox') \subseteq NewsIn(s) BY <2>2, <2>3, NewsStep
  <2>5. NewsIn(s) \subseteq NewsIn(inbox) BY <1>0, <2>1, <2>2, <2>3, NewsStep
  <2>6. CallsOf(queue') \subseteq CallsOf(queue) BY <1>0, <2>2, CallsStep
  <2> QED BY <2>2, <2>4, <2>5, <2>6 DEF OnWay
<1>10. CASE Delivered
  <2>1. PICK s : s = Tail(inbox) OBVIOUS
  <2>2. inbox # <<>> /\ inbox' = s /\ queue' = queue /\ calls' = calls
    BY <1>10, <2>1, DeliveredSteps
  <2>3. s \in Seq(Messages) BY <1>0, <2>1, <2>2
  <2>4. NewsIn(s) \subseteq NewsIn(inbox) BY <1>0, <2>1, <2>2, <2>3, NewsStep
  <2> QED BY <2>2, <2>4 DEF OnWay
<1>11. CASE Half
  <2>1. /\ queue # <<>> /\ inbox' \in Seq(Messages) /\ Quiet(inbox, inbox')
        /\ queue' = Tail(queue) /\ calls' = calls
    BY <1>11, HalfSteps
  <2>2. NewsIn(inbox') \subseteq NewsIn(inbox) BY <1>0, <2>1, NewsStep
  <2>3. CallsOf(queue') \subseteq CallsOf(queue) BY <1>0, <2>1, CallsStep
  <2> QED BY <2>1, <2>2, <2>3 DEF OnWay
<1> QED BY <1>1, <1>3, <1>4, <1>5, <1>6, <1>7, <1>8, <1>9, <1>10, <1>11, NextSteps

LEMMA OnWayKnown ==
  ASSUME TypeInv
  PROVE  \A x \in OnWay(queue, inbox) :
            /\ x.id \in 1..calls
            /\ x.kind \in {"close", "load", "start", "stop"} => x.target \in 1..calls
<1>1. \A x \in CallsOf(queue) :
         /\ x.id \in 1..calls
         /\ x.kind \in {"close", "load", "start", "stop"} => x.target \in 1..calls
  BY KnownIds DEF CallsOf, Lose
<1>2. \A p \in 1..Len(inbox) : OkAnswer(inbox[p]) \/ inbox[p].gone => inbox[p].id \in 1..calls
  BY DEF TypeInv, WireType, MessageOK, Aims, OkAnswer
<1>3. \A x \in NewsIn(inbox) :
         /\ x.id \in 1..calls
         /\ x.kind \in {"close", "load", "start", "stop"} => x.target \in 1..calls
  BY <1>2, KnownIds DEF NewsIn, Lose
<1> QED BY <1>1, <1>3 DEF OnWay

(* The answer that is delivered is no more on the way. *)
LEMMA NoMoreOnWay ==
  ASSUME TypeInv, Distinct(queue, inbox), inbox # <<>>, OkAnswer(Head(inbox)),
         NEW t, t = Tail(inbox)
  PROVE  \A x \in OnWay(queue, t) : x.kind \notin {"close", "stop"} => x.id # Head(inbox).id
<1>1. /\ 1 \in 1..Len(inbox) /\ inbox[1] = Head(inbox)
      /\ \A p \in 1..Len(t) : p + 1 \in 1..Len(inbox) /\ t[p] = inbox[p + 1] /\ p + 1 # 1
  BY KnownIds, TailNews
<1>2. \A i \in 1..Len(queue) : queue[i].kind # "list" => queue[i].id # Head(inbox).id
  BY <1>1 DEF Distinct
<1>3. \A x \in CallsOf(queue) : x.id # Head(inbox).id BY <1>2 DEF CallsOf, Lose
<1>4. \A p \in 1..Len(t) : OkAnswer(t[p]) => t[p].id # Head(inbox).id
  BY <1>1 DEF Distinct
<1>5. \A p \in 1..Len(t) : t[p].gone => t[p].kind \in {"close", "stop"}
  BY <1>1 DEF TypeInv, WireType, MessageOK
<1>6. \A x \in NewsIn(t) : x.kind \notin {"close", "stop"} => x.id # Head(inbox).id
  BY <1>4, <1>5 DEF NewsIn, Lose
<1> QED BY <1>3, <1>6 DEF OnWay

(* The header gains a bus only by the answer of its open, the table a job     *)
(* only by the answer of its start.                                           *)
LEMMA WindowSteps ==
  ASSUME TypeInv, Next
  PROVE  \/ UNCHANGED <<opened, rows>>
         \/ Disconnected \/ OpenAnswered \/ CloseAnswered \/ LoadAnswered
         \/ StartAnswered \/ StopAnswered
<1>1. CASE QuietStep BY <1>1, QuietSteps
<1>2. CASE HandleOpen \/ FullLoad \/ HandleStart \/ FullClose \/ Half \/ HandleStop \/ Crash
  BY <1>2, HandledOpen, HandledLoad, HandledStart, HandledClose, HalfSteps, HandledStop,
     CrashFalls
<1>3. CASE Connected BY <1>3, ConnectedSteps
<1>4. CASE Delivered BY <1>4 DEF Delivered, ListAnswered
<1> QED BY <1>1, <1>2, <1>3, <1>4, NextSteps

LEMMA ShownFrom ==
  ASSUME TypeInv, Next
  PROVE  \A i \in 1..Len(opened') :
            \/ \E k \in 1..Len(opened) : opened[k].bus = opened'[i].bus
            \/ OpenAnswered /\ Head(inbox).ok /\ opened'[i].bus = Head(inbox).id
<1> SUFFICES ASSUME NEW i \in 1..Len(opened')
             PROVE  \/ \E k \in 1..Len(opened) : opened[k].bus = opened'[i].bus
                    \/ OpenAnswered /\ Head(inbox).ok /\ opened'[i].bus = Head(inbox).id
  OBVIOUS
<1>1. CASE opened' = opened BY <1>1
<1>2. CASE Disconnected
  <2>1. CASE info
    <3>1. Len(opened') = 0 BY <1>2, <2>1, DisconnectedWindow
    <3> QED BY <3>1
  <2> QED BY <1>1, <1>2, <2>1, DisconnectedWindow
<1>3. CASE OpenAnswered BY <1>1, <1>3, OpenedWindow
<1>4. CASE CloseAnswered
  <2>1. CASE Head(inbox).ok
    <3>1. PICK h \in [1..Len(opened') -> 1..Len(opened)] :
             \A k \in 1..Len(opened') : opened'[k] = opened[h[k]]
      BY <1>4, <2>1, ClosedWindow
    <3>2. h[i] \in 1..Len(opened) /\ opened'[i] = opened[h[i]] BY <3>1
    <3> QED BY <3>2
  <2> QED BY <1>1, <1>4, <2>1, ClosedWindow
<1>5. CASE LoadAnswered BY <1>1, <1>5, LoadedWindow
<1>6. CASE StartAnswered BY <1>1, <1>6, StartedWindow
<1>7. CASE StopAnswered BY <1>1, <1>7, StoppedWindow
<1> QED BY <1>1, <1>2, <1>3, <1>4, <1>5, <1>6, <1>7, WindowSteps

LEMMA RowsFrom ==
  ASSUME TypeInv, Next
  PROVE  \A i \in 1..Len(rows') :
            \/ \E k \in 1..Len(rows) : rows[k].id = rows'[i].id
            \/ rows'[i].id = -i
            \/ StartAnswered /\ Head(inbox).ok /\ rows'[i].id = Head(inbox).id
<1> SUFFICES ASSUME NEW i \in 1..Len(rows')
             PROVE  \/ \E k \in 1..Len(rows) : rows[k].id = rows'[i].id
                    \/ rows'[i].id = -i
                    \/ StartAnswered /\ Head(inbox).ok /\ rows'[i].id = Head(inbox).id
  OBVIOUS
<1>1. CASE rows' = rows BY <1>1
<1>2. CASE Disconnected BY <1>1, <1>2, DisconnectedWindow
<1>3. CASE OpenAnswered BY <1>1, <1>3, OpenedWindow
<1>4. CASE CloseAnswered BY <1>1, <1>4, ClosedWindow DEF SameRow
<1>5. CASE LoadAnswered BY <1>1, <1>5, LoadedWindow
<1>6. CASE StartAnswered BY <1>1, <1>6, StartedWindow
<1>7. CASE StopAnswered BY <1>1, <1>7, StoppedWindow DEF SameRow
<1> QED BY <1>1, <1>2, <1>3, <1>4, <1>5, <1>6, <1>7, WindowSteps

LEMMA FreshBusesStep ==
  ASSUME TypeInv, Distinct(queue, inbox), FreshBuses(OnWay(queue, inbox), opened), Next
  PROVE  FreshBuses(OnWay(queue, inbox), opened)'
<1>0. PICK n \in Nat : n = calls BY KnownIds
<1>1. PICK W, V : W = OnWay(queue, inbox) /\ V = OnWay(queue', inbox') /\ n = calls
  BY <1>0
<1>2. \A x \in W : /\ x.id \in 1..n
                   /\ x.kind \in {"close", "load", "start", "stop"} => x.target \in 1..n
  BY <1>1, OnWayKnown
<1>3. \A i \in 1..Len(opened) : opened[i].bus \in 1..n BY <1>1 DEF TypeInv, WindowType
<1>4. CASE V \subseteq W
  <2>1. CASE OpenAnswered /\ Head(inbox).ok
    <3>1. inbox # <<>> /\ inbox' = Tail(inbox) /\ queue' = queue /\ OkAnswer(Head(inbox))
      BY <2>1, DeliveredSteps DEF Delivered, OpenAnswered, Receive, OkAnswer
    <3>2. \A x \in V : x.kind = "open" => x.id # Head(inbox).id BY <1>1, <3>1, NoMoreOnWay
    <3>3. \A i \in 1..Len(opened') :
             (\E k \in 1..Len(opened) : opened[k].bus = opened'[i].bus)
             \/ opened'[i].bus = Head(inbox).id
      BY ShownFrom
    <3>4. FreshBuses(V, opened') BY <1>1, <1>4, <3>2, <3>3 DEF FreshBuses
    <3> QED BY <1>1, <3>4
  <2>2. CASE ~(OpenAnswered /\ Head(inbox).ok)
    <3>1. \A i \in 1..Len(opened') : \E k \in 1..Len(opened) : opened[k].bus = opened'[i].bus
      BY <2>2, ShownFrom
    <3>2. FreshBuses(V, opened') BY <1>1, <1>4, <3>1 DEF FreshBuses
    <3> QED BY <1>1, <3>2
  <2> QED BY <2>1, <2>2
<1>5. ASSUME NEW c \in Calls, Made(c), V \subseteq W \cup {Lose(c)}, opened' = opened
      PROVE  FreshBuses(V, opened')
  <2>1. PICK y : y = Lose(c) OBVIOUS
  <2>2. y.kind = c.kind /\ y.id = n + 1 /\ y.target = c.target BY <1>1, <1>5, <2>1 DEF Lose, Made
  <2>3. y.kind \in {"close", "load", "start"} =>
           \E i \in 1..Len(opened) : opened[i].bus = y.target
    <3>1. DOMAIN opened = 1..Len(opened) BY DEF TypeInv, WindowType
    <3> QED BY <1>5, <2>2, <3>1 DEF Made, BusesShown
  <2>4. n + 1 \notin 1..n BY <1>1
  <2>5. \A x \in V : x.kind = "open" =>
          /\ \A z \in V : z.kind \in {"close", "load", "start"} => z.target # x.id
          /\ \A i \in 1..Len(opened) : opened[i].bus # x.id
    <3> SUFFICES ASSUME NEW x \in V, x.kind = "open"
                 PROVE  /\ \A z \in V : z.kind \in {"close", "load", "start"} => z.target # x.id
                        /\ \A i \in 1..Len(opened) : opened[i].bus # x.id
      OBVIOUS
    <3>1. CASE x \in W
      <4>1. \A i \in 1..Len(opened) : opened[i].bus # x.id BY <1>1, <3>1 DEF FreshBuses
      <4>2. \A z \in W : z.kind \in {"close", "load", "start"} => z.target # x.id
        BY <1>1, <3>1 DEF FreshBuses
      <4> QED BY <1>5, <2>1, <2>3, <4>1, <4>2
    <3>2. CASE x = y
      <4>1. \A i \in 1..Len(opened) : opened[i].bus # x.id BY <1>3, <2>2, <2>4, <3>2
      <4>2. \A z \in W : z.kind \in {"close", "load", "start"} => z.target # x.id
        BY <1>2, <2>2, <2>4, <3>2
      <4> QED BY <1>5, <2>1, <2>3, <4>1, <4>2
    <3> QED BY <1>5, <2>1, <3>1, <3>2
  <2> QED BY <1>5, <2>5 DEF FreshBuses
<1>6. ASSUME calls' = calls + 1, opened' = opened,
             \E c \in Calls : Made(c) /\ V \subseteq W \cup {Lose(c)}
      PROVE  FreshBuses(V, opened')
  BY <1>5, <1>6
<1> QED BY <1>1, <1>4, <1>6, OnWayStep

LEMMA FreshJobsStep ==
  ASSUME TypeInv, Distinct(queue, inbox), FreshJobs(OnWay(queue, inbox), rows), Next
  PROVE  FreshJobs(OnWay(queue, inbox), rows)'
<1>0. PICK n \in Nat : n = calls BY KnownIds
<1>1. PICK W, V : W = OnWay(queue, inbox) /\ V = OnWay(queue', inbox') /\ n = calls
  BY <1>0
<1>2. \A x \in W : /\ x.id \in 1..n
                   /\ x.kind \in {"close", "load", "start", "stop"} => x.target \in 1..n
  BY <1>1, OnWayKnown
<1>3. \A i \in 1..Len(rows) : rows[i].id = -i \/ rows[i].id \in 1..n
  BY <1>1 DEF TypeInv, WindowType
<1>4. CASE V \subseteq W
  <2>1. \A i \in 1..Len(rows') :
           \/ \E k \in 1..Len(rows) : rows[k].id = rows'[i].id
           \/ rows'[i].id \notin 1..n
           \/ StartAnswered /\ Head(inbox).ok /\ rows'[i].id = Head(inbox).id
    <3>1. \A i \in 1..Len(rows') : -i \notin 1..n BY <1>1
    <3> QED BY <3>1, RowsFrom
  <2>2. CASE StartAnswered /\ Head(inbox).ok
    <3>1. inbox # <<>> /\ inbox' = Tail(inbox) /\ queue' = queue /\ OkAnswer(Head(inbox))
      BY <2>2, DeliveredSteps DEF Delivered, StartAnswered, Receive, OkAnswer
    <3>2. \A x \in V : x.kind = "start" => x.id # Head(inbox).id BY <1>1, <3>1, NoMoreOnWay
    <3>3. FreshJobs(V, rows') BY <1>1, <1>2, <1>4, <2>1, <3>2 DEF FreshJobs
    <3> QED BY <1>1, <3>3
  <2>3. CASE ~(StartAnswered /\ Head(inbox).ok)
    <3>1. FreshJobs(V, rows') BY <1>1, <1>2, <1>4, <2>1, <2>3 DEF FreshJobs
    <3> QED BY <1>1, <3>1
  <2> QED BY <2>2, <2>3
<1>5. ASSUME NEW c \in Calls, Made(c), V \subseteq W \cup {Lose(c)}, rows' = rows
      PROVE  FreshJobs(V, rows')
  <2>1. PICK y : y = Lose(c) OBVIOUS
  <2>2. y.kind = c.kind /\ y.id = n + 1 /\ y.target = c.target BY <1>1, <1>5, <2>1 DEF Lose, Made
  <2>3. y.kind = "stop" => \E i \in 1..Len(rows) : rows[i].id = y.target
    BY <1>5, <2>2 DEF Made
  <2>4. n + 1 \notin 1..n /\ \A i \in 1..Len(rows) : n + 1 # -i BY <1>1
  <2>5. \A i \in 1..Len(rows) : rows[i].id # n + 1 BY <1>3, <2>4
  <2>6. \A x \in V : x.kind = "start" =>
          /\ \A z \in V : z.kind = "stop" => z.target # x.id
          /\ \A i \in 1..Len(rows) : rows[i].id # x.id
    <3> SUFFICES ASSUME NEW x \in V, x.kind = "start"
                 PROVE  /\ \A z \in V : z.kind = "stop" => z.target # x.id
                        /\ \A i \in 1..Len(rows) : rows[i].id # x.id
      OBVIOUS
    <3>1. CASE x \in W
      <4>1. \A i \in 1..Len(rows) : rows[i].id # x.id BY <1>1, <3>1 DEF FreshJobs
      <4>2. \A z \in W : z.kind = "stop" => z.target # x.id BY <1>1, <3>1 DEF FreshJobs
      <4> QED BY <1>5, <2>1, <2>3, <4>1, <4>2
    <3>2. CASE x = y
      <4>1. \A i \in 1..Len(rows) : rows[i].id # x.id BY <2>2, <2>5, <3>2
      <4>2. \A z \in W : z.kind = "stop" => z.target # x.id BY <1>2, <2>2, <2>4, <3>2
      <4> QED BY <1>5, <2>1, <2>3, <4>1, <4>2
    <3> QED BY <1>5, <2>1, <3>1, <3>2
  <2> QED BY <1>5, <2>6 DEF FreshJobs
<1>6. ASSUME calls' = calls + 1, rows' = rows,
             \E c \in Calls : Made(c) /\ V \subseteq W \cup {Lose(c)}
      PROVE  FreshJobs(V, rows')
  BY <1>5, <1>6
<1> QED BY <1>1, <1>4, <1>6, OnWayStep

LEMMA FreshIdsStep ==
  ASSUME TypeInv, Distinct(queue, inbox), FreshIds(queue, buses, jobs), Next
  PROVE  FreshIds(queue, buses, jobs)'
<1>0. queue \in Seq(Calls) /\ inbox \in Seq(Messages) BY KnownIds
<1>1. ASSUME NEW r, UNCHANGED <<buses, jobs>>, r = queue',
             \A i \in 1..Len(r) : \/ \E k \in 1..Len(queue) : SameCall(r[i], queue[k])
                                  \/ r[i].kind = "list"
                                  \/ r[i].id \notin DOMAIN buses /\ r[i].id \notin DOMAIN jobs
      PROVE  FreshIds(r, buses', jobs')
  BY <1>1 DEF FreshIds, SameCall
<1>2. \A i \in 1..Len(queue) : SameCall(queue[i], queue[i]) BY DEF SameCall
<1>3. CASE QuietStep
  <2>1. QueueStep /\ UNCHANGED <<buses, jobs>> BY <1>3, QuietSteps
  <2>2. PICK r : r = queue' OBVIOUS
  <2>3. CASE Kept(queue, r)
    <3>1. \A i \in 1..Len(r) : \E k \in 1..Len(queue) : SameCall(r[i], queue[k])
      BY <2>3 DEF Kept
    <3> QED BY <1>1, <2>1, <2>2, <3>1
  <2>4. CASE queue # <<>> /\ r = Tail(queue)
    <3>1. \A i \in 1..Len(r) : i + 1 \in 1..Len(queue) /\ r[i] = queue[i + 1]
      BY <1>0, <2>4, Popped
    <3>2. \A i \in 1..Len(r) : \E k \in 1..Len(queue) : SameCall(r[i], queue[k])
      BY <3>1 DEF SameCall
    <3> QED BY <1>1, <2>1, <2>2, <3>2
  <2>5. CASE r = queue BY <1>1, <1>2, <2>1, <2>2, <2>5
  <2>6. ASSUME NEW c \in Calls, Made(c), r = Append(queue, c) PROVE FreshIds(r, buses', jobs')
    <3>1. PICK n \in Nat : n = calls BY KnownIds
    <3>2. c.id = n + 1 /\ n + 1 \notin 1..n BY <2>6, <3>1 DEF Made
    <3>3. c.id \notin DOMAIN buses /\ c.id \notin DOMAIN jobs
      BY <3>1, <3>2 DEF TypeInv, EngineType
    <3>4. \A i \in 1..Len(r) : (i \in 1..Len(queue) /\ r[i] = queue[i]) \/ r[i] = c
      BY <1>0, <2>6, Pushed
    <3> QED BY <1>1, <1>2, <2>1, <2>2, <3>3, <3>4
  <2> QED BY <2>1, <2>2, <2>3, <2>4, <2>5, <2>6 DEF QueueStep
<1>4. ASSUME queue # <<>>, Head(queue).kind # "list", queue' = Tail(queue),
             DOMAIN buses' \subseteq DOMAIN buses \cup {Head(queue).id},
             DOMAIN jobs' \subseteq DOMAIN jobs \cup {Head(queue).id}
      PROVE  FreshIds(queue, buses, jobs)'
  <2>1. PICK r, c : r = queue' /\ r = Tail(queue) /\ c = Head(queue) BY <1>4
  <2>2. /\ 1 \in 1..Len(queue) /\ queue[1] = c
        /\ \A i \in 1..Len(r) : i + 1 \in 1..Len(queue) /\ r[i] = queue[i + 1] /\ i + 1 # 1
    BY <1>0, <1>4, <2>1, Popped
  <2>3. \A i \in 1..Len(r) : r[i].kind # "list" => r[i].id # c.id
    BY <1>4, <2>1, <2>2 DEF Distinct
  <2>4. FreshIds(r, buses', jobs') BY <1>4, <2>1, <2>2, <2>3 DEF FreshIds
  <2> QED BY <2>1, <2>4
<1>5. CASE HandleOpen BY <1>4, <1>5, HandledOpen
<1>6. CASE FullLoad BY <1>4, <1>6, HandledLoad
<1>7. CASE HandleStart BY <1>4, <1>7, HandledStart
<1>8. CASE FullClose BY <1>4, <1>8, HandledClose
<1>9. CASE HandleStop BY <1>4, <1>9, HandledStop
<1>10. CASE Crash
  <2>1. DOMAIN buses' = {} /\ DOMAIN jobs' = {} BY <1>10, CrashFalls
  <2> QED BY <2>1 DEF FreshIds
<1>11. CASE Connected
  <2>1. UNCHANGED <<buses, jobs>>
        /\ (queue' = queue \/ \E c \in Calls : c.kind = "list" /\ queue' = Append(queue, c))
    BY <1>11, ConnectedSteps
  <2>2. CASE queue' = queue BY <2>1, <2>2
  <2>3. ASSUME NEW c \in Calls, c.kind = "list", queue' = Append(queue, c)
        PROVE  FreshIds(queue, buses, jobs)'
    <3>1. PICK r : r = queue' /\ r = Append(queue, c) BY <2>3
    <3>2. \A i \in 1..Len(r) : (i \in 1..Len(queue) /\ r[i] = queue[i]) \/ r[i] = c
      BY <1>0, <3>1, Pushed
    <3>3. FreshIds(r, buses', jobs') BY <1>1, <1>2, <2>1, <2>3, <3>1, <3>2
    <3> QED BY <3>1, <3>3
  <2> QED BY <2>1, <2>2, <2>3
<1>12. CASE Delivered
  <2>1. UNCHANGED <<buses, jobs, queue>> BY <1>12, DeliveredSteps
  <2> QED BY <2>1
<1>13. CASE Half
  <2>1. PICK c : c = Head(queue) OBVIOUS
  <2>2. /\ queue # <<>> /\ c.kind \in {"load", "close"} /\ queue' = Tail(queue)
        /\ (c.kind = "load" /\ LoadDone(c)) \/ (c.kind = "close" /\ CloseDone(c))
    BY <1>13, <2>1, HalfSteps
  <2>3. /\ DOMAIN buses' \subseteq DOMAIN buses /\ DOMAIN jobs' \subseteq DOMAIN jobs
        /\ c.kind # "list"
    BY <2>2 DEF LoadDone, CloseDone
  <2> QED BY <1>4, <2>1, <2>2, <2>3
<1> QED BY <1>3, <1>5, <1>6, <1>7, <1>8, <1>9, <1>10, <1>11, <1>12, <1>13, NextSteps
-----------------------------------------------------------------------------
(* The buses shown and the buses open; D is DOMAIN buses.                     *)

LostTo(L, kind, target) == \E c \in L : c.kind = kind /\ c.target = target
LostOf(L, kind, id)     == \E c \in L : c.kind = kind /\ c.id = id

ShownOpen(s, D, O, L) ==
    \A i \in 1..Len(O) : \/ O[i].bus \in D \/ DownAfter(s, 0)
                         \/ LostTo(L, "close", O[i].bus) \/ OkAfter(s, 0, "close", O[i].bus)

NewsOpen(s, D) ==
    \A p \in 1..Len(s) : /\ Ok(s[p], "open") => s[p].id \in D \/ DownAfter(s, p)
                         /\ Ok(s[p], "close") => s[p].target \notin D

OpenShown(s, D, O, L) ==
    \A b \in D : \/ LostOf(L, "open", b) \/ NewsOf(s, "open", b)
                 \/ ~DownAfter(s, 0) /\ \E i \in 1..Len(O) : O[i].bus = b

Mirror(s, D, O, L) == ShownOpen(s, D, O, L) /\ NewsOpen(s, D) /\ OpenShown(s, D, O, L)

LEMMA MirrorQuiet ==
  ASSUME NEW s \in Seq(Messages), NEW t \in Seq(Messages), Quiet(s, t),
         NEW D, NEW O, NEW L, NEW M, L \subseteq M, Mirror(s, D, O, L)
  PROVE  Mirror(t, D, O, M)
<1>1. /\ \A p \in Nat : DownAfter(t, p) <=> DownAfter(s, p)
      /\ \A p \in Nat : \A kind, target : OkAfter(s, p, kind, target) => OkAfter(t, p, kind, target)
      /\ \A kind, id : NewsOf(s, kind, id) => NewsOf(t, kind, id)
  BY GrownNews DEF Quiet
<1>2. 0 \in Nat /\ \A p \in 1..Len(s) : p \in Nat OBVIOUS
<1>3. ShownOpen(t, D, O, M) BY <1>1, <1>2 DEF Mirror, ShownOpen, LostTo
<1>4. OpenShown(t, D, O, M) BY <1>1, <1>2 DEF Mirror, OpenShown, LostOf
<1>5. \A p \in 1..Len(t) : Ok(t[p], "open") \/ Ok(t[p], "close") =>
         p \in 1..Len(s) /\ t[p] = s[p]
  BY QuietNews DEF Kinds
<1>6. NewsOpen(t, D) BY <1>1, <1>2, <1>5 DEF Mirror, NewsOpen
<1> QED BY <1>3, <1>4, <1>6 DEF Mirror

LEMMA MirrorAnswered ==
  ASSUME NEW s \in Seq(Messages), NEW t \in Seq(Messages), NEW D, NEW O, NEW L,
         NEW c, NEW ok, NEW gone, Answered(s, t, L, c, ok, gone), c.kind # "status",
         NEW E, Mirror(s, D, O, L),
         \* what the call did
         \/ c.kind \notin {"open", "close"} /\ E = D
         \/ c.kind = "open" /\ E = D \cup {c.id}
            /\ \A p \in 1..Len(s) : Ok(s[p], "close") => s[p].target # c.id
         \/ c.kind = "close" /\ E = D \ {c.target} /\ c.target \notin D
            /\ \A p \in 1..Len(s) : Ok(s[p], "open") => s[p].id # c.target
         \/ c.kind = "close" /\ E = D \ {c.target} /\ ok = TRUE
            /\ \A p \in 1..Len(s) : Ok(s[p], "open") => s[p].id # c.target,
         c.kind = "open" => ok = TRUE
  PROVE  Mirror(t, E, O, L)
<1>1. /\ \A p \in Nat : DownAfter(t, p) <=> DownAfter(s, p)
      /\ \A p \in Nat : \A kind, target : OkAfter(s, p, kind, target) => OkAfter(t, p, kind, target)
      /\ \A kind, id : NewsOf(s, kind, id) => NewsOf(t, kind, id)
  BY GrownNews DEF Answered
<1>2. 0 \in Nat /\ Len(s) \in Nat /\ \A p \in 1..Len(s) : p \in Nat OBVIOUS
<1>3. \A p \in 1..Len(t) :
         (p \in 1..Len(s) /\ t[p] = s[p]) \/ t[p] = Answer(c, ok, gone)
  BY DEF Answered, Grown
<1>4. /\ Answer(c, ok, gone).kind = c.kind /\ Answer(c, ok, gone).id = c.id
      /\ Answer(c, ok, gone).target = c.target
      /\ (ok = TRUE => \A kind : kind = c.kind => Ok(Answer(c, ok, gone), kind))
  BY DEF Answer, Ok
<1>5. NewsOpen(t, E) BY <1>1, <1>2, <1>3, <1>4 DEF Mirror, NewsOpen, Ok
<1>6. ShownOpen(t, E, O, L)
  <2>1. ASSUME c.kind = "close", ok = TRUE
        PROVE  LostTo(L, "close", c.target) \/ OkAfter(t, 0, "close", c.target)
    <3>1. CASE Len(s) + 1 \in 1..Len(t) /\ t[Len(s) + 1] = Answer(c, ok, gone)
      <4>1. 0 < Len(s) + 1 BY <1>2
      <4> QED BY <1>4, <2>1, <3>1, <4>1 DEF OkAfter
    <3>2. CASE Lose(c) \in L BY <2>1, <3>2 DEF LostTo, Lose
    <3> QED BY <3>1, <3>2 DEF Answered
  <2> QED BY <1>1, <1>2, <2>1 DEF Mirror, ShownOpen
<1>7. OpenShown(t, E, O, L)
  <2>1. ASSUME c.kind = "open", ok = TRUE
        PROVE  LostOf(L, "open", c.id) \/ NewsOf(t, "open", c.id)
    <3>1. CASE Len(s) + 1 \in 1..Len(t) /\ t[Len(s) + 1] = Answer(c, ok, gone)
      <4>1. ~DownAfter(s, Len(s) + 1) BY <1>2 DEF DownAfter
      <4>2. ~DownAfter(t, Len(s) + 1) BY <1>1, <1>2, <4>1
      <4> QED BY <1>4, <2>1, <3>1, <4>2 DEF NewsOf
    <3>2. CASE Lose(c) \in L BY <2>1, <3>2 DEF LostOf, Lose
    <3> QED BY <3>1, <3>2 DEF Answered
  <2> QED BY <1>1, <1>2, <2>1 DEF Mirror, OpenShown
<1> QED BY <1>5, <1>6, <1>7 DEF Mirror

LEMMA MirrorFallen ==
  ASSUME NEW s \in Seq(Messages), NEW t \in Seq(Messages), Fallen(s, t),
         NEW D, NEW O, NEW L, Mirror(s, D, O, L)
  PROVE  Mirror(t, {}, O, L)
<1>1. 0 \in 0..Len(s) /\ \A p \in 1..Len(s) : p \in 0..Len(s) OBVIOUS
<1>2. DownAfter(t, 0) /\ \A p \in 1..Len(s) : DownAfter(t, p) BY <1>1 DEF Fallen
<1>3. \A p \in 1..Len(t) : Ok(t[p], "open") => p \in 1..Len(s) BY DEF Fallen, Ok, OkAnswer
<1> QED BY <1>2, <1>3 DEF Mirror, ShownOpen, NewsOpen, OpenShown

(* The window takes the message m; the buses it shows, O before, are P then.  *)
ShownAfter(m, O, P) ==
    /\ IsDown(m) => Len(P) = 0
    /\ \A i \in 1..Len(P) : (\E k \in 1..Len(O) : O[k].bus = P[i].bus)
                            \/ (Ok(m, "open") /\ P[i].bus = m.id)
    /\ ~IsDown(m) => \A k \in 1..Len(O) : (\E i \in 1..Len(P) : P[i].bus = O[k].bus)
                                          \/ (Ok(m, "close") /\ O[k].bus = m.target)
    /\ Ok(m, "open") => \E i \in 1..Len(P) : P[i].bus = m.id
    /\ Ok(m, "close") => \A i \in 1..Len(P) : P[i].bus # m.target

LEMMA MirrorDelivered ==
  ASSUME NEW s \in Seq(Messages), s # <<>>, NEW t, t = Tail(s),
         NEW D, NEW O, NEW L, Mirror(s, D, O, L), NEW P, ShownAfter(Head(s), O, P)
  PROVE  Mirror(t, D, P, L)
<1>0. PICK m : m = Head(s) OBVIOUS
<1>1. /\ 1 \in 1..Len(s) /\ s[1] = m
      /\ \A p \in 1..Len(t) : p + 1 \in 1..Len(s) /\ t[p] = s[p + 1]
      /\ \A p \in Nat : DownAfter(t, p) <=> DownAfter(s, p + 1)
      /\ DownAfter(s, 0) <=> (IsDown(m) \/ DownAfter(t, 0))
      /\ \A kind, target : OkAfter(s, 0, kind, target) <=>
            (Ok(m, kind) /\ m.target = target) \/ OkAfter(t, 0, kind, target)
      /\ \A kind, id : NewsOf(s, kind, id) =>
            (Ok(m, kind) /\ m.id = id /\ ~DownAfter(t, 0)) \/ NewsOf(t, kind, id)
  BY <1>0, TailNews
<1>2. Ok(m, "open") => m.id \in D \/ DownAfter(t, 0)
  <2>1. 0 \in Nat /\ 0 + 1 = 1 OBVIOUS
  <2>2. DownAfter(t, 0) <=> DownAfter(s, 1) BY <1>1, <2>1
  <2> QED BY <1>1, <2>2 DEF Mirror, NewsOpen
<1>3. Ok(m, "close") => m.target \notin D BY <1>1 DEF Mirror, NewsOpen
<1>a. ShownAfter(m, O, P) BY <1>0
<1>4. NewsOpen(t, D)
  <2>1. \A p \in 1..Len(t) : p \in Nat OBVIOUS
  <2> QED BY <1>1, <2>1 DEF Mirror, NewsOpen
<1>5. ShownOpen(t, D, P, L)
  <2> SUFFICES ASSUME NEW i \in 1..Len(P)
               PROVE  \/ P[i].bus \in D \/ DownAfter(t, 0)
                      \/ LostTo(L, "close", P[i].bus) \/ OkAfter(t, 0, "close", P[i].bus)
    BY DEF ShownOpen
  <2>1. CASE Ok(m, "open") /\ P[i].bus = m.id BY <1>2, <2>1
  <2>2. CASE \E k \in 1..Len(O) : O[k].bus = P[i].bus
    <3>1. ~IsDown(m)
      <4>1. Len(P) # 0 OBVIOUS
      <4> QED BY <1>a, <4>1 DEF ShownAfter
    <3>2. ~(Ok(m, "close") /\ m.target = P[i].bus) BY <1>a DEF ShownAfter
    <3> QED BY <1>1, <2>2, <3>1, <3>2 DEF Mirror, ShownOpen
  <2> QED BY <1>a, <2>1, <2>2 DEF ShownAfter
<1>6. OpenShown(t, D, P, L)
  <2> SUFFICES ASSUME NEW b \in D, ~LostOf(L, "open", b), ~NewsOf(t, "open", b)
               PROVE  ~DownAfter(t, 0) /\ \E i \in 1..Len(P) : P[i].bus = b
    BY DEF OpenShown
  <2>1. CASE NewsOf(s, "open", b) BY <1>1, <1>a, <2>1 DEF ShownAfter
  <2>2. CASE ~DownAfter(s, 0) /\ \E k \in 1..Len(O) : O[k].bus = b
    BY <1>1, <1>3, <1>a, <2>2, ZenonT(40) DEF ShownAfter
  <2> QED BY <2>1, <2>2 DEF Mirror, OpenShown
<1> QED BY <1>4, <1>5, <1>6 DEF Mirror

(* What is new when the engine takes the first call. *)
LEMMA HeadOnWay ==
  ASSUME TypeInv, queue # <<>>, Head(queue).kind # "list"
  PROVE  /\ Lose(Head(queue)) \in OnWay(queue, inbox)
         /\ \A p \in 1..Len(inbox) : OkAnswer(inbox[p]) \/ inbox[p].gone =>
               Lose(inbox[p]) \in OnWay(queue, inbox)
<1>1. Lose(Head(queue)) \in CallsOf(queue) BY KnownIds, CallsStep
<1>2. \A p \in 1..Len(inbox) : OkAnswer(inbox[p]) \/ inbox[p].gone =>
         Lose(inbox[p]) \in NewsIn(inbox)
  BY DEF NewsIn
<1> QED BY <1>1, <1>2 DEF OnWay

LEMMA HeadIsFresh ==
  ASSUME TypeInv, queue # <<>>, FreshBuses(OnWay(queue, inbox), opened)
  PROVE  /\ Head(queue).kind = "open" =>
              /\ \A p \in 1..Len(inbox) : Ok(inbox[p], "close") \/ Ok(inbox[p], "load")
                    => inbox[p].target # Head(queue).id
              /\ \A i \in 1..Len(opened) : opened[i].bus # Head(queue).id
         /\ Head(queue).kind \in {"close", "load"} =>
              \A p \in 1..Len(inbox) : Ok(inbox[p], "open") => inbox[p].id # Head(queue).target
<1>1. PICK W, x : W = OnWay(queue, inbox) /\ x = Lose(Head(queue)) OBVIOUS
<1>2. x.kind = Head(queue).kind /\ x.id = Head(queue).id /\ x.target = Head(queue).target
  BY <1>1 DEF Lose
<1>3. x.kind # "list" => x \in W BY <1>1, <1>2, HeadOnWay
<1>4. x.kind # "list" => \A p \in 1..Len(inbox) :
         Ok(inbox[p], "open") \/ Ok(inbox[p], "close") \/ Ok(inbox[p], "load") =>
           \E y \in W : y.kind = inbox[p].kind /\ y.id = inbox[p].id /\ y.target = inbox[p].target
  <2> SUFFICES ASSUME x.kind # "list", NEW p \in 1..Len(inbox),
                      Ok(inbox[p], "open") \/ Ok(inbox[p], "close") \/ Ok(inbox[p], "load")
               PROVE  \E y \in W : y.kind = inbox[p].kind /\ y.id = inbox[p].id
                                   /\ y.target = inbox[p].target
    OBVIOUS
  <2>1. Lose(inbox[p]) \in W BY <1>1, <1>2, HeadOnWay DEF Ok, OkAnswer
  <2> QED BY <2>1 DEF Lose
<1> QED BY <1>1, <1>2, <1>3, <1>4 DEF FreshBuses, Ok

(* A call that is half done: its effect is that of a call whose answer was    *)
(* lost before it.                                                            *)
LEMMA HalfIsLost ==
  ASSUME TypeInv, FreshBuses(OnWay(queue, inbox), opened), Half,
         NEW c, c = Head(queue), NEW t, t = inbox', NEW yes, yes = TRUE, NEW no, no = FALSE
  PROVE  /\ queue # <<>> /\ c.kind \in {"load", "close"} /\ t \in Seq(Messages)
         /\ Quiet(inbox, t) /\ lost \subseteq lost' /\ Answered(t, t, lost', c, yes, no)
         /\ opened' = opened /\ rows' = rows
         /\ (c.kind = "load" /\ LoadDone(c)) \/ (c.kind = "close" /\ CloseDone(c))
         /\ \A p \in 1..Len(t) : Ok(t[p], "open") => t[p].id # c.target
         /\ Ok(Answer(c, yes, no), c.kind)
<1>0. inbox \in Seq(Messages) BY KnownIds
<1>1. /\ queue # <<>> /\ c.kind \in {"load", "close"} /\ t \in Seq(Messages)
      /\ Quiet(inbox, t) /\ lost \subseteq lost' /\ Answered(t, t, lost', c, TRUE, FALSE)
      /\ opened' = opened /\ rows' = rows
      /\ (c.kind = "load" /\ LoadDone(c)) \/ (c.kind = "close" /\ CloseDone(c))
  BY HalfSteps
<1>2. \A p \in 1..Len(inbox) : Ok(inbox[p], "open") => inbox[p].id # c.target
  BY <1>1, HeadIsFresh
<1>3. \A p \in 1..Len(t) : Ok(t[p], "open") => p \in 1..Len(inbox) /\ t[p] = inbox[p]
  BY <1>0, <1>1, QuietNews DEF Kinds
<1>4. Ok(Answer(c, yes, no), c.kind) BY DEF Ok, Answer
<1>5. Answered(t, t, lost', c, yes, no) BY <1>1
<1> QED BY <1>1, <1>2, <1>3, <1>4, <1>5

LEMMA MirrorStep ==
  ASSUME TypeInv, Blank, FreshBuses(OnWay(queue, inbox), opened),
         Mirror(inbox, DOMAIN buses, opened, lost), Next
  PROVE  Mirror(inbox, DOMAIN buses, opened, lost)'
<1>0. inbox \in Seq(Messages) BY KnownIds
<1>1. CASE QuietStep
  <2>1. /\ inbox' \in Seq(Messages) /\ Quiet(inbox, inbox')
        /\ UNCHANGED <<buses, opened>> /\ lost \subseteq lost'
    BY <1>1, QuietSteps
  <2> QED BY <1>0, <2>1, MirrorQuiet
<1>2. PICK c : c = Head(queue) OBVIOUS
<1>3. CASE HandleOpen
  <2>1. /\ queue # <<>> /\ c.kind = "open" /\ inbox' \in Seq(Messages)
        /\ Answered(inbox, inbox', lost, c, TRUE, FALSE)
        /\ opened' = opened /\ lost' = lost /\ DOMAIN buses' = DOMAIN buses \cup {c.id}
    BY <1>2, <1>3, HandledOpen
  <2>2. \A p \in 1..Len(inbox) : Ok(inbox[p], "close") => inbox[p].target # c.id
    BY <1>2, <2>1, HeadIsFresh
  <2>3. c.kind # "status" BY <2>1
  <2>4. Mirror(inbox', DOMAIN buses', opened, lost)
    BY <1>0, <2>1, <2>2, <2>3, MirrorAnswered
  <2> QED BY <2>1, <2>4
<1>4. CASE FullClose
  <2>1. /\ queue # <<>> /\ c.kind = "close" /\ inbox' \in Seq(Messages)
        /\ \/ c.target \in DOMAIN buses /\ Answered(inbox, inbox', lost, c, TRUE, FALSE)
           \/ c.target \notin DOMAIN buses /\ Answered(inbox, inbox', lost, c, FALSE, TRUE)
        /\ opened' = opened /\ lost' = lost /\ DOMAIN buses' = DOMAIN buses \ {c.target}
    BY <1>2, <1>4, HandledClose
  <2>2. \A p \in 1..Len(inbox) : Ok(inbox[p], "open") => inbox[p].id # c.target
    BY <1>2, <2>1, HeadIsFresh
  <2>3. c.kind # "status" /\ c.kind # "open" BY <2>1
  <2>4. Mirror(inbox', DOMAIN buses', opened, lost)
    BY <1>0, <2>1, <2>2, <2>3, MirrorAnswered
  <2> QED BY <2>1, <2>4
<1>5. CASE FullLoad \/ HandleStart \/ HandleStop
  <2>1. /\ c.kind \in {"load", "start", "stop"} /\ inbox' \in Seq(Messages)
        /\ \E ok, gone : Answered(inbox, inbox', lost, c, ok, gone)
        /\ opened' = opened /\ lost' = lost /\ DOMAIN buses' = DOMAIN buses
    <3>1. CASE FullLoad BY <1>2, <3>1, HandledLoad
    <3>2. CASE HandleStart BY <1>2, <3>2, HandledStart
    <3>3. CASE HandleStop BY <1>2, <3>3, HandledStop
    <3> QED BY <1>5, <3>1, <3>2, <3>3
  <2>2. c.kind # "status" /\ c.kind \notin {"open", "close"} /\ c.kind # "open" BY <2>1
  <2>3. Mirror(inbox', DOMAIN buses', opened, lost) BY <1>0, <2>1, <2>2, MirrorAnswered
  <2> QED BY <2>1, <2>3
<1>6. CASE Crash
  <2>1. /\ inbox' \in Seq(Messages) /\ Fallen(inbox, inbox') /\ DOMAIN buses' = {}
        /\ opened' = opened /\ lost' = lost
    BY <1>6, CrashFalls
  <2>2. Mirror(inbox', {}, opened, lost) BY <1>0, <2>1, MirrorFallen
  <2> QED BY <2>1, <2>2
<1>7. PICK m, s : m = Head(inbox) /\ s = Tail(inbox) OBVIOUS
<1>8. CASE Connected
  <2>1. /\ inbox # <<>> /\ m.kind = "status" /\ m.ok /\ inbox' \in Seq(Messages)
        /\ Quiet(s, inbox') /\ UNCHANGED <<buses, opened, lost>>
    BY <1>7, <1>8, ConnectedSteps
  <2>2. ~IsDown(m) /\ ~Ok(m, "open") /\ ~Ok(m, "close") BY <2>1 DEF IsDown, Ok
  <2>3. s \in Seq(Messages) BY <1>0, <1>7, <2>1
  <2>a. ShownAfter(m, opened, opened) BY <2>2 DEF ShownAfter
  <2>4. Mirror(s, DOMAIN buses, opened, lost)
    BY <1>0, <1>7, <2>1, <2>a, MirrorDelivered
  <2>5. Mirror(inbox', DOMAIN buses, opened, lost) BY <2>1, <2>3, <2>4, MirrorQuiet
  <2> QED BY <2>1, <2>5
<1>9. ASSUME Delivered, ShownAfter(m, opened, opened')
      PROVE  Mirror(inbox, DOMAIN buses, opened, lost)'
  <2>1. inbox # <<>> /\ inbox' = s /\ UNCHANGED <<buses, lost>> BY <1>7, <1>9, DeliveredSteps
  <2>2. PICK P : P = opened' /\ ShownAfter(Head(inbox), opened, P) BY <1>7, <1>9
  <2>3. Mirror(s, DOMAIN buses, P, lost) BY <1>0, <1>7, <2>1, <2>2, MirrorDelivered
  <2> QED BY <2>1, <2>2, <2>3
<1>10. CASE Disconnected
  <2>1. IsDown(m) BY <1>7, <1>10, DisconnectedWindow
  <2>2. Len(opened') = 0
    <3>1. CASE info BY <1>10, <3>1, DisconnectedWindow
    <3>2. CASE ~info BY <1>10, <3>2, DisconnectedWindow DEF Blank
    <3> QED BY <3>1, <3>2
  <2>3. ~Ok(m, "open") /\ ~Ok(m, "close") BY <2>1 DEF IsDown, Ok
  <2>4. \A i \in 1..Len(opened') : FALSE BY <2>2
  <2> QED BY <1>9, <1>10, <2>1, <2>2, <2>3, <2>4 DEF Delivered, ShownAfter
<1>11. CASE ListAnswered \/ LoadAnswered \/ StartAnswered \/ StopAnswered
  <2>1. m.kind \in {"list", "load", "start", "stop"}
    BY <1>7, <1>11 DEF ListAnswered, LoadAnswered, StartAnswered, StopAnswered, Receive
  <2>2. ~IsDown(m) /\ ~Ok(m, "open") /\ ~Ok(m, "close") BY <2>1 DEF IsDown, Ok
  <2>3. opened' = opened \/ (/\ Len(opened') = Len(opened)
                             /\ \A i \in 1..Len(opened) : opened'[i].bus = opened[i].bus)
    BY <1>11, LoadedWindow, StartedWindow, StoppedWindow DEF ListAnswered
  <2> QED BY <1>9, <1>11, <2>2, <2>3 DEF Delivered, ShownAfter
<1>12. CASE OpenAnswered
  <2>1. m.kind = "open" BY <1>7, <1>12 DEF OpenAnswered, Receive
  <2>2. ~IsDown(m) /\ ~Ok(m, "close") /\ (Ok(m, "open") <=> m.ok) BY <2>1 DEF IsDown, Ok
  <2>3. CASE m.ok BY <1>7, <1>9, <1>12, <2>2, <2>3, OpenedWindow DEF Delivered, ShownAfter
  <2>4. CASE ~m.ok BY <1>7, <1>9, <1>12, <2>2, <2>4, OpenedWindow DEF Delivered, ShownAfter
  <2> QED BY <2>3, <2>4
<1>13. CASE CloseAnswered
  <2>1. m.kind = "close" BY <1>7, <1>13 DEF CloseAnswered, Receive
  <2>2. ~IsDown(m) /\ ~Ok(m, "open") /\ (Ok(m, "close") <=> m.ok) BY <2>1 DEF IsDown, Ok
  <2>3. CASE m.ok
    <3>1. PICK h \in [1..Len(opened') -> 1..Len(opened)] :
             \A k \in 1..Len(opened') : opened'[k] = opened[h[k]] /\ opened[h[k]].bus # m.target
      BY <1>7, <1>13, <2>3, ClosedWindow, SMTT(30)
    <3>2. \A k \in 1..Len(opened') : /\ h[k] \in 1..Len(opened) /\ opened'[k] = opened[h[k]]
                                     /\ opened'[k].bus # m.target
      BY <3>1
    <3>3. \A i \in 1..Len(opened) : opened[i].bus # m.target =>
             \E k \in 1..Len(opened') : opened'[k] = opened[i]
      BY <1>7, <1>13, <2>3, ClosedWindow
    <3>4. \A k \in 1..Len(opened') : \E i \in 1..Len(opened) : opened[i].bus = opened'[k].bus
      BY <3>2
    <3>5. \A i \in 1..Len(opened) :
             (\E k \in 1..Len(opened') : opened'[k].bus = opened[i].bus) \/ opened[i].bus = m.target
      BY <3>3
    <3> QED BY <1>9, <1>13, <2>2, <2>3, <3>2, <3>4, <3>5 DEF Delivered, ShownAfter
  <2>4. CASE ~m.ok BY <1>7, <1>9, <1>13, <2>2, <2>4, ClosedWindow DEF Delivered, ShownAfter
  <2> QED BY <2>3, <2>4
<1>14. CASE Half
  <2>1. PICK t, L, yes, no : t = inbox' /\ L = lost' /\ yes = TRUE /\ no = FALSE OBVIOUS
  <2>2. /\ c.kind \in {"load", "close"} /\ t \in Seq(Messages)
        /\ Quiet(inbox, t) /\ lost \subseteq L /\ Answered(t, t, L, c, yes, no)
        /\ opened' = opened
        /\ (c.kind = "load" /\ LoadDone(c)) \/ (c.kind = "close" /\ CloseDone(c))
        /\ \A p \in 1..Len(t) : Ok(t[p], "open") => t[p].id # c.target
    BY <1>2, <1>14, <2>1, HalfIsLost
  <2>3. Mirror(t, DOMAIN buses, opened, L) BY <1>0, <2>2, MirrorQuiet
  <2>4. c.kind # "status" /\ c.kind # "open" BY <2>2
  <2>5. CASE c.kind = "load"
    <3>1. DOMAIN buses' = DOMAIN buses BY <2>2, <2>5 DEF LoadDone
    <3> QED BY <2>1, <2>2, <2>3, <3>1
  <2>6. CASE c.kind = "close"
    <3>1. PICK E : E = DOMAIN buses' /\ E = DOMAIN buses \ {c.target}
      BY <2>2, <2>6 DEF CloseDone
    <3>2. Mirror(t, E, opened, L) BY <2>1, <2>2, <2>3, <2>4, <2>6, <3>1, MirrorAnswered
    <3> QED BY <2>1, <2>2, <3>1, <3>2
  <2> QED BY <2>2, <2>5, <2>6
<1> QED BY <1>1, <1>3, <1>4, <1>5, <1>6, <1>8, <1>10, <1>11, <1>12, <1>13, <1>14, NextSteps
        DEF Delivered
-----------------------------------------------------------------------------
(* The Connect button waits for one answer, so two opens of one name are never *)
(* under way; `waits` is connecting.                                          *)

LiveOpen(c) == c.kind = "open" /\ c.live

NotShown(name, O) == \A k \in 1..Len(O) : O[k].name # name

OneCall(q, s, waits, O) ==
    \A i \in 1..Len(q) : LiveOpen(q[i]) =>
        /\ waits /\ NotShown(q[i].name, O)
        /\ \A j \in 1..Len(q) : LiveOpen(q[j]) => j = i
        /\ \A p \in 1..Len(s) : s[p].kind # "open"

OneAnswer(s, waits, O) ==
    \A p \in 1..Len(s) : s[p].kind = "open" =>
        /\ waits /\ NotShown(s[p].name, O)
        /\ \A r \in 1..Len(s) : s[r].kind = "open" => r = p

OneName(O) == \A i, k \in 1..Len(O) : O[i].name = O[k].name => i = k

OneOpen(q, s, waits, O) == OneCall(q, s, waits, O) /\ OneAnswer(s, waits, O) /\ OneName(O)

(* A message that is not the answer of an open, or a call that is not one. *)
LEMMA OnePlain ==
  ASSUME NEW s \in Seq(Messages), NEW q \in Seq(Calls), NEW w, NEW O, OneOpen(q, s, w, O)
  PROVE  /\ \A m \in Messages : m.kind # "open" => OneOpen(q, Append(s, m), w, O)
         /\ \A c \in Calls : c.kind # "open" => OneOpen(Append(q, c), s, w, O)
<1>1. ASSUME NEW m \in Messages, m.kind # "open" PROVE OneOpen(q, Append(s, m), w, O)
  <2>1. PICK t : t = Append(s, m) OBVIOUS
  <2>2. \A p \in 1..Len(t) : t[p].kind = "open" => p \in 1..Len(s) /\ t[p] = s[p]
    BY <1>1, <2>1, Pushed
  <2>3. OneOpen(q, t, w, O) BY <2>2 DEF OneOpen, OneCall, OneAnswer
  <2> QED BY <2>1, <2>3
<1>2. ASSUME NEW c \in Calls, c.kind # "open" PROVE OneOpen(Append(q, c), s, w, O)
  <2>1. PICK r : r = Append(q, c) OBVIOUS
  <2>2. \A i \in 1..Len(r) : LiveOpen(r[i]) => i \in 1..Len(q) /\ r[i] = q[i]
    BY <1>2, <2>1, Pushed DEF LiveOpen
  <2>3. OneOpen(r, s, w, O) BY <2>2 DEF OneOpen, OneCall
  <2> QED BY <2>1, <2>3
<1> QED BY <1>1, <1>2

(* The call at i leaves the queue, or is dead in it, and its answer is sent;  *)
(* f says where the calls of r were.                                          *)
Moves(q, r, i, f) ==
    /\ i \in 1..Len(q) /\ q[i].live
    /\ \A j \in 1..Len(r) : LiveOpen(r[j]) => f[j] \in 1..Len(q) /\ f[j] # i /\ r[j] = q[f[j]]
    /\ \A j, k \in 1..Len(r) : f[j] = f[k] => j = k

LEMMA OneMoved ==
  ASSUME NEW s \in Seq(Messages), NEW q, NEW w, NEW O, OneOpen(q, s, w, O),
         NEW i, NEW r, NEW f, Moves(q, r, i, f),
         NEW m \in Messages, m.kind = q[i].kind, m.name = q[i].name
  PROVE  OneOpen(r, Append(s, m), w, O)
<1>1. PICK t : t = Append(s, m) OBVIOUS
<1>2. /\ \A p \in 1..Len(t) : (p \in 1..Len(s) /\ t[p] = s[p]) \/ (p = Len(s) + 1 /\ t[p] = m)
  BY <1>1, Pushed
<1>a. /\ i \in 1..Len(q) /\ q[i].live
      /\ \A j \in 1..Len(r) : LiveOpen(r[j]) => f[j] \in 1..Len(q) /\ f[j] # i /\ r[j] = q[f[j]]
      /\ \A j, k \in 1..Len(r) : f[j] = f[k] => j = k
  BY DEF Moves
<1>3. CASE m.kind = "open"
  <2>1. LiveOpen(q[i]) BY <1>3, <1>a DEF LiveOpen
  <2>2. /\ w /\ NotShown(m.name, O) /\ (\A p \in 1..Len(s) : s[p].kind # "open")
        /\ \A j \in 1..Len(q) : LiveOpen(q[j]) => j = i
    BY <1>a, <2>1 DEF OneOpen, OneCall
  <2>3. \A j \in 1..Len(r) : ~LiveOpen(r[j]) BY <1>a, <2>2
  <2>4. OneAnswer(t, w, O) BY <1>2, <2>2 DEF OneAnswer
  <2>5. OneCall(r, t, w, O) BY <2>3 DEF OneCall
  <2> QED BY <1>1, <2>4, <2>5 DEF OneOpen
<1>4. CASE m.kind # "open"
  <2>1. \A p \in 1..Len(t) : t[p].kind = "open" => p \in 1..Len(s) /\ t[p] = s[p]
    BY <1>2, <1>4
  <2>2. OneAnswer(t, w, O) BY <2>1 DEF OneOpen, OneAnswer
  <2>3. OneCall(r, t, w, O)
    <3> SUFFICES ASSUME NEW j \in 1..Len(r), LiveOpen(r[j])
                 PROVE  /\ w /\ NotShown(r[j].name, O)
                        /\ \A k \in 1..Len(r) : LiveOpen(r[k]) => k = j
                        /\ \A p \in 1..Len(t) : t[p].kind # "open"
      BY DEF OneCall
    <3>1. f[j] \in 1..Len(q) /\ r[j] = q[f[j]] BY <1>a
    <3>2. /\ w /\ NotShown(r[j].name, O)
          /\ (\A k \in 1..Len(q) : LiveOpen(q[k]) => k = f[j])
          /\ \A p \in 1..Len(s) : s[p].kind # "open"
      BY <3>1 DEF OneOpen, OneCall
    <3>3. ASSUME NEW k \in 1..Len(r), LiveOpen(r[k]) PROVE k = j
      <4>1. f[k] \in 1..Len(q) /\ r[k] = q[f[k]] BY <1>a, <3>3
      <4>2. f[k] = f[j] BY <3>2, <3>3, <4>1
      <4> QED BY <1>a, <3>3, <4>2
    <3> QED BY <2>1, <3>2, <3>3
  <2> QED BY <1>1, <2>2, <2>3 DEF OneOpen
<1> QED BY <1>3, <1>4

(* The engine takes the first call, whose answer is sent if main waits.       *)
AnsweredWith(ok, gone) ==
    /\ queue' = Tail(queue)
    /\ inbox' = IF Head(queue).live THEN Append(inbox, Answer(Head(queue), ok, gone))
                ELSE inbox
    /\ UNCHANGED <<connecting, opened>>

LEMMA OneTaken ==
  ASSUME TypeInv, OneOpen(queue, inbox, connecting, opened), queue # <<>>,
         NEW ok \in BOOLEAN, NEW gone \in BOOLEAN, AnsweredWith(ok, gone)
  PROVE  OneOpen(queue, inbox, connecting, opened)'
<1>0. queue \in Seq(Calls) /\ inbox \in Seq(Messages) BY KnownIds
<1>1. PICK q \in Seq(Calls), r \in Seq(Calls), c \in Calls :
        /\ q = queue /\ r = queue' /\ c = queue[1] /\ c = Head(queue) /\ 1 \in 1..Len(q)
        /\ \A i \in 1..Len(r) : i + 1 \in 1..Len(q) /\ r[i] = q[i + 1]
  <2>1. PICK r : r = Tail(queue) OBVIOUS
  <2>2. /\ r \in Seq(Calls) /\ 1 \in 1..Len(queue) /\ queue[1] = Head(queue)
        /\ Head(queue) \in Calls
        /\ \A i \in 1..Len(r) : i + 1 \in 1..Len(queue) /\ r[i] = queue[i + 1]
    BY <1>0, <2>1, Popped
  <2>3. r = queue' BY <2>1 DEF AnsweredWith
  <2> QED BY <1>0, <2>2, <2>3
<1>2. connecting' = connecting /\ opened' = opened BY DEF AnsweredWith
<1>3. CASE c.live
  <2>1. PICK m : m = Answer(c, ok, gone) OBVIOUS
  <2>2. m \in Messages /\ m.kind = c.kind /\ m.name = c.name
    BY <2>1 DEF Answer, Messages, Calls
  <2>3. inbox' = Append(inbox, m) BY <1>1, <1>3, <2>1 DEF AnsweredWith
  <2> DEFINE f == [j \in 1..Len(r) |-> j + 1]
  <2>4. Moves(q, r, 1, f) BY <1>1, <1>3 DEF Moves
  <2> HIDE DEF f
  <2>5. OneOpen(r, Append(inbox, m), connecting, opened)
    <3>1. q[1] = c /\ OneOpen(q, inbox, connecting, opened) BY <1>1
    <3> QED BY <1>0, <1>1, <1>3, <2>2, <2>4, <3>1, OneMoved
  <2> QED BY <1>1, <1>2, <2>3, <2>5
<1>4. CASE ~c.live
  <2>1. inbox' = inbox BY <1>1, <1>4 DEF AnsweredWith
  <2>2. OneOpen(r, inbox, connecting, opened)
    <3>1. OneCall(r, inbox, connecting, opened)
      <4> SUFFICES ASSUME NEW i \in 1..Len(r), LiveOpen(r[i])
                   PROVE  /\ connecting /\ NotShown(r[i].name, opened)
                          /\ \A j \in 1..Len(r) : LiveOpen(r[j]) => j = i
                          /\ \A p \in 1..Len(inbox) : inbox[p].kind # "open"
        BY DEF OneCall
      <4>1. i + 1 \in 1..Len(q) /\ r[i] = q[i + 1] BY <1>1
      <4>2. /\ connecting /\ NotShown(r[i].name, opened)
            /\ (\A j \in 1..Len(q) : LiveOpen(q[j]) => j = i + 1)
            /\ \A p \in 1..Len(inbox) : inbox[p].kind # "open"
        BY <1>1, <4>1 DEF OneOpen, OneCall
      <4>3. \A j \in 1..Len(r) : LiveOpen(r[j]) => j + 1 = i + 1 BY <1>1, <4>2
      <4> QED BY <4>2, <4>3
    <3> QED BY <3>1 DEF OneOpen
  <2> QED BY <1>1, <1>2, <2>1, <2>2
<1> QED BY <1>3, <1>4

(* The names shown then, P, are names of O; h says where they were. *)
NamesFrom(O, P, h) ==
    /\ \A i \in 1..Len(P) : h[i] \in 1..Len(O) /\ P[i].name = O[h[i]].name
    /\ \A i, k \in 1..Len(P) : h[i] = h[k] => i = k

LEMMA OneDelivered ==
  ASSUME NEW s \in Seq(Messages), s # <<>>, NEW t, t = Tail(s), NEW q, NEW w, NEW O,
         OneOpen(q, s, w, O), NEW P, NEW h, NamesFrom(O, P, h)
  PROVE  OneOpen(q, t, w, P)
<1>1. \A p \in 1..Len(t) : p + 1 \in 1..Len(s) /\ t[p] = s[p + 1] BY Popped
<1>2. \A name : NotShown(name, O) => NotShown(name, P) BY DEF NotShown, NamesFrom
<1>3. OneName(P) BY SMTT(30) DEF OneOpen, OneName, NamesFrom
<1>4. OneCall(q, t, w, P) BY <1>1, <1>2 DEF OneOpen, OneCall
<1>5. OneAnswer(t, w, P)
  <2> SUFFICES ASSUME NEW p \in 1..Len(t), t[p].kind = "open"
               PROVE  /\ w /\ NotShown(t[p].name, P)
                      /\ \A r \in 1..Len(t) : t[r].kind = "open" => r = p
    BY DEF OneAnswer
  <2>1. p + 1 \in 1..Len(s) /\ t[p] = s[p + 1] BY <1>1
  <2>2. /\ w /\ NotShown(t[p].name, O)
        /\ \A r \in 1..Len(s) : s[r].kind = "open" => r = p + 1
    BY <2>1 DEF OneOpen, OneAnswer
  <2>3. \A r \in 1..Len(t) : t[r].kind = "open" => r + 1 = p + 1 BY <1>1, <2>2
  <2> QED BY <1>2, <2>2, <2>3
<1> QED BY <1>3, <1>4, <1>5 DEF OneOpen

LEMMA OneQuiet ==
  ASSUME TypeInv, OneOpen(queue, inbox, connecting, opened), QuietStep
  PROVE  OneOpen(queue, inbox, connecting, opened)'
<1>0. queue \in Seq(Calls) /\ inbox \in Seq(Messages) /\ opened \in Seq(OpenedBus)
  BY KnownIds DEF TypeInv, WindowType
<1>1. CASE User
  <2>1. opened' = opened BY <1>1, UserSteps
  <2>2. CASE UNCHANGED <<queue, inbox, connecting, calls>> BY <2>1, <2>2
  <2>3. ASSUME NEW c \in Calls, Made(c), Request(c, inbox)
        PROVE  OneOpen(queue, inbox, connecting, opened)'
    <3>1. \/ queue' = Append(queue, c) /\ inbox' = inbox
          \/ queue' = queue /\ inbox' = Append(inbox, Fails(c))
      <4>1. c.name \in Names \cup {NoName} BY DEF Calls
      <4> QED BY <1>0, <2>3, <4>1, Requested
    <3>2. PICK m : m = Fails(c) OBVIOUS
    <3>3. m \in Messages /\ m.kind = c.kind /\ m.name = c.name
      BY <3>2 DEF Fails, Answer, Messages, Calls
    <3>4. CASE c.kind # "open"
      <4>1. connecting' = connecting BY <2>3, <3>4 DEF Made
      <4>2. OneOpen(Append(queue, c), inbox, connecting, opened)
            /\ OneOpen(queue, Append(inbox, m), connecting, opened)
        BY <1>0, <3>3, <3>4, OnePlain
      <4> QED BY <2>1, <3>1, <3>2, <4>1, <4>2
    <3>5. CASE c.kind = "open"
      <4>1. ~connecting /\ connecting' /\ c.name \notin NamesShown
        BY <2>3, <3>5 DEF Made
      <4>2. NotShown(c.name, opened) BY <1>0, <4>1 DEF NamesShown, NotShown
      <4>3. /\ \A i \in 1..Len(queue) : ~LiveOpen(queue[i])
            /\ \A p \in 1..Len(inbox) : inbox[p].kind # "open"
        BY <4>1 DEF OneOpen, OneCall, OneAnswer
      <4>4. CASE queue' = Append(queue, c) /\ inbox' = inbox
        <5>1. PICK r : r = Append(queue, c) OBVIOUS
        <5>2. \A i \in 1..Len(r) :
                 (i \in 1..Len(queue) /\ r[i] = queue[i]) \/ (i = Len(queue) + 1 /\ r[i] = c)
          BY <1>0, <5>1, Pushed
        <5>3. OneCall(r, inbox, connecting', opened) BY <4>1, <4>2, <4>3, <5>2 DEF OneCall
        <5>4. OneAnswer(inbox, connecting', opened) BY <4>3 DEF OneAnswer
        <5> QED BY <2>1, <4>4, <5>1, <5>3, <5>4 DEF OneOpen
      <4>5. CASE queue' = queue /\ inbox' = Append(inbox, m)
        <5>1. PICK t : t = Append(inbox, m) OBVIOUS
        <5>2. \A p \in 1..Len(t) :
                 (p \in 1..Len(inbox) /\ t[p] = inbox[p]) \/ (p = Len(inbox) + 1 /\ t[p] = m)
          BY <1>0, <3>3, <5>1, Pushed
        <5>3. OneAnswer(t, connecting', opened) BY <3>3, <4>1, <4>2, <4>3, <5>2 DEF OneAnswer
        <5>4. OneCall(queue, t, connecting', opened) BY <4>3 DEF OneCall
        <5> QED BY <2>1, <4>5, <5>1, <5>3, <5>4 DEF OneOpen
      <4> QED BY <3>1, <3>2, <4>4, <4>5
    <3> QED BY <3>4, <3>5
  <2> QED BY <1>1, <2>2, <2>3, UserSteps
<1>2. CASE Timeout
  <2>1. PICK i \in DOMAIN queue :
          /\ queue[i].live /\ queue' = [queue EXCEPT ![i].live = FALSE]
          /\ inbox' = Append(inbox, Fails(queue[i]))
    BY <1>2 DEF Timeout
  <2>2. i \in 1..Len(queue) /\ queue[i] \in Calls BY <1>0
  <2>3. PICK m : m = Fails(queue[i]) OBVIOUS
  <2>4. m \in Messages /\ m.kind = queue[i].kind /\ m.name = queue[i].name
    BY <2>2, <2>3 DEF Fails, Answer, Messages, Calls
  <2>5. PICK d : d = [queue[i] EXCEPT !.live = FALSE] OBVIOUS
  <2>6. d \in Calls /\ d.live = FALSE BY <2>2, <2>5 DEF Calls
  <2>7. PICK r : r = queue' /\ r = [queue EXCEPT ![i] = d] BY <2>1, <2>5
  <2>8. Len(r) = Len(queue)
        /\ \A j \in 1..Len(queue) : r[j] = IF j = i THEN d ELSE queue[j]
    BY <1>0, <2>2, <2>6, <2>7, Updated
  <2> DEFINE f == [j \in 1..Len(r) |-> j]
  <2>9. Moves(queue, r, i, f) BY <2>1, <2>2, <2>6, <2>8 DEF Moves, LiveOpen
  <2> HIDE DEF f
  <2>10. OneOpen(r, Append(inbox, m), connecting, opened)
    BY <1>0, <2>4, <2>9, OneMoved
  <2>11. connecting' = connecting /\ opened' = opened BY <1>2 DEF Timeout, windowVars
  <2> QED BY <2>1, <2>3, <2>7, <2>10, <2>11
<1>3. CASE Respawn
  <2>1. /\ inbox' = Append(inbox, Status(TRUE)) /\ queue' = queue
        /\ connecting' = connecting /\ opened' = opened
    BY <1>3 DEF Respawn, windowVars
  <2>2. PICK m : m = Status(TRUE) OBVIOUS
  <2>3. m \in Messages /\ m.kind # "open" BY <2>2, RendererBounds DEF Status, Messages
  <2>4. OneOpen(queue, Append(inbox, m), connecting, opened) BY <1>0, <2>3, OnePlain
  <2> QED BY <2>1, <2>2, <2>4
<1>4. CASE HandleList \/ HandleFails
  <2>1. PICK ok \in BOOLEAN : Taken(ok, FALSE) /\ queue # <<>>
    <3>1. CASE HandleList BY <3>1, Zenon DEF HandleList, NextCall
    <3>2. CASE HandleFails BY <3>2, Zenon DEF HandleFails
    <3> QED BY <1>4, <3>1, <3>2
  <2>2. FALSE \in BOOLEAN OBVIOUS
  <2>3. AnsweredWith(ok, FALSE) BY <2>1 DEF Taken, AnsweredWith, windowVars
  <2> QED BY <2>1, <2>2, <2>3, OneTaken, Zenon
<1> QED BY <1>1, <1>2, <1>3, <1>4 DEF QuietStep

LEMMA OneCrash ==
  ASSUME TypeInv, OneOpen(queue, inbox, connecting, opened), Crash
  PROVE  OneOpen(queue, inbox, connecting, opened)'
<1>0. queue \in Seq(Calls) /\ inbox \in Seq(Messages) BY KnownIds
<1>1. queue' = <<>> /\ connecting' = connecting /\ opened' = opened BY CrashFalls
<1>2. PICK a \in Nat : a = Len(inbox) BY <1>0
<1>3. PICK n \in Nat : \E h \in [1..n -> {i \in 1..Len(queue) : queue[i].live}] :
              /\ \A k, l \in 1..n : h[k] = h[l] => k = l
              /\ Len(inbox') = Len(inbox) + 1 + n
              /\ \A p \in 1..Len(inbox) : p \in 1..Len(inbox') /\ inbox'[p] = inbox[p]
              /\ inbox'[Len(inbox) + 1] = Status(FALSE)
              /\ \A p \in 1..Len(inbox') :
                   \/ p \in 1..Len(inbox)
                   \/ p = Len(inbox) + 1
                   \/ \E k \in 1..n : p = Len(inbox) + 1 + k /\ inbox'[p] = Fails(queue[h[k]])
  BY CrashedInbox, Zenon
<1>b. PICK h \in [1..n -> {i \in 1..Len(queue) : queue[i].live}] :
              /\ \A k, l \in 1..n : h[k] = h[l] => k = l
              /\ Len(inbox') = Len(inbox) + 1 + n
              /\ \A p \in 1..Len(inbox) : p \in 1..Len(inbox') /\ inbox'[p] = inbox[p]
              /\ inbox'[Len(inbox) + 1] = Status(FALSE)
              /\ \A p \in 1..Len(inbox') :
                   \/ p \in 1..Len(inbox)
                   \/ p = Len(inbox) + 1
                   \/ \E k \in 1..n : p = Len(inbox) + 1 + k /\ inbox'[p] = Fails(queue[h[k]])
  BY <1>3, Zenon
<1>c. PICK t : t = inbox' OBVIOUS
<1>4. /\ \A k, l \in 1..n : h[k] = h[l] => k = l
      /\ \A p \in 1..a : t[p] = inbox[p]
      /\ t[a + 1] = Status(FALSE)
      /\ \A p \in 1..Len(t) : \/ p \in 1..a \/ p = a + 1
                              \/ \E k \in 1..n : p = a + 1 + k /\ t[p] = Fails(queue[h[k]])
  BY <1>2, <1>b, <1>c
<1>5. \A k \in 1..n : h[k] \in 1..Len(queue) /\ queue[h[k]].live OBVIOUS
<1>6. Status(FALSE).kind # "open" BY DEF Status
<1>7. \A c : Fails(c).kind = c.kind /\ Fails(c).name = c.name BY DEF Fails, Answer
<1>8. ASSUME NEW p \in 1..Len(t), t[p].kind = "open"
      PROVE  \/ p \in 1..a /\ t[p] = inbox[p]
             \/ \E k \in 1..n : p = a + 1 + k /\ t[p] = Fails(queue[h[k]]) /\ LiveOpen(queue[h[k]])
  <2>1. CASE p \in 1..a BY <1>4, <2>1
  <2>2. CASE p = a + 1 BY <1>4, <1>6, <1>8, <2>2
  <2>3. ASSUME NEW k \in 1..n, p = a + 1 + k, t[p] = Fails(queue[h[k]])
        PROVE  LiveOpen(queue[h[k]])
    BY <1>5, <1>7, <1>8, <2>3 DEF LiveOpen
  <2> QED BY <1>4, <2>1, <2>2, <2>3
<1>9. OneAnswer(t, connecting, opened)
  <2> SUFFICES ASSUME NEW p \in 1..Len(t), t[p].kind = "open"
               PROVE  /\ connecting /\ NotShown(t[p].name, opened)
                      /\ \A r \in 1..Len(t) : t[r].kind = "open" => r = p
    BY DEF OneAnswer
  <2>1. CASE p \in 1..a /\ t[p] = inbox[p]
    <3>1. /\ connecting /\ NotShown(t[p].name, opened)
          /\ \A r \in 1..a : inbox[r].kind = "open" => r = p
      BY <1>2, <2>1 DEF OneOpen, OneAnswer
    <3>2. \A i \in 1..Len(queue) : ~LiveOpen(queue[i]) BY <1>2, <2>1 DEF OneOpen, OneCall
    <3>3. ASSUME NEW r \in 1..Len(t), t[r].kind = "open" PROVE r = p
      <4>1. r \in 1..a /\ t[r] = inbox[r] BY <1>5, <1>8, <3>2, <3>3
      <4> QED BY <3>1, <3>3, <4>1
    <3> QED BY <3>1, <3>3
  <2>2. ASSUME NEW k \in 1..n, p = a + 1 + k, t[p] = Fails(queue[h[k]]), LiveOpen(queue[h[k]])
        PROVE  /\ connecting /\ NotShown(t[p].name, opened)
               /\ \A r \in 1..Len(t) : t[r].kind = "open" => r = p
    <3>1. /\ connecting /\ NotShown(queue[h[k]].name, opened)
          /\ (\A i \in 1..Len(queue) : LiveOpen(queue[i]) => i = h[k])
          /\ \A r \in 1..a : inbox[r].kind # "open"
      BY <1>2, <1>5, <2>2 DEF OneOpen, OneCall
    <3>2. ASSUME NEW r \in 1..Len(t), t[r].kind = "open" PROVE r = p
      <4>1. PICK l \in 1..n : r = a + 1 + l /\ LiveOpen(queue[h[l]])
        BY <1>8, <3>1, <3>2
      <4>2. h[l] = h[k] BY <1>5, <3>1, <4>1
      <4>3. l = k BY <1>4, <4>2
      <4> QED BY <2>2, <4>1, <4>3
    <3> QED BY <1>7, <2>2, <3>1, <3>2
  <2> QED BY <1>8, <2>1, <2>2
<1>10. 1..Len(<<>>) = {} OBVIOUS
<1>11. OneCall(<<>>, t, connecting, opened) BY <1>10 DEF OneCall
<1> QED BY <1>1, <1>c, <1>9, <1>11 DEF OneOpen

LEMMA EndTaken ==
  ASSUME FullClose \/ HandleStop
  PROVE  queue # <<>> /\ (Taken(TRUE, FALSE) \/ Taken(FALSE, TRUE))
<1>1. queue # <<>> /\ \E known : (known = TRUE \/ known = FALSE) /\ Taken(known, ~known)
  <2>1. CASE FullClose
    <3>1. /\ queue # <<>>
          /\ Taken(Head(queue).target \in DOMAIN buses, ~(Head(queue).target \in DOMAIN buses))
      BY <2>1 DEF FullClose, HandleClose, NextCall, Taken
    <3> DEFINE known == Head(queue).target \in DOMAIN buses
    <3>2. known = TRUE \/ known = FALSE OBVIOUS
    <3> HIDE DEF known
    <3>3. Taken(known, ~known) BY <3>1 DEF known
    <3> QED BY <3>1, <3>2, <3>3, Zenon
  <2>2. CASE HandleStop
    <3>1. /\ queue # <<>>
          /\ Taken(Head(queue).target \in DOMAIN jobs, ~(Head(queue).target \in DOMAIN jobs))
      BY <2>2 DEF HandleStop, NextCall, Taken
    <3> DEFINE known == Head(queue).target \in DOMAIN jobs
    <3>2. known = TRUE \/ known = FALSE OBVIOUS
    <3> HIDE DEF known
    <3>3. Taken(known, ~known) BY <3>1 DEF known
    <3> QED BY <3>1, <3>2, <3>3, Zenon
  <2> QED BY <2>1, <2>2
<1>2. PICK known : (known = TRUE \/ known = FALSE) /\ Taken(known, ~known) BY <1>1, Zenon
<1>3. (known = TRUE /\ ~known = FALSE) \/ (known = FALSE /\ ~known = TRUE) BY <1>2
<1> QED BY <1>1, <1>2, <1>3, Zenon

LEMMA OneOpenStep ==
  ASSUME TypeInv, Blank, OneOpen(queue, inbox, connecting, opened), Next
  PROVE  OneOpen(queue, inbox, connecting, opened)'
<1>0. queue \in Seq(Calls) /\ inbox \in Seq(Messages) /\ opened \in Seq(OpenedBus)
  BY KnownIds DEF TypeInv, WindowType
<1>1. CASE QuietStep BY <1>1, OneQuiet
<1>2. CASE HandleOpen \/ FullLoad \/ HandleStart \/ FullClose \/ HandleStop \/ Half
  <2>1. \A ok, gone : Taken(ok, gone) => AnsweredWith(ok, gone)
    BY DEF Taken, AnsweredWith, windowVars
  <2>a. TRUE \in BOOLEAN /\ FALSE \in BOOLEAN OBVIOUS
  <2>2. PICK ok \in BOOLEAN, gone \in BOOLEAN : AnsweredWith(ok, gone) /\ queue # <<>>
    <3>1. CASE HandleOpen BY <2>1, <2>a, <3>1, Zenon DEF HandleOpen, NextCall
    <3>2. CASE FullLoad BY <2>1, <2>a, <3>2, Zenon DEF FullLoad, HandleLoad, NextCall
    <3>3. CASE HandleStart BY <2>1, <2>a, <3>3, Zenon DEF HandleStart, NextCall
    <3>4. CASE FullClose \/ HandleStop
      <4>1. queue # <<>> /\ (Taken(TRUE, FALSE) \/ Taken(FALSE, TRUE)) BY <3>4, EndTaken
      <4> QED BY <2>1, <2>a, <4>1, Zenon
    <3>5. CASE Half
      <4>1. HalfDone BY <3>5 DEF Half, HalfLoad, HalfClose
      <4>2. AnsweredWith(FALSE, FALSE) BY <4>1 DEF HalfDone, AnsweredWith, Fails, windowVars
      <4>3. queue # <<>> BY <3>5, HalfSteps
      <4> QED BY <2>a, <4>2, <4>3, Zenon
    <3> QED BY <1>2, <3>1, <3>2, <3>3, <3>4, <3>5
  <2> QED BY <2>2, OneTaken, Zenon
<1>3. CASE Crash BY <1>3, OneCrash
<1>4. PICK m, s, w : m = Head(inbox) /\ s = Tail(inbox) /\ w = connecting OBVIOUS
<1>5. ASSUME inbox # <<>>, connecting' = connecting, NEW P, NEW h, NamesFrom(opened, P, h)
      PROVE  OneOpen(queue, s, connecting', P)
  BY <1>0, <1>4, <1>5, OneDelivered
<1> DEFINE Same == [i \in 1..Len(opened) |-> i]
<1>6. \A P : Len(P) = Len(opened) /\ (\A i \in 1..Len(opened) : P[i].name = opened[i].name) =>
         NamesFrom(opened, P, Same)
  BY DEF NamesFrom
<1>7. ASSUME inbox # <<>>, connecting' = connecting, NEW P, Len(P) = Len(opened),
             \A i \in 1..Len(opened) : P[i].name = opened[i].name
      PROVE  OneOpen(queue, s, connecting', P)
  <2> HIDE DEF Same
  <2> QED BY <1>5, <1>6, <1>7
<1>8. CASE Connected
  <2>1. /\ inbox # <<>> /\ connecting' = connecting /\ opened' = opened
    BY <1>8, ConnectedSteps
  <2>2. OneOpen(queue, s, connecting', opened) BY <1>7, <2>1
  <2> DEFINE d == [kind |-> "list", id |-> 0, target |-> 0, name |-> selected, live |-> TRUE]
  <2>3. Request(d, s) BY <1>4, <1>8 DEF Connected
  <2>4. d \in Calls /\ d.name \in Names \cup {NoName} /\ d.kind = "list"
    BY RendererBounds DEF Calls, Kinds, TypeInv, WindowType
  <2>5. s \in Seq(Messages) BY <1>0, <1>4, <2>1
  <2> HIDE DEF d
  <2>6. (queue' = Append(queue, d) /\ inbox' = s) \/ (queue' = queue /\ inbox' = Append(s, Fails(d)))
    BY <1>0, <2>3, <2>4, <2>5, Requested
  <2>7. PICK f : f = Fails(d) OBVIOUS
  <2>8. f \in Messages /\ f.kind = "list" BY <2>4, <2>7 DEF Fails, Answer, Messages, Calls
  <2>9. "list" # "open" OBVIOUS
  <2>10. /\ OneOpen(Append(queue, d), s, connecting', opened)
         /\ OneOpen(queue, Append(s, f), connecting', opened)
    BY <1>0, <2>2, <2>4, <2>5, <2>8, <2>9, OnePlain
  <2> QED BY <2>1, <2>6, <2>7, <2>10
<1>9. ASSUME Delivered PROVE inbox # <<>> /\ inbox' = s /\ queue' = queue
  BY <1>4, <1>9, DeliveredSteps
<1>10. CASE Disconnected
  <2>1. Delivered /\ connecting' = connecting BY <1>10, DisconnectedWindow DEF Delivered
  <2>2. Len(opened') = 0
    <3>1. CASE info BY <1>10, <3>1, DisconnectedWindow
    <3>2. CASE ~info BY <1>10, <3>2, DisconnectedWindow DEF Blank
    <3> QED BY <3>1, <3>2
  <2>3. PICK P : P = opened' OBVIOUS
  <2>4. NamesFrom(opened, P, P) BY <2>2, <2>3 DEF NamesFrom
  <2>5. OneOpen(queue, s, connecting', P) BY <1>5, <1>9, <2>1, <2>4
  <2> QED BY <1>9, <2>1, <2>3, <2>5
<1>11. CASE ListAnswered \/ LoadAnswered \/ StartAnswered \/ StopAnswered
  <2>1. Delivered BY <1>11 DEF Delivered
  <2>2. connecting' = connecting /\ Len(opened') = Len(opened)
        /\ \A i \in 1..Len(opened) : opened'[i].name = opened[i].name
    <3>1. CASE ListAnswered BY <3>1 DEF ListAnswered
    <3>2. CASE LoadAnswered
      <4>1. CASE Head(inbox).ok BY <3>2, <4>1, LoadedWindow
      <4>2. CASE ~Head(inbox).ok BY <3>2, <4>2, LoadedWindow
      <4> QED BY <4>1, <4>2
    <3>3. CASE StartAnswered BY <3>3, StartedWindow
    <3>4. CASE StopAnswered BY <3>4, StoppedWindow
    <3> QED BY <1>11, <3>1, <3>2, <3>3, <3>4
  <2>3. PICK P : P = opened' OBVIOUS
  <2>4. OneOpen(queue, s, connecting', P) BY <1>7, <1>9, <2>1, <2>2, <2>3
  <2> QED BY <1>9, <2>1, <2>3, <2>4
<1>12. CASE CloseAnswered
  <2>1. Delivered BY <1>12 DEF Delivered
  <2>2. connecting' = connecting BY <1>12, ClosedWindow
  <2>3. CASE m.ok
    <3>1. PICK h \in [1..Len(opened') -> 1..Len(opened)] : \A k \in 1..Len(opened') :
             /\ opened'[k] = opened[h[k]] /\ \A l \in 1..Len(opened') : h[k] = h[l] => k = l
      BY <1>4, <1>12, <2>3, ClosedWindow
    <3>2. PICK P : P = opened' OBVIOUS
    <3>3. NamesFrom(opened, P, h) BY <3>1, <3>2 DEF NamesFrom
    <3>4. OneOpen(queue, s, connecting', P) BY <1>5, <1>9, <2>1, <2>2, <3>3
    <3> QED BY <1>9, <2>1, <3>2, <3>4
  <2>4. CASE ~m.ok
    <3>1. opened' = opened BY <1>4, <1>12, <2>4, ClosedWindow
    <3>2. OneOpen(queue, s, connecting', opened) BY <1>7, <1>9, <2>1, <2>2
    <3> QED BY <1>9, <2>1, <3>1, <3>2
  <2> QED BY <2>3, <2>4
<1>13. CASE OpenAnswered
  <2>1. Delivered BY <1>13 DEF Delivered
  <2>2. m.kind = "open" BY <1>4, <1>13 DEF OpenAnswered, Receive
  <2>3. /\ 1 \in 1..Len(inbox) /\ inbox[1] = m
        /\ \A p \in 1..Len(s) : p + 1 \in 1..Len(inbox) /\ s[p] = inbox[p + 1] /\ p + 1 # 1
    BY <1>0, <1>4, <1>9, <2>1, TailNews
  <2>4. /\ NotShown(m.name, opened)
        /\ (\A r \in 1..Len(inbox) : inbox[r].kind = "open" => r = 1)
        /\ \A i \in 1..Len(queue) : ~LiveOpen(queue[i])
    BY <2>2, <2>3 DEF OneOpen, OneCall, OneAnswer
  <2>5. \A p \in 1..Len(s) : s[p].kind # "open" BY <2>3, <2>4
  <2>6. PICK P : P = opened' OBVIOUS
  <2>7. OneName(P)
    <3>1. CASE m.ok
      <4>1. /\ \A i \in 1..Len(opened) : P[i] = opened[i]
            /\ \A i \in 1..Len(P) : i \in 1..Len(opened) \/ i = Len(opened) + 1
            /\ P[Len(opened) + 1].name = m.name
        BY <1>4, <1>13, <2>6, <3>1, OpenedWindow
      <4> QED BY <2>4, <4>1 DEF OneOpen, OneName, NotShown
    <3>2. CASE ~m.ok
      <4>1. P = opened BY <1>4, <1>13, <2>6, <3>2, OpenedWindow
      <4> QED BY <4>1 DEF OneOpen
    <3> QED BY <3>1, <3>2
  <2>8. OneOpen(queue, s, connecting', P) BY <2>4, <2>5, <2>7 DEF OneOpen, OneCall, OneAnswer
  <2> QED BY <1>9, <2>1, <2>6, <2>8
<1> QED BY <1>1, <1>2, <1>3, <1>8, <1>10, <1>11, <1>12, <1>13, NextSteps DEF Delivered
-----------------------------------------------------------------------------
(* The parts that keep one another, and what follows of the header. *)

HeaderInv ==
    /\ Distinct(queue, inbox) /\ Connection /\ Blank
    /\ FreshBuses(OnWay(queue, inbox), opened) /\ FreshJobs(OnWay(queue, inbox), rows)
    /\ FreshIds(queue, buses, jobs) /\ OneOpen(queue, inbox, connecting, opened)
    /\ Mirror(inbox, DOMAIN buses, opened, lost)

LEMMA HeaderInit == Init => HeaderInv
<1> SUFFICES ASSUME Init PROVE HeaderInv
  OBVIOUS
<1>1. /\ up = FALSE /\ DOMAIN buses = {} /\ DOMAIN jobs = {} /\ queue = <<>> /\ inbox = <<>>
      /\ info = FALSE /\ opened = <<>>
  BY DEF Init, Nothing
<1>2. /\ \A i \in 1..Len(queue) : FALSE
      /\ \A p \in 1..Len(inbox) : FALSE
      /\ \A i \in 1..Len(opened) : FALSE
      /\ Len(opened) = 0
  BY <1>1
<1>3. \A i \in 1..Len(rows) : rows[i].running = FALSE
  <2>1. \A i \in DOMAIN rows : rows[i].running = FALSE BY DEF Init
  <2>2. DOMAIN rows = 1..Len(rows) BY InitTypes DEF TypeInv, WindowType
  <2> QED BY <2>1, <2>2
<1>4. Distinct(queue, inbox) BY <1>2 DEF Distinct
<1>5. Connection BY <1>1, <1>2 DEF Connection
<1>6. Blank BY <1>2, <1>3 DEF Blank
<1>7. \A x \in OnWay(queue, inbox) : FALSE BY <1>2 DEF OnWay, CallsOf, NewsIn
<1>8. FreshBuses(OnWay(queue, inbox), opened) BY <1>7 DEF FreshBuses
<1>9. FreshJobs(OnWay(queue, inbox), rows) BY <1>7 DEF FreshJobs
<1>10. FreshIds(queue, buses, jobs) BY <1>2 DEF FreshIds
<1>11. OneOpen(queue, inbox, connecting, opened)
  BY <1>2 DEF OneOpen, OneCall, OneAnswer, OneName
<1>12. Mirror(inbox, DOMAIN buses, opened, lost)
  BY <1>1, <1>2 DEF Mirror, ShownOpen, NewsOpen, OpenShown
<1> QED BY <1>4, <1>5, <1>6, <1>8, <1>9, <1>10, <1>11, <1>12 DEF HeaderInv

LEMMA HeaderStep == TypeInv /\ HeaderInv /\ [Next]_vars => HeaderInv'
<1> SUFFICES ASSUME TypeInv, HeaderInv, [Next]_vars PROVE HeaderInv'
  OBVIOUS
<1>1. CASE Next
  BY <1>1, DistinctStep, ConnectionStep, BlankStep, FreshBusesStep, FreshJobsStep,
     FreshIdsStep, OneOpenStep, MirrorStep DEF HeaderInv
<1>2. CASE UNCHANGED vars
  <2>1. UNCHANGED <<up, buses, jobs, queue, inbox, info, opened, connecting, rows, lost>>
    BY <1>2 DEF vars, engineVars, windowVars
  <2> QED BY <2>1 DEF HeaderInv, Connection, Blank
<1> QED BY <1>1, <1>2

LEMMA HeaderKept == Spec => [](TypeInv /\ HeaderInv)
<1>1. TypeInv /\ HeaderInv /\ [Next]_vars => HeaderInv' BY HeaderStep
<1> QED BY <1>1, HeaderInit, TypeInvKept, PTL DEF Spec

(* The messages at the positions of the inbox are its elements. *)
LEMMA InTheInbox ==
  ASSUME TypeInv
  PROVE  /\ DownAfter(inbox, 0) => Falling
         /\ \A kind, target : OkAfter(inbox, 0, kind, target) => Settled(kind, target)
         /\ \A target : EndsAfter(inbox, 0, target) => Settled("stop", target)
         /\ \A kind, id : NewsOf(inbox, kind, id) => Announced(kind, id)
<1>1. \A p \in 1..Len(inbox) : inbox[p] \in ToSet(inbox)
  BY KnownIds DEF ToSet
<1>2. DownAfter(inbox, 0) => Falling BY <1>1 DEF DownAfter, Falling, IsDown
<1>3. \A kind, target : OkAfter(inbox, 0, kind, target) => Settled(kind, target)
  BY <1>1 DEF OkAfter, Settled, Ok
<1>4. \A target : EndsAfter(inbox, 0, target) => Settled("stop", target)
  BY <1>1 DEF EndsAfter, Settled, Ends
<1>5. \A kind, id : NewsOf(inbox, kind, id) => Announced(kind, id)
  BY <1>1 DEF NewsOf, Announced, Ok
<1> QED BY <1>2, <1>3, <1>4, <1>5

(* The header shows the buses the engine has open, once each and under names  *)
(* of their own, but for what is on the way or was lost: a bus whose open or  *)
(* close main gave up on, or whose close ended in close_failed after its      *)
(* registries were emptied (App.tsx: openNamed, closeNamed and the status     *)
(* event; BusManager.close).                                                  *)
THEOREM HeaderMirrorsEngine == Spec => []ShownMirrorsOpen
<1>1. TypeInv /\ HeaderInv => ShownMirrorsOpen
  <2> SUFFICES ASSUME TypeInv, HeaderInv PROVE ShownMirrorsOpen
    OBVIOUS
  <2>1. DOMAIN opened = 1..Len(opened) BY DEF TypeInv, WindowType
  <2>2. ShownIsOpen
    <3>1. \A i \in 1..Len(opened) :
             \/ opened[i].bus \in DOMAIN buses \/ DownAfter(inbox, 0)
             \/ LostTo(lost, "close", opened[i].bus) \/ OkAfter(inbox, 0, "close", opened[i].bus)
      BY DEF HeaderInv, Mirror, ShownOpen
    <3> QED BY <2>1, <3>1, InTheInbox DEF ShownIsOpen, BusesShown, LostTo, Lost
  <2>3. OpenIsShown
    <3>1. \A b \in DOMAIN buses :
             \/ LostOf(lost, "open", b) \/ NewsOf(inbox, "open", b)
             \/ \E i \in 1..Len(opened) : opened[i].bus = b
      BY DEF HeaderInv, Mirror, OpenShown
    <3> QED BY <2>1, <3>1, InTheInbox DEF OpenIsShown, BusesShown, LostOf, LostCall
  <2>4. \A i, j \in DOMAIN opened : opened[i].name = opened[j].name => i = j
    BY <2>1 DEF HeaderInv, OneOpen, OneName
  <2> QED BY <2>2, <2>3, <2>4 DEF ShownMirrorsOpen
<1> QED BY <1>1, HeaderKept, PTL
-----------------------------------------------------------------------------
(* The rows of the table and the cyclic jobs.                                 *)

RowsName(s, J, R) ==
    /\ \A i \in 1..Len(R) : R[i].running /\ R[i].id \in DOMAIN J => R[i].bus = J[R[i].id]
    /\ \A p \in 1..Len(s) : Ok(s[p], "start") /\ s[p].id \in DOMAIN J => s[p].target = J[s[p].id]

RunningLive(s, J, R, L) ==
    \A i \in 1..Len(R) : R[i].running =>
        \/ R[i].id \in DOMAIN J \/ DownAfter(s, 0)
        \/ EndsAfter(s, 0, R[i].id) \/ LostTo(L, "stop", R[i].id)
        \/ LostTo(L, "close", R[i].bus) \/ OkAfter(s, 0, "close", R[i].bus)

NewsLive(s, J, L) ==
    \A p \in 1..Len(s) :
        /\ Ends(s[p]) => s[p].target \notin DOMAIN J
        /\ Ok(s[p], "start") =>
             \/ s[p].id \in DOMAIN J \/ DownAfter(s, p)
             \/ LostTo(L, "close", s[p].target) \/ OkAfter(s, p, "close", s[p].target)

LiveRow(s, J, R, L) ==
    \A j \in DOMAIN J :
        \/ LostOf(L, "start", j) \/ NewsOf(s, "start", j)
        \/ ~DownAfter(s, 0) /\ \E i \in 1..Len(R) : R[i].id = j /\ R[i].running

Table(s, J, R, L) ==
    RowsName(s, J, R) /\ RunningLive(s, J, R, L) /\ NewsLive(s, J, L) /\ LiveRow(s, J, R, L)

(* What an answer adds to what is on the way. *)
AnswerSeen(s, t, L, c, m) ==
    /\ \A p \in Nat : DownAfter(t, p) <=> DownAfter(s, p)
    /\ \A p \in Nat : \A kind, target : OkAfter(s, p, kind, target) => OkAfter(t, p, kind, target)
    /\ \A p \in Nat : \A target : EndsAfter(s, p, target) => EndsAfter(t, p, target)
    /\ \A kind, id : NewsOf(s, kind, id) => NewsOf(t, kind, id)
    /\ \A p \in 1..Len(t) : (p \in 1..Len(s) /\ t[p] = s[p]) \/ (p = Len(s) + 1 /\ t[p] = m)
    /\ m.kind = c.kind /\ m.id = c.id /\ m.target = c.target
    /\ Ok(m, c.kind) =>
         /\ \A p \in 0..Len(s) : OkAfter(t, p, c.kind, c.target) \/ LostTo(L, c.kind, c.target)
         /\ NewsOf(t, c.kind, c.id) \/ LostOf(L, c.kind, c.id)
    /\ Ends(m) =>
         \A p \in 0..Len(s) : EndsAfter(t, p, c.target) \/ LostTo(L, "stop", c.target)

LEMMA AnsweredNews ==
  ASSUME NEW s \in Seq(Messages), NEW t \in Seq(Messages), NEW L,
         NEW c, NEW ok, NEW gone, Answered(s, t, L, c, ok, gone), NEW m, m = Answer(c, ok, gone)
  PROVE  AnswerSeen(s, t, L, c, m)
<1>1. /\ \A p \in Nat : DownAfter(t, p) <=> DownAfter(s, p)
      /\ \A p \in Nat : \A kind, target : OkAfter(s, p, kind, target) => OkAfter(t, p, kind, target)
      /\ \A p \in Nat : \A target : EndsAfter(s, p, target) => EndsAfter(t, p, target)
      /\ \A kind, id : NewsOf(s, kind, id) => NewsOf(t, kind, id)
  BY GrownNews DEF Answered
<1>2. Len(s) \in Nat /\ Len(t) \in Nat OBVIOUS
<1>3. \A p \in 1..Len(t) : (p \in 1..Len(s) /\ t[p] = s[p]) \/ (p = Len(s) + 1 /\ t[p] = m)
  BY <1>2 DEF Answered, Grown
<1>4. m.kind = c.kind /\ m.id = c.id /\ m.target = c.target BY DEF Answer
<1>5. Lose(c).kind = c.kind /\ Lose(c).id = c.id /\ Lose(c).target = c.target BY DEF Lose
<1>6. (Len(s) + 1 \in 1..Len(t) /\ t[Len(s) + 1] = m) \/ Lose(c) \in L BY DEF Answered
<1>7. \A p \in 0..Len(s) : p < Len(s) + 1 BY <1>2
<1>8. ASSUME Ok(m, c.kind)
      PROVE  /\ \A p \in 0..Len(s) : OkAfter(t, p, c.kind, c.target) \/ LostTo(L, c.kind, c.target)
             /\ NewsOf(t, c.kind, c.id) \/ LostOf(L, c.kind, c.id)
  <2>1. CASE Len(s) + 1 \in 1..Len(t) /\ t[Len(s) + 1] = m
    <3>1. ~DownAfter(s, Len(s) + 1) BY <1>2 DEF DownAfter
    <3>2. ~DownAfter(t, Len(s) + 1) BY <1>1, <1>2, <3>1
    <3>3. NewsOf(t, c.kind, c.id) BY <1>4, <1>8, <2>1, <3>2 DEF NewsOf
    <3>4. \A p \in 0..Len(s) : OkAfter(t, p, c.kind, c.target)
      BY <1>4, <1>7, <1>8, <2>1 DEF OkAfter
    <3> QED BY <3>3, <3>4
  <2>2. CASE Lose(c) \in L BY <1>5, <2>2 DEF LostTo, LostOf
  <2> QED BY <1>6, <2>1, <2>2
<1>9. ASSUME Ends(m)
      PROVE  \A p \in 0..Len(s) : EndsAfter(t, p, c.target) \/ LostTo(L, "stop", c.target)
  <2>1. CASE Len(s) + 1 \in 1..Len(t) /\ t[Len(s) + 1] = m
    BY <1>4, <1>7, <1>9, <2>1 DEF EndsAfter
  <2>2. CASE Lose(c) \in L BY <1>4, <1>5, <1>9, <2>2 DEF LostTo, Ends
  <2> QED BY <1>6, <2>1, <2>2
<1> QED BY <1>1, <1>3, <1>4, <1>8, <1>9 DEF AnswerSeen

LEMMA TableQuiet ==
  ASSUME NEW s \in Seq(Messages), NEW t \in Seq(Messages), Quiet(s, t),
         NEW J, NEW R, NEW L, NEW M, L \subseteq M, Table(s, J, R, L)
  PROVE  Table(t, J, R, M)
<1>1. /\ \A p \in Nat : DownAfter(t, p) <=> DownAfter(s, p)
      /\ \A p \in Nat : \A kind, target : OkAfter(s, p, kind, target) => OkAfter(t, p, kind, target)
      /\ \A p \in Nat : \A target : EndsAfter(s, p, target) => EndsAfter(t, p, target)
      /\ \A kind, id : NewsOf(s, kind, id) => NewsOf(t, kind, id)
  BY GrownNews DEF Quiet
<1>2. 0 \in Nat /\ \A p \in 1..Len(s) : p \in Nat OBVIOUS
<1>3. \A p \in 1..Len(t) : Ok(t[p], "start") \/ Ends(t[p]) => p \in 1..Len(s) /\ t[p] = s[p]
  BY QuietNews DEF Kinds
<1>4. \A kind, x : LostTo(L, kind, x) => LostTo(M, kind, x) BY DEF LostTo
<1>5. \A kind, x : LostOf(L, kind, x) => LostOf(M, kind, x) BY DEF LostOf
<1>6. RowsName(t, J, R) BY <1>3 DEF Table, RowsName
<1>7. RunningLive(t, J, R, M) BY <1>1, <1>2, <1>4 DEF Table, RunningLive
<1>8. NewsLive(t, J, M) BY <1>1, <1>2, <1>3, <1>4 DEF Table, NewsLive
<1>9. LiveRow(t, J, R, M) BY <1>1, <1>2, <1>5 DEF Table, LiveRow
<1> QED BY <1>6, <1>7, <1>8, <1>9 DEF Table

LEMMA TableFallen ==
  ASSUME NEW s \in Seq(Messages), NEW t \in Seq(Messages), Fallen(s, t),
         NEW J, NEW R, NEW L, Table(s, J, R, L), NEW K, DOMAIN K = {}
  PROVE  Table(t, K, R, L)
<1>1. 0 \in 0..Len(s) /\ \A p \in 1..Len(s) : p \in 0..Len(s) OBVIOUS
<1>2. DownAfter(t, 0) /\ \A p \in 1..Len(s) : DownAfter(t, p) BY <1>1 DEF Fallen
<1>3. \A p \in 1..Len(t) : Ok(t[p], "start") => p \in 1..Len(s) BY DEF Fallen, Ok, OkAnswer
<1> QED BY <1>2, <1>3 DEF Table, RowsName, RunningLive, NewsLive, LiveRow

(* A call that is no start, close or stop leaves the jobs alone. *)
LEMMA TableOther ==
  ASSUME NEW s \in Seq(Messages), NEW t \in Seq(Messages), NEW J, NEW R, NEW L,
         NEW c, NEW ok, NEW gone, Answered(s, t, L, c, ok, gone),
         c.kind \notin {"start", "stop"}, Table(s, J, R, L)
  PROVE  Table(t, J, R, L)
<1>1. PICK m : m = Answer(c, ok, gone) OBVIOUS
<1>a. AnswerSeen(s, t, L, c, m) BY <1>1, AnsweredNews
<1>2. /\ \A p \in Nat : DownAfter(t, p) <=> DownAfter(s, p)
      /\ \A p \in Nat : \A kind, target : OkAfter(s, p, kind, target) => OkAfter(t, p, kind, target)
      /\ \A p \in Nat : \A target : EndsAfter(s, p, target) => EndsAfter(t, p, target)
      /\ \A kind, id : NewsOf(s, kind, id) => NewsOf(t, kind, id)
      /\ \A p \in 1..Len(t) : (p \in 1..Len(s) /\ t[p] = s[p]) \/ (p = Len(s) + 1 /\ t[p] = m)
      /\ m.kind = c.kind
  BY <1>a DEF AnswerSeen
<1>3. 0 \in Nat /\ \A p \in 1..Len(s) : p \in Nat OBVIOUS
<1>4. \A p \in 1..Len(t) : Ok(t[p], "start") \/ Ends(t[p]) => p \in 1..Len(s) /\ t[p] = s[p]
  BY <1>2 DEF Ok, Ends
<1>5. RowsName(t, J, R) BY <1>4 DEF Table, RowsName
<1>6. RunningLive(t, J, R, L) BY <1>2, <1>3 DEF Table, RunningLive
<1>7. NewsLive(t, J, L) BY <1>2, <1>3, <1>4 DEF Table, NewsLive
<1>8. LiveRow(t, J, R, L) BY <1>2, <1>3 DEF Table, LiveRow
<1> QED BY <1>5, <1>6, <1>7, <1>8 DEF Table

(* Nothing is said of the job j yet. *)
NewJob(s, R, j) ==
    /\ \A p \in 1..Len(s) : Ok(s[p], "start") => s[p].id # j
    /\ \A p \in 1..Len(s) : Ends(s[p]) => s[p].target # j
    /\ \A i \in 1..Len(R) : R[i].id # j

WithJob(J, K, c) ==
    /\ DOMAIN K = DOMAIN J \cup {c.id} /\ K[c.id] = c.target
    /\ \A j \in DOMAIN J : j # c.id => K[j] = J[j]

LEMMA TableStart ==
  ASSUME NEW s \in Seq(Messages), NEW t \in Seq(Messages), NEW J, NEW R, NEW L,
         NEW c, NEW ok, NEW gone, Answered(s, t, L, c, ok, gone), c.kind = "start",
         Ok(Answer(c, ok, gone), "start"), Table(s, J, R, L),
         NEW K, WithJob(J, K, c),
         NewJob(s, R, c.id)
  PROVE  Table(t, K, R, L)
<1>1. PICK m : m = Answer(c, ok, gone) OBVIOUS
<1>a. AnswerSeen(s, t, L, c, m) BY <1>1, AnsweredNews
<1>2. /\ \A p \in Nat : DownAfter(t, p) <=> DownAfter(s, p)
      /\ \A p \in Nat : \A kind, target : OkAfter(s, p, kind, target) => OkAfter(t, p, kind, target)
      /\ \A p \in Nat : \A target : EndsAfter(s, p, target) => EndsAfter(t, p, target)
      /\ \A kind, id : NewsOf(s, kind, id) => NewsOf(t, kind, id)
      /\ \A p \in 1..Len(t) : (p \in 1..Len(s) /\ t[p] = s[p]) \/ (p = Len(s) + 1 /\ t[p] = m)
      /\ m.kind = c.kind /\ m.id = c.id /\ m.target = c.target
      /\ Ok(m, c.kind) => NewsOf(t, c.kind, c.id) \/ LostOf(L, c.kind, c.id)
  BY <1>a DEF AnswerSeen
<1>3. 0 \in Nat /\ \A p \in 1..Len(s) : p \in Nat OBVIOUS
<1>4. Ok(m, "start") /\ ~Ends(m) BY <1>1, <1>2 DEF Ends
<1>5. RowsName(t, K, R) BY <1>2 DEF Table, RowsName, NewJob, WithJob
<1>6. RunningLive(t, K, R, L) BY <1>2, <1>3 DEF Table, RunningLive, NewJob, WithJob
<1>7. NewsLive(t, K, L) BY <1>2, <1>3, <1>4 DEF Table, NewsLive, NewJob, WithJob
<1>8. LiveRow(t, K, R, L) BY <1>2, <1>3, <1>4 DEF Table, LiveRow, NewJob, WithJob
<1> QED BY <1>5, <1>6, <1>7, <1>8 DEF Table

LEMMA TableClose ==
  ASSUME NEW s \in Seq(Messages), NEW t \in Seq(Messages), NEW J, NEW R, NEW L,
         NEW c, NEW ok, NEW gone, Answered(s, t, L, c, ok, gone), c.kind = "close",
         Ok(Answer(c, ok, gone), "close"), Table(s, J, R, L),
         NEW K, DOMAIN K = {j \in DOMAIN J : J[j] # c.target}, \A j \in DOMAIN K : K[j] = J[j]
  PROVE  Table(t, K, R, L)
<1>1. PICK m : m = Answer(c, ok, gone) OBVIOUS
<1>a. AnswerSeen(s, t, L, c, m) BY <1>1, AnsweredNews
<1>2. /\ \A p \in Nat : DownAfter(t, p) <=> DownAfter(s, p)
      /\ \A p \in Nat : \A kind, target : OkAfter(s, p, kind, target) => OkAfter(t, p, kind, target)
      /\ \A p \in Nat : \A target : EndsAfter(s, p, target) => EndsAfter(t, p, target)
      /\ \A kind, id : NewsOf(s, kind, id) => NewsOf(t, kind, id)
      /\ \A p \in 1..Len(t) : (p \in 1..Len(s) /\ t[p] = s[p]) \/ (p = Len(s) + 1 /\ t[p] = m)
      /\ m.kind = c.kind
      /\ Ok(m, c.kind) => \A p \in 0..Len(s) :
            OkAfter(t, p, c.kind, c.target) \/ LostTo(L, c.kind, c.target)
  BY <1>a DEF AnswerSeen
<1>3. 0 \in Nat /\ 0 \in 0..Len(s) /\ \A p \in 1..Len(s) : p \in Nat /\ p \in 0..Len(s)
  OBVIOUS
<1>4. Ok(m, "close") BY <1>1
<1>5. \A p \in 1..Len(t) : Ok(t[p], "start") \/ Ends(t[p]) => p \in 1..Len(s) /\ t[p] = s[p]
  BY <1>2 DEF Ok, Ends
<1>6. RowsName(t, K, R) BY <1>5, SMTT(30) DEF Table, RowsName
<1>7. RunningLive(t, K, R, L)
  <2> SUFFICES ASSUME NEW i \in 1..Len(R), R[i].running, R[i].id \notin DOMAIN K
               PROVE  \/ DownAfter(t, 0)
                      \/ EndsAfter(t, 0, R[i].id) \/ LostTo(L, "stop", R[i].id)
                      \/ LostTo(L, "close", R[i].bus) \/ OkAfter(t, 0, "close", R[i].bus)
    BY DEF RunningLive
  <2>1. CASE R[i].id \in DOMAIN J
    <3>1. J[R[i].id] = c.target /\ R[i].bus = c.target BY <2>1 DEF Table, RowsName
    <3> QED BY <1>2, <1>3, <1>4, <3>1
  <2>2. CASE R[i].id \notin DOMAIN J BY <1>2, <1>3, <2>2 DEF Table, RunningLive
  <2> QED BY <2>1, <2>2
<1>8. NewsLive(t, K, L)
  <2>1. ASSUME NEW p \in 1..Len(s), Ok(s[p], "start"), s[p].id \notin DOMAIN K
        PROVE  \/ DownAfter(t, p)
               \/ LostTo(L, "close", s[p].target) \/ OkAfter(t, p, "close", s[p].target)
    <3>1. CASE s[p].id \in DOMAIN J
      <4>1. s[p].target = c.target BY <2>1, <3>1 DEF Table, RowsName
      <4> QED BY <1>2, <1>3, <1>4, <4>1
    <3>2. CASE s[p].id \notin DOMAIN J BY <1>2, <1>3, <2>1, <3>2 DEF Table, NewsLive
    <3> QED BY <3>1, <3>2
  <2>2. \A p \in 1..Len(s) : Ends(s[p]) => s[p].target \notin DOMAIN K
    BY DEF Table, NewsLive
  <2> QED BY <1>5, <2>1, <2>2 DEF NewsLive
<1>9. LiveRow(t, K, R, L) BY <1>2, <1>3 DEF Table, LiveRow
<1> QED BY <1>6, <1>7, <1>8, <1>9 DEF Table

LEMMA TableStop ==
  ASSUME NEW s \in Seq(Messages), NEW t \in Seq(Messages), NEW J, NEW R, NEW L,
         NEW c, NEW ok, NEW gone, Answered(s, t, L, c, ok, gone), c.kind = "stop",
         Ends(Answer(c, ok, gone)), Table(s, J, R, L),
         NEW K, DOMAIN K = DOMAIN J \ {c.target}, \A j \in DOMAIN K : K[j] = J[j],
         \A p \in 1..Len(s) : Ok(s[p], "start") => s[p].id # c.target
  PROVE  Table(t, K, R, L)
<1>1. PICK m : m = Answer(c, ok, gone) OBVIOUS
<1>a. AnswerSeen(s, t, L, c, m) BY <1>1, AnsweredNews
<1>2. /\ \A p \in Nat : DownAfter(t, p) <=> DownAfter(s, p)
      /\ \A p \in Nat : \A kind, target : OkAfter(s, p, kind, target) => OkAfter(t, p, kind, target)
      /\ \A p \in Nat : \A target : EndsAfter(s, p, target) => EndsAfter(t, p, target)
      /\ \A kind, id : NewsOf(s, kind, id) => NewsOf(t, kind, id)
      /\ \A p \in 1..Len(t) : (p \in 1..Len(s) /\ t[p] = s[p]) \/ (p = Len(s) + 1 /\ t[p] = m)
      /\ m.kind = c.kind /\ m.target = c.target
      /\ Ends(m) => \A p \in 0..Len(s) :
            EndsAfter(t, p, c.target) \/ LostTo(L, "stop", c.target)
  BY <1>a DEF AnswerSeen
<1>3. 0 \in Nat /\ 0 \in 0..Len(s) /\ \A p \in 1..Len(s) : p \in Nat OBVIOUS
<1>4. Ends(m) /\ ~Ok(m, "start") BY <1>1, <1>2 DEF Ok
<1>5. RowsName(t, K, R) BY <1>2, <1>4 DEF Table, RowsName
<1>6. RunningLive(t, K, R, L) BY <1>2, <1>3, <1>4 DEF Table, RunningLive
<1>7. NewsLive(t, K, L) BY <1>2, <1>3, <1>4 DEF Table, NewsLive
<1>8. LiveRow(t, K, R, L) BY <1>2, <1>3 DEF Table, LiveRow
<1> QED BY <1>5, <1>6, <1>7, <1>8 DEF Table

(* The window takes the message m; the rows, R before, are Q then.            *)
RowsAfter(m, R, Q) ==
    /\ \A i \in 1..Len(Q) : Q[i].running =>
         /\ ~IsDown(m) /\ ~(Ends(m) /\ Q[i].id = m.target)
         /\ ~(Ok(m, "close") /\ Q[i].bus = m.target)
         /\ \/ \E k \in 1..Len(R) : R[k].running /\ SameRow(Q[i], R[k])
            \/ Ok(m, "start") /\ Q[i].id = m.id /\ Q[i].bus = m.target
    /\ \A k \in 1..Len(R) : R[k].running =>
         \/ \E i \in 1..Len(Q) : Q[i].running /\ Q[i].id = R[k].id
         \/ IsDown(m) \/ (Ends(m) /\ R[k].id = m.target)
         \/ Ok(m, "close") /\ R[k].bus = m.target
    /\ Ok(m, "start") => \E i \in 1..Len(Q) : Q[i].running /\ Q[i].id = m.id

LEMMA TableDelivered ==
  ASSUME NEW s \in Seq(Messages), s # <<>>, NEW t, t = Tail(s),
         NEW J, NEW R, NEW L, Table(s, J, R, L), NEW Q, RowsAfter(Head(s), R, Q),
         Ok(Head(s), "close") => \A j \in DOMAIN J : J[j] # Head(s).target
  PROVE  Table(t, J, Q, L)
<1>1. PICK m : m = Head(s) OBVIOUS
<1>2. /\ 1 \in 1..Len(s) /\ s[1] = m
      /\ \A p \in 1..Len(t) : p + 1 \in 1..Len(s) /\ t[p] = s[p + 1]
      /\ \A p \in Nat : DownAfter(t, p) <=> DownAfter(s, p + 1)
      /\ \A p \in Nat : \A kind, target :
            OkAfter(t, p, kind, target) <=> OkAfter(s, p + 1, kind, target)
      /\ DownAfter(s, 0) <=> (IsDown(m) \/ DownAfter(t, 0))
      /\ \A kind, target : OkAfter(s, 0, kind, target) <=>
            (Ok(m, kind) /\ m.target = target) \/ OkAfter(t, 0, kind, target)
      /\ \A target : EndsAfter(s, 0, target) <=>
            (Ends(m) /\ m.target = target) \/ EndsAfter(t, 0, target)
      /\ \A kind, id : NewsOf(s, kind, id) =>
            (Ok(m, kind) /\ m.id = id /\ ~DownAfter(t, 0)) \/ NewsOf(t, kind, id)
  BY <1>1, TailNews
<1>3. RowsAfter(m, R, Q) /\ (Ok(m, "close") => \A j \in DOMAIN J : J[j] # m.target) BY <1>1
<1>4. 0 \in Nat /\ 0 + 1 = 1 /\ \A p \in 1..Len(t) : p \in Nat OBVIOUS
<1>5. /\ Ends(m) => m.target \notin DOMAIN J
      /\ Ok(m, "start") =>
           /\ \/ m.id \in DOMAIN J \/ DownAfter(t, 0)
              \/ LostTo(L, "close", m.target) \/ OkAfter(t, 0, "close", m.target)
           /\ m.id \in DOMAIN J => m.target = J[m.id]
  <2>1. (DownAfter(t, 0) <=> DownAfter(s, 1))
        /\ \A kind, target : OkAfter(t, 0, kind, target) <=> OkAfter(s, 1, kind, target)
    BY <1>2, <1>4
  <2> QED BY <1>2, <2>1 DEF Table, NewsLive, RowsName
<1>6. RowsName(t, J, Q)
  <2>1. \A p \in 1..Len(t) : Ok(t[p], "start") /\ t[p].id \in DOMAIN J => t[p].target = J[t[p].id]
    BY <1>2 DEF Table, RowsName
  <2>2. \A i \in 1..Len(Q) : Q[i].running /\ Q[i].id \in DOMAIN J => Q[i].bus = J[Q[i].id]
    <3> SUFFICES ASSUME NEW i \in 1..Len(Q), Q[i].running, Q[i].id \in DOMAIN J
                 PROVE  Q[i].bus = J[Q[i].id]
      OBVIOUS
    <3>1. CASE Ok(m, "start") /\ Q[i].id = m.id /\ Q[i].bus = m.target BY <1>5, <3>1
    <3>2. CASE \E k \in 1..Len(R) : R[k].running /\ SameRow(Q[i], R[k])
      BY <3>2 DEF Table, RowsName, SameRow
    <3> QED BY <1>3, <3>1, <3>2 DEF RowsAfter
  <2> QED BY <2>1, <2>2 DEF RowsName
<1>7. RunningLive(t, J, Q, L)
  <2> SUFFICES ASSUME NEW i \in 1..Len(Q), Q[i].running
               PROVE  \/ Q[i].id \in DOMAIN J \/ DownAfter(t, 0)
                      \/ EndsAfter(t, 0, Q[i].id) \/ LostTo(L, "stop", Q[i].id)
                      \/ LostTo(L, "close", Q[i].bus) \/ OkAfter(t, 0, "close", Q[i].bus)
    BY DEF RunningLive
  <2>1. /\ ~IsDown(m) /\ ~(Ends(m) /\ Q[i].id = m.target)
        /\ ~(Ok(m, "close") /\ Q[i].bus = m.target)
    BY <1>3 DEF RowsAfter
  <2>2. CASE Ok(m, "start") /\ Q[i].id = m.id /\ Q[i].bus = m.target BY <1>5, <2>2
  <2>3. CASE \E k \in 1..Len(R) : R[k].running /\ SameRow(Q[i], R[k])
    BY <1>2, <2>1, <2>3 DEF Table, RunningLive, SameRow
  <2> QED BY <1>3, <2>2, <2>3 DEF RowsAfter
<1>8. NewsLive(t, J, L)
  <2> SUFFICES ASSUME NEW p \in 1..Len(t)
               PROVE  /\ Ends(t[p]) => t[p].target \notin DOMAIN J
                      /\ Ok(t[p], "start") =>
                           \/ t[p].id \in DOMAIN J \/ DownAfter(t, p)
                           \/ LostTo(L, "close", t[p].target)
                           \/ OkAfter(t, p, "close", t[p].target)
    BY DEF NewsLive
  <2>1. p + 1 \in 1..Len(s) /\ t[p] = s[p + 1] /\ p \in Nat BY <1>2
  <2>2. (DownAfter(t, p) <=> DownAfter(s, p + 1))
        /\ \A kind, target : OkAfter(t, p, kind, target) <=> OkAfter(s, p + 1, kind, target)
    BY <1>2, <2>1
  <2> QED BY <2>1, <2>2 DEF Table, NewsLive
<1>9. LiveRow(t, J, Q, L)
  <2> SUFFICES ASSUME NEW j \in DOMAIN J, ~LostOf(L, "start", j), ~NewsOf(t, "start", j)
               PROVE  ~DownAfter(t, 0) /\ \E i \in 1..Len(Q) : Q[i].id = j /\ Q[i].running
    BY DEF LiveRow
  <2>1. CASE NewsOf(s, "start", j) BY <1>2, <1>3, <2>1 DEF RowsAfter
  <2>2. CASE ~DownAfter(s, 0) /\ \E k \in 1..Len(R) : R[k].id = j /\ R[k].running
    <3>1. PICK k \in 1..Len(R) : R[k].id = j /\ R[k].running BY <2>2
    <3>2. R[k].bus = J[j] BY <3>1 DEF Table, RowsName
    <3>3. ~IsDown(m) /\ ~DownAfter(t, 0) BY <1>2, <2>2
    <3>4. ~(Ends(m) /\ R[k].id = m.target) BY <1>5, <3>1
    <3>5. ~(Ok(m, "close") /\ R[k].bus = m.target) BY <1>3, <3>2
    <3> QED BY <1>3, <3>1, <3>3, <3>4, <3>5 DEF RowsAfter
  <2> QED BY <2>1, <2>2 DEF Table, LiveRow
<1> QED BY <1>6, <1>7, <1>8, <1>9 DEF Table

(* What is new when the engine takes the first call, for the jobs. *)
LEMMA JobIsFresh ==
  ASSUME TypeInv, queue # <<>>, FreshJobs(OnWay(queue, inbox), rows), Distinct(queue, inbox)
  PROVE  /\ Head(queue).kind = "start" => NewJob(inbox, rows, Head(queue).id)
         /\ Head(queue).kind = "stop" =>
              \A p \in 1..Len(inbox) : Ok(inbox[p], "start") => inbox[p].id # Head(queue).target
<1>1. PICK W, x : W = OnWay(queue, inbox) /\ x = Lose(Head(queue)) OBVIOUS
<1>2. x.kind = Head(queue).kind /\ x.id = Head(queue).id /\ x.target = Head(queue).target
  BY <1>1 DEF Lose
<1>3. x.kind # "list" => x \in W BY <1>1, <1>2, HeadOnWay
<1>4. x.kind # "list" => \A p \in 1..Len(inbox) : Ok(inbox[p], "start") \/ Ends(inbox[p]) =>
         \E y \in W : y.kind = inbox[p].kind /\ y.id = inbox[p].id /\ y.target = inbox[p].target
  <2> SUFFICES ASSUME x.kind # "list", NEW p \in 1..Len(inbox),
                      Ok(inbox[p], "start") \/ Ends(inbox[p])
               PROVE  \E y \in W : y.kind = inbox[p].kind /\ y.id = inbox[p].id
                                   /\ y.target = inbox[p].target
    OBVIOUS
  <2>1. Lose(inbox[p]) \in W BY <1>1, <1>2, HeadOnWay DEF Ok, Ends, OkAnswer
  <2> QED BY <2>1 DEF Lose
<1>5. x.kind = "start" => \A p \in 1..Len(inbox) : Ok(inbox[p], "start") => inbox[p].id # x.id
  <2>1. queue \in Seq(Calls) /\ queue # <<>> BY KnownIds
  <2>2. 1 \in 1..Len(queue) /\ queue[1] = Head(queue) BY <2>1
  <2> QED BY <1>2, <2>2 DEF Distinct, Ok, OkAnswer
<1> QED BY <1>1, <1>2, <1>3, <1>4, <1>5 DEF FreshJobs, NewJob, Ok, Ends

(* What the rows are after a message. *)
LEMMA RowsAfterDelivered ==
  ASSUME TypeInv, Blank, Delivered, NEW m, m = Head(inbox)
  PROVE  RowsAfter(m, rows, rows')
<1>1. CASE Disconnected
  <2>1. IsDown(m) BY <1>1, DisconnectedWindow
  <2>2. \A i \in 1..Len(rows') : ~rows'[i].running
    <3>1. CASE info BY <1>1, <3>1, DisconnectedWindow
    <3>2. CASE ~info BY <1>1, <3>2, DisconnectedWindow DEF Blank
    <3> QED BY <3>1, <3>2
  <2>3. ~Ok(m, "start") BY <2>1 DEF IsDown, Ok
  <2> QED BY <2>1, <2>2, <2>3 DEF RowsAfter
<1>2. ASSUME rows' = rows, ~IsDown(m), ~Ends(m), ~Ok(m, "close"), ~Ok(m, "start")
      PROVE  RowsAfter(m, rows, rows')
  BY <1>2 DEF RowsAfter, SameRow
<1>3. CASE ListAnswered \/ OpenAnswered \/ LoadAnswered
  <2>1. m.kind \in {"list", "open", "load"}
    BY <1>3 DEF ListAnswered, OpenAnswered, LoadAnswered, Receive
  <2>2. rows' = rows BY <1>3, OpenedWindow, LoadedWindow DEF ListAnswered
  <2> QED BY <1>2, <2>1, <2>2 DEF IsDown, Ends, Ok
<1>4. CASE StartAnswered
  <2>1. m.kind = "start" BY <1>4, StartedWindow
  <2>2. ~IsDown(m) /\ ~Ends(m) /\ ~Ok(m, "close") /\ (Ok(m, "start") <=> m.ok)
    BY <2>1 DEF IsDown, Ends, Ok
  <2>3. CASE ~m.ok BY <1>2, <1>4, <2>2, <2>3, StartedWindow
  <2>4. CASE m.ok
    <3>1. /\ \A i \in 1..Len(rows) : i \in 1..Len(rows') /\ rows'[i] = rows[i]
          /\ \A i \in 1..Len(rows') : i \in 1..Len(rows) \/ i = Len(rows) + 1
          /\ Len(rows) + 1 \in 1..Len(rows')
          /\ rows'[Len(rows) + 1].id = m.id /\ rows'[Len(rows) + 1].bus = m.target
          /\ rows'[Len(rows) + 1].running
      BY <1>4, <2>4, StartedWindow
    <3>2. PICK n : n = Len(rows) + 1 OBVIOUS
    <3>3. /\ n \in 1..Len(rows') /\ rows'[n].id = m.id /\ rows'[n].bus = m.target
          /\ rows'[n].running /\ \A i \in 1..Len(rows') : i \in 1..Len(rows) \/ i = n
      BY <3>1, <3>2
    <3> QED BY <2>2, <2>4, <3>1, <3>3 DEF RowsAfter, SameRow
  <2> QED BY <2>3, <2>4
<1>5. CASE CloseAnswered
  <2>1. m.kind = "close" BY <1>5, ClosedWindow
  <2>2. ~IsDown(m) /\ ~Ends(m) /\ ~Ok(m, "start") /\ (Ok(m, "close") <=> m.ok)
    BY <2>1 DEF IsDown, Ends, Ok
  <2>3. CASE ~m.ok BY <1>2, <1>5, <2>2, <2>3, ClosedWindow
  <2>4. CASE m.ok
    <3>1. /\ Len(rows') = Len(rows)
          /\ \A i \in 1..Len(rows) :
               /\ SameRow(rows'[i], rows[i])
               /\ rows'[i].running <=> rows[i].running /\ rows[i].bus # m.target
      BY <1>5, <2>4, ClosedWindow
    <3> QED BY <2>2, <2>4, <3>1 DEF RowsAfter, SameRow
  <2> QED BY <2>3, <2>4
<1>6. CASE StopAnswered
  <2>1. m.kind = "stop" BY <1>6, StoppedWindow
  <2>2. ~IsDown(m) /\ ~Ok(m, "close") /\ ~Ok(m, "start") BY <2>1 DEF IsDown, Ok
  <2>3. /\ Len(rows') = Len(rows)
        /\ \A i \in 1..Len(rows) :
             /\ SameRow(rows'[i], rows[i])
             /\ rows'[i].running <=> rows[i].running /\ ~(rows[i].id = m.target /\ Ends(m))
    BY <1>6, StoppedWindow
  <2> QED BY <2>2, <2>3 DEF RowsAfter, SameRow
<1> QED BY <1>1, <1>3, <1>4, <1>5, <1>6 DEF Delivered

LEMMA TableStep ==
  ASSUME TypeInv, Distinct(queue, inbox), Blank, FreshJobs(OnWay(queue, inbox), rows),
         FreshBuses(OnWay(queue, inbox), opened),
         NewsOpen(inbox, DOMAIN buses), Table(inbox, jobs, rows, lost), Next
  PROVE  Table(inbox, jobs, rows, lost)'
<1>0. inbox \in Seq(Messages) BY KnownIds
<1>1. CASE QuietStep
  <2>1. /\ inbox' \in Seq(Messages) /\ Quiet(inbox, inbox')
        /\ UNCHANGED <<jobs, rows>> /\ lost \subseteq lost'
    BY <1>1, QuietSteps
  <2> QED BY <1>0, <2>1, TableQuiet
<1>2. PICK c : c = Head(queue) OBVIOUS
<1>3. CASE HandleOpen \/ FullLoad
  <2>1. /\ c.kind \in {"open", "load"} /\ inbox' \in Seq(Messages)
        /\ \E ok, gone : Answered(inbox, inbox', lost, c, ok, gone)
        /\ jobs' = jobs /\ rows' = rows /\ lost' = lost
    <3>1. CASE HandleOpen BY <1>2, <3>1, HandledOpen
    <3>2. CASE FullLoad BY <1>2, <3>2, HandledLoad
    <3> QED BY <1>3, <3>1, <3>2
  <2>2. c.kind \notin {"start", "stop"} BY <2>1
  <2>3. Table(inbox', jobs, rows, lost) BY <1>0, <2>1, <2>2, TableOther
  <2> QED BY <2>1, <2>3
<1>4. CASE HandleStart
  <2>1. PICK ok, gone : ok = TRUE /\ gone = FALSE OBVIOUS
  <2>2. /\ queue # <<>> /\ c.kind = "start" /\ inbox' \in Seq(Messages)
        /\ Answered(inbox, inbox', lost, c, ok, gone)
        /\ rows' = rows /\ lost' = lost /\ DOMAIN jobs' = DOMAIN jobs \cup {c.id}
        /\ jobs'[c.id] = c.target /\ \A j \in DOMAIN jobs : j # c.id => jobs'[j] = jobs[j]
    BY <1>2, <1>4, <2>1, HandledStart
  <2>3. Ok(Answer(c, ok, gone), "start") BY <2>1, <2>2 DEF Ok, Answer
  <2>4. NewJob(inbox, rows, c.id) BY <1>2, <2>2, JobIsFresh
  <2>5. PICK t, K : t = inbox' /\ K = jobs' OBVIOUS
  <2>6. /\ t \in Seq(Messages) /\ Answered(inbox, t, lost, c, ok, gone)
        /\ WithJob(jobs, K, c)
    BY <2>2, <2>5 DEF WithJob
  <2>7. Table(t, K, rows, lost) BY <1>0, <2>2, <2>3, <2>4, <2>6, TableStart
  <2> QED BY <2>2, <2>5, <2>7
<1>5. CASE FullClose
  <2>1. PICK ok, gone : ok = TRUE /\ gone = FALSE OBVIOUS
  <2>2. /\ queue # <<>> /\ c.kind = "close" /\ inbox' \in Seq(Messages)
        /\ \/ c.target \in DOMAIN buses /\ Answered(inbox, inbox', lost, c, ok, gone)
           \/ c.target \notin DOMAIN buses /\ Answered(inbox, inbox', lost, c, gone, ok)
        /\ rows' = rows /\ lost' = lost
        /\ DOMAIN jobs' = {j \in DOMAIN jobs : jobs[j] # c.target}
        /\ \A j \in DOMAIN jobs' : jobs'[j] = jobs[j]
    BY <1>2, <1>5, <2>1, HandledClose
  <2>3. CASE c.target \in DOMAIN buses
    <3>1. Ok(Answer(c, ok, gone), "close") BY <2>1, <2>2 DEF Ok, Answer
    <3>2. Answered(inbox, inbox', lost, c, ok, gone) BY <2>2, <2>3
    <3>3. Table(inbox', jobs', rows, lost) BY <1>0, <2>2, <3>1, <3>2, TableClose
    <3> QED BY <2>2, <3>3
  <2>4. CASE c.target \notin DOMAIN buses
    <3>1. c.kind \notin {"start", "stop"} BY <2>2
    <3>2. Answered(inbox, inbox', lost, c, gone, ok) BY <2>2, <2>4
    <3>3. Table(inbox', jobs, rows, lost) BY <1>0, <2>2, <3>1, <3>2, TableOther
    <3>4. \A j \in DOMAIN jobs : jobs[j] # c.target BY <2>4 DEF TypeInv, EngineType
    <3>5. DOMAIN jobs' = DOMAIN jobs /\ \A j \in DOMAIN jobs' : jobs'[j] = jobs[j]
      BY <2>2, <3>4
    <3>6. Table(inbox', jobs', rows, lost)
      BY <3>3, <3>5 DEF Table, RowsName, RunningLive, NewsLive, LiveRow
    <3> QED BY <2>2, <3>6
  <2> QED BY <2>3, <2>4
<1>6. CASE HandleStop
  <2>1. PICK yes, no : yes = TRUE /\ no = FALSE OBVIOUS
  <2>2. /\ queue # <<>> /\ c.kind = "stop" /\ inbox' \in Seq(Messages)
        /\ \/ Answered(inbox, inbox', lost, c, yes, no)
           \/ Answered(inbox, inbox', lost, c, no, yes)
        /\ rows' = rows /\ lost' = lost /\ DOMAIN jobs' = DOMAIN jobs \ {c.target}
        /\ \A j \in DOMAIN jobs' : jobs'[j] = jobs[j]
    BY <1>2, <1>6, <2>1, HandledStop
  <2>3. PICK ok, gone : /\ Answered(inbox, inbox', lost, c, ok, gone)
                        /\ (ok = yes /\ gone = no) \/ (ok = no /\ gone = yes)
    BY <2>2
  <2>4. Ends(Answer(c, ok, gone)) BY <2>1, <2>2, <2>3 DEF Ends, Answer
  <2>5. \A p \in 1..Len(inbox) : Ok(inbox[p], "start") => inbox[p].id # c.target
    BY <1>2, <2>2, JobIsFresh
  <2>6. Table(inbox', jobs', rows, lost) BY <1>0, <2>2, <2>3, <2>4, <2>5, TableStop
  <2> QED BY <2>2, <2>6
<1>7. CASE Crash
  <2>1. /\ inbox' \in Seq(Messages) /\ Fallen(inbox, inbox') /\ DOMAIN jobs' = {}
        /\ rows' = rows /\ lost' = lost
    BY <1>7, CrashFalls
  <2>2. Table(inbox', jobs', rows, lost) BY <1>0, <2>1, TableFallen
  <2> QED BY <2>1, <2>2
<1>8. PICK m, s : m = Head(inbox) /\ s = Tail(inbox) OBVIOUS
<1>9. CASE Connected
  <2>1. /\ inbox # <<>> /\ m.kind = "status" /\ m.ok /\ inbox' \in Seq(Messages)
        /\ Quiet(s, inbox') /\ UNCHANGED <<jobs, rows, lost>>
    BY <1>8, <1>9, ConnectedSteps
  <2>2. ~IsDown(m) /\ ~Ends(m) /\ ~Ok(m, "start") /\ ~Ok(m, "close")
    BY <2>1 DEF IsDown, Ends, Ok
  <2>3. s \in Seq(Messages) BY <1>0, <1>8, <2>1
  <2>4. RowsAfter(m, rows, rows) BY <2>2 DEF RowsAfter, SameRow
  <2>5. Table(s, jobs, rows, lost) BY <1>0, <1>8, <2>1, <2>2, <2>4, TableDelivered
  <2>6. Table(inbox', jobs, rows, lost) BY <2>1, <2>3, <2>5, TableQuiet
  <2> QED BY <2>1, <2>6
<1>10. CASE Delivered
  <2>1. inbox # <<>> /\ inbox' = s /\ UNCHANGED <<jobs, lost>> BY <1>8, <1>10, DeliveredSteps
  <2>2. PICK Q : Q = rows' /\ RowsAfter(Head(inbox), rows, Q) BY <1>10, RowsAfterDelivered
  <2>3. Ok(Head(inbox), "close") => \A j \in DOMAIN jobs : jobs[j] # Head(inbox).target
    <3>1. 1 \in 1..Len(inbox) /\ inbox[1] = Head(inbox) BY <1>0, <2>1
    <3> QED BY <3>1 DEF NewsOpen, TypeInv, EngineType
  <2>4. Table(s, jobs, Q, lost) BY <1>0, <1>8, <2>1, <2>2, <2>3, TableDelivered
  <2> QED BY <2>1, <2>2, <2>4
<1>11. CASE Half
  <2>1. PICK t, L, K, yes, no : /\ t = inbox' /\ L = lost' /\ K = jobs'
                                /\ yes = TRUE /\ no = FALSE
    OBVIOUS
  <2>2. /\ c.kind \in {"load", "close"} /\ t \in Seq(Messages)
        /\ Quiet(inbox, t) /\ lost \subseteq L /\ Answered(t, t, L, c, yes, no)
        /\ rows' = rows /\ Ok(Answer(c, yes, no), c.kind)
        /\ (c.kind = "load" /\ LoadDone(c)) \/ (c.kind = "close" /\ CloseDone(c))
    BY <1>2, <1>11, <2>1, HalfIsLost
  <2>3. Table(t, jobs, rows, L) BY <1>0, <2>2, TableQuiet
  <2>4. CASE c.kind = "load"
    <3>1. jobs' = jobs BY <2>2, <2>4 DEF LoadDone
    <3> QED BY <2>1, <2>2, <2>3, <3>1
  <2>5. CASE c.kind = "close"
    <3>1. DOMAIN K = {j \in DOMAIN jobs : jobs[j] # c.target} /\ \A j \in DOMAIN K : K[j] = jobs[j]
      BY <2>1, <2>2, <2>5 DEF CloseDone
    <3>2. Ok(Answer(c, yes, no), "close") BY <2>2, <2>5
    <3>3. Table(t, K, rows, L) BY <2>2, <2>3, <2>5, <3>1, <3>2, TableClose
    <3> QED BY <2>1, <2>2, <3>3
  <2> QED BY <2>2, <2>4, <2>5
<1> QED BY <1>1, <1>3, <1>4, <1>5, <1>6, <1>7, <1>9, <1>10, <1>11, NextSteps

(* A row has an id of its own: a definition takes the number of its row, and  *)
(* the id of a new job is on no row.                                          *)
OneRow(R) == \A i, k \in 1..Len(R) : R[i].id = R[k].id => i = k

LEMMA OneRowStep ==
  ASSUME TypeInv, FreshJobs(OnWay(queue, inbox), rows), OneRow(rows), Next
  PROVE  OneRow(rows')
<1>1. CASE rows' = rows BY <1>1
<1>2. CASE Len(rows') = Len(rows) /\ \A i \in 1..Len(rows) : rows'[i].id = rows[i].id
  BY <1>2 DEF OneRow
<1>3. PICK n \in Nat : n = calls BY KnownIds
<1>4. CASE Disconnected
  <2>1. CASE ~info BY <1>1, <1>4, <2>1, DisconnectedWindow
  <2>2. CASE info
    <3>1. /\ Len(rows') = Len(rows)
          /\ \A i \in 1..Len(rows) :
               rows'[i].id = IF rows[i].running THEN -i ELSE rows[i].id
      BY <1>4, <2>2, DisconnectedWindow
    <3>2. \A i \in 1..Len(rows) : rows[i].id = -i \/ rows[i].id \in 1..n
      BY <1>3 DEF TypeInv, WindowType
    <3>3. \A i \in 1..Len(rows) : -i \notin 1..n BY <1>3
    <3>4. \A i, k \in 1..Len(rows) : -i = -k => i = k BY DEF TypeInv, WindowType
    <3> SUFFICES ASSUME NEW i \in 1..Len(rows), NEW k \in 1..Len(rows), rows'[i].id = rows'[k].id
                 PROVE  i = k
      BY <3>1 DEF OneRow
    <3>5. CASE ~rows[i].running /\ ~rows[k].running BY <3>1, <3>5 DEF OneRow
    <3>6. CASE rows[i].running /\ rows[k].running BY <3>1, <3>4, <3>6
    <3>7. CASE rows[i].running /\ ~rows[k].running BY <3>1, <3>2, <3>3, <3>4, <3>7
    <3>8. CASE ~rows[i].running /\ rows[k].running BY <3>1, <3>2, <3>3, <3>4, <3>8
    <3> QED BY <3>5, <3>6, <3>7, <3>8
  <2> QED BY <2>1, <2>2
<1>5. CASE OpenAnswered BY <1>1, <1>5, OpenedWindow
<1>6. CASE LoadAnswered BY <1>1, <1>6, LoadedWindow
<1>7. CASE CloseAnswered
  <2>1. CASE Head(inbox).ok BY <1>2, <1>7, <2>1, ClosedWindow DEF SameRow
  <2>2. CASE ~Head(inbox).ok BY <1>1, <1>7, <2>2, ClosedWindow
  <2> QED BY <2>1, <2>2
<1>8. CASE StopAnswered BY <1>2, <1>8, StoppedWindow DEF SameRow
<1>9. CASE StartAnswered
  <2>1. CASE ~Head(inbox).ok BY <1>1, <1>9, <2>1, StartedWindow
  <2>2. CASE Head(inbox).ok
    <3>1. /\ inbox # <<>> /\ Head(inbox).kind = "start"
          /\ \A i \in 1..Len(rows) : rows'[i] = rows[i]
          /\ \A i \in 1..Len(rows') : i \in 1..Len(rows) \/ i = Len(rows) + 1
          /\ rows'[Len(rows) + 1].id = Head(inbox).id
      BY <1>9, <2>2, StartedWindow
    <3>2. PICK x, W : x = Lose(Head(inbox)) /\ W = OnWay(queue, inbox) OBVIOUS
    <3>3. inbox \in Seq(Messages) BY KnownIds
    <3>4. 1 \in 1..Len(inbox) /\ inbox[1] = Head(inbox) BY <3>1, <3>3
    <3>5. OkAnswer(inbox[1]) BY <2>2, <3>1, <3>4 DEF OkAnswer
    <3>6. x \in W BY <3>2, <3>4, <3>5 DEF OnWay, NewsIn
    <3>7. x.kind = "start" /\ x.id = Head(inbox).id BY <3>1, <3>2 DEF Lose
    <3>8. \A i \in 1..Len(rows) : rows[i].id # Head(inbox).id
      BY <3>2, <3>6, <3>7 DEF FreshJobs
    <3> QED BY <3>1, <3>8 DEF OneRow
  <2> QED BY <2>1, <2>2
<1> QED BY <1>1, <1>4, <1>5, <1>6, <1>7, <1>8, <1>9, WindowSteps

TableInv == Table(inbox, jobs, rows, lost) /\ OneRow(rows)

LEMMA TableInit == Init => TableInv
<1> SUFFICES ASSUME Init PROVE TableInv
  OBVIOUS
<1>1. DOMAIN jobs = {} /\ \A p \in 1..Len(inbox) : FALSE
  BY DEF Init, Nothing
<1>2. Len(rows) = Hydrated /\ \A i \in 1..Len(rows) : rows[i].id = -i /\ rows[i].running = FALSE
  BY RendererBounds DEF Init, cyclicJobDefinitionId
<1>3. \A i, k \in 1..Len(rows) : -i = -k => i = k BY <1>2, RendererBounds
<1> QED BY <1>1, <1>2, <1>3
        DEF TableInv, Table, RowsName, RunningLive, NewsLive, LiveRow, OneRow

LEMMA TableKept == Spec => [](TypeInv /\ HeaderInv /\ TableInv)
<1>1. TypeInv /\ HeaderInv /\ TableInv /\ [Next]_vars => TableInv'
  <2> SUFFICES ASSUME TypeInv, HeaderInv, TableInv, [Next]_vars PROVE TableInv'
    OBVIOUS
  <2>1. CASE Next
    <3>1. NewsOpen(inbox, DOMAIN buses) BY DEF HeaderInv, Mirror
    <3>2. Table(inbox, jobs, rows, lost)' BY <2>1, <3>1, TableStep DEF HeaderInv, TableInv
    <3>3. OneRow(rows') BY <2>1, OneRowStep DEF HeaderInv, TableInv
    <3> QED BY <3>2, <3>3 DEF TableInv
  <2>2. CASE UNCHANGED vars
    <3>1. UNCHANGED <<inbox, jobs, rows, lost>> BY <2>2 DEF vars, engineVars, windowVars
    <3> QED BY <3>1 DEF TableInv
  <2> QED BY <2>1, <2>2
<1> QED BY <1>1, HeaderKept, TableInit, PTL DEF Spec

(* The table of cyclic jobs shows what the engine sends, and each row has an  *)
(* id of its own, but for what is on the way or was lost: the rows of a bus   *)
(* whose close ended in close_failed stay Running for jobs that have ended    *)
(* (useTransmitModel.ts: startCyclic, stopJob, markBusClosed and reset, over  *)
(* the answers of the engine, of main's timer and of a crash).                *)
THEOREM TableMirrorsEngine == Spec => []RowsMirrorJobs
<1>1. TypeInv /\ TableInv => RowsMirrorJobs
  <2> SUFFICES ASSUME TypeInv, TableInv PROVE RowsMirrorJobs
    OBVIOUS
  <2>1. DOMAIN rows = 1..Len(rows) BY DEF TypeInv, WindowType
  <2>2. RunningIsLive
    <3> SUFFICES ASSUME NEW i \in 1..Len(rows), rows[i].running
                 PROVE  \/ rows[i].id \in DOMAIN jobs
                        \/ Falling
                        \/ Settled("stop", rows[i].id) \/ Lost("stop", rows[i].id)
                        \/ Settled("close", rows[i].bus) \/ Lost("close", rows[i].bus)
      BY <2>1 DEF RunningIsLive
    <3>1. \/ rows[i].id \in DOMAIN jobs \/ DownAfter(inbox, 0)
          \/ EndsAfter(inbox, 0, rows[i].id) \/ LostTo(lost, "stop", rows[i].id)
          \/ LostTo(lost, "close", rows[i].bus) \/ OkAfter(inbox, 0, "close", rows[i].bus)
      BY DEF TableInv, Table, RunningLive
    <3>2. /\ LostTo(lost, "stop", rows[i].id) => Lost("stop", rows[i].id)
          /\ LostTo(lost, "close", rows[i].bus) => Lost("close", rows[i].bus)
      BY DEF LostTo, Lost
    <3> QED BY <3>1, <3>2, InTheInbox
  <2>3. LiveIsRunning
    <3> SUFFICES ASSUME NEW j \in DOMAIN jobs
                 PROVE  \/ \E i \in 1..Len(rows) : rows[i].id = j /\ rows[i].running
                        \/ Announced("start", j) \/ LostCall("start", j)
      BY <2>1 DEF LiveIsRunning
    <3>1. \/ LostOf(lost, "start", j) \/ NewsOf(inbox, "start", j)
          \/ \E i \in 1..Len(rows) : rows[i].id = j /\ rows[i].running
      BY DEF TableInv, Table, LiveRow
    <3>2. LostOf(lost, "start", j) => LostCall("start", j) BY DEF LostOf, LostCall
    <3> QED BY <3>1, <3>2, InTheInbox
  <2> QED BY <2>1, <2>2, <2>3 DEF RowsMirrorJobs, TableInv, OneRow
<1> QED BY <1>1, TableKept, PTL
-----------------------------------------------------------------------------
(* The DBC noted with a bus shown and the DBC the engine has loaded on it.    *)

OpenNews(s, B) ==
    \A p \in 1..Len(s) : Ok(s[p], "open") /\ s[p].id \in DOMAIN B => B[s[p].id].dbc = 0

(* The answer of the load d of the bus b comes after p. *)
LoadAfter(s, p, b, d) ==
    \E r \in 1..Len(s) : p < r /\ Ok(s[r], "load") /\ s[r].target = b /\ s[r].id = d

LoadNews(s, B, L) ==
    \A p \in 1..Len(s) : Ok(s[p], "load") /\ s[p].target \in DOMAIN B =>
        LET d == B[s[p].target].dbc
        IN  d = s[p].id \/ LostOf(L, "load", d) \/ LoadAfter(s, p, s[p].target, d)

ShownDbc(s, B, O, L) ==
    \A i \in 1..Len(O) : O[i].bus \in DOMAIN B =>
        LET d == B[O[i].bus].dbc
        IN  O[i].dbc = d \/ LostOf(L, "load", d) \/ LoadAfter(s, 0, O[i].bus, d)

Catalog(s, B, O, L) == OpenNews(s, B) /\ LoadNews(s, B, L) /\ ShownDbc(s, B, O, L)

LEMMA CatalogQuiet ==
  ASSUME NEW s \in Seq(Messages), NEW t \in Seq(Messages), Quiet(s, t),
         NEW B, NEW O, NEW L, NEW M, L \subseteq M, Catalog(s, B, O, L)
  PROVE  Catalog(t, B, O, M)
<1>1. \A p \in Nat : \A b, d : LoadAfter(s, p, b, d) => LoadAfter(t, p, b, d)
  BY DEF Quiet, Grown, LoadAfter
<1>2. 0 \in Nat /\ \A p \in 1..Len(s) : p \in Nat OBVIOUS
<1>3. \A p \in 1..Len(t) : Ok(t[p], "open") \/ Ok(t[p], "load") =>
         p \in 1..Len(s) /\ t[p] = s[p]
  BY QuietNews DEF Kinds
<1>4. \A kind, x : LostOf(L, kind, x) => LostOf(M, kind, x) BY DEF LostOf
<1>5. OpenNews(t, B) BY <1>3 DEF Catalog, OpenNews
<1>6. LoadNews(t, B, M) BY <1>1, <1>2, <1>3, <1>4 DEF Catalog, LoadNews
<1>7. ShownDbc(t, B, O, M) BY <1>1, <1>2, <1>4 DEF Catalog, ShownDbc
<1> QED BY <1>5, <1>6, <1>7 DEF Catalog

(* A call that is no open or load: buses may go, the others stay.             *)
Fewer(B, K) == DOMAIN K \subseteq DOMAIN B /\ \A b \in DOMAIN K : K[b] = B[b]

LEMMA CatalogOther ==
  ASSUME NEW s \in Seq(Messages), NEW t \in Seq(Messages), NEW B, NEW O, NEW L,
         NEW c, NEW ok, NEW gone, Answered(s, t, L, c, ok, gone),
         c.kind \notin {"open", "load"}, Catalog(s, B, O, L), NEW K, Fewer(B, K)
  PROVE  Catalog(t, K, O, L)
<1>1. PICK m : m = Answer(c, ok, gone) OBVIOUS
<1>a. AnswerSeen(s, t, L, c, m) BY <1>1, AnsweredNews
<1>b. \A p \in Nat : \A b, d : LoadAfter(s, p, b, d) => LoadAfter(t, p, b, d)
  BY DEF Answered, Grown, LoadAfter
<1>2. /\ \A p \in 1..Len(t) : (p \in 1..Len(s) /\ t[p] = s[p]) \/ (p = Len(s) + 1 /\ t[p] = m)
      /\ m.kind = c.kind
  BY <1>a DEF AnswerSeen
<1>3. 0 \in Nat /\ \A p \in 1..Len(s) : p \in Nat OBVIOUS
<1>4. \A p \in 1..Len(t) : Ok(t[p], "open") \/ Ok(t[p], "load") =>
         p \in 1..Len(s) /\ t[p] = s[p]
  BY <1>2 DEF Ok
<1>5. OpenNews(t, K) BY <1>4 DEF Catalog, OpenNews, Fewer
<1>6. LoadNews(t, K, L) BY <1>b, <1>3, <1>4 DEF Catalog, LoadNews, Fewer
<1>7. ShownDbc(t, K, O, L) BY <1>b, <1>3 DEF Catalog, ShownDbc, Fewer
<1> QED BY <1>5, <1>6, <1>7 DEF Catalog

LEMMA CatalogFallen ==
  ASSUME NEW s, NEW O, NEW L, NEW K, DOMAIN K = {}
  PROVE  Catalog(s, K, O, L)
BY DEF Catalog, OpenNews, LoadNews, ShownDbc

(* The bus b becomes the bus with the DBC d, the others stay.                 *)
WithBus(B, K, b, d) ==
    /\ DOMAIN K = DOMAIN B \cup {b} /\ K[b].dbc = d
    /\ \A x \in DOMAIN B : x # b => K[x] = B[x]

NewBus(s, O, b) ==
    /\ \A p \in 1..Len(s) : Ok(s[p], "load") => s[p].target # b
    /\ \A i \in 1..Len(O) : O[i].bus # b

LEMMA CatalogOpen ==
  ASSUME NEW s \in Seq(Messages), NEW t \in Seq(Messages), NEW B, NEW O, NEW L,
         NEW c, NEW ok, NEW gone, Answered(s, t, L, c, ok, gone), c.kind = "open",
         Catalog(s, B, O, L), NEW K, WithBus(B, K, c.id, 0), NewBus(s, O, c.id)
  PROVE  Catalog(t, K, O, L)
<1>1. PICK m : m = Answer(c, ok, gone) OBVIOUS
<1>a. AnswerSeen(s, t, L, c, m) BY <1>1, AnsweredNews
<1>b. \A p \in Nat : \A b, d : LoadAfter(s, p, b, d) => LoadAfter(t, p, b, d)
  BY DEF Answered, Grown, LoadAfter
<1>2. /\ \A p \in 1..Len(t) : (p \in 1..Len(s) /\ t[p] = s[p]) \/ (p = Len(s) + 1 /\ t[p] = m)
      /\ m.kind = c.kind /\ m.id = c.id
  BY <1>a DEF AnswerSeen
<1>3. 0 \in Nat /\ \A p \in 1..Len(s) : p \in Nat OBVIOUS
<1>4. \A p \in 1..Len(t) : Ok(t[p], "load") => p \in 1..Len(s) /\ t[p] = s[p]
  BY <1>2 DEF Ok
<1>5. OpenNews(t, K)
  <2> SUFFICES ASSUME NEW p \in 1..Len(t), Ok(t[p], "open"), t[p].id \in DOMAIN K
               PROVE  K[t[p].id].dbc = 0
    BY DEF OpenNews
  <2>1. CASE t[p].id = c.id BY <2>1 DEF WithBus
  <2>2. CASE t[p].id # c.id BY <1>2, <2>2 DEF WithBus, Catalog, OpenNews
  <2> QED BY <2>1, <2>2
<1>6. LoadNews(t, K, L)
  BY <1>b, <1>3, <1>4 DEF Catalog, LoadNews, WithBus, NewBus
<1>7. ShownDbc(t, K, O, L) BY <1>b, <1>3 DEF Catalog, ShownDbc, WithBus, NewBus
<1> QED BY <1>5, <1>6, <1>7 DEF Catalog

LEMMA CatalogLoad ==
  ASSUME NEW s \in Seq(Messages), NEW t \in Seq(Messages), NEW B, NEW O, NEW L,
         NEW c, NEW ok, NEW gone, Answered(s, t, L, c, ok, gone), c.kind = "load",
         Ok(Answer(c, ok, gone), "load"), Catalog(s, B, O, L),
         NEW K, WithBus(B, K, c.target, c.id), c.target \in DOMAIN B,
         \A p \in 1..Len(s) : Ok(s[p], "open") => s[p].id # c.target
  PROVE  Catalog(t, K, O, L)
<1>1. PICK m : m = Answer(c, ok, gone) OBVIOUS
<1>a. AnswerSeen(s, t, L, c, m) BY <1>1, AnsweredNews
<1>b. \A p \in Nat : \A b, d : LoadAfter(s, p, b, d) => LoadAfter(t, p, b, d)
  BY DEF Answered, Grown, LoadAfter
<1>2. /\ \A p \in 1..Len(t) : (p \in 1..Len(s) /\ t[p] = s[p]) \/ (p = Len(s) + 1 /\ t[p] = m)
      /\ m.kind = c.kind /\ m.id = c.id /\ m.target = c.target
  BY <1>a DEF AnswerSeen
<1>3. 0 \in Nat /\ 0 \in 0..Len(s) /\ \A p \in 1..Len(s) : p \in Nat /\ p \in 0..Len(s)
  OBVIOUS
<1>4. \A p \in 0..Len(s) : LoadAfter(t, p, c.target, c.id) \/ LostOf(L, "load", c.id)
  <2>1. CASE Len(s) + 1 \in 1..Len(t) /\ t[Len(s) + 1] = m
    <3>1. Ok(m, "load") /\ \A p \in 0..Len(s) : p < Len(s) + 1 BY <1>1
    <3> QED BY <1>2, <2>1, <3>1 DEF LoadAfter
  <2>2. CASE Lose(c) \in L BY <2>2 DEF LostOf, Lose
  <2> QED BY <1>1, <2>1, <2>2 DEF Answered
<1>5. OpenNews(t, K)
  <2>1. \A p \in 1..Len(t) : Ok(t[p], "open") => p \in 1..Len(s) /\ t[p] = s[p]
    BY <1>2 DEF Ok
  <2> QED BY <2>1 DEF Catalog, OpenNews, WithBus
<1>6. LoadNews(t, K, L)
  <2> SUFFICES ASSUME NEW p \in 1..Len(t), Ok(t[p], "load"), t[p].target \in DOMAIN K
               PROVE  \/ K[t[p].target].dbc = t[p].id
                      \/ LostOf(L, "load", K[t[p].target].dbc)
                      \/ LoadAfter(t, p, t[p].target, K[t[p].target].dbc)
    BY DEF LoadNews
  <2>1. CASE t[p] = m BY <1>2, <2>1 DEF WithBus
  <2>2. CASE p \in 1..Len(s) /\ t[p] = s[p] /\ t[p].target = c.target
    BY <1>3, <1>4, <2>2 DEF WithBus
  <2>3. CASE p \in 1..Len(s) /\ t[p] = s[p] /\ t[p].target # c.target
    BY <1>b, <1>2, <1>3, <2>3 DEF Catalog, LoadNews, WithBus
  <2> QED BY <1>2, <2>1, <2>2, <2>3
<1>7. ShownDbc(t, K, O, L)
  <2> SUFFICES ASSUME NEW i \in 1..Len(O), O[i].bus \in DOMAIN K
               PROVE  \/ O[i].dbc = K[O[i].bus].dbc
                      \/ LostOf(L, "load", K[O[i].bus].dbc)
                      \/ LoadAfter(t, 0, O[i].bus, K[O[i].bus].dbc)
    BY DEF ShownDbc
  <2>1. CASE O[i].bus = c.target BY <1>3, <1>4, <2>1 DEF WithBus
  <2>2. CASE O[i].bus # c.target BY <1>b, <1>3, <2>2 DEF Catalog, ShownDbc, WithBus
  <2> QED BY <2>1, <2>2
<1> QED BY <1>5, <1>6, <1>7 DEF Catalog

(* The window takes the message m; the buses shown, O before, are P then.     *)
CatalogAfter(m, O, P) ==
    \A i \in 1..Len(P) :
        \/ /\ \E k \in 1..Len(O) : O[k].bus = P[i].bus /\ O[k].dbc = P[i].dbc
           /\ ~(Ok(m, "load") /\ P[i].bus = m.target)
        \/ Ok(m, "open") /\ P[i].bus = m.id /\ P[i].dbc = 0
        \/ Ok(m, "load") /\ P[i].bus = m.target /\ P[i].dbc = m.id

LEMMA CatalogDelivered ==
  ASSUME NEW s \in Seq(Messages), s # <<>>, NEW t, t = Tail(s),
         NEW B, NEW O, NEW L, Catalog(s, B, O, L), NEW P, CatalogAfter(Head(s), O, P)
  PROVE  Catalog(t, B, P, L)
<1>1. PICK m : m = Head(s) OBVIOUS
<1>2. /\ 1 \in 1..Len(s) /\ s[1] = m
      /\ \A p \in 1..Len(t) : p + 1 \in 1..Len(s) /\ t[p] = s[p + 1]
      /\ Len(t) = Len(s) - 1 /\ Len(s) \in Nat
  BY <1>1, TailNews
<1>a. ASSUME NEW p \in Nat, NEW b, NEW d, LoadAfter(s, p + 1, b, d) PROVE LoadAfter(t, p, b, d)
  <2>1. PICK r \in 1..Len(s) :
           p + 1 < r /\ Ok(s[r], "load") /\ s[r].target = b /\ s[r].id = d
    BY <1>a DEF LoadAfter
  <2>2. r - 1 \in 1..Len(t) /\ p < r - 1 /\ (r - 1) + 1 = r BY <1>2, <2>1
  <2>3. t[r - 1] = s[r] BY <1>2, <2>2
  <2> QED BY <2>1, <2>2, <2>3 DEF LoadAfter
<1>b. ASSUME NEW b, NEW d, LoadAfter(s, 0, b, d)
      PROVE  (Ok(m, "load") /\ m.target = b /\ m.id = d) \/ LoadAfter(t, 0, b, d)
  <2>1. PICK r \in 1..Len(s) : Ok(s[r], "load") /\ s[r].target = b /\ s[r].id = d
    BY <1>b DEF LoadAfter
  <2>2. CASE r = 1 BY <1>2, <2>1, <2>2
  <2>3. CASE r # 1
    <3>1. 0 \in Nat /\ 0 + 1 < r BY <2>3
    <3>2. LoadAfter(s, 0 + 1, b, d) BY <2>1, <3>1 DEF LoadAfter
    <3> QED BY <1>a, <3>1, <3>2
  <2> QED BY <2>2, <2>3
<1>3. CatalogAfter(m, O, P) BY <1>1
<1>4. OpenNews(t, B) BY <1>2 DEF Catalog, OpenNews
<1>5. LoadNews(t, B, L)
  <2> SUFFICES ASSUME NEW p \in 1..Len(t), Ok(t[p], "load"), t[p].target \in DOMAIN B
               PROVE  \/ B[t[p].target].dbc = t[p].id
                      \/ LostOf(L, "load", B[t[p].target].dbc)
                      \/ LoadAfter(t, p, t[p].target, B[t[p].target].dbc)
    BY DEF LoadNews
  <2>1. p + 1 \in 1..Len(s) /\ t[p] = s[p + 1] /\ p \in Nat BY <1>2
  <2> QED BY <1>a, <2>1 DEF Catalog, LoadNews
<1>6. ShownDbc(t, B, P, L)
  <2> SUFFICES ASSUME NEW i \in 1..Len(P), P[i].bus \in DOMAIN B
               PROVE  \/ P[i].dbc = B[P[i].bus].dbc
                      \/ LostOf(L, "load", B[P[i].bus].dbc)
                      \/ LoadAfter(t, 0, P[i].bus, B[P[i].bus].dbc)
    BY DEF ShownDbc
  <2>1. CASE /\ \E k \in 1..Len(O) : O[k].bus = P[i].bus /\ O[k].dbc = P[i].dbc
             /\ ~(Ok(m, "load") /\ P[i].bus = m.target)
    BY <1>b, <2>1 DEF Catalog, ShownDbc
  <2>2. CASE Ok(m, "open") /\ P[i].bus = m.id /\ P[i].dbc = 0
    BY <1>2, <2>2 DEF Catalog, OpenNews
  <2>3. CASE Ok(m, "load") /\ P[i].bus = m.target /\ P[i].dbc = m.id
    <3>1. \/ B[m.target].dbc = m.id \/ LostOf(L, "load", B[m.target].dbc)
          \/ LoadAfter(s, 1, m.target, B[m.target].dbc)
      BY <1>2, <2>3 DEF Catalog, LoadNews
    <3>2. 0 \in Nat /\ 0 + 1 = 1 OBVIOUS
    <3> QED BY <1>a, <2>3, <3>1, <3>2
  <2> QED BY <1>3, <2>1, <2>2, <2>3 DEF CatalogAfter
<1> QED BY <1>4, <1>5, <1>6 DEF Catalog

LEMMA CatalogAfterDelivered ==
  ASSUME TypeInv, Blank, Delivered, NEW m, m = Head(inbox)
  PROVE  CatalogAfter(m, opened, opened')
<1>1. CASE Disconnected
  <2>1. Len(opened') = 0
    <3>1. CASE info BY <1>1, <3>1, DisconnectedWindow
    <3>2. CASE ~info BY <1>1, <3>2, DisconnectedWindow DEF Blank
    <3> QED BY <3>1, <3>2
  <2>2. \A i \in 1..Len(opened') : FALSE BY <2>1
  <2> QED BY <2>2 DEF CatalogAfter
<1>2. ASSUME opened' = opened, ~Ok(m, "load") PROVE CatalogAfter(m, opened, opened')
  BY <1>2 DEF CatalogAfter
<1>3. CASE ListAnswered \/ StartAnswered \/ StopAnswered
  <2>1. m.kind \in {"list", "start", "stop"}
    BY <1>3 DEF ListAnswered, StartAnswered, StopAnswered, Receive
  <2>2. opened' = opened BY <1>3, StartedWindow, StoppedWindow DEF ListAnswered
  <2> QED BY <1>2, <2>1, <2>2 DEF Ok
<1>4. CASE OpenAnswered
  <2>1. m.kind = "open" BY <1>4, OpenedWindow
  <2>2. ~Ok(m, "load") /\ (Ok(m, "open") <=> m.ok) BY <2>1 DEF Ok
  <2>3. CASE ~m.ok BY <1>2, <1>4, <2>2, <2>3, OpenedWindow
  <2>4. CASE m.ok
    <3>1. /\ \A i \in 1..Len(opened) : opened'[i] = opened[i]
          /\ \A i \in 1..Len(opened') : i \in 1..Len(opened) \/ i = Len(opened) + 1
          /\ opened'[Len(opened) + 1].bus = m.id /\ opened'[Len(opened) + 1].dbc = 0
      BY <1>4, <2>4, OpenedWindow
    <3> QED BY <2>2, <2>4, <3>1 DEF CatalogAfter
  <2> QED BY <2>3, <2>4
<1>5. CASE CloseAnswered
  <2>1. m.kind = "close" BY <1>5, ClosedWindow
  <2>2. ~Ok(m, "load") BY <2>1 DEF Ok
  <2>3. CASE ~m.ok BY <1>2, <1>5, <2>2, <2>3, ClosedWindow
  <2>4. CASE m.ok
    <3>1. PICK h \in [1..Len(opened') -> 1..Len(opened)] :
             \A k \in 1..Len(opened') : opened'[k] = opened[h[k]]
      BY <1>5, <2>4, ClosedWindow
    <3>2. \A k \in 1..Len(opened') : h[k] \in 1..Len(opened) /\ opened'[k] = opened[h[k]]
      BY <3>1
    <3> QED BY <2>2, <3>2 DEF CatalogAfter
  <2> QED BY <2>3, <2>4
<1>6. CASE LoadAnswered
  <2>1. m.kind = "load" BY <1>6, LoadedWindow
  <2>2. Ok(m, "load") <=> m.ok BY <2>1 DEF Ok
  <2>3. CASE ~m.ok BY <1>2, <1>6, <2>2, <2>3, LoadedWindow
  <2>4. CASE m.ok
    <3>1. /\ Len(opened') = Len(opened)
          /\ \A i \in 1..Len(opened) :
               /\ opened'[i].bus = opened[i].bus
               /\ opened'[i].dbc = IF opened[i].bus = m.target THEN m.id ELSE opened[i].dbc
      BY <1>6, <2>4, LoadedWindow
    <3> QED BY <2>2, <2>4, <3>1 DEF CatalogAfter
  <2> QED BY <2>3, <2>4
<1> QED BY <1>1, <1>3, <1>4, <1>5, <1>6 DEF Delivered

LEMMA CatalogStep ==
  ASSUME TypeInv, Blank, FreshBuses(OnWay(queue, inbox), opened),
         Catalog(inbox, buses, opened, lost), Next
  PROVE  Catalog(inbox, buses, opened, lost)'
<1>0. inbox \in Seq(Messages) BY KnownIds
<1>1. CASE QuietStep
  <2>1. /\ inbox' \in Seq(Messages) /\ Quiet(inbox, inbox')
        /\ UNCHANGED <<buses, opened>> /\ lost \subseteq lost'
    BY <1>1, QuietSteps
  <2> QED BY <1>0, <2>1, CatalogQuiet
<1>2. PICK c, t, K : c = Head(queue) /\ t = inbox' /\ K = buses' OBVIOUS
<1>3. PICK yes, no : yes = TRUE /\ no = FALSE OBVIOUS
<1>4. CASE HandleOpen
  <2>1. /\ queue # <<>> /\ c.kind = "open" /\ t \in Seq(Messages)
        /\ Answered(inbox, t, lost, c, yes, no) /\ opened' = opened /\ lost' = lost
        /\ WithBus(buses, K, c.id, 0)
    BY <1>2, <1>3, <1>4, HandledOpen DEF WithBus
  <2>2. NewBus(inbox, opened, c.id) BY <1>2, <2>1, HeadIsFresh DEF NewBus
  <2>3. Catalog(t, K, opened, lost) BY <1>0, <2>1, <2>2, CatalogOpen
  <2> QED BY <1>2, <2>1, <2>3
<1>5. CASE FullLoad
  <2>1. /\ queue # <<>> /\ c.kind = "load" /\ t \in Seq(Messages)
        /\ Answered(inbox, t, lost, c, yes, no) /\ opened' = opened /\ lost' = lost
        /\ DOMAIN K = DOMAIN buses /\ c.target \in DOMAIN buses /\ K[c.target].dbc = c.id
        /\ \A b \in DOMAIN buses : b # c.target => K[b] = buses[b]
    BY <1>2, <1>3, <1>5, HandledLoad
  <2>2. WithBus(buses, K, c.target, c.id) BY <2>1 DEF WithBus
  <2>3. \A p \in 1..Len(inbox) : Ok(inbox[p], "open") => inbox[p].id # c.target
    BY <1>2, <2>1, HeadIsFresh
  <2>4. Ok(Answer(c, yes, no), "load") BY <1>3, <2>1 DEF Ok, Answer
  <2>5. Catalog(t, K, opened, lost) BY <1>0, <2>1, <2>2, <2>3, <2>4, CatalogLoad
  <2> QED BY <1>2, <2>1, <2>5
<1>6. CASE FullClose \/ HandleStart \/ HandleStop
  <2>1. /\ c.kind \in {"close", "start", "stop"} /\ t \in Seq(Messages)
        /\ Answered(inbox, t, lost, c, yes, no) \/ Answered(inbox, t, lost, c, no, yes)
        /\ opened' = opened /\ lost' = lost /\ Fewer(buses, K)
    <3>1. CASE FullClose BY <1>2, <1>3, <3>1, HandledClose DEF Fewer
    <3>2. CASE HandleStart BY <1>2, <1>3, <3>2, HandledStart DEF Fewer
    <3>3. CASE HandleStop BY <1>2, <1>3, <3>3, HandledStop DEF Fewer
    <3> QED BY <1>6, <3>1, <3>2, <3>3
  <2>2. c.kind \notin {"open", "load"} BY <2>1
  <2>3. Catalog(t, K, opened, lost) BY <1>0, <2>1, <2>2, CatalogOther
  <2> QED BY <1>2, <2>1, <2>3
<1>7. CASE Crash
  <2>1. DOMAIN K = {} BY <1>2, <1>7, CrashFalls
  <2>2. Catalog(inbox', K, opened', lost') BY <2>1, CatalogFallen
  <2> QED BY <1>2, <2>2
<1>8. PICK m, s : m = Head(inbox) /\ s = Tail(inbox) OBVIOUS
<1>9. CASE Connected
  <2>1. /\ inbox # <<>> /\ m.kind = "status" /\ inbox' \in Seq(Messages)
        /\ Quiet(s, inbox') /\ UNCHANGED <<buses, opened, lost>>
    BY <1>8, <1>9, ConnectedSteps
  <2>2. ~Ok(m, "load") BY <2>1 DEF Ok
  <2>3. s \in Seq(Messages) BY <1>0, <1>8, <2>1
  <2>4. CatalogAfter(m, opened, opened) BY <2>2 DEF CatalogAfter
  <2>5. Catalog(s, buses, opened, lost) BY <1>0, <1>8, <2>1, <2>4, CatalogDelivered
  <2>6. Catalog(inbox', buses, opened, lost) BY <2>1, <2>3, <2>5, CatalogQuiet
  <2> QED BY <2>1, <2>6
<1>10. CASE Delivered
  <2>1. inbox # <<>> /\ inbox' = s /\ UNCHANGED <<buses, lost>> BY <1>8, <1>10, DeliveredSteps
  <2>2. PICK P : P = opened' /\ CatalogAfter(Head(inbox), opened, P)
    BY <1>10, CatalogAfterDelivered
  <2>3. Catalog(s, buses, P, lost) BY <1>0, <1>8, <2>1, <2>2, CatalogDelivered
  <2> QED BY <2>1, <2>2, <2>3
<1>11. CASE Half
  <2>1. PICK L : L = lost' OBVIOUS
  <2>2. /\ c.kind \in {"load", "close"} /\ t \in Seq(Messages)
        /\ Quiet(inbox, t) /\ lost \subseteq L /\ Answered(t, t, L, c, yes, no)
        /\ opened' = opened /\ Ok(Answer(c, yes, no), c.kind)
        /\ (c.kind = "load" /\ LoadDone(c)) \/ (c.kind = "close" /\ CloseDone(c))
        /\ \A p \in 1..Len(t) : Ok(t[p], "open") => t[p].id # c.target
    BY <1>2, <1>3, <1>11, <2>1, HalfIsLost
  <2>3. Catalog(t, buses, opened, L) BY <1>0, <2>2, CatalogQuiet
  <2>4. CASE c.kind = "load"
    <3>1. WithBus(buses, K, c.target, c.id) /\ c.target \in DOMAIN buses
      BY <1>2, <2>2, <2>4 DEF LoadDone, WithBus
    <3>2. Ok(Answer(c, yes, no), "load") BY <2>2, <2>4
    <3>3. Catalog(t, K, opened, L) BY <2>2, <2>3, <2>4, <3>1, <3>2, CatalogLoad
    <3> QED BY <1>2, <2>1, <2>2, <3>3
  <2>5. CASE c.kind = "close"
    <3>1. Fewer(buses, K) BY <1>2, <2>2, <2>5 DEF CloseDone, Fewer
    <3>2. c.kind \notin {"open", "load"} BY <2>5
    <3>3. Catalog(t, K, opened, L) BY <2>2, <2>3, <3>1, <3>2, CatalogOther
    <3> QED BY <1>2, <2>1, <2>2, <3>3
  <2> QED BY <2>2, <2>4, <2>5
<1> QED BY <1>1, <1>4, <1>5, <1>6, <1>7, <1>9, <1>10, <1>11, NextSteps

CatalogInv == Catalog(inbox, buses, opened, lost)

LEMMA CatalogInit == Init => CatalogInv
<1> SUFFICES ASSUME Init PROVE CatalogInv
  OBVIOUS
<1>1. DOMAIN buses = {} BY DEF Init, Nothing
<1> QED BY <1>1, CatalogFallen DEF CatalogInv

LEMMA CatalogKept == Spec => [](TypeInv /\ HeaderInv /\ CatalogInv)
<1>1. TypeInv /\ HeaderInv /\ CatalogInv /\ [Next]_vars => CatalogInv'
  <2> SUFFICES ASSUME TypeInv, HeaderInv, CatalogInv, [Next]_vars PROVE CatalogInv'
    OBVIOUS
  <2>1. CASE Next BY <2>1, CatalogStep DEF HeaderInv, CatalogInv
  <2>2. CASE UNCHANGED vars
    <3>1. UNCHANGED <<inbox, buses, opened, lost>> BY <2>2 DEF vars, engineVars, windowVars
    <3> QED BY <3>1 DEF CatalogInv
  <2> QED BY <2>1, <2>2
<1> QED BY <1>1, HeaderKept, CatalogInit, PTL DEF Spec

(* The catalog the Transmit panel offers for a bus is that of the DBC the     *)
(* engine packs with on that bus, unless the answer of the load of that DBC   *)
(* is on its way or was lost, that is given up on by main or an error though  *)
(* the DBC was stored (App.tsx: openNamed and loadNamedDbc, which notes the   *)
(* DBC for the bus of the click after the await; DbcStore.load).              *)
THEOREM CatalogMirrorsEngine == Spec => []DbcShownIsLoaded
<1>1. TypeInv /\ CatalogInv => DbcShownIsLoaded
  <2> SUFFICES ASSUME TypeInv, CatalogInv, NEW i \in 1..Len(opened),
                      opened[i].bus \in DOMAIN buses
               PROVE  \/ opened[i].dbc = buses[opened[i].bus].dbc
                      \/ Announced("load", buses[opened[i].bus].dbc)
                      \/ LostCall("load", buses[opened[i].bus].dbc)
    <3>1. TypeInv => DOMAIN opened = 1..Len(opened) BY DEF TypeInv, WindowType
    <3> QED BY <3>1 DEF DbcShownIsLoaded
  <2>1. \/ opened[i].dbc = buses[opened[i].bus].dbc
        \/ LostOf(lost, "load", buses[opened[i].bus].dbc)
        \/ LoadAfter(inbox, 0, opened[i].bus, buses[opened[i].bus].dbc)
    BY DEF CatalogInv, Catalog, ShownDbc
  <2>2. \A d : LostOf(lost, "load", d) => LostCall("load", d) BY DEF LostOf, LostCall
  <2>3. \A b, d : LoadAfter(inbox, 0, b, d) => Announced("load", d)
    <3>1. \A p \in 1..Len(inbox) : inbox[p] \in ToSet(inbox) BY KnownIds DEF ToSet
    <3> QED BY <3>1 DEF LoadAfter, Announced, Ok
  <2> QED BY <2>1, <2>2, <2>3
<1> QED BY <1>1, CatalogKept, PTL
=============================================================================
