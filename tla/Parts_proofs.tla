---------------------------- MODULE Parts_proofs ----------------------------
(* Proofs about the parts, each for any value of its constants.               *)
EXTENDS Parts, Arrays_proofs

-----------------------------------------------------------------------------
(* The schedule of a cyclic job. *)

(* The quotient and the rest of a division by a positive number.             *)
LEMMA Division ==
  ASSUME NEW a \in Int, NEW p \in Nat \ {0}
  PROVE  /\ a \div p \in Int
         /\ a % p \in 0..(p - 1)
         /\ a = p * (a \div p) + (a % p)
  OBVIOUS

(* What is a multiple fits into the quotient.                                *)
LEMMA Quotient ==
  ASSUME NEW a \in Int, NEW p \in Nat \ {0}, NEW q \in Int, q * p <= a
  PROVE  q <= a \div p
  <1>1. a < p * (a \div p) + p
    BY Division
  <1>2. SUFFICES ASSUME q > a \div p
                 PROVE  FALSE
    BY Division
  <1>3. q * p >= (a \div p + 1) * p
    BY <1>2, Division
  <1> QED
    BY <1>1, <1>3, Division

(* A multiple leaves no rest.                                                *)
LEMMA Multiple ==
  ASSUME NEW k \in Int, NEW p \in Nat \ {0}
  PROVE  (k * p) % p = 0
  <1> DEFINE a == k * p
  <1>1. a \in Int
    OBVIOUS
  <1>2. k <= a \div p
    BY <1>1, Quotient
  <1>3. a \div p <= k
    <2>1. p * (a \div p) <= k * p
      BY <1>1, Division
    <2>2. SUFFICES ASSUME a \div p > k
                   PROVE  FALSE
      BY <1>1, Division
    <2>3. (a \div p) * p >= (k + 1) * p
      BY <2>2, <1>1, Division
    <2> QED
      BY <2>1, <2>3, <1>1, Division
  <1> QED
    BY <1>1, <1>2, <1>3, Division

-----------------------------------------------------------------------------
(* What makes OneSendPerSlot inductive: `sends` slots of the grid have been   *)
(* used up by the time of the last one, and the next is at least one further. *)

TypeInv ==
  /\ now \in Nat /\ scheduled \in Int /\ sends \in Nat /\ lastSlot \in Int
  /\ lastEnd \in Nat
  /\ pc \in {"check", "send", "plan", "wait", "done"}

SlotInv ==
  /\ \E k \in Int : scheduled = k * Period
  /\ sends * Period <= lastSlot + Period
  /\ lastSlot <= now
  /\ lastEnd <= now
  /\ pc \in {"check", "send", "wait"} => lastSlot + Period <= scheduled /\ lastEnd <= scheduled
  /\ pc \in {"check", "send", "plan"} => scheduled <= now
  /\ pc = "plan" => lastSlot = scheduled

IInv == TypeInv /\ SlotInv

(* The next deadline is a slot at least one further, and has not passed.      *)
LEMMA NextDeadline ==
  ASSUME NEW at \in Nat, NEW slot \in Int, \E k \in Int : slot = k * Period
  PROVE  /\ next_cyclic_deadline(at, slot) \in Int
         /\ \E k \in Int : next_cyclic_deadline(at, slot) = k * Period
         /\ slot + Period <= next_cyclic_deadline(at, slot)
         /\ at <= next_cyclic_deadline(at, slot)
  <1> DEFINE next == next_cyclic_deadline(at, slot)
  <1>1. PICK k \in Int : slot = k * Period
    OBVIOUS
  <1>2. Period \in Nat \ {0}
    BY CyclicJobBounds
  <1>3. CASE at <= slot + Period
    <2>1. next = (k + 1) * Period
      BY <1>1, <1>2, <1>3 DEF next_cyclic_deadline
    <2>2. next = slot + Period
      BY <1>3 DEF next_cyclic_deadline
    <2>3. k + 1 \in Int
      BY <1>1
    <2> HIDE DEF next
    <2>4. \E m \in Int : next = m * Period
      BY <2>1, <2>3
    <2> QED
      BY <1>2, <1>3, <2>2, <2>4 DEF next
  <1>4. CASE ~(at <= slot + Period)
    <2> DEFINE a == at - slot
               q == a \div Period
    <2>1. a \in Int /\ a > Period
      BY <1>2, <1>4
    <2>2. q \in Int /\ a < Period * q + Period
      BY <1>2, <2>1, Division
    <2>3. 1 <= q
      BY <1>2, <2>1, Quotient
    <2>4. next = slot + (q + 1) * Period
      BY <1>4 DEF next_cyclic_deadline
    <2> HIDE DEF q, next
    <2>5. /\ next = slot + Period * q + Period
          /\ next = (k + q + 1) * Period
      BY <1>1, <1>2, <2>2, <2>4
    <2>6. Period <= Period * q
      BY <1>2, <2>2, <2>3
    <2>7. next \in Int /\ k + q + 1 \in Int
      BY <1>1, <1>2, <2>2, <2>5
    <2> DEFINE r == Period * q
    <2>8. r \in Int
      BY <1>2, <2>2
    <2>9. slot + Period <= next /\ at <= next
      <3> HIDE DEF r
      <3>1. next = slot + r + Period /\ a < r + Period /\ Period <= r
        BY <2>2, <2>5, <2>6 DEF r
      <3> QED
        BY <3>1, <2>7, <2>8, <1>2
    <2> QED
      BY <2>5, <2>7, <2>9 DEF next
  <1> QED
    BY <1>3, <1>4

LEMMA InitInv == Init => IInv
  <1> SUFFICES ASSUME Init PROVE IInv
    OBVIOUS
  <1>1. Period \in Nat \ {0}
    BY CyclicJobBounds
  <1>2. scheduled = 0 * Period
    BY <1>1 DEF Init
  <1> QED
    BY <1>1, <1>2 DEF Init, IInv, TypeInv, SlotInv

(* No step of the job, of the clock or of a stop breaks it.                   *)
LEMMA NextInv == IInv /\ [Next]_vars => IInv'
  <1> SUFFICES ASSUME IInv, [Next]_vars PROVE IInv'
    OBVIOUS
  <1> USE DEF IInv, TypeInv, SlotInv
  <1>0. Period \in Nat \ {0}
    BY CyclicJobBounds
  <1>1. CASE Advance
    BY <1>1, <1>0 DEF Advance
  <1>2. CASE Stop
    BY <1>2 DEF Stop
  <1>3. CASE Check
    BY <1>3 DEF Check
  <1>4. CASE Send
    <2>1. (sends + 1) * Period = sends * Period + Period
      BY <1>0
    <2>2. sends' * Period <= lastSlot' + Period
      <3> DEFINE done == sends * Period
      <3>1. done \in Int /\ done <= lastSlot + Period /\ lastSlot + Period <= scheduled
        BY <1>4, <1>0 DEF Send
      <3>2. sends' * Period = done + Period /\ lastSlot' = scheduled
        BY <2>1, <1>4 DEF Send
      <3> HIDE DEF done
      <3> QED
        BY <3>1, <3>2, <1>0
    <2> QED
      BY <1>4, <1>0, <2>2 DEF Send
  <1>5. CASE Plan
    <2> DEFINE next == next_cyclic_deadline(now, scheduled)
    <2>1. /\ next \in Int
          /\ \E k \in Int : next = k * Period
          /\ scheduled + Period <= next
          /\ now <= next
      BY NextDeadline
    <2>2. scheduled' = next
      BY <1>5 DEF Plan
    <2> HIDE DEF next
    <2> QED
      BY <1>5, <2>1, <2>2 DEF Plan
  <1>6. CASE Wait
    BY <1>6 DEF Wait
  <1>7. CASE UNCHANGED vars
    BY <1>7 DEF vars
  <1> QED
    BY <1>1, <1>2, <1>3, <1>4, <1>5, <1>6, <1>7 DEF Next

LEMMA InvImplies == IInv => OneSendPerSlot
  <1> SUFFICES ASSUME IInv PROVE OneSendPerSlot
    OBVIOUS
  <1>1. Period \in Nat \ {0}
    BY CyclicJobBounds
  <1>2. scheduled % Period = 0
    BY <1>1, Multiple DEF IInv, SlotInv
  <1>3. sends <= now \div Period + 1
    <2> DEFINE before == sends - 1
    <2>1. before * Period <= now
      <3>1. before * Period = sends * Period - Period
        BY <1>1 DEF IInv, TypeInv
      <3> DEFINE used == sends * Period
      <3>2. used \in Int /\ used <= lastSlot + Period /\ before * Period = used - Period
        BY <3>1, <1>1 DEF IInv, TypeInv, SlotInv
      <3> HIDE DEF used, before
      <3> QED
        BY <3>2, <1>1 DEF IInv, TypeInv, SlotInv
    <2>2. before <= now \div Period
      BY <2>1, <1>1, Quotient DEF IInv, TypeInv
    <2> QED
      BY <2>2, <1>1, Division DEF IInv, TypeInv
  <1> QED
    BY <1>1, <1>2, <1>3 DEF IInv, TypeInv, SlotInv, OneSendPerSlot

(* The sends of a job keep to the grid of its period, without a burst, for    *)
(* every period and however long the thread is held up anywhere.              *)
THEOREM SendsKeepToGrid == PartsSpec => []OneSendPerSlot
  <1>1. PartsInit => IInv
    BY InitInv DEF PartsInit
  <1>2. IInv /\ [PartsNext]_partsVars => IInv'
    <2>1. [PartsNext]_partsVars => [Next]_vars
      <3> SUFFICES ASSUME [PartsNext]_partsVars PROVE Next \/ UNCHANGED vars
        OBVIOUS
      <3>1. CASE UNCHANGED partsVars
        BY <3>1 DEF partsVars, cyclicVars
      <3>2. CASE PartsNext
        BY <3>2 DEF PartsNext, cyclicVars
      <3> QED
        BY <3>1, <3>2
    <2> QED
      BY <2>1, NextInv
  <1>3. IInv => OneSendPerSlot
    BY InvImplies
  <1> QED
    BY <1>1, <1>2, <1>3, PTL DEF PartsSpec

-----------------------------------------------------------------------------
(* A module that is instantiated brings its own names for what it extends.    *)
LEMMA SameFilters ==
  ASSUME NEW s, NEW S
  PROVE  /\ Rate!Filtered(s, S) = Filtered(s, S)
         /\ Trace!Filtered(s, S) = Filtered(s, S)
         /\ Trace!Log!Filtered(s, S) = Filtered(s, S)
         /\ Graph!Filtered(s, S) = Filtered(s, S)
<1>1. Rate!Filtered(s, S) = Filtered(s, S) 
  BY DEF Rate!Filtered, Filtered, Rate!Cardinality, Cardinality
<1>2. Trace!Filtered(s, S) = Filtered(s, S) 
  BY DEF Trace!Filtered, Filtered, Trace!Cardinality, Cardinality
<1>3. Graph!Filtered(s, S) = Filtered(s, S) 
  BY DEF Graph!Filtered, Filtered, Graph!Cardinality, Cardinality
<1>4. Trace!Log!Filtered(s, S) = Filtered(s, S)
  BY DEF Trace!Log!Filtered, Filtered, Trace!Log!Cardinality, Cardinality
<1> QED BY <1>1, <1>2, <1>3, <1>4

-----------------------------------------------------------------------------
(* The rate tracker.  The map is in the order in which its keys were observed *)
(* last: what is behind a key in it was observed since.                       *)
Stamps == Rate!Keys \X Int

UniqueKeys(s) == \A i, j \in DOMAIN s : s[i][1] = s[j][1] => i = j

InOrder(s, since) == \A i, j \in DOMAIN s : i < j => s[j][1] \in since[s[i][1]]

RateInv ==
    /\ last \in Seq(Stamps) /\ Len(last) <= KeyMax /\ UniqueKeys(last)
    /\ clock \in Int
    /\ held \in [Threads -> {<<>>} \cup Stamps]
    /\ previous \in [Rate!Keys -> Int \cup {None}]
    /\ others \in [Rate!Keys -> SUBSET Rate!Keys]
    /\ \A key \in Rate!Keys : IsFiniteSet(others[key])
    /\ \A i \in DOMAIN last : previous[last[i][1]] = last[i][2]
    /\ InOrder(last, others)
    /\ \A key \in Rate!Keys :
         previous[key] # None /\ (\A i \in DOMAIN last : last[i][1] # key)
           => Cardinality(others[key]) >= KeyMax
    /\ reported # <<>> =>
         /\ reported.rate # None => reported.rate = reported.exact
         /\ reported.rate = None =>
              reported.exact = None \/ Cardinality(reported.between) >= KeyMax

LEMMA UpTo ==
  ASSUME NEW n \in Nat
  PROVE  IsFiniteSet(1..n) /\ Cardinality(1..n) = n
<1>1. 1 \in Int /\ n \in Int /\ (IF 1 > n THEN n = 0 ELSE n = n - 1 + 1) OBVIOUS
<1> QED BY <1>1, FS_Interval

LEMMA StampsLast ==
  ASSUME NEW s \in Seq(Stamps)
  PROVE  \A i \in 1..Len(s) : s[i] \in Stamps /\ s[i][1] \in Rate!Keys /\ s[i][2] \in Int
<1>1. \A i \in 1..Len(s) : s[i] \in Stamps OBVIOUS
<1>2. \A e \in Stamps : e[1] \in Rate!Keys /\ e[2] \in Int BY DEF Stamps
<1> QED BY <1>1, <1>2

(* What a filter leaves is in the same order. *)
LEMMA FilteredStamps ==
  ASSUME NEW s \in Seq(Stamps), UniqueKeys(s), NEW S \in SUBSET (1..Len(s)), NEW since,
         InOrder(s, since)
  PROVE  LET r == Filtered(s, S)
         IN  /\ r \in Seq(Stamps) /\ UniqueKeys(r) /\ InOrder(r, since)
             /\ Len(r) <= Len(s) /\ (S # 1..Len(s) => Len(r) < Len(s))
             /\ \A k \in DOMAIN r : \E i \in S : r[k] = s[i]
             /\ \A i \in S : \E k \in DOMAIN r : r[k] = s[i]
<1> DEFINE n == Cardinality(S)
           r == Filtered(s, S)
<1>0. Len(s) \in Nat /\ DOMAIN s = 1..Len(s) OBVIOUS
<1>1. PICK h \in [1..n -> S] :
        /\ r = [k \in 1..n |-> s[h[k]]]
        /\ n \in Nat
        /\ \A k, l \in 1..n : h[k] = h[l] => k = l
        /\ \A k, l \in 1..n : k < l => h[k] < h[l]
        /\ \A i \in S : \E k \in 1..n : h[k] = i
  BY FilteredElements
<1> DEFINE m == Len(s)
<1>2. IsFiniteSet(1..m) /\ Cardinality(1..m) = m
  <2>1. m \in Nat BY <1>0
  <2> HIDE DEF m
  <2> QED BY <2>1, UpTo
<1>3. n <= Len(s) /\ (S # 1..Len(s) => n < Len(s))
  <2>1. S \in SUBSET (1..m) OBVIOUS
  <2>2. n <= m /\ (n = m => S = 1..m)
    <3> HIDE DEF m
    <3> DEFINE all == 1..m
    <3>1. IsFiniteSet(all) /\ Cardinality(all) = m /\ S \in SUBSET all BY <1>2, <2>1
    <3> HIDE DEF all
    <3>2. /\ IsFiniteSet(S) /\ Cardinality(S) <= Cardinality(all)
          /\ Cardinality(S) = Cardinality(all) => S = all BY <3>1, FS_Subset
    <3> QED BY <3>1, <3>2 DEF all
  <2> QED BY <1>0, <1>1, <2>2
<1> HIDE DEF n, r
<1>4. \A k \in 1..n : h[k] \in S /\ h[k] \in 1..Len(s) /\ r[k] = s[h[k]] BY <1>1
<1>5. r \in Seq(Stamps) /\ Len(r) = n /\ DOMAIN r = 1..n
  <2>1. \A k \in 1..n : s[h[k]] \in Stamps BY <1>4
  <2> QED BY <1>1, <2>1
<1>6. UniqueKeys(r)
  <2> SUFFICES ASSUME NEW k \in 1..n, NEW l \in 1..n, r[k][1] = r[l][1] PROVE k = l
    BY <1>5 DEF UniqueKeys
  <2>1. h[k] = h[l] BY <1>0, <1>4 DEF UniqueKeys
  <2> QED BY <1>1, <2>1
<1>7. InOrder(r, since)
  <2> SUFFICES ASSUME NEW k \in 1..n, NEW l \in 1..n, k < l PROVE r[l][1] \in since[r[k][1]]
    BY <1>5 DEF InOrder
  <2>1. h[k] < h[l] BY <1>1
  <2> QED BY <1>0, <1>4, <2>1 DEF InOrder
<1>8. \A i \in S : \E k \in 1..n : r[k] = s[i] BY <1>1, <1>4
<1> QED BY <1>3, <1>4, <1>5, <1>6, <1>7, <1>8 DEF r

LEMMA RateStart == Rate!Init => RateInv
<1> SUFFICES ASSUME Rate!Init PROVE RateInv OBVIOUS
<1>1. last = <<>> /\ Len(<<>>) = 0 /\ <<>> \in Seq(Stamps) BY DEF Rate!Init
<1>2. \A key \in Rate!Keys : others[key] = {} /\ previous[key] = None BY DEF Rate!Init
<1>3. others \in [Rate!Keys -> SUBSET Rate!Keys] BY DEF Rate!Init
<1>4. previous \in [Rate!Keys -> Int \cup {None}] BY DEF Rate!Init
<1>5. clock \in Int /\ held \in [Threads -> {<<>>} \cup Stamps] /\ reported = <<>>
  BY DEF Rate!Init
<1>6. UniqueKeys(last) /\ InOrder(last, others) /\ DOMAIN last = {}
  BY <1>1 DEF UniqueKeys, InOrder
<1>7. Len(last) <= KeyMax /\ last \in Seq(Stamps) BY <1>1, RateBounds
<1>8. \A key \in Rate!Keys : IsFiniteSet(others[key]) BY <1>2, FS_EmptySet
<1> QED BY <1>2, <1>3, <1>4, <1>5, <1>6, <1>7, <1>8 DEF RateInv

(* As many keys as entries. *)
LEMMA KeysOf ==
  ASSUME NEW s \in Seq(Stamps), UniqueKeys(s)
  PROVE  LET keys == {s[i][1] : i \in 1..Len(s)}
         IN  IsFiniteSet(keys) /\ Cardinality(keys) = Len(s)
<1> DEFINE n == Len(s)
           keys == {s[i][1] : i \in 1..n}
           f == [i \in 1..n |-> s[i][1]]
<1>1. n \in Nat /\ DOMAIN s = 1..n OBVIOUS
<1>2. f \in Injection(1..n, keys)
  <2>1. f \in [1..n -> keys] OBVIOUS
  <2>2. \A i, j \in 1..n : f[i] = f[j] => i = j BY <1>1 DEF UniqueKeys
  <2> HIDE DEF n, keys, f
  <2> QED BY <2>1, <2>2 DEF Injection, IsInjective
<1>3. f \in Surjection(1..n, keys)
  <2>1. f \in [1..n -> keys] OBVIOUS
  <2>2. \A k \in keys : \E i \in 1..n : f[i] = k OBVIOUS
  <2> HIDE DEF n, keys, f
  <2> QED BY <2>1, <2>2 DEF Surjection
<1> HIDE DEF n, keys, f
<1>4. f \in Bijection(1..n, keys) BY <1>2, <1>3 DEF Bijection
<1>5. ExistsBijection(1..n, keys) BY <1>4 DEF ExistsBijection
<1>6. IsFiniteSet(1..n) /\ Cardinality(1..n) = n BY <1>1, UpTo
<1> QED BY <1>5, <1>6, FS_Bijection DEF n, keys

(* What the map says of a key. *)
LEMMA StampStored ==
  ASSUME last \in Seq(Stamps), UniqueKeys(last)
  PROVE  /\ Rate!Stored = {last[i][1] : i \in 1..Len(last)}
         /\ \A i \in 1..Len(last) : Rate!StampOf(last[i][1]) = last[i][2]
<1>1. DOMAIN last = 1..Len(last) OBVIOUS
<1>2. Rate!ToSet(last) = {last[i] : i \in 1..Len(last)} BY <1>1 DEF Rate!ToSet
<1>3. Rate!Stored = {last[i][1] : i \in 1..Len(last)} BY <1>2 DEF Rate!Stored
<1>4. ASSUME NEW i \in 1..Len(last) PROVE Rate!StampOf(last[i][1]) = last[i][2]
  <2>1. \A e \in Rate!ToSet(last) : e[1] = last[i][1] <=> e = last[i]
    BY <1>1, <1>2 DEF UniqueKeys
  <2>2. last[i] \in Rate!ToSet(last) BY <1>2
  <2>3. (CHOOSE e \in Rate!ToSet(last) : e[1] = last[i][1]) = last[i] BY <2>1, <2>2
  <2> QED BY <2>3 DEF Rate!StampOf
<1> QED BY <1>3, <1>4

(* The map without a key. *)
LEMMA WithoutKey ==
  ASSUME last \in Seq(Stamps), UniqueKeys(last), NEW since, InOrder(last, since), NEW key
  PROVE  LET rest == Rate!Without(key)
         IN  /\ rest \in Seq(Stamps) /\ UniqueKeys(rest) /\ InOrder(rest, since)
             /\ Len(rest) <= Len(last)
             /\ key \in Rate!Stored => Len(rest) < Len(last)
             /\ key \notin Rate!Stored => rest = last
             /\ \A k \in DOMAIN rest :
                  rest[k][1] # key /\ \E i \in 1..Len(last) : rest[k] = last[i]
             /\ \A i \in 1..Len(last) :
                  last[i][1] # key => \E k \in DOMAIN rest : rest[k] = last[i]
<1> DEFINE S == {i \in 1..Len(last) : last[i][1] # key}
           rest == Filtered(last, S)
<1>1. DOMAIN last = 1..Len(last) /\ S \in SUBSET (1..Len(last)) OBVIOUS
<1>2. Rate!Without(key) = rest BY <1>1, SameFilters DEF Rate!Without
<1>3. /\ rest \in Seq(Stamps) /\ UniqueKeys(rest) /\ InOrder(rest, since)
      /\ Len(rest) <= Len(last) /\ (S # 1..Len(last) => Len(rest) < Len(last))
      /\ \A k \in DOMAIN rest : \E i \in S : rest[k] = last[i]
      /\ \A i \in S : \E k \in DOMAIN rest : rest[k] = last[i]
  <2> HIDE DEF S
  <2> QED BY <1>1, FilteredStamps
<1>4. Rate!Stored = {last[i][1] : i \in 1..Len(last)} BY StampStored
<1>5. key \in Rate!Stored => S # 1..Len(last) BY <1>4
<1>6. key \notin Rate!Stored => S = 1..Len(last) BY <1>4
<1>7. key \notin Rate!Stored => rest = last BY <1>6, FilteredAll
<1>8. \A i \in S : last[i][1] # key /\ i \in 1..Len(last) OBVIOUS
<1>9. \A i \in 1..Len(last) : last[i][1] # key => i \in S OBVIOUS
<1> HIDE DEF rest, S
<1>10. \A k \in DOMAIN rest : rest[k][1] # key /\ \E i \in 1..Len(last) : rest[k] = last[i]
  BY <1>3, <1>8
<1>11. \A i \in 1..Len(last) : last[i][1] # key => \E k \in DOMAIN rest : rest[k] = last[i]
  BY <1>3, <1>9
<1> QED BY <1>2, <1>3, <1>5, <1>7, <1>10, <1>11

(* A frame is observed: its key goes to the end, and the key that has to go   *)
(* for a new one has seen as many others as the map holds.                    *)
LEMMA RememberKeeps ==
  ASSUME RateInv, NEW key \in Rate!Keys, NEW ts \in Int,
         NEW before, before = [previous EXCEPT ![key] = ts],
         NEW since, since = [k \in Rate!Keys |-> IF k = key THEN {} ELSE others[k] \cup {key}]
  PROVE  LET new == Rate!Remember(key, ts)
         IN  /\ new \in Seq(Stamps) /\ Len(new) <= KeyMax /\ UniqueKeys(new)
             /\ InOrder(new, since)
             /\ \A i \in DOMAIN new : before[new[i][1]] = new[i][2]
             /\ \A k \in Rate!Keys :
                  before[k] # None /\ (\A i \in DOMAIN new : new[i][1] # k)
                    => Cardinality(since[k]) >= KeyMax
<1> DEFINE rest == Rate!Without(key)
           evict == key \notin Rate!Stored /\ Len(rest) >= KeyMax
           kept == IF evict THEN Tail(rest) ELSE rest
           new == Append(kept, <<key, ts>>)
           m == Len(kept)
<1>0. /\ last \in Seq(Stamps) /\ UniqueKeys(last) /\ InOrder(last, others)
      /\ Len(last) <= KeyMax /\ KeyMax \in Nat \ {0} /\ DOMAIN last = 1..Len(last)
      /\ Len(last) \in Nat
  BY RateBounds DEF RateInv
<1>1. /\ rest \in Seq(Stamps) /\ UniqueKeys(rest) /\ InOrder(rest, others)
      /\ Len(rest) <= Len(last) /\ Len(rest) \in Nat /\ DOMAIN rest = 1..Len(rest)
      /\ key \in Rate!Stored => Len(rest) < Len(last)
      /\ key \notin Rate!Stored => rest = last
      /\ \A k \in DOMAIN rest :
           rest[k][1] # key /\ \E i \in 1..Len(last) : rest[k] = last[i]
      /\ \A i \in 1..Len(last) : last[i][1] # key => \E k \in DOMAIN rest : rest[k] = last[i]
  BY <1>0, WithoutKey
<1>2. Rate!Remember(key, ts) = new BY DEF Rate!Remember
<1> HIDE DEF rest
<1>3. evict => /\ rest = last /\ Len(last) = KeyMax
               /\ kept \in Seq(Stamps) /\ m = KeyMax - 1
               /\ \A i \in 1..m : kept[i] = last[i + 1] /\ i + 1 \in 1..Len(last)
  <2> SUFFICES ASSUME evict PROVE /\ rest = last /\ Len(last) = KeyMax
               /\ kept \in Seq(Stamps) /\ m = KeyMax - 1
               /\ \A i \in 1..m : kept[i] = last[i + 1] /\ i + 1 \in 1..Len(last)
    OBVIOUS
  <2>0. rest = last /\ Len(rest) >= KeyMax BY <1>1
  <2>1. rest = last /\ Len(last) = KeyMax
    <3> HIDE DEF evict, kept
    <3> DEFINE l == Len(last)
    <3>1. l >= KeyMax /\ l <= KeyMax /\ l \in Nat /\ KeyMax \in Nat BY <1>0, <2>0
    <3> HIDE DEF l
    <3>2. l = KeyMax BY <3>1
    <3> QED BY <2>0, <3>2 DEF l
  <2>2. kept = Tail(last) /\ last # <<>> BY <1>0, <2>1
  <2> HIDE DEF evict, kept
  <2> QED BY <1>0, <2>1, <2>2
<1>4. ~evict => kept = rest /\ m < KeyMax
  <2>1. key \notin Rate!Stored /\ ~evict => Len(rest) < KeyMax BY <1>0, <1>1
  <2>2. key \in Rate!Stored => Len(rest) < KeyMax BY <1>0, <1>1
  <2> QED BY <2>1, <2>2
<1> HIDE DEF evict
<1>5. kept \in Seq(Stamps) /\ m \in Nat /\ m < KeyMax /\ DOMAIN kept = 1..m
  <2>1. kept \in Seq(Stamps) BY <1>1, <1>3, <1>4
  <2>2. m < KeyMax
    <3>1. evict => m = KeyMax - 1 BY <1>3
    <3>2. ~evict => m < KeyMax BY <1>4
    <3> HIDE DEF m
    <3> QED BY <1>0, <3>1, <3>2
  <2> HIDE DEF kept
  <2> QED BY <2>1, <2>2
<1>6. \A i \in 1..m : kept[i][1] # key /\ \E j \in 1..Len(last) : kept[i] = last[j]
  <2>1. CASE evict
    <3>1. kept = Tail(last) /\ \A i \in 1..m : kept[i] = last[i + 1] /\ i + 1 \in 1..Len(rest)
      BY <1>3, <2>1
    <3> HIDE DEF kept
    <3> QED BY <1>1, <1>3, <2>1, <3>1
  <2>2. CASE ~evict BY <1>1, <1>4, <2>2
  <2> QED BY <2>1, <2>2
<1>7. UniqueKeys(kept) /\ InOrder(kept, others)
  <2>1. CASE evict
    <3>1. \A i \in 1..m : kept[i] = last[i + 1] /\ i + 1 \in 1..Len(last) BY <1>3, <2>1
    <3>2. \A i, j \in 1..m : i < j <=> i + 1 < j + 1 BY <1>5
    <3>3. \A i, j \in 1..m : i = j <=> i + 1 = j + 1 BY <1>5
    <3> HIDE DEF kept, m
    <3>4. UniqueKeys(kept)
      <4> SUFFICES ASSUME NEW i \in 1..m, NEW j \in 1..m, kept[i][1] = kept[j][1]
                   PROVE  i = j
        BY <1>5 DEF UniqueKeys
      <4>1. last[i + 1][1] = last[j + 1][1] BY <3>1
      <4>2. i + 1 = j + 1 BY <1>0, <3>1, <4>1 DEF UniqueKeys
      <4> QED BY <3>3, <4>2
    <3>5. InOrder(kept, others)
      <4> SUFFICES ASSUME NEW i \in 1..m, NEW j \in 1..m, i < j
                   PROVE  kept[j][1] \in others[kept[i][1]]
        BY <1>5 DEF InOrder
      <4>1. i + 1 < j + 1 BY <3>2
      <4>2. last[j + 1][1] \in others[last[i + 1][1]] BY <1>0, <3>1, <4>1 DEF InOrder
      <4> QED BY <3>1, <4>2
    <3> QED BY <3>4, <3>5
  <2>2. CASE ~evict BY <1>1, <1>4, <2>2
  <2> QED BY <2>1, <2>2
<1> HIDE DEF kept
<1>8. /\ new \in Seq(Stamps) /\ Len(new) = m + 1 /\ DOMAIN new = 1..(m + 1)
      /\ \A i \in 1..m : new[i] = kept[i]
      /\ new[m + 1] = <<key, ts>>
  <2>1. <<key, ts>> \in Stamps BY DEF Stamps
  <2> QED BY <1>5, <2>1
<1> HIDE DEF new, m
<1>9. new[m + 1][1] = key /\ new[m + 1][2] = ts BY <1>8
<1>10. UniqueKeys(new)
  <2> SUFFICES ASSUME NEW i \in 1..(m + 1), NEW j \in 1..(m + 1), new[i][1] = new[j][1]
               PROVE  i = j
    BY <1>8 DEF UniqueKeys
  <2>1. CASE i \in 1..m /\ j \in 1..m BY <1>5, <1>7, <1>8, <2>1 DEF UniqueKeys
  <2>2. CASE i = m + 1 /\ j = m + 1 BY <2>2
  <2>3. CASE i \in 1..m /\ j = m + 1 BY <1>6, <1>8, <1>9, <2>3
  <2>4. CASE i = m + 1 /\ j \in 1..m BY <1>6, <1>8, <1>9, <2>4
  <2> QED BY <1>5, <2>1, <2>2, <2>3, <2>4
<1>11. \A i \in 1..m : kept[i][1] \in Rate!Keys
  BY <1>5, StampsLast DEF m
<1>12. \A k \in Rate!Keys : since[k] = IF k = key THEN {} ELSE others[k] \cup {key} OBVIOUS
<1>13. InOrder(new, since)
  <2> SUFFICES ASSUME NEW i \in 1..(m + 1), NEW j \in 1..(m + 1), i < j
               PROVE  new[j][1] \in since[new[i][1]]
    BY <1>8 DEF InOrder
  <2>1. i \in 1..m BY <1>5
  <2>2. since[new[i][1]] = others[kept[i][1]] \cup {key} BY <1>6, <1>8, <1>11, <1>12, <2>1
  <2>3. CASE j = m + 1 BY <1>9, <2>2, <2>3
  <2>4. CASE j \in 1..m
    <3>1. kept[j][1] \in others[kept[i][1]] BY <1>5, <1>7, <2>1, <2>4 DEF InOrder
    <3> QED BY <1>8, <2>2, <2>4, <3>1
  <2> QED BY <1>5, <2>3, <2>4
<1>14. \A k \in Rate!Keys : before[k] = IF k = key THEN ts ELSE previous[k]
  BY DEF RateInv
<1>15. \A i \in 1..(m + 1) : before[new[i][1]] = new[i][2]
  <2> SUFFICES ASSUME NEW i \in 1..(m + 1) PROVE before[new[i][1]] = new[i][2]
    OBVIOUS
  <2>1. CASE i = m + 1 BY <1>9, <1>14, <2>1
  <2>2. CASE i \in 1..m
    <3>1. before[new[i][1]] = previous[kept[i][1]] BY <1>6, <1>8, <1>11, <1>14, <2>2
    <3>2. PICK j \in 1..Len(last) : kept[i] = last[j] BY <1>6, <2>2
    <3>3. previous[last[j][1]] = last[j][2] BY <1>0, <3>2 DEF RateInv
    <3> QED BY <1>8, <2>2, <3>1, <3>2, <3>3
  <2> QED BY <1>5, <2>1, <2>2
<1>16. ASSUME NEW k \in Rate!Keys, before[k] # None, \A i \in 1..(m + 1) : new[i][1] # k
       PROVE  Cardinality(since[k]) >= KeyMax
  <2>1. k # key BY <1>5, <1>9, <1>16
  <2>2. previous[k] # None /\ since[k] = others[k] \cup {key} BY <1>12, <1>14, <1>16, <2>1
  <2>3. IsFiniteSet(others[k]) BY DEF RateInv
  <2>4. IsFiniteSet(since[k]) BY <2>2, <2>3, FS_AddElement
  <2>5. CASE \A i \in 1..Len(last) : last[i][1] # k
    <3>1. Cardinality(others[k]) >= KeyMax BY <1>0, <2>2, <2>5 DEF RateInv
    <3>2. Cardinality(others[k]) \in Nat /\ Cardinality(since[k]) \in Nat
      BY <2>3, <2>4, FS_CardinalityType
    <3>3. Cardinality(others[k]) <= Cardinality(since[k]) BY <2>2, <2>4, FS_Subset
    <3> QED BY <1>0, <3>1, <3>2, <3>3
  <2>6. CASE \E i \in 1..Len(last) : last[i][1] = k
    <3>1. PICK i \in 1..Len(last) : last[i][1] = k BY <2>6
    <3>2. \A j \in 1..m : kept[j] # last[i] BY <1>5, <1>8, <1>16, <3>1
    <3>3. evict
      <4>1. PICK j \in DOMAIN rest : rest[j] = last[i] BY <1>1, <2>1, <3>1
      <4> QED BY <1>4, <1>5, <3>2, <4>1
    <3>4. i = 1
      <4>1. SUFFICES ASSUME i # 1 PROVE FALSE OBVIOUS
      <4>2. i - 1 \in 1..m /\ (i - 1) + 1 = i BY <1>0, <1>3, <3>3, <4>1
      <4> QED BY <1>3, <3>2, <3>3, <4>2
    <3> DEFINE keys == {new[j][1] : j \in 1..(m + 1)}
    <3>5. Cardinality(keys) = KeyMax
      <4>1. m + 1 = KeyMax BY <1>0, <1>3, <3>3
      <4> QED BY <1>8, <1>10, <4>1, KeysOf
    <3>6. ASSUME NEW j \in 1..(m + 1) PROVE new[j][1] \in since[k]
      <4>1. CASE j = m + 1 BY <1>9, <2>2, <4>1
      <4>2. CASE j \in 1..m
        <5>1. new[j] = last[j + 1] /\ j + 1 \in 1..Len(last) /\ 1 < j + 1
          BY <1>3, <1>5, <1>8, <3>3, <4>2
        <5>2. last[j + 1][1] \in others[k] BY <1>0, <3>1, <3>4, <5>1 DEF InOrder
        <5> QED BY <2>2, <5>1, <5>2
      <4> QED BY <1>5, <4>1, <4>2
    <3>7. keys \in SUBSET since[k] BY <3>6
    <3> HIDE DEF keys
    <3>8. Cardinality(keys) <= Cardinality(since[k]) BY <2>4, <3>7, FS_Subset
    <3>9. Cardinality(since[k]) \in Nat BY <2>4, FS_CardinalityType
    <3> QED BY <1>0, <3>5, <3>8, <3>9
  <2> QED BY <2>5, <2>6
<1>17. Len(new) <= KeyMax BY <1>0, <1>5, <1>8
<1>18. \A k \in Rate!Keys :
          before[k] # None /\ (\A i \in DOMAIN new : new[i][1] # k)
            => Cardinality(since[k]) >= KeyMax
  BY <1>8, <1>16
<1>19. \A i \in DOMAIN new : before[new[i][1]] = new[i][2] BY <1>8, <1>15
<1> QED BY <1>2, <1>8, <1>10, <1>13, <1>17, <1>18, <1>19

LEMMA RateObserve == ASSUME RateInv, NEW t \in Threads, Rate!Observe(t) PROVE RateInv'
<1> DEFINE key == held[t][1]
           ts == held[t][2]
<1>0. /\ last \in Seq(Stamps) /\ UniqueKeys(last) /\ DOMAIN last = 1..Len(last)
      /\ previous \in [Rate!Keys -> Int \cup {None}]
      /\ others \in [Rate!Keys -> SUBSET Rate!Keys] /\ KeyMax \in Nat /\ None \notin Int
      /\ held \in [Threads -> {<<>>} \cup Stamps]
  BY RateBounds DEF RateInv
<1>1. key \in Rate!Keys /\ ts \in Int
  <2>1. held[t] \in Stamps BY <1>0 DEF Rate!Observe
  <2> QED BY <2>1 DEF Stamps
<1>2. /\ last' = Rate!Remember(key, ts)
      /\ reported' = [rate    |-> IF key \in Rate!Stored THEN ts - Rate!StampOf(key) ELSE None,
                      exact   |-> IF previous[key] = None THEN None ELSE ts - previous[key],
                      between |-> others[key]]
      /\ previous' = [previous EXCEPT ![key] = ts]
      /\ others' = [k \in Rate!Keys |-> IF k = key THEN {} ELSE others[k] \cup {key}]
      /\ held' = [held EXCEPT ![t] = <<>>] /\ clock' = clock
  BY DEF Rate!Observe
<1> HIDE DEF key, ts
<1>3. /\ last' \in Seq(Stamps) /\ Len(last') <= KeyMax /\ UniqueKeys(last')
      /\ InOrder(last', others')
      /\ \A i \in DOMAIN last' : previous'[last'[i][1]] = last'[i][2]
      /\ \A k \in Rate!Keys :
           previous'[k] # None /\ (\A i \in DOMAIN last' : last'[i][1] # k)
             => Cardinality(others'[k]) >= KeyMax
  <2> DEFINE before == [previous EXCEPT ![key] = ts]
             since == [k \in Rate!Keys |-> IF k = key THEN {} ELSE others[k] \cup {key}]
             new == Rate!Remember(key, ts)
  <2>1. /\ new \in Seq(Stamps) /\ Len(new) <= KeyMax /\ UniqueKeys(new)
        /\ InOrder(new, since)
        /\ \A i \in DOMAIN new : before[new[i][1]] = new[i][2]
        /\ \A k \in Rate!Keys :
             before[k] # None /\ (\A i \in DOMAIN new : new[i][1] # k)
               => Cardinality(since[k]) >= KeyMax
    <3> HIDE DEF before, since
    <3>1. before = [previous EXCEPT ![key] = ts] BY DEF before
    <3>2. since = [k \in Rate!Keys |-> IF k = key THEN {} ELSE others[k] \cup {key}]
      BY DEF since
    <3> QED BY <1>1, <3>1, <3>2, RememberKeeps, ZenonT(60)
  <2>2. last' = new /\ others' = since /\ previous' = before BY <1>2
  <2> HIDE DEF before, since, new
  <2> QED BY <2>1, <2>2
<1>4. /\ previous' \in [Rate!Keys -> Int \cup {None}]
      /\ others' \in [Rate!Keys -> SUBSET Rate!Keys]
  BY <1>0, <1>1, <1>2
<1>5. held' \in [Threads -> {<<>>} \cup Stamps] BY <1>0, <1>2
<1>6. ASSUME NEW k \in Rate!Keys PROVE IsFiniteSet(others'[k])
  <2>1. IsFiniteSet(others[k]) BY DEF RateInv
  <2>2. IsFiniteSet(others[k] \cup {key}) BY <2>1, FS_AddElement
  <2>3. others'[k] = IF k = key THEN {} ELSE others[k] \cup {key} BY <1>2
  <2> QED BY <2>2, <2>3, FS_EmptySet
<1>7. key \in Rate!Stored => ts - Rate!StampOf(key) = ts - previous[key] /\ previous[key] \in Int
                             /\ ts - Rate!StampOf(key) \in Int
  <2> SUFFICES ASSUME key \in Rate!Stored
               PROVE  Rate!StampOf(key) = previous[key] /\ previous[key] \in Int
    BY <1>1
  <2>1. PICK i \in 1..Len(last) : last[i][1] = key BY <1>0, StampStored
  <2>2. Rate!StampOf(key) = last[i][2] /\ previous[key] = last[i][2]
    BY <1>0, <2>1, StampStored DEF RateInv
  <2> QED BY <1>0, <2>2, StampsLast
<1>8. key \notin Rate!Stored /\ previous[key] # None => Cardinality(others[key]) >= KeyMax
  BY <1>0, <1>1, StampStored DEF RateInv
<1>9. /\ reported'.rate = (IF key \in Rate!Stored THEN ts - Rate!StampOf(key) ELSE None)
      /\ reported'.exact = (IF previous[key] = None THEN None ELSE ts - previous[key])
      /\ reported'.between = others[key]
  BY <1>2
<1>10. /\ reported'.rate # None => reported'.rate = reported'.exact
       /\ reported'.rate = None =>
            reported'.exact = None \/ Cardinality(reported'.between) >= KeyMax
  <2>1. CASE key \in Rate!Stored BY <1>0, <1>7, <1>9, <2>1
  <2>2. CASE key \notin Rate!Stored BY <1>8, <1>9, <2>2
  <2> QED BY <2>1, <2>2
<1>11. clock' \in Int BY <1>2 DEF RateInv
<1> QED BY <1>3, <1>4, <1>5, <1>6, <1>10, <1>11 DEF RateInv

(* The keys of a bus go, and what they saw with them. *)
LEMMA RateClear == ASSUME RateInv, NEW b \in Buses, Rate!ClearBus(b) PROVE RateInv'
<1> DEFINE S == {i \in 1..Len(last) : last[i][1][1] # b}
           r == Filtered(last, S)
<1>0. /\ last \in Seq(Stamps) /\ UniqueKeys(last) /\ DOMAIN last = 1..Len(last)
      /\ Len(last) \in Nat /\ Len(last) <= KeyMax /\ InOrder(last, others)
      /\ previous \in [Rate!Keys -> Int \cup {None}]
      /\ others \in [Rate!Keys -> SUBSET Rate!Keys] /\ KeyMax \in Nat /\ None \notin Int
  BY RateBounds DEF RateInv
<1>1. /\ last' = r
      /\ previous' = [key \in Rate!Keys |-> IF key[1] = b THEN None ELSE previous[key]]
      /\ others' = [key \in Rate!Keys |-> IF key[1] = b THEN {} ELSE others[key]]
      /\ UNCHANGED <<clock, held, reported>>
  BY <1>0, SameFilters DEF Rate!ClearBus
<1>2. S \in SUBSET (1..Len(last)) OBVIOUS
<1>3. \A i \in S : last[i][1][1] # b /\ i \in 1..Len(last) OBVIOUS
<1>4. \A i \in 1..Len(last) : last[i][1][1] # b => i \in S OBVIOUS
<1> HIDE DEF r, S
<1>5. /\ r \in Seq(Stamps) /\ UniqueKeys(r) /\ InOrder(r, others) /\ Len(r) <= Len(last)
      /\ \A k \in DOMAIN r : \E i \in S : r[k] = last[i]
      /\ \A i \in S : \E k \in DOMAIN r : r[k] = last[i]
  BY <1>0, <1>2, FilteredStamps DEF r
<1>6. /\ \A k \in Rate!Keys : previous'[k] = IF k[1] = b THEN None ELSE previous[k]
      /\ \A k \in Rate!Keys : others'[k] = IF k[1] = b THEN {} ELSE others[k]
  BY <1>1
<1>7. \A k \in DOMAIN r : r[k][1] \in Rate!Keys /\ r[k][1][1] # b
                          /\ \E i \in 1..Len(last) : r[k] = last[i]
  <2>1. \A k \in DOMAIN r : r[k][1] \in Rate!Keys
    <3>1. DOMAIN r = 1..Len(r) BY <1>5
    <3> QED BY <1>5, <3>1, StampsLast
  <2> QED BY <1>3, <1>5, <2>1
<1>8. InOrder(r, others') BY <1>5, <1>6, <1>7 DEF InOrder
<1>9. \A k \in DOMAIN r : previous'[r[k][1]] = r[k][2]
  <2> SUFFICES ASSUME NEW k \in DOMAIN r PROVE previous'[r[k][1]] = r[k][2]
    OBVIOUS
  <2>1. previous'[r[k][1]] = previous[r[k][1]] BY <1>6, <1>7
  <2>2. PICK i \in 1..Len(last) : r[k] = last[i] BY <1>7
  <2>3. previous[last[i][1]] = last[i][2] BY <1>0 DEF RateInv
  <2> QED BY <2>1, <2>2, <2>3
<1>10. ASSUME NEW k \in Rate!Keys, previous'[k] # None, \A i \in DOMAIN r : r[i][1] # k
       PROVE  Cardinality(others'[k]) >= KeyMax
  <2>1. k[1] # b /\ previous[k] # None /\ others'[k] = others[k] BY <1>6, <1>10
  <2>2. ASSUME NEW i \in 1..Len(last), last[i][1] = k PROVE FALSE
    <3>1. i \in S BY <1>4, <2>1, <2>2
    <3>2. PICK j \in DOMAIN r : r[j] = last[i] BY <1>5, <3>1
    <3> QED BY <1>10, <2>2, <3>2
  <2>3. \A i \in DOMAIN last : last[i][1] # k BY <1>0, <2>2
  <2> QED BY <2>1, <2>3 DEF RateInv
<1>11. ASSUME NEW k \in Rate!Keys PROVE IsFiniteSet(others'[k])
  BY <1>6, FS_EmptySet DEF RateInv
<1>12. /\ previous' \in [Rate!Keys -> Int \cup {None}]
       /\ others' \in [Rate!Keys -> SUBSET Rate!Keys]
  BY <1>0, <1>1
<1>13. Len(r) <= KeyMax
  <2>1. Len(r) \in Nat BY <1>5
  <2> QED BY <1>0, <1>5, <2>1
<1>14. /\ clock' \in Int /\ held' \in [Threads -> {<<>>} \cup Stamps]
       /\ reported' # <<>> =>
            /\ reported'.rate # None => reported'.rate = reported'.exact
            /\ reported'.rate = None =>
                 reported'.exact = None \/ Cardinality(reported'.between) >= KeyMax
  BY <1>1 DEF RateInv
<1>15. last' = r BY <1>1
<1>16. \A k \in Rate!Keys :
         previous'[k] # None /\ (\A i \in DOMAIN r : r[i][1] # k)
           => Cardinality(others'[k]) >= KeyMax
  BY <1>10
<1> QED BY <1>5, <1>8, <1>9, <1>11, <1>12, <1>13, <1>14, <1>15, <1>16 DEF RateInv

LEMMA RateStep == RateInv /\ [PartsNext]_partsVars => RateInv'
<1> SUFFICES ASSUME RateInv, [PartsNext]_partsVars PROVE RateInv'
  OBVIOUS
<1>1. CASE UNCHANGED rateVars
  <2>1. UNCHANGED <<last, clock, held, reported, previous, others>> BY <1>1 DEF rateVars
  <2> QED BY <2>1 DEF RateInv, UniqueKeys, InOrder
<1>2. CASE Rate!Next
  <2>1. CASE Rate!Advance
    BY <2>1 DEF Rate!Advance, RateInv, UniqueKeys, InOrder
  <2>2. CASE \E t \in Threads : Rate!Stamp(t)
    <3>1. PICK t \in Threads : Rate!Stamp(t) BY <2>2
    <3>2. PICK key \in Rate!Keys : held' = [held EXCEPT ![t] = <<key, clock>>]
      BY <3>1 DEF Rate!Stamp
    <3>3. <<key, clock>> \in Stamps BY DEF Stamps, RateInv
    <3>4. held' \in [Threads -> {<<>>} \cup Stamps] BY <3>2, <3>3 DEF RateInv
    <3>5. UNCHANGED <<last, clock, reported, previous, others>> BY <3>1 DEF Rate!Stamp
    <3> QED BY <3>4, <3>5 DEF RateInv, UniqueKeys, InOrder
  <2>3. CASE \E t \in Threads : Rate!Observe(t) BY <2>3, RateObserve
  <2>4. CASE \E b \in Buses : Rate!ClearBus(b) BY <2>4, RateClear
  <2> QED BY <1>2, <2>1, <2>2, <2>3, <2>4 DEF Rate!Next
<1> QED BY <1>1, <1>2 DEF PartsNext, partsVars

LEMMA RateHolds == RateInv => RateIsOfTheKey
<1> SUFFICES ASSUME RateInv PROVE RateIsOfTheKey
  OBVIOUS
<1>1. Len(last) <= KeyMax /\ Cardinality(Rate!Stored) = Len(last)
  BY StampStored, KeysOf DEF RateInv
<1>2. \A S : Rate!Cardinality(S) = Cardinality(S) BY DEF Rate!Cardinality, Cardinality
<1> QED BY <1>1, <1>2 DEF RateInv, RateIsOfTheKey, Rate!RateIsOfTheKey

(* The rate of a frame is the time since its key was observed before, and     *)
(* null only for the first or when as many other keys came between as the     *)
(* map holds, for any number of threads, keys and buses.                      *)
THEOREM RateIsExact == PartsSpec => []RateIsOfTheKey
<1>1. PartsInit => RateInv BY RateStart DEF PartsInit
<1>2. RateInv /\ [PartsNext]_partsVars => RateInv' BY RateStep
<1>3. RateInv => RateIsOfTheKey BY RateHolds
<1> QED BY <1>1, <1>2, <1>3, PTL DEF PartsSpec


-----------------------------------------------------------------------------
(* The ring of the Trace view.  Row by row it is the list of the newest       *)
(* frames: that of TraceLog.                                                  *)
Rows == [seq : Nat, frame : Frames]

Rings == [slots : [0..(Capacity - 1) -> Rows \cup {None}], head : 0..(Capacity - 1),
          size : 0..Capacity, nextSeq : Nat, dropped : Nat]

RowsOf(r) == [row \in 1..r.size |-> r.slots[(r.head + (row - 1)) % Capacity]]

GoodRing(r) == r \in Rings /\ RowsOf(r) \in Seq(Rows)

TheRing == [slots |-> slots, head |-> head, size |-> size, nextSeq |-> nextSeq,
            dropped |-> 0]

TraceInv ==
    /\ GoodRing(TheRing)
    /\ uiDropped \in Nat
    /\ filter \in Filters

Newest(s, n) == Trace!Log!Newest(s, n)

(* The place of a row in the slots, without the division. *)
Wrap(i) == IF i < Capacity THEN i ELSE i - Capacity

LEMMA Wrapped ==
  ASSUME NEW h \in Nat, NEW i \in Nat, h < Capacity, i <= Capacity
  PROVE  (h + i) % Capacity = Wrap(h + i)
<1>0. Capacity \in Nat \ {0} BY TraceBounds
<1> DEFINE a == h + i
           q == a \div Capacity
           r == a % Capacity
<1>1. a \in Int /\ q \in Int /\ r \in 0..(Capacity - 1) /\ a = Capacity * q + r
  BY <1>0, Division
<1>2. a >= 0 /\ a < 2 * Capacity BY <1>0
<1> HIDE DEF a, q, r
<1>3. q < 2
  <2>1. SUFFICES ASSUME q >= 2 PROVE FALSE BY <1>1
  <2>2. Capacity * q >= Capacity * 2 BY <1>0, <1>1, <2>1
  <2> DEFINE b == Capacity * q
  <2>3. b \in Int BY <1>0, <1>1
  <2> HIDE DEF b
  <2> QED BY <1>0, <1>1, <1>2, <2>2, <2>3 DEF b
<1>4. q >= 0
  <2>1. SUFFICES ASSUME q <= -1 PROVE FALSE BY <1>1
  <2>2. Capacity * q <= Capacity * (-1) BY <1>0, <1>1, <2>1
  <2> DEFINE b == Capacity * q
  <2>3. b \in Int BY <1>0, <1>1
  <2> HIDE DEF b
  <2> QED BY <1>0, <1>1, <1>2, <2>2, <2>3 DEF b
<1>5. CASE q = 0
  <2>1. a = r BY <1>0, <1>1, <1>5
  <2> QED BY <1>0, <1>1, <2>1 DEF a, r, Wrap
<1>6. CASE q = 1
  <2>1. a = Capacity + r BY <1>0, <1>1, <1>6
  <2>2. r = a - Capacity /\ a >= Capacity BY <1>0, <1>1, <2>1
  <2> QED BY <1>0, <1>1, <2>2 DEF a, r, Wrap
<1> QED BY <1>1, <1>3, <1>4, <1>5, <1>6

LEMMA NewestIs ==
  ASSUME NEW X, NEW s \in Seq(X), NEW n \in Nat \ {0}
  PROVE  /\ Newest(s, n) \in Seq(X)
         /\ Len(s) <= n => Newest(s, n) = s
         /\ Len(s) > n => Newest(s, n) = [k \in 1..n |-> s[k + (Len(s) - n)]]
         /\ Len(Newest(s, n)) = IF Len(s) > n THEN n ELSE Len(s)
<1>1. Newest(s, n) = SubSeq(s, IF Len(s) > n THEN Len(s) - n + 1 ELSE 1, Len(s))
  BY DEF Newest, Trace!Log!Newest
<1>2. CASE Len(s) > n
  <2>1. Newest(s, n) = SubSeq(s, Len(s) - n + 1, Len(s)) BY <1>1, <1>2
  <2>2. Newest(s, n) = [k \in 1..n |-> s[k + (Len(s) - n)]] BY <1>2, <2>1
  <2>3. \A k \in 1..n : s[k + (Len(s) - n)] \in X BY <1>2
  <2> HIDE DEF Newest
  <2>4. Newest(s, n) \in Seq(X) /\ Len(Newest(s, n)) = n BY <2>2, <2>3
  <2> QED BY <1>2, <2>2, <2>4
<1>3. CASE ~(Len(s) > n)
  <2>1. Newest(s, n) = SubSeq(s, 1, Len(s)) BY <1>1, <1>3
  <2>2. Newest(s, n) = s BY <2>1
  <2> QED BY <1>3, <2>2
<1> QED BY <1>2, <1>3

(* Taking the newest of what was cut before loses nothing. *)
LEMMA NewestAgain ==
  ASSUME NEW X, NEW s \in Seq(X), NEW e \in X, NEW n \in Nat \ {0}
  PROVE  Newest(Append(Newest(s, n), e), n) = Newest(Append(s, e), n)
<1> DEFINE t == Newest(s, n)
           u == Append(t, e)
           v == Append(s, e)
<1>1. /\ t \in Seq(X)
      /\ Len(s) <= n => t = s
      /\ Len(s) > n => t = [k \in 1..n |-> s[k + (Len(s) - n)]]
      /\ Len(t) = IF Len(s) > n THEN n ELSE Len(s)
  BY NewestIs
<1> HIDE DEF t
<1>2. CASE Len(s) <= n
  <2>1. u = v BY <1>1, <1>2
  <2> QED BY <2>1 DEF t
<1>3. CASE Len(s) > n
  <2>1. /\ u \in Seq(X) /\ Len(u) = n + 1 /\ \A k \in 1..n : u[k] = s[k + (Len(s) - n)]
        /\ u[n + 1] = e
    BY <1>1, <1>3
  <2>2. /\ v \in Seq(X) /\ Len(v) = Len(s) + 1 /\ \A k \in 1..Len(s) : v[k] = s[k]
        /\ v[Len(s) + 1] = e
    OBVIOUS
  <2> HIDE DEF u, v
  <2>3. Newest(u, n) = [k \in 1..n |-> u[k + 1]]
    <3>1. Newest(u, n) = [k \in 1..n |-> u[k + (Len(u) - n)]] BY <2>1, NewestIs
    <3>2. Len(u) - n = 1 BY <2>1
    <3> QED BY <3>1, <3>2
  <2>4. Newest(v, n) = [k \in 1..n |-> v[k + (Len(v) - n)]] BY <1>3, <2>2, NewestIs
  <2>5. ASSUME NEW k \in 1..n PROVE u[k + 1] = v[k + (Len(v) - n)]
    <3>1. CASE k = n BY <1>3, <2>1, <2>2, <3>1
    <3>2. CASE k # n
      <4>1. k + 1 \in 1..n /\ k + (Len(v) - n) = (k + 1) + (Len(s) - n)
            /\ k + (Len(v) - n) \in 1..Len(s)
        BY <1>3, <2>2, <3>2
      <4> QED BY <2>1, <2>2, <4>1
    <3> QED BY <3>1, <3>2
  <2>6. Newest(u, n) = Newest(v, n) BY <2>3, <2>4, <2>5
  <2> QED BY <2>6 DEF u, v, t
<1> QED BY <1>2, <1>3

LEMMA RowIsAt ==
  ASSUME NEW r \in Rings
  PROVE  /\ \A row \in 1..r.size : RowsOf(r)[row] = r.slots[Wrap(r.head + (row - 1))]
         /\ Len(RowsOf(r)) = r.size /\ DOMAIN RowsOf(r) = 1..r.size
         /\ r.size \in 0..Capacity /\ r.head \in 0..(Capacity - 1) /\ r.nextSeq \in Nat
         /\ r.dropped \in Nat /\ r.slots \in [0..(Capacity - 1) -> Rows \cup {None}]
<1>0. Capacity \in Nat \ {0} BY TraceBounds
<1>1. /\ r.size \in 0..Capacity /\ r.head \in 0..(Capacity - 1) /\ r.nextSeq \in Nat
      /\ r.dropped \in Nat /\ r.slots \in [0..(Capacity - 1) -> Rows \cup {None}]
  BY DEF Rings
<1>2. ASSUME NEW row \in 1..r.size PROVE RowsOf(r)[row] = r.slots[Wrap(r.head + (row - 1))]
  <2>1. r.head \in Nat /\ row - 1 \in Nat /\ r.head < Capacity /\ row - 1 <= Capacity
    BY <1>0, <1>1
  <2>2. (r.head + (row - 1)) % Capacity = Wrap(r.head + (row - 1)) BY <2>1, Wrapped
  <2> QED BY <2>2 DEF RowsOf
<1>3. Len(RowsOf(r)) = r.size /\ DOMAIN RowsOf(r) = 1..r.size
  <2> DEFINE n == r.size
  <2>1. n \in Nat BY <1>0, <1>1
  <2>2. RowsOf(r) = [row \in 1..n |-> r.slots[(r.head + (row - 1)) % Capacity]] BY DEF RowsOf
  <2> HIDE DEF n
  <2>3. Len(RowsOf(r)) = n /\ DOMAIN RowsOf(r) = 1..n BY <2>1, <2>2
  <2> QED BY <2>3 DEF n
<1> QED BY <1>1, <1>2, <1>3

(* One more frame is one more row, and the oldest goes if the ring is full. *)
LEMMA AppendRow ==
  ASSUME NEW r, GoodRing(r), NEW frame \in Frames
  PROVE  LET a == Trace!AppendFrame(r, frame)
         IN  /\ GoodRing(a)
             /\ RowsOf(a) = Newest(Append(RowsOf(r), [seq |-> r.nextSeq, frame |-> frame]),
                                   Capacity)
             /\ a.nextSeq = r.nextSeq + 1
             /\ a.size + a.dropped = r.size + r.dropped + 1
<1>0. Capacity \in Nat \ {0} BY TraceBounds
<1> DEFINE full == r.size = Capacity
           h == IF full THEN (r.head + 1) % Capacity ELSE r.head
           n == IF full THEN r.size - 1 ELSE r.size
           e == [seq |-> r.nextSeq, frame |-> frame]
           c == Capacity - 1
           a == Trace!AppendFrame(r, frame)
           s == RowsOf(r)
           new == Append(s, e)
<1>1. r \in Rings /\ s \in Seq(Rows) BY DEF GoodRing
<1>2. /\ \A row \in 1..r.size : s[row] = r.slots[Wrap(r.head + (row - 1))]
      /\ Len(s) = r.size /\ DOMAIN s = 1..r.size
      /\ r.size \in 0..Capacity /\ r.head \in 0..c /\ r.nextSeq \in Nat
      /\ r.dropped \in Nat /\ r.slots \in [0..c -> Rows \cup {None}]
  BY <1>1, RowIsAt
<1> HIDE DEF s
<1>3. h \in 0..c /\ h = (IF full THEN Wrap(r.head + 1) ELSE r.head)
  <2>0. r.head \in Nat /\ 1 \in Nat /\ r.head < Capacity /\ 1 <= Capacity BY <1>0, <1>2
  <2>1. (r.head + 1) % Capacity = Wrap(r.head + 1) BY <2>0, Wrapped
  <2>2. Wrap(r.head + 1) \in 0..c BY <1>0, <1>2 DEF Wrap
  <2> QED BY <1>2, <2>1, <2>2
<1>4. n \in 0..c BY <1>0, <1>2
<1>5. (h + n) % Capacity = Wrap(h + n) /\ Wrap(h + n) \in 0..c
  <2> HIDE DEF h, n
  <2>1. h \in Nat /\ n \in Nat /\ h < Capacity /\ n <= Capacity BY <1>0, <1>3, <1>4
  <2>2. (h + n) % Capacity = Wrap(h + n) BY <2>1, Wrapped
  <2>3. Wrap(h + n) \in 0..c BY <1>0, <1>3, <1>4 DEF Wrap
  <2> QED BY <2>2, <2>3
<1>6. a = [slots   |-> [r.slots EXCEPT ![Wrap(h + n)] = e],
           head    |-> h,
           size    |-> n + 1,
           nextSeq |-> r.nextSeq + 1,
           dropped |-> IF full THEN r.dropped + 1 ELSE r.dropped]
  BY <1>5 DEF Trace!AppendFrame
<1>7. e \in Rows BY <1>2 DEF Rows
<1> HIDE DEF e, a
<1>8. /\ a.slots = [r.slots EXCEPT ![Wrap(h + n)] = e] /\ a.head = h /\ a.size = n + 1
      /\ a.nextSeq = r.nextSeq + 1
      /\ a.dropped = IF full THEN r.dropped + 1 ELSE r.dropped
  BY <1>6
<1>9. a \in Rings
  <2>1. [r.slots EXCEPT ![Wrap(h + n)] = e] \in [0..c -> Rows \cup {None}]
    BY <1>2, <1>5, <1>7
  <2>2. n + 1 \in 0..Capacity /\ r.nextSeq + 1 \in Nat
        /\ (IF full THEN r.dropped + 1 ELSE r.dropped) \in Nat
    BY <1>0, <1>2, <1>4, SMTT(60)
  <2> HIDE DEF h, n, full
  <2> QED BY <1>3, <1>6, <2>1, <2>2 DEF Rings
<1>10. /\ \A row \in 1..(n + 1) : RowsOf(a)[row] = a.slots[Wrap(h + (row - 1))]
       /\ Len(RowsOf(a)) = n + 1 /\ DOMAIN RowsOf(a) = 1..(n + 1)
  <2> HIDE DEF h, n, full
  <2> QED BY <1>8, <1>9, RowIsAt
<1>11. \A row \in 1..n : Wrap(h + (row - 1)) # Wrap(h + n) /\ Wrap(h + (row - 1)) \in 0..c
  <2> HIDE DEF h, n
  <2> QED BY <1>0, <1>3, <1>4 DEF Wrap
<1>12. RowsOf(a)[n + 1] = e
  <2> HIDE DEF h, n
  <2>1. n + 1 \in 1..(n + 1) /\ (n + 1) - 1 = n BY <1>4
  <2> QED BY <1>2, <1>5, <1>8, <1>10, <2>1, ZenonT(60)
<1>13. \A row \in 1..n : RowsOf(a)[row] = r.slots[Wrap(h + (row - 1))]
  <2> HIDE DEF h, n
  <2> QED BY <1>2, <1>4, <1>8, <1>10, <1>11
<1>14. /\ new \in Seq(Rows) /\ Len(new) = r.size + 1
       /\ \A row \in 1..r.size : new[row] = s[row]
       /\ new[r.size + 1] = e
  BY <1>1, <1>2, <1>7
<1> HIDE DEF new
<1>15. RowsOf(a) = Newest(new, Capacity)
  <2>1. CASE full
    <3>1. Newest(new, Capacity) = [k \in 1..Capacity |-> new[k + (Len(new) - Capacity)]]
      BY <1>0, <1>14, <2>1, NewestIs
    <3>2. n + 1 = Capacity /\ Len(new) - Capacity = 1 BY <1>0, <1>14, <2>1
    <3>3. ASSUME NEW row \in 1..Capacity PROVE RowsOf(a)[row] = new[row + 1]
      <4>1. CASE row = Capacity BY <1>12, <1>14, <2>1, <3>2, <4>1
      <4>2. CASE row # Capacity
        <5>1. row \in 1..n /\ row + 1 \in 1..r.size BY <1>0, <2>1, <3>2, <4>2
        <5>2. Wrap(h + (row - 1)) = Wrap(r.head + ((row + 1) - 1))
          <6>1. h = Wrap(r.head + 1) BY <1>3, <2>1
          <6> HIDE DEF h, n
          <6> QED BY <1>0, <1>2, <6>1, <4>2 DEF Wrap
        <5>3. RowsOf(a)[row] = r.slots[Wrap(h + (row - 1))] BY <1>13, <5>1
        <5> QED BY <1>2, <1>14, <5>1, <5>2, <5>3
      <4> QED BY <4>1, <4>2
    <3>4. RowsOf(a) = [k \in 1..Capacity |-> new[k + 1]]
      <4>1. RowsOf(a) = [k \in 1..Capacity |-> RowsOf(a)[k]] BY <3>2, <1>10 DEF RowsOf
      <4> QED BY <3>3, <4>1
    <3> QED BY <3>1, <3>2, <3>4
  <2>2. CASE ~full
    <3>1. n = r.size /\ h = r.head /\ r.size \in Nat BY <1>0, <1>2, <2>2
    <3>2. Len(new) <= Capacity BY <1>0, <1>2, <1>14, <2>2
    <3>3. Newest(new, Capacity) = new BY <1>0, <1>14, <3>2, NewestIs
    <3>4. ASSUME NEW row \in 1..(n + 1) PROVE RowsOf(a)[row] = new[row]
      <4>1. CASE row = n + 1 BY <1>12, <1>14, <3>1, <4>1
      <4>2. CASE row # n + 1
        <5>1. row \in 1..n BY <3>1, <4>2
        <5> QED BY <1>2, <1>13, <1>14, <3>1, <5>1
      <4> QED BY <4>1, <4>2
    <3>5. RowsOf(a) = [row \in 1..(n + 1) |-> RowsOf(a)[row]] BY <1>10 DEF RowsOf
    <3>6. new = [row \in 1..(n + 1) |-> new[row]] BY <1>14, <3>1
    <3> HIDE DEF n
    <3>7. RowsOf(a) = new BY <3>4, <3>5, <3>6
    <3> QED BY <3>3, <3>7
  <2> QED BY <2>1, <2>2
<1>16. GoodRing(a)
  <2>1. RowsOf(a) \in Seq(Rows) BY <1>0, <1>14, <1>15, NewestIs
  <2> QED BY <1>9, <2>1 DEF GoodRing
<1>17. a.size + a.dropped = r.size + r.dropped + 1 
  <2>1. CASE full
    <3>1. a.size = r.size /\ a.dropped = r.dropped + 1 BY <1>0, <1>2, <1>8, <2>1
    <3> HIDE DEF full, h, n
    <3> QED BY <1>0, <1>2, <3>1
  <2>2. CASE ~full
    <3>1. a.size = r.size + 1 /\ a.dropped = r.dropped BY <1>8, <2>2
    <3> HIDE DEF full, h, n
    <3> QED BY <1>0, <1>2, <3>1
  <2> QED BY <2>1, <2>2
<1> HIDE DEF h, n, full
<1> QED BY <1>8, <1>15, <1>16, <1>17 DEF a, new, s, e

GoodRings == {r \in Rings : RowsOf(r) \in Seq(Rows)}

(* The loop of append: what the ring is after each frame. *)
LEMMA AppendRuns ==
  ASSUME GoodRing(TheRing), NEW frames \in Seq(Frames)
  PROVE  \E g \in [0..Len(frames) -> GoodRings] :
            /\ g[0] = TheRing
            /\ \A n \in 1..Len(frames) : g[n] = Trace!AppendFrame(g[n - 1], frames[n])
            /\ Trace!append(frames) = g[Len(frames)]
<1> DEFINE N == Len(frames)
           Step(n, r) == Trace!AppendFrame(r, frames[n])
           step == [n \in 1..N |-> [r \in GoodRings |-> Step(n, r)]]
           Body(f) == [n \in 0..N |-> IF n = 0 THEN TheRing ELSE Step(n, f[n - 1])]
<1>1. N \in Nat OBVIOUS
<1>2. ASSUME NEW n \in 1..N, NEW r \in GoodRings PROVE Step(n, r) \in GoodRings
  <2>1. frames[n] \in Frames /\ GoodRing(r) BY DEF GoodRings, GoodRing
  <2>2. GoodRing(Step(n, r)) BY <2>1, AppendRow
  <2> QED BY <2>2 DEF GoodRings, GoodRing
<1> HIDE DEF Step
<1>3. step \in Turns(N, GoodRings) BY <1>2 DEF Turns
<1>0. TheRing \in GoodRings BY DEF GoodRings, GoodRing
<1> HIDE DEF N
<1>4. PICK g \in [0..N -> GoodRings] :
        g[0] = TheRing /\ \A n \in 1..N : g[n] = step[n][g[n - 1]]
  <2> HIDE DEF step
  <2> QED BY <1>0, <1>1, <1>3, Iterated
<1>5. \A n \in 1..N : g[n] = Step(n, g[n - 1])
  <2>1. \A n \in 1..N : g[n - 1] \in GoodRings BY <1>1
  <2> QED BY <1>4, <2>1
<1>6. g = Body(g)
  <2>1. \A n \in 0..N : g[n] = IF n = 0 THEN TheRing ELSE Step(n, g[n - 1])
    BY <1>1, <1>4, <1>5
  <2> QED BY <2>1
<1> DEFINE after == CHOOSE f : f = Body(f)
<1>7. after = Body(after) BY <1>6
<1> HIDE DEF after
<1>8. \A n \in Nat : n <= N => after[n] = g[n]
  <2> DEFINE S == {n \in Nat : n <= N => after[n] = g[n]}
  <2>1. 0 \in S BY <1>1, <1>4, <1>7
  <2>2. ASSUME NEW n \in Nat, n \in S PROVE n + 1 \in S
    <3> SUFFICES ASSUME n + 1 <= N PROVE after[n + 1] = g[n + 1] OBVIOUS
    <3>1. n + 1 \in 1..N /\ n + 1 \in 0..N /\ n <= N /\ (n + 1) - 1 = n /\ n + 1 # 0 BY <1>1
    <3>2. after[n] = g[n] BY <2>2, <3>1
    <3>3. after[n + 1] = Step(n + 1, after[n]) BY <1>7, <3>1
    <3> QED BY <1>5, <3>1, <3>2, <3>3
  <2> HIDE DEF S
  <2>3. \A n \in Nat : n \in S BY <2>1, <2>2, Induction
  <2> QED BY <2>3 DEF S
<1>9. Trace!append(frames) = after[N] BY DEF Trace!append, after, Step, N, TheRing
<1>10. Trace!append(frames) = g[N] BY <1>1, <1>8, <1>9
<1> HIDE DEF Step
<1> QED BY <1>4, <1>5, <1>10 DEF Step, N

(* A batch, of any length, is as many new rows, and the oldest go. *)
LEMMA AppendRows ==
  ASSUME GoodRing(TheRing), NEW frames \in Seq(Frames)
  PROVE  LET a == Trace!append(frames)
         IN  /\ GoodRing(a)
             /\ RowsOf(a) = Newest(RowsOf(TheRing) \o [i \in 1..Len(frames) |->
                                     [seq |-> nextSeq + i - 1, frame |-> frames[i]]], Capacity)
             /\ a.nextSeq = nextSeq + Len(frames)
             /\ a.size + a.dropped = size + Len(frames)
<1> DEFINE N == Len(frames)
           E(i) == [seq |-> nextSeq + i - 1, frame |-> frames[i]]
           s == RowsOf(TheRing)
           All(n) == s \o [i \in 1..n |-> E(i)]
<1>0. N \in Nat /\ Capacity \in Nat \ {0} BY TraceBounds
<1>1. PICK g \in [0..N -> GoodRings] :
        /\ g[0] = TheRing
        /\ \A n \in 1..N : g[n] = Trace!AppendFrame(g[n - 1], frames[n])
        /\ Trace!append(frames) = g[N]
  BY AppendRuns
<1> DEFINE Inv(n) == /\ RowsOf(g[n]) = Newest(All(n), Capacity)
                     /\ g[n].nextSeq = nextSeq + n
                     /\ g[n].size + g[n].dropped = size + n
           S == {n \in Nat : n <= N => Inv(n)}
<1>2. /\ TheRing \in Rings /\ s \in Seq(Rows) /\ Len(s) = size /\ size \in 0..Capacity
      /\ nextSeq \in Nat
  <2>1. TheRing \in Rings /\ s \in Seq(Rows) BY DEF GoodRing
  <2>2. Len(s) = TheRing.size /\ TheRing.size \in 0..Capacity /\ TheRing.nextSeq \in Nat
    BY <2>1, RowIsAt
  <2>3. TheRing.size = size /\ TheRing.nextSeq = nextSeq BY DEF TheRing
  <2> QED BY <2>1, <2>2, <2>3
<1> HIDE DEF s
<1>3. \A n \in 0..N : GoodRing(g[n]) BY DEF GoodRings, GoodRing
<1>4. \A i \in 1..N : E(i) \in Rows BY <1>2 DEF Rows
<1>5. ASSUME NEW n \in 0..N
      PROVE  /\ All(n) \in Seq(Rows)
             /\ n + 1 <= N => All(n + 1) = Append(All(n), E(n + 1))
  <2> HIDE DEF E
  <2> DEFINE x == [i \in 1..n |-> E(i)]
             y == [i \in 1..(n + 1) |-> E(i)]
  <2>0. n \in Nat BY <1>0
  <2>1. x \in Seq(Rows) /\ Len(x) = n BY <1>0, <1>4
  <2>2. All(n) \in Seq(Rows) BY <1>2, <2>1
  <2>3. n + 1 <= N => All(n + 1) = Append(All(n), E(n + 1))
    <3> SUFFICES ASSUME n + 1 <= N PROVE s \o y = Append(s \o x, E(n + 1))
      OBVIOUS
    <3>1. y = Append(x, E(n + 1))
      <4>1. E(n + 1) \in Rows BY <1>4, <2>0
      <4>2. /\ Append(x, E(n + 1)) \in Seq(Rows) /\ Len(Append(x, E(n + 1))) = n + 1
            /\ \A i \in 1..n : Append(x, E(n + 1))[i] = E(i)
            /\ Append(x, E(n + 1))[n + 1] = E(n + 1)
        BY <2>0, <2>1, <4>1
      <4>3. y \in Seq(Rows) /\ Len(y) = n + 1 BY <1>4, <2>0
      <4> DEFINE z == Append(x, E(n + 1))
      <4>4. \A i \in 1..(n + 1) : y[i] = z[i]
        <5> HIDE DEF z, x
        <5> SUFFICES ASSUME NEW i \in 1..(n + 1) PROVE y[i] = z[i] OBVIOUS
        <5>1. CASE i = n + 1 BY <4>2, <5>1 DEF z
        <5>2. CASE i # n + 1
          <6>1. i \in 1..n BY <2>0, <5>2
          <6> QED BY <4>2, <6>1 DEF z
        <5> QED BY <5>1, <5>2
      <4>5. z \in Seq(Rows) /\ Len(z) = n + 1 BY <4>2
      <4> HIDE DEF z, y
      <4>6. y = z BY <4>3, <4>4, <4>5
      <4> QED BY <4>6 DEF z
    <3>2. E(n + 1) \in Rows BY <1>4, <2>0
    <3> HIDE DEF x, y
    <3> QED BY <1>2, <2>1, <3>1, <3>2
  <2> QED BY <2>2, <2>3
<1>6. 0 \in S
  <2>1. All(0) = s
    <3>1. [i \in 1..0 |-> E(i)] = <<>> OBVIOUS
    <3> HIDE DEF E
    <3> QED BY <1>2, <3>1
  <2>2. Newest(s, Capacity) = s BY <1>0, <1>2, NewestIs
  <2>3. g[0].nextSeq = nextSeq /\ g[0].size = size /\ g[0].dropped = 0
    BY <1>1 DEF TheRing
  <2>4. RowsOf(g[0]) = s BY <1>1 DEF s
  <2>5. Inv(0)
    <3> HIDE DEF All
    <3> QED BY <1>2, <2>1, <2>2, <2>3, <2>4
  <2> HIDE DEF Inv
  <2> QED BY <2>5
<1>7. ASSUME NEW n \in Nat, n \in S PROVE n + 1 \in S
  <2> SUFFICES ASSUME n + 1 <= N PROVE Inv(n + 1)
    <3> HIDE DEF Inv
    <3> QED OBVIOUS
  <2>1. n \in 0..N /\ n + 1 \in 1..N /\ (n + 1) - 1 = n /\ n <= N BY <1>0
  <2>2. Inv(n)
    <3> HIDE DEF Inv
    <3> QED BY <1>7, <2>1
  <2>3. g[n + 1] = Trace!AppendFrame(g[n], frames[n + 1]) /\ frames[n + 1] \in Frames
    BY <1>1, <2>1
  <2>4. GoodRing(g[n]) BY <1>3, <2>1
  <2>5. /\ RowsOf(g[n + 1]) = Newest(Append(RowsOf(g[n]), [seq |-> g[n].nextSeq, frame |-> frames[n + 1]]), Capacity)
        /\ g[n + 1].nextSeq = g[n].nextSeq + 1
        /\ g[n + 1].size + g[n + 1].dropped = g[n].size + g[n].dropped + 1
    BY <2>3, <2>4, AppendRow
  <2>6. [seq |-> g[n].nextSeq, frame |-> frames[n + 1]] = E(n + 1)
    <3>1. g[n].nextSeq = nextSeq + (n + 1) - 1 BY <1>2, <2>2
    <3> QED BY <3>1
  <2>7. RowsOf(g[n + 1]) = Newest(All(n + 1), Capacity)
    <3>1. All(n) \in Seq(Rows) /\ All(n + 1) = Append(All(n), E(n + 1)) BY <1>5, <2>1
    <3>2. E(n + 1) \in Rows BY <1>4, <2>1
    <3>3. RowsOf(g[n]) = Newest(All(n), Capacity) BY <2>2
    <3> HIDE DEF All, E
    <3>4. Newest(Append(Newest(All(n), Capacity), E(n + 1)), Capacity)
            = Newest(Append(All(n), E(n + 1)), Capacity)
      BY <1>0, <3>1, <3>2, NewestAgain
    <3> QED BY <2>5, <2>6, <3>1, <3>3, <3>4
  <2>8. g[n + 1].nextSeq = nextSeq + (n + 1) BY <1>2, <2>2, <2>5
  <2>9. g[n + 1].size + g[n + 1].dropped = size + (n + 1) BY <1>2, <2>2, <2>5
  <2> QED BY <2>7, <2>8, <2>9
<1> HIDE DEF S, Inv
<1>8. \A n \in Nat : n \in S BY <1>6, <1>7, Induction
<1>9. Inv(N) BY <1>0, <1>8 DEF S
<1>10. GoodRing(g[N]) BY <1>0, <1>3
<1> QED BY <1>1, <1>9, <1>10 DEF Inv, s

TheRows == [row \in 1..size |-> Trace!at(row - 1)]

LEMMA TheRowsAre ==
  ASSUME GoodRing(TheRing)
  PROVE  /\ TheRows = RowsOf(TheRing) /\ TheRows \in Seq(Rows) /\ Len(TheRows) = size
         /\ size \in 0..Capacity /\ DOMAIN TheRows = 1..size
<1>1. TheRows = RowsOf(TheRing) BY DEF TheRows, Trace!at, RowsOf, TheRing
<1>2. TheRing \in Rings /\ RowsOf(TheRing) \in Seq(Rows) BY DEF GoodRing
<1>3. TheRing.size = size BY DEF TheRing
<1> QED BY <1>1, <1>2, <1>3, RowIsAt

(* The viewport shows the newest of the rows that match. *)
WindowInv == Trace!paintVisibleWindow = Trace!Log!Visible(TheRows, filter)

LEMMA WindowIsVisible == TraceInv => WindowInv
<1> SUFFICES ASSUME TraceInv
             PROVE  Trace!paintVisibleWindow = Trace!Log!Visible(TheRows, filter)
  BY DEF WindowInv
<1> DEFINE I == [i \in 1..size |-> i - 1]
           S == {i \in 1..size : TheRows[i].frame \in filter}
           K == Filtered(TheRows, S)
           J == Trace!collectMatchingIndices
           count == Len(J)
           start == IF count > Budget THEN count - Budget ELSE 0
<1>0. Budget \in Nat \ {0} BY TraceBounds
<1>1. /\ TheRows \in Seq(Rows) /\ Len(TheRows) = size /\ size \in Nat
      /\ DOMAIN TheRows = 1..size
  <2>1. /\ TheRows \in Seq(Rows) /\ Len(TheRows) = size /\ size \in 0..Capacity
        /\ DOMAIN TheRows = 1..size
    BY TheRowsAre DEF TraceInv
  <2> QED BY <2>1, TraceBounds
<1>2. Trace!Log!Visible(TheRows, filter) = Newest(K, Budget)
  BY <1>1, SameFilters DEF Trace!Log!Visible, Newest
<1>3. \A i \in 1..size : TheRows[i] = Trace!at(i - 1) /\ I[i] = i - 1 BY DEF TheRows
<1>4. S \in SUBSET (1..size) OBVIOUS
<1>5. J = IF filter = Frames THEN I ELSE Filtered(I, S)
  <2>1. Trace!collectMatchingIndices
          = IF filter = Frames THEN I
            ELSE Filtered(I, {i \in 1..size : Trace!at(I[i]).frame \in filter})
    BY SameFilters DEF Trace!collectMatchingIndices
  <2>2. {i \in 1..size : Trace!at(I[i]).frame \in filter} = S BY <1>3
  <2> QED BY <2>1, <2>2
<1> HIDE DEF J, S
<1>6. /\ J \in Seq(Nat) /\ K \in Seq(Rows) /\ Len(J) = Len(K)
      /\ \A k \in 1..Len(K) : K[k] = Trace!at(J[k])
  <2>1. CASE filter = Frames
    <3>1. S = 1..size
      <4>1. \A i \in 1..size : TheRows[i] \in Rows BY <1>1
      <4>2. \A e \in Rows : e.frame \in Frames BY DEF Rows
      <4> QED BY <2>1, <4>1, <4>2 DEF S
    <3>2. K = TheRows BY <1>1, <3>1, FilteredAll
    <3>3. J = I BY <1>5, <2>1
    <3>4. I \in Seq(Nat) /\ Len(I) = size BY <1>1
    <3> HIDE DEF I, K
    <3> QED BY <1>1, <1>3, <3>2, <3>3, <3>4
  <2>2. CASE filter # Frames
    <3> DEFINE n == Cardinality(S)
               P == PlaceOf(S)
    <3>1. P \in [1..n -> S] /\ n \in Nat BY <1>1, <1>4, Places
    <3>2. K = [k \in 1..n |-> TheRows[P[k]]] BY FilteredPlaces
    <3>3. J = [k \in 1..n |-> I[P[k]]] BY <1>5, <2>2, FilteredPlaces
    <3> HIDE DEF K, I, P, n
    <3>4. \A k \in 1..n : P[k] \in 1..size BY <1>4, <3>1
    <3>5. \A k \in 1..n : I[P[k]] = P[k] - 1 /\ P[k] - 1 \in Nat
                          /\ TheRows[P[k]] = Trace!at(P[k] - 1) /\ TheRows[P[k]] \in Rows
      BY <1>1, <1>3, <3>4
    <3>6. J \in Seq(Nat) /\ Len(J) = n BY <3>1, <3>3, <3>5
    <3>7. K \in Seq(Rows) /\ Len(K) = n BY <3>1, <3>2, <3>5
    <3>8. \A k \in 1..n : K[k] = Trace!at(J[k]) BY <3>2, <3>3, <3>5
    <3> QED BY <3>6, <3>7, <3>8
  <2> QED BY <2>1, <2>2
<1> HIDE DEF K
<1>7. Trace!paintVisibleWindow
        = [row \in 1..(count - start) |-> Trace!at(J[start + row])]
  BY DEF Trace!paintVisibleWindow, J
<1>8. count \in Nat /\ count = Len(K) BY <1>6
<1>9. CASE count > Budget
  <2>1. start = count - Budget /\ count - start = Budget BY <1>0, <1>8, <1>9
  <2>2. Newest(K, Budget) = [k \in 1..Budget |-> K[k + (count - Budget)]]
    BY <1>0, <1>6, <1>8, <1>9, NewestIs, SMTT(60)
  <2> HIDE DEF start
  <2>3. ASSUME NEW k \in 1..Budget
        PROVE  K[k + (count - Budget)] = Trace!at(J[start + k])
    <3>1. k + (count - Budget) \in 1..Len(K) /\ start + k = k + (count - Budget)
      BY <1>0, <1>8, <1>9, <2>1
    <3> QED BY <1>6, <3>1
  <2> QED BY <1>2, <1>7, <2>1, <2>2, <2>3
<1>10. CASE ~(count > Budget)
  <2>1. start = 0 /\ count - start = count BY <1>8, <1>10
  <2>2. Newest(K, Budget) = K BY <1>0, <1>6, <1>8, <1>10, NewestIs
  <2>3. K = [k \in 1..count |-> K[k]] BY <1>6, <1>8
  <2> HIDE DEF start
  <2>4. ASSUME NEW k \in 1..count PROVE K[k] = Trace!at(J[start + k])
    <3>1. start + k = k BY <1>8, <2>1
    <3> QED BY <1>6, <1>8, <3>1
  <2> QED BY <1>2, <1>7, <2>1, <2>2, <2>3, <2>4
<1> QED BY <1>9, <1>10

LEMMA TraceStart == Trace!Init => TraceInv /\ Trace!Log!Init
<1> SUFFICES ASSUME Trace!Init PROVE TraceInv /\ Trace!Log!Init
  OBVIOUS
<1>0. Capacity \in Nat \ {0} /\ Budget \in Nat \ {0} BY TraceBounds
<1>1. /\ slots = [slot \in 0..(Capacity - 1) |-> None] /\ head = 0 /\ size = 0 /\ nextSeq = 1
      /\ uiDropped = 0 /\ filter \in Filters
  BY DEF Trace!Init, Trace!EmptyRing
<1>2. TheRing \in Rings BY <1>0, <1>1 DEF TheRing, Rings
<1>3. RowsOf(TheRing) = <<>> BY <1>1 DEF TheRing, RowsOf
<1>4. TraceInv BY <1>1, <1>2, <1>3 DEF TraceInv, GoodRing
<1>5. TheRows = <<>> BY <1>1 DEF TheRows
<1>6. Trace!Log!Visible(<<>>, filter) = <<>>
  <2>1. Filtered(<<>>, {}) = <<>>
    <3>1. <<>> \in Seq(Rows) /\ Len(<<>>) = 0 /\ 1..0 = {} OBVIOUS
    <3> QED BY <3>1, FilteredAll
  <2>2. {i \in DOMAIN <<>> : <<>>[i].frame \in filter} = {} OBVIOUS
  <2>3. Trace!Log!Visible(<<>>, filter) = Newest(Filtered(<<>>, {}), Budget)
    BY <2>2, SameFilters DEF Trace!Log!Visible, Newest
  <2>4. <<>> \in Seq(Rows) /\ Len(<<>>) <= Budget BY <1>0
  <2>5. Newest(<<>>, Budget) = <<>> BY <1>0, <2>4, NewestIs
  <2> QED BY <2>1, <2>3, <2>5
<1>7. Trace!paintVisibleWindow = <<>> BY <1>4, <1>5, <1>6, WindowIsVisible DEF WindowInv
<1> QED BY <1>1, <1>4, <1>5, <1>7 DEF Trace!Log!Init, TheRows

(* Whatever leaves an empty ring. *)
LEMMA EmptyRows ==
  ASSUME TraceInv, head' = 0, size' = 0, slots' = slots, nextSeq' = nextSeq
  PROVE  GoodRing(TheRing') /\ TheRows' = <<>>
<1>0. Capacity \in Nat \ {0} BY TraceBounds
<1>1. TheRing \in Rings BY DEF TraceInv, GoodRing
<1>2. slots \in [0..(Capacity - 1) -> Rows \cup {None}] /\ nextSeq \in Nat
  BY <1>1 DEF Rings, TheRing
<1>3. TheRing' \in Rings BY <1>0, <1>2 DEF Rings, TheRing
<1>4. RowsOf(TheRing') = <<>> /\ TheRows' = <<>> BY DEF RowsOf, TheRing, TheRows
<1> QED BY <1>3, <1>4 DEF GoodRing

LEMMA TraceReceive ==
  ASSUME TraceInv, NEW frames \in Trace!SeqOf(Frames, TraceBatch), NEW dropped,
         Trace!appendBatch(frames, dropped), ~(paused \/ frames = <<>>)
  PROVE  TraceInv' /\ Trace!Log!Receive
<1> DEFINE a == Trace!append(frames)
           N == Len(frames)
           all == RowsOf(TheRing) \o [i \in 1..N |-> [seq |-> nextSeq + i - 1, frame |-> frames[i]]]
<1>0. Capacity \in Nat \ {0} BY TraceBounds
<1>1. frames \in Seq(Frames) /\ N \in Nat
  <2>1. PICK m \in 0..TraceBatch : frames \in [1..m -> Frames] BY DEF Trace!SeqOf
  <2>2. m \in Nat BY TraceBounds
  <2> QED BY <2>1, <2>2
<1>2. /\ GoodRing(a) /\ RowsOf(a) = Newest(all, Capacity)
      /\ a.nextSeq = nextSeq + N /\ a.size + a.dropped = size + N
  BY <1>1, AppendRows DEF TraceInv
<1>3. /\ slots' = a.slots /\ head' = a.head /\ size' = a.size /\ nextSeq' = a.nextSeq
      /\ uiDropped' = uiDropped + a.dropped /\ UNCHANGED filter
  BY DEF Trace!appendBatch
<1> HIDE DEF a
<1>4. /\ a.slots \in [0..(Capacity - 1) -> Rows \cup {None}] /\ a.head \in 0..(Capacity - 1)
      /\ a.size \in 0..Capacity /\ a.nextSeq \in Nat /\ a.dropped \in Nat
      /\ Len(RowsOf(a)) = a.size
  <2>1. a \in Rings BY <1>2 DEF GoodRing
  <2> QED BY <2>1, RowIsAt
<1>5. TheRing' = [slots |-> a.slots, head |-> a.head, size |-> a.size, nextSeq |-> a.nextSeq,
                  dropped |-> 0]
  BY <1>3 DEF TheRing
<1>6. TheRing' \in Rings BY <1>4, <1>5 DEF Rings
<1>7. RowsOf(TheRing') = RowsOf(a) BY <1>5 DEF RowsOf
<1>8. GoodRing(TheRing') BY <1>2, <1>6, <1>7 DEF GoodRing
<1>9. uiDropped' \in Nat BY <1>3, <1>4 DEF TraceInv
<1>10. TraceInv' BY <1>3, <1>8, <1>9 DEF TraceInv
<1>11. TheRows' = RowsOf(a)
  <2>1. TheRows' = RowsOf(TheRing') BY DEF TheRows, Trace!at, RowsOf, TheRing
  <2> QED BY <1>7, <2>1
<1>12. TheRows = RowsOf(TheRing) /\ Len(TheRows) = size /\ size \in 0..Capacity
       /\ TheRows \in Seq(Rows)
  BY TheRowsAre DEF TraceInv
<1>13. Len(all) = size + N
  <2> DEFINE x == [i \in 1..N |-> [seq |-> nextSeq + i - 1, frame |-> frames[i]]]
  <2>1. x \in Seq(Rows) /\ Len(x) = N
    <3>1. nextSeq \in Nat
      <4>1. TheRing \in Rings BY DEF TraceInv, GoodRing
      <4> QED BY <4>1 DEF Rings, TheRing
    <3>2. \A i \in 1..N : [seq |-> nextSeq + i - 1, frame |-> frames[i]] \in Rows
      BY <1>1, <3>1 DEF Rows
    <3> HIDE DEF N
    <3> QED BY <1>1, <3>2
  <2> HIDE DEF x, N
  <2>2. Len(TheRows \o x) = Len(TheRows) + N BY <1>12, <2>1
  <2> QED BY <1>12, <2>2 DEF x
<1>14. uiDropped' = uiDropped + Len(all) - Len(TheRows')
  <2> HIDE DEF all, N
  <2>1. uiDropped \in Nat BY DEF TraceInv
  <2>2. size \in Nat BY <1>0, <1>12
  <2>3. Len(TheRows') = a.size BY <1>4, <1>11
  <2>4. a.size \in Nat /\ a.dropped \in Nat BY <1>0, <1>4
  <2>5. a.dropped = Len(all) - a.size BY <1>1, <1>2, <1>13, <2>2, <2>4
  <2> QED BY <1>3, <1>1, <1>13, <2>1, <2>2, <2>3, <2>4, <2>5
<1>15. all = TheRows \o [i \in 1..N |-> [seq |-> nextSeq + i - 1, frame |-> frames[i]]]
  BY <1>12
<1>16. TheRows' = Trace!Log!Newest(all, Capacity) BY <1>2, <1>11 DEF Newest
<1>17. nextSeq' = nextSeq + N BY <1>2, <1>3
<1>18. frames \in Trace!Log!SeqOf(Frames, TraceBatch) BY DEF Trace!SeqOf, Trace!Log!SeqOf
<1> HIDE DEF all
<1>19. \E received \in Trace!Log!SeqOf(Frames, TraceBatch) :
         LET every == TheRows \o [i \in 1..Len(received) |-> [seq |-> nextSeq + i - 1,
                                                              frame |-> received[i]]]
         IN  /\ TheRows' = Trace!Log!Newest(every, Capacity)
             /\ nextSeq' = nextSeq + Len(received)
             /\ uiDropped' = uiDropped + Len(every) - Len(TheRows')
             /\ UNCHANGED filter
  BY <1>3, <1>14, <1>15, <1>16, <1>17, <1>18
<1> QED BY <1>10, <1>19 DEF Trace!Log!Receive, TheRows

LEMMA TraceStep ==
  TraceInv /\ [PartsNext]_partsVars => TraceInv' /\ [Trace!Log!Next]_(Trace!Log!vars)
<1> SUFFICES ASSUME TraceInv, [PartsNext]_partsVars
             PROVE  TraceInv' /\ [Trace!Log!Next]_(Trace!Log!vars)
  OBVIOUS
<1>1. GoodRing(TheRing) /\ uiDropped \in Nat /\ filter \in Filters
  BY DEF TraceInv
<1>2. TraceInv' => Trace!paintVisibleWindow' = Trace!Log!Visible(TheRows', filter')
  <2>1. TraceInv' => WindowInv' BY WindowIsVisible, PTL
  <2> QED BY <2>1 DEF WindowInv
<1>3. ASSUME UNCHANGED <<slots, head, size, nextSeq, uiDropped, filter>>
      PROVE  TraceInv' /\ UNCHANGED Trace!Log!vars
  <2>1. TraceInv' BY <1>3 DEF TraceInv, TheRing
  <2>2. TheRows' = TheRows BY <1>3 DEF TheRows, Trace!at
  <2>3. Trace!paintVisibleWindow' = Trace!paintVisibleWindow
    BY <1>2, <1>3, <2>1, <2>2, WindowIsVisible DEF WindowInv
  <2> QED BY <1>3, <2>1, <2>2, <2>3 DEF Trace!Log!vars, TheRows
<1>4. ASSUME TraceInv', Trace!Log!Receive \/ Trace!Log!Clear \/ Trace!Log!Search
      PROVE  Trace!Log!Next
  BY <1>2, <1>4 DEF Trace!Log!Next, TheRows
<1>5. CASE \E frames \in Trace!SeqOf(Frames, TraceBatch), dropped \in 0..1 :
             Trace!appendBatch(frames, dropped)
  <2>1. PICK frames \in Trace!SeqOf(Frames, TraceBatch), dropped \in 0..1 :
          Trace!appendBatch(frames, dropped)
    BY <1>5
  <2>2. CASE paused \/ frames = <<>>
    <3>1. UNCHANGED <<slots, head, size, nextSeq, uiDropped, filter>>
      BY <2>1, <2>2 DEF Trace!appendBatch, Trace!ring
    <3> QED BY <1>3, <3>1
  <2>3. CASE ~(paused \/ frames = <<>>)
    <3>1. TraceInv' /\ Trace!Log!Receive BY <2>1, <2>3, TraceReceive
    <3> QED BY <1>4, <3>1
  <2> QED BY <2>2, <2>3
<1>6. CASE Trace!clear \/ Trace!reset
  <2>1. /\ head' = 0 /\ size' = 0 /\ slots' = slots /\ nextSeq' = nextSeq
        /\ uiDropped' = 0 /\ filter' = filter
    BY <1>6 DEF Trace!clear, Trace!reset, Trace!ClearRing
  <2>2. GoodRing(TheRing') /\ TheRows' = <<>> BY <2>1, EmptyRows
  <2>3. TraceInv' BY <1>1, <2>1, <2>2 DEF TraceInv
  <2>4. Trace!Log!Clear BY <2>1, <2>2 DEF Trace!Log!Clear, TheRows
  <2> QED BY <1>4, <2>3, <2>4
<1>7. CASE \E on \in BOOLEAN : Trace!setPaused(on)
  <2>1. UNCHANGED <<slots, head, size, nextSeq, uiDropped, filter>>
    BY <1>7 DEF Trace!setPaused, Trace!ring
  <2> QED BY <1>3, <2>1
<1>8. CASE \E query \in Filters : Trace!setFilter(query)
  <2>1. PICK query \in Filters : Trace!setFilter(query) BY <1>8
  <2>2. UNCHANGED <<slots, head, size, nextSeq, uiDropped>> /\ filter' \in Filters
    BY <2>1 DEF Trace!setFilter, Trace!ring
  <2>3. TraceInv' BY <2>2 DEF TraceInv, TheRing
  <2>4. TheRows' = TheRows BY <2>2 DEF TheRows, Trace!at
  <2>5. Trace!Log!Search BY <2>2, <2>4 DEF Trace!Log!Search, TheRows
  <2> QED BY <1>4, <2>3, <2>5
<1>9. CASE UNCHANGED traceVars
  <2>1. UNCHANGED <<slots, head, size, nextSeq, uiDropped, filter>> BY <1>9 DEF traceVars
  <2> QED BY <1>3, <2>1
<1>10. CASE Trace!Next BY <1>5, <1>6, <1>7, <1>8, <1>10 DEF Trace!Next
<1> QED BY <1>9, <1>10 DEF PartsNext, partsVars

(* The ring shows what the log of the newest frames shows, for any capacity,  *)
(* any row budget and batches of any length, longer than the ring included.   *)
THEOREM RingKeepsTheLog == PartsSpec => KeepsTheLog
<1>1. PartsInit => TraceInv /\ Trace!Log!Init BY TraceStart DEF PartsInit
<1>2. TraceInv /\ [PartsNext]_partsVars => TraceInv' /\ [Trace!Log!Next]_(Trace!Log!vars)
  BY TraceStep
<1> QED BY <1>1, <1>2, PTL DEF PartsSpec, KeepsTheLog, Trace!KeepsTheLog, Trace!Log!Spec

-----------------------------------------------------------------------------
(* The decoder.  What is in the buffer and the socket is what was sent and    *)
(* not dispatched.                                                            *)
Byte == [of : Nat, place : Nat]

(* A list of lists, one after the other. *)
LEMMA FlattenRuns ==
  ASSUME NEW X, NEW ss \in Seq(Seq(X))
  PROVE  \E g \in [0..Len(ss) -> Seq(X)] :
            /\ g[0] = <<>>
            /\ \A n \in 1..Len(ss) : g[n] = g[n - 1] \o ss[n]
            /\ Decoder!FlattenSeq(ss) = g[Len(ss)]
<1> DEFINE N == Len(ss)
           Y == Seq(X)
           step == [n \in 1..N |-> [s \in Y |-> s \o ss[n]]]
           Body(f) == [i \in 1..N |-> IF i = 1 THEN ss[i] ELSE f[i - 1] \o ss[i]]
<1>1. N \in Nat /\ \A n \in 1..N : ss[n] \in Y OBVIOUS
<1>2. step \in Turns(N, Y)
  <2>1. ASSUME NEW n \in 1..N, NEW s \in Y PROVE s \o ss[n] \in Y BY <1>1
  <2> HIDE DEF Y, N
  <2> QED BY <2>1 DEF Turns
<1>3. PICK g \in [0..N -> Y] : g[0] = <<>> /\ \A n \in 1..N : g[n] = step[n][g[n - 1]]
  <2> DEFINE empty == <<>>
  <2>1. empty \in Y OBVIOUS
  <2> HIDE DEF step, Y, N, empty
  <2>2. \E g \in [0..N -> Y] : g[0] = empty /\ \A n \in 1..N : g[n] = step[n][g[n - 1]]
    <3>1. Loop(empty, N, step, Y) BY <1>1, <1>2, <2>1 DEF Loop
    <3>2. Runs(empty, N, step, Y) # {} BY <3>1, LoopRuns
    <3> QED BY <3>2 DEF Runs
  <2> QED BY <2>2 DEF empty
<1>4. \A n \in 1..N : g[n] = g[n - 1] \o ss[n]
  <2> HIDE DEF Y, N
  <2>1. \A n \in 1..N : g[n - 1] \in Y BY <1>1
  <2> QED BY <1>3, <2>1
<1>5. CASE N = 0
  <2>1. ss = <<>> BY <1>5
  <2>2. Decoder!FlattenSeq(ss) = <<>> BY <2>1 DEF Decoder!FlattenSeq
  <2> QED BY <1>3, <1>4, <1>5, <2>2
<1>6. CASE N # 0
  <2> DEFINE gg == [i \in 1..N |-> g[i]]
             f == CHOOSE h : h = Body(h)
  <2>1. gg = Body(gg)
    <3>1. ASSUME NEW i \in 1..N PROVE gg[i] = IF i = 1 THEN ss[i] ELSE gg[i - 1] \o ss[i]
      <4>1. CASE i = 1
        <5>1. g[1] = <<>> \o ss[1] /\ ss[1] \in Y
          <6>1. 1 \in 1..N /\ 1 - 1 = 0 BY <4>1
          <6> HIDE DEF Y, N
          <6> QED BY <1>1, <1>3, <1>4, <6>1
        <5>2. <<>> \o ss[1] = ss[1] BY <5>1
        <5> QED BY <4>1, <5>1, <5>2
      <4>2. CASE i # 1
        <5>1. i - 1 \in 1..N BY <1>1, <4>2
        <5> QED BY <1>4, <4>2, <5>1
      <4> QED BY <4>1, <4>2
    <3> HIDE DEF N
    <3> QED BY <3>1
  <2>2. f = Body(f)
    <3> HIDE DEF Body, gg
    <3> QED BY <2>1
  <2> HIDE DEF f
  <2>3. \A n \in Nat : n + 1 <= N => f[n + 1] = g[n + 1]
    <3> DEFINE S == {n \in Nat : n + 1 <= N => f[n + 1] = g[n + 1]}
    <3>1. 0 \in S
      <4>1. 1 \in 1..N /\ f[1] = ss[1] BY <1>1, <1>6, <2>2
      <4>2. gg[1] = ss[1] BY <2>1, <4>1
      <4> QED BY <4>1, <4>2
    <3>2. ASSUME NEW n \in Nat, n \in S PROVE n + 1 \in S
      <4> SUFFICES ASSUME (n + 1) + 1 <= N PROVE f[(n + 1) + 1] = g[(n + 1) + 1] OBVIOUS
      <4> DEFINE m == n + 2
      <4>1. m \in 1..N /\ m # 1 /\ m - 1 = n + 1 /\ n + 1 <= N /\ (n + 1) + 1 = m BY <1>1
      <4>2. f[n + 1] = g[n + 1] BY <3>2, <4>1
      <4> HIDE DEF m
      <4>3. f[m] = f[m - 1] \o ss[m] BY <2>2, <4>1
      <4> QED BY <1>4, <4>1, <4>2, <4>3
    <3> HIDE DEF S
    <3>3. \A n \in Nat : n \in S BY <3>1, <3>2, Induction
    <3> QED BY <3>3 DEF S
  <2>4. f[N] = g[N]
    <3>1. N - 1 \in Nat /\ (N - 1) + 1 = N BY <1>1, <1>6
    <3> HIDE DEF N
    <3> QED BY <2>3, <3>1
  <2>5. Decoder!FlattenSeq(ss) = f[N] BY <1>6 DEF Decoder!FlattenSeq, f
  <2> QED BY <1>3, <1>4, <2>4, <2>5
<1> QED BY <1>5, <1>6

LEMMA Glued ==
  ASSUME NEW X, NEW a \in Seq(X), NEW b \in Seq(X), NEW c \in Seq(X)
  PROVE  (a \o b) \o c = a \o (b \o c)
OBVIOUS

LEMMA FlattenAppend ==
  ASSUME NEW X, NEW ss \in Seq(Seq(X)), NEW s \in Seq(X)
  PROVE  Decoder!FlattenSeq(Append(ss, s)) = Decoder!FlattenSeq(ss) \o s
<1> DEFINE N == Len(ss)
           Y == Seq(X)
           tt == Append(ss, s)
<1>0. N \in Nat OBVIOUS
<1>1. PICK g \in [0..N -> Y] :
        /\ g[0] = <<>> /\ \A n \in 1..N : g[n] = g[n - 1] \o ss[n]
        /\ Decoder!FlattenSeq(ss) = g[N]
  BY FlattenRuns
<1>2. /\ tt \in Seq(Y) /\ Len(tt) = N + 1 /\ \A n \in 1..N : tt[n] = ss[n]
      /\ tt[N + 1] = s
  <2>1. ss \in Seq(Y) /\ s \in Y OBVIOUS
  <2> HIDE DEF Y
  <2> QED BY <2>1
<1> HIDE DEF tt
<1>3. PICK h \in [0..(N + 1) -> Y] :
        /\ h[0] = <<>> /\ \A n \in 1..(N + 1) : h[n] = h[n - 1] \o tt[n]
        /\ Decoder!FlattenSeq(tt) = h[N + 1]
  BY <1>2, FlattenRuns
<1> HIDE DEF Y, N
<1>4. \A n \in Nat : n <= N => h[n] = g[n]
  <2> DEFINE S == {n \in Nat : n <= N => h[n] = g[n]}
  <2>1. 0 \in S BY <1>1, <1>3
  <2>2. ASSUME NEW n \in Nat, n \in S PROVE n + 1 \in S
    <3> SUFFICES ASSUME n + 1 <= N PROVE h[n + 1] = g[n + 1] OBVIOUS
    <3>1. n + 1 \in 1..N /\ n + 1 \in 1..(N + 1) /\ (n + 1) - 1 = n /\ n <= N BY <1>0
    <3>2. h[n] = g[n] BY <2>2, <3>1
    <3> QED BY <1>1, <1>2, <1>3, <3>1, <3>2
  <2> HIDE DEF S
  <2>3. \A n \in Nat : n \in S BY <2>1, <2>2, Induction
  <2> QED BY <2>3 DEF S
<1>5. h[N + 1] = h[N] \o s
  <2>1. N + 1 \in 1..(N + 1) /\ (N + 1) - 1 = N BY <1>0
  <2> QED BY <1>2, <1>3, <2>1
<1>6. h[N] = g[N] BY <1>0, <1>4
<1> QED BY <1>1, <1>3, <1>5, <1>6 DEF tt

(* The list tt is s and then what is in ss. *)
IsHeadOf(s, ss, tt) ==
    Len(tt) = Len(ss) + 1 /\ tt[1] = s /\ \A n \in 1..Len(ss) : tt[n + 1] = ss[n]

LEMMA FlattenHead ==
  ASSUME NEW X, NEW ss \in Seq(Seq(X)), NEW s \in Seq(X),
         NEW tt \in Seq(Seq(X)), IsHeadOf(s, ss, tt)
  PROVE  Decoder!FlattenSeq(tt) = s \o Decoder!FlattenSeq(ss)
<1> DEFINE N == Len(ss)
           Y == Seq(X)
<1>0. N \in Nat /\ \A n \in 1..N : ss[n] \in Y OBVIOUS
<1>1. PICK g \in [0..N -> Y] :
        /\ g[0] = <<>> /\ \A n \in 1..N : g[n] = g[n - 1] \o ss[n]
        /\ Decoder!FlattenSeq(ss) = g[N]
  BY FlattenRuns
<1>2. PICK h \in [0..(N + 1) -> Y] :
        /\ h[0] = <<>> /\ \A n \in 1..(N + 1) : h[n] = h[n - 1] \o tt[n]
        /\ Decoder!FlattenSeq(tt) = h[N + 1]
  <2>1. Len(tt) = N + 1 BY DEF IsHeadOf
  <2>2. \E h \in [0..Len(tt) -> Y] :
          /\ h[0] = <<>> /\ \A n \in 1..Len(tt) : h[n] = h[n - 1] \o tt[n]
          /\ Decoder!FlattenSeq(tt) = h[Len(tt)]
    BY FlattenRuns
  <2> HIDE DEF N
  <2> QED BY <2>1, <2>2
<1>3. \A n \in Nat : n <= N => h[n + 1] = s \o g[n]
  <2> DEFINE S == {n \in Nat : n <= N => h[n + 1] = s \o g[n]}
  <2>1. 0 \in S
    <3>1. 1 \in 1..(N + 1) /\ 1 - 1 = 0 BY <1>0
    <3>2. h[1] = <<>> \o s BY <1>2, <3>1 DEF IsHeadOf
    <3>3. <<>> \o s = s /\ s \o <<>> = s OBVIOUS
    <3> HIDE DEF N, Y
    <3> QED BY <1>1, <3>2, <3>3
  <2>2. ASSUME NEW n \in Nat, n \in S PROVE n + 1 \in S
    <3> SUFFICES ASSUME n + 1 <= N PROVE h[(n + 1) + 1] = s \o g[n + 1] OBVIOUS
    <3> DEFINE m == n + 1
    <3>1. /\ m \in 1..N /\ m + 1 \in 1..(N + 1) /\ (m + 1) - 1 = m /\ m - 1 = n /\ n <= N
          /\ n \in 0..N
      BY <1>0
    <3>2. h[m] = s \o g[n] BY <2>2, <3>1
    <3>3. h[m + 1] = h[m] \o tt[m + 1] /\ tt[m + 1] = ss[m]
      <4> HIDE DEF m, Y
      <4> QED BY <1>2, <3>1 DEF IsHeadOf
    <3>4. g[m] = g[n] \o ss[m] /\ g[n] \in Y /\ ss[m] \in Y
      <4> HIDE DEF m, N, Y
      <4> QED BY <1>0, <1>1, <3>1
    <3> HIDE DEF m, N
    <3>5. (s \o g[n]) \o ss[m] = s \o (g[n] \o ss[m])
      <4> DEFINE b == g[n]
                 c == ss[m]
      <4>1. s \in Seq(X) /\ b \in Seq(X) /\ c \in Seq(X) BY <3>4
      <4> HIDE DEF Y, b, c
      <4>2. (s \o b) \o c = s \o (b \o c) BY <4>1, Glued, SMTT(60)
      <4> QED BY <4>2 DEF b, c
    <3> HIDE DEF Y
    <3> QED BY <3>2, <3>3, <3>4, <3>5 DEF m
  <2> HIDE DEF S
  <2>3. \A n \in Nat : n \in S BY <2>1, <2>2, Induction
  <2> QED BY <2>3 DEF S
<1> HIDE DEF N, Y
<1>4. h[N + 1] = s \o g[N]
  <2>1. N \in Nat /\ N <= N BY <1>0
  <2> QED BY <1>3, <2>1
<1> QED BY <1>1, <1>2, <1>4

(* The bytes of the messages after the k-th. *)
Stream(list, k) ==
    Decoder!FlattenSeq([i \in 1..(Len(list) - k) |-> Decoder!Bytes(k + i, list[k + i])])

LEMMA MessageBytes ==
  ASSUME NEW i \in Nat, NEW message \in Decoder!Message
  PROVE  /\ message.length \in Nat
         /\ message.kind # "bad_length" => message.length \in 1..MaxFrame
         /\ message.kind = "bad_length" => message.length = 0 \/ message.length > MaxFrame
         /\ Decoder!Bytes(i, message) \in Seq(Byte)
         /\ Len(Decoder!Bytes(i, message)) = 4 + message.length
         /\ Decoder!Bytes(i, message)[1].of = i
<1>1. /\ message.length \in Nat
      /\ message.kind # "bad_length" => message.length \in 1..MaxFrame
      /\ message.kind = "bad_length" => message.length = 0 \/ message.length > MaxFrame
  BY DecoderBounds DEF Decoder!Message
<1> DEFINE n == 4 + message.length
<1>2. n \in Nat /\ n >= 4 BY <1>1
<1>3. Decoder!Bytes(i, message) = [place \in 1..n |-> [of |-> i, place |-> place]]
  BY DEF Decoder!Bytes, Decoder!HeaderBytes
<1> HIDE DEF n
<1>4. \A place \in 1..n : [of |-> i, place |-> place] \in Byte BY <1>2 DEF Byte
<1>5. Decoder!Bytes(i, message) \in Seq(Byte) /\ Len(Decoder!Bytes(i, message)) = n
  BY <1>2, <1>3, <1>4
<1>6. Decoder!Bytes(i, message)[1].of = i BY <1>2, <1>3
<1> QED BY <1>1, <1>5, <1>6 DEF n

LEMMA StreamIs ==
  ASSUME NEW list \in Seq(Decoder!Message), NEW k \in 0..Len(list)
  PROVE  /\ Stream(list, k) \in Seq(Byte)
         /\ k = Len(list) => Stream(list, k) = <<>>
         /\ k < Len(list) =>
              Stream(list, k) = Decoder!Bytes(k + 1, list[k + 1]) \o Stream(list, k + 1)
         /\ \A message \in Decoder!Message :
              Stream(Append(list, message), k)
                = Stream(list, k) \o Decoder!Bytes(Len(list) + 1, message)
<1> DEFINE L == Len(list)
           B(i) == Decoder!Bytes(k + i, list[k + i])
           ss == [i \in 1..(L - k) |-> B(i)]
<1>0. L \in Nat /\ k \in Nat /\ L - k \in Nat OBVIOUS
<1>1. ASSUME NEW i \in 1..(L - k) PROVE B(i) \in Seq(Byte)
  <2>1. k + i \in Nat /\ list[k + i] \in Decoder!Message BY <1>0
  <2> QED BY <2>1, MessageBytes
<1>2. ss \in Seq(Seq(Byte)) /\ Len(ss) = L - k
  <2> HIDE DEF B, L
  <2> QED BY <1>0, <1>1
<1>3. Stream(list, k) = Decoder!FlattenSeq(ss) BY DEF Stream
<1>4. Stream(list, k) \in Seq(Byte)
  <2> HIDE DEF ss
  <2>1. PICK g \in [0..Len(ss) -> Seq(Byte)] : Decoder!FlattenSeq(ss) = g[Len(ss)]
    BY <1>2, FlattenRuns
  <2> QED BY <1>0, <1>2, <1>3, <2>1, SMTT(60)
<1>5. ASSUME k = L PROVE Stream(list, k) = <<>>
  <2>1. ss = <<>> BY <1>0, <1>5
  <2> QED BY <1>3, <2>1 DEF Decoder!FlattenSeq
<1>6. ASSUME k < L PROVE Stream(list, k) = B(1) \o Stream(list, k + 1)
  <2> DEFINE C(i) == Decoder!Bytes((k + 1) + i, list[(k + 1) + i])
             uu == [i \in 1..(L - (k + 1)) |-> C(i)]
  <2>1. \A i \in 1..(L - (k + 1)) : C(i) = B(i + 1) /\ i + 1 \in 1..(L - k)
    <3> SUFFICES ASSUME NEW i \in 1..(L - (k + 1))
                 PROVE  (k + 1) + i = k + (i + 1) /\ i + 1 \in 1..(L - k)
      OBVIOUS
    <3> QED BY <1>0
  <2> HIDE DEF B, C
  <2>2. \A i \in 1..(L - (k + 1)) : C(i) \in Seq(Byte) BY <1>1, <2>1
  <2>3. L - (k + 1) \in Nat BY <1>0, <1>6
  <2> HIDE DEF L
  <2>4. uu \in Seq(Seq(Byte)) /\ Len(uu) = L - (k + 1) BY <2>2, <2>3
  <2>5. 1 \in 1..(L - k) /\ B(1) \in Seq(Byte) BY <1>0, <1>1, <1>6
  <2>6. IsHeadOf(B(1), uu, ss)
    <3>1. Len(ss) = Len(uu) + 1
      <4> HIDE DEF ss, uu
      <4> QED BY <1>0, <1>2, <2>4
    <3>2. ss[1] = B(1) BY <2>5
    <3>3. \A n \in 1..Len(uu) : ss[n + 1] = uu[n] BY <2>1, <2>4
    <3> QED BY <3>1, <3>2, <3>3 DEF IsHeadOf
  <2>7. Stream(list, k + 1) = Decoder!FlattenSeq(uu) BY DEF Stream, C, L
  <2> HIDE DEF ss, uu
  <2>8. Decoder!FlattenSeq(ss) = B(1) \o Decoder!FlattenSeq(uu)
    BY <1>2, <2>4, <2>5, <2>6, FlattenHead
  <2> QED BY <1>3, <2>7, <2>8
<1>7. ASSUME NEW message \in Decoder!Message
      PROVE  Stream(Append(list, message), k) = Stream(list, k) \o Decoder!Bytes(L + 1, message)
  <2> DEFINE m == Append(list, message)
             C(i) == Decoder!Bytes(k + i, m[k + i])
             uu == [i \in 1..(Len(m) - k) |-> C(i)]
             b == Decoder!Bytes(L + 1, message)
  <2>1. Len(m) = L + 1 /\ (\A i \in 1..L : m[i] = list[i]) /\ m[L + 1] = message
    OBVIOUS
  <2> HIDE DEF m
  <2>2. \A i \in 1..(L - k) : C(i) = B(i)
    <3> SUFFICES ASSUME NEW i \in 1..(L - k) PROVE m[k + i] = list[k + i]
      OBVIOUS
    <3>1. k + i \in 1..L BY <1>0
    <3> QED BY <2>1, <3>1
  <2>3. C((L - k) + 1) = b
    <3>1. k + ((L - k) + 1) = L + 1 BY <1>0
    <3> QED BY <2>1, <3>1
  <2>4. b \in Seq(Byte) BY <1>0, MessageBytes
  <2> DEFINE d == L - k
  <2>5. Len(m) - k = d + 1 /\ d \in Nat BY <1>0, <2>1
  <2> HIDE DEF L, B, C, b
  <2>6. uu = Append(ss, b)
    <3> DEFINE v == Append(ss, b)
    <3>1. ss \in Seq(Seq(Byte)) /\ Len(ss) = d /\ \A i \in 1..d : ss[i] = B(i) BY <1>2
    <3> HIDE DEF ss
    <3>2. v \in Seq(Seq(Byte)) /\ Len(v) = d + 1 /\ (\A i \in 1..d : v[i] = ss[i])
          /\ v[d + 1] = b
      BY <2>4, <2>5, <3>1
    <3>3. uu = [i \in 1..(d + 1) |-> C(i)] BY <2>5
    <3> HIDE DEF uu, v, d
    <3>4. v = [i \in 1..(d + 1) |-> v[i]] BY <2>5, <3>2
    <3>5. \A i \in 1..(d + 1) : v[i] = C(i)
      <4> SUFFICES ASSUME NEW i \in 1..(d + 1) PROVE v[i] = C(i) OBVIOUS
      <4>1. CASE i = d + 1 BY <2>3, <3>2, <4>1 DEF d
      <4>2. CASE i # d + 1
        <5>1. i \in 1..d BY <2>5, <4>2
        <5>2. C(i) = B(i) BY <2>2, <5>1 DEF d
        <5> QED BY <3>1, <3>2, <5>1, <5>2
      <4> QED BY <4>1, <4>2
    <3> QED BY <3>3, <3>4, <3>5 DEF v
  <2>7. Stream(m, k) = Decoder!FlattenSeq(uu) BY DEF Stream, C
  <2> HIDE DEF ss, uu
  <2>8. Decoder!FlattenSeq(Append(ss, b)) = Decoder!FlattenSeq(ss) \o b
    BY <1>2, <2>4, FlattenAppend
  <2> QED BY <1>3, <2>6, <2>7, <2>8 DEF m, b
<1> QED BY <1>4, <1>5, <1>6, <1>7

-----------------------------------------------------------------------------
(* The loop of push: what has been taken, and what is left of the stream. *)
DStates == [left : Seq(Byte), thrown : BOOLEAN, taken : Seq(Nat)]

Fits(d, rest, k) ==
    /\ k + Len(d.taken) <= Len(sent)
    /\ \A i \in 1..Len(d.taken) : d.taken[i] = k + i /\ sent[k + i].kind = "good"
    /\ ~d.thrown => d.left \o rest = Stream(sent, k + Len(d.taken))

Stuck(d) ==
    \/ d.thrown \/ Len(d.left) < 4
    \/ /\ sent[Head(d.left).of].length \in 1..MaxFrame
       /\ Len(d.left) < 4 + sent[Head(d.left).of].length

Drop(s, n) == SubSeq(s, n + 1, Len(s))

Join(a, b) == a \o b

LEMMA Concat ==
  ASSUME NEW X, NEW a \in Seq(X), NEW b \in Seq(X)
  PROVE  /\ Join(a, b) \in Seq(X) /\ Len(Join(a, b)) = Len(a) + Len(b)
         /\ \A k \in 1..Len(a) : Join(a, b)[k] = a[k]
         /\ \A k \in 1..Len(b) : Join(a, b)[Len(a) + k] = b[k]
BY DEF Join

LEMMA JoinedAt ==
  ASSUME NEW X, NEW a \in Seq(X), NEW b \in Seq(X), NEW k \in 1..Len(b)
  PROVE  Join(a, b)[Len(a) + k] = b[k]
BY DEF Join

LEMMA DropHead ==
  ASSUME NEW X, NEW left \in Seq(X), NEW rest \in Seq(X), NEW b \in Seq(X), NEW c \in Seq(X),
         Join(left, rest) = Join(b, c), Len(b) <= Len(left)
  PROVE  /\ Drop(left, Len(b)) \in Seq(X)
         /\ Join(Drop(left, Len(b)), rest) = c
         /\ Len(Drop(left, Len(b))) = Len(left) - Len(b)
<1> DEFINE n == Len(left)
           m == Len(b)
           p == n - m
           s == Drop(left, m)
           r == Len(rest)
           all == Join(left, rest)
           t == Join(s, rest)
<1>1. n \in Nat /\ m \in Nat /\ m <= n /\ r \in Nat /\ p \in Nat /\ p + m = n OBVIOUS
<1>2. s = [k \in 1..p |-> left[k + m]]
  <2>1. s = [k \in 1..(n - (m + 1) + 1) |-> left[k + (m + 1) - 1]] BY DEF Drop
  <2>2. n - (m + 1) + 1 = p BY <1>1
  <2>3. \A k \in 1..p : k + (m + 1) - 1 = k + m BY <1>1
  <2> HIDE DEF n, m, s, p
  <2> QED BY <2>1, <2>2, <2>3
<1>3. s \in Seq(X) /\ Len(s) = p
  <2>1. \A k \in 1..p : left[k + m] \in X BY <1>1
  <2> HIDE DEF n, m, s, p
  <2> QED BY <1>1, <1>2, <2>1
<1>4. /\ Len(all) = n + r /\ \A k \in 1..n : all[k] = left[k]
      /\ \A k \in 1..r : all[n + k] = rest[k]
  <2>1. Len(all) = n + r BY Concat
  <2>2. \A k \in 1..n : all[k] = left[k] BY Concat
  <2>3. \A k \in 1..r : all[n + k] = rest[k] BY JoinedAt
  <2> HIDE DEF all, n, r
  <2> QED BY <2>1, <2>2, <2>3
<1>5. Len(all) = m + Len(c) /\ \A k \in 1..Len(c) : all[m + k] = c[k]
  BY Concat
<1> HIDE DEF s
<1>6. /\ t \in Seq(X) /\ Len(t) = p + r
      /\ \A k \in 1..p : t[k] = s[k]
      /\ \A k \in 1..r : t[p + k] = rest[k]
  <2>1. t \in Seq(X) BY <1>3, Concat
  <2>2. Len(t) = Len(s) + r BY <1>3, Concat
  <2>3. \A k \in 1..Len(s) : t[k] = s[k] BY <1>3, Concat
  <2>4. \A k \in 1..r : t[Len(s) + k] = rest[k] BY <1>3, JoinedAt
  <2> HIDE DEF t, p
  <2> QED BY <1>3, <2>1, <2>2, <2>3, <2>4
<1> HIDE DEF t, all, n, m, r, p
<1>7. Len(c) = p + r /\ Len(c) \in Nat
  <2>1. Len(c) \in Nat OBVIOUS
  <2> QED BY <1>1, <1>4, <1>5, <2>1
<1>8. ASSUME NEW k \in 1..Len(c) PROVE t[k] = c[k]
  <2>1. k \in Nat /\ all[m + k] = c[k] BY <1>5, <1>7
  <2>2. CASE k <= p
    <3>1. k \in 1..p /\ m + k \in 1..n /\ k + m = m + k BY <1>1, <2>1, <2>2
    <3> QED BY <1>2, <1>4, <1>6, <2>1, <3>1
  <2>3. CASE k > p
    <3> DEFINE j == k - p
    <3>1. j \in 1..r /\ p + j = k /\ n + j = m + k BY <1>1, <1>7, <2>1, <2>3
    <3> HIDE DEF j
    <3> QED BY <1>4, <1>6, <2>1, <3>1
  <2> QED BY <1>1, <2>1, <2>2, <2>3
<1>9. t = c
  <2>1. Len(t) = Len(c) /\ t \in Seq(X) /\ c \in Seq(X) BY <1>6, <1>7
  <2>2. t = [k \in 1..Len(c) |-> t[k]] BY <2>1
  <2>3. c = [k \in 1..Len(c) |-> c[k]] BY <2>1
  <2>4. [k \in 1..Len(c) |-> t[k]] = [k \in 1..Len(c) |-> c[k]] BY <1>8
  <2> QED BY <2>2, <2>3, <2>4
<1> QED BY <1>3, <1>9 DEF t, s, n, m, p

(* The first byte that is left is that of the next message. *)
LEMMA HeadOf ==
  ASSUME sent \in Seq(Decoder!Message), NEW left \in Seq(Byte), NEW rest \in Seq(Byte),
         NEW k \in 0..Len(sent), left \o rest = Stream(sent, k), Len(left) >= 1
  PROVE  k + 1 \in 1..Len(sent) /\ Head(left).of = k + 1
<1> DEFINE b == Decoder!Bytes(k + 1, sent[k + 1])
           c == Stream(sent, k + 1)
           L == Len(sent)
<1>0. L \in Nat /\ k \in Nat OBVIOUS
<1>1. k < L
  <2>1. SUFFICES ASSUME k = L PROVE FALSE BY <1>0
  <2>2. Stream(sent, k) = <<>> BY <2>1, StreamIs
  <2>3. Len(left \o rest) = Len(left) + Len(rest) OBVIOUS
  <2> QED BY <2>2, <2>3
<1>2. Stream(sent, k) = b \o c BY <1>0, <1>1, StreamIs
<1>3. k + 1 \in Nat /\ k + 1 \in 1..L /\ sent[k + 1] \in Decoder!Message BY <1>0, <1>1
<1>4. b \in Seq(Byte) /\ Len(b) = 4 + sent[k + 1].length /\ b[1].of = k + 1
      /\ sent[k + 1].length \in Nat
  BY <1>3, MessageBytes
<1>5. c \in Seq(Byte) BY <1>3, StreamIs
<1> HIDE DEF b, c
<1>6. (left \o rest)[1] = left[1] OBVIOUS
<1>7. (b \o c)[1] = b[1]
  <2>1. Len(b) \in Nat /\ Len(b) >= 1
    <3> DEFINE length == sent[k + 1].length
    <3>1. Len(b) = 4 + length /\ length \in Nat BY <1>4
    <3> HIDE DEF length
    <3> QED BY <3>1
  <2>2. \A x, y \in Seq(Byte) : Len(x) >= 1 => (x \o y)[1] = x[1] OBVIOUS
  <2> QED BY <1>4, <1>5, <2>1, <2>2
<1>8. Head(left) = left[1] OBVIOUS
<1> QED BY <1>2, <1>3, <1>4, <1>6, <1>7, <1>8

(* A turn takes a whole message, throws, or has nothing to do. *)
LEMMA DecodeTurn ==
  ASSUME sent \in Seq(Decoder!Message), NEW d \in DStates, NEW rest \in Seq(Byte),
         NEW k \in Nat, Fits(d, rest, k)
  PROVE  LET e == Decoder!Decode(d)
         IN  /\ e \in DStates /\ Fits(e, rest, k)
             /\ Stuck(d) => e = d
             /\ Stuck(e) \/ Len(e.left) < Len(d.left)
<1> DEFINE e == Decoder!Decode(d)
           t == Len(d.taken)
           q == k + t
           message == sent[Head(d.left).of]
           whole == 4 + message.length
<1>0. d.left \in Seq(Byte) /\ d.thrown \in BOOLEAN /\ d.taken \in Seq(Nat) /\ t \in Nat
  BY DEF DStates
<1>1. e = IF d.thrown \/ Len(d.left) < 4 THEN d
          ELSE IF message.length = 0 \/ message.length > MaxFrame
               THEN [d EXCEPT !.thrown = TRUE]
          ELSE IF Len(d.left) < whole THEN d
          ELSE [left   |-> SubSeq(d.left, whole + 1, Len(d.left)),
                thrown |-> message.kind # "good",
                taken  |-> IF message.kind = "good" THEN Append(d.taken, Head(d.left).of)
                           ELSE d.taken]
  BY DEF Decoder!Decode, Decoder!HeaderBytes
<1> HIDE DEF e
<1>2. CASE d.thrown \/ Len(d.left) < 4
  <2>1. e = d /\ Stuck(d) BY <1>1, <1>2 DEF Stuck
  <2> QED BY <2>1 DEF e
<1>3. CASE ~(d.thrown \/ Len(d.left) < 4)
  <2> DEFINE b == Decoder!Bytes(q + 1, sent[q + 1])
             c == Stream(sent, q + 1)
             L == Len(sent)
  <2>0. Len(d.left) >= 4 /\ Len(d.left) \in Nat /\ ~d.thrown /\ L \in Nat /\ q \in 0..L
    BY <1>0, <1>3 DEF Fits
  <2>1. d.left \o rest = Stream(sent, q) BY <2>0 DEF Fits
  <2>2. q + 1 \in 1..L /\ Head(d.left).of = q + 1
    <3> DEFINE x == d.left
    <3>1. x \in Seq(Byte) /\ Len(x) >= 1 /\ x \o rest = Stream(sent, q) BY <1>0, <2>0, <2>1
    <3> HIDE DEF x, q
    <3>2. q + 1 \in 1..Len(sent) /\ Head(x).of = q + 1 BY <2>0, <3>1, HeadOf
    <3> QED BY <3>2 DEF x
  <2>3. Stream(sent, q) = b \o c
    <3>1. q < L BY <2>0, <2>2
    <3> HIDE DEF q
    <3> QED BY <2>0, <3>1, StreamIs
  <2>4. q + 1 \in Nat /\ q + 1 \in 1..L /\ sent[q + 1] \in Decoder!Message BY <2>0, <2>2
  <2>5. /\ sent[q + 1].length \in Nat
        /\ sent[q + 1].kind # "bad_length" => sent[q + 1].length \in 1..MaxFrame
        /\ sent[q + 1].kind = "bad_length"
             => sent[q + 1].length = 0 \/ sent[q + 1].length > MaxFrame
        /\ b \in Seq(Byte) /\ Len(b) = 4 + sent[q + 1].length /\ b[1].of = q + 1
    <3> HIDE DEF q
    <3> QED BY <2>4, MessageBytes
  <2>6. c \in Seq(Byte) BY <2>4, StreamIs
  <2> HIDE DEF b, c
  <2>8. message = sent[q + 1] BY <2>2
  <2>9. message.length \in Nat /\ Len(b) = whole BY <2>5, <2>8
  <2> HIDE DEF message
  <2>10. CASE message.length = 0 \/ message.length > MaxFrame
    <3>1. e = [d EXCEPT !.thrown = TRUE] BY <1>1, <1>3, <2>10
    <3>2. e \in DStates /\ e.thrown /\ e.taken = d.taken /\ e.left = d.left
      BY <3>1 DEF DStates
    <3>3. Fits(e, rest, k) BY <3>2 DEF Fits
    <3>4. Stuck(e) BY <3>2 DEF Stuck
    <3>5. ~Stuck(d)
      <4>1. ~(message.length \in 1..MaxFrame) BY <2>9, <2>10, DecoderBounds
      <4> QED BY <1>3, <4>1 DEF Stuck, message
    <3> QED BY <3>2, <3>3, <3>4, <3>5 DEF e
  <2>11. CASE ~(message.length = 0 \/ message.length > MaxFrame) /\ Len(d.left) < whole
    <3>1. e = d BY <1>1, <1>3, <2>11
    <3>2. message.length \in 1..MaxFrame BY <2>9, <2>11, DecoderBounds
    <3>3. Stuck(d) BY <2>11, <3>2 DEF Stuck, message
    <3> QED BY <3>1, <3>3 DEF e
  <2>12. CASE ~(message.length = 0 \/ message.length > MaxFrame) /\ ~(Len(d.left) < whole)
    <3> DEFINE left == SubSeq(d.left, whole + 1, Len(d.left))
               more == IF message.kind = "good" THEN Append(d.taken, Head(d.left).of)
                       ELSE d.taken
    <3>1. e = [left |-> left, thrown |-> message.kind # "good", taken |-> more]
      BY <1>1, <1>3, <2>12
    <3>2. Len(b) <= Len(d.left) BY <2>0, <2>9, <2>12
    <3>3. left \in Seq(Byte) /\ left \o rest = c /\ Len(left) = Len(d.left) - whole
      <4>1. d.left \o rest = b \o c BY <2>1, <2>3
      <4> DEFINE x == d.left
      <4>2. x \in Seq(Byte) /\ Join(x, rest) = Join(b, c) /\ Len(b) <= Len(x)
        BY <1>0, <3>2, <4>1 DEF Join
      <4> HIDE DEF x
      <4>3. /\ Drop(x, Len(b)) \in Seq(Byte) /\ Join(Drop(x, Len(b)), rest) = c
            /\ Len(Drop(x, Len(b))) = Len(x) - Len(b)
        <5>0. b \in Seq(Byte) BY <2>5
        <5>1. Drop(x, Len(b)) \in Seq(Byte) BY <5>0, <2>6, <4>2, DropHead
        <5>2. Join(Drop(x, Len(b)), rest) = c BY <5>0, <2>6, <4>2, DropHead
        <5>3. Len(Drop(x, Len(b))) = Len(x) - Len(b) BY <5>0, <2>6, <4>2, DropHead
        <5> QED BY <5>1, <5>2, <5>3
      <4>4. left = Drop(x, Len(b)) BY <2>9 DEF x, Drop
      <4> HIDE DEF left, whole
      <4> QED BY <2>9, <4>3, <4>4 DEF x, Join
    <3>4. /\ more \in Seq(Nat)
          /\ message.kind = "good" => Len(more) = t + 1 /\ more[t + 1] = q + 1
          /\ message.kind # "good" => Len(more) = t
          /\ \A i \in 1..t : more[i] = d.taken[i]
      <4> DEFINE x == d.taken
      <4>1. x \in Seq(Nat) /\ t = Len(x) /\ t \in Nat BY <1>0
      <4>2. more = IF message.kind = "good" THEN Append(x, q + 1) ELSE x BY <2>2
      <4> HIDE DEF more, x, t, q
      <4>3. CASE message.kind = "good" BY <2>4, <4>1, <4>2, <4>3 DEF x
      <4>4. CASE message.kind # "good" BY <4>1, <4>2, <4>4 DEF x
      <4> QED BY <4>3, <4>4
    <3> HIDE DEF left, more
    <3>5. e.left = left /\ e.thrown = (message.kind # "good") /\ e.taken = more
      BY <3>1
    <3>6. e \in DStates BY <3>1, <3>3, <3>4 DEF DStates
    <3>7. Fits(e, rest, k)
      <4>1. CASE message.kind = "good"
        <5>1. Len(more) = t + 1 BY <3>4, <4>1
        <5>2. k + (t + 1) = q + 1 /\ q + 1 <= Len(sent) BY <1>0, <2>4
        <5>3. ASSUME NEW i \in 1..(t + 1)
              PROVE  more[i] = k + i /\ sent[k + i].kind = "good"
          <6>1. CASE i = t + 1
            <7>1. k + i = q + 1 BY <5>2, <6>1
            <7> QED BY <2>8, <3>4, <4>1, <6>1, <7>1
          <6>2. CASE i # t + 1
            <7>1. i \in 1..t
              <8> HIDE DEF t
              <8> QED BY <1>0, <6>2
            <7> QED BY <3>4, <7>1 DEF Fits
          <6> QED BY <6>1, <6>2
        <5>4. left \o rest = Stream(sent, k + (t + 1)) BY <3>3, <5>2 DEF c
        <5> HIDE DEF q, t
        <5> QED BY <3>5, <5>1, <5>2, <5>3, <5>4 DEF Fits
      <4>2. CASE message.kind # "good"
        <5>1. more = d.taken BY <4>2 DEF more
        <5> QED BY <3>5, <4>2, <5>1 DEF Fits
      <4> QED BY <4>1, <4>2
    <3>8. Len(e.left) < Len(d.left)
      <4>1. Len(left) = Len(d.left) - whole BY <3>3
      <4>2. whole > 0 /\ whole \in Nat BY <2>9
      <4> HIDE DEF whole
      <4> QED BY <2>0, <3>5, <4>1, <4>2
    <3>9. ~Stuck(d)
      <4>1. ~(Len(d.left) < 4 + message.length) BY <2>12
      <4> QED BY <1>3, <4>1 DEF Stuck, message
    <3> QED BY <3>6, <3>7, <3>8, <3>9 DEF e
  <2> QED BY <2>10, <2>11, <2>12
<1> QED BY <1>2, <1>3

(* The loop of push takes all that has arrived whole. *)
Pushed(chunk, rest, k) ==
    /\ sent \in Seq(Decoder!Message) /\ chunk \in Seq(Byte) /\ buffer \in Seq(Byte)
    /\ rest \in Seq(Byte) /\ k \in 0..Len(sent)
    /\ (buffer \o chunk) \o rest = Stream(sent, k)

LEMMA PushTakes ==
  ASSUME NEW chunk, NEW rest, NEW k, Pushed(chunk, rest, k)
  PROVE  LET d == Decoder!push(chunk)
         IN  d \in DStates /\ Fits(d, rest, k) /\ Stuck(d)
<1> DEFINE bytes == buffer \o chunk
           N == Len(bytes)
           first == [left |-> bytes, thrown |-> FALSE, taken |-> <<>>]
           X == {d \in DStates : Fits(d, rest, k)}
           step == [n \in 1..N |-> [d \in X |-> Decoder!Decode(d)]]
           Body(f) == [n \in 0..N |-> IF n = 0 THEN first ELSE Decoder!Decode(f[n - 1])]
<1>1. bytes \in Seq(Byte) /\ N \in Nat /\ k \in Nat /\ Len(sent) \in Nat /\ k <= Len(sent)
      /\ sent \in Seq(Decoder!Message) /\ rest \in Seq(Byte)
      /\ bytes \o rest = Stream(sent, k)
  BY DEF Pushed
<1>2. first \in X
  <2>1. bytes \o rest = Stream(sent, k) BY <1>1
  <2> HIDE DEF bytes
  <2>2. first \in DStates BY <1>1 DEF DStates
  <2>3. first.taken = <<>> /\ Len(first.taken) = 0 /\ first.left = bytes /\ k + 0 = k
    BY <1>1
  <2> HIDE DEF first
  <2>4. Fits(first, rest, k)
    <3>1. k + Len(first.taken) <= Len(sent) BY <1>1, <2>3
    <3>2. 1..Len(first.taken) = {} BY <2>3
    <3>3. first.left \o rest = Stream(sent, k + Len(first.taken)) BY <2>1, <2>3
    <3> QED BY <3>1, <3>2, <3>3 DEF Fits
  <2> QED BY <2>2, <2>4
<1>3. \A d \in X : /\ Decoder!Decode(d) \in X
                   /\ Stuck(d) => Decoder!Decode(d) = d
                   /\ Stuck(Decoder!Decode(d)) \/ Len(Decoder!Decode(d).left) < Len(d.left)
  BY <1>1, DecodeTurn
<1>4. \A d \in X : Len(d.left) \in Nat BY DEF DStates
<1>5. step \in Turns(N, X)
  <2> HIDE DEF X, N
  <2> QED BY <1>3 DEF Turns
<1> HIDE DEF X
<1>6. PICK g \in [0..N -> X] : g[0] = first /\ \A n \in 1..N : g[n] = step[n][g[n - 1]]
  <2> HIDE DEF step, N, first
  <2>1. N \in Nat BY <1>1
  <2>2. first \in X /\ step \in Turns(N, X) BY <1>2, <1>5
  <2>3. Runs(first, N, step, X) # {}
    <3>1. Loop(first, N, step, X) BY <2>1, <2>2 DEF Loop
    <3> QED BY <3>1, LoopRuns
  <2> QED BY <2>3 DEF Runs
<1>7. \A n \in 1..N : g[n] = Decoder!Decode(g[n - 1]) /\ g[n - 1] \in X
  <2> HIDE DEF N, first
  <2>1. \A n \in 1..N : g[n - 1] \in X BY <1>1
  <2> QED BY <1>6, <2>1
<1> DEFINE after == CHOOSE f : f = Body(f)
<1>8. after = Body(after)
  <2>1. \A n \in 0..N : g[n] = IF n = 0 THEN first ELSE Decoder!Decode(g[n - 1])
    <3> HIDE DEF N, first
    <3> QED BY <1>1, <1>6, <1>7
  <2> HIDE DEF N, first
  <2>2. g = Body(g) BY <2>1
  <2> HIDE DEF Body
  <2> QED BY <2>2
<1> HIDE DEF after
<1>9. Decoder!push(chunk) = after[N] BY DEF Decoder!push, after
<1> HIDE DEF N
<1>10. \A n \in Nat : n <= N => after[n] = g[n]
  <2> DEFINE S == {n \in Nat : n <= N => after[n] = g[n]}
  <2>1. 0 \in S BY <1>1, <1>6, <1>8
  <2>2. ASSUME NEW n \in Nat, n \in S PROVE n + 1 \in S
    <3> SUFFICES ASSUME n + 1 <= N PROVE after[n + 1] = g[n + 1] OBVIOUS
    <3>1. n + 1 \in 1..N /\ n + 1 \in 0..N /\ n <= N /\ (n + 1) - 1 = n /\ n + 1 # 0 BY <1>1
    <3>2. after[n] = g[n] BY <2>2, <3>1
    <3>3. after[n + 1] = Decoder!Decode(after[n]) BY <1>8, <3>1
    <3> QED BY <1>7, <3>1, <3>2, <3>3
  <2> HIDE DEF S
  <2>3. \A n \in Nat : n \in S BY <2>1, <2>2, Induction
  <2> QED BY <2>3 DEF S
<1>11. \A n \in Nat : n <= N => Stuck(g[n]) \/ Len(g[n].left) + n <= N
  <2> DEFINE S == {n \in Nat : n <= N => Stuck(g[n]) \/ Len(g[n].left) + n <= N}
  <2>1. 0 \in S
    <3>1. Len(g[0].left) = N BY <1>6 DEF N
    <3> QED BY <1>1, <3>1
  <2>2. ASSUME NEW n \in Nat, n \in S PROVE n + 1 \in S
    <3> SUFFICES ASSUME n + 1 <= N
                 PROVE  Stuck(g[n + 1]) \/ Len(g[n + 1].left) + (n + 1) <= N
      <4>1. n + 1 \in Nat OBVIOUS
      <4> QED BY <4>1
    <3>1. n + 1 \in 1..N /\ n \in 0..N /\ n <= N /\ (n + 1) - 1 = n BY <1>1
    <3>2. g[n + 1] = Decoder!Decode(g[n]) /\ g[n] \in X BY <1>7, <3>1
    <3>3. Stuck(g[n]) \/ Len(g[n].left) + n <= N BY <2>2, <3>1
    <3>4. CASE Stuck(g[n]) BY <1>3, <3>2, <3>4
    <3>5. CASE ~Stuck(g[n])
      <4>1. Stuck(g[n + 1]) \/ Len(g[n + 1].left) < Len(g[n].left) BY <1>3, <3>2
      <4>2. Len(g[n + 1].left) \in Nat /\ Len(g[n].left) \in Nat BY <1>3, <1>4, <3>2
      <4> DEFINE x == Len(g[n].left)
                 y == Len(g[n + 1].left)
      <4>3. Stuck(g[n + 1]) \/ y < x BY <4>1
      <4>4. x + n <= N /\ x \in Nat /\ y \in Nat BY <3>3, <3>5, <4>2
      <4> HIDE DEF x, y
      <4>5. y < x => y + (n + 1) <= N BY <1>1, <4>4
      <4> QED BY <4>3, <4>5 DEF x, y
    <3> QED BY <3>4, <3>5
  <2> HIDE DEF S
  <2>3. \A n \in Nat : n \in S BY <2>1, <2>2, Induction
  <2> QED BY <2>3 DEF S
<1>12. g[N] \in X /\ Decoder!push(chunk) = g[N] BY <1>1, <1>9, <1>10
<1>13. Stuck(g[N])
  <2>1. Stuck(g[N]) \/ Len(g[N].left) + N <= N BY <1>1, <1>11
  <2>2. Len(g[N].left) \in Nat BY <1>4, <1>12
  <2>3. Len(g[N].left) + N <= N => Len(g[N].left) < 4 BY <1>1, <2>2
  <2> QED BY <2>1, <2>3 DEF Stuck
<1> QED BY <1>12, <1>13 DEF X

(* What is here of the next message: not its header, or less than it says. *)
Waiting(left) ==
    Len(left) < 4 \/ /\ sent[Head(left).of].length \in 1..MaxFrame
                     /\ Len(left) < 4 + sent[Head(left).of].length

DecoderInv ==
    /\ sent \in Seq(Decoder!Message) /\ wire \in Seq(Byte) /\ buffer \in Seq(Byte)
    /\ dispatched \in Seq(Nat) /\ Len(dispatched) <= Len(sent)
    /\ \A i \in 1..Len(dispatched) : dispatched[i] = i /\ sent[i].kind = "good"
    /\ ~closed => buffer \o wire = Stream(sent, Len(dispatched))
    /\ ~closed => Waiting(buffer)

LEMMA DecoderStart == Decoder!Init => DecoderInv
<1> SUFFICES ASSUME Decoder!Init PROVE DecoderInv
  OBVIOUS
<1>1. sent = <<>> /\ wire = <<>> /\ buffer = <<>> /\ dispatched = <<>> BY DEF Decoder!Init
<1>2. sent \in Seq(Decoder!Message) /\ wire \in Seq(Byte) /\ buffer \in Seq(Byte)
      /\ dispatched \in Seq(Nat) /\ Len(dispatched) = 0 /\ Len(sent) = 0 /\ Len(buffer) = 0
  BY <1>1
<1>3. Stream(sent, Len(dispatched)) = <<>>
  <2>1. Len(dispatched) \in 0..Len(sent) /\ Len(dispatched) = Len(sent) BY <1>2
  <2> QED BY <1>2, <2>1, StreamIs
<1>4. buffer \o wire = <<>> BY <1>1
<1>5. \A i \in 1..Len(dispatched) : dispatched[i] = i /\ sent[i].kind = "good" BY <1>2
<1>6. Waiting(buffer) BY <1>2 DEF Waiting
<1> QED BY <1>2, <1>3, <1>4, <1>5, <1>6 DEF DecoderInv

LEMMA DecoderWrite == ASSUME DecoderInv, Decoder!Write PROVE DecoderInv'
<1>0. /\ sent \in Seq(Decoder!Message) /\ wire \in Seq(Byte) /\ buffer \in Seq(Byte)
      /\ dispatched \in Seq(Nat) /\ Len(dispatched) <= Len(sent)
      /\ \A i \in 1..Len(dispatched) : dispatched[i] = i /\ sent[i].kind = "good"
      /\ ~closed => buffer \o wire = Stream(sent, Len(dispatched))
      /\ ~closed => Waiting(buffer)
  BY DEF DecoderInv
<1> DEFINE L == Len(sent)
           k == Len(dispatched)
<1>1. L \in Nat /\ k \in Nat /\ k \in 0..L BY <1>0
<1>2. PICK message \in Decoder!Message :
        sent' = Append(sent, message) /\ wire' = wire \o Decoder!Bytes(Len(sent'), message)
  BY DEF Decoder!Write
<1>3. UNCHANGED <<buffer, dispatched, closed>> BY DEF Decoder!Write
<1>4. /\ sent' \in Seq(Decoder!Message) /\ Len(sent') = L + 1
      /\ \A i \in 1..L : sent'[i] = sent[i]
  BY <1>0, <1>2
<1> DEFINE b == Decoder!Bytes(L + 1, message)
<1>5. b \in Seq(Byte) /\ wire' = wire \o b BY <1>1, <1>2, <1>4, MessageBytes
<1>6. wire' \in Seq(Byte) BY <1>0, <1>5
<1>7. Stream(sent', k) = Stream(sent, k) \o b BY <1>0, <1>1, <1>2, StreamIs
<1>8. ~closed => buffer \o wire' = Stream(sent', k)
  <2> SUFFICES ASSUME ~closed PROVE buffer \o wire' = Stream(sent', k) OBVIOUS
  <2> HIDE DEF b
  <2>1. (buffer \o wire) \o b = buffer \o (wire \o b) BY <1>0, <1>5, SMTT(60)
  <2> QED BY <1>0, <1>5, <1>7, <2>1
<1>9. ~closed => Waiting(buffer)'
  <2> SUFFICES ASSUME ~closed, Len(buffer) >= 4 PROVE Waiting(buffer)'
    BY <1>0, <1>3 DEF Waiting
  <2>1. buffer \o wire = Stream(sent, k) /\ Len(buffer) >= 1 BY <1>0
  <2>2. k + 1 \in 1..L /\ Head(buffer).of = k + 1
    <3> HIDE DEF k
    <3> QED BY <1>0, <1>1, <2>1, HeadOf
  <2>3. sent'[Head(buffer).of] = sent[Head(buffer).of] BY <1>4, <2>2
  <2> QED BY <1>0, <1>3, <2>3 DEF Waiting
<1>10. \A i \in 1..k : dispatched[i] = i /\ sent'[i].kind = "good"
  <2> SUFFICES ASSUME NEW i \in 1..k PROVE i \in 1..L BY <1>0, <1>4
  <2> QED BY <1>1
<1>11. k <= Len(sent') BY <1>1, <1>4
<1> QED BY <1>0, <1>3, <1>4, <1>6, <1>8, <1>9, <1>10, <1>11 DEF DecoderInv

LEMMA DecoderData == ASSUME DecoderInv, Decoder!onData PROVE DecoderInv'
<1>0. /\ sent \in Seq(Decoder!Message) /\ wire \in Seq(Byte) /\ buffer \in Seq(Byte)
      /\ dispatched \in Seq(Nat) /\ Len(dispatched) <= Len(sent)
      /\ \A i \in 1..Len(dispatched) : dispatched[i] = i /\ sent[i].kind = "good"
      /\ buffer \o wire = Stream(sent, Len(dispatched)) /\ ~closed
  BY DEF DecoderInv, Decoder!onData
<1> DEFINE k == Len(dispatched)
           L == Len(sent)
<1>1. L \in Nat /\ k \in 0..L /\ k \in Nat BY <1>0
<1>2. PICK count \in 1..Len(wire) :
        LET after == Decoder!push(SubSeq(wire, 1, count))
        IN  /\ wire' = SubSeq(wire, count + 1, Len(wire))
            /\ closed' = after.thrown
            /\ buffer' = IF after.thrown THEN <<>> ELSE after.left
            /\ dispatched' = IF after.thrown THEN dispatched ELSE dispatched \o after.taken
  BY DEF Decoder!onData
<1> DEFINE chunk == SubSeq(wire, 1, count)
           rest == SubSeq(wire, count + 1, Len(wire))
           d == Decoder!push(chunk)
<1>3. chunk \in Seq(Byte) /\ rest \in Seq(Byte) /\ chunk \o rest = wire BY <1>0
<1> HIDE DEF chunk, rest
<1>4. Pushed(chunk, rest, k)
  <2>1. \A x, y, z \in Seq(Byte) : (x \o y) \o z = x \o (y \o z) OBVIOUS
  <2>2. (buffer \o chunk) \o rest = buffer \o (chunk \o rest) BY <1>0, <1>3, <2>1
  <2> HIDE DEF k
  <2> QED BY <1>0, <1>1, <1>3, <2>2 DEF Pushed, k
<1>5. d \in DStates /\ Fits(d, rest, k) /\ Stuck(d)
  <2> HIDE DEF k
  <2> QED BY <1>4, PushTakes
<1>6. /\ wire' = rest /\ closed' = d.thrown /\ buffer' = IF d.thrown THEN <<>> ELSE d.left
      /\ dispatched' = IF d.thrown THEN dispatched ELSE dispatched \o d.taken
      /\ sent' = sent
  BY <1>2 DEF chunk, rest, Decoder!onData
<1> HIDE DEF d
<1>7. d.left \in Seq(Byte) /\ d.thrown \in BOOLEAN /\ d.taken \in Seq(Nat) BY <1>5 DEF DStates
<1>8. CASE d.thrown
  <2>1. closed' /\ buffer' = <<>> /\ dispatched' = dispatched BY <1>6, <1>8
  <2>2. buffer' \in Seq(Byte) BY <2>1
  <2> QED BY <1>0, <1>3, <1>6, <2>1, <2>2 DEF DecoderInv
<1>9. CASE ~d.thrown
  <2> DEFINE x == d.taken
             t == Len(x)
             more == dispatched \o x
  <2>1. closed' = FALSE /\ buffer' = d.left /\ dispatched' = more BY <1>6, <1>7, <1>9
  <2>2. t \in Nat /\ k + t <= L /\ (\A i \in 1..t : x[i] = k + i /\ sent[k + i].kind = "good")
        /\ d.left \o rest = Stream(sent, k + t)
    BY <1>5, <1>7, <1>9 DEF Fits
  <2>3. x \in Seq(Nat) BY <1>7
  <2> HIDE DEF x
  <2>4. /\ more \in Seq(Nat) /\ Len(more) = k + t
        /\ \A i \in 1..k : more[i] = dispatched[i]
        /\ \A i \in 1..t : more[k + i] = x[i]
    BY <1>0, <2>3
  <2> HIDE DEF more, t
  <2>5. \A i \in 1..(k + t) : more[i] = i /\ sent[i].kind = "good"
    <3> SUFFICES ASSUME NEW i \in 1..(k + t) PROVE more[i] = i /\ sent[i].kind = "good"
      OBVIOUS
    <3> HIDE DEF k
    <3>1. CASE i \in 1..k BY <1>0, <2>4, <3>1 DEF k
    <3>2. CASE i \notin 1..k
      <4> DEFINE j == i - k
      <4>1. j \in 1..t /\ k + j = i BY <1>1, <2>2, <3>2
      <4> HIDE DEF j
      <4> QED BY <2>2, <2>4, <4>1
    <3> QED BY <3>1, <3>2
  <2>6. Waiting(d.left) BY <1>5, <1>9 DEF Stuck, Waiting
  <2>7. Waiting(buffer)' BY <1>6, <2>1, <2>6 DEF Waiting
  <2> HIDE DEF k
  <2> QED BY <1>0, <1>3, <1>6, <1>7, <2>1, <2>2, <2>4, <2>5, <2>7 DEF DecoderInv
<1> QED BY <1>7, <1>8, <1>9

LEMMA DecoderStep == DecoderInv /\ [PartsNext]_partsVars => DecoderInv'
<1> SUFFICES ASSUME DecoderInv, [PartsNext]_partsVars PROVE DecoderInv'
  OBVIOUS
<1>1. CASE UNCHANGED decoderVars
  <2>1. UNCHANGED <<sent, wire, buffer, dispatched, closed>> BY <1>1 DEF decoderVars
  <2> QED BY <2>1 DEF DecoderInv, Waiting
<1>2. CASE Decoder!Write BY <1>2, DecoderWrite
<1>3. CASE Decoder!onData BY <1>3, DecoderData
<1>4. CASE Decoder!close
  <2>1. closed' /\ buffer' = <<>> /\ UNCHANGED <<sent, wire, dispatched>>
    BY <1>4 DEF Decoder!close
  <2>2. buffer' \in Seq(Byte) BY <2>1
  <2> QED BY <2>1, <2>2 DEF DecoderInv
<1> QED BY <1>1, <1>2, <1>3, <1>4 DEF PartsNext, partsVars, Decoder!Next

LEMMA DecoderHolds == DecoderInv => StreamIsDecoded
<1> SUFFICES ASSUME DecoderInv PROVE StreamIsDecoded
  OBVIOUS
<1>1. /\ sent \in Seq(Decoder!Message) /\ buffer \in Seq(Byte) /\ wire \in Seq(Byte)
      /\ dispatched \in Seq(Nat) /\ DOMAIN dispatched = 1..Len(dispatched)
      /\ \A i \in 1..Len(dispatched) : dispatched[i] = i /\ sent[i].kind = "good"
      /\ MaxFrame \in Nat /\ Len(buffer) \in Nat
  BY DecoderBounds DEF DecoderInv
<1>2. ASSUME ~closed
      PROVE  /\ Len(buffer) < 4 + MaxFrame
             /\ buffer \o wire = Stream(sent, Len(dispatched))
             /\ Len(buffer) >= 4 => Len(buffer) < 4 + sent[Head(buffer).of].length
  <2>1. Waiting(buffer) /\ buffer \o wire = Stream(sent, Len(dispatched))
    BY <1>2 DEF DecoderInv
  <2>2. CASE Len(buffer) < 4 BY <1>1, <2>1, <2>2
  <2>3. CASE ~(Len(buffer) < 4)
    <3> DEFINE m == sent[Head(buffer).of].length
    <3>1. m \in 1..MaxFrame /\ Len(buffer) < 4 + m BY <2>1, <2>3 DEF Waiting
    <3> HIDE DEF m
    <3>2. Len(buffer) < 4 + MaxFrame BY <1>1, <3>1
    <3> QED BY <2>1, <3>1, <3>2 DEF m
  <2> QED BY <2>2, <2>3
<1> QED BY <1>1, <1>2 DEF StreamIsDecoded, Decoder!StreamIsDecoded, Decoder!HeaderBytes, Stream

(* However the stream is cut into chunks, main dispatches the messages in     *)
(* their order, each once, and keeps less than one, for any limit of a frame  *)
(* and any number of messages.                                                *)
THEOREM MessagesAreDecoded == PartsSpec => []StreamIsDecoded
<1>1. PartsInit => DecoderInv BY DecoderStart DEF PartsInit
<1>2. DecoderInv /\ [PartsNext]_partsVars => DecoderInv' BY DecoderStep
<1>3. DecoderInv => StreamIsDecoded BY DecoderHolds
<1> QED BY <1>1, <1>2, <1>3, PTL DEF PartsSpec

-----------------------------------------------------------------------------
(* The samples of one signal.  A sample j closes a bin that starts at or      *)
(* before it and at least an interval after the bin of sample j - 1: so       *)
(* sample j is later than sample i by more than the j - i - 1 intervals that  *)
(* lie between their bins.                                                    *)
Span(k) == k * Interval

LEMMA Spans ==
  /\ Interval \in Nat /\ Interval > 0 /\ Span(0) = 0
  /\ \A k \in Int : Span(k) \in Int /\ Span(k + 1) = Span(k) + Interval
  /\ \A k \in Nat : Span(k) >= 0
<1>1. Interval \in Nat /\ Interval > 0 BY GraphBounds
<1> QED BY <1>1 DEF Span

LEMMA SpanFits ==
  ASSUME NEW n \in Int, NEW length \in Nat, Span(n) < length
  PROVE  n <= length \div Interval
<1>1. Interval \in Nat \ {0} BY GraphBounds
<1> DEFINE q == length \div Interval
           r == length % Interval
<1>2. q \in Int /\ r \in 0..(Interval - 1) /\ length = Interval * q + r BY <1>1, Division
<1> HIDE DEF q, r
<1>3. SUFFICES ASSUME n >= q + 1 PROVE FALSE BY <1>2 DEF q
<1>4. n * Interval >= (q + 1) * Interval BY <1>1, <1>2, <1>3
<1>5. (q + 1) * Interval = Interval * q + Interval BY <1>1, <1>2
<1>6. n * Interval \in Int /\ Interval * q \in Int BY <1>1, <1>2
<1> QED BY <1>1, <1>2, <1>4, <1>5, <1>6 DEF Span

(* A point of the bin that is open, or one that a closed bin's sample covers. *)
Covered(s, b, ts) ==
    \/ b <= ts /\ ts <= s[Len(s)]
    \/ \E j \in 1..(Len(s) - 1) : ts <= s[j] /\ s[j] < ts + Interval

(* The samples s, with a bin that starts at b, of the points at the times G.  *)
Binned(s, b, G) ==
    /\ Len(s) = 0 => b = None /\ G = {}
    /\ Len(s) > 0 => b \in Nat /\ b <= s[Len(s)] /\ s[Len(s)] < b + Interval
    /\ \A i \in 1..Len(s) : s[i] \in G
    /\ \A j \in 1..Len(s) : \A i \in 1..(j - 1) : s[j] - s[i] > Span(j - i - 1)
    /\ \A i \in 1..(Len(s) - 1) : b - s[i] > Span(Len(s) - 1 - i)
    /\ \A ts \in G : Covered(s, b, ts)

(* A sample that opens the next bin. *)
LEMMA NextBin ==
  ASSUME NEW s \in Seq(Nat), NEW b, NEW G \in SUBSET Nat, Binned(s, b, G), NEW ts \in Nat,
         Len(s) > 0 => ts >= s[Len(s)] /\ ts - b >= Interval
  PROVE  Binned(Append(s, ts), ts, G \cup {ts})
<1> DEFINE n == Len(s)
           t == Append(s, ts)
           H == G \cup {ts}
<1>0. n \in Nat /\ Len(t) = n + 1 /\ (\A i \in 1..n : t[i] = s[i] /\ s[i] \in Nat) /\ t[n + 1] = ts
  OBVIOUS
<1>1. /\ n = 0 => G = {}
      /\ n > 0 => b \in Nat /\ b <= s[n] /\ s[n] < b + Interval /\ ts >= b + Interval
      /\ \A i \in 1..n : s[i] \in G
      /\ \A j \in 1..n : \A i \in 1..(j - 1) : s[j] - s[i] > Span(j - i - 1)
      /\ \A i \in 1..(n - 1) : b - s[i] > Span(n - 1 - i)
      /\ \A p \in G : Covered(s, b, p)
  <2>1. n > 0 => b \in Nat BY DEF Binned
  <2>2. n > 0 => ts >= b + Interval BY <2>1, Spans
  <2> QED BY <2>2 DEF Binned
<1> HIDE DEF n, t
<1>2. \A i \in 1..n : ts - s[i] > Span(n - i)
  <2> SUFFICES ASSUME NEW i \in 1..n PROVE ts - s[i] > Span(n - i)
    OBVIOUS
  <2>1. n > 0 /\ b \in Nat /\ ts >= b + Interval /\ s[i] \in Nat /\ i \in Nat /\ s[n] < b + Interval
    BY <1>0, <1>1
  <2>2. CASE i = n
    <3>1. Span(n - i) = 0 BY <1>0, <2>2, Spans
    <3>2. Interval \in Nat BY Spans
    <3> DEFINE x == s[i]
    <3>3. x \in Nat /\ x < b + Interval BY <2>1, <2>2
    <3> HIDE DEF x
    <3>4. ts - x > 0 BY <2>1, <3>2, <3>3
    <3> QED BY <3>1, <3>4 DEF x
  <2>3. CASE i # n
    <3>1. i \in 1..(n - 1) BY <1>0, <2>3
    <3>2. b - s[i] > Span(n - 1 - i) BY <1>1, <3>1
    <3>3. n - 1 - i \in Int /\ (n - 1 - i) + 1 = n - i BY <1>0, <2>1
    <3>4. Span(n - i) = Span(n - 1 - i) + Interval /\ Span(n - 1 - i) \in Int BY <3>3, Spans
    <3> DEFINE x == s[i]
               d == Span(n - 1 - i)
    <3>5. Interval \in Nat BY Spans
    <3>6. x \in Nat /\ b - x > d /\ d \in Int BY <2>1, <3>2, <3>4
    <3> HIDE DEF x, d
    <3>7. ts - x > d + Interval BY <2>1, <3>5, <3>6
    <3> QED BY <3>4, <3>7 DEF x, d
  <2> QED BY <2>2, <2>3
<1>3. ASSUME NEW j \in 1..(n + 1), NEW i \in 1..(j - 1)
      PROVE  t[j] - t[i] > Span(j - i - 1)
  <2>1. CASE j = n + 1
    <3>1. i \in 1..n /\ j - i - 1 = n - i BY <1>0, <2>1
    <3> QED BY <1>0, <1>2, <2>1, <3>1
  <2>2. CASE j # n + 1
    <3>1. j \in 1..n /\ i \in 1..n BY <1>0, <2>2
    <3> QED BY <1>0, <1>1, <3>1
  <2> QED BY <2>1, <2>2
<1>4. \A i \in 1..n : ts - t[i] > Span(n - i) BY <1>0, <1>2
<1>5. ASSUME NEW p \in H PROVE Covered(t, ts, p)
  <2>1. CASE p = ts BY <1>0, <2>1 DEF Covered
  <2>2. CASE p # ts
    <3>0. p \in G /\ p \in Nat BY <2>2
    <3>1. Covered(s, b, p) BY <1>1, <3>0
    <3>2. n > 0 BY <1>0, <1>1, <3>0
    <3>3. CASE b <= p /\ p <= s[n]
      <4>1. s[n] < p + Interval /\ n \in 1..((n + 1) - 1)
        <5> DEFINE x == s[n]
        <5>1. Interval \in Nat /\ n \in 1..n BY <1>0, <3>2, Spans
        <5>2. b \in Nat /\ x \in Nat /\ x < b + Interval /\ b <= p BY <1>0, <1>1, <3>2, <3>3, <5>1
        <5> HIDE DEF x
        <5>3. x < p + Interval BY <3>0, <5>1, <5>2
        <5>4. n \in 1..((n + 1) - 1) BY <1>0, <3>2
        <5> QED BY <5>3, <5>4 DEF x
      <4> QED BY <1>0, <3>3, <4>1 DEF Covered
    <3>4. CASE ~(b <= p /\ p <= s[n])
      <4>1. PICK j \in 1..(n - 1) : p <= s[j] /\ s[j] < p + Interval
        BY <3>1, <3>4 DEF Covered, n
      <4>2. j \in 1..((n + 1) - 1) /\ t[j] = s[j] BY <1>0, <4>1
      <4> QED BY <1>0, <4>1, <4>2 DEF Covered
    <3> QED BY <3>3, <3>4
  <2> QED BY <2>1, <2>2
<1>6. \A i \in 1..(n + 1) : t[i] \in H BY <1>0, <1>1
<1>7. ts \in Nat /\ ts <= t[n + 1] /\ t[n + 1] < ts + Interval BY <1>0, Spans
<1>8. (n + 1) - 1 = n /\ \A i \in 1..n : (n + 1) - 1 - i = n - i BY <1>0
<1>9. Len(t) > 0 /\ Len(t) # 0 BY <1>0
<1>10. \A i \in 1..(Len(t) - 1) : ts - t[i] > Span(Len(t) - 1 - i) BY <1>0, <1>4, <1>8
<1>11. Binned(t, ts, H) BY <1>0, <1>3, <1>5, <1>6, <1>7, <1>9, <1>10 DEF Binned
<1> QED BY <1>11 DEF t

(* A later sample of the same bin takes the last one's place. *)
LEMMA SameBin ==
  ASSUME NEW s \in Seq(Nat), NEW b, NEW G \in SUBSET Nat, Binned(s, b, G), NEW ts \in Nat,
         Len(s) > 0, ts >= s[Len(s)], ts - b < Interval
  PROVE  Binned([s EXCEPT ![Len(s)] = ts], b, G \cup {ts})
<1> DEFINE n == Len(s)
           t == [s EXCEPT ![n] = ts]
           H == G \cup {ts}
<1>0. /\ n \in Nat /\ n > 0 /\ Len(t) = n /\ n \in 1..n /\ t[n] = ts /\ s[n] \in Nat
      /\ \A i \in 1..(n - 1) : t[i] = s[i] /\ s[i] \in Nat
  OBVIOUS
<1>1. /\ b \in Nat /\ b <= s[n] /\ ts < b + Interval /\ ts >= s[n]
      /\ \A i \in 1..n : s[i] \in G
      /\ \A j \in 1..n : \A i \in 1..(j - 1) : s[j] - s[i] > Span(j - i - 1)
      /\ \A i \in 1..(n - 1) : b - s[i] > Span(n - 1 - i)
      /\ \A p \in G : Covered(s, b, p)
  <2>1. b \in Nat BY DEF Binned
  <2>2. ts < b + Interval BY <2>1, Spans
  <2> QED BY <2>1, <2>2 DEF Binned
<1> HIDE DEF n, t
<1>2. ASSUME NEW j \in 1..n, NEW i \in 1..(j - 1)
      PROVE  t[j] - t[i] > Span(j - i - 1)
  <2>1. i \in 1..(n - 1) /\ i \in Nat /\ j - i - 1 \in Int BY <1>0
  <2>2. s[j] - s[i] > Span(j - i - 1) /\ Span(j - i - 1) \in Int /\ s[i] \in Nat
    BY <1>0, <1>1, <2>1, Spans
  <2>3. CASE j = n
    <3> DEFINE x == s[i]
               y == s[n]
               d == Span(j - i - 1)
    <3>1. x \in Nat /\ y \in Nat /\ y - x > d /\ d \in Int /\ ts >= y
          /\ t[j] = ts /\ t[i] = x
      BY <1>0, <1>1, <2>1, <2>2, <2>3
    <3> HIDE DEF x, y, d
    <3>2. ts - x > d BY <3>1
    <3> QED BY <3>1, <3>2 DEF d
  <2>4. CASE j # n
    <3>1. j \in 1..(n - 1) BY <1>0, <2>4
    <3> QED BY <1>0, <2>1, <2>2, <3>1
  <2> QED BY <2>3, <2>4
<1>3. ASSUME NEW p \in H PROVE Covered(t, b, p)
  <2>1. CASE p = ts BY <1>0, <1>1, <2>1 DEF Covered
  <2>2. CASE p # ts
    <3>0. p \in G /\ p \in Nat BY <2>2
    <3>1. Covered(s, b, p) BY <1>1, <3>0
    <3>3. CASE b <= p /\ p <= s[n]
      <4>1. p <= ts BY <1>0, <1>1, <3>0, <3>3
      <4> QED BY <1>0, <3>3, <4>1 DEF Covered
    <3>4. CASE ~(b <= p /\ p <= s[n])
      <4>1. PICK j \in 1..(n - 1) : p <= s[j] /\ s[j] < p + Interval
        BY <3>1, <3>4 DEF Covered, n
      <4> QED BY <1>0, <4>1 DEF Covered
    <3> QED BY <3>3, <3>4
  <2> QED BY <2>1, <2>2
<1>4. ASSUME NEW i \in 1..n PROVE t[i] \in H
  <2>1. i = n \/ i \in 1..(n - 1) BY <1>0
  <2> QED BY <1>0, <1>1, <2>1
<1>5. \A i \in 1..(n - 1) : b - t[i] > Span(n - 1 - i) BY <1>0, <1>1
<1>6. b <= t[n] /\ t[n] < b + Interval BY <1>0, <1>1
<1>7. Binned(t, b, H) BY <1>0, <1>1, <1>2, <1>3, <1>4, <1>5, <1>6 DEF Binned
<1> QED BY <1>7 DEF t, n

(* The samples before a time are the first ones. *)
LEMMA Leading ==
  ASSUME NEW s \in Seq(Nat), NEW start \in Int
  PROVE  LET k == Cardinality({i \in DOMAIN s : \A j \in 1..i : s[j] < start})
         IN  /\ k \in 0..Len(s) /\ \A i \in 1..k : s[i] < start
             /\ k < Len(s) => s[k + 1] >= start
<1> DEFINE n == Len(s)
           S == {i \in DOMAIN s : \A j \in 1..i : s[j] < start}
           T == {i \in Nat : i >= 1 /\ (i <= n => s[i] >= start)}
<1>0. n \in Nat /\ DOMAIN s = 1..n /\ \A i \in 1..n : s[i] \in Nat OBVIOUS
<1>1. n + 1 \in T BY <1>0
<1>2. PICK x \in T : \A y \in T : x <= y
  <2> HIDE DEF n, T
  <2>1. T \in SUBSET Nat BY DEF T
  <2> QED BY <1>1, <2>1, Least
<1>3. x \in 1..(n + 1) BY <1>0, <1>1, <1>2
<1>4. \A i \in 1..(x - 1) : i \in 1..n /\ s[i] < start
  <2> SUFFICES ASSUME NEW i \in 1..(x - 1) PROVE i \in 1..n /\ s[i] < start
    OBVIOUS
  <2>1. i \in 1..n BY <1>0, <1>3
  <2>2. i \notin T BY <1>2, <1>3
  <2>3. ~(s[i] >= start) BY <2>1, <2>2
  <2> QED BY <1>0, <2>1, <2>3
<1>5. x <= n => s[x] >= start BY <1>2
<1>6. S = 1..(x - 1)
  <2>1. ASSUME NEW i \in S PROVE i \in 1..(x - 1)
    <3>1. i \in 1..n /\ \A j \in 1..i : s[j] < start BY <1>0
    <3>2. ASSUME i >= x PROVE FALSE
      <4>1. x \in 1..i /\ x <= n BY <1>3, <3>1, <3>2
      <4> QED BY <1>0, <1>5, <3>1, <4>1
    <3> QED BY <1>3, <3>1, <3>2
  <2>2. ASSUME NEW i \in 1..(x - 1) PROVE i \in S
    <3>1. i \in DOMAIN s BY <1>0, <1>4
    <3>2. \A j \in 1..i : j \in 1..(x - 1) BY <1>3
    <3> QED BY <1>4, <3>1, <3>2
  <2> QED BY <2>1, <2>2
<1> HIDE DEF n, S, T
<1>7. Cardinality(S) = x - 1 BY <1>3, <1>0, <1>6, UpTo
<1>8. x - 1 \in 0..n /\ (x - 1) + 1 = x BY <1>0, <1>3
<1>9. x - 1 < n => x <= n BY <1>0, <1>3
<1> QED BY <1>4, <1>5, <1>7, <1>8, <1>9 DEF n, S

(* Without its first k samples, those before `start`, it has what is left of  *)
(* the points.                                                                *)
LEMMA DropOld ==
  ASSUME NEW s \in Seq(Nat), NEW b, NEW G \in SUBSET Nat, Binned(s, b, G), NEW start \in Int,
         NEW k \in 0..Len(s), \A i \in 1..k : s[i] < start,
         k < Len(s) => s[k + 1] >= start
  PROVE  LET t == SubSeq(s, k + 1, Len(s))
         IN  /\ t \in Seq(Nat)
             /\ Binned(t, IF t = <<>> THEN None ELSE b, {p \in G : p >= start})
<1> DEFINE n == Len(s)
           m == n - k
           t == SubSeq(s, k + 1, n)
           c == IF t = <<>> THEN None ELSE b
           H == {p \in G : p >= start}
<1>0. n \in Nat /\ k \in Nat /\ m \in Nat /\ k + m = n /\ \A i \in 1..n : s[i] \in Nat
  OBVIOUS
<1>1. t \in Seq(Nat) /\ Len(t) = m /\ \A i \in 1..m : t[i] = s[k + i]
  OBVIOUS
<1>2. /\ n = 0 => G = {}
      /\ n > 0 => b \in Nat /\ b <= s[n] /\ s[n] < b + Interval
      /\ \A i \in 1..n : s[i] \in G
      /\ \A j \in 1..n : \A i \in 1..(j - 1) : s[j] - s[i] > Span(j - i - 1)
      /\ \A i \in 1..(n - 1) : b - s[i] > Span(n - 1 - i)
      /\ \A p \in G : Covered(s, b, p)
  BY DEF Binned
<1>3. t = <<>> <=> m = 0
  <2> HIDE DEF t, m
  <2>1. t = <<>> => m = 0 BY <1>1
  <2>2. m = 0 => t = <<>> BY <1>1
  <2> QED BY <2>1, <2>2
<1> HIDE DEF n, t
<1>4. ASSUME NEW i \in 1..m PROVE k + i \in 1..n /\ s[k + i] >= start
  <2>1. k + i \in 1..n /\ k + 1 \in 1..n /\ k < n BY <1>0
  <2>2. s[k + 1] >= start BY <2>1 DEF n
  <2>3. CASE i = 1 BY <2>1, <2>2, <2>3
  <2>4. CASE i # 1
    <3>1. k + 1 \in 1..((k + i) - 1) /\ (k + i) - (k + 1) - 1 \in Nat BY <1>0, <2>4
    <3>2. s[k + i] - s[k + 1] > Span((k + i) - (k + 1) - 1) BY <1>2, <2>1, <3>1
    <3> DEFINE d == Span((k + i) - (k + 1) - 1)
               x == s[k + i]
               y == s[k + 1]
    <3>3. d \in Int /\ d >= 0 /\ x \in Nat /\ y \in Nat /\ x - y > d /\ y >= start
      BY <1>0, <2>1, <2>2, <3>1, <3>2, Spans
    <3> HIDE DEF d, x, y
    <3>4. x >= start BY <3>3
    <3> QED BY <2>1, <3>4 DEF x
  <2> QED BY <2>3, <2>4
<1>5. ASSUME NEW p \in H
      PROVE  m > 0 /\ Covered(t, b, p)
  <2>1. p \in G /\ p \in Nat /\ p >= start /\ n > 0 BY <1>0, <1>2
  <2>2. Covered(s, b, p) BY <1>2, <2>1
  <2>3. ASSUME NEW j \in 1..n, p <= s[j]
        PROVE  j - k \in 1..m /\ t[j - k] = s[j] /\ m > 0
    <3>1. ASSUME j <= k PROVE FALSE
      <4>1. s[j] < start /\ s[j] \in Nat BY <1>0, <3>1
      <4> DEFINE x == s[j]
      <4>2. x < start /\ x \in Nat /\ p <= x BY <2>3, <4>1
      <4> HIDE DEF x
      <4> QED BY <2>1, <4>2
    <3>2. j - k \in 1..m /\ k + (j - k) = j BY <1>0, <3>1
    <3> QED BY <1>0, <1>1, <3>2
  <2>4. CASE b <= p /\ p <= s[n]
    <3>1. n \in 1..n BY <1>0, <2>1
    <3>2. m \in 1..m /\ t[m] = s[n] /\ m > 0 BY <2>3, <2>4, <3>1
    <3> QED BY <1>1, <2>4, <3>2 DEF Covered
  <2>5. CASE ~(b <= p /\ p <= s[n])
    <3>1. PICK j \in 1..(n - 1) : p <= s[j] /\ s[j] < p + Interval
      BY <2>2, <2>5 DEF Covered, n
    <3>2. j \in 1..n BY <1>0, <3>1
    <3>3. j - k \in 1..m /\ t[j - k] = s[j] /\ m > 0 BY <2>3, <3>1, <3>2
    <3>4. j - k \in 1..(m - 1) BY <1>0, <3>1, <3>3
    <3> QED BY <1>1, <3>1, <3>3, <3>4 DEF Covered
  <2> QED BY <2>4, <2>5
<1>6. CASE m = 0
  <2>1. c = None /\ t = <<>> BY <1>3, <1>6
  <2>0. H = {}
    <3>1. ~(m > 0) BY <1>6
    <3> QED BY <1>5, <3>1
  <2>2. Binned(t, c, H)
    <3>1. Len(t) = 0 /\ 1..Len(t) = {} /\ 1..(Len(t) - 1) = {} BY <1>1, <1>6
    <3> HIDE DEF H, c
    <3> QED BY <2>1, <2>0, <3>1 DEF Binned
  <2> QED BY <1>1, <2>2 DEF t, n
<1>7. CASE m # 0
  <2>0. m > 0 /\ n > 0 /\ m \in 1..m /\ c = b /\ k + m = n BY <1>0, <1>3, <1>7
  <2>1. b \in Nat /\ b <= t[m] /\ t[m] < b + Interval BY <1>1, <1>2, <2>0
  <2>2. ASSUME NEW i \in 1..m PROVE t[i] \in H BY <1>1, <1>2, <1>4
  <2>3. ASSUME NEW j \in 1..m, NEW i \in 1..(j - 1) PROVE t[j] - t[i] > Span(j - i - 1)
    <3>1. i \in 1..m /\ k + j \in 1..n /\ k + i \in 1..((k + j) - 1)
          /\ (k + j) - (k + i) - 1 = j - i - 1
      BY <1>0
    <3> QED BY <1>1, <1>2, <3>1
  <2>4. ASSUME NEW i \in 1..(m - 1) PROVE b - t[i] > Span(m - 1 - i)
    <3>1. i \in 1..m /\ k + i \in 1..(n - 1) /\ n - 1 - (k + i) = m - 1 - i BY <1>0
    <3> QED BY <1>1, <1>2, <3>1
  <2>5. Binned(t, b, H) BY <1>1, <1>5, <1>7, <2>0, <2>1, <2>2, <2>3, <2>4 DEF Binned
  <2> HIDE DEF H, c
  <2>6. Binned(t, c, H) BY <2>0, <2>5
  <2> QED BY <1>1, <2>6 DEF t, n, c, H
<1> QED BY <1>6, <1>7

(* The bound on samples is never what takes one. *)
LEMMA WindowHolds ==
  ASSUME NEW s \in Seq(Nat), NEW b, NEW G \in SUBSET Nat, Binned(s, b, G),
         NEW time \in Int, NEW length \in Nat \ {0},
         \A p \in G : time - length <= p /\ p <= time
  PROVE  Len(s) <= length \div Interval + 2
<1> DEFINE n == Len(s)
           q == length \div Interval
<1>0. n \in Nat /\ \A i \in 1..n : s[i] \in Nat OBVIOUS
<1>1. q \in Int BY Spans, Division
<1>2. q >= 0
  <2>1. Span(0) < length /\ 0 \in Int /\ length \in Nat BY Spans
  <2>2. 0 <= q BY <2>1, SpanFits
  <2> QED BY <1>1, <2>2
<1>3. CASE n < 2 BY <1>0, <1>1, <1>2, <1>3
<1>4. CASE n >= 2
  <2>1. n \in 1..n /\ 1 \in 1..(n - 1) /\ 1 \in 1..n /\ n - 1 - 1 = n - 2 BY <1>0, <1>4
  <2>2. s[n] - s[1] > Span(n - 2) BY <2>1 DEF Binned
  <2>3. s[n] \in G /\ s[1] \in G BY <2>1 DEF Binned
  <2>4. Span(n - 2) \in Int BY <1>0, Spans
  <2> DEFINE x == s[n]
             y == s[1]
             d == Span(n - 2)
  <2>5. x \in Nat /\ y \in Nat /\ d \in Int /\ x - y > d /\ x <= time /\ time - length <= y
    BY <1>0, <2>1, <2>2, <2>3, <2>4
  <2> HIDE DEF x, y, d
  <2>6. d < length BY <2>5
  <2> HIDE DEF n
  <2>7. n - 2 <= q BY <1>0, <2>6, SpanFits DEF d
  <2> HIDE DEF q
  <2>8. n <= q + 2 BY <1>0, <1>1, <2>7
  <2> QED BY <2>8 DEF n, q
<1> QED BY <1>0, <1>3, <1>4

-----------------------------------------------------------------------------
(* The maps of the store: lists of entries with keys. *)
Keyed(map, X) ==
    /\ map \in Seq(X)
    /\ \A i, j \in DOMAIN map : map[i].key = map[j].key => i = j

LEMMA KeysAre ==
  ASSUME NEW X, NEW map \in Seq(X), NEW key
  PROVE  /\ key \in Graph!KeysOf(map) <=> \E i \in 1..Len(map) : map[i].key = key
         /\ key \in Graph!KeysOf(map) =>
              \E i \in 1..Len(map) : Graph!Get(map, key) = map[i] /\ map[i].key = key
<1>1. DOMAIN map = 1..Len(map) OBVIOUS
<1>2. key \in Graph!KeysOf(map) <=> \E i \in 1..Len(map) : map[i].key = key
  BY <1>1 DEF Graph!KeysOf
<1>3. ASSUME key \in Graph!KeysOf(map)
      PROVE  \E i \in 1..Len(map) : Graph!Get(map, key) = map[i] /\ map[i].key = key
  <2>1. PICK i \in 1..Len(map) : map[i].key = key BY <1>2, <1>3
  <2> DEFINE S == Graph!ToSet(map)
  <2>2. S = {map[k] : k \in 1..Len(map)} BY <1>1 DEF Graph!ToSet
  <2>3. Graph!Get(map, key) = CHOOSE e \in S : e.key = key BY DEF Graph!Get
  <2> HIDE DEF S
  <2>4. map[i] \in S BY <2>2
  <2>5. Graph!Get(map, key) \in S /\ Graph!Get(map, key).key = key BY <2>1, <2>3, <2>4
  <2> QED BY <2>2, <2>5
<1> QED BY <1>2, <1>3

(* Map.set and Map.delete. *)
LEMMA PutInMap ==
  ASSUME NEW X, NEW map, Keyed(map, X), NEW e \in X
  PROVE  LET m == Graph!Put(map, e)
         IN  /\ Keyed(m, X)
             /\ Len(m) = IF e.key \in Graph!KeysOf(map) THEN Len(map) ELSE Len(map) + 1
             /\ \A i \in 1..Len(m) :
                   m[i] = e \/ (i \in 1..Len(map) /\ m[i] = map[i] /\ map[i].key # e.key)
             /\ \A key : key \in Graph!KeysOf(map) => key \in Graph!KeysOf(m)
             /\ e.key \in Graph!KeysOf(m)
<1> DEFINE m == Graph!Put(map, e)
           n == Len(map)
<1>0. /\ map \in Seq(X) /\ n \in Nat /\ DOMAIN map = 1..n /\ \A i \in 1..n : map[i] \in X
      /\ \A i, j \in 1..n : map[i].key = map[j].key => i = j
  BY DEF Keyed
<1>1. e.key \in Graph!KeysOf(map) <=> \E i \in 1..n : map[i].key = e.key BY <1>0, KeysAre
<1> HIDE DEF n
<1>2. CASE e.key \in Graph!KeysOf(map)
  <2>1. m = [i \in 1..n |-> IF map[i].key = e.key THEN e ELSE map[i]]
    BY <1>0, <1>2 DEF Graph!Put
  <2> HIDE DEF m
  <2>2. \A i \in 1..n : m[i] \in X BY <1>0, <2>1
  <2>3. m \in Seq(X) /\ Len(m) = n /\ DOMAIN m = 1..n BY <1>0, <2>1, <2>2
  <2>4. \A i \in 1..n : m[i].key = map[i].key BY <2>1
  <2>5. Keyed(m, X) BY <1>0, <2>3, <2>4 DEF Keyed
  <2>6. \A i \in 1..n : m[i] = e \/ (m[i] = map[i] /\ map[i].key # e.key) BY <2>1
  <2>7. \A key : key \in Graph!KeysOf(map) <=> key \in Graph!KeysOf(m)
    BY <1>0, <2>3, <2>4 DEF Graph!KeysOf
  <2> QED BY <1>0, <1>2, <2>3, <2>5, <2>6, <2>7 DEF m, n
<1>3. CASE e.key \notin Graph!KeysOf(map)
  <2>1. m = Append(map, e) BY <1>3 DEF Graph!Put
  <2>2. /\ m \in Seq(X) /\ Len(m) = n + 1 /\ DOMAIN m = 1..(n + 1) /\ m[n + 1] = e
        /\ \A i \in 1..n : m[i] = map[i]
    BY <1>0, <2>1 DEF n
  <2> HIDE DEF m
  <2>3. \A i \in 1..(n + 1) : i = n + 1 \/ i \in 1..n BY <1>0
  <2>4. \A i \in 1..n : map[i].key # e.key BY <1>1, <1>3
  <2>5. ASSUME NEW i \in 1..(n + 1), NEW j \in 1..(n + 1), m[i].key = m[j].key PROVE i = j
    <3>1. CASE i = n + 1 /\ j = n + 1 BY <3>1
    <3>2. CASE i = n + 1 /\ j # n + 1 BY <2>2, <2>3, <2>4, <2>5, <3>2
    <3>3. CASE i # n + 1 /\ j = n + 1 BY <2>2, <2>3, <2>4, <2>5, <3>3
    <3>4. CASE i # n + 1 /\ j # n + 1 BY <1>0, <2>2, <2>3, <2>5, <3>4
    <3> QED BY <3>1, <3>2, <3>3, <3>4
  <2>6. Keyed(m, X) BY <2>2, <2>5 DEF Keyed
  <2>7. \A i \in 1..(n + 1) : m[i] = e \/ (i \in 1..n /\ m[i] = map[i] /\ map[i].key # e.key)
    BY <2>2, <2>3, <2>4
  <2>8. n + 1 \in 1..(n + 1) /\ \A i \in 1..n : i \in 1..(n + 1) BY <1>0
  <2>9. \A key : key \in Graph!KeysOf(map) => key \in Graph!KeysOf(m)
    BY <1>0, <2>2, <2>8 DEF Graph!KeysOf
  <2>10. e.key \in Graph!KeysOf(m) BY <2>2, <2>8 DEF Graph!KeysOf
  <2> QED BY <1>0, <1>3, <2>2, <2>6, <2>7, <2>9, <2>10 DEF m, n
<1> QED BY <1>2, <1>3

LEMMA FilteredMap ==
  ASSUME NEW X, NEW map, Keyed(map, X), NEW S \in SUBSET (DOMAIN map)
  PROVE  LET m == Graph!Filtered(map, S)
         IN  /\ Keyed(m, X) /\ Len(m) <= Len(map)
             /\ \A k \in 1..Len(m) : \E i \in S : m[k] = map[i]
             /\ \A i \in S : \E k \in 1..Len(m) : m[k] = map[i]
<1> DEFINE m == Graph!Filtered(map, S)
           n == Len(map)
           c == Cardinality(S)
<1>0. /\ map \in Seq(X) /\ n \in Nat /\ DOMAIN map = 1..n /\ \A i \in 1..n : map[i] \in X
      /\ \A i, j \in 1..n : map[i].key = map[j].key => i = j
  BY DEF Keyed
<1>1. S \in SUBSET (1..n) BY <1>0
<1>2. m = Filtered(map, S) BY SameFilters
<1>3. PICK h \in [1..c -> S] :
         /\ m = [k \in 1..c |-> map[h[k]]]
         /\ c \in Nat
         /\ \A k, l \in 1..c : h[k] = h[l] => k = l
         /\ \A k, l \in 1..c : k < l => h[k] < h[l]
         /\ \A i \in S : \E k \in 1..c : h[k] = i
  <2>1. map \in Seq(X) /\ S \in SUBSET (1..Len(map)) BY <1>0, <1>1
  <2>2. \E h \in [1..Cardinality(S) -> S] :
            /\ Filtered(map, S) = [k \in 1..Cardinality(S) |-> map[h[k]]]
            /\ Cardinality(S) \in Nat
            /\ \A k, l \in 1..Cardinality(S) : h[k] = h[l] => k = l
            /\ \A k, l \in 1..Cardinality(S) : k < l => h[k] < h[l]
            /\ \A i \in S : \E k \in 1..Cardinality(S) : h[k] = i
    BY <2>1, FilteredElements
  <2> HIDE DEF m
  <2> QED BY <1>2, <2>2
<1>4. c <= n
  <2>1. IsFiniteSet(1..n) /\ Cardinality(1..n) = n BY <1>0, UpTo
  <2> QED BY <1>1, <2>1, FS_Subset
<1> HIDE DEF m, n, c
<1>5. \A k \in 1..c : h[k] \in S /\ h[k] \in 1..n BY <1>1
<1>6. m \in Seq(X) /\ Len(m) = c /\ DOMAIN m = 1..c /\ \A k \in 1..c : m[k] = map[h[k]]
  BY <1>0, <1>3, <1>5
<1>7. Keyed(m, X) BY <1>0, <1>3, <1>5, <1>6 DEF Keyed
<1>8. \A k \in 1..c : \E i \in S : m[k] = map[i] BY <1>5, <1>6
<1>9. \A i \in S : \E k \in 1..c : m[k] = map[i] BY <1>3, <1>6
<1> QED BY <1>4, <1>6, <1>7, <1>8, <1>9 DEF m, n

LEMMA WithoutEntry ==
  ASSUME NEW X, NEW map, Keyed(map, X), NEW key
  PROVE  LET m == Graph!Without(map, key)
         IN  /\ Keyed(m, X) /\ Len(m) <= Len(map)
             /\ \A k \in 1..Len(m) :
                   \E i \in 1..Len(map) : m[k] = map[i] /\ map[i].key # key
             /\ \A other : other \in Graph!KeysOf(m) <=>
                              other \in Graph!KeysOf(map) /\ other # key
<1> DEFINE S == {i \in DOMAIN map : map[i].key # key}
           m == Graph!Without(map, key)
<1>0. map \in Seq(X) /\ DOMAIN map = 1..Len(map) BY DEF Keyed
<1>1. S \in SUBSET (DOMAIN map) OBVIOUS
<1>2. /\ Keyed(m, X) /\ Len(m) <= Len(map)
      /\ \A k \in 1..Len(m) : \E i \in S : m[k] = map[i]
      /\ \A i \in S : \E k \in 1..Len(m) : m[k] = map[i]
  <2> HIDE DEF S, m
  <2>2. m = Graph!Filtered(map, S) BY DEF m, S, Graph!Without
  <2> QED BY <1>1, <2>2, FilteredMap
<1> HIDE DEF m
<1>3. \A k \in 1..Len(m) : \E i \in 1..Len(map) : m[k] = map[i] /\ map[i].key # key
  BY <1>0, <1>2
<1>4. m \in Seq(X) BY <1>2 DEF Keyed
<1>5. ASSUME NEW other
      PROVE  other \in Graph!KeysOf(m) <=> other \in Graph!KeysOf(map) /\ other # key
  <2>1. other \in Graph!KeysOf(m) <=> \E k \in 1..Len(m) : m[k].key = other
    BY <1>4, KeysAre
  <2>2. other \in Graph!KeysOf(map) <=> \E i \in 1..Len(map) : map[i].key = other
    BY <1>0, KeysAre
  <2>3. \A i \in 1..Len(map) : map[i].key # key => i \in S BY <1>0
  <2> HIDE DEF S
  <2> QED BY <1>2, <1>3, <2>1, <2>2, <2>3
<1>6. /\ Keyed(m, X) /\ Len(m) <= Len(map)
      /\ \A k \in 1..Len(m) : \E i \in 1..Len(map) : m[k] = map[i] /\ map[i].key # key
      /\ \A other : other \in Graph!KeysOf(m) <=> other \in Graph!KeysOf(map) /\ other # key
  BY <1>2, <1>3, <1>5
<1> QED BY <1>6 DEF m

-----------------------------------------------------------------------------
(* The store: its series with the points they were given. *)
Buffer == [key : Signals, samples : Seq(Nat), binStart : Nat \cup {None}]

Entry == [key : Signals, seen : BOOLEAN]

Point == [key : Signals, bus : Buses, ts : Nat]

Given(P, key) == {p.ts : p \in {q \in P : q.key = key}}

Plots(curve, P) ==
    /\ curve \in Buffer
    /\ Binned(curve.samples, curve.binStart, Given(P, curve.key))

Store == [series : Seq(Buffer), catalog : Seq(Entry), now : Nat, points : SUBSET Point]

GoodStore(st) ==
    /\ st \in Store
    /\ Keyed(st.series, Buffer) /\ Keyed(st.catalog, Entry)
    /\ Len(st.series) <= SeriesMax
    /\ \A i \in 1..Len(st.series) : Plots(st.series[i], st.points)
    /\ \A p \in st.points :
          /\ p.ts <= st.now /\ p.key \in Graph!KeysOf(st.series)
          /\ activeBus # AnyBus => p.bus = activeBus

(* What is plotted and was there still is. *)
Keeps(a, b) ==
    \A key \in selected :
       /\ key \in Graph!KeysOf(a.series) => key \in Graph!KeysOf(b.series)
       /\ key \in Graph!KeysOf(a.catalog) => key \in Graph!KeysOf(b.catalog)

LEMMA GivenIs ==
  ASSUME NEW P \in SUBSET Point, NEW key
  PROVE  /\ Given(P, key) \in SUBSET Nat
         /\ \A start \in Int :
               Given({p \in P : p.ts >= start}, key) = {ts \in Given(P, key) : ts >= start}
         /\ \A other : other # key => Given({p \in P : p.key # other}, key) = Given(P, key)
         /\ \A p \in Point : Given(P \cup {p}, key)
                               = IF p.key = key THEN Given(P, key) \cup {p.ts}
                                 ELSE Given(P, key)
<1>1. \A p \in P : p.ts \in Nat BY DEF Point
<1>2. Given(P, key) \in SUBSET Nat BY <1>1 DEF Given
<1>3. \A start \in Int :
        Given({p \in P : p.ts >= start}, key) = {ts \in Given(P, key) : ts >= start}
  BY DEF Given
<1>4. \A other : other # key => Given({p \in P : p.key # other}, key) = Given(P, key)
  BY DEF Given
<1>5. ASSUME NEW p \in Point
      PROVE  Given(P \cup {p}, key)
               = IF p.key = key THEN Given(P, key) \cup {p.ts} ELSE Given(P, key)
  <2>1. CASE p.key = key BY <2>1 DEF Given
  <2>2. CASE p.key # key BY <2>2 DEF Given
  <2> QED BY <2>1, <2>2
<1> QED BY <1>2, <1>3, <1>4, <1>5

LEMMA AppendPlots ==
  ASSUME NEW curve, NEW P \in SUBSET Point, Plots(curve, P), NEW p \in Point,
         p.key = curve.key,
         Len(curve.samples) > 0 => p.ts >= curve.samples[Len(curve.samples)]
  PROVE  LET e == Graph!AppendSample(curve, p.ts)
         IN  e.key = curve.key /\ Plots(e, P \cup {p})
<1> DEFINE s == curve.samples
           b == curve.binStart
           G == Given(P, curve.key)
           ts == p.ts
           e == Graph!AppendSample(curve, ts)
<1>0. /\ curve \in Buffer /\ s \in Seq(Nat) /\ b \in Nat \cup {None} /\ ts \in Nat
      /\ Len(s) \in Nat /\ Binned(s, b, G) /\ curve.key \in Signals
      /\ \A i \in 1..Len(s) : s[i] \in Nat
  BY DEF Plots, Buffer, Point
<1>1. G \in SUBSET Nat /\ Given(P \cup {p}, curve.key) = G \cup {ts}
  <2> DEFINE key == curve.key
  <2> HIDE DEF key
  <2>1. p.key = key BY DEF key
  <2>2. Given(P, key) \in SUBSET Nat BY GivenIs
  <2>3. Given(P \cup {p}, key) = IF p.key = key THEN Given(P, key) \cup {p.ts} ELSE Given(P, key)
    BY GivenIs
  <2> QED BY <2>1, <2>2, <2>3 DEF key
<1>2. ~(Len(s) > 0 /\ ts < s[Len(s)])
  <2>1. Len(s) > 0 => s[Len(s)] \in Nat /\ ts >= s[Len(s)] BY <1>0
  <2> DEFINE x == s[Len(s)]
  <2>2. Len(s) > 0 => x \in Nat /\ ts >= x BY <2>1
  <2> HIDE DEF x
  <2>3. ~(Len(s) > 0 /\ ts < x) BY <1>0, <2>2
  <2> QED BY <2>3 DEF x
<1>3. e = IF b # None /\ ts - b < Interval
          THEN [curve EXCEPT !.samples[Len(s)] = ts]
          ELSE [curve EXCEPT !.samples = Append(@, ts), !.binStart = ts]
  BY <1>2 DEF Graph!AppendSample, Graph!shouldReplaceLastSample
<1> HIDE DEF e
<1>4. CASE b # None /\ ts - b < Interval
  <2>1. Len(s) > 0 /\ b \in Nat BY <1>0, <1>4 DEF Binned
  <2> DEFINE t == [s EXCEPT ![Len(s)] = ts]
  <2>2. e = [curve EXCEPT !.samples = t] BY <1>3, <1>4
  <2>3. t \in Seq(Nat) BY <1>0, <2>1
  <2>4. Binned(t, b, G \cup {ts})
    <3>1. ts >= s[Len(s)] BY <2>1
    <3> HIDE DEF s, b, G, ts
    <3> QED BY <1>0, <1>1, <1>4, <2>1, <3>1, SameBin
  <2> HIDE DEF t
  <2>5. e.key = curve.key /\ e.samples = t /\ e.binStart = b /\ e \in Buffer
    BY <1>0, <2>2, <2>3 DEF Buffer
  <2>6. Plots(e, P \cup {p}) BY <1>1, <2>4, <2>5 DEF Plots
  <2> QED BY <2>5, <2>6 DEF e
<1>5. CASE ~(b # None /\ ts - b < Interval)
  <2> DEFINE t == Append(s, ts)
  <2>1. e = [curve EXCEPT !.samples = t, !.binStart = ts] BY <1>3, <1>5
  <2>2. t \in Seq(Nat) BY <1>0
  <2>3. Len(s) > 0 => ts >= s[Len(s)] /\ ts - b >= Interval
    <3> SUFFICES ASSUME Len(s) > 0 PROVE ts >= s[Len(s)] /\ ts - b >= Interval
      OBVIOUS
    <3>1. b \in Nat BY <1>0 DEF Binned
    <3>2. None \notin Int /\ Interval \in Nat BY RateBounds, GraphBounds
    <3>3. ~(ts - b < Interval) BY <1>5, <3>1, <3>2
    <3> HIDE DEF b, ts
    <3>4. ts - b >= Interval BY <1>0, <3>1, <3>2, <3>3
    <3> QED BY <3>4 DEF ts
  <2>4. Binned(t, ts, G \cup {ts})
    <3> HIDE DEF s, b, G, ts
    <3> QED BY <1>0, <1>1, <2>3, NextBin
  <2> HIDE DEF t
  <2>5. e.key = curve.key /\ e.samples = t /\ e.binStart = ts /\ e \in Buffer
    BY <1>0, <2>1, <2>2 DEF Buffer
  <2>6. Plots(e, P \cup {p}) BY <1>1, <2>4, <2>5 DEF Plots
  <2> QED BY <2>5, <2>6 DEF e
<1> QED BY <1>4, <1>5

LEMMA TrimPlots ==
  ASSUME NEW curve, NEW P \in SUBSET Point, Plots(curve, P),
         NEW time \in Int, NEW length \in Nat \ {0}, \A p \in P : p.ts <= time
  PROVE  LET e == Graph!Trim(curve, time - length, length \div Interval + 2)
         IN  /\ e.key = curve.key /\ Plots(e, {p \in P : p.ts >= time - length})
             /\ Len(e.samples) <= length \div Interval + 2
<1> DEFINE s == curve.samples
           b == curve.binStart
           G == Given(P, curve.key)
           start == time - length
           bound == length \div Interval + 2
           e == Graph!Trim(curve, start, bound)
           k == Cardinality({i \in DOMAIN s : \A j \in 1..i : s[j] < start})
           recent == SubSeq(s, k + 1, Len(s))
           Q == {p \in P : p.ts >= start}
           H == {ts \in G : ts >= start}
           c == IF recent = <<>> THEN None ELSE b
<1>0. /\ curve \in Buffer /\ s \in Seq(Nat) /\ b \in Nat \cup {None}
      /\ Binned(s, b, G) /\ start \in Int /\ bound \in Int
  <2>1. bound \in Int BY Spans, Division
  <2> QED BY <2>1 DEF Plots, Buffer
<1>1. G \in SUBSET Nat /\ Given(Q, curve.key) = H
  <2>1. G \in SUBSET Nat BY GivenIs
  <2>2. \A t \in Int : Given({p \in P : p.ts >= t}, curve.key)
                         = {ts \in Given(P, curve.key) : ts >= t}
    BY GivenIs
  <2> HIDE DEF start
  <2> QED BY <1>0, <2>1, <2>2
<1>2. /\ k \in 0..Len(s) /\ \A i \in 1..k : s[i] < start
      /\ k < Len(s) => s[k + 1] >= start
  <2> HIDE DEF s, start
  <2> QED BY <1>0, Leading
<1>3. e = LET extra == IF Len(recent) > bound THEN Len(recent) - bound ELSE 0
              kept  == SubSeq(recent, extra + 1, Len(recent))
          IN  [curve EXCEPT !.samples = kept, !.binStart = IF kept = <<>> THEN None ELSE @]
  BY DEF Graph!Trim, Graph!Cardinality, Cardinality
<1> HIDE DEF k, e
<1>4. recent \in Seq(Nat) /\ Binned(recent, c, H)
  <2> HIDE DEF s, b, G, start
  <2> QED BY <1>0, <1>1, <1>2, DropOld, ZenonT(60)
<1>5. \A ts \in H : time - length <= ts /\ ts <= time
  <2>1. \A ts \in G : ts <= time BY DEF Given
  <2> QED BY <1>1, <2>1
<1>6. H \in SUBSET Nat BY <1>1
<1>7. Len(recent) <= bound
  <2> HIDE DEF recent, H, c
  <2> QED BY <1>4, <1>5, <1>6, WindowHolds
<1> HIDE DEF recent, H, Q
<1>8. SubSeq(recent, 0 + 1, Len(recent)) = recent BY <1>4
<1>9. ~(Len(recent) > bound)
  <2>1. Len(recent) \in Nat BY <1>4
  <2> HIDE DEF bound
  <2> QED BY <1>0, <1>7, <2>1
<1>10. e = [curve EXCEPT !.samples = recent, !.binStart = c]
  <2> HIDE DEF bound
  <2> QED BY <1>3, <1>8, <1>9
<1>11. c \in Nat \cup {None} BY <1>0
<1> HIDE DEF c
<1>12. e.key = curve.key /\ e.samples = recent /\ e.binStart = c /\ e \in Buffer
  BY <1>0, <1>4, <1>10, <1>11 DEF Buffer
<1>13. Plots(e, Q) BY <1>1, <1>4, <1>12 DEF Plots
<1> QED BY <1>7, <1>12, <1>13 DEF e, Q

(* A step of a frame: the store stays good, keeps what is plotted, and its    *)
(* clock.                                                                     *)
Leads(a, b) == GoodStore(b) /\ Keeps(a, b) /\ b.now = a.now

LEMMA LeadsOn ==
  /\ \A a : GoodStore(a) => Leads(a, a)
  /\ \A a, b, c : Leads(a, b) /\ Leads(b, c) => Leads(a, c)
BY DEF Leads, Keeps

LEMMA StoreIs ==
  ASSUME NEW st, GoodStore(st)
  PROVE  /\ st \in Store /\ st.points \in SUBSET Point /\ st.now \in Nat
         /\ Keyed(st.series, Buffer) /\ st.series \in Seq(Buffer)
         /\ Keyed(st.catalog, Entry) /\ st.catalog \in Seq(Entry)
         /\ Len(st.series) <= SeriesMax
         /\ \A i \in 1..Len(st.series) : Plots(st.series[i], st.points)
         /\ \A p \in st.points :
               /\ p.ts <= st.now /\ p.key \in Graph!KeysOf(st.series)
               /\ activeBus # AnyBus => p.bus = activeBus
BY DEF GoodStore, Store

LEMMA EvictSeries ==
  ASSUME NEW st, GoodStore(st)
  PROVE  Leads(st, Graph!EvictIdleSeries(st))
<1> DEFINE r == Graph!EvictIdleSeries(st)
           series0 == st.series
           P == st.points
           idle == {i \in DOMAIN series0 : series0[i].key \notin selected}
<1>0. /\ st \in Store /\ P \in SUBSET Point /\ st.now \in Nat
      /\ Keyed(series0, Buffer) /\ series0 \in Seq(Buffer) /\ DOMAIN series0 = 1..Len(series0)
      /\ Keyed(st.catalog, Entry) /\ st.catalog \in Seq(Entry)
      /\ Len(series0) <= SeriesMax
      /\ \A i \in 1..Len(series0) : Plots(series0[i], P)
      /\ \A p \in P :
            /\ p.ts <= st.now /\ p.key \in Graph!KeysOf(series0)
            /\ activeBus # AnyBus => p.bus = activeBus
  BY StoreIs
<1>1. CASE idle = {}
  <2>1. r = st BY <1>1 DEF Graph!EvictIdleSeries
  <2> QED BY <2>1, LeadsOn
<1>2. CASE idle # {}
  <2> DEFINE first == CHOOSE i \in idle : \A j \in idle : i <= j
             key == series0[first].key
             more == Graph!Without(series0, key)
             Q == {p \in P : p.key # key}
  <2>1. first \in idle
    <3>1. idle \in SUBSET Nat BY <1>0
    <3> HIDE DEF idle
    <3>2. \E i \in idle : \A j \in idle : i <= j BY <1>2, <3>1, Least
    <3> QED BY <3>2
  <2>2. r = [st EXCEPT !.series = more, !.points = Q] BY <1>2 DEF Graph!EvictIdleSeries
  <2>3. key \notin selected BY <2>1
  <2> HIDE DEF first, idle, r, series0, P
  <2>4. /\ Keyed(more, Buffer) /\ Len(more) <= Len(series0)
        /\ \A i \in 1..Len(more) :
              \E j \in 1..Len(series0) : more[i] = series0[j] /\ series0[j].key # key
        /\ \A other : other \in Graph!KeysOf(more) <=>
                         other \in Graph!KeysOf(series0) /\ other # key
    <3> HIDE DEF key
    <3>1. Keyed(series0, Buffer) BY <1>0
    <3>2. Keyed(more, Buffer) /\ Len(more) <= Len(series0) BY <3>1, WithoutEntry
    <3>3. \A i \in 1..Len(more) :
             \E j \in 1..Len(series0) : more[i] = series0[j] /\ series0[j].key # key
      BY <3>1, WithoutEntry
    <3>4. ASSUME NEW other
          PROVE  other \in Graph!KeysOf(more) <=> other \in Graph!KeysOf(series0) /\ other # key
      BY <3>1, WithoutEntry
    <3> QED BY <3>2, <3>3, <3>4
  <2> HIDE DEF key, more, Q
  <2>5. more \in Seq(Buffer) /\ Len(more) \in Nat /\ Q \in SUBSET Point
    BY <1>0, <2>4 DEF Keyed, Q
  <2>6. r.series = more /\ r.points = Q /\ r.catalog = st.catalog /\ r.now = st.now
        /\ r \in Store
    BY <1>0, <2>2, <2>5 DEF Store
  <2>7. ASSUME NEW i \in 1..Len(more) PROVE Plots(more[i], Q)
    <3>1. PICK j \in 1..Len(series0) : more[i] = series0[j] /\ series0[j].key # key BY <2>4
    <3>2. Plots(series0[j], P) BY <1>0
    <3>3. Given(Q, series0[j].key) = Given(P, series0[j].key)
      <4>1. \A x, y : y # x => Given({p \in P : p.key # y}, x) = Given(P, x) BY <1>0, GivenIs
      <4> QED BY <3>1, <4>1 DEF Q
    <3> QED BY <3>1, <3>2, <3>3 DEF Plots
  <2>8. Len(more) <= SeriesMax
    <3>1. SeriesMax \in Nat /\ Len(series0) \in Nat BY <1>0, GraphBounds
    <3> DEFINE x == Len(more)
               y == Len(series0)
    <3>2. x \in Nat /\ y \in Nat /\ x <= y /\ y <= SeriesMax BY <1>0, <2>4, <2>5, <3>1
    <3> HIDE DEF x, y
    <3>3. x <= SeriesMax BY <3>1, <3>2
    <3> QED BY <3>3 DEF x
  <2>9. \A p \in Q : /\ p.ts <= st.now /\ p.key \in Graph!KeysOf(more)
                     /\ activeBus # AnyBus => p.bus = activeBus
    BY <1>0, <2>4 DEF Q
  <2>10. GoodStore(r) BY <1>0, <2>4, <2>6, <2>7, <2>8, <2>9 DEF GoodStore
  <2>11. Keeps(st, r)
    BY <2>3, <2>4, <2>6 DEF Keeps, series0
  <2> QED BY <2>6, <2>10, <2>11 DEF Leads, r
<1> QED BY <1>1, <1>2

(* The catalog is another map of the same store. *)
LEMMA OtherCatalog ==
  ASSUME NEW st, GoodStore(st), NEW list, Keyed(list, Entry)
  PROVE  LET r == [st EXCEPT !.catalog = list]
         IN  GoodStore(r) /\ r.now = st.now /\ r.series = st.series /\ r.catalog = list
<1> DEFINE r == [st EXCEPT !.catalog = list]
<1>0. st \in Store /\ list \in Seq(Entry) BY StoreIs DEF Keyed
<1>1. /\ r \in Store /\ r.catalog = list /\ r.series = st.series /\ r.points = st.points
      /\ r.now = st.now
  BY <1>0 DEF Store
<1> HIDE DEF r
<1>2. GoodStore(r) BY <1>1 DEF GoodStore
<1> QED BY <1>1, <1>2 DEF r

LEMMA EvictCatalog ==
  ASSUME NEW st, GoodStore(st)
  PROVE  Leads(st, Graph!EvictIdleCatalog(st))
<1> DEFINE r == Graph!EvictIdleCatalog(st)
           list == st.catalog
           idle == {i \in DOMAIN list : list[i].key \notin selected}
           fresh == {i \in idle : ~list[i].seen}
           from == IF fresh # {} THEN fresh ELSE idle
<1>0. Keyed(list, Entry) /\ list \in Seq(Entry) /\ DOMAIN list = 1..Len(list)
  BY StoreIs
<1>1. CASE from = {}
  <2>1. r = st BY <1>1 DEF Graph!EvictIdleCatalog
  <2> QED BY <2>1, LeadsOn
<1>2. CASE from # {}
  <2> DEFINE first == CHOOSE i \in from : \A j \in from : i <= j
             key == list[first].key
             more == Graph!Without(list, key)
  <2>0. from \in SUBSET idle OBVIOUS
  <2>1. first \in idle
    <3>1. from \in SUBSET Nat BY <1>0
    <3> HIDE DEF from
    <3>2. \E i \in from : \A j \in from : i <= j BY <1>2, <3>1, Least
    <3> QED BY <2>0, <3>2
  <2>2. r = [st EXCEPT !.catalog = more] BY <1>2 DEF Graph!EvictIdleCatalog
  <2>3. key \notin selected BY <2>1
  <2> HIDE DEF first, from, idle, fresh, r
  <2>4. /\ Keyed(more, Entry)
        /\ \A other : other \in Graph!KeysOf(more) <=>
                         other \in Graph!KeysOf(list) /\ other # key
    <3> HIDE DEF key, list
    <3>1. Keyed(list, Entry) BY <1>0
    <3>2. Keyed(more, Entry) BY <3>1, WithoutEntry
    <3>3. ASSUME NEW other
          PROVE  other \in Graph!KeysOf(more) <=> other \in Graph!KeysOf(list) /\ other # key
      BY <3>1, WithoutEntry
    <3> QED BY <3>2, <3>3
  <2> HIDE DEF key, more
  <2>5. GoodStore(r) /\ r.now = st.now /\ r.series = st.series /\ r.catalog = more
    BY <2>2, <2>4, OtherCatalog
  <2>6. Keeps(st, r) BY <2>3, <2>4, <2>5 DEF Keeps
  <2> QED BY <2>5, <2>6 DEF Leads, r
<1> QED BY <1>1, <1>2

LEMMA CatalogStep ==
  ASSUME NEW st, GoodStore(st), NEW key \in Signals
  PROVE  Leads(st, Graph!CatalogKey(st, key))
<1> DEFINE room == IF key \notin Graph!KeysOf(st.catalog) /\ Len(st.catalog) >= CatalogMax
                   THEN Graph!EvictIdleCatalog(st) ELSE st
           r == Graph!CatalogKey(st, key)
           e == [key |-> key, seen |-> TRUE]
           more == Graph!Put(room.catalog, e)
<1>1. Leads(st, room)
  <2>1. Leads(st, st) BY LeadsOn
  <2>2. Leads(st, Graph!EvictIdleCatalog(st)) BY EvictCatalog
  <2> QED BY <2>1, <2>2
<1>2. r = room \/ r = [room EXCEPT !.catalog = more] BY DEF Graph!CatalogKey
<1> HIDE DEF room, r
<1>3. CASE r = room BY <1>1, <1>3 DEF r
<1>4. CASE r = [room EXCEPT !.catalog = more]
  <2>1. GoodStore(room) BY <1>1 DEF Leads
  <2>2. e \in Entry /\ Keyed(room.catalog, Entry) BY <2>1, StoreIs DEF Entry
  <2> HIDE DEF e
  <2>3. /\ Keyed(more, Entry)
        /\ \A other : other \in Graph!KeysOf(room.catalog) => other \in Graph!KeysOf(more)
    BY <2>2, PutInMap
  <2> HIDE DEF more
  <2>4. GoodStore(r) /\ r.now = room.now /\ r.series = room.series /\ r.catalog = more
    BY <1>4, <2>1, <2>3, OtherCatalog
  <2>5. Leads(room, r) BY <2>3, <2>4 DEF Leads, Keeps
  <2> QED BY <1>1, <2>5, LeadsOn DEF r
<1> QED BY <1>2, <1>3, <1>4

(* A frame that counts: of the active bus, and no later than the clock. *)
Counts(frame, time) ==
    /\ frame.bus \in Buses /\ frame.ts \in Nat /\ frame.ts <= time
    /\ activeBus # AnyBus => frame.bus = activeBus

LEMMA SampleStep ==
  ASSUME NEW st, GoodStore(st), NEW key \in Signals, NEW frame, Counts(frame, st.now)
  PROVE  Leads(st, Graph!SampleKey(st, key, frame))
<1> DEFINE room == IF key \notin Graph!KeysOf(st.series) /\ Len(st.series) >= SeriesMax
                   THEN Graph!EvictIdleSeries(st) ELSE st
           map == room.series
           P == room.points
           new == [key |-> key, samples |-> <<>>, binStart |-> None]
           curve == IF key \in Graph!KeysOf(map) THEN Graph!Get(map, key) ELSE new
           n == Len(curve.samples)
           ts == frame.ts
           e == Graph!AppendSample(curve, ts)
           more == Graph!Put(map, e)
           p == [key |-> key, bus |-> frame.bus, ts |-> ts]
           stale == n > 0 /\ ts < curve.samples[n]
           Q == IF stale THEN P ELSE P \cup {p}
           r == Graph!SampleKey(st, key, frame)
<1>1. Leads(st, room)
  <2>1. Leads(st, st) BY LeadsOn
  <2>2. Leads(st, Graph!EvictIdleSeries(st)) BY EvictSeries
  <2> QED BY <2>1, <2>2
<1>2. CASE key \notin Graph!KeysOf(map) /\ Len(map) >= SeriesMax
  <2>1. r = room BY <1>2 DEF Graph!SampleKey
  <2> QED BY <1>1, <2>1
<1>3. CASE ~(key \notin Graph!KeysOf(map) /\ Len(map) >= SeriesMax)
  <2>1. r = [room EXCEPT !.series = more, !.points = Q]
    BY <1>3 DEF Graph!SampleKey
  <2> HIDE DEF r, room
  <2>2. GoodStore(room) /\ room.now = st.now BY <1>1 DEF Leads
  <2>3. /\ room \in Store /\ P \in SUBSET Point /\ room.now \in Nat
        /\ Keyed(map, Buffer) /\ map \in Seq(Buffer)
        /\ Len(map) <= SeriesMax
        /\ Keyed(room.catalog, Entry) /\ room.catalog \in Seq(Entry)
        /\ \A i \in 1..Len(map) : Plots(map[i], P)
        /\ \A q \in P : /\ q.ts <= room.now /\ q.key \in Graph!KeysOf(map)
                        /\ activeBus # AnyBus => q.bus = activeBus
    BY <2>2, StoreIs
  <2>4. /\ frame.bus \in Buses /\ ts \in Nat /\ ts <= room.now
        /\ activeBus # AnyBus => frame.bus = activeBus
    BY <2>2 DEF Counts
  <2>5. p \in Point /\ p.key = key /\ p.ts = ts /\ p.bus = frame.bus BY <2>4 DEF Point
  <2> HIDE DEF map, P, p, ts
  <2>6. Plots(curve, P) /\ curve.key = key
    <3>1. CASE key \in Graph!KeysOf(map)
      <4>1. PICK i \in 1..Len(map) : Graph!Get(map, key) = map[i] /\ map[i].key = key
        BY <2>3, <3>1, KeysAre
      <4> QED BY <2>3, <3>1, <4>1
    <3>2. CASE key \notin Graph!KeysOf(map)
      <4>1. Given(P, key) = {} BY <2>3, <3>2 DEF Given
      <4>2. new \in Buffer /\ new.key = key /\ new.samples = <<>> /\ new.binStart = None
        <5>1. <<>> \in Seq(Nat) OBVIOUS
        <5> QED BY <5>1 DEF Buffer
      <4> HIDE DEF new
      <4>3. Binned(<<>>, None, {})
        <5>1. Len(<<>>) = 0 /\ 1..0 = {} /\ 1..(0 - 1) = {} OBVIOUS
        <5> QED BY <5>1 DEF Binned
      <4>4. Plots(new, P) BY <4>1, <4>2, <4>3 DEF Plots
      <4> QED BY <3>2, <4>2, <4>4
    <3> QED BY <3>1, <3>2
  <2> HIDE DEF curve
  <2>7. n \in Nat /\ (n > 0 => curve.samples[n] \in Nat) /\ curve \in Buffer
    BY <2>6 DEF Plots, Buffer
  <2>8. e.key = key /\ Plots(e, Q)
    <3>1. CASE stale
      <4>1. e = curve BY <3>1 DEF Graph!AppendSample
      <4> QED BY <2>6, <3>1, <4>1
    <3>2. CASE ~stale
      <4>1. n > 0 => ts >= curve.samples[n]
        <5> DEFINE x == curve.samples[n]
        <5>1. n > 0 => x \in Nat /\ ~(ts < x) BY <2>7, <3>2
        <5> HIDE DEF x
        <5>2. n > 0 => ts >= x BY <2>4, <5>1 DEF ts
        <5> QED BY <5>2 DEF x
      <4>2. e.key = curve.key /\ Plots(e, P \cup {p})
        <5>1. n > 0 => p.ts >= curve.samples[n] BY <2>5, <4>1
        <5> QED BY <2>3, <2>5, <2>6, <5>1, AppendPlots
      <4> QED BY <2>6, <3>2, <4>2
    <3> QED BY <3>1, <3>2
  <2>9. e \in Buffer BY <2>8 DEF Plots
  <2> HIDE DEF e
  <2>10. /\ Keyed(more, Buffer)
         /\ Len(more) = IF key \in Graph!KeysOf(map) THEN Len(map) ELSE Len(map) + 1
         /\ \A i \in 1..Len(more) :
               more[i] = e \/ (i \in 1..Len(map) /\ more[i] = map[i] /\ map[i].key # key)
         /\ \A other : other \in Graph!KeysOf(map) => other \in Graph!KeysOf(more)
         /\ key \in Graph!KeysOf(more)
    <3>1. /\ Keyed(more, Buffer)
          /\ Len(more) = IF e.key \in Graph!KeysOf(map) THEN Len(map) ELSE Len(map) + 1
          /\ \A i \in 1..Len(more) :
                more[i] = e \/ (i \in 1..Len(map) /\ more[i] = map[i] /\ map[i].key # e.key)
          /\ \A other : other \in Graph!KeysOf(map) => other \in Graph!KeysOf(more)
          /\ e.key \in Graph!KeysOf(more)
      BY <2>3, <2>9, PutInMap
    <3> HIDE DEF more
    <3> QED BY <2>8, <3>1
  <2> HIDE DEF more, stale, Q
  <2>11. more \in Seq(Buffer) /\ Q \in SUBSET Point BY <2>3, <2>5, <2>10 DEF Keyed, Q
  <2>12. r.series = more /\ r.points = Q /\ r.catalog = room.catalog /\ r.now = room.now
         /\ r \in Store
    BY <2>1, <2>3, <2>11 DEF Store
  <2>13. ASSUME NEW i \in 1..Len(more) PROVE Plots(more[i], Q)
    <3>1. CASE more[i] = e BY <2>8, <3>1
    <3>2. CASE more[i] # e
      <4>1. i \in 1..Len(map) /\ more[i] = map[i] /\ map[i].key # key BY <2>10, <3>2
      <4>2. Plots(map[i], P) BY <2>3, <4>1
      <4>3. Given(Q, map[i].key) = Given(P, map[i].key)
        <5>1. \A x : Given(P \cup {p}, x)
                       = IF p.key = x THEN Given(P, x) \cup {p.ts} ELSE Given(P, x)
          BY <2>3, <2>5, GivenIs, ZenonT(60)
        <5> QED BY <2>5, <4>1, <5>1 DEF Q
      <4> QED BY <4>1, <4>2, <4>3 DEF Plots
    <3> QED BY <3>1, <3>2
  <2>14. Len(more) <= SeriesMax
    <3> DEFINE x == Len(map)
    <3>1. SeriesMax \in Nat /\ x \in Nat /\ x <= SeriesMax BY <2>3, GraphBounds
    <3>2. Len(more) = x \/ (Len(more) = x + 1 /\ ~(x >= SeriesMax)) BY <1>3, <2>10 DEF map
    <3> HIDE DEF x
    <3> QED BY <3>1, <3>2
  <2>15. \A q \in Q : /\ q.ts <= room.now /\ q.key \in Graph!KeysOf(more)
                      /\ activeBus # AnyBus => q.bus = activeBus
    BY <2>3, <2>4, <2>5, <2>10 DEF Q
  <2>16. GoodStore(r) BY <2>3, <2>10, <2>12, <2>13, <2>14, <2>15 DEF GoodStore
  <2>17. Leads(room, r) BY <2>10, <2>12, <2>16 DEF Leads, Keeps, map
  <2> QED BY <1>1, <2>17, LeadsOn DEF r
<1> QED BY <1>2, <1>3

(* A loop whose turns keep to X ends in X, whatever its body does elsewhere.  *)
LEMMA LoopEnds ==
  ASSUME NEW X, NEW a, NEW N, NEW step, Loop(a, N, step, X), NEW f, f[0] = a,
         \A n \in 1..N : f[n - 1] \in X => f[n] = step[n][f[n - 1]]
  PROVE  f[N] \in X
<1> DEFINE S == {n \in Nat : n <= N => f[n] \in X}
<1>0. a \in X /\ N \in Nat /\ step \in [1..N -> [X -> X]] BY DEF Loop, Turns
<1>1. 0 \in S BY <1>0
<1>2. ASSUME NEW n \in Nat, n \in S PROVE n + 1 \in S
  <2> SUFFICES ASSUME n + 1 <= N PROVE f[n + 1] \in X OBVIOUS
  <2>1. n + 1 \in 1..N /\ (n + 1) - 1 = n /\ n <= N BY <1>0
  <2>2. f[n] \in X BY <1>2, <2>1
  <2>3. f[n + 1] = step[n + 1][f[n]] BY <2>1, <2>2
  <2> QED BY <1>0, <2>1, <2>2, <2>3
<1> HIDE DEF S
<1>3. \A n \in Nat : n \in S BY <1>1, <1>2, Induction
<1> QED BY <1>0, <1>3 DEF S

(* The two loops over the signals of a frame. *)
LEMMA Listing ==
  ASSUME NEW st, GoodStore(st), NEW keys \in Seq(Signals)
  PROVE  LET f[n \in 0..Len(keys)] ==
               IF n = 0 THEN st ELSE Graph!CatalogKey(f[n - 1], keys[n])
         IN  Leads(st, f[Len(keys)])
<1> DEFINE N == Len(keys)
           X == {x \in Store : Leads(st, x)}
           step == [n \in 1..N |-> [x \in X |-> Graph!CatalogKey(x, keys[n])]]
           Body(f) == [n \in 0..N |-> IF n = 0 THEN st ELSE Graph!CatalogKey(f[n - 1], keys[n])]
           after == CHOOSE f : f = Body(f)
<1>1. N \in Nat /\ \A n \in 1..N : keys[n] \in Signals OBVIOUS
<1>2. st \in X BY LeadsOn, StoreIs
<1>3. ASSUME NEW n \in 1..N, NEW x \in X PROVE Graph!CatalogKey(x, keys[n]) \in X
  <2>1. GoodStore(x) /\ keys[n] \in Signals BY <1>1 DEF Leads
  <2> DEFINE y == Graph!CatalogKey(x, keys[n])
  <2>2. Leads(x, y) BY <2>1, CatalogStep
  <2> HIDE DEF y
  <2>3. Leads(st, y) /\ y \in Store
    <3>1. Leads(st, x) OBVIOUS
    <3>2. Leads(st, y) BY <2>2, <3>1, LeadsOn
    <3>3. GoodStore(y) BY <2>2 DEF Leads
    <3> QED BY <3>2, <3>3, StoreIs
  <2> QED BY <2>3 DEF y
<1> HIDE DEF X, N
<1>4. Loop(st, N, step, X)
  <2>1. step \in Turns(N, X) BY <1>3 DEF Turns
  <2> HIDE DEF step
  <2> QED BY <1>1, <1>2, <2>1 DEF Loop
<1>5. \A n \in 1..N : \A x \in X : step[n][x] = Graph!CatalogKey(x, keys[n]) OBVIOUS
<1> HIDE DEF step
<1>6. PICK g \in [0..N -> X] : g[0] = st /\ \A n \in 1..N : g[n] = step[n][g[n - 1]]
  <2>1. Runs(st, N, step, X) # {} BY <1>4, LoopRuns
  <2> QED BY <2>1 DEF Runs
<1>7. g = Body(g)
  <2>1. \A n \in 1..N : g[n - 1] \in X BY <1>1
  <2>2. \A n \in 0..N : g[n] = IF n = 0 THEN st ELSE Graph!CatalogKey(g[n - 1], keys[n])
    BY <1>1, <1>5, <1>6, <2>1
  <2> QED BY <2>2
<1>8. after = Body(after)
  <2> HIDE DEF Body
  <2> QED BY <1>7
<1> HIDE DEF after
<1>9. after[0] = st /\ \A n \in 1..N : after[n - 1] \in X => after[n] = step[n][after[n - 1]]
  <2>1. \A n \in 0..N : after[n] = IF n = 0 THEN st ELSE Graph!CatalogKey(after[n - 1], keys[n])
    BY <1>8
  <2> QED BY <1>1, <1>5, <2>1
<1>10. after[N] \in X BY <1>4, <1>9, LoopEnds
<1>11. Leads(st, after[N]) BY <1>10 DEF X
<1> QED BY <1>11 DEF after, N

AllSampled(st, keys, frame) ==
    LET f[n \in 0..Len(keys)] ==
          IF n = 0 THEN st ELSE Graph!SampleKey(f[n - 1], keys[n], frame)
    IN  f[Len(keys)]

LEMMA Sampling ==
  ASSUME NEW st, GoodStore(st), NEW keys \in Seq(Signals), NEW frame, Counts(frame, st.now)
  PROVE  Leads(st, AllSampled(st, keys, frame))
<1> DEFINE N == Len(keys)
           X == {x \in Store : Leads(st, x)}
           step == [n \in 1..N |-> [x \in X |-> Graph!SampleKey(x, keys[n], frame)]]
           Body(f) == [n \in 0..N |->
                         IF n = 0 THEN st ELSE Graph!SampleKey(f[n - 1], keys[n], frame)]
           after == CHOOSE f : f = Body(f)
<1>1. N \in Nat /\ \A n \in 1..N : keys[n] \in Signals OBVIOUS
<1>2. st \in X BY LeadsOn, StoreIs
<1>3. ASSUME NEW n \in 1..N, NEW x \in X PROVE Graph!SampleKey(x, keys[n], frame) \in X
  <2>1. GoodStore(x) /\ keys[n] \in Signals /\ x.now = st.now BY <1>1 DEF Leads
  <2> DEFINE y == Graph!SampleKey(x, keys[n], frame)
  <2>2. Leads(x, y)
    <3>1. Counts(frame, x.now) BY <2>1
    <3> QED BY <2>1, <3>1, SampleStep
  <2> HIDE DEF y
  <2>3. Leads(st, y) /\ y \in Store
    <3>1. Leads(st, x) OBVIOUS
    <3>2. Leads(st, y) BY <2>2, <3>1, LeadsOn
    <3>3. GoodStore(y) BY <2>2 DEF Leads
    <3> QED BY <3>2, <3>3, StoreIs
  <2> QED BY <2>3 DEF y
<1> HIDE DEF X, N
<1>4. Loop(st, N, step, X)
  <2>1. step \in Turns(N, X) BY <1>3 DEF Turns
  <2> HIDE DEF step
  <2> QED BY <1>1, <1>2, <2>1 DEF Loop
<1>5. \A n \in 1..N : \A x \in X : step[n][x] = Graph!SampleKey(x, keys[n], frame) OBVIOUS
<1> HIDE DEF step
<1>6. PICK g \in [0..N -> X] : g[0] = st /\ \A n \in 1..N : g[n] = step[n][g[n - 1]]
  <2>1. Runs(st, N, step, X) # {} BY <1>4, LoopRuns
  <2> QED BY <2>1 DEF Runs
<1>7. g = Body(g)
  <2>1. \A n \in 1..N : g[n - 1] \in X BY <1>1
  <2>2. ASSUME NEW n \in 0..N
        PROVE  g[n] = IF n = 0 THEN st ELSE Graph!SampleKey(g[n - 1], keys[n], frame)
    <3>1. CASE n = 0 BY <1>6, <3>1
    <3>2. CASE n # 0
      <4>1. n \in 1..N BY <1>1, <3>2
      <4>2. g[n] = step[n][g[n - 1]] /\ g[n - 1] \in X BY <1>6, <2>1, <4>1
      <4> QED BY <1>5, <3>2, <4>1, <4>2
    <3> QED BY <3>1, <3>2
  <2> QED BY <2>2
<1>8. after = Body(after)
  <2> HIDE DEF Body
  <2> QED BY <1>7
<1> HIDE DEF after
<1>9. after[0] = st /\ \A n \in 1..N : after[n - 1] \in X => after[n] = step[n][after[n - 1]]
  <2>1. \A n \in 0..N :
          after[n] = IF n = 0 THEN st ELSE Graph!SampleKey(after[n - 1], keys[n], frame)
    BY <1>8
  <2> QED BY <1>1, <1>5, <2>1
<1>10. after[N] \in X BY <1>4, <1>9, LoopEnds
<1>11. Leads(st, after[N]) BY <1>10 DEF X
<1> QED BY <1>11 DEF after, N, AllSampled

LEMMA IngestStep ==
  ASSUME NEW st, GoodStore(st), NEW frame \in Graph!Frame
  PROVE  LET r == Graph!IngestFrame(st, frame) IN GoodStore(r) /\ Keeps(st, r)
<1> DEFINE r == Graph!IngestFrame(st, frame)
           keys == frame.signals
           ts == frame.ts
           later == IF ts > st.now THEN ts ELSE st.now
           seen == [st EXCEPT !.now = later]
           Listed(f) == [n \in 0..Len(keys) |->
                           IF n = 0 THEN seen ELSE Graph!CatalogKey(f[n - 1], keys[n])]
           listed == CHOOSE f : f = Listed(f)
           mid == listed[Len(keys)]
           Sampled(f) == [n \in 0..Len(keys) |->
                            IF n = 0 THEN mid ELSE Graph!SampleKey(f[n - 1], keys[n], frame)]
           sampled == CHOOSE f : f = Sampled(f)
           end == sampled[Len(keys)]
<1>0. frame.bus \in Buses /\ ts \in Nat /\ keys \in Seq(Signals)
  BY GraphBounds DEF Graph!Frame
<1>1. CASE activeBus # AnyBus /\ frame.bus # activeBus
  <2>1. r = st BY <1>1 DEF Graph!IngestFrame
  <2> QED BY <2>1 DEF Keeps
<1>2. CASE ~(activeBus # AnyBus /\ frame.bus # activeBus)
  <2>1. r = end BY <1>2 DEF Graph!IngestFrame
  <2>2. st \in Store /\ st.now \in Nat BY StoreIs
  <2>3. later \in Nat /\ ts <= later /\ st.now <= later
    <3> DEFINE x == st.now
    <3> HIDE DEF x, ts
    <3> QED BY <1>0, <2>2 DEF x
  <2> HIDE DEF later
  <2>4. /\ seen \in Store /\ seen.now = later /\ seen.series = st.series
        /\ seen.catalog = st.catalog /\ seen.points = st.points
    BY <2>2, <2>3 DEF Store
  <2> HIDE DEF seen, end, r
  <2>5. GoodStore(seen)
    <3>1. \A p \in st.points : p.ts \in Nat /\ p.ts <= st.now BY StoreIs DEF Point
    <3>2. \A p \in st.points : p.ts <= later
      <4> SUFFICES ASSUME NEW p \in st.points PROVE p.ts <= later OBVIOUS
      <4> DEFINE x == p.ts
                 y == st.now
      <4>1. x \in Nat /\ y \in Nat /\ x <= y /\ y <= later BY <2>2, <2>3, <3>1
      <4> HIDE DEF x, y
      <4>2. x <= later BY <2>3, <4>1
      <4> QED BY <4>2 DEF x
    <3> QED BY <2>4, <3>2 DEF GoodStore
  <2>6. Leads(seen, mid) BY <1>0, <2>5, Listing
  <2> HIDE DEF mid
  <2>7. Leads(mid, end)
    <3>1. GoodStore(mid) /\ mid.now = later BY <2>4, <2>6 DEF Leads
    <3>2. Counts(frame, mid.now) BY <1>0, <1>2, <2>3, <3>1 DEF Counts
    <3>3. Leads(mid, AllSampled(mid, keys, frame))
      <4> HIDE DEF keys
      <4> QED BY <1>0, <3>1, <3>2, Sampling
    <3> QED BY <3>3 DEF end, AllSampled
  <2>8. GoodStore(end) /\ Keeps(seen, end)
    <3>1. Leads(seen, end) BY <2>6, <2>7, LeadsOn
    <3> QED BY <3>1 DEF Leads
  <2>9. Keeps(st, end) BY <2>4, <2>8 DEF Keeps
  <2> QED BY <2>1, <2>8, <2>9 DEF r
<1> QED BY <1>1, <1>2

AllIngested(st, frames) ==
    LET f[n \in 0..Len(frames)] ==
          IF n = 0 THEN st ELSE Graph!IngestFrame(f[n - 1], frames[n])
    IN  f[Len(frames)]

LEMMA Ingesting ==
  ASSUME NEW st, GoodStore(st), NEW frames \in Seq(Graph!Frame)
  PROVE  GoodStore(AllIngested(st, frames)) /\ Keeps(st, AllIngested(st, frames))
<1> DEFINE N == Len(frames)
           X == {x \in Store : GoodStore(x) /\ Keeps(st, x)}
           step == [n \in 1..N |-> [x \in X |-> Graph!IngestFrame(x, frames[n])]]
           Body(f) == [n \in 0..N |->
                         IF n = 0 THEN st ELSE Graph!IngestFrame(f[n - 1], frames[n])]
           after == CHOOSE f : f = Body(f)
<1>1. N \in Nat /\ \A n \in 1..N : frames[n] \in Graph!Frame OBVIOUS
<1>2. st \in X
  <2>1. Keeps(st, st) BY DEF Keeps
  <2> QED BY <2>1, StoreIs
<1>3. ASSUME NEW n \in 1..N, NEW x \in X PROVE Graph!IngestFrame(x, frames[n]) \in X
  <2>1. GoodStore(x) /\ frames[n] \in Graph!Frame /\ Keeps(st, x) BY <1>1
  <2> DEFINE y == Graph!IngestFrame(x, frames[n])
  <2>2. GoodStore(y) /\ Keeps(x, y) BY <2>1, IngestStep
  <2> HIDE DEF y
  <2>3. Keeps(st, y) BY <2>1, <2>2 DEF Keeps
  <2>4. y \in Store BY <2>2, StoreIs
  <2> QED BY <2>2, <2>3, <2>4 DEF y
<1> HIDE DEF X, N
<1>4. Loop(st, N, step, X)
  <2>1. step \in Turns(N, X) BY <1>3 DEF Turns
  <2> HIDE DEF step
  <2> QED BY <1>1, <1>2, <2>1 DEF Loop
<1>5. \A n \in 1..N : \A x \in X : step[n][x] = Graph!IngestFrame(x, frames[n]) OBVIOUS
<1> HIDE DEF step
<1>6. PICK g \in [0..N -> X] : g[0] = st /\ \A n \in 1..N : g[n] = step[n][g[n - 1]]
  <2>1. Runs(st, N, step, X) # {} BY <1>4, LoopRuns
  <2> QED BY <2>1 DEF Runs
<1>7. g = Body(g)
  <2>1. \A n \in 1..N : g[n - 1] \in X BY <1>1
  <2>2. ASSUME NEW n \in 0..N
        PROVE  g[n] = IF n = 0 THEN st ELSE Graph!IngestFrame(g[n - 1], frames[n])
    <3>1. CASE n = 0 BY <1>6, <3>1
    <3>2. CASE n # 0
      <4>1. n \in 1..N BY <1>1, <3>2
      <4>2. g[n] = step[n][g[n - 1]] /\ g[n - 1] \in X BY <1>6, <2>1, <4>1
      <4> QED BY <1>5, <3>2, <4>1, <4>2
    <3> QED BY <3>1, <3>2
  <2> QED BY <2>2
<1>8. after = Body(after)
  <2> HIDE DEF Body
  <2> QED BY <1>7
<1> HIDE DEF after
<1>9. after[0] = st /\ \A n \in 1..N : after[n - 1] \in X => after[n] = step[n][after[n - 1]]
  <2>1. \A n \in 0..N :
          after[n] = IF n = 0 THEN st ELSE Graph!IngestFrame(after[n - 1], frames[n])
    BY <1>8
  <2> QED BY <1>1, <1>5, <2>1
<1>10. after[N] \in X BY <1>4, <1>9, LoopEnds
<1>11. GoodStore(after[N]) /\ Keeps(st, after[N]) BY <1>10 DEF X
<1> QED BY <1>11 DEF after, N, AllIngested

(* The samples that a window of `length` shows. *)
Fills(st, length) ==
    \A i \in 1..Len(st.series) : Len(st.series[i].samples) <= length \div Interval + 2

LEMMA TrimStep ==
  ASSUME NEW st, GoodStore(st), NEW time \in Int, NEW length \in Nat \ {0},
         \A p \in st.points : p.ts <= time
  PROVE  LET r == Graph!TrimAll(st, time, length)
         IN  /\ GoodStore(r) /\ Keeps(st, r) /\ Fills(r, length)
             /\ r.now = st.now /\ r.points \subseteq st.points
<1> DEFINE r == Graph!TrimAll(st, time, length)
           map == st.series
           P == st.points
           start == time - length
           bound == length \div Interval + 2
           more == [i \in DOMAIN map |-> Graph!Trim(map[i], start, bound)]
           Q == {p \in P : p.ts >= start}
<1>0. /\ st \in Store /\ P \in SUBSET Point /\ st.now \in Nat
      /\ Keyed(map, Buffer) /\ map \in Seq(Buffer) /\ DOMAIN map = 1..Len(map)
      /\ Keyed(st.catalog, Entry) /\ st.catalog \in Seq(Entry)
      /\ Len(map) <= SeriesMax
      /\ \A i \in 1..Len(map) : Plots(map[i], P)
      /\ \A p \in P : /\ p.ts <= st.now /\ p.key \in Graph!KeysOf(map)
                      /\ activeBus # AnyBus => p.bus = activeBus
  BY StoreIs
<1>1. r = [st EXCEPT !.series = more, !.points = Q] BY DEF Graph!TrimAll, Graph!Points
<1> HIDE DEF r
<1>2. ASSUME NEW i \in 1..Len(map)
      PROVE  /\ Plots(more[i], Q) /\ more[i].key = map[i].key
             /\ Len(more[i].samples) <= bound
  <2>1. more[i] = Graph!Trim(map[i], start, bound) BY <1>0
  <2>2. Plots(map[i], P) BY <1>0
  <2> DEFINE e == Graph!Trim(map[i], time - length, length \div Interval + 2)
  <2>3. /\ e.key = map[i].key /\ Plots(e, {p \in P : p.ts >= time - length})
        /\ Len(e.samples) <= length \div Interval + 2
    BY <1>0, <2>2, TrimPlots
  <2> HIDE DEF e, more
  <2>4. more[i] = e BY <2>1 DEF e
  <2> QED BY <2>3, <2>4
<1>3. \A i \in 1..Len(map) : more[i] \in Buffer BY <1>2 DEF Plots
<1>4. more \in Seq(Buffer) /\ Len(more) = Len(map) /\ DOMAIN more = 1..Len(map)
  <2>1. more = [i \in 1..Len(map) |-> more[i]] BY <1>0
  <2>2. Len(map) \in Nat BY <1>0
  <2> DEFINE n == Len(map)
  <2> HIDE DEF more, n
  <2> QED BY <1>3, <2>1, <2>2 DEF n
<1> HIDE DEF more, bound
<1>5. Keyed(more, Buffer) BY <1>0, <1>2, <1>4 DEF Keyed
<1>6. \A key : key \in Graph!KeysOf(map) <=> key \in Graph!KeysOf(more)
  BY <1>0, <1>2, <1>4 DEF Graph!KeysOf
<1>7. Q \in SUBSET Point BY <1>0
<1> HIDE DEF Q
<1>8. /\ r.series = more /\ r.points = Q /\ r.catalog = st.catalog /\ r.now = st.now
      /\ r \in Store
  BY <1>0, <1>1, <1>4, <1>7 DEF Store
<1>9. \A p \in Q : /\ p.ts <= st.now /\ p.key \in Graph!KeysOf(more)
                   /\ activeBus # AnyBus => p.bus = activeBus
  BY <1>0, <1>6 DEF Q
<1>10. GoodStore(r) BY <1>0, <1>2, <1>4, <1>5, <1>8, <1>9 DEF GoodStore
<1>11. Keeps(st, r) BY <1>6, <1>8 DEF Keeps
<1>12. Fills(r, length) BY <1>2, <1>4, <1>8 DEF Fills, bound
<1>13. r.points \subseteq P BY <1>8 DEF Q
<1> QED BY <1>8, <1>10, <1>11, <1>12, <1>13 DEF r

(* A clear leaves the series with nothing. *)
LEMMA ClearStep ==
  ASSUME GoodStore(Graph!store), NEW list, Keyed(list, Entry)
  PROVE  LET r == [series |-> Graph!ClearedSeries, catalog |-> list, now |-> nowTs,
                   points |-> {}]
         IN  /\ r \in Store /\ Keyed(r.series, Buffer) /\ Keyed(r.catalog, Entry)
                       /\ Len(r.series) <= SeriesMax
             /\ \A i \in 1..Len(r.series) : /\ Plots(r.series[i], {})
                                            /\ Len(r.series[i].samples) = 0
             /\ \A key : key \in Graph!KeysOf(series) => key \in Graph!KeysOf(r.series)
<1> DEFINE more == Graph!ClearedSeries
           r == [series |-> more, catalog |-> list, now |-> nowTs, points |-> {}]
<1>0. /\ Keyed(series, Buffer) /\ series \in Seq(Buffer) /\ DOMAIN series = 1..Len(series)
      /\ Len(series) <= SeriesMax /\ nowTs \in Nat /\ Len(series) \in Nat
      /\ list \in Seq(Entry)
  <2>1. Graph!store.series = series /\ Graph!store.now = nowTs BY DEF Graph!store
  <2>2. Keyed(series, Buffer) /\ series \in Seq(Buffer) /\ Len(series) <= SeriesMax
        /\ nowTs \in Nat
    BY <2>1, StoreIs
  <2> QED BY <2>2 DEF Keyed
<1>1. more = [i \in 1..Len(series) |-> [series[i] EXCEPT !.samples = <<>>, !.binStart = None]]
  BY <1>0 DEF Graph!ClearedSeries
<1> HIDE DEF more
<1>2. ASSUME NEW i \in 1..Len(series)
      PROVE  /\ more[i] \in Buffer /\ more[i].key = series[i].key
             /\ more[i].samples = <<>> /\ more[i].binStart = None
  <2>1. series[i] \in Buffer /\ <<>> \in Seq(Nat) BY <1>0
  <2>2. more[i] = [series[i] EXCEPT !.samples = <<>>, !.binStart = None] BY <1>1
  <2> QED BY <2>1, <2>2 DEF Buffer
<1>3. more \in Seq(Buffer) /\ Len(more) = Len(series) /\ DOMAIN more = 1..Len(series)
  <2> DEFINE n == Len(series)
  <2>1. more = [i \in 1..n |-> more[i]] BY <1>1
  <2>2. n \in Nat BY <1>0
  <2> HIDE DEF n
  <2> QED BY <1>2, <2>1, <2>2 DEF n
<1>4. Keyed(more, Buffer) BY <1>0, <1>2, <1>3 DEF Keyed
<1>5. \A key : key \in Graph!KeysOf(series) => key \in Graph!KeysOf(more)
  BY <1>0, <1>2, <1>3 DEF Graph!KeysOf
<1>6. ASSUME NEW i \in 1..Len(more) PROVE Plots(more[i], {}) /\ Len(more[i].samples) = 0
  <2>1. Given({}, more[i].key) = {} BY DEF Given
  <2>2. Binned(<<>>, None, {})
    <3>1. Len(<<>>) = 0 /\ 1..0 = {} /\ 1..(0 - 1) = {} OBVIOUS
    <3> QED BY <3>1 DEF Binned
  <2>3. more[i] \in Buffer /\ more[i].samples = <<>> /\ more[i].binStart = None BY <1>2, <1>3
  <2>4. Len(<<>>) = 0 OBVIOUS
  <2> QED BY <2>1, <2>2, <2>3, <2>4 DEF Plots
<1>7. /\ r.series = more /\ r.catalog = list /\ r.points = {} /\ r.now = nowTs
      /\ r \in Store
  BY <1>0, <1>3 DEF Store
<1> HIDE DEF r
<1>8. Len(more) <= SeriesMax BY <1>0, <1>3
<1>9. /\ r \in Store /\ Keyed(r.series, Buffer) /\ Keyed(r.catalog, Entry)
      /\ Len(r.series) <= SeriesMax
  BY <1>4, <1>7, <1>8
<1>10. \A i \in 1..Len(r.series) : /\ Plots(r.series[i], {})
                                   /\ Len(r.series[i].samples) = 0
  BY <1>6, <1>7
<1>11. \A key : key \in Graph!KeysOf(series) => key \in Graph!KeysOf(r.series)
  BY <1>5, <1>7
<1> QED BY <1>9, <1>10, <1>11 DEF r, more

(* Two maps without a key in common, one after the other. *)
LEMMA JoinMaps ==
  ASSUME NEW X, NEW a, Keyed(a, X), NEW b, Keyed(b, X),
         \A i \in 1..Len(a) : \A j \in 1..Len(b) : a[i].key # b[j].key
  PROVE  /\ Keyed(a \o b, X)
         /\ \A key : key \in Graph!KeysOf(a) \/ key \in Graph!KeysOf(b)
                        => key \in Graph!KeysOf(a \o b)
<1> DEFINE c == a \o b
           n == Len(a)
           m == Len(b)
<1>0. /\ a \in Seq(X) /\ b \in Seq(X) /\ n \in Nat /\ m \in Nat
      /\ DOMAIN a = 1..n /\ DOMAIN b = 1..m
      /\ \A i, j \in 1..n : a[i].key = a[j].key => i = j
      /\ \A i, j \in 1..m : b[i].key = b[j].key => i = j
      /\ \A i \in 1..n : \A j \in 1..m : a[i].key # b[j].key
  BY DEF Keyed
<1>1. /\ c \in Seq(X) /\ Len(c) = n + m /\ \A i \in 1..n : c[i] = a[i]
      /\ \A j \in 1..m : c[n + j] = b[j]
  <2>1. a \in Seq(X) /\ b \in Seq(X) BY <1>0
  <2>2. Join(a, b) \in Seq(X) /\ Len(Join(a, b)) = n + m BY <2>1, Concat
  <2>3. \A i \in 1..n : Join(a, b)[i] = a[i] BY <2>1, Concat
  <2>4. \A j \in 1..m : Join(a, b)[n + j] = b[j] BY <2>1, JoinedAt
  <2> HIDE DEF n, m
  <2> QED BY <2>2, <2>3, <2>4 DEF Join
<1> HIDE DEF c, n, m
<1>2. DOMAIN c = 1..(n + m) BY <1>0, <1>1
<1>3. ASSUME NEW i \in 1..(n + m)
      PROVE  i \in 1..n \/ \E j \in 1..m : i = n + j
  <2>1. CASE i <= n BY <1>0, <2>1
  <2>2. CASE ~(i <= n)
    <3>1. i - n \in 1..m /\ i = n + (i - n) BY <1>0, <2>2
    <3> QED BY <3>1
  <2> QED BY <2>1, <2>2
<1>4. ASSUME NEW i \in 1..(n + m), NEW j \in 1..(n + m), c[i].key = c[j].key PROVE i = j
  <2>1. CASE i \in 1..n /\ j \in 1..n BY <1>0, <1>1, <1>4, <2>1
  <2>2. CASE i \in 1..n /\ j \notin 1..n
    <3>1. PICK l \in 1..m : j = n + l BY <1>3, <2>2
    <3>2. c[i] = a[i] /\ c[j] = b[l] BY <1>1, <2>2, <3>1
    <3> QED BY <1>0, <1>4, <2>2, <3>2
  <2>3. CASE i \notin 1..n /\ j \in 1..n
    <3>1. PICK l \in 1..m : i = n + l BY <1>3, <2>3
    <3>2. c[j] = a[j] /\ c[i] = b[l] BY <1>1, <2>3, <3>1
    <3> QED BY <1>0, <1>4, <2>3, <3>2
  <2>4. CASE i \notin 1..n /\ j \notin 1..n
    <3>1. PICK k \in 1..m : i = n + k BY <1>3, <2>4
    <3>2. PICK l \in 1..m : j = n + l BY <1>3, <2>4
    <3>3. c[i] = b[k] /\ c[j] = b[l] BY <1>1, <3>1, <3>2
    <3>4. k = l BY <1>0, <1>4, <3>3
    <3> QED BY <3>1, <3>2, <3>4
  <2> QED BY <2>1, <2>2, <2>3, <2>4
<1>5. Keyed(c, X) BY <1>1, <1>2, <1>4 DEF Keyed
<1>6. ASSUME NEW key, key \in Graph!KeysOf(a) PROVE key \in Graph!KeysOf(c)
  <2>1. PICK i \in 1..n : a[i].key = key BY <1>0, <1>6 DEF Graph!KeysOf
  <2>2. i \in 1..(n + m) /\ c[i] = a[i] BY <1>0, <1>1
  <2> QED BY <1>2, <2>1, <2>2 DEF Graph!KeysOf
<1>7. ASSUME NEW key, key \in Graph!KeysOf(b) PROVE key \in Graph!KeysOf(c)
  <2>1. PICK j \in 1..m : b[j].key = key BY <1>0, <1>7 DEF Graph!KeysOf
  <2>2. n + j \in 1..(n + m) /\ c[n + j] = b[j] BY <1>0, <1>1
  <2> QED BY <1>2, <2>1, <2>2 DEF Graph!KeysOf
<1> QED BY <1>5, <1>6, <1>7 DEF c

(* The picker's entries after a DBC is loaded: those of what is plotted stay. *)
LEMMA CatalogOfDbc ==
  ASSUME Keyed(catalog, Entry), NEW dbc \in Dbcs, Graph!applyDbcCatalog(dbc)
  PROVE  /\ Keyed(catalog', Entry)
         /\ \A key \in selected : key \in Graph!KeysOf(catalog) => key \in Graph!KeysOf(catalog')
<1> DEFINE Seen(key) == key \in Graph!KeysOf(catalog) /\ Graph!Get(catalog, key).seen
           fresh == [i \in DOMAIN dbc |-> [key |-> dbc[i], seen |-> Seen(dbc[i])]]
           S == {i \in DOMAIN catalog : /\ catalog[i].key \notin Graph!ToSet(dbc)
                                        /\ catalog[i].seen \/ catalog[i].key \in selected}
           rest == Graph!Filtered(catalog, S)
           m == Len(dbc)
<1>1. catalog' = fresh \o rest BY DEF Graph!applyDbcCatalog
<1>2. /\ dbc \in Seq(Signals) /\ DOMAIN dbc = 1..m /\ m \in Nat
      /\ \A i, j \in 1..m : dbc[i] = dbc[j] => i = j
      /\ \A i \in 1..m : dbc[i] \in Signals
      /\ Graph!ToSet(dbc) = {dbc[i] : i \in 1..m}
  BY GraphBounds DEF Graph!ToSet
<1>3. catalog \in Seq(Entry) /\ DOMAIN catalog = 1..Len(catalog) BY DEF Keyed
<1>4. \A i \in 1..m : Seen(dbc[i]) \in BOOLEAN
  <2> SUFFICES ASSUME NEW i \in 1..m PROVE Seen(dbc[i]) \in BOOLEAN OBVIOUS
  <2> DEFINE key == dbc[i]
  <2>1. CASE key \in Graph!KeysOf(catalog)
    <3>1. PICK k \in 1..Len(catalog) : Graph!Get(catalog, key) = catalog[k]
      BY <1>3, <2>1, KeysAre
    <3>2. catalog[k] \in Entry BY <1>3
    <3>3. catalog[k].seen \in BOOLEAN BY <3>2 DEF Entry
    <3> QED BY <2>1, <3>1, <3>3
  <2>2. CASE key \notin Graph!KeysOf(catalog) BY <2>2
  <2> QED BY <2>1, <2>2
<1>5. \A i \in 1..m : fresh[i] \in Entry /\ fresh[i].key = dbc[i]
  <2> SUFFICES ASSUME NEW i \in 1..m PROVE fresh[i] \in Entry /\ fresh[i].key = dbc[i]
    OBVIOUS
  <2>1. Seen(dbc[i]) \in BOOLEAN /\ dbc[i] \in Signals BY <1>2, <1>4
  <2>2. fresh[i] = [key |-> dbc[i], seen |-> Seen(dbc[i])] BY <1>2
  <2> HIDE DEF Seen, fresh
  <2> QED BY <2>1, <2>2 DEF Entry
<1>6. fresh \in Seq(Entry) /\ Len(fresh) = m /\ DOMAIN fresh = 1..m
  <2>1. fresh = [i \in 1..m |-> fresh[i]] BY <1>2
  <2> HIDE DEF fresh, m
  <2> QED BY <1>2, <1>5, <2>1
<1> HIDE DEF fresh, Seen
<1>7. Keyed(fresh, Entry) BY <1>2, <1>5, <1>6 DEF Keyed
<1>8. /\ Keyed(rest, Entry)
      /\ \A k \in 1..Len(rest) : \E i \in S : rest[k] = catalog[i]
      /\ \A i \in S : \E k \in 1..Len(rest) : rest[k] = catalog[i]
  <2>1. S \in SUBSET (DOMAIN catalog) OBVIOUS
  <2> HIDE DEF S
  <2> QED BY <2>1, FilteredMap
<1> HIDE DEF rest
<1>9. \A i \in 1..m : \A j \in 1..Len(rest) : fresh[i].key # rest[j].key
  <2> SUFFICES ASSUME NEW i \in 1..m, NEW j \in 1..Len(rest)
               PROVE  fresh[i].key # rest[j].key
    OBVIOUS
  <2>1. PICK k \in S : rest[j] = catalog[k] BY <1>8
  <2>2. fresh[i].key \in Graph!ToSet(dbc) BY <1>2, <1>5
  <2> QED BY <2>1, <2>2
<1>10. /\ Keyed(catalog', Entry)
       /\ \A key : key \in Graph!KeysOf(fresh) \/ key \in Graph!KeysOf(rest)
                      => key \in Graph!KeysOf(catalog')
  <2> HIDE DEF m
  <2>1. \A i \in 1..Len(fresh) : \A j \in 1..Len(rest) : fresh[i].key # rest[j].key
    BY <1>6, <1>9
  <2>2. /\ Keyed(fresh \o rest, Entry)
        /\ \A key : key \in Graph!KeysOf(fresh) \/ key \in Graph!KeysOf(rest)
                       => key \in Graph!KeysOf(fresh \o rest)
    BY <1>7, <1>8, <2>1, JoinMaps
  <2> QED BY <1>1, <2>2
<1>11. ASSUME NEW key \in selected, key \in Graph!KeysOf(catalog)
       PROVE  key \in Graph!KeysOf(fresh) \/ key \in Graph!KeysOf(rest)
  <2>1. PICK i \in 1..Len(catalog) : catalog[i].key = key BY <1>3, <1>11, KeysAre
  <2>2. CASE key \in Graph!ToSet(dbc)
    <3>1. PICK j \in 1..m : dbc[j] = key BY <1>2, <2>2
    <3> QED BY <1>5, <1>6, <3>1 DEF Graph!KeysOf
  <2>3. CASE key \notin Graph!ToSet(dbc)
    <3>1. i \in S BY <1>3, <2>1, <2>3
    <3>2. PICK k \in 1..Len(rest) : rest[k] = catalog[i] BY <1>8, <3>1
    <3>3. rest \in Seq(Entry) BY <1>8 DEF Keyed
    <3> QED BY <2>1, <3>2, <3>3, KeysAre
  <2> QED BY <2>2, <2>3
<1> QED BY <1>10, <1>11

-----------------------------------------------------------------------------
(* The clock stands while the view is paused, so no sample is later than what *)
(* the frozen plot shows.                                                     *)
GraphInv ==
    /\ frozen \in BOOLEAN /\ pausedNow \in Nat /\ window \in Windows
    /\ GoodStore(Graph!store)
    /\ frozen => \A p \in points : p.ts <= pausedNow
    /\ Fills(Graph!store, window)

LEMMA GraphIs ==
  ASSUME GraphInv
  PROVE  /\ frozen \in BOOLEAN /\ pausedNow \in Nat /\ window \in Windows
         /\ window \in Nat \ {0}
         /\ GoodStore(Graph!store) /\ Fills(Graph!store, window)
         /\ Graph!store.series = series /\ Graph!store.catalog = catalog
         /\ Graph!store.now = nowTs /\ Graph!store.points = points
         /\ Keyed(series, Buffer) /\ Keyed(catalog, Entry) /\ nowTs \in Nat
         /\ points \in SUBSET Point
         /\ \A p \in points : p.ts \in Nat /\ p.ts <= nowTs
         /\ frozen => \A p \in points : p.ts <= pausedNow
<1>1. /\ frozen \in BOOLEAN /\ pausedNow \in Nat /\ window \in Windows
      /\ GoodStore(Graph!store) /\ Fills(Graph!store, window)
      /\ frozen => \A p \in points : p.ts <= pausedNow
  BY DEF GraphInv
<1>2. window \in Nat \ {0} BY <1>1, GraphBounds
<1>3. /\ Graph!store.series = series /\ Graph!store.catalog = catalog
      /\ Graph!store.now = nowTs /\ Graph!store.points = points
  BY DEF Graph!store
<1>4. /\ Keyed(series, Buffer) /\ Keyed(catalog, Entry) /\ nowTs \in Nat
      /\ points \in SUBSET Point /\ \A p \in points : p.ts <= nowTs
  BY <1>1, <1>3, StoreIs
<1>5. \A p \in points : p.ts \in Nat BY <1>4 DEF Point
<1> QED BY <1>1, <1>2, <1>3, <1>4, <1>5

(* What a step that makes the store b says of the next state. *)
LEMMA StoreNext ==
  ASSUME NEW b, GoodStore(b), Graph!Become(b), UNCHANGED activeBus
  PROVE  /\ GoodStore(Graph!store)' /\ points' = b.points
         /\ series' = b.series /\ catalog' = b.catalog
         /\ \A length : Fills(b, length) => Fills(Graph!store, length)'
<1>1. series' = b.series /\ catalog' = b.catalog /\ nowTs' = b.now /\ points' = b.points
  BY DEF Graph!Become
<1>2. (Graph!store)' = b
  <2>1. b \in Store BY StoreIs
  <2>2. b = [series |-> b.series, catalog |-> b.catalog, now |-> b.now, points |-> b.points]
    BY <2>1 DEF Store
  <2> QED BY <1>1, <2>2 DEF Graph!store
<1>3. GoodStore(Graph!store)' BY <1>2 DEF GoodStore
<1>4. \A length : Fills(b, length) => Fills(Graph!store, length)' BY <1>2 DEF Fills
<1> QED BY <1>1, <1>3, <1>4

(* A step that leaves the store alone. *)
LEMMA StoreStays ==
  ASSUME GraphInv, UNCHANGED <<series, catalog, nowTs, points, activeBus>>
  PROVE  /\ GoodStore(Graph!store)' /\ \A length : Fills(Graph!store, length)
                                                     => Fills(Graph!store, length)'
<1>1. (Graph!store)' = Graph!store BY DEF Graph!store
<1>2. GoodStore(Graph!store) BY DEF GraphInv
<1>3. GoodStore(Graph!store)' BY <1>1, <1>2 DEF GoodStore
<1>4. \A length : Fills(Graph!store, length) => Fills(Graph!store, length)'
  BY <1>1 DEF Fills
<1> QED BY <1>3, <1>4

(* What a step must not take. *)
Kept ==
    \A key \in selected :
       /\ key \in Graph!KeysOf(series) => key \in Graph!KeysOf(series')
       /\ key \in Graph!KeysOf(catalog) => key \in Graph!KeysOf(catalog')

LEMMA GraphStart == Graph!Init => GraphInv
<1> SUFFICES ASSUME Graph!Init PROVE GraphInv
  OBVIOUS
<1>1. /\ frozen = FALSE /\ pausedNow = 0
      /\ window = CHOOSE length \in Windows : \A other \in Windows : length <= other
      /\ series = <<>> /\ catalog = <<>> /\ nowTs = 0 /\ points = {}
  BY DEF Graph!Init
<1>2. window \in Windows
  <2>1. Windows \in SUBSET Nat /\ Windows # {} BY GraphBounds
  <2>2. \E length \in Windows : \A other \in Windows : length <= other BY <2>1, Least
  <2> QED BY <1>1, <2>2
<1> DEFINE st == Graph!store
<1>3. st.series = <<>> /\ st.catalog = <<>> /\ st.now = 0 /\ st.points = {}
      /\ st = [series |-> <<>>, catalog |-> <<>>, now |-> 0, points |-> {}]
  BY <1>1 DEF Graph!store
<1>4. st \in Store
  <2>1. <<>> \in Seq(Buffer) /\ <<>> \in Seq(Entry) OBVIOUS
  <2> HIDE DEF st
  <2> QED BY <1>3, <2>1 DEF Store
<1>5. \A X : Keyed(<<>>, X) BY DEF Keyed
<1>6. Len(<<>>) = 0 /\ 1..0 = {} /\ SeriesMax \in Nat BY GraphBounds
<1> HIDE DEF st
<1>7. GoodStore(st)
  <2>1. Len(st.series) <= SeriesMax BY <1>3, <1>6
  <2> QED BY <1>3, <1>4, <1>5, <1>6, <2>1 DEF GoodStore
<1>8. Fills(st, window) BY <1>3, <1>6 DEF Fills
<1> QED BY <1>1, <1>2, <1>7, <1>8 DEF GraphInv, st

LEMMA BatchStep ==
  ASSUME GraphInv, NEW frames \in Seq(Graph!Frame), Graph!appendBatch(frames)
  PROVE  GraphInv' /\ Kept
<1>1. UNCHANGED <<frozen, pausedNow, window, activeBus, selected>> BY DEF Graph!appendBatch
<1>2. CASE frozen \/ frames = <<>>
  <2>1. UNCHANGED <<series, catalog, nowTs, points>> BY <1>2 DEF Graph!appendBatch
  <2>2. /\ GoodStore(Graph!store)'
        /\ \A length : Fills(Graph!store, length) => Fills(Graph!store, length)'
    BY <1>1, <2>1, StoreStays
  <2>3. Fills(Graph!store, window)'
    <3>1. Fills(Graph!store, window) BY GraphIs
    <3> QED BY <1>1, <2>2, <3>1 DEF Fills
  <2> QED BY <1>1, <2>1, <2>2, <2>3 DEF GraphInv, Kept
<1>3. CASE ~(frozen \/ frames = <<>>)
  <2> DEFINE st == AllIngested(Graph!store, frames)
             b == Graph!TrimAll(st, st.now, window)
  <2>1. Graph!Become(b) BY <1>3 DEF Graph!appendBatch, AllIngested
  <2>2. GoodStore(Graph!store) /\ window \in Nat \ {0} BY GraphIs
  <2>3. GoodStore(st) /\ Keeps(Graph!store, st) BY <2>2, Ingesting
  <2> HIDE DEF st
  <2>4. st.now \in Int /\ \A p \in st.points : p.ts <= st.now BY <2>3, StoreIs
  <2>5. GoodStore(b) /\ Keeps(st, b) /\ Fills(b, window) BY <2>2, <2>3, <2>4, TrimStep
  <2> HIDE DEF b
  <2>6. /\ GoodStore(Graph!store)' /\ points' = b.points
        /\ series' = b.series /\ catalog' = b.catalog
        /\ \A length : Fills(b, length) => Fills(Graph!store, length)'
    BY <1>1, <2>1, <2>5, StoreNext
  <2>7. Fills(Graph!store, window)' BY <1>1, <2>5, <2>6 DEF Fills
  <2>8. Kept
    <3>1. Keeps(Graph!store, b) BY <2>3, <2>5 DEF Keeps
    <3>2. Graph!store.series = series /\ Graph!store.catalog = catalog BY GraphIs
    <3> QED BY <2>6, <3>1, <3>2 DEF Keeps, Kept
  <2>9. ~frozen' BY <1>1, <1>3
  <2> QED BY <1>1, <2>6, <2>7, <2>8, <2>9 DEF GraphInv
<1> QED BY <1>2, <1>3

LEMMA WindowStep ==
  ASSUME GraphInv, NEW length \in Windows, Graph!setWindowSec(length)
  PROVE  GraphInv' /\ Kept
<1> DEFINE b == Graph!TrimAll(Graph!store, Graph!plotNow, length)
<1>1. /\ window' = length /\ Graph!Become(b)
      /\ UNCHANGED <<frozen, pausedNow, activeBus, selected>>
  BY DEF Graph!setWindowSec
<1>2. /\ GoodStore(Graph!store) /\ length \in Nat \ {0} /\ frozen \in BOOLEAN
      /\ pausedNow \in Nat /\ nowTs \in Nat
      /\ frozen => \A p \in points : p.ts <= pausedNow
      /\ \A p \in points : p.ts <= nowTs
      /\ Graph!store.points = points
  BY GraphIs, GraphBounds
<1>3. Graph!plotNow \in Int /\ \A p \in points : p.ts <= Graph!plotNow
  BY <1>2 DEF Graph!plotNow
<1>4. /\ GoodStore(b) /\ Keeps(Graph!store, b) /\ Fills(b, length)
      /\ b.points \subseteq points
  <2> HIDE DEF b
  <2>1. LET r == Graph!TrimAll(Graph!store, Graph!plotNow, length)
        IN  /\ GoodStore(r) /\ Keeps(Graph!store, r) /\ Fills(r, length)
            /\ r.now = Graph!store.now /\ r.points \subseteq Graph!store.points
    BY <1>2, <1>3, TrimStep
  <2> QED BY <1>2, <2>1 DEF b
<1> HIDE DEF b
<1>5. /\ GoodStore(Graph!store)' /\ points' = b.points
      /\ series' = b.series /\ catalog' = b.catalog
      /\ \A other : Fills(b, other) => Fills(Graph!store, other)'
  BY <1>1, <1>4, StoreNext
<1>6. Fills(Graph!store, window)' BY <1>1, <1>4, <1>5 DEF Fills
<1>7. Kept
  <2>1. Graph!store.series = series /\ Graph!store.catalog = catalog BY GraphIs
  <2> QED BY <1>4, <1>5, <2>1 DEF Keeps, Kept
<1>8. frozen' => \A p \in points' : p.ts <= pausedNow' BY <1>1, <1>2, <1>4, <1>5
<1> QED BY <1>1, <1>2, <1>5, <1>6, <1>7, <1>8 DEF GraphInv

LEMMA PauseStep ==
  ASSUME GraphInv, NEW on \in BOOLEAN, Graph!setPaused(on)
  PROVE  GraphInv' /\ Kept
<1>1. /\ frozen' = on /\ pausedNow' = IF on THEN Graph!plotNow ELSE 0
      /\ UNCHANGED <<window, activeBus, selected, series, catalog, nowTs, points>>
  BY DEF Graph!setPaused
<1>2. /\ frozen \in BOOLEAN /\ pausedNow \in Nat /\ nowTs \in Nat
      /\ frozen => \A p \in points : p.ts <= pausedNow
      /\ \A p \in points : p.ts <= nowTs
      /\ window \in Windows /\ Fills(Graph!store, window)
  BY GraphIs
<1>3. Graph!plotNow \in Nat /\ \A p \in points : p.ts <= Graph!plotNow
  BY <1>2 DEF Graph!plotNow
<1>4. /\ GoodStore(Graph!store)'
      /\ \A length : Fills(Graph!store, length) => Fills(Graph!store, length)'
  BY <1>1, StoreStays
<1>5. Fills(Graph!store, window)' BY <1>1, <1>2, <1>4 DEF Fills
<1>6. pausedNow' \in Nat BY <1>1, <1>3
<1>7. frozen' => \A p \in points' : p.ts <= pausedNow' BY <1>1, <1>3
<1> QED BY <1>1, <1>2, <1>4, <1>5, <1>6, <1>7 DEF GraphInv, Kept

(* The calls that change what is selected and nothing else. *)
LEMMA SelectStep ==
  ASSUME GraphInv,
         UNCHANGED <<frozen, pausedNow, window, activeBus, series, catalog, nowTs, points>>
  PROVE  GraphInv' /\ Kept
<1>1. /\ frozen \in BOOLEAN /\ pausedNow \in Nat /\ window \in Windows
      /\ frozen => \A p \in points : p.ts <= pausedNow
      /\ Fills(Graph!store, window)
  BY GraphIs
<1>2. /\ GoodStore(Graph!store)'
      /\ \A length : Fills(Graph!store, length) => Fills(Graph!store, length)'
  BY StoreStays
<1>3. Fills(Graph!store, window)' BY <1>1, <1>2 DEF Fills
<1> QED BY <1>1, <1>2, <1>3 DEF GraphInv, Kept

(* The store of a clear: no points, whatever bus is next. *)
LEMMA ClearedNext ==
  ASSUME GraphInv, NEW list, Keyed(list, Entry), catalog' = list,
         series' = Graph!ClearedSeries, points' = {},
         UNCHANGED <<frozen, pausedNow, window, nowTs>>
  PROVE  /\ GraphInv'
         /\ \A key : key \in Graph!KeysOf(series) => key \in Graph!KeysOf(series')
<1> DEFINE r == [series |-> Graph!ClearedSeries, catalog |-> list, now |-> nowTs,
                 points |-> {}]
<1>1. /\ r \in Store /\ Keyed(r.series, Buffer) /\ Keyed(r.catalog, Entry)
      /\ Len(r.series) <= SeriesMax
      /\ \A i \in 1..Len(r.series) : /\ Plots(r.series[i], {})
                                     /\ Len(r.series[i].samples) = 0
      /\ \A key : key \in Graph!KeysOf(series) => key \in Graph!KeysOf(r.series)
  <2>1. GoodStore(Graph!store) BY GraphIs
  <2> QED BY <2>1, ClearStep
<1>2. (Graph!store)' = r BY DEF Graph!store
<1>3. r.series = series' /\ r.points = {}
  <2>1. r.series = Graph!ClearedSeries /\ r.points = {} OBVIOUS
  <2> QED BY <2>1
<1> HIDE DEF r
<1>4. GoodStore(Graph!store)' BY <1>1, <1>2, <1>3 DEF GoodStore
<1>5. frozen \in BOOLEAN /\ pausedNow \in Nat /\ window \in Windows /\ window \in Nat \ {0}
  BY GraphIs
<1>6. 0 <= window \div Interval + 2
  <2>1. Span(0) < window /\ 0 \in Int /\ window \in Nat BY <1>5, Spans
  <2>2. 0 <= window \div Interval BY <2>1, SpanFits
  <2>3. window \div Interval \in Int BY <1>5, Spans, Division
  <2> DEFINE q == window \div Interval
  <2> HIDE DEF q
  <2>4. 0 <= q /\ q \in Int BY <2>2, <2>3 DEF q
  <2>5. 0 <= q + 2 BY <2>4
  <2> QED BY <2>5 DEF q
<1>7. Fills(Graph!store, window)' BY <1>1, <1>2, <1>6 DEF Fills
<1>8. GraphInv' BY <1>4, <1>5, <1>7 DEF GraphInv
<1> QED BY <1>1, <1>3, <1>8

LEMMA DbcStep ==
  ASSUME GraphInv, NEW dbc \in Dbcs, Graph!applyDbcCatalog(dbc)
  PROVE  GraphInv' /\ Kept
<1>1. UNCHANGED <<frozen, pausedNow, window, activeBus, selected, series, nowTs, points>>
  BY DEF Graph!applyDbcCatalog
<1>2. /\ Keyed(catalog', Entry)
      /\ \A key \in selected :
            key \in Graph!KeysOf(catalog) => key \in Graph!KeysOf(catalog')
  <2>1. Keyed(catalog, Entry) BY GraphIs
  <2> QED BY <2>1, CatalogOfDbc
<1>3. GoodStore(Graph!store) /\ Fills(Graph!store, window) BY GraphIs
<1> DEFINE b == [Graph!store EXCEPT !.catalog = catalog']
<1>4. GoodStore(b) BY <1>2, <1>3, OtherCatalog
<1>5. b = [series |-> series, catalog |-> catalog', now |-> nowTs, points |-> points]
  BY DEF Graph!store
<1> HIDE DEF b
<1>6. b.series = series /\ b.catalog = catalog' /\ b.now = nowTs /\ b.points = points
  BY <1>5
<1>7. Graph!Become(b) BY <1>1, <1>6 DEF Graph!Become
<1>8. /\ GoodStore(Graph!store)'
      /\ \A length : Fills(b, length) => Fills(Graph!store, length)'
  BY <1>1, <1>4, <1>7, StoreNext
<1>9. Fills(b, window)
  <2>1. Graph!store.series = series BY GraphIs
  <2> QED BY <1>3, <1>6, <2>1 DEF Fills
<1>10. Fills(Graph!store, window)' BY <1>1, <1>8, <1>9 DEF Fills
<1>11. GraphInv'
  <2>1. /\ frozen \in BOOLEAN /\ pausedNow \in Nat /\ window \in Windows
        /\ frozen => \A p \in points : p.ts <= pausedNow
    BY GraphIs
  <2> QED BY <1>1, <1>8, <1>10, <2>1 DEF GraphInv
<1> QED BY <1>1, <1>2, <1>11 DEF Kept

LEMMA ResetStep ==
  ASSUME GraphInv, Graph!resetLive
  PROVE  GraphInv'
<1>1. /\ series' = <<>> /\ catalog' = <<>> /\ nowTs' = 0 /\ points' = {}
      /\ UNCHANGED <<frozen, pausedNow, window>>
  BY DEF Graph!resetLive
<1> DEFINE st == [series |-> <<>>, catalog |-> <<>>, now |-> 0, points |-> {}]
<1>2. (Graph!store)' = st BY <1>1 DEF Graph!store
<1>3. st.series = <<>> /\ st.catalog = <<>> /\ st.now = 0 /\ st.points = {} OBVIOUS
<1>4. st \in Store
  <2>1. <<>> \in Seq(Buffer) /\ <<>> \in Seq(Entry) OBVIOUS
  <2> QED BY <2>1 DEF Store
<1> HIDE DEF st
<1>5. \A X : Keyed(<<>>, X) BY DEF Keyed
<1>6. Len(<<>>) = 0 /\ 1..0 = {} /\ SeriesMax \in Nat BY GraphBounds
<1>7. GoodStore(Graph!store)'
  <2>1. Len(st.series) <= SeriesMax BY <1>3, <1>6
  <2> QED BY <1>2, <1>3, <1>4, <1>5, <1>6, <2>1 DEF GoodStore
<1>8. Fills(Graph!store, window)' BY <1>2, <1>3, <1>6 DEF Fills
<1>9. frozen \in BOOLEAN /\ pausedNow \in Nat /\ window \in Windows BY GraphIs
<1> QED BY <1>1, <1>7, <1>8, <1>9 DEF GraphInv

LEMMA GraphStep ==
  ASSUME GraphInv, [PartsNext]_partsVars
  PROVE  /\ GraphInv'
         /\ Graph!resetLive \/ activeBus' # activeBus \/ UNCHANGED graphVars \/ Kept
<1>1. CASE UNCHANGED graphVars
  <2>1. UNCHANGED <<frozen, pausedNow, window, activeBus, series, catalog, nowTs, points>>
    BY <1>1 DEF graphVars
  <2> QED BY <1>1, <2>1, SelectStep
<1>2. CASE Graph!Receive
  <2>1. PICK frames \in Graph!SeqOf(Graph!Frame, GraphBatch) : Graph!appendBatch(frames)
    BY <1>2 DEF Graph!Receive
  <2>2. frames \in Seq(Graph!Frame) BY GraphBounds DEF Graph!SeqOf
  <2> QED BY <2>1, <2>2, BatchStep
<1>3. CASE Graph!Call
  <2>1. ASSUME NEW on \in BOOLEAN, Graph!setPaused(on) PROVE GraphInv' /\ Kept
    BY <2>1, PauseStep
  <2>2. ASSUME NEW length \in Windows, Graph!setWindowSec(length) PROVE GraphInv' /\ Kept
    BY <2>2, WindowStep
  <2>3. ASSUME NEW bus \in Buses \cup {AnyBus}, Graph!setActiveBus(bus)
        PROVE  GraphInv' /\ activeBus' # activeBus
    <3>1. /\ bus # activeBus /\ activeBus' = bus /\ series' = Graph!ClearedSeries
          /\ points' = {} /\ catalog' = <<>> /\ UNCHANGED <<frozen, pausedNow, window, nowTs>>
      BY <2>3 DEF Graph!setActiveBus
    <3>2. Keyed(<<>>, Entry) BY DEF Keyed
    <3>3. GraphInv' BY <3>1, <3>2, ClearedNext
    <3> QED BY <3>1, <3>3
  <2>4. ASSUME NEW dbc \in Dbcs, Graph!applyDbcCatalog(dbc) PROVE GraphInv' /\ Kept
    BY <2>4, DbcStep
  <2>5. ASSUME NEW key \in Signals, Graph!toggleSelected(key) PROVE GraphInv' /\ Kept
    BY <2>5, SelectStep DEF Graph!toggleSelected
  <2>6. ASSUME NEW keys \in Remembered, Graph!setSelected(keys) PROVE GraphInv' /\ Kept
    BY <2>6, SelectStep DEF Graph!setSelected
  <2>7. ASSUME Graph!clearSamples PROVE GraphInv' /\ Kept
    <3>1. /\ series' = Graph!ClearedSeries /\ points' = {}
          /\ UNCHANGED <<frozen, pausedNow, window, selected, catalog, nowTs>>
      BY <2>7 DEF Graph!clearSamples
    <3>2. Keyed(catalog, Entry) BY GraphIs
    <3>3. /\ GraphInv'
          /\ \A key : key \in Graph!KeysOf(series) => key \in Graph!KeysOf(series')
      BY <3>1, <3>2, ClearedNext
    <3> QED BY <3>1, <3>3 DEF Kept
  <2>8. ASSUME Graph!resetLive PROVE GraphInv' BY <2>8, ResetStep
  <2> QED BY <1>3, <2>1, <2>2, <2>3, <2>4, <2>5, <2>6, <2>7, <2>8 DEF Graph!Call
<1> QED BY <1>1, <1>2, <1>3 DEF PartsNext, partsVars, Graph!Next

LEMMA GraphShows == GraphInv => SeriesShowTheWindow
<1> SUFFICES ASSUME GraphInv PROVE SeriesShowTheWindow
  OBVIOUS
<1>1. GoodStore(Graph!store) /\ Fills(Graph!store, window)
      /\ Graph!store.series = series /\ Graph!store.points = points
  BY GraphIs
<1>2. /\ points \in SUBSET Point /\ series \in Seq(Buffer) /\ DOMAIN series = 1..Len(series)
      /\ Len(series) <= SeriesMax
      /\ \A i \in 1..Len(series) : Plots(series[i], points)
      /\ \A p \in points : activeBus # AnyBus => p.bus = activeBus
  BY <1>1, StoreIs
<1>3. ASSUME NEW i \in DOMAIN series
      PROVE  LET samples == series[i].samples
                 given   == {p.ts : p \in {q \in points : q.key = series[i].key}}
             IN  /\ Len(samples) <= Graph!capacityBound
                 /\ Graph!ToSet(samples) \subseteq given
                 /\ \A j \in 1..(Len(samples) - 1) : samples[j] < samples[j + 1]
                 /\ \A j \in 1..(Len(samples) - 2) : samples[j + 2] - samples[j] > Interval
                 /\ \A ts \in given :
                       \E j \in DOMAIN samples : ts <= samples[j] /\ samples[j] < ts + Interval
  <2> DEFINE s == series[i].samples
             b == series[i].binStart
             G == Given(points, series[i].key)
             n == Len(s)
  <2>1. Plots(series[i], points) /\ n <= Graph!capacityBound
    BY <1>1, <1>2 DEF Fills, Graph!capacityBound
  <2>2. /\ s \in Seq(Nat) /\ Binned(s, b, G) /\ n \in Nat /\ DOMAIN s = 1..n
        /\ \A j \in 1..n : s[j] \in Nat
    BY <2>1 DEF Plots, Buffer
  <2>3. G \in SUBSET Nat BY <1>2, GivenIs
  <2>4. G = {p.ts : p \in {q \in points : q.key = series[i].key}} BY DEF Given
  <2>5. Interval \in Nat /\ Span(0) = 0 /\ Span(1) = Interval
    <3>1. Span(0 + 1) = Span(0) + Interval /\ Span(0) = 0 /\ Interval \in Nat BY Spans
    <3>2. 0 + 1 = 1 /\ 0 + Interval = Interval BY <3>1
    <3> QED BY <3>1, <3>2
  <2> HIDE DEF s, b, G
  <2>6. Graph!ToSet(s) \subseteq G BY <2>2 DEF Binned, Graph!ToSet
  <2>7. ASSUME NEW j \in 1..(n - 1) PROVE s[j] < s[j + 1]
    <3>1. j + 1 \in 1..n /\ j \in 1..((j + 1) - 1) /\ (j + 1) - j - 1 = 0 /\ j \in 1..n
      BY <2>2
    <3>2. s[j + 1] - s[j] > 0 BY <2>2, <2>5, <3>1 DEF Binned
    <3> DEFINE x == s[j]
               y == s[j + 1]
    <3>3. x \in Nat /\ y \in Nat /\ y - x > 0 BY <2>2, <3>1, <3>2
    <3> HIDE DEF x, y
    <3>4. x < y BY <3>3
    <3> QED BY <3>4 DEF x, y
  <2>8. ASSUME NEW j \in 1..(n - 2) PROVE s[j + 2] - s[j] > Interval
    <3>1. j + 2 \in 1..n /\ j \in 1..((j + 2) - 1) /\ (j + 2) - j - 1 = 1 BY <2>2
    <3> QED BY <2>2, <2>5, <3>1 DEF Binned
  <2>9. ASSUME NEW ts \in G PROVE \E j \in 1..n : ts <= s[j] /\ s[j] < ts + Interval
    <3>1. Covered(s, b, ts) /\ n > 0 /\ ts \in Nat BY <2>2, <2>3 DEF Binned
    <3>2. CASE b <= ts /\ ts <= s[n]
      <4> DEFINE x == s[n]
      <4>1. b \in Nat /\ x < b + Interval /\ x \in Nat /\ n \in 1..n
        BY <2>2, <3>1 DEF Binned
      <4> HIDE DEF x
      <4>2. x < ts + Interval BY <2>5, <3>1, <3>2, <4>1
      <4> QED BY <3>2, <4>1, <4>2 DEF x
    <3>3. CASE ~(b <= ts /\ ts <= s[n])
      <4>1. PICK j \in 1..(n - 1) : ts <= s[j] /\ s[j] < ts + Interval
        BY <3>1, <3>3 DEF Covered
      <4>2. j \in 1..n BY <2>2, <4>1
      <4> QED BY <4>1, <4>2
    <3> QED BY <3>2, <3>3
  <2> QED BY <2>1, <2>2, <2>4, <2>6, <2>7, <2>8, <2>9 DEF s
<1> QED BY <1>2, <1>3 DEF SeriesShowTheWindow, Graph!SeriesShowTheWindow

(* The plot shows the window, for any signals, buses, DBCs, batches and caps, *)
(* any sampling interval and any windows of the picker.                       *)
THEOREM PlotShowsTheWindow == PartsSpec => []SeriesShowTheWindow
<1>1. PartsInit => GraphInv BY GraphStart DEF PartsInit
<1>2. GraphInv /\ [PartsNext]_partsVars => GraphInv' BY GraphStep
<1>3. GraphInv => SeriesShowTheWindow BY GraphShows
<1> QED BY <1>1, <1>2, <1>3, PTL DEF PartsSpec

(* Neither a flood of other signals nor a DBC, a window or a clear takes what *)
(* is plotted, in any store of any size.                                      *)
THEOREM PlottedStay == PartsSpec => PlottedAreKept
<1> DEFINE Step == \/ Graph!resetLive
                   \/ activeBus' # activeBus
                   \/ \A key \in selected \cap selected' :
                         /\ key \in Graph!KeysOf(series) => key \in Graph!KeysOf(series')
                         /\ key \in Graph!KeysOf(catalog) => key \in Graph!KeysOf(catalog')
<1>1. PartsInit => GraphInv BY GraphStart DEF PartsInit
<1>2. GraphInv /\ [PartsNext]_partsVars => GraphInv' BY GraphStep
<1>3. GraphInv /\ [PartsNext]_partsVars => [Step]_(Graph!vars)
  <2> SUFFICES ASSUME GraphInv, [PartsNext]_partsVars PROVE [Step]_(Graph!vars)
    OBVIOUS
  <2>1. Graph!resetLive \/ activeBus' # activeBus \/ UNCHANGED graphVars \/ Kept
    BY GraphStep
  <2>2. CASE UNCHANGED graphVars BY <2>2 DEF graphVars, Graph!vars
  <2>3. CASE Kept BY <2>3 DEF Kept
  <2> QED BY <2>1, <2>2, <2>3
<1>4. PartsSpec => [][Step]_(Graph!vars) BY <1>1, <1>2, <1>3, PTL DEF PartsSpec
<1> QED BY <1>4 DEF PlottedAreKept, Graph!PlottedAreKept

=============================================================================
