------------------------- MODULE Preferences_proofs -------------------------
(* Proofs about Preferences, for any interfaces, paths and settings, and any   *)
(* number of changes, ends of the application and failed file operations.     *)
EXTENDS Preferences, Arrays_proofs

(* The old file is removed only after a rename was refused.                    *)
WriterInv == stage \in {"unlink", "again"} => renameFailed = TRUE

DiskInv == WriterInv /\ FileIsWhole

(* Wherever the process ends and whatever fails, the file is the one before a *)
(* save or the one after it, unless a rename was refused (userStore.ts, save). *)
THEOREM FileStaysWhole == Spec => []FileIsWhole
<1>1. Init => DiskInv
  BY DEF Init, DiskInv, WriterInv, FileIsWhole
<1>2. DiskInv /\ [Next]_vars => DiskInv'
  <2> SUFFICES ASSUME DiskInv, [Next]_vars PROVE DiskInv'
    OBVIOUS
  <2>1. CASE UNCHANGED diskVars
    BY <2>1 DEF DiskInv, WriterInv, FileIsWhole, diskVars
  <2>2. CASE WriteTmp \/ FillTmp \/ FillFails
    BY <2>2 DEF WriteTmp, FillTmp, FillFails, Writer, DiskInv, WriterInv, FileIsWhole
  <2>3. CASE Rename
    <3>1. stage' = "idle" /\ file' = stored'
      BY <2>3 DEF Rename, Writer
    <3> QED
      BY <3>1 DEF DiskInv, WriterInv, FileIsWhole
  <2>4. CASE RenameFails
    <3>1. renameFailed' = TRUE /\ UNCHANGED <<file, stored>>
      BY <2>4 DEF RenameFails
    <3> QED
      BY <3>1 DEF DiskInv, WriterInv, FileIsWhole
  <2>5. CASE Unlink
    <3>1. stage = "unlink" /\ file' \in {Absent, file} /\ UNCHANGED <<stored, renameFailed>>
      BY <2>5 DEF Unlink, Writer
    <3>2. renameFailed' = TRUE
      BY <3>1 DEF DiskInv, WriterInv
    <3> QED
      BY <3>1, <3>2, PreferencesBounds DEF DiskInv, WriterInv, FileIsWhole
  <2>6. CASE RenameFailsAgain \/ Exit
    <3>1. stage' = "idle" /\ UNCHANGED <<file, stored, renameFailed>>
      BY <2>6 DEF RenameFailsAgain, Exit, Writer
    <3> QED
      BY <3>1 DEF DiskInv, WriterInv, FileIsWhole
  <2>7. CASE Window
    BY <2>7, <2>1
    DEF Window, Launch, Changed, selectHeaderBus, openNamed, EditDbcPath, loadNamedDbc,
        closeNamed, EngineDisconnected, EditTrace, setWindowSec, setDraft, setDbcDraft,
        toggleSelected, startCyclic, RxBatch, Tick, Fire
  <2> QED
    BY <2>1, <2>2, <2>3, <2>4, <2>5, <2>6, <2>7 DEF Next, Save, vars
<1>3. DiskInv => FileIsWhole
  BY DEF DiskInv
<1> QED
  BY <1>1, <1>2, <1>3, PTL DEF Spec

-----------------------------------------------------------------------------
(* The timer of the debounce, and the snapshot once it has fired. *)
TimerInv == timer \in Nat /\ (live /\ timer = 0 => SnapshotIsCurrent)

(* What a snapshot is built from. *)
LEMMA SameSnapshot ==
  ASSUME UNCHANGED <<headerVars, screenVars>>
  PROVE  buildPersistSnapshot' = buildPersistSnapshot
BY DEF headerVars, screenVars, buildPersistSnapshot, SnapshotOf

(* Every step that changes what a snapshot is built from arms the timer, and   *)
(* the timer builds one when it fires: a window whose timer is not armed holds *)
(* nothing that the snapshot has not (App.tsx, the debounce and the            *)
(* dependencies of its effect).                                                *)
THEOREM QuietWindowIsCurrent == Spec => [](live /\ timer = 0 => SnapshotIsCurrent)
<1>0. Debounce \in Nat \ {0}
  BY PreferencesBounds
<1>1. Init => TimerInv
  <2> SUFFICES ASSUME Init PROVE TimerInv
    OBVIOUS
  <2>1. timer = 0
    BY DEF Init
  <2>2. ~live
    BY Zenon DEF Init
  <2> QED
    BY <2>1, <2>2 DEF TimerInv
<1>2. TimerInv /\ [Next]_vars => TimerInv'
  <2> SUFFICES ASSUME TimerInv, [Next]_vars PROVE TimerInv'
    OBVIOUS
  <2>1. CASE UNCHANGED windowVars
    <3>1. UNCHANGED <<live, timer, persistRef>> /\ UNCHANGED <<headerVars, screenVars>>
      BY <2>1 DEF windowVars
    <3> QED
      BY <3>1, SameSnapshot DEF TimerInv, SnapshotIsCurrent
  <2>2. CASE timer' = Debounce
    BY <1>0, <2>2 DEF TimerInv
  <2>3. CASE Tick
    BY <2>3 DEF Tick, TimerInv
  <2>4. CASE Fire
    BY <2>4, SameSnapshot DEF Fire, TimerInv, SnapshotIsCurrent
  <2>5. CASE Exit
    <3>1. timer' = 0
      BY <2>5 DEF Exit
    <3>2. ~live'
      BY <2>5, Zenon DEF Exit
    <3> QED
      BY <3>1, <3>2 DEF TimerInv
  <2>6. Window => Tick \/ Fire \/ timer' = Debounce
    BY DEF Window, Launch, Hydrate, Changed, selectHeaderBus, openNamed, EditDbcPath,
           loadNamedDbc, closeNamed, EngineDisconnected, EditTrace, setWindowSec, setDraft,
           setDbcDraft, toggleSelected, startCyclic, RxBatch
  <2>7. CASE Save \/ FillFails \/ RenameFails \/ RenameFailsAgain
    BY <2>7, <2>1
    DEF Save, WriteTmp, FillTmp, Rename, Unlink, FillFails, RenameFails, RenameFailsAgain
  <2> QED
    BY <2>1, <2>2, <2>3, <2>4, <2>5, <2>6, <2>7 DEF Next, vars
<1>3. TimerInv => (live /\ timer = 0 => SnapshotIsCurrent)
  BY DEF TimerInv
<1> QED
  BY <1>1, <1>2, <1>3, PTL DEF Spec

-----------------------------------------------------------------------------
(* No name, and no element, twice. *)
UniqueNames(s) == \A i, j \in DOMAIN s : s[i].name = s[j].name => i = j

Unique(s) == \A i, j \in DOMAIN s : s[i] = s[j] => i = j

(* The hints and the snapshots that the program makes: sanitizePersist leaves *)
(* them as they are.                                                          *)
CleanHints ==
    {buses \in Seq(PersistedBusHint) : Len(buses) <= MaxBuses /\ UniqueNames(buses)}

CleanGraph ==
    {prefs \in PersistedGraphPrefs :
       Unique(prefs.selected) /\ Len(prefs.selected) <= MaxSelected}

CleanSnapshot ==
    {s \in PersistSnapshot :
       /\ s.buses \in CleanHints /\ s.graph \in CleanGraph
       /\ Len(s.cyclicJobs) <= MaxJobs}

OnDisk == {Absent, Partial} \cup RawSnapshot

LEMMA UpToElements ==
  ASSUME NEW X, NEW s \in Seq(X), NEW max \in Nat
  PROVE  /\ UpTo(max, s) \in Seq(X)
         /\ Len(UpTo(max, s)) = IF Len(s) < max THEN Len(s) ELSE max
         /\ \A i \in 1..Len(UpTo(max, s)) : i \in 1..Len(s) /\ UpTo(max, s)[i] = s[i]
         /\ Len(s) <= max => UpTo(max, s) = s
<1> DEFINE n == IF Len(s) < max THEN Len(s) ELSE max
<1>1. n \in Nat /\ n <= Len(s) /\ n <= max /\ Len(s) \in Nat OBVIOUS
<1>2. UpTo(max, s) = SubSeq(s, 1, n) BY DEF UpTo
<1> HIDE DEF n
<1>3. SubSeq(s, 1, n) \in Seq(X) /\ Len(SubSeq(s, 1, n)) = n
  BY <1>1
<1>4. \A i \in 1..n : SubSeq(s, 1, n)[i] = s[i] /\ i \in 1..Len(s) BY <1>1
<1>5. Len(s) <= max => SubSeq(s, 1, n) = s
  <2>1. SUFFICES ASSUME Len(s) <= max PROVE SubSeq(s, 1, n) = s OBVIOUS
  <2>2. n = Len(s) BY <1>1, <2>1 DEF n
  <2> QED BY <1>1, <1>3, <1>4, <2>2
<1> QED BY <1>1, <1>2, <1>3, <1>4, <1>5 DEF n

(* What a filter leaves of a list, and of a list without repetition.          *)
LEMMA FilteredList ==
  ASSUME NEW X, NEW s \in Seq(X), NEW S \in SUBSET (1..Len(s))
  PROVE  /\ Filtered(s, S) \in Seq(X)
         /\ \A k \in 1..Len(Filtered(s, S)) : \E i \in S : Filtered(s, S)[k] = s[i]
         /\ \A i \in S : \E k \in 1..Len(Filtered(s, S)) : Filtered(s, S)[k] = s[i]
         /\ (\A i, j \in S : s[i] = s[j] => i = j) => Unique(Filtered(s, S))
         /\ (\A i, j \in S : s[i].name = s[j].name => i = j) => UniqueNames(Filtered(s, S))
<1> DEFINE n == Cardinality(S)
           r == Filtered(s, S)
<1>1. PICK h \in [1..n -> S] :
        /\ r = [k \in 1..n |-> s[h[k]]]
        /\ n \in Nat
        /\ \A k, l \in 1..n : h[k] = h[l] => k = l
        /\ \A i \in S : \E k \in 1..n : h[k] = i
  BY FilteredElements
<1> HIDE DEF n, r
<1>2. \A i \in S : s[i] \in X OBVIOUS
<1>4. \A k \in 1..n : h[k] \in S /\ r[k] = s[h[k]] BY <1>1
<1>3. r \in Seq(X) /\ Len(r) = n /\ DOMAIN r = 1..n
  <2>1. \A k \in 1..n : s[h[k]] \in X BY <1>2, <1>4
  <2>2. n \in Nat /\ r = [k \in 1..n |-> s[h[k]]] BY <1>1
  <2> QED BY <2>1, <2>2
<1>5. \A i \in S : \E k \in 1..n : r[k] = s[i] BY <1>1
<1>6. ASSUME \A i, j \in S : s[i] = s[j] => i = j PROVE Unique(r)
  <2> SUFFICES ASSUME NEW k \in 1..n, NEW l \in 1..n, r[k] = r[l] PROVE k = l
    BY <1>3 DEF Unique
  <2>1. h[k] \in S /\ h[l] \in S /\ s[h[k]] = s[h[l]] BY <1>4
  <2>2. h[k] = h[l] BY <1>6, <2>1
  <2> QED BY <1>1, <2>2
<1>7. ASSUME \A i, j \in S : s[i].name = s[j].name => i = j PROVE UniqueNames(r)
  <2> SUFFICES ASSUME NEW k \in 1..n, NEW l \in 1..n, r[k].name = r[l].name PROVE k = l
    BY <1>3 DEF UniqueNames
  <2>1. h[k] \in S /\ h[l] \in S /\ s[h[k]].name = s[h[l]].name BY <1>4
  <2>2. h[k] = h[l] BY <1>7, <2>1
  <2> QED BY <1>1, <2>2
<1> QED BY <1>3, <1>4, <1>5, <1>6, <1>7 DEF r

(* The names of a list without a name twice are as many as its elements.      *)
LEMMA AsManyNames ==
  ASSUME NEW X, NEW s \in Seq(X), UniqueNames(s)
  PROVE  IsFiniteSet(NamesOf(s)) /\ Cardinality(NamesOf(s)) = Len(s)
<1> DEFINE n == Len(s)
           f == [i \in 1..n |-> s[i].name]
<1>1. n \in Nat /\ DOMAIN s = 1..n OBVIOUS
<1>2. IsFiniteSet(1..n) /\ Cardinality(1..n) = n BY <1>1, FS_Interval
<1>3. f \in Bijection(1..n, NamesOf(s))
  <2>1. f \in [1..n -> NamesOf(s)] BY <1>1 DEF NamesOf
  <2>2. \A i, j \in 1..n : f[i] = f[j] => i = j BY <1>1 DEF UniqueNames
  <2>3. \A x \in NamesOf(s) : \E i \in 1..n : f[i] = x BY <1>1 DEF NamesOf
  <2> HIDE DEF f, n
  <2> QED BY <2>1, <2>2, <2>3 DEF Bijection, Injection, IsInjective, Surjection
<1> HIDE DEF f, n
<1>4. ExistsBijection(1..n, NamesOf(s)) BY <1>3 DEF ExistsBijection
<1> QED BY <1>2, <1>4, FS_Bijection DEF n

LEMMA AsManyElements ==
  ASSUME NEW X, NEW s \in Seq(X), Unique(s)
  PROVE  Cardinality(ToSet(s)) = Len(s)
<1> DEFINE n == Len(s)
           f == [i \in 1..n |-> s[i]]
<1>1. n \in Nat /\ DOMAIN s = 1..n OBVIOUS
<1>2. IsFiniteSet(1..n) /\ Cardinality(1..n) = n BY <1>1, FS_Interval
<1>3. f \in Bijection(1..n, ToSet(s))
  <2>1. f \in [1..n -> ToSet(s)] BY <1>1 DEF ToSet
  <2>2. \A i, j \in 1..n : f[i] = f[j] => i = j BY <1>1 DEF Unique
  <2>3. \A x \in ToSet(s) : \E i \in 1..n : f[i] = x BY <1>1 DEF ToSet
  <2> HIDE DEF f, n
  <2> QED BY <2>1, <2>2, <2>3 DEF Bijection, Injection, IsInjective, Surjection
<1> HIDE DEF f, n
<1>4. ExistsBijection(1..n, ToSet(s)) BY <1>3 DEF ExistsBijection
<1> QED BY <1>2, <1>4, FS_Bijection DEF n

-----------------------------------------------------------------------------
(* The operators a snapshot is built with. *)
Path == Paths \cup {NoPath}

OpenBus == [name : Names, dbc : Path]

LEMMA PathOfType ==
  ASSUME NEW buses \in Seq(PersistedBusHint), NEW name
  PROVE  PathOf(buses, name) \in Path
<1>1. CASE name \in NamesOf(buses)
  <2>1. PICK i \in DOMAIN buses : buses[i].name = name BY <1>1 DEF NamesOf
  <2>2. buses[i] \in ToSet(buses) BY DEF ToSet
  <2>3. (CHOOSE hint \in ToSet(buses) : hint.name = name) \in ToSet(buses) BY <2>1, <2>2
  <2>4. \A hint \in ToSet(buses) : hint \in PersistedBusHint BY DEF ToSet
  <2>5. \A hint \in PersistedBusHint : hint.dbcPath \in Path BY DEF PersistedBusHint, Path
  <2> QED BY <1>1, <2>3, <2>4, <2>5 DEF PathOf
<1>2. CASE name \notin NamesOf(buses)
  BY <1>2 DEF PathOf, Path
<1> QED BY <1>1, <1>2

(* The path of a name is the one of its only hint. *)
LEMMA PathOfHint ==
  ASSUME NEW X, NEW buses \in Seq(X), UniqueNames(buses), NEW i \in DOMAIN buses
  PROVE  PathOf(buses, buses[i].name) = buses[i].dbcPath
<1> DEFINE name == buses[i].name
<1>1. name \in NamesOf(buses) BY DEF NamesOf
<1>2. buses[i] \in ToSet(buses) BY DEF ToSet
<1>3. \A hint \in ToSet(buses) : hint.name = name <=> hint = buses[i]
  BY DEF ToSet, UniqueNames
<1>4. (CHOOSE hint \in ToSet(buses) : hint.name = name) = buses[i]
  <2> HIDE DEF name
  <2> QED BY <1>2, <1>3
<1> HIDE DEF name
<1>5. PathOf(buses, name) = buses[i].dbcPath BY <1>1, <1>4 DEF PathOf
<1> QED BY <1>5 DEF name

(* The hint of the bus comes first, the hints before its old place move down  *)
(* by one, the others stay, as long as there is room.                         *)
LEMMA UpsertHint ==
  ASSUME NEW buses \in CleanHints, NEW name \in Names, NEW path \in Path \cup {Keep}
  PROVE  LET r == upsertBusHint(buses, name, path)
         IN  /\ r \in CleanHints
             /\ 1 \in 1..Len(r)
             /\ r[1] = [name |-> name,
                        dbcPath |-> IF path = Keep THEN PathOf(buses, name) ELSE path]
             /\ \A k \in 1..Len(buses) :
                  buses[k].name # name =>
                    IF \A j \in 1..k : buses[j].name # name
                    THEN k < MaxBuses => k + 1 \in 1..Len(r) /\ r[k + 1] = buses[k]
                    ELSE k \in 1..Len(r) /\ r[k] = buses[k]
<1> DEFINE S == {i \in DOMAIN buses : buses[i].name # name}
           kept == Filtered(buses, S)
           hint == [name |-> name,
                    dbcPath |-> IF path = Keep THEN PathOf(buses, name) ELSE path]
           all == <<hint>> \o kept
           r == FirstOf(all)
           n == Len(buses)
<1>0. /\ buses \in Seq(PersistedBusHint) /\ n <= MaxBuses /\ n \in Nat /\ DOMAIN buses = 1..n
      /\ UniqueNames(buses) /\ MaxBuses \in Nat /\ MaxBuses > 0
  BY PreferencesBounds DEF CleanHints
<1>1. r = upsertBusHint(buses, name, path) BY DEF upsertBusHint
<1>2. hint \in PersistedBusHint
  <2>1. PathOf(buses, name) \in Path BY <1>0, PathOfType
  <2>2. (IF path = Keep THEN PathOf(buses, name) ELSE path) \in Path BY <2>1
  <2> QED BY <2>2 DEF PersistedBusHint, Path
<1>3. /\ kept \in Seq(PersistedBusHint) /\ UniqueNames(kept)
      /\ \A k \in 1..Len(kept) : kept[k].name # name
  <2>1. S \in SUBSET (1..n) BY <1>0
  <2>2. \A i, j \in S : buses[i].name = buses[j].name => i = j BY <1>0 DEF UniqueNames
  <2>3. \A i \in S : buses[i].name # name OBVIOUS
  <2> HIDE DEF S, n
  <2>4. buses \in Seq(PersistedBusHint) /\ S \in SUBSET (1..Len(buses)) BY <1>0, <2>1 DEF n
  <2>5. /\ kept \in Seq(PersistedBusHint) /\ UniqueNames(kept)
        /\ \A k \in 1..Len(kept) : \E i \in S : kept[k] = buses[i]
    BY <2>2, <2>4, FilteredList
  <2>6. \A k \in 1..Len(kept) : kept[k].name # name
    <3> HIDE DEF kept
    <3> QED BY <2>3, <2>5
  <2> QED BY <2>5, <2>6
<1> HIDE DEF kept, hint
<1>4. hint.name = name BY DEF hint
<1>5. /\ all \in Seq(PersistedBusHint) /\ Len(all) = Len(kept) + 1 /\ all[1] = hint
      /\ Len(kept) \in Nat
      /\ \A k \in 2..Len(all) : k - 1 \in 1..Len(kept) /\ all[k] = kept[k - 1]
  BY <1>2, <1>3
<1>6. UniqueNames(all)
  <2> HIDE DEF all
  <2> SUFFICES ASSUME NEW i \in 1..Len(all), NEW j \in 1..Len(all), all[i].name = all[j].name,
                      i # j
               PROVE  FALSE
    BY <1>5 DEF UniqueNames
  <2>1. CASE i = 1 \/ j = 1
    <3>1. \A k \in 2..Len(all) : all[k].name # name BY <1>3, <1>5
    <3> QED BY <1>4, <1>5, <2>1, <3>1
  <2>2. CASE i # 1 /\ j # 1
    <3>1. i - 1 \in 1..Len(kept) /\ j - 1 \in 1..Len(kept) /\ i - 1 # j - 1
          /\ kept[i - 1].name = kept[j - 1].name
      BY <1>5, <2>2
    <3>2. DOMAIN kept = 1..Len(kept) BY <1>3
    <3> QED BY <1>3, <3>1, <3>2 DEF UniqueNames
  <2> QED BY <2>1, <2>2
<1> HIDE DEF all
<1>7. /\ r \in Seq(PersistedBusHint) /\ Len(r) \in Nat
      /\ Len(r) = IF Len(all) < MaxBuses THEN Len(all) ELSE MaxBuses
      /\ \A i \in 1..Len(r) : i \in 1..Len(all) /\ r[i] = all[i]
  BY <1>0, <1>5, UpToElements DEF FirstOf
<1> HIDE DEF r
<1>8. r \in CleanHints /\ 1 \in 1..Len(r) /\ r[1] = hint
  <2>1. Len(all) \in Nat /\ Len(all) >= 1 BY <1>5
  <2>2. Len(r) <= MaxBuses /\ Len(r) >= 1 BY <1>0, <1>7, <2>1
  <2>3. UniqueNames(r)
    <3>1. DOMAIN r = 1..Len(r) /\ DOMAIN all = 1..Len(all) BY <1>5, <1>7
    <3> QED BY <1>6, <1>7, <3>1 DEF UniqueNames
  <2>4. 1 \in 1..Len(r) BY <1>7, <2>2
  <2>5. r[1] = hint BY <1>5, <1>7, <2>4
  <2> QED BY <1>7, <2>2, <2>3, <2>4, <2>5 DEF CleanHints
<1>9. ASSUME NEW k \in 1..n, buses[k].name # name
      PROVE  IF \A j \in 1..k : buses[j].name # name
             THEN k < MaxBuses => k + 1 \in 1..Len(r) /\ r[k + 1] = buses[k]
             ELSE k \in 1..Len(r) /\ r[k] = buses[k]
  <2>1. CASE \A j \in 1..n : buses[j].name # name
    <3>1. S = 1..n BY <1>0, <2>1
    <3>2. kept = buses BY <1>0, <3>1, FilteredAll DEF kept
    <3>3. \A j \in 1..k : buses[j].name # name BY <1>0, <2>1
    <3>4. ASSUME k < MaxBuses PROVE k + 1 \in 1..Len(r) /\ r[k + 1] = buses[k]
      <4>1. Len(all) = n + 1 BY <1>5, <3>2
      <4>2. k + 1 \in 1..Len(r) BY <1>0, <1>7, <3>4, <4>1
      <4>3. k + 1 \in 2..Len(all) /\ (k + 1) - 1 = k BY <1>0, <4>1
      <4> QED BY <1>5, <1>7, <3>2, <4>2, <4>3
    <3> QED BY <3>3, <3>4
  <2>2. CASE \E j \in 1..n : buses[j].name = name
    <3>1. PICK p \in 1..n : buses[p].name = name BY <2>2
    <3>2. \A j \in 1..n : buses[j].name = name <=> j = p BY <1>0, <3>1 DEF UniqueNames
    <3>3. S = (1..n) \ {p} BY <1>0, <3>2
    <3>4. kept = [j \in 1..(n - 1) |-> IF j < p THEN buses[j] ELSE buses[j + 1]]
      <4>1. Filtered(buses, (1..n) \ {p})
              = [j \in 1..(n - 1) |-> IF j < p THEN buses[j] ELSE buses[j + 1]]
        <5>1. buses \in Seq(PersistedBusHint) /\ p \in 1..Len(buses) BY <1>0
        <5> HIDE DEF S
        <5> QED BY <5>1, FilteredAllBut
      <4>2. kept = Filtered(buses, S) BY DEF kept
      <4> HIDE DEF S
      <4> QED BY <3>3, <4>1, <4>2
    <3>5. Len(kept) = n - 1 /\ Len(all) = n
      <4>1. DOMAIN kept = 1..Len(kept) /\ DOMAIN kept = 1..(n - 1) BY <1>3, <3>4
      <4> HIDE DEF n
      <4>2. n - 1 \in Nat BY <1>0, <3>1
      <4>3. Len(kept) = n - 1 BY <1>5, <4>1, <4>2
      <4> QED BY <1>0, <1>5, <4>3
    <3>6. k # p /\ k \in Nat /\ p \in Nat /\ Len(r) = n
      <4>1. k # p BY <1>9, <3>1
      <4>2. Len(r) = n
        <5> HIDE DEF n
        <5> QED BY <1>0, <1>7, <3>5
      <4> QED BY <1>0, <4>1, <4>2
    <3>7. CASE k < p
      <4>1. \A j \in 1..k : buses[j].name # name BY <1>0, <3>2, <3>6, <3>7
      <4>2. k + 1 \in 1..Len(r) /\ k + 1 \in 2..Len(all) /\ (k + 1) - 1 = k
            /\ k \in 1..(n - 1)
        BY <1>0, <3>1, <3>5, <3>6, <3>7
      <4>3. kept[k] = buses[k] BY <3>4, <3>7, <4>2
      <4>4. r[k + 1] = buses[k] BY <1>5, <1>7, <4>2, <4>3
      <4> QED BY <4>1, <4>2, <4>4
    <3>8. CASE p < k
      <4>1. ~ \A j \in 1..k : buses[j].name # name BY <3>1, <3>6, <3>8
      <4>2. k \in 1..Len(r) /\ k \in 2..Len(all) /\ k - 1 \in 1..(n - 1)
            /\ ~(k - 1 < p) /\ (k - 1) + 1 = k
        BY <1>0, <3>1, <3>5, <3>6, <3>8
      <4>3. kept[k - 1] = buses[k] BY <3>4, <4>2
      <4>4. r[k] = buses[k] BY <1>5, <1>7, <4>2, <4>3
      <4> QED BY <4>1, <4>2, <4>4
    <3> QED BY <3>6, <3>7, <3>8
  <2> QED BY <2>1, <2>2
<1> QED BY <1>0, <1>1, <1>8, <1>9 DEF hint

-----------------------------------------------------------------------------
(* What sanitizePersist makes of a file, and that it leaves what the program   *)
(* made as it is.                                                             *)
LEMMA GivenValue ==
  ASSUME NEW X, NEW default \in X, Malformed \notin X
  PROVE  /\ \A raw \in Given(X) : ValueOr(default, raw) \in X
         /\ \A raw \in X : ValueOr(default, raw) = raw
BY DEF Given, ValueOr

LEMMA CoercedSetting ==
  /\ \A raw \in Given(Settings) : Coerced(raw) \in Settings
  /\ \A raw \in Settings : Coerced(raw) = raw
BY PreferencesBounds, GivenValue DEF Coerced

(* Of an array, or of what is none, only items that are well formed are left. *)
LEMMA FilteredItems ==
  ASSUME NEW X, NEW raw \in Given(Seq(Given(X))), NEW S \in SUBSET WellFormed(raw)
  PROVE  /\ Filtered(raw, S) \in Seq(X)
         /\ (\A i, j \in S : raw[i] = raw[j] => i = j) => Unique(Filtered(raw, S))
         /\ (\A i, j \in S : raw[i].name = raw[j].name => i = j)
            => UniqueNames(Filtered(raw, S))
<1> DEFINE r == Filtered(raw, S)
<1>1. CASE raw = Malformed
  <2>1. S = {} BY <1>1 DEF WellFormed, ValueOr
  <2>2. r = <<>> BY <2>1, FS_EmptySet DEF Filtered
  <2> QED BY <2>2 DEF Unique, UniqueNames
<1>2. CASE raw # Malformed
  <2>1. raw \in Seq(Given(X)) BY <1>2 DEF Given
  <2>2. Len(raw) \in Nat /\ DOMAIN raw = 1..Len(raw)
        /\ \A i \in 1..Len(raw) : raw[i] \in Given(X)
    BY <2>1
  <2>3. S \in SUBSET (1..Len(raw)) /\ \A i \in S : raw[i] # Malformed
    BY <1>2, <2>2 DEF WellFormed, ValueOr
  <2>4. \A i \in S : raw[i] \in X BY <2>2, <2>3 DEF Given
  <2>5. /\ r \in Seq(Given(X))
        /\ \A k \in 1..Len(r) : \E i \in S : r[k] = raw[i]
        /\ (\A i, j \in S : raw[i] = raw[j] => i = j) => Unique(r)
        /\ (\A i, j \in S : raw[i].name = raw[j].name => i = j) => UniqueNames(r)
    BY <2>1, <2>3, FilteredList
  <2> HIDE DEF r
  <2>6. \A k \in 1..Len(r) : r[k] \in X BY <2>4, <2>5
  <2>7. r \in Seq(X) BY <2>5, <2>6
  <2> QED BY <2>5, <2>7 DEF r
<1> QED BY <1>1, <1>2

LEMMA AllWellFormed ==
  ASSUME NEW X, NEW s \in Seq(X), Malformed \notin X, Malformed \notin Seq(X)
  PROVE  WellFormed(s) = 1..Len(s)
<1>1. s # Malformed /\ Len(s) \in Nat /\ DOMAIN s = 1..Len(s)
      /\ \A i \in 1..Len(s) : s[i] # Malformed
  OBVIOUS
<1> QED BY <1>1 DEF WellFormed, ValueOr

LEMMA SanitizePrefs ==
  ASSUME NEW raw \in RawGraphPrefs, raw # Malformed
  PROVE  /\ sanitizeGraph(raw) \in CleanGraph
         /\ raw \in CleanGraph => sanitizeGraph(raw) = raw
<1> DEFINE s == raw.selected
           firsts == {i \in WellFormed(s) : \A j \in 1..(i - 1) : s[j] # s[i]}
           kept == Filtered(s, firsts)
           clean == [windowSec |-> Coerced(raw.windowSec), selected |-> UpTo(MaxSelected, kept)]
<1>0. Malformed \notin Signals /\ Malformed \notin Seq(Signals) BY PreferencesBounds
<1>2. s \in Given(Seq(Given(Signals))) /\ raw.windowSec \in Given(Settings)
  BY DEF RawGraphPrefs
<1>1. sanitizeGraph(raw) = clean BY DEF sanitizeGraph
<1>3. WellFormed(s) \in SUBSET Nat
  <2>1. CASE s = Malformed BY <2>1 DEF WellFormed, ValueOr
  <2>2. CASE s \in Seq(Given(Signals)) BY <2>2 DEF WellFormed, ValueOr
  <2> QED BY <1>2, <2>1, <2>2 DEF Given
<1>4. \A i, j \in firsts : s[i] = s[j] => i = j
  <2> SUFFICES ASSUME NEW i \in firsts, NEW j \in firsts, s[i] = s[j], i < j PROVE FALSE
    BY <1>3
  <2>1. i \in 1..(j - 1)
    <3>1. WellFormed(s) \in SUBSET (Nat \ {0})
      <4>1. CASE s = Malformed BY <4>1 DEF WellFormed, ValueOr
      <4>2. CASE s \in Seq(Given(Signals)) BY <4>2 DEF WellFormed, ValueOr
      <4> QED BY <1>2, <4>1, <4>2 DEF Given
    <3> QED BY <3>1
  <2> QED BY <2>1
<1>5. kept \in Seq(Signals) /\ Unique(kept)
  <2>1. firsts \in SUBSET WellFormed(s) OBVIOUS
  <2> HIDE DEF firsts, s
  <2> QED BY <1>2, <1>4, <2>1, FilteredItems
<1>6. MaxSelected \in Nat BY PreferencesBounds
<1>7. s \in Seq(Signals) /\ Unique(s) => kept = s
  <2>1. SUFFICES ASSUME s \in Seq(Signals), Unique(s) PROVE kept = s OBVIOUS
  <2>4. Len(s) \in Nat /\ DOMAIN s = 1..Len(s) BY <2>1
  <2>2. firsts = 1..Len(s)
    <3>4. WellFormed(s) = 1..Len(s)
      <4> HIDE DEF s
      <4> QED BY <1>0, <2>1, AllWellFormed
    <3>1. \A i \in 1..Len(s) : \A j \in 1..(i - 1) : j \in 1..Len(s) /\ j # i BY <2>4
    <3>2. \A i \in 1..Len(s) : \A j \in 1..(i - 1) : s[j] # s[i]
      <4> HIDE DEF s
      <4> QED BY <2>4, <2>1, <3>1 DEF Unique
    <3> QED BY <3>4, <3>2
  <2> HIDE DEF firsts, s
  <2> QED BY <2>1, <2>2, FilteredAll
<1> HIDE DEF kept, s
<1>8. /\ UpTo(MaxSelected, kept) \in Seq(Signals)
      /\ Len(UpTo(MaxSelected, kept)) <= MaxSelected
      /\ Unique(UpTo(MaxSelected, kept))
      /\ Len(kept) <= MaxSelected => UpTo(MaxSelected, kept) = kept
  <2> DEFINE r == UpTo(MaxSelected, kept)
  <2>1. /\ r \in Seq(Signals)
        /\ Len(r) = IF Len(kept) < MaxSelected THEN Len(kept) ELSE MaxSelected
        /\ \A i \in 1..Len(r) : i \in 1..Len(kept) /\ r[i] = kept[i]
        /\ Len(kept) <= MaxSelected => r = kept
    BY <1>5, <1>6, UpToElements
  <2> HIDE DEF r
  <2>2. Len(kept) \in Nat /\ DOMAIN kept = 1..Len(kept) /\ DOMAIN r = 1..Len(r) BY <1>5, <2>1
  <2>3. Unique(r) BY <1>5, <2>1, <2>2 DEF Unique
  <2>4. Len(r) <= MaxSelected BY <1>6, <2>1, <2>2
  <2> QED BY <2>1, <2>3, <2>4 DEF r
<1>9. clean \in PersistedGraphPrefs BY <1>2, <1>8, CoercedSetting DEF PersistedGraphPrefs
<1>10. ASSUME raw \in PersistedGraphPrefs, Unique(s), Len(s) <= MaxSelected
       PROVE  clean = raw
  <2>1. Coerced(raw.windowSec) = raw.windowSec
    BY <1>10, CoercedSetting DEF PersistedGraphPrefs
  <2>4. s \in Seq(Signals) BY <1>10 DEF s, PersistedGraphPrefs
  <2>2. UpTo(MaxSelected, kept) = s BY <1>7, <1>8, <1>10, <2>4
  <2>3. raw = [windowSec |-> raw.windowSec, selected |-> raw.selected] BY DEF RawGraphPrefs
  <2> QED BY <2>1, <2>2, <2>3 DEF s
<1>11. clean.selected = UpTo(MaxSelected, kept) OBVIOUS
<1> HIDE DEF clean
<1>12. /\ clean \in PersistedGraphPrefs
       /\ Unique(clean.selected) /\ Len(clean.selected) <= MaxSelected
  BY <1>8, <1>9, <1>11
<1>13. raw \in CleanGraph => clean = raw BY <1>10 DEF s, CleanGraph
<1> QED BY <1>1, <1>12, <1>13 DEF CleanGraph

LEMMA SanitizeJobs ==
  ASSUME NEW list \in Given(Seq(Given(Definitions)))
  PROVE  /\ jobsToDefinitions(list) \in Seq(Definitions)
         /\ Len(jobsToDefinitions(list)) <= MaxJobs
         /\ list \in Seq(Definitions) /\ Len(list) <= MaxJobs => jobsToDefinitions(list) = list
<1> DEFINE kept == Filtered(list, WellFormed(list))
<1>3. kept \in Seq(Definitions) BY FilteredItems
<1>4. list \in Seq(Definitions) => kept = list
  <2>1. SUFFICES ASSUME list \in Seq(Definitions) PROVE kept = list OBVIOUS
  <2>2. WellFormed(list) = 1..Len(list) BY <2>1, PreferencesBounds, AllWellFormed
  <2> QED BY <2>1, <2>2, FilteredAll
<1>5. MaxJobs \in Nat BY PreferencesBounds
<1> HIDE DEF kept
<1>6. /\ UpTo(MaxJobs, kept) \in Seq(Definitions)
      /\ Len(UpTo(MaxJobs, kept)) <= MaxJobs
      /\ Len(kept) <= MaxJobs => UpTo(MaxJobs, kept) = kept
  BY <1>3, <1>5, UpToElements
<1>7. jobsToDefinitions(list) = UpTo(MaxJobs, kept) BY DEF jobsToDefinitions, kept
<1> QED BY <1>4, <1>6, <1>7

LEMMA HintsAreHints ==
  ASSUME NEW raw \in Given(Seq(Given(RawBusHint)))
  PROVE  /\ HintsOf(raw) \in Seq(Given(PersistedBusHint))
         /\ raw \in Seq(PersistedBusHint) => HintsOf(raw) = raw
<1> DEFINE hints == HintsOf(raw)
<1>1. CASE raw = Malformed
  <2>1. hints = <<>> BY <1>1 DEF HintsOf, ValueOr
  <2>2. raw \notin Seq(PersistedBusHint) BY <1>1, PreferencesBounds DEF Given
  <2> QED BY <2>1, <2>2
<1>2. CASE raw # Malformed
  <2>1. raw \in Seq(Given(RawBusHint)) BY <1>2 DEF Given
  <2>2. Len(raw) \in Nat /\ DOMAIN raw = 1..Len(raw)
        /\ \A i \in 1..Len(raw) : raw[i] \in Given(RawBusHint)
    BY <2>1
  <2>3. hints = [i \in 1..Len(raw) |-> sanitizeBusHint(raw[i])]
    BY <1>2, <2>2 DEF HintsOf, ValueOr
  <2>4. \A item \in Given(RawBusHint) : sanitizeBusHint(item) \in Given(PersistedBusHint)
    BY PreferencesBounds DEF sanitizeBusHint, Given, RawBusHint, PersistedBusHint, ValueOr
  <2>5. \A hint \in PersistedBusHint : sanitizeBusHint(hint) = hint
    <3> SUFFICES ASSUME NEW hint \in PersistedBusHint PROVE sanitizeBusHint(hint) = hint
      OBVIOUS
    <3>1. hint # Malformed BY PreferencesBounds
    <3>2. hint.name # Malformed /\ hint.dbcPath # Malformed
          /\ hint = [name |-> hint.name, dbcPath |-> hint.dbcPath]
      BY PreferencesBounds DEF PersistedBusHint
    <3> QED BY <3>1, <3>2 DEF sanitizeBusHint, ValueOr
  <2>6. hints \in Seq(Given(PersistedBusHint))
    <3>1. \A i \in 1..Len(raw) : sanitizeBusHint(raw[i]) \in Given(PersistedBusHint)
      BY <2>2, <2>4
    <3> QED BY <2>2, <2>3, <3>1
  <2>7. ASSUME raw \in Seq(PersistedBusHint) PROVE hints = raw
    <3>1. \A i \in 1..Len(raw) : raw[i] \in PersistedBusHint BY <2>7
    <3>2. \A i \in 1..Len(raw) : sanitizeBusHint(raw[i]) = raw[i] BY <2>5, <3>1
    <3>3. raw = [i \in 1..Len(raw) |-> raw[i]] BY <2>7
    <3> QED BY <2>3, <3>2, <3>3
  <2> QED BY <2>6, <2>7
<1> QED BY <1>1, <1>2

LEMMA SanitizeHints ==
  ASSUME NEW raw \in Given(Seq(Given(RawBusHint)))
  PROVE  /\ sanitizeBuses(raw) \in CleanHints
         /\ raw \in CleanHints => sanitizeBuses(raw) = raw
<1> DEFINE buses == HintsOf(raw)
           firsts == {i \in WellFormed(buses) :
                        \A j \in 1..(i - 1) :
                            buses[j] # Malformed => buses[j].name # buses[i].name}
           kept == Filtered(buses, firsts)
           r == FirstOf(kept)
<1>0. sanitizeBuses(raw) = r BY DEF sanitizeBuses
<1>1. buses \in Seq(Given(PersistedBusHint)) /\ (raw \in Seq(PersistedBusHint) => buses = raw)
  BY HintsAreHints
<1> HIDE DEF buses
<1>2. /\ Len(buses) \in Nat /\ DOMAIN buses = 1..Len(buses)
      /\ WellFormed(buses) = {i \in 1..Len(buses) : buses[i] # Malformed}
  BY <1>1, PreferencesBounds DEF WellFormed, ValueOr
<1>3. firsts \in SUBSET WellFormed(buses) OBVIOUS
<1>4. \A i, j \in firsts : buses[i].name = buses[j].name => i = j
  <2> SUFFICES ASSUME NEW i \in firsts, NEW j \in firsts, buses[i].name = buses[j].name, i < j
               PROVE  FALSE
    BY <1>2
  <2>1. i \in 1..(j - 1) /\ buses[i] # Malformed BY <1>2
  <2> QED BY <2>1
<1>5. kept \in Seq(PersistedBusHint) /\ UniqueNames(kept)
  <2>1. buses \in Given(Seq(Given(PersistedBusHint))) BY <1>1 DEF Given
  <2> HIDE DEF firsts
  <2> QED BY <1>3, <1>4, <2>1, FilteredItems
<1>6. MaxBuses \in Nat BY PreferencesBounds
<1>7. buses \in Seq(PersistedBusHint) /\ UniqueNames(buses) => kept = buses
  <2>1. SUFFICES ASSUME buses \in Seq(PersistedBusHint), UniqueNames(buses)
                 PROVE  kept = buses
    OBVIOUS
  <2>2. firsts = 1..Len(buses)
    <3>3. WellFormed(buses) = 1..Len(buses)
      <4>1. \A i \in 1..Len(buses) : buses[i] # Malformed BY <1>2, <2>1, PreferencesBounds
      <4> QED BY <1>2, <4>1
    <3>1. \A i \in 1..Len(buses) : \A j \in 1..(i - 1) : j \in 1..Len(buses) /\ j # i BY <1>2
    <3>2. \A i \in 1..Len(buses) : \A j \in 1..(i - 1) : buses[j].name # buses[i].name
      BY <1>2, <2>1, <3>1 DEF UniqueNames
    <3> QED BY <3>3, <3>2
  <2> HIDE DEF firsts
  <2> QED BY <2>1, <2>2, FilteredAll
<1> HIDE DEF kept
<1>8. r \in CleanHints /\ (Len(kept) <= MaxBuses => r = kept)
  <2>1. /\ r \in Seq(PersistedBusHint)
        /\ Len(r) = IF Len(kept) < MaxBuses THEN Len(kept) ELSE MaxBuses
        /\ \A i \in 1..Len(r) : i \in 1..Len(kept) /\ r[i] = kept[i]
        /\ Len(kept) <= MaxBuses => r = kept
    BY <1>5, <1>6, UpToElements DEF FirstOf
  <2> HIDE DEF r
  <2>2. Len(kept) \in Nat /\ DOMAIN kept = 1..Len(kept) /\ DOMAIN r = 1..Len(r) BY <1>5, <2>1
  <2>3. UniqueNames(r) BY <1>5, <2>1, <2>2 DEF UniqueNames
  <2>4. Len(r) <= MaxBuses BY <1>6, <2>1, <2>2
  <2> QED BY <2>1, <2>3, <2>4 DEF CleanHints
<1> HIDE DEF r
<1>9. raw \in CleanHints => r = raw BY <1>1, <1>7, <1>8 DEF CleanHints
<1> QED BY <1>0, <1>8, <1>9

LEMMA DefaultsAreClean == DEFAULT_PERSIST \in CleanSnapshot
<1>1. <<>> \in CleanHints BY PreferencesBounds DEF CleanHints, UniqueNames
<1>2. Unique(<<>>) /\ Len(<<>>) <= MaxSelected /\ Len(<<>>) <= MaxJobs
  BY PreferencesBounds DEF Unique
<1>4. DEFAULT_PERSIST.graph \in CleanGraph
  BY <1>2, PreferencesBounds DEF DEFAULT_PERSIST, CleanGraph, PersistedGraphPrefs
<1>3. DEFAULT_PERSIST \in PersistSnapshot
  BY PreferencesBounds DEF DEFAULT_PERSIST, PersistSnapshot, PersistedGraphPrefs
<1> QED BY <1>1, <1>2, <1>3, <1>4 DEF CleanSnapshot, DEFAULT_PERSIST

LEMMA SanitizeGraph ==
  ASSUME NEW raw \in Given(RawGraphPrefs)
  PROVE  /\ sanitizeGraph(raw) \in CleanGraph
         /\ raw \in CleanGraph => sanitizeGraph(raw) = raw
<1>1. CASE raw = Malformed
  <2>1. sanitizeGraph(raw) = DEFAULT_PERSIST.graph BY <1>1 DEF sanitizeGraph
  <2>2. DEFAULT_PERSIST.graph \in CleanGraph BY DefaultsAreClean DEF CleanSnapshot
  <2>3. raw \notin CleanGraph BY <1>1, PreferencesBounds DEF CleanGraph
  <2> QED BY <2>1, <2>2, <2>3
<1>2. CASE raw \in RawGraphPrefs /\ raw # Malformed BY <1>2, SanitizePrefs
<1> QED BY <1>1, <1>2 DEF Given

LEMMA SnapshotIsRaw ==
  ASSUME NEW s \in PersistSnapshot
  PROVE  s \in RawSnapshot
<1>1. s.cyclicJobs \in Seq(Given(Definitions)) BY DEF PersistSnapshot, Given
<1>2. s.buses \in Seq(Given(RawBusHint))
  <2>1. \A hint \in PersistedBusHint : hint \in Given(RawBusHint)
    BY DEF PersistedBusHint, RawBusHint, Given
  <2>2. s.buses \in Seq(PersistedBusHint) BY DEF PersistSnapshot
  <2> QED BY <2>1, <2>2
<1>3. s.graph \in RawGraphPrefs
  <2>1. s.graph \in PersistedGraphPrefs BY DEF PersistSnapshot
  <2>2. s.graph.selected \in Seq(Given(Signals)) BY <2>1 DEF PersistedGraphPrefs, Given
  <2>3. s.graph.selected \in Given(Seq(Given(Signals))) BY <2>2 DEF Given
  <2>4. s.graph.windowSec \in Given(Settings) BY <2>1 DEF PersistedGraphPrefs, Given
  <2> QED BY <2>1, <2>3, <2>4 DEF PersistedGraphPrefs, RawGraphPrefs
<1>4. \A X : \A x \in X : x \in Given(X) BY DEF Given
<1>5. /\ s.cyclicJobs \in Given(Seq(Given(Definitions)))
      /\ s.buses \in Given(Seq(Given(RawBusHint))) /\ s.graph \in Given(RawGraphPrefs)
      /\ s.lastBusName \in Given(Names) /\ s.lastDbcPath \in Given(Paths)
      /\ s.trace \in Given(Settings) /\ s.txRaw \in Given(Settings)
      /\ s.txDbc \in Given(Settings)
  BY <1>1, <1>2, <1>3, <1>4 DEF PersistSnapshot
<1> QED BY <1>5 DEF PersistSnapshot, RawSnapshot

LEMMA Sanitize ==
  ASSUME NEW raw \in OnDisk
  PROVE  /\ sanitizePersist(raw) \in CleanSnapshot
         /\ raw \in CleanSnapshot => sanitizePersist(raw) = raw
         /\ raw \in RawSnapshot /\ raw.buses \in CleanHints
            => sanitizePersist(raw).buses = raw.buses
<1>0. \A s \in CleanSnapshot : s \in RawSnapshot BY SnapshotIsRaw DEF CleanSnapshot
<1>1. CASE raw \in {Absent, Partial}
  <2>1. sanitizePersist(raw) = DEFAULT_PERSIST BY <1>1 DEF sanitizePersist
  <2>2. raw \notin CleanSnapshot BY <1>0, <1>1, PreferencesFiles
  <2>3. raw \notin RawSnapshot BY <1>1, PreferencesFiles
  <2> QED BY <2>1, <2>2, <2>3, DefaultsAreClean
<1>2. CASE raw \in RawSnapshot
  <2> DEFINE lastBusName == ValueOr(DefaultName, raw.lastBusName)
             lastDbcPath == ValueOr(DefaultPath, raw.lastDbcPath)
             buses == sanitizeBuses(raw.buses)
             s == [raw EXCEPT !.lastBusName = lastBusName,
                              !.lastDbcPath = lastDbcPath,
                              !.buses = buses,
                              !.trace = sanitizeTrace(raw.trace),
                              !.graph = sanitizeGraph(raw.graph),
                              !.txRaw = sanitizeRawDraft(raw.txRaw),
                              !.txDbc = sanitizeDbcDraft(raw.txDbc),
                              !.cyclicJobs = jobsToDefinitions(raw.cyclicJobs)]
             t == [lastBusName |-> lastBusName, lastDbcPath |-> lastDbcPath,
                   buses |-> buses, trace |-> sanitizeTrace(raw.trace),
                   graph |-> sanitizeGraph(raw.graph),
                   txRaw |-> sanitizeRawDraft(raw.txRaw),
                   txDbc |-> sanitizeDbcDraft(raw.txDbc),
                   cyclicJobs |-> jobsToDefinitions(raw.cyclicJobs)]
  <2>1. raw # Absent /\ raw # Partial BY <1>2, PreferencesFiles
  <2>2. sanitizePersist(raw) = s BY <2>1 DEF sanitizePersist
  <2>3. raw \in [lastBusName : Given(Names), lastDbcPath : Given(Paths),
                 buses : Given(Seq(Given(RawBusHint))),
                 trace : Given(Settings), graph : Given(RawGraphPrefs),
                 txRaw : Given(Settings), txDbc : Given(Settings),
                 cyclicJobs : Given(Seq(Given(Definitions)))]
    BY <1>2 DEF RawSnapshot
  <2>14. /\ lastBusName \in Names /\ (raw.lastBusName \in Names => lastBusName = raw.lastBusName)
         /\ lastDbcPath \in Paths /\ (raw.lastDbcPath \in Paths => lastDbcPath = raw.lastDbcPath)
    BY <2>3, PreferencesBounds, GivenValue
  <2>4. buses \in CleanHints /\ (raw.buses \in CleanHints => buses = raw.buses)
    <3>1. raw.buses \in Given(Seq(Given(RawBusHint))) BY <2>3
    <3> QED BY <3>1, SanitizeHints
  <2> HIDE DEF buses, lastBusName, lastDbcPath
  <2>5. s = t
    <3>1. raw = [lastBusName |-> raw.lastBusName, lastDbcPath |-> raw.lastDbcPath,
                 buses |-> raw.buses, trace |-> raw.trace, graph |-> raw.graph,
                 txRaw |-> raw.txRaw, txDbc |-> raw.txDbc, cyclicJobs |-> raw.cyclicJobs]
      BY <2>3
    <3> DEFINE Fields == {"lastBusName", "lastDbcPath", "buses", "trace", "graph", "txRaw",
                          "txDbc", "cyclicJobs"}
    <3>2. DOMAIN raw = Fields BY <3>1
    <3>3. DOMAIN s = Fields BY <3>2
    <3>4. /\ s.lastBusName = lastBusName /\ s.lastDbcPath = lastDbcPath
          /\ s.buses = buses /\ s.trace = sanitizeTrace(raw.trace)
          /\ s.graph = sanitizeGraph(raw.graph)
          /\ s.txRaw = sanitizeRawDraft(raw.txRaw) /\ s.txDbc = sanitizeDbcDraft(raw.txDbc)
          /\ s.cyclicJobs = jobsToDefinitions(raw.cyclicJobs)
      BY <3>2
    <3>5. s = [field \in Fields |-> s[field]] BY <3>2
    <3> HIDE DEF s
    <3> QED BY <3>4, <3>5
  <2>6. /\ sanitizeTrace(raw.trace) \in Settings
        /\ sanitizeRawDraft(raw.txRaw) \in Settings
        /\ sanitizeDbcDraft(raw.txDbc) \in Settings
    BY <2>3, CoercedSetting DEF sanitizeTrace, sanitizeRawDraft, sanitizeDbcDraft
  <2>7. /\ sanitizeGraph(raw.graph) \in CleanGraph
        /\ raw.graph \in CleanGraph => sanitizeGraph(raw.graph) = raw.graph
    <3>1. raw.graph \in Given(RawGraphPrefs) BY <2>3
    <3> QED BY <3>1, SanitizeGraph
  <2>8. /\ jobsToDefinitions(raw.cyclicJobs) \in Seq(Definitions)
        /\ Len(jobsToDefinitions(raw.cyclicJobs)) <= MaxJobs
        /\ raw.cyclicJobs \in Seq(Definitions) /\ Len(raw.cyclicJobs) <= MaxJobs
           => jobsToDefinitions(raw.cyclicJobs) = raw.cyclicJobs
    <3>1. raw.cyclicJobs \in Given(Seq(Given(Definitions))) BY <2>3
    <3> QED BY <3>1, SanitizeJobs
  <2>9. t \in PersistSnapshot
    BY <2>14, <2>4, <2>6, <2>7, <2>8 DEF PersistSnapshot, CleanHints, CleanGraph
  <2>10. t \in CleanSnapshot BY <2>4, <2>7, <2>8, <2>9 DEF CleanSnapshot
  <2>11. ASSUME raw \in CleanSnapshot PROVE t = raw
    <3>1. raw.buses = buses BY <2>4, <2>11 DEF CleanSnapshot
    <3>2. raw \in PersistSnapshot BY <2>11 DEF CleanSnapshot
    <3>3. /\ sanitizeTrace(raw.trace) = raw.trace
          /\ sanitizeRawDraft(raw.txRaw) = raw.txRaw
          /\ sanitizeDbcDraft(raw.txDbc) = raw.txDbc
      BY <3>2, CoercedSetting
      DEF PersistSnapshot, sanitizeTrace, sanitizeRawDraft, sanitizeDbcDraft
    <3>4. sanitizeGraph(raw.graph) = raw.graph
      BY <2>7, <2>11, <3>2 DEF CleanSnapshot, PersistSnapshot
    <3>5. jobsToDefinitions(raw.cyclicJobs) = raw.cyclicJobs
      BY <2>8, <2>11, <3>2 DEF CleanSnapshot, PersistSnapshot
    <3>6. lastBusName = raw.lastBusName /\ lastDbcPath = raw.lastDbcPath
      BY <2>14, <3>2 DEF PersistSnapshot
    <3> QED BY <2>3, <3>1, <3>3, <3>4, <3>5, <3>6
  <2>12. sanitizePersist(raw) = t BY <2>2, <2>5
  <2>13. raw.buses \in CleanHints => sanitizePersist(raw).buses = raw.buses BY <2>4, <2>12
  <2> QED BY <2>10, <2>11, <2>12, <2>13
<1> QED BY <1>1, <1>2 DEF OnDisk

(* What the program made can be in the file, and reads as it is. *)
LEMMA CleanIsKept ==
  ASSUME NEW s \in CleanSnapshot
  PROVE  s \in OnDisk /\ s \in PersistSnapshot /\ sanitizePersist(s) = s
<1>1. s \in PersistSnapshot BY DEF CleanSnapshot
<1>3. s \in RawSnapshot BY <1>1, SnapshotIsRaw
<1>4. s \in OnDisk BY <1>3 DEF OnDisk
<1> QED BY <1>1, <1>4, Sanitize

-----------------------------------------------------------------------------
(* The open buses come first in what buildPersistSnapshot makes.              *)
LEMMA WithOpenedRuns ==
  ASSUME NEW hints \in CleanHints, NEW list \in Seq(OpenBus)
  PROVE  \E g \in [0..Len(list) -> CleanHints] :
            /\ g[0] = hints
            /\ \A n \in 1..Len(list) : g[n] = upsertBusHint(g[n - 1], list[n].name, list[n].dbc)
            /\ WithOpened(hints, list) = g[Len(list)]
<1> DEFINE N == Len(list)
           Step(n, buses) == upsertBusHint(buses, list[n].name, list[n].dbc)
           step == [n \in 1..N |-> [buses \in CleanHints |-> Step(n, buses)]]
           Body(f) == [n \in 0..N |-> IF n = 0 THEN hints ELSE Step(n, f[n - 1])]
<1>1. N \in Nat OBVIOUS
<1>2. ASSUME NEW n \in 1..N, NEW buses \in CleanHints PROVE Step(n, buses) \in CleanHints
  <2>1. list[n] \in OpenBus OBVIOUS
  <2>2. list[n].name \in Names /\ list[n].dbc \in Path BY <2>1 DEF OpenBus
  <2> QED BY <2>2, UpsertHint
<1> HIDE DEF Step
<1>3. step \in Turns(N, CleanHints) BY <1>2 DEF Turns
<1> HIDE DEF N
<1>4. PICK g \in [0..N -> CleanHints] :
        g[0] = hints /\ \A n \in 1..N : g[n] = step[n][g[n - 1]]
  <2> HIDE DEF step
  <2>1. hints \in CleanHints OBVIOUS
  <2> QED BY <1>1, <1>3, <2>1, Iterated
<1>5. \A n \in 1..N : g[n] = Step(n, g[n - 1])
  <2>1. \A n \in 1..N : g[n - 1] \in CleanHints BY <1>1
  <2> QED BY <1>4, <2>1
<1>6. g = Body(g)
  <2>1. \A n \in 0..N : g[n] = IF n = 0 THEN hints ELSE Step(n, g[n - 1])
    BY <1>1, <1>4, <1>5
  <2> QED BY <2>1
<1> DEFINE after == CHOOSE f : f = Body(f)
<1>7. after = Body(after) BY <1>6
<1> HIDE DEF after
<1>8. \A n \in Nat : n <= N => after[n] = g[n]
  <2> DEFINE S == {n \in Nat : n <= N => after[n] = g[n]}
  <2>1. 0 \in S BY <1>1, <1>4, <1>7
  <2>2. ASSUME NEW n \in Nat, n \in S PROVE n + 1 \in S
    <3> SUFFICES ASSUME n + 1 <= N PROVE after[n + 1] = g[n + 1] OBVIOUS
    <3>1. n + 1 \in 1..N /\ n + 1 \in 0..N /\ n <= N /\ (n + 1) - 1 = n /\ n + 1 # 0 BY <1>1
    <3>2. after[n] = g[n] BY <2>2, <3>1
    <3>3. after[n + 1] = Step(n + 1, after[n]) BY <1>7, <3>1
    <3> QED BY <1>5, <3>1, <3>2, <3>3
  <2> HIDE DEF S
  <2>3. \A n \in Nat : n \in S BY <2>1, <2>2, Induction
  <2> QED BY <2>3 DEF S
<1>9. WithOpened(hints, list) = after[N] BY DEF WithOpened, after, Step, N
<1>10. WithOpened(hints, list) = g[N] BY <1>1, <1>8, <1>9
<1> QED BY <1>4, <1>5, <1>10 DEF N, Step

LEMMA OpenedFirst ==
  ASSUME NEW hints \in CleanHints, NEW list \in Seq(OpenBus), UniqueNames(list)
  PROVE  /\ WithOpened(hints, list) \in CleanHints
         /\ \A k \in 1..Len(list) : k <= MaxBuses =>
              /\ k \in 1..Len(WithOpened(hints, list))
              /\ LET bus == list[Len(list) + 1 - k]
                 IN  WithOpened(hints, list)[k] = [name |-> bus.name, dbcPath |-> bus.dbc]
<1> DEFINE N == Len(list)
<1>0. N \in Nat /\ DOMAIN list = 1..N /\ MaxBuses \in Nat BY PreferencesBounds
<1>1. PICK g \in [0..N -> CleanHints] :
        /\ g[0] = hints
        /\ \A n \in 1..N : g[n] = upsertBusHint(g[n - 1], list[n].name, list[n].dbc)
        /\ WithOpened(hints, list) = g[N]
  BY WithOpenedRuns
<1> DEFINE HintOf(i) == [name |-> list[i].name, dbcPath |-> list[i].dbc]
           First(n) == \A k \in 1..n : k <= MaxBuses =>
                         k \in 1..Len(g[n]) /\ g[n][k] = HintOf(n + 1 - k)
           S == {n \in Nat : n <= N => First(n)}
<1>2. \A i \in 1..N : list[i] \in OpenBus /\ list[i].name \in Names /\ list[i].dbc \in Path
  BY DEF OpenBus
<1>3. \A i, j \in 1..N : list[i].name = list[j].name => i = j BY <1>0 DEF UniqueNames
<1>4. 0 \in S OBVIOUS
<1>5. ASSUME NEW n \in Nat, n \in S PROVE n + 1 \in S
  <2> SUFFICES ASSUME n + 1 <= N PROVE First(n + 1)
    <3> HIDE DEF First
    <3> QED OBVIOUS
  <2> DEFINE name == list[n + 1].name
             path == list[n + 1].dbc
             old == g[n]
             new == g[n + 1]
  <2>1. n + 1 \in 1..N /\ n \in 0..N /\ n <= N /\ (n + 1) - 1 = n BY <1>0
  <2>2. First(n) BY <1>5, <2>1
  <2>3. old \in CleanHints /\ name \in Names /\ path \in Path /\ path # Keep
    BY <1>1, <1>2, <2>1, PreferencesBounds DEF Path
  <2>4. new = upsertBusHint(old, name, path) BY <1>1, <2>1
  <2>5. old \in Seq(PersistedBusHint) BY <2>3 DEF CleanHints
  <2> HIDE DEF name, path, old, new
  <2>6. /\ 1 \in 1..Len(new)
        /\ new[1] = [name |-> name, dbcPath |-> path]
        /\ \A k \in 1..Len(old) :
             old[k].name # name =>
               IF \A j \in 1..k : old[j].name # name
               THEN k < MaxBuses => k + 1 \in 1..Len(new) /\ new[k + 1] = old[k]
               ELSE k \in 1..Len(new) /\ new[k] = old[k]
    BY <2>3, <2>4, UpsertHint, SMTT(60)
  <2>7. ASSUME NEW k \in 1..n, k <= MaxBuses PROVE k \in 1..Len(old) /\ old[k].name # name
    <3>1. k \in 1..Len(old) /\ old[k] = HintOf(n + 1 - k) BY <2>2, <2>7 DEF old
    <3>2. n + 1 - k \in 1..N /\ n + 1 - k # n + 1 BY <2>1
    <3>3. list[n + 1 - k].name # list[n + 1].name BY <1>3, <2>1, <3>2
    <3> QED BY <3>1, <3>3 DEF name
  <2>8. ASSUME NEW k \in 1..(n + 1), k <= MaxBuses
        PROVE  k \in 1..Len(new) /\ new[k] = HintOf(n + 2 - k)
    <3>1. CASE k = 1
      <4>1. n + 2 - k = n + 1 BY <3>1
      <4> QED BY <2>6, <3>1, <4>1 DEF name, path
    <3>2. CASE k # 1
      <4>1. k - 1 \in 1..n /\ k - 1 < MaxBuses /\ k - 1 <= MaxBuses
            /\ (k - 1) + 1 = k /\ n + 1 - (k - 1) = n + 2 - k
        BY <1>0, <2>8, <3>2
      <4>2. k - 1 \in 1..Len(old) /\ old[k - 1].name # name BY <2>7, <4>1
      <4>3. \A j \in 1..(k - 1) : j \in 1..n /\ j <= MaxBuses BY <1>0, <4>1
      <4>4. \A j \in 1..(k - 1) : old[j].name # name BY <2>7, <4>3
      <4>5. k \in 1..Len(new) /\ new[k] = old[k - 1] BY <2>6, <4>1, <4>2, <4>4
      <4>6. old[k - 1] = HintOf(n + 2 - k) BY <2>2, <4>1 DEF old
      <4> QED BY <4>5, <4>6
    <3> QED BY <3>1, <3>2
  <2>9. \A k \in 1..(n + 1) : (n + 1) + 1 - k = n + 2 - k OBVIOUS
  <2> QED BY <2>8, <2>9 DEF new
<1> HIDE DEF S
<1>6. \A n \in Nat : n \in S BY <1>4, <1>5, Induction
<1>7. First(N)
  <2> HIDE DEF First, N
  <2> QED BY <1>0, <1>6 DEF S
<1>8. g[N] \in CleanHints BY <1>0, <1>1
<1> QED BY <1>1, <1>7, <1>8

(* What the window holds is of its types. *)
HeaderInv ==
    /\ remembered \in CleanHints
    /\ opened \in Seq(OpenBus) /\ UniqueNames(opened)
    /\ selected \in Names /\ dbcPath \in Paths

ScreenInv ==
    /\ trace \in Settings /\ draft \in Settings /\ dbcDraft \in Settings
    /\ graph \in PersistedGraphPrefs /\ Unique(graph.selected)
    /\ jobs \in Seq(Definitions)

(* The snapshot is one the next launch reads as it is, and it has every open   *)
(* bus with the DBC it has loaded, unless more buses are open than it may have *)
(* hints.                                                                     *)
LEMMA Built ==
  ASSUME HeaderInv, ScreenInv
  PROVE  /\ buildPersistSnapshot \in CleanSnapshot
         /\ Cardinality(NamesOf(opened) \cup {selected}) <= MaxBuses =>
              \A i \in DOMAIN opened :
                  /\ opened[i].name \in NamesOf(buildPersistSnapshot.buses)
                  /\ PathOf(buildPersistSnapshot.buses, opened[i].name) = opened[i].dbc
<1> DEFINE W == WithOpened(remembered, opened)
           r == upsertBusHint(W, selected, Keep)
           raw == [lastBusName |-> selected, lastDbcPath |-> dbcPath, buses |-> r,
                   trace |-> trace, graph |-> graph, txRaw |-> draft, txDbc |-> dbcDraft,
                   cyclicJobs |-> jobs]
           N == Len(opened)
<1>1. buildPersistSnapshot = sanitizePersist(raw) BY DEF buildPersistSnapshot, SnapshotOf
<1>2. opened \in Seq(OpenBus) /\ N \in Nat /\ DOMAIN opened = 1..N /\ MaxBuses \in Nat
      /\ UniqueNames(opened) /\ remembered \in CleanHints /\ selected \in Names
  BY PreferencesBounds DEF HeaderInv
<1>3. /\ W \in CleanHints
      /\ \A k \in 1..N : k <= MaxBuses =>
           /\ k \in 1..Len(W)
           /\ LET bus == opened[N + 1 - k]
              IN  W[k] = [name |-> bus.name, dbcPath |-> bus.dbc]
  BY <1>2, OpenedFirst
<1> HIDE DEF W
<1>4. /\ r \in CleanHints /\ 1 \in 1..Len(r)
      /\ r[1] = [name |-> selected, dbcPath |-> PathOf(W, selected)]
      /\ \A k \in 1..Len(W) :
           W[k].name # selected =>
             IF \A j \in 1..k : W[j].name # selected
             THEN k < MaxBuses => k + 1 \in 1..Len(r) /\ r[k + 1] = W[k]
             ELSE k \in 1..Len(r) /\ r[k] = W[k]
  BY <1>2, <1>3, UpsertHint
<1> HIDE DEF r, N
<1>5. raw \in RawSnapshot
  <2>1. r \in Seq(PersistedBusHint) BY <1>4 DEF CleanHints
  <2>2. raw \in PersistSnapshot BY <2>1 DEF HeaderInv, ScreenInv, PersistSnapshot
  <2> HIDE DEF raw
  <2> QED BY <2>2, SnapshotIsRaw
<1>6. raw \in OnDisk BY <1>5 DEF OnDisk
<1>7. raw.buses = r OBVIOUS
<1> HIDE DEF raw
<1>8. sanitizePersist(raw) \in CleanSnapshot /\ sanitizePersist(raw).buses = r
  BY <1>4, <1>5, <1>6, <1>7, Sanitize
<1>9. ASSUME Cardinality(NamesOf(opened) \cup {selected}) <= MaxBuses, NEW i \in DOMAIN opened
      PROVE  opened[i].name \in NamesOf(r) /\ PathOf(r, opened[i].name) = opened[i].dbc
  <2> DEFINE k == N + 1 - i
  <2>1. IsFiniteSet(NamesOf(opened)) /\ Cardinality(NamesOf(opened)) = N
    BY <1>2, AsManyNames DEF N
  <2>2. selected \notin NamesOf(opened) => N + 1 <= MaxBuses
    BY <1>9, <2>1, FS_AddElement
  <2>3. N <= MaxBuses
    <3>1. CASE selected \in NamesOf(opened)
      <4>1. NamesOf(opened) \cup {selected} = NamesOf(opened) BY <3>1
      <4> QED BY <1>9, <2>1, <4>1
    <3> QED BY <1>2, <2>2, <3>1
  <2>4. k \in 1..N /\ N + 1 - k = i /\ i \in 1..N BY <1>2, <1>9
  <2>5. \A j \in 1..N : j \in 1..Len(W) /\ W[j].name = opened[N + 1 - j].name
                        /\ W[j].dbcPath = opened[N + 1 - j].dbc
    <3> SUFFICES ASSUME NEW j \in 1..N
                 PROVE  j \in 1..Len(W) /\ W[j].name = opened[N + 1 - j].name
                        /\ W[j].dbcPath = opened[N + 1 - j].dbc
      OBVIOUS
    <3>1. j <= MaxBuses BY <1>2, <2>3
    <3>2. j \in 1..Len(W) /\ W[j] = [name |-> opened[N + 1 - j].name,
                                     dbcPath |-> opened[N + 1 - j].dbc]
      BY <1>3, <3>1
    <3> QED BY <3>2
  <2>6. opened[i].name = W[k].name /\ opened[i].dbc = W[k].dbcPath /\ k \in 1..Len(W)
    BY <2>4, <2>5
  <2>7. W \in Seq(PersistedBusHint) /\ UniqueNames(W) /\ DOMAIN W = 1..Len(W)
        /\ r \in Seq(PersistedBusHint) /\ UniqueNames(r) /\ DOMAIN r = 1..Len(r)
    BY <1>3, <1>4 DEF CleanHints
  <2>8. \E q \in 1..Len(r) : r[q].name = W[k].name /\ r[q].dbcPath = W[k].dbcPath
    <3>1. CASE W[k].name = selected
      <4>1. PathOf(W, selected) = W[k].dbcPath BY <2>6, <2>7, <3>1, PathOfHint
      <4> QED BY <1>4, <3>1, <4>1
    <3>2. CASE W[k].name # selected /\ ~(\A j \in 1..k : W[j].name # selected)
      BY <1>4, <2>6, <3>2
    <3>3. CASE W[k].name # selected /\ \A j \in 1..k : W[j].name # selected
      <4>1. k < MaxBuses
        <5>1. CASE selected \notin NamesOf(opened)
          BY <1>2, <2>2, <2>4, <5>1
        <5>2. CASE selected \in NamesOf(opened)
          <6>1. PICK m \in 1..N : opened[m].name = selected BY <1>2, <5>2 DEF NamesOf
          <6>2. N + 1 - m \in 1..N /\ N + 1 - (N + 1 - m) = m BY <1>2, <6>1
          <6>3. W[N + 1 - m].name = selected BY <2>5, <6>1, <6>2
          <6>4. N + 1 - m \notin 1..k BY <3>3, <6>3
          <6> QED BY <1>2, <2>3, <2>4, <6>2, <6>4
        <5> QED BY <5>1, <5>2
      <4> QED BY <1>4, <2>6, <3>3, <4>1
    <3> QED BY <3>1, <3>2, <3>3
  <2>9. PICK q \in 1..Len(r) : r[q].name = W[k].name /\ r[q].dbcPath = W[k].dbcPath BY <2>8
  <2>10. PathOf(r, r[q].name) = r[q].dbcPath BY <2>7, <2>9, PathOfHint
  <2>11. r[q].name \in NamesOf(r) BY <2>7 DEF NamesOf
  <2> QED BY <2>6, <2>9, <2>10, <2>11
<1> QED BY <1>1, <1>8, <1>9

-----------------------------------------------------------------------------
MainInv ==
    /\ outbox \in Seq(CleanSnapshot)
    /\ stage \in {"idle", "written", "rename", "unlink", "again"}
    /\ file \in OnDisk /\ tmp \in OnDisk

CountInv ==
    /\ timer \in 0..Debounce
    /\ steps \in 0..MaxSteps /\ exits \in 0..MaxExits /\ faults \in 0..MaxFaults

FlagInv == live \in BOOLEAN /\ renameFailed \in BOOLEAN

TypeInv ==
    HeaderInv /\ ScreenInv /\ persistRef \in CleanSnapshot /\ MainInv /\ CountInv /\ FlagInv

LEMMA FlagStep ==
  ASSUME FlagInv, [Next]_vars
  PROVE  FlagInv'
<1>1. CASE UNCHANGED <<live, renameFailed>>
  BY <1>1 DEF FlagInv
<1>2. CASE live' \in BOOLEAN /\ UNCHANGED renameFailed
  BY <1>2 DEF FlagInv
<1>3. CASE renameFailed' \in BOOLEAN /\ UNCHANGED live
  BY <1>3 DEF FlagInv
<1>4. CASE Window
  <2>1. CASE Launch BY <2>1, <1>2 DEF Launch, Hydrate, diskVars
  <2>2. CASE Tick \/ Fire \/ RxBatch BY <2>2, <1>1 DEF Tick, Fire, RxBatch, diskVars
  <2>3. CASE Changed BY <2>3, <1>1 DEF Changed, diskVars
  <2>4. Window => Launch \/ Tick \/ Fire \/ RxBatch \/ Changed
    BY DEF Window, selectHeaderBus, openNamed, EditDbcPath, loadNamedDbc, closeNamed,
           EngineDisconnected, EditTrace, setWindowSec, setDraft, setDbcDraft,
           toggleSelected, startCyclic
  <2> QED BY <1>4, <2>1, <2>2, <2>3, <2>4
<1>5. CASE Save \/ FillFails \/ RenameFailsAgain
  BY <1>5, <1>1
  DEF Save, WriteTmp, FillTmp, Rename, Unlink, FillFails, RenameFailsAgain, windowVars
<1>6. CASE RenameFails
  <2>1. UNCHANGED live BY <1>6 DEF RenameFails, windowVars
  <2>2. renameFailed' \in BOOLEAN
    <3>1. renameFailed' = TRUE BY <1>6 DEF RenameFails
    <3> QED BY <3>1
  <2> QED BY <1>3, <2>1, <2>2
<1>7. CASE Exit
  <2>1. UNCHANGED renameFailed BY <1>7 DEF Exit
  <2>2. live' \in BOOLEAN
    <3>1. live' = FALSE BY <1>7, Zenon DEF Exit
    <3> QED BY <3>1
  <2> QED BY <1>2, <2>1, <2>2
<1>8. CASE UNCHANGED vars BY <1>8, <1>1 DEF vars, windowVars, diskVars
<1> QED BY <1>4, <1>5, <1>6, <1>7, <1>8 DEF Next

LEMMA CountStep ==
  ASSUME CountInv, [Next]_vars
  PROVE  CountInv'
<1>0. /\ Debounce \in Nat \ {0} /\ MaxSteps \in Nat /\ MaxExits \in Nat /\ MaxFaults \in Nat
  BY PreferencesBounds
<1>1. CASE UNCHANGED <<timer, steps, exits, faults>>
  BY <1>1 DEF CountInv
<1>2. CASE Launch \/ RxBatch
  BY <1>0, <1>2 DEF CountInv, Launch, Hydrate, RxBatch
<1>3. CASE Changed
  BY <1>0, <1>3 DEF CountInv, Changed
<1>4. CASE Tick \/ Fire
  BY <1>0, <1>4 DEF CountInv, Tick, Fire
<1>5. CASE FillFails \/ RenameFails
  BY <1>0, <1>5 DEF CountInv, FillFails, RenameFails, Fault, windowVars
<1>6. CASE Exit
  BY <1>0, <1>6 DEF CountInv, Exit
<1>7. CASE Save \/ RenameFailsAgain
  BY <1>7, <1>1
  DEF Save, WriteTmp, FillTmp, Rename, Unlink, RenameFailsAgain, windowVars
<1>8. Window => Launch \/ Tick \/ Fire \/ RxBatch \/ Changed
  BY DEF Window, selectHeaderBus, openNamed, EditDbcPath, loadNamedDbc, closeNamed,
         EngineDisconnected, EditTrace, setWindowSec, setDraft, setDbcDraft,
         toggleSelected, startCyclic
<1>9. CASE UNCHANGED vars BY <1>9, <1>1 DEF vars, windowVars, diskVars
<1> QED BY <1>2, <1>3, <1>4, <1>5, <1>6, <1>7, <1>8, <1>9 DEF Next

(* What the window holds, after a launch and after every handler.              *)
LEMMA PathForBusType ==
  ASSUME NEW snapshot \in CleanSnapshot, NEW name
  PROVE  dbcPathForBus(snapshot, name) \in Paths
<1>1. snapshot.buses \in Seq(PersistedBusHint) /\ snapshot.lastDbcPath \in Paths
  BY DEF CleanSnapshot, PersistSnapshot
<1>2. PathOf(snapshot.buses, name) \in Path BY <1>1, PathOfType
<1> QED BY <1>1, <1>2 DEF dbcPathForBus, Path

LEMMA GraphEffectType ==
  ASSUME TypeInv, NEW list, NEW name, NEW size \in Settings, GraphEffect(list, name, size)
  PROVE  graph' \in PersistedGraphPrefs /\ Unique(graph'.selected)
<1>1. graph.selected \in Seq(Signals) /\ Unique(graph.selected)
  BY DEF TypeInv, ScreenInv, PersistedGraphPrefs
<1>2. persistRef.graph.selected \in Seq(Signals) /\ Unique(persistRef.graph.selected)
  <2>1. persistRef.graph \in CleanGraph BY DEF TypeInv, CleanSnapshot
  <2> QED BY <2>1 DEF CleanGraph, PersistedGraphPrefs
<1>3. <<>> \in Seq(Signals) /\ Unique(<<>>) BY DEF Unique
<1>4. PICK s \in {graph.selected, persistRef.graph.selected, <<>>} :
        graph' = [windowSec |-> size, selected |-> s]
  BY DEF GraphEffect
<1>5. s \in Seq(Signals) /\ Unique(s) BY <1>1, <1>2, <1>3, <1>4
<1>6. graph'.selected = s BY <1>4
<1>7. graph' \in PersistedGraphPrefs BY <1>4, <1>5 DEF PersistedGraphPrefs
<1> QED BY <1>5, <1>6, <1>7

LEMMA LaunchStep ==
  ASSUME TypeInv, NEW snapshot \in CleanSnapshot,
         remembered' = snapshot.buses, opened' = <<>>, selected' = snapshot.lastBusName,
         dbcPath' \in Paths, hydratePrefs(snapshot)
  PROVE  HeaderInv' /\ ScreenInv'
<1>1. snapshot \in PersistSnapshot /\ snapshot.buses \in CleanHints
      /\ snapshot.graph \in CleanGraph
  BY DEF CleanSnapshot
<1>2. HeaderInv'
  <2>1. opened' \in Seq(OpenBus) /\ UniqueNames(opened') BY DEF UniqueNames
  <2> QED BY <1>1, <2>1 DEF HeaderInv, PersistSnapshot
<1>3. ScreenInv'
  <2>1. graph' \in PersistedGraphPrefs /\ Unique(graph'.selected)
    BY <1>1 DEF hydratePrefs, CleanGraph
  <2> QED BY <1>1, <2>1 DEF ScreenInv, PersistSnapshot, hydratePrefs
<1> QED BY <1>2, <1>3

LEMMA OpenedAppend ==
  ASSUME HeaderInv, NEW name \in Names \ NamesOf(opened)
  PROVE  LET r == Append(opened, [name |-> name, dbc |-> NoPath])
         IN  r \in Seq(OpenBus) /\ UniqueNames(r)
<1> DEFINE bus == [name |-> name, dbc |-> NoPath]
           r == Append(opened, bus)
<1>1. opened \in Seq(OpenBus) /\ UniqueNames(opened) BY DEF HeaderInv
<1>2. bus \in OpenBus BY DEF OpenBus, Path
<1>3. \A i \in 1..Len(opened) : opened[i].name # bus.name BY <1>1 DEF NamesOf
<1>4. \A i, j \in 1..Len(opened) : opened[i].name = opened[j].name => i = j
  BY <1>1 DEF UniqueNames
<1> HIDE DEF bus
<1>5. r \in Seq(OpenBus) /\ DOMAIN r = 1..(Len(opened) + 1) BY <1>1, <1>2
<1>6. UniqueNames(r)
  <2>1. \A i \in 1..(Len(opened) + 1) :
          IF i = Len(opened) + 1 THEN r[i] = bus
          ELSE i \in 1..Len(opened) /\ r[i] = opened[i]
    BY <1>1, <1>2
  <2> HIDE DEF r
  <2> QED BY <1>3, <1>4, <1>5, <2>1 DEF UniqueNames
<1> QED BY <1>5, <1>6 DEF bus

LEMMA SelectedAppend ==
  ASSUME NEW s \in Seq(Signals), Unique(s), NEW key \in Signals, key \notin ToSet(s)
  PROVE  Append(s, key) \in Seq(Signals) /\ Unique(Append(s, key))
<1> DEFINE r == Append(s, key)
<1>1. r \in Seq(Signals) /\ DOMAIN r = 1..(Len(s) + 1) OBVIOUS
<1>2. \A i \in 1..Len(s) : s[i] # key BY DEF ToSet
<1>3. \A i \in 1..(Len(s) + 1) :
        IF i = Len(s) + 1 THEN r[i] = key ELSE i \in 1..Len(s) /\ r[i] = s[i]
  OBVIOUS
<1>4. \A i, j \in 1..Len(s) : s[i] = s[j] => i = j BY DEF Unique
<1> HIDE DEF r
<1>5. Unique(r) BY <1>1, <1>2, <1>3, <1>4 DEF Unique
<1> QED BY <1>1, <1>5 DEF r

LEMMA ToggleType ==
  ASSUME ScreenInv, NEW key \in Signals, toggleSelected(key)
  PROVE  graph' \in PersistedGraphPrefs /\ Unique(graph'.selected)
<1> DEFINE s == graph.selected
           S == {i \in DOMAIN s : s[i] # key}
<1>1. graph \in PersistedGraphPrefs /\ s \in Seq(Signals) /\ Unique(s) /\ DOMAIN s = 1..Len(s)
  BY DEF ScreenInv, PersistedGraphPrefs
<1>2. graph' = [graph EXCEPT !.selected = IF key \in ToSet(s) THEN Filtered(s, S)
                                          ELSE Append(s, key)]
  BY DEF toggleSelected
<1>3. Filtered(s, S) \in Seq(Signals) /\ Unique(Filtered(s, S))
  <2>1. S \in SUBSET (1..Len(s)) BY <1>1
  <2>2. \A i, j \in S : s[i] = s[j] => i = j BY <1>1 DEF Unique
  <2> HIDE DEF s, S
  <2> QED BY <1>1, <2>1, <2>2, FilteredList
<1>4. key \notin ToSet(s) => Append(s, key) \in Seq(Signals) /\ Unique(Append(s, key))
  BY <1>1, SelectedAppend
<1> HIDE DEF s, S
<1>5. PICK r \in Seq(Signals) : Unique(r) /\ graph' = [graph EXCEPT !.selected = r]
  BY <1>2, <1>3, <1>4
<1>6. graph'.selected = r BY <1>1, <1>5 DEF PersistedGraphPrefs
<1>7. graph' \in PersistedGraphPrefs BY <1>1, <1>5 DEF PersistedGraphPrefs
<1> QED BY <1>5, <1>6, <1>7

LEMMA CloseType ==
  ASSUME HeaderInv, closeNamed
  PROVE  opened' \in Seq(OpenBus) /\ UniqueNames(opened') /\ selected' \in Names
<1> DEFINE S == {i \in DOMAIN opened : opened[i].name # selected}
<1>1. opened \in Seq(OpenBus) /\ UniqueNames(opened) /\ DOMAIN opened = 1..Len(opened)
      /\ selected \in Names
  BY DEF HeaderInv
<1>2. opened' = Filtered(opened, S) BY DEF closeNamed
<1>3. opened' \in Seq(OpenBus) /\ UniqueNames(opened')
  <2>1. S \in SUBSET (1..Len(opened)) BY <1>1
  <2>2. \A i, j \in S : opened[i].name = opened[j].name => i = j BY <1>1 DEF UniqueNames
  <2> HIDE DEF S
  <2> QED BY <1>1, <1>2, <2>1, <2>2, FilteredList
<1>4. opened' # <<>> => opened'[1].name \in Names
  <2>1. opened' # <<>> => opened'[1] \in OpenBus BY <1>3
  <2> QED BY <2>1 DEF OpenBus
<1>5. selected' = IF opened' = <<>> THEN selected ELSE opened'[1].name BY DEF closeNamed
<1> QED BY <1>1, <1>3, <1>4, <1>5

LEMMA HeaderStep ==
  ASSUME TypeInv, [Next]_vars
  PROVE  HeaderInv' /\ ScreenInv'
<1>1. HeaderInv /\ ScreenInv /\ persistRef \in CleanSnapshot
      /\ opened \in Seq(OpenBus) /\ UniqueNames(opened) /\ remembered \in CleanHints
      /\ selected \in Names /\ dbcPath \in Paths
  BY DEF TypeInv, HeaderInv
<1>2. UNCHANGED headerVars => HeaderInv' BY <1>1 DEF headerVars, HeaderInv
<1>3. UNCHANGED screenVars => ScreenInv' BY <1>1 DEF screenVars, ScreenInv
<1>4. ASSUME UNCHANGED <<trace, draft, dbcDraft, jobs>>,
             graph' \in PersistedGraphPrefs /\ Unique(graph'.selected)
      PROVE  ScreenInv'
  BY <1>1, <1>4 DEF ScreenInv
<1>5. \A name : dbcPathForBus(persistRef, name) \in Paths BY <1>1, PathForBusType
<1>6. graph.windowSec \in Settings BY <1>1 DEF ScreenInv, PersistedGraphPrefs
<1>7. CASE UNCHANGED <<headerVars, screenVars>>
  BY <1>2, <1>3, <1>7
<1>8. CASE Launch
  <2> DEFINE s == sanitizePersist(file)
  <2>1. s \in CleanSnapshot
    <3>1. file \in OnDisk BY DEF TypeInv, MainInv
    <3> QED BY <3>1, Sanitize
  <2>2. /\ remembered' = s.buses /\ opened' = <<>> /\ selected' = s.lastBusName
        /\ dbcPath' = dbcPathForBus(s, s.lastBusName) /\ hydratePrefs(s)
    BY <1>8 DEF Launch, Hydrate
  <2> HIDE DEF s
  <2>3. dbcPath' \in Paths BY <2>1, <2>2, PathForBusType
  <2> QED BY <2>1, <2>2, <2>3, LaunchStep
<1>9. CASE Exit
  <2> DEFINE s == DEFAULT_PERSIST
  <2>1. s \in CleanSnapshot BY DefaultsAreClean
  <2>2. /\ remembered' = s.buses /\ opened' = <<>> /\ selected' = s.lastBusName
        /\ dbcPath' \in Paths /\ hydratePrefs(s)
    BY <1>9, PreferencesBounds DEF Exit, DEFAULT_PERSIST
  <2> HIDE DEF s
  <2> QED BY <2>1, <2>2, LaunchStep
<1>10. ASSUME NEW name \in Names, selectHeaderBus(name) PROVE HeaderInv' /\ ScreenInv'
  <2>1. graph' \in PersistedGraphPrefs /\ Unique(graph'.selected)
    BY <1>6, <1>10, GraphEffectType DEF selectHeaderBus
  <2>2. OpenedPath(name) # NoPath => OpenedPath(name) \in Paths
    <3> DEFINE at == {i \in DOMAIN opened : opened[i].name = name /\ opened[i].dbc # NoPath}
    <3>1. \A i \in at : opened[i].dbc \in Paths
      <4>1. \A i \in DOMAIN opened : opened[i] \in OpenBus BY <1>1
      <4> QED BY <4>1 DEF OpenBus, Path
    <3>2. at # {} => (CHOOSE i \in at : TRUE) \in at
      <4> HIDE DEF at
      <4> QED OBVIOUS
    <3> QED BY <3>1, <3>2 DEF OpenedPath
  <2>3. dbcPath' \in Paths
    <3>1. dbcPath' = IF OpenedPath(name) # NoPath THEN OpenedPath(name)
                     ELSE dbcPathForBus(persistRef, name)
      BY <1>10 DEF selectHeaderBus
    <3> QED BY <1>5, <2>2, <3>1
  <2>4. selected' = name /\ UNCHANGED <<remembered, opened, trace, draft, dbcDraft, jobs>>
    BY <1>10 DEF selectHeaderBus
  <2> QED BY <1>1, <1>4, <2>1, <2>3, <2>4 DEF HeaderInv
<1>11. ASSUME NEW name \in Names, openNamed(name) PROVE HeaderInv' /\ ScreenInv'
  <2>1. graph' \in PersistedGraphPrefs /\ Unique(graph'.selected)
    BY <1>6, <1>11, GraphEffectType DEF openNamed
  <2>2. opened' \in Seq(OpenBus) /\ UniqueNames(opened')
    <3>1. name \in Names \ NamesOf(opened)
          /\ opened' = Append(opened, [name |-> name, dbc |-> NoPath])
      BY <1>11 DEF openNamed
    <3> QED BY <1>1, <3>1, OpenedAppend
  <2>3. remembered' \in CleanHints
    BY <1>1, <1>11, UpsertHint DEF openNamed
  <2>4. /\ selected' = name /\ dbcPath' = dbcPathForBus(persistRef, name)
        /\ UNCHANGED <<trace, draft, dbcDraft, jobs>>
    BY <1>11 DEF openNamed
  <2> QED BY <1>4, <1>5, <2>1, <2>2, <2>3, <2>4 DEF HeaderInv
<1>12. ASSUME NEW path \in Paths, EditDbcPath(path) PROVE HeaderInv' /\ ScreenInv'
  <2>1. dbcPath' = path /\ UNCHANGED <<remembered, opened, selected, screenVars>>
    BY <1>12 DEF EditDbcPath
  <2> QED BY <1>1, <1>3, <2>1 DEF HeaderInv
<1>13. CASE loadNamedDbc
  <2>1. graph' \in PersistedGraphPrefs /\ Unique(graph'.selected)
    <3>1. graph \in PersistedGraphPrefs /\ Unique(graph.selected) BY <1>1 DEF ScreenInv
    <3>2. persistRef.graph.selected \in Seq(Signals) /\ Unique(persistRef.graph.selected)
      <4>1. persistRef.graph \in CleanGraph BY <1>1 DEF CleanSnapshot
      <4> QED BY <4>1 DEF CleanGraph, PersistedGraphPrefs
    <3>3. PICK keys \in {graph.selected, persistRef.graph.selected} :
            graph' = [graph EXCEPT !.selected = keys]
      BY <1>13 DEF loadNamedDbc
    <3>4. keys \in Seq(Signals) /\ Unique(keys) BY <3>1, <3>2, <3>3 DEF PersistedGraphPrefs
    <3>5. graph'.selected = keys BY <3>1, <3>3 DEF PersistedGraphPrefs
    <3>6. graph' \in PersistedGraphPrefs BY <3>1, <3>3, <3>4 DEF PersistedGraphPrefs
    <3> QED BY <3>4, <3>5, <3>6
  <2> DEFINE target == headerTargetBus
  <2>0. target \in Names
    <3>1. opened # <<>> BY <1>13 DEF loadNamedDbc
    <3>2. opened[1] \in OpenBus BY <1>1, <3>1
    <3> QED BY <1>1, <3>2 DEF headerTargetBus, OpenBus
  <2>2. opened' = [i \in DOMAIN opened |->
                     IF opened[i].name = target THEN [opened[i] EXCEPT !.dbc = dbcPath]
                     ELSE opened[i]]
    BY <1>13 DEF loadNamedDbc
  <2>10. remembered' = upsertBusHint(remembered, target, dbcPath) BY <1>13 DEF loadNamedDbc
  <2> HIDE DEF target
  <2>3. \A i \in 1..Len(opened) : opened[i] \in OpenBus BY <1>1
  <2>4. \A i \in 1..Len(opened) : opened'[i] \in OpenBus /\ opened'[i].name = opened[i].name
    <3> SUFFICES ASSUME NEW i \in 1..Len(opened)
                 PROVE  opened'[i] \in OpenBus /\ opened'[i].name = opened[i].name
      OBVIOUS
    <3>1. opened'[i] = IF opened[i].name = target THEN [opened[i] EXCEPT !.dbc = dbcPath]
                       ELSE opened[i]
      <4>1. i \in DOMAIN opened BY <1>1
      <4> QED BY <2>2, <4>1, Zenon
    <3> QED BY <1>1, <2>3, <3>1 DEF OpenBus, Path
  <2>5. DOMAIN opened = 1..Len(opened) /\ DOMAIN opened' = 1..Len(opened) BY <1>1, <2>2
  <2>6. opened' \in Seq(OpenBus)
    <3>1. opened' = [i \in 1..Len(opened) |-> opened'[i]] BY <1>1, <2>2
    <3>2. Len(opened) \in Nat BY <1>1
    <3> QED BY <2>4, <3>1, <3>2
  <2>7. UniqueNames(opened') BY <1>1, <2>4, <2>5 DEF UniqueNames
  <2>8. remembered' \in CleanHints
    <3>1. dbcPath \in Path \cup {Keep} BY <1>1 DEF Path
    <3> QED BY <1>1, <2>0, <2>10, <3>1, UpsertHint
  <2>9. UNCHANGED <<selected, dbcPath, trace, draft, dbcDraft, jobs>>
    BY <1>13 DEF loadNamedDbc
  <2> QED BY <1>1, <1>4, <2>1, <2>6, <2>7, <2>8, <2>9 DEF HeaderInv
<1>14. CASE closeNamed
  <2>1. graph' \in PersistedGraphPrefs /\ Unique(graph'.selected)
    BY <1>6, <1>14, GraphEffectType DEF closeNamed
  <2>2. opened' \in Seq(OpenBus) /\ UniqueNames(opened') /\ selected' \in Names
    BY <1>1, <1>14, CloseType
  <2>3. UNCHANGED <<remembered, dbcPath, trace, draft, dbcDraft, jobs>>
    BY <1>14 DEF closeNamed
  <2> QED BY <1>1, <1>4, <2>1, <2>2, <2>3 DEF HeaderInv
<1>15. CASE EngineDisconnected
  <2>1. opened' = <<>> /\ UNCHANGED <<remembered, selected, dbcPath, screenVars>>
    BY <1>15 DEF EngineDisconnected
  <2>2. opened' \in Seq(OpenBus) /\ UniqueNames(opened') BY <2>1 DEF UniqueNames
  <2> QED BY <1>1, <1>3, <2>1, <2>2 DEF HeaderInv
<1>16. ASSUME NEW setting \in Settings,
              EditTrace(setting) \/ setDraft(setting) \/ setDbcDraft(setting)
       PROVE  HeaderInv' /\ ScreenInv'
  BY <1>1, <1>2, <1>16 DEF EditTrace, setDraft, setDbcDraft, ScreenInv
<1>17. ASSUME NEW setting \in Settings, setWindowSec(setting)
       PROVE  HeaderInv' /\ ScreenInv'
  <2>1. graph' \in PersistedGraphPrefs /\ Unique(graph'.selected)
    BY <1>17, GraphEffectType DEF setWindowSec
  <2> QED BY <1>2, <1>4, <1>17, <2>1 DEF setWindowSec
<1>18. ASSUME NEW key \in Signals, toggleSelected(key)
       PROVE  HeaderInv' /\ ScreenInv'
  <2>1. graph' \in PersistedGraphPrefs /\ Unique(graph'.selected)
    BY <1>1, <1>18, ToggleType
  <2> QED BY <1>2, <1>4, <1>18, <2>1 DEF toggleSelected
<1>19. ASSUME NEW job \in Definitions, startCyclic(job)
       PROVE  HeaderInv' /\ ScreenInv'
  <2>1. jobs' = Append(jobs, job) /\ UNCHANGED <<headerVars, trace, graph, draft, dbcDraft>>
    BY <1>19 DEF startCyclic
  <2> QED BY <1>1, <1>2, <2>1 DEF ScreenInv
<1>20. CASE Tick \/ Fire \/ RxBatch
  BY <1>20, <1>7 DEF Tick, Fire, RxBatch
<1>21. CASE Save \/ FillFails \/ RenameFails \/ RenameFailsAgain \/ UNCHANGED vars
  <2>1. UNCHANGED windowVars
    BY <1>21 DEF Save, WriteTmp, FillTmp, Rename, Unlink, FillFails, RenameFails,
                 RenameFailsAgain, vars
  <2> QED BY <1>7, <2>1 DEF windowVars
<1>22. CASE Window
  BY <1>22, <1>8, <1>10, <1>11, <1>12, <1>13, <1>14, <1>15, <1>16, <1>17, <1>18, <1>19, <1>20
  DEF Window
<1> QED BY <1>9, <1>21, <1>22 DEF Next

LEMMA SnapshotStep ==
  ASSUME TypeInv, [Next]_vars
  PROVE  persistRef' \in CleanSnapshot
<1>1. CASE UNCHANGED persistRef BY <1>1 DEF TypeInv
<1>2. CASE Launch
  <2>1. file \in OnDisk BY DEF TypeInv, MainInv
  <2> QED BY <1>2, <2>1, Sanitize DEF Launch, Hydrate
<1>3. CASE Fire BY <1>3, Built DEF Fire, TypeInv
<1>4. CASE Exit BY <1>4, DefaultsAreClean DEF Exit
<1>5. CASE Window
  <2>1. Window => Launch \/ Fire \/ UNCHANGED persistRef
    BY DEF Window, Changed, selectHeaderBus, openNamed, EditDbcPath, loadNamedDbc, closeNamed,
           EngineDisconnected, EditTrace, setWindowSec, setDraft, setDbcDraft,
           toggleSelected, startCyclic, Tick, RxBatch
  <2> QED BY <1>1, <1>2, <1>3, <1>5, <2>1
<1>6. CASE Save \/ FillFails \/ RenameFails \/ RenameFailsAgain \/ UNCHANGED vars
  BY <1>1, <1>6 DEF Save, WriteTmp, FillTmp, Rename, Unlink, FillFails, RenameFails,
                    RenameFailsAgain, vars, windowVars
<1> QED BY <1>4, <1>5, <1>6 DEF Next

LEMMA MainStep ==
  ASSUME TypeInv, outbox # <<>> \/ stage = "idle", [Next]_vars
  PROVE  MainInv'
<1>0. /\ outbox \in Seq(CleanSnapshot) /\ file \in OnDisk /\ tmp \in OnDisk
      /\ stage \in {"idle", "written", "rename", "unlink", "again"}
  BY DEF TypeInv, MainInv
<1>1. Absent \in OnDisk /\ Partial \in OnDisk BY DEF OnDisk
<1>2. outbox # <<>> => Tail(outbox) \in Seq(CleanSnapshot) BY <1>0
<1>3. CASE UNCHANGED <<outbox, stage, file, tmp>>
  BY <1>0, <1>3 DEF MainInv
<1>4. CASE Fire
  <2>1. persistRef' \in CleanSnapshot BY SnapshotStep
  <2>2. outbox' = Append(outbox, persistRef') /\ UNCHANGED <<stage, file, tmp>>
    BY <1>4 DEF Fire, diskVars
  <2> QED BY <1>0, <2>1, <2>2 DEF MainInv
<1>5. CASE WriteTmp \/ Unlink
  BY <1>0, <1>1, <1>5 DEF WriteTmp, Unlink, Writer, MainInv
<1>6. CASE FillTmp
  <2>1. stage = "written" /\ stage' = "rename" /\ tmp' = sanitizePersist(Head(outbox))
        /\ UNCHANGED <<outbox, file>>
    BY <1>6 DEF FillTmp, Writer
  <2>2. Head(outbox) \in CleanSnapshot BY <1>0, <2>1
  <2>3. tmp' \in OnDisk BY <2>1, <2>2, CleanIsKept
  <2> QED BY <1>0, <2>1, <2>3 DEF MainInv
<1>7. CASE FillFails \/ Rename \/ RenameFailsAgain
  <2>1. stage # "idle" /\ stage' = "idle" /\ outbox' = Tail(outbox)
    BY <1>7 DEF FillFails, Rename, RenameFailsAgain, Writer, SaveEnds
  <2>2. file' \in {file, tmp} /\ tmp' \in {tmp, Absent}
    BY <1>7 DEF FillFails, Rename, RenameFailsAgain
  <2>3. outbox' \in Seq(CleanSnapshot) BY <1>2, <2>1
  <2>4. file' \in OnDisk /\ tmp' \in OnDisk BY <1>0, <1>1, <2>2
  <2>5. stage' \in {"idle", "written", "rename", "unlink", "again"} BY <2>1
  <2> QED BY <2>3, <2>4, <2>5 DEF MainInv
<1>8. CASE RenameFails
  BY <1>0, <1>8 DEF RenameFails, Writer, MainInv
<1>9. CASE Exit
  BY <1>0, <1>9 DEF Exit, MainInv
<1>10. CASE Window
  <2>1. Window => Fire \/ UNCHANGED <<outbox, stage, file, tmp>>
    BY DEF Window, Launch, Changed, selectHeaderBus, openNamed, EditDbcPath, loadNamedDbc,
           closeNamed, EngineDisconnected, EditTrace, setWindowSec, setDraft, setDbcDraft,
           toggleSelected, startCyclic, Tick, RxBatch, diskVars
  <2> QED BY <1>3, <1>4, <1>10, <2>1
<1>11. CASE UNCHANGED vars BY <1>3, <1>11 DEF vars, diskVars
<1> QED BY <1>4, <1>5, <1>6, <1>7, <1>8, <1>9, <1>10, <1>11 DEF Next, Save

-----------------------------------------------------------------------------
(* The save that is going on is of the first snapshot on its way; the last of *)
(* them is the one the window holds; when none is left and no file operation  *)
(* failed it is in the file.                                                  *)
SaveInv ==
    /\ ~live => outbox = <<>>
    /\ stage # "idle" => outbox # <<>>
    /\ stage \in {"rename", "unlink", "again"} => tmp = Head(outbox)
    /\ stage \in {"unlink", "again"} => faults > 0
    /\ live /\ outbox # <<>> => outbox[Len(outbox)] = persistRef
    /\ live /\ outbox = <<>> /\ faults = 0 /\ timer = 0 => file = persistRef

LEMMA SaveStep ==
  ASSUME TypeInv, SaveInv, [Next]_vars
  PROVE  SaveInv'
<1>0. outbox \in Seq(CleanSnapshot) /\ faults \in Nat /\ faults' \in Nat
  <2>1. CountInv' BY CountStep DEF TypeInv
  <2> QED BY <2>1, PreferencesBounds DEF TypeInv, MainInv, CountInv
<1>1. CASE UNCHANGED <<live, outbox, stage, tmp, file, faults, persistRef, timer>>
  BY <1>1 DEF SaveInv
<1>2. CASE timer' # 0 /\ UNCHANGED <<live, outbox, stage, tmp, file, faults, persistRef>>
  BY <1>2 DEF SaveInv
<1>3. CASE Launch
  <2>1. ~live /\ outbox = <<>> /\ stage = "idle" BY <1>3 DEF Launch, SaveInv
  <2>2. timer' # 0 BY <1>3, PreferencesBounds DEF Launch, Hydrate
  <2>3. outbox' = <<>> /\ stage' = "idle" BY <1>3, <2>1 DEF Launch, diskVars
  <2> QED BY <2>2, <2>3 DEF SaveInv
<1>4. CASE Fire
  <2>1. live /\ UNCHANGED <<live, stage, tmp, file, faults>>
        /\ outbox' = Append(outbox, persistRef')
    BY <1>4 DEF Fire, diskVars
  <2>2. outbox' # <<>> /\ outbox'[Len(outbox')] = persistRef' BY <1>0, <2>1
  <2>3. outbox # <<>> => Head(outbox') = Head(outbox) BY <1>0, <2>1
  <2> QED BY <2>1, <2>2, <2>3 DEF SaveInv
<1>5. CASE WriteTmp
  <2>1. stage' = "written" /\ outbox # <<>>
        /\ UNCHANGED <<live, timer, persistRef, outbox, file, faults>>
    BY <1>5 DEF WriteTmp, Writer, windowVars
  <2> QED BY <2>1 DEF SaveInv
<1>6. CASE FillTmp
  <2>1. /\ stage = "written" /\ stage' = "rename" /\ tmp' = sanitizePersist(Head(outbox))
        /\ UNCHANGED <<live, timer, persistRef, outbox, file, faults>>
    BY <1>6 DEF FillTmp, Writer, windowVars
  <2>2. outbox # <<>> BY <2>1 DEF SaveInv
  <2>3. Head(outbox) \in CleanSnapshot BY <1>0, <2>2
  <2>4. tmp' = Head(outbox) BY <2>1, <2>3, CleanIsKept
  <2> QED BY <2>1, <2>2, <2>4 DEF SaveInv
<1>7. ASSUME outbox # <<>>, outbox' = Tail(outbox), stage' = "idle",
             UNCHANGED <<live, persistRef>>, live,
             outbox' = <<>> /\ faults' = 0 => file' = persistRef
      PROVE  SaveInv'
  <2>1. outbox' # <<>> => outbox'[Len(outbox')] = outbox[Len(outbox)] BY <1>0, <1>7
  <2> QED BY <1>7, <2>1 DEF SaveInv
<1>8. CASE FillFails
  <2>1. /\ stage = "written" /\ stage' = "idle" /\ live /\ outbox' = Tail(outbox)
        /\ faults' = faults + 1 /\ UNCHANGED <<live, persistRef>>
    BY <1>8 DEF FillFails, Writer, Fault, SaveEnds, windowVars
  <2>2. outbox # <<>> BY <2>1 DEF SaveInv
  <2>3. faults' # 0 BY <1>0, <2>1
  <2> QED BY <1>7, <2>1, <2>2, <2>3
<1>9. CASE Rename
  <2>1. /\ stage \in {"rename", "again"} /\ stage' = "idle" /\ live /\ outbox' = Tail(outbox)
        /\ file' = tmp /\ UNCHANGED <<live, persistRef, faults>>
    BY <1>9 DEF Rename, Writer, SaveEnds, windowVars
  <2>2. outbox # <<>> /\ tmp = Head(outbox) /\ outbox[Len(outbox)] = persistRef
    BY <2>1 DEF SaveInv
  <2>3. outbox' = <<>> => Head(outbox) = outbox[Len(outbox)]
    <3>1. SUFFICES ASSUME outbox' = <<>> PROVE Head(outbox) = outbox[Len(outbox)] OBVIOUS
    <3>2. Len(outbox) \in Nat /\ Len(Tail(outbox)) = Len(outbox) - 1 BY <1>0, <2>2
    <3>3. Len(Tail(outbox)) = 0
      <4> DEFINE rest == Tail(outbox)
      <4>1. rest = <<>> BY <2>1, <3>1
      <4> HIDE DEF rest
      <4>2. Len(rest) = 0 BY <4>1
      <4> QED BY <4>2 DEF rest
    <3>4. Len(outbox) = 1 BY <3>2, <3>3
    <3> QED BY <1>0, <2>2, <3>4
  <2> QED BY <1>7, <2>1, <2>2, <2>3
<1>10. CASE RenameFailsAgain
  <2>1. /\ stage = "again" /\ stage' = "idle" /\ live /\ outbox' = Tail(outbox)
        /\ UNCHANGED <<live, persistRef, faults>>
    BY <1>10 DEF RenameFailsAgain, Writer, SaveEnds, windowVars
  <2>2. outbox # <<>> /\ faults > 0 BY <2>1 DEF SaveInv
  <2>3. faults' # 0 BY <1>0, <2>1, <2>2
  <2> QED BY <1>7, <2>1, <2>2, <2>3
<1>11. CASE RenameFails
  <2>1. /\ stage = "rename" /\ stage' = "unlink" /\ faults' = faults + 1
        /\ UNCHANGED <<live, timer, persistRef, outbox, tmp, file>>
    BY <1>11 DEF RenameFails, Writer, Fault, windowVars
  <2>2. outbox # <<>> /\ tmp = Head(outbox) BY <2>1 DEF SaveInv
  <2>3. faults' > 0 BY <1>0, <2>1
  <2> QED BY <2>1, <2>2, <2>3 DEF SaveInv
<1>12. CASE Unlink
  <2>1. /\ stage = "unlink" /\ stage' = "again"
        /\ UNCHANGED <<live, timer, persistRef, outbox, tmp, faults>>
    BY <1>12 DEF Unlink, Writer, windowVars
  <2>2. outbox # <<>> /\ tmp = Head(outbox) /\ faults > 0 BY <2>1 DEF SaveInv
  <2> QED BY <2>1, <2>2 DEF SaveInv
<1>13. CASE Exit
  <2>1. outbox' = <<>> /\ stage' = "idle" BY <1>13 DEF Exit
  <2>2. ~live' BY <1>13, Zenon DEF Exit
  <2> QED BY <2>1, <2>2 DEF SaveInv
<1>14. CASE Tick
  <2>1. timer > 1 /\ timer' = timer - 1
        /\ UNCHANGED <<live, outbox, stage, tmp, file, faults, persistRef>>
    BY <1>14 DEF Tick, diskVars
  <2>2. timer' # 0 BY <2>1 DEF TypeInv, CountInv
  <2> QED BY <1>2, <2>1, <2>2
<1>15. CASE RxBatch
  <2>1. timer' # 0 BY <1>15, PreferencesBounds DEF RxBatch
  <2> QED BY <1>2, <1>15, <2>1 DEF RxBatch, diskVars
<1>16. CASE Changed
  <2>1. timer' # 0 BY <1>16, PreferencesBounds DEF Changed
  <2> QED BY <1>2, <1>16, <2>1 DEF Changed, diskVars
<1>17. CASE Window
  <2>1. Window => Launch \/ Tick \/ Fire \/ RxBatch \/ Changed
    BY DEF Window, selectHeaderBus, openNamed, EditDbcPath, loadNamedDbc, closeNamed,
           EngineDisconnected, EditTrace, setWindowSec, setDraft, setDbcDraft,
           toggleSelected, startCyclic
  <2> QED BY <1>3, <1>4, <1>14, <1>15, <1>16, <1>17, <2>1
<1>18. CASE UNCHANGED vars BY <1>1, <1>18 DEF vars, windowVars, diskVars
<1> QED BY <1>5, <1>6, <1>8, <1>9, <1>10, <1>11, <1>12, <1>13, <1>17, <1>18 DEF Next, Save

LEMMA TypesImply == TypeInv => TypeOK
<1> SUFFICES ASSUME TypeInv PROVE TypeOK OBVIOUS
<1>1. /\ remembered \in CleanHints /\ persistRef \in CleanSnapshot
      /\ persistRef.buses \in CleanHints /\ sanitizePersist(file).buses \in CleanHints
  <2>1. file \in OnDisk BY DEF TypeInv, MainInv
  <2>2. sanitizePersist(file) \in CleanSnapshot BY <2>1, Sanitize
  <2> QED BY <2>2 DEF TypeInv, HeaderInv, CleanSnapshot
<1>2. \A buses \in CleanHints :
        buses \in Seq(PersistedBusHint) /\ Len(buses) <= MaxBuses
        /\ Cardinality(NamesOf(buses)) = Len(buses)
  BY AsManyNames DEF CleanHints
<1>3. graph \in PersistedGraphPrefs
      /\ Cardinality(ToSet(graph.selected)) = Len(graph.selected)
  <2>1. graph \in PersistedGraphPrefs /\ Unique(graph.selected) BY DEF TypeInv, ScreenInv
  <2>2. graph.selected \in Seq(Signals) BY <2>1 DEF PersistedGraphPrefs
  <2> QED BY <2>1, <2>2, AsManyElements
<1>4. outbox \in Seq(PersistSnapshot)
  <2>1. outbox \in Seq(CleanSnapshot) BY DEF TypeInv, MainInv
  <2>2. \A s \in CleanSnapshot : s \in PersistSnapshot BY DEF CleanSnapshot
  <2> QED BY <2>1, <2>2
<1>5. persistRef \in PersistSnapshot /\ remembered \in Seq(PersistedBusHint)
  BY <1>1 DEF CleanSnapshot, CleanHints
<1>6. opened \in Seq([name : Names, dbc : Paths \cup {NoPath}])
  BY DEF TypeInv, HeaderInv, OpenBus, Path
<1>7. live \in BOOLEAN /\ renameFailed \in BOOLEAN BY DEF TypeInv, FlagInv
<1>8. /\ selected \in Names /\ dbcPath \in Paths
      /\ {trace, draft, dbcDraft} \subseteq Settings /\ jobs \in Seq(Definitions)
      /\ timer \in 0..Debounce
      /\ stage \in {"idle", "written", "rename", "unlink", "again"}
      /\ steps \in 0..MaxSteps /\ exits \in 0..MaxExits /\ faults \in 0..MaxFaults
  BY DEF TypeInv, HeaderInv, ScreenInv, MainInv, CountInv
<1>9. \A buses \in {remembered, persistRef.buses, sanitizePersist(file).buses} :
        /\ Len(buses) <= MaxBuses
        /\ Cardinality(NamesOf(buses)) = Len(buses)
  BY <1>1, <1>2
<1> QED BY <1>3, <1>4, <1>5, <1>6, <1>7, <1>8, <1>9 DEF TypeOK

LEMMA TypesAndSaves == Spec => [](TypeInv /\ SaveInv)
<1>1. Init => TypeInv /\ SaveInv
  <2> SUFFICES ASSUME Init PROVE TypeInv /\ SaveInv
    OBVIOUS
  <2>1. ~live /\ live \in BOOLEAN
    <3>1. live = FALSE BY Zenon DEF Init
    <3> QED BY <3>1
  <2>2. renameFailed \in BOOLEAN
    <3>1. renameFailed = FALSE BY Zenon DEF Init
    <3> QED BY <3>1
  <2>3. HeaderInv
    <3>1. <<>> \in CleanHints BY PreferencesBounds DEF CleanHints, UniqueNames
    <3>2. opened = <<>> /\ remembered = <<>> BY DEF Init, DEFAULT_PERSIST
    <3>3. opened \in Seq(OpenBus) /\ UniqueNames(opened) BY <3>2 DEF UniqueNames
    <3> QED BY <3>1, <3>2, <3>3, PreferencesBounds DEF Init, HeaderInv
  <2>4. ScreenInv
    <3>1. graph = [windowSec |-> DefaultSetting, selected |-> <<>>]
      BY DEF Init, DEFAULT_PERSIST
    <3>2. graph \in PersistedGraphPrefs /\ Unique(graph.selected)
      BY <3>1, PreferencesBounds DEF PersistedGraphPrefs, Unique
    <3> QED BY <3>2, PreferencesBounds DEF Init, ScreenInv
  <2>5. persistRef \in CleanSnapshot BY DefaultsAreClean DEF Init
  <2>6. MainInv
    <3>1. file \in OnDisk BY PreferencesFiles DEF Init, OnDisk
    <3>2. tmp \in OnDisk BY DEF Init, OnDisk
    <3> QED BY <3>1, <3>2 DEF Init, MainInv
  <2>7. CountInv BY PreferencesBounds DEF Init, CountInv
  <2>8. TypeInv BY <2>1, <2>2, <2>3, <2>4, <2>5, <2>6, <2>7 DEF TypeInv, FlagInv
  <2>9. stage = "idle" /\ outbox = <<>> BY DEF Init
  <2>10. SaveInv BY <2>1, <2>9 DEF SaveInv
  <2> QED BY <2>8, <2>10
<1>2. TypeInv /\ SaveInv /\ [Next]_vars => TypeInv' /\ SaveInv'
  <2> SUFFICES ASSUME TypeInv, SaveInv, [Next]_vars PROVE TypeInv' /\ SaveInv'
    OBVIOUS
  <2>1. outbox # <<>> \/ stage = "idle" BY DEF SaveInv
  <2>2. HeaderInv' /\ ScreenInv' BY HeaderStep
  <2>3. persistRef' \in CleanSnapshot BY SnapshotStep
  <2>4. MainInv' BY <2>1, MainStep
  <2>5. CountInv' BY CountStep DEF TypeInv
  <2>6. FlagInv' BY FlagStep DEF TypeInv
  <2>7. SaveInv' BY SaveStep
  <2> QED BY <2>2, <2>3, <2>4, <2>5, <2>6, <2>7 DEF TypeInv
<1> QED BY <1>1, <1>2, PTL DEF Spec

(* Whatever the first launch finds on disk, the window and main only hold what *)
(* they have a type for, and a bus has one hint at most in the header, in the  *)
(* snapshot and in what a launch reads (persist.ts, sanitizePersist and        *)
(* upsertBusHint).                                                            *)
THEOREM TypesHold == Spec => []TypeOK
BY TypesAndSaves, TypesImply, PTL

(* Once the debounce has fired, the snapshot has every open bus with its DBC,  *)
(* the next launch reads it as it is, and it is in the file when nothing is on *)
(* its way and no file operation failed (App.tsx, the debounce; persist.ts,    *)
(* buildPersistSnapshot and sanitizePersist; userStore.ts, save).              *)
THEOREM OpenBusesAreStored == Spec => []OpenIsStored
<1>1. TypeInv /\ SaveInv /\ (live /\ timer = 0 => SnapshotIsCurrent) => OpenIsStored
  <2> SUFFICES ASSUME TypeInv, SaveInv, SnapshotIsCurrent, live, timer = 0
               PROVE  /\ SnapshotIsCurrent
                      /\ sanitizePersist(persistRef) = persistRef
                      /\ Cardinality(NamesOf(opened) \cup {selected}) <= MaxBuses =>
                           \A i \in DOMAIN opened :
                               /\ opened[i].name \in NamesOf(persistRef.buses)
                               /\ PathOf(persistRef.buses, opened[i].name) = opened[i].dbc
                      /\ outbox = <<>> /\ faults = 0 => file = persistRef
    BY DEF OpenIsStored
  <2>1. sanitizePersist(persistRef) = persistRef BY CleanIsKept DEF TypeInv
  <2>2. Cardinality(NamesOf(opened) \cup {selected}) <= MaxBuses =>
          \A i \in DOMAIN opened :
              /\ opened[i].name \in NamesOf(persistRef.buses)
              /\ PathOf(persistRef.buses, opened[i].name) = opened[i].dbc
    <3>1. HeaderInv /\ ScreenInv BY DEF TypeInv
    <3>2. persistRef = buildPersistSnapshot BY DEF SnapshotIsCurrent
    <3> QED BY <3>1, <3>2, Built
  <2>3. outbox = <<>> /\ faults = 0 => file = persistRef BY DEF SaveInv
  <2> QED BY <2>1, <2>2, <2>3
<1> QED BY <1>1, TypesAndSaves, QuietWindowIsCurrent, PTL

=============================================================================
