--------------------------- MODULE DagCacheProofs ---------------------------
(***************************************************************************)
(* The cache of sorted graphs is safe for any number of workers, JobFlows  *)
(* and specs.                                                              *)
(***************************************************************************)
EXTENDS DagCache, TLAPS

(* CacheInv holds at the start.                                             *)
LEMMA CacheInit == Init => CacheInv
<1>1. SUFFICES ASSUME Init PROVE CacheInv
  OBVIOUS
<1>2. TypeOK
  BY <1>1, CacheAssumption DEF Init, TypeOK, Empty, Labels
<1>3. EntriesFit /\ MapIsThere
  BY <1>1 DEF Init, EntriesFit, MapIsThere, Empty
<1>4. LocksAreHeld
  BY <1>1 DEF Init, LocksAreHeld
<1>5. GraphIsOfTheSpec
  BY <1>1, CacheAssumption DEF Init, GraphIsOfTheSpec
<1> QED
  BY <1>2, <1>3, <1>4, <1>5 DEF CacheInv

(* Every step keeps every variable in its type.                             *)
LEMMA CacheType == CacheInv /\ [Next]_vars => TypeOK'
<1> SUFFICES ASSUME CacheInv, [Next]_vars PROVE TypeOK'
  OBVIOUS
<1> USE CacheAssumption DEF CacheInv, TypeOK, Labels, mutex, calls
<1>1. CASE Restart
  BY <1>1 DEF Restart, Empty
<1>2. ASSUME NEW w \in Workers, Call(w) PROVE TypeOK'
  BY <1>2 DEF Call, Goto
<1>3. ASSUME NEW w \in Workers, InitCheck(w) PROVE TypeOK'
  BY <1>3 DEF InitCheck, Goto
<1>4. ASSUME NEW w \in Workers, InitMake(w) PROVE TypeOK'
  BY <1>4 DEF InitMake, Goto, Empty
<1>5. ASSUME NEW w \in Workers, RLock(w) PROVE TypeOK'
  BY <1>5 DEF RLock, Goto
<1>6. ASSUME NEW w \in Workers, Lookup(w) PROVE TypeOK'
  <2>1. dagCache \in Workers
    BY <1>6 DEF Lookup, MapIsThere
  <2>2. maps[dagCache][key[w]] \in Entry \cup {Nil}
    BY <2>1
  <2>3. maps[dagCache][key[w]] # Nil => maps[dagCache][key[w]].dagGraph \in Specs
    BY <2>2 DEF Entry
  <2>4. answer' \in [Workers -> Specs \cup {None, "cycle"}]
    BY <1>6, <2>3 DEF Lookup, Return, Goto
  <2>5. pc' \in [Workers -> Labels]
    BY <1>6 DEF Lookup, Return, Goto
  <2> QED
    BY <1>6, <2>4, <2>5 DEF Lookup
<1>7. ASSUME NEW w \in Workers, Build(w) PROVE TypeOK'
  BY <1>7 DEF Build, Return, Goto
<1>8. ASSUME NEW w \in Workers, Lock(w) PROVE TypeOK'
  BY <1>8 DEF Lock, Goto
<1>9. ASSUME NEW w \in Workers, Drain(w) PROVE TypeOK'
  BY <1>9 DEF Drain, Goto
<1>10. ASSUME NEW w \in Workers, Store(w) PROVE TypeOK'
  <2>1. dagCache \in Workers
    BY <1>10 DEF Store, MapIsThere
  <2>2. [specHash |-> computeStepsHash(spec[w]), dagGraph |-> spec[w]] \in Entry
    BY DEF Entry, computeStepsHash
  <2>3. maps' \in [Workers -> [Keys -> Entry \cup {Nil}]]
    BY <1>10, <2>1, <2>2 DEF Store
  <2>4. pc' \in [Workers -> Labels]
    BY <1>10 DEF Store
  <2> QED
    BY <1>10, <2>3, <2>4 DEF Store
<1>11. CASE UNCHANGED vars
  BY <1>11 DEF vars
<1> QED
  BY <1>1, <1>2, <1>3, <1>4, <1>5, <1>6, <1>7, <1>8, <1>9, <1>10, <1>11
  DEF Next, Finish

(* Entries are only made whole, by Store, and a map is only made empty.     *)
LEMMA CacheEntries == CacheInv /\ [Next]_vars => EntriesFit'
<1> SUFFICES ASSUME CacheInv, [Next]_vars,
                    NEW m \in Workers, NEW k \in Keys, maps'[m][k] # Nil
             PROVE  maps'[m][k].specHash = maps'[m][k].dagGraph
  BY DEF EntriesFit
<1> USE DEF CacheInv, TypeOK, EntriesFit
<1>1. CASE Restart
  BY <1>1 DEF Restart, Empty
<1>2. ASSUME NEW w \in Workers, InitMake(w)
      PROVE  maps'[m][k].specHash = maps'[m][k].dagGraph
  BY <1>2 DEF InitMake, Empty
<1>3. ASSUME NEW w \in Workers, Store(w)
      PROVE  maps'[m][k].specHash = maps'[m][k].dagGraph
  <2>1. dagCache \in Workers
    BY <1>3 DEF Store, MapIsThere
  <2>2. CASE m = dagCache /\ k = key[w]
    BY <1>3, <2>1, <2>2 DEF Store, computeStepsHash
  <2>3. CASE ~(m = dagCache /\ k = key[w])
    BY <1>3, <2>1, <2>3 DEF Store
  <2> QED
    BY <2>2, <2>3
<1>4. CASE UNCHANGED maps
  BY <1>4
<1> QED
  BY <1>1, <1>2, <1>3, <1>4
  DEF Next, Finish, vars, Call, InitCheck, RLock, Lookup, Build, Lock, Drain

(* r.dagCache is not nil again before the process has died.                 *)
LEMMA CacheMap == CacheInv /\ [Next]_vars => MapIsThere'
<1> SUFFICES ASSUME CacheInv, [Next]_vars PROVE MapIsThere'
  OBVIOUS
<1> USE CacheAssumption DEF CacheInv, TypeOK, MapIsThere, Goto, Return
<1>1. CASE Restart
  BY <1>1 DEF Restart
<1>2. ASSUME NEW w \in Workers, Call(w) \/ Build(w) PROVE MapIsThere'
  BY <1>2 DEF Call, Build
<1>3. ASSUME NEW w \in Workers, InitCheck(w) PROVE MapIsThere'
  BY <1>3 DEF InitCheck
<1>4. ASSUME NEW w \in Workers, InitMake(w) PROVE MapIsThere'
  BY <1>4 DEF InitMake
<1>5. ASSUME NEW w \in Workers, RLock(w) \/ Lookup(w) PROVE MapIsThere'
  BY <1>5 DEF RLock, Lookup
<1>6. ASSUME NEW w \in Workers, Lock(w) \/ Drain(w) PROVE MapIsThere'
  BY <1>6 DEF Lock, Drain
<1>7. ASSUME NEW w \in Workers, Store(w) PROVE MapIsThere'
  BY <1>7 DEF Store
<1>8. CASE UNCHANGED vars
  BY <1>8 DEF vars
<1> QED
  BY <1>1, <1>2, <1>3, <1>4, <1>5, <1>6, <1>7, <1>8 DEF Next, Finish

(* The locks pass as they should.  Only Store lets readers in while there   *)
(* is a writer, itself, and it leaves as they enter.                        *)
LEMMA CacheLocks == CacheInv /\ [Next]_vars => LocksAreHeld'
<1> SUFFICES ASSUME CacheInv, [Next]_vars PROVE LocksAreHeld'
  OBVIOUS
<1> USE CacheAssumption DEF CacheInv, TypeOK, LocksAreHeld, Goto, Return, mutex
<1>1. CASE Restart
  BY <1>1 DEF Restart
<1>2. ASSUME NEW w \in Workers, Call(w) PROVE LocksAreHeld'
  BY <1>2 DEF Call
<1>3. ASSUME NEW w \in Workers, InitCheck(w) \/ InitMake(w) PROVE LocksAreHeld'
  BY <1>3 DEF InitCheck, InitMake
<1>4. ASSUME NEW w \in Workers, RLock(w) PROVE LocksAreHeld'
  BY <1>4 DEF RLock
<1>5. ASSUME NEW w \in Workers, Lookup(w) PROVE LocksAreHeld'
  BY <1>5 DEF Lookup
<1>6. ASSUME NEW w \in Workers, Build(w) PROVE LocksAreHeld'
  BY <1>6 DEF Build
<1>7. ASSUME NEW w \in Workers, Lock(w) \/ Drain(w) PROVE LocksAreHeld'
  BY <1>7 DEF Lock, Drain
<1>8. ASSUME NEW w \in Workers, Store(w) PROVE LocksAreHeld'
  BY <1>8 DEF Store
<1>9. CASE UNCHANGED vars
  BY <1>9 DEF vars
<1> QED
  BY <1>1, <1>2, <1>3, <1>4, <1>5, <1>6, <1>7, <1>8, <1>9 DEF Next, Finish

(* A hit is of an entry whose hash is that of the steps it is asked for.    *)
LEMMA CacheAnswers == CacheInv /\ [Next]_vars => GraphIsOfTheSpec'
<1> SUFFICES ASSUME CacheInv, [Next]_vars PROVE GraphIsOfTheSpec'
  OBVIOUS
<1> USE CacheAssumption DEF CacheInv, TypeOK, GraphIsOfTheSpec, Goto, Return, calls
<1>1. CASE Restart
  BY <1>1 DEF Restart
<1>2. ASSUME NEW w \in Workers, Call(w) PROVE GraphIsOfTheSpec'
  BY <1>2 DEF Call
<1>3. ASSUME NEW w \in Workers, Lookup(w) PROVE GraphIsOfTheSpec'
  <2>1. dagCache \in Workers
    BY <1>3 DEF Lookup, MapIsThere
  <2>2. ASSUME maps[dagCache][key[w]] # Nil,
               maps[dagCache][key[w]].specHash = spec[w]
        PROVE  maps[dagCache][key[w]].dagGraph = spec[w]
    BY <2>1, <2>2 DEF EntriesFit
  <2> QED
    BY <1>3, <2>2 DEF Lookup, computeStepsHash
<1>4. ASSUME NEW w \in Workers, Build(w) PROVE GraphIsOfTheSpec'
  BY <1>4 DEF Build
<1>5. ASSUME NEW w \in Workers, Store(w) PROVE GraphIsOfTheSpec'
  BY <1>5 DEF Store
<1>6. CASE UNCHANGED <<spec, answer>>
  BY <1>6
<1> QED
  BY <1>1, <1>2, <1>3, <1>4, <1>5, <1>6
  DEF Next, Finish, vars, InitCheck, InitMake, RLock, Lock, Drain

(* Whatever the workers do, in whatever order they start: the runs check    *)
(* two of them.                                                             *)
THEOREM CacheIsSafe == Spec => []CacheInv
<1>1. CacheInv /\ [Next]_vars => CacheInv'
  BY CacheType, CacheEntries, CacheMap, CacheLocks, CacheAnswers DEF CacheInv
<1> QED
  BY CacheInit, <1>1, PTL DEF Spec

(* getOrBuildDAG returns a graph of the steps it was called with.           *)
THEOREM CacheGraphIsOfTheSpec == Spec => []GraphIsOfTheSpec
<1>1. CacheInv => GraphIsOfTheSpec
  BY DEF CacheInv
<1> QED
  BY CacheIsSafe, <1>1, PTL

(* No two workers are at a map while one of them writes it, and nobody      *)
(* reads or writes the nil map.                                             *)
THEOREM CacheAccessIsExclusive == Spec => []AccessIsExclusive
<1>1. CacheInv => AccessIsExclusive
  BY DEF CacheInv, AccessIsExclusive, Accessing, MapIsThere, LocksAreHeld
<1> QED
  BY CacheIsSafe, <1>1, PTL

(* Every variable keeps to its type: the map that Lookup and Store go to is *)
(* one that was made, and an answer is a graph, an error or none.           *)
THEOREM CacheTypeCorrect == Spec => []TypeOK
<1>1. CacheInv => TypeOK
  BY DEF CacheInv
<1> QED
  BY CacheIsSafe, <1>1, PTL

(* Each loss of entries uses up one of the workers that found no map.       *)
THEOREM CacheForgetsOnlyAtStart == Spec => ForgetsOnlyAtStart
<1> DEFINE Lost == \E k \in Keys : Cached(k) /\ ~Cached(k)'
<1>1. ASSUME CacheInv, [Next]_vars, dagCache # Nil, dagCache' # Nil
      PROVE  Late' \subseteq Late /\ (Lost => Late' # Late)
  <2> USE <1>1, CacheAssumption DEF CacheInv, TypeOK, Cached, Late, Goto, Return
  <2>1. CASE Restart
    BY <2>1 DEF Restart
  <2>2. ASSUME NEW w \in Workers, InitMake(w)
        PROVE  Late' \subseteq Late /\ (Lost => Late' # Late)
    BY <2>2 DEF InitMake
  <2>3. ASSUME NEW w \in Workers, Store(w)
        PROVE  Late' \subseteq Late /\ (Lost => Late' # Late)
    <3>1. dagCache \in Workers
      BY <2>3 DEF Store, MapIsThere
    <3>2. [specHash |-> computeStepsHash(spec[w]), dagGraph |-> spec[w]] # Nil
      BY DEF Entry, computeStepsHash
    <3>3. ~Lost
      BY <2>3, <3>1, <3>2 DEF Store
    <3>4. Late' \subseteq Late
      BY <2>3 DEF Store
    <3> QED
      BY <3>3, <3>4
  <2>4. ASSUME UNCHANGED <<dagCache, maps>> PROVE ~Lost
    BY <2>4
  <2>5. ASSUME NEW w \in Workers, Call(w) \/ InitCheck(w) \/ RLock(w)
        PROVE  Late' \subseteq Late
    BY <2>5 DEF Call, InitCheck, RLock
  <2>6. ASSUME NEW w \in Workers, Lookup(w) \/ Build(w) PROVE Late' \subseteq Late
    BY <2>6 DEF Lookup, Build
  <2>7. ASSUME NEW w \in Workers, Lock(w) \/ Drain(w) PROVE Late' \subseteq Late
    BY <2>7 DEF Lock, Drain
  <2>8. ASSUME UNCHANGED vars PROVE Late' \subseteq Late
    BY <2>8 DEF vars
  <2> QED
    BY <2>1, <2>2, <2>3, <2>4, <2>5, <2>6, <2>7, <2>8
    DEF Next, Finish, vars, Call, InitCheck, RLock, Lookup, Build, Lock, Drain
<1>2. CacheInv /\ [Next]_vars =>
        [dagCache # Nil /\ dagCache' # Nil =>
           /\ Late' \subseteq Late
           /\ (\E k \in Keys : Cached(k) /\ ~Cached(k)') => Late' # Late]_vars
  BY <1>1
<1> QED
  BY CacheIsSafe, <1>2, PTL DEF Spec, ForgetsOnlyAtStart
=============================================================================
