------------------------------ MODULE DagCache ------------------------------
(***************************************************************************)
(* The cache of sorted graphs as its workers share it: getOrBuildDAG and   *)
(* init of pkg/controller/reconciler.go, run by up to                      *)
(* MaxConcurrentReconciles workers at once.                                *)
(*                                                                         *)
(* The constructor leaves r.dagCache nil, and init makes the map without   *)
(* holding r.dagMu, so that workers that start together may each make one. *)
(* A map is known by the worker that made it.  What Go calls a data race   *)
(* on the field is a race on one word here: a read gives some map that was *)
(* assigned, or nil, and the map it gives is initialized.                  *)
(*                                                                         *)
(* A graph that was built is known by the steps it was built from.  (What  *)
(* BuildDAG and TopologicalSort make of steps is in Intake.)               *)
(***************************************************************************)
EXTENDS Naturals, FiniteSets

CONSTANTS
  Workers,    \* the workers of the controller
  Keys,       \* <namespace>/<name> of the JobFlows
  Specs,      \* what spec.steps may be
  Cyclic,     \* those that cannot be sorted
  Nil,        \* no map, no entry
  None        \* no worker, no answer

Entry == [specHash : Specs, dagGraph : Specs]

ASSUME CacheAssumption ==
  /\ Cyclic \subseteq Specs
  /\ Nil \notin Workers \cup Entry
  /\ None \notin Workers \cup Specs \cup {"cycle"}
  /\ "cycle" \notin Specs

VARIABLES
  dagCache,   \* r.dagCache: Nil, or the maker of the map
  maps,       \* maps[m]: the entries of the map that m made
  readers,    \* r.dagMu: the holders of the read lock
  writer,     \*          the holder of the lock, or who waits for readers to leave
  pc,         \* where a worker is in getOrBuildDAG
  key, spec,  \* the JobFlow it was called for, and its steps
  answer      \* the steps of the graph it returned, or the error

mutex == <<readers, writer>>
calls == <<key, spec>>
vars  == <<dagCache, maps, readers, writer, pc, key, spec, answer>>

(* SHA-256 of the JSON of the steps: equal for equal steps only.            *)
computeStepsHash(steps) == steps

Goto(w, label) == pc' = [pc EXCEPT ![w] = label]
Return(w, value) ==
  /\ Goto(w, "idle")
  /\ answer' = [answer EXCEPT ![w] = value]

Empty == [k \in Keys |-> Nil]

----------------------------------------------------------------------------
Init ==
  /\ dagCache = Nil /\ maps = [w \in Workers |-> Empty]
  /\ readers = {} /\ writer = None
  /\ pc = [w \in Workers |-> "idle"]
  /\ key \in [Workers -> Keys] /\ spec \in [Workers -> Specs]
  /\ answer = [w \in Workers |-> None]

(* The work queue gives a key to one worker at a time.                      *)
Call(w) ==
  /\ pc[w] = "idle"
  /\ \E k \in Keys, s \in Specs :
       /\ \A v \in Workers : pc[v] # "idle" => key[v] # k
       /\ key' = [key EXCEPT ![w] = k] /\ spec' = [spec EXCEPT ![w] = s]
  /\ Goto(w, "init") /\ answer' = [answer EXCEPT ![w] = None]
  /\ UNCHANGED <<dagCache, maps, mutex>>

InitAlwaysMakes(w) ==                                                   \* wrong
  /\ pc[w] = "init" /\ Goto(w, "make")
  /\ UNCHANGED <<dagCache, maps, mutex, calls, answer>>

InitCheck(w) ==
  /\ pc[w] = "init" /\ Goto(w, IF dagCache = Nil THEN "make" ELSE "rlock")
  /\ UNCHANGED <<dagCache, maps, mutex, calls, answer>>

InitMake(w) ==
  /\ pc[w] = "make" /\ Goto(w, "rlock")
  /\ dagCache' = w /\ maps' = [maps EXCEPT ![w] = Empty]
  /\ UNCHANGED <<mutex, calls, answer>>

(* A reader waits for the writer that was there before it.                  *)
RLock(w) ==
  /\ pc[w] = "rlock"
  /\ \/ writer = None /\ readers' = readers \cup {w} /\ Goto(w, "lookup")
     \/ writer # None /\ UNCHANGED readers /\ Goto(w, "rwait")
  /\ UNCHANGED <<dagCache, maps, writer, calls, answer>>

HitKeepsLock(w) ==                                                      \* wrong
  /\ pc[w] = "lookup"
  /\ LET cached == maps[dagCache][key[w]]
         hit    == cached # Nil /\ cached.specHash = computeStepsHash(spec[w])
     IN  \/ hit /\ Return(w, cached.dagGraph) /\ UNCHANGED readers
         \/ ~hit /\ Goto(w, "build") /\ UNCHANGED answer /\ readers' = readers \ {w}
  /\ UNCHANGED <<dagCache, maps, writer, calls>>

HitByKey(w) ==                                                          \* wrong
  /\ pc[w] = "lookup"
  /\ LET cached == maps[dagCache][key[w]]
     IN  \/ cached # Nil /\ Return(w, cached.dagGraph)
         \/ cached = Nil /\ Goto(w, "build") /\ UNCHANGED answer
  /\ readers' = readers \ {w}
  /\ UNCHANGED <<dagCache, maps, writer, calls>>

(* The read of the map, up to RUnlock on either path.                       *)
Lookup(w) ==
  /\ pc[w] = "lookup"
  /\ LET cached == maps[dagCache][key[w]]
         hit    == cached # Nil /\ cached.specHash = computeStepsHash(spec[w])
     IN  \/ hit /\ Return(w, cached.dagGraph)
         \/ ~hit /\ Goto(w, "build") /\ UNCHANGED answer
  /\ readers' = readers \ {w}
  /\ UNCHANGED <<dagCache, maps, writer, calls>>

BuildDropsError(w) ==                                                   \* wrong
  /\ pc[w] = "build"
  /\ \/ spec[w] \in Cyclic /\ Return(w, Nil)
     \/ spec[w] \notin Cyclic /\ Goto(w, "lock") /\ UNCHANGED answer
  /\ UNCHANGED <<dagCache, maps, mutex, calls>>

Build(w) ==
  /\ pc[w] = "build"
  /\ \/ spec[w] \in Cyclic /\ Return(w, "cycle")
     \/ spec[w] \notin Cyclic /\ Goto(w, "lock") /\ UNCHANGED answer
  /\ UNCHANGED <<dagCache, maps, mutex, calls>>

(* One writer at a time, which then waits for the readers to leave.         *)
Lock(w) ==
  /\ pc[w] = "lock" /\ writer = None
  /\ writer' = w /\ Goto(w, "drain")
  /\ UNCHANGED <<dagCache, maps, readers, calls, answer>>

LockWithReaders(w) ==                                                   \* wrong
  /\ pc[w] = "drain" /\ Goto(w, "store")
  /\ UNCHANGED <<dagCache, maps, mutex, calls, answer>>

Drain(w) ==
  /\ pc[w] = "drain" /\ readers = {} /\ Goto(w, "store")
  /\ UNCHANGED <<dagCache, maps, mutex, calls, answer>>

(* The write, and Unlock, which lets the waiting readers in.                *)
Store(w) ==
  LET waiting == {v \in Workers : pc[v] = "rwait"}
  IN  /\ pc[w] = "store"
      /\ maps' = [maps EXCEPT ![dagCache][key[w]] =
                    [specHash |-> computeStepsHash(spec[w]), dagGraph |-> spec[w]]]
      /\ writer' = None /\ readers' = waiting
      /\ pc' = [v \in Workers |-> IF v = w THEN "idle"
                                  ELSE IF v \in waiting THEN "lookup" ELSE pc[v]]
      /\ answer' = [answer EXCEPT ![w] = spec[w]]
      /\ UNCHANGED <<dagCache, calls>>

(* The process dies, and its successor starts without a map.                *)
Restart ==
  /\ dagCache' = Nil /\ maps' = [w \in Workers |-> Empty]
  /\ readers' = {} /\ writer' = None
  /\ pc' = [w \in Workers |-> "idle"] /\ answer' = [w \in Workers |-> None]
  /\ UNCHANGED calls

Finish(w) ==
  \/ InitCheck(w) \/ InitMake(w) \/ RLock(w) \/ Lookup(w)
  \/ Build(w) \/ Drain(w) \/ Store(w)

Next == Restart \/ \E w \in Workers : Call(w) \/ Finish(w) \/ Lock(w)

Spec == Init /\ [][Next]_vars

(* Goroutines are scheduled, and the mutex does not starve a writer.        *)
FairSpec ==
  Spec /\ \A w \in Workers : WF_vars(Finish(w)) /\ SF_vars(Lock(w))

----------------------------------------------------------------------------
Labels == {"idle", "init", "make", "rlock", "rwait", "lookup", "build", "lock",
           "drain", "store"}

TypeOK ==
  /\ dagCache \in Workers \cup {Nil}
  /\ maps \in [Workers -> [Keys -> Entry \cup {Nil}]]
  /\ readers \subseteq Workers /\ writer \in Workers \cup {None}
  /\ pc \in [Workers -> Labels]
  /\ key \in [Workers -> Keys] /\ spec \in [Workers -> Specs]
  /\ answer \in [Workers -> Specs \cup {None, "cycle"}]

(* What makes them true.  An entry has the hash of the steps of its graph,  *)
(* who is past init has a map, and the two locks are held by those who are  *)
(* where they need them.  (The runs check what follows, the proof goes      *)
(* through CacheInv.)                                                       *)
EntriesFit ==
  \A m \in Workers, k \in Keys :
    maps[m][k] # Nil => maps[m][k].specHash = maps[m][k].dagGraph

MapIsThere ==
  \A w \in Workers : pc[w] \notin {"idle", "init", "make"} => dagCache # Nil

LocksAreHeld ==
  /\ readers = {w \in Workers : pc[w] = "lookup"}
  /\ \A w \in Workers : pc[w] \in {"drain", "store"} => writer = w
  /\ \A w \in Workers : pc[w] = "store" => readers = {}

(* A graph is returned only for the steps it was built from, however the    *)
(* spec behind a key changed and whichever worker built it.                 *)
GraphIsOfTheSpec ==
  \A w \in Workers : answer[w] \in Specs => answer[w] = spec[w]

CacheInv ==
  TypeOK /\ EntriesFit /\ MapIsThere /\ LocksAreHeld /\ GraphIsOfTheSpec

(* Nobody else is at any map while a worker writes one, and neither a       *)
(* reader nor a writer finds that there is no map: the runtime would abort  *)
(* the process for the first, and panic for the second.                     *)
Accessing == {w \in Workers : pc[w] \in {"lookup", "store"}}

AccessIsExclusive ==
  \A w \in Accessing :
    /\ dagCache # Nil
    /\ pc[w] = "store" => Accessing = {w}

(* Graphs are thrown away only while the controller starts.  Some workers   *)
(* found no map and will each put a new one in the place of whatever there  *)
(* is by then: nobody joins them once there is a map, and every time that   *)
(* graphs are lost one of them leaves.                                      *)
Late == {w \in Workers : pc[w] = "make"}

Cached(k) == dagCache # Nil /\ maps[dagCache][k] # Nil

ForgetsOnlyAtStart ==
  [][dagCache # Nil /\ dagCache' # Nil =>
       /\ Late' \subseteq Late
       /\ (\E k \in Keys : Cached(k) /\ ~Cached(k)') => Late' # Late]_vars

(* No call waits for ever: every lock that is taken is given back.          *)
CallsReturn == \A w \in Workers : pc[w] # "idle" ~> pc[w] = "idle"
=============================================================================
