-------------------------- MODULE EventHandlerProofs --------------------------
(***************************************************************************)
(* Proofs about EventHandler, for any deployments and any number of posted *)
(* events.                                                                 *)
(***************************************************************************)
EXTENDS EventHandler, TLAPS

\* ServeHTTP has started nothing before it takes the lock.
NothingStarted ==
  \A r \in Requests : serve[r] = "posted" => Started(r) = {}

\* A goroutine exists only after an iteration has assigned the loop variable.
AssignedBeforeStart ==
  \A r \in Requests, id \in Deployments :
    goroutine[r][id] # NotStarted => f[r] \in Deployments

IInv == TypeOK /\ NothingStarted /\ AssignedBeforeStart /\ RegistryStable

\* What a started goroutine holds is never the mark of one not started.
LEMMA MarksDiffer == Ready # NotStarted /\ \A id \in Deployments : id # NotStarted
  BY EventHandlerAssumption DEF Ready, NotStarted

\* The initial states of the registry satisfy the inductive invariant.
LEMMA InitEstablishes == Init => IInv
  <1> SUFFICES ASSUME Init PROVE IInv
    OBVIOUS
  <1>1. TypeOK
    BY DEF Init, TypeOK
  <1>2. \A r \in Requests : Started(r) = {}
    BY DEF Init, Started
  <1>3. AssignedBeforeStart
    BY DEF Init, AssignedBeforeStart
  <1> QED
    BY <1>1, <1>2, <1>3 DEF Init, IInv, NothingStarted, RegistryStable

\* Register and Unregister need the write lock, so no loop is under way.
LEMMA RegistrationPreserves ==
  ASSUME IInv, NEW id \in Deployments,
         RegisterUplinkEventFunc(id) \/ UnregisterUplinkEventFunc(id)
  PROVE  IInv'
  <1>1. /\ LockAvailable
        /\ UNCHANGED <<serve, left, f, goroutine>>
        /\ \/ eventHandlers' = eventHandlers \cup {id}
           \/ eventHandlers' = eventHandlers \ {id}
        /\ \/ running' = [running EXCEPT ![id] = "running"]
           \/ running' = [running EXCEPT ![id] = "returned"]
    BY DEF RegisterUplinkEventFunc, UnregisterUplinkEventFunc
  <1>2. TypeOK'
    BY <1>1 DEF IInv, TypeOK
  <1>3. NothingStarted' /\ AssignedBeforeStart'
    BY <1>1 DEF IInv, NothingStarted, AssignedBeforeStart, Started
  <1>4. RegistryStable'
    BY <1>1 DEF LockAvailable, RegistryStable
  <1> QED
    BY <1>2, <1>3, <1>4 DEF IInv

\* ServeHTTP takes the lock with an empty set of goroutines, and leaves.
LEMMA ServePreserves ==
  ASSUME IInv, NEW r \in Requests, ServeHTTP(r) \/ ReturnFromServeHTTP(r)
  PROVE  IInv'
  <1>1. ASSUME NEW q \in Requests PROVE Started(q)' = Started(q)
    BY DEF ServeHTTP, ReturnFromServeHTTP, Started
  <1>2. TypeOK'
    BY DEF ServeHTTP, ReturnFromServeHTTP, IInv, TypeOK
  <1>3. NothingStarted'
    BY <1>1 DEF ServeHTTP, ReturnFromServeHTTP, IInv, TypeOK, NothingStarted
  <1>4. AssignedBeforeStart'
    BY DEF ServeHTTP, ReturnFromServeHTTP, IInv, AssignedBeforeStart
  <1>5. RegistryStable'
    BY <1>1 DEF ServeHTTP, ReturnFromServeHTTP, IInv, TypeOK, NothingStarted,
                RegistryStable
  <1> QED
    BY <1>2, <1>3, <1>4, <1>5 DEF IInv

\* An iteration moves its id from what is left to what is started.
LEMMA StartPreserves ==
  ASSUME IInv, NEW r \in Requests, NEW id \in Deployments, StartGoroutine(r, id)
  PROVE  IInv'
  <1>1. ASSUME NEW q \in Requests
        PROVE  Started(q)' = IF q = r THEN Started(r) \cup {id} ELSE Started(q)
    BY MarksDiffer DEF StartGoroutine, IInv, TypeOK, Started
  <1>2. ASSUME NEW q \in Requests
        PROVE  left'[q] = IF q = r THEN left[r] \ {id} ELSE left[q]
    BY DEF StartGoroutine, IInv, TypeOK
  <1>3. TypeOK'
    BY DEF StartGoroutine, LoopVar, IInv, TypeOK
  <1>4. NothingStarted'
    BY <1>1 DEF StartGoroutine, IInv, NothingStarted
  <1>5. AssignedBeforeStart'
    BY DEF StartGoroutine, LoopVar, IInv, TypeOK, AssignedBeforeStart
  <1>6. RegistryStable'
    <2> SUFFICES ASSUME NEW q \in Requests, serve'[q] = "loop"
                 PROVE  Started(q)' \cup left'[q] = eventHandlers'
      BY DEF RegistryStable
    <2>1. Started(q) \cup left[q] = eventHandlers /\ eventHandlers' = eventHandlers
      BY DEF StartGoroutine, IInv, RegistryStable
    <2>2. CASE q = r
      BY <2>1, <2>2, <1>1, <1>2 DEF StartGoroutine
    <2>3. CASE q # r
      BY <2>1, <2>3, <1>1, <1>2
    <2> QED
      BY <2>2, <2>3
  <1> QED
    BY <1>3, <1>4, <1>5, <1>6 DEF IInv

\* A goroutine that reads the shared loop variable finds some function in it.
LEMMA CallPreserves ==
  ASSUME IInv, NEW r \in Requests, NEW id \in Deployments, Call(r, id)
  PROVE  IInv'
  <1>1. f[r] \in Deployments
    BY MarksDiffer DEF Call, IInv, AssignedBeforeStart
  <1>2. TypeOK'
    BY <1>1 DEF Call, IInv, TypeOK
  <1>3. ASSUME NEW q \in Requests, NEW i \in Deployments
        PROVE  goroutine'[q][i] = NotStarted <=> goroutine[q][i] = NotStarted
    BY <1>1, MarksDiffer DEF Call, IInv, TypeOK
  <1>4. ASSUME NEW q \in Requests PROVE Started(q)' = Started(q)
    BY <1>3 DEF Started
  <1>5. NothingStarted' /\ RegistryStable'
    BY <1>4 DEF Call, IInv, NothingStarted, RegistryStable
  <1>6. AssignedBeforeStart'
    BY <1>3 DEF Call, IInv, AssignedBeforeStart
  <1> QED
    BY <1>2, <1>5, <1>6 DEF IInv

\* Every step keeps the inductive invariant.
LEMMA NextPreserves == IInv /\ [Next]_vars => IInv'
  <1> SUFFICES ASSUME IInv, [Next]_vars PROVE IInv'
    OBVIOUS
  <1>1. CASE \E id \in Deployments :
               RegisterUplinkEventFunc(id) \/ UnregisterUplinkEventFunc(id)
    BY <1>1, RegistrationPreserves
  <1>2. ASSUME NEW r \in Requests, Step(r) PROVE IInv'
    BY <1>2, ServePreserves, StartPreserves, CallPreserves DEF Step
  <1>3. CASE UNCHANGED vars
    BY <1>3 DEF vars, IInv, TypeOK, NothingStarted, AssignedBeforeStart,
                RegistryStable, Started
  <1> QED
    BY <1>1, <1>2, <1>3 DEF Next

\* The map of registered functions does not change under the loop of ServeHTTP
\* that ranges over it, with any number of events and of deployments that come
\* and go: the write lock waits for every read lock.
THEOREM RegistryIsStable == Spec => []RegistryStable
  <1>1. IInv => RegistryStable
    BY DEF IInv
  <1> QED
    BY <1>1, InitEstablishes, NextPreserves, PTL DEF Spec
=============================================================================
