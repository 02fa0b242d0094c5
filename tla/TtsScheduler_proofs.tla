------------------------ MODULE TtsScheduler_proofs ------------------------
(***************************************************************************)
(* The scheduler of speech requests, for any number of requests, workers,  *)
(* permits and retries: the invariant Inv is inductive, and the safety     *)
(* properties of TtsScheduler follow from it.                              *)
(***************************************************************************)
EXTENDS TtsScheduler, FiniteSetTheorems, TLAPS

\* A request is tried once more than it may be retried, so one that may still
\* be called has not used its last attempt.
Tries ==
    \A r \in Requests :
      /\ place[r] \in {"idle", "admission"} => attempts[r] = 0
      /\ place[r] \in {"ready", "delayed", "retry"} => attempts[r] <= MaxRetries

\* How the runtime and the progress of close go together.
Phases ==
    /\ runtime = "none" => batch # "running" /\ \A r \in Requests : place[r] = "idle"
    /\ closer # "open" => cancelled
    /\ runtime = "closed" => closer \in {"draining", "done", "expired"}
    /\ closer \in {"workers", "accepts"} => runtime = "open"
    /\ closer = "accepts" => \A w \in Workers : worker[w] = "ended"
    /\ ~Running => /\ \A r \in Requests : place[r] \in {"idle", "gone"}
                   /\ \A w \in Workers : worker[w] = "ended"

\* The inductive invariant.
Inv ==
    /\ TypeOK
    /\ Tries
    /\ Phases
    /\ AdmissionBalanced
    /\ OnePlace
    /\ NothingLeftBehind
    /\ ClosedQuiet

-----------------------------------------------------------------------------
(* Counting *)

\* Requests that leave the scheduler make the count of those in it smaller by
\* as many.
LEMMA FewerHeld ==
    ASSUME NEW H, NEW S, IsFiniteSet(H), S \subseteq H
    PROVE  /\ Cardinality(H) \in Nat /\ Cardinality(S) \in Nat
           /\ Cardinality(H \ S) = Cardinality(H) - Cardinality(S)
<1>1. IsFiniteSet(S) /\ IsFiniteSet(H \ S)
  BY FS_Subset, FS_Difference
<1>2. Cardinality(H) \in Nat /\ Cardinality(S) \in Nat /\ Cardinality(H \ S) \in Nat
  BY <1>1, FS_CardinalityType
<1>3. H \cap S = S
  OBVIOUS
<1> QED
  BY <1>2, <1>3, FS_Difference

\* The requests in the scheduler are finitely many.
LEMMA HeldFinite == IsFiniteSet(Held) /\ Cardinality(Held) \in Nat
<1>1. Held \subseteq Requests
  BY DEF Held
<1> QED
  BY <1>1, RequestsAssumption, FS_Subset, FS_CardinalityType

\* The same set, held before and after a step, has the same size.
LEMMA SameHeld ==
    ASSUME Running, AdmissionBalanced, permits' = permits, Held' = Held
    PROVE  AdmissionBalanced'
BY DEF AdmissionBalanced

\* _finish of requests that are in the scheduler: each gives its admission back
\* and has its outcome.
LEMMA FinishBalances ==
    ASSUME TypeOK, Running, AdmissionBalanced, OnePlace,
           NEW S \in SUBSET Held, NEW o \in Outcomes \ {"none"},
           Finish(S, o), Held' = Held \ S
    PROVE  /\ AdmissionBalanced'
           /\ permits' \in 0 .. Capacity
           /\ outcome' \in [Requests -> Outcomes]
           /\ \A r \in Requests : outcome'[r] # "none" <=> (r \in S \/ outcome[r] # "none")
<1>1. {r \in S : outcome[r] = "none"} = S
  BY DEF OnePlace, Held
<1>2. permits' = permits + Cardinality(S)
  BY <1>1 DEF Finish
<1>3. Cardinality(Held') = Cardinality(Held) - Cardinality(S) /\ Cardinality(S) \in Nat
  BY HeldFinite, FewerHeld
<1>4. permits + Cardinality(Held) = Capacity /\ permits \in Nat /\ Cardinality(Held) \in Nat
  BY HeldFinite DEF AdmissionBalanced, TypeOK
<1>5. Cardinality(Held') \in Nat
  <2>1. IsFiniteSet(Held \ S)
    BY HeldFinite, FS_Difference
  <2> QED
    BY <2>1, FS_CardinalityType
<1>6. permits' + Cardinality(Held') = Capacity
  BY <1>2, <1>3, <1>4
<1>7. permits' \in 0 .. Capacity
  BY <1>2, <1>3, <1>4, <1>5, <1>6, LimitsAssumption
<1>8. /\ outcome' \in [Requests -> Outcomes]
      /\ \A r \in Requests : outcome'[r] # "none" <=> (r \in S \/ outcome[r] # "none")
  BY DEF Finish, TypeOK, Held
<1> QED
  BY <1>6, <1>7, <1>8 DEF AdmissionBalanced

-----------------------------------------------------------------------------
(* The invariant holds, and every step keeps it *)

LEMMA InitInv == Init => Inv
<1> SUFFICES ASSUME Init PROVE Inv
  OBVIOUS
<1>1. TypeOK
  <2>1. Capacity \in 0 .. Capacity /\ 0 \in 0 .. MaxRetries + 1
    BY LimitsAssumption
  <2> QED
    BY <2>1 DEF Init, TypeOK, Places, Outcomes, Idle, Closers, Errors
<1>2. Tries /\ Phases
  BY LimitsAssumption DEF Init, Tries, Phases, Running
<1>3. AdmissionBalanced
  <2>1. Held = {}
    BY DEF Held, Init
  <2> QED
    BY <2>1, FS_EmptySet, LimitsAssumption DEF AdmissionBalanced, Init
<1>4. OnePlace /\ NothingLeftBehind /\ ClosedQuiet
  BY NamesAssumption DEF Init, OnePlace, NothingLeftBehind, ClosedQuiet, Queued, Ready, Delayed
<1> QED
  BY <1>1, <1>2, <1>3, <1>4 DEF Inv

\* Steps that move no request: the service's calls, the timers and the join.
LEMMA QuietInv ==
    ASSUME Inv,
           \/ Synthesize \/ EnsureRuntime \/ Cancel \/ Close \/ JoinWorkers
           \/ (\E w \in Workers : WaitEnds(w)) \/ (\E r \in Requests : Tick(r))
    PROVE  Inv'
<1> USE DEF Inv
<1>1. UNCHANGED <<place, outcome, attempts, permits>>
  BY DEF Synthesize, EnsureRuntime, Cancel, Close, JoinWorkers, WaitEnds, Tick
<1>2. Held' = Held /\ Queued' = Queued
  BY <1>1 DEF Held, Queued, Ready, Delayed
<1>3. Running' => Running
  BY DEF Running, Synthesize, EnsureRuntime, Cancel, Close, JoinWorkers, WaitEnds, Tick
<1>4. AdmissionBalanced'
  BY <1>1, <1>2, <1>3 DEF AdmissionBalanced
<1>5. Tries'
  BY <1>1 DEF Tries
<1>6. TypeOK' /\ Phases' /\ OnePlace' /\ NothingLeftBehind' /\ ClosedQuiet'
  <2>1. CASE Synthesize
    BY <2>1, <1>2 DEF Synthesize, TypeOK, Phases, OnePlace, NothingLeftBehind, ClosedQuiet, Running, Stopping
  <2>2. CASE EnsureRuntime
    BY <2>2, <1>2 DEF EnsureRuntime, TypeOK, Phases, OnePlace, NothingLeftBehind, ClosedQuiet, Running, Stopping
  <2>3. CASE Cancel
    <3>1. runtime = "none" => Queued = {}
      BY DEF Phases, Queued, Ready, Delayed
    <3> QED
      BY <2>3, <3>1, <1>2 DEF Cancel, TypeOK, Phases, OnePlace, NothingLeftBehind, ClosedQuiet, Running, Stopping
  <2>4. CASE Close
    BY <2>4, <1>2 DEF Close, TypeOK, Phases, OnePlace, NothingLeftBehind, ClosedQuiet, Running, Stopping, Closers
  <2>5. CASE JoinWorkers
    BY <2>5, <1>2 DEF JoinWorkers, TypeOK, Phases, OnePlace, NothingLeftBehind, ClosedQuiet, Running, Stopping, Closers
  <2>6. CASE \E w \in Workers : WaitEnds(w)
    BY <2>6, <1>2, NamesAssumption
    DEF WaitEnds, TypeOK, Phases, OnePlace, NothingLeftBehind, ClosedQuiet, Running, Stopping, Idle
  <2>7. CASE \E r \in Requests : Tick(r)
    BY <2>7, <1>2 DEF Tick, TypeOK, Phases, OnePlace, NothingLeftBehind, ClosedQuiet, Running, Stopping
  <2> QED
    BY <2>1, <2>2, <2>3, <2>4, <2>5, <2>6, <2>7
<1> QED
  BY <1>4, <1>5, <1>6

\* submit: up to the semaphore, and what the semaphore lets in.
LEMMA SubmitInv == ASSUME Inv, NEW r \in Requests, Submit(r) PROVE Inv'
<1> USE DEF Inv
<1>1. TypeOK'
  BY DEF Submit, TypeOK, Places
<1>2. Tries' /\ Phases'
  BY DEF Submit, TypeOK, Tries, Phases, Running
<1>3. Held' = Held /\ Queued' = Queued
  BY DEF Submit, TypeOK, Held, Queued, Ready, Delayed
<1>4. AdmissionBalanced'
  BY <1>3, SameHeld DEF Submit
<1>5. OnePlace' /\ NothingLeftBehind' /\ ClosedQuiet'
  BY <1>3 DEF Submit, TypeOK, OnePlace, NothingLeftBehind, ClosedQuiet, Running, Stopping
<1> QED
  BY <1>1, <1>2, <1>4, <1>5

LEMMA AdmitInv == ASSUME Inv, NEW r \in Requests, Admit(r) PROVE Inv'
<1> USE DEF Inv
<1>1. Running /\ Running' /\ place[r] = "admission" /\ r \notin Held
  BY DEF Admit, Running, Held
<1>2. CASE AdmissionError # "none"
  <2>1. AdmissionError \in Outcomes
    BY DEF AdmissionError, Outcomes, Errors, TypeOK
  <2>2. /\ outcome' = [outcome EXCEPT ![r] = AdmissionError]
        /\ place' = [place EXCEPT ![r] = "gone"]
        /\ UNCHANGED <<permits, retried, worker, attempts, due, circuit, cancelled,
                       sweep, runtime, batch, closer>>
    BY <1>2 DEF Admit
  <2>3. TypeOK'
    BY <2>1, <2>2 DEF TypeOK, Places
  <2>4. Held' = Held /\ Queued' = Queued
    BY <1>1, <2>2 DEF TypeOK, Held, Queued, Ready, Delayed
  <2>5. AdmissionBalanced'
    BY <1>1, <2>2, <2>4, SameHeld
  <2>6. Tries' /\ Phases'
    BY <1>1, <2>2 DEF TypeOK, Tries, Phases, Running
  <2>7. OnePlace'
    BY <1>1, <1>2, <2>2 DEF TypeOK, OnePlace
  <2>8. NothingLeftBehind' /\ ClosedQuiet'
    BY <1>1, <2>2, <2>4 DEF TypeOK, NothingLeftBehind, ClosedQuiet, Running, Stopping
  <2> QED
    BY <2>3, <2>5, <2>6, <2>7, <2>8
<1>3. CASE AdmissionError = "none"
  <2>1. ~Stopping /\ ~cancelled
    BY <1>3 DEF AdmissionError
  <2>2. /\ place' = [place EXCEPT ![r] = "ready"]
        /\ retried' = [retried EXCEPT ![r] = FALSE]
        /\ permits > 0
        /\ permits' = permits - 1
        /\ worker' = NotifyAll(worker)
        /\ UNCHANGED <<outcome, attempts, due, circuit, cancelled, sweep, runtime, batch, closer>>
    BY <1>3 DEF Admit
  <2>3. TypeOK'
    <3>1. permits' \in 0 .. Capacity
      BY <2>2, LimitsAssumption DEF TypeOK
    <3> QED
      BY <2>2, <3>1 DEF TypeOK, Places, NotifyAll, Idle
  <2>4. Held' = Held \cup {r}
    BY <1>1, <2>2 DEF TypeOK, Held
  <2>5. AdmissionBalanced'
    <3>1. Cardinality(Held') = Cardinality(Held) + 1 /\ Cardinality(Held) \in Nat
      BY <1>1, <2>4, HeldFinite, FS_AddElement
    <3> QED
      BY <1>1, <2>2, <3>1, LimitsAssumption DEF AdmissionBalanced, TypeOK
  <2>6. Tries' /\ Phases'
    BY <1>1, <2>1, <2>2, LimitsAssumption DEF TypeOK, Tries, Phases, Running, NotifyAll, Stopping
  <2>7. OnePlace'
    BY <1>1, <2>2, NamesAssumption DEF TypeOK, OnePlace, NotifyAll, Idle
  <2>8. NothingLeftBehind' /\ ClosedQuiet'
    BY <1>1, <2>1, <2>2 DEF TypeOK, NothingLeftBehind, ClosedQuiet, Running, Stopping
  <2> QED
    BY <2>3, <2>5, <2>6, <2>7, <2>8
<1> QED
  BY <1>2, <1>3

\* What every step that finishes the requests of S keeps: the workers give S
\* up and otherwise hold what they held.
Releases(S) ==
    /\ worker' \in [Workers -> Requests \cup Idle]
    /\ \A w \in Workers : worker'[w] \in Requests => worker'[w] = worker[w] /\ worker[w] \notin S
    /\ \A w \in Workers : worker[w] \in Requests \ S => worker'[w] = worker[w]
    /\ \A w \in Workers : worker[w] = "ended" => worker'[w] = "ended"

LEMMA FinishInv ==
    ASSUME Inv, Running, Running',
           NEW S \in SUBSET Held, NEW o \in Outcomes \ {"none"},
           Finish(S, o), place' = Gone(S), attempts' = attempts, Releases(S)
    PROVE  /\ place' \in [Requests -> Places]
           /\ outcome' \in [Requests -> Outcomes]
           /\ permits' \in 0 .. Capacity
           /\ Queued' = Queued \ S
           /\ Tries' /\ AdmissionBalanced' /\ OnePlace'
<1> USE DEF Inv
<1>1. S \subseteq Requests
  BY DEF Held
<1>2. /\ place' \in [Requests -> Places]
      /\ \A r \in Requests : place'[r] = IF r \in S THEN "gone" ELSE place[r]
  BY DEF Gone, TypeOK, Places
<1>3. Held' = Held \ S /\ Queued' = Queued \ S
  BY <1>1, <1>2 DEF Held, Queued, Ready, Delayed
<1>4. /\ AdmissionBalanced'
      /\ permits' \in 0 .. Capacity
      /\ outcome' \in [Requests -> Outcomes]
      /\ \A r \in Requests : outcome'[r] # "none" <=> (r \in S \/ outcome[r] # "none")
  BY <1>3, FinishBalances
<1>5. Tries'
  BY <1>2 DEF Tries
<1>6. OnePlace'
  <2>1. \A r \in Requests : outcome'[r] # "none" <=> place'[r] = "gone"
    BY <1>2, <1>4 DEF OnePlace
  <2>2. \A w \in Workers : worker'[w] \in Requests => place'[worker'[w]] \in {"call", "retry"}
    BY <1>2 DEF OnePlace, Releases
  <2>3. \A r \in Requests : place'[r] = "call" => \E w \in Workers : worker'[w] = r
    <3> SUFFICES ASSUME NEW r \in Requests, place'[r] = "call"
                 PROVE  \E w \in Workers : worker'[w] = r
      OBVIOUS
    <3>1. r \notin S /\ place[r] = "call"
      BY <1>2
    <3>2. PICK w \in Workers : worker[w] = r
      BY <3>1 DEF OnePlace
    <3> QED
      BY <3>1, <3>2 DEF Releases
  <2>4. \A v, w \in Workers : worker'[v] = worker'[w] /\ worker'[v] \in Requests => v = w
    BY DEF OnePlace, Releases
  <2> QED
    BY <2>1, <2>2, <2>3, <2>4 DEF OnePlace
<1> QED
  BY <1>2, <1>3, <1>4, <1>5, <1>6

\* The workers after notify_all, and after a request was taken from its worker.
LEMMA WorkersReleased ==
    ASSUME TypeOK, OnePlace, Running
    PROVE  /\ worker' = NotifyAll(worker) => \A S \in SUBSET Queued : Releases(S)
           /\ worker' = worker => \A S \in SUBSET Queued : Releases(S)
           /\ \A r \in Requests : worker' = Freed(r) => \A S \in SUBSET Queued : Releases({r} \cup S)
           /\ \A r \in Requests : worker' = NotifyAll(Freed(r)) => \A S \in SUBSET Queued : Releases({r} \cup S)
<1>1. \A S \in SUBSET Queued, w \in Workers : worker[w] \notin S
  BY DEF OnePlace, Queued, Ready, Delayed
<1> QED
  BY <1>1, NamesAssumption DEF TypeOK, Releases, NotifyAll, Freed, Idle

-----------------------------------------------------------------------------
(* The sweeps: cancel_pending, and close before and after the workers end *)

LEMMA QueuedHeld == Queued \subseteq Held /\ Queued \in SUBSET Queued
BY DEF Queued, Ready, Delayed, Held

LEMMA CancelPendingInv == ASSUME Inv, CancelPending PROVE Inv'
<1> USE DEF Inv
<1>1. Running /\ Running' /\ Releases(Queued)
  BY QueuedHeld, WorkersReleased DEF CancelPending, Running
<1>2. "cancelled" \in Outcomes \ {"none"}
  BY DEF Outcomes
<1>3. /\ place' \in [Requests -> Places]
      /\ outcome' \in [Requests -> Outcomes]
      /\ permits' \in 0 .. Capacity
      /\ Queued' = Queued \ Queued
      /\ Tries' /\ AdmissionBalanced' /\ OnePlace'
  BY <1>1, <1>2, QueuedHeld, FinishInv DEF CancelPending
<1>4. TypeOK'
  BY <1>1, <1>3 DEF CancelPending, TypeOK, Releases
<1>5. Phases'
  BY <1>1 DEF CancelPending, Phases, Running, Releases, Gone, Queued, Ready, Delayed
<1>6. NothingLeftBehind' /\ ClosedQuiet'
  BY <1>1, <1>3 DEF CancelPending, NothingLeftBehind, ClosedQuiet, Releases, Gone
<1> QED
  BY <1>3, <1>4, <1>5, <1>6

LEMMA CloseSchedulerInv == ASSUME Inv, CloseScheduler PROVE Inv'
<1> USE DEF Inv
<1>1. Running /\ Running' /\ Releases(Queued)
  BY QueuedHeld, WorkersReleased DEF CloseScheduler, Running
<1>2. "cancelled" \in Outcomes \ {"none"}
  BY DEF Outcomes
<1>3. /\ place' \in [Requests -> Places]
      /\ outcome' \in [Requests -> Outcomes]
      /\ permits' \in 0 .. Capacity
      /\ Queued' = Queued \ Queued
      /\ Tries' /\ AdmissionBalanced' /\ OnePlace'
  BY <1>1, <1>2, QueuedHeld, FinishInv DEF CloseScheduler
<1>4. TypeOK'
  BY <1>1, <1>3 DEF CloseScheduler, TypeOK, Releases, Closers
<1>5. Phases'
  BY <1>1 DEF CloseScheduler, TypeOK, Phases, Running, Releases, Gone, Queued, Ready, Delayed
<1>6. NothingLeftBehind' /\ ClosedQuiet'
  BY <1>1, <1>3 DEF CloseScheduler, Phases, NothingLeftBehind, ClosedQuiet, Releases, Gone
<1> QED
  BY <1>3, <1>4, <1>5, <1>6

LEMMA CloseEngineInv == ASSUME Inv, CloseEngine PROVE Inv'
<1> USE DEF Inv
<1>1. Running /\ Running' /\ Releases(Queued)
  BY QueuedHeld, WorkersReleased DEF CloseEngine, Running
<1>2. "cancelled" \in Outcomes \ {"none"}
  BY DEF Outcomes
<1>3. /\ place' \in [Requests -> Places]
      /\ outcome' \in [Requests -> Outcomes]
      /\ permits' \in 0 .. Capacity
      /\ Queued' = Queued \ Queued
      /\ Tries' /\ AdmissionBalanced' /\ OnePlace'
  BY <1>1, <1>2, QueuedHeld, FinishInv DEF CloseEngine
<1>4. TypeOK'
  BY <1>1, <1>3 DEF CloseEngine, TypeOK, Releases, Closers
<1>5. Phases'
  BY <1>1 DEF CloseEngine, TypeOK, Phases, Running, Releases, Gone, Queued, Ready, Delayed
\* No worker is left and no accept task, so no request is under way.
<1>6. \A w \in Workers : worker[w] = "ended"
  BY DEF CloseEngine, Phases
<1>7. \A r \in Requests : place[r] \notin {"call", "accept", "retry"}
  BY <1>1, <1>6, NamesAssumption DEF CloseEngine, AcceptsJoined, OnePlace
<1>8. \A r \in Requests : place'[r] \in {"idle", "admission", "gone"}
  BY <1>7 DEF CloseEngine, Gone, TypeOK, Places, Queued, Ready, Delayed
<1>9. NothingLeftBehind' /\ ClosedQuiet'
  BY <1>3, <1>6, <1>8 DEF CloseEngine, NothingLeftBehind, ClosedQuiet
<1> QED
  BY <1>3, <1>4, <1>5, <1>9

LEMMA StopLoopInv == ASSUME Inv, StopLoop PROVE Inv'
<1> USE DEF Inv
<1>1. Running /\ ~Running'
  BY DEF StopLoop, Running
<1>2. \A r \in Requests :
         place'[r] = IF place[r] \in {"idle", "gone"} THEN place[r] ELSE "gone"
  BY DEF StopLoop, Gone
<1>3. TypeOK'
  BY DEF StopLoop, Gone, TypeOK, Places, Outcomes, Idle, Closers
<1>4. Tries' /\ Phases'
  BY <1>1, <1>2 DEF StopLoop, TypeOK, Tries, Phases, Running
<1>5. AdmissionBalanced' /\ OnePlace' /\ NothingLeftBehind'
  BY <1>1 DEF AdmissionBalanced, OnePlace, NothingLeftBehind
<1>6. ClosedQuiet'
  BY <1>2 DEF StopLoop, ClosedQuiet
<1> QED
  BY <1>3, <1>4, <1>5, <1>6

-----------------------------------------------------------------------------
(* The workers and the accept tasks *)

\* A request that is called, accepted or on its way to a retry is in the
\* scheduler, the engine is open, and nothing of it is finished.
LEMMA UnderWay ==
    ASSUME Inv, Running, NEW r \in Requests, place[r] \in {"call", "accept", "retry"}
    PROVE  /\ r \in Held /\ r \notin Queued
           /\ runtime = "open"
           /\ closer # "accepts" \/ place[r] # "call"
<1>1. closer = "accepts" => place[r] # "call"
  BY NamesAssumption DEF Inv, Phases, OnePlace
<1> QED
  BY <1>1 DEF Inv, TypeOK, Phases, ClosedQuiet, Held, Queued, Ready, Delayed

\* A step that finishes one request under way.
LEMMA EndInv ==
    ASSUME Inv, Running, NEW r \in Requests, place[r] \in {"call", "accept", "retry"},
           NEW o \in Outcomes \ {"none"}, NEW S \in SUBSET Queued,
           Finish({r} \cup S, o), place' = Gone({r} \cup S),
           worker' = Freed(r) \/ worker' = NotifyAll(Freed(r)),
           circuit' \in Errors \cup {"none"},
           UNCHANGED <<attempts, retried, due, cancelled, sweep, runtime, batch, closer>>
    PROVE  Inv'
<1> USE DEF Inv
<1>1. Running' /\ Releases({r} \cup S)
  BY WorkersReleased DEF Running
<1>2. {r} \cup S \in SUBSET Held
  BY UnderWay, QueuedHeld
<1>3. /\ place' \in [Requests -> Places]
      /\ outcome' \in [Requests -> Outcomes]
      /\ permits' \in 0 .. Capacity
      /\ Queued' = Queued \ ({r} \cup S)
      /\ Tries' /\ AdmissionBalanced' /\ OnePlace'
  BY <1>1, <1>2, FinishInv
<1>4. TypeOK'
  BY <1>1, <1>3 DEF TypeOK, Releases
<1>5. Phases'
  BY <1>1, UnderWay DEF Phases, Running, Releases
<1>6. NothingLeftBehind' /\ ClosedQuiet'
  BY <1>1, <1>3, UnderWay DEF NothingLeftBehind, ClosedQuiet, Running, Stopping
<1> QED
  BY <1>3, <1>4, <1>5, <1>6

LEMMA CallReturnsInv == ASSUME Inv, NEW r \in Requests, CallReturns(r) PROVE Inv'
<1> USE DEF Inv
<1>1. Running /\ Running' /\ place[r] = "call"
  BY DEF CallReturns, Running
<1>2. /\ \A s \in Requests : place'[s] = IF s = r THEN "accept" ELSE place[s]
      /\ \A w \in Workers : worker'[w] = IF worker[w] = r THEN "awake" ELSE worker[w]
  BY DEF CallReturns, Freed, TypeOK
<1>3. TypeOK'
  BY DEF CallReturns, Freed, TypeOK, Places, Idle
<1>4. Held' = Held /\ Queued' = Queued
  BY <1>1, <1>2 DEF Held, Queued, Ready, Delayed
<1>5. AdmissionBalanced'
  BY <1>1, <1>4, SameHeld DEF CallReturns
<1>6. Tries' /\ Phases'
  BY <1>1, <1>2, UnderWay DEF CallReturns, Tries, Phases, Running
<1>7. OnePlace'
  BY <1>1, <1>2, NamesAssumption DEF CallReturns, OnePlace
<1>8. NothingLeftBehind' /\ ClosedQuiet'
  BY <1>1, <1>2, <1>4, UnderWay DEF CallReturns, NothingLeftBehind, ClosedQuiet, Running, Stopping
<1> QED
  BY <1>3, <1>5, <1>6, <1>7, <1>8

LEMMA InterruptedInv == ASSUME Inv, NEW r \in Requests, Interrupted(r) PROVE Inv'
<1>1. {r} \cup {} = {r} /\ {} \in SUBSET Queued
  OBVIOUS
<1>2. "cancelled" \in Outcomes \ {"none"} /\ circuit \in Errors \cup {"none"}
  BY DEF Outcomes, Inv, TypeOK
<1> QED
  BY <1>1, <1>2, EndInv DEF Interrupted

LEMMA AcceptedInv == ASSUME Inv, NEW r \in Requests, Accepted(r) PROVE Inv'
<1>1. {r} \cup {} = {r} /\ {} \in SUBSET Queued
  OBVIOUS
<1>2. /\ (IF cancelled THEN "cancelled" ELSE "result") \in Outcomes \ {"none"}
      /\ circuit \in Errors \cup {"none"}
  BY DEF Outcomes, Inv, TypeOK
\* no worker holds a request whose result is being accepted
<1>3. worker = Freed(r)
  BY DEF Accepted, Freed, Inv, TypeOK, OnePlace
<1> QED
  BY <1>1, <1>2, <1>3, EndInv DEF Accepted

LEMMA FailedInv == ASSUME Inv, NEW r \in Requests, NEW e \in Errors, Failed(r, e) PROVE Inv'
<1> DEFINE opened == OpensCircuit(e) /\ circuit = "none"
           S == IF opened THEN Queued ELSE {}
<1>1. /\ S \in SUBSET Queued
      /\ Finish({r} \cup S, e) /\ place' = Gone({r} \cup S)
      /\ circuit' \in Errors \cup {"none"}
  <2>1. S \in SUBSET Queued
    OBVIOUS
  <2>2. Finish({r} \cup S, e) /\ place' = Gone({r} \cup S)
    BY DEF Failed
  <2>3. circuit' \in Errors \cup {"none"}
    BY DEF Failed, Inv, TypeOK
  <2> QED
    BY <2>1, <2>2, <2>3
<1>2. e \in Outcomes \ {"none"}
  BY DEF Outcomes, Errors
<1>3. worker' = Freed(r) \/ worker' = NotifyAll(Freed(r))
  BY DEF Failed
<1> HIDE DEF S
<1> QED
  BY <1>1, <1>2, <1>3, EndInv DEF Failed

LEMMA RetryScheduledInv == ASSUME Inv, NEW r \in Requests, RetryScheduled(r) PROVE Inv'
<1> USE DEF Inv
<1>1. Running /\ Running' /\ place[r] \in {"call", "accept"} /\ attempts[r] <= MaxRetries
  BY DEF RetryScheduled, Running, MayRetry
<1>2. CASE RetryAllowed
  <2>1. /\ \A s \in Requests : place'[s] = IF s = r THEN "retry" ELSE place[s]
        /\ UNCHANGED <<outcome, permits, worker, attempts, retried, due, circuit, cancelled,
                       sweep, runtime, batch, closer>>
    BY <1>2 DEF RetryScheduled, TypeOK
  <2>2. TypeOK'
    BY <1>2 DEF RetryScheduled, TypeOK, Places
  <2>3. Held' = Held /\ Queued' = Queued
    BY <1>1, <2>1 DEF Held, Queued, Ready, Delayed
  <2>4. AdmissionBalanced'
    BY <1>1, <2>1, <2>3, SameHeld
  <2>5. Tries' /\ Phases'
    BY <1>1, <2>1, UnderWay DEF Tries, Phases, Running
  <2>6. OnePlace'
    BY <1>1, <2>1 DEF OnePlace
  <2>7. NothingLeftBehind' /\ ClosedQuiet'
    BY <1>1, <2>1, <2>3, UnderWay DEF NothingLeftBehind, ClosedQuiet, Running, Stopping
  <2> QED
    BY <2>2, <2>4, <2>5, <2>6, <2>7
<1>3. CASE ~RetryAllowed
  <2>1. {r} \cup {} = {r} /\ {} \in SUBSET Queued
    OBVIOUS
  <2>2. "cancelled" \in Outcomes \ {"none"} /\ circuit \in Errors \cup {"none"}
    BY DEF Outcomes, TypeOK
  <2> QED
    BY <1>1, <1>3, <2>1, <2>2, EndInv DEF RetryScheduled
<1> QED
  BY <1>2, <1>3

LEMMA RetryQueuedInv == ASSUME Inv, NEW r \in Requests, RetryQueued(r) PROVE Inv'
<1> USE DEF Inv
<1>1. Running /\ Running' /\ place[r] = "retry" /\ attempts[r] <= MaxRetries
  BY DEF RetryQueued, Running, Tries
<1>2. CASE RetryAllowed
  <2>1. /\ \A s \in Requests : place'[s] = IF s = r THEN "delayed" ELSE place[s]
        /\ \A w \in Workers : \/ worker'[w] = "awake" /\ worker[w] # "ended"
                              \/ worker'[w] = worker[w] /\ worker[w] # r
        /\ \A w \in Workers : worker[w] \in Requests \ {r} => worker'[w] = worker[w]
        /\ UNCHANGED <<outcome, permits, attempts, retried, circuit, cancelled,
                       sweep, runtime, batch, closer>>
    BY <1>2, NamesAssumption DEF RetryQueued, TypeOK, NotifyAll, Freed
  <2>2. TypeOK'
    BY <1>2 DEF RetryQueued, TypeOK, Places, NotifyAll, Freed, Idle
  <2>3. Held' = Held
    BY <1>1, <2>1 DEF Held
  <2>4. AdmissionBalanced'
    BY <1>1, <2>1, <2>3, SameHeld
  <2>5. Tries'
    BY <1>1, <2>1 DEF Tries
  <2>6. ~Stopping /\ ~cancelled /\ ~Stopping' /\ ~cancelled'
    BY <1>2, <2>1 DEF RetryAllowed, Stopping
  <2>7. Phases'
    BY <1>1, <2>1, <2>6, UnderWay DEF Phases, Running, Stopping
  <2>8. OnePlace'
    BY <1>1, <2>1, NamesAssumption DEF OnePlace
  <2>9. NothingLeftBehind' /\ ClosedQuiet'
    BY <2>6 DEF NothingLeftBehind, ClosedQuiet, Stopping
  <2> QED
    BY <2>2, <2>4, <2>5, <2>7, <2>8, <2>9
<1>3. CASE ~RetryAllowed
  <2>1. {r} \cup {} = {r} /\ {} \in SUBSET Queued
    OBVIOUS
  <2>2. "cancelled" \in Outcomes \ {"none"} /\ circuit \in Errors \cup {"none"}
    BY DEF Outcomes, TypeOK
  <2> QED
    BY <1>1, <1>3, <2>1, <2>2, EndInv DEF RetryQueued
<1> QED
  BY <1>2, <1>3

\* A worker takes the first ready request, ends one that may not go out, waits
\* or ends; the retries that came due are ready in any case.
LEMMA NextWorkInv == ASSUME Inv, NEW w \in Workers, NextWork(w) PROVE Inv'
<1> USE DEF Inv
<1>1. Running /\ Running' /\ worker[w] = "awake"
  BY DEF NextWork, Running
<1>2. /\ Promoted \in [Requests -> Places]
      /\ \A r \in Requests : Promoted[r] = IF place[r] = "delayed" /\ due[r] THEN "ready" ELSE place[r]
  BY DEF Promoted, Due, Delayed, TypeOK, Places
<1>3. Retries \in [Requests -> BOOLEAN]
  BY DEF Retries, Due, Delayed, TypeOK
<1>4. runtime # "closed" /\ UNCHANGED <<due, circuit, cancelled, sweep, runtime, batch, closer>>
  BY <1>1 DEF NextWork, ClosedQuiet
<1>6. ASSUME place' = Promoted, retried' \in [Requests -> BOOLEAN],
             NEW i \in {"ended", "waiting", "timed"}, worker' = [worker EXCEPT ![w] = i],
             UNCHANGED <<outcome, attempts, permits>>
      PROVE  Inv'
  <2>1. TypeOK'
    BY <1>2, <1>4, <1>6 DEF TypeOK, Idle
  <2>2. Held' = Held /\ Queued' = Queued
    BY <1>2, <1>6 DEF Held, Queued, Ready, Delayed
  <2>3. AdmissionBalanced'
    BY <1>1, <1>6, <2>2, SameHeld
  <2>4. Tries'
    BY <1>2, <1>6 DEF Tries
  <2>5. Phases'
    BY <1>1, <1>2, <1>4, <1>6 DEF Phases, Running, TypeOK
  <2>6. OnePlace'
    BY <1>1, <1>2, <1>6, NamesAssumption DEF OnePlace, TypeOK
  <2>7. NothingLeftBehind' /\ ClosedQuiet'
    BY <1>1, <1>4, <2>2 DEF NothingLeftBehind, ClosedQuiet, Running, Stopping
  <2> QED
    BY <2>1, <2>3, <2>4, <2>5, <2>6, <2>7
<1>7. ASSUME NEW r \in Ready \cup Due, retried' = Retries, AdmissionError # "none",
             Finish({r}, AdmissionError), place' = [Promoted EXCEPT ![r] = "gone"],
             UNCHANGED <<worker, attempts>>
      PROVE  Inv'
  <2>1. r \in Requests /\ place[r] \in {"ready", "delayed"} /\ {r} \in SUBSET Held
    BY DEF Ready, Due, Delayed, Held
  <2>2. AdmissionError \in Outcomes \ {"none"}
    BY <1>7 DEF AdmissionError, Outcomes, Errors, TypeOK
  <2>3. \A s \in Requests : place'[s] = IF s = r THEN "gone" ELSE Promoted[s]
    BY <1>2, <1>7, <2>1
  <2>4. Held' = Held \ {r} /\ Queued' \subseteq Queued
    BY <1>2, <2>1, <2>3 DEF Held, Queued, Ready, Delayed
  <2>5. /\ AdmissionBalanced'
        /\ permits' \in 0 .. Capacity
        /\ outcome' \in [Requests -> Outcomes]
        /\ \A s \in Requests : outcome'[s] # "none" <=> (s \in {r} \/ outcome[s] # "none")
    BY <1>1, <1>7, <2>1, <2>2, <2>4, FinishBalances
  <2>6. TypeOK'
    BY <1>2, <1>3, <1>4, <1>7, <2>1, <2>5 DEF TypeOK, Places
  <2>7. Tries'
    BY <1>2, <1>7, <2>3 DEF Tries
  <2>8. Phases'
    BY <1>1, <1>2, <1>4, <1>7, <2>1, <2>3 DEF Phases, Running
  <2>9. OnePlace'
    BY <1>1, <1>2, <1>7, <2>1, <2>3, <2>5 DEF OnePlace, TypeOK
  <2>10. NothingLeftBehind' /\ ClosedQuiet'
    BY <1>1, <1>4, <2>4 DEF NothingLeftBehind, ClosedQuiet, Running, Stopping
  <2> QED
    BY <2>5, <2>6, <2>7, <2>8, <2>9, <2>10
<1>8. ASSUME NEW r \in Ready \cup Due, retried' = Retries,
             place' = [Promoted EXCEPT ![r] = "call"], worker' = [worker EXCEPT ![w] = r],
             attempts' = [attempts EXCEPT ![r] = @ + 1],
             UNCHANGED <<outcome, permits>>
      PROVE  Inv'
  <2>1. r \in Requests /\ place[r] \in {"ready", "delayed"} /\ attempts[r] <= MaxRetries
    BY DEF Ready, Due, Delayed, Tries
  <2>2. \A s \in Requests : place'[s] = IF s = r THEN "call" ELSE Promoted[s]
    BY <1>2, <1>8, <2>1
  <2>3. \A v \in Workers : worker'[v] = IF v = w THEN r ELSE worker[v]
    BY <1>8 DEF TypeOK
  <2>4. Held' = Held /\ Queued' \subseteq Queued
    BY <1>2, <2>1, <2>2 DEF Held, Queued, Ready, Delayed
  <2>5. TypeOK'
    <3>1. attempts[r] + 1 \in 0 .. MaxRetries + 1
      BY <2>1, LimitsAssumption DEF TypeOK
    <3>2. attempts' \in [Requests -> 0 .. MaxRetries + 1]
      BY <1>8, <3>1 DEF TypeOK
    <3> QED
      BY <1>2, <1>3, <1>4, <1>8, <2>1, <3>2 DEF TypeOK, Places
  <2>6. AdmissionBalanced'
    BY <1>1, <1>8, <2>4, SameHeld
  <2>7. Tries'
    BY <1>2, <1>8, <2>1, <2>2 DEF Tries, TypeOK
  <2>8. Phases'
    BY <1>1, <1>2, <1>4, <2>1, <2>2, <2>3 DEF Phases, Running
  <2>9. OnePlace'
    BY <1>1, <1>2, <1>8, <2>1, <2>2, <2>3, NamesAssumption DEF OnePlace, TypeOK
  <2>10. NothingLeftBehind' /\ ClosedQuiet'
    BY <1>1, <1>4, <2>4 DEF NothingLeftBehind, ClosedQuiet, Running, Stopping
  <2> QED
    BY <2>5, <2>6, <2>7, <2>8, <2>9, <2>10
<1>9. CASE Stopping
  BY <1>3, <1>6, <1>9 DEF NextWork
<1>10. CASE ~Stopping /\ Ready \cup Due # {}
  BY <1>7, <1>8, <1>10 DEF NextWork
<1>11. CASE ~Stopping /\ Ready \cup Due = {}
  <2>1. Promoted = place
    BY <1>2, <1>11 DEF Due, Delayed, TypeOK
  <2> QED
    BY <1>6, <1>11, <2>1 DEF NextWork, TypeOK
<1> QED
  BY <1>9, <1>10, <1>11

-----------------------------------------------------------------------------
(* The theorems *)

\* Every step of the loop, of a caller or of another thread keeps the invariant.
LEMMA NextInv == Inv /\ [Next]_vars => Inv'
<1> SUFFICES ASSUME Inv, [Next]_vars PROVE Inv'
  OBVIOUS
<1>1. CASE UNCHANGED vars
  BY <1>1 DEF vars, Inv, TypeOK, Tries, Phases, AdmissionBalanced, OnePlace, NothingLeftBehind,
       ClosedQuiet, Held, Queued, Ready, Delayed, Running, Stopping
<1>2. CASE Loop
  <2>1. CASE \E r \in Requests : Provider(r)
    BY <2>1, CallReturnsInv, InterruptedInv, AcceptedInv, RetryScheduledInv, FailedInv DEF Provider
  <2>2. CASE ~\E r \in Requests : Provider(r)
    BY <1>2, <2>2, QuietInv, CancelPendingInv, CloseSchedulerInv, CloseEngineInv, StopLoopInv,
       AdmitInv, RetryQueuedInv, NextWorkInv DEF Loop
  <2> QED
    BY <2>1, <2>2
<1>3. CASE Synthesize \/ Cancel \/ Close \/ \E r \in Requests : Submit(r)
  BY <1>3, QuietInv, SubmitInv
<1> QED
  BY <1>1, <1>2, <1>3 DEF Next

\* The invariant holds in every state the scheduler reaches.
THEOREM Invariance == Spec => []Inv
BY InitInv, NextInv, PTL DEF Spec

\* No request is tried more than once and MaxRetries times again, and the
\* semaphore of submit stays between nothing and its capacity.
THEOREM TypeCorrect == Spec => []TypeOK
<1>1. Inv => TypeOK
  BY DEF Inv
<1> QED
  BY <1>1, Invariance, PTL

\* Whatever path ends a request gives back exactly the admission it took
\* (TtsScheduler._finish), for every number of requests and permits.
THEOREM AdmissionKept == Spec => []AdmissionBalanced
<1>1. Inv => AdmissionBalanced
  BY DEF Inv
<1> QED
  BY <1>1, Invariance, PTL

\* A future is resolved exactly when its request left the scheduler, and no two
\* provider workers share a request.
THEOREM PlacesKept == Spec => []OnePlace
<1>1. Inv => OnePlace
  BY DEF Inv
<1> QED
  BY <1>1, Invariance, PTL

\* After cancel_pending or TtsScheduler.close, no request is left in a queue.
THEOREM QueuesEmptied == Spec => []NothingLeftBehind
<1>1. Inv => NothingLeftBehind
  BY DEF Inv
<1> QED
  BY <1>1, Invariance, PTL

\* The engine is closed only when nothing can call it any more
\* (_shutdown_async).
THEOREM EngineClosedQuiet == Spec => []ClosedQuiet
<1>1. Inv => ClosedQuiet
  BY DEF Inv
<1> QED
  BY <1>1, Invariance, PTL

\* No attempt begins after the circuit opened, the run was cancelled or the
\* scheduler began to stop (_attempt).
THEOREM NoLateCall == Spec => NoCallAfterStop
<1>1. ASSUME Inv, [Next]_vars, NEW r \in Requests, attempts'[r] # attempts[r]
      PROVE  circuit = "none" /\ circuit' = "none" /\ ~cancelled /\ ~Stopping
  <2>1. PICK w \in Workers : NextWork(w)
    BY <1>1 DEF Next, Loop, Provider, vars, Synthesize, EnsureRuntime, Cancel, Close, JoinWorkers,
       WaitEnds, Tick, Submit, Admit, CancelPending, CloseScheduler, CloseEngine, StopLoop,
       CallReturns, Interrupted, Accepted, RetryScheduled, RetryQueued, Failed
  <2>2. AdmissionError = "none" /\ circuit' = circuit
    BY <1>1, <2>1 DEF NextWork
  <2> QED
    BY <2>2 DEF AdmissionError
<1>2. Inv /\ [Next]_vars => [\A r \in Requests :
         attempts[r]' # attempts[r] =>
           circuit = "none" /\ circuit' = "none" /\ ~cancelled /\ ~Stopping]_vars
  BY <1>1
<1> QED
  BY <1>2, Invariance, PTL DEF Spec, NoCallAfterStop

=============================================================================
