---------------------------- MODULE TtsScheduler ----------------------------
(***************************************************************************)
(* The speech runtime of services/tts: one engine and one TtsScheduler,    *)
(* made by the first batch on the service's event loop, and the requests   *)
(* of the batches that share it.  A step runs from one await to the next,  *)
(* because nothing else runs on the loop meanwhile; only the cancellation  *)
(* token is set by other threads.  The condition is never held across an   *)
(* await, so taking it never waits and is not modelled.                    *)
(***************************************************************************)
EXTENDS Naturals, FiniteSets

CONSTANTS
    Requests,       \* provider calls the parts of the batches ask for
    Rank,           \* their order: batch rank, request rank, sequence
    Workers,        \* tts-provider tasks
    Capacity,       \* queue_capacity
    MaxRetries,     \* max_retries
    Closes          \* whether the service may be closed in this instance

ASSUME RequestsAssumption == IsFiniteSet(Requests) /\ Rank \in [Requests -> Nat]
ASSUME LimitsAssumption == Capacity \in Nat \ {0} /\ MaxRetries \in Nat
ASSUME WorkersAssumption == IsFiniteSet(Workers)
ASSUME NamesAssumption == Requests \cap {"awake", "waiting", "timed", "ended"} = {}

VARIABLES
    place,      \* where a request is: the awaits of submit, _attempt, _accept
    outcome,    \* what its future holds
    attempts,   \* work.attempts
    retried,    \* the ready request is a retry that came due
    due,        \* the delay of the retry has passed
    worker,     \* the request a worker works on, or what it waits for
    permits,    \* _admission
    circuit,    \* _circuit_error
    cancelled,  \* the token of the service
    sweep,      \* a cancel_pending scheduled by cancel has not run yet
    runtime,    \* the engine: none, open or closed
    batch,      \* idle, starting (its first progress callback), running
    closer      \* how far close has come

vars == <<place, outcome, attempts, retried, due, worker, permits, circuit,
          cancelled, sweep, runtime, batch, closer>>

Places == {"idle", "admission", "ready", "delayed", "call", "accept", "retry", "gone"}
Outcomes == {"none", "result", "cancelled", "transient", "fatal", "input"}
Errors == {"transient", "fatal", "input"}
Idle == {"awake", "waiting", "timed", "ended"}
Closers == {"open", "called", "workers", "accepts", "draining", "done", "expired"}

TypeOK ==
    /\ place \in [Requests -> Places]
    /\ outcome \in [Requests -> Outcomes]
    /\ attempts \in [Requests -> 0 .. MaxRetries + 1]
    /\ retried \in [Requests -> BOOLEAN]
    /\ due \in [Requests -> BOOLEAN]
    /\ worker \in [Workers -> Requests \cup Idle]
    /\ permits \in 0 .. Capacity
    /\ circuit \in Errors \cup {"none"}
    /\ cancelled \in BOOLEAN
    /\ sweep \in BOOLEAN
    /\ runtime \in {"none", "open", "closed"}
    /\ batch \in {"idle", "starting", "running"}
    /\ closer \in Closers

Init ==
    /\ place = [r \in Requests |-> "idle"]
    /\ outcome = [r \in Requests |-> "none"]
    /\ attempts = [r \in Requests |-> 0]
    /\ retried = [r \in Requests |-> FALSE]
    /\ due = [r \in Requests |-> FALSE]
    /\ worker = [w \in Workers |-> "awake"]
    /\ permits = Capacity
    /\ circuit = "none"
    /\ cancelled = FALSE
    /\ sweep = FALSE
    /\ runtime = "none"
    /\ batch = "idle"
    /\ closer = "open"

-----------------------------------------------------------------------------
(* What the handlers share *)

\* _stopping: TtsScheduler.close has begun.
Stopping == closer \in {"workers", "accepts"} \/ runtime = "closed"

\* The loop still runs: run_forever until close stops it.
Running == closer \notin {"done", "expired"}

Ready == {r \in Requests : place[r] = "ready"}
Delayed == {r \in Requests : place[r] = "delayed"}
Queued == Ready \cup Delayed
Due == {r \in Delayed : due[r]}

\* A slip that forgets the circuit.
AdmissionErrorMutant == IF Stopping \/ cancelled THEN "cancelled" ELSE "none"

\* _admission_error: why a request may not go to the provider now.
AdmissionError ==
    IF Stopping \/ cancelled THEN "cancelled" ELSE circuit

\* A slip that forgets the token.
RetryAllowedMutant == ~Stopping

\* _retry_allowed.
RetryAllowed == ~Stopping /\ ~cancelled

\* A slip that allows one attempt too many.
MayRetryMutant(r) == attempts[r] <= MaxRetries + 1

\* The attempts of a request whose error is transient are not used up.
MayRetry(r) == attempts[r] <= MaxRetries

\* A slip that leaves the idle workers asleep.
NotifyAllMutant(ws) == [w \in Workers |-> IF ws[w] = "timed" THEN "awake" ELSE ws[w]]

\* Condition.notify_all: the workers that wait look again.
NotifyAll(ws) ==
    [w \in Workers |-> IF ws[w] \in {"waiting", "timed"} THEN "awake" ELSE ws[w]]

\* A slip that gives the admission back only for requests under way.
FinishMutant(S, o) ==
    /\ outcome' = [r \in Requests |->
                     IF r \in S /\ outcome[r] = "none" THEN o ELSE outcome[r]]
    /\ permits' = permits + Cardinality({r \in S \ Queued : outcome[r] = "none"})

\* _finish for every request of S: an outcome is set once and gives its
\* admission back.
Finish(S, o) ==
    /\ outcome' = [r \in Requests |->
                     IF r \in S /\ outcome[r] = "none" THEN o ELSE outcome[r]]
    /\ permits' = permits + Cardinality({r \in S : outcome[r] = "none"})

\* A slip that leaves finished retries in the heap of the delayed.
GoneMutant(S) == [r \in Requests |-> IF r \in S \ Delayed THEN "gone" ELSE place[r]]

\* The place of the requests of S once they are finished.
Gone(S) == [r \in Requests |-> IF r \in S THEN "gone" ELSE place[r]]

\* The worker that held r is free again; an accept task holds no worker.
Freed(r) == [w \in Workers |-> IF worker[w] = r THEN "awake" ELSE worker[w]]

\* _opens_circuit.
OpensCircuit(e) == e \in {"transient", "fatal"}

-----------------------------------------------------------------------------
(* The service: batches, the runtime, cancel *)

\* synthesize: a batch is put on the loop unless the service is closed.
Synthesize ==
    /\ batch = "idle"
    /\ closer = "open"
    /\ batch' = "starting"
    /\ UNCHANGED <<place, outcome, attempts, retried, due, worker, permits,
                   circuit, cancelled, sweep, runtime, closer>>

\* _run_batch comes back from its first progress callback: _ensure_runtime
\* makes the engine and the scheduler if there is none.
EnsureRuntime ==
    /\ batch = "starting"
    /\ Running
    /\ batch' = "running"
    /\ runtime' = IF runtime = "none" THEN "open" ELSE runtime
    /\ UNCHANGED <<place, outcome, attempts, retried, due, worker, permits,
                   circuit, cancelled, sweep, closer>>

\* A part worker calls submit.  Looking the clip up before needs the executor,
\* which is refused once the loop shuts it down.
Submit(r) ==
    /\ batch = "running"
    /\ Running /\ closer # "draining"
    /\ place[r] = "idle"
    /\ place' = [place EXCEPT ![r] = "admission"]
    /\ UNCHANGED <<outcome, attempts, retried, due, worker, permits, circuit,
                   cancelled, sweep, runtime, batch, closer>>

\* submit goes on once the semaphore lets it in.
Admit(r) ==
    /\ place[r] = "admission"
    /\ Running
    /\ permits > 0
    /\ IF AdmissionError # "none"
       THEN /\ outcome' = [outcome EXCEPT ![r] = AdmissionError]
            /\ place' = [place EXCEPT ![r] = "gone"]
            /\ UNCHANGED <<permits, retried, worker>>
       ELSE /\ place' = [place EXCEPT ![r] = "ready"]
            /\ retried' = [retried EXCEPT ![r] = FALSE]
            /\ permits' = permits - 1
            /\ worker' = NotifyAll(worker)
            /\ UNCHANGED outcome
    /\ UNCHANGED <<attempts, due, circuit, cancelled, sweep, runtime, batch, closer>>

\* cancel, from any thread: the token first, then cancel_pending on the loop.
Cancel ==
    /\ Running
    /\ ~cancelled
    /\ cancelled' = TRUE
    /\ sweep' = (runtime # "none")
    /\ UNCHANGED <<place, outcome, attempts, retried, due, worker, permits,
                   circuit, runtime, batch, closer>>

\* cancel_pending.
CancelPending ==
    /\ sweep /\ Running
    /\ sweep' = FALSE
    /\ Finish(Queued, "cancelled")
    /\ place' = Gone(Queued)
    /\ worker' = NotifyAll(worker)
    /\ UNCHANGED <<attempts, retried, due, circuit, cancelled, runtime, batch, closer>>

-----------------------------------------------------------------------------
(* The provider workers *)

\* _promote_due_retries.
Promoted == [r \in Requests |-> IF r \in Due THEN "ready" ELSE place[r]]
Retries == [r \in Requests |-> r \in Due \/ retried[r]]

\* The heap order of _ready: retries first, among them any order of deadlines.
Comes(r, s, again) ==
    \/ again[r] /\ ~again[s]
    \/ again[r] /\ again[s]
    \/ ~again[r] /\ ~again[s] /\ Rank[r] <= Rank[s]

\* _next_work and the check of _attempt: a worker takes the first ready
\* request, ends one that may not go out, waits, or ends.
NextWork(w) ==
    /\ worker[w] = "awake"
    /\ runtime # "none" /\ Running
    /\ \/ /\ Stopping
          /\ worker' = [worker EXCEPT ![w] = "ended"]
          /\ place' = Promoted
          /\ retried' = Retries
          /\ UNCHANGED <<outcome, attempts, permits>>
       \/ /\ ~Stopping
          /\ \E r \in Ready \cup Due :
               /\ \A s \in (Ready \cup Due) \ {r} : Comes(r, s, Retries)
               /\ retried' = Retries
               /\ IF AdmissionError # "none"
                  THEN /\ Finish({r}, AdmissionError)
                       /\ place' = [Promoted EXCEPT ![r] = "gone"]
                       /\ UNCHANGED <<worker, attempts>>
                  ELSE /\ place' = [Promoted EXCEPT ![r] = "call"]
                       /\ worker' = [worker EXCEPT ![w] = r]
                       /\ attempts' = [attempts EXCEPT ![r] = @ + 1]
                       /\ UNCHANGED <<outcome, permits>>
       \/ /\ ~Stopping
          /\ Ready \cup Due = {}
          /\ worker' = [worker EXCEPT ![w] =
                          IF Delayed = {} THEN "waiting" ELSE "timed"]
          /\ UNCHANGED <<place, outcome, attempts, permits, retried>>
    /\ UNCHANGED <<due, circuit, cancelled, sweep, runtime, batch, closer>>

\* wait_for of _next_work ends at the deadline of the first retry.
WaitEnds(w) ==
    /\ worker[w] = "timed"
    /\ Running
    /\ Due # {}
    /\ worker' = [worker EXCEPT ![w] = "awake"]
    /\ UNCHANGED <<place, outcome, attempts, retried, due, permits, circuit,
                   cancelled, sweep, runtime, batch, closer>>

\* The delay of a retry passes.
Tick(r) ==
    /\ place[r] = "delayed"
    /\ ~due[r]
    /\ due' = [due EXCEPT ![r] = TRUE]
    /\ UNCHANGED <<place, outcome, attempts, retried, worker, permits, circuit,
                   cancelled, sweep, runtime, batch, closer>>

\* The provider answers: an accept task goes on with the result.
CallReturns(r) ==
    /\ place[r] = "call"
    /\ Running
    /\ place' = [place EXCEPT ![r] = "accept"]
    /\ worker' = Freed(r)
    /\ UNCHANGED <<outcome, attempts, retried, due, permits, circuit,
                   cancelled, sweep, runtime, batch, closer>>

\* The call or the acceptance of its result raises CancelledError.
Interrupted(r) ==
    /\ place[r] \in {"call", "accept"}
    /\ Running
    /\ Finish({r}, "cancelled")
    /\ place' = Gone({r})
    /\ worker' = Freed(r)
    /\ UNCHANGED <<attempts, retried, due, circuit, cancelled, sweep, runtime, batch, closer>>

\* The end of _accept: a result that comes after a cancellation is dropped.
Accepted(r) ==
    /\ place[r] = "accept"
    /\ Running
    /\ Finish({r}, IF cancelled THEN "cancelled" ELSE "result")
    /\ place' = Gone({r})
    /\ UNCHANGED <<attempts, retried, due, worker, circuit, cancelled, sweep,
                   runtime, batch, closer>>

\* _handle_error for an error that may be tried again: _schedule_retry up to
\* the await of on_retry.
RetryScheduled(r) ==
    /\ place[r] \in {"call", "accept"}
    /\ Running
    /\ MayRetry(r)
    /\ IF RetryAllowed
       THEN /\ place' = [place EXCEPT ![r] = "retry"]
            /\ UNCHANGED <<outcome, permits, worker>>
       ELSE /\ Finish({r}, "cancelled")
            /\ place' = Gone({r})
            /\ worker' = Freed(r)
    /\ UNCHANGED <<attempts, retried, due, circuit, cancelled, sweep, runtime, batch, closer>>

\* _schedule_retry after on_retry: asked again, because the run may have been
\* cancelled or the service closed meanwhile.
RetryQueued(r) ==
    /\ place[r] = "retry"
    /\ Running
    /\ IF RetryAllowed
       THEN /\ place' = [place EXCEPT ![r] = "delayed"]
            /\ due' = [due EXCEPT ![r] = FALSE]
            /\ worker' = NotifyAll(Freed(r))
            /\ UNCHANGED <<outcome, permits>>
       ELSE /\ Finish({r}, "cancelled")
            /\ place' = Gone({r})
            /\ worker' = Freed(r)
            /\ UNCHANGED due
    /\ UNCHANGED <<attempts, retried, circuit, cancelled, sweep, runtime, batch, closer>>

\* _handle_error for the others: the first error that opens the circuit fails
\* everything queued (_fail_queued).
Failed(r, e) ==
    /\ place[r] \in {"call", "accept"}
    /\ Running
    /\ e = "transient" => ~MayRetry(r)
    /\ LET opened == OpensCircuit(e) /\ circuit = "none"
           ended == {r} \cup (IF opened THEN Queued ELSE {})
       IN  /\ circuit' = IF opened THEN e ELSE circuit
           /\ Finish(ended, e)
           /\ place' = Gone(ended)
    /\ worker' = IF OpensCircuit(e) THEN NotifyAll(Freed(r)) ELSE Freed(r)
    /\ UNCHANGED <<attempts, retried, due, cancelled, sweep, runtime, batch, closer>>

-----------------------------------------------------------------------------
(* close *)

\* close closes admission and the token and puts _shutdown_async on the loop.
Close ==
    /\ Closes
    /\ closer = "open"
    /\ closer' = "called"
    /\ cancelled' = TRUE
    /\ UNCHANGED <<place, outcome, attempts, retried, due, worker, permits,
                   circuit, sweep, runtime, batch>>

\* _shutdown_async starts: without a runtime only the executor is left;
\* otherwise TtsScheduler.close fails what is queued and wakes the workers.
CloseScheduler ==
    /\ closer = "called"
    /\ closer' = IF runtime = "none" THEN "draining" ELSE "workers"
    /\ Finish(Queued, "cancelled")
    /\ place' = Gone(Queued)
    /\ worker' = NotifyAll(worker)
    /\ UNCHANGED <<attempts, retried, due, circuit, cancelled, sweep, runtime, batch>>

\* The workers have ended; the accept tasks are gathered.
JoinWorkers ==
    /\ closer = "workers"
    /\ \A w \in Workers : worker[w] = "ended"
    /\ closer' = "accepts"
    /\ UNCHANGED <<place, outcome, attempts, retried, due, worker, permits,
                   circuit, cancelled, sweep, runtime, batch>>

\* A slip that does not gather the accept tasks.
AcceptsJoinedMutant == TRUE

\* Every accept task has ended.
AcceptsJoined == \A r \in Requests : place[r] \notin {"accept", "retry"}

\* The accept tasks have ended; the queues are failed again and the engine is
\* closed.
CloseEngine ==
    /\ closer = "accepts"
    /\ AcceptsJoined
    /\ Finish(Queued, "cancelled")
    /\ place' = Gone(Queued)
    /\ runtime' = "closed"
    /\ closer' = "draining"
    /\ UNCHANGED <<attempts, retried, due, worker, circuit, cancelled, sweep, batch>>

\* The loop stops after the executor, or at the deadline of close, and every
\* task still on it is cancelled: no caller is left waiting.
StopLoop ==
    /\ \/ closer = "draining" /\ closer' = "done"
       \/ closer \in {"called", "workers", "accepts", "draining"} /\ closer' = "expired"
    /\ LET left == {r \in Requests : place[r] \notin {"idle", "gone"}}
       IN  /\ outcome' = [r \in Requests |-> IF r \in left THEN "cancelled" ELSE outcome[r]]
           /\ place' = Gone(left)
    /\ worker' = [w \in Workers |-> "ended"]
    /\ UNCHANGED <<attempts, retried, due, permits, circuit, cancelled, sweep, runtime, batch>>

-----------------------------------------------------------------------------
Provider(r) == CallReturns(r) \/ Interrupted(r) \/ Accepted(r) \/ RetryScheduled(r)
                \/ \E e \in Errors : Failed(r, e)

\* What the loop does by itself, in whatever order it likes.
Loop ==
    \/ EnsureRuntime \/ CancelPending
    \/ CloseScheduler \/ JoinWorkers \/ CloseEngine \/ StopLoop
    \/ \E r \in Requests : Admit(r) \/ Tick(r) \/ RetryQueued(r) \/ Provider(r)
    \/ \E w \in Workers : NextWork(w) \/ WaitEnds(w)

Next == Loop \/ Synthesize \/ Cancel \/ Close \/ \E r \in Requests : Submit(r)

\* The loop does not stand still while something can go on or a timer comes
\* due; a provider call ends (it has a timeout).  Callers owe nothing.
Fairness == WF_vars(Loop)

Spec == Init /\ [][Next]_vars /\ Fairness
-----------------------------------------------------------------------------
(* Properties *)

Held == {r \in Requests : place[r] \notin {"idle", "admission", "gone"}}

\* The semaphore counts exactly the requests let in and not yet resolved,
\* whichever of the seven paths ends one (_finish releases, submit acquires):
\* drifting down would starve every later batch, drifting up would let the
\* queue grow beyond queue_capacity.
AdmissionBalanced == Running => permits + Cardinality(Held) = Capacity

\* A request is in one place: it is resolved exactly when it left the
\* scheduler, so nobody calls the provider for a resolved one, and a worker
\* works on a request exactly while that is in its call or its retry callback.
OnePlace ==
    Running =>
      /\ \A r \in Requests : outcome[r] # "none" <=> place[r] = "gone"
      /\ \A w \in Workers : worker[w] \in Requests => place[worker[w]] \in {"call", "retry"}
      /\ \A r \in Requests : place[r] = "call" => \E w \in Workers : worker[w] = r
      /\ \A v, w \in Workers : worker[v] = worker[w] /\ worker[v] \in Requests => v = w

\* Once cancel_pending has run, or TtsScheduler.close has begun, nothing waits in
\* a queue for a call that may never be made: a retry whose callback was running
\* meanwhile is dropped when it comes back, and not queued behind the sweep.
NothingLeftBehind ==
    Running /\ (Stopping \/ (cancelled /\ ~sweep /\ closer # "called")) => Queued = {}

\* The engine is closed when no provider call, acceptance or retry is under
\* way and no worker can start another (close joins them first).
ClosedQuiet ==
    runtime = "closed" =>
      /\ \A r \in Requests : place[r] \in {"idle", "admission", "gone"}
      /\ \A w \in Workers : worker[w] = "ended"

\* After the circuit opened, the run was cancelled or the scheduler began to
\* stop, no call reaches the provider, whether the request was new, ready or a
\* retry that came due.
NoCallAfterStop ==
    [][\A r \in Requests :
         attempts[r]' # attempts[r] =>
           circuit = "none" /\ circuit' = "none" /\ ~cancelled /\ ~Stopping]_vars

\* Every submit returns: through retries, an open circuit, a full semaphore, a
\* cancellation and a close at any moment, a time comes when nobody waits.
EveryRequestResolves ==
    (\E r \in Requests : place[r] \notin {"idle", "gone"})
        ~> (\A r \in Requests : place[r] \in {"idle", "gone"})

=============================================================================
