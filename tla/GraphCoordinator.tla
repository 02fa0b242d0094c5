-------------------------- MODULE GraphCoordinator --------------------------
(***************************************************************************)
(* The long-lived owner of execution graphs: application/scheduler.py and  *)
(* application/scheduler_runtime.py.  One coordination thread runs rounds  *)
(* (accept, apply updates, collect completions, advance every context,     *)
(* admit) and sleeps on a condition; callers submit, cancel, pause, drain  *)
(* and close from their own threads; every admitted task runs on a worker  *)
(* thread of the executor of its resource.                                 *)
(*                                                                         *)
(* A step is what no other thread can cut: one commit, one collected       *)
(* future, one context advanced.  Events, messages and product paths are   *)
(* left out; a TaskResult is the fact that the task has one.               *)
(***************************************************************************)
EXTENDS Integers, Sequences, FiniteSets

CONSTANTS
    Runs,            \* identities of submitted runs
    Tasks,           \* every planned task, a number: its position in its plan
    Groups,          \* source groups
    Resources,       \* normalised resource keys
    RunOf,           \* [Tasks -> Runs]
    GroupOf,         \* [Tasks -> Groups]
    ResourceOf,      \* [Tasks -> Resources]
    DependsOn,       \* [Tasks -> SUBSET Tasks]
    GroupsOf,        \* [Runs -> Seq(Groups)], the declared natural order
    Durable,         \* tasks whose result is published by an atomic rename
    Background,      \* runs submitted for automation: they rank lower
    Automatic,       \* runs held back while background admission is off
    Natural,         \* runs planned with the strict-natural policy
    Journaled,       \* runs with a RunJournal
    Limit,           \* [Resources -> Nat], workers a resource may have
    Extraction,      \* the resource whose limit also follows its groups
    Retries,         \* bound standing for _PUBLICATION_LOCK_RETRIES
    MaxSubmissions,  \* bound on accepted submissions
    Controls,        \* caller operations and faults of this instance
    NoRun            \* no context is being advanced

TasksOf(r) == {t \in Tasks : RunOf[t] = r}
TasksIn(g) == {t \in Tasks : GroupOf[t] = g}
GroupSet(r) == {GroupsOf[r][i] : i \in DOMAIN GroupsOf[r]}
Dependants(t) == {u \in Tasks : t \in DependsOn[u]}

ASSUME PlanAssumption ==
    /\ IsFiniteSet(Tasks) /\ Tasks \subseteq Nat
    /\ RunOf \in [Tasks -> Runs] /\ NoRun \notin Runs
    /\ GroupOf \in [Tasks -> Groups]
    /\ ResourceOf \in [Tasks -> Resources]
    /\ DependsOn \in [Tasks -> SUBSET Tasks]
    /\ GroupsOf \in [Runs -> Seq(Groups)]
    /\ Durable \subseteq Tasks
    /\ Natural \subseteq Runs
    \* a background run is automatic (create_runtime)
    /\ Automatic \subseteq Runs /\ Background \subseteq Automatic
    /\ Journaled \subseteq Runs
    \* a plan's dependencies stay inside one group of one run
    /\ \A t \in Tasks : \A d \in DependsOn[t] : GroupOf[d] = GroupOf[t]
                                             /\ RunOf[d] = RunOf[t]

\* Every task is in a group of its plan, and a plan declares a group once
\* (ExecutionPlan, NaturalOrderGate).  An element of Groups is a group of one
\* plan: contexts share no state, whatever names their groups have.
ASSUME GroupsAssumption ==
    /\ \A t \in Tasks : GroupOf[t] \in GroupSet(RunOf[t])
    /\ \A r, q \in Runs : r # q => GroupSet(r) \cap GroupSet(q) = {}
    /\ \A r \in Runs : \A i, j \in DOMAIN GroupsOf[r] :
          GroupsOf[r][i] = GroupsOf[r][j] => i = j

\* A plan lists its tasks in topological order (ExecutionPlan.__post_init__).
ASSUME OrderAssumption == \A t \in Tasks : \A d \in DependsOn[t] : d < t

ASSUME LimitAssumption ==
    /\ Limit \in [Resources -> Nat \ {0}]
    /\ Retries \in Nat /\ MaxSubmissions \in Nat

TaskStates == {"ready", "queued", "running",
               "blocked", "succeeded", "failed", "cancelled"}
Terminal == {"blocked", "succeeded", "failed", "cancelled"}
Admissible == {"ready", "queued"}

VARIABLES
    \* the coordination thread: where it is, and the locals of its round
    pc,            \* "off" when the thread does not run
    batch,         \* drained completions still to be finished
    visit,         \* contexts still to be advanced this round
    at,            \* the context being advanced, or NoRun
    todo,          \* tasks whose result is being committed now
    final,         \* whether _finish_context is releasing the last results
    drained,       \* what _pause_context returned for the current context
    \* what the condition guards
    signalled,     \* _signal moved since this round observed it
    background,    \* _background_admission
    closing,       \* _closing
    draining,      \* _draining
    phase,         \* [Runs -> new, inbox, context or resolved]
    accepted,      \* _sequence
    \* contexts
    sequence,      \* [Runs -> Nat], precedence of acceptance
    cancelled,     \* runs whose cancellation token is set
    journalFailed, \* runs whose journal failed to record something
    result,        \* [Runs -> the outcome the handle was resolved with]
    gateIndex,     \* [Runs -> position of the natural-order gate]
    state,         \* [Tasks -> TaskStates]
    unresolved,    \* [Tasks -> number of dependencies still awaited]
    ready,         \* tasks waiting in the queue of their resource
    held,          \* tasks whose result waits for the gate
    waiting,       \* locked publications before their next attempt
    due,           \* locked publications whose deadline passed
    retries,       \* [Tasks -> locked attempts so far]
    terminal,      \* groups detected terminal
    reported,      \* groups announced by GROUP_FINISHED
    \* workers
    future,        \* [Tasks -> the task's future in _futures, or none]
    interrupted,   \* tasks whose own interrupt token is set
    updates,       \* tasks with an unread TaskStarted
    completions,   \* tasks whose future ended and is not collected
    submitted      \* [Resources -> futures counted against the limit]

loopVars == <<batch, visit, at, todo, final, drained>>
controlVars == <<background, closing, draining>>
runVars == <<phase, accepted, sequence, result>>
graphVars == <<state, unresolved, ready, held, waiting, due, retries>>
gateVars == <<gateIndex, terminal, reported>>
workerVars == <<future, interrupted, updates, completions, submitted>>
vars == <<pc, loopVars, signalled, controlVars, runVars, cancelled,
          journalFailed, graphVars, gateVars, workerVars>>

Contexts == {r \in Runs : phase[r] = "context"}
Futures == {t \in Tasks : future[t] # "none"}
Active(r) == Futures \cap TasksOf(r)
Pending == waiting \cup due
AllTerminal(r) == \A t \in TasksOf(r) : state[t] \in Terminal
Current(r) == IF gateIndex[r] \in DOMAIN GroupsOf[r]
              THEN {GroupsOf[r][gateIndex[r]]} ELSE {}
CanReleaseMutant(t) == TRUE
CanRelease(t) == RunOf[t] \in Natural => GroupOf[t] \in Current(RunOf[t])

Init ==
    /\ pc = "off" /\ batch = {} /\ visit = {} /\ at = NoRun
    /\ todo = {} /\ final = FALSE /\ drained = FALSE
    /\ signalled = FALSE
    /\ background = TRUE /\ closing = FALSE /\ draining = FALSE
    /\ phase = [r \in Runs |-> "new"] /\ accepted = 0
    /\ sequence = [r \in Runs |-> 0]
    /\ cancelled = {} /\ journalFailed = {}
    /\ result = [r \in Runs |-> "none"]
    /\ gateIndex = [r \in Runs |-> 1]
    /\ state = [t \in Tasks |-> "ready"]
    /\ unresolved = [t \in Tasks |-> Cardinality(DependsOn[t])]
    /\ ready = {} /\ held = {} /\ waiting = {} /\ due = {}
    /\ retries = [t \in Tasks |-> 0]
    /\ terminal = {} /\ reported = {}
    /\ future = [t \in Tasks |-> "none"]
    /\ interrupted = {} /\ updates = {} /\ completions = {}
    /\ submitted = [s \in Resources |-> 0]

-----------------------------------------------------------------------------
(* Transitions of a graph, as functions of the task states.                *)

\* finish_cancelled on every task of S
CancelAll(st, S) ==
    [t \in Tasks |-> IF t \in S /\ st[t] \notin Terminal
                     THEN "cancelled" ELSE st[t]]

\* Dependants of t reached through tasks that are not terminal: the least set
\* the breadth-first walk of finish_failed can end with.
Stopped(st, t) ==
    LET Closed(B) == \A u \in Tasks :
            st[u] \notin Terminal /\ DependsOn[u] \cap (B \cup {t}) # {}
                => u \in B
    IN {u \in Tasks : \A B \in SUBSET Tasks : Closed(B) => u \in B}

\* finish_failed
Fail(st, t) ==
    LET stopped == Stopped(st, t)
    IN [u \in Tasks |-> IF u = t THEN "failed"
                        ELSE IF u \in stopped THEN "blocked" ELSE st[u]]

\* _block_uncheckpointed: nothing of the run goes on unless it is on a worker
Block(st, r, active) ==
    [t \in Tasks |-> IF /\ t \in TasksOf(r) \ active
                        /\ st[t] \in Admissible \cup {"running"}
                     THEN "blocked" ELSE st[t]]

ForgetMutant(S) ==
    /\ ready' = ready \ S
    /\ UNCHANGED <<held, waiting, due>>

\* Drop what the context keeps for the tasks of S.
Forget(S) ==
    /\ ready' = ready \ S
    /\ held' = held \ S
    /\ waiting' = waiting \ S
    /\ due' = due \ S

\* _finish_error on t, whose future is not in `active`; `unsaved` tells
\* whether the journal failed in this very step.
FinishError(t, active, unsaved) ==
    LET r == RunOf[t]
        st == IF r \in cancelled THEN CancelAll(state, {t}) ELSE Fail(state, t)
    IN /\ journalFailed' = journalFailed \cup (IF unsaved THEN {r} ELSE {})
       /\ IF r \in journalFailed'
          THEN /\ state' = Block(st, r, active)
               /\ Forget(TasksOf(r))
          ELSE /\ state' = st
               /\ waiting' = waiting \ {t}
               /\ due' = due \ {t}
               /\ UNCHANGED <<ready, held>>

-----------------------------------------------------------------------------
(* Callers.  The admission of a round holds the condition, so nothing that *)
(* takes it happens at pc = "admit"; a cancellation does not take it.      *)

Unlocked == pc # "admit"
Wake == signalled' = TRUE

\* GraphCoordinator.submit.  A run that ended without success may be submitted
\* again under its identity, with the plan its journal still has to do.
Submit(r) ==
    /\ Unlocked /\ ~closing /\ accepted < MaxSubmissions
    /\ \/ phase[r] = "new"
       \/ /\ "resubmit" \in Controls
          /\ phase[r] = "resolved" /\ r \in Journaled \ journalFailed
          /\ result[r] # "succeeded"
    /\ accepted' = accepted + 1
    /\ sequence' = [sequence EXCEPT ![r] = accepted + 1]
    /\ phase' = [phase EXCEPT ![r] = "inbox"]
    /\ result' = [result EXCEPT ![r] = "none"]
    /\ cancelled' = cancelled \ {r}
    /\ state' = [t \in Tasks |-> IF RunOf[t] = r /\ state[t] # "succeeded"
                                 THEN "ready" ELSE state[t]]
    /\ unresolved' = [t \in Tasks |-> IF RunOf[t] # r THEN unresolved[t] ELSE
            Cardinality({d \in DependsOn[t] : state[d] # "succeeded"})]
    /\ retries' = [t \in Tasks |-> IF RunOf[t] = r THEN 0 ELSE retries[t]]
    /\ gateIndex' = [gateIndex EXCEPT ![r] = 1]
    /\ terminal' = terminal \ GroupSet(r)
    /\ reported' = reported \ GroupSet(r)
    /\ pc' = IF pc = "off" THEN "round" ELSE pc
    /\ Wake
    /\ UNCHANGED <<loopVars, controlVars, journalFailed, ready, held, waiting,
                   due, workerVars>>

\* RunHandle.cancel sets the token of the run and wakes nobody.
Cancel(r) ==
    /\ "cancel" \in Controls
    /\ phase[r] \in {"inbox", "context"}
    /\ cancelled' = cancelled \cup {r}
    /\ UNCHANGED <<pc, loopVars, signalled, controlVars, runVars,
                   journalFailed, graphVars, gateVars, workerVars>>

SetBackground ==
    /\ "background" \in Controls /\ Unlocked
    /\ background' = ~background
    /\ Wake
    /\ UNCHANGED <<pc, loopVars, closing, draining, runVars, cancelled,
                   journalFailed, graphVars, gateVars, workerVars>>

Drain ==
    /\ "drain" \in Controls /\ Unlocked
    /\ closing' = TRUE /\ draining' = TRUE
    /\ Wake
    /\ UNCHANGED <<pc, loopVars, background, runVars, cancelled,
                   journalFailed, graphVars, gateVars, workerVars>>

Pause ==
    /\ "pause" \in Controls /\ Unlocked
    /\ draining' = TRUE
    /\ Wake
    /\ UNCHANGED <<pc, loopVars, background, closing, runVars, cancelled,
                   journalFailed, graphVars, gateVars, workerVars>>

Resume ==
    /\ "pause" \in Controls /\ Unlocked
    /\ ~closing
    /\ draining' = FALSE
    /\ Wake
    /\ UNCHANGED <<pc, loopVars, background, closing, runVars, cancelled,
                   journalFailed, graphVars, gateVars, workerVars>>

Close ==
    /\ "close" \in Controls /\ Unlocked
    /\ closing' = TRUE
    /\ cancelled' = cancelled \cup {r \in Runs : phase[r] \in {"inbox", "context"}}
    /\ Wake
    /\ UNCHANGED <<pc, loopVars, background, draining, runVars,
                   journalFailed, graphVars, gateVars, workerVars>>

-----------------------------------------------------------------------------
(* Workers and time.                                                       *)

WorkerStart(t) ==
    /\ future[t] = "pending"
    /\ future' = [future EXCEPT ![t] = "running"]
    /\ updates' = updates \cup {t}
    /\ Wake
    /\ UNCHANGED <<pc, loopVars, controlVars, runVars, cancelled, journalFailed,
                   graphVars, gateVars, interrupted, completions, submitted>>

WorkerEndMutant(t) ==
    /\ future[t] = "running"
    /\ \E outcome \in {"done", "error"} :
          future' = [future EXCEPT ![t] = outcome]
    /\ completions' = completions \cup {t}
    /\ UNCHANGED <<pc, loopVars, signalled, controlVars, runVars, cancelled,
                   journalFailed, graphVars, gateVars, interrupted, updates,
                   submitted>>

\* The handler returns a result or raises, whether or not it was asked to stop.
WorkerEnd(t) ==
    /\ future[t] = "running"
    /\ \E outcome \in {"done", "error"} :
          future' = [future EXCEPT ![t] = outcome]
    /\ completions' = completions \cup {t}
    /\ Wake
    /\ UNCHANGED <<pc, loopVars, controlVars, runVars, cancelled, journalFailed,
                   graphVars, gateVars, interrupted, updates, submitted>>

\* retry_at of a locked publication passes.
Elapse(t) ==
    /\ t \in waiting
    /\ waiting' = waiting \ {t} /\ due' = due \cup {t}
    /\ UNCHANGED <<pc, loopVars, signalled, controlVars, runVars, cancelled,
                   journalFailed, state, unresolved, ready, held, retries,
                   gateVars, workerVars>>

-----------------------------------------------------------------------------
(* The round of the coordination thread.                                   *)

\* _round reads the signal before anything else.
Observe ==
    /\ pc = "round" /\ pc' = "accept"
    /\ signalled' = FALSE
    /\ UNCHANGED <<loopVars, controlVars, runVars, cancelled, journalFailed,
                   graphVars, gateVars, workerVars>>

\* _accept_pending: tasks without dependencies are queued at once.
FirstTasks(new) ==
    {t \in Tasks : RunOf[t] \in new /\ state[t] = "ready" /\ unresolved[t] = 0}

Accept ==
    /\ pc = "accept" /\ pc' = "updates"
    /\ LET new == {r \in Runs : phase[r] = "inbox"}
           first == FirstTasks(new)
       IN /\ phase' = [r \in Runs |-> IF r \in new THEN "context" ELSE phase[r]]
          /\ state' = [t \in Tasks |-> IF t \in first THEN "queued" ELSE state[t]]
          /\ ready' = ready \cup first
    /\ UNCHANGED <<loopVars, signalled, controlVars, accepted, sequence, result,
                   cancelled, journalFailed, unresolved, held, waiting, due,
                   retries, gateVars, workerVars>>

\* _apply_updates: TaskStarted moves a queued task of a known context.
ApplyUpdates ==
    /\ pc = "updates" /\ pc' = "drain"
    /\ state' = [t \in Tasks |-> IF /\ t \in updates /\ RunOf[t] \in Contexts
                                    /\ state[t] = "queued"
                                 THEN "running" ELSE state[t]]
    /\ updates' = {}
    /\ UNCHANGED <<loopVars, signalled, controlVars, runVars, cancelled,
                   journalFailed, unresolved, ready, held, waiting, due,
                   retries, gateVars, future, interrupted, completions,
                   submitted>>

DrainCompletions ==
    /\ pc = "drain" /\ pc' = "collect"
    /\ batch' = completions /\ completions' = {}
    /\ UNCHANGED <<visit, at, todo, final, drained, signalled, controlVars,
                   runVars, cancelled, journalFailed, graphVars, gateVars,
                   future, interrupted, updates, submitted>>

\* The admission window after the futures of S left it.
VacatedMutant(S) == submitted
Vacated(S) ==
    [s \in Resources |-> submitted[s] - Cardinality({t \in S : ResourceOf[t] = s})]

\* _collect_completions for one future, with _finish_future up to its commit.
\* The order of run and task names is unrelated to plan positions: any order.
Collect(t) ==
    /\ pc = "collect" /\ t \in batch
    /\ batch' = batch \ {t}
    /\ future' = [future EXCEPT ![t] = "none"]
    /\ submitted' = Vacated({t})
    /\ LET r == RunOf[t]
           active == Active(r) \ {t}
       IN \/ /\ r \notin Contexts
             /\ UNCHANGED <<pc, todo, state, ready, held, waiting, due,
                            journalFailed>>
          \/ /\ r \in Contexts
             /\ future[t] = "cancelled" \/ r \in cancelled
             /\ state' = CancelAll(state, {t})
             /\ UNCHANGED <<pc, todo, ready, held, waiting, due, journalFailed>>
          \/ /\ r \in Contexts \ cancelled /\ future[t] = "error"
             /\ t \notin interrupted
             /\ FinishError(t, active, FALSE)
             /\ UNCHANGED <<pc, todo>>
          \/ \* _finish_interrupted: the journal's mark must be cleared, or all
             \* the run's idle work is blocked
             /\ r \in Contexts \ cancelled /\ future[t] = "error"
             /\ t \in interrupted
             /\ \/ /\ state' = CancelAll(state, {t})
                   /\ r \notin journalFailed
                   /\ UNCHANGED <<ready, held, waiting, due, journalFailed>>
                \/ /\ r \in Journaled
                   /\ state' = Block(CancelAll(state, {t}), r, active)
                   /\ Forget(TasksOf(r))
                   /\ journalFailed' = journalFailed \cup {r}
             /\ UNCHANGED <<pc, todo>>
          \/ /\ r \in Contexts \ cancelled /\ future[t] = "done"
             /\ IF CanRelease(t)
                THEN todo' = {t} /\ pc' = "commit" /\ UNCHANGED held
                ELSE held' = held \cup {t} /\ UNCHANGED <<todo, pc>>
             /\ UNCHANGED <<state, ready, waiting, due, journalFailed>>
    /\ UNCHANGED <<visit, at, final, drained, signalled, controlVars, runVars,
                   cancelled, unresolved, retries, gateVars, interrupted,
                   updates, completions>>

\* queue_task on the dependants of t that await nothing more
Freed(t, awaited) ==
    {v \in Dependants(t) : awaited[v] = 0 /\ state[v] = "ready"}

\* commit_success on t.  Retries run in the order of the pending table, held
\* results in plan order.
Committed(t) ==
    LET awaited == [v \in Tasks |-> IF t \in DependsOn[v] THEN unresolved[v] - 1
                                    ELSE unresolved[v]]
        next == Freed(t, awaited)
    IN /\ unresolved' = awaited
       /\ state' = [v \in Tasks |-> IF v = t THEN "succeeded"
                                    ELSE IF v \in next THEN "queued" ELSE state[v]]
       /\ ready' = ready \cup next
       /\ waiting' = waiting \ {t} /\ due' = due \ {t}
       /\ UNCHANGED <<held, retries, journalFailed>>

\* _defer_publication, while attempts are left
MayRetryMutant(t) == retries[t] <= Retries
MayRetry(t) == retries[t] < Retries
Deferred(t) ==
    /\ MayRetry(t)
    /\ waiting' = waiting \cup {t} /\ due' = due \ {t}
    /\ retries' = [retries EXCEPT ![t] = @ + 1]
    /\ UNCHANGED <<state, unresolved, ready, held, journalFailed>>

Commit(t) ==
    /\ pc = "commit" /\ t \in todo
    /\ t \in due \/ \A u \in todo : t <= u
    /\ todo' = todo \ {t}
    /\ pc' = IF todo' # {} THEN "commit"
             ELSE IF at = NoRun THEN "collect" ELSE "release"
    /\ LET r == RunOf[t] IN
       IF r \in journalFailed
       THEN /\ state' = [state EXCEPT ![t] = "blocked"]
            /\ UNCHANGED <<unresolved, ready, held, waiting, due, retries,
                           journalFailed>>
       ELSE \/ /\ t \in Durable => r \notin cancelled
               /\ Committed(t)
            \/ \* the destination is locked
               /\ t \in Durable /\ r \notin cancelled /\ Deferred(t)
            \/ \* refused by the gate, by validation, or out of attempts
               /\ FinishError(t, Active(r), FALSE)
               /\ UNCHANGED <<unresolved, retries>>
            \/ \* the journal cannot record the step
               /\ r \in Journaled
               /\ FinishError(t, Active(r), TRUE)
               /\ UNCHANGED <<unresolved, retries>>
    /\ UNCHANGED <<batch, visit, at, final, drained, signalled, controlVars,
                   runVars, cancelled, gateVars, workerVars>>

\* _collect_completions ends; _advance_contexts walks the contexts of now.
BeginAdvance ==
    /\ pc = "collect" /\ batch = {}
    /\ pc' = "advance" /\ visit' = Contexts
    /\ UNCHANGED <<batch, at, todo, final, drained, signalled, controlVars,
                   runVars, cancelled, journalFailed, graphVars, gateVars,
                   workerVars>>

\* _cancel_unfinished: pending and held results are dropped, futures no worker
\* took are withdrawn, everything idle is cancelled.
CancelUnfinished(r) ==
    /\ pc = "advance" /\ r \in visit /\ r \in cancelled
    /\ visit' = visit \ {r} /\ at' = r /\ drained' = FALSE
    /\ LET mine == TasksOf(r)
           withdrawn == {t \in mine : future[t] = "pending"}
           active == Active(r) \ withdrawn
           idle == {t \in mine \ active : state[t] \in Admissible}
       IN /\ future' = [t \in Tasks |-> IF t \in withdrawn THEN "none" ELSE future[t]]
          /\ submitted' = Vacated(withdrawn)
          /\ state' = CancelAll(state, idle \cup withdrawn \cup
                                       ((held \cup Pending) \cap mine))
          /\ Forget(mine)
          /\ signalled' = (signalled \/ withdrawn # {})
    /\ pc' = "settle"
    /\ UNCHANGED <<batch, todo, final, controlVars, runVars, cancelled,
                   journalFailed, unresolved, retries, gateVars, interrupted,
                   updates, completions>>

\* _release_results starts with the publications whose deadline passed.
BeginRelease(r) ==
    /\ pc = "advance" /\ r \in visit /\ r \notin cancelled
    /\ visit' = visit \ {r} /\ at' = r
    /\ todo' = due \cap TasksOf(r)
    /\ pc' = IF todo' = {} THEN "release" ELSE "commit"
    /\ UNCHANGED <<batch, final, drained, signalled, controlVars, runVars,
                   cancelled, journalFailed, graphVars, gateVars, workerVars>>

\* The gate forwards the held results of its current group ...
ForwardHeld ==
    LET mine == {t \in held : RunOf[t] = at /\ GroupOf[t] \in Current(at)}
    IN /\ pc = "release" /\ at \in Natural /\ mine # {}
       /\ todo' = mine /\ held' = held \ mine
       /\ pc' = "commit"
       /\ UNCHANGED <<batch, visit, at, final, drained, signalled, controlVars,
                      runVars, cancelled, journalFailed, state, unresolved,
                      ready, waiting, due, retries, gateVars, workerVars>>

\* NaturalOrderGate.skip: the first position whose group is not resolved.
OpenPositions(r, resolved) ==
    {i \in gateIndex[r] .. Len(GroupsOf[r]) + 1 :
        i \in DOMAIN GroupsOf[r] => GroupsOf[r][i] \notin resolved}
Skip(r, resolved) ==
    LET open == OpenPositions(r, resolved)
    IN CHOOSE i \in open : \A j \in open : i <= j

\* ... and _report_terminal_groups moves it on, until nothing changes.
ReportGroups ==
    /\ pc = "release"
    /\ at \in Natural => {t \in held : RunOf[t] = at /\ GroupOf[t] \in Current(at)} = {}
    /\ LET newly == {g \in GroupSet(at) \ terminal :
                        \A t \in TasksIn(g) : state[t] \in Terminal}
           index == IF at \in Natural /\ newly # {}
                    THEN Skip(at, terminal \cup newly) ELSE gateIndex[at]
           visible == IF at \in Natural
                      THEN {GroupsOf[at][i] : i \in gateIndex[at] .. index - 1}
                      ELSE newly
       IN /\ terminal' = terminal \cup newly
          /\ gateIndex' = [gateIndex EXCEPT ![at] = index]
          /\ reported' = reported \cup visible
          /\ pc' = IF newly # {} /\ at \in Natural THEN "release"
                   ELSE IF final THEN "finish" ELSE "pause"
    /\ UNCHANGED <<loopVars, signalled, controlVars, runVars, cancelled,
                   journalFailed, graphVars, workerVars>>

\* _pause_context, under the condition: interrupt when closing, and once no
\* future of the run is left, cancel what was not admitted.
PauseContext ==
    /\ pc = "pause" /\ pc' = "settle"
    /\ drained' = draining
    /\ interrupted' = IF draining /\ closing
                      THEN interrupted \cup Active(at) ELSE interrupted
    /\ IF draining /\ Active(at) = {}
       THEN /\ state' = CancelAll(state, {t \in TasksOf(at) : state[t] \in Admissible})
            /\ ready' = ready \ TasksOf(at)
       ELSE UNCHANGED <<state, ready>>
    /\ UNCHANGED <<batch, visit, at, todo, final, signalled, controlVars,
                   runVars, cancelled, journalFailed, unresolved, held, waiting,
                   due, retries, gateVars, future, updates, completions,
                   submitted>>

\* _is_stalled
Stalled(r) ==
    /\ (Pending \cup held) \cap TasksOf(r) = {}
    /\ \A t \in TasksOf(r) : state[t] \notin {"queued", "running"}

\* _advance_contexts after the pause: finish, fail or leave the context.
Settle ==
    /\ pc = "settle"
    /\ IF AllTerminal(at)
       THEN /\ final' = TRUE /\ todo' = due \cap TasksOf(at)
            /\ pc' = IF todo' = {} THEN "release" ELSE "commit"
            /\ UNCHANGED <<at, phase, result, cancelled, ready>>
       ELSE /\ at' = NoRun /\ pc' = "advance"
            /\ IF Stalled(at)
               THEN /\ phase' = [phase EXCEPT ![at] = "resolved"]
                    /\ result' = [result EXCEPT ![at] = "error"]
                    /\ cancelled' = cancelled \cup {at}
                    /\ ready' = ready \ TasksOf(at)
               ELSE UNCHANGED <<phase, result, cancelled, ready>>
            /\ UNCHANGED <<todo, final>>
    /\ UNCHANGED <<batch, visit, drained, signalled, controlVars, accepted,
                   sequence, journalFailed, state, unresolved, held, waiting,
                   due, retries, gateVars, workerVars>>

OutcomeMutant(r) ==
    LET states == {state[t] : t \in TasksOf(r)}
    IN IF "cancelled" \in states
       THEN IF drained /\ r \notin cancelled THEN "paused" ELSE "cancelled"
       ELSE IF "blocked" \in states THEN "failed" ELSE "succeeded"

\* The RunResult of _finish_context, by its worst task.
Outcome(r) ==
    LET states == {state[t] : t \in TasksOf(r)}
    IN IF "cancelled" \in states
       THEN IF drained /\ r \notin cancelled THEN "paused" ELSE "cancelled"
       ELSE IF states \cap {"failed", "blocked"} # {} THEN "failed" ELSE "succeeded"

\* _finish_context: detach the context and resolve its handle.
Finish ==
    /\ pc = "finish" /\ pc' = "advance"
    /\ phase' = [phase EXCEPT ![at] = "resolved"]
    /\ result' = [result EXCEPT ![at] = Outcome(at)]
    /\ Forget(TasksOf(at))
    /\ at' = NoRun /\ final' = FALSE
    /\ UNCHANGED <<batch, visit, todo, drained, signalled, controlVars, accepted,
                   sequence, cancelled, journalFailed, state, unresolved,
                   retries, gateVars, workerVars>>

EndAdvance ==
    /\ pc = "advance" /\ visit = {}
    /\ pc' = IF ready = {} THEN "exit" ELSE "limits"
    /\ UNCHANGED <<loopVars, signalled, controlVars, runVars, cancelled,
                   journalFailed, graphVars, gateVars, workerVars>>

\* _admit asks the provider for the limits, then takes the condition.
TakeLimits ==
    /\ pc = "limits" /\ pc' = "admit"
    /\ UNCHANGED <<loopVars, signalled, controlVars, runVars, cancelled,
                   journalFailed, graphVars, gateVars, workerVars>>

\* _extraction_group_count and ResourceLimits.worker_limit
ExtractionGroups == {GroupOf[t] : t \in {u \in Tasks :
                        ResourceOf[u] = Extraction /\ RunOf[u] \in Contexts}}
WorkerLimit(s) ==
    IF s = Extraction /\ Cardinality(ExtractionGroups) < Limit[s]
    THEN IF ExtractionGroups = {} THEN 1 ELSE Cardinality(ExtractionGroups)
    ELSE Limit[s]

\* ReadyTask order: rank of the origin, acceptance, plan position.
Precedes(t, u) ==
    LET r == RunOf[t]  q == RunOf[u]
    IN IF (r \in Background) # (q \in Background) THEN q \in Background
       ELSE IF sequence[r] # sequence[q] THEN sequence[r] < sequence[q] ELSE t < u

\* _best_entry with a free worker: what the admission would start next.
Candidate(t) ==
    LET open == {u \in ready : /\ ResourceOf[u] = ResourceOf[t]
                               /\ RunOf[u] \in Contexts
                               /\ background \/ RunOf[u] \notin Automatic}
    IN /\ t \in open /\ \A u \in open \ {t} : Precedes(t, u)
       /\ submitted[ResourceOf[t]] < WorkerLimit(ResourceOf[t])

\* _submit_task: the journal records the start, then the executor takes it.
Admit(t) ==
    /\ pc = "admit" /\ ~draining /\ t \in ready /\ Candidate(t)
    /\ ready' = ready \ {t}
    /\ \/ /\ RunOf[t] \notin journalFailed
          /\ future' = [future EXCEPT ![t] = "pending"]
          /\ interrupted' = interrupted \ {t}
          /\ submitted' = [submitted EXCEPT ![ResourceOf[t]] = @ + 1]
          /\ UNCHANGED <<state, signalled, journalFailed>>
       \/ \* the journal cannot record the start
          /\ RunOf[t] \in Journaled
          /\ state' = Fail(state, t)
          /\ journalFailed' = journalFailed \cup {RunOf[t]}
          /\ Wake
          /\ UNCHANGED <<future, interrupted, submitted>>
    /\ UNCHANGED <<pc, loopVars, controlVars, runVars, cancelled, unresolved,
                   held, waiting, due, retries, gateVars, updates, completions>>

EndAdmit ==
    /\ pc = "admit" /\ pc' = "exit"
    /\ draining \/ \A t \in ready : ~Candidate(t)
    /\ ready' = IF draining THEN ready ELSE {t \in ready : RunOf[t] \in Contexts}
    /\ UNCHANGED <<loopVars, signalled, controlVars, runVars, cancelled,
                   journalFailed, state, unresolved, held, waiting, due,
                   retries, gateVars, workerVars>>

\* _round ends the thread when nothing is left and, seen under the condition,
\* nothing waits in the inbox; otherwise it goes to sleep.
ExitMutant ==
    /\ pc = "exit"
    /\ pc' = IF Contexts = {} /\ Futures = {} THEN "off" ELSE "sleep"
    /\ UNCHANGED <<loopVars, signalled, controlVars, runVars, cancelled,
                   journalFailed, graphVars, gateVars, workerVars>>

Exit ==
    /\ pc = "exit"
    /\ pc' = IF /\ Contexts = {} /\ Futures = {}
                /\ \A r \in Runs : phase[r] # "inbox"
             THEN "off" ELSE "sleep"
    /\ UNCHANGED <<loopVars, signalled, controlVars, runVars, cancelled,
                   journalFailed, graphVars, gateVars, workerVars>>

\* wait_for_updates returns on a signal or at the deadline of a publication.
WakeUpMutant ==
    /\ pc = "sleep" /\ pc' = "round"
    /\ signalled
    /\ UNCHANGED <<loopVars, signalled, controlVars, runVars, cancelled,
                   journalFailed, graphVars, gateVars, workerVars>>

WakeUp ==
    /\ pc = "sleep" /\ pc' = "round"
    /\ signalled \/ due # {}
    /\ UNCHANGED <<loopVars, signalled, controlVars, runVars, cancelled,
                   journalFailed, graphVars, gateVars, workerVars>>

\* The limits provider raises: _fail_all cancels every context and shuts the
\* executors down ...
Fault ==
    /\ "fault" \in Controls /\ pc = "limits" /\ pc' = "fault"
    /\ LET withdrawn == {t \in Tasks : future[t] = "pending"}
       IN /\ future' = [t \in Tasks |-> IF t \in withdrawn THEN "cancelled"
                                        ELSE future[t]]
          /\ completions' = completions \cup withdrawn
    /\ cancelled' = cancelled \cup {r \in Runs : phase[r] \in {"inbox", "context"}}
    /\ Wake
    /\ UNCHANGED <<loopVars, controlVars, runVars, journalFailed, graphVars,
                   gateVars, interrupted, updates, submitted>>

\* ... waits for the running workers (_shutdown_executors), and fails every handle it knows.
WorkersIdleMutant == TRUE
WorkersIdle == \A t \in Tasks : future[t] \notin {"pending", "running"}
FailAll ==
    /\ pc = "fault" /\ pc' = "off"
    /\ WorkersIdle
    /\ LET known == {r \in Runs : phase[r] \in {"inbox", "context"}}
           mine == {t \in Tasks : RunOf[t] \in known}
       IN /\ phase' = [r \in Runs |-> IF r \in known THEN "resolved" ELSE phase[r]]
          /\ result' = [r \in Runs |-> IF r \in known THEN "error" ELSE result[r]]
          /\ held' = held \ mine /\ waiting' = waiting \ mine /\ due' = due \ mine
    /\ UNCHANGED <<loopVars, signalled, controlVars, accepted, sequence,
                   cancelled, journalFailed, state, unresolved, ready, retries,
                   gateVars, workerVars>>

-----------------------------------------------------------------------------
Coordinator ==
    \/ Observe \/ Accept \/ ApplyUpdates \/ DrainCompletions
    \/ \E t \in Tasks : Collect(t) \/ Commit(t) \/ Admit(t)
    \/ BeginAdvance \/ \E r \in Runs : CancelUnfinished(r) \/ BeginRelease(r)
    \/ ForwardHeld \/ ReportGroups \/ PauseContext \/ Settle \/ Finish
    \/ EndAdvance \/ TakeLimits \/ EndAdmit \/ Exit \/ WakeUp
    \/ Fault \/ FailAll

Callers ==
    \/ \E r \in Runs : Submit(r) \/ Cancel(r)
    \/ SetBackground \/ Drain \/ Pause \/ Resume \/ Close

Worker(t) == WorkerStart(t) \/ WorkerEnd(t)

Next == Coordinator \/ Callers \/ \E t \in Tasks : Worker(t) \/ Elapse(t)

Spec == Init /\ [][Next]_vars

\* The thread runs whenever it is not asleep, handlers end, and time passes.
Fairness ==
    /\ WF_vars(Coordinator)
    /\ \A t \in Tasks : WF_vars(Worker(t)) /\ WF_vars(Elapse(t))

FairSpec == Spec /\ Fairness

-----------------------------------------------------------------------------
(* Properties.                                                             *)

LoopTypeOK ==
    /\ pc \in {"off", "round", "accept", "updates", "drain", "collect",
               "commit", "advance", "release", "pause", "settle", "finish",
               "limits", "admit", "exit", "sleep", "fault"}
    /\ batch \subseteq Tasks /\ visit \subseteq Runs
    /\ at \in Runs \cup {NoRun} /\ todo \subseteq Tasks
    /\ final \in BOOLEAN /\ drained \in BOOLEAN /\ signalled \in BOOLEAN
    /\ background \in BOOLEAN /\ closing \in BOOLEAN /\ draining \in BOOLEAN

RunTypeOK ==
    /\ phase \in [Runs -> {"new", "inbox", "context", "resolved"}]
    /\ accepted \in Nat /\ sequence \in [Runs -> Nat]
    /\ cancelled \subseteq Runs /\ journalFailed \subseteq Runs
    /\ result \in [Runs -> {"none", "succeeded", "failed", "cancelled",
                            "paused", "error"}]

GraphTypeOK ==
    /\ state \in [Tasks -> TaskStates] /\ unresolved \in [Tasks -> Int]
    /\ ready \subseteq Tasks /\ held \subseteq Tasks
    /\ waiting \subseteq Tasks /\ due \subseteq Tasks
    /\ retries \in [Tasks -> 0 .. Retries]

GateTypeOK ==
    /\ gateIndex \in [Runs -> Nat]
    /\ \A r \in Runs : gateIndex[r] \in 1 .. Len(GroupsOf[r]) + 1
    /\ terminal \subseteq Groups /\ reported \subseteq Groups

WorkerTypeOK ==
    /\ future \in [Tasks -> {"none", "pending", "running", "done", "error",
                             "cancelled"}]
    /\ interrupted \subseteq Tasks /\ updates \subseteq Tasks
    /\ completions \subseteq Tasks
    /\ submitted \in [Resources -> Int]

\* Every variable has its shape; a locked publication is attempted again at
\* most Retries times (_defer_publication) and the gate stays within the
\* declared order (NaturalOrderGate).
TypeOK == LoopTypeOK /\ RunTypeOK /\ GraphTypeOK /\ GateTypeOK /\ WorkerTypeOK

\* A task is queued, on a worker or done only when every task it depends on
\* has succeeded (commit_success, queue_task, finish_failed).
DependencyOrder ==
    \A t \in Tasks : state[t] \in {"queued", "running", "succeeded"}
        => \A d \in DependsOn[t] : state[d] = "succeeded"

\* The admission window counts exactly the futures of its resource, on every
\* path that ends one (_collect_completions, _cancel_unfinished, _fail_all),
\* and never exceeds its limit (_admit_resource).
WindowExact ==
    \A s \in Resources :
        /\ submitted[s] = Cardinality({t \in Futures : ResourceOf[t] = s})
        /\ submitted[s] <= Limit[s]

\* No handler of a run works on after its handle was resolved
\* (_finish_context, _fail_context, _fail_all): the session closes then and its
\* staging directory is removed.
NoOrphanWork ==
    \A t \in Tasks : future[t] \in {"pending", "running"}
        => phase[RunOf[t]] = "context"

\* A coordinator that sleeps and was not signalled, or whose thread ended, has
\* left nothing behind that it could do now (_round, wait_for_updates).  Every
\* run it keeps still has a worker, a deadline or a queue ahead of it; only a
\* strict-natural run that is drained, was cancelled or lost its journal may be
\* left with nothing but results that its gate holds back.  A queue is enough
\* even when the run is automatic, held back and cancelled: CancelResolves says
\* what becomes of such a run.
NoLostWakeup ==
    /\ pc = "sleep" /\ ~signalled =>
        /\ completions = {} /\ updates = {}
        /\ \A r \in Runs : phase[r] # "inbox"
        /\ draining \/ \A t \in ready : ~Candidate(t)
        /\ \A r \in Contexts :
              \/ Active(r) # {} \/ (Pending \cup ready) \cap TasksOf(r) # {}
              \/ /\ r \in Natural /\ held \cap TasksOf(r) # {}
                 /\ draining \/ r \in cancelled \cup journalFailed
    /\ pc = "off" => \A r \in Runs : phase[r] \in {"new", "resolved"}

\* In a strict-natural run a result is forwarded and a group announced only
\* when every earlier group has ended (NaturalOrderGate, _finish_future,
\* _release_results).
NaturalForwarding ==
    [][\A r \in Natural : \A i \in DOMAIN GroupsOf[r] :
          LET g == GroupsOf[r][i]
          IN \/ \A j \in 1 .. i - 1 : \A t \in TasksIn(GroupsOf[r][j]) :
                    state[t] \in Terminal
             \/ /\ g \in reported' => g \in reported
                /\ \A t \in TasksIn(g) :
                      state'[t] = "succeeded" => state[t] = "succeeded"]_vars

\* The coordinator keeps the promise of PlanExecution to the holders of its
\* handles, over every order of completions, drains, cancellations, faults and
\* resubmissions (commit_success, _finish_context, _fail_context, _fail_all).
Execution == INSTANCE PlanExecution WITH
    done <- {t \in Tasks : state[t] = "succeeded"},
    outcome <- result
Executes == Execution!Spec

\* A run that lost its journal between two tasks: a result committed after the
\* loss is dropped without its dependants (commit_success), and a locked
\* publication or a held result of the run is never dropped, so the run does
\* not count as stalled.  No event is left that could end it but a cancellation
\* or a drain.
Deserted(r) ==
    /\ r \in journalFailed \ cancelled /\ phase[r] = "context" /\ ~draining
    /\ Active(r) = {} /\ (Pending \cup held) \cap TasksOf(r) # {}
    /\ \E t \in TasksOf(r) :
          state[t] = "ready" /\ \E d \in DependsOn[t] : state[d] = "blocked"

\* An automatic run that the switch holds back, with no worker and no deadline.
Suspended(r) ==
    /\ r \in Automatic /\ ~background
    /\ Active(r) = {} /\ Pending \cap TasksOf(r) = {}

\* A run that was submitted is resolved, through locked destinations, failures,
\* a cancellation and a drain, unless the loss of its journal deserts it or the
\* switch holds it back (_loop, _is_stalled).
RunResolves ==
    \A r \in Runs : phase[r] \in {"inbox", "context"}
        ~> phase[r] = "resolved" \/ Deserted(r) \/ Suspended(r)

\* Drain ends every run the coordinator owns: the resident owner waits for it
\* before it leaves (drain, _pause_context).
DrainResolves ==
    \A r \in Runs : draining /\ closing ~> phase[r] \in {"new", "resolved"}

\* A run whose cancellation was requested is resolved (RunHandle.cancel,
\* _cancel_unfinished).  The request sets a token and signals nobody: a run
\* that is held back then learns of it only from another event.
CancelResolves ==
    \A r \in Runs : r \in cancelled ~> phase[r] = "resolved" \/ Suspended(r)
=============================================================================
