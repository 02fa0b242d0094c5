# AniShift: specifications of the execution core

AniShift turns anime episodes into translated, dubbed and composed files. A
resident Windows process owns the workspace: it downloads, inspects, plans and
runs graphs of tasks, journals what is done, publishes products by renaming
them into place, moves completed sets to a ready directory, and survives being
stopped at any moment. These modules specify that core, check it with TLC and
prove its safety with TLAPS.

## 1. Inventory

| component | source | state it keeps | operations | what makes it hard |
|---|---|---|---|---|
| Graph coordinator | `application/scheduler.py`, `scheduler_runtime.py`, `scheduler_contracts.py` | inbox, contexts, ready heaps, futures, per-resource counts, gate, pending publications | submit, cancel, pause, resume, drain, close, round (accept, updates, collect, advance, admit), worker start/end | one thread, many callers and workers, one condition; deadlines; faults |
| Run journal | `recovery.py` | `_Checkpoint`: remaining graph, outputs, pending publication and its file proof, remote work in flight | create, load, started, interrupted, prepare, committed, persist, relocate | crash between any two writes; a failed save |
| Sessions and service | `service.py`, `sessions.py` | run directory, claimed run ids, retained runs | submit_plan, cancel, drain, `_start_run`, `_finish_run` | threads per run, a start that fails, order of release and settle |
| Resident owner: requests | `automation.py`, `watch_state.py` | request ledger, command receipts, previews, reservations | admit, cancel, record completion, shutdown, restore at start | durable order before effect, a ledger that cannot be saved, completions that come back late |
| Publisher | `publisher.py` | staging siblings | stage, publish | interrupted copy |
| Ready moves | `ready.py` | one journal per group | prepare, defer, execute, acknowledge | crash between link, unlink and ledger; two sets of one stem |
| TTS request scheduler | `services/tts/scheduler.py` | heaps, semaphore, circuit | submit, attempt, accept, retry, cancel, close | asyncio interleavings, one runtime for several batches |
| Provider requests | `services/http_requests.py` | reads in flight, windows, cooldowns, budgets | send, share, cool down, close | sharing of one answer between operations with limits of their own |
| Acquisition, selection, subscriptions, transfers | `automation.py`, `acquisition.py`, `subscriptions.py`, `transfers.py`, ... | confirmations, batches, checks, deadlines | offer, choose, send, observe, clean up | answers late or lost, a client that restarts |
| Control | `control.py`, `platform/local_control.py` | receipts | commands over a local pipe | a repeated command |
| Library, deletion, restore | `library.py`, `platform/recycle*.py` | deletion records | delete, restore | a worker process that dies |
| Planner, discovery, inspection, search, handlers, engines, formats | the rest of `application/`, `services/` | none shared | pure or pure I/O | data, not control |
| CLI, interface, configuration, platform calls, utilities | `cli/`, `config/`, `platform/`, `utils/`, ... | presentation | | |

How they interact: the owner (one thread, a queue of commands, completions and
I/O results) writes its ledger, creates the journal of a run and calls
`AppService.submit_plan`; the service opens the session and submits the graph
to the coordinator; the coordinator calls the journal before a task starts and
around each publication; handlers on its workers call the TTS service (one event
loop, one runtime) and providers through `RequestControl`; the thread of the
run closes the session and settles the handle; a watcher thread puts the
completion on the owner's queue. A completed set is moved to ready by a pool
worker of the owner, which records each stage, rebinds the checkpoint and then
acknowledges the move. After a restart the owner walks its ledger, loads each
journal again and takes up each move that is still recorded.

What makes each part correct is listed with its properties in section 4; the
hazards are in `PROJECT.json` at the lines where they bite, those that no
property covers included.

## 2. Plan

1. **Core** (done): `GraphCoordinator` with the abstract `PlanExecution`,
   `RunJournal` with the abstract `DurableRun`.
2. **Extension** (done): `TtsScheduler`, `ProviderRequests`, `ReadyMove`,
   `RunOwner`, each with its runs and proofs.
3. **Proofs** (done): every safety invariant and action property the runs
   check, of every module, and both refinements, `DurableRun` by the journal and
   `PlanExecution` by the coordinator.
4. **Next components**, in this order: transfers and subscriptions (a torrent
   client that restarts, checks by deadline), control commands other than start
   and cancel, `validate_inputs` of the run journal.

## 3. Modules

| module | models |
|---|---|
| `GraphCoordinator` | the coordinator, its callers and workers, over any set of runs and any plan |
| `PlanExecution` | abstract: what the coordinator promises to those who submit runs |
| `CoordinatorInvariant` | the inductive invariants of the coordinator: where a task is, what the gate passed, what a sleeping thread left |
| `DurableRun` | abstract: what an accepted run promises |
| `RunJournal` | one run across processes: checkpoint, files, ledger entry |
| `RunOwner` | many requests: previews, receipts, live runs, completions, recovery |
| `ReadyMove` | completed sets that move to ready |
| `TtsScheduler` | the speech runtime and its requests |
| `ProviderRequests` | calls of several operations to one provider |
| `MC...` | the instances: plans Chain, Season, Cover, Join (coordinator), Episode, Pair (journal), and one for each other module |
| `..._proofs` | the proofs of section 6 |

A run appears at three levels that share no variable: `GraphCoordinator` has
its tasks while one process is alive, `RunJournal` has one run over many
processes with the coordinator reduced to the steps that touch the checkpoint,
and `RunOwner` has many requests with a run reduced to "live, then ended with a
result". The lower level justifies the upper one's atomic steps: `RunEnds` of
`RunOwner` is what `RunResolves` of the coordinator promises, and a request
that may be restored is one whose checkpoint `RunJournal` can load.

### GraphCoordinator

A step is what no other thread can cut. The thread's program counter `pc`
follows `_round`: `round` (the signal is observed), `accept`, `updates`,
`drain`, `collect` (one future per step), `commit` (one result per step),
`advance` (one context per step), `release`, `pause`, `settle`, `finish`,
`limits`, `admit`, `exit`, then `sleep` or `off`. `admit` holds the condition,
so no caller that takes it acts there; a cancellation takes no lock and acts
anywhere. `signalled` says whether `_signal` moved since `_round` observed it.

The heaps of `_ready` are a set with the order `Precedes` (rank of the origin,
acceptance, plan position); the window of a resource is `submitted`; the
futures are `future`; `held`, `waiting`, `due` are the results kept back by the
natural-order gate and by a locked destination before and after `retry_at`. A
journal is the fact that it may fail (`journalFailed`, once and for all); which
checkpoint it writes is `RunJournal`'s subject. A worker returns a result or
raises, also after it was interrupted. `Controls` selects the callers of an
instance. A run that ended without success can be submitted again under its
identity with what its journal left (`resubmit`). Two constants keep apart what
the code keeps apart: `Background` has the runs whose origin ranks behind those
of users, `Automatic` those that the switch (`set_background_admission`) holds
back, which may also be of the higher rank.

`PlanExecution` is its promise to the holder of a handle: a task is done after
the tasks it depends on, once, and while its run is open; an open run gets one
outcome, which is `succeeded` exactly when all of its tasks are done (a fault of
the thread may turn even that into an error); a succeeded run is not opened
again. The coordinator implements it with `done` as the tasks that succeeded
and `outcome` as the result of the handle.

Choices the code leaves open are disjuncts: the order of completions of one
batch (`_completion_order` sorts by names unrelated to plan positions), whether
a destination is locked, whether the journal records a step, what a worker does.

### RunJournal

One run and one process at a time. A file is its identity (`_FileProof`), a
number that changes when another file takes its path. `disk` is the checkpoint
file and `journal` its copy in memory; `staged` and `dest` are the staging
files and the products; `request`, `attempts`, `receipt` the owner's ledger.
Between `Prepare`, `Register` and `Commit` (the three writes of
`commit_success`) the process may end. Disturbances (`Faults`): `crash`,
`drain`, `cancel`, `save` (a checkpoint write fails), `lock` (a destination is
locked), `late` (a rename takes effect and reports an error), `worker` (a
handler raises), `start` (a run cannot be started), `ledger` (the owner's
ledger cannot be saved). `Boot` is the constructor of the owner: it removes the
directories nobody can resume.

`DurableRun` is its promise: a task is done at most once, after what it depends
on, and never undone; a product is written once; `succeeded` only when all is
done. `RunJournal` implements it with `done` computed from the checkpoint *or*
a product in place: between the rename and its confirmation the product is the
only witness, which is what the file proof is for. `charged`, `writes`,
`reopened`, `unsaved` are history variables.

### RunOwner

An item of the owner's queue is a step; the threads of the runs (`live`,
`token`) and the watchers that post completions (`posted`) step between them.
`ledger` is the request's record, `receipts` the run a start command was
answered with, `cancels` the accepted cancellations that are still pending; they
are one variable for memory and file, because what the ledger refuses to save is
taken back in memory. `previews` and `reserved` are what a client holds between
looking at a group and starting it. A completion in the code has only the
request and the result (`_Completion`); the field `of` of an element of `posted`
tells two completions of one run apart and decides nothing. `auto` is the
durable switch and `automatic` the requests made under it: while it is off, such
a request is neither restored (`Takable`, of `_restore_paused`) nor certain to
go on if it is live (`RunGoesOn`). `SetAuto` is the whole command: switched on,
it looks for paused runs at once or asks for an inspection (`inspecting`) that
does. `Boot`, `ToRestore`, `Restore` and `RestoredRuns` follow the start of the
process, its first inspection and the loop over `_restart_requests`. `Refusals`
selects the saves the ledger may refuse.

### ReadyMove

Each path of a set's directory and of the ready directory holds the set's own
file, another file or none; two links of one file are one identity. The
worker's steps are those of `_link_move`: a link, then `_verify` with the
unlink, one file after another. `journal` is the pending move on disk and
`moves` its copy in the owner; `checkpoint`, `ledgerAt`, `named` and `printed`
are the four records a move touches: the file proofs of the run checkpoint, the
group of the ledger, the transfers' confirmations, the request's fingerprint.
`Defer` is `ReadyStore.defer`: files a transfer still owns stay for a second
stage. A move is retried while the process is not ending (`leaving`) and, for a
second stage, only while Auto is on, as `_retry_ready` and `_ready_waiting`
have it. Faults: the process ends or is shut down, a save or a handle is
refused, Auto is switched off, the user puts a file in the way or removes one,
the torrent client stops; it starts and Auto is switched on freely.

### TtsScheduler

A step runs from one `await` to the next on the event loop; only the
cancellation token is set from outside. `place` follows a request through the
semaphore (`admission`), the ready and the delayed heap, the provider's call,
the acceptance and the retry callback; `worker` says which request a provider
worker has, or what it waits for; `closer` follows `close`: workers, accept
tasks, callbacks, engine. `runtime` and `batch` are the part of `TtsService` that
makes the runtime for a batch, keeps it for the next, and closes it.

### ProviderRequests

A step ends at the lock, at the transport or at the future. A call that leads
owns a job (`_perform` on the pool) and a future; one that finds a leader in
`active` follows it and looks again when the leader ran into a limit of its own
operation. `recent` is the sliding log of one provider, aged by a tick;
`cool` is `_until`, `held` a cooldown that a job noted under the lock and has
not handed over, `ledger` what the owner was told last. The providers share
only the pool, so a behaviour follows one of them.

## 4. Properties

Coordinator: `Executes` (implements `PlanExecution`), `WindowExact` (the window
counts exactly the futures and stays within its limit), `NoOrphanWork` (no
handler works for a resolved run), `NoLostWakeup`, `NaturalForwarding` (declared
order of forwarding and announcing), `RunResolves`, `DrainResolves`,
`CancelResolves`, `WorkInv` (the inductive invariant of section 6, which says
where a task may be at all, and contains `DependencyOrder`: no task is queued,
working or done before what it depends on).

`NoLostWakeup` says that a thread that sleeps without a signal has no message
unread, no run in the inbox and nothing it could admit, that every run it keeps
has a task in a queue, on a worker or waiting for its destination, and that a
thread ends only when every run is resolved. A strict-natural run that is being
drained, was cancelled or lost its journal is excepted from the third part: it
may keep nothing but results that its gate holds back, and then nobody ever
wakes the thread for it (section 7). A task in the queue counts as ahead also
while the switch holds its run back: what then has to come is the switch.

`RunResolves` and `CancelResolves` say that a run that was submitted, or whose
cancellation was requested, is resolved. Their exceptions are states in which
the code does leave a run alone (section 7); without any one of them the
property is violated on the instance. `Deserted`: the run lost its journal, a
task waits for one that was dropped with it, nothing is at work, and a
publication or a held result keeps the run from counting as stalled.
`Suspended`: the switch holds the run back and it has neither a worker nor a
deadline.

Journal: `Keeps` (implements `DurableRun`), `NoSilentRepeat` (remote work is
not dispatched twice without proof or consent), `FirstStopRecovers` (whatever
happens until the first resume, the checkpoint can be loaded), `Settles` (an
accepted run ends in the ledger), `AlwaysLoadable`, `KeepsStaging`.

Owner: `CommandOnce` (each generation of a request is what one start command,
or Auto, asked for), `OneHolder` (a group is held by one request at most: by its
live run, by a completion that is still on its way, or by a record that is
accepted), `RequestSettles` (an unfinished request is settled, restored, left to
the next start, or is an automatic one while Auto is off).

Ready moves: `NoContentLost` (a file's content is at its source or in ready),
`OthersKept` (no file but its own is overwritten or removed),
`NoSharedDestination` (two unfinished moves never have one name),
`NamedIsThere` (records never run ahead of the renames), `AllOrNothing` (without
a journal a set is wholly here or wholly there), `MoveFinishes`, `NamesFollow`.

TTS: `AdmissionBalanced` (the semaphore counts exactly the requests let in),
`OnePlace` (a request is resolved exactly when it left, and one worker has it),
`NothingLeftBehind` (after a cancellation or a close no request waits in a queue
for a call nobody makes), `ClosedQuiet` (the engine closes when nothing is under
way), `NoCallAfterStop`, `EveryRequestResolves`.

Requests: `OwnLimits` (nobody fails for another operation's deadline or budget),
`OneInFlight`, `NoStaleRead` (a read that ended is never joined), `RatesKept`
(windows and budgets), `CooldownInForce` (no deadline of a provider is
forgotten), `CallsReturn`.

`TypeOK` of `RunOwner`, `TtsScheduler` and `ReadyMove` bounds counters by what
the code promises (attempts within the recovery budget and the commands,
retries within `max_retries`, a stage within the files of its set), which is why
a mutant of a guard breaks it.

## 5. Runs

| run | instance | shows |
|---|---|---|
| `coordinator_controls` | Chain; cancel, background switch, pause, close, fault; 2 submissions, 1 retry | types, window, orphans and wake-ups under every control |
| `coordinator_natural` | Join, strict-natural; cancel, drain, resubmit | gate, promise and the inductive invariant of the proofs across a resubmission |
| `coordinator_liveness` | Cover, ready-first, automatic; cancel, drain, switch; a journal that may fail, locks (262,686 distinct states) | every run is resolved, but for the two exceptions of section 4 |
| `journal` | Episode of 4 tasks, 3 disturbances of any kind, budget 2 | the promise, remote work, recovery, settling |
| `tts` | 3 requests, 2 workers, semaphore of 2, 1 retry, one cancellation, one close (288,340 distinct states) | every request is resolved once and its admission given back |
| `requests` | 3 calls of 2 operations, pool of 1, two windows (257,477 distinct states) | reads are shared without sharing limits |
| `ready` | 2 sets of one stem, one with a download; 2 stems, 2 faults (264,942 distinct states) | a move loses nothing and finishes |
| `owner` | 2 requests of one group, a client and Auto, budget 2, refused completions (345,016 distinct states) | one holder of the group and one generation per command, through recovery and the switch |
| `coordinator_drain_natural` (violation) | Season, strict-natural; drain | a drain that never ends |
| `journal_restaging` (violation) | Pair; crash, drain | a checkpoint that can no longer be loaded |
| `journal_start_fails` (violation) | Pair; crash, failing start | proven intermediate results removed |
| `ready_stale_names` (violation) | as `ready` | a request that keeps the old name of a file |

Bounds. Chain has a dependency, two origins and one contended worker: the
smallest plan in which rank, background switch and window matter. Season has a
group that ends first although it is declared last; Join adds a task with two
parents, so an unresolved count passes through 1 and a failure of one parent
meets a success of the other. Cover is the smallest plan that reaches the state in
which a lost journal deserts a run: task 1 publishes and waits for a locked
destination, task 2 needs it, and task 3 shares the only worker with task 1, so
that it is admitted, and its start may fail to be recorded, while 1 is waiting.
The planner makes such graphs (`_compose_cover` of `planner.py`, which takes the
published audio). `MaxSubmissions` 2 gives each run one submission,
or one run a resubmission; `Retries` 1 (the code has more) has the attempt that
is retried and the one that is not. `MaxUpsets` 3 in `journal` is one
disturbance more than every defect met so far needed; `MaxAttempts` 3 leaves
room for a resume beyond the `Budget` 2 of automatic recovery.

`NoLostWakeup` is a property of `coordinator_controls`, which has no
strict-natural run. Its exceptions and the invariant it rests on were also
checked on Join, strict-natural, with cancellation and drain and without
resubmission (`Durable` {1, 3, 4}, 1,806,900 distinct states), and `Executes` on
the instance of `coordinator_controls`, with pauses and faults (1,354,703).

`tts` has one request more than workers and than the semaphore, so a request
waits for admission while one is retried; ranks differ, so a worker chooses.
`requests` has two calls of one read in operations with different limits, and a
third that spends the budget of one of them; a pool of one thread makes a job
wait in the pool's queue; `Cooldowns` of 0, 1 and 2 ticks let a shorter delay
follow a longer one. `ready` needs two stems and no more: the second set finds
the first stem reserved, taken, or free again; two faults cut a move, and cut
its recovery; the user intervenes in one of them (`Untouched`; with two
interventions, 343,823 states, the properties hold as well, as they do with an
Auto that is off from the start or switched off freely, 632,676 states). In
`owner` one group is enough for `OneHolder`: its two requests compete for it as
the client's and as Auto's. With two clients (4,474,348 distinct states)
`TypeOK`, `CommandOnce` and `OneHolder` hold; `RequestSettles` takes too long
there. `Refusals` is `{"end"}`: if the ledger may also refuse to record that a
start failed (`"start"`), a request stays accepted that nothing works on, the
group is admitted again, and `OneHolder` is violated. Deadlock is checked in
`owner`, where the process can always be started again; elsewhere a system
without work, or a recorded run, is a legitimate end.

Fairness. `GraphCoordinator`: weak fairness of the coordination thread as a
whole (a daemon thread that is always scheduled; asleep, its steps are not
enabled), of each worker (handlers end: they have timeouts and interruption) and
of time. `RunJournal`: weak fairness of the run and of the owner, which is
started again after it stopped. `RunOwner`: weak fairness of recovery, of each
run's end and of the completions in the queue, except the end of an automatic
run while Auto is off (`RunGoesOn`), for which the coordinator admits no task;
not of shutdown, start, the switch or clients, so `RequestSettles` promises
nothing to a process that is not up. `TtsScheduler`: weak fairness of the event
loop as a whole. `ProviderRequests`: weak fairness of the threads and the clock
together. `ReadyMove`: strong fairness of each set's worker and record, because
the code retries with a back-off for as long as a handle is refused, and because
the owner is now and then busy recording another set. A step that may not be
taken (a second stage with Auto off, any retry of a process that is ending) is
not fair, and `Held` excepts its set; so it does not matter that strong fairness
would serve a set between two turns of the switch. The faults are bounded.
Users, callers and faults never have fairness.

## 6. Proofs

Each theorem is for every value of the constants under the module's named
assumptions. They have one lemma per action, and one step in it per conjunct
the action can disturb. The invariants were checked with TLC on the instances of
section 5 before they were proved.

`GraphCoordinator_proofs`, from `PlanAssumption` (finite numbered tasks,
dependencies inside one group of one run, as `_validate_plan` and the planner
ensure) and `LimitAssumption`:

- `TypeCorrect == Spec => []TypeOK`. `TypeOK` is not inductive alone: the steps
  that work on the context `at` need it to be a run, so `Advancing` (the thread
  is in those places only while a context is being advanced) is carried with
  it. `SkipInOrder` is the arithmetic of the natural-order gate; it takes the
  least element of a set of positions from the well-foundedness of `<` on the
  naturals.

`CoordinatorOrder_proofs`, from the same assumptions and `NoRetake`:

- `Invariance == Spec => [](WorkInv /\ LoopInv)`, the inductive invariant of
  `CoordinatorInvariant`. `DependencyOrder` alone is not inductive: a commit
  queues dependants by a counter, so `Counted` ties the counter to the states
  of the dependencies, and `Entitled` says that whatever is queued, on a worker,
  held or about to be committed was entitled to it and is not done, or the
  counter would be decremented twice. `NoOrphanWork` needs `Owned` (everything
  taken up belongs to a context), `Working` (a task with a future is not
  terminal, so a context whose tasks are all terminal has none) and, for
  `Working` to survive a commit or a cancellation, `Apart` (a task is in one
  place at a time). `LoopInv` is what the thread's place implies: a context is
  finished only while all of its tasks are terminal.
- `OrderKept` (`DependencyOrder`), `OrphansNone`, `WindowKept`. The last adds cardinalities: a
  future leaves the window it entered, and none enters twice because of `Apart`.

  Most steps are `Quiet`: they end no task well and take none up, so
  `Entitled`, `Counted` and `DependencyOrder` survive by `QuietKeeps`; only
  `Submit`, `Accept` and a successful commit are argued in full. `StoppedWaits`
  shows that the breadth-first walk of `finish_failed` stops only tasks that
  still await something, by exhibiting a closed set.

  `NoRetake` says that an instance has faults of the thread or resubmissions, not
  both. With both, a future of the failed attempt can meet the context of the
  next one (the hazard at `scheduler.py:380`), a task then has a stale and a new
  future at once, and the model, which keeps one per task, claims nothing.

- `ExecutesPlans == Spec => Executes`: the refinement of `PlanExecution`. A
  commit does its task by `Entitled` (not done yet, dependencies done); that its
  run is open needs `OpenInv`: results are on their way to a commit only for
  contexts (`Awaited`), and only a resolved run has an outcome (`Open`).
  `ResultDone` and `OtherDone` show that no other step does or undoes a task,
  `OutcomeTrue` that the worst task of an ended context tells the truth.

`CoordinatorRounds_proofs`, from the same assumptions, `GroupsAssumption` (every
task is in a group its plan declares, and declares once; an element of `Groups`
is a group of one plan, since contexts share no state) and `OrderAssumption` (a
plan lists its tasks in topological order, as `ExecutionPlan.__post_init__`
checks):

- `Moved`, `Enqueued` and `Released` summarise what a step may do to the tasks:
  which states change into which, how a task enters a queue, and that a task the
  coordinator lets go of has ended or its run has. Everything below rests on
  `StepMoves` and not on the actions.
- `GateKept`, `ForwardedInOrder == Spec => NaturalForwarding`, under `NoRetake`.
  `GateInv` says that every group called terminal has ended, so have all before
  the cursor, and that a result on its way (locked, due or about to be
  committed) is of no group beyond the cursor. The last is what makes a locked
  publication safe: it was let through when its group was the current one, and
  the cursor never goes back while its run is open.
- `WakeKept`, `NoWakeupLost == Spec => []NoLostWakeup`, under `Once` (no run is
  submitted twice). The thread is followed through a whole round by what it may
  know there as long as no signal came (`Told`: behind `drain` nothing is
  unread, behind `admit` nothing can be admitted), and what it left is `Advanced`:
  a context it looked at and kept has something ahead of it. That needs every
  queued or running task to be where the coordinator will find it (`Placed`), and
  tells `Settle` that a context which is not stalled has a task under way, or
  results that are held. For those `FlowInv` is needed: an undisturbed run waits
  only for tasks that may still succeed (`Sound`), and the gate stands before a
  group that has not ended (`GateOpen`, `GateStands`); the least task of that
  group that has not ended waits for nothing (`GroupMoves`, by the
  well-foundedness of `<` and `OrderAssumption`), so it is under way. `Excused`
  names the runs for which this argument, and the code, fail.

  With resubmissions the theorem is false: `Unstarted` breaks when a
  `TaskStarted` of an earlier attempt is read (section 7).

`RunJournal_proofs`, from `RunAssumption`:

- `TypeCorrect`, and `Implements == Spec => Keeps`: the refinement of
  `DurableRun`. The abstract `done` jumps at the rename, and the checkpoint
  follows later, or after a crash, or never if its save fails. So the invariant
  says: a product in place that a checkpoint still has to do is the one it
  intends, with its staging file gone (`Recognised`), which is what makes
  `Reconciled` stutter on the promise; memory is ahead of the file only by such
  products (`Ahead`); one task is between its intent and its record
  (`Prepared`); what may still run or be committed is not done (`Undone`, or a
  task would be done twice); what runs is based on what is durable (`Founded`,
  or a task would be done before what it depends on, or a success recorded that
  is not). Every action preserves it and does one task, records the success, or
  stutters (`Promised`).
- `NoneRepeated == Spec => NoSilentRepeat`, with `ChargedInv`: whatever was
  dispatched without proof or consent is marked in the file and in memory, or
  done there, so recovery refuses the run or does not dispatch it.
- `FirstRecovers == Spec => []FirstStopRecovers`, with `FirstInv`: until the
  first resume, both checkpoints agree with the files (`Agrees`), since only a
  task that is working replaces its staging file and no task works again whose
  publication is pending. A resume breaks just that, which is `journal_restaging`.

`RunOwner_proofs`, from the assumptions on groups, commands, budget and names:

- `TypeCorrect`, `CommandsOnce`, `HolderAlone`. `TypeOK` holds the bound of the
  attempts and needs `Budgeted`: attempts stay within the budget and one more for
  each receipt of a start, since only a command goes beyond the budget. `Untouched` says that a
  request nobody asked for has no trace. `HolderAlone`, under `"start" \notin
  Refusals`, is not a matter of the claim of the group alone (`Claimable`): a
  request whose completion is on its way holds its group without being live.
  `HolderInv` adds to the property that a paused completion exists only in a
  process that is shutting down, which admits nothing (`PausedShutting`), and
  that what recovery has still to take up is the record of an unfinished request
  (`JobsUnfinished`), which `CanRestore` compares with the ledger.

`TtsScheduler_proofs`, from the assumptions on requests, limits, workers, names:

- `TypeCorrect`, `AdmissionKept`, `PlacesKept`, `QueuesEmptied`,
  `EngineClosedQuiet`, `NoLateCall`. `Phases` ties the closer, the runtime and
  the workers to each other (what is left once `close` has joined the workers,
  the accept tasks, the callbacks); `Tries` bounds the attempts by the place of a
  request. `AdmissionBalanced` adds cardinalities.

`ReadyMove_proofs`, from `SetsAssumption` and `BoundsAssumption`:

- `TypeCorrect`, `ContentKept`, `DestinationsApart`, `RecordsTrue`,
  `Recoverable`, `OthersSafe`. `Linked` says that between
  link and unlink a file is at its destination; `Behind`, that the files of a stage
  a worker no longer lists, and those a checkpoint calls moved, have left their
  source; `InOrder` orders the records: the checkpoint is bound before the ledger
  is written, and the ledger before the move is acknowledged. `Busy` and `OneMove`
  keep worker, owner and journal on one move. A crash at any point leaves a state of
  the same shape, because `Boot` reads the journal back.

`ProviderRequests_proofs`, from `CallsAssumption`:

- `TypeCorrect`, `LimitsOwn`, `ReadsShared`, `ReadsFresh`, `CooldownsKept`,
  `RatesAreKept`. `Registered` says that a
  shared job under way is the registered leader of its key, and the reverse;
  `LeadsOnce`, that a call with a job follows itself and a waiting call follows
  some call; `OwnOutcome`, that a job fails for the limits of its own operation
  only. `RatesAreKept` has two parts. Budgets count calls with finite
  cardinalities (`BudgetsKept`). A window that holds too many requests would
  show in the log: the log is in the order of sending (`Ordered`), and the
  request that would be one too many of a window is older than its span
  (`Spaced`). `Forgotten`, which pops the oldest, drops only what no window needs.

Only model-checked: liveness, since fairness and `ENABLED` are out of the
prover's reach. That is `RunResolves`, `DrainResolves`, `CancelResolves`,
`Settles`, `RequestSettles`, `MoveFinishes`, `EveryRequestResolves` and
`CallsReturn`.

## 7. Findings

Four runs violate what the repository says of itself; `PROJECT.json` quotes the
lines: a strict-natural drain that hangs, a re-staged publication that makes a
run impossible to load, a failed start that deletes what the run was to resume
from, and a set moved in two stages whose request keeps old names.

Met while modelling, and not contradicted by any statement of the repository,
so no run claims them:

- A strict-natural run can hang without a drain. A publication that was locked
  falls due, `_advance_contexts` finds the token clear, the cancellation comes,
  and `commit_success` refuses: `_finish_error` cancels that task alone, its
  dependants stay unqueued, and results of a later group are held.
  `_is_stalled` (`scheduler.py:761`) is false because of them and
  `RunHandle.cancel` wakes nobody, so the run sleeps until some other signal.
  TLC finds this on Join, and `NoLostWakeup` excepts it.
- A run that loses its journal can stay open for ever. A publication waits for a
  locked destination; the start of another task cannot be recorded
  (`scheduler.py:482-491`), which fails that task and, unlike `_finish_error`,
  does not block the rest of the graph. The retry of the publication finds the
  journal failed and returns (`scheduler_runtime.py:440-452`): its task is
  blocked, its dependants stay ready in no queue, and its entry stays in
  `pending_publications`. `_is_stalled` is false because of it, and because its
  deadline has passed `_retry_timeout` is 0, so the thread does not even sleep.
  Only a cancellation or a drain ends the run. In a strict-natural run a held
  result does the same. `Deserted` describes these states, and TLC reaches them
  in `coordinator_liveness`.
- A cancelled run of Auto that the switch holds back is not resolved while it has
  neither a worker nor a deadline: `AppService.cancel` (`service.py:476`) and
  `RunHandle.cancel` set a token and signal nobody, so the thread sleeps until an
  unrelated signal. `Suspended` describes it.
- A `TaskStarted` carries its run and task and not the attempt. Read after the
  run was resolved and submitted again, it moves a queued task of the new attempt
  to running (`scheduler_runtime.py:68`); a cancellation then drops the task from
  its queue and does not end it (`scheduler.py:642-664`), and the run is never
  resolved. This is why `NoWakeupLost` assumes `Once`.
- A cancellation recorded after a drained run ended is overwritten by the
  paused completion, and the next start resumes the run (`automation.py:7960`).
- A cooldown is handed to the owner after the lock was released, and the owner
  replaces the saved one without taking the later (`http_requests.py:273`,
  `automation.py:5093`), so after a restart the shorter of two may be in force.
- Two sets of one stem whose suffixes are disjoint may be given one destination
  (`ready.py:213-224`); no file of theirs collides.

## 8. Not modelled

Contents of files, names, formats, probes, scores, prompts and providers: data
that no control state depends on. The planner is assumed (its graphs are the
constants). The operating system's guarantees (one resident by process lock,
atomic rename, directory notifications) are assumed. `pause_runs` and
`resume_runs` are in the model of the coordinator although nothing in
production calls them.

Left out of the modules:

- `RunOwner`: groups that are being relocated or deleted, which source versions
  Auto takes and the directories for which it is switched by itself, sessions
  bound to a client, the refusal of a resume whose journal has another plan than
  its preview (the model allows it), the products and ready parts of a
  completion, the content of journals (that is `RunJournal`).
- `ReadyMove`: the count of attempts and its back-off (fairness stands for
  them), groups that are being deleted (`_deleting_groups`, which `_retry_ready`
  skips), and the window between
  verifying a file and unlinking its source, in which the user could replace it.
- `TtsScheduler`: the audio, and callbacks that raise.
- `ProviderRequests`: clocks that jump, and the traffic of two providers at once.
- `RunJournal`: `validate_inputs`, for sources that change under a run.

The components planned in section 2 and those that are data or presentation are
listed with their reasons in `PROJECT.json`. What the modules cover is the
execution core; most of the repository's lines are planning, scoring, formats,
providers and the interface, which keep no state that steps of several actors
share.
