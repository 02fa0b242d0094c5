----------------------------- MODULE RunJournal -----------------------------
(***************************************************************************)
(* One accepted run across processes: the checkpoint that survives         *)
(* (application/recovery.py), the commit of a result through it            *)
(* (scheduler_runtime.py, commit_success and ArtifactStore.register), and  *)
(* the resident owner's record of the run (automation.py, _admit,          *)
(* _record_completion, _restore_runs).                                     *)
(*                                                                         *)
(* A file is its identity (size, time, device and inode of _FileProof): a  *)
(* number that changes whenever another file takes the path, 0 when there  *)
(* is none.  What the coordinator does with the run while it is alive is   *)
(* GraphCoordinator; here a task is waiting, working, or has a result that *)
(* the single coordination thread takes through prepare, rename and        *)
(* committed, and the process may end between any two of these.            *)
(***************************************************************************)
EXTENDS Integers, FiniteSets

CONSTANTS
    Tasks,      \* the tasks of the accepted plan
    DependsOn,  \* [Tasks -> SUBSET Tasks]
    Durable,    \* tasks that publish a product by renaming its staging file
    InPlace,    \* durable tasks that stage by copying over the same file
    Remote,     \* network or paid tasks
    Budget,     \* external_retry_budget of the policy
    Faults,     \* what may disturb the run in this instance
    MaxUpsets,  \* bound on the number of disturbances
    MaxAttempts,\* bound on attempts, for a user who keeps resuming
    NoTask

ASSUME RunAssumption ==
    /\ IsFiniteSet(Tasks) /\ NoTask \notin Tasks
    /\ DependsOn \in [Tasks -> SUBSET Tasks]
    /\ InPlace \subseteq Durable /\ Durable \subseteq Tasks
    /\ Remote \subseteq Tasks
    /\ Budget \in Nat /\ MaxUpsets \in Nat /\ MaxAttempts \in Nat

VARIABLES
    \* what survives the process
    disk,       \* the checkpoint file
    staged,     \* [Tasks -> identity of the file in the run directory]
    dest,       \* [Tasks -> identity of the published product]
    request,    \* RequestState in the owner's ledger
    attempts,   \* ProcessingRequest.attempts
    receipt,    \* whether an accepted cancellation is still pending
    \* the resident owner
    owner,      \* down, restoring, idle, running, or closed: a run that ended
                \* and whose completion the owner has not recorded yet
    stopping,   \* subset of {"drain", "cancel"}
    outcome,    \* what the run in memory ended with
    journal,    \* RunJournal._checkpoint in memory
    broken,     \* RunJournal._failed
    state,      \* [Tasks -> task state of the run in memory]
    committing, \* the task whose result is being committed, or NoTask
    renamed,    \* whether its store.register already returned
    \* history and bounds
    writes,     \* [Tasks -> identities given to its staging file so far]
    charged,    \* remote work dispatched, with neither proof nor consent since
    reopened,   \* whether the run was ever resumed from its checkpoint
    unsaved,    \* whether the ledger ever failed to record a completion
    upsets      \* disturbances so far

fileVars == <<staged, dest, writes>>
ledgerVars == <<request, attempts, receipt>>
ownerVars == <<owner, stopping, outcome>>
journalVars == <<disk, journal, broken>>
workVars == <<state, committing, renamed>>
historyVars == <<charged, reopened, unsaved>>
vars == <<fileVars, ledgerVars, ownerVars, journalVars, workVars, historyVars,
          upsets>>

None == [t \in Tasks |-> 0]
Fresh == [remaining |-> Tasks, outputs |-> None, pending |-> NoTask,
          proof |-> 0, inflight |-> {}]
Open == {"accepted", "paused"}

Init ==
    /\ disk = Fresh /\ staged = None /\ dest = None
    /\ request = "none" /\ attempts = 0 /\ receipt = FALSE
    /\ owner = "idle" /\ stopping = {} /\ outcome = "none"
    /\ journal = Fresh /\ broken = FALSE
    /\ state = [t \in Tasks |-> "todo"] /\ committing = NoTask /\ renamed = FALSE
    /\ writes = None /\ charged = {} /\ reopened = FALSE
    /\ unsaved = FALSE /\ upsets = 0

\* A disturbance of an enabled kind, while the bound allows one.
Upset(kind) ==
    /\ kind \in Faults /\ upsets < MaxUpsets
    /\ upsets' = upsets + 1

-----------------------------------------------------------------------------
(* The checkpoint.                                                         *)

\* Where the output of t is kept: its product, or its file in the run directory.
File(t) == IF t \in Durable THEN dest[t] ELSE staged[t]

CompletedMutant(j, t, file) ==
    [j EXCEPT !.remaining = @ \ {t}, !.outputs[t] = file,
              !.pending = NoTask, !.proof = 0, !.inflight = {}]

\* _completed
Completed(j, t, file) ==
    [j EXCEPT !.remaining = @ \ {t}, !.outputs[t] = file,
              !.pending = NoTask, !.proof = 0, !.inflight = @ \ {t}]

\* _reconcile_publication: whether it can tell, and what it makes of j
Moved(j) == j.pending # NoTask /\ staged[j.pending] = 0
Conclusive(j) == Moved(j) => dest[j.pending] = j.proof
ReconciledMutant(j) ==
    IF Moved(j) THEN [j EXCEPT !.pending = NoTask, !.proof = 0] ELSE j
Reconciled(j) ==
    IF Moved(j) THEN Completed(j, j.pending, dest[j.pending]) ELSE j

\* RunJournal.load: reconcile, then validate_outputs.  Without tasks left only
\* products are required.  Inputs do not change in this model.
Loadable(j) ==
    /\ Conclusive(j)
    /\ LET k == Reconciled(j)
       IN \A t \in Tasks : k.outputs[t] # 0 /\ (k.remaining # {} \/ t \in Durable)
            => File(t) = k.outputs[t]

-----------------------------------------------------------------------------
(* The run in memory.                                                      *)

\* Tasks that need t, directly or through others.
Behind(t) ==
    {u \in Tasks : \A B \in SUBSET Tasks :
        (\A v \in Tasks : DependsOn[v] \cap (B \cup {t}) # {} => v \in B) => u \in B}

\* finish_failed
Failed(t) ==
    [u \in Tasks |-> IF u = t THEN "failed"
                     ELSE IF u \in Behind(t) /\ state[u] = "todo" THEN "blocked"
                     ELSE state[u]]

\* finish_failed or finish_cancelled, as _finish_error chooses
Ended(t) == IF "cancel" \in stopping THEN [state EXCEPT ![t] = "cancelled"]
            ELSE Failed(t)

\* _block_uncheckpointed
Halted(st) ==
    [u \in Tasks |-> IF st[u] \in {"todo", "result", "locked"} THEN "blocked"
                     ELSE st[u]]

\* A write of the checkpoint that succeeds, and one that fails: _save keeps the
\* old file and the old checkpoint, and the journal refuses every later step.
Save(j) == disk' = j /\ journal' = j /\ UNCHANGED <<broken, upsets>>
SaveFails(kept) ==
    /\ Upset("save")
    /\ broken' = TRUE /\ journal' = kept /\ UNCHANGED disk

Alive == owner = "running"
Free == Alive /\ committing = NoTask

\* The journal's mark of remote work, made before it is dispatched (started)
MarkedMutant(j, t) == [j EXCEPT !.inflight = @ \cup {t}]
Marked(j, t) == IF t \in Remote THEN [j EXCEPT !.inflight = @ \cup {t}] ELSE j

\* _submit_task
Dispatch(t) ==
    /\ Free /\ stopping = {} /\ ~broken
    /\ state[t] = "todo" /\ \A d \in DependsOn[t] : state[d] = "done"
    /\ \/ /\ Save(Marked(journal, t))
          /\ state' = [state EXCEPT ![t] = "working"]
          /\ charged' = charged \cup ({t} \cap Remote)
       \/ /\ t \in Remote /\ SaveFails(journal)
          /\ state' = Failed(t)
          /\ UNCHANGED charged
    /\ UNCHANGED <<fileVars, ledgerVars, ownerVars, committing, renamed, reopened,
                   unsaved>>

\* The handler leaves a validated file in the run directory.  Copying over a
\* file that is already there and taking over the times of the source gives
\* the same identity again.
Stage(t) ==
    IF t \in InPlace /\ staged[t] # 0
    THEN UNCHANGED <<staged, writes>>
    ELSE /\ writes' = [writes EXCEPT ![t] = @ + 1]
         /\ staged' = [staged EXCEPT ![t] = writes[t] + 1]

WorkerEnds(t) ==
    /\ Alive /\ state[t] = "working"
    /\ Stage(t)
    /\ state' = [state EXCEPT ![t] = "result"]
    /\ UNCHANGED <<dest, ledgerVars, ownerVars, journalVars, committing, renamed,
                   historyVars, upsets>>

\* The handler raises.  ArtifactPublisher.stage removes the copy it was making.
\* A task the shutdown interrupted is taken up again at the next start, once
\* its mark of remote work is cleared (_finish_interrupted).
WorkerFails(t) ==
    /\ Free /\ state[t] = "working"
    /\ \/ staged' = staged
       \/ t \in InPlace /\ staged' = [staged EXCEPT ![t] = 0]
    /\ \/ /\ stopping = {"drain"} /\ ~broken
          /\ \/ /\ IF t \in journal.inflight
                   THEN Save([journal EXCEPT !.inflight = @ \ {t}])
                   ELSE UNCHANGED <<journalVars, upsets>>
                /\ charged' = charged \ {t}
                /\ state' = [state EXCEPT ![t] = "cancelled"]
             \/ /\ t \in journal.inflight /\ SaveFails(journal)
                /\ state' = Halted([state EXCEPT ![t] = "cancelled"])
                /\ UNCHANGED charged
       \/ /\ stopping = {"drain"} /\ broken
          /\ state' = Halted([state EXCEPT ![t] = "cancelled"])
          /\ UNCHANGED <<journalVars, charged, upsets>>
       \/ /\ "cancel" \in stopping
          /\ state' = [state EXCEPT ![t] = "cancelled"]
          /\ UNCHANGED <<journalVars, charged, upsets>>
       \/ /\ Upset("worker")
          /\ state' = IF broken THEN Halted(Ended(t)) ELSE Ended(t)
          /\ UNCHANGED <<journalVars, charged>>
    /\ UNCHANGED <<dest, writes, ledgerVars, ownerVars, committing, renamed,
                   reopened, unsaved>>

\* A cancelled run drops its results.
Discard(t) ==
    /\ Free /\ "cancel" \in stopping /\ state[t] \in {"result", "locked", "todo"}
    /\ state' = [state EXCEPT ![t] = "cancelled"]
    /\ UNCHANGED <<fileVars, ledgerVars, ownerVars, journalVars, committing,
                   renamed, historyVars, upsets>>

\* The intent saved before the destination is replaced: whose file, which file
ArmedMutant(j, t) == [j EXCEPT !.pending = t, !.proof = dest[t]]
Armed(j, t) == [j EXCEPT !.pending = t, !.proof = staged[t]]

\* commit_success up to journal.prepare, for a new result or a locked one.  An
\* unchanged pending result is not saved again; its file may have changed.
Prepare(t) ==
    /\ Free /\ "cancel" \notin stopping /\ state[t] \in {"result", "locked"}
    /\ LET j == Reconciled(journal)
           proceed == committing' = t /\ UNCHANGED state
           stop == committing' = NoTask
       IN \/ /\ broken
             /\ state' = [state EXCEPT ![t] = "blocked"]
             /\ stop /\ UNCHANGED <<journalVars, upsets>>
          \/ /\ ~broken /\ ~Conclusive(journal)
             /\ state' = Ended(t)
             /\ stop /\ UNCHANGED <<journalVars, upsets>>
          \/ /\ ~broken /\ Conclusive(journal) /\ (t \notin Durable \/ j.pending = t)
             /\ journal' = j
             /\ proceed /\ UNCHANGED <<disk, broken, upsets>>
          \/ /\ ~broken /\ Conclusive(journal) /\ t \in Durable
             /\ IF staged[t] = 0
                THEN /\ journal' = j /\ state' = Ended(t)
                     /\ stop /\ UNCHANGED <<disk, broken, upsets>>
                ELSE \/ /\ Save(Armed(j, t)) /\ proceed
                     \/ /\ SaveFails(j) /\ stop
                        /\ state' = Halted(Ended(t))
    /\ renamed' = FALSE
    /\ UNCHANGED <<fileVars, ledgerVars, ownerVars, historyVars>>

Move(t) ==
    /\ dest' = [dest EXCEPT ![t] = staged[t]]
    /\ staged' = [staged EXCEPT ![t] = 0]
    /\ UNCHANGED writes

\* ArtifactStore.register.  An intermediate result stays where it is.  The
\* rename may succeed, find its destination locked, be refused, or take effect
\* and still report an error.
Register(t) ==
    /\ Alive /\ committing = t /\ ~renamed
    /\ \/ /\ t \in Durable => "cancel" \notin stopping /\ staged[t] # 0
          /\ IF t \in Durable THEN Move(t) ELSE UNCHANGED fileVars
          /\ renamed' = TRUE
          /\ UNCHANGED <<state, committing, upsets>>
       \/ /\ t \in Durable /\ "cancel" \notin stopping /\ staged[t] # 0
          /\ Upset("lock")
          /\ state' = [state EXCEPT ![t] = "locked"] /\ committing' = NoTask
          /\ UNCHANGED <<fileVars, renamed>>
       \/ /\ t \in Durable /\ "cancel" \notin stopping /\ staged[t] # 0
          /\ Upset("late")
          /\ Move(t)
          /\ \E end \in {"locked", "failed"} :
                state' = IF end = "failed" THEN Ended(t)
                         ELSE [state EXCEPT ![t] = "locked"]
          /\ committing' = NoTask
          /\ UNCHANGED renamed
       \/ /\ \/ "cancel" \in stopping /\ t \in Durable /\ UNCHANGED upsets
             \/ staged[t] = 0 /\ UNCHANGED upsets
             \/ Upset("worker")
          /\ state' = Ended(t) /\ committing' = NoTask
          /\ UNCHANGED <<fileVars, renamed>>
    /\ UNCHANGED <<ledgerVars, ownerVars, journalVars, historyVars>>

\* journal.committed
Commit(t) ==
    /\ Alive /\ committing = t /\ renamed
    /\ committing' = NoTask /\ renamed' = FALSE
    /\ \/ /\ Save(Completed(journal, t, File(t)))
          /\ state' = [state EXCEPT ![t] = "done"]
       \/ /\ SaveFails(journal)
          /\ state' = Halted(Ended(t))
    /\ UNCHANGED <<fileVars, ledgerVars, ownerVars, historyVars>>

\* The worst task state of the run, or paused when the shutdown left work
Result ==
    LET held == {t \in Tasks : state[t] \in {"cancelled", "todo"}}
    IN IF "cancel" \in stopping /\ held # {} THEN "cancelled"
       ELSE IF "drain" \in stopping /\ held # {} THEN "paused"
       ELSE IF \A t \in Tasks : state[t] = "done" THEN "succeeded"
       ELSE "failed"

\* The coordinator resolves the run and _finish_run closes its session: the run
\* directory is removed after success and kept otherwise.
Finish ==
    /\ Free /\ \A t \in Tasks : state[t] \notin {"working", "result", "locked"}
    /\ \/ stopping # {} \/ broken
       \/ \A t \in Tasks : state[t] # "todo"
    /\ "cancel" \in stopping => \A t \in Tasks : state[t] # "todo"
    /\ owner' = "closed" /\ outcome' = Result
    /\ staged' = IF Result = "succeeded" THEN None ELSE staged
    /\ UNCHANGED <<dest, writes, ledgerVars, stopping, journalVars, workVars,
                   historyVars, upsets>>

-----------------------------------------------------------------------------
(* The owner.                                                              *)

\* Nothing of the run is left in memory.
Unload(st) ==
    /\ owner' = st /\ stopping' = {} /\ outcome' = "none"
    /\ journal' = disk' /\ broken' = FALSE
    /\ state' = [t \in Tasks |-> "todo"] /\ committing' = NoTask
    /\ renamed' = FALSE

Accepted(j) ==
    /\ owner' = "running" /\ stopping' = {} /\ outcome' = "none"
    /\ disk' = j /\ journal' = j /\ broken' = FALSE
    /\ state' = [t \in Tasks |-> IF t \in j.remaining THEN "todo" ELSE "done"]
    /\ committing' = NoTask /\ renamed' = FALSE
    /\ UNCHANGED fileVars

\* _start_run raises after the session was entered, before the coordinator has
\* the run: the session is closed as it is, and the run directory is removed.
StartFails(j) ==
    /\ Upset("start")
    /\ disk' = j /\ Unload("idle")
    /\ staged' = None /\ UNCHANGED <<dest, writes>>

\* _admit of a new run
Accept ==
    /\ owner = "idle" /\ request = "none"
    /\ attempts' = 1
    /\ \/ Accepted(Fresh) /\ request' = "accepted" /\ UNCHANGED upsets
       \/ StartFails(Fresh) /\ request' = "failed"
    /\ UNCHANGED <<receipt, historyVars>>

\* _admit of a run that has a checkpoint: load, persist, record, submit
Reopen(more) ==
    LET j == Reconciled(disk)
    IN /\ attempts' = attempts + more
       /\ \/ Accepted(j) /\ request' = "accepted" /\ UNCHANGED upsets
          \/ StartFails(j) /\ request' = "failed"
       /\ reopened' = TRUE

\* _record_completion: the ledger may refuse to be saved
RecordCompletion ==
    /\ owner = "closed"
    /\ UNCHANGED disk
    /\ Unload(IF "drain" \in stopping THEN "down" ELSE "idle")
    /\ \/ request' = outcome /\ UNCHANGED <<upsets, unsaved>>
       \/ Upset("ledger") /\ UNCHANGED request /\ unsaved' = TRUE
    /\ UNCHANGED <<fileVars, attempts, receipt, charged, reopened>>

\* _finish_local_command: the token of an active run, then the ledger
Honour ==
    /\ stopping' = IF Alive THEN stopping \cup {"cancel"} ELSE stopping
    /\ request' = IF request \in Open THEN "cancelled" ELSE request
    /\ receipt' = FALSE

\* _cancel saves the order before its effect; when the effect cannot be saved
\* the order stays pending.
Cancel ==
    /\ Upset("cancel") /\ owner # "down" /\ request \in Open /\ ~receipt
    /\ \/ Honour
       \/ /\ stopping' = IF Alive THEN stopping \cup {"cancel"} ELSE stopping
          /\ receipt' = TRUE /\ UNCHANGED request
    /\ UNCHANGED <<fileVars, attempts, owner, outcome, journalVars, workVars,
                   historyVars>>

\* _finish_pending_commands, before the next command and on every poll
FinishCommand ==
    /\ owner # "down" /\ receipt
    /\ Honour
    /\ UNCHANGED <<fileVars, attempts, owner, outcome, journalVars, workVars,
                   historyVars, upsets>>

\* _begin_shutdown: the owner leaves once no run is active
Drain ==
    /\ Upset("drain") /\ owner # "down" /\ "drain" \notin stopping
    /\ IF owner \in {"running", "closed"}
       THEN /\ stopping' = stopping \cup {"drain"}
            /\ UNCHANGED <<owner, outcome, journalVars, workVars>>
       ELSE UNCHANGED disk /\ Unload("down")
    /\ UNCHANGED <<fileVars, ledgerVars, historyVars>>

Crash ==
    /\ Upset("crash") /\ owner # "down"
    /\ UNCHANGED disk /\ Unload("down")
    /\ UNCHANGED <<fileVars, ledgerVars, historyVars>>

\* The requests whose restart the owner resumes (_restart_requests)
ToRestoreMutant == request = "accepted"
ToRestore == request \in Open

\* The constructor removes the directories of runs nobody can resume; serve
\* finishes a pending order first, if the ledger can be saved.
Boot ==
    /\ owner = "down"
    /\ staged' = IF request \in Open \/ (request = "failed" /\ Loadable(disk))
                 THEN staged ELSE None
    /\ owner' = IF ToRestore THEN "restoring" ELSE "idle"
    /\ \/ receipt /\ Honour /\ UNCHANGED upsets
       \/ /\ receipt => Upset("ledger")
          /\ ~receipt => UNCHANGED upsets
          /\ UNCHANGED <<stopping, request, receipt>>
    /\ UNCHANGED <<dest, writes, attempts, outcome, journalVars, workVars,
                   historyVars>>

\* _resume_restored refuses what it cannot repeat safely
Refused ==
    \/ ~Loadable(disk)
    \/ Reconciled(disk).inflight # {}
    \/ /\ Reconciled(disk).remaining # {}
       /\ request # "paused" /\ attempts >= Budget

\* _restore_runs
Restore ==
    /\ owner = "restoring"
    /\ \/ /\ request \in Open /\ Refused
          /\ request' = "failed"
          /\ UNCHANGED disk /\ Unload("idle")
          /\ UNCHANGED <<fileVars, attempts, reopened, upsets>>
       \/ /\ request \in Open /\ ~Refused
          /\ Reopen(IF request = "paused" THEN 0 ELSE 1)
       \/ /\ request \notin Open
          /\ UNCHANGED disk /\ Unload("idle")
          /\ UNCHANGED <<fileVars, request, attempts, reopened, upsets>>
       \/ \* the checkpoint cannot be persisted
          /\ request \in Open /\ ~Refused /\ Upset("save")
          /\ request' = "failed"
          /\ UNCHANGED disk /\ Unload("idle")
          /\ UNCHANGED <<fileVars, attempts, reopened>>
    /\ UNCHANGED <<receipt, charged, unsaved>>

\* The user asks for the rest of an unfinished run, whatever it may repeat.
Resume ==
    /\ attempts < MaxAttempts
    /\ owner = "idle" /\ request \in {"failed", "paused"} /\ Loadable(disk)
    /\ Reopen(1)
    /\ charged' = {}
    /\ UNCHANGED <<receipt, unsaved>>

-----------------------------------------------------------------------------
Run ==
    \/ \E t \in Tasks : \/ Dispatch(t) \/ WorkerEnds(t) \/ WorkerFails(t)
                        \/ Discard(t) \/ Prepare(t) \/ Register(t) \/ Commit(t)
    \/ Finish

Owner == Accept \/ RecordCompletion \/ Boot \/ Restore \/ FinishCommand

Next == Run \/ Owner \/ Resume \/ Cancel \/ Drain \/ Crash

Spec == Init /\ [][Next]_vars

\* Handlers return, the threads of the owner run, and a stopped owner is
\* started again.
FairSpec == Spec /\ WF_vars(Run) /\ WF_vars(Owner)

-----------------------------------------------------------------------------
(* Properties.                                                             *)

TaskStates == {"todo", "working", "result", "locked", "done", "failed",
               "blocked", "cancelled"}
Checkpoints == [remaining : SUBSET Tasks, outputs : [Tasks -> Nat],
                pending : Tasks \cup {NoTask}, proof : Nat,
                inflight : SUBSET Remote]

\* Every variable has its shape; what a checkpoint still has to do and the
\* remote work it marks stay inside the accepted plan.
TypeOK ==
    /\ disk \in Checkpoints /\ journal \in Checkpoints
    /\ staged \in [Tasks -> Nat] /\ dest \in [Tasks -> Nat]
    /\ writes \in [Tasks -> Nat]
    /\ request \in {"none", "succeeded", "failed", "cancelled"} \cup Open
    /\ attempts \in Nat /\ receipt \in BOOLEAN
    /\ owner \in {"down", "restoring", "idle", "running", "closed"}
    /\ stopping \subseteq {"drain", "cancel"}
    /\ outcome \in {"none", "succeeded", "failed", "cancelled", "paused"}
    /\ broken \in BOOLEAN
    /\ state \in [Tasks -> TaskStates]
    /\ committing \in Tasks \cup {NoTask} /\ renamed \in BOOLEAN
    /\ charged \subseteq Remote
    /\ reopened \in BOOLEAN /\ unsaved \in BOOLEAN
    /\ upsets \in 0 .. MaxUpsets

\* A run implements the promise of DurableRun over every crash, restart, drain,
\* failed save and late error: a task counts as done once the checkpoint says
\* so or its product is in place (RunJournal, commit_success, _restore_runs).
Promise == INSTANCE DurableRun WITH
    product <- dest,
    done <- (Tasks \ disk.remaining) \cup {t \in Durable : dest[t] # 0},
    succeeded <- request = "succeeded"
Keeps == Promise!Spec

\* Remote work that was dispatched is dispatched again only after a shutdown
\* interrupted it and its mark was cleared, or a user asked for it: no crash,
\* failed save, other task's commit or automatic recovery loses the mark
\* (started, interrupted, uncertain_remote_work).
NoSilentRepeat ==
    [][\A t \in charged : state'[t] = "working" => state[t] = "working"]_vars

\* Until a run is resumed for the first time, its checkpoint can be loaded
\* whenever the process ends: a product renamed before its completion was
\* saved is recognised by its file identity (_reconcile_publication).
FirstStopRecovers ==
    ~reopened /\ request \in Open => Loadable(disk)

\* An accepted run comes to an end that its owner records, through restarts,
\* a shutdown, and recoveries cut short by another crash, unless the ledger
\* could not be saved when it ended (_record_completion, _restore_runs).
Settles ==
    request \in Open
        ~> request \in {"succeeded", "failed", "cancelled"} \/ unsaved

\* An interrupted run can be loaded at the next start (GraphCoordinator.drain,
\* RunJournal.load): no order of the program's own steps loses its work.
AlwaysLoadable ==
    request \in Open \cup {"failed"} => Loadable(disk)

\* What a checkpoint proved in the run directory stays there while the run can
\* still be resumed (_finish_run, RunSession.preserve, validate_outputs).
KeepsStaging ==
    request \in Open \cup {"failed"} /\ disk.remaining # {}
        => \A t \in Tasks \ Durable : disk.outputs[t] # 0 => staged[t] = disk.outputs[t]
=============================================================================
