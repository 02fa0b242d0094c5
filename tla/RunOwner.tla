------------------------------ MODULE RunOwner ------------------------------
(***************************************************************************)
(* The requests of the resident owner: previews and reservations of its    *)
(* clients, the ledger of accepted requests with the receipts of commands, *)
(* the runs the service holds for them, the completions that come back     *)
(* from a thread per run, and the recovery after a restart.  The owner has *)
(* one thread and one queue: an item of the queue is a step.  The service  *)
(* and the watchers are other threads.  What the ledger refused to save is *)
(* in memory neither, so one variable stands for the ledger and its file.  *)
(***************************************************************************)
EXTENDS Naturals, FiniteSets

CONSTANTS
    Runs,           \* request identifiers
    GroupOf,        \* the group of a request
    Commands,       \* start commands, each of a client of its own
    Budget,         \* external_retry_budget
    Refusals,       \* the saves the ledger may refuse: "start", "end", "cancel"
    None            \* no command, no record

ASSUME GroupAssumption == DOMAIN GroupOf = Runs
ASSUME CommandsAssumption == IsFiniteSet(Commands)
ASSUME BudgetAssumption == Budget \in Nat \ {0}
Groups == {GroupOf[r] : r \in Runs}

ASSUME NoneAssumption == None \notin Commands \cup Runs /\ Runs \cap Groups = {}

VARIABLES
    ledger,     \* requests: state, generation, attempts
    receipts,   \* the run a start command was answered with
    cancels,    \* runs with an accepted cancellation that is still pending
    automatic,  \* the requests that Auto made: automatic of ProcessingRequest
    auto,       \* policy.auto_enabled; off, it holds automatic runs back
    up,         \* the process runs
    shutting,   \* _shutting_down
    snapshot,   \* _restart_requests, until recovery began
    started,    \* _recovery_started: the first inspection came back
    recovering, \* _recovering
    inspecting, \* an inspection that Auto asked for is on its way
    jobs,       \* the records _restore_runs has still to take up
    previews,   \* the preview of a command: of the run to resume, or of a group
    reserved,   \* the client that reserved a group
    live,       \* _active_runs
    token,      \* the cancellation token of a live run is set
    posted,     \* results on their way through the watcher and the queue
    pending,    \* _pending
    unsaved     \* requests whose last outcome the ledger refused to save

policy == <<automatic, auto>>
durable == <<ledger, receipts, cancels, policy>>
process == <<up, shutting, snapshot, started, recovering, inspecting, jobs>>
clients == <<previews, reserved>>
service == <<live, token, posted, pending>>
vars == <<durable, process, clients, service, unsaved>>

Results == {"succeeded", "failed", "cancelled", "paused"}
States == {"none", "accepted"} \cup Results
Unfinished == {"accepted", "paused"}            \* _ACTIVE_STATES
MaxAttempts == Budget + Cardinality(Commands)

Records == [state : States, generation : 0 .. Cardinality(Commands) + 1,
            attempts : 0 .. MaxAttempts]

TypeOK ==
    /\ ledger \in [Runs -> Records]
    /\ receipts \in [Commands -> Runs \cup {None}]
    /\ cancels \subseteq Runs
    /\ automatic \subseteq Runs
    /\ {auto, up, shutting, started, recovering, inspecting} \subseteq BOOLEAN
    /\ snapshot \in [Runs -> Records]
    /\ jobs \in [Runs -> Records \cup {None}]
    /\ previews \in [Commands -> Runs \cup Groups \cup {None}]
    /\ reserved \in [Groups -> Commands \cup {None}]
    /\ live \subseteq Runs
    /\ token \subseteq Runs
    /\ posted \subseteq [run : Runs, result : Results, of : 0 .. Cardinality(Commands) + 1]
    /\ pending \subseteq Runs
    /\ unsaved \subseteq Runs

Nothing == [r \in Runs |-> None]
Fresh == [state |-> "none", generation |-> 0, attempts |-> 0]

Init ==
    /\ ledger = [r \in Runs |-> Fresh]
    /\ receipts = [k \in Commands |-> None]
    /\ cancels = {}
    /\ automatic = {}
    /\ auto \in BOOLEAN
    /\ up = TRUE
    /\ shutting = FALSE
    /\ snapshot = ledger
    /\ started = FALSE
    /\ recovering = FALSE
    /\ inspecting = FALSE
    /\ jobs = Nothing
    /\ previews = [k \in Commands |-> None]
    /\ reserved = [g \in Groups |-> None]
    /\ live = {}
    /\ token = {}
    /\ posted = {}
    /\ pending = {}
    /\ unsaved = {}

-----------------------------------------------------------------------------
Owner == up
Open == {r \in Runs : ledger[r].state \in Unfinished}
Unused(g) == {r \in Runs : GroupOf[r] = g /\ ledger[r].state = "none"}
SameGroup(r) == {s \in Runs : GroupOf[s] = GroupOf[r]}

\* The outcome of a request is recorded, or the ledger refuses it.
Record(r, state) ==
    \/ /\ ledger' = [ledger EXCEPT ![r].state = state]
       /\ unsaved' = unsaved \ {r}
    \/ /\ "end" \in Refusals
       /\ ledger' = ledger
       /\ unsaved' = unsaved \cup ({r} \cap Open)

\* A slip that looks at the run only.
ClaimableMutant(r) == r \notin live

\* _claim_run: neither the run nor its group is held.
Claimable(r) == SameGroup(r) \cap live = {}

\* A slip that takes a recovery for a new generation.
NextGenerationMutant(r, recovery) == ledger[r].generation + 1

\* The generation of an admission: a recovery goes on with the one it had.
NextGeneration(r, recovery) == ledger[r].generation + (IF recovery THEN 0 ELSE 1)

\* _admit once nothing refuses it: the ledger takes the request and the receipt
\* in one save, then the service starts the run.  What cannot start is recorded
\* as failed; the answer of the command stays the receipt's.
Admit(r, recovery, retry) ==
    LET accepted == [state |-> "accepted", generation |-> NextGeneration(r, recovery),
                     attempts |-> ledger[r].attempts + (IF retry THEN 1 ELSE 0)]
    IN  \/ /\ Claimable(r)
           /\ ledger' = [ledger EXCEPT ![r] = accepted]
           /\ live' = live \cup {r}
           /\ token' = token \ {r}
           /\ pending' = pending \cup {r}
           /\ unsaved' = unsaved \ {r}
        \/ /\ \/ /\ ledger' = [ledger EXCEPT ![r] = [accepted EXCEPT !.state = "failed"]]
                 /\ unsaved' = unsaved \ {r}
              \/ /\ "start" \in Refusals
                 /\ ledger' = [ledger EXCEPT ![r] = accepted]
                 /\ unsaved' = unsaved \cup {r}
           /\ pending' = pending \ {r}
           /\ UNCHANGED <<live, token>>

\* _conflict: the group is free for this client and request.
NoConflict(g, client, excluded) ==
    /\ reserved[g] \in {None, client}
    /\ \A s \in Runs \ excluded : GroupOf[s] = g => ledger[s].state \notin Unfinished

-----------------------------------------------------------------------------
(* Clients *)

\* _preview, or _resume_preview of a request that ended unfinished and is not
\* live: one preview per client, valid until it is used or its files change.
Preview(k) ==
    /\ Owner
    /\ receipts[k] = None
    /\ \E p \in Groups \cup {r \in Runs \ live : ledger[r].state \in {"failed", "paused"}} :
         previews' = [previews EXCEPT ![k] = p]
    /\ UNCHANGED <<durable, process, reserved, service, unsaved>>

\* The files of a preview change, its session ends (_release_session), or a
\* release: the preview and the reservation of the client go.
Disconnect(k) ==
    /\ Owner
    /\ previews[k] # None
    /\ previews' = [previews EXCEPT ![k] = None]
    /\ reserved' = [g \in Groups |-> IF reserved[g] = k THEN None ELSE reserved[g]]
    /\ UNCHANGED <<durable, process, service, unsaved>>

\* The group of a preview.
Scope(p) == IF p \in Runs THEN GroupOf[p] ELSE p

\* _reserve, for the group of the preview: a paused request that is not live
\* does not hold its group.
Reserve(k) ==
    /\ Owner
    /\ previews[k] # None
    /\ LET g == Scope(previews[k])
       IN  /\ reserved[g] = None
           /\ \A s \in Open : GroupOf[s] = g => ledger[s].state = "paused" /\ s \notin live
           /\ reserved' = [reserved EXCEPT ![g] = k]
    /\ UNCHANGED <<durable, process, previews, service, unsaved>>

\* The identifier of a new request: any unused one, so it does not matter which.
NewRun(g) == IF Unused(g) = {} THEN {} ELSE {CHOOSE r \in Unused(g) : TRUE}

\* _receipt finds none: the command was not accepted before.
Unanswered(k) == receipts[k] = None

\* What _admit asks of a resumed request; a new one meets it.
Resumable(r) == ledger[r].state # "succeeded" /\ r \notin live

\* _dispatch of a start: a repeated one is answered from its receipt, and
\* none is looked at while an accepted cancellation is not finished.
Start(k) ==
    /\ Owner /\ ~shutting
    /\ cancels = {}
    /\ Unanswered(k)
    /\ previews[k] # None
    /\ LET p == previews[k]
           g == Scope(p)
       IN  /\ NoConflict(g, k, {p})
           /\ \E r \in IF p \in Runs THEN {p} ELSE NewRun(g) :
                /\ Resumable(r)
                /\ Admit(r, FALSE, TRUE)
                /\ receipts' = [receipts EXCEPT ![k] = r]
           /\ reserved' = [reserved EXCEPT ![g] = IF @ = k THEN None ELSE @]
    /\ previews' = [previews EXCEPT ![k] = None]
    /\ UNCHANGED <<cancels, policy, process, posted>>

\* _start_automatic: Auto takes a group that no request and no client holds.
\* What the user downloaded is taken whatever the switch says, and makes no
\* automatic request (auto_admissible).  Which versions of the sources it takes
\* is left open.
StartAutomatic(r) ==
    /\ Owner /\ ~shutting
    /\ started /\ ~recovering /\ ~inspecting
    /\ cancels = {}
    /\ r \in NewRun(GroupOf[r])
    /\ NoConflict(GroupOf[r], None, {})
    /\ \/ auto /\ automatic' = automatic \cup {r}
       \/ UNCHANGED automatic
    /\ Admit(r, FALSE, TRUE)
    /\ UNCHANGED <<receipts, cancels, auto, process, clients, posted>>

\* The ledger once the cancellations of S are finished.
Withdrawn(S) ==
    [r \in Runs |-> IF r \in S /\ ledger[r].state \in Unfinished
                    THEN [ledger[r] EXCEPT !.state = "cancelled"] ELSE ledger[r]]

\* _finish_local_command for the cancellations of S: the token first, then the
\* record, which may be refused; the command stays pending then.
FinishCancels(S) ==
    /\ token' = token \cup (S \cap live)
    /\ \/ /\ ledger' = Withdrawn(S)
          /\ cancels' = cancels \ S
          /\ unsaved' = unsaved \ S
       \/ /\ "cancel" \in Refusals
          /\ cancels' = cancels \cup S
          /\ UNCHANGED <<ledger, unsaved>>

\* _cancel of a run that is live or unfinished, also while the owner shuts down;
\* of another it changes nothing.
Cancel(r) ==
    /\ Owner
    /\ cancels = {}
    /\ r \in live \cup Open
    /\ FinishCancels({r})
    /\ UNCHANGED <<receipts, policy, process, clients, live, posted, pending>>

\* The next command finishes the pending ones first.
FinishPending ==
    /\ Owner
    /\ cancels # {}
    /\ FinishCancels(cancels)
    /\ UNCHANGED <<receipts, policy, process, clients, live, posted, pending>>

-----------------------------------------------------------------------------
(* The service and the watchers *)

\* The coordinator resolves the run and _finish_run closes its session.  The run
\* is given back before the handle is settled, so the completion that the
\* watcher puts on the queue may come after whatever the owner does next.
RunEnds(r, result) ==
    /\ r \in live
    /\ result = "cancelled" => r \in token
    /\ result = "paused" => shutting
    /\ live' = live \ {r}
    /\ token' = token \ {r}
    /\ posted' = posted \cup {[run |-> r, result |-> result, of |-> ledger[r].generation]}
    /\ UNCHANGED <<durable, process, clients, pending, unsaved>>

\* What _restore_paused takes up: paused requests that are not live, those of
\* Auto only while it is on.
Takable(records, on) ==
    {r \in Runs \ live : records[r].state = "paused" /\ (on \/ r \notin automatic)}

\* The records _restore_paused hands to _restore_runs.  An inspection nobody
\* asked for calls it, too, and finds nothing: whatever ends a recovery has just
\* looked.
RestorePausedRuns(idle, records, on) ==
    IF ~shutting /\ started /\ idle /\ Takable(records, on) # {}
    THEN /\ recovering' = TRUE
         /\ jobs' = [r \in Runs |-> IF r \in Takable(records, on) THEN records[r] ELSE None]
    ELSE /\ recovering' = ~idle
         /\ jobs' = IF idle THEN Nothing ELSE jobs

\* _record_completion, with the _restore_paused that ends it.
RecordCompletion(c) ==
    /\ Owner
    /\ posted' = posted \ {c}
    /\ Record(c.run, c.result)
    /\ pending' = pending \ {c.run}
    /\ IF c.result = "paused" THEN RestorePausedRuns(~recovering, ledger', auto)
                              ELSE UNCHANGED <<recovering, jobs>>
    /\ UNCHANGED <<receipts, cancels, policy, up, shutting, snapshot, started, inspecting,
                   clients, live, token>>

\* _set_auto.  Switched on, it looks for paused runs (_resume_work); while files
\* are still to be inspected, the inspection does that when it comes back.
SetAuto ==
    /\ Owner /\ ~shutting
    /\ cancels = {}
    /\ auto' = ~auto
    /\ \/ /\ IF auto' THEN RestorePausedRuns(~recovering, ledger, TRUE)
                        ELSE UNCHANGED <<recovering, jobs>>
          /\ UNCHANGED inspecting
       \/ /\ auto' /\ started
          /\ inspecting' = TRUE
          /\ UNCHANGED <<recovering, jobs>>
    /\ UNCHANGED <<ledger, receipts, cancels, automatic, up, shutting, snapshot, started,
                   clients, service, unsaved>>

\* _record_inspection of a later inspection.
Inspected ==
    /\ Owner
    /\ inspecting
    /\ inspecting' = FALSE
    /\ RestorePausedRuns(~recovering, ledger, auto)
    /\ UNCHANGED <<durable, up, shutting, snapshot, started, clients, service, unsaved>>

-----------------------------------------------------------------------------
(* Shutdown, crash, restart, recovery *)

\* _begin_shutdown drains the service.
Shutdown ==
    /\ Owner /\ ~shutting
    /\ shutting' = TRUE
    /\ UNCHANGED <<durable, up, snapshot, started, recovering, inspecting, jobs, clients,
                   service, unsaved>>

\* The process is gone, with everything that is not in a file.
Gone ==
    /\ up' = FALSE
    /\ shutting' = FALSE
    /\ started' = FALSE
    /\ recovering' = FALSE
    /\ inspecting' = FALSE
    /\ jobs' = Nothing
    /\ previews' = [k \in Commands |-> None]
    /\ reserved' = [g \in Groups |-> None]
    /\ live' = {}
    /\ token' = {}
    /\ posted' = {}
    /\ pending' = {}
    /\ unsaved' = {}
    /\ snapshot' = [r \in Runs |-> Fresh]
    /\ UNCHANGED <<ledger, receipts, policy>>

\* _drained: the loop of the owner ends.
Exit ==
    /\ Owner /\ shutting
    /\ pending = {} /\ live = {} /\ ~recovering /\ ~inspecting
    /\ Gone
    /\ UNCHANGED cancels

\* The process ends between two steps, or between the two saves of _cancel.
Crash ==
    /\ Owner
    /\ Gone
    /\ \/ UNCHANGED cancels
       \/ /\ cancels = {}
          /\ \E r \in live \cup Open : cancels' = {r}

\* The owner is made: the ledger is kept for recovery as it was read, then the
\* cancellations that were left pending are finished.
Boot ==
    /\ ~up
    /\ up' = TRUE
    /\ snapshot' = ledger
    /\ \E S \in {{}, cancels} :
         /\ ledger' = Withdrawn(S)
         /\ cancels' = cancels \ S
    /\ UNCHANGED <<receipts, policy, shutting, started, recovering, inspecting, jobs, clients,
                   service, unsaved>>

\* A slip that forgets the runs that were at work.
ToRestoreMutant == {r \in Runs : snapshot[r].state = "paused"}

\* What recovery takes up of the ledger that was read at the start.
ToRestore == {r \in Runs : snapshot[r].state \in Unfinished}

\* The first inspection came back: recovery begins.
RecoveryStarts ==
    /\ Owner
    /\ ~started
    /\ started' = TRUE
    /\ recovering' = TRUE
    /\ jobs' = [r \in Runs |-> IF r \in ToRestore THEN snapshot[r] ELSE None]
    /\ snapshot' = [r \in Runs |-> Fresh]
    /\ UNCHANGED <<durable, up, shutting, inspecting, clients, service, unsaved>>

\* _can_restore: the request is still what it was when recovery looked at it.
CanRestore(r) == r \notin live /\ jobs[r] = ledger[r]

\* A recovery counts as an attempt unless the run had been paused.
Retried(r) == ledger[r].state # "paused"

\* A slip that allows one recovery too many.
WithinBudgetMutant(r) == ledger[r].attempts <= Budget

\* Attempts are left.
WithinBudget(r) == ledger[r].attempts < Budget

\* _resume_restored of one record: dropped when it is out of date, failed when
\* remote work is uncertain, the sources changed, the journal cannot be read or
\* the budget is used up, and admitted again otherwise.
Restore(r) ==
    /\ Owner
    /\ jobs[r] # None
    /\ jobs' = [jobs EXCEPT ![r] = None]
    /\ \/ /\ shutting \/ ~CanRestore(r)
          /\ UNCHANGED <<ledger, live, token, pending, unsaved>>
       \/ /\ ~shutting /\ CanRestore(r)
          /\ Record(r, "failed")
          /\ UNCHANGED <<live, token, pending>>
       \/ /\ ~shutting /\ CanRestore(r)
          /\ Retried(r) => WithinBudget(r)
          /\ Admit(r, TRUE, Retried(r))
    /\ UNCHANGED <<receipts, cancels, policy, up, shutting, snapshot, started, recovering,
                   inspecting, clients, posted>>

\* _restored_runs: recovery is over, and looks for paused runs once more.
RestoredRuns ==
    /\ Owner
    /\ recovering
    /\ jobs = Nothing
    /\ RestorePausedRuns(TRUE, ledger, auto)
    /\ UNCHANGED <<durable, up, shutting, snapshot, started, inspecting, clients, service,
                   unsaved>>

-----------------------------------------------------------------------------
\* A live run that nothing holds back.  The coordinator admits no task of an
\* automatic run while Auto is off (set_background_admission): such a run may
\* end, but nothing says it does.
RunGoesOn(r) ==
    /\ auto \/ r \notin automatic
    /\ \E result \in Results : RunEnds(r, result)

\* What the process does by itself; callers, crashes and boots owe nothing.
Progress ==
    \/ FinishPending \/ Exit \/ RecoveryStarts \/ RestoredRuns \/ Inspected
    \/ \E r \in Runs : Restore(r)
                       \/ \E result \in Results : RunEnds(r, result)
    \/ \E c \in posted : RecordCompletion(c)

Next ==
    \/ Progress \/ Shutdown \/ Crash \/ Boot \/ SetAuto
    \/ \E k \in Commands : Preview(k) \/ Reserve(k) \/ Disconnect(k) \/ Start(k)
    \/ \E r \in Runs : StartAutomatic(r) \/ Cancel(r)

Fairness ==
    /\ WF_vars(RecoveryStarts)
    /\ WF_vars(RestoredRuns)
    /\ WF_vars(Inspected)
    /\ \A r \in Runs : WF_vars(Restore(r)) /\ WF_vars(RunGoesOn(r))
    /\ WF_vars(\E c \in posted : RecordCompletion(c))

Spec == Init /\ [][Next]_vars /\ Fairness
-----------------------------------------------------------------------------
(* Properties *)

\* A generation of a request is what one start command asked for, or Auto:
\* neither a command repeated after its answer was lost, nor a crash between the
\* ledger and the run, nor a recovery makes another one.
CommandOnce ==
    \A r \in Runs :
        LET asked == Cardinality({k \in Commands : receipts[k] = r})
        IN  ledger[r].generation \in {asked, asked + 1}

\* A request holds its group while it is unfinished in the ledger, at work, or on
\* its way back to the ledger as paused.
Holds(r) ==
    \/ r \in Open \cup live
    \/ \E c \in posted : c.run = r /\ c.result = "paused"

\* At most one request holds a group, although a request that the ledger calls
\* finished may still be at work, and its completion may come after whatever was
\* admitted next: a second holder would be taken up by the next recovery beside
\* the first (_conflict, _claim_run, _record_completion).
OneHolder ==
    \A r, s \in Runs : GroupOf[r] = GroupOf[s] /\ Holds(r) /\ Holds(s) => r = s

\* An unfinished request is settled in the end: a paused one is taken up again,
\* an interrupted one recovered until its budget is used up, and a completion is
\* recorded whatever was admitted meanwhile.  A request of Auto may wait while
\* Auto is off.  When the ledger refused to record the end, the next start takes
\* the request up.
RequestSettles ==
    \A r \in Runs :
        ledger[r].state \in Unfinished
            ~> \/ ledger[r].state \notin Unfinished
               \/ r \in automatic /\ ~auto
               \/ r \in unsaved \/ shutting \/ ~up

=============================================================================
