-------------------------- MODULE RunJournal_proofs --------------------------
(***************************************************************************)
(* RunJournal implements DurableRun, for any plan, any disturbances and    *)
(* any number of restarts: the invariant Inv is inductive, and every step  *)
(* from a state that satisfies it does one task, records the success or    *)
(* leaves the promise as it is.  On top of Inv, ChargedInv follows the     *)
(* marks of remote work, and FirstInv the agreement of the checkpoints     *)
(* with the files until the run is resumed for the first time.             *)
(***************************************************************************)
EXTENDS RunJournal, TLAPS

\* The tasks whose outcome is durable.
Kept == (Tasks \ disk.remaining) \cup {t \in Durable : dest[t] # 0}

\* What a checkpoint intends is a rename of a file.
Intent(j) == j.pending # NoTask => j.pending \in Durable /\ j.proof # 0

\* A product in place that a checkpoint still has to do is the one it intends,
\* and its staging file is gone: the rename is recognised.
Recognised(j) ==
    \A t \in Durable : dest[t] # 0 /\ t \in j.remaining => j.pending = t /\ staged[t] = 0

\* A request nobody accepted has done nothing, one that succeeded is over, and a
\* run that ended has an outcome.
Asked ==
    /\ request = "none" => disk = Fresh /\ dest = None
    /\ request \in {"none", "succeeded"} => owner \in {"idle", "down"}
    /\ owner = "closed" => outcome # "none"

\* The journal in memory is ahead of the file by products that are in place.
Ahead ==
    Alive /\ ~broken =>
      /\ Intent(journal) /\ Recognised(journal)
      /\ journal.remaining \subseteq disk.remaining
      /\ \A t \in disk.remaining \ journal.remaining : t \in Durable /\ dest[t] # 0
      /\ journal.pending \in {disk.pending, NoTask}

\* The task being committed was prepared in the file, and no other is half done.
Prepared ==
    /\ renamed => committing # NoTask
    /\ committing # NoTask =>
         /\ Alive /\ ~broken
         /\ state[committing] \in {"result", "locked"}
         /\ committing \in journal.remaining
         /\ committing \in Durable =>
              /\ journal.pending = committing /\ disk.pending = committing
              /\ renamed => dest[committing] # 0
         /\ \A t \in Durable : dest[t] # 0 /\ t \in journal.remaining => t = committing

\* A task that may still run, or whose result may still be committed, is not done.
Undone ==
    Alive => \A t \in Tasks :
      /\ state[t] \in {"todo", "working", "result"} =>
           /\ t \in disk.remaining /\ (~broken => t \in journal.remaining)
           /\ t \in Durable /\ dest[t] # 0 => committing = t /\ renamed
      /\ state[t] = "locked" =>
           /\ t \in Durable
           /\ staged[t] # 0 => /\ t \in disk.remaining /\ (~broken => t \in journal.remaining)
                               /\ dest[t] = 0

\* Work is based on what is durable.
Founded ==
    /\ Alive => \A t \in Tasks :
         /\ state[t] \in {"working", "result", "locked"} => DependsOn[t] \subseteq Kept
         /\ state[t] = "done" => t \in Kept
    /\ owner = "closed" /\ outcome = "succeeded" => Kept = Tasks

\* The inductive invariant.
Inv ==
    /\ TypeOK
    /\ Intent(disk) /\ Recognised(disk)
    /\ Asked /\ Ahead /\ Prepared /\ Undone /\ Founded

-----------------------------------------------------------------------------
(* Checkpoints and task states *)

\* What a step may do to the promise.
Promised ==
    \/ /\ Kept' = Kept /\ dest' = dest
       /\ request' = "succeeded" <=> request = "succeeded"
    \/ \E t \in Tasks :
         /\ t \notin Kept /\ DependsOn[t] \subseteq Kept /\ Kept' = Kept \cup {t}
         /\ \A u \in Tasks : dest'[u] # dest[u] => u = t /\ t \in Durable
         /\ request' = request
    \/ /\ Kept = Tasks /\ Kept' = Kept /\ dest' = dest /\ request' = "succeeded"

LEMMA NoneNat == None \in [Tasks -> Nat] /\ \A t \in Tasks : None[t] = 0
BY DEF None

LEMMA FreshFacts ==
    /\ Fresh \in Checkpoints /\ Fresh.remaining = Tasks /\ Fresh.pending = NoTask
    /\ Intent(Fresh)
BY NoneNat DEF Fresh, Checkpoints, Intent

LEMMA CompletedFacts ==
    ASSUME NEW j \in Checkpoints, NEW t \in Tasks, NEW file \in Nat
    PROVE  /\ Completed(j, t, file) \in Checkpoints
           /\ Completed(j, t, file).remaining = j.remaining \ {t}
           /\ Completed(j, t, file).pending = NoTask
BY DEF Checkpoints, Completed

\* Once reconciled, a checkpoint has no product in place left to do.
LEMMA ReconciledFacts ==
    ASSUME TypeOK, NEW j \in Checkpoints, Intent(j), Recognised(j), Conclusive(j)
    PROVE  /\ Reconciled(j) \in Checkpoints /\ Intent(Reconciled(j))
           /\ \A t \in Durable : dest[t] # 0 => t \notin Reconciled(j).remaining
           /\ Reconciled(j).remaining \subseteq j.remaining
           /\ \A t \in j.remaining \ Reconciled(j).remaining : t \in Durable /\ dest[t] # 0
           /\ Reconciled(j).pending # NoTask =>
                Reconciled(j) = j /\ staged[j.pending] # 0
<1>1. CASE Moved(j)
  <2>1. /\ j.pending \in Durable /\ j.pending \in Tasks /\ staged[j.pending] = 0
        /\ dest[j.pending] # 0 /\ dest[j.pending] \in Nat
    BY <1>1, RunAssumption DEF Moved, Intent, Conclusive, Checkpoints, TypeOK
  <2>2. /\ Reconciled(j) \in Checkpoints
        /\ Reconciled(j).remaining = j.remaining \ {j.pending}
        /\ Reconciled(j).pending = NoTask
    BY <1>1, <2>1, CompletedFacts DEF Reconciled
  <2>3. j.remaining \ Reconciled(j).remaining \subseteq {j.pending}
    BY <2>2
  <2>4. \A t \in Durable : dest[t] # 0 => t \notin Reconciled(j).remaining
    BY <2>2 DEF Recognised
  <2>5. Intent(Reconciled(j))
    BY <2>2 DEF Intent
  <2>6. Reconciled(j).remaining \subseteq j.remaining
    BY <2>2
  <2>7. \A t \in j.remaining \ Reconciled(j).remaining : t \in Durable /\ dest[t] # 0
    BY <2>1, <2>3
  <2> QED
    BY <2>2, <2>4, <2>5, <2>6, <2>7
<1>2. CASE ~Moved(j)
  <2>1. Reconciled(j) = j
    BY <1>2 DEF Reconciled
  <2> QED
    BY <1>2, <2>1, RunAssumption DEF Moved, Recognised, Intent
<1> QED
  BY <1>1, <1>2

\* A checkpoint that drops products in place keeps the promise.
LEMMA KeptBy ==
    ASSUME dest' = dest, disk'.remaining \subseteq disk.remaining,
           \A t \in disk.remaining \ disk'.remaining : t \in Durable /\ dest[t] # 0,
           Durable \subseteq Tasks, disk.remaining \subseteq Tasks
    PROVE  Kept' = Kept
BY DEF Kept

\* States that stop tasks and start none.
Stops(st) ==
    /\ st \in [Tasks -> TaskStates]
    /\ \A u \in Tasks : st[u] = state[u] \/ st[u] \in {"failed", "blocked", "cancelled"}

LEMMA EndedStops ==
    ASSUME TypeOK, NEW t \in Tasks
    PROVE  /\ Stops(Failed(t)) /\ Stops(Ended(t)) /\ Stops([state EXCEPT ![t] = "cancelled"])
           /\ Stops([state EXCEPT ![t] = "blocked"])
           /\ {Failed(t)[t], Ended(t)[t]} \subseteq {"failed", "cancelled"}
BY DEF TypeOK, Failed, Ended, Stops, TaskStates

LEMMA HaltedStops ==
    ASSUME NEW st, Stops(st)
    PROVE  /\ Stops(Halted(st))
           /\ \A u \in Tasks : st[u] \in {"failed", "cancelled"} => Halted(st)[u] = st[u]
BY DEF Halted, Stops, TaskStates

\* Disturbances stay within their bound.
LEMMA BoundKept ==
    ASSUME TypeOK
    PROVE  /\ upsets' = upsets => upsets' \in 0 .. MaxUpsets
           /\ \A kind : Upset(kind) => upsets' \in 0 .. MaxUpsets
BY RunAssumption DEF TypeOK, Upset

-----------------------------------------------------------------------------
(* What steps of a running owner share *)

\* Neither the files of the run nor the records of the owner move.
RunFrame ==
    /\ Alive /\ owner' = owner /\ request' = request /\ outcome' = outcome
    /\ dest' = dest

\* Staging files come and go, but none comes for a product in place.
StagedKept ==
    \A u \in Tasks : staged[u] = 0 /\ u \in Durable /\ dest[u] # 0 => staged'[u] = 0

LEMMA AskedKept ==
    ASSUME Inv, RunFrame
    PROVE  Asked'
BY DEF Inv, RunFrame, Asked, Alive

\* The checkpoints stay, or the journal refuses every later step.
LEMMA SameCheckpoints ==
    ASSUME Inv, RunFrame, StagedKept, disk' = disk,
           ~broken' => ~broken /\ journal' = journal
    PROVE  /\ Kept' = Kept /\ Promised
           /\ Intent(disk)' /\ Recognised(disk)' /\ Asked' /\ Ahead'
<1>1. Kept' = Kept
  BY DEF RunFrame, Kept
<1>2. Promised
  BY <1>1 DEF RunFrame, Promised
<1>3. Intent(disk)' /\ Recognised(disk)'
  BY RunAssumption DEF Inv, RunFrame, StagedKept, Intent, Recognised
<1>4. Ahead'
  BY RunAssumption DEF Inv, RunFrame, StagedKept, Intent, Recognised, Ahead, Alive
<1> QED
  BY <1>1, <1>2, <1>3, <1>4, AskedKept

\* The journal is saved with other marks of remote work.
LEMMA SaveMarks ==
    ASSUME Inv, RunFrame, StagedKept, ~broken,
           NEW j \in Checkpoints, disk' = j, journal' = j, broken' = broken,
           j.remaining = journal.remaining, j.pending = journal.pending,
           j.proof = journal.proof
    PROVE  /\ Kept' = Kept /\ Promised
           /\ Intent(disk)' /\ Recognised(disk)' /\ Asked' /\ Ahead'
<1>1. /\ Intent(journal) /\ Recognised(journal)
      /\ journal.remaining \subseteq disk.remaining
      /\ \A t \in disk.remaining \ journal.remaining : t \in Durable /\ dest[t] # 0
  BY DEF Inv, RunFrame, Ahead
<1>2. Kept' = Kept
  BY <1>1, KeptBy, RunAssumption DEF Inv, TypeOK, RunFrame, Checkpoints
<1>3. Promised
  BY <1>2 DEF RunFrame, Promised
<1>4. Intent(disk)' /\ Recognised(disk)'
  BY <1>1, RunAssumption DEF RunFrame, StagedKept, Intent, Recognised
<1>5. Ahead'
  BY <1>4 DEF Ahead, Intent, Recognised
<1> QED
  BY <1>2, <1>3, <1>4, <1>5, AskedKept

\* Tasks stop, and nothing else of the run happens.
LEMMA StopsKeep ==
    ASSUME Inv, RunFrame, StagedKept, Stops(state'), committing' = NoTask, renamed' = FALSE,
           Kept' = Kept, disk'.remaining \subseteq disk.remaining,
           \A t \in disk.remaining \ disk'.remaining : t \in Durable /\ dest[t] # 0,
           ~broken' => /\ ~broken
                       /\ journal'.remaining \subseteq journal.remaining
                       /\ \A t \in journal.remaining \ journal'.remaining :
                            t \in Durable /\ dest[t] # 0,
           \A u \in Tasks : state[u] = "locked" /\ state'[u] = "locked" => staged'[u] = staged[u],
           committing # NoTask /\ renamed =>
             state'[committing] \in {"failed", "blocked", "cancelled"}
    PROVE  Prepared' /\ Undone' /\ Founded'
<1>1. Prepared'
  BY DEF Prepared
<1>2. Undone'
  <2> SUFFICES ASSUME NEW t \in Tasks
               PROVE  /\ state'[t] \in {"todo", "working", "result"} =>
                           /\ t \in disk'.remaining /\ (~broken' => t \in journal'.remaining)
                           /\ ~(t \in Durable /\ dest'[t] # 0)
                      /\ state'[t] = "locked" =>
                           /\ t \in Durable
                           /\ staged'[t] # 0 =>
                                /\ t \in disk'.remaining /\ (~broken' => t \in journal'.remaining)
                                /\ dest'[t] = 0
    BY DEF Undone
  <2>1. CASE state'[t] \in {"todo", "working", "result"}
    <3>1. state'[t] = state[t] /\ (committing = t => ~renamed)
      BY <2>1, RunAssumption DEF Stops
    <3>2. /\ t \in disk.remaining /\ (~broken => t \in journal.remaining)
          /\ ~(t \in Durable /\ dest[t] # 0)
      BY <2>1, <3>1 DEF Inv, RunFrame, Undone
    <3> QED
      BY <2>1, <3>2 DEF RunFrame
  <2>2. CASE state'[t] = "locked"
    <3>1. state[t] = "locked" /\ staged'[t] = staged[t]
      BY <2>2 DEF Stops
    <3>2. /\ t \in Durable
          /\ staged[t] # 0 => /\ t \in disk.remaining /\ (~broken => t \in journal.remaining)
                              /\ dest[t] = 0
      BY <3>1 DEF Inv, RunFrame, Undone
    <3> QED
      BY <2>2, <3>1, <3>2 DEF RunFrame
  <2> QED
    BY <2>1, <2>2
<1>3. Founded'
  BY DEF Inv, RunFrame, Stops, Founded, Alive
<1> QED
  BY <1>1, <1>2, <1>3

-----------------------------------------------------------------------------
(* A task runs *)

LEMMA MarkedFacts ==
    ASSUME NEW j \in Checkpoints, NEW t \in Tasks
    PROVE  /\ Marked(j, t) \in Checkpoints
           /\ Marked(j, t).remaining = j.remaining /\ Marked(j, t).pending = j.pending
           /\ Marked(j, t).proof = j.proof
BY DEF Checkpoints, Marked

LEMMA DispatchKeeps ==
    ASSUME Inv, NEW t \in Tasks, Dispatch(t)
    PROVE  Inv' /\ Promised
<1>1. /\ RunFrame /\ StagedKept /\ committing = NoTask /\ committing' = NoTask
      /\ renamed' = renamed /\ ~renamed /\ ~broken /\ staged' = staged
      /\ state[t] = "todo" /\ \A d \in DependsOn[t] : state[d] = "done"
  BY DEF Inv, Prepared, Dispatch, Free, fileVars, ledgerVars, ownerVars, RunFrame, StagedKept
<1>2. renamed' = FALSE
  BY <1>1 DEF Inv, TypeOK
<1>3. CASE /\ Save(Marked(journal, t)) /\ state' = [state EXCEPT ![t] = "working"]
           /\ charged' = charged \cup ({t} \cap Remote)
  <2>1. /\ Marked(journal, t) \in Checkpoints
        /\ Marked(journal, t).remaining = journal.remaining
        /\ Marked(journal, t).pending = journal.pending
        /\ Marked(journal, t).proof = journal.proof
    BY MarkedFacts DEF Inv, TypeOK
  <2>2. TypeOK'
    <3>1. /\ disk' \in Checkpoints /\ journal' \in Checkpoints /\ broken' = broken
          /\ upsets' = upsets
      BY <1>3, <2>1 DEF Save
    <3>2. state' \in [Tasks -> TaskStates]
      BY <1>3 DEF Inv, TypeOK, TaskStates
    <3>3. charged' \subseteq Remote
      BY <1>3 DEF Inv, TypeOK
    <3> QED
      BY <1>1, <3>1, <3>2, <3>3
      DEF Inv, TypeOK, Dispatch, fileVars, ledgerVars, ownerVars
  <2>3. /\ Kept' = Kept /\ Promised
        /\ Intent(disk)' /\ Recognised(disk)' /\ Asked' /\ Ahead'
    BY <1>1, <1>3, <2>1, SaveMarks DEF Save
  <2>4. Prepared'
    BY <1>1, <1>2 DEF Prepared
  <2>5. \A u \in Tasks : state'[u] = IF u = t THEN "working" ELSE state[u]
    BY <1>3 DEF Inv, TypeOK
  <2>6. Undone'
    <3>1. /\ disk'.remaining = journal.remaining /\ journal'.remaining = journal.remaining
          /\ ~broken'
      BY <1>1, <1>3, <2>1 DEF Save
    <3> QED
      BY <1>1, <2>5, <3>1, RunAssumption DEF Inv, Undone, RunFrame
  <2>7. DependsOn[t] \subseteq Kept
    BY <1>1, RunAssumption DEF Inv, RunFrame, Founded
  <2>8. Founded'
    BY <1>1, <2>3, <2>5, <2>7 DEF Inv, Founded, RunFrame, Alive
  <2> QED
    BY <2>2, <2>3, <2>4, <2>6, <2>8 DEF Inv
<1>4. CASE SaveFails(journal) /\ state' = Failed(t) /\ charged' = charged
  <2>1. Stops(state')
    BY <1>4, EndedStops DEF Inv
  <2>2. TypeOK'
    <3>1. upsets' \in 0 .. MaxUpsets
      BY <1>4, BoundKept DEF Inv, SaveFails
    <3>2. state' \in [Tasks -> TaskStates]
      BY <2>1 DEF Stops
    <3> QED
      BY <1>1, <1>4, <3>1, <3>2
      DEF Inv, TypeOK, Dispatch, SaveFails, fileVars, ledgerVars, ownerVars
  <2>3. /\ Kept' = Kept /\ Promised
        /\ Intent(disk)' /\ Recognised(disk)' /\ Asked' /\ Ahead'
    BY <1>1, <1>4, SameCheckpoints DEF SaveFails
  <2>4. Prepared' /\ Undone' /\ Founded'
    BY <1>1, <1>2, <1>4, <2>1, <2>3, StopsKeep DEF SaveFails
  <2> QED
    BY <2>2, <2>3, <2>4 DEF Inv
<1> QED
  BY <1>3, <1>4 DEF Dispatch

LEMMA WorkerEndsKeeps ==
    ASSUME Inv, NEW t \in Tasks, WorkerEnds(t)
    PROVE  Inv' /\ Promised
<1>1. /\ RunFrame /\ state[t] = "working" /\ state' = [state EXCEPT ![t] = "result"]
      /\ UNCHANGED <<disk, journal, broken, committing, renamed>>
  BY DEF WorkerEnds, ledgerVars, ownerVars, journalVars, RunFrame
<1>2. /\ staged' \in [Tasks -> Nat] /\ writes' \in [Tasks -> Nat]
      /\ \A u \in Tasks \ {t} : staged'[u] = staged[u]
  BY DEF Inv, TypeOK, WorkerEnds, Stage
<1>3. committing # t
  BY <1>1, RunAssumption DEF Inv, Prepared
<1>4. ~(t \in Durable /\ dest[t] # 0)
  BY <1>1, <1>3 DEF Inv, Undone, RunFrame
<1>5. StagedKept
  BY <1>2, <1>4 DEF StagedKept
<1>6. TypeOK'
  <2>1. state' \in [Tasks -> TaskStates]
    BY <1>1 DEF Inv, TypeOK, TaskStates
  <2> QED
    BY <1>1, <1>2, <2>1
    DEF Inv, TypeOK, WorkerEnds, ledgerVars, ownerVars, journalVars, historyVars
<1>7. /\ Kept' = Kept /\ Promised
      /\ Intent(disk)' /\ Recognised(disk)' /\ Asked' /\ Ahead'
  BY <1>1, <1>5, SameCheckpoints
<1>8. \A u \in Tasks : state'[u] = IF u = t THEN "result" ELSE state[u]
  BY <1>1 DEF Inv, TypeOK
<1>9. Prepared'
  BY <1>1, <1>3, <1>8, RunAssumption DEF Inv, TypeOK, Prepared, RunFrame, Alive
<1>10. Undone'
  BY <1>1, <1>2, <1>8 DEF Inv, Undone, RunFrame, Alive
<1>11. Founded'
  BY <1>1, <1>7, <1>8 DEF Inv, Founded, RunFrame, Alive
<1> QED
  BY <1>6, <1>7, <1>9, <1>10, <1>11 DEF Inv

\* A handler that failed or was interrupted, and what is done with its mark.
LEMMA WorkerFailsKeeps ==
    ASSUME Inv, NEW t \in Tasks, WorkerFails(t)
    PROVE  Inv' /\ Promised
<1>1. /\ RunFrame /\ state[t] = "working" /\ committing = NoTask /\ committing' = NoTask
      /\ renamed' = renamed /\ ~renamed
  BY DEF Inv, Prepared, WorkerFails, Free, ledgerVars, ownerVars, RunFrame
<1>2. renamed' = FALSE
  BY <1>1 DEF Inv, TypeOK
<1>3. /\ staged' \in [Tasks -> Nat] /\ StagedKept
      /\ \A u \in Tasks : state[u] = "locked" => staged'[u] = staged[u]
  BY <1>1 DEF Inv, TypeOK, WorkerFails, StagedKept
<1>4. Stops(state')
  <2>1. /\ Stops([state EXCEPT ![t] = "cancelled"]) /\ Stops(Ended(t))
        /\ Stops(Halted([state EXCEPT ![t] = "cancelled"])) /\ Stops(Halted(Ended(t)))
    BY EndedStops, HaltedStops DEF Inv
  <2> QED
    BY <2>1 DEF WorkerFails
<1>5. charged' \subseteq Remote /\ upsets' \in 0 .. MaxUpsets
  <2>1. charged' \subseteq Remote
    BY DEF Inv, TypeOK, WorkerFails
  <2>2. upsets' = upsets \/ Upset("save") \/ Upset("worker")
    BY DEF WorkerFails, Save, SaveFails
  <2> QED
    BY <2>1, <2>2, BoundKept DEF Inv
<1>6. CASE /\ ~broken /\ Save([journal EXCEPT !.inflight = @ \ {t}])
  <2> DEFINE j == [journal EXCEPT !.inflight = @ \ {t}]
  <2>1. /\ j \in Checkpoints /\ j.remaining = journal.remaining
        /\ j.pending = journal.pending /\ j.proof = journal.proof
    BY DEF Inv, TypeOK, Checkpoints
  <2>2. disk' = j /\ journal' = j /\ broken' = broken
    BY <1>6 DEF Save
  <2> HIDE DEF j
  <2>3. /\ Kept' = Kept /\ Promised
        /\ Intent(disk)' /\ Recognised(disk)' /\ Asked' /\ Ahead'
    BY <1>1, <1>3, <1>6, <2>1, <2>2, SaveMarks
  <2>4. TypeOK'
    BY <1>1, <1>3, <1>4, <1>5, <2>1, <2>2
    DEF Inv, TypeOK, WorkerFails, Stops, ledgerVars, ownerVars
  <2>5. /\ disk'.remaining \subseteq disk.remaining
        /\ \A u \in disk.remaining \ disk'.remaining : u \in Durable /\ dest[u] # 0
    BY <1>1, <1>6, <2>1, <2>2 DEF Inv, Ahead, RunFrame
  <2>6. Prepared' /\ Undone' /\ Founded'
    BY <1>1, <1>2, <1>3, <1>4, <1>6, <2>1, <2>2, <2>3, <2>5, StopsKeep
  <2> QED
    BY <2>3, <2>4, <2>6 DEF Inv
<1>7. CASE disk' = disk /\ journal' = journal /\ (~broken' => ~broken) /\ broken' \in BOOLEAN
  <2>1. /\ Kept' = Kept /\ Promised
        /\ Intent(disk)' /\ Recognised(disk)' /\ Asked' /\ Ahead'
    BY <1>1, <1>3, <1>7, SameCheckpoints
  <2>2. TypeOK'
    BY <1>1, <1>3, <1>4, <1>5, <1>7 DEF Inv, TypeOK, WorkerFails, Stops, ledgerVars, ownerVars
  <2>3. Prepared' /\ Undone' /\ Founded'
    BY <1>1, <1>2, <1>3, <1>4, <1>7, <2>1, StopsKeep
  <2> QED
    BY <2>1, <2>2, <2>3 DEF Inv
<1>8. \/ ~broken /\ Save([journal EXCEPT !.inflight = @ \ {t}])
      \/ SaveFails(journal)
      \/ UNCHANGED journalVars
  BY DEF WorkerFails
<1> QED
  BY <1>6, <1>7, <1>8 DEF Inv, TypeOK, SaveFails, journalVars

LEMMA DiscardKeeps ==
    ASSUME Inv, NEW t \in Tasks, Discard(t)
    PROVE  Inv' /\ Promised
<1>1. /\ RunFrame /\ StagedKept /\ staged' = staged
      /\ committing = NoTask /\ committing' = NoTask /\ renamed' = renamed /\ ~renamed
      /\ state' = [state EXCEPT ![t] = "cancelled"]
      /\ UNCHANGED <<disk, journal, broken>>
  BY DEF Inv, Prepared, Discard, Free, fileVars, ledgerVars, ownerVars, journalVars,
         RunFrame, StagedKept
<1>2. renamed' = FALSE
  BY <1>1 DEF Inv, TypeOK
<1>3. Stops(state')
  BY <1>1, EndedStops DEF Inv
<1>4. TypeOK'
  BY <1>1, <1>3 DEF Inv, TypeOK, Discard, Stops, fileVars, ledgerVars, ownerVars, historyVars
<1>5. /\ Kept' = Kept /\ Promised
      /\ Intent(disk)' /\ Recognised(disk)' /\ Asked' /\ Ahead'
  BY <1>1, SameCheckpoints
<1>6. Prepared' /\ Undone' /\ Founded'
  BY <1>1, <1>2, <1>3, <1>5, StopsKeep
<1> QED
  BY <1>4, <1>5, <1>6 DEF Inv

-----------------------------------------------------------------------------
(* A result is committed *)

\* The reconciled journal of a run between two commits: it has no product in
\* place left to do, and every task that may still run or be committed.
LEMMA BetweenCommits ==
    ASSUME Inv, Free, ~broken, Conclusive(journal)
    PROVE  /\ Reconciled(journal) \in Checkpoints /\ Intent(Reconciled(journal))
           /\ \A u \in Durable : dest[u] # 0 => u \notin Reconciled(journal).remaining
           /\ Reconciled(journal).remaining \subseteq journal.remaining
           /\ Reconciled(journal).remaining \subseteq disk.remaining
           /\ \A u \in journal.remaining \ Reconciled(journal).remaining :
                u \in Durable /\ dest[u] # 0
           /\ \A u \in disk.remaining \ Reconciled(journal).remaining :
                u \in Durable /\ dest[u] # 0
           /\ Reconciled(journal).pending # NoTask =>
                /\ Reconciled(journal) = journal /\ journal.pending = disk.pending
                /\ staged[journal.pending] # 0
           /\ \A u \in Tasks :
                \/ state[u] \in {"todo", "working", "result"}
                \/ state[u] = "locked" /\ staged[u] # 0
                => /\ u \in Reconciled(journal).remaining
                   /\ ~(u \in Durable /\ dest[u] # 0)
<1> DEFINE j == Reconciled(journal)
<1>1. /\ Intent(journal) /\ Recognised(journal) /\ journal.remaining \subseteq disk.remaining
      /\ \A u \in disk.remaining \ journal.remaining : u \in Durable /\ dest[u] # 0
      /\ journal.pending \in {disk.pending, NoTask}
  BY DEF Inv, Ahead, Free
<1>2. /\ j \in Checkpoints /\ Intent(j)
      /\ \A u \in Durable : dest[u] # 0 => u \notin j.remaining
      /\ j.remaining \subseteq journal.remaining
      /\ \A u \in journal.remaining \ j.remaining : u \in Durable /\ dest[u] # 0
      /\ j.pending # NoTask => j = journal /\ staged[journal.pending] # 0
  BY <1>1, ReconciledFacts DEF Inv, TypeOK
<1> HIDE DEF j
<1>3. \A u \in disk.remaining \ j.remaining : u \in Durable /\ dest[u] # 0
  BY <1>1, <1>2
<1>4. j.remaining \subseteq disk.remaining
  BY <1>1, <1>2
<1>5. \A u \in Tasks : \/ state[u] \in {"todo", "working", "result"}
                       \/ state[u] = "locked" /\ staged[u] # 0
                       => u \in j.remaining /\ ~(u \in Durable /\ dest[u] # 0)
  BY <1>2, RunAssumption DEF Inv, Free, Undone
<1>6. j.pending # NoTask => journal.pending = disk.pending
  BY <1>1, <1>2
<1> QED
  BY <1>2, <1>3, <1>4, <1>5, <1>6 DEF j

\* What is true of a task stays true while its state stays.
LEMMA FoundedStays ==
    ASSUME Inv, RunFrame, Kept' = Kept, state' = state
    PROVE  Founded'
BY DEF Inv, RunFrame, Founded, Alive

LEMMA PrepareKeeps ==
    ASSUME Inv, NEW t \in Tasks, Prepare(t)
    PROVE  Inv' /\ Promised
<1>1. /\ RunFrame /\ StagedKept /\ staged' = staged /\ dest' = dest /\ Free
      /\ committing = NoTask /\ ~renamed /\ renamed' = FALSE
      /\ state[t] \in {"result", "locked"}
  BY DEF Inv, Prepared, Prepare, Free, fileVars, ledgerVars, ownerVars, RunFrame, StagedKept
<1>2. ASSUME disk' \in Checkpoints, journal' \in Checkpoints, broken' \in BOOLEAN,
             upsets' \in 0 .. MaxUpsets, state' \in [Tasks -> TaskStates],
             committing' \in {t, NoTask}
      PROVE  TypeOK'
  BY <1>1, <1>2 DEF Inv, TypeOK, Prepare, fileVars, ledgerVars, ownerVars, historyVars
<1>3. /\ Stops(Ended(t)) /\ Stops(Halted(Ended(t))) /\ Stops([state EXCEPT ![t] = "blocked"])
  BY EndedStops, HaltedStops DEF Inv
<1>4. ASSUME Stops(state'), committing' = NoTask, UNCHANGED <<journalVars, upsets>>
      PROVE  Inv' /\ Promised
  <2>1. /\ Kept' = Kept /\ Promised
        /\ Intent(disk)' /\ Recognised(disk)' /\ Asked' /\ Ahead'
    BY <1>1, <1>4, SameCheckpoints DEF journalVars
  <2>2. Prepared' /\ Undone' /\ Founded'
    BY <1>1, <1>4, <2>1, StopsKeep DEF journalVars
  <2>3. TypeOK'
    BY <1>2, <1>4 DEF Inv, TypeOK, journalVars, Stops
  <2> QED
    BY <2>1, <2>2, <2>3 DEF Inv
<1>5. CASE broken
  BY <1>3, <1>4, <1>5 DEF Prepare
<1>6. CASE ~broken /\ ~Conclusive(journal)
  BY <1>3, <1>4, <1>6 DEF Prepare
<1>7. CASE ~broken /\ Conclusive(journal)
  <2>1. PICK j : j = Reconciled(journal)
    OBVIOUS
  <2>2. /\ j \in Checkpoints /\ Intent(j)
        /\ \A u \in Durable : dest[u] # 0 => u \notin j.remaining
        /\ j.remaining \subseteq journal.remaining
        /\ j.remaining \subseteq disk.remaining
        /\ \A u \in journal.remaining \ j.remaining : u \in Durable /\ dest[u] # 0
        /\ \A u \in disk.remaining \ j.remaining : u \in Durable /\ dest[u] # 0
        /\ j.pending # NoTask =>
             j = journal /\ journal.pending = disk.pending /\ staged[journal.pending] # 0
        /\ \A u \in Tasks : \/ state[u] \in {"todo", "working", "result"}
                            \/ state[u] = "locked" /\ staged[u] # 0
                            => u \in j.remaining /\ ~(u \in Durable /\ dest[u] # 0)
    BY <1>1, <1>7, <2>1, BetweenCommits
  <2>3. \/ /\ t \notin Durable \/ j.pending = t
           /\ journal' = j /\ committing' = t /\ UNCHANGED <<state, disk, broken, upsets>>
        \/ /\ t \in Durable /\ staged[t] = 0
           /\ journal' = j /\ state' = Ended(t) /\ committing' = NoTask
           /\ UNCHANGED <<disk, broken, upsets>>
        \/ /\ t \in Durable /\ staged[t] # 0
           /\ Save(Armed(j, t)) /\ committing' = t /\ UNCHANGED state
        \/ /\ t \in Durable /\ SaveFails(j) /\ committing' = NoTask /\ state' = Halted(Ended(t))
    BY <1>7, <2>1 DEF Prepare
  <2>4. ASSUME journal' = j, disk' = disk, broken' = broken
        PROVE  /\ Kept' = Kept /\ Promised
               /\ Intent(disk)' /\ Recognised(disk)' /\ Asked' /\ Ahead'
    <3>1. Kept' = Kept
      BY <1>1, <2>4 DEF Kept
    <3>2. Intent(disk)' /\ Recognised(disk)'
      BY <1>1, <2>4 DEF Inv, Intent, Recognised
    <3>3. Ahead'
      BY <1>1, <2>2, <2>4, RunAssumption DEF Ahead, Intent, Recognised
    <3> QED
      BY <1>1, <3>1, <3>2, <3>3, AskedKept DEF RunFrame, Promised
  <2>5. CASE /\ t \notin Durable \/ j.pending = t
             /\ journal' = j /\ committing' = t /\ UNCHANGED <<state, disk, broken, upsets>>
    <3>1. state[t] = "locked" => t \in Durable /\ staged[t] # 0
      BY <1>1, <2>2, <2>5, RunAssumption DEF Inv, Undone, Free
    <3>2. t \in j.remaining
      BY <1>1, <2>2, <3>1
    <3>3. t \in Durable => j.pending = t /\ disk.pending = t
      BY <2>2, <2>5, RunAssumption
    <3>4. Prepared'
      BY <1>1, <1>7, <2>2, <2>5, <3>2, <3>3, RunAssumption DEF Prepared, RunFrame, Alive, Free
    <3>5. Undone'
      BY <1>1, <1>7, <2>2, <2>5, RunAssumption DEF Inv, Undone, RunFrame, Alive, Free
    <3>6. TypeOK'
      BY <1>2, <2>2, <2>5 DEF Inv, TypeOK
    <3> QED
      BY <1>1, <2>4, <2>5, <3>4, <3>5, <3>6, FoundedStays DEF Inv
  <2>6. CASE /\ t \in Durable /\ staged[t] = 0
             /\ journal' = j /\ state' = Ended(t) /\ committing' = NoTask
             /\ UNCHANGED <<disk, broken, upsets>>
    <3>1. Prepared' /\ Undone' /\ Founded'
      BY <1>1, <1>3, <1>7, <2>2, <2>4, <2>6, StopsKeep
    <3>2. TypeOK'
      BY <1>2, <1>3, <2>2, <2>6 DEF Inv, TypeOK, Stops
    <3> QED
      BY <2>4, <2>6, <3>1, <3>2 DEF Inv
  <2>7. CASE /\ t \in Durable /\ staged[t] # 0
             /\ Save(Armed(j, t)) /\ committing' = t /\ UNCHANGED state
    <3>1. PICK k : k = Armed(j, t)
      OBVIOUS
    <3>2. /\ k \in Checkpoints /\ k.remaining = j.remaining /\ k.pending = t
          /\ k.proof = staged[t]
      BY <2>2, <3>1 DEF Inv, TypeOK, Armed, Checkpoints
    <3>3. disk' = k /\ journal' = k /\ broken' = broken /\ upsets' = upsets
      BY <2>7, <3>1 DEF Save
    <3>4. Kept' = Kept
      BY <1>1, <2>2, <3>2, <3>3, KeptBy, RunAssumption DEF Inv, TypeOK, Checkpoints
    <3>5. Intent(disk)' /\ Recognised(disk)'
      BY <1>1, <2>2, <2>7, <3>2, <3>3 DEF Intent, Recognised
    <3>6. Ahead'
      BY <3>3, <3>5 DEF Ahead, Intent, Recognised
    <3>7. t \in j.remaining
      BY <1>1, <2>2, <2>7
    <3>8. Prepared'
      BY <1>1, <1>7, <2>2, <2>7, <3>2, <3>3, <3>7, RunAssumption
      DEF Prepared, RunFrame, Alive, Free
    <3>9. Undone'
      BY <1>1, <1>7, <2>2, <2>7, <3>2, <3>3, RunAssumption DEF Inv, Undone, RunFrame, Alive, Free
    <3>10. TypeOK'
      BY <1>2, <2>7, <3>2, <3>3 DEF Inv, TypeOK
    <3>11. Asked' /\ Founded'
      BY <1>1, <2>7, <3>4, AskedKept, FoundedStays
    <3>12. Promised
      BY <1>1, <3>4 DEF Promised, RunFrame
    <3> QED
      BY <3>5, <3>6, <3>8, <3>9, <3>10, <3>11, <3>12 DEF Inv
  <2>8. CASE /\ SaveFails(j) /\ committing' = NoTask /\ state' = Halted(Ended(t))
    <3>1. /\ Kept' = Kept /\ Promised
          /\ Intent(disk)' /\ Recognised(disk)' /\ Asked' /\ Ahead'
      BY <1>1, <2>8, SameCheckpoints DEF SaveFails
    <3>2. Prepared' /\ Undone' /\ Founded'
      BY <1>1, <1>3, <2>8, <3>1, StopsKeep DEF SaveFails
    <3>3. upsets' \in 0 .. MaxUpsets
      BY <2>8, BoundKept DEF Inv, SaveFails
    <3>4. TypeOK'
      BY <1>2, <1>3, <2>2, <2>8, <3>3 DEF Inv, TypeOK, Stops, SaveFails
    <3> QED
      BY <3>1, <3>2, <3>4 DEF Inv
  <2> QED
    BY <2>3, <2>5, <2>6, <2>7, <2>8
<1> QED
  BY <1>5, <1>6, <1>7

\* The rename of a product that was prepared is the task being done.
LEMMA MoveKeeps ==
    ASSUME Inv, NEW t \in Durable, Alive, committing = t, ~renamed, staged[t] # 0, Move(t),
           UNCHANGED <<disk, journal, broken, owner, request>>
    PROVE  /\ Promised /\ Kept \subseteq Kept'
           /\ Intent(disk)' /\ Recognised(disk)' /\ Asked' /\ Ahead'
           /\ dest' \in [Tasks -> Nat] /\ staged' \in [Tasks -> Nat]
           /\ dest'[t] # 0 /\ staged'[t] = 0
           /\ \A u \in Tasks \ {t} : dest'[u] = dest[u] /\ staged'[u] = staged[u]
           /\ \A u \in Durable : dest'[u] # 0 /\ u \in journal.remaining => u = t
<1>1. t \in Tasks /\ t # NoTask
  BY RunAssumption
<1>2. /\ dest' \in [Tasks -> Nat] /\ staged' \in [Tasks -> Nat]
      /\ dest'[t] # 0 /\ staged'[t] = 0
      /\ \A u \in Tasks \ {t} : dest'[u] = dest[u] /\ staged'[u] = staged[u]
  BY <1>1 DEF Inv, TypeOK, Move
<1>3. /\ ~broken /\ state[t] \in {"result", "locked"} /\ t \in journal.remaining
      /\ journal.pending = t /\ disk.pending = t
      /\ \A u \in Durable : dest[u] # 0 /\ u \in journal.remaining => u = t
  BY <1>1 DEF Inv, Prepared
<1>4. t \in disk.remaining /\ dest[t] = 0
  BY <1>1, <1>3 DEF Inv, Undone
<1>5. t \notin Kept /\ Kept' = Kept \cup {t}
  BY <1>1, <1>2, <1>4, RunAssumption DEF Kept
<1>6. DependsOn[t] \subseteq Kept
  BY <1>1, <1>3 DEF Inv, Founded
<1>7. Promised
  BY <1>1, <1>2, <1>5, <1>6 DEF Promised
<1>8. Intent(disk)' /\ Recognised(disk)'
  BY <1>2, <1>3, RunAssumption DEF Inv, Intent, Recognised
<1>9. Ahead'
  BY <1>2, <1>3, RunAssumption DEF Inv, Intent, Recognised, Ahead, Alive
<1>10. Asked'
  BY DEF Inv, Asked, Alive
<1>11. \A u \in Durable : dest'[u] # 0 /\ u \in journal.remaining => u = t
  BY <1>2, <1>3, RunAssumption
<1> QED
  BY <1>2, <1>5, <1>7, <1>8, <1>9, <1>10, <1>11

LEMMA RegisterKeeps ==
    ASSUME Inv, NEW t \in Tasks, Register(t)
    PROVE  Inv' /\ Promised
<1>1. /\ Alive /\ committing = t /\ ~renamed /\ t # NoTask
      /\ UNCHANGED <<disk, journal, broken, owner, request, outcome>>
  BY RunAssumption DEF Register, ledgerVars, ownerVars, journalVars
<1>2. /\ ~broken /\ state[t] \in {"result", "locked"} /\ t \in journal.remaining
      /\ t \in Durable => journal.pending = t /\ disk.pending = t
      /\ \A u \in Durable : dest[u] # 0 /\ u \in journal.remaining => u = t
  BY <1>1 DEF Inv, Prepared
<1>3. t \in disk.remaining /\ t \in journal.remaining
  BY <1>1, <1>2 DEF Inv, Ahead
<1>4. t \in Durable /\ staged[t] # 0 => dest[t] = 0
  BY <1>1, <1>2 DEF Inv, Undone
<1>5. ASSUME staged' \in [Tasks -> Nat], dest' \in [Tasks -> Nat], writes' = writes,
             state' \in [Tasks -> TaskStates], committing' \in {t, NoTask},
             renamed' \in BOOLEAN, upsets' \in 0 .. MaxUpsets
      PROVE  TypeOK'
  BY <1>1, <1>5 DEF Inv, TypeOK, Register, ledgerVars, ownerVars, journalVars, historyVars
<1>6. /\ Stops(Ended(t)) /\ Ended(t)[t] \in {"failed", "cancelled"}
      /\ Ended(t) \in [Tasks -> TaskStates]
      /\ [state EXCEPT ![t] = "locked"] \in [Tasks -> TaskStates]
  BY EndedStops DEF Inv, Stops, TypeOK, TaskStates
<1>7. \A u \in Tasks : state[u] \in {"todo", "working", "result"} =>
         u \in disk.remaining /\ u \in journal.remaining /\ ~(u \in Durable /\ dest[u] # 0)
  BY <1>1, <1>2 DEF Inv, Undone
<1>8. \A u \in Tasks : state[u] = "locked" =>
         /\ u \in Durable
         /\ staged[u] # 0 => u \in disk.remaining /\ u \in journal.remaining /\ dest[u] = 0
  BY <1>1, <1>2 DEF Inv, Undone
<1>9. upsets' \in 0 .. MaxUpsets
  <2>1. \/ upsets' = upsets \/ Upset("lock") \/ Upset("late") \/ Upset("worker")
    BY DEF Register
  <2> QED
    BY <2>1, BoundKept DEF Inv
<1>10. CASE UNCHANGED <<fileVars, state, committing>> /\ renamed' = TRUE /\ t \notin Durable
  <2>1. RunFrame /\ StagedKept /\ staged' = staged /\ writes' = writes
    BY <1>1, <1>10 DEF RunFrame, StagedKept, fileVars
  <2>2. /\ Kept' = Kept /\ Promised
        /\ Intent(disk)' /\ Recognised(disk)' /\ Asked' /\ Ahead'
    BY <1>1, <2>1, SameCheckpoints
  <2>3. Prepared'
    BY <1>1, <1>2, <1>10, <2>1 DEF Prepared, RunFrame, Alive
  <2>4. Undone'
    BY <1>1, <1>7, <1>8, <1>10, <2>1 DEF Undone, RunFrame
  <2>5. Founded'
    BY <1>10, <2>1, <2>2, FoundedStays
  <2>6. TypeOK'
    BY <1>1, <1>5, <1>9, <1>10, <2>1 DEF Inv, TypeOK, RunFrame
  <2> QED
    BY <2>2, <2>3, <2>4, <2>5, <2>6 DEF Inv
<1>11. CASE /\ t \in Durable /\ staged[t] # 0 /\ Move(t)
            /\ \/ renamed' = TRUE /\ UNCHANGED <<state, committing>>
               \/ /\ renamed' = renamed /\ committing' = NoTask
                  /\ state' \in {Ended(t), [state EXCEPT ![t] = "locked"]}
  <2>1. /\ Promised /\ Kept \subseteq Kept'
        /\ Intent(disk)' /\ Recognised(disk)' /\ Asked' /\ Ahead'
        /\ dest' \in [Tasks -> Nat] /\ staged' \in [Tasks -> Nat]
        /\ dest'[t] # 0 /\ staged'[t] = 0
        /\ \A u \in Tasks \ {t} : dest'[u] = dest[u] /\ staged'[u] = staged[u]
        /\ \A u \in Durable : dest'[u] # 0 /\ u \in journal.remaining => u = t
    BY <1>1, <1>11, MoveKeeps
  <2>2. /\ \A u \in Tasks \ {t} : state'[u] = state[u]
                                  \/ state'[u] \in {"failed", "blocked", "cancelled"}
        /\ state' \in [Tasks -> TaskStates]
        /\ state'[t] \in {"result", "locked", "failed", "cancelled"}
        /\ state'[t] = "result" => committing' = t /\ renamed'
    BY <1>1, <1>2, <1>6, <1>11 DEF Inv, TypeOK, Stops
  <2>3. Prepared'
    BY <1>1, <1>2, <1>11, <2>1 DEF Prepared, Alive
  <2>4. Undone'
    BY <1>1, <1>3, <1>7, <1>8, <1>11, <2>1, <2>2 DEF Undone
  <2>5. Founded'
    <3>1. DependsOn[t] \subseteq Kept
      BY <1>1, <1>2 DEF Inv, Founded
    <3> QED
      BY <1>1, <2>1, <2>2, <3>1 DEF Inv, Founded, Alive
  <2>6. TypeOK'
    <3>1. writes' = writes /\ committing' \in {t, NoTask} /\ renamed' \in BOOLEAN
      BY <1>1, <1>11 DEF Inv, TypeOK, Move
    <3> QED
      BY <1>5, <1>9, <2>1, <2>2, <3>1
  <2> QED
    BY <2>1, <2>3, <2>4, <2>5, <2>6 DEF Inv
<1>12. CASE /\ UNCHANGED fileVars /\ renamed' = renamed /\ committing' = NoTask
            /\ t \in Durable /\ staged[t] # 0 /\ state' = [state EXCEPT ![t] = "locked"]
  <2>1. RunFrame /\ StagedKept /\ staged' = staged /\ writes' = writes
    BY <1>1, <1>12 DEF RunFrame, StagedKept, fileVars
  <2>2. /\ Kept' = Kept /\ Promised
        /\ Intent(disk)' /\ Recognised(disk)' /\ Asked' /\ Ahead'
    BY <1>1, <2>1, SameCheckpoints
  <2>3. \A u \in Tasks : state'[u] = IF u = t THEN "locked" ELSE state[u]
    BY <1>12 DEF Inv, TypeOK
  <2>4. Prepared'
    BY <1>1, <1>12 DEF Prepared
  <2>5. Undone'
    BY <1>1, <1>3, <1>4, <1>7, <1>8, <1>12, <2>1, <2>3 DEF Undone, RunFrame
  <2>6. Founded'
    BY <1>2, <2>1, <2>2, <2>3 DEF Inv, Founded, RunFrame, Alive
  <2>7. TypeOK'
    BY <1>1, <1>5, <1>6, <1>9, <1>12, <2>1 DEF Inv, TypeOK, RunFrame
  <2> QED
    BY <2>2, <2>4, <2>5, <2>6, <2>7 DEF Inv
<1>13. CASE UNCHANGED <<fileVars, renamed>> /\ committing' = NoTask /\ state' = Ended(t)
  <2>1. RunFrame /\ StagedKept /\ staged' = staged /\ writes' = writes /\ renamed' = FALSE
    BY <1>1, <1>13 DEF RunFrame, StagedKept, fileVars, Inv, TypeOK
  <2>2. /\ Kept' = Kept /\ Promised
        /\ Intent(disk)' /\ Recognised(disk)' /\ Asked' /\ Ahead'
    BY <1>1, <2>1, SameCheckpoints
  <2>3. Prepared' /\ Undone' /\ Founded'
    BY <1>1, <1>6, <1>13, <2>1, <2>2, StopsKeep
  <2>4. TypeOK'
    BY <1>1, <1>5, <1>6, <1>9, <1>13, <2>1 DEF Inv, TypeOK, RunFrame
  <2> QED
    BY <2>2, <2>3, <2>4 DEF Inv
<1> QED
  BY <1>10, <1>11, <1>12, <1>13 DEF Register

LEMMA CommitKeeps ==
    ASSUME Inv, NEW t \in Tasks, Commit(t)
    PROVE  Inv' /\ Promised
<1>1. /\ RunFrame /\ StagedKept /\ committing = t /\ renamed /\ t # NoTask
      /\ staged' = staged /\ committing' = NoTask /\ renamed' = FALSE
  BY RunAssumption DEF Commit, fileVars, ledgerVars, ownerVars, RunFrame, StagedKept
<1>2. /\ ~broken /\ state[t] \in {"result", "locked"} /\ t \in journal.remaining
      /\ t \in Durable => dest[t] # 0
      /\ \A u \in Durable : dest[u] # 0 /\ u \in journal.remaining => u = t
  BY <1>1 DEF Inv, Prepared
<1>3. ASSUME disk' \in Checkpoints, journal' \in Checkpoints, broken' \in BOOLEAN,
             state' \in [Tasks -> TaskStates], upsets' \in 0 .. MaxUpsets
      PROVE  TypeOK'
  BY <1>1, <1>3 DEF Inv, TypeOK, Commit, fileVars, ledgerVars, ownerVars, historyVars
<1>4. CASE Save(Completed(journal, t, File(t))) /\ state' = [state EXCEPT ![t] = "done"]
  <2>1. PICK k : k = Completed(journal, t, File(t))
    OBVIOUS
  <2>2. k \in Checkpoints /\ k.remaining = journal.remaining \ {t} /\ k.pending = NoTask
    <3>1. File(t) \in Nat
      BY DEF Inv, TypeOK, File
    <3> QED
      BY <2>1, <3>1, CompletedFacts DEF Inv, TypeOK
  <2>3. disk' = k /\ journal' = k /\ broken' = broken /\ upsets' = upsets
    BY <1>4, <2>1 DEF Save
  <2>4. /\ journal.remaining \subseteq disk.remaining
        /\ \A u \in disk.remaining \ journal.remaining : u \in Durable /\ dest[u] # 0
    BY <1>1, <1>2 DEF Inv, Ahead, RunFrame
  <2>5. disk.remaining \subseteq Tasks
    BY DEF Inv, TypeOK, Checkpoints
  <2>6. Kept' = Kept \cup {t}
    BY <1>1, <1>2, <2>2, <2>3, <2>4, <2>5, RunAssumption DEF Kept, RunFrame
  <2>7. Promised
    <3>1. CASE t \in Durable
      <4>1. Kept' = Kept
        BY <1>2, <2>6, <3>1 DEF Kept
      <4> QED
        BY <1>1, <4>1 DEF Promised, RunFrame
    <3>2. CASE t \notin Durable
      <4>1. t \notin Kept
        BY <1>2, <2>4, <3>2 DEF Kept
      <4>2. DependsOn[t] \subseteq Kept
        BY <1>1, <1>2 DEF Inv, Founded, RunFrame
      <4> QED
        BY <1>1, <2>6, <4>1, <4>2 DEF Promised, RunFrame
    <3> QED
      BY <3>1, <3>2
  <2>8. Intent(disk)' /\ Recognised(disk)'
    BY <1>1, <1>2, <2>2, <2>3 DEF Intent, Recognised, RunFrame
  <2>9. Ahead'
    BY <2>3, <2>8 DEF Ahead, Intent, Recognised
  <2>10. Prepared'
    BY <1>1 DEF Prepared
  <2>11. \A u \in Tasks : state'[u] = IF u = t THEN "done" ELSE state[u]
    BY <1>4 DEF Inv, TypeOK
  <2>12. Undone'
    BY <1>1, <1>2, <2>2, <2>3, <2>11, RunAssumption DEF Inv, Undone, RunFrame
  <2>13. Founded'
    BY <1>1, <2>6, <2>11 DEF Inv, Founded, RunFrame, Alive
  <2>14. TypeOK'
    <3>1. state' \in [Tasks -> TaskStates]
      BY <1>4 DEF Inv, TypeOK, TaskStates
    <3> QED
      BY <1>3, <2>2, <2>3, <3>1 DEF Inv, TypeOK
  <2> QED
    BY <1>1, <2>7, <2>8, <2>9, <2>10, <2>12, <2>13, <2>14, AskedKept DEF Inv
<1>5. CASE SaveFails(journal) /\ state' = Halted(Ended(t))
  <2>1. Stops(state') /\ state'[t] \in {"failed", "cancelled"}
    BY <1>5, EndedStops, HaltedStops DEF Inv
  <2>2. /\ Kept' = Kept /\ Promised
        /\ Intent(disk)' /\ Recognised(disk)' /\ Asked' /\ Ahead'
    BY <1>1, <1>5, SameCheckpoints DEF SaveFails
  <2>3. Prepared' /\ Undone' /\ Founded'
    BY <1>1, <1>5, <2>1, <2>2, StopsKeep DEF SaveFails
  <2>4. upsets' \in 0 .. MaxUpsets
    BY <1>5, BoundKept DEF Inv, SaveFails
  <2>5. TypeOK'
    BY <1>3, <1>5, <2>1, <2>4 DEF Inv, TypeOK, Stops, SaveFails
  <2> QED
    BY <2>2, <2>3, <2>5 DEF Inv
<1> QED
  BY <1>4, <1>5 DEF Commit

-----------------------------------------------------------------------------
(* The owner *)

\* A run that is not in memory, or ended, leaves the promise to the checkpoint.
LEMMA LeavesMemory ==
    ASSUME Inv, disk' = disk, dest' = dest, staged' \in {staged, None},
           owner' # "running", committing' = NoTask, renamed' = FALSE,
           owner' = "closed" /\ outcome' = "succeeded" => Kept = Tasks
    PROVE  /\ Kept' = Kept
           /\ Intent(disk)' /\ Recognised(disk)'
           /\ Ahead' /\ Prepared' /\ Undone' /\ Founded'
<1>1. Kept' = Kept
  BY DEF Kept
<1>2. Intent(disk)'
  BY DEF Inv, Intent
<1>3. Recognised(disk)'
  BY NoneNat, RunAssumption DEF Inv, Recognised
<1>4. Ahead' /\ Prepared' /\ Undone'
  BY DEF Ahead, Prepared, Undone, Alive
<1>5. Founded'
  BY <1>1 DEF Founded, Alive
<1> QED
  BY <1>1, <1>2, <1>3, <1>4, <1>5

LEMMA ResultFacts ==
    /\ Result \in {"succeeded", "failed", "cancelled", "paused"}
    /\ Result = "succeeded" => \A t \in Tasks : state[t] = "done"
BY DEF Result

LEMMA FinishKeeps ==
    ASSUME Inv, Finish
    PROVE  Inv' /\ Promised
<1>1. /\ Alive /\ committing = NoTask /\ ~renamed /\ owner' = "closed" /\ outcome' = Result
      /\ staged' \in {staged, None} /\ request' = request
      /\ UNCHANGED <<disk, dest, committing, renamed>>
  BY DEF Inv, Prepared, Finish, Free, ledgerVars, journalVars, workVars
<1>2. Result = "succeeded" => Kept = Tasks
  BY <1>1, ResultFacts, RunAssumption DEF Inv, Founded, Kept
<1>3. /\ Kept' = Kept
      /\ Intent(disk)' /\ Recognised(disk)'
      /\ Ahead' /\ Prepared' /\ Undone' /\ Founded'
  <2>1. renamed' = FALSE
    BY <1>1 DEF Inv, TypeOK
  <2> QED
    BY <1>1, <1>2, <2>1, LeavesMemory
<1>4. Asked'
  BY <1>1, ResultFacts DEF Inv, Asked, Alive
<1>5. TypeOK'
  <2>1. staged' \in [Tasks -> Nat]
    BY <1>1, NoneNat DEF Inv, TypeOK
  <2> QED
    BY <1>1, <2>1, ResultFacts
    DEF Inv, TypeOK, Finish, ledgerVars, journalVars, workVars, historyVars
<1>6. Promised
  BY <1>1, <1>3 DEF Promised
<1> QED
  BY <1>3, <1>4, <1>5, <1>6 DEF Inv

\* The states of a run that is loaded, or of which nothing is in memory.
LEMMA LoadedStates ==
    ASSUME NEW R
    PROVE  /\ [t \in Tasks |-> IF t \in R THEN "todo" ELSE "done"] \in [Tasks -> TaskStates]
           /\ [t \in Tasks |-> "todo"] \in [Tasks -> TaskStates]
BY DEF TaskStates

\* A checkpoint that can stand for the file: it has no product in place to do.
Clean(j) ==
    /\ j \in Checkpoints /\ Intent(j)
    /\ j.remaining \subseteq disk.remaining
    /\ \A t \in disk.remaining \ j.remaining : t \in Durable /\ dest[t] # 0
    /\ \A t \in Durable : dest[t] # 0 => t \notin j.remaining

LEMMA OpenedKeeps ==
    ASSUME Inv, NEW j, Clean(j), request # "succeeded",
           \/ Accepted(j) /\ request' = "accepted" /\ upsets' = upsets
           \/ StartFails(j) /\ request' = "failed",
           attempts' \in Nat, receipt' \in BOOLEAN, charged' \subseteq Remote,
           reopened' \in BOOLEAN, unsaved' \in BOOLEAN
    PROVE  Inv' /\ Promised
<1>1. /\ disk' = j /\ journal' = j /\ broken' = FALSE /\ dest' = dest /\ writes' = writes
      /\ staged' \in {staged, None} /\ stopping' = {} /\ outcome' = "none"
      /\ committing' = NoTask /\ renamed' = FALSE
      /\ owner' \in {"running", "idle"} /\ request' \in {"accepted", "failed"}
  BY DEF Accepted, StartFails, Unload, fileVars
<1>2. state' \in [Tasks -> TaskStates]
  BY LoadedStates DEF Accepted, StartFails, Unload
<1>3. Kept' = Kept
  BY <1>1, KeptBy, RunAssumption DEF Inv, TypeOK, Clean, Checkpoints
<1>4. Promised
  BY <1>1, <1>3 DEF Promised
<1>5. Intent(disk)' /\ Recognised(disk)' /\ Intent(journal)' /\ Recognised(journal)'
  BY <1>1 DEF Clean, Intent, Recognised
<1>6. Asked' /\ Ahead' /\ Prepared'
  BY <1>1, <1>5 DEF Asked, Ahead, Prepared
<1>7. owner' = "running" => \A t \in Tasks : state'[t] = IF t \in j.remaining THEN "todo" ELSE "done"
  BY DEF Accepted, StartFails, Unload
<1>8. Undone'
  BY <1>1, <1>7 DEF Undone, Clean, Alive
<1>9. Founded'
  BY <1>1, <1>7 DEF Founded, Kept, Alive
<1>10. TypeOK'
  <2>1. staged' \in [Tasks -> Nat]
    BY <1>1, NoneNat DEF Inv, TypeOK
  <2>2. upsets' \in 0 .. MaxUpsets
    BY BoundKept DEF Inv, StartFails
  <2> QED
    BY <1>1, <1>2, <2>1, <2>2 DEF Inv, TypeOK, Clean, Open
<1> QED
  BY <1>4, <1>5, <1>6, <1>8, <1>9, <1>10 DEF Inv

LEMMA AcceptKeeps ==
    ASSUME Inv, Accept
    PROVE  Inv' /\ Promised
<1>1. disk = Fresh /\ dest = None /\ request = "none"
  BY DEF Inv, Asked, Accept
<1>2. Clean(Fresh)
  BY <1>1, FreshFacts, NoneNat, RunAssumption DEF Clean
<1>3. /\ attempts' \in Nat /\ receipt' \in BOOLEAN /\ charged' \subseteq Remote
      /\ reopened' \in BOOLEAN /\ unsaved' \in BOOLEAN
  BY DEF Inv, TypeOK, Accept, historyVars
<1> QED
  BY <1>1, <1>2, <1>3, OpenedKeeps DEF Accept

LEMMA ReopenKeeps ==
    ASSUME Inv, NEW more \in Nat, Reopen(more), Loadable(disk), request # "succeeded",
           receipt' = receipt, charged' \subseteq Remote, unsaved' = unsaved
    PROVE  Inv' /\ Promised
<1>1. Clean(Reconciled(disk))
  BY ReconciledFacts DEF Inv, TypeOK, Loadable, Clean
<1>2. attempts' \in Nat /\ receipt' \in BOOLEAN /\ reopened' \in BOOLEAN /\ unsaved' \in BOOLEAN
  BY DEF Inv, TypeOK, Reopen
<1> QED
  BY <1>1, <1>2, OpenedKeeps DEF Reopen

LEMMA ResumeKeeps ==
    ASSUME Inv, Resume
    PROVE  Inv' /\ Promised
BY ReopenKeeps DEF Resume

\* The owner lets go of the run, and its record changes to request'.
LEMMA UnloadKeeps ==
    ASSUME Inv, NEW st \in {"idle", "down"}, Unload(st), disk' = disk, dest' = dest,
           staged' = staged, writes' = writes, request' \in {request, "failed"},
           attempts' = attempts, receipt' = receipt, charged' = charged,
           reopened' = reopened, unsaved' \in BOOLEAN, upsets' \in 0 .. MaxUpsets,
           request = "succeeded" => request' = "succeeded"
    PROVE  Inv' /\ Promised
<1>1. /\ Kept' = Kept
      /\ Intent(disk)' /\ Recognised(disk)'
      /\ Ahead' /\ Prepared' /\ Undone' /\ Founded'
  BY LeavesMemory DEF Unload
<1>2. Asked'
  BY DEF Inv, Asked, Unload
<1>3. Promised
  BY <1>1 DEF Promised
<1>4. TypeOK'
  <2>1. state' \in [Tasks -> TaskStates]
    BY LoadedStates DEF Unload
  <2> QED
    BY <2>1 DEF Inv, TypeOK, Unload
<1> QED
  BY <1>1, <1>2, <1>3, <1>4 DEF Inv

LEMMA CrashKeeps ==
    ASSUME Inv, Crash
    PROVE  Inv' /\ Promised
BY UnloadKeeps, BoundKept DEF Inv, TypeOK, Crash, fileVars, ledgerVars, historyVars

LEMMA RestoreKeeps ==
    ASSUME Inv, Restore
    PROVE  Inv' /\ Promised
<1>1. receipt' = receipt /\ charged' = charged /\ unsaved' = unsaved
  BY DEF Restore
<1>2. CASE /\ request \in Open /\ ~Refused
           /\ Reopen(IF request = "paused" THEN 0 ELSE 1)
  BY <1>1, <1>2, ReopenKeeps DEF Inv, TypeOK, Refused, Open
<1>3. CASE /\ request' \in {request, "failed"} /\ UNCHANGED disk /\ Unload("idle")
           /\ request = "succeeded" => request' = "succeeded"
           /\ UNCHANGED <<fileVars, attempts, reopened>>
           /\ upsets' = upsets \/ Upset("save")
  BY <1>1, <1>3, UnloadKeeps, BoundKept DEF Inv, TypeOK, fileVars
<1> QED
  BY <1>2, <1>3 DEF Restore, Open

LEMMA RecordCompletionKeeps ==
    ASSUME Inv, RecordCompletion
    PROVE  Inv' /\ Promised
<1>1. /\ owner = "closed" /\ disk' = disk
      /\ staged' = staged /\ dest' = dest /\ writes' = writes
      /\ attempts' = attempts /\ receipt' = receipt /\ charged' = charged
      /\ reopened' = reopened
  BY DEF RecordCompletion, fileVars
<1>2. PICK st \in {"idle", "down"} : Unload(st)
  BY DEF RecordCompletion
<1>3. CASE request' = request /\ Upset("ledger") /\ unsaved' = TRUE
  BY <1>1, <1>2, <1>3, UnloadKeeps, BoundKept DEF Inv
<1>4. CASE request' = outcome /\ UNCHANGED <<upsets, unsaved>>
  <2>1. /\ Kept' = Kept
        /\ Intent(disk)' /\ Recognised(disk)'
        /\ Ahead' /\ Prepared' /\ Undone' /\ Founded'
    BY <1>1, <1>2, LeavesMemory DEF Unload
  <2>2. /\ request # "succeeded" /\ outcome # "none"
        /\ outcome = "succeeded" => Kept = Tasks
    BY <1>1 DEF Inv, Asked, Founded
  <2>3. Asked'
    BY <1>2, <1>4, <2>2 DEF Asked, Unload
  <2>4. Promised
    BY <1>1, <1>4, <2>1, <2>2 DEF Promised
  <2>5. TypeOK'
    <3>1. state' \in [Tasks -> TaskStates]
      BY <1>2, LoadedStates DEF Unload
    <3> QED
      BY <1>1, <1>2, <1>4, <2>2, <3>1 DEF Inv, TypeOK, Unload, Open
  <2> QED
    BY <2>1, <2>3, <2>4, <2>5 DEF Inv
<1> QED
  BY <1>3, <1>4 DEF RecordCompletion

\* A record of the owner or an order to stop changes; the run does not.
LEMMA OrderKeeps ==
    ASSUME Inv, UNCHANGED <<fileVars, attempts, owner, outcome, journalVars, workVars,
                            historyVars>>,
           stopping' \subseteq {"drain", "cancel"}, receipt' \in BOOLEAN,
           request' = request \/ (request \in Open /\ request' = "cancelled"),
           upsets' \in 0 .. MaxUpsets
    PROVE  Inv' /\ Promised
<1>1. UNCHANGED <<staged, dest, writes, owner, outcome, disk, journal, broken, state,
                  committing, renamed>>
  BY DEF fileVars, journalVars, workVars
<1>2. Kept' = Kept
  BY <1>1 DEF Kept
<1>3. Promised
  BY <1>1, <1>2 DEF Promised, Open
<1>4. Intent(disk)' /\ Recognised(disk)' /\ Ahead'
  BY <1>1 DEF Inv, Intent, Recognised, Ahead, Alive
<1>5. Prepared' /\ Undone'
  BY <1>1 DEF Inv, Prepared, Undone, Alive
<1>6. Founded'
  BY <1>1, <1>2 DEF Inv, Founded, Alive
<1>7. Asked'
  BY <1>1 DEF Inv, Asked, Open
<1>8. TypeOK'
  BY <1>1 DEF Inv, TypeOK, historyVars, Open
<1> QED
  BY <1>3, <1>4, <1>5, <1>6, <1>7, <1>8 DEF Inv

\* What an order to cancel does to the owner.
LEMMA HonourFacts ==
    ASSUME Inv, Honour
    PROVE  /\ stopping' \subseteq {"drain", "cancel"} /\ receipt' \in BOOLEAN
           /\ request' = request \/ (request \in Open /\ request' = "cancelled")
<1>1. stopping' \subseteq {"drain", "cancel"}
  BY DEF Inv, TypeOK, Honour
<1>2. request' = request \/ (request \in Open /\ request' = "cancelled")
  BY DEF Honour
<1>3. receipt' \in BOOLEAN
  BY DEF Honour
<1> QED
  BY <1>1, <1>2, <1>3

LEMMA CancelKeeps ==
    ASSUME Inv, Cancel
    PROVE  Inv' /\ Promised
<1>1. upsets' \in 0 .. MaxUpsets
  BY BoundKept DEF Inv, Cancel
<1>2. /\ stopping' \subseteq {"drain", "cancel"} /\ receipt' \in BOOLEAN
      /\ request' = request \/ (request \in Open /\ request' = "cancelled")
  <2>1. CASE Honour
    BY <2>1, HonourFacts
  <2>2. CASE /\ stopping' = IF Alive THEN stopping \cup {"cancel"} ELSE stopping
             /\ receipt' = TRUE /\ UNCHANGED request
    <3>1. stopping' \subseteq {"drain", "cancel"}
      BY <2>2 DEF Inv, TypeOK
    <3> QED
      BY <2>2, <3>1
  <2> QED
    BY <2>1, <2>2 DEF Cancel
<1> QED
  BY <1>1, <1>2, OrderKeeps DEF Cancel

LEMMA FinishCommandKeeps ==
    ASSUME Inv, FinishCommand
    PROVE  Inv' /\ Promised
<1>1. upsets' \in 0 .. MaxUpsets
  BY DEF Inv, TypeOK, FinishCommand
<1> QED
  BY <1>1, HonourFacts, OrderKeeps DEF FinishCommand

LEMMA DrainKeeps ==
    ASSUME Inv, Drain
    PROVE  Inv' /\ Promised
<1>1. upsets' \in 0 .. MaxUpsets
  BY BoundKept DEF Inv, Drain
<1>2. CASE owner \in {"running", "closed"}
  <2>1. stopping' \subseteq {"drain", "cancel"} /\ receipt' \in BOOLEAN
    BY <1>2 DEF Inv, TypeOK, Drain, ledgerVars
  <2>2. /\ UNCHANGED <<fileVars, attempts, owner, outcome, journalVars, workVars,
                       historyVars>>
        /\ request' = request
    BY <1>2 DEF Drain, ledgerVars
  <2> QED
    BY <1>1, <2>1, <2>2, OrderKeeps
<1>3. CASE owner \notin {"running", "closed"}
  BY <1>1, <1>3, UnloadKeeps DEF Inv, TypeOK, Drain, fileVars, ledgerVars, historyVars
<1> QED
  BY <1>2, <1>3

LEMMA BootKeeps ==
    ASSUME Inv, Boot
    PROVE  Inv' /\ Promised
<1>1. /\ owner = "down" /\ owner' = (IF request \in Open THEN "restoring" ELSE "idle")
      /\ staged' \in {staged, None}
      /\ UNCHANGED <<disk, dest, writes, attempts, outcome, journal, broken, state,
                     committing, renamed, charged, reopened, unsaved>>
  BY DEF Boot, ToRestore, journalVars, workVars, historyVars
<1>2. /\ stopping' \subseteq {"drain", "cancel"} /\ receipt' \in BOOLEAN
      /\ request' = request \/ (request \in Open /\ request' = "cancelled")
  <2>1. CASE Honour
    BY <2>1, HonourFacts
  <2>2. CASE UNCHANGED <<stopping, request, receipt>>
    BY <2>2 DEF Inv, TypeOK
  <2> QED
    BY <2>1, <2>2 DEF Boot
<1>3. committing = NoTask /\ ~renamed
  BY <1>1 DEF Inv, Prepared, Alive
<1>4. /\ Kept' = Kept
      /\ Intent(disk)' /\ Recognised(disk)'
      /\ Ahead' /\ Prepared' /\ Undone' /\ Founded'
  <2>1. renamed' = FALSE
    BY <1>1, <1>3 DEF Inv, TypeOK
  <2> QED
    BY <1>1, <1>3, <2>1, LeavesMemory
<1>5. Asked'
  BY <1>1, <1>2 DEF Inv, Asked, Open
<1>6. Promised
  BY <1>1, <1>2, <1>4 DEF Promised, Open
<1>7. TypeOK'
  <2>1. staged' \in [Tasks -> Nat]
    BY <1>1, NoneNat DEF Inv, TypeOK
  <2>2. upsets' \in 0 .. MaxUpsets
    BY BoundKept DEF Inv, Boot
  <2> QED
    BY <1>1, <1>2, <2>1, <2>2 DEF Inv, TypeOK, Open
<1> QED
  BY <1>4, <1>5, <1>6, <1>7 DEF Inv

-----------------------------------------------------------------------------
(* The theorems *)

LEMMA InitInv == Init => Inv
<1> SUFFICES ASSUME Init PROVE Inv
  OBVIOUS
<1>1. disk \in Checkpoints /\ journal \in Checkpoints /\ Intent(disk) /\ Intent(journal)
  BY FreshFacts DEF Init
<1>2. \A t \in Durable : dest[t] = 0
  BY NoneNat, RunAssumption DEF Init
<1>3. TypeOK
  <2>1. state \in [Tasks -> TaskStates]
    BY LoadedStates DEF Init
  <2>2. staged \in [Tasks -> Nat] /\ dest \in [Tasks -> Nat] /\ writes \in [Tasks -> Nat]
    BY NoneNat DEF Init
  <2>3. upsets \in 0 .. MaxUpsets
    BY RunAssumption DEF Init
  <2> QED
    BY <1>1, <2>1, <2>2, <2>3 DEF Init, TypeOK
<1>4. Recognised(disk) /\ Asked /\ Ahead /\ Prepared /\ Undone /\ Founded
  BY <1>2 DEF Init, Recognised, Asked, Ahead, Prepared, Undone, Founded, Alive
<1> QED
  BY <1>1, <1>3, <1>4 DEF Inv

LEMMA StutterKeeps ==
    ASSUME Inv, UNCHANGED vars
    PROVE  Inv' /\ Promised
<1>1. UNCHANGED <<fileVars, ledgerVars, ownerVars, journalVars, workVars, historyVars, upsets>>
  BY DEF vars
<1>2. /\ UNCHANGED <<fileVars, attempts, owner, outcome, journalVars, workVars,
                     historyVars>>
      /\ request' = request /\ receipt' = receipt /\ stopping' = stopping
      /\ upsets' = upsets
  BY <1>1 DEF ledgerVars, ownerVars
<1>3. /\ stopping' \subseteq {"drain", "cancel"} /\ receipt' \in BOOLEAN
      /\ upsets' \in 0 .. MaxUpsets
  BY <1>2 DEF Inv, TypeOK
<1> QED
  BY <1>2, <1>3, OrderKeeps

LEMMA NextKeeps ==
    ASSUME Inv, [Next]_vars
    PROVE  Inv' /\ Promised
<1>1. CASE Run
  BY <1>1, DispatchKeeps, WorkerEndsKeeps, WorkerFailsKeeps, DiscardKeeps, PrepareKeeps,
     RegisterKeeps, CommitKeeps, FinishKeeps DEF Run
<1>2. CASE Owner
  BY <1>2, AcceptKeeps, RecordCompletionKeeps, BootKeeps, RestoreKeeps, FinishCommandKeeps
  DEF Owner
<1>3. CASE Resume \/ Cancel \/ Drain \/ Crash
  BY <1>3, ResumeKeeps, CancelKeeps, DrainKeeps, CrashKeeps
<1>4. CASE UNCHANGED vars
  BY <1>4, StutterKeeps
<1> QED
  BY <1>1, <1>2, <1>3, <1>4 DEF Next

\* The invariant holds in every reachable state.
THEOREM Invariance == Spec => []Inv
<1>1. Inv /\ [Next]_vars => Inv'
  BY NextKeeps
<1> QED
  BY <1>1, InitInv, PTL DEF Spec

\* Every variable has its type.
THEOREM TypeCorrect == Spec => []TypeOK
<1>1. Inv => TypeOK
  BY DEF Inv
<1> QED
  BY <1>1, Invariance, PTL

\* A step that keeps the promise is a step of DurableRun, or none.
LEMMA PromisedStep ==
    Promised => [Promise!Next]_<<Kept, dest, request = "succeeded">>
<1> SUFFICES ASSUME Promised PROVE [Promise!Next]_<<Kept, dest, request = "succeeded">>
  OBVIOUS
<1>1. CASE /\ Kept' = Kept /\ dest' = dest
           /\ request' = "succeeded" <=> request = "succeeded"
  BY <1>1
<1>2. CASE \E t \in Tasks :
             /\ t \notin Kept /\ DependsOn[t] \subseteq Kept /\ Kept' = Kept \cup {t}
             /\ \A u \in Tasks : dest'[u] # dest[u] => u = t /\ t \in Durable
             /\ request' = request
  BY <1>2 DEF Promise!Next, Promise!Do, Kept
<1>3. CASE Kept = Tasks /\ Kept' = Kept /\ dest' = dest /\ request' = "succeeded"
  BY <1>3 DEF Promise!Next, Promise!Succeed, Kept
<1> QED
  BY <1>1, <1>2, <1>3 DEF Promised

\* A run keeps the promise of DurableRun over every crash, restart, shutdown,
\* failed save and late error (Keeps).
THEOREM Implements == Spec => Keeps
<1>1. Init => Promise!Init
  BY NoneNat, RunAssumption DEF Init, Promise!Init, Fresh, None
<1>2. Inv /\ [Next]_vars => [Promise!Next]_<<Kept, dest, request = "succeeded">>
  BY NextKeeps, PromisedStep
<1> QED
  BY <1>1, <1>2, Invariance, PTL DEF Spec, Keeps, Promise!Spec, Kept
-----------------------------------------------------------------------------
(* Remote work and the first stop *)

\* Every remote task dispatched without proof or consent since is marked in a
\* checkpoint, or done.
Marks(j) == charged \subseteq j.inflight \cup (Tasks \ j.remaining)

\* No task that was charged waits to be dispatched.
ChargedInv ==
    /\ request = "none" => charged = {}
    /\ Marks(disk)
    /\ Alive => \A t \in charged : state[t] # "todo"
    /\ Alive /\ ~broken => Marks(journal)

\* A checkpoint agrees with the files it refers to.
Agrees(j) ==
    /\ \A t \in j.remaining : j.outputs[t] = 0
    /\ \A t \in Durable : j.outputs[t] # 0 => dest[t] = j.outputs[t]
    /\ j.remaining # {} =>
         \A t \in Tasks \ Durable : j.outputs[t] # 0 => staged[t] = j.outputs[t]
    /\ j.pending # NoTask =>
         /\ j.pending \in j.remaining
         /\ \/ staged[j.pending] = j.proof
            \/ staged[j.pending] = 0 /\ dest[j.pending] = j.proof
         /\ Alive => state[j.pending] \notin {"todo", "working"}

\* Until the first resume the checkpoints agree with the files, and nothing the
\* memory calls done is still to do in the file.
FirstInv ==
    /\ Alive => \A t \in Tasks : state[t] = "done" => t \notin disk.remaining
    /\ ~reopened /\ (request \in Open \/ owner \in {"running", "closed"}) =>
         /\ Agrees(disk)
         /\ Alive /\ ~broken => Agrees(journal)

\* A run step leaves the record of the run alone, and makes no task wait again.
LEMMA RunSteps ==
    ASSUME Inv, Run
    PROVE  /\ Alive /\ request' = request /\ reopened' = reopened
           /\ owner' \in {"running", "closed"}
           /\ \A u \in Tasks :
                /\ state'[u] = "todo" => state[u] = "todo"
                /\ state'[u] = "working" => state[u] \in {"todo", "working"}
                /\ state'[u] = "done" => \/ state[u] = "done"
                                         \/ Commit(u) /\ disk' = Completed(journal, u, File(u))
<1>1. ASSUME NEW t \in Tasks
      PROVE  /\ Stops(Failed(t)) /\ Stops(Ended(t)) /\ Stops([state EXCEPT ![t] = "cancelled"])
             /\ Stops([state EXCEPT ![t] = "blocked"])
             /\ Stops(Halted(Ended(t))) /\ Stops(Halted([state EXCEPT ![t] = "cancelled"]))
  BY EndedStops, HaltedStops DEF Inv
<1> DEFINE Same == /\ Alive /\ request' = request /\ reopened' = reopened
                   /\ owner' \in {"running", "closed"}
           Quiet == \A u \in Tasks :
                      /\ state'[u] = "todo" => state[u] = "todo"
                      /\ state'[u] = "working" => state[u] \in {"todo", "working"}
                      /\ state'[u] = "done" => \/ state[u] = "done"
                                               \/ /\ Commit(u)
                                                  /\ disk' = Completed(journal, u, File(u))
<1>2. ASSUME Stops(state') PROVE Quiet
  BY <1>2 DEF Stops
<1>3. ASSUME state' = state PROVE Quiet
  BY <1>3
<1>4. ASSUME NEW t \in Tasks, Dispatch(t) PROVE Same /\ Quiet
  <2>1. Same
    BY <1>4 DEF Dispatch, Free, Alive, ledgerVars, ownerVars
  <2>2. CASE state' = [state EXCEPT ![t] = "working"]
    BY <1>4, <2>1, <2>2 DEF Inv, TypeOK, Dispatch
  <2> QED
    BY <1>1, <1>2, <1>4, <2>1, <2>2 DEF Dispatch
<1>5. ASSUME NEW t \in Tasks, WorkerEnds(t) PROVE Same /\ Quiet
  BY <1>5 DEF Inv, TypeOK, WorkerEnds, Alive, ledgerVars, ownerVars, historyVars
<1>6. ASSUME NEW t \in Tasks, WorkerFails(t) PROVE Same /\ Quiet
  <2>1. Same
    BY <1>6 DEF WorkerFails, Free, Alive, ledgerVars, ownerVars
  <2>2. Stops(state')
    BY <1>1, <1>6 DEF WorkerFails
  <2> QED
    BY <1>2, <2>1, <2>2
<1>7. ASSUME NEW t \in Tasks, Discard(t) PROVE Same /\ Quiet
  <2>1. Same
    BY <1>7 DEF Discard, Free, Alive, ledgerVars, ownerVars, historyVars
  <2> QED
    BY <1>1, <1>2, <1>7, <2>1 DEF Discard
<1>8. ASSUME NEW t \in Tasks, Prepare(t) PROVE Same /\ Quiet
  <2>1. Same
    BY <1>8 DEF Prepare, Free, Alive, ledgerVars, ownerVars, historyVars
  <2>2. state' = state \/ Stops(state')
    BY <1>1, <1>8 DEF Prepare
  <2> QED
    BY <1>2, <1>3, <2>1, <2>2
<1>9. ASSUME NEW t \in Tasks, Register(t) PROVE Same /\ Quiet
  <2>1. Same
    BY <1>9 DEF Register, Alive, ledgerVars, ownerVars, historyVars
  <2>2. CASE state' = [state EXCEPT ![t] = "locked"]
    BY <2>1, <2>2 DEF Inv, TypeOK
  <2>3. state' = state \/ Stops(state') \/ state' = [state EXCEPT ![t] = "locked"]
    BY <1>1, <1>9 DEF Register
  <2> QED
    BY <1>2, <1>3, <2>1, <2>2, <2>3
<1>10. ASSUME NEW t \in Tasks, Commit(t) PROVE Same /\ Quiet
  <2>1. Same
    BY <1>10 DEF Commit, Alive, ledgerVars, ownerVars, historyVars
  <2>2. CASE /\ disk' = Completed(journal, t, File(t)) /\ state' = [state EXCEPT ![t] = "done"]
    BY <1>10, <2>1, <2>2 DEF Inv, TypeOK
  <2> QED
    BY <1>1, <1>2, <1>10, <2>1, <2>2 DEF Commit, Save
<1>11. ASSUME Finish PROVE Same /\ Quiet
  BY <1>11 DEF Finish, Free, Alive, ledgerVars, workVars, historyVars
<1> QED
  BY <1>4, <1>5, <1>6, <1>7, <1>8, <1>9, <1>10, <1>11 DEF Run

LEMMA MarksReconciled ==
    ASSUME NEW j \in Checkpoints, Marks(j), Intent(j)
    PROVE  Marks(Reconciled(j))
BY RunAssumption DEF Marks, Reconciled, Moved, Completed, Checkpoints, Intent

\* Marks are cleared with the charge, or when the task is done.
LEMMA RunMarks ==
    ASSUME Inv, ChargedInv, Run
    PROVE  /\ Marks(disk)' /\ (Alive' /\ ~broken' => Marks(journal)')
           /\ \A u \in charged' : u \in charged \/ state'[u] = "working"
<1>1. Alive /\ Marks(disk) /\ (~broken => Marks(journal) /\ Intent(journal))
  BY RunSteps DEF Inv, ChargedInv, Ahead
<1>2. journal \in Checkpoints
  BY DEF Inv, TypeOK
<1>3. ASSUME charged' \subseteq charged, disk' = disk, broken' \/ (journal' = journal /\ ~broken)
      PROVE  /\ Marks(disk)' /\ (Alive' /\ ~broken' => Marks(journal)')
             /\ \A u \in charged' : u \in charged \/ state'[u] = "working"
  BY <1>1, <1>3 DEF Marks
<1>4. ASSUME broken' = broken, journal' = journal, charged' = charged, disk' = disk
      PROVE  /\ Marks(disk)' /\ (Alive' /\ ~broken' => Marks(journal)')
             /\ \A u \in charged' : u \in charged \/ state'[u] = "working"
  BY <1>1, <1>4 DEF Marks
<1>5. ASSUME NEW t \in Tasks, Dispatch(t)
      PROVE  /\ Marks(disk)' /\ (Alive' /\ ~broken' => Marks(journal)')
             /\ \A u \in charged' : u \in charged \/ state'[u] = "working"
  <2>1. CASE /\ Save(Marked(journal, t)) /\ state' = [state EXCEPT ![t] = "working"]
             /\ charged' = charged \cup ({t} \cap Remote)
    <3>1. PICK j : j = Marked(journal, t)
      OBVIOUS
    <3>2. /\ j.remaining = journal.remaining
          /\ j.inflight = IF t \in Remote THEN journal.inflight \cup {t} ELSE journal.inflight
      BY <1>2, <3>1 DEF Marked, Checkpoints
    <3>3. disk' = j /\ journal' = j /\ broken' = broken /\ state'[t] = "working"
      BY <2>1, <3>1 DEF Save, Inv, TypeOK
    <3>4. Marks(journal)
      BY <1>1, <1>5 DEF Dispatch
    <3>5. charged' \subseteq j.inflight \cup (Tasks \ j.remaining)
      BY <2>1, <3>2, <3>4 DEF Marks
    <3> QED
      BY <2>1, <3>3, <3>5 DEF Marks
  <2>2. CASE SaveFails(journal) /\ charged' = charged
    BY <1>3, <2>2 DEF SaveFails
  <2> QED
    BY <1>5, <2>1, <2>2 DEF Dispatch
<1>6. ASSUME NEW t \in Tasks, WorkerFails(t)
      PROVE  /\ Marks(disk)' /\ (Alive' /\ ~broken' => Marks(journal)')
             /\ \A u \in charged' : u \in charged \/ state'[u] = "working"
  <2>1. CASE ~broken /\ Save([journal EXCEPT !.inflight = @ \ {t}]) /\ charged' = charged \ {t}
    <3>1. PICK j : j = [journal EXCEPT !.inflight = @ \ {t}]
      OBVIOUS
    <3>2. j.remaining = journal.remaining /\ j.inflight = journal.inflight \ {t}
      BY <1>2, <3>1 DEF Checkpoints
    <3>3. disk' = j /\ journal' = j
      BY <2>1, <3>1 DEF Save
    <3> QED
      BY <1>1, <2>1, <3>2, <3>3 DEF Marks
  <2>2. CASE UNCHANGED journalVars /\ charged' \subseteq charged
    BY <1>1, <2>2 DEF Marks, journalVars
  <2>3. CASE SaveFails(journal) /\ charged' = charged
    BY <1>3, <2>3 DEF SaveFails
  <2> QED
    BY <1>6, <2>1, <2>2, <2>3 DEF WorkerFails
<1>7. ASSUME NEW t \in Tasks, Prepare(t)
      PROVE  /\ Marks(disk)' /\ (Alive' /\ ~broken' => Marks(journal)')
             /\ \A u \in charged' : u \in charged \/ state'[u] = "working"
  <2>1. charged' = charged
    BY <1>7 DEF Prepare, historyVars
  <2>2. CASE ~broken /\ journal' = Reconciled(journal) /\ disk' = disk
    BY <1>1, <1>2, <2>1, <2>2, MarksReconciled DEF Marks
  <2>3. CASE ~broken /\ Save(Armed(Reconciled(journal), t))
    <3>1. PICK j : j = Reconciled(journal)
      OBVIOUS
    <3>2. Marks(j) /\ j \in Checkpoints
      <4>1. Marks(j)
        BY <1>1, <1>2, <2>3, <3>1, MarksReconciled
      <4>2. journal.pending # NoTask => journal.pending \in Tasks /\ dest[journal.pending] \in Nat
        BY <1>2, RunAssumption DEF Checkpoints, Inv, TypeOK
      <4> QED
        BY <1>2, <3>1, <4>1, <4>2, CompletedFacts DEF Reconciled, Moved
    <3>3. PICK k : k = Armed(j, t)
      OBVIOUS
    <3>4. k.remaining = j.remaining /\ k.inflight = j.inflight
      BY <3>2, <3>3 DEF Armed, Checkpoints
    <3>5. disk' = k /\ journal' = k
      BY <2>3, <3>1, <3>3 DEF Save
    <3> QED
      BY <2>1, <3>2, <3>4, <3>5 DEF Marks
  <2>4. CASE UNCHANGED journalVars
    BY <1>4, <2>1, <2>4 DEF journalVars
  <2>5. CASE SaveFails(Reconciled(journal))
    BY <1>3, <2>1, <2>5 DEF SaveFails
  <2> QED
    BY <1>7, <2>2, <2>3, <2>4, <2>5 DEF Prepare
<1>8. ASSUME NEW t \in Tasks, Commit(t)
      PROVE  /\ Marks(disk)' /\ (Alive' /\ ~broken' => Marks(journal)')
             /\ \A u \in charged' : u \in charged \/ state'[u] = "working"
  <2>1. charged' = charged
    BY <1>8 DEF Commit, historyVars
  <2>2. CASE Save(Completed(journal, t, File(t)))
    <3>1. PICK j : j = Completed(journal, t, File(t))
      OBVIOUS
    <3>2. j.remaining = journal.remaining \ {t} /\ j.inflight = journal.inflight \ {t}
      BY <1>2, <3>1 DEF Completed, Checkpoints
    <3>3. disk' = j /\ journal' = j
      BY <2>2, <3>1 DEF Save
    <3>4. Marks(journal)
      BY <1>1, <1>8, RunAssumption DEF Commit, Inv, Prepared
    <3> QED
      BY <2>1, <3>2, <3>3, <3>4 DEF Marks
  <2>3. CASE SaveFails(journal)
    BY <1>3, <2>1, <2>3 DEF SaveFails
  <2> QED
    BY <1>8, <2>2, <2>3 DEF Commit
<1>9. ASSUME NEW t \in Tasks, WorkerEnds(t) \/ Discard(t) \/ Register(t)
      PROVE  /\ Marks(disk)' /\ (Alive' /\ ~broken' => Marks(journal)')
             /\ \A u \in charged' : u \in charged \/ state'[u] = "working"
  BY <1>4, <1>9 DEF WorkerEnds, Discard, Register, journalVars, historyVars
<1>10. CASE Finish
  BY <1>4, <1>10 DEF Finish, journalVars, historyVars
<1> QED
  BY <1>5, <1>6, <1>7, <1>8, <1>9, <1>10 DEF Run

LEMMA ChargedSteps ==
    ASSUME Inv, ChargedInv, [Next]_vars
    PROVE  ChargedInv'
<1>1. CASE Run
  <2>1. request' # "none"
    BY <1>1, RunSteps DEF Inv, Asked, Alive
  <2>2. \A u \in charged' : state'[u] # "todo"
    <3>1. \A u \in charged : u \in Tasks /\ state[u] # "todo"
      BY <1>1, RunSteps, RunAssumption DEF Inv, TypeOK, ChargedInv
    <3> QED
      BY <1>1, <3>1, RunMarks, RunSteps
  <2> QED
    BY <1>1, <2>1, <2>2, RunMarks DEF ChargedInv
<1>2. CASE Accept
  BY <1>2 DEF Inv, Asked, ChargedInv, Accept, Accepted, StartFails, Unload, Marks, historyVars,
              Alive
<1>3. ASSUME NEW more \in Nat, Reopen(more), Loadable(disk), charged' \subseteq charged,
             charged' \cap Reconciled(disk).remaining = {}
      PROVE  ChargedInv'
  <2>1. PICK j : j = Reconciled(disk)
    OBVIOUS
  <2>2. Marks(j)
    BY <2>1, MarksReconciled DEF Inv, TypeOK, ChargedInv
  <2>3. disk' = j /\ journal' = j /\ request' # "none"
    BY <1>3, <2>1 DEF Reopen, Accepted, StartFails, Unload
  <2>4. Marks(disk)' /\ Marks(journal)'
    BY <1>3, <2>2, <2>3 DEF Marks
  <2>5. Alive' => \A t \in Tasks : state'[t] = "todo" => t \in j.remaining
    BY <1>3, <2>1 DEF Reopen, Accepted, StartFails, Unload, Alive
  <2>6. charged' \subseteq Tasks
    BY <1>3, RunAssumption DEF Inv, TypeOK
  <2> QED
    BY <1>3, <2>1, <2>3, <2>4, <2>5, <2>6 DEF ChargedInv
<1>4. CASE Resume
  BY <1>3, <1>4 DEF Resume
<1>5. ASSUME charged' = charged, disk' = disk, request' = "none" => request = "none", ~Alive'
      PROVE  ChargedInv'
  BY <1>5 DEF ChargedInv, Marks
<1>6. CASE Restore
  <2>1. ASSUME ~Refused, Reopen(IF request = "paused" THEN 0 ELSE 1), charged' = charged
        PROVE  ChargedInv'
    <3>1. charged \subseteq Tasks \ Reconciled(disk).remaining
      BY <2>1, MarksReconciled DEF Inv, TypeOK, ChargedInv, Marks, Refused
    <3> QED
      BY <1>3, <2>1, <3>1 DEF Refused
  <2> QED
    BY <1>5, <1>6, <2>1 DEF Restore, Unload, Alive
<1>7. CASE RecordCompletion
  BY <1>5, <1>7 DEF RecordCompletion, Unload, Alive, Inv, Asked
<1>8. CASE Boot
  BY <1>5, <1>8 DEF Boot, Honour, Alive, journalVars, historyVars
<1>9. CASE Crash
  BY <1>5, <1>9 DEF Crash, Unload, Alive, ledgerVars, historyVars
<1>10. ASSUME UNCHANGED <<charged, disk, journal, broken, owner, state>>,
              request' = "none" => request = "none"
       PROVE  ChargedInv'
  BY <1>10 DEF ChargedInv, Marks, Alive
<1>11. CASE FinishCommand \/ Cancel
  BY <1>10, <1>11 DEF FinishCommand, Cancel, Honour, journalVars, workVars, historyVars
<1>12. CASE Drain
  <2>1. CASE owner \in {"running", "closed"}
    BY <1>10, <1>12, <2>1 DEF Drain, ledgerVars, journalVars, workVars, historyVars
  <2>2. CASE owner \notin {"running", "closed"}
    BY <1>5, <1>12, <2>2 DEF Drain, Unload, Alive, ledgerVars, historyVars
  <2> QED
    BY <2>1, <2>2
<1>13. CASE UNCHANGED vars
  BY <1>10, <1>13 DEF vars, ledgerVars, ownerVars, journalVars, workVars, historyVars
<1> QED
  BY <1>1, <1>2, <1>4, <1>6, <1>7, <1>8, <1>9, <1>11, <1>12, <1>13 DEF Next, Owner

\* Only a task that waits in memory is dispatched.
LEMMA NoRepeatStep ==
    ASSUME Inv, ChargedInv, [Next]_vars
    PROVE  \A t \in charged : state'[t] = "working" => state[t] = "working"
<1> SUFFICES ASSUME NEW t \in charged, state'[t] = "working"
             PROVE  state[t] = "working"
  OBVIOUS
<1>1. t \in Tasks
  BY RunAssumption DEF Inv, TypeOK
<1>2. CASE Run
  BY <1>1, <1>2, RunSteps DEF ChargedInv
<1>3. CASE ~Run
  <2>1. state' = state \/ \E R : state' \in {[u \in Tasks |-> IF u \in R THEN "todo" ELSE "done"],
                                             [u \in Tasks |-> "todo"]}
    BY <1>3 DEF Next, Owner, Accept, RecordCompletion, Boot, Restore, FinishCommand, Resume,
                Cancel, Drain, Crash, Reopen, Accepted, StartFails, Unload, workVars, vars
  <2> QED
    BY <1>1, <2>1
<1> QED
  BY <1>2, <1>3

\* No remote work is dispatched a second time without proof or consent
\* (NoSilentRepeat): the marks of the checkpoint outlive every stop.
THEOREM NoneRepeated == Spec => NoSilentRepeat
<1>1. Init => ChargedInv
  BY DEF Init, ChargedInv, Marks
<1>2. Inv /\ ChargedInv /\ [Next]_vars => ChargedInv'
  BY ChargedSteps
<1>3. Inv /\ ChargedInv /\ [Next]_vars
        => [\A t \in charged : state'[t] = "working" => state[t] = "working"]_vars
  BY NoRepeatStep
<1> QED
  BY <1>1, <1>2, <1>3, Invariance, PTL DEF Spec, NoSilentRepeat

-----------------------------------------------------------------------------
(* The first stop *)

\* Nothing a checkpoint refers to is touched by work on other tasks.
LEMMA AgreesStays ==
    ASSUME Inv, NEW j, Agrees(j), dest' = dest,
           \A u \in Tasks : staged'[u] = staged[u] \/ (u \in j.remaining /\ u # j.pending),
           \A u \in Tasks : Alive' /\ state'[u] \in {"todo", "working"}
                              => Alive /\ state[u] \in {"todo", "working"},
           j \in Checkpoints
    PROVE  Agrees(j)'
<1>1. /\ \A u \in j.remaining : j.outputs[u] = 0
      /\ \A u \in Durable : j.outputs[u] # 0 => dest'[u] = j.outputs[u]
  BY DEF Agrees
<1>2. j.remaining # {} => \A u \in Tasks \ Durable : j.outputs[u] # 0 => staged'[u] = j.outputs[u]
  BY DEF Agrees
<1>3. j.pending # NoTask =>
        /\ j.pending \in j.remaining
        /\ \/ staged'[j.pending] = j.proof
           \/ staged'[j.pending] = 0 /\ dest'[j.pending] = j.proof
        /\ Alive' => state'[j.pending] \notin {"todo", "working"}
  BY DEF Agrees, Checkpoints
<1> QED
  BY <1>1, <1>2, <1>3 DEF Agrees

\* Completing the tasks of a checkpoint keeps it in agreement.
LEMMA AgreesReconciled ==
    ASSUME Inv, NEW j \in Checkpoints, Agrees(j), Intent(j)
    PROVE  Agrees(Reconciled(j))
<1>1. CASE Moved(j)
  <2>1. PICK k : k = Reconciled(j)
    OBVIOUS
  <2>2. j.pending \in Durable /\ j.pending \in Tasks
    BY <1>1, RunAssumption DEF Moved, Intent
  <2>3. /\ k.remaining = j.remaining \ {j.pending} /\ k.pending = NoTask
        /\ \A u \in Tasks : k.outputs[u] = IF u = j.pending THEN dest[u] ELSE j.outputs[u]
    BY <1>1, <2>1, <2>2 DEF Reconciled, Completed, Checkpoints
  <2>4. j.remaining \subseteq Tasks
    BY DEF Checkpoints
  <2>5. Agrees(k)
    BY <2>2, <2>3, <2>4, RunAssumption DEF Agrees
  <2> QED
    BY <2>1, <2>5
<1>2. CASE ~Moved(j)
  BY <1>2 DEF Reconciled
<1> QED
  BY <1>1, <1>2

\* A checkpoint that agrees with the files can be loaded.
LEMMA AgreesLoads ==
    ASSUME Inv, Agrees(disk)
    PROVE  Loadable(disk)
<1>1. disk \in Checkpoints /\ Intent(disk)
  BY DEF Inv, TypeOK
<1>2. Conclusive(disk)
  BY <1>1 DEF Agrees, Conclusive, Moved, Intent
<1>3. PICK k : k = Reconciled(disk)
  OBVIOUS
<1>4. \A t \in Tasks : k.outputs[t] # 0 /\ (k.remaining # {} \/ t \in Durable)
                         => File(t) = k.outputs[t]
  BY <1>1, <1>3, AgreesReconciled DEF Agrees, File
<1> QED
  BY <1>2, <1>3, <1>4 DEF Loadable

\* The condition under which the first stop matters.
First == ~reopened /\ (request \in Open \/ owner \in {"running", "closed"})

\* A run step keeps both checkpoints in agreement with the files.
LEMMA RunAgrees ==
    ASSUME Inv, FirstInv, Run, First
    PROVE  Agrees(disk)' /\ (Alive' /\ ~broken' => Agrees(journal)')
<1>1. /\ Alive /\ Agrees(disk) /\ (~broken => Agrees(journal) /\ Intent(journal))
      /\ disk \in Checkpoints /\ journal \in Checkpoints
      /\ disk.remaining \subseteq Tasks /\ journal.remaining \subseteq Tasks
  BY RunSteps DEF Inv, TypeOK, Checkpoints, FirstInv, First, Ahead
<1>2. \A u \in Tasks : state[u] = "working" =>
        /\ u \in disk.remaining /\ u # disk.pending
        /\ ~broken => u \in journal.remaining /\ u # journal.pending
  BY <1>1, RunAssumption DEF Inv, Undone, Agrees
<1>3. \A u \in Tasks : /\ state'[u] = "todo" => state[u] = "todo"
                       /\ state'[u] = "working" => state[u] \in {"todo", "working"}
  BY RunSteps
<1>4. ASSUME NEW j \in Checkpoints, Agrees(j), dest' = dest,
             \A u \in Tasks : staged'[u] = staged[u] \/ (u \in j.remaining /\ u # j.pending)
      PROVE  Agrees(j)'
  BY <1>1, <1>3, <1>4, AgreesStays
<1>5. PICK d, m : d = disk /\ m = journal
  OBVIOUS
<1>6. ASSUME dest' = dest, disk' = disk, broken' \/ (journal' = journal /\ ~broken),
             \A u \in Tasks : staged'[u] = staged[u] \/ state[u] = "working"
      PROVE  Agrees(disk)' /\ (Alive' /\ ~broken' => Agrees(journal)')
  <2>1. Agrees(d)'
    BY <1>1, <1>2, <1>4, <1>5, <1>6
  <2>2. ~broken => Agrees(m)'
    BY <1>1, <1>2, <1>4, <1>5, <1>6
  <2> QED
    BY <1>5, <1>6, <2>1, <2>2 DEF Agrees
<1>7. ASSUME NEW k \in Checkpoints, Agrees(k), dest' = dest,
             disk' = disk \/ disk' = k, journal' = k,
             \A u \in Tasks : staged'[u] = staged[u]
                              \/ (state[u] = "working" /\ u \in k.remaining /\ u # k.pending)
      PROVE  Agrees(disk)' /\ (Alive' /\ ~broken' => Agrees(journal)')
  <2>1. Agrees(d)'
    BY <1>1, <1>2, <1>4, <1>5, <1>7
  <2>2. Agrees(k)'
    BY <1>4, <1>7
  <2> QED
    BY <1>5, <1>7, <2>1, <2>2 DEF Agrees
<1>8. ASSUME NEW t \in Tasks, Dispatch(t)
      PROVE  Agrees(disk)' /\ (Alive' /\ ~broken' => Agrees(journal)')
  <2>1. staged' = staged /\ dest' = dest /\ ~broken
    BY <1>8 DEF Dispatch, fileVars
  <2>2. CASE Save(Marked(journal, t))
    <3>1. PICK k : k = Marked(journal, t)
      OBVIOUS
    <3>2. /\ k \in Checkpoints /\ k.remaining = journal.remaining /\ k.pending = journal.pending
          /\ k.proof = journal.proof /\ k.outputs = journal.outputs
      BY <1>1, <3>1 DEF Marked, Checkpoints
    <3>3. Agrees(k)
      BY <1>1, <2>1, <3>2 DEF Agrees
    <3> QED
      BY <1>7, <2>1, <2>2, <3>1, <3>2, <3>3 DEF Save
  <2>3. CASE SaveFails(journal)
    BY <1>6, <2>1, <2>3 DEF SaveFails
  <2> QED
    BY <1>8, <2>2, <2>3 DEF Dispatch
<1>9. ASSUME NEW t \in Tasks, WorkerEnds(t)
      PROVE  Agrees(disk)' /\ (Alive' /\ ~broken' => Agrees(journal)')
  <2>1. /\ dest' = dest /\ disk' = disk /\ journal' = journal /\ broken' = broken
        /\ broken \in BOOLEAN
        /\ \A u \in Tasks : staged'[u] = staged[u] \/ state[u] = "working"
    BY <1>9 DEF Inv, TypeOK, WorkerEnds, Stage, journalVars
  <2> QED
    BY <1>6, <2>1
<1>10. ASSUME NEW t \in Tasks, WorkerFails(t)
       PROVE  Agrees(disk)' /\ (Alive' /\ ~broken' => Agrees(journal)')
  <2>1. /\ dest' = dest
        /\ \A u \in Tasks : staged'[u] = staged[u] \/ (u = t /\ state[u] = "working")
    BY <1>10 DEF Inv, TypeOK, WorkerFails
  <2>2. CASE ~broken /\ Save([journal EXCEPT !.inflight = @ \ {t}])
    <3>1. PICK k : k = [journal EXCEPT !.inflight = @ \ {t}]
      OBVIOUS
    <3>2. /\ k \in Checkpoints /\ k.remaining = journal.remaining /\ k.pending = journal.pending
          /\ k.proof = journal.proof /\ k.outputs = journal.outputs
      BY <1>1, <3>1 DEF Checkpoints
    <3>3. Agrees(k)
      BY <1>1, <2>2, <3>2 DEF Agrees
    <3> QED
      BY <1>2, <1>7, <2>1, <2>2, <3>1, <3>2, <3>3 DEF Save
  <2>3. CASE UNCHANGED journalVars
    BY <1>6, <2>1, <2>3 DEF Inv, TypeOK, journalVars
  <2>4. CASE SaveFails(journal)
    BY <1>6, <2>1, <2>4 DEF SaveFails
  <2> QED
    BY <1>10, <2>2, <2>3, <2>4 DEF WorkerFails
<1>11. ASSUME NEW t \in Tasks, Discard(t)
       PROVE  Agrees(disk)' /\ (Alive' /\ ~broken' => Agrees(journal)')
  BY <1>6, <1>11 DEF Inv, TypeOK, Discard, fileVars, journalVars
<1>12. ASSUME NEW t \in Tasks, Prepare(t)
       PROVE  Agrees(disk)' /\ (Alive' /\ ~broken' => Agrees(journal)')
  <2>1. staged' = staged /\ dest' = dest /\ Free /\ state[t] \in {"result", "locked"}
    BY <1>12 DEF Prepare, fileVars
  <2>2. CASE UNCHANGED journalVars
    BY <1>6, <2>1, <2>2 DEF Inv, TypeOK, journalVars
  <2>3. CASE ~broken /\ Conclusive(journal) /\ ~UNCHANGED journalVars
    <3>1. PICK k : k = Reconciled(journal)
      OBVIOUS
    <3>2. /\ k \in Checkpoints
          /\ state[t] = "result" \/ staged[t] # 0 => t \in k.remaining
      BY <2>1, <2>3, <3>1, BetweenCommits
    <3>3. Agrees(k)
      BY <1>1, <2>3, <3>1, AgreesReconciled
    <3>4. CASE journal' = k /\ disk' = disk
      BY <1>7, <2>1, <3>2, <3>3, <3>4
    <3>5. CASE staged[t] # 0 /\ Save(Armed(k, t))
      <4>1. PICK a : a = Armed(k, t)
        OBVIOUS
      <4>2. /\ a \in Checkpoints /\ a.remaining = k.remaining /\ a.outputs = k.outputs
            /\ a.pending = t /\ a.proof = staged[t]
        BY <3>2, <4>1 DEF Inv, TypeOK, Armed, Checkpoints
      <4>3. Agrees(a)
        BY <2>1, <3>2, <3>3, <3>5, <4>2 DEF Agrees
      <4> QED
        BY <1>7, <2>1, <3>5, <4>1, <4>2, <4>3 DEF Save
    <3>6. CASE SaveFails(k)
      BY <1>6, <2>1, <3>6 DEF SaveFails
    <3> QED
      BY <1>12, <2>3, <3>1, <3>4, <3>5, <3>6 DEF Prepare
  <2> QED
    BY <1>12, <2>2, <2>3 DEF Prepare
<1>13. ASSUME NEW t \in Tasks, Register(t)
       PROVE  Agrees(disk)' /\ (Alive' /\ ~broken' => Agrees(journal)')
  <2>1. UNCHANGED <<disk, journal, broken>> /\ broken \in BOOLEAN
    BY <1>13 DEF Inv, TypeOK, Register, journalVars
  <2>2. CASE UNCHANGED fileVars
    BY <1>6, <2>1, <2>2 DEF fileVars
  <2>3. CASE t \in Durable /\ staged[t] # 0 /\ Move(t)
    <3>1. /\ ~broken /\ t \in journal.remaining /\ t \in disk.remaining
          /\ journal.pending = t /\ disk.pending = t /\ state[t] \in {"result", "locked"}
      BY <1>13, <2>3, RunAssumption DEF Register, Inv, Prepared, Ahead
    <3>2. /\ dest'[t] = staged[t] /\ staged'[t] = 0
          /\ \A u \in Tasks \ {t} : dest'[u] = dest[u] /\ staged'[u] = staged[u]
      BY <2>3 DEF Inv, TypeOK, Move
    <3>3. state'[t] \notin {"todo", "working"}
      BY <1>3, <3>1
    <3>4. ASSUME NEW j, Agrees(j), j.pending = t, t \in j.remaining
          PROVE  Agrees(j)'
      <4>1. j.outputs[t] = 0 /\ staged[t] = j.proof
        BY <2>3, <3>4, RunAssumption DEF Agrees
      <4>2. \A u \in Durable : j.outputs[u] # 0 => dest'[u] = j.outputs[u]
        BY <3>2, <3>4, <4>1, RunAssumption DEF Agrees
      <4>3. j.remaining # {} =>
              \A u \in Tasks \ Durable : j.outputs[u] # 0 => staged'[u] = j.outputs[u]
        BY <2>3, <3>2, <3>4 DEF Agrees
      <4> QED
        BY <3>2, <3>3, <3>4, <4>1, <4>2, <4>3 DEF Agrees
    <3>5. Agrees(d)' /\ Agrees(m)'
      BY <1>1, <1>5, <3>1, <3>4
    <3> QED
      BY <1>5, <2>1, <3>5 DEF Agrees
  <2> QED
    BY <1>13, <2>2, <2>3 DEF Register
<1>14. ASSUME NEW t \in Tasks, Commit(t)
       PROVE  Agrees(disk)' /\ (Alive' /\ ~broken' => Agrees(journal)')
  <2>1. /\ staged' = staged /\ dest' = dest /\ ~broken
        /\ t \in Durable => dest[t] # 0
    BY <1>14, RunAssumption DEF Commit, Inv, Prepared, fileVars
  <2>2. CASE Save(Completed(journal, t, File(t)))
    <3>1. PICK k : k = Completed(journal, t, File(t))
      OBVIOUS
    <3>2. /\ k.remaining = journal.remaining \ {t} /\ k.pending = NoTask
          /\ \A u \in Tasks : k.outputs[u] = IF u = t THEN File(t) ELSE journal.outputs[u]
      BY <1>1, <3>1 DEF Completed, Checkpoints
    <3>3. k \in Checkpoints
      <4>1. File(t) \in Nat
        BY DEF Inv, TypeOK, File
      <4> QED
        BY <1>1, <3>1, <4>1, CompletedFacts
    <3>4. Agrees(k)
      BY <1>1, <2>1, <3>2, RunAssumption DEF Agrees, File
    <3> QED
      BY <1>7, <2>1, <2>2, <3>1, <3>3, <3>4 DEF Save
  <2>3. CASE SaveFails(journal)
    BY <1>6, <2>1, <2>3 DEF SaveFails
  <2> QED
    BY <1>14, <2>2, <2>3 DEF Commit
<1>15. ASSUME Finish
       PROVE  Agrees(disk)' /\ (Alive' /\ ~broken' => Agrees(journal)')
  <2>1. dest' = dest /\ disk' = disk /\ ~Alive'
    BY <1>15 DEF Finish, journalVars, Alive
  <2>2. CASE staged' = staged
    <3>1. Agrees(d)'
      BY <1>1, <1>4, <1>5, <2>1, <2>2
    <3> QED
      BY <1>5, <2>1, <3>1 DEF Agrees
  <2>3. CASE Result = "succeeded"
    <3>1. disk.remaining = {}
      BY <1>1, <2>3, ResultFacts DEF FirstInv
    <3> QED
      BY <1>1, <2>1, <3>1 DEF Agrees
  <2> QED
    BY <1>15, <2>2, <2>3 DEF Finish
<1> QED
  BY <1>8, <1>9, <1>10, <1>11, <1>12, <1>13, <1>14, <1>15 DEF Run

\* A run step adds no task to what the file still has to do.
LEMMA RunShrinks ==
    ASSUME Inv, Run
    PROVE  disk'.remaining \subseteq disk.remaining
<1>1. /\ ~broken => journal.remaining \subseteq disk.remaining
      /\ disk \in Checkpoints /\ journal \in Checkpoints
  BY RunSteps DEF Inv, TypeOK, Ahead
<1>2. ASSUME NEW t \in Tasks, Dispatch(t) PROVE disk'.remaining \subseteq disk.remaining
  BY <1>1, <1>2, MarkedFacts DEF Dispatch, Save, SaveFails
<1>3. ASSUME NEW t \in Tasks, WorkerFails(t) PROVE disk'.remaining \subseteq disk.remaining
  <2>1. [journal EXCEPT !.inflight = @ \ {t}].remaining = journal.remaining
    BY <1>1 DEF Checkpoints
  <2> QED
    BY <1>1, <1>3, <2>1 DEF WorkerFails, Save, SaveFails, journalVars
<1>4. ASSUME NEW t \in Tasks, Prepare(t) PROVE disk'.remaining \subseteq disk.remaining
  <2>1. CASE disk' = disk
    BY <2>1
  <2>2. CASE ~broken /\ Conclusive(journal) /\ Save(Armed(Reconciled(journal), t))
    <3>1. PICK k : k = Reconciled(journal)
      OBVIOUS
    <3>2. k \in Checkpoints /\ k.remaining \subseteq disk.remaining
      BY <1>4, <2>2, <3>1, BetweenCommits DEF Prepare
    <3>3. Armed(k, t).remaining = k.remaining
      BY <3>2 DEF Armed, Checkpoints
    <3> QED
      BY <2>2, <3>1, <3>2, <3>3 DEF Save
  <2> QED
    BY <1>4, <2>1, <2>2 DEF Prepare, SaveFails, journalVars
<1>5. ASSUME NEW t \in Tasks, Commit(t) PROVE disk'.remaining \subseteq disk.remaining
  <2>1. Completed(journal, t, File(t)).remaining = journal.remaining \ {t} /\ ~broken
    BY <1>1, <1>5, RunAssumption DEF Completed, Checkpoints, Commit, Inv, Prepared
  <2> QED
    BY <1>1, <1>5, <2>1 DEF Commit, Save, SaveFails
<1>6. ASSUME NEW t \in Tasks, WorkerEnds(t) \/ Discard(t) \/ Register(t)
      PROVE  disk'.remaining \subseteq disk.remaining
  BY <1>6 DEF WorkerEnds, Discard, Register, journalVars
<1>7. ASSUME Finish PROVE disk'.remaining \subseteq disk.remaining
  BY <1>7 DEF Finish, journalVars
<1> QED
  BY <1>2, <1>3, <1>4, <1>5, <1>6, <1>7 DEF Run

LEMMA FirstSteps ==
    ASSUME Inv, FirstInv, [Next]_vars
    PROVE  FirstInv'
<1>1. CASE Run
  <2>1. First' => First
    BY <1>1, RunSteps DEF First, Alive
  <2>2. ASSUME NEW t \in Tasks, state'[t] = "done" PROVE t \notin disk'.remaining
    <3>1. CASE state[t] = "done"
      BY <1>1, <3>1, RunSteps, RunShrinks DEF FirstInv
    <3>2. CASE Commit(t) /\ disk' = Completed(journal, t, File(t))
      BY <3>2 DEF Inv, TypeOK, Completed, Checkpoints
    <3> QED
      BY <1>1, <2>2, <3>1, <3>2, RunSteps
  <2> QED
    BY <1>1, <2>1, <2>2, RunAgrees DEF FirstInv, First
<1>2. ASSUME NEW j, Accepted(j), reopened' \/ Agrees(j)'
      PROVE  FirstInv'
  <2>1. \A t \in Tasks : state'[t] = "done" => t \notin disk'.remaining
    BY <1>2 DEF Accepted
  <2>2. reopened' \/ (Agrees(disk)' /\ Agrees(journal)')
    BY <1>2 DEF Accepted, Agrees
  <2> QED
    BY <2>1, <2>2 DEF FirstInv
<1>3. ASSUME ~Alive', owner' # "closed", request' \notin Open \/ reopened' \in {TRUE}
      PROVE  FirstInv'
  BY <1>3 DEF FirstInv, Alive
<1>4. ASSUME ~Alive', First' => First, disk' = disk, dest' = dest,
             First' => staged' = staged
      PROVE  FirstInv'
  <2>1. First' => Agrees(disk)'
    BY <1>4 DEF FirstInv, First, Agrees
  <2> QED
    BY <1>4, <2>1 DEF FirstInv, First
<1>5. CASE Accept
  <2>1. Accepted(Fresh) => Agrees(Fresh)'
    <3>1. /\ Fresh.pending = NoTask
          /\ \A t \in Tasks : Fresh.outputs[t] = 0
      BY NoneNat DEF Fresh
    <3>2. Fresh.remaining = Tasks
      BY DEF Fresh
    <3> QED
      BY <3>1, <3>2, RunAssumption DEF Agrees
  <2> QED
    BY <1>2, <1>3, <1>5, <2>1 DEF Accept, StartFails, Unload, Alive, Open
<1>6. ASSUME NEW more, Reopen(more)
      PROVE  FirstInv'
  BY <1>2, <1>3, <1>6 DEF Reopen, StartFails, Unload, Alive, Open
<1>7. CASE Resume
  BY <1>6, <1>7 DEF Resume
<1>8. CASE Restore
  BY <1>3, <1>6, <1>8 DEF Restore, Unload, Alive, Open
<1>9. CASE RecordCompletion
  BY <1>4, <1>9 DEF RecordCompletion, Unload, Alive, First, fileVars
<1>10. CASE Boot
  BY <1>4, <1>10 DEF Boot, Honour, Alive, First, Open, journalVars, historyVars
<1>11. CASE Crash
  BY <1>4, <1>11 DEF Crash, Unload, Alive, First, fileVars, ledgerVars, historyVars
<1>12. ASSUME UNCHANGED <<staged, dest, disk, journal, broken, owner, state, reopened>>,
              request' \in Open => request \in Open
       PROVE  FirstInv'
  BY <1>12 DEF FirstInv, Agrees, Alive
<1>13. CASE FinishCommand \/ Cancel
  BY <1>12, <1>13
  DEF FinishCommand, Cancel, Honour, Open, fileVars, journalVars, workVars, historyVars
<1>14. CASE Drain
  <2>1. CASE owner \in {"running", "closed"}
    BY <1>12, <1>14, <2>1 DEF Drain, fileVars, ledgerVars, journalVars, workVars, historyVars
  <2>2. CASE owner \notin {"running", "closed"}
    BY <1>4, <1>14, <2>2 DEF Drain, Unload, Alive, First, fileVars, ledgerVars, historyVars
  <2> QED
    BY <2>1, <2>2
<1>15. CASE UNCHANGED vars
  BY <1>12, <1>15 DEF vars, fileVars, ledgerVars, ownerVars, journalVars, workVars, historyVars
<1> QED
  BY <1>1, <1>5, <1>7, <1>8, <1>9, <1>10, <1>11, <1>13, <1>14, <1>15 DEF Next, Owner

\* Until it is resumed for the first time, a run can be loaded whenever its
\* process ends (FirstStopRecovers).
THEOREM FirstRecovers == Spec => []FirstStopRecovers
<1>1. Init => FirstInv
  BY NoneNat DEF Init, FirstInv, Agrees, Fresh, Alive, Open
<1>2. Inv /\ FirstInv /\ [Next]_vars => FirstInv'
  BY FirstSteps
<1>3. Inv /\ FirstInv => FirstStopRecovers
  BY AgreesLoads DEF FirstInv, FirstStopRecovers
<1> QED
  BY <1>1, <1>2, <1>3, Invariance, PTL DEF Spec

=============================================================================
