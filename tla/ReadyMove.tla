----------------------------- MODULE ReadyMove -----------------------------
(***************************************************************************)
(* A completed source set moves to the ready directory: ReadyStore of      *)
(* application/ready.py, the pool worker and the owner's record of it      *)
(* (automation.py, _prepare_ready to _record_ready) and the rebinding of   *)
(* the run checkpoint (RunJournal.relocate).  All sets of an instance have *)
(* the same stem in directories of their own, so that they compete for the *)
(* names <stem>, <stem> [2], ... in ready; a file is known by its suffix.  *)
(* A file is its identity: the set's own (the links of one file are one    *)
(* identity) or another one that the user put in its place.  _verify and   *)
(* the unlink after it are one step, as are the write of a journal's       *)
(* temporary file and its rename.                                          *)
(***************************************************************************)
EXTENDS Integers, FiniteSetsExt

CONSTANTS
    Sets,       \* completed source groups
    FilesOf,    \* [Sets -> the suffixes of its files]
    Downloaded, \* [Sets -> the files a transfer owns]
    Ordinals,   \* bound: the destination stems, 1 for <stem>, n for <stem> [n]
    MaxFaults,  \* bound on crashes, shutdowns, refusals and interventions
    NoSet

ASSUME SetsAssumption ==
    /\ NoSet \notin Sets /\ "none" \notin Sets /\ "other" \notin Sets
    /\ \A g \in Sets : FilesOf[g] \subseteq Nat /\ IsFiniteSet(FilesOf[g])
    \* a completed set has a product of its own
    /\ \A g \in Sets : Downloaded[g] \subseteq FilesOf[g] /\ Downloaded[g] # FilesOf[g]

ASSUME BoundsAssumption ==
    /\ Ordinals \subseteq Nat \ {0} /\ IsFiniteSet(Ordinals)
    /\ MaxFaults \in Nat

VARIABLES
    \* what survives the process
    source,     \* the file at each path of a set's directory
    ready,      \* the file at each path of the ready directory
    journal,    \* the pending move on disk, or None
    checkpoint, \* the files whose proof the run checkpoint binds to ready
    ledgerAt,   \* the ordinal of the group in the owner's ledger, 0 at its source
    named,      \* the files whose transfer's confirmation names ready
    printed,    \* the files whose new name is in the request's fingerprint
    transfer,   \* running, complete, or released by the torrent client
    \* the resident owner and its pool
    moves,      \* _ready_moves
    parked,     \* _ready_parked
    phase,      \* the worker of a set: idle, queued, moving, linked, moved, failed
    snapshot,   \* the worker's acquisitions: the transfer was complete
    staged,     \* the files its stage leaves where they are
    todo,       \* the files it has still to move
    park,       \* it found that no client could release them
    recording,  \* the set whose stage the owner records, and how far it is
    client,     \* the private torrent client runs
    auto,       \* policy.auto_enabled, durable
    leaving,    \* _shutting_down
    \* history and bounds
    lost,       \* files the user deleted or replaced
    faults

disk == <<source, ready, journal, checkpoint, ledgerAt, named, printed, transfer>>
memory == <<moves, parked, phase, snapshot, staged, todo, park, recording>>
service == <<client, auto, leaving>>
vars == <<disk, memory, service, lost, faults>>

None == [ordinal |-> 0, deferred |-> {}]
Suffixes == UNION {FilesOf[g] : g \in Sets}
Phases == {"idle", "queued", "moving", "linked", "moved", "failed"}

TypeOK ==
    /\ \A g \in Sets : source[g] \in [FilesOf[g] -> {"own", "other", "none"}]
    /\ ready \in [Ordinals -> [Suffixes -> Sets \cup {"other", "none"}]]
    /\ \A g \in Sets : {journal[g], moves[g]} \subseteq
                         [ordinal : Ordinals \cup {0}, deferred : SUBSET Downloaded[g]]
    /\ \A g \in Sets : checkpoint[g] \subseteq FilesOf[g] /\ named[g] \subseteq Downloaded[g]
                       /\ printed[g] \subseteq FilesOf[g]
    /\ ledgerAt \in [Sets -> Ordinals \cup {0}]
    /\ transfer \in [Sets -> {"running", "complete", "released"}]
    /\ parked \subseteq Sets
    /\ phase \in [Sets -> Phases]
    /\ snapshot \in [Sets -> BOOLEAN]
    /\ \A g \in Sets : staged[g] \subseteq Downloaded[g] /\ todo[g] \subseteq FilesOf[g]
    /\ park \in [Sets -> BOOLEAN]
    /\ recording \in [set : Sets \cup {NoSet}, at : {"none", "ledger", "acknowledge"}]
    /\ client \in BOOLEAN /\ auto \in BOOLEAN /\ leaving \in BOOLEAN
    /\ \A g \in Sets : lost[g] \subseteq FilesOf[g]
    /\ faults \in 0 .. MaxFaults

Nowhere == [set |-> NoSet, at |-> "none"]

Init ==
    /\ source = [g \in Sets |-> [f \in FilesOf[g] |-> "own"]]
    /\ ready = [n \in Ordinals |-> [f \in Suffixes |-> "none"]]
    /\ journal = [g \in Sets |-> None]
    /\ checkpoint = [g \in Sets |-> {}]
    /\ ledgerAt = [g \in Sets |-> 0]
    /\ named = [g \in Sets |-> {}]
    /\ printed = [g \in Sets |-> {}]
    /\ transfer = [g \in Sets |-> IF Downloaded[g] = {} THEN "released" ELSE "running"]
    /\ moves = [g \in Sets |-> None]
    /\ parked = {}
    /\ phase = [g \in Sets |-> "idle"]
    /\ snapshot = [g \in Sets |-> FALSE]
    /\ staged = [g \in Sets |-> {}]
    /\ todo = [g \in Sets |-> {}]
    /\ park = [g \in Sets |-> FALSE]
    /\ recording = Nowhere
    /\ client = TRUE
    /\ auto = TRUE /\ leaving = FALSE
    /\ lost = [g \in Sets |-> {}]
    /\ faults = 0

Pending(g) == journal[g] # None
Fault == faults < MaxFaults /\ faults' = faults + 1

-----------------------------------------------------------------------------
(* The owner chooses a destination and starts a worker *)

\* A slip that looks only at the files that are already there.
ReservedMutant(g) == {}

\* _reserved: the destinations other unfinished moves have chosen.
Reserved(g) ==
    UNION {{<<journal[h].ordinal, f>> : f \in FilesOf[h]} : h \in {h \in Sets \ {g} : Pending(h)}}

\* A stem for which every destination of the set is free.
Free(g, n) ==
    \A f \in FilesOf[g] : ready[n][f] = "none" /\ <<n, f>> \notin Reserved(g)

\* prepare, from _prepare_ready on the owner's thread: the move is recorded
\* before the first file is touched.  Only accepted sources are moved.
Prepare(g) ==
    /\ ~Pending(g) /\ ledgerAt[g] = 0
    /\ recording = Nowhere
    /\ \A f \in FilesOf[g] : source[g][f] = "own"
    /\ \E n \in Ordinals :
         /\ Free(g, n) /\ \A m \in Ordinals : m < n => ~Free(g, m)
         /\ journal' = [journal EXCEPT ![g] = [ordinal |-> n, deferred |-> {}]]
    /\ moves' = [moves EXCEPT ![g] = journal'[g]]
    /\ UNCHANGED <<source, ready, checkpoint, ledgerAt, named, printed, transfer,
                   parked, phase, snapshot, staged, todo, park, recording,
                   service, lost, faults>>

\* _retry_ready submits _move_ready with the acquisitions it sees, unless the
\* process is ending or, for a second stage, Auto is off.  How often
\* (_FINALIZE_ATTEMPTS, the back-off) is not modelled.
Retry(g) ==
    /\ moves[g] # None
    /\ ~leaving /\ (moves[g].deferred # {} => auto)
    /\ g \notin parked /\ phase[g] = "idle" /\ recording = Nowhere
    /\ phase' = [phase EXCEPT ![g] = "queued"]
    /\ snapshot' = [snapshot EXCEPT ![g] = transfer[g] # "running"]
    /\ UNCHANGED <<disk, moves, parked, staged, todo, park, recording, service, lost, faults>>

-----------------------------------------------------------------------------
(* The worker: _move_ready *)

\* A slip that holds the products as well.
OwnedMutant(g) == FilesOf[g] \ named[g]

\* _file_owners: the files a confirmation still names at their source.
Owned(g) == Downloaded[g] \ named[g]

\* release_completed: a complete transfer leaves the client, which must run.
Releases(g) == snapshot[g] /\ (transfer[g] = "released" \/ client)

\* release_completed and defer: what a transfer holds stays in this stage.
Defer(g) ==
    /\ phase[g] = "queued"
    /\ LET held == IF Releases(g) THEN {} ELSE Owned(g)
       IN  /\ transfer' = [transfer EXCEPT ![g] = IF Releases(g) THEN "released" ELSE @]
           /\ journal' = [journal EXCEPT ![g] =
                            IF held = moves[g].deferred THEN @
                            ELSE [ordinal |-> moves[g].ordinal, deferred |-> held]]
           /\ staged' = [staged EXCEPT ![g] = held]
           /\ todo' = [todo EXCEPT ![g] = FilesOf[g] \ held]
    /\ phase' = [phase EXCEPT ![g] = "moving"]
    /\ snapshot' = [snapshot EXCEPT ![g] = FALSE]
    /\ UNCHANGED <<source, ready, checkpoint, ledgerAt, named, printed, moves,
                   parked, park, recording, service, lost, faults>>

At(g, f) == ready[moves[g].ordinal][f]
First(g) == Min(todo[g])

\* A slip that takes any file at the destination for the one it linked.
VerifiedMutant(g, f) == At(g, f) # "none" /\ source[g][f] # "other"

\* _verify of the file at the destination, and of the one at the source.
Verified(g, f) == At(g, f) = g /\ source[g][f] # "other"

\* A slip that removes whatever is at the source.
RemovableMutant(g, f) == source[g][f] # "none"

\* _verify of the source after the link.
Removable(g, f) == source[g][f] = "own"

\* The worker raises.
Fails(g) ==
    /\ phase' = [phase EXCEPT ![g] = "failed"]
    /\ todo' = [todo EXCEPT ![g] = {}]
    /\ staged' = [staged EXCEPT ![g] = {}]

\* _move_file up to its first unlink: link the next file, finish one linked by
\* an earlier attempt, or refuse one that is not the file recorded.
MoveFile(g) ==
    /\ phase[g] = "moving" /\ todo[g] # {}
    /\ LET f == First(g)
       IN  \/ /\ At(g, f) # "none" /\ Verified(g, f)
              /\ source' = [source EXCEPT ![g][f] = "none"]
              /\ todo' = [todo EXCEPT ![g] = @ \ {f}]
              /\ UNCHANGED <<phase, ready, staged>>
           \/ /\ At(g, f) = "none" /\ source[g][f] = "own"
              /\ ready' = [ready EXCEPT ![moves[g].ordinal][f] = g]
              /\ phase' = [phase EXCEPT ![g] = "linked"]
              /\ UNCHANGED <<source, todo, staged>>
           \/ /\ IF At(g, f) # "none" THEN ~Verified(g, f) ELSE source[g][f] # "own"
              /\ Fails(g)
              /\ UNCHANGED <<source, ready>>
    /\ UNCHANGED <<journal, checkpoint, ledgerAt, named, printed, transfer, moves,
                   parked, snapshot, park, recording, service, lost, faults>>

\* The end of _move_file: the source goes once it was verified again.
Unlink(g) ==
    /\ phase[g] = "linked"
    /\ IF Removable(g, First(g))
       THEN /\ source' = [source EXCEPT ![g][First(g)] = "none"]
            /\ todo' = [todo EXCEPT ![g] = @ \ {First(g)}]
            /\ phase' = [phase EXCEPT ![g] = "moving"]
            /\ UNCHANGED staged
       ELSE Fails(g) /\ UNCHANGED source
    /\ UNCHANGED <<ready, journal, checkpoint, ledgerAt, named, printed, transfer, moves,
                   parked, snapshot, park, recording, service, lost, faults>>

\* Every file of the stage was moved; the last question is whether anybody
\* could release the others.
Moved(g) ==
    /\ phase[g] = "moving" /\ todo[g] = {}
    /\ phase' = [phase EXCEPT ![g] = "moved"]
    /\ park' = [park EXCEPT ![g] = staged[g] # {} /\ ~client]
    /\ UNCHANGED <<disk, moves, parked, snapshot, staged, todo, recording, service, lost, faults>>

\* A handle stays open longer than the retries of retry_file_release.
Denied(g) ==
    /\ phase[g] \in {"queued", "moving", "linked"}
    /\ Fault
    /\ Fails(g)
    /\ snapshot' = [snapshot EXCEPT ![g] = FALSE]
    /\ UNCHANGED <<disk, moves, parked, park, recording, service, lost>>

-----------------------------------------------------------------------------
(* The owner records the stage: _record_ready *)

\* ReadyMove.moved of the stage.
Stage(g) == FilesOf[g] \ staged[g]

\* A stage that failed is tried again later.
RecordFailure(g) ==
    /\ recording = Nowhere
    /\ phase[g] = "failed"
    /\ phase' = [phase EXCEPT ![g] = "idle"]
    /\ UNCHANGED <<disk, moves, parked, snapshot, staged, todo, park, recording,
                   service, lost, faults>>

\* RunJournal.relocate, for which each file must be the one whose proof it has.
Relocate(g) ==
    /\ recording = Nowhere
    /\ phase[g] = "moved"
    /\ phase' = [phase EXCEPT ![g] = "idle"]
    /\ parked' = IF park[g] THEN parked \cup {g} ELSE parked
    /\ park' = [park EXCEPT ![g] = FALSE]
    /\ IF \A f \in Stage(g) \ checkpoint[g] : At(g, f) = g
       THEN /\ checkpoint' = [checkpoint EXCEPT ![g] = @ \cup Stage(g)]
            /\ recording' = [set |-> g, at |-> "ledger"]
            /\ UNCHANGED staged
       ELSE /\ staged' = [staged EXCEPT ![g] = {}]
            /\ UNCHANGED <<checkpoint, recording>>
    /\ UNCHANGED <<source, ready, journal, ledgerAt, named, printed, transfer,
                   moves, snapshot, todo, service, lost, faults>>

\* A slip that renames in the ledger what a transfer still holds.
RenamedMutant(g) == FilesOf[g]

\* The files apply gives their new names.
Renamed(g) == Stage(g)

\* apply and the save of the ledger.
SaveLedger ==
    /\ recording.at = "ledger"
    /\ LET g == recording.set
       IN  /\ named' = [named EXCEPT ![g] = @ \cup (Renamed(g) \cap Downloaded[g])]
           \* only a group the ledger still has at its source is renamed
           /\ IF ledgerAt[g] = 0
              THEN /\ ledgerAt' = [ledgerAt EXCEPT ![g] = moves[g].ordinal]
                   /\ printed' = [printed EXCEPT ![g] = Renamed(g)]
              ELSE UNCHANGED <<ledgerAt, printed>>
    /\ recording' = [recording EXCEPT !.at = "acknowledge"]
    /\ UNCHANGED <<source, ready, journal, checkpoint, transfer, moves, parked,
                   phase, snapshot, staged, todo, park, service, lost, faults>>

\* The ledger, or the unlink of the journal, fails: the stage is run again.
RecordRefused ==
    /\ recording # Nowhere
    /\ Fault
    /\ recording' = Nowhere
    /\ staged' = [staged EXCEPT ![recording.set] = {}]
    /\ UNCHANGED <<disk, moves, parked, phase, snapshot, todo, park, service, lost>>

\* A slip that acknowledges the first stage.
WholeMutant(g) == TRUE

\* No file was left behind.
Whole(g) == staged[g] = {}

\* The end of _record_ready: keep the move for its second stage, or acknowledge.
Acknowledge ==
    /\ recording.at = "acknowledge"
    /\ LET g == recording.set
       IN  IF Whole(g)
           THEN /\ journal' = [journal EXCEPT ![g] = None]
                /\ moves' = [moves EXCEPT ![g] = None]
           ELSE /\ moves' = [moves EXCEPT ![g].deferred = staged[g]]
                /\ UNCHANGED journal
    /\ staged' = [staged EXCEPT ![recording.set] = {}]
    /\ recording' = Nowhere
    /\ UNCHANGED <<source, ready, checkpoint, ledgerAt, named, printed, transfer,
                   parked, phase, snapshot, todo, park, service, lost, faults>>

-----------------------------------------------------------------------------
(* Transfers, the process and the user *)

\* The transfer of a set ends, and the owner has seen it.
TransferCompletes(g) ==
    /\ transfer[g] = "running"
    /\ recording = Nowhere
    /\ transfer' = [transfer EXCEPT ![g] = "complete"]
    /\ parked' = {}
    /\ UNCHANGED <<source, ready, journal, checkpoint, ledgerAt, named, printed, moves,
                   phase, snapshot, staged, todo, park, recording, service, lost, faults>>

\* _record_transfers or ready_retry: what is parked is tried again.
Unpark ==
    /\ parked # {} /\ recording = Nowhere
    /\ parked' = {}
    /\ UNCHANGED <<disk, moves, phase, snapshot, staged, todo, park, recording,
                   service, lost, faults>>

ClientStops ==
    /\ client /\ Fault
    /\ client' = FALSE
    /\ UNCHANGED <<disk, memory, auto, leaving, lost>>

ClientStarts ==
    /\ ~client
    /\ client' = TRUE
    /\ UNCHANGED <<disk, memory, auto, leaving, lost, faults>>

\* The user turns Auto on, or off.
SetAuto ==
    /\ ~leaving /\ recording = Nowhere
    /\ IF auto THEN Fault ELSE UNCHANGED faults
    /\ auto' = ~auto
    /\ UNCHANGED <<disk, memory, client, leaving, lost>>

\* The user ends the process: it runs on until what it started is recorded.
BeginShutdown ==
    /\ ~leaving /\ recording = Nowhere /\ Fault
    /\ leaving' = TRUE
    /\ UNCHANGED <<disk, memory, client, auto, lost>>

\* A slip that starts without the pending moves.
BootMutant(g) == None

\* ReadyStore.pending.
Boot(g) == journal[g]

\* _drained, as far as the moves go.
Drained == leaving /\ recording = Nowhere /\ \A g \in Sets : phase[g] = "idle"

\* The process ends, between any two steps or once it has drained, and starts again.
Restart ==
    /\ Fault \/ (Drained /\ UNCHANGED faults)
    /\ moves' = [g \in Sets |-> Boot(g)]
    /\ parked' = {}
    /\ phase' = [g \in Sets |-> "idle"]
    /\ snapshot' = [g \in Sets |-> FALSE]
    /\ staged' = [g \in Sets |-> {}]
    /\ todo' = [g \in Sets |-> {}]
    /\ park' = [g \in Sets |-> FALSE]
    /\ recording' = Nowhere
    /\ leaving' = FALSE
    /\ UNCHANGED <<disk, client, auto, lost>>

\* Bound: the user intervenes once.
Untouched ==
    /\ \A g \in Sets : lost[g] = {}
    /\ \A n \in Ordinals, f \in Suffixes : ready[n][f] # "other"

\* The user deletes or replaces a file of a set, at its source or in ready, or
\* puts one of his own under a name in ready.
UserChanges ==
    /\ Fault /\ Untouched
    /\ \/ \E g \in Sets : \E f \in FilesOf[g], to \in {"none", "other"} :
            /\ source[g][f] = "own"
            /\ source' = [source EXCEPT ![g][f] = to]
            /\ lost' = [lost EXCEPT ![g] = @ \cup {f}]
            /\ UNCHANGED ready
       \/ \E n \in Ordinals, g \in Sets : \E f \in FilesOf[g], to \in {"none", "other"} :
            /\ ready[n][f] = g
            /\ ready' = [ready EXCEPT ![n][f] = to]
            /\ lost' = [lost EXCEPT ![g] = @ \cup {f}]
            /\ UNCHANGED source
       \/ \E n \in Ordinals, f \in Suffixes :
            /\ ready[n][f] = "none"
            /\ ready' = [ready EXCEPT ![n][f] = "other"]
            /\ UNCHANGED <<source, lost>>
    /\ UNCHANGED <<journal, checkpoint, ledgerAt, named, printed, transfer, memory, service>>

-----------------------------------------------------------------------------
Worker(g) == Defer(g) \/ MoveFile(g) \/ Unlink(g) \/ Moved(g)
Record(g) ==
    \/ RecordFailure(g) \/ Relocate(g)
    \/ recording.set = g /\ (SaveLedger \/ Acknowledge)

\* What the process does by itself for a set.
Step(g) == Retry(g) \/ Worker(g) \/ Record(g)

Next ==
    \/ RecordRefused \/ Unpark \/ ClientStops \/ ClientStarts \/ SetAuto \/ BeginShutdown
    \/ Restart \/ UserChanges
    \/ \E g \in Sets : Step(g) \/ Prepare(g) \/ Denied(g) \/ TransferCompletes(g)

\* The pool and the owner's queue serve every set, and a move that may be retried
\* is: by the inspections of the transfers or, when they have ended, by
\* _poll_ready.  The fairness is strong because the owner is busy with another
\* set now and then.  Nobody has to complete a transfer, start the client, end the
\* parking, turn Auto on or start the process again.
Fairness == \A g \in Sets : SF_vars(Step(g))

Spec == Init /\ [][Next]_vars /\ Fairness
-----------------------------------------------------------------------------
(* Properties *)

\* The content of a file is never lost by the move: whatever the process was
\* doing when it ended, and whatever the user put in the way, it is still at its
\* source or in ready, unless the user removed it.
NoContentLost ==
    \A g \in Sets : \A f \in FilesOf[g] :
      f \in lost[g] \/ source[g][f] = "own" \/ \E n \in Ordinals : ready[n][f] = g

\* The move never overwrites or removes a file that is not the one recorded.
OthersKept ==
    [][faults' = faults =>
         /\ \A g \in Sets : \A f \in FilesOf[g] :
              source[g][f] = "other" => source'[g][f] = "other"
         /\ \A n \in Ordinals, f \in Suffixes :
              ready[n][f] # "none" => ready'[n][f] = ready[n][f]]_vars

\* Two unfinished moves never share a destination, though each is chosen before
\* the other has renamed a file (_reserved).
NoSharedDestination ==
    \A g, h \in Sets :
      g # h /\ Pending(g) /\ Pending(h) /\ FilesOf[g] \cap FilesOf[h] # {}
        => journal[g].ordinal # journal[h].ordinal

\* Where the move of a set goes or went.
Destination(g) == IF Pending(g) THEN journal[g].ordinal ELSE ledgerAt[g]

\* A file that the checkpoint or a confirmation names in ready was moved there:
\* neither runs ahead of the renames of its stage.
NamedIsThere ==
    \A g \in Sets : \A f \in checkpoint[g] \cup named[g] :
      /\ Destination(g) # 0
      /\ f \in lost[g] \/ (ready[Destination(g)][f] = g /\ source[g][f] # "own")

\* Without a pending journal a set is wholly at its source or wholly moved, on
\* the disk, in the checkpoint and in the ledger: everything in between, through
\* crashes and refusals at any step, can be recovered from the journal.
AllOrNothing ==
    \A g \in Sets : ~Pending(g) =>
      \/ /\ ledgerAt[g] = 0 /\ checkpoint[g] = {} /\ named[g] = {}
         /\ \A n \in Ordinals, f \in Suffixes : ready[n][f] # g
      \/ /\ ledgerAt[g] # 0 /\ checkpoint[g] = FilesOf[g] /\ named[g] = Downloaded[g]
         /\ \A f \in FilesOf[g] : source[g][f] # "own"

\* What a user, a transfer or the client must change first: a second stage waits
\* while Auto is off, and nothing is retried by a process that is ending.
Held(g) ==
    \/ leaving \/ (moves[g].deferred # {} /\ ~auto)
    \/ transfer[g] = "running" \/ (transfer[g] = "complete" /\ ~client) \/ g \in parked
    \/ lost[g] # {} \/ \E f \in FilesOf[g] : ready[journal[g].ordinal][f] = "other"

\* A recorded move is finished, through crashes and refusals at every step,
\* unless something holds its files.
MoveFinishes == \A g \in Sets : Pending(g) ~> ~Pending(g) \/ Held(g)

\* "Update confirmations and requests with proven completed groups after each
\* rename stage" (ready.py:90): a set that was moved under another stem has the
\* new names in the fingerprint of its request.
NamesFollow ==
    \A g \in Sets : ~Pending(g) /\ ledgerAt[g] > 1 => printed[g] = FilesOf[g]

=============================================================================
