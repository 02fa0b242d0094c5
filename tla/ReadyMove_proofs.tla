-------------------------- MODULE ReadyMove_proofs --------------------------
(***************************************************************************)
(* The move of completed sets, for any sets, files and destinations, and   *)
(* through any number of crashes, refusals and interventions: the          *)
(* invariant Inv is inductive.                                             *)
(***************************************************************************)
EXTENDS ReadyMove, NaturalsInduction, WellFoundedInduction, TLAPS

\* Which variables have a value for each set.
Domains ==
    /\ source = [g \in Sets |-> source[g]]
    /\ journal = [g \in Sets |-> journal[g]]
    /\ checkpoint = [g \in Sets |-> checkpoint[g]]
    /\ named = [g \in Sets |-> named[g]]
    /\ printed = [g \in Sets |-> printed[g]]
    /\ moves = [g \in Sets |-> moves[g]]
    /\ staged = [g \in Sets |-> staged[g]]
    /\ todo = [g \in Sets |-> todo[g]]
    /\ lost = [g \in Sets |-> lost[g]]

\* The owner's move is the one on disk, up to what it defers.
OneMove ==
    \A g \in Sets :
      /\ moves[g].ordinal = journal[g].ordinal
      /\ journal[g].ordinal = 0 => journal[g] = None /\ moves[g] = None

\* Workers and the owner's record are busy with unfinished moves only, and
\* never with the same one.
Busy ==
    /\ \A g \in Sets : phase[g] # "idle" \/ recording.set = g => Pending(g)
    /\ recording.set # NoSet => phase[recording.set] = "idle"
    /\ recording.at = "none" <=> recording.set = NoSet

\* Between link and unlink a file is at its destination.
Linked ==
    \A g \in Sets : phase[g] = "linked" =>
      todo[g] # {} /\ (At(g, First(g)) = g \/ First(g) \in lost[g])

\* What a stage has moved has left its source.
Behind ==
    \A g \in Sets :
      /\ phase[g] \in {"moving", "linked", "moved"} =>
           \A f \in Stage(g) \ todo[g] : source[g][f] # "own"
      /\ phase[g] = "moved" => todo[g] = {}
      /\ \A f \in checkpoint[g] : source[g][f] # "own"

\* The checkpoint is bound before the ledger is written, and the ledger before
\* the move is acknowledged.
InOrder ==
    /\ \A g \in Sets : recording.set = g => Stage(g) \subseteq checkpoint[g]
    /\ \A g \in Sets : recording.set = g /\ recording.at = "acknowledge" =>
         ledgerAt[g] # 0 /\ Stage(g) \cap Downloaded[g] \subseteq named[g]
    /\ \A g \in Sets : Pending(g) /\ ledgerAt[g] # 0 => ledgerAt[g] = journal[g].ordinal

\* The inductive invariant.
Inv ==
    /\ TypeOK /\ Domains
    /\ OneMove /\ Busy /\ Linked /\ Behind /\ InOrder
    /\ NoContentLost /\ NoSharedDestination /\ NamedIsThere /\ AllOrNothing

-----------------------------------------------------------------------------
(* Facts the steps share *)

LEMMA SuffixesOf == \A g \in Sets : FilesOf[g] \subseteq Suffixes
BY DEF Suffixes

\* The next file is one of those still to move.
LEMMA FirstIsThere ==
    ASSUME TypeOK, NEW g \in Sets, todo[g] # {}
    PROVE  First(g) \in todo[g] /\ First(g) \in FilesOf[g]
<1>1. todo[g] \subseteq Nat /\ todo[g] \subseteq FilesOf[g]
  BY SetsAssumption DEF TypeOK
<1>2. PICK x \in todo[g] : \A y \in todo[g] : ~(<<y, x>> \in OpToRel(<, Nat))
  BY <1>1, NatLessThanWellFounded, WFMin
<1>3. \A a, b \in Nat : a < b => <<a, b>> \in OpToRel(<, Nat)
  BY DEF OpToRel
<1>4. \A y \in todo[g] : x <= y
  <2>1. \A y \in todo[g] : ~(y < x)
    BY <1>1, <1>2, <1>3
  <2> QED
    BY <1>1, <2>1
<1>5. First(g) \in todo[g]
  BY <1>4 DEF First, Min
<1> QED
  BY <1>1, <1>5

LEMMA PendingByOrdinal ==
    ASSUME TypeOK, OneMove, NEW g \in Sets
    PROVE  /\ Pending(g) <=> journal[g].ordinal # 0
           /\ moves[g] # None <=> Pending(g)
           /\ Pending(g) => moves[g].ordinal \in Ordinals
BY DEF TypeOK, OneMove, Pending, None

LEMMA FaultBound ==
    ASSUME TypeOK, Fault
    PROVE  faults' \in 0 .. MaxFaults
BY BoundsAssumption DEF TypeOK, Fault

\* No step brings a file back to its source, and what is in ready stays there
\* unless the user removes it.
FilesKept ==
    /\ \A g \in Sets : \A f \in FilesOf[g] :
         source[g][f] # "own" => source'[g][f] # "own"
    /\ \A g \in Sets, n \in Ordinals : \A f \in FilesOf[g] :
         ready[n][f] = g => ready'[n][f] = g \/ f \in lost'[g]
    /\ \A g \in Sets : lost[g] \subseteq lost'[g]

\* A file between link and unlink is where it was.
LEMMA LinkedKept ==
    ASSUME Inv, FilesKept,
           \A g \in Sets : phase'[g] = "linked" =>
             phase[g] = "linked" /\ todo'[g] = todo[g] /\ moves'[g].ordinal = moves[g].ordinal
    PROVE  Linked'
<1> SUFFICES ASSUME NEW g \in Sets, phase'[g] = "linked"
             PROVE  todo'[g] # {} /\ (At(g, First(g))' = g \/ First(g)' \in lost'[g])
  BY DEF Linked
<1>1. /\ phase[g] = "linked" /\ todo'[g] = todo[g] /\ First(g)' = First(g)
      /\ moves'[g].ordinal = moves[g].ordinal
  BY DEF First
<1>2. /\ todo[g] # {} /\ moves[g].ordinal \in Ordinals
      /\ At(g, First(g)) = g \/ First(g) \in lost[g]
  BY <1>1, PendingByOrdinal DEF Inv, Linked, Busy
<1>3. First(g) \in FilesOf[g]
  BY <1>2, FirstIsThere DEF Inv
<1> QED
  BY <1>1, <1>2, <1>3 DEF FilesKept, At

\* What was named in ready is still there.
LEMMA NamedKept ==
    ASSUME Inv, FilesKept,
           \A g \in Sets : checkpoint'[g] = checkpoint[g] /\ named'[g] = named[g],
           \A g \in Sets : Destination(g)' = Destination(g) \/ Destination(g) = 0
    PROVE  NamedIsThere'
<1> SUFFICES ASSUME NEW g \in Sets, NEW f \in checkpoint[g] \cup named[g]
             PROVE  /\ Destination(g)' # 0
                    /\ \/ f \in lost'[g]
                       \/ ready'[Destination(g)'][f] = g /\ source'[g][f] # "own"
  BY DEF NamedIsThere
<1>1. f \in FilesOf[g]
  BY SetsAssumption DEF Inv, TypeOK
<1>2. /\ Destination(g) # 0
      /\ f \in lost[g] \/ (ready[Destination(g)][f] = g /\ source[g][f] # "own")
  BY DEF Inv, NamedIsThere
<1>3. Destination(g) \in Ordinals
  BY <1>2, PendingByOrdinal DEF Inv, TypeOK, Destination
<1> QED
  BY <1>1, <1>2, <1>3 DEF FilesKept

\* Steps that touch neither files nor records.
Quiet ==
    /\ UNCHANGED <<source, ready, journal, checkpoint, ledgerAt, named, lost>>
    /\ \A g \in Sets : phase'[g] = "linked" =>
         phase[g] = "linked" /\ todo'[g] = todo[g] /\ moves'[g].ordinal = moves[g].ordinal

LEMMA QuietKeeps ==
    ASSUME Inv, Quiet
    PROVE  /\ Linked' /\ NoContentLost' /\ NoSharedDestination'
           /\ NamedIsThere' /\ AllOrNothing'
<1>1. FilesKept
  BY DEF Quiet, FilesKept
<1>2. \A g \in Sets : Destination(g)' = Destination(g) /\ (Pending(g)' <=> Pending(g))
  BY DEF Quiet, Destination, Pending
<1>3. Linked' /\ NamedIsThere'
  BY <1>1, <1>2, LinkedKept, NamedKept DEF Quiet
<1>4. NoContentLost'
  BY DEF Inv, Quiet, NoContentLost
<1>5. NoSharedDestination'
  BY <1>2 DEF Inv, Quiet, NoSharedDestination
<1>6. AllOrNothing'
  BY <1>2 DEF Inv, Quiet, AllOrNothing
<1> QED
  BY <1>3, <1>4, <1>5, <1>6

-----------------------------------------------------------------------------
(* The steps that touch neither files nor records *)

LEMMA RetryInv ==
    ASSUME Inv, NEW g \in Sets, Retry(g)
    PROVE  Inv'
<1>1. TypeOK' /\ Domains'
  BY FaultBound DEF Inv, Retry, TypeOK, Domains,
      disk, memory, service, Fails, Nowhere, Phases, Boot
<1>2. OneMove'
  BY DEF Inv, Retry, OneMove, disk, memory, service, Fails, Nowhere, Phases, Boot, Domains
<1>3. Busy'
  BY PendingByOrdinal DEF Inv, Retry, TypeOK, Busy, Pending,
      disk, memory, service, Fails, Nowhere, Phases
<1>4. Behind' /\ InOrder'
  BY DEF Inv, Retry, TypeOK, Behind, Busy, InOrder, Stage, Pending,
      disk, memory, service, Fails, Nowhere, Phases
<1>5. Quiet
  BY DEF Inv, Retry, TypeOK, Quiet, Busy, disk, memory, service, Fails, Nowhere, Phases
<1> QED
  BY <1>1, <1>2, <1>3, <1>4, <1>5, QuietKeeps DEF Inv

LEMMA MovedInv ==
    ASSUME Inv, NEW g \in Sets, Moved(g)
    PROVE  Inv'
<1>1. TypeOK' /\ Domains'
  BY FaultBound DEF Inv, Moved, TypeOK, Domains,
      disk, memory, service, Fails, Nowhere, Phases, Boot
<1>2. OneMove'
  BY DEF Inv, Moved, OneMove, disk, memory, service, Fails, Nowhere, Phases, Boot, Domains
<1>3. Busy'
  BY PendingByOrdinal DEF Inv, Moved, TypeOK, Busy, Pending,
      disk, memory, service, Fails, Nowhere, Phases
<1>4. Behind' /\ InOrder'
  BY DEF Inv, Moved, TypeOK, Behind, Busy, InOrder, Stage, Pending,
      disk, memory, service, Fails, Nowhere, Phases
<1>5. Quiet
  BY DEF Inv, Moved, TypeOK, Quiet, Busy, disk, memory, service, Fails, Nowhere, Phases
<1> QED
  BY <1>1, <1>2, <1>3, <1>4, <1>5, QuietKeeps DEF Inv

LEMMA DeniedInv ==
    ASSUME Inv, NEW g \in Sets, Denied(g)
    PROVE  Inv'
<1>1. TypeOK' /\ Domains'
  BY FaultBound DEF Inv, Denied, TypeOK, Domains,
      disk, memory, service, Fails, Nowhere, Phases, Boot
<1>2. OneMove'
  BY DEF Inv, Denied, OneMove, disk, memory, service, Fails, Nowhere, Phases, Boot, Domains
<1>3. Busy'
  BY PendingByOrdinal DEF Inv, Denied, TypeOK, Busy, Pending,
      disk, memory, service, Fails, Nowhere, Phases
<1>4. Behind' /\ InOrder'
  BY SetsAssumption DEF Inv, Denied, TypeOK, Behind, Busy, InOrder, Stage, Pending,
      disk, memory, service, Fails, Nowhere, Phases
<1>5. Quiet
  BY DEF Inv, Denied, TypeOK, Quiet, Busy, disk, memory, service, Fails, Nowhere, Phases
<1> QED
  BY <1>1, <1>2, <1>3, <1>4, <1>5, QuietKeeps DEF Inv

LEMMA RecordFailureInv ==
    ASSUME Inv, NEW g \in Sets, RecordFailure(g)
    PROVE  Inv'
<1>1. TypeOK' /\ Domains'
  BY FaultBound DEF Inv, RecordFailure, TypeOK, Domains,
      disk, memory, service, Fails, Nowhere, Phases, Boot
<1>2. OneMove'
  BY DEF Inv, RecordFailure, OneMove,
      disk, memory, service, Fails, Nowhere, Phases, Boot, Domains
<1>3. Busy'
  BY PendingByOrdinal DEF Inv, RecordFailure, TypeOK, Busy, Pending,
      disk, memory, service, Fails, Nowhere, Phases
<1>4. Behind' /\ InOrder'
  BY DEF Inv, RecordFailure, TypeOK, Behind, Busy, InOrder, Stage, Pending,
      disk, memory, service, Fails, Nowhere, Phases
<1>5. Quiet
  BY DEF Inv, RecordFailure, TypeOK, Quiet, Busy,
      disk, memory, service, Fails, Nowhere, Phases
<1> QED
  BY <1>1, <1>2, <1>3, <1>4, <1>5, QuietKeeps DEF Inv

LEMMA TransferCompletesInv ==
    ASSUME Inv, NEW g \in Sets, TransferCompletes(g)
    PROVE  Inv'
<1>1. TypeOK' /\ Domains'
  BY FaultBound DEF Inv, TransferCompletes, TypeOK, Domains,
      disk, memory, service, Fails, Nowhere, Phases, Boot
<1>2. OneMove'
  BY DEF Inv, TransferCompletes, OneMove,
      disk, memory, service, Fails, Nowhere, Phases, Boot, Domains
<1>3. Busy'
  BY PendingByOrdinal DEF Inv, TransferCompletes, TypeOK, Busy, Pending,
      disk, memory, service, Fails, Nowhere, Phases
<1>4. Behind' /\ InOrder'
  BY DEF Inv, TransferCompletes, TypeOK, Behind, Busy, InOrder, Stage, Pending,
      disk, memory, service, Fails, Nowhere, Phases
<1>5. Quiet
  BY DEF Inv, TransferCompletes, TypeOK, Quiet, Busy,
      disk, memory, service, Fails, Nowhere, Phases
<1> QED
  BY <1>1, <1>2, <1>3, <1>4, <1>5, QuietKeeps DEF Inv

LEMMA RecordRefusedInv ==
    ASSUME Inv, RecordRefused
    PROVE  Inv'
<1>1. TypeOK' /\ Domains'
  BY FaultBound DEF Inv, RecordRefused, TypeOK, Domains,
      disk, memory, service, Fails, Nowhere, Phases, Boot
<1>2. OneMove'
  BY DEF Inv, RecordRefused, OneMove,
      disk, memory, service, Fails, Nowhere, Phases, Boot, Domains
<1>3. Busy'
  BY SetsAssumption, PendingByOrdinal DEF Inv, RecordRefused, TypeOK, Busy, Pending,
      disk, memory, service, Fails, Nowhere, Phases
<1>4. Behind' /\ InOrder'
  BY SetsAssumption DEF Inv, RecordRefused, TypeOK, Behind, Busy, InOrder, Stage, Pending,
      disk, memory, service, Fails, Nowhere, Phases
<1>5. Quiet
  BY DEF Inv, RecordRefused, TypeOK, Quiet, Busy,
      disk, memory, service, Fails, Nowhere, Phases
<1> QED
  BY <1>1, <1>2, <1>3, <1>4, <1>5, QuietKeeps DEF Inv

LEMMA UnparkInv ==
    ASSUME Inv, Unpark
    PROVE  Inv'
<1>1. TypeOK' /\ Domains'
  BY FaultBound DEF Inv, Unpark, TypeOK, Domains,
      disk, memory, service, Fails, Nowhere, Phases, Boot
<1>2. OneMove'
  BY DEF Inv, Unpark, OneMove, disk, memory, service, Fails, Nowhere, Phases, Boot, Domains
<1>3. Busy'
  BY PendingByOrdinal DEF Inv, Unpark, TypeOK, Busy, Pending,
      disk, memory, service, Fails, Nowhere, Phases
<1>4. Behind' /\ InOrder'
  BY DEF Inv, Unpark, TypeOK, Behind, Busy, InOrder, Stage, Pending,
      disk, memory, service, Fails, Nowhere, Phases
<1>5. Quiet
  BY DEF Inv, Unpark, TypeOK, Quiet, Busy, disk, memory, service, Fails, Nowhere, Phases
<1> QED
  BY <1>1, <1>2, <1>3, <1>4, <1>5, QuietKeeps DEF Inv

LEMMA ClientStopsInv ==
    ASSUME Inv, ClientStops
    PROVE  Inv'
<1>1. TypeOK' /\ Domains'
  BY FaultBound DEF Inv, ClientStops, TypeOK, Domains,
      disk, memory, service, Fails, Nowhere, Phases, Boot
<1>2. OneMove'
  BY DEF Inv, ClientStops, OneMove,
      disk, memory, service, Fails, Nowhere, Phases, Boot, Domains
<1>3. Busy'
  BY PendingByOrdinal DEF Inv, ClientStops, TypeOK, Busy, Pending,
      disk, memory, service, Fails, Nowhere, Phases
<1>4. Behind' /\ InOrder'
  BY DEF Inv, ClientStops, TypeOK, Behind, Busy, InOrder, Stage, Pending,
      disk, memory, service, Fails, Nowhere, Phases
<1>5. Quiet
  BY DEF Inv, ClientStops, TypeOK, Quiet, Busy,
      disk, memory, service, Fails, Nowhere, Phases
<1> QED
  BY <1>1, <1>2, <1>3, <1>4, <1>5, QuietKeeps DEF Inv

LEMMA SetAutoInv ==
    ASSUME Inv, SetAuto
    PROVE  Inv'
<1>1. TypeOK' /\ Domains'
  BY FaultBound DEF Inv, SetAuto, TypeOK, Domains,
      disk, memory, service, Fails, Nowhere, Phases, Boot
<1>2. OneMove'
  BY DEF Inv, SetAuto, OneMove, disk, memory, service, Fails, Nowhere, Phases, Boot, Domains
<1>3. Busy'
  BY PendingByOrdinal DEF Inv, SetAuto, TypeOK, Busy, Pending,
      disk, memory, service, Fails, Nowhere, Phases
<1>4. Behind' /\ InOrder'
  BY DEF Inv, SetAuto, TypeOK, Behind, Busy, InOrder, Stage, Pending,
      disk, memory, service, Fails, Nowhere, Phases
<1>5. Quiet
  BY DEF Inv, SetAuto, TypeOK, Quiet, Busy, disk, memory, service, Fails, Nowhere, Phases
<1> QED
  BY <1>1, <1>2, <1>3, <1>4, <1>5, QuietKeeps DEF Inv

LEMMA BeginShutdownInv ==
    ASSUME Inv, BeginShutdown
    PROVE  Inv'
<1>1. TypeOK' /\ Domains'
  BY FaultBound DEF Inv, BeginShutdown, TypeOK, Domains,
      disk, memory, service, Fails, Nowhere, Phases, Boot
<1>2. OneMove'
  BY DEF Inv, BeginShutdown, OneMove,
      disk, memory, service, Fails, Nowhere, Phases, Boot, Domains
<1>3. Busy'
  BY PendingByOrdinal DEF Inv, BeginShutdown, TypeOK, Busy, Pending,
      disk, memory, service, Fails, Nowhere, Phases
<1>4. Behind' /\ InOrder'
  BY DEF Inv, BeginShutdown, TypeOK, Behind, Busy, InOrder, Stage, Pending,
      disk, memory, service, Fails, Nowhere, Phases
<1>5. Quiet
  BY DEF Inv, BeginShutdown, TypeOK, Quiet, Busy,
      disk, memory, service, Fails, Nowhere, Phases
<1> QED
  BY <1>1, <1>2, <1>3, <1>4, <1>5, QuietKeeps DEF Inv

LEMMA ClientStartsInv ==
    ASSUME Inv, ClientStarts
    PROVE  Inv'
<1>1. TypeOK' /\ Domains'
  BY FaultBound DEF Inv, ClientStarts, TypeOK, Domains,
      disk, memory, service, Fails, Nowhere, Phases, Boot
<1>2. OneMove'
  BY DEF Inv, ClientStarts, OneMove,
      disk, memory, service, Fails, Nowhere, Phases, Boot, Domains
<1>3. Busy'
  BY PendingByOrdinal DEF Inv, ClientStarts, TypeOK, Busy, Pending,
      disk, memory, service, Fails, Nowhere, Phases
<1>4. Behind' /\ InOrder'
  BY DEF Inv, ClientStarts, TypeOK, Behind, Busy, InOrder, Stage, Pending,
      disk, memory, service, Fails, Nowhere, Phases
<1>5. Quiet
  BY DEF Inv, ClientStarts, TypeOK, Quiet, Busy,
      disk, memory, service, Fails, Nowhere, Phases
<1> QED
  BY <1>1, <1>2, <1>3, <1>4, <1>5, QuietKeeps DEF Inv

LEMMA RestartInv ==
    ASSUME Inv, Restart
    PROVE  Inv'
<1>0. faults' \in 0 .. MaxFaults
  <2>1. CASE Fault
    BY <2>1, FaultBound DEF Inv
  <2>2. CASE UNCHANGED faults
    BY <2>2 DEF Inv, TypeOK
  <2> QED
    BY <2>1, <2>2 DEF Restart
<1>1. TypeOK' /\ Domains'
  <2>1. UNCHANGED <<disk, client, auto, lost>> /\ leaving' = FALSE
    BY DEF Restart
  <2>2. TypeOK'
    <3>1. \A g \in Sets : {journal'[g], moves'[g]} \subseteq
                            [ordinal : Ordinals \cup {0}, deferred : SUBSET Downloaded[g]]
      BY <2>1 DEF Inv, Restart, TypeOK, disk, Boot
    <3> QED
      BY <1>0, <2>1, <3>1 DEF Inv, Restart, TypeOK, disk, Nowhere, Phases
  <2>3. Domains'
    BY <2>1 DEF Inv, Restart, Domains, disk, Boot
  <2> QED
    BY <2>2, <2>3
<1>2. OneMove'
  BY DEF Inv, Restart, OneMove, disk, memory, service, Fails, Nowhere, Phases, Boot, Domains
<1>3. Busy'
  BY SetsAssumption, PendingByOrdinal DEF Inv, Restart, TypeOK, Busy, Pending,
      disk, memory, service, Fails, Nowhere, Phases
<1>4. Behind' /\ InOrder'
  BY SetsAssumption DEF Inv, Restart, TypeOK, Behind, Busy, InOrder, Stage, Pending,
      disk, memory, service, Fails, Nowhere, Phases
<1>5. Quiet
  BY DEF Inv, Restart, TypeOK, Quiet, Busy, disk, memory, service, Fails, Nowhere, Phases
<1> QED
  BY <1>1, <1>2, <1>3, <1>4, <1>5, QuietKeeps DEF Inv

-----------------------------------------------------------------------------
(* The owner starts a move and the worker defers what a transfer holds *)

\* The new journal of a set that has none.
LEMMA PrepareEffect ==
    ASSUME Inv, NEW g \in Sets, Prepare(g)
    PROVE  \E n \in Ordinals :
             /\ Free(g, n) /\ ~Pending(g) /\ ledgerAt[g] = 0
             /\ journal' = [journal EXCEPT ![g] = [ordinal |-> n, deferred |-> {}]]
             /\ moves' = [moves EXCEPT ![g] = [ordinal |-> n, deferred |-> {}]]
BY DEF Inv, Domains, Prepare

LEMMA PrepareInv ==
    ASSUME Inv, NEW g \in Sets, Prepare(g)
    PROVE  Inv'
<1> PICK n \in Ordinals :
      /\ Free(g, n) /\ ~Pending(g) /\ ledgerAt[g] = 0
      /\ journal' = [journal EXCEPT ![g] = [ordinal |-> n, deferred |-> {}]]
      /\ moves' = [moves EXCEPT ![g] = [ordinal |-> n, deferred |-> {}]]
  BY PrepareEffect
<1>1. UNCHANGED <<source, ready, checkpoint, ledgerAt, named, printed, transfer,
                  parked, phase, snapshot, staged, todo, park, recording,
                  service, lost, faults>>
  BY DEF Prepare
<1>2. n # 0 /\ n \in Nat
  BY BoundsAssumption
<1>3. /\ journal'[g].ordinal = n /\ moves'[g].ordinal = n /\ Pending(g)'
      /\ \A h \in Sets \ {g} : /\ journal'[h] = journal[h] /\ moves'[h] = moves[h]
                               /\ Pending(h)' <=> Pending(h)
  BY <1>2 DEF Inv, Domains, Pending, None
<1>4. TypeOK' /\ Domains'
  <2>1. \A h \in Sets : {journal'[h], moves'[h]} \subseteq
                          [ordinal : Ordinals \cup {0}, deferred : SUBSET Downloaded[h]]
    BY DEF Inv, TypeOK, Domains
  <2>2. Domains'
    BY <1>1 DEF Inv, Domains
  <2> QED
    BY <1>1, <2>1, <2>2 DEF Inv, TypeOK, service
<1>5. OneMove'
  BY <1>2, <1>3 DEF Inv, OneMove
<1>6. Busy' /\ Behind'
  BY <1>1, <1>3 DEF Inv, Busy, Behind, Stage
<1>7. phase[g] = "idle"
  BY DEF Inv, Busy
<1>8. FilesKept
  BY <1>1 DEF FilesKept
<1>9. Linked'
  BY <1>1, <1>3, <1>7, <1>8, LinkedKept
<1>10. InOrder'
  BY <1>1, <1>3 DEF Inv, InOrder, Stage
<1>11. NamedIsThere'
  BY <1>1, <1>3, <1>8, NamedKept DEF Destination
<1>12. NoContentLost' /\ AllOrNothing'
  BY <1>1, <1>3 DEF Inv, NoContentLost, AllOrNothing
<1>13. NoSharedDestination'
  <2>1. ASSUME NEW h \in Sets \ {g}, Pending(h), NEW f \in FilesOf[g] \cap FilesOf[h]
        PROVE  journal[h].ordinal # n
    <3>1. <<journal[h].ordinal, f>> \in Reserved(g)
      BY <2>1 DEF Reserved
    <3> QED
      BY <3>1, <2>1 DEF Free
  <2> QED
    BY <1>3, <2>1 DEF Inv, NoSharedDestination
<1> QED
  BY <1>4, <1>5, <1>6, <1>9, <1>10, <1>11, <1>12, <1>13 DEF Inv

\* The journal keeps its destination, whatever is deferred.
LEMMA DeferEffect ==
    ASSUME Inv, NEW g \in Sets, Defer(g)
    PROVE  \E held \in SUBSET Downloaded[g] :
             /\ staged' = [staged EXCEPT ![g] = held]
             /\ todo' = [todo EXCEPT ![g] = FilesOf[g] \ held]
             /\ \/ journal' = journal
                \/ journal' = [journal EXCEPT ![g] =
                                 [ordinal |-> journal[g].ordinal, deferred |-> held]]
             /\ transfer' \in [Sets -> {"running", "complete", "released"}]
<1> DEFINE held == IF Releases(g) THEN {} ELSE Owned(g)
<1>1. held \subseteq Downloaded[g]
  BY DEF Owned
<1>2. transfer' \in [Sets -> {"running", "complete", "released"}]
  BY DEF Inv, TypeOK, Defer
<1>3. \/ journal' = journal
      \/ journal' = [journal EXCEPT ![g] = [ordinal |-> journal[g].ordinal, deferred |-> held]]
  <2>1. moves[g].ordinal = journal[g].ordinal
    BY DEF Inv, OneMove
  <2>2. [journal EXCEPT ![g] = journal[g]] = journal
    BY DEF Inv, Domains
  <2> QED
    BY <2>1, <2>2 DEF Defer
<1>4. staged' = [staged EXCEPT ![g] = held] /\ todo' = [todo EXCEPT ![g] = FilesOf[g] \ held]
  BY DEF Defer
<1> QED
  BY <1>1, <1>2, <1>3, <1>4

LEMMA DeferInv ==
    ASSUME Inv, NEW g \in Sets, Defer(g)
    PROVE  Inv'
<1> PICK held \in SUBSET Downloaded[g] :
      /\ staged' = [staged EXCEPT ![g] = held]
      /\ todo' = [todo EXCEPT ![g] = FilesOf[g] \ held]
      /\ \/ journal' = journal
         \/ journal' = [journal EXCEPT ![g] =
                          [ordinal |-> journal[g].ordinal, deferred |-> held]]
      /\ transfer' \in [Sets -> {"running", "complete", "released"}]
  BY DeferEffect
<1>1. /\ phase[g] = "queued" /\ phase' = [phase EXCEPT ![g] = "moving"]
      /\ snapshot' = [snapshot EXCEPT ![g] = FALSE]
      /\ UNCHANGED <<source, ready, checkpoint, ledgerAt, named, printed, moves,
                     parked, park, recording, service, lost, faults>>
  BY DEF Defer
<1>2. Pending(g) /\ journal[g].ordinal \in Ordinals \ {0} /\ recording.set # g
  <2>1. Pending(g) /\ recording.set # g
    BY <1>1, SetsAssumption DEF Inv, Busy
  <2>2. journal[g].ordinal \in Ordinals \ {0}
    BY <2>1, PendingByOrdinal, BoundsAssumption DEF Inv, OneMove
  <2> QED
    BY <2>1, <2>2
<1>3. /\ \A h \in Sets : journal'[h].ordinal = journal[h].ordinal /\ (Pending(h)' <=> Pending(h))
      /\ \A h \in Sets \ {g} : journal'[h] = journal[h]
  <2>1. CASE journal' = journal
    BY <2>1 DEF Pending
  <2>2. CASE journal' = [journal EXCEPT ![g] =
                           [ordinal |-> journal[g].ordinal, deferred |-> held]]
    BY <1>2, <2>2 DEF Inv, Domains, Pending, None
  <2> QED
    BY <2>1, <2>2
<1>4. TypeOK'
  <2>1. \A h \in Sets : {journal'[h], moves'[h]} \subseteq
                          [ordinal : Ordinals \cup {0}, deferred : SUBSET Downloaded[h]]
    BY <1>1, <1>2 DEF Inv, TypeOK, Domains
  <2>2. \A h \in Sets : staged'[h] \subseteq Downloaded[h] /\ todo'[h] \subseteq FilesOf[h]
    BY DEF Inv, TypeOK, Domains
  <2>3. phase' \in [Sets -> Phases] /\ snapshot' \in [Sets -> BOOLEAN]
    BY <1>1 DEF Inv, TypeOK, Phases
  <2> QED
    BY <1>1, <2>1, <2>2, <2>3 DEF Inv, TypeOK, service
<1>5. Domains'
  BY <1>1 DEF Inv, Domains
<1>6. OneMove'
  BY <1>1, <1>2, <1>3 DEF Inv, OneMove
<1>7. Busy'
  BY <1>1, <1>2, <1>3 DEF Inv, TypeOK, Busy
<1>8. Behind'
  BY <1>1 DEF Inv, TypeOK, Domains, Behind, Stage
<1>9. InOrder'
  BY <1>1, <1>2, <1>3 DEF Inv, Domains, InOrder, Stage
<1>10. FilesKept
  BY <1>1 DEF FilesKept
<1>11. Linked'
  <2>1. \A h \in Sets : phase'[h] = "linked" =>
          phase[h] = "linked" /\ todo'[h] = todo[h] /\ moves'[h].ordinal = moves[h].ordinal
    BY <1>1 DEF Inv, TypeOK, Domains
  <2> QED
    BY <1>10, <2>1, LinkedKept
<1>12. NamedIsThere'
  BY <1>1, <1>3, <1>10, NamedKept DEF Destination
<1>13. NoContentLost' /\ AllOrNothing'
  BY <1>1, <1>3 DEF Inv, NoContentLost, AllOrNothing
<1>14. NoSharedDestination'
  BY <1>3 DEF Inv, NoSharedDestination
<1> QED
  BY <1>4, <1>5, <1>6, <1>7, <1>8, <1>9, <1>11, <1>12, <1>13, <1>14 DEF Inv

-----------------------------------------------------------------------------
(* The files *)

\* The destination of an unfinished move, and the next of its files.
LEMMA WorkerPlace ==
    ASSUME Inv, NEW g \in Sets, phase[g] \in {"moving", "linked"}, todo[g] # {}
    PROVE  /\ Pending(g) /\ moves[g].ordinal \in Ordinals \ {0}
           /\ journal[g].ordinal = moves[g].ordinal
           /\ recording.set # g
           /\ First(g) \in todo[g] /\ First(g) \in FilesOf[g]
           /\ First(g) \in Suffixes
<1>1. Pending(g) /\ recording.set # g
  BY SetsAssumption DEF Inv, Busy
<1>2. moves[g].ordinal \in Ordinals \ {0} /\ journal[g].ordinal = moves[g].ordinal
  BY <1>1, PendingByOrdinal, BoundsAssumption DEF Inv, OneMove
<1> QED
  BY <1>1, <1>2, FirstIsThere, SuffixesOf DEF Inv

\* What no step of a worker changes.
WorkerFrame ==
    UNCHANGED <<journal, checkpoint, ledgerAt, named, printed, transfer, moves,
                parked, snapshot, park, recording, service, lost, faults>>

\* What the owner and the disk hold survives a step of a worker that keeps files.
LEMMA WorkerKeeps ==
    ASSUME Inv, WorkerFrame, FilesKept, NEW g \in Sets,
           phase[g] \in {"moving", "linked"}, todo[g] # {} ,
           phase' \in [Sets -> Phases],
           \A h \in Sets \ {g} : phase'[h] = phase[h] /\ staged'[h] = staged[h],
           \A n \in Ordinals, f \in Suffixes :
             ready'[n][f] = ready[n][f] \/ ready'[n][f] = g
    PROVE  /\ OneMove' /\ Busy' /\ InOrder'
           /\ NoSharedDestination' /\ NamedIsThere' /\ AllOrNothing'
<1>1. Pending(g) /\ recording.set # g
  BY WorkerPlace
<1>2. \A h \in Sets : Destination(h)' = Destination(h) /\ (Pending(h)' <=> Pending(h))
  BY DEF WorkerFrame, Destination, Pending
<1>3. OneMove' /\ NoSharedDestination'
  BY <1>2 DEF Inv, WorkerFrame, OneMove, NoSharedDestination
<1>4. Busy' /\ InOrder'
  BY <1>1, <1>2 DEF Inv, WorkerFrame, TypeOK, Busy, InOrder, Stage
<1>5. NamedIsThere'
  BY <1>2, NamedKept DEF WorkerFrame
<1>6. AllOrNothing'
  BY <1>1, <1>2 DEF Inv, WorkerFrame, FilesKept, AllOrNothing
<1> QED
  BY <1>3, <1>4, <1>5, <1>6

\* A stage that fails forgets its files.
LEMMA FailsKeeps ==
    ASSUME Inv, NEW g \in Sets, Fails(g), WorkerFrame, UNCHANGED <<source, ready>>,
           phase[g] \in {"moving", "linked"}, todo[g] # {}
    PROVE  Inv'
<1>1. FilesKept
  BY DEF WorkerFrame, FilesKept
<1>2. TypeOK' /\ Domains'
  BY DEF Inv, Fails, WorkerFrame, TypeOK, service, Domains, Phases
<1>3. /\ OneMove' /\ Busy' /\ InOrder'
      /\ NoSharedDestination' /\ NamedIsThere' /\ AllOrNothing'
  <2>1. /\ phase' \in [Sets -> Phases]
        /\ \A h \in Sets \ {g} : phase'[h] = phase[h] /\ staged'[h] = staged[h]
    BY DEF Inv, Fails, TypeOK, Phases, Domains
  <2> QED
    BY <1>1, <2>1, WorkerKeeps
<1>4. Linked'
  <2>1. \A h \in Sets : phase'[h] = "linked" =>
          phase[h] = "linked" /\ todo'[h] = todo[h] /\ moves'[h].ordinal = moves[h].ordinal
    BY DEF Inv, Fails, WorkerFrame, TypeOK, Domains
  <2> QED
    BY <1>1, <2>1, LinkedKept
<1>5. Behind'
  BY DEF Inv, Fails, WorkerFrame, TypeOK, Domains, Behind, Stage
<1>6. NoContentLost'
  BY DEF Inv, WorkerFrame, NoContentLost
<1> QED
  BY <1>2, <1>3, <1>4, <1>5, <1>6 DEF Inv

\* The source of a file goes when the file is at its destination.
LEMMA SourceGoes ==
    ASSUME Inv, NEW g \in Sets, WorkerFrame, UNCHANGED <<ready, staged>>,
           phase[g] \in {"moving", "linked"}, todo[g] # {},
           At(g, First(g)) = g \/ First(g) \in lost[g],
           source' = [source EXCEPT ![g][First(g)] = "none"],
           todo' = [todo EXCEPT ![g] = @ \ {First(g)}],
           phase' = [phase EXCEPT ![g] = "moving"]
    PROVE  Inv'
<1>1. /\ moves[g].ordinal \in Ordinals
      /\ First(g) \in todo[g] /\ First(g) \in FilesOf[g]
  BY WorkerPlace
<1>2. /\ \A h \in Sets \ {g} : source'[h] = source[h] /\ todo'[h] = todo[h]
      /\ \A f \in FilesOf[g] : source'[g][f] = IF f = First(g) THEN "none" ELSE source[g][f]
      /\ todo'[g] = todo[g] \ {First(g)}
      /\ \A h \in Sets : phase'[h] = IF h = g THEN "moving" ELSE phase[h]
  BY <1>1 DEF Inv, TypeOK, Domains
<1>3. FilesKept
  BY <1>2 DEF WorkerFrame, FilesKept
<1>4. TypeOK'
  <2>1. \A h \in Sets : source'[h] \in [FilesOf[h] -> {"own", "other", "none"}]
    BY <1>1 DEF Inv, TypeOK, Domains
  <2>2. \A h \in Sets : staged'[h] \subseteq Downloaded[h] /\ todo'[h] \subseteq FilesOf[h]
    BY <1>2 DEF Inv, TypeOK
  <2>3. phase' \in [Sets -> Phases]
    BY DEF Inv, TypeOK, Phases
  <2> QED
    BY <2>1, <2>2, <2>3 DEF Inv, WorkerFrame, TypeOK, service
<1>5. Domains'
  BY DEF Inv, WorkerFrame, Domains
<1>6. /\ OneMove' /\ Busy' /\ InOrder'
      /\ NoSharedDestination' /\ NamedIsThere' /\ AllOrNothing'
  BY <1>2, <1>3, <1>4, WorkerKeeps DEF TypeOK
<1>7. Linked'
  BY <1>2, <1>3, LinkedKept DEF WorkerFrame
<1>8. Behind'
  BY <1>2 DEF Inv, TypeOK, WorkerFrame, Behind, Stage
<1>9. NoContentLost'
  BY <1>1, <1>2 DEF Inv, WorkerFrame, NoContentLost, At
<1> QED
  BY <1>4, <1>5, <1>6, <1>7, <1>8, <1>9 DEF Inv

\* A file is linked where nothing was.
LEMMA FileLinked ==
    ASSUME Inv, NEW g \in Sets, WorkerFrame, UNCHANGED <<source, todo, staged>>,
           phase[g] = "moving", todo[g] # {}, At(g, First(g)) = "none",
           ready' = [ready EXCEPT ![moves[g].ordinal][First(g)] = g],
           phase' = [phase EXCEPT ![g] = "linked"]
    PROVE  Inv'
<1>1. moves[g].ordinal \in Ordinals /\ First(g) \in FilesOf[g] /\ First(g) \in Suffixes
  BY WorkerPlace
<1>2. /\ \A n \in Ordinals, f \in Suffixes :
           ready'[n][f] = IF n = moves[g].ordinal /\ f = First(g) THEN g ELSE ready[n][f]
      /\ \A h \in Sets : phase'[h] = IF h = g THEN "linked" ELSE phase[h]
  BY <1>1 DEF Inv, TypeOK
<1>3. \A h \in Sets : \A n \in Ordinals : \A f \in FilesOf[h] :
        ready[n][f] = h => ready'[n][f] = h
  BY <1>2, SuffixesOf, SetsAssumption DEF At
<1>4. FilesKept
  BY <1>3 DEF WorkerFrame, FilesKept
<1>5. TypeOK'
  <2>1. ready' \in [Ordinals -> [Suffixes -> Sets \cup {"other", "none"}]]
    BY <1>1 DEF Inv, TypeOK
  <2>2. phase' \in [Sets -> Phases]
    BY DEF Inv, TypeOK, Phases
  <2> QED
    BY <2>1, <2>2 DEF Inv, WorkerFrame, TypeOK, service
<1>6. Domains'
  BY DEF Inv, WorkerFrame, Domains
<1>7. /\ OneMove' /\ Busy' /\ InOrder'
      /\ NoSharedDestination' /\ NamedIsThere' /\ AllOrNothing'
  BY <1>2, <1>4, <1>5, WorkerKeeps DEF TypeOK
<1>8. Linked'
  <2>1. todo'[g] # {} /\ At(g, First(g))' = g
    BY <1>1, <1>2 DEF WorkerFrame, At, First
  <2>2. ASSUME NEW h \in Sets \ {g}, phase'[h] = "linked"
        PROVE  todo'[h] # {} /\ (At(h, First(h))' = h \/ First(h)' \in lost'[h])
    <3>1. phase[h] = "linked" /\ First(h)' = First(h)
      BY <1>2, <2>2 DEF First
    <3>2. todo[h] # {} /\ (At(h, First(h)) = h \/ First(h) \in lost[h])
      BY <3>1 DEF Inv, Linked
    <3>3. moves[h].ordinal \in Ordinals /\ First(h) \in FilesOf[h]
      BY <3>1, <3>2, WorkerPlace
    <3> QED
      BY <1>3, <3>1, <3>2, <3>3 DEF WorkerFrame, At
  <2> QED
    BY <2>1, <2>2 DEF Linked
<1>9. Behind'
  BY <1>2 DEF Inv, WorkerFrame, Behind, Stage
<1>10. NoContentLost'
  BY <1>3 DEF Inv, WorkerFrame, NoContentLost
<1> QED
  BY <1>5, <1>6, <1>7, <1>8, <1>9, <1>10 DEF Inv

LEMMA MoveFileInv ==
    ASSUME Inv, NEW g \in Sets, MoveFile(g)
    PROVE  Inv'
<1>1. phase[g] = "moving" /\ todo[g] # {} /\ WorkerFrame
  BY DEF MoveFile, WorkerFrame
<1>2. CASE /\ Verified(g, First(g))
           /\ source' = [source EXCEPT ![g][First(g)] = "none"]
           /\ todo' = [todo EXCEPT ![g] = @ \ {First(g)}]
           /\ UNCHANGED <<phase, ready, staged>>
  <2>1. phase' = [phase EXCEPT ![g] = "moving"]
    BY <1>1, <1>2 DEF Inv, TypeOK
  <2> QED
    BY <1>1, <1>2, <2>1, SourceGoes DEF Verified
<1>3. CASE /\ At(g, First(g)) = "none"
           /\ ready' = [ready EXCEPT ![moves[g].ordinal][First(g)] = g]
           /\ phase' = [phase EXCEPT ![g] = "linked"]
           /\ UNCHANGED <<source, todo, staged>>
  BY <1>1, <1>3, FileLinked
<1>4. CASE Fails(g) /\ UNCHANGED <<source, ready>>
  BY <1>1, <1>4, FailsKeeps
<1> QED
  BY <1>2, <1>3, <1>4 DEF MoveFile

LEMMA UnlinkInv ==
    ASSUME Inv, NEW g \in Sets, Unlink(g)
    PROVE  Inv'
<1>1. phase[g] = "linked" /\ WorkerFrame /\ ready' = ready
  BY DEF Unlink, WorkerFrame
<1>2. todo[g] # {} /\ (At(g, First(g)) = g \/ First(g) \in lost[g])
  BY <1>1 DEF Inv, Linked
<1>3. CASE Removable(g, First(g))
  BY <1>1, <1>2, <1>3, SourceGoes DEF Unlink
<1>4. CASE ~Removable(g, First(g))
  BY <1>1, <1>2, <1>4, FailsKeeps DEF Unlink
<1> QED
  BY <1>3, <1>4

-----------------------------------------------------------------------------
(* The user *)

\* A file that goes from one place, or another one that comes, is recorded.
LEMMA UserKeeps ==
    ASSUME Inv, UserChanges
    PROVE  /\ \A g \in Sets : source'[g] \in [FilesOf[g] -> {"own", "other", "none"}]
           /\ ready' \in [Ordinals -> [Suffixes -> Sets \cup {"other", "none"}]]
           /\ \A g \in Sets : lost'[g] \subseteq FilesOf[g]
           /\ source' = [g \in Sets |-> source'[g]] /\ lost' = [g \in Sets |-> lost'[g]]
           /\ \A g \in Sets, f \in Suffixes, n \in Ordinals : ready'[n][f] = g => ready[n][f] = g
           /\ FilesKept /\ NoContentLost'
<1>1. CASE \E g \in Sets : \E f \in FilesOf[g], to \in {"none", "other"} :
             /\ source[g][f] = "own"
             /\ source' = [source EXCEPT ![g][f] = to]
             /\ lost' = [lost EXCEPT ![g] = @ \cup {f}]
             /\ UNCHANGED ready
  <2> PICK g \in Sets : \E f \in FilesOf[g], to \in {"none", "other"} :
         /\ source[g][f] = "own"
         /\ source' = [source EXCEPT ![g][f] = to]
         /\ lost' = [lost EXCEPT ![g] = @ \cup {f}]
         /\ UNCHANGED ready
    BY <1>1
  <2> PICK f \in FilesOf[g], to \in {"none", "other"} :
         /\ source[g][f] = "own"
         /\ source' = [source EXCEPT ![g][f] = to]
         /\ lost' = [lost EXCEPT ![g] = @ \cup {f}]
         /\ UNCHANGED ready
    OBVIOUS
  <2>1. /\ \A h \in Sets \ {g} : source'[h] = source[h] /\ lost'[h] = lost[h]
        /\ \A e \in FilesOf[g] : source'[g][e] = IF e = f THEN to ELSE source[g][e]
        /\ lost'[g] = lost[g] \cup {f}
    BY DEF Inv, TypeOK, Domains
  <2>2. /\ \A h \in Sets : source'[h] \in [FilesOf[h] -> {"own", "other", "none"}]
        /\ \A h \in Sets : lost'[h] \subseteq FilesOf[h]
        /\ source' = [h \in Sets |-> source'[h]] /\ lost' = [h \in Sets |-> lost'[h]]
    BY <2>1 DEF Inv, TypeOK, Domains
  <2>3. FilesKept
    BY <2>1 DEF FilesKept
  <2>4. NoContentLost'
    BY <2>1 DEF Inv, NoContentLost
  <2> QED
    BY <2>2, <2>3, <2>4 DEF Inv, TypeOK
<1>2. CASE \E n \in Ordinals, g \in Sets : \E f \in FilesOf[g], to \in {"none", "other"} :
             /\ ready[n][f] = g
             /\ ready' = [ready EXCEPT ![n][f] = to]
             /\ lost' = [lost EXCEPT ![g] = @ \cup {f}]
             /\ UNCHANGED source
  <2> PICK n \in Ordinals, g \in Sets : \E f \in FilesOf[g], to \in {"none", "other"} :
         /\ ready[n][f] = g
         /\ ready' = [ready EXCEPT ![n][f] = to]
         /\ lost' = [lost EXCEPT ![g] = @ \cup {f}]
         /\ UNCHANGED source
    BY <1>2
  <2> PICK f \in FilesOf[g], to \in {"none", "other"} :
         /\ ready[n][f] = g
         /\ ready' = [ready EXCEPT ![n][f] = to]
         /\ lost' = [lost EXCEPT ![g] = @ \cup {f}]
         /\ UNCHANGED source
    OBVIOUS
  <2>1. /\ \A h \in Sets \ {g} : lost'[h] = lost[h]
        /\ lost'[g] = lost[g] \cup {f}
        /\ \A m \in Ordinals, e \in Suffixes :
             ready'[m][e] = IF m = n /\ e = f THEN to ELSE ready[m][e]
    BY SuffixesOf DEF Inv, TypeOK, Domains
  <2>2. /\ ready' \in [Ordinals -> [Suffixes -> Sets \cup {"other", "none"}]]
        /\ \A h \in Sets : lost'[h] \subseteq FilesOf[h]
        /\ lost' = [h \in Sets |-> lost'[h]]
    BY <2>1, SuffixesOf DEF Inv, TypeOK, Domains
  <2>3. FilesKept
    BY <2>1, SuffixesOf DEF FilesKept
  <2>4. NoContentLost'
    BY <2>1, SuffixesOf DEF Inv, NoContentLost
  <2> QED
    BY <2>1, <2>2, <2>3, <2>4, SetsAssumption DEF Inv, TypeOK, Domains
<1>3. CASE \E n \in Ordinals, f \in Suffixes :
             /\ ready[n][f] = "none"
             /\ ready' = [ready EXCEPT ![n][f] = "other"]
             /\ UNCHANGED <<source, lost>>
  <2> PICK n \in Ordinals, f \in Suffixes :
         /\ ready[n][f] = "none"
         /\ ready' = [ready EXCEPT ![n][f] = "other"]
         /\ UNCHANGED <<source, lost>>
    BY <1>3
  <2>1. \A m \in Ordinals, e \in Suffixes :
          ready'[m][e] = IF m = n /\ e = f THEN "other" ELSE ready[m][e]
    BY DEF Inv, TypeOK
  <2>2. ready' \in [Ordinals -> [Suffixes -> Sets \cup {"other", "none"}]]
    BY DEF Inv, TypeOK
  <2>3. FilesKept
    BY <2>1, SuffixesOf, SetsAssumption DEF FilesKept
  <2>4. NoContentLost'
    BY <2>1, SuffixesOf, SetsAssumption DEF Inv, NoContentLost
  <2> QED
    BY <2>1, <2>2, <2>3, <2>4, SetsAssumption DEF Inv, TypeOK, Domains
<1> QED
  BY <1>1, <1>2, <1>3 DEF UserChanges

LEMMA UserChangesInv ==
    ASSUME Inv, UserChanges
    PROVE  Inv'
<1>1. /\ UNCHANGED <<journal, checkpoint, ledgerAt, named, printed, transfer, service>>
      /\ UNCHANGED <<moves, parked, phase, snapshot, staged, todo, park, recording>>
      /\ Fault
  BY DEF UserChanges, memory
<1>2. /\ FilesKept /\ NoContentLost'
      /\ \A g \in Sets, f \in Suffixes, n \in Ordinals : ready'[n][f] = g => ready[n][f] = g
  BY UserKeeps
<1>3. TypeOK'
  BY <1>1, UserKeeps, FaultBound DEF Inv, TypeOK, service
<1>4. Domains'
  BY <1>1, UserKeeps DEF Inv, Domains
<1>5. OneMove' /\ Busy' /\ InOrder' /\ NoSharedDestination'
  BY <1>1 DEF Inv, OneMove, Busy, InOrder, NoSharedDestination, Stage, Pending
<1>6. Linked' /\ NamedIsThere'
  <2>1. \A g \in Sets : Destination(g)' = Destination(g)
    BY <1>1 DEF Destination, Pending
  <2> QED
    BY <1>1, <1>2, <2>1, LinkedKept, NamedKept
<1>7. Behind'
  <2>1. \A g \in Sets : Stage(g)' = Stage(g) /\ Stage(g) \subseteq FilesOf[g]
                        /\ checkpoint[g] \subseteq FilesOf[g]
    BY <1>1 DEF Inv, TypeOK, Stage
  <2> QED
    BY <1>1, <1>2, <2>1 DEF Inv, Behind, FilesKept
<1>8. AllOrNothing'
  BY <1>1, <1>2 DEF Inv, AllOrNothing, FilesKept, Pending
<1> QED
  BY <1>2, <1>3, <1>4, <1>5, <1>6, <1>7, <1>8 DEF Inv

-----------------------------------------------------------------------------
(* The owner records a stage *)

LEMMA RelocateInv ==
    ASSUME Inv, NEW g \in Sets, Relocate(g)
    PROVE  Inv'
<1>1. /\ recording = Nowhere /\ phase[g] = "moved"
      /\ phase' = [phase EXCEPT ![g] = "idle"]
      /\ park' = [park EXCEPT ![g] = FALSE]
      /\ UNCHANGED <<source, ready, journal, ledgerAt, named, printed, transfer,
                     moves, snapshot, todo, service, lost, faults>>
  BY DEF Relocate
<1>2. Pending(g) /\ journal[g].ordinal \in Ordinals \ {0} /\ moves[g].ordinal = journal[g].ordinal
  BY <1>1, PendingByOrdinal, BoundsAssumption DEF Inv, Busy, OneMove
<1>3. \A h \in Sets : /\ Destination(h)' = Destination(h) /\ (Pending(h)' <=> Pending(h))
                       /\ phase'[h] = IF h = g THEN "idle" ELSE phase[h]
  BY <1>1 DEF Inv, TypeOK, Destination, Pending
<1>4. parked' \subseteq Sets
  BY DEF Inv, TypeOK, Relocate
<1>5. phase' \in [Sets -> Phases] /\ park' \in [Sets -> BOOLEAN]
  BY <1>1 DEF Inv, TypeOK, Phases
<1>6. FilesKept
  BY <1>1 DEF FilesKept
<1>7. /\ OneMove' /\ NoSharedDestination' /\ NoContentLost'
  BY <1>1, <1>3 DEF Inv, OneMove, NoSharedDestination, NoContentLost
<1>8. Linked'
  BY <1>1, <1>3, <1>6, LinkedKept
<1>9. CASE /\ \A f \in Stage(g) \ checkpoint[g] : At(g, f) = g
           /\ checkpoint' = [checkpoint EXCEPT ![g] = @ \cup Stage(g)]
           /\ recording' = [set |-> g, at |-> "ledger"]
           /\ staged' = staged
  <2>1. \A h \in Sets : checkpoint'[h] = IF h = g THEN checkpoint[g] \cup Stage(g) ELSE checkpoint[h]
    BY <1>9 DEF Inv, Domains
  <2>2. Stage(g) \subseteq FilesOf[g] /\ \A f \in Stage(g) : source[g][f] # "own"
    BY <1>1 DEF Inv, Behind, Stage
  <2>3. TypeOK'
    <3>1. \A h \in Sets : checkpoint'[h] \subseteq FilesOf[h]
      BY <2>1, <2>2 DEF Inv, TypeOK
    <3>2. recording' \in [set : Sets \cup {NoSet}, at : {"none", "ledger", "acknowledge"}]
      BY <1>9
    <3> QED
      BY <1>1, <1>4, <1>5, <1>9, <3>1, <3>2 DEF Inv, TypeOK, service
  <2>4. Domains'
    BY <1>1, <1>9 DEF Inv, Domains
  <2>5. Busy'
    BY <1>1, <1>2, <1>3, <1>9, SetsAssumption DEF Inv, Busy
  <2>6. Behind'
    BY <1>1, <1>3, <1>9, <2>1, <2>2 DEF Inv, Behind, Stage
  <2>7. InOrder'
    BY <1>1, <1>3, <1>9, <2>1 DEF Inv, InOrder, Stage
  <2>8. NamedIsThere'
    <3>1. ASSUME NEW f \in Stage(g) \ checkpoint[g]
          PROVE  /\ Destination(g)' # 0
                 /\ ready'[Destination(g)'][f] = g /\ source'[g][f] # "own"
      BY <1>1, <1>2, <1>3, <1>9, <2>2 DEF Destination, At
    <3>2. ASSUME NEW h \in Sets, NEW f \in checkpoint[h] \cup named[h]
          PROVE  /\ Destination(h)' # 0
                 /\ \/ f \in lost'[h]
                    \/ ready'[Destination(h)'][f] = h /\ source'[h][f] # "own"
      BY <1>1, <1>3 DEF Inv, NamedIsThere
    <3> QED
      BY <1>1, <2>1, <3>1, <3>2 DEF NamedIsThere
  <2>9. AllOrNothing'
    BY <1>1, <1>2, <1>3, <2>1 DEF Inv, AllOrNothing
  <2> QED
    BY <1>7, <1>8, <2>3, <2>4, <2>5, <2>6, <2>7, <2>8, <2>9 DEF Inv
<1>10. CASE /\ staged' = [staged EXCEPT ![g] = {}]
            /\ UNCHANGED <<checkpoint, recording>>
  <2>1. \A h \in Sets : staged'[h] = IF h = g THEN {} ELSE staged[h]
    BY <1>10 DEF Inv, Domains
  <2>2. TypeOK'
    BY <1>1, <1>4, <1>5, <1>10, <2>1 DEF Inv, TypeOK, service
  <2>3. Domains'
    BY <1>1, <1>10 DEF Inv, Domains
  <2>4. Busy' /\ InOrder'
    BY <1>1, <1>3, <1>10, <2>1, SetsAssumption DEF Inv, Busy, InOrder, Nowhere
  <2>5. Behind'
    BY <1>1, <1>3, <1>10, <2>1 DEF Inv, Behind, Stage
  <2>6. NamedIsThere'
    BY <1>1, <1>3, <1>6, <1>10, NamedKept
  <2>7. AllOrNothing'
    BY <1>1, <1>3, <1>10 DEF Inv, AllOrNothing
  <2> QED
    BY <1>7, <1>8, <2>2, <2>3, <2>4, <2>5, <2>6, <2>7 DEF Inv
<1> QED
  BY <1>9, <1>10 DEF Relocate

LEMMA SaveLedgerInv ==
    ASSUME Inv, SaveLedger
    PROVE  Inv'
<1> PICK g : g = recording.set
  OBVIOUS
<1>1. /\ recording.at = "ledger"
      /\ recording' = [recording EXCEPT !.at = "acknowledge"]
      /\ named' = [named EXCEPT ![g] = @ \cup (Stage(g) \cap Downloaded[g])]
      /\ UNCHANGED <<source, ready, journal, checkpoint, transfer, moves, parked,
                     phase, snapshot, staged, todo, park, service, lost, faults>>
  BY DEF SaveLedger, Renamed
<1>2. g \in Sets
  BY <1>1 DEF Inv, TypeOK, Busy
<1>3. /\ Pending(g) /\ moves[g].ordinal \in Ordinals \ {0}
      /\ journal[g].ordinal = moves[g].ordinal
  BY <1>2, PendingByOrdinal, BoundsAssumption DEF Inv, Busy, OneMove
<1>4. /\ ledgerAt' = [ledgerAt EXCEPT ![g] = journal[g].ordinal]
      /\ printed' = IF ledgerAt[g] = 0 THEN [printed EXCEPT ![g] = Stage(g)] ELSE printed
  <2>1. CASE ledgerAt[g] = 0
    BY <1>3, <2>1 DEF SaveLedger, Renamed
  <2>2. CASE ledgerAt[g] # 0
    <3>1. ledgerAt[g] = journal[g].ordinal
      BY <1>2, <1>3, <2>2 DEF Inv, InOrder
    <3>2. ledgerAt' = ledgerAt /\ printed' = printed
      BY <2>2 DEF SaveLedger
    <3> QED
      BY <2>2, <3>1, <3>2 DEF Inv, TypeOK
  <2> QED
    BY <2>1, <2>2
<1>5. /\ \A h \in Sets : (Pending(h)' <=> Pending(h)) /\ Stage(h)' = Stage(h)
      /\ \A h \in Sets : named'[h] = IF h = g THEN named[g] \cup (Stage(g) \cap Downloaded[g])
                                               ELSE named[h]
      /\ \A h \in Sets : ledgerAt'[h] = IF h = g THEN journal[g].ordinal ELSE ledgerAt[h]
      /\ recording'.set = g /\ recording'.at = "acknowledge"
  BY <1>1, <1>4 DEF Inv, TypeOK, Domains, Pending, Stage
<1>6. Stage(g) \subseteq checkpoint[g]
  BY <1>2 DEF Inv, InOrder
<1>7. TypeOK'
  <2>1. ledgerAt' \in [Sets -> Ordinals \cup {0}]
    BY <1>3, <1>4 DEF Inv, TypeOK
  <2>2. \A h \in Sets : /\ checkpoint'[h] \subseteq FilesOf[h] /\ named'[h] \subseteq Downloaded[h]
                         /\ printed'[h] \subseteq FilesOf[h]
    BY <1>1, <1>4, <1>5 DEF Inv, TypeOK, Domains, Stage
  <2>3. recording' \in [set : Sets \cup {NoSet}, at : {"none", "ledger", "acknowledge"}]
    BY <1>1 DEF Inv, TypeOK
  <2> QED
    BY <1>1, <2>1, <2>2, <2>3 DEF Inv, TypeOK, service
<1>8. Domains'
  BY <1>1, <1>4 DEF Inv, Domains
<1>9. OneMove' /\ NoSharedDestination' /\ NoContentLost'
  BY <1>1, <1>5 DEF Inv, OneMove, NoSharedDestination, NoContentLost
<1>10. Busy'
  BY <1>1, <1>2, <1>5, SetsAssumption DEF Inv, Busy
<1>11. Behind'
  BY <1>1, <1>5 DEF Inv, Behind
<1>12. InOrder'
  BY <1>1, <1>2, <1>3, <1>5, <1>6 DEF Inv, InOrder
<1>13. Linked'
  BY <1>1, LinkedKept DEF FilesKept
<1>14. NamedIsThere'
  <2>1. \A h \in Sets : Destination(h)' = Destination(h)
    BY <1>1, <1>2, <1>3, <1>5 DEF Destination
  <2>2. \A h \in Sets : checkpoint'[h] \cup named'[h] \subseteq checkpoint[h] \cup named[h]
    BY <1>1, <1>5, <1>6
  <2> QED
    BY <1>1, <2>1, <2>2 DEF Inv, NamedIsThere
<1>15. AllOrNothing'
  BY <1>1, <1>3, <1>5 DEF Inv, AllOrNothing
<1> QED
  BY <1>7, <1>8, <1>9, <1>10, <1>11, <1>12, <1>13, <1>14, <1>15 DEF Inv

LEMMA AcknowledgeInv ==
    ASSUME Inv, Acknowledge
    PROVE  Inv'
<1> PICK g : g = recording.set
  OBVIOUS
<1>1. /\ recording.at = "acknowledge" /\ recording' = Nowhere
      /\ staged' = [staged EXCEPT ![g] = {}]
      /\ UNCHANGED <<source, ready, checkpoint, ledgerAt, named, printed, transfer,
                     parked, phase, snapshot, todo, park, service, lost, faults>>
  BY DEF Acknowledge
<1>2. g \in Sets
  BY <1>1 DEF Inv, TypeOK, Busy
<1>3. /\ Pending(g) /\ phase[g] = "idle" /\ journal[g].ordinal \in Ordinals \ {0}
      /\ ledgerAt[g] = journal[g].ordinal
      /\ Stage(g) \subseteq checkpoint[g] /\ Stage(g) \cap Downloaded[g] \subseteq named[g]
  <2>1. Pending(g) /\ phase[g] = "idle"
    BY <1>2, SetsAssumption DEF Inv, Busy
  <2>2. journal[g].ordinal \in Ordinals \ {0}
    BY <1>2, <2>1, PendingByOrdinal, BoundsAssumption DEF Inv, OneMove
  <2> QED
    BY <1>1, <1>2, <2>1, <2>2 DEF Inv, InOrder
<1>4. CASE Whole(g) /\ journal' = [journal EXCEPT ![g] = None] /\ moves' = [moves EXCEPT ![g] = None]
  <2>1. staged[g] = {} /\ checkpoint[g] = FilesOf[g] /\ named[g] = Downloaded[g]
    BY <1>2, <1>3, <1>4, SetsAssumption DEF Inv, TypeOK, Whole, Stage
  <2>2. /\ ~Pending(g)' /\ \A h \in Sets \ {g} : Pending(h)' <=> Pending(h)
        /\ \A h \in Sets : journal'[h] = IF h = g THEN None ELSE journal[h]
        /\ \A h \in Sets : moves'[h] = IF h = g THEN None ELSE moves[h]
        /\ \A h \in Sets : staged'[h] = staged[h] /\ Stage(h)' = Stage(h)
    <3>1. /\ \A h \in Sets : journal'[h] = IF h = g THEN None ELSE journal[h]
          /\ \A h \in Sets : moves'[h] = IF h = g THEN None ELSE moves[h]
      BY <1>4 DEF Inv, Domains
    <3>2. \A h \in Sets : staged'[h] = staged[h]
      BY <1>1, <2>1 DEF Inv, Domains
    <3>3. ~Pending(g)' /\ \A h \in Sets \ {g} : Pending(h)' <=> Pending(h)
      BY <1>2, <3>1 DEF Pending
    <3> QED
      BY <3>1, <3>2, <3>3 DEF Stage
  <2>3. TypeOK'
    <3>1. \A h \in Sets : {journal'[h], moves'[h]} \subseteq
                            [ordinal : Ordinals \cup {0}, deferred : SUBSET Downloaded[h]]
      BY <2>2 DEF Inv, TypeOK, None
    <3>2. recording' \in [set : Sets \cup {NoSet}, at : {"none", "ledger", "acknowledge"}]
      BY <1>1 DEF Nowhere
    <3> QED
      BY <1>1, <2>2, <3>1, <3>2 DEF Inv, TypeOK, service
  <2>4. Domains'
    BY <1>1, <1>4 DEF Inv, Domains
  <2>5. OneMove' /\ NoSharedDestination' /\ NoContentLost'
    <3>1. OneMove'
      BY <2>2 DEF Inv, OneMove, None
    <3>2. NoSharedDestination'
      BY <2>2 DEF Inv, NoSharedDestination
    <3> QED
      BY <1>1, <3>1, <3>2 DEF Inv, NoContentLost
  <2>6. Busy' /\ Behind' /\ InOrder'
    BY <1>1, <1>3, <2>2, SetsAssumption DEF Inv, Busy, Behind, InOrder, Nowhere
  <2>7. FilesKept
    BY <1>1 DEF FilesKept
  <2>8. Linked'
    BY <1>1, <1>3, <2>2, <2>7, LinkedKept
  <2>9. NamedIsThere'
    <3>1. \A h \in Sets : Destination(h)' = Destination(h)
      BY <1>1, <1>3, <2>2 DEF Destination
    <3> QED
      BY <1>1, <2>7, <3>1, NamedKept
  <2>10. AllOrNothing'
    BY <1>1, <1>2, <1>3, <2>1, <2>2 DEF Inv, AllOrNothing, Behind
  <2> QED
    BY <2>3, <2>4, <2>5, <2>6, <2>8, <2>9, <2>10 DEF Inv
<1>5. CASE moves' = [moves EXCEPT ![g].deferred = staged[g]] /\ journal' = journal
  <2>1. /\ \A h \in Sets : Pending(h)' <=> Pending(h)
        /\ \A h \in Sets \ {g} : moves'[h] = moves[h] /\ staged'[h] = staged[h]
        /\ moves'[g] = [moves[g] EXCEPT !.deferred = staged[g]]
        /\ staged'[g] = {}
    BY <1>1, <1>2, <1>5 DEF Inv, Domains, Pending
  <2>2. moves'[g].ordinal = moves[g].ordinal /\ moves[g].ordinal # 0
    BY <1>2, <1>3, <2>1 DEF Inv, TypeOK, OneMove
  <2>3. TypeOK'
    <3>1. \A h \in Sets : {journal'[h], moves'[h]} \subseteq
                            [ordinal : Ordinals \cup {0}, deferred : SUBSET Downloaded[h]]
      BY <1>5, <2>1 DEF Inv, TypeOK
    <3>2. recording' \in [set : Sets \cup {NoSet}, at : {"none", "ledger", "acknowledge"}]
      BY <1>1 DEF Nowhere
    <3>3. \A h \in Sets : staged'[h] \subseteq Downloaded[h]
      BY <2>1 DEF Inv, TypeOK
    <3> QED
      BY <1>1, <3>1, <3>2, <3>3 DEF Inv, TypeOK, service
  <2>4. Domains'
    BY <1>1, <1>5 DEF Inv, Domains
  <2>5. OneMove' /\ NoSharedDestination' /\ NoContentLost'
    BY <1>1, <1>3, <1>5, <2>1, <2>2 DEF Inv, OneMove, NoSharedDestination, NoContentLost
  <2>6. Busy' /\ Behind' /\ InOrder'
    BY <1>1, <1>3, <1>5, <2>1, SetsAssumption DEF Inv, Busy, Behind, InOrder, Nowhere, Stage
  <2>7. FilesKept
    BY <1>1 DEF FilesKept
  <2>8. Linked'
    BY <1>1, <1>3, <2>1, <2>7, LinkedKept
  <2>9. NamedIsThere'
    BY <1>1, <1>5, <2>1, <2>7, NamedKept DEF Destination
  <2>10. AllOrNothing'
    BY <1>1, <2>1 DEF Inv, AllOrNothing
  <2> QED
    BY <2>3, <2>4, <2>5, <2>6, <2>8, <2>9, <2>10 DEF Inv
<1> QED
  BY <1>4, <1>5 DEF Acknowledge

-----------------------------------------------------------------------------
(* The theorems *)

LEMMA InitInv == Init => Inv
<1> SUFFICES ASSUME Init PROVE Inv
  OBVIOUS
<1>1. \A g \in Sets : ~Pending(g) /\ ledgerAt[g] = 0 /\ journal[g] = None /\ moves[g] = None
  BY DEF Init, Pending
<1>2. TypeOK /\ Domains
  <2>1. \A g \in Sets : {journal[g], moves[g]} \subseteq
                         [ordinal : Ordinals \cup {0}, deferred : SUBSET Downloaded[g]]
    BY <1>1 DEF None
  <2>2. ready \in [Ordinals -> [Suffixes -> Sets \cup {"other", "none"}]]
    BY DEF Init
  <2>3. faults \in 0 .. MaxFaults
    BY BoundsAssumption DEF Init
  <2>4. Domains
    BY DEF Init, Domains
  <2> QED
    BY <2>1, <2>2, <2>3, <2>4 DEF Init, TypeOK, Phases, Nowhere
<1>3. OneMove /\ Busy /\ InOrder
  BY <1>1, SetsAssumption DEF Init, OneMove, Busy, InOrder, Nowhere
<1>4. Linked /\ Behind
  BY DEF Init, Linked, Behind
<1>5. NoContentLost /\ NoSharedDestination /\ NamedIsThere
  BY <1>1 DEF Init, NoContentLost, NoSharedDestination, NamedIsThere
<1>6. AllOrNothing
  BY SetsAssumption DEF Init, AllOrNothing
<1> QED
  BY <1>2, <1>3, <1>4, <1>5, <1>6 DEF Inv

LEMMA NextInv == Inv /\ [Next]_vars => Inv'
<1> SUFFICES ASSUME Inv, [Next]_vars PROVE Inv'
  OBVIOUS
<1>1. CASE RecordRefused \/ Unpark \/ ClientStops \/ ClientStarts \/ SetAuto
           \/ BeginShutdown \/ Restart \/ UserChanges
  BY <1>1, RecordRefusedInv, UnparkInv, ClientStopsInv, ClientStartsInv, SetAutoInv,
     BeginShutdownInv, RestartInv,
     UserChangesInv
<1>2. ASSUME NEW g \in Sets, Step(g) \/ Prepare(g) \/ Denied(g) \/ TransferCompletes(g)
      PROVE  Inv'
  <2>1. CASE Prepare(g) \/ Denied(g) \/ TransferCompletes(g) \/ Retry(g)
    BY <2>1, PrepareInv, DeniedInv, TransferCompletesInv, RetryInv
  <2>2. CASE Worker(g)
    BY <2>2, DeferInv, MoveFileInv, UnlinkInv, MovedInv DEF Worker
  <2>3. CASE Record(g)
    BY <2>3, RecordFailureInv, RelocateInv, SaveLedgerInv, AcknowledgeInv DEF Record
  <2> QED
    BY <1>2, <2>1, <2>2, <2>3 DEF Step
<1>3. CASE UNCHANGED vars
  <2>1. Quiet
    BY <1>3 DEF vars, disk, memory, service, Quiet
  <2>2. TypeOK' /\ Domains'
    BY <1>3 DEF Inv, vars, disk, memory, service, TypeOK, Domains
  <2>3. OneMove' /\ Busy' /\ Behind' /\ InOrder'
    BY <1>3 DEF Inv, vars,
        disk, memory, service, OneMove, Busy, Behind, InOrder, Pending, Stage
  <2> QED
    BY <2>1, <2>2, <2>3, QuietKeeps DEF Inv
<1> QED
  BY <1>1, <1>2, <1>3 DEF Next

\* The invariant holds in every reachable state.
THEOREM Invariance == Spec => []Inv
<1> QED
  BY InitInv, NextInv, PTL DEF Spec

\* Every variable has its type.
THEOREM TypeCorrect == Spec => []TypeOK
<1>1. Inv => TypeOK
  BY DEF Inv
<1> QED
  BY <1>1, Invariance, PTL

\* The move loses no content, whatever fails and whatever the user does
\* (NoContentLost): between link and unlink a file is at its destination.
THEOREM ContentKept == Spec => []NoContentLost
<1>1. Inv => NoContentLost
  BY DEF Inv
<1> QED
  BY <1>1, Invariance, PTL

\* Two unfinished moves never write the same names (NoSharedDestination).
THEOREM DestinationsApart == Spec => []NoSharedDestination
<1>1. Inv => NoSharedDestination
  BY DEF Inv
<1> QED
  BY <1>1, Invariance, PTL

\* The checkpoint and the confirmations never run ahead of the renames
\* (NamedIsThere), through both stages of a move.
THEOREM RecordsTrue == Spec => []NamedIsThere
<1>1. Inv => NamedIsThere
  BY DEF Inv
<1> QED
  BY <1>1, Invariance, PTL

\* A set without a journal is at its source or in ready, on the disk and in
\* every record (AllOrNothing).
THEOREM Recoverable == Spec => []AllOrNothing
<1>1. Inv => AllOrNothing
  BY DEF Inv
<1> QED
  BY <1>1, Invariance, PTL

\* What no step but a user's touches: the files that are not the set's own, and
\* every file that is in ready.
Others ==
    /\ \A g \in Sets : \A f \in FilesOf[g] :
         source[g][f] = "other" => source'[g][f] = "other"
    /\ \A n \in Ordinals, f \in Suffixes :
         ready[n][f] # "none" => ready'[n][f] = ready[n][f]

\* A move overwrites and removes no file but its own (OthersKept).
THEOREM OthersSafe == Spec => OthersKept
<1>1. ASSUME Inv, [Next]_vars, faults' = faults
      PROVE  Others
  <2>1. CASE UNCHANGED <<source, ready>>
    BY <2>1 DEF Others
  <2>2. ASSUME NEW g \in Sets, MoveFile(g), ~UNCHANGED <<source, ready>>
        PROVE  Others
    <3>1. phase[g] = "moving" /\ todo[g] # {}
      BY <2>2 DEF MoveFile
    <3>2. /\ First(g) \in FilesOf[g] /\ First(g) \in Suffixes
          /\ moves[g].ordinal \in Ordinals
      BY <1>1, <3>1, WorkerPlace
    <3>3. CASE /\ Verified(g, First(g)) /\ ready' = ready
               /\ source' = [source EXCEPT ![g][First(g)] = "none"]
      BY <1>1, <3>2, <3>3 DEF Inv, TypeOK, Domains, Verified, Others
    <3>4. CASE /\ At(g, First(g)) = "none" /\ source' = source
               /\ ready' = [ready EXCEPT ![moves[g].ordinal][First(g)] = g]
      BY <1>1, <3>2, <3>4 DEF Inv, TypeOK, At, Others
    <3> QED
      BY <2>2, <3>3, <3>4 DEF MoveFile
  <2>3. ASSUME NEW g \in Sets, Unlink(g), Removable(g, First(g))
        PROVE  Others
    <3>1. First(g) \in FilesOf[g]
      BY <1>1, <2>3, WorkerPlace DEF Unlink, Inv, Linked
    <3>2. source' = [source EXCEPT ![g][First(g)] = "none"] /\ ready' = ready
      BY <2>3 DEF Unlink
    <3>3. source[g][First(g)] = "own"
      BY <2>3 DEF Removable
    <3> QED
      BY <1>1, <3>1, <3>2, <3>3 DEF Inv, TypeOK, Domains, Others
  <2>4. ~Fault
    BY <1>1, BoundsAssumption DEF Inv, TypeOK, Fault
  <2> QED
    BY <1>1, <2>1, <2>2, <2>3, <2>4
    DEF Next, Step, Worker, Record, Prepare, Retry, Defer, Unlink, Moved, Denied,
        RecordFailure, Relocate, SaveLedger, RecordRefused, Acknowledge,
        TransferCompletes, Unpark, ClientStops, ClientStarts, SetAuto, BeginShutdown,
        Restart, UserChanges,
        vars, disk, memory, service
<1>2. Inv /\ [Next]_vars => [faults' = faults => Others]_vars
  BY <1>1
<1>3. OthersKept <=> [][faults' = faults => Others]_vars
  BY DEF OthersKept, Others
<1> QED
  BY <1>2, <1>3, Invariance, PTL DEF Spec

=============================================================================
