-------------------------- MODULE RunOwner_proofs --------------------------
(***************************************************************************)
(* The requests of the owner, for any runs, groups, clients and budget, and *)
(* whatever saves the ledger refuses: the invariant Inv is inductive.      *)
(***************************************************************************)
EXTENDS RunOwner, FiniteSetTheorems, TLAPS

\* The commands that were answered with a run.
Asked(r) == Cardinality({k \in Commands : receipts[k] = r})

\* A request nobody asked for was never admitted.
Untouched ==
    \A r \in Runs : ledger[r].state = "none" =>
      /\ ledger[r].generation = 0 /\ ledger[r].attempts = 0
      /\ \A k \in Commands : receipts[k] # r

\* Only a start, which has a receipt, goes beyond the budget.
Budgeted == \A r \in Runs : ledger[r].attempts <= Budget + Asked(r)

\* The inductive invariant.
Inv ==
    /\ TypeOK
    /\ Untouched
    /\ Budgeted
    /\ CommandOnce

-----------------------------------------------------------------------------
(* Counting receipts *)

\* No run is asked for by more commands than there are, whatever the receipts.
LEMMA AskedBound ==
    ASSUME NEW f, NEW r
    PROVE  /\ Cardinality({k \in Commands : f[k] = r}) \in Nat
           /\ Cardinality(Commands) \in Nat
           /\ Cardinality({k \in Commands : f[k] = r}) <= Cardinality(Commands)
<1>1. {k \in Commands : f[k] = r} \subseteq Commands
  OBVIOUS
<1> QED
  BY <1>1, CommandsAssumption, FS_Subset, FS_CardinalityType

LEMMA AskedNat == \A r \in Runs : /\ Asked(r) \in 0 .. Cardinality(Commands)
                                  /\ Asked(r)' \in 0 .. Cardinality(Commands)
BY AskedBound DEF Asked

LEMMA OnceByAsked ==
    /\ CommandOnce <=> \A r \in Runs : ledger[r].generation \in {Asked(r), Asked(r) + 1}
    /\ CommandOnce' <=> \A r \in Runs : ledger'[r].generation \in {Asked(r)', Asked(r)' + 1}
BY DEF CommandOnce, Asked

\* A run is asked for once more by a command that had no receipt.
LEMMA AskedAgain ==
    ASSUME TypeOK, NEW k \in Commands, NEW r \in Runs, receipts[k] = None,
           receipts' = [receipts EXCEPT ![k] = r]
    PROVE  /\ Asked(r)' = Asked(r) + 1
           /\ \A s \in Runs \ {r} : Asked(s)' = Asked(s)
<1>1. None \notin Runs
  BY NoneAssumption
<1>2. {j \in Commands : receipts'[j] = r} = {j \in Commands : receipts[j] = r} \cup {k}
  BY DEF TypeOK
<1>3. k \notin {j \in Commands : receipts[j] = r}
  BY <1>1
<1>4. IsFiniteSet({j \in Commands : receipts[j] = r})
  BY CommandsAssumption, FS_Subset
<1>5. Asked(r)' = Asked(r) + 1
  BY <1>2, <1>3, <1>4, FS_AddElement DEF Asked
<1>6. ASSUME NEW s \in Runs \ {r} PROVE Asked(s)' = Asked(s)
  <2>1. {j \in Commands : receipts'[j] = s} = {j \in Commands : receipts[j] = s}
    BY <1>1 DEF TypeOK
  <2> QED
    BY <2>1 DEF Asked
<1> QED
  BY <1>5, <1>6

\* What no step without a receipt changes.
LEMMA AskedSame ==
    ASSUME receipts' = receipts
    PROVE  \A r \in Runs : Asked(r)' = Asked(r)
BY DEF Asked

-----------------------------------------------------------------------------
(* The ledger *)

\* The bounds of a record follow from the commands that were answered.
LEMMA RecordBounds ==
    ASSUME NEW n \in 0 .. Cardinality(Commands), NEW g, NEW a \in Nat,
           g \in {n, n + 1}, a <= Budget + n
    PROVE  g \in 0 .. Cardinality(Commands) + 1 /\ a \in 0 .. MaxAttempts
<1>1. Cardinality(Commands) \in Nat
  BY CommandsAssumption, FS_CardinalityType
<1> QED
  BY <1>1, BudgetAssumption DEF MaxAttempts

\* Steps that change the state of a request and nothing else of the ledger.
Restated ==
    /\ ledger' \in [Runs -> Records]
    /\ \A r \in Runs : /\ ledger'[r].generation = ledger[r].generation
                       /\ ledger'[r].attempts = ledger[r].attempts
                       /\ ledger'[r].state = "none" => ledger[r].state = "none"

LEMMA RestatedInv ==
    ASSUME Inv, Restated, receipts' = receipts
    PROVE  Untouched' /\ Budgeted' /\ CommandOnce'
<1>1. \A r \in Runs : Asked(r)' = Asked(r)
  BY AskedSame
<1> QED
  BY <1>1, OnceByAsked DEF Inv, Restated, Untouched, Budgeted

\* The outcome of a request, or the refusal to save it, restates it.
LEMMA RecordRestates ==
    ASSUME TypeOK, NEW r \in Runs, NEW s \in States \ {"none"}, Record(r, s)
    PROVE  Restated /\ unsaved' \subseteq Runs
<1>1. CASE ledger' = [ledger EXCEPT ![r].state = s]
  BY <1>1 DEF TypeOK, Records, Restated, Record
<1>2. CASE ledger' = ledger
  BY <1>2 DEF TypeOK, Records, Restated, Record
<1> QED
  BY <1>1, <1>2 DEF Record

\* So does the end of cancellations.
LEMMA WithdrawnRestates ==
    ASSUME TypeOK, NEW S, ledger' = Withdrawn(S)
    PROVE  Restated
BY DEF TypeOK, Records, Restated, Withdrawn, States, Results, Unfinished

\* The attempts of a request once it is admitted.
Tried(r, retry) == ledger[r].attempts + (IF retry THEN 1 ELSE 0)

\* An admission changes one record.
LEMMA AdmitEffect ==
    ASSUME Inv, NEW r \in Runs, NEW recovery \in BOOLEAN, NEW retry \in BOOLEAN,
           Admit(r, recovery, retry)
    PROVE  /\ \E x \in {"accepted", "failed"} :
                ledger' = [ledger EXCEPT ![r] =
                             [state |-> x, generation |-> NextGeneration(r, recovery),
                              attempts |-> Tried(r, retry)]]
           /\ live' \subseteq Runs /\ token' \subseteq Runs
           /\ pending' \subseteq Runs /\ unsaved' \subseteq Runs
<1> DEFINE accepted == [state |-> "accepted", generation |-> NextGeneration(r, recovery),
                        attempts |-> Tried(r, retry)]
<1>1. CASE /\ Claimable(r)
           /\ ledger' = [ledger EXCEPT ![r] = accepted]
           /\ live' = live \cup {r}
           /\ token' = token \ {r}
           /\ pending' = pending \cup {r}
           /\ unsaved' = unsaved \ {r}
  BY <1>1 DEF Inv, TypeOK
<1>2. CASE /\ \/ /\ ledger' = [ledger EXCEPT ![r] = [accepted EXCEPT !.state = "failed"]]
                 /\ unsaved' = unsaved \ {r}
              \/ /\ "start" \in Refusals
                 /\ ledger' = [ledger EXCEPT ![r] = accepted]
                 /\ unsaved' = unsaved \cup {r}
           /\ pending' = pending \ {r}
           /\ UNCHANGED <<live, token>>
  <2>1. [accepted EXCEPT !.state = "failed"] =
          [state |-> "failed", generation |-> NextGeneration(r, recovery),
           attempts |-> Tried(r, retry)]
    OBVIOUS
  <2> QED
    BY <1>2, <2>1 DEF Inv, TypeOK
<1> QED
  BY <1>1, <1>2 DEF Admit, Tried

\* A ledger that an admission changed at r, with n receipts of r afterwards.
LEMMA AdmittedInv ==
    ASSUME Inv, NEW r \in Runs, NEW x \in {"accepted", "failed"}, NEW g, NEW a \in Nat,
           ledger' = [ledger EXCEPT ![r] = [state |-> x, generation |-> g, attempts |-> a]],
           g \in {Asked(r)', Asked(r)' + 1}, a <= Budget + Asked(r)',
           \A s \in Runs \ {r} : /\ Asked(s)' = Asked(s)
                                 /\ \A k \in Commands : receipts'[k] = s => receipts[k] = s
    PROVE  ledger' \in [Runs -> Records] /\ Untouched' /\ Budgeted' /\ CommandOnce'
<1>1. Asked(r)' \in 0 .. Cardinality(Commands)
  BY AskedNat
<1>2. g \in 0 .. Cardinality(Commands) + 1 /\ a \in 0 .. MaxAttempts
  <2> DEFINE n == Asked(r)'
  <2>1. n \in 0 .. Cardinality(Commands) /\ g \in {n, n + 1} /\ a <= Budget + n
    BY <1>1
  <2> HIDE DEF n
  <2> QED
    BY <2>1, RecordBounds
<1>3. ledger' \in [Runs -> Records]
  <2>1. [state |-> x, generation |-> g, attempts |-> a] \in Records
    BY <1>2 DEF Records, States, Results
  <2> QED
    BY <2>1 DEF Inv, TypeOK
<1>4. \A s \in Runs \ {r} : ledger'[s] = ledger[s]
  BY DEF Inv, TypeOK
<1>5. ledger'[r].state = x /\ ledger'[r].generation = g /\ ledger'[r].attempts = a
  BY DEF Inv, TypeOK
<1>6. Untouched'
  BY <1>4, <1>5 DEF Inv, Untouched
<1>7. Budgeted'
  BY <1>4, <1>5 DEF Inv, Budgeted
<1>8. CommandOnce'
  BY <1>4, <1>5, OnceByAsked DEF Inv
<1> QED
  BY <1>3, <1>6, <1>7, <1>8

-----------------------------------------------------------------------------
(* The invariant holds, and every step keeps it *)

LEMMA InitInv == Init => Inv
<1> SUFFICES ASSUME Init PROVE Inv
  OBVIOUS
<1>1. TypeOK
  <2>1. Fresh \in Records
    BY CommandsAssumption, BudgetAssumption, FS_CardinalityType DEF Fresh, Records, States, MaxAttempts
  <2> QED
    BY <2>1 DEF Init, TypeOK, Nothing
<1>2. \A r \in Runs : Asked(r) = 0
  <2>1. \A r \in Runs : {k \in Commands : receipts[k] = r} = {}
    BY NoneAssumption DEF Init
  <2> QED
    BY <2>1, FS_EmptySet DEF Asked
<1>3. Untouched /\ Budgeted
  BY <1>2, NoneAssumption, BudgetAssumption DEF Init, Untouched, Budgeted, Fresh
<1>4. CommandOnce
  BY <1>2, OnceByAsked DEF Init, Fresh
<1> QED
  BY <1>1, <1>3, <1>4 DEF Inv

\* Steps that leave the ledger and the live runs alone.
Aside ==
    \/ \E k \in Commands : Preview(k) \/ Reserve(k) \/ Disconnect(k)
    \/ Shutdown \/ RecoveryStarts \/ RestoredRuns \/ SetAuto \/ Inspected

LEMMA AsideSame == Aside => UNCHANGED <<ledger, receipts, live, posted>>
BY DEF Aside, Preview, Reserve, Disconnect, Shutdown, RecoveryStarts, RestoredRuns, SetAuto,
       Inspected, durable, service, clients

LEMMA AsideInv == ASSUME Inv, Aside PROVE Inv'
<1> USE DEF Inv
<1>1. UNCHANGED <<ledger, receipts, live>>
  BY AsideSame
<1>2. Untouched' /\ Budgeted' /\ CommandOnce'
  BY <1>1, OnceByAsked, AskedSame DEF Untouched, Budgeted
<1>3. TypeOK'
  <2>1. CASE \E k \in Commands : Preview(k)
    BY <2>1 DEF Preview, TypeOK, durable, policy, process, service
  <2>2. CASE \E k \in Commands : Reserve(k)
    BY <2>2 DEF Reserve, TypeOK, durable, policy, process, service
  <2>3. CASE \E k \in Commands : Disconnect(k)
    BY <2>3 DEF Disconnect, TypeOK, durable, policy, process, service
  <2>4. CASE Shutdown
    BY <2>4 DEF Shutdown, TypeOK, durable, policy, clients, service
  <2>5. CASE RecoveryStarts
    <3>1. Fresh \in Records
      BY CommandsAssumption, BudgetAssumption, FS_CardinalityType DEF Fresh, Records, States, MaxAttempts
    <3> QED
      BY <2>5, <3>1 DEF RecoveryStarts, TypeOK, durable, policy, clients, service
  <2>6. CASE RestoredRuns
    BY <2>6 DEF RestoredRuns, RestorePausedRuns, TypeOK, durable, policy, clients, service, Nothing
  <2>7. CASE SetAuto
    BY <2>7 DEF SetAuto, RestorePausedRuns, TypeOK, clients, service, Nothing
  <2>8. CASE Inspected
    BY <2>8 DEF Inspected, RestorePausedRuns, TypeOK, durable, policy, clients, service, Nothing
  <2> QED
    BY <2>1, <2>2, <2>3, <2>4, <2>5, <2>6, <2>7, <2>8 DEF Aside
<1> QED
  BY <1>2, <1>3

\* An identifier that no request has yet.
LEMMA NewRunFresh ==
    ASSUME NEW g, NEW r \in NewRun(g)
    PROVE  r \in Runs /\ GroupOf[r] = g /\ ledger[r].state = "none"
BY DEF NewRun, Unused

LEMMA StartInv == ASSUME Inv, NEW k \in Commands, Start(k) PROVE Inv'
<1> USE DEF Inv
<1> DEFINE p == previews[k]
           g == Scope(p)
<1>1. PICK r \in Runs : Admit(r, FALSE, TRUE) /\ receipts' = [receipts EXCEPT ![k] = r]
  BY NewRunFresh DEF Start
<1>2. receipts[k] = None
  BY DEF Start, Unanswered
<1>3. /\ Asked(r)' = Asked(r) + 1
      /\ \A s \in Runs \ {r} : Asked(s)' = Asked(s)
  BY <1>1, <1>2, AskedAgain
<1>4. Asked(r) \in Nat
  BY AskedNat
<1>5. ledger[r].generation \in Nat /\ ledger[r].attempts \in Nat
  BY DEF TypeOK, Records
<1>6. PICK x \in {"accepted", "failed"} :
        ledger' = [ledger EXCEPT ![r] = [state |-> x, generation |-> ledger[r].generation + 1,
                                         attempts |-> ledger[r].attempts + 1]]
  <2>1. \E x \in {"accepted", "failed"} :
          ledger' = [ledger EXCEPT ![r] =
                       [state |-> x, generation |-> NextGeneration(r, FALSE),
                        attempts |-> Tried(r, TRUE)]]
    BY <1>1, AdmitEffect
  <2>2. NextGeneration(r, FALSE) = ledger[r].generation + 1 /\ Tried(r, TRUE) = ledger[r].attempts + 1
    BY DEF NextGeneration, Tried
  <2> QED
    BY <2>1, <2>2
<1>7. /\ live' \subseteq Runs /\ token' \subseteq Runs
      /\ pending' \subseteq Runs /\ unsaved' \subseteq Runs
  BY <1>1, AdmitEffect
<1>8. ledger[r].generation + 1 \in {Asked(r)', Asked(r)' + 1}
  BY <1>3, <1>4, <1>5, OnceByAsked
<1>9. ledger[r].attempts + 1 \in Nat /\ ledger[r].attempts + 1 <= Budget + Asked(r)'
  BY <1>3, <1>4, <1>5, BudgetAssumption DEF Budgeted
<1>10. \A s \in Runs \ {r} : \A j \in Commands : receipts'[j] = s => receipts[j] = s
  BY <1>1 DEF TypeOK
<1>11. ledger' \in [Runs -> Records] /\ Untouched' /\ Budgeted' /\ CommandOnce'
  <2> DEFINE m == ledger[r].generation + 1
             a == ledger[r].attempts + 1
  <2>1. /\ a \in Nat /\ a <= Budget + Asked(r)' /\ m \in {Asked(r)', Asked(r)' + 1}
        /\ ledger' = [ledger EXCEPT ![r] = [state |-> x, generation |-> m, attempts |-> a]]
    BY <1>6, <1>8, <1>9
  <2> HIDE DEF m, a
  <2> QED
    BY <1>3, <1>10, <2>1, AdmittedInv
<1>12. receipts' \in [Commands -> Runs \cup {None}]
  BY <1>1 DEF TypeOK
<1>13. reserved' \in [Groups -> Commands \cup {None}] /\ previews' \in [Commands -> Runs \cup Groups \cup {None}]
  BY DEF Start, TypeOK
<1>14. TypeOK'
  BY <1>7, <1>11, <1>12, <1>13 DEF Start, TypeOK, policy, process
<1> QED
  BY <1>11, <1>14

LEMMA AutoInv == ASSUME Inv, NEW r \in Runs, StartAutomatic(r) PROVE Inv'
<1> USE DEF Inv
<1>1. Admit(r, FALSE, TRUE) /\ receipts' = receipts /\ ledger[r].state = "none"
  BY NewRunFresh DEF StartAutomatic
<1>2. ledger[r].generation = 0 /\ ledger[r].attempts = 0 /\ Asked(r) = 0
  <2>1. {k \in Commands : receipts[k] = r} = {}
    BY <1>1 DEF Untouched
  <2> QED
    BY <1>1, <2>1, FS_EmptySet DEF Untouched, Asked
<1>3. \A s \in Runs : Asked(s)' = Asked(s)
  BY <1>1, AskedSame
<1>4. PICK x \in {"accepted", "failed"} :
        ledger' = [ledger EXCEPT ![r] = [state |-> x, generation |-> 1, attempts |-> 1]]
  <2>1. \E x \in {"accepted", "failed"} :
          ledger' = [ledger EXCEPT ![r] =
                       [state |-> x, generation |-> NextGeneration(r, FALSE),
                        attempts |-> Tried(r, TRUE)]]
    BY <1>1, AdmitEffect
  <2>2. NextGeneration(r, FALSE) = 1 /\ Tried(r, TRUE) = 1
    BY <1>2 DEF NextGeneration, Tried
  <2> QED
    BY <2>1, <2>2
<1>5. /\ live' \subseteq Runs /\ token' \subseteq Runs
      /\ pending' \subseteq Runs /\ unsaved' \subseteq Runs
  BY <1>1, AdmitEffect
<1>6. 1 \in {Asked(r)', Asked(r)' + 1} /\ 1 <= Budget + Asked(r)'
  BY <1>2, <1>3, BudgetAssumption
<1>7. ledger' \in [Runs -> Records] /\ Untouched' /\ Budgeted' /\ CommandOnce'
  BY <1>1, <1>3, <1>4, <1>6, AdmittedInv
<1>8. TypeOK'
  BY <1>1, <1>5, <1>7 DEF StartAutomatic, TypeOK, process, clients
<1> QED
  BY <1>7, <1>8

\* A cancellation restates the requests it ends, or nothing when it is refused.
LEMMA FinishCancelsRestates ==
    ASSUME TypeOK, NEW S \in SUBSET Runs, FinishCancels(S)
    PROVE  /\ Restated
           /\ cancels' \subseteq Runs /\ token' \subseteq Runs /\ unsaved' \subseteq Runs
<1>1. token' \subseteq Runs
  BY DEF FinishCancels, TypeOK
<1>2. CASE ledger' = Withdrawn(S) /\ cancels' = cancels \ S /\ unsaved' = unsaved \ S
  BY <1>1, <1>2, WithdrawnRestates DEF TypeOK
<1>3. CASE cancels' = cancels \cup S /\ UNCHANGED <<ledger, unsaved>>
  BY <1>1, <1>3 DEF TypeOK, Restated
<1> QED
  BY <1>2, <1>3 DEF FinishCancels

LEMMA CancelInv ==
    ASSUME Inv, FinishPending \/ \E r \in Runs : Cancel(r)
    PROVE  Inv'
<1> USE DEF Inv
<1>1. PICK S \in SUBSET Runs : FinishCancels(S)
  BY DEF FinishPending, Cancel, TypeOK
<1>2. UNCHANGED <<receipts, policy, live, posted, pending, process, clients>>
  BY DEF FinishPending, Cancel
<1>3. /\ Restated
      /\ cancels' \subseteq Runs /\ token' \subseteq Runs /\ unsaved' \subseteq Runs
  BY <1>1, FinishCancelsRestates
<1>4. Untouched' /\ Budgeted' /\ CommandOnce'
  BY <1>2, <1>3, RestatedInv
<1>5. TypeOK'
  BY <1>2, <1>3 DEF TypeOK, Restated, policy, process, clients
<1> QED
  BY <1>4, <1>5

LEMMA RunEndsInv ==
    ASSUME Inv, NEW r \in Runs, NEW result \in Results, RunEnds(r, result)
    PROVE  Inv'
<1> USE DEF Inv
<1>1. UNCHANGED <<ledger, receipts>> /\ live' \subseteq live
  BY DEF RunEnds, durable
<1>2. Untouched' /\ Budgeted' /\ CommandOnce'
  BY <1>1, OnceByAsked, AskedSame DEF Untouched, Budgeted
<1>3. [run |-> r, result |-> result, of |-> ledger[r].generation]
        \in [run : Runs, result : Results, of : 0 .. Cardinality(Commands) + 1]
  BY DEF TypeOK, Records
<1>4. TypeOK'
  BY <1>3 DEF RunEnds, TypeOK, durable, policy, process, clients
<1> QED
  BY <1>2, <1>4

LEMMA RecordCompletionInv == ASSUME Inv, NEW c \in posted, RecordCompletion(c) PROVE Inv'
<1> USE DEF Inv
<1>1. c.run \in Runs /\ c.result \in States \ {"none"}
  BY DEF TypeOK, States, Results
<1>2. Restated /\ unsaved' \subseteq Runs
  BY <1>1, RecordRestates DEF RecordCompletion
<1>3. Untouched' /\ Budgeted' /\ CommandOnce'
  BY <1>2, RestatedInv DEF RecordCompletion
<1>4. recovering' \in BOOLEAN /\ jobs' \in [Runs -> Records \cup {None}]
  BY <1>2 DEF RecordCompletion, RestorePausedRuns, TypeOK, Restated, Nothing
<1>5. TypeOK'
  BY <1>2, <1>4 DEF RecordCompletion, TypeOK, Restated, policy, clients
<1> QED
  BY <1>3, <1>5

\* The process ends, by itself or not, and starts again.
LEMMA GoneInv ==
    ASSUME Inv, Gone, cancels' \subseteq Runs
    PROVE  Inv'
<1> USE DEF Inv
<1>1. UNCHANGED <<ledger, receipts>> /\ live' = {}
  BY DEF Gone
<1>2. Untouched' /\ Budgeted' /\ CommandOnce'
  BY <1>1, OnceByAsked, AskedSame DEF Untouched, Budgeted
<1>3. Fresh \in Records
  BY CommandsAssumption, BudgetAssumption, FS_CardinalityType DEF Fresh, Records, States, MaxAttempts
<1>4. TypeOK'
  BY <1>3 DEF Gone, TypeOK, policy, Nothing
<1> QED
  BY <1>2, <1>4

LEMMA BootInv == ASSUME Inv, Boot PROVE Inv'
<1> USE DEF Inv
<1>1. PICK S \in {{}, cancels} : ledger' = Withdrawn(S) /\ cancels' = cancels \ S
  BY DEF Boot
<1>2. Restated
  BY <1>1, WithdrawnRestates
<1>3. Untouched' /\ Budgeted' /\ CommandOnce'
  BY <1>2, RestatedInv DEF Boot
<1>4. TypeOK'
  BY <1>1, <1>2 DEF Boot, TypeOK, Restated, policy, clients, service
<1> QED
  BY <1>3, <1>4

LEMMA RestoreInv == ASSUME Inv, NEW r \in Runs, Restore(r) PROVE Inv'
<1> USE DEF Inv
<1>1. /\ UNCHANGED <<receipts, cancels, policy, up, shutting, snapshot, started, recovering,
                     inspecting, clients, posted>>
      /\ jobs' \in [Runs -> Records \cup {None}]
  BY DEF Restore, TypeOK
<1>2. ASSUME Restated, live' \subseteq Runs, token' \subseteq Runs,
             pending' \subseteq Runs, unsaved' \subseteq Runs
      PROVE  Inv'
  <2>1. Untouched' /\ Budgeted' /\ CommandOnce'
    BY <1>1, <1>2, RestatedInv
  <2>2. TypeOK'
    BY <1>1, <1>2 DEF TypeOK, Restated, policy, clients
  <2> QED
    BY <2>1, <2>2
<1>3. CASE UNCHANGED <<ledger, live, token, pending, unsaved>>
  BY <1>2, <1>3 DEF TypeOK, Restated
<1>4. CASE Record(r, "failed") /\ UNCHANGED <<live, token, pending>>
  <2>1. Restated /\ unsaved' \subseteq Runs
    BY <1>4, RecordRestates DEF States, Results
  <2> QED
    BY <1>2, <1>4, <2>1 DEF TypeOK
<1>5. CASE (Retried(r) => WithinBudget(r)) /\ Admit(r, TRUE, Retried(r))
  <2> DEFINE retry == Retried(r)
             m == ledger[r].generation
             a == Tried(r, retry)
  <2>1. retry \in BOOLEAN
    BY DEF Retried
  <2>2. NextGeneration(r, TRUE) = m
    BY DEF NextGeneration, TypeOK, Records
  <2>3. \E x \in {"accepted", "failed"} :
           ledger' = [ledger EXCEPT ![r] = [state |-> x, generation |-> m, attempts |-> a]]
    <3>1. \E x \in {"accepted", "failed"} :
             ledger' = [ledger EXCEPT ![r] =
                          [state |-> x, generation |-> NextGeneration(r, TRUE), attempts |-> a]]
      BY <1>5, <2>1, AdmitEffect
    <3> QED
      BY <2>2, <3>1
  <2>4. /\ live' \subseteq Runs /\ token' \subseteq Runs
        /\ pending' \subseteq Runs /\ unsaved' \subseteq Runs
    BY <1>5, <2>1, AdmitEffect
  <2>5. \A s \in Runs : Asked(s)' = Asked(s) /\ Asked(s) \in Nat
    BY <1>1, AskedSame, AskedNat
  <2>6. m \in {Asked(r)', Asked(r)' + 1}
    BY <2>5, OnceByAsked
  <2>7. a \in Nat /\ a <= Budget + Asked(r)'
    <3>1. ledger[r].attempts \in Nat /\ Budget \in Nat
      BY BudgetAssumption DEF TypeOK, Records
    <3>2. ledger[r].attempts <= Budget + Asked(r) /\ Asked(r) \in Nat /\ Asked(r)' = Asked(r)
      BY <2>5 DEF Budgeted
    <3>3. retry => ledger[r].attempts < Budget
      BY <1>5 DEF WithinBudget
    <3> HIDE DEF retry
    <3>4. CASE retry
      BY <3>1, <3>2, <3>3, <3>4 DEF Tried
    <3>5. CASE ~retry
      BY <3>1, <3>2, <3>5 DEF Tried
    <3> QED
      BY <3>4, <3>5
  <2> HIDE DEF m, a, retry
  <2>8. ledger' \in [Runs -> Records] /\ Untouched' /\ Budgeted' /\ CommandOnce'
    BY <1>1, <2>3, <2>5, <2>6, <2>7, AdmittedInv
  <2>9. TypeOK'
    BY <1>1, <2>4, <2>8 DEF TypeOK, policy, clients
  <2> QED
    BY <2>8, <2>9
<1> QED
  BY <1>3, <1>4, <1>5 DEF Restore

-----------------------------------------------------------------------------
(* The theorems *)

LEMMA NextInv == Inv /\ [Next]_vars => Inv'
<1> SUFFICES ASSUME Inv, [Next]_vars PROVE Inv'
  OBVIOUS
<1>1. CASE UNCHANGED vars
  <2>1. /\ UNCHANGED <<ledger, receipts, cancels, automatic, auto, up, shutting, snapshot>>
        /\ UNCHANGED <<started, recovering, inspecting, jobs>>
        /\ UNCHANGED <<previews, reserved, live, token, posted, pending, unsaved>>
    BY <1>1 DEF vars, durable, policy, process, clients, service
  <2>2. TypeOK'
    <3>1. TypeOK
      BY DEF Inv
    <3> QED
      BY <2>1, <3>1 DEF TypeOK
  <2>3. Untouched' /\ Budgeted' /\ CommandOnce'
    BY <2>1, OnceByAsked, AskedSame DEF Inv, Untouched, Budgeted
  <2> QED
    BY <2>2, <2>3 DEF Inv
<1>2. CASE Progress
  <2>1. CASE Exit
    BY <2>1, GoneInv DEF Exit, Inv, TypeOK
  <2>2. CASE FinishPending \/ RecoveryStarts \/ RestoredRuns \/ Inspected
    BY <2>2, CancelInv, AsideInv DEF Aside
  <2>3. CASE \E r \in Runs : Restore(r) \/ \E result \in Results : RunEnds(r, result)
    BY <2>3, RestoreInv, RunEndsInv
  <2>4. CASE \E c \in posted : RecordCompletion(c)
    BY <2>4, RecordCompletionInv
  <2> QED
    BY <1>2, <2>1, <2>2, <2>3, <2>4 DEF Progress
<1>3. CASE Shutdown \/ SetAuto \/ \E k \in Commands : Preview(k) \/ Reserve(k) \/ Disconnect(k)
  BY <1>3, AsideInv DEF Aside
<1>4. CASE Crash
  <2>1. cancels' \subseteq Runs
    BY <1>4 DEF Crash, Open, Inv, TypeOK
  <2> QED
    BY <1>4, <2>1, GoneInv DEF Crash
<1>5. CASE Boot
  BY <1>5, BootInv
<1>6. CASE \E k \in Commands : Start(k)
  BY <1>6, StartInv
<1>7. CASE \E r \in Runs : StartAutomatic(r) \/ Cancel(r)
  BY <1>7, AutoInv, CancelInv
<1> QED
  BY <1>1, <1>2, <1>3, <1>4, <1>5, <1>6, <1>7 DEF Next

\* The invariant holds in every state the owner reaches.
THEOREM Invariance == Spec => []Inv
BY InitInv, NextInv, PTL DEF Spec

\* No request is admitted more often than its recovery budget and the commands
\* together allow, through any crashes (_resume_restored).
THEOREM TypeCorrect == Spec => []TypeOK
<1>1. Inv => TypeOK
  BY DEF Inv
<1> QED
  BY <1>1, Invariance, PTL

\* Every generation of a request was asked for by one start command or by Auto,
\* whatever is repeated, refused or lost on the way (_receipt, _admit).
THEOREM CommandsOnce == Spec => []CommandOnce
<1>1. Inv => CommandOnce
  BY DEF Inv
<1> QED
  BY <1>1, Invariance, PTL

-----------------------------------------------------------------------------
(* One holder of a group                                                   *)
(*                                                                         *)
(* Only an admission makes a request a holder that was none.  It comes      *)
(* while the owner does not shut down, when no completion on its way is a   *)
(* paused one, and a recovery admits a request that holds its group already. *)

\* Runs come back paused only when the service is drained.
PausedShutting == \A c \in posted : c.result = "paused" => shutting

\* Recovery takes up unfinished requests.
JobsUnfinished == \A r \in Runs : jobs[r] # None => jobs[r].state \in Unfinished

HolderInv == Inv /\ OneHolder /\ PausedShutting /\ JobsUnfinished

\* Holds of the next state, spelled out.
HoldsNext(r) ==
    \/ ledger'[r].state \in Unfinished
    \/ r \in live'
    \/ \E c \in posted' : c.run = r /\ c.result = "paused"

LEMMA HoldsSplit ==
    ASSUME NEW r \in Runs
    PROVE  /\ Holds(r) <=> \/ ledger[r].state \in Unfinished
                           \/ r \in live
                           \/ \E c \in posted : c.run = r /\ c.result = "paused"
           /\ Holds(r)' <=> HoldsNext(r)
BY DEF Holds, HoldsNext, Open

\* A step that makes no new holder.
LEMMA NoNewHolder ==
    ASSUME OneHolder, \A r \in Runs : HoldsNext(r) => Holds(r)
    PROVE  OneHolder'
BY HoldsSplit DEF OneHolder

\* A step that makes r a holder while its group has no other one.
LEMMA NewHolder ==
    ASSUME OneHolder, NEW r \in Runs,
           \A s \in Runs \ {r} : HoldsNext(s) => Holds(s),
           \A s \in Runs \ {r} : GroupOf[s] = GroupOf[r] => ~Holds(s)
    PROVE  OneHolder'
BY HoldsSplit DEF OneHolder

LEMMA HolderInit == Init => OneHolder /\ PausedShutting /\ JobsUnfinished
BY NoneAssumption DEF Init, OneHolder, Holds, Open, PausedShutting, JobsUnfinished, Nothing, Fresh,
                      Unfinished

LEMMA RestorePausedJobs ==
    ASSUME JobsUnfinished, NEW idle, NEW records, NEW on, RestorePausedRuns(idle, records, on)
    PROVE  JobsUnfinished'
BY DEF RestorePausedRuns, Takable, JobsUnfinished, Nothing, Unfinished

LEMMA AsideHolder ==
    ASSUME HolderInv, Aside
    PROVE  OneHolder' /\ PausedShutting' /\ JobsUnfinished'
<1> USE DEF HolderInv
<1>1. UNCHANGED <<ledger, receipts, live, posted>>
  BY AsideSame
<1>2. OneHolder'
  BY <1>1, NoNewHolder, HoldsSplit DEF HoldsNext
<1>3. shutting => shutting'
  BY DEF Aside, Preview, Reserve, Disconnect, Shutdown, RecoveryStarts, RestoredRuns, SetAuto,
         Inspected, process
<1>4. PausedShutting'
  BY <1>1, <1>3 DEF PausedShutting
<1>5. JobsUnfinished'
  <2>1. CASE jobs' = jobs
    BY <2>1 DEF JobsUnfinished
  <2>2. CASE \E idle, records, on : RestorePausedRuns(idle, records, on)
    BY <2>2, RestorePausedJobs
  <2>3. CASE RecoveryStarts
    BY <2>3 DEF RecoveryStarts, JobsUnfinished, ToRestore
  <2> QED
    BY <2>1, <2>2, <2>3 DEF Aside, Preview, Reserve, Disconnect, Shutdown, RestoredRuns, SetAuto,
                            Inspected, process
<1> QED
  BY <1>2, <1>4, <1>5

\* Cancellations, a boot and the end of the process take holders away.
LEMMA FewerHolders ==
    ASSUME HolderInv, NEW S, ledger' \in {ledger, Withdrawn(S)},
           live' \subseteq live, posted' \subseteq posted
    PROVE  OneHolder'
<1> SUFFICES ASSUME NEW r \in Runs, HoldsNext(r) PROVE Holds(r)
  BY NoNewHolder DEF HolderInv
<1>1. ledger'[r].state \in Unfinished => ledger[r].state \in Unfinished
  BY DEF Withdrawn, HolderInv, Inv, TypeOK, Records, Unfinished
<1> QED
  BY <1>1, HoldsSplit DEF HoldsNext

LEMMA CancelHolder ==
    ASSUME HolderInv, FinishPending \/ \E r \in Runs : Cancel(r)
    PROVE  OneHolder' /\ PausedShutting' /\ JobsUnfinished'
<1>1. UNCHANGED <<live, posted, shutting, jobs>> /\ \E S : ledger' \in {ledger, Withdrawn(S)}
  BY DEF FinishPending, Cancel, FinishCancels, process
<1> QED
  BY <1>1, FewerHolders DEF HolderInv, PausedShutting, JobsUnfinished

LEMMA GoneHolder ==
    ASSUME HolderInv, Gone
    PROVE  OneHolder' /\ PausedShutting' /\ JobsUnfinished'
<1>1. UNCHANGED ledger /\ live' = {} /\ posted' = {} /\ jobs' = Nothing
  BY DEF Gone
<1> QED
  BY <1>1, FewerHolders DEF PausedShutting, JobsUnfinished, Nothing

LEMMA BootHolder ==
    ASSUME HolderInv, Boot
    PROVE  OneHolder' /\ PausedShutting' /\ JobsUnfinished'
<1>1. UNCHANGED <<live, posted, shutting, jobs>> /\ \E S : ledger' \in {ledger, Withdrawn(S)}
  BY DEF Boot, service
<1> QED
  BY <1>1, FewerHolders DEF HolderInv, PausedShutting, JobsUnfinished

LEMMA RunEndsHolder ==
    ASSUME HolderInv, NEW r \in Runs, NEW result \in Results, RunEnds(r, result)
    PROVE  OneHolder' /\ PausedShutting' /\ JobsUnfinished'
<1> USE DEF HolderInv
<1> DEFINE c == [run |-> r, result |-> result, of |-> ledger[r].generation]
<1>1. /\ r \in live /\ live' = live \ {r} /\ posted' = posted \cup {c}
      /\ UNCHANGED <<ledger, shutting, jobs>>
      /\ result = "paused" => shutting
  BY DEF RunEnds, durable, process
<1>2. OneHolder'
  <2>1. \A s \in Runs : HoldsNext(s) => Holds(s)
    BY <1>1, HoldsSplit DEF HoldsNext
  <2> QED
    BY <2>1, NoNewHolder
<1>3. PausedShutting' /\ JobsUnfinished'
  BY <1>1 DEF PausedShutting, JobsUnfinished
<1> QED
  BY <1>2, <1>3

LEMMA CompletionHolder ==
    ASSUME HolderInv, NEW c \in posted, RecordCompletion(c)
    PROVE  OneHolder' /\ PausedShutting' /\ JobsUnfinished'
<1> USE DEF HolderInv
<1>1. /\ UNCHANGED <<live, shutting>> /\ posted' = posted \ {c} /\ Record(c.run, c.result)
      /\ c.run \in Runs /\ c.result \in Results
  BY DEF RecordCompletion, Inv, TypeOK
<1>2. OneHolder'
  <2> SUFFICES ASSUME NEW s \in Runs, HoldsNext(s) PROVE Holds(s)
    BY NoNewHolder
  <2>1. CASE ledger' = ledger \/ s # c.run
    <3>1. ledger'[s] = ledger[s]
      BY <1>1, <2>1 DEF Record, Inv, TypeOK
    <3> QED
      BY <1>1, <3>1, HoldsSplit DEF HoldsNext
  <2>2. CASE ledger' = [ledger EXCEPT ![c.run].state = c.result] /\ s = c.run
    <3>1. ledger'[s].state = c.result
      BY <1>1, <2>2 DEF Inv, TypeOK, Records
    <3>2. c.result \in Unfinished => c.result = "paused"
      BY <1>1 DEF Unfinished, Results
    <3> QED
      BY <1>1, <2>2, <3>1, <3>2, HoldsSplit DEF HoldsNext
  <2> QED
    BY <1>1, <2>1, <2>2 DEF Record
<1>3. PausedShutting'
  BY <1>1 DEF PausedShutting
<1>4. JobsUnfinished'
  <2>1. CASE jobs' = jobs
    BY <2>1 DEF JobsUnfinished
  <2>2. CASE RestorePausedRuns(~recovering, ledger', auto)
    BY <2>2, RestorePausedJobs
  <2> QED
    BY <2>1, <2>2 DEF RecordCompletion
<1> QED
  BY <1>2, <1>3, <1>4

\* An admission touches one request, and makes it no holder when it fails.
LEMMA AdmitHolder ==
    ASSUME HolderInv, "start" \notin Refusals, NEW r \in Runs, NEW recovery \in BOOLEAN,
           NEW retry \in BOOLEAN, Admit(r, recovery, retry), posted' = posted
    PROVE  /\ \A s \in Runs \ {r} : HoldsNext(s) => Holds(s)
           /\ Claimable(r) \/ (HoldsNext(r) => Holds(r))
<1> USE DEF HolderInv
<1>1. \A s \in Runs \ {r} : ledger'[s] = ledger[s]
  BY AdmitEffect DEF Inv, TypeOK
<1>2. live' \subseteq live \cup {r}
  BY DEF Admit
<1>3. \A s \in Runs \ {r} : HoldsNext(s) => Holds(s)
  BY <1>1, <1>2, HoldsSplit DEF HoldsNext
<1>4. Claimable(r) \/ (HoldsNext(r) => Holds(r))
  <2>1. CASE ~Claimable(r)
    <3>1. UNCHANGED live /\ ledger'[r].state = "failed"
      BY <2>1 DEF Admit, Inv, TypeOK
    <3> QED
      BY <3>1, HoldsSplit DEF HoldsNext, Unfinished
  <2> QED
    BY <2>1
<1> QED
  BY <1>3, <1>4

\* Nobody else holds the group of an admitted request.
LEMMA AdmittedAlone ==
    ASSUME HolderInv, "start" \notin Refusals, ~shutting, NEW r \in Runs, Admit(r, FALSE, TRUE),
           posted' = posted,
           \A s \in Runs \ {r} : GroupOf[s] = GroupOf[r] => ledger[s].state \notin Unfinished
    PROVE  OneHolder'
<1> USE DEF HolderInv
<1>1. \A s \in Runs \ {r} : HoldsNext(s) => Holds(s)
  BY AdmitHolder
<1>2. CASE Claimable(r)
  <2>1. \A s \in Runs \ {r} : GroupOf[s] = GroupOf[r] => ~Holds(s)
    BY <1>2, HoldsSplit DEF Claimable, SameGroup, PausedShutting
  <2> QED
    BY <1>1, <2>1, NewHolder
<1>3. CASE HoldsNext(r) => Holds(r)
  BY <1>1, <1>3, NoNewHolder
<1> QED
  BY <1>2, <1>3, AdmitHolder

LEMMA StartHolder ==
    ASSUME HolderInv, "start" \notin Refusals, NEW k \in Commands, Start(k)
    PROVE  OneHolder' /\ PausedShutting' /\ JobsUnfinished'
<1> DEFINE p == previews[k]
           g == Scope(p)
<1>1. /\ ~shutting /\ NoConflict(g, k, {p}) /\ UNCHANGED <<shutting, posted, jobs>>
      /\ \E r \in IF p \in Runs THEN {p} ELSE NewRun(g) : Admit(r, FALSE, TRUE)
  BY DEF Start, process
<1>2. PICK r \in Runs : /\ Admit(r, FALSE, TRUE) /\ GroupOf[r] = g
                        /\ p \in Runs => r = p
  BY <1>1, NewRunFresh DEF Scope
<1>3. \A s \in Runs \ {r} : GroupOf[s] = GroupOf[r] => ledger[s].state \notin Unfinished
  BY <1>1, <1>2 DEF NoConflict
<1>4. OneHolder'
  BY <1>1, <1>2, <1>3, AdmittedAlone
<1> QED
  BY <1>1, <1>4 DEF HolderInv, PausedShutting, JobsUnfinished

LEMMA AutoHolder ==
    ASSUME HolderInv, "start" \notin Refusals, NEW r \in Runs, StartAutomatic(r)
    PROVE  OneHolder' /\ PausedShutting' /\ JobsUnfinished'
<1>1. /\ ~shutting /\ NoConflict(GroupOf[r], None, {}) /\ UNCHANGED <<shutting, posted, jobs>>
      /\ Admit(r, FALSE, TRUE)
  BY DEF StartAutomatic, process
<1>2. OneHolder'
  BY <1>1, AdmittedAlone DEF NoConflict
<1> QED
  BY <1>1, <1>2 DEF HolderInv, PausedShutting, JobsUnfinished

LEMMA RestoreHolder ==
    ASSUME HolderInv, "start" \notin Refusals, NEW r \in Runs, Restore(r)
    PROVE  OneHolder' /\ PausedShutting' /\ JobsUnfinished'
<1> USE DEF HolderInv
<1>1. /\ jobs[r] # None /\ jobs' = [jobs EXCEPT ![r] = None] /\ UNCHANGED <<posted, shutting>>
  BY DEF Restore
<1>2. PausedShutting' /\ JobsUnfinished'
  BY <1>1 DEF PausedShutting, JobsUnfinished, Inv, TypeOK
<1>3. \A s \in Runs : HoldsNext(s) => Holds(s)
  <2>1. CASE UNCHANGED <<ledger, live>>
    BY <1>1, <2>1, HoldsSplit DEF HoldsNext
  <2>2. CASE Record(r, "failed") /\ UNCHANGED live
    <3>1. \A s \in Runs : ledger'[s] = ledger[s] \/ ledger'[s].state = "failed"
      BY <2>2 DEF Record, Inv, TypeOK, Records
    <3> QED
      BY <1>1, <2>2, <3>1, HoldsSplit DEF HoldsNext, Unfinished
  <2>3. CASE CanRestore(r) /\ Admit(r, TRUE, Retried(r))
    <3>1. Holds(r)
      BY <1>1, <2>3, HoldsSplit DEF CanRestore, JobsUnfinished
    <3>2. Retried(r) \in BOOLEAN
      BY DEF Retried
    <3> QED
      BY <1>1, <2>3, <3>1, <3>2, AdmitHolder
  <2> QED
    BY <2>1, <2>2, <2>3 DEF Restore
<1> QED
  BY <1>2, <1>3, NoNewHolder

LEMMA HolderNext ==
    ASSUME "start" \notin Refusals
    PROVE  HolderInv /\ [Next]_vars => HolderInv'
<1> SUFFICES ASSUME HolderInv, [Next]_vars
             PROVE  OneHolder' /\ PausedShutting' /\ JobsUnfinished'
  BY NextInv DEF HolderInv
<1>1. CASE UNCHANGED vars
  <2>1. UNCHANGED <<ledger, live, posted, shutting, jobs>>
    BY <1>1 DEF vars, durable, process, service
  <2> QED
    BY <2>1 DEF HolderInv, OneHolder, Holds, Open, PausedShutting, JobsUnfinished
<1>2. CASE Progress
  <2>1. CASE Exit
    BY <2>1, GoneHolder DEF Exit
  <2>2. CASE FinishPending \/ RecoveryStarts \/ RestoredRuns \/ Inspected
    BY <2>2, CancelHolder, AsideHolder DEF Aside
  <2>3. CASE \E r \in Runs : Restore(r) \/ \E result \in Results : RunEnds(r, result)
    BY <2>3, RestoreHolder, RunEndsHolder
  <2>4. CASE \E c \in posted : RecordCompletion(c)
    BY <2>4, CompletionHolder
  <2> QED
    BY <1>2, <2>1, <2>2, <2>3, <2>4 DEF Progress
<1>3. CASE Shutdown \/ SetAuto \/ \E k \in Commands : Preview(k) \/ Reserve(k) \/ Disconnect(k)
  BY <1>3, AsideHolder DEF Aside
<1>4. CASE Crash \/ Boot
  BY <1>4, GoneHolder, BootHolder DEF Crash
<1>5. CASE \E k \in Commands : Start(k)
  BY <1>5, StartHolder
<1>6. CASE \E r \in Runs : StartAutomatic(r) \/ Cancel(r)
  BY <1>6, AutoHolder, CancelHolder
<1> QED
  BY <1>1, <1>2, <1>3, <1>4, <1>5, <1>6 DEF Next

\* One request at most holds a group, for any number of requests, groups and
\* clients, as long as the ledger does not refuse the failure of a start that it
\* has just accepted (_conflict, _claim_run, _record_completion).
THEOREM HolderAlone ==
    ASSUME "start" \notin Refusals
    PROVE  Spec => []OneHolder
<1>1. Init => HolderInv
  BY InitInv, HolderInit DEF HolderInv
<1>2. HolderInv /\ [Next]_vars => HolderInv'
  BY HolderNext
<1>3. HolderInv => OneHolder
  BY DEF HolderInv
<1> QED
  BY <1>1, <1>2, <1>3, PTL DEF Spec

=============================================================================
