----------------------- MODULE ProviderRequests_proofs -----------------------
(***************************************************************************)
(* The requests to the providers, for any calls, operations, budgets and   *)
(* windows: the invariant Inv is inductive.                                *)
(***************************************************************************)
EXTENDS ProviderRequests, FiniteSetTheorems, WellFoundedInduction, TLAPS

\* A request that is still ahead of its answer.
Flying(c) == job[c] \in {"queued", "admission", "sending", "saving", "leaving"}

\* A call leads once, and only itself.
LeadsOnce ==
    \A c \in Calls :
      /\ job[c] # "none" => follows[c] = c /\ pc[c] \in {"waiting", "done"}
      /\ pc[c] = "waiting" => follows[c] \in Calls

\* The key of a shared read that is under way names it; a key that is left after
\* close names a job that never began.
Registered ==
    /\ \A c \in Calls : Shared(c) /\ Flying(c) => active[KeyOf[c]] = c
    /\ \A k \in Keys : active[k] # NoCall =>
         /\ KeyOf[active[k]] = k
         /\ Flying(active[k]) \/ (closed /\ job[active[k]] = "over")

\* A request ended with a limit of its own operation, and not before it was sent.
OwnOutcome ==
    \A c \in Calls :
      /\ outcome[c] = "deadline" => Late(c)
      /\ outcome[c] = "budget" => Spent(c)
      /\ job[c] \in {"none", "queued", "admission", "sending"} => outcome[c] = "none"
      /\ job[c] = "saving" => outcome[c] \in {"response", "transport"}

\* The inductive invariant.
Inv ==
    /\ TypeOK
    /\ LeadsOnce /\ Registered /\ OwnOutcome
    /\ OwnLimits /\ BudgetKept /\ CooldownInForce

-----------------------------------------------------------------------------
(* What the steps share *)

\* A request that counts against the budget of its operation.
Charged(c) == job[c] \in {"sending", "saving"} \/ outcome[c] \in {"response", "transport"}

LEMMA BudgetByCharged ==
    /\ BudgetKept <=> \A o \in Operations :
         /\ sent[o] <= Budget[provider][o]
         /\ sent[o] = Cardinality({c \in Calls : OpOf[c] = o /\ Charged(c)})
    /\ BudgetKept' <=> \A o \in Operations :
         /\ sent'[o] <= Budget[provider'][o]
         /\ sent'[o] = Cardinality({c \in Calls : OpOf[c] = o /\ Charged(c)'})
BY DEF BudgetKept, Charged

\* A step that charges nobody.
LEMMA Uncharged ==
    ASSUME Inv, UNCHANGED <<provider, sent>>, \A c \in Calls : Charged(c)' <=> Charged(c)
    PROVE  BudgetKept'
<1>1. \A o \in Operations : {c \in Calls : OpOf[c] = o /\ Charged(c)'}
                              = {c \in Calls : OpOf[c] = o /\ Charged(c)}
  OBVIOUS
<1> QED
  BY <1>1, BudgetByCharged DEF Inv

\* The limits of an operation, once reached, stay reached.
LEMMA LimitsStay ==
    ASSUME TypeOK, provider' = provider, expired \subseteq expired',
           sent' \in [Operations -> Nat], \A o \in Operations : sent'[o] >= sent[o]
    PROVE  \A c \in Calls : (Late(c) => Late(c)') /\ (Spent(c) => Spent(c)')
BY CallsAssumption DEF TypeOK, Late, Spent

\* A key is named by one call, so a read is under way once.
LEMMA OneByKey ==
    ASSUME Registered
    PROVE  OneInFlight
BY DEF Registered, OneInFlight, Flying, Shared

LEMMA NoStale ==
    ASSUME Registered
    PROVE  NoStaleRead
BY DEF Registered, NoStaleRead, Flying

-----------------------------------------------------------------------------
(* The callers *)

\* What no step of a caller changes.
CallerFrame ==
    UNCHANGED <<provider, outcome, sent, expired, recent, cool, held, ledger, closed>>

\* A caller that leads a read makes it known before another can look.
LEMMA RequestKeeps ==
    ASSUME Inv, NEW c \in Calls, pc[c] \in {"idle", "lookup"}, RequestFuture(c)
    PROVE  Inv'
<1>1. CallerFrame /\ job[c] = "none" /\ outcome[c] = "none"
  BY DEF Inv, LeadsOnce, OwnOutcome, RequestFuture, CallerFrame
<1>2. Shared(c) => KeyOf[c] \in Keys
  BY DEF Shared, Keys
<1>3. CASE /\ Late(c) \/ ~Joins(c)
           /\ Ends(c, IF Late(c) THEN "deadline" ELSE "closed")
           /\ UNCHANGED <<follows, job, active>>
  <2>1. TypeOK'
    BY <1>1, <1>3 DEF Inv, TypeOK, CallerFrame, Ends, Answers, Failures
  <2>2. LeadsOnce'
    BY <1>1, <1>3 DEF Inv, TypeOK, LeadsOnce, Ends
  <2>3. Registered' /\ OwnOutcome' /\ CooldownInForce'
    BY <1>1, <1>3 DEF Inv, CallerFrame, Registered, Flying, OwnOutcome, Late, Spent,
                      CooldownInForce
  <2>4. OwnLimits'
    BY <1>1, <1>3 DEF Inv, TypeOK, CallerFrame, Ends, OwnLimits, Late, Spent
  <2>5. BudgetKept'
    BY <1>1, <1>3, Uncharged DEF CallerFrame, Charged
  <2> QED
    BY <2>1, <2>2, <2>3, <2>4, <2>5 DEF Inv
<1>4. CASE /\ Joins(c)
           /\ pc' = [pc EXCEPT ![c] = "waiting"]
           /\ follows' = [follows EXCEPT ![c] = active[KeyOf[c]]]
           /\ UNCHANGED <<job, active, answer>>
  <2>1. active[KeyOf[c]] \in Calls
    BY <1>2, <1>4 DEF Inv, TypeOK, Joins
  <2>2. TypeOK'
    BY <1>1, <1>4, <2>1 DEF Inv, TypeOK, CallerFrame
  <2>3. LeadsOnce'
    BY <1>1, <1>4, <2>1 DEF Inv, TypeOK, LeadsOnce
  <2>4. Registered' /\ OwnOutcome' /\ CooldownInForce' /\ OwnLimits'
    BY <1>1, <1>4 DEF Inv, CallerFrame, Registered, Flying, OwnOutcome, Late, Spent,
                      CooldownInForce, OwnLimits
  <2>5. BudgetKept'
    BY <1>1, <1>4, Uncharged DEF CallerFrame, Charged
  <2> QED
    BY <2>2, <2>3, <2>4, <2>5 DEF Inv
<1>5. CASE /\ ~Joins(c)
           /\ pc' = [pc EXCEPT ![c] = "waiting"]
           /\ follows' = [follows EXCEPT ![c] = c]
           /\ job' = [job EXCEPT ![c] = IF IsTimed(c) THEN "queued" ELSE "admission"]
           /\ active' = IF Shared(c) THEN [active EXCEPT ![KeyOf[c]] = c] ELSE active
           /\ UNCHANGED answer
  <2>1. TypeOK'
    BY <1>1, <1>2, <1>5 DEF Inv, TypeOK, CallerFrame, Jobs
  <2>2. /\ \A d \in Calls \ {c} : job'[d] = job[d]
        /\ job'[c] \in {"queued", "admission"}
    BY <1>5 DEF Inv, TypeOK
  <2>3. LeadsOnce'
    BY <1>1, <1>5, <2>2 DEF Inv, TypeOK, LeadsOnce
  <2>4. Registered'
    <3>1. CASE Shared(c)
      <4>1. active[KeyOf[c]] = NoCall
        BY <1>5, <3>1 DEF Joins
      <4>2. \A k \in Keys : active'[k] = IF k = KeyOf[c] THEN c ELSE active[k]
        BY <1>5, <3>1 DEF Inv, TypeOK
      <4>3. \A d \in Calls \ {c} : Shared(d) /\ Flying(d) =>
              KeyOf[d] # KeyOf[c] /\ KeyOf[d] \in Keys
        BY <4>1, CallsAssumption DEF Inv, Registered, Shared, Keys
      <4>4. \A d \in Calls \ {c} : Flying(d)' <=> Flying(d)
        BY <2>2 DEF Flying
      <4>5. \A d \in Calls : Shared(d) /\ Flying(d)' => active'[KeyOf[d]] = d
        BY <1>2, <3>1, <4>2, <4>3, <4>4 DEF Inv, Registered
      <4>6. Flying(c)'
        BY <2>2 DEF Flying
      <4>7. ASSUME NEW k \in Keys, active'[k] # NoCall
            PROVE  /\ KeyOf[active'[k]] = k
                   /\ Flying(active[k])' \/ (closed' /\ job'[active'[k]] = "over")
        <5>1. CASE k = KeyOf[c]
          BY <4>2, <4>6, <5>1 DEF Flying
        <5>2. CASE k # KeyOf[c]
          <6>1. active'[k] = active[k] /\ active[k] \in Calls \ {c}
            BY <1>1, <4>2, <4>7, <5>2 DEF Inv, TypeOK, Registered, Flying
          <6> QED
            BY <1>1, <2>2, <4>7, <6>1 DEF Inv, Registered, Flying, CallerFrame
        <5> QED
          BY <5>1, <5>2
      <4> QED
        BY <4>5, <4>7 DEF Registered, Shared
    <3>2. CASE ~Shared(c)
      <4>1. active' = active /\ \A k \in Keys : active[k] # c
        BY <1>5, <3>2, CallsAssumption DEF Inv, Registered, Shared, Keys
      <4> QED
        BY <1>1, <2>2, <3>2, <4>1 DEF Inv, TypeOK, Registered, Flying, Shared, CallerFrame
    <3> QED
      BY <3>1, <3>2
  <2>5. OwnOutcome' /\ CooldownInForce' /\ OwnLimits'
    BY <1>1, <1>5, <2>2 DEF Inv, CallerFrame, OwnOutcome, Late, Spent, CooldownInForce, OwnLimits
  <2>6. BudgetKept'
    <3>1. \A d \in Calls : Charged(d)' <=> Charged(d)
      BY <1>1, <2>2 DEF CallerFrame, Charged
    <3> QED
      BY <1>1, <3>1, Uncharged DEF CallerFrame
  <2> QED
    BY <2>1, <2>3, <2>4, <2>5, <2>6 DEF Inv
<1> QED
  BY <1>3, <1>4, <1>5 DEF RequestFuture

LEMMA WaitKeeps ==
    ASSUME Inv, NEW c \in Calls, WaitResponse(c) \/ GiveUp(c)
    PROVE  Inv'
<1>1. /\ CallerFrame /\ UNCHANGED <<follows, job, active>>
      /\ pc[c] = "waiting" /\ follows[c] \in Calls
  BY DEF Inv, LeadsOnce, WaitResponse, GiveUp, CallerFrame
<1>2. Registered' /\ OwnOutcome' /\ CooldownInForce'
  BY <1>1 DEF Inv, CallerFrame, Registered, Flying, OwnOutcome, Late, Spent, CooldownInForce
<1>3. BudgetKept'
  BY <1>1, Uncharged DEF CallerFrame, Charged
<1>4. ASSUME NEW a \in Answers, Ends(c, a), a = "deadline" => Late(c), a = "budget" => Spent(c)
      PROVE  Inv'
  <2>1. TypeOK'
    BY <1>1, <1>4 DEF Inv, TypeOK, CallerFrame, Ends
  <2>2. LeadsOnce'
    BY <1>1, <1>4 DEF Inv, TypeOK, LeadsOnce, Ends
  <2>3. OwnLimits'
    BY <1>1, <1>4 DEF Inv, TypeOK, CallerFrame, Ends, OwnLimits, Late, Spent
  <2> QED
    BY <1>2, <1>3, <2>1, <2>2, <2>3 DEF Inv
<1>5. CASE Ends(c, outcome[follows[c]]) /\ ~OthersLimit(c)
  <2>1. outcome[follows[c]] \in Answers
    BY <1>1 DEF Inv, TypeOK
  <2>2. /\ outcome[follows[c]] = "deadline" => Late(c)
        /\ outcome[follows[c]] = "budget" => Spent(c)
    BY <1>5 DEF Inv, OwnOutcome, OthersLimit
  <2> QED
    BY <1>4, <1>5, <2>1, <2>2
<1>6. CASE (Late(c) \/ Spent(c)) /\ Ends(c, IF Late(c) THEN "deadline" ELSE "budget")
  BY <1>4, <1>6 DEF Answers, Failures
<1>7. CASE OthersLimit(c) /\ pc' = [pc EXCEPT ![c] = "lookup"] /\ answer' = answer
  <2>1. job[c] = "none"
    BY <1>7 DEF Inv, LeadsOnce, OthersLimit
  <2>2. TypeOK'
    BY <1>1, <1>7 DEF Inv, TypeOK, CallerFrame
  <2>3. LeadsOnce'
    BY <1>1, <1>7, <2>1 DEF Inv, TypeOK, LeadsOnce
  <2>4. OwnLimits'
    BY <1>1, <1>7 DEF Inv, CallerFrame, OwnLimits, Late, Spent
  <2> QED
    BY <1>2, <1>3, <2>2, <2>3, <2>4 DEF Inv
<1>8. CASE Late(c) /\ Ends(c, "deadline")
  BY <1>4, <1>8 DEF Answers, Failures
<1> QED
  BY <1>5, <1>6, <1>7, <1>8 DEF WaitResponse, GiveUp

-----------------------------------------------------------------------------
(* The jobs *)

\* What no step of a job changes.
JobFrame == UNCHANGED <<provider, pc, follows, answer, expired, closed>>

\* A job that goes on, and the read it is for with it.
LEMMA JobKeeps ==
    ASSUME Inv, NEW c \in Calls, NEW j \in Jobs \ {"none"}, NEW a \in Answers,
           job' = [job EXCEPT ![c] = j], outcome' = [outcome EXCEPT ![c] = a], JobFrame,
           job[c] # "none",
           a = "deadline" => Late(c), a = "budget" => Spent(c),
           j \in {"queued", "admission", "sending"} => a = "none",
           j = "saving" => a \in {"response", "transport"},
           sent' \in [Operations -> Nat], \A o \in Operations : sent'[o] >= sent[o]
    PROVE  /\ job' \in [Calls -> Jobs] /\ outcome' \in [Calls -> Answers]
           /\ LeadsOnce' /\ OwnOutcome' /\ OwnLimits'
<1>1. /\ \A d \in Calls : job'[d] = IF d = c THEN j ELSE job[d]
      /\ \A d \in Calls : outcome'[d] = IF d = c THEN a ELSE outcome[d]
      /\ job' \in [Calls -> Jobs] /\ outcome' \in [Calls -> Answers]
  BY DEF Inv, TypeOK
<1>2. \A d \in Calls : (Late(d) => Late(d)') /\ (Spent(d) => Spent(d)')
  BY LimitsStay DEF Inv, JobFrame
<1>3. LeadsOnce'
  BY <1>1 DEF Inv, LeadsOnce, JobFrame
<1>4. OwnOutcome'
  BY <1>1, <1>2 DEF Inv, OwnOutcome
<1>5. OwnLimits'
  BY <1>2 DEF Inv, OwnLimits, JobFrame
<1> QED
  BY <1>1, <1>3, <1>4, <1>5

\* While a read is under way its key stays.
LEMMA FlyingKeeps ==
    ASSUME Inv, UNCHANGED <<active, closed>>,
           \A d \in Calls : Flying(d)' <=> Flying(d),
           \A d \in Calls : job[d] = "over" => job'[d] = "over"
    PROVE  Registered'
BY DEF Inv, TypeOK, Registered, Flying

\* Queued, waiting for the owner, or about to set its result.
LEMMA PassesKeep ==
    ASSUME Inv, NEW c \in Calls, NEW j \in Jobs \ {"none"},
           job' = [job EXCEPT ![c] = j], outcome' = outcome, JobFrame,
           UNCHANGED <<active, sent, recent, cool>>,
           held' \in [Calls -> Nat], ledger' \in Nat, CooldownInForce',
           \/ job[c] = "queued" /\ j = "admission"
           \/ job[c] = "saving" /\ j = "leaving" /\ outcome[c] \in {"response", "transport"}
           \/ job[c] = "left" /\ j = "over"
    PROVE  Inv'
<1>1. \A d \in Calls : job'[d] = IF d = c THEN j ELSE job[d]
  BY DEF Inv, TypeOK
<1>2. outcome' = [outcome EXCEPT ![c] = outcome[c]] /\ outcome[c] \in Answers
  BY DEF Inv, TypeOK
<1>3. /\ sent' \in [Operations -> Nat] /\ \A o \in Operations : sent'[o] >= sent[o]
      /\ outcome[c] = "deadline" => Late(c)
      /\ outcome[c] = "budget" => Spent(c)
      /\ j \in {"queued", "admission", "sending"} => outcome[c] = "none"
  BY DEF Inv, TypeOK, OwnOutcome
<1>4. LeadsOnce' /\ OwnOutcome' /\ OwnLimits'
  BY <1>2, <1>3, JobKeeps
<1>5. TypeOK'
  BY <1>2, <1>3, JobKeeps DEF Inv, TypeOK, JobFrame
<1>6. Registered'
  <2>1. CASE j = "over"
    BY <1>1, <2>1, CallsAssumption DEF Inv, TypeOK, Registered, Flying, JobFrame
  <2>2. CASE j # "over"
    BY <1>1, <2>2, FlyingKeeps DEF JobFrame, Flying
  <2> QED
    BY <2>1, <2>2
<1>7. BudgetKept'
  <2>1. \A d \in Calls : Charged(d)' <=> Charged(d)
    BY <1>1 DEF Charged
  <2> QED
    BY <2>1, Uncharged DEF JobFrame
<1> QED
  BY <1>4, <1>5, <1>6, <1>7 DEF Inv

LEMMA StartKeeps ==
    ASSUME Inv, NEW c \in Calls, StartJob(c)
    PROVE  Inv'
<1>1. /\ job[c] = "queued" /\ job' = [job EXCEPT ![c] = "admission"] /\ JobFrame
      /\ UNCHANGED <<outcome, active, sent, recent, cool, held, ledger>>
  BY DEF StartJob, JobFrame
<1>2. held' \in [Calls -> Nat] /\ ledger' \in Nat /\ CooldownInForce'
  BY <1>1 DEF Inv, TypeOK, CooldownInForce
<1> QED
  BY <1>1, <1>2, PassesKeep DEF Jobs

LEMMA SetResultKeeps ==
    ASSUME Inv, NEW c \in Calls, SetResult(c)
    PROVE  Inv'
<1>1. /\ job[c] = "left" /\ job' = [job EXCEPT ![c] = "over"] /\ JobFrame
      /\ UNCHANGED <<outcome, active, sent, recent, cool, held, ledger>>
  BY DEF SetResult, JobFrame
<1>2. held' \in [Calls -> Nat] /\ ledger' \in Nat /\ CooldownInForce'
  BY <1>1 DEF Inv, TypeOK, CooldownInForce
<1> QED
  BY <1>1, <1>2, PassesKeep DEF Jobs

\* A job is charged as it begins to send, under the lock that looked.
LEMMA AdmitKeeps ==
    ASSUME Inv, NEW c \in Calls, Admit(c)
    PROVE  Inv'
<1>1. /\ job[c] = "admission" /\ outcome[c] = "none" /\ OpOf[c] \in Operations
      /\ JobFrame /\ UNCHANGED <<active, cool, held, ledger>>
  BY CallsAssumption DEF Inv, OwnOutcome, Admit, JobFrame
<1>2. CooldownInForce'
  BY <1>1 DEF Inv, CooldownInForce
<1>3. CASE \E a \in {"deadline", "cooldown", "budget"} :
             /\ a = "deadline" => Late(c)
             /\ a = "budget" => Spent(c)
             /\ job' = [job EXCEPT ![c] = "leaving"]
             /\ outcome' = [outcome EXCEPT ![c] = a]
             /\ UNCHANGED <<sent, recent>>
  <2> PICK a \in {"deadline", "cooldown", "budget"} :
         /\ a = "deadline" => Late(c)
         /\ a = "budget" => Spent(c)
         /\ job' = [job EXCEPT ![c] = "leaving"]
         /\ outcome' = [outcome EXCEPT ![c] = a]
         /\ UNCHANGED <<sent, recent>>
    BY <1>3
  <2>1. /\ \A d \in Calls : job'[d] = IF d = c THEN "leaving" ELSE job[d]
        /\ \A d \in Calls : outcome'[d] = IF d = c THEN a ELSE outcome[d]
    BY DEF Inv, TypeOK
  <2>2. sent' \in [Operations -> Nat] /\ \A o \in Operations : sent'[o] >= sent[o]
    BY DEF Inv, TypeOK
  <2>3. /\ job' \in [Calls -> Jobs] /\ outcome' \in [Calls -> Answers]
        /\ LeadsOnce' /\ OwnOutcome' /\ OwnLimits'
    <3>1. a \in Answers /\ "leaving" \in Jobs \ {"none"}
      BY DEF Answers, Failures, Jobs
    <3> QED
      BY <1>1, <2>2, <3>1, JobKeeps
  <2>4. TypeOK'
    BY <1>1, <2>3 DEF Inv, TypeOK, JobFrame
  <2>5. Registered'
    BY <1>1, <2>1, FlyingKeeps DEF JobFrame, Flying
  <2>6. BudgetKept'
    <3>1. \A d \in Calls : Charged(d)' <=> Charged(d)
      BY <1>1, <2>1 DEF Charged
    <3> QED
      BY <1>1, <3>1, Uncharged DEF JobFrame
  <2> QED
    BY <1>2, <2>3, <2>4, <2>5, <2>6 DEF Inv
<1>4. CASE /\ ~Spent(c)
           /\ job' = [job EXCEPT ![c] = "sending"]
           /\ sent' = [sent EXCEPT ![OpOf[c]] = @ + 1]
           /\ recent' = Append(recent, 0)
           /\ outcome' = outcome
  <2>1. /\ \A d \in Calls : job'[d] = IF d = c THEN "sending" ELSE job[d]
        /\ outcome' = [outcome EXCEPT ![c] = "none"]
    BY <1>1, <1>4 DEF Inv, TypeOK
  <2>2. /\ \A o \in Operations : sent'[o] = IF o = OpOf[c] THEN sent[o] + 1 ELSE sent[o]
        /\ sent' \in [Operations -> Nat] /\ \A o \in Operations : sent'[o] >= sent[o]
    BY <1>1, <1>4 DEF Inv, TypeOK
  <2>3. /\ job' \in [Calls -> Jobs] /\ outcome' \in [Calls -> Answers]
        /\ LeadsOnce' /\ OwnOutcome' /\ OwnLimits'
    <3>1. "none" \in Answers /\ "sending" \in Jobs \ {"none"}
      BY DEF Answers, Jobs
    <3> QED
      BY <1>1, <1>4, <2>1, <2>2, <3>1, JobKeeps
  <2>4. TypeOK'
    <3>1. recent' \in Seq(Nat)
      BY <1>4 DEF Inv, TypeOK
    <3> QED
      BY <1>1, <2>2, <2>3, <3>1 DEF Inv, TypeOK, JobFrame
  <2>5. Registered'
    BY <1>1, <2>1, FlyingKeeps DEF JobFrame, Flying
  <2>6. BudgetKept'
    <3>1. /\ \A d \in Calls \ {c} : Charged(d)' <=> Charged(d)
          /\ Charged(c)' /\ ~Charged(c)
      BY <1>1, <1>4, <2>1 DEF Charged
    <3>2. ASSUME NEW o \in Operations
          PROVE  /\ sent'[o] <= Budget[provider][o]
                 /\ sent'[o] = Cardinality({d \in Calls : OpOf[d] = o /\ Charged(d)'})
      <4> DEFINE before == {d \in Calls : OpOf[d] = o /\ Charged(d)}
                 after == {d \in Calls : OpOf[d] = o /\ Charged(d)'}
      <4>1. sent[o] <= Budget[provider][o] /\ sent[o] = Cardinality(before)
        BY BudgetByCharged DEF Inv
      <4>2. IsFiniteSet(before)
        BY CallsAssumption, FS_Subset
      <4>3. Budget[provider][o] \in Nat /\ sent[o] \in Nat
        BY CallsAssumption DEF Inv, TypeOK
      <4>4. CASE o = OpOf[c]
        <5>1. after = before \cup {c} /\ c \notin before
          BY <3>1, <4>4
        <5>2. Cardinality(after) = Cardinality(before) + 1
          BY <4>2, <5>1, FS_AddElement
        <5>3. sent[o] < Budget[provider][o]
          BY <1>4, <4>3, <4>4 DEF Spent
        <5> QED
          BY <2>2, <4>1, <4>3, <4>4, <5>2, <5>3
      <4>5. CASE o # OpOf[c]
        <5>1. after = before
          BY <3>1, <4>5
        <5> QED
          BY <2>2, <4>1, <4>5, <5>1
      <4> QED
        BY <4>4, <4>5
    <3> QED
      BY <1>1, <3>2, BudgetByCharged DEF JobFrame
  <2> QED
    BY <1>2, <2>3, <2>4, <2>5, <2>6 DEF Inv
<1> QED
  BY <1>3, <1>4 DEF Admit, Chargeable

LEMMA AnswerKeeps ==
    ASSUME Inv, NEW c \in Calls, NEW d \in Cooldowns[provider],
           NEW a \in {"response", "transport"}, Answer(c, d, a)
    PROVE  Inv'
<1>1. /\ job[c] = "sending" /\ outcome' = [outcome EXCEPT ![c] = a]
      /\ JobFrame /\ UNCHANGED <<active, sent, recent, ledger>>
  BY DEF Answer, JobFrame
<1>2. d \in Nat
  BY CallsAssumption DEF Inv, TypeOK
<1>3. PICK j \in {"leaving", "saving"} : job' = [job EXCEPT ![c] = j]
  BY DEF Answer
<1>4. cool' \in Nat /\ held' \in [Calls -> Nat] /\ CooldownInForce'
  <2>1. CASE UNCHANGED <<cool, held>>
    BY <1>1, <2>1 DEF Inv, TypeOK, CooldownInForce
  <2>2. CASE cool' = Longer(d) /\ held' = [held EXCEPT ![c] = Longer(d)]
    <3>1. Longer(d) \in Nat /\ Longer(d) >= cool
      BY <1>2 DEF Inv, TypeOK, Longer
    <3> QED
      BY <1>1, <2>2, <3>1 DEF Inv, TypeOK, CooldownInForce
  <2> QED
    BY <2>1, <2>2 DEF Answer
<1>5. /\ \A e \in Calls : job'[e] = IF e = c THEN j ELSE job[e]
      /\ \A e \in Calls : outcome'[e] = IF e = c THEN a ELSE outcome[e]
  BY <1>1, <1>3 DEF Inv, TypeOK
<1>6. /\ job' \in [Calls -> Jobs] /\ outcome' \in [Calls -> Answers]
      /\ LeadsOnce' /\ OwnOutcome' /\ OwnLimits'
  <2>1. a \in Answers /\ j \in Jobs \ {"none"}
    BY DEF Answers, Failures, Jobs
  <2>2. sent' \in [Operations -> Nat] /\ \A o \in Operations : sent'[o] >= sent[o]
    BY <1>1 DEF Inv, TypeOK
  <2> QED
    BY <1>1, <1>3, <2>1, <2>2, JobKeeps
<1>7. TypeOK'
  BY <1>1, <1>4, <1>6 DEF Inv, TypeOK, JobFrame
<1>8. Registered'
  BY <1>1, <1>5, FlyingKeeps DEF JobFrame, Flying
<1>9. BudgetKept'
  <2>1. \A e \in Calls : Charged(e)' <=> Charged(e)
    BY <1>1, <1>5 DEF Charged
  <2> QED
    BY <1>1, <2>1, Uncharged DEF JobFrame
<1> QED
  BY <1>4, <1>6, <1>7, <1>8, <1>9 DEF Inv

\* The deadline in the ledger is one that was in force.
LEMMA HandOverKeeps ==
    ASSUME Inv, NEW c \in Calls, HandOver(c)
    PROVE  Inv'
<1>1. /\ job[c] = "saving" /\ job' = [job EXCEPT ![c] = "leaving"] /\ JobFrame
      /\ ledger' = held[c] /\ held' = [held EXCEPT ![c] = 0]
      /\ UNCHANGED <<outcome, active, sent, recent, cool>>
  BY DEF HandOver, JobFrame
<1>2. held' \in [Calls -> Nat] /\ ledger' \in Nat /\ CooldownInForce'
  BY <1>1 DEF Inv, TypeOK, CooldownInForce
<1>3. outcome[c] \in {"response", "transport"}
  BY <1>1 DEF Inv, OwnOutcome
<1> QED
  BY <1>1, <1>2, <1>3, PassesKeep DEF Jobs

\* The key goes before the result is set.
LEMMA LeaveKeeps ==
    ASSUME Inv, NEW c \in Calls, Leave(c)
    PROVE  Inv'
<1>1. /\ job[c] = "leaving" /\ job' = [job EXCEPT ![c] = "left"]
      /\ active' = IF Shared(c) THEN [active EXCEPT ![KeyOf[c]] = NoCall] ELSE active
      /\ JobFrame /\ UNCHANGED <<outcome, sent, recent, cool, held, ledger>>
  BY DEF Leave, Leaves, JobFrame
<1>2. /\ \A d \in Calls : job'[d] = IF d = c THEN "left" ELSE job[d]
      /\ outcome' = [outcome EXCEPT ![c] = outcome[c]] /\ outcome[c] \in Answers
  BY <1>1 DEF Inv, TypeOK
<1>3. /\ sent' \in [Operations -> Nat] /\ \A o \in Operations : sent'[o] >= sent[o]
      /\ outcome[c] = "deadline" => Late(c)
      /\ outcome[c] = "budget" => Spent(c)
  BY <1>1 DEF Inv, TypeOK, OwnOutcome
<1>4. /\ job' \in [Calls -> Jobs] /\ outcome' \in [Calls -> Answers]
      /\ LeadsOnce' /\ OwnOutcome' /\ OwnLimits'
  <2>1. "left" \in Jobs \ {"none"}
    BY DEF Jobs
  <2> QED
    BY <1>1, <1>2, <1>3, <2>1, JobKeeps
<1>5. Shared(c) => KeyOf[c] \in Keys
  BY DEF Shared, Keys
<1>6. active' \in [Keys -> Calls \cup {NoCall}]
  BY <1>1, <1>5 DEF Inv, TypeOK
<1>7. TypeOK'
  BY <1>1, <1>4, <1>6 DEF Inv, TypeOK, JobFrame
<1>8. Registered'
  <2>1. Flying(c) /\ ~Flying(c)' /\ \A d \in Calls \ {c} : Flying(d)' <=> Flying(d)
    BY <1>1, <1>2 DEF Flying
  <2>2. \A k \in Keys : active'[k] = IF Shared(c) /\ k = KeyOf[c] THEN NoCall ELSE active[k]
    BY <1>1, <1>5 DEF Inv, TypeOK
  <2>3. ASSUME NEW d \in Calls, Shared(d), Flying(d)'
        PROVE  active'[KeyOf[d]] = d
    <3>1. d # c /\ active[KeyOf[d]] = d /\ KeyOf[d] \in Keys
      BY <2>1, <2>3 DEF Inv, Registered, Shared, Keys
    <3>2. Shared(c) => active[KeyOf[c]] = c
      BY <2>1 DEF Inv, Registered
    <3> QED
      BY <2>2, <3>1, <3>2
  <2>4. ASSUME NEW k \in Keys, active'[k] # NoCall
        PROVE  /\ KeyOf[active'[k]] = k
               /\ Flying(active[k])' \/ (closed' /\ job'[active'[k]] = "over")
    <3>1. active'[k] = active[k] /\ active[k] \in Calls /\ KeyOf[active[k]] = k
      BY <2>2, <2>4 DEF Inv, TypeOK, Registered
    <3>2. active[k] # c
      BY <2>2, <2>4, <3>1 DEF Shared, Keys
    <3> QED
      BY <1>1, <1>2, <2>1, <2>4, <3>1, <3>2 DEF Inv, Registered, JobFrame
  <2>5. \A k \in Keys : Flying(active[k])' <=> job'[active'[k]] \in
          {"queued", "admission", "sending", "saving", "leaving"}
    BY DEF Flying
  <2>6. \A d \in Calls : Shared(d)' <=> Shared(d)
    BY DEF Shared
  <2> QED
    BY <2>3, <2>4, <2>6 DEF Registered
<1>9. BudgetKept'
  <2>1. \A d \in Calls : Charged(d)' <=> Charged(d)
    BY <1>1, <1>2 DEF Charged
  <2> QED
    BY <1>1, <2>1, Uncharged DEF JobFrame
<1>10. CooldownInForce'
  BY <1>1 DEF Inv, CooldownInForce
<1> QED
  BY <1>4, <1>7, <1>8, <1>9, <1>10 DEF Inv

-----------------------------------------------------------------------------
(* Time and close *)

LEMMA ExpireKeeps ==
    ASSUME Inv, NEW o \in Operations, Expire(o)
    PROVE  Inv'
<1>1. /\ expired' = expired \cup {o} /\ o \in Timed
      /\ UNCHANGED <<provider, pc, follows, answer, job, outcome, active, sent,
                     recent, cool, held, ledger, closed>>
  BY DEF Expire
<1>2. \A c \in Calls : (Late(c) => Late(c)') /\ (Spent(c)' <=> Spent(c))
  BY <1>1 DEF Late, Spent
<1>3. TypeOK' /\ LeadsOnce' /\ CooldownInForce'
  BY <1>1 DEF Inv, TypeOK, LeadsOnce, CooldownInForce
<1>4. Registered'
  BY <1>1 DEF Inv, Registered, Flying
<1>5. OwnOutcome' /\ OwnLimits'
  BY <1>1, <1>2 DEF Inv, OwnOutcome, OwnLimits
<1>6. BudgetKept'
  BY <1>1, Uncharged DEF Charged
<1> QED
  BY <1>3, <1>4, <1>5, <1>6 DEF Inv

LEMMA TickKeeps ==
    ASSUME Inv, Tick
    PROVE  Inv'
<1>1. /\ recent' = [i \in DOMAIN recent |->
                      IF Limits[provider] = {} \/ recent[i] >= Longest
                      THEN recent[i] ELSE recent[i] + 1]
      /\ cool' = Older(cool) /\ held' = [c \in Calls |-> Older(held[c])]
      /\ ledger' = Older(ledger)
      /\ UNCHANGED <<provider, pc, follows, answer, job, outcome, active, sent,
                     expired, closed>>
  BY DEF Tick
<1>2. \A m, n \in Nat : Older(n) \in Nat /\ (m <= n => Older(m) <= Older(n))
  BY DEF Older
<1>3. recent' \in Seq(Nat)
  <2>1. recent \in Seq(Nat)
    BY DEF Inv, TypeOK
  <2>2. /\ Len(recent) \in Nat /\ DOMAIN recent = 1 .. Len(recent)
        /\ \A i \in 1 .. Len(recent) : recent[i] \in Nat
    BY <2>1
  <2>3. recent' \in [1 .. Len(recent) -> Nat]
    <3> HIDE DEF Longest
    <3> QED
      BY <1>1, <2>2
  <2> QED
    BY <2>2, <2>3
<1>4. TypeOK'
  BY <1>1, <1>2, <1>3 DEF Inv, TypeOK
<1>5. LeadsOnce' /\ OwnLimits' /\ OwnOutcome'
  BY <1>1 DEF Inv, LeadsOnce, OwnLimits, OwnOutcome, Late, Spent
<1>6. Registered'
  BY <1>1 DEF Inv, Registered, Flying
<1>7. CooldownInForce'
  BY <1>1, <1>2 DEF Inv, TypeOK, CooldownInForce
<1>8. BudgetKept'
  BY <1>1, Uncharged DEF Charged
<1> QED
  BY <1>4, <1>5, <1>6, <1>7, <1>8 DEF Inv

\* The reads no thread had taken keep their keys, and lead no more.
LEMMA CloseKeeps ==
    ASSUME Inv, Close
    PROVE  Inv'
<1>1. /\ ~closed /\ closed' = TRUE
      /\ job' = [c \in Calls |-> IF job[c] = "queued" THEN "over" ELSE job[c]]
      /\ outcome' = [c \in Calls |-> IF job[c] = "queued" THEN "closed" ELSE outcome[c]]
      /\ UNCHANGED <<provider, pc, follows, answer, active, sent, expired, recent,
                     cool, held, ledger>>
  BY DEF Close
<1>2. TypeOK'
  <2>1. job' \in [Calls -> Jobs]
    BY <1>1 DEF Inv, TypeOK, Jobs
  <2>2. outcome' \in [Calls -> Answers]
    BY <1>1 DEF Inv, TypeOK, Answers, Failures
  <2> QED
    BY <1>1, <2>1, <2>2 DEF Inv, TypeOK
<1>3. LeadsOnce' /\ CooldownInForce'
  BY <1>1 DEF Inv, LeadsOnce, CooldownInForce
<1>4. Registered'
  BY <1>1 DEF Inv, TypeOK, Registered, Flying
<1>5. OwnOutcome' /\ OwnLimits'
  BY <1>1 DEF Inv, OwnOutcome, OwnLimits, Late, Spent
<1>6. BudgetKept'
  <2>1. \A c \in Calls : Charged(c)' <=> Charged(c)
    BY <1>1 DEF Inv, OwnOutcome, Charged
  <2> QED
    BY <1>1, <2>1, Uncharged
<1> QED
  BY <1>2, <1>3, <1>4, <1>5, <1>6 DEF Inv

-----------------------------------------------------------------------------
(* The theorems *)

LEMMA InitInv == Init => Inv
<1> SUFFICES ASSUME Init PROVE Inv
  OBVIOUS
<1>1. TypeOK
  <2>1. recent \in Seq(Nat) /\ closed \in BOOLEAN
    <3>1. recent = << >> /\ closed = FALSE
      BY DEF Init
    <3>2. recent \in Seq(Nat)
      BY <3>1
    <3> QED
      BY <3>1, <3>2
  <2>2. sent \in [Operations -> Nat] /\ cool \in Nat /\ held \in [Calls -> Nat] /\ ledger \in Nat
    BY DEF Init
  <2>3. active \in [Keys -> Calls \cup {NoCall}] /\ follows \in [Calls -> Calls \cup {NoCall}]
    BY DEF Init
  <2> QED
    BY <2>1, <2>2, <2>3 DEF Init, TypeOK, Answers, Failures, Jobs
<1>2. LeadsOnce /\ Registered /\ OwnOutcome /\ OwnLimits /\ CooldownInForce
  BY DEF Init, LeadsOnce, Registered, Flying, OwnOutcome, OwnLimits, CooldownInForce
<1>3. BudgetKept
  <2>1. \A o \in Operations : {c \in Calls : OpOf[c] = o /\ Charged(c)} = {}
    BY DEF Init, Charged
  <2>2. \A o \in Operations : sent[o] = 0 /\ 0 <= Budget[provider][o]
    BY CallsAssumption DEF Init
  <2> QED
    BY <2>1, <2>2, BudgetByCharged, FS_EmptySet
<1> QED
  BY <1>1, <1>2, <1>3 DEF Inv

LEMMA NextInv == Inv /\ [Next]_vars => Inv'
<1> SUFFICES ASSUME Inv, [Next]_vars PROVE Inv'
  OBVIOUS
<1>1. ASSUME NEW c \in Calls, Call(c) \/ Caller(c)
      PROVE  Inv'
  BY <1>1, RequestKeeps, WaitKeeps DEF Call, Caller, LookAgain
<1>2. ASSUME NEW c \in Calls, Perform(c)
      PROVE  Inv'
  BY <1>2, StartKeeps, AdmitKeeps, HandOverKeeps, LeaveKeeps, SetResultKeeps, AnswerKeeps
  DEF Perform
<1>3. CASE Tick \/ Close \/ \E o \in Operations : Expire(o)
  BY <1>3, TickKeeps, CloseKeeps, ExpireKeeps
<1>4. CASE UNCHANGED vars
  <2>1. TypeOK' /\ LeadsOnce' /\ OwnOutcome' /\ OwnLimits' /\ CooldownInForce'
    BY <1>4 DEF Inv, vars, TypeOK, LeadsOnce, OwnOutcome, OwnLimits, CooldownInForce,
                Late, Spent
  <2>2. Registered'
    BY <1>4 DEF Inv, vars, Registered, Flying
  <2>3. BudgetKept'
    BY <1>4, Uncharged DEF vars, Charged
  <2> QED
    BY <2>1, <2>2, <2>3 DEF Inv
<1> QED
  BY <1>1, <1>2, <1>3, <1>4 DEF Next, Progress

\* The invariant holds in every reachable state.
THEOREM Invariance == Spec => []Inv
<1> QED
  BY InitInv, NextInv, PTL DEF Spec

\* Every variable has its type.
THEOREM TypeCorrect == Spec => []TypeOK
<1>1. Inv => TypeOK
  BY DEF Inv
<1> QED
  BY <1>1, Invariance, PTL

\* Nobody fails for the deadline or the budget of another operation (OwnLimits).
THEOREM LimitsOwn == Spec => []OwnLimits
<1>1. Inv => OwnLimits
  BY DEF Inv
<1> QED
  BY <1>1, Invariance, PTL

\* A shared read is under way at most once (OneInFlight).
THEOREM ReadsShared == Spec => []OneInFlight
<1>1. Inv => OneInFlight
  BY OneByKey DEF Inv
<1> QED
  BY <1>1, Invariance, PTL

\* Nobody joins a read that has ended (NoStaleRead).
THEOREM ReadsFresh == Spec => []NoStaleRead
<1>1. Inv => NoStaleRead
  BY NoStale DEF Inv
<1> QED
  BY <1>1, Invariance, PTL

\* No deadline of a provider is forgotten (CooldownInForce).
THEOREM CooldownsKept == Spec => []CooldownInForce
<1>1. Inv => CooldownInForce
  BY DEF Inv
<1> QED
  BY <1>1, Invariance, PTL

\* An operation is never charged beyond its budget (BudgetKept, the part of
\* RatesKept that concerns operations).
THEOREM BudgetsKept == Spec => []BudgetKept
<1>1. Inv => BudgetKept
  BY DEF Inv
<1> QED
  BY <1>1, Invariance, PTL

-----------------------------------------------------------------------------
(* The windows *)

\* The log is in the order of sending, and a request that would be one too many
\* of a window is older than its span.
Ordered == \A i, j \in DOMAIN recent : i <= j => recent[i] >= recent[j]
Spaced ==
    \A w \in Limits[provider] :
      Len(recent) > w[1] => recent[Len(recent) - w[1]] >= w[2]

LogInv == Ordered /\ Spaced

\* A finite set of naturals has a greatest: else the smallest of its nonempty
\* subsets without one would lose an element and have one.
LEMMA Greatest ==
    ASSUME NEW S, S \subseteq Nat, IsFiniteSet(S), S # {}
    PROVE  \E n \in S : \A m \in S : m <= n
<1> DEFINE Topless(T) == T # {} /\ \A n \in T : \E m \in T : ~(m <= n)
           sizes == {Cardinality(T) : T \in {U \in SUBSET S : Topless(U)}}
<1>1. \A T \in SUBSET S : IsFiniteSet(T) /\ Cardinality(T) \in Nat
  BY FS_Subset, FS_CardinalityType
<1>2. SUFFICES ASSUME Topless(S) PROVE FALSE
  OBVIOUS
<1>3. sizes \subseteq Nat /\ sizes # {}
  BY <1>1, <1>2
<1>4. PICK n \in sizes : \A m \in sizes : ~(<<m, n>> \in OpToRel(<, Nat))
  BY <1>3, NatLessThanWellFounded, WFMin
<1>5. \A a, b \in Nat : a < b => <<a, b>> \in OpToRel(<, Nat)
  BY DEF OpToRel
<1>6. PICK T \in SUBSET S : Topless(T) /\ Cardinality(T) = n
  OBVIOUS
<1>7. PICK x \in T : TRUE
  BY <1>6
<1> DEFINE U == T \ {x}
<1>8. Cardinality(U) = n - 1 /\ Cardinality(U) \in Nat /\ U \in SUBSET S
  BY <1>1, <1>6, <1>7, FS_RemoveElement
<1>9. ~Topless(U)
  <2>1. SUFFICES ASSUME Topless(U) PROVE FALSE
    OBVIOUS
  <2>2. n - 1 \in sizes
    BY <1>8, <2>1
  <2> HIDE DEF sizes, Topless, U
  <2>3. n \in Nat /\ n - 1 \in Nat /\ n - 1 < n
    BY <1>3, <2>2, SMT
  <2>4. <<n - 1, n>> \in OpToRel(<, Nat)
    BY <1>5, <2>3, Zenon
  <2> QED
    BY <1>4, <2>2, <2>4
<1>10. x \in Nat /\ T \subseteq Nat
  BY <1>7
<1>11. CASE U = {}
  <2>1. T = {x}
    BY <1>7, <1>11
  <2> QED
    BY <1>6, <1>10, <2>1
<1>12. CASE U # {}
  <2>1. PICK y \in U : \A m \in U : m <= y
    BY <1>9, <1>12
  <2>2. y \in Nat /\ y \in T
    BY <1>10, <2>1
  <2>3. PICK top \in T : x <= top /\ y <= top
    BY <1>7, <1>10, <2>2
  <2>4. \A m \in T : m <= top
    BY <1>10, <2>1, <2>2, <2>3
  <2> QED
    BY <1>6, <2>3, <2>4
<1> QED
  BY <1>11, <1>12

\* The longest window is one.
LEMMA LongestWindow ==
    ASSUME TypeOK, Limits[provider] # {}
    PROVE  /\ Longest \in Nat \ {0}
           /\ \A w \in Limits[provider] : w[1] \in Nat \ {0} /\ w[2] \in Nat /\ w[2] <= Longest
<1> DEFINE spans == {w[2] : w \in Limits[provider]}
<1>1. /\ Limits[provider] \subseteq (Nat \ {0}) \X (Nat \ {0})
      /\ IsFiniteSet(Limits[provider])
  BY CallsAssumption DEF TypeOK
<1>2. IsFiniteSet(spans)
  <2> DEFINE span == [w \in Limits[provider] |-> w[2]]
  <2>1. span \in Surjection(Limits[provider], spans)
    BY DEF Surjection
  <2> HIDE DEF span, spans
  <2> QED
    BY <1>1, <2>1, FS_Surjection
<1>3. /\ spans \subseteq Nat \ {0} /\ spans # {}
      /\ \A w \in Limits[provider] : w[1] \in Nat \ {0} /\ w[2] \in spans
  BY <1>1
<1>4. \E n \in spans : \A m \in spans : m <= n
  BY <1>2, <1>3, Greatest
<1>5. Longest \in spans /\ \A w \in Limits[provider] : w[2] <= Longest
  BY <1>4 DEF Longest
<1> QED
  BY <1>3, <1>5

\* Some number of the oldest is what popleft takes.
LEMMA ForgottenIs ==
    ASSUME NEW ages \in Seq(Nat), NEW span \in Nat
    PROVE  /\ Forgotten(ages, span) \in 0 .. Len(ages)
           /\ \A i \in 1 .. Forgotten(ages, span) : ages[i] >= span
<1> DEFINE young == {n \in 0 .. Len(ages) : n < Len(ages) => ages[n + 1] < span}
<1>1. Len(ages) \in Nat /\ \A i \in 1 .. Len(ages) : ages[i] \in Nat
  OBVIOUS
<1>2. young \subseteq Nat /\ Len(ages) \in young
  BY <1>1
<1>3. PICK n \in young : \A m \in young : ~(<<m, n>> \in OpToRel(<, Nat))
  BY <1>2, NatLessThanWellFounded, WFMin
<1>4. \A a, b \in Nat : a < b => <<a, b>> \in OpToRel(<, Nat)
  BY DEF OpToRel
<1>5. \A m \in 0 .. Len(ages) : m < n => m \notin young
  BY <1>1, <1>2, <1>3, <1>4
<1>6. \A i \in 1 .. n : ages[i] >= span
  <2> SUFFICES ASSUME NEW i \in 1 .. n PROVE ages[i] >= span
    OBVIOUS
  <2>1. n \in 0 .. Len(ages)
    BY <1>3
  <2>2. i - 1 \in 0 .. Len(ages) /\ i - 1 < n /\ i - 1 < Len(ages) /\ i \in 1 .. Len(ages)
    BY <1>1, <2>1
  <2>3. i - 1 \notin young
    BY <1>5, <2>2
  <2>4. ~(ages[(i - 1) + 1] < span)
    BY <2>2, <2>3
  <2> QED
    BY <1>1, <2>2, <2>4
<1>7. /\ n \in 0 .. Len(ages)
      /\ n < Len(ages) => ages[n + 1] < span
  BY <1>3
<1> HIDE DEF young
<1> QED
  BY <1>6, <1>7 DEF Forgotten

\* When no window is full, the request that would be one too many is old enough
\* in each of them, also when the log has forgotten it.
LEMMA RoomForOne ==
    ASSUME TypeOK, ~Crowded, NEW w \in Limits[provider], Len(recent) >= w[1]
    PROVE  recent[Len(recent) - w[1] + 1] >= w[2]
<1> DEFINE gone == Forgotten(recent, Longest)
           n == w[1]
           at == Len(recent) - n + 1
<1>1. /\ Longest \in Nat /\ n \in Nat \ {0} /\ w[2] \in Nat /\ w[2] <= Longest
      /\ recent \in Seq(Nat) /\ Len(recent) \in Nat /\ Len(recent) >= n
  BY LongestWindow DEF TypeOK
<1>2. gone \in 0 .. Len(recent) /\ \A i \in 1 .. gone : recent[i] >= Longest
  BY <1>1, ForgottenIs
<1> SUFFICES recent[at] >= w[2]
  OBVIOUS
<1> HIDE DEF gone, n
<1>3. at \in 1 .. Len(recent) /\ recent[at] \in Nat
  BY <1>1
<1>4. CASE at <= gone
  BY <1>1, <1>2, <1>3, <1>4
<1>5. CASE at > gone
  <2> DEFINE ages == SubSeq(recent, gone + 1, Len(recent))
  <2>1. /\ Len(ages) = Len(recent) - gone
        /\ \A i \in 1 .. Len(recent) - gone : ages[i] = recent[gone + i]
    BY <1>1, <1>2
  <2>2. Len(ages) >= n /\ ages[Len(ages) - n + 1] = recent[at]
    <3> HIDE DEF ages
    <3>1. /\ Len(ages) - n + 1 \in 1 .. Len(recent) - gone
          /\ gone + (Len(ages) - n + 1) = at /\ Len(ages) >= n
      BY <1>1, <1>2, <1>5, <2>1
    <3> QED
      BY <2>1, <3>1
  <2>3. Kept(recent) = ages
    BY DEF Kept, gone
  <2>4. ~(ages[Len(ages) - n + 1] < w[2])
    <3> HIDE DEF ages
    <3> QED
      BY <2>2, <2>3 DEF Crowded, n
  <2> HIDE DEF ages
  <2> QED
    BY <1>1, <1>3, <2>2, <2>4
<1> QED
  BY <1>2, <1>3, <1>4, <1>5

\* A request is sent only when there is room for it.
LEMMA SentKeepsLog ==
    ASSUME TypeOK, LogInv, ~Crowded, recent' = Append(recent, 0), provider' = provider
    PROVE  LogInv'
<1>1. /\ recent \in Seq(Nat) /\ Len(recent) \in Nat
      /\ DOMAIN recent = 1 .. Len(recent) /\ \A i \in DOMAIN recent : recent[i] \in Nat
  BY DEF TypeOK
<1>2. /\ Len(recent') = Len(recent) + 1 /\ DOMAIN recent' = 1 .. Len(recent) + 1
      /\ \A i \in 1 .. Len(recent) : recent'[i] = recent[i]
      /\ recent'[Len(recent) + 1] = 0
  BY <1>1
<1>3. Ordered'
  BY <1>1, <1>2 DEF LogInv, Ordered
<1>4. Spaced'
  <2> SUFFICES ASSUME NEW w \in Limits[provider], Len(recent') > w[1]
               PROVE  recent'[Len(recent') - w[1]] >= w[2]
    BY DEF Spaced
  <2> DEFINE n == w[1]
  <2>1. n \in Nat \ {0} /\ Len(recent') > n
    BY LongestWindow
  <2>2. n >= 1 /\ Len(recent) >= n
    BY <1>1, <1>2, <2>1
  <2>3. recent[Len(recent) - n + 1] >= w[2]
    BY <2>2, RoomForOne
  <2> HIDE DEF n
  <2>4. Len(recent') - n = Len(recent) - n + 1 /\ Len(recent) - n + 1 \in 1 .. Len(recent)
    BY <1>1, <1>2, <2>1, <2>2
  <2>5. recent'[Len(recent') - n] = recent[Len(recent) - n + 1]
    BY <1>2, <2>4
  <2> QED
    BY <2>3, <2>5 DEF n
<1> QED
  BY <1>3, <1>4 DEF LogInv

\* Time makes the requests older, and keeps the order.
LEMMA AgedKeepsLog ==
    ASSUME TypeOK, LogInv, Tick
    PROVE  LogInv'
<1>1. /\ recent \in Seq(Nat) /\ Len(recent) \in Nat
      /\ DOMAIN recent = 1 .. Len(recent) /\ \A i \in DOMAIN recent : recent[i] \in Nat
  BY DEF TypeOK
<1>2. /\ provider' = provider
      /\ recent' = [i \in DOMAIN recent |->
                      IF Limits[provider] = {} \/ recent[i] >= Longest
                      THEN recent[i] ELSE recent[i] + 1]
  BY DEF Tick
<1>3. Len(recent') = Len(recent) /\ DOMAIN recent' = DOMAIN recent
  BY <1>1, <1>2
<1>4. \A i \in DOMAIN recent : recent'[i] = IF Limits[provider] = {} \/ recent[i] >= Longest
                                            THEN recent[i] ELSE recent[i] + 1
  BY <1>2
<1>5. Ordered'
  <2>1. CASE Limits[provider] = {}
    BY <1>1, <1>3, <1>4, <2>1 DEF LogInv, Ordered
  <2>2. CASE Limits[provider] # {}
    <3>1. Longest \in Nat
      BY <2>2, LongestWindow
    <3> SUFFICES ASSUME NEW i \in DOMAIN recent, NEW j \in DOMAIN recent, i <= j
                 PROVE  recent'[i] >= recent'[j]
      BY <1>3 DEF Ordered
    <3>2. recent[i] >= recent[j] /\ recent[i] \in Nat /\ recent[j] \in Nat
      BY <1>1 DEF LogInv, Ordered
    <3> QED
      BY <1>4, <3>1, <3>2
  <2> QED
    BY <2>1, <2>2
<1>6. Spaced'
  <2> SUFFICES ASSUME NEW w \in Limits[provider], Len(recent) > w[1]
               PROVE  recent'[Len(recent) - w[1]] >= w[2]
    BY <1>2, <1>3 DEF Spaced
  <2> DEFINE n == w[1]
             span == w[2]
             i == Len(recent) - n
  <2>1. n \in Nat \ {0} /\ span \in Nat /\ Longest \in Nat /\ Len(recent) > n
    BY LongestWindow
  <2>2. recent[i] >= span
    BY <1>1 DEF LogInv, Spaced
  <2> HIDE DEF n, span
  <2>3. i \in DOMAIN recent
    BY <1>1, <2>1
  <2> HIDE DEF i
  <2>4. recent'[i] \in {recent[i], recent[i] + 1} /\ recent[i] \in Nat
    BY <1>1, <1>4, <2>3
  <2>5. recent'[i] >= span
    BY <2>1, <2>2, <2>4
  <2> QED
    BY <2>5 DEF n, span, i
<1> QED
  BY <1>5, <1>6 DEF LogInv

\* No other step touches the log.
LEMMA NextLog == TypeOK /\ LogInv /\ [Next]_vars => LogInv'
<1> SUFFICES ASSUME TypeOK, LogInv, [Next]_vars PROVE LogInv'
  OBVIOUS
<1>1. CASE UNCHANGED <<provider, recent>>
  BY <1>1 DEF LogInv, Ordered, Spaced
<1>2. ASSUME NEW c \in Calls, Admit(c) PROVE LogInv'
  BY <1>1, <1>2, SentKeepsLog DEF Admit
<1>3. CASE Tick
  BY <1>3, AgedKeepsLog
<1>4. ASSUME NEW c \in Calls, Call(c) \/ Caller(c) PROVE UNCHANGED <<provider, recent>>
  BY <1>4 DEF Call, Caller, LookAgain, RequestFuture, WaitResponse, GiveUp
<1>5. ASSUME NEW c \in Calls, Perform(c), ~Admit(c) PROVE UNCHANGED <<provider, recent>>
  BY <1>5 DEF Perform, StartJob, HandOver, Leave, SetResult, Answer
<1>6. ASSUME NEW o \in Operations, Expire(o) PROVE UNCHANGED <<provider, recent>>
  BY <1>6 DEF Expire
<1>7. CASE Close \/ UNCHANGED vars
  BY <1>1, <1>7 DEF Close, vars
<1> QED
  BY <1>1, <1>2, <1>3, <1>4, <1>5, <1>6, <1>7 DEF Next, Progress

\* The young requests of a window are among the last it allows.
LEMMA WindowsBySpacing ==
    ASSUME TypeOK, LogInv
    PROVE  WindowsKept
<1> SUFFICES ASSUME NEW w \in Limits[provider]
             PROVE  Cardinality({i \in DOMAIN recent : recent[i] < w[2]}) <= w[1]
  BY DEF WindowsKept
<1> DEFINE young == {i \in DOMAIN recent : recent[i] < w[2]}
           first == IF Len(recent) > w[1] THEN Len(recent) - w[1] + 1 ELSE 1
<1>1. /\ recent \in Seq(Nat) /\ Len(recent) \in Nat /\ w[1] \in Nat /\ w[2] \in Nat
      /\ DOMAIN recent = 1 .. Len(recent) /\ \A i \in DOMAIN recent : recent[i] \in Nat
  BY LongestWindow DEF TypeOK
<1>2. young \subseteq first .. Len(recent)
  <2> SUFFICES ASSUME NEW i \in DOMAIN recent, recent[i] < w[2], Len(recent) > w[1],
                      i <= Len(recent) - w[1]
               PROVE  FALSE
    BY <1>1
  <2>1. Len(recent) - w[1] \in DOMAIN recent
    BY <1>1
  <2>2. recent[i] >= recent[Len(recent) - w[1]] /\ recent[Len(recent) - w[1]] >= w[2]
    BY <2>1 DEF LogInv, Ordered, Spaced
  <2> QED
    BY <1>1, <2>1, <2>2
<1>3. /\ IsFiniteSet(first .. Len(recent))
      /\ Cardinality(first .. Len(recent)) <= w[1]
  <2>1. first \in Int /\ Len(recent) \in Int
    BY <1>1
  <2>2. /\ IsFiniteSet(first .. Len(recent))
        /\ Cardinality(first .. Len(recent)) = IF first > Len(recent) THEN 0 ELSE Len(recent) - first + 1
    BY <2>1, FS_Interval
  <2> QED
    BY <1>1, <2>2
<1>4. Cardinality(young) <= Cardinality(first .. Len(recent)) /\ Cardinality(young) \in Nat
      /\ Cardinality(first .. Len(recent)) \in Nat
  BY <1>2, <1>3, FS_Subset, FS_CardinalityType
<1> HIDE DEF young, first
<1>5. Cardinality(young) <= w[1]
  BY <1>1, <1>3, <1>4
<1> QED
  BY <1>5 DEF young

\* No provider is sent more requests than its windows allow, and no operation
\* more than its budget (_tsukihime_delay, _admit, _check_budget).
THEOREM RatesAreKept == Spec => []RatesKept
<1>1. Init => LogInv
  <2> SUFFICES ASSUME Init PROVE LogInv
    OBVIOUS
  <2>1. /\ recent = <<>> /\ Len(recent) = 0 /\ DOMAIN recent = {}
        /\ \A w \in Limits[provider] : w[1] \in Nat
    BY CallsAssumption DEF Init
  <2>2. \A w \in Limits[provider] : ~(Len(recent) > w[1])
    <3> TAKE w \in Limits[provider]
    <3> DEFINE n == w[1]
    <3>1. n \in Nat
      BY <2>1
    <3> HIDE DEF n
    <3>2. ~(Len(recent) > n)
      BY <2>1, <3>1
    <3> QED
      BY <3>2 DEF n
  <2> QED
    BY <2>1, <2>2 DEF LogInv, Ordered, Spaced
<1>2. TypeOK /\ LogInv /\ BudgetKept => RatesKept
  BY WindowsBySpacing DEF RatesKept
<1> QED
  BY <1>1, <1>2, NextLog, TypeCorrect, BudgetsKept, PTL DEF Spec

=============================================================================
