-------------------------- MODULE ProviderRequests --------------------------
(***************************************************************************)
(* RequestControl of services/http_requests.py: calls of several           *)
(* operations that share the admission to a provider, its cooldown and     *)
(* every equivalent read already in progress.  A step ends where another   *)
(* thread may come between: at the lock, at the transport, at the future.  *)
(* A call that leads makes one future and one job of its own name; a       *)
(* follower waits for the future of the leader it found.  The providers    *)
(* share nothing but the pool, so one of them is followed.  Ages and       *)
(* cooldowns are counted in ticks of a clock that does not jump.           *)
(***************************************************************************)
EXTENDS Integers, SequencesExt

CONSTANTS
    Calls,      \* calls of handle_request
    KeyOf,      \* [Calls -> keys of shared reads], NoKey for the others
    Operations, \* the scopes the calls are made in
    OpOf,       \* [Calls -> Operations]
    Timed,      \* operations with a deadline
    Providers,  \* the providers followed, one in each behaviour
    Limits,     \* [Providers -> {<<limit, span>>}], its simultaneous windows
    Budget,     \* [Providers -> [Operations -> requests it may send there]]
    Cooldowns,  \* bound: [Providers -> the delays a response asks for], 0 for none
    PoolSize,   \* _REQUEST_WORKERS
    NoKey, NoCall

ASSUME CallsAssumption ==
    /\ IsFiniteSet(Calls) /\ NoCall \notin Calls
    /\ OpOf \in [Calls -> Operations] /\ Timed \subseteq Operations
    /\ Budget \in [Providers -> [Operations -> Nat]]
    /\ Cooldowns \in [Providers -> SUBSET Nat] /\ PoolSize \in Nat \ {0}
    /\ Limits \in [Providers -> SUBSET ((Nat \ {0}) \X (Nat \ {0}))]
    /\ \A p \in Providers : IsFiniteSet(Limits[p])

VARIABLES
    provider,   \* the provider followed
    pc,         \* where a call is in handle_request
    follows,    \* the call whose future it waits for
    answer,     \* what it returned or raised
    job,        \* where its _perform is
    outcome,    \* what it ended with: the future holds it once it is over
    active,     \* _active: the leader of a shared read
    sent,       \* _Operation.sent of the provider
    expired,    \* the operations whose deadline has passed
    recent,     \* ages of the requests sent, the newest last
    cool,       \* _until, counted from now
    held,       \* a cooldown that a job has noted and not yet handed over
    ledger,     \* the last one handed over, which the owner from now
    closed      \* close was called

vars == <<provider, pc, follows, answer, job, outcome, active, sent, expired,
          recent, cool, held, ledger, closed>>

Keys == {KeyOf[c] : c \in Calls} \ {NoKey}
Failures == {"deadline", "budget", "cooldown", "transport", "closed"}
Answers == Failures \cup {"response", "none"}
Jobs == {"none", "queued", "admission", "sending", "saving", "leaving", "left", "over"}

TypeOK ==
    /\ provider \in Providers
    /\ pc \in [Calls -> {"idle", "lookup", "waiting", "done"}]
    /\ follows \in [Calls -> Calls \cup {NoCall}]
    /\ answer \in [Calls -> Answers]
    /\ job \in [Calls -> Jobs]
    /\ outcome \in [Calls -> Answers]
    /\ active \in [Keys -> Calls \cup {NoCall}]
    /\ sent \in [Operations -> Nat]
    /\ expired \subseteq Timed
    /\ recent \in Seq(Nat)
    /\ cool \in Nat
    /\ held \in [Calls -> Nat]
    /\ ledger \in Nat
    /\ closed \in BOOLEAN

Init ==
    /\ provider \in Providers
    /\ pc = [c \in Calls |-> "idle"]
    /\ follows = [c \in Calls |-> NoCall]
    /\ answer = [c \in Calls |-> "none"]
    /\ job = [c \in Calls |-> "none"]
    /\ outcome = [c \in Calls |-> "none"]
    /\ active = [k \in Keys |-> NoCall]
    /\ sent = [o \in Operations |-> 0]
    /\ expired = {}
    /\ recent = <<>>
    /\ cool = 0
    /\ held = [c \in Calls |-> 0]
    /\ ledger = 0
    /\ closed = FALSE

-----------------------------------------------------------------------------
Shared(c) == KeyOf[c] # NoKey
IsTimed(c) == OpOf[c] \in Timed
Late(c) == OpOf[c] \in expired
Spent(c) == sent[OpOf[c]] >= Budget[provider][OpOf[c]]

Longest == CHOOSE n \in {w[2] : w \in Limits[provider]} :
             \A w \in Limits[provider] : w[2] <= n
Shortest == CHOOSE n \in {w[2] : w \in Limits[provider]} :
             \A w \in Limits[provider] : n <= w[2]

\* How many of the oldest requests are older than a span: those popleft takes.
Forgotten(ages, span) ==
    CHOOSE n \in 0 .. Len(ages) :
      /\ \A i \in 1 .. n : ages[i] >= span
      /\ n < Len(ages) => ages[n + 1] < span

\* A slip that forgets requests after the first window instead of the last.
KeptMutant(ages) == SubSeq(ages, Forgotten(ages, Shortest) + 1, Len(ages))

\* _tsukihime_delay forgets the requests older than the longest window.
Kept(ages) == SubSeq(ages, Forgotten(ages, Longest) + 1, Len(ages))

\* The delay of _admit is not over: some window is full.  The interval of
\* anilist and nyaa (_next) is a window of one request.
Crowded ==
    \E w \in Limits[provider] :
      LET ages == Kept(recent)
      IN  Len(ages) >= w[1] /\ ages[Len(ages) - w[1] + 1] < w[2]

\* A slip that counts on below zero.
OlderMutant(n) == n - 1

\* What is left of a delay after a tick.
Older(n) == IF n > 0 THEN n - 1 ELSE 0

\* A slip that leaves the read of a leader that gave up.
JoinsMutant(c) == Shared(c) /\ active[KeyOf[c]] # NoCall /\ pc[active[KeyOf[c]]] # "done"

\* The future of c is done.
Done(c) == job[c] = "over"

\* The equivalent read is in progress.
Joins(c) == Shared(c) /\ active[KeyOf[c]] # NoCall

-----------------------------------------------------------------------------
(* A caller *)

\* The caller returns or raises.
Ends(c, a) ==
    /\ pc' = [pc EXCEPT ![c] = "done"]
    /\ answer' = [answer EXCEPT ![c] = a]

\* _request_future: join the read in progress or lead a new one, on the pool
\* for an operation with a deadline and on the caller's thread otherwise.
RequestFuture(c) ==
    /\ IF Late(c) \/ (~Joins(c) /\ IsTimed(c) /\ closed)
       THEN /\ Ends(c, IF Late(c) THEN "deadline" ELSE "closed")
            /\ UNCHANGED <<follows, job, active>>
       ELSE /\ pc' = [pc EXCEPT ![c] = "waiting"]
            /\ follows' = [follows EXCEPT ![c] = IF Joins(c) THEN active[KeyOf[c]] ELSE c]
            /\ IF Joins(c)
               THEN UNCHANGED <<job, active>>
               ELSE /\ job' = [job EXCEPT ![c] = IF IsTimed(c) THEN "queued" ELSE "admission"]
                    /\ active' = IF Shared(c) THEN [active EXCEPT ![KeyOf[c]] = c] ELSE active
            /\ UNCHANGED answer
    /\ UNCHANGED <<provider, outcome, sent, expired, recent, cool, held, ledger, closed>>

\* handle_request begins.
Call(c) == pc[c] = "idle" /\ RequestFuture(c)

\* A follower looks again.
LookAgain(c) == pc[c] = "lookup" /\ RequestFuture(c)

\* A slip that hands a follower whatever its leader ended with.
OthersLimitMutant(c) == FALSE

\* The leader ran into a limit of its own operation.
OthersLimit(c) == follows[c] # c /\ outcome[follows[c]] \in {"deadline", "budget"}

\* The future is done: a follower whose leader met its own deadline or budget
\* checks its own limits and looks again.
WaitResponse(c) ==
    /\ pc[c] = "waiting"
    /\ Done(follows[c])
    /\ IF ~OthersLimit(c)
       THEN Ends(c, outcome[follows[c]])
       ELSE IF Late(c) \/ Spent(c)
       THEN Ends(c, IF Late(c) THEN "deadline" ELSE "budget")
       ELSE pc' = [pc EXCEPT ![c] = "lookup"] /\ UNCHANGED answer
    /\ UNCHANGED <<provider, follows, job, outcome, active, sent, expired, recent,
                   cool, held, ledger, closed>>

\* The deadline of a waiting caller passes; the request it waits for goes on.
GiveUp(c) ==
    /\ pc[c] = "waiting"
    /\ Late(c) /\ ~Done(follows[c])
    /\ Ends(c, "deadline")
    /\ UNCHANGED <<provider, follows, job, outcome, active, sent, expired, recent,
                   cool, held, ledger, closed>>

-----------------------------------------------------------------------------
(* A job: _perform on a pool thread or on the caller's *)

\* A slip that keeps the thread of a job that is over.
OnPoolMutant == {c \in Calls : IsTimed(c) /\ job[c] \notin {"none", "queued"}}

\* The jobs a thread of the pool is busy with.
OnPool == {c \in Calls : IsTimed(c) /\ job[c] \notin {"none", "queued", "over"}}

\* A pool thread takes a job.
StartJob(c) ==
    /\ job[c] = "queued"
    /\ Cardinality(OnPool) < PoolSize
    /\ job' = [job EXCEPT ![c] = "admission"]
    /\ UNCHANGED <<provider, pc, follows, answer, outcome, active, sent, expired,
                   recent, cool, held, ledger, closed>>

\* _check_budget under the lock that charges.
Chargeable(c) == ~Spent(c)

\* _admit: under the lock, refuse or charge; while a window is full it sleeps
\* and looks again.
Admit(c) ==
    /\ job[c] = "admission"
    /\ LET refused == IF Late(c) THEN "deadline"
                      ELSE IF cool > 0 THEN "cooldown"
                      ELSE IF ~Crowded /\ ~Chargeable(c) THEN "budget" ELSE "none"
       IN  IF refused # "none"
           THEN /\ job' = [job EXCEPT ![c] = "leaving"]
                /\ outcome' = [outcome EXCEPT ![c] = refused]
                /\ UNCHANGED <<sent, recent>>
           ELSE /\ ~Crowded
                /\ job' = [job EXCEPT ![c] = "sending"]
                /\ sent' = [sent EXCEPT ![OpOf[c]] = @ + 1]
                /\ recent' = Append(recent, 0)
                /\ UNCHANGED outcome
    /\ UNCHANGED <<provider, pc, follows, answer, active, expired, cool, held,
                   ledger, closed>>

\* A slip that lets a shorter cooldown replace a longer one.
LongerMutant(d) == d

\* The cooldown is never shortened.
Longer(d) == IF d > cool THEN d ELSE cool

\* _send: the transport answers, perhaps with a retry deadline (_cooldown up to
\* the release of the lock), or fails, as it may after close.
Answer(c, d, a) ==
    /\ job[c] = "sending"
    /\ outcome' = [outcome EXCEPT ![c] = a]
    /\ IF d = 0
       THEN job' = [job EXCEPT ![c] = "leaving"] /\ UNCHANGED <<cool, held>>
       ELSE /\ job' = [job EXCEPT ![c] = "saving"]
            /\ cool' = Longer(d)
            /\ held' = [held EXCEPT ![c] = Longer(d)]
    /\ UNCHANGED <<provider, pc, follows, answer, active, sent, expired, recent,
                   ledger, closed>>

\* The end of _cooldown: the deadline is handed to the owner, off the lock.  The
\* owner saves them in the order of its queue (_persist_provider_lock), each in
\* the place of the one before.
HandOver(c) ==
    /\ job[c] = "saving"
    /\ job' = [job EXCEPT ![c] = "leaving"]
    /\ ledger' = held[c]
    /\ held' = [held EXCEPT ![c] = 0]
    /\ UNCHANGED <<provider, pc, follows, answer, outcome, active, sent, expired,
                   recent, cool, closed>>

\* A slip that forgets the read only when it was answered.
LeavesMutant(c) == Shared(c) /\ outcome[c] = "response"

\* The read of c is no longer one to join.
Leaves(c) == Shared(c)

\* The end of _perform: the key goes first, and only then is the future done.
Leave(c) ==
    /\ job[c] = "leaving"
    /\ job' = [job EXCEPT ![c] = "left"]
    /\ active' = IF Leaves(c) THEN [active EXCEPT ![KeyOf[c]] = NoCall] ELSE active
    /\ UNCHANGED <<provider, pc, follows, answer, outcome, sent, expired, recent,
                   cool, held, ledger, closed>>

\* set_result or set_exception.
SetResult(c) ==
    /\ job[c] = "left"
    /\ job' = [job EXCEPT ![c] = "over"]
    /\ UNCHANGED <<provider, pc, follows, answer, outcome, active, sent, expired,
                   recent, cool, held, ledger, closed>>

-----------------------------------------------------------------------------
(* Time, close and the owner *)

\* The deadline of an operation passes.
Expire(o) ==
    /\ o \in Timed \ expired
    /\ expired' = expired \cup {o}
    /\ UNCHANGED <<provider, pc, follows, answer, job, outcome, active, sent,
                   recent, cool, held, ledger, closed>>

\* Something still depends on the time.
Passing ==
    \/ cool > 0 \/ ledger > 0
    \/ \E i \in DOMAIN recent : \E w \in Limits[provider] : recent[i] < w[2]

\* A tick; ages beyond the longest window make no difference any more.
Tick ==
    /\ Passing
    /\ recent' = [i \in DOMAIN recent |->
                    IF Limits[provider] = {} \/ recent[i] >= Longest
                    THEN recent[i] ELSE recent[i] + 1]
    /\ cool' = Older(cool)
    /\ held' = [c \in Calls |-> Older(held[c])]
    /\ ledger' = Older(ledger)
    /\ UNCHANGED <<provider, pc, follows, answer, job, outcome, active, sent,
                   expired, closed>>

\* close: the jobs no thread has taken are cancelled; their keys stay.
Close ==
    /\ ~closed
    /\ closed' = TRUE
    /\ LET queued == {c \in Calls : job[c] = "queued"}
       IN  /\ job' = [c \in Calls |-> IF c \in queued THEN "over" ELSE job[c]]
           /\ outcome' = [c \in Calls |-> IF c \in queued THEN "closed" ELSE outcome[c]]
    /\ UNCHANGED <<provider, pc, follows, answer, active, sent, expired, recent,
                   cool, held, ledger>>

-----------------------------------------------------------------------------
Caller(c) == LookAgain(c) \/ WaitResponse(c) \/ GiveUp(c)

Perform(c) ==
    \/ StartJob(c) \/ Admit(c) \/ HandOver(c) \/ Leave(c) \/ SetResult(c)
    \/ \E d \in Cooldowns[provider], a \in {"response", "transport"} : Answer(c, d, a)

\* What goes on by itself.
Progress == Tick \/ \E c \in Calls : Caller(c) \/ Perform(c)

\* Some thread goes on while one can (a physical request has a timeout of its
\* own), or the clock does.  Deadlines may never pass and nobody has to close.
Fairness == WF_vars(Progress)

Next ==
    \/ Progress \/ Close
    \/ \E c \in Calls : Call(c)
    \/ \E o \in Operations : Expire(o)

Spec == Init /\ [][Next]_vars /\ Fairness
-----------------------------------------------------------------------------
(* Properties *)

\* A caller fails for a deadline or a budget only when that is its own, however
\* many leaders it followed: handle_request keeps the limits of one operation
\* from the others that joined its read.
OwnLimits ==
    \A c \in Calls :
      /\ answer[c] = "deadline" => Late(c)
      /\ answer[c] = "budget" => Spent(c)

\* At most one physical request of a shared read is under way, with leaders
\* that gave up, followers that look again and jobs still in the pool's queue.
OneInFlight ==
    \A c, d \in Calls :
      /\ c # d /\ Shared(c) /\ KeyOf[c] = KeyOf[d]
      /\ job[c] \in {"queued", "admission", "sending", "saving", "leaving"}
      => job[d] \notin {"queued", "admission", "sending", "saving", "leaving"}

\* A read that ended is never joined: until close, the leader of a key still
\* has its answer ahead of it, so nobody is served an old one and a follower
\* that looks again does not find the same failure for ever.
NoStaleRead ==
    ~closed => \A k \in Keys : active[k] # NoCall => job[active[k]] \notin {"left", "over"}

\* In every window of the provider, no more requests were sent than it allows,
\* whichever operations and threads sent them.
WindowsKept ==
    \A w \in Limits[provider] :
      Cardinality({i \in DOMAIN recent : recent[i] < w[2]}) <= w[1]

\* An operation sends no more requests than its budget, though its calls may be
\* admitted by several threads and long after they were made.
BudgetKept ==
    \A o \in Operations :
      /\ sent[o] <= Budget[provider][o]
      /\ sent[o] = Cardinality({c \in Calls : OpOf[c] = o /\
                     (job[c] \in {"sending", "saving"} \/ outcome[c] \in {"response", "transport"})})

\* The two limits of what is sent.
RatesKept == WindowsKept /\ BudgetKept

\* No deadline a provider gave is forgotten: the cooldown in force lasts as long
\* as any deadline noted, or in the ledger, though answers come in another order
\* than their requests were sent.
CooldownInForce ==
    /\ \A c \in Calls : held[c] <= cool
    /\ ledger <= cool

\* Every call returns, through full windows, a full pool, leaders that give up
\* and a close at any moment.
CallsReturn == \A c \in Calls : pc[c] = "waiting" ~> pc[c] = "done"

=============================================================================
