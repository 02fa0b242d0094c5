------------------------ MODULE CoordinatorInvariant ------------------------
(***************************************************************************)
(* The inductive invariant behind the safety properties of                 *)
(* GraphCoordinator: what makes a task belong to the ready queues, the     *)
(* executors, the gate or the table of locked publications, what the       *)
(* coordination thread knows at each point of its round, what its gate     *)
(* passed, and what it leaves to itself when it goes to sleep.             *)
(***************************************************************************)
EXTENDS GraphCoordinator

\* The tasks the coordinator has taken up: queued, on a worker, or with a
\* result that is kept back or being committed.
Holding == ready \cup held \cup waiting \cup due \cup todo \cup Futures

\* Every task that was taken up belongs to a context; a fault leaves some
\* behind, whose run then never comes back.
Owned ==
    \A t \in Holding :
        \/ phase[RunOf[t]] = "context"
        \/ "resubmit" \notin Controls /\ phase[RunOf[t]] = "resolved"

\* A task that was taken up was entitled to it, and is not done.
Entitled ==
    \A t \in Holding :
        /\ state[t] \notin {"ready", "succeeded"}
        /\ \A d \in DependsOn[t] : state[d] = "succeeded"

\* The counter of a task is the number of dependencies it still waits for.
Counted ==
    \A t \in Tasks :
        unresolved[t] = Cardinality({d \in DependsOn[t] : state[d] # "succeeded"})

\* A task in a queue or with a future is queued or running.
Working ==
    \A t \in ready \cup Futures :
        phase[RunOf[t]] = "context" => state[t] \in {"queued", "running"}

\* A task is in one place at a time.
Apart ==
    /\ ready \cap (held \cup Pending \cup Futures \cup todo) = {}
    /\ held \cap (Pending \cup Futures \cup todo) = {}
    /\ Futures \cap (Pending \cup todo) = {}

\* What was reported as completed has ended, and is reported once.
Collected ==
    /\ \A t \in batch \cup completions : future[t] \in {"done", "error", "cancelled"}
    /\ batch \cap completions = {}

WorkInv == /\ Owned /\ Entitled /\ Counted /\ DependencyOrder /\ Working /\ Apart
           /\ Collected /\ NoOrphanWork

\* What the thread knows: the context it advances and those it will advance are
\* contexts, results are committed only at "commit", and a context is finished
\* only when all of its tasks are.
LoopInv ==
    /\ at \in Runs => /\ at \in Contexts
                      /\ pc \in {"commit", "release", "pause", "settle", "finish"}
    /\ visit \subseteq Contexts \ {at}
    /\ visit # {} => pc = "advance" \/ at \in Runs
    /\ todo # {} => pc = "commit"
    /\ final => at \in Runs /\ AllTerminal(at)
    /\ pc = "finish" => final
    /\ pc = "fault" => "fault" \in Controls

\* A run that was not resolved has no outcome, and a result is committed only for
\* a context.
Open == \A r \in Runs :
    phase[r] \in {"new", "inbox", "context"} => result[r] = "none"
Awaited == \A t \in todo : phase[RunOf[t]] = "context"
OpenInv == Open /\ Awaited

\* What the natural-order gate rests on: a group that was called terminal has
\* ended, so have those the gate left behind, and a result on its way to its
\* commit had been let through.
Ended(g) == \A t \in TasksIn(g) : state[t] \in Terminal
Passed(t) ==
    LET r == RunOf[t]
    IN r \in Natural => \A i \in DOMAIN GroupsOf[r] :
           GroupsOf[r][i] = GroupOf[t] => i <= gateIndex[r]

GateInv ==
    /\ \A g \in terminal : Ended(g)
    /\ \A r \in Natural : \A i \in 1 .. gateIndex[r] - 1 : Ended(GroupsOf[r][i])
    /\ \A t \in Pending \cup todo : Passed(t)

\* A run that was not accepted has nothing queued or running, and what is queued
\* or running in a context is somewhere the coordinator will find it.
Fresh == \A t \in Tasks :
    phase[RunOf[t]] \in {"new", "inbox"} => state[t] \in {"ready", "succeeded"}
Placed == \A t \in Tasks :
    phase[RunOf[t]] = "context" /\ state[t] \in {"queued", "running"} => t \in Holding

\* A task in a queue has not started, and no start that is still unread is
\* about it; submitting a run again breaks this, since a TaskStarted carries
\* nothing but the names of its run and task.
Unstarted == \A t \in ready : phase[RunOf[t]] = "context" => state[t] = "queued"
News == \A t \in updates : /\ phase[RunOf[t]] \in {"context", "resolved"}
                          /\ state[t] # "ready" /\ t \notin ready

\* Only the gate holds results back, and the results of a release are those of
\* the context being advanced.
HeldBack == \A t \in held : RunOf[t] \in Natural
OwnTodo == at \in Runs => todo \subseteq TasksOf(at)

\* What a round knows as long as no signal came since it began: what it has
\* drained is drained, and what admission left cannot be admitted.
Told ==
    /\ pc \notin {"off", "round", "accept"} => \A r \in Runs : phase[r] # "inbox"
    /\ pc \notin {"off", "round", "accept", "updates"} => updates = {}
    /\ pc \notin {"off", "round", "accept", "updates", "drain"} => completions = {}
    /\ pc \in {"exit", "sleep"} => draining \/ \A t \in ready : ~Candidate(t)
Heard ==
    /\ pc = "off" => \A r \in Runs : phase[r] \in {"new", "resolved"}
    /\ ~signalled => Told

\* What keeps the tasks of a run that nothing disturbs in motion: only a drain
\* that closes interrupts a worker, only a cancelled run loses a future, and a
\* task that waits has something to wait for, none of which ended badly.
Undisturbed(r) == r \notin cancelled \cup journalFailed
Interrupts == interrupted # {} => draining /\ closing
Withdrawn == \A t \in Tasks : future[t] = "cancelled" => RunOf[t] \in cancelled
Unqueued == \A t \in Tasks :
    phase[RunOf[t]] = "context" /\ state[t] = "ready" => unresolved[t] # 0
Stuck == {"failed", "blocked", "cancelled"}
Sound == \A t \in Tasks :
    /\ phase[RunOf[t]] = "context" /\ Undisturbed(RunOf[t])
    /\ ~(draining /\ closing) /\ state[t] = "ready"
    => \A d \in DependsOn[t] : state[d] \notin Stuck

\* The gate stands before a group that has not ended, and between its report and
\* the end of the run's turn nothing is held back for that group.
Excused(r) == draining \/ ~Undisturbed(r)
GateOpen == \A r \in Natural : Current(r) \cap terminal = {}
GateStands ==
    pc \in {"pause", "settle"} /\ at \in Natural =>
        \/ signalled \/ Excused(at)
        \/ /\ \A t \in held \cap TasksOf(at) : GroupOf[t] \notin Current(at)
           /\ \A g \in Current(at) : ~Ended(g)

\* A context that was advanced and kept has something ahead of it: a task that is
\* queued, waiting for its destination or on a worker; or it may be excused and
\* hold results back.
Ahead == ready \cup Pending \cup Futures
Occupied(r) ==
    \/ Ahead \cap TasksOf(r) # {}
    \/ Excused(r) /\ held \cap TasksOf(r) # {}
Advanced ==
    pc \in {"advance", "limits", "admit", "exit", "sleep"} \/ at \in Runs
    => \A r \in Contexts \ (visit \cup {at}) : signalled \/ Occupied(r)

FlowInv == Interrupts /\ Withdrawn /\ Unqueued /\ Sound /\ GateOpen /\ GateStands

WakeInv == Fresh /\ Placed /\ Unstarted /\ News /\ HeldBack /\ OwnTodo /\ Heard
           /\ FlowInv /\ Advanced
=============================================================================
