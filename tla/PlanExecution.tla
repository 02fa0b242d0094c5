---------------------------- MODULE PlanExecution ----------------------------
(***************************************************************************)
(* What the owner of execution graphs promises to those who submit runs: a *)
(* task is done after the tasks it depends on, once, while its run is      *)
(* open, and is never undone; an open run gets one outcome, which says     *)
(* truthfully whether all of its tasks are done; and only a run that was   *)
(* not completed is opened again.  GraphCoordinator implements it.         *)
(***************************************************************************)
CONSTANTS Runs, Tasks, RunOf, DependsOn

VARIABLES
    done,      \* tasks that succeeded
    outcome    \* [Runs -> what the submitter was told, "none" while open]

Plan(r) == {t \in Tasks : RunOf[t] = r}

Init == done = {} /\ outcome = [r \in Runs |-> "none"]

Do(t) ==
    /\ outcome[RunOf[t]] = "none"
    /\ t \notin done /\ DependsOn[t] \subseteq done
    /\ done' = done \cup {t}
    /\ UNCHANGED outcome

Resolve(r) ==
    /\ outcome[r] = "none"
    /\ \/ /\ Plan(r) \subseteq done
          /\ outcome' = [outcome EXCEPT ![r] = "succeeded"]
       \/ /\ ~(Plan(r) \subseteq done)
          /\ \E o \in {"failed", "cancelled", "paused", "error"} :
                outcome' = [outcome EXCEPT ![r] = o]
    /\ UNCHANGED done

\* The owner breaks down: every run it knows gets an error.
Break(S) ==
    /\ \A r \in S : outcome[r] = "none"
    /\ outcome' = [r \in Runs |-> IF r \in S THEN "error" ELSE outcome[r]]
    /\ UNCHANGED done

Reopen(r) ==
    /\ outcome[r] \notin {"none", "succeeded"}
    /\ outcome' = [outcome EXCEPT ![r] = "none"]
    /\ UNCHANGED done

Next == \/ \E t \in Tasks : Do(t)
        \/ \E r \in Runs : Resolve(r) \/ Reopen(r)
        \/ \E S \in SUBSET Runs : Break(S)

Spec == Init /\ [][Next]_<<done, outcome>>
=============================================================================
