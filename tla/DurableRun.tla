----------------------------- MODULE DurableRun -----------------------------
(***************************************************************************)
(* What an accepted run promises across crashes, restarts and shutdowns:   *)
(* each task of its plan is done at most once, after the tasks it depends  *)
(* on, and is never undone; a product is written once; the run is called   *)
(* succeeded only when everything is done.  RunJournal implements it.      *)
(***************************************************************************)
EXTENDS Naturals

CONSTANTS Tasks, DependsOn, Durable

VARIABLES
    done,      \* tasks whose outcome is durable
    product,   \* [Tasks -> identity of the published product, 0 for none]
    succeeded  \* whether the run was recorded as succeeded

Init == done = {} /\ product = [t \in Tasks |-> 0] /\ succeeded = FALSE

Do(t) ==
    /\ t \notin done /\ DependsOn[t] \subseteq done
    /\ done' = done \cup {t}
    /\ \A u \in Tasks : product'[u] # product[u] => u = t /\ t \in Durable
    /\ UNCHANGED succeeded

Succeed ==
    /\ done = Tasks
    /\ succeeded' = TRUE
    /\ UNCHANGED <<done, product>>

Next == Succeed \/ \E t \in Tasks : Do(t)

Spec == Init /\ [][Next]_<<done, product, succeeded>>
=============================================================================
