------------------------------- MODULE Ledger -------------------------------
(* What a resumable crawl promises: a page is collected once and for all,     *)
(* with its item in store, and a failure is forgotten once it is overcome.    *)
EXTENDS FiniteSets

CONSTANT Url

VARIABLES
    status,     \* status[u]: what the checkpoint says of page u
    stored      \* pages that have an item

Init ==
    /\ status = [u \in Url |-> "new"]
    /\ stored = {}

\* The item of a page is written; its entry follows.
Store(u) ==
    /\ status[u] # "done"
    /\ stored' = stored \cup {u}
    /\ UNCHANGED status

Fail(u) ==
    /\ status[u] # "done"
    /\ status' = [status EXCEPT ![u] = "failed"]
    /\ UNCHANGED stored

Finish(u) ==
    /\ status[u] # "done"
    /\ u \in stored
    /\ status' = [status EXCEPT ![u] = "done"]
    /\ UNCHANGED stored

Next == \E u \in Url : Store(u) \/ Fail(u) \/ Finish(u)

Spec == Init /\ [][Next]_<<status, stored>>
=============================================================================
