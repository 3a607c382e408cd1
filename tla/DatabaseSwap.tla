---------------------------- MODULE DatabaseSwap ----------------------------
(***************************************************************************)
(* What the import of a database promises, whatever files it moves about:  *)
(* the database is replaced at one instant or not at all, and the answer   *)
(* says which, or that it was lost.  Only a panel that is killed during an *)
(* import makes no promise.                                                *)
(***************************************************************************)

CONSTANTS
    Data,   \* what a database may hold
    New     \* what an imported one holds

VARIABLES
    current,  \* what the database of the panel holds
    answer    \* "idle", "open" while an import runs, then its outcome

vars == <<current, answer>>

Answers == {"ok", "unstarted", "failed", "lost"}

Init == current \in Data /\ answer = "idle"

\* An upload may be refused for its looks.
Begin == answer = "idle" /\ answer' \in {"open", "failed"} /\ UNCHANGED current

Commit == answer = "open" /\ answer' = "ok" /\ current' \in New

\* The database is in place and xray could not be started with it.
Unstarted == answer = "ok" /\ answer' = "unstarted" /\ UNCHANGED current

Refuse == answer = "open" /\ answer' = "failed" /\ UNCHANGED current

\* What was there could not be put back.
Lose == answer = "open" /\ answer' = "lost" /\ current' \in Data

Reply == answer \in Answers /\ answer' = "idle" /\ UNCHANGED current

Killed == answer # "idle" /\ answer' = "idle" /\ current' \in Data

Next == Begin \/ Commit \/ Unstarted \/ Refuse \/ Lose \/ Reply \/ Killed

Spec == Init /\ [][Next]_vars
=============================================================================
