----------------------------- MODULE ToolTurns -----------------------------
(***************************************************************************)
(* What suspend/resume promises about a job, without tasks, locks, tables  *)
(* or topics: the agent asks for a batch of tool calls, waits until every  *)
(* one of them has a result, takes all the results at once, and only then  *)
(* asks again.  A job that fails may end at any time.                      *)
(***************************************************************************)
CONSTANT Calls

VARIABLES
    asked,      \* the calls made so far
    available,  \* the calls whose result was produced
    taken,      \* the calls whose result is part of the conversation
    ended       \* the job is completed or failed

vars == <<asked, available, taken, ended>>

Init ==
    /\ asked = {}
    /\ available = {}
    /\ taken = {}
    /\ ended = FALSE

Ask ==
    /\ ~ended
    /\ taken = asked
    /\ \E T \in SUBSET (Calls \ asked) : asked' = asked \cup T
    /\ UNCHANGED <<available, taken, ended>>

Provide ==
    /\ \E c \in asked : available' = available \cup {c}
    /\ UNCHANGED <<asked, taken, ended>>

Take ==
    /\ asked \subseteq available
    /\ taken' = asked
    /\ UNCHANGED <<asked, available, ended>>

End ==
    /\ ended' = TRUE
    /\ UNCHANGED <<asked, available, taken>>

Next == Ask \/ Provide \/ Take \/ End

Spec == Init /\ [][Next]_vars
=============================================================================
