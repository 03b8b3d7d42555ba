-------------------------- MODULE MCSuspendResume --------------------------
(***************************************************************************)
(* Small instances of SuspendResume for TLC.                               *)
(***************************************************************************)
EXTENDS SuspendResume, TLC

\* Resume tasks are interchangeable, and so are the calls of one kind.
SameKind(c, d) ==
    \A K \in {NeedsConfirm, ClientSide, Hidden} : c \in K <=> d \in K

Symmetry ==
    Permutations(ResumeTasks)
        \cup {f \in Permutations(Calls) : \A c \in Calls : SameKind(c, f[c])}
=============================================================================
