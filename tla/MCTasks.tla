------------------------------- MODULE MCTasks -------------------------------
(***************************************************************************)
(* Small instances of Tasks for TLC.                                       *)
(***************************************************************************)
EXTENDS Tasks, TLC

\* Coordinates with a fraction on either side of zero: 1.5 and -0.5.
Fractions == {3, -1}

\* A whole coordinate: 1.
Whole == {2}

\* The connections are interchangeable, and so are the tasks.
TaskSymmetry == Permutations(Addrs) \cup Permutations(TaskIds)

=============================================================================
