------------------------- MODULE MCRuntimeSessions -------------------------
(* RuntimeSessions on small instances: one language, at most one notebook,  *)
(* two runtimes, two to four calls.                                         *)
EXTENDS RuntimeSessions, TLC

CONSTANTS py, nb, r1, r2, c1, c2, c3, c4

\* Every runtime is an interpreter of the one language.
OneLanguage == [r \in Runtimes |-> py]

\* Calls are interchangeable, and so are the runtimes when none of them is
\* singled out by the set of discovered ones.
CallSymmetry == Permutations(Calls)
Symmetry == CallSymmetry \cup Permutations(Runtimes)

\* The same for a run that checks liveness, where TLC allows no symmetry: of
\* the orders in which the calls are made, and of the runtimes the first one
\* may name, one stands for all.
CallsInOrder ==
    /\ call[c2].pc # "new" => call[c1].pc # "new"
    /\ call[c3].pc # "new" => call[c2].pc # "new"
    /\ call[c1].runtime # r2

\* All calls are about the notebook.
NotebookCalls == \A t \in Calls : call[t].host \in {None, nb}
=============================================================================
