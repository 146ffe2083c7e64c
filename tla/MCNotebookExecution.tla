------------------------ MODULE MCNotebookExecution ------------------------
(* NotebookExecution for a notebook with two code cells, a raw one and one   *)
(* in another language.                                                      *)
EXTENDS NotebookExecution

CONSTANTS a, b, raw, foreign

TwoSelections == {<<a, raw, b>>, <<foreign>>}
=============================================================================
