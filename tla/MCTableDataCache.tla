-------------------------- MODULE MCTableDataCache --------------------------
(* TableDataCache for a table of at most three columns and three rows, of    *)
(* which the grid shows a cell in one of three corners; it may be empty.     *)
EXTENDS TableDataCache

SmallShapes == {[columns |-> 3, rows |-> 0, labels |-> TRUE],
                [columns |-> 3, rows |-> 3, labels |-> TRUE],
                [columns |-> 1, rows |-> 3, labels |-> FALSE]}

Corners == {[column |-> 0, columns |-> 1, row |-> 0, rows |-> 1],
            [column |-> 2, columns |-> 1, row |-> 0, rows |-> 1],
            [column |-> 0, columns |-> 1, row |-> 2, rows |-> 1]}
=============================================================================
