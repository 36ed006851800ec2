------------------------- MODULE MCDatasetPublication -------------------------
(* One dataset name and three fetches of it: r1, what r1 becomes when the     *)
(* provider splits the same candles over other pages, and drifted candles.  A *)
(* second name keeps the imports from always conflicting.                     *)
EXTENDS DatasetPublication

CONSTANTS n1, n2, page1, page2, page3, csv1, csv2, p1, p2

MCArtifacts == {page1, page2, page3, csv1, csv2}
MCResponses ==
  { [name |-> n1, pages |-> <<page1>>,        csv |-> csv1],
    [name |-> n1, pages |-> <<page2, page3>>, csv |-> csv1],
    [name |-> n1, pages |-> <<page3>>,        csv |-> csv2],
    [name |-> n2, pages |-> <<>>,             csv |-> csv2] }
=============================================================================
