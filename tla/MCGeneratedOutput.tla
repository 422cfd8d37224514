------------------------ MODULE MCGeneratedOutput ------------------------
(* GeneratedOutput for TLC: paths of two components, two of three names that *)
(* only case tells apart, valid plans and plans with a collision of each     *)
(* kind.                                                                     *)
EXTENDS GeneratedOutput

CONSTANTS a, b, c, x, y

FoldMC == [n \in Names |-> IF n = c THEN b ELSE n]

File(p, bytes, executable) ==
    [path |-> p, bytes |-> bytes, executable |-> executable]

PlansMC ==
    {<<File(<<a, b>>, x, TRUE), File(<<b>>, y, FALSE)>>,
     <<File(<<a, a>>, y, FALSE), File(<<a, b>>, x, FALSE)>>,
     <<File(<<a, b>>, x, FALSE), File(<<a>>, x, FALSE)>>,
     <<File(<<a, b>>, x, FALSE), File(<<a, c>>, y, FALSE)>>,
     <<File(<<b>>, x, FALSE), File(<<c, a>>, x, TRUE)>>}
=============================================================================
