--------------------------- MODULE MCTargetHistory ---------------------------
(* Small instances of TargetHistory. *)
EXTENDS TargetHistory, TLC
CONSTANTS j1, j2, j3, k1, k2, k3, h1, h2

R(key, hash) == [key |-> key, hash |-> hash]
Yield(rows, pages) == [rows |-> rows, pages |-> pages]

\* The incremental jobs are alike.
Alike == Permutations(Incremental)

\* Three rows on a page; two of them in another order, one changed; a row that
\* comes on both of two pages; an empty page; no page.
Varied ==
  { Yield(<<R(k1, h1), R(k2, h1), R(k3, h1)>>, 1),
    Yield(<<R(k2, h2), R(k1, h1)>>, 1),
    Yield(<<R(k3, h2), R(k3, h2)>>, 2),
    Yield(<<>>, 1),
    Yield(<<>>, 0) }
=============================================================================
