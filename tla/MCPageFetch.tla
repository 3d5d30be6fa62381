---------------------------- MODULE MCPageFetch ----------------------------
(***************************************************************************)
(* PageFetch for TLC. Liveness rules out symmetry, so the workers are two:  *)
(* the least that can interleave between the commands of one method.        *)
(***************************************************************************)
EXTENDS PageFetch, TLC

CONSTANTS w1, w2

TwoWorkers == {w1, w2}

\* A target as the repository's own: a query parameter, from 1 in steps of 1.
PagedTarget ==
  [kind |-> "query_param", param |-> "page", start |-> 1, step |-> 1,
   method |-> "GET", params |-> "sort" :> "date" @@ "page" :> "all"]

\* The pages of a run have different requests, whatever the base URL says.
ASSUME PagesApart ==
  \A n, m \in 1 .. 4, base \in {"page" :> 7, "sort" :> "name", <<>>} :
    PageQuery(PagedTarget, base, n) = PageQuery(PagedTarget, base, m) => n = m

=============================================================================
