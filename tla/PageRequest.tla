---------------------------- MODULE PageRequest ----------------------------
(***************************************************************************)
(* How a page number becomes a request (pipeline/pageurl.py). A target is  *)
(* a record of what these functions read of a TargetSpec; a query and a    *)
(* body are functions from parameter names to values.                      *)
(***************************************************************************)
EXTENDS Integers

\* The parameters of g with those of f laid over them.
Over(f, g) == [k \in DOMAIN f \union DOMAIN g |->
                 IF k \in DOMAIN f THEN f[k] ELSE g[k]]

\* pagination.param is not set.
NoParam == "none"

\* page_value: the value the site expects for the 1-based page n.
PageValue(target, n) == target.start + (n - 1) * target.step

\* page_url raises UnsupportedPagination for any other target.
Addressable(target) ==
  /\ target.kind \in {"query_param", "offset"}
  /\ target.param # NoParam

\* The page parameter, laid over what is there already.
WithPage(target, n, params) ==
  Over([k \in {target.param} |-> PageValue(target, n)], params)

\* page_url: the query of the base URL overrides the parameters of the target,
\* which a POST sends in its body instead, and the page overrides both.
PageQuery(target, base, n) ==
  WithPage(target, n,
           IF target.method = "GET" THEN Over(base, target.params) ELSE base)

\* page_body, for a POST.
PageBody(target, n) ==
  IF target.param = NoParam THEN target.params
                            ELSE WithPage(target, n, target.params)

=============================================================================
