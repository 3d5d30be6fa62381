----------------------------- MODULE MCJobCaller -----------------------------
(***************************************************************************)
(* JobCaller for TLC: pages are interchangeable model values.              *)
(***************************************************************************)
EXTENDS JobCaller, TLC

PageSymmetry == Permutations(Pages)

\* Bound: of all that may happen to a job, at most three things happen.
ThreeFaults ==
  spent["crawl"] + spent["page"] + spent["assemble"] + spent["error"]
    + spent["cancel"] <= 3

=============================================================================
