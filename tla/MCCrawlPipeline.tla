--------------------------- MODULE MCCrawlPipeline ---------------------------
(***************************************************************************)
(* CrawlPipeline for TLC: pages are interchangeable model values.          *)
(***************************************************************************)
EXTENDS CrawlPipeline, TLC

PageSymmetry == Permutations(Pages)

Faults == spent["page"] + spent["assemble"] + spent["error"] + spent["cancel"]

Retries == Cardinality({rp \in Runs \X Pages : retries[rp[1]][rp[2]] > 0})

\* Bound: one thing happens to a job, and a retry is one. Only a crawl_job that
\* has not published yet may die again, so that the job is parked.
OneFault ==
  \/ Faults + Retries + spent["crawl"] <= 1
  \/ /\ Faults + Retries = 0 /\ spent["crawl"] <= 2
     /\ \A r \in Runs : header[r] = {}

=============================================================================
