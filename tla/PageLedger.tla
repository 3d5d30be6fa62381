----------------------------- MODULE PageLedger -----------------------------
(***************************************************************************)
(* What the pipeline promises about pages, whatever the workers do: a page *)
(* enters the ledger (table job_pages) once, only after its rows have been *)
(* stored, it never leaves, and the job's pages_done counter counts the    *)
(* ledger exactly. Tasks, deliveries, retries and crashes do not appear    *)
(* here; CrawlPipeline is shown to implement this specification.           *)
(***************************************************************************)
EXTENDS Naturals

CONSTANT Pages

VARIABLES
  stored,   \* pages whose rows are in the object store
  ledger,   \* pages with a row in job_pages
  count     \* jobs.pages_done

LedgerInit == stored = {} /\ ledger = {} /\ count = 0

\* Uploading a page again overwrites the same key with the same page.
Store(p) == stored' = stored \union {p} /\ UNCHANGED <<ledger, count>>

Enter(p) ==
  /\ p \in stored \ ledger
  /\ ledger' = ledger \union {p}
  /\ count' = count + 1
  /\ UNCHANGED stored

LedgerNext == \E p \in Pages : Store(p) \/ Enter(p)

LedgerSpec == LedgerInit /\ [][LedgerNext]_<<stored, ledger, count>>

=============================================================================
