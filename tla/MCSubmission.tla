---------------------------- MODULE MCSubmission -----------------------------
(***************************************************************************)
(* Submission for TLC: four POST /jobs requests. r1 and r2 are the same     *)
(* request sent twice, r3 uses their key with another body, r4 has no key.  *)
(***************************************************************************)
EXTENDS Submission, TLC

CONSTANTS r1, r2, r3, r4, k1, small, large

OneKey == [r \in Submits |-> IF r = r4 THEN NoKey ELSE k1]

Bodies == [r \in Submits |-> IF r = r3 THEN large ELSE small]

\* r1 and r2 are interchangeable.
Twins == Permutations({r1, r2})

=============================================================================
