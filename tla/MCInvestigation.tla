--------------------------- MODULE MCInvestigation ---------------------------
(* Small instances of Investigation, and of the audit of its bundles, for
   TLC. *)
EXTENDS BundleReplay

Sig(t, s, f) == [text |-> t, symptom |-> s, repository |-> f]
Run(p, e, s, m) == [preflight |-> p, execution |-> e, signature |-> s, mismatch |-> m]
Failure(s, m) == Run("ok", "failed", s, m)
Test(api, claim) == [api |-> api, claim |-> claim]

MCTexts == {"t1", "t2"}
MCMismatches == {"m1", "m2"}

(* Every way a run can fail to count, and failures that differ in exactly
   one thing the scorer compares. *)
MCRuns ==
  { Run("timeout", "none", None, None),
    Run("failed", "none", None, None),
    Run("ok", "timeout", Sig("t1", TRUE, TRUE), None),
    Run("ok", "passed", None, None),
    Failure(None, None),
    Failure(Sig("t1", TRUE, TRUE), None),
    Failure(Sig("t2", FALSE, TRUE), None),
    Failure(Sig("t1", TRUE, FALSE), "m1"),
    Failure(Sig("t1", TRUE, FALSE), "m2") }

MCCandidates == { Test(TRUE, "none"), Test(FALSE, "none"), Test(TRUE, "rejected"),
                  Test(TRUE, "grounded"), Test(FALSE, "grounded") }

(* A coarser choice, for several attempts: a run that does not count, and
   failures that differ in the signature or in the observed value. *)
FewRuns == { Run("timeout", "none", None, None),
             Run("ok", "passed", None, None),
             Failure(Sig("t1", TRUE, TRUE), None),
             Failure(Sig("t2", FALSE, TRUE), "m1"),
             Failure(Sig("t1", TRUE, FALSE), "m2") }
FewCandidates == { Test(TRUE, "none"), Test(FALSE, "grounded"), Test(TRUE, "grounded") }
=============================================================================
