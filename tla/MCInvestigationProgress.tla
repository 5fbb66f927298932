----------------------- MODULE MCInvestigationProgress -----------------------
(* A small instance of InvestigationProgress for TLC: one candidate, and
   one way each to fail, to pass and to time out. *)
EXTENDS InvestigationProgress

Sig == [text |-> "t", symptom |-> TRUE, repository |-> TRUE]
Run(p, e, s) == [preflight |-> p, execution |-> e, signature |-> s, mismatch |-> None]
ProgressRuns == { Run("ok", "failed", Sig), Run("ok", "passed", None), Run("timeout", "none", None) }
ProgressCandidates == { [api |-> TRUE, claim |-> "none"] }
=============================================================================
