----------------------------- MODULE MCTaskResults -----------------------------
(***************************************************************************)
(* Small instances of TaskResults: a check by a model and a local rule.    *)
(***************************************************************************)
EXTENDS TaskResults

CONSTANTS model, rule

TwoChecks == {model, rule}
LocalRule == {rule}
=============================================================================
