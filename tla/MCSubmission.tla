---------------------------- MODULE MCSubmission ----------------------------
(* Small instances of the submission gateway for TLC.                      *)
EXTENDS Submission, TLC

(* What a connector to a university's HTTP interface can answer.           *)
HttpApiOutcomes == {"accepted", "rejected", "retryable_failure"}

(* The connectors taken together, for what must hold of each of them: a    *)
(* package or an operator answers later, or the adapter throws.            *)
AnyOutcomes == HttpApiOutcomes \cup {"queued"}

(* What the university's staff do in the portal: decide on applications it *)
(* received, or also confirm one by hand and ask for more information.     *)
DecisionStates == ApplicationState \ {"submitted"}
HandMoves == {"submitted", "under_review", "more_info"}

ProcessSymmetry == Permutations(Requests) \cup Permutations(Workers)
=============================================================================
