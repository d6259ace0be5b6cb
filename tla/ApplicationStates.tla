-------------------------- MODULE ApplicationStates --------------------------
(***************************************************************************)
(* The application life cycle as a pure table: which states exist, which   *)
(* moves between them are legal, and who may ask for each.  Translated     *)
(* from packages/contracts/src/domain/applications.ts, the single copy of  *)
(* the table that every service of the API consults, and from the mapping  *)
(* of a partner's vocabulary in packages/contracts/src/domain/connectors.ts*)
(***************************************************************************)

ApplicationState ==
    {"draft", "ready", "submitted_pending", "submitted", "failed",
     "under_review", "more_info", "offer", "accepted", "declined",
     "rejected", "withdrawn", "expired", "enrolled"}

TransitionActor == {"student", "university", "system"}

(* APPLICATION_TRANSITIONS: the allow-list of moves. *)
Successors(from) ==
    CASE from = "draft"             -> {"ready", "withdrawn"}
      [] from = "ready"             -> {"draft", "submitted_pending", "withdrawn"}
      [] from = "submitted_pending" -> {"submitted", "failed"}
      [] from = "failed"            -> {"ready", "withdrawn"}
      [] from = "submitted"         -> {"under_review", "offer", "rejected", "withdrawn"}
      [] from = "under_review"      -> {"offer", "rejected", "withdrawn", "more_info"}
      [] from = "more_info"         -> {"ready", "withdrawn"}
      [] from = "offer"             -> {"accepted", "declined", "expired"}
      [] from = "accepted"          -> {"enrolled", "withdrawn"}
      [] OTHER                      -> {}

CanTransition(from, to) == to \in Successors(from)

(* TRANSITION_AUTHORITY: who may ask for a move into a state. *)
Authority(to) ==
    CASE to \in {"draft", "accepted", "declined", "withdrawn"}        -> {"student"}
      [] to \in {"ready", "submitted_pending"}                        -> {"student", "system"}
      [] to \in {"submitted", "under_review", "more_info",
                 "offer", "rejected"}                                 -> {"university", "system"}
      [] to \in {"failed", "expired"}                                 -> {"system"}
      [] to = "enrolled"                                              -> {"university"}

(* evaluateTransition returns null, i.e. nothing stands in the way. *)
Allowed(from, to, actor) ==
    /\ from # to
    /\ CanTransition(from, to)
    /\ actor \in Authority(to)

(* INBOUND_STATUS_KINDS and stateForInboundStatus: what a partner's event  *)
(* asks for.                                                               *)
InboundKind ==
    {"received", "under_review", "more_info_required", "offer_made",
     "rejected", "withdrawn", "enrolled"}

StateForInbound(kind) ==
    CASE kind = "received"           -> "submitted"
      [] kind = "more_info_required" -> "more_info"
      [] kind = "offer_made"         -> "offer"
      [] OTHER                       -> kind
=============================================================================
