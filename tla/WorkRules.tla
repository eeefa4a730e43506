----------------------------- MODULE WorkRules -----------------------------
(* The tables of the production floor (backend/app/assurance/service.py).  *)

WorkStates == {"review", "approved", "in_production", "quality_check",
               "ready_for_fulfilment", "on_hold", "cancelled"}

QualityStates == {"not_checked", "passed", "failed"}

WorkTransitions ==
    [review               |-> {"approved", "on_hold", "cancelled"},
     approved             |-> {"in_production", "on_hold", "cancelled"},
     in_production        |-> {"quality_check", "on_hold"},
     quality_check        |-> {"ready_for_fulfilment", "in_production", "on_hold"},
     on_hold              |-> {"review", "approved", "in_production", "cancelled"},
     ready_for_fulfilment |-> {},
     cancelled            |-> {}]

\* The state an order takes when one of its lines moves.
OrderStateOf ==
    [review               |-> "production_review",
     approved             |-> "approved_for_production",
     in_production        |-> "in_production",
     quality_check        |-> "quality_check",
     ready_for_fulfilment |-> "ready_to_ship",
     on_hold              |-> "manual_review_required",
     cancelled            |-> "cancelled"]
=============================================================================
