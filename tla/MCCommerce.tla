---------------------------- MODULE MCCommerce ----------------------------
(* Small instances of Commerce for TLC. *)
EXTENDS Commerce, TLC

CONSTANTS k1, k2, q1, q2, w1, w2    \* model values

\* Order states an administrator asks for.
NoTargets  == {}
AllTargets == OrderStates \ {"none"}
FewTargets == {"cancelled", "manual_review_required"}

\* Kinds of provider event.
SuccessKind   == {"success"}
RaceKinds     == {"success", "failure", "refund"}
RefundKinds   == {"success", "refund"}
MismatchKinds == {"success", "mismatch"}
MostKinds     == EventKinds \ {"failure"}   \* race has failures

\* Two requests in progress are interchangeable.
RequestSymmetry == Permutations({w1, w2})
=============================================================================
