----------------------------- MODULE Lifecycle -----------------------------
(***************************************************************************)
(* The lifecycle statuses of governed entities and the tables of allowed   *)
(* status changes (models/lifecycle.py).  "deployed" is not a member of    *)
(* the EntityStatus enum, but the workflow engine writes it to contracts.  *)
(***************************************************************************)

EntityStatus == {"draft", "sandbox", "proposed", "under_review", "approved",
                 "active", "deprecated", "retired"}

\* DATA_PRODUCT_TRANSITIONS: status -> statuses it may be changed to.
ProductTransitions == [s \in EntityStatus |->
    CASE s = "draft"        -> {"sandbox", "proposed", "deprecated"}
      [] s = "sandbox"      -> {"draft", "proposed", "deprecated"}
      [] s = "proposed"     -> {"draft", "under_review", "deprecated"}
      [] s = "under_review" -> {"draft", "approved", "deprecated"}
      [] s = "approved"     -> {"active", "draft", "deprecated"}
      [] s = "active"       -> {"deprecated"}
      [] s = "deprecated"   -> {"retired", "active"}
      [] s = "retired"      -> {}]
=============================================================================
