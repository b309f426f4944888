----------------------------- MODULE MCSessions -----------------------------
(* The instance of Sessions that TLC checks: every session has an id of its own. *)
EXTENDS Sessions

OwnId == [s \in Sessions |-> s]
=============================================================================
