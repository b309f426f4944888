--------------------------- MODULE MCConfigStore ----------------------------
(* The instance of ConfigStore that TLC checks: two updates of different fields, and one *)
(* whose value does not validate, of a field that a valid update writes too.             *)
EXTENDS ConfigStore, TLC

CONSTANTS u1, u2, bad, f1, f2

FieldOf == u1 :> f1 @@ u2 :> f2 @@ bad :> f2
=============================================================================
