------------------------------ MODULE MCDeploy -------------------------------
(***************************************************************************)
(* Four of the services of compose.yml, one of each kind deploy.py treats  *)
(* differently: ostris is waited for by stir, which the smoke test needs;  *)
(* stir-ui has no healthcheck; governed-verifier is built from source, has *)
(* a healthcheck and no dependant, and is not in BUILT_SERVICES.           *)
(***************************************************************************)
EXTENDS Deploy

CONSTANTS ostris, stir, ui, verifier

MCService == {ostris, stir, ui, verifier}
MCDependsOn == [s \in MCService |-> IF s = stir THEN {ostris} ELSE {}]
=============================================================================
