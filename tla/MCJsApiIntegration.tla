------------------------- MODULE MCJsApiIntegration -------------------------
(* Small instances of JsApiIntegration for TLC. *)
EXTENDS JsApiIntegration, TLC

CONSTANTS ada, bob

OneUser  == {ada}
TwoUsers == {ada, bob}
NoUser   == {}

Users == Permutations(Customs)
=============================================================================
