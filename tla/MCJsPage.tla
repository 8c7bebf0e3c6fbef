------------------------------ MODULE MCJsPage ------------------------------
(* An app of every kind, for TLC. *)
EXTENDS JsPage

AllHosts == {"app", "history", "effect", "snippet"}
SomeCalls ==
    [app     |-> Kinds \ {"flush"}, history |-> {"identify"},
     effect  |-> {"identify"},      snippet |-> {"track", "identify"}]
=============================================================================
