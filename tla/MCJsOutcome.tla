----------------------------- MODULE MCJsOutcome ----------------------------
(* The answers of CONTRACT.md section 4, for TLC. *)
EXTENDS JsOutcome

Plain(status) == [status |-> status, quota |-> FALSE, header |-> Absent, seconds |-> Absent]
Limited(h, n) == [Plain(429) EXCEPT !.header = h, !.seconds = n]

ContractAnswers ==
    {Plain(200), Plain(400), Plain(NoStatus), Plain(503), [Plain(429) EXCEPT !.quota = TRUE],
     Limited(2, 1), Limited(Absent, 3), Limited(0, 3), Plain(429)}
Callbacks == BOOLEAN
=============================================================================
