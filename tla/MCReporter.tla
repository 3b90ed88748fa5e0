----------------------------- MODULE MCReporter -----------------------------
(* Two shards: one whose test fails and passes when it is retried, and one *)
(* with a test that passes.                                                *)
EXTENDS Reporter

CONSTANTS s1, s2, t1, t2

FlakyAndPlain ==
    [sh \in {s1, s2} |->
       IF sh = s1 THEN <<[case |-> t1, status |-> "Failed", retry |-> 0], [case |-> t1, status |-> "Passed", retry |-> 1]>>
       ELSE <<[case |-> t2, status |-> "Passed", retry |-> 0]>>]

=============================================================================
