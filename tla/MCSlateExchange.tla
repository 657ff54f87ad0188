-------------------------- MODULE MCSlateExchange --------------------------
(* Values of SlateExchange's constants for TLC. *)
EXTENDS SlateExchange, TLC

By(method, finalize, post, estimate) ==
    [method |-> method, finalize |-> finalize, post |-> post, estimate |-> estimate]

\* One send with every kind of arguments beside one of the two usual kinds.
AllOrders ==
    [s1 |-> {By("http", TRUE, TRUE, FALSE), By("http", FALSE, TRUE, FALSE),
             By("async", TRUE, TRUE, FALSE), By("file", FALSE, FALSE, FALSE),
             By("async", TRUE, TRUE, TRUE), By("http", TRUE, TRUE, TRUE)},
     s2 |-> {By("http", TRUE, FALSE, FALSE)}]
AsyncOrders == [s1 |-> {By("async", TRUE, TRUE, FALSE)}]
=============================================================================
