------------------------------ MODULE MCRunner ------------------------------
(***************************************************************************)
(* Instances of Runner for TLC.                                            *)
(***************************************************************************)
EXTENDS Runner

\* A pre step, two tables to rewrite and one to truncate, a post step.
MCItems == {"pre", "users", "orders", "logs", "post"}

MCKind == [i \in MCItems |-> CASE i \in {"pre", "post"} -> "step"
                               [] i = "logs" -> "truncate"
                               [] OTHER -> "pages"]

MCStage == [i \in MCItems |-> CASE i = "pre" -> 1 [] i = "post" -> 3 [] OTHER -> 2]

\* users ends on a full page, orders in the middle of one; key 3 is ignored.
MCRows == [i \in MCItems |-> CASE i = "users" -> {1, 2, 4, 5}
                               [] i = "orders" -> {2, 3, 7}
                               [] OTHER -> {1}]

MCContinue == {"pre"}

=============================================================================
