--------------------------- MODULE MCTestHarness ---------------------------
(* A small instance of TestHarness for TLC. *)
EXTENDS TestHarness

\* Two methods where one can meet what the other left; the cch class, whose
\* resources live for the class, has one.
MCMaxMethods == [s \in Suites |-> IF s = "cch" THEN 1 ELSE 2]
=============================================================================
