----------------------------- MODULE MCDatabase -----------------------------
(* An instance of Database for TLC.                                          *)
EXTENDS Database

CONSTANTS a, b

TwoThreads == {a, b}
=============================================================================
