---------------------------- MODULE MCThreadPool ----------------------------
(* Instances of ThreadPool for TLC.                                          *)
EXTENDS ThreadPool

CONSTANTS owner, other, t1, t2, t3

TwoClients == {owner, other}
ThreeTasks == {t1, t2, t3}
=============================================================================
