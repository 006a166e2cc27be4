---- MODULE MCGePresenter ----
(* GePresenter for TLC: the constants are given in the configurations.     *)
EXTENDS GePresenter
====
