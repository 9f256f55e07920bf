----------------------------- MODULE MCEnvPrep -----------------------------
(***************************************************************************)
(* Requirements files for EnvPrep. Versions are numbered in version order: *)
(* 1 = 0.0.1b60, 2 = 0.0.1b70, 3 = 0.1.0, 4 = 0.1.1, 5 = 0.2.0.            *)
(***************************************************************************)
EXTENDS EnvPrep

MCV0_1_1 == 4

\* A requirements.txt line with one constraint and no second one.
Line(op, v) == [op1 |-> op, v1 |-> v, op2 |-> "", v2 |-> NoVersion]

MCRequirementsFiles ==
    { <<Line(">=", 1)>>,                                          \* dify_plugin>=0.0.1b60
      <<Line("==", 5)>>,                                          \* dify_plugin==0.2.0
      <<[op1 |-> ">=", v1 |-> 3, op2 |-> "<", v2 |-> 5]>>,        \* dify_plugin>=0.1.0,<0.2.0
      <<>> }                                                      \* no dify_plugin line

=============================================================================
