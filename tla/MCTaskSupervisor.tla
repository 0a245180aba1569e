---------------------------- MODULE MCTaskSupervisor ----------------------------
(***************************************************************************)
(* Small instances of TaskSupervisor.                                      *)
(***************************************************************************)
EXTENDS TaskSupervisor, TLC

\* Tasks of as many users.
OwnOwner == [t \in Task |-> t]

\* Tokens are interchangeable.
TokenSymmetry == Permutations(Token)
=============================================================================
