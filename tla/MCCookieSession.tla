---------------------------- MODULE MCCookieSession ----------------------------
(***************************************************************************)
(* A small instance of CookieSession.                                      *)
(***************************************************************************)
EXTENDS CookieSession, TLC

\* Threads are interchangeable.
ThreadSymmetry == Permutations(Thread)
=============================================================================
