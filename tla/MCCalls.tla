------------------------------- MODULE MCCalls -------------------------------
(***************************************************************************)
(* Instances of Calls for TLC.  Three users are what a user wanted by two  *)
(* others takes; a third call id lets two calls be in progress while a     *)
(* stranded entry still names a call that is gone.                         *)
(***************************************************************************)
EXTENDS Calls, TLC

CONSTANTS u1, u2, u3, c1, c2, c3

TwoUsers   == {u1, u2}
ThreeUsers == {u1, u2, u3}
TwoCalls   == {c1, c2}
ThreeCalls == {c1, c2, c3}

CallSymmetry == Permutations(CallIds)
==============================================================================
