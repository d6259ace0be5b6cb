--------------------------------- MODULE Parts ---------------------------------
(* What the models of several parts of the program side by side share: a   *)
(* behaviour is one of one part, chosen at the start, whose variables lie  *)
(* in v1, v2, ... in the order of its vars.  The variables a part has no   *)
(* use for stay 0.                                                         *)
EXTENDS Integers, Sequences, TLC

CONSTANTS
    Callers,        \* requests, jobs, or instances of the program
    None

VARIABLES part, v1, v2, v3, v4, v5, v6, v7, v8, v9, v10, v11, v12
allVars == <<part, v1, v2, v3, v4, v5, v6, v7, v8, v9, v10, v11, v12>>

Unused12 == v12 = 0
Unused11 == v11 = 0 /\ Unused12
Unused10 == v10 = 0 /\ Unused11
Unused9  == v9 = 0 /\ Unused10
Unused8  == v8 = 0 /\ Unused9
Unused7  == v7 = 0 /\ Unused8
Unused6  == v6 = 0 /\ Unused7
Unused5  == v5 = 0 /\ Unused6
=============================================================================
