--------------------------- MODULE MCProfileLock ---------------------------
(***************************************************************************)
(* Instances of ProfileLock for TLC: two processes, and one that died      *)
(* before, perhaps inside a recovery, whose directory is still there.      *)
(***************************************************************************)
EXTENDS ProfileLock

CONSTANTS p1, p2, p3

RaceInit ==
  /\ dead = {p3}
  /\ lock \in Left
  /\ mutex \in {Nothing, p3}
  /\ old = {}
  /\ pc = [p \in Proc |-> IF p = mutex THEN "rmdir" ELSE "idle"]
  /\ found = [p \in Proc |-> Broken]
  /\ tries = [p \in Proc |-> 0]
  /\ slips = {}

RaceSpec == RaceInit /\ [][LockNext]_lockVars /\ Fairness
=============================================================================
