----------------------------- MODULE MCApproval -----------------------------
(***************************************************************************)
(* Instances of Approval for TLC.  A click, a key press and a drag are     *)
(* desktop input, "look" a desktop capture; "npm" is a shell command with  *)
(* one rule and "build" a chain whose rules are npm's and git's; "ls" only *)
(* reads.                                                                  *)
(***************************************************************************)
EXTENDS Approval

CONSTANTS click, key, drag, look, npm, build, ls, RNpm, RGit, RLook, t1, t2

MCKind == [c \in Call |-> CASE c \in {click, key, drag} -> "input"
                            [] c = look           -> "look"
                            [] c = ls             -> "readonly"
                            [] OTHER              -> "other"]

MCRules == [c \in Call |-> CASE c = npm   -> {RNpm}
                             [] c = build -> {RNpm, RGit}
                             [] c = look  -> {RLook}
                             [] OTHER     -> {}]

Symmetry == Permutations({t1, t2})

\* said only remembers: no guard reads it.
WithoutSaid == <<status, aborted, pending, rules, streak, history, stopped, over,
                 terminal, open, view, toTab, toServer>>

\* One input is like another: they are asked in one order.
InOrder ==
  /\ key \in Call /\ status[key] # "new" => status[click] # "new"
  /\ drag \in Call /\ status[drag] # "new" => status[key] # "new"

InputsSpec == Init /\ [][Next /\ InOrder']_vars /\ \A c \in Call : WF_vars(Abort(c))
=============================================================================
