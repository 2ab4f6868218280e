------------------------------ MODULE MCBrowser ------------------------------
(* The browser of a run, in two worlds.  In one, two tool calls overlap on a   *)
(* session of at most two tabs.  In the other the run's process ends, while    *)
(* two calls of the open tool may be launching.                               *)
EXTENDS Browser

CONSTANTS c1, c2, o1, o2,
          Opens    \* the calls of the open tool, in the world where the process ends
MCCall == {c1, c2}

\* "none" stands for no session.
ASSUME OpensAssumption == "none" \notin Opens

VARIABLES world,
          reason, interrupts, seen, handlers, grace, at, status, row, unwritten, code,
          life, gates, opened, closing, shadowed, late

process == <<reason, interrupts, seen, handlers, grace, at, status, row, unwritten, code>>
launches == <<life, gates, opened, closing, shadowed, late>>

E == INSTANCE Shutdown WITH Open <- Opens, session <- opened

Calling == world = "calls" /\ UNCHANGED <<world, process, launches>>
Ending == world = "ending" /\ UNCHANGED <<world, vars>>

WorldInit == world \in {"calls", "ending"} /\ Init /\ E!Init
WorldNext == (Calling /\ Next) \/ (Ending /\ E!Next)

\* The fairness of Browser and of Shutdown, each in its world.
BrowserSpec ==
  /\ WorldInit /\ [][WorldNext]_<<world, vars, process, launches>>
  /\ \A c \in Call : WF_vars(Calling /\ Deadline(c))
  /\ WF_process(Ending /\ E!GraceExpires) /\ WF_process(Ending /\ E!Records)
  /\ WF_process(Ending /\ E!Lingers) /\ WF_process(Ending /\ E!Leaves)

(* The exit code and the row tell the truth (cli.ts, fatal.ts, pipeline.ts).    *)
ExitTellsTruth == E!ExitTellsTruth

(* Nothing that was open stays open (close of browser-tools.ts).               *)
SessionsClosed == E!SessionsClosed

(* An error nobody caught ends the process (fatal.ts).                         *)
FaultEnds == E!FaultEnds
=============================================================================
