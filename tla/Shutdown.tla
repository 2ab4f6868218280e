------------------------------ MODULE Shutdown ------------------------------
(***************************************************************************)
(* How a run's process ends (cli.ts, fatal.ts, run-control.ts, the end of  *)
(* pipeline.ts and the session's opening and closing in browser-tools.ts). *)
(* A stop, an interrupt, an error nobody caught and the run's own end may  *)
(* come in any order, also while the browser is being closed and while one *)
(* is still being launched.                                                *)
(***************************************************************************)
EXTENDS Naturals

CONSTANT Open        \* calls of the open tool

VARIABLES
  reason,      \* control.reason: why the run was stopped
  interrupts,  \* signals so far
  seen,        \* errors the fatal handlers saw
  handlers,    \* they are installed
  grace,       \* their timer: off, set or fired
  at,          \* how far the process is
  status,      \* finalStatus
  row,         \* the run's status in the database
  unwritten,   \* the database could not be written, and the user was told
  code,        \* the exit code
  life,        \* the browser of each call
  gates,       \* the calls whose gate is listening
  session,     \* the session the manager holds, by the call that opened it
  closing,     \* the session being closed
  shadowed, late   \* sessions another one took the place of; those that came after the close

vars == <<reason, interrupts, seen, handlers, grace, at, status, row, unwritten, code,
          life, gates, session, closing, shadowed, late>>
browserVars == <<life, gates, session, closing, shadowed, late>>
stopVars == <<reason, interrupts, seen, handlers, grace>>

None == "none"
Statuses == {"done", "failed", "stopped"}
Lives == {"idle", "launching", "launched", "open", "closed", "stuck", "failed", "leaked"}

TypeOK ==
  /\ reason \in {None, "cap", "page", "interrupt", "error"} /\ {interrupts, seen} \subseteq 0..2
  /\ handlers \in BOOLEAN /\ grace \in {"off", "set", "fired"}
  /\ at \in {"running", "closing", "shutting", "recording", "lingering", "leaving", "exited"}
  /\ status \in Statuses \cup {None} /\ row \in Statuses \cup {"running"} /\ unwritten \in BOOLEAN
  /\ code \in {None, "0", "1", "signal"}
  /\ life \in [Open -> Lives] /\ gates \subseteq Open /\ {session, closing} \subseteq Open \cup {None}
  /\ shadowed \subseteq Open /\ late \subseteq Open

Init ==
  /\ reason = None /\ interrupts = 0 /\ seen = 0 /\ handlers = TRUE /\ grace = "off"
  /\ at = "running" /\ status = None /\ row = "running" /\ unwritten = FALSE /\ code = None
  /\ life = [o \in Open |-> "idle"] /\ gates = {} /\ session = None /\ closing = None
  /\ shadowed = {} /\ late = {}

-----------------------------------------------------------------------------
(* The switch and who throws it. *)

\* RunControl.stop: the first reason wins.
Stop(why) == reason' = IF reason = None THEN why ELSE reason

Exit(c) == at' = "exited" /\ code' = c
Stays == UNCHANGED <<at, code>>

\* The cost cap and the Stop button.
StopsRun(why) ==
  /\ at # "exited" /\ Stop(why)
  /\ UNCHANGED <<interrupts, seen, handlers, grace, status, row, unwritten>> /\ UNCHANGED browserVars
  /\ Stays

\* onSignal: the first stops the run, the second quits.
Interrupt ==
  /\ at # "exited" /\ interrupts' = interrupts + 1
  /\ IF interrupts > 0 THEN Exit("signal") /\ UNCHANGED reason ELSE Stop("interrupt") /\ Stays
  /\ UNCHANGED <<seen, handlers, grace, status, row, unwritten>> /\ UNCHANGED browserVars

\* An error nobody caught: the first stops the run and sets the timer, the second quits;
\* without the handlers it ends the process.
Fault ==
  /\ at # "exited"
  /\ IF ~handlers THEN Exit("1") /\ UNCHANGED <<reason, seen, grace>>
     ELSE /\ seen' = seen + 1
          /\ IF seen > 0 THEN Exit("1") /\ UNCHANGED <<reason, grace>>
                         ELSE Stop("error") /\ grace' = "set" /\ Stays
  /\ UNCHANGED <<interrupts, handlers, status, row, unwritten>> /\ UNCHANGED browserVars

\* mutant: the timer of the first error is never set off
GraceNever == FALSE /\ UNCHANGED vars

GraceExpires ==
  /\ at # "exited" /\ grace = "set" /\ grace' = "fired" /\ Exit("1")
  /\ UNCHANGED <<reason, interrupts, seen, handlers, status, row, unwritten>> /\ UNCHANGED browserVars

-----------------------------------------------------------------------------
(* The run's own end. *)

\* The loop is over, however: the finally block begins.
RunEnds(st) ==
  /\ at = "running" /\ at' = "closing" /\ status' = st
  /\ UNCHANGED <<row, unwritten, code>> /\ UNCHANGED stopVars /\ UNCHANGED browserVars

\* close: the session leaves the map before anything is awaited; without one there is nothing to do.
CloseBegins ==
  /\ at = "closing" /\ closing' = session /\ session' = None
  /\ at' = IF session = None THEN "recording" ELSE "shutting"
  /\ UNCHANGED <<status, row, unwritten, code, life, gates, shadowed, late>> /\ UNCHANGED stopVars

\* mutant: an error of the browser leaves the finally block
CloseThrows ==
  /\ at = "shutting" /\ closing' = None
  /\ \E shuts \in BOOLEAN :
       /\ life' = [life EXCEPT ![closing] = IF shuts THEN "closed" ELSE "stuck"]
       /\ IF shuts THEN at' = "recording" /\ UNCHANGED code ELSE Exit("1")
  /\ gates' = gates \ {closing}
  /\ UNCHANGED <<status, row, unwritten, session, shadowed, late>> /\ UNCHANGED stopVars

\* mutant: the gate is closed after the browser, if that closed
CloseStopsEarly ==
  /\ at = "shutting" /\ at' = "recording" /\ closing' = None
  /\ \E shuts \in BOOLEAN :
       /\ life' = [life EXCEPT ![closing] = IF shuts THEN "closed" ELSE "stuck"]
       /\ gates' = IF shuts THEN gates \ {closing} ELSE gates
  /\ UNCHANGED <<status, row, unwritten, code, session, shadowed, late>> /\ UNCHANGED stopVars

\* Context and browser are closed, or fail to; the gate is closed either way, and nothing is thrown.
CloseEnds ==
  /\ at = "shutting" /\ at' = "recording" /\ closing' = None
  /\ \E shuts \in BOOLEAN : life' = [life EXCEPT ![closing] = IF shuts THEN "closed" ELSE "stuck"]
  /\ gates' = gates \ {closing}
  /\ UNCHANGED <<status, row, unwritten, code, session, shadowed, late>> /\ UNCHANGED stopVars

\* What installFatalHandlers returned: the timer is cleared and the handlers are gone.
Uninstalls == handlers' = FALSE /\ grace' = "off"

\* finishRun (a write that fails is said), run-end, the handlers removed, the report: in one go.
Records ==
  /\ at = "recording" /\ at' = "lingering"
  /\ \/ row' = status /\ UNCHANGED unwritten
     \/ unwritten' = TRUE /\ UNCHANGED row
  /\ Uninstalls
  /\ UNCHANGED <<reason, interrupts, seen, status, code>> /\ UNCHANGED browserVars

\* The pages have had their last events: the database is closed, then the server.
Lingers ==
  /\ at = "lingering" /\ at' = "leaving"
  /\ UNCHANGED <<status, row, unwritten, code>> /\ UNCHANGED stopVars /\ UNCHANGED browserVars

Leaves ==
  /\ at = "leaving"
  /\ Exit(IF interrupts > 0 THEN "signal" ELSE IF status = "done" THEN "0" ELSE "1")
  /\ UNCHANGED <<status, row, unwritten>> /\ UNCHANGED stopVars /\ UNCHANGED browserVars

-----------------------------------------------------------------------------
(* The open tool's getOrCreate, which nobody waits for once the run is stopped. *)

LaunchBegins(o) ==
  /\ at = "running" /\ life[o] = "idle" /\ session = None
  /\ life' = [life EXCEPT ![o] = "launching"] /\ gates' = gates \cup {o}
  /\ UNCHANGED <<at, status, row, unwritten, code, session, closing, shadowed, late>>
  /\ UNCHANGED stopVars

\* The browser starts, or does not: then the gate goes with it.
Launches(o) ==
  /\ at # "exited" /\ life[o] = "launching"
  /\ \/ life' = [life EXCEPT ![o] = "launched"] /\ UNCHANGED gates
     \/ life' = [life EXCEPT ![o] = "failed"] /\ gates' = gates \ {o}
  /\ UNCHANGED <<at, status, row, unwritten, code, session, closing, shadowed, late>>
  /\ UNCHANGED stopVars

\* Its page is there and the manager holds it, in the place of any other; what fails before
\* that is nobody's.
Registers(o) ==
  /\ at # "exited" /\ life[o] = "launched"
  /\ \/ /\ life' = [life EXCEPT ![o] = "open"] /\ session' = o
        /\ shadowed' = shadowed \cup ({session} \ {None})
        /\ late' = IF at \in {"running", "closing"} THEN late ELSE late \cup {o}
     \/ life' = [life EXCEPT ![o] = "leaked"] /\ UNCHANGED <<session, shadowed, late>>
  /\ UNCHANGED <<at, status, row, unwritten, code, gates, closing>> /\ UNCHANGED stopVars

Next ==
  \/ \E why \in {"cap", "page"} : StopsRun(why)
  \/ Interrupt \/ Fault \/ GraceExpires
  \/ \E st \in Statuses : RunEnds(st)
  \/ CloseBegins \/ CloseEnds \/ Records \/ Lingers \/ Leaves
  \/ \E o \in Open : LaunchBegins(o) \/ Launches(o) \/ Registers(o)

\* Timers fire and a server that is closed by force closes; the run itself may hang, and
\* so may the closing of a browser.
Spec == Init /\ [][Next]_vars /\ WF_vars(GraceExpires) /\ WF_vars(Records) /\ WF_vars(Lingers)
             /\ WF_vars(Leaves)

-----------------------------------------------------------------------------

(* Exit code 0 is a run that is done and said to be done, uninterrupted; and a  *)
(* run is left "running" in the database only by a second interrupt, a second   *)
(* error, the end of the grace period, or a database the user was told of       *)
(* (finally of runPipeline, close, onSignal, handle).                          *)
ExitTellsTruth ==
  at = "exited" =>
    /\ code = "0" => status = "done" /\ interrupts = 0 /\ (row = "done" \/ unwritten)
    /\ row = "running" => interrupts = 2 \/ seen = 2 \/ grace = "fired" \/ unwritten

(* Once the browser was closed for the run, no session is open and no gate is    *)
(* listening - but for one whose launch was still going on then, failed half     *)
(* way, or had another launched beside it (getOrCreate, close).                 *)
SessionsClosed ==
  at \in {"recording", "lingering", "leaving"} =>
    \A o \in Open :
      (life[o] = "open" \/ o \in gates)
        => o \in shadowed \cup late \/ life[o] \in {"launching", "launched", "leaked"}

(* An error nobody caught ends the process, also if the run or the browser never *)
(* stops (installFatalHandlers).                                                *)
FaultEnds == (seen > 0) ~> (at = "exited")
=============================================================================
