------------------------------ MODULE Desktop ------------------------------
(***************************************************************************)
(* One desktop session (desktop-tools.ts): a window the human chose, which *)
(* the model may look at and act in.  Every tool call awaits the driver    *)
(* several times, and calls of one message may run at once; the window     *)
(* moves, closes or changes hands in between, and the driver may answer    *)
(* late or never.                                                          *)
(*                                                                         *)
(* A call is at a listing of the windows, at the naming of the program     *)
(* behind the pid (the two awaits of verifyTarget), at the taking of the   *)
(* picture, or at the input it sent; "stage" says which check a listing or *)
(* a naming is part of.  Refusals that change nothing are left out.        *)
(***************************************************************************)
EXTENDS Naturals, FiniteSets

CONSTANTS Call,                     \* the tool calls that may run at once
          Place,                    \* where the window may be
          Size,                     \* the sizes a picture may have
          MaxActions, MaxCaptures,  \* MAX_ACTIONS_PER_SESSION, MAX_CAPTURES_PER_SESSION
          MaxBytes                  \* MAX_CAPTURE_BYTES_TOTAL

ASSUME DesktopAssumption ==
  /\ Size \subseteq Nat
  /\ {MaxActions, MaxCaptures, MaxBytes} \subseteq Nat

VARIABLES
  window,        \* where the window is; {} when it is gone
  callState,     \* what each tool call waits for
  placeOf,       \* where the window was on each capture; its domain, the captures
  consumed,      \* the captures used up
  captureCount, actionCount, capturedBytes,
  locked, closed,
  uses,          \* uses[n][c]: the inputs call c sent on capture n
  racing,        \* the calls inside the fence when the session was locked
  late           \* the inputs each call sent after that

records == <<placeOf, consumed>>
counts == <<captureCount, actionCount, capturedBytes>>
history == <<uses, racing, late>>
desktopVars == <<window, callState, records, counts, locked, closed, history>>

Stages == {"look", "before", "after", "gate", "sent"}
Nowhere == {}
Places == {{p} : p \in Place}
Anywhere == Places \cup {Nowhere}

CallState == [at : {"free", "listing", "naming", "shooting", "acting"}, stage : Stages,
              snap : Nat, seen : Anywhere, first : Anywhere, shot : Anywhere]

Free == [at |-> "free", stage |-> "look", snap |-> 0,
         seen |-> Nowhere, first |-> Nowhere, shot |-> Nowhere]

Captures == 1..MaxCaptures

\* The session's latest capture (this.last), 0 before the first.
Latest == Cardinality(DOMAIN placeOf)

DesktopTypeOK ==
  /\ window \in Anywhere
  /\ callState \in [Call -> CallState]
  /\ DOMAIN placeOf \subseteq Captures /\ \A n \in DOMAIN placeOf : placeOf[n] \in Anywhere
  /\ consumed \subseteq DOMAIN placeOf
  /\ captureCount \in 0..MaxCaptures /\ actionCount \in Nat /\ capturedBytes \in 0..MaxBytes
  /\ locked \in BOOLEAN /\ closed \in BOOLEAN
  /\ uses \in [Captures -> [Call -> Nat]]
  /\ racing \subseteq Call /\ late \in [Call -> Nat]

DesktopInit ==
  /\ window \in Places
  /\ callState = [c \in Call |-> Free]
  /\ placeOf = [n \in {} |-> Nowhere] /\ consumed = {}
  /\ captureCount = 0 /\ actionCount = 0 /\ capturedBytes = 0
  /\ locked = FALSE /\ closed = FALSE
  /\ uses = [n \in Captures |-> [c \in Call |-> 0]]
  /\ racing = {} /\ late = [c \in Call |-> 0]

-----------------------------------------------------------------------------
(* Where a call goes next. *)

Ends(c) == callState' = [callState EXCEPT ![c] = Free]
Awaits(c, s) == callState' = [callState EXCEPT ![c] = s]

\* verifyTarget up to its first await; a locked session throws.
Verify(c, s, stage) ==
  IF locked THEN Ends(c) ELSE Awaits(c, [s EXCEPT !.at = "listing", !.stage = stage])

\* Inside the fence: the call has passed the checks of gate and awaits the window.
InFence(c) == callState[c].stage = "gate" /\ callState[c].at \in {"listing", "naming"}

\* lock(): the first reason stays; the call itself throws.
Lock(c) ==
  /\ locked' = TRUE
  /\ racing' = IF locked THEN racing ELSE {d \in Call \ {c} : InFence(d)}
  /\ Ends(c)

-----------------------------------------------------------------------------
(* A call begins. *)

\* capture: counted before anything is looked at.
Capture(c) ==
  /\ callState[c].at = "free"
  /\ captureCount < MaxCaptures
  /\ captureCount' = captureCount + 1
  /\ Verify(c, Free, "before")
  /\ UNCHANGED <<window, records, actionCount, capturedBytes, locked, closed, history>>

\* mutant: a locked session is only noticed by the capture
ActUnlocked(c, n) ==
  /\ callState[c].at = "free"
  /\ actionCount < MaxActions
  /\ n = Latest /\ n \notin consumed
  /\ Awaits(c, [Free EXCEPT !.at = "listing", !.stage = "gate", !.snap = n])
  /\ UNCHANGED <<window, records, counts, locked, closed, history>>

\* mutant: one more than the cap
ActOneMore(c, n) ==
  /\ callState[c].at = "free"
  /\ ~locked
  /\ actionCount <= MaxActions
  /\ n = Latest /\ n \notin consumed
  /\ Awaits(c, [Free EXCEPT !.at = "listing", !.stage = "gate", !.snap = n])
  /\ UNCHANGED <<window, records, counts, locked, closed, history>>

\* click, typeText and key, up to gate's await: the session is live and under
\* its cap, and the capture named is the latest and not used up.
Act(c, n) ==
  /\ callState[c].at = "free"
  /\ ~locked
  /\ actionCount < MaxActions
  /\ n = Latest /\ n \notin consumed
  /\ Awaits(c, [Free EXCEPT !.at = "listing", !.stage = "gate", !.snap = n])
  /\ UNCHANGED <<window, records, counts, locked, closed, history>>

\* windowInfo.
Look(c) ==
  /\ callState[c].at = "free"
  /\ Verify(c, Free, "look")
  /\ UNCHANGED <<window, records, counts, locked, closed, history>>

-----------------------------------------------------------------------------
(* The driver answers, or does not. *)

\* listWindows: the window is where it is, or the session is locked.
Listed(c) ==
  /\ callState[c].at = "listing"
  /\ ~closed
  /\ \/ /\ window # Nowhere
        /\ Awaits(c, [callState[c] EXCEPT !.at = "naming", !.seen = window])
        /\ UNCHANGED <<locked, racing>>
     \/ window = Nowhere /\ Lock(c)
  /\ UNCHANGED <<window, records, counts, closed, uses, late>>

\* A listing or a picture that fails or is not there in time is an error only.
GivesUp(c) ==
  /\ callState[c].at \in {"listing", "shooting"}
  /\ Ends(c)
  /\ UNCHANGED <<window, records, counts, locked, closed, history>>

\* processIdentity: another program behind the pid, or one that cannot be named or is
\* of a denied kind, locks the session.
NamedOther(c) ==
  /\ callState[c].at = "naming"
  /\ Lock(c)
  /\ UNCHANGED <<window, records, counts, closed, uses, late>>

\* The check was a call's last, or the one before the picture.
Named(c) ==
  /\ callState[c].at = "naming"
  /\ \/ callState[c].stage \in {"look", "sent"} /\ Ends(c)
     \/ /\ callState[c].stage = "before"
        /\ Awaits(c, [callState[c] EXCEPT !.at = "shooting", !.first = callState[c].seen])
  /\ UNCHANGED <<window, records, counts, locked, closed, history>>

\* The picture, then the window again.
Shoots(c) ==
  /\ callState[c].at = "shooting"
  /\ ~closed
  /\ window # Nowhere
  /\ Verify(c, [callState[c] EXCEPT !.shot = window], "after")
  /\ UNCHANGED <<window, records, counts, locked, closed, history>>

\* capture's end: the window did not move, the picture is sound and the bytes
\* are there; the new capture is the latest.
Keeps(c) ==
  /\ callState[c].at = "naming" /\ callState[c].stage = "after"
  /\ \/ /\ callState[c].seen = callState[c].first
        /\ \E size \in Size :
             /\ capturedBytes + size <= MaxBytes
             /\ capturedBytes' = capturedBytes + size
        /\ placeOf' = [n \in DOMAIN placeOf \cup {Latest + 1} |->
                         IF n = Latest + 1 THEN callState[c].shot ELSE placeOf[n]]
     \/ UNCHANGED <<capturedBytes, placeOf>>
  /\ Ends(c)
  /\ UNCHANGED <<window, consumed, captureCount, actionCount, locked, closed, history>>

\* mutant: the capture is used up when the action is over
SendsFirst(c) ==
  LET n == callState[c].snap IN
  /\ callState[c].at = "naming" /\ callState[c].stage = "gate"
  /\ \/ callState[c].seen # placeOf[n] /\ Ends(c) /\ UNCHANGED <<actionCount, uses, late>>
     \/ /\ callState[c].seen = placeOf[n] /\ ~closed
        /\ actionCount' = actionCount + 1
        /\ uses' = [uses EXCEPT ![n][c] = @ + 1]
        /\ late' = IF locked THEN [late EXCEPT ![c] = @ + 1] ELSE late
        /\ Awaits(c, [Free EXCEPT !.at = "acting", !.stage = "sent"])
  /\ UNCHANGED <<window, records, captureCount, capturedBytes, locked, closed, racing>>

\* gate's end: the window is where the capture has it; the capture is used up and
\* the input goes to the driver, unless the point is outside, the element is
\* unknown or the driver is closed.
Sends(c) ==
  LET n == callState[c].snap IN
  /\ callState[c].at = "naming" /\ callState[c].stage = "gate"
  /\ \/ Ends(c) /\ UNCHANGED <<consumed, actionCount, uses, late>>
     \/ /\ callState[c].seen = placeOf[n]
        /\ consumed' = consumed \cup {n}
        /\ actionCount' = actionCount + 1
        /\ \/ Ends(c) /\ UNCHANGED <<uses, late>>
           \/ /\ ~closed
              /\ uses' = [uses EXCEPT ![n][c] = @ + 1]
              /\ late' = IF locked THEN [late EXCEPT ![c] = @ + 1] ELSE late
              /\ Awaits(c, [Free EXCEPT !.at = "acting", !.stage = "sent"])
  /\ UNCHANGED <<window, placeOf, captureCount, capturedBytes, locked, closed, racing>>

\* The driver did it, and the window is looked at once more; or it refused.
Acted(c) ==
  /\ callState[c].at = "acting"
  /\ \/ ~closed /\ Verify(c, Free, "sent")
     \/ Ends(c)
  /\ UNCHANGED <<window, records, counts, locked, closed, history>>

\* mutant: an input is waited for without a limit
TimedOutNever(c) == FALSE /\ UNCHANGED desktopVars

\* guardedInput: whether the input was sent is unknown, so the session is locked.
TimedOut(c) ==
  /\ callState[c].at = "acting"
  /\ Lock(c)
  /\ UNCHANGED <<window, records, counts, closed, uses, late>>

-----------------------------------------------------------------------------
(* Around the session. *)

\* The window moves or goes.
Changes ==
  /\ window # Nowhere
  /\ window' \in Anywhere
  /\ UNCHANGED <<callState, records, counts, locked, closed, history>>

\* close: the run is over and the driver is shut down.
CloseDesktop ==
  /\ ~closed
  /\ closed' = TRUE
  /\ UNCHANGED <<window, callState, records, counts, locked, history>>

DesktopNext ==
  \/ \E c \in Call : \/ Capture(c) \/ Look(c) \/ Listed(c) \/ GivesUp(c) \/ NamedOther(c)
                     \/ Named(c) \/ Shoots(c) \/ Keeps(c) \/ Sends(c) \/ Acted(c) \/ TimedOut(c)
  \/ \E c \in Call, n \in DOMAIN placeOf : Act(c, n)
  \/ Changes
  \/ CloseDesktop

DesktopSpec == DesktopInit /\ [][DesktopNext]_desktopVars

\* withTimeout: what is waited for comes, or is given up.
FairDesktopSpec ==
  /\ DesktopSpec
  /\ \A c \in Call : /\ WF_desktopVars(GivesUp(c)) /\ WF_desktopVars(TimedOut(c))
                     /\ WF_desktopVars(NamedOther(c) \/ Named(c) \/ Keeps(c) \/ Sends(c))

-----------------------------------------------------------------------------
(* Properties. *)

(* A capture is good for one input of each call that runs, however they cross: *)
(* what it was used for cannot be tried again (gate uses it up before the      *)
(* dispatch).  With calls one after another, it is good for one input.         *)
OncePerCall == \A n \in Captures, c \in Call : uses[n][c] <= 1

(* After the session is locked, nothing is sent but by calls that were inside  *)
(* the fence then, and by them once.  With calls one after another: nothing.   *)
LockDrains == \A c \in Call : late[c] <= (IF c \in racing THEN 1 ELSE 0)

(* The caps are passed by no more inputs than may be inside the fence with the *)
(* last one (gate counts after its await, capture before).                     *)
CapsHold == actionCount < MaxActions + Cardinality(Call) /\ Latest <= MaxCaptures

(* Every call comes to an end, whatever the driver does (withTimeout).         *)
EveryCallEnds == \A c \in Call : callState[c].at # "free" ~> callState[c].at = "free"

=============================================================================
