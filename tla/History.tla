------------------------------ MODULE History ------------------------------
(***************************************************************************)
(* The event bus's history (bus.ts): every event of the process, kept for  *)
(* a page that connects later and for the saved report.  Past its limit it *)
(* is trimmed in chunks: bulk goes first, oldest first; what gives the run *)
(* its shape stays, and what a person is still asked.                      *)
(***************************************************************************)
EXTENDS Naturals, Sequences, SequencesExt

CONSTANTS HistoryLimit,    \* HISTORY_LIMIT
          Id,              \* tool calls, and the requests about them
          MaxEmits         \* bounds the events of a run

VARIABLES
  history,     \* this.history: the kind of each event and what it is about
  pending,     \* the requests nobody has answered
  called, returned, asked,   \* the calls made and answered, the requests made
  trimmed,     \* this.trimmed
  emitted,     \* the events emitted, but for those a newer one replaced
  overfull     \* structure alone has filled the history

vars == <<history, pending, called, returned, asked, trimmed, emitted, overfull>>

Slack == IF HistoryLimit < 4 THEN 1 ELSE HistoryLimit \div 4
Event(kind, id) == [kind |-> kind, id |-> id]
Structural(e) == e.kind \in {"run-start", "phase", "resolved", "lineage"}

TypeOK ==
  /\ \A e \in ToSet(history) : e.kind \in {"run-start", "phase", "resolved", "lineage",
                                            "text", "call", "result", "request"}
  /\ pending \subseteq asked /\ returned \subseteq called
  /\ {trimmed, emitted} \subseteq Nat /\ overfull \in BOOLEAN

Init ==
  /\ history = <<Event("run-start", 0)>>
  /\ pending = {} /\ called = {} /\ returned = {} /\ asked = {}
  /\ trimmed = 0 /\ emitted = 1 /\ overfull = FALSE

\* mutant: a request is bulk
ShapeOnly(e, waiting) == Structural(e)

\* Whether trimming keeps an event while there is bulk: structure, and what is still asked.
Shape(e, waiting) == Structural(e) \/ (e.kind = "request" /\ e.id \in waiting)

\* The oldest bulk goes, as long as the history is over its limit.
Passed(was, e, waiting) ==
  IF was.drop > 0 /\ ~Shape(e, waiting) THEN [kept |-> was.kept, drop |-> was.drop - 1]
                                        ELSE [kept |-> Append(was.kept, e), drop |-> was.drop]
Kept(h, waiting) ==
  LET loop[i \in 0..Len(h)] == IF i = 0 THEN [kept |-> <<>>, drop |-> Len(h) - HistoryLimit]
                                        ELSE Passed(loop[i - 1], h[i], waiting)
  IN loop[Len(h)]

\* s without those of its elements that are gone.
Without(s, gone) ==
  LET left[i \in 0..Len(s)] ==
        IF i = 0 THEN <<>> ELSE IF s[i] \in gone THEN left[i - 1] ELSE Append(left[i - 1], s[i])
  IN left[Len(s)]

\* Results without their call.
Headless(h) == {e \in ToSet(h) : e.kind = "result" /\ Event("call", e.id) \notin ToSet(h)}
Whole(h) == Without(h, Headless(h))

\* trimHistory: bulk, then results whose call went, then the oldest of what is left over.
Trim(h, waiting) ==
  IF Len(h) <= HistoryLimit + Slack THEN [h |-> h, n |-> 0, over |-> FALSE]
  ELSE LET loop == Kept(h, waiting)
           whole == Whole(loop.kept)
       IN [h |-> SubSeq(whole, loop.drop + 1, Len(whole)),
           n |-> (Len(h) - Len(loop.kept)) + (Len(loop.kept) - Len(whole)) + loop.drop,
           over |-> loop.drop > 0]

\* emitEvent: a newer tree replaces the older one.
Emit(e, waiting) ==
  LET old == IF e.kind = "lineage" THEN Without(history, {e}) ELSE history
      new == Append(old, e)
  IN /\ emitted < MaxEmits
     /\ history' = Trim(new, waiting).h
     /\ trimmed' = trimmed + Trim(new, waiting).n
     /\ emitted' = emitted + 1 - (Len(history) - Len(old))
     /\ overfull' = (overfull \/ Trim(new, waiting).over)

Says == /\ \E kind \in {"text", "phase", "lineage"} : Emit(Event(kind, 0), pending)
        /\ UNCHANGED <<pending, called, returned, asked>>

Calls(i) == /\ i \notin called /\ called' = called \cup {i}
            /\ Emit(Event("call", i), pending)
            /\ UNCHANGED <<pending, returned, asked>>

Returns(i) == /\ i \in called \ (returned \cup pending) /\ returned' = returned \cup {i}
              /\ Emit(Event("result", i), pending)
              /\ UNCHANGED <<pending, called, asked>>

\* requestApproval: pending before its event is emitted.
Asks(i) == /\ i \in called \ (asked \cup returned)
           /\ asked' = asked \cup {i} /\ pending' = pending \cup {i}
           /\ Emit(Event("request", i), pending')
           /\ UNCHANGED <<called, returned>>

\* resolveApproval and the event that says so.
Resolves(i) == /\ i \in pending /\ pending' = pending \ {i}
               /\ Emit(Event("resolved", i), pending')
               /\ UNCHANGED <<called, returned, asked>>

Next == Says \/ \E i \in Id : Calls(i) \/ Returns(i) \/ Asks(i) \/ Resolves(i)

Spec == Init /\ [][Next]_vars

-----------------------------------------------------------------------------

\* trimNote: a transcript that is not whole says so at its top.
TrimNote == IF trimmed = 0 THEN <<>> ELSE <<Event("trimmed", trimmed)>>

\* replay: what a page that connects now is sent.
Replay == TrimNote \o Without(history, {e \in ToSet(history) : e.kind = "request" /\ e.id \notin pending})

(* A page that connects now is shown how the run started and everything it is  *)
(* still asked, however long the run - unless its structure alone fills the     *)
(* history - and is told exactly how much is missing (trimHistory, replay,      *)
(* trimNote).                                                                  *)
ReplayWhole ==
  /\ Len(history) <= emitted /\ Len(history) <= HistoryLimit + Slack
  /\ LET missing == emitted - Len(history)
     IN IF missing = 0 THEN TrimNote = <<>> ELSE Replay[1] = Event("trimmed", missing)
  /\ overfull \/ /\ Event("run-start", 0) \in ToSet(Replay)
                 /\ \A i \in pending : Event("request", i) \in ToSet(Replay)
=============================================================================
