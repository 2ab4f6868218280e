------------------------------ MODULE Notices ------------------------------
(***************************************************************************)
(* What a page did, on its way to the model (browser-tools.ts): the        *)
(* listeners that hear a tab, its requests and the network gate; a bounded *)
(* log of notices in which repeats collapse into one entry; the few most   *)
(* important of those not yet delivered, which every tool result carries;  *)
(* and the notices tool, which lists the rest.                             *)
(***************************************************************************)
EXTENDS Naturals, Sequences, FiniteSets, SequencesExt

CONSTANTS Place,          \* the hosts the tab's requests go to
          Said,           \* what the page may say: console lines, exceptions, dialogs
          MaxKept,        \* MAX_NOTICES_KEPT
          PerResult,      \* MAX_NOTICES_PER_RESULT
          MaxBusEvents,   \* MAX_NOTICE_BUS_EVENTS
          MaxNoted,       \* the 200 hosts gateNoted holds before it starts afresh
          MaxActivity     \* bounds the notices of a run

\* NOTICE_SEVERITY.
Severity == [crash |-> 6, pageerror |-> 5, blocked |-> 5, http |-> 4, netfail |-> 4, dialog |-> 3,
             download |-> 3, consoleError |-> 2, consoleWarn |-> 1, redirect |-> 0]

\* The console line the browser writes for every failed load.
LoadEcho == [kind |-> "consoleError", text |-> "Failed to load resource"]

\* A tab's message: its kind, and the place or the words it is about.
Message == {[kind |-> k, text |-> p] : k \in {"redirect", "http", "blocked", "netfail", "download"},
                                       p \in Place}
           \cup Said \cup {[kind |-> "crash", text |-> "crash"]}

\* A request: of the page, or the browser's own; plain http with the headers a
\* page's request carries or without them, or a tunnel, which says nothing.
Request == [place : Place, main : BOOLEAN, mine : BOOLEAN,
            via : {"page", "bare", "tunnel"}, refused : BOOLEAN]

VARIABLES
  entries,    \* log.entries, in the order they were first heard
  seq, dropped, busEvents, activity,   \* the log's counters
  settling,   \* settleNotices of a result under way: its round and the activity before it
  voice,      \* <<what, levels that have yet to hear it, whether it was handled>>, or <<>>
  flying,     \* the requests without an answer
  noted, seen, timers, lately,   \* gateNoted, seenRequests, onDeny's timers, gate.deniedWithin
  news,       \* the messages heard since the model was last told of them
  times, told, refusedLoads      \* how often each happened, and what came of refusals

log == <<entries, seq, dropped, busEvents, activity>>
net == <<flying, noted, seen, timers, lately>>
vars == <<log, settling, voice, net, news, times, told, refusedLoads>>

Notice == [message : Message, seq : Nat, count : Nat, delivered : BOOLEAN, listed : BOOLEAN]

TypeOK ==
  /\ entries \in Seq(Notice) /\ Len(entries) <= MaxKept
  /\ {seq, dropped, busEvents, activity} \subseteq Nat
  /\ flying \subseteq Request /\ news \subseteq Message /\ times \in [Message -> Nat]
  /\ noted \cup seen \cup timers \cup told \cup refusedLoads \subseteq Place

Init ==
  /\ entries = <<>> /\ seq = 0 /\ dropped = 0 /\ busEvents = 0 /\ activity = 0
  /\ settling = <<>> /\ voice = <<>> /\ flying = {} /\ lately = FALSE
  /\ noted = {} /\ seen = {} /\ timers = {}
  /\ news = {} /\ times = [m \in Message |-> 0] /\ told = {} /\ refusedLoads = {}

Of(m) == {i \in 1..Len(entries) : entries[i].message = m}

\* noticeRank: what happened, then how often.
NoticeRank(n) == Severity[n.message.kind] * 1000 + n.count

Tells == IF busEvents < MaxBusEvents THEN busEvents' = busEvents + 1 ELSE UNCHANGED busEvents

\* mutant: a repeat of what was shown is old news
RepeatStaysOld(n) == [n EXCEPT !.count = @ + 1]

\* The same message again: an entry that was delivered is news, and the newest.
Repeat(n) == IF n.delivered THEN [n EXCEPT !.count = @ + 1, !.delivered = FALSE, !.seq = seq + 1]
                            ELSE [n EXCEPT !.count = @ + 1]

\* One shown before one that was not, then the least informative, then the oldest.
Victim(all) ==
  LET Worse(i, j) == \/ all[i].delivered /\ ~all[j].delivered
                     \/ all[i].delivered = all[j].delivered
                        /\ NoticeRank(all[i]) < NoticeRank(all[j])
      worst == {i \in 1..Len(all) : \A j \in 1..Len(all) : ~Worse(j, i)}
  IN CHOOSE i \in worst : \A j \in worst : i <= j

\* pushNotice.
Push(m) ==
  /\ activity < MaxActivity /\ activity' = activity + 1
  /\ \/ \E i \in Of(m) :
          /\ entries' = [entries EXCEPT ![i] = Repeat(@)]
          /\ seq' = IF entries[i].delivered THEN seq + 1 ELSE seq
          /\ IF entries[i].count + 1 \in {2, 10, 100} THEN Tells ELSE UNCHANGED busEvents
          /\ UNCHANGED dropped
     \/ /\ Of(m) = {}
        /\ LET longer == Append(entries, [message |-> m, seq |-> seq + 1, count |-> 1,
                                           delivered |-> FALSE, listed |-> FALSE])
           IN IF Len(longer) > MaxKept
              THEN entries' = RemoveAt(longer, Victim(longer)) /\ dropped' = dropped + 1
              ELSE entries' = longer /\ UNCHANGED dropped
        /\ seq' = seq + 1 /\ Tells

\* It happened, and a listener hears it at once.
Happens(m) ==
  /\ Push(m)
  /\ news' = news \cup {m} /\ times' = [times EXCEPT ![m] = @ + 1]
  /\ told' = IF m.kind = "blocked" THEN told \cup {m.text} ELSE told

Quiet == UNCHANGED <<log, news, times, told>>

-----------------------------------------------------------------------------
(* watchPage and watchContext *)

\* A page says something. The context hears it, and the page's own listeners if
\* the page was known before it spoke.
Speak(m) ==
  /\ activity < MaxActivity
  /\ \E levels \in {{"context"}, {"page", "context"}} : voice' = <<m, levels, FALSE>>
  /\ IF m = LoadEcho THEN UNCHANGED <<news, times>>
     ELSE news' = news \cup {m} /\ times' = [times EXCEPT ![m] = @ + 1]
  /\ UNCHANGED <<log, settling, net, told, refusedLoads>>

\* onConsole, onPageError, onDialog: handled once, whichever level hears it
\* first; what the response listener says better is not said again.
Hear(level) ==
  /\ voice # <<>> /\ level \in voice[2]
  /\ IF voice[3] \/ voice[1] = LoadEcho THEN UNCHANGED log ELSE Push(voice[1])
  /\ voice' = IF voice[2] = {level} THEN <<>> ELSE <<voice[1], voice[2] \ {level}, TRUE>>
  /\ UNCHANGED <<settling, net, news, times, told, refusedLoads>>

\* A download is cancelled and a crash is the end of the page: both are said.
PageOnly ==
  /\ \/ \E p \in Place : Happens([kind |-> "download", text |-> p])
     \/ Happens([kind |-> "crash", text |-> "crash"])
  /\ UNCHANGED <<settling, voice, net, refusedLoads>>

-----------------------------------------------------------------------------
(* watchNetwork and gate.onDeny *)

\* Only the page's own requests are heard by the context.
Send(r) ==
  /\ flying = {} /\ activity < MaxActivity /\ ~r.refused
  /\ r.mine \/ (r.via # "page" /\ ~r.main)
  /\ r.via = "tunnel" => ~\E p \in timers : p = r.place
  /\ flying' = {r}
  /\ seen' = IF r.mine THEN seen \cup {r.place} ELSE seen
  /\ UNCHANGED <<settling, voice, noted, timers, lately, refusedLoads>> /\ Quiet

Settled(r) == flying' = flying \ {r}

Blocked(p) == Happens([kind |-> "blocked", text |-> p])

\* A redirect of the page itself; the request goes on to where it points.
Redirected(r) ==
  /\ r.mine /\ r.main /\ ~r.refused
  /\ Happens([kind |-> "redirect", text |-> r.place])
  /\ UNCHANGED <<settling, voice, net, refusedLoads>>

\* An answer: what the site says is wrong is said, a missing icon is not.
Answered(r) ==
  /\ r.mine /\ ~r.refused /\ Settled(r)
  /\ Quiet \/ Happens([kind |-> "http", text |-> r.place])
  /\ UNCHANGED <<settling, voice, noted, seen, timers, lately, refusedLoads>>

\* The gate refuses it: at once if a page asked, in a moment if a tunnel may be
\* a page's, never if the browser asked for itself or the headers do not say.
Denied(r) ==
  /\ ~r.refused /\ lately' = TRUE
  /\ IF r.via = "page"
     THEN /\ noted' = (IF Cardinality(noted) > MaxNoted THEN {} ELSE noted) \cup {r.place}
          /\ Happens([kind |-> "blocked", text |-> r.place])
     ELSE UNCHANGED noted /\ Quiet
  /\ timers' = IF r.via = "tunnel" THEN timers \cup {r.place} ELSE timers
  /\ flying' = (flying \ {r}) \cup (IF r.mine THEN {[r EXCEPT !.refused = TRUE]} ELSE {})
  /\ UNCHANGED <<settling, voice, seen, refusedLoads>>

\* The moment is over: the tunnel was a page's if the page asked for that host.
Later(p) ==
  /\ p \in timers /\ timers' = timers \ {p}
  /\ IF p \in seen THEN Blocked(p) ELSE Quiet
  /\ UNCHANGED <<settling, voice, flying, noted, seen, lately, refusedLoads>>

\* The gate's 403 reaches the page: the gate has said so, unless it could not
\* tell that a page asked, and then a page load is said here.
GateAnswers(r) ==
  /\ r.refused /\ r.via # "tunnel" /\ Settled(r)
  /\ IF r.main /\ r.place \notin noted THEN Blocked(r.place) ELSE Quiet
  /\ refusedLoads' = IF r.main THEN refusedLoads \cup {r.place} ELSE refusedLoads
  /\ UNCHANGED <<settling, voice, noted, seen, timers, lately>>

\* requestfailed: the client's own rules say who blocked it; a failure just after
\* a refusal is the refusal's; a navigation that replaces a request is not one.
Failed(r) ==
  /\ r.mine /\ (r.refused => r.via = "tunnel") /\ Settled(r)
  /\ \/ (r.refused => lately) /\ Quiet
     \/ ~r.refused /\ Blocked(r.place)
     \/ (r.refused => ~lately) /\ Happens([kind |-> "netfail", text |-> r.place])
  /\ refusedLoads' = IF r.refused /\ r.main THEN refusedLoads \cup {r.place} ELSE refusedLoads
  /\ UNCHANGED <<settling, voice, noted, seen, timers, lately>>

\* Two seconds pass.
Passes ==
  /\ lately /\ lately' = FALSE
  /\ UNCHANGED <<settling, voice, flying, noted, seen, timers, refusedLoads>> /\ Quiet

-----------------------------------------------------------------------------
(* What the model is told *)

\* The n most important of these entries, the newest first among equals.
Top(some, n) ==
  LET Before(i, j) == \/ NoticeRank(entries[i]) > NoticeRank(entries[j])
                      \/ NoticeRank(entries[i]) = NoticeRank(entries[j]) /\ entries[i].seq > entries[j].seq
  IN {i \in some : Cardinality({j \in some : Before(j, i)}) < n}

\* settleNotices: with something to tell, a result waits for a lull, four rounds
\* at most.
Settle ==
  /\ settling = <<>> /\ \E i \in 1..Len(entries) : ~entries[i].delivered
  /\ settling' = <<1, activity>>
  /\ UNCHANGED <<voice, net, refusedLoads>> /\ Quiet

SettleMore ==
  /\ settling # <<>> /\ activity # settling[2] /\ settling[1] < 4
  /\ settling' = <<settling[1] + 1, activity>>
  /\ UNCHANGED <<voice, net, refusedLoads>> /\ Quiet

\* drainNotices, at the end of a tool's result: all are delivered, a few are shown.
Drain ==
  LET fresh == {i \in 1..Len(entries) : ~entries[i].delivered}
      shown == IF Cardinality(fresh) <= PerResult THEN fresh ELSE Top(fresh, PerResult)
  IN /\ settling # <<>> /\ (activity = settling[2] \/ settling[1] = 4) /\ settling' = <<>>
     /\ entries' = [i \in 1..Len(entries) |->
          IF i \in shown THEN [entries[i] EXCEPT !.delivered = TRUE, !.listed = TRUE]
          ELSE IF i \in fresh THEN [entries[i] EXCEPT !.delivered = TRUE] ELSE entries[i]]
     /\ news' = {}
     /\ UNCHANGED <<seq, dropped, busEvents, activity, voice, net, times, told, refusedLoads>>

\* The last n of these entries.
Newest(some, n) == {i \in some : Cardinality({j \in some : j > i}) < n}

\* The notices tool: those never listed first, then the most recent of the rest.
List(max) ==
  LET unseen == {i \in 1..Len(entries) : ~entries[i].listed}
      first == Newest(unseen, max)
      keep == first \cup Newest({i \in 1..Len(entries) : entries[i].listed}, max - Cardinality(first))
  IN /\ entries' = [i \in 1..Len(entries) |->
          IF i \in keep THEN [entries[i] EXCEPT !.delivered = TRUE, !.listed = TRUE]
          ELSE entries[i]]
     /\ news' = news \ {entries[i].message : i \in keep}
     /\ UNCHANGED <<seq, dropped, busEvents, activity, settling, voice, net, times, told, refusedLoads>>

\* Both levels hear what is said in one turn; everything else is a turn of its own.
Next ==
  \/ \E level \in {"page", "context"} : Hear(level)
  \/ /\ voice = <<>>
     /\ \/ \E m \in Said \cup {LoadEcho} : Speak(m)
        \/ PageOnly
        \/ \E r \in Request : Send(r)
        \/ \E r \in flying : Redirected(r) \/ Answered(r) \/ Denied(r) \/ GateAnswers(r) \/ Failed(r)
        \/ \E p \in Place : Later(p)
        \/ Passes
        \/ Settle \/ SettleMore \/ Drain \/ List(1)

Spec == Init /\ [][Next]_vars

-----------------------------------------------------------------------------

\* What is being said and not heard yet.
Unheard == IF voice = <<>> \/ voice[3] THEN {} ELSE {voice[1]}

\* What happened since the model was last told is in an entry its next result
\* carries or counts, or the log says that entries were dropped.
Pending ==
  \A m \in news \ Unheard : dropped > 0 \/ \E i \in Of(m) : ~entries[i].delivered

\* However many listeners heard it, it is counted once.
CountedOnce ==
  \A i \in 1..Len(entries) :
    LET m == entries[i].message
    IN m \notin Unheard =>
         /\ entries[i].count <= times[m]
         /\ dropped = 0 => entries[i].count = times[m]

\* A page load that was refused is told, by the gate or by the answer it gave.
RefusalsTold == refusedLoads \subseteq told \cup timers

(* What happened since the model was last told is in an entry its next result  *)
(* carries or counts, or the log says that entries were dropped: a failure     *)
(* that happens again is never old news (pushNotice, A21). It is counted once  *)
(* however many listeners heard it, and of a page load that the gate refused   *)
(* somebody tells (watchNetwork, onDeny).                                      *)
NewsPending == Pending /\ CountedOnce /\ RefusalsTold

=============================================================================
