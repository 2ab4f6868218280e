------------------------------ MODULE Browser ------------------------------
(***************************************************************************)
(* One open browser session (browser-tools.ts): its tabs, the refs of the  *)
(* latest inspect, the latest screenshot, and the tool calls that use      *)
(* them.  A page navigates, opens popups and closes at any time; every     *)
(* tool call awaits the page, may be dropped by the browser, may fail, and *)
(* is given up after a deadline, after which it may still go on.           *)
(*                                                                         *)
(* A document is a tab and its navGen.  The ids of refs and screenshots    *)
(* come from counters, never used twice, so an earlier one is simply       *)
(* refused; the scroll position, the viewport and the policy's view of a   *)
(* page only add refusals, which Fails covers.                             *)
(***************************************************************************)
EXTENDS Naturals, Sequences, FiniteSets, SequencesExt

CONSTANTS Call,          \* the tool calls the model makes
          Tool,          \* the tools in use
          MaxOpen,       \* MAX_TABS_PER_SESSION
          MaxEver,       \* MAX_TABS_EVER
          MaxShots,      \* MAX_SCREENSHOTS_PER_SESSION
          MaxNav         \* bounds the navigations of one tab

ReadOnly == {"inspect", "text", "screenshot"}
Acting == {"act", "press", "point"}

ASSUME BrowserAssumption ==
  /\ {MaxOpen, MaxEver, MaxShots, MaxNav} \subseteq Nat \ {0}
  /\ Tool \subseteq ReadOnly \cup Acting \cup {"open", "switch", "closeTab", "resize"}

VARIABLES
  here,      \* the tabs whose page is open
  navGen,    \* the main-frame navigations of each tab
  tabs,      \* session.tabs, in the order they opened
  ever,      \* session.tabCounter; everTabs is 1..ever
  active,    \* session.activeTabId
  refs,      \* session.refs: none, or its tab and navGen and the documents its handles are in
  shot,      \* session.shot: none, or its tab and navGen and the document on the picture
  shots,     \* session.screenshotCount
  call,      \* each call's tool, what it waits for and what it has read
  twice      \* some call has sent its input more than once

page == <<here, navGen>>
session == <<tabs, ever, active, refs, shot, shots>>
vars == <<page, session, call, twice>>

TabId == 1..MaxEver
Nav == 0..MaxNav
Open == ToSet(tabs)

RefSnapshot == [tab : TabId, nav : Nav, docs : SUBSET Nav]
ShotSnapshot == [tab : TabId, nav : Nav, pic : Nav]

Steps == {"free", "start", "reading", "collecting", "acting", "checking", "drawn",
          "fronting", "closing", "loading", "sizing", "over"}

Idle == [tool |-> "none", at |-> "free", tab |-> 1, nav |-> 0, docs |-> {},
         again |-> FALSE, sent |-> FALSE, given |-> FALSE]

CallState == [tool : Tool \cup {"none"}, at : Steps, tab : TabId, nav : Nav, docs : SUBSET Nav,
              again : BOOLEAN, sent : BOOLEAN, given : BOOLEAN]

TypeOK ==
  /\ here \subseteq 1..ever
  /\ navGen \in [TabId -> Nav]
  /\ tabs \in Seq(TabId) /\ Len(tabs) <= MaxOpen /\ IsInjective(tabs)
  /\ ever \in TabId /\ active \in TabId
  /\ refs = {} \/ refs \in {{r} : r \in RefSnapshot}
  /\ shot = {} \/ shot \in {{s} : s \in ShotSnapshot}
  /\ shots \in 0..MaxShots
  /\ call \in [Call -> CallState] /\ twice \in BOOLEAN

Init ==
  /\ here = {1} /\ navGen = [t \in TabId |-> 0]
  /\ tabs = <<1>> /\ ever = 1 /\ active = 1
  /\ refs = {} /\ shot = {} /\ shots = 0
  /\ call = [c \in Call |-> Idle] /\ twice = FALSE

-----------------------------------------------------------------------------
(* Tabs. *)

\* activateTab: the other tab's refs and picture are let go (clearSnapshots).
Activate(t) == active' = t /\ refs' = {} /\ shot' = {}

\* adoptPage of a page not met before; past a limit it is closed as it arrives.
MayAdopt == Len(tabs) < MaxOpen /\ ever < MaxEver
Adopt == /\ ever' = ever + 1
         /\ tabs' = Append(tabs, ever + 1)
         /\ here' = here \cup {ever + 1}

\* The tabs but t; no tab is there twice.
Without(t) == IF t \in Open THEN RemoveAt(tabs, CHOOSE i \in DOMAIN tabs : tabs[i] = t) ELSE tabs

\* forgetTab: the newest tab that is left becomes the active one.
Forget(t) ==
  LET left == Without(t) IN
  /\ tabs' = left
  /\ IF active # t THEN UNCHANGED <<active, refs, shot>>
     ELSE IF left # <<>> THEN Activate(Last(left))
     ELSE refs' = {} /\ shot' = {} /\ UNCHANGED active

\* A page opens a popup, navigates, closes.
Popup ==
  /\ here # {} /\ MayAdopt /\ Adopt
  /\ UNCHANGED <<navGen, active, refs, shot, shots, call, twice>>

Navigate(t) ==
  /\ t \in here /\ navGen[t] < MaxNav
  /\ navGen' = [navGen EXCEPT ![t] = @ + 1]
  /\ UNCHANGED <<here, session, call, twice>>

PageCloses(t) ==
  /\ t \in here
  /\ here' = here \ {t} /\ Forget(t)
  /\ UNCHANGED <<navGen, ever, shots, call, twice>>

-----------------------------------------------------------------------------
(* Calls. *)

At(c, tool, step) == call[c].tool = tool /\ call[c].at = step
Goes(c, step, t, n) == call' = [call EXCEPT ![c].at = step, ![c].tab = t, ![c].nav = n]
Ends(c) == call' = [call EXCEPT ![c] = [Idle EXCEPT !.at = "over"]]

\* activeTab: the active tab, if its page is open.
Usable(t) == t = active /\ t \in Open /\ t \in here

\* The browser acts once more for the call.
Sends(c) == twice' = (twice \/ call[c].sent)

Begin(c, tool) ==
  /\ call[c].at = "free"
  /\ call' = [call EXCEPT ![c].tool = tool, ![c].at = "start"]
  /\ UNCHANGED <<page, session, twice>>

\* A call throws: a refusal, a page that went away, a timeout of Playwright's.
Fails(c) ==
  /\ call[c].at \notin {"free", "over"} /\ Ends(c)
  /\ UNCHANGED <<page, session, twice>>

Dropping(c, tools) ==
  /\ call[c].at \in {"collecting", "drawn", "acting"}
  /\ \E sent \in IF call[c].tool \in Acting THEN BOOLEAN ELSE {FALSE} :
       /\ IF sent THEN Sends(c) ELSE UNCHANGED twice
       /\ IF call[c].tool \in tools /\ ~call[c].again
            THEN call' = [call EXCEPT ![c] = [Idle EXCEPT !.tool = call[c].tool, !.at = "start",
                            !.again = TRUE, !.sent = sent, !.given = call[c].given]]
            ELSE Ends(c)
  /\ UNCHANGED <<page, session>>

\* mutant: any tool is asked again when the browser drops its call
DroppedRetry(c) == Dropping(c, Tool)

\* The browser drops a call it was running: a read is asked once more; of an action
\* nobody knows whether it happened (isDroppedCall, READ_ONLY_TOOLS, attempt).
Dropped(c) == Dropping(c, ReadOnly)

\* mutant: only what the page answered ends a call
DeadlineNever(c) == FALSE /\ UNCHANGED vars

\* The deadline passes: the model is answered, the call itself goes on if it ever can;
\* leaveStuckTab opens a fresh tab and makes it the active one, if the browser can.
Deadline(c) ==
  /\ call[c].at \notin {"free", "over"} /\ ~call[c].given
  /\ call' = [call EXCEPT ![c].given = TRUE]
  /\ \/ MayAdopt /\ Adopt /\ Activate(ever + 1)
     \/ UNCHANGED <<here, tabs, ever, active, refs, shot>>
  /\ UNCHANGED <<navGen, shots, twice>>

-----------------------------------------------------------------------------
(* inspect and the tools that take a ref. *)

\* inspect: takeRefSnapshot lets go of the old refs and asks for the frames.
InspectReads(c) ==
  /\ At(c, "inspect", "start") /\ Usable(active)
  /\ Goes(c, "reading", active, 0)
  /\ refs' = {}
  /\ UNCHANGED <<page, tabs, ever, active, shot, shots, twice>>

\* The generation is noted before any element is collected.
InspectSnaps(c) ==
  /\ At(c, "inspect", "reading")
  /\ Goes(c, "collecting", call[c].tab, navGen[call[c].tab])
  /\ UNCHANGED <<page, session, twice>>

\* Elements of one frame: handles into the document that is there now.
InspectCollects(c) ==
  /\ At(c, "inspect", "collecting") /\ call[c].tab \in here
  /\ call' = [call EXCEPT ![c].docs = @ \cup {navGen[call[c].tab]}]
  /\ UNCHANGED <<page, session, twice>>

\* mutant: the generation is read when the walk is over
InspectEndsLate(c) ==
  /\ At(c, "inspect", "collecting") /\ call[c].docs # {}
  /\ refs' = {[tab |-> call[c].tab, nav |-> navGen[call[c].tab], docs |-> call[c].docs]}
  /\ Ends(c)
  /\ UNCHANGED <<page, tabs, ever, active, shot, shots, twice>>

InspectEnds(c) ==
  /\ At(c, "inspect", "collecting") /\ call[c].docs # {}
  /\ refs' = {[tab |-> call[c].tab, nav |-> call[c].nav, docs |-> call[c].docs]}
  /\ Ends(c)
  /\ UNCHANGED <<page, tabs, ever, active, shot, shots, twice>>

\* resolveRef, checkShot: the active tab, and no navigation since.
Holds(s) == Usable(s.tab) /\ s.nav = navGen[s.tab]

\* text: of the page and its frames, or of the element a ref names.
TextBegins(c) ==
  /\ At(c, "text", "start") /\ Usable(active)
  /\ \/ Goes(c, "collecting", active, navGen[active])
     \/ \E r \in refs : Holds(r) /\ \E d \in r.docs : Goes(c, "collecting", r.tab, d)
  /\ UNCHANGED <<page, session, twice>>

TextEnds(c) ==
  /\ At(c, "text", "collecting") /\ call[c].tab \in here /\ Ends(c)
  /\ UNCHANGED <<page, session, twice>>

\* click, fill, hover, select_option, scroll of an element, press on one.
ActResolves(c) ==
  /\ At(c, "act", "start")
  /\ \E r \in refs : Holds(r) /\ \E d \in r.docs : Goes(c, "acting", r.tab, d)
  /\ UNCHANGED <<page, session, twice>>

\* The browser does it if the element is still in the page.
ActSends(c) ==
  /\ At(c, "act", "acting")
  /\ call[c].tab \in here /\ navGen[call[c].tab] = call[c].nav
  /\ Sends(c) /\ Ends(c)
  /\ UNCHANGED <<page, session>>

\* press without an element: the active tab has the keyboard.
PressBegins(c) ==
  /\ At(c, "press", "start") /\ Usable(active)
  /\ Goes(c, "acting", active, 0)
  /\ UNCHANGED <<page, session, twice>>

PressSends(c) ==
  /\ At(c, "press", "acting") /\ call[c].tab \in here
  /\ Sends(c) /\ Ends(c)
  /\ UNCHANGED <<page, session>>

\* closedByAction: the page may be closed by the input that reached it, which then succeeded.
ActCloses(c) ==
  LET t == call[c].tab IN
  /\ call[c].at = "acting" /\ t \in here
  /\ call[c].tool = "act" => navGen[t] = call[c].nav
  /\ Sends(c) /\ Ends(c)
  /\ here' = here \ {t} /\ Forget(t)
  /\ UNCHANGED <<navGen, ever, shots>>

-----------------------------------------------------------------------------
(* screenshot, click_at and scroll_at. *)

\* screenshot: counted, then the page is asked for its scroll position and its picture.
ShotBegins(c) ==
  /\ At(c, "screenshot", "start") /\ Usable(active) /\ shots < MaxShots
  /\ shots' = shots + 1
  /\ Goes(c, "drawn", active, navGen[active])
  /\ UNCHANGED <<page, tabs, ever, active, refs, shot, twice>>

\* The picture may be of any moment since; navGen is read once it has arrived.
ShotEnds(c) ==
  LET t == call[c].tab IN
  /\ At(c, "screenshot", "drawn") /\ t \in here
  /\ \E pic \in call[c].nav..navGen[t] : shot' = {[tab |-> t, nav |-> navGen[t], pic |-> pic]}
  /\ Ends(c)
  /\ UNCHANGED <<page, tabs, ever, active, refs, shots, twice>>

\* checkShot up to its question to the page, the scroll position.
PointChecks(c) ==
  /\ At(c, "point", "start")
  /\ \E s \in shot : Holds(s) /\ Goes(c, "acting", s.tab, s.pic)
  /\ UNCHANGED <<page, session, twice>>

PointSends(c) ==
  /\ At(c, "point", "acting") /\ call[c].tab \in here
  /\ Sends(c) /\ Ends(c)
  /\ UNCHANGED <<page, session>>

-----------------------------------------------------------------------------
(* open, resize, switch_tab, close_tab. *)

\* open: with every tab closed a new one is started first; then the page loads.
OpenBegins(c) ==
  /\ At(c, "open", "start")
  /\ \/ /\ active \in Open /\ active \in here
        /\ Goes(c, "loading", active, 0)
        /\ UNCHANGED <<here, tabs, ever, active, refs, shot>>
     \/ /\ ~(active \in Open /\ active \in here) /\ MayAdopt
        /\ Adopt /\ Activate(ever + 1)
        /\ Goes(c, "loading", ever + 1, 0)
  /\ UNCHANGED <<navGen, shots, twice>>

OpenEnds(c) ==
  LET t == call[c].tab IN
  /\ At(c, "open", "loading") /\ t \in here /\ navGen[t] < MaxNav
  /\ navGen' = [navGen EXCEPT ![t] = @ + 1]
  /\ Ends(c)
  /\ UNCHANGED <<here, session, twice>>

ResizeBegins(c) ==
  /\ At(c, "resize", "start") /\ Usable(active)
  /\ Goes(c, "sizing", active, 0)
  /\ UNCHANGED <<page, session, twice>>

ResizeEnds(c) ==
  /\ At(c, "resize", "sizing") /\ call[c].tab \in here
  /\ refs' = {} /\ shot' = {} /\ Ends(c)
  /\ UNCHANGED <<page, tabs, ever, active, shots, twice>>

SwitchBegins(c) ==
  /\ At(c, "switch", "start")
  /\ \E t \in Open \ {active} : Goes(c, "fronting", t, 0)
  /\ UNCHANGED <<page, session, twice>>

\* bringToFront answers only of a page that is still open.
SwitchEnds(c) ==
  /\ At(c, "switch", "fronting") /\ call[c].tab \in here
  /\ Activate(call[c].tab) /\ Ends(c)
  /\ UNCHANGED <<page, tabs, ever, shots, twice>>

CloseTabBegins(c) ==
  /\ At(c, "closeTab", "start") /\ Len(tabs) > 1
  /\ \E t \in Open : Goes(c, "closing", t, 0)
  /\ UNCHANGED <<page, session, twice>>

\* The page is closed; its "close" event and the tool forget the tab.
CloseTabEnds(c) ==
  LET t == call[c].tab IN
  /\ At(c, "closeTab", "closing")
  /\ here' = here \ {t} /\ Forget(t) /\ Ends(c)
  /\ UNCHANGED <<navGen, ever, shots, twice>>

-----------------------------------------------------------------------------

CallActs(c) ==
  \/ InspectReads(c) \/ InspectSnaps(c) \/ InspectCollects(c) \/ InspectEnds(c)
  \/ TextBegins(c) \/ TextEnds(c)
  \/ ActResolves(c) \/ ActSends(c) \/ ActCloses(c) \/ PressBegins(c) \/ PressSends(c)
  \/ ShotBegins(c) \/ ShotEnds(c) \/ PointChecks(c) \/ PointSends(c)
  \/ OpenBegins(c) \/ OpenEnds(c) \/ ResizeBegins(c) \/ ResizeEnds(c)
  \/ SwitchBegins(c) \/ SwitchEnds(c) \/ CloseTabBegins(c) \/ CloseTabEnds(c)
  \/ Dropped(c) \/ Fails(c) \/ Deadline(c)

Next == \/ Popup
        \/ \E t \in TabId : Navigate(t) \/ PageCloses(t)
        \/ \E c \in Call : (\E tool \in Tool : Begin(c, tool)) \/ CallActs(c)

\* The page need never answer; the deadline's timer does.
Spec == Init /\ [][Next]_vars /\ \A c \in Call : WF_vars(Deadline(c))

-----------------------------------------------------------------------------

(* What a call acts on is there: a ref that is accepted names an element of the *)
(* document its tab shows now, even if the page navigated while it was being    *)
(* collected, and of the open tabs one is the active one, whichever way tabs    *)
(* were closed, switched and opened by pages and by overlapping calls           *)
(* (takeRefSnapshot, resolveRef, forgetTab, activateTab, leaveStuckTab).        *)
ActsOnWhatIsThere ==
  /\ \A r \in refs : Holds(r) => r.docs = {navGen[r.tab]}
  /\ tabs # <<>> => active \in Open

(* No call sends its input twice: what the browser may have done when it       *)
(* dropped a call is not done again (READ_ONLY_TOOLS, instrumented).           *)
ActsOnce == ~twice

(* Every tool call is answered, whatever its page does (the deadline of        *)
(* instrumented).                                                              *)
EveryCallAnswered ==
  \A c \in Call : call[c].at # "free" ~> call[c].at = "over" \/ call[c].given

=============================================================================
