------------------------------ MODULE Uploads ------------------------------
(***************************************************************************)
(* A file the user designated, attached to a form (browser-tools.ts): the  *)
(* form is checked, the tab is held, the file is set and the form checked  *)
(* again, one await at a time, while pages navigate, open others, close    *)
(* and send.  While a tab is held its requests that do more than read may  *)
(* go only to the site the file was attached on.                           *)
(***************************************************************************)
EXTENDS Sites

CONSTANTS Tab,          \* the tabs of the session, in the order they were opened
          Lists,        \* the allowances files a session may start with
          MaxOpeners,   \* how many pages are looked at for a request: its own, its opener, and so on
          MaxSteps      \* bounds the navigations, windows and uploads

Blank == <<>>       \* about:blank
Free == <<"">>      \* no tab.upload

VARIABLES
  list,         \* the accepted allowances
  page,         \* where each tab is, or was when it closed
  open,         \* the tabs that have not closed
  opener,
  held,         \* tab.upload: the page it is held on
  call,         \* the upload under way: its tab, its step, whether its document is still there
  carries,      \* the site of the file its page was given, and may have kept while it was on that site
  lost,         \* tabs left with such a file and no hold by an upload that failed
  steps

vars == <<list, page, open, opener, held, call, carries, lost, steps>>

NoTab == 0
Idle == [tab |-> NoTab, step |-> "idle", there |-> FALSE]
Platforms == {<<>>} \cup {PlatformOf(list, h) : h \in Host}

TypeOK ==
  /\ list \in Lists /\ Accepted(list)
  /\ DOMAIN page \subseteq Tab /\ {page[t] : t \in DOMAIN page} \subseteq Host \cup {Blank}
  /\ DOMAIN opener = DOMAIN page /\ open \subseteq DOMAIN page
  /\ DOMAIN held = DOMAIN page /\ DOMAIN carries = DOMAIN page
  /\ \A t \in DOMAIN page : /\ opener[t] \in Tab \cup {NoTab}
                            /\ held[t] \in Host \cup {Blank, Free} /\ carries[t] \in Platforms
  /\ call \in [tab : Tab \cup {NoTab}, step : {"idle", "checked", "held", "set"}, there : BOOLEAN]
  /\ lost \subseteq Tab /\ steps \in 0..MaxSteps

Init ==
  /\ list \in {a \in Lists : Accepted(a)}
  /\ page = [t \in {1} |-> Blank] /\ open = {1}
  /\ opener = [t \in {1} |-> NoTab]
  /\ held = [t \in {1} |-> Free] /\ carries = [t \in {1} |-> Blank]
  /\ call = Idle /\ lost = {} /\ steps = 0

Step == steps < MaxSteps /\ steps' = steps + 1

\* A ref to a field dies with its document.
Left(t) == [call EXCEPT !.there = @ /\ call.tab # t]

\* framenavigated: a listed page, or one a redirect led to (checkLanding takes that away).
Navigate(t, h) ==
  /\ Step
  /\ page' = [page EXCEPT ![t] = IF Listed(list, h) THEN h ELSE Blank]
  /\ call' = Left(t)
  /\ carries' = [carries EXCEPT ![t] = IF Listed(list, h) /\ PlatformOf(list, h) = @ THEN @ ELSE Blank]
  /\ lost' = IF carries'[t] = Blank THEN lost \ {t} ELSE lost
  /\ UNCHANGED <<list, open, opener, held>>

Same(from, to) == from # Blank /\ to # Blank /\ Destination(list, Web(from), Web(to))

\* domcontentloaded: another site's document ends the hold.
Loaded(t) ==
  /\ held[t] # Free /\ ~Same(held[t], page[t])
  /\ held' = [held EXCEPT ![t] = Free]
  /\ UNCHANGED <<list, page, open, opener, call, carries, lost, steps>>

\* What is known of the tabs, and v of the one that is opened.
Joined(f, new, v) == [t \in DOMAIN f \cup {new} |-> IF t \in DOMAIN f THEN f[t] ELSE v]

\* A page opens another.
Popup(t, h) ==
  LET new == Cardinality(DOMAIN page) + 1 IN
  /\ Step /\ new \in Tab /\ Listed(list, h)
  /\ page' = Joined(page, new, h) /\ opener' = Joined(opener, new, t)
  /\ held' = Joined(held, new, Free) /\ carries' = Joined(carries, new, Blank)
  /\ open' = open \cup {new}
  /\ UNCHANGED <<list, call, lost>>

\* forgetTab: everTabs keeps what is known of it, its hold too; pages it opened may have its file.
Close(t) ==
  /\ open' = open \ {t} /\ call' = Left(t)
  /\ UNCHANGED <<list, page, opener, held, carries, lost, steps>>

\* checkFileField: the form's action and each button's go to the page's own site.
FieldAgrees(t, actions) == \A h \in actions : Same(page[t], h)
Actions == {{h} : h \in Host} \cup {{g, h} : g, h \in Host}

\* The upload tool up to the answer of its first check.
UploadChecks(t) ==
  /\ Step /\ call = Idle /\ page[t] # Blank
  /\ \E actions \in Actions : FieldAgrees(t, actions)
  /\ call' = [tab |-> t, step |-> "checked", there |-> TRUE]
  /\ UNCHANGED <<list, page, open, opener, held, carries, lost>>

\* mutant: the tab is not held while the file is attached
UploadHoldsLate ==
  /\ call.step = "checked"
  /\ call' = [call EXCEPT !.step = "held"]
  /\ UNCHANGED <<list, page, open, opener, held, carries, lost, steps>>

\* The hold is there before the file is.
UploadHolds ==
  /\ call.step = "checked"
  /\ held' = [held EXCEPT ![call.tab] = page[call.tab]]
  /\ lost' = lost \ {call.tab}
  /\ call' = [call EXCEPT !.step = "held"]
  /\ UNCHANGED <<list, page, open, opener, carries, steps>>

\* setInputFiles: the field it was given is in a document that may be gone.
UploadSets ==
  /\ call.step = "held" /\ call.there
  /\ carries' = [carries EXCEPT ![call.tab] = PlatformOf(list, page[call.tab])]
  /\ call' = [call EXCEPT !.step = "set"]
  /\ UNCHANGED <<list, page, open, opener, held, lost, steps>>

\* The second check agrees.
UploadDone ==
  /\ call.step = "set" /\ call.there /\ call' = Idle
  /\ UNCHANGED <<list, page, open, opener, held, carries, lost, steps>>

\* Setting failed or the second check refused: the hold is dropped and the field emptied, which may
\* fail, and which takes back neither an earlier file nor what the page has kept of this one.
UploadFails ==
  /\ call.step \in {"held", "set"} /\ call' = Idle
  /\ held' = [held EXCEPT ![call.tab] = Free]
  /\ \/ /\ call.step = "set" /\ call.there
        /\ carries' = [carries EXCEPT ![call.tab] = Blank] /\ UNCHANGED lost
     \/ /\ lost' = IF carries[call.tab] # Blank THEN lost \cup {call.tab} ELSE lost
        /\ UNCHANGED carries
  /\ UNCHANGED <<list, page, open, opener, steps>>

-----------------------------------------------------------------------------

\* A tab and those it was opened by, one after another.
Lines(t) == {s \in UNION {[1..n -> DOMAIN page] : n \in 1..Cardinality(DOMAIN page)} :
               s[1] = t /\ \A i \in 1..(Len(s) - 1) : s[i + 1] = opener[s[i]]}

\* page.opener() finds no tab that has closed, and the first that is held ends the search.
Followed(s) ==
  /\ Len(s) <= MaxOpeners
  /\ \A i \in 1..(Len(s) - 1) : held[s[i]] = Free /\ s[i + 1] \in open

\* uploadHeldFor: the tab's own hold, or that of a tab it was opened by, not too far back.
HeldFor(t) == {held[s[Len(s)]] : s \in {s \in Lines(t) : Followed(s)}} \ {Free}

\* heldAnyTab: the first tab that is held, closed ones too.
HeldAny == LET some == {t \in DOMAIN page : held[t] # Free}
           IN IF some = {} THEN {} ELSE {held[Min(some)]}

\* The tabs whose files a request of tab t could have with it, and how it was opened by them.
Carriers(t) == {s \in Lines(t) : carries[s[Len(s)]] # Blank}

\* The context's route lets a request through that does more than read.
Continues(t, h, navigation) ==
  MayRequest(list, Web(h), navigation) /\ \A on \in HeldFor(t) : Same(on, h)

\* routeWebSocket: a socket is looked at when it is opened, and cannot tell which tab it is of.
ConnectsToServer(h) == MayConnect(list, h) /\ \A on \in HeldAny : Same(on, h)

Next ==
  \/ \E t \in open, h \in Host : Navigate(t, h) \/ Popup(t, h)
  \/ \E t \in open : Loaded(t) \/ Close(t) \/ UploadChecks(t)
  \/ UploadHolds \/ UploadSets \/ UploadDone \/ UploadFails

Spec == Init /\ [][Next]_vars

-----------------------------------------------------------------------------

(* While a page has a file, no request of its tab or of one it opened, and no    *)
(* socket opened there, is let through to another site: not while the file is   *)
(* being attached, nor from a later document of that site (browser-tools.ts     *)
(* 516-720).  Not held, and not claimed: a file that an upload that failed left *)
(* in its tab; one whose page is more openers back than are looked at, or       *)
(* behind one that closed or is held itself; and, over a socket, while some     *)
(* other tab of the session is held too.                                        *)
FilesStayHome ==
  /\ \A t \in open : \A s \in Carriers(t), h \in Host :
       LET c == s[Len(s)]
           alone == \A o \in DOMAIN page \ {c} : held[o] = Free
           goes == \/ Followed(s) /\ \E navigation \in BOOLEAN : Continues(t, h, navigation)
                   \/ alone /\ ConnectsToServer(h)
       IN c \notin lost /\ goes => Listed(list, h) /\ PlatformOf(list, h) = carries[c]
  /\ ListsAgree(list)

=============================================================================
