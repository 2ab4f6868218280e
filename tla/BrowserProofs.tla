--------------------------- MODULE BrowserProofs ---------------------------
(***************************************************************************)
(* A browser session, for any calls, tabs and limits: a ref that is        *)
(* accepted is into the page as it is, an open session has an open active  *)
(* tab, and no input is sent twice.  The process it belongs to ends as its *)
(* exit code says and leaves no session open, and the profile it runs on   *)
(* has one holder.                                                         *)
(***************************************************************************)
EXTENDS MCBrowser, ProfileLock, SequenceTheorems, TLAPS

-----------------------------------------------------------------------------
(* The session. *)

CallKind == [tool : Tool \cup {"none"}, at : Steps, tab : TabId, nav : Nat, docs : SUBSET Nat,
             again : BOOLEAN, sent : BOOLEAN, given : BOOLEAN]

Kinds ==
  /\ navGen \in [TabId -> Nat]
  /\ tabs \in Seq(TabId) /\ ever \in TabId /\ active \in TabId
  /\ call \in [Call -> CallKind]

\* Every document between the generation that was noted and the tab's.
Since(t, n) == {d \in Nat : n <= d /\ d <= navGen[t]}

(* The handles of a snapshot are into documents no older than the generation   *)
(* noted for it, when it is taken and while it is being collected; of that     *)
(* generation's tab nothing newer can be known.  A tab whose page is open is   *)
(* one of the session's, which is why one brought to the front may be active.  *)
(* What was sent is never asked again.                                         *)
RefsSince == \A r \in refs : r.tab \in TabId /\ r.docs # {} /\ r.docs \subseteq Since(r.tab, r.nav)
DocsSince == \A c \in Call :
  IF At(c, "inspect", "collecting")
    THEN call[c].nav <= navGen[call[c].tab] /\ call[c].docs \subseteq Since(call[c].tab, call[c].nav)
    ELSE call[c].docs = {}
TabsOpen == here \subseteq Open /\ (tabs # <<>> => active \in Open)
NotAgain == ~twice /\ \A c \in Call : ~call[c].sent

BrowserInv == Kinds /\ RefsSince /\ DocsSince /\ TabsOpen /\ NotAgain

\* The picture is of some tab; kept apart, as only the calls that point use it.
Pictured == shot \subseteq [tab : TabId, nav : Nat, pic : Nat]

-----------------------------------------------------------------------------

(* A tab taken out of the session leaves the others in.                        *)
LEMMA WithoutKeeps ==
  ASSUME tabs \in Seq(TabId), NEW t
  PROVE  Without(t) \in Seq(TabId) /\ Open \ {t} \subseteq ToSet(Without(t))
<1>1. CASE t \notin Open
  BY <1>1 DEF Without, Open
<1>2. CASE t \in Open
  <2> DEFINE k == CHOOSE i \in DOMAIN tabs : tabs[i] = t
             front == SubSeq(tabs, 1, k - 1)
             back == SubSeq(tabs, k + 1, Len(tabs))
             left == front \o back
  <2>1. k \in 1..Len(tabs) /\ tabs[k] = t
    BY <1>2 DEF Open, ToSet
  <2>2. Without(t) = left
    BY <1>2 DEF Without, RemoveAt
  <2> HIDE DEF k
  <2>3. /\ left \in Seq(TabId) /\ Len(left) = Len(tabs) - 1
        /\ \A i \in 1..(k - 1) : left[i] = tabs[i]
        /\ \A i \in k..(Len(tabs) - 1) : left[i] = tabs[i + 1]
    <3>1. /\ front \in Seq(TabId) /\ Len(front) = k - 1
          /\ \A i \in 1..(k - 1) : front[i] = tabs[i]
      BY <2>1, SubSeqProperties
    <3>2. /\ back \in Seq(TabId) /\ Len(back) = Len(tabs) - k
          /\ \A i \in 1..(Len(tabs) - k) : back[i] = tabs[k + i]
      <4>1. \A i \in (k + 1)..Len(tabs) : tabs[i] \in TabId
        BY <2>1
      <4>2. k + 1 \in Int /\ Len(tabs) \in Int /\ Len(tabs) >= k
        BY <2>1
      <4>3. \A i \in 1..(Len(tabs) - (k + 1) + 1) : back[i] = tabs[(k + 1) + i - 1]
        BY <4>1, <4>2, SubSeqProperties
      <4>4. back \in Seq(TabId) /\ Len(back) = IF k + 1 <= Len(tabs) THEN Len(tabs) - (k + 1) + 1 ELSE 0
        BY <4>1, <4>2, SubSeqProperties
      <4> HIDE DEF back
      <4>5. ASSUME NEW i \in 1..(Len(tabs) - k)
            PROVE  back[i] = tabs[k + i]
        <5>1. i \in 1..(Len(tabs) - (k + 1) + 1) /\ (k + 1) + i - 1 = k + i
          BY <2>1, <4>2
        <5>2. QED
          BY <4>3, <5>1
      <4>6. Len(back) = Len(tabs) - k
        BY <2>1, <4>2, <4>4
      <4>7. QED
        BY <4>4, <4>5, <4>6
    <3> HIDE DEF front, back
    <3>3. /\ left \in Seq(TabId) /\ Len(left) = Len(front) + Len(back)
          /\ \A i \in 1..(Len(front) + Len(back)) :
               left[i] = IF i <= Len(front) THEN front[i] ELSE back[i - Len(front)]
      BY <3>1, <3>2, ConcatProperties
    <3> HIDE DEF left
    <3>4. ASSUME NEW i \in k..(Len(tabs) - 1)
          PROVE  left[i] = tabs[i + 1]
      <4>1. i - (k - 1) \in 1..(Len(tabs) - k) /\ k + (i - (k - 1)) = i + 1
        BY <2>1
      <4>2. i \in 1..(Len(front) + Len(back)) /\ ~(i <= Len(front))
        BY <2>1, <3>1, <3>2
      <4>3. QED
        BY <3>1, <3>2, <3>3, <4>1, <4>2
    <3>5. ASSUME NEW i \in 1..(k - 1)
          PROVE  left[i] = tabs[i]
      <4>1. i \in 1..(Len(front) + Len(back)) /\ i <= Len(front)
        BY <2>1, <3>1, <3>2
      <4>2. QED
        BY <3>1, <3>3, <4>1
    <3>6. Len(left) = Len(tabs) - 1
      BY <2>1, <3>1, <3>2, <3>3
    <3>7. QED
      BY <3>3, <3>4, <3>5, <3>6
  <2> HIDE DEF left
  <2>4. ASSUME NEW u \in Open \ {t}
        PROVE  u \in ToSet(left)
    <3>1. PICK i \in 1..Len(tabs) : tabs[i] = u
      BY DEF Open, ToSet
    <3>2. CASE i < k
      <4>1. i \in 1..(k - 1) /\ i \in 1..Len(left)
        BY <2>1, <2>3, <3>1, <3>2
      <4>2. QED
        BY <2>3, <3>1, <4>1 DEF ToSet
    <3>3. CASE i > k
      <4>1. i - 1 \in k..(Len(tabs) - 1) /\ i - 1 \in 1..Len(left)
        BY <2>1, <2>3, <3>1, <3>3
      <4>2. left[i - 1] = u
        BY <2>3, <3>1, <4>1
      <4>3. QED
        BY <2>3, <4>1, <4>2 DEF ToSet
    <3>4. QED
      BY <2>1, <3>1, <3>2, <3>3
  <2>5. QED
    BY <2>2, <2>3, <2>4
<1>3. QED
  BY <1>1, <1>2

(* The tab that is made active when another goes is one of those left.         *)
LEMMA ForgetKeeps ==
  ASSUME Kinds, TabsOpen, NEW t, Forget(t), here' = here \ {t}
  PROVE  tabs' \in Seq(TabId) /\ active' \in TabId /\ TabsOpen' /\ refs' \subseteq refs
<1> DEFINE left == Without(t)
<1>1. left \in Seq(TabId) /\ Open \ {t} \subseteq ToSet(left)
  BY WithoutKeeps DEF Kinds
<1>2. tabs' = left
  BY DEF Forget
<1>3. here' \subseteq Open'
  BY <1>1, <1>2 DEF TabsOpen, Open
<1> HIDE DEF left
<1>4. CASE active # t
  <2>1. active' = active /\ refs' = refs
    BY <1>4 DEF Forget
  <2>2. tabs' # <<>> => tabs # <<>>
    BY <1>2 DEF left, Without, Open, ToSet
  <2>3. QED
    BY <1>1, <1>2, <1>3, <1>4, <2>1, <2>2 DEF Kinds, TabsOpen, Open
<1>5. CASE active = t /\ left # <<>>
  <2>1. active' = Last(left) /\ refs' = {}
    BY <1>5 DEF Forget, Activate, left
  <2>2. Len(left) \in DOMAIN left
    BY <1>1, <1>5
  <2>3. Last(left) \in ToSet(left) /\ Last(left) \in TabId
    BY <1>1, <2>2 DEF Last, ToSet
  <2>4. QED
    BY <1>1, <1>2, <1>3, <2>1, <2>3 DEF TabsOpen, Open
<1>6. CASE active = t /\ left = <<>>
  <2>1. active' = active /\ refs' = {}
    BY <1>6 DEF Forget, left
  <2>2. QED
    BY <1>1, <1>2, <1>3, <1>6, <2>1 DEF Kinds, TabsOpen
<1>7. QED
  BY <1>4, <1>5, <1>6

(* A tab that is adopted is new and one of the session's.                      *)
LEMMA AdoptKeeps ==
  ASSUME Kinds, TabsOpen, MayAdopt, Adopt
  PROVE  /\ tabs' \in Seq(TabId) /\ ever' \in TabId /\ ever' = ever + 1 /\ tabs' # <<>>
         /\ Open' = Open \cup {ever + 1} /\ here' \subseteq Open'
<1>1. ever + 1 \in TabId
  BY BrowserAssumption DEF Kinds, MayAdopt, TabId
<1>2. tabs' = Append(tabs, ever + 1) /\ tabs' \in Seq(TabId) /\ Len(tabs') = Len(tabs) + 1
  BY <1>1 DEF Kinds, Adopt
<1>3. Open' = Open \cup {ever + 1}
  <2>1. \A i \in 1..Len(tabs) : tabs'[i] = tabs[i]
    BY <1>2 DEF Kinds
  <2>2. tabs'[Len(tabs) + 1] = ever + 1
    BY <1>2 DEF Kinds
  <2>3. DOMAIN tabs' = 1..(Len(tabs) + 1) /\ DOMAIN tabs = 1..Len(tabs) /\ Len(tabs) \in Nat
    BY <1>2 DEF Kinds
  <2>4. QED
    BY <2>1, <2>2, <2>3 DEF Open, ToSet
<1>4. QED
  BY <1>1, <1>2, <1>3 DEF Adopt, TabsOpen

-----------------------------------------------------------------------------

(* What a call becomes: itself further on, or one that is over.                *)
LEMMA GoesKinds ==
  ASSUME Kinds, NEW c \in Call, NEW step \in Steps, NEW t \in TabId, NEW n \in Nat,
         Goes(c, step, t, n)
  PROVE  /\ call' \in [Call -> CallKind]
         /\ call'[c].docs = call[c].docs /\ call'[c].sent = call[c].sent
         /\ call'[c].tool = call[c].tool /\ call'[c].at = step
         /\ call'[c].tab = t /\ call'[c].nav = n
         /\ \A d \in Call \ {c} : call'[d] = call[d]
<1> DEFINE to == [call[c] EXCEPT !.at = step, !.tab = t, !.nav = n]
<1>1. call[c] \in CallKind
  BY DEF Kinds
<1>2. /\ to \in CallKind /\ to.docs = call[c].docs /\ to.sent = call[c].sent
      /\ to.tool = call[c].tool /\ to.at = step /\ to.tab = t /\ to.nav = n
  BY <1>1 DEF CallKind
<1>3. call' = [call EXCEPT ![c] = to]
  BY DEF Goes, Kinds
<1> HIDE DEF to
<1>4. QED
  BY <1>2, <1>3 DEF Kinds

LEMMA EndsKinds ==
  ASSUME Kinds, NEW c \in Call, Ends(c)
  PROVE  /\ call' \in [Call -> CallKind]
         /\ call'[c].docs = {} /\ call'[c].sent = FALSE /\ call'[c].at = "over"
         /\ \A d \in Call \ {c} : call'[d] = call[d]
<1>1. 1 \in TabId
  BY BrowserAssumption DEF TabId
<1>2. [Idle EXCEPT !.at = "over"] \in CallKind
  BY <1>1 DEF Idle, CallKind, Steps
<1>3. QED
  BY <1>2 DEF Kinds, Ends, Idle

(* Whether a call ends or goes on, the others' documents and what they sent    *)
(* are as they were.                                                           *)
LEMMA OneCall ==
  ASSUME BrowserInv, NEW c \in Call, navGen' = navGen, \A d \in Call \ {c} : call'[d] = call[d],
         call'[c].docs = {}, ~call'[c].sent,
         At(c, "inspect", "collecting")' => call'[c].nav <= navGen[call'[c].tab]
  PROVE  DocsSince' /\ \A d \in Call : ~call'[d].sent
BY DEF BrowserInv, DocsSince, NotAgain, At, Since

LEMMA CallOver ==
  ASSUME BrowserInv, NEW c \in Call, Ends(c), navGen' = navGen
  PROVE  call' \in [Call -> CallKind] /\ DocsSince' /\ \A d \in Call : ~call'[d].sent
BY EndsKinds, OneCall DEF BrowserInv, At

LEMMA CallGoes ==
  ASSUME BrowserInv, NEW c \in Call, NEW step \in Steps, NEW t \in TabId, NEW n \in Nat,
         Goes(c, step, t, n), ~At(c, "inspect", "collecting"), navGen' = navGen,
         step = "collecting" /\ call[c].tool = "inspect" => n <= navGen[t]
  PROVE  call' \in [Call -> CallKind] /\ DocsSince' /\ \A d \in Call : ~call'[d].sent
<1>1. call[c].docs = {} /\ ~call[c].sent
  BY DEF BrowserInv, DocsSince, NotAgain
<1>2. QED
  BY <1>1, GoesKinds, OneCall DEF BrowserInv, At

(* Nothing is sent twice by a call that has sent nothing.                      *)
LEMMA SendsOnce == ASSUME BrowserInv, NEW c \in Call, Sends(c) PROVE ~twice'
BY DEF BrowserInv, NotAgain, Sends

(* Where the refs, the pages and the tabs stay, so does what is said of them.  *)
LEMMA RefsStay ==
  ASSUME BrowserInv, refs' \subseteq refs, navGen' = navGen
  PROVE  RefsSince'
BY DEF BrowserInv, RefsSince, Since

LEMMA TabsStay ==
  ASSUME BrowserInv, UNCHANGED <<here, tabs, active>>
  PROVE  TabsOpen'
BY DEF BrowserInv, TabsOpen, Open

(* Activating a tab of the session.                                            *)
LEMMA ActivateKeeps ==
  ASSUME NEW t \in TabId, Activate(t), t \in Open', here' \subseteq Open'
  PROVE  active' \in TabId /\ refs' = {} /\ TabsOpen'
BY DEF Activate, TabsOpen

(* A page that loads something else has more documents, not others.            *)
Loads ==
  /\ navGen' \in [TabId -> Nat] /\ (\A u \in TabId : navGen[u] <= navGen'[u])
  /\ refs' = refs
  /\ \A d \in Call : call'[d] = call[d] \/ (call'[d].docs = {} /\ call'[d].at = "over")

LEMMA LoadsKeeps ==
  ASSUME BrowserInv, Loads
  PROVE  RefsSince' /\ DocsSince'
<1> USE DEF Loads
<1>1. \A u \in TabId : navGen'[u] \in Nat /\ navGen[u] \in Nat /\ navGen[u] <= navGen'[u]
  BY DEF BrowserInv, Kinds
<1>2. \A u \in TabId : \A n : Since(u, n) \subseteq Since(u, n)'
  BY <1>1 DEF Since
<1>3. RefsSince'
  BY <1>2 DEF BrowserInv, RefsSince
<1>4. ASSUME NEW c \in Call
      PROVE  IF At(c, "inspect", "collecting")'
               THEN /\ call'[c].nav <= navGen'[call'[c].tab]
                    /\ call'[c].docs \subseteq Since(call[c].tab, call[c].nav)'
               ELSE call'[c].docs = {}
  <2>1. call[c].tab \in TabId /\ call[c].nav \in Nat
    BY DEF BrowserInv, Kinds, CallKind
  <2>2. CASE call'[c] = call[c]
    BY <1>1, <1>2, <2>1, <2>2 DEF BrowserInv, DocsSince, At
  <2>3. CASE call'[c].docs = {} /\ call'[c].at = "over"
    BY <2>3 DEF At
  <2>4. QED
    BY <2>2, <2>3
<1>5. QED
  BY <1>3, <1>4 DEF DocsSince

-----------------------------------------------------------------------------

(* Every step keeps the invariant: first what pages do, then what calls do,    *)
(* by what each of them touches.                                               *)
LEMMA PageKeeps ==
  ASSUME BrowserInv, \/ Popup
                     \/ \E t \in TabId : Navigate(t) \/ PageCloses(t)
  PROVE  BrowserInv'
<1> USE DEF BrowserInv
<1>1. CASE Popup
  <2>1. /\ tabs' \in Seq(TabId) /\ ever' \in TabId /\ Open' = Open \cup {ever + 1}
        /\ here' \subseteq Open'
    BY <1>1, AdoptKeeps DEF Popup
  <2>2. active \in Open
    <3>1. tabs # <<>>
      BY <1>1 DEF Popup, TabsOpen, Open, ToSet
    <3>2. QED
      BY <3>1 DEF TabsOpen
  <2>3. UNCHANGED <<navGen, active, refs, call, twice>>
    BY <1>1 DEF Popup
  <2>4. Kinds'
    BY <2>1, <2>3 DEF Kinds
  <2>5. QED
    BY <2>1, <2>2, <2>3, <2>4, RefsStay DEF TabsOpen, DocsSince, NotAgain, At, Since
<1>2. ASSUME NEW t \in TabId, Navigate(t)
      PROVE  BrowserInv'
  <2>1. /\ navGen' = [navGen EXCEPT ![t] = @ + 1]
        /\ UNCHANGED <<here, tabs, ever, active, refs, call, twice>>
    BY <1>2 DEF Navigate, session
  <2>2. navGen' \in [TabId -> Nat] /\ Loads
    BY <2>1 DEF Kinds, Loads
  <2>3. RefsSince' /\ DocsSince'
    BY <2>2, LoadsKeeps
  <2>4. TabsOpen'
    BY <2>1, TabsStay
  <2>5. QED
    BY <2>1, <2>2, <2>3, <2>4 DEF Kinds, NotAgain
<1>3. ASSUME NEW t \in TabId, PageCloses(t)
      PROVE  BrowserInv'
  <2>1. tabs' \in Seq(TabId) /\ active' \in TabId /\ TabsOpen' /\ refs' \subseteq refs
    BY <1>3, ForgetKeeps DEF PageCloses
  <2>2. UNCHANGED <<navGen, ever, call, twice>>
    BY <1>3 DEF PageCloses
  <2>3. QED
    BY <2>1, <2>2, RefsStay DEF Kinds, DocsSince, NotAgain, At, Since
<1>4. QED
  BY <1>1, <1>2, <1>3

(* The calls that read: what inspect collects is of the document that is there *)
(* when it does, and a text's or a picture's call collects nothing.            *)
LEMMA ReadsKeep ==
  ASSUME BrowserInv, NEW c \in Call,
         \/ InspectReads(c) \/ InspectSnaps(c) \/ InspectCollects(c) \/ InspectEnds(c)
         \/ TextBegins(c) \/ TextEnds(c) \/ ShotBegins(c) \/ ShotEnds(c)
  PROVE  BrowserInv'
<1> USE DEF BrowserInv
<1>0. call[c] \in CallKind /\ navGen[call[c].tab] \in Nat /\ navGen[active] \in Nat
  BY DEF Kinds, CallKind
<1>1. CASE InspectReads(c)
  <2>1. /\ Goes(c, "reading", active, 0) /\ ~At(c, "inspect", "collecting") /\ refs' = {}
        /\ UNCHANGED <<here, navGen, tabs, ever, active, twice>>
    BY <1>1 DEF InspectReads, At, page
  <2>2. call' \in [Call -> CallKind] /\ DocsSince' /\ \A d \in Call : ~call'[d].sent
    BY <2>1, CallGoes DEF Kinds, Steps
  <2>3. QED
    BY <2>1, <2>2, RefsStay, TabsStay DEF Kinds, NotAgain
<1>2. CASE InspectSnaps(c)
  <2>1. /\ Goes(c, "collecting", call[c].tab, navGen[call[c].tab]) /\ ~At(c, "inspect", "collecting")
        /\ UNCHANGED <<here, navGen, tabs, ever, active, refs, twice>>
    BY <1>2 DEF InspectSnaps, At, page, session
  <2>2. call' \in [Call -> CallKind] /\ DocsSince' /\ \A d \in Call : ~call'[d].sent
    BY <1>0, <2>1, CallGoes DEF Steps, CallKind
  <2>3. QED
    BY <2>1, <2>2, RefsStay, TabsStay DEF Kinds, NotAgain
<1>3. CASE InspectCollects(c)
  <2> DEFINE t == call[c].tab
             to == [call[c] EXCEPT !.docs = @ \cup {navGen[t]}]
  <2>1. /\ At(c, "inspect", "collecting")
        /\ UNCHANGED <<here, navGen, tabs, ever, active, refs, twice>>
    BY <1>3 DEF InspectCollects, page, session
  <2>2. call' = [call EXCEPT ![c] = to]
    BY <1>3 DEF InspectCollects, Kinds
  <2>3. /\ to \in CallKind /\ to.docs = call[c].docs \cup {navGen[t]} /\ to.sent = call[c].sent
        /\ to.tool = call[c].tool /\ to.at = call[c].at /\ to.tab = t /\ to.nav = call[c].nav
    BY <1>0 DEF CallKind
  <2>4. call[c].nav <= navGen[t]
    BY <2>1 DEF DocsSince
  <2> HIDE DEF to
  <2>5. QED
    BY <1>0, <2>1, <2>2, <2>3, <2>4, RefsStay, TabsStay DEF Kinds, NotAgain, DocsSince, At, Since
<1>4. CASE InspectEnds(c)
  <2>1. /\ refs' = {[tab |-> call[c].tab, nav |-> call[c].nav, docs |-> call[c].docs]}
        /\ call[c].docs # {} /\ Ends(c) /\ UNCHANGED <<here, navGen, tabs, ever, active, twice>>
    BY <1>4 DEF InspectEnds, page
  <2>2. RefsSince'
    BY <1>0, <2>1 DEF DocsSince, RefsSince, Since, CallKind
  <2>3. call' \in [Call -> CallKind] /\ DocsSince' /\ \A d \in Call : ~call'[d].sent
    BY <2>1, CallOver
  <2>4. QED
    BY <2>1, <2>2, <2>3, TabsStay DEF Kinds, NotAgain
<1>5. CASE TextBegins(c)
  <2>1. /\ At(c, "text", "start") /\ UNCHANGED <<here, navGen, tabs, ever, active, refs, twice>>
    BY <1>5 DEF TextBegins, page, session
  <2>2. PICK t \in TabId, n \in Nat : Goes(c, "collecting", t, n)
    <3>1. CASE Goes(c, "collecting", active, navGen[active])
      BY <1>0, <3>1 DEF Kinds
    <3>2. CASE \E r \in refs : \E d \in r.docs : Goes(c, "collecting", r.tab, d)
      BY <3>2 DEF RefsSince, Since
    <3>3. QED
      BY <1>5, <3>1, <3>2 DEF TextBegins
  <2>3. call' \in [Call -> CallKind] /\ DocsSince' /\ \A d \in Call : ~call'[d].sent
    BY <2>1, <2>2, CallGoes DEF Steps, At
  <2>4. QED
    BY <2>1, <2>3, RefsStay, TabsStay DEF Kinds, NotAgain
<1>6. CASE TextEnds(c)
  <2>1. Ends(c) /\ UNCHANGED <<here, navGen, tabs, ever, active, refs, twice>>
    BY <1>6 DEF TextEnds, page, session
  <2>2. call' \in [Call -> CallKind] /\ DocsSince' /\ \A d \in Call : ~call'[d].sent
    BY <2>1, CallOver
  <2>3. QED
    BY <2>1, <2>2, RefsStay, TabsStay DEF Kinds, NotAgain
<1>7. CASE ShotBegins(c)
  <2>1. /\ Goes(c, "drawn", active, navGen[active]) /\ ~At(c, "inspect", "collecting")
        /\ UNCHANGED <<here, navGen, tabs, ever, active, refs, twice>>
    BY <1>7 DEF ShotBegins, At, page
  <2>2. call' \in [Call -> CallKind] /\ DocsSince' /\ \A d \in Call : ~call'[d].sent
    BY <1>0, <2>1, CallGoes DEF Kinds, Steps
  <2>3. QED
    BY <2>1, <2>2, RefsStay, TabsStay DEF Kinds, NotAgain
<1>8. CASE ShotEnds(c)
  <2>1. Ends(c) /\ UNCHANGED <<here, navGen, tabs, ever, active, refs, twice>>
    BY <1>8 DEF ShotEnds, page
  <2>2. call' \in [Call -> CallKind] /\ DocsSince' /\ \A d \in Call : ~call'[d].sent
    BY <2>1, CallOver
  <2>3. QED
    BY <2>1, <2>2, RefsStay, TabsStay DEF Kinds, NotAgain
<1>9. QED
  BY <1>1, <1>2, <1>3, <1>4, <1>5, <1>6, <1>7, <1>8

(* The calls that act: one ends when it sends, and one that the browser        *)
(* dropped is asked again only if it reads.                                    *)
LEMMA ActsKeep ==
  ASSUME BrowserInv, Pictured, NEW c \in Call,
         \/ ActResolves(c) \/ ActSends(c) \/ ActCloses(c) \/ PressBegins(c) \/ PressSends(c)
         \/ PointChecks(c) \/ PointSends(c) \/ Dropped(c)
  PROVE  BrowserInv'
<1> USE DEF BrowserInv
<1>1. CASE ActResolves(c) \/ PressBegins(c) \/ PointChecks(c)
  <2>1. /\ ~At(c, "inspect", "collecting")
        /\ UNCHANGED <<here, navGen, tabs, ever, active, refs, shot, twice>>
    BY <1>1 DEF ActResolves, PressBegins, PointChecks, At, page, session
  <2>2. PICK t \in TabId, n \in Nat : Goes(c, "acting", t, n)
    <3>1. CASE ActResolves(c)
      BY <3>1 DEF ActResolves, RefsSince, Since
    <3>2. CASE PressBegins(c)
      BY <3>2 DEF PressBegins, Kinds
    <3>3. CASE PointChecks(c)
      BY <3>3 DEF PointChecks, Pictured
    <3>4. QED
      BY <1>1, <3>1, <3>2, <3>3
  <2>3. call' \in [Call -> CallKind] /\ DocsSince' /\ \A d \in Call : ~call'[d].sent
    BY <2>1, <2>2, CallGoes DEF Steps
  <2>4. QED
    BY <2>1, <2>3, RefsStay, TabsStay DEF Kinds, NotAgain
<1>2. CASE ActSends(c) \/ PressSends(c) \/ PointSends(c)
  <2>1. Sends(c) /\ Ends(c) /\ UNCHANGED <<here, navGen, tabs, ever, active, refs>>
    BY <1>2 DEF ActSends, PressSends, PointSends, page, session
  <2>2. call' \in [Call -> CallKind] /\ DocsSince' /\ \A d \in Call : ~call'[d].sent
    BY <2>1, CallOver
  <2>3. ~twice'
    BY <2>1, SendsOnce
  <2>4. QED
    BY <2>1, <2>2, <2>3, RefsStay, TabsStay DEF Kinds, NotAgain
<1>3. CASE ActCloses(c)
  <2> DEFINE t == call[c].tab
  <2>1. /\ Sends(c) /\ Ends(c) /\ here' = here \ {t} /\ Forget(t)
        /\ UNCHANGED <<navGen, ever>>
    BY <1>3 DEF ActCloses
  <2>2. call' \in [Call -> CallKind] /\ DocsSince' /\ \A d \in Call : ~call'[d].sent
    BY <2>1, CallOver
  <2>3. tabs' \in Seq(TabId) /\ active' \in TabId /\ TabsOpen' /\ refs' \subseteq refs
    BY <2>1, ForgetKeeps
  <2>4. ~twice'
    BY <2>1, SendsOnce
  <2>5. QED
    BY <2>1, <2>2, <2>3, <2>4, RefsStay DEF Kinds, NotAgain
<1>4. CASE Dropped(c)
  <2>1. UNCHANGED <<here, navGen, tabs, ever, active, refs, shot>>
    BY <1>4 DEF Dropped, Dropping, page, session
  <2>2. PICK sent \in BOOLEAN :
          /\ sent => call[c].tool \in Acting
          /\ IF sent THEN Sends(c) ELSE UNCHANGED twice
          /\ \/ /\ call[c].tool \in ReadOnly
                /\ call' = [call EXCEPT ![c] = [Idle EXCEPT !.tool = call[c].tool, !.at = "start",
                              !.again = TRUE, !.sent = sent, !.given = call[c].given]]
             \/ Ends(c)
    BY <1>4 DEF Dropped, Dropping
  <2>3. ~twice'
    BY <2>2, SendsOnce DEF NotAgain
  <2>4. CASE Ends(c)
    BY <2>1, <2>3, <2>4, CallOver, RefsStay, TabsStay DEF Kinds, NotAgain
  <2>5. CASE ~Ends(c)
    <3> DEFINE to == [Idle EXCEPT !.tool = call[c].tool, !.at = "start",
                        !.again = TRUE, !.sent = sent, !.given = call[c].given]
    <3>1. ~sent /\ call' = [call EXCEPT ![c] = to]
      BY <2>2, <2>5 DEF Acting, ReadOnly
    <3>2. call[c].tool \in Tool \cup {"none"} /\ call[c].given \in BOOLEAN /\ 1 \in TabId
      BY BrowserAssumption DEF Kinds, CallKind, TabId
    <3>3. to \in CallKind /\ to.docs = {} /\ to.sent = sent /\ to.at = "start"
      BY <3>2 DEF Idle, CallKind, Steps
    <3> HIDE DEF to
    <3>4. /\ call' \in [Call -> CallKind] /\ call'[c].docs = {} /\ ~call'[c].sent
          /\ call'[c].at = "start" /\ \A d \in Call \ {c} : call'[d] = call[d]
      BY <3>1, <3>3 DEF Kinds
    <3>5. DocsSince' /\ \A d \in Call : ~call'[d].sent
      BY <2>1, <3>4, OneCall DEF At
    <3>6. QED
      BY <2>1, <2>3, <3>4, <3>5, RefsStay, TabsStay DEF Kinds, NotAgain
  <2>6. QED
    BY <2>4, <2>5
<1>5. QED
  BY <1>1, <1>2, <1>3, <1>4

(* The calls that open, switch, resize and close tabs, and those given up.     *)
LEMMA TabsKeep ==
  ASSUME BrowserInv, NEW c \in Call,
         \/ OpenBegins(c) \/ OpenEnds(c) \/ ResizeBegins(c) \/ ResizeEnds(c)
         \/ SwitchBegins(c) \/ SwitchEnds(c) \/ CloseTabBegins(c) \/ CloseTabEnds(c)
         \/ Fails(c) \/ Deadline(c) \/ \E tool \in Tool : Begin(c, tool)
  PROVE  BrowserInv'
<1> USE DEF BrowserInv
<1>0. call[c] \in CallKind
  BY DEF Kinds
<1>1. CASE OpenBegins(c)
  <2>1. CASE UNCHANGED <<here, tabs, ever, active, refs>> /\ Goes(c, "loading", active, 0)
    <3>1. ~At(c, "inspect", "collecting") /\ UNCHANGED <<navGen, twice>>
      BY <1>1 DEF OpenBegins, At
    <3>2. call' \in [Call -> CallKind] /\ DocsSince' /\ \A d \in Call : ~call'[d].sent
      BY <2>1, <3>1, CallGoes DEF Kinds, Steps
    <3>3. QED
      BY <2>1, <3>1, <3>2, RefsStay, TabsStay DEF Kinds, NotAgain
  <2>2. CASE MayAdopt /\ Adopt /\ Activate(ever + 1) /\ Goes(c, "loading", ever + 1, 0)
    <3>1. ~At(c, "inspect", "collecting") /\ UNCHANGED <<navGen, twice>>
      BY <1>1 DEF OpenBegins, At
    <3>2. /\ tabs' \in Seq(TabId) /\ ever' \in TabId /\ ever' = ever + 1
          /\ Open' = Open \cup {ever + 1} /\ here' \subseteq Open'
      BY <2>2, AdoptKeeps
    <3>3. active' \in TabId /\ refs' = {} /\ TabsOpen'
      BY <2>2, <3>2, ActivateKeeps
    <3>4. call' \in [Call -> CallKind] /\ DocsSince' /\ \A d \in Call : ~call'[d].sent
      BY <2>2, <3>1, <3>2, CallGoes DEF Steps
    <3>5. QED
      BY <3>1, <3>2, <3>3, <3>4, RefsStay DEF Kinds, NotAgain
  <2>3. QED
    BY <1>1, <2>1, <2>2 DEF OpenBegins
<1>2. CASE OpenEnds(c)
  <2> DEFINE t == call[c].tab
  <2>1. /\ navGen' = [navGen EXCEPT ![t] = @ + 1] /\ Ends(c) /\ t \in TabId
        /\ UNCHANGED <<here, tabs, ever, active, refs, twice>>
    BY <1>0, <1>2 DEF OpenEnds, session, CallKind
  <2>2. /\ call' \in [Call -> CallKind] /\ call'[c].docs = {} /\ ~call'[c].sent /\ call'[c].at = "over"
        /\ \A d \in Call \ {c} : call'[d] = call[d]
    BY <2>1, EndsKinds
  <2>3. navGen' \in [TabId -> Nat] /\ Loads
    BY <2>1, <2>2 DEF Kinds, Loads
  <2>4. RefsSince' /\ DocsSince'
    BY <2>3, LoadsKeeps
  <2>5. QED
    BY <2>1, <2>2, <2>3, <2>4, TabsStay DEF Kinds, NotAgain
<1>3. CASE ResizeBegins(c)
  <2>1. /\ Goes(c, "sizing", active, 0) /\ ~At(c, "inspect", "collecting")
        /\ UNCHANGED <<here, navGen, tabs, ever, active, refs, twice>>
    BY <1>3 DEF ResizeBegins, At, page, session
  <2>2. call' \in [Call -> CallKind] /\ DocsSince' /\ \A d \in Call : ~call'[d].sent
    BY <2>1, CallGoes DEF Kinds, Steps
  <2>3. QED
    BY <2>1, <2>2, RefsStay, TabsStay DEF Kinds, NotAgain
<1>4. CASE ResizeEnds(c) \/ Fails(c)
  <2>1. /\ Ends(c) /\ refs' \subseteq refs
        /\ UNCHANGED <<here, navGen, tabs, ever, active, twice>>
    BY <1>4 DEF ResizeEnds, Fails, page, session
  <2>2. call' \in [Call -> CallKind] /\ DocsSince' /\ \A d \in Call : ~call'[d].sent
    BY <2>1, CallOver
  <2>3. QED
    BY <2>1, <2>2, RefsStay, TabsStay DEF Kinds, NotAgain
<1>5. CASE SwitchBegins(c) \/ CloseTabBegins(c)
  <2>1. PICK t \in Open, step \in {"fronting", "closing"} : Goes(c, step, t, 0)
    BY <1>5 DEF SwitchBegins, CloseTabBegins
  <2>2. t \in TabId
    BY DEF Kinds, Open, ToSet
  <2>3. /\ ~At(c, "inspect", "collecting")
        /\ UNCHANGED <<here, navGen, tabs, ever, active, refs, twice>>
    BY <1>5 DEF SwitchBegins, CloseTabBegins, At, page, session
  <2>4. call' \in [Call -> CallKind] /\ DocsSince' /\ \A d \in Call : ~call'[d].sent
    BY <2>1, <2>2, <2>3, CallGoes DEF Steps
  <2>5. QED
    BY <2>3, <2>4, RefsStay, TabsStay DEF Kinds, NotAgain
<1>6. CASE SwitchEnds(c)
  <2>1. /\ Activate(call[c].tab) /\ Ends(c) /\ call[c].tab \in here
        /\ UNCHANGED <<here, navGen, tabs, ever, twice>>
    BY <1>6 DEF SwitchEnds, page
  <2>2. call[c].tab \in TabId /\ call[c].tab \in Open' /\ here' \subseteq Open'
    BY <1>0, <2>1 DEF CallKind, TabsOpen, Open
  <2>3. active' \in TabId /\ refs' = {} /\ TabsOpen'
    BY <2>1, <2>2, ActivateKeeps
  <2>4. call' \in [Call -> CallKind] /\ DocsSince' /\ \A d \in Call : ~call'[d].sent
    BY <2>1, CallOver
  <2>5. QED
    BY <2>1, <2>3, <2>4, RefsStay DEF Kinds, NotAgain
<1>7. CASE CloseTabEnds(c)
  <2> DEFINE t == call[c].tab
  <2>1. /\ here' = here \ {t} /\ Forget(t) /\ Ends(c) /\ UNCHANGED <<navGen, ever, twice>>
    BY <1>7 DEF CloseTabEnds
  <2>2. call' \in [Call -> CallKind] /\ DocsSince' /\ \A d \in Call : ~call'[d].sent
    BY <2>1, CallOver
  <2>3. tabs' \in Seq(TabId) /\ active' \in TabId /\ TabsOpen' /\ refs' \subseteq refs
    BY <2>1, ForgetKeeps
  <2>4. QED
    BY <2>1, <2>2, <2>3, RefsStay DEF Kinds, NotAgain
<1>8. CASE Deadline(c)
  <2> DEFINE to == [call[c] EXCEPT !.given = TRUE]
  <2>1. call' = [call EXCEPT ![c] = to] /\ UNCHANGED <<navGen, twice>>
    BY <1>8 DEF Deadline, Kinds
  <2>2. /\ to \in CallKind /\ to.docs = call[c].docs /\ to.sent = call[c].sent
        /\ to.tool = call[c].tool /\ to.at = call[c].at /\ to.tab = call[c].tab /\ to.nav = call[c].nav
    BY <1>0 DEF CallKind
  <2> HIDE DEF to
  <2>3. /\ call' \in [Call -> CallKind]
        /\ \A d \in Call : /\ call'[d].docs = call[d].docs /\ call'[d].sent = call[d].sent
                           /\ call'[d].tool = call[d].tool /\ call'[d].at = call[d].at
                           /\ call'[d].tab = call[d].tab /\ call'[d].nav = call[d].nav
    BY <2>1, <2>2 DEF Kinds
  <2>4. DocsSince' /\ NotAgain'
    BY <2>1, <2>3 DEF DocsSince, NotAgain, At, Since
  <2>5. CASE UNCHANGED <<here, tabs, ever, active, refs>>
    BY <2>1, <2>3, <2>4, <2>5, RefsStay, TabsStay DEF Kinds
  <2>6. CASE MayAdopt /\ Adopt /\ Activate(ever + 1)
    <3>1. /\ tabs' \in Seq(TabId) /\ ever' \in TabId /\ ever' = ever + 1
          /\ Open' = Open \cup {ever + 1} /\ here' \subseteq Open'
      BY <2>6, AdoptKeeps
    <3>2. active' \in TabId /\ refs' = {} /\ TabsOpen'
      BY <2>6, <3>1, ActivateKeeps
    <3>3. QED
      BY <2>1, <2>3, <2>4, <3>1, <3>2, RefsStay DEF Kinds
  <2>7. QED
    BY <1>8, <2>5, <2>6 DEF Deadline
<1>9. ASSUME NEW tool \in Tool, Begin(c, tool)
      PROVE  BrowserInv'
  <2> DEFINE to == [call[c] EXCEPT !.tool = tool, !.at = "start"]
  <2>1. /\ call[c].at = "free" /\ UNCHANGED <<here, navGen, tabs, ever, active, refs, twice>>
    BY <1>9 DEF Begin, page, session
  <2>2. call' = [call EXCEPT ![c] = to]
    BY <1>9 DEF Begin, Kinds
  <2>3. to \in CallKind /\ to.docs = call[c].docs /\ to.sent = call[c].sent /\ to.at = "start"
    BY <1>0 DEF CallKind, Steps
  <2> HIDE DEF to
  <2>4. /\ call' \in [Call -> CallKind] /\ call'[c].docs = {} /\ ~call'[c].sent
        /\ call'[c].at = "start" /\ \A d \in Call \ {c} : call'[d] = call[d]
    BY <2>1, <2>2, <2>3 DEF Kinds, DocsSince, NotAgain, At
  <2>5. DocsSince' /\ \A d \in Call : ~call'[d].sent
    BY <2>1, <2>4, OneCall DEF At
  <2>6. QED
    BY <2>1, <2>4, <2>5, RefsStay, TabsStay DEF Kinds, NotAgain
<1>10. QED
  BY <1>1, <1>2, <1>3, <1>4, <1>5, <1>6, <1>7, <1>8, <1>9

(* The picture stays, goes, or is a new one.                                   *)
LEMMA PictureStays ==
  ASSUME Pictured, shot' \subseteq shot
  PROVE  Pictured'
BY DEF Pictured

LEMMA PictureKeeps ==
  ASSUME BrowserInv, Pictured, [Next]_vars
  PROVE  Pictured'
<1>1. CASE UNCHANGED vars
  BY <1>1, PictureStays DEF vars, session
<1>2. CASE Popup \/ \E t \in TabId : Navigate(t) \/ PageCloses(t)
  <2>1. shot' \subseteq shot
    BY <1>2 DEF Popup, Navigate, PageCloses, Forget, Activate, session
  <2>2. QED
    BY <2>1, PictureStays
<1>3. ASSUME NEW c \in Call, (\E tool \in Tool : Begin(c, tool)) \/ CallActs(c)
      PROVE  Pictured'
  <2>1. CASE ShotEnds(c)
    <3> DEFINE t == call[c].tab
    <3>1. t \in TabId /\ call[c].nav \in Nat /\ navGen[t] \in Nat
      BY DEF BrowserInv, Kinds, CallKind
    <3>2. PICK pic \in call[c].nav..navGen[t] : shot' = {[tab |-> t, nav |-> navGen[t], pic |-> pic]}
      BY <2>1 DEF ShotEnds
    <3>3. QED
      BY <3>1, <3>2 DEF Pictured
  <2>2. CASE ~ShotEnds(c)
    <3>1. CASE \/ InspectReads(c) \/ InspectSnaps(c) \/ InspectCollects(c) \/ InspectEnds(c)
               \/ TextBegins(c) \/ TextEnds(c) \/ ShotBegins(c)
               \/ ActResolves(c) \/ ActSends(c) \/ PressBegins(c) \/ PressSends(c)
               \/ PointChecks(c) \/ PointSends(c) \/ Dropped(c) \/ Fails(c)
               \/ \E tool \in Tool : Begin(c, tool)
      BY <3>1, PictureStays
      DEF InspectReads, InspectSnaps, InspectCollects, InspectEnds, TextBegins, TextEnds, ShotBegins,
          ActResolves, ActSends, PressBegins, PressSends, PointChecks, PointSends, Dropped, Dropping,
          Fails, Begin, session
    <3>2. CASE \/ ActCloses(c) \/ OpenBegins(c) \/ OpenEnds(c) \/ ResizeBegins(c) \/ ResizeEnds(c)
               \/ SwitchBegins(c) \/ SwitchEnds(c) \/ CloseTabBegins(c) \/ CloseTabEnds(c)
               \/ Deadline(c)
      BY <3>2, PictureStays
      DEF ActCloses, OpenBegins, OpenEnds, ResizeBegins, ResizeEnds, SwitchBegins, SwitchEnds,
          CloseTabBegins, CloseTabEnds, Deadline, Forget, Activate, session
    <3>3. QED
      BY <1>3, <2>2, <3>1, <3>2 DEF CallActs
  <2>3. QED
    BY <2>1, <2>2
<1>4. QED
  BY <1>1, <1>2, <1>3 DEF Next

-----------------------------------------------------------------------------

LEMMA BrowserInit == Init => BrowserInv /\ Pictured
<1> SUFFICES ASSUME Init PROVE BrowserInv /\ Pictured
  OBVIOUS
<1>1. 1 \in TabId
  BY BrowserAssumption DEF TabId
<1>2. Idle \in CallKind /\ Idle.docs = {} /\ Idle.sent = FALSE /\ Idle.at = "free"
  BY <1>1 DEF Idle, CallKind, Steps
<1>3. call \in [Call -> CallKind] /\ \A c \in Call : call[c].docs = {} /\ ~call[c].sent /\ call[c].at = "free"
  BY <1>2 DEF Init
<1>4. tabs \in Seq(TabId) /\ Open = {1}
  BY <1>1 DEF Init, Open, ToSet
<1>5. QED
  BY <1>1, <1>3, <1>4
  DEF Init, BrowserInv, Pictured, Kinds, RefsSince, DocsSince, TabsOpen, NotAgain, At

LEMMA BrowserNext == BrowserInv /\ Pictured /\ [Next]_vars => (BrowserInv /\ Pictured)'
<1> SUFFICES ASSUME BrowserInv, Pictured, [Next]_vars PROVE BrowserInv'
  BY PictureKeeps
<1>1. CASE UNCHANGED vars
  BY <1>1
  DEF vars, page, session, BrowserInv, Kinds, RefsSince, DocsSince, TabsOpen, NotAgain, At, Since, Open
<1>2. CASE Popup \/ \E t \in TabId : Navigate(t) \/ PageCloses(t)
  BY <1>2, PageKeeps
<1>3. ASSUME NEW c \in Call, (\E tool \in Tool : Begin(c, tool)) \/ CallActs(c)
      PROVE  BrowserInv'
  BY <1>3, ReadsKeep, ActsKeep, TabsKeep DEF CallActs
<1>4. QED
  BY <1>1, <1>2, <1>3 DEF Next

LEMMA BrowserInvariant == Spec => [](BrowserInv /\ Pictured)
BY BrowserInit, BrowserNext, PTL DEF Spec

(* A ref that is accepted names an element of the document its tab shows now,   *)
(* and an open session has an open active tab, for any number of overlapping    *)
(* calls and any tabs, navigations and limits (takeRefSnapshot, resolveRef,     *)
(* forgetTab, leaveStuckTab).                                                   *)
THEOREM ActsOnIt == Spec => []ActsOnWhatIsThere
<1>1. BrowserInv => ActsOnWhatIsThere
  <2> SUFFICES ASSUME BrowserInv, NEW r \in refs, Holds(r) PROVE r.docs = {navGen[r.tab]}
    BY DEF ActsOnWhatIsThere, BrowserInv, TabsOpen
  <2>1. r.nav = navGen[r.tab] /\ navGen[r.tab] \in Nat
    BY DEF Holds, BrowserInv, RefsSince, Kinds
  <2>2. r.docs # {} /\ \A d \in r.docs : d = navGen[r.tab]
    BY <2>1 DEF BrowserInv, RefsSince, Since
  <2>3. QED
    BY <2>2
<1>2. QED
  BY <1>1, BrowserInvariant, PTL

(* No call sends its input twice, whatever the browser drops and answers late   *)
(* (READ_ONLY_TOOLS, instrumented).                                             *)
THEOREM SentOnce == Spec => []ActsOnce
<1>1. BrowserInv => ActsOnce
  BY DEF BrowserInv, NotAgain, ActsOnce
<1>2. QED
  BY <1>1, BrowserInvariant, PTL

-----------------------------------------------------------------------------
(* The end of its process.  What is written of a run is its outcome or was said to be *)
(* lost, from the moment the handlers are gone; and an open browser is the one that is *)
(* held or being closed, one another was launched beside, or one that came too late.   *)

Running == {"running", "closing", "shutting", "recording"}
Written == row = status \/ unwritten

EndInv ==
  /\ at \in Running \cup {"lingering", "leaving", "exited"}
  /\ at \notin {"running", "exited"} => status \in E!Statuses
  /\ at \in Running => handlers
  /\ at \in {"lingering", "leaving"} => ~handlers
  /\ ~handlers => status \in E!Statuses /\ Written
  /\ at # "exited" => interrupts \in {0, 1} /\ seen \in {0, 1}
  /\ ExitTellsTruth

SessionInv ==
  /\ life \in [Opens -> E!Lives] /\ gates \subseteq Opens
  /\ {opened, closing} \subseteq Opens \cup {"none"}
  /\ at \in {"running", "closing"} => closing = "none"
  /\ at = "shutting" => closing \in Opens
  /\ at # "exited" => \A o \in Opens :
       /\ life[o] = "open" => \/ o \in shadowed \cup late \cup {closing}
                              \/ at \in {"running", "closing"} /\ o = opened
       /\ o \in gates => life[o] \in {"launching", "launched", "open", "leaked"}
  /\ at \notin {"running", "closing", "shutting", "exited"} => closing = "none"

LEMMA EndInit == E!Init => EndInv /\ SessionInv
BY OpensAssumption
DEF E!Init, EndInv, SessionInv, Running, ExitTellsTruth, E!ExitTellsTruth, E!Statuses, E!Lives, E!None

(* What ends the process without the run's own end leaves the row as it is, and is *)
(* the second of its kind, or the timer, or comes when the row is written.         *)
LEMMA EndNext ==
  ASSUME EndInv, [E!Next]_(E!vars)
  PROVE  EndInv'
<1> USE DEF EndInv, ExitTellsTruth, E!ExitTellsTruth, Running, Written, E!stopVars, E!Stays, E!Exit
<1>1. ASSUME NEW why \in {"cap", "page"}, E!StopsRun(why) PROVE EndInv'
  BY <1>1 DEF E!StopsRun
<1>2. CASE E!Interrupt
  BY <1>2 DEF E!Interrupt
<1>3. CASE E!Fault
  BY <1>3 DEF E!Fault, E!Statuses
<1>4. CASE E!GraceExpires
  BY <1>4 DEF E!GraceExpires
<1>5. ASSUME NEW st \in E!Statuses, E!RunEnds(st) PROVE EndInv'
  BY <1>5 DEF E!RunEnds
<1>6. CASE E!CloseBegins \/ E!CloseEnds
  BY <1>6 DEF E!CloseBegins, E!CloseEnds
<1>7. CASE E!Records
  BY <1>7 DEF E!Records, E!Uninstalls
<1>8. CASE E!Lingers
  BY <1>8 DEF E!Lingers
<1>9. CASE E!Leaves
  BY <1>9 DEF E!Leaves, E!Statuses
<1>10. ASSUME NEW o \in Opens, E!LaunchBegins(o) \/ E!Launches(o) \/ E!Registers(o) PROVE EndInv'
  BY <1>10 DEF E!LaunchBegins, E!Launches, E!Registers
<1>11. CASE UNCHANGED E!vars
  BY <1>11 DEF E!vars
<1>12. QED
  BY <1>1, <1>2, <1>3, <1>4, <1>5, <1>6, <1>7, <1>8, <1>9, <1>10, <1>11 DEF E!Next

(* A browser that becomes open is the one held, whatever it replaces is shadowed; *)
(* closing moves the held one on, and ends it together with its gate.             *)
LEMMA SessionNext ==
  ASSUME EndInv, SessionInv, [E!Next]_(E!vars)
  PROVE  SessionInv'
<1> USE OpensAssumption
    DEF SessionInv, E!Lives, E!browserVars, E!stopVars, E!Stays, E!Exit, E!None
<1>1. ASSUME NEW why \in {"cap", "page"}, E!StopsRun(why) PROVE SessionInv'
  BY <1>1 DEF E!StopsRun
<1>2. CASE E!Interrupt
  BY <1>2 DEF E!Interrupt
<1>3. CASE E!Fault
  BY <1>3 DEF E!Fault
<1>4. CASE E!GraceExpires
  BY <1>4 DEF E!GraceExpires
<1>5. ASSUME NEW st \in E!Statuses, E!RunEnds(st) PROVE SessionInv'
  BY <1>5 DEF E!RunEnds
<1>6. CASE E!CloseBegins
  BY <1>6 DEF E!CloseBegins
<1>7. CASE E!CloseEnds
  BY <1>7 DEF E!CloseEnds
<1>8. CASE E!Records \/ E!Lingers \/ E!Leaves
  BY <1>8 DEF E!Records, E!Lingers, E!Leaves
<1>9. ASSUME NEW o \in Opens, E!LaunchBegins(o) PROVE SessionInv'
  BY <1>9 DEF E!LaunchBegins
<1>10. ASSUME NEW o \in Opens, E!Launches(o) PROVE SessionInv'
  BY <1>10 DEF E!Launches
<1>11. ASSUME NEW o \in Opens, E!Registers(o) PROVE SessionInv'
  BY <1>11 DEF E!Registers
<1>12. CASE UNCHANGED E!vars
  BY <1>12 DEF E!vars
<1>13. QED
  BY <1>1, <1>2, <1>3, <1>4, <1>5, <1>6, <1>7, <1>8, <1>9, <1>10, <1>11, <1>12 DEF E!Next

(* The two worlds together leave each to its own specification.                *)
LEMMA EndingAlone == BrowserSpec => E!Init /\ [][E!Next]_(E!vars)
<1>1. WorldInit => E!Init
  BY DEF WorldInit
<1>2. [WorldNext]_<<world, vars, process, launches>> => [E!Next]_(E!vars)
  BY DEF WorldNext, Calling, Ending, E!vars, process, launches
<1>3. QED
  BY <1>1, <1>2, PTL DEF BrowserSpec

(* However a stop, interrupts, errors and the run's own end cross: exit code 0  *)
(* is a run that is done and said to be done, and a row is left "running" only  *)
(* by a second interrupt, a second error, the end of the grace period or a      *)
(* database the user was told of (finally of runPipeline, onSignal, handle).    *)
THEOREM EndsTruthfully == BrowserSpec => []ExitTellsTruth
<1>1. EndInv => ExitTellsTruth
  BY DEF EndInv
<1>2. EndInv /\ [E!Next]_(E!vars) => EndInv'
  BY EndNext
<1>3. QED
  BY <1>1, <1>2, EndInit, EndingAlone, PTL

(* However many launches the end of a run overtakes, once the browser was closed *)
(* no session is open and no gate listens but for those that came later, that    *)
(* failed half way or that had another launched beside them (getOrCreate, close).*)
THEOREM NothingLeftOpen == BrowserSpec => []SessionsClosed
<1>1. SessionInv => SessionsClosed
  BY OpensAssumption DEF SessionInv, SessionsClosed, E!SessionsClosed, E!Lives
<1>2. EndInv /\ SessionInv /\ [E!Next]_(E!vars) => (EndInv /\ SessionInv)'
  BY EndNext, SessionNext
<1>3. QED
  BY <1>1, <1>2, EndInit, EndingAlone, PTL

-----------------------------------------------------------------------------
(* The lock of its profile: however many processes cross and wherever they die, one *)
(* holds it, for as long as neither of the takeovers that exclude nobody happened.  *)

LockKinds ==
  /\ pc \in [Proc -> Places]
  /\ found \in [Proc -> Proc \cup {Gone, Broken}]
  /\ mutex \in Proc \cup {Nothing}
  /\ lock \in Proc \cup {Gone, Broken, Nothing}
  /\ dead \subseteq Proc

Inside == {"reread", "unlink", "rmdir"}
Recovers == {"mkdir", "reread", "unlink"}
Has == {"held", "release"}

(* Of the living, who recovers has the mutex; what it found was left by a dead *)
(* process or cannot be read, and at the unlink the lock is still that; who    *)
(* took the lock is the one it names.                                          *)
Apart ==
  \A p \in Live : /\ pc[p] \in Inside => mutex = p
                  /\ pc[p] = "stat" => found[p] = Broken
                  /\ pc[p] \in Recovers => found[p] \in dead \cup {Gone, Broken}
                  /\ pc[p] = "unlink" => lock = found[p]
                  /\ pc[p] \in Has => lock = p

-----------------------------------------------------------------------------

(* One process goes somewhere: it is there, and the others where they were.    *)
LEMMA MovesThere ==
  ASSUME pc \in [Proc -> Places], NEW p \in Proc, NEW from, NEW to \in Places, Moves(p, from, to)
  PROVE  /\ pc' \in [Proc -> Places] /\ pc[p] = from /\ pc'[p] = to
         /\ \A q \in Proc \ {p} : pc'[q] = pc[q]
BY DEF Moves

(* An attempt over: the process links again or gives up.                       *)
LEMMA AgainThere ==
  ASSUME pc \in [Proc -> Places], NEW p \in Proc, NEW from, Again(p, from)
  PROVE  /\ pc' \in [Proc -> Places] /\ pc[p] = from /\ pc'[p] \in {"link", "idle"}
         /\ \A q \in Proc \ {p} : pc'[q] = pc[q]
BY MovesThere DEF Again, Places

(* Kinds and MutexNotLeft are kept together, whatever becomes too old: only    *)
(* the process that made the directory moves on inside it, and leaving it      *)
(* removes it.                                                                 *)
LEMMA MutexSteps ==
  ASSUME LockKinds, MutexNotLeft, [LockNext]_lockVars
  PROVE  LockKinds' /\ MutexNotLeft'
<1> USE ProfileLockAssumption DEF LockKinds, MutexNotLeft
<1>1. ASSUME NEW p \in Live, Mkdir(p)
      PROVE  LockKinds' /\ MutexNotLeft'
  <2>1. /\ pc' \in [Proc -> Places] /\ pc[p] = "mkdir"
        /\ pc'[p] = (IF mutex = Nothing THEN "reread" ELSE "age")
        /\ \A q \in Proc \ {p} : pc'[q] = pc[q]
    BY <1>1, MovesThere DEF Mkdir, Places, Live
  <2>2. QED
    BY <1>1, <2>1 DEF Mkdir, Live
<1>2. ASSUME NEW p \in Live, Reread(p) \/ Unlink(p)
      PROVE  LockKinds' /\ MutexNotLeft'
  <2>1. /\ pc' \in [Proc -> Places] /\ pc'[p] \in {"unlink", "rmdir"}
        /\ \A q \in Proc \ {p} : pc'[q] = pc[q]
    BY <1>2, MovesThere DEF Reread, Unlink, Places, Live
  <2>2. QED
    BY <1>2, <2>1 DEF Reread, Unlink, Live
<1>3. ASSUME NEW p \in Live, Clear(p) \/ Rmdir(p)
      PROVE  LockKinds' /\ MutexNotLeft'
  BY <1>3, AgainThere DEF Clear, Rmdir, Live
<1>4. ASSUME NEW p \in Live, \/ Acquire(p) \/ Link(p) \/ Read(p) \/ Stat(p) \/ Age(p)
                             \/ Release(p) \/ ReleaseUnlink(p)
      PROVE  LockKinds' /\ MutexNotLeft'
  <2>1. /\ pc' \in [Proc -> Places] /\ pc[p] \notin Inside
        /\ \A q \in Proc \ {p} : pc'[q] = pc[q]
    BY <1>4, MovesThere, AgainThere
    DEF Acquire, Link, Read, Stat, Age, Release, ReleaseUnlink, Places, Inside, Live
  <2>2. mutex' = mutex /\ dead' = dead /\ found' \in [Proc -> Proc \cup {Gone, Broken}]
        /\ lock' \in Proc \cup {Gone, Broken, Nothing}
    BY <1>4 DEF Acquire, Link, Read, Stat, Age, Release, ReleaseUnlink, Holder, Live
  <2>3. mutex # p
    BY <2>1, ProfileLockAssumption DEF Inside, Live
  <2>4. QED
    BY <2>1, <2>2, <2>3
<1>5. ASSUME NEW p \in Live, Die(p)
      PROVE  LockKinds' /\ MutexNotLeft'
  BY <1>5 DEF Die, Live
<1>6. ASSUME TimePasses \/ UNCHANGED lockVars
      PROVE  LockKinds' /\ MutexNotLeft'
  BY <1>6 DEF TimePasses, lockVars
<1>7. QED
  BY <1>1, <1>2, <1>3, <1>4, <1>5, <1>6 DEF LockNext, Step

(* What has slipped has slipped.                                               *)
LEMMA SlipsStay == [LockNext]_lockVars => slips \subseteq slips'
BY DEF LockNext, Step, Acquire, Link, Read, Stat, Mkdir, Age, Clear, Reread, Unlink, Rmdir, Release,
       ReleaseUnlink, Die, TimePasses, lockVars

LEMMA ApartSteps ==
  ASSUME LockKinds, Apart, [LockNext]_lockVars, slips' = {}
  PROVE  Apart'
<1> USE ProfileLockAssumption DEF Apart, LockKinds
<1>1. ASSUME NEW p \in Live, Acquire(p)
      PROVE  Apart'
  <2>1. pc' \in [Proc -> Places] /\ pc'[p] = "link" /\ \A q \in Proc \ {p} : pc'[q] = pc[q]
    BY <1>1, MovesThere DEF Acquire, Places, Live
  <2>2. QED
    BY <1>1, <2>1 DEF Acquire, Inside, Recovers, Has, Live
<1>2. ASSUME NEW p \in Live, Link(p)
      PROVE  Apart'
  <2>1. CASE lock = Nothing
    <3>1. pc' \in [Proc -> Places] /\ pc'[p] = "held" /\ \A q \in Proc \ {p} : pc'[q] = pc[q]
      BY <1>2, <2>1, MovesThere DEF Link, Places, Live
    <3>2. lock' = p /\ UNCHANGED <<mutex, dead, found>>
      BY <1>2, <2>1 DEF Link
    <3>3. \A q \in Live : pc[q] # "unlink"
      BY <2>1 DEF Recovers, Live
    <3>4. \A q \in Live : pc[q] \notin Has
      BY <2>1 DEF Live
    <3>5. QED
      BY <3>1, <3>2, <3>3, <3>4 DEF Inside, Recovers, Has, Live
  <2>2. CASE lock # Nothing
    <3>1. pc' \in [Proc -> Places] /\ pc'[p] = "read" /\ \A q \in Proc \ {p} : pc'[q] = pc[q]
      BY <1>2, <2>2, MovesThere DEF Link, Places, Live
    <3>2. QED
      BY <1>2, <2>2, <3>1 DEF Link, Inside, Recovers, Has, Live
  <2>3. QED
    BY <2>1, <2>2
<1>3. ASSUME NEW p \in Live, Read(p)
      PROVE  Apart'
  <2>1. /\ pc' \in [Proc -> Places]
        /\ \/ pc'[p] = "stat" /\ Holder = Broken
           \/ pc'[p] = "mkdir" /\ Holder \in dead \cup {Gone}
           \/ pc'[p] = "idle"
        /\ \A q \in Proc \ {p} : pc'[q] = pc[q]
    BY <1>3, MovesThere DEF Read, Places, Live
  <2>2. UNCHANGED <<lock, mutex, old, dead>> /\ found' = [found EXCEPT ![p] = Holder]
    BY <1>3 DEF Read
  <2>3. Holder \in Proc \cup {Gone, Broken}
    BY DEF Holder
  <2>4. QED
    BY <2>1, <2>2, <2>3 DEF Inside, Recovers, Has, Live
<1>4. ASSUME NEW p \in Live, Stat(p)
      PROVE  Apart'
  <2>1. /\ pc' \in [Proc -> Places] /\ pc[p] = "stat" /\ pc'[p] \in {"link", "idle", "mkdir"}
        /\ \A q \in Proc \ {p} : pc'[q] = pc[q]
    BY <1>4, MovesThere, AgainThere DEF Stat, Places, Live
  <2>2. QED
    BY <1>4, <2>1 DEF Stat, Inside, Recovers, Has, Live
<1>5. ASSUME NEW p \in Live, Mkdir(p)
      PROVE  Apart'
  <2>1. CASE mutex = Nothing
    <3>1. /\ pc' \in [Proc -> Places] /\ pc[p] = "mkdir" /\ pc'[p] = "reread"
          /\ \A q \in Proc \ {p} : pc'[q] = pc[q]
      BY <1>5, <2>1, MovesThere DEF Mkdir, Places, Live
    <3>2. mutex' = p /\ UNCHANGED <<lock, dead, found>>
      BY <1>5, <2>1 DEF Mkdir
    <3>3. \A q \in Live : pc[q] \notin Inside
      BY <2>1 DEF Live
    <3>4. QED
      BY <3>1, <3>2, <3>3 DEF Inside, Recovers, Has, Live
  <2>2. CASE mutex # Nothing
    <3>1. /\ pc' \in [Proc -> Places] /\ pc[p] = "mkdir" /\ pc'[p] = "age"
          /\ \A q \in Proc \ {p} : pc'[q] = pc[q]
      BY <1>5, <2>2, MovesThere DEF Mkdir, Places, Live
    <3>2. QED
      BY <1>5, <2>2, <3>1 DEF Mkdir, Inside, Recovers, Has, Live
  <2>3. QED
    BY <2>1, <2>2
<1>6. ASSUME NEW p \in Live, Age(p)
      PROVE  Apart'
  <2>1. /\ pc' \in [Proc -> Places] /\ pc'[p] \in {"clear", "link", "idle"}
        /\ \A q \in Proc \ {p} : pc'[q] = pc[q]
    BY <1>6, MovesThere, AgainThere DEF Age, Places, Live
  <2>2. QED
    BY <1>6, <2>1 DEF Age, Inside, Recovers, Has, Live
<1>7. ASSUME NEW p \in Live, Clear(p)
      PROVE  Apart'
  <2>1. /\ pc' \in [Proc -> Places] /\ pc'[p] \in {"link", "idle"}
        /\ \A q \in Proc \ {p} : pc'[q] = pc[q]
    BY <1>7, AgainThere DEF Clear, Live
  <2>2. mutex \notin Live
    BY <1>7 DEF Clear
  <2>3. \A q \in Live : pc[q] \notin Inside
    BY <2>2
  <2>4. QED
    BY <1>7, <2>1, <2>3 DEF Clear, Inside, Recovers, Has, Live
<1>8. ASSUME NEW p \in Live, Reread(p)
      PROVE  Apart'
  <2>1. /\ pc' \in [Proc -> Places] /\ pc[p] = "reread" /\ pc'[p] \in {"unlink", "rmdir"}
        /\ pc'[p] = "unlink" => Holder = found[p]
        /\ \A q \in Proc \ {p} : pc'[q] = pc[q]
    BY <1>8, MovesThere DEF Reread, Places, Live
  <2>2. ~(found[p] = Broken /\ lock = Nothing)
    BY <1>8 DEF Reread
  <2>3. Holder = found[p] => lock = found[p]
    BY <2>2 DEF Holder
  <2>4. QED
    BY <1>8, <2>1, <2>3 DEF Reread, Inside, Recovers, Has, Live
<1>9. ASSUME NEW p \in Live, Unlink(p)
      PROVE  Apart'
  <2>1. /\ pc' \in [Proc -> Places] /\ pc[p] = "unlink" /\ pc'[p] = "rmdir"
        /\ \A q \in Proc \ {p} : pc'[q] = pc[q]
    BY <1>9, MovesThere DEF Unlink, Places, Live
  <2>2. \A q \in Live \ {p} : pc[q] \notin Inside
    BY <2>1 DEF Inside, Live
  <2>3. \A q \in Live : pc[q] \notin Has
    BY <2>1 DEF Recovers, Live
  <2>4. QED
    BY <1>9, <2>1, <2>2, <2>3 DEF Unlink, Inside, Recovers, Has, Live
<1>10. ASSUME NEW p \in Live, Rmdir(p)
       PROVE  Apart'
  <2>1. /\ pc' \in [Proc -> Places] /\ pc[p] = "rmdir" /\ pc'[p] \in {"link", "idle"}
        /\ \A q \in Proc \ {p} : pc'[q] = pc[q]
    BY <1>10, AgainThere DEF Rmdir, Live
  <2>2. \A q \in Live \ {p} : pc[q] \notin Inside
    BY <2>1 DEF Inside, Live
  <2>3. QED
    BY <1>10, <2>1, <2>2 DEF Rmdir, Inside, Recovers, Has, Live
<1>11. ASSUME NEW p \in Live, Release(p)
       PROVE  Apart'
  <2>1. /\ pc' \in [Proc -> Places] /\ pc[p] = "held" /\ pc'[p] \in {"release", "idle"}
        /\ \A q \in Proc \ {p} : pc'[q] = pc[q]
    BY <1>11, MovesThere DEF Release, Places, Live
  <2>2. QED
    BY <1>11, <2>1 DEF Release, Inside, Recovers, Has, Live
<1>12. ASSUME NEW p \in Live, ReleaseUnlink(p)
       PROVE  Apart'
  <2>1. /\ pc' \in [Proc -> Places] /\ pc[p] = "release" /\ pc'[p] = "idle"
        /\ \A q \in Proc \ {p} : pc'[q] = pc[q]
    BY <1>12, MovesThere DEF ReleaseUnlink, Places, Live
  <2>2. lock = p
    BY <2>1 DEF Has, Live
  <2>3. \A q \in Live : pc[q] # "unlink"
    BY <2>1, <2>2 DEF Recovers, Live
  <2>4. QED
    BY <1>12, <2>1, <2>2, <2>3 DEF ReleaseUnlink, Inside, Recovers, Has, Live
<1>13. ASSUME NEW p \in Live, Die(p)
       PROVE  Apart'
  BY <1>13 DEF Die, Inside, Recovers, Has, Live
<1>14. ASSUME TimePasses \/ UNCHANGED lockVars
       PROVE  Apart'
  BY <1>14 DEF TimePasses, lockVars, Live
<1>15. QED
  BY <1>1, <1>2, <1>3, <1>4, <1>5, <1>6, <1>7, <1>8, <1>9, <1>10, <1>11, <1>12, <1>13, <1>14
     DEF LockNext, Step

(* No two live processes hold one profile, for any number of processes that    *)
(* die at any step or are slow for as long as it takes, whatever they find to  *)
(* begin with and whichever files become too old to wait for: but for a        *)
(* directory removed under a living process, and an unreadable lock that was   *)
(* gone when it was read again (acquireProfileLock).                           *)
THEOREM Exclusive == LockSpec => []OneHolder
<1> DEFINE Inv == LockKinds /\ MutexNotLeft /\ (slips = {} => Apart)
<1>1. Inv => OneHolder
  BY DEF Apart, OneHolder, HasIt, Has
<1>2. LockInit => Inv
  BY ProfileLockAssumption DEF LockInit, LockKinds, MutexNotLeft, Apart, Places, Inside, Recovers, Has, Live
<1>3. Inv /\ [LockNext]_lockVars => Inv'
  BY MutexSteps, SlipsStay, ApartSteps
<1>4. QED
  BY <1>1, <1>2, <1>3, PTL DEF LockSpec

(* The recovery directory is left behind only by a process that died inside    *)
(* it, for any number of processes, even where files are taken for too old.    *)
THEOREM NotLeft == LockSpec => []MutexNotLeft
<1>1. LockInit => LockKinds /\ MutexNotLeft
  BY ProfileLockAssumption DEF LockInit, LockKinds, MutexNotLeft, Places
<1>2. QED
  BY <1>1, MutexSteps, PTL DEF LockSpec
=============================================================================
