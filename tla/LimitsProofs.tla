---------------------------- MODULE LimitsProofs ----------------------------
(***************************************************************************)
(* What a step may reach, for any values of the constants.  The network    *)
(* gate: a request is connected only because what it was given to connect  *)
(* to was checked before.  Its session: what waits for a person was asked  *)
(* in the same session, and a rule is one of a granted call.  Designated   *)
(* files: a tab that carries one is on the file's site, and held there,    *)
(* from before the file was set.  The file tools: where the system comes   *)
(* along a path, through whatever links, the program reads the same place, *)
(* and no other in any tree with the same links, whatever else a shell has *)
(* made of it.  The desktop session, whose state is its own: a capture is  *)
(* good for one input of each call, a locked session sends only what was   *)
(* inside the fence, and the caps hold.                                    *)
(***************************************************************************)
EXTENDS MCLimits, Desktop, FiniteSetTheorems, SequenceTheorems, WellFoundedInduction, TLAPS

-----------------------------------------------------------------------------
(* The network gate. *)

\* What was checked stays with the request from one await to the next.
Checked ==
  \A r \in Request :
    /\ at[r] \in {"deciding", "connecting", "open"} => host[r] \in AllowedHost
    /\ at[r] = "connecting" => ips[r] \subseteq AllowedAddr
    /\ at[r] = "open" => up[r] \subseteq AllowedAddr /\ (r \in client \/ r \in early)
    /\ at[r] # "open" => up[r] = {}

IInv == TypeOK /\ Checked

LEMMA InitHolds == Init => IInv
  BY NetGateAssumption DEF Init, IInv, TypeOK, Checked, Steps

\* An action on one request leaves what is known of the others alone; the step that ends it
\* in "over", or takes it on, is looked at by itself.
LEMMA StepHolds == IInv /\ [Next]_vars => IInv'
<1> SUFFICES ASSUME IInv, [Next]_vars PROVE IInv'
  OBVIOUS
<1> USE NetGateAssumption DEF IInv, TypeOK, Checked, Steps
<1>1. ASSUME NEW r \in Request, Arrive(r) PROVE IInv'
  BY <1>1 DEF Arrive, Refuse, Goes
<1>2. ASSUME NEW r \in Request, Decide(r) PROVE IInv'
  <2>1. PICK found \in SUBSET Addr :
          IF found \cap AllowedAddr = {} THEN Refuse(r)
          ELSE /\ ips' = [ips EXCEPT ![r] = found \cap AllowedAddr]
               /\ Goes(r, "connecting") /\ UNCHANGED denied
    BY <1>2 DEF Decide
  <2>2. CASE found \cap AllowedAddr = {}
    BY <1>2, <2>1, <2>2 DEF Decide, Refuse, Goes
  <2>3. CASE found \cap AllowedAddr # {}
    BY <1>2, <2>1, <2>3 DEF Decide, Goes
  <2> QED BY <2>2, <2>3
<1>3. ASSUME NEW r \in Request, Connects(r) PROVE IInv'
  <2>1. CASE KnownGone(r)
    BY <1>3, <2>1 DEF Connects, Goes
  <2>2. CASE ~KnownGone(r)
    <3>1. PICK ip \in ips[r] : up' = [up EXCEPT ![r] = {ip}]
      BY <1>3, <2>2 DEF Connects
    <3>2. r \in client \/ r \in early
      BY <2>2 DEF KnownGone
    <3> QED BY <1>3, <2>2, <3>1, <3>2 DEF Connects, Goes
  <2> QED BY <2>1, <2>2
<1>4. ASSUME NEW r \in Request, ConnectFails(r) PROVE IInv'
  <2>1. PICK ip \in ips[r] :
          /\ ips' = [ips EXCEPT ![r] = @ \ {ip}]
          /\ IF ips[r] = {ip} THEN Goes(r, "over") ELSE UNCHANGED at
    BY <1>4 DEF ConnectFails
  <2> QED BY <1>4, <2>1 DEF ConnectFails, Goes
<1>5. ASSUME NEW r \in Request, ClientLeaves(r) PROVE IInv'
  BY <1>5 DEF ClientLeaves, Hangup
<1>6. ASSUME NEW r \in Request, UpstreamEnds(r) PROVE IInv'
  BY <1>6 DEF UpstreamEnds, Goes
<1>7. CASE Close
  BY <1>7 DEF Close
<1>8. CASE UNCHANGED vars
  BY <1>8 DEF vars
<1> QED
  BY <1>1, <1>2, <1>3, <1>4, <1>5, <1>6, <1>7, <1>8 DEF Next

(* Whatever the lookups answer, and whenever the browser hangs up or the gate   *)
(* is closed, an upstream socket is connected to an address that was checked,   *)
(* and has its client, or is a tunnel whose client left too early to be heard   *)
(* (decide, connectFirst and the "close" listeners of net-gate.ts).            *)
THEOREM UpstreamsKept == Spec => []UpstreamsAccounted
<1>1. IInv => UpstreamsAccounted
  BY DEF IInv, TypeOK, Checked, Steps, UpstreamsAccounted, OnlyChecked, UpstreamFollowsClient
<1> QED
  BY <1>1, InitHolds, StepHolds, PTL DEF Spec

-----------------------------------------------------------------------------
(* The session of a step. *)

(* What roles there may be: the built-in ones and those a user's file passed    *)
(* with.                                                                        *)
LEMMA RolesHold == Se!RosterHolds
<1> USE DEF Se!Role, Se!Writing, Se!Desktop, Se!Reading
<1> SUFFICES ASSUME NEW r \in Se!Roster
             PROVE  /\ r.kind \in {"read", "advise", "check", "gate", "meta", "monitor"}
                         => Se!RoleTools(r) \cap Se!Writing = {}
                    /\ r.scope = "none" => Se!RoleTools(r) \cap Se!Writing = {}
                    /\ ~r.builtin => /\ Se!RoleTools(r) \cap ({"act"} \cup Se!Desktop) = {}
                                     /\ r.scope # "shared"
  BY DEF Se!RosterHolds
<1>1. r.scope = "none" => Se!RoleTools(r) \cap Se!Writing = {}
  BY DEF Se!RoleTools
<1>2. CASE r \in Se!BuiltinRoster
  <2>1. r.builtin
    BY <1>2 DEF Se!BuiltinRoster
  <2>2. r.kind \in {"read", "advise", "check", "gate", "meta", "monitor"} => r.scope = "none"
    BY <1>2 DEF Se!BuiltinRoster
  <2> QED BY <1>1, <2>1, <2>2
<1>3. CASE r \notin Se!BuiltinRoster
  <2>1. PICK d \in Definitions :
          /\ Se!Accepted(d)
          /\ r = [id |-> d.id, kind |-> d.kind, tools |-> d.tools, scope |-> d.scope, builtin |-> FALSE]
    BY <1>3 DEF Se!Roster
  <2>2. /\ r.kind \in {"read", "plan", "advise", "build", "check"}
        /\ r.tools \subseteq {"read", "run", "web", "browser-read"}
        /\ r.scope \in {"none", "tests", "docs", "slice"}
        /\ r.kind \in {"read", "advise", "check"} => r.scope = "none"
    BY <2>1 DEF Se!Accepted
  <2>3. Se!RoleTools(r) \cap ({"act"} \cup Se!Desktop) = {}
    <3>1. "browser" \notin r.tools /\ "desktop" \notin r.tools
      BY <2>2
    <3> QED BY <3>1 DEF Se!RoleTools
  <2> QED BY <1>1, <2>2, <2>3
<1> QED BY <1>2, <1>3

\* A call waits for a person only when approvals are asked for, and in the session it was made in; and
\* a session has returned nothing before its end.
AskedNow ==
  /\ step \in Team \cup {"none"}
  /\ \A c \in waiting : step # "none" /\ requireApproval /\ c.tool \in Se!Tools[step]
  /\ rules \subseteq UNION {Se!RulesOf(g) : g \in grants}
  /\ text # <<>> => spoke
  /\ step # "none" => returned = "none"

SessionInv == AskedNow /\ Se!KeepsToRole /\ Se!AskedFor /\ Se!LastWordCounts

(* A call that no hook denies, let run by a step that has its tool.             *)
LEMMA RunKeepsToRole ==
  ASSUME Se!KeepsToRole, step \in Team, NEW c, c.tool \in Se!Tools[step], NEW how, Se!Runs(c, how)
  PROVE  Se!KeepsToRole'
<1>1. ASSUME NEW x \in ran', x \notin ran
      PROVE  /\ x.call.tool \in Se!Tools[x.by]
             /\ x.by \notin Se!Phases /\ x.call.tool \in Se!Writing
                  => x.call.inScope /\ Se!RoleOf[x.by].scope # "none"
             /\ x.call.tool \in Se!Reading \cup Se!Writing \cup {"Bash"} => x.call.inside
  <2>1. ~Se!Denied(c) /\ x = [by |-> step, call |-> c, how |-> how]
    BY <1>1 DEF Se!Runs
  <2>2. x.by = step /\ x.call = c
    BY <2>1
  <2>3. ASSUME step \notin Se!Phases, c.tool \in Se!Writing
        PROVE  Se!RoleOf[step].scope # "none"
    <3>1. step \in {r.id : r \in Se!Roster}
      BY <2>3, StepAssumption
    <3>2. Se!RoleOf[step] \in Se!Roster
      BY <3>1 DEF Se!RoleOf
    <3>3. Se!Tools[step] = Se!RoleTools(Se!RoleOf[step])
      BY <2>3 DEF Se!Tools
    <3> QED BY <2>3, <3>2, <3>3, RolesHold DEF Se!RosterHolds
  <2> QED BY <2>1, <2>2, <2>3 DEF Se!Denied
<1> QED BY <1>1 DEF Se!KeepsToRole

(* ... and that was asked for as it must be.                                    *)
LEMMA RunAskedFor ==
  ASSUME Se!AskedFor, UNCHANGED requireApproval, grants \subseteq grants', NEW c, NEW how, Se!Runs(c, how),
         c.tool \in Se!Desktop => requireApproval, c.tool = "input" => how = "yes",
         how = "covered" => Se!ReadsOnly(c) \/ Se!RulesOf(c) \subseteq UNION {Se!RulesOf(g) : g \in grants},
         how = "unasked" => ~requireApproval
  PROVE  Se!AskedFor'
<1> DEFINE granted == UNION {Se!RulesOf(g) : g \in grants}
<1>1. granted \subseteq UNION {Se!RulesOf(g) : g \in grants'}
  OBVIOUS
<1>2. ASSUME NEW x \in ran'
      PROVE  /\ x.call.tool \in Se!Desktop => requireApproval
             /\ x.call.tool = "input" => x.how = "yes"
             /\ x.how = "covered" => Se!ReadsOnly(x.call) \/ Se!RulesOf(x.call) \subseteq granted
             /\ x.how = "unasked" => ~requireApproval
  <2>1. CASE x \in ran
    BY <2>1 DEF Se!AskedFor
  <2>2. CASE x \notin ran
    <3>1. x = [by |-> step, call |-> c, how |-> how]
      BY <2>2 DEF Se!Runs
    <3> QED BY <3>1
  <2> QED BY <2>1, <2>2
<1> HIDE DEF granted
<1> QED BY <1>1, <1>2 DEF Se!AskedFor

LEMMA SessionBegins == Se!Init => SessionInv
  BY DEF Se!Init, SessionInv, AskedNow, Se!KeepsToRole, Se!AskedFor, Se!LastWordCounts

LEMMA SessionStep == SessionInv /\ [Se!Next]_tools => SessionInv'
<1> SUFFICES ASSUME SessionInv, [Se!Next]_tools PROVE SessionInv'
  OBVIOUS
<1>0. UNCHANGED requireApproval
  BY DEF Se!Next, tools
<1> USE <1>0 DEF SessionInv
<1>1. ASSUME NEW s \in Team, Se!Begins(s) PROVE SessionInv'
  BY <1>1 DEF Se!Begins, AskedNow, Se!KeepsToRole, Se!AskedFor, Se!LastWordCounts
<1>2. ASSUME NEW t \in Se!Texts, Se!Says(t) PROVE SessionInv'
  <2>1. Se!KeepsToRole' /\ Se!AskedFor' /\ AskedNow'
    BY <1>2 DEF Se!Says, AskedNow, Se!KeepsToRole, Se!AskedFor
  <2> QED BY <1>2, <2>1 DEF Se!Says, Se!LastWordCounts, AskedNow
<1>3. ASSUME NEW c \in Se!Call, Se!Calls(c) PROVE SessionInv'
  <2> USE <1>3 DEF Se!Calls
  <2>1. step \in Team /\ Se!Tools[step] = Se!Tools'[step']
    BY DEF AskedNow
  <2>2. Se!LastWordCounts'
    BY DEF Se!LastWordCounts
  <2>3. CASE UNCHANGED <<ran, waiting>>
    BY <2>1, <2>2, <2>3 DEF AskedNow, Se!KeepsToRole, Se!AskedFor
  <2>4. CASE requireApproval /\ waiting' = waiting \cup {c} /\ UNCHANGED ran
    BY <2>1, <2>2, <2>4 DEF AskedNow, Se!KeepsToRole, Se!AskedFor
  <2>5. ASSUME NEW how, Se!Runs(c, how), UNCHANGED waiting,
               \/ c.tool \notin Se!Desktop /\ ~requireApproval /\ how = "unasked"
               \/ requireApproval /\ c.tool \in Se!Reading /\ how = "free"
               \/ requireApproval /\ Se!Covered(c) /\ how = "covered"
        PROVE  SessionInv'
    <3>1. Se!KeepsToRole'
      BY <2>1, <2>5, RunKeepsToRole
    <3>2. c.tool \in Se!Desktop => requireApproval
      BY <2>5
    <3>3. c.tool # "input"
      BY <2>5 DEF Se!Desktop, Se!Reading, Se!Covered, Se!ReadsOnly, Se!RulesOf
    <3>4. how = "covered" => Se!ReadsOnly(c) \/ Se!RulesOf(c) \subseteq UNION {Se!RulesOf(g) : g \in grants}
      BY <2>5 DEF Se!Covered, AskedNow
    <3>5. Se!AskedFor'
      BY <2>5, <3>2, <3>3, <3>4, RunAskedFor
    <3> QED BY <2>2, <2>5, <3>1, <3>5 DEF AskedNow
  <2> QED BY <2>3, <2>4, <2>5
<1>4. ASSUME NEW c \in waiting, NEW yes \in BOOLEAN, NEW remember \in BOOLEAN, Se!Answers(c, yes, remember)
      PROVE  SessionInv'
  <2> USE <1>4 DEF Se!Answers
  <2>1. step \in Team /\ requireApproval /\ c.tool \in Se!Tools[step] /\ Se!Tools[step] = Se!Tools'[step']
    BY DEF AskedNow
  <2>2. Se!LastWordCounts'
    BY DEF Se!LastWordCounts
  <2>3. grants \subseteq grants'
    OBVIOUS
  <2>4. Se!KeepsToRole' /\ Se!AskedFor'
    <3>1. CASE yes
      <4>1. Se!Runs(c, "yes")
        BY <3>1
      <4> QED BY <2>1, <2>3, <4>1, RunKeepsToRole, RunAskedFor
    <3>2. CASE ~yes
      <4>1. Se!KeepsToRole'
        BY <3>2 DEF Se!KeepsToRole
      <4>2. UNION {Se!RulesOf(g) : g \in grants} \subseteq UNION {Se!RulesOf(g) : g \in grants'}
        BY <2>3
      <4>3. Se!AskedFor'
        BY <3>2, <4>2 DEF Se!AskedFor
      <4> QED BY <4>1, <4>3
    <3> QED BY <3>1, <3>2
  <2>5. rules' \subseteq UNION {Se!RulesOf(g) : g \in grants'}
    BY DEF AskedNow
  <2>6. AskedNow'
    BY <2>1, <2>5 DEF AskedNow
  <2> QED BY <2>2, <2>4, <2>6
<1>5. CASE Se!Ends
  BY <1>5 DEF Se!Ends, Se!Outcome, AskedNow, Se!KeepsToRole, Se!AskedFor, Se!LastWordCounts
<1>6. CASE Se!Aborted
  BY <1>6 DEF Se!Aborted, AskedNow, Se!KeepsToRole, Se!AskedFor, Se!LastWordCounts
<1>7. CASE UNCHANGED tools
  BY <1>7 DEF tools, AskedNow, Se!KeepsToRole, Se!AskedFor, Se!LastWordCounts
<1> QED
  BY <1>1, <1>2, <1>3, <1>4, <1>5, <1>6, <1>7 DEF Se!Next

(* Whoever is in the team and whatever its roles' files say, a step runs no     *)
(* call its role may not make and none that was not asked for as it must be;    *)
(* no role of a user's has an acting tool; and a step passes only by the last    *)
(* words of its own session (runPhase, roleSpec, parseUserRole,                 *)
(* createApprovalHook).                                                        *)
THEOREM EveryStepKeepsToRole == Limits => []StepKeepsToRole
<1>1. LimitsInit => SessionInv
  BY SessionBegins DEF LimitsInit
<1>2. SessionInv /\ [LimitsNext]_<<world, vars, sites, files, tools>> => SessionInv'
  BY SessionStep DEF LimitsNext, Gate, tools
<1>3. SessionInv => StepKeepsToRole
  BY RolesHold DEF SessionInv, StepKeepsToRole, Se!StepKeepsToRole
<1> QED
  BY <1>1, <1>2, <1>3, PTL DEF Limits

-----------------------------------------------------------------------------
(* Designated files. *)

(* A set of naturals has a least element.                                      *)
LEMMA LessIsWellFounded ==
  \E R : IsWellFoundedOn(R, Nat) /\ \A x, y \in Nat : x < y => <<x, y>> \in R
<1>1. IsWellFoundedOn(OpToRel(<, Nat), Nat)
  BY NatLessThanWellFounded
<1>2. \A x, y \in Nat : x < y => <<x, y>> \in OpToRel(<, Nat)
  BY DEF OpToRel
<1>3. QED
  BY <1>1, <1>2, Zenon

LEMMA LeastNat ==
  ASSUME NEW T, T \subseteq Nat, T # {}
  PROVE  \E x \in T : \A y \in T : x <= y
<1>1. PICK R : IsWellFoundedOn(R, Nat) /\ \A x, y \in Nat : x < y => <<x, y>> \in R
  BY LessIsWellFounded
<1>2. \E x \in T : \A y \in T : <<y, x>> \notin R
  <2>1. \A X, Q, U : IsWellFoundedOn(Q, X) /\ U \subseteq X /\ U # {} => \E u \in U : \A y \in U : <<y, u>> \notin Q
    BY WFMin
  <2>2. IsWellFoundedOn(R, Nat)
    BY <1>1
  <2>3. QED
    BY <2>1, <2>2, Zenon
<1>3. PICK x \in T : \A y \in T : <<y, x>> \notin R
  BY <1>2
<1>4. ASSUME NEW y \in T PROVE x <= y
  <2>1. x \in Nat /\ y \in Nat
    OBVIOUS
  <2>2. ~(y < x)
    BY <1>1, <1>3, <2>1, Zenon
  <2>3. QED
    BY <2>1, <2>2
<1>5. QED
  BY <1>4

(* A set of naturals with a bound has a greatest element.                       *)
LEMMA MaxOfBounded ==
  ASSUME NEW T \in SUBSET Nat, NEW b \in Nat, T # {}, \A x \in T : x <= b
  PROVE  Up!Max(T) \in T /\ \A x \in T : x <= Up!Max(T)
<1> DEFINE over == {n \in Nat : \A x \in T : x <= n}
<1>1. \E n \in over : \A m \in over : n <= m
  <2>1. over \subseteq Nat /\ b \in over
    OBVIOUS
  <2> HIDE DEF over
  <2> QED BY <2>1, LeastNat
<1>2. PICK n \in over : \A m \in over : n <= m
  BY <1>1
<1>3. n \in T
  <2> SUFFICES ASSUME n \notin T PROVE FALSE
    OBVIOUS
  <2>1. \A x \in T : x < n
    BY <1>2
  <2>2. n # 0
    <3>1. PICK x \in T : TRUE
      OBVIOUS
    <3> QED BY <2>1, <3>1
  <2>3. n - 1 \in over
    BY <2>1, <2>2
  <2> QED BY <1>2, <2>3
<1> QED BY <1>2, <1>3 DEF Up!Max

(* A host that is listed has a platform, and what a rule covers.                *)
LEMMA ListedHasPlatform ==
  ASSUME NEW a \in AllowanceFiles, Up!Accepted(a), NEW h \in SiteHost, Up!Listed(a, h)
  PROVE  Up!PlatformOf(a, h) # <<>>
<1> DEFINE depths == {0} \cup {Len(r.host) : r \in {r \in a.allow : Up!Matches(r, h)}}
           depth(i) == Up!Depth(a.platforms[i].rules, h)
           best == {i \in DOMAIN a.platforms :
                      depth(i) > 0 /\ \A j \in DOMAIN a.platforms : depth(j) <= depth(i)}
<1>1. CASE best # {}
  <2>1. best \subseteq Nat
    BY SitesAssumption
  <2> HIDE DEF best
  <2>2. PICK i \in best : \A j \in best : i <= j
    BY <1>1, <2>1, LeastNat
  <2>3. Up!Min(best) \in best
    BY <2>1, <2>2 DEF Up!Min
  <2>4. Up!PlatformOf(a, h) = a.platforms[Up!Min(best)].name
    BY <1>1 DEF Up!PlatformOf, best
  <2>5. Up!Min(best) \in DOMAIN a.platforms
    BY <2>3 DEF best
  <2> QED BY <2>4, <2>5 DEF Up!Accepted
<1>2. CASE best = {}
  <2>1. h \in Seq(STRING)
    BY SitesAssumption
  <2>2. ASSUME NEW r \in a.allow, Up!Matches(r, h)
        PROVE  Len(r.host) \in Nat /\ Len(r.host) > 1 /\ Len(r.host) <= Len(h)
    <3>1. r.host \in Seq(STRING) /\ Len(r.host) > 1
      BY SitesAssumption DEF Up!Accepted, Up!IsRule
    <3>2. Len(r.host) <= Len(h)
      BY <2>1, <2>2, <3>1 DEF Up!Matches, Up!IsPrefix
    <3> QED BY <3>1, <3>2
  <2>3. depths \subseteq Nat /\ depths # {} /\ (\A x \in depths : x <= Len(h)) /\ Len(h) \in Nat
    BY <2>1, <2>2
  <2>4. PICK x \in depths : x > 1
    BY <2>2 DEF Up!Listed
  <2>5. Up!Max(depths) \in 1..Len(h) /\ Up!Max(depths) > 1
    <3> HIDE DEF depths
    <3>1. Up!Max(depths) \in depths /\ \A y \in depths : y <= Up!Max(depths)
      <4>1. depths \in SUBSET Nat
        BY <2>3
      <4> QED BY <2>3, <4>1, MaxOfBounded
    <3>2. PICK m \in depths : m = Up!Max(depths)
      BY <3>1
    <3>3. m \in Nat /\ Len(h) \in Nat /\ m <= Len(h) /\ x \in Nat /\ x <= m
      BY <2>3, <2>4, <3>1, <3>2
    <3>4. m \in 1..Len(h) /\ m > 1
      BY <2>4, <3>3
    <3> QED BY <3>2, <3>4
  <2>6. Up!PlatformOf(a, h) = SubSeq(h, 1, Up!Max(depths))
    BY <1>2 DEF Up!PlatformOf, Up!Depth
  <2>7. ASSUME NEW n \in 1..Len(h) PROVE SubSeq(h, 1, n) # <<>>
    <3>1. Len(SubSeq(h, 1, n)) = n
      BY <2>1
    <3> QED BY <3>1
  <2> HIDE DEF depths
  <2> QED BY <2>5, <2>6, <2>7
<1> QED BY <1>1, <1>2

LEMMA AcceptedListsAgree ==
  ASSUME NEW a \in AllowanceFiles, Up!Accepted(a)
  PROVE  Up!ListsAgree(a)
<1> USE DEF Up!Web, Up!MayOpen, Up!MayRequest, Up!MayConnect, Up!GateAllows, Up!Destination
<1>1. ASSUME NEW h \in SiteHost, Up!Listed(a, h)
      PROVE  /\ Up!MayOpen(a, Up!Web(h)) /\ Up!MayRequest(a, Up!Web(h), TRUE)
             /\ Up!MayConnect(a, h) /\ (Up!Local(h) \/ Up!GateAllows(a, h))
             /\ Up!PlatformOf(a, h) # <<>> /\ Up!Destination(a, Up!Web(h), Up!Web(h))
  BY <1>1, ListedHasPlatform DEF Up!Listed
<1>2. ASSUME NEW h \in SiteHost, Up!Denied(a, h)
      PROVE  ~Up!MayOpen(a, Up!Web(h)) /\ ~Up!MayConnect(a, h) /\ ~Up!GateAllows(a, h)
  BY <1>2 DEF Up!Listed
<1>3. ASSUME NEW i \in DOMAIN a.platforms, NEW r \in a.platforms[i].rules
      PROVE  Up!Listed(a, r.host) \/ Up!Denied(a, r.host)
  BY <1>3 DEF Up!Accepted, Up!Listed
<1> QED BY <1>1, <1>2, <1>3 DEF Up!ListsAgree

\* What is known of the tabs: a page is a listed one; a tab that carries a file is on the file's site,
\* or was when it closed, and held there unless a failed upload left it.
TabsTyped ==
  /\ list \in AllowanceFiles /\ Up!Accepted(list)
  /\ DOMAIN page \subseteq Tab /\ open \subseteq DOMAIN page
  /\ DOMAIN held = DOMAIN page /\ DOMAIN carries = DOMAIN page
  /\ \A t \in DOMAIN page : page[t] \in SiteHost \cup {<<>>}
  /\ call \in [tab : Tab \cup {0}, step : {"idle", "checked", "held", "set"}, there : BOOLEAN]

PageKnown(t) == page[t] # <<>> => Up!Listed(list, page[t])
OnSite(t) == carries[t] # <<>> => page[t] # <<>> /\ Up!PlatformOf(list, page[t]) = carries[t]
HeldThere(t) ==
  carries[t] # <<>> /\ t \notin lost =>
    held[t] # Up!Free /\ Up!Listed(list, held[t]) /\ Up!PlatformOf(list, held[t]) = carries[t]

\* The upload that is under way: its tab is held where it is, while that shows the same document.
UploadKnown ==
  call.step # "idle" =>
    /\ call.tab \in DOMAIN page
    /\ call.there =>
         /\ page[call.tab] # <<>>
         /\ call.step = "held" => held[call.tab] = page[call.tab]

FilesInv ==
  /\ TabsTyped /\ UploadKnown
  /\ \A t \in DOMAIN page : PageKnown(t) /\ OnSite(t) /\ HeldThere(t)

LEMMA SameSite ==
  ASSUME NEW from, NEW to
  PROVE  Up!Same(from, to) <=> /\ from # <<>> /\ to # <<>>
                               /\ Up!Listed(list, from) /\ Up!Listed(list, to)
                               /\ Up!PlatformOf(list, from) = Up!PlatformOf(list, to)
<1> USE DEF Up!Web
<1>1. Up!MayOpen(list, Up!Web(from)) <=> Up!Listed(list, from)
  BY DEF Up!MayOpen
<1>2. Up!MayOpen(list, Up!Web(to)) <=> Up!Listed(list, to)
  BY DEF Up!MayOpen
<1>3. Up!Web(from).host = from /\ Up!Web(to).host = to
  OBVIOUS
<1> HIDE DEF Up!Web
<1> QED BY <1>1, <1>2, <1>3 DEF Up!Same, Up!Destination, Up!Blank

(* No rule covers a page without a host.                                        *)
LEMMA NoBlankListed ==
  ASSUME list \in AllowanceFiles, Up!Accepted(list)
  PROVE  ~Up!Listed(list, <<>>)
<1>1. ASSUME NEW r \in list.allow PROVE ~Up!Matches(r, <<>>)
  <2>1. r.host \in Seq(STRING) /\ Len(r.host) > 1
    BY SitesAssumption DEF Up!Accepted, Up!IsRule
  <2> QED BY <2>1 DEF Up!Matches, Up!IsPrefix
<1> QED BY <1>1 DEF Up!Listed

LEMMA TabsBegin == Up!Init => FilesInv
  BY SitesAssumption DEF Up!Init, Up!Idle, Up!NoTab, Up!Blank, FilesInv, TabsTyped, UploadKnown,
     PageKnown, OnSite, HeldThere

LEMMA NavigateKeeps ==
  ASSUME FilesInv, NEW t \in DOMAIN page, NEW h \in SiteHost, Up!Navigate(t, h)
  PROVE  FilesInv'
<1> USE DEF Up!Navigate, Up!Left, Up!Step, Up!Blank, FilesInv
<1>1. TabsTyped'
  BY DEF TabsTyped
<1>2. UploadKnown'
  BY DEF TabsTyped, UploadKnown
<1>3. h # <<>>
  BY SitesAssumption DEF Up!Blank
<1>4. ASSUME NEW u \in DOMAIN page PROVE PageKnown(u)' /\ OnSite(u)' /\ HeldThere(u)'
  BY <1>3 DEF TabsTyped, PageKnown, OnSite, HeldThere
<1> QED BY <1>1, <1>2, <1>4

LEMMA CloseKeeps ==
  ASSUME FilesInv, NEW t \in open, Up!Close(t)
  PROVE  FilesInv'
  BY DEF Up!Close, Up!Left, FilesInv, TabsTyped, UploadKnown, PageKnown, OnSite, HeldThere

LEMMA LoadedKeeps ==
  ASSUME FilesInv, NEW t \in open, Up!Loaded(t)
  PROVE  FilesInv'
<1> USE DEF Up!Loaded, Up!Blank, FilesInv
<1>1. TabsTyped'
  BY DEF TabsTyped
<1>2. \/ held[t] = <<>> \/ page[t] = <<>> \/ ~Up!Listed(list, held[t]) \/ ~Up!Listed(list, page[t])
      \/ Up!PlatformOf(list, held[t]) # Up!PlatformOf(list, page[t])
  BY SameSite
<1>3. UploadKnown'
  BY <1>2 DEF TabsTyped, UploadKnown, PageKnown
<1>4. ASSUME NEW u \in DOMAIN page PROVE PageKnown(u)' /\ OnSite(u)' /\ HeldThere(u)'
  <2>1. ASSUME u = t, carries[t] # <<>>, t \notin lost PROVE FALSE
    <3>1. Up!Listed(list, held[t]) /\ Up!PlatformOf(list, held[t]) = carries[t] /\ page[t] # <<>>
          /\ Up!Listed(list, page[t]) /\ Up!PlatformOf(list, page[t]) = carries[t]
      BY <2>1 DEF TabsTyped, PageKnown, OnSite, HeldThere
    <3>2. held[t] # <<>>
      BY <3>1, NoBlankListed DEF TabsTyped
    <3> QED BY <1>2, <3>1, <3>2
  <2> QED BY <2>1 DEF TabsTyped, PageKnown, OnSite, HeldThere
<1> QED BY <1>1, <1>3, <1>4

LEMMA PopupKeeps ==
  ASSUME FilesInv, NEW t \in open, NEW h \in SiteHost, Up!Popup(t, h)
  PROVE  FilesInv'
<1> DEFINE new == Up!Cardinality(DOMAIN page) + 1
<1>1. /\ new \in Tab /\ Up!Listed(list, h) /\ UNCHANGED <<list, call, lost>>
      /\ page' = Up!Joined(page, new, h) /\ open' = open \cup {new}
      /\ held' = Up!Joined(held, new, Up!Free) /\ carries' = Up!Joined(carries, new, <<>>)
  BY DEF Up!Popup, Up!Blank
<1> HIDE DEF new
<1> USE <1>1 DEF Up!Joined, FilesInv
<1>2. TabsTyped'
  BY DEF TabsTyped
<1>3. UploadKnown'
  BY DEF TabsTyped, UploadKnown
<1>4. ASSUME NEW u \in DOMAIN page' PROVE PageKnown(u)' /\ OnSite(u)' /\ HeldThere(u)'
  BY DEF TabsTyped, PageKnown, OnSite, HeldThere
<1> QED BY <1>2, <1>3, <1>4

LEMMA UploadKeeps ==
  ASSUME FilesInv, \/ \E t \in open : Up!UploadChecks(t)
                   \/ Up!UploadHolds \/ Up!UploadSets \/ Up!UploadDone \/ Up!UploadFails
  PROVE  FilesInv'
<1> USE DEF Up!Step, Up!Blank, FilesInv
<1>1. ASSUME NEW t \in open, Up!UploadChecks(t) PROVE FilesInv'
  BY <1>1 DEF Up!UploadChecks, TabsTyped, UploadKnown, PageKnown, OnSite, HeldThere
<1>2. CASE Up!UploadHolds
  <2> USE <1>2 DEF Up!UploadHolds
  <2>1. TabsTyped'
    BY DEF TabsTyped
  <2>2. UploadKnown'
    BY DEF TabsTyped, UploadKnown
  <2>3. ASSUME NEW u \in DOMAIN page PROVE PageKnown(u)' /\ OnSite(u)' /\ HeldThere(u)'
    <3>1. page[u] # <<>> => page[u] # Up!Free
      BY SitesAssumption DEF TabsTyped
    <3> QED BY <3>1 DEF TabsTyped, UploadKnown, PageKnown, OnSite, HeldThere
  <2> QED BY <2>1, <2>2, <2>3
<1>3. CASE Up!UploadSets
  <2> USE <1>3 DEF Up!UploadSets
  <2>1. TabsTyped'
    BY DEF TabsTyped
  <2>2. UploadKnown'
    BY DEF TabsTyped, UploadKnown
  <2>3. ASSUME NEW u \in DOMAIN page PROVE PageKnown(u)' /\ OnSite(u)' /\ HeldThere(u)'
    <3>1. page[call.tab] # Up!Free
      BY SitesAssumption DEF TabsTyped, UploadKnown
    <3> QED BY <3>1 DEF TabsTyped, UploadKnown, PageKnown, OnSite, HeldThere
  <2> QED BY <2>1, <2>2, <2>3
<1>4. CASE Up!UploadDone
  BY <1>4 DEF Up!UploadDone, Up!Idle, Up!NoTab, TabsTyped, UploadKnown, PageKnown, OnSite, HeldThere
<1>5. CASE Up!UploadFails
  <2> USE <1>5 DEF Up!UploadFails, Up!Idle, Up!NoTab
  <2>1. TabsTyped' /\ UploadKnown'
    BY DEF TabsTyped, UploadKnown
  <2>2. ASSUME NEW u \in DOMAIN page PROVE PageKnown(u)' /\ OnSite(u)' /\ HeldThere(u)'
    BY DEF TabsTyped, UploadKnown, PageKnown, OnSite, HeldThere
  <2> QED BY <2>1, <2>2
<1> QED BY <1>1, <1>2, <1>3, <1>4, <1>5

LEMMA FilesStep == FilesInv /\ [Up!Next]_sites => FilesInv'
<1> SUFFICES ASSUME FilesInv, [Up!Next]_sites PROVE FilesInv'
  OBVIOUS
<1>1. CASE UNCHANGED sites
  BY <1>1 DEF sites, FilesInv, TabsTyped, UploadKnown, PageKnown, OnSite, HeldThere
<1>2. ASSUME NEW t \in open, NEW h \in SiteHost, Up!Navigate(t, h) \/ Up!Popup(t, h)
      PROVE  FilesInv'
  <2>1. t \in DOMAIN page
    BY DEF FilesInv, TabsTyped
  <2> QED BY <1>2, <2>1, NavigateKeeps, PopupKeeps
<1> QED
  BY <1>1, <1>2, LoadedKeeps, CloseKeeps, UploadKeeps DEF Up!Next

(* A tab whose file a request could take is held, and found from the tab of the *)
(* request if the way there is one that is followed.                            *)
LEMMA CarrierHeld ==
  ASSUME FilesInv, NEW t \in open, NEW s \in Up!Carriers(t), s[Len(s)] \notin lost
  PROVE  /\ s[Len(s)] \in DOMAIN page /\ carries[s[Len(s)]] # <<>> /\ held[s[Len(s)]] # Up!Free
         /\ Up!PlatformOf(list, held[s[Len(s)]]) = carries[s[Len(s)]]
         /\ Up!Followed(s) => held[s[Len(s)]] \in Up!HeldFor(t)
<1>1. s \in Up!Lines(t) /\ carries[s[Len(s)]] # <<>>
  BY DEF Up!Carriers, Up!Blank
<1>2. PICK n \in 1..Up!Cardinality(DOMAIN page) : s \in [1..n -> DOMAIN page]
  BY <1>1 DEF Up!Lines
<1>3. Up!Cardinality(DOMAIN page) = Cardinality(DOMAIN page)
  BY DEF Up!Cardinality, Cardinality
<1>4. Cardinality(DOMAIN page) \in Nat
  <2>1. IsFiniteSet(Tab) /\ DOMAIN page \subseteq Tab
    BY SitesAssumption DEF FilesInv, TabsTyped
  <2> QED BY <2>1, FS_Subset, FS_CardinalityType
<1>5. n \in Nat /\ 1 <= n
  BY <1>2, <1>3, <1>4
<1>6. Len(s) = n
  BY <1>2, <1>5
<1>7. s[Len(s)] \in DOMAIN page
  BY <1>2, <1>5, <1>6
<1>8. held[s[Len(s)]] # Up!Free /\ Up!PlatformOf(list, held[s[Len(s)]]) = carries[s[Len(s)]]
  BY <1>1, <1>7 DEF FilesInv, HeldThere
<1>9. Up!Followed(s) => held[s[Len(s)]] \in Up!HeldFor(t)
  BY <1>1, <1>8 DEF Up!HeldFor
<1> QED BY <1>1, <1>7, <1>8, <1>9

(* The files known to be held go nowhere else.                                  *)
LEMMA HeldStay == FilesInv => FilesStayHome
<1> SUFFICES ASSUME FilesInv PROVE FilesStayHome
  OBVIOUS
<1>1. Up!ListsAgree(list)
  BY AcceptedListsAgree DEF FilesInv, TabsTyped
<1>2. ASSUME NEW t \in open, NEW s \in Up!Carriers(t), NEW h \in SiteHost, s[Len(s)] \notin lost,
             \/ Up!Followed(s) /\ \E navigation \in BOOLEAN : Up!Continues(t, h, navigation)
             \/ /\ \A o \in DOMAIN page \ {s[Len(s)]} : held[o] = Up!Free
                /\ Up!ConnectsToServer(h)
      PROVE  Up!Listed(list, h) /\ Up!PlatformOf(list, h) = carries[s[Len(s)]]
  <2> DEFINE some == {o \in DOMAIN page : held[o] # Up!Free}
  <2> PICK c : c = s[Len(s)]
    OBVIOUS
  <2>1. /\ c \in DOMAIN page /\ held[c] # Up!Free /\ Up!PlatformOf(list, held[c]) = carries[c]
        /\ Up!Followed(s) => held[c] \in Up!HeldFor(t)
    BY <1>2, CarrierHeld
  <2>2. Up!Same(held[c], h)
    <3>1. CASE Up!Followed(s) /\ \E navigation \in BOOLEAN : Up!Continues(t, h, navigation)
      BY <2>1, <3>1 DEF Up!Continues
    <3>2. CASE /\ \A o \in DOMAIN page \ {c} : held[o] = Up!Free
               /\ Up!ConnectsToServer(h)
      <4>1. some = {c}
        BY <2>1, <3>2
      <4>2. Up!Min(some) = c
        <5>1. c \in Nat
          BY <2>1, SitesAssumption DEF FilesInv, TabsTyped
        <5> QED BY <4>1, <5>1 DEF Up!Min
      <4>3. Up!HeldAny = IF some = {} THEN {} ELSE {held[Up!Min(some)]}
        BY DEF Up!HeldAny
      <4>4. \A on \in Up!HeldAny : Up!Same(on, h)
        BY <3>2 DEF Up!ConnectsToServer
      <4> HIDE DEF some
      <4> QED BY <4>1, <4>2, <4>3, <4>4
    <3> QED BY <1>2, <3>1, <3>2
  <2> QED BY <2>1, <2>2, SameSite
<1> QED BY <1>1, <1>2 DEF FilesStayHome, Up!FilesStayHome

(* Whatever the allowances file lists, wherever the pages go and whatever they  *)
(* open, close and send meanwhile, a file goes to no site but the one it was    *)
(* attached on, but for those the property names; and the layers of the browser *)
(* agree on what the list allows, but for this machine's own names (browser-    *)
(* tools.ts 516-720, parseAllowances, liveBrowserPolicy).                       *)
THEOREM FilesStay == Limits => []FilesStayHome
<1>1. LimitsInit => FilesInv
  BY TabsBegin DEF LimitsInit
<1>2. FilesInv /\ [LimitsNext]_<<world, vars, sites, files, tools>> => FilesInv'
  BY FilesStep DEF LimitsNext, Gate, sites
<1> QED
  BY <1>1, <1>2, HeldStay, PTL DEF Limits

-----------------------------------------------------------------------------
(* The desktop session. *)

(* The types the arguments need.                                               *)
Shaped ==
  /\ window \in Anywhere
  /\ callState \in [Call -> CallState]
  /\ DOMAIN placeOf \subseteq Nat /\ IsFiniteSet(DOMAIN placeOf)
  /\ locked \in BOOLEAN
  /\ uses \in [Captures -> [Call -> Nat]]
  /\ late \in [Call -> Nat]

(* A capture used for an input is used up, and a call inside the fence has not *)
(* used the capture it was let in with.                                        *)
UsedUp == \A n \in Captures, c \in Call :
  /\ uses[n][c] <= 1
  /\ uses[n][c] > 0 => n \in consumed
  /\ InFence(c) /\ callState[c].snap = n => uses[n][c] = 0

(* Nothing is late before the lock; after it, a call inside the fence was      *)
(* there when the session was locked, and has sent nothing since.              *)
Drained ==
  /\ ~locked => racing = {}
  /\ \A c \in Call : /\ late[c] <= (IF c \in racing THEN 1 ELSE 0)
                     /\ locked /\ InFence(c) => c \in racing /\ late[c] = 0
                     /\ ~locked => late[c] = 0

FenceInv == Shaped /\ UsedUp /\ Drained

-----------------------------------------------------------------------------

(* A call that is free, or is given a stage other than the gate's, is outside  *)
(* the fence.                                                                  *)
Outside(s) == s \in CallState /\ s.stage # "gate"

LEMMA FreeOutside == Outside(Free)
BY DEF Outside, Free, CallState, Stages, Anywhere, Nowhere

(* One call goes elsewhere: the others stay where they are.                    *)
LEMMA GoesKeeps ==
  ASSUME callState \in [Call -> CallState], NEW c \in Call, NEW s \in CallState, Awaits(c, s)
  PROVE  /\ callState' \in [Call -> CallState]
         /\ callState'[c] = s
         /\ \A d \in Call \ {c} : callState'[d] = callState[d]
BY DEF Awaits

(* A call that leaves, or stays outside, the fence disturbs nothing, as long   *)
(* as nothing is sent and nothing is locked.                                   *)
LEMMA OutsideKeeps ==
  ASSUME FenceInv, NEW c \in Call, NEW s, Outside(s), Awaits(c, s),
         UNCHANGED <<window, locked, racing, uses, late>>,
         consumed \subseteq consumed', DOMAIN placeOf' \subseteq Nat, IsFiniteSet(DOMAIN placeOf')
  PROVE  FenceInv'
<1>1. Shaped'
  BY GoesKeeps DEF FenceInv, Shaped, Outside
<1>2. \A d \in Call : InFence(d)' => InFence(d) /\ callState'[d] = callState[d]
  BY GoesKeeps DEF FenceInv, Shaped, Outside, InFence
<1>3. UsedUp'
  BY <1>2 DEF FenceInv, UsedUp
<1>4. Drained'
  BY <1>2 DEF FenceInv, Drained
<1>5. QED
  BY <1>1, <1>3, <1>4 DEF FenceInv

(* verifyTarget in a stage other than the gate's.                              *)
LEMMA VerifyOutside ==
  ASSUME NEW c \in Call, NEW s \in CallState, NEW stage \in Stages \ {"gate"}, Verify(c, s, stage)
  PROVE  \E r : Outside(r) /\ Awaits(c, r)
<1>1. Outside([s EXCEPT !.at = "listing", !.stage = stage])
  BY DEF Outside, CallState
<1>2. QED
  BY <1>1, FreeOutside DEF Verify, Ends, Awaits

(* A call that locks the session leaves the fence; who is still inside it when *)
(* it is locked first is what racing records.                                  *)
LEMMA LockKeeps ==
  ASSUME FenceInv, NEW c \in Call, Lock(c),
         UNCHANGED <<window, records, uses, late>>
  PROVE  FenceInv'
<1>1. Awaits(c, Free)
  BY DEF Lock, Ends, Awaits
<1>2. /\ callState' \in [Call -> CallState] /\ callState'[c] = Free
      /\ \A d \in Call \ {c} : callState'[d] = callState[d]
  BY <1>1, GoesKeeps, FreeOutside DEF FenceInv, Shaped, Outside
<1>3. Shaped'
  BY <1>2 DEF FenceInv, Shaped, Lock, records
<1>4. \A d \in Call : InFence(d)' => d # c /\ InFence(d) /\ callState'[d] = callState[d]
  BY <1>2 DEF InFence, Free
<1>5. UsedUp'
  BY <1>4 DEF FenceInv, UsedUp, records
<1>6. Drained'
  <2>1. CASE locked
    <3>1. locked' /\ racing' = racing
      BY <2>1 DEF Lock
    <3>2. QED
      BY <2>1, <3>1, <1>4 DEF FenceInv, Drained
  <2>2. CASE ~locked
    <3>1. locked' /\ racing' = {d \in Call \ {c} : InFence(d)}
      BY <2>2 DEF Lock
    <3>2. \A d \in Call : late'[d] = 0
      BY <2>2 DEF FenceInv, Drained
    <3>3. QED
      BY <3>1, <3>2, <1>4 DEF Drained
  <2>3. QED
    BY <2>1, <2>2
<1>7. QED
  BY <1>3, <1>5, <1>6 DEF FenceInv

-----------------------------------------------------------------------------
(* The steps that touch the fence. *)

(* A call is let in with a capture not used up.                                *)
LEMMA ActKeeps ==
  ASSUME FenceInv, NEW c \in Call, NEW n \in DOMAIN placeOf, Act(c, n)
  PROVE  FenceInv'
<1> DEFINE s == [Free EXCEPT !.at = "listing", !.stage = "gate", !.snap = n]
<1>1. s \in CallState /\ s.snap = n
  BY FreeOutside DEF FenceInv, Shaped, Outside, Free, CallState, Stages
<1>2. /\ callState' \in [Call -> CallState] /\ callState'[c] = s
      /\ \A d \in Call \ {c} : callState'[d] = callState[d]
  <2>1. Awaits(c, s)
    BY DEF Act
  <2>2. QED
    BY <1>1, <2>1, GoesKeeps DEF FenceInv, Shaped
<1> HIDE DEF s
<1>3. Shaped'
  BY <1>2 DEF FenceInv, Shaped, Act, records, history
<1>4. UsedUp'
  BY <1>1, <1>2 DEF FenceInv, Shaped, UsedUp, InFence, Act, records, history
<1>5. Drained'
  BY DEF FenceInv, Drained, Act, history
<1>6. QED
  BY <1>3, <1>4, <1>5 DEF FenceInv

(* The input is sent: the capture is used up in the same step.                 *)
LEMMA SendsKeeps ==
  ASSUME FenceInv, NEW c \in Call, Sends(c)
  PROVE  FenceInv'
<1> DEFINE n == callState[c].snap
           s == [Free EXCEPT !.at = "acting", !.stage = "sent"]
<1>1. CASE Ends(c) /\ UNCHANGED <<uses, late>>
  <2>1. Awaits(c, Free)
    BY <1>1 DEF Ends, Awaits
  <2>2. consumed \subseteq consumed' /\ UNCHANGED <<window, placeOf, locked, racing>>
    BY DEF Sends
  <2>3. QED
    BY <1>1, <2>1, <2>2, FreeOutside, OutsideKeeps DEF FenceInv, Shaped
<1>2. CASE /\ Awaits(c, s)
           /\ consumed' = consumed \cup {n}
           /\ uses' = [uses EXCEPT ![n][c] = @ + 1]
           /\ late' = IF locked THEN [late EXCEPT ![c] = @ + 1] ELSE late
  <2>1. Outside(s)
    BY DEF Outside, Free, CallState, Stages, Anywhere, Nowhere
  <2>2. /\ callState' \in [Call -> CallState] /\ callState'[c] = s
        /\ \A d \in Call \ {c} : callState'[d] = callState[d]
    BY <1>2, <2>1, GoesKeeps DEF FenceInv, Shaped, Outside
  <2>3. InFence(c) /\ UNCHANGED <<window, placeOf, locked, racing>>
    BY DEF Sends, InFence
  <2> HIDE DEF s
  <2>4. \A m \in Captures, d \in Call :
          uses'[m][d] = IF m = n /\ d = c THEN uses[m][d] + 1 ELSE uses[m][d]
    BY <1>2 DEF FenceInv, Shaped
  <2>5. uses' \in [Captures -> [Call -> Nat]]
    <3>1. uses' = [m \in Captures |-> IF m = n THEN [uses[m] EXCEPT ![c] = @ + 1] ELSE uses[m]]
      BY <1>2 DEF FenceInv, Shaped
    <3>2. \A m \in Captures : [uses[m] EXCEPT ![c] = @ + 1] \in [Call -> Nat]
      BY DEF FenceInv, Shaped
    <3>3. QED
      BY <3>1, <3>2 DEF FenceInv, Shaped
  <2>6. \A d \in Call : late'[d] = IF locked /\ d = c THEN late[d] + 1 ELSE late[d]
    BY <1>2 DEF FenceInv, Shaped
  <2>7. late' \in [Call -> Nat]
    BY <1>2 DEF FenceInv, Shaped
  <2>8. Shaped'
    BY <2>2, <2>3, <2>5, <2>7 DEF FenceInv, Shaped
  <2>9. \A d \in Call : InFence(d)' => d # c /\ InFence(d) /\ callState'[d] = callState[d]
    BY <2>1, <2>2 DEF InFence, Outside
  <2>10. UsedUp'
    <3> SUFFICES ASSUME NEW m \in Captures, NEW d \in Call
                 PROVE  /\ uses'[m][d] <= 1
                        /\ uses'[m][d] > 0 => m \in consumed'
                        /\ InFence(d)' /\ callState'[d].snap = m => uses'[m][d] = 0
      BY DEF UsedUp
    <3>1. CASE m = n /\ d = c
      <4>1. uses[m][d] = 0
        BY <3>1, <2>3 DEF FenceInv, UsedUp
      <4>2. QED
        BY <1>2, <3>1, <4>1, <2>4, <2>9
    <3>2. CASE ~(m = n /\ d = c)
      <4>1. uses'[m][d] = uses[m][d]
        BY <3>2, <2>4
      <4>2. QED
        BY <1>2, <4>1, <2>9 DEF FenceInv, UsedUp
    <3>3. QED
      BY <3>1, <3>2
  <2>11. Drained'
    <3>1. ~locked => racing' = {} /\ \A d \in Call : late'[d] = 0
      BY <2>3, <2>6 DEF FenceInv, Drained
    <3>2. ASSUME locked, NEW d \in Call
          PROVE  /\ late'[d] <= (IF d \in racing' THEN 1 ELSE 0)
                 /\ InFence(d)' => d \in racing' /\ late'[d] = 0
      <4>1. CASE d = c
        BY <3>2, <4>1, <2>3, <2>6, <2>9 DEF FenceInv, Drained
      <4>2. CASE d # c
        BY <3>2, <4>2, <2>3, <2>6, <2>9 DEF FenceInv, Drained
      <4>3. QED
        BY <4>1, <4>2
    <3>3. locked' = locked
      BY <2>3
    <3>4. QED
      BY <3>1, <3>2, <3>3, <2>8 DEF Drained, Shaped
  <2>12. QED
    BY <2>8, <2>10, <2>11 DEF FenceInv
<1>3. QED
  BY <1>1, <1>2 DEF Sends

-----------------------------------------------------------------------------

LEMMA FenceInit == DesktopInit => FenceInv
<1> SUFFICES ASSUME DesktopInit PROVE FenceInv
  OBVIOUS
<1>1. DOMAIN placeOf = {}
  BY DEF DesktopInit
<1>2. Free \in CallState /\ Free.stage # "gate"
  BY FreeOutside DEF Outside
<1>3. Shaped
  BY <1>1, <1>2, FS_EmptySet DEF DesktopInit, Shaped, Anywhere
<1>4. UsedUp
  BY <1>2 DEF DesktopInit, UsedUp, InFence
<1>5. Drained
  BY <1>2 DEF DesktopInit, Drained, InFence
<1>6. QED
  BY <1>3, <1>4, <1>5 DEF FenceInv

LEMMA FenceNext == FenceInv /\ [DesktopNext]_desktopVars => FenceInv'
<1> SUFFICES ASSUME FenceInv, [DesktopNext]_desktopVars
             PROVE  FenceInv'
  OBVIOUS
<1> USE DEF FenceInv, Shaped
<1>1. ASSUME NEW c \in Call, Capture(c) \/ Look(c)
      PROVE  FenceInv'
  <2>1. \E r : Outside(r) /\ Awaits(c, r)
    BY <1>1, VerifyOutside, FreeOutside DEF Capture, Look, Stages, Outside
  <2>2. UNCHANGED <<window, locked, racing, uses, late, consumed, placeOf>>
    BY <1>1 DEF Capture, Look, records, history
  <2>3. QED
    BY <2>1, <2>2, OutsideKeeps
<1>2. ASSUME NEW c \in Call, GivesUp(c)
      PROVE  FenceInv'
  <2>1. Awaits(c, Free) /\ UNCHANGED <<window, locked, racing, uses, late, consumed, placeOf>>
    BY <1>2 DEF GivesUp, Ends, Awaits, records, history
  <2>2. QED
    BY <2>1, FreeOutside, OutsideKeeps
<1>3. ASSUME NEW c \in Call, NamedOther(c) \/ TimedOut(c)
      PROVE  FenceInv'
  BY <1>3, LockKeeps DEF NamedOther, TimedOut
<1>4. ASSUME NEW c \in Call, Listed(c)
      PROVE  FenceInv'
  <2>1. CASE Lock(c)
    BY <1>4, <2>1, LockKeeps DEF Listed
  <2>2. CASE /\ Awaits(c, [callState[c] EXCEPT !.at = "naming", !.seen = window])
             /\ UNCHANGED <<locked, racing>>
    <3> DEFINE s == [callState[c] EXCEPT !.at = "naming", !.seen = window]
    <3>1. s \in CallState /\ s.stage = callState[c].stage /\ s.snap = callState[c].snap
      BY DEF CallState
    <3>2. /\ callState' \in [Call -> CallState] /\ callState'[c] = s
          /\ \A d \in Call \ {c} : callState'[d] = callState[d]
      BY <2>2, <3>1, GoesKeeps
    <3> HIDE DEF s
    <3>3. UNCHANGED <<window, uses, late, consumed, placeOf>>
      BY <1>4 DEF Listed, records
    <3>4. \A d \in Call : InFence(d)' => InFence(d) /\ callState'[d].snap = callState[d].snap
      BY <1>4, <3>1, <3>2 DEF InFence, Listed
    <3>5. Shaped'
      BY <2>2, <3>2, <3>3
    <3>6. UsedUp'
      BY <3>3, <3>4 DEF UsedUp
    <3>7. Drained'
      BY <2>2, <3>3, <3>4 DEF Drained
    <3>8. QED
      BY <3>5, <3>6, <3>7
  <2>3. QED
    BY <1>4, <2>1, <2>2 DEF Listed
<1>5. ASSUME NEW c \in Call, Named(c)
      PROVE  FenceInv'
  <2>1. UNCHANGED <<window, locked, racing, uses, late, consumed, placeOf>>
    BY <1>5 DEF Named, records, history
  <2>2. CASE Ends(c)
    BY <2>1, <2>2, FreeOutside, OutsideKeeps DEF Ends, Awaits
  <2>3. CASE /\ callState[c].stage = "before"
             /\ Awaits(c, [callState[c] EXCEPT !.at = "shooting", !.first = callState[c].seen])
    <3>1. Outside([callState[c] EXCEPT !.at = "shooting", !.first = callState[c].seen])
      BY <2>3 DEF Outside, CallState
    <3>2. QED
      BY <2>1, <2>3, <3>1, OutsideKeeps
  <2>4. QED
    BY <1>5, <2>2, <2>3 DEF Named
<1>6. ASSUME NEW c \in Call, Shoots(c)
      PROVE  FenceInv'
  <2>1. [callState[c] EXCEPT !.shot = window] \in CallState
    BY DEF CallState
  <2>2. \E r : Outside(r) /\ Awaits(c, r)
    BY <1>6, <2>1, VerifyOutside DEF Shoots, Stages
  <2>3. UNCHANGED <<window, locked, racing, uses, late, consumed, placeOf>>
    BY <1>6 DEF Shoots, records, history
  <2>4. QED
    BY <2>2, <2>3, OutsideKeeps
<1>7. ASSUME NEW c \in Call, Keeps(c)
      PROVE  FenceInv'
  <2>1. Awaits(c, Free) /\ UNCHANGED <<window, locked, racing, uses, late, consumed>>
    BY <1>7 DEF Keeps, Ends, Awaits, history
  <2>2. Latest + 1 \in Nat
    BY FS_CardinalityType DEF Latest
  <2>3. DOMAIN placeOf' = DOMAIN placeOf \/ DOMAIN placeOf' = DOMAIN placeOf \cup {Latest + 1}
    BY <1>7 DEF Keeps
  <2>4. DOMAIN placeOf' \subseteq Nat /\ IsFiniteSet(DOMAIN placeOf')
    BY <2>2, <2>3, FS_AddElement
  <2>5. QED
    BY <2>1, <2>4, FreeOutside, OutsideKeeps
<1>8. ASSUME NEW c \in Call, Acted(c)
      PROVE  FenceInv'
  <2>1. UNCHANGED <<window, locked, racing, uses, late, consumed, placeOf>>
    BY <1>8 DEF Acted, records, history
  <2>2. \E r : Outside(r) /\ Awaits(c, r)
    <3>1. CASE Ends(c)
      BY <3>1, FreeOutside DEF Ends, Awaits
    <3>2. CASE Verify(c, Free, "sent")
      BY <3>2, VerifyOutside, FreeOutside DEF Outside, Stages
    <3>3. QED
      BY <1>8, <3>1, <3>2 DEF Acted
  <2>3. QED
    BY <2>1, <2>2, OutsideKeeps
<1>9. ASSUME Changes \/ CloseDesktop \/ UNCHANGED desktopVars
      PROVE  FenceInv'
  <2>1. /\ window' \in Anywhere
        /\ UNCHANGED <<callState, locked, racing, uses, late, consumed, placeOf>>
    BY <1>9 DEF Changes, CloseDesktop, desktopVars, records, history
  <2>2. UsedUp' /\ Drained'
    BY <2>1 DEF UsedUp, Drained, InFence
  <2>3. QED
    BY <2>1, <2>2
<1>10. QED
  BY <1>1, <1>2, <1>3, <1>4, <1>5, <1>6, <1>7, <1>8, <1>9, ActKeeps, SendsKeeps DEF DesktopNext

(* A capture is good for one input of each call, however many calls cross.     *)
THEOREM CaptureOnce == DesktopSpec => []OncePerCall
<1>1. FenceInv => OncePerCall
  BY DEF FenceInv, UsedUp, OncePerCall
<1>2. QED
  BY FenceInit, FenceNext, <1>1, PTL DEF DesktopSpec

(* Once locked, the session sends only what was inside the fence, once.        *)
THEOREM LockHolds == DesktopSpec => []LockDrains
<1>1. FenceInv => LockDrains
  BY DEF FenceInv, Drained, LockDrains
<1>2. QED
  BY FenceInit, FenceNext, <1>1, PTL DEF DesktopSpec

-----------------------------------------------------------------------------
(* The caps. *)

Fenced == {c \in Call : InFence(c)}
Taking == {c \in Call : callState[c].stage \in {"before", "after"}}

(* A call that may still act is counted with the actions, one that may still   *)
(* keep a capture with the captures kept.                                      *)
Shooting == \A c \in Call : callState[c].at = "shooting" => callState[c].stage = "before"
Counted ==
  /\ actionCount \in Nat /\ captureCount \in 0..MaxCaptures
  /\ actionCount + Cardinality(Fenced) < MaxActions + Cardinality(Call)
  /\ Latest + Cardinality(Taking) <= captureCount

CapInv == FenceInv /\ Shooting /\ Counted

(* Calls are finitely many, and so are those counted.                          *)
LEMMA CountsFinite ==
  ASSUME IsFiniteSet(Call), NEW T \in SUBSET Call
  PROVE  /\ IsFiniteSet(T) /\ Cardinality(T) \in Nat /\ Cardinality(Call) \in Nat
         /\ Cardinality(T) <= Cardinality(Call)
BY FS_Subset, FS_CardinalityType

LEMMA AddOne ==
  ASSUME NEW S, NEW x, IsFiniteSet(S)
  PROVE  /\ IsFiniteSet(S \cup {x}) /\ Cardinality(S) \in Nat /\ Cardinality(S \cup {x}) \in Nat
         /\ Cardinality(S \cup {x}) <= Cardinality(S) + 1
<1> DEFINE more == S \cup {x}
<1>1. /\ IsFiniteSet(more)
      /\ Cardinality(more) = IF x \in S THEN Cardinality(S) ELSE Cardinality(S) + 1
  BY FS_AddElement
<1> HIDE DEF more
<1>2. Cardinality(S) \in Nat
  BY FS_CardinalityType
<1>3. Cardinality(more) \in Nat /\ Cardinality(more) <= Cardinality(S) + 1
  BY <1>1, <1>2
<1>4. QED
  BY <1>1, <1>2, <1>3 DEF more

(* Where calls only leave the fence or the taking of a picture, and nothing is *)
(* counted, the sums do not grow.                                              *)
LEMMA CountedStays ==
  ASSUME IsFiniteSet(Call), CapInv, Fenced' \subseteq Fenced, Taking' \subseteq Taking,
         UNCHANGED <<actionCount, captureCount, placeOf>>
  PROVE  Counted'
<1>1. /\ IsFiniteSet(Fenced) /\ IsFiniteSet(Taking)
      /\ Cardinality(Fenced) \in Nat /\ Cardinality(Taking) \in Nat
  BY CountsFinite DEF Fenced, Taking
<1>2. /\ Cardinality(Fenced') <= Cardinality(Fenced) /\ Cardinality(Taking') <= Cardinality(Taking)
      /\ Cardinality(Fenced') \in Nat /\ Cardinality(Taking') \in Nat
  BY <1>1, FS_Subset, FS_CardinalityType
<1>3. Cardinality(Call) \in Nat /\ Latest \in Nat /\ Latest' = Latest
  BY FS_CardinalityType DEF CapInv, FenceInv, Shaped, Latest
<1>4. QED
  BY <1>1, <1>2, <1>3, DesktopAssumption DEF CapInv, Counted

(* What one call's step means for who is counted.                              *)
LEMMA OneGoes ==
  ASSUME FenceInv, NEW c \in Call, NEW s \in CallState, Awaits(c, s)
  PROVE  /\ \A d \in Call \ {c} : callState'[d] = callState[d]
         /\ callState'[c] = s
         /\ s.stage # "gate" => Fenced' \subseteq Fenced \ {c}
         /\ s.stage \notin {"before", "after"} => Taking' \subseteq Taking \ {c}
         /\ Taking' \subseteq Taking \cup {c}
BY GoesKeeps DEF FenceInv, Shaped, Fenced, Taking, InFence

LEMMA FreeIs == Free \in CallState /\ Free.at = "free" /\ Free.stage = "look"
BY FreeOutside DEF Outside, Free

(* A call that ends.                                                           *)
LEMMA EndsCounted ==
  ASSUME IsFiniteSet(Call), CapInv, NEW c \in Call, Ends(c),
         UNCHANGED <<actionCount, captureCount, placeOf>>
  PROVE  Counted' /\ Shooting'
<1>1. Awaits(c, Free)
  BY DEF Ends, Awaits
<1>2. /\ Fenced' \subseteq Fenced /\ Taking' \subseteq Taking
      /\ callState'[c] = Free /\ \A d \in Call \ {c} : callState'[d] = callState[d]
  BY <1>1, FreeIs, OneGoes DEF CapInv
<1>3. QED
  BY <1>2, FreeIs, CountedStays DEF CapInv, Shooting

(* One that goes on with its stage, or to one that counts nothing.             *)
LEMMA GoesCounted ==
  ASSUME IsFiniteSet(Call), CapInv, NEW c \in Call, NEW s \in CallState, Awaits(c, s),
         \/ s.stage \in {"look", "sent"}
         \/ s.stage = callState[c].stage /\ (InFence(c) \/ s.stage # "gate")
         \/ s.stage = "after" /\ callState[c].stage = "before",
         s.at = "shooting" => s.stage = "before",
         UNCHANGED <<actionCount, captureCount, placeOf>>
  PROVE  Counted' /\ Shooting'
<1>1. callState'[c] = s /\ \A d \in Call \ {c} : callState'[d] = callState[d]
  BY OneGoes DEF CapInv
<1>2. Fenced' \subseteq Fenced /\ Taking' \subseteq Taking
  BY <1>1 DEF Fenced, Taking, InFence
<1>3. QED
  BY <1>1, <1>2, CountedStays DEF CapInv, Shooting

LEMMA ActCounted ==
  ASSUME IsFiniteSet(Call), CapInv, NEW c \in Call, NEW n \in DOMAIN placeOf, Act(c, n)
  PROVE  Counted' /\ Shooting'
<1> DEFINE s == [Free EXCEPT !.at = "listing", !.stage = "gate", !.snap = n]
<1>1. s \in CallState /\ s.at = "listing" /\ s.stage = "gate"
  BY FreeIs DEF CapInv, FenceInv, Shaped, Free, CallState, Stages
<1>2. Awaits(c, s) /\ actionCount < MaxActions /\ UNCHANGED <<actionCount, captureCount, placeOf>>
  BY DEF Act, records, counts
<1> HIDE DEF s
<1>3. /\ callState'[c] = s /\ \A d \in Call \ {c} : callState'[d] = callState[d]
      /\ Taking' \subseteq Taking
  BY <1>1, <1>2, OneGoes DEF CapInv
<1>4. /\ Cardinality(Fenced') \in Nat /\ Cardinality(Fenced') <= Cardinality(Call)
      /\ Cardinality(Call) \in Nat
  <2>1. Fenced' \in SUBSET Call
    BY DEF Fenced
  <2>2. QED
    BY <2>1, CountsFinite
<1>5. /\ IsFiniteSet(Taking) /\ Cardinality(Taking) \in Nat /\ Cardinality(Taking') \in Nat
      /\ Cardinality(Taking') <= Cardinality(Taking)
  <2>1. Taking \in SUBSET Call
    BY DEF Taking
  <2>2. QED
    BY <1>3, <2>1, CountsFinite, FS_Subset, FS_CardinalityType
<1>6. Latest \in Nat /\ Latest' = Latest
  BY <1>2, FS_CardinalityType DEF CapInv, FenceInv, Shaped, Latest
<1>7. Counted'
  BY <1>2, <1>4, <1>5, <1>6, DesktopAssumption DEF CapInv, Counted
<1>8. Shooting'
  BY <1>1, <1>3 DEF CapInv, Shooting
<1>9. QED
  BY <1>7, <1>8

(* The input that is counted leaves the fence.                                 *)
LEMMA SendsCounted ==
  ASSUME IsFiniteSet(Call), CapInv, NEW c \in Call, Sends(c)
  PROVE  Counted' /\ Shooting'
<1>0. InFence(c) /\ UNCHANGED <<captureCount, placeOf>>
  BY DEF Sends, InFence
<1>1. CASE Ends(c) /\ actionCount' = actionCount
  BY <1>0, <1>1, EndsCounted
<1>2. ASSUME actionCount' = actionCount + 1, NEW s \in CallState, Awaits(c, s),
             s.stage \in {"look", "sent"}, s.at # "shooting"
      PROVE  Counted' /\ Shooting'
  <2>1. /\ callState'[c] = s /\ \A d \in Call \ {c} : callState'[d] = callState[d]
        /\ Fenced' \subseteq Fenced \ {c} /\ Taking' \subseteq Taking /\ c \in Fenced
    BY <1>0, <1>2, OneGoes DEF CapInv, Fenced
  <2>2. /\ IsFiniteSet(Fenced) /\ Cardinality(Fenced) \in Nat
        /\ IsFiniteSet(Taking) /\ Cardinality(Taking) \in Nat
    BY CountsFinite DEF Fenced, Taking
  <2>3. /\ IsFiniteSet(Fenced \ {c}) /\ Cardinality(Fenced \ {c}) = Cardinality(Fenced) - 1
    BY <2>1, <2>2, FS_RemoveElement
  <2>4. /\ Cardinality(Fenced') \in Nat /\ Cardinality(Fenced') <= Cardinality(Fenced) - 1
        /\ Cardinality(Taking') \in Nat /\ Cardinality(Taking') <= Cardinality(Taking)
    BY <2>1, <2>2, <2>3, FS_Subset, FS_CardinalityType
  <2>5. Latest \in Nat /\ Latest' = Latest /\ Cardinality(Call) \in Nat
    BY <1>0, FS_CardinalityType DEF CapInv, FenceInv, Shaped, Latest
  <2>6. Counted'
    BY <1>0, <1>2, <2>2, <2>4, <2>5, DesktopAssumption DEF CapInv, Counted
  <2>7. Shooting'
    BY <1>2, <2>1 DEF CapInv, Shooting
  <2>8. QED
    BY <2>6, <2>7
<1>3. CASE actionCount' = actionCount + 1 /\ Ends(c)
  BY <1>2, <1>3, FreeIs DEF Ends, Awaits
<1>4. CASE actionCount' = actionCount + 1 /\ Awaits(c, [Free EXCEPT !.at = "acting", !.stage = "sent"])
  <2>1. /\ [Free EXCEPT !.at = "acting", !.stage = "sent"] \in CallState
        /\ [Free EXCEPT !.at = "acting", !.stage = "sent"].stage = "sent"
        /\ [Free EXCEPT !.at = "acting", !.stage = "sent"].at = "acting"
    BY FreeIs DEF Free, CallState, Stages
  <2>2. QED
    BY <1>2, <1>4, <2>1
<1>5. QED
  BY <1>1, <1>3, <1>4 DEF Sends

(* A capture is counted when it begins, and takes its place when it is kept.   *)
LEMMA CaptureCounted ==
  ASSUME IsFiniteSet(Call), CapInv, NEW c \in Call, Capture(c)
  PROVE  Counted' /\ Shooting'
<1>0. captureCount < MaxCaptures /\ captureCount' = captureCount + 1 /\ UNCHANGED <<actionCount, placeOf>>
  BY DEF Capture, records
<1> DEFINE r == [Free EXCEPT !.at = "listing", !.stage = "before"]
<1>1. PICK s \in {Free, r} : Awaits(c, s)
  BY DEF Capture, Verify, Ends, Awaits
<1>2. s \in CallState /\ s.stage # "gate" /\ s.at # "shooting"
  BY FreeIs DEF Free, CallState, Stages
<1>3. /\ callState'[c] = s /\ \A d \in Call \ {c} : callState'[d] = callState[d]
      /\ Fenced' \subseteq Fenced /\ Taking' \subseteq Taking \cup {c}
  BY <1>1, <1>2, OneGoes DEF CapInv
<1>4. /\ IsFiniteSet(Fenced) /\ Cardinality(Fenced) \in Nat
      /\ IsFiniteSet(Taking) /\ Cardinality(Taking) \in Nat
  BY CountsFinite DEF Fenced, Taking
<1>5. IsFiniteSet(Taking \cup {c}) /\ Cardinality(Taking \cup {c}) <= Cardinality(Taking) + 1
  BY <1>4, AddOne
<1>6. /\ Cardinality(Fenced') \in Nat /\ Cardinality(Fenced') <= Cardinality(Fenced)
      /\ Cardinality(Taking') \in Nat /\ Cardinality(Taking') <= Cardinality(Taking \cup {c})
  BY <1>3, <1>4, <1>5, FS_Subset, FS_CardinalityType
<1>7. Latest \in Nat /\ Latest' = Latest /\ Cardinality(Call) \in Nat /\ Cardinality(Taking \cup {c}) \in Nat
  BY <1>0, <1>5, FS_CardinalityType DEF CapInv, FenceInv, Shaped, Latest
<1>8. Counted'
  BY <1>0, <1>4, <1>5, <1>6, <1>7, DesktopAssumption DEF CapInv, Counted
<1>9. Shooting'
  BY <1>2, <1>3 DEF CapInv, Shooting
<1>10. QED
  BY <1>8, <1>9

LEMMA KeepsCounted ==
  ASSUME IsFiniteSet(Call), CapInv, NEW c \in Call, Keeps(c)
  PROVE  Counted' /\ Shooting'
<1>1. CASE placeOf' = placeOf
  BY <1>1, EndsCounted DEF Keeps
<1>2. CASE DOMAIN placeOf' = DOMAIN placeOf \cup {Latest + 1}
  <2>1. Awaits(c, Free) /\ UNCHANGED <<actionCount, captureCount>> /\ c \in Taking
    BY DEF Keeps, Ends, Awaits, Taking
  <2>2. /\ callState'[c] = Free /\ \A d \in Call \ {c} : callState'[d] = callState[d]
        /\ Fenced' \subseteq Fenced /\ Taking' \subseteq Taking \ {c}
    BY <2>1, FreeIs, OneGoes DEF CapInv
  <2>3. /\ IsFiniteSet(Fenced) /\ Cardinality(Fenced) \in Nat
        /\ IsFiniteSet(Taking) /\ Cardinality(Taking) \in Nat
    BY CountsFinite DEF Fenced, Taking
  <2>4. IsFiniteSet(Taking \ {c}) /\ Cardinality(Taking \ {c}) = Cardinality(Taking) - 1
    BY <2>1, <2>3, FS_RemoveElement
  <2>5. /\ Cardinality(Fenced') \in Nat /\ Cardinality(Fenced') <= Cardinality(Fenced)
        /\ Cardinality(Taking') \in Nat /\ Cardinality(Taking') <= Cardinality(Taking) - 1
    BY <2>2, <2>3, <2>4, FS_Subset, FS_CardinalityType
  <2>6. Latest \in Nat /\ Latest' \in Nat /\ Latest' <= Latest + 1 /\ Cardinality(Call) \in Nat
    <3>1. IsFiniteSet(DOMAIN placeOf)
      BY DEF CapInv, FenceInv, Shaped
    <3>2. Cardinality(DOMAIN placeOf \cup {Latest + 1}) <= Cardinality(DOMAIN placeOf) + 1
          /\ Cardinality(DOMAIN placeOf \cup {Latest + 1}) \in Nat
      BY <3>1, AddOne
    <3>3. QED
      BY <1>2, <3>1, <3>2, FS_CardinalityType DEF Latest
  <2>7. Counted'
    BY <2>1, <2>3, <2>5, <2>6, DesktopAssumption DEF CapInv, Counted
  <2>8. Shooting'
    BY <2>2, FreeIs DEF CapInv, Shooting
  <2>9. QED
    BY <2>7, <2>8
<1>3. QED
  BY <1>1, <1>2 DEF Keeps

LEMMA CapNext ==
  ASSUME IsFiniteSet(Call), CapInv, [DesktopNext]_desktopVars
  PROVE  CapInv'
<1> SUFFICES Counted' /\ Shooting'
  BY FenceNext DEF CapInv
<1>1. ASSUME NEW c \in Call, Look(c) \/ Acted(c) \/ GivesUp(c) \/ NamedOther(c) \/ TimedOut(c)
      PROVE  Counted' /\ Shooting'
  <2>1. UNCHANGED <<actionCount, captureCount, placeOf>>
    BY <1>1 DEF Look, Acted, GivesUp, NamedOther, TimedOut, records, counts
  <2>2. CASE Ends(c)
    BY <2>1, <2>2, EndsCounted
  <2>3. ASSUME NEW stage \in {"look", "sent"},
               Awaits(c, [Free EXCEPT !.at = "listing", !.stage = stage])
        PROVE  Counted' /\ Shooting'
    <3> DEFINE s == [Free EXCEPT !.at = "listing", !.stage = stage]
    <3>1. s \in CallState /\ s.stage = stage /\ s.at = "listing"
      BY FreeIs DEF Free, CallState, Stages
    <3>2. Awaits(c, s)
      BY <2>3
    <3> HIDE DEF s
    <3>3. QED
      BY <2>1, <3>1, <3>2, GoesCounted
  <2>4. QED
    BY <1>1, <2>2, <2>3 DEF Look, Acted, GivesUp, NamedOther, TimedOut, Lock, Verify
<1>2. ASSUME NEW c \in Call, Listed(c)
      PROVE  Counted' /\ Shooting'
  <2>1. UNCHANGED <<actionCount, captureCount, placeOf>>
    BY <1>2 DEF Listed, records, counts
  <2>2. CASE Lock(c)
    BY <2>1, <2>2, EndsCounted DEF Lock
  <2>3. CASE Awaits(c, [callState[c] EXCEPT !.at = "naming", !.seen = window])
    <3> DEFINE s == [callState[c] EXCEPT !.at = "naming", !.seen = window]
    <3>1. s \in CallState /\ s.stage = callState[c].stage /\ s.at = "naming"
      BY DEF CapInv, FenceInv, Shaped, CallState
    <3>2. Awaits(c, s) /\ (callState[c].stage = "gate" => InFence(c))
      BY <1>2, <2>3 DEF Listed, InFence
    <3> HIDE DEF s
    <3>3. QED
      BY <2>1, <3>1, <3>2, GoesCounted
  <2>4. QED
    BY <1>2, <2>2, <2>3 DEF Listed
<1>3. ASSUME NEW c \in Call, Named(c)
      PROVE  Counted' /\ Shooting'
  <2>1. UNCHANGED <<actionCount, captureCount, placeOf>>
    BY <1>3 DEF Named, records, counts
  <2>2. CASE Ends(c)
    BY <2>1, <2>2, EndsCounted
  <2>3. CASE /\ callState[c].stage = "before"
             /\ Awaits(c, [callState[c] EXCEPT !.at = "shooting", !.first = callState[c].seen])
    <3> DEFINE s == [callState[c] EXCEPT !.at = "shooting", !.first = callState[c].seen]
    <3>1. s \in CallState /\ s.stage = "before"
      BY <2>3 DEF CapInv, FenceInv, Shaped, CallState
    <3>2. Awaits(c, s)
      BY <2>3
    <3> HIDE DEF s
    <3>3. QED
      BY <2>1, <2>3, <3>1, <3>2, GoesCounted
  <2>4. QED
    BY <1>3, <2>2, <2>3 DEF Named
<1>4. ASSUME NEW c \in Call, Shoots(c)
      PROVE  Counted' /\ Shooting'
  <2>1. UNCHANGED <<actionCount, captureCount, placeOf>>
    BY <1>4 DEF Shoots, records, counts
  <2>2. CASE Ends(c)
    BY <2>1, <2>2, EndsCounted
  <2>3. CASE ~Ends(c)
    <3> DEFINE from == [callState[c] EXCEPT !.shot = window]
               s == [from EXCEPT !.at = "listing", !.stage = "after"]
    <3>1. from \in CallState
      BY DEF CapInv, FenceInv, Shaped, CallState
    <3>2. s \in CallState /\ s.stage = "after" /\ s.at = "listing"
      BY <3>1 DEF CallState, Stages
    <3>3. Awaits(c, s) /\ callState[c].stage = "before"
      BY <1>4, <2>3 DEF Shoots, Verify, CapInv, Shooting
    <3> HIDE DEF s
    <3>4. QED
      BY <2>1, <3>2, <3>3, GoesCounted
  <2>4. QED
    BY <2>2, <2>3
<1>5. CASE Changes \/ CloseDesktop \/ UNCHANGED desktopVars
  <2>1. UNCHANGED <<callState, actionCount, captureCount, placeOf>>
    BY <1>5 DEF Changes, CloseDesktop, desktopVars, records, counts
  <2>2. Fenced' = Fenced /\ Taking' = Taking
    BY <2>1 DEF Fenced, Taking, InFence
  <2>3. QED
    BY <2>1, <2>2, CountedStays DEF CapInv, Shooting
<1>6. QED
  BY <1>1, <1>2, <1>3, <1>4, <1>5, ActCounted, SendsCounted, CaptureCounted, KeepsCounted DEF DesktopNext

(* The caps are passed by no more inputs than may be inside the fence with the *)
(* last one, and by no capture at all, for any finite number of calls at once  *)
(* and any caps (gate, capture).                                               *)
THEOREM CapsKept == ASSUME IsFiniteSet(Call), Call # {} PROVE DesktopSpec => []CapsHold
<1>1. DesktopInit => CapInv
  <2> SUFFICES ASSUME DesktopInit PROVE CapInv
    OBVIOUS
  <2>1. Fenced = {} /\ Taking = {} /\ DOMAIN placeOf = {} /\ Shooting
    BY FreeIs DEF DesktopInit, Fenced, Taking, InFence, Shooting
  <2>2. Cardinality(Fenced) = 0 /\ Cardinality(Taking) = 0 /\ Latest = 0
    BY <2>1, FS_EmptySet DEF Latest
  <2>3. Cardinality(Call) \in Nat /\ Cardinality(Call) # 0
    BY FS_EmptySet, FS_CardinalityType
  <2>4. Counted
    BY <2>2, <2>3, DesktopAssumption DEF DesktopInit, Counted
  <2>5. QED
    BY <2>1, <2>4, FenceInit DEF CapInv
<1>2. CapInv /\ [DesktopNext]_desktopVars => CapInv'
  BY CapNext
<1>3. CapInv => CapsHold
  <2> SUFFICES ASSUME CapInv PROVE CapsHold
    OBVIOUS
  <2>1. Cardinality(Fenced) \in Nat /\ Cardinality(Taking) \in Nat /\ Cardinality(Call) \in Nat
    BY CountsFinite DEF Fenced, Taking
  <2>2. Latest \in Nat
    BY FS_CardinalityType DEF CapInv, FenceInv, Shaped, Latest
  <2>3. QED
    BY <2>1, <2>2, DesktopAssumption DEF CapInv, Counted, CapsHold
<1>4. QED
  BY <1>1, <1>2, <1>3, PTL DEF DesktopSpec

-----------------------------------------------------------------------------
(* Where a path leads.                                                         *)

(* Induction up to a number.                                                   *)
LEMMA UpTo ==
  ASSUME NEW m \in Nat, NEW T, 0 \in T, \A n \in 1..m : n - 1 \in T => n \in T
  PROVE  \A n \in 0..m : n \in T
<1> DEFINE missed == {n \in 0..m : n \notin T}
<1> SUFFICES ASSUME missed # {} PROVE FALSE
  OBVIOUS
<1>1. missed \subseteq Nat
  OBVIOUS
<1>2. PICK n \in missed : \A k \in missed : n <= k
  <2> HIDE DEF missed
  <2> QED BY <1>1, LeastNat
<1>3. n \in 1..m
  BY <1>2
<1>4. n - 1 \in 0..m /\ ~(n <= n - 1)
  BY <1>3
<1>5. n - 1 \in T
  BY <1>2, <1>4
<1> QED BY <1>2, <1>3, <1>5

(* A value that is made of the one before is there as often as it is asked for. *)
Grows(m, X, a, g) == m \in Nat /\ a \in X /\ \A n \in 1..m, x \in X : g[<<n, x>>] \in X
Grown(m, X, a, g, k) == k \in [0..m -> X] /\ k[0] = a /\ \A n \in 1..m : k[n] = g[<<n, k[n - 1]>>]

\* A function defined by recursion over the numbers up to m is there.
LEMMA Recursion == \A m, X, a, g : Grows(m, X, a, g) => \E k : Grown(m, X, a, g, k)
<1> SUFFICES ASSUME NEW m, NEW X, NEW a, NEW g, Grows(m, X, a, g) PROVE \E k : Grown(m, X, a, g, k)
  OBVIOUS
<1>0. m \in Nat /\ a \in X /\ \A n \in 1..m, x \in X : g[<<n, x>>] \in X
  BY DEF Grows
<1> DEFINE Is(k, i) == k[0] = a /\ \A n \in 1..i : k[n] = g[<<n, k[n - 1]>>]
           T == {i \in 0..m : \E k \in [0..i -> X] : Is(k, i)}
<1>1. 0 \in T
  <2> DEFINE k == [n \in 0..0 |-> a]
  <2>1. k \in [0..0 -> X] /\ Is(k, 0)
    BY <1>0
  <2> HIDE DEF k, Is
  <2>2. 0 \in 0..m
    BY <1>0
  <2> QED BY <2>1, <2>2
<1>2. ASSUME NEW i \in 1..m, i - 1 \in T PROVE i \in T
  <2>1. PICK k \in [0..(i - 1) -> X] : Is(k, i - 1)
    BY <1>0, <1>2
  <2>2. PICK l : l = [n \in 0..i |-> IF n < i THEN k[n] ELSE g[<<i, k[i - 1]>>]]
    OBVIOUS
  <2>3. \A n \in 0..(i - 1) : n \in 0..i /\ n < i /\ l[n] = k[n] /\ k[n] \in X
    <3>1. \A n \in 0..(i - 1) : n \in 0..i /\ n < i
      BY <1>0, <1>2
    <3> QED BY <2>1, <2>2, <3>1
  <2>4. l[i] = g[<<i, k[i - 1]>>] /\ l[i] \in X
    <3>1. i - 1 \in 0..(i - 1) /\ i \in 0..i /\ ~(i < i)
      BY <1>0, <1>2
    <3>2. k[i - 1] \in X
      BY <2>3, <3>1
    <3> QED BY <1>0, <1>2, <2>2, <3>1, <3>2
  <2>5. l \in [0..i -> X]
    <3>1. \A n \in 0..i : n = i \/ n \in 0..(i - 1)
      BY <1>0, <1>2
    <3>2. \A n \in 0..i : l[n] \in X
      BY <2>3, <2>4, <3>1
    <3> QED BY <2>2, <3>2
  <2>6. l[0] = a
    BY <1>0, <1>2, <2>1, <2>3
  <2>7. \A n \in 1..i : l[n] = g[<<n, l[n - 1]>>]
    <3> TAKE n \in 1..i
    <3>1. n - 1 \in 0..(i - 1) /\ l[n - 1] = k[n - 1]
      BY <1>0, <1>2, <2>3
    <3>2. CASE n = i
      BY <2>4, <3>1, <3>2
    <3>3. CASE n # i
      <4>1. n \in 1..(i - 1) /\ n \in 0..(i - 1)
        BY <1>0, <1>2, <3>3
      <4> QED BY <2>1, <2>3, <3>1, <4>1
    <3> QED BY <3>2, <3>3
  <2>8. i \in 0..m /\ Is(l, i)
    BY <1>0, <1>2, <2>6, <2>7
  <2> QED BY <2>5, <2>8
<1> HIDE DEF T
<1>3. \A n \in 0..m : n \in T
  BY <1>0, <1>1, <1>2, UpTo
<1>4. m \in T
  BY <1>0, <1>3
<1> QED BY <1>0, <1>4 DEF T, Grown

Spots == Seq(STRING)
Ways == Sc!Ways
Found == [ok : BOOLEAN, place : Spots, error : {"", "ENOENT", "ENOTDIR", "ELOOP"}]
Linked(t) == \A p \in DOMAIN t : t[p].kind = "link" => t[p].to \in Sc!LinkPath

(* What is reached, or why nothing is.                                         *)
LEMMA FoundIs ==
  /\ \A p \in Spots : Sc!At(p) \in Found /\ Sc!At(p).ok /\ Sc!At(p).place = p
  /\ \A e \in {"ENOENT", "ENOTDIR", "ELOOP"} : Sc!Failed(e) \in Found /\ ~Sc!Failed(e).ok /\ Sc!Failed(e).error = e
<1>1. <<>> \in Spots
  BY DEF Spots
<1> QED BY <1>1 DEF Found, Sc!At, Sc!Failed

LEMMA PlaceIs == \A w \in Found : w.place \in Spots /\ w.place \in Seq(STRING)
<1>1. \A S, E : \A w \in [ok : BOOLEAN, place : S, error : E] : w.place \in S
  OBVIOUS
<1>2. \A w \in Found : w.place \in Spots
  BY <1>1, Zenon DEF Found
<1> QED BY <1>2 DEF Spots

\* What the places are: a parent, and where a link's path starts.
LEMMA ParentIs == \A p \in Spots : Sc!Parent(p) \in Spots
<1> SUFFICES ASSUME NEW p \in Spots, p # <<>> PROVE SubSeq(p, 1, Len(p) - 1) \in Spots
  BY DEF Sc!Parent, Sc!Front
<1>1. p \in Seq(STRING) /\ Len(p) \in Nat
  BY DEF Spots
<1>2. \A i \in 1..(Len(p) - 1) : i \in 1..Len(p) /\ p[i] \in STRING
  BY <1>1
<1> QED BY <1>1, <1>2 DEF Spots

LEMMA FromIs == \A path \in Sc!LinkPath, p \in Spots : Sc!From(path, p) \in Spots /\ path.names \in Spots
<1>1. <<>> \in Spots
  BY DEF Spots
<1> QED BY <1>1 DEF Sc!LinkPath, Spots, Sc!From

\* One name on, a path has come to a place or has failed.
LEMMA WalkOnIs ==
  ASSUME NEW t, Linked(t), NEW deeper \in [Ways -> Found], NEW w \in Found, NEW name \in STRING
  PROVE  Sc!WalkOn(t, deeper, w, name) \in Found
<1>1. PICK next : next = Append(w.place, name)
  OBVIOUS
<1>2. w.place \in Spots /\ next \in Spots
  <2>1. w.place \in Seq(STRING)
    BY DEF Found, Spots
  <2> QED BY <1>1, <2>1 DEF Spots
<1>3. Sc!Kind(t, next) = "link" => deeper[<<Sc!From(t[next].to, w.place), t[next].to.names>>] \in Found
  <2> SUFFICES ASSUME Sc!Kind(t, next) = "link" PROVE deeper[<<Sc!From(t[next].to, w.place), t[next].to.names>>] \in Found
    OBVIOUS
  <2>1. t[next].to \in Sc!LinkPath
    BY DEF Sc!Kind, Linked
  <2>2. Sc!From(t[next].to, w.place) \in Spots /\ t[next].to.names \in Spots
    BY <1>2, <2>1, FromIs
  <2>3. <<Sc!From(t[next].to, w.place), t[next].to.names>> \in Ways
    BY <2>2 DEF Ways, Sc!Ways, Spots
  <2> QED BY <2>3
<1>4. Sc!At(Sc!Parent(w.place)) \in Found /\ Sc!At(next) \in Found /\ Sc!Failed("ENOENT") \in Found /\ Sc!Failed("ENOTDIR") \in Found
  BY <1>2, ParentIs, FoundIs
<1> QED BY <1>1, <1>3, <1>4, Zenon DEF Sc!WalkOn

\* One name on, as the system goes (FALSE) or as the program reads it (TRUE).
On(reads, t, deeper, w, name) ==
  IF reads THEN Sc!CanonOn(t, deeper, w, name) ELSE Sc!WalkOn(t, deeper, w, name)
Typed(reads, t) == \A deeper \in [Ways -> Found], w \in Found, name \in STRING : On(reads, t, deeper, w, name) \in Found

(* The places on the way, one name after the other.                            *)
Came(reads, t, deeper, cur, names, came) ==
  /\ came \in [0..Len(names) -> Found] /\ came[0] = Sc!At(cur)
  /\ \A i \in 1..Len(names) : came[i] = On(reads, t, deeper, came[i - 1], names[i])

\* The function a level of a walk is defined by is there, and says name by name where the path has
\* come.
LEMMA CameIs ==
  ASSUME NEW reads, NEW t, Typed(reads, t), NEW deeper \in [Ways -> Found], NEW cur \in Spots, NEW names \in Spots, NEW came,
         came = [i \in 0..Len(names) |-> IF i = 0 THEN Sc!At(cur) ELSE On(reads, t, deeper, came[i - 1], names[i])]
  PROVE  Came(reads, t, deeper, cur, names, came)
<1> DEFINE T == {i \in 0..Len(names) : came[i] \in Found}
<1>1. Len(names) \in Nat /\ \A n \in 1..Len(names) : names[n] \in STRING
  BY DEF Spots
<1>2. came[0] = Sc!At(cur) /\ \A i \in 1..Len(names) : came[i] = On(reads, t, deeper, came[i - 1], names[i])
  <2>1. \A i \in 0..Len(names) : came[i] = IF i = 0 THEN Sc!At(cur) ELSE On(reads, t, deeper, came[i - 1], names[i])
    BY Zenon
  <2>2. 0 \in 0..Len(names) /\ \A i \in 1..Len(names) : i # 0 /\ i \in 0..Len(names)
    BY <1>1
  <2> QED BY <2>1, <2>2
<1>3. 0 \in T
  BY <1>1, <1>2, FoundIs
<1>4. \A i \in 1..Len(names) : i - 1 \in T => i \in T
  <2> TAKE i \in 1..Len(names)
  <2> HAVE i - 1 \in T
  <2>1. came[i - 1] \in Found /\ names[i] \in STRING /\ i \in 0..Len(names)
    BY <1>1
  <2>2. On(reads, t, deeper, came[i - 1], names[i]) \in Found
    BY <2>1 DEF Typed
  <2> QED BY <1>2, <2>1, <2>2
<1> HIDE DEF T
<1>5. \A i \in 0..Len(names) : i \in T
  BY <1>1, <1>3, <1>4, UpTo
<1>6. came \in [0..Len(names) -> Found]
  <2>1. \A i \in 0..Len(names) : came[i] \in Found
    BY <1>5 DEF T
  <2>2. came = [i \in 0..Len(names) |-> came[i]]
    OBVIOUS
  <2> QED BY <2>1, <2>2
<1> QED BY <1>2, <1>6 DEF Came

(* There are such places.                                                      *)
LEMMA CameThere ==
  ASSUME NEW reads, NEW t, Typed(reads, t), NEW deeper \in [Ways -> Found], NEW cur \in Spots, NEW names \in Spots
  PROVE  \E came : came = [i \in 0..Len(names) |-> IF i = 0 THEN Sc!At(cur) ELSE On(reads, t, deeper, came[i - 1], names[i])]
<1>1. PICK g : g = [x \in (1..Len(names)) \X Found |-> On(reads, t, deeper, x[2], names[x[1]])]
  OBVIOUS
<1>2. Len(names) \in Nat /\ \A n \in 1..Len(names) : names[n] \in STRING
  BY DEF Spots
<1>3. \A n \in 1..Len(names), x \in Found : g[<<n, x>>] = On(reads, t, deeper, x, names[n])
  <2> TAKE n \in 1..Len(names), x \in Found
  <2>1. PICK y : y = <<n, x>>
    OBVIOUS
  <2>2. y \in (1..Len(names)) \X Found /\ y[1] = n /\ y[2] = x
    BY <2>1
  <2>3. g[y] = On(reads, t, deeper, y[2], names[y[1]])
    BY <1>1, <2>2, Zenon
  <2> QED BY <2>1, <2>2, <2>3
<1>4. \A n \in 1..Len(names), x \in Found : g[<<n, x>>] \in Found
  <2> TAKE n \in 1..Len(names), x \in Found
  <2>1. names[n] \in STRING
    BY <1>2
  <2>2. On(reads, t, deeper, x, names[n]) \in Found
    BY <2>1 DEF Typed
  <2> QED BY <1>3, <2>2
<1>5. PICK m, a : m = Len(names) /\ a = Sc!At(cur)
  OBVIOUS
<1>6. PICK came \in [0..Len(names) -> Found] :
         came[0] = Sc!At(cur) /\ \A i \in 1..Len(names) : came[i] = g[<<i, came[i - 1]>>]
  <2>1. Grows(m, Found, a, g)
    BY <1>2, <1>4, <1>5, FoundIs DEF Grows
  <2>2. PICK k : Grown(m, Found, a, g, k)
    BY ONLY <2>1, Recursion
  <2> QED BY <1>5, <2>2 DEF Grown
<1>8. \A i \in 1..Len(names) : i # 0 /\ i \in 0..Len(names) /\ i - 1 \in 0..Len(names) /\ came[i - 1] \in Found
  <2>1. \A i \in 1..Len(names) : i # 0 /\ i \in 0..Len(names) /\ i - 1 \in 0..Len(names)
    BY <1>2
  <2> QED BY <1>6, <2>1
<1>10. \A i \in 1..Len(names) : came[i] = On(reads, t, deeper, came[i - 1], names[i])
  BY <1>3, <1>6, <1>8, Zenon
<1>12. came = [i \in 0..Len(names) |-> IF i = 0 THEN Sc!At(cur) ELSE On(reads, t, deeper, came[i - 1], names[i])]
  <2>1. came = [i \in 0..Len(names) |-> came[i]]
    BY <1>6
  <2>2. \A i \in 0..Len(names) : came[i] = IF i = 0 THEN Sc!At(cur) ELSE On(reads, t, deeper, came[i - 1], names[i])
    <3>1. \A i \in 0..Len(names) : i = 0 \/ i \in 1..Len(names)
      BY <1>2
    <3> QED BY <1>6, <1>8, <1>10, <3>1, Zenon
  <2> QED BY <2>1, <2>2, Zenon
<1> QED BY <1>12
\* A whole path, with so many links within links left.
WalkLevel(t, deeper, way) ==
  LET came[i \in 0..Len(way[2])] ==
        IF i = 0 THEN Sc!At(way[1]) ELSE Sc!WalkOn(t, deeper, came[i - 1], way[2][i])
  IN came[Len(way[2])]
CanonLevel(t, deeper, way) ==
  LET came[i \in 0..Len(way[2])] ==
        IF i = 0 THEN Sc!At(way[1]) ELSE Sc!CanonOn(t, deeper, came[i - 1], way[2][i])
  IN came[Len(way[2])]
Level(reads, t, deeper, way) == IF reads THEN CanonLevel(t, deeper, way) ELSE WalkLevel(t, deeper, way)

\* A level of the walk, and of the program's reading, ends where its last name comes.
LEMMA WalkLevelIs ==
  ASSUME NEW t, Typed(FALSE, t), NEW deeper \in [Ways -> Found], NEW way \in Ways
  PROVE  \E came : Came(FALSE, t, deeper, way[1], way[2], came) /\ WalkLevel(t, deeper, way) = came[Len(way[2])]
<1> DEFINE came[i \in 0..Len(way[2])] ==
             IF i = 0 THEN Sc!At(way[1]) ELSE Sc!WalkOn(t, deeper, came[i - 1], way[2][i])
<1>1. way[1] \in Spots /\ way[2] \in Spots
  BY DEF Ways, Sc!Ways, Spots
<1>2. WalkLevel(t, deeper, way) = came[Len(way[2])]
  BY DEF WalkLevel
<1>3. \E c : c = [i \in 0..Len(way[2]) |-> IF i = 0 THEN Sc!At(way[1]) ELSE Sc!WalkOn(t, deeper, c[i - 1], way[2][i])]
  <2>1. PICK cur, names : cur = way[1] /\ names = way[2]
    OBVIOUS
  <2>r. PICK reads : reads = FALSE
    OBVIOUS
  <2>t. Typed(reads, t)
    BY <2>r
  <2>2. \E c : c = [i \in 0..Len(names) |-> IF i = 0 THEN Sc!At(cur) ELSE On(reads, t, deeper, c[i - 1], names[i])]
    BY <1>1, <2>1, <2>t, CameThere
  <2> QED BY <2>1, <2>r, <2>2 DEF On
<1>4. came = [i \in 0..Len(way[2]) |-> IF i = 0 THEN Sc!At(way[1]) ELSE Sc!WalkOn(t, deeper, came[i - 1], way[2][i])]
  BY <1>3
<1> HIDE DEF came
<1>5. Came(FALSE, t, deeper, way[1], way[2], came)
  <2>1. PICK cur, names : cur = way[1] /\ names = way[2]
    OBVIOUS
  <2>2. came = [i \in 0..Len(names) |-> IF i = 0 THEN Sc!At(cur) ELSE On(FALSE, t, deeper, came[i - 1], names[i])]
    BY <1>4, <2>1 DEF On
  <2>3. Came(FALSE, t, deeper, cur, names, came)
    BY <1>1, <2>1, <2>2, CameIs
  <2> QED BY <2>1, <2>3
<1> QED BY <1>2, <1>5

LEMMA CanonLevelIs ==
  ASSUME NEW t, Typed(TRUE, t), NEW deeper \in [Ways -> Found], NEW way \in Ways
  PROVE  \E came : Came(TRUE, t, deeper, way[1], way[2], came) /\ CanonLevel(t, deeper, way) = came[Len(way[2])]
<1> DEFINE came[i \in 0..Len(way[2])] ==
             IF i = 0 THEN Sc!At(way[1]) ELSE Sc!CanonOn(t, deeper, came[i - 1], way[2][i])
<1>1. way[1] \in Spots /\ way[2] \in Spots
  BY DEF Ways, Sc!Ways, Spots
<1>2. CanonLevel(t, deeper, way) = came[Len(way[2])]
  BY DEF CanonLevel
<1>3. \E c : c = [i \in 0..Len(way[2]) |-> IF i = 0 THEN Sc!At(way[1]) ELSE Sc!CanonOn(t, deeper, c[i - 1], way[2][i])]
  <2>1. PICK cur, names : cur = way[1] /\ names = way[2]
    OBVIOUS
  <2>r. PICK reads : reads = TRUE
    OBVIOUS
  <2>t. Typed(reads, t)
    BY <2>r
  <2>2. \E c : c = [i \in 0..Len(names) |-> IF i = 0 THEN Sc!At(cur) ELSE On(reads, t, deeper, c[i - 1], names[i])]
    BY <1>1, <2>1, <2>t, CameThere
  <2> QED BY <2>1, <2>r, <2>2 DEF On
<1>4. came = [i \in 0..Len(way[2]) |-> IF i = 0 THEN Sc!At(way[1]) ELSE Sc!CanonOn(t, deeper, came[i - 1], way[2][i])]
  BY <1>3
<1> HIDE DEF came
<1>5. Came(TRUE, t, deeper, way[1], way[2], came)
  <2>1. PICK cur, names : cur = way[1] /\ names = way[2]
    OBVIOUS
  <2>2. came = [i \in 0..Len(names) |-> IF i = 0 THEN Sc!At(cur) ELSE On(TRUE, t, deeper, came[i - 1], names[i])]
    BY <1>4, <2>1 DEF On
  <2>3. Came(TRUE, t, deeper, cur, names, came)
    BY <1>1, <2>1, <2>2, CameIs
  <2> QED BY <2>1, <2>3
<1> QED BY <1>2, <1>5

LEMMA LevelIs ==
  ASSUME NEW reads \in BOOLEAN, NEW t, Typed(reads, t), NEW deeper \in [Ways -> Found], NEW way \in Ways
  PROVE  \E came : Came(reads, t, deeper, way[1], way[2], came) /\ Level(reads, t, deeper, way) = came[Len(way[2])]
<1>1. CASE reads = TRUE
  <2>1. Typed(TRUE, t)
    BY <1>1
  <2>2. \E came : Came(TRUE, t, deeper, way[1], way[2], came) /\ CanonLevel(t, deeper, way) = came[Len(way[2])]
    BY <2>1, CanonLevelIs
  <2> QED BY <1>1, <2>2 DEF Level
<1>2. CASE reads = FALSE
  <2>1. Typed(FALSE, t)
    BY <1>2
  <2>2. \E came : Came(FALSE, t, deeper, way[1], way[2], came) /\ WalkLevel(t, deeper, way) = came[Len(way[2])]
    BY <2>1, WalkLevelIs
  <2> QED BY <1>2, <2>2 DEF Level
<1> QED BY <1>1, <1>2

\* It is a place or a failure.
LEMMA LevelFound ==
  ASSUME NEW reads \in BOOLEAN, NEW t, Typed(reads, t), NEW deeper \in [Ways -> Found], NEW way \in Ways
  PROVE  Level(reads, t, deeper, way) \in Found
<1>1. PICK came : Came(reads, t, deeper, way[1], way[2], came) /\ Level(reads, t, deeper, way) = came[Len(way[2])]
  BY LevelIs
<1>2. Len(way[2]) \in Nat
  BY DEF Ways, Sc!Ways
<1> QED BY <1>1, <1>2 DEF Came

\* Every path, with none, one and more links within links left.
Levels(reads, t, k) ==
  k = [links \in 0..(MaxHops + 1) |-> IF links = 0 THEN [way \in Ways |-> Sc!Failed("ELOOP")]
                                     ELSE [way \in Ways |-> Level(reads, t, k[links - 1], way)]]

\* The levels are there, and each is made from the one before.
LEMMA LevelsThere ==
  ASSUME NEW reads \in BOOLEAN, NEW t, Typed(reads, t)
  PROVE  \E k : Levels(reads, t, k)
<1>0. MaxHops + 1 \in Nat
  BY ScopeAssumption
<1>2. PICK X, a : X = [Ways -> Found] /\ a = [way \in Ways |-> Sc!Failed("ELOOP")] /\ a \in X
  <2>1. Sc!Failed("ELOOP") \in Found
    BY FoundIs
  <2>2. [way \in Ways |-> Sc!Failed("ELOOP")] \in [Ways -> Found]
    BY <2>1
  <2> QED BY <2>2
<1>3. PICK g : g = [x \in (1..(MaxHops + 1)) \X X |-> [way \in Ways |-> Level(reads, t, x[2], way)]]
  OBVIOUS
<1>4. \A n \in 1..(MaxHops + 1), d \in X : g[<<n, d>>] = [way \in Ways |-> Level(reads, t, d, way)]
  <2> TAKE n \in 1..(MaxHops + 1), d \in X
  <2>1. PICK y : y = <<n, d>>
    OBVIOUS
  <2>2. y \in (1..(MaxHops + 1)) \X X /\ y[2] = d
    BY <2>1
  <2>3. g[y] = [way \in Ways |-> Level(reads, t, y[2], way)]
    BY <1>3, <2>2, Zenon
  <2> QED BY <2>1, <2>2, <2>3
<1>5. \A d \in X : [way \in Ways |-> Level(reads, t, d, way)] \in X
  <2> TAKE d \in X
  <2>1. \A way \in Ways : Level(reads, t, d, way) \in Found
    BY <1>2, LevelFound
  <2> QED BY <1>2, <2>1
<1>6. \A n \in 1..(MaxHops + 1), d \in X : g[<<n, d>>] \in X
  BY <1>4, <1>5
<1>7. PICK k \in [0..(MaxHops + 1) -> X] : k[0] = a /\ \A n \in 1..(MaxHops + 1) : k[n] = g[<<n, k[n - 1]>>]
  <2>1. PICK m : m = MaxHops + 1
    OBVIOUS
  <2>2. Grows(m, X, a, g)
    BY <1>0, <1>2, <1>6, <2>1 DEF Grows
  <2>3. PICK k : Grown(m, X, a, g, k)
    BY ONLY <2>2, Recursion
  <2> QED BY <2>1, <2>3 DEF Grown
<1>8. k[0] = a /\ \A n \in 1..(MaxHops + 1) : k[n] = [way \in Ways |-> Level(reads, t, k[n - 1], way)]
  <2>1. \A n \in 1..(MaxHops + 1) : n - 1 \in 0..(MaxHops + 1)
    BY <1>0
  <2> QED BY <1>4, <1>7, <2>1, Zenon
<1>9. k = [links \in 0..(MaxHops + 1) |-> IF links = 0 THEN [way \in Ways |-> Sc!Failed("ELOOP")]
                                         ELSE [way \in Ways |-> Level(reads, t, k[links - 1], way)]]
  <2>1. \A n \in 0..(MaxHops + 1) : n = 0 \/ n \in 1..(MaxHops + 1)
    BY <1>0
  <2>2. \A n \in 0..(MaxHops + 1) : k[n] = IF n = 0 THEN [way \in Ways |-> Sc!Failed("ELOOP")]
                                         ELSE [way \in Ways |-> Level(reads, t, k[n - 1], way)]
    BY <1>2, <1>8, <2>1, Zenon
  <2>3. k = [n \in 0..(MaxHops + 1) |-> k[n]]
    BY <1>7
  <2> QED BY <2>2, <2>3, Zenon
<1> QED BY <1>9 DEF Levels

\* What is known of them.
Leveled(reads, t, k) ==
  /\ k \in [0..(MaxHops + 1) -> [Ways -> Found]]
  /\ k[0] = [way \in Ways |-> Sc!Failed("ELOOP")]
  /\ \A n \in 1..(MaxHops + 1) : k[n] = [way \in Ways |-> Level(reads, t, k[n - 1], way)]

LEMMA LevelsAre ==
  ASSUME NEW reads \in BOOLEAN, NEW t, Typed(reads, t), NEW k, Levels(reads, t, k)
  PROVE  Leveled(reads, t, k)
<1>0. MaxHops + 1 \in Nat
  BY ScopeAssumption
<1>1. PICK X, a : X = [Ways -> Found] /\ a = [way \in Ways |-> Sc!Failed("ELOOP")] /\ a \in X
  <2>1. Sc!Failed("ELOOP") \in Found
    BY FoundIs
  <2>2. [way \in Ways |-> Sc!Failed("ELOOP")] \in [Ways -> Found]
    BY <2>1
  <2> QED BY <2>2
<1>2. k[0] = a /\ \A n \in 1..(MaxHops + 1) : k[n] = [way \in Ways |-> Level(reads, t, k[n - 1], way)]
  <2>1. \A n \in 0..(MaxHops + 1) : k[n] = IF n = 0 THEN [way \in Ways |-> Sc!Failed("ELOOP")]
                                         ELSE [way \in Ways |-> Level(reads, t, k[n - 1], way)]
    BY Zenon DEF Levels
  <2>2. 0 \in 0..(MaxHops + 1) /\ \A n \in 1..(MaxHops + 1) : n # 0 /\ n \in 0..(MaxHops + 1)
    BY <1>0
  <2> QED BY <1>1, <2>1, <2>2, Zenon
<1>3. k \in [0..(MaxHops + 1) -> X]
  <2> DEFINE T == {n \in 0..(MaxHops + 1) : k[n] \in X}
  <2>1. 0 \in T
    BY <1>0, <1>1, <1>2
  <2>2. \A n \in 1..(MaxHops + 1) : n - 1 \in T => n \in T
    <3> TAKE n \in 1..(MaxHops + 1)
    <3> HAVE n - 1 \in T
    <3>1. k[n - 1] \in X /\ n \in 0..(MaxHops + 1)
      BY <1>0
    <3>2. \A way \in Ways : Level(reads, t, k[n - 1], way) \in Found
      BY <1>1, <3>1, LevelFound
    <3>3. k[n] = [way \in Ways |-> Level(reads, t, k[n - 1], way)]
      BY <1>2
    <3>4. [way \in Ways |-> Level(reads, t, k[n - 1], way)] \in [Ways -> Found]
      BY <3>2
    <3> QED BY <1>1, <3>1, <3>3, <3>4
  <2> HIDE DEF T
  <2>3. \A n \in 0..(MaxHops + 1) : n \in T
    BY ONLY <1>0, <2>1, <2>2, UpTo
  <2>4. \A n \in 0..(MaxHops + 1) : k[n] \in X
    BY <2>3 DEF T
  <2>5. k = [n \in 0..(MaxHops + 1) |-> k[n]]
    BY Zenon DEF Levels
  <2> QED BY <2>4, <2>5
<1> QED BY <1>1, <1>2, <1>3, Zenon DEF Leveled

(* The walks of the system.                                                    *)
LEMMA WalkLeveled ==
  ASSUME NEW t, Linked(t)
  PROVE  Leveled(FALSE, t, Sc!Walks(t))
<1> DEFINE k[links \in 0..(MaxHops + 1)] ==
             IF links = 0 THEN [way \in Ways |-> Sc!Failed("ELOOP")]
             ELSE [way \in Ways |-> WalkLevel(t, k[links - 1], way)]
<1>1. Typed(FALSE, t)
  BY WalkOnIs DEF On, Typed
<1>2. Sc!Walks(t) = k
  BY DEF Sc!Walks, WalkLevel, Ways
<1>3. PICK l : l = [links \in 0..(MaxHops + 1) |-> IF links = 0 THEN [way \in Ways |-> Sc!Failed("ELOOP")]
                                                 ELSE [way \in Ways |-> WalkLevel(t, l[links - 1], way)]]
  <2>1. PICK l : Levels(FALSE, t, l)
    BY <1>1, LevelsThere
  <2>2. \A d : [way \in Ways |-> Level(FALSE, t, d, way)] = [way \in Ways |-> WalkLevel(t, d, way)]
    BY DEF Level
  <2>3. \A n \in 0..(MaxHops + 1) : l[n] = IF n = 0 THEN [way \in Ways |-> Sc!Failed("ELOOP")]
                                         ELSE [way \in Ways |-> WalkLevel(t, l[n - 1], way)]
    BY <2>1, <2>2, Zenon DEF Levels
  <2>4. l = [n \in 0..(MaxHops + 1) |-> l[n]]
    BY <2>1, Zenon DEF Levels
  <2>5. l = [links \in 0..(MaxHops + 1) |-> IF links = 0 THEN [way \in Ways |-> Sc!Failed("ELOOP")]
                                           ELSE [way \in Ways |-> WalkLevel(t, l[links - 1], way)]]
    BY <2>3, <2>4, Zenon
  <2> QED BY <2>5
<1>4. k = [links \in 0..(MaxHops + 1) |-> IF links = 0 THEN [way \in Ways |-> Sc!Failed("ELOOP")]
                                         ELSE [way \in Ways |-> WalkLevel(t, k[links - 1], way)]]
  BY <1>3
<1> HIDE DEF k
<1>5. Levels(FALSE, t, k)
  <2>1. \A d : [way \in Ways |-> Level(FALSE, t, d, way)] = [way \in Ways |-> WalkLevel(t, d, way)]
    BY DEF Level
  <2>2. \A n \in 0..(MaxHops + 1) : k[n] = IF n = 0 THEN [way \in Ways |-> Sc!Failed("ELOOP")]
                                         ELSE [way \in Ways |-> Level(FALSE, t, k[n - 1], way)]
    BY <1>4, <2>1, Zenon
  <2>3. k = [n \in 0..(MaxHops + 1) |-> k[n]]
    BY <1>4, Zenon
  <2> QED BY <2>2, <2>3, Zenon DEF Levels
<1> QED BY <1>1, <1>2, <1>5, LevelsAre

(* And the readings of the program, which asks the system on the way.          *)
LEMMA RealIs == \A t, place : Linked(t) /\ place \in Spots => Sc!Real(t, place) \in Found
<1> SUFFICES ASSUME NEW t, NEW place \in Spots, Linked(t) PROVE Sc!Real(t, place) \in Found
  OBVIOUS
<1>1. PICK way : way = << <<>>, place>>
  OBVIOUS
<1>2. way \in Ways
  <2>1. <<>> \in Spots
    BY DEF Spots
  <2> QED BY <1>1, <2>1 DEF Ways, Sc!Ways, Spots
<1>3. MaxHops + 1 \in 0..(MaxHops + 1)
  BY ScopeAssumption
<1>4. Sc!Walks(t)[MaxHops + 1][way] \in Found
  <2>1. Sc!Walks(t) \in [0..(MaxHops + 1) -> [Ways -> Found]]
    BY WalkLeveled DEF Leveled
  <2> QED BY <1>2, <1>3, <2>1
<1> QED BY <1>1, <1>4, FoundIs DEF Sc!Real, Sc!Walk

\* The program's reading too comes to a place or fails, and has its levels.
LEMMA CanonOnIs ==
  ASSUME NEW t, Linked(t), NEW deeper \in [Ways -> Found], NEW c \in Found, NEW name \in STRING
  PROVE  Sc!CanonOn(t, deeper, c, name) \in Found
<1>1. PICK next : next = Append(c.place, name)
  OBVIOUS
<1>2. c.place \in Spots /\ next \in Spots
  <2>1. c.place \in Seq(STRING)
    BY DEF Found, Spots
  <2> QED BY <1>1, <2>1 DEF Spots
<1>3. Sc!Kind(t, next) = "link" => deeper[<<Sc!From(t[next].to, c.place), t[next].to.names>>] \in Found
  <2> SUFFICES ASSUME Sc!Kind(t, next) = "link" PROVE deeper[<<Sc!From(t[next].to, c.place), t[next].to.names>>] \in Found
    OBVIOUS
  <2>1. t[next].to \in Sc!LinkPath
    BY DEF Sc!Kind, Linked
  <2>2. Sc!From(t[next].to, c.place) \in Spots /\ t[next].to.names \in Spots
    BY <1>2, <2>1, FromIs
  <2>3. <<Sc!From(t[next].to, c.place), t[next].to.names>> \in Ways
    BY <2>2 DEF Ways, Sc!Ways, Spots
  <2> QED BY <2>3
<1>4. Sc!At(Sc!Parent(c.place)) \in Found /\ Sc!At(next) \in Found /\ Sc!Real(t, next) \in Found
  BY <1>2, ParentIs, FoundIs, RealIs
<1> QED BY <1>1, <1>3, <1>4, Zenon DEF Sc!CanonOn

LEMMA CanonLeveled ==
  ASSUME NEW t, Linked(t)
  PROVE  Leveled(TRUE, t, Sc!Canons(t))
<1> DEFINE k[links \in 0..(MaxHops + 1)] ==
             IF links = 0 THEN [way \in Ways |-> Sc!Failed("ELOOP")]
             ELSE [way \in Ways |-> CanonLevel(t, k[links - 1], way)]
<1>1. Typed(TRUE, t)
  BY CanonOnIs DEF On, Typed
<1>2. Sc!Canons(t) = k
  BY DEF Sc!Canons, CanonLevel, Ways
<1>3. PICK l : l = [links \in 0..(MaxHops + 1) |-> IF links = 0 THEN [way \in Ways |-> Sc!Failed("ELOOP")]
                                                 ELSE [way \in Ways |-> CanonLevel(t, l[links - 1], way)]]
  <2>1. PICK l : Levels(TRUE, t, l)
    BY <1>1, LevelsThere
  <2>2. \A d : [way \in Ways |-> Level(TRUE, t, d, way)] = [way \in Ways |-> CanonLevel(t, d, way)]
    BY DEF Level
  <2>3. \A n \in 0..(MaxHops + 1) : l[n] = IF n = 0 THEN [way \in Ways |-> Sc!Failed("ELOOP")]
                                         ELSE [way \in Ways |-> CanonLevel(t, l[n - 1], way)]
    BY <2>1, <2>2, Zenon DEF Levels
  <2>4. l = [n \in 0..(MaxHops + 1) |-> l[n]]
    BY <2>1, Zenon DEF Levels
  <2>5. l = [links \in 0..(MaxHops + 1) |-> IF links = 0 THEN [way \in Ways |-> Sc!Failed("ELOOP")]
                                           ELSE [way \in Ways |-> CanonLevel(t, l[links - 1], way)]]
    BY <2>3, <2>4, Zenon
  <2> QED BY <2>5
<1>4. k = [links \in 0..(MaxHops + 1) |-> IF links = 0 THEN [way \in Ways |-> Sc!Failed("ELOOP")]
                                         ELSE [way \in Ways |-> CanonLevel(t, k[links - 1], way)]]
  BY <1>3
<1> HIDE DEF k
<1>5. Levels(TRUE, t, k)
  <2>1. \A d : [way \in Ways |-> Level(TRUE, t, d, way)] = [way \in Ways |-> CanonLevel(t, d, way)]
    BY DEF Level
  <2>2. \A n \in 0..(MaxHops + 1) : k[n] = IF n = 0 THEN [way \in Ways |-> Sc!Failed("ELOOP")]
                                         ELSE [way \in Ways |-> Level(TRUE, t, k[n - 1], way)]
    BY <1>4, <2>1, Zenon
  <2>3. k = [n \in 0..(MaxHops + 1) |-> k[n]]
    BY <1>4, Zenon
  <2> QED BY <2>2, <2>3, Zenon DEF Levels
<1> QED BY <1>1, <1>2, <1>5, LevelsAre

-----------------------------------------------------------------------------
(* Two ways along the same names, and what is known of one.                    *)

(* A path that leads somewhere failed nowhere on the way.                       *)
LEMMA OkAllAlong ==
  ASSUME NEW reads \in BOOLEAN, NEW t, NEW deeper, NEW cur, NEW names \in Spots, NEW came,
         Came(reads, t, deeper, cur, names, came), came[Len(names)].ok
  PROVE  \A i \in 0..Len(names) : came[i].ok
<1> DEFINE T == {j \in 0..Len(names) : came[j].ok => \A i \in 0..j : came[i].ok}
<1>1. Len(names) \in Nat
  BY DEF Spots
<1>2. 0 \in T
  BY <1>1
<1>3. \A j \in 1..Len(names) : j - 1 \in T => j \in T
  <2> TAKE j \in 1..Len(names)
  <2> HAVE j - 1 \in T
  <2>1. SUFFICES ASSUME came[j].ok PROVE \A i \in 0..j : came[i].ok
    BY <1>1
  <2>2. came[j] = On(reads, t, deeper, came[j - 1], names[j])
    BY DEF Came
  <2>3. came[j - 1].ok
    BY <2>1, <2>2 DEF On, Sc!WalkOn, Sc!CanonOn
  <2>4. \A i \in 0..j : i = j \/ i \in 0..(j - 1)
    BY <1>1
  <2> QED BY <2>1, <2>3, <2>4
<1> HIDE DEF T
<1>4. \A j \in 0..Len(names) : j \in T
  BY <1>1, <1>2, <1>3, UpTo
<1>5. Len(names) \in T
  BY <1>1, <1>4
<1> QED BY <1>5 DEF T

(* Two that go on alike, as long as the first leads on, come to the same place. *)
LEMMA SameWay ==
  ASSUME NEW reads \in BOOLEAN, NEW t, NEW deeper, NEW also \in BOOLEAN, NEW u, NEW further,
         NEW cur, NEW names \in Spots, NEW came, NEW went,
         Came(reads, t, deeper, cur, names, came), Came(also, u, further, cur, names, went),
         \A w \in Found, name \in STRING :
           w.ok /\ On(reads, t, deeper, w, name).ok => On(also, u, further, w, name) = On(reads, t, deeper, w, name),
         came[Len(names)].ok
  PROVE  went[Len(names)] = came[Len(names)]
<1> DEFINE T == {i \in 0..Len(names) : went[i] = came[i]}
<1>1. Len(names) \in Nat /\ \A i \in 1..Len(names) : names[i] \in STRING
  BY DEF Spots
<1>2. \A i \in 0..Len(names) : came[i].ok
  BY OkAllAlong
<1>3. 0 \in T
  BY <1>1 DEF Came
<1>4. \A i \in 1..Len(names) : i - 1 \in T => i \in T
  <2> TAKE i \in 1..Len(names)
  <2> HAVE i - 1 \in T
  <2>1. i \in 0..Len(names) /\ i - 1 \in 0..Len(names) /\ went[i - 1] = came[i - 1] /\ names[i] \in STRING
    BY <1>1
  <2>2. came[i] = On(reads, t, deeper, came[i - 1], names[i]) /\ went[i] = On(also, u, further, went[i - 1], names[i])
    BY DEF Came
  <2>3. came[i - 1] \in Found /\ came[i - 1].ok /\ came[i].ok
    BY <1>2, <2>1 DEF Came
  <2>4. PICK w, name : w = came[i - 1] /\ name = names[i]
    OBVIOUS
  <2>5. w \in Found /\ name \in STRING /\ w.ok /\ On(reads, t, deeper, w, name).ok
    BY <2>1, <2>2, <2>3, <2>4
  <2>6. On(also, u, further, w, name) = On(reads, t, deeper, w, name)
    BY <2>5
  <2> QED BY <2>1, <2>2, <2>4, <2>6
<1> HIDE DEF T
<1>5. \A i \in 0..Len(names) : i \in T
  BY <1>1, <1>3, <1>4, UpTo
<1>6. Len(names) \in T
  BY <1>1, <1>5
<1> QED BY <1>6 DEF T

(* Where each name leads to the place that is written next, the path does.      *)
Straight(reads, t, deeper, names, pl, m) ==
  \A i \in 1..m : On(reads, t, deeper, Sc!At(pl[i - 1]), names[i]) = Sc!At(pl[i])

\* A path whose names each lead straight to a place comes to that place.
LEMMA Along ==
  ASSUME NEW reads \in BOOLEAN, NEW t, NEW deeper, NEW cur, NEW names \in Spots, NEW came,
         Came(reads, t, deeper, cur, names, came),
         NEW pl, pl[0] = cur, NEW m \in 0..Len(names), Straight(reads, t, deeper, names, pl, m)
  PROVE  came[m] = Sc!At(pl[m])
<1> DEFINE T == {i \in 0..m : came[i] = Sc!At(pl[i])}
<1>1. Len(names) \in Nat /\ m \in Nat
  BY DEF Spots
<1>2. 0 \in T
  BY <1>1 DEF Came
<1>3. \A i \in 1..m : i - 1 \in T => i \in T
  <2> TAKE i \in 1..m
  <2> HAVE i - 1 \in T
  <2>1. i \in 1..Len(names) /\ i \in 0..m
    BY <1>1
  <2>2. came[i] = On(reads, t, deeper, came[i - 1], names[i])
    BY <2>1 DEF Came
  <2> QED BY <2>1, <2>2 DEF Straight
<1> HIDE DEF T
<1>4. \A i \in 0..m : i \in T
  BY <1>1, <1>2, <1>3, UpTo
<1>5. m \in T
  BY <1>1, <1>4
<1> QED BY <1>5 DEF T

(* Where each name that leads on leads to the place that is written, so does a path that leads on. *)
Plainly(reads, t, deeper, names, pl) ==
  \A i \in 1..Len(names), w \in Found :
    w.ok /\ w.place = pl[i - 1] /\ On(reads, t, deeper, w, names[i]).ok => On(reads, t, deeper, w, names[i]).place = pl[i]

\* A path that, as long as it does not fail, goes as written comes where it is written to lead.
LEMMA AsWritten ==
  ASSUME NEW reads \in BOOLEAN, NEW t, NEW deeper, NEW cur, NEW names \in Spots, NEW came,
         Came(reads, t, deeper, cur, names, came), came[Len(names)].ok,
         NEW pl, pl[0] = cur, cur \in Spots, Plainly(reads, t, deeper, names, pl)
  PROVE  came[Len(names)].place = pl[Len(names)]
<1> DEFINE T == {i \in 0..Len(names) : came[i].place = pl[i]}
<1>1. Len(names) \in Nat
  BY DEF Spots
<1>2. \A i \in 0..Len(names) : came[i].ok
  BY OkAllAlong
<1>3. 0 \in T
  BY <1>1, FoundIs DEF Came
<1>4. \A i \in 1..Len(names) : i - 1 \in T => i \in T
  <2> TAKE i \in 1..Len(names)
  <2> HAVE i - 1 \in T
  <2>1. i \in 0..Len(names) /\ i - 1 \in 0..Len(names) /\ came[i - 1].place = pl[i - 1]
    BY <1>1
  <2>2. came[i] = On(reads, t, deeper, came[i - 1], names[i])
    BY DEF Came
  <2>3. came[i - 1] \in Found /\ came[i - 1].ok /\ came[i].ok
    BY <1>2, <2>1 DEF Came
  <2>4. PICK w : w = came[i - 1]
    OBVIOUS
  <2>5. w \in Found /\ w.ok /\ w.place = pl[i - 1] /\ On(reads, t, deeper, w, names[i]).ok
    BY <2>1, <2>2, <2>3, <2>4
  <2>6. On(reads, t, deeper, w, names[i]).place = pl[i]
    BY <2>5 DEF Plainly
  <2> QED BY <2>1, <2>2, <2>4, <2>6
<1> HIDE DEF T
<1>5. \A i \in 0..Len(names) : i \in T
  BY <1>1, <1>3, <1>4, UpTo
<1>6. Len(names) \in T
  BY <1>1, <1>5
<1> QED BY <1>6 DEF T

(* A path is gone along name by name, with one link less left for the links on it. *)
LEMMA OneLevel ==
  ASSUME NEW reads \in BOOLEAN, NEW t, Typed(reads, t), NEW k, Leveled(reads, t, k), NEW n \in 1..(MaxHops + 1),
         NEW cur \in Spots, NEW names \in Spots
  PROVE  /\ <<cur, names>> \in Ways /\ k[n - 1] \in [Ways -> Found]
         /\ \E came : Came(reads, t, k[n - 1], cur, names, came) /\ k[n][<<cur, names>>] = came[Len(names)]
<1>0. n - 1 \in 0..(MaxHops + 1)
  BY ScopeAssumption
<1>1. k[n - 1] \in [Ways -> Found]
  BY <1>0 DEF Leveled
<1>2. PICK way : way = <<cur, names>>
  OBVIOUS
<1>3. way \in Ways /\ way[1] = cur /\ way[2] = names
  BY <1>2 DEF Ways, Sc!Ways, Spots
<1>4. k[n] = [v \in Ways |-> Level(reads, t, k[n - 1], v)]
  BY DEF Leveled
<1>5. k[n][way] = Level(reads, t, k[n - 1], way)
  BY <1>3, <1>4, Zenon
<1>6. PICK deeper : deeper = k[n - 1]
  OBVIOUS
<1>7. PICK came : Came(reads, t, deeper, way[1], way[2], came) /\ Level(reads, t, deeper, way) = came[Len(way[2])]
  BY <1>1, <1>3, <1>6, LevelIs
<1>8. Came(reads, t, k[n - 1], cur, names, came) /\ k[n][<<cur, names>>] = came[Len(names)]
  BY <1>2, <1>3, <1>5, <1>6, <1>7
<1> QED BY <1>1, <1>2, <1>3, <1>8

\* Both readings keep to places and failures.
LEMMA TypedIs == \A t, reads : Linked(t) /\ reads \in BOOLEAN => Typed(reads, t)
<1> SUFFICES ASSUME NEW t, NEW reads \in BOOLEAN, Linked(t) PROVE Typed(reads, t)
  OBVIOUS
<1>1. CASE reads = TRUE
  BY <1>1, CanonOnIs DEF Typed, On
<1>2. CASE reads = FALSE
  BY <1>2, WalkOnIs DEF Typed, On
<1> QED BY <1>1, <1>2

-----------------------------------------------------------------------------
(* Trees with the same directories and links.                                  *)
Alike(t, u) ==
  \A p : /\ (Sc!Kind(t, p) = "dir") <=> (Sc!Kind(u, p) = "dir")
         /\ (Sc!Kind(t, p) = "link") <=> (Sc!Kind(u, p) = "link")
         /\ Sc!Kind(t, p) = "link" => t[p] = u[p]

\* A link's path is one to walk.
LEMMA LinkWay ==
  ASSUME NEW t, Linked(t), NEW w \in Found, NEW next, Sc!Kind(t, next) = "link"
  PROVE  <<Sc!From(t[next].to, w.place), t[next].to.names>> \in Ways
<1>1. t[next].to \in Sc!LinkPath /\ w.place \in Spots
  BY DEF Sc!Kind, Linked, Found
<1>2. Sc!From(t[next].to, w.place) \in Spots /\ t[next].to.names \in Spots
  BY <1>1, FromIs
<1> QED BY <1>2 DEF Ways, Sc!Ways, Spots

(* What leads on leads to the same place when more links within links are let pass, and in any tree with *)
(* the same directories and links.                                             *)
LEMMA WalkMore ==
  ASSUME NEW t, Linked(t), NEW u, Linked(u), Alike(t, u)
  PROVE  \A n \in 0..(MaxHops + 1) : \A m \in n..(MaxHops + 1), way \in Ways :
            Sc!Walks(t)[n][way].ok => Sc!Walks(u)[m][way] = Sc!Walks(t)[n][way]
<1> DEFINE T == {n \in 0..(MaxHops + 1) : \A m \in n..(MaxHops + 1), way \in Ways :
                   Sc!Walks(t)[n][way].ok => Sc!Walks(u)[m][way] = Sc!Walks(t)[n][way]}
<1>0. MaxHops + 1 \in Nat
  BY ScopeAssumption
<1>1. PICK k, l : k = Sc!Walks(t) /\ l = Sc!Walks(u) /\ Leveled(FALSE, t, k) /\ Leveled(FALSE, u, l)
  BY WalkLeveled
<1>2. 0 \in T
  <2>1. \A way \in Ways : ~k[0][way].ok
    BY <1>1, FoundIs DEF Leveled
  <2> QED BY <1>0, <1>1, <2>1
<1>3. ASSUME NEW n \in 1..(MaxHops + 1), n - 1 \in T PROVE n \in T
  <2> SUFFICES ASSUME NEW m \in n..(MaxHops + 1), NEW way \in Ways, k[n][way].ok PROVE l[m][way] = k[n][way]
    BY <1>0, <1>1, <1>3
  <2>1. PICK cur, names : way = <<cur, names>> /\ cur \in Spots /\ names \in Spots
    BY DEF Ways, Sc!Ways, Spots
  <2>2. m \in 1..(MaxHops + 1) /\ m - 1 \in (n - 1)..(MaxHops + 1)
    BY <1>0
  <2>r. PICK reads : reads = FALSE
    OBVIOUS
  <2>3. Typed(reads, t) /\ Typed(reads, u) /\ reads \in BOOLEAN /\ Leveled(reads, t, k) /\ Leveled(reads, u, l)
    BY <1>1, <2>r, TypedIs
  <2>4. PICK came : Came(reads, t, k[n - 1], cur, names, came) /\ k[n][<<cur, names>>] = came[Len(names)]
    BY <2>1, <2>3, OneLevel
  <2>5. PICK went : Came(reads, u, l[m - 1], cur, names, went) /\ l[m][<<cur, names>>] = went[Len(names)]
    BY <2>1, <2>2, <2>3, OneLevel
  <2>6. came[Len(names)].ok
    BY <2>1, <2>4
  <2>7. PICK deeper, further : deeper = k[n - 1] /\ further = l[m - 1]
    OBVIOUS
  <2>8. \A v \in Ways : deeper[v].ok => further[v] = deeper[v]
    BY <1>1, <1>3, <2>2, <2>7
  <2>9. ASSUME NEW w \in Found, NEW name \in STRING, w.ok, On(reads, t, deeper, w, name).ok
        PROVE  On(reads, u, further, w, name) = On(reads, t, deeper, w, name)
    <3>1. PICK next : next = Append(w.place, name)
      OBVIOUS
    <3>2. Sc!WalkOn(t, deeper, w, name).ok
      BY <2>9, <2>r DEF On
    <3>3. Sc!Kind(t, w.place) = "dir" /\ Sc!Kind(u, w.place) = "dir"
      <4>1. Sc!Kind(t, w.place) = "dir"
        BY <2>9, <3>2, FoundIs DEF Sc!WalkOn
      <4> QED BY <4>1 DEF Alike
    <3>4. CASE name = ".." \/ Sc!Kind(t, next) # "link"
      <4>1. name = ".." \/ Sc!Kind(u, next) # "link"
        BY <3>4 DEF Alike
      <4> QED BY <2>9, <2>r, <3>1, <3>3, <3>4, <4>1 DEF On, Sc!WalkOn
    <3>5. CASE name # ".." /\ Sc!Kind(t, next) = "link"
      <4>1. PICK v : v = <<Sc!From(t[next].to, w.place), t[next].to.names>>
        OBVIOUS
      <4>2. v \in Ways
        BY <3>5, <4>1, LinkWay
      <4>3. Sc!Kind(u, next) = "link" /\ u[next].to = t[next].to
        BY <3>5 DEF Alike
      <4>4. On(reads, t, deeper, w, name) = deeper[v]
        BY <2>9, <2>r, <3>1, <3>3, <3>5, <4>1 DEF On, Sc!WalkOn
      <4>5. On(reads, u, further, w, name) = further[v]
        BY <2>9, <2>r, <3>1, <3>3, <3>5, <4>1, <4>3 DEF On, Sc!WalkOn
      <4> QED BY <2>8, <2>9, <4>2, <4>4, <4>5
    <3> QED BY <3>4, <3>5
  <2>10. Came(reads, t, deeper, cur, names, came) /\ Came(reads, u, further, cur, names, went)
    BY <2>4, <2>5, <2>7
  <2>11. went[Len(names)] = came[Len(names)]
    BY <2>1, <2>3, <2>6, <2>9, <2>10, SameWay
  <2> QED BY <2>1, <2>4, <2>5, <2>11
<1> HIDE DEF T
<1>4. \A n \in 0..(MaxHops + 1) : n \in T
  BY <1>0, <1>2, <1>3, UpTo
<1> QED BY <1>4 DEF T

-----------------------------------------------------------------------------
(* Places, and the directories above them.                                     *)

\* The beginnings of a sequence.
LEMMA UpToHere ==
  ASSUME NEW S, NEW p \in Seq(S)
  PROVE  /\ SubSeq(p, 1, 0) = <<>> /\ SubSeq(p, 1, Len(p)) = p
         /\ \A i \in 0..Len(p) : /\ SubSeq(p, 1, i) \in Seq(S) /\ Len(SubSeq(p, 1, i)) = i
                                 /\ \A j \in 1..i : SubSeq(p, 1, i)[j] = p[j]
         /\ \A i \in 1..Len(p) : /\ Append(SubSeq(p, 1, i - 1), p[i]) = SubSeq(p, 1, i)
                                 /\ SubSeq(SubSeq(p, 1, i), 1, i - 1) = SubSeq(p, 1, i - 1)
<1>0. Len(p) \in Nat /\ \A j \in 1..Len(p) : p[j] \in S
  OBVIOUS
<1>1. SubSeq(p, 1, 0) = <<>> /\ SubSeq(p, 1, Len(p)) = p
  BY <1>0
<1>2. ASSUME NEW i \in 0..Len(p)
      PROVE  SubSeq(p, 1, i) \in Seq(S) /\ Len(SubSeq(p, 1, i)) = i /\ \A j \in 1..i : SubSeq(p, 1, i)[j] = p[j]
  <2>1. \A j \in 1..i : p[j] \in S
    BY <1>0
  <2> QED BY <1>0, <2>1
<1>3. ASSUME NEW i \in 1..Len(p)
      PROVE  /\ Append(SubSeq(p, 1, i - 1), p[i]) = SubSeq(p, 1, i)
             /\ SubSeq(SubSeq(p, 1, i), 1, i - 1) = SubSeq(p, 1, i - 1)
  <2>1. i \in 0..Len(p) /\ i - 1 \in 0..Len(p) /\ p[i] \in S
    BY <1>0
  <2>2. PICK a, b : a = SubSeq(p, 1, i - 1) /\ b = SubSeq(p, 1, i)
    OBVIOUS
  <2>3. /\ a \in Seq(S) /\ Len(a) = i - 1 /\ \A j \in 1..(i - 1) : a[j] = p[j]
        /\ b \in Seq(S) /\ Len(b) = i /\ \A j \in 1..i : b[j] = p[j]
    BY <1>2, <2>1, <2>2
  <2>4. PICK c : c = Append(a, p[i])
    OBVIOUS
  <2>5. c \in Seq(S) /\ Len(c) = i /\ \A j \in 1..i : c[j] = p[j]
    BY <1>0, <2>1, <2>3, <2>4
  <2>6. c = b
    BY ONLY <2>3, <2>5, SeqEqual
  <2>7. PICK d : d = SubSeq(b, 1, i - 1)
    OBVIOUS
  <2>8. d \in Seq(S) /\ Len(d) = i - 1 /\ \A j \in 1..(i - 1) : d[j] = p[j]
    BY <1>0, <2>3, <2>7
  <2>9. d = a
    BY ONLY <2>3, <2>8, SeqEqual
  <2> QED BY <2>2, <2>4, <2>6, <2>7, <2>9
<1> QED BY <1>1, <1>2, <1>3

LEMMA UpToUpTo ==
  ASSUME NEW S, NEW p \in Seq(S), NEW i \in 0..Len(p), NEW j \in 0..i
  PROVE  SubSeq(SubSeq(p, 1, i), 1, j) = SubSeq(p, 1, j)
<1>1. PICK a, b, c : a = SubSeq(p, 1, i) /\ b = SubSeq(a, 1, j) /\ c = SubSeq(p, 1, j)
  OBVIOUS
<1>2. Len(p) \in Nat /\ j \in 0..Len(p)
  OBVIOUS
<1>3. a \in Seq(S) /\ Len(a) = i /\ \A h \in 1..i : a[h] = p[h]
  BY <1>1, UpToHere
<1>4. j \in 0..Len(a)
  BY <1>3
<1>5. b \in Seq(S) /\ Len(b) = j /\ \A h \in 1..j : b[h] = a[h]
  BY <1>1, <1>3, <1>4, UpToHere
<1>6. c \in Seq(S) /\ Len(c) = j /\ \A h \in 1..j : c[h] = p[h]
  BY <1>1, <1>2, UpToHere
<1>7. \A h \in 1..j : b[h] = c[h]
  BY <1>2, <1>3, <1>5, <1>6
<1>8. b = c
  BY ONLY <1>5, <1>6, <1>7, SeqEqual
<1> QED BY <1>1, <1>8

\* What a sound tree says of the places in it.
LEMMA SoundIs ==
  ASSUME NEW t, Sc!IsTree(t)
  PROVE  /\ Linked(t)
         /\ \A p \in DOMAIN t : p \in Seq(Sc!Names) /\ p \in Spots /\ Sc!Kind(t, p) \in {"dir", "file", "link"}
         /\ \A p \in DOMAIN t : p # <<>> => Sc!Kind(t, SubSeq(p, 1, Len(p) - 1)) = "dir"
         /\ \A p : Sc!Kind(t, p) # "missing" <=> p \in DOMAIN t
         /\ Sc!Kind(t, <<>>) = "dir" /\ Sc!Kind(t, WorkDir) = "dir"
<1>1. \A p : p \in Seq(Sc!Names) => p \in Seq(STRING)
  BY DEF Sc!Names
<1> QED BY <1>1 DEF Sc!IsTree, Linked, Spots, Sc!Kind, Sc!Front

(* What is somewhere has directories all the way down to it.                   *)
LEMMA Above ==
  ASSUME NEW t, Sc!IsTree(t), NEW p \in DOMAIN t
  PROVE  \A i \in 0..(Len(p) - 1) : Sc!Kind(t, SubSeq(p, 1, i)) = "dir"
<1> DEFINE T == {j \in 0..Len(p) : /\ SubSeq(p, 1, Len(p) - j) \in DOMAIN t
                                   /\ j > 0 => Sc!Kind(t, SubSeq(p, 1, Len(p) - j)) = "dir"}
<1>0. p \in Seq(STRING) /\ Len(p) \in Nat
  BY SoundIs DEF Spots
<1>1. 0 \in T
  <2>1. SubSeq(p, 1, Len(p)) = p /\ Len(p) - 0 = Len(p)
    BY <1>0, UpToHere
  <2>2. SubSeq(p, 1, Len(p) - 0) \in DOMAIN t
    BY <2>1
  <2> QED BY <1>0, <2>2
<1>2. ASSUME NEW j \in 1..Len(p), j - 1 \in T PROVE j \in T
  <2>1. PICK i : i = Len(p) - j + 1
    OBVIOUS
  <2>2. i \in 1..Len(p) /\ i \in 0..Len(p) /\ Len(p) - (j - 1) = i /\ Len(p) - j = i - 1 /\ j \in 0..Len(p)
    BY <1>0, <2>1
  <2>3. PICK q : q = SubSeq(p, 1, i)
    OBVIOUS
  <2>4. q \in DOMAIN t /\ Len(q) = i /\ SubSeq(q, 1, i - 1) = SubSeq(p, 1, i - 1)
    <3>1. q \in DOMAIN t
      BY <1>2, <2>2, <2>3
    <3> QED BY <1>0, <2>2, <2>3, <3>1, UpToHere
  <2>5. q # <<>>
    BY <2>2, <2>4
  <2>6. Sc!Kind(t, SubSeq(q, 1, Len(q) - 1)) = "dir"
    BY <2>4, <2>5, SoundIs
  <2>7. Sc!Kind(t, SubSeq(p, 1, i - 1)) = "dir" /\ SubSeq(p, 1, i - 1) \in DOMAIN t
    BY <2>4, <2>6 DEF Sc!Kind
  <2> QED BY <2>2, <2>7
<1> HIDE DEF T
<1>3. \A j \in 0..Len(p) : j \in T
  BY <1>0, <1>1, <1>2, UpTo
<1> SUFFICES ASSUME NEW i \in 0..(Len(p) - 1) PROVE Sc!Kind(t, SubSeq(p, 1, i)) = "dir"
  OBVIOUS
<1>4. Len(p) - i \in 0..Len(p) /\ Len(p) - i > 0 /\ Len(p) - (Len(p) - i) = i
  BY <1>0
<1>5. Len(p) - i \in T
  BY <1>3, <1>4
<1>6. PICK j : j = Len(p) - i
  OBVIOUS
<1>7. j \in T /\ j > 0 /\ Len(p) - j = i
  BY <1>4, <1>5, <1>6
<1> QED BY <1>7 DEF T

(* From the root the system goes straight to a directory, and on from there.   *)
LEMMA FromRoot ==
  ASSUME NEW t, Sc!IsTree(t), NEW p \in DOMAIN t, t[p].kind = "dir", NEW name \in STRING, NEW n \in 1..(MaxHops + 1)
  PROVE  Sc!Walks(t)[n][<< <<>>, Append(p, name)>>] = Sc!WalkOn(t, Sc!Walks(t)[n - 1], Sc!At(p), name)
<1>0. p \in Seq(STRING) /\ p \in Seq(Sc!Names) /\ Len(p) \in Nat /\ <<>> \in Spots /\ Linked(t)
  BY SoundIs DEF Spots
<1>1. PICK names : names = Append(p, name)
  OBVIOUS
<1>2. /\ names \in Spots /\ Len(names) = Len(p) + 1 /\ names[Len(p) + 1] = name
      /\ \A i \in 1..Len(p) : names[i] = p[i]
  BY <1>0, <1>1 DEF Spots
<1>3. PICK k, reads : k = Sc!Walks(t) /\ reads = FALSE
  OBVIOUS
<1>4. reads \in BOOLEAN /\ Typed(reads, t) /\ Leveled(reads, t, k)
  BY <1>0, <1>3, TypedIs, WalkLeveled
<1>5. PICK came : Came(reads, t, k[n - 1], <<>>, names, came) /\ k[n][<< <<>>, names>>] = came[Len(names)]
  BY <1>0, <1>2, <1>4, OneLevel
<1>6. PICK pl : pl = [i \in 0..Len(p) |-> SubSeq(p, 1, i)]
  OBVIOUS
<1>7. \A i \in 0..Len(p) : pl[i] = SubSeq(p, 1, i) /\ Sc!Kind(t, pl[i]) = "dir"
  <2> TAKE i \in 0..Len(p)
  <2>1. pl[i] = SubSeq(p, 1, i)
    BY <1>6
  <2>2. CASE i = Len(p)
    <3>1. SubSeq(p, 1, i) = p
      BY <1>0, <2>2, UpToHere
    <3>2. Sc!Kind(t, p) = "dir"
      BY DEF Sc!Kind
    <3> QED BY <2>1, <3>1, <3>2
  <2>3. CASE i # Len(p)
    <3>1. i \in 0..(Len(p) - 1)
      BY <1>0, <2>3
    <3> QED BY <2>1, <3>1, Above
  <2> QED BY <2>2, <2>3
<1>8. pl[0] = <<>> /\ pl[Len(p)] = p
  BY <1>0, <1>7, UpToHere
<1>9. \A i \in 1..Len(p) : On(reads, t, k[n - 1], Sc!At(pl[i - 1]), names[i]) = Sc!At(pl[i])
  <2> TAKE i \in 1..Len(p)
  <2>1. i \in 0..Len(p) /\ i - 1 \in 0..Len(p)
    BY <1>0
  <2>2. names[i] = p[i] /\ p[i] # ".."
    BY <1>0, <1>2 DEF Sc!Names
  <2>3. Append(pl[i - 1], names[i]) = pl[i]
    <3>1. Append(SubSeq(p, 1, i - 1), p[i]) = SubSeq(p, 1, i)
      BY <1>0, UpToHere
    <3>2. pl[i - 1] = SubSeq(p, 1, i - 1) /\ pl[i] = SubSeq(p, 1, i)
      BY <1>7, <2>1
    <3> QED BY <2>2, <3>1, <3>2
  <2>4. Sc!Kind(t, pl[i - 1]) = "dir" /\ Sc!Kind(t, pl[i]) = "dir"
    BY <1>7, <2>1
  <2>5. Sc!At(pl[i - 1]).ok /\ Sc!At(pl[i - 1]).place = pl[i - 1]
    BY DEF Sc!At
  <2> QED BY <1>3, <2>2, <2>3, <2>4, <2>5 DEF On, Sc!WalkOn
<1>10. Len(p) \in 0..Len(names)
  BY <1>0, <1>2
<1>11. came[Len(p)] = Sc!At(p)
  <2>1. PICK deeper, m, cur : deeper = k[n - 1] /\ m = Len(p) /\ cur = <<>>
    OBVIOUS
  <2>2. /\ Came(reads, t, deeper, cur, names, came) /\ pl[0] = cur /\ m \in 0..Len(names) /\ pl[m] = p
        /\ Straight(reads, t, deeper, names, pl, m)
    BY <1>5, <1>8, <1>9, <1>10, <2>1 DEF Straight
  <2>3. came[m] = Sc!At(pl[m])
    BY ONLY <1>2, <1>4, <2>2, Along
  <2> QED BY <2>1, <2>2, <2>3
<1>12. Len(names) \in 1..Len(names) /\ Len(names) - 1 = Len(p)
  BY <1>0, <1>2
<1>13. came[Len(names)] = On(reads, t, k[n - 1], came[Len(names) - 1], names[Len(names)])
  BY <1>5, <1>12 DEF Came
<1>14. came[Len(names)] = Sc!WalkOn(t, k[n - 1], Sc!At(p), name)
  BY <1>2, <1>3, <1>11, <1>12, <1>13 DEF On
<1> QED BY <1>1, <1>3, <1>5, <1>14

(* The system's own answer for a name in a directory, as the program asks for it. *)
LEMMA RealOn ==
  ASSUME NEW t, Sc!IsTree(t), NEW w \in Found, w.ok, Sc!Kind(t, w.place) = "dir", NEW name \in STRING,
         NEW r, r = Sc!WalkOn(t, Sc!Walks(t)[MaxHops], w, name)
  PROVE  Sc!Real(t, Append(w.place, name)) = IF r.ok /\ Sc!Kind(t, r.place) = "missing" THEN Sc!Failed("ENOENT") ELSE r
<1>1. MaxHops + 1 \in 1..(MaxHops + 1) /\ \A n : n = MaxHops + 1 => n - 1 = MaxHops
  BY ScopeAssumption
<1>2. w.place \in DOMAIN t /\ t[w.place].kind = "dir"
  BY DEF Sc!Kind
<1>3. PICK n, p, next : n = MaxHops + 1 /\ p = w.place /\ next = Append(p, name)
  OBVIOUS
<1>4. Sc!Walks(t)[n][<< <<>>, next>>] = Sc!WalkOn(t, Sc!Walks(t)[n - 1], Sc!At(p), name)
  BY <1>1, <1>2, <1>3, FromRoot
<1>5. Sc!WalkOn(t, Sc!Walks(t)[n - 1], Sc!At(p), name) = r
  <2>1. PICK d, e, a : d = Sc!Walks(t)[n - 1] /\ e = Sc!Walks(t)[MaxHops] /\ a = Sc!At(p)
    OBVIOUS
  <2>2. n - 1 = MaxHops
    BY <1>1, <1>3
  <2>3. a.ok /\ a.place = w.place
    BY <1>3, <2>1 DEF Sc!At
  <2>4. Sc!WalkOn(t, d, a, name) = Sc!WalkOn(t, e, w, name)
    BY <2>1, <2>2, <2>3 DEF Sc!WalkOn
  <2> QED BY <2>1, <2>4
<1>6. Sc!Walk(t, <<>>, next) = r
  BY <1>3, <1>4, <1>5 DEF Sc!Walk
<1> QED BY <1>3, <1>6 DEF Sc!Real

(* Where the system comes to a place, the program reads the same place.        *)
LEMMA ReadsThePlace ==
  ASSUME NEW t, Sc!IsTree(t)
  PROVE  \A n \in 0..(MaxHops + 1) : \A m \in n..(MaxHops + 1), way \in Ways :
            Sc!Walks(t)[n][way].ok => Sc!Canons(t)[m][way] = Sc!Walks(t)[n][way]
<1> DEFINE T == {n \in 0..(MaxHops + 1) : \A m \in n..(MaxHops + 1), way \in Ways :
                   Sc!Walks(t)[n][way].ok => Sc!Canons(t)[m][way] = Sc!Walks(t)[n][way]}
<1>0. MaxHops + 1 \in Nat /\ MaxHops \in Nat /\ Linked(t)
  BY ScopeAssumption, SoundIs
<1>1. PICK k, l : k = Sc!Walks(t) /\ l = Sc!Canons(t) /\ Leveled(FALSE, t, k) /\ Leveled(TRUE, t, l)
  BY <1>0, WalkLeveled, CanonLeveled
<1>2. 0 \in T
  <2>1. \A way \in Ways : ~k[0][way].ok
    BY <1>1, FoundIs DEF Leveled
  <2> QED BY <1>0, <1>1, <2>1
<1>3. ASSUME NEW n \in 1..(MaxHops + 1), n - 1 \in T PROVE n \in T
  <2> SUFFICES ASSUME NEW m \in n..(MaxHops + 1), NEW way \in Ways, k[n][way].ok PROVE l[m][way] = k[n][way]
    BY <1>0, <1>1, <1>3
  <2>1. PICK cur, names : way = <<cur, names>> /\ cur \in Spots /\ names \in Spots
    BY DEF Ways, Sc!Ways, Spots
  <2>2. m \in 1..(MaxHops + 1) /\ m - 1 \in (n - 1)..(MaxHops + 1) /\ MaxHops \in (n - 1)..(MaxHops + 1) /\ n - 1 \in 0..(MaxHops + 1)
    BY <1>0
  <2>r. PICK reads, also : reads = FALSE /\ also = TRUE
    OBVIOUS
  <2>3. /\ reads \in BOOLEAN /\ Typed(reads, t) /\ Leveled(reads, t, k)
        /\ also \in BOOLEAN /\ Typed(also, t) /\ Leveled(also, t, l)
    BY <1>0, <1>1, <2>r, TypedIs
  <2>4. PICK came : Came(reads, t, k[n - 1], cur, names, came) /\ k[n][<<cur, names>>] = came[Len(names)]
    BY <2>1, <2>3, OneLevel
  <2>5. PICK went : Came(also, t, l[m - 1], cur, names, went) /\ l[m][<<cur, names>>] = went[Len(names)]
    BY <2>1, <2>2, <2>3, OneLevel
  <2>6. came[Len(names)].ok
    BY <2>1, <2>4
  <2>7. PICK deeper, further : deeper = k[n - 1] /\ further = l[m - 1]
    OBVIOUS
  <2>8. \A v \in Ways : deeper[v].ok => further[v] = deeper[v] /\ k[MaxHops][v] = deeper[v]
    <3>1. \A v \in Ways : deeper[v].ok => further[v] = deeper[v]
      BY <1>1, <1>3, <2>2, <2>7
    <3>2. Alike(t, t)
      BY DEF Alike
    <3>3. \A v \in Ways : deeper[v].ok => k[MaxHops][v] = deeper[v]
      BY <1>0, <1>1, <2>2, <2>7, <3>2, WalkMore
    <3> QED BY <3>1, <3>3
  <2>9. ASSUME NEW w \in Found, NEW name \in STRING, w.ok, On(reads, t, deeper, w, name).ok
        PROVE  On(also, t, further, w, name) = On(reads, t, deeper, w, name)
    <3>1. PICK next, real : next = Append(w.place, name) /\ real = Sc!Real(t, next)
      OBVIOUS
    <3>2. Sc!WalkOn(t, deeper, w, name).ok
      BY <2>9, <2>r DEF On
    <3>3. Sc!Kind(t, w.place) = "dir"
      BY <2>9, <3>2, FoundIs DEF Sc!WalkOn
    <3>4. PICK r : r = Sc!WalkOn(t, k[MaxHops], w, name)
      OBVIOUS
    <3>5. real = IF r.ok /\ Sc!Kind(t, r.place) = "missing" THEN Sc!Failed("ENOENT") ELSE r
      BY <1>1, <2>9, <3>1, <3>3, <3>4, RealOn
    <3>6. ~Sc!Failed("ENOENT").ok /\ Sc!Failed("ENOENT").error = "ENOENT"
      BY FoundIs
    <3>7. CASE name = ".."
      <4>1. On(reads, t, deeper, w, name) = Sc!At(Sc!Parent(w.place))
        BY <2>9, <2>r, <3>3, <3>7 DEF On, Sc!WalkOn
      <4>2. On(also, t, further, w, name) = Sc!At(Sc!Parent(w.place))
        BY <2>9, <2>r, <3>7 DEF On, Sc!CanonOn
      <4> QED BY <4>1, <4>2
    <3>8. CASE name # ".." /\ Sc!Kind(t, next) # "link"
      <4>1. r = Sc!At(next) /\ On(reads, t, deeper, w, name) = Sc!At(next)
        BY <2>9, <2>r, <3>1, <3>3, <3>4, <3>8 DEF On, Sc!WalkOn
      <4>2. Sc!At(next).ok /\ Sc!At(next).place = next
        BY DEF Sc!At
      <4>3. real.ok \/ real.error # "ENOENT" => real = Sc!At(next)
        BY <3>5, <3>6, <4>1
      <4>4. On(also, t, further, w, name) = IF real.ok \/ real.error # "ENOENT" THEN real ELSE Sc!At(next)
        BY <2>9, <2>r, <3>1, <3>8 DEF On, Sc!CanonOn
      <4> QED BY <4>1, <4>3, <4>4
    <3>9. CASE name # ".." /\ Sc!Kind(t, next) = "link"
      <4>1. PICK v : v = <<Sc!From(t[next].to, w.place), t[next].to.names>>
        OBVIOUS
      <4>2. v \in Ways
        BY <1>0, <3>9, <4>1, LinkWay
      <4>3. r = k[MaxHops][v] /\ On(reads, t, deeper, w, name) = deeper[v]
        BY <2>9, <2>r, <3>1, <3>3, <3>4, <3>9, <4>1 DEF On, Sc!WalkOn
      <4>4. On(also, t, further, w, name) = IF real.ok \/ real.error # "ENOENT" THEN real ELSE further[v]
        BY <2>9, <2>r, <3>1, <3>9, <4>1 DEF On, Sc!CanonOn
      <4>5. further[v] = deeper[v] /\ r = deeper[v]
        BY <2>8, <2>9, <4>2, <4>3
      <4>6. real.ok \/ real.error # "ENOENT" => real = deeper[v]
        BY <3>5, <3>6, <4>5
      <4> QED BY <4>3, <4>4, <4>5, <4>6
    <3> QED BY <3>7, <3>8, <3>9
  <2>10. Came(reads, t, deeper, cur, names, came) /\ Came(also, t, further, cur, names, went)
    BY <2>4, <2>5, <2>7
  <2>11. went[Len(names)] = came[Len(names)]
    BY <2>1, <2>3, <2>6, <2>9, <2>10, SameWay
  <2> QED BY <2>1, <2>4, <2>5, <2>11
<1> HIDE DEF T
<1>4. \A n \in 0..(MaxHops + 1) : n \in T
  BY <1>0, <1>2, <1>3, UpTo
<1> QED BY <1>4 DEF T

-----------------------------------------------------------------------------
(* What is below a directory.                                                  *)

\* Below, by the names.
LEMMA BelowIs ==
  ASSUME NEW S, NEW a \in Seq(S), NEW b \in Seq(S)
  PROVE  Sc!Below(a, b) <=> Len(a) <= Len(b) /\ \A i \in 1..Len(a) : a[i] = b[i]
<1>0. Len(a) \in Nat /\ Len(b) \in Nat
  OBVIOUS
<1>1. CASE ~(Len(a) <= Len(b))
  BY <1>1 DEF Sc!Below, Sc!IsPrefix
<1>2. CASE Len(a) <= Len(b)
  <2>1. PICK c : c = SubSeq(b, 1, Len(a))
    OBVIOUS
  <2>2. Len(a) \in 0..Len(b)
    BY <1>0, <1>2
  <2>3. c \in Seq(S) /\ Len(c) = Len(a) /\ \A i \in 1..Len(a) : c[i] = b[i]
    BY <2>1, <2>2, UpToHere
  <2>4. SubSeq(a, 1, Len(a)) = a
    BY UpToHere
  <2>5. Sc!Below(a, b) <=> a = c
    BY <1>2, <2>1, <2>4 DEF Sc!Below, Sc!IsPrefix
  <2>6. (\A i \in 1..Len(a) : a[i] = b[i]) => a = c
    <3>1. SUFFICES ASSUME \A i \in 1..Len(a) : a[i] = b[i] PROVE a = c
      OBVIOUS
    <3>2. \A i \in 1..Len(a) : a[i] = c[i]
      BY <2>3, <3>1
    <3> QED BY ONLY <2>3, <3>2, a \in Seq(S), SeqEqual
  <2> QED BY <1>2, <2>3, <2>5, <2>6
<1> QED BY <1>1, <1>2

LEMMA BelowMore ==
  ASSUME NEW S, NEW a \in Seq(S), NEW b \in Seq(S), NEW c \in Seq(S), Sc!Below(a, b), Sc!Below(b, c)
  PROVE  Sc!Below(a, c)
<1>1. Len(a) <= Len(b) /\ \A i \in 1..Len(a) : a[i] = b[i]
  BY BelowIs
<1>2. Len(b) <= Len(c) /\ \A i \in 1..Len(b) : b[i] = c[i]
  BY BelowIs
<1>3. Len(a) <= Len(c) /\ \A i \in 1..Len(a) : a[i] = c[i]
  BY <1>1, <1>2
<1> QED BY <1>3, BelowIs

(* Names written on from a place.                                                 *)
LEMMA Over ==
  ASSUME NEW S, NEW a \in Seq(S), NEW b \in Seq(S)
  PROVE  /\ a \o b \in Seq(S) /\ Len(a \o b) = Len(a) + Len(b) /\ Sc!Below(a, a \o b)
         /\ a \o SubSeq(b, 1, 0) = a /\ a \o SubSeq(b, 1, Len(b)) = a \o b
         /\ \A i \in 0..Len(b) : /\ a \o SubSeq(b, 1, i) = SubSeq(a \o b, 1, Len(a) + i)
                                 /\ a \o SubSeq(b, 1, i) \in Seq(S)
<1>0. Len(a) \in Nat /\ Len(b) \in Nat
  OBVIOUS
<1>1. PICK ab : ab = a \o b
  OBVIOUS
<1>2. ab \in Seq(S) /\ Len(ab) = Len(a) + Len(b) /\ \A i \in 1..(Len(a) + Len(b)) : ab[i] = IF i <= Len(a) THEN a[i] ELSE b[i - Len(a)]
  BY <1>1, ConcatProperties
<1>3. Sc!Below(a, ab)
  <2>1. Len(a) <= Len(ab) /\ \A i \in 1..Len(a) : a[i] = ab[i]
    BY <1>0, <1>2
  <2> QED BY <1>2, <2>1, BelowIs
<1>4. ASSUME NEW i \in 0..Len(b)
      PROVE  a \o SubSeq(b, 1, i) = SubSeq(ab, 1, Len(a) + i) /\ a \o SubSeq(b, 1, i) \in Seq(S)
  <2>1. PICK c, d, e : c = SubSeq(b, 1, i) /\ d = a \o c /\ e = SubSeq(ab, 1, Len(a) + i)
    OBVIOUS
  <2>2. c \in Seq(S) /\ Len(c) = i /\ \A j \in 1..i : c[j] = b[j]
    BY <2>1, UpToHere
  <2>3. d \in Seq(S) /\ Len(d) = Len(a) + i /\ \A j \in 1..(Len(a) + i) : d[j] = IF j <= Len(a) THEN a[j] ELSE c[j - Len(a)]
    BY <2>1, <2>2, ConcatProperties
  <2>4. Len(a) + i \in 0..Len(ab)
    BY <1>0, <1>2
  <2>5. e \in Seq(S) /\ Len(e) = Len(a) + i /\ \A j \in 1..(Len(a) + i) : e[j] = ab[j]
    BY <1>2, <2>1, <2>4, UpToHere
  <2>6. \A j \in 1..(Len(a) + i) : d[j] = e[j]
    <3> TAKE j \in 1..(Len(a) + i)
    <3>1. j \in 1..(Len(a) + Len(b)) /\ (~(j <= Len(a)) => j - Len(a) \in 1..i)
      BY <1>0
    <3> QED BY <1>2, <2>2, <2>3, <2>5, <3>1
  <2>7. d = e
    BY ONLY <2>3, <2>5, <2>6, SeqEqual
  <2> QED BY <2>1, <2>3, <2>7
<1>5. a \o SubSeq(b, 1, 0) = a /\ a \o SubSeq(b, 1, Len(b)) = ab
  <2>1. SubSeq(b, 1, 0) = <<>> /\ SubSeq(b, 1, Len(b)) = b
    BY UpToHere
  <2> QED BY <1>1, <2>1, ConcatEmptySeq
<1> QED BY <1>1, <1>2, <1>3, <1>4, <1>5

\* One name further.
LEMMA OverNext ==
  ASSUME NEW S, NEW a \in Seq(S), NEW b \in Seq(S), NEW i \in 1..Len(b)
  PROVE  Append(a \o SubSeq(b, 1, i - 1), b[i]) = a \o SubSeq(b, 1, i)
<1>0. Len(a) \in Nat /\ Len(b) \in Nat
  OBVIOUS
<1>1. PICK ab : ab = a \o b
  OBVIOUS
<1>2. ab \in Seq(S) /\ Len(ab) = Len(a) + Len(b) /\ \A j \in 1..(Len(a) + Len(b)) : ab[j] = IF j <= Len(a) THEN a[j] ELSE b[j - Len(a)]
  BY <1>1, ConcatProperties
<1>3. \A j \in 0..Len(b) : a \o SubSeq(b, 1, j) = SubSeq(ab, 1, Len(a) + j)
  BY <1>1, Over
<1>4. i \in 0..Len(b) /\ i - 1 \in 0..Len(b)
  BY <1>0
<1>5. PICK j : j = Len(a) + i
  OBVIOUS
<1>6. j \in 1..(Len(a) + Len(b)) /\ ~(j <= Len(a)) /\ j - Len(a) = i /\ j - 1 = Len(a) + (i - 1)
  BY <1>0, <1>5
<1>7. ab[j] = b[i] /\ j \in 1..Len(ab)
  BY <1>2, <1>6
<1>8. Append(SubSeq(ab, 1, j - 1), ab[j]) = SubSeq(ab, 1, j)
  BY <1>2, <1>7, UpToHere
<1>9. a \o SubSeq(b, 1, i - 1) = SubSeq(ab, 1, j - 1) /\ a \o SubSeq(b, 1, i) = SubSeq(ab, 1, j)
  BY <1>3, <1>4, <1>5, <1>6
<1> QED BY <1>8, <1>9, <1>7

(* A place in the project, and its place there.                                *)
LEMMA RelIs ==
  ASSUME NEW S, WorkDir \in Seq(S), NEW p \in Seq(S), Sc!Below(WorkDir, p)
  PROVE  /\ Sc!Rel(p) \in Seq(S) /\ Len(Sc!Rel(p)) = Len(p) - Len(WorkDir) /\ WorkDir \o Sc!Rel(p) = p
         /\ \A i \in 1..(Len(p) - Len(WorkDir)) : Sc!Rel(p)[i] = p[Len(WorkDir) + i]
<1>0. Len(WorkDir) \in Nat /\ Len(p) \in Nat /\ \A i \in 1..Len(p) : p[i] \in S
  OBVIOUS
<1>1. Len(WorkDir) <= Len(p) /\ \A i \in 1..Len(WorkDir) : WorkDir[i] = p[i]
  BY BelowIs
<1>2. PICK r, n : r = Sc!Rel(p) /\ n = Len(WorkDir) + 1
  OBVIOUS
<1>3. r = SubSeq(p, n, Len(p)) /\ n \in Int /\ Len(p) \in Int /\ \A i \in n..Len(p) : p[i] \in S
  BY <1>0, <1>2 DEF Sc!Rel
<1>4. r \in Seq(S) /\ Len(r) = (IF n <= Len(p) THEN Len(p) - n + 1 ELSE 0) /\ \A i \in 1..(Len(p) - n + 1) : r[i] = p[n + i - 1]
  BY <1>3, SubSeqProperties
<1>5. Len(r) = Len(p) - Len(WorkDir) /\ \A i \in 1..(Len(p) - Len(WorkDir)) : r[i] = p[Len(WorkDir) + i]
  <2>1. Len(p) - n + 1 = Len(p) - Len(WorkDir) /\ \A i \in Nat : n + i - 1 = Len(WorkDir) + i
    BY <1>0, <1>2
  <2>2. Len(r) = Len(p) - Len(WorkDir)
    BY <1>0, <1>1, <1>2, <1>4
  <2>3. \A i \in 1..(Len(p) - Len(WorkDir)) : r[i] = p[Len(WorkDir) + i]
    <3> TAKE i \in 1..(Len(p) - Len(WorkDir))
    <3>1. i \in 1..(Len(p) - n + 1) /\ n + i - 1 = Len(WorkDir) + i
      BY <1>0, <2>1
    <3>2. r[i] = p[n + i - 1]
      BY <1>4, <3>1
    <3> QED BY <3>1, <3>2
  <2> QED BY <2>2, <2>3
<1>6. PICK c : c = WorkDir \o r
  OBVIOUS
<1>7. c \in Seq(S) /\ Len(c) = Len(WorkDir) + Len(r) /\ \A i \in 1..(Len(WorkDir) + Len(r)) : c[i] = IF i <= Len(WorkDir) THEN WorkDir[i] ELSE r[i - Len(WorkDir)]
  BY <1>4, <1>6, ConcatProperties
<1>8. Len(c) = Len(p) /\ \A i \in 1..Len(c) : c[i] = p[i]
  <2>1. Len(c) = Len(p)
    BY <1>0, <1>5, <1>7
  <2>2. ASSUME NEW i \in 1..Len(c) PROVE c[i] = p[i]
    <3>1. CASE i <= Len(WorkDir)
      BY <1>0, <1>1, <1>7, <3>1
    <3>2. CASE ~(i <= Len(WorkDir))
      <4>1. PICK j : j = i - Len(WorkDir)
        OBVIOUS
      <4>2. j \in 1..(Len(p) - Len(WorkDir)) /\ Len(WorkDir) + j = i
        BY <1>0, <2>1, <3>2, <4>1
      <4>3. c[i] = r[j]
        BY <1>7, <3>2, <4>1
      <4>4. r[j] = p[Len(WorkDir) + j]
        BY <1>5, <4>2
      <4> QED BY <4>2, <4>3, <4>4
    <3> QED BY <3>1, <3>2
  <2> QED BY <2>1, <2>2
<1>9. c = p
  BY ONLY <1>7, <1>8, p \in Seq(S), SeqEqual
<1> QED BY <1>2, <1>4, <1>5, <1>6, <1>9

-----------------------------------------------------------------------------
(* Paths that are places.                                                      *)

(* The directory a place of a tree is in.                                      *)
LEMMA InADir ==
  ASSUME NEW t, Sc!IsTree(t), NEW p \in Seq(STRING), Sc!Kind(t, SubSeq(p, 1, Len(p) - 1)) = "dir"
  PROVE  \A i \in 0..(Len(p) - 1) : Sc!Kind(t, SubSeq(p, 1, i)) = "dir"
<1> SUFFICES ASSUME NEW i \in 0..(Len(p) - 1) PROVE Sc!Kind(t, SubSeq(p, 1, i)) = "dir"
  OBVIOUS
<1>1. PICK d, m : d = SubSeq(p, 1, m) /\ m = Len(p) - 1
  OBVIOUS
<1>2. Len(p) \in Nat /\ m \in 0..Len(p) /\ i \in 0..m
  BY <1>1
<1>3. d \in Seq(STRING) /\ Len(d) = m /\ \A j \in 1..m : d[j] = p[j]
  BY <1>1, <1>2, UpToHere
<1>4. d \in DOMAIN t /\ Sc!Kind(t, d) = "dir"
  BY <1>1 DEF Sc!Kind
<1>5. CASE i = m
  BY <1>1, <1>4, <1>5
<1>6. CASE i # m
  <2>1. i \in 0..(Len(d) - 1) /\ i \in 0..Len(d) /\ i \in 0..Len(p)
    BY <1>2, <1>3, <1>6
  <2>2. Sc!Kind(t, SubSeq(d, 1, i)) = "dir"
    BY <1>4, <2>1, Above
  <2>3. PICK a, b : a = SubSeq(d, 1, i) /\ b = SubSeq(p, 1, i)
    OBVIOUS
  <2>4. a \in Seq(STRING) /\ Len(a) = i /\ (\A j \in 1..i : a[j] = d[j]) /\ b \in Seq(STRING) /\ Len(b) = i /\ \A j \in 1..i : b[j] = p[j]
    BY <1>3, <2>1, <2>3, UpToHere
  <2>5. \A j \in 1..i : a[j] = b[j]
    BY <1>2, <1>3, <2>4
  <2>6. a = b
    BY ONLY <2>4, <2>5, SeqEqual
  <2> QED BY <2>2, <2>3, <2>6
<1> QED BY <1>5, <1>6

(* A name in a directory that is no link is read as it is written.             *)
LEMMA ReadsTheName ==
  ASSUME NEW t, Sc!IsTree(t), NEW deeper, NEW p, Sc!Kind(t, p) = "dir", NEW name \in STRING, name # "..",
         Sc!Kind(t, Append(p, name)) # "link"
  PROVE  Sc!CanonOn(t, deeper, Sc!At(p), name) = Sc!At(Append(p, name))
<1>1. PICK w, next : w = Sc!At(p) /\ next = Append(p, name)
  OBVIOUS
<1>2. p \in Spots /\ w \in Found /\ w.ok /\ w.place = p
  <2>1. p \in DOMAIN t
    BY DEF Sc!Kind
  <2>2. p \in Spots
    BY <2>1, SoundIs
  <2> QED BY <1>1, <2>2, FoundIs
<1>3. PICK r : r = Sc!WalkOn(t, Sc!Walks(t)[MaxHops], w, name)
  OBVIOUS
<1>4. r = Sc!At(next) /\ r.ok /\ r.place = next
  <2>1. r = Sc!At(next)
    BY <1>1, <1>2, <1>3 DEF Sc!WalkOn
  <2> QED BY <2>1 DEF Sc!At
<1>5. Sc!Real(t, Append(w.place, name)) = IF r.ok /\ Sc!Kind(t, r.place) = "missing" THEN Sc!Failed("ENOENT") ELSE r
  BY <1>2, <1>3, RealOn
<1>6. PICK real : real = Sc!Real(t, next)
  OBVIOUS
<1>7. real = Sc!At(next) \/ real = Sc!Failed("ENOENT")
  BY <1>1, <1>2, <1>4, <1>5, <1>6
<1>8. real.ok \/ real.error # "ENOENT" => real = Sc!At(next)
  BY <1>7, FoundIs
<1>9. Sc!CanonOn(t, deeper, w, name) = IF real.ok \/ real.error # "ENOENT" THEN real ELSE Sc!At(next)
  BY <1>1, <1>2, <1>6 DEF Sc!CanonOn
<1> QED BY <1>1, <1>8, <1>9

(* The path of a file of the project leads to that place.                      *)
LEMMA ToAFile ==
  ASSUME NEW t, Sc!IsTree(t), NEW p \in Seq(Sc!Names), Sc!Below(WorkDir, p), p # WorkDir,
         Sc!Kind(t, SubSeq(p, 1, Len(p) - 1)) = "dir", Sc!Kind(t, p) # "link",
         NEW reads \in BOOLEAN, NEW k, Leveled(reads, t, k)
  PROVE  k[MaxHops + 1][<<WorkDir, Sc!Rel(p)>>] = Sc!At(p)
<1>0. WorkDir \in Seq(Sc!Names) /\ MaxHops \in Nat /\ Linked(t) /\ p \in Seq(STRING) /\ WorkDir \in Seq(STRING)
  <2>1. \A q : q \in Seq(Sc!Names) => q \in Seq(STRING)
    BY DEF Sc!Names
  <2> QED BY <2>1, ScopeAssumption, SoundIs
<1>1. PICK names, base : names = Sc!Rel(p) /\ base = WorkDir
  OBVIOUS
<1>2. names \in Seq(Sc!Names) /\ base \in Seq(Sc!Names) /\ base \o names = p /\ Len(names) \in Nat /\ Len(base) \in Nat
  BY <1>0, <1>1, RelIs
<1>3. names \in Spots /\ base \in Spots
  BY <1>2 DEF Sc!Names, Spots
<1>4. PICK n : n = MaxHops + 1
  OBVIOUS
<1>5. reads \in BOOLEAN /\ Typed(reads, t) /\ Leveled(reads, t, k) /\ n \in 1..(MaxHops + 1)
  <2>1. Typed(reads, t)
    BY ONLY <1>0, reads \in BOOLEAN, TypedIs
  <2> QED BY <1>0, <1>4, <2>1
<1>6. PICK came : Came(reads, t, k[n - 1], base, names, came) /\ k[n][<<base, names>>] = came[Len(names)]
  BY <1>3, <1>5, OneLevel
<1>7. PICK pl : pl = [i \in 0..Len(names) |-> base \o SubSeq(names, 1, i)]
  OBVIOUS
<1>8. /\ pl[0] = base /\ pl[Len(names)] = p
      /\ \A i \in 0..Len(names) : pl[i] = SubSeq(p, 1, Len(base) + i)
      /\ \A i \in 1..Len(names) : Append(pl[i - 1], names[i]) = pl[i]
  <2>1. \A i \in 0..Len(names) : pl[i] = base \o SubSeq(names, 1, i)
    BY <1>7
  <2>2. 0 \in 0..Len(names) /\ Len(names) \in 0..Len(names) /\ \A i \in 1..Len(names) : i \in 0..Len(names) /\ i - 1 \in 0..Len(names)
    BY <1>2
  <2>3. \A i \in 0..Len(names) : pl[i] = SubSeq(p, 1, Len(base) + i)
    <3>1. \A i \in 0..Len(names) : base \o SubSeq(names, 1, i) = SubSeq(base \o names, 1, Len(base) + i)
      BY ONLY <1>2, Over
    <3> QED BY <1>2, <2>1, <3>1
  <2>4. base \o SubSeq(names, 1, 0) = base /\ base \o SubSeq(names, 1, Len(names)) = p
    BY <1>2, Over
  <2>5. pl[0] = base /\ pl[Len(names)] = p
    BY <2>1, <2>2, <2>4
  <2>6. \A i \in 1..Len(names) : Append(pl[i - 1], names[i]) = pl[i]
    <3>1. \A i \in 1..Len(names) : Append(base \o SubSeq(names, 1, i - 1), names[i]) = base \o SubSeq(names, 1, i)
      BY ONLY <1>2, OverNext
    <3> QED BY <2>1, <2>2, <3>1
  <2> QED BY <2>3, <2>5, <2>6
<1>9. Len(p) = Len(base) + Len(names) /\ SubSeq(p, 1, Len(p)) = p
  BY <1>0, <1>2, Over, UpToHere
<1>10. \A i \in 1..Len(names) : /\ Sc!Kind(t, pl[i - 1]) = "dir" /\ Sc!Kind(t, pl[i]) # "link"
                                /\ names[i] \in STRING /\ names[i] # ".."
  <2> TAKE i \in 1..Len(names)
  <2>1. i \in 0..Len(names) /\ i - 1 \in 0..Len(names) /\ Len(base) + (i - 1) \in 0..(Len(p) - 1)
    BY <1>2, <1>9
  <2>2. Sc!Kind(t, pl[i - 1]) = "dir"
    <3>1. \A j \in 0..(Len(p) - 1) : Sc!Kind(t, SubSeq(p, 1, j)) = "dir"
      BY <1>0, InADir
    <3>2. pl[i - 1] = SubSeq(p, 1, Len(base) + (i - 1))
      BY <1>8, <2>1
    <3> QED BY ONLY <2>1, <3>1, <3>2
  <2>3. Sc!Kind(t, pl[i]) # "link"
    <3>1. CASE i = Len(names)
      BY <1>8, <3>1
    <3>2. CASE i # Len(names)
      <4>1. Len(base) + i \in 0..(Len(p) - 1)
        BY <1>2, <1>9, <3>2
      <4>2. PICK j : j = Len(base) + i
        OBVIOUS
      <4>3. Sc!Kind(t, SubSeq(p, 1, j)) = "dir"
        BY <1>0, <4>1, <4>2, InADir
      <4>4. Sc!Kind(t, pl[i]) = "dir"
        BY <1>8, <2>1, <4>2, <4>3
      <4> QED BY <4>4
    <3> QED BY <3>1, <3>2
  <2> QED BY <1>2, <2>2, <2>3 DEF Sc!Names
<1>11. PICK deeper, m : deeper = k[n - 1] /\ m = Len(names)
  OBVIOUS
<1>12. Straight(reads, t, deeper, names, pl, m)
  <2>1. ASSUME NEW i \in 1..m PROVE On(reads, t, deeper, Sc!At(pl[i - 1]), names[i]) = Sc!At(pl[i])
    <3>1. i \in 1..Len(names)
      BY <1>11
    <3>2. PICK q, name : q = pl[i - 1] /\ name = names[i]
      OBVIOUS
    <3>3. Sc!Kind(t, q) = "dir" /\ name \in STRING /\ name # ".." /\ Append(q, name) = pl[i] /\ Sc!Kind(t, Append(q, name)) # "link"
      BY <1>8, <1>10, <3>1, <3>2
    <3>4. Sc!CanonOn(t, deeper, Sc!At(q), name) = Sc!At(Append(q, name))
      <4>1. ASSUME NEW d \in STRING, d # "..", Sc!Kind(t, Append(q, d)) # "link"
            PROVE  Sc!CanonOn(t, deeper, Sc!At(q), d) = Sc!At(Append(q, d))
        BY <3>3, <4>1, ReadsTheName
      <4> QED BY <3>3, <4>1
    <3>5. Sc!WalkOn(t, deeper, Sc!At(q), name) = Sc!At(Append(q, name))
      <4>1. Sc!At(q).ok /\ Sc!At(q).place = q
        BY DEF Sc!At
      <4> QED BY <3>3, <4>1 DEF Sc!WalkOn
    <3> QED BY <3>2, <3>3, <3>4, <3>5 DEF On
  <2> QED BY <2>1 DEF Straight
<1>13. came[m] = Sc!At(pl[m])
  <2>1. Came(reads, t, deeper, base, names, came) /\ pl[0] = base /\ m \in 0..Len(names)
    BY <1>2, <1>6, <1>8, <1>11
  <2> QED BY ONLY <1>3, <1>5, <1>12, <2>1, Along
<1> QED BY <1>1, <1>4, <1>6, <1>8, <1>11, <1>13

(* The program reads it there, and the system comes there.                     *)
LEMMA ReadsAFile ==
  ASSUME NEW t, Sc!IsTree(t), NEW p \in Seq(Sc!Names), Sc!Below(WorkDir, p), p # WorkDir,
         Sc!Kind(t, SubSeq(p, 1, Len(p) - 1)) = "dir", Sc!Kind(t, p) # "link"
  PROVE  Sc!Canon(t, WorkDir, Sc!Rel(p)) = Sc!At(p) /\ Sc!Walk(t, WorkDir, Sc!Rel(p)) = Sc!At(p)
<1>1. PICK k, l, canon, walk : k = Sc!Canons(t) /\ l = Sc!Walks(t) /\ canon = TRUE /\ walk = FALSE
  OBVIOUS
<1>2. Linked(t)
  BY SoundIs
<1>3. canon \in BOOLEAN /\ Leveled(canon, t, k) /\ walk \in BOOLEAN /\ Leveled(walk, t, l)
  BY <1>1, <1>2, CanonLeveled, WalkLeveled
<1>4. k[MaxHops + 1][<<WorkDir, Sc!Rel(p)>>] = Sc!At(p)
  BY <1>3, ToAFile
<1>5. l[MaxHops + 1][<<WorkDir, Sc!Rel(p)>>] = Sc!At(p)
  BY <1>3, ToAFile
<1> QED BY <1>1, <1>4, <1>5 DEF Sc!Canon, Sc!Walk

\* A path no link is on.
Plain(t, p) == \A i \in 1..Len(p) : Sc!Kind(t, SubSeq(p, 1, i)) # "link"

\* There is no link on the way to a place on a way without links.
LEMMA PlainUpTo ==
  ASSUME NEW t, NEW p \in Seq(STRING), Plain(t, p), NEW i \in 0..Len(p)
  PROVE  Plain(t, SubSeq(p, 1, i))
<1>1. PICK q : q = SubSeq(p, 1, i)
  OBVIOUS
<1>2. Len(q) = i /\ Len(p) \in Nat
  BY <1>1, UpToHere
<1> SUFFICES ASSUME NEW j \in 1..Len(q) PROVE Sc!Kind(t, SubSeq(q, 1, j)) # "link"
  BY <1>1 DEF Plain
<1>3. j \in 0..i /\ j \in 1..Len(p)
  BY <1>2
<1>4. SubSeq(q, 1, j) = SubSeq(p, 1, j)
  BY <1>1, <1>3, UpToUpTo
<1> QED BY <1>3, <1>4 DEF Plain

\* Names are strings, and none is "..".
LEMMA NamesAre == \A p \in Seq(Sc!Names) : p \in Seq(STRING) /\ p \in Spots /\ \A i \in 1..Len(p) : p[i] \in STRING /\ p[i] # ".."
BY DEF Sc!Names, Spots

(* Such a path leads to the place that is written, if it leads anywhere.       *)
LEMMA RealAsWritten ==
  ASSUME NEW t, Sc!IsTree(t), NEW y \in Seq(Sc!Names), Plain(t, y), Sc!Real(t, y).ok
  PROVE  Sc!Real(t, y).place = y
<1>0. y \in Spots /\ y \in Seq(STRING) /\ Linked(t) /\ MaxHops \in Nat /\ Len(y) \in Nat /\ <<>> \in Spots
  BY NamesAre, SoundIs, ScopeAssumption DEF Spots
<1>r. PICK reads : reads = FALSE
  OBVIOUS
<1>1. PICK k, n, base : k = Sc!Walks(t) /\ n = MaxHops + 1 /\ base = <<>>
  OBVIOUS
<1>2. reads \in BOOLEAN /\ Typed(reads, t) /\ Leveled(reads, t, k) /\ n \in 1..(MaxHops + 1)
  <2>1. reads \in BOOLEAN /\ Leveled(reads, t, k)
    BY <1>0, <1>r, <1>1, WalkLeveled
  <2>2. Typed(reads, t)
    BY ONLY <1>0, <2>1, TypedIs
  <2> QED BY <1>0, <1>1, <2>1, <2>2
<1>p. base \in Spots /\ y \in Spots
  BY <1>0, <1>1
<1>3. PICK came : Came(reads, t, k[n - 1], base, y, came) /\ k[n][<<base, y>>] = came[Len(y)]
  BY ONLY <1>p, <1>2, OneLevel
<1>4. Sc!Real(t, y) = came[Len(y)] /\ came[Len(y)].ok
  <2>1. Sc!Walk(t, <<>>, y) = came[Len(y)]
    BY <1>1, <1>3 DEF Sc!Walk
  <2> QED BY <2>1, FoundIs DEF Sc!Real
<1>5. PICK pl, deeper : pl = [i \in 0..Len(y) |-> SubSeq(y, 1, i)] /\ deeper = k[n - 1]
  OBVIOUS
<1>6. \A i \in 0..Len(y) : pl[i] = SubSeq(y, 1, i)
  BY <1>5
<1>7. pl[0] = base /\ pl[Len(y)] = y
  BY <1>0, <1>1, <1>6, UpToHere
<1>8. Plainly(reads, t, deeper, y, pl)
  <2>1. ASSUME NEW i \in 1..Len(y), NEW w \in Found, w.ok, w.place = pl[i - 1], On(reads, t, deeper, w, y[i]).ok
        PROVE  On(reads, t, deeper, w, y[i]).place = pl[i]
    <3>1. i \in 0..Len(y) /\ i - 1 \in 0..Len(y)
      BY <1>0
    <3>2. y[i] # ".." /\ Append(w.place, y[i]) = pl[i] /\ Sc!Kind(t, pl[i]) # "link"
      <4>1. Append(SubSeq(y, 1, i - 1), y[i]) = SubSeq(y, 1, i)
        BY <1>0, UpToHere
      <4>2. pl[i] = SubSeq(y, 1, i) /\ w.place = SubSeq(y, 1, i - 1)
        BY <1>6, <2>1, <3>1
      <4>3. y[i] # ".."
        BY NamesAre
      <4> QED BY <4>1, <4>2, <4>3 DEF Plain
    <3>3. Sc!WalkOn(t, deeper, w, y[i]).ok
      BY <1>r, <2>1 DEF On
    <3>4. Sc!WalkOn(t, deeper, w, y[i]) = Sc!At(pl[i])
      BY <2>1, <3>2, <3>3, FoundIs DEF Sc!WalkOn
    <3>5. Sc!At(pl[i]).place = pl[i]
      BY DEF Sc!At
    <3> QED BY <1>r, <3>4, <3>5 DEF On
  <2> QED BY <2>1 DEF Plainly
<1>9. came[Len(y)].place = pl[Len(y)]
  <2>1. Came(reads, t, deeper, base, y, came) /\ pl[0] = base /\ base \in Spots
    BY <1>0, <1>1, <1>3, <1>5, <1>7
  <2> QED BY ONLY <1>0, <1>2, <1>4, <1>8, <2>1, AsWritten
<1> QED BY <1>4, <1>7, <1>9

(* And the program reads it so, if it can read it.                             *)
LEMMA CanonAsWritten ==
  ASSUME NEW t, Sc!IsTree(t), NEW names \in Seq(Sc!Names), Plain(t, WorkDir \o names), Sc!Canon(t, WorkDir, names).ok
  PROVE  Sc!Canon(t, WorkDir, names).place = WorkDir \o names
<1>1. PICK k, n, base, y : k = Sc!Canons(t) /\ n = MaxHops + 1 /\ base = WorkDir /\ y = base \o names
  OBVIOUS
<1>0. /\ names \in Spots /\ base \in Spots /\ names \in Seq(STRING) /\ base \in Seq(STRING) /\ base \in Seq(Sc!Names)
      /\ Linked(t) /\ MaxHops \in Nat /\ Len(names) \in Nat /\ Len(base) \in Nat
  BY <1>1, NamesAre, SoundIs, ScopeAssumption
<1>y. y \in Seq(Sc!Names) /\ y \in Seq(STRING) /\ Len(y) = Len(base) + Len(names) /\ Plain(t, y)
  BY <1>0, <1>1, Over, NamesAre
<1>r. PICK reads : reads = TRUE
  OBVIOUS
<1>2. reads \in BOOLEAN /\ Typed(reads, t) /\ Leveled(reads, t, k) /\ n \in 1..(MaxHops + 1)
  <2>1. reads \in BOOLEAN /\ Leveled(reads, t, k)
    BY <1>0, <1>r, <1>1, CanonLeveled
  <2>2. Typed(reads, t)
    BY ONLY <1>0, <2>1, TypedIs
  <2> QED BY <1>0, <1>1, <2>1, <2>2
<1>s. base \in Spots /\ names \in Spots
  BY <1>0, <1>1
<1>3. PICK came : Came(reads, t, k[n - 1], base, names, came) /\ k[n][<<base, names>>] = came[Len(names)]
  BY ONLY <1>s, <1>2, OneLevel
<1>4. Sc!Canon(t, WorkDir, names) = came[Len(names)] /\ came[Len(names)].ok
  BY <1>1, <1>3 DEF Sc!Canon
<1>5. PICK pl, deeper : pl = [i \in 0..Len(names) |-> base \o SubSeq(names, 1, i)] /\ deeper = k[n - 1]
  OBVIOUS
<1>6. \A i \in 0..Len(names) : pl[i] = base \o SubSeq(names, 1, i)
  BY <1>5
<1>7. pl[0] = base /\ pl[Len(names)] = y
  <2>1. base \o SubSeq(names, 1, 0) = base /\ base \o SubSeq(names, 1, Len(names)) = base \o names
    BY <1>0, Over
  <2> QED BY <1>0, <1>1, <1>6, <2>1
<1>p. \A i \in 0..Len(names) : pl[i] = SubSeq(y, 1, Len(base) + i)
  <2>1. \A i \in 0..Len(names) : base \o SubSeq(names, 1, i) = SubSeq(base \o names, 1, Len(base) + i)
    BY ONLY <1>0, Over
  <2> QED BY <1>1, <1>6, <2>1
<1>q. \A i \in 1..Len(names) : Append(pl[i - 1], names[i]) = pl[i]
  <2>1. \A i \in 1..Len(names) : Append(base \o SubSeq(names, 1, i - 1), names[i]) = base \o SubSeq(names, 1, i)
    BY ONLY <1>0, OverNext
  <2>2. \A i \in 1..Len(names) : i \in 0..Len(names) /\ i - 1 \in 0..Len(names)
    BY <1>0
  <2> QED BY <1>6, <2>1, <2>2
<1>8. Plainly(reads, t, deeper, names, pl)
  <2>1. ASSUME NEW i \in 1..Len(names), NEW w \in Found, w.ok, w.place = pl[i - 1], On(reads, t, deeper, w, names[i]).ok
        PROVE  On(reads, t, deeper, w, names[i]).place = pl[i]
    <3>1. i \in 0..Len(names) /\ Len(base) + i \in 0..Len(y)
      BY <1>0, <1>y
    <3>2. PICK z, j, name : z = pl[i] /\ j = Len(base) + i /\ name = names[i]
      OBVIOUS
    <3>3. z = SubSeq(y, 1, j) /\ j \in 0..Len(y)
      BY <1>p, <3>1, <3>2
    <3>4. z \in Seq(Sc!Names) /\ z \in Seq(STRING) /\ Plain(t, z)
      <4>1. Plain(t, SubSeq(y, 1, j))
        BY <1>y, <3>3, PlainUpTo
      <4> QED BY <1>y, <3>3, <4>1, UpToHere, NamesAre
    <3>5. Sc!Kind(t, z) # "link"
      <4>1. Len(z) \in 1..Len(z) /\ SubSeq(z, 1, Len(z)) = z
        BY <1>0, <1>y, <3>2, <3>3, <3>4, UpToHere
      <4> QED BY <3>4, <4>1 DEF Plain
    <3>6. name # ".." /\ Append(w.place, name) = z
      BY <1>q, <2>1, <3>2, NamesAre
    <3>7. PICK real : real = Sc!Real(t, z)
      OBVIOUS
    <3>8. Sc!CanonOn(t, deeper, w, name) = IF real.ok \/ real.error # "ENOENT" THEN real ELSE Sc!At(z)
      BY <2>1, <3>5, <3>6, <3>7 DEF Sc!CanonOn
    <3>9. real.ok => real.place = z
      BY <3>4, <3>7, RealAsWritten
    <3>10. Sc!CanonOn(t, deeper, w, name).ok
      BY <1>r, <2>1, <3>2 DEF On
    <3>11. Sc!CanonOn(t, deeper, w, name).place = z
      <4>1. Sc!At(z).place = z
        BY DEF Sc!At
      <4>2. CASE real.ok
        BY <3>8, <3>9, <4>2
      <4>3. CASE ~real.ok
        <5>1. Sc!CanonOn(t, deeper, w, name) = Sc!At(z)
          BY <3>8, <3>10, <4>3
        <5> QED BY <4>1, <5>1
      <4> QED BY <4>2, <4>3
    <3> QED BY <1>r, <3>2, <3>11 DEF On
  <2> QED BY <2>1 DEF Plainly
<1>9. came[Len(names)].place = pl[Len(names)]
  <2>1. Came(reads, t, deeper, base, names, came) /\ pl[0] = base
    BY <1>3, <1>5, <1>7
  <2> QED BY ONLY <1>0, <1>2, <1>4, <1>8, <2>1, AsWritten
<1> QED BY <1>1, <1>4, <1>7, <1>9

-----------------------------------------------------------------------------
(* Where a slice is, whatever its files are.                                   *)

\* What is relative to the project is what was put after it.
LEMMA RelOver ==
  ASSUME NEW S, WorkDir \in Seq(S), NEW names \in Seq(S)
  PROVE  Sc!Rel(WorkDir \o names) = names
<1>1. PICK y, r : y = WorkDir \o names /\ r = Sc!Rel(y)
  OBVIOUS
<1>2. y \in Seq(S) /\ Sc!Below(WorkDir, y)
  BY <1>1, Over
<1>3. r \in Seq(S) /\ WorkDir \o r = y
  BY <1>1, <1>2, RelIs
<1>4. r = names
  <2>1. \A X : \A s, t, v \in Seq(X) : s \o t = s \o v => t = v
    BY ConcatSimplifications
  <2> QED BY ONLY <1>1, <1>3, <2>1, WorkDir \in Seq(S), names \in Seq(S)
<1> QED BY <1>1, <1>4

\* A slice with no link in its path goes through none.
LEMMA FitsPlainly ==
  ASSUME NEW t, Sc!IsTree(t), NEW names \in Seq(Sc!Names),
         \A i \in 1..Len(names) : Sc!Kind(t, WorkDir \o SubSeq(names, 1, i)) # "link"
  PROVE  Plain(t, WorkDir \o names)
<1>1. PICK base, y : base = WorkDir /\ y = base \o names
  OBVIOUS
<1>2. names \in Seq(STRING) /\ base \in Seq(STRING) /\ Len(names) \in Nat /\ Len(base) \in Nat /\ base \in DOMAIN t
  BY <1>1, NamesAre, SoundIs, ScopeAssumption
<1>3. Len(y) = Len(base) + Len(names)
  BY <1>1, <1>2, Over
<1> SUFFICES ASSUME NEW j \in 1..Len(y) PROVE Sc!Kind(t, SubSeq(y, 1, j)) # "link"
  BY <1>1 DEF Plain
<1>4. CASE j <= Len(base)
  <2>1. j \in 1..Len(base) /\ 1 \in 1..Len(base) /\ j \in 0..Len(base)
    BY <1>2, <1>4
  <2>2. SubSeq(y, 1, j) = SubSeq(base, 1, j)
    BY <1>1, <1>2, <2>1, SubSeqOfConcat1
  <2>3. Sc!Kind(t, SubSeq(base, 1, j)) = "dir"
    <3>1. CASE j = Len(base)
      <4>1. SubSeq(base, 1, j) = base
        BY <1>2, <3>1, UpToHere
      <4> QED BY <1>1, <4>1, SoundIs
    <3>2. CASE j # Len(base)
      <4>1. j \in 0..(Len(base) - 1)
        BY <1>2, <2>1, <3>2
      <4> QED BY <1>2, <4>1, Above
    <3> QED BY <3>1, <3>2
  <2> QED BY <2>2, <2>3
<1>5. CASE ~(j <= Len(base))
  <2>1. PICK i : i = j - Len(base)
    OBVIOUS
  <2>2. i \in 1..Len(names) /\ i \in 0..Len(names) /\ Len(base) + i = j
    BY <1>2, <1>3, <1>5, <2>1
  <2>3. base \o SubSeq(names, 1, i) = SubSeq(y, 1, j)
    <3>1. \A h \in 0..Len(names) : base \o SubSeq(names, 1, h) = SubSeq(base \o names, 1, Len(base) + h)
      BY ONLY <1>2, Over
    <3> QED BY <1>1, <2>2, <3>1
  <2> QED BY <1>1, <2>2, <2>3
<1> QED BY <1>4, <1>5

\* Trees with the same directories and links are alike either way, and step by step.
LEMMA AlikeBack == \A t, u : Alike(t, u) => Alike(u, t)
BY DEF Alike

LEMMA PlainAlike == \A t, u, y : Alike(t, u) /\ Plain(t, y) => Plain(u, y)
BY DEF Alike, Plain

LEMMA AlikeOn == \A t, u, v : Alike(t, u) /\ Alike(u, v) => Alike(t, v)
BY DEF Alike

(* Where the system comes, the program reads the same in every tree with the same directories and links. *)
LEMMA CanonAlike ==
  ASSUME NEW b, Sc!IsTree(b), NEW t, Sc!IsTree(t), Alike(b, t), NEW cur \in Spots, NEW names \in Spots,
         Sc!Walk(b, cur, names).ok
  PROVE  Sc!Canon(t, cur, names) = Sc!Walk(b, cur, names)
<1>0. MaxHops + 1 \in 0..(MaxHops + 1) /\ MaxHops + 1 \in (MaxHops + 1)..(MaxHops + 1) /\ Linked(b) /\ Linked(t)
  BY ScopeAssumption, SoundIs
<1>1. PICK way, n : way = <<cur, names>> /\ n = MaxHops + 1
  OBVIOUS
<1>2. way \in Ways /\ n \in 0..(MaxHops + 1) /\ n \in n..(MaxHops + 1) /\ Sc!Walks(b)[n][way].ok
  BY <1>0, <1>1 DEF Ways, Sc!Ways, Spots, Sc!Walk
<1>3. Sc!Walks(t)[n][way] = Sc!Walks(b)[n][way]
  BY <1>0, <1>2, WalkMore
<1>4. Sc!Walks(t)[n][way].ok
  BY <1>2, <1>3
<1>5. Sc!Canons(t)[n][way] = Sc!Walks(t)[n][way]
  BY <1>2, <1>4, ReadsThePlace
<1> QED BY <1>1, <1>3, <1>5 DEF Sc!Walk, Sc!Canon

\* A directory of a slice stays where it is, as long as directories and links do.
LEMMA SliceStays ==
  ASSUME NEW b, Sc!IsTree(b), NEW t, Sc!IsTree(t), NEW u, Sc!IsTree(u), Alike(b, t), Alike(b, u),
         NEW names \in Seq(Sc!Names), Sc!Fits(b, names),
         NEW c, c = Sc!Canon(t, WorkDir, names), c.ok, c.place # WorkDir,
         NEW q \in Seq(Sc!Names), Sc!Below(c.place, q), Sc!Kind(t, SubSeq(q, 1, Len(q) - 1)) = "dir"
  PROVE  Sc!Canon(u, WorkDir, names).ok /\ Sc!Canon(u, WorkDir, names).place = c.place
<1>0. names \in Spots /\ WorkDir \in Spots /\ WorkDir \in Seq(Sc!Names) /\ WorkDir \in Seq(STRING) /\ names \in Seq(STRING) /\ q \in Seq(STRING)
  BY NamesAre, ScopeAssumption
<1>1. CASE Sc!Walk(b, WorkDir, names).ok
  <2>1. Sc!Canon(t, WorkDir, names) = Sc!Walk(b, WorkDir, names)
    BY <1>0, <1>1, CanonAlike
  <2>2. Sc!Canon(u, WorkDir, names) = Sc!Walk(b, WorkDir, names)
    BY <1>0, <1>1, CanonAlike
  <2> QED BY <1>1, <2>1, <2>2
<1>2. CASE ~Sc!Walk(b, WorkDir, names).ok
  <2>1. PICK y : y = WorkDir \o names
    OBVIOUS
  <2>2. y \in Seq(Sc!Names) /\ y \in Seq(STRING) /\ Sc!Below(WorkDir, y) /\ Plain(t, y) /\ Plain(u, y)
    <3>1. Plain(b, y)
      BY <1>2, <2>1, FitsPlainly DEF Sc!Fits
    <3>2. Plain(t, y) /\ Plain(u, y)
      BY <3>1, PlainAlike
    <3>3. y \in Seq(Sc!Names) /\ Sc!Below(WorkDir, y)
      BY <1>0, <2>1, Over
    <3> QED BY <3>2, <3>3, NamesAre
  <2>3. c.place = y
    BY <2>1, <2>2, CanonAsWritten
  <2>4. Len(y) <= Len(q) /\ \A i \in 1..Len(y) : y[i] = q[i]
    BY <1>0, <2>2, <2>3, BelowIs
  <2>5. y # <<>> /\ Len(y) \in Nat /\ Len(y) # 0 /\ Len(q) \in Nat
    <3>1. PICK base : base = WorkDir
      OBVIOUS
    <3>2. base \in Seq(STRING) /\ names \in Seq(STRING) /\ y = base \o names /\ y # base
      BY <1>0, <2>1, <2>3, <3>1
    <3>3. y # <<>>
      BY ONLY <3>2, ConcatEqualIffEmpty
    <3> QED BY <1>0, <2>2, <3>3
  <2>6. PICK m : m = Len(y) - 1
    OBVIOUS
  <2>7. m \in 0..Len(y) /\ m \in 0..(Len(q) - 1) /\ m \in 0..Len(q)
    BY <2>4, <2>5, <2>6
  <2>8. SubSeq(y, 1, m) = SubSeq(q, 1, m)
    <3>1. PICK d, e : d = SubSeq(y, 1, m) /\ e = SubSeq(q, 1, m)
      OBVIOUS
    <3>2. d \in Seq(STRING) /\ Len(d) = m /\ (\A j \in 1..m : d[j] = y[j]) /\ e \in Seq(STRING) /\ Len(e) = m /\ \A j \in 1..m : e[j] = q[j]
      BY <1>0, <2>2, <2>7, <3>1, UpToHere
    <3>3. \A j \in 1..m : d[j] = e[j]
      <4>1. \A j \in 1..m : j \in 1..Len(y)
        BY <2>5, <2>6
      <4> QED BY <2>4, <3>2, <4>1
    <3>4. d = e
      BY ONLY <3>2, <3>3, SeqEqual
    <3> QED BY <3>1, <3>4
  <2>9. Sc!Kind(t, SubSeq(q, 1, m)) = "dir"
    BY <1>0, <2>7, InADir
  <2>10. Sc!Kind(u, SubSeq(y, 1, Len(y) - 1)) = "dir"
    <3>1. Alike(t, u)
      BY AlikeBack, AlikeOn
    <3> QED BY <2>6, <2>8, <2>9, <3>1 DEF Alike
  <2>11. Sc!Kind(u, y) # "link"
    <3>1. Len(y) \in 1..Len(y) /\ SubSeq(y, 1, Len(y)) = y
      BY <2>2, <2>5, UpToHere
    <3> QED BY <2>2, <3>1 DEF Plain
  <2>12. Sc!Canon(u, WorkDir, Sc!Rel(y)) = Sc!At(y)
    BY <2>2, <2>3, <2>10, <2>11, ReadsAFile
  <2>13. Sc!Rel(y) = names
    BY <1>0, <2>1, RelOver
  <2>14. Sc!At(y).ok /\ Sc!At(y).place = y
    BY DEF Sc!At
  <2> QED BY <2>3, <2>12, <2>13, <2>14
<1> QED BY <1>1, <1>2

-----------------------------------------------------------------------------
(* Where a file tool may come to: a file, a directory, or a name in one that is not taken. *)
Lands(t, p) ==
  \/ Sc!Kind(t, p) \in {"dir", "file"}
  \/ Sc!Kind(t, p) = "missing" /\ p \in Seq(Sc!Names) /\ p # <<>> /\ Sc!Kind(t, SubSeq(p, 1, Len(p) - 1)) = "dir"

\* A name, and so a walk, ends at a directory or a file, or at a name free in a directory.
LEMMA NameLands ==
  ASSUME NEW t, Sc!IsTree(t), NEW p, Sc!Kind(t, p) = "dir", NEW name \in STRING
  PROVE  /\ Lands(t, Sc!Parent(p))
         /\ name # ".." /\ Sc!Kind(t, Append(p, name)) # "link" => Lands(t, Append(p, name))
<1>1. p \in DOMAIN t /\ p \in Seq(Sc!Names) /\ p \in Seq(STRING)
  <2>1. p \in DOMAIN t
    BY DEF Sc!Kind
  <2> QED BY <2>1, SoundIs, NamesAre
<1>2. Lands(t, Sc!Parent(p))
  <2>1. CASE p = <<>>
    BY <2>1 DEF Lands, Sc!Parent
  <2>2. CASE p # <<>>
    <3>1. Sc!Kind(t, SubSeq(p, 1, Len(p) - 1)) = "dir"
      BY <1>1, <2>2, SoundIs
    <3> QED BY <2>2, <3>1 DEF Lands, Sc!Parent, Sc!Front
  <2> QED BY <2>1, <2>2
<1>3. ASSUME name # "..", Sc!Kind(t, Append(p, name)) # "link" PROVE Lands(t, Append(p, name))
  <2>1. PICK next : next = Append(p, name)
    OBVIOUS
  <2>2. name \in Sc!Names
    BY <1>3 DEF Sc!Names
  <2>3. next \in Seq(Sc!Names) /\ next # <<>> /\ Len(next) = Len(p) + 1 /\ \A i \in 1..Len(p) : next[i] = p[i]
    BY <1>1, <2>1, <2>2, AppendProperties
  <2>4. SubSeq(next, 1, Len(next) - 1) = p
    <3>1. PICK d : d = SubSeq(next, 1, Len(p))
      OBVIOUS
    <3>2. Len(p) \in 0..Len(next) /\ Len(next) - 1 = Len(p)
      BY <1>1, <2>3
    <3>3. d \in Seq(Sc!Names) /\ Len(d) = Len(p) /\ \A i \in 1..Len(p) : d[i] = next[i]
      BY <2>3, <3>1, <3>2, UpToHere
    <3>4. \A i \in 1..Len(p) : d[i] = p[i]
      BY <2>3, <3>3
    <3>5. d = p
      BY ONLY <1>1, <3>3, <3>4, SeqEqual
    <3> QED BY <3>1, <3>2, <3>5
  <2>5. Sc!Kind(t, next) \in {"dir", "file"} \/ Sc!Kind(t, next) = "missing"
    <3>1. next \in DOMAIN t => Sc!Kind(t, next) \in {"dir", "file", "link"}
      BY SoundIs
    <3> QED BY <1>3, <2>1, <3>1 DEF Sc!Kind
  <2>6. Lands(t, next)
    BY <2>3, <2>4, <2>5 DEF Lands
  <2> QED BY <2>1, <2>6
<1> QED BY <1>2, <1>3

LEMMA WalkLands ==
  ASSUME NEW t, Sc!IsTree(t)
  PROVE  \A n \in 0..(MaxHops + 1) : \A cur \in Spots, names \in Spots :
            Lands(t, cur) /\ Sc!Walks(t)[n][<<cur, names>>].ok => Lands(t, Sc!Walks(t)[n][<<cur, names>>].place)
<1> DEFINE T == {n \in 0..(MaxHops + 1) : \A cur \in Spots, names \in Spots :
            Lands(t, cur) /\ Sc!Walks(t)[n][<<cur, names>>].ok => Lands(t, Sc!Walks(t)[n][<<cur, names>>].place)}
<1>0. MaxHops + 1 \in Nat /\ Linked(t)
  BY ScopeAssumption, SoundIs
<1>r. PICK reads : reads = FALSE
  OBVIOUS
<1>1. PICK k : k = Sc!Walks(t)
  OBVIOUS
<1>2. reads \in BOOLEAN /\ Typed(reads, t) /\ Leveled(reads, t, k)
  <2>1. reads \in BOOLEAN /\ Leveled(reads, t, k)
    BY <1>0, <1>r, <1>1, WalkLeveled
  <2>2. Typed(reads, t)
    BY ONLY <1>0, <2>1, TypedIs
  <2> QED BY <2>1, <2>2
<1>3. 0 \in T
  <2>1. \A cur \in Spots, names \in Spots : ~k[0][<<cur, names>>].ok
    <3> TAKE cur \in Spots, names \in Spots
    <3>1. PICK way : way = <<cur, names>>
      OBVIOUS
    <3>2. way \in Ways
      BY <3>1 DEF Ways, Sc!Ways, Spots
    <3>3. k[0][way] = Sc!Failed("ELOOP")
      BY <1>2, <3>2, Zenon DEF Leveled
    <3> QED BY <3>1, <3>3, FoundIs
  <2> QED BY <1>0, <1>1, <2>1
<1>4. ASSUME NEW n \in 1..(MaxHops + 1), n - 1 \in T PROVE n \in T
  <2> SUFFICES ASSUME NEW cur \in Spots, NEW names \in Spots, Lands(t, cur), k[n][<<cur, names>>].ok
               PROVE  Lands(t, k[n][<<cur, names>>].place)
    BY <1>0, <1>1
  <2>1. PICK came : Came(reads, t, k[n - 1], cur, names, came) /\ k[n][<<cur, names>>] = came[Len(names)]
    BY <1>2, OneLevel
  <2>2. PICK deeper : deeper = k[n - 1]
    OBVIOUS
  <2>3. Came(reads, t, deeper, cur, names, came) /\ came[Len(names)].ok
    BY <2>1, <2>2
  <2>4. \A i \in 0..Len(names) : came[i].ok
    BY <1>2, <2>3, OkAllAlong
  <2>5. Len(names) \in Nat /\ \A i \in 1..Len(names) : names[i] \in STRING
    BY DEF Spots
  <2>6. \A a \in Spots, b \in Spots : Lands(t, a) /\ deeper[<<a, b>>].ok => Lands(t, deeper[<<a, b>>].place)
    BY <1>1, <1>4, <2>2
  <2> DEFINE U == {i \in 0..Len(names) : Lands(t, came[i].place)}
  <2>7. 0 \in U
    <3>1. came[0].place = cur
      BY <2>3, FoundIs DEF Came
    <3> QED BY <2>5, <3>1
  <2>8. ASSUME NEW i \in 1..Len(names), i - 1 \in U PROVE i \in U
    <3>1. PICK w, name, next : w = came[i - 1] /\ name = names[i] /\ next = Append(w.place, name)
      OBVIOUS
    <3>2. i \in 0..Len(names) /\ i - 1 \in 0..Len(names) /\ w \in Found /\ w.ok /\ came[i].ok
      <4>1. i \in 0..Len(names) /\ i - 1 \in 0..Len(names)
        BY <2>5
      <4>2. came \in [0..Len(names) -> Found]
        BY <2>3 DEF Came
      <4> QED BY <2>4, <3>1, <4>1, <4>2
    <3>3. came[i] = Sc!WalkOn(t, deeper, w, name)
      BY <1>r, <2>3, <3>1 DEF Came, On
    <3>4. Sc!Kind(t, w.place) = "dir"
      BY <3>2, <3>3, FoundIs DEF Sc!WalkOn
    <3>5. \A d \in STRING : d = name => Lands(t, Sc!Parent(w.place)) /\ (name # ".." /\ Sc!Kind(t, next) # "link" => Lands(t, next))
      BY <3>1, <3>4, NameLands
    <3>6. Lands(t, Sc!Parent(w.place)) /\ (name # ".." /\ Sc!Kind(t, next) # "link" => Lands(t, next))
      BY <2>5, <3>1, <3>5
    <3>7. CASE name = ".."
      <4>1. came[i] = Sc!At(Sc!Parent(w.place))
        BY <3>2, <3>3, <3>4, <3>7 DEF Sc!WalkOn
      <4>2. Sc!At(Sc!Parent(w.place)).place = Sc!Parent(w.place)
        BY DEF Sc!At
      <4>3. came[i].place = Sc!Parent(w.place)
        BY <4>1, <4>2
      <4> QED BY <3>2, <3>6, <4>3
    <3>8. CASE name # ".." /\ Sc!Kind(t, next) # "link"
      <4>1. came[i] = Sc!At(next)
        BY <3>1, <3>2, <3>3, <3>4, <3>8 DEF Sc!WalkOn
      <4>2. Sc!At(next).place = next
        BY DEF Sc!At
      <4>3. came[i].place = next
        BY <4>1, <4>2
      <4> QED BY <3>2, <3>6, <3>8, <4>3
    <3>9. CASE name # ".." /\ Sc!Kind(t, next) = "link"
      <4>1. PICK a, b : a = Sc!From(t[next].to, w.place) /\ b = t[next].to.names
        OBVIOUS
      <4>2. came[i] = deeper[<<a, b>>]
        BY <3>1, <3>2, <3>3, <3>4, <3>9, <4>1 DEF Sc!WalkOn
      <4>3. a \in Spots /\ b \in Spots
        <5>1. t[next].to \in Sc!LinkPath /\ w.place \in Spots
          BY <1>0, <3>2, <3>9 DEF Sc!Kind, Linked, Found
        <5> QED BY <4>1, <5>1, FromIs
      <4>4. Lands(t, a)
        <5>1. a = <<>> \/ a = w.place
          BY <4>1 DEF Sc!From
        <5>2. Sc!Kind(t, <<>>) = "dir"
          BY SoundIs
        <5> QED BY <3>4, <5>1, <5>2 DEF Lands
      <4> QED BY <2>6, <3>2, <4>2, <4>3, <4>4
    <3> QED BY <3>7, <3>8, <3>9
  <2> HIDE DEF U
  <2>9. \A i \in 0..Len(names) : i \in U
    BY <2>5, <2>7, <2>8, UpTo
  <2>10. Len(names) \in U
    BY <2>5, <2>9
  <2> QED BY <2>1, <2>10 DEF U
<1> HIDE DEF T
<1>5. \A n \in 0..(MaxHops + 1) : n \in T
  BY <1>0, <1>3, <1>4, UpTo
<1> QED BY <1>5 DEF T

(* The paths a call names.                                                     *)
PathIs(path) == path.form \in {"relative", "absolute", "home", "odd"} /\ path.names \in Seq(STRING)

(* What a file tool opens is what its hooks have read, and a place it may come to. *)
LEMMA OpensWhatIsRead ==
  ASSUME NEW t, Sc!IsTree(t), NEW path, PathIs(path), NEW w, w = Sc!Opens(t, path), w.ok
  PROVE  w.place \in Seq(STRING) /\ Lands(t, w.place) /\ Sc!CanonicalPath(t, Sc!ToolPath(path)) = w
<1>0. WorkDir \in Spots /\ <<>> \in Spots /\ Home \in Seq(STRING) /\ Sc!Kind(t, WorkDir) = "dir" /\ Sc!Kind(t, <<>>) = "dir"
  BY NamesAre, ScopeAssumption, SoundIs DEF Spots
<1>1. PICK p, cur : p = Sc!Expanded(path) /\ cur = Sc!From(p, WorkDir)
  OBVIOUS
<1>2. p = Sc!ToolPath(path) /\ p.names \in Spots /\ cur \in Spots /\ Lands(t, cur)
  <2>1. p = Sc!ToolPath(path)
    BY <1>1 DEF Sc!Expanded, Sc!ToolPath
  <2>2. p.names \in Spots
    <3>1. CASE path.form = "home"
      <4>1. p = Sc!Absolute(Home \o path.names)
        BY <1>1, <3>1 DEF Sc!Expanded
      <4>2. p.names = Home \o path.names
        BY <4>1 DEF Sc!Absolute
      <4>3. Home \o path.names \in Seq(STRING)
        BY <1>0, ConcatProperties DEF PathIs
      <4> QED BY <4>2, <4>3 DEF Spots
    <3>2. CASE path.form # "home"
      BY <1>1, <3>2 DEF Sc!Expanded, PathIs, Spots
    <3> QED BY <3>1, <3>2
  <2>3. cur = <<>> \/ cur = WorkDir
    BY <1>1 DEF Sc!From
  <2> QED BY <1>0, <2>1, <2>2, <2>3 DEF Lands
<1>3. w = Sc!Walk(t, cur, p.names)
  BY <1>1 DEF Sc!Opens
<1>4. PICK names : names = p.names
  OBVIOUS
<1>5. Sc!Canon(t, cur, names) = w
  <2>1. Alike(t, t) /\ Sc!Walk(t, cur, names).ok /\ names \in Spots
    BY <1>2, <1>3, <1>4 DEF Alike
  <2> QED BY <1>2, <1>3, <1>4, <2>1, CanonAlike
<1>6. Lands(t, w.place)
  <2>1. PICK n : n = MaxHops + 1
    OBVIOUS
  <2>2. n \in 0..(MaxHops + 1)
    BY <2>1, ScopeAssumption
  <2>3. w = Sc!Walks(t)[n][<<cur, names>>]
    BY <1>3, <1>4, <2>1 DEF Sc!Walk
  <2> QED BY <1>2, <1>4, <2>2, <2>3, WalkLands
<1>7. w.place \in Seq(STRING)
  <2>1. w.place \in DOMAIN t \/ w.place \in Seq(Sc!Names)
    BY <1>6 DEF Lands, Sc!Kind
  <2> QED BY <2>1, SoundIs, NamesAre
<1> QED BY <1>1, <1>2, <1>4, <1>5, <1>6, <1>7 DEF Sc!CanonicalPath

\* The program reads a path as a place, or fails.
LEMMA CanonIs == \A t, names : Linked(t) /\ names \in Spots => Sc!Canon(t, WorkDir, names) \in Found
<1> SUFFICES ASSUME NEW t, NEW names \in Spots, Linked(t) PROVE Sc!Canon(t, WorkDir, names) \in Found
  OBVIOUS
<1>1. PICK way : way = <<WorkDir, names>>
  OBVIOUS
<1>2. way \in Ways /\ MaxHops + 1 \in 0..(MaxHops + 1)
  BY <1>1, ScopeAssumption, NamesAre DEF Ways, Sc!Ways, Spots
<1>3. Sc!Canons(t)[MaxHops + 1][way] \in Found
  <2>1. Sc!Canons(t) \in [0..(MaxHops + 1) -> [Ways -> Found]]
    BY CanonLeveled DEF Leveled
  <2> QED BY <1>2, <2>1
<1> QED BY <1>1, <1>3 DEF Sc!Canon

\* Below, relative to the project.
LEMMA BelowRel ==
  ASSUME NEW a \in Seq(STRING), NEW b \in Seq(STRING), Sc!Below(WorkDir, a), Sc!Below(WorkDir, b), Sc!Below(Sc!Rel(a), Sc!Rel(b))
  PROVE  Sc!Below(a, b)
<1>0. WorkDir \in Seq(STRING) /\ Len(WorkDir) \in Nat /\ Len(a) \in Nat /\ Len(b) \in Nat
  BY NamesAre, ScopeAssumption
<1>1. PICK c, d, m : c = Sc!Rel(a) /\ d = Sc!Rel(b) /\ m = Len(WorkDir)
  OBVIOUS
<1>2. c \in Seq(STRING) /\ Len(c) = Len(a) - m /\ \A i \in 1..(Len(a) - m) : c[i] = a[m + i]
  BY <1>0, <1>1, RelIs
<1>3. d \in Seq(STRING) /\ Len(d) = Len(b) - m /\ \A i \in 1..(Len(b) - m) : d[i] = b[m + i]
  BY <1>0, <1>1, RelIs
<1>4. Len(c) <= Len(d) /\ \A i \in 1..Len(c) : c[i] = d[i]
  <2>1. c \in Seq(STRING) /\ d \in Seq(STRING) /\ Sc!Below(c, d)
    BY <1>1, <1>2, <1>3
  <2> QED BY ONLY <2>1, BelowIs
<1>5. m <= Len(a) /\ (\A i \in 1..m : WorkDir[i] = a[i]) /\ m <= Len(b) /\ \A i \in 1..m : WorkDir[i] = b[i]
  BY <1>0, <1>1, BelowIs
<1>6. Len(a) <= Len(b)
  BY <1>0, <1>1, <1>2, <1>3, <1>4
<1>7. ASSUME NEW j \in 1..Len(a) PROVE a[j] = b[j]
  <2>1. CASE j <= m
    <3>1. j \in 1..m
      BY <1>0, <1>1, <2>1
    <3> QED BY <1>5, <3>1
  <2>2. CASE ~(j <= m)
    <3>1. PICK i : i = j - m
      OBVIOUS
    <3>2. i \in 1..(Len(a) - m) /\ i \in 1..(Len(b) - m) /\ i \in 1..Len(c) /\ m + i = j
      BY <1>0, <1>1, <1>2, <1>6, <2>2, <3>1
    <3>3. c[i] = a[j] /\ d[i] = b[j]
      BY <1>2, <1>3, <3>2
    <3> QED BY <1>4, <3>2, <3>3
  <2> QED BY <2>1, <2>2
<1> QED BY <1>6, <1>7, BelowIs

(* What a role may write in its slice is the same in every tree with the same directories and links, *)
(* as far as there is a directory to write in.                                 *)
LEMMA SliceRead ==
  ASSUME NEW b, Sc!IsTree(b), NEW t, Sc!IsTree(t), NEW u, Sc!IsTree(u), Alike(b, t), Alike(b, u),
         NEW slice, slice \subseteq Seq(Sc!Names), \A names \in slice : Sc!Fits(b, names),
         NEW q \in Seq(Sc!Names), Sc!Below(WorkDir, q), Sc!Kind(t, SubSeq(q, 1, Len(q) - 1)) = "dir",
         \E p \in Sc!SlicePrefixes(t, slice) : Sc!Below(p, Sc!Rel(q))
  PROVE  \E p \in Sc!SlicePrefixes(u, slice) : Sc!Below(p, Sc!Rel(q))
<1>0. WorkDir \in Seq(STRING) /\ q \in Seq(STRING) /\ Linked(t)
  BY NamesAre, ScopeAssumption, SoundIs
<1>1. \A v, names : Sc!CanonicalPath(v, Sc!Relative(names)) = Sc!Canon(v, WorkDir, names)
  BY DEF Sc!CanonicalPath, Sc!Relative, Sc!From
<1>2. PICK p \in Sc!SlicePrefixes(t, slice) : Sc!Below(p, Sc!Rel(q))
  OBVIOUS
<1>3. PICK names \in slice : LET c == Sc!CanonicalPath(t, Sc!Relative(names))
                             IN c.ok /\ Sc!Below(WorkDir, c.place) /\ c.place # WorkDir /\ p = Sc!Rel(c.place)
  BY <1>2 DEF Sc!SlicePrefixes
<1>4. PICK c : c = Sc!Canon(t, WorkDir, names)
  OBVIOUS
<1>5. c.ok /\ Sc!Below(WorkDir, c.place) /\ c.place # WorkDir /\ p = Sc!Rel(c.place)
  BY <1>1, <1>3, <1>4
<1>6. names \in Seq(Sc!Names) /\ names \in Spots /\ Sc!Fits(b, names)
  BY NamesAre
<1>7. c \in Found /\ c.place \in Seq(STRING)
  <2>1. c \in Found
    BY <1>0, <1>4, <1>6, CanonIs
  <2> QED BY <2>1, PlaceIs
<1>8. Sc!Below(c.place, q)
  BY <1>0, <1>2, <1>5, <1>7, BelowRel
<1>9. Sc!Canon(u, WorkDir, names).ok /\ Sc!Canon(u, WorkDir, names).place = c.place
  BY <1>4, <1>5, <1>6, <1>8, SliceStays
<1>10. PICK d : d = Sc!CanonicalPath(u, Sc!Relative(names))
  OBVIOUS
<1>11. d.ok /\ Sc!Below(WorkDir, d.place) /\ d.place # WorkDir /\ p = Sc!Rel(d.place)
  BY <1>1, <1>5, <1>9, <1>10
<1>12. p \in Sc!SlicePrefixes(u, slice)
  BY <1>10, <1>11 DEF Sc!SlicePrefixes
<1> QED BY <1>2, <1>12

\* So what a role is permitted stays the same.
LEMMA PermitsStays ==
  ASSUME NEW b, Sc!IsTree(b), NEW t, Sc!IsTree(t), NEW u, Sc!IsTree(u), Alike(b, t), Alike(b, u),
         NEW r, r.slice \subseteq Seq(Sc!Names), \A names \in r.slice : Sc!Fits(b, names), NEW all,
         NEW q \in Seq(Sc!Names), Sc!Below(WorkDir, q), Sc!Kind(t, SubSeq(q, 1, Len(q) - 1)) = "dir",
         r.scope \in {"none", "slice", "tests", "docs", "shared"},
         Sc!Permits(Sc!Rel(q), r, Sc!SlicePrefixes(t, r.slice), all)
  PROVE  Sc!Permits(Sc!Rel(q), r, Sc!SlicePrefixes(u, r.slice), all)
<1>1. PICK rel, own, also : rel = Sc!Rel(q) /\ own = Sc!SlicePrefixes(t, r.slice) /\ also = Sc!SlicePrefixes(u, r.slice)
  OBVIOUS
<1>2. (\E p \in own : Sc!Below(p, rel)) => \E p \in also : Sc!Below(p, rel)
  BY <1>1, SliceRead
<1>3. Sc!Permits(rel, r, own, all)
  BY <1>1
<1>4. Sc!Permits(rel, r, also, all)
  <2>1. CASE r.scope = "slice"
    BY <1>2, <1>3, <2>1 DEF Sc!Permits
  <2>2. CASE r.scope = "tests"
    BY <1>3, <2>2 DEF Sc!Permits
  <2>3. CASE r.scope = "docs"
    BY <1>3, <2>3 DEF Sc!Permits
  <2>4. CASE r.scope = "shared"
    BY <1>3, <2>4 DEF Sc!Permits
  <2>5. r.scope # "none"
    BY <1>3 DEF Sc!Permits
  <2> QED BY <2>1, <2>2, <2>3, <2>4, <2>5
<1> QED BY <1>1, <1>4

-----------------------------------------------------------------------------
(* Trees with the same links, whatever else came and went.                     *)

SameLinks(t, u) ==
  \A p : /\ (Sc!Kind(t, p) = "link") <=> (Sc!Kind(u, p) = "link")
         /\ Sc!Kind(t, p) = "link" => t[p] = u[p]

LEMMA LinksSame == \A t, u : Sc!Links(t) = Sc!Links(u) <=> SameLinks(t, u)
<1> SUFFICES ASSUME NEW t, NEW u PROVE Sc!Links(t) = Sc!Links(u) <=> SameLinks(t, u)
  OBVIOUS
<1>1. \A v, p : p \in DOMAIN Sc!Links(v) <=> Sc!Kind(v, p) = "link"
  BY DEF Sc!Links, Sc!Kind
<1>2. \A v, p : p \in DOMAIN Sc!Links(v) => Sc!Links(v)[p] = v[p]
  BY DEF Sc!Links
<1>3. ASSUME Sc!Links(t) = Sc!Links(u) PROVE SameLinks(t, u)
  <2>1. PICK k, l : k = Sc!Links(t) /\ l = Sc!Links(u)
    OBVIOUS
  <2> QED BY <1>1, <1>2, <1>3 DEF SameLinks
<1>4. ASSUME SameLinks(t, u) PROVE Sc!Links(t) = Sc!Links(u)
  <2>1. {p \in DOMAIN t : t[p].kind = "link"} = {p \in DOMAIN u : u[p].kind = "link"}
    <3>1. \A v, p : (p \in DOMAIN v /\ v[p].kind = "link") <=> Sc!Kind(v, p) = "link"
      BY DEF Sc!Kind
    <3> QED BY <1>4, <3>1 DEF SameLinks
  <2>2. \A p \in {p \in DOMAIN t : t[p].kind = "link"} : t[p] = u[p]
    BY <1>4 DEF SameLinks, Sc!Kind
  <2> QED BY <2>1, <2>2 DEF Sc!Links
<1> QED BY <1>3, <1>4

\* In each the next name leads to the same place, where it leads on in both.
Agree(reads, t, deeper, also, u, further) ==
  \A w \in Found, x \in Found, name \in STRING :
    w.ok /\ x.ok /\ w.place = x.place /\ On(reads, t, deeper, w, name).ok /\ On(also, u, further, x, name).ok
      => On(also, u, further, x, name).place = On(reads, t, deeper, w, name).place

(* Two that agree name by name come to the same place, if both come to one.    *)
LEMMA BothCome ==
  ASSUME NEW reads \in BOOLEAN, NEW t, NEW deeper, NEW also \in BOOLEAN, NEW u, NEW further,
         NEW cur, NEW names \in Spots, NEW came, NEW went,
         Came(reads, t, deeper, cur, names, came), Came(also, u, further, cur, names, went),
         Agree(reads, t, deeper, also, u, further), came[Len(names)].ok, went[Len(names)].ok
  PROVE  went[Len(names)].place = came[Len(names)].place
<1> DEFINE T == {i \in 0..Len(names) : went[i].place = came[i].place}
<1>1. Len(names) \in Nat /\ \A i \in 1..Len(names) : names[i] \in STRING
  BY DEF Spots
<1>2. (\A i \in 0..Len(names) : came[i].ok) /\ \A i \in 0..Len(names) : went[i].ok
  BY OkAllAlong
<1>3. 0 \in T
  BY <1>1 DEF Came
<1>4. \A i \in 1..Len(names) : i - 1 \in T => i \in T
  <2> TAKE i \in 1..Len(names)
  <2> HAVE i - 1 \in T
  <2>1. i \in 0..Len(names) /\ i - 1 \in 0..Len(names) /\ went[i - 1].place = came[i - 1].place /\ names[i] \in STRING
    BY <1>1
  <2>2. came[i] = On(reads, t, deeper, came[i - 1], names[i]) /\ went[i] = On(also, u, further, went[i - 1], names[i])
    BY DEF Came
  <2>3. came[i - 1] \in Found /\ went[i - 1] \in Found
    BY <2>1 DEF Came
  <2>4. PICK w, x, name : w = came[i - 1] /\ x = went[i - 1] /\ name = names[i]
    OBVIOUS
  <2>5. /\ w \in Found /\ x \in Found /\ name \in STRING /\ w.ok /\ x.ok /\ w.place = x.place
        /\ On(reads, t, deeper, w, name).ok /\ On(also, u, further, x, name).ok
    BY <1>2, <2>1, <2>2, <2>3, <2>4
  <2>6. On(also, u, further, x, name).place = On(reads, t, deeper, w, name).place
    BY <2>5 DEF Agree
  <2> QED BY <2>1, <2>2, <2>4, <2>6
<1> HIDE DEF T
<1>5. \A i \in 0..Len(names) : i \in T
  BY <1>1, <1>3, <1>4, UpTo
<1>6. Len(names) \in T
  BY <1>1, <1>5
<1> QED BY <1>6 DEF T

(* So do the system's walks in trees with the same links.                      *)
LEMMA WalkBoth ==
  ASSUME NEW t, Linked(t), NEW u, Linked(u), SameLinks(t, u)
  PROVE  \A n \in 0..(MaxHops + 1) : \A m \in 0..(MaxHops + 1), way \in Ways :
            Sc!Walks(t)[n][way].ok /\ Sc!Walks(u)[m][way].ok => Sc!Walks(u)[m][way].place = Sc!Walks(t)[n][way].place
<1> DEFINE T == {n \in 0..(MaxHops + 1) : \A m \in 0..(MaxHops + 1), way \in Ways :
            Sc!Walks(t)[n][way].ok /\ Sc!Walks(u)[m][way].ok => Sc!Walks(u)[m][way].place = Sc!Walks(t)[n][way].place}
<1>0. MaxHops + 1 \in Nat
  BY ScopeAssumption
<1>1. PICK k, l : k = Sc!Walks(t) /\ l = Sc!Walks(u) /\ Leveled(FALSE, t, k) /\ Leveled(FALSE, u, l)
  BY WalkLeveled
<1>2. (\A way \in Ways : ~k[0][way].ok) /\ \A way \in Ways : ~l[0][way].ok
  BY <1>1, FoundIs DEF Leveled
<1>3. 0 \in T
  BY <1>0, <1>1, <1>2
<1>4. ASSUME NEW n \in 1..(MaxHops + 1), n - 1 \in T PROVE n \in T
  <2> SUFFICES ASSUME NEW m \in 0..(MaxHops + 1), NEW way \in Ways, k[n][way].ok, l[m][way].ok
               PROVE  l[m][way].place = k[n][way].place
    BY <1>0, <1>1, <1>4
  <2>1. PICK cur, names : way = <<cur, names>> /\ cur \in Spots /\ names \in Spots
    BY DEF Ways, Sc!Ways, Spots
  <2>2. m \in 1..(MaxHops + 1) /\ m - 1 \in 0..(MaxHops + 1)
    BY <1>0, <1>2
  <2>r. PICK reads : reads = FALSE
    OBVIOUS
  <2>3. Typed(reads, t) /\ Typed(reads, u) /\ reads \in BOOLEAN /\ Leveled(reads, t, k) /\ Leveled(reads, u, l)
    BY <1>1, <2>r, TypedIs
  <2>4. PICK came : Came(reads, t, k[n - 1], cur, names, came) /\ k[n][<<cur, names>>] = came[Len(names)]
    BY <2>1, <2>3, OneLevel
  <2>5. PICK went : Came(reads, u, l[m - 1], cur, names, went) /\ l[m][<<cur, names>>] = went[Len(names)]
    BY <2>1, <2>2, <2>3, OneLevel
  <2>6. PICK deeper, further : deeper = k[n - 1] /\ further = l[m - 1]
    OBVIOUS
  <2>7. \A v \in Ways : deeper[v].ok /\ further[v].ok => further[v].place = deeper[v].place
    BY <1>1, <1>4, <2>2, <2>6
  <2>8. Agree(reads, t, deeper, reads, u, further)
    <3>1. SUFFICES ASSUME NEW w \in Found, NEW x \in Found, NEW name \in STRING, w.ok, x.ok, w.place = x.place,
                          On(reads, t, deeper, w, name).ok, On(reads, u, further, x, name).ok
                   PROVE  On(reads, u, further, x, name).place = On(reads, t, deeper, w, name).place
      BY DEF Agree
    <3>2. PICK next : next = Append(w.place, name)
      OBVIOUS
    <3>3. Sc!Kind(t, w.place) = "dir" /\ Sc!Kind(u, x.place) = "dir"
      BY <2>r, <3>1, FoundIs DEF On, Sc!WalkOn
    <3>4. CASE name = ".." \/ Sc!Kind(t, next) # "link"
      <4>1. name = ".." \/ Sc!Kind(u, next) # "link"
        BY <3>4 DEF SameLinks
      <4> QED BY <2>r, <3>1, <3>2, <3>3, <3>4, <4>1 DEF On, Sc!WalkOn
    <3>5. CASE name # ".." /\ Sc!Kind(t, next) = "link"
      <4>1. PICK v : v = <<Sc!From(t[next].to, w.place), t[next].to.names>>
        OBVIOUS
      <4>2. v \in Ways
        BY <3>5, <4>1, LinkWay
      <4>3. Sc!Kind(u, next) = "link" /\ u[next].to = t[next].to
        BY <3>5 DEF SameLinks
      <4>4. On(reads, t, deeper, w, name) = deeper[v]
        BY <2>r, <3>1, <3>2, <3>3, <3>5, <4>1 DEF On, Sc!WalkOn
      <4>5. On(reads, u, further, x, name) = further[v]
        BY <2>r, <3>1, <3>2, <3>3, <3>5, <4>1, <4>3 DEF On, Sc!WalkOn
      <4> QED BY <2>7, <3>1, <4>2, <4>4, <4>5
    <3> QED BY <3>4, <3>5
  <2>9. /\ Came(reads, t, deeper, cur, names, came) /\ Came(reads, u, further, cur, names, went)
        /\ came[Len(names)].ok /\ went[Len(names)].ok
    BY <2>1, <2>4, <2>5, <2>6
  <2>10. went[Len(names)].place = came[Len(names)].place
    BY <2>1, <2>3, <2>8, <2>9, BothCome
  <2> QED BY <2>1, <2>4, <2>5, <2>10
<1> HIDE DEF T
<1>5. \A n \in 0..(MaxHops + 1) : n \in T
  BY <1>0, <1>3, <1>4, UpTo
<1> QED BY <1>5 DEF T

(* And where the system came to a place, the program reads that place or none  *)
(* in any tree with the same links.                                            *)
LEMMA CanonFollows ==
  ASSUME NEW t, Sc!IsTree(t), NEW u, Sc!IsTree(u), SameLinks(t, u)
  PROVE  \A n \in 0..(MaxHops + 1) : \A m \in 0..(MaxHops + 1), way \in Ways :
            Sc!Walks(t)[n][way].ok /\ Sc!Canons(u)[m][way].ok => Sc!Canons(u)[m][way].place = Sc!Walks(t)[n][way].place
<1> DEFINE T == {n \in 0..(MaxHops + 1) : \A m \in 0..(MaxHops + 1), way \in Ways :
            Sc!Walks(t)[n][way].ok /\ Sc!Canons(u)[m][way].ok => Sc!Canons(u)[m][way].place = Sc!Walks(t)[n][way].place}
<1>0. MaxHops + 1 \in Nat /\ MaxHops \in Nat /\ Linked(t) /\ Linked(u)
  BY ScopeAssumption, SoundIs
<1>1. PICK k, l : k = Sc!Walks(t) /\ l = Sc!Canons(u) /\ Leveled(FALSE, t, k) /\ Leveled(TRUE, u, l)
  BY <1>0, WalkLeveled, CanonLeveled
<1>2. (\A way \in Ways : ~k[0][way].ok) /\ \A way \in Ways : ~l[0][way].ok
  BY <1>1, FoundIs DEF Leveled
<1>3. 0 \in T
  BY <1>0, <1>1, <1>2
<1>4. ASSUME NEW n \in 1..(MaxHops + 1), n - 1 \in T PROVE n \in T
  <2> SUFFICES ASSUME NEW m \in 0..(MaxHops + 1), NEW way \in Ways, k[n][way].ok, l[m][way].ok
               PROVE  l[m][way].place = k[n][way].place
    BY <1>0, <1>1, <1>4
  <2>1. PICK cur, names : way = <<cur, names>> /\ cur \in Spots /\ names \in Spots
    BY DEF Ways, Sc!Ways, Spots
  <2>2. m \in 1..(MaxHops + 1) /\ m - 1 \in 0..(MaxHops + 1)
    BY <1>0, <1>2
  <2>r. PICK reads, also : reads = FALSE /\ also = TRUE
    OBVIOUS
  <2>3. /\ reads \in BOOLEAN /\ Typed(reads, t) /\ Leveled(reads, t, k)
        /\ also \in BOOLEAN /\ Typed(also, u) /\ Leveled(also, u, l)
    BY <1>0, <1>1, <2>r, TypedIs
  <2>4. PICK came : Came(reads, t, k[n - 1], cur, names, came) /\ k[n][<<cur, names>>] = came[Len(names)]
    BY <2>1, <2>3, OneLevel
  <2>5. PICK went : Came(also, u, l[m - 1], cur, names, went) /\ l[m][<<cur, names>>] = went[Len(names)]
    BY <2>1, <2>2, <2>3, OneLevel
  <2>6. PICK deeper, further : deeper = k[n - 1] /\ further = l[m - 1]
    OBVIOUS
  <2>7. \A v \in Ways : deeper[v].ok /\ further[v].ok => further[v].place = deeper[v].place
    BY <1>1, <1>4, <2>2, <2>6
  <2>8. Agree(reads, t, deeper, also, u, further)
    <3>1. SUFFICES ASSUME NEW w \in Found, NEW x \in Found, NEW name \in STRING, w.ok, x.ok, w.place = x.place,
                          On(reads, t, deeper, w, name).ok, On(also, u, further, x, name).ok
                   PROVE  On(also, u, further, x, name).place = On(reads, t, deeper, w, name).place
      BY DEF Agree
    <3>2. PICK next, real : next = Append(w.place, name) /\ real = Sc!Real(u, next)
      OBVIOUS
    <3>3. Sc!Kind(t, w.place) = "dir" /\ w.place \in DOMAIN t /\ t[w.place].kind = "dir"
      BY <2>r, <3>1, FoundIs DEF On, Sc!WalkOn, Sc!Kind
    <3>4. CASE name = ".."
      <4>1. On(reads, t, deeper, w, name) = Sc!At(Sc!Parent(w.place))
        BY <2>r, <3>1, <3>3, <3>4 DEF On, Sc!WalkOn
      <4>2. On(also, u, further, x, name) = Sc!At(Sc!Parent(w.place))
        BY <2>r, <3>1, <3>4 DEF On, Sc!CanonOn
      <4> QED BY <4>1, <4>2
    <3>5. CASE name # ".." /\ (real.ok \/ real.error # "ENOENT")
      <4>1. On(also, u, further, x, name) = real /\ real.ok
        BY <2>r, <3>1, <3>2, <3>5 DEF On, Sc!CanonOn
      <4>2. PICK go, h : go = << <<>>, next>> /\ h = MaxHops + 1
        OBVIOUS
      <4>3. h \in 0..(MaxHops + 1) /\ go \in Ways
        <5>1. next \in Seq(STRING) /\ <<>> \in Seq(STRING)
          <6>1. w.place \in Seq(STRING)
            BY PlaceIs
          <6> QED BY <3>1, <3>2, <6>1
        <5>2. go \in Seq(STRING) \X Seq(STRING)
          BY <4>2, <5>1
        <5> QED BY <1>0, <4>2, <5>2 DEF Ways, Sc!Ways
      <4>4. real = Sc!Walks(u)[h][go] /\ Sc!Walks(u)[h][go].ok
        <5>1. real = Sc!Walk(u, <<>>, next)
          BY <3>2, <4>1, FoundIs DEF Sc!Real
        <5> QED BY <4>1, <4>2, <5>1 DEF Sc!Walk
      <4>5. k[n][go] = Sc!WalkOn(t, deeper, Sc!At(w.place), name)
        BY <1>1, <2>6, <3>2, <3>3, <4>2, FromRoot
      <4>6. Sc!WalkOn(t, deeper, Sc!At(w.place), name) = On(reads, t, deeper, w, name)
        <5>1. Sc!At(w.place).ok /\ Sc!At(w.place).place = w.place
          BY DEF Sc!At
        <5> QED BY <2>r, <3>1, <5>1 DEF On, Sc!WalkOn
      <4>7. Sc!Walks(t)[n][go].ok /\ n \in 0..(MaxHops + 1)
        BY <1>0, <1>1, <3>1, <4>5, <4>6
      <4>8. Sc!Walks(u)[h][go].place = Sc!Walks(t)[n][go].place
        BY <1>0, <4>3, <4>4, <4>7, WalkBoth
      <4> QED BY <1>1, <4>1, <4>4, <4>5, <4>6, <4>8
    <3>6. CASE name # ".." /\ ~(real.ok \/ real.error # "ENOENT") /\ Sc!Kind(t, next) = "link"
      <4>1. PICK v : v = <<Sc!From(t[next].to, w.place), t[next].to.names>>
        OBVIOUS
      <4>2. v \in Ways
        BY <1>0, <3>6, <4>1, LinkWay
      <4>3. Sc!Kind(u, next) = "link" /\ u[next].to = t[next].to
        BY <3>6 DEF SameLinks
      <4>4. On(reads, t, deeper, w, name) = deeper[v]
        BY <2>r, <3>1, <3>2, <3>3, <3>6, <4>1 DEF On, Sc!WalkOn
      <4>5. On(also, u, further, x, name) = further[v]
        BY <2>r, <3>1, <3>2, <3>6, <4>1, <4>3 DEF On, Sc!CanonOn
      <4> QED BY <2>7, <3>1, <4>2, <4>4, <4>5
    <3>7. CASE name # ".." /\ ~(real.ok \/ real.error # "ENOENT") /\ Sc!Kind(t, next) # "link"
      <4>1. Sc!Kind(u, next) # "link"
        BY <3>7 DEF SameLinks
      <4>2. On(reads, t, deeper, w, name) = Sc!At(next)
        BY <2>r, <3>1, <3>2, <3>3, <3>7 DEF On, Sc!WalkOn
      <4>3. On(also, u, further, x, name) = Sc!At(next)
        BY <2>r, <3>1, <3>2, <3>7, <4>1 DEF On, Sc!CanonOn
      <4> QED BY <4>2, <4>3
    <3> QED BY <3>4, <3>5, <3>6, <3>7
  <2>9. /\ Came(reads, t, deeper, cur, names, came) /\ Came(also, u, further, cur, names, went)
        /\ came[Len(names)].ok /\ went[Len(names)].ok
    BY <2>1, <2>4, <2>5, <2>6
  <2>10. went[Len(names)].place = came[Len(names)].place
    BY <2>1, <2>3, <2>8, <2>9, BothCome
  <2> QED BY <2>1, <2>4, <2>5, <2>10
<1> HIDE DEF T
<1>5. \A n \in 0..(MaxHops + 1) : n \in T
  BY <1>0, <1>3, <1>4, UpTo
<1> QED BY <1>5 DEF T

(* Where the system finds a slice, in the tree before the step or in this one. *)
OwnOf(b, w, slice) ==
  LET found == {Sc!Walk(t, WorkDir, names) : t \in {b, w}, names \in slice}
  IN {Sc!Rel(a.place) : a \in {a \in found : a.ok /\ Sc!Below(WorkDir, a.place) /\ a.place # WorkDir}}

\* What is in a directory of a slice as the program reads it is in one as the system finds it.
LEMMA OwnsIt ==
  ASSUME NEW b, Sc!IsTree(b), NEW t, Sc!IsTree(t), NEW u, Sc!IsTree(u), SameLinks(b, t), SameLinks(b, u),
         NEW slice, slice \subseteq Seq(Sc!Names), \A names \in slice : Sc!Fits(b, names),
         NEW q, q \in DOMAIN b \/ q \in DOMAIN u, Sc!Below(WorkDir, q),
         \E p \in Sc!SlicePrefixes(t, slice) : Sc!Below(p, Sc!Rel(q))
  PROVE  \E p \in OwnOf(b, u, slice) : Sc!Below(p, Sc!Rel(q))
<1>0. /\ WorkDir \in Seq(STRING) /\ WorkDir \in Seq(Sc!Names) /\ WorkDir \in Spots
      /\ q \in Seq(Sc!Names) /\ q \in Seq(STRING) /\ Linked(t)
  BY NamesAre, ScopeAssumption, SoundIs
<1>1. \A v, names : Sc!CanonicalPath(v, Sc!Relative(names)) = Sc!Canon(v, WorkDir, names)
  BY DEF Sc!CanonicalPath, Sc!Relative, Sc!From
<1>2. PICK p \in Sc!SlicePrefixes(t, slice) : Sc!Below(p, Sc!Rel(q))
  OBVIOUS
<1>3. PICK names \in slice : LET c == Sc!CanonicalPath(t, Sc!Relative(names))
                             IN c.ok /\ Sc!Below(WorkDir, c.place) /\ c.place # WorkDir /\ p = Sc!Rel(c.place)
  BY <1>2 DEF Sc!SlicePrefixes
<1>4. PICK c : c = Sc!Canon(t, WorkDir, names)
  OBVIOUS
<1>5. c.ok /\ Sc!Below(WorkDir, c.place) /\ c.place # WorkDir /\ p = Sc!Rel(c.place)
  BY <1>1, <1>3, <1>4
<1>6. names \in Seq(Sc!Names) /\ names \in Spots /\ names \in Seq(STRING) /\ Sc!Fits(b, names)
  BY NamesAre
<1>7. ASSUME NEW v \in {b, u}, NEW w, w = Sc!Walk(v, WorkDir, names), w.ok, w.place = c.place PROVE p \in OwnOf(b, u, slice)
  BY <1>3, <1>5, <1>7 DEF OwnOf
<1>8. CASE Sc!Walk(b, WorkDir, names).ok
  <2>1. PICK way, n : way = <<WorkDir, names>> /\ n = MaxHops + 1
    OBVIOUS
  <2>2. way \in Ways /\ n \in 0..(MaxHops + 1) /\ Sc!Walks(b)[n][way].ok /\ Sc!Canons(t)[n][way].ok
    BY <1>0, <1>4, <1>5, <1>6, <1>8, <2>1, ScopeAssumption DEF Ways, Sc!Ways, Spots, Sc!Walk, Sc!Canon
  <2>3. Sc!Canons(t)[n][way].place = Sc!Walks(b)[n][way].place
    BY <2>2, CanonFollows
  <2>4. Sc!Walk(b, WorkDir, names).place = c.place
    BY <1>4, <2>1, <2>3 DEF Sc!Walk, Sc!Canon
  <2> QED BY <1>2, <1>7, <1>8, <2>4
<1>9. CASE ~Sc!Walk(b, WorkDir, names).ok
  <2>1. PICK y : y = WorkDir \o names
    OBVIOUS
  <2>2. PICK v \in {b, u} : q \in DOMAIN v
    OBVIOUS
  <2>3. Sc!IsTree(v) /\ SameLinks(b, v)
    BY DEF SameLinks
  <2>4. y \in Seq(Sc!Names) /\ y \in Seq(STRING) /\ Sc!Below(WorkDir, y) /\ Plain(t, y) /\ Plain(v, y)
    <3>1. Plain(b, y)
      BY <1>6, <1>9, <2>1, FitsPlainly DEF Sc!Fits
    <3>2. Plain(t, y) /\ Plain(v, y)
      BY <2>3, <3>1 DEF Plain, SameLinks
    <3>3. y \in Seq(Sc!Names) /\ Sc!Below(WorkDir, y)
      BY <1>0, <1>6, <2>1, Over
    <3> QED BY <3>2, <3>3, NamesAre
  <2>5. c.place = y
    BY <1>4, <1>5, <1>6, <2>1, <2>4, CanonAsWritten
  <2>6. Sc!Below(y, q)
    BY <1>0, <1>2, <1>5, <2>4, <2>5, BelowRel
  <2>7. Len(y) <= Len(q) /\ \A i \in 1..Len(y) : y[i] = q[i]
    BY <1>0, <2>4, <2>6, BelowIs
  <2>8. y # <<>> /\ Len(y) \in Nat /\ Len(y) # 0 /\ Len(q) \in Nat
    <3>1. PICK base : base = WorkDir
      OBVIOUS
    <3>2. base \in Seq(STRING) /\ names \in Seq(STRING) /\ y = base \o names /\ y # base
      BY <1>0, <1>5, <1>6, <2>1, <2>5, <3>1
    <3>3. y # <<>>
      BY ONLY <3>2, ConcatEqualIffEmpty
    <3> QED BY <1>0, <2>4, <3>3
  <2>9. PICK m : m = Len(y) - 1
    OBVIOUS
  <2>10. m \in 0..Len(y) /\ m \in 0..(Len(q) - 1) /\ m \in 0..Len(q)
    BY <2>7, <2>8, <2>9
  <2>11. SubSeq(y, 1, m) = SubSeq(q, 1, m)
    <3>1. PICK d, e : d = SubSeq(y, 1, m) /\ e = SubSeq(q, 1, m)
      OBVIOUS
    <3>2. d \in Seq(STRING) /\ Len(d) = m /\ (\A j \in 1..m : d[j] = y[j]) /\ e \in Seq(STRING) /\ Len(e) = m /\ \A j \in 1..m : e[j] = q[j]
      BY <1>0, <2>4, <2>10, <3>1, UpToHere
    <3>3. \A j \in 1..m : d[j] = e[j]
      <4>1. \A j \in 1..m : j \in 1..Len(y)
        BY <2>8, <2>9
      <4> QED BY <2>7, <3>2, <4>1
    <3>4. d = e
      BY ONLY <3>2, <3>3, SeqEqual
    <3> QED BY <3>1, <3>4
  <2>12. Sc!Kind(v, SubSeq(y, 1, Len(y) - 1)) = "dir"
    BY <2>2, <2>3, <2>9, <2>10, <2>11, Above
  <2>13. Sc!Kind(v, y) # "link"
    <3>1. Len(y) \in 1..Len(y) /\ SubSeq(y, 1, Len(y)) = y
      BY <2>4, <2>8, UpToHere
    <3> QED BY <2>4, <3>1 DEF Plain
  <2>14. Sc!Walk(v, WorkDir, Sc!Rel(y)) = Sc!At(y)
    BY <1>5, <2>3, <2>4, <2>5, <2>12, <2>13, ReadsAFile
  <2>15. Sc!Rel(y) = names
    BY <1>0, <1>6, <2>1, RelOver
  <2>16. Sc!At(y).ok /\ Sc!At(y).place = y
    BY DEF Sc!At
  <2> QED BY <1>2, <1>7, <2>5, <2>14, <2>15, <2>16
<1> QED BY <1>8, <1>9

\* What is permitted in fewer directories is permitted in more.
LEMMA PermitsMore ==
  ASSUME NEW rel, NEW r, r.scope \in {"none", "slice", "tests", "docs", "shared"}, NEW own, NEW all, NEW own2, NEW all2,
         Sc!Permits(rel, r, own, all),
         (\E p \in own : Sc!Below(p, rel)) => \E p \in own2 : Sc!Below(p, rel),
         (\E p \in all : Sc!Below(p, rel)) => \E p \in all2 : Sc!Below(p, rel)
  PROVE  Sc!Permits(rel, r, own2, all2)
<1>1. CASE r.scope = "slice"
  BY <1>1 DEF Sc!Permits
<1>2. CASE r.scope = "tests"
  BY <1>2 DEF Sc!Permits
<1>3. CASE r.scope = "docs"
  BY <1>3 DEF Sc!Permits
<1>4. CASE r.scope = "shared"
  BY <1>4 DEF Sc!Permits
<1>5. r.scope # "none"
  BY DEF Sc!Permits
<1> QED BY <1>1, <1>2, <1>3, <1>4, <1>5

(* So what the program permits a role, it may write.                           *)
LEMMA PermitsIts ==
  ASSUME NEW b, Sc!IsTree(b), NEW t, Sc!IsTree(t), NEW u, Sc!IsTree(u), SameLinks(b, t), SameLinks(b, u),
         NEW r, r.scope \in {"none", "slice", "tests", "docs", "shared"}, r.slice \cup r.all \subseteq Seq(Sc!Names),
         \A names \in r.slice \cup r.all : Sc!Fits(b, names),
         NEW q, q \in DOMAIN b \/ q \in DOMAIN u, Sc!Below(WorkDir, q),
         Sc!Permits(Sc!Rel(q), r, Sc!SlicePrefixes(t, r.slice), Sc!SlicePrefixes(b, r.all))
  PROVE  Sc!Permits(Sc!Rel(q), r, OwnOf(b, u, r.slice), OwnOf(b, u, r.all))
<1>1. PICK slice, all, rel : slice = r.slice /\ all = r.all /\ rel = Sc!Rel(q)
  OBVIOUS
<1>2. /\ slice \subseteq Seq(Sc!Names) /\ (\A names \in slice : Sc!Fits(b, names))
      /\ all \subseteq Seq(Sc!Names) /\ (\A names \in all : Sc!Fits(b, names))
  BY <1>1
<1>3. SameLinks(b, b)
  BY DEF SameLinks
<1>4. (\E p \in Sc!SlicePrefixes(t, slice) : Sc!Below(p, rel)) => \E p \in OwnOf(b, u, slice) : Sc!Below(p, rel)
  BY <1>1, <1>2, OwnsIt
<1>5. (\E p \in Sc!SlicePrefixes(b, all) : Sc!Below(p, rel)) => \E p \in OwnOf(b, u, all) : Sc!Below(p, rel)
  BY <1>1, <1>2, <1>3, OwnsIt
<1>6. PICK own, own2, any, any2 : /\ own = Sc!SlicePrefixes(t, slice) /\ own2 = OwnOf(b, u, slice)
                                  /\ any = Sc!SlicePrefixes(b, all) /\ any2 = OwnOf(b, u, all)
  OBVIOUS
<1>7. Sc!Permits(rel, r, own, any)
  BY <1>1, <1>6
<1>8. Sc!Permits(rel, r, own2, any2)
  BY <1>4, <1>5, <1>6, <1>7, PermitsMore
<1> QED BY <1>1, <1>6, <1>8

-----------------------------------------------------------------------------
(* What a step does to the tree.                                               *)

SameDirs(t, u) == \A p : (Sc!Kind(t, p) = "dir") <=> (Sc!Kind(u, p) = "dir")

(* A file or a link put where none is a directory.                             *)
Put(t, p, node, u) ==
  /\ Sc!IsTree(u) /\ SameDirs(t, u)
  /\ Sc!Kind(u, p) = node.kind
  /\ \A q : q # p => Sc!Kind(u, q) = Sc!Kind(t, q) /\ (q \in DOMAIN t => u[q] = t[q])
  /\ Sc!Kind(t, p) # "link" /\ node.kind = "file" => Alike(t, u)

\* A file or a link put where no directory is leaves the tree sound and its directories where they
\* are.
LEMMA PutKeeps ==
  ASSUME NEW t, Sc!IsTree(t), NEW p \in Seq(Sc!Names), p # <<>>, Sc!Kind(t, SubSeq(p, 1, Len(p) - 1)) = "dir", Sc!Kind(t, p) # "dir",
         NEW node, node.kind \in {"file", "link"}, node.kind = "link" => node.to \in Sc!LinkPath,
         NEW u, u = [q \in DOMAIN t \cup {p} |-> IF q = p THEN node ELSE t[q]]
  PROVE  Put(t, p, node, u)
<1>1. DOMAIN u = DOMAIN t \cup {p} /\ u[p] = node /\ \A q \in DOMAIN t : q # p => u[q] = t[q]
  OBVIOUS
<1>2. Sc!Kind(u, p) = node.kind /\ \A q : q # p => Sc!Kind(u, q) = Sc!Kind(t, q) /\ (q \in DOMAIN t => u[q] = t[q])
  BY <1>1 DEF Sc!Kind
<1>3. SameDirs(t, u)
  BY <1>2 DEF SameDirs
<1>4. Sc!IsTree(u)
  <2>1. DOMAIN u \subseteq Seq(Sc!Names)
    BY <1>1 DEF Sc!IsTree
  <2>2. Sc!Kind(u, <<>>) = "dir" /\ Sc!Kind(u, WorkDir) = "dir"
    BY <1>3, SoundIs DEF SameDirs
  <2>3. ASSUME NEW q \in DOMAIN u
        PROVE  /\ u[q].kind \in {"dir", "file", "link"}
               /\ u[q].kind = "link" => u[q].to \in Sc!LinkPath
               /\ q # <<>> => Sc!Kind(u, Sc!Front(q)) = "dir"
    <3>1. CASE q = p
      <4>1. Sc!Kind(t, Sc!Front(p)) = "dir"
        BY DEF Sc!Front
      <4>2. Sc!Kind(u, Sc!Front(p)) = "dir"
        BY <1>3, <4>1 DEF SameDirs
      <4> QED BY <1>1, <3>1, <4>2
    <3>2. CASE q # p
      <4>1. q \in DOMAIN t /\ u[q] = t[q]
        BY <1>1, <3>2
      <4>2. /\ t[q].kind \in {"dir", "file", "link"}
            /\ t[q].kind = "link" => t[q].to \in Sc!LinkPath
            /\ q # <<>> => Sc!Kind(t, Sc!Front(q)) = "dir"
        BY <4>1 DEF Sc!IsTree
      <4>3. q # <<>> => Sc!Kind(u, Sc!Front(q)) = "dir"
        BY <1>3, <4>2 DEF SameDirs
      <4> QED BY <4>1, <4>2, <4>3
    <3> QED BY <3>1, <3>2
  <2> QED BY <2>1, <2>2, <2>3 DEF Sc!IsTree
<1>5. Sc!Kind(t, p) # "link" /\ node.kind = "file" => Alike(t, u)
  <2>1. SUFFICES ASSUME Sc!Kind(t, p) # "link", node.kind = "file" PROVE Alike(t, u)
    OBVIOUS
  <2>2. ASSUME NEW q PROVE /\ (Sc!Kind(t, q) = "dir") <=> (Sc!Kind(u, q) = "dir")
                           /\ (Sc!Kind(t, q) = "link") <=> (Sc!Kind(u, q) = "link")
                           /\ Sc!Kind(t, q) = "link" => t[q] = u[q]
    <3>1. CASE q = p
      BY <1>2, <2>1, <3>1
    <3>2. CASE q # p
      <4>1. Sc!Kind(t, q) = "link" => q \in DOMAIN t
        BY DEF Sc!Kind
      <4> QED BY <1>2, <3>2, <4>1
    <3> QED BY <3>1, <3>2
  <2> QED BY <2>2 DEF Alike
<1> QED BY <1>2, <1>3, <1>4, <1>5 DEF Put

(* A place that is no directory has one above it.                              *)
LEMMA HasParent ==
  ASSUME NEW t, Sc!IsTree(t), NEW p \in DOMAIN t, Sc!Kind(t, p) # "dir"
  PROVE  p \in Seq(Sc!Names) /\ p # <<>> /\ p # WorkDir /\ Sc!Kind(t, SubSeq(p, 1, Len(p) - 1)) = "dir"
<1>1. p # <<>> /\ p # WorkDir
  BY SoundIs
<1> QED BY <1>1, SoundIs

-----------------------------------------------------------------------------
(* Where a step reads and writes.                                              *)

\* What is not as it was when the step began.
Differs(p) == Sc!Kind(before, p) # Sc!Kind(tree, p) \/ (p \in DOMAIN before /\ before[p] # tree[p])

\* What the step may write, by what the program read before it began.
Might(p) == Sc!Permits(Sc!Rel(p), role, Sc!SlicePrefixes(before, role.slice), Sc!SlicePrefixes(before, role.all))

\* The tree until the report is saved: it hangs together, and if no shell has been at work, no directory
\* or link came or went, and the file tools have only made or changed files the step might write.
TreeKept ==
  verdict # "reported" =>
    /\ Sc!IsTree(tree)
    /\ shells = 0 => /\ Alike(before, tree)
                     /\ ~Sc!Astray => \A p : Differs(p) => Sc!Below(WorkDir, p) /\ Sc!Kind(tree, p) = "file" /\ Might(p)

StepIs == role \in Roles /\ before \in Trees /\ shells \in Nat /\ verdict \in {"running", "accepted", "blocked", "reported"}

ScopeInv == StepIs /\ TreeKept /\ StaysInScope

\* A step begins with nothing done.
LEMMA ScopeBegins == Sc!Init => ScopeInv
<1> SUFFICES ASSUME Sc!Init PROVE ScopeInv
  OBVIOUS
<1>1. StepIs
  BY DEF Sc!Init, StepIs
<1>2. before = tree /\ Sc!IsTree(tree)
  BY ScopeAssumption DEF Sc!Init
<1>3. TreeKept
  BY <1>2 DEF TreeKept, Alike, Differs
<1>4. StaysInScope
  BY DEF Sc!Init, StaysInScope, Sc!StaysInScope, Sc!ToolsStayInside, Sc!AuditSeesAll, Sc!AuditAgrees
<1> QED BY <1>1, <1>3, <1>4 DEF ScopeInv

(* What the hooks let through is inside, and no secret.                        *)
LEMMA HooksPass ==
  ASSUME Sc!IsTree(tree), NEW path, PathIs(path), Sc!InScope(tree, path), ~Sc!NamesSecret(tree, path),
         NEW w, w = Sc!Opens(tree, path), w.ok
  PROVE  w.place \in Seq(STRING) /\ Lands(tree, w.place) /\ Sc!Below(WorkDir, w.place) /\ ~Sc!Sensitive(w.place)
<1>1. PICK c : c = Sc!CanonicalPath(tree, Sc!ToolPath(path))
  OBVIOUS
<1>2. w.place \in Seq(STRING) /\ Lands(tree, w.place) /\ c = w
  BY <1>1, OpensWhatIsRead
<1>3. Sc!Below(WorkDir, c.place)
  BY <1>1 DEF Sc!InScope, Sc!IsInside
<1>4. ~Sc!Sensitive(c.place)
  BY <1>1, <1>2 DEF Sc!NamesSecret
<1> QED BY <1>2, <1>3, <1>4

\* A call that only reads opens what is inside.
LEMMA ReadingKeeps ==
  ASSUME ScopeInv, verdict = "running", tree' = tree, UNCHANGED <<before, role, shells, verdict>>,
         \A o \in opened' : Sc!Below(WorkDir, o.at) /\ o.tool # "Write" /\ (o.tool = "Read" => ~Sc!Sensitive(o.at))
  PROVE  ScopeInv'
<1>1. Sc!ToolsStayInside'
  BY DEF Sc!ToolsStayInside
<1>2. StaysInScope'
  BY <1>1 DEF StaysInScope, Sc!StaysInScope, Sc!AuditSeesAll, Sc!AuditAgrees
<1>3. StepIs' /\ TreeKept'
  BY DEF ScopeInv, StepIs, TreeKept, Differs, Might, Sc!Astray
<1> QED BY <1>2, <1>3 DEF ScopeInv

\* One lemma per operation.
LEMMA ReadKeeps ==
  ASSUME ScopeInv, verdict = "running", NEW path, PathIs(path), Sc!Read(path), UNCHANGED <<before, role, shells, verdict>>
  PROVE  ScopeInv'
<1>1. PICK w : w = Sc!Opens(tree, path)
  OBVIOUS
<1>2. w.ok /\ opened' = {[tool |-> "Read", at |-> w.place]} /\ tree' = tree /\ Sc!InScope(tree, path) /\ ~Sc!NamesSecret(tree, path)
  BY <1>1 DEF Sc!Read
<1>3. Sc!IsTree(tree)
  BY DEF ScopeInv, TreeKept
<1>4. Sc!Below(WorkDir, w.place) /\ ~Sc!Sensitive(w.place)
  BY <1>1, <1>2, <1>3, HooksPass
<1>5. ASSUME NEW o \in opened' PROVE o.at = w.place /\ o.tool = "Read"
  BY <1>2, <1>5
<1>6. \A o \in opened' : Sc!Below(WorkDir, o.at) /\ o.tool # "Write" /\ (o.tool = "Read" => ~Sc!Sensitive(o.at))
  BY <1>4, <1>5
<1> QED BY <1>2, <1>6, ReadingKeeps

(* A slice's own places, as the step found them.                               *)
LEMMA WriterMay ==
  ASSUME StepIs, ~Sc!Astray, NEW t, Sc!IsTree(t), NEW u, Sc!IsTree(u), Alike(before, t), Alike(before, u),
         NEW q \in Seq(Sc!Names), Sc!Below(WorkDir, q), Sc!Kind(t, SubSeq(q, 1, Len(q) - 1)) = "dir", NEW all,
         Sc!Permits(Sc!Rel(q), role, Sc!SlicePrefixes(t, role.slice), all)
  PROVE  Sc!Permits(Sc!Rel(q), role, Sc!SlicePrefixes(u, role.slice), all)
<1>1. PICK r, b : r = role /\ b = before
  OBVIOUS
<1>2. /\ Sc!IsTree(b) /\ r.slice \subseteq Seq(Sc!Names) /\ (\A names \in r.slice : Sc!Fits(b, names))
      /\ r.scope \in {"none", "slice", "tests", "docs", "shared"}
  BY <1>1, ScopeAssumption DEF StepIs, Sc!Astray
<1>3. Alike(b, t) /\ Alike(b, u) /\ Sc!Permits(Sc!Rel(q), r, Sc!SlicePrefixes(t, r.slice), all)
  BY <1>1
<1>4. Sc!Permits(Sc!Rel(q), r, Sc!SlicePrefixes(u, r.slice), all)
  BY <1>2, <1>3, PermitsStays
<1> QED BY <1>1, <1>4

LEMMA WriteKeeps ==
  ASSUME ScopeInv, verdict = "running", NEW path, PathIs(path), Sc!Write(path), UNCHANGED <<before, role, shells, verdict>>
  PROVE  ScopeInv'
<1>1. PICK w, p : w = Sc!Opens(tree, path) /\ p = w.place
  OBVIOUS
<1>2. PICK node : node = Sc!Newer(p)
  OBVIOUS
<1>3. /\ w.ok /\ opened' = {[tool |-> "Write", at |-> p]} /\ Sc!Kind(tree, p) \in {"file", "missing"}
      /\ tree' = [q \in DOMAIN tree \cup {p} |-> IF q = p THEN node ELSE tree[q]]
      /\ Sc!InScope(tree, path) /\ ~Sc!NamesSecret(tree, path) /\ Sc!DecideWrite(tree, path, role)
  BY <1>1, <1>2 DEF Sc!Write, Sc!With
<1>4. Sc!IsTree(tree) /\ (shells = 0 => Alike(before, tree)) /\ StepIs /\ Sc!IsTree(before)
  BY ScopeAssumption DEF ScopeInv, TreeKept, StepIs
<1>5. p \in Seq(STRING) /\ Lands(tree, p) /\ Sc!Below(WorkDir, p) /\ ~Sc!Sensitive(p) /\ Sc!CanonicalPath(tree, Sc!ToolPath(path)) = w
  BY <1>1, <1>3, <1>4, HooksPass, OpensWhatIsRead
<1>6. p \in Seq(Sc!Names) /\ p # <<>> /\ Sc!Kind(tree, SubSeq(p, 1, Len(p) - 1)) = "dir"
  <2>1. CASE Sc!Kind(tree, p) = "missing"
    BY <1>5, <2>1 DEF Lands
  <2>2. CASE Sc!Kind(tree, p) = "file"
    <3>1. p \in DOMAIN tree /\ Sc!Kind(tree, p) # "dir"
      BY <2>2 DEF Sc!Kind
    <3> QED BY <1>4, <3>1, HasParent
  <2> QED BY <1>3, <2>1, <2>2
<1>7. node.kind = "file"
  BY <1>2 DEF Sc!Newer, Sc!File
<1>8. /\ Sc!IsTree(tree') /\ Sc!Kind(tree', p) = "file" /\ p \in DOMAIN tree'
      /\ \A q : q # p => Sc!Kind(tree', q) = Sc!Kind(tree, q) /\ (q \in DOMAIN tree => tree'[q] = tree[q])
      /\ Alike(tree, tree')
  <2>1. PICK t, u : t = tree /\ u = tree'
    OBVIOUS
  <2>2. Sc!IsTree(t) /\ Sc!Kind(t, SubSeq(p, 1, Len(p) - 1)) = "dir" /\ Sc!Kind(t, p) # "dir" /\ Sc!Kind(t, p) # "link"
    BY <1>3, <1>4, <1>6, <2>1
  <2>3. node.kind \in {"file", "link"} /\ (node.kind = "link" => node.to \in Sc!LinkPath)
    BY <1>7
  <2>4. u = [q \in DOMAIN t \cup {p} |-> IF q = p THEN node ELSE t[q]]
    BY <1>3, <2>1
  <2>5. Put(t, p, node, u)
    BY ONLY <1>6, <2>2, <2>3, <2>4, PutKeeps
  <2>6. p \in DOMAIN u
    BY <2>4
  <2> QED BY <1>7, <2>1, <2>2, <2>5, <2>6 DEF Put
<1>9. Sc!Permits(Sc!Rel(p), role, Sc!SlicePrefixes(tree, role.slice), Sc!SlicePrefixes(before, role.all))
  BY <1>1, <1>3, <1>5 DEF Sc!DecideWrite
<1>10. ASSUME shells = 0, ~Sc!Astray PROVE Might(p)
  <2>1. PICK all : all = Sc!SlicePrefixes(before, role.all)
    OBVIOUS
  <2>2. Alike(before, before) /\ Alike(before, tree)
    BY <1>4, <1>10 DEF Alike
  <2>3. PICK t, u : t = tree /\ u = before
    OBVIOUS
  <2>4. /\ Sc!IsTree(t) /\ Sc!IsTree(u) /\ Alike(before, t) /\ Alike(before, u) /\ Sc!Kind(t, SubSeq(p, 1, Len(p) - 1)) = "dir"
        /\ Sc!Permits(Sc!Rel(p), role, Sc!SlicePrefixes(t, role.slice), all)
    BY <1>4, <1>6, <1>9, <2>1, <2>2, <2>3
  <2>5. Sc!Permits(Sc!Rel(p), role, Sc!SlicePrefixes(u, role.slice), all)
    BY <1>4, <1>5, <1>6, <1>10, <2>4, WriterMay
  <2> QED BY <2>1, <2>3, <2>5 DEF Might
<1>11. Sc!ToolsStayInside'
  <2>1. ASSUME NEW o \in opened' PROVE o.at = p /\ o.tool = "Write"
    BY <1>3, <2>1
  <2>2. ASSUME ~Sc!Relinked', ~Sc!Astray' PROVE Sc!MayWrite(p)'
    <3>1. PICK b, t, u, r : b = before /\ t = tree /\ u = tree' /\ r = role
      OBVIOUS
    <3>2. Sc!IsTree(b) /\ Sc!IsTree(t) /\ Sc!IsTree(u) /\ Alike(t, u) /\ (p \in DOMAIN b \/ p \in DOMAIN u)
      BY <1>4, <1>8, <3>1
    <3>3. Sc!Links(b) = Sc!Links(u)
      BY <2>2, <3>1 DEF Sc!Relinked
    <3>4. SameLinks(b, u)
      BY <3>3, LinksSame
    <3>5. SameLinks(b, t)
      BY <3>2, <3>4 DEF SameLinks, Alike
    <3>6. /\ r.scope \in {"none", "slice", "tests", "docs", "shared"} /\ r.slice \cup r.all \subseteq Seq(Sc!Names)
          /\ \A names \in r.slice \cup r.all : Sc!Fits(b, names)
      BY <1>4, <2>2, <3>1, ScopeAssumption DEF StepIs, Sc!Astray
    <3>7. Sc!Permits(Sc!Rel(p), r, Sc!SlicePrefixes(t, r.slice), Sc!SlicePrefixes(b, r.all))
      BY <1>9, <3>1
    <3>8. Sc!Permits(Sc!Rel(p), r, OwnOf(b, u, r.slice), OwnOf(b, u, r.all))
      BY <1>5, <3>2, <3>4, <3>5, <3>6, <3>7, PermitsIts
    <3> QED BY <3>1, <3>8 DEF Sc!MayWrite, Sc!Own, OwnOf
  <2> QED BY <1>5, <2>1, <2>2 DEF Sc!ToolsStayInside
<1>12. StaysInScope'
  BY <1>11 DEF StaysInScope, Sc!StaysInScope, Sc!AuditSeesAll, Sc!AuditAgrees
<1>13. StepIs'
  BY DEF ScopeInv, StepIs
<1>14. TreeKept'
  <2>1. Sc!IsTree(tree')
    BY <1>8
  <2>2. shells = 0 => Alike(before, tree')
    BY <1>4, <1>8, AlikeOn
  <2>3. ASSUME shells = 0, ~Sc!Astray, NEW q, Differs(q)' PROVE Sc!Below(WorkDir, q) /\ Sc!Kind(tree', q) = "file" /\ Might(q)
    <3>1. CASE q = p
      BY <1>5, <1>8, <1>10, <2>3, <3>1
    <3>2. CASE q # p
      <4>1. Sc!Kind(tree', q) = Sc!Kind(tree, q) /\ (q \in DOMAIN tree => tree'[q] = tree[q])
        BY <1>8, <3>2
      <4>2. q \in DOMAIN before /\ q \notin DOMAIN tree => Sc!Kind(before, q) # Sc!Kind(tree, q)
        BY <1>4, SoundIs DEF Sc!Kind
      <4>3. Differs(q)
        BY <2>3, <4>1, <4>2 DEF Differs
      <4> QED BY <2>3, <4>1, <4>3 DEF ScopeInv, TreeKept
    <3> QED BY <3>1, <3>2
  <2>4. Sc!Astray' = Sc!Astray /\ \A q : Might(q)' = Might(q)
    BY DEF Sc!Astray, Might
  <2> QED BY <2>1, <2>2, <2>3, <2>4 DEF TreeKept
<1> QED BY <1>12, <1>13, <1>14 DEF ScopeInv

(* Where a search begins.                                                      *)
LEMMA SearchesInside ==
  ASSUME Sc!IsTree(tree), NEW path, path = Sc!NoPath \/ PathIs(path), Sc!Searches(path), NEW w, w = Sc!Searched(path), w.ok
  PROVE  w.place \in Seq(STRING) /\ Sc!Below(WorkDir, w.place)
<1>0. WorkDir \in Seq(STRING)
  BY NamesAre, ScopeAssumption
<1>1. CASE path = Sc!NoPath
  <2>1. w = Sc!At(WorkDir)
    BY <1>1 DEF Sc!Searched
  <2>2. w.place = WorkDir
    <3>1. \A p : Sc!At(p).place = p
      BY DEF Sc!At
    <3> QED BY ONLY <2>1, <3>1
  <2> QED BY <1>0, <2>2, BelowIs
<1>2. CASE path # Sc!NoPath
  <2>1. w = Sc!Opens(tree, path) /\ Sc!InScope(tree, path) /\ ~Sc!NamesSecret(tree, path)
    BY <1>2 DEF Sc!Searched, Sc!Searches
  <2> QED BY <1>2, <2>1, HooksPass
<1> QED BY <1>1, <1>2

LEMMA GrepKeeps ==
  ASSUME ScopeInv, verdict = "running", NEW path, path = Sc!NoPath \/ PathIs(path), Sc!Grep(path),
         UNCHANGED <<before, role, shells, verdict>>
  PROVE  ScopeInv'
<1>0. Sc!IsTree(tree) /\ WorkDir \in Seq(STRING) /\ \A p \in DOMAIN tree : p \in Seq(STRING)
  BY NamesAre, SoundIs, ScopeAssumption DEF ScopeInv, TreeKept
<1>1. PICK w : w = Sc!Searched(path)
  OBVIOUS
<1>2. /\ w.ok /\ tree' = tree /\ Sc!Searches(path)
      /\ opened' = {[tool |-> "Grep", at |-> p] : p \in {p \in DOMAIN tree : Sc!Below(w.place, p)}}
  BY <1>1 DEF Sc!Grep
<1>3. w.place \in Seq(STRING) /\ Sc!Below(WorkDir, w.place)
  BY <1>0, <1>1, <1>2, SearchesInside
<1>4. ASSUME NEW o \in opened' PROVE o.tool = "Grep" /\ Sc!Below(WorkDir, o.at)
  <2>1. PICK p \in DOMAIN tree : o = [tool |-> "Grep", at |-> p] /\ Sc!Below(w.place, p)
    BY <1>2, <1>4
  <2>2. Sc!Below(WorkDir, p)
    BY <1>0, <1>3, <2>1, BelowMore
  <2> QED BY <2>1, <2>2
<1>5. \A o \in opened' : Sc!Below(WorkDir, o.at) /\ o.tool # "Write" /\ (o.tool = "Read" => ~Sc!Sensitive(o.at))
  BY <1>4
<1> QED BY <1>2, <1>5, ReadingKeeps

LEMMA ListsKeep ==
  ASSUME ScopeInv, verdict = "running", NEW path, path = Sc!NoPath \/ PathIs(path), NEW pattern, \A alt \in pattern : PathIs(alt),
         Sc!Lists(path, pattern), UNCHANGED <<before, role, shells, verdict>>
  PROVE  ScopeInv'
<1>0. Sc!IsTree(tree) /\ WorkDir \in Seq(STRING) /\ \A p \in DOMAIN tree : p \in Seq(STRING)
  BY NamesAre, SoundIs, ScopeAssumption DEF ScopeInv, TreeKept
<1>1. PICK base : base = Sc!Searched(path)
  OBVIOUS
<1>2. base.ok /\ tree' = tree /\ Sc!Searches(path) /\ Sc!PatternStays(tree, pattern)
  BY <1>1 DEF Sc!Lists
<1>3. base.place \in Seq(STRING) /\ Sc!Below(WorkDir, base.place)
  BY <1>0, <1>1, <1>2, SearchesInside
<1>4. ASSUME NEW alt \in pattern, alt.form # "relative", NEW d, d = Sc!Opens(tree, alt), d.ok
      PROVE  d.place \in Seq(STRING) /\ Sc!Below(WorkDir, d.place)
  <2>1. d.place \in Seq(STRING) /\ Sc!CanonicalPath(tree, Sc!ToolPath(alt)) = d
    BY <1>0, <1>4, OpensWhatIsRead
  <2>2. Sc!ToolPath(alt).form = "absolute"
    <3>1. alt.form = "absolute" \/ alt.form = "home"
      BY <1>2, <1>4 DEF Sc!PatternStays, Sc!Placed, PathIs
    <3> QED BY <3>1 DEF Sc!ToolPath, Sc!Absolute
  <2>3. Sc!IsInside(tree, Sc!ToolPath(alt))
    BY <1>2, <2>2 DEF Sc!PatternStays
  <2> QED BY <2>1, <2>3 DEF Sc!IsInside
<1>5. ASSUME NEW alt \in pattern, alt.form = "relative" PROVE base.place \o alt.names \in Seq(STRING) /\ Sc!Below(WorkDir, base.place \o alt.names)
  <2>1. PICK a, b, c : a = base.place /\ b = alt.names /\ c = a \o b
    OBVIOUS
  <2>2. a \in Seq(STRING) /\ b \in Seq(STRING) /\ Sc!Below(WorkDir, a)
    BY <1>3, <2>1 DEF PathIs
  <2>3. c \in Seq(STRING) /\ Sc!Below(a, c)
    BY <2>1, <2>2, Over
  <2>4. Sc!Below(WorkDir, c)
    BY <1>0, <2>2, <2>3, BelowMore
  <2> QED BY <2>1, <2>3, <2>4
<1>6. ASSUME NEW o \in opened' PROVE o.tool = "Glob" /\ Sc!Below(WorkDir, o.at)
  <2>1. PICK p \in DOMAIN tree :
          /\ o = [tool |-> "Glob", at |-> p]
          /\ \/ \E d \in {Sc!Opens(tree, alt) : alt \in {a \in pattern : a.form # "relative"}} : d.ok /\ Sc!Below(d.place, p)
             \/ \E alt \in pattern : alt.form = "relative" /\ Sc!Below(base.place \o alt.names, p)
    BY <1>1, <1>6 DEF Sc!Lists
  <2>2. PICK top : top \in Seq(STRING) /\ Sc!Below(WorkDir, top) /\ Sc!Below(top, p)
    BY <1>4, <1>5, <2>1
  <2>3. Sc!Below(WorkDir, p)
    BY <1>0, <2>2, BelowMore
  <2> QED BY <2>1, <2>3
<1>7. \A o \in opened' : Sc!Below(WorkDir, o.at) /\ o.tool # "Write" /\ (o.tool = "Read" => ~Sc!Sensitive(o.at))
  BY <1>6
<1> QED BY <1>2, <1>7, ReadingKeeps

\* The shell leaves a tree.
LEMMA BashKeeps == ScopeInv /\ Sc!Bash => ScopeInv'
<1> SUFFICES ASSUME ScopeInv, Sc!Bash PROVE ScopeInv'
  OBVIOUS
<1>1. /\ verdict = "running" /\ shells' = shells + 1 /\ opened' = {} /\ Sc!IsTree(tree')
      /\ UNCHANGED <<before, role, calls, verdict>>
  BY DEF Sc!Bash
<1>2. StepIs' /\ shells' # 0
  BY <1>1 DEF ScopeInv, StepIs
<1>3. TreeKept'
  BY <1>1, <1>2 DEF TreeKept
<1>4. StaysInScope'
  BY <1>1 DEF StaysInScope, Sc!StaysInScope, Sc!ToolsStayInside, Sc!AuditSeesAll, Sc!AuditAgrees
<1> QED BY <1>2, <1>3, <1>4 DEF ScopeInv

(* What the audit looks at is read as the place it is.                         *)
LEMMA AuditReads ==
  ASSUME ScopeInv, verdict # "reported", shells = 0, NEW p \in Sc!Changed
  PROVE  /\ p \in Seq(Sc!Names) /\ Sc!Below(WorkDir, p) /\ Differs(p)
         /\ Sc!Kind(tree, SubSeq(p, 1, Len(p) - 1)) = "dir" /\ Sc!Kind(before, SubSeq(p, 1, Len(p) - 1)) = "dir"
         /\ Sc!DecideWrite(tree, Sc!Relative(Sc!Rel(p)), role)
              <=> Sc!Permits(Sc!Rel(p), role, Sc!SlicePrefixes(tree, role.slice), Sc!SlicePrefixes(before, role.all))
<1>1. Sc!IsTree(tree) /\ Alike(before, tree) /\ Sc!IsTree(before)
  BY ScopeAssumption DEF ScopeInv, TreeKept, StepIs
<1>2. Differs(p) /\ (p \in Sc!Files(before) \/ p \in Sc!Files(tree))
  BY DEF Sc!Changed, Differs
<1>3. /\ Sc!Below(WorkDir, p)
      /\ \/ p \in DOMAIN before /\ Sc!Kind(before, p) # "dir"
         \/ p \in DOMAIN tree /\ Sc!Kind(tree, p) # "dir"
  BY <1>2 DEF Sc!Files, Sc!Kind
<1>4. /\ p \in Seq(Sc!Names) /\ p # WorkDir
      /\ Sc!Kind(tree, SubSeq(p, 1, Len(p) - 1)) = "dir" /\ Sc!Kind(before, SubSeq(p, 1, Len(p) - 1)) = "dir"
  <2>1. CASE p \in DOMAIN before /\ Sc!Kind(before, p) # "dir"
    <3>1. PICK t : t = before
      OBVIOUS
    <3>2. p \in Seq(Sc!Names) /\ p # WorkDir /\ Sc!Kind(t, SubSeq(p, 1, Len(p) - 1)) = "dir"
      BY <1>1, <2>1, <3>1, HasParent
    <3> QED BY <1>1, <3>1, <3>2 DEF Alike
  <2>2. CASE p \in DOMAIN tree /\ Sc!Kind(tree, p) # "dir"
    <3>1. PICK t : t = tree
      OBVIOUS
    <3>2. p \in Seq(Sc!Names) /\ p # WorkDir /\ Sc!Kind(t, SubSeq(p, 1, Len(p) - 1)) = "dir"
      BY <1>1, <2>2, <3>1, HasParent
    <3> QED BY <1>1, <3>1, <3>2 DEF Alike
  <2> QED BY <1>3, <2>1, <2>2
<1>5. Sc!Kind(tree, p) # "link"
  <2>1. SUFFICES ASSUME Sc!Kind(tree, p) = "link" PROVE FALSE
    OBVIOUS
  <2>2. Sc!Kind(before, p) = "link" /\ before[p] = tree[p]
    BY <1>1, <2>1 DEF Alike
  <2> QED BY <1>2, <2>1, <2>2 DEF Differs
<1>6. Sc!Canon(tree, WorkDir, Sc!Rel(p)) = Sc!At(p)
  <2>1. PICK t : t = tree
    OBVIOUS
  <2>2. Sc!IsTree(t) /\ Sc!Kind(t, SubSeq(p, 1, Len(p) - 1)) = "dir" /\ Sc!Kind(t, p) # "link"
    BY <1>1, <1>4, <1>5, <2>1
  <2>3. Sc!Canon(t, WorkDir, Sc!Rel(p)) = Sc!At(p)
    BY <1>3, <1>4, <2>2, ReadsAFile
  <2> QED BY <2>1, <2>3
<1>7. PICK path : path = Sc!Relative(Sc!Rel(p))
  OBVIOUS
<1>8. path.form = "relative" /\ path.names = Sc!Rel(p)
  BY <1>7 DEF Sc!Relative
<1>9. Sc!Placed(path) /\ Sc!CanonicalPath(tree, Sc!ToolPath(path)) = Sc!At(p)
  BY <1>6, <1>8 DEF Sc!Placed, Sc!ToolPath, Sc!CanonicalPath, Sc!From
<1>10. PICK c : c = Sc!CanonicalPath(tree, Sc!ToolPath(path))
  OBVIOUS
<1>11. c.ok /\ c.place = p
  <2>1. Sc!At(p).ok /\ Sc!At(p).place = p
    BY DEF Sc!At
  <2> QED BY <1>9, <1>10, <2>1
<1>12. Sc!DecideWrite(tree, path, role)
         <=> Sc!Permits(Sc!Rel(p), role, Sc!SlicePrefixes(tree, role.slice), Sc!SlicePrefixes(before, role.all))
  BY <1>3, <1>9, <1>10, <1>11 DEF Sc!DecideWrite
<1> QED BY <1>2, <1>3, <1>4, <1>7, <1>12

(* So it says of a change what the writer's own hook did.                      *)
LEMMA AuditJudges ==
  ASSUME ScopeInv, verdict # "reported", shells = 0, ~Sc!Astray, NEW p \in Sc!Changed
  PROVE  Sc!DecideWrite(tree, Sc!Relative(Sc!Rel(p)), role) <=> Might(p)
<1>1. Sc!IsTree(tree) /\ Alike(before, tree) /\ Alike(before, before) /\ Sc!IsTree(before) /\ StepIs
  BY ScopeAssumption DEF ScopeInv, TreeKept, StepIs, Alike
<1>2. PICK t, b, all, rel, d : /\ t = tree /\ b = before /\ all = Sc!SlicePrefixes(before, role.all) /\ rel = Sc!Rel(p)
                               /\ d = Sc!Relative(Sc!Rel(p))
  OBVIOUS
<1>3. /\ p \in Seq(Sc!Names) /\ Sc!Below(WorkDir, p)
      /\ Sc!Kind(t, SubSeq(p, 1, Len(p) - 1)) = "dir" /\ Sc!Kind(b, SubSeq(p, 1, Len(p) - 1)) = "dir"
      /\ Sc!DecideWrite(tree, d, role) <=> Sc!Permits(rel, role, Sc!SlicePrefixes(t, role.slice), all)
  BY <1>2, AuditReads
<1>4. Sc!IsTree(t) /\ Sc!IsTree(b) /\ Alike(before, t) /\ Alike(before, b)
  BY <1>1, <1>2
<1>5. Sc!Permits(Sc!Rel(p), role, Sc!SlicePrefixes(t, role.slice), all) => Sc!Permits(Sc!Rel(p), role, Sc!SlicePrefixes(b, role.slice), all)
  BY <1>1, <1>3, <1>4, WriterMay
<1>6. Sc!Permits(Sc!Rel(p), role, Sc!SlicePrefixes(b, role.slice), all) => Sc!Permits(Sc!Rel(p), role, Sc!SlicePrefixes(t, role.slice), all)
  BY <1>1, <1>3, <1>4, WriterMay
<1>7. Might(p) <=> Sc!Permits(Sc!Rel(p), role, Sc!SlicePrefixes(b, role.slice), all)
  BY <1>2 DEF Might
<1> QED BY <1>2, <1>3, <1>5, <1>6, <1>7

(* And what it lets pass is the step's to write, whatever a shell has done.     *)
LEMMA AuditSees ==
  ASSUME ScopeInv, verdict # "reported", ~Sc!Relinked, ~Sc!Astray, NEW p \in Sc!Changed,
         Sc!DecideWrite(tree, Sc!Relative(Sc!Rel(p)), role)
  PROVE  Sc!MayWrite(p)
<1>1. PICK b, t, r : b = before /\ t = tree /\ r = role
  OBVIOUS
<1>2. Sc!IsTree(b) /\ Sc!IsTree(t) /\ StepIs
  BY <1>1, ScopeAssumption DEF ScopeInv, TreeKept, StepIs
<1>3. SameLinks(b, t)
  <2>1. Sc!Links(b) = Sc!Links(t)
    BY <1>1 DEF Sc!Relinked
  <2> QED BY <2>1, LinksSame
<1>4. Sc!Kind(b, p) # Sc!Kind(t, p) \/ (p \in DOMAIN b /\ b[p] # t[p])
  BY <1>1 DEF Sc!Changed
<1>5. PICK v \in {b, t} : p \in DOMAIN v /\ Sc!Kind(v, p) # "dir" /\ Sc!Below(WorkDir, p)
  BY <1>1 DEF Sc!Changed, Sc!Files, Sc!Kind
<1>6. Sc!IsTree(v) /\ SameLinks(v, t)
  BY <1>2, <1>3 DEF SameLinks
<1>7. p \in Seq(Sc!Names) /\ p \in Seq(STRING) /\ p # WorkDir /\ Len(p) \in Nat
  <2>1. p \in Seq(Sc!Names) /\ p # WorkDir
    BY <1>5, <1>6, HasParent
  <2> QED BY <2>1, NamesAre
<1>8. Plain(t, p)
  <2>1. SUFFICES ASSUME NEW i \in 1..Len(p) PROVE Sc!Kind(t, SubSeq(p, 1, i)) # "link"
    BY DEF Plain
  <2>2. CASE i = Len(p)
    <3>1. SubSeq(p, 1, i) = p
      BY <1>7, <2>2, UpToHere
    <3>2. Sc!Kind(t, p) = "link" => Sc!Kind(b, p) = "link" /\ b[p] = t[p]
      BY <1>3 DEF SameLinks
    <3> QED BY <1>4, <3>1, <3>2
  <2>3. CASE i # Len(p)
    <3>1. i \in 0..(Len(p) - 1)
      BY <1>7, <2>1, <2>3
    <3>2. Sc!Kind(v, SubSeq(p, 1, i)) = "dir"
      BY <1>5, <1>6, <3>1, Above
    <3> QED BY <1>6, <3>2 DEF SameLinks
  <2> QED BY <2>2, <2>3
<1>9. PICK names, path, c : names = Sc!Rel(p) /\ path = Sc!Relative(names) /\ c = Sc!CanonicalPath(tree, Sc!ToolPath(path))
  OBVIOUS
<1>10. names \in Seq(Sc!Names) /\ WorkDir \o names = p
  <2>1. WorkDir \in Seq(Sc!Names)
    BY ScopeAssumption
  <2> QED BY <1>5, <1>7, <1>9, <2>1, RelIs
<1>11. c = Sc!Canon(t, WorkDir, names)
  <2>1. path.form = "relative" /\ path.names = names
    BY <1>9 DEF Sc!Relative
  <2> QED BY <1>1, <1>9, <2>1 DEF Sc!ToolPath, Sc!CanonicalPath, Sc!From
<1>12. c.ok /\ Sc!Permits(Sc!Rel(c.place), role, Sc!SlicePrefixes(tree, role.slice), Sc!SlicePrefixes(before, role.all))
  BY <1>9 DEF Sc!DecideWrite
<1>13. c.place = p
  <2>1. Sc!Canon(t, WorkDir, names).ok /\ Plain(t, WorkDir \o names)
    BY <1>8, <1>10, <1>11, <1>12
  <2> QED BY <1>2, <1>10, <1>11, <2>1, CanonAsWritten
<1>14. Sc!Permits(Sc!Rel(p), r, Sc!SlicePrefixes(t, r.slice), Sc!SlicePrefixes(b, r.all))
  BY <1>1, <1>12, <1>13
<1>15. /\ r.scope \in {"none", "slice", "tests", "docs", "shared"} /\ r.slice \cup r.all \subseteq Seq(Sc!Names)
       /\ \A names1 \in r.slice \cup r.all : Sc!Fits(b, names1)
  BY <1>1, <1>2, ScopeAssumption DEF StepIs, Sc!Astray
<1>16. p \in DOMAIN b \/ p \in DOMAIN t
  BY <1>5
<1>17. Sc!Permits(Sc!Rel(p), r, OwnOf(b, t, r.slice), OwnOf(b, t, r.all))
  BY <1>2, <1>3, <1>5, <1>14, <1>15, <1>16, PermitsIts
<1> QED BY <1>1, <1>17 DEF Sc!MayWrite, Sc!Own, OwnOf

LEMMA AuditKeeps == ScopeInv /\ Sc!Audit => ScopeInv'
<1> SUFFICES ASSUME ScopeInv, Sc!Audit PROVE ScopeInv'
  OBVIOUS
<1>1. /\ verdict = "running" /\ verdict' = IF Sc!Blocking = {} THEN "accepted" ELSE "blocked"
      /\ UNCHANGED <<tree, before, role, opened, calls, shells>>
  BY DEF Sc!Audit
<1>2. StepIs' /\ TreeKept'
  BY <1>1 DEF ScopeInv, StepIs, TreeKept, Differs, Might, Sc!Astray
<1>3. Sc!Relinked' = Sc!Relinked /\ Sc!Astray' = Sc!Astray /\ \A q : Sc!MayWrite(q)' = Sc!MayWrite(q)
  BY <1>1 DEF Sc!MayWrite, Sc!Own, Sc!Relinked, Sc!Astray
<1>4. Sc!ToolsStayInside'
  BY <1>1, <1>3 DEF ScopeInv, StaysInScope, Sc!StaysInScope, Sc!ToolsStayInside
<1>5. Sc!AuditSeesAll'
  <2>1. SUFFICES ASSUME verdict' = "accepted", ~Sc!Relinked, ~Sc!Astray, NEW p \in Sc!Changed
                 PROVE  IF role.scope = "none" THEN p \notin Sc!Files(before) ELSE Sc!MayWrite(p)
    BY <1>1, <1>3 DEF Sc!AuditSeesAll, Sc!Changed
  <2>2. Sc!Blocking = {}
    BY <1>1, <2>1
  <2>3. ~(Sc!Truncated(before) \/ Sc!Truncated(tree))
    BY <2>2 DEF Sc!Blocking
  <2>4. CASE role.scope = "none"
    BY <2>1, <2>2, <2>3, <2>4 DEF Sc!Blocking
  <2>5. CASE role.scope # "none"
    <3>1. Sc!DecideWrite(tree, Sc!Relative(Sc!Rel(p)), role)
      BY <2>1, <2>2, <2>3, <2>5 DEF Sc!Blocking
    <3> QED BY <1>1, <2>1, <2>5, <3>1, AuditSees
  <2> QED BY <2>4, <2>5
<1>6. Sc!AuditAgrees'
  <2>1. SUFFICES ASSUME verdict' = "blocked", shells = 0, ~Sc!Astray, ~(Sc!Truncated(before) \/ Sc!Truncated(tree)) PROVE FALSE
    BY <1>1, <1>3 DEF Sc!AuditAgrees, Sc!Truncated, Sc!Files
  <2>3. \A p \in Sc!Changed : Might(p) /\ Sc!DecideWrite(tree, Sc!Relative(Sc!Rel(p)), role)
    <3> TAKE p \in Sc!Changed
    <3>1. Might(p)
      BY <1>1, <2>1, AuditReads DEF ScopeInv, TreeKept
    <3> QED BY <1>1, <2>1, <3>1, AuditJudges
  <2>4. Sc!Blocking # {}
    BY <1>1, <2>1
  <2>5. CASE role.scope = "none"
    <3>1. \A p : ~Might(p)
      BY <2>5 DEF Might, Sc!Permits
    <3>2. Sc!Changed = {}
      BY <2>3, <3>1
    <3> QED BY <2>1, <2>4, <2>5, <3>2 DEF Sc!Blocking
  <2>6. CASE role.scope # "none"
    BY <2>1, <2>3, <2>4, <2>6 DEF Sc!Blocking
  <2> QED BY <2>5, <2>6
<1>7. StaysInScope'
  BY <1>4, <1>5, <1>6 DEF StaysInScope, Sc!StaysInScope
<1> QED BY <1>2, <1>7 DEF ScopeInv

\* A directory that is made where there was nothing.
Made(t, dir, u) == dir \notin DOMAIN t /\ u = Sc!With(t, dir, Sc!Dir)

(* The directory the report goes to, when it has just been made, is where its  *)
(* path says, and so is the report.                                            *)
LEMMA NewDirLands ==
  ASSUME NEW t, Sc!IsTree(t), NEW names \in Seq(Sc!Names), Len(names) = 2, NEW dir, dir = WorkDir \o Sc!Front(names),
         NEW u, Made(t, dir, u)
  PROVE  Sc!Walk(u, WorkDir, names) = Sc!At(WorkDir \o names)
<1>0. /\ names \in Seq(STRING) /\ names \in Spots /\ MaxHops \in Nat
      /\ WorkDir \in Seq(STRING) /\ WorkDir \in Spots /\ Len(WorkDir) \in Nat
  BY NamesAre, ScopeAssumption DEF Spots
<1>s. WorkDir \in Seq(STRING) /\ names \in Seq(STRING)
  BY <1>0
<1>o. /\ WorkDir \o names \in Seq(STRING) /\ Len(WorkDir \o names) = Len(WorkDir) + Len(names)
      /\ WorkDir \o SubSeq(names, 1, 0) = WorkDir /\ WorkDir \o SubSeq(names, 1, Len(names)) = WorkDir \o names
      /\ \A i \in 0..Len(names) : WorkDir \o SubSeq(names, 1, i) = SubSeq(WorkDir \o names, 1, Len(WorkDir) + i)
  BY ONLY <1>s, Over
<1>1. PICK reads, k, n, base : reads = FALSE /\ k = Sc!Walks(u) /\ n = MaxHops + 1 /\ base = WorkDir
  OBVIOUS
<1>2. PICK pl : pl = [i \in 0..Len(names) |-> WorkDir \o SubSeq(names, 1, i)]
  OBVIOUS
<1>3. /\ \A i \in 0..Len(names) : pl[i] = WorkDir \o SubSeq(names, 1, i)
      /\ pl[0] = WorkDir /\ pl[1] = dir /\ pl[2] = WorkDir \o names
  <2>1. \A i \in 0..Len(names) : pl[i] = WorkDir \o SubSeq(names, 1, i)
    BY <1>2
  <2>2. 0 \in 0..Len(names) /\ 1 \in 0..Len(names) /\ 2 \in 0..Len(names)
    BY <1>0
  <2>3. dir = WorkDir \o SubSeq(names, 1, 1)
    BY <1>0 DEF Sc!Front
  <2> QED BY <1>o, <2>1, <2>2, <2>3
<1>4. \A i \in 1..2 : Append(pl[i - 1], names[i]) = pl[i] /\ names[i] \in STRING /\ names[i] # ".."
  <2> TAKE i \in 1..2
  <2>1. i \in 1..Len(names) /\ i \in 0..Len(names) /\ i - 1 \in 0..Len(names)
    BY <1>0
  <2>2. Append(WorkDir \o SubSeq(names, 1, i - 1), names[i]) = WorkDir \o SubSeq(names, 1, i)
    BY ONLY <1>s, <2>1, OverNext
  <2> QED BY <1>3, <2>1, <2>2, NamesAre
<1>5. /\ Sc!Kind(u, dir) = "dir" /\ Sc!Kind(u, WorkDir) = "dir"
      /\ \A p : Sc!Kind(u, p) = IF p = dir THEN "dir" ELSE Sc!Kind(t, p)
      /\ Linked(u)
  <2>1. dir \in DOMAIN u /\ u[dir] = Sc!Dir /\ Sc!Dir.kind = "dir"
    BY DEF Made, Sc!Dir, Sc!With
  <2>2. \A p : p # dir => (p \in DOMAIN u <=> p \in DOMAIN t) /\ (p \in DOMAIN t => u[p] = t[p])
    BY DEF Made, Sc!With
  <2>3. \A p : Sc!Kind(u, p) = IF p = dir THEN "dir" ELSE Sc!Kind(t, p)
    BY <2>1, <2>2 DEF Sc!Kind
  <2>4. Linked(u)
    <3>1. \A p \in DOMAIN t : t[p].kind = "link" => t[p].to \in Sc!LinkPath
      BY SoundIs DEF Linked
    <3>2. u[dir].kind # "link"
      BY <2>1
    <3>3. ASSUME NEW p \in DOMAIN u, u[p].kind = "link" PROVE u[p].to \in Sc!LinkPath
      <4>1. p # dir
        BY <3>2, <3>3
      <4> QED BY <2>2, <3>1, <3>3, <4>1
    <3> QED BY <3>3 DEF Linked
  <2> QED BY <2>3, <2>4, SoundIs
<1>6. Sc!Kind(u, WorkDir \o names) # "link"
  <2>1. PICK q : q = WorkDir \o names
    OBVIOUS
  <2>2. q \in Seq(STRING) /\ Len(q) = Len(WorkDir) + 2 /\ SubSeq(q, 1, Len(q) - 1) = dir /\ q # dir /\ q # <<>>
    <3>1. q \in Seq(STRING) /\ Len(q) = Len(WorkDir) + 2
      BY <1>0, <1>o, <2>1
    <3>2. 1 \in 0..Len(names)
      BY <1>0
    <3>3. WorkDir \o SubSeq(names, 1, 1) = SubSeq(WorkDir \o names, 1, Len(WorkDir) + 1)
      BY <1>o, <3>2
    <3>4. dir = WorkDir \o SubSeq(names, 1, 1)
      BY <1>3, <3>2
    <3>5. Len(q) - 1 = Len(WorkDir) + 1
      BY <1>0, <3>1
    <3>6. SubSeq(q, 1, Len(q) - 1) = dir
      BY <2>1, <3>3, <3>4, <3>5
    <3>7. Len(dir) = Len(WorkDir) + 1
      BY <1>0, <3>1, <3>5, <3>6
    <3> QED BY <1>0, <3>1, <3>6, <3>7
  <2>3. q \notin DOMAIN t
    <3>1. SUFFICES ASSUME q \in DOMAIN t PROVE FALSE
      OBVIOUS
    <3>2. Sc!Kind(t, dir) = "dir"
      BY <2>2, <3>1, SoundIs
    <3> QED BY <3>2 DEF Made, Sc!Kind
  <2>4. Sc!Kind(t, q) = "missing"
    BY <2>3 DEF Sc!Kind
  <2> QED BY <1>5, <2>1, <2>2, <2>4
<1>7. \A i \in 1..2 : Sc!Kind(u, pl[i - 1]) = "dir" /\ Sc!Kind(u, pl[i]) # "link"
  <2>1. Sc!Kind(u, pl[0]) = "dir" /\ Sc!Kind(u, pl[1]) = "dir" /\ Sc!Kind(u, pl[2]) # "link"
    BY <1>3, <1>5, <1>6
  <2>2. \A i \in 1..2 : (i = 1 /\ i - 1 = 0) \/ (i = 2 /\ i - 1 = 1)
    OBVIOUS
  <2> QED BY <2>1, <2>2
<1>p. names \in Spots
  BY <1>0
<1>8. reads \in BOOLEAN /\ Typed(reads, u) /\ Leveled(reads, u, k) /\ n \in 1..(MaxHops + 1) /\ base \in Spots
  <2>1. reads \in BOOLEAN /\ Leveled(reads, u, k)
    BY <1>1, <1>5, WalkLeveled
  <2>2. Typed(reads, u)
    BY ONLY <1>5, <2>1, TypedIs
  <2> QED BY <1>0, <1>1, <2>1, <2>2
<1>9. PICK came : Came(reads, u, k[n - 1], base, names, came) /\ k[n][<<base, names>>] = came[Len(names)]
  BY ONLY <1>8, <1>p, OneLevel
<1>10. PICK deeper, m : deeper = k[n - 1] /\ m = 2
  OBVIOUS
<1>11. /\ Came(reads, u, deeper, base, names, came) /\ pl[0] = base /\ m \in 0..Len(names)
       /\ Straight(reads, u, deeper, names, pl, m)
  <2>1. ASSUME NEW i \in 1..2 PROVE On(reads, u, deeper, Sc!At(pl[i - 1]), names[i]) = Sc!At(pl[i])
    <3>1. Sc!At(pl[i - 1]).ok /\ Sc!At(pl[i - 1]).place = pl[i - 1]
      BY DEF Sc!At
    <3> QED BY <1>1, <1>4, <1>7, <2>1, <3>1 DEF On, Sc!WalkOn
  <2> QED BY <1>1, <1>3, <1>9, <1>10, <2>1 DEF Straight
<1>12. came[m] = Sc!At(pl[m])
  BY ONLY <1>0, <1>8, <1>11, Along
<1> QED BY <1>1, <1>3, <1>9, <1>10, <1>12 DEF Sc!Walk

(* The report is written in the project, or not at all.                        *)
LEMMA ReportInside ==
  ASSUME Sc!IsTree(tree), NEW dir, dir = WorkDir \o Sc!Front(ReportPath),
         NEW there, there = IF dir \in DOMAIN tree THEN tree ELSE Sc!With(tree, dir, Sc!Dir),
         NEW w, w = Sc!Walk(there, WorkDir, ReportPath), w.ok, Sc!IsInside(tree, Sc!Relative(ReportPath))
  PROVE  Sc!Below(WorkDir, w.place)
<1>0. ReportPath \in Seq(Sc!Names) /\ Len(ReportPath) = 2 /\ ReportPath \in Spots /\ WorkDir \in Spots
      /\ ReportPath \in Seq(STRING) /\ WorkDir \in Seq(STRING)
  BY NamesAre, ScopeAssumption DEF Spots
<1>s. WorkDir \in Seq(STRING) /\ ReportPath \in Seq(STRING)
  BY <1>0
<1>1. PICK t : t = tree
  OBVIOUS
<1>2. CASE dir \in DOMAIN tree
  <2>1. Sc!IsTree(t) /\ Alike(t, t) /\ Sc!Walk(t, WorkDir, ReportPath) = w
    BY <1>1, <1>2 DEF Alike
  <2>2. Sc!Canon(t, WorkDir, ReportPath) = w
    BY <1>0, <2>1, CanonAlike
  <2>3. Sc!CanonicalPath(tree, Sc!Relative(ReportPath)) = w
    BY <1>1, <2>2 DEF Sc!CanonicalPath, Sc!Relative, Sc!From
  <2> QED BY <2>3 DEF Sc!IsInside
<1>3. CASE dir \notin DOMAIN tree
  <2>0. PICK names : names = ReportPath
    OBVIOUS
  <2>1. /\ Sc!IsTree(t) /\ Made(t, dir, there)
        /\ names \in Seq(Sc!Names) /\ Len(names) = 2 /\ dir = WorkDir \o Sc!Front(names)
    BY <1>0, <1>1, <1>3, <2>0 DEF Made
  <2>5. Sc!Walk(there, WorkDir, names) = Sc!At(WorkDir \o names)
    BY ONLY <2>1, NewDirLands
  <2>2. w = Sc!At(WorkDir \o ReportPath)
    BY <2>0, <2>5
  <2>3. Sc!At(WorkDir \o ReportPath).place = WorkDir \o ReportPath
    BY DEF Sc!At
  <2>4. Sc!Below(WorkDir, WorkDir \o ReportPath)
    BY ONLY <1>s, Over
  <2> QED BY <2>2, <2>3, <2>4
<1> QED BY <1>2, <1>3

LEMMA ReportKeeps == ScopeInv /\ Sc!SaveReport => ScopeInv'
<1> SUFFICES ASSUME ScopeInv, Sc!SaveReport PROVE ScopeInv'
  OBVIOUS
<1>1. PICK dir, there, w :
        /\ dir = WorkDir \o Sc!Front(ReportPath)
        /\ there = IF dir \in DOMAIN tree THEN tree ELSE Sc!With(tree, dir, Sc!Dir)
        /\ w = Sc!Walk(there, WorkDir, ReportPath)
  OBVIOUS
<1>2. /\ verdict \in {"accepted", "blocked"} /\ verdict' = "reported"
      /\ \/ /\ Sc!IsInside(tree, Sc!Relative(ReportPath)) /\ w.ok
            /\ opened' = {[tool |-> "report", at |-> w.place]}
         \/ UNCHANGED <<tree, opened>>
      /\ UNCHANGED <<before, role, calls, shells>>
  BY <1>1 DEF Sc!SaveReport
<1>3. StepIs' /\ TreeKept'
  BY <1>2 DEF ScopeInv, StepIs, TreeKept
<1>5. Sc!ToolsStayInside'
  <2>1. CASE UNCHANGED <<tree, opened>>
    <3>1. Sc!Relinked' = Sc!Relinked /\ Sc!Astray' = Sc!Astray /\ \A q : Sc!MayWrite(q)' = Sc!MayWrite(q)
      BY <1>2, <2>1 DEF Sc!MayWrite, Sc!Own, Sc!Relinked, Sc!Astray
    <3> QED BY <2>1, <3>1 DEF ScopeInv, StaysInScope, Sc!StaysInScope, Sc!ToolsStayInside
  <2>2. CASE /\ Sc!IsInside(tree, Sc!Relative(ReportPath)) /\ w.ok
             /\ opened' = {[tool |-> "report", at |-> w.place]}
    <3>1. Sc!IsTree(tree)
      BY <1>2 DEF ScopeInv, TreeKept
    <3>2. Sc!Below(WorkDir, w.place)
      BY <1>1, <2>2, <3>1, ReportInside
    <3> QED BY <2>2, <3>2 DEF Sc!ToolsStayInside
  <2> QED BY <1>2, <2>1, <2>2
<1>6. StaysInScope'
  BY <1>2, <1>5 DEF StaysInScope, Sc!StaysInScope, Sc!AuditSeesAll, Sc!AuditAgrees
<1> QED BY <1>3, <1>6 DEF ScopeInv

\* Every step of a team's step keeps the invariant.
LEMMA ScopeStep == ScopeInv /\ [Sc!Next]_files => ScopeInv'
<1> SUFFICES ASSUME ScopeInv, [Sc!Next]_files PROVE ScopeInv'
  OBVIOUS
<1>1. CASE Sc!FileTool
  <2>1. verdict = "running" /\ UNCHANGED <<before, role, shells, verdict>>
    BY <1>1 DEF Sc!FileTool
  <2>2. ASSUME NEW path \in Paths, Sc!Read(path) \/ Sc!Write(path) PROVE ScopeInv'
    <3>1. PathIs(path)
      BY ScopeAssumption DEF PathIs
    <3> QED BY <2>1, <2>2, <3>1, ReadKeeps, WriteKeeps
  <2>3. ASSUME NEW path \in Paths \cup {Sc!NoPath}, Sc!Grep(path) \/ \E pattern \in Globs : Sc!Lists(path, pattern)
        PROVE  ScopeInv'
    <3>1. path = Sc!NoPath \/ PathIs(path)
      BY ScopeAssumption DEF PathIs
    <3>2. ASSUME NEW pattern \in Globs, Sc!Lists(path, pattern) PROVE ScopeInv'
      <4>1. \A alt \in pattern : PathIs(alt)
        BY ScopeAssumption DEF PathIs
      <4> QED BY <2>1, <3>1, <3>2, <4>1, ListsKeep
    <3> QED BY <2>1, <2>3, <3>1, <3>2, GrepKeeps
  <2> QED BY <1>1, <2>2, <2>3 DEF Sc!FileTool
<1>2. CASE UNCHANGED files
  <2>1. UNCHANGED <<tree, before, role, opened, calls, shells, verdict>>
    BY <1>2 DEF files
  <2>2. Sc!Relinked' = Sc!Relinked /\ Sc!Astray' = Sc!Astray /\ Sc!Changed' = Sc!Changed
    BY <2>1 DEF Sc!Relinked, Sc!Astray, Sc!Changed, Sc!Files
  <2>3. \A q : Sc!MayWrite(q)' = Sc!MayWrite(q)
    BY <2>1 DEF Sc!MayWrite, Sc!Own
  <2>4. Sc!ToolsStayInside' /\ Sc!AuditSeesAll' /\ Sc!AuditAgrees'
    <3>1. Sc!ToolsStayInside /\ Sc!AuditSeesAll /\ Sc!AuditAgrees
      BY DEF ScopeInv, StaysInScope, Sc!StaysInScope
    <3>2. Sc!ToolsStayInside'
      BY <2>1, <2>2, <2>3, <3>1 DEF Sc!ToolsStayInside
    <3>3. Sc!AuditSeesAll'
      BY <2>1, <2>2, <2>3, <3>1 DEF Sc!AuditSeesAll, Sc!Files
    <3>4. Sc!AuditAgrees'
      BY <2>1, <2>2, <3>1 DEF Sc!AuditAgrees, Sc!Truncated, Sc!Files
    <3> QED BY <3>2, <3>3, <3>4
  <2>5. StepIs' /\ TreeKept'
    BY <2>1, <2>2 DEF ScopeInv, StepIs, TreeKept, Differs, Might
  <2> QED BY <2>4, <2>5 DEF ScopeInv, StaysInScope, Sc!StaysInScope
<1> QED BY <1>1, <1>2, BashKeeps, AuditKeeps, ReportKeeps DEF Sc!Next

(* Whatever the trees, links, paths, patterns, commands and roles, a file tool  *)
(* opens only what its role may read and write; of the files a snapshot holds, *)
(* a step that is accepted and leaves the links as it found them has changed,  *)
(* by its tools or its shell, only those it may; one that kept to the file     *)
(* tools is not blocked for what they were allowed; and no report is written   *)
(* outside the project (hooks.ts, write-scope.ts, run-plan.ts).  Where a       *)
(* slice's links lead to nothing, what may be written is left out.             *)
THEOREM StepStaysInScope == Limits => []StaysInScope
<1>1. LimitsInit => ScopeInv
  BY ScopeBegins DEF LimitsInit
<1>2. ScopeInv /\ [LimitsNext]_<<world, vars, sites, files, tools>> => ScopeInv'
  BY ScopeStep DEF LimitsNext, Gate, files
<1>3. ScopeInv => StaysInScope
  BY DEF ScopeInv
<1> QED BY <1>1, <1>2, <1>3, PTL DEF Limits

=============================================================================
