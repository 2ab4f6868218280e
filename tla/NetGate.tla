------------------------------ MODULE NetGate ------------------------------
(***************************************************************************)
(* The proxy every request of the agent's browser goes through             *)
(* (net-gate.ts).  A request is decided by its host name, the name is      *)
(* looked up, and only then is one of the addresses that were checked      *)
(* connected to; each step is awaited, so the browser may hang up and the  *)
(* gate may be closed between any two of them.  A lookup answers whatever  *)
(* it likes, a different answer every time.                                *)
(***************************************************************************)
EXTENDS Naturals, FiniteSets

CONSTANTS Request,       \* the connections the browser makes
          Tunnel,        \* those that are CONNECT or upgrade; the others are plain http
          Host, AllowedHost,
          Addr, AllowedAddr

ASSUME NetGateAssumption ==
  /\ Tunnel \subseteq Request
  /\ AllowedHost \subseteq Host
  /\ AllowedAddr \subseteq Addr

VARIABLES
  at,        \* where each request is
  host,      \* the name it asks for
  ips,       \* the addresses decide returned, those not tried yet
  up,        \* the address its upstream socket is connected to, if it has one
  client,    \* the requests whose browser side is still there
  early,     \* the tunnels whose browser side left before decide had answered
  denied,    \* the hosts in gate.denied and the total
  listening  \* the gate is not closed

vars == <<at, host, ips, up, client, early, denied, listening>>

Steps == {"none", "deciding", "connecting", "open", "over"}

TypeOK ==
  /\ at \in [Request -> Steps] /\ host \in [Request -> Host]
  /\ ips \in [Request -> SUBSET Addr] /\ up \in [Request -> SUBSET Addr]
  /\ client \subseteq Request /\ early \subseteq Tunnel
  /\ denied \subseteq Host /\ listening \in BOOLEAN

Init ==
  /\ at = [r \in Request |-> "none"] /\ host \in [Request -> Host]
  /\ ips = [r \in Request |-> {}] /\ up = [r \in Request |-> {}]
  /\ client = {} /\ early = {} /\ denied = {} /\ listening = TRUE

Goes(r, step) == at' = [at EXCEPT ![r] = step]

\* refuse: noted, and answered 403.
Refuse(r) ==
  /\ denied' = denied \cup {host[r]}
  /\ Goes(r, "over")
  /\ UNCHANGED ips

\* A request arrives; a host that is not allowed is refused without a lookup.
Arrive(r) ==
  /\ at[r] = "none" /\ listening
  /\ client' = client \cup {r}
  /\ IF host[r] \in AllowedHost THEN Goes(r, "deciding") /\ UNCHANGED <<ips, denied>>
                                ELSE Refuse(r)
  /\ UNCHANGED <<host, up, early, listening>>

\* decide: the addresses the name resolves to that may be connected to; none, or a lookup
\* that fails, is a refusal.
Decide(r) ==
  /\ at[r] = "deciding"
  /\ \E found \in SUBSET Addr :
       IF found \cap AllowedAddr = {} THEN Refuse(r)
       ELSE /\ ips' = [ips EXCEPT ![r] = found \cap AllowedAddr]
            /\ Goes(r, "connecting") /\ UNCHANGED denied
  /\ UNCHANGED <<host, up, client, early, listening>>

\* What the handler knows of its client once it is connected: an http response knows that
\* it was destroyed, a tunnel hears only a "close" that comes after decide.
KnownGone(r) == r \notin client /\ (r \notin Tunnel \/ r \notin early)

\* mutant: whether the client is still there is not asked again
ConnectsAnyway(r) ==
  /\ at[r] = "connecting"
  /\ \E ip \in ips[r] : up' = [up EXCEPT ![r] = {ip}]
  /\ Goes(r, "open")
  /\ UNCHANGED <<host, ips, client, early, denied, listening>>

\* connectFirst: one of the addresses accepts.
Connects(r) ==
  /\ at[r] = "connecting"
  /\ IF KnownGone(r) THEN Goes(r, "over") /\ UNCHANGED up
     ELSE Goes(r, "open") /\ \E ip \in ips[r] : up' = [up EXCEPT ![r] = {ip}]
  /\ UNCHANGED <<host, ips, client, early, denied, listening>>

\* mutant: an address that does not answer is waited for
NeverTimesOut(r) == FALSE /\ UNCHANGED vars

\* One address refuses or takes longer than CONNECT_TIMEOUT_MS: the next is tried, after
\* the last one the request is answered 502.
ConnectFails(r) ==
  /\ at[r] = "connecting"
  /\ \E ip \in ips[r] :
       /\ ips' = [ips EXCEPT ![r] = @ \ {ip}]
       /\ IF ips[r] = {ip} THEN Goes(r, "over") ELSE UNCHANGED at
  /\ UNCHANGED <<host, up, client, early, denied, listening>>

\* The browser side of these requests ends; what is piped to it ends with it.
Hangup(gone) ==
  /\ client' = client \ gone
  /\ early' = early \cup {r \in gone \cap Tunnel : at[r] = "deciding"}
  /\ at' = [r \in Request |-> IF r \in gone /\ at[r] = "open" THEN "over" ELSE at[r]]
  /\ up' = [r \in Request |-> IF r \in gone /\ at[r] = "open" THEN {} ELSE up[r]]

ClientLeaves(r) ==
  /\ r \in client /\ Hangup({r})
  /\ UNCHANGED <<host, ips, denied, listening>>

\* The site ends the connection.
UpstreamEnds(r) ==
  /\ at[r] = "open"
  /\ Goes(r, "over") /\ up' = [up EXCEPT ![r] = {}]
  /\ UNCHANGED <<host, ips, client, early, denied, listening>>

\* close: every socket there is, on both sides, is destroyed; what is being decided or
\* connected goes on.
Close ==
  /\ listening /\ listening' = FALSE
  /\ client' = {}
  /\ early' = early \cup {r \in client \cap Tunnel : at[r] = "deciding"}
  /\ at' = [r \in Request |-> IF at[r] = "open" THEN "over" ELSE at[r]]
  /\ up' = [r \in Request |-> {}]
  /\ UNCHANGED <<host, ips, denied>>

Next == \/ \E r \in Request : \/ Arrive(r) \/ Decide(r) \/ Connects(r) \/ ConnectFails(r)
                              \/ ClientLeaves(r) \/ UpstreamEnds(r)
        \/ Close

\* The timer of a connection fires; names are looked up by the system, which answers.
Spec == /\ Init /\ [][Next]_vars
        /\ \A r \in Request : WF_vars(Decide(r)) /\ WF_vars(ConnectFails(r))

-----------------------------------------------------------------------------

\* For hosts that are allowed, whatever a name resolves to the next time it is asked.
OnlyChecked == \A r \in Request : up[r] # {} => up[r] \subseteq AllowedAddr /\ host[r] \in AllowedHost

UpstreamFollowsClient == \A r \in Request : up[r] # {} => r \in client \/ r \in early

(* The gate is connected only to addresses that were checked (decide,           *)
(* connectFirst: DNS rebinding), and no upstream connection outlives the        *)
(* browser's side of it, whenever that hung up and whenever the gate was closed *)
(* - except for a tunnel that was hung up on before its name was looked up (the *)
(* "close" listeners, the checks after connectFirst).                          *)
UpstreamsAccounted == OnlyChecked /\ UpstreamFollowsClient

(* Every request that reached the gate is answered or connected, with addresses *)
(* that never answer too (the timer of connectFirst).                          *)
EveryRequestSettles ==
  \A r \in Request : at[r] \in {"deciding", "connecting"} ~> at[r] \in {"open", "over"}
=============================================================================
