------------------------------- MODULE Sites -------------------------------
(***************************************************************************)
(* The user's allowances list (allowances.ts) and what each layer of the   *)
(* browser makes of it in LIVE mode (browser-policy.ts): the pages it may  *)
(* open, the connections the gate makes, the sockets, and where a file may *)
(* be sent.                                                                *)
(***************************************************************************)
EXTENDS Naturals, Sequences, FiniteSets, SequencesExt, FiniteSetsExt

CONSTANTS Host,            \* host names, each the sequence of its labels from the top: <<"com", "acme">>
          SharedSuffixes   \* domains where anyone may have a subdomain

\* A rule covers a host, or it and everything below it; [allow, deny] are sets of
\* rules and [platforms] a sequence of [name, rules].
Matches(rule, h) == h = rule.host \/ (~rule.exact /\ IsPrefix(rule.host, h))

\* hostRule
IsRule(rule) == Len(rule.host) > 1 /\ rule.host \notin SharedSuffixes

\* parseAllowances: a platform that could not be reached is refused.
Accepted(a) ==
  /\ \A r \in a.allow \cup a.deny : IsRule(r)
  /\ \A i \in DOMAIN a.platforms :
       a.platforms[i].name # <<>>
       /\ \A r \in a.platforms[i].rules : IsRule(r) /\ \E x \in a.allow : Matches(x, r.host)

\* hostStatus: the deny list wins.
Denied(a, h) == \E r \in a.deny : Matches(r, h)
Listed(a, h) == ~Denied(a, h) /\ \E r \in a.allow : Matches(r, h)

Depth(rules, h) == Max({0} \cup {Len(r.host) : r \in {r \in rules : Matches(r, h)}})

\* platformOf: the most specific platform, the first of several; else the allow rule itself.
PlatformOf(a, h) ==
  LET depth(i) == Depth(a.platforms[i].rules, h)
      best == {i \in DOMAIN a.platforms : depth(i) > 0 /\ \A j \in DOMAIN a.platforms : depth(j) <= depth(i)}
  IN IF best # {} THEN a.platforms[Min(best)].name ELSE SubSeq(h, 1, Depth(a.allow, h))

\* navigationVerdict
MayOpen(a, url) ==
  /\ url.scheme \in {"http", "https"} /\ Listed(a, url.host)
  /\ ~url.credentials /\ url.port \in {80, 443}

Web(h) == [scheme |-> "https", host |-> h, port |-> 443, credentials |-> FALSE]

\* livePolicy, allowWebSocket and allowRequest
Local(h) == h[1] = "localhost"
GateAllows(a, h) == ~Local(h) /\ ~Denied(a, h)
MayConnect(a, h) == Listed(a, h)
MayRequest(a, url, navigation) ==
  url.scheme \in {"http", "https"} /\ (navigation => MayOpen(a, url))

\* destination
Destination(a, from, to) ==
  MayOpen(a, to) /\ MayOpen(a, from) /\ PlatformOf(a, to.host) = PlatformOf(a, from.host)

-----------------------------------------------------------------------------

(* What the list allows every layer lets through, but for names of this machine *)
(* (a list may name them, the gate refuses them); every site of it has a        *)
(* platform the caps can count; what it denies none lets through; and a         *)
(* platform's own hosts are on it (parseAllowances, livePolicy,                 *)
(* liveBrowserPolicy).                                                          *)
ListsAgree(a) ==
  /\ \A h \in Host : Listed(a, h) =>
       /\ MayOpen(a, Web(h)) /\ MayRequest(a, Web(h), TRUE) /\ MayConnect(a, h)
       /\ Local(h) \/ GateAllows(a, h)
       /\ PlatformOf(a, h) # <<>> /\ Destination(a, Web(h), Web(h))
  /\ \A h \in Host : Denied(a, h) => ~MayOpen(a, Web(h)) /\ ~MayConnect(a, h) /\ ~GateAllows(a, h)
  /\ \A i \in DOMAIN a.platforms : \A r \in a.platforms[i].rules : Listed(a, r.host) \/ Denied(a, r.host)

=============================================================================
