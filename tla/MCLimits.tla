------------------------------ MODULE MCLimits ------------------------------
(* What a step may reach, one limit in each world: the addresses the network   *)
(* gate connects to, the sites a file may be sent to, the files a step may      *)
(* read and write, and the tools its session has.  The gate's world is the      *)
(* module extended: a plain request and two tunnels, a name that may be asked   *)
(* for and one that may not, two addresses that may be connected to and one     *)
(* that may not.                                                               *)
EXTENDS NetGate, Naturals, Sequences

CONSTANTS Worlds,         \* those a run looks at
          h1, t1, t2, good, bad, a1, a2, private
MCRequest == {h1, t1, t2}

\* What each of the other limits is about: designated files, and a step's session.
CONSTANTS SiteHost, SharedSuffixes, Tab, AllowanceFiles, MaxOpeners, MaxMoves,
          Team, Definitions, Tried, Commands, MaxSessions, MaxCalls

\* Where a step may read and write.
CONSTANTS Trees, Paths, Touched, LinkTargets, Roles, WorkDir, ReservedNames, ReservedDirs, NeverDirs, Derived, TestDirs,
          TestFiles, DocDirs, DocFiles, Home, Secret, SecretDirs, ReportPath, Globs, MaxHops, MaxFiles, MaxTools,
          MaxShells

VARIABLES world,
          list, page, open, opener, held, call, carries, lost, steps,
          tree, before, role, opened, calls, shells, verdict,
          requireApproval, step, begun, text, spoke, called, waiting, rules, grants, ran, returned

sites == <<list, page, open, opener, held, call, carries, lost, steps>>
files == <<tree, before, role, opened, calls, shells, verdict>>
tools == <<requireApproval, step, begun, text, spoke, called, waiting, rules, grants, ran, returned>>

-----------------------------------------------------------------------------
\* Allowances: a platform of two companies' hosts, a denied subdomain; exact hosts and no
\* platforms; and two that are refused, for a suffix anyone has and for a host out of reach.

Acme == <<"com", "acme">>
Jobs == <<"com", "acme", "jobs">>
Bad  == <<"com", "acme", "bad">>
Wd   == <<"com", "wd">>
T1   == <<"com", "wd", "t1">>
Cdn  == <<"net", "cdn">>
Here == <<"localhost", "app">>

Sub(h)  == [host |-> h, exact |-> FALSE]
Only(h) == [host |-> h, exact |-> TRUE]
Platform(name, rs) == [name |-> <<name>>, rules |-> rs]
Allow(allow, deny, platforms) == [allow |-> allow, deny |-> deny, platforms |-> platforms]

MCFiles ==
  {Allow({Sub(Acme), Sub(Wd)}, {Sub(Bad)}, <<Platform("one", {Sub(Acme)}), Platform("two", {Sub(T1), Only(Jobs)})>>),
   Allow({Sub(Acme), Only(Wd), Sub(Here)}, {}, <<>>),
   Allow({Sub(<<"com">>)}, {}, <<>>),
   Allow({Sub(Acme)}, {}, <<Platform("two", {Sub(T1)})>>)}

MCSiteHost == {Acme, Jobs, Bad, T1, Here}
MCTab == 1..3

Up == INSTANCE Uploads WITH Host <- SiteHost, Lists <- AllowanceFiles, MaxSteps <- MaxMoves

-----------------------------------------------------------------------------
\* File trees: a slice with links out of it, to what is not there yet, to a secret and to another
\* slice's directory; and a slice that is itself a link, beside a link to itself and one out of it where
\* the reports are to go.

Dir      == [kind |-> "dir"]
File     == [kind |-> "file", version |-> 1]
Path(form, p) == [form |-> form, names |-> p]
Rel(p)   == Path("relative", p)
Abs(p)   == Path("absolute", p)
Link(p)  == [kind |-> "link", to |-> p]
Dirs(ps) == [p \in ps |-> Dir]
FilesAt(ps) == [p \in ps |-> File]
Join(f, g) == [p \in DOMAIN f \cup DOMAIN g |-> IF p \in DOMAIN f THEN f[p] ELSE g[p]]
LinkAt(p, to) == [q \in {p} |-> Link(to)]

Tree1 ==
  Join(Dirs({<<>>, <<"p">>, <<"out">>, <<"p", "api">>, <<"p", "web">>, <<"p", "web", "in">>}),
  Join(FilesAt({<<"out", "x">>, <<"p", "pkg">>, <<"p", "env">>, <<"p", "api", "x">>, <<"p", "web", "x">>}),
  Join(LinkAt(<<"p", "l">>, Rel(<<"web", "in">>)),
  Join(LinkAt(<<"p", "api", "d">>, Rel(<<"..", "web", "new">>)),
  Join(LinkAt(<<"p", "api", "o">>, Abs(<<"out">>)),
       LinkAt(<<"p", "api", "e">>, Rel(<<"..", "env">>)))))))

Tree2 ==
  Join(Dirs({<<>>, <<"p">>, <<"out">>, <<"p", "web">>, <<"p", "tests">>}),
  Join(FilesAt({<<"p", "web", "x">>, <<"p", "tests", "x">>}),
  Join(LinkAt(<<"p", "api">>, Rel(<<"web">>)),
  Join(LinkAt(<<"p", "reports">>, Abs(<<"out">>)),
       LinkAt(<<"p", "r">>, Rel(<<"r">>))))))

Bare == Dirs({<<>>, <<"p">>})

MCPaths ==
  {Rel(<<n>>) : n \in {"pkg", "r", "env", "l"}}
  \cup {Rel(<<"api", n>>) : n \in {"x", "d", "o", "e", ".."}}
  \cup {Rel(<<d, "..", n>>) : d \in {"l", "api"}, n \in {"x", "pkg", "api"}}
  \cup {Rel(<<"api", "o", n>>) : n \in {"x", ".."}}
  \cup {Rel(<<"l", "..", "..", "api", "x">>), Rel(<<"no", "x">>), Rel(<<"tests", "new">>),
        Abs(<<"out", "x">>), Abs(<<"p", "api", "new">>), Path("home", <<"x">>), Path("odd", <<"x">>)}

MCGlobs == {{Rel(<<"api">>), Rel(<<"x">>)}, {Rel(<<"..", "out">>)}, {Rel(<<"x">>), Abs(<<"out">>)},
            {Path("home", <<"x">>)}, {Abs(<<"p", "l">>)}}

Scoped(scope, slice, all) == [scope |-> scope, slice |-> slice, all |-> all]

MCTrees == {Tree1, Tree2, Bare}
MCTouched == {<<"p", "api">>, <<"p", "api", "x">>, <<"p", "web", "new">>, <<"p", "tests", "new">>,
              <<"out", "x">>}
MCLinkTargets == {Rel(<<"web">>)}
MCRoles == {Scoped("slice", {<<"api">>}, {}), Scoped("none", {}, {}), Scoped("tests", {}, {}),
            Scoped("docs", {}, {}), Scoped("shared", {}, {<<"api">>})}
MCWorkDir == <<"p">>
MCHome == <<"out">>
MCReportPath == <<"reports", "b">>

Sc == INSTANCE Scope WITH MaxCalls <- MaxTools

-----------------------------------------------------------------------------
\* Steps: a builder, a checker of the user's own, a built-in phase and one that has the desktop;
\* and role files that are refused.

Definition(id, kind, ts, scope) == [id |-> id, kind |-> kind, tools |-> ts, scope |-> scope]
MCDefinitions ==
  {Definition("mine", "check", {"run", "web"}, "none"), Definition("m2", "build", {"browser"}, "slice"),
   Definition("m3", "check", {"read"}, "slice"), Definition("m4", "build", {"read"}, "shared"),
   Definition("m5", "gate", {"read"}, "none"), Definition("builder", "build", {"desktop"}, "slice"),
   Definition("m6", "plan", {"browser-read"}, "docs")}
Shell(rs, reads) == [rules |-> rs, reads |-> reads]

MCCommands == {Shell({}, TRUE), Shell({"a"}, FALSE), Shell({"a", "b"}, FALSE)}

Se == INSTANCE Session WITH MaxSteps <- MaxSessions

-----------------------------------------------------------------------------

\* Hosts and rules name domains, of a label at least; tabs are numbered as they come.
ASSUME SitesAssumption ==
  /\ SiteHost \subseteq Seq(STRING) \ {Up!Blank, Up!Free}
  /\ \A a \in AllowanceFiles :
       /\ \A r \in a.allow \cup a.deny : r.host \in Seq(STRING)
       /\ a.platforms \in Seq({a.platforms[i] : i \in 1..Len(a.platforms)})
       /\ \A i \in 1..Len(a.platforms) : \A r \in a.platforms[i].rules : r.host \in Seq(STRING)
  /\ 1 \in Tab /\ Tab \subseteq Nat \ {0} /\ IsFiniteSet(Tab)

ASSUME ScopeAssumption ==
  /\ MaxHops \in Nat /\ WorkDir \in Seq(Sc!Names) /\ Home \in Seq(STRING)
  /\ ReportPath \in Seq(Sc!Names) /\ Len(ReportPath) = 2
  /\ \A path \in Paths \cup UNION Globs :
       path.form \in {"relative", "absolute", "home", "odd"} /\ path.names \in Seq(STRING)
  /\ \A t \in Trees : Sc!IsTree(t)
  /\ \A r \in Roles : /\ r.scope \in {"none", "slice", "tests", "docs", "shared"}
                      /\ r.slice \cup r.all \subseteq Seq(Sc!Names)

\* A step is a phase of the pipeline or a role there is.
ASSUME StepAssumption == Team \subseteq (Se!Phases \cup {r.id : r \in Se!Roster}) \ {"none"}

\* A world that is not looked at stands still in one state.
LimitsInit ==
  /\ world \in Worlds /\ Init /\ Up!Init /\ Sc!Init /\ Se!Init
  /\ world # "gate" => \A r \in Request : host[r] = good
  /\ world # "sites" => list.platforms = <<>>
  /\ world # "tools" => requireApproval
  /\ world # "files" => role.scope = "none" /\ tree = Bare
Gate == world = "gate" /\ UNCHANGED <<world, sites, files, tools>>
LimitsNext ==
  \/ Gate /\ Next
  \/ world = "sites" /\ Up!Next /\ UNCHANGED <<world, vars, files, tools>>
  \/ world = "files" /\ Sc!Next /\ UNCHANGED <<world, vars, sites, tools>>
  \/ world = "tools" /\ Se!Next /\ UNCHANGED <<world, vars, sites, files>>

\* The gate's fairness, in its world.
Limits == /\ LimitsInit /\ [][LimitsNext]_<<world, vars, sites, files, tools>>
          /\ \A r \in Request : WF_vars(Gate /\ Decide(r)) /\ WF_vars(Gate /\ ConnectFails(r))

(* A file goes to no site but the one it was attached on (browser-tools.ts).    *)
FilesStayHome == Up!FilesStayHome

(* A step reads and writes only what its role may (hooks.ts, write-scope.ts).   *)
StaysInScope == Sc!StaysInScope

(* A step does what its role may do and no more (phases.ts, roster.ts).         *)
StepKeepsToRole == Se!StepKeepsToRole
=============================================================================
