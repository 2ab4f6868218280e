------------------------------- MODULE Scope -------------------------------
(***************************************************************************)
(* Where one step of a team may read and write.  The hooks judge each call *)
(* of a file tool by the real place of its path (path-canon.ts, hooks.ts,  *)
(* team/write-scope.ts); a shell is judged afterwards, by comparing the    *)
(* project tree with how it was before the step (team/changes.ts,          *)
(* team/run-plan.ts).                                                      *)
(***************************************************************************)
EXTENDS Naturals, Sequences, FiniteSets, SequencesExt

CONSTANTS
  Trees,                  \* the file trees a step may find: functions from places to nodes
  Paths,                  \* the paths its calls name
  Touched, LinkTargets,   \* the places its shell works on, and the paths it links to
  Roles,                  \* [scope, slice, all]: write scope, its slice's paths, every slice's paths
  WorkDir,                \* the project, a place
  ReservedNames, ReservedDirs, NeverDirs, Derived, TestDirs, TestFiles, DocDirs, DocFiles,
  Home,                   \* the user's home directory, a place
  Secret, SecretDirs,     \* names of credential files, and directories of nothing else
  ReportPath,             \* team-reports/<step>.md, the names from the project down
  Globs,                  \* the patterns it looks for: sets of alternatives, each a path
  MaxHops, MaxFiles, MaxCalls,
  MaxShells               \* bounds the changes its shell makes

\* A place is the sequence of names from the root; a path is a form and the names it adds:
\* relative, absolute, from the home directory (~), or one only the tool could place (~user,
\* %VARIABLE%, a drive, a share).
Dir == [kind |-> "dir"]
File(v) == [kind |-> "file", version |-> v]
Link(p) == [kind |-> "link", to |-> p]
Relative(names) == [form |-> "relative", names |-> names]
Absolute(names) == [form |-> "absolute", names |-> names]
NoPath == [form |-> "none", names |-> <<>>]

VARIABLES
  tree, before,    \* the file system, now and when the step began
  role,
  opened, calls,   \* what its last file tool opened, if nothing came after it, and how many there were
  shells,          \* how often its shell has changed the tree
  verdict          \* "running", then what the audit makes of the step; "reported" when that is saved

vars == <<tree, before, role, opened, calls, shells, verdict>>

-----------------------------------------------------------------------------
\* The operating system: where a path leads.

At(place) == [ok |-> TRUE, place |-> place, error |-> ""]
Failed(error) == [ok |-> FALSE, place |-> <<>>, error |-> error]
Parent(place) == IF place = <<>> THEN place ELSE Front(place)
From(path, cur) == IF path.form = "absolute" THEN <<>> ELSE cur
Kind(t, place) == IF place \in DOMAIN t THEN t[place].kind ELSE "missing"

\* A tree hangs together: what is anywhere is in a directory, and a link says where it leads.
Names == STRING \ {".."}
LinkPath == [form : {"relative", "absolute"}, names : Seq(STRING)]
IsTree(t) ==
  /\ DOMAIN t \subseteq Seq(Names)
  /\ \A p \in DOMAIN t : /\ t[p].kind \in {"dir", "file", "link"}
                         /\ t[p].kind = "link" => t[p].to \in LinkPath
                         /\ p # <<>> => Kind(t, Front(p)) = "dir"
  /\ Kind(t, <<>>) = "dir" /\ Kind(t, WorkDir) = "dir"

\* Where a path starts, and its names.
Ways == Seq(STRING) \X Seq(STRING)

\* One name on from where a path has come; a link's own path is walked by deeper.
WalkOn(t, deeper, w, name) ==
  LET next == Append(w.place, name)
  IN IF ~w.ok THEN w
     ELSE IF Kind(t, w.place) = "missing" THEN Failed("ENOENT")
     ELSE IF Kind(t, w.place) # "dir" THEN Failed("ENOTDIR")
     ELSE IF name = ".." THEN At(Parent(w.place))
     ELSE IF Kind(t, next) = "link" THEN deeper[<<From(t[next].to, w.place), t[next].to.names>>]
     ELSE At(next)

\* Each name in turn, through so many links within links; a name that is missing at the end is where a
\* file would be made.
Walks(t) ==
  LET walk[links \in 0..(MaxHops + 1)] ==
        IF links = 0 THEN [way \in Ways |-> Failed("ELOOP")]
        ELSE [way \in Ways |->
               LET came[i \in 0..Len(way[2])] ==
                     IF i = 0 THEN At(way[1]) ELSE WalkOn(t, walk[links - 1], came[i - 1], way[2][i])
               IN came[Len(way[2])]]
  IN walk
Walk(t, start, path) == Walks(t)[MaxHops + 1][<<start, path>>]

\* The tools themselves expand ~ before they open a path.
Expanded(path) == IF path.form = "home" THEN Absolute(Home \o path.names) ELSE path
Opens(t, path) == LET p == Expanded(path) IN Walk(t, From(p, WorkDir), p.names)

\* realpathSync.native
Real(t, place) == LET w == Walk(t, <<>>, place)
                  IN IF w.ok /\ Kind(t, w.place) = "missing" THEN Failed("ENOENT") ELSE w

-----------------------------------------------------------------------------
\* The program's own reading of a path.

\* canonicalPath: real places as far as there is one, what does not exist yet as it is written.
CanonOn(t, deeper, c, name) ==
  LET next == Append(c.place, name)
      real == Real(t, next)
  IN IF ~c.ok THEN c
     ELSE IF name = ".." THEN At(Parent(c.place))
     ELSE IF real.ok \/ real.error # "ENOENT" THEN real
     ELSE IF Kind(t, next) = "link" THEN deeper[<<From(t[next].to, c.place), t[next].to.names>>]
     ELSE At(next)
Canons(t) ==
  LET canon[links \in 0..(MaxHops + 1)] ==
        IF links = 0 THEN [way \in Ways |-> Failed("ELOOP")]
        ELSE [way \in Ways |->
               LET came[i \in 0..Len(way[2])] ==
                     IF i = 0 THEN At(way[1]) ELSE CanonOn(t, canon[links - 1], came[i - 1], way[2][i])
               IN came[Len(way[2])]]
  IN canon
Canon(t, start, path) == Canons(t)[MaxHops + 1][<<start, path>>]

\* mutant: ".." is collapsed as text first, as path.resolve does (A1)
Collapse(cur, names) == FoldLeft(LAMBDA c, n : IF n = ".." THEN Parent(c) ELSE Append(c, n), cur, names)
ResolvedPath(t, path) == Canon(t, <<>>, Collapse(From(path, WorkDir), path.names))

CanonicalPath(t, path) == Canon(t, From(path, WorkDir), path.names)

\* toolPath: what a tool will open for the path it is given; what cannot be placed is refused.
Placed(path) == path.form # "odd"
ToolPath(path) == IF path.form = "home" THEN Absolute(Home \o path.names) ELSE path

\* isInside, and a place relative to the project.
Below(dir, place) == IsPrefix(dir, place)
IsInside(t, path) == LET c == CanonicalPath(t, path) IN c.ok /\ Below(WorkDir, c.place)
Rel(place) == SubSeq(place, Len(WorkDir) + 1, Len(place))

Reserved(rel) == Last(rel) \in ReservedNames \/ ToSet(rel) \cap ReservedDirs # {}

\* Where the slice's directories really are, those inside the project.
SlicePrefixes(t, slice) ==
  LET real == {CanonicalPath(t, Relative(p)) : p \in slice}
  IN {Rel(c.place) : c \in {c \in real : c.ok /\ Below(WorkDir, c.place) /\ c.place # WorkDir}}

\* What each scope is for, and what no role writes by hand.
IsTest(rel) == ToSet(Front(rel)) \cap TestDirs # {} \/ Last(rel) \in TestFiles
IsDoc(rel) == (Len(rel) > 1 /\ Head(rel) \in DocDirs) \/ Last(rel) \in DocFiles
ByHand(rel) == ToSet(rel) \cap NeverDirs = {}

\* decideWrite, for a target that has been placed.
Permits(rel, r, own, all) ==
  /\ r.scope # "none"
  /\ rel # <<>> /\ ByHand(rel)
  /\ CASE r.scope = "slice"  -> ~Reserved(rel) /\ \E p \in own : Below(p, rel)
       [] r.scope = "tests"  -> ~Reserved(rel) /\ IsTest(rel)
       [] r.scope = "docs"   -> ~Reserved(rel) /\ IsDoc(rel)
       [] r.scope = "shared" -> Reserved(rel) \/ \E p \in all : Below(p, rel)

DecideWrite(t, path, r) ==
  LET c == CanonicalPath(t, ToolPath(path))
  IN /\ Placed(path) /\ c.ok /\ Below(WorkDir, c.place)
     /\ Permits(Rel(c.place), r, SlicePrefixes(t, r.slice), SlicePrefixes(before, r.all))

\* SENSITIVE_PATH_RE: by the last name, or by a directory of secrets anywhere in it.
Sensitive(names) == names # <<>> /\ (Last(names) \in Secret \/ ToSet(names) \cap SecretDirs # {})

\* createSensitiveFileHook: the name as it is written, and the file it really is.
NamesSecret(t, path) ==
  LET c == CanonicalPath(t, ToolPath(path))
  IN ~Placed(path) \/ Sensitive(path.names) \/ (c.ok /\ Sensitive(c.place))

\* createPathScopeHook: the path argument of a tool.
InScope(t, path) == Placed(path) /\ IsInside(t, ToolPath(path))

\* snapshotTree: the project's files and links, not what is derived.
Files(t) == {p \in DOMAIN t : /\ t[p].kind # "dir" /\ Below(WorkDir, p)
                              /\ ToSet(Front(Rel(p))) \cap Derived = {}}
Truncated(t) == Cardinality(Files(t)) > MaxFiles

\* changedBetween
Changed == {p \in Files(before) \cup Files(tree) :
              Kind(before, p) # Kind(tree, p) \/ (p \in DOMAIN before /\ before[p] # tree[p])}

\* mutant: only what is there after the step is looked at
BlockingPresent ==
  IF Truncated(before) \/ Truncated(tree) THEN {WorkDir}
  ELSE IF role.scope = "none" THEN Changed \cap Files(before) \cap Files(tree)
  ELSE {p \in Changed \cap Files(tree) : ~DecideWrite(tree, Relative(Rel(p)), role)}

\* auditStepChanges
Blocking ==
  IF Truncated(before) \/ Truncated(tree) THEN {WorkDir}
  ELSE IF role.scope = "none" THEN Changed \cap Files(before)
  ELSE {p \in Changed : ~DecideWrite(tree, Relative(Rel(p)), role)}

-----------------------------------------------------------------------------

Init ==
  /\ tree \in Trees /\ before = tree /\ role \in Roles
  /\ opened = {} /\ calls = 0 /\ shells = 0 /\ verdict = "running"

With(t, place, node) == [p \in DOMAIN t \cup {place} |-> IF p = place THEN node ELSE t[p]]
Newer(place) == File(IF Kind(tree, place) = "file" THEN tree[place].version + 1 ELSE 1)

\* The path scope and the sensitive-file hook let it through.
Read(path) ==
  /\ InScope(tree, path) /\ ~NamesSecret(tree, path)
  /\ LET w == Opens(tree, path)
     IN w.ok /\ opened' = {[tool |-> "Read", at |-> w.place]}
  /\ UNCHANGED tree

\* Write, Edit: so does the write scope.
Write(path) ==
  /\ InScope(tree, path) /\ ~NamesSecret(tree, path) /\ DecideWrite(tree, path, role)
  /\ LET w == Opens(tree, path)
     IN /\ w.ok /\ Kind(tree, w.place) \in {"file", "missing"}
        /\ tree' = With(tree, w.place, Newer(w.place))
        /\ opened' = {[tool |-> "Write", at |-> w.place]}

\* Where Grep and Glob search: the project when they are given no path, which the hooks pass over.
Searches(path) == path = NoPath \/ (InScope(tree, path) /\ ~NamesSecret(tree, path))
Searched(path) == IF path = NoPath THEN At(WorkDir) ELSE Opens(tree, path)

\* Grep may open every file there; it goes through no link below.
Grep(path) ==
  /\ Searches(path)
  /\ LET w == Searched(path)
     IN w.ok /\ opened' = {[tool |-> "Grep", at |-> p] : p \in {p \in DOMAIN tree : Below(w.place, p)}}
  /\ UNCHANGED tree

\* Glob's pattern is a path too: each alternative stays below the directory that is searched,
\* or names one inside the project.
PatternStays(t, pattern) ==
  \A alt \in pattern : /\ Placed(alt) /\ \A i \in 1..Len(alt.names) : alt.names[i] # ".."
                       /\ ToolPath(alt).form = "absolute" => IsInside(t, ToolPath(alt))

\* Glob lists what is below the directory an alternative names; it goes through no link.
Lists(path, pattern) ==
  /\ Searches(path) /\ PatternStays(tree, pattern)
  /\ LET base == Searched(path)
         dirs == {Opens(tree, alt) : alt \in {a \in pattern : a.form # "relative"}}
         found == {p \in DOMAIN tree :
                     \/ \E d \in dirs : d.ok /\ Below(d.place, p)
                     \/ \E alt \in pattern : alt.form = "relative" /\ Below(base.place \o alt.names, p)}
     IN base.ok /\ opened' = {[tool |-> "Glob", at |-> p] : p \in found}
  /\ UNCHANGED tree

FileTool ==
  /\ verdict = "running" /\ calls < MaxCalls /\ calls' = calls + 1
  /\ \/ \E path \in Paths : Read(path) \/ Write(path)
     \/ \E path \in Paths \cup {NoPath} : Grep(path) \/ \E pattern \in Globs : Lists(path, pattern)
  /\ UNCHANGED <<before, role, shells, verdict>>

\* What is at a place, all below it, goes, or goes to another place and takes that one's name.
Without(t, place) == [p \in {p \in DOMAIN t : ~Below(place, p)} |-> t[p]]
Moved(t, from, to) ==
  LET rest == Without(Without(t, from), to)
      moved == {p \in DOMAIN t : Below(from, p)}
      source(p) == from \o SubSeq(p, Len(to) + 1, Len(p))
  IN [p \in DOMAIN rest \cup {to \o SubSeq(q, Len(from) + 1, Len(q)) : q \in moved} |->
       IF Below(to, p) THEN t[source(p)] ELSE rest[p]]

\* What one command may make of the tree: something removed, written, made a directory or a link, or moved.
Commanded(t, place) ==
  {Without(t, place)}
    \cup {With(Without(t, place), place, node) : node \in {Dir, Newer(place)} \cup {Link(path) : path \in LinkTargets}}
    \cup {Moved(t, place, to) : to \in Touched}

\* Bash, which no hook keeps inside.
Bash ==
  /\ verdict = "running" /\ shells < MaxShells /\ shells' = shells + 1
  /\ \E place \in Touched : \E t \in Commanded(tree, place) : IsTree(t) /\ tree' = t
  /\ opened' = {}
  /\ UNCHANGED <<before, role, calls, verdict>>

Audit ==
  /\ verdict = "running"
  /\ verdict' = IF Blocking = {} THEN "accepted" ELSE "blocked"
  /\ UNCHANGED <<tree, before, role, opened, calls, shells>>

\* saveReport: its directory is made if nothing has its name, and the report is written through
\* whatever links there are, unless they lead out.
SaveReport ==
  LET dir == WorkDir \o Front(ReportPath)
      there == IF dir \in DOMAIN tree THEN tree
               ELSE With(tree, dir, Dir)
      w == Walk(there, WorkDir, ReportPath)
  IN /\ verdict \in {"accepted", "blocked"} /\ verdict' = "reported"
     /\ IF /\ IsInside(tree, Relative(ReportPath))
           /\ w.ok /\ Kind(there, w.place) \in {"file", "missing"}
        THEN tree' = With(there, w.place, Newer(w.place)) /\ opened' = {[tool |-> "report", at |-> w.place]}
        ELSE UNCHANGED <<tree, opened>>
     /\ UNCHANGED <<before, role, calls, shells>>

Next == FileTool \/ Bash \/ Audit \/ SaveReport

Spec == Init /\ [][Next]_vars

-----------------------------------------------------------------------------

\* The links are no longer those the step found.
Links(t) == [p \in {p \in DOMAIN t : t[p].kind = "link"} |-> t[p]]
Relinked == Links(tree) # Links(before)

\* A slice's path that goes through links, and through them to no directory there is.
Fits(t, names) == \/ Walk(t, WorkDir, names).ok
                  \/ \A i \in 1..Len(names) : Kind(t, WorkDir \o SubSeq(names, 1, i)) # "link"
Astray == \E names \in role.slice \cup role.all : ~Fits(before, names)

\* By where the system finds the slices, before the step or now.
Own(slice) ==
  LET found == {Walk(t, WorkDir, names) : t \in {before, tree}, names \in slice}
  IN {Rel(w.place) : w \in {w \in found : w.ok /\ Below(WorkDir, w.place) /\ w.place # WorkDir}}
MayWrite(place) == Permits(Rel(place), role, Own(role.slice), Own(role.all))

ToolsStayInside ==
  \A o \in opened : /\ Below(WorkDir, o.at) /\ (o.tool \in {"Read", "Write"} => ~Sensitive(o.at))
                    /\ (o.tool = "Write" /\ ~Relinked /\ ~Astray) => MayWrite(o.at)

AuditSeesAll ==
  (verdict = "accepted" /\ ~Relinked /\ ~Astray) =>
     \A p \in Changed : IF role.scope = "none" THEN p \notin Files(before) ELSE MayWrite(p)

AuditAgrees == (verdict = "blocked" /\ shells = 0 /\ ~Astray) => Truncated(before) \/ Truncated(tree)

(* Whatever links a path goes through, a file tool opens nothing outside the    *)
(* project, reads and writes no secret by its path, and writes only where its   *)
(* role may; of the files the audit's snapshots hold, a step that is accepted   *)
(* has changed, by its tools or its shell, only those it may; a step that kept  *)
(* to the file tools is not blocked for what they were allowed; nor is its      *)
(* report written outside the project (hooks.ts 129-217, write-scope.ts,        *)
(* run-plan.ts 37-74).  Not claimed: what the step may change once its shell    *)
(* has moved links about, or where a slice's links lead to nothing; what        *)
(* a shell does where no snapshot looks, outside the project or in the derived  *)
(* directories (changes.ts 18); and that a search reads no secret below the     *)
(* directory it is given.                                                      *)
StaysInScope == ToolsStayInside /\ AuditSeesAll /\ AuditAgrees

=============================================================================
