------------------------------ MODULE MCLedger ------------------------------
(***************************************************************************)
(* Instances of Ledger and Form for TLC, in four worlds.  In the first two   *)
(* one application is behind already, to another board: in one of them two   *)
(* processes apply to three postings of one board, one a repost of another   *)
(* and one with a page that submits itself at any time; in the other one     *)
(* process at a time applies to them while the machine's clock is set back.  *)
(* In the third one process at a time applies to postings of both boards,    *)
(* until every cap and the gap has been what stops it.  In the last one form *)
(* of a few fields is filled.                                               *)
(***************************************************************************)
EXTENDS Ledger, TLC

CONSTANTS first, repost, other, board, far, boardB, p1, p2
CONSTANTS Worlds   \* those a run looks at
CONSTANTS Files, Resumes, Disks, Home, MaxSize, Pages, Extras, MaxChanges   \* of Form

MCAlike == [j \in Job |-> IF j \in {first, repost} THEN {first, repost} ELSE {j}]
MCSiteOf == [j \in Job |-> IF j = far THEN boardB ELSE board]

Symmetry == Permutations({p1, p2}) \cup Permutations({first, repost})

VARIABLE world

-----------------------------------------------------------------------------
\* Forms: a field or two, a plain one or one of those that make the flow ask the user.

Field(id, role, label, options) ==
  [id |-> id, role |-> role, label |-> label, required |-> FALSE, disabled |-> FALSE, framed |-> FALSE,
   form |-> 1, options |-> options, value |-> "", checked |-> FALSE]
Text(id, label) == Field(id, "textbox", label, {})
Work(id, more, options) == Field(id, "combobox", {"work_authorisation", "you"} \cup more, options)
Email == Text("email", {"email"})
MayWork == Work("work", {}, {"yes", "no"})
Others ==
  {[Text("other", {"freetext"}) EXCEPT !.value = "page"], [Text("phone", {"phone"}) EXCEPT !.required = TRUE],
   Text("family name", {"last_name", "other person"}), Text("city", {"city"}), [Text("bare", {}) EXCEPT !.disabled = TRUE], [Email EXCEPT !.id = "email2", !.form = 2],
   Text("dob", {"forbidden", "email"}), [Email EXCEPT !.id = "framed", !.framed = TRUE],
   Field("agree", "checkbox", {"attestation"}, {}), Field("news", "checkbox", {}, {}),
   Work("twin", {}, {"maybe"}), Work("not", {"not"}, {"yes", "no"}),
   [Work("chosen", {"a place"}, {"yes", "no"}) EXCEPT !.value = "yes"]}
Rest == <<Field("cv", "file-input", {"resume"}, {}), Field("send", "button", {"submit"}, {})>>
Page(title, says, fields) == [title |-> title, says |-> says, els |-> fields \o Rest]

MCPages ==
  {Page("the job", {}, fields) : fields \in {<<Email>>, <<Email, MayWork>>} \cup {<<MayWork, f>> : f \in Others}
                                            \cup {<<f, Email>> : f \in Others}}
  \cup {Page("the job", {w}, <<Email>>) : w \in {"forbidden", "other person"}}
  \cup {Page("another", {}, <<Email>>), Page("another", {"job's heading"}, <<MayWork>>),
        [Page("a challenge", {}, <<>>) EXCEPT !.els = <<>>]}

Fact(v, c) == [value |-> v, class |-> c]
MyFile(json) == [is |-> "file", mine |-> TRUE, parses |-> TRUE, json |-> json]
MCFiles ==
  {[is |-> "missing"], [MyFile(<<>>) EXCEPT !.mine = FALSE], MyFile([shoe_size |-> Fact("9", "own")]),
   MyFile([email |-> Fact("me", "own"), last_name |-> Fact("my family's", "own"), phone |-> Fact("555", "never-autofill"),
           work_authorisation |-> Fact("yes", "public")])}

\* The resume where it was, moved, behind a link, gone, changed, emptied, and in the directory of profiles.
Doc == [is |-> "file", at |-> "docs", content |-> "mine", size |-> 1]
MCDisks == {Doc, [Doc EXCEPT !.at = "elsewhere"], [Doc EXCEPT !.is = "link"], [Doc EXCEPT !.is = "missing"],
            [Doc EXCEPT !.content = "another"], [Doc EXCEPT !.size = 0], [Doc EXCEPT !.at = "profiles"]}
Resume == [wellFormed |-> TRUE, type |-> "pdf", sha |-> ""]
MCResumes == {Resume, [Resume EXCEPT !.sha = "mine"], [Resume EXCEPT !.type = "sh"]}
MCExtras == {[Email EXCEPT !.id = "email3", !.value = "me"], Text("new", {}),
             Field("send2", "button", {"submit"}, {})}

VARIABLES facts, disk, pin, attached, page, seen, firstSeen, at, filled, moved, left, outcome, changes
form == <<facts, disk, pin, attached, page, seen, firstSeen, at, filled, moved, left, outcome, changes>>

F == INSTANCE Form WITH first <- firstSeen, pc <- at

Roles == F!ValueRoles \cup {"combobox", "listbox", "checkbox", "radio", "switch", "file-input", "button"}
Texts == STRING \cup {"", "page", "resume"}
Element == [id : STRING, role : Roles, label : SUBSET STRING, required : BOOLEAN, disabled : BOOLEAN,
            framed : BOOLEAN, form : Nat, options : SUBSET STRING, value : Texts, checked : BOOLEAN]

\* A value is what fact it is of; the page's own and the file's are no fact's.
ASSUME FactsAssumption ==
  \A file \in Files : \A table \in F!LoadFacts(file) : \A k \in DOMAIN table :
    /\ table[k].value \in STRING \ {"page", "resume"}
    /\ \A j \in DOMAIN table : table[j].value = table[k].value => j = k

\* What a page is when it opens, and what it may add: elements with ids of their own, of which only a
\* box to write in and a select hold a value, and none a fact that is not told.
ASSUME PagesAssumption ==
  /\ \A p \in Pages : /\ p = [title |-> p.title, says |-> p.says, els |-> p.els]
                      /\ p.says \subseteq STRING /\ p.els \in Seq(Element)
                      /\ \A i, j \in DOMAIN p.els : p.els[i].id = p.els[j].id => i = j
                      /\ \A i \in DOMAIN p.els, e \in Extras : p.els[i].id # e.id
  /\ \A e \in Extras \cup UNION {F!Range(p.els) : p \in Pages} :
       /\ e \in Element
       /\ e.role \notin F!ValueRoles \cup {"combobox", "listbox"} => e.value = ""
       /\ \A file \in Files : \A table \in F!LoadFacts(file) : \A k \in DOMAIN table :
            table[k].value = e.value => table[k].class \in {"public", "application"}

-----------------------------------------------------------------------------

\* The application that is behind.
Earlier == [job |-> far, state |-> "confirmed", at |-> 1, made |-> 1, sent |-> TRUE]

\* Two processes at once have a shorter time than one.  The application that is behind stays as it is.
RaceTime == 4
ClockTime == 4
Behind == /\ Len(rows') <= 3 /\ rows'[1] = [Earlier EXCEPT !.at = rows'[1].at]
          /\ \A p \in Proc : job'[p] # far /\ mine'[p] # 1
Alone == Cardinality({p \in Proc : pc'[p] # "idle"}) <= 1

\* What the caps count is the same whatever left and whatever a row's page was, and no board is
\* paused here.
Unsent == /\ \A i \in DOMAIN rows' : ~rows'[i].sent
          /\ \A p \in Proc : pc'[p] \in {"idle", "page", "filling"} /\ job'[p] \in {other, far}
          /\ paused' = {} /\ steps' = 0

\* Init, with the application that is behind; a world that is not looked at stands still in one state.
LedgerInit ==
  /\ world \in Worlds
  /\ rows = IF world \in {"caps", "clock"} THEN <<Earlier>> ELSE <<>>
  /\ paused = {}
  /\ pc = [p \in Proc |-> "idle"]
  /\ job = [p \in Proc |-> other]
  /\ mine = [p \in Proc |-> 0] /\ floor = [p \in Proc |-> 0]
  /\ clock = 1 /\ real = 1 /\ steps = 0
  /\ F!Init
  /\ page.title # "the job" \/ Len(page.els) > 3 => disk = Doc /\ pin.sha = ""
  /\ world # "form" => facts = <<>> /\ page.title = "a challenge"
LedgerNext ==
  \/ world = "caps" /\ Next /\ Behind /\ steps' = 0 /\ real' <= RaceTime /\ UNCHANGED <<world, form>>
  \/ world = "clock" /\ Next /\ Behind /\ Alone /\ real' <= ClockTime /\ UNCHANGED <<world, form>>
  \/ world = "boards" /\ Next /\ Alone /\ Unsent /\ UNCHANGED <<world, form>>
  \/ world = "form" /\ F!Next /\ UNCHANGED <<world, vars>>
LedgerSpec == LedgerInit /\ [][LedgerNext]_<<world, vars, form>>

\* What an idle process remembers is never read.
View == <<world, rows, paused, clock, real, steps, pc, form,
          [p \in Proc |-> IF pc[p] = "idle" THEN <<>> ELSE <<job[p], mine[p], floor[p]>>]>>

(* What is clicked away is what was meant (facts.ts, job-apply.ts).             *)
FormIsMeant == F!FormIsMeant
=============================================================================
