-------------------------------- MODULE Form --------------------------------
(* One application form, from the page that was opened to what its answer is    *)
(* called (facts.ts, uploads.ts, job-apply.ts, apply-command.ts): what each     *)
(* field asks for, what may be filled in, the fields filled one call at a time  *)
(* in a page that changes itself between any two of them, the file attached as  *)
(* it is by then, the comparison with the plan, the click.  The ledger's side   *)
(* of the same run is Ledger.                                                   *)
(*                                                                              *)
(* A label is the set of the code's patterns it matches, the keys of the rules  *)
(* by their own names; a value is what fact it is of.                           *)
EXTENDS Naturals, FiniteSets, SequencesExt

CONSTANTS Files,      \* what facts.json may be
          Resumes,    \* what uploads.json may say of the resume: [wellFormed, type, sha]
          Disks,      \* what may be where it says: [is, at, content, size]
          Home,       \* the places in the agent-loop directory
          MaxSize,    \* a file's maxBytes
          Pages,      \* [title, says, els]: what it is called, patterns of its text, its elements
          Extras,     \* fields the page may add
          MaxChanges  \* bound: changes the page makes to itself, or anything to the file

VARIABLES facts,
          disk, pin,  \* what is at the resume's path; where and what it must be, "" for anything
          attached,   \* what was there when it was attached
          page, seen, \* the page, and as it was first and then last inspected
          first,
          pc,
          filled,     \* how many planned fields have been filled
          moved,      \* the address, the title or the count of writes changed since
          left,       \* something of the user's left the browser
          outcome,    \* the ApplyResult
          changes

vars == <<facts, disk, pin, attached, page, seen, first, pc, filled, moved, left, outcome, changes>>

-----------------------------------------------------------------------------
(* facts.ts. *)

ClassOrder == <<"public", "application", "post-offer-only", "never-autofill">>
Strictness(c) == CHOOSE i \in DOMAIN ClassOrder : ClassOrder[i] = c
Stricter(a, b) == IF Strictness(a) >= Strictness(b) THEN a ELSE b

Rules == <<"first_name", "last_name", "full_name", "email", "phone", "city", "linkedin", "github",
           "website", "needs_sponsorship", "work_authorisation", "years_experience",
           "salary_expectation", "notice_period">>
OwnClass(k) ==
  CASE k \in {"full_name", "first_name", "last_name", "linkedin", "github", "website"} -> "public"
    [] k \in {"date_of_birth", "government_id", "bank_account"} -> "post-offer-only"
    [] OTHER -> "application"
FactKeys == Range(Rules) \cup {"date_of_birth", "government_id", "bank_account"}

\* readUserJson: a file that is missing is read as empty; one that is a link, that others may write
\* or own, or that is not JSON, is refused.
Readable(file) == file.is = "missing" \/ (file.is = "file" /\ file.mine /\ file.parses)

\* parseFacts: a class that is not given is the key's own; a given one only makes it stricter.
Refused(json) == \E k \in DOMAIN json : \/ k \notin FactKeys \/ json[k].value = ""
                                        \/ json[k].class \notin Range(ClassOrder) \cup {"own"}
ParseFacts(json) ==
  [k \in DOMAIN json |->
    [value |-> json[k].value,
     class |-> IF json[k].class = "own" THEN OwnClass(k) ELSE Stricter(OwnClass(k), json[k].class)]]

\* loadFacts: the facts of a file that is not refused.
LoadFacts(file) == IF ~Readable(file) THEN {}
                   ELSE IF file.is = "missing" THEN {<<>>}
                   ELSE IF Refused(file.json) THEN {} ELSE {ParseFacts(file.json)}

\* The first rule that matches.
Asked(l) == LET hits == {i \in DOMAIN Rules : Rules[i] \in l}
            IN IF hits = {} THEN "nothing" ELSE Rules[CHOOSE i \in hits : \A j \in hits : i <= j]

\* A yes/no fact answers only a plain question about the applicant.
YesNo == {"needs_sponsorship", "work_authorisation"}
Spoilt(l) == "you" \notin l \/ l \cap {"not", "other person", "a place", "also asks", "clause", "two marks"} # {}

\* classifyQuestion: what is judged first decides.
Kind(l, checkbox) ==
  IF "forbidden" \in l THEN "forbidden"
  ELSE IF "demographic" \in l THEN "demographic"
  ELSE IF "attestation" \in l /\ (checkbox \/ "i or by" \in l) THEN "attestation"
  ELSE IF {"needs_sponsorship", "authorised"} \subseteq l THEN "unknown"
  ELSE IF Asked(l) \in YesNo /\ Spoilt(l) THEN "unknown"
  ELSE IF Asked(l) # "nothing" THEN "fact"
  ELSE IF "attestation" \in l THEN "attestation"
  ELSE IF "freetext" \in l THEN "freetext" ELSE "unknown"

\* planField: fill, park or skip.
PlanField(f) ==
  LET k == Asked(f.label)
      IfRequired == IF f.required THEN "park" ELSE "skip"
  IN CASE Kind(f.label, f.role = "checkbox") \in {"forbidden", "attestation"} -> "park"
       [] Kind(f.label, f.role = "checkbox") # "fact" -> IfRequired
       [] "long" \in f.label \/ k \notin DOMAIN facts -> IfRequired
       [] facts[k].class \in {"post-offer-only", "never-autofill"} -> "park"
       [] f.options # {} /\ facts[k].value \notin f.options -> IfRequired
       [] OTHER -> "fill"
Value(f) == facts[Asked(f.label)].value

-----------------------------------------------------------------------------
(* uploads.ts. *)

UPLOAD_EXTENSIONS == {"pdf", "doc", "docx", "rtf", "txt", "odt", "png", "jpg", "jpeg"}

\* loadUploads: where the file is now is where it must be later, if it is there now.
LoadUploads(resume, d) ==
  IF ~resume.wellFormed \/ resume.type \notin UPLOAD_EXTENSIONS \/ d.at \in Home THEN {}
  ELSE {[at |-> IF d.is \in {"link", "missing"} THEN "" ELSE d.at, sha |-> resume.sha]}

\* resolveUpload: everything again, when it is used.
Resolves == /\ disk.is = "file" /\ disk.size \in 1..MaxSize
            /\ pin.at \in {"", disk.at}
            /\ pin.sha \in {"", disk.content}

-----------------------------------------------------------------------------
(* The page, as job-apply.ts reads it. *)

\* The elements of a set, in the order of the list: Array.filter.
Those(list, set) ==
  LET kept[i \in 0..Len(list)] ==
        IF i = 0 THEN <<>> ELSE IF list[i] \in set THEN Append(kept[i - 1], list[i]) ELSE kept[i - 1]
  IN kept[Len(list)]

LabelKey(e) == <<e.role, e.label>>
PageFields(els) == Those(els, {e \in Range(els) : ~e.disabled /\ e.role # "button"})
Submits(els) == Those(els, {e \in Range(els) : ~e.disabled /\ e.role = "button" /\ "submit" \in e.label})
WithKey(fields, k) == Those(fields, {e \in Range(fields) : LabelKey(e) = k})
ValueRoles == {"textbox", "spinbutton", "slider", "searchbox"}

\* A short page with little to fill in, that is not called what the job is.
Challenged(p) == /\ Len(Those(p.els, {e \in Range(p.els) : e.role # "button"})) < 3
                 /\ p.title # "the job"
                 /\ p.title = "a challenge" \/ {"challenge", "short"} \subseteq p.says

\* A select that arrives with a choice made is an answer the page gave.
Chosen(f) == /\ f.role \in {"combobox", "listbox"} /\ f.value # ""
             /\ PlanField([f EXCEPT !.required = FALSE]) # "fill"
ToDecide(f) == ~f.framed /\ f.role # "file-input" /\ ~f.checked /\ ~Chosen(f)
ToFill(els) == Those(PageFields(els), {f \in Range(els) : ToDecide(f) /\ PlanField(f) = "fill"})
ResumeFields(els) ==
  Those(PageFields(els), {f \in Range(els) : ~f.framed /\ f.role = "file-input" /\ "resume" \in f.label})

\* What makes the flow ask the user: nothing has been touched yet.
Parks(p) ==
  LET fields == Range(PageFields(p.els))
      plan == Range(ToFill(p.els))
      resumes == ResumeFields(p.els)
      submits == Submits(p.els)
      forms == {e.form : e \in plan \cup Range(resumes) \cup Range(submits)}
  IN \/ p.says \cap {"already applied", "too long", "more elements", "attestation", "other person"} # {}
     \/ p.title # "the job" /\ "job's heading" \notin p.says
     \/ "forbidden" \in p.says /\ \E f \in fields : f.role = "textbox"
     \/ \E e \in Range(p.els) : e.checked \/ "captcha" \in e.label
     \/ \E f \in fields : \/ f.framed \/ Chosen(f)
                          \/ (f.role = "file-input" /\ f.required /\ "resume" \notin f.label)
                          \/ (ToDecide(f) /\ PlanField(f) = "park")
     \/ \E f, g \in plan : f # g /\ Asked(f.label) = Asked(g.label)
     \/ Len(resumes) # 1 \/ Len(submits) # 1 \/ \E b \in Range(submits) : b.framed
     \/ Cardinality(forms) # 1 \/ 0 \in forms

\* mutant: a field that was not there is not looked for
StrangeNotNew(list, was, planned) ==
  /\ ~planned /\ list[1].role # "file-input"
  /\ \E i \in DOMAIN list \cap DOMAIN was :
       \/ list[i].value # was[i].value \/ list[i].checked # was[i].checked
       \/ (list[i].role \in ValueRoles /\ list[i].value # "")

\* A key has more fields than it had, or a field that was not planned changed, or holds what the page
\* put there.
Strange(list, was, planned) ==
  \/ Len(list) > Len(was)
  \/ /\ ~planned /\ list[1].role # "file-input"
     /\ \E i \in DOMAIN list : \/ list[i].value # was[i].value \/ list[i].checked # was[i].checked
                              \/ (list[i].role \in ValueRoles /\ list[i].value # "")

\* The form diff: what is there now is what was planned.
Wrong(p) ==
  LET was == PageFields(first.els)
      now == PageFields(p.els)
      plan == Range(ToFill(first.els))
      submits == Submits(p.els)
  IN \/ \E f \in plan : LET list == WithKey(now, LabelKey(f)) IN list = <<>> \/ list[1].value # Value(f)
     \/ \E k \in {LabelKey(e) : e \in Range(now)} :
          Strange(WithKey(now, k), WithKey(was, k), k \in {LabelKey(f) : f \in plan})
     \/ \E e \in Range(p.els) : e.checked
     \/ p.says \cap {"forbidden", "attestation"} # {}
     \/ Len(submits) # 1
     \/ submits[1].framed \/ submits[1].form # ResumeFields(first.els)[1].form

-----------------------------------------------------------------------------
(* One application. *)

Init ==
  /\ facts \in UNION {LoadFacts(file) : file \in Files}
  /\ disk \in Disks /\ attached = {}
  /\ pin \in UNION {LoadUploads(resume, disk) : resume \in Resumes}
  /\ page \in Pages /\ seen = page /\ first = page
  /\ pc = "open" /\ outcome = "none"
  /\ filled = 0 /\ changes = 0
  /\ moved = FALSE /\ left = FALSE

Ends(how) == pc' = "ended" /\ outcome' = how
Goto(where) == pc' = where /\ UNCHANGED outcome

\* A refusal by the ledger: sent already, sent perhaps, or not now.
Refusals == {"duplicate", "unconfirmed", "capped"}

\* The ledger's word, the page opened, its status.
Open ==
  /\ pc = "open"
  /\ \/ Goto("inspect")
     \/ \E how \in Refusals \cup {"error", "paused-site"} : Ends(how)
  /\ UNCHANGED <<facts, disk, pin, attached, page, seen, first, filled, moved, left, changes>>

\* The first inspection: what moves is seen from here on.
Inspect ==
  /\ pc = "inspect"
  /\ first' = page /\ seen' = page /\ moved' = FALSE
  /\ IF Challenged(page) THEN Ends("paused-site") ELSE Goto("decide")
  /\ UNCHANGED <<facts, disk, pin, attached, page, filled, left, changes>>

\* Every field is decided before anything is touched, and the row is written.
Decide ==
  /\ pc = "decide"
  /\ IF Parks(first) THEN Ends("parked")
     ELSE Goto("fill") \/ \E how \in Refusals : Ends(how)
  /\ UNCHANGED <<facts, disk, pin, attached, page, seen, first, filled, moved, left, changes>>

\* A field is filled by its reference, if it is there still and the browser can; a call that fails
\* may have done its work.
Put(id, v) ==
  \E i \in DOMAIN page.els : /\ page.els[i].id = id /\ ~page.els[i].disabled
                            /\ page' = [page EXCEPT !.els[i].value = v]

Fill ==
  /\ pc = "fill"
  /\ LET plan == ToFill(first.els)
     IN \/ /\ filled < Len(plan)
           /\ Put(plan[filled + 1].id, Value(plan[filled + 1])) /\ filled' = filled + 1
           /\ Goto("fill") \/ Goto("give up")
        \/ filled < Len(plan) /\ Goto("give up") /\ UNCHANGED <<page, filled>>
        \/ filled = Len(plan) /\ Goto("attach") /\ UNCHANGED <<page, filled>>
  /\ UNCHANGED <<facts, disk, pin, attached, seen, first, moved, left, changes>>

\* The file is what it was while this call lasts.
Attach ==
  /\ pc = "attach"
  /\ \/ /\ Resolves /\ Put(ResumeFields(first.els)[1].id, "resume") /\ attached' = {disk}
        /\ Goto("compare") \/ Goto("give up")
     \/ Goto("give up") /\ UNCHANGED <<page, attached>>
  /\ UNCHANGED <<facts, disk, pin, seen, first, filled, moved, left, changes>>

Compare ==
  /\ pc = "compare"
  /\ seen' = page
  /\ Goto(IF Wrong(page) THEN "give up" ELSE "click")
  /\ UNCHANGED <<facts, disk, pin, attached, page, first, filled, moved, left, changes>>

\* giveUp: an error that reads like a navigation, an inspection that fails, or a page that moved.
GiveUp ==
  /\ pc = "give up"
  /\ Ends("unverified") \/ (~moved /\ Ends("parked"))
  /\ UNCHANGED <<facts, disk, pin, attached, page, seen, first, filled, moved, left, changes>>

\* The click sends the form, or fails.
Click ==
  /\ pc = "click"
  /\ Goto("answer")
  /\ left' \in {left, TRUE}
  /\ UNCHANGED <<facts, disk, pin, attached, page, seen, first, filled, moved, changes>>

\* A new confirmation on a page without an error or the button, for a row still open; a page that
\* says to slow down; anything else.
Answer ==
  /\ pc = "answer"
  /\ \/ Len(Submits(page.els)) = 0 /\ Ends("submitted")
     \/ Ends("paused-site") \/ Ends("unverified")
  /\ UNCHANGED <<facts, disk, pin, attached, page, seen, first, filled, moved, left, changes>>

-----------------------------------------------------------------------------
(* What the page does to itself. *)

\* Before it is looked at, a page is any page.
MayChange == pc \notin {"open", "inspect", "ended"} /\ changes < MaxChanges /\ changes' = changes + 1

\* A field comes or goes, moves or is enabled, takes a value or a tick; the text asks for more.
Shifts ==
  /\ MayChange
  /\ \/ \E e \in Extras : page' = [page EXCEPT !.els = Append(@, e)]
     \/ \E i \in DOMAIN page.els :
          \/ page' = [page EXCEPT !.els = RemoveAt(@, i)]
          \/ page' = [page EXCEPT !.els[i].disabled = ~@]
          \/ page.els[i].form = 1 /\ page' = [page EXCEPT !.els[i].form = 2]
          \/ page.els[i].role \in {"textbox", "combobox"} /\ page' = [page EXCEPT !.els[i].value = "page"]
          \/ page.els[i].role = "checkbox" /\ page' = [page EXCEPT !.els[i].checked = TRUE]
     \/ \E w \in {"forbidden", "attestation"} : page' = [page EXCEPT !.says = @ \cup {w}]
  /\ UNCHANGED <<facts, disk, pin, attached, seen, first, pc, filled, moved, left, outcome>>

\* It sends itself, on a field's change or on a timer: one more write.
SendsItself ==
  /\ MayChange
  /\ moved' = TRUE
  /\ left' = (left \/ filled > 0 \/ attached # {})
  /\ UNCHANGED <<facts, disk, pin, attached, page, seen, first, pc, filled, outcome>>

\* Anything on this computer may touch the file.
DiskChanges ==
  /\ MayChange
  /\ disk' \in Disks
  /\ UNCHANGED <<facts, pin, attached, page, seen, first, pc, filled, moved, left, outcome>>

Next == Open \/ Inspect \/ Decide \/ Fill \/ Compare \/ GiveUp \/ Click \/ Answer \/ Attach \/ Shifts \/ SendsItself \/ DiskChanges

Spec == Init /\ [][Next]_vars

\* What the command exits with.
ExitCode ==
  CASE outcome \in {"submitted", "duplicate"} -> 0
    [] outcome = "error" -> 1
    [] outcome = "parked" -> 3
    [] outcome = "paused-site" -> 4
    [] outcome \in {"unverified", "unconfirmed"} -> 5
    [] outcome = "capped" -> 6

-----------------------------------------------------------------------------

\* A field that is not the first on the page of a planned one's role and label: the form diff looks
\* at the first alone.
Twin(e) == /\ LabelKey(e) \in {LabelKey(f) : f \in Range(ToFill(first.els))}
           /\ e # WithKey(PageFields(seen.els), LabelKey(e))[1]

\* A value of the user's own that may be told, in the field that asks for it - a yes or no, if that
\* is all it asks - and in no other.
Answers(e) ==
  \E k \in DOMAIN facts :
    /\ e.value = facts[k].value /\ facts[k].class \in {"public", "application"}
    /\ k \in e.label /\ e.label \cap {"forbidden", "demographic"} = {}
    /\ k \in YesNo => e.label \cap {"not", "other person", "also asks"} = {}
    /\ \A f \in Range(seen.els) : f.id # e.id /\ ~f.disabled => f.value # e.value \/ Twin(f)

(* What is clicked away is what was meant: a form that holds the user's own     *)
(* answers, each where it is asked for, and nothing the page put in, ticked or  *)
(* added while it was being filled, as it was last looked at (planField, the    *)
(* form diff); what the user never tells is in no field; the file with it is    *)
(* the one designated, where it was when the run began (resolveUpload); and     *)
(* "Nothing was sent" is said of no page that sent itself (giveUp,              *)
(* applyCommand).                                                               *)
FormIsMeant ==
  /\ pc \in {"click", "answer"} =>
       /\ seen.says \cap {"forbidden", "attestation"} = {}
       /\ \A e \in Range(PageFields(seen.els)) :
            ~e.checked /\ (e.value \in {"", "resume"} \/ Answers(e) \/ Twin(e))
  /\ \A e \in Range(page.els), k \in DOMAIN facts :
       e.value = facts[k].value => facts[k].class \in {"public", "application"}
  /\ \A d \in attached : /\ d.is = "file" /\ pin.sha \in {"", d.content}
                         /\ pin.at # "" => d.at = pin.at /\ d.at \notin Home
  /\ pc = "ended" /\ ExitCode = 3 => ~left
=============================================================================
