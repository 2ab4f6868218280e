---------------------------- MODULE ProfileLock ----------------------------
(***************************************************************************)
(* The lock of a browser profile (profile.ts): a file that names its       *)
(* holder, hard-linked into place, taken over when the holder is gone.     *)
(* Processes share only the file system and may die between any two of     *)
(* their calls to it; one action is one such call.                         *)
(*                                                                         *)
(* A process stands for one life of a program: it does not come back, and  *)
(* its lock file is told from all others by its nonce.                     *)
(***************************************************************************)
EXTENDS Naturals

CONSTANTS Proc,      \* the processes that want the profile
          Gone,      \* a holder that died before
          Broken,    \* a lock file that cannot be read
          Nothing,   \* no such file
          Attempts,  \* how often acquire tries
          Left,      \* what may be there to begin with
          Dies,      \* where a process may die
          Ages       \* which files may become too old to wait for

Places == {"idle", "link", "read", "stat", "mkdir", "age", "clear",
           "reread", "unlink", "rmdir", "held", "release"}

ASSUME ProfileLockAssumption ==
  /\ {Gone, Broken, Nothing} \cap Proc = {}
  /\ Gone # Broken /\ Gone # Nothing /\ Broken # Nothing
  /\ Left \subseteq {Gone, Broken, Nothing}
  /\ Attempts \in Nat \ {0}
  /\ Dies \subseteq Places
  /\ Ages \subseteq {"lock", "mutex"}

VARIABLES
  lock,    \* the holder written in the lock file, Broken, or Nothing
  mutex,   \* who made the recovery directory, or Nothing
  old,     \* which of the two files is older than what is waited for
  pc,      \* where each process is
  dead,    \* the processes that are gone
  found,   \* the holder each process read
  tries,   \* the attempts each has behind it
  slips    \* which of the two takeovers that exclude nobody has happened

lockVars == <<lock, mutex, old, pc, dead, found, tries, slips>>

LockTypeOK ==
  /\ lock \in Proc \cup {Gone, Broken, Nothing}
  /\ mutex \in Proc \cup {Nothing}
  /\ old \subseteq Ages
  /\ pc \in [Proc -> Places]
  /\ dead \subseteq Proc
  /\ found \in [Proc -> Proc \cup {Gone, Broken}]
  /\ tries \in [Proc -> 0..(Attempts - 1)]
  /\ slips \subseteq {"directory", "missing"}

LockInit ==
  /\ dead = {}
  /\ lock \in Left
  /\ mutex = Nothing
  /\ old = {}
  /\ pc = [p \in Proc |-> "idle"]
  /\ found = [p \in Proc |-> Broken]
  /\ tries = [p \in Proc |-> 0]
  /\ slips = {}

Live == Proc \ dead

\* readHolder: what can be read of the lock file.
Holder == IF lock = Nothing THEN Broken ELSE lock

-----------------------------------------------------------------------------
(* The steps of one process. *)

Moves(p, from, to) == pc[p] = from /\ pc' = [pc EXCEPT ![p] = to]

\* mutant: attempts are not counted
AgainForever(p, from) == Moves(p, from, "link") /\ UNCHANGED tries

\* The end of an attempt: the next one, or "it kept changing".
Again(p, from) ==
  IF tries[p] + 1 < Attempts
  THEN Moves(p, from, "link") /\ tries' = [tries EXCEPT ![p] = @ + 1]
  ELSE Moves(p, from, "idle") /\ UNCHANGED tries

\* acquireProfileLock writes its temporary file.
Acquire(p) ==
  /\ Moves(p, "idle", "link")
  /\ tries' = [tries EXCEPT ![p] = 0]
  /\ UNCHANGED <<lock, mutex, old, dead, found, slips>>

\* linkSync: the lock is taken, or there is one.
Link(p) ==
  /\ IF lock = Nothing
     THEN Moves(p, "link", "held") /\ lock' = p /\ old' = old \ {"lock"}
     ELSE Moves(p, "link", "read") /\ UNCHANGED <<lock, old>>
  /\ UNCHANGED <<mutex, dead, found, tries, slips>>

\* readHolder: a holder provably gone is recovered; one that is alive, or of
\* which that cannot be told, keeps the lock.
Read(p) ==
  /\ found' = [found EXCEPT ![p] = Holder]
  /\ \/ Holder = Broken /\ Moves(p, "read", "stat")
     \/ Holder \in dead \cup {Gone} /\ Moves(p, "read", "mkdir")
     \/ Holder # Broken /\ Moves(p, "read", "idle")
  /\ UNCHANGED <<lock, mutex, old, dead, tries, slips>>

\* statSync of a file that could not be read: it is gone by now, it is still
\* being written, or it is broken.
Stat(p) ==
  /\ CASE lock = Nothing -> Again(p, "stat")
       [] "lock" \in old -> Moves(p, "stat", "mkdir") /\ UNCHANGED tries
       [] OTHER          -> Moves(p, "stat", "idle") /\ UNCHANGED tries
  /\ UNCHANGED <<lock, mutex, old, dead, found, slips>>

\* mkdirSync of the recovery directory.
Mkdir(p) ==
  /\ IF mutex = Nothing
     THEN Moves(p, "mkdir", "reread") /\ mutex' = p /\ old' = old \ {"mutex"}
     ELSE Moves(p, "mkdir", "age") /\ UNCHANGED <<mutex, old>>
  /\ UNCHANGED <<lock, dead, found, tries, slips>>

\* statSync of somebody else's directory.
Age(p) ==
  /\ IF mutex # Nothing /\ "mutex" \in old
     THEN Moves(p, "age", "clear") /\ UNCHANGED tries
     ELSE Again(p, "age")
  /\ UNCHANGED <<lock, mutex, old, dead, found, slips>>

\* rmSync of it, by name: by now it may be a living process's own.
Clear(p) ==
  /\ Again(p, "clear")
  /\ mutex' = Nothing
  /\ slips' = slips \cup {s \in {"directory"} : mutex \in Live}
  /\ UNCHANGED <<lock, old, dead, found>>

\* mutant: whatever the lock is by now, it goes
RereadNot(p) ==
  /\ Moves(p, "reread", "unlink")
  /\ UNCHANGED <<lock, mutex, old, dead, found, tries, slips>>

\* readHolder once more, inside the mutex: a file that is gone reads as one
\* that could not be read.
Reread(p) ==
  /\ Moves(p, "reread", IF Holder = found[p] THEN "unlink" ELSE "rmdir")
  /\ slips' = slips \cup {s \in {"missing"} : found[p] = Broken /\ lock = Nothing}
  /\ UNCHANGED <<lock, mutex, old, dead, found, tries>>

Unlink(p) ==
  /\ Moves(p, "unlink", "rmdir")
  /\ lock' = Nothing
  /\ UNCHANGED <<mutex, old, dead, found, tries, slips>>

\* mutant: the directory is removed only with the lock
RmdirIfUnlinked(p) ==
  /\ Again(p, "rmdir")
  /\ mutex' = IF lock = Nothing THEN Nothing ELSE mutex
  /\ UNCHANGED <<lock, old, dead, found, slips>>

Rmdir(p) ==
  /\ Again(p, "rmdir")
  /\ mutex' = Nothing
  /\ UNCHANGED <<lock, old, dead, found, slips>>

\* release: the lock is read, and unlinked if it is still one's own.
Release(p) ==
  /\ Moves(p, "held", IF lock = p THEN "release" ELSE "idle")
  /\ UNCHANGED <<lock, mutex, old, dead, found, tries, slips>>

ReleaseUnlink(p) ==
  /\ Moves(p, "release", "idle")
  /\ lock' = Nothing
  /\ UNCHANGED <<mutex, old, dead, found, tries, slips>>

Step(p) ==
  \/ Link(p) \/ Read(p) \/ Stat(p) \/ Mkdir(p) \/ Age(p) \/ Clear(p)
  \/ Reread(p) \/ Unlink(p) \/ Rmdir(p) \/ ReleaseUnlink(p)

-----------------------------------------------------------------------------

Die(p) ==
  /\ pc[p] \in Dies
  /\ dead' = dead \cup {p}
  /\ UNCHANGED <<lock, mutex, old, pc, found, tries, slips>>

\* Seconds pass, between any two steps: what is there becomes old.
TimePasses ==
  /\ old' = Ages
  /\ UNCHANGED <<lock, mutex, pc, dead, found, tries, slips>>

LockNext ==
  \/ \E p \in Live : Acquire(p) \/ Step(p) \/ Release(p) \/ Die(p)
  \/ TimePasses

LockSpec == LockInit /\ [][LockNext]_lockVars

\* acquire and release run through: no call of theirs waits for another process.
Fairness == \A p \in Proc : WF_lockVars(p \in Live /\ Step(p))

-----------------------------------------------------------------------------
(* Properties. *)

HasIt(p) == p \in Live /\ pc[p] \in {"held", "release"}

(* A profile is held by one process at a time, and the lock file names it,     *)
(* however takeovers cross, for as long as two things have not happened: a     *)
(* recovery directory was removed by name while the process that made it was   *)
(* in it (profile.ts:240), or a lock found unreadable was gone in the mutex    *)
(* and so taken for unchanged (profile.ts:247).                                *)
OneHolder == slips = {} => \A p \in Proc : HasIt(p) => lock = p

(* What profile.ts:235 says of the mutex: of processes that found a lock stale *)
(* none removes another's fresh one.                                           *)
FreshLockStays == \A p \in Proc : HasIt(p) => lock = p

(* The recovery directory is left behind only by a process that died inside    *)
(* it (the finally of acquireProfileLock): no refusal and no lost race does.   *)
MutexNotLeft == mutex # Nothing => mutex \in dead \/ pc[mutex] \in {"reread", "unlink", "rmdir"}

(* An attempt ends in a bounded number of calls, with the lock or with a       *)
(* reason (the four attempts of acquireProfileLock).                           *)
AcquireEnds ==
  \A p \in Proc : pc[p] = "link" ~> (p \in dead \/ pc[p] \in {"idle", "held"})
=============================================================================
