------------------------------ MODULE MCRecords ------------------------------
(* What the program shows and keeps, one in each world: the bus's history, a     *)
(* session's notices, the tree of the run's steps, the terminal's prompts, and   *)
(* the ideas of the user's reels.                                              *)
EXTENDS Integers, Sequences

CONSTANTS
  HistoryLimit, Id, MaxEmits,                                             \* of History
  Place, Said, MaxKept, PerResult, MaxBusEvents, MaxNoted, MaxActivity,   \* of Notices
  Step, Call, MaxNodes, MaxTracked, MaxAttempt, MaxLog,                   \* of Lineage
  Prompt, Ruled, MaxTyped,                                               \* of Terminal
  Command, Decider, Source, Evaluations                                   \* of Reels

CONSTANTS site, exception
MCSaid == {[kind |-> "pageerror", text |-> exception]}
MCId == 1..2
MCPrompt == 1..3

VARIABLES world,
          history, pending, called, returned, asked, trimmed, emitted, overfull,
          entries, seq, dropped, busEvents, activity, settling, voice,
          flying, noted, seen, timers, lately, news, times, told, refusedLoads,
          log, tracked, published,
          made, open, heard, queue, active, rejecting, typed, answers,
          step, key, evidence, answer, ideas, lastId, deciding, decided

bus == <<history, pending, called, returned, asked, trimmed, emitted, overfull>>
page == <<entries, seq, dropped, busEvents, activity, settling, voice,
          flying, noted, seen, timers, lately, news, times, told, refusedLoads>>
tree == <<log, tracked, published>>
prompts == <<made, open, heard, queue, active, rejecting, typed, answers>>
reels == <<step, key, evidence, answer, ideas, lastId, deciding, decided>>

\* What the models may say of an idea: scores of which more than 5 counts as 5 (clamp), and -1 for
\* what is no score.
ASSUME ScoresAssumption ==
  \A e \in Evaluations :
    /\ e.score \in [{"value", "relevance", "feasibility", "risk"} -> -1..5]
    /\ e = [score |-> e.score, cited |-> e.cited, words |-> e.words, addressed |-> e.addressed]
    /\ e.words \in {"fine", "refused", "defended"} /\ e.addressed \in BOOLEAN

\* Two commands, two decisions and two sources; scores on either side of each threshold.
MCEvaluations ==
  [score : [value : {-1, 3, 4, 5}, relevance : 1..3, feasibility : {3}, risk : {-1, 2, 3, 4, 5}],
   cited : {{}, {"value", "feasibility"}, {"value", "relevance", "feasibility"}},
   words : {"fine", "refused", "defended"}, addressed : BOOLEAN]

H == INSTANCE History
N == INSTANCE Notices
L == INSTANCE Lineage
Te == INSTANCE Terminal WITH Request <- Prompt, asked <- made, pending <- open
Re == INSTANCE Reels

\* HISTORY_LIMIT is a count.
ASSUME HistoryAssumption == HistoryLimit \in Nat

\* MAX_NODES is a count, and so is MAX_TRACKED_EVENTS; a step has a name.
ASSUME NodesAssumption == MaxNodes \in Nat /\ MaxTracked \in Nat /\ L!None \notin Step

\* Requests are numbered from 1.
ASSUME PromptAssumption == Prompt \subseteq Nat \ {0}

\* A page says an exception, a dialog or a line of its console.
ASSUME SaidAssumption ==
  \A m \in Said : m.kind \in {"pageerror", "dialog", "consoleError", "consoleWarn"}

\* Plain http is for page loads here; every other request comes through a tunnel.
LoadsAndTunnels == \A r \in flying' : r.main \/ r.via = "tunnel"

\* A world that is not looked at stands still in one state.
Init == /\ world \in {"bus", "page", "tree", "prompts", "reels"}
        /\ H!Init /\ N!Init /\ L!Init /\ Te!Init /\ Re!Init
        /\ world # "reels" => \A c \in DOMAIN key : key[c] = "s1"
Next == /\ UNCHANGED world
        /\ \/ world = "bus" /\ H!Next /\ UNCHANGED <<page, tree, prompts, reels>>
           \/ world = "page" /\ N!Next /\ LoadsAndTunnels /\ UNCHANGED <<bus, tree, prompts, reels>>
           \/ world = "tree" /\ L!Next /\ UNCHANGED <<bus, page, prompts, reels>>
           \/ world = "prompts" /\ Te!Next /\ UNCHANGED <<bus, page, tree, reels>>
           \/ world = "reels" /\ Re!Next /\ UNCHANGED <<bus, page, tree, prompts>>
Spec == Init /\ [][Next]_<<world, bus, page, tree, prompts, reels>>

(* A page that connects now sees the run's start, all it is still asked and how  *)
(* much it misses (bus.ts).                                                     *)
ReplayWhole == world = "bus" => H!ReplayWhole

(* What happened since the model was last told is still to tell                 *)
(* (browser-tools.ts).                                                         *)
NewsPending == world = "page" => N!NewsPending

(* The live tree is the one the store's events give, and costs, answers and     *)
(* files are in it with the attempt they belong to (lineage.ts).                *)
TreeHolds == world = "tree" => L!LiveIsRebuilt /\ L!TreeAddsUp

(* The terminal shows the oldest request that waits, a reason goes with no other  *)
(* request than the one it was typed for, and none is answered twice            *)
(* (terminal.ts).                                                              *)
PromptsKept == world = "prompts" => Te!PromptsKept

(* Verdicts are earned, decisions stand, and what was refused is never approved  *)
(* (reel/*.ts).                                                                *)
IdeasKept == world = "reels" => Re!IdeasKept
=============================================================================
