----------------------------- MODULE MCTeamRun ------------------------------
(***************************************************************************)
(* Proposals for TLC, small teams in which the floor, the order and the    *)
(* planner's skips have something to do, and what the documentation says   *)
(* of a run where the code does something else.                            *)
(***************************************************************************)
EXTENDS TeamRun

Does(role, after) == [role |-> role, after |-> after, checks |-> None,
                      skippable |-> FALSE, added |-> FALSE]
May(role, after) == [Does(role, after) EXCEPT !.skippable = TRUE]
Verifies(s) == [Does("verifier", {}) EXCEPT !.checks = s, !.skippable = TRUE]

\* A builder and nothing else: the floor adds the rest.
Lean == <<Does("builder", {})>>

\* A verifier whose plan says it may be skipped, a step before the builder that
\* really may, and the builder first in the list.
Backwards == <<Does("builder", {3}), Does("planner", {}), May("test-designer", {2}),
               Verifies(1)>>

\* A gatekeeper in the middle, and after it a writer that is no builder, may be
\* skipped and is checked.
Mixed == <<Does("planner", {}), Does("gatekeeper", {1}), Does("builder", {1}),
           May("docs-writer", {2, 3}), Verifies(4)>>

\* No builder, a root that may go after which two steps would be first, and a
\* step that is no work.
Question == <<May("researcher", {}), Does("planner", {1}), May("advisor", {1}),
              Does("learner", {3})>>

MCProposals == {Lean, Backwards, Mixed, Question}

MCSuggestions == {<<"test-designer", "verifier">>, <<"docs-writer", "researcher">>,
                  <<"builder", "advisor">>}

Reads     == [writes |-> FALSE, required |-> {}]
Sensitive == [writes |-> TRUE, required |-> {"security-reviewer"}]

MCSignals == {Reads, Sensitive}

=============================================================================
