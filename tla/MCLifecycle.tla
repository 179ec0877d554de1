----------------------------- MODULE MCLifecycle -----------------------------
(***************************************************************************)
(* A tool that takes updates, with one phase and one job at a time; a tool *)
(* that takes configuration, with two phases; files that must be refused.  *)
(* j1 is where it belongs; the router put j2 into the queue of another     *)
(* phase.                                                                  *)
(***************************************************************************)
EXTENDS Lifecycle

CONSTANTS j1, j2

P(name, limit, priority) ==
    [name |-> name, kinds |-> {"host"}, concurrencyPerHost |-> limit,
     timeoutSeconds |-> 0, priorityHint |-> priority]
M(tool, phases) == [tool |-> tool, version |-> "1", phases |-> phases]

OnePhase == M("t", <<P("p1", 1, 0)>>)
TwoPhases == M("t", <<P("p2", 0, 9), P("p1", 0, 0)>>)

Start(configurable, file, mode) ==
    [tool |-> [name |-> "t", configurable |-> configurable, updatable |-> ~configurable],
     file |-> file, mode |-> mode]

MCSetup ==
    {Start(FALSE, OnePhase, m) : m \in {"serve", "once", "validate"}} \cup
    {Start(TRUE, TwoPhases, "serve")} \cup
    {Start(TRUE, f, "serve") : f \in {
        NoFile,
        M("t", <<>>),
        M("t", <<P("p1", 1, 0), P("p1", 1, 0)>>),
        M("t", <<P("p1", 1, 10)>>),
        M("other", <<P("p1", 1, 0)>>)}}

MCIdentifier == {"t", "other", "p1", "p2", "host"}
MCJob == {j1, j2}
MCQueueOf == [j \in MCJob |-> "p1"]
MCPhaseOf == [j \in MCJob |-> IF j = j1 THEN "p1" ELSE "p2"]
=============================================================================
