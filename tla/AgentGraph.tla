------------------------------ MODULE AgentGraph ------------------------------
(***************************************************************************)
(* The change agent's graph: the state dictionary of one run and what each *)
(* node makes of it.  A run shares nothing with other runs, so the module  *)
(* has no variables: Results(s, f) is the set of states that the node of s *)
(* can leave behind, together with the edge that the graph then takes.     *)
(*                                                                         *)
(* Of the dictionary it keeps what the edges and the stored AgentRun       *)
(* depend on.  review_reason is a text of parts joined by "; "; reasons is *)
(* the set of those parts, told apart by where they come from.             *)
(***************************************************************************)

WorkNode == {"fetch_notice", "analyze_documents", "extract_policy", "build_policy",
             "compare_policy"}
TerminalNode == {"await_review", "complete", "fail"}
Reason == {"documents", "policy", "error", "archive"}
RunStatus == {"running", "completed", "failed", "review_required"}

GraphState ==
    [node     : WorkNode \cup TerminalNode \cup {"end"},
     notice   : BOOLEAN,        \* a SourceNotice was fetched
     package  : BOOLEAN,        \* policy_package is not None
     open     : BOOLEAN,        \* field_reviews is not empty
     error    : BOOLEAN,        \* error is set
     required : BOOLEAN,        \* review_required
     reasons  : SUBSET Reason,  \* review_reason
     status   : RunStatus]      \* of the AgentRun, once there is one

\* What AgentExecutionService.run invokes the graph with.
Started ==
    [node     |-> "fetch_notice",
     notice   |-> FALSE,
     package  |-> FALSE,
     open     |-> FALSE,
     error    |-> FALSE,
     required |-> FALSE,
     reasons  |-> {},
     status   |-> "running"]

\* The conditional edge behind a node: to fail once error is set.
Route(s, next) == [s EXCEPT !.node = IF s.error THEN "fail" ELSE next]

\* _failure: the exception replaces whatever reason there was.
Failure(s) == [s EXCEPT !.error = TRUE, !.required = TRUE, !.reasons = {"error"}]

Fetched(s) == Route([s EXCEPT !.notice = TRUE], "analyze_documents")

NotFetched(s) == Route(Failure(s), "analyze_documents")

\* The corpus asks for a review when documents disagree or cannot be read.
AnalyzeDocuments(s) ==
    {Route(t, "extract_policy") :
        t \in {Failure(s),
               s,
               [s EXCEPT !.required = TRUE, !.reasons = {"documents"}]}}

ExtractPolicy(s) == {Route(t, "build_policy") : t \in {Failure(s), s}}

\* Mutant: the builder's review_required replaces that of the documents.
BuiltReviewOnly(s, package, open, review) ==
    [s EXCEPT !.package = package,
              !.open = open,
              !.required = review,
              !.reasons = IF review THEN @ \cup {"policy"} ELSE @]

\* The builder has reasons of its own for a review: evidence issues, and
\* fields that are not approved.
Built(s, package, open, review) ==
    [s EXCEPT !.package = package,
              !.open = open,
              !.required = @ \/ review,
              !.reasons = IF review THEN @ \cup {"policy"} ELSE @]

\* There is a package if some condition makes a rule.  A proposed field is a
\* field that is not approved, hence a reason for a review.
BuildPolicy(s) ==
    {Route(t, "compare_policy") :
        t \in {Failure(s)} \cup
              {Built(s, package, open, open \/ issue) :
                  package \in BOOLEAN, open \in BOOLEAN, issue \in BOOLEAN}}

\* _route_after_build
RouteAfterBuild(s) ==
    [s EXCEPT !.node = IF s.error THEN "fail"
                       ELSE IF s.required THEN "await_review"
                       ELSE "complete"]

\* A run without a package fails here.  The diff of two packages that the
\* builder made cannot fail.
ComparePolicy(s) == RouteAfterBuild(IF s.package THEN s ELSE Failure(s))

\* The AgentRun of a terminal node.
AgentRunOf(s) ==
    [s EXCEPT !.node = "end",
              !.required = s.node # "complete",
              !.status = CASE s.node = "await_review" -> "review_required"
                           [] s.node = "complete" -> "completed"
                           [] s.node = "fail" -> "failed"]

\* What a node other than fetch_notice can leave behind.
Results(s) ==
    CASE s.node = "analyze_documents" -> AnalyzeDocuments(s)
      [] s.node = "extract_policy" -> ExtractPolicy(s)
      [] s.node = "build_policy" -> BuildPolicy(s)
      [] s.node = "compare_policy" -> {ComparePolicy(s)}
      [] s.node \in TerminalNode -> {AgentRunOf(s)}

\* Mutant: the failed archive is noted, but the run keeps its status.
ReviewCopyNoted(s) == [s EXCEPT !.reasons = @ \cup {"archive"}]

\* Mutant: a status that AgentRunStatus does not list, which model_copy accepts.
UnlistedStatus(s) ==
    [s EXCEPT !.status = "review",
              !.required = TRUE,
              !.reasons = @ \cup {"archive"}]

\* AgentExecutionService.run, when archive_notice could not copy an
\* attachment: whatever the run's status was, it awaits a review.
ReviewCopyMissing(s) ==
    [s EXCEPT !.status = "review_required",
              !.required = TRUE,
              !.reasons = @ \cup {"archive"}]
===============================================================================
