---------------------------- MODULE NoticeDiscovery ----------------------------
(***************************************************************************)
(* Discovery requests and direct agent runs against the table of stored    *)
(* notices.                                                                *)
(*                                                                         *)
(* A discovery reads the boards once, walks down the list, skips a URL     *)
(* that some stored notice has as its source_url, runs the agent on any    *)
(* other one and stops after max_new_notices runs.  A direct run           *)
(* (POST /api/agent-runs) takes its URL from the administrator and asks    *)
(* nothing.  Both are served by threads of the same pool, the workers; a   *)
(* run takes minutes, between the look at the table and the write to it.   *)
(***************************************************************************)
EXTENDS Naturals, Sequences, AgentGraph

CONSTANTS
    Worker,       \* request threads
    Url,          \* URLs of notices
    NoUrl,        \* the source_url of an absent row
    Key,          \* notice keys, board and number
    KeyOf,        \* the key that the parser finds in a URL
    Unreachable,  \* URLs whose page can never be fetched and parsed
    Limit,        \* the values of max_new_notices that requests carry
    Listing,      \* the URLs on the boards, board after board, at various times
    Requested     \* URLs that administrators run directly

ASSUME DiscoveryAssumption ==
    /\ NoUrl \notin Url
    /\ KeyOf \in [Url -> Key]
    /\ Unreachable \subseteq Url
    /\ Limit \subseteq 1..5
    /\ Listing \subseteq Seq(Url)
    /\ Requested \subseteq Url

VARIABLES
    notices,  \* source_notices.source_url
    req,      \* the request each worker serves
    settled   \* from now on no request is cut off

vars == <<notices, req, settled>>

\* "looking" at the URL of the loop, "starting" the agent on it, in the
\* "graph", "archived" in the review bucket, "merging" into the tables.
Request ==
    [at     : {"idle", "looking", "starting", "graph", "archived", "merging"},
     direct : BOOLEAN,
     urls   : Seq(Url),
     index  : Nat,
     limit  : 0..5,
     done   : Seq(Url),           \* the URLs of processed_runs
     run    : GraphState,
     read   : Url \cup {NoUrl}]   \* the source_url that the merge has read

Idle == [at     |-> "idle",
         direct |-> FALSE,
         urls   |-> <<>>,
         index  |-> 1,
         limit  |-> 0,
         done   |-> <<>>,
         run    |-> Started,
         read   |-> NoUrl]

\* A request that runs the agent does so on a URL of its list.
OnList(q) == q.at \notin {"idle", "looking"} => q.index \in DOMAIN q.urls

TypeOK ==
    /\ notices \in [Key -> Url \cup {NoUrl}]
    /\ req \in [Worker -> Request]
    /\ settled \in BOOLEAN
    /\ \A w \in Worker : OnList(req[w])

Init ==
    /\ notices = [k \in Key |-> NoUrl]
    /\ req = [w \in Worker |-> Idle]
    /\ settled = FALSE
-------------------------------------------------------------------------------
UrlAt(w) == req[w].urls[req[w].index]

KeyAt(w) == KeyOf[UrlAt(w)]

HasSourceUrl(u) == \E k \in Key : notices[k] = u

Stored(u) == notices[KeyOf[u]] # NoUrl

Finish(w) == req' = [req EXCEPT ![w] = Idle]

Goto(w, at) == req' = [req EXCEPT ![w].at = at]
-------------------------------------------------------------------------------
(***************************************************************************)
(* The loop of NoticeDiscoveryService.run, and the direct run.             *)
(***************************************************************************)
\* Mutant: the adapter does not remember the URLs it has seen.
AnyList(list) == TRUE

\* discover_source_detail_urls drops the second occurrence of a URL.
WithoutRepeats(list) == \A i, j \in DOMAIN list : list[i] = list[j] => i = j

\* Boards that cannot be read end the request at once: nothing changes.
Discover(w, list, limit) ==
    /\ req[w].at = "idle"
    /\ WithoutRepeats(list)
    /\ req' = [req EXCEPT ![w] = [Idle EXCEPT !.at = "looking",
                                              !.urls = list,
                                              !.limit = limit]]
    /\ UNCHANGED <<notices, settled>>

RunDirectly(w, u) ==
    /\ req[w].at = "idle"
    /\ req' = [req EXCEPT ![w] = [Idle EXCEPT !.at = "starting",
                                              !.direct = TRUE,
                                              !.urls = <<u>>,
                                              !.limit = 1]]
    /\ UNCHANGED <<notices, settled>>

Looking(w) == req[w].at = "looking" /\ req[w].index \in DOMAIN req[w].urls

SkipStored(w) ==
    /\ Looking(w)
    /\ HasSourceUrl(UrlAt(w))
    /\ req' = [req EXCEPT ![w].index = @ + 1]
    /\ UNCHANGED <<notices, settled>>

RunNew(w) ==
    /\ Looking(w)
    /\ ~HasSourceUrl(UrlAt(w))
    /\ Goto(w, "starting")
    /\ UNCHANGED <<notices, settled>>

EndOfList(w) ==
    /\ req[w].at = "looking"
    /\ req[w].index \notin DOMAIN req[w].urls
    /\ Finish(w)
    /\ UNCHANGED <<notices, settled>>
-------------------------------------------------------------------------------
(***************************************************************************)
(* AgentExecutionService.run.                                              *)
(***************************************************************************)
\* create_default_runtime builds the OpenAI clients.
InvokeGraph(w) ==
    /\ req[w].at = "starting"
    /\ req' = [req EXCEPT ![w].at = "graph", ![w].run = Started]
    /\ UNCHANGED <<notices, settled>>

AtNode(w, node) == req[w].at = "graph" /\ req[w].run.node = node

FetchSucceeds(w) ==
    /\ AtNode(w, "fetch_notice")
    /\ UrlAt(w) \notin Unreachable
    /\ req' = [req EXCEPT ![w].run = Fetched(@)]
    /\ UNCHANGED <<notices, settled>>

FetchFails(w) ==
    /\ AtNode(w, "fetch_notice")
    /\ req' = [req EXCEPT ![w].run = NotFetched(@)]
    /\ UNCHANGED <<notices, settled>>

RunNode(w) ==
    /\ req[w].at = "graph"
    /\ req[w].run.node \notin {"fetch_notice", "end"}
    /\ \E s \in Results(req[w].run) : req' = [req EXCEPT ![w].run = s]
    /\ UNCHANGED <<notices, settled>>

\* archive_notice, if there is a notice.
Archive(w) ==
    /\ AtNode(w, "end")
    /\ Goto(w, "archived")
    /\ UNCHANGED <<notices, settled>>

ArchiveFails(w) ==
    /\ AtNode(w, "end")
    /\ req[w].run.notice
    /\ req' = [req EXCEPT ![w].at = "archived", ![w].run = ReviewCopyMissing(@)]
    /\ UNCHANGED <<notices, settled>>

\* save_execution, the SELECT of session.merge.
MergeRead(w) ==
    /\ req[w].at = "archived"
    /\ req' = [req EXCEPT ![w].at = "merging",
                          ![w].read = IF req[w].run.notice
                                        THEN notices[KeyAt(w)]
                                        ELSE NoUrl]
    /\ UNCHANGED <<notices, settled>>

\* Mutant: the limit counts the runs that found a notice.
CountNotices(q) == IF q.run.notice THEN Append(q.done, q.urls[q.index]) ELSE q.done

Processed(q) == Append(q.done, q.urls[q.index])

\* Mutant: one run more than was asked for.
OneMore(q) ==
    IF Len(Processed(q)) > q.limit
      THEN Idle
      ELSE [q EXCEPT !.at = "looking", !.index = @ + 1, !.done = Processed(q)]

\* Mutant: the URL just run is looked at again.
SameUrl(q) ==
    IF Len(Processed(q)) >= q.limit
      THEN Idle
      ELSE [q EXCEPT !.at = "looking", !.done = Processed(q)]

\* The loop after a run: the next URL, unless the limit is reached.
NextUrl(q) ==
    IF Len(Processed(q)) >= q.limit
      THEN Idle
      ELSE [Idle EXCEPT !.at = "looking",
                        !.urls = q.urls,
                        !.index = q.index + 1,
                        !.limit = q.limit,
                        !.done = Processed(q)]

\* An UPDATE sets the columns that differ from what was read.
MergedUrl(w) == IF req[w].read = UrlAt(w) THEN notices[KeyAt(w)] ELSE UrlAt(w)

\* A merge that has read no row inserts one, which fails when the row exists.
InsertClashes(w) ==
    req[w].run.notice /\ req[w].read = NoUrl /\ notices[KeyAt(w)] # NoUrl

\* save_execution commits the run, the notice and the package.
SaveExecution(w) ==
    /\ req[w].at = "merging"
    /\ ~InsertClashes(w)
    /\ notices' = IF req[w].run.notice
                    THEN [notices EXCEPT ![KeyAt(w)] = MergedUrl(w)]
                    ELSE notices
    /\ req' = [req EXCEPT ![w] = NextUrl(@)]
    /\ UNCHANGED settled

\* The request ends with a 500, and the run is not stored.
SaveClashes(w) ==
    /\ req[w].at = "merging"
    /\ InsertClashes(w)
    /\ Finish(w)
    /\ UNCHANGED <<notices, settled>>

\* Any other exception, a runtime that is not configured (503), or a
\* process that stops.
Abort(w) ==
    /\ ~settled
    /\ req[w].at # "idle"
    /\ Finish(w)
    /\ UNCHANGED <<notices, settled>>

\* An assumption about the deployment and no step of the program: the process
\* stays up and is configured from some time on.
Settle == settled' = TRUE /\ UNCHANGED <<notices, req>>
-------------------------------------------------------------------------------
Run(w) ==
    \/ InvokeGraph(w)
    \/ FetchSucceeds(w)
    \/ FetchFails(w)
    \/ RunNode(w)
    \/ Archive(w)
    \/ ArchiveFails(w)
    \/ MergeRead(w)
    \/ SaveExecution(w)
    \/ SaveClashes(w)

Loop(w) == SkipStored(w) \/ RunNew(w) \/ EndOfList(w)

Next ==
    \/ \E w \in Worker :
          \/ \E list \in Listing, limit \in Limit : Discover(w, list, limit)
          \/ \E u \in Requested : RunDirectly(w, u)
          \/ Loop(w)
          \/ Run(w)
          \/ Abort(w)
    \/ Settle

Spec == Init /\ [][Next]_vars

\* A thread of the pool keeps executing its request.  Administrators keep
\* asking for discoveries, and a request that waits in the queue of the pool is
\* served at some time although other requests take the threads as well.  A
\* page that can be fetched at all is fetched at some time, if it is tried
\* again and again.
Fairness ==
    /\ \A w \in Worker : WF_vars(Loop(w) \/ Run(w))
    /\ SF_vars(\E w \in Worker, list \in Listing, limit \in Limit : Discover(w, list, limit))
    /\ WF_vars(Settle)
    /\ \A u \in Url : SF_vars(\E w \in Worker : FetchSucceeds(w) /\ UrlAt(w) = u)

FairSpec == Spec /\ Fairness
-------------------------------------------------------------------------------
(***************************************************************************)
(* Properties.                                                             *)
(***************************************************************************)
\* The runs whose AgentRun is final and about to be stored.
Final(w) == req[w].at \in {"archived", "merging"}

\* A run is stored as completed only if it has a notice and a package, left
\* no field review open, and neither the documents nor the builder nor the
\* archive gave a reason for a review: node by node the graph only ever adds
\* to what must be reviewed.
CompletedIsClean ==
    \A w \in Worker :
        Final(w) /\ req[w].run.status = "completed"
            => /\ req[w].run.notice
               /\ req[w].run.package
               /\ ~req[w].run.open
               /\ req[w].run.reasons = {}

\* review_required, review_reason and status are three columns or fields that
\* several nodes and the execution service write: a stored run that does not
\* say completed is in the review list and says why, and only such a run.
ReviewHasReason ==
    \A w \in Worker :
        Final(w) => /\ req[w].run.required <=> req[w].run.status # "completed"
                    /\ req[w].run.required <=> req[w].run.reasons # {}

\* Each URL above the index belongs to a notice that is stored, or was run by
\* this very request.
AboveHandled(q) ==
    q.at # "idle" =>
        \A i \in DOMAIN q.urls :
            i < q.index => \/ Stored(q.urls[i])
                           \/ \E j \in DOMAIN q.done : q.done[j] = q.urls[i]

\* A discovery works from the top of the list and leaves nothing new behind
\* it, whatever other requests store or replace meanwhile.
NewestFirst == \A w \in Worker : AboveHandled(req[w])

\* No request runs the agent twice on a URL, or more often than it was asked
\* to: a URL whose page cannot be fetched is not in the table afterwards, so
\* only the order of the loop and the distinct URLs of the list prevent it.
NoUrlTwice ==
    \A w \in Worker :
        LET q == req[w]
        IN  q.at # "idle" =>
                /\ Len(q.done) < q.limit
                /\ WithoutRepeats(q.done)
                /\ q.at # "looking" =>
                      \A i \in DOMAIN q.done : q.done[i] # q.urls[q.index]

\* A notice that is always on the boards is processed eventually, although pages
\* that can never be fetched, which every discovery tries again, stay above
\* it: there are fewer of them than a discovery runs URLs.
EveryNoticeRuns ==
    \A u \in Url \ Unreachable :
        (\A list \in Listing : \E i \in DOMAIN list : list[i] = u) => <>Stored(u)

\* docs/contracts/api.md: the agent is not run again on the URL of a notice
\* that is stored.
StoredNotRunAgain ==
    \A w \in Worker :
        ~req[w].direct /\ req[w].at \notin {"idle", "looking"} => ~HasSourceUrl(UrlAt(w))
-------------------------------------------------------------------------------
(***************************************************************************)
(* The inductive invariant behind the safety properties.                   *)
(***************************************************************************)
\* What the state of a run says at each node.
RunConsistent(s) ==
    /\ s.node \notin {"fetch_notice", "fail", "end"} => s.notice
    /\ s.node \in {"fetch_notice", "analyze_documents", "extract_policy"} => ~s.open
    /\ s.node \in WorkNode => ~s.error
    /\ s.node = "complete" => s.package /\ ~s.required
    /\ s.node \in {"await_review", "fail"} => s.required
    /\ s.open => s.required
    /\ s.required <=> s.reasons # {}
    /\ s.node = "end" =>
          /\ s.required <=> s.status # "completed"
          /\ ~s.required => s.notice /\ s.package

\* The row of a key holds a URL of that key.
KeysMatch == \A k \in Key : notices[k] # NoUrl => KeyOf[notices[k]] = k

\* The URLs that a request has run are a part of the list above its index.
DoneAbove(q) ==
    \A i \in DOMAIN q.done :
        \E j \in DOMAIN q.urls : j < q.index /\ q.done[i] = q.urls[j]

RunsConsistent ==
    \A w \in Worker :
        RunConsistent(req[w].run) /\ (Final(w) => req[w].run.node = "end")

\* A request walks down a list without repeats, below its limit, and has run
\* no URL twice.
ListWalked(q) ==
    q.at # "idle" =>
        /\ WithoutRepeats(q.urls)
        /\ DoneAbove(q)
        /\ Len(q.done) < q.limit
        /\ WithoutRepeats(q.done)

ListsWalked == \A w \in Worker : ListWalked(req[w])

DiscoveryInvariant ==
    /\ KeysMatch
    /\ RunsConsistent
    /\ ListsWalked
===============================================================================
