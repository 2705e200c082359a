------------------------- MODULE NoticeDiscoveryProofs -------------------------
(***************************************************************************)
(* Theorems about NoticeDiscovery and the graph it runs.                   *)
(***************************************************************************)
EXTENDS NoticeDiscovery, TLAPS

USE DiscoveryAssumption

-------------------------------------------------------------------------------
(***************************************************************************)
(* The graph.                                                              *)
(***************************************************************************)
\* A run starts as a well-typed, consistent state.
LEMMA StartedConsistent ==
    Started \in GraphState /\ RunConsistent(Started)
  BY DEF Started, GraphState, RunConsistent, WorkNode, TerminalNode, Reason, RunStatus

\* Whether the page is fetched or not, the state stays typed and consistent.
LEMMA FetchConsistent ==
  ASSUME NEW s \in GraphState, RunConsistent(s), s.node = "fetch_notice"
  PROVE  /\ Fetched(s) \in GraphState /\ RunConsistent(Fetched(s))
         /\ NotFetched(s) \in GraphState /\ RunConsistent(NotFetched(s))
  BY DEF Fetched, NotFetched, Route, Failure, GraphState, RunConsistent, WorkNode,
         TerminalNode, Reason, RunStatus

\* Every node that follows keeps the state typed and consistent: the edges
\* lead to complete only with a package and without a reason for a review.
LEMMA NodeConsistent ==
  ASSUME NEW s \in GraphState, RunConsistent(s), s.node \notin {"fetch_notice", "end"},
         NEW t \in Results(s)
  PROVE  t \in GraphState /\ RunConsistent(t)
<1> USE DEF GraphState, WorkNode, TerminalNode, Reason, RunStatus
<1>1. CASE s.node = "analyze_documents"
  <2>1. t \in AnalyzeDocuments(s)
    BY <1>1 DEF Results
  <2>2. PICK r \in {Failure(s), s,
                    [s EXCEPT !.required = TRUE, !.reasons = {"documents"}]} :
             t = Route(r, "extract_policy")
    BY <2>1 DEF AnalyzeDocuments
  <2>3. CASE r = Failure(s)
    BY <1>1, <2>2, <2>3 DEF Route, Failure, RunConsistent
  <2>4. CASE r = s
    BY <1>1, <2>2, <2>4 DEF Route, RunConsistent
  <2>5. CASE r = [s EXCEPT !.required = TRUE, !.reasons = {"documents"}]
    BY <1>1, <2>2, <2>5 DEF Route, RunConsistent
  <2> QED
    BY <2>2, <2>3, <2>4, <2>5
<1>2. CASE s.node = "extract_policy"
  <2>1. t \in ExtractPolicy(s)
    BY <1>2 DEF Results
  <2>2. PICK r \in {Failure(s), s} : t = Route(r, "build_policy")
    BY <2>1 DEF ExtractPolicy
  <2>3. CASE r = Failure(s)
    BY <1>2, <2>2, <2>3 DEF Route, Failure, RunConsistent
  <2>4. CASE r = s
    BY <1>2, <2>2, <2>4 DEF Route, RunConsistent
  <2> QED
    BY <2>2, <2>3, <2>4
<1>3. CASE s.node = "build_policy"
  <2>1. t \in BuildPolicy(s)
    BY <1>3 DEF Results
  <2>2. CASE t = Route(Failure(s), "compare_policy")
    BY <1>3, <2>2 DEF Route, Failure, RunConsistent
  <2>3. CASE \E package \in BOOLEAN, open \in BOOLEAN, issue \in BOOLEAN :
                t = Route(Built(s, package, open, open \/ issue), "compare_policy")
    <3>1. PICK package \in BOOLEAN, open \in BOOLEAN, issue \in BOOLEAN :
                t = Route(Built(s, package, open, open \/ issue), "compare_policy")
      BY <2>3
    <3> QED
      BY <1>3, <3>1 DEF Route, Built, RunConsistent
  <2> QED
    BY <2>1, <2>2, <2>3 DEF BuildPolicy
<1>4. CASE s.node = "compare_policy"
  <2>1. t = ComparePolicy(s)
    BY <1>4 DEF Results
  <2> QED
    BY <1>4, <2>1 DEF ComparePolicy, RouteAfterBuild, Failure, RunConsistent
<1>5. CASE s.node \in TerminalNode
  <2>1. t = AgentRunOf(s)
    BY <1>5 DEF Results
  <2> QED
    BY <1>5, <2>1 DEF AgentRunOf, RunConsistent
<1> QED
  BY <1>1, <1>2, <1>3, <1>4, <1>5

\* A failed copy to the review bucket keeps a finished run consistent.
LEMMA ArchiveConsistent ==
  ASSUME NEW s \in GraphState, RunConsistent(s), s.node = "end", s.notice
  PROVE  /\ ReviewCopyMissing(s) \in GraphState
         /\ RunConsistent(ReviewCopyMissing(s))
         /\ ReviewCopyMissing(s).node = "end"
  BY DEF ReviewCopyMissing, GraphState, RunConsistent, WorkNode, TerminalNode, Reason,
         RunStatus
-------------------------------------------------------------------------------
(***************************************************************************)
(* Types.                                                                  *)
(***************************************************************************)
\* A step that replaces one request by a well-typed one.
LEMMA RequestReplaced ==
  ASSUME TypeOK, NEW w \in Worker, NEW q \in Request, OnList(q),
         req' = [req EXCEPT ![w] = q],
         notices' \in [Key -> Url \cup {NoUrl}], settled' \in BOOLEAN
  PROVE  TypeOK'
  BY DEF TypeOK

\* The idle request is well typed.
LEMMA IdleTyped == Idle \in Request /\ OnList(Idle)
  BY StartedConsistent DEF Idle, Request, OnList

\* The request that follows a run is well typed, and runs nothing unlooked.
LEMMA NextUrlTyped ==
  ASSUME NEW q \in Request, q.index \in DOMAIN q.urls
  PROVE  NextUrl(q) \in Request /\ OnList(NextUrl(q))
<1>1. Processed(q) \in Seq(Url)
  <2>1. q.urls \in Seq(Url) /\ q.done \in Seq(Url)
    BY DEF Request
  <2>2. q.urls[q.index] \in Url
    BY <2>1
  <2> QED
    BY <2>1, <2>2 DEF Processed
<1>2. CASE Len(Processed(q)) >= q.limit
  BY <1>2, IdleTyped DEF NextUrl
<1>3. CASE ~(Len(Processed(q)) >= q.limit)
  <2> DEFINE r == [Idle EXCEPT !.at = "looking", !.urls = q.urls, !.index = q.index + 1,
                               !.limit = q.limit, !.done = Processed(q)]
  <2>1. q.urls \in Seq(Url) /\ q.index + 1 \in Nat /\ q.limit \in 0..5
    BY DEF Request
  <2>2. r \in Request /\ OnList(r)
    BY <1>1, <2>1, IdleTyped DEF Request, OnList
  <2> QED
    BY <1>3, <2>2 DEF NextUrl
<1> QED
  BY <1>2, <1>3

\* Every step keeps the types.
LEMMA TypeStep ==
  ASSUME TypeOK, RunsConsistent, [Next]_vars
  PROVE  TypeOK'
<1> USE DEF Finish, Goto
<1>1. ASSUME NEW w \in Worker, NEW list \in Listing, NEW limit \in Limit,
             Discover(w, list, limit)
      PROVE  TypeOK'
  <2> DEFINE q == [Idle EXCEPT !.at = "looking", !.urls = list, !.limit = limit]
  <2>0. list \in Seq(Url) /\ limit \in 0..5 /\ <<>> \in Seq(Url)
    OBVIOUS
  <2>1. q \in Request /\ OnList(q)
    BY <2>0, StartedConsistent DEF Idle, Request, OnList
  <2> QED
    BY <1>1, <2>1, RequestReplaced DEF Discover, TypeOK
<1>2. ASSUME NEW w \in Worker, NEW u \in Requested, RunDirectly(w, u)
      PROVE  TypeOK'
  <2> DEFINE q == [Idle EXCEPT !.at = "starting", !.direct = TRUE, !.urls = <<u>>,
                               !.limit = 1]
  <2>0. <<u>> \in Seq(Url) /\ 1 \in DOMAIN <<u>> /\ 1 \in 0..5 /\ <<>> \in Seq(Url)
    OBVIOUS
  <2>1. q \in Request /\ OnList(q)
    BY <2>0, StartedConsistent DEF Idle, Request, OnList
  <2> QED
    BY <1>2, <2>1, RequestReplaced DEF RunDirectly, TypeOK
<1>3. ASSUME NEW w \in Worker, Loop(w)
      PROVE  TypeOK'
  <2>1. CASE SkipStored(w)
    <3> DEFINE q == [req[w] EXCEPT !.index = @ + 1]
    <3>0. req[w] \in Request /\ req[w].at = "looking"
      BY <2>1 DEF TypeOK, SkipStored, Looking
    <3>1. q \in Request /\ q.at = "looking"
      BY <3>0 DEF Request
    <3>2. OnList(q)
      BY <3>1 DEF OnList
    <3> QED
      BY <2>1, <3>1, <3>2, RequestReplaced DEF SkipStored, TypeOK
  <2>2. CASE RunNew(w)
    <3> DEFINE q == [req[w] EXCEPT !.at = "starting"]
    <3>0. req[w] \in Request /\ req[w].index \in DOMAIN req[w].urls
      BY <2>2 DEF TypeOK, RunNew, Looking
    <3>1. q \in Request /\ OnList(q)
      BY <3>0 DEF Request, OnList
    <3> QED
      BY <2>2, <3>1, RequestReplaced DEF RunNew, TypeOK
  <2>3. CASE EndOfList(w)
    BY <2>3, IdleTyped, RequestReplaced DEF EndOfList, TypeOK
  <2> QED
    BY <1>3, <2>1, <2>2, <2>3 DEF Loop
<1>4. ASSUME NEW w \in Worker, Run(w)
      PROVE  TypeOK'
  <2>0. req[w] \in Request /\ OnList(req[w]) /\ RunConsistent(req[w].run)
    BY DEF TypeOK, RunsConsistent
  <2>1. CASE InvokeGraph(w)
    <3> DEFINE q == [req[w] EXCEPT !.at = "graph", !.run = Started]
    <3>1. q \in Request /\ OnList(q)
      BY <2>0, <2>1, StartedConsistent DEF InvokeGraph, Request, OnList
    <3> QED
      BY <2>1, <3>1, RequestReplaced DEF InvokeGraph, TypeOK
  <2>2. CASE FetchSucceeds(w)
    <3> DEFINE q == [req[w] EXCEPT !.run = Fetched(@)]
    <3>1. q \in Request /\ OnList(q)
      BY <2>0, <2>2, FetchConsistent DEF FetchSucceeds, AtNode, Request, OnList
    <3> QED
      BY <2>2, <3>1, RequestReplaced DEF FetchSucceeds, TypeOK
  <2>3. CASE FetchFails(w)
    <3> DEFINE q == [req[w] EXCEPT !.run = NotFetched(@)]
    <3>1. q \in Request /\ OnList(q)
      BY <2>0, <2>3, FetchConsistent DEF FetchFails, AtNode, Request, OnList
    <3> QED
      BY <2>3, <3>1, RequestReplaced DEF FetchFails, TypeOK
  <2>4. CASE RunNode(w)
    <3>1. PICK t \in Results(req[w].run) : req' = [req EXCEPT ![w].run = t]
      BY <2>4 DEF RunNode
    <3> DEFINE q == [req[w] EXCEPT !.run = t]
    <3>2. q \in Request /\ OnList(q)
      BY <2>0, <2>4, NodeConsistent DEF RunNode, Request, OnList
    <3> QED
      BY <2>4, <3>1, <3>2, RequestReplaced DEF RunNode, TypeOK
  <2>5. CASE Archive(w)
    <3> DEFINE q == [req[w] EXCEPT !.at = "archived"]
    <3>1. q \in Request /\ OnList(q)
      BY <2>0, <2>5 DEF Archive, AtNode, Request, OnList
    <3> QED
      BY <2>5, <3>1, RequestReplaced DEF Archive, TypeOK
  <2>6. CASE ArchiveFails(w)
    <3> DEFINE q == [req[w] EXCEPT !.at = "archived", !.run = ReviewCopyMissing(@)]
    <3>1. q \in Request /\ OnList(q)
      BY <2>0, <2>6, ArchiveConsistent DEF ArchiveFails, AtNode, Request, OnList
    <3> QED
      BY <2>6, <3>1, RequestReplaced DEF ArchiveFails, TypeOK
  <2>7. CASE MergeRead(w)
    <3> DEFINE q == [req[w] EXCEPT !.at = "merging",
                                   !.read = IF req[w].run.notice
                                              THEN notices[KeyAt(w)]
                                              ELSE NoUrl]
    <3>1. KeyAt(w) \in Key
      BY <2>0, <2>7 DEF MergeRead, KeyAt, UrlAt, Request, OnList
    <3>2. q \in Request /\ OnList(q)
      BY <2>0, <2>7, <3>1 DEF MergeRead, TypeOK, Request, OnList
    <3> QED
      BY <2>7, <3>2, RequestReplaced DEF MergeRead, TypeOK
  <2>8. CASE SaveExecution(w)
    <3>1. req[w].index \in DOMAIN req[w].urls
      BY <2>0, <2>8 DEF SaveExecution, OnList
    <3>2. UrlAt(w) \in Url /\ KeyAt(w) \in Key
      BY <2>0, <3>1 DEF KeyAt, UrlAt, Request
    <3>3. notices' \in [Key -> Url \cup {NoUrl}]
      BY <2>8, <3>2 DEF SaveExecution, MergedUrl, TypeOK
    <3> QED
      BY <2>0, <2>8, <3>1, <3>3, NextUrlTyped, RequestReplaced DEF SaveExecution, TypeOK
  <2>9. CASE SaveClashes(w)
    BY <2>9, IdleTyped, RequestReplaced DEF SaveClashes, TypeOK
  <2> QED
    BY <1>4, <2>1, <2>2, <2>3, <2>4, <2>5, <2>6, <2>7, <2>8, <2>9 DEF Run
<1>5. ASSUME NEW w \in Worker, Abort(w)
      PROVE  TypeOK'
  BY <1>5, IdleTyped, RequestReplaced DEF Abort, TypeOK
<1>6. CASE Settle
  BY <1>6 DEF Settle, TypeOK
<1>7. CASE UNCHANGED vars
  BY <1>7 DEF vars, TypeOK
<1> QED
  BY <1>1, <1>2, <1>3, <1>4, <1>5, <1>6, <1>7 DEF Next
-------------------------------------------------------------------------------
(***************************************************************************)
(* The runs.                                                               *)
(***************************************************************************)
\* A step that replaces one request by one whose run is consistent.
LEMMA RunReplaced ==
  ASSUME TypeOK, RunsConsistent, NEW w \in Worker, NEW q,
         req' = [req EXCEPT ![w] = q], RunConsistent(q.run),
         q.at \in {"archived", "merging"} => q.run.node = "end"
  PROVE  RunsConsistent'
  BY DEF TypeOK, RunsConsistent, Final

\* Every step keeps the runs consistent, and only a run that has left the
\* graph is archived and stored.
LEMMA RunsStep ==
  ASSUME TypeOK, RunsConsistent, [Next]_vars
  PROVE  RunsConsistent'
<1> USE DEF Finish, Goto
<1>0. /\ RunConsistent(Idle.run)
      /\ Idle.at = "idle"
  BY StartedConsistent DEF Idle
<1>1. ASSUME NEW w \in Worker, NEW list \in Listing, NEW limit \in Limit,
             Discover(w, list, limit)
      PROVE  RunsConsistent'
  <2> DEFINE q == [Idle EXCEPT !.at = "looking", !.urls = list, !.limit = limit]
  <2>1. q.run = Started /\ q.at = "looking"
    BY DEF Idle
  <2> QED
    BY <1>1, <2>1, StartedConsistent, RunReplaced DEF Discover
<1>2. ASSUME NEW w \in Worker, NEW u \in Requested, RunDirectly(w, u)
      PROVE  RunsConsistent'
  <2> DEFINE q == [Idle EXCEPT !.at = "starting", !.direct = TRUE, !.urls = <<u>>,
                               !.limit = 1]
  <2>1. q.run = Started /\ q.at = "starting"
    BY DEF Idle
  <2> QED
    BY <1>2, <2>1, StartedConsistent, RunReplaced DEF RunDirectly
<1>3. ASSUME NEW w \in Worker, Loop(w)
      PROVE  RunsConsistent'
  <2>0. req[w] \in Request /\ RunConsistent(req[w].run)
    BY DEF TypeOK, RunsConsistent
  <2>1. CASE SkipStored(w)
    <3> DEFINE q == [req[w] EXCEPT !.index = @ + 1]
    <3>1. q.run = req[w].run /\ q.at = "looking"
      BY <2>0, <2>1 DEF SkipStored, Looking, Request
    <3> QED
      BY <2>0, <2>1, <3>1, RunReplaced DEF SkipStored
  <2>2. CASE RunNew(w)
    <3> DEFINE q == [req[w] EXCEPT !.at = "starting"]
    <3>1. q.run = req[w].run /\ q.at = "starting"
      BY <2>0 DEF Request
    <3> QED
      BY <2>0, <2>2, <3>1, RunReplaced DEF RunNew
  <2>3. CASE EndOfList(w)
    BY <1>0, <2>3, RunReplaced DEF EndOfList
  <2> QED
    BY <1>3, <2>1, <2>2, <2>3 DEF Loop
<1>4. ASSUME NEW w \in Worker, Run(w)
      PROVE  RunsConsistent'
  <2>0. /\ req[w] \in Request
        /\ req[w].run \in GraphState
        /\ RunConsistent(req[w].run)
        /\ Final(w) => req[w].run.node = "end"
    BY DEF TypeOK, RunsConsistent, Request
  <2>1. CASE InvokeGraph(w)
    <3> DEFINE q == [req[w] EXCEPT !.at = "graph", !.run = Started]
    <3>1. q.run = Started /\ q.at = "graph"
      BY <2>0 DEF Request
    <3>2. req' = [req EXCEPT ![w] = q]
      BY <2>1 DEF InvokeGraph, TypeOK
    <3> QED
      BY <3>1, <3>2, StartedConsistent, RunReplaced
  <2>2. CASE FetchSucceeds(w)
    <3> DEFINE q == [req[w] EXCEPT !.run = Fetched(@)]
    <3>1. q.run = Fetched(req[w].run) /\ q.at = "graph"
      BY <2>0, <2>2 DEF FetchSucceeds, AtNode, Request
    <3>2. RunConsistent(Fetched(req[w].run))
      BY <2>0, <2>2, FetchConsistent DEF FetchSucceeds, AtNode
    <3> QED
      BY <2>2, <3>1, <3>2, RunReplaced DEF FetchSucceeds
  <2>3. CASE FetchFails(w)
    <3> DEFINE q == [req[w] EXCEPT !.run = NotFetched(@)]
    <3>1. q.run = NotFetched(req[w].run) /\ q.at = "graph"
      BY <2>0, <2>3 DEF FetchFails, AtNode, Request
    <3>2. RunConsistent(NotFetched(req[w].run))
      BY <2>0, <2>3, FetchConsistent DEF FetchFails, AtNode
    <3> QED
      BY <2>3, <3>1, <3>2, RunReplaced DEF FetchFails
  <2>4. CASE RunNode(w)
    <3>1. PICK t \in Results(req[w].run) : req' = [req EXCEPT ![w].run = t]
      BY <2>4 DEF RunNode
    <3> DEFINE q == [req[w] EXCEPT !.run = t]
    <3>2. q.run = t /\ q.at = "graph"
      BY <2>0, <2>4 DEF RunNode, Request
    <3>3. RunConsistent(t)
      BY <2>0, <2>4, NodeConsistent DEF RunNode
    <3> QED
      BY <3>1, <3>2, <3>3, RunReplaced
  <2>5. CASE Archive(w)
    <3> DEFINE q == [req[w] EXCEPT !.at = "archived"]
    <3>1. q.run = req[w].run /\ q.run.node = "end"
      BY <2>0, <2>5 DEF Archive, AtNode, Request
    <3> QED
      BY <2>0, <2>5, <3>1, RunReplaced DEF Archive
  <2>6. CASE ArchiveFails(w)
    <3> DEFINE q == [req[w] EXCEPT !.at = "archived", !.run = ReviewCopyMissing(@)]
    <3>1. q.run = ReviewCopyMissing(req[w].run)
      BY <2>0 DEF Request
    <3>2. RunConsistent(q.run) /\ q.run.node = "end"
      BY <2>0, <2>6, <3>1, ArchiveConsistent DEF ArchiveFails, AtNode
    <3> QED
      BY <2>6, <3>2, RunReplaced DEF ArchiveFails
  <2>7. CASE MergeRead(w)
    <3> DEFINE q == [req[w] EXCEPT !.at = "merging",
                                   !.read = IF req[w].run.notice
                                              THEN notices[KeyAt(w)]
                                              ELSE NoUrl]
    <3>1. q.run = req[w].run /\ q.run.node = "end"
      BY <2>0, <2>7 DEF MergeRead, Final, Request
    <3> QED
      BY <2>0, <2>7, <3>1, RunReplaced DEF MergeRead
  <2>8. CASE SaveExecution(w)
    <3>1. /\ NextUrl(req[w]).run = Started
          /\ NextUrl(req[w]).at \in {"idle", "looking"}
      BY DEF NextUrl, Idle
    <3> QED
      BY <2>8, <3>1, StartedConsistent, RunReplaced DEF SaveExecution
  <2>9. CASE SaveClashes(w)
    BY <1>0, <2>9, RunReplaced DEF SaveClashes
  <2> QED
    BY <1>4, <2>1, <2>2, <2>3, <2>4, <2>5, <2>6, <2>7, <2>8, <2>9 DEF Run
<1>5. ASSUME NEW w \in Worker, Abort(w)
      PROVE  RunsConsistent'
  BY <1>0, <1>5, RunReplaced DEF Abort
<1>6. CASE Settle
  BY <1>6 DEF Settle, RunsConsistent, Final
<1>7. CASE UNCHANGED vars
  BY <1>7 DEF vars, RunsConsistent, Final
<1> QED
  BY <1>1, <1>2, <1>3, <1>4, <1>5, <1>6, <1>7 DEF Next

\* The initial state is well typed and its runs are consistent.
LEMMA InitTyped == Init => TypeOK /\ RunsConsistent
<1> SUFFICES ASSUME Init
             PROVE  TypeOK /\ RunsConsistent
  OBVIOUS
<1>1. \A w \in Worker : req[w] = Idle
  BY DEF Init
<1>2. TypeOK
  BY <1>1, IdleTyped DEF Init, TypeOK
<1>3. Idle.run = Started /\ Idle.at = "idle"
  BY DEF Idle
<1>4. RunsConsistent
  BY <1>1, <1>3, StartedConsistent DEF RunsConsistent, Final
<1> QED
  BY <1>2, <1>4

\* Every reachable state is well typed, for every set of workers, URLs, lists
\* and limits: what the loop indexes is on its list.
THEOREM TypeCorrect == Spec => []TypeOK
<1>1. TypeOK /\ RunsConsistent /\ [Next]_vars => (TypeOK /\ RunsConsistent)'
  BY TypeStep, RunsStep
<1> QED
  BY <1>1, InitTyped, PTL DEF Spec

\* In every reachable state the runs are consistent.
LEMMA RunsAreConsistent == Spec => [](TypeOK /\ RunsConsistent)
<1>1. TypeOK /\ RunsConsistent /\ [Next]_vars => (TypeOK /\ RunsConsistent)'
  BY TypeStep, RunsStep
<1> QED
  BY <1>1, InitTyped, PTL DEF Spec

\* A run is stored as completed only with a notice and a package, without an
\* open field review and without any reason for a review.
THEOREM CompletedRunsAreClean == Spec => []CompletedIsClean
<1>1. TypeOK /\ RunsConsistent => CompletedIsClean
  BY DEF RunsConsistent, RunConsistent, CompletedIsClean
<1> QED
  BY <1>1, RunsAreConsistent, PTL

\* review_required, review_reason and the status of a stored run agree.
THEOREM ReviewsHaveReasons == Spec => []ReviewHasReason
<1>1. TypeOK /\ RunsConsistent => ReviewHasReason
  BY DEF RunsConsistent, RunConsistent, ReviewHasReason
<1> QED
  BY <1>1, RunsAreConsistent, PTL
-------------------------------------------------------------------------------
(***************************************************************************)
(* The walk down the list.                                                 *)
(***************************************************************************)
\* The invariant of the walk.
Walk == KeysMatch /\ ListsWalked /\ NewestFirst

\* The steps of a request that leave the table and its place in the list alone.
SamePlace(w) ==
    \/ RunNew(w)
    \/ InvokeGraph(w)
    \/ FetchSucceeds(w)
    \/ FetchFails(w)
    \/ RunNode(w)
    \/ Archive(w)
    \/ ArchiveFails(w)
    \/ MergeRead(w)

\* The steps that end a request without a write.
Ending(w) == EndOfList(w) \/ SaveClashes(w) \/ Abort(w)

\* A step that replaces one request, where stored notices stay stored.
LEMMA WalkReplaced ==
  ASSUME TypeOK, Walk, NEW w \in Worker, NEW q, req' = [req EXCEPT ![w] = q],
         KeysMatch', \A u \in Url : Stored(u) => Stored(u)',
         ListWalked(q), AboveHandled(q)'
  PROVE  Walk'
<1>1. ListsWalked'
  BY DEF TypeOK, Walk, ListsWalked
<1>2. ASSUME NEW v \in Worker
      PROVE  AboveHandled(req[v])'
  <2>1. CASE v = w
    BY <2>1 DEF TypeOK
  <2>2. CASE v # w
    <3>1. req'[v] = req[v] /\ AboveHandled(req[v])
      BY <2>2 DEF TypeOK, Walk, NewestFirst
    <3>2. req[v].urls \in Seq(Url)
      BY DEF TypeOK, Request
    <3>3. \A i \in DOMAIN req[v].urls : req[v].urls[i] \in Url
      BY <3>2
    <3> QED
      BY <3>1, <3>3 DEF AboveHandled
  <2> QED
    BY <2>1, <2>2
<1> QED
  BY <1>1, <1>2 DEF Walk, NewestFirst

\* A request that has not moved is as far as it was.
LEMMA PlaceKept ==
  ASSUME TypeOK, Walk, NEW w \in Worker, SamePlace(w)
  PROVE  Walk'
<1>0. req[w] \in Request /\ req[w].at # "idle"
  BY DEF TypeOK, SamePlace, RunNew, Looking, InvokeGraph, FetchSucceeds, FetchFails,
         RunNode, Archive, ArchiveFails, MergeRead, AtNode
<1>1. notices' = notices
  BY DEF SamePlace, RunNew, InvokeGraph, FetchSucceeds, FetchFails,
         RunNode, Archive, ArchiveFails, MergeRead
<1>2. /\ req' = [req EXCEPT ![w] = req'[w]]
      /\ req'[w].urls = req[w].urls
      /\ req'[w].index = req[w].index
      /\ req'[w].limit = req[w].limit
      /\ req'[w].done = req[w].done
  <2> USE <1>0 DEF TypeOK, Request
  <2>1. CASE RunNew(w)
    BY <2>1 DEF RunNew, Goto
  <2>2. CASE InvokeGraph(w)
    BY <2>2 DEF InvokeGraph
  <2>3. CASE FetchSucceeds(w)
    BY <2>3 DEF FetchSucceeds
  <2>4. CASE FetchFails(w)
    BY <2>4 DEF FetchFails
  <2>5. CASE RunNode(w)
    BY <2>5 DEF RunNode
  <2>6. CASE Archive(w)
    BY <2>6 DEF Archive, Goto
  <2>7. CASE ArchiveFails(w)
    BY <2>7 DEF ArchiveFails
  <2>8. CASE MergeRead(w)
    BY <2>8 DEF MergeRead
  <2> QED
    BY <2>1, <2>2, <2>3, <2>4, <2>5, <2>6, <2>7, <2>8 DEF SamePlace
<1>3. PICK q : /\ req' = [req EXCEPT ![w] = q]
               /\ q.urls = req[w].urls
               /\ q.index = req[w].index
               /\ q.limit = req[w].limit
               /\ q.done = req[w].done
  BY <1>2
<1>4. ListWalked(q)
  BY <1>0, <1>3 DEF Walk, ListsWalked, ListWalked, DoneAbove
<1>5. AboveHandled(q)'
  BY <1>0, <1>1, <1>3 DEF Walk, NewestFirst, AboveHandled, Stored
<1>6. KeysMatch' /\ \A u \in Url : Stored(u) => Stored(u)'
  BY <1>1 DEF Walk, KeysMatch, Stored
<1> QED
  BY <1>3, <1>4, <1>5, <1>6, WalkReplaced

\* A URL that the table holds belongs to a stored notice.
LEMMA HasSourceUrlStored ==
  ASSUME KeysMatch, NEW u \in Url, HasSourceUrl(u)
  PROVE  Stored(u)
  BY DEF KeysMatch, HasSourceUrl, Stored

\* Skipping a stored URL leaves nothing new behind.
LEMMA SkipKeepsWalk ==
  ASSUME TypeOK, Walk, NEW w \in Worker, SkipStored(w)
  PROVE  Walk'
<1>0. /\ req[w] \in Request /\ req[w].at = "looking" /\ notices' = notices
      /\ req[w].index \in DOMAIN req[w].urls
  BY DEF TypeOK, SkipStored, Looking
<1>1. PICK q : /\ req' = [req EXCEPT ![w] = q]
               /\ q.urls = req[w].urls
               /\ q.index = req[w].index + 1
               /\ q.limit = req[w].limit
               /\ q.done = req[w].done
               /\ q.at = "looking"
  <2>1. /\ req' = [req EXCEPT ![w] = req'[w]]
        /\ req'[w].urls = req[w].urls
        /\ req'[w].index = req[w].index + 1
        /\ req'[w].limit = req[w].limit
        /\ req'[w].done = req[w].done
        /\ req'[w].at = "looking"
    BY <1>0 DEF SkipStored, TypeOK, Request
  <2> QED
    BY <2>1
<1>2. req[w].urls \in Seq(Url) /\ req[w].index \in Nat
  BY <1>0 DEF Request
<1>3. Stored(UrlAt(w))
  <2>1. UrlAt(w) \in Url
    BY <1>0, <1>2 DEF UrlAt
  <2> QED
    BY <2>1, HasSourceUrlStored DEF Walk, SkipStored
<1>4. ListWalked(q)
  <2>1. ListWalked(req[w])
    BY DEF Walk, ListsWalked
  <2>2. \A j \in DOMAIN req[w].urls : j < req[w].index => j < q.index
    BY <1>1, <1>2
  <2> QED
    BY <1>0, <1>1, <2>1, <2>2 DEF ListWalked, DoneAbove
<1>5. AboveHandled(q)'
  <2>1. AboveHandled(req[w])
    BY DEF Walk, NewestFirst
  <2>2. ASSUME NEW i \in DOMAIN q.urls, i < q.index
        PROVE  \/ Stored(q.urls[i])'
               \/ \E j \in DOMAIN q.done : q.done[j] = q.urls[i]
    <3>1. CASE i = req[w].index
      BY <1>0, <1>1, <1>3, <3>1 DEF Stored, UrlAt
    <3>2. CASE i # req[w].index
      <4>1. i < req[w].index
        BY <1>1, <1>2, <2>2, <3>2
      <4> QED
        BY <1>0, <1>1, <2>1, <4>1 DEF AboveHandled, Stored
    <3> QED
      BY <3>1, <3>2
  <2> QED
    BY <2>2 DEF AboveHandled
<1>6. KeysMatch' /\ \A u \in Url : Stored(u) => Stored(u)'
  BY <1>0 DEF Walk, KeysMatch, Stored
<1> QED
  BY <1>1, <1>4, <1>5, <1>6, WalkReplaced

\* An idle request has nothing above it.
LEMMA IdleWalk == ListWalked(Idle) /\ AboveHandled(Idle)'
  BY DEF ListWalked, AboveHandled, Idle

\* A request that ends without a write breaks nothing.
LEMMA EndKeepsWalk ==
  ASSUME TypeOK, Walk, NEW w \in Worker, Ending(w)
  PROVE  Walk'
<1>1. req' = [req EXCEPT ![w] = Idle] /\ notices' = notices
  BY DEF Ending, EndOfList, SaveClashes, Abort, Finish
<1>2. KeysMatch' /\ \A u \in Url : Stored(u) => Stored(u)'
  BY <1>1 DEF Walk, KeysMatch, Stored
<1> QED
  BY <1>1, <1>2, IdleWalk, WalkReplaced

\* A request starts at the top of a list without repeats.
LEMMA StartKeepsWalk ==
  ASSUME TypeOK, Walk, NEW w \in Worker, NEW q, req' = [req EXCEPT ![w] = q],
         notices' = notices, q.urls \in Seq(Url), WithoutRepeats(q.urls),
         q.index = 1, q.done = <<>>, q.limit \in 1..5
  PROVE  Walk'
<1>1. ListWalked(q)
  BY DEF ListWalked, DoneAbove, WithoutRepeats
<1>2. AboveHandled(q)'
  <2>1. \A i \in DOMAIN q.urls : ~(i < q.index)
    OBVIOUS
  <2> QED
    BY <2>1 DEF AboveHandled
<1>3. KeysMatch' /\ \A u \in Url : Stored(u) => Stored(u)'
  BY DEF Walk, KeysMatch, Stored
<1> QED
  BY <1>1, <1>2, <1>3, WalkReplaced

\* A commit stores a URL under its own key and removes none.
LEMMA SaveKeepsKeys ==
  ASSUME TypeOK, KeysMatch, NEW w \in Worker, SaveExecution(w), UrlAt(w) \in Url
  PROVE  KeysMatch' /\ \A u \in Url : Stored(u) => Stored(u)'
<1>1. CASE notices' = notices
  BY <1>1 DEF KeysMatch, Stored
<1>2. CASE notices' = [notices EXCEPT ![KeyAt(w)] = UrlAt(w)]
  <2>1. UrlAt(w) # NoUrl /\ KeyOf[UrlAt(w)] = KeyAt(w) /\ KeyAt(w) \in Key
    BY DEF KeyAt
  <2>2. KeysMatch'
    BY <1>2, <2>1 DEF KeysMatch, TypeOK
  <2>3. \A u \in Url : Stored(u) => Stored(u)'
    BY <1>2, <2>1 DEF Stored, TypeOK
  <2> QED
    BY <2>2, <2>3
<1>3. \/ notices' = notices
      \/ notices' = [notices EXCEPT ![KeyAt(w)] = UrlAt(w)]
  BY DEF SaveExecution, MergedUrl, TypeOK
<1> QED
  BY <1>1, <1>2, <1>3

\* After a run the request either ends or goes on below the URL it has run,
\* which it remembers.
LEMMA SaveKeepsWalk ==
  ASSUME TypeOK, Walk, NEW w \in Worker, SaveExecution(w)
  PROVE  Walk'
<1>0. /\ req[w] \in Request /\ OnList(req[w]) /\ req[w].at = "merging"
      /\ ListWalked(req[w]) /\ AboveHandled(req[w])
  BY DEF TypeOK, SaveExecution, Walk, ListsWalked, NewestFirst
<1>1. /\ req[w].urls \in Seq(Url) /\ req[w].done \in Seq(Url)
      /\ req[w].index \in DOMAIN req[w].urls /\ req[w].index \in Nat
      /\ req[w].limit \in 0..5
      /\ UrlAt(w) \in Url
  BY <1>0 DEF Request, OnList, UrlAt
<1>2. KeysMatch' /\ \A u \in Url : Stored(u) => Stored(u)'
  BY <1>1, SaveKeepsKeys DEF Walk
<1>3. PICK q : q = NextUrl(req[w])
  OBVIOUS
<1>4. req' = [req EXCEPT ![w] = q]
  BY <1>3 DEF SaveExecution
<1>5. CASE q = Idle
  BY <1>2, <1>4, <1>5, IdleWalk, WalkReplaced
<1>6. CASE q # Idle
  <2>1. /\ ~(Len(Processed(req[w])) >= req[w].limit)
        /\ q = [Idle EXCEPT !.at = "looking",
                            !.urls = req[w].urls,
                            !.index = req[w].index + 1,
                            !.limit = req[w].limit,
                            !.done = Processed(req[w])]
    BY <1>3, <1>6 DEF NextUrl
  <2>2. /\ q.urls = req[w].urls
        /\ q.index = req[w].index + 1
        /\ q.limit = req[w].limit
        /\ q.done = Append(req[w].done, UrlAt(w))
        /\ Len(q.done) < q.limit
    <3>1. Processed(req[w]) = Append(req[w].done, UrlAt(w))
      BY DEF Processed, UrlAt
    <3>2. /\ q.urls = req[w].urls
          /\ q.index = req[w].index + 1
          /\ q.limit = req[w].limit
          /\ q.done = Processed(req[w])
      BY <2>1 DEF Idle
    <3>3. Len(Append(req[w].done, UrlAt(w))) = Len(req[w].done) + 1
      BY <1>1
    <3>4. ~(Len(req[w].done) + 1 >= req[w].limit)
      BY <2>1, <3>1, <3>3
    <3>5. Len(req[w].done) \in Nat
      BY <1>1
    <3>6. Len(q.done) < q.limit
      BY <1>1, <3>1, <3>2, <3>3, <3>4, <3>5
    <3> QED
      BY <3>1, <3>2, <3>6
  <2>3. /\ DOMAIN q.done = 1..(Len(req[w].done) + 1)
        /\ DOMAIN req[w].done = 1..Len(req[w].done)
        /\ q.done[Len(req[w].done) + 1] = UrlAt(w)
        /\ \A i \in DOMAIN req[w].done : i \in DOMAIN q.done /\ q.done[i] = req[w].done[i]
    BY <1>1, <2>2
  <2>4. \A i \in DOMAIN q.done : i \in DOMAIN req[w].done \/ i = Len(req[w].done) + 1
    BY <1>1, <2>3
  <2>5. DoneAbove(q)
    <3>1. DoneAbove(req[w])
      BY <1>0 DEF ListWalked
    <3> SUFFICES ASSUME NEW i \in DOMAIN q.done
                 PROVE  \E j \in DOMAIN q.urls : j < q.index /\ q.done[i] = q.urls[j]
      BY DEF DoneAbove
    <3>2. CASE i = Len(req[w].done) + 1
      <4>1. q.done[i] = q.urls[req[w].index] /\ req[w].index \in DOMAIN q.urls
        BY <1>1, <2>2, <2>3, <3>2 DEF UrlAt
      <4>2. req[w].index < q.index
        BY <1>1, <2>2
      <4> QED
        BY <4>1, <4>2
    <3>3. CASE i \in DOMAIN req[w].done
      <4>1. PICK j \in DOMAIN req[w].urls :
                    j < req[w].index /\ req[w].done[i] = req[w].urls[j]
        BY <3>1, <3>3 DEF DoneAbove
      <4>2. j < q.index
        BY <1>1, <2>2, <4>1
      <4> QED
        BY <2>2, <2>3, <3>3, <4>1, <4>2
    <3> QED
      BY <2>4, <3>2, <3>3
  <2>6. \A i \in DOMAIN req[w].done : req[w].done[i] # UrlAt(w)
    <3> SUFFICES ASSUME NEW i \in DOMAIN req[w].done
                 PROVE  req[w].done[i] # UrlAt(w)
      OBVIOUS
    <3>1. DoneAbove(req[w]) /\ WithoutRepeats(req[w].urls)
      BY <1>0 DEF ListWalked
    <3>2. PICK j \in DOMAIN req[w].urls :
                  j < req[w].index /\ req[w].done[i] = req[w].urls[j]
      BY <3>1 DEF DoneAbove
    <3>3. j # req[w].index
      BY <1>1, <3>2
    <3> QED
      BY <1>1, <3>1, <3>2, <3>3 DEF WithoutRepeats, UrlAt
  <2>7. WithoutRepeats(q.done)
    <3>1. WithoutRepeats(req[w].done)
      BY <1>0 DEF ListWalked
    <3> QED
      BY <2>3, <2>4, <2>6, <3>1 DEF WithoutRepeats
  <2>8. ListWalked(q)
    BY <1>0, <2>2, <2>5, <2>7 DEF ListWalked
  <2>9. AboveHandled(q)'
    <3> SUFFICES ASSUME NEW i \in DOMAIN q.urls, i < q.index
                 PROVE  \/ Stored(q.urls[i])'
                        \/ \E j \in DOMAIN q.done : q.done[j] = q.urls[i]
      BY DEF AboveHandled
    <3>1. CASE i = req[w].index
      <4>1. q.urls[i] = UrlAt(w)
        BY <2>2, <3>1 DEF UrlAt
      <4>2. Len(req[w].done) + 1 \in DOMAIN q.done
        BY <1>1, <2>3
      <4> QED
        BY <2>3, <4>1, <4>2
    <3>2. CASE i # req[w].index
      <4>1. i < req[w].index /\ q.urls[i] \in Url
        BY <1>1, <2>2, <3>2
      <4>2. \/ Stored(req[w].urls[i])
            \/ \E j \in DOMAIN req[w].done : req[w].done[j] = req[w].urls[i]
        BY <1>0, <2>2, <4>1 DEF AboveHandled
      <4>3. CASE Stored(req[w].urls[i])
        <5>1. Stored(q.urls[i])
          BY <2>2, <4>3
        <5> QED
          BY <1>2, <4>1, <5>1
      <4>4. CASE \E j \in DOMAIN req[w].done : req[w].done[j] = req[w].urls[i]
        BY <2>2, <2>3, <4>4
      <4> QED
        BY <4>2, <4>3, <4>4
    <3> QED
      BY <3>1, <3>2
  <2> QED
    BY <1>2, <1>4, <2>8, <2>9, WalkReplaced
<1> QED
  BY <1>5, <1>6

\* Every step keeps the walk.
LEMMA WalkStep ==
  ASSUME TypeOK, Walk, [Next]_vars
  PROVE  Walk'
<1>1. ASSUME NEW w \in Worker, NEW list \in Listing, NEW limit \in Limit,
             Discover(w, list, limit)
      PROVE  Walk'
  <2>1. PICK q : q = [Idle EXCEPT !.at = "looking", !.urls = list, !.limit = limit]
    OBVIOUS
  <2>2. /\ q.urls = list /\ q.index = 1 /\ q.done = <<>> /\ q.limit = limit
        /\ list \in Seq(Url) /\ limit \in 1..5
    BY <2>1 DEF Idle
  <2> QED
    BY <1>1, <2>1, <2>2, StartKeepsWalk DEF Discover
<1>2. ASSUME NEW w \in Worker, NEW u \in Requested, RunDirectly(w, u)
      PROVE  Walk'
  <2>1. PICK q : q = [Idle EXCEPT !.at = "starting", !.direct = TRUE, !.urls = <<u>>,
                                  !.limit = 1]
    OBVIOUS
  <2>2. /\ q.urls = <<u>> /\ q.index = 1 /\ q.done = <<>> /\ q.limit = 1
    BY <2>1 DEF Idle
  <2>3. q.urls \in Seq(Url) /\ WithoutRepeats(q.urls) /\ 1 \in 1..5
    BY <2>2 DEF WithoutRepeats
  <2> QED
    BY <1>2, <2>1, <2>2, <2>3, StartKeepsWalk DEF RunDirectly
<1>3. ASSUME NEW w \in Worker, Loop(w) \/ Run(w) \/ Abort(w)
      PROVE  Walk'
  <2>1. \/ SamePlace(w)
        \/ Ending(w)
        \/ SkipStored(w)
        \/ SaveExecution(w)
    BY <1>3 DEF Loop, Run, SamePlace, Ending
  <2> QED
    BY <2>1, PlaceKept, EndKeepsWalk, SkipKeepsWalk, SaveKeepsWalk
<1>4. CASE UNCHANGED <<notices, req>>
  <2>1. KeysMatch'
    BY <1>4 DEF Walk, KeysMatch
  <2>2. ListsWalked'
    BY <1>4 DEF Walk, ListsWalked
  <2>3. NewestFirst'
    BY <1>4 DEF Walk, NewestFirst, AboveHandled, Stored
  <2> QED
    BY <2>1, <2>2, <2>3 DEF Walk
<1> QED
  BY <1>1, <1>2, <1>3, <1>4 DEF Next, Settle, vars

\* At the start no notice is stored and every request is idle.
LEMMA InitWalk == Init => Walk
<1> SUFFICES ASSUME Init
             PROVE  Walk
  OBVIOUS
<1>1. KeysMatch
  BY DEF Init, KeysMatch
<1>2. \A w \in Worker : req[w] = Idle /\ Idle.at = "idle"
  BY DEF Init, Idle
<1> QED
  BY <1>1, <1>2 DEF Walk, ListsWalked, ListWalked, NewestFirst, AboveHandled

\* The inductive invariant: keys match, runs are consistent, and each request
\* walks down its list.
THEOREM DiscoveryInvariantHolds == Spec => [](DiscoveryInvariant /\ NewestFirst /\ TypeOK)
<1>1. TypeOK /\ Walk /\ [Next]_vars => Walk'
  BY WalkStep
<1>2. TypeOK /\ RunsConsistent /\ Walk => DiscoveryInvariant /\ NewestFirst /\ TypeOK
  BY DEF Walk, DiscoveryInvariant
<1> QED
  BY <1>1, <1>2, InitWalk, RunsAreConsistent, PTL DEF Spec

\* No discovery leaves a new URL behind, whatever other requests do: all
\* above the one it is at is stored or was run by this request.
THEOREM NewestComesFirst == Spec => []NewestFirst
  BY DiscoveryInvariantHolds, PTL

\* No request runs a URL twice or exceeds its limit.
THEOREM NoUrlRunTwice == Spec => []NoUrlTwice
<1>1. DiscoveryInvariant /\ TypeOK => NoUrlTwice
  <2> SUFFICES ASSUME DiscoveryInvariant, TypeOK, NEW w \in Worker, req[w].at # "idle"
               PROVE  /\ Len(req[w].done) < req[w].limit
                      /\ WithoutRepeats(req[w].done)
                      /\ req[w].at # "looking" =>
                            \A i \in DOMAIN req[w].done :
                                req[w].done[i] # req[w].urls[req[w].index]
    BY DEF NoUrlTwice
  <2>1. ListWalked(req[w]) /\ OnList(req[w]) /\ req[w].index \in Nat
    BY DEF DiscoveryInvariant, ListsWalked, TypeOK, Request
  <2>2. ASSUME req[w].at # "looking", NEW i \in DOMAIN req[w].done
        PROVE  req[w].done[i] # req[w].urls[req[w].index]
    <3>1. PICK j \in DOMAIN req[w].urls :
                  j < req[w].index /\ req[w].done[i] = req[w].urls[j]
      BY <2>1 DEF ListWalked, DoneAbove
    <3>2. req[w].index \in DOMAIN req[w].urls
      BY <2>1, <2>2 DEF OnList
    <3>3. j # req[w].index
      BY <2>1, <3>1
    <3> QED
      BY <2>1, <3>1, <3>2, <3>3 DEF ListWalked, WithoutRepeats
  <2> QED
    BY <2>1, <2>2 DEF ListWalked
<1> QED
  BY <1>1, DiscoveryInvariantHolds, PTL
===============================================================================
