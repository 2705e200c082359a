----------------------------- MODULE AdminConsole -----------------------------
(***************************************************************************)
(* The admin console (frontend/admin/src/App.tsx): the list of the reviews *)
(* to decide, the review and the run it has selected and the source notice *)
(* it shows beside them, each loaded by requests whose answers come in any *)
(* order.                                                                  *)
(*                                                                         *)
(* What the server does with a decision is in PolicyReview; here it        *)
(* answers, and another administrator may have decided first.  Requests    *)
(* that fail leave a message and nothing else and are left out, but for    *)
(* the conflict of a decision.                                             *)
(***************************************************************************)
EXTENDS Naturals, Sequences, FiniteSets, SequencesExt

CONSTANTS
    Review,       \* reviews, numbered in the order of the list
    RunOf,        \* the run of each
    Known,        \* runs that are stored at the start
    MaxRequests,  \* bound on the requests in flight
    None

Run == {RunOf[r] : r \in Review}

VARIABLES
    runs, pending,   \* the server's runs and undecided reviews
    console,         \* reviews, selected review, run, notice (by its run)
    flight,          \* requests and answers on their way
    clicked          \* the review that was selected by a click last

vars == <<runs, pending, console, flight, clicked>>

Listed(S) == SetToSortSeq(S, <)

FirstOf(list) == IF list = <<>> THEN None ELSE Head(list)

PendingOf(S) == {r \in pending : RunOf[r] \in S}

Asked(kind, run, review, list) ==
    [kind |-> kind, run |-> run, review |-> review, list |-> list, answered |-> FALSE]

LoadAdminData == Asked("load", None, None, <<>>)

Init ==
    /\ runs = Known
    /\ pending = {r \in Review : RunOf[r] \in Known}
    /\ console = [reviews |-> <<>>, selected |-> None, run |-> None, notice |-> None]
    /\ flight = {LoadAdminData}
    /\ clicked = None

Send(request) == Cardinality(flight) < MaxRequests /\ flight' = flight \cup {request}

LoadRunDetail(kind, run) == Send(Asked(kind, run, None, <<>>))
-------------------------------------------------------------------------------
(***************************************************************************)
(* What the administrator does.                                            *)
(***************************************************************************)
\* The detail of the review's run is not loaded anew where it is the run of
\* the console.
SelectReview(r) ==
    /\ r \in ToSet(console.reviews)
    /\ console' = [console EXCEPT !.selected = r]
    /\ clicked' = r
    /\ IF RunOf[r] = console.run
       THEN UNCHANGED flight
       ELSE LoadRunDetail("review", RunOf[r])
    /\ UNCHANGED <<runs, pending>>

\* The list that is left is the one of the moment of the click.
Decide ==
    /\ console.selected \in ToSet(console.reviews)
    /\ Send(Asked("decide", None, console.selected,
                  SelectSeq(console.reviews, LAMBDA r : r # console.selected)))
    /\ UNCHANGED <<runs, pending, console, clicked>>

SelectRun(run) ==
    /\ run \in runs
    /\ LoadRunDetail("run", run)
    /\ UNCHANGED <<runs, pending, console, clicked>>

\* The run of a policy is loaded anew when the policy has been approved.
DecidePolicy(run) ==
    /\ run \in runs
    /\ PendingOf({run}) = {}
    /\ LoadRunDetail("policy", run)
    /\ UNCHANGED <<runs, pending, console, clicked>>

CheckNewNotices ==
    /\ \A f \in flight : f.kind \notin {"discover", "reload"}
    /\ Send(Asked("discover", None, None, <<>>))
    /\ UNCHANGED <<runs, pending, console, clicked>>

OtherDecides(r) ==
    /\ r \in pending
    /\ pending' = pending \ {r}
    /\ UNCHANGED <<runs, console, flight, clicked>>
-------------------------------------------------------------------------------
(***************************************************************************)
(* What the server answers, with what it knows at that moment.             *)
(***************************************************************************)
Reply(f, answer) == flight' = (flight \ {f}) \cup {[answer EXCEPT !.answered = TRUE]}

\* All pending reviews with the first of them or, without one, some run; or
\* the pending reviews of a run.
AnswerQuery(f) ==
    /\ f.kind \in {"load", "reload", "run", "review", "policy"} /\ ~f.answered
    /\ LET of == IF f.kind \in {"load", "reload"} THEN runs ELSE {f.run} IN
       Reply(f, [f EXCEPT !.list = Listed(PendingOf(of))])
    /\ UNCHANGED <<runs, pending, console, clicked>>

AnswerDecision(f) ==
    /\ f.kind = "decide" /\ ~f.answered
    /\ IF f.review \in pending
       THEN Reply(f, f) /\ pending' = pending \ {f.review}
       ELSE flight' = flight \ {f} /\ UNCHANGED pending
    /\ UNCHANGED <<runs, console, clicked>>

\* A run of a new notice, or none.
AnswerDiscovery(f) ==
    /\ f.kind = "discover" /\ ~f.answered
    /\ \/ \E run \in Run \ runs :
             /\ runs' = runs \cup {run}
             /\ pending' = pending \cup {r \in Review : RunOf[r] = run}
             /\ Reply(f, [f EXCEPT !.run = run])
       \/ Reply(f, f) /\ UNCHANGED <<runs, pending>>
    /\ UNCHANGED <<console, clicked>>
-------------------------------------------------------------------------------
(***************************************************************************)
(* What the console does with an answer.                                   *)
(***************************************************************************)
Arrived(f) == f \in flight /\ f.answered /\ flight' = flight \ {f}

\* After a discovery the run is that of the new notice, the notice still that
\* of the first review.
ShowLoaded(f) ==
    /\ f.kind \in {"load", "reload"} /\ Arrived(f)
    /\ \E first \in IF f.list = <<>> THEN runs ELSE {RunOf[Head(f.list)]} :
          console' = [reviews  |-> f.list,
                      selected |-> FirstOf(f.list),
                      run      |-> IF f.run = None THEN first ELSE f.run,
                      notice   |-> first]
    /\ UNCHANGED <<runs, pending, clicked>>

ShowRun(f) ==
    /\ f.kind = "run" /\ Arrived(f)
    /\ console' = [reviews  |-> f.list,
                   selected |-> FirstOf(f.list),
                   run      |-> f.run,
                   notice   |-> f.run]
    /\ UNCHANGED <<runs, pending, clicked>>

\* The list and the selection stay.
ShowDetail(f) ==
    /\ f.kind \in {"review", "policy"} /\ Arrived(f)
    /\ console' = [console EXCEPT !.run = f.run, !.notice = f.run]
    /\ UNCHANGED <<runs, pending, clicked>>

ShowDecided(f) ==
    /\ f.kind = "decide" /\ Arrived(f)
    /\ console' = [console EXCEPT !.reviews = f.list, !.selected = FirstOf(f.list)]
    /\ UNCHANGED <<runs, pending, clicked>>

ShowDiscovered(f) ==
    /\ f.kind = "discover" /\ f \in flight /\ f.answered
    /\ flight' = (flight \ {f}) \cup {Asked("reload", f.run, None, <<>>)}
    /\ UNCHANGED <<runs, pending, console, clicked>>

Next ==
    \/ \E r \in Review : SelectReview(r) \/ OtherDecides(r)
    \/ Decide
    \/ \E run \in Run : SelectRun(run) \/ DecidePolicy(run)
    \/ CheckNewNotices
    \/ \E f \in flight :
          \/ AnswerQuery(f) \/ AnswerDecision(f) \/ AnswerDiscovery(f)
          \/ ShowLoaded(f) \/ ShowRun(f) \/ ShowDetail(f)
          \/ ShowDecided(f) \/ ShowDiscovered(f)

Spec == Init /\ [][Next]_vars
-------------------------------------------------------------------------------
\* Once every answer has come, the source notice beside the review that the
\* administrator has clicked on is the one of that review's run
\* (docs/worklogs/admin-integration/WORKLOG.md).
NoticeOfClickedReview ==
    flight = {} /\ clicked # None /\ clicked = console.selected =>
       console.notice = RunOf[clicked]
================================================================================
