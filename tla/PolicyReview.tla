---------------------------- MODULE PolicyReview ----------------------------
(***************************************************************************)
(* The review and publication of one policy family: the rows that          *)
(* AgentRepository keeps for it and the requests that read and write them. *)
(*                                                                         *)
(* FastAPI runs each request on a thread of its pool, and a request is a   *)
(* sequence of SQL statements in one or more transactions.  A worker is    *)
(* such a thread: req[w] is the request it serves, req[w].at the statement *)
(* it has executed last, and the other fields are the Python objects the   *)
(* request holds, which no other request sees.  Each action is one         *)
(* statement; what a transaction flushes at its end is written by its last *)
(* action, together with the commit.                                       *)
(*                                                                         *)
(* Isolation says what the deployment guarantees:                          *)
(*   "statement"    nothing: the transactions of two requests overlap,     *)
(*                  which is READ COMMITTED, what database.py gets         *)
(*   "transaction"  a transaction starts when no other is open, so that    *)
(*                  only requests of several transactions are interleaved  *)
(***************************************************************************)
EXTENDS Naturals

CONSTANTS
    Worker,     \* request threads
    Run,        \* agent runs, one fresh run_id each
    NoRun,      \* the run of an absent row
    Field,      \* keys of profile field definitions
    Canonical,  \* keys approved by the default profile catalog
    MaxVersion, \* bound on the versions of the family
    Document,   \* names of the documents that evidence may cite
    FilesOf,    \* names of the files that a run finds attached to the notice
    Draft,      \* what a run may extract: fields, a rule and the documents cited
    Isolation

Version == 1..MaxVersion
Decision == {"approved", "rejected"}
Status == {"pending"} \cup Decision

ASSUME ConstantAssumption ==
    /\ NoRun \notin Run
    /\ Field # {}
    /\ Canonical \subseteq Field
    /\ MaxVersion \in Nat \ {0}
    /\ FilesOf \in [Run -> SUBSET Document]
    /\ Draft \subseteq [keys : SUBSET Field, rule : SUBSET Field, cites : SUBSET Document]
    /\ \A d \in Draft : d.rule \subseteq d.keys
    /\ Isolation \in {"statement", "transaction"}

VARIABLES
    package,    \* policy_packages: a row for each version
    proposal,   \* field_definition_proposals.review_status
    review,     \* field_definition_reviews.status
    approvedAs, \* the key of a review's approved_field
    notice,     \* source_notices: the notice of the family
    exposed,    \* what is in the public bucket, with the run whose payload cites it
    saved,      \* agent_runs: the runs that are stored
    req         \* the request each worker serves

tables == <<package, proposal, review, approvedAs, notice, exposed, saved>>
vars == <<package, proposal, review, approvedAs, notice, exposed, saved, req>>
-----------------------------------------------------------------------------
(***************************************************************************)
(* Data.  A policy payload is the JSON document that citizens receive:     *)
(* its review block, the review_status of each field definition it         *)
(* carries, the keys its eligibility rule mentions, the run that built it  *)
(* (which stands for everything else in it), the documents its evidence    *)
(* cites and those of them whose URL is that of the public bucket: the     *)
(* others have the URL that _evidence_items gave them, which is that of    *)
(* the file if FilesOf[origin] has it and that of the notice if not.       *)
(***************************************************************************)
FieldState == {"absent", "pending", "approved"}

Payload == [review   : Status,
            fields   : [Field -> FieldState],
            rule     : SUBSET Field,
            origin   : Run \cup {NoRun},
            cites    : SUBSET Document,
            public   : SUBSET Document]

NoPayload == [review   |-> "pending",
              fields   |-> [k \in Field |-> "absent"],
              rule     |-> {},
              origin   |-> NoRun,
              cites    |-> {},
              public   |-> {}]

Row == [status  : Status \cup {"none"},
        run     : Run \cup {NoRun},
        payload : Payload]

NoRow == [status |-> "none", run |-> NoRun, payload |-> NoPayload]

\* A notice as a run found it, and its files that have a public_url.
Notice == [run : Run \cup {NoRun}, public : SUBSET Document]

NoNotice == [run |-> NoRun, public |-> {}]

\* The points a request can be at: in an agent run, in a field review, in the
\* publication or the rejection of a version.
RunPoint == {"loaded", "analysed", "saving"}
ReviewPoint == {"reviewRead", "proposalRead", "flushed"}
PublishPoint == {"contextRead", "contextChecked", "archiving", "archived", "noticeSaved",
                 "publishRead", "publishChecked", "rejectRead"}

\* The points inside a transaction.
TransactionPoint ==
    {"saving", "contextRead", "contextChecked", "publishRead", "publishChecked",
     "rejectRead"} \cup ReviewPoint

Request == [at       : {"idle"} \cup RunPoint \cup ReviewPoint \cup PublishPoint,
            run      : Run \cup {NoRun},
            version  : 0..MaxVersion,
            key      : Field,
            as       : Field,
            decision : Decision,
            prior    : Status \cup {"none"},
            known    : SUBSET Field,
            row      : Row,
            payload  : Payload,
            notice   : Notice]

AnyField == CHOOSE k \in Field : TRUE

Idle == [at       |-> "idle",
         run      |-> NoRun,
         version  |-> 0,
         key      |-> AnyField,
         as       |-> AnyField,
         decision |-> "approved",
         prior    |-> "none",
         known    |-> {},
         row      |-> NoRow,
         payload  |-> NoPayload,
         notice   |-> NoNotice]

\* A request that works on a version, or for a run, names one.
Aimed(q) ==
    /\ q.at \in RunPoint \cup PublishPoint => q.version \in Version
    /\ q.at \in RunPoint \cup ReviewPoint => q.run \in Run

TypeOK ==
    /\ package \in [Version -> Row]
    /\ proposal \in [Run -> [Field -> Status \cup {"none"}]]
    /\ review \in [Run -> [Field -> Status \cup {"none"}]]
    /\ approvedAs \in [Run -> [Field -> Field]]
    /\ notice \in Notice
    /\ exposed \in SUBSET ((Run \cup {NoRun}) \X Document)
    /\ saved \in SUBSET Run
    /\ req \in [Worker -> Request]
    /\ \A w \in Worker : Aimed(req[w])
-----------------------------------------------------------------------------
(***************************************************************************)
(* Operators of the handlers.                                              *)
(***************************************************************************)
InTransaction(w) == req[w].at \in TransactionPoint

\* Whether worker w may open a transaction.
MayBegin(w) ==
    Isolation = "transaction" => \A other \in Worker \ {w} : ~InTransaction(other)

MayServe(w) == req[w].at = "idle" /\ MayBegin(w)

\* list_approved_field_definitions: canonical fields and approved reviews.
ApprovedKeys ==
    {key \in Field :
        \/ key \in Canonical
        \/ \E r \in Run, k \in Field :
              review[r][k] = "approved" /\ approvedAs[r][k] = key}

\* The keys whose definition in a payload is approved.
ApprovedIn(payload) == {k \in Field : payload.fields[k] = "approved"}

\* Mutant: a check that overlooks a pending proposal.
PendingIsFine(run) == \A k \in Field : proposal[run][k] # "rejected"

\* _ensure_policy_publishable: no proposal of the package's run is open.
AllProposalsApproved(run) ==
    \A k \in Field : proposal[run][k] \in {"none", "approved"}

\* The definitions of a payload are a list that _replace_policy_field dedupes
\* by key, keeping the first: keepOld says which of two entries comes first.
ReplaceField(fields, old, new, keepOld) ==
    IF fields[old] = "absent"
      THEN fields
      ELSE LET kept == IF new # old /\ keepOld /\ fields[new] # "absent"
                         THEN fields[new]
                         ELSE "approved"
           IN  [[fields EXCEPT ![old] = "absent"] EXCEPT ![new] = kept]

\* Mutant: the rename forgets the eligibility rule.
RuleKeepsOldField(rule, old, new) == rule

ReplaceRuleField(rule, old, new) ==
    IF old \in rule THEN (rule \ {old}) \cup {new} ELSE rule

ReplacePolicyField(payload, old, new, keepOld) ==
    [payload EXCEPT !.fields = ReplaceField(@, old, new, keepOld),
                    !.rule = ReplaceRuleField(@, old, new)]

Init ==
    /\ package = [v \in Version |-> NoRow]
    /\ proposal = [r \in Run |-> [k \in Field |-> "none"]]
    /\ review = [r \in Run |-> [k \in Field |-> "none"]]
    /\ approvedAs = [r \in Run |-> [k \in Field |-> k]]
    /\ notice = NoNotice
    /\ exposed = {}
    /\ saved = {}
    /\ req = [w \in Worker |-> Idle]
-----------------------------------------------------------------------------
(***************************************************************************)
(* An agent run: AgentExecutionService.run, then save_execution.           *)
(***************************************************************************)
Finish(w) == req' = [req EXCEPT ![w] = Idle]

\* A run_id is a fresh uuid.
Fresh(r) == r \notin saved /\ \A w \in Worker : req[w].run # r

\* POST /api/agent-runs.  With a previous policy the run builds the next
\* version of the family, without one it builds version 1 again.
LoadPreviousPolicy(w, r, previous) ==
    /\ MayServe(w)
    /\ Fresh(r)
    /\ previous # 0 => package[previous].status = "approved"
    /\ req' = [req EXCEPT ![w] =
                 [Idle EXCEPT !.at = "loaded",
                              !.run = r,
                              !.version = previous + 1,
                              !.known = IF previous = 0
                                          THEN {}
                                          ELSE ApprovedIn(package[previous].payload)]]
    /\ UNCHANGED tables

\* Mutant: a field outside the registry is taken for a registered one.
BuiltAllApproved(r, draft, registry) ==
    [review   |-> "pending",
     fields   |-> [k \in Field |-> IF k \in draft.keys THEN "approved" ELSE "absent"],
     rule     |-> draft.rule,
     origin   |-> r,
     cites    |-> draft.cites,
     public   |-> {}]

\* What the builder makes of a draft when the registry holds the given keys:
\* a key of the registry is reused, any other one is proposed.
Built(r, draft, registry) ==
    [review   |-> "pending",
     fields   |-> [k \in Field |->
                    IF k \notin draft.keys THEN "absent"
                    ELSE IF k \in registry THEN "approved" ELSE "pending"],
     rule     |-> draft.rule,
     origin   |-> r,
     cites    |-> draft.cites,
     public   |-> {}]

\* The registry is read once; the graph then fetches, extracts and builds.
Analyse(w, draft) ==
    /\ req[w].at = "loaded"
    /\ MayBegin(w)
    /\ req' = [req EXCEPT ![w].at = "analysed",
                          ![w].payload = Built(req[w].run, draft,
                                               req[w].known \cup ApprovedKeys)]
    /\ UNCHANGED tables

\* session.merge of the package: the SELECT.
SaveRead(w) ==
    /\ req[w].at = "analysed"
    /\ MayBegin(w)
    /\ req' = [req EXCEPT ![w].at = "saving", ![w].row = package[req[w].version]]
    /\ UNCHANGED tables

\* Mutant: the status of the agent run is written to the package.
MergedRunStatus(row, read, r, payload) ==
    [status  |-> IF read.status = "pending" THEN row.status ELSE "review_required",
     run     |-> r,
     payload |-> payload]

\* The row after a merge of payload by run r, whose SELECT returned read: an
\* UPDATE sets only the columns that differ from what was read.
Merged(row, read, r, payload) ==
    [status  |-> IF read.status = "pending" THEN row.status ELSE "pending",
     run     |-> r,
     payload |-> payload]

\* session.merge: the writes, and the commit.  A notice without a rule has no
\* package.  An INSERT of a row that exists by now fails (see Abort).
SaveExecution(w) ==
    LET r == req[w].run
        v == req[w].version
        pending == {k \in Field : req[w].payload.fields[k] = "pending"}
        hasPackage == req[w].payload.rule # {}
        open(statuses) == [statuses EXCEPT ![r] =
                             [k \in Field |-> IF k \in pending THEN "pending" ELSE "none"]]
    IN  /\ req[w].at = "saving"
        /\ hasPackage /\ req[w].row.status = "none" => package[v].status = "none"
        /\ package' = IF hasPackage
                        THEN [package EXCEPT ![v] =
                                Merged(@, req[w].row, r, req[w].payload)]
                        ELSE package
        /\ proposal' = open(proposal)
        /\ review' = open(review)
        /\ notice' = [run |-> r, public |-> {}]
        /\ saved' = saved \cup {r}
        /\ Finish(w)
        /\ UNCHANGED <<approvedAs, exposed>>
-----------------------------------------------------------------------------
(***************************************************************************)
(* Decision of one field definition review.                                *)
(***************************************************************************)
\* Mutant: a decided review may be decided again.
ReadDecidedReview(w, r, k, decision, as) ==
    /\ MayServe(w)
    /\ decision = "rejected" => as = k
    /\ review[r][k] # "none"
    /\ req' = [req EXCEPT ![w] =
                 [Idle EXCEPT !.at = "reviewRead",
                              !.run = r,
                              !.key = k,
                              !.decision = decision,
                              !.as = as]]
    /\ UNCHANGED tables

\* The review row is read and must be pending (409 otherwise).  An approval
\* may carry an edited definition, hence another key.
ReadReview(w, r, k, decision, as) ==
    /\ MayServe(w)
    /\ decision = "rejected" => as = k
    /\ review[r][k] = "pending"
    /\ req' = [req EXCEPT ![w] =
                 [Idle EXCEPT !.at = "reviewRead",
                              !.run = r,
                              !.key = k,
                              !.decision = decision,
                              !.as = as]]
    /\ UNCHANGED tables

\* The proposal row is read.
ReadProposal(w) ==
    /\ req[w].at = "reviewRead"
    /\ req' = [req EXCEPT ![w].at = "proposalRead",
                          ![w].prior = proposal[req[w].run][req[w].key]]
    /\ UNCHANGED tables

\* A flushed UPDATE keeps its row locked until the transaction ends.
Unlocked(r, k) ==
    \A w \in Worker :
        ~(req[w].at = "flushed" /\ req[w].run = r /\ req[w].key = k)

\* Mutant: the latest package of the family, whichever run wrote it.
LatestVersion(r) ==
    IF \E v \in Version : package[v].status # "none"
      THEN CHOOSE v \in Version :
              /\ package[v].status # "none"
              /\ \A u \in Version : package[u].status # "none" => u <= v
      ELSE 0

\* The version whose package a run has written, 0 if there is none.
VersionOf(r) ==
    IF \E v \in Version : package[v].run = r
      THEN CHOOSE v \in Version : package[v].run = r
      ELSE 0

\* approve_field_definition_review: the query of the run's package makes the
\* session flush the review and the proposal first.
FlushAndReadPackage(w) ==
    LET v == VersionOf(req[w].run)
    IN  /\ req[w].at = "proposalRead"
        /\ req[w].decision = "approved"
        /\ Unlocked(req[w].run, req[w].key)
        /\ req' = [req EXCEPT ![w].at = "flushed",
                              ![w].version = v,
                              ![w].row = IF v = 0 THEN NoRow ELSE package[v]]
        /\ UNCHANGED tables

\* Mutants: the edited key is lost; a rejection leaves the proposal pending.
DecideOldKey(w) ==
    LET r == req[w].run
        k == req[w].key
        decision == req[w].decision
    IN  /\ review' = [review EXCEPT ![r][k] = decision]
        /\ proposal' = [proposal EXCEPT ![r][k] = decision]
        /\ approvedAs' = [approvedAs EXCEPT ![r][k] = k]
DecideReviewOnly(w) ==
    LET r == req[w].run
        k == req[w].key
        decision == req[w].decision
    IN  /\ review' = [review EXCEPT ![r][k] = decision]
        /\ proposal' = IF decision = "rejected"
                         THEN proposal
                         ELSE [proposal EXCEPT ![r][k] = decision]
        /\ approvedAs' = [approvedAs EXCEPT ![r][k] = req[w].as]

\* The commit of a decision: an UPDATE sets a column that differs from what
\* was read, and the review was read as pending.
Decide(w) ==
    LET r == req[w].run
        k == req[w].key
        decision == req[w].decision
    IN  /\ review' = [review EXCEPT ![r][k] = decision]
        /\ proposal' = IF req[w].prior = decision
                         THEN proposal
                         ELSE [proposal EXCEPT ![r][k] = decision]
        /\ approvedAs' = [approvedAs EXCEPT ![r][k] = req[w].as]

\* The package is written as the request made it from the row it had read.
ApproveReview(w, keepOld) ==
    LET v == req[w].version
        updated == ReplacePolicyField(req[w].row.payload, req[w].key, req[w].as, keepOld)
    IN  /\ req[w].at = "flushed"
        /\ Decide(w)
        /\ package' = IF v = 0 \/ updated = req[w].row.payload
                        THEN package
                        ELSE [package EXCEPT ![v].payload = updated]
        /\ Finish(w)
        /\ UNCHANGED <<notice, exposed, saved>>

\* reject_field_definition_review leaves the package alone.
RejectReview(w) ==
    /\ req[w].at = "proposalRead"
    /\ req[w].decision = "rejected"
    /\ Unlocked(req[w].run, req[w].key)
    /\ Decide(w)
    /\ Finish(w)
    /\ UNCHANGED <<package, notice, exposed, saved>>
-----------------------------------------------------------------------------
(***************************************************************************)
(* PolicyPublishService.approve: three transactions and the archive.       *)
(***************************************************************************)
\* get_policy_publish_context: the package, which must be pending.
ReadContext(w, v) ==
    /\ MayServe(w)
    /\ package[v].status = "pending"
    /\ req' = [req EXCEPT ![w] = [Idle EXCEPT !.at = "contextRead",
                                             !.version = v,
                                             !.row = package[v]]]
    /\ UNCHANGED tables

\* Mutant: the context is not checked, only the final approval is.
CheckContextLater(w) ==
    /\ req[w].at = "contextRead"
    /\ req' = [req EXCEPT ![w].at = "contextChecked"]
    /\ UNCHANGED tables

\* Its proposals, which must all be approved.
CheckContext(w) ==
    /\ req[w].at = "contextRead"
    /\ AllProposalsApproved(req[w].row.run)
    /\ req' = [req EXCEPT ![w].at = "contextChecked"]
    /\ UNCHANGED tables

\* Its notice, as it is stored now; the request keeps copies of both.
ReadNotice(w) ==
    /\ req[w].at = "contextChecked"
    /\ req' = [req EXCEPT ![w].at = "archiving",
                          ![w].payload = req[w].row.payload,
                          ![w].notice = notice]
    /\ UNCHANGED tables

\* The documents that archive_policy_evidence copies: those that the evidence
\* names and the notice, as the request has read it, has attached.  Evidence
\* of the notice's own page or of a file that is not there any more stays as
\* it is, and the approval goes on.
Archivable(q) == q.payload.cites \cap FilesOf[q.notice.run]

\* Files that a request puts into the bucket for the payload it publishes.
Expose(w, files) == exposed' = exposed \cup ({req[w].payload.origin} \X files)

\* The request's copies get the public URLs of these files.
Linked(q, files) ==
    [q EXCEPT !.at = "archived",
              !.payload.public = @ \cup files,
              !.notice.public = @ \cup files]

\* archive_policy_evidence, outside any transaction.
ArchiveEvidence(w) ==
    /\ req[w].at = "archiving"
    /\ Expose(w, Archivable(req[w]))
    /\ req' = [req EXCEPT ![w] = Linked(@, Archivable(@))]
    /\ UNCHANGED <<package, proposal, review, approvedAs, notice, saved>>

\* Mutant: an upload that fails is logged and the archive goes on.
ArchiveGoesOn(w) ==
    /\ req[w].at = "archiving"
    /\ \E uploaded \in SUBSET Archivable(req[w]) : Expose(w, uploaded)
    /\ req' = [req EXCEPT ![w] = Linked(@, Archivable(@))]
    /\ UNCHANGED <<package, proposal, review, approvedAs, notice, saved>>

\* It fails at a file (a name that needs a privacy review, a download or an
\* upload that fails, or one whose answer is lost) with some in the bucket;
\* when none is there yet the request just ends (see Abort).
ArchiveFails(w) ==
    /\ req[w].at = "archiving"
    /\ \E uploaded \in SUBSET Archivable(req[w]) : uploaded # {} /\ Expose(w, uploaded)
    /\ Finish(w)
    /\ UNCHANGED <<package, proposal, review, approvedAs, notice, saved>>

\* save_source_notice: the request's copy replaces whatever is stored.
SaveNotice(w) ==
    /\ req[w].at = "archived"
    /\ MayBegin(w)
    /\ notice' = req[w].notice
    /\ req' = [req EXCEPT ![w].at = "noticeSaved"]
    /\ UNCHANGED <<package, proposal, review, approvedAs, exposed, saved>>

\* Mutant: only the status column is written.
DecidedRowOnly(row, payload, verdict) ==
    [row EXCEPT !.status = verdict, !.payload = payload]

\* _set_policy_review_status writes a verdict in both columns, with a payload
\* the request holds.
Decided(row, payload, verdict) ==
    [row EXCEPT !.status = verdict, !.payload = [payload EXCEPT !.review = verdict]]

\* approve_policy_package: the row must still be pending ...
ReadForPublish(w) ==
    /\ req[w].at = "noticeSaved"
    /\ MayBegin(w)
    /\ package[req[w].version].status = "pending"
    /\ req' = [req EXCEPT ![w].at = "publishRead",
                          ![w].row = package[req[w].version]]
    /\ UNCHANGED tables

\* Mutant: the last transaction relies on the check of the first.
PublishUnchecked(w) ==
    /\ req[w].at = "publishRead"
    /\ req' = [req EXCEPT ![w].at = "publishChecked"]
    /\ UNCHANGED tables

\* ... and the proposals of the run it names now must all be approved.
CheckForPublish(w) ==
    /\ req[w].at = "publishRead"
    /\ AllProposalsApproved(req[w].row.run)
    /\ req' = [req EXCEPT ![w].at = "publishChecked"]
    /\ UNCHANGED tables

\* Mutant: the stored payload is published, not the one that was archived.
PublishStored(w) ==
    LET v == req[w].version
    IN  /\ req[w].at = "publishChecked"
        /\ package' = [package EXCEPT ![v] = Decided(@, req[w].row.payload, "approved")]
        /\ Finish(w)
        /\ UNCHANGED <<proposal, review, approvedAs, notice, exposed, saved>>

\* The payload that is published is the one the context held.
Publish(w) ==
    LET v == req[w].version
    IN  /\ req[w].at = "publishChecked"
        /\ package' = [package EXCEPT ![v] = Decided(@, req[w].payload, "approved")]
        /\ Finish(w)
        /\ UNCHANGED <<proposal, review, approvedAs, notice, exposed, saved>>

\* reject_policy_package: the row, which must be pending ...
ReadForReject(w, v) ==
    /\ MayServe(w)
    /\ package[v].status = "pending"
    /\ req' = [req EXCEPT ![w] = [Idle EXCEPT !.at = "rejectRead",
                                             !.version = v,
                                             !.row = package[v]]]
    /\ UNCHANGED tables

\* ... and the write of its payload with the verdict in it.
RejectPolicy(w) ==
    LET v == req[w].version
    IN  /\ req[w].at = "rejectRead"
        /\ package' = [package EXCEPT ![v] = Decided(@, req[w].row.payload, "rejected")]
        /\ Finish(w)
        /\ UNCHANGED <<proposal, review, approvedAs, notice, exposed, saved>>

\* A request ends where it is: a check of the code answers 404 or 409, a
\* statement fails, the process stops.  What it had not committed is lost.
Abort(w) ==
    /\ req[w].at # "idle"
    /\ Finish(w)
    /\ UNCHANGED tables
-----------------------------------------------------------------------------
RunStep(w) ==
    \/ \E r \in Run, previous \in 0..(MaxVersion - 1) : LoadPreviousPolicy(w, r, previous)
    \/ \E draft \in Draft : Analyse(w, draft)
    \/ SaveRead(w)
    \/ SaveExecution(w)

ReviewStep(w) ==
    \/ \E r \in Run, k \in Field, decision \in Decision, as \in Field :
            ReadReview(w, r, k, decision, as)
    \/ ReadProposal(w)
    \/ FlushAndReadPackage(w)
    \/ \E keepOld \in BOOLEAN : ApproveReview(w, keepOld)
    \/ RejectReview(w)

PublishStep(w) ==
    \/ \E v \in Version : ReadContext(w, v)
    \/ CheckContext(w)
    \/ ReadNotice(w)
    \/ ArchiveEvidence(w)
    \/ ArchiveFails(w)
    \/ SaveNotice(w)
    \/ ReadForPublish(w)
    \/ CheckForPublish(w)
    \/ Publish(w)

RejectStep(w) ==
    \/ \E v \in Version : ReadForReject(w, v)
    \/ RejectPolicy(w)

Next == \E w \in Worker :
            RunStep(w) \/ ReviewStep(w) \/ PublishStep(w) \/ RejectStep(w) \/ Abort(w)

Spec == Init /\ [][Next]_vars
-----------------------------------------------------------------------------
(***************************************************************************)
(* What must hold.                                                         *)
(***************************************************************************)
\* What a citizen's app displays: list_approved_policy_packages selects the
\* row's status, and the app drops payloads that do not say approved.
Listed(v) == package[v].status = "approved"
Visible(v) == Listed(v) /\ package[v].payload.review = "approved"

\* The citizen API lists a version only with a payload that says approved,
\* and a rejected version's payload says rejected: the two columns that
\* record one decision are written by different requests.
RowAgreesWithPayload ==
    \A v \in Version :
        package[v].status # "none" => package[v].payload.review = package[v].status

\* What the citizen API lists says that it is approved (api.md:30).
ListedSaysApproved == \A v \in Version : Listed(v) => Visible(v)

\* No field definition that still waits for an administrator reaches a
\* citizen, whichever requests overlapped on the way.
PublishedFieldsApproved ==
    \A v \in Version, k \in Field :
        Visible(v) => package[v].payload.fields[k] # "pending"

\* Every approved definition that reaches a citizen was approved under that
\* key by an administrator or by the catalog: no path (a run that read the
\* registry early, a previous version, a rename) makes up an approval.
PublishedKeysCleared ==
    \A v \in Version : Visible(v) => ApprovedIn(package[v].payload) \subseteq ApprovedKeys

\* A published version has no open or rejected review (api.md:194), also when
\* another run has replaced the package since the publisher read it.
PublishedReviewsApproved ==
    \A v \in Version : Listed(v) => AllProposalsApproved(package[v].run)

\* Nor has the run that built what is published: the approval of a version
\* stores the payload its first transaction read and checks, in its third,
\* the reviews of the run that the row names by then.
PublishedOriginApproved ==
    \A v \in Version : Listed(v) => AllProposalsApproved(package[v].payload.origin)

\* A rule never mentions a field whose definition the payload lacks, after
\* any order of renames, reruns and stale writes: the matcher could not ask.
RuleFieldsDefined ==
    \A v \in Version : \A k \in package[v].payload.rule :
        package[v].payload.fields[k] # "absent"

\* What links to the bucket is in the bucket: the evidence of every version
\* and the files of the notice, whichever stale copies requests have stored
\* since the upload, and wherever an archive has failed.
PublicLinksServed ==
    /\ \A v \in Version : \A d \in package[v].payload.public :
          <<package[v].payload.origin, d>> \in exposed
    /\ \A d \in notice.public : \E upload \in exposed : upload[2] = d

\* In a payload that says approved, evidence of a file that its run found
\* attached has a public URL (DECISIONS.md:91), unless a stored run found the
\* notice without that file: the archive looks the name up in the notice as
\* stored when the approval starts, not as the package was built from it.
ApprovedIsArchived ==
    \A v \in Version : package[v].payload.review = "approved" =>
        \A d \in package[v].payload.cites \cap FilesOf[package[v].payload.origin] :
            \/ d \in package[v].payload.public
            \/ \E r \in saved : d \notin FilesOf[r]

\* A review and its proposal, two rows that one decision writes, agree.
ReviewAgreesWithProposal ==
    \A r \in Run, k \in Field : review[r][k] = proposal[r][k]

\* The evidence of a version that an administrator turned down is not in the
\* public bucket: only approved evidence is archived there (DECISIONS.md:92).
RejectedNotExposed ==
    \A v \in Version :
        package[v].status = "rejected" =>
            \A d \in Document : <<package[v].payload.origin, d>> \notin exposed

\* A decided review keeps its decision (api.md:189-190).
DecisionIsFinal ==
    [][\A r \in Run, k \in Field :
          review[r][k] \in Decision => review'[r][k] = review[r][k]]_vars

\* The review desk of PublicationContract: its reviews, and the definitions
\* of each version that citizens see.
Shown(v) == IF Visible(v)
              THEN {k \in Field : package[v].payload.fields[k] # "absent"}
              ELSE {}

Contract == INSTANCE PublicationContract WITH
                Item <- Run \X Field,
                decision <- [i \in Run \X Field |-> review[i[1]][i[2]]],
                approvedAs <- [i \in Run \X Field |-> approvedAs[i[1]][i[2]]],
                shown <- [v \in Version |-> Shown(v)]

\* The requests, when transactions do not overlap, implement that desk.
ImplementsContract == Contract!Spec
-----------------------------------------------------------------------------
(***************************************************************************)
(* Why the above hold when transactions do not overlap: the inductive      *)
(* invariant of PolicyReviewProofs.                                        *)
(***************************************************************************)
\* At most one transaction is open.
OneTransaction ==
    \A w, other \in Worker : InTransaction(w) /\ InTransaction(other) => w = other

\* The run a request will save is not stored, and no other request saves it.
RunsAreFresh ==
    \A w \in Worker : req[w].at \in RunPoint =>
        /\ req[w].run \notin saved
        /\ \A other \in Worker :
              req[other].at \in RunPoint /\ req[other].run = req[w].run => other = w

\* What an open transaction has read is what is stored.
ReadsAreCurrent(q) ==
    LET current == q.row = package[q.version]
    IN  /\ q.at = "saving" => current
        /\ q.at \in ReviewPoint => review[q.run][q.key] = "pending"
        /\ q.at \in {"proposalRead", "flushed"} => q.prior = proposal[q.run][q.key]
        /\ q.at = "flushed" =>
              /\ q.decision = "approved"
              /\ \/ q.version \in Version /\ current /\ package[q.version].run = q.run
                 \/ q.version = 0 /\ \A v \in Version : package[v].run # q.run
        /\ q.at \in {"contextRead", "contextChecked", "publishRead", "publishChecked",
                    "rejectRead"} => current /\ q.row.status = "pending"
        /\ q.at \in {"contextChecked", "publishChecked"} => AllProposalsApproved(q.row.run)

\* The payload a publisher holds has no pending definition; the payload a run
\* has built waits for its review.
HeldPayload(q) ==
    /\ q.at \in {"archiving", "archived", "noticeSaved", "publishRead", "publishChecked"} =>
          \A k \in Field : q.payload.fields[k] # "pending"
    /\ q.at \in {"analysed", "saving"} => q.payload.review = "pending"

RequestsOK ==
    \A w \in Worker : ReadsAreCurrent(req[w]) /\ HeldPayload(req[w])

\* Rows refer to stored runs, each run has one package at most, and a run
\* that is not stored has no review.
StoredRuns ==
    /\ \A v \in Version :
          /\ package[v].status = "none" <=> package[v].run = NoRun
          /\ package[v].run \in saved \cup {NoRun}
    /\ \A v, u \in Version : package[v].run = package[u].run /\ package[v].run # NoRun => v = u
    /\ \A r \in Run \ saved, k \in Field : proposal[r][k] = "none"

\* A pending definition of a package has an open proposal of its run.
PendingIsOpen ==
    \A v \in Version, k \in Field :
        package[v].payload.fields[k] = "pending" =>
            /\ package[v].run \in Run
            /\ proposal[package[v].run][k] \notin {"none", "approved"}

TransactionInvariant ==
    /\ OneTransaction
    /\ RunsAreFresh
    /\ RequestsOK
    /\ StoredRuns
    /\ PendingIsOpen
    /\ ReviewAgreesWithProposal
    /\ PublishedReviewsApproved
    /\ RowAgreesWithPayload

\* A built payload names its run; a publisher holds one whose run was checked.
HeldOrigin(q) ==
    /\ q.at \in {"analysed", "saving"} => q.payload.origin = q.run
    /\ q.at \in {"archiving", "archived", "noticeSaved", "publishRead", "publishChecked"} =>
          q.payload.origin \in saved /\ AllProposalsApproved(q.payload.origin)

\* A pending row holds what the run it names has built.
OriginsChecked ==
    /\ \A w \in Worker : HeldOrigin(req[w])
    /\ \A v \in Version :
          /\ package[v].status = "pending" => package[v].payload.origin = package[v].run
          /\ Listed(v) => package[v].payload.origin \in saved
    /\ PublishedOriginApproved
=============================================================================
