# Verification of the Gangnam change agent

TLA+ modules, TLC configurations and TLAPS proofs for the program in `src/`: a
service that watches the notice boards of a district, lets an LLM agent turn a
notice into a machine-readable *policy package*, has administrators review the
new profile fields and the package, and shows approved packages to citizens
whose browser matches them against a profile that never leaves the device.

## 1. The system

| Component | State it keeps | Operations | Talks to |
|---|---|---|---|
| Policy store (`backend/app/repositories/agent_repository.py`, `db_models.py`) | tables `source_notices`, `agent_runs`, `policy_packages`, `field_definition_proposals`, `field_definition_reviews`, `canonical_field_definitions` | `save_execution`, approve / reject a field review, publication context, approve / reject a package, `save_source_notice`, queries | every backend service |
| Publication (`services/policy_publish.py`) | none of its own; holds copies between three transactions | `approve` | store, evidence archive |
| Evidence archive (`services/attachment_archive.py`) | objects in a public and in a review bucket | `archive_policy_evidence`, `archive_notice`, `add_review_urls` | S3, the district's site |
| Agent run (`services/agent_execution.py`) | one run's registry and result | `run` | graph, store, review bucket |
| Change agent graph (`agent/graph.py`) | the graph state of one run | fetch, analyze, extract, build, compare, then await review / complete / fail | extraction, builder, diff |
| Registry and builder (`services/field_registry.py`, `policy_builder.py`) | the definitions approved when the run started | resolve, propose, build | - |
| Diff (`services/policy_diff.py`) | none | `apply_policy_diff` | - |
| Document extraction (`tools/document_extractor.py`, `pdf_extractor.py`, `openai_ocr.py`) | none | PDF text, OCR, retry, comparison of the two | OpenAI, district's site |
| Discovery (`services/notice_discovery.py`) | none; reads stored notices | `run` | agent run |
| API (`main.py`) | none | one handler per endpoint, each on a thread of FastAPI's pool | all of the above |
| Matcher (`frontend/citizen/src/matcher`) | none | three-valued evaluation, next question | - |
| Citizen app (`frontend/citizen/src/App.tsx`, `profile/`, `feed/`) | React state and three IndexedDB stores | answer, hide, restore, favourite, reset, feed | API, matcher |
| Service worker (`frontend/citizen/public/sw.js`) | the browser's cache | install, fetch | - |
| Admin console (`frontend/admin/src`) | lists of runs, reviews, policies, a selection | decide, select, inspect, discover | API |

### What is hard in it

* **Requests interleave.** Handlers are synchronous functions on a thread pool.
  Nothing in `agent_repository.py` locks a row or adds a condition to an UPDATE, and
  `database.py` asks for no isolation level, so in PostgreSQL every statement
  sees what was committed when it started (READ COMMITTED). A handler that reads,
  decides and writes may decide on something that is no longer so.
* **A publication is three transactions** with downloads and uploads between
  them. The payload that the last one stores is the one the first one read.
* **Decisions are stored twice**: a review and its proposal; a status column
  and the review block in the payload.
* **Re-runs.** A run without a previous policy builds version 1 again, with new
  reviews; the row of an approved version then waits for review again.
* **Partial failure.** Uploads precede the commit; a run that fails late has
  already proposed fields; the review bucket may be down.
* **In the browser**, answers are saved asynchronously from a closure over an
  old profile, and loading, resetting and answering overlap.

### What makes each component correct

What the properties of the runs state; sections 2 and 3 say under which isolation and premises.

* *Store, review, publication*: when transactions do not overlap, citizens get no definition that nobody
  approved, and a decision is taken once and recorded alike in both rows. However they overlap, a public link
  has its file behind it, and evidence of a file that is still attached when the approval starts is archived.
* *Agent run and graph*: a stored run says of itself what is true of it: completed means that nothing
  is open, and a review has a reason.
* *Registry, builder, diff*: a published rule asks for fields that its version explains, each approved and under
  one key; a run that asks for no review has found every quote; a change that is called expanded or narrowed is
  one; a rebuilt notice whose labels are recognised is quiet.
* *Extraction*: a corpus without a review has no two formats of a document that disagree; every attachment is
  accounted for; a result that is in stays.
* *Discovery*: a request runs no URL twice and leaves nothing new behind above its place in the list; a notice
  that can be fetched is processed eventually, if fewer pages fail for ever than the limit.
* *Matcher and session*: a verdict is that of every completion of the valid answers; the questions end.
* *Citizen storage*: what is stored is what is shown, until an operation overlaps another one as `Disturb` lists.
* *Admin console*: the notice that is displayed is that of the review that was clicked, which the console does not keep.

## 2. Modules

| Module | What it is |
|---|---|
| `PublicationContract` | The abstract review desk: reviews are submitted and decided once, versions are shown with cleared keys only. No request, no transaction, no database. |
| `PolicyReview` | The store, the field reviews, the publication, the rejection and the database side of an agent run, one action per SQL statement. |
| `AgentGraph` | The graph of one agent run: its state dictionary and what each node makes of it. No variables: a run shares nothing with others. |
| `NoticeDiscovery` | Discovery requests and direct runs against the table of notices; each steps through `AgentGraph`. |
| `DocumentExtraction` | The attachments of a notice: groups, the local pass and the OCR pass, the cache of downloads, the comparison. |
| `FieldRegistry`, `PolicyDiff` | Operators: how a candidate field finds its definition; the changes of a version. |
| `PolicyBuilder` | The versions of a policy family from drafts: evidence, rules, proposals, reviews, renames, changes. Composes the two above. |
| `Matcher` | Operators: verdicts and questions, and the reference they are compared with. |
| `CitizenApp` | Screen, stores and open IndexedDB requests of the citizen app. Composes `Matcher`. |
| `AdminConsole` | The selection of the console and its requests in flight. |
| `MCPolicyReview`, `MCNoticeDiscovery`, `MCDocumentExtraction`, `MCPolicyBuilder`, `MCCitizenApp`, `MCAdminConsole` | Instances for TLC: notices, drafts, files, rules, symmetry. |
| `PolicyReviewProofs`, `PolicyPayloadProofs`, `PolicyContractProofs` | Theorems about `PolicyReview`: decisions and rows; payloads; the refinement of the contract. |
| `PublicationContractProofs`, `NoticeDiscoveryProofs`, `DocumentExtractionProofs`, `PolicyBuilderProofs`, `CitizenAppProofs` | Theorems about the modules they are named after. |

The state machines meet in an agent run. `PolicyReview` has its database side, with
the previous policy and the reviews it opens, and takes the graph as one step
(`Analyse`); `NoticeDiscovery` has the graph node by node and of the database only
the column that discovery reads. What the nodes work out is in modules of its own:
`analyze_documents` in `DocumentExtraction`, `build_policy` and `compare_policy` in
`PolicyBuilder`. `PolicyBuilder` also has what approvals do to the content of a package, one
after the other; their interleaving is in `PolicyReview`, with payloads cut down to keys. The two
frontends share nothing with each other but the API.

### PolicyReview and the code

`package`, `proposal`, `review`, `notice` and `saved` are tables; `approvedAs` is the
key in a review's `approved_field`; `exposed` is the public bucket. `req[w]` is the
request that worker `w` serves: the statement it has executed last and the Python objects
it holds. Requests:

* **an agent run** - `LoadPreviousPolicy` (`_load_previous_policy`), `Analyse` (the
  registry query and everything the graph does with it), `SaveRead` and
  `SaveExecution` (the SELECT of `session.merge` and the commit). An UPDATE
  contains the columns that differ from what was read, which is why `Merged`
  needs both the read and the stored row.
* **a field review** - `ReadReview` (with the `pending` check), `ReadProposal`,
  then `RejectReview`, or `FlushAndReadPackage` and `ApproveReview`. The query of
  the package makes the session flush the review and the proposal first;
  `Unlocked` is the row lock this takes.
* **a publication** - `ReadContext`, `CheckContext`, `ReadNotice` (first
  transaction), `ArchiveEvidence` or `ArchiveFails`, `SaveNotice` (second),
  `ReadForPublish`, `CheckForPublish`, `Publish` (third).
* **a rejection** - `ReadForReject`, `RejectPolicy`.
* `Abort` ends any request anywhere: a 404 or 409 of the code, a failing
  statement, a process that stops. Whatever it had not committed is lost.

`Isolation` is `"statement"` (transactions overlap freely: what the code gets) or
`"transaction"` (a transaction starts when no other is open: what the code would get
from SERIALIZABLE, or from one worker per database). In the second case requests of
several transactions still interleave between them.

Abstractions:

* One policy family and one row of `source_notices`. A run of another notice of the
  family uses another row; the model lets it replace this one, which it may as well do
  when the notice is the same. The copy of the notice that a publication stores may replace that of a
  newer run, and a newer run's may replace it: both are in the model, and no property forbids them.
* A payload keeps the review block, the approval state of each definition, the
  keys its rule mentions, the run that built it (for all other content), the documents its
  evidence cites (`cites`) and those of them whose link is that of the public bucket (`public`).
* `FilesOf[r]` are the names of the files that run `r` finds attached to the notice. `Archivable` is the
  lookup of `archive_policy_evidence`: of the documents cited, those whose name is among the files of the notice
  *as it is stored when the approval starts*. Evidence of the notice's own page, or of a file that a later
  run has found missing or renamed, keeps its link to the district's site, and the approval goes on. Two files of
  one name are one document.
* `required_profile_fields` is a list which `_replace_policy_field` dedupes by
  position; `keepOld` chooses which of two definitions of one key comes first.
* A run's payload differs from every other run's, so a merge always writes it.
* A lock is modelled only where a flush precedes another statement of the
  transaction; other UPDATEs take theirs in the committing action.
* `DisabledPublicAttachmentArchive` (local development) is left out: the archive is
  S3's. A policy without a notice cannot exist, as a run without a notice builds no package.

### AgentGraph and NoticeDiscovery and the code

A `GraphState` is the part of `ChangeAgentState` that the edges and the stored `AgentRun`
depend on; its field `node` is the next node. `Route` is the conditional edge behind a node,
`RouteAfterBuild` the one behind the comparison, `Failure` is `_failure`. Each node is an
operator with the set of states it can leave behind: `Fetched` / `NotFetched`,
`AnalyzeDocuments`, `ExtractPolicy`, `BuildPolicy`, `ComparePolicy`, and `AgentRunOf` for
the three terminal nodes. `ReviewCopyMissing` is what `AgentExecutionService.run` does to
the result when `archive_notice` fails.

In `NoticeDiscovery`, `notices` is the column `source_url` by notice key, and `req[w]` the
request of a thread: the list of URLs, the place in it (`index`), the URLs of
`processed_runs` (`done`), the run, and what the merge has read.

* `Discover` - the boards are read, `WithoutRepeats`; `SkipStored`, `RunNew`, `EndOfList` -
  the branches of the loop; `NextUrl` - its end, with the `break` at the limit.
* `RunDirectly` - `POST /api/agent-runs`: no look at the table, one URL.
* `InvokeGraph`, `FetchSucceeds`, `FetchFails`, `RunNode`, `Archive`, `ArchiveFails`.
* `MergeRead`, `SaveExecution`, `SaveClashes` - the SELECT of the merge, the commit, and
  the primary key that an INSERT meets when another run has stored the notice meanwhile.
* `Abort` - as in `PolicyReview`; also the error of the OpenAI client that a process
  without an API key cannot create, and a row that cannot be stored.

Abstractions:

* `review_reason` joins texts with "; "; `reasons` is the set of their sources. Node logs,
  unresolved fields and evidence issues decide nothing and are left out.
* The boards and pages are external: a request reads any list of `Listing`, and a page may
  fail to load at any time, or for ever (`Unreachable`). `KeyOf` is the parser.
* `has_source_url` and the merge are statements of their own, as everywhere in the code.
* `archive_notice` and a publication also save the notice, under the same key: that
  changes other columns than `source_url`.
* `Settle` is no code. After it no request is cut off. Without it nothing could be
  promised to happen: a process that stops in the middle of every run stores nothing.

### DocumentExtraction and the code

`notice` is the list of attachments, `group` the one that `_extract_and_compare` works on,
`todo` what is left of the pass, `retried` its list `ocr_candidates`, `cache` its
`payload_cache`, `result` the results and `corpus` the comparisons. `OpenGroup` and `EndOfNotice` are the
loop of `extract_notice_corpus`; `LeaveToOcr`, `ReadLocally`, `Unsupported` the first loop,
`RetryWithOcr` and `NoOcr` the second; `Compare` the rest, with the stable sort by
`_result_order` (`Before`). `Attempt` is `_extract_attachment`: every download may fail or
answer something else than the last one, but the cache is asked first.

Abstractions: a document is the sequence of its pages, a page one value; `Agree` is the
similarity of two texts, any relation; `NoText` is a page with under 40 letters in its text
layer; a payload whose first bytes are not those of its type has the type `"other"`. The local
extractors return the same for the same bytes; OCR may return any text or fail.

### FieldRegistry, PolicyDiff, PolicyBuilder and the code

`ResolveFields` is the loop of `resolve_fields`, `ResolveCandidate` its body; `ConditionChanges`
and `EvidenceOf` are `apply_policy_diff`, `BetweenChange`, `InChange`, `SingleRuleChange` and
`ChangeType` its classification. `BuildPackage` is `build_policy_package`: rules of the
conditions that have their operands, definitions in a dict by key (`DictOf`: the place of the first
definition of a key, the value of the last), evidence, issues and
reviews. `Run` builds and compares, `ApproveReview` is `_replace_policy_field` with the approval of
the review (`approved_field`), `Publish` and `Drop` are the verdicts.

`catalog` is the canonical table, which holds the default profile fields and which no approval changes, and `approvals`
are the approved reviews of all runs. `Readings` is what `list_approved_field_definitions` may return: approved
reviews override the catalog, and as their query has no ORDER BY, of two approved under one key it is either.
`Definitions` lets those of the previous version override what was read, as `_approved_definitions` does.

Abstractions: a quote is found or not (`QuoteFound`: the set of quotes a document contains); labels and data
types are compared for equality, as the fingerprint normalises them; dates and actions are the one
value `terms`; changes are a set. A key is approved under any key of `Key`. `ConditionType`, `ActionType` and
`DraftType` are the schema the answer of the model is parsed with, cut down to what decides anything; `IsRegistry`
is what a dict of approved definitions is. Both are assumptions on the constants, as
the code has validated a draft and a catalog before it builds. `Items` picks the items of a list at some places in their
order; a filter of the code is an `Items` at the places that pass it.

What the model shows about the code, stated nowhere as a promise and so not a finding:

* The evidence of a change is found by the place of its condition among the rules. A condition
  without its operands makes no rule, and all that follow cite another's quote
  (`ChangeCitesItsField` is stated for packages without one; the run asks for a review then).
* A review that changes a key after the comparison leaves the changes of that run as they
  are: "removed" and "added" instead of none.
* One key for two fields yields two proposals and one review, about the last. The package mostly holds the last,
  too; but a draft that then comes back to the label of the first resolves that condition to the first
  proposal again, and the package holds the earlier definition while the review is about the later one (the third
  last draft of `MCDraft` does so; the approval puts the reviewed definition in its place). So `ReviewedIsUsed`
  does not say that the package holds what is under review. It says, for every draft, that nobody is passed over: each definition
  in a package was approved before the run, or is what a review of the run has made of its field, or is a proposal
  whose key is still under review; and each key under review is one of the package.
* Where two runs had different fields approved under one key, either of the two definitions may be the one that the next run
  reads, and the published version has the one it was built with. `RebuildIsQuiet` is stated for every reading.
* An exact key is taken without a look at label and type. A label that two definitions share is
  proposed again by every run.
* Condition values are strings: `equals` on a boolean or a number is never met.

### Matcher and CitizenApp and the code

`EvaluateRule`, `EvaluateCondition`, `SelectNextQuestion`, `RecordAnswer` are the
functions of those names; what an operator accepts is the set `accepts` of answers.
`Met` and `IsFinal` are the reference: a verdict is final if every completion of the valid
answers agrees with it. `RulesAreTrees` assumes that the parts of a rule come to an end, as they do
in a rule that was parsed from JSON.

`screen` is the React state that mirrors a store, `stored` the three object stores, `queue`
their requests that are not done; `awaiting` are the deletions that a reset waits for, `form` the
profile the form was opened with, `saving` is `isSaving`, `loaded` what the start has
read. A handler is one action up to its first `await` (`Answer`, `Hide`, `RestorePolicies`,
`ToggleFavorite`, `SubmitForm`, `ResetLocalData`), and what follows it belongs to the action that
does the request (`Save`, `Delete`) or lets it fail (`Fail`). `Reload` loses what is
not done. Requests of one store are done in order, as IndexedDB does them; the queue also stands for the
time until the database is open.

`undisturbed` is no state of the program. It is true until an operation overlaps another one that replaces
what it has read, which the handlers do not prevent; `Disturb` in each action says when:

* an answer or a toggle while a reset waits puts back what it deletes;
* a deletion that fails leaves the others deleted and the screen as it was;
* a form opened before the profile is there, or after a failed start, stores over it;
* a form opened while an answer is being saved takes the answer back, and so does an answer while
  a form is being saved.

`ScreenIsStored` and `OthersKept` are stated for the rest. The list is complete in the sense of the
proofs: nothing else makes the screen and the stores part.

Abstractions: the policies are those of one download; the verdict on the screen is computed from the
current day (`visiblePolicies` is a memo that a change of the day does not renew); a form has its
answers all at once.

### AdminConsole and the code

`console` is `fieldReviews`, `selectedReviewId`, `runDetail` and the run of `sourceNotice`;
`flight` the requests and answers on their way, in any order. A request keeps what its handler closed
over: `Decide` the list that is left. `SelectReview` sends no request where the review belongs to the
run that is shown, whatever is still in flight: with two clicks the notice of one run ends up beside the
review of another.

## 3. Runs

Each run belongs to one component; the paragraphs say which and with what bounds.

**MCPolicyReview.** Two workers, two runs, two field keys of which none is
canonical, and the notices of `MCDraft`: two fields, one field, and one without a rule, which
yields no package. With two workers any two requests overlap; with two keys an
approval can rename onto another definition; with two runs a publication is
overtaken by a re-run; with two versions a run can start from a published one.
Runs are finite in number, so the system stops when all are used and decided:
hence `CHECK_DEADLOCK FALSE`. `transactions` has one document, which every run finds attached (108,605 states);
`overlap` has two, which all evidence cites and of which one run finds both and the others one (319,338 states):
so a version is archived from the notice of a run that found more, or fewer, of its files. Workers are symmetric,
and runs where they find the same files. These runs check safety
only, without fairness: no endpoint of the review desk promises that something happens later.

| Run | Isolation | Shows |
|---|---|---|
| `transactions` | transaction | The safety properties, the inductive invariant, and that the requests implement `PublicationContract` under the refinement mapping `Contract`. MaxVersion 2. |
| `overlap` | statement | What survives free interleaving: every public link has its file in the bucket, and an approved payload has the evidence of its attached files there, unless a stored run found the notice without the file. MaxVersion 1, one-field notice, two documents. |
| `unreviewed_field_shown` | statement | **Violation.** A pending field is published. |
| `decision_flips` | statement | **Violation.** A rejection replaces an approval of the same review. |
| `listed_unapproved` | statement | **Violation.** The API lists a payload that does not say approved. |
| `rejected_exposed` | transaction, one worker | **Violation.** Evidence of a rejected version is in the public bucket. |
| `discovery` | statement | The classification of runs at every failure, the walk down the list, and the liveness property `EveryNoticeRuns`. |
| `stored_run_again` | statement | **Violation.** The agent is run on the URL of a stored notice. |
| `documents` | - | No attachment is lost between the passes, silence means agreement, no result that is in is replaced, the best format represents a document, and the analysis ends. |
| `building` | - | Published rules are explained, changes are true and cite their field, a run without a review is grounded, a rebuilt notice is quiet. |
| `citizen` | - | Verdicts are final, the questions end, screen and stores part only by the overlaps of `Disturb`. |
| `wrong_notice_shown` | - | **Violation.** The console shows the notice of one run beside a review of another. |

`RuleFieldsDefined` is checked in `transactions` only: every write stores a whole
payload, so overlapping writes cannot mix the fields of one with the rule of another.
Two properties fail by design and are not stated: a published version may stop being
published (a re-run reopens it), and a package with a rejected proposal can never be
published (only a new run replaces it).

The three violations at statement level need two requests whose statements overlap
within milliseconds. They disappear under SERIALIZABLE isolation, or with `SELECT ... FOR UPDATE`
in the reads of `approve_field_definition_review`, `reject_field_definition_review`,
`get_policy_publish_context`, `_set_policy_review_status` and the merge. Local SQLite
serialises writers but not a read and a later write of two sessions.

**MCNoticeDiscovery.** Two threads and three notices. In `discovery` the page of the first
one can never be fetched, requests ask for two new notices, and one URL is also run
directly: so a discovery passes over a page that fails, reaches its limit before or at the end
of the list, races another discovery and a direct run to the same row, and finds a URL
skipped, stored meanwhile, or failed. The second list has a URL on both boards; the
adapter drops its second occurrence (`WithoutRepeats`), so it never reaches the loop, unless
the adapter is wrong. No request count bounds the run: requests never end, and deadlock
is checked.

`EveryNoticeRuns` says that a notice that is always on the boards is stored eventually. It
assumes (`Fairness`):

* weak fairness of each thread's own steps - a thread of the pool runs until its request ends;
* strong fairness of starting a discovery - the console sends them again and again, and the pool
  serves its queue in order, although other requests occupy its threads in between;
* strong fairness of fetching, for each URL - a page that is not broken for ever is read at
  some time when it is tried again and again;
* `Settle` - from some time on, the process stays up.

and that fewer pages are broken for ever than a discovery runs URLs. The last condition
is the code's: a page that fails leaves no row, so every discovery tries it again, and counts it
against `max_new_notices`. The default, which the console sends, is 1: with it one broken
page at the top of the boards stops the discovery of everything below. TLC shows this when
`Discovery.cfg` is given `Limit = {1}`. No document of the repository promises
otherwise, so it is not listed among the findings.

`StoredNotRunAgain` fails because a run takes minutes and the table is asked only before
it. Nothing is lost by that: the merge replaces the row, and the second of two concurrent
INSERTs is refused.

**MCDocumentExtraction.** One document in three formats, one of them under a second name, and one file that
nothing reads; five listings: the three formats, a name that occurs twice around another document, two links to one
file, two files of one format, none. Every URL may answer differently each time, or not at all; OCR may fail or return any text,
with and without a key configured (3565 states). `MCAgree` is not transitive, as similarity is not.
`AnalysisEnds` assumes weak fairness of `Step`: the thread goes on, and downloads and OCR calls
have timeouts.

**MCPolicyBuilder.** Eight drafts that differ from each other in the number, order, range, list and
key of their conditions, with conditions without operands, an `exists` that is not answered by true or false, one field
under two keys, two fields under one, both at once, and quotes of no document; two corpora, one with
an attachment and one with a conflict and a title that does not fit; three catalogs, one with an ambiguous label; three
keys; three versions (623,607 states). Two versions are needed for a change, the third
compares against one whose keys have been renamed. After the last version no run is left:
`CHECK_DEADLOCK FALSE`. `RebuildIsQuiet` has the precondition `Recognised`: every label of the draft leads to one
definition, the one that the published rule asks for. It excludes the ways, listed above, in which a key or a label is
ambiguous or a merge has given two fields one definition; renamed and unrenamed fields, and drafts of several
conditions, satisfy it. All the invariants of this run are proved for all bounds.

**MCCitizenApp.** One policy with three conditions under "and" and "or", one of them on a field without an
approved definition; two values, three days, an answer that is valid for one day; two requests at a
time, and one reset, reload or failure, besides the deletions of a reset that fail (493,669 states). Two requests are
what an overlap needs; three days let an answer be given, count on its last day, and be stale. One policy is
enough for the stores, as they hold sets; `ScreenIsStored`, `OthersKept` and `VerdictIsFinal` are proved for all bounds.
Fairness, for `QuestionsEnd`:

* weak fairness of the start (`LoadDone`: its requests have a time limit) and of the requests of each store;
* strong fairness of `Answer` and `SubmitForm`: a citizen who is asked again and again answers. This is
  an assumption on the citizen, as the property is about one who does;
* `QuestionsEnd` speaks of behaviours in which, from some time on, no overlap of `Disturb` occurs.

Stale answers are asked again, and each new day may make more of them stale; the questions end because
days do in the model (`MaxDay`), and between two days each answer leaves fewer questions.

**MCAdminConsole.** Four reviews of three runs, one of them discovered later, and two requests at a
time: with one there is no overtaking.

## 4. Proofs

`PolicyReviewProofs`, for all finite or infinite sets of workers, runs, fields and drafts and
every bound on versions, from `ConstantAssumption` alone:

* `TypeCorrect`: types, at both isolation levels.
* `InvariantHolds` (the strengthening described next), `FieldsApproved`, `ReviewsApproved`,
  `OriginsApproved`, `RowsAgree`, `ReviewsAgree`, `DecisionsFinal`: when transactions do not overlap.

None of these is inductive. `TransactionInvariant` adds what makes them so: at most one
transaction is open (`OneTransaction`), so what it has read is still what is stored
(`ReadsAreCurrent`); a pending definition of a package has an open proposal of
the run the row names (`PendingIsOpen`), so the check of the proposals is a
check of the payload; a payload that a publisher holds between its transactions has no
pending definition (`HeldPayload`), whatever happened to the row; each run has at most
one package and unsaved runs have no reviews (`StoredRuns`, `RunsAreFresh`).
Three lemmas carry the argument: `HoldStep` (a step that only changes what a request
holds), `CommitStep` (the last write of a transaction) and `VerdictStep` (a verdict
on a version). `OriginsApproved` needs a second invariant on top, `OriginsChecked`: closed
proposals of a stored run stay closed (`ClosedStays`), so what the first transaction of a
publication checked is still so in the third.

`NoticeDiscoveryProofs`, for all sets of threads, URLs, keys, all lists of URLs, all
limits up to the API's 5 and any set of broken pages, from `DiscoveryAssumption` alone:

* `TypeCorrect`, `CompletedRunsAreClean`, `ReviewsHaveReasons`: what a stored run says
  of itself is true. `RunConsistent` is the strengthening: what holds of the graph state in front
  of each node. Lemma `NodeConsistent` shows once, without any request, that every node
  keeps it; `RunReplaced` carries that over to the request that took the step.
* `NewestComesFirst`, `NoUrlRunTwice`, `DiscoveryInvariantHolds`: the walk down the list.
  Needed besides: a stored row holds a URL of its key (`KeysMatch`), so that a skipped
  URL is handled although the row's URL may be replaced later by another of the same key;
  and what a request has run lies above its index in a list without repeats (`ListWalked`).

`PublicationContractProofs` shows that the contract means what it should: only cleared
keys are ever shown (`ContractShowsCleared`), and a decision and its key never change
(`ContractDecidesOnce`).

`PolicyPayloadProofs`, on the same constants:

* `RulesAreDefined`, `ApprovedAreArchived`, `PublicLinksAreServed`: at both isolation
  levels, whatever files the runs find. `PayloadInvariant` says why overlapping requests cannot break them: every statement
  writes a whole payload, and every payload that a row or a request holds is `Whole` - its rule
  is defined, its public links are in the bucket, and if it says approved, evidence of its files that is not archived is
  explained by a stored run that found the notice without them. A stale payload is an older one, but still
  whole, as the bucket and the stored runs only grow (`WholeStays`); the notice that an archive
  looks names up in is that of a stored run (`NoticeWhole`).
* `PublishedKeysAreCleared`: when transactions do not overlap. `KeysInvariant` follows the definitions
  that count as approved from the registry and the previous policy that a run has read, through
  renames, to the row; `TransactionInvariant` is needed where a review and its proposal must agree.

`PolicyContractProofs`: `ContractImplemented`. When transactions do not overlap, `PolicyReview` implements
`PublicationContract`. Each request maps to one step of the contract at its commit - a decision, a
submission with the reviews of a run, the showing or hiding of a version - and to stutters before it. What the commit needs
to know of earlier statements (`ReadsAreCurrent`, `KeysInvariant`) is what the invariants above say.

`DocumentExtractionProofs`, for all names, types, contents, listings and relations `Agree`, from
`ExtractionAssumption`: all safety properties of `documents`. `ExtractionInvariant` adds that groups
are whole (an attachment's group is that of its name's stem: no second group takes it), that the passes
go in order (what is not left to do has a result, and only candidates of this group are retried), that what
was read came from the cache (`CachedReads`, which makes the OCR pass read the same bytes), and
that a comparison judged the results that are still there (`CorpusJudged`). `SilentCorpusAgrees` needs that
the sort is total (`Before`), so that every pair is compared in one order or the other. `BestFormatRepresents` needs that the
first result of a format belongs to the name that the notice lists first. `ResultsStandForGood` follows step by step from the
order of the passes: an attachment that has been read is neither to do nor a candidate.

`CitizenAppProofs`, for all policies, rules, fields and values and any number of days, requests, resets and
failures, from the assumptions of `Matcher` and `AppAssumption`: `TypeCorrect`, `ScreenAgrees`,
`OthersAreKept`. `AppInvariant` holds as long as nothing has disturbed it: before the start is done nothing is
queued; a deletion is the last request of its store; a store that a reset has emptied stays empty until the reset is done;
every other store is the one that is shown; at most one answer or form is being saved, and it agrees with the
store on the fields it is not about; an open form was opened with what is stored. No rule is evaluated in that part.

`VerdictFinal` (in the same module) is about evaluation: for every tree of rules, every profile and every day, a verdict of YES
or NO is that of every completion of the valid answers. `EvaluateRule` and `Met` are recursive functions on rules. The
library's theorems on recursive definitions take operators as parameters; `RulesHaveValues` proves the one fact needed
with sets and functions only: from `RulesAreTrees`, a function exists whose value at each rule is the one computed from
its parts (unions of partial solutions, which agree by `SolutionsAgree`). `VerdictValues` and `MetValues` are its instances.
Then the set of rules with a verdict that some completion contradicts has a least member (`LeastRule`), which is neither a
condition (`ConditionIsFinal`: a valid answer stays) nor an "and" or "or" of rules with final verdicts
(`AndDecided`, `OrDecided`).

`PolicyBuilderProofs`, for all keys, drafts, corpora, catalogs and numbers of versions, from `BuilderAssumption`
alone: all the invariants of `building`. They follow from `BuilderInvariant` (`BuilderInductive`), which TLC has checked
on the instance of `building` too:

* `AreApproved(Registered)` - what is in the catalog or was approved is an approved definition. There is no more to say: two
  approvals may share a key, and each of the `Readings` has one of them (`IsRegistry`);
* `Whole` - what a package is, published or not: of the right type; definitions under different keys (`UniqueKeys`); a definition
  for every rule (`Explained`); the rules those of its draft, in its order, except for their fields
  (`FromDraft`); each change classified from the rules it records, and citing evidence of its own field (`TrueChange`);
* `RegisteredFields` - what is approved in a package is registered under its key, though perhaps with another definition;
* `PendingAsked`, `Accounted`, `ReviewUsed` - what waits in a package is in `pending`, every definition in it has one of the
  origins that `ReviewedIsUsed` names, and what is under review is in the package. The first makes `PublishedIsExplained` hold after `Publish`, which asks only for `pending = {}`.

Each step keeps them: `Run` because the loops of the builder establish them; `ApproveReview` because a rename acts alike
on definitions, rules and changes, and the first definition of a key stays. The loops - resolution of candidates, the dict by
key, the filter of conditions, the grouping of rules by field - are recursive functions over lists. Induction over their length
comes from the least number of a set (`NatMinimum`, from `NatLessThanWellFounded`, which has no operator among its
parameters) by way of `IntervalInduction` over a set of indices; `LoopRuns` is the existence of a function that satisfies the recursion.
From these: `AscendingLists` and `ItemsPicked` (what `Items` returns, in which order), `FirstOfKeysKeeps`, `LastOfKeyIs`
and `DictOfKeeps` (keys, uniqueness, values of the dict), `ResolveRuns` and `FieldsFound` (each candidate finds a definition
that is registered or proposed), `FieldsRecognised` (recognised labels resolve to their definitions and propose nothing),
`RulesBuilt`, `ChangesTrue`.
`RebuildsAreQuiet` evaluates a build that has not happened: when every label is recognised, the fields it resolves to are those of
the published rules, so that rules are equal one by one and the comparison finds none that differ. `ChangesTrueAlways`
adds `SingleChangeIsTrue`, the arithmetic of ranges and lists, to `TrueChange`.

Model-checked only: liveness (`EveryNoticeRuns`, `AnalysisEnds`, `QuestionsEnd`), which is out of the prover's reach. All the
safety properties and action properties of the passing runs are theorems.

## 5. What is left

Modelled in part: list and detail endpoints of the API (they only read); `ensure_default_profile_fields` and the
lookups of discovery; `add_review_urls` (signs URLs); the console's list of policies, attachments and edits.
In the citizen app: the carousel and the history of the browser; the preview and interests modes of the
profile form; two tabs, whose React states nothing keeps together (IndexedDB orders their requests, but each
screen stays what it was); a change of the day while the feed is open, which renews the questions but not the
memo of the visible policies.

Worth adding next: the list of policies of the console with the filter of approved payloads, composed with
`PolicyReview`; the second tab; the carousel with the end of its CSS transition as an external event (a card that is
hidden while the carousel moves may leave one card, whose transition never ends: `App.tsx:184-203`).

Not modelled:

* the mock graph and the snapshots: stand-ins which no endpoint uses for agent runs;
* the parsing of boards, pages, PDF and HWPX files, the OCR and the extraction by OpenAI: I/O on third-party
  services or formats; their answers are nondeterministic inputs of the models;
* the service worker: it answers the app shell from the cache of its installation, keeps no other state and
  never caches an answer of the API;
* migrations, smoke scripts, infrastructure, styling.

Known limits of the program that the models show and no document promises otherwise, besides those under
*PolicyBuilder* and *CitizenApp*: a package with a rejected proposal can only be replaced by a new run; a page
that fails for ever blocks the notices below it with `max_new_notices = 1`; two concurrent runs of one new notice both
insert it, and the run that commits last is lost; a notice that the boards list under two URLs is new under each of
them in turn, and its approved version 1 is built again; an approval stores its copy of the notice over that of
a newer run; evidence of the notice's page, or of a file that is not attached any more, is approved with its
link to the district's site; of two attachments with one name
the later one's text counts as evidence; `exists` with the value false is never met; a question may be asked
whose answer cannot change the verdict, where the field is under an "or" that another field decides; a stale
field without an approved definition brings no question; in the console a decision moves on to the next review
without loading its notice.
