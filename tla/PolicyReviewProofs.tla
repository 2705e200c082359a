------------------------- MODULE PolicyReviewProofs -------------------------
(***************************************************************************)
(* Theorems about PolicyReview, for every set of workers, runs, fields and *)
(* drafts and every bound on versions.                                     *)
(***************************************************************************)
EXTENDS PolicyReview, TLAPS

LEMMA IdleType == Idle \in Request /\ NoRow \in Row /\ NoPayload \in Payload
<1>1. AnyField \in Field
  BY ConstantAssumption DEF AnyField
<1>2. NoPayload \in Payload
  BY DEF NoPayload, Payload, FieldState, Status
<1>3. NoRow \in Row
  BY <1>2 DEF NoRow, Row
<1>4. NoNotice \in Notice
  BY DEF NoNotice, Notice
<1>5. 0 \in 0..MaxVersion
  BY ConstantAssumption
<1>6. QED
  BY <1>1, <1>2, <1>3, <1>4, <1>5 DEF Idle, Request, Decision

\* What the archive copies, and what it makes of the copies of a request.
LEMMA ArchivableType ==
  ASSUME NEW q \in Request
  PROVE  Archivable(q) \in SUBSET Document
BY DEF Archivable, Request, Payload

LEMMA LinkedHolds ==
  ASSUME NEW q \in Request, NEW files \in SUBSET Document
  PROVE  LET linked == Linked(q, files)
         IN  /\ linked \in Request /\ linked.at = "archived"
             /\ linked.run = q.run /\ linked.version = q.version
             /\ linked.known = q.known /\ linked.row = q.row
             /\ linked.notice.run = q.notice.run
             /\ linked.notice.public = q.notice.public \cup files
             /\ linked.payload = [q.payload EXCEPT !.public = @ \cup files]
             /\ linked.payload.fields = q.payload.fields
             /\ linked.payload.origin = q.payload.origin
<1>1. /\ [q.payload EXCEPT !.public = @ \cup files] \in Payload
      /\ [q.notice EXCEPT !.public = @ \cup files] \in Notice
  BY DEF Request, Payload, Notice
<1>2. "archived" \in PublishPoint
  BY DEF PublishPoint
<1> QED
  BY <1>1, <1>2 DEF Linked, Request, Payload, Notice

\* The builder, the merge and the rename return documents of the right shape.
LEMMA BuiltType ==
  ASSUME NEW r \in Run, NEW draft \in Draft, NEW registry
  PROVE  Built(r, draft, registry) \in Payload
<1>1. draft.rule \in SUBSET Field /\ draft.cites \in SUBSET Document
  BY ConstantAssumption
<1>2. QED
  BY <1>1 DEF Built, Payload, FieldState, Status

LEMMA ReplaceType ==
  ASSUME NEW payload \in Payload, NEW old \in Field, NEW new \in Field, NEW keepOld \in BOOLEAN
  PROVE  ReplacePolicyField(payload, old, new, keepOld) \in Payload
<1>1. payload.fields \in [Field -> FieldState] /\ payload.rule \in SUBSET Field
  BY DEF Payload
<1>2. ReplaceField(payload.fields, old, new, keepOld) \in [Field -> FieldState]
  BY <1>1 DEF ReplaceField, FieldState
<1>3. ReplaceRuleField(payload.rule, old, new) \in SUBSET Field
  BY <1>1 DEF ReplaceRuleField
<1>4. QED
  BY <1>2, <1>3 DEF ReplacePolicyField, Payload

LEMMA DecidedType ==
  ASSUME NEW row \in Row, NEW payload \in Payload, NEW verdict \in Decision
  PROVE  Decided(row, payload, verdict) \in Row
<1>1. [payload EXCEPT !.review = verdict] \in Payload
  BY DEF Payload, Status
<1>2. QED
  BY <1>1 DEF Decided, Row, Status

LEMMA VersionOfType == ASSUME NEW r PROVE VersionOf(r) \in 0..MaxVersion
<1>1. Version \subseteq 0..MaxVersion /\ 0 \in 0..MaxVersion
  BY ConstantAssumption DEF Version
<1>2. QED
  BY <1>1 DEF VersionOf

LEMMA VersionInRange == Version \subseteq 0..MaxVersion /\ 0 \notin Version
  BY ConstantAssumption DEF Version

\* A step that only changes what a worker holds keeps the types.
LEMMA QuietType ==
  ASSUME TypeOK, UNCHANGED tables, NEW w \in Worker, NEW q \in Request, Aimed(q),
         req' = [req EXCEPT ![w] = q]
  PROVE  TypeOK'
  BY DEF TypeOK, tables

\* So does the end of a request, whatever the tables become.
LEMMA FinishType ==
  ASSUME TypeOK, NEW w \in Worker, Finish(w)
  PROVE  req' \in [Worker -> Request] /\ \A other \in Worker : Aimed(req'[other])
<1>1. Idle \in Request /\ Aimed(Idle)
  BY IdleType DEF Aimed, Idle, RunPoint, ReviewPoint, PublishPoint
<1>2. QED
  BY <1>1 DEF TypeOK, Finish

-----------------------------------------------------------------------------
LEMMA RunStepType == ASSUME TypeOK, NEW w \in Worker, RunStep(w) PROVE TypeOK'
<1> USE DEF RunPoint, ReviewPoint, PublishPoint
<1>0. req[w] \in Request /\ Aimed(req[w])
  BY DEF TypeOK
<1>1. ASSUME NEW r \in Run, NEW previous \in 0..(MaxVersion - 1),
             LoadPreviousPolicy(w, r, previous)
      PROVE  TypeOK'
  <2> DEFINE known == IF previous = 0 THEN {} ELSE ApprovedIn(package[previous].payload)
             q == [Idle EXCEPT !.at = "loaded", !.run = r,
                               !.version = previous + 1, !.known = known]
  <2>1. previous + 1 \in 0..MaxVersion /\ previous + 1 \in Version
    BY ConstantAssumption DEF Version
  <2>2. known \in SUBSET Field
    BY DEF ApprovedIn
  <2>3. q \in Request /\ Aimed(q)
    <3> HIDE DEF known
    <3> QED BY <2>1, <2>2, IdleType DEF Request, Aimed
  <2>4. QED
    BY <1>1, <2>3, QuietType DEF LoadPreviousPolicy
<1>2. ASSUME NEW draft \in Draft, Analyse(w, draft)
      PROVE  TypeOK'
  <2> DEFINE built == Built(req[w].run, draft, req[w].known \cup ApprovedKeys)
             q == [req[w] EXCEPT !.at = "analysed", !.payload = built]
  <2>1. req[w].at = "loaded" /\ req[w].run \in Run
    BY <1>0, <1>2 DEF Analyse, Aimed
  <2>2. built \in Payload
    BY <2>1, BuiltType
  <2>3. q \in Request /\ Aimed(q)
    <3> HIDE DEF built
    <3> QED BY <1>0, <2>1, <2>2 DEF Request, Aimed
  <2>4. req' = [req EXCEPT ![w] = q]
    BY <1>2 DEF Analyse, TypeOK
  <2>5. QED
    BY <1>2, <2>3, <2>4, QuietType DEF Analyse
<1>3. ASSUME SaveRead(w)
      PROVE  TypeOK'
  <2> DEFINE q == [req[w] EXCEPT !.at = "saving", !.row = package[req[w].version]]
  <2>1. package[req[w].version] \in Row
    BY <1>0, <1>3 DEF SaveRead, Aimed, TypeOK
  <2>2. q \in Request /\ Aimed(q)
    BY <1>0, <1>3, <2>1 DEF SaveRead, Request, Aimed
  <2>3. req' = [req EXCEPT ![w] = q]
    BY <1>3 DEF SaveRead, TypeOK
  <2>4. QED
    BY <1>3, <2>2, <2>3, QuietType DEF SaveRead
<1>4. ASSUME SaveExecution(w)
      PROVE  TypeOK'
  <2>1. req[w].run \in Run /\ req[w].version \in Version /\ req[w].payload \in Payload
    BY <1>0, <1>4 DEF SaveExecution, Aimed, Request
  <2>2. package' \in [Version -> Row]
    BY <1>4, <2>1 DEF SaveExecution, Merged, Row, Status, TypeOK
  <2>3. /\ proposal' \in [Run -> [Field -> Status \cup {"none"}]]
        /\ review' \in [Run -> [Field -> Status \cup {"none"}]]
    BY <1>4 DEF SaveExecution, Status, TypeOK
  <2>4. notice' \in Notice /\ saved' \in SUBSET Run
    BY <1>4, <2>1 DEF SaveExecution, Notice, TypeOK
  <2>5. Finish(w) /\ UNCHANGED <<approvedAs, exposed>>
    BY <1>4 DEF SaveExecution
  <2>6. QED
    BY <2>2, <2>3, <2>4, <2>5, FinishType DEF TypeOK
<1>5. QED
  BY <1>1, <1>2, <1>3, <1>4 DEF RunStep

LEMMA DecideType ==
  ASSUME TypeOK, NEW w \in Worker, req[w].at \in ReviewPoint, Decide(w)
  PROVE  /\ review' \in [Run -> [Field -> Status \cup {"none"}]]
         /\ proposal' \in [Run -> [Field -> Status \cup {"none"}]]
         /\ approvedAs' \in [Run -> [Field -> Field]]
<1>1. req[w].run \in Run /\ req[w].key \in Field /\ req[w].as \in Field /\ req[w].decision \in Status
  BY DEF TypeOK, Aimed, Request, Status
<1>2. QED
  BY <1>1 DEF Decide, TypeOK

LEMMA ReviewStepType == ASSUME TypeOK, NEW w \in Worker, ReviewStep(w) PROVE TypeOK'
<1> USE DEF RunPoint, ReviewPoint, PublishPoint
<1>0. req[w] \in Request /\ Aimed(req[w])
  BY DEF TypeOK
<1>1. ASSUME NEW r \in Run, NEW k \in Field, NEW decision \in Decision, NEW as \in Field,
             ReadReview(w, r, k, decision, as)
      PROVE  TypeOK'
  <2> DEFINE q == [Idle EXCEPT !.at = "reviewRead", !.run = r, !.key = k,
                               !.decision = decision, !.as = as]
  <2>2. q \in Request /\ Aimed(q)
    BY <1>0, <1>1, IdleType DEF ReadReview, Request, Aimed
  <2>3. req' = [req EXCEPT ![w] = q]
    BY <1>1 DEF ReadReview, TypeOK
  <2>4. QED
    BY <1>1, <2>2, <2>3, QuietType DEF ReadReview
<1>2. ASSUME ReadProposal(w)
      PROVE  TypeOK'
  <2> DEFINE q == [req[w] EXCEPT !.at = "proposalRead",
                                 !.prior = proposal[req[w].run][req[w].key]]
  <2>1. proposal[req[w].run][req[w].key] \in Status \cup {"none"}
    BY <1>0, <1>2 DEF ReadProposal, Aimed, Request, TypeOK
  <2>2. q \in Request /\ Aimed(q)
    BY <1>0, <1>2, <2>1 DEF ReadProposal, Request, Aimed
  <2>3. req' = [req EXCEPT ![w] = q]
    BY <1>2 DEF ReadProposal, TypeOK
  <2>4. QED
    BY <1>2, <2>2, <2>3, QuietType DEF ReadProposal
<1>3. ASSUME FlushAndReadPackage(w)
      PROVE  TypeOK'
  <2> DEFINE v == VersionOf(req[w].run)
             row == IF v = 0 THEN NoRow ELSE package[v]
             q == [req[w] EXCEPT !.at = "flushed", !.version = v, !.row = row]
  <2>1. v \in 0..MaxVersion
    BY VersionOfType
  <2>2. row \in Row
    <3>1. v # 0 => v \in Version
      BY <2>1, ConstantAssumption DEF Version
    <3>2. QED
      BY <3>1, IdleType DEF TypeOK
  <2>3. q \in Request /\ Aimed(q)
    <3> HIDE DEF v, row
    <3> QED BY <1>0, <1>3, <2>1, <2>2 DEF FlushAndReadPackage, Request, Aimed
  <2>4. req' = [req EXCEPT ![w] = q]
    BY <1>3 DEF FlushAndReadPackage, TypeOK
  <2>5. QED
    BY <1>3, <2>3, <2>4, QuietType DEF FlushAndReadPackage
<1>4. ASSUME NEW keepOld \in BOOLEAN, ApproveReview(w, keepOld)
      PROVE  TypeOK'
  <2>1. req[w].at \in ReviewPoint /\ Decide(w) /\ Finish(w) /\ UNCHANGED <<notice, exposed, saved>>
    BY <1>4 DEF ApproveReview
  <2>2. ReplacePolicyField(req[w].row.payload, req[w].key, req[w].as, keepOld) \in Payload
    BY <1>0, ReplaceType DEF Request, Row
  <2>3. package' \in [Version -> Row]
    BY <1>4, <2>2 DEF ApproveReview, Row, TypeOK
  <2>4. QED
    BY <2>1, <2>3, DecideType, FinishType DEF TypeOK
<1>5. ASSUME RejectReview(w)
      PROVE  TypeOK'
  <2>1. /\ req[w].at \in ReviewPoint /\ Decide(w) /\ Finish(w)
        /\ UNCHANGED <<package, notice, exposed, saved>>
    BY <1>5 DEF RejectReview
  <2>2. QED
    BY <2>1, DecideType, FinishType DEF TypeOK
<1>6. QED
  BY <1>1, <1>2, <1>3, <1>4, <1>5 DEF ReviewStep

LEMMA PublishStepType == ASSUME TypeOK, NEW w \in Worker, PublishStep(w) PROVE TypeOK'
<1> USE DEF RunPoint, ReviewPoint, PublishPoint
<1>0. req[w] \in Request /\ Aimed(req[w])
  BY DEF TypeOK
<1>1. ASSUME NEW v \in Version, ReadContext(w, v)
      PROVE  TypeOK'
  <2> DEFINE q == [Idle EXCEPT !.at = "contextRead", !.version = v, !.row = package[v]]
  <2>1. package[v] \in Row /\ v \in 0..MaxVersion
    BY VersionInRange DEF TypeOK
  <2>2. q \in Request /\ Aimed(q)
    <3>1. q \in Request
      BY <2>1, IdleType DEF Request
    <3>2. q.version = v /\ q.at \notin RunPoint \cup ReviewPoint
      BY IdleType DEF Request
    <3>3. QED
      BY <3>1, <3>2 DEF Aimed
  <2>3. req' = [req EXCEPT ![w] = q]
    BY <1>1 DEF ReadContext, TypeOK
  <2>4. QED
    BY <1>1, <2>2, <2>3, QuietType DEF ReadContext
<1>2. ASSUME CheckContext(w)
      PROVE  TypeOK'
  <2> DEFINE q == [req[w] EXCEPT !.at = "contextChecked"]
  <2>2. q \in Request /\ Aimed(q)
    BY <1>0, <1>2 DEF CheckContext, Request, Aimed
  <2>3. req' = [req EXCEPT ![w] = q]
    BY <1>2 DEF CheckContext, TypeOK
  <2>4. QED
    BY <1>2, <2>2, <2>3, QuietType DEF CheckContext
<1>3. ASSUME ReadNotice(w)
      PROVE  TypeOK'
  <2> DEFINE q == [req[w] EXCEPT !.at = "archiving", !.payload = req[w].row.payload,
                                 !.notice = notice]
  <2>1. req[w].row.payload \in Payload /\ notice \in Notice
    BY <1>0 DEF Request, Row, TypeOK
  <2>2. q \in Request /\ Aimed(q)
    BY <1>0, <1>3, <2>1 DEF ReadNotice, Request, Aimed
  <2>3. req' = [req EXCEPT ![w] = q]
    BY <1>3 DEF ReadNotice, TypeOK
  <2>4. QED
    BY <1>3, <2>2, <2>3, QuietType DEF ReadNotice
<1>4. ASSUME ArchiveEvidence(w)
      PROVE  TypeOK'
  <2> DEFINE q == Linked(req[w], Archivable(req[w]))
  <2>1. q \in Request /\ Aimed(q)
    BY <1>0, <1>4, ArchivableType, LinkedHolds DEF ArchiveEvidence, Aimed, RunPoint, PublishPoint,
                                                   ReviewPoint
  <2>2. req' = [req EXCEPT ![w] = q]
    BY <1>4 DEF ArchiveEvidence, TypeOK
  <2>3. exposed' \in SUBSET ((Run \cup {NoRun}) \X Document)
    BY <1>0, <1>4, ArchivableType DEF ArchiveEvidence, Expose, Request, Payload, TypeOK
  <2>4. UNCHANGED <<package, proposal, review, approvedAs, notice, saved>>
    BY <1>4 DEF ArchiveEvidence
  <2>5. QED
    <3> HIDE DEF q
    <3> QED BY <2>1, <2>2, <2>3, <2>4 DEF TypeOK
<1>5. ASSUME ArchiveFails(w)
      PROVE  TypeOK'
  <2>1. exposed' \in SUBSET ((Run \cup {NoRun}) \X Document)
    BY <1>0, <1>5, ArchivableType DEF ArchiveFails, Expose, Request, Payload, TypeOK
  <2>2. Finish(w) /\ UNCHANGED <<package, proposal, review, approvedAs, notice, saved>>
    BY <1>5 DEF ArchiveFails
  <2>3. QED
    BY <2>1, <2>2, FinishType DEF TypeOK
<1>6. ASSUME SaveNotice(w)
      PROVE  TypeOK'
  <2> DEFINE q == [req[w] EXCEPT !.at = "noticeSaved"]
  <2>1. q \in Request /\ Aimed(q)
    BY <1>0, <1>6 DEF SaveNotice, Request, Aimed
  <2>2. req' = [req EXCEPT ![w] = q]
    BY <1>6 DEF SaveNotice, TypeOK
  <2>3. notice' \in Notice /\ UNCHANGED <<package, proposal, review, approvedAs, exposed, saved>>
    BY <1>0, <1>6 DEF SaveNotice, Request
  <2>4. QED
    <3> HIDE DEF q
    <3> QED BY <2>1, <2>2, <2>3 DEF TypeOK
<1>7. ASSUME ReadForPublish(w)
      PROVE  TypeOK'
  <2> DEFINE q == [req[w] EXCEPT !.at = "publishRead", !.row = package[req[w].version]]
  <2>1. package[req[w].version] \in Row
    BY <1>0, <1>7 DEF ReadForPublish, Aimed, TypeOK
  <2>2. q \in Request /\ Aimed(q)
    BY <1>0, <1>7, <2>1 DEF ReadForPublish, Request, Aimed
  <2>3. req' = [req EXCEPT ![w] = q]
    BY <1>7 DEF ReadForPublish, TypeOK
  <2>4. QED
    BY <1>7, <2>2, <2>3, QuietType DEF ReadForPublish
<1>8. ASSUME CheckForPublish(w)
      PROVE  TypeOK'
  <2> DEFINE q == [req[w] EXCEPT !.at = "publishChecked"]
  <2>2. q \in Request /\ Aimed(q)
    BY <1>0, <1>8 DEF CheckForPublish, Request, Aimed
  <2>3. req' = [req EXCEPT ![w] = q]
    BY <1>8 DEF CheckForPublish, TypeOK
  <2>4. QED
    BY <1>8, <2>2, <2>3, QuietType DEF CheckForPublish
<1>9. ASSUME Publish(w)
      PROVE  TypeOK'
  <2>1. package' \in [Version -> Row]
    BY <1>0, <1>9, DecidedType DEF Publish, Request, Row, Decision, TypeOK
  <2>2. Finish(w) /\ UNCHANGED <<proposal, review, approvedAs, notice, exposed, saved>>
    BY <1>9 DEF Publish
  <2>3. QED
    BY <2>1, <2>2, FinishType DEF TypeOK
<1>10. QED
  BY <1>1, <1>2, <1>3, <1>4, <1>5, <1>6, <1>7, <1>8, <1>9 DEF PublishStep

LEMMA RejectStepType == ASSUME TypeOK, NEW w \in Worker, RejectStep(w) PROVE TypeOK'
<1> USE DEF RunPoint, ReviewPoint, PublishPoint
<1>0. req[w] \in Request /\ Aimed(req[w])
  BY DEF TypeOK
<1>1. ASSUME NEW v \in Version, ReadForReject(w, v)
      PROVE  TypeOK'
  <2> DEFINE q == [Idle EXCEPT !.at = "rejectRead", !.version = v, !.row = package[v]]
  <2>1. package[v] \in Row /\ v \in 0..MaxVersion
    BY VersionInRange DEF TypeOK
  <2>2. q \in Request /\ Aimed(q)
    <3>1. q \in Request
      BY <2>1, IdleType DEF Request
    <3>2. q.version = v /\ q.at \notin RunPoint \cup ReviewPoint
      BY IdleType DEF Request
    <3>3. QED
      BY <3>1, <3>2 DEF Aimed
  <2>3. req' = [req EXCEPT ![w] = q]
    BY <1>1 DEF ReadForReject, TypeOK
  <2>4. QED
    BY <1>1, <2>2, <2>3, QuietType DEF ReadForReject
<1>2. ASSUME RejectPolicy(w)
      PROVE  TypeOK'
  <2>1. package' \in [Version -> Row]
    BY <1>0, <1>2, DecidedType DEF RejectPolicy, Request, Row, Decision, TypeOK
  <2>2. Finish(w) /\ UNCHANGED <<proposal, review, approvedAs, notice, exposed, saved>>
    BY <1>2 DEF RejectPolicy
  <2>3. QED
    BY <2>1, <2>2, FinishType DEF TypeOK
<1>3. QED
  BY <1>1, <1>2 DEF RejectStep

LEMMA InitType == Init => TypeOK
<1> SUFFICES ASSUME Init PROVE TypeOK
  OBVIOUS
<1>1. package \in [Version -> Row] /\ req \in [Worker -> Request]
  BY IdleType DEF Init
<1>2. \A w \in Worker : Aimed(req[w])
  BY DEF Init, Aimed, Idle, RunPoint, ReviewPoint, PublishPoint
<1>3. notice \in Notice /\ exposed \in SUBSET ((Run \cup {NoRun}) \X Document) /\ saved \in SUBSET Run
  BY DEF Init, NoNotice, Notice
<1>4. /\ proposal \in [Run -> [Field -> Status \cup {"none"}]]
      /\ review \in [Run -> [Field -> Status \cup {"none"}]]
      /\ approvedAs \in [Run -> [Field -> Field]]
  BY DEF Init
<1>5. QED
  BY <1>1, <1>2, <1>3, <1>4 DEF TypeOK

LEMMA NextType == TypeOK /\ [Next]_vars => TypeOK'
<1> SUFFICES ASSUME TypeOK, [Next]_vars PROVE TypeOK'
  OBVIOUS
<1>1. ASSUME NEW w \in Worker, Abort(w) PROVE TypeOK'
  BY <1>1, FinishType DEF Abort, tables, TypeOK
<1>2. CASE UNCHANGED vars
  BY <1>2 DEF vars, TypeOK
<1>3. QED
  BY <1>1, <1>2, RunStepType, ReviewStepType, PublishStepType, RejectStepType DEF Next

\* Every row, and every object a request holds, has the shape the schema and
\* the code give it, however requests overlap.
THEOREM TypeCorrect == Spec => []TypeOK
BY InitType, NextType, PTL DEF Spec
-----------------------------------------------------------------------------
(***************************************************************************)
(* The invariant of transactions that do not overlap.                      *)
(***************************************************************************)
LEMMA Exclusive ==
  ASSUME Isolation # "statement", NEW w \in Worker, MayBegin(w), NEW other \in Worker \ {w}
  PROVE  ~InTransaction(other)
BY ConstantAssumption DEF MayBegin, InTransaction, TransactionPoint, ReviewPoint

\* What a request may hold next to keep the invariant.
Admissible(w, q) ==
    /\ q.at \in TransactionPoint =>
          InTransaction(w) \/ \A other \in Worker \ {w} : ~InTransaction(other)
    /\ q.at \in RunPoint =>
          /\ q.run \notin saved
          /\ \A other \in Worker \ {w} : ~(req[other].at \in RunPoint /\ req[other].run = q.run)
    /\ ReadsAreCurrent(q)
    /\ HeldPayload(q)

LEMMA HoldStep ==
  ASSUME TypeOK, TransactionInvariant, UNCHANGED <<package, proposal, review, saved>>,
         NEW w \in Worker, NEW q, Admissible(w, q), req' = [req EXCEPT ![w] = q]
  PROVE  TransactionInvariant'
<1>0. /\ req'[w] = q
      /\ \A other \in Worker \ {w} : req'[other] = req[other]
  BY DEF TypeOK
<1>1. OneTransaction'
  BY <1>0 DEF TransactionInvariant, OneTransaction, InTransaction, Admissible
<1>2. RunsAreFresh'
  BY <1>0 DEF TransactionInvariant, RunsAreFresh, Admissible
<1>3. RequestsOK'
  <2> SUFFICES ASSUME NEW u \in Worker
               PROVE  ReadsAreCurrent(req[u])' /\ HeldPayload(req[u])'
    BY DEF RequestsOK
  <2>1. ReadsAreCurrent(req'[u]) /\ HeldPayload(req'[u])
    BY <1>0 DEF TransactionInvariant, RequestsOK, Admissible
  <2>2. QED
    BY <2>1 DEF ReadsAreCurrent, HeldPayload, AllProposalsApproved
<1>4. /\ StoredRuns' /\ PendingIsOpen' /\ ReviewAgreesWithProposal'
      /\ PublishedReviewsApproved' /\ RowAgreesWithPayload'
  BY DEF TransactionInvariant, StoredRuns, PendingIsOpen, ReviewAgreesWithProposal,
         PublishedReviewsApproved, RowAgreesWithPayload, Listed, AllProposalsApproved
<1>5. QED
  BY <1>1, <1>2, <1>3, <1>4 DEF TransactionInvariant

\* The last write of a transaction: no other request has read anything.
LEMMA CommitStep ==
  ASSUME TypeOK, TransactionInvariant, NEW w \in Worker, InTransaction(w), Finish(w),
         saved' = saved \/ (req[w].at = "saving" /\ saved' = saved \cup {req[w].run})
  PROVE  OneTransaction' /\ RunsAreFresh' /\ RequestsOK'
<1>0. /\ req'[w] = Idle
      /\ \A other \in Worker \ {w} : req'[other] = req[other]
  BY DEF TypeOK, Finish
<1>1. Idle.at = "idle"
  BY DEF Idle
<1>2. OneTransaction'
  BY <1>0, <1>1 DEF TransactionInvariant, OneTransaction, InTransaction, TransactionPoint, ReviewPoint
<1>3. RunsAreFresh'
  <2>1. \A other \in Worker \ {w} : req[other].at \in RunPoint => req[other].run \notin saved'
    BY DEF TransactionInvariant, RunsAreFresh, RunPoint
  <2>2. QED
    BY <1>0, <1>1, <2>1 DEF TransactionInvariant, RunsAreFresh, RunPoint
<1>4. RequestsOK'
  <2> SUFFICES ASSUME NEW u \in Worker
               PROVE  ReadsAreCurrent(req[u])' /\ HeldPayload(req[u])'
    BY DEF RequestsOK
  <2>1. req'[u].at \notin TransactionPoint
    BY <1>0, <1>1 DEF TransactionInvariant, OneTransaction, InTransaction, TransactionPoint, ReviewPoint
  <2>2. ReadsAreCurrent(req[u])'
    BY <2>1 DEF ReadsAreCurrent, TransactionPoint, ReviewPoint
  <2>3. HeldPayload(req[u])'
    BY <1>0, <1>1 DEF TransactionInvariant, RequestsOK, HeldPayload
  <2>4. QED
    BY <2>2, <2>3
<1>5. QED
  BY <1>2, <1>3, <1>4

-----------------------------------------------------------------------------
LEMMA RunStepInvariant ==
  ASSUME Isolation # "statement", TypeOK, TransactionInvariant, NEW w \in Worker, RunStep(w)
  PROVE  TransactionInvariant'
<1> USE DEF RunPoint, ReviewPoint, TransactionPoint
<1>0. /\ req[w] \in Request /\ Aimed(req[w])
      /\ ReadsAreCurrent(req[w]) /\ HeldPayload(req[w])
      /\ RunsAreFresh /\ OneTransaction
  BY DEF TypeOK, TransactionInvariant, RequestsOK
<1>1. ASSUME NEW r \in Run, NEW previous \in 0..(MaxVersion - 1),
             LoadPreviousPolicy(w, r, previous)
      PROVE  TransactionInvariant'
  <2> DEFINE known == IF previous = 0 THEN {} ELSE ApprovedIn(package[previous].payload)
             q == [Idle EXCEPT !.at = "loaded", !.run = r,
                               !.version = previous + 1, !.known = known]
  <2>1. q.at = "loaded" /\ q.run = r
    BY DEF Idle
  <2>2. Fresh(r) /\ req' = [req EXCEPT ![w] = q] /\ UNCHANGED tables
    BY <1>1 DEF LoadPreviousPolicy
  <2> HIDE DEF q
  <2>3. Admissible(w, q)
    BY <2>1, <2>2 DEF Fresh, Admissible, ReadsAreCurrent, HeldPayload
  <2>4. QED
    BY <2>2, <2>3, HoldStep DEF tables
<1>2. ASSUME NEW draft \in Draft, Analyse(w, draft)
      PROVE  TransactionInvariant'
  <2> DEFINE q == [req[w] EXCEPT !.at = "analysed",
                                 !.payload = Built(req[w].run, draft,
                                                   req[w].known \cup ApprovedKeys)]
  <2>2. Admissible(w, q)
    BY <1>0, <1>2 DEF Analyse, Built, Admissible, ReadsAreCurrent, HeldPayload, Request, RunsAreFresh
  <2>3. req' = [req EXCEPT ![w] = q] /\ UNCHANGED <<package, proposal, review, saved>>
    BY <1>2 DEF Analyse, TypeOK, tables
  <2>4. QED
    <3> HIDE DEF q
    <3> QED BY <2>2, <2>3, HoldStep
<1>3. ASSUME SaveRead(w)
      PROVE  TransactionInvariant'
  <2> DEFINE q == [req[w] EXCEPT !.at = "saving", !.row = package[req[w].version]]
  <2>2. Admissible(w, q)
    BY <1>0, <1>3, Exclusive DEF SaveRead, Admissible, ReadsAreCurrent, HeldPayload, Request, RunsAreFresh
  <2>3. req' = [req EXCEPT ![w] = q] /\ UNCHANGED <<package, proposal, review, saved>>
    BY <1>3 DEF SaveRead, TypeOK, tables
  <2>4. QED
    <3> HIDE DEF q
    <3> QED BY <2>2, <2>3, HoldStep
<1>4. ASSUME SaveExecution(w)
      PROVE  TransactionInvariant'
  <2> DEFINE r == req[w].run
             v == req[w].version
             new == Merged(package[v], req[w].row, r, req[w].payload)
  <2>1. OneTransaction' /\ RunsAreFresh' /\ RequestsOK'
    BY <1>4, CommitStep DEF SaveExecution, InTransaction
  <2>2. /\ r \in Run /\ r \notin saved /\ r # NoRun /\ v \in Version
        /\ req[w].row = package[v] /\ req[w].payload.review = "pending"
    BY <1>0, <1>4, ConstantAssumption
       DEF SaveExecution, Aimed, RunsAreFresh, ReadsAreCurrent, HeldPayload
  <2>3. new.status = "pending" /\ new.run = r /\ new.payload = req[w].payload
    BY <2>2 DEF Merged
  <2>4. /\ saved' = saved \cup {r}
        /\ proposal' = [proposal EXCEPT ![r] = [k \in Field |->
                          IF req[w].payload.fields[k] = "pending" THEN "pending" ELSE "none"]]
        /\ package' = package \/ package' = [package EXCEPT ![v] = new]
    BY <1>4 DEF SaveExecution
  <2> HIDE DEF r, v, new
  <2>5. \A u \in Version : package'[u] = package[u] \/ (u = v /\ package'[u] = new)
    BY <2>4 DEF TypeOK
  <2>6. /\ \A k \in Field : proposal'[r][k] =
              IF req[w].payload.fields[k] = "pending" THEN "pending" ELSE "none"
        /\ \A s \in Run \ {r} : proposal'[s] = proposal[s]
    BY <2>2, <2>4 DEF TypeOK
  <2>7. StoredRuns
    BY DEF TransactionInvariant
  <2>8. StoredRuns'
    <3>1. \A u \in Version :
            /\ package'[u].status = "none" <=> package'[u].run = NoRun
            /\ package'[u].run \in saved' \cup {NoRun}
      BY <2>2, <2>3, <2>4, <2>5, <2>7 DEF StoredRuns
    <3>2. \A u, x \in Version :
            package'[u].run = package'[x].run /\ package'[u].run # NoRun => u = x
      BY <2>2, <2>3, <2>5, <2>7 DEF StoredRuns
    <3>3. \A s \in Run \ saved', k \in Field : proposal'[s][k] = "none"
      BY <2>4, <2>6, <2>7 DEF StoredRuns
    <3>4. QED
      BY <3>1, <3>2, <3>3 DEF StoredRuns
  <2>9. PendingIsOpen'
    <3> SUFFICES ASSUME NEW u \in Version, NEW k \in Field, package'[u].payload.fields[k] = "pending"
                 PROVE  package'[u].run \in Run /\ proposal'[package'[u].run][k] \notin {"none", "approved"}
      BY DEF PendingIsOpen
    <3>1. CASE package'[u] = package[u]
      <4>1. package[u].run \in Run /\ proposal[package[u].run][k] \notin {"none", "approved"}
        BY <3>1 DEF TransactionInvariant, PendingIsOpen
      <4>2. package[u].run # r
        BY <2>2, <2>7, <4>1, ConstantAssumption DEF StoredRuns
      <4>3. QED
        BY <2>6, <3>1, <4>1, <4>2
    <3>2. CASE package'[u] = new
      BY <2>2, <2>3, <2>6, <3>2
    <3>3. QED
      BY <2>5, <3>1, <3>2
  <2>10. ReviewAgreesWithProposal'
    BY <1>4 DEF SaveExecution, ReviewAgreesWithProposal, TransactionInvariant, TypeOK
  <2>11. PublishedReviewsApproved'
    <3> SUFFICES ASSUME NEW u \in Version, package'[u].status = "approved"
                 PROVE  \A k \in Field : proposal'[package'[u].run][k] \in {"none", "approved"}
      BY DEF PublishedReviewsApproved, Listed, AllProposalsApproved
    <3>1. package'[u] = package[u]
      BY <2>3, <2>5
    <3>2. package[u].run \in Run \ {r}
      BY <2>2, <2>7, <3>1 DEF StoredRuns, TypeOK
    <3>3. QED
      BY <2>6, <3>1, <3>2
         DEF TransactionInvariant, PublishedReviewsApproved, Listed, AllProposalsApproved
  <2>12. RowAgreesWithPayload'
    BY <2>2, <2>3, <2>5 DEF TransactionInvariant, RowAgreesWithPayload
  <2>13. QED
    BY <2>1, <2>8, <2>9, <2>10, <2>11, <2>12 DEF TransactionInvariant
<1>5. QED
  BY <1>1, <1>2, <1>3, <1>4 DEF RunStep

\* An approval leaves pending only what was pending under another key.
LEMMA ReplaceResolves ==
  ASSUME NEW payload \in Payload, NEW old \in Field, NEW new \in Field, NEW keepOld \in BOOLEAN,
         NEW k \in Field,
         ReplacePolicyField(payload, old, new, keepOld).fields[k] = "pending"
  PROVE  payload.fields[k] = "pending" /\ k # old
<1>1. payload.fields \in [Field -> FieldState]
  BY DEF Payload
<1>2. ReplacePolicyField(payload, old, new, keepOld).fields
        = ReplaceField(payload.fields, old, new, keepOld)
  BY DEF ReplacePolicyField, Payload
<1>3. QED
  BY <1>1, <1>2 DEF ReplaceField

LEMMA ReplaceKeepsReview ==
  ASSUME NEW payload \in Payload, NEW old, NEW new, NEW keepOld
  PROVE  ReplacePolicyField(payload, old, new, keepOld).review = payload.review
BY DEF ReplacePolicyField, Payload

\* What a decision does to the rows of its review, which is still pending.
LEMMA DecideFacts ==
  ASSUME TypeOK, TransactionInvariant, NEW w \in Worker,
         req[w].at \in {"proposalRead", "flushed"}, Decide(w)
  PROVE  LET r == req[w].run
             k == req[w].key
         IN  /\ r \in saved /\ k \in Field
             /\ proposal[r][k] = "pending"
             /\ proposal' = [proposal EXCEPT ![r][k] = req[w].decision]
             /\ review' = [review EXCEPT ![r][k] = req[w].decision]
<1> DEFINE r == req[w].run
           k == req[w].key
<1>1. r \in Run /\ k \in Field /\ req[w].decision \in Decision
  BY DEF TypeOK, Aimed, ReviewPoint, Request
<1>2. review[r][k] = "pending" /\ req[w].prior = proposal[r][k]
  BY DEF TransactionInvariant, RequestsOK, ReadsAreCurrent, ReviewPoint
<1>3. proposal[r][k] = "pending"
  BY <1>1, <1>2 DEF TransactionInvariant, ReviewAgreesWithProposal
<1>4. r \in saved
  BY <1>1, <1>3 DEF TransactionInvariant, StoredRuns
<1>5. QED
  BY <1>1, <1>2, <1>3, <1>4 DEF Decide, Decision

LEMMA ReviewStepInvariant ==
  ASSUME Isolation # "statement", TypeOK, TransactionInvariant, NEW w \in Worker, ReviewStep(w)
  PROVE  TransactionInvariant'
<1> USE DEF RunPoint, ReviewPoint, TransactionPoint
<1>0. /\ req[w] \in Request /\ Aimed(req[w])
      /\ ReadsAreCurrent(req[w]) /\ HeldPayload(req[w])
  BY DEF TypeOK, TransactionInvariant, RequestsOK
<1>1. ASSUME NEW r \in Run, NEW k \in Field, NEW decision \in Decision, NEW as \in Field,
             ReadReview(w, r, k, decision, as)
      PROVE  TransactionInvariant'
  <2> DEFINE q == [Idle EXCEPT !.at = "reviewRead", !.run = r, !.key = k,
                               !.decision = decision, !.as = as]
  <2>1. q.at = "reviewRead" /\ q.run = r /\ q.key = k
    BY DEF Idle
  <2>2. /\ req' = [req EXCEPT ![w] = q] /\ UNCHANGED tables
        /\ review[r][k] = "pending" /\ MayBegin(w)
    BY <1>1 DEF ReadReview, MayServe
  <2> HIDE DEF q
  <2>3. Admissible(w, q)
    BY <2>1, <2>2, Exclusive DEF Admissible, ReadsAreCurrent, HeldPayload
  <2>4. QED
    BY <2>2, <2>3, HoldStep DEF tables
<1>2. ASSUME ReadProposal(w)
      PROVE  TransactionInvariant'
  <2> DEFINE q == [req[w] EXCEPT !.at = "proposalRead",
                                 !.prior = proposal[req[w].run][req[w].key]]
  <2>2. Admissible(w, q)
    BY <1>0, <1>2 DEF ReadProposal, Admissible, ReadsAreCurrent, HeldPayload, Request, InTransaction
  <2>3. req' = [req EXCEPT ![w] = q] /\ UNCHANGED <<package, proposal, review, saved>>
    BY <1>2 DEF ReadProposal, TypeOK, tables
  <2>4. QED
    <3> HIDE DEF q
    <3> QED BY <2>2, <2>3, HoldStep
<1>3. ASSUME FlushAndReadPackage(w)
      PROVE  TransactionInvariant'
  <2> DEFINE v == VersionOf(req[w].run)
             q == [req[w] EXCEPT !.at = "flushed", !.version = v,
                                 !.row = IF v = 0 THEN NoRow ELSE package[v]]
  <2>1. \/ v \in Version /\ v # 0 /\ package[v].run = req[w].run
        \/ v = 0 /\ \A u \in Version : package[u].run # req[w].run
    BY VersionInRange DEF VersionOf
  <2> HIDE DEF v
  <2>2. Admissible(w, q)
    BY <1>0, <1>3, <2>1 DEF FlushAndReadPackage, Admissible, ReadsAreCurrent, HeldPayload, Request, InTransaction
  <2>3. req' = [req EXCEPT ![w] = q] /\ UNCHANGED <<package, proposal, review, saved>>
    BY <1>3 DEF v, FlushAndReadPackage, TypeOK, tables
  <2>4. QED
    <3> HIDE DEF q
    <3> QED BY <2>2, <2>3, HoldStep
<1>4. ASSUME NEW keepOld \in BOOLEAN, ApproveReview(w, keepOld)
      PROVE  TransactionInvariant'
  <2> DEFINE r == req[w].run
             k == req[w].key
             v == req[w].version
             updated == ReplacePolicyField(req[w].row.payload, k, req[w].as, keepOld)
  <2>1. OneTransaction' /\ RunsAreFresh' /\ RequestsOK'
    BY <1>4, CommitStep DEF ApproveReview, InTransaction
  <2>2. /\ r \in saved /\ r \in Run /\ k \in Field /\ proposal[r][k] = "pending"
        /\ proposal' = [proposal EXCEPT ![r][k] = "approved"]
        /\ review' = [review EXCEPT ![r][k] = "approved"]
        /\ saved' = saved
    BY <1>0, <1>4, DecideFacts DEF ApproveReview, ReadsAreCurrent, TypeOK
  <2>3. /\ v # 0 => v \in Version /\ req[w].row = package[v] /\ package[v].run = r
        /\ v = 0 => \A u \in Version : package[u].run # r
    BY <1>0, <1>4, VersionInRange DEF ApproveReview, ReadsAreCurrent
  <2>4. /\ updated.review = req[w].row.payload.review
        /\ \A j \in Field : updated.fields[j] = "pending" =>
              req[w].row.payload.fields[j] = "pending" /\ j # k
    BY <1>0, <2>2, ReplaceResolves, ReplaceKeepsReview DEF Request, Row
  <2>5. IF v = 0 \/ updated = req[w].row.payload
          THEN package' = package
          ELSE package' = [package EXCEPT ![v].payload = updated]
    BY <1>4 DEF ApproveReview
  <2> HIDE DEF r, k, v, updated
  <2>6. \A u \in Version :
          /\ package'[u].status = package[u].status /\ package'[u].run = package[u].run
          /\ u # v => package'[u].payload = package[u].payload
          /\ u = v => package'[u].payload = updated
    BY <2>3, <2>5, VersionInRange DEF TypeOK, Row
  <2>7. \A s \in Run, j \in Field :
          proposal'[s][j] = IF s = r /\ j = k THEN "approved" ELSE proposal[s][j]
    BY <2>2 DEF TypeOK
  <2>8. StoredRuns'
    BY <2>2, <2>6, <2>7 DEF TransactionInvariant, StoredRuns
  <2>9. PendingIsOpen'
    <3> SUFFICES ASSUME NEW u \in Version, NEW j \in Field, package'[u].payload.fields[j] = "pending"
                 PROVE  package'[u].run \in Run /\ proposal'[package'[u].run][j] \notin {"none", "approved"}
      BY DEF PendingIsOpen
    <3>1. package[u].payload.fields[j] = "pending" /\ (u = v => j # k)
      BY <2>3, <2>4, <2>6, VersionInRange
    <3>2. package[u].run \in Run /\ proposal[package[u].run][j] \notin {"none", "approved"}
      BY <3>1 DEF TransactionInvariant, PendingIsOpen
    <3>3. package[u].run = r => u = v
      BY <2>2, <2>3, <3>2, ConstantAssumption DEF TransactionInvariant, StoredRuns
    <3>4. QED
      BY <2>6, <2>7, <3>1, <3>2, <3>3
  <2>10. ReviewAgreesWithProposal'
    BY <2>2 DEF ReviewAgreesWithProposal, TransactionInvariant, TypeOK
  <2>11. PublishedReviewsApproved'
    <3> SUFFICES ASSUME NEW u \in Version, package[u].status = "approved"
                 PROVE  \A j \in Field : proposal'[package[u].run][j] \in {"none", "approved"}
      BY <2>6 DEF PublishedReviewsApproved, Listed, AllProposalsApproved
    <3>1. package[u].run \in Run
      BY DEF TransactionInvariant, StoredRuns, TypeOK
    <3>2. QED
      BY <2>7, <3>1
         DEF TransactionInvariant, PublishedReviewsApproved, Listed, AllProposalsApproved
  <2>12. RowAgreesWithPayload'
    BY <2>3, <2>4, <2>6, VersionInRange DEF TransactionInvariant, RowAgreesWithPayload
  <2>13. QED
    BY <2>1, <2>8, <2>9, <2>10, <2>11, <2>12 DEF TransactionInvariant
<1>5. ASSUME RejectReview(w)
      PROVE  TransactionInvariant'
  <2> DEFINE r == req[w].run
             k == req[w].key
  <2>1. OneTransaction' /\ RunsAreFresh' /\ RequestsOK'
    BY <1>5, CommitStep DEF RejectReview, InTransaction
  <2>2. /\ r \in saved /\ r \in Run /\ k \in Field /\ proposal[r][k] = "pending"
        /\ proposal' = [proposal EXCEPT ![r][k] = "rejected"]
        /\ review' = [review EXCEPT ![r][k] = "rejected"]
        /\ UNCHANGED <<package, saved>>
    BY <1>5, DecideFacts DEF RejectReview, TypeOK
  <2> HIDE DEF r, k
  <2>3. \A s \in Run, j \in Field :
          proposal'[s][j] = IF s = r /\ j = k THEN "rejected" ELSE proposal[s][j]
    BY <2>2 DEF TypeOK
  <2>4. StoredRuns' /\ PendingIsOpen' /\ RowAgreesWithPayload'
    BY <2>2, <2>3 DEF TransactionInvariant, StoredRuns, PendingIsOpen, RowAgreesWithPayload
  <2>5. ReviewAgreesWithProposal'
    BY <2>2 DEF ReviewAgreesWithProposal, TransactionInvariant, TypeOK
  <2>6. PublishedReviewsApproved'
    <3> SUFFICES ASSUME NEW u \in Version, package[u].status = "approved"
                 PROVE  \A j \in Field : proposal'[package[u].run][j] \in {"none", "approved"}
      BY <2>2 DEF PublishedReviewsApproved, Listed, AllProposalsApproved
    <3>1. package[u].run \in Run
      BY DEF TransactionInvariant, StoredRuns, TypeOK
    <3>2. QED
      BY <2>2, <2>3, <3>1
         DEF TransactionInvariant, PublishedReviewsApproved, Listed, AllProposalsApproved
  <2>7. QED
    BY <2>1, <2>4, <2>5, <2>6 DEF TransactionInvariant
<1>6. QED
  BY <1>1, <1>2, <1>3, <1>4, <1>5 DEF ReviewStep

\* A verdict on a version: its row, read as pending, gets both columns.
LEMMA VerdictStep ==
  ASSUME TypeOK, TransactionInvariant, NEW w \in Worker, InTransaction(w), Finish(w),
         UNCHANGED <<proposal, review, saved>>,
         NEW v \in Version, NEW payload \in Payload, NEW verdict \in Decision,
         package' = [package EXCEPT ![v] = Decided(@, payload, verdict)],
         package[v].status # "none",
         verdict = "approved" => AllProposalsApproved(package[v].run),
         \A k \in Field : payload.fields[k] = "pending" =>
                            package[v].payload.fields[k] = "pending"
  PROVE  TransactionInvariant'
<1>1. OneTransaction' /\ RunsAreFresh' /\ RequestsOK'
  BY CommitStep
<1>2. /\ package'[v].status = verdict /\ package'[v].run = package[v].run
      /\ package'[v].payload.review = verdict /\ package'[v].payload.fields = payload.fields
  BY DEF Decided, TypeOK, Row, Payload
<1>3. \A u \in Version \ {v} : package'[u] = package[u]
  BY DEF TypeOK
<1>4. StoredRuns'
  BY <1>2, <1>3 DEF TransactionInvariant, StoredRuns, Decision
<1>5. PendingIsOpen'
  BY <1>2, <1>3 DEF TransactionInvariant, PendingIsOpen
<1>6. ReviewAgreesWithProposal'
  BY DEF TransactionInvariant, ReviewAgreesWithProposal
<1>7. PublishedReviewsApproved'
  BY <1>2, <1>3 DEF TransactionInvariant, PublishedReviewsApproved, Listed, AllProposalsApproved
<1>8. RowAgreesWithPayload'
  BY <1>2, <1>3 DEF TransactionInvariant, RowAgreesWithPayload
<1>9. QED
  BY <1>1, <1>4, <1>5, <1>6, <1>7, <1>8 DEF TransactionInvariant

LEMMA PublishStepInvariant ==
  ASSUME Isolation # "statement", TypeOK, TransactionInvariant, NEW w \in Worker, PublishStep(w)
  PROVE  TransactionInvariant'
<1> USE DEF RunPoint, ReviewPoint, TransactionPoint
<1>0. /\ req[w] \in Request /\ Aimed(req[w])
      /\ ReadsAreCurrent(req[w]) /\ HeldPayload(req[w])
  BY DEF TypeOK, TransactionInvariant, RequestsOK
<1>1. ASSUME NEW v \in Version, ReadContext(w, v)
      PROVE  TransactionInvariant'
  <2> DEFINE q == [Idle EXCEPT !.at = "contextRead", !.version = v, !.row = package[v]]
  <2>1. q.at = "contextRead" /\ q.version = v /\ q.row = package[v]
    BY DEF Idle
  <2>2. /\ req' = [req EXCEPT ![w] = q] /\ UNCHANGED tables
        /\ package[v].status = "pending" /\ MayBegin(w)
    BY <1>1 DEF ReadContext, MayServe
  <2> HIDE DEF q
  <2>3. Admissible(w, q)
    BY <2>1, <2>2, Exclusive DEF Admissible, ReadsAreCurrent, HeldPayload
  <2>4. QED
    BY <2>2, <2>3, HoldStep DEF tables
<1>2. ASSUME CheckContext(w)
      PROVE  TransactionInvariant'
  <2> DEFINE q == [req[w] EXCEPT !.at = "contextChecked"]
  <2>2. Admissible(w, q)
    BY <1>0, <1>2 DEF CheckContext, Admissible, ReadsAreCurrent, HeldPayload, Request, InTransaction
  <2>3. req' = [req EXCEPT ![w] = q] /\ UNCHANGED <<package, proposal, review, saved>>
    BY <1>2 DEF CheckContext, TypeOK, tables
  <2>4. QED
    <3> HIDE DEF q
    <3> QED BY <2>2, <2>3, HoldStep
<1>3. ASSUME ReadNotice(w)
      PROVE  TransactionInvariant'
  <2> DEFINE q == [req[w] EXCEPT !.at = "archiving", !.payload = req[w].row.payload,
                                 !.notice = notice]
  <2>1. \A k \in Field : req[w].row.payload.fields[k] # "pending"
    BY <1>0, <1>3 DEF ReadNotice, ReadsAreCurrent, AllProposalsApproved, Aimed, PublishPoint,
                      TransactionInvariant, PendingIsOpen
  <2>2. Admissible(w, q)
    BY <1>0, <1>3, <2>1 DEF ReadNotice, Admissible, ReadsAreCurrent, HeldPayload, Request
  <2>3. req' = [req EXCEPT ![w] = q] /\ UNCHANGED <<package, proposal, review, saved>>
    BY <1>3 DEF ReadNotice, TypeOK, tables
  <2>4. QED
    <3> HIDE DEF q
    <3> QED BY <2>2, <2>3, HoldStep
<1>4. ASSUME ArchiveEvidence(w)
      PROVE  TransactionInvariant'
  <2> DEFINE q == Linked(req[w], Archivable(req[w]))
  <2>1. /\ q.at = "archived" /\ q.payload.fields = req[w].payload.fields
        /\ q.run = req[w].run /\ q.version = req[w].version
    BY <1>0, ArchivableType, LinkedHolds
  <2>2. Admissible(w, q)
    <3> HIDE DEF q
    <3> QED BY <1>0, <1>4, <2>1 DEF ArchiveEvidence, Admissible, ReadsAreCurrent, HeldPayload, Request
  <2>3. req' = [req EXCEPT ![w] = q] /\ UNCHANGED <<package, proposal, review, saved>>
    <3>1. req' = [req EXCEPT ![w] = q]
      BY <1>4 DEF ArchiveEvidence, TypeOK
    <3>2. QED
      BY <1>4, <3>1 DEF ArchiveEvidence
  <2>4. QED
    <3> HIDE DEF q
    <3> QED BY <2>2, <2>3, HoldStep
<1>5. ASSUME ArchiveFails(w)
      PROVE  TransactionInvariant'
  <2> DEFINE q == Idle
  <2>2. Admissible(w, q)
    BY <1>0, <1>5 DEF ArchiveFails, Finish, Idle, Admissible, ReadsAreCurrent, HeldPayload
  <2>3. req' = [req EXCEPT ![w] = q] /\ UNCHANGED <<package, proposal, review, saved>>
    BY <1>5 DEF ArchiveFails, Finish, TypeOK, tables
  <2>4. QED
    <3> HIDE DEF q
    <3> QED BY <2>2, <2>3, HoldStep
<1>6. ASSUME SaveNotice(w)
      PROVE  TransactionInvariant'
  <2> DEFINE q == [req[w] EXCEPT !.at = "noticeSaved"]
  <2>2. Admissible(w, q)
    BY <1>0, <1>6 DEF SaveNotice, Admissible, ReadsAreCurrent, HeldPayload, Request
  <2>3. req' = [req EXCEPT ![w] = q] /\ UNCHANGED <<package, proposal, review, saved>>
    BY <1>6 DEF SaveNotice, TypeOK, tables
  <2>4. QED
    <3> HIDE DEF q
    <3> QED BY <2>2, <2>3, HoldStep
<1>7. ASSUME ReadForPublish(w)
      PROVE  TransactionInvariant'
  <2> DEFINE q == [req[w] EXCEPT !.at = "publishRead", !.row = package[req[w].version]]
  <2>2. Admissible(w, q)
    BY <1>0, <1>7, Exclusive DEF ReadForPublish, Admissible, ReadsAreCurrent, HeldPayload, Request
  <2>3. req' = [req EXCEPT ![w] = q] /\ UNCHANGED <<package, proposal, review, saved>>
    BY <1>7 DEF ReadForPublish, TypeOK, tables
  <2>4. QED
    <3> HIDE DEF q
    <3> QED BY <2>2, <2>3, HoldStep
<1>8. ASSUME CheckForPublish(w)
      PROVE  TransactionInvariant'
  <2> DEFINE q == [req[w] EXCEPT !.at = "publishChecked"]
  <2>2. Admissible(w, q)
    BY <1>0, <1>8 DEF CheckForPublish, Admissible, ReadsAreCurrent, HeldPayload, Request, InTransaction
  <2>3. req' = [req EXCEPT ![w] = q] /\ UNCHANGED <<package, proposal, review, saved>>
    BY <1>8 DEF CheckForPublish, TypeOK, tables
  <2>4. QED
    <3> HIDE DEF q
    <3> QED BY <2>2, <2>3, HoldStep
<1>9. ASSUME Publish(w)
      PROVE  TransactionInvariant'
  <2>1. /\ req[w].at = "publishChecked" /\ Finish(w) /\ UNCHANGED <<proposal, review, saved>>
        /\ package' = [package EXCEPT ![req[w].version] = Decided(@, req[w].payload, "approved")]
    BY <1>9 DEF Publish
  <2>2. /\ req[w].version \in Version /\ req[w].payload \in Payload
        /\ package[req[w].version].status = "pending"
        /\ AllProposalsApproved(package[req[w].version].run)
        /\ \A k \in Field : req[w].payload.fields[k] # "pending"
    BY <1>0, <2>1 DEF Aimed, PublishPoint, Request, ReadsAreCurrent, HeldPayload
  <2>3. QED
    BY <2>1, <2>2, VerdictStep DEF InTransaction, Decision
<1>10. QED
  BY <1>1, <1>2, <1>3, <1>4, <1>5, <1>6, <1>7, <1>8, <1>9 DEF PublishStep

LEMMA RejectStepInvariant ==
  ASSUME Isolation # "statement", TypeOK, TransactionInvariant, NEW w \in Worker, RejectStep(w)
  PROVE  TransactionInvariant'
<1> USE DEF RunPoint, ReviewPoint, TransactionPoint
<1>0. req[w] \in Request /\ Aimed(req[w]) /\ ReadsAreCurrent(req[w])
  BY DEF TypeOK, TransactionInvariant, RequestsOK
<1>1. ASSUME NEW v \in Version, ReadForReject(w, v)
      PROVE  TransactionInvariant'
  <2> DEFINE q == [Idle EXCEPT !.at = "rejectRead", !.version = v, !.row = package[v]]
  <2>1. q.at = "rejectRead" /\ q.version = v /\ q.row = package[v]
    BY DEF Idle
  <2>2. /\ req' = [req EXCEPT ![w] = q] /\ UNCHANGED tables
        /\ package[v].status = "pending" /\ MayBegin(w)
    BY <1>1 DEF ReadForReject, MayServe
  <2> HIDE DEF q
  <2>3. Admissible(w, q)
    BY <2>1, <2>2, Exclusive DEF Admissible, ReadsAreCurrent, HeldPayload
  <2>4. QED
    BY <2>2, <2>3, HoldStep DEF tables
<1>2. ASSUME RejectPolicy(w)
      PROVE  TransactionInvariant'
  <2>1. /\ req[w].at = "rejectRead" /\ Finish(w) /\ UNCHANGED <<proposal, review, saved>>
        /\ package' = [package EXCEPT ![req[w].version] =
                         Decided(@, req[w].row.payload, "rejected")]
    BY <1>2 DEF RejectPolicy
  <2>2. /\ req[w].version \in Version /\ req[w].row.payload \in Payload
        /\ req[w].row = package[req[w].version]
        /\ package[req[w].version].status = "pending"
    BY <1>0, <2>1 DEF Aimed, PublishPoint, Request, Row, ReadsAreCurrent
  <2>3. QED
    BY <2>1, <2>2, VerdictStep DEF InTransaction, Decision
<1>3. QED
  BY <1>1, <1>2 DEF RejectStep

LEMMA InitInvariant == Init => TransactionInvariant
<1> SUFFICES ASSUME Init PROVE TransactionInvariant
  OBVIOUS
<1>1. /\ \A w \in Worker : req[w] = Idle
      /\ \A v \in Version : package[v] = NoRow
      /\ \A r \in Run, k \in Field : proposal[r][k] = "none" /\ review[r][k] = "none"
      /\ saved = {}
  BY DEF Init
<1>2. Idle.at = "idle"
  BY DEF Idle
<1>3. OneTransaction /\ RunsAreFresh /\ RequestsOK
  BY <1>1, <1>2 DEF OneTransaction, InTransaction, RunsAreFresh, RequestsOK, ReadsAreCurrent,
                    HeldPayload, TransactionPoint, ReviewPoint, RunPoint
<1>4. NoRow.status = "none" /\ NoRow.run = NoRun /\ \A k \in Field : NoRow.payload.fields[k] = "absent"
  BY DEF NoRow, NoPayload
<1>5. QED
  BY <1>1, <1>3, <1>4 DEF TransactionInvariant, StoredRuns, PendingIsOpen,
     ReviewAgreesWithProposal, PublishedReviewsApproved, Listed, RowAgreesWithPayload

LEMMA NextInvariant ==
  Isolation # "statement" /\ TypeOK /\ TransactionInvariant /\ [Next]_vars => TransactionInvariant'
<1> SUFFICES ASSUME Isolation # "statement", TypeOK, TransactionInvariant, [Next]_vars
             PROVE  TransactionInvariant'
  OBVIOUS
<1>1. ASSUME NEW w \in Worker, Abort(w) PROVE TransactionInvariant'
  <2>1. Idle.at = "idle"
    BY DEF Idle
  <2>2. Admissible(w, Idle)
    BY <2>1 DEF Admissible, ReadsAreCurrent, HeldPayload, TransactionPoint, ReviewPoint, RunPoint
  <2>3. QED
    BY <1>1, <2>2, HoldStep DEF Abort, Finish, tables
<1>2. CASE UNCHANGED vars
  BY <1>2 DEF vars, TransactionInvariant, OneTransaction, InTransaction, RunsAreFresh, RequestsOK,
     ReadsAreCurrent, HeldPayload, StoredRuns, PendingIsOpen, ReviewAgreesWithProposal,
     PublishedReviewsApproved, Listed, AllProposalsApproved, RowAgreesWithPayload
<1>3. QED
  BY <1>1, <1>2, RunStepInvariant, ReviewStepInvariant, PublishStepInvariant, RejectStepInvariant
     DEF Next

-----------------------------------------------------------------------------
(***************************************************************************)
(* The results, for a store whose transactions do not overlap.             *)
(***************************************************************************)
\* The inductive invariant holds when transactions do not overlap: one is open
\* at a time, what it has read is current, and rows, reviews and proposals agree.
THEOREM InvariantHolds == Isolation # "statement" => (Spec => [](TypeOK /\ TransactionInvariant))
<1> SUFFICES ASSUME Isolation # "statement" PROVE Spec => [](TypeOK /\ TransactionInvariant)
  OBVIOUS
<1>1. TypeOK /\ TransactionInvariant /\ [Next]_vars => (TypeOK /\ TransactionInvariant)'
  BY NextType, NextInvariant
<1>2. QED
  BY <1>1, InitType, InitInvariant, PTL DEF Spec

\* Only definitions that were decided upon reach a citizen.
THEOREM FieldsApproved == Isolation # "statement" => (Spec => []PublishedFieldsApproved)
<1>1. TypeOK /\ TransactionInvariant => PublishedFieldsApproved
  <2> SUFFICES ASSUME TypeOK, TransactionInvariant, NEW v \in Version, NEW k \in Field,
                      Visible(v), package[v].payload.fields[k] = "pending"
               PROVE  FALSE
    BY DEF PublishedFieldsApproved
  <2>1. proposal[package[v].run][k] \notin {"none", "approved"}
    BY DEF TransactionInvariant, PendingIsOpen
  <2>2. proposal[package[v].run][k] \in {"none", "approved"}
    BY DEF TransactionInvariant, PublishedReviewsApproved, AllProposalsApproved, Visible
  <2>3. QED
    BY <2>1, <2>2
<1>2. QED
  BY <1>1, InvariantHolds, PTL

\* A published version has no open and no rejected review, whichever run has
\* written the row while it was being published.
THEOREM ReviewsApproved == Isolation # "statement" => (Spec => []PublishedReviewsApproved)
<1>1. TransactionInvariant => PublishedReviewsApproved
  BY DEF TransactionInvariant
<1>2. QED
  BY <1>1, InvariantHolds, PTL

\* The status column that selects what citizens get and the review block they
\* get with it record one verdict, though three requests write them.
THEOREM RowsAgree == Isolation # "statement" => (Spec => []RowAgreesWithPayload)
<1>1. TransactionInvariant => RowAgreesWithPayload
  BY DEF TransactionInvariant
<1>2. QED
  BY <1>1, InvariantHolds, PTL

\* The review an administrator sees and the proposal the publication checks
\* record one decision.
THEOREM ReviewsAgree == Isolation # "statement" => (Spec => []ReviewAgreesWithProposal)
<1>1. TransactionInvariant => ReviewAgreesWithProposal
  BY DEF TransactionInvariant
<1>2. QED
  BY <1>1, InvariantHolds, PTL

\* No request changes a decision that another one has made.
LEMMA StepIsFinal ==
  ASSUME TypeOK, TransactionInvariant, [Next]_vars,
         NEW r \in Run, NEW k \in Field, review[r][k] \in Decision
  PROVE  review'[r][k] = review[r][k]
<1>1. ASSUME NEW w \in Worker, SaveExecution(w)
      PROVE  review'[r][k] = review[r][k]
  <2>1. req[w].run \in Run \ saved
    BY <1>1 DEF SaveExecution, TypeOK, Aimed, RunPoint, TransactionInvariant, RunsAreFresh
  <2>2. review[r][k] = proposal[r][k]
    BY DEF TransactionInvariant, ReviewAgreesWithProposal
  <2>3. r # req[w].run
    BY <2>1, <2>2 DEF TransactionInvariant, StoredRuns, Decision
  <2>4. QED
    BY <1>1, <2>3 DEF SaveExecution, TypeOK
<1>2. ASSUME NEW w \in Worker, req[w].at \in {"proposalRead", "flushed"}, Decide(w)
      PROVE  review'[r][k] = review[r][k]
  <2>1. review[req[w].run][req[w].key] = "pending"
    BY <1>2 DEF TransactionInvariant, RequestsOK, ReadsAreCurrent, ReviewPoint
  <2>2. QED
    BY <1>2, <2>1 DEF Decide, Decision, TypeOK
<1>3. UNCHANGED review => review'[r][k] = review[r][k]
  OBVIOUS
<1>4. ASSUME NEW w \in Worker, RunStep(w)
      PROVE  review'[r][k] = review[r][k]
  BY <1>1, <1>3, <1>4 DEF RunStep, LoadPreviousPolicy, Analyse, SaveRead, tables
<1>5. ASSUME NEW w \in Worker, ReviewStep(w)
      PROVE  review'[r][k] = review[r][k]
  <2>1. ASSUME NEW keepOld \in BOOLEAN, ApproveReview(w, keepOld)
        PROVE  review'[r][k] = review[r][k]
    BY <1>2, <2>1 DEF ApproveReview
  <2>2. ASSUME RejectReview(w)
        PROVE  review'[r][k] = review[r][k]
    BY <1>2, <2>2 DEF RejectReview
  <2>3. QED
    BY <1>3, <1>5, <2>1, <2>2
       DEF ReviewStep, ReadReview, ReadProposal, FlushAndReadPackage, tables
<1>6. ASSUME NEW w \in Worker, PublishStep(w)
      PROVE  review'[r][k] = review[r][k]
  BY <1>3, <1>6 DEF PublishStep, ReadContext, CheckContext, ReadNotice, ArchiveEvidence,
     ArchiveFails, SaveNotice, ReadForPublish, CheckForPublish, Publish, tables
<1>7. ASSUME NEW w \in Worker, RejectStep(w) \/ Abort(w)
      PROVE  review'[r][k] = review[r][k]
  BY <1>3, <1>7 DEF RejectStep, ReadForReject, RejectPolicy, Abort, tables
<1>8. QED
  BY <1>3, <1>4, <1>5, <1>6, <1>7 DEF Next, vars

\* A decided review is never decided again: an approval cannot be turned into
\* a rejection nor the reverse (docs/contracts/api.md:189-190).
THEOREM DecisionsFinal == Isolation # "statement" => (Spec => DecisionIsFinal)
<1>1. TypeOK /\ TransactionInvariant /\ [Next]_vars =>
        [\A r \in Run, k \in Field :
           review[r][k] \in Decision => review'[r][k] = review[r][k]]_vars
  BY StepIsFinal
<1>2. QED
  BY <1>1, InvariantHolds, PTL DEF Spec, DecisionIsFinal
-----------------------------------------------------------------------------
(***************************************************************************)
(* The run that built a published payload.                                 *)
(***************************************************************************)
\* A closed proposal of a stored run stays as it is.
LEMMA ClosedStays ==
  ASSUME TypeOK, TransactionInvariant, [Next]_vars, NEW r \in saved
  PROVE  r \in saved' /\ (AllProposalsApproved(r) => AllProposalsApproved(r)')
<1>0. r \in Run
  BY DEF TypeOK
<1>1. ASSUME NEW w \in Worker, SaveExecution(w)
      PROVE  r \in saved' /\ \A k \in Field : proposal'[r][k] = proposal[r][k]
  <2>1. req[w].run \in Run \ saved
    BY <1>1 DEF SaveExecution, TypeOK, Aimed, RunPoint, TransactionInvariant, RunsAreFresh
  <2>2. QED
    BY <1>0, <1>1, <2>1 DEF SaveExecution, TypeOK
<1>2. ASSUME NEW w \in Worker, req[w].at \in {"proposalRead", "flushed"}, Decide(w)
      PROVE  AllProposalsApproved(r) => AllProposalsApproved(r)'
  <2>1. /\ proposal[req[w].run][req[w].key] = "pending" /\ req[w].key \in Field
        /\ proposal' = [proposal EXCEPT ![req[w].run][req[w].key] = req[w].decision]
    BY <1>2, DecideFacts
  <2>2. QED
    BY <1>0, <2>1 DEF AllProposalsApproved, TypeOK
<1>3. UNCHANGED <<proposal, saved>> => r \in saved' /\ (AllProposalsApproved(r) => AllProposalsApproved(r)')
  BY DEF AllProposalsApproved
<1>4. ASSUME NEW w \in Worker, RunStep(w)
      PROVE  r \in saved' /\ (AllProposalsApproved(r) => AllProposalsApproved(r)')
  BY <1>1, <1>3, <1>4
     DEF RunStep, LoadPreviousPolicy, Analyse, SaveRead, tables, AllProposalsApproved
<1>5. ASSUME NEW w \in Worker, ReviewStep(w)
      PROVE  r \in saved' /\ (AllProposalsApproved(r) => AllProposalsApproved(r)')
  <2>1. ASSUME NEW keepOld \in BOOLEAN, ApproveReview(w, keepOld)
        PROVE  r \in saved' /\ (AllProposalsApproved(r) => AllProposalsApproved(r)')
    BY <1>2, <2>1 DEF ApproveReview
  <2>2. ASSUME RejectReview(w)
        PROVE  r \in saved' /\ (AllProposalsApproved(r) => AllProposalsApproved(r)')
    BY <1>2, <2>2 DEF RejectReview
  <2>3. QED
    BY <1>3, <1>5, <2>1, <2>2
       DEF ReviewStep, ReadReview, ReadProposal, FlushAndReadPackage, tables
<1>6. ASSUME NEW w \in Worker, PublishStep(w) \/ RejectStep(w) \/ Abort(w)
      PROVE  r \in saved' /\ (AllProposalsApproved(r) => AllProposalsApproved(r)')
  BY <1>3, <1>6 DEF PublishStep, ReadContext, CheckContext, ReadNotice, ArchiveEvidence,
     ArchiveFails, SaveNotice, ReadForPublish, CheckForPublish, Publish, RejectStep,
     ReadForReject, RejectPolicy, Abort, tables
<1>7. QED
  BY <1>3, <1>4, <1>5, <1>6 DEF Next, vars

\* A step keeps OriginsChecked if it does for what it writes.
LEMMA OriginStep ==
  ASSUME TypeOK, TransactionInvariant, OriginsChecked, [Next]_vars,
         NEW w \in Worker, NEW q, req' = [req EXCEPT ![w] = q],
         q.at \in {"analysed", "saving"} => q.payload.origin = q.run,
         q.at \in {"archiving", "archived", "noticeSaved", "publishRead", "publishChecked"} =>
            q.payload.origin \in saved /\ AllProposalsApproved(q.payload.origin),
         \A v \in Version :
            \/ package'[v].status = package[v].status /\ package'[v].run = package[v].run
               /\ package'[v].payload.origin = package[v].payload.origin
            \/ package'[v].status = "pending" /\ package'[v].payload.origin = package'[v].run
            \/ package'[v].status = "rejected"
            \/ package'[v].payload.origin \in saved
               /\ AllProposalsApproved(package'[v].payload.origin)
               /\ package'[v].status = "approved"
  PROVE  OriginsChecked'
<1>1. \A r \in saved : r \in saved' /\ (AllProposalsApproved(r) => AllProposalsApproved(r)')
  BY ClosedStays
<1>2. ASSUME NEW u \in Worker PROVE HeldOrigin(req[u])'
  <2>1. req'[u] = IF u = w THEN q ELSE req[u]
    BY DEF TypeOK
  <2>2. HeldOrigin(req[u])
    BY DEF OriginsChecked
  <2>3. QED
    BY <1>1, <2>1, <2>2 DEF HeldOrigin
<1>3. ASSUME NEW v \in Version
      PROVE  /\ package'[v].status = "pending" => package'[v].payload.origin = package'[v].run
             /\ package'[v].status = "approved" =>
                   /\ package'[v].payload.origin \in saved'
                   /\ AllProposalsApproved(package[v].payload.origin)'
  BY <1>1 DEF OriginsChecked, PublishedOriginApproved, Listed
<1>4. QED
  BY <1>2, <1>3 DEF OriginsChecked, PublishedOriginApproved, Listed

\* A request that ends holds no payload.
LEMMA IdleOrigin == Idle.at = "idle"
  BY DEF Idle

LEMMA RunStepOrigins ==
  ASSUME TypeOK, TransactionInvariant, OriginsChecked, [Next]_vars, NEW w \in Worker, RunStep(w)
  PROVE  OriginsChecked'
<1>0. req[w] \in Request /\ Aimed(req[w]) /\ ReadsAreCurrent(req[w]) /\ HeldOrigin(req[w])
  BY DEF TypeOK, TransactionInvariant, RequestsOK, OriginsChecked
<1>1. ASSUME NEW r \in Run, NEW previous \in 0..(MaxVersion - 1),
             LoadPreviousPolicy(w, r, previous)
      PROVE  OriginsChecked'
  <2> DEFINE known == IF previous = 0 THEN {} ELSE ApprovedIn(package[previous].payload)
             q == [Idle EXCEPT !.at = "loaded", !.run = r,
                               !.version = previous + 1, !.known = known]
  <2>1. q.at = "loaded"
    BY DEF Idle
  <2>2. req' = [req EXCEPT ![w] = q] /\ package' = package
    BY <1>1 DEF LoadPreviousPolicy, tables
  <2> HIDE DEF q
  <2>3. QED
    BY <2>1, <2>2, OriginStep
<1>2. ASSUME NEW draft \in Draft, Analyse(w, draft)
      PROVE  OriginsChecked'
  <2> DEFINE q == [req[w] EXCEPT !.at = "analysed",
                                 !.payload = Built(req[w].run, draft,
                                                   req[w].known \cup ApprovedKeys)]
  <2>1. q.at = "analysed" /\ q.payload.origin = q.run
    BY <1>0 DEF Request, Built
  <2>2. req' = [req EXCEPT ![w] = q] /\ package' = package
    BY <1>2 DEF Analyse, TypeOK, tables
  <2> HIDE DEF q
  <2>3. QED
    BY <2>1, <2>2, OriginStep
<1>3. ASSUME SaveRead(w)
      PROVE  OriginsChecked'
  <2> DEFINE q == [req[w] EXCEPT !.at = "saving", !.row = package[req[w].version]]
  <2>1. q.at = "saving" /\ q.payload.origin = q.run
    BY <1>0, <1>3 DEF Request, SaveRead, HeldOrigin
  <2>2. req' = [req EXCEPT ![w] = q] /\ package' = package
    BY <1>3 DEF SaveRead, TypeOK, tables
  <2> HIDE DEF q
  <2>3. QED
    BY <2>1, <2>2, OriginStep
<1>4. ASSUME SaveExecution(w)
      PROVE  OriginsChecked'
  <2> DEFINE v == req[w].version
             new == Merged(package[v], req[w].row, req[w].run, req[w].payload)
  <2>1. /\ v \in Version /\ req[w].row = package[v]
        /\ req[w].payload.origin = req[w].run
    BY <1>0, <1>4 DEF SaveExecution, Aimed, RunPoint, ReadsAreCurrent, HeldOrigin
  <2>2. new.status = "pending" /\ new.payload.origin = new.run
    BY <2>1 DEF Merged
  <2>3. /\ package' = package \/ package' = [package EXCEPT ![v] = new]
        /\ req' = [req EXCEPT ![w] = Idle]
    BY <1>4 DEF SaveExecution, Finish
  <2> HIDE DEF v, new
  <2>4. \A u \in Version : package'[u] = package[u] \/ package'[u] = new
    BY <2>3 DEF TypeOK
  <2>5. QED
    BY <2>2, <2>3, <2>4, IdleOrigin, OriginStep
<1>5. QED
  BY <1>1, <1>2, <1>3, <1>4 DEF RunStep

LEMMA ReviewStepOrigins ==
  ASSUME TypeOK, TransactionInvariant, OriginsChecked, [Next]_vars, NEW w \in Worker, ReviewStep(w)
  PROVE  OriginsChecked'
<1>0. req[w] \in Request /\ Aimed(req[w]) /\ ReadsAreCurrent(req[w])
  BY DEF TypeOK, TransactionInvariant, RequestsOK
<1>1. ASSUME NEW q, q.at \in ReviewPoint \cup {"idle"}, req' = [req EXCEPT ![w] = q],
             package' = package
      PROVE  OriginsChecked'
  BY <1>1, OriginStep DEF ReviewPoint
<1>2. ASSUME NEW r \in Run, NEW k \in Field, NEW decision \in Decision, NEW as \in Field,
             ReadReview(w, r, k, decision, as)
      PROVE  OriginsChecked'
  <2> DEFINE q == [Idle EXCEPT !.at = "reviewRead", !.run = r, !.key = k,
                               !.decision = decision, !.as = as]
  <2>1. q.at = "reviewRead"
    BY DEF Idle
  <2>2. req' = [req EXCEPT ![w] = q] /\ package' = package
    BY <1>2 DEF ReadReview, tables
  <2> HIDE DEF q
  <2>3. QED
    BY <1>1, <2>1, <2>2 DEF ReviewPoint
<1>3. ASSUME ReadProposal(w) \/ FlushAndReadPackage(w)
      PROVE  OriginsChecked'
  <2>1. PICK q : q.at \in ReviewPoint /\ req' = [req EXCEPT ![w] = q]
    <3>1. CASE ReadProposal(w)
      <4> DEFINE q == [req[w] EXCEPT !.at = "proposalRead",
                                     !.prior = proposal[req[w].run][req[w].key]]
      <4>1. q.at \in ReviewPoint /\ req' = [req EXCEPT ![w] = q]
        BY <1>0, <3>1 DEF ReadProposal, Request, ReviewPoint, TypeOK
      <4>2. QED
        BY <4>1
    <3>2. CASE FlushAndReadPackage(w)
      <4> DEFINE v == VersionOf(req[w].run)
                 q == [req[w] EXCEPT !.at = "flushed", !.version = v,
                                     !.row = IF v = 0 THEN NoRow ELSE package[v]]
      <4>1. q.at \in ReviewPoint /\ req' = [req EXCEPT ![w] = q]
        BY <1>0, <3>2 DEF FlushAndReadPackage, Request, ReviewPoint, TypeOK
      <4>2. QED
        BY <4>1
    <3>3. QED
      BY <1>3, <3>1, <3>2
  <2>2. package' = package
    BY <1>3 DEF ReadProposal, FlushAndReadPackage, tables
  <2>3. QED
    BY <1>1, <2>1, <2>2
<1>4. ASSUME NEW keepOld \in BOOLEAN, ApproveReview(w, keepOld)
      PROVE  OriginsChecked'
  <2> DEFINE v == req[w].version
             updated == ReplacePolicyField(req[w].row.payload, req[w].key, req[w].as, keepOld)
  <2>1. v # 0 => v \in Version /\ req[w].row = package[v]
    BY <1>0, <1>4, VersionInRange DEF ApproveReview, ReadsAreCurrent
  <2>2. updated.origin = req[w].row.payload.origin
    BY <1>0 DEF ReplacePolicyField, Request, Row, Payload
  <2>3. /\ package' = package \/ (v # 0 /\ package' = [package EXCEPT ![v].payload = updated])
        /\ req' = [req EXCEPT ![w] = Idle]
    BY <1>4 DEF ApproveReview, Finish
  <2> HIDE DEF v, updated
  <2>4. \A u \in Version :
          /\ package'[u].status = package[u].status /\ package'[u].run = package[u].run
          /\ package'[u].payload.origin = package[u].payload.origin
    BY <2>1, <2>2, <2>3 DEF TypeOK, Row
  <2>5. QED
    BY <2>3, <2>4, IdleOrigin, OriginStep
<1>5. ASSUME RejectReview(w)
      PROVE  OriginsChecked'
  BY <1>1, <1>5, IdleOrigin DEF RejectReview, Finish
<1>6. QED
  BY <1>2, <1>3, <1>4, <1>5 DEF ReviewStep

LEMMA PublishStepOrigins ==
  ASSUME TypeOK, TransactionInvariant, OriginsChecked, [Next]_vars, NEW w \in Worker, PublishStep(w)
  PROVE  OriginsChecked'
<1>0. /\ req[w] \in Request /\ Aimed(req[w])
      /\ ReadsAreCurrent(req[w]) /\ HeldOrigin(req[w])
  BY DEF TypeOK, TransactionInvariant, RequestsOK, OriginsChecked
<1> DEFINE quiet == {"contextRead", "contextChecked", "idle"}
<1>1. ASSUME NEW q, q.at \in quiet,
             req' = [req EXCEPT ![w] = q], package' = package
      PROVE  OriginsChecked'
  BY <1>1, OriginStep
<1>c. /\ "contextRead" \in quiet /\ "contextChecked" \in quiet /\ Idle.at \in quiet
  BY IdleOrigin
<1> HIDE DEF quiet
<1>2. ASSUME NEW q, q.payload.origin = req[w].payload.origin,
             req[w].at \in {"archiving", "archived", "noticeSaved", "publishRead", "publishChecked"},
             q.at \in {"archived", "noticeSaved", "publishRead", "publishChecked"},
             req' = [req EXCEPT ![w] = q], package' = package
      PROVE  OriginsChecked'
  <2>1. q.payload.origin \in saved /\ AllProposalsApproved(q.payload.origin)
    BY <1>0, <1>2 DEF HeldOrigin
  <2>2. QED
    BY <1>2, <2>1, OriginStep
<1>3. ASSUME NEW v \in Version, ReadContext(w, v)
      PROVE  OriginsChecked'
  <2> DEFINE q == [Idle EXCEPT !.at = "contextRead", !.version = v, !.row = package[v]]
  <2>1. q.at = "contextRead"
    BY DEF Idle
  <2>2. req' = [req EXCEPT ![w] = q] /\ package' = package
    BY <1>3 DEF ReadContext, tables
  <2> HIDE DEF q
  <2>3. QED
    BY <1>1, <1>c, <2>1, <2>2
<1>4. ASSUME CheckContext(w)
      PROVE  OriginsChecked'
  <2> DEFINE q == [req[w] EXCEPT !.at = "contextChecked"]
  <2>1. q.at = "contextChecked" /\ req' = [req EXCEPT ![w] = q] /\ package' = package
    BY <1>0, <1>4 DEF CheckContext, Request, TypeOK, tables
  <2> HIDE DEF q
  <2>2. QED
    BY <1>1, <1>c, <2>1
<1>5. ASSUME ReadNotice(w)
      PROVE  OriginsChecked'
  <2> DEFINE q == [req[w] EXCEPT !.at = "archiving", !.payload = req[w].row.payload,
                                 !.notice = notice]
             v == req[w].version
  <2>1. /\ v \in Version /\ req[w].row = package[v] /\ package[v].status = "pending"
        /\ AllProposalsApproved(package[v].run)
    BY <1>0, <1>5 DEF ReadNotice, Aimed, PublishPoint, ReadsAreCurrent
  <2>2. package[v].payload.origin \in saved /\ AllProposalsApproved(package[v].payload.origin)
    BY <2>1 DEF OriginsChecked, TransactionInvariant, StoredRuns
  <2>3. q.at = "archiving" /\ q.payload = package[v].payload
    BY <1>0, <2>1 DEF Request
  <2>4. req' = [req EXCEPT ![w] = q] /\ package' = package
    BY <1>5 DEF ReadNotice, TypeOK, tables
  <2> HIDE DEF q, v
  <2>5. QED
    BY <2>2, <2>3, <2>4, OriginStep
<1>6. ASSUME ArchiveEvidence(w)
      PROVE  OriginsChecked'
  <2> DEFINE q == Linked(req[w], Archivable(req[w]))
  <2>1. q.at = "archived" /\ q.payload.origin = req[w].payload.origin
    BY <1>0, ArchivableType, LinkedHolds
  <2>2. req' = [req EXCEPT ![w] = q] /\ package' = package /\ req[w].at = "archiving"
    BY <1>6 DEF ArchiveEvidence, TypeOK
  <2> HIDE DEF q
  <2>3. QED
    BY <1>2, <2>1, <2>2
<1>7. ASSUME ArchiveFails(w)
      PROVE  OriginsChecked'
  BY <1>1, <1>7, <1>c DEF ArchiveFails, Finish
<1>8. ASSUME SaveNotice(w)
      PROVE  OriginsChecked'
  <2> DEFINE q == [req[w] EXCEPT !.at = "noticeSaved"]
  <2>1. q.at = "noticeSaved" /\ q.payload = req[w].payload
    BY <1>0 DEF Request
  <2>2. req' = [req EXCEPT ![w] = q] /\ package' = package /\ req[w].at = "archived"
    BY <1>8 DEF SaveNotice, TypeOK
  <2> HIDE DEF q
  <2>3. QED
    BY <1>2, <2>1, <2>2
<1>9. ASSUME ReadForPublish(w)
      PROVE  OriginsChecked'
  <2> DEFINE q == [req[w] EXCEPT !.at = "publishRead", !.row = package[req[w].version]]
  <2>1. q.at = "publishRead" /\ q.payload = req[w].payload
    BY <1>0 DEF Request
  <2>2. req' = [req EXCEPT ![w] = q] /\ package' = package /\ req[w].at = "noticeSaved"
    BY <1>9 DEF ReadForPublish, TypeOK, tables
  <2> HIDE DEF q
  <2>3. QED
    BY <1>2, <2>1, <2>2
<1>10. ASSUME CheckForPublish(w)
      PROVE  OriginsChecked'
  <2> DEFINE q == [req[w] EXCEPT !.at = "publishChecked"]
  <2>1. q.at = "publishChecked" /\ q.payload = req[w].payload
    BY <1>0 DEF Request
  <2>2. req' = [req EXCEPT ![w] = q] /\ package' = package /\ req[w].at = "publishRead"
    BY <1>10 DEF CheckForPublish, TypeOK, tables
  <2> HIDE DEF q
  <2>3. QED
    BY <1>2, <2>1, <2>2
<1>11. ASSUME Publish(w)
      PROVE  OriginsChecked'
  <2> DEFINE v == req[w].version
             new == Decided(package[v], req[w].payload, "approved")
  <2>1. /\ v \in Version /\ req[w].payload.origin \in saved
        /\ AllProposalsApproved(req[w].payload.origin)
        /\ req[w].payload \in Payload
    BY <1>0, <1>11 DEF Publish, Aimed, PublishPoint, HeldOrigin, Request
  <2>2. new.status = "approved" /\ new.payload.origin = req[w].payload.origin
    BY <2>1 DEF Decided, TypeOK, Row, Payload
  <2>3. package' = [package EXCEPT ![v] = new] /\ req' = [req EXCEPT ![w] = Idle]
    BY <1>11 DEF Publish, Finish
  <2> HIDE DEF v, new
  <2>4. \A u \in Version : package'[u] = package[u] \/ package'[u] = new
    BY <2>3 DEF TypeOK
  <2>5. QED
    BY <2>1, <2>2, <2>3, <2>4, IdleOrigin, OriginStep
<1>12. QED
  BY <1>3, <1>4, <1>5, <1>6, <1>7, <1>8, <1>9, <1>10, <1>11 DEF PublishStep

LEMMA RejectStepOrigins ==
  ASSUME TypeOK, TransactionInvariant, OriginsChecked, [Next]_vars, NEW w \in Worker, RejectStep(w)
  PROVE  OriginsChecked'
<1>0. req[w] \in Request /\ Aimed(req[w])
  BY DEF TypeOK
<1>1. ASSUME NEW v \in Version, ReadForReject(w, v)
      PROVE  OriginsChecked'
  <2> DEFINE q == [Idle EXCEPT !.at = "rejectRead", !.version = v, !.row = package[v]]
  <2>1. q.at = "rejectRead"
    BY DEF Idle
  <2>2. req' = [req EXCEPT ![w] = q] /\ package' = package
    BY <1>1 DEF ReadForReject, tables
  <2> HIDE DEF q
  <2>3. QED
    BY <2>1, <2>2, OriginStep
<1>2. ASSUME RejectPolicy(w)
      PROVE  OriginsChecked'
  <2> DEFINE v == req[w].version
             new == Decided(package[v], req[w].row.payload, "rejected")
  <2>1. v \in Version /\ req[w].row.payload \in Payload
    BY <1>0, <1>2 DEF RejectPolicy, Aimed, PublishPoint, Request, Row
  <2>2. new.status = "rejected"
    BY <2>1 DEF Decided, TypeOK, Row
  <2>3. package' = [package EXCEPT ![v] = new] /\ req' = [req EXCEPT ![w] = Idle]
    BY <1>2 DEF RejectPolicy, Finish
  <2> HIDE DEF v, new
  <2>4. \A u \in Version : package'[u] = package[u] \/ package'[u] = new
    BY <2>3 DEF TypeOK
  <2>5. QED
    BY <2>2, <2>3, <2>4, IdleOrigin, OriginStep
<1>3. QED
  BY <1>1, <1>2 DEF RejectStep

\* What is published was built by a run whose reviews are all approved, though
\* the approval's last transaction checks the run that the row names by then.
THEOREM OriginsApproved == Isolation # "statement" => (Spec => []PublishedOriginApproved)
<1> SUFFICES ASSUME Isolation # "statement" PROVE Spec => []PublishedOriginApproved
  OBVIOUS
<1>1. Init => OriginsChecked
  <2> SUFFICES ASSUME Init PROVE OriginsChecked
    OBVIOUS
  <2>1. \A w \in Worker : req[w].at = "idle"
    BY IdleOrigin DEF Init
  <2>2. \A v \in Version : package[v].status = "none"
    BY DEF Init, NoRow
  <2>3. QED
    BY <2>1, <2>2 DEF OriginsChecked, HeldOrigin, Listed, PublishedOriginApproved
<1>2. TypeOK /\ TransactionInvariant /\ OriginsChecked /\ [Next]_vars => OriginsChecked'
  <2> SUFFICES ASSUME TypeOK, TransactionInvariant, OriginsChecked, [Next]_vars
               PROVE  OriginsChecked'
    OBVIOUS
  <2>1. ASSUME NEW w \in Worker, Abort(w) PROVE OriginsChecked'
    BY <2>1, IdleOrigin, OriginStep DEF Abort, Finish, tables
  <2>2. CASE UNCHANGED vars
    BY <2>2 DEF vars, OriginsChecked, HeldOrigin, Listed, PublishedOriginApproved,
                AllProposalsApproved
  <2>3. QED
    BY <2>1, <2>2, RunStepOrigins, ReviewStepOrigins, PublishStepOrigins, RejectStepOrigins
       DEF Next
<1>3. OriginsChecked => PublishedOriginApproved
  BY DEF OriginsChecked
<1>4. Spec => [](TypeOK /\ TransactionInvariant)
  BY InvariantHolds
<1>5. QED
  BY <1>1, <1>2, <1>3, <1>4, PTL DEF Spec
=============================================================================
