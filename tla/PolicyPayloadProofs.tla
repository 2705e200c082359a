------------------------ MODULE PolicyPayloadProofs ------------------------
(***************************************************************************)
(* Theorems about the payloads of PolicyReview: what every copy of a       *)
(* policy document satisfies, in a row or in the hands of a request.       *)
(***************************************************************************)
EXTENDS PolicyReviewProofs

(***************************************************************************)
(* Rule, evidence and notice.  These hold at both isolation levels: a      *)
(* stale copy is still a whole document, and each publisher archives what  *)
(* it can of the one that it publishes.                                    *)
(***************************************************************************)
RuleDefined(p) == \A k \in p.rule : p.fields[k] # "absent"

\* shown and kept are the values of exposed and saved.
Served(p, shown) == \A d \in p.public : <<p.origin, d>> \in shown

\* The evidence of a file that is not archived: a stored run lacks the file.
Explained(p, kept) ==
    \A d \in p.cites \cap FilesOf[p.origin] :
        d \in p.public \/ \E r \in kept : d \notin FilesOf[r]

Whole(p, shown, kept) ==
    /\ RuleDefined(p)
    /\ p.origin \in kept \cup {NoRun}
    /\ Served(p, shown)
    /\ p.review = "approved" => Explained(p, kept)

NoticeWhole(n, shown, kept) ==
    /\ \A d \in n.public : \E upload \in shown : upload[2] = d
    /\ kept # {} => n.run \in kept

Archiving == {"archiving", "archived", "noticeSaved", "publishRead", "publishChecked"}

HeldWhole(q, shown, kept) ==
    /\ Whole(q.row.payload, shown, kept)
    /\ q.at \in {"analysed", "saving"} =>
          /\ RuleDefined(q.payload) /\ q.payload.origin = q.run
          /\ q.payload.review = "pending" /\ q.payload.public = {}
    /\ q.at \in PublishPoint => kept # {}
    /\ q.at \in Archiving => Whole(q.payload, shown, kept)
    /\ q.at \in Archiving \ {"archiving"} => Explained(q.payload, kept)
    /\ q.at \in {"archiving", "archived"} => NoticeWhole(q.notice, shown, kept)

PayloadInvariant ==
    /\ RunsAreFresh
    /\ \A v \in Version : Whole(package[v].payload, exposed, saved)
    /\ \A w \in Worker : HeldWhole(req[w], exposed, saved)
    /\ NoticeWhole(notice, exposed, saved)
    /\ \A v \in Version : package[v].status # "none" => saved # {}

\* A run that builds is the only one of its name.
FreshFor(w, q) ==
    q.at \in RunPoint =>
       /\ q.run \notin saved
       /\ \A other \in Worker \ {w} : ~(req[other].at \in RunPoint /\ req[other].run = q.run)

\* What is stored only grows, and a notice that replaces another is whole.
StoreGrows(w) ==
    /\ exposed \subseteq exposed'
    /\ \/ saved' = saved
       \/ req[w].at = "saving" /\ saved' = saved \cup {req[w].run}
    /\ \/ saved' = saved /\ notice' = notice
       \/ NoticeWhole(notice', exposed', saved')

\* What was whole stays so.
LEMMA WholeStays ==
  ASSUME NEW w \in Worker, StoreGrows(w), NEW p, NEW n
  PROVE  /\ saved \subseteq saved'
         /\ Whole(p, exposed, saved) => Whole(p, exposed', saved')
         /\ Explained(p, saved) => Explained(p, saved')
         /\ NoticeWhole(n, exposed, saved) /\ saved # {} => NoticeWhole(n, exposed', saved')
<1>1. exposed \subseteq exposed' /\ saved \subseteq saved'
  BY DEF StoreGrows
<1>2. Explained(p, saved) => Explained(p, saved')
  BY <1>1 DEF Explained
<1>3. Served(p, exposed) => Served(p, exposed')
  BY <1>1 DEF Served
<1> QED
  BY <1>1, <1>2, <1>3 DEF Whole, NoticeWhole

\* A step keeps the invariant if what it writes and what it holds are whole.
LEMMA PayloadStep ==
  ASSUME TypeOK, PayloadInvariant, NEW w \in Worker, StoreGrows(w),
         NEW q, req' = [req EXCEPT ![w] = q],
         saved' # saved => q.at = "idle",
         FreshFor(w, q),
         HeldWhole(q, exposed', saved'),
         \A v \in Version : /\ \/ package'[v].payload = package[v].payload
                               \/ Whole(package'[v].payload, exposed', saved')
                            /\ package'[v].status = package[v].status \/ saved' # {}
  PROVE  PayloadInvariant'
<1>1. req'[w] = q /\ \A other \in Worker \ {w} : req'[other] = req[other]
  BY DEF TypeOK
<1>2. RunsAreFresh'
  <2>1. CASE saved' = saved
    BY <1>1, <2>1 DEF FreshFor, RunsAreFresh, PayloadInvariant
  <2>2. CASE saved' # saved
    <3>1. /\ q.at \notin RunPoint /\ req[w].at \in RunPoint
          /\ saved' = saved \cup {req[w].run}
      BY <2>2 DEF StoreGrows, RunPoint
    <3> QED
      BY <1>1, <3>1 DEF RunsAreFresh, PayloadInvariant
  <2> QED
    BY <2>1, <2>2
<1>3. ASSUME NEW v \in Version
      PROVE  /\ Whole(package'[v].payload, exposed', saved')
             /\ package'[v].status # "none" => saved' # {}
  <2>1. /\ Whole(package[v].payload, exposed, saved)
        /\ package[v].status # "none" => saved # {}
    BY DEF PayloadInvariant
  <2> QED
    BY <2>1, WholeStays
<1>4. ASSUME NEW u \in Worker \ {w}
      PROVE  HeldWhole(req'[u], exposed', saved')
  <2>1. HeldWhole(req[u], exposed, saved)
    BY DEF PayloadInvariant
  <2>2. Whole(req[u].row.payload, exposed', saved')
    BY <2>1, WholeStays DEF HeldWhole
  <2>3. req[u].at \in Archiving => Whole(req[u].payload, exposed', saved')
    BY <2>1, WholeStays DEF HeldWhole
  <2>4. req[u].at \in Archiving \ {"archiving"} => Explained(req[u].payload, saved')
    BY <2>1, WholeStays DEF HeldWhole
  <2>5. req[u].at \in PublishPoint => saved # {} /\ saved' # {}
    BY <2>1, WholeStays DEF HeldWhole
  <2>6. req[u].at \in {"archiving", "archived"} =>
           NoticeWhole(req[u].notice, exposed', saved')
    BY <2>1, <2>5, WholeStays DEF HeldWhole, PublishPoint
  <2> QED
    BY <1>1, <2>1, <2>2, <2>3, <2>4, <2>5, <2>6 DEF HeldWhole
<1>5. NoticeWhole(notice', exposed', saved')
  BY DEF PayloadInvariant, StoreGrows, NoticeWhole
<1> QED
  BY <1>1, <1>2, <1>3, <1>4, <1>5 DEF PayloadInvariant

\* So does a step that only changes what a request holds.
LEMMA PayloadHold ==
  ASSUME TypeOK, PayloadInvariant, UNCHANGED tables, NEW w \in Worker,
         NEW q, req' = [req EXCEPT ![w] = q], FreshFor(w, q),
         HeldWhole(q, exposed, saved)
  PROVE  PayloadInvariant'
<1>1. /\ exposed' = exposed /\ saved' = saved /\ notice' = notice /\ package' = package
      /\ StoreGrows(w)
  BY DEF tables, StoreGrows
<1> QED
  BY <1>1, PayloadStep

\* What the builder, a rename and a verdict make of documents that are whole.
LEMMA BuiltWhole ==
  ASSUME NEW r, NEW draft \in Draft, NEW registry
  PROVE  LET p == Built(r, draft, registry)
         IN  RuleDefined(p) /\ p.origin = r /\ p.review = "pending" /\ p.public = {}
<1>1. draft.rule \subseteq draft.keys /\ draft.keys \subseteq Field
  BY ConstantAssumption
<1> QED
  BY <1>1 DEF Built, RuleDefined

LEMMA IdleWhole ==
  ASSUME NEW shown, NEW kept
  PROVE  /\ Idle.at = "idle"
         /\ HeldWhole(Idle, shown, kept)
         /\ Whole(NoPayload, shown, kept)
<1>1. Whole(NoPayload, shown, kept)
  BY DEF NoPayload, Whole, RuleDefined, Served
<1>2. Idle.at = "idle" /\ Idle.row.payload = NoPayload
  BY DEF Idle, NoRow
<1> QED
  BY <1>1, <1>2 DEF HeldWhole, Archiving, PublishPoint

LEMMA ReplaceWhole ==
  ASSUME NEW payload \in Payload, NEW old \in Field, NEW new \in Field, NEW keepOld \in BOOLEAN,
         NEW shown, NEW kept, Whole(payload, shown, kept)
  PROVE  Whole(ReplacePolicyField(payload, old, new, keepOld), shown, kept)
<1> DEFINE fields == ReplaceField(payload.fields, old, new, keepOld)
           rule == ReplaceRuleField(payload.rule, old, new)
           p == ReplacePolicyField(payload, old, new, keepOld)
<1>1. payload.fields \in [Field -> FieldState] /\ payload.rule \subseteq Field
  BY DEF Payload
<1>2. \A k \in payload.rule : payload.fields[k] # "absent"
  BY DEF Whole, RuleDefined
<1>3. ASSUME NEW k \in rule PROVE fields[k] # "absent"
  <2>1. CASE payload.fields[old] = "absent"
    BY <1>2, <1>3, <2>1 DEF ReplaceField, ReplaceRuleField
  <2>2. CASE payload.fields[old] # "absent" /\ k = new
    BY <1>1, <2>2 DEF ReplaceField
  <2>3. CASE payload.fields[old] # "absent" /\ k # new
    <3>1. k \in payload.rule /\ (k # old \/ old \notin payload.rule)
      BY <1>3, <2>3 DEF ReplaceRuleField
    <3>2. k \in Field /\ k # old
      BY <1>1, <3>1
    <3> QED
      BY <1>1, <1>2, <2>3, <3>1, <3>2 DEF ReplaceField
  <2> QED
    BY <2>1, <2>2, <2>3
<1>4. /\ p.fields = fields /\ p.rule = rule /\ p.review = payload.review
      /\ p.origin = payload.origin /\ p.cites = payload.cites /\ p.public = payload.public
  BY DEF ReplacePolicyField, Payload
<1> QED
  BY <1>3, <1>4 DEF Whole, RuleDefined, Served, Explained

LEMMA DecidedWhole ==
  ASSUME NEW row \in Row, NEW payload \in Payload, NEW verdict \in Decision,
         NEW shown, NEW kept, Whole(payload, shown, kept),
         verdict = "approved" => Explained(payload, kept)
  PROVE  Whole(Decided(row, payload, verdict).payload, shown, kept)
<1> DEFINE p == Decided(row, payload, verdict).payload
<1>1. /\ p.fields = payload.fields /\ p.rule = payload.rule /\ p.origin = payload.origin
      /\ p.cites = payload.cites /\ p.public = payload.public /\ p.review = verdict
  BY DEF Decided, Row, Payload
<1> QED
  BY <1>1 DEF Whole, RuleDefined, Served, Explained
-----------------------------------------------------------------------------
LEMMA RunStepWhole ==
  ASSUME TypeOK, PayloadInvariant, NEW w \in Worker, RunStep(w)
  PROVE  PayloadInvariant'
<1>0. /\ req[w] \in Request /\ Aimed(req[w]) /\ HeldWhole(req[w], exposed, saved)
      /\ FreshFor(w, req[w])
  BY DEF TypeOK, PayloadInvariant, RunsAreFresh, FreshFor
<1>1. ASSUME NEW r \in Run, NEW previous \in 0..(MaxVersion - 1),
             LoadPreviousPolicy(w, r, previous)
      PROVE  PayloadInvariant'
  <2> DEFINE known == IF previous = 0 THEN {} ELSE ApprovedIn(package[previous].payload)
             q == [Idle EXCEPT !.at = "loaded", !.run = r,
                               !.version = previous + 1, !.known = known]
  <2>1. q.at = "loaded" /\ q.run = r /\ q.row.payload = NoPayload
    BY DEF Idle, NoRow
  <2>2. req' = [req EXCEPT ![w] = q] /\ UNCHANGED tables /\ Fresh(r)
    BY <1>1 DEF LoadPreviousPolicy
  <2> HIDE DEF q
  <2>3. HeldWhole(q, exposed, saved)
    BY <2>1, IdleWhole DEF HeldWhole, Archiving, PublishPoint
  <2>4. FreshFor(w, q)
    BY <2>1, <2>2 DEF FreshFor, Fresh
  <2> QED
    BY <2>2, <2>3, <2>4, PayloadHold
<1>2. ASSUME NEW draft \in Draft, Analyse(w, draft)
      PROVE  PayloadInvariant'
  <2> DEFINE built == Built(req[w].run, draft, req[w].known \cup ApprovedKeys)
             q == [req[w] EXCEPT !.at = "analysed", !.payload = built]
  <2>1. /\ q.at = "analysed" /\ q.payload = built /\ q.run = req[w].run
        /\ q.row = req[w].row /\ req[w].at = "loaded"
    BY <1>0, <1>2 DEF Request, Analyse
  <2>2. req' = [req EXCEPT ![w] = q] /\ UNCHANGED tables
    BY <1>2 DEF Analyse, TypeOK
  <2>3. /\ RuleDefined(built) /\ built.origin = req[w].run
        /\ built.review = "pending" /\ built.public = {}
    BY BuiltWhole
  <2> HIDE DEF q, built
  <2>4. HeldWhole(q, exposed, saved)
    BY <1>0, <2>1, <2>3 DEF HeldWhole, Archiving, PublishPoint
  <2>5. FreshFor(w, q)
    BY <1>0, <2>1 DEF FreshFor, RunPoint
  <2> QED
    BY <2>2, <2>4, <2>5, PayloadHold
<1>3. ASSUME SaveRead(w)
      PROVE  PayloadInvariant'
  <2> DEFINE q == [req[w] EXCEPT !.at = "saving", !.row = package[req[w].version]]
  <2>1. /\ q.at = "saving" /\ q.payload = req[w].payload /\ q.run = req[w].run
        /\ q.row = package[req[w].version] /\ req[w].at = "analysed"
        /\ req[w].version \in Version
    BY <1>0, <1>3 DEF Request, SaveRead, Aimed, RunPoint
  <2>2. req' = [req EXCEPT ![w] = q] /\ UNCHANGED tables
    BY <1>3 DEF SaveRead, TypeOK
  <2> HIDE DEF q
  <2>3. HeldWhole(q, exposed, saved)
    BY <1>0, <2>1 DEF HeldWhole, Archiving, PayloadInvariant, PublishPoint
  <2>4. FreshFor(w, q)
    BY <1>0, <2>1 DEF FreshFor, RunPoint
  <2> QED
    BY <2>2, <2>3, <2>4, PayloadHold
<1>4. ASSUME SaveExecution(w)
      PROVE  PayloadInvariant'
  <2> DEFINE r == req[w].run
             v == req[w].version
             new == Merged(package[v], req[w].row, r, req[w].payload)
  <2>1. /\ req[w].at = "saving" /\ r \in Run /\ r \notin saved /\ v \in Version
        /\ req[w].payload.origin = r /\ RuleDefined(req[w].payload)
        /\ req[w].payload.review = "pending" /\ req[w].payload.public = {}
    BY <1>0, <1>4 DEF SaveExecution, Aimed, RunPoint, HeldWhole, FreshFor
  <2>2. /\ req' = [req EXCEPT ![w] = Idle] /\ exposed' = exposed
        /\ saved' = saved \cup {r} /\ notice'.run = r /\ notice'.public = {}
        /\ package' = package \/ package' = [package EXCEPT ![v] = new]
    BY <1>4 DEF SaveExecution, Finish
  <2>3. new.payload = req[w].payload
    BY DEF Merged
  <2> HIDE DEF new
  <2>4. Whole(new.payload, exposed', saved')
    BY <2>1, <2>2, <2>3 DEF Whole, Served, RuleDefined
  <2>5. StoreGrows(w) /\ FreshFor(w, Idle)
    BY <2>1, <2>2, IdleWhole DEF StoreGrows, FreshFor, RunPoint, NoticeWhole
  <2>6. \A u \in Version : package'[u] = package[u] \/ package'[u] = new
    BY <2>2 DEF TypeOK
  <2> QED
    BY <2>2, <2>4, <2>5, <2>6, IdleWhole, PayloadStep
<1> QED
  BY <1>1, <1>2, <1>3, <1>4 DEF RunStep

LEMMA ReviewStepWhole ==
  ASSUME TypeOK, PayloadInvariant, NEW w \in Worker, ReviewStep(w)
  PROVE  PayloadInvariant'
<1>0. /\ req[w] \in Request /\ Aimed(req[w]) /\ HeldWhole(req[w], exposed, saved)
      /\ req[w].row.payload \in Payload
  BY DEF TypeOK, PayloadInvariant, Request, Row
<1>1. ASSUME NEW q, q.at \in ReviewPoint, UNCHANGED tables, req' = [req EXCEPT ![w] = q],
             Whole(q.row.payload, exposed, saved)
      PROVE  PayloadInvariant'
  <2>1. HeldWhole(q, exposed, saved) /\ FreshFor(w, q)
    BY <1>1 DEF HeldWhole, FreshFor, ReviewPoint, RunPoint, Archiving, PublishPoint
  <2> QED
    BY <1>1, <2>1, PayloadHold
<1>2. ASSUME NEW r \in Run, NEW k \in Field, NEW decision \in Decision, NEW as \in Field,
             ReadReview(w, r, k, decision, as)
      PROVE  PayloadInvariant'
  <2> DEFINE q == [Idle EXCEPT !.at = "reviewRead", !.run = r, !.key = k,
                               !.decision = decision, !.as = as]
  <2>1. q.at = "reviewRead" /\ q.row.payload = NoPayload
    BY DEF Idle, NoRow
  <2>2. req' = [req EXCEPT ![w] = q] /\ UNCHANGED tables
    BY <1>2 DEF ReadReview
  <2> HIDE DEF q
  <2>3. q.at \in ReviewPoint /\ Whole(q.row.payload, exposed, saved)
    BY <2>1, IdleWhole DEF ReviewPoint
  <2> QED
    BY <1>1, <2>2, <2>3
<1>3. ASSUME ReadProposal(w)
      PROVE  PayloadInvariant'
  <2> DEFINE q == [req[w] EXCEPT !.at = "proposalRead",
                                 !.prior = proposal[req[w].run][req[w].key]]
  <2>1. q.at = "proposalRead" /\ q.row = req[w].row
    BY <1>0 DEF Request
  <2>2. req' = [req EXCEPT ![w] = q] /\ UNCHANGED tables
    BY <1>3 DEF ReadProposal, TypeOK
  <2> HIDE DEF q
  <2>3. q.at \in ReviewPoint /\ Whole(q.row.payload, exposed, saved)
    BY <1>0, <2>1 DEF ReviewPoint, HeldWhole
  <2> QED
    BY <1>1, <2>2, <2>3
<1>4. ASSUME FlushAndReadPackage(w)
      PROVE  PayloadInvariant'
  <2> DEFINE v == VersionOf(req[w].run)
             q == [req[w] EXCEPT !.at = "flushed", !.version = v,
                                 !.row = IF v = 0 THEN NoRow ELSE package[v]]
  <2>1. q.at = "flushed" /\ q.row = IF v = 0 THEN NoRow ELSE package[v]
    BY <1>0 DEF Request
  <2>2. req' = [req EXCEPT ![w] = q] /\ UNCHANGED tables
    BY <1>4 DEF FlushAndReadPackage, TypeOK
  <2>3. v = 0 \/ v \in Version
    BY VersionOfType, VersionInRange DEF VersionOf
  <2> HIDE DEF q, v
  <2>4. q.at \in ReviewPoint /\ Whole(q.row.payload, exposed, saved)
    BY <2>1, <2>3, IdleWhole DEF ReviewPoint, PayloadInvariant, NoRow
  <2> QED
    BY <1>1, <2>2, <2>4
<1>5. ASSUME NEW keepOld \in BOOLEAN, ApproveReview(w, keepOld)
      PROVE  PayloadInvariant'
  <2> DEFINE v == req[w].version
             updated == ReplacePolicyField(req[w].row.payload, req[w].key, req[w].as, keepOld)
  <2>1. Whole(updated, exposed, saved)
    BY <1>0, ReplaceWhole DEF HeldWhole, Request
  <2>2. /\ exposed' = exposed /\ saved' = saved /\ notice' = notice
        /\ req' = [req EXCEPT ![w] = Idle]
        /\ package' = package \/ package' = [package EXCEPT ![v].payload = updated]
    BY <1>5 DEF ApproveReview, Finish
  <2> HIDE DEF v, updated
  <2>3. \A u \in Version :
           /\ package'[u].payload = package[u].payload \/ package'[u].payload = updated
           /\ package'[u].status = package[u].status
    BY <2>2 DEF TypeOK, Row
  <2>4. StoreGrows(w) /\ FreshFor(w, Idle)
    BY <2>2, IdleWhole DEF StoreGrows, FreshFor, RunPoint
  <2> QED
    BY <2>1, <2>2, <2>3, <2>4, IdleWhole, PayloadStep
<1>6. ASSUME RejectReview(w)
      PROVE  PayloadInvariant'
  <2>1. /\ exposed' = exposed /\ saved' = saved /\ notice' = notice /\ package' = package
        /\ req' = [req EXCEPT ![w] = Idle]
    BY <1>6 DEF RejectReview, Finish
  <2>2. StoreGrows(w) /\ FreshFor(w, Idle)
    BY <2>1, IdleWhole DEF StoreGrows, FreshFor, RunPoint
  <2> QED
    BY <2>1, <2>2, IdleWhole, PayloadStep
<1> QED
  BY <1>2, <1>3, <1>4, <1>5, <1>6 DEF ReviewStep

LEMMA PublishStepWhole ==
  ASSUME TypeOK, PayloadInvariant, NEW w \in Worker, PublishStep(w)
  PROVE  PayloadInvariant'
<1>0. /\ req[w] \in Request /\ Aimed(req[w]) /\ HeldWhole(req[w], exposed, saved)
  BY DEF TypeOK, PayloadInvariant
<1>1. ASSUME NEW q, q.at \notin RunPoint, UNCHANGED tables, req' = [req EXCEPT ![w] = q],
             HeldWhole(q, exposed, saved)
      PROVE  PayloadInvariant'
  BY <1>1, PayloadHold DEF FreshFor
<1>2. ASSUME NEW v \in Version, ReadContext(w, v)
      PROVE  PayloadInvariant'
  <2> DEFINE q == [Idle EXCEPT !.at = "contextRead", !.version = v, !.row = package[v]]
  <2>1. q.at = "contextRead" /\ q.row = package[v]
    BY DEF Idle
  <2>2. req' = [req EXCEPT ![w] = q] /\ UNCHANGED tables
    BY <1>2 DEF ReadContext
  <2> HIDE DEF q
  <2>3. saved # {}
    BY <1>2 DEF ReadContext, PayloadInvariant
  <2> QED
    BY <1>1, <2>1, <2>2, <2>3 DEF HeldWhole, PayloadInvariant, RunPoint, Archiving
<1>3. ASSUME CheckContext(w)
      PROVE  PayloadInvariant'
  <2> DEFINE q == [req[w] EXCEPT !.at = "contextChecked"]
  <2>1. q.at = "contextChecked" /\ q.row = req[w].row /\ req[w].at = "contextRead"
    BY <1>0, <1>3 DEF Request, CheckContext
  <2>2. req' = [req EXCEPT ![w] = q] /\ UNCHANGED tables
    BY <1>3 DEF CheckContext, TypeOK
  <2> HIDE DEF q
  <2> QED
    BY <1>0, <1>1, <2>1, <2>2 DEF HeldWhole, RunPoint, Archiving, PublishPoint
<1>4. ASSUME ReadNotice(w)
      PROVE  PayloadInvariant'
  <2> DEFINE q == [req[w] EXCEPT !.at = "archiving", !.payload = req[w].row.payload,
                                 !.notice = notice]
  <2>1. /\ q.at = "archiving" /\ q.row = req[w].row /\ q.payload = req[w].row.payload
        /\ q.notice = notice /\ req[w].at = "contextChecked"
    BY <1>0, <1>4 DEF Request, ReadNotice
  <2>2. req' = [req EXCEPT ![w] = q] /\ UNCHANGED tables
    BY <1>4 DEF ReadNotice, TypeOK
  <2> HIDE DEF q
  <2> QED
    BY <1>0, <1>1, <2>1, <2>2 DEF HeldWhole, RunPoint, Archiving, PublishPoint, PayloadInvariant
<1>5. ASSUME ArchiveEvidence(w)
      PROVE  PayloadInvariant'
  <2> DEFINE files == Archivable(req[w])
             q == Linked(req[w], files)
  <2>1. /\ q.at = "archived" /\ q.row = req[w].row /\ q.notice.run = req[w].notice.run
        /\ q.notice.public = req[w].notice.public \cup files
        /\ q.payload.rule = req[w].payload.rule /\ q.payload.fields = req[w].payload.fields
        /\ q.payload.origin = req[w].payload.origin /\ q.payload.review = req[w].payload.review
        /\ q.payload.cites = req[w].payload.cites
        /\ q.payload.public = req[w].payload.public \cup files
    <3>1. q.payload = [req[w].payload EXCEPT !.public = @ \cup files]
      BY <1>0, ArchivableType, LinkedHolds
    <3> QED
      BY <1>0, <3>1, ArchivableType, LinkedHolds DEF Request, Payload
  <2>2. /\ req' = [req EXCEPT ![w] = q] /\ req[w].at = "archiving"
        /\ exposed' = exposed \cup ({req[w].payload.origin} \X files)
        /\ package' = package /\ saved' = saved /\ notice' = notice
    BY <1>5 DEF ArchiveEvidence, TypeOK, Expose
  <2>a. files = req[w].payload.cites \cap FilesOf[req[w].notice.run]
    BY DEF Archivable
  <2> HIDE DEF q, files
  <2>3. StoreGrows(w) /\ FreshFor(w, q)
    BY <2>1, <2>2 DEF StoreGrows, FreshFor, RunPoint
  <2>4. Whole(q.row.payload, exposed', saved')
    BY <1>0, <2>1, <2>3, WholeStays DEF HeldWhole
  <2>5. Whole(req[w].payload, exposed', saved') /\ saved' # {}
    BY <1>0, <2>2, <2>3, WholeStays DEF HeldWhole, Archiving, PublishPoint
  <2>6. NoticeWhole(req[w].notice, exposed', saved')
    BY <1>0, <2>2, <2>3, <2>5, WholeStays DEF HeldWhole
  <2>7. \A d \in files : <<req[w].payload.origin, d>> \in exposed'
    BY <2>2
  <2>8. NoticeWhole(q.notice, exposed', saved')
    BY <2>1, <2>6, <2>7 DEF NoticeWhole
  <2>9. Explained(q.payload, saved')
    BY <2>1, <2>a, <2>5, <2>6 DEF Explained, NoticeWhole
  <2>10. Whole(q.payload, exposed', saved')
    BY <2>1, <2>5, <2>7, <2>9 DEF Whole, RuleDefined, Served
  <2>11. HeldWhole(q, exposed', saved')
    BY <2>1, <2>4, <2>5, <2>8, <2>9, <2>10 DEF HeldWhole
  <2> QED
    BY <2>2, <2>3, <2>11, PayloadStep
<1>6. ASSUME ArchiveFails(w)
      PROVE  PayloadInvariant'
  <2>1. /\ req' = [req EXCEPT ![w] = Idle] /\ exposed \subseteq exposed'
        /\ package' = package /\ saved' = saved /\ notice' = notice
    BY <1>6 DEF ArchiveFails, Finish, Expose
  <2>2. StoreGrows(w) /\ FreshFor(w, Idle)
    BY <2>1, IdleWhole DEF StoreGrows, FreshFor, RunPoint
  <2> QED
    BY <2>1, <2>2, IdleWhole, PayloadStep
<1>7. ASSUME SaveNotice(w)
      PROVE  PayloadInvariant'
  <2> DEFINE q == [req[w] EXCEPT !.at = "noticeSaved"]
  <2>1. q.at = "noticeSaved" /\ q.row = req[w].row /\ q.payload = req[w].payload
    BY <1>0 DEF Request
  <2>2. /\ req' = [req EXCEPT ![w] = q] /\ req[w].at = "archived" /\ notice' = req[w].notice
        /\ package' = package /\ exposed' = exposed /\ saved' = saved
    BY <1>7 DEF SaveNotice, TypeOK
  <2> HIDE DEF q
  <2>3. NoticeWhole(notice', exposed', saved') /\ saved' # {}
    BY <1>0, <2>2 DEF HeldWhole, PublishPoint
  <2>4. StoreGrows(w) /\ FreshFor(w, q)
    BY <2>1, <2>2, <2>3 DEF StoreGrows, FreshFor, RunPoint
  <2>5. /\ Whole(q.row.payload, exposed', saved') /\ Whole(q.payload, exposed', saved')
        /\ Explained(q.payload, saved')
    BY <1>0, <2>1, <2>2 DEF HeldWhole, Archiving
  <2>6. HeldWhole(q, exposed', saved')
    BY <2>1, <2>3, <2>5 DEF HeldWhole
  <2> QED
    BY <2>1, <2>2, <2>4, <2>6, PayloadStep
<1>8. ASSUME ReadForPublish(w)
      PROVE  PayloadInvariant'
  <2> DEFINE q == [req[w] EXCEPT !.at = "publishRead", !.row = package[req[w].version]]
  <2>1. /\ q.at = "publishRead" /\ q.row = package[req[w].version]
        /\ q.payload = req[w].payload /\ req[w].at = "noticeSaved" /\ req[w].version \in Version
    BY <1>0, <1>8 DEF Request, ReadForPublish, Aimed, PublishPoint
  <2>2. req' = [req EXCEPT ![w] = q] /\ UNCHANGED tables
    BY <1>8 DEF ReadForPublish, TypeOK
  <2> HIDE DEF q
  <2> QED
    BY <1>0, <1>1, <2>1, <2>2 DEF HeldWhole, PayloadInvariant, RunPoint, Archiving, PublishPoint
<1>9. ASSUME CheckForPublish(w)
      PROVE  PayloadInvariant'
  <2> DEFINE q == [req[w] EXCEPT !.at = "publishChecked"]
  <2>1. /\ q.at = "publishChecked" /\ q.row = req[w].row
        /\ q.payload = req[w].payload /\ req[w].at = "publishRead"
    BY <1>0, <1>9 DEF Request, CheckForPublish
  <2>2. req' = [req EXCEPT ![w] = q] /\ UNCHANGED tables
    BY <1>9 DEF CheckForPublish, TypeOK
  <2> HIDE DEF q
  <2> QED
    BY <1>0, <1>1, <2>1, <2>2 DEF HeldWhole, RunPoint, Archiving, PublishPoint
<1>10. ASSUME Publish(w)
      PROVE  PayloadInvariant'
  <2> DEFINE v == req[w].version
             new == Decided(package[v], req[w].payload, "approved")
  <2>1. /\ v \in Version /\ package[v] \in Row /\ req[w].payload \in Payload
        /\ req[w].at = "publishChecked"
    BY <1>0, <1>10 DEF Publish, Aimed, PublishPoint, TypeOK, Request
  <2>2. Whole(new.payload, exposed, saved) /\ saved # {}
    BY <1>0, <2>1, DecidedWhole DEF HeldWhole, Archiving, Decision, PublishPoint
  <2>3. /\ req' = [req EXCEPT ![w] = Idle] /\ package' = [package EXCEPT ![v] = new]
        /\ exposed' = exposed /\ saved' = saved /\ notice' = notice
    BY <1>10 DEF Publish, Finish
  <2> HIDE DEF v, new
  <2>4. \A u \in Version : package'[u] = package[u] \/ package'[u] = new
    BY <2>3 DEF TypeOK
  <2>5. StoreGrows(w) /\ FreshFor(w, Idle)
    BY <2>3, IdleWhole DEF StoreGrows, FreshFor, RunPoint
  <2> QED
    BY <2>2, <2>3, <2>4, <2>5, IdleWhole, PayloadStep
<1> QED
  BY <1>2, <1>3, <1>4, <1>5, <1>6, <1>7, <1>8, <1>9, <1>10 DEF PublishStep

LEMMA RejectStepWhole ==
  ASSUME TypeOK, PayloadInvariant, NEW w \in Worker, RejectStep(w) \/ Abort(w)
  PROVE  PayloadInvariant'
<1>0. /\ req[w] \in Request /\ Aimed(req[w]) /\ HeldWhole(req[w], exposed, saved)
  BY DEF TypeOK, PayloadInvariant
<1>1. ASSUME NEW v \in Version, ReadForReject(w, v)
      PROVE  PayloadInvariant'
  <2> DEFINE q == [Idle EXCEPT !.at = "rejectRead", !.version = v, !.row = package[v]]
  <2>1. q.at = "rejectRead" /\ q.row = package[v]
    BY DEF Idle
  <2>2. req' = [req EXCEPT ![w] = q] /\ UNCHANGED tables
    BY <1>1 DEF ReadForReject
  <2> HIDE DEF q
  <2>3. saved # {}
    BY <1>1 DEF ReadForReject, PayloadInvariant
  <2>4. HeldWhole(q, exposed, saved) /\ FreshFor(w, q)
    BY <2>1, <2>3 DEF HeldWhole, FreshFor, PayloadInvariant, RunPoint, Archiving
  <2> QED
    BY <2>2, <2>4, PayloadHold
<1>2. ASSUME RejectPolicy(w)
      PROVE  PayloadInvariant'
  <2> DEFINE v == req[w].version
             new == Decided(package[v], req[w].row.payload, "rejected")
  <2>1. v \in Version /\ package[v] \in Row /\ req[w].row.payload \in Payload
    BY <1>0, <1>2 DEF RejectPolicy, Aimed, PublishPoint, TypeOK, Request, Row
  <2>2. Whole(new.payload, exposed, saved) /\ saved # {}
    BY <1>0, <1>2, <2>1, DecidedWhole DEF RejectPolicy, HeldWhole, Decision, PublishPoint
  <2>3. /\ req' = [req EXCEPT ![w] = Idle] /\ package' = [package EXCEPT ![v] = new]
        /\ exposed' = exposed /\ saved' = saved /\ notice' = notice
    BY <1>2 DEF RejectPolicy, Finish
  <2> HIDE DEF v, new
  <2>4. \A u \in Version : package'[u] = package[u] \/ package'[u] = new
    BY <2>3 DEF TypeOK
  <2>5. StoreGrows(w) /\ FreshFor(w, Idle)
    BY <2>3, IdleWhole DEF StoreGrows, FreshFor, RunPoint
  <2> QED
    BY <2>2, <2>3, <2>4, <2>5, IdleWhole, PayloadStep
<1>3. ASSUME Abort(w)
      PROVE  PayloadInvariant'
  <2>1. req' = [req EXCEPT ![w] = Idle] /\ UNCHANGED tables /\ FreshFor(w, Idle)
    BY <1>3, IdleWhole DEF Abort, Finish, FreshFor, RunPoint
  <2> QED
    BY <2>1, IdleWhole, PayloadHold
<1> QED
  BY <1>1, <1>2, <1>3 DEF RejectStep
-----------------------------------------------------------------------------
LEMMA InitWhole == Init => PayloadInvariant
<1> SUFFICES ASSUME Init PROVE PayloadInvariant
  OBVIOUS
<1>1. \A w \in Worker : req[w] = Idle
  BY DEF Init
<1>2. \A v \in Version : package[v].payload = NoPayload /\ package[v].status = "none"
  BY DEF Init, NoRow
<1>3. NoticeWhole(notice, exposed, saved)
  BY DEF Init, NoNotice, NoticeWhole
<1> QED
  BY <1>1, <1>2, <1>3, IdleWhole DEF PayloadInvariant, RunsAreFresh, RunPoint

LEMMA NextWhole == TypeOK /\ PayloadInvariant /\ [Next]_vars => PayloadInvariant'
<1> SUFFICES ASSUME TypeOK, PayloadInvariant, [Next]_vars PROVE PayloadInvariant'
  OBVIOUS
<1>1. CASE UNCHANGED vars
  BY <1>1 DEF vars, PayloadInvariant, RunsAreFresh
<1> QED
  BY <1>1, RunStepWhole, ReviewStepWhole, PublishStepWhole, RejectStepWhole DEF Next

\* Every policy document in a row or in a request is whole, however requests
\* overlap.
THEOREM PayloadsAreWhole == Spec => []PayloadInvariant
<1>1. Spec => []TypeOK
  BY TypeCorrect
<1> QED
  BY <1>1, InitWhole, NextWhole, PTL DEF Spec

\* No order of renames, reruns and stale writes leaves a rule with a field
\* whose definition the payload lacks.
THEOREM RulesAreDefined == Spec => []RuleFieldsDefined
<1>1. PayloadInvariant => RuleFieldsDefined
  BY DEF PayloadInvariant, Whole, RuleDefined, RuleFieldsDefined
<1> QED
  BY <1>1, PayloadsAreWhole, PTL

\* A link to the bucket is never broken, in a stale copy or after an archive
\* that failed half way.
THEOREM PublicLinksAreServed == Spec => []PublicLinksServed
<1>1. PayloadInvariant => PublicLinksServed
  BY DEF PayloadInvariant, Whole, Served, NoticeWhole, PublicLinksServed
<1> QED
  BY <1>1, PayloadsAreWhole, PTL

\* An approved payload cites a file of its run at the district's site only if
\* a stored run has found the notice without that file.
THEOREM ApprovedAreArchived == Spec => []ApprovedIsArchived
<1>1. PayloadInvariant => ApprovedIsArchived
  BY DEF PayloadInvariant, Whole, Explained, ApprovedIsArchived
<1> QED
  BY <1>1, PayloadsAreWhole, PTL
-----------------------------------------------------------------------------
(***************************************************************************)
(* Approved definitions, when transactions do not overlap: without that, a *)
(* decision may be replaced after its key has been read as approved.       *)
(***************************************************************************)
KeysHeld(q, keys) ==
    /\ q.known \subseteq keys
    /\ ApprovedIn(q.row.payload) \subseteq keys
    /\ ApprovedIn(q.payload) \subseteq keys

KeysInvariant ==
    /\ \A v \in Version : ApprovedIn(package[v].payload) \subseteq ApprovedKeys
    /\ \A w \in Worker : KeysHeld(req[w], ApprovedKeys)

\* A key that is approved stays approved.
LEMMA KeysGrow ==
  ASSUME TypeOK, TransactionInvariant, [Next]_vars
  PROVE  ApprovedKeys \subseteq ApprovedKeys'
<1> SUFFICES ASSUME NEW r \in Run, NEW k \in Field, review[r][k] = "approved"
             PROVE  review'[r][k] = "approved" /\ approvedAs'[r][k] = approvedAs[r][k]
  BY DEF ApprovedKeys
<1>1. review'[r][k] = "approved"
  BY StepIsFinal DEF Decision
<1>2. ASSUME NEW w \in Worker, req[w].at \in {"proposalRead", "flushed"}, Decide(w)
      PROVE  approvedAs'[r][k] = approvedAs[r][k]
  <2>1. review[req[w].run][req[w].key] = "pending"
    BY <1>2 DEF TransactionInvariant, RequestsOK, ReadsAreCurrent, ReviewPoint
  <2> QED
    BY <1>2, <2>1 DEF Decide, TypeOK
<1>3. ASSUME NEW w \in Worker, ReviewStep(w)
      PROVE  approvedAs'[r][k] = approvedAs[r][k]
  <2>1. ASSUME NEW keepOld \in BOOLEAN, ApproveReview(w, keepOld)
        PROVE  approvedAs'[r][k] = approvedAs[r][k]
    BY <1>2, <2>1 DEF ApproveReview
  <2>2. ASSUME RejectReview(w)
        PROVE  approvedAs'[r][k] = approvedAs[r][k]
    BY <1>2, <2>2 DEF RejectReview
  <2> QED
    BY <1>3, <2>1, <2>2
       DEF ReviewStep, ReadReview, ReadProposal, FlushAndReadPackage, tables
<1>4. ASSUME NEW w \in Worker, RunStep(w) \/ PublishStep(w) \/ RejectStep(w) \/ Abort(w)
      PROVE  approvedAs'[r][k] = approvedAs[r][k]
  BY <1>4 DEF RunStep, LoadPreviousPolicy, Analyse, SaveRead, SaveExecution, PublishStep,
     ReadContext, CheckContext, ReadNotice, ArchiveEvidence, ArchiveFails, SaveNotice,
     ReadForPublish, CheckForPublish, Publish, RejectStep, ReadForReject, RejectPolicy,
     Abort, tables
<1> QED
  BY <1>1, <1>3, <1>4 DEF Next, vars

LEMMA KeysStep ==
  ASSUME TypeOK, TransactionInvariant, KeysInvariant, [Next]_vars, NEW w \in Worker,
         NEW q, req' = [req EXCEPT ![w] = q], KeysHeld(q, ApprovedKeys'),
         \A v \in Version : \/ package'[v].payload = package[v].payload
                            \/ ApprovedIn(package'[v].payload) \subseteq ApprovedKeys'
  PROVE  KeysInvariant'
<1>1. ApprovedKeys \subseteq ApprovedKeys'
  BY KeysGrow
<1>2. ASSUME NEW v \in Version
      PROVE  ApprovedIn(package'[v].payload) \subseteq ApprovedKeys'
  <2>1. ApprovedIn(package[v].payload) \subseteq ApprovedKeys
    BY DEF KeysInvariant
  <2> QED
    BY <1>1, <2>1
<1>3. ASSUME NEW u \in Worker
      PROVE  KeysHeld(req'[u], ApprovedKeys')
  <2>1. req'[u] = IF u = w THEN q ELSE req[u]
    BY DEF TypeOK
  <2>2. KeysHeld(req[u], ApprovedKeys)
    BY DEF KeysInvariant
  <2> QED
    BY <1>1, <2>1, <2>2 DEF KeysHeld
<1> QED
  BY <1>2, <1>3 DEF KeysInvariant

\* What the operators of the handlers do to the approved definitions.
LEMMA ApprovedByOperators ==
  /\ ApprovedIn(NoPayload) = {} /\ NoRow.payload = NoPayload
  /\ Idle.known = {} /\ Idle.row = NoRow /\ Idle.payload = NoPayload
  /\ \A r \in Run, draft \in Draft : \A registry :
        ApprovedIn(Built(r, draft, registry)) \subseteq registry
  /\ \A payload \in Payload, old, new \in Field, keepOld \in BOOLEAN :
        ApprovedIn(ReplacePolicyField(payload, old, new, keepOld))
           \subseteq ApprovedIn(payload) \cup {new}
  /\ \A row \in Row, payload \in Payload : \A verdict :
        ApprovedIn(Decided(row, payload, verdict).payload) = ApprovedIn(payload)
<1>1. /\ ApprovedIn(NoPayload) = {} /\ NoRow.payload = NoPayload
      /\ Idle.known = {} /\ Idle.row = NoRow /\ Idle.payload = NoPayload
  BY DEF ApprovedIn, NoPayload, NoRow, Idle
<1>2. \A r \in Run, draft \in Draft : \A registry :
        ApprovedIn(Built(r, draft, registry)) \subseteq registry
  BY DEF ApprovedIn, Built
<1>3. ASSUME NEW payload \in Payload, NEW old \in Field, NEW new \in Field, NEW keepOld \in BOOLEAN
      PROVE  ApprovedIn(ReplacePolicyField(payload, old, new, keepOld))
                \subseteq ApprovedIn(payload) \cup {new}
  <2>1. payload.fields \in [Field -> FieldState]
    BY DEF Payload
  <2>2. ReplacePolicyField(payload, old, new, keepOld).fields
          = ReplaceField(payload.fields, old, new, keepOld)
    BY DEF ReplacePolicyField, Payload
  <2> QED
    BY <2>1, <2>2 DEF ReplaceField, ApprovedIn
<1>4. ASSUME NEW row \in Row, NEW payload \in Payload, NEW verdict
      PROVE  ApprovedIn(Decided(row, payload, verdict).payload) = ApprovedIn(payload)
  BY DEF Decided, ApprovedIn, Row, Payload
<1> QED
  BY <1>1, <1>2, <1>3, <1>4

\* A step that only changes what a request holds.
LEMMA KeysHold ==
  ASSUME TypeOK, TransactionInvariant, KeysInvariant, [Next]_vars, NEW w \in Worker,
         NEW q, req' = [req EXCEPT ![w] = q], UNCHANGED package, KeysHeld(q, ApprovedKeys)
  PROVE  KeysInvariant'
<1>1. KeysHeld(q, ApprovedKeys')
  BY KeysGrow DEF KeysHeld
<1> QED
  BY <1>1, KeysStep

LEMMA RunStepKeys ==
  ASSUME TypeOK, TransactionInvariant, KeysInvariant, [Next]_vars, NEW w \in Worker,
         RunStep(w)
  PROVE  KeysInvariant'
<1>0. req[w] \in Request /\ Aimed(req[w]) /\ KeysHeld(req[w], ApprovedKeys)
  BY DEF TypeOK, KeysInvariant
<1>1. ASSUME NEW r \in Run, NEW previous \in 0..(MaxVersion - 1),
             LoadPreviousPolicy(w, r, previous)
      PROVE  KeysInvariant'
  <2> DEFINE known == IF previous = 0 THEN {} ELSE ApprovedIn(package[previous].payload)
             q == [Idle EXCEPT !.at = "loaded", !.run = r,
                               !.version = previous + 1, !.known = known]
  <2>1. q.known = known /\ q.row = Idle.row /\ q.payload = Idle.payload
    BY DEF Idle
  <2>2. known \subseteq ApprovedKeys
    BY ConstantAssumption DEF KeysInvariant, Version
  <2>3. req' = [req EXCEPT ![w] = q] /\ UNCHANGED package
    BY <1>1 DEF LoadPreviousPolicy, tables
  <2> HIDE DEF q, known
  <2>4. KeysHeld(q, ApprovedKeys)
    BY <2>1, <2>2, ApprovedByOperators DEF KeysHeld
  <2> QED
    BY <2>3, <2>4, KeysHold
<1>2. ASSUME NEW draft \in Draft, Analyse(w, draft)
      PROVE  KeysInvariant'
  <2> DEFINE registry == req[w].known \cup ApprovedKeys
             built == Built(req[w].run, draft, registry)
             q == [req[w] EXCEPT !.at = "analysed", !.payload = built]
  <2>1. q.known = req[w].known /\ q.row = req[w].row /\ q.payload = built /\ req[w].run \in Run
    BY <1>0, <1>2 DEF Request, Analyse, Aimed, RunPoint
  <2>2. ApprovedIn(built) \subseteq ApprovedKeys
    BY <1>0, <2>1, ApprovedByOperators DEF KeysHeld
  <2>3. req' = [req EXCEPT ![w] = q] /\ UNCHANGED package
    BY <1>2 DEF Analyse, TypeOK, tables
  <2> HIDE DEF q, built
  <2>4. KeysHeld(q, ApprovedKeys)
    BY <1>0, <2>1, <2>2 DEF KeysHeld
  <2> QED
    BY <2>3, <2>4, KeysHold
<1>3. ASSUME SaveRead(w)
      PROVE  KeysInvariant'
  <2> DEFINE q == [req[w] EXCEPT !.at = "saving", !.row = package[req[w].version]]
  <2>1. /\ q.known = req[w].known /\ q.row = package[req[w].version] /\ q.payload = req[w].payload
        /\ req[w].version \in Version
    BY <1>0, <1>3 DEF Request, SaveRead, Aimed, RunPoint
  <2>2. req' = [req EXCEPT ![w] = q] /\ UNCHANGED package
    BY <1>3 DEF SaveRead, TypeOK, tables
  <2> HIDE DEF q
  <2>3. KeysHeld(q, ApprovedKeys)
    BY <1>0, <2>1 DEF KeysHeld, KeysInvariant
  <2> QED
    BY <2>2, <2>3, KeysHold
<1>4. ASSUME SaveExecution(w)
      PROVE  KeysInvariant'
  <2> DEFINE v == req[w].version
             new == Merged(package[v], req[w].row, req[w].run, req[w].payload)
  <2>1. new.payload = req[w].payload
    BY DEF Merged
  <2>2. /\ req' = [req EXCEPT ![w] = Idle]
        /\ package' = package \/ package' = [package EXCEPT ![v] = new]
    BY <1>4 DEF SaveExecution, Finish
  <2> HIDE DEF v, new
  <2>3. \A u \in Version : package'[u] = package[u] \/ package'[u] = new
    BY <2>2 DEF TypeOK
  <2>4. ApprovedIn(new.payload) \subseteq ApprovedKeys'
    BY <1>0, <2>1, KeysGrow DEF KeysHeld
  <2>5. KeysHeld(Idle, ApprovedKeys')
    BY ApprovedByOperators DEF KeysHeld
  <2> QED
    BY <2>2, <2>3, <2>4, <2>5, KeysStep
<1> QED
  BY <1>1, <1>2, <1>3, <1>4 DEF RunStep

LEMMA ReviewStepKeys ==
  ASSUME TypeOK, TransactionInvariant, KeysInvariant, [Next]_vars, NEW w \in Worker,
         ReviewStep(w)
  PROVE  KeysInvariant'
<1>0. /\ req[w] \in Request /\ Aimed(req[w]) /\ KeysHeld(req[w], ApprovedKeys)
      /\ req[w].row.payload \in Payload
  BY DEF TypeOK, KeysInvariant, Request, Row
<1>1. ASSUME NEW r \in Run, NEW k \in Field, NEW decision \in Decision, NEW as \in Field,
             ReadReview(w, r, k, decision, as)
      PROVE  KeysInvariant'
  <2> DEFINE q == [Idle EXCEPT !.at = "reviewRead", !.run = r, !.key = k,
                               !.decision = decision, !.as = as]
  <2>1. q.known = Idle.known /\ q.row = Idle.row /\ q.payload = Idle.payload
    BY DEF Idle
  <2>2. req' = [req EXCEPT ![w] = q] /\ UNCHANGED package
    BY <1>1 DEF ReadReview, TypeOK, tables
  <2> HIDE DEF q
  <2>3. KeysHeld(q, ApprovedKeys)
    BY <2>1, ApprovedByOperators DEF KeysHeld
  <2> QED
    BY <2>2, <2>3, KeysHold
<1>2. ASSUME ReadProposal(w)
      PROVE  KeysInvariant'
  <2> DEFINE q == [req[w] EXCEPT !.at = "proposalRead",
                                 !.prior = proposal[req[w].run][req[w].key]]
  <2>1. q.known = req[w].known /\ q.row = req[w].row /\ q.payload = req[w].payload
    BY <1>0 DEF Request
  <2>2. req' = [req EXCEPT ![w] = q] /\ UNCHANGED package
    BY <1>2 DEF ReadProposal, TypeOK, tables
  <2> HIDE DEF q
  <2>3. KeysHeld(q, ApprovedKeys)
    BY <1>0, <2>1 DEF KeysHeld
  <2> QED
    BY <2>2, <2>3, KeysHold
<1>3. ASSUME FlushAndReadPackage(w)
      PROVE  KeysInvariant'
  <2> DEFINE v == VersionOf(req[w].run)
             q == [req[w] EXCEPT !.at = "flushed", !.version = v,
                                 !.row = IF v = 0 THEN NoRow ELSE package[v]]
  <2>1. /\ q.known = req[w].known /\ q.payload = req[w].payload
        /\ q.row = IF v = 0 THEN NoRow ELSE package[v]
    BY <1>0 DEF Request
  <2>2. req' = [req EXCEPT ![w] = q] /\ UNCHANGED package
    BY <1>3 DEF FlushAndReadPackage, TypeOK, tables
  <2>3. v = 0 \/ v \in Version
    BY DEF VersionOf
  <2> HIDE DEF q, v
  <2>4. KeysHeld(q, ApprovedKeys)
    BY <1>0, <2>1, <2>3, ApprovedByOperators DEF KeysHeld, KeysInvariant
  <2> QED
    BY <2>2, <2>4, KeysHold
<1>4. ASSUME NEW keepOld \in BOOLEAN, ApproveReview(w, keepOld)
      PROVE  KeysInvariant'
  <2> DEFINE v == req[w].version
             new == req[w].as
             updated == ReplacePolicyField(req[w].row.payload, req[w].key, new, keepOld)
  <2>1. ApprovedIn(updated) \subseteq ApprovedKeys \cup {new}
    BY <1>0, ApprovedByOperators DEF KeysHeld, Request
  <2>2. new \in ApprovedKeys'
    <3>1. /\ req[w].run \in Run /\ req[w].key \in Field /\ new \in Field
          /\ req[w].at = "flushed" /\ req[w].decision = "approved"
      BY <1>0, <1>4 DEF ApproveReview, Aimed, ReviewPoint, Request, TransactionInvariant,
         RequestsOK, ReadsAreCurrent
    <3>2. /\ review'[req[w].run][req[w].key] = "approved"
          /\ approvedAs'[req[w].run][req[w].key] = new
      BY <1>4, <3>1 DEF ApproveReview, Decide, TypeOK
    <3> QED
      BY <3>1, <3>2 DEF ApprovedKeys
  <2>3. /\ req' = [req EXCEPT ![w] = Idle]
        /\ package' = package \/ package' = [package EXCEPT ![v].payload = updated]
    BY <1>4 DEF ApproveReview, Finish
  <2> HIDE DEF v, new, updated
  <2>4. \A u \in Version : package'[u].payload = package[u].payload \/ package'[u].payload = updated
    BY <2>3 DEF TypeOK, Row
  <2>5. ApprovedIn(updated) \subseteq ApprovedKeys'
    BY <2>1, <2>2, KeysGrow
  <2>6. KeysHeld(Idle, ApprovedKeys')
    BY ApprovedByOperators DEF KeysHeld
  <2> QED
    BY <2>3, <2>4, <2>5, <2>6, KeysStep
<1>5. ASSUME RejectReview(w)
      PROVE  KeysInvariant'
  BY <1>5, ApprovedByOperators, KeysHold DEF RejectReview, Finish, KeysHeld
<1> QED
  BY <1>1, <1>2, <1>3, <1>4, <1>5 DEF ReviewStep

LEMMA PublishStepKeys ==
  ASSUME TypeOK, TransactionInvariant, KeysInvariant, [Next]_vars, NEW w \in Worker,
         PublishStep(w)
  PROVE  KeysInvariant'
<1>0. req[w] \in Request /\ Aimed(req[w]) /\ KeysHeld(req[w], ApprovedKeys)
  BY DEF TypeOK, KeysInvariant
<1>1. ASSUME NEW v \in Version, ReadContext(w, v)
      PROVE  KeysInvariant'
  <2> DEFINE q == [Idle EXCEPT !.at = "contextRead", !.version = v, !.row = package[v]]
  <2>1. q.known = Idle.known /\ q.row = package[v] /\ q.payload = Idle.payload
    BY DEF Idle
  <2>2. req' = [req EXCEPT ![w] = q] /\ UNCHANGED package
    BY <1>1 DEF ReadContext, TypeOK, tables
  <2> HIDE DEF q
  <2>3. KeysHeld(q, ApprovedKeys)
    BY <2>1, ApprovedByOperators DEF KeysHeld, KeysInvariant
  <2> QED
    BY <2>2, <2>3, KeysHold
<1>2. ASSUME CheckContext(w)
      PROVE  KeysInvariant'
  <2> DEFINE q == [req[w] EXCEPT !.at = "contextChecked"]
  <2>1. q.known = req[w].known /\ q.row = req[w].row /\ q.payload = req[w].payload
    BY <1>0 DEF Request
  <2>2. req' = [req EXCEPT ![w] = q] /\ UNCHANGED package
    BY <1>2 DEF CheckContext, TypeOK, tables
  <2> HIDE DEF q
  <2>3. KeysHeld(q, ApprovedKeys)
    BY <1>0, <2>1 DEF KeysHeld
  <2> QED
    BY <2>2, <2>3, KeysHold
<1>3. ASSUME ReadNotice(w)
      PROVE  KeysInvariant'
  <2> DEFINE q == [req[w] EXCEPT !.at = "archiving", !.payload = req[w].row.payload,
                                 !.notice = notice]
  <2>1. q.known = req[w].known /\ q.row = req[w].row /\ q.payload = req[w].row.payload
    BY <1>0 DEF Request
  <2>2. req' = [req EXCEPT ![w] = q] /\ UNCHANGED package
    BY <1>3 DEF ReadNotice, TypeOK, tables
  <2> HIDE DEF q
  <2>3. KeysHeld(q, ApprovedKeys)
    BY <1>0, <2>1 DEF KeysHeld
  <2> QED
    BY <2>2, <2>3, KeysHold
<1>4. ASSUME ArchiveEvidence(w)
      PROVE  KeysInvariant'
  <2> DEFINE q == Linked(req[w], Archivable(req[w]))
  <2>1. q.known = req[w].known /\ q.row = req[w].row /\ q.payload.fields = req[w].payload.fields
    BY <1>0, ArchivableType, LinkedHolds
  <2>2. req' = [req EXCEPT ![w] = q] /\ UNCHANGED package
    BY <1>4 DEF ArchiveEvidence, TypeOK, tables
  <2> HIDE DEF q
  <2>3. KeysHeld(q, ApprovedKeys)
    BY <1>0, <2>1 DEF KeysHeld, ApprovedIn
  <2> QED
    BY <2>2, <2>3, KeysHold
<1>5. ASSUME ArchiveFails(w)
      PROVE  KeysInvariant'
  BY <1>5, ApprovedByOperators, KeysHold DEF ArchiveFails, Finish, KeysHeld
<1>6. ASSUME SaveNotice(w)
      PROVE  KeysInvariant'
  <2> DEFINE q == [req[w] EXCEPT !.at = "noticeSaved"]
  <2>1. q.known = req[w].known /\ q.row = req[w].row /\ q.payload = req[w].payload
    BY <1>0 DEF Request
  <2>2. req' = [req EXCEPT ![w] = q] /\ UNCHANGED package
    BY <1>6 DEF SaveNotice, TypeOK, tables
  <2> HIDE DEF q
  <2>3. KeysHeld(q, ApprovedKeys)
    BY <1>0, <2>1 DEF KeysHeld
  <2> QED
    BY <2>2, <2>3, KeysHold
<1>7. ASSUME ReadForPublish(w)
      PROVE  KeysInvariant'
  <2> DEFINE q == [req[w] EXCEPT !.at = "publishRead", !.row = package[req[w].version]]
  <2>1. /\ q.known = req[w].known /\ q.row = package[req[w].version] /\ q.payload = req[w].payload
        /\ req[w].version \in Version
    BY <1>0, <1>7 DEF Request, ReadForPublish, Aimed, PublishPoint
  <2>2. req' = [req EXCEPT ![w] = q] /\ UNCHANGED package
    BY <1>7 DEF ReadForPublish, TypeOK, tables
  <2> HIDE DEF q
  <2>3. KeysHeld(q, ApprovedKeys)
    BY <1>0, <2>1 DEF KeysHeld, KeysInvariant
  <2> QED
    BY <2>2, <2>3, KeysHold
<1>8. ASSUME CheckForPublish(w)
      PROVE  KeysInvariant'
  <2> DEFINE q == [req[w] EXCEPT !.at = "publishChecked"]
  <2>1. q.known = req[w].known /\ q.row = req[w].row /\ q.payload = req[w].payload
    BY <1>0 DEF Request
  <2>2. req' = [req EXCEPT ![w] = q] /\ UNCHANGED package
    BY <1>8 DEF CheckForPublish, TypeOK, tables
  <2> HIDE DEF q
  <2>3. KeysHeld(q, ApprovedKeys)
    BY <1>0, <2>1 DEF KeysHeld
  <2> QED
    BY <2>2, <2>3, KeysHold
<1>9. ASSUME Publish(w)
      PROVE  KeysInvariant'
  <2> DEFINE v == req[w].version
             new == Decided(package[v], req[w].payload, "approved")
  <2>1. /\ v \in Version /\ package[v] \in Row /\ req[w].payload \in Payload
    BY <1>0, <1>9 DEF Publish, Aimed, PublishPoint, TypeOK, Request
  <2>2. ApprovedIn(new.payload) \subseteq ApprovedKeys'
    BY <1>0, <2>1, ApprovedByOperators, KeysGrow DEF KeysHeld
  <2>3. req' = [req EXCEPT ![w] = Idle] /\ package' = [package EXCEPT ![v] = new]
    BY <1>9 DEF Publish, Finish
  <2> HIDE DEF v, new
  <2>4. \A u \in Version : package'[u] = package[u] \/ package'[u] = new
    BY <2>3 DEF TypeOK
  <2>5. KeysHeld(Idle, ApprovedKeys')
    BY ApprovedByOperators DEF KeysHeld
  <2> QED
    BY <2>2, <2>3, <2>4, <2>5, KeysStep
<1> QED
  BY <1>1, <1>2, <1>3, <1>4, <1>5, <1>6, <1>7, <1>8, <1>9 DEF PublishStep

LEMMA RejectStepKeys ==
  ASSUME TypeOK, TransactionInvariant, KeysInvariant, [Next]_vars, NEW w \in Worker,
         RejectStep(w) \/ Abort(w)
  PROVE  KeysInvariant'
<1>0. req[w] \in Request /\ Aimed(req[w]) /\ KeysHeld(req[w], ApprovedKeys)
  BY DEF TypeOK, KeysInvariant
<1>1. ASSUME NEW v \in Version, ReadForReject(w, v)
      PROVE  KeysInvariant'
  <2> DEFINE q == [Idle EXCEPT !.at = "rejectRead", !.version = v, !.row = package[v]]
  <2>1. q.known = Idle.known /\ q.row = package[v] /\ q.payload = Idle.payload
    BY DEF Idle
  <2>2. req' = [req EXCEPT ![w] = q] /\ UNCHANGED package
    BY <1>1 DEF ReadForReject, TypeOK, tables
  <2> HIDE DEF q
  <2>3. KeysHeld(q, ApprovedKeys)
    BY <2>1, ApprovedByOperators DEF KeysHeld, KeysInvariant
  <2> QED
    BY <2>2, <2>3, KeysHold
<1>2. ASSUME RejectPolicy(w)
      PROVE  KeysInvariant'
  <2> DEFINE v == req[w].version
             new == Decided(package[v], req[w].row.payload, "rejected")
  <2>1. /\ v \in Version /\ package[v] \in Row /\ req[w].row.payload \in Payload
    BY <1>0, <1>2 DEF RejectPolicy, Aimed, PublishPoint, TypeOK, Request, Row
  <2>2. ApprovedIn(new.payload) \subseteq ApprovedKeys'
    BY <1>0, <2>1, ApprovedByOperators, KeysGrow DEF KeysHeld
  <2>3. req' = [req EXCEPT ![w] = Idle] /\ package' = [package EXCEPT ![v] = new]
    BY <1>2 DEF RejectPolicy, Finish
  <2> HIDE DEF v, new
  <2>4. \A u \in Version : package'[u] = package[u] \/ package'[u] = new
    BY <2>3 DEF TypeOK
  <2>5. KeysHeld(Idle, ApprovedKeys')
    BY ApprovedByOperators DEF KeysHeld
  <2> QED
    BY <2>2, <2>3, <2>4, <2>5, KeysStep
<1>3. ASSUME Abort(w)
      PROVE  KeysInvariant'
  BY <1>3, ApprovedByOperators, KeysHold DEF Abort, Finish, KeysHeld, tables
<1> QED
  BY <1>1, <1>2, <1>3 DEF RejectStep

LEMMA KeysInvariantHolds == Isolation # "statement" => (Spec => []KeysInvariant)
<1> SUFFICES ASSUME Isolation # "statement" PROVE Spec => []KeysInvariant
  OBVIOUS
<1>1. Init => KeysInvariant
  <2> SUFFICES ASSUME Init PROVE KeysInvariant
    OBVIOUS
  <2>1. /\ \A v \in Version : package[v] = NoRow
        /\ \A w \in Worker : req[w] = Idle
    BY DEF Init
  <2> QED
    BY <2>1, ApprovedByOperators DEF KeysInvariant, KeysHeld
<1>2. TypeOK /\ TransactionInvariant /\ KeysInvariant /\ [Next]_vars => KeysInvariant'
  <2>1. UNCHANGED vars /\ KeysInvariant => KeysInvariant'
    BY DEF vars, KeysInvariant, KeysHeld, ApprovedKeys
  <2> QED
    BY <2>1, RunStepKeys, ReviewStepKeys, PublishStepKeys, RejectStepKeys DEF Next
<1>3. Spec => [](TypeOK /\ TransactionInvariant)
  BY InvariantHolds
<1> QED
  BY <1>1, <1>2, <1>3, PTL DEF Spec

\* Every approved definition that reaches a citizen was approved under that
\* key, by whatever path it came into the payload.
THEOREM PublishedKeysAreCleared == Isolation # "statement" => (Spec => []PublishedKeysCleared)
<1>1. KeysInvariant => PublishedKeysCleared
  BY DEF KeysInvariant, PublishedKeysCleared
<1> QED
  BY <1>1, KeysInvariantHolds, PTL
=============================================================================
