------------------------ MODULE PolicyContractProofs ------------------------
(***************************************************************************)
(* PolicyReview implements PublicationContract when transactions do not    *)
(* overlap: its initial states map to initial states of the contract, and  *)
(* each of its steps to a submission, a decision, a showing or a stutter.  *)
(***************************************************************************)
EXTENDS PolicyPayloadProofs

Item == Run \X Field

\* The state of the contract.
DecisionOf == [i \in Item |-> review[i[1]][i[2]]]

KeyOf == [i \in Item |-> approvedAs[i[1]][i[2]]]

ShownOf == [v \in Version |-> Shown(v)]

\* Next of the contract, by its definitions.
LEMMA ContractStep ==
  ASSUME \/ UNCHANGED <<DecisionOf, KeyOf, ShownOf>>
         \/ \E items \in SUBSET Item, version \in Version :
               Contract!Submit(items, version)
         \/ \E i \in Item, verdict \in Decision, key \in Field :
               Contract!Decide(i, verdict, key)
         \/ \E version \in Version, keys \in SUBSET Field :
               Contract!Show(version, keys)
  PROVE  [Contract!Next]_Contract!vars
BY DEF Contract!Next, Contract!vars, Contract!Decided, DecisionOf, KeyOf, ShownOf, Item, Decision

\* What a step leaves alone keeps its meaning.
LEMMA SameShown ==
  ASSUME NEW v \in Version,
         package'[v] = package[v] \/ (~Listed(v) /\ package'[v].status # "approved")
  PROVE  Shown(v)' = Shown(v)
BY DEF Shown, Visible, Listed

LEMMA Quiet ==
  ASSUME UNCHANGED <<review, approvedAs>>,
         \A v \in Version :
            package'[v] = package[v] \/ (~Listed(v) /\ package'[v].status # "approved")
  PROVE  UNCHANGED <<DecisionOf, KeyOf, ShownOf>>
BY SameShown DEF DecisionOf, KeyOf, ShownOf
-----------------------------------------------------------------------------
\* The end of an agent run submits the definitions it proposes.
LEMMA SaveSubmits ==
  ASSUME TypeOK, TransactionInvariant, NEW w \in Worker, SaveExecution(w)
  PROVE  \E items \in SUBSET Item, version \in Version : Contract!Submit(items, version)
<1> DEFINE r == req[w].run
           v == req[w].version
           pending == {k \in Field : req[w].payload.fields[k] = "pending"}
           items == {i \in Item : i[1] = r /\ i[2] \in pending}
<1>1. /\ r \in Run /\ r \notin saved /\ v \in Version /\ req[w].row = package[v]
  BY DEF SaveExecution, TypeOK, Aimed, RunPoint, TransactionInvariant, RunsAreFresh,
     RequestsOK, ReadsAreCurrent
<1>2. \A k \in Field : review[r][k] = "none"
  BY <1>1 DEF TransactionInvariant, StoredRuns, ReviewAgreesWithProposal
<1>3. /\ review' = [review EXCEPT ![r] = [k \in Field |-> IF k \in pending THEN "pending" ELSE "none"]]
      /\ approvedAs' = approvedAs
      /\ \/ package' = package
         \/ package' = [package EXCEPT ![v] = Merged(package[v], package[v], r, req[w].payload)]
  BY <1>1 DEF SaveExecution
<1>4. \A i \in items : review[i[1]][i[2]] = "none"
  BY <1>2
<1>5. \A i \in Item : review'[i[1]][i[2]] = IF i \in items THEN "pending" ELSE review[i[1]][i[2]]
  BY <1>1, <1>2, <1>3 DEF Item, TypeOK
<1>6. ShownOf' = ShownOf \/ ShownOf' = [ShownOf EXCEPT ![v] = {}]
  <2>1. CASE package' = package
    BY <2>1 DEF ShownOf, Shown, Visible, Listed
  <2>2. CASE package' = [package EXCEPT ![v] = Merged(package[v], package[v], r, req[w].payload)]
    <3>1. Merged(package[v], package[v], r, req[w].payload).status = "pending"
      BY DEF Merged
    <3>2. package'[v].status = "pending" /\ \A u \in Version \ {v} : package'[u] = package[u]
      BY <1>1, <2>2, <3>1 DEF TypeOK
    <3> HIDE DEF v, r
    <3>3. ASSUME NEW u \in Version PROVE Shown(u)' = IF u = v THEN {} ELSE Shown(u)
      <4>1. CASE u = v
        BY <3>2, <4>1 DEF Shown, Visible, Listed
      <4>2. CASE u # v
        BY <3>2, <4>2 DEF Shown, Visible, Listed
      <4> QED
        BY <4>1, <4>2
    <3> QED
      BY <1>1, <3>3 DEF ShownOf
  <2> QED
    BY <1>3, <2>1, <2>2
<1>7. /\ \A i \in items : DecisionOf[i] = "none"
      /\ DecisionOf' = [i \in Item |-> IF i \in items THEN "pending" ELSE DecisionOf[i]]
      /\ KeyOf' = KeyOf
  BY <1>3, <1>4, <1>5 DEF DecisionOf, KeyOf
<1>8. PICK opened \in SUBSET Item, version \in Version : opened = items /\ version = v
  BY <1>1
<1> HIDE DEF items, v
<1>9. Contract!Submit(opened, version)
  BY <1>6, <1>7, <1>8 DEF Contract!Submit, DecisionOf, KeyOf, ShownOf, Item
<1> QED
  BY <1>9

\* The commit of a decision decides one item, and shows or hides nothing: a
\* version whose run has an open review is not listed.
LEMMA DecideDecides ==
  ASSUME TypeOK, TransactionInvariant, NEW w \in Worker,
         req[w].at \in {"proposalRead", "flushed"}, Decide(w),
         \A v \in Version :
            \/ package'[v] = package[v]
            \/ package[v].run = req[w].run /\ package'[v].status = package[v].status
  PROVE  \E i \in Item, verdict \in Decision, key \in Field : Contract!Decide(i, verdict, key)
<1> DEFINE r == req[w].run
           k == req[w].key
           i == <<r, k>>
           verdict == req[w].decision
           key == req[w].as
<1>1. r \in Run /\ k \in Field /\ verdict \in Decision /\ key \in Field
  BY DEF TypeOK, Aimed, ReviewPoint, Request
<1>2. review[r][k] = "pending" /\ proposal[r][k] = "pending"
  BY <1>1, DecideFacts DEF TransactionInvariant, ReviewAgreesWithProposal
<1>3. review' = [review EXCEPT ![r][k] = verdict] /\ approvedAs' = [approvedAs EXCEPT ![r][k] = key]
  BY DEF Decide
<1>4. i \in Item /\ i[1] = r /\ i[2] = k
  BY <1>1 DEF Item
<1>5. ASSUME NEW v \in Version PROVE Shown(v)' = Shown(v)
  <2>1. CASE package'[v] = package[v]
    BY <2>1, SameShown
  <2>2. CASE package[v].run = r /\ package'[v].status = package[v].status
    <3>1. ~Listed(v)
      BY <1>1, <1>2, <2>2
         DEF TransactionInvariant, PublishedReviewsApproved, AllProposalsApproved
    <3> QED
      BY <2>2, <3>1, SameShown DEF Listed
  <2> QED
    BY <2>1, <2>2
<1>6. \A j \in Item : /\ review'[j[1]][j[2]] = IF j = i THEN verdict ELSE review[j[1]][j[2]]
                     /\ approvedAs'[j[1]][j[2]] = IF j = i THEN key ELSE approvedAs[j[1]][j[2]]
  <2> SUFFICES ASSUME NEW s \in Run, NEW l \in Field
               PROVE  /\ review'[s][l] = IF s = r /\ l = k THEN verdict ELSE review[s][l]
                      /\ approvedAs'[s][l] = IF s = r /\ l = k THEN key ELSE approvedAs[s][l]
    BY DEF Item
  <2> HIDE DEF r, k, verdict, key
  <2> QED
    BY <1>1, <1>3 DEF TypeOK
<1>7. /\ DecisionOf[i] = "pending"
      /\ DecisionOf' = [DecisionOf EXCEPT ![i] = verdict]
      /\ KeyOf' = [KeyOf EXCEPT ![i] = key]
      /\ ShownOf' = ShownOf
  <2>1. ShownOf' = ShownOf
    BY <1>5 DEF ShownOf
  <2>2. DecisionOf[i] = "pending"
    BY <1>2, <1>4 DEF DecisionOf
  <2> HIDE DEF i, verdict, key
  <2>3. DecisionOf' = [DecisionOf EXCEPT ![i] = verdict] /\ KeyOf' = [KeyOf EXCEPT ![i] = key]
    BY <1>4, <1>6 DEF DecisionOf, KeyOf
  <2> QED
    BY <2>1, <2>2, <2>3
<1>8. PICK item \in Item, given \in Decision, under \in Field :
          item = i /\ given = verdict /\ under = key
  BY <1>1, <1>4
<1> HIDE DEF i, verdict, key
<1>9. Contract!Decide(item, given, under)
  BY <1>7, <1>8 DEF Contract!Decide, DecisionOf, KeyOf, ShownOf, Item
<1> QED
  BY <1>9

\* The last write of a publication shows definitions that are all cleared.
LEMMA PublishShows ==
  ASSUME TypeOK, TransactionInvariant, KeysInvariant, NEW w \in Worker, Publish(w)
  PROVE  \E version \in Version, keys \in SUBSET Field : Contract!Show(version, keys)
<1> DEFINE v == req[w].version
           p == req[w].payload
           new == Decided(package[v], p, "approved")
           keys == {k \in Field : p.fields[k] # "absent"}
<1>1. /\ v \in Version /\ req[w].row = package[v] /\ package[v].status = "pending"
      /\ p \in Payload /\ package[v] \in Row
      /\ \A k \in Field : p.fields[k] # "pending"
  BY DEF Publish, TypeOK, Aimed, PublishPoint, Request, TransactionInvariant, RequestsOK,
     ReadsAreCurrent, HeldPayload
<1>2. /\ review' = review /\ approvedAs' = approvedAs /\ package' = [package EXCEPT ![v] = new]
  BY DEF Publish
<1>3. new.status = "approved" /\ new.payload.review = "approved" /\ new.payload.fields = p.fields
  BY <1>1 DEF Decided, Row, Payload
<1>4. keys \subseteq ApprovedKeys
  <2>1. keys \subseteq ApprovedIn(p)
    BY <1>1 DEF Payload, FieldState, ApprovedIn
  <2>2. ApprovedIn(p) \subseteq ApprovedKeys
    BY DEF KeysInvariant, KeysHeld
  <2> QED
    BY <2>1, <2>2
<1>5. package'[v] = new /\ \A u \in Version \ {v} : package'[u] = package[u]
  BY <1>1, <1>2 DEF TypeOK
<1>6. Shown(v) = {}
  BY <1>1 DEF Shown, Visible, Listed
<1>7. Contract!Cleared = ApprovedKeys
  <2>1. ASSUME NEW key \in Field
        PROVE  (\E i \in Item : DecisionOf[i] = "approved" /\ KeyOf[i] = key)
                 <=> \E r \in Run, k \in Field : review[r][k] = "approved" /\ approvedAs[r][k] = key
    <3>1. \A i \in Item : DecisionOf[i] = review[i[1]][i[2]] /\ KeyOf[i] = approvedAs[i[1]][i[2]]
      BY DEF DecisionOf, KeyOf
    <3>2. \A r \in Run, k \in Field : <<r, k>> \in Item /\ <<r, k>>[1] = r /\ <<r, k>>[2] = k
      BY DEF Item
    <3>3. \A i \in Item : i[1] \in Run /\ i[2] \in Field
      BY DEF Item
    <3>4. ASSUME NEW i \in Item, DecisionOf[i] = "approved", KeyOf[i] = key
          PROVE  \E r \in Run, k \in Field : review[r][k] = "approved" /\ approvedAs[r][k] = key
      BY <3>1, <3>3, <3>4
    <3>5. ASSUME NEW r \in Run, NEW k \in Field, review[r][k] = "approved", approvedAs[r][k] = key
          PROVE  \E i \in Item : DecisionOf[i] = "approved" /\ KeyOf[i] = key
      <4>1. PICK i \in Item : i[1] = r /\ i[2] = k
        BY <3>2
      <4> QED
        BY <3>1, <3>5, <4>1
    <3> QED
      BY <3>4, <3>5
  <2> QED
    BY <2>1 DEF Contract!Cleared, ApprovedKeys, DecisionOf, KeyOf, Item
<1>8. PICK version \in Version, given \in SUBSET Field : version = v /\ given = keys
  BY <1>1
<1>9. Shown(version)' = given
  BY <1>3, <1>5, <1>8 DEF Shown, Visible, Listed
<1>10. \A u \in Version \ {version} : Shown(u)' = Shown(u)
  BY <1>5, <1>8, SameShown
<1>11. /\ ShownOf[version] = {} /\ ShownOf' = [ShownOf EXCEPT ![version] = given]
       /\ DecisionOf' = DecisionOf /\ KeyOf' = KeyOf
  BY <1>2, <1>6, <1>8, <1>9, <1>10 DEF ShownOf, DecisionOf, KeyOf
<1> HIDE DEF v, keys
<1>12. Contract!Show(version, given)
  BY <1>4, <1>7, <1>8, <1>11 DEF Contract!Show, DecisionOf, KeyOf, ShownOf, Item
<1> QED
  BY <1>12
-----------------------------------------------------------------------------
\* The other steps are stutters of the contract.
LEMMA StepRefines ==
  ASSUME TypeOK, TransactionInvariant, KeysInvariant, [Next]_vars
  PROVE  [Contract!Next]_Contract!vars
<1>1. ASSUME NEW w \in Worker, RunStep(w) PROVE [Contract!Next]_Contract!vars
  <2>1. CASE SaveExecution(w)
    BY <2>1, SaveSubmits, ContractStep
  <2>2. CASE ~SaveExecution(w)
    BY <1>1, <2>2, Quiet, ContractStep DEF RunStep, LoadPreviousPolicy, Analyse, SaveRead, tables
  <2> QED
    BY <2>1, <2>2
<1>2. ASSUME NEW w \in Worker, ReviewStep(w) PROVE [Contract!Next]_Contract!vars
  <2>1. ASSUME NEW keepOld \in BOOLEAN, ApproveReview(w, keepOld)
        PROVE  [Contract!Next]_Contract!vars
    <3> DEFINE v == req[w].version
    <3>1. v # 0 => v \in Version /\ package[v].run = req[w].run
      BY <2>1, VersionInRange
         DEF ApproveReview, TransactionInvariant, RequestsOK, ReadsAreCurrent
    <3>2. \A u \in Version : \/ package'[u] = package[u]
                            \/ /\ package[u].run = req[w].run
                               /\ package'[u].status = package[u].status
      BY <2>1, <3>1 DEF ApproveReview, TypeOK, Row
    <3>3. req[w].at \in {"proposalRead", "flushed"} /\ Decide(w)
      BY <2>1 DEF ApproveReview
    <3> QED
      BY <3>2, <3>3, DecideDecides, ContractStep
  <2>2. CASE RejectReview(w)
    <3>1. req[w].at \in {"proposalRead", "flushed"} /\ Decide(w) /\ package' = package
      BY <2>2 DEF RejectReview
    <3> QED
      BY <3>1, DecideDecides, ContractStep
  <2>3. CASE UNCHANGED tables
    BY <2>3, Quiet, ContractStep DEF tables
  <2> QED
    BY <1>2, <2>1, <2>2, <2>3 DEF ReviewStep, ReadReview, ReadProposal, FlushAndReadPackage
<1>3. ASSUME NEW w \in Worker, PublishStep(w) PROVE [Contract!Next]_Contract!vars
  <2>1. CASE Publish(w)
    BY <2>1, PublishShows, ContractStep
  <2>2. CASE ~Publish(w)
    <3>1. UNCHANGED <<package, review, approvedAs>>
      BY <1>3, <2>2 DEF PublishStep, ReadContext, CheckContext, ReadNotice, ArchiveEvidence,
         ArchiveFails, SaveNotice, ReadForPublish, CheckForPublish, tables
    <3> QED
      BY <3>1, Quiet, ContractStep
  <2> QED
    BY <2>1, <2>2
<1>4. ASSUME NEW w \in Worker, RejectStep(w) \/ Abort(w) PROVE [Contract!Next]_Contract!vars
  <2>1. CASE RejectPolicy(w)
    <3> DEFINE v == req[w].version
               new == Decided(package[v], req[w].row.payload, "rejected")
    <3>1. /\ v \in Version /\ package[v].status = "pending" /\ package[v] \in Row
      BY <2>1 DEF RejectPolicy, TypeOK, Aimed, PublishPoint, Request, TransactionInvariant,
         RequestsOK, ReadsAreCurrent
    <3>2. new.status = "rejected"
      BY <3>1 DEF Decided, Row
    <3>3. package' = [package EXCEPT ![v] = new] /\ UNCHANGED <<review, approvedAs>>
      BY <2>1 DEF RejectPolicy
    <3> HIDE DEF v, new
    <3>4. \A u \in Version : package'[u] = package[u] \/ (~Listed(u) /\ package'[u].status # "approved")
      BY <3>1, <3>2, <3>3 DEF TypeOK, Listed
    <3> QED
      BY <3>3, <3>4, Quiet, ContractStep
  <2>2. CASE UNCHANGED tables
    BY <2>2, Quiet, ContractStep DEF tables
  <2> QED
    BY <1>4, <2>1, <2>2 DEF RejectStep, ReadForReject, Abort
<1>5. CASE UNCHANGED vars
  BY <1>5, Quiet, ContractStep DEF vars
<1> QED
  BY <1>1, <1>2, <1>3, <1>4, <1>5 DEF Next

\* The requests of the service, each of several statements and transactions,
\* keep the promises of the review desk.
THEOREM ContractImplemented == Isolation # "statement" => (Spec => ImplementsContract)
<1> SUFFICES ASSUME Isolation # "statement" PROVE Spec => ImplementsContract
  OBVIOUS
<1>1. Init => Contract!Init
  <2> SUFFICES ASSUME Init PROVE Contract!Init
    OBVIOUS
  <2>1. DecisionOf = [i \in Item |-> "none"] /\ KeyOf \in [Item -> Field]
    BY DEF Init, DecisionOf, KeyOf, Item
  <2>2. \A v \in Version : Shown(v) = {}
    BY DEF Init, NoRow, Shown, Visible, Listed
  <2> QED
    BY <2>1, <2>2 DEF Contract!Init, DecisionOf, KeyOf, Item
<1>2. TypeOK /\ TransactionInvariant /\ KeysInvariant /\ [Next]_vars
        => [Contract!Next]_Contract!vars
  BY StepRefines
<1>3. Spec => [](TypeOK /\ TransactionInvariant) /\ []KeysInvariant
  BY InvariantHolds, KeysInvariantHolds
<1> QED
  BY <1>1, <1>2, <1>3, PTL DEF Spec, ImplementsContract, Contract!Spec
=============================================================================
