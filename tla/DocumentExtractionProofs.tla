----------------------- MODULE DocumentExtractionProofs -----------------------
(***************************************************************************)
(* Theorems about DocumentExtraction, for all names, URLs, texts, contents *)
(* and notices.                                                            *)
(***************************************************************************)
EXTENDS DocumentExtraction, WellFoundedInduction, TLAPS

USE ExtractionAssumption

(***************************************************************************)
(* The inductive invariant.                                                *)
(***************************************************************************)
\* Groups are whole documents, and the one that is read is not compared yet.
GroupsWhole ==
    /\ \A c \in corpus :
          /\ c.group \subseteq DOMAIN notice
          /\ \A i \in c.group, j \in DOMAIN notice : SameDocument(i, j) <=> j \in c.group
    /\ \A i \in group, j \in DOMAIN notice : SameDocument(i, j) <=> j \in group
    /\ at \in {"local", "ocr"} => group \cap Compared = {}
    /\ at \in {"idle", "group"} => group \subseteq Compared
    /\ at = "idle" => DOMAIN notice \subseteq Compared

Judged(i) == result[i].status \in {"succeeded", "failed"}

Untouched(i) == result[i] = Unread /\ i \notin retried

\* What the passes have not reached is untouched, and what they have passed is
\* judged or left to the second one.
PassesInOrder ==
    /\ \A i \in DOMAIN notice \ (group \cup Compared) : Untouched(i)
    /\ at = "local" => \A i \in group :
          IF i \in todo THEN Untouched(i) ELSE i \in retried <=> ~Judged(i)
    /\ at = "ocr" => \A i \in group :
          IF i \in todo THEN i \in retried /\ ~Judged(i) ELSE Judged(i)

\* What has been read in this group is still in the cache.
CachedReads ==
    \A i \in group : result[i].from # NoContent => cache[notice[i].url] = result[i].from

AgreeEitherWay(i, j) ==
    \/ <<result[i].text, result[j].text>> \in Agree
    \/ <<result[j].text, result[i].text>> \in Agree

CorpusJudged ==
    \A c \in corpus :
       /\ \A i \in c.group : Judged(i) /\ (result[i].status = "failed" => c.review)
       /\ ~c.review => \A i, j \in c.group : i # j => AgreeEitherWay(i, j)

ExtractionInvariant ==
    /\ GroupsWhole
    /\ PassesInOrder
    /\ CachedReads
    /\ CorpusJudged
    /\ OcrIsLastResort
    /\ BestRepresents
-------------------------------------------------------------------------------
(***************************************************************************)
(* One attempt.                                                            *)
(***************************************************************************)
LEMMA ResultTyped == NoContent \notin Payload /\ Unread \in Result
  BY DEF Unread, Result, Document

LEMMA AttachmentTyped ==
  ASSUME TypeOK, NEW i \in DOMAIN notice
  PROVE  /\ notice[i] \in Attachment
         /\ notice[i].url \in Url
         /\ notice[i].name \in Name
         /\ Type(i) \in FileType
         /\ i \in Nat
<1>1. notice \in Seq(Attachment)
  BY DEF TypeOK
<1>2. i \in 1 .. Len(notice) /\ notice[i] \in Attachment
  BY <1>1
<1>3. notice[i].url \in Url /\ notice[i].name \in Name
  BY <1>2 DEF Attachment
<1>4. TypeOf[notice[i].name] \in FileType
  BY <1>3
<1> QED
  BY <1>1, <1>2, <1>3, <1>4 DEF Type

\* A reason to leave an attachment of type t to OCR.
ForOcr(t, r) == t = "image" \/ (t = "pdf" /\ r.from # NoContent /\ HasScan(r.from))

LEMMA LocalRead ==
  ASSUME NEW t \in FileType, NEW c \in Payload, NEW r \in LocalOutcomes(t, c)
  PROVE  /\ r \in Result
         /\ r.from = c
         /\ r.status \in {"succeeded", "failed", "scanned"}
         /\ r.status = "scanned" => ForOcr(t, r)
<1>1. c \in Payload /\ c.pages \in Document
  BY DEF Payload
<1>2. Failed(c) \in Result /\ Failed(c).from = c /\ Failed(c).status = "failed"
  BY <1>1 DEF Failed, Scanned, Result, Document
<1>3. Read(c.pages, c) \in Result /\ Read(c.pages, c).from = c
      /\ Read(c.pages, c).status = "succeeded" /\ Read(c.pages, c).text = c.pages
  BY <1>1 DEF Read, Result
<1>4. CASE r = Failed(c)
  BY <1>2, <1>4
<1>5. CASE t = "pdf" /\ HasScan(c) /\ r = Scanned(c)
  <2>1. r \in Result /\ r.from = c /\ r.status = "scanned"
    BY <1>1, <1>5 DEF Failed, Scanned, Result, Document
  <2> QED
    BY <1>1, <1>5, <2>1, ResultTyped DEF ForOcr
<1>6. CASE r = Read(c.pages, c)
  BY <1>3, <1>6
<1>7. r = Failed(c) \/ (t = "pdf" /\ HasScan(c) /\ r = Scanned(c))
      \/ r = Read(c.pages, c)
  BY DEF LocalOutcomes
<1> QED
  BY <1>4, <1>5, <1>6, <1>7

LEMMA OcrRead ==
  ASSUME NEW t \in FileType, NEW c \in Payload, NEW r \in OcrOutcomes(t, c)
  PROVE  /\ r \in Result
         /\ r.from = c
         /\ r.status \in {"succeeded", "failed"}
<1>1. c \in Payload /\ c.pages \in Document
  BY DEF Payload
<1>2. CASE r = Failed(c)
  BY <1>1, <1>2 DEF Failed, Scanned, Result, Document
<1>3. ASSUME NEW d \in OcrTexts(c), r = Read(d, c)
      PROVE  r \in Result /\ r.from = c /\ r.status = "succeeded"
  <2>1. d \in [Pages(c) -> Text] /\ Pages(c) = 1..Len(c.pages) /\ Len(c.pages) \in Nat
    BY <1>1 DEF OcrTexts, Pages, Document
  <2>2. d \in Document
    BY <2>1 DEF Document
  <2>3. r.from = c /\ r.status = "succeeded" /\ r.text = d /\ r \in Result
    BY <1>1, <1>3, <2>2 DEF Read, Result
  <2>4. \A p \in Pages(c) : c.pages[p] # NoText => d[p] = c.pages[p]
    BY DEF OcrTexts
  <2> QED
    BY <2>3, <2>4
<1>4. r = Failed(c) \/ \E d \in OcrTexts(c) : r = Read(d, c)
  BY DEF OcrOutcomes
<1> QED
  BY <1>2, <1>3, <1>4

\* What an attempt does to the result of i and to the cache.
Attempted(i, r) ==
    LET u == notice[i].url IN
    /\ r \in Result
    /\ result' = [result EXCEPT ![i] = r]
    /\ \/ /\ r.from # NoContent
          /\ r.from \in Payload
          /\ cache' = [cache EXCEPT ![u] = r.from]
          /\ cache[u] # NoContent => r.from = cache[u]
       \/ /\ r.from = NoContent
          /\ cache[u] = NoContent
          /\ cache' = cache
    /\ r.status \in {"succeeded", "failed", "scanned"}
    /\ at = "ocr" => r.status \in {"succeeded", "failed"}
    /\ r.status = "scanned" => ForOcr(Type(i), r)

LEMMA AttemptFacts ==
  ASSUME TypeOK, NEW i \in DOMAIN notice, Attempt(i)
  PROVE  \E r \in Result : Attempted(i, r)
<1> DEFINE u == notice[i].url
<1>1. u \in Url /\ Type(i) \in FileType
  BY AttachmentTyped
<1>2. CASE cache[u] = NoContent /\ result' = [result EXCEPT ![i] = Failed(NoContent)]
           /\ UNCHANGED cache
  <2>1. Failed(NoContent) \in Result /\ Failed(NoContent).from = NoContent
        /\ Failed(NoContent).status = "failed"
    BY DEF Failed, Scanned, Result, Document
  <2> QED
    BY <1>2, <2>1 DEF Attempted
<1>3. ASSUME NEW c \in Payloads(u), NEW r \in Outcomes(i, c),
             cache' = [cache EXCEPT ![u] = c], result' = [result EXCEPT ![i] = r]
      PROVE  Attempted(i, r) /\ r \in Result
  <2>1. cache[u] # NoContent => c = cache[u]
    BY DEF Payloads
  <2>2. c \in Payload /\ c # NoContent
    BY <1>1, ResultTyped DEF Payloads, TypeOK
  <2>3. CASE at = "local"
    <3>1. r \in LocalOutcomes(Type(i), c)
      BY <2>3 DEF Outcomes
    <3>2. /\ r \in Result /\ r.from = c
          /\ r.status \in {"succeeded", "failed", "scanned"}
          /\ r.status = "scanned" => ForOcr(Type(i), r)
       BY <1>1, <2>2, <3>1, LocalRead
    <3> QED
      BY <1>3, <2>1, <2>2, <2>3, <3>2 DEF Attempted
  <2>4. CASE at # "local"
    <3>1. r \in OcrOutcomes(Type(i), c)
      BY <2>4 DEF Outcomes
    <3>2. /\ r \in Result /\ r.from = c
          /\ r.status \in {"succeeded", "failed"}
       BY <1>1, <2>2, <3>1, OcrRead
    <3> QED
      BY <1>3, <2>1, <2>2, <2>4, <3>2 DEF Attempted
  <2> QED
    BY <2>3, <2>4
<1> QED
  BY <1>2, <1>3 DEF Attempt
-------------------------------------------------------------------------------
(***************************************************************************)
(* The order of the results.                                               *)
(***************************************************************************)
\* Every name has a first place in the notice.
LEMMA FirstPlace ==
  ASSUME TypeOK, NEW i \in DOMAIN notice
  PROVE  \E m \in DOMAIN notice :
            /\ SameName(m, i)
            /\ \A n \in DOMAIN notice : SameName(n, i) => m <= n
<1> DEFINE Places == {m \in DOMAIN notice : SameName(m, i)}
<1>1. Places \subseteq Nat
  BY AttachmentTyped
<1>2. Places # {}
  BY DEF SameName
<1>3. PICK m \in Places : \A n \in Places : ~ (<<n, m>> \in OpToRel(<, Nat))
  BY <1>1, <1>2, NatLessThanWellFounded, WFMin
<1>4. \A n \in Places : ~ (n < m)
  BY <1>1, <1>3 DEF OpToRel
<1> QED
  BY <1>1, <1>4

\* Of any two attachments one comes before the other.
LEMMA BeforeTotal ==
  ASSUME TypeOK, NEW i \in DOMAIN notice, NEW j \in DOMAIN notice, i # j
  PROVE  Before(i, j) \/ Before(j, i)
<1>1. i \in Nat /\ j \in Nat
  BY AttachmentTyped
<1>2. CASE SameName(i, j)
  BY <1>1, <1>2 DEF Before, SameName
<1>3. CASE ~SameName(i, j)
  <2>1. PICK m \in DOMAIN notice :
           SameName(m, i) /\ \A n \in DOMAIN notice : SameName(n, i) => m <= n
    BY FirstPlace
  <2>2. PICK k \in DOMAIN notice :
           SameName(k, j) /\ \A n \in DOMAIN notice : SameName(n, j) => k <= n
    BY FirstPlace
  <2>3. m # k
    BY <1>3, <2>1, <2>2 DEF SameName
  <2>4. m \in Nat /\ k \in Nat /\ \A n \in DOMAIN notice : n \in Nat
    BY AttachmentTyped
  <2>5. CASE m < k
    BY <2>1, <2>2, <2>4, <2>5 DEF Before, NamedFirst
  <2>6. CASE k < m
    BY <2>1, <2>2, <2>4, <2>6 DEF Before, NamedFirst
  <2> QED
    BY <2>3, <2>4, <2>5, <2>6
<1> QED
  BY <1>2, <1>3

\* What comes before another does not have a later name.
LEMMA BeforeIsNotAfter ==
  ASSUME TypeOK, NEW i \in DOMAIN notice, NEW j \in DOMAIN notice, Before(i, j) \/ i = j
  PROVE  ~NamedFirst(j, i)
<1> SUFFICES ASSUME NEW m \in DOMAIN notice, SameName(m, j),
                    \A n \in DOMAIN notice : SameName(n, i) => m < n
             PROVE  FALSE
  BY DEF NamedFirst
<1>1. \A n \in DOMAIN notice : n \in Nat
  BY AttachmentTyped
<1>2. CASE SameName(i, j)
  BY <1>1, <1>2 DEF SameName
<1>3. CASE NamedFirst(i, j)
  <2>1. PICK k \in DOMAIN notice : SameName(k, i) /\ \A n \in DOMAIN notice : SameName(n, j) => k < n
    BY <1>3 DEF NamedFirst
  <2>2. k < m /\ m < k
    BY <2>1
  <2> QED
    BY <1>1, <2>2
<1> QED
  BY <1>2, <1>3 DEF Before, SameName
-------------------------------------------------------------------------------
(***************************************************************************)
(* A step of one of the passes, of which LeaveToOcr, ReadLocally,          *)
(* Unsupported, RetryWithOcr and NoOcr are instances: attachment i gets    *)
(* the result r.                                                           *)
(***************************************************************************)
ReadStep(i, r) ==
    /\ at \in {"local", "ocr"}
    /\ todo' = todo \ {i}
    /\ UNCHANGED <<notice, ocr, at, group, corpus>>
    /\ r \in Result
    /\ result' = [result EXCEPT ![i] = r]
    /\ \/ cache' = cache /\ (r.from # NoContent => cache[notice[i].url] = r.from)
       \/ /\ r.from \in Payload
          /\ cache' = [cache EXCEPT ![notice[i].url] = r.from]
          /\ cache[notice[i].url] # NoContent => r.from = cache[notice[i].url]
    /\ retried' = retried \/ retried' = retried \cup {i}
    /\ i \in retried' => ForOcr(Type(i), r)
    /\ at = "local" => (i \in retried' <=> r.status \notin {"succeeded", "failed"})
    /\ at = "ocr" => r.status \in {"succeeded", "failed"}

LEMMA ReadStepTyped ==
  ASSUME TypeOK, NEW i \in todo, NEW r, ReadStep(i, r)
  PROVE  TypeOK'
<1>1. i \in DOMAIN notice /\ notice[i].url \in Url
  BY AttachmentTyped DEF TypeOK
<1>2. cache' \in [Url -> Payload \cup {NoContent}]
  BY <1>1 DEF TypeOK, ReadStep
<1>3. result' \in [DOMAIN notice' -> Result]
  BY <1>1 DEF TypeOK, ReadStep
<1>4. retried' \subseteq DOMAIN notice' /\ todo' \subseteq group'
  BY <1>1 DEF TypeOK, ReadStep
<1> QED
  BY <1>2, <1>3, <1>4 DEF TypeOK, ReadStep

LEMMA ReadStepInvariant ==
  ASSUME TypeOK, ExtractionInvariant, NEW i \in todo, NEW r, ReadStep(i, r)
  PROVE  ExtractionInvariant'
<1>1. i \in group /\ i \in DOMAIN notice /\ notice[i].url \in Url
  BY AttachmentTyped DEF TypeOK
<1>2. /\ notice' = notice /\ at' = at /\ group' = group /\ corpus' = corpus
      /\ todo' = todo \ {i} /\ at \in {"local", "ocr"}
  BY DEF ReadStep
<1>3. result'[i] = r /\ \A j \in DOMAIN notice \ {i} : result'[j] = result[j]
  BY <1>1 DEF ReadStep, TypeOK
<1>4. \A j \in DOMAIN notice \ {i} : j \in retried' <=> j \in retried
  BY DEF ReadStep
<1>5. \A c \in corpus : i \notin c.group /\ c.group \subseteq DOMAIN notice
  BY <1>1, <1>2 DEF ExtractionInvariant, GroupsWhole, Compared
<1>6. group \subseteq DOMAIN notice
  BY DEF TypeOK
<1>7. Compared' = Compared /\ \A j, k : SameDocument(j, k)' <=> SameDocument(j, k)
  BY <1>2 DEF Compared, SameDocument
<1>8. GroupsWhole'
  BY <1>2, <1>7 DEF ExtractionInvariant, GroupsWhole
<1>9. PassesInOrder'
  <2>1. /\ at = "local" => (i \in retried' <=> r.status \notin {"succeeded", "failed"})
        /\ at = "ocr" => r.status \in {"succeeded", "failed"}
    BY DEF ReadStep
  <2>2. /\ at = "local" => (i \in retried' <=> ~Judged(i)')
        /\ at = "ocr" => Judged(i)'
    BY <1>3, <2>1 DEF Judged
  <2>3. PassesInOrder
    BY DEF ExtractionInvariant
  <2>4. \A j \in DOMAIN notice' \ (group' \cup Compared') : Untouched(j)'
    <3> SUFFICES ASSUME NEW j \in DOMAIN notice \ (group \cup Compared)
                 PROVE  Untouched(j)'
      BY <1>2, <1>7
    <3>1. Untouched(j)
      BY <2>3 DEF PassesInOrder
    <3> QED
      BY <1>1, <1>3, <1>4, <3>1 DEF Untouched
  <2>5. ASSUME at = "local", NEW j \in group
        PROVE  IF j \in todo' THEN Untouched(j)' ELSE j \in retried' <=> ~Judged(j)'
    <3>1. CASE j = i
      BY <1>2, <2>2, <2>5, <3>1
    <3>2. CASE j # i
      <4>1. j \in DOMAIN notice \ {i} /\ (j \in todo' <=> j \in todo)
        BY <1>2, <1>6, <3>2
      <4> QED
        BY <1>3, <1>4, <2>3, <2>5, <4>1 DEF PassesInOrder, Untouched, Judged
    <3> QED
      BY <3>1, <3>2
  <2>6. ASSUME at = "ocr", NEW j \in group
        PROVE  IF j \in todo' THEN j \in retried' /\ ~Judged(j)' ELSE Judged(j)'
    <3>1. CASE j = i
      BY <1>2, <2>2, <2>6, <3>1
    <3>2. CASE j # i
      <4>1. j \in DOMAIN notice \ {i} /\ (j \in todo' <=> j \in todo)
        BY <1>2, <1>6, <3>2
      <4> QED
        BY <1>3, <1>4, <2>3, <2>6, <4>1 DEF PassesInOrder, Judged
    <3> QED
      BY <3>1, <3>2
  <2> QED
    BY <1>2, <2>4, <2>5, <2>6 DEF PassesInOrder
<1>10. CachedReads'
  <2> SUFFICES ASSUME NEW j \in group, result'[j].from # NoContent
               PROVE  cache'[notice[j].url] = result'[j].from
    BY <1>2 DEF CachedReads
  <2>1. notice[j].url \in Url /\ j \in DOMAIN notice
    BY <1>6, AttachmentTyped
  <2>2. cache \in [Url -> Payload \cup {NoContent}]
    BY DEF TypeOK
  <2>3. CASE j = i
    BY <1>1, <1>3, <2>2, <2>3 DEF ReadStep
  <2>4. CASE j # i
    <3>1. result'[j] = result[j] /\ cache[notice[j].url] = result[j].from
      BY <1>3, <2>1, <2>4 DEF ExtractionInvariant, CachedReads
    <3> QED
      BY <1>1, <2>1, <2>2, <3>1 DEF ReadStep
  <2> QED
    BY <2>3, <2>4
<1>11. CorpusJudged'
  <2>1. \A j \in DOMAIN notice \ {i} : Judged(j)' <=> Judged(j)
    BY <1>3 DEF Judged
  <2>2. \A j, k \in DOMAIN notice \ {i} : AgreeEitherWay(j, k)' <=> AgreeEitherWay(j, k)
    BY <1>3 DEF AgreeEitherWay
  <2> QED
    BY <1>2, <1>3, <1>5, <2>1, <2>2 DEF ExtractionInvariant, CorpusJudged
<1>13. OcrIsLastResort'
  <2> SUFFICES ASSUME NEW j \in retried' PROVE ForOcr(Type(j), result'[j])
    BY <1>2 DEF OcrIsLastResort, ForOcr, Type, HasScan, Pages
  <2>1. CASE j = i
    BY <1>3, <2>1 DEF ReadStep
  <2>2. CASE j # i
    <3>1. j \in retried /\ j \in DOMAIN notice
      BY <2>2 DEF ReadStep, TypeOK
    <3> QED
      BY <1>3, <2>2, <3>1 DEF ExtractionInvariant, OcrIsLastResort, ForOcr
  <2> QED
    BY <2>1, <2>2
<1>14. BestRepresents'
  <2>1. /\ \A j : Rank(j)' = Rank(j)
        /\ \A j, k : NamedFirst(j, k)' <=> NamedFirst(j, k)
    BY <1>2 DEF Rank, Type, NamedFirst, SameName
  <2>2. \A c \in corpus : \A j \in c.group : result'[j] = result[j]
    BY <1>3, <1>5
  <2>3. \A c \in corpus : {j \in c.group : result'[j].status = "succeeded"}
                          = {j \in c.group : result[j].status = "succeeded"}
    BY <2>2
  <2> QED
    BY <1>2, <2>1, <2>3 DEF ExtractionInvariant, BestRepresents
<1> QED
  BY <1>8, <1>9, <1>10, <1>11, <1>13, <1>14 DEF ExtractionInvariant

\* The five steps that read an attachment.
LEMMA ReadSteps ==
  ASSUME TypeOK, ExtractionInvariant, NEW i \in todo,
         \/ LeaveToOcr(i)
         \/ ReadLocally(i)
         \/ Unsupported(i)
         \/ RetryWithOcr(i)
         \/ NoOcr(i)
  PROVE  \E r \in Result : ReadStep(i, r)
<1>1. /\ i \in group /\ i \in DOMAIN notice /\ result[i] \in Result
      /\ result = [result EXCEPT ![i] = result[i]]
  BY DEF TypeOK
<1>2. Type(i) \in FileType
  BY <1>1, AttachmentTyped
<1>4. at = "local" => Untouched(i)
  BY <1>1 DEF ExtractionInvariant, PassesInOrder
<1>5. at = "ocr" => i \in retried
  BY <1>1 DEF ExtractionInvariant, PassesInOrder
<1>6. i \in retried => ForOcr(Type(i), result[i])
  BY DEF ExtractionInvariant, OcrIsLastResort, ForOcr
<1>7. result[i].from # NoContent => cache[notice[i].url] = result[i].from
  BY <1>1 DEF ExtractionInvariant, CachedReads
<1>8. /\ Failed(NoContent) \in Result
      /\ Failed(NoContent).from = NoContent
      /\ Failed(NoContent).status = "failed"
  BY DEF Failed, Result, Document
<1>9. CASE LeaveToOcr(i)
  BY <1>1, <1>4, <1>7, <1>9 DEF LeaveToOcr, Turn, ReadStep, ForOcr, Untouched, Unread
<1>10. CASE ReadLocally(i)
  <2>1. PICK r \in Result : Attempted(i, r)
    BY <1>1, <1>10, AttemptFacts DEF ReadLocally
  <2>2. result'[i] = r
    BY <1>1, <2>1 DEF Attempted, TypeOK
  <2>3. i \notin retried
    BY <1>4, <1>10 DEF ReadLocally, Turn, Untouched
  <2>4. retried' = IF r.status = "scanned" THEN retried \cup {i} ELSE retried
    BY <1>10, <2>2 DEF ReadLocally, RequiresOcrRetry
  <2> QED
    BY <1>1, <1>10, <2>1, <2>3, <2>4 DEF ReadLocally, Turn, Attempted, ReadStep
<1>11. CASE Unsupported(i)
  <2>1. i \notin retried
    BY <1>4, <1>11 DEF Unsupported, Turn, Untouched
  <2> QED
    BY <1>1, <1>8, <1>11, <2>1 DEF Unsupported, Turn, ReadStep
<1>12. CASE RetryWithOcr(i)
  <2>1. PICK r \in Result : Attempted(i, r)
    BY <1>1, <1>12, AttemptFacts DEF RetryWithOcr
  <2>2. ForOcr(Type(i), result[i])
    BY <1>5, <1>6, <1>12 DEF RetryWithOcr, Turn
  <2>3. ForOcr(Type(i), r)
    BY <1>7, <2>1, <2>2 DEF Attempted, ForOcr
  <2> QED
    BY <1>1, <1>12, <2>1, <2>3 DEF RetryWithOcr, Turn, Attempted, ReadStep
<1>13. CASE NoOcr(i)
  <2> DEFINE r == [status |-> "failed", text |-> result[i].text, from |-> result[i].from]
  <2>1. r \in Result /\ r = [result[i] EXCEPT !.status = "failed"]
    BY <1>1 DEF Result
  <2>2. ForOcr(Type(i), r)
    BY <1>5, <1>6, <1>13 DEF NoOcr, Turn, ForOcr
  <2>3. result' = [result EXCEPT ![i] = r]
    BY <1>1, <1>13, <2>1 DEF NoOcr, TypeOK
  <2> QED
    BY <1>1, <1>7, <1>13, <2>1, <2>2, <2>3 DEF NoOcr, Turn, ReadStep
<1> QED
  BY <1>9, <1>10, <1>11, <1>12, <1>13
-------------------------------------------------------------------------------
(***************************************************************************)
(* The other steps.                                                        *)
(***************************************************************************)
LEMMA AnalyseStep ==
  ASSUME NEW list \in Listing, NEW configured \in BOOLEAN, Analyse(list, configured)
  PROVE  TypeOK' /\ ExtractionInvariant'
<1>1. /\ notice' = list /\ list \in Seq(Attachment)
      /\ result' = [i \in DOMAIN list |-> Unread]
      /\ group' = {} /\ todo' = {} /\ retried' = {} /\ corpus' = {}
      /\ at' = "group" /\ ocr' \in BOOLEAN /\ cache' = NothingCached
  BY DEF Analyse
<1>2. cache' \in [Url -> Payload \cup {NoContent}]
  BY <1>1 DEF NothingCached
<1>3. TypeOK'
  BY <1>1, <1>2, ResultTyped DEF TypeOK
<1>4. GroupsWhole' /\ CorpusJudged' /\ BestRepresents' /\ CachedReads' /\ OcrIsLastResort'
  BY <1>1 DEF GroupsWhole, CorpusJudged, BestRepresents, CachedReads, OcrIsLastResort, Compared
<1>5. PassesInOrder'
  BY <1>1 DEF PassesInOrder, Untouched
<1> QED
  BY <1>3, <1>4, <1>5 DEF ExtractionInvariant

LEMMA OpenGroupStep ==
  ASSUME TypeOK, ExtractionInvariant, OpenGroup
  PROVE  TypeOK' /\ ExtractionInvariant'
<1>1. /\ at = "group" /\ at' = "local" /\ todo' = group' /\ cache' = NothingCached
      /\ notice' = notice /\ ocr' = ocr /\ retried' = retried /\ result' = result
      /\ corpus' = corpus
  BY DEF OpenGroup
<1>2. PICK i \in DOMAIN notice \ Compared :
         group' = {j \in DOMAIN notice : SameDocument(i, j)}
  BY DEF OpenGroup
<1>3. cache' \in [Url -> Payload \cup {NoContent}]
  BY <1>1 DEF NothingCached
<1>4. TypeOK'
  BY <1>1, <1>2, <1>3 DEF TypeOK
<1>5. group' \cap Compared = {}
  <2> SUFFICES ASSUME NEW c \in corpus, NEW j \in c.group, j \in group' PROVE FALSE
    BY DEF Compared
  <2>1. SameDocument(j, i)
    BY <1>2 DEF SameDocument
  <2>2. i \in c.group
    BY <2>1 DEF ExtractionInvariant, GroupsWhole
  <2> QED
    BY <1>2, <2>2 DEF Compared
<1>6. \A j \in group' : result[j] = Unread /\ j \notin retried
  BY <1>1, <1>2, <1>5 DEF ExtractionInvariant, GroupsWhole, PassesInOrder, Untouched
<1>7. GroupsWhole'
  <2>1. \A j \in group', k \in DOMAIN notice : SameDocument(j, k) <=> k \in group'
    BY <1>2 DEF SameDocument
  <2> QED
    BY <1>1, <1>5, <2>1 DEF ExtractionInvariant, GroupsWhole, Compared, SameDocument
<1>8. PassesInOrder'
  <2>1. \A j \in DOMAIN notice \ Compared : result[j] = Unread /\ j \notin retried
    BY <1>1 DEF ExtractionInvariant, GroupsWhole, PassesInOrder, Untouched
  <2>2. Compared' = Compared
    BY <1>1 DEF Compared
  <2> QED
    BY <1>1, <1>6, <2>1, <2>2 DEF PassesInOrder, Untouched
<1>9. CachedReads'
  BY <1>1, <1>6 DEF CachedReads, Unread
<1>10. CorpusJudged' /\ OcrIsLastResort' /\ BestRepresents'
  BY <1>1 DEF ExtractionInvariant, CorpusJudged, OcrIsLastResort,
       BestRepresents, Judged, AgreeEitherWay, Type, Rank, NamedFirst, SameName
<1> QED
  BY <1>4, <1>7, <1>8, <1>9, <1>10 DEF ExtractionInvariant

LEMMA EndOfNoticeStep ==
  ASSUME TypeOK, ExtractionInvariant, EndOfNotice
  PROVE  TypeOK' /\ ExtractionInvariant'
  BY DEF EndOfNotice, TypeOK, ExtractionInvariant, GroupsWhole, PassesInOrder, CachedReads,
     CorpusJudged, OcrIsLastResort, BestRepresents, Judged, Untouched,
     AgreeEitherWay, Compared, SameDocument, Type, Rank, NamedFirst, SameName

LEMMA EndOfLocalPassStep ==
  ASSUME TypeOK, ExtractionInvariant, EndOfLocalPass
  PROVE  TypeOK' /\ ExtractionInvariant'
<1>1. TypeOK'
  BY DEF EndOfLocalPass, TypeOK
<1>2. PassesInOrder'
  BY DEF EndOfLocalPass, ExtractionInvariant, PassesInOrder, Judged, Untouched, Compared
<1>3. GroupsWhole' /\ CachedReads' /\ CorpusJudged'
  BY DEF EndOfLocalPass, ExtractionInvariant, GroupsWhole, CachedReads, CorpusJudged,
     Judged, AgreeEitherWay, Compared, SameDocument
<1>4. OcrIsLastResort' /\ BestRepresents'
  BY DEF EndOfLocalPass, ExtractionInvariant, OcrIsLastResort,
     BestRepresents, Type, Rank, NamedFirst, SameName
<1> QED
  BY <1>1, <1>2, <1>3, <1>4 DEF ExtractionInvariant

LEMMA CompareStep ==
  ASSUME TypeOK, ExtractionInvariant, Compare
  PROVE  TypeOK' /\ ExtractionInvariant'
<1>1. /\ at = "ocr" /\ todo = {} /\ at' = "group"
      /\ notice' = notice /\ ocr' = ocr /\ group' = group /\ todo' = todo
      /\ retried' = retried /\ cache' = cache /\ result' = result
  BY DEF Compare
<1>2. PICK i \in group \cup {0} :
         /\ IF Succeeded = {} THEN i = 0 ELSE Represents(i, Succeeded)
         /\ corpus' = corpus \cup
              {[group          |-> group,
                representative |-> i,
                review         |-> SomeFailed \/ HasTextConflict(Succeeded)]}
  BY DEF Compare
<1> DEFINE new == [group          |-> group,
                   representative |-> i,
                   review         |-> SomeFailed \/ HasTextConflict(Succeeded)]
<1>3. group \subseteq DOMAIN notice /\ \A j \in DOMAIN notice : j \in Nat
  BY AttachmentTyped DEF TypeOK
<1>4. new \in Comparison
  <2>1. group \in SUBSET Nat /\ i \in Nat
    BY <1>3
  <2>2. (SomeFailed \/ HasTextConflict(Succeeded)) \in BOOLEAN
    BY DEF SomeFailed, HasTextConflict
  <2> QED
    BY <2>1, <2>2 DEF Comparison
<1>5. TypeOK'
  BY <1>1, <1>2, <1>4 DEF TypeOK
<1>6. Compared' = Compared \cup group
  <2>1. new.group = group /\ corpus' = corpus \cup {new}
    BY <1>2
  <2>2. PICK c0 : c0.group = group /\ corpus' = corpus \cup {c0}
    BY <2>1
  <2>3. \A x : x \in Compared' <=> \E c \in corpus \cup {c0} : x \in c.group
    BY <2>2 DEF Compared
  <2>4. \A x : x \in Compared <=> \E c \in corpus : x \in c.group
    BY DEF Compared
  <2> QED
    BY <2>2, <2>3, <2>4
<1>7. \A j \in group : Judged(j)
  BY <1>1 DEF ExtractionInvariant, PassesInOrder
<1>8. GroupsWhole'
  <2>1. \A j \in group, k \in DOMAIN notice : SameDocument(j, k) <=> k \in group
    BY DEF ExtractionInvariant, GroupsWhole
  <2>2. ASSUME NEW c \in corpus'
        PROVE  /\ c.group \subseteq DOMAIN notice
               /\ \A j \in c.group, k \in DOMAIN notice : SameDocument(j, k) <=> k \in c.group
    <3>1. CASE c \in corpus
      BY <3>1 DEF ExtractionInvariant, GroupsWhole
    <3>2. CASE c = new
      BY <1>3, <2>1, <3>2
    <3> QED
      BY <1>2, <3>1, <3>2
  <2> QED
    BY <1>1, <1>6, <2>1, <2>2 DEF GroupsWhole, SameDocument
<1>9. PassesInOrder'
  BY <1>1, <1>6 DEF ExtractionInvariant, PassesInOrder, Untouched
<1>10. CachedReads' /\ OcrIsLastResort'
  BY <1>1 DEF ExtractionInvariant, CachedReads, OcrIsLastResort, Type
<1>11. CorpusJudged'
  <2>1. \A j \in group : result[j].status = "failed" => new.review
    BY DEF SomeFailed, Succeeded
  <2>2. ASSUME ~new.review, NEW j \in group, NEW k \in group, j # k
        PROVE  AgreeEitherWay(j, k)
    <3>1. j \in Succeeded /\ k \in Succeeded
      BY <2>2 DEF SomeFailed
    <3>2. Before(j, k) \/ Before(k, j)
      BY <1>3, <2>2, BeforeTotal
    <3> QED
      BY <2>2, <3>1, <3>2 DEF HasTextConflict, AgreeEitherWay
  <2>3. ASSUME NEW c \in corpus
        PROVE  /\ \A j \in c.group : Judged(j) /\ (result[j].status = "failed" => c.review)
               /\ ~c.review => \A j, k \in c.group : j # k => AgreeEitherWay(j, k)
    BY DEF ExtractionInvariant, CorpusJudged
  <2>4. ASSUME NEW c \in corpus'
        PROVE  /\ \A j \in c.group : Judged(j) /\ (result[j].status = "failed" => c.review)
               /\ ~c.review => \A j, k \in c.group : j # k => AgreeEitherWay(j, k)
    <3>1. CASE c \in corpus
      BY <2>3, <3>1
    <3>2. CASE c = new
      <4>1. c.group = group /\ c.review = new.review
        BY <3>2
      <4> HIDE DEF new
      <4> QED
        BY <1>7, <2>1, <2>2, <4>1
    <3> QED
      BY <1>2, <3>1, <3>2
  <2> QED
    BY <1>1, <2>4 DEF CorpusJudged, Judged, AgreeEitherWay
<1>12. BestRepresents'
  <2>1. ASSUME Succeeded # {}
        PROVE  /\ i \in Succeeded
               /\ \A j \in Succeeded : /\ Rank(i) <= Rank(j)
                                       /\ Rank(i) = Rank(j) => ~NamedFirst(j, i)
    <3>1. Represents(i, Succeeded)
      BY <1>2, <2>1
    <3>2. \A j \in group : Rank(j) \in Nat
      BY <1>3, AttachmentTyped DEF Rank, Priority, FileType
    <3>3. \A j \in Succeeded : Rank(i) = Rank(j) => i = j \/ Before(i, j)
      BY <3>1, <3>2 DEF Represents, Succeeded
    <3>4. \A j \in group : Before(i, j) \/ i = j => ~NamedFirst(j, i)
      BY <1>3, <3>1, BeforeIsNotAfter DEF Represents, Succeeded
    <3> QED
      BY <3>1, <3>2, <3>3, <3>4 DEF Represents, Succeeded
  <2>2. Succeeded = {} => i = 0
    BY <1>2
  <2>3. ASSUME NEW c \in corpus'
        PROVE  LET read == {j \in c.group : result[j].status = "succeeded"} IN
               IF read = {}
               THEN c.representative = 0
               ELSE /\ c.representative \in read
                    /\ \A j \in read :
                          /\ Rank(c.representative) <= Rank(j)
                          /\ Rank(c.representative) = Rank(j)
                                => ~NamedFirst(j, c.representative)
    <3>1. CASE c \in corpus
      BY <3>1 DEF ExtractionInvariant, BestRepresents
    <3>2. CASE c = new
      <4>1. c.representative = i /\ {j \in c.group : result[j].status = "succeeded"} = Succeeded
        BY <3>2 DEF Succeeded
      <4> QED
        BY <2>1, <2>2, <4>1
    <3> QED
      BY <1>2, <3>1, <3>2
  <2> QED
    BY <1>1, <2>3 DEF BestRepresents, Rank, Type, NamedFirst, SameName
<1> QED
  BY <1>5, <1>8, <1>9, <1>10, <1>11, <1>12 DEF ExtractionInvariant
-------------------------------------------------------------------------------
(***************************************************************************)
(* The theorems.                                                           *)
(***************************************************************************)
LEMMA InitInvariant ==
  ASSUME Init
  PROVE  TypeOK /\ ExtractionInvariant
<1>1. TypeOK
  <2>1. result \in [DOMAIN notice -> Result] /\ notice \in Seq(Attachment)
    BY DEF Init
  <2>2. cache \in [Url -> Payload \cup {NoContent}]
    BY DEF Init, NothingCached
  <2> QED
    BY <2>1, <2>2 DEF Init, TypeOK
<1>2. DOMAIN notice = {}
  BY DEF Init
<1>3. GroupsWhole /\ CachedReads /\ CorpusJudged
  BY <1>2 DEF Init, GroupsWhole, CachedReads, CorpusJudged, Compared
<1>4. PassesInOrder /\ OcrIsLastResort /\ BestRepresents
  BY <1>2 DEF Init, PassesInOrder, OcrIsLastResort, BestRepresents
<1> QED
  BY <1>1, <1>3, <1>4 DEF ExtractionInvariant

LEMMA NextInvariant ==
  ASSUME TypeOK, ExtractionInvariant, [Next]_vars
  PROVE  TypeOK' /\ ExtractionInvariant'
<1>1. CASE \E list \in Listing, configured \in BOOLEAN : Analyse(list, configured)
  BY <1>1, AnalyseStep
<1>2. CASE OpenGroup
  BY <1>2, OpenGroupStep
<1>3. CASE EndOfNotice
  BY <1>3, EndOfNoticeStep
<1>4. ASSUME NEW i \in todo,
             \/ LeaveToOcr(i)
             \/ ReadLocally(i)
             \/ Unsupported(i)
             \/ RetryWithOcr(i)
             \/ NoOcr(i)
      PROVE  TypeOK' /\ ExtractionInvariant'
  BY <1>4, ReadSteps, ReadStepTyped, ReadStepInvariant
<1>5. CASE EndOfLocalPass
  BY <1>5, EndOfLocalPassStep
<1>6. CASE Compare
  BY <1>6, CompareStep
<1>7. CASE UNCHANGED vars
  BY <1>7 DEF vars, TypeOK, ExtractionInvariant, GroupsWhole, PassesInOrder, CachedReads,
     CorpusJudged, OcrIsLastResort, BestRepresents, Judged, Untouched,
     AgreeEitherWay, Compared, SameDocument, Type, Rank, NamedFirst, SameName
<1> QED
  BY <1>1, <1>2, <1>3, <1>4, <1>5, <1>6, <1>7 DEF Next, Step

\* The invariants of the reading of documents hold in every state.
THEOREM ExtractionInvariantHolds == Spec => [](TypeOK /\ ExtractionInvariant)
<1>1. Init => TypeOK /\ ExtractionInvariant
  BY InitInvariant
<1>2. (TypeOK /\ ExtractionInvariant) /\ [Next]_vars => (TypeOK /\ ExtractionInvariant)'
  BY NextInvariant
<1> QED
  BY <1>1, <1>2, PTL DEF Spec

\* Whatever is downloaded, the state of an analysis has its type.
THEOREM TypeCorrect == Spec => []TypeOK
  BY ExtractionInvariantHolds, PTL

\* No attachment leaves extract_notice_corpus without a result, and no
\* failure without a review, in any listing of names and with any answers.
THEOREM NothingIsDropped == Spec => []NothingDropped
<1>1. TypeOK /\ ExtractionInvariant => NothingDropped
  BY DEF ExtractionInvariant, GroupsWhole, CorpusJudged, Judged, NothingDropped
<1> QED
  BY <1>1, ExtractionInvariantHolds, PTL

\* A corpus without a reason for a review holds no two formats of a document
\* that disagree, however many formats there are and whatever the similarity
\* of texts is.
THEOREM SilentCorpusAgrees == Spec => []SilenceMeansAgreement
<1>1. ASSUME TypeOK, ExtractionInvariant, at = "idle", ~ReviewRequired,
             NEW i \in DOMAIN notice, NEW j \in DOMAIN notice, i # j, SameDocument(i, j)
      PROVE  AgreeEitherWay(i, j)
  <2>1. PICK c \in corpus : i \in c.group
    BY <1>1 DEF ExtractionInvariant, GroupsWhole, Compared
  <2>2. j \in c.group
    BY <1>1, <2>1 DEF ExtractionInvariant, GroupsWhole
  <2> QED
    BY <1>1, <2>1, <2>2 DEF ExtractionInvariant, CorpusJudged, ReviewRequired
<1>2. TypeOK /\ ExtractionInvariant => SilenceMeansAgreement
  BY <1>1 DEF SilenceMeansAgreement, AgreeEitherWay
<1> QED
  BY <1>2, ExtractionInvariantHolds, PTL

\* The attachments of a group that share a URL are read from one download.
THEOREM UrlReadOnce == Spec => []OneCopyPerUrl
<1>1. TypeOK /\ ExtractionInvariant => OneCopyPerUrl
  <2> SUFFICES ASSUME TypeOK, CachedReads, NEW i \in group, NEW j \in group,
                      notice[i].url = notice[j].url,
                      result[i].from # NoContent, result[j].from # NoContent
               PROVE  result[i].from = result[j].from
    BY DEF ExtractionInvariant, OneCopyPerUrl
  <2> QED
    BY DEF CachedReads
<1> QED
  BY <1>1, ExtractionInvariantHolds, PTL

\* Each attachment is read for good once: no pass, of its own group or of a
\* later one, touches a result that is in.
THEOREM ResultsStandForGood == Spec => ResultsStand
<1>1. ASSUME TypeOK, ExtractionInvariant, [Next]_vars, at # "idle", NEW j \in DOMAIN notice,
             result[j].status \in {"succeeded", "failed"}
      PROVE  result'[j] = result[j]
  <2>1. ASSUME NEW i \in todo,
               \/ LeaveToOcr(i)
               \/ ReadLocally(i)
               \/ Unsupported(i)
               \/ RetryWithOcr(i)
               \/ NoOcr(i)
        PROVE  result'[j] = result[j]
    <3>1. PICK r \in Result : ReadStep(i, r)
      BY <1>1, <2>1, ReadSteps
    <3>2. i \in group /\ i \in DOMAIN notice
      BY <1>1 DEF TypeOK
    <3>3. ~Judged(i)
      BY <1>1, <3>1, <3>2 DEF ReadStep, ExtractionInvariant, PassesInOrder, Untouched, Unread, Judged
    <3>4. i # j
      BY <1>1, <3>3 DEF Judged
    <3> QED
      BY <1>1, <3>1, <3>2, <3>4 DEF ReadStep, TypeOK
  <2>2. CASE \/ OpenGroup \/ EndOfNotice \/ EndOfLocalPass \/ Compare \/ UNCHANGED vars
    BY <2>2 DEF OpenGroup, EndOfNotice, EndOfLocalPass, Compare, vars
  <2>3. ~ \E list \in Listing, configured \in BOOLEAN : Analyse(list, configured)
    BY <1>1 DEF Analyse
  <2> QED
    BY <1>1, <2>1, <2>2, <2>3 DEF Next, Step
<1> DEFINE Stands == at # "idle" => \A i \in DOMAIN notice :
                        result[i].status \in {"succeeded", "failed"} => result'[i] = result[i]
<1>2. TypeOK /\ ExtractionInvariant /\ [Next]_vars => [Stands]_vars
  BY <1>1
<1> QED
  BY <1>2, ExtractionInvariantHolds, PTL DEF Spec, ResultsStand

\* Only images and PDF files with a page without text are left to OCR.
THEOREM OcrComesLast == Spec => []OcrIsLastResort
<1>1. TypeOK /\ ExtractionInvariant => OcrIsLastResort
  BY DEF ExtractionInvariant
<1> QED
  BY <1>1, ExtractionInvariantHolds, PTL

\* The representative of a document is its best format that could be read, by
\* the first of the names that are equally good.
THEOREM BestFormatRepresents == Spec => []BestRepresents
<1>1. TypeOK /\ ExtractionInvariant => BestRepresents
  BY DEF ExtractionInvariant
<1> QED
  BY <1>1, ExtractionInvariantHolds, PTL
===============================================================================
