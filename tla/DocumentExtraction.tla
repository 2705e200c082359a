-------------------------- MODULE DocumentExtraction --------------------------
(***************************************************************************)
(* Reading the documents of a notice (document_extractor, pdf_extractor).  *)
(*                                                                         *)
(* Attachments whose names differ in the suffix only are one document in   *)
(* several formats.  Each such group is read in two passes: first whatever *)
(* can be read locally, then, by OCR, images and the PDF files the first   *)
(* pass found pages without text in.  The texts of a group are compared,   *)
(* the best format represents it, and what failed or disagrees is a reason *)
(* for a review.                                                           *)
(*                                                                         *)
(* A document is its pages.  The text of a page is one value: properties   *)
(* tell apart only whether two documents agree, which is a given relation, *)
(* and whether a text is too short to count.                               *)
(***************************************************************************)
EXTENDS Naturals, Sequences

CONSTANTS
    Name, Url,  \* file names and URLs of attachments
    StemOf,     \* the name without its suffix, spaces and case folded
    TypeOf,     \* the type that the suffix of a name stands for
    Text,       \* the texts that a page can have
    Short,      \* those that alone are under MINIMUM_TEXT_LENGTH
    NoText,     \* no text layer, or too little of one, on a page
    Agree,      \* pairs of documents: same numbers, similar wording
    Content,    \* what can be downloaded
    NoContent,  \* nothing downloaded
    Serves,     \* what a URL may answer; nothing where the host is not allowed
    Listing     \* the attachments of the notices, in the order of the page

FileType == {"pdf", "hwpx", "image", "hwp", "other"}

Attachment == [name : Name, url : Url]

Document == Seq(Text \cup {NoText})

\* The type is what the first bytes say; a payload that cannot be parsed
\* has the type "other".
Payload == [type : FileType, pages : Document]

\* A page of a PDF has a text layer only from 40 letters on, which is never
\* too short.
ASSUME ExtractionAssumption ==
    /\ TypeOf \in [Name -> FileType]
    /\ NoText \notin Text
    /\ Short \subseteq Text
    /\ Content \subseteq Payload
    /\ NoContent \notin Payload
    /\ \A c \in Content : c.type = "pdf" =>
          \A p \in DOMAIN c.pages : c.pages[p] \notin Short
    /\ Serves \in [Url -> SUBSET Content]
    /\ Listing \subseteq Seq(Attachment)

VARIABLES
    notice,   \* the attachments of the notice that is read
    ocr,      \* is an image OCR configured?
    at,       \* between two groups, or in one of the passes over a group
    group,    \* the attachments of the group that is read
    todo,     \* those that are left in this pass
    retried,  \* ocr_candidates, of this group and of those before
    cache,    \* payload_cache of the group
    result,   \* the DocumentExtraction of each attachment
    corpus    \* the AttachmentComparisons so far

vars == <<notice, ocr, at, group, todo, retried, cache, result, corpus>>

\* "scanned" is the failure that says "requires image OCR"; from is the
\* payload that was read.
Result == [status : {"none", "succeeded", "failed", "scanned"},
           text   : Document,
           from   : Payload \cup {NoContent}]

Unread == [status |-> "none", text |-> <<>>, from |-> NoContent]

Failed(c) == [status |-> "failed", text |-> <<>>, from |-> c]

Scanned(c) == [status |-> "scanned", text |-> <<>>, from |-> c]

Read(d, c) == [status |-> "succeeded", text |-> d, from |-> c]

\* The representative is 0 where no attachment could be read.
Comparison == [group : SUBSET Nat, representative : Nat, review : BOOLEAN]

TypeOK ==
    /\ notice \in Seq(Attachment)
    /\ ocr \in BOOLEAN
    /\ at \in {"idle", "group", "local", "ocr"}
    /\ group \subseteq DOMAIN notice
    /\ todo \subseteq group
    /\ retried \subseteq DOMAIN notice
    /\ cache \in [Url -> Payload \cup {NoContent}]
    /\ result \in [DOMAIN notice -> Result]
    /\ corpus \subseteq Comparison

NothingCached == [u \in Url |-> NoContent]

Init ==
    /\ notice = <<>>
    /\ ocr = FALSE
    /\ at = "idle"
    /\ group = {}
    /\ todo = {}
    /\ retried = {}
    /\ cache = NothingCached
    /\ result = <<>>
    /\ corpus = {}
-------------------------------------------------------------------------------
(***************************************************************************)
(* The notice and its groups.                                              *)
(***************************************************************************)
Type(i) == TypeOf[notice[i].name]

SameDocument(i, j) == StemOf[notice[i].name] = StemOf[notice[j].name]

SameName(i, j) == notice[i].name = notice[j].name

Compared == UNION {c.group : c \in corpus}

IsFirst(i, S) == i \in S /\ \A j \in S : i <= j

Analyse(list, configured) ==
    /\ at = "idle"
    /\ at' = "group"
    /\ notice' = list
    /\ ocr' = configured
    /\ result' = [i \in DOMAIN list |-> Unread]
    /\ group' = {}
    /\ todo' = {}
    /\ retried' = {}
    /\ cache' = NothingCached
    /\ corpus' = {}

\* The groups come in the order of their first attachments.
OpenGroup ==
    /\ at = "group"
    /\ at' = "local"
    /\ \E i \in DOMAIN notice \ Compared :
          /\ IsFirst(i, DOMAIN notice \ Compared)
          /\ group' = {j \in DOMAIN notice : SameDocument(i, j)}
    /\ todo' = group'
    /\ cache' = NothingCached
    /\ UNCHANGED <<notice, ocr, retried, result, corpus>>

EndOfNotice ==
    /\ at = "group"
    /\ DOMAIN notice \subseteq Compared
    /\ at' = "idle"
    /\ UNCHANGED <<notice, ocr, group, todo, retried, cache, result, corpus>>
-------------------------------------------------------------------------------
(***************************************************************************)
(* One attempt on one attachment.                                          *)
(***************************************************************************)
Pages(c) == DOMAIN c.pages

HasScan(c) == \E p \in Pages(c) : c.pages[p] = NoText

Readable(t, c) == c.type = t /\ c.pages # <<>>

TooShort(d) == \A p \in DOMAIN d : d[p] \in Short \cup {NoText}

\* A PDF is read page by page; an image or the section of an HWPX document
\* is a page of its own.
LocalOutcomes(t, c) ==
    CASE ~Readable(t, c)           -> {Failed(c)}
      [] t = "pdf" /\ HasScan(c)   -> {Scanned(c)}
      [] OTHER -> {IF TooShort(c.pages) THEN Failed(c) ELSE Read(c.pages, c)}

\* Only pages without a text layer are rendered and read by OCR.
OcrTexts(c) ==
    {d \in [Pages(c) -> Text] :
        \A p \in Pages(c) : c.pages[p] # NoText => d[p] = c.pages[p]}

\* The OCR of a page may fail or find nothing.
OcrOutcomes(t, c) ==
    {Failed(c)} \cup
    (IF Readable(t, c) THEN {Read(d, c) : d \in {e \in OcrTexts(c) : ~TooShort(e)}}
                       ELSE {})

Outcomes(i, c) ==
    IF at = "local" THEN LocalOutcomes(Type(i), c) ELSE OcrOutcomes(Type(i), c)

\* Mutant: every attempt downloads the attachment again.
AlwaysDownload(u) == Serves[u]

\* A payload is downloaded once in a group.
Payloads(u) == IF cache[u] = NoContent THEN Serves[u] ELSE {cache[u]}

\* The download, the check of its type and the reading.
Attempt(i) ==
    LET u == notice[i].url IN
    \/ \E c \in Payloads(u) : \E r \in Outcomes(i, c) :
          /\ cache' = [cache EXCEPT ![u] = c]
          /\ result' = [result EXCEPT ![i] = r]
    \/ /\ cache[u] = NoContent
       /\ result' = [result EXCEPT ![i] = Failed(NoContent)]
       /\ UNCHANGED cache
-------------------------------------------------------------------------------
(***************************************************************************)
(* The two passes over a group.                                            *)
(***************************************************************************)
Turn(pass, i) ==
    /\ at = pass
    /\ IsFirst(i, todo)
    /\ todo' = todo \ {i}
    /\ UNCHANGED <<notice, ocr, at, group, corpus>>

LeaveToOcr(i) ==
    /\ Turn("local", i)
    /\ Type(i) = "image"
    /\ retried' = retried \cup {i}
    /\ UNCHANGED <<cache, result>>

\* Mutant: OCR is tried on whatever could not be read.
RetryAnyFailure(r) == r.status \in {"scanned", "failed"}

RequiresOcrRetry(r) == r.status = "scanned"

ReadLocally(i) ==
    /\ Turn("local", i)
    /\ Type(i) \in {"pdf", "hwpx"}
    /\ Attempt(i)
    /\ retried' = IF RequiresOcrRetry(result'[i]) THEN retried \cup {i}
                                                  ELSE retried

\* No extractor is configured for the type.
Unsupported(i) ==
    /\ Turn("local", i)
    /\ Type(i) \in {"hwp", "other"}
    /\ result' = [result EXCEPT ![i] = Failed(NoContent)]
    /\ UNCHANGED <<retried, cache>>

\* Mutant: the candidates of earlier groups are still in the list.
EndKeepsOldCandidates ==
    /\ at = "local"
    /\ todo = {}
    /\ at' = "ocr"
    /\ todo' = retried
    /\ UNCHANGED <<notice, ocr, group, retried, cache, result, corpus>>

\* Mutant: one candidate sends its whole group to OCR.
EndRetriesGroup ==
    /\ at = "local"
    /\ todo = {}
    /\ at' = "ocr"
    /\ todo' = IF group \cap retried = {} THEN {} ELSE group
    /\ UNCHANGED <<notice, ocr, group, retried, cache, result, corpus>>

EndOfLocalPass ==
    /\ at = "local"
    /\ todo = {}
    /\ at' = "ocr"
    /\ todo' = group \cap retried
    /\ UNCHANGED <<notice, ocr, group, retried, cache, result, corpus>>

\* Mutant: a candidate stays in the queue until it has been read.
RetryUntilRead(i) ==
    /\ at = "ocr"
    /\ IsFirst(i, todo)
    /\ ocr
    /\ Attempt(i)
    /\ todo' = IF result'[i].status = "succeeded" THEN todo \ {i} ELSE todo
    /\ UNCHANGED <<notice, ocr, at, group, corpus, retried>>

RetryWithOcr(i) ==
    /\ Turn("ocr", i)
    /\ ocr
    /\ Attempt(i)
    /\ UNCHANGED retried

\* Mutant: without OCR the candidates are forgotten.
ForgetWithoutOcr(i) ==
    /\ Turn("ocr", i)
    /\ ~ocr
    /\ UNCHANGED <<retried, cache, result>>

\* Without OCR the first failure stands.
NoOcr(i) ==
    /\ Turn("ocr", i)
    /\ ~ocr
    /\ result' = [result EXCEPT ![i].status = "failed"]
    /\ UNCHANGED <<retried, cache>>
-------------------------------------------------------------------------------
(***************************************************************************)
(* The comparison of a group.                                              *)
(***************************************************************************)
\* results is sorted by the first attachment of the same name; the sort is
\* stable, and local results came before those of OCR.
NamedFirst(i, j) ==
    \E m \in DOMAIN notice :
       /\ SameName(m, i)
       /\ \A n \in DOMAIN notice : SameName(n, j) => m < n

Before(i, j) ==
    \/ NamedFirst(i, j)
    \/ /\ SameName(i, j)
       /\ \/ i \notin retried /\ j \in retried
          \/ (i \in retried <=> j \in retried) /\ i < j

Succeeded == {i \in group : result[i].status = "succeeded"}

\* Mutant: only neighbours are compared.
NeighboursDisagree(S) ==
    \E i, j \in S :
       /\ Before(i, j)
       /\ ~ \E k \in S : Before(i, k) /\ Before(k, j)
       /\ <<result[i].text, result[j].text>> \notin Agree

HasTextConflict(S) ==
    \E i, j \in S : Before(i, j) /\ <<result[i].text, result[j].text>> \notin Agree

Priority == [pdf |-> 0, hwpx |-> 1, image |-> 2, hwp |-> 3, other |-> 4]

Rank(i) == Priority[Type(i)]

\* Mutant: the last of those with the best format.
LastOfBest(i, S) ==
    /\ i \in S
    /\ \A j \in S \ {i} : Rank(i) < Rank(j) \/ (Rank(i) = Rank(j) /\ Before(j, i))

\* min() returns the first of those with the best format.

Represents(i, S) ==
    /\ i \in S
    /\ \A j \in S \ {i} : Rank(i) < Rank(j) \/ (Rank(i) = Rank(j) /\ Before(i, j))

\* Mutant: a group with a text needs no review for its failures.
AllFailed == Succeeded = {}

SomeFailed == Succeeded # group

Compare ==
    /\ at = "ocr"
    /\ todo = {}
    /\ at' = "group"
    /\ \E i \in group \cup {0} :
          /\ IF Succeeded = {} THEN i = 0 ELSE Represents(i, Succeeded)
          /\ corpus' = corpus \cup
                {[group          |-> group,
                  representative |-> i,
                  review         |-> SomeFailed \/ HasTextConflict(Succeeded)]}
    /\ UNCHANGED <<notice, ocr, group, todo, retried, cache, result>>

ReviewRequired == \E c \in corpus : c.review

Step ==
    \/ OpenGroup
    \/ EndOfNotice
    \/ \E i \in todo : \/ LeaveToOcr(i)
                       \/ ReadLocally(i)
                       \/ Unsupported(i)
                       \/ RetryWithOcr(i)
                       \/ NoOcr(i)
    \/ EndOfLocalPass
    \/ Compare

Next ==
    \/ \E list \in Listing, configured \in BOOLEAN : Analyse(list, configured)
    \/ Step

Spec == Init /\ [][Next]_vars

\* Downloads and OCR calls have timeouts, and nothing waits for anything else.
FairSpec == Spec /\ WF_vars(Step)
-------------------------------------------------------------------------------
(***************************************************************************)
(* Properties.                                                             *)
(***************************************************************************)
\* No attachment is lost between the passes: at the end each one has been
\* compared, and a group in which one could not be read asks for a review
\* (D-004: a remaining failure is a reason for a review and no result is
\* discarded).
NothingDropped ==
    /\ at = "idle" => DOMAIN notice \subseteq Compared
    /\ \A c \in corpus : \A i \in c.group :
          \/ result[i].status = "succeeded"
          \/ result[i].status = "failed" /\ c.review

\* When no review is asked for, every two formats of one document agree,
\* not only the neighbours in the list or each with the representative:
\* similarity is not transitive.
SilenceMeansAgreement ==
    at = "idle" /\ ~ReviewRequired =>
       \A i, j \in DOMAIN notice : i # j /\ SameDocument(i, j) =>
          \/ <<result[i].text, result[j].text>> \in Agree
          \/ <<result[j].text, result[i].text>> \in Agree

\* Within a group a URL is downloaded once: the formats that share it, and
\* the local pass and the OCR pass, read the same bytes, whatever the site
\* answers in between.
OneCopyPerUrl ==
    \A i, j \in group :
       /\ notice[i].url = notice[j].url
       /\ result[i].from # NoContent
       /\ result[j].from # NoContent
       => result[i].from = result[j].from

\* A result stands until the next notice: neither the OCR pass over its group,
\* nor that of a later group, nor the retry of another attachment with its
\* name reads again what has been read or has failed for good.
ResultsStand ==
    [][at # "idle" =>
          \A i \in DOMAIN notice :
             result[i].status \in {"succeeded", "failed"} => result'[i] = result[i]]_vars

\* OCR is a last resort: only images and PDF files with a page that has no
\* text are left to it (D-005), not files that failed otherwise.
OcrIsLastResort ==
    \A i \in retried :
       \/ Type(i) = "image"
       \/ Type(i) = "pdf" /\ result[i].from # NoContent /\ HasScan(result[i].from)

\* A group that could be read is represented by its best format and, of files
\* equally good, by the one whose name the notice lists first, though results
\* come in another order than the attachments: a scan comes last.
BestRepresents ==
    \A c \in corpus :
       LET read == {i \in c.group : result[i].status = "succeeded"} IN
       IF read = {}
       THEN c.representative = 0
       ELSE /\ c.representative \in read
            /\ \A i \in read :
                  /\ Rank(c.representative) <= Rank(i)
                  /\ Rank(c.representative) = Rank(i) => ~NamedFirst(i, c.representative)

\* The analysis of a notice comes to an end.
AnalysisEnds == at # "idle" ~> at = "idle"
===============================================================================
