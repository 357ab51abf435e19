----------------------------- MODULE Enrichment -----------------------------
(***************************************************************************)
(* What becomes of an answer of the language model: ai-service coerces and *)
(* validates it, search-service writes it to the index and passes it on as *)
(* a snapshot, transaction-service validates the snapshot by rules of its  *)
(* own and writes it to the row.  A transaction may be judged repeatedly.  *)
(*                                                                         *)
(* Each step here is a whole handler: their interleavings, duplicates and  *)
(* crashes are those of the consumer modules, this one is about the data.  *)
(*                                                                         *)
(* Not covered: the wording of texts.  A text is absent (not a string),    *)
(* blank, padded with spaces, or one of two plain ones.  Numbers are       *)
(* counted in thousandths.                                                 *)
(***************************************************************************)
EXTENDS Views, FiniteSets

CONSTANTS
    NoMessage,   \* an empty queue
    Prices,      \* the prices clients ask for
    Titles,      \* the titles they give, which stand for all the texts they send
    MaxPrice,    \* the largest price the column holds
    Model,       \* OPENROUTER_MODEL
    Outputs,     \* what the model may answer
    MaxAnswers   \* bound: answers

Plain    == {"plain", "other"}
Texts    == Plain \cup {"absent", "blank", "padded"}
Trim(t)  == IF t = "padded" THEN "plain" ELSE IF t = "blank" THEN "absent" ELSE t
IsText(t) == Trim(t) # "absent"

\* What a key that is missing or blank is replaced with.
Filled   == Plain \cup {"fallback"}

Reasons  == Filled \cup {"json_parse_failed", "schema_validation_failed"}

\* The largest risk score is 100, the largest confidence 1.
MaxScore      == 100000
MaxConfidence == 1000

\* An answer: its form, and the keys the schema knows, of which each text and each
\* tag may be anything, the numbers and the list may be missing, the object too.
Moderations(reasons) == [status : STRING, reason : reasons, confidence : Int \cup {Absent}]
Answers ==
    [form : {"json", "prose", "scalar", "broken"}, unknownKey : BOOLEAN,
     texts : [TextFields -> Texts], tags : Seq(Texts) \cup {Absent},
     riskScore : Int \cup {Absent}, moderation : Moderations(Texts) \cup {Absent}]

\* The payload of ai.enriched, by a model of that name, and the reason of ai.rejected.
EnrichedEvents(models) ==
    [type : {"ai.enriched"}, texts : [TextFields -> Filled], tags : Seq(Plain),
     riskScore : 0..MaxScore,
     moderation : [status : {"ALLOW", "REVIEW"}, reason : Filled, confidence : 0..MaxConfidence],
     versions : models \X {"v1"}]
RejectedEvents == [type : {"ai.rejected"}, reason : Reasons]
OutcomeEvents ==
    [type : {"search.index.updated"}, source : {"transaction.created"}, enrichment : {Absent}]
        \cup [type : {"search.index.updated"}, source : {"ai.enriched"},
              enrichment : EnrichedEvents(Plain)]
        \cup [type : {"search.index.rejected"}, reason : Reasons]

\* TransactionRecord: what a client is shown.
TransactionRecords ==
    [title : Texts, price : Int, state : TransactionStates, aiStatus : AiProcessingStatuses,
     searchStatus : SearchIndexStatuses, moderationStatus : ModerationStatuses,
     texts : [TextFields -> Filled \cup {"absent"}], riskScore : Int \cup {Absent},
     moderationReason : Reasons \cup {"absent"}, moderationConfidence : Int \cup {Absent},
     searchTags : Seq(Plain) \cup {Absent}, versions : (Plain \X {"v1"}) \cup {Absent}]

\* Joi refuses an empty model name, and no provider answers for one of spaces.
ASSUME EnrichmentAssumption ==
    /\ Model \in Texts /\ IsText(Model)
    /\ Outputs \subseteq Answers
    /\ Titles \subseteq Texts /\ Prices \subseteq Int /\ MaxPrice \in Nat

\* What is missing is no number, list or object, and no message is not a message.
ASSUME AbsentAssumption ==
    /\ Absent \notin Int /\ Absent \notin Texts \cup Filled /\ Absent \notin Seq(Texts)
    /\ Absent \notin Moderations(Texts \cup Filled)
    /\ Absent \notin EnrichedEvents(Texts) /\ Absent \notin Seq(TransactionRecords)
    /\ NoMessage \notin EnrichedEvents(Texts) \cup RejectedEvents \cup OutcomeEvents

VARIABLES
    row,      \* the row of transaction-service
    doc,      \* the document of search-service
    verdict,  \* the event on its way to search-service
    outcome,  \* the event on its way to transaction-service
    answers,  \* how often the model has answered
    last,     \* its last answer
    early     \* a verdict was merged before the base data

vars == <<row, doc, verdict, outcome, answers, last, early>>

-----------------------------------------------------------------------------
(***************************************************************************)
(* ai-service: parseResponse, normalizeEnrichmentPayloadBeforeValidation   *)
(* and aiEnrichmentOutputSchema.                                           *)
(***************************************************************************)
Statuses == {"ALLOW", "REVIEW", "REJECT"}

Upper(status) == IF status = "allow" THEN "ALLOW" ELSE IF status = "reject" THEN "REJECT" ELSE status

NonBlank(tags) == Kept(tags, IsText)
Trimmed(tags)  == [i \in DOMAIN tags |-> Trim(tags[i])]

\* Variant: the risk score is not clamped.
CoercedUnclamped(o) ==
    LET status == Upper(o.moderation.status) IN
    [o EXCEPT
        !.moderation.reason = IF IsText(@) THEN Trim(@) ELSE "fallback",
        !.texts = [f \in TextFields |-> IF IsText(@[f]) THEN Trim(@[f]) ELSE "fallback"],
        !.tags = IF @ = Absent THEN << >> ELSE Trimmed(NonBlank(@)),
        !.riskScore = IF @ # Absent THEN @
                      ELSE IF status \in {"REJECT", "REVIEW"} THEN 0 ELSE 50000]

\* normalizeTopLevelEnrichmentFields and the default reason.
Coerced(o) ==
    LET status == Upper(o.moderation.status) IN
    [o EXCEPT
        !.moderation.reason = IF IsText(@) THEN Trim(@) ELSE "fallback",
        !.texts = [f \in TextFields |-> IF IsText(@[f]) THEN Trim(@[f]) ELSE "fallback"],
        !.tags = IF @ = Absent THEN << >> ELSE Trimmed(NonBlank(@)),
        !.riskScore = IF @ = Absent
                      THEN IF status \in {"REJECT", "REVIEW"} THEN 0 ELSE 50000
                      ELSE IF @ < 0 THEN 0 ELSE IF @ > MaxScore THEN MaxScore ELSE @]

\* Without a moderation object nothing is coerced.
NormalizeEnrichmentPayloadBeforeValidation(o) ==
    IF o.moderation = Absent THEN o ELSE Coerced(o)

\* The schemas are strict: no conversion, no other keys; a text must come trimmed.
SchemaAccepts(o) ==
    /\ o.form \in {"json", "prose"}
    /\ ~o.unknownKey
    /\ \A f \in TextFields : o.texts[f] \in Filled
    /\ o.tags # Absent /\ "absent" \notin Range(o.tags)
    /\ o.riskScore # Absent /\ o.riskScore >= 0 /\ o.riskScore <= MaxScore
    /\ o.moderation # Absent
    /\ o.moderation.status \in Statuses
    /\ o.moderation.reason \in Filled
    /\ o.moderation.confidence # Absent
    /\ o.moderation.confidence >= 0 /\ o.moderation.confidence <= MaxConfidence

Rejected(reason) == [type |-> "ai.rejected", reason |-> reason]

\* What ai-service publishes for answer o.
VerdictOn(o) ==
    LET n == NormalizeEnrichmentPayloadBeforeValidation(o) IN
    IF o.form = "broken" THEN Rejected("json_parse_failed")
    ELSE IF ~SchemaAccepts(n) THEN Rejected("schema_validation_failed")
    ELSE IF n.moderation.status = "REJECT" THEN Rejected(n.moderation.reason)
    ELSE [type |-> "ai.enriched", texts |-> n.texts, tags |-> n.tags,
          riskScore |-> n.riskScore, moderation |-> n.moderation, versions |-> <<Model, "v1">>]

-----------------------------------------------------------------------------
(***************************************************************************)
(* search-service.                                                         *)
(***************************************************************************)
\* A document that does not exist reads as one with nothing in it.
NoDocument ==
    [title |-> "absent", price |-> Absent, state |-> "absent", aiStatus |-> "absent", searchStatus |-> "absent",
     moderationStatus |-> "absent", texts |-> NoTexts, moderationReason |-> "absent",
     tags |-> Absent]

HasBaseTransactionData == doc.price # Absent

\* Variant: a score of zero is taken for no score.
SnapshotWithoutZero(v) ==
    IF \A f \in TextFields : IsText(v.texts[f])
       /\ v.riskScore > 0 /\ v.riskScore <= MaxScore
       /\ v.moderation.status \in Statuses
    THEN [v EXCEPT !.texts = [f \in TextFields |-> Trim(@[f])], !.tags = NonBlank(@),
                   !.moderation.reason = Trim(@),
                   !.versions = <<Trim(@[1]), Trim(@[2])>>]
    ELSE Absent

\* tryBuildSearchIndexEnrichment: the tags are filtered and not trimmed.
Snapshot(v) ==
    IF /\ \A f \in TextFields : IsText(v.texts[f])
       /\ v.riskScore >= 0 /\ v.riskScore <= MaxScore
       /\ IsText(v.versions[1]) /\ IsText(v.versions[2])
       /\ Upper(v.moderation.status) \in Statuses
       /\ v.moderation.confidence >= 0 /\ v.moderation.confidence <= MaxConfidence
    THEN [v EXCEPT !.texts = [f \in TextFields |-> Trim(@[f])], !.tags = NonBlank(@),
                   !.moderation.status = Upper(@), !.moderation.reason = Trim(@),
                   !.versions = <<Trim(@[1]), Trim(@[2])>>]
    ELSE Absent

\* Variant: what the document has is not overwritten.
EnrichedKeeping(v) ==
    [doc EXCEPT
        !.texts = [f \in TextFields |-> IF IsText(@[f]) THEN @[f] ELSE Trim(v.texts[f])],
        !.tags = IF NonBlank(v.tags) = << >> THEN @ ELSE Trimmed(NonBlank(v.tags)),
        !.aiStatus = "COMPLETED",
        !.moderationStatus = "ALLOW",
        !.searchStatus = IF HasBaseTransactionData THEN "READY" ELSE "PENDING_BASE"]

\* handleAiEnriched, through toUpsert and cleanPatch: blank texts and empty lists
\* are left out of the patch, so what the document has in their place stays.
Enriched(v) ==
    [doc EXCEPT
        !.texts = [f \in TextFields |-> IF IsText(v.texts[f]) THEN Trim(v.texts[f]) ELSE @[f]],
        !.tags = IF NonBlank(v.tags) = << >> THEN @ ELSE Trimmed(NonBlank(v.tags)),
        !.aiStatus = "COMPLETED",
        !.moderationStatus = "ALLOW",
        !.searchStatus = IF HasBaseTransactionData THEN "READY" ELSE "PENDING_BASE"]

\* Variant: the reason is not indexed.
RefusedSilently(v) ==
    [doc EXCEPT
        !.moderationStatus = "REJECT",
        !.aiStatus = "FAILED",
        !.searchStatus = IF HasBaseTransactionData THEN "FAILED" ELSE "PENDING_BASE"]

\* handleAiRejected
Refused(v) ==
    [doc EXCEPT
        !.moderationStatus = "REJECT",
        !.moderationReason = v.reason,
        !.aiStatus = "FAILED",
        !.searchStatus = IF HasBaseTransactionData THEN "FAILED" ELSE "PENDING_BASE"]

\* publishStatusUpdated, publishStatusRejected
Updated(source, enrichment) ==
    [type |-> "search.index.updated", source |-> source, enrichment |-> enrichment]
RejectedFor(reason) == [type |-> "search.index.rejected", reason |-> reason]

-----------------------------------------------------------------------------
(***************************************************************************)
(* transaction-service.                                                    *)
(***************************************************************************)
\* Variant: the columns keep every digit.
StoredExactly(n) == n

\* A numeric column keeps two decimals and rounds half away from zero.
Stored(n) == ((n + 5) \div 10) * 10

NewRow(title, price) ==
    [title |-> title, price |-> Stored(price), state |-> "INITIATED", aiStatus |-> "PENDING",
     searchStatus |-> "PENDING", moderationStatus |-> "PENDING", texts |-> NoTexts,
     riskScore |-> Absent, moderationReason |-> "absent", moderationConfidence |-> Absent,
     searchTags |-> Absent, versions |-> Absent]

\* isValidSearchIndexEnrichment
IsValidSearchIndexEnrichment(e) ==
    /\ \A f \in TextFields : IsText(e.texts[f])
    /\ e.riskScore >= 0 /\ e.riskScore <= MaxScore
    /\ IsText(e.versions[1]) /\ IsText(e.versions[2])
    /\ Upper(e.moderation.status) \in Statuses
    /\ e.moderation.reason # Absent
    /\ e.moderation.confidence >= 0 /\ e.moderation.confidence <= MaxConfidence

\* normalizeSearchIndexEnrichment
NormalizeSearchIndexEnrichment(e) ==
    [e EXCEPT !.texts = [f \in TextFields |-> Trim(@[f])],
              !.tags = NonBlank(Trimmed(@)),
              !.moderation.status = Upper(@), !.moderation.reason = Trim(@),
              !.versions = <<Trim(@[1]), Trim(@[2])>>]

\* resolveSearchIndexEnrichment
ResolveSearchIndexEnrichment(o) ==
    IF o.source # "ai.enriched" \/ o.enrichment = Absent THEN Absent
    ELSE IF ~IsValidSearchIndexEnrichment(o.enrichment) THEN Absent
    ELSE NormalizeSearchIndexEnrichment(o.enrichment)

\* Variant: the status of the snapshot is not looked at.
AppliedAsAllowed(o) ==
    LET e == ResolveSearchIndexEnrichment(o) IN
    IF e = Absent
    THEN [row EXCEPT !.searchStatus = "INDEXED_BASE", !.state = "AI_PROCESSING"]
    ELSE [row EXCEPT !.searchStatus = "INDEXED_ENRICHED", !.state = "READY",
                     !.aiStatus = "COMPLETED", !.moderationStatus = "ALLOW", !.texts = e.texts,
                     !.riskScore = Stored(e.riskScore), !.searchTags = e.tags,
                     !.versions = e.versions, !.moderationReason = e.moderation.reason,
                     !.moderationConfidence = Stored(e.moderation.confidence)]

\* applySearchIndexUpdated
Applied(o) ==
    LET e == ResolveSearchIndexEnrichment(o)
        enriched == [row EXCEPT !.searchStatus = "INDEXED_ENRICHED", !.state = "READY",
                                !.aiStatus = "COMPLETED"]
    IN  IF o.source = "transaction.created"
        THEN [row EXCEPT !.searchStatus = "INDEXED_BASE", !.state = "AI_PROCESSING"]
        ELSE IF e = Absent THEN [enriched EXCEPT !.moderationStatus = "ALLOW"]
        ELSE [enriched EXCEPT !.texts = e.texts, !.riskScore = Stored(e.riskScore),
                              !.searchTags = e.tags, !.versions = e.versions,
                              !.moderationStatus = e.moderation.status,
                              !.moderationReason = e.moderation.reason,
                              !.moderationConfidence = Stored(e.moderation.confidence)]

\* applySearchIndexRejected
AppliedRejection(o) ==
    [row EXCEPT !.searchStatus = "FAILED", !.state = "REJECTED_MODERATION",
                !.aiStatus = "FAILED", !.moderationStatus = "REJECT",
                !.moderationReason = Trim(o.reason)]

-----------------------------------------------------------------------------
(***************************************************************************)
(* The steps.                                                              *)
(***************************************************************************)
\* CreateTransactionRequestDto: the texts are strings of a least length, and a blank
\* has a length too; the price is positive.
Validated(title, price) == title # "absent" /\ price > 0

\* The insert fails when the price does not fit its column.
Init ==
    /\ \E t \in Titles, p \in Prices :
          Validated(t, p) /\ Stored(p) <= MaxPrice /\ row = NewRow(t, p)
    /\ doc = NoDocument
    /\ verdict = NoMessage /\ outcome = NoMessage
    /\ answers = 0 /\ last = NoMessage
    /\ early = FALSE

\* ai-service gets an answer and publishes its verdict.
ModelAnswers(o) ==
    /\ answers < MaxAnswers /\ verdict = NoMessage
    /\ answers' = answers + 1
    /\ last' = o
    /\ verdict' = VerdictOn(o)
    /\ UNCHANGED <<row, doc, outcome, early>>

\* handleTransactionUpsert, for the event of createTransaction.
IndexBase ==
    /\ outcome = NoMessage
    /\ ~HasBaseTransactionData
    /\ LET reject == doc.moderationStatus = "REJECT" IN
       /\ doc' = [doc EXCEPT !.title = IF IsText(row.title) THEN Trim(row.title) ELSE @,
                             !.price = row.price, !.state = "INITIATED",
                             !.searchStatus = IF reject THEN "FAILED" ELSE "READY"]
       /\ outcome' = IF reject THEN RejectedFor(doc.moderationReason)
                               ELSE Updated("transaction.created", Absent)
    /\ UNCHANGED <<row, verdict, answers, last, early>>

IndexVerdict ==
    /\ verdict # NoMessage /\ outcome = NoMessage
    /\ verdict' = NoMessage
    /\ doc' = IF verdict.type = "ai.enriched" THEN Enriched(verdict) ELSE Refused(verdict)
    /\ outcome' = IF ~HasBaseTransactionData THEN NoMessage
                  ELSE IF verdict.type = "ai.enriched"
                       THEN Updated("ai.enriched", Snapshot(verdict))
                       ELSE RejectedFor(verdict.reason)
    /\ early' = (early \/ ~HasBaseTransactionData)
    /\ UNCHANGED <<row, answers, last>>

ApplyOutcome ==
    /\ outcome # NoMessage
    /\ outcome' = NoMessage
    /\ row' = IF outcome.type = "search.index.updated" THEN Applied(outcome)
                                                       ELSE AppliedRejection(outcome)
    /\ UNCHANGED <<doc, verdict, answers, last, early>>

Next == (\E o \in Outputs : ModelAnswers(o)) \/ IndexBase \/ IndexVerdict \/ ApplyOutcome

Spec == Init /\ [][Next]_vars

-----------------------------------------------------------------------------
(***************************************************************************)
(* Properties.                                                             *)
(***************************************************************************)
\* The values the row and the document may hold: no text is blank or padded, a
\* score has two decimals and its range.
TypeOK ==
    /\ row \in [title : Texts \ {"absent"},
                price : {n * 10 : n \in 0..(MaxPrice \div 10)}, state : TransactionStates,
                aiStatus : AiProcessingStatuses, searchStatus : SearchIndexStatuses,
                moderationStatus : ModerationStatuses,
                texts : [TextFields -> Filled \cup {"absent"}],
                riskScore : {n * 10 : n \in 0..(MaxScore \div 10)} \cup {Absent},
                moderationReason : Reasons \cup {"absent"},
                moderationConfidence : {n * 10 : n \in 0..(MaxConfidence \div 10)} \cup {Absent},
                searchTags : Seq(Plain) \cup {Absent},
                versions : (Plain \X {"v1"}) \cup {Absent}]
    /\ doc.title \in Plain \cup {"absent"}
    /\ doc.texts \in [TextFields -> Filled \cup {"absent"}]
    /\ doc.tags # Absent => doc.tags \in Seq(Plain) \ {<< >>}

\* Two validators, one snapshot: whatever the model answered, search-service has
\* a snapshot to send for an ai.enriched, and transaction-service takes it as it
\* is; a snapshot it refused would leave the AI columns of a READY row empty.
SnapshotIsTaken ==
    /\ outcome # NoMessage
    /\ outcome.type = "search.index.updated"
    /\ outcome.source = "ai.enriched"
    => /\ outcome.enrichment # Absent
       /\ ResolveSearchIndexEnrichment(outcome) = outcome.enrichment

\* "Coerces model output so Joi passes" (ai-enrichment-output.schema.ts:104): an
\* object with a known status, a confidence in range and no other keys is never
\* refused, whatever its texts, tags and score are.
CoercionSuffices ==
    verdict # NoMessage /\ verdict = Rejected("schema_validation_failed") =>
        \/ last.form = "scalar" \/ last.unknownKey \/ last.moderation = Absent
        \/ last.moderation.status \notin Statuses
        \/ last.moderation.confidence = Absent
        \/ last.moderation.confidence \notin 0..MaxConfidence

AtRest == verdict = NoMessage /\ outcome = NoMessage

\* On its way through three services a verdict is never made milder: a row that
\* is READY shows the very status and reason of the model's last answer.  Excepted
\* are transactions of which a verdict was merged before the base data: an ai.enriched
\* that comes first is not reported (EnrichmentReported in SearchConsumer).
VerdictSurvives ==
    AtRest /\ ~early /\ answers > 0 /\ HasBaseTransactionData =>
        IF row.state = "READY"
        THEN /\ row.moderationStatus = last.moderation.status
             /\ IsText(last.moderation.reason) => row.moderationReason = Trim(last.moderation.reason)
        ELSE VerdictOn(last) = Rejected(row.moderationReason)

\* "with a moderationReason derived from the model" (README.md:160): who sees a
\* rejected listing, in either view, is told why, also when the rejection waited
\* in the index for the base data.
RejectionHasReason ==
    /\ row.state = "REJECTED_MODERATION" => GetAnswer(row).moderationReason \in Reasons
    /\ \A d \in Range(SearchAnswer("absent", <<doc>>)) :
          d.moderationStatus = "REJECT" => d.moderationReason \in Reasons

\* The row as GET shows it, and the only hit of a search.
Got   == GetAnswer(row)
Found == SearchAnswer("absent", <<doc>>)[1]

\* What GET and search both show is the same when nothing is under way: the title
\* (without the spaces around it) and the price; whether the listing is rejected, and
\* why, also when a verdict came before the base data; and, unless one did, the
\* texts of ai-service, how far processing got, whether a verdict is pending, and the
\* tags if the last answer had any.
\* The rest is not shared: a hit has the state of the creation, neither scores nor
\* versions, no REVIEW (ReviewIsShown), and a reason and tags that may be those of
\* an earlier verdict (NothingLeftOver).
SharedFieldsAgree ==
    AtRest /\ HasBaseTransactionData =>
        /\ Found.title = Trim(Got.title)
        /\ Found.price = Got.price
        /\ (Found.moderationStatus = "REJECT") <=> (Got.moderationStatus = "REJECT")
        /\ Got.moderationStatus = "REJECT" => Found.moderationReason = Got.moderationReason
        /\ ~early =>
              /\ Found.texts = Got.texts
              /\ Found.aiStatus = Got.aiStatus
              /\ Found.searchStatus = Got.searchStatus
              /\ (Found.moderationStatus = "PENDING") <=> (Got.moderationStatus = "PENDING")
              /\ Got.searchTags # Absent => Found.searchTags = Got.searchTags

\* "Elasticsearch is a derived search index, not the system of record" (README.md:13):
\* what a search shows of the last verdict is what the row has of it, or nothing.  That
\* is a REVIEW, one of the values of moderationStatus (README.md:169) in the records a
\* search lists too (search-transactions-response.dto.ts:5), the reason and the tags.
ReviewIsShown == Got.moderationStatus = "REVIEW" => Found.moderationStatus = "REVIEW"
NothingLeftOver ==
    /\ Found.moderationReason \in {"absent", Got.moderationReason}
    /\ Found.searchTags \in {Absent, Got.searchTags}

IndexIsDerived ==
    AtRest /\ ~early /\ HasBaseTransactionData => ReviewIsShown /\ NothingLeftOver

=============================================================================
