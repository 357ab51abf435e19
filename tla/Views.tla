-------------------------------- MODULE Views --------------------------------
(***************************************************************************)
(* The two ways a client sees a transaction: GET /transactions/{id} is     *)
(* answered from the row of transaction-service, a search from the         *)
(* documents of search-service.  Both produce the same TransactionRecord.  *)
(*                                                                         *)
(* Texts stand for themselves and "absent" for null, undefined and blank;  *)
(* Absent is the same for numbers and lists.                               *)
(***************************************************************************)
EXTENDS Integers, Sequences, SequencesExt

CONSTANT Absent

\* The enums of transaction.types.ts.
TransactionStates   == {"INITIATED", "AI_PROCESSING", "REJECTED_MODERATION", "READY", "FAILED"}
AiProcessingStatuses == {"PENDING", "PROCESSING", "COMPLETED", "FAILED"}
SearchIndexStatuses == {"PENDING", "INDEXED_BASE", "INDEXED_ENRICHED", "FAILED"}
ModerationStatuses  == {"PENDING", "ALLOW", "REVIEW", "REJECT"}

\* The texts ai-service adds to a listing.
TextFields == {"summary", "riskNarrative", "improvedDescription"}
NoTexts    == [f \in TextFields |-> "absent"]

\* Array.prototype.filter.  It is SelectSeq, with a definition that proofs can unfold.
Kept(s, Test(_)) ==
    LET First[n \in 0..Len(s)] ==
            IF n = 0 THEN << >>
            ELSE IF Test(s[n]) THEN Append(First[n - 1], s[n]) ELSE First[n - 1]
    IN  First[Len(s)]

-----------------------------------------------------------------------------
(***************************************************************************)
(* search-document-to-transaction.mapper.ts: raw is what the document      *)
(* holds, which may be nothing.                                            *)
(***************************************************************************)
MapSearchIndexStatus(raw, texts) ==
    IF raw = "FAILED" THEN "FAILED"
    ELSE IF raw # "READY" THEN "PENDING"
    ELSE IF texts["summary"] # "absent" /\ texts["improvedDescription"] # "absent"
         THEN "INDEXED_ENRICHED"
         ELSE "INDEXED_BASE"

MapTransactionState(raw) == IF raw \in TransactionStates THEN raw ELSE "INITIATED"

MapAiStatus(raw) == IF raw \in AiProcessingStatuses THEN raw ELSE "PENDING"

MapModerationStatus(raw) == IF raw \in ModerationStatuses THEN raw ELSE "PENDING"

\* searchDocumentToTransactionRecord: the scores and versions are not indexed,
\* and a document without base data shows the price 0.
DocumentView(doc) ==
    [title            |-> doc.title,
     price            |-> IF doc.price = Absent THEN 0 ELSE doc.price,
     state            |-> MapTransactionState(doc.state),
     aiStatus         |-> MapAiStatus(doc.aiStatus),
     searchStatus     |-> MapSearchIndexStatus(doc.searchStatus, doc.texts),
     moderationStatus |-> MapModerationStatus(doc.moderationStatus),
     texts            |-> doc.texts,
     riskScore        |-> Absent,
     moderationReason |-> doc.moderationReason,
     moderationConfidence |-> Absent,
     searchTags       |-> doc.tags,
     versions         |-> Absent]

\* toTransactionRecord
RowView(row) ==
    [title            |-> row.title,
     price            |-> row.price,
     state            |-> row.state,
     aiStatus         |-> row.aiStatus,
     searchStatus     |-> row.searchStatus,
     moderationStatus |-> row.moderationStatus,
     texts            |-> row.texts,
     riskScore        |-> row.riskScore,
     moderationReason |-> row.moderationReason,
     moderationConfidence |-> row.moderationConfidence,
     searchTags       |-> row.searchTags,
     versions         |-> row.versions]

-----------------------------------------------------------------------------
(***************************************************************************)
(* From the services to the client.                                        *)
(***************************************************************************)
\* gRPC drops a repeated field that is empty.
OnTheWire(list) == IF list = << >> THEN Absent ELSE list

\* toGetTransactionResponse
GatewayView(record) == [record EXCEPT !.searchTags = OnTheWire(@)]

\* extractSearchTransactionRows: a reply without items is an empty list.
SearchTransactionRows(items) == IF items = Absent THEN << >> ELSE items

\* The words a document is found by: those of its base data, which have the names
\* of their fields here, and its texts.  An empty query finds everything.
Words(doc) ==
    (IF doc.title = "absent" THEN {} ELSE {"title"})
        \cup (IF doc.price = Absent THEN {} ELSE {"description", "propertyAddress"})
        \cup ({doc.texts[f] : f \in TextFields} \ {"absent"})

Finds(query, words) == query = "absent" \/ query \in words

\* TransactionSearchService.search over these documents, newest first.
SearchHits(query, docs) ==
    LET hits == Kept(docs, LAMBDA d : Finds(query, Words(d)))
    IN  [i \in DOMAIN hits |-> DocumentView(hits[i])]

\* The replies of the two services over gRPC.
SearchReply(query, docs) == OnTheWire(SearchHits(query, docs))
GetReply(row) == RowView(row)

\* The replies of the gateway.
SearchAnswer(query, docs) ==
    LET rows == SearchTransactionRows(SearchReply(query, docs))
    IN  [i \in DOMAIN rows |-> GatewayView(rows[i])]

GetAnswer(row) == GatewayView(GetReply(row))

=============================================================================
