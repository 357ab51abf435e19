-------------------------- MODULE EnrichmentProofs --------------------------
(***************************************************************************)
(* Proofs about Enrichment: for every answer a model may give, any number  *)
(* of answers and every title and price, what the index, the row and the   *)
(* events between them hold, and that the two validators agree and the two *)
(* views do in the fields they share.                                      *)
(***************************************************************************)
EXTENDS Enrichment, WellFoundedInduction, TLAPS

-----------------------------------------------------------------------------
(***************************************************************************)
(* Lists.  Kept is defined by recursion on the length of the list.         *)
(***************************************************************************)
\* Counting from 0 to n: the least number outside S would have a predecessor in S.
LEMMA CountUp ==
    ASSUME NEW n \in Nat, NEW S, 0 \in S, \A i \in 0..(n - 1) : i \in S => i + 1 \in S
    PROVE  \A i \in 0..n : i \in S
<1> DEFINE missing == {i \in 0..n : i \notin S}
<1> SUFFICES ASSUME missing # {}
             PROVE  FALSE
  OBVIOUS
<1>1. missing \subseteq Nat
  OBVIOUS
<1>2. PICK b \in missing : \A c \in missing : ~ (<<c, b>> \in OpToRel(<, Nat))
  <2> HIDE DEF missing
  <2> QED
    BY <1>1, WFMin, NatLessThanWellFounded
<1>3. \A c \in missing : ~ (c < b)
  BY <1>1, <1>2 DEF OpToRel
<1>4. b \in 0..n /\ b # 0 /\ b - 1 \in 0..(n - 1)
  OBVIOUS
<1>5. b - 1 \in S
  BY <1>3, <1>4
<1> QED
  BY <1>4, <1>5

\* The list grows by the element that is looked at, or stays.
Grows(s, K, f, n) ==
    f[n] = IF n = 0 THEN << >>
           ELSE IF s[n] \in K THEN Append(f[n - 1], s[n]) ELSE f[n - 1]

\* There is a function as the recursion wants it, so that CHOOSE finds one.
LEMMA GrowingList ==
    ASSUME NEW S, NEW s \in Seq(S), NEW K
    PROVE  \E f : f = [n \in 0..Len(s) |->
                         IF n = 0 THEN << >>
                         ELSE IF s[n] \in K THEN Append(f[n - 1], s[n]) ELSE f[n - 1]]
<1> DEFINE good == {n \in 0..Len(s) :
                       \E f : DOMAIN f = 0..n /\ f = [i \in 0..n |-> f[i]]
                              /\ \A i \in 0..n : Grows(s, K, f, i)}
<1>0. Len(s) \in Nat
  OBVIOUS
<1>1. 0 \in good
  <2> DEFINE f == [i \in 0..0 |-> << >>]
  <2>1. DOMAIN f = 0..0 /\ f = [i \in 0..0 |-> f[i]] /\ \A i \in 0..0 : Grows(s, K, f, i)
    BY DEF Grows
  <2> HIDE DEF f
  <2> QED
    BY <1>0, <2>1
<1>2. ASSUME NEW n \in 0..(Len(s) - 1), n \in good
      PROVE  n + 1 \in good
  <2>1. PICK f : DOMAIN f = 0..n /\ \A i \in 0..n : Grows(s, K, f, i)
    BY <1>2
  <2> DEFINE top == IF s[n + 1] \in K THEN Append(f[n], s[n + 1]) ELSE f[n]
             g == [i \in 0..(n + 1) |-> IF i = n + 1 THEN top ELSE f[i]]
  <2>2. ASSUME NEW i \in 0..(n + 1)
        PROVE  Grows(s, K, g, i)
    <3>1. CASE i = n + 1
      <4>1. g[i] = top /\ i # 0 /\ i - 1 = n /\ g[i - 1] = f[n]
        BY <1>0, <3>1
      <4> HIDE DEF g
      <4> QED
        BY <3>1, <4>1 DEF Grows
    <3>2. CASE i # n + 1
      <4>1. i \in 0..n /\ g[i] = f[i] /\ (i # 0 => g[i - 1] = f[i - 1])
        BY <1>0, <3>2
      <4> HIDE DEF g
      <4> QED
        BY <2>1, <4>1 DEF Grows
    <3> QED
      BY <3>1, <3>2
  <2>3. DOMAIN g = 0..(n + 1) /\ g = [i \in 0..(n + 1) |-> g[i]]
    OBVIOUS
  <2> HIDE DEF g
  <2> QED
    BY <1>0, <2>2, <2>3
<1>3. Len(s) \in good
  <2> HIDE DEF good
  <2>1. \A n \in 0..(Len(s) - 1) : n \in good => n + 1 \in good
    BY <1>2
  <2>2. \A n \in 0..Len(s) : n \in good
    BY <1>0, <1>1, <2>1, CountUp
  <2> QED
    BY <1>0, <2>2
<1>4. PICK f : /\ DOMAIN f = 0..Len(s) /\ f = [i \in 0..Len(s) |-> f[i]]
               /\ \A i \in 0..Len(s) : Grows(s, K, f, i)
  BY <1>3
<1>5. f = [n \in 0..Len(s) |->
              IF n = 0 THEN << >>
              ELSE IF s[n] \in K THEN Append(f[n - 1], s[n]) ELSE f[n - 1]]
  BY <1>4 DEF Grows
<1> QED
  BY <1>5

\* What is kept of a list of texts; and a list without blanks is kept as it is.
LEMMA NonBlankShape ==
    ASSUME NEW s \in Seq(Texts)
    PROVE  /\ NonBlank(s) \in Seq(Plain \cup {"padded"})
           /\ (\A i \in DOMAIN s : IsText(s[i])) => NonBlank(s) = s
<1> DEFINE K == Plain \cup {"padded"}
           F == CHOOSE f : f = [n \in 0..Len(s) |->
                    IF n = 0 THEN << >>
                    ELSE IF s[n] \in K THEN Append(f[n - 1], s[n]) ELSE f[n - 1]]
<1>0. Len(s) \in Nat /\ DOMAIN s = 1..Len(s) /\ \A i \in 1..Len(s) : s[i] \in Texts
  OBVIOUS
<1>1. \A t \in Texts : IsText(t) <=> t \in K
  BY DEF Texts, Plain, IsText, Trim
<1>2. F = [n \in 0..Len(s) |-> IF n = 0 THEN << >>
                               ELSE IF s[n] \in K THEN Append(F[n - 1], s[n]) ELSE F[n - 1]]
  <2> HIDE DEF K
  <2>1. \E f : f = [n \in 0..Len(s) |->
                     IF n = 0 THEN << >>
                     ELSE IF s[n] \in K THEN Append(f[n - 1], s[n]) ELSE f[n - 1]]
    BY GrowingList
  <2> QED
    BY <2>1
<1>3. NonBlank(s) = F[Len(s)]
  <2>1. ASSUME NEW f
        PROVE  [n \in 0..Len(s) |->
                    IF n = 0 THEN << >>
                    ELSE IF IsText(s[n]) THEN Append(f[n - 1], s[n]) ELSE f[n - 1]]
               = [n \in 0..Len(s) |->
                    IF n = 0 THEN << >>
                    ELSE IF s[n] \in K THEN Append(f[n - 1], s[n]) ELSE f[n - 1]]
    BY <1>0, <1>1
  <2> QED
    BY <2>1 DEF NonBlank, Kept
<1> HIDE DEF F, K
<1>6. F[0] = << >> /\ \A n \in 0..(Len(s) - 1) :
                        /\ n + 1 \in 1..Len(s)
                        /\ F[n + 1] = IF s[n + 1] \in K THEN Append(F[n], s[n + 1]) ELSE F[n]
  <2>1. ASSUME NEW n \in 0..(Len(s) - 1)
        PROVE  n + 1 \in 1..Len(s) /\ n + 1 \in 0..Len(s) /\ n + 1 # 0 /\ (n + 1) - 1 = n
    BY <1>0
  <2>2. ASSUME NEW n \in 0..Len(s)
        PROVE  F[n] = IF n = 0 THEN << >>
                      ELSE IF s[n] \in K THEN Append(F[n - 1], s[n]) ELSE F[n - 1]
    BY <1>2
  <2>3. F[0] = << >>
    BY <1>0, <2>2
  <2>4. ASSUME NEW n \in 0..(Len(s) - 1)
        PROVE  F[n + 1] = IF s[n + 1] \in K THEN Append(F[n], s[n + 1]) ELSE F[n]
    <3>1. F[n + 1] = IF n + 1 = 0 THEN << >>
                     ELSE IF s[n + 1] \in K THEN Append(F[(n + 1) - 1], s[n + 1])
                     ELSE F[(n + 1) - 1]
      BY <2>1, <2>2
    <3> QED
      BY <2>1, <3>1
  <2> QED
    BY <2>1, <2>3, <2>4
<1>4. \A n \in 0..Len(s) : F[n] \in Seq(K)
  <2> DEFINE good == {n \in 0..Len(s) : F[n] \in Seq(K)}
  <2>1. 0 \in good
    BY <1>0, <1>2
  <2>2. ASSUME NEW n \in 0..(Len(s) - 1), n \in good
        PROVE  n + 1 \in good
    <3>1. F[n] \in Seq(K)
      BY <2>2
    <3>2. F[n + 1] \in Seq(K)
      <4>1. CASE s[n + 1] \in K
        <5>1. F[n + 1] = Append(F[n], s[n + 1])
          BY <1>6, <4>1
        <5>2. \A q \in Seq(K), t \in K : Append(q, t) \in Seq(K)
          OBVIOUS
        <5> QED
          BY <3>1, <4>1, <5>1, <5>2
      <4>2. CASE s[n + 1] \notin K
        BY <1>6, <3>1, <4>2
      <4> QED
        BY <4>1, <4>2
    <3> QED
      BY <1>0, <3>2
  <2> HIDE DEF good
  <2>3. \A n \in 0..(Len(s) - 1) : n \in good => n + 1 \in good
    BY <2>2
  <2>4. \A n \in 0..Len(s) : n \in good
    BY <1>0, <2>1, <2>3, CountUp
  <2> QED
    BY <2>4 DEF good
<1>5. ASSUME \A i \in DOMAIN s : IsText(s[i])
      PROVE  F[Len(s)] = s
  <2> DEFINE good == {n \in 0..Len(s) : F[n] = SubSeq(s, 1, n)}
  <2>1. 0 \in good
    BY <1>0, <1>2
  <2>2. ASSUME NEW n \in 0..(Len(s) - 1), n \in good
        PROVE  n + 1 \in good
    <3>0. s[n + 1] \in K
      BY <1>0, <1>1, <1>5, <1>6
    <3>1. F[n + 1] = Append(SubSeq(s, 1, n), s[n + 1])
      BY <1>6, <2>2, <3>0
    <3>2. Append(SubSeq(s, 1, n), s[n + 1]) = SubSeq(s, 1, n + 1)
      BY <1>0
    <3> QED
      BY <1>0, <3>1, <3>2
  <2> HIDE DEF good
  <2>3. \A n \in 0..(Len(s) - 1) : n \in good => n + 1 \in good
    BY <2>2
  <2>4. \A n \in 0..Len(s) : n \in good
    BY <1>0, <2>1, <2>3, CountUp
  <2>5. F[Len(s)] = SubSeq(s, 1, Len(s))
    BY <1>0, <2>4 DEF good
  <2> QED
    BY <2>5
<1> QED
  BY <1>0, <1>3, <1>4, <1>5 DEF K

\* A search for anything in an index of one document shows that document.
LEMMA OneHit ==
    ASSUME NEW d, DocumentView(d) \in TransactionRecords
    PROVE  SearchAnswer("absent", <<d>>) = <<GatewayView(DocumentView(d))>>
<1> DEFINE s == <<d>>
           F == CHOOSE f : f = [n \in 0..Len(s) |->
                    IF n = 0 THEN << >>
                    ELSE IF s[n] \in {d} THEN Append(f[n - 1], s[n]) ELSE f[n - 1]]
<1>0. s \in Seq({d}) /\ Len(s) = 1 /\ s[1] = d
  OBVIOUS
<1>1. F = [n \in 0..Len(s) |-> IF n = 0 THEN << >>
                               ELSE IF s[n] \in {d} THEN Append(F[n - 1], s[n]) ELSE F[n - 1]]
  <2> HIDE DEF s
  <2>1. \E f : f = [n \in 0..Len(s) |->
                     IF n = 0 THEN << >>
                     ELSE IF s[n] \in {d} THEN Append(f[n - 1], s[n]) ELSE f[n - 1]]
    BY <1>0, GrowingList
  <2> QED
    BY <2>1
<1>2. Kept(s, LAMBDA e : Finds("absent", Words(e))) = F[Len(s)]
  <2>1. ASSUME NEW f
        PROVE  [n \in 0..Len(s) |->
                    IF n = 0 THEN << >>
                    ELSE IF Finds("absent", Words(s[n])) THEN Append(f[n - 1], s[n]) ELSE f[n - 1]]
               = [n \in 0..Len(s) |->
                    IF n = 0 THEN << >>
                    ELSE IF s[n] \in {d} THEN Append(f[n - 1], s[n]) ELSE f[n - 1]]
    BY <1>0 DEF Finds
  <2> QED
    BY <2>1 DEF Kept
<1> HIDE DEF F
<1>3. F[0] = << >> /\ F[1] = Append(F[0], d)
  BY <1>0, <1>1
<1>4. Kept(s, LAMBDA e : Finds("absent", Words(e))) = <<d>>
  BY <1>0, <1>2, <1>3
<1>5. SearchHits("absent", s) = <<DocumentView(d)>>
  <2>1. SearchHits("absent", s) = [i \in DOMAIN <<d>> |-> DocumentView(<<d>>[i])]
    BY <1>4 DEF SearchHits
  <2>2. [i \in DOMAIN <<d>> |-> DocumentView(<<d>>[i])] = <<DocumentView(d)>>
    OBVIOUS
  <2> QED
    BY <2>1, <2>2
<1>6. <<DocumentView(d)>> # << >> /\ <<DocumentView(d)>> # Absent
  <2>1. <<DocumentView(d)>> \in Seq(TransactionRecords)
    OBVIOUS
  <2> QED
    BY <2>1, AbsentAssumption
<1>7. SearchTransactionRows(SearchReply("absent", s)) = <<DocumentView(d)>>
  BY <1>5, <1>6 DEF SearchTransactionRows, SearchReply, OnTheWire
<1> QED
  BY <1>7 DEF SearchAnswer

-----------------------------------------------------------------------------
(***************************************************************************)
(* What the index, the row and the events between them hold.               *)
(***************************************************************************)
RowRecords ==
    [title : Texts \ {"absent"}, price : {n * 10 : n \in 0..(MaxPrice \div 10)},
     state : TransactionStates, aiStatus : AiProcessingStatuses,
     searchStatus : SearchIndexStatuses, moderationStatus : ModerationStatuses,
     texts : [TextFields -> Filled \cup {"absent"}],
     riskScore : {n * 10 : n \in 0..(MaxScore \div 10)} \cup {Absent},
     moderationReason : Reasons \cup {"absent"},
     moderationConfidence : {n * 10 : n \in 0..(MaxConfidence \div 10)} \cup {Absent},
     searchTags : Seq(Plain) \cup {Absent}, versions : (Plain \X {"v1"}) \cup {Absent}]

DocumentRecords ==
    [title : Plain \cup {"absent"}, price : Int \cup {Absent},
     state : {"absent", "INITIATED"}, aiStatus : {"absent", "COMPLETED", "FAILED"},
     searchStatus : {"absent", "READY", "FAILED", "PENDING_BASE"},
     moderationStatus : {"absent", "ALLOW", "REJECT"},
     texts : [TextFields -> Filled \cup {"absent"}], moderationReason : Reasons \cup {"absent"},
     tags : (Seq(Plain) \ {<< >>}) \cup {Absent}]

\* Whoever is refused is told why.
Explained(moderated, reason) == moderated = "REJECT" => reason \in Reasons

\* A row is explained when it says why it was refused.
RowFits(r) ==
    r \in RowRecords /\ (r.state = "REJECTED_MODERATION" => r.moderationReason \in Reasons)

TypeInv ==
    /\ RowFits(row)
    /\ doc \in DocumentRecords /\ Explained(doc.moderationStatus, doc.moderationReason)
    /\ verdict \in EnrichedEvents({Model}) \cup RejectedEvents \cup {NoMessage}
    /\ outcome \in OutcomeEvents \cup {NoMessage}
    /\ answers \in Nat /\ (answers > 0 => last \in Outputs)
    /\ verdict # NoMessage =>
          answers > 0 /\ \E o \in Outputs : last = o /\ verdict = VerdictOn(o)
    /\ early \in BOOLEAN

\* Row r as it will be when outcome o has arrived.
After(r, o) ==
    IF o = NoMessage THEN r
    ELSE IF o.type = "search.index.rejected"
    THEN [r EXCEPT !.searchStatus = "FAILED", !.state = "REJECTED_MODERATION",
                   !.aiStatus = "FAILED", !.moderationStatus = "REJECT",
                   !.moderationReason = o.reason]
    ELSE IF o.source = "transaction.created"
    THEN [r EXCEPT !.searchStatus = "INDEXED_BASE", !.state = "AI_PROCESSING"]
    ELSE [r EXCEPT !.searchStatus = "INDEXED_ENRICHED", !.state = "READY",
                   !.aiStatus = "COMPLETED", !.texts = o.enrichment.texts,
                   !.riskScore = Stored(o.enrichment.riskScore),
                   !.searchTags = o.enrichment.tags, !.versions = o.enrichment.versions,
                   !.moderationStatus = o.enrichment.moderation.status,
                   !.moderationReason = o.enrichment.moderation.reason,
                   !.moderationConfidence = Stored(o.enrichment.moderation.confidence)]

\* What GET shows of row r against what a search shows of document d, in the fields both
\* fill when no verdict came early; the index has no REVIEW, it says ALLOW.
Agree(r, d) ==
    LET got == GetAnswer(r)
        found == GatewayView(DocumentView(d))
    IN  /\ found.title = Trim(got.title)
        /\ found.price = got.price
        /\ found.texts = got.texts
        /\ found.aiStatus = got.aiStatus
        /\ found.searchStatus = got.searchStatus
        /\ found.moderationStatus = IF got.moderationStatus = "REVIEW" THEN "ALLOW"
                                    ELSE got.moderationStatus
        /\ got.searchTags # Absent => found.searchTags = got.searchTags

\* A row that says what the model answered.
Tells(r, o) ==
    IF r.state = "READY"
    THEN /\ r.moderationStatus = o.moderation.status
         /\ IsText(o.moderation.reason) => r.moderationReason = Trim(o.moderation.reason)
    ELSE VerdictOn(o) = Rejected(r.moderationReason)

\* Before the base data is indexed the row is new; after it, unless a verdict was
\* indexed first, the row to come agrees with the index and with the last verdict.
ViewsInv ==
    IF HasBaseTransactionData
    THEN ~early => \E r \in {After(row, outcome)}, d \in {doc} :
                      /\ Agree(r, d)
                      /\ verdict = NoMessage /\ answers > 0 =>
                            \E o \in Outputs : o = last /\ Tells(r, o)
    ELSE /\ outcome = NoMessage
         /\ \E t \in Titles, p \in Prices : Validated(t, p) /\ row = NewRow(t, p)
         /\ ~early => doc = NoDocument /\ (answers > 0 => verdict # NoMessage)

-----------------------------------------------------------------------------
(***************************************************************************)
(* The data: what is coerced, sent and taken.                              *)
(***************************************************************************)
LEMMA TextFacts ==
    /\ \A t \in Filled : IsText(t) /\ Trim(t) = t
    /\ \A t \in Texts : Trim(t) \in Plain \cup {"absent"} /\ (IsText(t) => Trim(t) \in Plain)
    /\ Plain \subseteq Texts /\ Plain \subseteq Filled /\ "absent" \notin Filled
  BY DEF Filled, Texts, Plain, IsText, Trim

LEMMA TagsShape ==
    ASSUME NEW s
    PROVE  /\ s \in Seq(Texts) => Trimmed(NonBlank(s)) \in Seq(Plain)
           /\ s \in Seq(Plain) => NonBlank(s) = s /\ Trimmed(s) = s
<1>1. ASSUME s \in Seq(Texts)
      PROVE  Trimmed(NonBlank(s)) \in Seq(Plain)
  <2>1. NonBlank(s) \in Seq(Plain \cup {"padded"})
    BY <1>1, NonBlankShape
  <2>2. ASSUME NEW kept \in Seq(Plain \cup {"padded"})
        PROVE  Trimmed(kept) \in Seq(Plain)
    <3>1. \A t \in Plain \cup {"padded"} : Trim(t) \in Plain
      BY DEF Plain, Trim
    <3> QED
      BY <3>1 DEF Trimmed
  <2> QED
    BY <2>1, <2>2
<1>2. ASSUME s \in Seq(Plain)
      PROVE  NonBlank(s) = s /\ Trimmed(s) = s
  <2>1. s \in Seq(Texts)
    BY <1>2, TextFacts
  <2>2. \A i \in DOMAIN s : s[i] \in Plain /\ IsText(s[i]) /\ Trim(s[i]) = s[i]
    BY <1>2, TextFacts
  <2>3. Trimmed(s) = [i \in DOMAIN s |-> s[i]]
    BY <2>2 DEF Trimmed
  <2> QED
    BY <1>2, <2>1, <2>2, <2>3, NonBlankShape
<1> QED
  BY <1>1, <1>2

\* An answer with the fields it is coerced in replaced.
LEMMA EditedAnswer ==
    ASSUME NEW o \in Answers, o.moderation \in Moderations(Texts),
           NEW r, NEW x, NEW t, NEW k
    PROVE  [o EXCEPT !.moderation.reason = r, !.texts = x, !.tags = t, !.riskScore = k]
             = [form |-> o.form, unknownKey |-> o.unknownKey, texts |-> x, tags |-> t,
                riskScore |-> k,
                moderation |-> [status |-> o.moderation.status, reason |-> r,
                                confidence |-> o.moderation.confidence]]
<1>1. /\ o = [form |-> o.form, unknownKey |-> o.unknownKey, texts |-> o.texts, tags |-> o.tags,
              riskScore |-> o.riskScore, moderation |-> o.moderation]
      /\ o.moderation = [status |-> o.moderation.status, reason |-> o.moderation.reason,
                         confidence |-> o.moderation.confidence]
  BY DEF Answers, Moderations
<1>2. [o EXCEPT !.moderation.reason = r, !.texts = x, !.tags = t, !.riskScore = k]
        = [[o EXCEPT !.moderation.reason = r] EXCEPT !.texts = x, !.tags = t, !.riskScore = k]
  OBVIOUS
<1> DEFINE m == [status |-> o.moderation.status, reason |-> r,
                 confidence |-> o.moderation.confidence]
           q == [o EXCEPT !.moderation.reason = r]
<1>3. q = [form |-> o.form, unknownKey |-> o.unknownKey, texts |-> o.texts, tags |-> o.tags,
           riskScore |-> o.riskScore, moderation |-> m]
  BY <1>1
<1> HIDE DEF m, q
<1>4. [q EXCEPT !.texts = x, !.tags = t, !.riskScore = k]
        = [form |-> o.form, unknownKey |-> o.unknownKey, texts |-> x, tags |-> t,
           riskScore |-> k, moderation |-> m]
  <2>1. DOMAIN q = {"form", "unknownKey", "texts", "tags", "riskScore", "moderation"}
        /\ q.form = o.form /\ q.unknownKey = o.unknownKey /\ q.moderation = m
    BY <1>3
  <2> DEFINE e == [q EXCEPT !.texts = x, !.tags = t, !.riskScore = k]
  <2>2. /\ DOMAIN e = DOMAIN q /\ e = [f \in DOMAIN q |-> e[f]]
        /\ e.form = q.form /\ e.unknownKey = q.unknownKey /\ e.moderation = q.moderation
        /\ e.texts = x /\ e.tags = t /\ e.riskScore = k
    BY <2>1
  <2> HIDE DEF e
  <2>3. e = [form |-> o.form, unknownKey |-> o.unknownKey, texts |-> x, tags |-> t,
             riskScore |-> k, moderation |-> m]
    BY <2>1, <2>2
  <2> QED
    BY <2>3 DEF e
<1> QED
  BY <1>2, <1>4 DEF m, q

\* Whatever the texts, the tags and the score were, the schema likes them now.
LEMMA CoercedShape ==
    ASSUME NEW o \in Answers, o.moderation \in Moderations(Texts)
    PROVE  LET n == Coerced(o) IN
           /\ n.form = o.form /\ n.unknownKey = o.unknownKey
           /\ n.texts \in [TextFields -> Filled] /\ n.tags \in Seq(Plain)
           /\ n.riskScore \in 0..MaxScore
           /\ n.moderation = [status |-> o.moderation.status, reason |-> n.moderation.reason,
                              confidence |-> o.moderation.confidence]
           /\ n.moderation.reason \in Filled
           /\ IsText(o.moderation.reason) => n.moderation.reason = Trim(o.moderation.reason)
<1> DEFINE m == o.moderation
           reason == IF IsText(m.reason) THEN Trim(m.reason) ELSE "fallback"
           texts == [f \in TextFields |-> IF IsText(o.texts[f]) THEN Trim(o.texts[f]) ELSE "fallback"]
           tags == IF o.tags = Absent THEN << >> ELSE Trimmed(NonBlank(o.tags))
           score == IF o.riskScore = Absent
                    THEN IF Upper(m.status) \in {"REJECT", "REVIEW"} THEN 0 ELSE 50000
                    ELSE IF o.riskScore < 0 THEN 0
                    ELSE IF o.riskScore > MaxScore THEN MaxScore ELSE o.riskScore
<1>1. /\ o.texts \in [TextFields -> Texts] /\ o.tags \in Seq(Texts) \cup {Absent}
      /\ o.riskScore \in Int \cup {Absent} /\ m.reason \in Texts
  BY DEF Answers, Moderations
<1>2. Coerced(o) = [form |-> o.form, unknownKey |-> o.unknownKey, texts |-> texts, tags |-> tags,
                    riskScore |-> score,
                    moderation |-> [status |-> m.status, reason |-> reason,
                                    confidence |-> m.confidence]]
  <2>1. Coerced(o) = [o EXCEPT !.moderation.reason = reason, !.texts = texts, !.tags = tags,
                               !.riskScore = score]
    BY DEF Coerced
  <2> HIDE DEF reason, texts, tags, score
  <2>2. \A r, x, t, k :
           [o EXCEPT !.moderation.reason = r, !.texts = x, !.tags = t, !.riskScore = k]
             = [form |-> o.form, unknownKey |-> o.unknownKey, texts |-> x, tags |-> t,
                riskScore |-> k,
                moderation |-> [status |-> m.status, reason |-> r, confidence |-> m.confidence]]
    BY EditedAnswer
  <2> QED
    BY <2>1, <2>2, Zenon
<1>3. reason \in Filled /\ texts \in [TextFields -> Filled]
  BY <1>1, TextFacts DEF Filled
<1>4. tags \in Seq(Plain)
  BY <1>1, TagsShape
<1>5. score \in 0..MaxScore
  <2>0. MaxScore \in Nat /\ 50000 \in 0..MaxScore /\ 0 \in 0..MaxScore
    <3> DEFINE n == MaxScore
    <3>1. n = 100000
      BY DEF MaxScore
    <3> HIDE DEF n
    <3>2. n \in Nat /\ 50000 \in 0..n /\ 0 \in 0..n
      BY <3>1
    <3> QED
      BY <3>2 DEF n
  <2>1. CASE o.riskScore = Absent
    BY <2>0, <2>1
  <2>2. CASE o.riskScore \in Int /\ o.riskScore # Absent
    <3>1. score = IF o.riskScore < 0 THEN 0
                  ELSE IF o.riskScore > MaxScore THEN MaxScore ELSE o.riskScore
      BY <2>2
    <3>2. \A k \in Int : (IF k < 0 THEN 0 ELSE IF k > MaxScore THEN MaxScore ELSE k) \in 0..MaxScore
      BY <2>0
    <3> QED
      BY <2>2, <3>1, <3>2
  <2> QED
    BY <1>1, <2>1, <2>2
<1> HIDE DEF reason, texts, tags, score
<1>6. /\ Coerced(o).form = o.form /\ Coerced(o).unknownKey = o.unknownKey
      /\ Coerced(o).texts = texts /\ Coerced(o).tags = tags /\ Coerced(o).riskScore = score
      /\ Coerced(o).moderation = [status |-> m.status, reason |-> reason,
                                  confidence |-> m.confidence]
      /\ Coerced(o).moderation.reason = reason
  BY <1>2
<1>7. IsText(m.reason) => reason = Trim(m.reason)
  BY DEF reason
<1> QED
  BY <1>3, <1>4, <1>5, <1>6, <1>7

\* An object with a known status, a confidence in range and no other keys passes.
LEMMA CoercedPasses ==
    ASSUME NEW o \in Answers, o.form \in {"json", "prose"}, ~o.unknownKey,
           o.moderation # Absent, o.moderation.status \in Statuses,
           o.moderation.confidence \in 0..MaxConfidence
    PROVE  SchemaAccepts(NormalizeEnrichmentPayloadBeforeValidation(o))
<1> DEFINE n == Coerced(o)
<1>0. o.moderation \in Moderations(Texts)
  BY DEF Answers
<1>1. /\ n.form = o.form /\ n.unknownKey = o.unknownKey
      /\ n.texts \in [TextFields -> Filled] /\ n.tags \in Seq(Plain)
      /\ n.riskScore \in 0..MaxScore
      /\ n.moderation = [status |-> o.moderation.status, reason |-> n.moderation.reason,
                         confidence |-> o.moderation.confidence]
      /\ n.moderation.reason \in Filled
  BY <1>0, CoercedShape
<1>2. n = NormalizeEnrichmentPayloadBeforeValidation(o)
  BY DEF NormalizeEnrichmentPayloadBeforeValidation
<1> HIDE DEF n
<1>3. n.moderation.status = o.moderation.status /\ n.moderation.confidence = o.moderation.confidence
  BY <1>1
<1>4. n.moderation # Absent /\ n.moderation.confidence # Absent /\ n.riskScore # Absent
  <2>1. o.moderation.status \in STRING /\ o.moderation.confidence \in Int \cup {Absent}
    BY <1>0 DEF Moderations
  <2>2. n.moderation \in Moderations(Texts \cup Filled)
    BY <1>1, <1>3, <2>1 DEF Moderations
  <2> QED
    BY <1>1, <1>3, <2>2, AbsentAssumption
<1>5. n.tags # Absent /\ "absent" \notin Range(n.tags)
  BY <1>1, TextFacts, AbsentAssumption DEF Range
<1> QED
  BY <1>1, <1>2, <1>3, <1>4, <1>5 DEF SchemaAccepts

\* What ai-service publishes: a rejection with a reason, or the coerced answer.
LEMMA VerdictShape ==
    ASSUME NEW o \in Outputs
    PROVE  \/ VerdictOn(o) \in RejectedEvents
           \/ /\ VerdictOn(o) \in EnrichedEvents({Model})
              /\ VerdictOn(o).moderation.status = o.moderation.status
              /\ IsText(o.moderation.reason) =>
                    VerdictOn(o).moderation.reason = Trim(o.moderation.reason)
<1> DEFINE n == NormalizeEnrichmentPayloadBeforeValidation(o)
<1>0. o \in Answers
  BY EnrichmentAssumption
<1>1. \A r \in Reasons : Rejected(r) \in RejectedEvents
  BY DEF Rejected, RejectedEvents
<1>2. CASE o.form = "broken" \/ ~SchemaAccepts(n)
  BY <1>1, <1>2 DEF VerdictOn, Reasons
<1>3. CASE o.form # "broken" /\ SchemaAccepts(n)
  <2>0. n.moderation # Absent
    BY <1>3 DEF SchemaAccepts
  <2>1. o.moderation \in Moderations(Texts) /\ n = Coerced(o)
    BY <1>0, <2>0 DEF NormalizeEnrichmentPayloadBeforeValidation, Answers
  <2>2. /\ n.texts \in [TextFields -> Filled] /\ n.tags \in Seq(Plain)
        /\ n.riskScore \in 0..MaxScore
        /\ n.moderation = [status |-> o.moderation.status, reason |-> n.moderation.reason,
                           confidence |-> o.moderation.confidence]
        /\ n.moderation.reason \in Filled
        /\ IsText(o.moderation.reason) => n.moderation.reason = Trim(o.moderation.reason)
    BY <1>0, <2>1, CoercedShape
  <2> DEFINE m == n.moderation
             e == [type |-> "ai.enriched", texts |-> n.texts, tags |-> n.tags,
                   riskScore |-> n.riskScore, moderation |-> m, versions |-> <<Model, "v1">>]
  <2>3. m.status = o.moderation.status /\ m.confidence = o.moderation.confidence
    BY <2>2
  <2>4. m.status \in Statuses /\ m.confidence \in Int /\ m.confidence >= 0
        /\ m.confidence <= MaxConfidence /\ m.reason \in Filled
    BY <1>3, <2>1, <2>2, <2>3 DEF SchemaAccepts, Moderations
  <2>5. CASE m.status = "REJECT"
    <3>1. VerdictOn(o) = Rejected(m.reason)
      BY <1>3, <2>5 DEF VerdictOn
    <3> QED
      BY <1>1, <2>4, <3>1 DEF Reasons
  <2>6. CASE m.status # "REJECT"
    <3>1. VerdictOn(o) = e
      BY <1>3, <2>6 DEF VerdictOn
    <3>2. m \in [status : {"ALLOW", "REVIEW"}, reason : Filled, confidence : 0..MaxConfidence]
      <4>1. m.confidence \in 0..MaxConfidence
        BY <2>4 DEF MaxConfidence
      <4>2. m = [status |-> m.status, reason |-> m.reason, confidence |-> m.confidence]
        BY <2>2, <2>3
      <4>3. m.status \in {"ALLOW", "REVIEW"} /\ m.reason \in Filled
        BY <2>4, <2>6 DEF Statuses
      <4> HIDE DEF m
      <4> QED
        BY <4>1, <4>2, <4>3
    <3> HIDE DEF m
    <3>3. <<Model, "v1">> \in {Model} \X {"v1"}
      OBVIOUS
    <3>4. e \in EnrichedEvents({Model}) /\ e.moderation = m
      BY <2>2, <3>2, <3>3 DEF EnrichedEvents
    <3> HIDE DEF e
    <3> QED
      BY <2>2, <2>3, <3>1, <3>4 DEF m
  <2> QED
    BY <2>5, <2>6
<1> QED
  BY <1>2, <1>3

\* An enriched event with the fields replaced that the two validators look at.
Edited(v, x, t, s, r, w) ==
    [v EXCEPT !.texts = x, !.tags = t, !.moderation.status = s, !.moderation.reason = r,
              !.versions = w]

LEMMA EditedEvent ==
    ASSUME NEW v, DOMAIN v = {"type", "texts", "tags", "riskScore", "moderation", "versions"},
           DOMAIN v.moderation = {"status", "reason", "confidence"},
           NEW x, NEW t, NEW s, NEW r, NEW w
    PROVE  Edited(v, x, t, s, r, w)
             = [type |-> v.type, texts |-> x, tags |-> t, riskScore |-> v.riskScore,
                moderation |-> [status |-> s, reason |-> r,
                                confidence |-> v.moderation.confidence],
                versions |-> w]
<1> DEFINE q == [v EXCEPT !.texts = x, !.tags = t]
           p == [q EXCEPT !.moderation.status = s]
           u == [p EXCEPT !.moderation.reason = r]
           e == [u EXCEPT !.versions = w]
           m == [status |-> s, reason |-> r, confidence |-> v.moderation.confidence]
<1>1. Edited(v, x, t, s, r, w) = e
  BY DEF Edited
<1>2. /\ DOMAIN v = {"type", "texts", "tags", "riskScore", "moderation", "versions"}
      /\ DOMAIN v.moderation = {"status", "reason", "confidence"}
  OBVIOUS
<1>3. /\ DOMAIN q = DOMAIN v /\ q.texts = x /\ q.tags = t /\ q.type = v.type
      /\ q.riskScore = v.riskScore /\ q.moderation = v.moderation /\ q.versions = v.versions
  BY <1>2
<1> HIDE DEF q
<1>4. /\ DOMAIN p = DOMAIN q /\ p.texts = x /\ p.tags = t /\ p.type = v.type
      /\ p.riskScore = v.riskScore /\ p.moderation = [v.moderation EXCEPT !.status = s]
  BY <1>2, <1>3
<1> HIDE DEF p
<1>5. /\ DOMAIN u = DOMAIN p /\ u.texts = x /\ u.tags = t /\ u.type = v.type
      /\ u.riskScore = v.riskScore /\ u.moderation = [p.moderation EXCEPT !.reason = r]
  BY <1>2, <1>3, <1>4
<1>6. u.moderation = m
  BY <1>2, <1>4, <1>5
<1> HIDE DEF u
<1>7. /\ DOMAIN e = DOMAIN v /\ e = [f \in DOMAIN e |-> e[f]]
      /\ e.texts = x /\ e.tags = t /\ e.type = v.type
      /\ e.riskScore = v.riskScore /\ e.moderation = u.moderation /\ e.versions = w
  BY <1>2, <1>3, <1>4, <1>5
<1> HIDE DEF e, m
<1>8. e = [type |-> v.type, texts |-> x, tags |-> t, riskScore |-> v.riskScore,
           moderation |-> m, versions |-> w]
  BY <1>2, <1>6, <1>7
<1> QED
  BY <1>1, <1>8 DEF m

\* Nothing is left to trim, to coerce or to refuse.
Tidy(v) ==
    /\ v.texts \in [TextFields -> Filled] /\ v.tags \in Seq(Plain)
    /\ v.type = "ai.enriched" /\ v.riskScore \in 0..MaxScore
    /\ v.riskScore >= 0 /\ v.riskScore <= MaxScore
    /\ v.moderation = [status |-> v.moderation.status, reason |-> v.moderation.reason,
                       confidence |-> v.moderation.confidence]
    /\ v.moderation.status \in {"ALLOW", "REVIEW"} /\ v.moderation.reason \in Filled
    /\ v.moderation.confidence \in 0..MaxConfidence
    /\ v.moderation.confidence >= 0 /\ v.moderation.confidence <= MaxConfidence
    /\ v = [type |-> v.type, texts |-> v.texts, tags |-> v.tags,
            riskScore |-> v.riskScore, moderation |-> v.moderation, versions |-> v.versions]
    /\ [f \in TextFields |-> Trim(v.texts[f])] = v.texts
    /\ NonBlank(v.tags) = v.tags /\ Trimmed(v.tags) = v.tags
    /\ Upper(v.moderation.status) = v.moderation.status
    /\ Upper(v.moderation.status) \in Statuses
    /\ Trim(v.moderation.reason) = v.moderation.reason
    /\ \A f \in TextFields : IsText(v.texts[f])

LEMMA EventShape ==
    ASSUME NEW models, NEW v \in EnrichedEvents(models)
    PROVE  /\ Tidy(v)
           /\ v.versions = <<v.versions[1], "v1">> /\ v.versions[1] \in models
           /\ v.versions[2] = "v1"
<1>1. /\ v.texts \in [TextFields -> Filled] /\ v.tags \in Seq(Plain)
      /\ v.type = "ai.enriched" /\ v.riskScore \in 0..MaxScore
      /\ v.versions \in models \X {"v1"}
      /\ v.moderation \in [status : {"ALLOW", "REVIEW"}, reason : Filled,
                           confidence : 0..MaxConfidence]
      /\ v = [type |-> v.type, texts |-> v.texts, tags |-> v.tags,
              riskScore |-> v.riskScore, moderation |-> v.moderation,
              versions |-> v.versions]
  BY DEF EnrichedEvents
<1>2. v.versions = <<v.versions[1], "v1">> /\ v.versions[1] \in models
  BY <1>1
<1>3. /\ v.moderation = [status |-> v.moderation.status, reason |-> v.moderation.reason,
                         confidence |-> v.moderation.confidence]
      /\ v.moderation.status \in {"ALLOW", "REVIEW"} /\ v.moderation.reason \in Filled
      /\ v.moderation.confidence \in 0..MaxConfidence
  BY <1>1
<1>4. \A f \in TextFields : IsText(v.texts[f]) /\ Trim(v.texts[f]) = v.texts[f]
  BY <1>1, TextFacts
<1>5. [f \in TextFields |-> Trim(v.texts[f])] = v.texts
  BY <1>1, <1>4
<1>6. NonBlank(v.tags) = v.tags /\ Trimmed(v.tags) = v.tags
  BY <1>1, TagsShape
<1>7. Upper(v.moderation.status) = v.moderation.status
      /\ Trim(v.moderation.reason) = v.moderation.reason
      /\ v.moderation.status \in Statuses
  BY <1>3, TextFacts DEF Upper, Statuses
<1>8. /\ v.riskScore >= 0 /\ v.riskScore <= MaxScore
      /\ v.moderation.confidence >= 0 /\ v.moderation.confidence <= MaxConfidence
  <2>1. MaxScore \in Nat /\ MaxConfidence \in Nat
    BY DEF MaxScore, MaxConfidence
  <2> QED
    BY <1>1, <1>3, <2>1
<1>9. v.versions[2] = "v1"
  BY <1>1
<1> QED
  BY <1>1, <1>2, <1>3, <1>4, <1>5, <1>6, <1>7, <1>8, <1>9 DEF Tidy

\* search-service finds a snapshot in every event ai-service sends.
LEMMA SnapshotShape ==
    ASSUME NEW v \in EnrichedEvents({Model})
    PROVE  /\ Snapshot(v) \in EnrichedEvents(Plain)
           /\ Snapshot(v) = [type |-> v.type, texts |-> v.texts, tags |-> v.tags,
                             riskScore |-> v.riskScore, moderation |-> v.moderation,
                             versions |-> <<Trim(Model), "v1">>]
<1> DEFINE e == [type |-> v.type, texts |-> v.texts, tags |-> v.tags,
                 riskScore |-> v.riskScore, moderation |-> v.moderation,
                 versions |-> <<Trim(Model), "v1">>]
<1>0. Trim(Model) \in Plain /\ IsText(Model) /\ Trim("v1") = "v1" /\ IsText("v1")
  BY TextFacts, EnrichmentAssumption DEF Trim, IsText
<1>8. /\ DOMAIN v = {"type", "texts", "tags", "riskScore", "moderation", "versions"}
      /\ DOMAIN v.moderation = {"status", "reason", "confidence"}
  BY DEF EnrichedEvents
<1>1. Tidy(v) /\ v.versions[1] = Model /\ v.versions[2] = "v1"
  BY EventShape
<1> DEFINE texts == [f \in TextFields |-> Trim(v.texts[f])]
           tags == NonBlank(v.tags)
           status == Upper(v.moderation.status)
           reason == Trim(v.moderation.reason)
           versions == <<Trim(v.versions[1]), Trim(v.versions[2])>>
<1>2. Snapshot(v) = Edited(v, texts, tags, status, reason, versions)
  <2>1. /\ \A f \in TextFields : IsText(v.texts[f])
        /\ v.riskScore >= 0 /\ v.riskScore <= MaxScore
        /\ IsText(v.versions[1]) /\ IsText(v.versions[2])
        /\ Upper(v.moderation.status) \in Statuses
        /\ v.moderation.confidence >= 0 /\ v.moderation.confidence <= MaxConfidence
    BY <1>0, <1>1 DEF Tidy
  <2> QED
    BY <2>1, Zenon DEF Snapshot, Edited
<1>7. /\ texts = v.texts /\ tags = v.tags /\ versions = <<Trim(Model), "v1">>
      /\ [status |-> status, reason |-> reason, confidence |-> v.moderation.confidence]
           = v.moderation
  BY <1>0, <1>1 DEF Tidy
<1> HIDE DEF texts, tags, status, reason, versions
<1>3. Edited(v, texts, tags, status, reason, versions)
        = [type |-> v.type, texts |-> texts, tags |-> tags, riskScore |-> v.riskScore,
           moderation |-> [status |-> status, reason |-> reason,
                           confidence |-> v.moderation.confidence],
           versions |-> versions]
  BY <1>8, EditedEvent
<1>4. Snapshot(v) = [type |-> v.type, texts |-> texts, tags |-> tags,
                     riskScore |-> v.riskScore,
                     moderation |-> [status |-> status, reason |-> reason,
                                     confidence |-> v.moderation.confidence],
                     versions |-> versions]
  BY <1>2, <1>3, Zenon
<1>5. Snapshot(v) = e
  BY <1>4, <1>7
<1>6. e \in EnrichedEvents(Plain)
  BY <1>0 DEF EnrichedEvents
<1> QED
  BY <1>5, <1>6

\* transaction-service takes a snapshot as it is.
LEMMA SnapshotResolved ==
    ASSUME NEW e \in EnrichedEvents(Plain)
    PROVE  e # Absent /\ ResolveSearchIndexEnrichment(Updated("ai.enriched", e)) = e
<1> DEFINE o == Updated("ai.enriched", e)
<1>0. o.source = "ai.enriched" /\ o.enrichment = e
  BY DEF Updated
<1>10. /\ DOMAIN e = {"type", "texts", "tags", "riskScore", "moderation", "versions"}
       /\ DOMAIN e.moderation = {"status", "reason", "confidence"}
  BY DEF EnrichedEvents
<1>9. Tidy(e) /\ e.versions = <<e.versions[1], "v1">> /\ e.versions[1] \in Plain
      /\ e.versions[2] = "v1"
  BY EventShape
<1>1. e # Absent /\ e.moderation.reason # Absent
  <2>1. e.versions \in Texts \X {"v1"}
    BY <1>9, TextFacts
  <2>2. e \in EnrichedEvents(Texts)
    BY <2>1 DEF EnrichedEvents
  <2> QED
    BY <1>9, <2>2, AbsentAssumption DEF Tidy
<1>2. /\ e.versions[2] = "v1" /\ IsText("v1") /\ Trim("v1") = "v1"
      /\ IsText(e.versions[1]) /\ Trim(e.versions[1]) = e.versions[1]
  BY <1>9, TextFacts DEF Trim, IsText
<1> DEFINE texts == [f \in TextFields |-> Trim(e.texts[f])]
           tags == NonBlank(Trimmed(e.tags))
           status == Upper(e.moderation.status)
           reason == Trim(e.moderation.reason)
           versions == <<Trim(e.versions[1]), Trim(e.versions[2])>>
<1>3. IsValidSearchIndexEnrichment(e)
  BY <1>1, <1>2, <1>9 DEF IsValidSearchIndexEnrichment, Tidy
<1>4. NormalizeSearchIndexEnrichment(e) = Edited(e, texts, tags, status, reason, versions)
  BY DEF NormalizeSearchIndexEnrichment, Edited
<1>5. /\ texts = e.texts /\ tags = e.tags /\ versions = e.versions
      /\ [status |-> status, reason |-> reason, confidence |-> e.moderation.confidence]
           = e.moderation
  BY <1>2, <1>9 DEF Tidy
<1> HIDE DEF texts, tags, status, reason, versions
<1>6. Edited(e, texts, tags, status, reason, versions)
        = [type |-> e.type, texts |-> texts, tags |-> tags, riskScore |-> e.riskScore,
           moderation |-> [status |-> status, reason |-> reason,
                           confidence |-> e.moderation.confidence],
           versions |-> versions]
  BY <1>10, EditedEvent
<1>7. NormalizeSearchIndexEnrichment(e) =
        [type |-> e.type, texts |-> texts, tags |-> tags, riskScore |-> e.riskScore,
         moderation |-> [status |-> status, reason |-> reason,
                         confidence |-> e.moderation.confidence],
         versions |-> versions]
  BY <1>4, <1>6, Zenon
<1>8. NormalizeSearchIndexEnrichment(e) = e
  BY <1>5, <1>7, <1>9 DEF Tidy
<1> QED
  BY <1>0, <1>1, <1>3, <1>8 DEF ResolveSearchIndexEnrichment

-----------------------------------------------------------------------------
(***************************************************************************)
(* Type correctness, with what the events hold.                            *)
(***************************************************************************)
LEMMA StoredShape ==
    /\ \A k \in 0..MaxScore : Stored(k) \in {n * 10 : n \in 0..(MaxScore \div 10)}
    /\ \A k \in 0..MaxConfidence : Stored(k) \in {n * 10 : n \in 0..(MaxConfidence \div 10)}
    /\ \A p \in Int : p > 0 /\ Stored(p) <= MaxPrice =>
                         Stored(p) \in {n * 10 : n \in 0..(MaxPrice \div 10)}
<1>1. ASSUME NEW m \in Nat, NEW k \in 0..m, m % 10 = 0
      PROVE  Stored(k) \in {n * 10 : n \in 0..(m \div 10)}
  <2>1. (k + 5) \div 10 \in 0..(m \div 10)
    BY <1>1
  <2> QED
    BY <2>1 DEF Stored
<1>2. /\ MaxScore \in Nat /\ MaxScore % 10 = 0
      /\ MaxConfidence \in Nat /\ MaxConfidence % 10 = 0
  BY DEF MaxScore, MaxConfidence
<1>3. ASSUME NEW p \in Int, p > 0, Stored(p) <= MaxPrice
      PROVE  Stored(p) \in {n * 10 : n \in 0..(MaxPrice \div 10)}
  <2> DEFINE n == (p + 5) \div 10
  <2>1. n \in Nat /\ n * 10 <= MaxPrice /\ MaxPrice \in Nat
    BY <1>3, EnrichmentAssumption DEF Stored
  <2>2. n \in 0..(MaxPrice \div 10)
    <3> HIDE DEF n
    <3> QED
      BY <2>1
  <2> QED
    BY <2>2 DEF Stored
<1> QED
  BY <1>1, <1>2, <1>3

\* There are three kinds of outcome.
LEMMA OutcomeCases ==
    /\ Updated("transaction.created", Absent) \in OutcomeEvents
    /\ \A e \in EnrichedEvents(Plain) : Updated("ai.enriched", e) \in OutcomeEvents
    /\ \A r \in Reasons : RejectedFor(r) \in OutcomeEvents
    /\ \A o \in OutcomeEvents :
          \/ o = Updated("transaction.created", Absent)
          \/ \E e \in EnrichedEvents(Plain) : o = Updated("ai.enriched", e)
          \/ \E r \in Reasons : o = RejectedFor(r)
  BY DEF OutcomeEvents, Updated, RejectedFor

\* What each of them does to a row.
LEMMA AppliedShape ==
    ASSUME row \in RowRecords
    PROVE  /\ Applied(Updated("transaction.created", Absent))
                = [row EXCEPT !.searchStatus = "INDEXED_BASE", !.state = "AI_PROCESSING"]
           /\ \A e \in EnrichedEvents(Plain) :
                 Applied(Updated("ai.enriched", e))
                   = [row EXCEPT !.searchStatus = "INDEXED_ENRICHED", !.state = "READY",
                                 !.aiStatus = "COMPLETED", !.texts = e.texts,
                                 !.riskScore = Stored(e.riskScore), !.searchTags = e.tags,
                                 !.versions = e.versions,
                                 !.moderationStatus = e.moderation.status,
                                 !.moderationReason = e.moderation.reason,
                                 !.moderationConfidence = Stored(e.moderation.confidence)]
           /\ \A r \in Reasons :
                 AppliedRejection(RejectedFor(r))
                   = [row EXCEPT !.searchStatus = "FAILED", !.state = "REJECTED_MODERATION",
                                 !.aiStatus = "FAILED", !.moderationStatus = "REJECT",
                                 !.moderationReason = r]
<1>1. Applied(Updated("transaction.created", Absent))
        = [row EXCEPT !.searchStatus = "INDEXED_BASE", !.state = "AI_PROCESSING"]
  BY DEF Applied, Updated
<1>2. ASSUME NEW e \in EnrichedEvents(Plain)
      PROVE  Applied(Updated("ai.enriched", e))
               = [row EXCEPT !.searchStatus = "INDEXED_ENRICHED", !.state = "READY",
                             !.aiStatus = "COMPLETED", !.texts = e.texts,
                             !.riskScore = Stored(e.riskScore), !.searchTags = e.tags,
                             !.versions = e.versions,
                             !.moderationStatus = e.moderation.status,
                             !.moderationReason = e.moderation.reason,
                             !.moderationConfidence = Stored(e.moderation.confidence)]
  <2> DEFINE o == Updated("ai.enriched", e)
  <2>1. ResolveSearchIndexEnrichment(o) = e /\ e # Absent
    BY SnapshotResolved
  <2>2. o.source # "transaction.created"
    BY DEF Updated
  <2> HIDE DEF o
  <2>3. Applied(o)
          = [[row EXCEPT !.searchStatus = "INDEXED_ENRICHED", !.state = "READY",
                         !.aiStatus = "COMPLETED"]
                EXCEPT !.texts = e.texts, !.riskScore = Stored(e.riskScore),
                       !.searchTags = e.tags, !.versions = e.versions,
                       !.moderationStatus = e.moderation.status,
                       !.moderationReason = e.moderation.reason,
                       !.moderationConfidence = Stored(e.moderation.confidence)]
    BY <2>1, <2>2 DEF Applied
  <2> QED
    BY <2>3 DEF o
<1>3. ASSUME NEW r \in Reasons
      PROVE  AppliedRejection(RejectedFor(r))
               = [row EXCEPT !.searchStatus = "FAILED", !.state = "REJECTED_MODERATION",
                             !.aiStatus = "FAILED", !.moderationStatus = "REJECT",
                             !.moderationReason = r]
  <2>1. Trim(r) = r /\ RejectedFor(r).reason = r
    BY DEF Trim, Reasons, Filled, Plain, RejectedFor
  <2> QED
    BY <2>1 DEF AppliedRejection
<1> QED
  BY <1>1, <1>2, <1>3

\* What a verdict does to the document.
LEMMA EnrichedShape ==
    ASSUME doc \in DocumentRecords, NEW v \in EnrichedEvents({Model})
    PROVE  Enriched(v)
             = [doc EXCEPT !.texts = v.texts,
                           !.tags = IF v.tags = << >> THEN doc.tags ELSE v.tags,
                           !.aiStatus = "COMPLETED", !.moderationStatus = "ALLOW",
                           !.searchStatus = IF HasBaseTransactionData THEN "READY"
                                                                      ELSE "PENDING_BASE"]
<1> DEFINE texts == [f \in TextFields |-> IF IsText(v.texts[f]) THEN Trim(v.texts[f])
                                                                ELSE doc.texts[f]]
           tags == IF NonBlank(v.tags) = << >> THEN doc.tags ELSE Trimmed(NonBlank(v.tags))
           status == IF HasBaseTransactionData THEN "READY" ELSE "PENDING_BASE"
<1>1. Tidy(v)
  BY EventShape
<1>2. texts = v.texts
  <2>1. texts = [f \in TextFields |-> Trim(v.texts[f])]
    BY <1>1 DEF Tidy
  <2> QED
    BY <1>1, <2>1 DEF Tidy
<1>3. tags = IF v.tags = << >> THEN doc.tags ELSE v.tags
  BY <1>1 DEF Tidy
<1>4. Enriched(v) = [doc EXCEPT !.texts = texts, !.tags = tags, !.aiStatus = "COMPLETED",
                                !.moderationStatus = "ALLOW", !.searchStatus = status]
  BY DEF Enriched
<1> HIDE DEF texts, tags
<1> QED
  BY <1>2, <1>3, <1>4

LEMMA DocumentStays ==
    ASSUME doc \in DocumentRecords, Explained(doc.moderationStatus, doc.moderationReason)
    PROVE  /\ \A v \in EnrichedEvents({Model}) :
                 /\ Enriched(v) \in DocumentRecords
                 /\ Explained(Enriched(v).moderationStatus, Enriched(v).moderationReason)
           /\ \A r \in Reasons :
                 /\ Refused(Rejected(r)) \in DocumentRecords
                 /\ Explained(Refused(Rejected(r)).moderationStatus,
                              Refused(Rejected(r)).moderationReason)
<1>1. ASSUME NEW v \in EnrichedEvents({Model})
      PROVE  /\ Enriched(v) \in DocumentRecords
             /\ Explained(Enriched(v).moderationStatus, Enriched(v).moderationReason)
  <2> DEFINE tags == IF v.tags = << >> THEN doc.tags ELSE v.tags
             status == IF HasBaseTransactionData THEN "READY" ELSE "PENDING_BASE"
             d == [doc EXCEPT !.texts = v.texts, !.tags = tags, !.aiStatus = "COMPLETED",
                              !.moderationStatus = "ALLOW", !.searchStatus = status]
  <2>1. v.texts \in [TextFields -> Filled \cup {"absent"}] /\ v.tags \in Seq(Plain)
    <3>1. Tidy(v)
      BY EventShape
    <3>2. v.texts \in [TextFields -> Filled] /\ v.tags \in Seq(Plain)
      BY <3>1 DEF Tidy
    <3> QED
      BY <3>2
  <2>2. tags \in (Seq(Plain) \ {<< >>}) \cup {Absent}
    BY <2>1 DEF DocumentRecords
  <2>3. status \in {"absent", "READY", "FAILED", "PENDING_BASE"}
    OBVIOUS
  <2>4. Enriched(v) = d
    BY EnrichedShape
  <2> HIDE DEF tags, status
  <2>5. d \in DocumentRecords /\ d.moderationStatus = "ALLOW"
    BY <2>1, <2>2, <2>3 DEF DocumentRecords
  <2> QED
    BY <2>4, <2>5 DEF Explained
<1>2. ASSUME NEW r \in Reasons
      PROVE  /\ Refused(Rejected(r)) \in DocumentRecords
             /\ Explained(Refused(Rejected(r)).moderationStatus,
                          Refused(Rejected(r)).moderationReason)
  <2>1. Rejected(r).reason = r
    BY DEF Rejected
  <2>2. Refused(Rejected(r)) \in DocumentRecords
        /\ Refused(Rejected(r)).moderationReason = r
    BY <2>1 DEF Refused, DocumentRecords
  <2> QED
    BY <2>2 DEF Explained
<1> QED
  BY <1>1, <1>2

LEMMA RowStays ==
    ASSUME RowFits(row)
    PROVE  /\ RowFits(Applied(Updated("transaction.created", Absent)))
           /\ \A e \in EnrichedEvents(Plain) : RowFits(Applied(Updated("ai.enriched", e)))
           /\ \A r \in Reasons : RowFits(AppliedRejection(RejectedFor(r)))
<1>0. row \in RowRecords
  BY DEF RowFits
<1>1. RowFits(Applied(Updated("transaction.created", Absent)))
  BY <1>0, AppliedShape DEF RowFits, RowRecords, TransactionStates, SearchIndexStatuses
<1>2. ASSUME NEW e \in EnrichedEvents(Plain)
      PROVE  RowFits(Applied(Updated("ai.enriched", e)))
  <2> DEFINE score == Stored(e.riskScore)
             confidence == Stored(e.moderation.confidence)
             status == e.moderation.status
             reason == e.moderation.reason
             new == [row EXCEPT !.searchStatus = "INDEXED_ENRICHED", !.state = "READY",
                                !.aiStatus = "COMPLETED", !.texts = e.texts,
                                !.riskScore = score, !.searchTags = e.tags,
                                !.versions = e.versions, !.moderationStatus = status,
                                !.moderationReason = reason,
                                !.moderationConfidence = confidence]
  <2>1. Tidy(e) /\ e.versions = <<e.versions[1], "v1">> /\ e.versions[1] \in Plain
    BY EventShape
  <2>2. /\ score \in {n * 10 : n \in 0..(MaxScore \div 10)}
        /\ confidence \in {n * 10 : n \in 0..(MaxConfidence \div 10)}
        /\ status \in ModerationStatuses /\ reason \in Reasons \cup {"absent"}
        /\ e.texts \in [TextFields -> Filled \cup {"absent"}] /\ e.tags \in Seq(Plain)
        /\ e.versions \in Plain \X {"v1"}
    <3>1. /\ e.riskScore \in 0..MaxScore /\ e.moderation.confidence \in 0..MaxConfidence
          /\ status \in {"ALLOW", "REVIEW"} /\ reason \in Filled
          /\ e.texts \in [TextFields -> Filled] /\ e.tags \in Seq(Plain)
      BY <2>1 DEF Tidy
    <3>2. /\ score \in {n * 10 : n \in 0..(MaxScore \div 10)}
          /\ confidence \in {n * 10 : n \in 0..(MaxConfidence \div 10)}
      BY <3>1, StoredShape
    <3>3. e.versions \in Plain \X {"v1"}
      BY <2>1
    <3>4. status \in ModerationStatuses
      BY <3>1 DEF ModerationStatuses
    <3>5. reason \in Reasons \cup {"absent"}
      BY <3>1 DEF Reasons
    <3>6. e.texts \in [TextFields -> Filled \cup {"absent"}]
      BY <3>1
    <3> HIDE DEF score, confidence, status, reason
    <3> QED
      BY <3>1, <3>2, <3>3, <3>4, <3>5, <3>6
  <2>3. Applied(Updated("ai.enriched", e)) = new
    BY <1>0, AppliedShape
  <2> HIDE DEF score, confidence, status, reason
  <2>4. new \in RowRecords /\ new.state = "READY"
    BY <1>0, <2>2 DEF RowRecords, TransactionStates, SearchIndexStatuses, AiProcessingStatuses
  <2> QED
    BY <2>3, <2>4 DEF RowFits
<1>3. ASSUME NEW r \in Reasons
      PROVE  RowFits(AppliedRejection(RejectedFor(r)))
  <2> DEFINE new == [row EXCEPT !.searchStatus = "FAILED", !.state = "REJECTED_MODERATION",
                                !.aiStatus = "FAILED", !.moderationStatus = "REJECT",
                                !.moderationReason = r]
  <2>0. /\ "FAILED" \in SearchIndexStatuses /\ "REJECTED_MODERATION" \in TransactionStates
        /\ "FAILED" \in AiProcessingStatuses /\ "REJECT" \in ModerationStatuses
    BY DEF TransactionStates, SearchIndexStatuses, AiProcessingStatuses, ModerationStatuses
  <2>1. new \in RowRecords /\ new.moderationReason = r
    <3>1. new.moderationReason = r
      BY <1>0 DEF RowRecords
    <3>2. new \in RowRecords
      BY <1>0, <2>0 DEF RowRecords
    <3> QED
      BY <3>1, <3>2
  <2>2. AppliedRejection(RejectedFor(r)) = new
    BY <1>0, AppliedShape
  <2> QED
    BY <2>1, <2>2 DEF RowFits
<1> QED
  BY <1>1, <1>2, <1>3

LEMMA NewRowFits ==
    ASSUME NEW t \in Titles, NEW p \in Prices, Validated(t, p), Stored(p) <= MaxPrice
    PROVE  RowFits(NewRow(t, p))
<1>1. t \in Texts \ {"absent"}
  BY EnrichmentAssumption DEF Validated
<1>2. Stored(p) \in {n * 10 : n \in 0..(MaxPrice \div 10)}
  BY StoredShape, EnrichmentAssumption DEF Validated
<1>3. /\ "INITIATED" \in TransactionStates /\ "PENDING" \in AiProcessingStatuses
      /\ "PENDING" \in SearchIndexStatuses /\ "PENDING" \in ModerationStatuses
      /\ NoTexts \in [TextFields -> Filled \cup {"absent"}]
  BY DEF TransactionStates, AiProcessingStatuses, SearchIndexStatuses, ModerationStatuses, NoTexts
<1>4. NewRow(t, p) \in RowRecords
  <2> DEFINE price == Stored(p)
  <2>1. price \in {n * 10 : n \in 0..(MaxPrice \div 10)}
    BY <1>2
  <2> HIDE DEF price
  <2> QED
    BY <1>1, <1>3, <2>1 DEF NewRow, RowRecords, price
<1>5. NewRow(t, p).state = "INITIATED"
  BY DEF NewRow
<1> QED
  BY <1>4, <1>5 DEF RowFits

LEMMA NoDocumentFits ==
    /\ NoDocument \in DocumentRecords
    /\ Explained(NoDocument.moderationStatus, NoDocument.moderationReason)
<1>1. NoTexts \in [TextFields -> Filled \cup {"absent"}]
  BY DEF NoTexts
<1> QED
  BY <1>1 DEF NoDocument, DocumentRecords, Explained

\* The row and the document are what TypeOK says.
LEMMA RecordsFit ==
    RowFits(row) /\ doc \in DocumentRecords => TypeOK
<1> SUFFICES ASSUME RowFits(row), doc \in DocumentRecords
             PROVE  TypeOK
  OBVIOUS
<1>1. row \in RowRecords
  BY DEF RowFits
<1>2. /\ doc.title \in Plain \cup {"absent"}
      /\ doc.texts \in [TextFields -> Filled \cup {"absent"}]
      /\ doc.tags # Absent => doc.tags \in Seq(Plain) \ {<< >>}
  BY DEF DocumentRecords
<1> QED
  BY <1>1, <1>2 DEF TypeOK, RowRecords

LEMMA TypeInvInit == Init => TypeInv
<1> SUFFICES ASSUME Init
             PROVE  TypeInv
  OBVIOUS
<1>1. RowFits(row)
  BY NewRowFits DEF Init
<1>2. doc \in DocumentRecords /\ Explained(doc.moderationStatus, doc.moderationReason)
  BY NoDocumentFits DEF Init
<1>3. verdict = NoMessage /\ outcome = NoMessage /\ answers = 0 /\ early = FALSE
  BY DEF Init
<1>4. answers \in Nat /\ ~ (answers > 0)
  BY <1>3
<1> QED
  BY <1>1, <1>2, <1>3, <1>4 DEF TypeInv

LEMMA TypeInvModelAnswers ==
    ASSUME TypeInv, NEW o \in Outputs, ModelAnswers(o)
    PROVE  TypeInv'
<1>1. RowFits(row)' /\ outcome' = outcome /\ doc' = doc /\ early' = early
      /\ Explained(doc.moderationStatus, doc.moderationReason)'
  BY DEF TypeInv, ModelAnswers, RowFits, Explained
<1>2. verdict' \in EnrichedEvents({Model}) \cup RejectedEvents \cup {NoMessage}
  BY VerdictShape DEF ModelAnswers
<1>3. answers' \in Nat /\ answers' > 0 /\ last' = o /\ verdict' = VerdictOn(o)
  BY DEF TypeInv, ModelAnswers
<1> QED
  BY <1>1, <1>2, <1>3 DEF TypeInv

LEMMA TypeInvIndexBase ==
    ASSUME TypeInv, IndexBase
    PROVE  TypeInv'
<1> DEFINE reject == doc.moderationStatus = "REJECT"
           title == IF IsText(row.title) THEN Trim(row.title) ELSE doc.title
           status == IF reject THEN "FAILED" ELSE "READY"
           d == [doc EXCEPT !.title = title, !.price = row.price, !.state = "INITIATED",
                            !.searchStatus = status]
<1>1. RowFits(row)' /\ UNCHANGED <<verdict, answers, last, early>>
  BY DEF TypeInv, IndexBase, RowFits
<1>2. doc' = d
  BY DEF IndexBase
<1>3. title \in Plain \cup {"absent"} /\ row.price \in Int
  <2>1. row.title \in Texts /\ row.price \in {n * 10 : n \in 0..(MaxPrice \div 10)}
        /\ doc.title \in Plain \cup {"absent"}
    BY DEF TypeInv, RowFits, RowRecords, DocumentRecords
  <2>2. row.price \in Int
    BY <2>1
  <2> QED
    BY <2>1, <2>2, TextFacts
<1>4. doc' \in DocumentRecords /\ Explained(doc.moderationStatus, doc.moderationReason)'
  <2>1. status \in {"absent", "READY", "FAILED", "PENDING_BASE"}
    OBVIOUS
  <2> HIDE DEF title, status
  <2>2. d \in DocumentRecords /\ d.moderationStatus = doc.moderationStatus
        /\ d.moderationReason = doc.moderationReason
    BY <1>3, <2>1 DEF TypeInv, DocumentRecords
  <2> HIDE DEF d
  <2> QED
    BY <1>2, <2>2 DEF TypeInv, Explained
<1>5. outcome' \in OutcomeEvents
  <2>1. CASE reject
    BY <2>1, OutcomeCases DEF TypeInv, Explained, IndexBase
  <2>2. CASE ~reject
    BY <2>2, OutcomeCases DEF IndexBase
  <2> QED
    BY <2>1, <2>2
<1> QED
  BY <1>1, <1>4, <1>5 DEF TypeInv

LEMMA TypeInvIndexVerdict ==
    ASSUME TypeInv, IndexVerdict
    PROVE  TypeInv'
<1>0. doc \in DocumentRecords /\ Explained(doc.moderationStatus, doc.moderationReason)
      /\ verdict \in EnrichedEvents({Model}) \cup RejectedEvents
  BY DEF TypeInv, IndexVerdict
<1>1. RowFits(row)' /\ UNCHANGED <<answers, last>> /\ verdict' = NoMessage /\ early' \in BOOLEAN
  BY DEF TypeInv, IndexVerdict, RowFits
<1>2. doc' \in DocumentRecords /\ Explained(doc.moderationStatus, doc.moderationReason)'
      /\ outcome' \in OutcomeEvents \cup {NoMessage}
  <2>1. CASE verdict \in EnrichedEvents({Model})
    <3>1. verdict.type = "ai.enriched"
      BY <2>1 DEF EnrichedEvents
    <3>2. PICK d : d = Enriched(verdict)
      OBVIOUS
    <3>3. d \in DocumentRecords /\ Explained(d.moderationStatus, d.moderationReason)
      BY <1>0, <2>1, <3>2, DocumentStays
    <3>4. doc' = d
      BY <3>1, <3>2 DEF IndexVerdict
    <3>5. Snapshot(verdict) \in EnrichedEvents(Plain)
      BY <2>1, SnapshotShape
    <3>6. outcome' \in OutcomeEvents \cup {NoMessage}
      BY <3>1, <3>5, OutcomeCases DEF IndexVerdict
    <3> QED
      BY <3>3, <3>4, <3>6 DEF Explained
  <2>2. CASE verdict \in RejectedEvents
    <3>1. verdict.type # "ai.enriched" /\ verdict.reason \in Reasons
          /\ verdict = Rejected(verdict.reason)
      BY <2>2 DEF RejectedEvents, Rejected
    <3>2. PICK d : d = Refused(Rejected(verdict.reason))
      OBVIOUS
    <3>3. d \in DocumentRecords /\ Explained(d.moderationStatus, d.moderationReason)
      BY <1>0, <3>1, <3>2, DocumentStays
    <3>4. doc' = d
      BY <3>1, <3>2 DEF IndexVerdict
    <3>5. outcome' \in OutcomeEvents \cup {NoMessage}
      BY <3>1, OutcomeCases DEF IndexVerdict
    <3> QED
      BY <3>3, <3>4, <3>5 DEF Explained
  <2> QED
    BY <1>0, <2>1, <2>2
<1> QED
  BY <1>1, <1>2 DEF TypeInv

LEMMA TypeInvApplyOutcome ==
    ASSUME TypeInv, ApplyOutcome
    PROVE  TypeInv'
<1>1. UNCHANGED <<doc, verdict, answers, last, early>> /\ outcome' = NoMessage
      /\ Explained(doc.moderationStatus, doc.moderationReason)'
  BY DEF ApplyOutcome, TypeInv, Explained
<1>2. RowFits(row)'
  <2>1. PICK r : r = IF outcome.type = "search.index.updated" THEN Applied(outcome)
                     ELSE AppliedRejection(outcome)
    OBVIOUS
  <2>2. RowFits(r)
    <3>1. RowFits(row) /\ outcome \in OutcomeEvents
      BY DEF TypeInv, ApplyOutcome
    <3>2. /\ \A s, e : Updated(s, e).type = "search.index.updated"
          /\ \A w : RejectedFor(w).type = "search.index.rejected"
      BY DEF Updated, RejectedFor
    <3>3. CASE outcome = Updated("transaction.created", Absent)
      BY <2>1, <3>1, <3>2, <3>3, RowStays
    <3>4. CASE \E e \in EnrichedEvents(Plain) : outcome = Updated("ai.enriched", e)
      BY <2>1, <3>1, <3>2, <3>4, RowStays
    <3>5. CASE \E w \in Reasons : outcome = RejectedFor(w)
      BY <2>1, <3>1, <3>2, <3>5, RowStays
    <3> QED
      BY <3>1, <3>3, <3>4, <3>5, OutcomeCases
  <2>3. row' = r
    BY <2>1 DEF ApplyOutcome
  <2> QED
    BY <2>2, <2>3 DEF RowFits
<1> QED
  BY <1>1, <1>2 DEF TypeInv

LEMMA TypeInvStep == TypeInv /\ [Next]_vars => TypeInv'
<1> SUFFICES ASSUME TypeInv, [Next]_vars
             PROVE  TypeInv'
  OBVIOUS
<1>1. CASE \E o \in Outputs : ModelAnswers(o)
  BY <1>1, TypeInvModelAnswers
<1>2. CASE IndexBase
  BY <1>2, TypeInvIndexBase
<1>3. CASE IndexVerdict
  BY <1>3, TypeInvIndexVerdict
<1>4. CASE ApplyOutcome
  BY <1>4, TypeInvApplyOutcome
<1>5. CASE UNCHANGED vars
  BY <1>5 DEF vars, TypeInv, RowFits, Explained
<1> QED
  BY <1>1, <1>2, <1>3, <1>4, <1>5 DEF Next

LEMMA AlwaysTypeInv == Spec => []TypeInv
<1>1. Init => TypeInv
  BY TypeInvInit
<1>2. TypeInv /\ [Next]_vars => TypeInv'
  BY TypeInvStep
<1> QED
  BY <1>1, <1>2, PTL DEF Spec

\* Whatever the model answers, neither the row nor the document ever holds a blank or
\* padded text, a score with more than two decimals or one out of range.
THEOREM TypeCorrect == Spec => []TypeOK
<1>1. TypeInv => TypeOK
  BY RecordsFit DEF TypeInv
<1> QED
  BY <1>1, AlwaysTypeInv, PTL

\* The validators of tryBuildSearchIndexEnrichment and isValidSearchIndexEnrichment
\* never disagree: every snapshot that is sent is taken as it is.
THEOREM SnapshotIsAlwaysTaken == Spec => []SnapshotIsTaken
<1>1. TypeInv => SnapshotIsTaken
  <2> SUFFICES ASSUME TypeInv, outcome # NoMessage,
                      outcome.type = "search.index.updated", outcome.source = "ai.enriched"
               PROVE  /\ outcome.enrichment # Absent
                      /\ ResolveSearchIndexEnrichment(outcome) = outcome.enrichment
    BY DEF SnapshotIsTaken
  <2>1. outcome \in OutcomeEvents
    BY DEF TypeInv
  <2>2. PICK e \in EnrichedEvents(Plain) : outcome = Updated("ai.enriched", e)
    BY <2>1, OutcomeCases DEF Updated, RejectedFor
  <2>3. outcome.enrichment = e
    BY <2>2 DEF Updated
  <2> QED
    BY <2>2, <2>3, SnapshotResolved
<1> QED
  BY <1>1, AlwaysTypeInv, PTL

\* normalizeEnrichmentPayloadBeforeValidation makes every answer valid that it can.
THEOREM CoercionAlwaysSuffices == Spec => []CoercionSuffices
<1>1. TypeInv => CoercionSuffices
  <2> SUFFICES ASSUME TypeInv, verdict # NoMessage,
                      verdict = Rejected("schema_validation_failed"),
                      last.form # "scalar", ~last.unknownKey, last.moderation # Absent,
                      last.moderation.status \in Statuses,
                      last.moderation.confidence # Absent,
                      last.moderation.confidence \in 0..MaxConfidence
               PROVE  FALSE
    BY DEF CoercionSuffices
  <2>1. PICK o \in Outputs : last = o /\ verdict = VerdictOn(o)
    BY DEF TypeInv
  <2> DEFINE n == NormalizeEnrichmentPayloadBeforeValidation(o)
  <2>2. o \in Answers
    BY EnrichmentAssumption
  <2>3. o.form # "broken"
    BY <2>1 DEF VerdictOn, Rejected
  <2>4. o.form \in {"json", "prose"}
    BY <2>1, <2>2, <2>3 DEF Answers
  <2>5. SchemaAccepts(n)
    BY <2>1, <2>2, <2>4, CoercedPasses
  <2>6. n.moderation.reason \in Filled
    BY <2>5 DEF SchemaAccepts
  <2> HIDE DEF n
  <2>7. CASE n.moderation.status = "REJECT"
    <3>1. verdict = Rejected(n.moderation.reason)
      BY <2>1, <2>3, <2>5, <2>7 DEF VerdictOn, n
    <3> QED
      BY <2>6, <3>1 DEF Rejected, Filled, Plain
  <2>8. CASE n.moderation.status # "REJECT"
    <3>1. verdict.type = "ai.enriched"
      BY <2>1, <2>3, <2>5, <2>8 DEF VerdictOn, n
    <3> QED
      BY <3>1 DEF Rejected
  <2> QED
    BY <2>7, <2>8
<1> QED
  BY <1>1, AlwaysTypeInv, PTL

LEMMA DocumentIsShown ==
    ASSUME doc \in DocumentRecords
    PROVE  DocumentView(doc) \in TransactionRecords
<1>1. /\ doc.title \in Texts /\ (IF doc.price = Absent THEN 0 ELSE doc.price) \in Int
      /\ doc.texts \in [TextFields -> Filled \cup {"absent"}]
      /\ doc.moderationReason \in Reasons \cup {"absent"}
      /\ doc.tags \in Seq(Plain) \cup {Absent}
  BY DEF DocumentRecords, Texts
<1>2. /\ MapTransactionState(doc.state) \in TransactionStates
      /\ MapAiStatus(doc.aiStatus) \in AiProcessingStatuses
      /\ MapSearchIndexStatus(doc.searchStatus, doc.texts) \in SearchIndexStatuses
      /\ MapModerationStatus(doc.moderationStatus) \in ModerationStatuses
  BY DEF MapTransactionState, MapAiStatus, MapSearchIndexStatus, MapModerationStatus,
         TransactionStates, AiProcessingStatuses, SearchIndexStatuses, ModerationStatuses
<1> QED
  BY <1>1, <1>2 DEF DocumentView, TransactionRecords

\* The only hit of a search, and how the gateway shows it and the row.
LEMMA OnlyHit ==
    ASSUME doc \in DocumentRecords
    PROVE  SearchAnswer("absent", <<doc>>) = <<GatewayView(DocumentView(doc))>>
<1>1. PICK d : d = doc
  OBVIOUS
<1>2. DocumentView(d) \in TransactionRecords
  BY <1>1, DocumentIsShown
<1> QED
  BY <1>1, <1>2, OneHit

\* A rejected listing says why, in both views.
THEOREM RejectionAlwaysHasReason == Spec => []RejectionHasReason
<1>1. TypeInv => RejectionHasReason
  <2> SUFFICES ASSUME TypeInv
               PROVE  RejectionHasReason
    OBVIOUS
  <2>0. RowFits(row) /\ doc \in DocumentRecords
        /\ Explained(doc.moderationStatus, doc.moderationReason)
    BY DEF TypeInv
  <2>1. GetAnswer(row).moderationReason = row.moderationReason
    BY DEF GetAnswer, GatewayView, GetReply, RowView
  <2> DEFINE hit == GatewayView(DocumentView(doc))
  <2>3. /\ hit.moderationStatus = MapModerationStatus(doc.moderationStatus)
        /\ hit.moderationReason = doc.moderationReason
    BY DEF GatewayView, DocumentView
  <2>4. hit.moderationStatus = "REJECT" => hit.moderationReason \in Reasons
    BY <2>0, <2>3 DEF MapModerationStatus, Explained
  <2> HIDE DEF hit
  <2>5. \A d \in Range(<<hit>>) : d = hit
    BY DEF Range
  <2>6. SearchAnswer("absent", <<doc>>) = <<hit>>
    BY <2>0, OnlyHit DEF hit
  <2>7. \A d \in Range(SearchAnswer("absent", <<doc>>)) :
           d.moderationStatus = "REJECT" => d.moderationReason \in Reasons
    BY <2>4, <2>5, <2>6
  <2> QED
    BY <2>0, <2>1, <2>7 DEF RejectionHasReason, RowFits
<1> QED
  BY <1>1, AlwaysTypeInv, PTL

-----------------------------------------------------------------------------
(***************************************************************************)
(* What the two views share, and the last verdict.                         *)
(***************************************************************************)
\* An outcome does to the row what After says.
LEMMA Arrives ==
    ASSUME RowFits(row), outcome \in OutcomeEvents
    PROVE  After(row, outcome) = IF outcome.type = "search.index.updated"
                                 THEN Applied(outcome) ELSE AppliedRejection(outcome)
<1>0. row \in RowRecords /\ outcome # NoMessage
  BY AbsentAssumption DEF RowFits
<1>1. CASE outcome = Updated("transaction.created", Absent)
  <2>1. outcome.type = "search.index.updated" /\ outcome.source = "transaction.created"
    BY <1>1 DEF Updated
  <2>2. Applied(outcome) = [row EXCEPT !.searchStatus = "INDEXED_BASE", !.state = "AI_PROCESSING"]
    BY <1>0, <1>1, AppliedShape
  <2> QED
    BY <1>0, <2>1, <2>2 DEF After
<1>2. ASSUME NEW e \in EnrichedEvents(Plain), outcome = Updated("ai.enriched", e)
      PROVE  After(row, outcome) = IF outcome.type = "search.index.updated"
                                   THEN Applied(outcome) ELSE AppliedRejection(outcome)
  <2>1. /\ outcome.type = "search.index.updated" /\ outcome.source = "ai.enriched"
        /\ outcome.enrichment = e
    BY <1>2 DEF Updated
  <2>2. Applied(outcome)
          = [row EXCEPT !.searchStatus = "INDEXED_ENRICHED", !.state = "READY",
                        !.aiStatus = "COMPLETED", !.texts = e.texts,
                        !.riskScore = Stored(e.riskScore), !.searchTags = e.tags,
                        !.versions = e.versions,
                        !.moderationStatus = e.moderation.status,
                        !.moderationReason = e.moderation.reason,
                        !.moderationConfidence = Stored(e.moderation.confidence)]
    BY <1>0, <1>2, AppliedShape
  <2> QED
    BY <1>0, <2>1, <2>2 DEF After
<1>3. ASSUME NEW w \in Reasons, outcome = RejectedFor(w)
      PROVE  After(row, outcome) = IF outcome.type = "search.index.updated"
                                   THEN Applied(outcome) ELSE AppliedRejection(outcome)
  <2>1. outcome.type = "search.index.rejected" /\ outcome.reason = w
    BY <1>3 DEF RejectedFor
  <2>2. AppliedRejection(outcome)
          = [row EXCEPT !.searchStatus = "FAILED", !.state = "REJECTED_MODERATION",
                        !.aiStatus = "FAILED", !.moderationStatus = "REJECT",
                        !.moderationReason = w]
    BY <1>0, <1>3, AppliedShape
  <2> QED
    BY <1>0, <2>1, <2>2 DEF After
<1> QED
  BY <1>1, <1>2, <1>3, OutcomeCases

\* What the gateway compares, field by field.
Matches(r, d) ==
    /\ d.title = Trim(r.title)
    /\ (IF d.price = Absent THEN 0 ELSE d.price) = r.price
    /\ d.texts = r.texts
    /\ MapAiStatus(d.aiStatus) = r.aiStatus
    /\ MapSearchIndexStatus(d.searchStatus, d.texts) = r.searchStatus
    /\ MapModerationStatus(d.moderationStatus)
         = IF r.moderationStatus = "REVIEW" THEN "ALLOW" ELSE r.moderationStatus
    /\ OnTheWire(r.searchTags) # Absent => OnTheWire(d.tags) = OnTheWire(r.searchTags)

LEMMA AgreeMatches ==
    ASSUME NEW r, NEW d
    PROVE  Agree(r, d) <=> Matches(r, d)
<1> DEFINE got == GetAnswer(r)
           found == GatewayView(DocumentView(d))
<1>1. /\ got.title = r.title /\ got.price = r.price /\ got.texts = r.texts
      /\ got.aiStatus = r.aiStatus /\ got.searchStatus = r.searchStatus
      /\ got.moderationStatus = r.moderationStatus
      /\ got.searchTags = OnTheWire(r.searchTags)
  BY DEF GetAnswer, GetReply, GatewayView, RowView
<1>2. /\ found.title = d.title
      /\ found.price = (IF d.price = Absent THEN 0 ELSE d.price)
      /\ found.texts = d.texts /\ found.aiStatus = MapAiStatus(d.aiStatus)
      /\ found.searchStatus = MapSearchIndexStatus(d.searchStatus, d.texts)
      /\ found.moderationStatus = MapModerationStatus(d.moderationStatus)
      /\ found.searchTags = OnTheWire(d.tags)
  BY DEF GatewayView, DocumentView
<1> HIDE DEF got, found
<1>3. Agree(r, d) <=>
        /\ found.title = Trim(got.title)
        /\ found.price = got.price
        /\ found.texts = got.texts
        /\ found.aiStatus = got.aiStatus
        /\ found.searchStatus = got.searchStatus
        /\ found.moderationStatus = IF got.moderationStatus = "REVIEW" THEN "ALLOW"
                                    ELSE got.moderationStatus
        /\ got.searchTags # Absent => found.searchTags = got.searchTags
  BY DEF Agree, got, found
<1> QED
  BY <1>1, <1>2, <1>3 DEF Matches

LEMMA ViewsInit == Init => ViewsInv
<1> SUFFICES ASSUME Init
             PROVE  ViewsInv
  OBVIOUS
<1>1. ~HasBaseTransactionData /\ outcome = NoMessage /\ doc = NoDocument /\ answers = 0
  BY DEF Init, HasBaseTransactionData, NoDocument
<1>2. \E t \in Titles, p \in Prices : Validated(t, p) /\ row = NewRow(t, p)
  BY DEF Init
<1>3. ~ (answers > 0)
  BY <1>1
<1> QED
  BY <1>1, <1>2, <1>3 DEF ViewsInv

LEMMA ViewsModelAnswers ==
    ASSUME TypeInv, ViewsInv, NEW o \in Outputs, ModelAnswers(o)
    PROVE  ViewsInv'
<1>1. /\ row' = row /\ doc' = doc /\ outcome' = outcome /\ early' = early
      /\ HasBaseTransactionData' = HasBaseTransactionData
  BY DEF ModelAnswers, HasBaseTransactionData
<1>2. verdict' # NoMessage
  <2>1. VerdictOn(o) \in EnrichedEvents({Model}) \cup RejectedEvents
    BY VerdictShape
  <2>2. EnrichedEvents({Model}) \subseteq EnrichedEvents(Texts)
    BY EnrichmentAssumption DEF EnrichedEvents
  <2> QED
    BY <2>1, <2>2, AbsentAssumption DEF ModelAnswers
<1>3. CASE HasBaseTransactionData
  <2>1. ASSUME ~early
        PROVE  \E r \in {After(row, outcome)'}, d \in {doc'} : Agree(r, d)
    <3>1. PICK r \in {After(row, outcome)}, d \in {doc} : Agree(r, d)
      BY <1>3, <2>1 DEF ViewsInv
    <3>2. r = After(row, outcome)' /\ d = doc'
      BY <1>1, <3>1 DEF After
    <3> QED
      BY <3>1, <3>2
  <2> QED
    BY <1>1, <1>2, <1>3, <2>1 DEF ViewsInv
<1>4. CASE ~HasBaseTransactionData
  BY <1>1, <1>2, <1>4 DEF ViewsInv
<1> QED
  BY <1>3, <1>4

LEMMA ViewsApplyOutcome ==
    ASSUME TypeInv, ViewsInv, ApplyOutcome
    PROVE  ViewsInv'
<1>1. /\ RowFits(row) /\ outcome \in OutcomeEvents /\ HasBaseTransactionData
      /\ HasBaseTransactionData' /\ outcome' = NoMessage
      /\ UNCHANGED <<doc, verdict, answers, last, early>>
  BY DEF TypeInv, ViewsInv, ApplyOutcome, HasBaseTransactionData
<1>2. row' = After(row, outcome)
  BY <1>1, Arrives DEF ApplyOutcome
<1>3. ASSUME ~early
      PROVE  \E r \in {After(row, outcome)'}, d \in {doc'} :
                /\ Agree(r, d)
                /\ verdict' = NoMessage /\ answers' > 0 =>
                      \E o \in Outputs : o = last' /\ Tells(r, o)
  <2>1. PICK r \in {After(row, outcome)}, d \in {doc} :
                /\ Agree(r, d)
                /\ verdict = NoMessage /\ answers > 0 =>
                      \E o \in Outputs : o = last /\ Tells(r, o)
    BY <1>1, <1>3 DEF ViewsInv
  <2>2. r = After(row, outcome)' /\ d = doc'
    <3>1. After(row, outcome)' = row'
      BY <1>1 DEF After
    <3> QED
      BY <1>1, <1>2, <2>1, <3>1
  <2> QED
    BY <1>1, <2>1, <2>2
<1> QED
  BY <1>1, <1>3 DEF ViewsInv

\* The base data is indexed before any verdict, or the verdict was early.
LEMMA ViewsIndexBase ==
    ASSUME TypeInv, ViewsInv, IndexBase
    PROVE  ViewsInv'
<1>1. /\ RowFits(row) /\ ~HasBaseTransactionData
      /\ UNCHANGED <<row, verdict, answers, last, early>>
  BY DEF TypeInv, IndexBase
<1>2. row.price \in Int /\ row.price # Absent
  <2>1. row.price \in {n * 10 : n \in 0..(MaxPrice \div 10)}
    BY <1>1 DEF RowFits, RowRecords
  <2>2. row.price \in Int
    BY <2>1
  <2> QED
    BY <2>2, AbsentAssumption
<1>3. HasBaseTransactionData'
  <2>1. doc'.price = row.price
    BY DEF IndexBase, TypeInv, DocumentRecords
  <2> QED
    BY <1>2, <2>1 DEF HasBaseTransactionData
<1>4. ASSUME ~early
      PROVE  \E r \in {After(row, outcome)'}, d \in {doc'} :
                /\ Agree(r, d)
                /\ verdict' = NoMessage /\ answers' > 0 =>
                      \E o \in Outputs : o = last' /\ Tells(r, o)
  <2>1. PICK t \in Titles, p \in Prices : Validated(t, p) /\ row = NewRow(t, p)
    BY <1>1 DEF ViewsInv
  <2>2. doc = NoDocument /\ (answers > 0 => verdict # NoMessage)
    BY <1>1, <1>4 DEF ViewsInv
  <2>3. t \in Texts
    BY EnrichmentAssumption
  <2> DEFINE price == Stored(p)
             r == [NewRow(t, p) EXCEPT !.searchStatus = "INDEXED_BASE", !.state = "AI_PROCESSING"]
             d == [NoDocument EXCEPT !.title = IF IsText(t) THEN Trim(t) ELSE "absent",
                                     !.price = price, !.state = "INITIATED",
                                     !.searchStatus = "READY"]
  <2>4. doc.moderationStatus # "REJECT" /\ doc.title = "absent"
        /\ row.title = t /\ row.price = price
    BY <2>1, <2>2 DEF NoDocument, NewRow
  <2>5. doc' = d /\ outcome' = Updated("transaction.created", Absent)
    BY <2>2, <2>4 DEF IndexBase
  <2>6. After(row, outcome)' = r
    <3>1. /\ outcome' # NoMessage /\ outcome'.type # "search.index.rejected"
          /\ outcome'.source = "transaction.created"
      BY <2>5, OutcomeCases, AbsentAssumption DEF Updated
    <3> QED
      BY <1>1, <2>1, <3>1 DEF After
  <2>7. Matches(r, d)
    <3>1. /\ r.title = t /\ r.price = price /\ r.texts = NoTexts /\ r.aiStatus = "PENDING"
          /\ r.searchStatus = "INDEXED_BASE" /\ r.moderationStatus = "PENDING"
          /\ r.searchTags = Absent
      BY DEF NewRow
    <3>2. /\ d.title = (IF IsText(t) THEN Trim(t) ELSE "absent") /\ d.price = price
          /\ d.texts = NoTexts /\ d.aiStatus = "absent" /\ d.searchStatus = "READY"
          /\ d.moderationStatus = "absent" /\ d.tags = Absent
      BY DEF NoDocument
    <3>3. d.title = Trim(t)
      BY <3>2 DEF IsText
    <3>4. MapSearchIndexStatus("READY", NoTexts) = "INDEXED_BASE"
      BY DEF MapSearchIndexStatus, NoTexts, TextFields
    <3>5. MapAiStatus("absent") = "PENDING" /\ MapModerationStatus("absent") = "PENDING"
      BY DEF MapAiStatus, MapModerationStatus, AiProcessingStatuses, ModerationStatuses
    <3>6. price # Absent
      BY <1>2, <2>4
    <3> HIDE DEF r, d, price
    <3> QED
      BY <3>1, <3>2, <3>3, <3>4, <3>5, <3>6 DEF Matches
  <2> HIDE DEF r, d
  <2>8. Agree(r, d)
    BY <2>7, AgreeMatches
  <2>9. ~ (verdict' = NoMessage /\ answers' > 0)
    BY <1>1, <2>2
  <2> QED
    BY <2>5, <2>6, <2>8, <2>9
<1> QED
  BY <1>1, <1>3, <1>4 DEF ViewsInv

\* A verdict over base data: the row to come and the document get the same.
LEMMA ViewsIndexVerdict ==
    ASSUME TypeInv, ViewsInv, IndexVerdict
    PROVE  ViewsInv'
<1>1. /\ RowFits(row) /\ doc \in DocumentRecords
      /\ verdict \in EnrichedEvents({Model}) \cup RejectedEvents /\ outcome = NoMessage
      /\ UNCHANGED <<row, answers, last>> /\ verdict' = NoMessage
      /\ early' = (early \/ ~HasBaseTransactionData)
  BY DEF TypeInv, IndexVerdict
<1>2. PICK o \in Outputs : last = o /\ verdict = VerdictOn(o)
  BY DEF TypeInv, IndexVerdict
<1>3. HasBaseTransactionData' = HasBaseTransactionData
  <2>1. doc'.price = doc.price
    BY <1>1 DEF IndexVerdict, Enriched, Refused, DocumentRecords
  <2> QED
    BY <2>1 DEF HasBaseTransactionData
<1>4. CASE ~HasBaseTransactionData
  <2>1. outcome' = NoMessage /\ early'
    BY <1>1, <1>4 DEF IndexVerdict
  <2> QED
    BY <1>1, <1>3, <1>4, <2>1 DEF ViewsInv
<1>5. ASSUME HasBaseTransactionData, ~early,
             \E r, d : /\ r = After(row, outcome)' /\ d = doc' /\ Matches(r, d) /\ Tells(r, o)
      PROVE  ViewsInv'
  <2>1. PICK r, d : r = After(row, outcome)' /\ d = doc' /\ Matches(r, d) /\ Tells(r, o)
    BY <1>5
  <2>2. Agree(r, d)
    BY <2>1, AgreeMatches
  <2>3. \E q \in Outputs : q = last' /\ Tells(r, q)
    BY <1>1, <1>2, <2>1
  <2>4. \E q \in {After(row, outcome)'}, e \in {doc'} :
                /\ Agree(q, e)
                /\ verdict' = NoMessage /\ answers' > 0 =>
                      \E a \in Outputs : a = last' /\ Tells(q, a)
    BY <2>1, <2>2, <2>3
  <2> QED
    BY <1>3, <1>5, <2>4 DEF ViewsInv
<1>6. CASE HasBaseTransactionData /\ early
  BY <1>1, <1>3, <1>6 DEF ViewsInv
<1>7. CASE HasBaseTransactionData /\ ~early
  <2>1. Matches(row, doc)
    <3>1. PICK r \in {After(row, outcome)}, d \in {doc} : Agree(r, d)
      BY <1>7 DEF ViewsInv
    <3>2. r = row /\ d = doc
      BY <1>1, <3>1 DEF After
    <3>3. Matches(r, d)
      BY <3>1, AgreeMatches
    <3> QED
      BY <3>2, <3>3 DEF Matches
  <2>2. doc.price # Absent
    BY <1>7 DEF HasBaseTransactionData
  <2>3. CASE verdict \in EnrichedEvents({Model})
    <3>1. PICK v \in EnrichedEvents({Model}) : v = verdict
      BY <2>3
    <3>2. PICK e : e = Snapshot(v)
      OBVIOUS
    <3>3. /\ e \in EnrichedEvents(Plain) /\ e.texts = v.texts /\ e.tags = v.tags
          /\ e.moderation = v.moderation
      BY <3>1, <3>2, SnapshotShape
    <3>4. Tidy(v) /\ v.type = "ai.enriched" /\ v.texts \in [TextFields -> Filled]
          /\ v.tags \in Seq(Plain) /\ v.moderation.status \in {"ALLOW", "REVIEW"}
      <4>1. Tidy(v)
        BY EventShape
      <4> QED
        BY <4>1 DEF Tidy
    <3> DEFINE score == Stored(e.riskScore)
               confidence == Stored(e.moderation.confidence)
               r == [row EXCEPT !.searchStatus = "INDEXED_ENRICHED", !.state = "READY",
                                !.aiStatus = "COMPLETED", !.texts = e.texts,
                                !.riskScore = score, !.searchTags = e.tags,
                                !.versions = e.versions,
                                !.moderationStatus = e.moderation.status,
                                !.moderationReason = e.moderation.reason,
                                !.moderationConfidence = confidence]
               tags == IF v.tags = << >> THEN doc.tags ELSE v.tags
               d == [doc EXCEPT !.texts = v.texts, !.tags = tags,
                                !.aiStatus = "COMPLETED", !.moderationStatus = "ALLOW",
                                !.searchStatus = "READY"]
    <3>5. doc' = d
      <4>1. doc' = Enriched(v)
        BY <3>1, <3>4 DEF IndexVerdict
      <4>2. Enriched(v)
              = [doc EXCEPT !.texts = v.texts,
                            !.tags = IF v.tags = << >> THEN doc.tags ELSE v.tags,
                            !.aiStatus = "COMPLETED", !.moderationStatus = "ALLOW",
                            !.searchStatus = IF HasBaseTransactionData THEN "READY"
                                                                       ELSE "PENDING_BASE"]
        BY <1>1, EnrichedShape
      <4> QED
        BY <1>7, <4>1, <4>2
    <3>6. outcome' = Updated("ai.enriched", e)
      BY <1>7, <3>1, <3>2, <3>4 DEF IndexVerdict
    <3>7. After(row, outcome)' = r
      <4>1. /\ outcome' # NoMessage /\ outcome'.type # "search.index.rejected"
            /\ outcome'.source # "transaction.created" /\ outcome'.enrichment = e
        BY <3>3, <3>6, OutcomeCases, AbsentAssumption DEF Updated
      <4> QED
        BY <1>1, <4>1 DEF After
    <3>8. /\ r.title = row.title /\ r.price = row.price /\ r.texts = v.texts
          /\ r.aiStatus = "COMPLETED" /\ r.searchStatus = "INDEXED_ENRICHED"
          /\ r.moderationStatus = v.moderation.status
          /\ r.moderationReason = v.moderation.reason
          /\ r.searchTags = v.tags /\ r.state = "READY"
      BY <1>1, <3>3 DEF RowFits, RowRecords
    <3>9. /\ d.title = doc.title /\ d.price = doc.price /\ d.texts = v.texts
          /\ d.aiStatus = "COMPLETED" /\ d.searchStatus = "READY"
          /\ d.moderationStatus = "ALLOW" /\ d.tags = tags
      BY <1>1 DEF DocumentRecords
    <3>10. MapSearchIndexStatus("READY", v.texts) = "INDEXED_ENRICHED"
      <4>1. v.texts["summary"] # "absent" /\ v.texts["improvedDescription"] # "absent"
        BY <3>4, TextFacts DEF TextFields
      <4> QED
        BY <4>1 DEF MapSearchIndexStatus
    <3>11. MapAiStatus("COMPLETED") = "COMPLETED" /\ MapModerationStatus("ALLOW") = "ALLOW"
      BY DEF MapAiStatus, MapModerationStatus, AiProcessingStatuses, ModerationStatuses
    <3>12. OnTheWire(v.tags) # Absent => OnTheWire(tags) = OnTheWire(v.tags)
      BY DEF OnTheWire
    <3>13. "ALLOW" = IF v.moderation.status = "REVIEW" THEN "ALLOW" ELSE v.moderation.status
      BY <3>4
    <3> HIDE DEF r, d, tags, score, confidence
    <3>14. Matches(r, d)
      BY <2>1, <3>8, <3>9, <3>10, <3>11, <3>12, <3>13 DEF Matches
    <3>15. Tells(r, o)
      <4>1. v = VerdictOn(o) /\ v.type # "ai.rejected"
        BY <1>2, <3>1, <3>4
      <4>2. v \notin RejectedEvents
        BY <4>1 DEF RejectedEvents
      <4>3. /\ v.moderation.status = o.moderation.status
            /\ IsText(o.moderation.reason) => v.moderation.reason = Trim(o.moderation.reason)
        BY <4>1, <4>2, VerdictShape
      <4> QED
        BY <3>8, <4>3 DEF Tells
    <3> QED
      BY <1>5, <1>7, <3>5, <3>7, <3>14, <3>15
  <2>4. CASE verdict \in RejectedEvents
    <3>1. PICK w \in Reasons : verdict = Rejected(w)
      BY <2>4 DEF RejectedEvents, Rejected
    <3>2. verdict.type # "ai.enriched" /\ verdict.reason = w
      BY <3>1 DEF Rejected
    <3> DEFINE r == [row EXCEPT !.searchStatus = "FAILED", !.state = "REJECTED_MODERATION",
                                !.aiStatus = "FAILED", !.moderationStatus = "REJECT",
                                !.moderationReason = w]
               d == [doc EXCEPT !.moderationStatus = "REJECT", !.moderationReason = w,
                                !.aiStatus = "FAILED", !.searchStatus = "FAILED"]
    <3>5. doc' = d
      BY <1>7, <3>2 DEF IndexVerdict, Refused
    <3>6. outcome' = RejectedFor(w)
      BY <1>7, <3>2 DEF IndexVerdict
    <3>7. After(row, outcome)' = r
      <4>1. /\ outcome' # NoMessage /\ outcome'.type = "search.index.rejected"
            /\ outcome'.reason = w
        BY <3>6, OutcomeCases, AbsentAssumption DEF RejectedFor
      <4> QED
        BY <1>1, <4>1 DEF After
    <3>8. /\ r.title = row.title /\ r.price = row.price /\ r.texts = row.texts
          /\ r.aiStatus = "FAILED" /\ r.searchStatus = "FAILED"
          /\ r.moderationStatus = "REJECT" /\ r.moderationReason = w
          /\ r.searchTags = row.searchTags /\ r.state = "REJECTED_MODERATION"
      BY <1>1 DEF RowFits, RowRecords
    <3>9. /\ d.title = doc.title /\ d.price = doc.price /\ d.texts = doc.texts
          /\ d.aiStatus = "FAILED" /\ d.searchStatus = "FAILED"
          /\ d.moderationStatus = "REJECT" /\ d.tags = doc.tags
      BY <1>1 DEF DocumentRecords
    <3>11. MapAiStatus("FAILED") = "FAILED" /\ MapModerationStatus("REJECT") = "REJECT"
           /\ \A x : MapSearchIndexStatus("FAILED", x) = "FAILED"
      BY DEF MapAiStatus, MapModerationStatus, MapSearchIndexStatus, AiProcessingStatuses,
             ModerationStatuses
    <3> HIDE DEF r, d
    <3>14. Matches(r, d)
      BY <2>1, <3>8, <3>9, <3>11 DEF Matches
    <3>15. Tells(r, o)
      BY <1>2, <3>1, <3>8 DEF Tells
    <3> QED
      BY <1>5, <1>7, <3>5, <3>7, <3>14, <3>15
  <2> QED
    BY <1>1, <2>3, <2>4
<1> QED
  BY <1>4, <1>6, <1>7

LEMMA AlwaysViewsInv == Spec => []ViewsInv
<1>1. Init => ViewsInv
  BY ViewsInit
<1>2. TypeInv /\ ViewsInv /\ [Next]_vars => ViewsInv'
  <2> SUFFICES ASSUME TypeInv, ViewsInv, [Next]_vars
               PROVE  ViewsInv'
    OBVIOUS
  <2>1. CASE \E o \in Outputs : ModelAnswers(o)
    BY <2>1, ViewsModelAnswers
  <2>2. CASE IndexBase
    BY <2>2, ViewsIndexBase
  <2>3. CASE IndexVerdict
    BY <2>3, ViewsIndexVerdict
  <2>4. CASE ApplyOutcome
    BY <2>4, ViewsApplyOutcome
  <2>5. CASE UNCHANGED vars
    <3>1. /\ row' = row /\ doc' = doc /\ outcome' = outcome /\ early' = early
          /\ verdict' = verdict /\ answers' = answers /\ last' = last
          /\ HasBaseTransactionData' = HasBaseTransactionData
      BY <2>5 DEF vars, HasBaseTransactionData
    <3>2. After(row, outcome)' = After(row, outcome)
      BY <3>1 DEF After
    <3> QED
      BY <3>1, <3>2 DEF ViewsInv
  <2> QED
    BY <2>1, <2>2, <2>3, <2>4, <2>5 DEF Next
<1> QED
  BY <1>1, <1>2, AlwaysTypeInv, PTL DEF Spec

\* With nothing under way, the row and the document are in agreement.
LEMMA AtRestAgree ==
    ASSUME ViewsInv, AtRest, ~early, HasBaseTransactionData
    PROVE  /\ Matches(row, doc)
           /\ answers > 0 => \E o \in Outputs : o = last /\ Tells(row, o)
<1>1. PICK r \in {After(row, outcome)}, d \in {doc} :
                /\ Agree(r, d)
                /\ verdict = NoMessage /\ answers > 0 =>
                      \E o \in Outputs : o = last /\ Tells(r, o)
  BY DEF ViewsInv
<1>2. r = row /\ d = doc
  BY <1>1 DEF AtRest, After
<1>3. Matches(r, d)
  BY <1>1, AgreeMatches
<1> QED
  BY <1>1, <1>2, <1>3 DEF Matches, Tells, AtRest

\* From ai-service through search-service to transaction-service a verdict is never
\* made milder: a READY row shows the status and the reason of the last answer.
THEOREM VerdictAlwaysSurvives == Spec => []VerdictSurvives
<1>1. TypeInv /\ ViewsInv => VerdictSurvives
  <2> SUFFICES ASSUME ViewsInv, AtRest, ~early, answers > 0, HasBaseTransactionData
               PROVE  IF row.state = "READY"
                      THEN /\ row.moderationStatus = last.moderation.status
                           /\ IsText(last.moderation.reason) =>
                                 row.moderationReason = Trim(last.moderation.reason)
                      ELSE VerdictOn(last) = Rejected(row.moderationReason)
    BY DEF VerdictSurvives
  <2>1. PICK o \in Outputs : o = last /\ Tells(row, o)
    BY AtRestAgree
  <2> QED
    BY <2>1 DEF Tells
<1> QED
  BY <1>1, AlwaysTypeInv, AlwaysViewsInv, PTL

\* What the views share whatever came first.
Shared(r, d) ==
    /\ d.title = Trim(r.title) /\ d.price = r.price
    /\ (d.moderationStatus = "REJECT") <=> (r.moderationStatus = "REJECT")
    /\ r.moderationStatus = "REJECT" => d.moderationReason = r.moderationReason

\* A verdict that comes first waits in the document for the base data, and neither the
\* title nor the row knows of it; from then on the row to come shares with the document.
SharedInv ==
    IF HasBaseTransactionData THEN \E r \in {After(row, outcome)} : Shared(r, doc)
    ELSE row.moderationStatus # "REJECT" /\ doc.title = "absent"

LEMMA SharedInit == Init => SharedInv
<1> SUFFICES ASSUME Init
             PROVE  SharedInv
  OBVIOUS
<1>1. ~HasBaseTransactionData /\ doc.title = "absent"
  BY DEF Init, HasBaseTransactionData, NoDocument
<1>2. PICK t \in Titles, p \in Prices : row = NewRow(t, p)
  BY DEF Init
<1>3. row.moderationStatus = "PENDING"
  BY <1>2 DEF NewRow
<1> QED
  BY <1>1, <1>3 DEF SharedInv

LEMMA SharedModelAnswers ==
    ASSUME SharedInv, NEW o \in Outputs, ModelAnswers(o)
    PROVE  SharedInv'
<1>1. UNCHANGED <<row, doc, outcome>> /\ HasBaseTransactionData' = HasBaseTransactionData
  BY DEF ModelAnswers, HasBaseTransactionData
<1>2. After(row, outcome)' = After(row, outcome)
  BY <1>1 DEF After
<1> QED
  BY <1>1, <1>2 DEF SharedInv, Shared

LEMMA SharedApplyOutcome ==
    ASSUME TypeInv, ViewsInv, SharedInv, ApplyOutcome
    PROVE  SharedInv'
<1>1. /\ RowFits(row) /\ outcome \in OutcomeEvents /\ HasBaseTransactionData
      /\ HasBaseTransactionData' /\ outcome' = NoMessage /\ doc' = doc
  BY DEF TypeInv, ViewsInv, ApplyOutcome, HasBaseTransactionData
<1>2. row' = After(row, outcome)
  BY <1>1, Arrives DEF ApplyOutcome
<1>3. After(row, outcome)' = After(row, outcome)
  BY <1>1, <1>2 DEF After
<1> QED
  BY <1>1, <1>3 DEF SharedInv, Shared

LEMMA SharedIndexBase ==
    ASSUME TypeInv, SharedInv, IndexBase
    PROVE  SharedInv'
<1>1. /\ row \in RowRecords /\ doc \in DocumentRecords /\ row' = row
      /\ row.moderationStatus # "REJECT" /\ doc.title = "absent"
      /\ Explained(doc.moderationStatus, doc.moderationReason)
  BY DEF TypeInv, RowFits, SharedInv, IndexBase
<1>2. row.price # Absent
  <2>1. row.price \in {n * 10 : n \in 0..(MaxPrice \div 10)}
    BY <1>1 DEF RowRecords
  <2>2. row.price \in Int
    BY <2>1
  <2> QED
    BY <2>2, AbsentAssumption
<1> DEFINE reject == doc.moderationStatus = "REJECT"
           title == IF IsText(row.title) THEN Trim(row.title) ELSE doc.title
           status == IF reject THEN "FAILED" ELSE "READY"
           d == [doc EXCEPT !.title = title, !.price = row.price, !.state = "INITIATED",
                            !.searchStatus = status]
<1>3. doc' = d
  BY DEF IndexBase
<1>4. title = Trim(row.title)
  BY <1>1 DEF IsText
<1> HIDE DEF title, status
<1>5. /\ d.title = title /\ d.price = row.price
      /\ d.moderationStatus = doc.moderationStatus
      /\ d.moderationReason = doc.moderationReason
  BY <1>1 DEF DocumentRecords
<1>6. HasBaseTransactionData'
  BY <1>2, <1>3, <1>5 DEF HasBaseTransactionData
<1>7. CASE reject
  <2>1. PICK w \in Reasons : w = doc.moderationReason
    BY <1>1, <1>7 DEF Explained
  <2>2. outcome' = RejectedFor(w)
    BY <1>7, <2>1 DEF IndexBase
  <2>3. /\ outcome' # NoMessage /\ outcome'.type = "search.index.rejected"
        /\ outcome'.reason = w
    BY <2>2, OutcomeCases, AbsentAssumption DEF RejectedFor
  <2> DEFINE r == [row EXCEPT !.searchStatus = "FAILED", !.state = "REJECTED_MODERATION",
                              !.aiStatus = "FAILED", !.moderationStatus = "REJECT",
                              !.moderationReason = w]
  <2>4. After(row, outcome)' = r
    BY <1>1, <2>3 DEF After
  <2>5. /\ r.title = row.title /\ r.price = row.price
        /\ r.moderationStatus = "REJECT" /\ r.moderationReason = w
    BY <1>1 DEF RowRecords
  <2> HIDE DEF r, d
  <2>6. Shared(r, d)
    BY <1>4, <1>5, <1>7, <2>1, <2>5 DEF Shared
  <2> QED
    BY <1>3, <1>6, <2>4, <2>6 DEF SharedInv
<1>8. CASE ~reject
  <2>1. outcome' = Updated("transaction.created", Absent)
    BY <1>8 DEF IndexBase
  <2>2. /\ outcome' # NoMessage /\ outcome'.type # "search.index.rejected"
        /\ outcome'.source = "transaction.created"
    BY <2>1, OutcomeCases, AbsentAssumption DEF Updated
  <2> DEFINE r == [row EXCEPT !.searchStatus = "INDEXED_BASE", !.state = "AI_PROCESSING"]
  <2>3. After(row, outcome)' = r
    BY <1>1, <2>2 DEF After
  <2>4. /\ r.title = row.title /\ r.price = row.price
        /\ r.moderationStatus = row.moderationStatus
    BY <1>1 DEF RowRecords
  <2> HIDE DEF r, d
  <2>5. Shared(r, d)
    BY <1>1, <1>4, <1>5, <1>8, <2>4 DEF Shared
  <2> QED
    BY <1>3, <1>6, <2>3, <2>5 DEF SharedInv
<1> QED
  BY <1>7, <1>8

LEMMA SharedIndexVerdict ==
    ASSUME TypeInv, SharedInv, IndexVerdict
    PROVE  SharedInv'
<1>1. /\ row \in RowRecords /\ doc \in DocumentRecords
      /\ verdict \in EnrichedEvents({Model}) \cup RejectedEvents /\ outcome = NoMessage
      /\ row' = row
  BY DEF TypeInv, RowFits, IndexVerdict
<1>2. doc'.price = doc.price /\ doc'.title = doc.title
  BY <1>1 DEF IndexVerdict, Enriched, Refused, DocumentRecords
<1>3. HasBaseTransactionData' = HasBaseTransactionData
  BY <1>2 DEF HasBaseTransactionData
<1>4. CASE ~HasBaseTransactionData
  BY <1>1, <1>2, <1>3, <1>4 DEF SharedInv
<1>5. CASE HasBaseTransactionData
  <2>1. Shared(row, doc)
    <3>1. PICK r \in {After(row, outcome)} : Shared(r, doc)
      BY <1>5 DEF SharedInv
    <3>2. r = row
      BY <1>1 DEF After
    <3> QED
      BY <3>1, <3>2 DEF Shared
  <2>2. CASE verdict \in EnrichedEvents({Model})
    <3>1. PICK v \in EnrichedEvents({Model}) : v = verdict
      BY <2>2
    <3>2. PICK e : e = Snapshot(v)
      OBVIOUS
    <3>3. e \in EnrichedEvents(Plain) /\ e.moderation = v.moderation
      BY <3>1, <3>2, SnapshotShape
    <3>4. v.type = "ai.enriched" /\ v.moderation.status \in {"ALLOW", "REVIEW"}
      <4>1. Tidy(v)
        BY EventShape
      <4> QED
        BY <4>1 DEF Tidy, EnrichedEvents
    <3>5. outcome' = Updated("ai.enriched", e)
      BY <1>5, <3>1, <3>2, <3>4 DEF IndexVerdict
    <3>6. /\ outcome' # NoMessage /\ outcome'.type # "search.index.rejected"
          /\ outcome'.source # "transaction.created" /\ outcome'.enrichment = e
      BY <3>3, <3>5, OutcomeCases, AbsentAssumption DEF Updated
    <3> DEFINE score == Stored(e.riskScore)
               confidence == Stored(e.moderation.confidence)
               r == [row EXCEPT !.searchStatus = "INDEXED_ENRICHED", !.state = "READY",
                                !.aiStatus = "COMPLETED", !.texts = e.texts,
                                !.riskScore = score, !.searchTags = e.tags,
                                !.versions = e.versions,
                                !.moderationStatus = e.moderation.status,
                                !.moderationReason = e.moderation.reason,
                                !.moderationConfidence = confidence]
    <3>7. After(row, outcome)' = r
      BY <1>1, <3>6 DEF After
    <3>8. r.title = row.title /\ r.price = row.price /\ r.moderationStatus = e.moderation.status
      BY <1>1 DEF RowRecords
    <3>9. doc'.moderationStatus = "ALLOW"
      BY <1>1, <3>1, <3>4 DEF IndexVerdict, Enriched, DocumentRecords
    <3> HIDE DEF r, score, confidence
    <3>10. Shared(r, doc')
      BY <1>2, <2>1, <3>3, <3>4, <3>8, <3>9 DEF Shared
    <3> QED
      BY <1>3, <1>5, <3>7, <3>10 DEF SharedInv
  <2>3. CASE verdict \in RejectedEvents
    <3>1. PICK w \in Reasons : verdict = Rejected(w)
      BY <2>3 DEF RejectedEvents, Rejected
    <3>2. verdict.type # "ai.enriched" /\ verdict.reason = w
      BY <3>1 DEF Rejected
    <3>3. outcome' = RejectedFor(w)
      BY <1>5, <3>2 DEF IndexVerdict
    <3>4. /\ outcome' # NoMessage /\ outcome'.type = "search.index.rejected"
          /\ outcome'.reason = w
      BY <3>3, OutcomeCases, AbsentAssumption DEF RejectedFor
    <3> DEFINE r == [row EXCEPT !.searchStatus = "FAILED", !.state = "REJECTED_MODERATION",
                                !.aiStatus = "FAILED", !.moderationStatus = "REJECT",
                                !.moderationReason = w]
    <3>5. After(row, outcome)' = r
      BY <1>1, <3>4 DEF After
    <3>6. /\ r.title = row.title /\ r.price = row.price
          /\ r.moderationStatus = "REJECT" /\ r.moderationReason = w
      BY <1>1 DEF RowRecords
    <3>7. doc'.moderationStatus = "REJECT" /\ doc'.moderationReason = w
      BY <1>1, <3>2 DEF IndexVerdict, Refused, DocumentRecords
    <3> HIDE DEF r
    <3>8. Shared(r, doc')
      BY <1>2, <2>1, <3>6, <3>7 DEF Shared
    <3> QED
      BY <1>3, <1>5, <3>5, <3>8 DEF SharedInv
  <2> QED
    BY <1>1, <2>2, <2>3
<1> QED
  BY <1>4, <1>5

LEMMA AlwaysSharedInv == Spec => []SharedInv
<1>1. Init => SharedInv
  BY SharedInit
<1>2. TypeInv /\ ViewsInv /\ SharedInv /\ [Next]_vars => SharedInv'
  <2> SUFFICES ASSUME TypeInv, ViewsInv, SharedInv, [Next]_vars
               PROVE  SharedInv'
    OBVIOUS
  <2>1. CASE \E o \in Outputs : ModelAnswers(o)
    BY <2>1, SharedModelAnswers
  <2>2. CASE IndexBase
    BY <2>2, SharedIndexBase
  <2>3. CASE IndexVerdict
    BY <2>3, SharedIndexVerdict
  <2>4. CASE ApplyOutcome
    BY <2>4, SharedApplyOutcome
  <2>5. CASE UNCHANGED vars
    <3>1. /\ UNCHANGED <<row, doc, outcome>>
          /\ HasBaseTransactionData' = HasBaseTransactionData
      BY <2>5 DEF vars, HasBaseTransactionData
    <3>2. After(row, outcome)' = After(row, outcome)
      BY <3>1 DEF After
    <3> QED
      BY <3>1, <3>2 DEF SharedInv, Shared
  <2> QED
    BY <2>1, <2>2, <2>3, <2>4, <2>5 DEF Next
<1> QED
  BY <1>1, <1>2, AlwaysTypeInv, AlwaysViewsInv, PTL DEF Spec

\* Once nothing is under way, GET /transactions/{id} and a search show the same title,
\* price and rejection, with its reason; and, unless a verdict came before the base
\* data, the same texts and progress, and the same tags if the last verdict had any.
THEOREM SharedFieldsAlwaysAgree == Spec => []SharedFieldsAgree
<1>1. TypeInv /\ ViewsInv /\ SharedInv => SharedFieldsAgree
  <2> SUFFICES ASSUME TypeInv, ViewsInv, SharedInv, AtRest, HasBaseTransactionData
               PROVE  /\ Found.title = Trim(Got.title)
                      /\ Found.price = Got.price
                      /\ (Found.moderationStatus = "REJECT") <=> (Got.moderationStatus = "REJECT")
                      /\ Got.moderationStatus = "REJECT" =>
                            Found.moderationReason = Got.moderationReason
                      /\ ~early =>
                            /\ Found.texts = Got.texts
                            /\ Found.aiStatus = Got.aiStatus
                            /\ Found.searchStatus = Got.searchStatus
                            /\ (Found.moderationStatus = "PENDING")
                                  <=> (Got.moderationStatus = "PENDING")
                            /\ Got.searchTags # Absent => Found.searchTags = Got.searchTags
    BY DEF SharedFieldsAgree
  <2> DEFINE hit == GatewayView(DocumentView(doc))
  <2>1. Found = hit
    <3>1. SearchAnswer("absent", <<doc>>) = <<hit>>
      BY OnlyHit DEF TypeInv
    <3> HIDE DEF hit
    <3>2. <<hit>>[1] = hit
      OBVIOUS
    <3> QED
      BY <3>1, <3>2 DEF Found
  <2>2. /\ hit.title = doc.title /\ hit.price = (IF doc.price = Absent THEN 0 ELSE doc.price)
        /\ hit.moderationStatus = MapModerationStatus(doc.moderationStatus)
        /\ hit.moderationReason = doc.moderationReason
        /\ hit.texts = doc.texts /\ hit.aiStatus = MapAiStatus(doc.aiStatus)
        /\ hit.searchStatus = MapSearchIndexStatus(doc.searchStatus, doc.texts)
        /\ hit.searchTags = OnTheWire(doc.tags)
    BY DEF GatewayView, DocumentView
  <2>3. /\ Got.title = row.title /\ Got.price = row.price
        /\ Got.moderationStatus = row.moderationStatus
        /\ Got.moderationReason = row.moderationReason
        /\ Got.texts = row.texts /\ Got.aiStatus = row.aiStatus
        /\ Got.searchStatus = row.searchStatus
        /\ Got.searchTags = OnTheWire(row.searchTags)
    BY DEF Got, GetAnswer, GetReply, GatewayView, RowView
  <2>4. /\ doc.price # Absent /\ doc.moderationStatus \in {"absent", "ALLOW", "REJECT"}
        /\ row.moderationStatus \in ModerationStatuses
    BY DEF TypeInv, RowFits, DocumentRecords, RowRecords, HasBaseTransactionData
  <2>5. (MapModerationStatus(doc.moderationStatus) = "REJECT") <=> (doc.moderationStatus = "REJECT")
    BY <2>4 DEF MapModerationStatus, ModerationStatuses
  <2>6. Shared(row, doc)
    <3>1. PICK r \in {After(row, outcome)} : Shared(r, doc)
      BY DEF SharedInv
    <3>2. r = row
      BY <3>1 DEF AtRest, After
    <3> QED
      BY <3>1, <3>2 DEF Shared
  <2>7. ~early => Matches(row, doc)
    BY AtRestAgree
  <2> HIDE DEF hit
  <2>8. /\ Found.title = Trim(Got.title) /\ Found.price = Got.price
        /\ (Found.moderationStatus = "REJECT") <=> (Got.moderationStatus = "REJECT")
        /\ Got.moderationStatus = "REJECT" => Found.moderationReason = Got.moderationReason
    BY <2>1, <2>2, <2>3, <2>4, <2>5, <2>6 DEF Shared
  <2>9. ASSUME ~early
        PROVE  /\ Found.texts = Got.texts
               /\ Found.aiStatus = Got.aiStatus
               /\ Found.searchStatus = Got.searchStatus
               /\ (Found.moderationStatus = "PENDING") <=> (Got.moderationStatus = "PENDING")
               /\ Got.searchTags # Absent => Found.searchTags = Got.searchTags
    BY <2>1, <2>2, <2>3, <2>7, <2>9 DEF Matches
  <2> QED
    BY <2>8, <2>9
<1> QED
  BY <1>1, AlwaysTypeInv, AlwaysViewsInv, AlwaysSharedInv, PTL

=============================================================================
