---------------------------- MODULE MCEnrichment ----------------------------
(***************************************************************************)
(* Instances of Enrichment for TLC.  The answers of the model differ from  *)
(* a proper one in the moderation, in the data, or in their form.          *)
(***************************************************************************)
EXTENDS Enrichment

CONSTANTS none, absent

MCPrices == {4, 250005, 990000}
MCTitles == {"absent", "padded", "blank"}

Proper ==
    [form |-> "json", unknownKey |-> FALSE, texts |-> [f \in TextFields |-> "plain"],
     tags |-> <<"plain">>, riskScore |-> 33333,
     moderation |-> [status |-> "ALLOW", reason |-> "plain", confidence |-> 925]]

MCModerations ==
    [status : Statuses \cup {"allow", "absent"}, reason : Texts, confidence : {925}]
        \cup [status : Statuses, reason : {"plain"}, confidence : {absent, -1, 0, 1000, 1001}]
        \cup {absent}

MCTexts ==
    {[f \in TextFields |-> t] : t \in Texts}
        \cup {[Proper.texts EXCEPT ![f] = "blank"] : f \in TextFields}

MCTags == {absent, << >>, <<"blank">>, <<"padded", "blank", "other">>, <<"absent", "plain">>}

MCScores == {absent, -5, 0, 33333, 100001}

Judged(outputs) == {[o EXCEPT !.moderation.status = m] : o \in outputs, m \in Statuses}

MCOutputs ==
    {[Proper EXCEPT !.moderation = m] : m \in MCModerations}
        \cup Judged({[Proper EXCEPT !.texts = x] : x \in MCTexts})
        \cup Judged({[Proper EXCEPT !.tags = g] : g \in MCTags})
        \cup Judged({[Proper EXCEPT !.riskScore = s] : s \in MCScores})
        \cup {[Proper EXCEPT !.form = f, !.unknownKey = u] :
                f \in {"json", "prose", "scalar", "broken"}, u \in BOOLEAN}

=============================================================================
