----------------------------- MODULE MCEvidence -----------------------------
(* Model checking of Evidence: small files, documents, rows and plans.      *)
EXTENDS Evidence, TLC

Row(month, portfolio, cutoff, run) ==
    [obligor |-> "o1", month |-> month, written |-> "date", portfolio |-> portfolio,
     cutoff |-> cutoff, run |-> run, declared |-> TRUE]
At(time, row) == [row EXCEPT !.written = time]
MCContent == [f \in Files |->
    CASE f = "seed"     -> {Row(1, "sme", 1, 1), Row(2, "sme", 2, 2)}
      [] f = "restated" -> {Row(1, "sme", 2, 3), Row(3, "sme", 3, 3)}
      [] f = "late"     -> {Row(1, "sme", 3, 3)}
      [] f = "moved"    -> {Row(1, "corporate", 2, 2)}
      [] f = "timed"    -> {At("00:00", Row(2, "sme", 2, 3)), At("12:00", Row(2, "sme", 3, 3))}
      [] f = "future"   -> {Row(3, "sme", 4, 3)}]
Plan(p, to, asOf, outputs) ==
    [obligor |-> "o1", portfolio |-> p, from |-> 1, to |-> to, asOf |-> asOf, outputs |-> outputs]
MCPlans == {Plan("sme", 2, 2, FALSE), Plan("sme", 2, 2, TRUE),
            Plan("sme", 3, 3, FALSE), Plan("corporate", 3, 3, TRUE)}

Version(key, document, content, from, to, supersedes, portfolios) ==
    [key |-> key, document |-> document, content |-> content, from |-> from, to |-> to,
     status |-> "approved", supersedes |-> supersedes, level |-> "internal", roles |-> {},
     portfolios |-> portfolios, jurisdiction |-> "SAMA", cosine |-> 9, bm25 |-> 0, size |-> 2]
MCMeta == [v \in Versions |->
    CASE v = "a1"     -> [Version("a@1", "a", "x", 1, Absent, Absent, {}) EXCEPT !.cosine = 8, !.bm25 = 2]
      [] v = "a2"     -> Version("a@2", "a", "y", 2, Absent, Absent, {"sme"})
      [] v = "a2same" -> Version("a@2b", "a", "y", 2, 3, Absent, {"sme"})
      [] v = "b1"     -> [Version("b@1", "b", "x", 3, Absent, "a", {}) EXCEPT
                            !.level = "confidential", !.roles = {"officer"},
                            !.cosine = 7, !.bm25 = 3, !.size = 3]]
Asker(role, portfolio, asOf) ==
    [jurisdiction |-> "SAMA", role |-> role, portfolio |-> portfolio, asOf |-> asOf]
MCAskers == {Asker("analyst", Absent, 1), Asker("analyst", "sme", 2), Asker("officer", "sme", 3)}
MCLevels == [r \in {"analyst", "officer"} |->
    IF r = "analyst" THEN {"internal"} ELSE {"internal", "confidential"}]

StoredRow(obligor, facility, month, cutoff, run, stage, ebitda, interest, pd) ==
    [obligor |-> obligor, facility |-> facility, month |-> month, portfolio |-> "sme",
     cutoff |-> cutoff, run |-> run, stage |-> stage, rating |-> "A",
     ebitda |-> ebitda, interest |-> interest, pit_pd |-> pd]
MCStoredRows ==
    {StoredRow("o1", Null, 1, 1, 1, 1, 4, 2, 1),
     StoredRow("o1", Null, 2, 2, 3, 2, 6, 0, 2),
     StoredRow("o2", Null, 2, 2, 2, 1, Null, 2, 3),
     StoredRow("o1", Null, 2, 3, 3, 2, 5, 1, 2),
     StoredRow("o3", Null, 2, 3, 3, 4, 1, Null, 3),
     StoredRow("o1", "f1", 2, 2, 2, Null, 1, 1, 1)}
FetchPlan(level, obligor, facility, groupBy, aggregation, from, to, asOf, metrics) ==
    [level |-> level, obligor |-> obligor, facility |-> facility, groupBy |-> groupBy,
     aggregation |-> aggregation, from |-> from, to |-> to, asOf |-> asOf,
     portfolio |-> "sme", metrics |-> metrics]
OfObligor(o, from, to, asOf, metrics) ==
    FetchPlan("obligor", o, Null, {}, "avg", from, to, asOf, metrics)
OfFacility(metrics) == FetchPlan("facility", "o1", "f1", {}, "avg", 1, 2, 2, metrics)
OfCohort(o, groupBy, aggregation, asOf, metrics) ==
    FetchPlan("portfolio", o, Null, groupBy, aggregation, 1, 2, asOf, metrics)
MCFetchPlans ==
    {OfObligor("o1", 1, 2, 2, {"interest_coverage"}), OfObligor("o1", 1, 2, 3, {"pit_pd", "stage"}),
     OfObligor("o1", 1, 2, 6, {"interest_coverage"}), OfObligor("o2", 1, 2, 2, {"interest_coverage"}),
     OfObligor("o1", 1, 2, 2, {"pit_pd"}), OfObligor("o1", 2, 3, 2, {"stage"}),
     OfFacility({"stage"}), OfFacility({"pit_pd"}),
     OfCohort(Null, {"stage"}, "avg", 3, {"pit_pd"}), OfCohort(Null, {}, "sum", 2, {"stage"}),
     OfCohort(Null, {"month"}, "count", 3, {"rating"}),
     OfCohort(Null, {}, "avg", 3, {"interest_coverage"}),
     OfCohort(Null, {"obligor"}, "avg", 3, {"pit_pd"}), OfCohort("o1", {}, "avg", 3, {"pit_pd"})}

(* Contexts and ledger threads are interchangeable; no liveness is checked. *)
Symmetry == Permutations(Contexts) \union Permutations(LedgerThreads)

=============================================================================
