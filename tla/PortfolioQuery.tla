--------------------------- MODULE PortfolioQuery ---------------------------
(***************************************************************************)
(* What a query plan may read and what it returns: the plan's own rules    *)
(* (schemas.QueryPlan), the compiler (query_guard.py), the check of the    *)
(* rows that come back (data_service.validate_result), the governed        *)
(* calculations (calculations.py) and the factsheet (factsheet.py).        *)
(*                                                                         *)
(* A row has one column of each kind the rules tell apart: ebitda and      *)
(* interest (stored numbers, of a governed ratio), pit_pd (a model output, *)
(* in percent), stage and rating (not a number). Loads and watermarks are  *)
(* SourceLedger's.                                                         *)
(***************************************************************************)
EXTENDS Integers, FiniteSetsExt

CONSTANTS
    StoredRows,     \* rows that the analytical database may come to hold
    FetchPlans,     \* plans that reviewers approve
    MaximumMonths, MaximumRows, MaximumGroupBy, MinimumCohort,  \* query_controls
    Null

ASSUME QueryAssumption ==
    /\ MaximumRows \in Nat /\ MinimumCohort \in Nat /\ IsFiniteSet(StoredRows)
    /\ \A r \in StoredRows : r.cutoff \in Int /\ r.run \in Int
    /\ \A p \in FetchPlans : p.asOf \in Int

VARIABLES
    stored,         \* the analytical database
    fetched         \* what the last plan returned
queryVars == <<stored, fetched>>

Refused == [outcome |-> "refused", rows |-> {}, groups |-> {}, sheet |-> Null]
QueryInit == stored = {} /\ fetched = Refused

-----------------------------------------------------------------------------
(* The registry's metrics.                                                  *)
Columns(metric) == IF metric = "interest_coverage" THEN {"ebitda", "interest"} ELSE {metric}
Governed(metric) == metric = "interest_coverage"
Numeric(metric) == metric # "rating"
AtGrain(metric) == IF metric = "stage" THEN {"obligor", "facility"} ELSE {"obligor"}
ApprovedFor(metric) ==
    IF Governed(metric) THEN {"sme", "corporate"} ELSE {"retail", "sme", "corporate"}
SelectedColumns(p) == UNION {Columns(metric) : metric \in p.metrics}
UsesModel(p) == "pit_pd" \in SelectedColumns(p)
IsCohort(p) == p.level = "portfolio"

(* QueryPlan.validate_dates_and_grain.                                      *)
WellStated(p) ==
    /\ p.from <= p.to /\ p.to <= p.asOf
    /\ p.level = "facility" => p.facility # Null
    /\ IF IsCohort(p) THEN p.obligor = Null /\ p.facility = Null
                      ELSE p.obligor # Null /\ p.groupBy = {}

(* compile, up to its predicates.                                           *)
Compiles(p) ==
    /\ p.to - p.from + 1 <= MaximumMonths
    /\ Cardinality(p.groupBy) <= MaximumGroupBy
    /\ p.groupBy \subseteq {"month", "stage", "rating"}
    /\ \A metric \in p.metrics :
          /\ p.portfolio \in ApprovedFor(metric)
          /\ (IF p.level = "facility" THEN "facility" ELSE "obligor") \in AtGrain(metric)
          /\ IsCohort(p) =>
                ~Governed(metric) /\ (p.aggregation \in {"sum", "avg"} => Numeric(metric))

(* The mandatory predicates, point in time included.                        *)
(* Mutant: a model output is dated by its row's cutoff only.                *)
KnowableByCutoff(p, r) == r.cutoff <= p.asOf
Knowable(p, r) == r.cutoff <= p.asOf /\ (UsesModel(p) => r.run <= p.asOf)
Matches(p, r) ==
    /\ r.portfolio = p.portfolio /\ r.month \in p.from..p.to
    /\ (r.facility # Null) = (p.level = "facility")
    /\ ~IsCohort(p) => r.obligor = p.obligor /\ r.facility = p.facility
    /\ Knowable(p, r)
Matching(p, table) == {r \in table : Matches(p, r)}

-----------------------------------------------------------------------------
(* A cohort: an aggregate of each group that is large enough.               *)
(* Mutant: it counts rows.                                                  *)
CohortRows(rows) == Cardinality(rows)
CohortSize(rows) == Cardinality({r.obligor : r \in rows})
Key(p, r) == [dimension \in p.groupBy |-> r[dimension]]
Reported(rows, column) == {r \in rows : r[column] # Null}
Aggregate(function, rows, column) ==
    LET known == Reported(rows, column)
        total == MapThenSumSet(LAMBDA r : r[column], known) IN
    CASE function = "count" -> Cardinality(known)
      [] known = {} -> Null
      [] function = "sum" -> total
      [] OTHER -> total \div Cardinality(known)
Groups(p, rows) ==
    {LET members == {r \in rows : Key(p, r) = key} IN
       [key |-> key, size |-> CohortSize(members),
        values |-> [metric \in p.metrics |-> Aggregate(p.aggregation, members, metric)]] :
     key \in {Key(p, r) : r \in rows}}
LargeEnough(p, rows) == {g \in Groups(p, rows) : g.size >= MinimumCohort}

(* validate_result: nothing was truncated, no two rows of one month, every  *)
(* selected field as the registry declares it, none of the grain missing.   *)
Whole(rows) == Cardinality(rows) <= MaximumRows
InRange(r, column) ==
    CASE column = "interest" -> r.interest = Null \/ r.interest >= 0
      [] column = "stage" -> r.stage \in {Null, 1, 2, 3}
      [] OTHER -> TRUE
RowsAreValid(p, rows) ==
    /\ Whole(rows) /\ \A r \in rows, column \in SelectedColumns(p) : InRange(r, column)
    /\ \A r, s \in rows : r.month = s.month => r = s
GroupsAreValid(groups) ==
    /\ Whole(groups)
    /\ \A g \in groups : \A dimension \in DOMAIN g.key : g.key[dimension] # Null

-----------------------------------------------------------------------------
(* _ratio: a number only of a positive denominator.                         *)
Ratio(numerator, denominator) ==
    IF numerator = Null \/ denominator = Null THEN [value |-> Null, status |-> "warning"]
    ELSE IF denominator <= 0 THEN [value |-> Null, status |-> "invalid"]
    ELSE [value |-> numerator \div denominator, status |-> "valid"]
Metric(metric, r) ==
    IF Governed(metric) THEN Ratio(r.ebitda, r.interest)
    ELSE [value |-> r[metric], status |-> IF r[metric] = Null THEN "warning" ELSE "valid"]

(* build_trends: probabilities in points, amounts relative to a positive    *)
(* opening one.                                                             *)
Trend(column, first, last) ==
    IF first[column] = Null \/ last[column] = Null THEN Null
    ELSE IF column = "pit_pd" THEN last[column] - first[column]
    ELSE IF first[column] <= 0 THEN Null
    ELSE ((last[column] - first[column]) * 100) \div first[column]
Worsened(rows, first, last) ==
    LET staged == Reported(rows, "stage") IN
    \E r, s \in staged : /\ \A x \in staged : r.month <= x.month /\ x.month <= s.month
                         /\ s.stage > r.stage

Factsheet(p, rows) ==
    LET last == CHOOSE r \in rows : \A s \in rows : s.month <= r.month
        first == CHOOSE r \in rows : \A s \in rows : s.month >= r.month
        metrics == [metric \in p.metrics |-> Metric(metric, last)] IN
    [observed |-> Cardinality(rows), position |-> last, metrics |-> metrics,
     trends |-> [column \in SelectedColumns(p) \intersect {"pit_pd", "ebitda"} |-> Trend(column, first, last)],
     migrated |-> "stage" \in SelectedColumns(p) /\ Worsened(rows, first, last),
     missing |-> {metric \in p.metrics : metrics[metric].status = "warning"},
     flags |-> {metric \in p.metrics : metrics[metric].status = "invalid"}
                  \union (IF p.asOf - last.month > 3 THEN {"stale"} ELSE {})]

(* execute_query and build_factsheet, for a plan that was approved.         *)
Outcome(p, table) ==
    LET rows == Matching(p, table)
        groups == LargeEnough(p, rows) IN
    CASE ~(WellStated(p) /\ Compiles(p)) -> Refused
      [] IsCohort(p) /\ ~GroupsAreValid(groups) -> [Refused EXCEPT !.outcome = "invalid"]
      [] IsCohort(p) -> [Refused EXCEPT !.outcome = "cohort", !.groups = groups]
      [] ~RowsAreValid(p, rows) -> [Refused EXCEPT !.outcome = "invalid"]
      [] rows = {} -> [Refused EXCEPT !.outcome = "empty"]
      [] OTHER -> [Refused EXCEPT !.outcome = "sheet", !.rows = rows, !.sheet = Factsheet(p, rows)]

StoreRow ==
    \E r \in StoredRows \ stored : stored' = stored \union {r} /\ UNCHANGED fetched
Fetch ==
    \E p \in FetchPlans : fetched' = Outcome(p, stored) /\ UNCHANGED stored
QueryNext == StoreRow \/ Fetch
QuerySpec == QueryInit /\ [][QueryNext]_queryVars

-----------------------------------------------------------------------------
QueryTypeOK ==
    /\ stored \subseteq StoredRows
    /\ fetched.outcome \in {"refused", "invalid", "empty", "cohort", "sheet"}
    /\ fetched.outcome # "sheet" => fetched.sheet = Null
    /\ fetched.outcome = "sheet" => fetched.sheet.observed \in 1..MaximumRows

(* "A group spanning twelve months reaches COUNT( * ) = 25 with three       *)
(* borrowers in it": the months of a few obligors never make a cohort, so   *)
(* every returned group stands for MinimumCohort obligors of the database.  *)
CohortFloor ==
    [][\A g \in fetched'.groups :
          \E cohort \in SUBSET {r.obligor : r \in stored} :
             /\ Cardinality(cohort) = MinimumCohort
             /\ \A o \in cohort : \E r \in stored :
                   r.obligor = o /\ \A dimension \in DOMAIN g.key : r[dimension] = g.key[dimension]]_fetched

(* "A query can only ever see what was knowable at the plan's as_of_date":  *)
(* a row that arrives with a later cutoff, or a later model run when model  *)
(* outputs are asked for, changes no answer to the plan.                    *)
HindsightIsInvisible ==
    [][\A p \in FetchPlans :
          (stored' # stored /\ \A r \in stored' \ stored :
              r.cutoff > p.asOf \/ ("pit_pd" \in p.metrics /\ r.run > p.asOf))
             => Outcome(p, stored') = Outcome(p, stored)]_stored

=============================================================================
