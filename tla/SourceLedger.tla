---------------------------- MODULE SourceLedger ----------------------------
(***************************************************************************)
(* The append-only source data of the workbench (workbench/sources.py) and *)
(* the queries that read it at a watermark: GuardedQueryCompiler.compile   *)
(* with a snapshot, executed and validated as ask.prepare does.            *)
(*                                                                         *)
(* A file is the set of its rows. Writers take source.lock; readers take   *)
(* no lock, and DuckDB refuses the connection of a reader that meets a     *)
(* writer, which is one way for a request to fail. Names that a module     *)
(* extending several components could meet twice carry `ledger'.           *)
(*                                                                         *)
(* A row carries the value of its observation date twice: month is the     *)
(* date it is cast to, written how the file has it, "date" or another form *)
(* that casts to a date, as a TIMESTAMP does. Rows of the database are     *)
(* known by the row of the file they were cast from.                       *)
(***************************************************************************)
EXTENDS Naturals, Sequences, FiniteSets

CONSTANTS
    Files,          \* uploads and the seed, each with its rows
    Content,        \* the rows of each file
    Seeds,          \* files that may seed the database: their rows are not validated
    QueryPlans,     \* what analysts ask: obligor, portfolio, dates, as-of date
    Today,          \* the current date; dates are numbers
    MaxRows,        \* maximum_result_rows
    MaxLoads,       \* bound: loads ever made
    LedgerThreads,  \* requests handled at the same time
    Vacant

ASSUME LedgerAssumption ==
    /\ Today \in Nat /\ MaxRows \in Nat /\ MaxLoads \in Nat \ {0}
    /\ Seeds \subseteq Files
    /\ \A f \in Files : IsFiniteSet(Content[f])
    /\ Vacant \notin Files /\ Vacant \notin QueryPlans /\ Vacant \notin LedgerThreads

VARIABLES
    staged,     \* files under staging/
    table,      \* the rows of the database, each with its load
    ledger,     \* source_loads, by load
    holder,     \* who holds source.lock
    reading     \* where each request is, with what it has read so far
ledgerVars == <<staged, table, ledger, holder, reading>>

AllRows == UNION {Content[f] : f \in Files}
Reading ==
    [pc : {"idle", "seed", "append", "valid", "asked", "answered"},
     file : Files \union {Vacant},
     restated : Nat,
     plan : QueryPlans \union {Vacant},
     load : 0..MaxLoads,            \* the question's snapshot
     chain : Seq(Files \X Nat),
     rows : SUBSET AllRows]
AtRest ==
    [pc |-> "idle", file |-> Vacant, restated |-> 0, plan |-> Vacant,
     load |-> 0, chain |-> <<>>, rows |-> {}]

LedgerInit ==
    /\ staged = {}
    /\ table = {}
    /\ ledger = <<>>
    /\ holder = Vacant
    /\ reading = [t \in LedgerThreads |-> AtRest]

(* The two columns of the grain as the database has them, as the file has   *)
(* them, and as text: the text of a stored date is not that of a time.      *)
Grain(row) == <<row.obligor, row.month>>
WrittenGrain(row) == [grain |-> Grain(row), written |-> row.written]
TextOf(grain) == [grain |-> grain, written |-> "date"]
RowsOf(load) == {r.row : r \in {s \in table : s.load = load}}
LoadedRows(f, load) == {[row |-> r, load |-> load] : r \in Content[f]}

(* chain: a hash of the previous hash and the new entries; the sequence of  *)
(* what was hashed identifies it.                                           *)
ChainHash(previous, f) == Append(previous, <<f, Cardinality(Content[f])>>)
Snapshot(load) == ledger[load].chain

-----------------------------------------------------------------------------
(* validate: declared values (a date is what casts to one), cutoff and      *)
(* model run on or after the observation, no cutoff past today, one row per *)
(* grain as written, and a file that was never loaded.                      *)
WellFormed(f) ==
    /\ Content[f] # {}
    /\ \A r \in Content[f] :
          /\ r.declared
          /\ r.month <= r.cutoff /\ r.month <= r.run
          /\ r.cutoff <= Today
          /\ \A s \in Content[f] : WrittenGrain(r) = WrittenGrain(s) => r = s

Loaded(f) == \E n \in DOMAIN ledger : ledger[n].file = f
Validated(f) == ledger # <<>> /\ WellFormed(f) /\ ~Loaded(f)

(* _restated: the grains of the file, as written, whose text is the text of *)
(* one the database already has.                                            *)
Restated(f) ==
    {WrittenGrain(r) : r \in Content[f]} \intersect {TextOf(Grain(s.row)) : s \in table}

Stage ==
    /\ \E f \in Files : staged' = staged \union {f}
    /\ UNCHANGED <<table, ledger, holder, reading>>

(* initialize: copies the curated database to a temporary file, adds the    *)
(* load column and the ledger, and moves it into place.                     *)
Initialize(t) ==
    /\ reading[t].pc = "idle"
    /\ holder = Vacant
    /\ ledger = <<>>
    /\ holder' = t
    /\ \E f \in Seeds : reading' = [reading EXCEPT ![t].pc = "seed", ![t].file = f]
    /\ UNCHANGED <<staged, table, ledger>>

MoveIntoPlace(t) ==
    LET f == reading[t].file IN
    /\ reading[t].pc = "seed"
    /\ table' = LoadedRows(f, 1)
    /\ ledger' = <<[file |-> f, count |-> Cardinality(Content[f]), restated |-> 0,
                    chain |-> ChainHash(<<>>, f)]>>
    /\ holder' = Vacant
    /\ reading' = [reading EXCEPT ![t] = AtRest]
    /\ UNCHANGED staged

(* Mutant: the lock is taken, but nobody waits for it.                      *)
AppendUnlocked(t) ==
    /\ reading[t].pc = "idle"
    /\ holder' = t
    /\ \E f \in staged : reading' = [reading EXCEPT ![t].pc = "append", ![t].file = f]
    /\ UNCHANGED <<staged, table, ledger>>

(* append: under the lock the file is validated again, then rows and ledger *)
(* entry are one DuckDB transaction.                                        *)
AppendFile(t) ==
    /\ reading[t].pc = "idle"
    /\ holder = Vacant
    /\ holder' = t
    /\ \E f \in staged : reading' = [reading EXCEPT ![t].pc = "append", ![t].file = f]
    /\ UNCHANGED <<staged, table, ledger>>

Validate(t) ==
    LET f == reading[t].file IN
    /\ reading[t].pc = "append"
    /\ Validated(f)
    /\ reading' = [reading EXCEPT ![t].pc = "valid", ![t].restated = Cardinality(Restated(f))]
    /\ UNCHANGED <<staged, table, ledger, holder>>

Commit(t) ==
    LET f == reading[t].file
        load == Len(ledger) + 1 IN
    /\ reading[t].pc = "valid"
    /\ load <= MaxLoads
    /\ table' = table \union LoadedRows(f, load)
    /\ ledger' = Append(ledger,
          [file |-> f, count |-> Cardinality(Content[f]), restated |-> reading[t].restated,
           chain |-> ChainHash(Snapshot(load - 1), f)])
    /\ holder' = Vacant
    /\ reading' = [reading EXCEPT ![t] = AtRest]
    /\ UNCHANGED staged

-----------------------------------------------------------------------------
(* ask_question pins a watermark: the one named, or the latest.             *)
AskAt(t) ==
    /\ reading[t].pc = "idle"
    /\ \E load \in DOMAIN ledger, plan \in QueryPlans :
          reading' = [reading EXCEPT
              ![t] = [AtRest EXCEPT !.pc = "asked", !.plan = plan,
                                    !.load = load, !.chain = Snapshot(load)]]
    /\ UNCHANGED <<staged, table, ledger, holder>>

(* compile: portfolio, obligor, range and the point-in-time bounds are      *)
(* predicates of the derived table, before the latest load is chosen. The   *)
(* model run is bound only when a model output is selected.                 *)
KnownAt(plan, row) ==
    /\ row.cutoff <= plan.asOf
    /\ plan.outputs => row.run <= plan.asOf

Selects(plan, row) ==
    /\ row.obligor = plan.obligor
    /\ row.portfolio = plan.portfolio
    /\ row.month \in plan.from..plan.to
    /\ KnownAt(plan, row)

(* Mutant: the watermark is not a predicate.                                *)
SeenByAll(load) == table
Seen(load) == {r \in table : r.load <= load}

LatestRow(rows) ==
    {r \in rows : \A s \in rows : Grain(s.row) = Grain(r.row) => s.load <= r.load}

Resolve(plan, load) == LatestRow({r \in Seen(load) : Selects(plan, r.row)})

(* ROW_NUMBER() = 1 keeps one row of each grain. The load is the only order *)
(* it is given: which of two rows of one load it keeps is not determined.   *)
OnePerGrain(rows) == \A r, s \in rows : Grain(r.row) = Grain(s.row) => r = s
Results(plan, load) ==
    LET latest == Resolve(plan, load) IN
    {{r.row : r \in kept} : kept \in
        {rows \in SUBSET latest :
            /\ OnePerGrain(rows)
            /\ \A r \in latest : \E s \in rows : Grain(s.row) = Grain(r.row)}}

(* validate_result: too many rows, or a row outside its declared values,    *)
(* which only a seed can hold.                                              *)
Acceptable(rows) ==
    /\ rows # {}
    /\ Cardinality(rows) <= MaxRows
    /\ \A r \in rows : r.declared

AnswerQuestion(t) ==
    /\ reading[t].pc = "asked"
    /\ \E rows \in Results(reading[t].plan, reading[t].load) :
          /\ Acceptable(rows)
          /\ reading' = [reading EXCEPT ![t].pc = "answered", ![t].rows = rows]
    /\ UNCHANGED <<staged, table, ledger, holder>>

Forget(t) ==
    /\ reading[t].pc = "answered"
    /\ reading' = [reading EXCEPT ![t] = AtRest]
    /\ UNCHANGED <<staged, table, ledger, holder>>

(* An error: a failed validation, rows that fail theirs, a transaction that *)
(* is rolled back, a reader that meets a writer. The lock is released.      *)
LedgerFails(t) ==
    /\ reading[t].pc \notin {"idle", "answered"}
    /\ holder' = IF holder = t THEN Vacant ELSE holder
    /\ reading' = [reading EXCEPT ![t] = AtRest]
    /\ UNCHANGED <<staged, table, ledger>>

(* The dashboard dies: the lock goes with it, temporary files are left over *)
(* and unlinked by the next attempt, an open transaction leaves no trace.   *)
LedgerCrash ==
    /\ \E t \in LedgerThreads : reading[t].pc # "idle"
    /\ holder' = Vacant
    /\ reading' = [t \in LedgerThreads |->
          IF reading[t].pc = "answered" THEN reading[t] ELSE AtRest]
    /\ UNCHANGED <<staged, table, ledger>>

LedgerHandler(t) ==
    \/ Initialize(t) \/ MoveIntoPlace(t)
    \/ AppendFile(t) \/ Validate(t) \/ Commit(t)
    \/ AskAt(t) \/ AnswerQuestion(t) \/ Forget(t)
    \/ LedgerFails(t)

LedgerNext ==
    \/ Stage
    \/ \E t \in LedgerThreads : LedgerHandler(t)
    \/ LedgerCrash

LedgerSpec == LedgerInit /\ [][LedgerNext]_ledgerVars

-----------------------------------------------------------------------------
LedgerTypeOK ==
    /\ staged \subseteq Files
    /\ table \subseteq [row : AllRows, load : 1..MaxLoads]
    /\ ledger \in Seq([file : Files, count : Nat, restated : Nat, chain : Seq(Files \X Nat)])
    /\ holder \in LedgerThreads \union {Vacant}
    /\ reading \in [LedgerThreads -> Reading]

(* "an answer given at watermark N can be replayed exactly after later      *)
(* loads (including restatements) arrive": the snapshot of an answer is     *)
(* still the ledger's, and running its plan there can give the same rows.   *)
(* It can give no others, unless a load up to the watermark has two rows of *)
(* one grain, as a seed or a file of timestamps may.                        *)
ReplayIsExact ==
    \A t \in LedgerThreads : reading[t].pc = "answered" =>
        LET load == reading[t].load
            results == Results(reading[t].plan, load) IN
        /\ reading[t].chain = Snapshot(load)
        /\ reading[t].rows \in results
        /\ (\A n \in 1..load : OnePerGrain({r \in table : r.load = n})) =>
              results = {reading[t].rows}

(* The ledger says what happened, whatever writers met: a file is loaded    *)
(* once and whole, and its restated count is at most the number of grains   *)
(* of the load that earlier loads have. It is that number, and a validated  *)
(* load has one row per grain, when the file writes its dates as dates: the *)
(* rows of a file of timestamps are told apart, and compared with the       *)
(* database, by values that are lost when they are inserted.                *)
Dated(f) == \A r \in Content[f] : r.written = "date"
RestatedGrains(load) ==
    LET earlier == {r \in table : r.load < load} IN
    {Grain(r) : r \in RowsOf(load)} \intersect {Grain(s.row) : s \in earlier}
LedgerIsTruthful ==
    \A n \in DOMAIN ledger :
        LET f == ledger[n].file IN
        /\ ledger[n].count = Cardinality(RowsOf(n))
        /\ RowsOf(n) = Content[f]
        /\ \A m \in DOMAIN ledger : ledger[m].file = f => m = n
        /\ ledger[n].restated <= Cardinality(RestatedGrains(n))
        /\ Dated(f) => ledger[n].restated = Cardinality(RestatedGrains(n))
        /\ Dated(f) /\ n > 1 => OnePerGrain({r \in table : r.load = n})

=============================================================================
