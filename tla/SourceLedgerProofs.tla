------------------------- MODULE SourceLedgerProofs -------------------------
(***************************************************************************)
(* Proofs about SourceLedger for any files, plans, threads and numbers of  *)
(* loads. LedgerInv is the inductive invariant.                            *)
(***************************************************************************)
EXTENDS SourceLedger, FiniteSetTheorems, TLAPS

(* Whoever seeds or appends holds source.lock, and a seed has no ledger to  *)
(* meet.                                                                    *)
WritersHoldLock ==
    \A t \in LedgerThreads :
        /\ reading[t].pc \in {"seed", "append", "valid"} =>
              holder = t /\ reading[t].file \in Files
        /\ reading[t].pc = "seed" => ledger = <<>>

(* What append found out under the lock is still so.                        *)
FoundStillHolds ==
    \A t \in LedgerThreads : reading[t].pc = "valid" =>
        /\ ledger # <<>> /\ ~Loaded(reading[t].file) /\ WellFormed(reading[t].file)
        /\ reading[t].restated = Cardinality(Restated(reading[t].file))

LoadsAreNumbered == \A r \in table : r.load \in DOMAIN ledger

(* A question names a load of the ledger, with its hash.                    *)
QuestionsArePinned ==
    \A t \in LedgerThreads : reading[t].pc \in {"asked", "answered"} =>
        /\ reading[t].load \in DOMAIN ledger
        /\ reading[t].chain = Snapshot(reading[t].load)

(* The bound on the loads is kept.                                           *)
LedgerLength == Len(ledger) <= MaxLoads

LedgerInv ==
    /\ LedgerTypeOK /\ LedgerLength /\ WritersHoldLock /\ FoundStillHolds /\ LoadsAreNumbered
    /\ QuestionsArePinned /\ ReplayIsExact /\ LedgerIsTruthful

-----------------------------------------------------------------------------
(* The restated count of a file is a number: files are finite.              *)
LEMMA RestatedIsFinite ==
    ASSUME NEW f \in Files
    PROVE  Cardinality(Restated(f)) \in Nat /\ Cardinality(Content[f]) \in Nat
  <1> DEFINE written == {WrittenGrain(r) : r \in Content[f]}
             writing == [r \in Content[f] |-> WrittenGrain(r)]
  <1>1. IsFiniteSet(Content[f])
    BY LedgerAssumption
  <1>2. writing \in Surjection(Content[f], written)
    BY DEF Surjection, Range
  <1>3. IsFiniteSet(written)
    BY <1>1, <1>2, FS_Surjection
  <1>4. IsFiniteSet(Restated(f))
    BY <1>3, FS_Intersection DEF Restated
  <1> QED
    BY <1>1, <1>4, FS_CardinalityType

(* What _restated counts are grains of the file that the database has: all  *)
(* of them when the file's dates are dates. A grain written as a date is    *)
(* counted once, and under no other value.                                  *)
LEMMA RestatedCounts ==
    ASSUME NEW f \in Files
    PROVE  LET had == {Grain(r) : r \in Content[f]} \intersect {Grain(s.row) : s \in table}
           IN  /\ Cardinality(had) \in Nat
               /\ Cardinality(Restated(f)) <= Cardinality(had)
               /\ Dated(f) => Cardinality(Restated(f)) = Cardinality(had)
  <1> DEFINE had == {Grain(r) : r \in Content[f]} \intersect {Grain(s.row) : s \in table}
             grainOf == [w \in Restated(f) |-> w.grain]
             textOf == [g \in had |-> TextOf(g)]
  <1>1. IsFiniteSet(had) /\ Cardinality(had) \in Nat
    <2> DEFINE grains == {Grain(r) : r \in Content[f]}
               graining == [r \in Content[f] |-> Grain(r)]
    <2>1. graining \in Surjection(Content[f], grains)
      BY DEF Surjection, Range
    <2>2. IsFiniteSet(grains)
      BY <2>1, FS_Surjection, LedgerAssumption
    <2> QED
      BY <2>2, FS_Intersection, FS_CardinalityType
  <1>2. \A w \in Restated(f) : w.grain \in had /\ w = TextOf(w.grain)
    BY DEF Restated, WrittenGrain, TextOf
  <1>3. grainOf \in [Restated(f) -> had]
    BY <1>2
  <1>4. \A v, w \in Restated(f) : grainOf[v] = grainOf[w] => v = w
    BY <1>2
  <1>5. grainOf \in Injection(Restated(f), had)
    BY <1>3, <1>4 DEF Injection, IsInjective
  <1>6. Cardinality(Restated(f)) <= Cardinality(had)
    BY <1>1, <1>5, FS_Injection
  <1>7. ASSUME Dated(f) PROVE Cardinality(had) <= Cardinality(Restated(f))
    <2>1. \A g \in had : TextOf(g) \in Restated(f)
      <3> TAKE g \in had
      <3>1. PICK r \in Content[f] : g = Grain(r)
        OBVIOUS
      <3>2. WrittenGrain(r) = TextOf(g)
        BY <1>7, <3>1 DEF WrittenGrain, TextOf, Dated
      <3> QED
        BY <3>1, <3>2 DEF Restated
    <2>2. textOf \in [had -> Restated(f)]
      BY <2>1
    <2>3. \A g, h \in had : textOf[g] = textOf[h] => g = h
      BY DEF TextOf
    <2>4. textOf \in Injection(had, Restated(f))
      BY <2>2, <2>3 DEF Injection, IsInjective
    <2>5. IsFiniteSet(Restated(f))
      BY <1>1, <1>5, FS_Injection
    <2> QED
      BY <2>4, <2>5, FS_Injection
  <1>8. Cardinality(Restated(f)) \in Nat
    BY RestatedIsFinite
  <1> HIDE DEF had
  <1>9. Dated(f) => Cardinality(Restated(f)) = Cardinality(had)
    BY <1>1, <1>6, <1>7, <1>8
  <1> QED
    BY <1>1, <1>6, <1>9 DEF had

(* What ReplayIsExact says of one request, of any table and ledger.         *)
LatestIn(rows, plan, load) ==
    LatestRow({r \in {s \in rows : s.load <= load} : Selects(plan, r.row)})
ResultsIn(rows, plan, load) ==
    {{r.row : r \in kept} : kept \in
        {some \in SUBSET LatestIn(rows, plan, load) :
            /\ OnePerGrain(some)
            /\ \A r \in LatestIn(rows, plan, load) : \E s \in some : Grain(s.row) = Grain(r.row)}}
OneEach(rows, load) == \A n \in 1..load : OnePerGrain({r \in rows : r.load = n})
Replayed(rows, loads, request) ==
    LET results == ResultsIn(rows, request.plan, request.load) IN
    /\ request.chain = loads[request.load].chain
    /\ request.rows \in results
    /\ OneEach(rows, request.load) => results = {request.rows}

LEMMA ReplayOfEach ==
    /\ ReplayIsExact <=> \A t \in LedgerThreads :
           reading[t].pc = "answered" => Replayed(table, ledger, reading[t])
    /\ ReplayIsExact' <=> \A t \in LedgerThreads :
           reading'[t].pc = "answered" => Replayed(table', ledger', reading'[t])
  BY DEF ReplayIsExact, Replayed, ResultsIn, OneEach, Snapshot, Results, Resolve, LatestIn, Seen

(* It depends on nothing but the rows and the load of its watermark.        *)
LEMMA ReplayStays ==
    ASSUME NEW rows, NEW more, NEW loads, NEW later, NEW request, Replayed(rows, loads, request),
           later[request.load].chain = loads[request.load].chain,
           {s \in more : s.load <= request.load} = {s \in rows : s.load <= request.load},
           \A n \in 1..request.load : {r \in more : r.load = n} = {r \in rows : r.load = n}
    PROVE  Replayed(more, later, request)
  <1>1. LatestIn(more, request.plan, request.load) = LatestIn(rows, request.plan, request.load)
    BY DEF LatestIn
  <1>2. ResultsIn(more, request.plan, request.load) = ResultsIn(rows, request.plan, request.load)
    BY <1>1 DEF ResultsIn
  <1>3. OneEach(more, request.load) = OneEach(rows, request.load)
    BY DEF OneEach
  <1> QED
    BY <1>2, <1>3 DEF Replayed

(* Where no load has two rows of one grain, a query has one result.         *)
LEMMA OneResult ==
    ASSUME NEW rows, NEW plan, NEW load \in Nat, NEW x \in ResultsIn(rows, plan, load),
           OneEach(rows, load), \A r \in rows : r.load \in Nat \ {0}
    PROVE  ResultsIn(rows, plan, load) = {x}
  <1> DEFINE latest == LatestIn(rows, plan, load)
  <1>1. ASSUME NEW kept \in SUBSET latest,
               \A r \in latest : \E s \in kept : Grain(s.row) = Grain(r.row)
        PROVE  kept = latest
    <2> SUFFICES ASSUME NEW r \in latest PROVE r \in kept
      OBVIOUS
    <2>1. PICK s \in kept : Grain(s.row) = Grain(r.row)
      BY <1>1
    <2>2. s.load <= r.load /\ r.load <= s.load /\ r \in rows /\ s \in rows /\ r.load <= load
      BY <2>1 DEF LatestIn, LatestRow
    <2>3. r.load = s.load /\ r.load \in 1..load
      BY <2>2
    <2> QED
      BY <2>1, <2>2, <2>3 DEF OneEach, OnePerGrain
  <1>2. \A y \in ResultsIn(rows, plan, load) : y = {r.row : r \in latest}
    <2> TAKE y \in ResultsIn(rows, plan, load)
    <2>1. PICK kept \in SUBSET latest :
            /\ \A r \in latest : \E s \in kept : Grain(s.row) = Grain(r.row)
            /\ y = {r.row : r \in kept}
      BY DEF ResultsIn
    <2> QED
      BY <1>1, <2>1
  <1> QED
    BY <1>2

(* The invariant holds of a workbench without source data.                  *)
LEMMA InitInv == LedgerInit => LedgerInv
  <1> SUFFICES ASSUME LedgerInit PROVE LedgerInv
    OBVIOUS
  <1>1. AtRest \in Reading
    BY LedgerAssumption DEF AtRest, Reading
  <1>2. LedgerTypeOK
    BY <1>1 DEF LedgerInit, LedgerTypeOK
  <1>3. \A t \in LedgerThreads : reading[t].pc = "idle"
    BY DEF LedgerInit, AtRest
  <1> QED
    BY <1>2, <1>3, LedgerAssumption
       DEF LedgerInit, LedgerInv, LedgerLength, WritersHoldLock, FoundStillHolds,
           LoadsAreNumbered, QuestionsArePinned, ReplayIsExact, LedgerIsTruthful

(* Without a new row the loads stay what they were.                         *)
LEMMA SameTable ==
    ASSUME UNCHANGED <<table, ledger>>
    PROVE  /\ \A f : Restated(f)' = Restated(f) /\ Loaded(f)' = Loaded(f)
           /\ LedgerIsTruthful => LedgerIsTruthful'
           /\ LoadsAreNumbered => LoadsAreNumbered'
  <1>1. \A load : RowsOf(load)' = RowsOf(load) /\ RestatedGrains(load)' = RestatedGrains(load)
    BY DEF RestatedGrains, RowsOf
  <1>2. \A f : Restated(f)' = Restated(f) /\ Loaded(f)' = Loaded(f)
    BY DEF Restated, Loaded
  <1>3. LedgerIsTruthful => LedgerIsTruthful'
    BY <1>1 DEF LedgerIsTruthful
  <1> QED
    BY <1>2, <1>3 DEF LoadsAreNumbered

(* A step that leaves rows and ledger alone, and in which no thread gets    *)
(* further than to a lock it has taken.                                     *)
LEMMA QuietStep ==
    ASSUME LedgerInv, UNCHANGED <<table, ledger>>, LedgerTypeOK', WritersHoldLock',
           \A t \in LedgerThreads : \/ reading'[t] = reading[t]
                                    \/ reading'[t].pc \in {"idle", "seed", "append"}
    PROVE  LedgerInv'
  <1>1. FoundStillHolds'
    BY DEF LedgerInv, FoundStillHolds, Loaded, Restated
  <1>2. LoadsAreNumbered' /\ LedgerIsTruthful'
    BY SameTable DEF LedgerInv
  <1>3. QuestionsArePinned'
    BY DEF LedgerInv, QuestionsArePinned, Snapshot
  <1>4. ReplayIsExact'
    BY ReplayOfEach DEF LedgerInv
  <1> QED
    BY <1>1, <1>2, <1>3, <1>4 DEF LedgerInv, LedgerLength

(* The numbers of the ledger's loads, and their chains.                     *)
LEMMA LedgerEntries ==
    ASSUME LedgerTypeOK
    PROVE  /\ Len(ledger) \in Nat /\ DOMAIN ledger = 1..Len(ledger)
           /\ \A n \in DOMAIN ledger : Snapshot(n) \in Seq(Files \X Nat)
  <1> DEFINE Chains == Seq(Files \X Nat)
             Entries == [file : Files, count : Nat, restated : Nat, chain : Chains]
  <1>1. \A e \in Entries : e.chain \in Chains
    OBVIOUS
  <1>2. ledger \in Seq(Entries)
    BY DEF LedgerTypeOK
  <1> HIDE DEF Entries, Chains
  <1>3. Len(ledger) \in Nat /\ DOMAIN ledger = 1..Len(ledger)
    BY <1>2
  <1>4. \A n \in DOMAIN ledger : ledger[n] \in Entries
    BY <1>2
  <1> QED
    BY <1>1, <1>3, <1>4 DEF Snapshot, Chains

(* A request's step keeps the types when its new state is one.              *)
LEMMA ReadingStep ==
    ASSUME LedgerTypeOK, NEW t \in LedgerThreads, NEW new \in Reading,
           reading' = [reading EXCEPT ![t] = new],
           UNCHANGED <<staged, table, ledger>>, holder' \in LedgerThreads \union {Vacant}
    PROVE  /\ LedgerTypeOK' /\ reading'[t] = new
           /\ \A u \in LedgerThreads : u # t => reading'[u] = reading[u]
  BY DEF LedgerTypeOK

(* The rows a load adds are those of its file.                              *)
LEMMA LoadedContent ==
    ASSUME NEW f, NEW load PROVE {s.row : s \in LoadedRows(f, load)} = Content[f]
  <1>1. \A s \in LoadedRows(f, load) : s.row \in Content[f]
    BY DEF LoadedRows
  <1>2. \A c \in Content[f] : \E s \in LoadedRows(f, load) : c = s.row
    <2> TAKE c \in Content[f]
    <2>1. [row |-> c, load |-> load] \in LoadedRows(f, load)
      BY DEF LoadedRows
    <2> QED
      BY <2>1
  <1> QED
    BY <1>1, <1>2

(* A load of a file that was never loaded keeps the ledger truthful: its    *)
(* rows are all rows with its number, and all others are earlier.           *)
LEMMA TruthfulAfterLoad ==
    ASSUME LedgerInv, NEW f \in Files, NEW load \in Nat, NEW entry,
           load = Len(ledger) + 1, ~Loaded(f), WellFormed(f),
           table' = table \union LoadedRows(f, load), ledger' = Append(ledger, entry),
           entry.file = f, entry.count = Cardinality(Content[f]),
           entry.restated = Cardinality(Restated(f))
    PROVE  LedgerIsTruthful'
  <1>1. /\ DOMAIN ledger = 1..Len(ledger) /\ DOMAIN ledger' = 1..load /\ ledger'[load] = entry
        /\ \A n \in DOMAIN ledger : ledger'[n] = ledger[n] /\ n \in Nat /\ n < load
    BY SMTT(30) DEF LedgerInv, LedgerTypeOK
  <1>2. /\ \A r \in table : r.load \in Nat /\ r.load < load
        /\ \A r \in LoadedRows(f, load) : r.load = load /\ r.row \in Content[f]
        /\ \A c \in Content[f] : [row |-> c, load |-> load] \in LoadedRows(f, load)
    BY <1>1 DEF LedgerInv, LoadsAreNumbered, LoadedRows
  <1>3. {s \in table' : s.load = load} = LoadedRows(f, load) /\ {s \in table' : s.load < load} = table
    BY <1>2
  <1>4. RowsOf(load)' = Content[f]
    BY <1>3, LoadedContent DEF RowsOf
  <1>5. RestatedGrains(load)' = {Grain(r) : r \in Content[f]} \intersect {Grain(s.row) : s \in table}
    BY <1>3, <1>4 DEF RestatedGrains
  <1>6. ASSUME NEW n \in DOMAIN ledger
        PROVE  /\ RowsOf(n)' = RowsOf(n) /\ RestatedGrains(n)' = RestatedGrains(n)
               /\ {r \in table' : r.load = n} = {r \in table : r.load = n}
    <2>1. {s \in table' : s.load < n} = {s \in table : s.load < n}
      BY <1>1, <1>2
    <2>2. {s \in table' : s.load = n} = {s \in table : s.load = n}
      BY <1>1, <1>2
    <2>3. RowsOf(n)' = RowsOf(n)
      BY <2>2 DEF RowsOf
    <2> QED
      BY <2>1, <2>2, <2>3 DEF RestatedGrains
  <1> SUFFICES ASSUME NEW n \in DOMAIN ledger'
               PROVE  /\ ledger'[n].count = Cardinality(RowsOf(n)')
                      /\ RowsOf(n)' = Content[ledger'[n].file]
                      /\ \A m \in DOMAIN ledger' : ledger'[m].file = ledger'[n].file => m = n
                      /\ ledger'[n].restated <= Cardinality(RestatedGrains(n)')
                      /\ Dated(ledger'[n].file)
                            => ledger'[n].restated = Cardinality(RestatedGrains(n)')
                      /\ Dated(ledger'[n].file) /\ n > 1
                            => OnePerGrain({r \in table' : r.load = n})
    BY DEF LedgerIsTruthful
  <1>7. CASE n = load
    <2>1. /\ entry.restated <= Cardinality(RestatedGrains(load)')
          /\ Dated(f) => entry.restated = Cardinality(RestatedGrains(load)')
      BY <1>5, RestatedCounts
    <2>2. \A m \in DOMAIN ledger' : ledger'[m].file = f => m = load
      BY <1>1 DEF Loaded
    <2>3. ASSUME Dated(f) PROVE OnePerGrain({r \in table' : r.load = load})
      <3>1. \A q, r \in Content[f] : Grain(q) = Grain(r) => q = r
        BY <2>3 DEF WellFormed, WrittenGrain, Dated
      <3>2. \A r \in LoadedRows(f, load) : r = [row |-> r.row, load |-> load]
        BY DEF LoadedRows
      <3> QED
        BY <1>2, <1>3, <3>1, <3>2 DEF OnePerGrain
    <2> QED
      BY <1>1, <1>4, <1>7, <2>1, <2>2, <2>3
  <1>8. CASE n \in DOMAIN ledger
    <2>1. /\ ledger[n].count = Cardinality(RowsOf(n))
          /\ RowsOf(n) = Content[ledger[n].file]
          /\ \A m \in DOMAIN ledger : ledger[m].file = ledger[n].file => m = n
          /\ ledger[n].restated <= Cardinality(RestatedGrains(n))
          /\ Dated(ledger[n].file) => ledger[n].restated = Cardinality(RestatedGrains(n))
          /\ Dated(ledger[n].file) /\ n > 1 => OnePerGrain({r \in table : r.load = n})
      BY <1>8 DEF LedgerInv, LedgerIsTruthful
    <2>2. \A m \in DOMAIN ledger' : ledger'[m].file = ledger'[n].file => m = n
      <3>1. ledger[n].file # f
        BY <1>8 DEF Loaded
      <3>2. \A m \in DOMAIN ledger' : m \in DOMAIN ledger \/ m = load
        BY <1>1
      <3> QED
        BY <1>1, <1>8, <2>1, <3>1, <3>2
    <2> QED
      BY <1>1, <1>6, <1>8, <2>1, <2>2
  <1> QED
    BY <1>1, <1>7, <1>8

(* Rows and ledger entry of a load are written together, in the numbering   *)
(* of the ledger.                                                           *)
LEMMA CommitStep == ASSUME LedgerInv, NEW t \in LedgerThreads, Commit(t) PROVE LedgerInv'
  <1> DEFINE f == reading[t].file
             load == Len(ledger) + 1
             entry == [file |-> f, count |-> Cardinality(Content[f]),
                       restated |-> reading[t].restated,
                       chain |-> ChainHash(Snapshot(load - 1), f)]
  <1>1. /\ reading[t].pc = "valid" /\ load <= MaxLoads
        /\ table' = table \union LoadedRows(f, load) /\ ledger' = Append(ledger, entry)
        /\ holder' = Vacant /\ reading' = [reading EXCEPT ![t] = AtRest] /\ staged' = staged
    BY DEF Commit
  <1>2. /\ f \in Files /\ ledger # <<>> /\ ~Loaded(f) /\ WellFormed(f)
        /\ reading[t].restated = Cardinality(Restated(f))
        /\ holder = t
    BY <1>1 DEF LedgerInv, WritersHoldLock, FoundStillHolds
  <1>3. /\ Len(ledger) \in Nat \ {0} /\ DOMAIN ledger = 1..Len(ledger) /\ load \in 1..MaxLoads
        /\ \A n \in DOMAIN ledger : n \in Nat /\ n < load
    BY <1>1, <1>2, LedgerAssumption DEF LedgerInv, LedgerTypeOK
  <1>4. /\ Len(ledger') = load /\ DOMAIN ledger' = 1..load /\ ledger'[load] = entry
        /\ \A n \in DOMAIN ledger : ledger'[n] = ledger[n]
    BY <1>1, <1>3 DEF LedgerInv, LedgerTypeOK
  <1> HIDE DEF f, load, entry
  <1>5. LedgerTypeOK'
    <2>1. entry \in [file : Files, count : Nat, restated : Nat, chain : Seq(Files \X Nat)]
      <3>1. Snapshot(load - 1) \in Seq(Files \X Nat)
        BY <1>3, LedgerEntries DEF LedgerInv, load
      <3>2. <<f, Cardinality(Content[f])>> \in Files \X Nat
        BY <1>2, RestatedIsFinite
      <3> QED
        BY <3>1, <3>2, <1>2, RestatedIsFinite DEF ChainHash, entry
    <2>2. LoadedRows(f, load) \subseteq [row : AllRows, load : 1..MaxLoads]
      BY <1>2, <1>3 DEF LoadedRows, AllRows
    <2>3. AtRest \in Reading
      BY LedgerAssumption DEF AtRest, Reading
    <2> QED
      BY <1>1, <2>1, <2>2, <2>3 DEF LedgerInv, LedgerTypeOK
  <1>6. \A u \in LedgerThreads : \/ reading'[u] = AtRest
                                 \/ /\ reading'[u] = reading[u]
                                    /\ reading[u].pc \notin {"seed", "append", "valid"}
    BY <1>1, <1>2 DEF LedgerInv, LedgerTypeOK, WritersHoldLock
  <1>7. WritersHoldLock' /\ FoundStillHolds'
    BY <1>6 DEF WritersHoldLock, FoundStillHolds, AtRest
  <1>8. LoadsAreNumbered'
    BY <1>1, <1>3, <1>4 DEF LedgerInv, LoadsAreNumbered, LoadedRows
  <1>9. QuestionsArePinned'
    BY <1>3, <1>4, <1>6 DEF LedgerInv, QuestionsArePinned, Snapshot, AtRest
  <1>10. ReplayIsExact'
    <2> SUFFICES ASSUME NEW u \in LedgerThreads, reading'[u].pc = "answered"
                 PROVE  Replayed(table', ledger', reading'[u])
      BY ReplayOfEach
    <2>1. reading'[u] = reading[u] /\ reading[u].load \in DOMAIN ledger
      BY <1>6 DEF LedgerInv, QuestionsArePinned, AtRest
    <2>2. Replayed(table, ledger, reading[u])
      BY <2>1, ReplayOfEach DEF LedgerInv
    <2>3. \A r \in LoadedRows(f, load) : r.load = load
      BY DEF LoadedRows
    <2>4. /\ {s \in table' : s.load <= reading[u].load} = {s \in table : s.load <= reading[u].load}
          /\ \A n \in 1..reading[u].load :
                {r \in table' : r.load = n} = {r \in table : r.load = n}
      BY <1>1, <1>3, <2>1, <2>3
    <2> QED
      BY <1>4, <2>1, <2>2, <2>4, ReplayStays
  <1>11. LedgerIsTruthful'
    BY <1>1, <1>2, <1>3, TruthfulAfterLoad DEF f, load, entry
  <1> QED
    BY <1>3, <1>4, <1>5, <1>7, <1>8, <1>9, <1>10, <1>11 DEF LedgerInv, LedgerLength

(* The seed makes the first load of an empty ledger.                        *)
LEMMA SeedStep ==
    ASSUME LedgerInv, NEW t \in LedgerThreads, MoveIntoPlace(t) PROVE LedgerInv'
  <1>1. PICK f \in Files :
          /\ f = reading[t].file /\ ledger = <<>> /\ holder = t
          /\ table' = LoadedRows(f, 1)
          /\ ledger' = <<[file |-> f, count |-> Cardinality(Content[f]), restated |-> 0,
                          chain |-> ChainHash(<<>>, f)]>>
          /\ holder' = Vacant /\ reading' = [reading EXCEPT ![t] = AtRest] /\ staged' = staged
    BY DEF MoveIntoPlace, LedgerInv, WritersHoldLock
  <1>2. DOMAIN ledger' = {1} /\ ledger'[1].file = f /\ ledger'[1].restated = 0
        /\ ledger'[1].count = Cardinality(Content[f])
    BY <1>1
  <1>3. LedgerTypeOK'
    <2>1. ledger' \in Seq([file : Files, count : Nat, restated : Nat, chain : Seq(Files \X Nat)])
      <3>1. ChainHash(<<>>, f) \in Seq(Files \X Nat)
        BY RestatedIsFinite DEF ChainHash
      <3> QED
        BY <1>1, <3>1, RestatedIsFinite
    <2>2. LoadedRows(f, 1) \subseteq [row : AllRows, load : 1..MaxLoads]
      BY LedgerAssumption DEF LoadedRows, AllRows
    <2>3. AtRest \in Reading
      BY LedgerAssumption DEF AtRest, Reading
    <2> QED
      BY <1>1, <2>1, <2>2, <2>3 DEF LedgerInv, LedgerTypeOK
  <1>4. \A u \in LedgerThreads : reading'[u].pc = "idle"
    <2>1. \A u \in LedgerThreads \ {t} : reading[u].pc \notin {"seed", "append", "valid"}
      BY <1>1 DEF LedgerInv, WritersHoldLock
    <2>2. \A u \in LedgerThreads : reading[u].pc \notin {"asked", "answered"}
      BY <1>1 DEF LedgerInv, QuestionsArePinned
    <2>3. reading \in [LedgerThreads -> Reading]
      BY DEF LedgerInv, LedgerTypeOK
    <2> QED
      BY <1>1, <2>1, <2>2, <2>3 DEF AtRest, Reading
  <1>5. WritersHoldLock' /\ FoundStillHolds' /\ QuestionsArePinned' /\ ReplayIsExact'
    BY <1>4 DEF WritersHoldLock, FoundStillHolds, QuestionsArePinned, ReplayIsExact
  <1>6. LoadsAreNumbered'
    BY <1>1, <1>2 DEF LoadsAreNumbered, LoadedRows
  <1>7. RowsOf(1)' = Content[f] /\ RestatedGrains(1)' = {}
    <2>1. {s \in table' : s.load = 1} = LoadedRows(f, 1) /\ {s \in table' : s.load < 1} = {}
      BY <1>1 DEF LoadedRows
    <2>2. {s.row : s \in LoadedRows(f, 1)} = Content[f]
      BY LoadedContent
    <2> QED
      BY <2>1, <2>2 DEF RowsOf, RestatedGrains
  <1>8. LedgerIsTruthful'
    BY <1>2, <1>7, FS_EmptySet DEF LedgerIsTruthful
  <1> QED
    BY <1>1, <1>3, <1>5, <1>6, <1>8, LedgerAssumption DEF LedgerInv, LedgerLength

(* The invariant is inductive: the two steps that write are above, and each *)
(* other step leaves rows and ledger alone.                                 *)
LEMMA StepInv == ASSUME LedgerInv, [LedgerNext]_ledgerVars PROVE LedgerInv'
  <1> USE DEF LedgerInv
  <1>a. AtRest \in Reading /\ AtRest.pc = "idle"
    BY LedgerAssumption DEF AtRest, Reading
  <1>1. CASE Stage
    BY <1>1, QuietStep DEF Stage, LedgerTypeOK, WritersHoldLock
  <1>2. ASSUME NEW t \in LedgerThreads, Initialize(t) PROVE LedgerInv'
    <2>1. PICK f \in Seeds : reading' = [reading EXCEPT ![t].pc = "seed", ![t].file = f]
      BY <1>2 DEF Initialize
    <2>2. /\ holder = Vacant /\ holder' = t /\ UNCHANGED <<staged, table, ledger>>
          /\ reading \in [LedgerThreads -> Reading] /\ f \in Files
      BY <1>2, LedgerAssumption DEF Initialize, LedgerTypeOK
    <2> DEFINE new == [reading[t] EXCEPT !.pc = "seed", !.file = f]
    <2>3. new \in Reading /\ new.pc = "seed" /\ new.file = f
      BY <2>2 DEF Reading
    <2>4. reading' = [reading EXCEPT ![t] = new]
      BY <2>1
    <2> HIDE DEF new
    <2>5. /\ LedgerTypeOK' /\ reading'[t] = new
          /\ \A u \in LedgerThreads : u # t => reading'[u] = reading[u]
      BY <2>2, <2>3, <2>4, ReadingStep
    <2>6. WritersHoldLock'
      BY <1>2, <2>2, <2>3, <2>5, LedgerAssumption DEF Initialize, WritersHoldLock
    <2> QED
      BY <2>2, <2>3, <2>5, <2>6, QuietStep
  <1>3. ASSUME NEW t \in LedgerThreads, AppendFile(t) PROVE LedgerInv'
    <2>1. PICK f \in staged : reading' = [reading EXCEPT ![t].pc = "append", ![t].file = f]
      BY <1>3 DEF AppendFile
    <2>2. /\ holder = Vacant /\ holder' = t /\ UNCHANGED <<staged, table, ledger>>
          /\ reading \in [LedgerThreads -> Reading] /\ f \in Files
      BY <1>3, LedgerAssumption DEF AppendFile, LedgerTypeOK
    <2> DEFINE new == [reading[t] EXCEPT !.pc = "append", !.file = f]
    <2>3. new \in Reading /\ new.pc = "append" /\ new.file = f
      BY <2>2 DEF Reading
    <2>4. reading' = [reading EXCEPT ![t] = new]
      BY <2>1
    <2> HIDE DEF new
    <2>5. /\ LedgerTypeOK' /\ reading'[t] = new
          /\ \A u \in LedgerThreads : u # t => reading'[u] = reading[u]
      BY <2>2, <2>3, <2>4, ReadingStep
    <2>6. WritersHoldLock'
      BY <1>3, <2>2, <2>3, <2>5, LedgerAssumption DEF AppendFile, WritersHoldLock
    <2> QED
      BY <2>2, <2>3, <2>5, <2>6, QuietStep
  <1>4. ASSUME NEW t \in LedgerThreads, Validate(t) PROVE LedgerInv'
    <2> DEFINE f == reading[t].file
    <2>1. /\ f \in Files /\ holder = t /\ ledger # <<>> /\ ~Loaded(f) /\ WellFormed(f)
          /\ UNCHANGED <<staged, table, ledger, holder>>
          /\ reading' = [reading EXCEPT ![t].pc = "valid",
                                        ![t].restated = Cardinality(Restated(f))]
      BY <1>4 DEF Validate, Validated, WritersHoldLock
    <2>2. Cardinality(Restated(f)) \in Nat
      BY <2>1, RestatedIsFinite
    <2> DEFINE new == [reading[t] EXCEPT !.pc = "valid", !.restated = Cardinality(Restated(f))]
    <2>a. /\ new \in Reading /\ new.pc = "valid" /\ new.file = f
          /\ new.restated = Cardinality(Restated(f))
      BY <2>2, ZenonT(40) DEF LedgerTypeOK, Reading
    <2>b. reading' = [reading EXCEPT ![t] = new]
      BY <2>1
    <2> HIDE DEF f, new
    <2>3. /\ LedgerTypeOK' /\ reading'[t] = new
          /\ \A u \in LedgerThreads : u # t => reading'[u] = reading[u]
      BY <2>1, <2>a, <2>b, ReadingStep DEF LedgerTypeOK
    <2>4. /\ reading'[t].pc = "valid" /\ reading'[t].file = f
          /\ reading'[t].restated = Cardinality(Restated(f))
          /\ \A u \in LedgerThreads : u # t => reading'[u] = reading[u]
      BY <2>3, <2>a
    <2>5. WritersHoldLock'
      BY <2>1, <2>4 DEF WritersHoldLock
    <2>6. FoundStillHolds'
      <3> SUFFICES ASSUME NEW u \in LedgerThreads, reading'[u].pc = "valid"
                   PROVE  /\ ledger # <<>> /\ ~Loaded(reading'[u].file)
                          /\ WellFormed(reading'[u].file)
                          /\ reading'[u].restated = Cardinality(Restated(reading'[u].file))
        BY <2>1 DEF FoundStillHolds, Loaded, Restated, WellFormed
      <3> QED
        BY <2>1, <2>4 DEF FoundStillHolds
    <2>7. QuestionsArePinned'
      BY <2>1, <2>4 DEF QuestionsArePinned, Snapshot
    <2>8. LoadsAreNumbered' /\ LedgerIsTruthful'
      BY <2>1, SameTable
    <2>9. ReplayIsExact'
      BY <2>1, <2>4, ReplayOfEach
    <2> QED
      BY <2>1, <2>3, <2>5, <2>6, <2>7, <2>8, <2>9 DEF LedgerLength
  <1>5. ASSUME NEW t \in LedgerThreads, AskAt(t) PROVE LedgerInv'
    <2>1. PICK load \in DOMAIN ledger, plan \in QueryPlans :
            reading' = [reading EXCEPT
              ![t] = [AtRest EXCEPT !.pc = "asked", !.plan = plan,
                                    !.load = load, !.chain = Snapshot(load)]]
      BY <1>5 DEF AskAt
    <2>2. UNCHANGED <<staged, table, ledger, holder>>
      BY <1>5 DEF AskAt
    <2> DEFINE asked == [AtRest EXCEPT !.pc = "asked", !.plan = plan,
                                       !.load = load, !.chain = Snapshot(load)]
    <2>3. /\ asked.pc = "asked" /\ asked.load = load /\ asked.chain = Snapshot(load)
      BY DEF AtRest
    <2>4. /\ reading'[t] = asked /\ \A u \in LedgerThreads : u # t => reading'[u] = reading[u]
      BY <2>1 DEF LedgerTypeOK
    <2>5. LedgerTypeOK'
      <3>1. load \in 0..MaxLoads /\ Snapshot(load) \in Seq(Files \X Nat)
        BY LedgerEntries, LedgerAssumption DEF LedgerLength
      <3>2. asked \in Reading
        BY <3>1, <1>a DEF Reading, AtRest
      <3> HIDE DEF asked
      <3> QED
        BY <2>1, <2>2, <3>2, ReadingStep DEF LedgerTypeOK, asked
    <2> HIDE DEF asked
    <2>6. WritersHoldLock' /\ FoundStillHolds'
      BY <2>2, <2>3, <2>4 DEF WritersHoldLock, FoundStillHolds, Loaded, Restated
    <2>7. QuestionsArePinned'
      BY <2>2, <2>3, <2>4 DEF QuestionsArePinned, Snapshot
    <2>8. LoadsAreNumbered' /\ LedgerIsTruthful'
      BY <2>2, SameTable
    <2>9. ReplayIsExact'
      BY <2>2, <2>3, <2>4, ReplayOfEach
    <2> QED
      BY <2>2, <2>5, <2>6, <2>7, <2>8, <2>9 DEF LedgerLength
  <1>6. ASSUME NEW t \in LedgerThreads, AnswerQuestion(t) PROVE LedgerInv'
    <2>1. PICK rows \in Results(reading[t].plan, reading[t].load) :
            /\ reading[t].pc = "asked" /\ UNCHANGED <<staged, table, ledger, holder>>
            /\ reading' = [reading EXCEPT ![t].pc = "answered", ![t].rows = rows]
      BY <1>6 DEF AnswerQuestion
    <2>2. rows \subseteq AllRows
      BY DEF LedgerTypeOK, Results, Resolve, LatestRow, Seen
    <2> DEFINE new == [reading[t] EXCEPT !.pc = "answered", !.rows = rows]
    <2>a. /\ new \in Reading /\ new.pc = "answered" /\ new.rows = rows
          /\ new.plan = reading[t].plan /\ new.load = reading[t].load
          /\ new.chain = reading[t].chain
      BY <2>2 DEF LedgerTypeOK, Reading
    <2>b. reading' = [reading EXCEPT ![t] = new]
      BY <2>1
    <2> HIDE DEF new
    <2>3. /\ LedgerTypeOK' /\ reading'[t] = new
          /\ \A u \in LedgerThreads : u # t => reading'[u] = reading[u]
      BY <2>1, <2>a, <2>b, ReadingStep DEF LedgerTypeOK
    <2>4. /\ reading'[t].pc = "answered" /\ reading'[t].rows = rows
          /\ reading'[t].plan = reading[t].plan /\ reading'[t].load = reading[t].load
          /\ reading'[t].chain = reading[t].chain
          /\ \A u \in LedgerThreads : u # t => reading'[u] = reading[u]
      BY <2>3, <2>a
    <2>5. WritersHoldLock' /\ FoundStillHolds'
      BY <2>1, <2>4, ZenonT(40) DEF WritersHoldLock, FoundStillHolds, Loaded, Restated
    <2>6. QuestionsArePinned'
      BY <2>1, <2>4, ZenonT(40) DEF QuestionsArePinned, Snapshot
    <2>7. LoadsAreNumbered' /\ LedgerIsTruthful'
      BY <2>1, SameTable
    <2>8. ReplayIsExact'
      <3> SUFFICES ASSUME NEW u \in LedgerThreads, reading'[u].pc = "answered"
                   PROVE  Replayed(table, ledger, reading'[u])
        BY <2>1, ReplayOfEach
      <3>1. CASE u = t
        <4>1. Len(ledger) \in Nat /\ DOMAIN ledger = 1..Len(ledger)
          BY LedgerEntries
        <4>2. reading[t].load \in DOMAIN ledger /\ \A r \in table : r.load \in DOMAIN ledger
          BY <2>1 DEF QuestionsArePinned, LoadsAreNumbered
        <4>3. /\ reading[t].load \in Nat /\ reading[t].chain = ledger[reading[t].load].chain
              /\ \A r \in table : r.load \in Nat \ {0}
          <5>1. reading[t].chain = ledger[reading[t].load].chain
            BY <2>1 DEF QuestionsArePinned, Snapshot
          <5>2. \A n \in DOMAIN ledger : n \in Nat \ {0}
            BY <4>1
          <5> QED
            BY <4>2, <5>1, <5>2
        <4>4. rows \in ResultsIn(table, reading[t].plan, reading[t].load)
          BY <2>1 DEF Results, Resolve, Seen, ResultsIn, LatestIn
        <4> QED
          BY <2>4, <3>1, <4>3, <4>4, OneResult DEF Replayed
      <3>2. CASE u # t
        BY <2>4, <3>2, ReplayOfEach
      <3> QED
        BY <3>1, <3>2
    <2> QED
      BY <2>1, <2>3, <2>5, <2>6, <2>7, <2>8 DEF LedgerLength
  <1>7. ASSUME NEW t \in LedgerThreads, Forget(t) \/ LedgerFails(t) PROVE LedgerInv'
    <2>1. LedgerTypeOK'
      BY <1>7, <1>a DEF Forget, LedgerFails, LedgerTypeOK
    <2>2. WritersHoldLock'
      BY <1>7, <1>a, LedgerAssumption DEF Forget, LedgerFails, LedgerTypeOK, WritersHoldLock
    <2> QED
      BY <1>7, <1>a, <2>1, <2>2, QuietStep DEF Forget, LedgerFails, LedgerTypeOK
  <1>8. CASE LedgerCrash
    <2>1. LedgerTypeOK'
      BY <1>8, <1>a DEF LedgerCrash, LedgerTypeOK
    <2>2. WritersHoldLock'
      BY <1>8, <1>a DEF LedgerCrash, WritersHoldLock
    <2> QED
      BY <1>8, <1>a, <2>1, <2>2, QuietStep DEF LedgerCrash
  <1>9. CASE UNCHANGED ledgerVars
    BY <1>9, QuietStep DEF ledgerVars, LedgerTypeOK, WritersHoldLock
  <1> QED
    BY <1>1, <1>2, <1>3, <1>4, <1>5, <1>6, <1>7, <1>8, <1>9, CommitStep, SeedStep
       DEF LedgerNext, LedgerHandler

-----------------------------------------------------------------------------
(* Writers hold the lock, the ledger is truthful and answers can be         *)
(* replayed, in every state.                                                *)
THEOREM LedgerInvariant == LedgerSpec => []LedgerInv
  <1> QED
    BY InitInv, StepInv, PTL DEF LedgerSpec

(* An answer at a watermark can be replayed exactly, however many loads,    *)
(* restatements and crashes come after it (sources.py resolve at a load).   *)
THEOREM ReplayHolds == LedgerSpec => []ReplayIsExact
  <1>1. LedgerInv => ReplayIsExact
    BY DEF LedgerInv
  <1> QED
    BY <1>1, LedgerInvariant, PTL

(* No interleaving of writers makes the ledger say something else than what *)
(* the database holds (sources.py append and _restated).                    *)
THEOREM TruthfulHolds == LedgerSpec => []LedgerIsTruthful
  <1>1. LedgerInv => LedgerIsTruthful
    BY DEF LedgerInv
  <1> QED
    BY <1>1, LedgerInvariant, PTL

=============================================================================
