---------------------------- MODULE PolicyLibrary ----------------------------
(***************************************************************************)
(* The policy documents of the workbench (workbench/documents.py) and the  *)
(* hybrid retrieval that questions make from them (rag/retriever.py,       *)
(* rag/filters.py, rag/index.py): upload, registration, derived effective  *)
(* windows, the index job, the document versions a question pins, and the  *)
(* evidence it is answered with.                                           *)
(*                                                                         *)
(* A version is one registration: its metadata and its text, here a single *)
(* chunk whose scores for the question are given.                          *)
(***************************************************************************)
EXTENDS Integers, FiniteSets, SequencesExt

CONSTANTS
    Versions,       \* what analysts register
    Meta,           \* metadata, content and scores of each version
    Askers,         \* jurisdiction, role, portfolio and as-of date of questions
    RoleLevels,     \* role_access of the retrieval policy, by role
    Embedders,      \* cached embedding snapshots
    Registrars,     \* register requests handled at the same time
    LibraryThreads, \* questions handled at the same time
    CandidateK, TopK, RrfK, MinScore, MaxChars,   \* retrieval settings
    Absent          \* no value

VARIABLES
    uploads,        \* contents under staging/
    files,          \* contents under files/
    documents,      \* document records, in order of registration
    registering,    \* where each register request is
    vectors,        \* index files: <<version, embedder>>
    indexJob,       \* the index job, with the documents it found pending
    asked           \* where each question is
libraryVars == <<uploads, files, documents, registering, vectors, indexJob, asked>>

LibraryAssumption ==
    /\ {CandidateK, TopK, RrfK, MinScore, MaxChars} \subseteq Nat
    /\ \A v \in Versions :
          /\ {"from", "to", "status", "level", "roles", "portfolios", "jurisdiction"}
                \subseteq DOMAIN Meta[v]
          /\ Meta[v].from \in Nat /\ {Meta[v].cosine, Meta[v].bm25} \subseteq Int
          /\ Meta[v].to # Absent => Meta[v].to \in Nat /\ Meta[v].from <= Meta[v].to
    /\ \A a \in Askers : a.asOf \in Nat
    /\ Absent \notin Nat
ASSUME LibraryAssumption

Registered == ToSet(documents)
NoRequest == [pc |-> "idle", version |-> Absent]
NoJob == [pc |-> "none", embedder |-> Absent, pending |-> <<>>]
NoQuestion == [pc |-> "idle", asker |-> Absent, embedder |-> Absent, pinned |-> {},
               evidence |-> <<>>, status |-> Absent]

LibraryInit ==
    /\ uploads = {} /\ files = {}
    /\ documents = <<>>
    /\ registering = [r \in Registrars |-> NoRequest]
    /\ vectors = {}
    /\ indexJob = NoJob
    /\ asked = [t \in LibraryThreads |-> NoQuestion]

-----------------------------------------------------------------------------
(* effective_windows: an approved version of the same document, or one that *)
(* supersedes it, ends the window the day before it starts.                 *)
Approved(v) == Meta[v].status = "approved"
Replaces(new, old) == Meta[new].document = Meta[old].document
                      \/ Meta[new].supersedes = Meta[old].document

Successors(v, known) ==
    {w \in known \ {v} : Approved(w) /\ Replaces(w, v) /\ Meta[w].from > Meta[v].from}

LastDay(v, known) ==
    LET ends == {Meta[w].from - 1 : w \in Successors(v, known)} \union ({Meta[v].to} \ {Absent})
    IN  IF ends = {} THEN Absent ELSE Min(ends)

(* The chunk of a version as retrieval indexes it.                          *)
ChunkOf(v, known) == [Meta[v] EXCEPT !.to = LastDay(v, known)]

(* build_predicate and chunk_is_visible.                                    *)
VisibleTo(asker, chunk) ==
    /\ chunk.roles = {} \/ asker.role \in chunk.roles
    /\ chunk.jurisdiction = asker.jurisdiction
    /\ chunk.status = "approved"
    /\ chunk.level \in RoleLevels[asker.role]
    /\ chunk.from = Absent \/ chunk.from <= asker.asOf
    /\ chunk.to = Absent \/ asker.asOf <= chunk.to
    /\ asker.portfolio = Absent \/ chunk.portfolios = {} \/ asker.portfolio \in chunk.portfolios

(* visible_documents: the versions and windows that are part of the context *)
(* a question is answered in.                                               *)
VisibleDocuments(asker, known) ==
    {v \in known : VisibleTo(asker, ChunkOf(v, known))}
Pinned(asker, known) ==
    {[version |-> v, to |-> LastDay(v, known)] : v \in VisibleDocuments(asker, known)}

(* to_payload drops an absent date; build_qdrant_filter has one condition   *)
(* per field, with `is empty' alternatives, and excludes dates by range.    *)
Payload(chunk) ==
    [key \in DOMAIN chunk \ {k \in {"from", "to"} : chunk[k] = Absent} |-> chunk[key]]

(* Mutant: the filter before "a bare MatchAny here ... hid every unscoped   *)
(* circular from every portfolio-scoped query".                             *)
QdrantMatchesScoped(asker, payload) ==
    /\ payload.jurisdiction = asker.jurisdiction
    /\ payload.status \in {"approved"}
    /\ payload.level \in RoleLevels[asker.role]
    /\ asker.role \in payload.roles \/ payload.roles = {}
    /\ asker.portfolio # Absent => asker.portfolio \in payload.portfolios
    /\ ~("from" \in DOMAIN payload /\ payload.from > asker.asOf)
    /\ ~("to" \in DOMAIN payload /\ payload.to < asker.asOf)

QdrantMatches(asker, payload) ==
    /\ payload.jurisdiction = asker.jurisdiction
    /\ payload.status \in {"approved"}
    /\ payload.level \in RoleLevels[asker.role]
    /\ asker.role \in payload.roles \/ payload.roles = {}
    /\ asker.portfolio # Absent =>
          asker.portfolio \in payload.portfolios \/ payload.portfolios = {}
    /\ ~("from" \in DOMAIN payload /\ payload.from > asker.asOf)
    /\ ~("to" \in DOMAIN payload /\ payload.to < asker.asOf)

-----------------------------------------------------------------------------
(* The elements of S in the order R: the n-th has n - 1 others before it.   *)
Ordered(S, R) ==
    [n \in 1..Cardinality(S) |-> CHOOSE i \in S : Cardinality({j \in S : <<j, i>> \in R}) = n - 1]

(* search_dense and search_lexical rank what is visible, ties in index      *)
(* order; BM25 drops passages without a matching term.                      *)
Ranked(positions, score) ==
    LET Above(i, j) == score[i] > score[j] \/ (score[i] = score[j] /\ i < j)
    IN  Ordered(positions, {p \in positions \X positions : Above(p[1], p[2])})
Arm(positions, score) ==
    LET ranked == Ranked(positions, score)
    IN  SubSeq(ranked, 1, Min({CandidateK, Len(ranked)}))

(* reciprocal_rank_fusion: the sum of 1 / (k + rank) over the arms, as a    *)
(* numerator over a common denominator; ties as the arms first named them.  *)
Place(arm, i) == CHOOSE n \in DOMAIN arm : arm[n] = i
Weight(dense, lexical, i) ==
    LET a == RrfK + Place(dense, i)
        b == RrfK + Place(lexical, i) IN
    IF i \notin ToSet(dense) THEN <<1, b>>
    ELSE IF i \notin ToSet(lexical) THEN <<1, a>> ELSE <<a + b, a * b>>
Fused(dense, lexical) ==
    LET Named(i) == IF i \in ToSet(dense) THEN Place(dense, i)
                                          ELSE Len(dense) + Place(lexical, i)
        Above(i, j) == LET x == Weight(dense, lexical, i)
                           y == Weight(dense, lexical, j) IN
            x[1] * y[2] > y[1] * x[2] \/ (x[1] * y[2] = y[1] * x[2] /\ Named(i) < Named(j))
        named == ToSet(dense) \union ToSet(lexical)
    IN  Ordered(named, {p \in named \X named : Above(p[1], p[2])})

(* The fused candidates that score enough and still fit, up to top_k.       *)
Selected(candidates, known) ==
    FoldLeft(LAMBDA taken, i :
        LET m == Meta[known[i]]
            used == FoldLeft(LAMBDA n, v : n + Meta[v].size, 0, taken) IN
        IF m.cosine < MinScore \/ m.size > MaxChars - used \/ Len(taken) = TopK
            THEN taken ELSE Append(taken, known[i]),
        <<>>, candidates)

(* DocumentLibrary.retriever lists the documents once, for windows and for  *)
(* chunks; PolicyRetriever.retrieve searches them.                          *)
Retrieved(asker, known) ==
    LET visible == {i \in DOMAIN known : VisibleTo(asker, ChunkOf(known[i], ToSet(known)))}
        dense == Arm(visible, [i \in visible |-> Meta[known[i]].cosine])
        matching == {i \in visible : Meta[known[i]].bm25 > 0}
        lexical == Arm(matching, [i \in matching |-> Meta[known[i]].bm25])
    IN  Selected(Fused(dense, lexical), known)

-----------------------------------------------------------------------------
Upload ==
    /\ \E v \in Versions : uploads' = uploads \union {Meta[v].content}
    /\ UNCHANGED <<files, documents, registering, vectors, indexJob, asked>>

SameDate(v, w) ==
    /\ Meta[v].key # Meta[w].key
    /\ Approved(v) /\ Approved(w)
    /\ Meta[v].from = Meta[w].from
    /\ Replaces(v, w) \/ Replaces(w, v)

(* Mutant: the date is not compared.                                        *)
RegisterAnyDate(r) ==
    /\ registering[r].pc = "idle"
    /\ \E v \in Versions :
          /\ Meta[v].content \in uploads
          /\ \A w \in Registered : Meta[w].key = Meta[v].key => Meta[w].content = Meta[v].content
          /\ registering' = [registering EXCEPT ![r] = [pc |-> "checked", version |-> v]]
    /\ UNCHANGED <<uploads, files, documents, vectors, indexJob, asked>>

(* register, up to the extraction of the text.                              *)
Register(r) ==
    /\ registering[r].pc = "idle"
    /\ \E v \in Versions :
          /\ Meta[v].content \in uploads
          /\ \A w \in Registered :
                /\ Meta[w].key = Meta[v].key => Meta[w].content = Meta[v].content
                /\ ~SameDate(v, w)
          /\ registering' = [registering EXCEPT ![r] = [pc |-> "checked", version |-> v]]
    /\ UNCHANGED <<uploads, files, documents, vectors, indexJob, asked>>

(* The staged file is moved unless the content is already kept.             *)
KeepFile(r) ==
    LET content == Meta[registering[r].version].content IN
    /\ registering[r].pc = "checked"
    /\ content \in files \/ content \in uploads
    /\ uploads' = IF content \in files THEN uploads ELSE uploads \ {content}
    /\ files' = files \union {content}
    /\ registering' = [registering EXCEPT ![r].pc = "kept"]
    /\ UNCHANGED <<documents, vectors, indexJob, asked>>

(* Mutant: what is already registered is recorded again.                    *)
AddDocumentAgain(r) ==
    /\ registering[r].pc = "kept"
    /\ documents' = Append(documents, registering[r].version)
    /\ registering' = [registering EXCEPT ![r] = NoRequest]
    /\ UNCHANGED <<uploads, files, vectors, indexJob, asked>>

(* store.add: an identical record is returned, a different one refused.     *)
AddDocument(r) ==
    LET v == registering[r].version IN
    /\ registering[r].pc = "kept"
    /\ \A w \in Registered : Meta[w].key = Meta[v].key => w = v
    /\ documents' = IF v \in Registered THEN documents ELSE Append(documents, v)
    /\ registering' = [registering EXCEPT ![r] = NoRequest]
    /\ UNCHANGED <<uploads, files, vectors, indexJob, asked>>

(* A refused or failed registration; what it moved stays moved.             *)
RegisterFails(r) ==
    /\ registering[r].pc # "idle"
    /\ registering' = [registering EXCEPT ![r] = NoRequest]
    /\ UNCHANGED <<uploads, files, documents, vectors, indexJob, asked>>

-----------------------------------------------------------------------------
(* pending: documents without an index file of this embedder.               *)
PendingFor(e) ==
    FoldLeft(LAMBDA found, v : IF <<v, e>> \in vectors THEN found ELSE Append(found, v),
             <<>>, documents)

QueueIndex ==
    /\ indexJob.pc = "none"
    /\ \E e \in Embedders :
          /\ PendingFor(e) # <<>>
          /\ indexJob' = [pc |-> "queued", embedder |-> e, pending |-> <<>>]
    /\ UNCHANGED <<uploads, files, documents, registering, vectors, asked>>

(* The worker lists the pending documents again, once.                      *)
StartIndex ==
    /\ indexJob.pc = "queued"
    /\ indexJob' = [indexJob EXCEPT !.pc = "running", !.pending = PendingFor(indexJob.embedder)]
    /\ UNCHANGED <<uploads, files, documents, registering, vectors, asked>>

(* A document's vectors are one file, moved into place when complete.       *)
IndexOne ==
    /\ indexJob.pc = "running"
    /\ indexJob.pending # <<>>
    /\ vectors' = vectors \union {<<Head(indexJob.pending), indexJob.embedder>>}
    /\ indexJob' = [indexJob EXCEPT !.pending = Tail(indexJob.pending)]
    /\ UNCHANGED <<uploads, files, documents, registering, asked>>

(* The job completes, fails, is stopped or dies.                            *)
EndIndex ==
    /\ indexJob.pc # "none"
    /\ indexJob' = NoJob
    /\ UNCHANGED <<uploads, files, documents, registering, vectors, asked>>

-----------------------------------------------------------------------------
(* prepare, as far as documents are concerned.                              *)
PrepareQuestion(t) ==
    /\ asked[t].pc = "idle"
    /\ \E a \in Askers, e \in Embedders :
          /\ a.role \in DOMAIN RoleLevels
          /\ asked' = [asked EXCEPT ![t] = [NoQuestion EXCEPT
                !.pc = "prepared", !.asker = a, !.embedder = e,
                !.pinned = Pinned(a, Registered)]]
    /\ UNCHANGED <<uploads, files, documents, registering, vectors, indexJob>>

(* complete_answer, in a session: the index job is not in the lane. A       *)
(* library with no documents, or with one that is not indexed, is recorded  *)
(* and the question is answered without evidence. AnswerMemory has what     *)
(* becomes of the answer.                                                   *)
CompleteAnswer(t) ==
    LET q == asked[t]
        indexed == documents # <<>> /\ \A v \in Registered : <<v, q.embedder>> \in vectors
        evidence == IF indexed THEN Retrieved(q.asker, documents) ELSE <<>>
        status == IF ~indexed THEN "unavailable"
                  ELSE IF evidence = <<>> THEN "insufficient" ELSE "evidence" IN
    /\ q.pc = "prepared"
    /\ indexJob.pc # "running"
    /\ asked' = [asked EXCEPT ![t].pc = "answered", ![t].evidence = evidence,
                              ![t].status = status]
    /\ UNCHANGED <<uploads, files, documents, registering, vectors, indexJob>>

(* An answer shown, or a question abandoned or failed.                      *)
LeaveQuestion(t) ==
    /\ asked[t].pc # "idle"
    /\ asked' = [asked EXCEPT ![t] = NoQuestion]
    /\ UNCHANGED <<uploads, files, documents, registering, vectors, indexJob>>

LibraryNext ==
    \/ Upload
    \/ \E r \in Registrars :
          Register(r) \/ KeepFile(r) \/ AddDocument(r) \/ RegisterFails(r)
    \/ QueueIndex \/ StartIndex \/ IndexOne \/ EndIndex
    \/ \E t \in LibraryThreads :
          PrepareQuestion(t) \/ CompleteAnswer(t) \/ LeaveQuestion(t)

LibrarySpec == LibraryInit /\ [][LibraryNext]_libraryVars

-----------------------------------------------------------------------------
LibraryTypeOK ==
    /\ uploads \union files \subseteq {Meta[v].content : v \in Versions}
    /\ documents \in Seq(Versions) /\ Cardinality(Registered) = Len(documents)
    /\ \A v \in Registered : Meta[v].content \in files
    /\ DOMAIN registering = Registrars
    /\ \A r \in Registrars :
          /\ DOMAIN registering[r] = {"pc", "version"}
          /\ registering[r].pc # "idle" => registering[r].version \in Versions
          /\ registering[r].pc = "kept" => Meta[registering[r].version].content \in files
    /\ vectors \subseteq Versions \X Embedders
    /\ DOMAIN indexJob = {"pc", "embedder", "pending"} /\ indexJob.pending \in Seq(Versions)
    /\ indexJob.pc # "none" => indexJob.embedder \in Embedders
    /\ DOMAIN asked = LibraryThreads
    /\ \A t \in LibraryThreads :
          DOMAIN asked[t] = DOMAIN NoQuestion /\ asked[t].evidence \in Seq(Versions)

(* What makes supersession unambiguous. No two registrations have the same  *)
(* key, no two approved versions of a document take effect on the same day, *)
(* and what a request has checked stays so until it is recorded, as long as *)
(* requests come one at a time (server.py runs them in threads, unlocked).  *)
KeysDiffer == \A v, w \in Registered : Meta[v].key = Meta[w].key => v = w
DatesDiffer == \A v, w \in Registered : ~SameDate(v, w)
RequestsFit ==
    /\ registering \in [Registrars -> [pc : {"idle", "checked", "kept"},
                                       version : Versions \union {Absent}]]
    /\ \A r \in Registrars : registering[r].pc # "idle" =>
          /\ registering[r].version \in Versions
          /\ \A w \in Registered : ~SameDate(registering[r].version, w)

(* Then no question pins two versions of one document, at whatever moment   *)
(* of the registrations it was prepared.                                    *)
PinnedOnce ==
    \A t \in LibraryThreads : \A p, q \in asked[t].pinned :
        Meta[p.version].document = Meta[q.version].document => p = q

(* "Supersession is derived": whatever was registered, in whatever order,   *)
(* and while a question was being answered, no answer is given two versions *)
(* of one document, and every version it is given was in force.             *)
OneVersionCited ==
    \A t \in LibraryThreads : \A v, w \in ToSet(asked[t].evidence) :
        /\ Meta[v].document = Meta[w].document => v = w
        /\ Approved(v) /\ Meta[v].from <= asked[t].asker.asOf

QuestionFits(q) == DOMAIN q = DOMAIN NoQuestion /\ (q.pc # "idle" => q.asker \in Askers)
QuestionsFit == DOMAIN asked = LibraryThreads /\ \A t \in LibraryThreads : QuestionFits(asked[t])

LibraryInv ==
    /\ documents \in Seq(Versions)
    /\ QuestionsFit
    /\ RequestsFit
    /\ KeysDiffer
    /\ DatesDiffer
    /\ PinnedOnce
    /\ OneVersionCited

(* "a security control cannot hold in one backend and quietly fail in the   *)
(* other": the Qdrant filter and chunk_is_visible select the same chunks,   *)
(* with derived windows too.                                                *)
BackendsAgree ==
    \A a \in Askers : \A v \in Registered :
        LET chunk == ChunkOf(v, Registered) IN
        VisibleTo(a, chunk) <=> QdrantMatches(a, Payload(chunk))

=============================================================================
