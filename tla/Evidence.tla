------------------------------ MODULE Evidence ------------------------------
(***************************************************************************)
(* What answers are made from: the rows of a ledger, plans over rows,      *)
(* document versions and earlier answers. The four components share no     *)
(* state, and a behaviour is of one of them.                               *)
(***************************************************************************)
EXTENDS SourceLedger, PolicyLibrary, AnswerMemory, PortfolioQuery

VARIABLE part
evidenceVars == <<part, ledgerVars, libraryVars, vars, queryVars>>

EvidenceInit ==
    /\ part \in {"ledger", "library", "memory", "query"}
    /\ LedgerInit /\ LibraryInit /\ Init /\ QueryInit
LedgerStep ==
    part = "ledger" /\ LedgerNext /\ UNCHANGED <<part, libraryVars, vars, queryVars>>
LibraryStep ==
    part = "library" /\ LibraryNext /\ UNCHANGED <<part, ledgerVars, vars, queryVars>>
MemoryStep ==
    part = "memory" /\ Next /\ UNCHANGED <<part, ledgerVars, libraryVars, queryVars>>
QueryStep ==
    part = "query" /\ QueryNext /\ UNCHANGED <<part, ledgerVars, libraryVars, vars>>
EvidenceNext == LedgerStep \/ LibraryStep \/ MemoryStep \/ QueryStep

EvidenceSpec == EvidenceInit /\ [][EvidenceNext]_evidenceVars

(* What each component's safety rests on: its types, and for the library    *)
(* and the memory their inductive invariants.                               *)
EvidenceInv ==
    CASE part = "ledger"  -> LedgerTypeOK
      [] part = "library" -> LibraryTypeOK /\ LibraryInv
      [] part = "memory"  -> MemoryInv
      [] part = "query"   -> QueryTypeOK

=============================================================================
