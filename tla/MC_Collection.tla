---------------------------- MODULE MC_Collection ---------------------------
(* Small instances of CollectionSafety for TLC.                            *)
EXTENDS CollectionSafety, TLC

CONSTANTS lower, upper   \* two names; in one run they differ only by case

(* The Collection before the first run: every Set shows nothing but the    *)
(* first one, which shows the first Reference of two contents.             *)
MCSource(at, kind) ==
    [listed  |-> TRUE,
     name    |-> lower,
     sets    |-> {p[2] : p \in at},
     setName |-> [s \in Sets |-> lower],
     refName |-> [r \in References |-> lower],
     at      |-> at,
     kind    |-> kind,
     content |-> [r \in References |-> CHOOSE c \in Contents : TRUE]]

Images == [r \in References |-> "image"]

(* One Reference of a video, shown in one of the Sets.                     *)
OneVideo == MCSource({CHOOSE p \in Placements : TRUE},
                     [r \in References |-> "video"])

(* Every Reference shown in every Set.                                     *)
AllShown == MCSource(Placements, Images)

OneShown == MCSource({CHOOSE p \in Placements : TRUE}, Images)

(* The References of AllShown are interchangeable.                         *)
ReferenceSymmetry == Permutations(References)

DistinctNames == [n \in Names |-> n]
CaseVariants  == [n \in Names |-> lower]

Run(sync, verify, videos) == [sync |-> sync, verify |-> verify, videos |-> videos]

NormalAndSync  == {Run(FALSE, FALSE, FALSE), Run(TRUE, FALSE, FALSE)}
SyncOnly       == {Run(TRUE, FALSE, FALSE)}
NormalOnly     == {Run(FALSE, FALSE, FALSE)}
VideoRuns      == {Run(FALSE, FALSE, TRUE), Run(TRUE, FALSE, TRUE), Run(FALSE, TRUE, TRUE)}
=============================================================================
