------------------------------- MODULE Discovery -----------------------------
(***************************************************************************)
(* How the Collections of an account are listed (internal/pixieset,        *)
(* ListCollections and requestJSON): page by page, while the account goes  *)
(* on changing.  A request that meets a busy server is tried again.        *)
(***************************************************************************)
EXTENDS Integers, SequencesExt

CONSTANTS
    Collection,   \* the Collections there may be
    Dashboards,   \* what the dashboard may begin with
    PageSize,     \* Collections per page
    MaxPages,     \* the page limit of the client
    MaxAttempts,  \* maxRequestAttempts
    MaxChanges    \* how often the dashboard changes

ASSUME DiscoveryAssumption ==
    /\ PageSize \in Nat \ {0}
    /\ MaxPages \in Nat \ {0}
    /\ MaxAttempts \in Nat \ {0}
    /\ MaxChanges \in Nat
    /\ \A d \in Dashboards : d \in Seq(Collection) /\ IsInjective(d)

VARIABLES
    dash,         \* the dashboard, in its order
    changes,      \* how often it changed
    page,         \* the page that is asked for
    attempt,      \* the attempt at the request
    listed,       \* the Collections found so far
    atFirst,      \* history: the dashboard when the listing began
    withdrawn     \* history: Collections that were taken off it since

discoveryVars == <<dash, changes, page, attempt, listed, atFirst, withdrawn>>

DiscoveryInit ==
    /\ dash \in Dashboards
    /\ changes = 0
    /\ page = 1
    /\ attempt = 0
    /\ listed = << >>
    /\ atFirst = {}
    /\ withdrawn = {}

(* The photographer publishes a Collection, anywhere on the dashboard, or  *)
(* takes one off it.                                                       *)
Publish ==
    /\ changes < MaxChanges
    /\ changes' = changes + 1
    /\ \E c \in Collection \ Range(dash), i \in 1..(Len(dash) + 1) : dash' = InsertAt(dash, i, c)
    /\ UNCHANGED <<page, attempt, listed, atFirst, withdrawn>>

Withdraw ==
    /\ changes < MaxChanges
    /\ changes' = changes + 1
    /\ \E i \in DOMAIN dash :
          /\ dash' = RemoveAt(dash, i)
          /\ withdrawn' = withdrawn \cup {dash[i]}
    /\ UNCHANGED <<page, attempt, listed, atFirst>>

-----------------------------------------------------------------------------
(* What the server answers for a page, and whether the client takes it.    *)
LastPage == LET full == (Len(dash) + PageSize - 1) \div PageSize
            IN  IF full = 0 THEN 1 ELSE full

Items == SubSeq(dash, (page - 1) * PageSize + 1,
                IF page * PageSize < Len(dash) THEN page * PageSize ELSE Len(dash))

(* validatePagination: the page is not behind the last, nor that behind    *)
(* the limit.                                                              *)
ValidPagination == page <= LastPage /\ LastPage <= MaxPages

FaultyNoDuplicate == TRUE

NoDuplicate == Range(Items) \cap Range(listed) = {}

(* The first request finds the dashboard as it is then.                    *)
Begun == IF page = 1 THEN Range(dash) ELSE atFirst

PageTaken ==
    /\ ValidPagination
    /\ NoDuplicate
    /\ listed' = listed \o Items
    /\ atFirst' = Begun
    /\ withdrawn' = IF page = 1 THEN {} ELSE withdrawn
    /\ attempt' = 0
    /\ page' = page + 1
    /\ UNCHANGED <<dash, changes>>

PageRefused ==
    /\ ~ValidPagination \/ ~NoDuplicate
    /\ UNCHANGED discoveryVars

(* requestJSON: an answer that asks for patience leads to another attempt  *)
(* until there were MaxAttempts; any other one ends the request.           *)
FaultyTryAgain ==                   \* starts over instead of giving up
    /\ attempt' = (attempt + 1) % MaxAttempts
    /\ UNCHANGED <<dash, changes, page, listed, atFirst, withdrawn>>

TryAgain ==
    /\ attempt < MaxAttempts - 1
    /\ attempt' = attempt + 1
    /\ UNCHANGED <<dash, changes, page, listed, atFirst, withdrawn>>

=============================================================================
