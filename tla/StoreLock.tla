------------------------------- MODULE StoreLock -----------------------------
(***************************************************************************)
(* What taking hold of a Store promises (internal/store.Store: Lock and    *)
(* Close): one process at a time works on it, and a process that ends      *)
(* leaves it to the others.  A backend keeps the promise until something   *)
(* it does not defend against has happened; what that is differs between   *)
(* the backends, and each says it by the value it gives to "void".         *)
(***************************************************************************)
CONSTANT Process      \* the runs of the program on one store

VARIABLES
    owners,           \* the processes that may work on the store
    void              \* the promise is off

vars == <<owners, void>>

Init ==
    /\ owners = {}
    /\ void = FALSE

Acquire(p) ==
    /\ p \notin owners
    /\ owners = {} \/ void
    /\ owners' = owners \cup {p}
    /\ UNCHANGED void

(* Processes may end together.                                             *)
Release(P) ==
    /\ P \subseteq owners
    /\ owners' = owners \ P
    /\ UNCHANGED void

Break ==
    /\ void' = TRUE
    /\ UNCHANGED owners

Next ==
    \/ \E p \in Process : Acquire(p)
    \/ \E P \in SUBSET Process : Release(P)
    \/ Break

Spec == Init /\ [][Next]_vars

=============================================================================
