--------------------------- MODULE ArchiveContract --------------------------
(***************************************************************************)
(* What pixiegrabber promises the owner of an archive, of one Collection:  *)
(* which contents are stored of each Placement, and which content its      *)
(* manifest says is stored.  While a run works, a content disappears only  *)
(* where a download puts another in its place; renames, kills and errors   *)
(* do not show.  The manifest is written at most once by a run, as its     *)
(* last step; it forgets no Placement, and what it says of one is what it  *)
(* said before, if the run left its files alone, or what is stored.        *)
(***************************************************************************)

CONSTANTS
    Places,    \* the Placements of the Collection
    Contents,  \* the contents that the source can serve
    Junk,      \* what a damaged file holds
    NoClaim    \* the manifest does not call the file complete

VARIABLES
    phase,     \* whether a run has begun to work, or has ended
    copies,    \* the contents stored of each Placement
    claims,    \* the content that the manifest says is stored of it
    listed,    \* the Placements that the manifest lists
    touched    \* the Placements that the run has tried to store

vars == <<phase, copies, claims, listed, touched>>

Init ==
    /\ phase = "open"
    /\ copies = [p \in Places |-> {}]
    /\ claims = [p \in Places |-> NoClaim]
    /\ listed = {}
    /\ touched = {}

(* What may be left of the files of a Placement of which one is replaced:  *)
(* another one may have the same content.                                  *)
Rest(p) == {copies[p]} \cup {copies[p] \ {c} : c \in copies[p]}

(* Before the run works, files are the owner's to remove and to damage.    *)
OwnerTouches(p) ==
    /\ phase = "open"
    /\ \E rest \in Rest(p), put \in {{}, {Junk}} :
          copies' = [copies EXCEPT ![p] = rest \cup put]
    /\ UNCHANGED <<phase, claims, listed, touched>>

Begin ==
    /\ phase = "open"
    /\ phase' = "working"
    /\ UNCHANGED <<copies, claims, listed, touched>>

(* A download replaces one file, or adds one; when it fails it may have    *)
(* done so or not.                                                         *)
Download(p) ==
    /\ phase = "working"
    /\ \/ UNCHANGED copies
       \/ \E rest \in Rest(p), content \in Contents :
             copies' = [copies EXCEPT ![p] = rest \cup {content}]
    /\ touched' = touched \cup {p}
    /\ UNCHANGED <<phase, claims, listed>>

Record ==
    /\ phase = "working"
    /\ phase' = "closed"
    /\ claims' \in [Places -> Contents \cup {NoClaim}]
    /\ \A p \in Places : claims'[p] # NoClaim =>
          IF p \in touched THEN claims'[p] \in copies[p]
          ELSE claims'[p] = claims[p]
    /\ listed' \in SUBSET Places
    /\ listed \cup touched \subseteq listed'
    /\ \A p \in Places : claims'[p] # NoClaim => p \in listed'
    /\ touched' = {}
    /\ UNCHANGED copies

(* A run that is refused, declined, fails, or has nothing to record.       *)
Stop ==
    /\ phase' = "closed"
    /\ touched' = {}
    /\ UNCHANGED <<copies, claims, listed>>

(* The process is gone, at its end or because it was killed.               *)
Leave ==
    /\ phase' = "open"
    /\ touched' = {}
    /\ UNCHANGED <<copies, claims, listed>>

Next ==
    \/ Begin \/ Record \/ Stop \/ Leave
    \/ \E p \in Places : OwnerTouches(p) \/ Download(p)

Spec == Init /\ [][Next]_vars

=============================================================================
