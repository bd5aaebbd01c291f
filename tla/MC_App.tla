-------------------------------- MODULE MC_App -------------------------------
(***************************************************************************)
(* One run over an account of up to three Collections, one on each page of *)
(* its dashboard, for TLC.                                                 *)
(***************************************************************************)
EXTENDS AppSafety

CONSTANTS a, b, c

(* Nothing to list; one Collection can still be published; all are there.  *)
DashboardsOfThree == {<< >>, <<a, b>>, <<a, b, c>>}

(* One Collection that stays on the dashboard.                             *)
DashboardOfOne == {<<a>>}

(* Nothing is archived.                                                    *)
NothingYet == {[x \in Collection |-> "none"]}

(* Two of the Collections were archived by an earlier run.                 *)
OneIsNew == {[x \in Collection |-> IF x = a THEN "none" ELSE "old"]}

=============================================================================
