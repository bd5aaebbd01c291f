-------------------------------- MODULE AppRun -------------------------------
(***************************************************************************)
(* One run of the program over all Collections of an account               *)
(* (internal/app.Run): it takes hold of the store, lists the Collections,  *)
(* plans each of them, asks, carries the plans out in turn, and ends by    *)
(* saving its log and giving the store back.  What a plan does to one      *)
(* Collection is the subject of CollectionRun; here it leaves the manifest *)
(* of the Collection "complete" or "incomplete" (some Reference failed).   *)
(*                                                                         *)
(* Another run may hold the store, and a person may interrupt this one at  *)
(* any moment.                                                             *)
(***************************************************************************)
EXTENDS Discovery, RunLog

CONSTANTS
    Archives,     \* what the manifests in the store may begin with
    MaxErrors     \* how many operations fail

ASSUME AppRunAssumption ==
    /\ Archives \subseteq [Collection -> {"none", "old"}]
    /\ MaxErrors \in Nat

VARIABLES
    step,         \* where the run is
    sync,         \* the option --sync-existing
    plans,        \* the Collections that are planned, in order
    needs,        \* the planned ones that have something to download
    executed,     \* how many plans were carried out
    verdict,      \* what the manifest of the next one will be
    absent,       \* the archived ones to be marked source-missing
    archive,      \* the manifests in the store
    diagnostic,   \* a video diagnostic was written to the store
    holder,       \* who holds the store
    interrupted,  \* the context is canceled
    outcome,      \* what the log says of the run
    result,       \* what Run returns
    errors        \* the number of failures so far

planVars  == <<plans, needs, absent>>
storeVars == <<archive, diagnostic>>
workVars  == <<executed, verdict>>
endVars   == <<outcome, result>>
appVars   == <<step, sync, planVars, workVars, storeVars, holder, interrupted, endVars, errors>>
runVars   == <<discoveryVars, logVars, appVars>>

Steps == {"cookies", "store", "list", "plan", "prompt", "execute", "write", "absent",
          "end", "release", "ended"}

AppInit ==
    /\ DiscoveryInit
    /\ LogInit
    /\ step = "cookies"
    /\ sync \in BOOLEAN
    /\ plans = << >>
    /\ needs = {}
    /\ executed = 0
    /\ verdict = "none"
    /\ absent = {}
    /\ archive \in Archives
    /\ diagnostic = FALSE
    /\ holder \in {"nobody", "other"}
    /\ interrupted = FALSE
    /\ outcome = "failed"
    /\ result = "running"
    /\ errors = 0

-----------------------------------------------------------------------------
(* The rest of the world.                                                  *)

(* Ctrl-C or a termination signal; once the log is saved it changes nothing. *)
Interrupt ==
    /\ step \notin {"release", "ended"}
    /\ ~interrupted
    /\ interrupted' = TRUE
    /\ UNCHANGED <<discoveryVars, logVars, step, sync, planVars, workVars, storeVars, holder,
                   endVars, errors>>

OtherRun ==
    /\ step \in {"cookies", "store"}
    /\ \/ holder = "nobody" /\ holder' = "other"
       \/ holder = "other"  /\ holder' = "nobody"
    /\ UNCHANGED <<discoveryVars, logVars, step, sync, planVars, workVars, storeVars,
                   interrupted, endVars, errors>>

DashboardChanges ==
    /\ step = "list"
    /\ Publish \/ Withdraw
    /\ UNCHANGED <<logVars, appVars>>

-----------------------------------------------------------------------------
Goto(s) == step' = s

Error == errors < MaxErrors /\ errors' = errors + 1

Event(name) == [ev |-> name]

(* Any event that only says how far the run has come.                      *)
Progress == Event("progress")

(* Run returns: what was deferred depends on how far it came.              *)
Return(r) ==
    /\ result' = r
    /\ Goto(IF holder = "me" THEN "end" ELSE "ended")

GoOn(s) ==
    /\ Goto(s)
    /\ UNCHANGED <<result, errors>>

Fails == Error /\ Return("error")

(* A request ends when the context is canceled, and so does the import of  *)
(* the cookies.                                                            *)
Stops ==
    /\ interrupted
    /\ Return("canceled")
    /\ UNCHANGED errors

LoadSession ==
    /\ step = "cookies"
    /\ \/ (Stops \/ Fails) /\ UNCHANGED logVars
       \/ /\ ~interrupted
          /\ Log(<<Progress, Progress>>, FALSE)
          /\ GoOn("store")
    /\ UNCHANGED <<discoveryVars, sync, planVars, workVars, storeVars, holder, interrupted,
                   outcome>>

(* The local store is locked as it is opened, a bucket by Lock.            *)
TakeStore ==
    /\ step = "store"
    /\ \/ holder = "nobody" /\ holder' = "me" /\ GoOn("list")
       \/ holder = "other" /\ Return("error") /\ UNCHANGED <<holder, errors>>
       \/ Fails /\ UNCHANGED holder
    /\ UNCHANGED <<discoveryVars, logVars, sync, planVars, workVars, storeVars, interrupted,
                   outcome>>

-----------------------------------------------------------------------------
(* Discovery and planning.                                                 *)

ListPage ==
    /\ step = "list"
    /\ ~interrupted
    /\ PageTaken
    /\ IF page = LastPage
       THEN Log(<<Progress, Progress>>, TRUE) /\ GoOn("plan")
       ELSE Log(<<Progress>>, TRUE) /\ GoOn("list")
    /\ UNCHANGED <<sync, planVars, workVars, storeVars, holder, interrupted, outcome>>

AskAgain ==
    /\ step = "list"
    /\ ~interrupted
    /\ TryAgain
    /\ Log(<<Progress>>, TRUE)
    /\ UNCHANGED appVars

(* A page is not accepted, the server was busy at the last attempt, or the *)
(* request failed in a way that is not tried again.                        *)
ListFails ==
    /\ step = "list"
    /\ \/ Stops
       \/ /\ ~interrupted
          /\ PageRefused \/ attempt = MaxAttempts - 1
          /\ Return("error")
          /\ UNCHANGED errors
       \/ Fails
    /\ UNCHANGED <<discoveryVars, logVars, sync, planVars, workVars, storeVars, holder,
                   interrupted, outcome>>

NextListed == listed[Len(plans) + 1]

(* The requests for one Collection, its classification and its plan.       *)
PlanCollection ==
    /\ step = "plan"
    /\ Len(plans) < Len(listed)
    /\ ~interrupted
    /\ plans' = Append(plans, NextListed)
    /\ needs' \in {needs, needs \cup {NextListed}}
    /\ Log(<<Progress>>, TRUE)
    /\ UNCHANGED <<discoveryVars, step, sync, absent, workVars, storeVars, holder,
                   interrupted, endVars, errors>>

PlanningFails ==
    /\ step = "plan"
    /\ Len(plans) < Len(listed)
    /\ Stops \/ Fails
    /\ UNCHANGED logVars \/ (~interrupted /\ Log(<<Progress>>, TRUE))
    /\ UNCHANGED <<discoveryVars, sync, planVars, workVars, storeVars, holder, interrupted,
                   outcome>>

(* A video that cannot be planned ends the run, with a diagnostic unless   *)
(* that cannot be written.                                                 *)
StopAtVideo ==
    /\ step = "plan"
    /\ Len(plans) < Len(listed)
    /\ ~interrupted
    /\ Fails
    /\ outcome' = "unsupported_video"
    /\ diagnostic' \in BOOLEAN
    /\ Log(<<Progress, Event("video_stop")>>, TRUE)
    /\ UNCHANGED <<discoveryVars, sync, planVars, workVars, archive, holder, interrupted>>

Archived == {c \in Collection : archive[c] # "none"}

FaultyGone == IF sync THEN Archived ELSE {}     \* also what is listed

(* With --sync-existing, what is archived but not listed.                  *)
Gone == IF sync THEN Archived \ Range(listed) ELSE {}

AfterConsent(n) == IF n < Len(plans) THEN "execute" ELSE "absent"

(* With --yes there is no prompt.                                          *)
PlanAbsent ==
    /\ step = "plan"
    /\ Len(plans) = Len(listed)
    /\ \/ /\ absent' = Gone
          /\ Log(<<Progress>>, TRUE)
          /\ GoOn(AfterConsent(0)) \/ GoOn("prompt")
       \/ sync /\ Fails /\ UNCHANGED <<logVars, absent>>
    /\ UNCHANGED <<discoveryVars, sync, plans, needs, workVars, storeVars, holder,
                   interrupted, outcome>>

(* The answer is waited for whether or not the context is canceled.        *)
Accept ==
    /\ step = "prompt"
    /\ GoOn(AfterConsent(0))
    /\ UNCHANGED <<discoveryVars, logVars, sync, planVars, workVars, storeVars, holder,
                   interrupted, outcome>>

Decline ==
    /\ step = "prompt"
    /\ outcome' = "declined"
    /\ Return("ok")
    /\ UNCHANGED <<discoveryVars, logVars, sync, planVars, workVars, storeVars, holder,
                   interrupted, errors>>

-----------------------------------------------------------------------------
(* Execution.                                                              *)

Current == plans[executed + 1]

(* The downloads of one plan.  A download ends with the context, or fails; *)
(* one that was not begun is recorded as failed but not reported.          *)
Download ==
    /\ step = "execute"
    /\ Goto("write")
    /\ \/ /\ Current \notin needs
          /\ verdict' = "complete"
          /\ UNCHANGED logVars
       \/ /\ Current \in needs /\ interrupted
          /\ verdict' = "incomplete"
          /\ UNCHANGED logVars
       \/ /\ Current \in needs
          /\ verdict' = "incomplete"
          /\ Log(<<Event("download_failed"), Progress>>, TRUE)
       \/ /\ Current \in needs /\ ~interrupted
          /\ verdict' = "complete"
          /\ Log(<<Progress>>, TRUE)
    /\ UNCHANGED <<discoveryVars, sync, planVars, executed, storeVars, holder, interrupted,
                   endVars, errors>>

RenameFails ==
    /\ step = "execute"
    /\ Fails
    /\ UNCHANGED <<discoveryVars, logVars, sync, planVars, workVars, storeVars, holder,
                   interrupted, outcome>>

WriteManifest ==
    /\ step = "write"
    /\ archive' = [archive EXCEPT ![Current] = verdict]
    /\ executed' = executed + 1
    /\ verdict' = "none"
    /\ GoOn(AfterConsent(executed + 1))
    /\ UNCHANGED <<discoveryVars, logVars, sync, planVars, diagnostic, holder, interrupted,
                   outcome>>

MarkAbsent ==
    /\ step = "absent"
    /\ \E c \in absent :
          /\ archive' = [archive EXCEPT ![c] = "missing"]
          /\ absent' = absent \ {c}
    /\ UNCHANGED <<discoveryVars, logVars, step, sync, plans, needs, workVars, diagnostic,
                   holder, interrupted, endVars, errors>>

(* A manifest cannot be written; a request that failed may have done it.   *)
WriteFails ==
    /\ \/ /\ step = "write"
          /\ archive' \in {archive, [archive EXCEPT ![Current] = verdict]}
       \/ /\ step = "absent"
          /\ \E c \in absent : archive' \in {archive, [archive EXCEPT ![c] = "missing"]}
    /\ Fails
    /\ UNCHANGED <<discoveryVars, logVars, sync, planVars, workVars, diagnostic, holder,
                   interrupted, outcome>>

FaultyAnyFailed ==                  \* the last plan decides
    Len(plans) > 0 /\ archive[Last(plans)] = "incomplete"

AnyFailed == \E c \in Range(plans) : archive[c] = "incomplete"

Judge ==
    /\ step = "absent"
    /\ absent = {}
    /\ outcome' = IF AnyFailed THEN "incomplete" ELSE "completed"
    /\ Return(IF AnyFailed THEN "error" ELSE "ok")
    /\ UNCHANGED <<discoveryVars, logVars, sync, planVars, workVars, storeVars, holder,
                   interrupted, errors>>

-----------------------------------------------------------------------------
(* What was deferred: the log is saved, then the lock is released.         *)
EndLog ==
    /\ step = "end"
    /\ outcome' = IF outcome = "failed" /\ interrupted THEN "stopped" ELSE outcome
    /\ LogEnd([ev |-> "run_end", outcome |-> outcome'])
    /\ Goto("release")
    /\ UNCHANGED <<discoveryVars, sync, planVars, workVars, storeVars, holder, interrupted,
                   result, errors>>

Release ==
    /\ step = "release"
    /\ holder' = "nobody"
    /\ Goto("ended")
    /\ UNCHANGED <<discoveryVars, logVars, sync, planVars, workVars, storeVars, interrupted,
                   endVars, errors>>

(* What the program does by itself; a person answers the prompt.           *)
Program ==
    \/ LoadSession
    \/ TakeStore
    \/ ListPage
    \/ AskAgain
    \/ ListFails
    \/ PlanCollection
    \/ PlanningFails
    \/ StopAtVideo
    \/ PlanAbsent
    \/ Download
    \/ RenameFails
    \/ WriteManifest
    \/ MarkAbsent
    \/ WriteFails
    \/ Judge
    \/ EndLog
    \/ Release

AppNext ==
    \/ Program
    \/ Accept
    \/ Decline
    \/ Interrupt
    \/ OtherRun
    \/ DashboardChanges

AppSpec == AppInit /\ [][AppNext]_runVars /\ WF_runVars(Program)

-----------------------------------------------------------------------------
AppTypeOK ==
    /\ step \in Steps
    /\ Range(plans) \subseteq Collection
    /\ needs \subseteq Range(plans)
    /\ executed \in 0..Len(plans)
    /\ verdict \in {"none", "complete", "incomplete"}
    /\ absent \subseteq Collection \ Range(plans)
    /\ archive \in [Collection -> {"none", "old", "complete", "incomplete", "missing"}]
    /\ holder \in {"nobody", "me", "other"}
    /\ outcome \in {"failed", "stopped", "unsupported_video", "declined", "incomplete",
                    "completed"}
    /\ result \in {"running", "ok", "error", "canceled"}

=============================================================================
