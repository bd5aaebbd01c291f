--------------------------- MODULE DownloadContract --------------------------
(***************************************************************************)
(* What one call of Downloader.Download promises to the executor: every    *)
(* job is fetched at most once, and either fails or is staged; every       *)
(* destination of a staged job is installed with exactly the staged        *)
(* content, or fails, in which case it may hold it all the same; nothing   *)
(* else is written.  These are the steps that CollectionRun makes in its   *)
(* phase "downloading".                                                    *)
(***************************************************************************)

CONSTANTS
    Jobs,    \* the Downloads of a plan
    Places,  \* the destinations of each job
    Files,   \* the contents that can be staged
    NoFile   \* not staged, or nothing written by this call

VARIABLES
    job,     \* the state of each job
    digest,  \* the content that each job staged
    dest,    \* the state of each destination
    stored   \* what this call wrote to each destination

vars == <<job, digest, dest, stored>>

Init ==
    /\ job = [j \in Jobs |-> "queued"]
    /\ digest = [j \in Jobs |-> NoFile]
    /\ dest = [j \in Jobs |-> [d \in Places[j] |-> "queued"]]
    /\ stored = [j \in Jobs |-> [d \in Places[j] |-> NoFile]]

Fetch(j) ==
    /\ job[j] = "queued"
    /\ job' = [job EXCEPT ![j] = "staged"]
    /\ \E content \in Files : digest' = [digest EXCEPT ![j] = content]
    /\ UNCHANGED <<dest, stored>>

(* An interrupt fails all the jobs at once that no worker has taken.       *)
FetchesFail(failing) ==
    /\ \A j \in failing : job[j] = "queued"
    /\ job' = [j \in Jobs |-> IF j \in failing THEN "failed" ELSE job[j]]
    /\ UNCHANGED <<digest, dest, stored>>

Install(j, d) ==
    /\ job[j] = "staged"
    /\ dest[j][d] = "queued"
    /\ dest' = [dest EXCEPT ![j][d] = "installed"]
    /\ stored' = [stored EXCEPT ![j][d] = digest[j]]
    /\ UNCHANGED <<job, digest>>

InstallFails(j, d) ==
    /\ job[j] = "staged"
    /\ dest[j][d] = "queued"
    /\ dest' = [dest EXCEPT ![j][d] = "failed"]
    /\ stored' \in {stored, [stored EXCEPT ![j][d] = digest[j]]}
    /\ UNCHANGED <<job, digest>>

Next ==
    \/ \E failing \in SUBSET Jobs : FetchesFail(failing)
    \/ \E j \in Jobs :
          \/ Fetch(j)
          \/ \E d \in Places[j] : Install(j, d) \/ InstallFails(j, d)

Spec == Init /\ [][Next]_vars

=============================================================================
