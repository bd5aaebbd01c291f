--------------------------- MODULE DownloaderSafety --------------------------
(***************************************************************************)
(* What a call of Downloader.Download keeps true under every answer of the *)
(* media hosts, interrupts and local failures.                             *)
(***************************************************************************)
EXTENDS Downloader

Urls(j) == {i \in DOMAIN Variants[j] : Variants[j][i] # "empty"}

-----------------------------------------------------------------------------
(* Safety                                                                  *)

(* A result that names an image's checksum names the whole of one content, *)
(* whatever broken responses the staging file held before.                 *)
ImagesAreWhole ==
    \A j \in Jobs :
        Kind[j] = "image" /\ results[j].digest # <<>> =>
            \E c \in Contents : results[j].digest = Blocks(c, Length[c])

(* A smaller variant is stored, or the source called not found, only when  *)
(* every larger variant with a URL was answered with 404 or 410.           *)
FallbackJustified ==
    \A j \in Jobs :
        /\ results[j].digest # <<>> =>
              \A i \in Urls(j) : i < results[j].quality => i \in gone[j]
        /\ results[j].failure = "source_not_found" => Urls(j) \subseteq gone[j]

(* Without an interrupt every job is worked on: when the call returns, a   *)
(* job has failed and its failure was reported, or it was fetched and each *)
(* of its destinations tried.  None is left in the queue.                  *)
NoJobSkipped ==
    dpc = "returned" /\ ~canceled =>
        \A j \in Jobs :
            IF results[j].failure # "none" THEN j \in announced
            ELSE /\ Len(results[j].places) = PlaceCount[j]
                 /\ \A i \in DOMAIN results[j].places :
                       results[j].places[i] # "canceled"

(* When the call returns, every failure of a job that a worker took has    *)
(* been reported, and the counts of all these jobs have, however the       *)
(* periodic reports of the workers interleaved.                            *)
FinalCountReported ==
    dpc = "returned" =>
        LET failed == {j \in 1..sent : Failed(results[j])}
        IN  /\ failed = announced
            /\ sent # 0 => [done |-> sent, failed |-> Cardinality(failed)] \in counts

-----------------------------------------------------------------------------
(* Refinement                                                              *)

Taking(w, j) == wpc[w] # "idle" /\ cur[w] = j

(* The result of a job as far as it has got.                               *)
Outcome(j) ==
    IF \E w \in Workers : Taking(w, j)
    THEN result[CHOOSE w \in Workers : Taking(w, j)] ELSE results[j]

Waiting(j) == j > sent /\ dpc \in {"starting", "sending"}

JobState(j) ==
    IF Outcome(j).digest # <<>> THEN "staged"
    ELSE IF Waiting(j) \/ Outcome(j).failure = "none" THEN "queued"
    ELSE "failed"

PlaceState(j, d) ==
    IF d > Len(Outcome(j).places) THEN "queued"
    ELSE IF Outcome(j).places[d] = "installed" THEN "installed"
    ELSE "failed"

Contract == INSTANCE DownloadContract WITH
    Places <- [j \in Jobs |-> 1..PlaceCount[j]],
    Files  <- UNION {{Blocks(c, n) : n \in 1..Length[c]} : c \in Contents},
    NoFile <- <<>>,
    job    <- [j \in Jobs |-> JobState(j)],
    digest <- [j \in Jobs |-> Outcome(j).digest],
    dest   <- [j \in Jobs |-> [d \in 1..PlaceCount[j] |-> PlaceState(j, d)]]

(* The pool, its retries and its interrupts implement the contract that    *)
(* the executor relies on: in particular what is put at a destination is   *)
(* what the checksum was computed of.                                      *)
ImplementsContract == Contract!Spec

-----------------------------------------------------------------------------
(* Liveness                                                                *)

(* The scheduler runs the goroutines, timers fire, and the store answers.  *)
(* No timeout bounds a request (the http.Client has none), so a media host *)
(* that never answers holds its worker.                                    *)
FairSpec == Spec /\ WF_vars(ProgramStep)

HostsAnswer == \A w \in Workers : WF_vars(Answer(w))

(* If the hosts answer, the call returns: retries are bounded, and the     *)
(* dispatcher and the workers never wait for each other for ever.          *)
Returns == HostsAnswer => <>(dpc = "returned")

(* An interrupt ends the call even while a host does not answer.           *)
InterruptReturns == canceled ~> dpc = "returned"

-----------------------------------------------------------------------------
(* Claims of the source that the code does not meet                        *)

(* Downloaded files are validated: what is put at a destination is the     *)
(* whole of what the host serves.                                          *)
StoredMediaIsWhole ==
    \A j \in Jobs : \A d \in 1..PlaceCount[j] :
        stored[j][d] # <<>> =>
            \E c \in Contents : stored[j][d] = Blocks(c, Length[c])

(* A download is reported as canceled only when the run is canceled: any   *)
(* other failure that may be temporary is retried.                         *)
CanceledMeansInterrupted ==
    dpc = "returned" /\ ~canceled =>
        \A j \in Jobs : results[j].failure # "canceled"

=============================================================================
