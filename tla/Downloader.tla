------------------------------ MODULE Downloader -----------------------------
(***************************************************************************)
(* One call of Downloader.Download (internal/download): a dispatcher hands *)
(* out jobs to a pool of workers, each of which tries the variants of its  *)
(* job in turn, retries what may be temporary, stages the response in a    *)
(* file of its own, validates it, and puts it at the destinations of the   *)
(* job, while an interrupt may come at any time.                           *)
(*                                                                         *)
(* A file is the sequence of its blocks, a block named by the content it   *)
(* is part of; the SHA-256 of a file is the file.  The bytes that          *)
(* writeMediaResponse reads before it looks at them are the first Sniff    *)
(* blocks.  A worker's request and response are two steps: only an         *)
(* interrupt can come between, since the staged file is the worker's own.  *)
(***************************************************************************)
EXTENDS Naturals, Sequences, FiniteSets

CONSTANTS
    JobCount,     \* the number of jobs, in the order of the plan
    Workers,      \* the worker goroutines
    Kind,         \* the media kind of each job
    Variants,     \* the URLs of each job's variants, largest first
    PlaceCount,   \* the number of destinations of each job
    MaxAttempts,  \* requests per variant
    Contents,     \* what the media hosts may serve
    Length,       \* the number of blocks of a content
    Sniff,        \* the number of blocks read before any is written
    Faults        \* what may go wrong on this machine

Jobs == 1..JobCount

FaultKinds == {"cancel", "staging", "put"}

ASSUME DownloaderAssumption ==
    /\ JobCount \in Nat
    /\ Kind \in [Jobs -> {"image", "video"}]
    /\ Variants \in [Jobs -> Seq({"empty", "invalid", "usable"})]
    /\ PlaceCount \in [Jobs -> Nat]
    /\ MaxAttempts \in Nat \ {0}
    /\ Length \in [Contents -> Nat \ {0}]
    /\ Sniff \in Nat \ {0}
    /\ Faults \subseteq FaultKinds

VARIABLES
    dpc,        \* where the dispatcher is
    sent,       \* the number of jobs handed out
    canceled,   \* the context is canceled
    wpc,        \* where each worker is
    cur,        \* the job of each worker
    variant,    \* the variant each worker tries
    attempt,    \* the number of the request for that variant
    stage,      \* the staged file of each worker
    result,     \* the result each worker builds
    results,    \* the results the call returns
    stored,     \* the files put at the destinations of each job
    gone,       \* history: the variants that were answered with 404 or 410
    progress,   \* the counts of downloadProgress
    note,       \* the counts each worker is about to report
    counts,     \* the counts reported so far
    announced   \* the jobs reported as failed

dispatch == <<dpc, sent>>
fetching == <<variant, attempt, stage, gone>>
counting == <<progress, note, counts, announced>>
vars == <<dpc, sent, canceled, wpc, cur, variant, attempt, stage, result,
          results, stored, gone, progress, note, counts, announced>>

(* Failure codes.  "refused" stands for the codes of answers that fail a   *)
(* job at once and that nothing tells apart afterwards: authentication,    *)
(* expired link, redirect, other status, malformed media.                  *)
Codes == {"canceled", "invalid_source", "source_unavailable",
          "source_not_found", "refused", "retry_exhausted", "staging_failed"}

Result ==
    [failure : Codes \cup {"none"},
     quality : Nat,
     digest  : Seq(Contents),
     places  : Seq({"installed", "canceled", "placement_failed"})]

InitialResult == [failure |-> "none", quality |-> 0, digest |-> <<>>, places |-> <<>>]

NoCount == [done |-> 0, failed |-> 0]
Count   == [done : Nat, failed : Nat]

TypeOK ==
    /\ dpc \in {"starting", "sending", "closed", "returned"}
    /\ sent \in 0..JobCount
    /\ canceled \in BOOLEAN
    /\ wpc \in [Workers -> {"idle", "starting", "fetching", "receiving",
                            "waiting", "installing", "counting", "reporting"}]
    /\ cur \in [Workers -> 0..JobCount]
    /\ variant \in [Workers -> Nat]
    /\ attempt \in [Workers -> 0..MaxAttempts]
    /\ stage \in [Workers -> Seq(Contents)]
    /\ result \in [Workers -> Result]
    /\ results \in [Jobs -> Result]
    /\ stored \in [Jobs -> Seq(Seq(Contents))]
    /\ \A j \in Jobs : Len(stored[j]) = PlaceCount[j]
    /\ gone \in [Jobs -> SUBSET Nat]
    /\ progress \in [done : Nat, failed : Nat, reported : Nat]
    /\ note \in [Workers -> Count]
    /\ counts \subseteq Count
    /\ announced \subseteq Jobs

(* Every result starts as canceled, the result of a job that no worker     *)
(* takes.                                                                  *)
Init ==
    /\ dpc = "starting"
    /\ sent = 0
    /\ canceled = FALSE
    /\ wpc = [w \in Workers |-> "idle"]
    /\ cur = [w \in Workers |-> 0]
    /\ variant = [w \in Workers |-> 0]
    /\ attempt = [w \in Workers |-> 0]
    /\ stage = [w \in Workers |-> <<>>]
    /\ result = [w \in Workers |-> InitialResult]
    /\ results = [j \in Jobs |-> [InitialResult EXCEPT !.failure = "canceled"]]
    /\ stored = [j \in Jobs |-> [d \in 1..PlaceCount[j] |-> <<>>]]
    /\ gone = [j \in Jobs |-> {}]
    /\ progress = [done |-> 0, failed |-> 0, reported |-> 0]
    /\ note = [w \in Workers |-> NoCount]
    /\ counts = {}
    /\ announced = {}

-----------------------------------------------------------------------------
(* The dispatcher                                                          *)

Begin ==
    /\ dpc = "starting"
    /\ dpc' = IF canceled \/ JobCount = 0 THEN "returned" ELSE "sending"
    /\ UNCHANGED <<sent, canceled, wpc, cur, fetching, result, results, stored,
                   counting>>

(* The channel is unbuffered: a job is handed to a worker that waits for   *)
(* one.                                                                    *)
Dispatch(w) ==
    /\ dpc = "sending"
    /\ sent < JobCount
    /\ wpc[w] = "idle"
    /\ sent' = sent + 1
    /\ cur' = [cur EXCEPT ![w] = sent + 1]
    /\ wpc' = [wpc EXCEPT ![w] = "starting"]
    /\ UNCHANGED <<dpc, canceled, fetching, result, results, stored, counting>>

FaultyHandedOut == sent >= JobCount - 1

HandedOut == sent = JobCount

(* All jobs are handed out, or the context is canceled.  With a worker     *)
(* waiting and the context canceled, select does either.                   *)
Close ==
    /\ dpc = "sending"
    /\ HandedOut \/ canceled
    /\ dpc' = "closed"
    /\ UNCHANGED <<sent, canceled, wpc, cur, fetching, result, results, stored,
                   counting>>

(* finish reports the last counts when they differ from the last reported. *)
FaultyFinalCounts ==
    IF progress.reported # 0 THEN {}
    ELSE {[done |-> progress.done, failed |-> progress.failed]}

FinalCounts ==
    IF progress.done = progress.reported THEN {}
    ELSE {[done |-> progress.done, failed |-> progress.failed]}

(* The workers have exited.                                                *)
Return ==
    /\ dpc = "closed"
    /\ \A w \in Workers : wpc[w] = "idle"
    /\ dpc' = "returned"
    /\ counts' = counts \cup FinalCounts
    /\ UNCHANGED <<sent, canceled, wpc, cur, fetching, result, results, stored,
                   progress, note, announced>>

-----------------------------------------------------------------------------
(* A worker fetches its job                                                *)

WorkerStep(w, at, goesTo) ==
    /\ wpc[w] = at
    /\ wpc' = [wpc EXCEPT ![w] = goesTo]
    /\ UNCHANGED <<dispatch, canceled, cur, results, counting>>

Fails(w, at, code) ==
    /\ WorkerStep(w, at, "counting")
    /\ result' = [result EXCEPT ![w].failure = code]
    /\ UNCHANGED <<variant, attempt, stored>>

(* fetchSource goes on with the first variant from number i that has a     *)
(* URL.                                                                    *)
TryVariant(w, at, i) ==
    LET urls      == Variants[cur[w]]
        remaining == {k \in i..Len(urls) : urls[k] # "empty"}
    IN  IF remaining = {}
        THEN Fails(w, at, IF \A k \in 1..Len(urls) : urls[k] = "empty"
                          THEN "source_unavailable" ELSE "source_not_found")
        ELSE LET k == CHOOSE m \in remaining : \A n \in remaining : m <= n
             IN  IF urls[k] = "invalid"
                 THEN Fails(w, at, "invalid_source")
                 ELSE /\ WorkerStep(w, at, "fetching")
                      /\ variant' = [variant EXCEPT ![w] = k]
                      /\ attempt' = [attempt EXCEPT ![w] = 1]
                      /\ UNCHANGED <<result, stored>>

Process(w) ==
    /\ wpc[w] = "starting"
    /\ IF canceled THEN Fails(w, "starting", "canceled")
       ELSE TryVariant(w, "starting", 1)
    /\ UNCHANGED <<stage, gone>>

(* The local staging file cannot be created, written or synced.            *)
StagingFails(w) ==
    /\ "staging" \in Faults
    /\ \E at \in {"starting", "receiving"} : Fails(w, at, "staging_failed")
    /\ UNCHANGED <<stage, gone>>

Send(w) ==
    /\ IF canceled THEN Fails(w, "fetching", "canceled")
       ELSE /\ WorkerStep(w, "fetching", "receiving")
            /\ UNCHANGED <<variant, attempt, result, stored>>
    /\ UNCHANGED <<stage, gone>>

FaultyUninterruptible(w) == FALSE

(* The request ends with the context, before or after its answer is read.  *)
Interrupted(w) ==
    /\ canceled
    /\ Fails(w, "receiving", "canceled")
    /\ UNCHANGED <<stage, gone>>

(* A request that times out while it looks up or reaches the host is taken *)
(* for a canceled one, interrupt or not, and is not retried.               *)
TimedOut(w) ==
    /\ Fails(w, "receiving", "canceled")
    /\ UNCHANGED <<stage, gone>>

(* 404 and 410 select the next variant.                                    *)
Gone(w) ==
    /\ TryVariant(w, "receiving", variant[w] + 1)
    /\ gone' = [gone EXCEPT ![cur[w]] = @ \cup {variant[w]}]
    /\ UNCHANGED stage

FaultyRefusedFallsBack(w) ==
    /\ TryVariant(w, "receiving", variant[w] + 1)
    /\ UNCHANGED <<stage, gone>>

(* A redirect, another status, a wrong type, an empty or too long body.    *)
Refused(w) ==
    /\ Fails(w, "receiving", "refused")
    /\ UNCHANGED <<stage, gone>>

FaultyExhausted(n) == n > MaxAttempts

Exhausted(n) == n = MaxAttempts

Retry(w) ==
    IF Exhausted(attempt[w])
    THEN Fails(w, "receiving", "retry_exhausted")
    ELSE /\ WorkerStep(w, "receiving", "waiting")
         /\ UNCHANGED <<variant, attempt, result, stored>>

(* Any other transport error, a retryable status, or a connection that     *)
(* breaks before the staged file is touched.                               *)
Transient(w) == Retry(w) /\ UNCHANGED <<stage, gone>>

-----------------------------------------------------------------------------
(* writeMediaResponse and validateMedia                                    *)

Blocks(content, n) == [i \in 1..n |-> content]

FaultyOverwritten(old, new) == new \o SubSeq(old, Len(new) + 1, Len(old))

(* The staged file is truncated before the response is written to it.      *)
Overwritten(old, new) == new

(* An image must decode; of a video only the first box is looked at, which *)
(* any response that was sniffed as a video has.                           *)
FaultyNeverDecoded(kind, file) == TRUE

ValidMedia(kind, file) ==
    kind = "image" =>
        \E c \in Contents :
            /\ Len(file) >= Length[c]
            /\ SubSeq(file, 1, Length[c]) = Blocks(c, Length[c])

(* A response that ends within the sniffed blocks is taken as complete,    *)
(* even when the connection was cut there.                                 *)
TakenAsComplete(content, n) == n = Length[content] \/ n < Sniff

Receive(w, content, n) ==
    LET file == Overwritten(stage[w], Blocks(content, n))
    IN  /\ stage' = [stage EXCEPT ![w] = file]
        /\ IF ~TakenAsComplete(content, n) THEN Retry(w)
           ELSE IF ~ValidMedia(Kind[cur[w]], file)
           THEN Fails(w, "receiving", "refused")
           ELSE /\ WorkerStep(w, "receiving", "installing")
                /\ result' = [result EXCEPT ![w].quality = variant[w],
                                            ![w].digest = Blocks(content, n)]
                /\ UNCHANGED <<variant, attempt, stored>>
        /\ UNCHANGED gone

FaultySameAttempt(n) == n

NextAttempt(n) == n + 1

(* The backoff, or Retry-After, is over, or the context is canceled.       *)
Wake(w) ==
    IF canceled
    THEN Fails(w, "waiting", "canceled") /\ UNCHANGED <<stage, gone>>
    ELSE /\ WorkerStep(w, "waiting", "fetching")
         /\ attempt' = [attempt EXCEPT ![w] = NextAttempt(@)]
         /\ UNCHANGED <<variant, stage, gone, result, stored>>

-----------------------------------------------------------------------------
(* A worker installs its file and counts its job                           *)

Place(w) == Len(result[w].places) + 1

PlaceStep(w, state) ==
    /\ WorkerStep(w, "installing", "installing")
    /\ Place(w) \in 1..PlaceCount[cur[w]]
    /\ result' = [result EXCEPT ![w].places = Append(@, state)]
    /\ UNCHANGED fetching

Put(w) == [stored EXCEPT ![cur[w]][Place(w)] = stage[w]]

Install(w) ==
    /\ ~canceled
    /\ PlaceStep(w, "installed")
    /\ stored' = Put(w)

(* Each destination has its own outcome.  A Put that returns an error may  *)
(* have stored the file.                                                   *)
InstallFails(w) ==
    \/ canceled /\ PlaceStep(w, "canceled") /\ UNCHANGED stored
    \/ /\ ~canceled
       /\ "put" \in Faults
       /\ PlaceStep(w, "placement_failed")
       /\ stored' \in {stored, Put(w)}

Failed(r) == r.failure # "none" \/ \E i \in DOMAIN r.places : r.places[i] # "installed"

Ready(w) ==
    \/ wpc[w] = "counting"
    \/ wpc[w] = "installing" /\ Place(w) > PlaceCount[cur[w]]

(* The result is stored, and done counts it under its mutex; when          *)
(* progressInterval has passed, the counts are to be reported.             *)
Counted(w) ==
    [progress EXCEPT !.done = @ + 1,
                     !.failed = IF Failed(result[w]) THEN @ + 1 ELSE @]

Done(w) ==
    /\ Ready(w)
    /\ wpc' = [wpc EXCEPT ![w] = "reporting"]
    /\ results' = [results EXCEPT ![cur[w]] = result[w]]
    /\ \/ /\ progress' = Counted(w)
          /\ note' = [note EXCEPT ![w] = NoCount]
       \/ /\ progress' = [Counted(w) EXCEPT !.reported = progress.done + 1]
          /\ note' = [note EXCEPT ![w] = [done   |-> Counted(w).done,
                                          failed |-> Counted(w).failed]]
    /\ UNCHANGED <<dispatch, canceled, cur, fetching, result, stored, counts,
                   announced>>

(* The reports are made after the mutex is released; then nothing is left  *)
(* of the job in its worker.                                               *)
Report(w) ==
    /\ wpc[w] = "reporting"
    /\ wpc' = [wpc EXCEPT ![w] = "idle"]
    /\ announced' = IF Failed(result[w]) THEN announced \cup {cur[w]} ELSE announced
    /\ counts' = IF note[w] = NoCount THEN counts ELSE counts \cup {note[w]}
    /\ cur' = [cur EXCEPT ![w] = 0]
    /\ variant' = [variant EXCEPT ![w] = 0]
    /\ attempt' = [attempt EXCEPT ![w] = 0]
    /\ stage' = [stage EXCEPT ![w] = <<>>]
    /\ result' = [result EXCEPT ![w] = InitialResult]
    /\ note' = [note EXCEPT ![w] = NoCount]
    /\ UNCHANGED <<dispatch, canceled, results, stored, gone, progress>>

-----------------------------------------------------------------------------

Cancel ==
    /\ "cancel" \in Faults
    /\ ~canceled
    /\ dpc # "returned"
    /\ canceled' = TRUE
    /\ UNCHANGED <<dispatch, wpc, cur, fetching, result, results, stored, counting>>

(* What the program does by itself, and what depends on the answer of the  *)
(* media host.                                                             *)
ProgramStep ==
    \/ Begin
    \/ Close
    \/ Return
    \/ \E w \in Workers :
          \/ Dispatch(w)
          \/ Process(w)
          \/ Send(w)
          \/ Interrupted(w)
          \/ Wake(w)
          \/ Install(w)
          \/ InstallFails(w)
          \/ Done(w)
          \/ Report(w)

Answer(w) ==
    /\ wpc[w] = "receiving"
    /\ \/ Gone(w)
       \/ Refused(w)
       \/ TimedOut(w)
       \/ Transient(w)
       \/ \E content \in Contents : \E n \in 1..Length[content] :
             Receive(w, content, n)

Returned == dpc = "returned" /\ UNCHANGED vars

Next ==
    \/ ProgramStep
    \/ \E w \in Workers : Answer(w) \/ StagingFails(w)
    \/ Cancel
    \/ Returned

Spec == Init /\ [][Next]_vars

=============================================================================
