--------------------------- MODULE DownloaderProofs --------------------------
(***************************************************************************)
(* For any number of jobs, workers, variants, destinations and attempts,   *)
(* and any contents: what a call of Downloader.Download keeps to, that it  *)
(* implements DownloadContract, and that its last counts are reported.     *)
(***************************************************************************)
EXTENDS DownloaderSafety, FiniteSetTheorems, WellFoundedInduction, TLAPS

(* A set of numbers has a least one.                                       *)
LEMMA LeastNumber ==
    ASSUME NEW S \in SUBSET Nat, S # {}
    PROVE  \E m \in S : \A n \in S : m <= n
<1> DEFINE R == OpToRel(<, Nat)
<1>1. IsWellFoundedOn(R, Nat)
    BY NatLessThanWellFounded
<1>2. \A x, y \in Nat : x < y => <<x, y>> \in R
    BY DEF OpToRel
<1> HIDE DEF R
<1>3. PICK x \in S : \A y \in S : ~(<<y, x>> \in R)
    BY <1>1, WFMin
<1>4. \A y \in S : ~(y < x)
    BY <1>2, <1>3
<1> QED BY <1>4

-----------------------------------------------------------------------------
(* Files.                                                                  *)

LEMMA BlocksType ==
    ASSUME NEW c \in Contents, NEW n \in Nat
    PROVE  /\ Blocks(c, n) \in Seq(Contents)
           /\ Len(Blocks(c, n)) = n
           /\ \A i \in 1..n : Blocks(c, n)[i] = c
BY DEF Blocks

Wholes == {Blocks(c, Length[c]) : c \in Contents}

(* An image that decodes and was cut from one content is the whole of it.  *)
LEMMA DecodedIsWhole ==
    ASSUME NEW c \in Contents, NEW n \in 1..Length[c], ValidMedia("image", Blocks(c, n))
    PROVE  Blocks(c, n) \in Wholes
<1> DEFINE file == Blocks(c, n)
<1>1. n \in Nat /\ n >= 1
    BY DownloaderAssumption
<1>2. file \in Seq(Contents) /\ Len(file) = n /\ file[1] = c
    BY <1>1, BlocksType
<1>3. PICK d \in Contents :
          Len(file) >= Length[d] /\ SubSeq(file, 1, Length[d]) = Blocks(d, Length[d])
    BY DEF ValidMedia
<1>4. Length[d] \in Nat \ {0} /\ Length[c] \in Nat \ {0}
    BY DownloaderAssumption
<1>5. Blocks(d, Length[d])[1] = d
  <2>1. 1 \in 1..Length[d] /\ Length[d] \in Nat
      BY <1>4
  <2> QED BY <2>1, BlocksType
<1> HIDE DEF file
<1>6. SubSeq(file, 1, Length[d])[1] = file[1]
    BY <1>2, <1>3, <1>4
<1>7. c = d
    BY <1>2, <1>3, <1>5, <1>6
<1>8. n = Length[c]
    BY <1>1, <1>2, <1>3, <1>4, <1>7
<1> QED BY <1>8 DEF Wholes

-----------------------------------------------------------------------------
(* The invariant.                                                          *)

Trying  == {"fetching", "receiving", "waiting"}
Ending  == {"counting", "installing"}
Working == {"starting"} \cup Trying \cup Ending

(* FallbackJustified and ImagesAreWhole, of one result.                    *)
Justified(j, r) ==
    /\ r.digest # <<>> => \A i \in Urls(j) : i < r.quality => i \in gone[j]
    /\ r.failure = "source_not_found" => Urls(j) \subseteq gone[j]

WholeImage(j, r) == Kind[j] = "image" /\ r.digest # <<>> => r.digest \in Wholes

NotCanceled(r) == \A i \in DOMAIN r.places : r.places[i] # "canceled"

(* A job that did not fail was tried at each of its destinations.          *)
Settled(j, r) ==
    r.failure = "none" => Len(r.places) = PlaceCount[j] /\ NotCanceled(r)

(* What a worker knows of its job at each step.                            *)
WorkerOK(w) ==
    /\ wpc[w] # "idle" => cur[w] \in 1..sent
    /\ wpc[w] \in {"idle", "starting"} \cup Trying => result[w] = InitialResult
    /\ wpc[w] \in Trying =>
          \A i \in Urls(cur[w]) : i < variant[w] => i \in gone[cur[w]]
    /\ wpc[w] = "waiting" => attempt[w] < MaxAttempts
    /\ wpc[w] \in Ending =>
          Justified(cur[w], result[w]) /\ WholeImage(cur[w], result[w])
    /\ wpc[w] = "counting" => result[w].failure # "none"
    /\ wpc[w] = "installing" =>
          /\ result[w].failure = "none"
          /\ Len(result[w].places) <= PlaceCount[cur[w]]
          /\ ~canceled => NotCanceled(result[w])

DispatchOK ==
    /\ dpc \in {"starting", "returned"} => \A w \in Workers : wpc[w] = "idle"
    /\ dpc = "starting" => sent = 0
    /\ dpc \in {"closed", "returned"} /\ ~canceled => sent = JobCount

ResultsOK == \A j \in Jobs : Justified(j, results[j]) /\ WholeImage(j, results[j])

(* A job that was handed out is done with or still with a worker.          *)
JobsOK ==
    ~canceled =>
        \A j \in 1..sent :
            \/ Settled(j, results[j])
            \/ \E w \in Workers : wpc[w] \in Working /\ cur[w] = j

DInv == TypeOK /\ (\A w \in Workers : WorkerOK(w)) /\ DispatchOK /\ ResultsOK /\ JobsOK

LEMMA InitialResultType ==
    /\ InitialResult \in Result
    /\ InitialResult.digest = <<>> /\ InitialResult.places = <<>>
    /\ InitialResult.failure = "none"
BY DEF InitialResult, Result

LEMMA CanceledResultType ==
    LET r == [InitialResult EXCEPT !.failure = "canceled"]
    IN  r \in Result /\ r.digest = <<>> /\ r.failure = "canceled"
<1> DEFINE r == [InitialResult EXCEPT !.failure = "canceled"]
<1>1. r = [failure |-> "canceled", quality |-> 0, digest |-> <<>>, places |-> <<>>]
    BY DEF InitialResult
<1> HIDE DEF r
<1>2. r \in Result /\ r.digest = <<>> /\ r.failure = "canceled"
    BY <1>1 DEF Result, Codes
<1> QED BY <1>2 DEF r

LEMMA EmptyPlaces ==
    ASSUME NEW n \in Nat
    PROVE  /\ [d \in 1..n |-> <<>>] \in Seq(Seq(Contents))
           /\ Len([d \in 1..n |-> <<>>]) = n
<1>1. ASSUME NEW S, NEW e \in S
      PROVE  [d \in 1..n |-> e] \in Seq(S) /\ Len([d \in 1..n |-> e]) = n
    OBVIOUS
<1>2. <<>> \in Seq(Contents)
    OBVIOUS
<1> QED BY <1>1, <1>2, Zenon

LEMMA DInvInit == Init => DInv
<1> SUFFICES ASSUME Init PROVE DInv
    OBVIOUS
<1> USE DEF Init
<1>1. TypeOK
  <2>1. /\ JobCount \in Nat /\ MaxAttempts \in Nat /\ PlaceCount \in [Jobs -> Nat]
        /\ 0 \in 0..JobCount /\ 0 \in 0..MaxAttempts
      BY DownloaderAssumption
  <2>2. results \in [Jobs -> Result]
      BY CanceledResultType
  <2>3. \A j \in Jobs :
            /\ [d \in 1..PlaceCount[j] |-> <<>>] \in Seq(Seq(Contents))
            /\ Len([d \in 1..PlaceCount[j] |-> <<>>]) = PlaceCount[j]
    <3> TAKE j \in Jobs
    <3>1. PlaceCount[j] \in Nat
        BY <2>1
    <3> QED BY <3>1, EmptyPlaces
  <2>4. stored \in [Jobs -> Seq(Seq(Contents))] /\ \A j \in Jobs : Len(stored[j]) = PlaceCount[j]
      BY <2>3
  <2>5. /\ note \in [Workers -> Count]
        /\ progress \in [done : Nat, failed : Nat, reported : Nat]
        /\ stage \in [Workers -> Seq(Contents)]
        /\ result \in [Workers -> Result]
      BY InitialResultType DEF NoCount, Count
  <2> QED BY <2>1, <2>2, <2>4, <2>5 DEF TypeOK
<1>2. \A w \in Workers : WorkerOK(w)
    BY DEF WorkerOK, Trying, Ending
<1>3. DispatchOK /\ JobsOK
    BY DEF DispatchOK, JobsOK
<1>4. ResultsOK
    BY CanceledResultType DEF ResultsOK, Justified, WholeImage
<1> QED BY <1>1, <1>2, <1>3, <1>4 DEF DInv

-----------------------------------------------------------------------------
(* A worker fetches its job.                                               *)

(* A step of one worker on its own job, before its result is stored.       *)
LEMMA OwnStepKeeps ==
    ASSUME DInv, NEW w \in Workers, wpc[w] \in Working, wpc'[w] \in Working,
           UNCHANGED <<dispatch, canceled, cur, results>>,
           wpc' \in [Workers -> {wpc'[w]} \cup {wpc[v] : v \in Workers}],
           \A v \in Workers \ {w} :
               wpc'[v] = wpc[v] /\ variant'[v] = variant[v] /\ attempt'[v] = attempt[v]
               /\ result'[v] = result[v],
           \A j \in Jobs : gone[j] \subseteq gone'[j],
           TypeOK', WorkerOK(w)'
    PROVE  DInv'
<1> USE DEF DInv, dispatch
<1>1. \A j \in Jobs : \A r : Justified(j, r) => Justified(j, r)'
    BY DEF Justified
<1>2. \A v \in Workers : WorkerOK(v)'
  <2> SUFFICES ASSUME NEW v \in Workers, v # w PROVE WorkerOK(v)'
      OBVIOUS
  <2>1. WorkerOK(v)
      BY DEF TypeOK
  <2>2. wpc[v] # "idle" => cur[v] \in Jobs
      BY <2>1, DownloaderAssumption DEF WorkerOK, TypeOK, Jobs
  <2>3. wpc[v] \in Ending => Justified(cur[v], result[v])'
      BY <1>1, <2>1, <2>2 DEF WorkerOK, Ending, Justified
  <2>4. wpc[v] \in Trying =>
            \A i \in Urls(cur[v]) : i < variant'[v] => i \in gone'[cur[v]]
      BY <2>1, <2>2 DEF WorkerOK, Trying
  <2>5. wpc'[v] = wpc[v] /\ cur' = cur /\ result'[v] = result[v] /\ sent' = sent
        /\ canceled' = canceled /\ attempt'[v] = attempt[v]
      OBVIOUS
  <2>6. wpc[v] \in Ending => WholeImage(cur[v], result[v])'
      BY <2>1, <2>5 DEF WorkerOK, WholeImage
  <2>7. /\ wpc'[v] = "counting" => result'[v].failure # "none"
        /\ wpc'[v] = "installing" =>
              /\ result'[v].failure = "none"
              /\ Len(result'[v].places) <= PlaceCount[cur'[v]]
              /\ ~canceled' => NotCanceled(result[v])'
      BY <2>1, <2>5 DEF WorkerOK, NotCanceled
  <2>8. /\ wpc'[v] # "idle" => cur'[v] \in 1..sent'
        /\ wpc'[v] \in {"idle", "starting"} \cup Trying => result'[v] = InitialResult
        /\ wpc'[v] = "waiting" => attempt'[v] < MaxAttempts
      BY <2>1, <2>5 DEF WorkerOK
  <2> QED BY <2>3, <2>4, <2>5, <2>6, <2>7, <2>8 DEF WorkerOK
<1>3. DispatchOK'
  <2>1. dpc \notin {"starting", "returned"}
      BY DEF DispatchOK, Working, Trying, Ending
  <2> QED BY <2>1 DEF DispatchOK
<1>4. ResultsOK'
    BY <1>1 DEF ResultsOK, WholeImage, Justified
<1>5. JobsOK'
  <2> SUFFICES ASSUME ~canceled, NEW j \in 1..sent
               PROVE  \/ Settled(j, results[j])
                      \/ \E v \in Workers : wpc'[v] \in Working /\ cur[v] = j
      BY DEF JobsOK, Settled, NotCanceled
  <2>1. CASE Settled(j, results[j])
      BY <2>1
  <2>2. CASE \E v \in Workers : wpc[v] \in Working /\ cur[v] = j
      BY <2>2
  <2> QED BY <2>1, <2>2 DEF JobsOK
<1> QED BY <1>2, <1>3, <1>4, <1>5

(* A job fails before anything of it is installed.                         *)
LEMMA FailsKeeps ==
    ASSUME DInv, NEW w \in Workers, NEW at \in {"starting"} \cup Trying, NEW code \in Codes,
           Fails(w, at, code),
           stage' \in [Workers -> Seq(Contents)],
           gone' \in [Jobs -> SUBSET Nat], \A j \in Jobs : gone[j] \subseteq gone'[j],
           code = "source_not_found" => Urls(cur[w]) \subseteq gone'[cur[w]]
    PROVE  DInv'
<1> USE DEF DInv
<1>1. /\ wpc[w] = at /\ wpc' = [wpc EXCEPT ![w] = "counting"]
      /\ result' = [result EXCEPT ![w].failure = code]
      /\ UNCHANGED <<dispatch, canceled, cur, results, counting, variant, attempt, stored>>
    BY DEF Fails, WorkerStep
<1>2. wpc \in [Workers -> {"idle", "starting", "fetching", "receiving", "waiting", "installing",
                           "counting", "reporting"}]
      /\ result \in [Workers -> Result]
    BY DEF TypeOK
<1>3. result[w] = InitialResult
    BY <1>1 DEF WorkerOK
<1>4. result'[w] = [failure |-> code, quality |-> 0, digest |-> <<>>, places |-> <<>>]
    BY <1>1, <1>2, <1>3 DEF InitialResult
<1>5. result'[w] \in Result
    BY <1>4 DEF Result
<1>6. TypeOK'
  <2>1. result' \in [Workers -> Result]
      BY <1>1, <1>2, <1>5
  <2>2. wpc' \in [Workers -> {"idle", "starting", "fetching", "receiving", "waiting", "installing",
                              "counting", "reporting"}]
      BY <1>1, <1>2
  <2> QED BY <1>1, <2>1, <2>2 DEF TypeOK, dispatch, counting
<1>7. WorkerOK(w)'
  <2>1. wpc'[w] = "counting" /\ cur'[w] \in 1..sent'
      BY <1>1, <1>2 DEF WorkerOK, dispatch, Trying
  <2>2. code # "none"
      BY DEF Codes
  <2>3. Justified(cur[w], result[w])' /\ WholeImage(cur[w], result[w])'
      BY <1>1, <1>4 DEF Justified, WholeImage
  <2> QED BY <1>1, <1>4, <2>1, <2>2, <2>3 DEF WorkerOK, Trying
<1>8. wpc[w] \in Working /\ wpc'[w] \in Working
    BY <1>1, <1>2 DEF Working, Ending
<1> QED BY <1>1, <1>2, <1>6, <1>7, <1>8, OwnStepKeeps

(* A step of one worker on its own job that changes no result.             *)
LEMMA WorkerStepKeeps ==
    ASSUME DInv, NEW w \in Workers, NEW at \in Working, NEW goesTo \in Working,
           WorkerStep(w, at, goesTo),
           variant' \in [Workers -> Nat], attempt' \in [Workers -> 0..MaxAttempts],
           stage' \in [Workers -> Seq(Contents)], result' \in [Workers -> Result],
           stored' \in [Jobs -> Seq(Seq(Contents))],
           \A j \in Jobs : Len(stored'[j]) = PlaceCount[j],
           \A v \in Workers \ {w} :
               variant'[v] = variant[v] /\ attempt'[v] = attempt[v] /\ result'[v] = result[v],
           gone' \in [Jobs -> SUBSET Nat], \A j \in Jobs : gone[j] \subseteq gone'[j],
           WorkerOK(w)'
    PROVE  DInv'
<1>1. /\ wpc[w] = at /\ wpc' = [wpc EXCEPT ![w] = goesTo]
      /\ UNCHANGED <<dpc, sent, canceled, cur, results, progress, note, counts, announced>>
    BY DEF WorkerStep, dispatch, counting
<1>2. TypeOK
    BY DEF DInv
<1>3. /\ wpc' \in [Workers -> {"idle", "starting", "fetching", "receiving", "waiting", "installing",
                              "counting", "reporting"}]
      /\ wpc'[w] = goesTo /\ \A v \in Workers \ {w} : wpc'[v] = wpc[v]
    BY <1>1, <1>2 DEF TypeOK, Working, Trying, Ending
<1>4. wpc' \in [Workers -> {wpc'[w]} \cup {wpc[v] : v \in Workers}]
    BY <1>1, <1>2 DEF TypeOK
<1>5. TypeOK'
    BY <1>1, <1>2, <1>3 DEF TypeOK
<1>6. UNCHANGED <<dispatch, canceled, cur, results>>
    BY <1>1 DEF dispatch
<1> QED BY <1>1, <1>3, <1>4, <1>5, <1>6, OwnStepKeeps

(* What TypeOK and WorkerOK say of a worker that tries a variant.          *)
LEMMA TryingWorker ==
    ASSUME DInv, NEW w \in Workers, wpc[w] \in {"starting"} \cup Trying
    PROVE  /\ cur[w] \in 1..sent /\ cur[w] \in Jobs
           /\ result[w] = InitialResult
           /\ DOMAIN Variants[cur[w]] = 1..Len(Variants[cur[w]])
           /\ Len(Variants[cur[w]]) \in Nat
<1>1. WorkerOK(w) /\ TypeOK /\ wpc[w] # "idle"
    BY DEF DInv, Trying
<1>2. cur[w] \in 1..sent /\ cur[w] \in Jobs /\ result[w] = InitialResult
    BY <1>1, DownloaderAssumption DEF WorkerOK, TypeOK, Jobs
<1>3. Variants[cur[w]] \in Seq({"empty", "invalid", "usable"})
    BY <1>2, DownloaderAssumption
<1> QED BY <1>2, <1>3

LEMMA TryVariantKeeps ==
    ASSUME DInv, NEW w \in Workers, NEW at \in {"starting", "receiving"}, NEW i \in Nat,
           i >= 1, TryVariant(w, at, i), wpc[w] = at, UNCHANGED stage,
           gone' \in [Jobs -> SUBSET Nat], \A j \in Jobs : gone[j] \subseteq gone'[j],
           \A k \in Urls(cur[w]) : k < i => k \in gone'[cur[w]]
    PROVE  DInv'
<1> DEFINE urls == Variants[cur[w]]
           remaining == {k \in i..Len(urls) : urls[k] # "empty"}
           least == CHOOSE m \in remaining : \A n \in remaining : m <= n
<1>1. /\ cur[w] \in 1..sent /\ cur[w] \in Jobs /\ result[w] = InitialResult
      /\ DOMAIN urls = 1..Len(urls) /\ Len(urls) \in Nat
    BY TryingWorker DEF Trying
<1>2. TypeOK
    BY DEF DInv
<1>3. at \in {"starting"} \cup Trying /\ at \in Working /\ "fetching" \in Working
    BY DEF Working, Trying
<1>4. \A k \in Urls(cur[w]) : k \in Nat /\ (k \in remaining \/ k \in gone'[cur[w]])
    BY <1>1 DEF Urls
<1>5. stage' \in [Workers -> Seq(Contents)]
    BY <1>2 DEF TypeOK
<1>6. CASE remaining = {}
  <2> DEFINE code == IF \A k \in 1..Len(urls) : urls[k] = "empty"
                     THEN "source_unavailable" ELSE "source_not_found"
  <2>1. Fails(w, at, code)
      BY <1>6 DEF TryVariant
  <2>2. code \in Codes /\ code # "canceled"
      BY DEF Codes
  <2>3. Urls(cur[w]) \subseteq gone'[cur[w]]
      BY <1>4, <1>6
  <2> HIDE DEF code
  <2> QED BY <1>3, <1>5, <2>1, <2>2, <2>3, FailsKeeps
<1>7. CASE remaining # {}
  <2>1. remaining \in SUBSET Nat
      BY <1>1
  <2> HIDE DEF remaining
  <2>2. \E m \in remaining : \A n \in remaining : m <= n
      BY <1>7, <2>1, LeastNumber
  <2>3. least \in remaining /\ \A n \in remaining : least <= n
      BY <2>2
  <2>4. least \in Nat
      BY <2>1, <2>3
  <2>5. CASE urls[least] = "invalid"
    <3>1. Fails(w, at, "invalid_source")
        BY <1>7, <2>5 DEF TryVariant, remaining
    <3>2. "invalid_source" \in Codes
        BY DEF Codes
    <3> QED BY <1>3, <1>5, <3>1, <3>2, FailsKeeps
  <2>6. CASE urls[least] # "invalid"
    <3>1. /\ WorkerStep(w, at, "fetching")
          /\ variant' = [variant EXCEPT ![w] = least]
          /\ attempt' = [attempt EXCEPT ![w] = 1]
          /\ UNCHANGED <<result, stored>>
        BY <1>7, <2>6 DEF TryVariant, remaining
    <3> HIDE DEF least
    <3>2. /\ variant' \in [Workers -> Nat] /\ variant'[w] = least
          /\ attempt' \in [Workers -> 0..MaxAttempts]
          /\ result' \in [Workers -> Result]
          /\ stored' \in [Jobs -> Seq(Seq(Contents))]
          /\ \A j \in Jobs : Len(stored'[j]) = PlaceCount[j]
          /\ \A v \in Workers \ {w} :
                 variant'[v] = variant[v] /\ attempt'[v] = attempt[v] /\ result'[v] = result[v]
        BY <1>2, <2>4, <3>1, DownloaderAssumption DEF TypeOK
    <3>3. wpc'[w] = "fetching" /\ cur'[w] = cur[w] /\ sent' = sent
        BY <1>2, <3>1 DEF WorkerStep, TypeOK, dispatch
    <3>4. \A k \in Urls(cur[w]) : k < least => k \in gone'[cur[w]]
        BY <1>4, <2>3, <2>4
    <3>5. WorkerOK(w)'
        BY <1>1, <3>1, <3>2, <3>3, <3>4 DEF WorkerOK, Ending, InitialResult, Urls
    <3> QED BY <1>3, <1>5, <3>1, <3>2, <3>5, WorkerStepKeeps
  <2> QED BY <2>5, <2>6
<1> QED BY <1>6, <1>7

LEMMA RetryKeeps ==
    ASSUME DInv, NEW w \in Workers, Retry(w), UNCHANGED gone,
           stage' \in [Workers -> Seq(Contents)]
    PROVE  DInv'
<1>1. TypeOK /\ wpc[w] = "receiving" /\ WorkerOK(w)
    BY DEF DInv, Retry, Fails, WorkerStep
<1>2. gone' \in [Jobs -> SUBSET Nat] /\ \A j \in Jobs : gone[j] \subseteq gone'[j]
    BY <1>1 DEF TypeOK
<1>3. CASE attempt[w] = MaxAttempts
  <2>1. Fails(w, "receiving", "retry_exhausted")
      BY <1>3 DEF Retry, Exhausted
  <2>2. "receiving" \in {"starting"} \cup Trying /\ "retry_exhausted" \in Codes
      BY DEF Trying, Codes
  <2> QED BY <1>2, <2>1, <2>2, FailsKeeps
<1>4. CASE attempt[w] # MaxAttempts
  <2>1. WorkerStep(w, "receiving", "waiting") /\ UNCHANGED <<variant, attempt, result, stored>>
      BY <1>4 DEF Retry, Exhausted
  <2>2. "receiving" \in Working /\ "waiting" \in Working
      BY DEF Working, Trying
  <2>3. wpc'[w] = "waiting" /\ cur'[w] = cur[w] /\ sent' = sent
      BY <1>1, <2>1 DEF WorkerStep, TypeOK, dispatch
  <2>4. attempt[w] < MaxAttempts
      BY <1>1, <1>4, DownloaderAssumption DEF TypeOK
  <2>5. WorkerOK(w)'
      BY <1>1, <2>1, <2>3, <2>4 DEF WorkerOK, Trying, Ending, Urls, InitialResult
  <2>6. /\ variant' \in [Workers -> Nat] /\ attempt' \in [Workers -> 0..MaxAttempts]
        /\ result' \in [Workers -> Result] /\ stored' \in [Jobs -> Seq(Seq(Contents))]
        /\ \A j \in Jobs : Len(stored'[j]) = PlaceCount[j]
      BY <1>1, <2>1 DEF TypeOK
  <2> QED BY <1>2, <2>1, <2>2, <2>5, <2>6, WorkerStepKeeps
<1> QED BY <1>3, <1>4

(* An action of a worker that ends its job, or only goes on with it.       *)
LEMMA FailsAlone ==
    ASSUME DInv, NEW w \in Workers, NEW at \in {"starting"} \cup Trying, NEW code \in Codes,
           Fails(w, at, code), UNCHANGED <<stage, gone>>,
           code # "source_not_found"
    PROVE  DInv'
<1>1. /\ stage' \in [Workers -> Seq(Contents)] /\ gone' \in [Jobs -> SUBSET Nat]
      /\ \A j \in Jobs : gone[j] \subseteq gone'[j]
    BY DEF DInv, TypeOK
<1> QED BY <1>1, FailsKeeps

LEMMA GoesOn ==
    ASSUME DInv, NEW w \in Workers, NEW at \in Working, NEW goesTo \in Working,
           WorkerStep(w, at, goesTo), UNCHANGED <<variant, stage, result, stored, gone>>,
           attempt' \in [Workers -> 0..MaxAttempts],
           \A v \in Workers \ {w} : attempt'[v] = attempt[v],
           WorkerOK(w)'
    PROVE  DInv'
<1>1. /\ variant' \in [Workers -> Nat] /\ stage' \in [Workers -> Seq(Contents)]
      /\ result' \in [Workers -> Result] /\ stored' \in [Jobs -> Seq(Seq(Contents))]
      /\ \A j \in Jobs : Len(stored'[j]) = PlaceCount[j]
      /\ gone' \in [Jobs -> SUBSET Nat] /\ \A j \in Jobs : gone[j] \subseteq gone'[j]
    BY DEF DInv, TypeOK
<1> QED BY <1>1, WorkerStepKeeps

LEMMA ProcessKeeps ==
    ASSUME DInv, NEW w \in Workers, Process(w)
    PROVE  DInv'
<1>1. wpc[w] = "starting" /\ UNCHANGED <<stage, gone>>
    BY DEF Process
<1>2. CASE canceled
  <2>1. Fails(w, "starting", "canceled") /\ "canceled" \in Codes
      BY <1>2 DEF Process, Codes
  <2> QED BY <1>1, <1>2, <2>1, FailsAlone
<1>3. CASE ~canceled
  <2>1. TryVariant(w, "starting", 1)
      BY <1>3 DEF Process
  <2>2. \A k \in Urls(cur[w]) : ~(k < 1)
      BY <1>1, TryingWorker DEF Urls
  <2>3. gone' \in [Jobs -> SUBSET Nat] /\ \A j \in Jobs : gone[j] \subseteq gone'[j]
      BY <1>1 DEF DInv, TypeOK
  <2> QED BY <1>1, <2>1, <2>2, <2>3, TryVariantKeeps
<1> QED BY <1>2, <1>3

LEMMA StagingFailsKeeps ==
    ASSUME DInv, NEW w \in Workers, StagingFails(w)
    PROVE  DInv'
<1>1. PICK at \in {"starting", "receiving"} : Fails(w, at, "staging_failed")
    BY DEF StagingFails
<1>2. "staging_failed" \in Codes /\ at \in {"starting"} \cup Trying /\ UNCHANGED <<stage, gone>>
    BY DEF Codes, Trying, StagingFails
<1> QED BY <1>1, <1>2, FailsAlone

LEMMA SendKeeps ==
    ASSUME DInv, NEW w \in Workers, Send(w)
    PROVE  DInv'
<1>1. UNCHANGED <<stage, gone>> /\ "fetching" \in Trying /\ "canceled" \in Codes
    BY DEF Send, Trying, Codes
<1>2. CASE canceled
  <2>1. Fails(w, "fetching", "canceled")
      BY <1>2 DEF Send
  <2> QED BY <1>1, <1>2, <2>1, FailsAlone
<1>3. CASE ~canceled
  <2>1. WorkerStep(w, "fetching", "receiving") /\ UNCHANGED <<variant, attempt, result, stored>>
      BY <1>3 DEF Send
  <2>2. "fetching" \in Working /\ "receiving" \in Working
      BY DEF Working, Trying
  <2>3. TypeOK /\ WorkerOK(w) /\ wpc[w] = "fetching"
      BY <2>1 DEF DInv, WorkerStep
  <2>4. wpc'[w] = "receiving" /\ cur'[w] = cur[w] /\ sent' = sent
      BY <2>1, <2>3 DEF WorkerStep, TypeOK, dispatch
  <2>5. WorkerOK(w)'
      BY <1>1, <2>1, <2>3, <2>4 DEF WorkerOK, Trying, Ending, Urls, InitialResult
  <2>6. attempt' \in [Workers -> 0..MaxAttempts]
      BY <2>1, <2>3 DEF TypeOK
  <2> QED BY <1>1, <2>1, <2>2, <2>5, <2>6, GoesOn
<1> QED BY <1>2, <1>3

LEMMA CanceledKeeps ==
    ASSUME DInv, NEW w \in Workers, Interrupted(w) \/ TimedOut(w)
    PROVE  DInv'
<1>1. /\ Fails(w, "receiving", "canceled") /\ UNCHANGED <<stage, gone>>
      /\ "receiving" \in {"starting"} \cup Trying /\ "canceled" \in Codes
    BY DEF Interrupted, TimedOut, Trying, Codes
<1> QED BY <1>1, FailsAlone

LEMMA GoneKeeps ==
    ASSUME DInv, NEW w \in Workers, wpc[w] = "receiving", Gone(w)
    PROVE  DInv'
<1>1. /\ TryVariant(w, "receiving", variant[w] + 1) /\ UNCHANGED stage
      /\ gone' = [gone EXCEPT ![cur[w]] = @ \cup {variant[w]}]
    BY DEF Gone
<1>2. TypeOK /\ WorkerOK(w) /\ variant[w] \in Nat
    BY DEF DInv, TypeOK
<1>3. cur[w] \in Jobs
    BY TryingWorker DEF Trying
<1>4. /\ gone' \in [Jobs -> SUBSET Nat] /\ \A j \in Jobs : gone[j] \subseteq gone'[j]
      /\ variant[w] \in gone'[cur[w]]
    BY <1>1, <1>2, <1>3 DEF TypeOK
<1>5. \A k \in Urls(cur[w]) : k < variant[w] + 1 => k \in gone'[cur[w]]
  <2> TAKE k \in Urls(cur[w])
  <2>1. k \in Nat
      BY TryingWorker DEF Urls, Trying
  <2>2. k < variant[w] => k \in gone[cur[w]]
      BY <1>2 DEF WorkerOK, Trying
  <2> QED BY <1>2, <1>3, <1>4, <2>1, <2>2
<1> QED BY <1>1, <1>2, <1>4, <1>5, TryVariantKeeps

LEMMA WakeKeeps ==
    ASSUME DInv, NEW w \in Workers, Wake(w)
    PROVE  DInv'
<1>1. "waiting" \in Trying /\ "canceled" \in Codes
    BY DEF Trying, Codes
<1>2. CASE canceled
  <2>1. Fails(w, "waiting", "canceled") /\ UNCHANGED <<stage, gone>>
      BY <1>2 DEF Wake
  <2> QED BY <1>1, <1>2, <2>1, FailsAlone
<1>3. CASE ~canceled
  <2>1. /\ WorkerStep(w, "waiting", "fetching") /\ UNCHANGED <<variant, stage, gone, result, stored>>
        /\ attempt' = [attempt EXCEPT ![w] = attempt[w] + 1]
      BY <1>3 DEF Wake, NextAttempt
  <2>2. "waiting" \in Working /\ "fetching" \in Working
      BY DEF Working, Trying
  <2>3. TypeOK /\ WorkerOK(w) /\ wpc[w] = "waiting"
      BY <2>1 DEF DInv, WorkerStep
  <2>4. wpc'[w] = "fetching" /\ cur'[w] = cur[w] /\ sent' = sent
      BY <2>1, <2>3 DEF WorkerStep, TypeOK, dispatch
  <2>5. WorkerOK(w)'
      BY <1>1, <2>1, <2>3, <2>4 DEF WorkerOK, Trying, Ending, Urls, InitialResult
  <2>6. attempt[w] + 1 \in 0..MaxAttempts
      BY <2>3, DownloaderAssumption DEF WorkerOK, TypeOK
  <2>7. /\ attempt' \in [Workers -> 0..MaxAttempts]
        /\ \A v \in Workers \ {w} : attempt'[v] = attempt[v]
      BY <2>1, <2>3, <2>6 DEF TypeOK
  <2> QED BY <2>1, <2>2, <2>5, <2>7, GoesOn
<1> QED BY <1>2, <1>3

LEMMA ReceiveKeeps ==
    ASSUME DInv, NEW w \in Workers, wpc[w] = "receiving",
           NEW content \in Contents, NEW n \in 1..Length[content], Receive(w, content, n)
    PROVE  DInv'
<1> DEFINE file == Blocks(content, n)
<1>1. /\ stage' = [stage EXCEPT ![w] = file] /\ UNCHANGED gone
    BY DEF Receive, Overwritten
<1>2. n \in Nat /\ n >= 1
    BY DownloaderAssumption
<1>3. file \in Seq(Contents)
    BY <1>2, BlocksType
<1>4. TypeOK /\ WorkerOK(w) /\ cur[w] \in 1..sent /\ cur[w] \in Jobs /\ result[w] = InitialResult
    BY TryingWorker DEF DInv, Trying
<1>5. /\ stage' \in [Workers -> Seq(Contents)]
      /\ gone' \in [Jobs -> SUBSET Nat] /\ \A j \in Jobs : gone[j] \subseteq gone'[j]
    BY <1>1, <1>3, <1>4 DEF TypeOK
<1>6. CASE ~TakenAsComplete(content, n)
  <2>1. Retry(w)
      BY <1>6 DEF Receive
  <2> QED BY <1>1, <1>5, <2>1, RetryKeeps
<1>7. CASE TakenAsComplete(content, n) /\ ~ValidMedia(Kind[cur[w]], file)
  <2>1. Fails(w, "receiving", "refused")
      BY <1>7 DEF Receive, Overwritten
  <2>2. "receiving" \in {"starting"} \cup Trying /\ "refused" \in Codes
      BY DEF Trying, Codes
  <2> QED BY <1>5, <2>1, <2>2, FailsKeeps
<1>8. CASE TakenAsComplete(content, n) /\ ValidMedia(Kind[cur[w]], file)
  <2>1. /\ WorkerStep(w, "receiving", "installing")
        /\ result' = [result EXCEPT ![w].quality = variant[w], ![w].digest = file]
        /\ UNCHANGED <<variant, attempt, stored>>
      BY <1>8 DEF Receive, Overwritten
  <2>2. "receiving" \in Working /\ "installing" \in Working
      BY DEF Working, Trying, Ending
  <2>3. Kind[cur[w]] = "image" => file \in Wholes
      BY <1>8, DecodedIsWhole
  <2> HIDE DEF file
  <2>4. result'[w] = [failure |-> "none", quality |-> variant[w], digest |-> file, places |-> <<>>]
    <3>1. result \in [Workers -> Result]
        BY <1>4 DEF TypeOK
    <3>2. result'[w] = [result[w] EXCEPT !.quality = variant[w], !.digest = file]
        BY <2>1, <3>1
    <3> DEFINE mid == [result[w] EXCEPT !.quality = variant[w]]
    <3>3. mid = [failure |-> "none", quality |-> variant[w], digest |-> <<>>, places |-> <<>>]
        BY <1>4 DEF InitialResult
    <3>4. result'[w] = [mid EXCEPT !.digest = file]
        BY <3>2
    <3> HIDE DEF mid
    <3> QED BY <3>3, <3>4
  <2>5. /\ variant' \in [Workers -> Nat] /\ attempt' \in [Workers -> 0..MaxAttempts]
        /\ stored' \in [Jobs -> Seq(Seq(Contents))]
        /\ \A j \in Jobs : Len(stored'[j]) = PlaceCount[j]
        /\ variant[w] \in Nat /\ result \in [Workers -> Result]
      BY <1>4, <2>1 DEF TypeOK
  <2>6. result'[w] \in Result
      BY <1>3, <2>4, <2>5 DEF Result
  <2>7. result' \in [Workers -> Result] /\ \A v \in Workers \ {w} : result'[v] = result[v]
      BY <2>1, <2>5, <2>6
  <2>8. wpc'[w] = "installing" /\ cur'[w] = cur[w] /\ sent' = sent
      BY <1>4, <2>1 DEF WorkerStep, TypeOK, dispatch
  <2>9. Justified(cur[w], result[w])'
    <3>1. \A i \in Urls(cur[w]) : i < variant[w] => i \in gone[cur[w]]
        BY <1>4 DEF WorkerOK, Trying
    <3> QED BY <1>1, <2>4, <2>8, <3>1 DEF Justified, Urls
  <2>10. WholeImage(cur[w], result[w])'
      BY <2>3, <2>4, <2>8 DEF WholeImage, Wholes
  <2>11. Len(result'[w].places) <= PlaceCount[cur[w]] /\ NotCanceled(result[w])'
      BY <1>4, <2>4, DownloaderAssumption DEF NotCanceled
  <2>12. WorkerOK(w)'
      BY <1>4, <2>4, <2>8, <2>9, <2>10, <2>11 DEF WorkerOK, Trying
  <2> QED BY <1>5, <2>1, <2>2, <2>5, <2>7, <2>12, WorkerStepKeeps
<1> QED BY <1>6, <1>7, <1>8

-----------------------------------------------------------------------------
(* A worker installs its file, and counts and reports its job.             *)

LEMMA PlaceStepKeeps ==
    ASSUME DInv, NEW w \in Workers,
           NEW state \in {"installed", "canceled", "placement_failed"}, PlaceStep(w, state),
           state = "canceled" => canceled, stored' \in {stored, Put(w)}
    PROVE  DInv'
<1>1. /\ WorkerStep(w, "installing", "installing") /\ Place(w) \in 1..PlaceCount[cur[w]]
      /\ result' = [result EXCEPT ![w].places = Append(@, state)]
      /\ UNCHANGED <<variant, attempt, stage, gone>>
    BY DEF PlaceStep, fetching
<1>2. TypeOK /\ WorkerOK(w) /\ wpc[w] = "installing"
    BY <1>1 DEF DInv, WorkerStep
<1>3. cur[w] \in 1..sent /\ cur[w] \in Jobs /\ PlaceCount[cur[w]] \in Nat
    BY <1>2, DownloaderAssumption DEF WorkerOK, TypeOK, Jobs
<1>4. result[w] \in Result /\ result \in [Workers -> Result]
    BY <1>2 DEF TypeOK
<1> DEFINE old == result[w].places
           new == Append(old, state)
<1>5. old \in Seq({"installed", "canceled", "placement_failed"})
    BY <1>4 DEF Result
<1>6. /\ new \in Seq({"installed", "canceled", "placement_failed"})
      /\ Len(old) \in Nat /\ Len(new) = Len(old) + 1
      /\ DOMAIN old = 1..Len(old) /\ DOMAIN new = 1..Len(new)
      /\ new[Len(new)] = state /\ \A i \in 1..Len(old) : new[i] = old[i]
    BY <1>5
<1>7. result'[w] = [result[w] EXCEPT !.places = new]
    BY <1>1, <1>4
<1> HIDE DEF new, old
<1>8. /\ result'[w].places = new /\ result'[w].failure = result[w].failure
      /\ result'[w].quality = result[w].quality /\ result'[w].digest = result[w].digest
      /\ result'[w] \in Result
    BY <1>4, <1>6, <1>7 DEF Result
<1>9. result' \in [Workers -> Result] /\ \A v \in Workers \ {w} : result'[v] = result[v]
    BY <1>1, <1>4, <1>8
<1>10. stored' \in [Jobs -> Seq(Seq(Contents))] /\ \A j \in Jobs : Len(stored'[j]) = PlaceCount[j]
  <2>1. stored \in [Jobs -> Seq(Seq(Contents))] /\ \A j \in Jobs : Len(stored[j]) = PlaceCount[j]
      BY <1>2 DEF TypeOK
  <2>2. CASE stored' = stored
      BY <2>1, <2>2
  <2>3. CASE stored' = Put(w)
    <3> DEFINE row == [stored[cur[w]] EXCEPT ![Place(w)] = stage[w]]
    <3>1. stored' = [stored EXCEPT ![cur[w]] = row]
        BY <2>3 DEF Put
    <3>2. stage[w] \in Seq(Contents) /\ stored[cur[w]] \in Seq(Seq(Contents))
          /\ Place(w) \in 1..Len(stored[cur[w]])
        BY <1>1, <1>2, <1>3, <2>1 DEF TypeOK
    <3>3. ASSUME NEW S, NEW s \in Seq(S), NEW e \in S, NEW p \in 1..Len(s)
          PROVE  [s EXCEPT ![p] = e] \in Seq(S) /\ Len([s EXCEPT ![p] = e]) = Len(s)
        OBVIOUS
    <3>4. row \in Seq(Seq(Contents)) /\ Len(row) = Len(stored[cur[w]])
        BY <3>2, <3>3
    <3> HIDE DEF row
    <3> QED BY <1>3, <2>1, <3>1, <3>4
  <2> QED BY <2>2, <2>3
<1>11. wpc'[w] = "installing" /\ cur'[w] = cur[w] /\ sent' = sent /\ canceled' = canceled
    BY <1>1, <1>2 DEF WorkerStep, TypeOK, dispatch
<1>12. WorkerOK(w)'
  <2>1. Justified(cur[w], result[w]) /\ WholeImage(cur[w], result[w])
        /\ result[w].failure = "none" /\ (~canceled => NotCanceled(result[w]))
      BY <1>2 DEF WorkerOK, Ending
  <2>2. Justified(cur[w], result[w])'
      BY <1>1, <1>8, <1>11, <2>1 DEF Justified, Urls
  <2>3. WholeImage(cur[w], result[w])'
      BY <1>8, <1>11, <2>1 DEF WholeImage, Wholes
  <2>4. Len(new) <= PlaceCount[cur[w]]
      BY <1>1, <1>3, <1>6 DEF Place, old
  <2>5. ~canceled => NotCanceled(result[w])'
    <3> SUFFICES ASSUME ~canceled, NEW i \in DOMAIN new PROVE new[i] # "canceled"
        BY <1>8 DEF NotCanceled
    <3>1. CASE i \in 1..Len(old)
        BY <1>6, <2>1, <3>1 DEF NotCanceled, old
    <3>2. CASE i = Len(new)
        BY <1>6, <3>2
    <3> QED BY <1>6, <3>1, <3>2
  <2> QED BY <1>3, <1>8, <1>11, <2>1, <2>2, <2>3, <2>4, <2>5 DEF WorkerOK, Trying
<1>13. /\ variant' \in [Workers -> Nat] /\ attempt' \in [Workers -> 0..MaxAttempts]
       /\ stage' \in [Workers -> Seq(Contents)] /\ gone' \in [Jobs -> SUBSET Nat]
    BY <1>1, <1>2 DEF TypeOK
<1>14. "installing" \in Working
    BY DEF Working, Ending
<1> QED BY <1>1, <1>9, <1>10, <1>12, <1>13, <1>14, WorkerStepKeeps

LEMMA InstallKeeps ==
    ASSUME DInv, NEW w \in Workers, Install(w) \/ InstallFails(w)
    PROVE  DInv'
<1>1. CASE Install(w)
    BY <1>1, PlaceStepKeeps DEF Install
<1>2. CASE InstallFails(w)
  <2>1. CASE canceled /\ PlaceStep(w, "canceled") /\ UNCHANGED stored
      BY <2>1, PlaceStepKeeps
  <2>2. CASE PlaceStep(w, "placement_failed") /\ stored' \in {stored, Put(w)}
      BY <2>2, PlaceStepKeeps
  <2> QED BY <1>2, <2>1, <2>2 DEF InstallFails
<1> QED BY <1>1, <1>2

(* The result of a job is stored, and may be counted as settled.           *)
LEMMA DoneKeeps ==
    ASSUME DInv, NEW w \in Workers, Done(w)
    PROVE  DInv'
<1>1. /\ Ready(w) /\ wpc' = [wpc EXCEPT ![w] = "reporting"]
      /\ results' = [results EXCEPT ![cur[w]] = result[w]]
      /\ UNCHANGED <<dpc, sent, canceled, cur, variant, attempt, stage, gone, result, stored,
                     counts, announced>>
    BY DEF Done, dispatch, fetching
<1>2. TypeOK /\ DispatchOK /\ ResultsOK /\ JobsOK /\ \A v \in Workers : WorkerOK(v)
    BY DEF DInv
<1>3. wpc[w] \in Ending
    BY <1>1 DEF Ready, Ending
<1>4. cur[w] \in 1..sent /\ cur[w] \in Jobs
    BY <1>2, <1>3, DownloaderAssumption DEF WorkerOK, TypeOK, Jobs, Ending
<1>5. result[w] \in Result /\ results \in [Jobs -> Result]
    BY <1>2 DEF TypeOK
<1>6. progress' \in [done : Nat, failed : Nat, reported : Nat] /\ note' \in [Workers -> Count]
  <2> DEFINE n == Counted(w)
  <2>1. /\ progress \in [done : Nat, failed : Nat, reported : Nat]
        /\ note \in [Workers -> Count]
      BY <1>2 DEF TypeOK
  <2>2. n \in [done : Nat, failed : Nat, reported : Nat]
    <3> DEFINE f == IF Failed(result[w]) THEN progress.failed + 1 ELSE progress.failed
    <3>1. f \in Nat
        BY <2>1
    <3> DEFINE mid == [progress EXCEPT !.done = progress.done + 1]
    <3>2. mid \in [done : Nat, failed : Nat, reported : Nat]
        BY <2>1
    <3>3. n = [mid EXCEPT !.failed = f]
        BY DEF Counted
    <3> HIDE DEF f, mid, n
    <3> QED BY <3>1, <3>2, <3>3
  <2>3. \/ progress' = n /\ note' = [note EXCEPT ![w] = NoCount]
        \/ /\ progress' = [n EXCEPT !.reported = progress.done + 1]
           /\ note' = [note EXCEPT ![w] = [done |-> n.done, failed |-> n.failed]]
      BY DEF Done
  <2> HIDE DEF n
  <2>4. progress.done + 1 \in Nat
      BY <2>1
  <2> QED BY <2>1, <2>2, <2>3, <2>4 DEF NoCount, Count
<1>7. wpc' \in [Workers -> {"idle", "starting", "fetching", "receiving", "waiting", "installing",
                            "counting", "reporting"}]
      /\ wpc'[w] = "reporting" /\ \A v \in Workers \ {w} : wpc'[v] = wpc[v]
    BY <1>1, <1>2 DEF TypeOK
<1>8. results' \in [Jobs -> Result] /\ results'[cur[w]] = result[w]
      /\ \A j \in Jobs \ {cur[w]} : results'[j] = results[j]
    BY <1>1, <1>4, <1>5
<1>9. TypeOK'
    BY <1>1, <1>2, <1>6, <1>7, <1>8 DEF TypeOK
<1>10. \A v \in Workers : WorkerOK(v)'
  <2> TAKE v \in Workers
  <2>1. CASE v = w
      BY <1>1, <1>4, <1>7, <2>1 DEF WorkerOK, Trying, Ending
  <2>2. CASE v # w
    <3>1. wpc'[v] = wpc[v] /\ WorkerOK(v)
        BY <1>2, <1>7, <2>2
    <3> QED BY <1>1, <3>1 DEF WorkerOK, Justified, WholeImage, NotCanceled, Urls, Wholes
  <2> QED BY <2>1, <2>2
<1>11. DispatchOK'
  <2>1. dpc \notin {"starting", "returned"}
      BY <1>2, <1>3 DEF DispatchOK, Ending
  <2> QED BY <1>1, <1>2, <2>1 DEF DispatchOK
<1>12. ResultsOK'
  <2>1. Justified(cur[w], result[w]) /\ WholeImage(cur[w], result[w])
      BY <1>2, <1>3 DEF WorkerOK
  <2> SUFFICES ASSUME NEW j \in Jobs
               PROVE  Justified(j, results[j])' /\ WholeImage(j, results[j])'
      BY DEF ResultsOK
  <2>2. CASE j = cur[w]
      BY <1>1, <1>8, <2>1, <2>2 DEF Justified, WholeImage, Urls, Wholes
  <2>3. CASE j # cur[w]
      BY <1>1, <1>2, <1>8, <2>3 DEF ResultsOK, Justified, WholeImage, Urls, Wholes
  <2> QED BY <2>2, <2>3
<1>13. JobsOK'
  <2> SUFFICES ASSUME ~canceled, NEW j \in 1..sent
               PROVE  \/ Settled(j, results'[j])
                      \/ \E v \in Workers : wpc'[v] \in Working /\ cur[v] = j
      BY <1>1 DEF JobsOK, Settled, NotCanceled
  <2>1. CASE j = cur[w]
    <3>1. CASE wpc[w] = "counting"
        BY <1>2, <1>8, <2>1, <3>1 DEF WorkerOK, Settled
    <3>2. CASE wpc[w] = "installing"
      <4>1. /\ Len(result[w].places) <= PlaceCount[cur[w]] /\ NotCanceled(result[w])
            /\ result[w].failure = "none" /\ Len(result[w].places) + 1 > PlaceCount[cur[w]]
          BY <1>1, <1>2, <3>2 DEF WorkerOK, Ready, Place
      <4>2. PlaceCount[cur[w]] \in Nat /\ Len(result[w].places) \in Nat
          BY <1>4, <1>5, DownloaderAssumption DEF Result
      <4> QED BY <1>8, <2>1, <4>1, <4>2 DEF Settled
    <3> QED BY <1>3, <3>1, <3>2 DEF Ending
  <2>2. CASE j # cur[w]
    <3>1. j \in Jobs
        BY <1>2, DownloaderAssumption DEF TypeOK, Jobs
    <3>2. CASE Settled(j, results[j])
        BY <1>8, <2>2, <3>1, <3>2
    <3>3. CASE \E v \in Workers : wpc[v] \in Working /\ cur[v] = j
        BY <1>7, <2>2, <3>3
    <3> QED BY <1>2, <3>2, <3>3 DEF JobsOK
  <2> QED BY <2>1, <2>2
<1> QED BY <1>9, <1>10, <1>11, <1>12, <1>13 DEF DInv

LEMMA ReportKeeps ==
    ASSUME DInv, NEW w \in Workers, Report(w)
    PROVE  DInv'
<1>1. /\ wpc[w] = "reporting" /\ wpc' = [wpc EXCEPT ![w] = "idle"]
      /\ cur' = [cur EXCEPT ![w] = 0] /\ variant' = [variant EXCEPT ![w] = 0]
      /\ attempt' = [attempt EXCEPT ![w] = 0] /\ stage' = [stage EXCEPT ![w] = <<>>]
      /\ result' = [result EXCEPT ![w] = InitialResult]
      /\ note' = [note EXCEPT ![w] = NoCount]
      /\ announced' \in {announced, announced \cup {cur[w]}}
      /\ counts' \in {counts, counts \cup {note[w]}}
      /\ UNCHANGED <<dpc, sent, canceled, results, stored, gone, progress>>
    BY DEF Report, dispatch
<1>2. TypeOK /\ DispatchOK /\ ResultsOK /\ JobsOK /\ \A v \in Workers : WorkerOK(v)
    BY DEF DInv
<1>3. cur[w] \in Jobs
    BY <1>1, <1>2, DownloaderAssumption DEF WorkerOK, TypeOK, Jobs
<1>4. \A v \in Workers \ {w} :
          /\ wpc'[v] = wpc[v] /\ cur'[v] = cur[v] /\ variant'[v] = variant[v]
          /\ attempt'[v] = attempt[v] /\ result'[v] = result[v]
    BY <1>1, <1>2 DEF TypeOK
<1>5. wpc'[w] = "idle" /\ result'[w] = InitialResult
    BY <1>1, <1>2 DEF TypeOK
<1>6. TypeOK'
  <2>1. /\ wpc' \in [Workers -> {"idle", "starting", "fetching", "receiving", "waiting",
                                 "installing", "counting", "reporting"}]
        /\ variant' \in [Workers -> Nat] /\ stage' \in [Workers -> Seq(Contents)]
      BY <1>1, <1>2 DEF TypeOK
  <2>2. cur' \in [Workers -> 0..JobCount] /\ attempt' \in [Workers -> 0..MaxAttempts]
      BY <1>1, <1>2, DownloaderAssumption DEF TypeOK
  <2>3. result' \in [Workers -> Result] /\ note' \in [Workers -> Count]
      BY <1>1, <1>2, InitialResultType DEF TypeOK, NoCount, Count
  <2>4. counts' \subseteq Count /\ announced' \subseteq Jobs
      BY <1>1, <1>2, <1>3 DEF TypeOK
  <2> QED BY <1>1, <1>2, <2>1, <2>2, <2>3, <2>4 DEF TypeOK
<1>7. \A v \in Workers : WorkerOK(v)'
  <2> TAKE v \in Workers
  <2>1. CASE v = w
      BY <1>5, <2>1 DEF WorkerOK, Trying, Ending
  <2>2. CASE v # w
    <3>1. WorkerOK(v) /\ wpc'[v] = wpc[v] /\ cur'[v] = cur[v] /\ variant'[v] = variant[v]
          /\ attempt'[v] = attempt[v] /\ result'[v] = result[v]
        BY <1>2, <1>4, <2>2
    <3> QED BY <1>1, <3>1 DEF WorkerOK, Justified, WholeImage, NotCanceled, Urls, Wholes
  <2> QED BY <2>1, <2>2
<1>8. DispatchOK'
    BY <1>1, <1>2, <1>4, <1>5 DEF DispatchOK
<1>9. ResultsOK'
    BY <1>1, <1>2 DEF ResultsOK, Justified, WholeImage, Urls, Wholes
<1>10. JobsOK'
  <2> SUFFICES ASSUME ~canceled, NEW j \in 1..sent
               PROVE  \/ Settled(j, results[j])
                      \/ \E v \in Workers : wpc'[v] \in Working /\ cur'[v] = j
      BY <1>1 DEF JobsOK, Settled, NotCanceled
  <2>1. CASE Settled(j, results[j])
      BY <2>1
  <2>2. CASE \E v \in Workers : wpc[v] \in Working /\ cur[v] = j
    <3>1. "reporting" \notin Working
        BY DEF Working, Trying, Ending
    <3> QED BY <1>1, <1>4, <2>2, <3>1
  <2> QED BY <1>2, <2>1, <2>2 DEF JobsOK
<1> QED BY <1>2, <1>6, <1>7, <1>8, <1>9, <1>10 DEF DInv

-----------------------------------------------------------------------------
(* The dispatcher, and an interrupt.                                       *)

LEMMA DispatchKeeps ==
    ASSUME DInv, NEW w \in Workers, Dispatch(w)
    PROVE  DInv'
<1>1. /\ dpc = "sending" /\ sent < JobCount /\ wpc[w] = "idle" /\ sent' = sent + 1
      /\ cur' = [cur EXCEPT ![w] = sent + 1] /\ wpc' = [wpc EXCEPT ![w] = "starting"]
      /\ UNCHANGED <<dpc, canceled, variant, attempt, stage, gone, result, results, stored,
                     progress, note, counts, announced>>
    BY DEF Dispatch, fetching, counting
<1>2. TypeOK /\ ResultsOK /\ JobsOK /\ \A v \in Workers : WorkerOK(v)
    BY DEF DInv
<1>3. sent \in Nat /\ sent + 1 \in 0..JobCount /\ JobCount \in Nat
    BY <1>1, <1>2, DownloaderAssumption DEF TypeOK
<1>4. /\ wpc'[w] = "starting" /\ cur'[w] = sent + 1
      /\ \A v \in Workers \ {w} : wpc'[v] = wpc[v] /\ cur'[v] = cur[v]
    BY <1>1, <1>2 DEF TypeOK
<1>5. TypeOK'
  <2>1. /\ wpc' \in [Workers -> {"idle", "starting", "fetching", "receiving", "waiting",
                                 "installing", "counting", "reporting"}]
        /\ cur' \in [Workers -> 0..JobCount]
      BY <1>1, <1>2, <1>3 DEF TypeOK
  <2> QED BY <1>1, <1>2, <1>3, <2>1 DEF TypeOK
<1>6. \A v \in Workers : WorkerOK(v)'
  <2> TAKE v \in Workers
  <2>1. CASE v = w
    <3>1. result'[w] = InitialResult /\ cur'[w] \in 1..sent'
        BY <1>1, <1>2, <1>3, <1>4 DEF WorkerOK
    <3> QED BY <1>4, <2>1, <3>1 DEF WorkerOK, Trying, Ending, InitialResult
  <2>2. CASE v # w
    <3>1. WorkerOK(v) /\ wpc'[v] = wpc[v] /\ cur'[v] = cur[v]
        BY <1>2, <1>4, <2>2
    <3>2. wpc[v] # "idle" => cur[v] \in 1..sent'
        BY <1>1, <1>3, <3>1 DEF WorkerOK
    <3> QED BY <1>1, <3>1, <3>2
            DEF WorkerOK, Justified, WholeImage, NotCanceled, Urls, Wholes, InitialResult
  <2> QED BY <2>1, <2>2
<1>7. DispatchOK'
    BY <1>1 DEF DispatchOK
<1>8. ResultsOK'
    BY <1>1, <1>2 DEF ResultsOK, Justified, WholeImage, Urls, Wholes
<1>9. JobsOK'
  <2> SUFFICES ASSUME ~canceled, NEW j \in 1..sent'
               PROVE  \/ Settled(j, results[j])
                      \/ \E v \in Workers : wpc'[v] \in Working /\ cur'[v] = j
      BY <1>1 DEF JobsOK, Settled, NotCanceled
  <2>1. CASE j = sent + 1
    <3>1. "starting" \in Working
        BY DEF Working
    <3> QED BY <1>4, <2>1, <3>1
  <2>2. CASE j \in 1..sent
    <3>1. CASE Settled(j, results[j])
        BY <3>1
    <3>2. CASE \E v \in Workers : wpc[v] \in Working /\ cur[v] = j
      <4>1. "idle" \notin Working
          BY DEF Working, Trying, Ending
      <4> QED BY <1>1, <1>4, <3>2, <4>1
    <3> QED BY <1>2, <2>2, <3>1, <3>2 DEF JobsOK
  <2> QED BY <1>1, <1>3, <2>1, <2>2
<1> QED BY <1>5, <1>6, <1>7, <1>8, <1>9 DEF DInv

(* A step that leaves the workers, their jobs and the results alone.       *)
LEMMA DispatcherStepKeeps ==
    ASSUME DInv, TypeOK', DispatchOK', canceled' \in BOOLEAN, canceled => canceled',
           UNCHANGED <<sent, wpc, cur, variant, attempt, gone, result, results>>
    PROVE  DInv'
<1>1. ResultsOK /\ JobsOK /\ \A v \in Workers : WorkerOK(v)
    BY DEF DInv
<1>2. \A v \in Workers : WorkerOK(v)'
  <2> TAKE v \in Workers
  <2>1. WorkerOK(v)
      BY <1>1
  <2> QED BY <2>1 DEF WorkerOK, Justified, WholeImage, NotCanceled, Urls, Wholes, InitialResult
<1>3. ResultsOK'
    BY <1>1 DEF ResultsOK, Justified, WholeImage, Urls, Wholes
<1>4. JobsOK'
    BY <1>1 DEF JobsOK, Settled, NotCanceled
<1> QED BY <1>2, <1>3, <1>4 DEF DInv

LEMMA DispatcherKeeps == DInv /\ (Begin \/ Close \/ Return) => DInv'
<1> SUFFICES ASSUME DInv, Begin \/ Close \/ Return PROVE DInv'
    OBVIOUS
<1>1. TypeOK /\ DispatchOK
    BY DEF DInv
<1>2. CASE Begin
  <2>1. TypeOK'
      BY <1>1, <1>2 DEF Begin, TypeOK, fetching, counting
  <2>2. DispatchOK'
      BY <1>1, <1>2 DEF Begin, DispatchOK
  <2> QED BY <1>1, <1>2, <2>1, <2>2, DispatcherStepKeeps DEF Begin, fetching, TypeOK
<1>3. CASE Close
  <2>1. TypeOK'
      BY <1>1, <1>3 DEF Close, TypeOK, fetching, counting
  <2>2. DispatchOK'
      BY <1>1, <1>3 DEF Close, DispatchOK, HandedOut
  <2> QED BY <1>1, <1>3, <2>1, <2>2, DispatcherStepKeeps DEF Close, fetching, TypeOK
<1>4. CASE Return
  <2>1. FinalCounts \subseteq Count
      BY <1>1 DEF TypeOK, FinalCounts, Count
  <2>2. TypeOK'
      BY <1>1, <1>4, <2>1 DEF Return, TypeOK, fetching
  <2>3. DispatchOK'
      BY <1>1, <1>4 DEF Return, DispatchOK
  <2> QED BY <1>1, <1>4, <2>2, <2>3, DispatcherStepKeeps DEF Return, fetching, TypeOK
<1> QED BY <1>2, <1>3, <1>4

LEMMA CancelKeeps == DInv /\ Cancel => DInv'
<1> SUFFICES ASSUME DInv, Cancel PROVE DInv'
    OBVIOUS
<1>1. TypeOK /\ DispatchOK
    BY DEF DInv
<1>2. TypeOK'
    BY <1>1 DEF Cancel, TypeOK, dispatch, fetching, counting
<1>3. DispatchOK'
    BY <1>1 DEF Cancel, DispatchOK, dispatch
<1> QED BY <1>2, <1>3, DispatcherStepKeeps DEF Cancel, dispatch, fetching

-----------------------------------------------------------------------------
(* The theorems.                                                           *)

LEMMA DInvNext == DInv /\ [Next]_vars => DInv'
<1> SUFFICES ASSUME DInv, [Next]_vars PROVE DInv'
    OBVIOUS
<1>1. CASE Begin \/ Close \/ Return
    BY <1>1, DispatcherKeeps
<1>2. ASSUME NEW w \in Workers,
             Dispatch(w) \/ Process(w) \/ Send(w) \/ Interrupted(w) \/ Wake(w)
      PROVE  DInv'
    BY <1>2, DispatchKeeps, ProcessKeeps, SendKeeps, CanceledKeeps, WakeKeeps
<1>3. ASSUME NEW w \in Workers, Install(w) \/ InstallFails(w) \/ Done(w) \/ Report(w)
      PROVE  DInv'
    BY <1>3, InstallKeeps, DoneKeeps, ReportKeeps
<1>4. ASSUME NEW w \in Workers, Answer(w) PROVE DInv'
  <2>1. wpc[w] = "receiving"
      BY <1>4 DEF Answer
  <2>2. CASE Gone(w)
      BY <2>1, <2>2, GoneKeeps
  <2>3. CASE Refused(w)
    <3>1. "receiving" \in {"starting"} \cup Trying /\ "refused" \in Codes
        BY DEF Trying, Codes
    <3> QED BY <2>3, <3>1, FailsAlone DEF Refused
  <2>4. CASE Transient(w)
    <3>1. stage' \in [Workers -> Seq(Contents)]
        BY <2>4 DEF Transient, DInv, TypeOK
    <3> QED BY <2>4, <3>1, RetryKeeps DEF Transient
  <2>5. CASE \E content \in Contents : \E n \in 1..Length[content] : Receive(w, content, n)
      BY <2>1, <2>5, ReceiveKeeps
  <2>6. CASE TimedOut(w)
      BY <2>6, CanceledKeeps
  <2> QED BY <1>4, <2>2, <2>3, <2>4, <2>5, <2>6 DEF Answer
<1>5. ASSUME NEW w \in Workers, StagingFails(w) PROVE DInv'
    BY <1>5, StagingFailsKeeps
<1>6. CASE Cancel
    BY <1>6, CancelKeeps
<1>7. CASE UNCHANGED vars
  <2>1. TypeOK /\ DispatchOK
      BY DEF DInv
  <2>2. TypeOK' /\ DispatchOK'
      BY <1>7, <2>1 DEF vars, TypeOK, DispatchOK
  <2> QED BY <1>7, <2>1, <2>2, DispatcherStepKeeps DEF vars, TypeOK
<1> QED BY <1>1, <1>2, <1>3, <1>4, <1>5, <1>6, <1>7 DEF Next, ProgramStep, Returned

(* What every reachable state of a call satisfies.                         *)
THEOREM DownloadInvariant == Spec => []DInv
BY DInvInit, DInvNext, PTL DEF Spec

(* The type invariant of the pool.                                         *)
THEOREM DownloadTypesKept == Spec => []TypeOK
<1>1. DInv => TypeOK
    BY DEF DInv
<1> QED BY <1>1, DownloadInvariant, PTL

(* A checksum of an image is the checksum of one whole content, for files  *)
(* of any length and any sequence of broken responses before it.           *)
THEOREM ImagesStayWhole == Spec => []ImagesAreWhole
<1>1. DInv => ImagesAreWhole
    BY DEF DInv, ResultsOK, WholeImage, Wholes, ImagesAreWhole
<1> QED BY <1>1, DownloadInvariant, PTL

(* A smaller variant, or "not found", has the answers that justify it.     *)
THEOREM FallbacksAreJustified == Spec => []FallbackJustified
<1>1. DInv => FallbackJustified
    BY DEF DInv, ResultsOK, Justified, FallbackJustified
<1> QED BY <1>1, DownloadInvariant, PTL

-----------------------------------------------------------------------------
(* What the contract of a call promises (DownloadContract).                *)

(* The result of a job that failed, or of one whose file is staged.        *)
FailedResult(code) == [failure |-> code, quality |-> 0, digest |-> <<>>, places |-> <<>>]

StagedResult(quality, file) ==
    [failure |-> "none", quality |-> quality, digest |-> file, places |-> <<>>]

(* The same job is never with two workers.                                 *)
JobsApart ==
    \A v, w \in Workers :
        v # w /\ wpc[v] # "idle" /\ wpc[w] # "idle" => cur[v] # cur[w]

(* What the results say of jobs that no worker took or is done with.       *)
ResultsMatch ==
    /\ \A j \in Jobs : j > sent => results[j] = FailedResult("canceled")
    /\ \A w \in Workers : wpc[w] = "reporting" => results[cur[w]] = result[w]

(* A worker installs what it computed the checksum of; a job that failed   *)
(* has none.                                                               *)
Staged ==
    \A w \in Workers :
        /\ wpc[w] = "installing" => result[w].digest = stage[w] /\ stage[w] # <<>>
        /\ wpc[w] = "counting" => result[w].digest = <<>> /\ result[w].places = <<>>

TakeInv == JobsApart /\ ResultsMatch /\ Staged

(* A worker goes on with its job, and its result becomes r.                *)
GoesOnWith(w, r) ==
    /\ wpc[w] \in Working
    /\ wpc'[w] \in Working
    /\ \A v \in Workers \ {w} :
          wpc'[v] = wpc[v] /\ result'[v] = result[v] /\ stage'[v] = stage[v]
    /\ result'[w] = r
    /\ UNCHANGED <<dpc, sent, canceled, cur, results, progress, note, counts, announced>>

(* The ways in which a job gets on, as far as the contract can tell.       *)
Continues(w) ==
    /\ GoesOnWith(w, result[w])
    /\ wpc'[w] \in {"starting"} \cup Trying
    /\ UNCHANGED stored

JobFails(w) ==
    /\ \E code \in Codes : GoesOnWith(w, FailedResult(code))
    /\ result[w] = InitialResult
    /\ wpc'[w] = "counting"
    /\ UNCHANGED stored

JobStaged(w) ==
    /\ \E content \in Contents : \E n \in 1..Length[content] :
          /\ stage'[w] = Blocks(content, n)
          /\ GoesOnWith(w, StagedResult(variant[w], Blocks(content, n)))
    /\ result[w] = InitialResult
    /\ wpc'[w] = "installing"
    /\ UNCHANGED stored

PlaceDone(w) ==
    /\ wpc[w] = "installing"
    /\ wpc'[w] = "installing"
    /\ Place(w) \in 1..PlaceCount[cur[w]]
    /\ stage'[w] = stage[w]
    /\ \E state \in {"installed", "canceled", "placement_failed"} :
          /\ GoesOnWith(w, [result[w] EXCEPT !.places = Append(@, state)])
          /\ \/ state = "installed" /\ stored' = Put(w)
             \/ state # "installed" /\ stored' \in {stored, Put(w)}

JobStep(w) == Continues(w) \/ JobFails(w) \/ JobStaged(w) \/ PlaceDone(w)

(* Worker w leaves the others alone.                                       *)
LEMMA OthersKept ==
    ASSUME DInv, NEW w \in Workers, NEW at \in Working, NEW goesTo \in Working,
           WorkerStep(w, at, goesTo)
    PROVE  /\ wpc[w] = at /\ wpc'[w] = goesTo
           /\ \A v \in Workers \ {w} : wpc'[v] = wpc[v]
           /\ UNCHANGED <<dpc, sent, canceled, cur, results, progress, note, counts, announced>>
BY DEF DInv, TypeOK, WorkerStep, dispatch, counting

(* A failure is one of the ways in which a job gets on.                    *)
LEMMA FailsIsStep ==
    ASSUME DInv, NEW w \in Workers, NEW at \in {"starting"} \cup Trying, NEW code \in Codes,
           Fails(w, at, code), \A v \in Workers \ {w} : stage'[v] = stage[v]
    PROVE  JobFails(w)
<1>1. at \in Working /\ "counting" \in Working
    BY DEF Working, Trying, Ending
<1>2. /\ WorkerStep(w, at, "counting")
      /\ result' = [result EXCEPT ![w].failure = code] /\ UNCHANGED stored
    BY DEF Fails
<1>3. TypeOK /\ WorkerOK(w) /\ wpc[w] = at
    BY <1>2 DEF DInv, WorkerStep
<1>4. result[w] = InitialResult
    BY <1>3 DEF WorkerOK
<1>5. /\ result'[w] = FailedResult(code)
      /\ \A v \in Workers \ {w} : result'[v] = result[v]
  <2>1. /\ result'[w] = [result[w] EXCEPT !.failure = code]
        /\ \A v \in Workers \ {w} : result'[v] = result[v]
      BY <1>2, <1>3 DEF TypeOK
  <2> QED BY <1>4, <2>1 DEF InitialResult, FailedResult
<1>6. GoesOnWith(w, FailedResult(code))
    BY <1>1, <1>2, <1>5, OthersKept DEF GoesOnWith
<1> QED BY <1>1, <1>2, <1>4, <1>6, OthersKept DEF JobFails

(* A step that changes neither the result nor the stored files lets it go  *)
(* on.                                                                     *)
LEMMA ContinuesIsStep ==
    ASSUME DInv, NEW w \in Workers, NEW at \in Working, NEW goesTo \in {"starting"} \cup Trying,
           WorkerStep(w, at, goesTo), \A v \in Workers \ {w} : stage'[v] = stage[v],
           UNCHANGED <<result, stored>>
    PROVE  Continues(w)
<1>1. goesTo \in Working
    BY DEF Working, Trying
<1> QED BY <1>1, OthersKept DEF Continues, GoesOnWith

(* A variant that cannot be tried fails the job; any other is tried.       *)
LEMMA TryIsStep ==
    ASSUME DInv, NEW w \in Workers, NEW at \in {"starting", "receiving"}, NEW i \in Nat,
           TryVariant(w, at, i), \A v \in Workers \ {w} : stage'[v] = stage[v]
    PROVE  JobFails(w) \/ Continues(w)
<1>1. at \in {"starting"} \cup Trying /\ at \in Working /\ "fetching" \in {"starting"} \cup Trying
    BY DEF Working, Trying
<1>2. \/ \E code \in Codes : Fails(w, at, code)
      \/ WorkerStep(w, at, "fetching") /\ UNCHANGED <<result, stored>>
    BY DEF TryVariant, Codes
<1> QED BY <1>1, <1>2, FailsIsStep, ContinuesIsStep

(* A retry waits, moves to the next variant, or fails the job.             *)
LEMMA RetryIsStep ==
    ASSUME DInv, NEW w \in Workers, Retry(w), \A v \in Workers \ {w} : stage'[v] = stage[v]
    PROVE  JobFails(w) \/ Continues(w)
<1>1. "receiving" \in {"starting"} \cup Trying /\ "receiving" \in Working
      /\ "waiting" \in {"starting"} \cup Trying /\ "retry_exhausted" \in Codes
    BY DEF Working, Trying, Codes
<1>2. \/ Fails(w, "receiving", "retry_exhausted")
      \/ WorkerStep(w, "receiving", "waiting") /\ UNCHANGED <<result, stored>>
    BY DEF Retry
<1> QED BY <1>1, <1>2, FailsIsStep, ContinuesIsStep

(* Every step up to the answer of the server.                              *)
LEMMA FetchIsStep ==
    ASSUME DInv, NEW w \in Workers,
           \/ Process(w) \/ StagingFails(w) \/ Send(w) \/ Interrupted(w) \/ Wake(w)
           \/ wpc[w] = "receiving" /\ (Gone(w) \/ Refused(w) \/ TimedOut(w) \/ Transient(w))
    PROVE  JobStep(w)
<1>0. /\ \A at \in {"starting", "fetching", "receiving", "waiting"} :
            at \in {"starting"} \cup Trying /\ at \in Working
      /\ {"canceled", "staging_failed", "refused"} \subseteq Codes
    BY DEF Working, Trying, Codes
<1>1. \A v \in Workers \ {w} : stage'[v] = stage[v]
    BY DEF Process, StagingFails, Send, Interrupted, Wake, Gone, Refused, TimedOut, Transient
<1>2. CASE Process(w)
  <2>1. Fails(w, "starting", "canceled") \/ TryVariant(w, "starting", 1)
      BY <1>2 DEF Process
  <2> QED BY <1>0, <1>1, <2>1, FailsIsStep, TryIsStep DEF JobStep
<1>3. CASE StagingFails(w)
  <2>1. \E at \in {"starting", "receiving"} : Fails(w, at, "staging_failed")
      BY <1>3 DEF StagingFails
  <2> QED BY <1>0, <1>1, <2>1, FailsIsStep DEF JobStep
<1>4. CASE Send(w)
  <2>1. \/ Fails(w, "fetching", "canceled")
        \/ WorkerStep(w, "fetching", "receiving") /\ UNCHANGED <<result, stored>>
      BY <1>4 DEF Send
  <2> QED BY <1>0, <1>1, <2>1, FailsIsStep, ContinuesIsStep DEF JobStep
<1>5. CASE Interrupted(w)
    BY <1>0, <1>1, <1>5, FailsIsStep DEF JobStep, Interrupted
<1>6. CASE Wake(w)
  <2>1. \/ Fails(w, "waiting", "canceled")
        \/ WorkerStep(w, "waiting", "fetching") /\ UNCHANGED <<result, stored>>
      BY <1>6 DEF Wake
  <2> QED BY <1>0, <1>1, <2>1, FailsIsStep, ContinuesIsStep DEF JobStep
<1>7. CASE Gone(w)
  <2>1. TryVariant(w, "receiving", variant[w] + 1) /\ variant[w] + 1 \in Nat
      BY <1>7 DEF Gone, DInv, TypeOK
  <2> QED BY <1>1, <2>1, TryIsStep DEF JobStep
<1>8. CASE Refused(w)
    BY <1>0, <1>1, <1>8, FailsIsStep DEF JobStep, Refused
<1>9. CASE Transient(w)
    BY <1>1, <1>9, RetryIsStep DEF JobStep, Transient
<1>10. CASE TimedOut(w)
    BY <1>0, <1>1, <1>10, FailsIsStep DEF JobStep, TimedOut
<1> QED BY <1>2, <1>3, <1>4, <1>5, <1>6, <1>7, <1>8, <1>9, <1>10

(* The body of an answer.                                                  *)
LEMMA ReceiveIsStep ==
    ASSUME DInv, NEW w \in Workers, wpc[w] = "receiving",
           NEW content \in Contents, NEW n \in 1..Length[content], Receive(w, content, n)
    PROVE  JobStep(w)
<1> DEFINE file == Blocks(content, n)
<1>1. stage' = [stage EXCEPT ![w] = file] /\ TypeOK
    BY DEF Receive, Overwritten, DInv
<1>2. stage'[w] = file /\ \A v \in Workers \ {w} : stage'[v] = stage[v]
    BY <1>1 DEF TypeOK
<1>3. "receiving" \in {"starting"} \cup Trying /\ "refused" \in Codes
      /\ "receiving" \in Working /\ "installing" \in Working
    BY DEF Trying, Codes, Working, Ending
<1>4. CASE Retry(w)
    BY <1>2, <1>4, RetryIsStep DEF JobStep
<1>5. CASE Fails(w, "receiving", "refused")
    BY <1>2, <1>3, <1>5, FailsIsStep DEF JobStep
<1>6. CASE /\ WorkerStep(w, "receiving", "installing")
           /\ result' = [result EXCEPT ![w].quality = variant[w], ![w].digest = file]
           /\ UNCHANGED stored
  <2>1. result[w] = InitialResult
      BY TryingWorker DEF Trying
  <2>2. /\ result'[w] = StagedResult(variant[w], file)
        /\ \A v \in Workers \ {w} : result'[v] = result[v]
    <3>1. result \in [Workers -> Result]
        BY <1>1 DEF TypeOK
    <3> DEFINE mid == [result[w] EXCEPT !.quality = variant[w]]
    <3>2. mid = [failure |-> "none", quality |-> variant[w], digest |-> <<>>, places |-> <<>>]
        BY <2>1 DEF InitialResult
    <3>3. result'[w] = [mid EXCEPT !.digest = file]
        BY <1>6, <3>1
    <3>4. \A v \in Workers \ {w} : result'[v] = result[v]
        BY <1>6, <3>1
    <3> HIDE DEF mid
    <3> QED BY <3>2, <3>3, <3>4 DEF StagedResult
  <2>3. GoesOnWith(w, StagedResult(variant[w], file))
      BY <1>2, <1>3, <1>6, <2>1, <2>2, OthersKept DEF GoesOnWith
  <2> QED BY <1>2, <1>3, <1>6, <2>1, <2>3, OthersKept DEF JobStep, JobStaged
<1> QED BY <1>4, <1>5, <1>6 DEF Receive, Overwritten

(* A destination is written, or it is not.                                 *)
LEMMA InstallIsStep ==
    ASSUME DInv, NEW w \in Workers, Install(w) \/ InstallFails(w)
    PROVE  JobStep(w)
<1>1. PICK state \in {"installed", "canceled", "placement_failed"} :
          /\ PlaceStep(w, state)
          /\ \/ state = "installed" /\ stored' = Put(w)
             \/ state # "installed" /\ stored' \in {stored, Put(w)}
    BY DEF Install, InstallFails
<1>2. /\ WorkerStep(w, "installing", "installing") /\ Place(w) \in 1..PlaceCount[cur[w]]
      /\ result' = [result EXCEPT ![w].places = Append(@, state)] /\ stage' = stage
    BY <1>1 DEF PlaceStep, fetching
<1>3. "installing" \in Working
    BY DEF Working, Ending
<1>4. /\ result'[w] = [result[w] EXCEPT !.places = Append(@, state)]
      /\ \A v \in Workers \ {w} : result'[v] = result[v]
    BY <1>2 DEF DInv, TypeOK
<1>5. GoesOnWith(w, [result[w] EXCEPT !.places = Append(@, state)])
    BY <1>2, <1>3, <1>4, OthersKept DEF GoesOnWith
<1> QED BY <1>1, <1>2, <1>3, <1>5, OthersKept DEF JobStep, PlaceDone

(* Every step of the pool is of one of these kinds.                        *)
LEMMA StepKinds ==
    ASSUME DInv, [Next]_vars
    PROVE  \/ \E w \in Workers : JobStep(w) \/ Dispatch(w) \/ Done(w) \/ Report(w)
           \/ Begin \/ Close \/ Return \/ Cancel
           \/ UNCHANGED vars
<1>1. ASSUME NEW w \in Workers, Answer(w) PROVE JobStep(w)
    BY <1>1, FetchIsStep, ReceiveIsStep DEF Answer
<1> QED BY <1>1, FetchIsStep, InstallIsStep DEF Next, ProgramStep, Returned

-----------------------------------------------------------------------------

(* No worker has a job at first, and every result is that of a canceled    *)
(* job.                                                                    *)
LEMMA TakeInit == Init => TakeInv
<1> SUFFICES ASSUME Init PROVE TakeInv
    OBVIOUS
<1>1. \A j \in Jobs : results[j] = FailedResult("canceled")
    BY DEF Init, FailedResult, InitialResult
<1> QED BY <1>1 DEF Init, TakeInv, JobsApart, ResultsMatch, Staged

LEMMA NotWorking == "idle" \notin Working /\ "reporting" \notin Working
BY DEF Working, Trying, Ending

(* A file that was received has a block.                                   *)
LEMMA ReceivedNotEmpty ==
    ASSUME NEW c \in Contents, NEW n \in 1..Length[c]
    PROVE  Blocks(c, n) # <<>>
<1>1. n \in Nat /\ n >= 1
    BY DownloaderAssumption
<1> QED BY <1>1, BlocksType

(* A worker that gets on with its job keeps it and touches no other.       *)
LEMMA TakeJobStep ==
    ASSUME DInv, TakeInv, NEW w \in Workers, JobStep(w)
    PROVE  TakeInv'
<1>1. PICK r : GoesOnWith(w, r)
    BY DEF JobStep, Continues, JobFails, JobStaged, PlaceDone
<1>2. JobsApart'
    BY <1>1, NotWorking DEF TakeInv, JobsApart, GoesOnWith
<1>3. ResultsMatch'
    BY <1>1, NotWorking DEF TakeInv, ResultsMatch, GoesOnWith
<1>4. /\ wpc'[w] = "installing" => result'[w].digest = stage'[w] /\ stage'[w] # <<>>
      /\ wpc'[w] = "counting" => result'[w].digest = <<>> /\ result'[w].places = <<>>
  <2>1. CASE Continues(w)
      BY <2>1 DEF Continues, Trying
  <2>2. CASE JobFails(w)
      BY <2>2 DEF JobFails, GoesOnWith, FailedResult
  <2>3. CASE JobStaged(w)
      BY <2>3, ReceivedNotEmpty DEF JobStaged, GoesOnWith, StagedResult
  <2>4. CASE PlaceDone(w)
    <3>1. result[w].digest = stage[w] /\ stage[w] # <<>> /\ stage'[w] = stage[w]
        BY <2>4 DEF TakeInv, Staged, PlaceDone
    <3>2. result[w] \in Result
        BY DEF DInv, TypeOK
    <3>3. result'[w].digest = result[w].digest
        BY <2>4, <3>2 DEF PlaceDone, GoesOnWith, Result
    <3> QED BY <2>4, <3>1, <3>3 DEF PlaceDone
  <2> QED BY <2>1, <2>2, <2>3, <2>4 DEF JobStep
<1>5. Staged'
    BY <1>1, <1>4 DEF TakeInv, Staged, GoesOnWith
<1> QED BY <1>2, <1>3, <1>5 DEF TakeInv

(* The job that is sent is one that no worker had.                         *)
LEMMA TakeDispatch ==
    ASSUME DInv, TakeInv, NEW w \in Workers, Dispatch(w)
    PROVE  TakeInv'
<1>1. /\ sent \in Nat /\ sent' = sent + 1 /\ wpc'[w] = "starting" /\ cur'[w] = sent + 1
      /\ wpc[w] = "idle"
      /\ \A v \in Workers \ {w} : wpc'[v] = wpc[v] /\ cur'[v] = cur[v]
      /\ UNCHANGED <<result, results, stage>>
    BY DownloaderAssumption DEF Dispatch, DInv, TypeOK, fetching
<1>2. \A v \in Workers : wpc[v] # "idle" => cur[v] \in 1..sent
    BY DEF DInv, WorkerOK
<1>3. JobsApart'
    BY <1>1, <1>2 DEF TakeInv, JobsApart
<1>4. ResultsMatch'
  <2>1. \A j \in Jobs : j > sent + 1 => j > sent
      BY <1>1 DEF Jobs
  <2> QED BY <1>1, <2>1 DEF TakeInv, ResultsMatch
<1>5. Staged'
    BY <1>1 DEF TakeInv, Staged
<1> QED BY <1>3, <1>4, <1>5 DEF TakeInv

(* The result of the job is stored, and is what the worker reports.        *)
LEMMA TakeDone ==
    ASSUME DInv, TakeInv, NEW w \in Workers, Done(w)
    PROVE  TakeInv'
<1>1. /\ wpc[w] \in Ending /\ wpc[w] # "idle" /\ wpc'[w] = "reporting"
      /\ \A v \in Workers \ {w} : wpc'[v] = wpc[v]
      /\ results' = [results EXCEPT ![cur[w]] = result[w]]
      /\ UNCHANGED <<sent, cur, result, stage>>
    BY DEF Done, Ready, Ending, DInv, TypeOK, dispatch, fetching
<1>2. \A v \in Workers : wpc[v] # "idle" => cur[v] \in 1..sent /\ cur[v] \in Jobs
    BY DownloaderAssumption DEF DInv, WorkerOK, TypeOK, Jobs
<1>3. /\ results'[cur[w]] = result[w]
      /\ \A j \in Jobs \ {cur[w]} : results'[j] = results[j]
    BY <1>1, <1>2 DEF DInv, TypeOK
<1>4. JobsApart'
    BY <1>1 DEF TakeInv, JobsApart
<1>5. ResultsMatch'
  <2>1. \A j \in Jobs : j > sent => j # cur[w]
      BY <1>1, <1>2 DEF DInv, TypeOK, Jobs
  <2>2. \A v \in Workers \ {w} : wpc[v] # "idle" => cur[v] # cur[w]
      BY <1>1 DEF TakeInv, JobsApart
  <2> QED BY <1>1, <1>2, <1>3, <2>1, <2>2 DEF TakeInv, ResultsMatch
<1>6. Staged'
    BY <1>1 DEF TakeInv, Staged
<1> QED BY <1>4, <1>5, <1>6 DEF TakeInv

(* A worker that has reported has no job any more.                         *)
LEMMA TakeReport ==
    ASSUME DInv, TakeInv, NEW w \in Workers, Report(w)
    PROVE  TakeInv'
<1>1. /\ wpc'[w] = "idle" /\ wpc[w] = "reporting"
      /\ \A v \in Workers \ {w} : wpc'[v] = wpc[v] /\ cur'[v] = cur[v] /\ result'[v] = result[v]
                                  /\ stage'[v] = stage[v]
      /\ UNCHANGED <<sent, results>>
    BY DEF Report, DInv, TypeOK, dispatch
<1> QED BY <1>1 DEF TakeInv, JobsApart, ResultsMatch, Staged

(* TakeInv is inductive, given what is already known of each step.         *)
LEMMA TakeNext ==
    ASSUME DInv, TakeInv, [Next]_vars
    PROVE  TakeInv'
<1>1. CASE \E w \in Workers : JobStep(w) \/ Dispatch(w) \/ Done(w) \/ Report(w)
    BY <1>1, TakeJobStep, TakeDispatch, TakeDone, TakeReport
<1>2. CASE Begin \/ Close \/ Return \/ Cancel \/ UNCHANGED vars
  <2>1. UNCHANGED <<sent, wpc, cur, stage, result, results>>
      BY <1>2 DEF Begin, Close, Return, Cancel, vars, fetching, dispatch
  <2> QED BY <2>1 DEF TakeInv, JobsApart, ResultsMatch, Staged
<1> QED BY <1>1, <1>2, StepKinds

-----------------------------------------------------------------------------
(* The refinement.                                                         *)

(* A job that a worker has is what the worker made of it.                  *)
LEMMA OutcomeTaken ==
    ASSUME JobsApart, NEW w \in Workers, wpc[w] # "idle"
    PROVE  Outcome(cur[w]) = result[w]
<1>1. \A v \in Workers : Taking(v, cur[w]) <=> v = w
    BY DEF Taking, JobsApart
<1> QED BY <1>1 DEF Outcome

(* The outcome of a job that no worker has is the stored one.              *)
LEMMA OutcomeFree ==
    ASSUME NEW j, \A w \in Workers : wpc[w] # "idle" => cur[w] # j
    PROVE  Outcome(j) = results[j]
BY DEF Outcome, Taking

(* The same after a step.                                                  *)
LEMMA OutcomeTakenNext ==
    ASSUME JobsApart', NEW w \in Workers, NEW j, wpc'[w] # "idle", cur'[w] = j
    PROVE  Outcome(j)' = result'[w]
<1>1. \A v \in Workers : Taking(v, j)' <=> v = w
    BY DEF Taking, JobsApart
<1> QED BY <1>1 DEF Outcome

LEMMA OutcomeFreeNext ==
    ASSUME NEW j, \A w \in Workers : wpc'[w] # "idle" => cur'[w] # j
    PROVE  Outcome(j)' = results'[j]
BY DEF Outcome, Taking

(* A worker's step is seen in the job it has and in no other.              *)
LEMMA OutcomeOfStep ==
    ASSUME DInv, TakeInv, NEW w \in Workers, NEW r, GoesOnWith(w, r),
           NEW k, k = cur[w]
    PROVE  /\ k \in Jobs /\ ~Waiting(k) /\ ~Waiting(k)'
           /\ Outcome(k) = result[w] /\ Outcome(k)' = r
           /\ \A j \in Jobs \ {k} : Outcome(j)' = Outcome(j)
           /\ \A j \in Jobs : Waiting(j)' <=> Waiting(j)
<1>1. wpc[w] # "idle" /\ wpc'[w] # "idle"
    BY NotWorking DEF GoesOnWith
<1>2. /\ \A v \in Workers \ {w} : wpc'[v] = wpc[v] /\ result'[v] = result[v]
      /\ result'[w] = r /\ UNCHANGED <<dpc, sent, cur, results>>
    BY DEF GoesOnWith
<1>3. JobsApart /\ JobsApart'
    BY <1>1, <1>2 DEF TakeInv, JobsApart
<1>4. cur[w] \in 1..sent /\ cur[w] \in Jobs /\ sent \in Nat
    BY <1>1, DownloaderAssumption DEF DInv, WorkerOK, TypeOK, Jobs
<1>5. ASSUME NEW j \in Jobs \ {k} PROVE Outcome(j)' = Outcome(j)
  <2>1. CASE \E v \in Workers : wpc[v] # "idle" /\ cur[v] = j
    <3>1. PICK v \in Workers : wpc[v] # "idle" /\ cur[v] = j
        BY <2>1
    <3>2. v # w /\ wpc'[v] # "idle" /\ cur'[v] = j /\ result'[v] = result[v]
        BY <1>2, <1>5, <3>1
    <3>3. Outcome(j) = result[v]
        BY <1>3, <3>1, OutcomeTaken
    <3>4. Outcome(j)' = result'[v]
        BY <1>3, <3>2, OutcomeTakenNext
    <3> QED BY <3>2, <3>3, <3>4
  <2>2. CASE \A v \in Workers : wpc[v] # "idle" => cur[v] # j
    <3>1. \A v \in Workers : wpc'[v] # "idle" => cur'[v] # j
        BY <1>2, <1>5, <2>2
    <3>2. Outcome(j) = results[j]
        BY <2>2, OutcomeFree
    <3>3. Outcome(j)' = results'[j]
        BY <3>1, OutcomeFreeNext
    <3> QED BY <1>2, <3>2, <3>3
  <2> QED BY <2>1, <2>2
<1>6. Outcome(k) = result[w] /\ Outcome(k)' = r
    BY <1>1, <1>2, <1>3, OutcomeTaken, OutcomeTakenNext
<1>7. \A j \in Jobs : Waiting(j)' <=> Waiting(j)
    BY <1>2 DEF Waiting
<1>8. ~Waiting(k)
    BY <1>4 DEF Waiting
<1> QED BY <1>2, <1>4, <1>5, <1>6, <1>7, <1>8

(* What the contract sees of a job.                                        *)
Same(j) ==
    /\ JobState(j)' = JobState(j)
    /\ Outcome(j)'.digest = Outcome(j).digest
    /\ \A d \in 1..PlaceCount[j] : PlaceState(j, d)' = PlaceState(j, d)

(* A job whose outcome stays as it is does not move.                       *)
LEMMA SameOutcome ==
    ASSUME NEW j \in Jobs, Outcome(j)' = Outcome(j), Waiting(j)' <=> Waiting(j)
    PROVE  Same(j)
BY DEF Same, JobState, PlaceState

(* When no job moves the contract stutters.                                *)
LEMMA Stutter ==
    ASSUME \A j \in Jobs : Same(j), UNCHANGED stored
    PROVE  UNCHANGED Contract!vars
<1>1. [j \in Jobs |-> JobState(j)]' = [j \in Jobs |-> JobState(j)]
    BY DEF Same
<1>2. [j \in Jobs |-> Outcome(j).digest]' = [j \in Jobs |-> Outcome(j).digest]
    BY DEF Same
<1>3. [j \in Jobs |-> [d \in 1..PlaceCount[j] |-> PlaceState(j, d)]]'
        = [j \in Jobs |-> [d \in 1..PlaceCount[j] |-> PlaceState(j, d)]]
    BY DEF Same
<1> QED BY <1>1, <1>2, <1>3 DEF Contract!vars

(* Before a job is staged its destinations are queued.                     *)
LEMMA NoPlaces ==
    ASSUME NEW j \in Jobs, NEW d \in 1..PlaceCount[j]
    PROVE  /\ Outcome(j).places = <<>> => PlaceState(j, d) = "queued"
           /\ Outcome(j)'.places = <<>> => PlaceState(j, d)' = "queued"
<1>1. PlaceCount[j] \in Nat /\ d > 0
    BY DownloaderAssumption
<1> QED BY <1>1 DEF PlaceState

(* A job with no places of its own yet is seen by its digest and failure.  *)
LEMMA SameUnplaced ==
    ASSUME NEW j \in Jobs, Outcome(j).places = <<>>, Outcome(j)'.places = <<>>,
           Outcome(j)'.digest = Outcome(j).digest
    PROVE  /\ JobState(j)' = JobState(j) => Same(j)
           /\ \A d \in 1..PlaceCount[j] : PlaceState(j, d)' = PlaceState(j, d)
           /\ Outcome(j)'.digest = Outcome(j).digest
BY NoPlaces DEF Same

(* An attempt more or less is nothing to the contract.                     *)
LEMMA ContinuesSteps ==
    ASSUME DInv, TakeInv, NEW w \in Workers, Continues(w)
    PROVE  UNCHANGED Contract!vars
<1>1. PICK k : k = cur[w]
    OBVIOUS
<1>2. GoesOnWith(w, result[w]) /\ UNCHANGED stored
    BY DEF Continues
<1>3. \A j \in Jobs : Outcome(j)' = Outcome(j) /\ (Waiting(j)' <=> Waiting(j))
    BY <1>1, <1>2, OutcomeOfStep
<1> QED BY <1>2, <1>3, SameOutcome, Stutter

(* A set of queued jobs without files fails.                               *)
LEMMA JobsFailing ==
    ASSUME NEW failing \in SUBSET Jobs,
           \A j \in failing :
              /\ JobState(j) = "queued" /\ JobState(j)' = "failed"
              /\ Outcome(j).digest = <<>> /\ Outcome(j)'.digest = <<>>
              /\ Outcome(j).places = <<>> /\ Outcome(j)'.places = <<>>,
           \A j \in Jobs \ failing : Same(j),
           UNCHANGED stored
    PROVE  Contract!FetchesFail(failing)
<1>1. \A j \in Jobs : Outcome(j)'.digest = Outcome(j).digest
    BY DEF Same
<1>2. \A j \in Jobs : \A d \in 1..PlaceCount[j] : PlaceState(j, d)' = PlaceState(j, d)
    BY NoPlaces DEF Same
<1>3. \A j \in Jobs : JobState(j)' = IF j \in failing THEN "failed" ELSE JobState(j)
    BY DEF Same
<1>4. [j \in Jobs |-> JobState(j)]' = [j \in Jobs |-> IF j \in failing THEN "failed" ELSE JobState(j)]
    BY <1>3
<1>5. [j \in Jobs |-> Outcome(j).digest]' = [j \in Jobs |-> Outcome(j).digest]
    BY <1>1
<1>6. [j \in Jobs |-> [d \in 1..PlaceCount[j] |-> PlaceState(j, d)]]'
        = [j \in Jobs |-> [d \in 1..PlaceCount[j] |-> PlaceState(j, d)]]
    BY <1>2
<1>7. \A j \in failing : [i \in Jobs |-> JobState(i)][j] = "queued"
    OBVIOUS
<1> QED BY <1>4, <1>5, <1>6, <1>7 DEF Contract!FetchesFail

(* A job that fails is a fetch that fails.                                 *)
LEMMA JobFailsSteps ==
    ASSUME DInv, TakeInv, NEW w \in Workers, JobFails(w)
    PROVE  \E failing \in SUBSET Jobs : Contract!FetchesFail(failing)
<1>1. PICK k : k = cur[w]
    OBVIOUS
<1>2. PICK code \in Codes : GoesOnWith(w, FailedResult(code))
    BY DEF JobFails
<1>3. /\ k \in Jobs /\ ~Waiting(k) /\ ~Waiting(k)'
      /\ Outcome(k) = InitialResult /\ Outcome(k)' = FailedResult(code)
      /\ \A j \in Jobs \ {k} : Outcome(j)' = Outcome(j)
      /\ \A j \in Jobs : Waiting(j)' <=> Waiting(j)
    BY <1>1, <1>2, OutcomeOfStep DEF JobFails
<1>4. code # "none"
    BY DEF Codes
<1>5. JobState(k) = "queued" /\ JobState(k)' = "failed"
    BY <1>3, <1>4 DEF JobState, InitialResult, FailedResult
<1>6. \A j \in Jobs \ {k} : Same(j)
    BY <1>3, SameOutcome
<1>7. Contract!FetchesFail({k})
    BY <1>3, <1>5, <1>6, JobsFailing DEF JobFails, InitialResult, FailedResult
<1> QED BY <1>3, <1>7

(* A file that is staged is a fetch.                                       *)
LEMMA JobStagedSteps ==
    ASSUME DInv, TakeInv, NEW w \in Workers, JobStaged(w)
    PROVE  \E j \in Jobs : Contract!Fetch(j)
<1>1. PICK k : k = cur[w]
    OBVIOUS
<1>2. PICK content \in Contents : \E n \in 1..Length[content] :
          GoesOnWith(w, StagedResult(variant[w], Blocks(content, n)))
    BY DEF JobStaged
<1>3. PICK n \in 1..Length[content] :
          GoesOnWith(w, StagedResult(variant[w], Blocks(content, n)))
    BY <1>2
<1> DEFINE file == Blocks(content, n)
<1>4. /\ k \in Jobs /\ ~Waiting(k) /\ ~Waiting(k)'
      /\ Outcome(k) = InitialResult /\ Outcome(k)' = StagedResult(variant[w], file)
      /\ \A j \in Jobs \ {k} : Outcome(j)' = Outcome(j)
      /\ \A j \in Jobs : Waiting(j)' <=> Waiting(j)
    BY <1>1, <1>3, OutcomeOfStep DEF JobStaged
<1>5. file # <<>>
    BY ReceivedNotEmpty
<1>6. file \in UNION {{Blocks(c, m) : m \in 1..Length[c]} : c \in Contents}
    OBVIOUS
<1> HIDE DEF file
<1>7. JobState(k) = "queued" /\ JobState(k)' = "staged" /\ Outcome(k)'.digest = file
    BY <1>4, <1>5 DEF JobState, InitialResult, StagedResult
<1>8. \A j \in Jobs \ {k} : Same(j)
    BY <1>4, SameOutcome
<1>9. \A d \in 1..PlaceCount[k] : PlaceState(k, d)' = PlaceState(k, d)
    BY <1>4, NoPlaces DEF InitialResult, StagedResult
<1>10. [j \in Jobs |-> JobState(j)]' = [[j \in Jobs |-> JobState(j)] EXCEPT ![k] = "staged"]
    BY <1>4, <1>7, <1>8 DEF Same
<1>11. [j \in Jobs |-> Outcome(j).digest]' = [[j \in Jobs |-> Outcome(j).digest] EXCEPT ![k] = file]
    BY <1>4, <1>7, <1>8 DEF Same
<1>12. [j \in Jobs |-> [d \in 1..PlaceCount[j] |-> PlaceState(j, d)]]'
        = [j \in Jobs |-> [d \in 1..PlaceCount[j] |-> PlaceState(j, d)]]
    BY <1>8, <1>9 DEF Same
<1>13. [j \in Jobs |-> JobState(j)][k] = "queued" /\ UNCHANGED stored
    BY <1>4, <1>7 DEF JobStaged
<1>14. Contract!Fetch(k)
    BY <1>6, <1>10, <1>11, <1>12, <1>13 DEF Contract!Fetch
<1> QED BY <1>4, <1>14

(* A destination is installed or its installation fails.                   *)
LEMMA PlaceDoneSteps ==
    ASSUME DInv, TakeInv, NEW w \in Workers, PlaceDone(w)
    PROVE  \E j \in Jobs : \E d \in 1..PlaceCount[j] :
              Contract!Install(j, d) \/ Contract!InstallFails(j, d)
<1>1. PICK k, d : k = cur[w] /\ d = Place(w)
    OBVIOUS
<1>2. PICK state \in {"installed", "canceled", "placement_failed"} :
          /\ GoesOnWith(w, [result[w] EXCEPT !.places = Append(@, state)])
          /\ \/ state = "installed" /\ stored' = Put(w)
             \/ state # "installed" /\ stored' \in {stored, Put(w)}
    BY DEF PlaceDone
<1> DEFINE r == [result[w] EXCEPT !.places = Append(@, state)]
           seen == IF state = "installed" THEN "installed" ELSE "failed"
<1>3. /\ k \in Jobs /\ ~Waiting(k) /\ ~Waiting(k)'
      /\ Outcome(k) = result[w] /\ Outcome(k)' = r
      /\ \A j \in Jobs \ {k} : Outcome(j)' = Outcome(j)
      /\ \A j \in Jobs : Waiting(j)' <=> Waiting(j)
    BY <1>1, <1>2, OutcomeOfStep
<1>4. result[w] \in Result /\ d \in 1..PlaceCount[k] /\ PlaceCount[k] \in Nat
    BY <1>1, <1>3, DownloaderAssumption DEF DInv, TypeOK, PlaceDone
<1>5. r.digest = result[w].digest /\ r.failure = result[w].failure
      /\ r.places = Append(result[w].places, state)
    BY <1>4 DEF Result
<1>6. result[w].digest = stage[w] /\ stage[w] # <<>>
    BY DEF TakeInv, Staged, PlaceDone
<1> HIDE DEF r
<1>7. JobState(k) = "staged" /\ JobState(k)' = "staged" /\ Outcome(k)'.digest = Outcome(k).digest
    BY <1>3, <1>5, <1>6 DEF JobState
<1>8. /\ PlaceState(k, d) = "queued" /\ PlaceState(k, d)' = seen
      /\ \A e \in 1..PlaceCount[k] : e # d => PlaceState(k, e)' = PlaceState(k, e)
  <2> DEFINE old == result[w].places
  <2>1. old \in Seq({"installed", "canceled", "placement_failed"})
      BY <1>4 DEF Result
  <2>2. /\ Len(old) \in Nat /\ d = Len(old) + 1
        /\ Len(Append(old, state)) = d /\ Append(old, state)[d] = state
        /\ \A e \in 1..Len(old) : Append(old, state)[e] = old[e]
      BY <1>1, <2>1 DEF Place
  <2>3. Outcome(k).places = old /\ Outcome(k)'.places = Append(old, state)
      BY <1>3, <1>5
  <2> HIDE DEF old
  <2>4. PlaceState(k, d) = "queued"
      BY <2>2, <2>3 DEF PlaceState
  <2>5. PlaceState(k, d)' = seen
      BY <2>2, <2>3 DEF PlaceState
  <2>6. ASSUME NEW e \in 1..PlaceCount[k], e # d PROVE PlaceState(k, e)' = PlaceState(k, e)
    <3>1. CASE e \in 1..Len(old)
        BY <2>2, <2>3, <3>1 DEF PlaceState
    <3>2. CASE e > d
        BY <1>4, <2>2, <2>3, <3>2 DEF PlaceState
    <3> QED BY <1>4, <2>2, <2>6, <3>1, <3>2
  <2> QED BY <2>4, <2>5, <2>6
<1>9. \A j \in Jobs \ {k} : Same(j)
    BY <1>3, SameOutcome
<1>10. [j \in Jobs |-> JobState(j)]' = [j \in Jobs |-> JobState(j)]
    BY <1>7, <1>9 DEF Same
<1>11. [j \in Jobs |-> Outcome(j).digest]' = [j \in Jobs |-> Outcome(j).digest]
    BY <1>7, <1>9 DEF Same
<1> DEFINE dest == [j \in Jobs |-> [e \in 1..PlaceCount[j] |-> PlaceState(j, e)]]
<1>12. dest' = [dest EXCEPT ![k][d] = seen]
    BY <1>3, <1>4, <1>8, <1>9 DEF Same
<1>13. dest[k][d] = "queued" /\ [j \in Jobs |-> JobState(j)][k] = "staged"
    BY <1>3, <1>4, <1>7, <1>8
<1>14. Put(w) = [stored EXCEPT ![k][d] = [j \in Jobs |-> Outcome(j).digest][k]]
    BY <1>1, <1>3, <1>6 DEF Put
<1>15. CASE state = "installed"
  <2>1. Contract!Install(k, d)
      BY <1>2, <1>10, <1>11, <1>12, <1>13, <1>14, <1>15 DEF Contract!Install
  <2> QED BY <1>3, <1>4, <2>1
<1>16. CASE state # "installed"
  <2>1. Contract!InstallFails(k, d)
      BY <1>2, <1>10, <1>11, <1>12, <1>13, <1>14, <1>16 DEF Contract!InstallFails
  <2> QED BY <1>3, <1>4, <2>1
<1> QED BY <1>15, <1>16

(* A job is handed out: it was waiting and is still queued.                *)
LEMMA DispatchSteps ==
    ASSUME DInv, TakeInv, NEW w \in Workers, Dispatch(w)
    PROVE  UNCHANGED Contract!vars
<1>1. PICK k : k = sent + 1
    OBVIOUS
<1>2. /\ sent \in Nat /\ k \in Jobs /\ k > sent /\ dpc = "sending" /\ dpc' = "sending"
      /\ sent' = k /\ wpc'[w] = "starting" /\ cur'[w] = k /\ wpc[w] = "idle"
      /\ \A v \in Workers \ {w} : wpc'[v] = wpc[v] /\ cur'[v] = cur[v]
      /\ UNCHANGED <<result, results, stored>>
    BY <1>1, DownloaderAssumption DEF Dispatch, DInv, TypeOK, fetching, Jobs
<1>3. \A v \in Workers : wpc[v] # "idle" => cur[v] \in 1..sent
    BY DEF DInv, WorkerOK
<1>4. JobsApart /\ JobsApart'
    BY TakeDispatch DEF TakeInv
<1>5. Same(k)
  <2>1. Outcome(k) = FailedResult("canceled")
    <3>1. \A v \in Workers : wpc[v] # "idle" => cur[v] # k
        BY <1>2, <1>3
    <3> QED BY <1>2, <3>1, OutcomeFree DEF TakeInv, ResultsMatch
  <2>2. Outcome(k)' = InitialResult
    <3>1. result'[w] = InitialResult
        BY <1>2 DEF DInv, WorkerOK
    <3> QED BY <1>2, <1>4, <3>1, OutcomeTakenNext
  <2>3. JobState(k) = "queued"
      BY <1>2, <2>1 DEF JobState, Waiting, FailedResult
  <2>4. JobState(k)' = "queued"
      BY <2>2 DEF JobState, InitialResult
  <2> QED BY <1>2, <2>1, <2>2, <2>3, <2>4, SameUnplaced DEF FailedResult, InitialResult
<1>6. ASSUME NEW j \in Jobs \ {k} PROVE Same(j)
  <2>1. Outcome(j)' = Outcome(j)
    <3>1. CASE \E v \in Workers : wpc[v] # "idle" /\ cur[v] = j
      <4>1. PICK v \in Workers : wpc[v] # "idle" /\ cur[v] = j
          BY <3>1
      <4>2. wpc'[v] # "idle" /\ cur'[v] = j /\ result'[v] = result[v]
          BY <1>2, <4>1
      <4> QED BY <1>4, <4>1, <4>2, OutcomeTaken, OutcomeTakenNext
    <3>2. CASE \A v \in Workers : wpc[v] # "idle" => cur[v] # j
      <4>1. \A v \in Workers : wpc'[v] # "idle" => cur'[v] # j
          BY <1>2, <1>6, <3>2
      <4> QED BY <1>2, <3>2, <4>1, OutcomeFree, OutcomeFreeNext
    <3> QED BY <3>1, <3>2
  <2>2. Waiting(j)' <=> Waiting(j)
      BY <1>1, <1>2, <1>6 DEF Waiting, Jobs
  <2> QED BY <2>1, <2>2, SameOutcome
<1> QED BY <1>2, <1>5, <1>6, Stutter

(* The result is stored as the worker has it.                              *)
LEMMA DoneSteps ==
    ASSUME DInv, TakeInv, NEW w \in Workers, Done(w)
    PROVE  UNCHANGED Contract!vars
<1>1. PICK k : k = cur[w]
    OBVIOUS
<1>2. /\ wpc[w] # "idle" /\ wpc'[w] = "reporting"
      /\ \A v \in Workers \ {w} : wpc'[v] = wpc[v]
      /\ results' = [results EXCEPT ![k] = result[w]]
      /\ UNCHANGED <<dpc, sent, cur, result, stored>>
    BY <1>1 DEF Done, Ready, DInv, TypeOK, dispatch, fetching
<1>3. JobsApart /\ JobsApart'
    BY TakeDone DEF TakeInv
<1>4. ASSUME NEW j \in Jobs PROVE Outcome(j)' = Outcome(j)
  <2>1. CASE \E v \in Workers : wpc[v] # "idle" /\ cur[v] = j
    <3>1. PICK v \in Workers : wpc[v] # "idle" /\ cur[v] = j
        BY <2>1
    <3>2. wpc'[v] # "idle" /\ cur'[v] = j /\ result'[v] = result[v]
        BY <1>2, <3>1
    <3> QED BY <1>3, <3>1, <3>2, OutcomeTaken, OutcomeTakenNext
  <2>2. CASE \A v \in Workers : wpc[v] # "idle" => cur[v] # j
    <3>1. \A v \in Workers : wpc'[v] # "idle" => cur'[v] # j
        BY <1>2, <2>2
    <3>2. results'[j] = results[j]
        BY <1>1, <1>2, <2>2 DEF DInv, TypeOK
    <3> QED BY <2>2, <3>1, <3>2, OutcomeFree, OutcomeFreeNext
  <2> QED BY <2>1, <2>2
<1>5. \A j \in Jobs : Waiting(j)' <=> Waiting(j)
    BY <1>2 DEF Waiting
<1> QED BY <1>2, <1>4, <1>5, SameOutcome, Stutter

(* The worker gives its job up when its result has been stored.            *)
LEMMA ReportSteps ==
    ASSUME DInv, TakeInv, NEW w \in Workers, Report(w)
    PROVE  UNCHANGED Contract!vars
<1>1. PICK k : k = cur[w]
    OBVIOUS
<1>2. /\ wpc[w] = "reporting" /\ wpc'[w] = "idle"
      /\ \A v \in Workers \ {w} :
            wpc'[v] = wpc[v] /\ cur'[v] = cur[v] /\ result'[v] = result[v]
      /\ UNCHANGED <<dpc, sent, results, stored>>
    BY DEF Report, DInv, TypeOK, dispatch
<1>3. JobsApart /\ JobsApart'
    BY TakeReport DEF TakeInv
<1>4. ASSUME NEW j \in Jobs PROVE Outcome(j)' = Outcome(j)
  <2>1. CASE \E v \in Workers \ {w} : wpc[v] # "idle" /\ cur[v] = j
    <3>1. PICK v \in Workers \ {w} : wpc[v] # "idle" /\ cur[v] = j
        BY <2>1
    <3>2. wpc'[v] # "idle" /\ cur'[v] = j /\ result'[v] = result[v]
        BY <1>2, <3>1
    <3> QED BY <1>3, <3>1, <3>2, OutcomeTaken, OutcomeTakenNext
  <2>2. CASE \A v \in Workers \ {w} : wpc[v] # "idle" => cur[v] # j
    <3>1. \A v \in Workers : wpc'[v] # "idle" => cur'[v] # j
        BY <1>2, <2>2
    <3>2. Outcome(j)' = results[j]
        BY <1>2, <3>1, OutcomeFreeNext
    <3>3. CASE j = k
      <4>1. Outcome(j) = result[w] /\ results[j] = result[w]
          BY <1>1, <1>2, <1>3, <3>3, OutcomeTaken DEF TakeInv, ResultsMatch
      <4> QED BY <3>2, <4>1
    <3>4. CASE j # k
        BY <1>1, <2>2, <3>2, <3>4, OutcomeFree
    <3> QED BY <3>3, <3>4
  <2> QED BY <2>1, <2>2
<1>5. \A j \in Jobs : Waiting(j)' <=> Waiting(j)
    BY <1>2 DEF Waiting
<1> QED BY <1>2, <1>4, <1>5, SameOutcome, Stutter

(* A step that changes neither jobs nor workers.                           *)
LEMMA OutcomesStay ==
    ASSUME UNCHANGED <<wpc, cur, result, results>>
    PROVE  \A j \in Jobs : Outcome(j)' = Outcome(j)
BY DEF Outcome, Taking

(* The jobs that no worker took fail with the call.                        *)
LEMMA CallEnds ==
    ASSUME DInv, TakeInv, dpc \in {"starting", "sending"}, dpc' \in {"closed", "returned"},
           UNCHANGED <<sent, wpc, cur, result, results, stored>>
    PROVE  \E failing \in SUBSET Jobs : Contract!FetchesFail(failing)
<1> DEFINE failing == {j \in Jobs : j > sent}
<1>1. sent \in Nat /\ \A v \in Workers : wpc[v] # "idle" => cur[v] \in 1..sent
    BY DownloaderAssumption DEF DInv, WorkerOK, TypeOK
<1>2. \A j \in Jobs : Outcome(j)' = Outcome(j)
    BY OutcomesStay
<1>3. ASSUME NEW j \in failing
      PROVE  /\ JobState(j) = "queued" /\ JobState(j)' = "failed"
             /\ Outcome(j).digest = <<>> /\ Outcome(j)'.digest = <<>>
             /\ Outcome(j).places = <<>> /\ Outcome(j)'.places = <<>>
  <2>1. \A v \in Workers : wpc[v] # "idle" => cur[v] # j
      BY <1>1
  <2>2. Outcome(j) = FailedResult("canceled")
      BY <2>1, OutcomeFree DEF TakeInv, ResultsMatch
  <2>3. Waiting(j) /\ ~Waiting(j)'
      BY DEF Waiting
  <2> QED BY <1>2, <2>2, <2>3 DEF JobState, FailedResult
<1>4. ASSUME NEW j \in Jobs \ failing PROVE Same(j)
  <2>1. ~Waiting(j) /\ ~Waiting(j)'
      BY DEF Waiting
  <2> QED BY <1>2, <2>1, SameOutcome
<1>5. failing \in SUBSET Jobs
    OBVIOUS
<1> HIDE DEF failing
<1>6. Contract!FetchesFail(failing)
    BY <1>3, <1>4, <1>5, JobsFailing
<1> QED BY <1>5, <1>6

(* A step of the dispatcher.                                               *)
LEMMA DispatcherSteps ==
    ASSUME DInv, TakeInv, Begin \/ Close \/ Return \/ Cancel \/ UNCHANGED vars
    PROVE  \/ \E failing \in SUBSET Jobs : Contract!FetchesFail(failing)
           \/ UNCHANGED Contract!vars
<1>1. /\ UNCHANGED <<sent, wpc, cur, result, results, stored>>
      /\ \/ dpc \in {"starting", "sending"} /\ dpc' \in {"closed", "returned"}
         \/ dpc \in {"starting", "sending"} /\ dpc' \in {"starting", "sending"}
         \/ dpc \notin {"starting", "sending"} /\ dpc' \notin {"starting", "sending"}
    BY DEF Begin, Close, Return, Cancel, vars, fetching, dispatch
<1>2. CASE dpc \in {"starting", "sending"} /\ dpc' \in {"closed", "returned"}
    BY <1>1, <1>2, CallEnds
<1>3. CASE \/ dpc \in {"starting", "sending"} /\ dpc' \in {"starting", "sending"}
           \/ dpc \notin {"starting", "sending"} /\ dpc' \notin {"starting", "sending"}
  <2>1. \A j \in Jobs : Outcome(j)' = Outcome(j)
      BY <1>1, OutcomesStay
  <2>2. \A j \in Jobs : Waiting(j)' <=> Waiting(j)
      BY <1>1, <1>3 DEF Waiting
  <2> QED BY <1>1, <2>1, <2>2, SameOutcome, Stutter
<1> QED BY <1>1, <1>2, <1>3

(* Every step is one of the contract or a stutter.                         *)
LEMMA ContractStep ==
    ASSUME DInv, TakeInv, [Next]_vars
    PROVE  [Contract!Next]_(Contract!vars)
<1>1. CASE \E w \in Workers : JobStep(w)
  <2>1. PICK w \in Workers : JobStep(w)
      BY <1>1
  <2>2. CASE Continues(w)
      BY <2>2, ContinuesSteps
  <2>3. CASE JobFails(w)
      BY <2>3, JobFailsSteps DEF Contract!Next
  <2>4. CASE JobStaged(w)
      BY <2>4, JobStagedSteps DEF Contract!Next
  <2>5. CASE PlaceDone(w)
    <3>1. PICK j \in Jobs : \E d \in 1..PlaceCount[j] :
              Contract!Install(j, d) \/ Contract!InstallFails(j, d)
        BY <2>5, PlaceDoneSteps
    <3>2. [i \in Jobs |-> 1..PlaceCount[i]][j] = 1..PlaceCount[j]
        OBVIOUS
    <3> QED BY <3>1, <3>2 DEF Contract!Next
  <2> QED BY <2>1, <2>2, <2>3, <2>4, <2>5 DEF JobStep
<1>2. CASE \E w \in Workers : Dispatch(w) \/ Done(w) \/ Report(w)
    BY <1>2, DispatchSteps, DoneSteps, ReportSteps
<1>3. CASE Begin \/ Close \/ Return \/ Cancel \/ UNCHANGED vars
    BY <1>3, DispatcherSteps DEF Contract!Next
<1> QED BY <1>1, <1>2, <1>3, StepKinds

(* All jobs are queued at first.                                           *)
LEMMA ContractInit == Init => Contract!Init
<1> SUFFICES ASSUME Init PROVE Contract!Init
    OBVIOUS
<1>1. ASSUME NEW j \in Jobs
      PROVE  Outcome(j) = FailedResult("canceled") /\ Waiting(j)
  <2>1. results[j] = FailedResult("canceled")
      BY DEF Init, FailedResult, InitialResult
  <2>2. \A w \in Workers : wpc[w] = "idle"
      BY DEF Init
  <2>3. sent = 0 /\ dpc = "starting" /\ j > 0
      BY DEF Init, Jobs
  <2> QED BY <2>1, <2>2, <2>3, OutcomeFree DEF Waiting
<1>2. \A j \in Jobs : JobState(j) = "queued" /\ Outcome(j).digest = <<>>
    BY <1>1 DEF JobState, FailedResult
<1>3. \A j \in Jobs : \A d \in 1..PlaceCount[j] : PlaceState(j, d) = "queued"
    BY <1>1, NoPlaces DEF FailedResult
<1>4. \A j \in Jobs : [i \in Jobs |-> 1..PlaceCount[i]][j] = 1..PlaceCount[j]
    OBVIOUS
<1>5. stored = [j \in Jobs |-> [d \in 1..PlaceCount[j] |-> <<>>]]
    BY DEF Init
<1> QED BY <1>2, <1>3, <1>4, <1>5 DEF Contract!Init

(* The pool does what the executor relies on, for any number of jobs,      *)
(* workers, variants, destinations and attempts: each job is fetched at    *)
(* most once, and what is put at its destinations is what its checksum was *)
(* computed of, or the destination is reported as failed.                  *)
THEOREM DownloadsKeepContract == Spec => ImplementsContract
<1>1. Init => DInv /\ TakeInv
    BY DInvInit, TakeInit
<1>2. DInv /\ TakeInv /\ [Next]_vars => DInv' /\ TakeInv'
    BY DInvNext, TakeNext
<1>3. DInv /\ TakeInv /\ [Next]_vars => [Contract!Next]_(Contract!vars)
    BY ContractStep
<1> QED BY <1>1, <1>2, <1>3, ContractInit, PTL DEF Spec, ImplementsContract, Contract!Spec

-----------------------------------------------------------------------------
(* The counts of the progress.                                             *)

(* The jobs whose result is stored.                                        *)
Finished == {j \in 1..sent : \A w \in Workers : wpc[w] \in Working => cur[w] # j}

FailedJobs == {j \in Finished : Failed(results[j])}

(* Failed jobs that are about to be reported.                              *)
Unannounced ==
    {cur[w] : w \in {v \in Workers : wpc[v] = "reporting" /\ Failed(result[v])}}

Latest == [done |-> progress.done, failed |-> progress.failed]

(* The counts of the last job that was counted are reported, are about to  *)
(* be, or finish will see that they were not.                              *)
CountInv ==
    /\ progress.done = Cardinality(Finished)
    /\ progress.failed = Cardinality(FailedJobs)
    /\ FailedJobs = announced \cup Unannounced
    /\ progress.reported <= progress.done
    /\ progress.reported = progress.done /\ progress.done # 0 =>
          \/ Latest \in counts
          \/ \E w \in Workers : wpc[w] = "reporting" /\ note[w] = Latest
    /\ dpc = "returned" /\ sent # 0 => Latest \in counts

(* Nothing is counted at first.                                            *)
LEMMA CountInit == Init => CountInv
<1> SUFFICES ASSUME Init PROVE CountInv
    OBVIOUS
<1>1. sent = 0 /\ announced = {} /\ progress = [done |-> 0, failed |-> 0, reported |-> 0]
      /\ \A w \in Workers : wpc[w] = "idle"
    BY DEF Init
<1>2. Finished = {}
    BY <1>1 DEF Finished
<1>3. FailedJobs = {} /\ Unannounced = {}
    BY <1>1, <1>2 DEF FailedJobs, Unannounced
<1> QED BY <1>1, <1>2, <1>3, FS_EmptySet DEF CountInv

(* There are no more finished jobs than jobs.                              *)
LEMMA FinishedFinite ==
    ASSUME DInv
    PROVE  /\ IsFiniteSet(Finished) /\ IsFiniteSet(FailedJobs)
           /\ Finished \subseteq Jobs /\ sent \in Nat
<1>1. sent \in 0..JobCount /\ JobCount \in Nat
    BY DownloaderAssumption DEF DInv, TypeOK
<1>2. IsFiniteSet(1..sent) /\ Finished \subseteq 1..sent /\ FailedJobs \subseteq Finished
    BY <1>1, FS_Interval DEF Finished, FailedJobs
<1>3. Finished \subseteq Jobs
    BY <1>1, <1>2 DEF Jobs
<1>4. IsFiniteSet(Finished)
    BY <1>2, FS_Subset
<1>5. IsFiniteSet(FailedJobs)
    BY <1>2, <1>4, FS_Subset
<1> QED BY <1>1, <1>3, <1>4, <1>5

(* A worker that gets on with its job counts nothing.                      *)
LEMMA CountJobStep ==
    ASSUME DInv, TakeInv, CountInv, NEW w \in Workers, JobStep(w)
    PROVE  CountInv'
<1>1. PICK r : GoesOnWith(w, r)
    BY DEF JobStep, Continues, JobFails, JobStaged, PlaceDone
<1>2. /\ wpc[w] \in Working /\ wpc'[w] \in Working
      /\ \A v \in Workers \ {w} : wpc'[v] = wpc[v] /\ result'[v] = result[v]
      /\ UNCHANGED <<dpc, sent, cur, results, progress, note, counts, announced>>
    BY <1>1 DEF GoesOnWith
<1>3. Finished' = Finished
  <2>1. \A v \in Workers : (wpc'[v] \in Working) <=> (wpc[v] \in Working)
      BY <1>2
  <2>2. \A v \in Workers : cur'[v] = cur[v]
      BY <1>2
  <2>3. 1..sent' = 1..sent
      BY <1>2
  <2> QED BY <2>1, <2>2, <2>3 DEF Finished
<1>4. FailedJobs' = FailedJobs
    BY <1>2, <1>3 DEF FailedJobs
<1>5. \A v \in Workers : /\ wpc'[v] = "reporting" <=> wpc[v] = "reporting"
                         /\ wpc[v] = "reporting" => result'[v] = result[v]
    BY <1>2, NotWorking
<1>6. Unannounced' = Unannounced
    BY <1>2, <1>5 DEF Unannounced
<1> QED BY <1>2, <1>3, <1>4, <1>5, <1>6 DEF CountInv, Latest

(* A job that is sent is not finished.                                     *)
LEMMA CountDispatch ==
    ASSUME DInv, TakeInv, CountInv, NEW w \in Workers, Dispatch(w)
    PROVE  CountInv'
<1>1. /\ wpc[w] = "idle" /\ wpc'[w] = "starting" /\ sent \in Nat /\ sent' = sent + 1
      /\ cur'[w] = sent + 1 /\ dpc' = "sending"
      /\ \A v \in Workers \ {w} : wpc'[v] = wpc[v] /\ cur'[v] = cur[v]
      /\ UNCHANGED <<result, results, progress, note, counts, announced>>
    BY DownloaderAssumption DEF Dispatch, DInv, TypeOK, fetching, counting
<1>2. "starting" \in Working /\ "idle" \notin Working
    BY NotWorking DEF Working
<1>3. Finished' = Finished
  <2>1. \A j \in 1..(sent + 1) : j \in 1..sent \/ j = sent + 1
      BY <1>1
  <2>2. \A j \in 1..sent : j \in 1..(sent + 1) /\ j # sent + 1
      BY <1>1
  <2> QED BY <1>1, <1>2, <2>1, <2>2 DEF Finished
<1>4. FailedJobs' = FailedJobs
    BY <1>1, <1>3 DEF FailedJobs
<1>5. Unannounced' = Unannounced
    BY <1>1 DEF Unannounced
<1> QED BY <1>1, <1>3, <1>4, <1>5 DEF CountInv, Latest

(* The job is counted, and its counts are noted when they are the latest.  *)
LEMMA CountDone ==
    ASSUME DInv, TakeInv, CountInv, NEW w \in Workers, Done(w)
    PROVE  CountInv'
<1>1. PICK k : k = cur[w]
    OBVIOUS
<1>2. /\ wpc[w] \in Ending /\ wpc'[w] = "reporting"
      /\ \A v \in Workers \ {w} : wpc'[v] = wpc[v]
      /\ results' = [results EXCEPT ![k] = result[w]]
      /\ UNCHANGED <<dpc, sent, cur, result, counts, announced>>
    BY <1>1 DEF Done, Ready, Ending, DInv, TypeOK, dispatch, fetching
<1>3. k \in 1..sent /\ k \in Jobs /\ "idle" \notin Ending /\ "reporting" \notin Ending
    BY <1>1, <1>2, DownloaderAssumption DEF DInv, WorkerOK, TypeOK, Jobs, Ending
<1>4. \A v \in Workers \ {w} : wpc[v] # "idle" => cur[v] # k
    BY <1>1, <1>2, <1>3 DEF TakeInv, JobsApart
<1>5. wpc[w] \in Working
    BY <1>2 DEF Working
<1>6. results'[k] = result[w] /\ \A j \in Jobs \ {k} : results'[j] = results[j]
    BY <1>2, <1>3 DEF DInv, TypeOK
<1>7. k \notin Finished /\ Finished' = Finished \cup {k}
    BY <1>1, <1>2, <1>3, <1>4, <1>5, NotWorking DEF Finished
<1>8. /\ IsFiniteSet(Finished) /\ IsFiniteSet(FailedJobs)
      /\ Finished \subseteq Jobs /\ FailedJobs \subseteq Finished
    BY FinishedFinite DEF FailedJobs
<1>9. Cardinality(Finished)' = Cardinality(Finished) + 1
    BY <1>7, <1>8, FS_AddElement
<1>10. FailedJobs' = IF Failed(result[w]) THEN FailedJobs \cup {k} ELSE FailedJobs
    BY <1>6, <1>7, <1>8 DEF FailedJobs
<1>11. Cardinality(FailedJobs)'
         = IF Failed(result[w]) THEN Cardinality(FailedJobs) + 1 ELSE Cardinality(FailedJobs)
  <2>1. k \notin FailedJobs
      BY <1>7, <1>8
  <2> QED BY <1>8, <1>10, <2>1, FS_AddElement
<1>12. Unannounced' = IF Failed(result[w]) THEN Unannounced \cup {k} ELSE Unannounced
    BY <1>1, <1>2, <1>3 DEF Unannounced
<1>13. FailedJobs' = announced' \cup Unannounced'
    BY <1>2, <1>10, <1>12 DEF CountInv
<1>14. progress \in [done : Nat, failed : Nat, reported : Nat] /\ note \in [Workers -> Count]
    BY DEF DInv, TypeOK
<1> DEFINE c == Counted(w)
<1>15. /\ c.done = progress.done + 1 /\ c.reported = progress.reported
       /\ c.failed = IF Failed(result[w]) THEN progress.failed + 1 ELSE progress.failed
       /\ c \in [done : Nat, failed : Nat, reported : Nat]
  <2> DEFINE f == IF Failed(result[w]) THEN progress.failed + 1 ELSE progress.failed
             mid == [progress EXCEPT !.done = progress.done + 1]
  <2>1. f \in Nat
      BY <1>14
  <2>2. /\ mid \in [done : Nat, failed : Nat, reported : Nat]
        /\ mid.done = progress.done + 1 /\ mid.reported = progress.reported
      BY <1>14
  <2>3. c = [mid EXCEPT !.failed = f]
      BY DEF Counted
  <2> HIDE DEF f, mid, c
  <2>4. /\ c.done = progress.done + 1 /\ c.reported = progress.reported /\ c.failed = f
        /\ c \in [done : Nat, failed : Nat, reported : Nat]
      BY <2>1, <2>2, <2>3
  <2> QED BY <2>4 DEF f
<1>16. \/ progress' = c /\ note' = [note EXCEPT ![w] = NoCount]
       \/ /\ progress' = [c EXCEPT !.reported = progress.done + 1]
          /\ note' = [note EXCEPT ![w] = [done |-> c.done, failed |-> c.failed]]
    BY DEF Done
<1> HIDE DEF c
<1>17. /\ progress'.done = progress.done + 1 /\ progress'.failed = c.failed
       /\ \/ progress'.reported = progress.reported
          \/ progress'.reported = progress.done + 1 /\ note'[w] = Latest'
    BY <1>14, <1>15, <1>16 DEF Latest
<1>18. progress.done \in Nat /\ progress.reported \in Nat /\ progress.reported <= progress.done
    BY <1>14 DEF CountInv
<1>19. progress'.done = Cardinality(Finished)' /\ progress'.failed = Cardinality(FailedJobs)'
    BY <1>9, <1>11, <1>15, <1>17 DEF CountInv
<1>20. /\ progress'.reported <= progress'.done
       /\ progress'.reported = progress'.done => wpc'[w] = "reporting" /\ note'[w] = Latest'
    BY <1>2, <1>17, <1>18
<1>21. dpc' # "returned"
    BY <1>2, <1>3 DEF DInv, DispatchOK
<1> QED BY <1>13, <1>19, <1>20, <1>21 DEF CountInv

(* The noted counts are reported.                                          *)
LEMMA CountReport ==
    ASSUME DInv, TakeInv, CountInv, NEW w \in Workers, Report(w)
    PROVE  CountInv'
<1>1. /\ wpc[w] = "reporting" /\ wpc'[w] = "idle"
      /\ \A v \in Workers \ {w} : wpc'[v] = wpc[v] /\ cur'[v] = cur[v]
                                  /\ result'[v] = result[v] /\ note'[v] = note[v]
      /\ announced' = IF Failed(result[w]) THEN announced \cup {cur[w]} ELSE announced
      /\ counts' = IF note[w] = NoCount THEN counts ELSE counts \cup {note[w]}
      /\ UNCHANGED <<dpc, sent, results, progress>>
    BY DEF Report, DInv, TypeOK, dispatch
<1>2. Finished' = Finished
    BY <1>1, NotWorking DEF Finished
<1>3. FailedJobs' = FailedJobs
    BY <1>1, <1>2 DEF FailedJobs
<1>4. announced \cup Unannounced = announced' \cup Unannounced'
    BY <1>1 DEF Unannounced
<1>5. Latest' = Latest
    BY <1>1 DEF Latest
<1>6. progress.done # 0 => Latest # NoCount
    BY DEF Latest, NoCount
<1>7. progress.done # 0 /\ note[w] = Latest => Latest \in counts'
    BY <1>1, <1>6
<1>8. dpc # "returned"
    BY <1>1 DEF DInv, DispatchOK
<1>9. counts \subseteq counts'
    BY <1>1
<1>10. progress'.reported = progress'.done /\ progress'.done # 0 =>
          \/ Latest' \in counts'
          \/ \E v \in Workers : wpc'[v] = "reporting" /\ note'[v] = Latest'
  <2> SUFFICES ASSUME progress.reported = progress.done, progress.done # 0,
                      Latest \notin counts'
               PROVE  \E v \in Workers : wpc'[v] = "reporting" /\ note'[v] = Latest
      BY <1>1, <1>5
  <2>1. PICK v \in Workers : wpc[v] = "reporting" /\ note[v] = Latest
      BY <1>9 DEF CountInv
  <2>2. v # w
      BY <1>7, <2>1
  <2> QED BY <1>1, <2>1, <2>2
<1> QED BY <1>1, <1>2, <1>3, <1>4, <1>8, <1>10 DEF CountInv

(* When every worker is idle every job that was handed out is finished.    *)
LEMMA AllFinished ==
    ASSUME DInv, CountInv, \A w \in Workers : wpc[w] = "idle"
    PROVE  /\ Finished = 1..sent /\ progress.done = sent
           /\ FailedJobs = announced
<1>1. Finished = 1..sent
    BY NotWorking DEF Finished
<1>2. Cardinality(1..sent) = sent
    BY FinishedFinite, FS_Interval
<1>3. Unannounced = {}
    BY DEF Unannounced
<1> QED BY <1>1, <1>2, <1>3 DEF CountInv

(* finish reports the counts that nobody did.                              *)
LEMMA CountDispatcher ==
    ASSUME DInv, TakeInv, CountInv, Begin \/ Close \/ Return \/ Cancel \/ UNCHANGED vars
    PROVE  CountInv'
<1>1. UNCHANGED <<sent, wpc, cur, result, results, progress, note, announced>>
    BY DEF Begin, Close, Return, Cancel, vars, fetching, dispatch, counting
<1>2. Finished' = Finished
    BY <1>1 DEF Finished
<1>3. FailedJobs' = FailedJobs /\ Unannounced' = Unannounced /\ Latest' = Latest
    BY <1>1, <1>2 DEF FailedJobs, Unannounced, Latest
<1>4. counts \subseteq counts'
    BY DEF Begin, Close, Return, Cancel, vars, fetching, dispatch, counting
<1>5. dpc' = "returned" /\ sent # 0 => Latest \in counts'
  <2>1. CASE Return
    <3>1. \A w \in Workers : wpc[w] = "idle"
        BY <2>1 DEF Return
    <3>2. progress.done = sent
        BY <3>1, AllFinished
    <3>3. CASE progress.done = progress.reported
        BY <1>4, <3>1, <3>2, <3>3 DEF CountInv
    <3>4. CASE progress.done # progress.reported
        BY <2>1, <3>4 DEF Return, FinalCounts, Latest
    <3> QED BY <3>3, <3>4
  <2>2. CASE Begin \/ Close \/ Cancel \/ UNCHANGED vars
    <3>1. dpc' = "returned" => dpc = "returned" \/ sent = 0
        BY <2>2 DEF Begin, Close, Cancel, vars, dispatch, DInv, DispatchOK
    <3> QED BY <1>4, <3>1 DEF CountInv
  <2> QED BY <2>1, <2>2
<1> QED BY <1>1, <1>2, <1>3, <1>4, <1>5 DEF CountInv

(* CountInv is inductive, given what is already known of each step.        *)
LEMMA CountNext ==
    ASSUME DInv, TakeInv, CountInv, [Next]_vars
    PROVE  CountInv'
BY StepKinds, CountJobStep, CountDispatch, CountDone, CountReport, CountDispatcher

(* What is known of the reports of a call.                                 *)
LEMMA CountsKept == Spec => [](DInv /\ CountInv)
<1>1. Init => DInv /\ TakeInv /\ CountInv
    BY DInvInit, TakeInit, CountInit
<1>2. DInv /\ TakeInv /\ CountInv /\ [Next]_vars => DInv' /\ TakeInv' /\ CountInv'
    BY DInvNext, TakeNext, CountNext
<1> QED BY <1>1, <1>2, PTL DEF Spec

(* When the call returns, the failures and the final counts have been      *)
(* reported, for any number of workers that report at any moment.          *)
THEOREM FinalCountsReported == Spec => []FinalCountReported
<1>1. DInv /\ CountInv => FinalCountReported
  <2> SUFFICES ASSUME DInv, CountInv, dpc = "returned"
               PROVE  LET failed == {j \in 1..sent : Failed(results[j])}
                      IN  /\ failed = announced
                          /\ sent # 0 => [done |-> sent, failed |-> Cardinality(failed)] \in counts
      BY DEF FinalCountReported
  <2>1. Finished = 1..sent /\ progress.done = sent /\ FailedJobs = announced
      BY AllFinished DEF DInv, DispatchOK
  <2>2. {j \in 1..sent : Failed(results[j])} = FailedJobs
      BY <2>1 DEF FailedJobs
  <2> QED BY <2>1, <2>2 DEF CountInv, Latest
<1> QED BY <1>1, CountsKept, PTL

(* However many jobs and workers: without an interrupt, the call returns   *)
(* only when every job has failed and been reported, or was fetched and    *)
(* tried at every destination.                                             *)
THEOREM EveryJobIsSettled == Spec => []NoJobSkipped
<1>1. ASSUME DInv, CountInv, dpc = "returned", ~canceled, NEW j \in Jobs
      PROVE  /\ Settled(j, results[j])
             /\ results[j].failure # "none" => j \in announced
  <2>1. sent = JobCount /\ \A w \in Workers : wpc[w] = "idle"
      BY <1>1 DEF DInv, DispatchOK
  <2>2. Settled(j, results[j])
      BY <1>1, <2>1, NotWorking DEF DInv, JobsOK, Jobs
  <2>3. j \in Finished /\ FailedJobs = announced
      BY <1>1, <2>1, AllFinished DEF Jobs
  <2> QED BY <2>2, <2>3 DEF FailedJobs, Failed
<1>2. DInv /\ CountInv => NoJobSkipped
    BY <1>1 DEF NoJobSkipped, Settled, NotCanceled
<1> QED BY <1>2, CountsKept, PTL

=============================================================================
