----------------------------- MODULE S3LockProofs ----------------------------
(***************************************************************************)
(* For any number of runs, requests that fail and kills: runs on a bucket  *)
(* that were not started at the same time and end in time are kept apart.  *)
(***************************************************************************)
EXTENDS S3Lock, TLAPS

(* The steps of Lock after which the object may be replaced or removed.    *)
Committed == Removing \cup {"put"}

(* As long as runs are not started together, one is inside Lock at a time. *)
OneLocks ==
    ~overlapped =>
        \A c, d \in Client : spc[c] \in Locking /\ spc[d] \in Locking => c = d

HeldByHolders == \A c \in Client : c \notin Holders => held[c] = 0

(* The object of a run that holds the lock is as old as the run has held   *)
(* it, too young for anyone to take it over; so no other run gets past its *)
(* look at the object.                                                     *)
HolderIsSafe ==
    ~overlapped /\ ~outstayed =>
        \A c \in Holders :
            /\ object = [by |-> c, age |-> held[c]]
            /\ held[c] + MaxAhead <= StaleAfter
            /\ \A d \in Client : spc[d] \notin Committed

S3Inv == S3TypeOK /\ OneLocks /\ HeldByHolders /\ HolderIsSafe

LEMMA S3InvInit == S3Init => S3Inv
<1> SUFFICES ASSUME S3Init PROVE S3Inv
    OBVIOUS
<1>1. S3TypeOK
  <2>1. 0 \in Ages /\ 0 \in 0..MaxFaults
      BY S3LockAssumption DEF Ages
  <2>2. spc \in [Client -> LockSteps] /\ held \in [Client -> Ages]
      BY <2>1 DEF S3Init, LockSteps
  <2> QED BY <2>1, <2>2 DEF S3Init, S3TypeOK
<1>2. OneLocks /\ HeldByHolders /\ HolderIsSafe
    BY DEF S3Init, OneLocks, HeldByHolders, HolderIsSafe, Holders, Locking, Looking, Removing
<1> QED BY <1>1, <1>2 DEF S3Inv

(* A step by which a run neither puts an object nor removes one.           *)
LEMMA LookKeeps ==
    ASSUME S3Inv, NEW c \in Client, Lock(c) \/ StatFree(c) \/ StatLocked(c)
    PROVE  S3Inv'
<1> USE DEF S3Inv
<1>t. /\ spc \in [Client -> LockSteps]
      /\ object \in [by : Client, age : Ages] \cup {NoObject}
      /\ ahead \in [Client -> 0..MaxAhead]
      /\ held \in [Client -> Ages]
    BY DEF S3TypeOK
<1>1. PICK step \in LockSteps : spc' = [spc EXCEPT ![c] = step] /\ step # "held"
    BY DEF Lock, StatFree, StatLocked, Continue, LockSteps, Locking, Looking, Removing
<1>2. spc[c] # "held"
    BY DEF Lock, StatFree, StatLocked, Looking
<1>3. UNCHANGED <<object, ahead, held, outstayed, faults>> /\ overlapped' \in BOOLEAN
    BY DEF Lock, StatFree, StatLocked, S3TypeOK
<1>4. S3TypeOK'
    BY <1>1, <1>3 DEF S3TypeOK
<1>5. Holders' = Holders
    BY <1>t, <1>1, <1>2 DEF Holders
<1>6. OneLocks'
  <2> SUFFICES ASSUME ~overlapped', NEW d \in Client, d # c, spc[d] \in Locking,
                      spc'[c] \in Locking
               PROVE  FALSE
      BY <1>t, <1>1, <1>3 DEF OneLocks, Lock, StatFree, StatLocked
  <2>1. CASE Lock(c)
      BY <2>1 DEF Lock
  <2>2. CASE StatFree(c) \/ StatLocked(c)
      BY <2>2 DEF StatFree, StatLocked, OneLocks, Locking
  <2> QED BY <2>1, <2>2
<1>7. HeldByHolders'
    BY <1>3, <1>5 DEF HeldByHolders
<1>8. HolderIsSafe'
  <2> SUFFICES ASSUME ~overlapped', ~outstayed', NEW h \in Holders
               PROVE  /\ object = [by |-> h, age |-> held[h]]
                      /\ held[h] + MaxAhead <= StaleAfter
                      /\ \A d \in Client : spc'[d] \notin Committed
      BY <1>3, <1>5 DEF HolderIsSafe
  <2>1. ~overlapped /\ ~outstayed
      BY <1>3 DEF Lock, StatFree, StatLocked
  <2>2. /\ object = [by |-> h, age |-> held[h]]
        /\ held[h] + MaxAhead <= StaleAfter
        /\ \A d \in Client : spc[d] \notin Committed
      BY <2>1 DEF HolderIsSafe
  <2>3. h \in Client /\ held[h] \in Nat /\ ahead[c] \in Nat /\ ahead[c] <= MaxAhead
      BY <1>t, S3LockAssumption DEF Holders, Ages
  <2>4. object # NoObject /\ object.age = held[h]
      BY <1>t, <2>2, <2>3, S3LockAssumption DEF Ages
  <2>5. ~Stale(c)
      BY <2>2, <2>3, <2>4, S3LockAssumption DEF Stale
  <2>6. spc'[c] \notin Committed
    <3>1. CASE Lock(c)
        BY <1>t, <3>1 DEF Lock, Continue, Committed, Removing
    <3>2. CASE StatFree(c)
        BY <2>4, <3>2 DEF StatFree
    <3>3. CASE StatLocked(c)
      <4>1. spc' = [spc EXCEPT ![c] = "out"]
          BY <2>5, <3>3 DEF StatLocked, Continue
      <4> QED BY <1>t, <4>1 DEF Committed, Removing
    <3> QED BY <3>1, <3>2, <3>3
  <2>7. \A d \in Client : spc'[d] \notin Committed
      BY <1>t, <1>1, <2>2, <2>6
  <2> QED BY <2>2, <2>7
<1> QED BY <1>4, <1>6, <1>7, <1>8

(* While a run is about to put or remove the object, none holds the lock.  *)
LEMMA RemoveStaleKeeps ==
    ASSUME S3Inv, NEW c \in Client, RemoveStale(c)
    PROVE  S3Inv'
<1> USE DEF S3Inv
<1>t. spc \in [Client -> LockSteps] /\ held \in [Client -> Ages]
    BY DEF S3TypeOK
<1>1. PICK step \in {"stat2", "out"} : spc' = [spc EXCEPT ![c] = step]
    BY DEF RemoveStale, Continue
<1>2. spc[c] \in Committed /\ spc[c] \in Locking /\ spc[c] # "held"
    BY DEF RemoveStale, Committed, Locking, Removing
<1>3. S3TypeOK'
    BY <1>1 DEF S3TypeOK, RemoveStale, LockSteps, Locking, Looking
<1>4. Holders' = Holders
    BY <1>t, <1>1, <1>2 DEF Holders
<1>5. OneLocks'
    BY <1>t, <1>1, <1>2 DEF OneLocks, RemoveStale
<1>6. HeldByHolders'
    BY <1>4 DEF HeldByHolders, RemoveStale
<1>7. HolderIsSafe'
    BY <1>2, <1>4 DEF HolderIsSafe, RemoveStale
<1> QED BY <1>3, <1>5, <1>6, <1>7

LEMMA PutKeeps ==
    ASSUME S3Inv, NEW c \in Client, Put(c)
    PROVE  S3Inv'
<1> USE DEF S3Inv
<1>t. spc \in [Client -> LockSteps] /\ held \in [Client -> Ages]
    BY DEF S3TypeOK
<1>1. /\ spc[c] = "put" /\ spc' = [spc EXCEPT ![c] = "held"]
      /\ object' = [by |-> c, age |-> 0]
      /\ UNCHANGED <<ahead, held, overlapped, outstayed, faults>>
    BY DEF Put, Continue
<1>2. spc[c] \in Committed /\ spc[c] \in Locking
    BY <1>1 DEF Committed, Locking
<1>3. S3TypeOK'
    BY <1>1, S3LockAssumption DEF S3TypeOK, LockSteps, Ages
<1>4. Holders' = Holders \cup {c} /\ held[c] = 0
    BY <1>t, <1>1 DEF Holders, HeldByHolders
<1>5. OneLocks'
    BY <1>t, <1>1 DEF OneLocks, Locking, Looking, Removing
<1>6. HeldByHolders'
    BY <1>1, <1>4 DEF HeldByHolders
<1>7. HolderIsSafe'
  <2> SUFFICES ASSUME ~overlapped, ~outstayed
               PROVE  \A h \in Holders' :
                          /\ object' = [by |-> h, age |-> held[h]]
                          /\ held[h] + MaxAhead <= StaleAfter
                          /\ \A d \in Client : spc'[d] \notin Committed
      BY <1>1 DEF HolderIsSafe
  <2>1. Holders' = {c}
      BY <1>2, <1>4 DEF HolderIsSafe
  <2>2. \A d \in Client : spc'[d] \notin Committed
      BY <1>t, <1>1, <1>2 DEF OneLocks, Committed, Locking, Removing
  <2> QED BY <1>1, <1>4, <2>1, <2>2, S3LockAssumption
<1> QED BY <1>3, <1>5, <1>6, <1>7

(* A run leaves: it released the lock, a request of it failed, or it was   *)
(* killed.  Only one that may do so touches the object.                    *)
LEMMA S3LeaveKeeps ==
    ASSUME S3Inv, NEW c \in Client, Return(c),
           UNCHANGED <<ahead, overlapped, outstayed>>, faults' \in 0..MaxFaults,
           object' \in {object, NoObject, [by |-> c, age |-> 0]},
           object' # object => spc[c] \in Committed \cup {"held"}
    PROVE  S3Inv'
<1> USE DEF S3Inv
<1>t. spc \in [Client -> LockSteps] /\ held \in [Client -> Ages]
    BY DEF S3TypeOK
<1>1. spc' = [spc EXCEPT ![c] = "out"] /\ held' = [held EXCEPT ![c] = 0]
    BY DEF Return, Continue
<1>2. S3TypeOK'
    BY <1>1, S3LockAssumption DEF S3TypeOK, LockSteps, Ages
<1>3. Holders' = Holders \ {c}
    BY <1>t, <1>1 DEF Holders
<1>4. OneLocks'
    BY <1>t, <1>1 DEF OneLocks, Locking, Looking, Removing
<1>5. HeldByHolders'
    BY <1>t, <1>1, <1>3 DEF HeldByHolders
<1>6. HolderIsSafe'
  <2> SUFFICES ASSUME ~overlapped, ~outstayed, NEW h \in Holders, h # c
               PROVE  /\ object' = [by |-> h, age |-> held'[h]]
                      /\ held'[h] + MaxAhead <= StaleAfter
                      /\ \A d \in Client : spc'[d] \notin Committed
      BY <1>3 DEF HolderIsSafe
  <2>1. /\ object = [by |-> h, age |-> held[h]]
        /\ held[h] + MaxAhead <= StaleAfter
        /\ \A d \in Client : spc[d] \notin Committed
      BY DEF HolderIsSafe
  <2>2. spc[c] \notin Committed \cup {"held"}
    <3>1. c \in Holders => object = [by |-> c, age |-> held[c]]
        BY DEF HolderIsSafe
    <3>2. c \notin Holders
        BY <2>1, <3>1
    <3> QED BY <2>1, <3>2 DEF Holders
  <2>3. object' = object /\ held'[h] = held[h]
      BY <1>t, <1>1, <2>2 DEF Holders
  <2>4. \A d \in Client : spc'[d] \notin Committed
      BY <1>t, <1>1, <2>1 DEF Committed, Removing
  <2> QED BY <2>1, <2>3, <2>4
<1> QED BY <1>2, <1>4, <1>5, <1>6

LEMMA LeavingKeeps ==
    ASSUME S3Inv, NEW c \in Client, Release(c) \/ RequestFails(c) \/ KillClient(c)
    PROVE  S3Inv'
<1>1. faults' \in 0..MaxFaults
    BY S3LockAssumption DEF S3Inv, S3TypeOK, Release, RequestFails, KillClient
<1>2. /\ object' \in {object, NoObject, [by |-> c, age |-> 0]}
      /\ object' # object => spc[c] \in Committed \cup {"held"}
  <2>1. CASE Release(c) \/ KillClient(c)
      BY <2>1 DEF Release, KillClient
  <2>2. CASE RequestFails(c)
    <3>1. CASE spc[c] = "put"
        BY <2>2, <3>1 DEF RequestFails, Committed, Removing
    <3>2. CASE spc[c] \in Removing \cup {"held"}
      <4>1. spc[c] # "put"
          BY <3>2 DEF Removing
      <4> QED BY <2>2, <3>2, <4>1 DEF RequestFails, Committed
    <3>3. CASE spc[c] # "put" /\ spc[c] \notin Removing \cup {"held"}
        BY <2>2, <3>3 DEF RequestFails
    <3> QED BY <3>1, <3>2, <3>3
  <2> QED BY <2>1, <2>2
<1>3. Return(c) /\ UNCHANGED <<ahead, overlapped, outstayed>>
    BY DEF Release, RequestFails, KillClient
<1> QED BY <1>1, <1>2, <1>3, S3LeaveKeeps

(* Time passes: the object of a holder ages as the holder does.            *)
LEMMA TickKeeps ==
    ASSUME S3Inv, Tick
    PROVE  S3Inv'
<1> USE DEF S3Inv
<1>t. spc \in [Client -> LockSteps] /\ held \in [Client -> Ages]
    BY DEF S3TypeOK
<1>1. \A age \in Ages : Older(age) \in Ages
    BY S3LockAssumption DEF Older, Ages
<1>2. Holders' = Holders /\ Holders \subseteq Client
    BY DEF Tick, Holders
<1>3. held' \in [Client -> Ages]
    BY <1>t, <1>1, S3LockAssumption DEF Tick, Ages
<1>4. object' \in [by : Client, age : Ages] \cup {NoObject}
    BY <1>1 DEF Tick, S3TypeOK
<1>5. S3TypeOK'
    BY <1>3, <1>4 DEF Tick, S3TypeOK
<1>6. OneLocks' /\ HeldByHolders'
    BY <1>2 DEF Tick, OneLocks, HeldByHolders
<1>7. HolderIsSafe'
  <2> SUFFICES ASSUME ~overlapped', ~outstayed', NEW c \in Holders
               PROVE  /\ object' = [by |-> c, age |-> held'[c]]
                      /\ held'[c] + MaxAhead <= StaleAfter
                      /\ \A d \in Client : spc'[d] \notin Committed
      BY <1>2 DEF HolderIsSafe
  <2>1. ~overlapped /\ ~outstayed /\ ~(held'[c] + MaxAhead > StaleAfter)
      BY DEF Tick
  <2>2. /\ object = [by |-> c, age |-> held[c]]
        /\ \A d \in Client : spc[d] \notin Committed
      BY <2>1 DEF HolderIsSafe
  <2>3. object # NoObject /\ held'[c] = Older(held[c]) /\ object' = [object EXCEPT !.age = Older(@)]
      BY <1>t, <1>2, <2>2, S3LockAssumption DEF Tick, Ages
  <2>4. object' = [by |-> c, age |-> held'[c]]
      BY <2>2, <2>3
  <2>5. held'[c] \in Nat
      BY <1>2, <1>3 DEF Ages
  <2> QED BY <2>1, <2>2, <2>4, <2>5, S3LockAssumption DEF Tick
<1> QED BY <1>5, <1>6, <1>7

-----------------------------------------------------------------------------
(* The invariant holds of every run, and with it the type invariant.       *)
THEOREM S3Invariant == S3Spec => []S3Inv
<1>1. S3Inv /\ [S3Next]_s3vars => S3Inv'
  <2> SUFFICES ASSUME S3Inv, [S3Next]_s3vars PROVE S3Inv'
      OBVIOUS
  <2>1. CASE \E c \in Client : Lock(c) \/ StatFree(c) \/ StatLocked(c)
      BY <2>1, LookKeeps
  <2>2. CASE \E c \in Client : RemoveStale(c) \/ Put(c)
      BY <2>2, RemoveStaleKeeps, PutKeeps
  <2>3. CASE \E c \in Client : Release(c) \/ RequestFails(c) \/ KillClient(c)
      BY <2>3, LeavingKeeps
  <2>4. CASE Tick
      BY <2>4, TickKeeps
  <2>5. CASE UNCHANGED s3vars
      BY <2>5 DEF S3Inv, S3TypeOK, OneLocks, HeldByHolders, HolderIsSafe, Holders, s3vars
  <2> QED BY <2>1, <2>2, <2>3, <2>4, <2>5 DEF S3Next, LockStep
<1> QED BY <1>1, S3InvInit, PTL DEF S3Spec

(* A run that holds the lock of a bucket can be seen to hold it, unless    *)
(* runs were started at the same time or outstayed.                        *)
THEOREM HoldersAreVisible == S3Spec => []HolderIsVisible
<1>1. S3Inv => HolderIsVisible
  <2> SUFFICES ASSUME S3Inv, ~overlapped, ~outstayed, NEW c \in Holders
               PROVE  object # NoObject /\ object.by = c
      BY DEF HolderIsVisible
  <2>1. object = [by |-> c, age |-> held[c]]
      BY DEF S3Inv, HolderIsSafe
  <2>2. c \in Client /\ held[c] \in Ages
      BY DEF S3Inv, S3TypeOK, Holders
  <2> QED BY <2>1, <2>2, S3LockAssumption DEF Ages
<1> QED BY <1>1, S3Invariant, PTL

(* Every step is a step of the promise or changes nothing it speaks of.    *)
LEMMA StepKeepsBucketPromise ==
    S3Inv /\ S3Inv' /\ [S3Next]_s3vars => [BucketPromise!Next]_(BucketPromise!vars)
<1> SUFFICES ASSUME S3Inv, S3Inv', [S3Next]_s3vars
             PROVE  [BucketPromise!Next]_(BucketPromise!vars)
    OBVIOUS
<1> USE DEF S3Inv
<1>t. spc \in [Client -> LockSteps] /\ overlapped \in BOOLEAN /\ outstayed \in BOOLEAN
    BY DEF S3TypeOK
<1> USE DEF BucketPromise!Next, BucketPromise!vars
<1>1. ASSUME NEW c \in Client, Lock(c) \/ LockStep(c), ~Put(c)
      PROVE  UNCHANGED Holders
  <2>1. spc[c] # "held" /\ \E step \in LockSteps : step # "held" /\ spc' = [spc EXCEPT ![c] = step]
      BY <1>1 DEF Lock, LockStep, StatFree, StatLocked, RemoveStale, Continue, LockSteps, Locking,
                  Looking, Removing
  <2> QED BY <1>t, <2>1 DEF Holders
<1>2. ASSUME NEW c \in Client, Put(c)
      PROVE  BucketPromise!Acquire(c)
  <2>1. Holders' = Holders \cup {c} /\ c \notin Holders
      BY <1>t, <1>2 DEF Put, Continue, Holders
  <2>2. Holders = {} \/ overlapped \/ outstayed
      BY <1>2 DEF Put, HolderIsSafe, Committed
  <2> QED BY <1>2, <2>1, <2>2 DEF Put, BucketPromise!Acquire
<1>3. ASSUME NEW c \in Client, Release(c) \/ RequestFails(c) \/ KillClient(c)
      PROVE  \E P \in SUBSET Client : BucketPromise!Release(P)
  <2>1. Holders' = Holders \ (Holders \cap {c})
      BY <1>t, <1>3 DEF Release, RequestFails, KillClient, Return, Continue, Holders
  <2>2. UNCHANGED (overlapped \/ outstayed)
      BY <1>3 DEF Release, RequestFails, KillClient
  <2>3. BucketPromise!Release(Holders \cap {c})
      BY <2>1, <2>2 DEF BucketPromise!Release
  <2> QED BY <2>3
<1>4. ASSUME UNCHANGED Holders, overlapped => overlapped', outstayed => outstayed',
             overlapped' \in BOOLEAN, outstayed' \in BOOLEAN
      PROVE  BucketPromise!Break \/ UNCHANGED <<Holders, overlapped \/ outstayed>>
    BY <1>t, <1>4 DEF BucketPromise!Break
<1>5. S3TypeOK'
    OBVIOUS
<1>6. CASE \E c \in Client : Put(c)
    BY <1>2, <1>6
<1>7. CASE \E c \in Client : Release(c) \/ RequestFails(c) \/ KillClient(c)
    BY <1>3, <1>7
<1>8. CASE \E c \in Client : (Lock(c) \/ LockStep(c)) /\ ~Put(c)
  <2>1. UNCHANGED Holders
      BY <1>1, <1>8
  <2>2. (overlapped => overlapped') /\ UNCHANGED outstayed
      BY <1>t, <1>8 DEF Lock, LockStep, StatFree, StatLocked, RemoveStale
  <2> QED BY <1>4, <1>5, <2>1, <2>2 DEF S3TypeOK
<1>9. CASE Tick
  <2>1. UNCHANGED Holders /\ UNCHANGED overlapped /\ (outstayed => outstayed')
      BY <1>9 DEF Tick, Holders
  <2> QED BY <1>4, <1>5, <2>1 DEF S3TypeOK
<1>10. CASE UNCHANGED s3vars
    BY <1>10 DEF s3vars, Holders
<1> QED BY <1>6, <1>7, <1>8, <1>9, <1>10 DEF S3Next

(* The lock object implements the lock that the rest of the program relies *)
(* on, until runs are started at the same time or outstay.                 *)
THEOREM BucketKeepsPromise == S3Spec => BucketLockKept
<1>1. S3Init => BucketPromise!Init
    BY DEF S3Init, BucketPromise!Init, Holders
<1> QED
    BY <1>1, StepKeepsBucketPromise, S3Invariant, PTL
    DEF S3Spec, BucketLockKept, BucketPromise!Spec

=============================================================================
