-------------------------------- MODULE S3Lock -------------------------------
(***************************************************************************)
(* The lock of a bucket (internal/store.S3Store.Lock): an object whose     *)
(* presence means "locked", looked for and then put, and removed by the    *)
(* next run when it is older than StaleAfter.  Each request is a step; a   *)
(* request that fails may have taken effect.                               *)
(*                                                                         *)
(* Time is counted as ages, which stop at StaleAfter + 1: nothing in the   *)
(* code tells older ages apart.                                            *)
(***************************************************************************)
EXTENDS Naturals

CONSTANTS
    Client,       \* the runs of the program on one bucket
    NoObject,     \* no lock object
    StaleAfter,   \* the age from which a lock is taken over
    MaxAhead,     \* how far a client's clock may be ahead of the bucket's
    MaxFaults     \* how many requests fail and runs are killed

ASSUME S3LockAssumption ==
    /\ StaleAfter \in Nat
    /\ MaxAhead \in 0..StaleAfter
    /\ MaxFaults \in Nat
    /\ NoObject \notin [by : Client, age : 0..(StaleAfter + 1)]

VARIABLES
    spc,          \* where each run is in Lock and release
    object,       \* the lock object: who put it, and its age
    ahead,        \* how far each client's clock is ahead
    held,         \* history: the time since a run put the object it holds by
    overlapped,   \* history: two calls of Lock were under way at a time
    outstayed,    \* history: a run held the lock when it could look stale
    faults        \* the number of faults so far

s3vars == <<spc, object, ahead, held, overlapped, outstayed, faults>>

Ages == 0..(StaleAfter + 1)

FaultyOlder(age) == age + 1

Older(age) == IF age > StaleAfter THEN age ELSE age + 1

(* Lock looks at the object twice at most.                                 *)
Looking  == {"stat1", "stat2"}
Removing == {"remove1", "remove2"}
Locking  == Looking \cup Removing \cup {"put"}
LockSteps == {"out", "held"} \cup Locking

S3Init ==
    /\ spc = [c \in Client |-> "out"]
    /\ object = NoObject
    /\ ahead \in [Client -> 0..MaxAhead]
    /\ held = [c \in Client |-> 0]
    /\ overlapped = FALSE
    /\ outstayed = FALSE
    /\ faults = 0

Continue(c, step) == spc' = [spc EXCEPT ![c] = step]

Return(c) ==
    /\ Continue(c, "out")
    /\ held' = [held EXCEPT ![c] = 0]

FaultyStale(c) == object.age + ahead[c] >= StaleAfter

(* What the run sees: the age of the object by its own clock.              *)
Stale(c) == object.age + ahead[c] > StaleAfter

Lock(c) ==
    /\ spc[c] = "out"
    /\ Continue(c, "stat1")
    /\ overlapped' = (overlapped \/ \E d \in Client : spc[d] \in Locking)
    /\ UNCHANGED <<object, ahead, held, outstayed, faults>>

FaultyStatLocked(c) ==          \* takes over whatever it finds
    /\ spc[c] \in Looking
    /\ object # NoObject
    /\ Continue(c, IF spc[c] = "stat1" THEN "remove1" ELSE "remove2")
    /\ UNCHANGED <<object, ahead, held, overlapped, outstayed, faults>>

(* StatObject: free, taken, or taken long ago.                             *)
StatFree(c) ==
    /\ spc[c] \in Looking
    /\ object = NoObject
    /\ Continue(c, "put")
    /\ UNCHANGED <<object, ahead, held, overlapped, outstayed, faults>>

StatLocked(c) ==
    /\ spc[c] \in Looking
    /\ object # NoObject
    /\ Continue(c, IF ~Stale(c) THEN "out"
                   ELSE IF spc[c] = "stat1" THEN "remove1" ELSE "remove2")
    /\ UNCHANGED <<object, ahead, held, overlapped, outstayed, faults>>

(* RemoveObject removes whatever object is there by now.  After a second   *)
(* stale lock the store counts as locked.                                  *)
RemoveStale(c) ==
    /\ spc[c] \in Removing
    /\ object' = NoObject
    /\ Continue(c, IF spc[c] = "remove1" THEN "stat2" ELSE "out")
    /\ UNCHANGED <<ahead, held, overlapped, outstayed, faults>>

(* PutObject replaces an object that appeared since it was looked for.     *)
Put(c) ==
    /\ spc[c] = "put"
    /\ object' = [by |-> c, age |-> 0]
    /\ Continue(c, "held")
    /\ UNCHANGED <<ahead, held, overlapped, outstayed, faults>>

(* The release function removes the object without a look at its token.    *)
Release(c) ==
    /\ spc[c] = "held"
    /\ object' = NoObject
    /\ Return(c)
    /\ UNCHANGED <<ahead, overlapped, outstayed, faults>>

(* A request fails, before or after it took effect; Lock returns the error *)
(* and a release does not try again.                                       *)
RequestFails(c) ==
    /\ spc[c] # "out"
    /\ faults < MaxFaults
    /\ faults' = faults + 1
    /\ object' \in {object} \cup
          CASE spc[c] = "put"                       -> {[by |-> c, age |-> 0]}
            [] spc[c] \in Removing \cup {"held"} -> {NoObject}
            [] OTHER                                -> {}
    /\ Return(c)
    /\ UNCHANGED <<ahead, overlapped, outstayed>>

KillClient(c) ==
    /\ spc[c] # "out"
    /\ faults < MaxFaults
    /\ faults' = faults + 1
    /\ Return(c)
    /\ UNCHANGED <<object, ahead, overlapped, outstayed>>

Holders == {c \in Client : spc[c] = "held"}

Tick ==
    /\ object' = IF object = NoObject THEN NoObject ELSE [object EXCEPT !.age = Older(@)]
    /\ held' = [c \in Client |-> IF c \in Holders THEN Older(held[c]) ELSE 0]
    /\ outstayed' = (outstayed \/ \E c \in Holders : held'[c] + MaxAhead > StaleAfter)
    /\ UNCHANGED <<spc, ahead, overlapped, faults>>

(* A run that was started goes on by itself until it holds the lock or is  *)
(* refused.                                                                *)
LockStep(c) == StatFree(c) \/ StatLocked(c) \/ RemoveStale(c) \/ Put(c)

S3Next ==
    \/ \E c \in Client :
          Lock(c) \/ LockStep(c) \/ Release(c) \/ RequestFails(c) \/ KillClient(c)
    \/ Tick

S3Spec == S3Init /\ [][S3Next]_s3vars

-----------------------------------------------------------------------------
S3TypeOK ==
    /\ spc \in [Client -> LockSteps]
    /\ object \in [by : Client, age : Ages] \cup {NoObject}
    /\ ahead \in [Client -> 0..MaxAhead]
    /\ held \in [Client -> Ages]
    /\ overlapped \in BOOLEAN
    /\ outstayed \in BOOLEAN
    /\ faults \in 0..MaxFaults

(* The lock of a bucket keeps runs apart that were not started at the same *)
(* time and that end before their lock can look stale to a client whose    *)
(* clock is ahead.                                                         *)
BucketPromise == INSTANCE StoreLock WITH
    Process <- Client,
    owners  <- Holders,
    void    <- overlapped \/ outstayed

BucketLockKept == BucketPromise!Spec

(* A run that holds the lock can be seen to hold it: its object is there,  *)
(* whatever requests of other runs failed, unless runs were started at the *)
(* same time or outstayed.                                                 *)
HolderIsVisible ==
    ~overlapped /\ ~outstayed =>
        \A c \in Holders : object # NoObject /\ object.by = c

=============================================================================
