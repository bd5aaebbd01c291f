------------------------------ MODULE OutputLock -----------------------------
(***************************************************************************)
(* Opening and closing a local output root (internal/outputfs): the lock   *)
(* is a flock on the file .pixiegrabber.lock, which is created by the      *)
(* first run and never removed by any.  Each system call is a step, so     *)
(* that runs may start at the same time and a person may remove the file   *)
(* between any two of them.                                                *)
(*                                                                         *)
(* A file is its inode: os.SameFile compares inodes, and a flock belongs   *)
(* to an inode and not to a name.                                          *)
(***************************************************************************)
EXTENDS Naturals

CONSTANTS
    Process,      \* the runs of the program on one output root
    Inode,        \* the inodes the lock file may have
    NoFile,       \* no such file, or a file that is not open
    Nobody,       \* no process
    MaxRemovals   \* how often a person removes the lock file

ASSUME OutputLockAssumption ==
    /\ NoFile \notin Inode
    /\ Nobody \notin Process
    /\ MaxRemovals \in Nat

VARIABLES
    opc,          \* where each process is in Open or Close
    lockFile,     \* the inode that has the name of the lock file
    handle,       \* the inode each process has open
    flocked,      \* the process that holds the flock of an inode
    removals,     \* how often the lock file was removed
    removedHeld   \* history: it was removed while some process held the root

lockVars == <<opc, lockFile, handle, flocked, removals, removedHeld>>

Opening == {"lstat", "create", "check", "open", "flock", "verify"}

(* "closing" is a process whose flock could not be closed: it keeps the    *)
(* lock until a later Close succeeds or the process ends.                  *)
Owning == {"held", "closing"}

LockInit ==
    /\ opc = [p \in Process |-> "out"]
    /\ lockFile \in Inode \cup {NoFile}
    /\ handle = [p \in Process |-> NoFile]
    /\ flocked = [i \in Inode |-> Nobody]
    /\ removals = 0
    /\ removedHeld = FALSE

Goto(p, step) == opc' = [opc EXCEPT ![p] = step]

(* Closing a file gives up its flock; so does the end of a process.        *)
Leave(p) ==
    /\ Goto(p, "out")
    /\ handle' = [handle EXCEPT ![p] = NoFile]
    /\ flocked' = [i \in Inode |-> IF flocked[i] = p THEN Nobody ELSE flocked[i]]

(* The directory of the root is made and checked; what may fail there      *)
(* leaves nothing behind.                                                  *)
Open(p) ==
    /\ opc[p] = "out"
    /\ Goto(p, "lstat")
    /\ UNCHANGED <<lockFile, handle, flocked, removals, removedHeld>>

(* The loop of acquireLock: is there a lock file?                          *)
Lstat(p) ==
    /\ opc[p] = "lstat"
    /\ Goto(p, IF lockFile = NoFile THEN "create" ELSE "open")
    /\ UNCHANGED <<lockFile, handle, flocked, removals, removedHeld>>

(* O_CREATE|O_EXCL: of two runs that found no lock file one creates it.    *)
CreateExclusive(p) ==
    /\ opc[p] = "create"
    /\ lockFile = NoFile
    /\ \E i \in Inode :
          /\ \A q \in Process : handle[q] # i
          /\ lockFile' = i
          /\ handle' = [handle EXCEPT ![p] = i]
    /\ Goto(p, "check")
    /\ UNCHANGED <<flocked, removals, removedHeld>>

CreateLost(p) ==
    /\ opc[p] = "create"
    /\ lockFile # NoFile
    /\ Goto(p, "lstat")
    /\ UNCHANGED <<lockFile, handle, flocked, removals, removedHeld>>

(* The new file must still be the one with the name; then it is closed.    *)
CheckCreated(p) ==
    /\ opc[p] = "check"
    /\ lockFile = handle[p]
    /\ handle' = [handle EXCEPT ![p] = NoFile]
    /\ Goto(p, "open")
    /\ UNCHANGED <<lockFile, flocked, removals, removedHeld>>

(* TryLock opens the file by its name and does not create it.              *)
OpenLock(p) ==
    /\ opc[p] = "open"
    /\ lockFile # NoFile
    /\ handle' = [handle EXCEPT ![p] = lockFile]
    /\ Goto(p, "flock")
    /\ UNCHANGED <<lockFile, flocked, removals, removedHeld>>

FaultyTryRLock(p) ==            \* a lock that is shared
    /\ opc[p] = "flock"
    /\ flocked' = [flocked EXCEPT ![handle[p]] = p]
    /\ Goto(p, "verify")
    /\ UNCHANGED <<lockFile, handle, removals, removedHeld>>

TryLock(p) ==
    /\ opc[p] = "flock"
    /\ flocked[handle[p]] = Nobody
    /\ flocked' = [flocked EXCEPT ![handle[p]] = p]
    /\ Goto(p, "verify")
    /\ UNCHANGED <<lockFile, handle, removals, removedHeld>>

FaultyVerified(p) == TRUE       \* the name is not looked at again

(* The locked file must be the one that has the name by now.               *)
Verified(p) == lockFile = handle[p]

Hold(p) ==
    /\ opc[p] = "verify"
    /\ Verified(p)
    /\ Goto(p, "held")
    /\ UNCHANGED <<lockFile, handle, flocked, removals, removedHeld>>

(* Open returns an error: the new file lost its name, the lock file is     *)
(* gone, another process has the flock (ErrLocked), or the locked file     *)
(* lost its name (errChanged).                                             *)
Refuse(p) ==
    /\ \/ opc[p] = "check" /\ lockFile # handle[p]
       \/ opc[p] = "open" /\ lockFile = NoFile
       \/ opc[p] = "flock" /\ flocked[handle[p]] # Nobody
       \/ opc[p] = "verify" /\ ~Verified(p)
    /\ Leave(p)
    /\ UNCHANGED <<lockFile, removals, removedHeld>>

(* Any system call of Open may fail as well.                               *)
OpenFails(p) ==
    /\ opc[p] \in Opening
    /\ Leave(p)
    /\ UNCHANGED <<lockFile, removals, removedHeld>>

(* Close closes the root, then the flock, and may be called again when     *)
(* that fails.                                                             *)
Close(p) ==
    /\ opc[p] \in Owning
    /\ Leave(p)
    /\ UNCHANGED <<lockFile, removals, removedHeld>>

CloseFails(p) ==
    /\ opc[p] = "held"
    /\ Goto(p, "closing")
    /\ UNCHANGED <<lockFile, handle, flocked, removals, removedHeld>>

(* The process ends at any point: the kernel closes its files.             *)
Kill(p) ==
    /\ opc[p] # "out"
    /\ Leave(p)
    /\ UNCHANGED <<lockFile, removals, removedHeld>>

(* A person removes the lock file.                                         *)
RemoveLockFile ==
    /\ lockFile # NoFile
    /\ removals < MaxRemovals
    /\ lockFile' = NoFile
    /\ removals' = removals + 1
    /\ removedHeld' = (removedHeld \/ \E p \in Process : opc[p] \in Owning)
    /\ UNCHANGED <<opc, handle, flocked>>

(* What Open does when no system call fails.                               *)
Advance(p) ==
    \/ Lstat(p)
    \/ CreateExclusive(p)
    \/ CreateLost(p)
    \/ CheckCreated(p)
    \/ OpenLock(p)
    \/ TryLock(p)
    \/ Hold(p)
    \/ Refuse(p)

LockNext ==
    \/ \E p \in Process :
          Open(p) \/ Advance(p) \/ OpenFails(p) \/ Close(p) \/ CloseFails(p) \/ Kill(p)
    \/ RemoveLockFile

LockSpec == LockInit /\ [][LockNext]_lockVars

-----------------------------------------------------------------------------
LockTypeOK ==
    /\ opc \in [Process -> {"out"} \cup Opening \cup Owning]
    /\ lockFile \in Inode \cup {NoFile}
    /\ handle \in [Process -> Inode \cup {NoFile}]
    /\ flocked \in [Inode -> Process \cup {Nobody}]
    /\ removals \in 0..MaxRemovals
    /\ removedHeld \in BOOLEAN

Owners == {p \in Process : opc[p] \in Owning}

(* Whenever runs start, end or are killed, and even when the lock file is  *)
(* removed while they start, two runs never own one output root: only the  *)
(* removal of the lock file of a root that is held undoes the lock.        *)
MutualExclusion ==
    ~removedHeld => \A p, q \in Owners : p = q

LocalPromise == INSTANCE StoreLock WITH
    owners <- Owners,
    void   <- removedHeld

(* The steps of acquireLock and Close implement the promise of a store's   *)
(* lock.                                                                   *)
LocalLockKept == LocalPromise!Spec

=============================================================================
