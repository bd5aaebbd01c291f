------------------------------- MODULE OutputFS ------------------------------
(***************************************************************************)
(* The files of a local output root (internal/outputfs) while runs open,   *)
(* use and close it: goroutines of the owning process replace, remove and  *)
(* read one file, a process may be killed and the machine lose power       *)
(* between any two steps.                                                  *)
(*                                                                         *)
(* The system keeps what was written in memory until it is synced: after a *)
(* loss of power a file that was not is torn, and a directory may show an  *)
(* entry it had before its last sync.                                      *)
(***************************************************************************)
EXTENDS OutputLock, FiniteSets

CONSTANTS
    Worker,       \* the goroutines that use the store
    TempName,     \* the names a temporary sibling may draw
    MaxCrashes    \* how often power is lost

ASSUME OutputFSAssumption == MaxCrashes \in Nat

VARIABLES
    target,       \* the file at the path that is used
    old,          \* what may stand there after a loss of power
    temps,        \* the temporary siblings in the directory
    op,           \* what each goroutine does
    stranded,     \* history: temporary siblings nobody can clean up
    crashes       \* how often power was lost

fileVars == <<target, old, temps, op, stranded, crashes>>
fsVars == <<lockVars, fileVars>>

(* The content of a file: all that one operation writes, or part of it.    *)
Whole == "whole"
Torn  == "torn"
None  == [content |-> "none", synced |-> TRUE]
File  == [content : {Whole, Torn}, synced : BOOLEAN] \cup {None}

Idle == [at |-> "idle", proc |-> Nobody, temp |-> "none", file |-> None]

Steps == {"idle", "create", "write", "sync", "check", "rename", "syncdir",
          "cleanup", "remove", "open", "read"}

Op == [at : Steps, proc : Process \cup {Nobody}, temp : TempName \cup {"none"}, file : File]

FilesInit ==
    /\ target \in {None} \cup {[content |-> Whole, synced |-> TRUE]}
    /\ old = {}
    /\ temps = {}
    /\ op = [w \in Worker |-> Idle]
    /\ stranded = {}
    /\ crashes = 0

Do(w, step) == op' = [op EXCEPT ![w].at = step]
Finish(w)   == op' = [op EXCEPT ![w] = Idle]

-----------------------------------------------------------------------------
(* An operation holds the shared lock of FS from its beginning to its end, *)
(* a reader only until its file is open.                                   *)
UsesRoot(w) == op[w].at \notin {"idle", "read"}

(* The root is open: Close has not begun.                                  *)
Begin(w, p) ==
    /\ op[w] = Idle
    /\ opc[p] = "held"
    /\ \E step \in {"create", "remove", "open"} :
          op' = [op EXCEPT ![w] = [Idle EXCEPT !.at = step, !.proc = p]]
    /\ UNCHANGED <<lockVars, target, old, temps, stranded, crashes>>

(* AtomicReplace makes an empty sibling under a random name that is free.  *)
CreateSibling(w) ==
    /\ op[w].at = "create"
    /\ \E n \in TempName \ temps :
           /\ temps' = temps \cup {n}
           /\ op' = [op EXCEPT ![w].at = "write", ![w].temp = n,
                               ![w].file = [content |-> Torn, synced |-> FALSE]]
    /\ UNCHANGED <<lockVars, target, old, stranded, crashes>>

Write(w) ==
    /\ op[w].at = "write"
    /\ op' = [op EXCEPT ![w].at = "sync", ![w].file.content = Whole]
    /\ UNCHANGED <<lockVars, target, old, temps, stranded, crashes>>

FaultySync(w) ==                \* the file is not synced
    /\ op[w].at = "sync"
    /\ Do(w, "check")
    /\ UNCHANGED <<lockVars, target, old, temps, stranded, crashes>>

Sync(w) ==
    /\ op[w].at = "sync"
    /\ op' = [op EXCEPT ![w].at = "check", ![w].file.synced = TRUE]
    /\ UNCHANGED <<lockVars, target, old, temps, stranded, crashes>>

(* Is there nothing at the path, or a regular file?                        *)
VerifyReplaceTarget(w) ==
    /\ op[w].at = "check"
    /\ Do(w, "rename")
    /\ UNCHANGED <<lockVars, target, old, temps, stranded, crashes>>

RenameOver(w) ==
    /\ op[w].at = "rename"
    /\ target' = op[w].file
    /\ old' = old \cup {target}
    /\ temps' = temps \ {op[w].temp}
    /\ Do(w, "syncdir")
    /\ UNCHANGED <<lockVars, stranded, crashes>>

(* The directory is synced if that can be done; the answer is not looked   *)
(* at.                                                                     *)
SyncDirectory(w) ==
    /\ op[w].at = "syncdir"
    /\ old' \in {old, {}}
    /\ Finish(w)
    /\ UNCHANGED <<lockVars, target, temps, stranded, crashes>>

(* No sibling could be made: every name drawn was taken, or a system call  *)
(* failed.                                                                 *)
CreateFails(w) ==
    /\ op[w].at = "create"
    /\ Finish(w)
    /\ UNCHANGED <<lockVars, target, old, temps, stranded, crashes>>

FaultyReplaceFails(w) ==        \* an error path without clean-up
    /\ op[w].at \in {"write", "sync", "check", "rename"}
    /\ Finish(w)
    /\ UNCHANGED <<lockVars, target, old, temps, stranded, crashes>>

(* The callback fails or panics, or a system call fails, or something else *)
(* than a regular file stands at the path: the sibling is cleaned up.      *)
ReplaceFails(w) ==
    /\ op[w].at \in {"write", "sync", "check", "rename"}
    /\ Do(w, "cleanup")
    /\ UNCHANGED <<lockVars, target, old, temps, stranded, crashes>>

CleanUp(w) ==
    /\ op[w].at = "cleanup"
    /\ \/ /\ temps' = temps \ {op[w].temp}
          /\ UNCHANGED stranded
       \/ /\ stranded' = stranded \cup {op[w].temp}
          /\ UNCHANGED temps
    /\ Finish(w)
    /\ UNCHANGED <<lockVars, target, old, crashes>>

(* Remove fails when there is no file, or another one than it looked at.   *)
Remove(w) ==
    /\ op[w].at = "remove"
    /\ target # None
    /\ target' = None
    /\ old' = old \cup {target}
    /\ Finish(w)
    /\ UNCHANGED <<lockVars, temps, stranded, crashes>>

RemoveFails(w) ==
    /\ op[w].at = "remove"
    /\ Finish(w)
    /\ UNCHANGED <<lockVars, target, old, temps, stranded, crashes>>

(* OpenRegular gives the file that stands at the path, and what the reader *)
(* then gets is that file, whatever is renamed over it and though the root *)
(* is closed.                                                              *)
OpenRegular(w) ==
    /\ op[w].at = "open"
    /\ IF target = None THEN Finish(w)
       ELSE op' = [op EXCEPT ![w].at = "read", ![w].file = target]
    /\ UNCHANGED <<lockVars, target, old, temps, stranded, crashes>>

Read(w) ==
    /\ op[w].at = "read"
    /\ Finish(w)
    /\ UNCHANGED <<lockVars, target, old, temps, stranded, crashes>>

-----------------------------------------------------------------------------
FaultyQuiet(p) == TRUE          \* Close does not wait

(* Close waits for the operations in flight: it takes the lock that they   *)
(* share.                                                                  *)
Quiet(p) == \A w \in Worker : UsesRoot(w) => op[w].proc # p

CloseStore(p) ==
    /\ Quiet(p)
    /\ Close(p) \/ CloseFails(p)
    /\ UNCHANGED fileVars

(* The operations of a process end with it; their siblings stay.           *)
Abandoned(P) == {op[w].temp : w \in {v \in Worker : op[v].proc \in P}} \cap temps

KillProcess(p) ==
    /\ Kill(p)
    /\ op' = [w \in Worker |-> IF op[w].proc = p THEN Idle ELSE op[w]]
    /\ stranded' = stranded \cup Abandoned({p})
    /\ UNCHANGED <<target, old, temps, crashes>>

AfterLoss(f) == IF f.synced THEN f ELSE [content |-> Torn, synced |-> TRUE]

LosePower ==
    /\ crashes < MaxCrashes
    /\ crashes' = crashes + 1
    /\ target' \in {AfterLoss(f) : f \in old \cup {target}}
    /\ old' = {}
    /\ op' = [w \in Worker |-> Idle]
    /\ stranded' = stranded \cup Abandoned(Process)
    /\ opc' = [p \in Process |-> "out"]
    /\ handle' = [p \in Process |-> NoFile]
    /\ flocked' = [i \in Inode |-> Nobody]
    /\ UNCHANGED <<lockFile, removals, removedHeld, temps>>

Using(w) ==
    \/ CreateSibling(w)
    \/ Write(w)
    \/ Sync(w)
    \/ VerifyReplaceTarget(w)
    \/ RenameOver(w)
    \/ SyncDirectory(w)
    \/ CreateFails(w)
    \/ ReplaceFails(w)
    \/ CleanUp(w)
    \/ Remove(w)
    \/ RemoveFails(w)
    \/ OpenRegular(w)
    \/ Read(w)

OpeningStep(p) == (Advance(p) /\ UNCHANGED fileVars)

FSNext ==
    \/ \E p \in Process :
          \/ (Open(p) \/ OpenFails(p)) /\ UNCHANGED fileVars
          \/ OpeningStep(p)
          \/ CloseStore(p)
          \/ KillProcess(p)
    \/ \E w \in Worker : Using(w) \/ \E p \in Process : Begin(w, p)
    \/ RemoveLockFile /\ UNCHANGED fileVars
    \/ LosePower

FSInit == LockInit /\ FilesInit

FSSpec == FSInit /\ [][FSNext]_fsVars

-----------------------------------------------------------------------------
FSTypeOK ==
    /\ LockTypeOK
    /\ target \in File
    /\ old \subseteq File
    /\ temps \subseteq TempName
    /\ op \in [Worker -> Op]
    /\ stranded \subseteq TempName
    /\ crashes \in 0..MaxCrashes

(* Operations of two runs are never under way in one output root at a      *)
(* time: not while one run closes and the next opens, and not when runs    *)
(* are killed, unless the lock file was removed from under an owner.       *)
OneRunWrites ==
    ~removedHeld =>
        \A v, w \in Worker :
            UsesRoot(v) /\ UsesRoot(w) => op[v].proc = op[w].proc

(* The path holds nothing or the whole of one write, and so does what a    *)
(* reader gets, through concurrent replacements, failures, kills and       *)
(* losses of power.                                                        *)
FileIsWhole ==
    /\ target.content # Torn
    /\ \A w \in Worker : op[w].at = "read" => op[w].file.content # Torn

(* A temporary sibling belongs to an operation under way, or its process   *)
(* ended, or removing it failed: an error path forgets none.               *)
NoLitter ==
    \A n \in temps :
        n \in stranded \/ \E w \in Worker : op[w].temp = n

=============================================================================
