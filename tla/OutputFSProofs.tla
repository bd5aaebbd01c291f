---------------------------- MODULE OutputFSProofs ---------------------------
(***************************************************************************)
(* For any number of runs, of inodes and of removals: a local output root  *)
(* has one owner at a time unless its lock file was removed while it was   *)
(* held, and the steps of acquireLock and Close implement StoreLock. And   *)
(* for any number of goroutines, temporary names, kills and losses of      *)
(* power: the file of the root is whole, one run works on it at a time,    *)
(* and no temporary sibling is forgotten.                                  *)
(***************************************************************************)
EXTENDS OutputFS, TLAPS

-----------------------------------------------------------------------------
(* The lock.                                                               *)

HasFile == {"check", "flock", "verify", "held", "closing"}
HasFlock == {"verify", "held", "closing"}

(* A process has a flock exactly from TryLock to the end, on the inode it  *)
(* has open.                                                               *)
FlockOfHandle ==
    \A p \in Process, i \in Inode :
        flocked[i] = p <=> opc[p] \in HasFlock /\ handle[p] = i

HandleOpen ==
    \A p \in Process : opc[p] \in HasFile => handle[p] \in Inode

(* Until the lock file is removed from under an owner, its inode is the    *)
(* one every owner has locked.                                             *)
OwnersHaveName ==
    ~removedHeld => \A p \in Owners : lockFile = handle[p]

LockInv == LockTypeOK /\ FlockOfHandle /\ HandleOpen /\ OwnersHaveName

LEMMA LockInvInit == LockInit => LockInv
<1> SUFFICES ASSUME LockInit PROVE LockInv
    OBVIOUS
<1> USE OutputLockAssumption DEF LockInit
<1>1. LockTypeOK
  <2>1. removals \in 0..MaxRemovals
      OBVIOUS
  <2>2. /\ opc \in [Process -> {"out"} \cup Opening \cup Owning]
        /\ handle \in [Process -> Inode \cup {NoFile}]
        /\ flocked \in [Inode -> Process \cup {Nobody}]
      OBVIOUS
  <2> QED BY <2>1, <2>2 DEF LockTypeOK
<1>2. ASSUME NEW p \in Process
      PROVE  opc[p] = "out" /\ p # Nobody
    OBVIOUS
<1>3. FlockOfHandle
    BY <1>2 DEF FlockOfHandle, HasFlock
<1>4. HandleOpen /\ OwnersHaveName
    BY <1>2 DEF HandleOpen, OwnersHaveName, Owners, Owning, HasFile
<1> QED BY <1>1, <1>3, <1>4 DEF LockInv

(* Whoever leaves gives up its flock and nothing else.                     *)
LEMMA LeaveKeeps ==
    ASSUME LockInv, NEW p \in Process, opc[p] # "out", Leave(p),
           UNCHANGED <<lockFile, removals, removedHeld>>
    PROVE  LockInv'
<1> USE OutputLockAssumption DEF Leave, Goto, LockInv, LockTypeOK
<1>1. LockTypeOK'
    OBVIOUS
<1>2. FlockOfHandle'
    BY DEF FlockOfHandle, HasFlock
<1>3. HandleOpen' /\ OwnersHaveName'
    BY DEF HandleOpen, OwnersHaveName, Owners, Owning, HasFile
<1> QED BY <1>1, <1>2, <1>3

(* One step of Open that changes neither the flocks nor the lock file.     *)
LEMMA AdvanceKeeps ==
    ASSUME LockInv, NEW p \in Process, Advance(p)
    PROVE  LockInv'
<1> USE OutputLockAssumption DEF Goto, LockInv, LockTypeOK, Opening, Owning
<1>1. CASE Lstat(p)
    BY <1>1 DEF Lstat, FlockOfHandle, HandleOpen, OwnersHaveName, Owners, HasFile, HasFlock
<1>2. CASE CreateExclusive(p)
  <2>1. PICK i \in Inode : /\ \A q \in Process : handle[q] # i
                           /\ lockFile' = i
                           /\ handle' = [handle EXCEPT ![p] = i]
      BY <1>2 DEF CreateExclusive
  <2>2. LockTypeOK' /\ HandleOpen'
      BY <1>2, <2>1 DEF CreateExclusive, HandleOpen, HasFile
  <2>3. FlockOfHandle'
      BY <1>2, <2>1 DEF CreateExclusive, FlockOfHandle, HasFlock
  <2>4. OwnersHaveName'
      BY <1>2, <2>1 DEF CreateExclusive, OwnersHaveName, HandleOpen, Owners, HasFile
  <2> QED BY <2>2, <2>3, <2>4
<1>3. CASE CreateLost(p)
    BY <1>3 DEF CreateLost, FlockOfHandle, HandleOpen, OwnersHaveName, Owners, HasFile, HasFlock
<1>4. CASE CheckCreated(p)
    BY <1>4 DEF CheckCreated, FlockOfHandle, HandleOpen, OwnersHaveName, Owners, HasFile, HasFlock
<1>5. CASE OpenLock(p)
    BY <1>5 DEF OpenLock, FlockOfHandle, HandleOpen, OwnersHaveName, Owners, HasFile, HasFlock
<1>6. CASE TryLock(p)
  <2>1. handle[p] \in Inode
      BY <1>6 DEF TryLock, HandleOpen, HasFile
  <2>2. LockTypeOK' /\ HandleOpen' /\ OwnersHaveName'
      BY <1>6, <2>1 DEF TryLock, HandleOpen, OwnersHaveName, Owners, HasFile
  <2>3. FlockOfHandle'
      BY <1>6, <2>1 DEF TryLock, FlockOfHandle, HasFlock
  <2> QED BY <2>2, <2>3
<1>7. CASE Hold(p)
    BY <1>7 DEF Hold, Verified, FlockOfHandle, HandleOpen, OwnersHaveName, Owners, HasFile, HasFlock
<1>8. CASE Refuse(p)
    BY <1>8, LeaveKeeps DEF Refuse
<1> QED BY <1>1, <1>2, <1>3, <1>4, <1>5, <1>6, <1>7, <1>8 DEF Advance

LEMMA LockInvNext == LockInv /\ [LockNext]_lockVars => LockInv'
<1> SUFFICES ASSUME LockInv, [LockNext]_lockVars PROVE LockInv'
    OBVIOUS
<1> USE OutputLockAssumption
<1>1. ASSUME NEW p \in Process, Open(p) PROVE LockInv'
    BY <1>1 DEF Open, Goto, LockInv, LockTypeOK, Opening, Owning, FlockOfHandle, HandleOpen,
                OwnersHaveName, Owners, HasFile, HasFlock
<1>2. ASSUME NEW p \in Process, Advance(p) PROVE LockInv'
    BY <1>2, AdvanceKeeps
<1>3. ASSUME NEW p \in Process, OpenFails(p) \/ Close(p) \/ Kill(p) PROVE LockInv'
    BY <1>3, LeaveKeeps DEF OpenFails, Close, Kill, Opening, Owning
<1>4. ASSUME NEW p \in Process, CloseFails(p) PROVE LockInv'
    BY <1>4 DEF CloseFails, Goto, LockInv, LockTypeOK, Opening, Owning, FlockOfHandle, HandleOpen,
                OwnersHaveName, Owners, HasFile, HasFlock
<1>5. CASE RemoveLockFile
  <2>1. LockTypeOK' /\ FlockOfHandle' /\ HandleOpen'
      BY <1>5 DEF RemoveLockFile, LockInv, LockTypeOK, FlockOfHandle, HandleOpen
  <2>2. ~removedHeld' => Owners' = {}
      BY <1>5 DEF RemoveLockFile, Owners
  <2> QED BY <2>1, <2>2 DEF LockInv, OwnersHaveName
<1>6. CASE UNCHANGED lockVars
    BY <1>6 DEF lockVars, LockInv, LockTypeOK, FlockOfHandle, HandleOpen, OwnersHaveName, Owners
<1> QED BY <1>1, <1>2, <1>3, <1>4, <1>5, <1>6 DEF LockNext

(* What acquireLock, Close and the kernel keep true of a local root.       *)
THEOREM LockInvariant == LockSpec => []LockInv
BY LockInvInit, LockInvNext, PTL DEF LockSpec

(* Two owners would have one inode locked, which only one process can.     *)
LEMMA OneOwner == LockInv => MutualExclusion
<1> SUFFICES ASSUME LockInv, ~removedHeld,
                    NEW p \in Owners, NEW q \in Owners
             PROVE  p = q
    BY DEF MutualExclusion
<1>1. p \in Process /\ q \in Process /\ opc[p] \in HasFlock /\ opc[q] \in HasFlock
    BY DEF Owners, Owning, HasFlock
<1>2. lockFile = handle[p] /\ lockFile = handle[q]
    BY DEF LockInv, OwnersHaveName
<1>3. handle[p] \in Inode
    BY <1>1 DEF LockInv, HandleOpen, HasFile, HasFlock
<1>4. flocked[lockFile] = p /\ flocked[lockFile] = q
    BY <1>1, <1>2, <1>3 DEF LockInv, FlockOfHandle
<1> QED BY <1>4

(* Runs of the program on one local output root exclude each other, for    *)
(* any number of runs that start, end and are killed at any moment, unless *)
(* the lock file is removed from under the run that holds the root.        *)
THEOREM LocalRootIsExclusive == LockSpec => []MutualExclusion
BY LockInvariant, OneOwner, PTL

-----------------------------------------------------------------------------
(* The refinement.                                                         *)

(* Every step of a run, of the kernel and of the person is a step of the   *)
(* promise or changes nothing that the promise speaks of.                  *)
LEMMA StepKeepsPromise ==
    LockInv /\ LockInv' /\ [LockNext]_lockVars => [LocalPromise!Next]_(LocalPromise!vars)
<1> SUFFICES ASSUME LockInv, LockInv', [LockNext]_lockVars
             PROVE  [LocalPromise!Next]_(LocalPromise!vars)
    OBVIOUS
<1> USE DEF LocalPromise!Next, LocalPromise!vars
<1>t. opc \in [Process -> {"out"} \cup Opening \cup Owning]
    BY DEF LockInv, LockTypeOK
<1>1. ASSUME NEW p \in Process, opc[p] \notin Owning, NEW step, step \notin Owning,
             Goto(p, step), UNCHANGED removedHeld
      PROVE  UNCHANGED <<Owners, removedHeld>>
  <2>1. \A q \in Process : opc'[q] \in Owning <=> opc[q] \in Owning
      BY <1>t, <1>1 DEF Goto
  <2> QED BY <1>1, <2>1 DEF Owners
<1>2. ASSUME NEW p \in Process, opc[p] \in Owning, Leave(p), UNCHANGED removedHeld
      PROVE  LocalPromise!Release({p})
  <2>1. \A q \in Process : opc'[q] \in Owning <=> opc[q] \in Owning /\ q # p
      BY <1>t, <1>2 DEF Leave, Goto, Owning
  <2>2. {p} \subseteq Owners /\ Owners' = Owners \ {p}
      BY <1>2, <2>1 DEF Owners
  <2> QED BY <1>2, <2>2 DEF LocalPromise!Release
<1>3. ASSUME NEW p \in Process, Open(p) \/ (Advance(p) /\ ~Hold(p)) \/ OpenFails(p)
      PROVE  UNCHANGED <<Owners, removedHeld>>
    BY <1>1, <1>3 DEF Open, Advance, Lstat, CreateExclusive, CreateLost, CheckCreated, OpenLock,
                      TryLock, Refuse, OpenFails, Leave, Opening, Owning
<1>4. ASSUME NEW p \in Process, Hold(p)
      PROVE  LocalPromise!Acquire(p)
  <2>1. Owners' = Owners \cup {p}
    <3>1. \A q \in Process : opc'[q] \in Owning <=> opc[q] \in Owning \/ q = p
        BY <1>t, <1>4 DEF Hold, Goto, Owning
    <3> QED BY <3>1 DEF Owners
  <2>2. p \notin Owners
      BY <1>4 DEF Hold, Owners, Owning
  <2>3. Owners = {} \/ removedHeld
    <3> SUFFICES ASSUME ~removedHeld, NEW q \in Owners PROVE FALSE
        OBVIOUS
    <3>1. p \in Owners' /\ q \in Owners' /\ ~removedHeld'
        BY <1>4, <2>1 DEF Hold
    <3>2. MutualExclusion'
        BY OneOwner, PTL
    <3>3. p = q
        BY <3>1, <3>2 DEF MutualExclusion
    <3> QED BY <2>2, <3>3
  <2> QED BY <1>4, <2>1, <2>2, <2>3 DEF Hold, LocalPromise!Acquire
<1>5. ASSUME NEW p \in Process, Close(p) \/ (Kill(p) /\ opc[p] \in Owning)
      PROVE  \E P \in SUBSET Process : LocalPromise!Release(P)
  <2>1. LocalPromise!Release({p})
      BY <1>2, <1>5 DEF Close, Kill
  <2> QED BY <2>1
<1>6. ASSUME NEW p \in Process, Kill(p), opc[p] \notin Owning
      PROVE  UNCHANGED <<Owners, removedHeld>>
    BY <1>1, <1>6 DEF Kill, Leave, Owning
<1>7. ASSUME NEW p \in Process, CloseFails(p)
      PROVE  UNCHANGED <<Owners, removedHeld>>
  <2>1. \A q \in Process : opc'[q] \in Owning <=> opc[q] \in Owning
      BY <1>t, <1>7 DEF CloseFails, Goto, Owning
  <2> QED BY <1>7, <2>1 DEF CloseFails, Owners
<1>8. ASSUME RemoveLockFile
      PROVE  UNCHANGED <<Owners, removedHeld>> \/ LocalPromise!Break
  <2>1. UNCHANGED Owners
      BY <1>8 DEF RemoveLockFile, Owners
  <2>2. removedHeld' = removedHeld \/ removedHeld' = TRUE
      BY <1>8 DEF RemoveLockFile, LockInv, LockTypeOK
  <2> QED BY <2>1, <2>2 DEF LocalPromise!Break
<1>9. ASSUME UNCHANGED lockVars
      PROVE  UNCHANGED <<Owners, removedHeld>>
    BY <1>9 DEF lockVars, Owners
<1> QED BY <1>3, <1>4, <1>5, <1>6, <1>7, <1>8, <1>9 DEF LockNext

(* Opening, closing and losing a local output root implement the lock that *)
(* the rest of the program relies on.                                      *)
THEOREM LocalRootKeepsPromise == LockSpec => LocalLockKept
<1>1. LockInit => LocalPromise!Init
    BY DEF LockInit, LocalPromise!Init, Owners, Owning
<1> QED
    BY <1>1, StepKeepsPromise, LockInvariant, PTL
    DEF LockSpec, LocalLockKept, LocalPromise!Spec

-----------------------------------------------------------------------------
(* The files.                                                              *)

(* An operation is under way only while its process holds the root: Close  *)
(* waits for it and a kill ends it.                                        *)
OpsOfHolders ==
    \A w \in Worker :
        UsesRoot(w) => op[w].proc \in Process /\ opc[op[w].proc] = "held"

Sound(f) == f.content # Torn /\ f.synced = TRUE

(* A file is whole before it is synced and synced before it is renamed, so *)
(* that no loss of power can tear what stands or stood at the path.        *)
SoundFiles ==
    /\ Sound(target)
    /\ \A f \in old : Sound(f)
    /\ \A w \in Worker :
          /\ op[w].at = "sync" => op[w].file.content = Whole
          /\ op[w].at \in {"check", "rename", "read"} => Sound(op[w].file)

(* The steps at which an operation answers for its temporary sibling.      *)
Answering == {"write", "sync", "check", "rename", "cleanup"}

Drawn ==
    \A w \in Worker : op[w].at \in Answering => op[w].temp \in TempName

Accounted ==
    \A n \in temps :
        n \in stranded \/ \E w \in Worker : op[w].temp = n /\ op[w].at \in Answering

FSInv == LockInv /\ FSTypeOK /\ OpsOfHolders /\ SoundFiles /\ Drawn /\ Accounted

LEMMA FSInvInit == FSInit => FSInv
<1> SUFFICES ASSUME FSInit PROVE FSInv
    OBVIOUS
<1>1. LockInv /\ LockTypeOK
    BY LockInvInit DEF FSInit, LockInv
<1>2. FSTypeOK
  <2>1. target \in File
    <3>1. None \in File
        BY DEF File
    <3>2. [content |-> Whole, synced |-> TRUE] \in File
        BY DEF File
    <3> QED BY <3>1, <3>2 DEF FSInit, FilesInit
  <2>2. Idle \in Op
      BY DEF Idle, Op, Steps, File
  <2>3. op \in [Worker -> Op]
      BY <2>2 DEF FSInit, FilesInit
  <2>4. crashes \in 0..MaxCrashes
      BY OutputFSAssumption DEF FSInit, FilesInit
  <2> QED BY <1>1, <2>1, <2>3, <2>4 DEF FSInit, FilesInit, FSTypeOK
<1>3. OpsOfHolders /\ SoundFiles /\ Accounted
    BY DEF FSInit, FilesInit, OpsOfHolders, UsesRoot, SoundFiles, Accounted, Sound, None, Whole,
           Torn, Idle
<1>4. Drawn
    BY DEF FSInit, FilesInit, Drawn, Answering, Idle
<1> QED BY <1>1, <1>2, <1>3, <1>4 DEF FSInv

-----------------------------------------------------------------------------
(* The steps of the lock.                                                  *)

(* A step of the lock leaves the files alone, and what else it may do does *)
(* not concern a run that has operations under way.                        *)
LEMMA LockStepKeeps ==
    ASSUME FSInv, LockInv', UNCHANGED fileVars,
           \A p \in Process : opc[p] = "held" /\ opc'[p] # "held" =>
                                 \A w \in Worker : UsesRoot(w) => op[w].proc # p
    PROVE  FSInv'
<1>1. FSTypeOK'
    BY DEF FSInv, FSTypeOK, LockInv, fileVars
<1>2. OpsOfHolders'
    BY DEF FSInv, OpsOfHolders, UsesRoot, fileVars
<1>3. SoundFiles' /\ Drawn' /\ Accounted'
    BY DEF FSInv, SoundFiles, Drawn, Accounted, fileVars
<1> QED BY <1>1, <1>2, <1>3 DEF FSInv

LEMMA OpeningKeeps ==
    ASSUME FSInv, NEW p \in Process, Open(p) \/ OpenFails(p) \/ Advance(p), UNCHANGED fileVars
    PROVE  FSInv'
<1>1. LockInv'
    BY LockInvNext DEF FSInv, LockNext
<1>2. opc \in [Process -> {"out"} \cup Opening \cup Owning]
    BY DEF FSInv, LockInv, LockTypeOK
<1>3. opc[p] # "held" /\ \A q \in Process \ {p} : opc'[q] = opc[q]
    BY <1>2 DEF Open, OpenFails, Advance, Lstat, CreateExclusive, CreateLost, CheckCreated,
                OpenLock, TryLock, Hold, Refuse, Leave, Goto, Opening
<1> QED BY <1>1, <1>3, LockStepKeeps

LEMMA CloseStoreKeeps ==
    ASSUME FSInv, NEW p \in Process, CloseStore(p)
    PROVE  FSInv'
<1>1. LockInv'
    BY LockInvNext DEF FSInv, LockNext, CloseStore
<1>2. opc \in [Process -> {"out"} \cup Opening \cup Owning]
    BY DEF FSInv, LockInv, LockTypeOK
<1>3. \A q \in Process \ {p} : opc'[q] = opc[q]
    BY <1>2 DEF CloseStore, Close, CloseFails, Leave, Goto
<1>4. \A w \in Worker : UsesRoot(w) => op[w].proc # p
    BY DEF CloseStore, Quiet
<1>5. UNCHANGED fileVars
    BY DEF CloseStore
<1> QED BY <1>1, <1>3, <1>4, <1>5, LockStepKeeps

LEMMA RemoveLockFileKeeps ==
    ASSUME FSInv, RemoveLockFile, UNCHANGED fileVars
    PROVE  FSInv'
<1>1. LockInv'
    BY LockInvNext DEF FSInv, LockNext
<1>2. UNCHANGED opc
    BY DEF RemoveLockFile
<1> QED BY <1>1, <1>2, LockStepKeeps

-----------------------------------------------------------------------------
(* The end of a process.                                                   *)

(* When processes end, what their operations answered for is stranded.     *)
LEMMA EndKeeps ==
    ASSUME FSInv, NEW P \in SUBSET Process,
           op' = [w \in Worker |-> IF op[w].proc \in P THEN Idle ELSE op[w]],
           stranded' = stranded \cup Abandoned(P),
           UNCHANGED temps
    PROVE  /\ op' \in [Worker -> Op]
           /\ stranded' \subseteq TempName
           /\ Drawn' /\ Accounted'
<1> USE DEF FSInv, FSTypeOK
<1>1. op' \in [Worker -> Op]
    BY DEF Op, Idle, Steps, File, None
<1>2. stranded' \subseteq TempName
    BY DEF Abandoned
<1>3. Accounted'
  <2> SUFFICES ASSUME NEW n \in temps, n \notin stranded'
               PROVE  \E w \in Worker : op'[w].temp = n /\ op'[w].at \in Answering
      BY DEF Accounted
  <2>1. PICK w \in Worker : op[w].temp = n /\ op[w].at \in Answering
      BY DEF Accounted
  <2>2. op[w].proc \notin P
      BY <2>1 DEF Abandoned
  <2> QED BY <2>1, <2>2
<1>4. Drawn'
    BY DEF Drawn, Answering, Idle
<1> QED BY <1>1, <1>2, <1>3, <1>4

LEMMA KillProcessKeeps ==
    ASSUME FSInv, NEW p \in Process, KillProcess(p)
    PROVE  FSInv'
<1>1. LockInv'
    BY LockInvNext DEF FSInv, LockNext, KillProcess
<1>2. /\ op' = [w \in Worker |-> IF op[w].proc \in {p} THEN Idle ELSE op[w]]
      /\ stranded' = stranded \cup Abandoned({p})
      /\ UNCHANGED <<target, old, temps, crashes>>
    BY DEF KillProcess
<1>3. op' \in [Worker -> Op] /\ stranded' \subseteq TempName /\ Drawn' /\ Accounted'
    BY <1>2, EndKeeps
<1>4. FSTypeOK'
    BY <1>1, <1>2, <1>3 DEF FSInv, FSTypeOK, LockInv
<1>5. OpsOfHolders'
  <2> SUFFICES ASSUME NEW w \in Worker, UsesRoot(w)'
               PROVE  op'[w].proc \in Process /\ opc'[op'[w].proc] = "held"
      BY DEF OpsOfHolders
  <2>1. op'[w] = op[w] /\ op[w].proc # p /\ UsesRoot(w)
      BY <1>2 DEF UsesRoot, Idle
  <2>2. op[w].proc \in Process /\ opc[op[w].proc] = "held"
      BY <2>1 DEF FSInv, OpsOfHolders
  <2>3. opc'[op[w].proc] = opc[op[w].proc]
      BY <2>1, <2>2 DEF KillProcess, Kill, Leave, Goto, FSInv, LockInv, LockTypeOK
  <2> QED BY <2>1, <2>2, <2>3
<1>6. SoundFiles'
  <2>1. \A w \in Worker : op'[w] = Idle \/ op'[w] = op[w]
      BY <1>2
  <2> QED BY <1>2, <2>1 DEF FSInv, SoundFiles, Sound, Idle, None, Torn
<1> QED BY <1>1, <1>3, <1>4, <1>5, <1>6 DEF FSInv

LEMMA LosePowerKeeps ==
    ASSUME FSInv, LosePower
    PROVE  FSInv'
<1> USE DEF FSInv
<1>1. LockInv'
  <2> USE OutputLockAssumption DEF LosePower, LockInv
  <2>1. LockTypeOK'
      BY DEF LockTypeOK
  <2>2. FlockOfHandle'
      BY DEF FlockOfHandle, HasFlock
  <2>3. HandleOpen' /\ OwnersHaveName'
      BY DEF HandleOpen, OwnersHaveName, Owners, Owning, HasFile
  <2> QED BY <2>1, <2>2, <2>3
<1>2. /\ op' = [w \in Worker |-> Idle]
      /\ \A w \in Worker : op'[w] = Idle
      /\ UNCHANGED temps
      /\ stranded' = stranded \cup Abandoned(Process)
    BY DEF LosePower
<1>3. op' \in [Worker -> Op] /\ stranded' \subseteq TempName
    BY <1>2 DEF FSTypeOK, Op, Idle, Steps, File, None, Abandoned
<1>4. Accounted'
  <2> SUFFICES ASSUME NEW n \in temps, n \notin stranded PROVE n \in Abandoned(Process)
      BY <1>2 DEF Accounted
  <2>1. PICK w \in Worker : op[w].temp = n /\ op[w].at \in Answering
      BY DEF Accounted
  <2>2. op[w].proc \in Process
      BY <2>1 DEF OpsOfHolders, UsesRoot, Answering
  <2> QED BY <2>1, <2>2 DEF Abandoned
<1>5. Sound(target') /\ target' \in File
  <2>1. PICK f \in old \cup {target} : target' = AfterLoss(f)
      BY DEF LosePower
  <2>2. Sound(f) /\ f \in File
      BY <2>1 DEF SoundFiles, FSTypeOK
  <2> QED BY <2>1, <2>2 DEF AfterLoss, Sound
<1>6. FSTypeOK'
    BY <1>1, <1>2, <1>3, <1>5, OutputFSAssumption DEF FSTypeOK, LosePower, LockInv
<1>7. OpsOfHolders' /\ SoundFiles'
    BY <1>2, <1>5 DEF OpsOfHolders, UsesRoot, SoundFiles, Sound, LosePower, Idle, None, Torn
<1>8. Drawn'
    BY <1>2 DEF Drawn, Answering, Idle
<1> QED BY <1>1, <1>4, <1>6, <1>7, <1>8

-----------------------------------------------------------------------------
(* The operations.                                                         *)

LEMMA BeginKeeps ==
    ASSUME FSInv, NEW w \in Worker, NEW p \in Process, Begin(w, p)
    PROVE  FSInv'
<1> USE DEF FSInv
<1>1. LockInv' /\ LockTypeOK'
    BY DEF Begin, lockVars, LockInv, LockTypeOK, FlockOfHandle, HandleOpen, OwnersHaveName, Owners
<1>2. PICK step \in {"create", "remove", "open"} :
          op' = [op EXCEPT ![w] = [Idle EXCEPT !.at = step, !.proc = p]]
    BY DEF Begin
<1>3. FSTypeOK'
    BY <1>1, <1>2 DEF FSTypeOK, Begin, Op, Idle, Steps, File, None
<1>4. OpsOfHolders'
    BY <1>2 DEF OpsOfHolders, UsesRoot, FSTypeOK, Begin, lockVars, Idle
<1>5. SoundFiles'
    BY <1>2 DEF SoundFiles, FSTypeOK, Begin, Sound, Idle
<1>6. Drawn' /\ Accounted'
    BY <1>2 DEF Drawn, Accounted, FSTypeOK, Begin, Answering, Idle
<1> QED BY <1>1, <1>3, <1>4, <1>5, <1>6

(* A step of an operation under way neither changes the lock nor hands the *)
(* operation to another process.                                           *)
LEMMA UsingKeepsLock ==
    ASSUME FSInv, NEW w \in Worker, Using(w)
    PROVE  LockInv' /\ LockTypeOK' /\ OpsOfHolders'
<1> USE DEF FSInv
<1>1. UNCHANGED lockVars
    BY DEF Using, CreateSibling, Write, Sync, VerifyReplaceTarget, RenameOver, SyncDirectory,
           CreateFails, ReplaceFails, CleanUp, Remove, RemoveFails, OpenRegular, Read
<1>2. LockInv' /\ LockTypeOK'
    BY <1>1 DEF lockVars, LockInv, LockTypeOK, FlockOfHandle, HandleOpen, OwnersHaveName, Owners
<1>3. op \in [Worker -> Op] /\ op[w] \in Op
    BY DEF FSTypeOK
<1>4. /\ UsesRoot(w)' => op'[w].proc = op[w].proc /\ UsesRoot(w)
      /\ \A v \in Worker \ {w} : op'[v] = op[v]
  <2>1. CASE CreateSibling(w)
      BY <1>3, <2>1 DEF CreateSibling, Op, UsesRoot
  <2>2. CASE Write(w)
      BY <1>3, <2>2 DEF Write, Op, UsesRoot
  <2>3. CASE Sync(w)
      BY <1>3, <2>3 DEF Sync, Op, UsesRoot
  <2>4. CASE VerifyReplaceTarget(w) \/ RenameOver(w) \/ ReplaceFails(w)
      BY <1>3, <2>4 DEF VerifyReplaceTarget, RenameOver, ReplaceFails, Do, Op, UsesRoot
  <2>5. CASE OpenRegular(w)
      BY <1>3, <2>5 DEF OpenRegular, Finish, Op, UsesRoot, Idle
  <2>6. CASE \/ SyncDirectory(w) \/ CreateFails(w) \/ CleanUp(w) \/ Remove(w)
             \/ RemoveFails(w) \/ Read(w)
      BY <1>3, <2>6 DEF SyncDirectory, CreateFails, CleanUp, Remove, RemoveFails, Read, Finish,
                        UsesRoot, Idle
  <2> QED BY <2>1, <2>2, <2>3, <2>4, <2>5, <2>6 DEF Using
<1>5. OpsOfHolders'
    BY <1>1, <1>4 DEF OpsOfHolders, UsesRoot, lockVars
<1> QED BY <1>2, <1>5

LEMMA UsingKeepsFiles ==
    ASSUME FSInv, NEW w \in Worker, Using(w), LockTypeOK'
    PROVE  FSTypeOK' /\ SoundFiles' /\ Drawn' /\ Accounted'
<1> USE DEF FSInv
<1>t. /\ op \in [Worker -> Op] /\ op[w] \in Op /\ op[w].file \in File
      /\ target \in File /\ old \subseteq File /\ temps \subseteq TempName
      /\ stranded \subseteq TempName /\ crashes \in 0..MaxCrashes
    BY DEF FSTypeOK, Op
<1>1. CASE CreateSibling(w)
  <2>1. PICK n \in TempName \ temps :
            /\ temps' = temps \cup {n}
            /\ op' = [op EXCEPT ![w].at = "write", ![w].temp = n,
                                ![w].file = [content |-> Torn, synced |-> FALSE]]
      BY <1>1 DEF CreateSibling
  <2>2. /\ op'[w].at = "write" /\ op'[w].temp = n
        /\ \A v \in Worker \ {w} : op'[v] = op[v]
        /\ UNCHANGED <<target, old, stranded, crashes>>
      BY <1>1, <1>t, <2>1 DEF CreateSibling, Op
  <2>3. op' \in [Worker -> Op]
      BY <1>t, <2>1 DEF Op, Steps, File
  <2>4. FSTypeOK'
      BY <1>t, <2>1, <2>2, <2>3 DEF FSTypeOK
  <2>5. SoundFiles'
      BY <2>2 DEF SoundFiles
  <2>6. Accounted'
    <3>1. op[w].at \notin Answering
        BY <1>1 DEF CreateSibling, Answering
    <3>2. op'[w].at \in Answering
        BY <2>2 DEF Answering
    <3> SUFFICES ASSUME NEW m \in temps', m \notin stranded'
                 PROVE  \E v \in Worker : op'[v].temp = m /\ op'[v].at \in Answering
        BY DEF Accounted
    <3>3. CASE m = n
        BY <2>2, <3>2, <3>3
    <3>4. CASE m \in temps
      <4>1. PICK v \in Worker : op[v].temp = m /\ op[v].at \in Answering
          BY <2>2, <3>4 DEF Accounted
      <4> QED BY <2>2, <3>1, <4>1
    <3> QED BY <2>1, <3>3, <3>4
  <2>7. Drawn'
      BY <2>1, <2>2 DEF Drawn
  <2> QED BY <2>4, <2>5, <2>6, <2>7
<1>2. CASE Write(w) \/ Sync(w) \/ VerifyReplaceTarget(w)
  <2>1. /\ op'[w].temp = op[w].temp /\ op[w].at \in Answering /\ op'[w].at \in Answering
        /\ \A v \in Worker \ {w} : op'[v] = op[v]
        /\ UNCHANGED <<target, old, temps, stranded, crashes>>
      BY <1>2, <1>t DEF Write, Sync, VerifyReplaceTarget, Do, Op, Answering
  <2>2. op' \in [Worker -> Op]
      BY <1>2, <1>t DEF Write, Sync, VerifyReplaceTarget, Do, Op, Steps, File, None
  <2>3. FSTypeOK'
      BY <1>t, <2>1, <2>2 DEF FSTypeOK
  <2>4. /\ op'[w].at = "sync" => op'[w].file.content = Whole
        /\ op'[w].at \in {"check", "rename", "read"} => Sound(op'[w].file)
    <3>1. CASE Write(w)
        BY <1>t, <3>1 DEF Write, Op, File, None
    <3>2. CASE Sync(w)
      <4>1. op[w].file.content = Whole
          BY <3>2 DEF Sync, SoundFiles
      <4>2. op'[w].at = "check" /\ op'[w].file = [op[w].file EXCEPT !.synced = TRUE]
          BY <1>t, <3>2 DEF Sync, Op
      <4>3. op'[w].file.content = Whole /\ op'[w].file.synced = TRUE
          BY <1>t, <4>1, <4>2 DEF File, None
      <4> QED BY <4>2, <4>3 DEF Sound, Whole, Torn
    <3>3. CASE VerifyReplaceTarget(w)
      <4>1. Sound(op[w].file) /\ op'[w].file = op[w].file /\ op'[w].at = "rename"
          BY <1>t, <3>3 DEF VerifyReplaceTarget, Do, SoundFiles, Op
      <4> QED BY <4>1
    <3> QED BY <1>2, <3>1, <3>2, <3>3
  <2>5. SoundFiles'
      BY <2>1, <2>4 DEF SoundFiles
  <2>6. Drawn' /\ Accounted'
      BY <2>1 DEF Drawn, Accounted
  <2> QED BY <2>3, <2>5, <2>6
<1>3. CASE RenameOver(w)
  <2>1. /\ op'[w].at = "syncdir" /\ op' \in [Worker -> Op]
        /\ \A v \in Worker \ {w} : op'[v] = op[v]
        /\ target' = op[w].file /\ old' = old \cup {target} /\ temps' = temps \ {op[w].temp}
        /\ UNCHANGED <<stranded, crashes>>
      BY <1>3, <1>t DEF RenameOver, Do, Op, Steps
  <2>2. FSTypeOK'
      BY <1>t, <2>1 DEF FSTypeOK
  <2>3. SoundFiles'
      BY <1>3, <2>1 DEF RenameOver, SoundFiles
  <2>4. Accounted'
      BY <2>1 DEF Accounted
  <2>5. Drawn'
      BY <2>1 DEF Drawn, Answering
  <2> QED BY <2>2, <2>3, <2>4, <2>5
<1>4. CASE ReplaceFails(w)
  <2>1. /\ op'[w].at = "cleanup" /\ op'[w].temp = op[w].temp /\ op' \in [Worker -> Op]
        /\ \A v \in Worker \ {w} : op'[v] = op[v]
        /\ UNCHANGED <<target, old, temps, stranded, crashes>>
      BY <1>4, <1>t DEF ReplaceFails, Do, Op, Steps
  <2>2. op[w].at \in Answering /\ op'[w].at \in Answering
      BY <1>4, <2>1 DEF ReplaceFails, Answering
  <2>3. FSTypeOK' /\ SoundFiles'
      BY <1>t, <2>1 DEF FSTypeOK, SoundFiles
  <2>4. Drawn' /\ Accounted'
      BY <2>1, <2>2 DEF Drawn, Accounted
  <2> QED BY <2>3, <2>4
<1>5. CASE CleanUp(w)
  <2>1. /\ op'[w] = Idle /\ op' \in [Worker -> Op]
        /\ \A v \in Worker \ {w} : op'[v] = op[v]
        /\ \/ temps' = temps \ {op[w].temp} /\ UNCHANGED stranded
           \/ stranded' = stranded \cup {op[w].temp} /\ UNCHANGED temps
        /\ UNCHANGED <<target, old, crashes>>
      BY <1>5, <1>t DEF CleanUp, Finish, Op, Idle, Steps, File, None
  <2>2. op[w].temp \in TempName
      BY <1>5 DEF CleanUp, Drawn, Answering
  <2>3. Accounted'
    <3> SUFFICES ASSUME NEW n \in temps', n \notin stranded'
                 PROVE  \E v \in Worker : op'[v].temp = n /\ op'[v].at \in Answering
        BY DEF Accounted
    <3>1. n \in temps /\ n \notin stranded /\ n # op[w].temp
        BY <2>1
    <3>2. PICK v \in Worker : op[v].temp = n /\ op[v].at \in Answering
        BY <3>1 DEF Accounted
    <3> QED BY <2>1, <3>1, <3>2
  <2>4. SoundFiles' /\ Drawn'
      BY <2>1 DEF SoundFiles, Sound, Idle, None, Torn, Drawn, Answering
  <2> QED BY <1>t, <2>1, <2>2, <2>3, <2>4 DEF FSTypeOK
<1>6. CASE OpenRegular(w) /\ target # None
  <2>1. /\ op'[w].at = "read" /\ op'[w].file = target /\ op' \in [Worker -> Op]
        /\ op[w].at = "open"
        /\ \A v \in Worker \ {w} : op'[v] = op[v]
        /\ UNCHANGED <<target, old, temps, stranded, crashes>>
      BY <1>6, <1>t DEF OpenRegular, Op, Steps
  <2> QED BY <1>t, <2>1 DEF FSTypeOK, SoundFiles, Drawn, Accounted, Answering
<1>7. CASE \/ SyncDirectory(w) \/ CreateFails(w) \/ Remove(w) \/ RemoveFails(w) \/ Read(w)
           \/ OpenRegular(w) /\ target = None
  <2>1. /\ op'[w] = Idle /\ op' \in [Worker -> Op]
        /\ op[w].at \notin Answering
        /\ \A v \in Worker \ {w} : op'[v] = op[v]
        /\ target' \in {target, None} /\ old' \subseteq old \cup {target}
        /\ UNCHANGED <<temps, stranded, crashes>>
    <3>1. op' = [op EXCEPT ![w] = Idle]
        BY <1>7 DEF SyncDirectory, CreateFails, Remove, RemoveFails, Read, OpenRegular, Finish
    <3>2. Idle \in Op
        BY DEF Idle, Op, Steps, File
    <3>3. op[w].at \notin Answering
        BY <1>7 DEF SyncDirectory, CreateFails, Remove, RemoveFails, Read, OpenRegular, Answering
    <3>4. /\ target' \in {target, None} /\ old' \subseteq old \cup {target}
          /\ UNCHANGED <<temps, stranded, crashes>>
        BY <1>7 DEF SyncDirectory, CreateFails, Remove, RemoveFails, Read, OpenRegular
    <3> QED BY <1>t, <3>1, <3>2, <3>3, <3>4
  <2>2. FSTypeOK'
      BY <1>t, <2>1 DEF FSTypeOK, File
  <2>3. SoundFiles'
      BY <2>1 DEF SoundFiles, Sound, Idle, None, Torn
  <2>4. Accounted'
      BY <2>1 DEF Accounted
  <2>5. Drawn'
      BY <2>1 DEF Drawn, Answering, Idle
  <2> QED BY <2>2, <2>3, <2>4, <2>5
<1> QED BY <1>1, <1>2, <1>3, <1>4, <1>5, <1>6, <1>7 DEF Using

LEMMA FSInvNext == FSInv /\ [FSNext]_fsVars => FSInv'
<1> SUFFICES ASSUME FSInv, [FSNext]_fsVars PROVE FSInv'
    OBVIOUS
<1>1. ASSUME NEW p \in Process, Open(p) \/ OpenFails(p), UNCHANGED fileVars PROVE FSInv'
    BY <1>1, OpeningKeeps
<1>2. ASSUME NEW p \in Process, OpeningStep(p) PROVE FSInv'
    BY <1>2, OpeningKeeps DEF OpeningStep
<1>3. ASSUME NEW p \in Process, CloseStore(p) PROVE FSInv'
    BY <1>3, CloseStoreKeeps
<1>4. ASSUME NEW p \in Process, KillProcess(p) PROVE FSInv'
    BY <1>4, KillProcessKeeps
<1>5. ASSUME NEW w \in Worker, Using(w) PROVE FSInv'
    BY <1>5, UsingKeepsLock, UsingKeepsFiles DEF FSInv
<1>6. ASSUME NEW w \in Worker, NEW p \in Process, Begin(w, p) PROVE FSInv'
    BY <1>6, BeginKeeps
<1>7. CASE RemoveLockFile /\ UNCHANGED fileVars
    BY <1>7, RemoveLockFileKeeps
<1>8. CASE LosePower
    BY <1>8, LosePowerKeeps
<1>9. CASE UNCHANGED fsVars
  <2>1. LockInv'
      BY <1>9, LockInvNext DEF FSInv, fsVars
  <2>2. UNCHANGED fileVars /\ UNCHANGED opc
      BY <1>9 DEF fsVars, lockVars
  <2> QED BY <2>1, <2>2, LockStepKeeps
<1> QED BY <1>1, <1>2, <1>3, <1>4, <1>5, <1>6, <1>7, <1>8, <1>9 DEF FSNext

(* What the operations of a local root keep true, whatever is killed and   *)
(* whenever power is lost.                                                 *)
THEOREM FSInvariant == FSSpec => []FSInv
BY FSInvInit, FSInvNext, PTL DEF FSSpec

(* A file at a path of the archive is never torn, nor is what a reader of  *)
(* it gets: AtomicReplace syncs before it renames.                         *)
THEOREM FilesStayWhole == FSSpec => []FileIsWhole
<1>1. FSInv => FileIsWhole
    BY DEF FSInv, SoundFiles, Sound, FileIsWhole
<1> QED BY <1>1, FSInvariant, PTL

(* Operations of two runs are never under way in one output root at once:  *)
(* the lock outlasts the operations, as Close waits for them.              *)
THEOREM OneRunAtATime == FSSpec => []OneRunWrites
<1>1. FSInv => OneRunWrites
  <2> SUFFICES ASSUME FSInv, ~removedHeld, NEW v \in Worker, NEW w \in Worker,
                      UsesRoot(v), UsesRoot(w)
               PROVE  op[v].proc = op[w].proc
      BY DEF OneRunWrites
  <2>1. op[v].proc \in Owners /\ op[w].proc \in Owners
      BY DEF FSInv, OpsOfHolders, Owners, Owning
  <2>2. MutualExclusion
      BY OneOwner DEF FSInv
  <2> QED BY <2>1, <2>2 DEF MutualExclusion
<1> QED BY <1>1, FSInvariant, PTL

(* Every error path of AtomicReplace cleans up: a temporary sibling in the *)
(* directory is in use, was left by a kill, or could not be removed.       *)
THEOREM NoSiblingIsForgotten == FSSpec => []NoLitter
<1>1. FSInv => NoLitter
    BY DEF FSInv, Accounted, NoLitter
<1> QED BY <1>1, FSInvariant, PTL

-----------------------------------------------------------------------------
(* The lock of a root that is used.                                        *)

LEMMA UseKeepsPromise ==
    FSInv /\ FSInv' /\ [FSNext]_fsVars => [LocalPromise!Next]_(LocalPromise!vars)
<1> SUFFICES ASSUME FSInv, FSInv', [FSNext]_fsVars
             PROVE  [LocalPromise!Next]_(LocalPromise!vars)
    OBVIOUS
<1>1. CASE LosePower
  <2>1. Owners' = Owners \ Owners
      BY <1>1 DEF LosePower, Owners, Owning
  <2>2. Owners \in SUBSET Process
      BY DEF Owners
  <2>3. LocalPromise!Release(Owners)
      BY <1>1, <2>1 DEF LosePower, LocalPromise!Release
  <2> QED BY <2>2, <2>3 DEF LocalPromise!Next
<1>2. CASE ~LosePower
  <2>1. [LockNext]_lockVars
      BY <1>2 DEF FSNext, LockNext, OpeningStep, CloseStore, KillProcess, Begin, fsVars, Using,
                  CreateSibling, Write, Sync, VerifyReplaceTarget, RenameOver, SyncDirectory,
                  CreateFails, ReplaceFails, CleanUp, Remove, RemoveFails, OpenRegular, Read
  <2> QED BY <2>1, StepKeepsPromise DEF FSInv
<1> QED BY <1>1, <1>2

(* A local output root that is opened, used, closed, killed and loses      *)
(* power implements the lock that the rest of the program relies on.       *)
THEOREM OutputRootKeepsPromise == FSSpec => LocalLockKept
<1>1. FSInit => LocalPromise!Init
    BY DEF FSInit, LockInit, LocalPromise!Init, Owners, Owning
<1> QED
    BY <1>1, UseKeepsPromise, FSInvariant, PTL
    DEF FSSpec, LocalLockKept, LocalPromise!Spec

=============================================================================
