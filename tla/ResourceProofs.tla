---------------------------- MODULE ResourceProofs ---------------------------
(***************************************************************************)
(* What is proved of the output root, of the bucket and of the import of a *)
(* session, each by itself, holds of the three beside each other, as they  *)
(* are in MC_Resources.                                                    *)
(***************************************************************************)
EXTENDS MC_Resources, OutputFSProofs, S3LockProofs, CookieProofs

(* A step of one part leaves the others alone, so that each part goes on   *)
(* as its own specification says.                                          *)
THEOREM PartsAreIndependent == Spec => FSSpec /\ S3Spec /\ CookieSpec
<1>1. Init => FSInit /\ S3Init /\ CookieInit
    BY DEF Init
<1>2. [Next]_vars => [FSNext]_fsVars /\ [S3Next]_s3vars /\ [CookieNext]_cookieVars
    BY DEF Next, vars
<1> QED BY <1>1, <1>2, PTL DEF Spec, FSSpec, S3Spec, CookieSpec

(* Files, locks and cookies keep their types, for any number of processes, *)
(* goroutines, runs and cookie files.                                      *)
THEOREM ResourcesTypeCorrect == Spec => []TypeOK
<1>1. FSInv /\ S3Inv /\ CookieTypeOK => TypeOK
    BY DEF FSInv, S3Inv, TypeOK
<1> QED BY <1>1, PartsAreIndependent, FSInvariant, S3Invariant, CookieTypesKept, PTL

(* The three beside each other keep all that is proved of each.            *)
THEOREM ResourcesAreSafe ==
    Spec => /\ [](OneRunWrites /\ MutualExclusion /\ FileIsWhole /\ NoLitter)
            /\ []HolderIsVisible
            /\ [](JarIsOneSession /\ SessionLeavesNoCopy /\ StrongestProfileWins)
            /\ LocalLockKept /\ BucketLockKept
<1>1. FSInv => MutualExclusion
    BY OneOwner DEF FSInv
<1> QED BY <1>1, PartsAreIndependent, FSInvariant, OneRunAtATime, FilesStayWhole,
           NoSiblingIsForgotten, HoldersAreVisible, TheJarIsOneSession, NoCopyIsLeft,
           TheStrongestProfileWins, OutputRootKeepsPromise, BucketKeepsPromise, PTL

=============================================================================
