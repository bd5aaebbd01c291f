----------------------------- MODULE MC_Resources ----------------------------
(***************************************************************************)
(* What a run takes hold of before it works, for TLC: the session of a     *)
(* browser, and the store, which is a local output root or a bucket.  They *)
(* share nothing, so that each is checked by itself.                       *)
(***************************************************************************)
EXTENDS OutputFS, S3Lock, CookieImport, TLC

VARIABLE part

vars == <<part, fsVars, s3vars, cookieVars>>

-----------------------------------------------------------------------------
(* The cookie files: two of the default profile of a Chromium browser, the *)
(* second of which is preferred, and one of another browser.               *)
ThreeFiles  == 1..3
TwoProfiles == <<1, 1, 2>>
Ranks       == <<1, 0, 0>>
Defaults    == <<FALSE, FALSE, TRUE>>

(* A session without container, one in a container, a cookie that is not   *)
(* imported, and one more.                                                 *)
ThreeCookies ==
    {[class |-> "session", container |-> 0, partitioned |-> FALSE],
     [class |-> "session", container |-> 1, partitioned |-> FALSE],
     [class |-> "token",   container |-> 0, partitioned |-> TRUE]}

FourCookies == ThreeCookies \cup {[class |-> "token", container |-> 1, partitioned |-> FALSE]}

FileContents == {f \in [ThreeFiles -> SUBSET FourCookies] : f[1] = {}}

(* Two candidates of equal standing in all but their cookies and the time  *)
(* of their last change, of which the browser writes none.                 *)
StillFiles ==
    /\ found = Paths
    /\ modified[1] = 0
    /\ container = AnyContainer

(* One candidate, which the browser writes.                                *)
OneFile ==
    /\ found \in {{}, {1, 2}}
    /\ modified = [p \in Paths |-> 0]
    /\ mainFile[2] \subseteq ThreeCookies
    /\ Cardinality(mainFile[2]) <= 1
    /\ mainFile[3] = {}
    /\ container # 0

(* Two candidates, and a browser that writes once.                         *)
TwoFiles ==
    /\ found = {2, 3}
    /\ modified = [p \in Paths |-> 0]
    /\ container = AnyContainer
    /\ \A p \in Paths : mainFile[p] \subseteq ThreeCookies

CookieParts == {"still", "one", "two"}

-----------------------------------------------------------------------------
(* What is not looked at stays as it is.                                   *)
NoLocalRoot == lockFile = NoFile /\ target = None
NoBucket    == ahead = [c \in Client |-> 0]
NoCookies   ==
    /\ mainFile = [p \in Paths |-> {}]
    /\ modified = [p \in Paths |-> 0]
    /\ found = {}
    /\ container = AnyContainer

Init ==
    /\ part \in {"local", "s3"} \cup CookieParts
    /\ FSInit
    /\ part # "local" => NoLocalRoot
    /\ S3Init
    /\ part # "s3" => NoBucket
    /\ CookieInit
    /\ part \notin CookieParts => NoCookies
    /\ part = "still" => StillFiles
    /\ part = "one" => OneFile
    /\ part = "two" => TwoFiles

Next ==
    /\ UNCHANGED part
    /\ \/ part = "local" /\ FSNext /\ UNCHANGED <<s3vars, cookieVars>>
       \/ part = "s3" /\ S3Next /\ UNCHANGED <<fsVars, cookieVars>>
       \/ /\ part \in CookieParts
          /\ CookieNext
          /\ UNCHANGED <<fsVars, s3vars>>
          /\ part = "still" => UNCHANGED <<commits, mishaps>>
          /\ part = "two" => UNCHANGED mishaps /\ commits' <= 1
          /\ part # "still" => \A p \in Paths : View(p)' \subseteq ThreeCookies

Spec == Init /\ [][Next]_vars

(* Which process, goroutine or name is which makes no difference.          *)
Interchangeable ==
    Permutations(Process) \cup Permutations(Worker) \cup Permutations(TempName)

-----------------------------------------------------------------------------
TypeOK == FSTypeOK /\ S3TypeOK /\ CookieTypeOK

=============================================================================
