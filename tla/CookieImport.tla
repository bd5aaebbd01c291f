----------------------------- MODULE CookieImport ----------------------------
(***************************************************************************)
(* The import of a Pixieset session from a browser that keeps running      *)
(* (internal/browsercookies, Load and what it calls): every candidate file *)
(* is scanned, the strongest is copied and read, and one of its containers *)
(* fills the cookie jar.                                                   *)
(*                                                                         *)
(* A cookie file is an SQLite database: what the browser commits goes to a *)
(* write-ahead log beside the main file and is folded into it from time to *)
(* time.  A copy takes the main file first and the log after it.           *)
(***************************************************************************)
EXTENDS CookieChoice, FiniteSetsExt

CONSTANTS
    Cookie,        \* the cookies there may be
    InitialFiles,  \* the contents the main files may begin with
    Selectors,     \* the containers a person may name, and AnyContainer
    AnyContainer,
    NoLog,         \* an empty write-ahead log
    NoCopy,        \* no copy is being made
    NoSession,
    MaxCommits,    \* how often the browser commits
    MaxMishaps     \* how often something that the import does fails

Sessions == [file : Paths, container : Nat, jar : SUBSET Cookie]

(* A copy is made of the main file and its log, or of the main file alone. *)
Copies ==
    [for : {"scan", "import"}, file : Paths, at : {"main", "log", "recover", "read"},
     logs : BOOLEAN, main : SUBSET Cookie, log : {NoLog} \cup SUBSET Cookie,
     disturbed : BOOLEAN, stamp : 0..2]

ASSUME CookieImportAssumption ==
    /\ IsFiniteSet(Cookie)
    /\ \A c \in Cookie :
          /\ c.class \in {"session", "token", "other"}
          /\ c.container \in Nat
          /\ c.partitioned \in BOOLEAN
    /\ InitialFiles \subseteq [Paths -> SUBSET Cookie]
    /\ NoCopy \notin Copies /\ NoSession \notin Sessions
    /\ MaxCommits \in Nat /\ MaxMishaps \in Nat

VARIABLES
    mainFile,      \* the cookies in each main file
    wal,           \* the cookies when the log of a file is applied
    modified,      \* when each main file changed last
    commits,       \* the number of commits so far
    found,         \* the files that match the browser and profile asked for
    container,     \* the container asked for
    importer,      \* where Load is
    evidence,      \* what the scan found so far
    copy,          \* the snapshot that is being made or read
    session,       \* what Load returns
    strays,        \* snapshot directories that could not be removed
    mishaps,       \* the number of failures so far
    saved,         \* history: states of the chosen file while it was imported
    mixed          \* history: a copy that matches no state was not detected

browserVars == <<mainFile, wal, modified, commits>>
importVars  == <<found, container, importer, evidence, copy, session, strays, mishaps, saved, mixed>>
cookieVars  == <<browserVars, importVars>>

View(p) == IF wal[p] = NoLog THEN mainFile[p] ELSE wal[p]

CookieInit ==
    /\ mainFile \in InitialFiles
    /\ wal = [p \in Paths |-> NoLog]
    /\ modified \in [Paths -> {0, 1}]
    /\ commits = 0
    /\ found \in SUBSET Paths
    /\ container \in Selectors
    /\ importer = "start"
    /\ evidence = << >>
    /\ copy = NoCopy
    /\ session = NoSession
    /\ strays = {}
    /\ mishaps = 0
    /\ saved = {}
    /\ mixed = FALSE

-----------------------------------------------------------------------------
(* The browser.                                                            *)

Importing(p) == copy # NoCopy /\ copy.for = "import" /\ copy.file = p

Copying(p) == copy # NoCopy /\ copy.file = p /\ copy.at \in {"main", "log"}

(* The person signs in or out, or the site sets a cookie.                  *)
Commit(p) ==
    /\ commits < MaxCommits
    /\ importer # "answered"
    /\ commits' = commits + 1
    /\ \E c \in Cookie :
          LET new == IF c \in View(p) THEN View(p) \ {c} ELSE View(p) \cup {c}
          IN  /\ wal' = [wal EXCEPT ![p] = new]
              /\ saved' = IF Importing(p) THEN saved \cup {new} ELSE saved
    /\ UNCHANGED <<mainFile, modified, found, container, importer, evidence, copy, session,
                   strays, mishaps, mixed>>

(* A copy that is under way has parts from before and from after.          *)
Checkpoint(p) ==
    /\ wal[p] # NoLog
    /\ importer # "answered"
    /\ mainFile' = [mainFile EXCEPT ![p] = wal[p]]
    /\ wal' = [wal EXCEPT ![p] = NoLog]
    /\ modified' = [modified EXCEPT ![p] = 2]
    /\ copy' = IF Copying(p) THEN [copy EXCEPT !.disturbed = TRUE] ELSE copy
    /\ UNCHANGED <<commits, found, container, importer, evidence, session, strays, mishaps,
                   saved, mixed>>

-----------------------------------------------------------------------------
(* The scan.                                                               *)

Mishap == mishaps < MaxMishaps /\ mishaps' = mishaps + 1

(* collectStores and selectStore: what is there to be scanned?             *)
Collect ==
    /\ importer = "start"
    /\ importer' = IF Candidates(found) = {} THEN "answered" ELSE "scan"
    /\ UNCHANGED <<browserVars, found, container, evidence, copy, session, strays, mishaps,
                   saved, mixed>>

Unscanned == Candidates(found) \ DOMAIN evidence

(* The candidates are scanned in the order of their paths.                 *)
NextFile == Min(Unscanned)

Scanning == importer = "scan" /\ copy = NoCopy /\ Unscanned # {}

Scanned(p, stamp, cookies) ==
    \E best \in Best(Groups(cookies)) :
        evidence' = [q \in (DOMAIN evidence) \cup {p} |->
                        IF q = p THEN [container |-> best.container, score |-> best.score,
                                       modified |-> stamp]
                        ELSE evidence[q]]

StartCopy(purpose, p) ==
    copy' = [for |-> purpose, file |-> p, at |-> "main", logs |-> TRUE, main |-> {},
             log |-> NoLog, disturbed |-> FALSE, stamp |-> modified[p]]

(* The live read sees no log.                                              *)
LiveReadSuffices(p) == mainFile[p] # {} \/ wal[p] = NoLog

(* inspectCandidate reads the main file where it is, without a lock.       *)
LiveRead ==
    /\ Scanning
    /\ LiveReadSuffices(NextFile)
    /\ Scanned(NextFile, modified[NextFile], mainFile[NextFile])
    /\ UNCHANGED <<browserVars, found, container, importer, copy, session, strays, mishaps,
                   saved, mixed>>

(* A snapshot is read when the live file shows nothing and has a log, or   *)
(* cannot be read as it changes.                                           *)
ScanSnapshot ==
    /\ Scanning
    /\ \/ ~LiveReadSuffices(NextFile) /\ UNCHANGED mishaps
       \/ Mishap
    /\ StartCopy("scan", NextFile)
    /\ UNCHANGED <<browserVars, found, container, importer, evidence, session, strays, saved,
                   mixed>>

(* scanCandidates keeps the strongest; its file is copied anew.            *)
Choose ==
    /\ importer = "scan"
    /\ copy = NoCopy
    /\ Unscanned = {}
    /\ importer' = "import"
    /\ LET p == Strongest(evidence)
       IN  /\ StartCopy("import", p)
           /\ saved' = {mainFile[p], View(p)}
    /\ UNCHANGED <<browserVars, found, container, evidence, session, strays, mishaps, mixed>>

-----------------------------------------------------------------------------
(* The snapshot.                                                           *)

CopyAt(step) == copy # NoCopy /\ copy.at = step

(* The main file has been copied: it is what it was at some moment, unless *)
(* a checkpoint came in between.                                           *)
CopyMain ==
    /\ CopyAt("main")
    /\ copy' = [copy EXCEPT !.main = mainFile[copy.file],
                            !.at = IF copy.logs THEN "log" ELSE "recover"]
    /\ UNCHANGED <<browserVars, found, container, importer, evidence, session, strays, mishaps,
                   saved, mixed>>

CopyLog ==
    /\ CopyAt("log")
    /\ copy' = [copy EXCEPT !.log = wal[copy.file], !.at = "recover"]
    /\ UNCHANGED <<browserVars, found, container, importer, evidence, session, strays, mishaps,
                   saved, mixed>>

(* SQLite folds the copied log into the copied main file.                  *)
Recovered == IF copy.log = NoLog THEN copy.main ELSE copy.log

(* When the parts do not agree the integrity check may not notice, and     *)
(* the copy may hold any of the cookies of either.                         *)
Recover ==
    /\ CopyAt("recover")
    /\ \/ /\ ~copy.disturbed
          /\ copy' = [copy EXCEPT !.main = Recovered, !.at = "read"]
          /\ UNCHANGED mixed
       \/ /\ copy.disturbed
          /\ \E mix \in SUBSET (copy.main \cup Recovered) :
                copy' = [copy EXCEPT !.main = mix, !.at = "read"]
          /\ mixed' = (mixed \/ copy.for = "import")
    /\ UNCHANGED <<browserVars, found, container, importer, evidence, session, strays, mishaps,
                   saved>>

(* The main file alone is copied when the copy with the log is no sound    *)
(* database or could not be made.                                          *)
CopyMainAlone ==
    /\ copy # NoCopy /\ copy.logs /\ copy.at # "read"
    /\ \/ CopyAt("recover") /\ copy.disturbed /\ UNCHANGED mishaps
       \/ Mishap
    /\ copy' = [copy EXCEPT !.logs = FALSE, !.at = "main", !.main = {}, !.log = NoLog,
                            !.disturbed = FALSE]
    /\ UNCHANGED <<browserVars, found, container, importer, evidence, session, strays, saved, mixed>>

(* The directory of the snapshot is removed on every path.                 *)
RemoveCopy ==
    /\ copy' = NoCopy
    /\ UNCHANGED strays

LeaveCopy ==
    /\ copy' = NoCopy
    /\ strays' = strays \cup {copy.for}

(* No snapshot, or it cannot be read, or the stores cannot be closed: the  *)
(* file gives no evidence, or Load ends with an error.                     *)
CopyFails ==
    /\ copy # NoCopy
    /\ \/ CopyAt("recover") /\ copy.disturbed /\ ~copy.logs /\ UNCHANGED mishaps
       \/ Mishap
    /\ IF copy.for = "scan"
       THEN Scanned(copy.file, copy.stamp, {}) /\ UNCHANGED importer
       ELSE importer' = "answered" /\ UNCHANGED evidence
    /\ RemoveCopy \/ LeaveCopy
    /\ UNCHANGED <<browserVars, found, container, session, saved, mixed>>

(* The result of the scan does not depend on the removal.                  *)
InspectSnapshot ==
    /\ CopyAt("read")
    /\ copy.for = "scan"
    /\ Scanned(copy.file, copy.stamp, copy.main)
    /\ RemoveCopy \/ LeaveCopy
    /\ UNCHANGED <<browserVars, found, container, importer, session, mishaps, saved, mixed>>

-----------------------------------------------------------------------------
(* The import.                                                             *)

(* cookieFilters and the filter of partitioned cookies, which the scan     *)
(* does not have; and the container is only looked at here.                *)
Importable(cookies) ==
    {c \in cookies : ~c.partitioned /\ container \in {AnyContainer, c.container}}

FaultySessionOf(p, n, cookies) ==      \* every container fills the jar
    [file |-> p, container |-> n, jar |-> cookies]

(* One container alone fills the jar.                                      *)
SessionOf(p, n, cookies) ==
    [file |-> p, container |-> n, jar |-> {c \in cookies : c.container = n}]

FaultyAnswer(found_session) ==         \* an error of the removal is ignored
    /\ session' = found_session
    /\ RemoveCopy \/ LeaveCopy

(* A Session whose snapshot could not be removed is not returned.          *)
Answer(found_session) ==
    \/ RemoveCopy /\ session' = found_session
    \/ LeaveCopy /\ UNCHANGED session

Import ==
    /\ CopyAt("read")
    /\ copy.for = "import"
    /\ importer' = "answered"
    /\ IF Importable(copy.main) = {}
       THEN Answer(NoSession)
       ELSE \E best \in Best(Groups(Importable(copy.main))) :
                Answer(SessionOf(copy.file, best.container, Importable(copy.main)))
    /\ UNCHANGED <<browserVars, found, container, evidence, mishaps, saved, mixed>>

CookieNext ==
    \/ \E p \in Paths : Commit(p) \/ Checkpoint(p)
    \/ Collect
    \/ LiveRead
    \/ ScanSnapshot
    \/ Choose
    \/ CopyMain
    \/ CopyLog
    \/ Recover
    \/ CopyMainAlone
    \/ CopyFails
    \/ InspectSnapshot
    \/ Import

CookieSpec == CookieInit /\ [][CookieNext]_cookieVars

-----------------------------------------------------------------------------
CookieTypeOK ==
    /\ mainFile \in [Paths -> SUBSET Cookie]
    /\ wal \in [Paths -> {NoLog} \cup SUBSET Cookie]
    /\ modified \in [Paths -> 0..2]
    /\ commits \in 0..MaxCommits
    /\ found \subseteq Paths
    /\ importer \in {"start", "scan", "import", "answered"}
    /\ DOMAIN evidence \subseteq Candidates(found)
    /\ copy # NoCopy => copy \in Copies /\ copy.file \in Candidates(found)
    /\ session \in {NoSession} \cup Sessions
    /\ strays \subseteq {"scan", "import"}
    /\ mishaps \in 0..MaxMishaps

(* What is imported is one session: all that one container of one profile  *)
(* held at one moment of the import, although the browser writes, folds    *)
(* its log and the copy is made in parts; unless parts that do not agree   *)
(* passed the integrity check.                                             *)
JarIsOneSession ==
    session # NoSession /\ ~mixed =>
        /\ session.jar # {}
        /\ \E cookies \in saved :
              session.jar = {c \in Importable(cookies) : c.container = session.container}

(* A Session is only returned when the copy of the cookies that the import *)
(* made is gone, and no answer is given while one is being made.  Copies   *)
(* of the scan are left out: the code ignores it when their removal fails. *)
SessionLeavesNoCopy ==
    /\ importer = "answered" => copy = NoCopy
    /\ session # NoSession => "import" \notin strays

(* The containers of all candidates in one order: session cookies, token   *)
(* cookies, number of cookies, the time of the file, no container, default *)
(* profile, path, name of the container.                                   *)
Rank(p, n) ==
    LET score == Groups(mainFile[p])[n]
    IN  <<score.session, score.token, score.total, modified[p],
          IF n = NoContainer THEN 1 ELSE 0, IF IsDefault[p] THEN 1 ELSE 0,
          -p, -n>>

Above(r, s) ==
    \E i \in DOMAIN r : r[i] > s[i] /\ \A j \in 1..(i - 1) : r[j] = s[j]

Offered == UNION {{<<p, c.container>> : c \in mainFile[p]} : p \in Candidates(found)}

(* While the browser writes nothing and nothing fails, Load finds a        *)
(* session whenever a main file holds one, and always the same: choosing   *)
(* in two stages, in whatever order the groups of a map are visited, gives *)
(* the container that is first among all.  A browser that left a log it    *)
(* did not fold is one that wrote.  (The scan does not look for the        *)
(* container asked for, and counts partitioned cookies.)                   *)
Undisturbed ==
    /\ commits = 0 /\ mishaps = 0 /\ strays = {}
    /\ container = AnyContainer
    /\ \A p \in Paths, c \in Cookie : c \in mainFile[p] => ~c.partitioned

StrongestProfileWins ==
    importer = "answered" /\ Undisturbed =>
        /\ session = NoSession <=> Offered = {}
        /\ session # NoSession =>
              /\ <<session.file, session.container>> \in Offered
              /\ \A o \in Offered :
                    o = <<session.file, session.container>>
                        \/ Above(Rank(session.file, session.container), Rank(o[1], o[2]))

=============================================================================
