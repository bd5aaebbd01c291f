------------------------------- MODULE AppSafety -----------------------------
(***************************************************************************)
(* What a run over all Collections keeps to.                               *)
(***************************************************************************)
EXTENDS AppRun

Listed == step \in {"plan", "prompt", "execute", "write", "absent"}

(* However the dashboard changes while it is read page by page, no         *)
(* Collection is listed twice, and none that was there at first is missed  *)
(* unless one was taken off the dashboard meanwhile (which moves others to *)
(* a page already read).  Only then may a Collection that still was there  *)
(* be marked source-missing.                                               *)
ListingIsTrue ==
    /\ Listed => IsInjective(listed)
    /\ Listed /\ withdrawn = {} => atFirst \subseteq Range(listed)
    /\ \A c \in Collection :
          archive[c] = "missing" =>
              c \notin Range(listed) /\ (c \in atFirst => withdrawn # {})

Untouched == \A c \in Collection : archive[c] \in {"none", "old"}

(* What the log says of a run, what Run returns and what is in the store   *)
(* agree, whatever fails: "completed" and "incomplete" mean that every     *)
(* plan was carried out, and without an interrupt the latter is an error;  *)
(* a run that nothing interrupted is neither "stopped" nor canceled; after *)
(* a refusal, and when it was canceled before it carried out a plan, the   *)
(* archive is as it was.  Of an interrupted run that says "incomplete" see *)
(* StoppedIsNoFailure.                                                     *)
OutcomeIsTrue ==
    step = "release" =>
        /\ outcome = "completed" =>
              /\ result = "ok"
              /\ \A c \in Range(listed) : archive[c] = "complete"
              /\ sync =>
                    \A c \in Archived \ Range(listed) : archive[c] = "missing"
        /\ outcome = "incomplete" =>
              /\ \A c \in Range(listed) : archive[c] \in {"complete", "incomplete"}
              /\ \E c \in Range(listed) : archive[c] = "incomplete"
              /\ interrupted \/ result = "error"
        /\ outcome \in {"declined", "unsupported_video"} => Untouched
        /\ result = "ok" <=> outcome \in {"completed", "declined"}
        /\ result = "canceled" => outcome = "stopped"
        /\ result = "canceled" /\ executed = 0 => Untouched
        /\ outcome = "stopped" => interrupted

Logged(name) == \E i \in DOMAIN logFile : logFile[i].ev = name

(* The log in the store ends with the outcome of the run and holds what    *)
(* explains it, although the log has a limit and Puts of it failed before. *)
ReasonSurvives ==
    step = "release" /\ ~endFailed =>
        /\ logFile = lines
        /\ Last(logFile) = [ev |-> "run_end", outcome |-> outcome]
        /\ outcome = "unsupported_video" => Logged("video_stop")
        /\ outcome = "incomplete" /\ ~interrupted => Logged("download_failed")

(* The log, the diagnostic and the manifests in the store are only written *)
(* by the run that holds it: a run that is refused does not replace the    *)
(* log of the one that works.                                              *)
WritesUnderLock ==
    [][holder = "me" \/ UNCHANGED <<logFile, diagnostic, archive>>]_runVars

(* A run comes to its end, or to its question, when requests are answered: *)
(* a busy server, a dashboard that grows, failures and interrupts do not   *)
(* keep it going.                                                          *)
RunEnds ==
    step \notin {"prompt", "ended"} ~> step \in {"prompt", "ended"}

-----------------------------------------------------------------------------
(* A claim of the documents that the code does not meet                    *)

(* An interrupt is not a failure: a run in which nothing failed, and which *)
(* an interrupt kept from its downloads, is "stopped" in the log and       *)
(* returns the cancellation, with which the program exits with 130.        *)
StoppedIsNoFailure ==
    step = "release" /\ interrupted /\ errors = 0
    /\ (\E c \in Collection : archive[c] = "incomplete")
    /\ ~(\E i \in DOMAIN lines : lines[i].ev = "download_failed") =>
        outcome = "stopped" /\ result = "canceled"

=============================================================================
