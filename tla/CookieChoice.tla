----------------------------- MODULE CookieChoice ----------------------------
(***************************************************************************)
(* How a browser profile and one of its containers are chosen by the       *)
(* Pixieset cookies they hold (internal/browsercookies: score.go and the   *)
(* selection in source.go).  Only names of cookies are looked at.          *)
(*                                                                         *)
(* A cookie file is the number of its path and a container the number of   *)
(* its name, both in alphabetical order; 0 is "no container".              *)
(***************************************************************************)
EXTENDS Integers, Sequences, FiniteSets, Functions

CONSTANTS
    Paths,        \* the cookie files
    ProfileOf,    \* the profile each file belongs to
    RankOf,       \* Chromium: 0 in the Network directory, 1 beside it
    IsDefault     \* is it the default profile of its browser?

ASSUME CookieChoiceAssumption ==
    /\ Paths \subseteq Nat
    /\ \A p \in Paths : RankOf[p] \in Nat /\ IsDefault[p] \in BOOLEAN

NoContainer == 0

(* cookieScore: the evidence of one group of cookies.                      *)
ScoreOf(cookies) ==
    [session |-> Cardinality({c \in cookies : c.class = "session"}),
     token   |-> Cardinality({c \in cookies : c.class = "token"}),
     total   |-> Cardinality(cookies)]

NoScore == ScoreOf({})

Exceeds(s, t) ==
    \/ s.session > t.session
    \/ /\ s.session = t.session
       /\ \/ s.token > t.token
          \/ s.token = t.token /\ s.total > t.total

(* candidateGroups: the score of each container.                           *)
Groups(cookies) ==
    [n \in {c.container : c \in cookies} |-> ScoreOf({c \in cookies : c.container = n})]

(* A tie keeps the group with no container, then the first by name.        *)
BetterGroup(g, m, n) ==
    \/ Exceeds(g[m], g[n])
    \/ g[m] = g[n] /\ m < n

(* The orders in which a loop may visit the elements of a set.             *)
Orders(S) == Bijection(1..Cardinality(S), S)

(* A loop that visits the elements in some order and keeps the best.      *)
KeptBy(better, order) ==
    LET best[k \in 1..Len(order)] ==
            IF k > 1 /\ <<order[k], best[k - 1]>> \notin better THEN best[k - 1] ELSE order[k]
    IN  best[Len(order)]

(* The loop of best, which visits the groups of a map in some order.       *)
BestIn(g, order) ==
    KeptBy({d \in (DOMAIN g) \X (DOMAIN g) : BetterGroup(g, d[1], d[2])}, order)

(* What best may answer: a container and its score.                        *)
Best(g) ==
    IF DOMAIN g = {} THEN {[container |-> NoContainer, score |-> NoScore]}
    ELSE {[container |-> BestIn(g, o), score |-> g[BestIn(g, o)]] : o \in Orders(DOMAIN g)}

(* preferredStore: the file of a profile with the lowest rank, unless two  *)
(* files share it; such a profile does not take part.                      *)
Preferred(files) ==
    {p \in files : \A q \in files : q = p \/ RankOf[p] < RankOf[q]}

Candidates(found) ==
    UNION {Preferred({p \in found : ProfileOf[p] = f}) : f \in {ProfileOf[p] : p \in found}}

FaultyBetterEvidence(ev, p, q) ==            \* the number of cookies decides
    \/ ev[p].score.total > ev[q].score.total
    \/ ev[p].score.total = ev[q].score.total /\ p < q

(* The score decides, then the file that changed last if it has cookies,   *)
(* then no container, then the default profile, then the path.             *)
BetterEvidence(ev, p, q) ==
    \/ Exceeds(ev[p].score, ev[q].score)
    \/ /\ ev[p].score = ev[q].score
       /\ IF ev[p].score # NoScore /\ ev[p].modified # ev[q].modified
          THEN ev[p].modified > ev[q].modified
          ELSE IF (ev[p].container = NoContainer) # (ev[q].container = NoContainer)
          THEN ev[p].container = NoContainer
          ELSE IF IsDefault[p] # IsDefault[q] THEN IsDefault[p]
          ELSE p < q

InOrder(S) == CHOOSE o \in Orders(S) : \A i, j \in DOMAIN o : i < j => o[i] < o[j]

(* scanCandidates: the loop over the candidates, sorted by path.           *)
Strongest(ev) ==
    LET files  == DOMAIN ev
        better == {d \in files \X files : BetterEvidence(ev, d[1], d[2])}
    IN  KeptBy(better, InOrder(files))

=============================================================================
