---------------------------- MODULE RecordProofs ----------------------------
(***************************************************************************)
(* The record of a Collection stays valid and forgets nothing: PlanIsValid *)
(* and RecordsRetained of CollectionSafety, for every set of References    *)
(* and Sets, every history of the source, and every choice of faults.      *)
(*                                                                         *)
(* PlanIsValid alone is not inductive: a plan is valid because the record  *)
(* it starts from is (a missing Placement keeps its Set and its Reference  *)
(* recorded), and because the source shows media in listed Sets only.      *)
(*                                                                         *)
(* And what a run leaves: SyncMirrorsSource, CompletedMeansStored,         *)
(* VerifiedMeansIntact, CompletedIsSettled and NormalRunKeepsTrusted.      *)
(* Each needs to know what a plan promised when it was made, and that no   *)
(* later step of the run takes it back: PlanInv, KeptInv, SettledInv and   *)
(* TrustInv.  Together they give the refinement of ArchiveContract.        *)
(***************************************************************************)
EXTENDS CollectionProofs

(* The source shows media in the Sets it lists.                            *)
WellPlaced(s) == \A p \in s.at : p[2] \in s.sets

(* What m lists, n lists too.                                              *)
Retains(m, n) ==
    /\ \A p \in Placements :
          m.placements[p].presence # "none" => n.placements[p].presence # "none"
    /\ \A r \in References :
          m.references[r].presence # "none" => n.references[r].presence # "none"

(* Nothing is listed as present any more.                                  *)
Missing(m) ==
    /\ m.presence = "missing"
    /\ PresentPlacements(m) = {}
    /\ PresentReferences(m) = {}

ValidInv ==
    /\ WellPlaced(src)
    /\ saved # NoManifest => Valid(saved)
    /\ next # NoManifest => Valid(next)
    /\ outcome # "invalid manifest"

RetainInv ==
    pc # "ended" /\ saved # NoManifest /\ next # NoManifest => Retains(saved, next)

-----------------------------------------------------------------------------
(* The planner's results are valid and retain the record.                  *)

LEMMA MissingKept ==
    ASSUME NEW x
    PROVE  /\ MissingIfRecorded(x) = "none" <=> x = "none"
           /\ MissingIfRecorded(x) \in {"none", "missing"}
BY DEF MissingIfRecorded

LEMMA NewManifestValid ==
    ASSUME NEW name
    PROVE  Valid(NewManifest(name))
<1> DEFINE m == NewManifest(name)
<1>1. /\ m.presence = "present"
      /\ \A s \in Sets : m.sets[s] = "none"
      /\ \A r \in References : m.references[r] = NewReference
      /\ \A p \in Placements : m.placements[p] = NewPlacement
    BY DEF NewManifest
<1> HIDE DEF m
<1>2. \A r \in References :
          m.references[r].presence = "none" /\ FailureConsistent(m.references[r])
    BY <1>1 DEF NewReference, FailureConsistent
<1>3. \A p \in Placements :
          m.placements[p].presence = "none" /\ FailureConsistent(m.placements[p])
    BY <1>1 DEF NewPlacement, FailureConsistent
<1>4. PresentPlacements(m) = {} /\ PresentReferences(m) = {}
    BY <1>2, <1>3 DEF PresentPlacements, PresentReferences
<1>5. Valid(m)
    BY <1>1, <1>2, <1>3, <1>4 DEF Valid
<1> QED BY <1>5 DEF m

(* The records of the merged manifest.                                     *)
LEMMA MergedFields ==
    ASSUME NEW v
    PROVE  /\ Merged(v).presence = "present"
           /\ \A s \in Sets : Merged(v).sets[s] = MergedSet(v, s)
           /\ \A r \in References : Merged(v).references[r] = MergedReference(v, r)
           /\ \A p \in Placements : Merged(v).placements[p] = MergedPlacement(v, p)
BY DEF Merged

(* A merged Placement that the source shows.                               *)
LEMMA ShownPlacement ==
    ASSUME NEW v, NEW p \in Active(v.src)
    PROVE  /\ MergedPlacement(v, p).presence = "present"
           /\ MergedPlacement(v, p).path = SourcePath(v.src, p)
           /\ FailureConsistent(MergedPlacement(v, p))
<1>1. /\ MergedPlacement(v, p).presence = "present" /\ MergedPlacement(v, p).failure = FALSE
      /\ MergedPlacement(v, p).state \in {"complete", "pending"}
      /\ MergedPlacement(v, p).path = SourcePath(v.src, p)
    BY DEF MergedPlacement
<1> QED BY <1>1 DEF FailureConsistent

(* A merged Placement that it does not show is as recorded, but missing.   *)
LEMMA UnshownPlacementFields ==
    ASSUME NEW v, v.prior \in ManifestRecord, NEW p \in Placements, p \notin Active(v.src)
    PROVE  /\ MergedPlacement(v, p).presence =
                  MissingIfRecorded(v.prior.placements[p].presence)
           /\ MergedPlacement(v, p).path = v.prior.placements[p].path
           /\ MergedPlacement(v, p).state = v.prior.placements[p].state
           /\ MergedPlacement(v, p).failure = v.prior.placements[p].failure
<1> DEFINE old == v.prior.placements[p]
           new == MergedPlacement(v, p)
<1>1. old \in PlacementRecord
    BY DEF ManifestRecord
<1>2. new = [old EXCEPT !.presence = MissingIfRecorded(old.presence)]
    BY DEF MergedPlacement, UnshownPlacement
<1> HIDE DEF new, old
<1>3. /\ new.presence = MissingIfRecorded(old.presence) /\ new.failure = old.failure
      /\ new.state = old.state /\ new.path = old.path
    BY <1>1, <1>2 DEF PlacementRecord
<1> QED BY <1>3 DEF new, old

(* A merged Reference with an active Placement.                            *)
LEMMA PlacedReferenceFields ==
    ASSUME NEW v, NEW r, NEW p \in Active(v.src), p[1] = r
    PROVE  /\ MergedReference(v, r).presence = "present"
           /\ FailureConsistent(MergedReference(v, r))
<1>1. {q \in Active(v.src) : q[1] = r} # {}
    OBVIOUS
<1>2. /\ MergedReference(v, r).presence = "present" /\ MergedReference(v, r).failure = FALSE
      /\ MergedReference(v, r).state \in {"complete", "pending"}
    BY <1>1 DEF MergedReference
<1> QED BY <1>2 DEF FailureConsistent

(* A merged Reference without one.                                         *)
LEMMA UnplacedReferenceFields ==
    ASSUME NEW v, v.prior \in ManifestRecord, NEW r \in References,
           \A p \in Active(v.src) : p[1] # r
    PROVE  /\ MergedReference(v, r).presence \in {"none", "missing"}
           /\ v.prior.references[r].presence # "none" =>
                 MergedReference(v, r).presence # "none"
           /\ MergedReference(v, r).state = v.prior.references[r].state
           /\ MergedReference(v, r).failure = v.prior.references[r].failure
<1> DEFINE old == v.prior.references[r]
           new == MergedReference(v, r)
           there == IF r \in Shown(v.src) THEN "missing" ELSE MissingIfRecorded(old.presence)
<1>1. old \in ReferenceRecord
    BY DEF ManifestRecord
<1>2. {q \in Active(v.src) : q[1] = r} = {}
    OBVIOUS
<1>3. new = [old EXCEPT !.presence = there]
    BY <1>2 DEF MergedReference, UnplacedReference
<1>4. there \in {"none", "missing"} /\ (old.presence # "none" => there # "none")
    BY MissingKept
<1> HIDE DEF new, old, there
<1>5. new.presence = there /\ new.failure = old.failure /\ new.state = old.state
    BY <1>1, <1>3 DEF ReferenceRecord
<1> QED BY <1>4, <1>5 DEF new, old

(* merge keeps what Validate demands, and every record.                    *)
LEMMA MergedValid ==
    ASSUME NEW v, v.prior \in ManifestRecord, Valid(v.prior),
           v.src \in SourceCollection, WellPlaced(v.src)
    PROVE  /\ Valid(Merged(v)) /\ Retains(v.prior, Merged(v))
           /\ PresentPlacements(Merged(v)) = Active(v.src)
           /\ PresentReferences(Merged(v)) = {p[1] : p \in Active(v.src)}
<1> DEFINE m == Merged(v)
           old == v.prior
<1>1. /\ m.presence = "present"
      /\ \A s \in Sets : m.sets[s] = MergedSet(v, s)
      /\ \A r \in References : m.references[r] = MergedReference(v, r)
      /\ \A p \in Placements : m.placements[p] = MergedPlacement(v, p)
    BY MergedFields
<1> HIDE DEF m
<1>2. Active(v.src) \subseteq Placements /\ \A p \in Active(v.src) : p[2] \in v.src.sets
    BY DEF Active, SourceCollection, WellPlaced
<1>3. \A p \in Placements : p[1] \in References /\ p[2] \in Sets
    BY DEF Placements
<1>4. ASSUME NEW r \in References
      PROVE  /\ FailureConsistent(m.references[r])
             /\ old.references[r].presence # "none" => m.references[r].presence # "none"
             /\ m.references[r].presence = "present" => \E p \in Active(v.src) : p[1] = r
  <2>1. m.references[r] = MergedReference(v, r)
      BY <1>1
  <2>2. CASE \E p \in Active(v.src) : p[1] = r
      BY <2>1, <2>2, PlacedReferenceFields
  <2>3. CASE \A p \in Active(v.src) : p[1] # r
    <3>1. FailureConsistent(old.references[r])
        BY DEF Valid
    <3> QED BY <2>1, <2>3, <3>1, UnplacedReferenceFields DEF FailureConsistent
  <2> QED BY <2>2, <2>3
<1>5. ASSUME NEW p \in Active(v.src)
      PROVE  /\ m.placements[p].presence = "present" /\ FailureConsistent(m.placements[p])
             /\ m.placements[p].path # NoPath
             /\ m.sets[p[2]] = "present" /\ m.references[p[1]].presence = "present"
  <2>1. p \in Placements /\ p[1] \in References /\ p[2] \in Sets /\ p[2] \in v.src.sets
      BY <1>2, <1>3
  <2>2. m.placements[p] = MergedPlacement(v, p) /\ m.references[p[1]] = MergedReference(v, p[1])
      BY <1>1, <2>1
  <2>3. m.placements[p].presence = "present" /\ FailureConsistent(m.placements[p])
        /\ m.placements[p].path = SourcePath(v.src, p)
      BY <2>2, ShownPlacement
  <2>4. m.sets[p[2]] = "present"
      BY <1>1, <2>1 DEF MergedSet
  <2>5. m.references[p[1]].presence = "present"
      BY <2>2, PlacedReferenceFields
  <2>6. m.placements[p].path # NoPath
      BY <2>1, <2>3, SourcePathType, DataAssumption
  <2> QED BY <2>3, <2>4, <2>5, <2>6
<1>6. ASSUME NEW p \in Placements \ Active(v.src)
      PROVE  /\ m.placements[p].presence \in {"none", "missing"}
             /\ FailureConsistent(m.placements[p])
             /\ m.placements[p].presence # "none" =>
                   m.sets[p[2]] # "none" /\ m.references[p[1]].presence # "none"
                   /\ m.placements[p].path # NoPath
             /\ m.placements[p].presence = "none" <=> old.placements[p].presence = "none"
  <2>1. p[1] \in References /\ p[2] \in Sets
      BY <1>3
  <2>2. m.placements[p] = MergedPlacement(v, p)
      BY <1>1
  <2>3. /\ m.placements[p].presence = MissingIfRecorded(old.placements[p].presence)
        /\ m.placements[p].failure = old.placements[p].failure
        /\ m.placements[p].state = old.placements[p].state
        /\ m.placements[p].path = old.placements[p].path
      BY <2>2, UnshownPlacementFields
  <2>4. FailureConsistent(m.placements[p])
    <3>1. FailureConsistent(old.placements[p])
        BY DEF Valid
    <3> QED BY <2>3, <3>1 DEF FailureConsistent
  <2>5. ASSUME old.placements[p].presence # "none"
        PROVE  m.sets[p[2]] # "none" /\ m.references[p[1]].presence # "none"
               /\ m.placements[p].path # NoPath
    <3>1. /\ old.sets[p[2]] # "none" /\ old.references[p[1]].presence # "none"
          /\ old.placements[p].path # NoPath
        BY <2>5 DEF Valid
    <3>2. m.sets[p[2]] # "none"
        BY <1>1, <2>1, <3>1, MissingKept DEF MergedSet
    <3> QED BY <1>4, <2>1, <2>3, <3>1, <3>2
  <2> QED BY <2>3, <2>4, <2>5, MissingKept
<1>8. PresentPlacements(m) = Active(v.src)
    BY <1>2, <1>5, <1>6 DEF PresentPlacements
<1>9. Valid(m)
  <2>1. \A p \in Placements :
            /\ FailureConsistent(m.placements[p])
            /\ m.placements[p].presence # "none" =>
                /\ m.sets[p[2]] # "none"
                /\ m.references[p[1]].presence # "none"
                /\ m.placements[p].path # NoPath
      BY <1>5, <1>6
  <2>2. \A r \in PresentReferences(m) : \E p \in PresentPlacements(m) : p[1] = r
      BY <1>4, <1>8 DEF PresentReferences
  <2> QED BY <1>1, <1>4, <1>5, <1>8, <2>1, <2>2 DEF Valid
<1>10. Retains(old, m)
    BY <1>4, <1>5, <1>6 DEF Retains
<1>11. PresentReferences(m) = {p[1] : p \in Active(v.src)}
    BY <1>2, <1>3, <1>4, <1>5 DEF PresentReferences
<1> QED BY <1>8, <1>9, <1>10, <1>11 DEF m

(* A Collection that is no longer listed keeps a valid record.             *)
LEMMA SourceMissingValid ==
    ASSUME NEW old \in ManifestRecord, Valid(old)
    PROVE  /\ Valid(SourceMissing(old)) /\ Retains(old, SourceMissing(old))
           /\ Missing(SourceMissing(old))
<1> DEFINE m == SourceMissing(old)
<1>1. m.presence = "missing" /\ \A s \in Sets : m.sets[s] = MissingIfRecorded(old.sets[s])
    BY DEF SourceMissing, ManifestRecord
<1>2. ASSUME NEW r \in References
      PROVE  /\ m.references[r].presence = MissingIfRecorded(old.references[r].presence)
             /\ m.references[r].state = old.references[r].state
             /\ m.references[r].failure = old.references[r].failure
  <2>1. old.references[r] \in ReferenceRecord
      BY DEF ManifestRecord
  <2>2. m.references[r] =
          [old.references[r] EXCEPT !.presence = MissingIfRecorded(old.references[r].presence)]
      BY DEF SourceMissing, ManifestRecord
  <2> QED BY <2>1, <2>2 DEF ReferenceRecord
<1>3. ASSUME NEW p \in Placements
      PROVE  /\ m.placements[p].presence = MissingIfRecorded(old.placements[p].presence)
             /\ m.placements[p].state = old.placements[p].state
             /\ m.placements[p].failure = old.placements[p].failure
             /\ m.placements[p].path = old.placements[p].path
  <2>1. old.placements[p] \in PlacementRecord
      BY DEF ManifestRecord
  <2>2. m.placements[p] =
          [old.placements[p] EXCEPT !.presence = MissingIfRecorded(old.placements[p].presence)]
      BY DEF SourceMissing, ManifestRecord
  <2> QED BY <2>1, <2>2 DEF PlacementRecord
<1> HIDE DEF m
<1>4. \A p \in Placements : p[1] \in References /\ p[2] \in Sets
    BY DEF Placements
<1>5. PresentPlacements(m) = {} /\ PresentReferences(m) = {}
    BY <1>2, <1>3, MissingKept DEF PresentPlacements, PresentReferences
<1>6. \A r \in References : FailureConsistent(m.references[r])
    BY <1>2 DEF Valid, FailureConsistent
<1>7. \A p \in Placements : FailureConsistent(m.placements[p])
    BY <1>3 DEF Valid, FailureConsistent
<1>8. ASSUME NEW p \in Placements, m.placements[p].presence # "none"
      PROVE  /\ m.sets[p[2]] # "none" /\ m.references[p[1]].presence # "none"
             /\ m.placements[p].path # NoPath
  <2>1. /\ old.sets[p[2]] # "none" /\ old.references[p[1]].presence # "none"
        /\ old.placements[p].path # NoPath
      BY <1>3, <1>8, MissingKept DEF Valid
  <2> QED BY <1>1, <1>2, <1>3, <1>4, <2>1, MissingKept
<1>9. \A s \in Sets : m.sets[s] # "present"
    BY <1>1, MissingKept
<1>10. Valid(m)
    BY <1>5, <1>6, <1>7, <1>8, <1>9 DEF Valid
<1>11. Retains(old, m)
    BY <1>2, <1>3, MissingKept DEF Retains
<1>12. Missing(m)
    BY <1>1, <1>5 DEF Missing
<1> QED BY <1>10, <1>11, <1>12 DEF m

(* The results of the downloads change states and checksums, and record a  *)
(* failure exactly with the failed state.                                  *)
LEMMA AppliedFields ==
    ASSUME TypeOK, next # NoManifest, Valid(next)
    PROVE  /\ Applied \in ManifestRecord /\ Applied # NoManifest
           /\ Applied.name = next.name
           /\ Applied.presence = next.presence /\ Applied.sets = next.sets
           /\ \A r \in References : Applied.references[r] = AppliedReference(r)
           /\ \A p \in Placements : Applied.placements[p] = AppliedPlacement(p)
           /\ \A p \in Placements :
                 /\ Applied.placements[p].presence = next.placements[p].presence
                 /\ Applied.placements[p].path = next.placements[p].path
                 /\ FailureConsistent(Applied.placements[p])
           /\ \A r \in References :
                 /\ Applied.references[r].presence = next.references[r].presence
                 /\ FailureConsistent(Applied.references[r])
           /\ PresentPlacements(Applied) = PresentPlacements(next)
           /\ PresentReferences(Applied) = PresentReferences(next)
<1> DEFINE m == Applied
<1>1. next \in ManifestRecord /\ m \in ManifestRecord /\ m # NoManifest
  <2>1. m \in ManifestRecord
      BY AppliedRecord
  <2> QED BY <2>1, DataAssumption DEF TypeOK
<1>2. /\ m.name = next.name /\ m.presence = next.presence /\ m.sets = next.sets
      /\ \A r \in References : m.references[r] = AppliedReference(r)
      /\ \A p \in Placements : m.placements[p] = AppliedPlacement(p)
    BY <1>1 DEF Applied, ManifestRecord
<1> HIDE DEF m
<1>3. ASSUME NEW p \in Placements
      PROVE  /\ m.placements[p].presence = next.placements[p].presence
             /\ m.placements[p].path = next.placements[p].path
             /\ FailureConsistent(m.placements[p])
  <2> DEFINE old == next.placements[p]
  <2>1. old \in PlacementRecord /\ FailureConsistent(old)
      BY <1>1 DEF ManifestRecord, Valid
  <2>2. m.placements[p] = AppliedPlacement(p)
      BY <1>2
  <2>3. CASE dest[p] = "installed"
    <3>1. m.placements[p] = [old EXCEPT !.state = "complete", !.failure = FALSE,
                                        !.sha = digest[p[1]]]
        BY <2>2, <2>3 DEF AppliedPlacement
    <3> QED BY <2>1, <3>1 DEF PlacementRecord, FailureConsistent
  <2>4. CASE dest[p] = "failed"
    <3>1. m.placements[p] = [old EXCEPT !.state = "failed", !.failure = TRUE]
        BY <2>2, <2>4 DEF AppliedPlacement
    <3> QED BY <2>1, <3>1 DEF PlacementRecord, FailureConsistent
  <2>5. CASE dest[p] \notin {"installed", "failed"}
    <3>1. m.placements[p] = old
        BY <2>2, <2>5 DEF AppliedPlacement
    <3> QED BY <2>1, <3>1
  <2> QED BY <2>3, <2>4, <2>5
<1>4. ASSUME NEW r \in References
      PROVE  /\ m.references[r].presence = next.references[r].presence
             /\ FailureConsistent(m.references[r])
  <2> DEFINE old == next.references[r]
             state == RecomputedState(r)
  <2>1. old \in ReferenceRecord /\ FailureConsistent(old)
      BY <1>1 DEF ManifestRecord, Valid
  <2>2. m.references[r] = AppliedReference(r)
      BY <1>2
  <2>3. CASE job[r] = "failed"
    <3>1. m.references[r] = [old EXCEPT !.state = "failed", !.failure = TRUE]
        BY <2>2, <2>3 DEF AppliedReference
    <3> QED BY <2>1, <3>1 DEF ReferenceRecord, FailureConsistent
  <2>4. CASE job[r] = "staged"
    <3>1. m.references[r] = [old EXCEPT !.sha = digest[r], !.state = state,
                                        !.failure = (state = "failed")]
        BY <2>2, <2>4 DEF AppliedReference
    <3> HIDE DEF state
    <3> QED BY <2>1, <3>1 DEF ReferenceRecord, FailureConsistent
  <2>5. CASE job[r] \notin {"failed", "staged"}
    <3>1. m.references[r] = old
        BY <2>2, <2>5 DEF AppliedReference
    <3> QED BY <2>1, <3>1
  <2> QED BY <2>3, <2>4, <2>5
<1>5. PresentPlacements(m) = PresentPlacements(next) /\ PresentReferences(m) = PresentReferences(next)
    BY <1>3, <1>4 DEF PresentPlacements, PresentReferences
<1> QED BY <1>1, <1>2, <1>3, <1>4, <1>5 DEF m

(* The manifest with the results is valid and retains the plan.            *)
LEMMA AppliedValid ==
    ASSUME TypeOK, next # NoManifest, Valid(next)
    PROVE  Valid(Applied) /\ Retains(next, Applied)
<1> DEFINE m == Applied
<1>2. m.presence = next.presence /\ m.sets = next.sets
    BY AppliedFields
<1>3. \A p \in Placements :
          /\ m.placements[p].presence = next.placements[p].presence
          /\ m.placements[p].path = next.placements[p].path
          /\ FailureConsistent(m.placements[p])
    BY AppliedFields
<1>4. \A r \in References :
          /\ m.references[r].presence = next.references[r].presence
          /\ FailureConsistent(m.references[r])
    BY AppliedFields
<1>5. /\ PresentPlacements(m) = PresentPlacements(next)
      /\ PresentReferences(m) = PresentReferences(next)
    BY AppliedFields
<1> HIDE DEF m
<1>6. \A p \in Placements : p[1] \in References
    BY DEF Placements
<1>7. PresentPlacements(next) \subseteq Placements /\ PresentReferences(next) \subseteq References
    BY DEF PresentPlacements, PresentReferences
<1>8. Valid(m)
  <2>1. \A p \in Placements :
            m.placements[p].presence # "none" =>
                /\ m.sets[p[2]] # "none"
                /\ m.references[p[1]].presence # "none"
                /\ m.placements[p].path # NoPath
      BY <1>2, <1>3, <1>4, <1>6 DEF Valid
  <2>2. \A p \in PresentPlacements(m) :
            /\ m.presence = "present" /\ m.sets[p[2]] = "present"
            /\ m.references[p[1]].presence = "present"
      BY <1>2, <1>4, <1>5, <1>6, <1>7 DEF Valid
  <2>3. \A r \in PresentReferences(m) :
            m.presence = "present" /\ \E p \in PresentPlacements(m) : p[1] = r
      BY <1>2, <1>5 DEF Valid
  <2>4. m.presence = "missing" => \A s \in Sets : m.sets[s] # "present"
      BY <1>2 DEF Valid
  <2> QED BY <1>3, <1>4, <2>1, <2>2, <2>3, <2>4 DEF Valid
<1>9. Retains(next, m)
    BY <1>3, <1>4 DEF Retains
<1> QED BY <1>8, <1>9 DEF m

-----------------------------------------------------------------------------
(* Every step.                                                             *)

LEMMA ValidInit == Init => ValidInv /\ RetainInv
BY SourceAssumption DEF Init, ValidInv, RetainInv, WellPlaced

(* No step of the source shows media in a Set it does not list.            *)
LEMMA SourceStaysWellPlaced ==
    ASSUME TypeOK, WellPlaced(src), SourceChanges
    PROVE  WellPlaced(src')
<1>0. src \in SourceCollection
    BY DEF TypeOK
<1>1. PICK kind, s : Change(kind, s) /\ WellPlaced(s)
  <2>1. CASE Change("listing", [src EXCEPT !.listed = ~@])
    <3>1. WellPlaced([src EXCEPT !.listed = ~@])
        BY <1>0 DEF SourceCollection, WellPlaced
    <3> QED BY <2>1, <3>1
  <2>2. CASE \E n \in Names : Change("title", [src EXCEPT !.name = n])
    <3>1. PICK n \in Names : Change("title", [src EXCEPT !.name = n])
        BY <2>2
    <3>2. WellPlaced([src EXCEPT !.name = n])
        BY <1>0 DEF SourceCollection, WellPlaced
    <3> QED BY <3>1, <3>2
  <2>3. CASE \E n \in Names, s \in Sets :
                Change("names", [src EXCEPT !.setName[s] = n])
    <3>1. PICK n \in Names, s \in Sets : Change("names", [src EXCEPT !.setName[s] = n])
        BY <2>3
    <3>2. WellPlaced([src EXCEPT !.setName[s] = n])
        BY <1>0 DEF SourceCollection, WellPlaced
    <3> QED BY <3>1, <3>2
  <2>4. CASE \E n \in Names, r \in References :
                Change("names", [src EXCEPT !.refName[r] = n])
    <3>1. PICK n \in Names, r \in References : Change("names", [src EXCEPT !.refName[r] = n])
        BY <2>4
    <3>2. WellPlaced([src EXCEPT !.refName[r] = n])
        BY <1>0 DEF SourceCollection, WellPlaced
    <3> QED BY <3>1, <3>2
  <2>5. CASE \E p \in Placements :
               \/ Change("placements", [src EXCEPT !.at = @ \ {p}])
               \/ /\ p[2] \in src.sets
                  /\ Change("placements", [src EXCEPT !.at = @ \cup {p}])
    <3>1. PICK p \in Placements :
               \/ Change("placements", [src EXCEPT !.at = @ \ {p}])
               \/ /\ p[2] \in src.sets
                  /\ Change("placements", [src EXCEPT !.at = @ \cup {p}])
        BY <2>5
    <3>2. WellPlaced([src EXCEPT !.at = @ \ {p}])
        BY <1>0 DEF SourceCollection, WellPlaced
    <3>3. p[2] \in src.sets => WellPlaced([src EXCEPT !.at = @ \cup {p}])
        BY <1>0 DEF SourceCollection, WellPlaced
    <3> QED BY <3>1, <3>2, <3>3
  <2>6. CASE \E s \in Sets :
               Change("sets", IF s \in src.sets
                              THEN [src EXCEPT !.sets = @ \ {s},
                                               !.at = {p \in @ : p[2] # s}]
                              ELSE [src EXCEPT !.sets = @ \cup {s}])
    <3>1. PICK s \in Sets :
               Change("sets", IF s \in src.sets
                              THEN [src EXCEPT !.sets = @ \ {s},
                                               !.at = {p \in @ : p[2] # s}]
                              ELSE [src EXCEPT !.sets = @ \cup {s}])
        BY <2>6
    <3>2. WellPlaced([src EXCEPT !.sets = @ \ {s}, !.at = {p \in @ : p[2] # s}])
        BY <1>0 DEF SourceCollection, WellPlaced
    <3>3. WellPlaced([src EXCEPT !.sets = @ \cup {s}])
        BY <1>0 DEF SourceCollection, WellPlaced
    <3> QED BY <3>1, <3>2, <3>3
  <2>7. CASE \E r \in References, c \in Contents :
                Change("content", [src EXCEPT !.content[r] = c])
    <3>1. PICK r \in References, c \in Contents :
                Change("content", [src EXCEPT !.content[r] = c])
        BY <2>7
    <3>2. WellPlaced([src EXCEPT !.content[r] = c])
        BY <1>0 DEF SourceCollection, WellPlaced
    <3> QED BY <3>1, <3>2
  <2>8. CASE \E r \in References, k \in MediaKind \ {"image"} :
               /\ src.kind[r] # "image"
               /\ Change("video", [src EXCEPT !.kind[r] = k])
    <3>1. PICK r \in References, k \in MediaKind \ {"image"} :
               Change("video", [src EXCEPT !.kind[r] = k])
        BY <2>8
    <3>2. WellPlaced([src EXCEPT !.kind[r] = k])
        BY <1>0 DEF SourceCollection, WellPlaced
    <3> QED BY <3>1, <3>2
  <2> QED BY <2>1, <2>2, <2>3, <2>4, <2>5, <2>6, <2>7, <2>8 DEF SourceChanges
<1> QED BY <1>1 DEF Change

(* What a run plans is valid and retains the record, so that Build refuses *)
(* neither the manifest it reads nor the one it plans.                     *)
LEMMA PlanningValid ==
    ASSUME TypeOK, ValidInv, NEW o
    PROVE  /\ Refusal(View(o)) # "invalid manifest"
           /\ Planned(View(o)) # NoManifest => Valid(Planned(View(o)))
           /\ Planned(View(o)) # NoManifest /\ saved # NoManifest =>
                 Retains(saved, Planned(View(o)))
<1> DEFINE v == View(o)
<1>1. v.src = src /\ v.prior = IF saved = NoManifest THEN NewManifest(src.name) ELSE saved
    BY DEF View
<1>2. src \in SourceCollection /\ src.name \in Names
    BY DEF TypeOK, SourceCollection
<1>3. v.prior \in ManifestRecord /\ Valid(v.prior)
    BY <1>1, <1>2, NewManifestType, NewManifestValid DEF TypeOK, ValidInv
<1> HIDE DEF v
<1>4. Valid(Merged(v)) /\ Retains(v.prior, Merged(v))
    BY <1>1, <1>2, <1>3, MergedValid DEF ValidInv
<1>5. saved # NoManifest =>
          Valid(SourceMissing(saved)) /\ Retains(saved, SourceMissing(saved))
    BY SourceMissingValid DEF TypeOK, ValidInv
<1>6. Refusal(v) # "invalid manifest"
    BY <1>4 DEF Refusal, ValidInv
<1>7. Planned(v) # NoManifest => Valid(Planned(v))
    BY <1>4, <1>5 DEF Planned, ValidInv
<1>8. Planned(v) # NoManifest /\ saved # NoManifest => Retains(saved, Planned(v))
    BY <1>1, <1>4, <1>5 DEF Planned, Retains
<1> QED BY <1>6, <1>7, <1>8 DEF v

(* How a step changes what the invariants speak of.                        *)
LEMMA RecordStep ==
    ASSUME IInv, ValidInv, RetainInv, [Next]_vars
    PROVE  ValidInv' /\ RetainInv' /\
           (saved # NoManifest => saved' # NoManifest /\ Retains(saved, saved'))
<1>0. TypeOK
    BY DEF IInv
<1>1. CASE \E o \in RunOptions : Start(o)
  <2>1. PICK o \in RunOptions : Start(o)
      BY <1>1
  <2>2. saved' = saved /\ src' = src
      BY <2>1 DEF Start, source, disk
  <2>3. CASE Refusal(View(o)) # "none"
    <3>1. next' = next /\ pc' = "ended" /\ outcome' = Refusal(View(o))
        BY <2>1, <2>3 DEF Start
    <3> QED BY <1>0, <2>2, <3>1, PlanningValid DEF ValidInv, RetainInv, Retains
  <2>4. CASE Refusal(View(o)) = "none"
    <3>1. next' = Planned(View(o)) /\ outcome' = outcome
        BY <2>1, <2>4 DEF Start
    <3> QED BY <1>0, <2>2, <3>1, PlanningValid DEF ValidInv, RetainInv, Retains
  <2> QED BY <2>3, <2>4
<1>2. CASE Save \/ SaveFails
  <2>1. next' = next /\ src' = src /\ pc = "saving" /\ pc' = "ended"
      BY <1>2 DEF Save, SaveFails, EndWith, source, planVars
  <2>2. next = NoManifest => Applied = NoManifest
      BY DEF Applied
  <2>3. next # NoManifest => Valid(Applied) /\ Retains(next, Applied) /\ Applied # NoManifest
      BY <1>0, AppliedFields, AppliedValid DEF ValidInv
  <2>4. outcome' # "invalid manifest"
      BY <1>2, <2>2, <2>3 DEF Save, SaveFails, EndWith
  <2>5. saved' = saved \/ (saved' = Applied /\ next # NoManifest)
      BY <1>2, <2>2, <2>3 DEF Save, SaveFails
  <2>6. saved # NoManifest /\ next # NoManifest => Retains(saved, Applied)
      BY <2>1, <2>3 DEF RetainInv, Retains
  <2> QED BY <2>1, <2>3, <2>4, <2>5, <2>6 DEF ValidInv, RetainInv, Retains
<1>3. CASE Exit \/ Crash
    BY <1>3 DEF Exit, Crash, Forget, source, disk, ValidInv, RetainInv, Retains
<1>4. CASE SourceChanges
  <2>1. saved' = saved /\ next' = next /\ outcome' = outcome /\ pc' = pc
      BY <1>4 DEF SourceChanges, Change, disk, planVars
  <2> QED BY <1>0, <1>4, <2>1, SourceStaysWellPlaced DEF ValidInv, RetainInv, Retains
<1>5. CASE \/ Confirm \/ RenamesDone \/ DownloadsDone \/ Decline \/ RenameError
           \/ Cancel \/ UserStep \/ UNCHANGED vars
           \/ \E p \in Placements : RenamePut(p) \/ RenameRemove(p) \/ Install(p) \/ InstallFails(p)
           \/ \E r \in References : Fetch(r) \/ FetchFails(r)
  <2>1. /\ src' = src /\ saved' = saved /\ next' = next
        /\ outcome' \in {outcome, "declined", "rename failed"}
        /\ pc = "ended" => pc' = "ended"
      BY <1>5
      DEF Confirm, RenamesDone, DownloadsDone, Decline, RenameError, Cancel, UserStep,
          UserDeletes, UserDamages, Tamper, RenamePut, RenameRemove, RenameFails, EndWith,
          Install, InstallFails, Fetch, FetchFails, DownloadStep, source, disk, planVars,
          workVars, vars
  <2> QED BY <2>1 DEF ValidInv, RetainInv, Retains
<1> QED BY <1>1, <1>2, <1>3, <1>4, <1>5 DEF Next, RunStep, FaultStep

(* No history of runs, source changes, failures and kills makes a manifest *)
(* that Validate refuses: planning, marking a Collection as missing and    *)
(* applying results keep all that it demands.                              *)
THEOREM RecordsStayValid == Spec => []PlanIsValid
<1>1. Init => ValidInv /\ RetainInv
    BY ValidInit
<1>2. IInv /\ ValidInv /\ RetainInv /\ [Next]_vars => ValidInv' /\ RetainInv'
    BY RecordStep
<1>3. ValidInv => PlanIsValid
    BY DEF ValidInv, PlanIsValid
<1> QED BY <1>1, <1>2, <1>3, Invariant, PTL DEF Spec

ForgetsNothing ==
    saved # NoManifest =>
        /\ saved' # NoManifest
        /\ \A p \in Placements :
              saved.placements[p].presence # "none" =>
                  saved'.placements[p].presence # "none"
        /\ \A r \in References :
              saved.references[r].presence # "none" =>
                  saved'.references[r].presence # "none"

(* What a manifest lists is listed by every later one.                     *)
THEOREM RecordsAreRetained == Spec => RecordsRetained
<1>1. Init => ValidInv /\ RetainInv
    BY ValidInit
<1>2. IInv /\ ValidInv /\ RetainInv /\ [Next]_vars => ValidInv' /\ RetainInv'
    BY RecordStep
<1>3. IInv /\ ValidInv /\ RetainInv /\ [Next]_vars => [ForgetsNothing]_saved
    BY RecordStep DEF ForgetsNothing, Retains
<1>4. Spec => [][ForgetsNothing]_saved
    BY <1>1, <1>2, <1>3, Invariant, PTL DEF Spec
<1> QED BY <1>4 DEF RecordsRetained, ForgetsNothing

-----------------------------------------------------------------------------
(* What a run leaves in the record.                                        *)

(* A run that shows its plan or works on it.                               *)
Busy == {"planned", "renaming", "removing", "downloading", "saving"}

(* Before the downloads no destination is served.                          *)
Unserved ==
    pc \in {"planned", "renaming", "removing"} =>
        \A p \in Placements : dest[p] \in {"none", "queued"}

(* A destination is served from a staged download, whose content it holds. *)
Served ==
    pc \in Busy => \A p \in Placements :
        /\ dest[p] \in {"installed", "failed"} => job[p[1]] = "staged"
        /\ dest[p] = "installed" =>
              /\ files[To(p)] # NoFile
              /\ files[To(p)].content = digest[p[1]]

(* A destination that was given up belongs to a download that failed.      *)
Settled ==
    pc = "saving" => \A p \in Placements : dest[p] = "queued" => job[p[1]] = "failed"

(* What is not downloaded is complete as planned.                          *)
KeptComplete ==
    pc \in Busy /\ next # NoManifest =>
        \A p \in PresentPlacements(next) :
            dest[p] = "none" => next.placements[p].state = "complete"

(* The plan of a synchronizing run mirrors the source.                     *)
MirrorPlanned ==
    pc \in Busy /\ opts.sync =>
        IF next = NoManifest THEN saved = NoManifest
        ELSE IF src.listed
        THEN RecordMatches(next) /\ \A p \in Active(src) : dest[p] # "none"
        ELSE Missing(next)

(* The outcome is known when the run has ended.                            *)
OutcomeLast == pc # "ended" => outcome = "none"

PlanInv ==
    /\ OutcomeLast
    /\ Unserved
    /\ Served
    /\ Settled
    /\ KeptComplete
    /\ MirrorPlanned
    /\ SyncMirrorsSource

(* Initially no run has done anything.                                     *)
LEMMA PlanInit == Init => PlanInv
BY DEF Init, PlanInv, OutcomeLast, Unserved, Served, Settled, KeptComplete, MirrorPlanned,
       SyncMirrorsSource, Busy

(* While a run works the source changes in the content of media only.      *)
LEMMA OnlyContentChanges ==
    ASSUME TypeOK, SourceChanges, pc # "idle"
    PROVE  /\ pc = "downloading"
           /\ src'.listed = src.listed /\ src'.name = src.name /\ src'.sets = src.sets
           /\ src'.setName = src.setName /\ src'.refName = src.refName
           /\ src'.at = src.at /\ src'.kind = src.kind
           /\ UNCHANGED <<disk, pc, planVars, workVars, canceled, outcome>>
<1>1. PICK r \in References, c \in Contents :
          Change("content", [src EXCEPT !.content[r] = c])
    BY DEF SourceChanges, Change
<1>2. src \in SourceCollection
    BY DEF TypeOK
<1> QED BY <1>1, <1>2 DEF Change, SourceCollection

(* The same, of what the invariant reads of the source.                    *)
LEMMA SameSource ==
    ASSUME src'.listed = src.listed, src'.name = src.name, src'.sets = src.sets,
           src'.setName = src.setName, src'.refName = src.refName,
           src'.at = src.at, src'.kind = src.kind
    PROVE  /\ Active(src') = Active(src)
           /\ \A m : RecordMatches(m)' <=> RecordMatches(m)
BY DEF Active, RecordMatches, SourcePath

(* What Build leaves to a run.                                             *)
LEMMA StartPlans ==
    ASSUME TypeOK, ValidInv, OutcomeLast, NEW o \in RunOptions, Start(o)
    PROVE  PlanInv'
<1> DEFINE v == View(o)
<1>1. /\ v.src = src /\ v.opts = o /\ v.files = files
      /\ v.prior = IF saved = NoManifest THEN NewManifest(src.name) ELSE saved
    BY DEF View
<1>2. src \in SourceCollection /\ src.name \in Names
    BY DEF TypeOK, SourceCollection
<1>3. v.prior \in ManifestRecord /\ Valid(v.prior)
    BY <1>1, <1>2, NewManifestType, NewManifestValid DEF TypeOK, ValidInv
<1>4. pc = "idle" /\ opts' = o /\ src' = src /\ saved' = saved /\ outcome = "none"
    BY DEF Start, source, disk, OutcomeLast
<1>5. CASE Refusal(v) # "none"
  <2>1. pc' = "ended" /\ outcome' = Refusal(v)
      BY <1>5 DEF Start
  <2>2. outcome' # "completed"
      BY <2>1 DEF Refusal
  <2> QED BY <2>1, <2>2 DEF PlanInv, OutcomeLast, Unserved, Served, Settled, KeptComplete,
                MirrorPlanned, SyncMirrorsSource, Busy
<1>6. CASE Refusal(v) = "none"
  <2>1. /\ pc' = "planned" /\ next' = Planned(v) /\ outcome' = "none"
        /\ dest' = [p \in Placements |->
                       IF Working(v) /\ p \in Downloads(v) THEN "queued" ELSE "none"]
      BY <1>4, <1>6 DEF Start
  <2> HIDE DEF v
  <2>2. Unserved' /\ Served' /\ Settled' /\ OutcomeLast' /\ SyncMirrorsSource'
      BY <2>1 DEF Unserved, Served, Settled, OutcomeLast, SyncMirrorsSource
  <2>3. CASE Working(v)
    <3>1. next' = Merged(v)
        BY <2>1, <2>3 DEF Planned
    <3>2. /\ PresentPlacements(Merged(v)) = Active(src)
          /\ PresentReferences(Merged(v)) = {p[1] : p \in Active(src)}
        BY <1>1, <1>2, <1>3, MergedValid DEF ValidInv
    <3>3. Active(src) \subseteq Placements
        BY <1>2 DEF Active, SourceCollection
    <3>4. KeptComplete'
      <4> SUFFICES ASSUME NEW p \in Active(src), dest'[p] = "none"
                   PROVE  Merged(v).placements[p].state = "complete"
          BY <3>1, <3>2 DEF KeptComplete
      <4>1. p \in Placements /\ Kept(v, p)
          BY <1>1, <2>1, <2>3, <3>3 DEF Downloads
      <4>2. Merged(v).placements[p] = MergedPlacement(v, p)
          BY <4>1, MergedFields
      <4> QED BY <1>1, <4>1, <4>2 DEF MergedPlacement
    <3>5. ASSUME o.sync PROVE MirrorPlanned'
      <4>1. src.listed
          BY <1>1, <2>3 DEF Working
      <4>2. \A p \in Active(src) : dest'[p] # "none"
          BY <1>1, <2>1, <2>3, <3>3, <3>5 DEF Downloads, Kept
      <4>3. Merged(v).presence = "present" /\ Merged(v).name = src.name
          BY <1>1 DEF Merged
      <4>4. \A s \in Sets : Merged(v).sets[s] = "present" <=> s \in src.sets
        <5> TAKE s \in Sets
        <5>1. Merged(v).sets[s] = MergedSet(v, s)
            BY MergedFields
        <5> QED BY <1>1, <5>1, MissingKept DEF MergedSet
      <4>5. \A p \in Active(src) : Merged(v).placements[p].path = SourcePath(src, p)
          BY <1>1, <3>3, MergedFields, ShownPlacement
      <4>6. RecordMatches(Merged(v))
          BY <3>2, <4>3, <4>4, <4>5 DEF RecordMatches
      <4>7. RecordMatches(next)'
          BY <1>4, <3>1, <4>6 DEF RecordMatches
      <4>8. saved = NoManifest \/ next' # NoManifest
        <5>1. Merged(v) \in ManifestRecord
            BY <1>1, <1>2, <1>3, MergedType
        <5> QED BY <3>1, <5>1, DataAssumption
      <4> QED BY <1>4, <4>1, <4>2, <4>7, <4>8 DEF MirrorPlanned
    <3> QED BY <1>4, <2>2, <3>4, <3>5 DEF PlanInv, MirrorPlanned
  <2>4. CASE ~Working(v) /\ src.listed
    <3>1. next' = saved /\ Skipped(v)
        BY <1>1, <2>1, <2>4 DEF Planned, Working
    <3>2. ~o.sync /\ saved # NoManifest /\ ~NeedsWork(saved)
        BY <1>1, <3>1 DEF Skipped, Healthy
    <3>3. KeptComplete'
        BY <3>1, <3>2 DEF KeptComplete, NeedsWork
    <3> QED BY <1>4, <2>2, <3>2, <3>3 DEF PlanInv, MirrorPlanned
  <2>5. CASE ~Working(v) /\ ~src.listed
    <3>1. next' = IF o.sync /\ saved # NoManifest THEN SourceMissing(saved) ELSE NoManifest
        BY <1>1, <2>1, <2>5 DEF Planned
    <3>2. saved # NoManifest => Missing(SourceMissing(saved))
        BY SourceMissingValid DEF TypeOK, ValidInv
    <3>3. KeptComplete'
        BY <3>1, <3>2 DEF KeptComplete, Missing
    <3>4. MirrorPlanned'
      <4>1. CASE next' = NoManifest
        <5>1. o.sync => saved = NoManifest
          <6>1. saved # NoManifest => SourceMissing(saved) # NoManifest
              BY SourceMissingType, DataAssumption DEF TypeOK
          <6> QED BY <3>1, <4>1, <6>1
        <5> QED BY <1>4, <4>1, <5>1 DEF MirrorPlanned
      <4>2. CASE next' # NoManifest
        <5>1. Missing(next)'
            BY <3>1, <3>2, <4>2 DEF Missing
        <5> QED BY <1>4, <2>5, <4>2, <5>1 DEF MirrorPlanned
      <4> QED BY <4>1, <4>2
    <3> QED BY <2>2, <3>3, <3>4 DEF PlanInv
  <2> QED BY <2>3, <2>4, <2>5
<1> QED BY <1>5, <1>6

(* A step that moves the run on, or ends it without a result, leaves the   *)
(* plan and the results alone.                                             *)
LEMMA QuietStepKeepsPlan ==
    ASSUME PlanInv,
           UNCHANGED <<src, saved, opts, next, job, digest, dest>>,
           pc' \in Busy => pc \in Busy /\ outcome' = "none",
           pc' \in {"planned", "renaming", "removing"} => pc \in {"planned", "renaming", "removing"},
           pc' # "ended" => outcome' = "none",
           outcome' # "completed",
           files' = files \/ pc \in {"planned", "renaming", "removing"} \/ pc' \notin Busy,
           pc' = "saving" => \A p \in Placements : dest[p] = "queued" => job[p[1]] = "failed"
    PROVE  PlanInv'
<1>1. OutcomeLast' /\ SyncMirrorsSource'
    BY DEF OutcomeLast, SyncMirrorsSource
<1>2. Unserved' /\ Settled'
    BY DEF PlanInv, Unserved, Settled
<1>3. Served'
  <2>1. CASE pc' \notin Busy
      BY <2>1 DEF Served
  <2>2. CASE files' = files /\ pc' \in Busy
      BY <2>2 DEF PlanInv, Served, To
  <2>3. CASE pc \in {"planned", "renaming", "removing"} /\ pc' \in Busy
      BY <2>3 DEF PlanInv, Unserved, Served
  <2> QED BY <2>1, <2>2, <2>3
<1>4. KeptComplete'
    BY DEF PlanInv, KeptComplete
<1>5. MirrorPlanned'
  <2>1. RecordMatches(next)' <=> RecordMatches(next)
      BY DEF RecordMatches
  <2>2. Missing(next)' <=> Missing(next)
      BY DEF Missing
  <2> QED BY <2>1, <2>2 DEF PlanInv, MirrorPlanned
<1> QED BY <1>1, <1>2, <1>3, <1>4, <1>5 DEF PlanInv

(* The key of a destination is a key of the files.                         *)
LEMMA DestinationKey ==
    ASSUME IInv, NEW p \in Placements, dest[p] # "none"
    PROVE  To(p) \in FileKeys
<1>1. next \in ManifestRecord /\ next.placements[p].path \in Paths
    BY DEF IInv, TypeOK, MoveInv, DestinationsPlanned
<1>2. next.name \in Names /\ CaseFold \in [Names -> Names]
    BY <1>1, DataAssumption DEF ManifestRecord
<1> QED BY <1>1, <1>2 DEF To, Key, FileKeys, Paths

(* A download step leaves what other destinations hold.                    *)
LEMMA DownloadKeepsPlan ==
    ASSUME IInv, PlanInv,
           \/ \E r \in References : Fetch(r) \/ FetchFails(r)
           \/ \E p \in Placements : Install(p) \/ InstallFails(p)
    PROVE  PlanInv'
<1>0. TypeOK
    BY DEF IInv
<1>1. /\ UNCHANGED <<source, saved, pc, planVars, renames, moving, canceled, outcome>>
      /\ pc = "downloading"
    BY DEF Fetch, FetchFails, Install, InstallFails, DownloadStep
<1>2. src' = src /\ opts' = opts /\ next' = next /\ saved' = saved /\ pc' = pc
      /\ outcome' = outcome /\ outcome = "none"
    BY <1>1 DEF source, planVars, PlanInv, OutcomeLast
<1>3. \A p \in Placements : dest'[p] = "none" <=> dest[p] = "none"
  <2>1. CASE \E r \in References : Fetch(r) \/ FetchFails(r)
      BY <2>1 DEF Fetch, FetchFails
  <2>2. CASE \E p \in Placements : Install(p) \/ InstallFails(p)
      BY <1>0, <2>2 DEF Install, InstallFails, TypeOK
  <2> QED BY <2>1, <2>2
<1>4. Served'
  <2>1. ASSUME NEW r \in References, Fetch(r) \/ FetchFails(r)
        PROVE  Served'
    <3>1. /\ job[r] = "queued" /\ files' = files /\ dest' = dest
          /\ \A q \in References \ {r} : job'[q] = job[q] /\ digest'[q] = digest[q]
        BY <1>0, <2>1 DEF Fetch, FetchFails, TypeOK
    <3>2. ASSUME NEW p \in Placements, dest[p] \in {"installed", "failed"}
          PROVE  p[1] \in References \ {r}
        BY <1>1, <3>1, <3>2 DEF PlanInv, Served, Busy, Placements
    <3>3. \A p : To(p)' = To(p)
        BY <1>2 DEF To
    <3> QED BY <1>1, <1>2, <3>1, <3>2, <3>3 DEF PlanInv, Served
  <2>2. ASSUME NEW p \in Placements, Install(p) \/ InstallFails(p)
        PROVE  Served'
    <3>1. /\ job[p[1]] = "staged" /\ dest[p] = "queued"
          /\ job' = job /\ digest' = digest
          /\ dest'[p] \in {"installed", "failed"}
          /\ \A q \in Placements \ {p} : dest'[q] = dest[q]
          /\ dest'[p] = "installed" => files' = Installed(p)
          /\ files' = files \/ files' = Installed(p)
        BY <1>0, <2>2 DEF Install, InstallFails, TypeOK
    <3> DEFINE file == [content |-> digest[p[1]], meta |-> ObjectStore]
    <3>2. file \in File /\ file # NoFile /\ file.content = digest[p[1]]
        BY <3>1, InstalledType, DataAssumption
    <3>3. files \in [FileKeys -> File \cup {NoFile}] /\ To(p) \in FileKeys
        BY <1>0, <3>1, DestinationKey DEF TypeOK
    <3>4. dest'[p] = "installed" => files'[To(p)] # NoFile /\ files'[To(p)].content = digest[p[1]]
        BY <3>1, <3>2, <3>3 DEF Installed
    <3>5. ASSUME NEW q \in Placements \ {p}, dest[q] # "none"
          PROVE  files'[To(q)] = files[To(q)]
      <4>1. To(q) # To(p) /\ To(q) \in FileKeys
          BY <3>5, KeyPlacement, DestinationKey DEF To
      <4> QED BY <3>1, <3>3, <4>1 DEF Installed
    <3>6. \A q : To(q)' = To(q)
        BY <1>2 DEF To
    <3>7. ASSUME NEW q \in Placements
          PROVE  /\ dest'[q] \in {"installed", "failed"} => job[q[1]] = "staged"
                 /\ dest'[q] = "installed" =>
                       files'[To(q)] # NoFile /\ files'[To(q)].content = digest[q[1]]
      <4>1. CASE q = p
          BY <3>1, <3>4, <4>1
      <4>2. CASE q # p
          BY <1>1, <3>1, <3>5, <4>2 DEF PlanInv, Served, Busy
      <4> QED BY <4>1, <4>2
    <3> HIDE DEF file
    <3> QED BY <3>1, <3>6, <3>7 DEF Served
  <2> QED BY <2>1, <2>2
<1>5. KeptComplete'
    BY <1>1, <1>2, <1>3 DEF PlanInv, KeptComplete, PresentPlacements
<1>6. MirrorPlanned'
  <2>1. /\ RecordMatches(next)' <=> RecordMatches(next)
        /\ Active(src) \subseteq Placements
      BY <1>0, <1>2 DEF RecordMatches, TypeOK, SourceCollection, Active
  <2>2. Missing(next)' <=> Missing(next)
      BY <1>2 DEF Missing
  <2> QED BY <1>1, <1>2, <1>3, <2>1, <2>2 DEF PlanInv, MirrorPlanned
<1> QED BY <1>1, <1>2, <1>4, <1>5, <1>6
        DEF PlanInv, OutcomeLast, Unserved, Settled, SyncMirrorsSource

(* When no Reference failed, every destination was served: one that failed *)
(* or was given up makes its Reference fail.                               *)
LEMMA AllServed ==
    ASSUME IInv, ValidInv, PlanInv, pc = "saving", next # NoManifest,
           ~AnyReferenceFailed(Applied),
           NEW p \in PresentPlacements(next), dest[p] # "none"
    PROVE  dest[p] = "installed"
<1>0. TypeOK /\ Valid(next)
    BY DEF IInv, ValidInv
<1>1. p \in Placements /\ p[1] \in References
    BY DEF PresentPlacements, Placements
<1>2. p[1] \in PresentReferences(next) /\ next.references[p[1]] \in ReferenceRecord
    BY <1>0, <1>1 DEF Valid, PresentReferences, TypeOK, ManifestRecord
<1>3. /\ p[1] \in PresentReferences(Applied)
      /\ Applied.references[p[1]] = AppliedReference(p[1])
    BY <1>0, <1>1, <1>2, AppliedFields
<1>4. AppliedReference(p[1]).state # "failed"
    BY <1>3 DEF AnyReferenceFailed
<1>5. ASSUME job[p[1]] = "failed" PROVE FALSE
  <2>1. AppliedReference(p[1]) =
            [next.references[p[1]] EXCEPT !.state = "failed", !.failure = TRUE]
      BY <1>5 DEF AppliedReference
  <2> QED BY <1>2, <1>4, <2>1 DEF ReferenceRecord
<1>6. dest[p] # "queued"
    BY <1>1, <1>5 DEF PlanInv, Settled
<1>7. ASSUME dest[p] = "failed" PROVE FALSE
  <2>1. job[p[1]] = "staged"
      BY <1>1, <1>7 DEF PlanInv, Served, Busy
  <2> DEFINE shown  == {q \in PresentPlacements(next) : q[1] = p[1]}
             states == {AppliedPlacement(q).state : q \in shown}
  <2>2. AppliedPlacement(p).state = "failed"
    <3>1. next.placements[p] \in PlacementRecord
        BY <1>0, <1>1 DEF TypeOK, ManifestRecord
    <3>2. AppliedPlacement(p) = [next.placements[p] EXCEPT !.state = "failed", !.failure = TRUE]
        BY <1>7 DEF AppliedPlacement
    <3> QED BY <3>1, <3>2 DEF PlacementRecord
  <2>3. "failed" \in states
      BY <2>2
  <2>4. "pending" \notin states
    <3> SUFFICES ASSUME NEW q \in shown, AppliedPlacement(q).state = "pending"
                 PROVE  FALSE
        OBVIOUS
    <3>1. q \in PresentPlacements(next) /\ q \in Placements /\ q[1] = p[1]
        BY DEF PresentPlacements
    <3>2. dest[q] # "queued"
        BY <1>5, <3>1 DEF PlanInv, Settled
    <3>3. next.placements[q] \in PlacementRecord
        BY <1>0, <3>1 DEF TypeOK, ManifestRecord
    <3>4. CASE dest[q] = "none"
      <4>1. AppliedPlacement(q) = next.placements[q]
          BY <3>4 DEF AppliedPlacement
      <4>2. next.placements[q].state = "complete"
          BY <3>1, <3>4 DEF PlanInv, KeptComplete, Busy
      <4> QED BY <4>1, <4>2
    <3>5. CASE dest[q] = "installed"
      <4>1. AppliedPlacement(q) = [next.placements[q] EXCEPT !.state = "complete",
                                       !.failure = FALSE, !.sha = digest[q[1]]]
          BY <3>5 DEF AppliedPlacement
      <4> QED BY <3>3, <4>1 DEF PlacementRecord
    <3>6. CASE dest[q] = "failed"
      <4>1. AppliedPlacement(q) =
                [next.placements[q] EXCEPT !.state = "failed", !.failure = TRUE]
          BY <3>6 DEF AppliedPlacement
      <4> QED BY <3>3, <4>1 DEF PlacementRecord
    <3> QED BY <1>0, <3>1, <3>2, <3>4, <3>5, <3>6 DEF TypeOK, DestState
  <2>5. RecomputedState(p[1]) = "failed"
      BY <2>3, <2>4 DEF RecomputedState
  <2>6. AppliedReference(p[1]) =
            [next.references[p[1]] EXCEPT !.sha = digest[p[1]],
                 !.state = RecomputedState(p[1]),
                 !.failure = (RecomputedState(p[1]) = "failed")]
      BY <2>1 DEF AppliedReference
  <2>7. AppliedReference(p[1]).state = RecomputedState(p[1])
    <3> DEFINE state == RecomputedState(p[1])
    <3> HIDE DEF state, states, shown
    <3>1. AppliedReference(p[1]) =
              [next.references[p[1]] EXCEPT !.sha = digest[p[1]], !.state = state,
                                            !.failure = (state = "failed")]
        BY <2>6 DEF state
    <3>2. AppliedReference(p[1]).state = state
        BY <1>2, <3>1 DEF ReferenceRecord
    <3> QED BY <3>2 DEF state
  <2> QED BY <1>4, <2>5, <2>7
<1> QED BY <1>0, <1>1, <1>6, <1>7 DEF TypeOK, DestState

(* The manifest a completed run writes, and how it comes about.            *)
LEMMA CompletedSave ==
    ASSUME IInv, ValidInv, PlanInv, Save \/ SaveFails, outcome' = "completed"
    PROVE  /\ pc = "saving"
           /\ UNCHANGED <<src, files, opts, next, renames, moving, job, digest, dest>>
           /\ IF next = NoManifest THEN saved' = saved
              ELSE /\ saved' = Applied
                   /\ src.listed => ~AnyReferenceFailed(Applied)
<1>1. Save
    BY DEF SaveFails, EndWith
<1>2. next = NoManifest => Applied = NoManifest
    BY DEF Applied
<1>3. next # NoManifest => Applied # NoManifest
    BY AppliedFields DEF IInv, ValidInv
<1> QED BY <1>1, <1>2, <1>3 DEF Save, EndWith, source, planVars, workVars

(* The files and the record of a completed synchronizing run.              *)
LEMMA SaveMirrors ==
    ASSUME IInv, ValidInv, PlanInv, Save \/ SaveFails
    PROVE  PlanInv'
<1>1. pc = "saving" /\ pc' = "ended"
    BY DEF Save, SaveFails, EndWith
<1>2. SyncMirrorsSource'
  <2> SUFFICES ASSUME outcome' = "completed", opts'.sync, saved' # NoManifest
               PROVE  IF src'.listed
                      THEN /\ RecordMatches(saved)'
                           /\ \A p \in Active(src') :
                                  files'[Key(saved'.name, p, saved'.placements[p].path)].content
                                      = digest'[p[1]]
                      ELSE /\ saved'.presence = "missing"
                           /\ PresentPlacements(saved') = {}
                           /\ PresentReferences(saved') = {}
      BY DEF SyncMirrorsSource, StoredAt
  <2>1. /\ UNCHANGED <<src, files, opts, next, renames, moving, job, digest, dest>>
        /\ IF next = NoManifest THEN saved' = saved
           ELSE /\ saved' = Applied
                /\ src.listed => ~AnyReferenceFailed(Applied)
      BY CompletedSave
  <2>2. next # NoManifest
      BY <1>1, <2>1 DEF PlanInv, MirrorPlanned, Busy
  <2>3. /\ saved' = Applied
        /\ Applied.name = next.name
        /\ Applied.presence = next.presence /\ Applied.sets = next.sets
        /\ \A p \in Placements : Applied.placements[p].path = next.placements[p].path
        /\ PresentPlacements(Applied) = PresentPlacements(next)
        /\ PresentReferences(Applied) = PresentReferences(next)
      BY <2>1, <2>2, AppliedFields DEF IInv, ValidInv
  <2>4. CASE src.listed
    <3>1. RecordMatches(next) /\ \A p \in Active(src) : dest[p] # "none"
        BY <1>1, <2>1, <2>2, <2>4 DEF PlanInv, MirrorPlanned, Busy
    <3>2. Active(src) = PresentPlacements(next) /\ Active(src) \subseteq Placements
        BY <3>1 DEF RecordMatches, PresentPlacements
    <3>3. RecordMatches(Applied)
        BY <2>3, <3>1, <3>2 DEF RecordMatches
    <3>4. RecordMatches(saved)'
        BY <2>1, <2>3, <3>3 DEF RecordMatches
    <3>5. ASSUME NEW p \in Active(src)
          PROVE  files[Key(Applied.name, p, Applied.placements[p].path)].content = digest[p[1]]
      <4>1. dest[p] = "installed" /\ p \in Placements
          BY <1>1, <2>1, <2>2, <2>4, <3>1, <3>2, AllServed
      <4>2. files[To(p)].content = digest[p[1]]
          BY <1>1, <4>1 DEF PlanInv, Served, Busy
      <4> QED BY <2>3, <4>1, <4>2 DEF To
    <3> QED BY <2>1, <2>3, <2>4, <3>4, <3>5
  <2>5. CASE ~src.listed
    <3>1. Missing(next)
        BY <1>1, <2>1, <2>2, <2>5 DEF PlanInv, MirrorPlanned, Busy
    <3> QED BY <2>1, <2>3, <2>5, <3>1 DEF Missing
  <2> QED BY <2>4, <2>5
<1> QED BY <1>1, <1>2
        DEF PlanInv, OutcomeLast, Unserved, Served, Settled, KeptComplete, MirrorPlanned, Busy

(* Every step.                                                             *)
LEMMA PlanKeeps ==
    ASSUME IInv, ValidInv, PlanInv, [Next]_vars
    PROVE  PlanInv'
<1>0. TypeOK /\ OutcomeLast
    BY DEF IInv, PlanInv
<1>1. CASE \E o \in RunOptions : Start(o)
    BY <1>0, <1>1, StartPlans
<1>2. CASE Save \/ SaveFails
    BY <1>2, SaveMirrors
<1>3. CASE \/ \E r \in References : Fetch(r) \/ FetchFails(r)
           \/ \E p \in Placements : Install(p) \/ InstallFails(p)
    BY <1>3, DownloadKeepsPlan
<1>4. CASE Exit \/ Crash
  <2>1. pc' = "idle" /\ outcome' = "none"
      BY <1>4 DEF Exit, Crash, Forget
  <2> QED BY <2>1 DEF PlanInv, OutcomeLast, Unserved, Served, Settled, KeptComplete,
                MirrorPlanned, SyncMirrorsSource, Busy
<1>5. CASE Decline \/ RenameError \/ (Confirm /\ pc' = "ended")
           \/ \E p \in Placements : RenamePut(p) /\ pc' = "ended"
  <2>1. pc' = "ended" /\ outcome' \in {"declined", "rename failed"}
      BY <1>5 DEF Decline, RenameError, Confirm, RenamePut, RenameFails, EndWith
  <2> QED BY <2>1 DEF PlanInv, OutcomeLast, Unserved, Served, Settled, KeptComplete,
                MirrorPlanned, SyncMirrorsSource, Busy
<1>6. CASE Confirm /\ pc' # "ended"
  <2>1. /\ pc = "planned" /\ pc' = "renaming" /\ outcome' = "none" /\ files' = files
        /\ UNCHANGED <<src, saved, opts, next, job, digest, dest>>
      BY <1>0, <1>6 DEF Confirm, EndWith, OutcomeLast, source, disk, planVars, workVars
  <2> QED BY <2>1, QuietStepKeepsPlan DEF Busy
<1>7. CASE \E p \in Placements : (RenamePut(p) /\ pc' # "ended") \/ RenameRemove(p)
  <2>1. /\ pc \in {"renaming", "removing"} /\ pc' \in {"renaming", "removing"}
        /\ outcome' = "none"
        /\ UNCHANGED <<src, saved, opts, next, job, digest, dest>>
      BY <1>0, <1>7 DEF RenamePut, RenameRemove, RenameFails, EndWith, OutcomeLast, source,
                        planVars
  <2> QED BY <2>1, QuietStepKeepsPlan DEF Busy
<1>8. CASE RenamesDone \/ DownloadsDone
  <2>1. /\ \/ pc = "renaming" /\ pc' = "downloading"
           \/ /\ pc = "downloading" /\ pc' = "saving"
              /\ \A p \in Placements : dest[p] = "queued" => job[p[1]] = "failed"
        /\ outcome' = "none" /\ files' = files
        /\ UNCHANGED <<src, saved, opts, next, job, digest, dest>>
      BY <1>0, <1>8 DEF RenamesDone, DownloadsDone, OutcomeLast, source, disk, planVars,
                        workVars
  <2> QED BY <2>1, QuietStepKeepsPlan DEF Busy
<1>9. CASE Cancel
  <2>1. /\ pc \in {"planned", "renaming", "removing", "downloading"} /\ pc' = pc
        /\ outcome' = "none" /\ files' = files
        /\ UNCHANGED <<src, saved, opts, next, job, digest, dest>>
      BY <1>0, <1>9 DEF Cancel, OutcomeLast, source, disk, planVars, workVars
  <2> QED BY <2>1, QuietStepKeepsPlan DEF Busy
<1>10. CASE UserStep
  <2>1. /\ pc \in {"idle", "planned"} /\ pc' = pc /\ outcome' = "none"
        /\ UNCHANGED <<src, saved, opts, next, job, digest, dest>>
      BY <1>0, <1>10 DEF UserStep, UserDeletes, UserDamages, Tamper, OutcomeLast, planVars,
                         workVars
  <2> QED BY <2>1, QuietStepKeepsPlan DEF Busy
<1>11. CASE SourceChanges
  <2>1. UNCHANGED <<disk, pc, planVars, workVars, canceled, outcome>>
      BY <1>11 DEF SourceChanges, Change
  <2>2. CASE pc = "idle"
    <3>1. pc' = "idle" /\ outcome' = "none"
        BY <1>0, <2>1, <2>2 DEF OutcomeLast
    <3> QED BY <3>1 DEF PlanInv, OutcomeLast, Unserved, Served, Settled, KeptComplete,
                  MirrorPlanned, SyncMirrorsSource, Busy
  <2>3. CASE pc # "idle"
    <3>1. /\ pc = "downloading"
          /\ src'.listed = src.listed /\ src'.name = src.name /\ src'.sets = src.sets
          /\ src'.setName = src.setName /\ src'.refName = src.refName
          /\ src'.at = src.at /\ src'.kind = src.kind
        BY <1>0, <1>11, <2>3, OnlyContentChanges
    <3>2. Active(src') = Active(src) /\ (RecordMatches(next)' <=> RecordMatches(next))
      <4>1. /\ Active(src') = Active(src)
            /\ \A p : SourcePath(src', p) = SourcePath(src, p)
          BY <3>1 DEF Active, SourcePath
      <4>2. next' = next
          BY <2>1 DEF planVars
      <4> QED BY <3>1, <4>1, <4>2 DEF RecordMatches
    <3>3. Missing(next)' <=> Missing(next)
        BY <2>1 DEF Missing, planVars
    <3>4. /\ pc' = pc /\ outcome' = outcome /\ outcome = "none"
          /\ UNCHANGED <<files, saved, opts, next, job, digest, dest>>
        BY <1>0, <2>1, <3>1 DEF OutcomeLast, disk, planVars, workVars
    <3>5. MirrorPlanned'
        BY <3>1, <3>2, <3>3, <3>4 DEF PlanInv, MirrorPlanned
    <3>6. Served' /\ KeptComplete'
        BY <3>4 DEF PlanInv, Served, KeptComplete, To
    <3> QED BY <3>1, <3>4, <3>5, <3>6
            DEF PlanInv, OutcomeLast, Unserved, Settled, SyncMirrorsSource
  <2> QED BY <2>2, <2>3
<1>12. CASE UNCHANGED vars
  <2>1. UNCHANGED <<src, files, saved, pc, opts, next, job, digest, dest, outcome>>
      BY <1>12 DEF vars
  <2>2. /\ RecordMatches(next)' <=> RecordMatches(next)
        /\ RecordMatches(saved)' <=> RecordMatches(saved)
        /\ Missing(next)' <=> Missing(next)
      BY <2>1 DEF RecordMatches, Missing
  <2>3. MirrorPlanned'
      BY <2>1, <2>2 DEF PlanInv, MirrorPlanned
  <2>4. SyncMirrorsSource'
      BY <2>1, <2>2 DEF PlanInv, SyncMirrorsSource, StoredAt
  <2>5. Served' /\ KeptComplete' /\ Settled' /\ Unserved' /\ OutcomeLast'
      BY <2>1 DEF PlanInv, Served, KeptComplete, Settled, Unserved, OutcomeLast, To
  <2> QED BY <2>3, <2>4, <2>5 DEF PlanInv
<1> QED BY <1>1, <1>2, <1>3, <1>4, <1>5, <1>6, <1>7, <1>8, <1>9, <1>10, <1>11, <1>12
        DEF Next, RunStep, FaultStep

(* A completed run that synchronizes leaves a record that lists what the   *)
(* source shows, under its names, and stores for each Placement what it    *)
(* downloaded; a Collection that is gone is recorded as missing: after any *)
(* history of faults, of changes and of files lost or damaged.             *)
THEOREM SyncRunsMirror == Spec => []SyncMirrorsSource
<1>1. Init => ValidInv /\ RetainInv /\ PlanInv
    BY ValidInit, PlanInit
<1>2. IInv /\ ValidInv /\ RetainInv /\ PlanInv /\ [Next]_vars
        => ValidInv' /\ RetainInv' /\ PlanInv'
    BY RecordStep, PlanKeeps
<1>3. PlanInv => SyncMirrorsSource
    BY DEF PlanInv
<1> QED BY <1>1, <1>2, <1>3, Invariant, PTL DEF Spec

-----------------------------------------------------------------------------
(* What a completed run leaves of the files it kept.                       *)

(* A rename that was begun is not waiting any more.                        *)
MovesApart == renames \cap moving = {}

(* A listed Collection has a plan.                                         *)
NextPlanned == pc \in Busy /\ src.listed => next # NoManifest

(* A run that works has the name the record has: a new one stops Confirm.  *)
NameSettled ==
    pc \in Busy \ {"planned"} /\ saved # NoManifest /\ next # NoManifest =>
        next.name = saved.name

(* Where the file of a Placement is during the renames.                    *)
Here(p) ==
    Key(saved.name, p,
        IF p \in renames THEN saved.placements[p].path ELSE next.placements[p].path)

(* A Placement that is not downloaded has the file that planning trusted.  *)
KeptHere ==
    pc \in Busy /\ src.listed /\ next # NoManifest =>
        \A p \in PresentPlacements(next) : dest[p] = "none" =>
            /\ saved # NoManifest
            /\ files[Here(p)] # NoFile
            /\ opts.verify => files[Here(p)].content = next.placements[p].sha

KeptInv ==
    /\ MovesApart
    /\ NextPlanned
    /\ NameSettled
    /\ KeptHere
    /\ CompletedMeansStored
    /\ VerifiedMeansIntact

(* Initially no run has trusted a file.                                    *)
LEMMA KeptInit == Init => KeptInv
BY DEF Init, KeptInv, MovesApart, NextPlanned, NameSettled, KeptHere, CompletedMeansStored,
       VerifiedMeansIntact, Busy

(* The file of a recorded Placement is a file of that Placement.           *)
LEMMA HereKey ==
    ASSUME IInv, ValidInv, saved # NoManifest, next # NoManifest,
           NEW p \in PresentPlacements(next)
    PROVE  Here(p) \in FileKeys /\ Here(p)[2] = p
<1>1. /\ p \in Placements /\ saved \in ManifestRecord /\ next \in ManifestRecord
      /\ next.placements[p].presence # "none"
    BY DEF PresentPlacements, IInv, TypeOK
<1>2. next.placements[p].path \in Paths
  <2>1. next.placements[p].path # NoPath
      BY <1>1 DEF ValidInv, Valid
  <2> QED BY <1>1, <2>1 DEF ManifestRecord, PlacementRecord
<1>3. p \in renames => saved.placements[p].path \in Paths
    BY DEF IInv, MoveInv, MovesPlanned
<1>4. saved.name \in Names /\ CaseFold \in [Names -> Names]
    BY <1>1, DataAssumption DEF ManifestRecord
<1>5. \A path \in Paths : Key(saved.name, p, path) \in FileKeys
    BY <1>1, <1>4 DEF Key, FileKeys, Paths
<1> QED BY <1>2, <1>3, <1>5, KeyPlacement DEF Here

(* What Build keeps is there.                                              *)
LEMMA StartKept ==
    ASSUME IInv, ValidInv, OutcomeLast, NEW o \in RunOptions, Start(o)
    PROVE  KeptInv'
<1> DEFINE v == View(o)
<1>0. TypeOK /\ moving = {}
    BY DEF IInv, MoveInv, MovesInPhase, Start
<1>1. /\ v.src = src /\ v.opts = o /\ v.files = files
      /\ v.prior = IF saved = NoManifest THEN NewManifest(src.name) ELSE saved
    BY DEF View
<1>2. src \in SourceCollection /\ src.name \in Names
    BY <1>0 DEF TypeOK, SourceCollection
<1>3. v.prior \in ManifestRecord /\ Valid(v.prior)
    BY <1>0, <1>1, <1>2, NewManifestType, NewManifestValid DEF TypeOK, ValidInv
<1>4. /\ pc = "idle" /\ opts' = o /\ src' = src /\ saved' = saved /\ files' = files
      /\ moving' = {} /\ outcome = "none"
    BY <1>0 DEF Start, source, disk, OutcomeLast
<1>5. CASE Refusal(v) # "none"
  <2>1. pc' = "ended" /\ outcome' = Refusal(v)
      BY <1>5 DEF Start
  <2>2. outcome' # "completed"
      BY <2>1 DEF Refusal
  <2> QED BY <1>4, <2>1, <2>2 DEF KeptInv, MovesApart, NextPlanned, NameSettled, KeptHere,
                CompletedMeansStored, VerifiedMeansIntact, Busy
<1>6. CASE Refusal(v) = "none"
  <2>1. /\ pc' = "planned" /\ next' = Planned(v) /\ outcome' = "none"
        /\ renames' = IF Working(v) THEN Renames(v) ELSE {}
        /\ dest' = [p \in Placements |->
                       IF Working(v) /\ p \in Downloads(v) THEN "queued" ELSE "none"]
      BY <1>4, <1>6 DEF Start
  <2>a. Merged(v) \in ManifestRecord
      BY <1>1, <1>2, <1>3, MergedType
  <2> HIDE DEF v
  <2>2. MovesApart' /\ NameSettled' /\ CompletedMeansStored' /\ VerifiedMeansIntact'
      BY <1>4, <2>1 DEF MovesApart, NameSettled, CompletedMeansStored, VerifiedMeansIntact
  <2>3. CASE Working(v)
    <3>1. next' = Merged(v) /\ next' # NoManifest /\ renames' = Renames(v)
        BY <2>1, <2>a, <2>3, DataAssumption DEF Planned
    <3>2. PresentPlacements(Merged(v)) = Active(src)
        BY <1>1, <1>2, <1>3, MergedValid DEF ValidInv
    <3>3. Active(src) \subseteq Placements
        BY <1>2 DEF Active, SourceCollection
    <3>4. ASSUME NEW p \in Active(src), dest'[p] = "none"
          PROVE  /\ saved # NoManifest
                 /\ files[Here(p)'] # NoFile
                 /\ o.verify => files[Here(p)'].content = Merged(v).placements[p].sha
      <4>1. p \in Placements /\ Trusted(v, p)
          BY <1>1, <2>1, <2>3, <3>3, <3>4 DEF Downloads, Kept
      <4>2. saved # NoManifest
        <5>1. Recorded(v, p)
            BY <4>1 DEF Trusted
        <5> QED BY <1>1, <4>1, <5>1 DEF Recorded, NewManifest, NewPlacement
      <4>3. Merged(v).placements[p] = MergedPlacement(v, p)
          BY <4>1, MergedFields
      <4>4. /\ Merged(v).placements[p].path = SourcePath(src, p)
            /\ Merged(v).placements[p].sha = saved.placements[p].sha
          BY <1>1, <4>1, <4>2, <4>3 DEF MergedPlacement
      <4>5. Here(p)' = Key(saved.name, p, saved.placements[p].path)
          BY <1>1, <1>4, <3>1, <4>1, <4>2, <4>4 DEF Here, Renames, PathChanged
      <4>6. Intact(files, Here(p)', saved.placements[p].sha, o.verify)
          BY <1>1, <4>1, <4>2, <4>5 DEF Trusted, RecordedKey
      <4> QED BY <4>2, <4>4, <4>6 DEF Intact
    <3>5. KeptHere'
        BY <1>4, <3>1, <3>2, <3>4 DEF KeptHere
    <3> QED BY <2>2, <3>1, <3>5 DEF KeptInv, NextPlanned
  <2>4. CASE ~Working(v) /\ src.listed
    <3>1. next' = saved /\ Skipped(v) /\ renames' = {}
        BY <1>1, <2>1, <2>4 DEF Planned, Working
    <3>2. saved # NoManifest /\ Healthy(v) /\ v.prior = saved
        BY <1>1, <3>1 DEF Skipped
    <3>3. ASSUME NEW p \in PresentPlacements(saved)
          PROVE  /\ files[Here(p)'] # NoFile
                 /\ o.verify => files[Here(p)'].content = saved.placements[p].sha
      <4>1. Here(p)' = Key(saved.name, p, saved.placements[p].path)
          BY <1>4, <3>1 DEF Here
      <4>2. Intact(files, Here(p)', saved.placements[p].sha, o.verify)
          BY <1>1, <3>2, <4>1 DEF Healthy, RecordedKey
      <4> QED BY <4>2 DEF Intact
    <3>4. KeptHere'
        BY <1>4, <3>1, <3>2, <3>3 DEF KeptHere
    <3> QED BY <2>2, <3>1, <3>2, <3>4 DEF KeptInv, NextPlanned
  <2>5. CASE ~src.listed
      BY <1>4, <2>2, <2>5 DEF KeptInv, NextPlanned, KeptHere
  <2> QED BY <2>3, <2>4, <2>5
<1> QED BY <1>5, <1>6

(* Both halves of a rename take the file along.                            *)
LEMMA RenameKeepsKept ==
    ASSUME NamesApart, IInv, ValidInv, OutcomeLast, KeptInv, NEW p \in Placements,
           (RenamePut(p) /\ pc' # "ended") \/ RenameRemove(p)
    PROVE  KeptInv'
<1>0. files \in [FileKeys -> File \cup {NoFile}]
    BY DEF IInv, TypeOK
<1>1. /\ pc \in {"renaming", "removing"} /\ pc' \in {"renaming", "removing"}
      /\ p \in renames \cup moving
      /\ UNCHANGED <<src, saved, opts, next, dest, outcome>>
      /\ outcome = "none"
    BY DEF RenamePut, RenameRemove, RenameFails, EndWith, OutcomeLast, source, planVars
<1>2. /\ From(p) \in FileKeys /\ To(p) \in FileKeys /\ From(p) # To(p)
      /\ To(p) = Key(saved.name, p, next.placements[p].path)
    BY <1>1, RenameKeys
<1>3. MovesApart' /\ p \notin renames'
    BY DEF RenamePut, RenameRemove, RenameFails, EndWith, KeptInv, MovesApart
<1>4. \A q : Here(q)' = Key(saved.name, q, IF q \in renames' THEN saved.placements[q].path
                                                          ELSE next.placements[q].path)
    BY <1>1 DEF Here
<1>5. ASSUME src.listed, next # NoManifest,
             NEW q \in PresentPlacements(next), dest[q] = "none"
      PROVE  /\ saved # NoManifest
             /\ files'[Here(q)'] # NoFile
             /\ opts.verify => files'[Here(q)'].content = next.placements[q].sha
  <2>1. /\ saved # NoManifest /\ files[Here(q)] # NoFile
        /\ opts.verify => files[Here(q)].content = next.placements[q].sha
      BY <1>1, <1>5 DEF KeptInv, KeptHere, Busy
  <2>2. Here(q) \in FileKeys /\ Here(q)[2] = q
      BY <1>5, <2>1, HereKey
  <2>3. From(p)[2] = p /\ To(p)[2] = p
      BY KeyPlacement DEF From, To
  <2>4. CASE q # p
    <3>1. q \in renames' <=> q \in renames
        BY <2>4 DEF RenamePut, RenameRemove, RenameFails, EndWith
    <3>2. Here(q)' = Here(q)
        BY <1>4, <3>1 DEF Here
    <3>3. files'[Here(q)] = files[Here(q)]
        BY <1>0, <1>2, <2>2, <2>3, <2>4
        DEF RenamePut, RenameRemove, RenameFails, EndWith, Copied, Removed
    <3> QED BY <2>1, <3>2, <3>3
  <2>5. CASE q = p /\ RenamePut(p) /\ pc' # "ended"
    <3> DEFINE copy == [content |-> files[From(p)].content, meta |-> FALSE]
    <3>1. /\ pc = "renaming" /\ p \in renames /\ files[From(p)] # NoFile
          /\ files' = [files EXCEPT ![To(p)] = copy]
        BY <2>5 DEF RenamePut, RenameFails, EndWith, Copied
    <3>2. Here(p) = From(p) /\ Here(p)' = To(p)
        BY <1>2, <1>3, <1>4, <3>1 DEF Here, From
    <3>3. copy # NoFile /\ copy.content = files[From(p)].content
        BY <3>1, CopiedType, DataAssumption
    <3>4. files'[To(p)] = copy
        BY <1>0, <1>2, <3>1
    <3> HIDE DEF copy
    <3> QED BY <2>1, <2>5, <3>2, <3>3, <3>4
  <2>6. CASE q = p /\ RenameRemove(p)
    <3>1. /\ p \in moving /\ renames' = renames
          /\ files' = [files EXCEPT ![From(p)] = NoFile]
        BY <2>6 DEF RenameRemove, Removed
    <3>2. Here(p) = To(p) /\ Here(p)' = To(p)
        BY <1>2, <1>3, <1>4, <3>1 DEF Here
    <3>3. files'[To(p)] = files[To(p)]
        BY <1>0, <1>2, <3>1
    <3> QED BY <2>1, <2>6, <3>2, <3>3
  <2> QED BY <2>4, <2>5, <2>6
<1>6. KeptHere'
    BY <1>1, <1>5 DEF KeptHere
<1> QED BY <1>1, <1>3, <1>6
        DEF KeptInv, NextPlanned, NameSettled, CompletedMeansStored, VerifiedMeansIntact, Busy

(* Nothing is installed where a kept file is.                              *)
LEMMA DownloadKeepsKept ==
    ASSUME IInv, ValidInv, OutcomeLast, KeptInv,
           \/ \E r \in References : Fetch(r) \/ FetchFails(r)
           \/ \E p \in Placements : Install(p) \/ InstallFails(p)
    PROVE  KeptInv'
<1>0. TypeOK /\ files \in [FileKeys -> File \cup {NoFile}]
    BY DEF IInv, TypeOK
<1>1. /\ pc = "downloading" /\ outcome = "none"
      /\ UNCHANGED <<src, saved, opts, next, renames, moving, pc, outcome>>
    BY DEF Fetch, FetchFails, Install, InstallFails, DownloadStep, OutcomeLast, source, planVars
<1>2. ASSUME NEW q \in PresentPlacements(next), dest'[q] = "none", next # NoManifest,
             src.listed
      PROVE  /\ dest[q] = "none" /\ saved # NoManifest
             /\ files'[Here(q)] = files[Here(q)]
  <2>1. CASE \E r \in References : Fetch(r) \/ FetchFails(r)
    <3>1. dest' = dest /\ files' = files
        BY <2>1 DEF Fetch, FetchFails
    <3> QED BY <1>1, <1>2, <3>1 DEF KeptInv, KeptHere, Busy
  <2>2. ASSUME NEW p \in Placements, Install(p) \/ InstallFails(p)
        PROVE  /\ dest[q] = "none" /\ saved # NoManifest
               /\ files'[Here(q)] = files[Here(q)]
    <3>1. /\ dest'[p] \in {"installed", "failed"}
          /\ \A r \in Placements \ {p} : dest'[r] = dest[r]
          /\ files' = files \/ files' = Installed(p)
        BY <1>0, <2>2 DEF Install, InstallFails, TypeOK
    <3>2. q \in Placements /\ q # p /\ dest[q] = "none"
        BY <1>2, <3>1 DEF PresentPlacements
    <3>3. saved # NoManifest
        BY <1>1, <1>2, <3>2 DEF KeptInv, KeptHere, Busy
    <3>4. Here(q) # To(p) /\ Here(q) \in FileKeys
        BY <1>2, <3>2, <3>3, HereKey, KeyPlacement DEF To
    <3> QED BY <1>0, <3>1, <3>2, <3>3, <3>4 DEF Installed
  <2> QED BY <2>1, <2>2
<1>3. \A q : Here(q)' = Here(q)
    BY <1>1 DEF Here
<1>4. KeptHere'
    BY <1>1, <1>2, <1>3 DEF KeptInv, KeptHere
<1> QED BY <1>1, <1>4
        DEF KeptInv, MovesApart, NextPlanned, NameSettled, CompletedMeansStored, VerifiedMeansIntact

(* The files of a completed run.                                           *)
LEMMA SaveStores ==
    ASSUME IInv, ValidInv, PlanInv, KeptInv, Save \/ SaveFails
    PROVE  KeptInv'
<1>1. /\ pc = "saving" /\ pc' = "ended"
      /\ UNCHANGED <<src, files, opts, next, renames, moving, job, digest, dest>>
    BY DEF Save, SaveFails, EndWith, source, planVars, workVars
<1>2. ASSUME outcome' = "completed", src.listed, saved' # NoManifest,
             NEW p \in PresentPlacements(saved')
      PROVE  /\ saved'.placements[p].state = "complete"
             /\ files[Key(saved'.name, p, saved'.placements[p].path)] # NoFile
             /\ opts.verify =>
                   files[Key(saved'.name, p, saved'.placements[p].path)].content
                       = saved'.placements[p].sha
  <2>1. next # NoManifest
      BY <1>1, <1>2 DEF KeptInv, NextPlanned, Busy
  <2>2. saved' = Applied /\ ~AnyReferenceFailed(Applied)
      BY <1>2, <2>1, CompletedSave
  <2>3. /\ Applied.name = next.name
        /\ Applied.placements[p] = AppliedPlacement(p)
        /\ Applied.placements[p].path = next.placements[p].path
        /\ p \in PresentPlacements(next) /\ p \in Placements
      BY <1>2, <2>1, <2>2, AppliedFields DEF IInv, ValidInv, PresentPlacements
  <2>4. Key(saved'.name, p, saved'.placements[p].path) = To(p)
      BY <2>2, <2>3 DEF To
  <2>5. next.placements[p] \in PlacementRecord
      BY <2>1, <2>3 DEF IInv, TypeOK, ManifestRecord
  <2>6. CASE dest[p] = "none"
    <3>1. /\ saved # NoManifest /\ files[Here(p)] # NoFile
          /\ opts.verify => files[Here(p)].content = next.placements[p].sha
        BY <1>1, <1>2, <2>1, <2>3, <2>6 DEF KeptInv, KeptHere, Busy
    <3>2. Here(p) = To(p)
      <4>1. renames = {}
          BY <1>1 DEF IInv, MoveInv, MovesInPhase
      <4>2. next.name = saved.name
          BY <1>1, <2>1, <3>1 DEF KeptInv, NameSettled, Busy
      <4> QED BY <4>1, <4>2 DEF Here, To
    <3>3. AppliedPlacement(p) = next.placements[p]
        BY <2>6 DEF AppliedPlacement
    <3>4. next.placements[p].state = "complete"
        BY <1>1, <2>1, <2>3, <2>6 DEF PlanInv, KeptComplete, Busy
    <3> QED BY <2>2, <2>3, <2>4, <3>1, <3>2, <3>3, <3>4
  <2>7. CASE dest[p] # "none"
    <3>1. dest[p] = "installed"
        BY <1>1, <2>1, <2>2, <2>3, <2>7, AllServed
    <3>2. AppliedPlacement(p) = [next.placements[p] EXCEPT !.state = "complete",
                                     !.failure = FALSE, !.sha = digest[p[1]]]
        BY <3>1 DEF AppliedPlacement
    <3>3. AppliedPlacement(p).state = "complete" /\ AppliedPlacement(p).sha = digest[p[1]]
        BY <2>5, <3>2 DEF PlacementRecord
    <3>4. files[To(p)] # NoFile /\ files[To(p)].content = digest[p[1]]
        BY <1>1, <2>3, <3>1 DEF PlanInv, Served, Busy
    <3> QED BY <2>2, <2>3, <2>4, <3>3, <3>4
  <2> QED BY <2>6, <2>7
<1>3. CompletedMeansStored' /\ VerifiedMeansIntact'
  <2> SUFFICES ASSUME outcome' = "completed", src'.listed, saved' # NoManifest,
                      NEW p \in PresentPlacements(saved')
               PROVE  /\ saved'.placements[p].state = "complete"
                      /\ files'[Key(saved'.name, p, saved'.placements[p].path)] # NoFile
                      /\ opts'.verify =>
                           files'[Key(saved'.name, p, saved'.placements[p].path)].content
                               = saved'.placements[p].sha
      BY DEF CompletedMeansStored, VerifiedMeansIntact, StoredAt
  <2>1. src.listed
      BY <1>1
  <2> QED BY <1>1, <1>2, <2>1
<1> QED BY <1>1, <1>3 DEF KeptInv, MovesApart, NextPlanned, NameSettled, KeptHere, Busy

(* Every step, unless files change behind the prompt.                      *)
LEMMA KeptKeeps ==
    ASSUME NamesApart, "at prompt" \notin Tampering,
           IInv, ValidInv, PlanInv, KeptInv, [Next]_vars
    PROVE  KeptInv'
<1>0. TypeOK /\ OutcomeLast
    BY DEF IInv, PlanInv
<1>1. CASE \E o \in RunOptions : Start(o)
    BY <1>0, <1>1, StartKept
<1>2. CASE Save \/ SaveFails
    BY <1>2, SaveStores
<1>3. CASE \/ \E r \in References : Fetch(r) \/ FetchFails(r)
           \/ \E p \in Placements : Install(p) \/ InstallFails(p)
    BY <1>0, <1>3, DownloadKeepsKept
<1>4. CASE \E p \in Placements : (RenamePut(p) /\ pc' # "ended") \/ RenameRemove(p)
    BY <1>0, <1>4, RenameKeepsKept
<1>5. CASE Exit \/ Crash
  <2>1. pc' = "idle" /\ outcome' = "none" /\ renames' = {}
      BY <1>5 DEF Exit, Crash, Forget
  <2> QED BY <2>1 DEF KeptInv, MovesApart, NextPlanned, NameSettled, KeptHere,
                CompletedMeansStored, VerifiedMeansIntact, Busy
<1>6. CASE Decline \/ RenameError \/ (Confirm /\ pc' = "ended")
           \/ \E p \in Placements : RenamePut(p) /\ pc' = "ended"
  <2>1. /\ pc' = "ended" /\ outcome' \in {"declined", "rename failed"}
        /\ renames' = renames /\ moving' = moving
      BY <1>6 DEF Decline, RenameError, Confirm, RenamePut, RenameFails, EndWith, workVars
  <2> QED BY <2>1 DEF KeptInv, MovesApart, NextPlanned, NameSettled, KeptHere,
                CompletedMeansStored, VerifiedMeansIntact, Busy
<1>7. CASE (Confirm /\ pc' # "ended") \/ RenamesDone \/ DownloadsDone \/ Cancel
  <2>1. /\ pc \in Busy /\ pc' \in Busy /\ outcome' = "none"
        /\ UNCHANGED <<src, files, saved, opts, next, renames, moving, dest>>
      BY <1>0, <1>7 DEF Confirm, RenamesDone, DownloadsDone, Cancel, EndWith, OutcomeLast,
                        source, disk, planVars, workVars, Busy
  <2>2. NameSettled'
    <3>1. CASE Confirm /\ pc' # "ended"
        BY <2>1, <3>1 DEF Confirm, EndWith, NameSettled
    <3>2. CASE RenamesDone \/ DownloadsDone \/ Cancel
      <4>1. pc = "planned" => pc' = "planned"
          BY <3>2 DEF RenamesDone, DownloadsDone, Cancel
      <4> QED BY <2>1, <4>1 DEF KeptInv, NameSettled
    <3> QED BY <1>7, <3>1, <3>2
  <2>3. KeptHere'
      BY <2>1 DEF KeptInv, KeptHere, Here
  <2> QED BY <2>1, <2>2, <2>3 DEF KeptInv, MovesApart, NextPlanned, CompletedMeansStored,
                VerifiedMeansIntact
<1>8. CASE UserStep
  <2>1. /\ pc = "idle" /\ pc' = "idle" /\ outcome' = "none"
        /\ renames' = renames /\ moving' = moving
      BY <1>0, <1>8 DEF UserStep, UserDeletes, UserDamages, Tamper, OutcomeLast, workVars
  <2> QED BY <2>1 DEF KeptInv, MovesApart, NextPlanned, NameSettled, KeptHere,
                CompletedMeansStored, VerifiedMeansIntact, Busy
<1>9. CASE SourceChanges
  <2>1. UNCHANGED <<files, saved, pc, opts, next, renames, moving, dest, outcome>>
      BY <1>9 DEF SourceChanges, Change, disk, planVars, workVars
  <2>2. pc # "idle" => src'.listed = src.listed /\ pc = "downloading"
      BY <1>0, <1>9, OnlyContentChanges
  <2>3. outcome' = "none"
      BY <1>0, <2>1, <2>2 DEF OutcomeLast
  <2>4. pc \in Busy => src'.listed = src.listed
      BY <2>2 DEF Busy
  <2>5. KeptHere'
      BY <2>1, <2>4 DEF KeptInv, KeptHere, Here
  <2> QED BY <2>1, <2>3, <2>4, <2>5 DEF KeptInv, MovesApart, NextPlanned, NameSettled,
                CompletedMeansStored, VerifiedMeansIntact
<1>10. CASE UNCHANGED vars
  <2>1. UNCHANGED <<src, files, saved, pc, opts, next, renames, moving, dest, outcome>>
      BY <1>10 DEF vars
  <2>2. KeptHere'
      BY <2>1 DEF KeptInv, KeptHere, Here
  <2> QED BY <2>1, <2>2 DEF KeptInv, MovesApart, NextPlanned, NameSettled,
                CompletedMeansStored, VerifiedMeansIntact, StoredAt
<1> QED BY <1>1, <1>2, <1>3, <1>4, <1>5, <1>6, <1>7, <1>8, <1>9, <1>10
        DEF Next, RunStep, FaultStep

(* Where different names never lead to one file, and nobody touches files  *)
(* while the question is shown, a run that reports "completed" leaves a    *)
(* complete record and a file for every present Placement: it downloaded   *)
(* it, or kept what it had looked at, wherever it moved it.                *)
THEOREM CompletedRunsStore ==
    NamesApart /\ "at prompt" \notin Tampering => (Spec => []CompletedMeansStored)
<1> SUFFICES ASSUME NamesApart, "at prompt" \notin Tampering
             PROVE  Spec => []CompletedMeansStored
    OBVIOUS
<1>1. Init => ValidInv /\ RetainInv /\ PlanInv /\ KeptInv
    BY ValidInit, PlanInit, KeptInit
<1>2. IInv /\ ValidInv /\ RetainInv /\ PlanInv /\ KeptInv /\ [Next]_vars
        => ValidInv' /\ RetainInv' /\ PlanInv' /\ KeptInv'
    BY RecordStep, PlanKeeps, KeptKeeps
<1>3. KeptInv => CompletedMeansStored
    BY DEF KeptInv
<1> QED BY <1>1, <1>2, <1>3, Invariant, PTL DEF Spec

(* With --verify, every such file has the checksum that is recorded.       *)
THEOREM VerifiedRunsAreIntact ==
    NamesApart /\ "at prompt" \notin Tampering => (Spec => []VerifiedMeansIntact)
<1> SUFFICES ASSUME NamesApart, "at prompt" \notin Tampering
             PROVE  Spec => []VerifiedMeansIntact
    OBVIOUS
<1>1. Init => ValidInv /\ RetainInv /\ PlanInv /\ KeptInv
    BY ValidInit, PlanInit, KeptInit
<1>2. IInv /\ ValidInv /\ RetainInv /\ PlanInv /\ KeptInv /\ [Next]_vars
        => ValidInv' /\ RetainInv' /\ PlanInv' /\ KeptInv'
    BY RecordStep, PlanKeeps, KeptKeeps
<1>3. KeptInv => VerifiedMeansIntact
    BY DEF KeptInv
<1> QED BY <1>1, <1>2, <1>3, Invariant, PTL DEF Spec

-----------------------------------------------------------------------------
(* Why the next run finds nothing to do.                                   *)

(* The record lists what the source shows, where its names put it.         *)
Follows(m) ==
    /\ m.name = src.name
    /\ PresentPlacements(m) = Active(src)
    /\ \A p \in Active(src) : m.placements[p].path = SourcePath(src, p)

(* The record that made planning skip a Collection without videos.         *)
Untouched(m) ==
    /\ ~HasVideos(src)
    /\ m.presence = "present"
    /\ m.run = "complete"
    /\ ~NeedsWork(m)

NothingQueued ==
    /\ \A p \in Placements : dest[p] = "none"
    /\ \A r \in References : job[r] = "none"

(* The options of a run are the user's, and allow the videos it found.     *)
VideosAllowed ==
    pc \in Busy \/ outcome = "completed" =>
        /\ opts \in RunOptions
        /\ src.listed => ~UnsupportedVideo(src, opts)

PlanFollows ==
    pc \in Busy /\ src.listed => Follows(next) \/ (Untouched(next) /\ NothingQueued)

RecordFollows ==
    outcome = "completed" /\ src.listed /\ saved # NoManifest =>
        Follows(saved) \/ Untouched(saved)

SettledInv ==
    /\ VideosAllowed
    /\ PlanFollows
    /\ RecordFollows

(* Initially there is no run.                                              *)
LEMMA SettledInit == Init => SettledInv
BY DEF Init, SettledInv, VideosAllowed, PlanFollows, RecordFollows, Busy

(* A plan follows the source, or leaves the record alone.                  *)
LEMMA StartSettles ==
    ASSUME TypeOK, ValidInv, OutcomeLast, NEW o \in RunOptions, Start(o)
    PROVE  SettledInv'
<1> DEFINE v == View(o)
<1>1. /\ v.src = src /\ v.opts = o
      /\ v.prior = IF saved = NoManifest THEN NewManifest(src.name) ELSE saved
    BY DEF View
<1>2. src \in SourceCollection /\ src.name \in Names
    BY DEF TypeOK, SourceCollection
<1>3. v.prior \in ManifestRecord /\ Valid(v.prior)
    BY <1>1, <1>2, NewManifestType, NewManifestValid DEF TypeOK, ValidInv
<1>4. opts' = o /\ src' = src /\ outcome = "none"
    BY DEF Start, source, OutcomeLast
<1>5. CASE Refusal(v) # "none"
  <2>1. pc' = "ended" /\ outcome' = Refusal(v)
      BY <1>5 DEF Start
  <2>2. outcome' # "completed"
      BY <2>1 DEF Refusal
  <2> QED BY <2>1, <2>2 DEF SettledInv, VideosAllowed, PlanFollows, RecordFollows, Busy
<1>6. CASE Refusal(v) = "none"
  <2>1. /\ pc' = "planned" /\ next' = Planned(v) /\ outcome' = "none"
        /\ dest' = [p \in Placements |->
                       IF Working(v) /\ p \in Downloads(v) THEN "queued" ELSE "none"]
        /\ job' = [r \in References |->
                       IF Working(v) /\ \E p \in Downloads(v) : p[1] = r
                       THEN "queued" ELSE "none"]
      BY <1>4, <1>6 DEF Start
  <2> HIDE DEF v
  <2>2. src.listed => ~UnsupportedVideo(src, o)
      BY <1>1, <1>6 DEF Refusal
  <2>3. ASSUME src.listed
        PROVE  Follows(next)' \/ (Untouched(next)' /\ NothingQueued')
    <3>1. CASE Working(v)
      <4>1. /\ next' = Merged(v) /\ Merged(v).name = src.name
            /\ PresentPlacements(Merged(v)) = Active(src)
          BY <1>1, <1>2, <1>3, <2>1, <3>1, MergedValid DEF Planned, ValidInv, Merged
      <4>2. Active(src) \subseteq Placements
          BY <1>2 DEF Active, SourceCollection
      <4>3. \A p \in Active(src) : Merged(v).placements[p].path = SourcePath(src, p)
          BY <1>1, <4>2, MergedFields, ShownPlacement
      <4> QED BY <1>4, <4>1, <4>3 DEF Follows
    <3>2. CASE ~Working(v)
      <4>1. next' = saved /\ Skipped(v) /\ v.prior = saved /\ Healthy(v)
          BY <1>1, <2>1, <2>3, <3>2 DEF Planned, Working, Skipped
      <4>2. ~HasVideos(src)
          BY <1>1, <2>2, <2>3, <4>1 DEF Skipped, UnsupportedVideo
      <4>3. Untouched(next)'
          BY <1>4, <4>1, <4>2 DEF Untouched, Healthy
      <4> QED BY <2>1, <3>2, <4>3 DEF NothingQueued
    <3> QED BY <3>1, <3>2
  <2> QED BY <1>4, <2>1, <2>2, <2>3
          DEF SettledInv, VideosAllowed, PlanFollows, RecordFollows
<1> QED BY <1>5, <1>6

(* What a completed run writes follows the source as its plan did.         *)
LEMMA SaveSettles ==
    ASSUME IInv, ValidInv, PlanInv, KeptInv, SettledInv, Save \/ SaveFails
    PROVE  SettledInv'
<1>1. pc = "saving" /\ pc' = "ended" /\ src' = src /\ opts' = opts
    BY DEF Save, SaveFails, EndWith, source, planVars
<1>2. VideosAllowed'
    BY <1>1 DEF SettledInv, VideosAllowed, Busy
<1>3. ASSUME outcome' = "completed", src.listed, saved' # NoManifest
      PROVE  Follows(saved)' \/ Untouched(saved)'
  <2>1. next # NoManifest
      BY <1>1, <1>3 DEF KeptInv, NextPlanned, Busy
  <2>2. saved' = Applied
      BY <1>3, <2>1, CompletedSave
  <2>3. /\ Applied.name = next.name /\ Applied.presence = next.presence
        /\ \A r \in References : Applied.references[r] = AppliedReference(r)
        /\ \A p \in Placements : Applied.placements[p] = AppliedPlacement(p)
        /\ \A p \in Placements : Applied.placements[p].path = next.placements[p].path
        /\ PresentPlacements(Applied) = PresentPlacements(next)
        /\ PresentReferences(Applied) = PresentReferences(next)
      BY <2>1, AppliedFields DEF IInv, ValidInv
  <2>4. CASE Follows(next)
    <3>1. Active(src) \subseteq Placements
        BY <2>4 DEF Follows, PresentPlacements
    <3> QED BY <1>1, <2>2, <2>3, <2>4, <3>1 DEF Follows
  <2>5. CASE Untouched(next) /\ NothingQueued
    <3>1. \A r \in References : Applied.references[r] = next.references[r]
        BY <2>3, <2>5 DEF NothingQueued, AppliedReference
    <3>2. \A p \in Placements : Applied.placements[p] = next.placements[p]
        BY <2>3, <2>5 DEF NothingQueued, AppliedPlacement
    <3>3. Applied.run = next.run
      <4>1. next \in ManifestRecord
          BY <2>1 DEF IInv, TypeOK
      <4> QED BY <2>1, <4>1 DEF Applied, ManifestRecord
    <3>4. ~NeedsWork(Applied)
        BY <2>3, <2>5, <3>1, <3>2
        DEF Untouched, NeedsWork, PresentReferences, PresentPlacements
    <3> QED BY <1>1, <2>2, <2>3, <2>5, <3>3, <3>4 DEF Untouched
  <2> QED BY <1>1, <1>3, <2>4, <2>5 DEF SettledInv, PlanFollows, Busy
<1> QED BY <1>1, <1>2, <1>3 DEF SettledInv, PlanFollows, RecordFollows, Busy

(* A step that does not touch the plan keeps what it promised.             *)
LEMMA QuietStepSettles ==
    ASSUME SettledInv,
           UNCHANGED <<opts, next>>,
           src'.listed = src.listed, src'.name = src.name, src'.at = src.at,
           src'.setName = src.setName, src'.refName = src.refName, src'.kind = src.kind,
           pc' \in Busy => pc \in Busy,
           NothingQueued => NothingQueued',
           outcome' # "completed"
    PROVE  SettledInv'
<1>1. /\ Active(src') = Active(src)
      /\ \A p : SourcePath(src', p) = SourcePath(src, p)
      /\ HasVideos(src') <=> HasVideos(src)
      /\ \A o : UnsupportedVideo(src', o) <=> UnsupportedVideo(src, o)
  <2>1. Shown(src') = Shown(src)
      BY DEF Shown
  <2> QED BY <2>1 DEF Active, SourcePath, HasVideos, UnsupportedVideo
<1>2. VideosAllowed'
    BY <1>1 DEF SettledInv, VideosAllowed
<1>3. Follows(next) => Follows(next)'
    BY <1>1 DEF Follows
<1>4. Untouched(next) => Untouched(next)'
    BY <1>1 DEF Untouched
<1>5. PlanFollows'
    BY <1>3, <1>4 DEF SettledInv, PlanFollows
<1> QED BY <1>2, <1>5 DEF SettledInv, RecordFollows

(* Every step.                                                             *)
LEMMA SettledKeeps ==
    ASSUME IInv, ValidInv, PlanInv, KeptInv, SettledInv, [Next]_vars
    PROVE  SettledInv'
<1>0. TypeOK /\ OutcomeLast
    BY DEF IInv, PlanInv
<1>1. CASE \E o \in RunOptions : Start(o)
    BY <1>0, <1>1, StartSettles
<1>2. CASE Save \/ SaveFails
    BY <1>2, SaveSettles
<1>3. CASE \/ Exit \/ Crash \/ Decline \/ RenameError \/ (Confirm /\ pc' = "ended")
           \/ \E p \in Placements : RenamePut(p) /\ pc' = "ended"
  <2>1. pc' \notin Busy /\ outcome' # "completed"
      BY <1>3 DEF Exit, Crash, Forget, Decline, RenameError, Confirm, RenamePut, RenameFails,
                  EndWith, Busy
  <2> QED BY <2>1 DEF SettledInv, VideosAllowed, PlanFollows, RecordFollows
<1>4. CASE \/ (Confirm /\ pc' # "ended") \/ RenamesDone \/ DownloadsDone \/ Cancel
           \/ \E p \in Placements : (RenamePut(p) /\ pc' # "ended") \/ RenameRemove(p)
  <2>1. /\ UNCHANGED <<src, opts, next, job, dest>>
        /\ pc \in Busy /\ outcome' = "none"
      BY <1>0, <1>4
      DEF Confirm, RenamesDone, DownloadsDone, Cancel, RenamePut, RenameRemove, RenameFails,
          EndWith, OutcomeLast, source, planVars, workVars, Busy
  <2> QED BY <2>1, QuietStepSettles DEF NothingQueued
<1>5. CASE \/ \E r \in References : Fetch(r) \/ FetchFails(r)
           \/ \E p \in Placements : Install(p) \/ InstallFails(p)
  <2>1. /\ UNCHANGED <<src, opts, next>>
        /\ pc \in Busy /\ outcome' = "none"
      BY <1>0, <1>5
      DEF Fetch, FetchFails, Install, InstallFails, DownloadStep, OutcomeLast, source,
          planVars, Busy
  <2>2. ~NothingQueued
      BY <1>5 DEF Fetch, FetchFails, Install, InstallFails, NothingQueued
  <2> QED BY <2>1, <2>2, QuietStepSettles
<1>6. CASE UserStep
  <2>1. /\ UNCHANGED <<src, opts, next, pc, job, dest>> /\ outcome' = "none"
      BY <1>0, <1>6 DEF UserStep, UserDeletes, UserDamages, Tamper, OutcomeLast, planVars,
                        workVars
  <2> QED BY <2>1, QuietStepSettles DEF NothingQueued
<1>7. CASE SourceChanges
  <2>1. UNCHANGED <<pc, opts, next, job, dest, outcome>>
      BY <1>7 DEF SourceChanges, Change, planVars, workVars
  <2>2. CASE pc = "idle"
    <3>1. pc' = "idle" /\ outcome' = "none"
        BY <1>0, <2>1, <2>2 DEF OutcomeLast
    <3> QED BY <3>1 DEF SettledInv, VideosAllowed, PlanFollows, RecordFollows, Busy
  <2>3. CASE pc # "idle"
    <3>1. /\ pc = "downloading"
          /\ src'.listed = src.listed /\ src'.name = src.name /\ src'.at = src.at
          /\ src'.setName = src.setName /\ src'.refName = src.refName
          /\ src'.kind = src.kind
        BY <1>0, <1>7, <2>3, OnlyContentChanges
    <3>2. outcome' = "none"
        BY <1>0, <2>1, <3>1 DEF OutcomeLast
    <3> QED BY <2>1, <3>1, <3>2, QuietStepSettles DEF NothingQueued
  <2> QED BY <2>2, <2>3
<1>8. CASE UNCHANGED vars
  <2>1. UNCHANGED <<src, saved, pc, opts, next, job, dest, outcome>>
      BY <1>8 DEF vars
  <2> QED BY <2>1 DEF SettledInv, VideosAllowed, PlanFollows, RecordFollows, Follows,
                Untouched, NothingQueued
<1> QED BY <1>1, <1>2, <1>3, <1>4, <1>5, <1>6, <1>7, <1>8 DEF Next, RunStep, FaultStep

(* Later runs ask for videos if an earlier one did: a run without videos   *)
(* refuses a Collection in which it finds some.                            *)
VideosKept == \A o, q \in RunOptions : q.videos => o.videos

(* What the invariants say of a completed run leaves nothing to plan.      *)
LEMMA NothingToPlan ==
    ASSUME VideosKept, TypeOK, ValidInv, CompletedMeansStored, VerifiedMeansIntact,
           SettledInv
    PROVE  CompletedIsSettled
<1> SUFFICES ASSUME outcome = "completed", saved # NoManifest, src.listed,
                    NEW o \in RunOptions, ~o.sync, o.verify => opts.verify
             PROVE  /\ Refusal(View(o)) = "none"
                    /\ Working(View(o)) =>
                          Renames(View(o)) = {} /\ Downloads(View(o)) = {}
    BY DEF CompletedIsSettled
<1> DEFINE v == View(o)
<1>1. v.src = src /\ v.opts = o /\ v.files = files /\ v.prior = saved
    BY DEF View
<1> HIDE DEF v
<1>2. src \in SourceCollection /\ saved \in ManifestRecord /\ Valid(saved) /\ WellPlaced(src)
    BY DEF TypeOK, ValidInv
<1>3. opts \in RunOptions /\ ~UnsupportedVideo(src, opts)
    BY DEF SettledInv, VideosAllowed
<1>4. ~UnsupportedVideo(src, o)
    BY <1>3 DEF VideosKept, UnsupportedVideo, HasVideos
<1>5. \A p \in PresentPlacements(saved) :
          /\ saved.placements[p].state = "complete"
          /\ Intact(files, RecordedKey(v, p), saved.placements[p].sha, o.verify)
    BY <1>1 DEF CompletedMeansStored, VerifiedMeansIntact, StoredAt, Intact, RecordedKey
<1>6. CASE Untouched(saved)
  <2>1. Healthy(v)
      BY <1>1, <1>5, <1>6 DEF Healthy, Untouched
  <2>2. Skipped(v)
      BY <1>1, <1>6, <2>1 DEF Skipped, Untouched
  <2> QED BY <1>1, <1>2, <1>4, <2>2 DEF Refusal, Working, v
<1>7. CASE Follows(saved)
  <2>1. /\ src.name = saved.name /\ PresentPlacements(saved) = Active(src)
        /\ \A p \in Active(src) : ~PathChanged(v, p)
      BY <1>1, <1>7 DEF Follows, PathChanged
  <2>2. \A p \in Active(src) : Recorded(v, p) /\ Kept(v, p)
    <3>1. \A p \in Active(src) : Recorded(v, p)
        BY <1>1, <2>1 DEF Recorded, PresentPlacements
    <3> QED BY <1>1, <1>5, <2>1, <3>1 DEF Kept, Trusted
  <2>3. ~DestinationExists(v)
    <3>1. ~DirectoryExists(v)
        BY <1>1, <2>1 DEF DirectoryExists
    <3>2. ~PlacementExists(v)
        BY <1>1, <2>1, <2>2 DEF PlacementExists
    <3> QED BY <3>1, <3>2 DEF DestinationExists
  <2>4. Valid(Merged(v))
      BY <1>1, <1>2, MergedValid
  <2>5. Refusal(v) = "none"
      BY <1>1, <1>2, <1>4, <2>3, <2>4 DEF Refusal
  <2>6. Renames(v) = {} /\ Downloads(v) = {}
      BY <1>1, <2>1, <2>2 DEF Renames, Downloads
  <2> QED BY <2>5, <2>6 DEF v
<1> QED BY <1>6, <1>7 DEF SettledInv, RecordFollows

(* Under the same two hypotheses, and as long as videos stay asked for, a  *)
(* completed run leaves nothing for the next one that does not synchronize *)
(* and verifies no more: no download, no rename, no refusal.               *)
THEOREM CompletedRunsSettle ==
    NamesApart /\ "at prompt" \notin Tampering /\ VideosKept
        => (Spec => []CompletedIsSettled)
<1> SUFFICES ASSUME NamesApart, "at prompt" \notin Tampering, VideosKept
             PROVE  Spec => []CompletedIsSettled
    OBVIOUS
<1>1. Init => ValidInv /\ RetainInv /\ PlanInv /\ KeptInv /\ SettledInv
    BY ValidInit, PlanInit, KeptInit, SettledInit
<1>2. IInv /\ ValidInv /\ RetainInv /\ PlanInv /\ KeptInv /\ SettledInv /\ [Next]_vars
        => ValidInv' /\ RetainInv' /\ PlanInv' /\ KeptInv' /\ SettledInv'
    BY RecordStep, PlanKeeps, KeptKeeps, SettledKeeps
<1>3. IInv /\ ValidInv /\ KeptInv /\ SettledInv => CompletedIsSettled
    BY NothingToPlan DEF IInv, KeptInv
<1> QED BY <1>1, <1>2, <1>3, Invariant, PTL DEF Spec

-----------------------------------------------------------------------------
(* What a normal run does not download again.                              *)

(* What is complete is listed.                                             *)
CompleteListed(m) ==
    m # NoManifest => \A p \in Placements :
        m.placements[p].state = "complete" => m.placements[p].presence # "none"

(* The record does not claim a file, or the file is not the recorded one.  *)
Untrusted(p) ==
    \/ saved = NoManifest
    \/ saved.placements[p].state # "complete"
    \/ files[StoredAt(saved, p)] = NoFile
    \/ files[StoredAt(saved, p)].content # saved.placements[p].sha

(* A normal run downloads what it did not trust, and does not rename it.   *)
QueuedUntrusted ==
    pc \in Busy /\ ~opts.sync =>
        \A p \in Placements : dest[p] = "queued" =>
            p \notin renames \cup moving /\ Untrusted(p)

TrustInv ==
    /\ CompleteListed(saved)
    /\ CompleteListed(next)
    /\ \A p \in Placements : dest[p] # "none" =>
          next # NoManifest /\ next.placements[p].presence # "none"
    /\ QueuedUntrusted

(* Initially nothing is recorded or queued.                                *)
LEMMA TrustInit == Init => TrustInv
BY DEF Init, TrustInv, CompleteListed, QueuedUntrusted, NoDests

(* A plan queues what it could not trust: planDownloads checks the file of *)
(* every complete record, and what it trusts it does not queue.            *)
LEMMA StartTrust ==
    ASSUME IInv, ValidInv, TrustInv, NEW o \in RunOptions, Start(o)
    PROVE  TrustInv'
<1> DEFINE v == View(o)
<1>0. TypeOK /\ moving = {} /\ renames = {}
    BY DEF IInv, MoveInv, MovesInPhase, Start
<1>1. /\ v.src = src /\ v.opts = o /\ v.files = files
      /\ v.prior = IF saved = NoManifest THEN NewManifest(src.name) ELSE saved
    BY DEF View
<1>2. src \in SourceCollection
    BY <1>0 DEF TypeOK
<1>4. /\ opts' = o /\ saved' = saved /\ files' = files /\ moving' = {}
    BY <1>0 DEF Start, disk
<1>5. CASE Refusal(v) # "none"
    BY <1>4, <1>5 DEF Start, TrustInv, CompleteListed, QueuedUntrusted, Busy
<1>6. CASE Refusal(v) = "none"
  <2>1. /\ next' = Planned(v)
        /\ renames' = IF Working(v) THEN Renames(v) ELSE {}
        /\ dest' = [p \in Placements |->
                       IF Working(v) /\ p \in Downloads(v) THEN "queued" ELSE "none"]
      BY <1>6 DEF Start
  <2>2. CompleteListed(saved)'
      BY <1>4 DEF TrustInv, CompleteListed
  <2>3. CompleteListed(next)'
    <3> SUFFICES ASSUME Planned(v) # NoManifest, NEW p \in Placements,
                        Planned(v).placements[p].state = "complete"
                 PROVE  Planned(v).placements[p].presence # "none"
        BY <2>1 DEF CompleteListed
    <3>1. saved # NoManifest /\ saved.placements[p].state = "complete"
        BY <1>0, PlannedComplete
    <3>2. Retains(saved, Planned(v))
        BY <1>0, <3>1, PlanningValid
    <3> QED BY <3>1, <3>2 DEF Retains, TrustInv, CompleteListed
  <2> HIDE DEF v
  <2>4. ASSUME NEW p \in Placements, dest'[p] # "none"
        PROVE  /\ next' # NoManifest /\ next'.placements[p].presence # "none"
               /\ ~o.sync => p \notin renames' /\ Untrusted(p)'
    <3>1. Working(v) /\ p \in Downloads(v) /\ p \in Active(src) /\ next' = Merged(v)
          /\ renames' = Renames(v)
        BY <1>1, <2>1, <2>4 DEF Downloads, Planned
    <3>2. Merged(v).placements[p].presence = "present"
        BY <1>1, <3>1, MergedFields, ShownPlacement
    <3>3. Merged(v) # NoManifest
        BY <1>0, PlannedType, DataAssumption DEF v
    <3>4. ASSUME ~o.sync
          PROVE  p \notin Renames(v) /\ Untrusted(p)
      <4>1. ~Trusted(v, p)
          BY <1>1, <3>1, <3>4 DEF Downloads, Kept
      <4>2. p \notin Renames(v)
          BY <4>1 DEF Renames
      <4>3. ASSUME saved # NoManifest, saved.placements[p].state = "complete"
            PROVE  ~Intact(files, Key(saved.name, p, saved.placements[p].path),
                           saved.placements[p].sha, o.verify)
          BY <1>1, <4>1, <4>3 DEF Trusted, Recorded, RecordedKey, TrustInv, CompleteListed
      <4>4. Untrusted(p)
          BY <4>3 DEF Untrusted, Intact, StoredAt
      <4> QED BY <4>2, <4>4
    <3>5. ~o.sync => Untrusted(p)'
        BY <1>4, <3>4 DEF Untrusted, StoredAt
    <3> QED BY <3>1, <3>2, <3>3, <3>4, <3>5
  <2>5. QueuedUntrusted'
      BY <1>4, <2>4 DEF QueuedUntrusted
  <2> QED BY <2>2, <2>3, <2>4, <2>5 DEF TrustInv
<1> QED BY <1>5, <1>6

(* A file that was not trusted stays so until it is downloaded: a run      *)
(* renames and installs other files, and a person can only make it worse.  *)
LEMMA UntrustedStays ==
    ASSUME IInv, ValidInv, TrustInv, [Next]_vars, pc \in Busy, ~opts.sync,
           saved' = saved, NEW p \in Placements, dest[p] = "queued", dest'[p] = "queued"
    PROVE  Untrusted(p)'
<1>0. TypeOK /\ files \in [FileKeys -> File \cup {NoFile}]
    BY DEF IInv, TypeOK
<1>1. Untrusted(p) /\ p \notin renames \cup moving
    BY DEF TrustInv, QueuedUntrusted
<1>2. CASE saved = NoManifest \/ saved.placements[p].state # "complete"
    BY <1>2 DEF Untrusted
<1>3. CASE saved # NoManifest /\ saved.placements[p].state = "complete"
  <2> DEFINE key == StoredAt(saved, p)
             sha == saved.placements[p].sha
  <2>1. key \in FileKeys /\ key[2] = p /\ sha \in Checksums
    <3>1. saved \in ManifestRecord /\ saved.placements[p] \in PlacementRecord
        BY <1>0, <1>3 DEF TypeOK, ManifestRecord
    <3>2. saved.placements[p].path \in Paths
      <4>1. saved.placements[p].path # NoPath
          BY <1>3 DEF TrustInv, CompleteListed, ValidInv, Valid
      <4> QED BY <3>1, <4>1 DEF PlacementRecord
    <3>3. saved.name \in Names /\ CaseFold \in [Names -> Names]
        BY <3>1, DataAssumption DEF ManifestRecord
    <3>4. key \in FileKeys
        BY <3>2, <3>3 DEF StoredAt, Key, FileKeys, Paths
    <3> QED BY <3>1, <3>4, KeyPlacement DEF StoredAt, PlacementRecord
  <2>2. files[key] = NoFile \/ files[key].content # sha
      BY <1>1, <1>3 DEF Untrusted
  <2> HIDE DEF key, sha
  <2>3. files'[key] = NoFile \/ files'[key].content # sha
    <3>1. CASE files' = files
        BY <2>2, <3>1
    <3>2. CASE UserStep
      <4> DEFINE junk == [content |-> Junk, meta |-> FALSE]
      <4>1. PICK k \in FileKeys : files' = [files EXCEPT ![k] = NoFile]
                               \/ files' = [files EXCEPT ![k] = junk]
          BY <3>2 DEF UserStep, UserDeletes, UserDamages, Tamper
      <4>2. junk.content # sha
        <5>1. Junk \in Digests
            BY DEF Digests
        <5> QED BY <2>1, <5>1, DataAssumption DEF Checksums
      <4> HIDE DEF junk
      <4> QED BY <1>0, <2>1, <2>2, <4>1, <4>2
    <3>3. CASE \E q \in renames \cup moving : files' = Copied(q) \/ files' = Removed(q)
      <4>1. PICK q \in renames \cup moving : files' = Copied(q) \/ files' = Removed(q)
          BY <3>3
      <4>2. From(q)[2] = q /\ To(q)[2] = q /\ q # p
          BY <1>1, KeyPlacement DEF From, To
      <4>3. files'[key] = files[key]
          BY <1>0, <2>1, <4>1, <4>2 DEF Copied, Removed
      <4> QED BY <2>2, <4>3
    <3>4. CASE \E q \in Placements :
                 dest'[q] \in {"installed", "failed"} /\ files' = Installed(q)
      <4>1. PICK q \in Placements :
                 dest'[q] \in {"installed", "failed"} /\ files' = Installed(q)
          BY <3>4
      <4>2. To(q)[2] = q /\ q # p
          BY <4>1, KeyPlacement DEF To
      <4>3. files'[key] = files[key]
          BY <1>0, <2>1, <4>1, <4>2 DEF Installed
      <4> QED BY <2>2, <4>3
    <3> QED BY <1>0, <3>1, <3>2, <3>3, <3>4, FileSteps
  <2> QED BY <2>3 DEF Untrusted, key, sha
<1> QED BY <1>2, <1>3

(* Every step.                                                             *)
LEMMA TrustKeeps ==
    ASSUME IInv, ValidInv, TrustInv, [Next]_vars
    PROVE  TrustInv'
<1>0. TypeOK
    BY DEF IInv
<1>1. CASE \E o \in RunOptions : Start(o)
    BY <1>1, StartTrust
<1>2. CASE Save \/ SaveFails
  <2>1. /\ pc' = "ended" /\ next' = next /\ dest' = dest
        /\ saved' = saved \/ saved' = Applied
      BY <1>2 DEF Save, SaveFails, EndWith, planVars, workVars
  <2>2. CompleteListed(Applied)
    <3> SUFFICES ASSUME Applied # NoManifest, NEW p \in Placements,
                        Applied.placements[p].state = "complete"
                 PROVE  Applied.placements[p].presence # "none"
        BY DEF CompleteListed
    <3>1. next # NoManifest /\ (next.placements[p].state = "complete" \/ dest[p] = "installed")
        BY <1>0, AppliedComplete
    <3>2. next.placements[p].presence # "none"
        BY <3>1 DEF TrustInv, CompleteListed
    <3> QED BY <1>0, <3>1, <3>2, AppliedFields DEF ValidInv
  <2> QED BY <2>1, <2>2 DEF TrustInv, CompleteListed, QueuedUntrusted, Busy
<1>3. CASE Exit \/ Crash
  <2>1. pc' = "idle" /\ next' = NoManifest /\ dest' = NoDests /\ saved' = saved
      BY <1>3 DEF Exit, Crash, Forget, disk
  <2> QED BY <2>1 DEF TrustInv, CompleteListed, QueuedUntrusted, Busy, NoDests
<1>4. CASE \/ Confirm \/ RenamesDone \/ DownloadsDone \/ Decline \/ RenameError
           \/ Cancel \/ UserStep \/ SourceChanges \/ UNCHANGED vars
           \/ \E p \in Placements : RenamePut(p) \/ RenameRemove(p) \/ Install(p) \/ InstallFails(p)
           \/ \E r \in References : Fetch(r) \/ FetchFails(r)
  <2>1. /\ saved' = saved /\ next' = next /\ opts' = opts
        /\ renames' \cup moving' \subseteq renames \cup moving
        /\ pc' \in Busy => pc \in Busy
        /\ \A p \in Placements : dest'[p] = dest[p]
                               \/ (dest[p] = "queued" /\ dest'[p] \in {"installed", "failed"})
    <3>1. CASE \E p \in Placements : Install(p) \/ InstallFails(p)
      <4>1. PICK p \in Placements : Install(p) \/ InstallFails(p)
          BY <3>1
      <4>2. /\ saved' = saved /\ next' = next /\ opts' = opts /\ pc' = pc
            /\ renames' = renames /\ moving' = moving
          BY <4>1 DEF Install, InstallFails, DownloadStep, planVars
      <4>3. /\ dest[p] = "queued"
            /\ \/ dest' = [dest EXCEPT ![p] = "installed"]
               \/ dest' = [dest EXCEPT ![p] = "failed"]
          BY <4>1 DEF Install, InstallFails
      <4>4. \A q \in Placements : dest'[q] = dest[q]
                               \/ (dest[q] = "queued" /\ dest'[q] \in {"installed", "failed"})
          BY <1>0, <4>1, <4>3 DEF TypeOK
      <4> QED BY <4>2, <4>4
    <3>2. CASE \E p \in Placements : RenamePut(p) \/ RenameRemove(p)
      <4>1. PICK p \in Placements : RenamePut(p) \/ RenameRemove(p)
          BY <3>2
      <4>2. saved' = saved /\ next' = next /\ opts' = opts /\ dest' = dest
          BY <4>1 DEF RenamePut, RenameRemove, RenameFails, EndWith, planVars, workVars
      <4>3. pc \in Busy
          BY <4>1 DEF RenamePut, RenameRemove, Busy
      <4>4. renames' \cup moving' \subseteq renames \cup moving
        <5>1. CASE RenamePut(p)
          <6>1. \/ renames' = renames /\ moving' = moving
                \/ p \in renames /\ renames' = renames \ {p} /\ moving' = {p}
              BY <5>1 DEF RenamePut, RenameFails, workVars
          <6> QED BY <6>1
        <5>2. CASE RenameRemove(p)
          <6>1. renames' = renames /\ moving' = {}
              BY <5>2 DEF RenameRemove
          <6> QED BY <6>1
        <5> QED BY <4>1, <5>1, <5>2
      <4> QED BY <4>2, <4>3, <4>4
    <3>3. CASE \/ Confirm \/ RenamesDone \/ DownloadsDone \/ Decline \/ RenameError
               \/ Cancel \/ UNCHANGED vars
               \/ \E r \in References : Fetch(r) \/ FetchFails(r)
      <4>1. /\ saved' = saved /\ next' = next /\ opts' = opts /\ dest' = dest
            /\ renames' = renames /\ moving' = moving
          BY <3>3
          DEF Confirm, RenamesDone, DownloadsDone, Decline, RenameError, Cancel,
              RenameFails, Fetch, FetchFails, DownloadStep, disk, planVars, workVars, vars
      <4>2. pc' \in Busy => pc \in Busy
          BY <3>3
          DEF Confirm, RenamesDone, DownloadsDone, Decline, RenameError, Cancel,
              RenameFails, EndWith, Fetch, FetchFails, DownloadStep, vars, Busy
      <4> QED BY <4>1, <4>2
    <3>4. CASE UserStep \/ SourceChanges
      <4>1. /\ saved' = saved /\ next' = next /\ opts' = opts /\ dest' = dest
            /\ renames' = renames /\ moving' = moving /\ pc' = pc
        <5>1. CASE UserStep
            BY <5>1 DEF UserStep, UserDeletes, UserDamages, Tamper, planVars, workVars
        <5>2. CASE SourceChanges
            BY <5>2 DEF SourceChanges, Change, disk, planVars, workVars
        <5> QED BY <3>4, <5>1, <5>2
      <4> QED BY <4>1
    <3> QED BY <1>4, <3>1, <3>2, <3>3, <3>4
  <2>2. QueuedUntrusted'
      BY <2>1, UntrustedStays DEF TrustInv, QueuedUntrusted
  <2> QED BY <2>1, <2>2 DEF TrustInv, CompleteListed
<1> QED BY <1>1, <1>2, <1>3, <1>4 DEF Next, RunStep, FaultStep

(* One step of NormalRunKeepsTrusted.                                      *)
DownloadsUntrusted ==
    ~opts.sync =>
        \A p \in Placements :
           (dest[p] = "queued" /\ dest'[p] = "installed") =>
              \/ saved = NoManifest
              \/ saved.placements[p].state # "complete"
              \/ files[StoredAt(saved, p)] = NoFile
              \/ files[StoredAt(saved, p)].content # saved.placements[p].sha

(* Only a step of the downloads installs a file.                           *)
LEMMA InstallsWhenBusy ==
    ASSUME IInv, [Next]_vars, NEW p \in Placements,
           dest[p] = "queued", dest'[p] = "installed"
    PROVE  pc \in Busy
<1>1. CASE \E q \in Placements : Install(q) \/ InstallFails(q)
    BY <1>1 DEF Install, InstallFails, DownloadStep, Busy
<1>2. CASE \/ \E o \in RunOptions : Start(o)
           \/ Exit \/ Crash
    BY <1>2 DEF Start, Exit, Crash, Forget, NoDests
<1>3. CASE \/ Confirm \/ RenamesDone \/ DownloadsDone \/ Decline \/ RenameError
           \/ Cancel \/ UserStep \/ SourceChanges \/ UNCHANGED vars \/ Save \/ SaveFails
           \/ \E q \in Placements : RenamePut(q) \/ RenameRemove(q)
           \/ \E r \in References : Fetch(r) \/ FetchFails(r)
  <2>1. dest' = dest
      BY <1>3
      DEF Confirm, RenamesDone, DownloadsDone, Decline, RenameError, Cancel, UserStep,
          UserDeletes, UserDamages, Tamper, SourceChanges, Change, RenamePut, RenameRemove,
          RenameFails, EndWith, Fetch, FetchFails, Save, SaveFails, workVars, vars
  <2> QED BY <2>1
<1> QED BY <1>1, <1>2, <1>3 DEF Next, RunStep, FaultStep

(* A normal run replaces no file that matches its complete record,         *)
(* whatever is renamed, damaged or killed meanwhile.                       *)
THEOREM TrustedFilesStay == Spec => NormalRunKeepsTrusted
<1>1. Init => ValidInv /\ RetainInv /\ TrustInv
    BY ValidInit, TrustInit
<1>2. IInv /\ ValidInv /\ RetainInv /\ TrustInv /\ [Next]_vars
        => ValidInv' /\ RetainInv' /\ TrustInv'
    BY RecordStep, TrustKeeps
<1>3. IInv /\ TrustInv /\ [Next]_vars => [DownloadsUntrusted]_dest
    BY InstallsWhenBusy DEF TrustInv, QueuedUntrusted, Untrusted, DownloadsUntrusted
<1>4. Spec => [][DownloadsUntrusted]_dest
    BY <1>1, <1>2, <1>3, Invariant, PTL DEF Spec
<1> QED BY <1>4 DEF NormalRunKeepsTrusted, DownloadsUntrusted

-----------------------------------------------------------------------------
(* The runs keep the promise of ArchiveContract.                           *)

(* What a file that is stored, replaced or removed changes of the contents *)
(* of its Placement: at most one of them is gone.                          *)
LEMMA FileChange ==
    ASSUME files \in [FileKeys -> File \cup {NoFile}],
           NEW p \in Placements, NEW k \in FileKeys, k[2] = p,
           NEW file \in File \cup {NoFile},
           files' = [files EXCEPT ![k] = file]
    PROVE  /\ \A q \in Placements \ {p} : Local(q)' = Local(q)
           /\ \E rest \in {Local(p)} \cup {Local(p) \ {c} : c \in Local(p)} :
                 Local(p)' = rest \cup (IF file = NoFile THEN {} ELSE {file.content})
<1>1. /\ files'[k] = file
      /\ \A l \in FileKeys \ {k} : files'[l] = files[l]
    OBVIOUS
<1>2. ASSUME NEW q \in Placements \ {p}
      PROVE  Local(q)' = Local(q)
    BY <1>1 DEF Local
<1> DEFINE others == {files[l].content :
                         l \in {m \in FileKeys \ {k} : m[2] = p /\ files[m] # NoFile}}
<1>3. Local(p)' = others \cup (IF file = NoFile THEN {} ELSE {file.content})
  <2>1. \A c \in Local(p)' : c \in others \/ (file # NoFile /\ c = file.content)
      BY <1>1 DEF Local
  <2>2. others \subseteq Local(p)'
      BY <1>1 DEF Local
  <2>3. file # NoFile => file.content \in Local(p)'
      BY <1>1 DEF Local
  <2> QED BY <2>1, <2>2, <2>3
<1>4. others \in {Local(p)} \cup {Local(p) \ {c} : c \in Local(p)}
  <2>1. others \subseteq Local(p)
      BY DEF Local
  <2>2. \A c \in Local(p) : c \in others \/ (files[k] # NoFile /\ c = files[k].content)
      BY DEF Local
  <2>3. CASE others = Local(p)
      BY <2>3
  <2>4. CASE others # Local(p)
    <3>1. files[k].content \in Local(p) /\ others = Local(p) \ {files[k].content}
        BY <2>1, <2>2, <2>4
    <3> QED BY <3>1
  <2> QED BY <2>3, <2>4
<1> QED BY <1>2, <1>3, <1>4

(* Both halves of a rename leave the contents as they are.                 *)
LEMMA RenameKeepsContents ==
    ASSUME NamesApart, IInv, CopyInv,
           \/ /\ pc = "renaming"
              /\ \E p \in renames : files[From(p)] # NoFile /\ files' = Copied(p)
           \/ pc = "removing" /\ \E p \in moving : files' = Removed(p)
    PROVE  Copies' = Copies
<1>0. files \in [FileKeys -> File \cup {NoFile}]
    BY DEF IInv, TypeOK
<1>1. ASSUME NEW q \in Placements
      PROVE  Local(q)' = Local(q)
  <2>1. Local(q) \subseteq Local(q)'
      BY CopiedKeepsLocal, RemovedKeepsLocal
  <2>2. ASSUME NEW p \in renames, pc = "renaming", files[From(p)] # NoFile, files' = Copied(p)
        PROVE  Local(q)' \subseteq Local(q)
    <3>1. /\ From(p) \in FileKeys /\ From(p)[2] = p /\ To(p)[2] = p
        BY <2>2, RenameKeys, KeyPlacement DEF From, To
    <3>2. \A l \in FileKeys : files'[l] # files[l] =>
              l = To(p) /\ files'[l].content = files[From(p)].content
        BY <1>0, <2>2 DEF Copied
    <3> QED BY <2>2, <3>1, <3>2 DEF Local
  <2>3. ASSUME NEW p \in moving, files' = Removed(p)
        PROVE  Local(q)' \subseteq Local(q)
    <3>1. \A l \in FileKeys : files'[l] # NoFile => files'[l] = files[l]
        BY <1>0, <2>3 DEF Removed
    <3> QED BY <3>1 DEF Local
  <2> QED BY <2>1, <2>2, <2>3
<1> QED BY <1>1 DEF Copies

(* What a plan counts as complete is so in the record it started from, as  *)
(* long as the run works: nothing else is written in between.              *)
ClaimsPlanned ==
    pc \in Busy /\ next # NoManifest => \A p \in Placements :
        next.placements[p].state = "complete" =>
            Claim(p) = next.placements[p].sha

(* Initially nothing is planned.                                           *)
LEMMA ClaimsInit == Init => ClaimsPlanned
BY DEF Init, ClaimsPlanned, Busy

(* Every step: only Start plans, and only the end of the work writes.      *)
LEMMA ClaimsKeep ==
    ASSUME IInv, ClaimsPlanned, [Next]_vars
    PROVE  ClaimsPlanned'
<1>1. CASE \E o \in RunOptions : Start(o)
  <2>1. PICK o \in RunOptions : Start(o)
      BY <1>1
  <2>2. CASE Refusal(View(o)) # "none"
      BY <2>1, <2>2 DEF Start, ClaimsPlanned, Busy
  <2>3. CASE Refusal(View(o)) = "none"
    <3>1. next' = Planned(View(o)) /\ saved' = saved
        BY <2>1, <2>3 DEF Start, disk
    <3> QED BY <3>1, PlannedComplete DEF ClaimsPlanned, Claim, IInv
  <2> QED BY <2>2, <2>3
<1>2. CASE Save \/ SaveFails \/ Exit \/ Crash
    BY <1>2 DEF Save, SaveFails, Exit, Crash, EndWith, Forget, ClaimsPlanned, Busy
<1>3. CASE \/ Confirm \/ RenamesDone \/ DownloadsDone \/ Decline \/ RenameError
           \/ Cancel \/ UserStep \/ SourceChanges \/ UNCHANGED vars
           \/ \E p \in Placements : RenamePut(p) \/ RenameRemove(p) \/ Install(p) \/ InstallFails(p)
           \/ \E r \in References : Fetch(r) \/ FetchFails(r)
  <2>1. saved' = saved /\ next' = next /\ (pc' \in Busy => pc \in Busy)
      BY <1>3
      DEF Confirm, RenamesDone, DownloadsDone, Decline, RenameError, Cancel, UserStep,
          UserDeletes, UserDamages, Tamper, SourceChanges, Change, RenamePut, RenameRemove,
          RenameFails, EndWith, Install, InstallFails, Fetch, FetchFails, DownloadStep, disk,
          planVars, workVars, vars, Busy
  <2> QED BY <2>1 DEF ClaimsPlanned, Claim
<1> QED BY <1>1, <1>2, <1>3 DEF Next, RunStep, FaultStep

ArchiveInv ==
    CopyInv /\ ValidInv /\ RetainInv /\ PlanInv /\ TrustInv /\ ClaimsPlanned

(* What the manifest says is a checksum, and only of what it lists.        *)
ClaimsFit ==
    /\ Claims \in [Placements -> Checksums]
    /\ \A p \in Placements : Claims[p] # NoSum => p \in Listed

(* The record is well-typed, and complete Placements are listed.           *)
LEMMA RecordFits == TypeOK /\ CompleteListed(saved) => ClaimsFit
<1> SUFFICES ASSUME TypeOK, CompleteListed(saved)
             PROVE  ClaimsFit
    OBVIOUS
<1>1. ASSUME NEW p \in Placements
      PROVE  Claim(p) \in Checksums /\ (Claim(p) # NoSum => p \in Listed)
  <2>1. CASE saved = NoManifest
      BY <2>1 DEF Claim, Checksums
  <2>2. CASE saved # NoManifest
    <3>1. saved.placements[p].sha \in Checksums
        BY <2>2 DEF TypeOK, ManifestRecord, PlacementRecord
    <3> QED BY <2>2, <3>1 DEF Claim, Checksums, CompleteListed, Listed
  <2> QED BY <2>1, <2>2
<1> QED BY <1>1 DEF Claims, ClaimsFit

(* What the results record of a Placement that was downloaded is stored,   *)
(* and of another one it was recorded.                                     *)
LEMMA ResultsClaimed ==
    ASSUME IInv, ValidInv, PlanInv, ClaimsPlanned, pc = "saving", next # NoManifest,
           NEW p \in Placements, Applied.placements[p].state = "complete"
    PROVE  IF p \in Touched THEN Applied.placements[p].sha \in Local(p)
           ELSE Applied.placements[p].sha = Claim(p)
<1>1. TypeOK /\ Applied.placements[p] = AppliedPlacement(p)
    BY AppliedFields DEF IInv, ValidInv
<1>2. p \in Touched <=> dest[p] \in {"installed", "failed"}
    BY DEF Touched, ArchivePhase
<1>3. CASE dest[p] = "installed"
  <2>1. next.placements[p] \in PlacementRecord
      BY <1>1 DEF TypeOK, ManifestRecord
  <2>2. AppliedPlacement(p).sha = digest[p[1]]
      BY <1>3, <2>1 DEF AppliedPlacement, PlacementRecord
  <2>3. files[To(p)] # NoFile /\ files[To(p)].content = digest[p[1]]
      BY <1>3 DEF PlanInv, Served, Busy
  <2>4. To(p) \in FileKeys /\ To(p)[2] = p
      BY <1>3, DestinationKey, KeyPlacement DEF To
  <2>5. files[To(p)].content \in Local(p)
      BY <2>3, <2>4 DEF Local
  <2> QED BY <1>1, <1>2, <1>3, <2>2, <2>3, <2>5
<1>4. CASE dest[p] = "failed"
  <2>1. next.placements[p] \in PlacementRecord
      BY <1>1 DEF TypeOK, ManifestRecord
  <2> QED BY <1>1, <1>4, <2>1 DEF AppliedPlacement, PlacementRecord
<1>5. CASE dest[p] \notin {"installed", "failed"}
  <2>1. AppliedPlacement(p) = next.placements[p]
      BY <1>5 DEF AppliedPlacement
  <2> QED BY <1>1, <1>2, <1>5, <2>1 DEF ClaimsPlanned, Busy
<1> QED BY <1>3, <1>4, <1>5

(* The manifest write.                                                     *)
LEMMA SaveRecords ==
    ASSUME IInv, ArchiveInv, ClaimsFit', [Next]_vars, Save \/ SaveFails
    PROVE  Archive!Record \/ Archive!Stop
<1>1. pc = "saving" /\ pc' = "ended" /\ files' = files
    BY DEF Save, SaveFails, EndWith
<1>2. /\ ArchivePhase = "working" /\ ArchivePhase' = "closed"
      /\ Copies' = Copies /\ Touched' = {}
    BY <1>1, SameFilesKeepLocal DEF ArchivePhase, Copies, Touched
<1>3. CASE saved' = saved
  <2>1. Claims' = Claims
      BY <1>3 DEF Claims, Claim
  <2>2. Listed' = Listed
      BY <1>3 DEF Listed
  <2> QED BY <1>2, <2>1, <2>2 DEF Archive!Stop
<1>4. CASE saved' # saved
  <2>1. saved' = Applied /\ Applied # NoManifest
      BY <1>4 DEF Save, SaveFails
  <2>2. next # NoManifest
      BY <2>1 DEF Applied
  <2>3. ASSUME NEW p \in Placements
        PROVE  Claims'[p] # NoSum =>
                  IF p \in Touched THEN Claims'[p] \in Copies[p] ELSE Claims'[p] = Claims[p]
    <3>1. Claims'[p] = Claim(p)' /\ Claims[p] = Claim(p) /\ Copies[p] = Local(p)
        BY DEF Claims, Copies
    <3>2. CASE Applied.placements[p].state = "complete"
      <4>1. Claim(p)' = Applied.placements[p].sha
          BY <2>1, <3>2 DEF Claim
      <4> QED BY <1>1, <2>2, <3>1, <3>2, <4>1, ResultsClaimed DEF ArchiveInv
    <3>3. CASE Applied.placements[p].state # "complete"
        BY <2>1, <3>1, <3>3 DEF Claim
    <3> QED BY <3>2, <3>3
  <2>4. /\ Claims' \in [Placements -> Contents \cup {NoSum}]
        /\ \A p \in Placements : Claims'[p] # NoSum => p \in Listed'
      BY DEF ClaimsFit, Checksums
  <2>5. Listed' \in SUBSET Placements
      BY DEF Listed
  <2>6. Touched \subseteq Listed'
    <3> SUFFICES ASSUME NEW p \in Placements, dest[p] # "none"
                 PROVE  p \in Listed'
        BY DEF Touched
    <3>1. next.placements[p].presence # "none"
        BY DEF ArchiveInv, TrustInv
    <3>2. Applied.placements[p].presence = next.placements[p].presence
        BY <2>2, AppliedFields DEF IInv, ArchiveInv, ValidInv
    <3> QED BY <2>1, <3>1, <3>2 DEF Listed
  <2>7. Listed \subseteq Listed'
    <3>1. saved # NoManifest => saved' # NoManifest /\ Retains(saved, saved')
        BY RecordStep DEF ArchiveInv
    <3> QED BY <3>1 DEF Listed, Retains
  <2> QED BY <1>2, <2>3, <2>4, <2>5, <2>6, <2>7 DEF Archive!Record
<1> QED BY <1>3, <1>4

(* A Put of a download.                                                    *)
LEMMA InstallDownloads ==
    ASSUME IInv, NEW p \in Placements, Install(p) \/ InstallFails(p)
    PROVE  Archive!Download(p)
<1>0. TypeOK
    BY DEF IInv
<1>1. /\ pc = "downloading" /\ pc' = pc /\ saved' = saved
      /\ job[p[1]] = "staged" /\ dest[p] = "queued"
      /\ files' = files \/ files' = Installed(p)
      /\ dest' = [dest EXCEPT ![p] = "installed"] \/ dest' = [dest EXCEPT ![p] = "failed"]
    BY DEF Install, InstallFails, DownloadStep
<1>2. /\ ArchivePhase = "working" /\ ArchivePhase' = ArchivePhase
      /\ Claims' = Claims
      /\ Listed' = Listed
      /\ Touched' = Touched \cup {p}
  <2>1. Claims' = Claims
      BY <1>1 DEF Claims, Claim
  <2>2. ArchivePhase = "working" /\ ArchivePhase' = "working" /\ Listed' = Listed
      BY <1>1 DEF ArchivePhase, Listed
  <2>3. /\ dest'[p] \in {"installed", "failed"}
        /\ \A q \in Placements \ {p} : dest'[q] = dest[q]
      BY <1>0, <1>1 DEF TypeOK
  <2>4. Touched' = Touched \cup {p}
      BY <2>2, <2>3 DEF Touched
  <2> QED BY <2>1, <2>2, <2>4
<1>3. CASE files' = files
  <2>1. Copies' = Copies
      BY <1>3, SameFilesKeepLocal DEF Copies
  <2> QED BY <1>2, <2>1 DEF Archive!Download
<1>4. CASE files' = Installed(p)
  <2> DEFINE file == [content |-> digest[p[1]], meta |-> ObjectStore]
  <2>1. file \in File /\ file # NoFile /\ file.content = digest[p[1]]
      BY <1>1, InstalledType, DataAssumption
  <2>2. PICK k \in FileKeys : k = To(p) /\ k[2] = p
      BY <1>1, DestinationKey, KeyPlacement DEF To
  <2>3. files \in [FileKeys -> File \cup {NoFile}] /\ files' = [files EXCEPT ![k] = file]
      BY <1>0, <1>4, <2>2 DEF TypeOK, Installed
  <2> HIDE DEF file
  <2>4. /\ \A q \in Placements \ {p} : Local(q)' = Local(q)
        /\ \E rest \in {Local(p)} \cup {Local(p) \ {c} : c \in Local(p)} :
              Local(p)' = rest \cup (IF file = NoFile THEN {} ELSE {file.content})
      BY <2>1, <2>2, <2>3, FileChange
  <2>5. /\ \A q \in Placements \ {p} : Local(q)' = Local(q)
        /\ \E rest \in {Local(p)} \cup {Local(p) \ {c} : c \in Local(p)} :
              Local(p)' = rest \cup {digest[p[1]]}
      BY <2>1, <2>4
  <2>6. PICK rest \in Archive!Rest(p) : Local(p)' = rest \cup {digest[p[1]]}
      BY <2>5 DEF Archive!Rest, Copies
  <2>7. Copies' = [Copies EXCEPT ![p] = rest \cup {digest[p[1]]}]
      BY <2>5, <2>6 DEF Copies
  <2>8. digest[p[1]] \in Contents
      BY <1>1 DEF IInv, MoveInv, StagedKnown, Placements
  <2> QED BY <1>2, <2>6, <2>7, <2>8 DEF Archive!Download
<1> QED BY <1>1, <1>3, <1>4

(* What a person does to a file.                                           *)
LEMMA UserTouches ==
    ASSUME IInv, UserStep
    PROVE  \E p \in Placements : Archive!OwnerTouches(p)
<1> DEFINE junk == [content |-> Junk, meta |-> FALSE]
<1>1. PICK k \in FileKeys : \/ Tamper(k, NoFile)
                            \/ Tamper(k, junk)
    BY DEF UserStep, UserDeletes, UserDamages
<1>2. junk \in File /\ junk # NoFile /\ junk.content = Junk
  <2>1. junk \in File
      BY DEF File, Digests
  <2> QED BY <2>1, DataAssumption
<1> HIDE DEF junk
<1>3. /\ pc \in {"idle", "planned"} /\ pc' = pc /\ saved' = saved
      /\ files' = [files EXCEPT ![k] = NoFile] \/ files' = [files EXCEPT ![k] = junk]
    BY <1>1 DEF Tamper
<1>4. PICK p \in Placements : k[2] = p
    BY DEF FileKeys
<1>5. files \in [FileKeys -> File \cup {NoFile}]
    BY DEF IInv, TypeOK
<1>6. PICK put \in {{}, {Junk}} :
         /\ \A q \in Placements \ {p} : Local(q)' = Local(q)
         /\ \E rest \in {Local(p)} \cup {Local(p) \ {c} : c \in Local(p)} :
               Local(p)' = rest \cup put
  <2>1. CASE files' = [files EXCEPT ![k] = NoFile]
      BY <1>4, <1>5, <2>1, FileChange
  <2>2. CASE files' = [files EXCEPT ![k] = junk]
      BY <1>2, <1>4, <1>5, <2>2, FileChange
  <2> QED BY <1>3, <2>1, <2>2
<1>7. PICK rest \in Archive!Rest(p) : Local(p)' = rest \cup put
    BY <1>6 DEF Archive!Rest, Copies
<1>8. Copies' = [Copies EXCEPT ![p] = rest \cup put]
    BY <1>4, <1>6, <1>7 DEF Copies
<1>9. /\ ArchivePhase = "open" /\ ArchivePhase' = ArchivePhase
      /\ Listed' = Listed /\ Touched' = Touched
    BY <1>3 DEF ArchivePhase, Listed, Touched
<1>10. Claims' = Claims
    BY <1>3 DEF Claims, Claim
<1>11. Archive!OwnerTouches(p)
    BY <1>7, <1>8, <1>9, <1>10 DEF Archive!OwnerTouches
<1> QED BY <1>11

(* The steps that leave the files and the record alone.                    *)
LEMMA QuietArchive ==
    ASSUME Copies' = Copies, saved' = saved,
           \/ ArchivePhase' = ArchivePhase /\ Touched' = Touched
           \/ ArchivePhase' \in {"open", "closed"} /\ Touched' = {}
           \/ ArchivePhase = "open" /\ ArchivePhase' = "working" /\ Touched' = Touched
    PROVE  [Archive!Next]_<<ArchivePhase, Copies, Claims, Listed, Touched>>
<1>1. Claims' = Claims
    BY DEF Claims, Claim
<1>2. Listed' = Listed
    BY DEF Listed
<1> QED BY <1>1, <1>2 DEF Archive!Next, Archive!Begin, Archive!Stop, Archive!Leave

(* Every step of CollectionRun is one of the contract, or does not show.   *)
LEMMA ArchiveStep ==
    ASSUME NamesApart, IInv, ArchiveInv, ClaimsFit', [Next]_vars
    PROVE  [Archive!Next]_<<ArchivePhase, Copies, Claims, Listed, Touched>>
<1>1. CASE Save \/ SaveFails
    BY <1>1, SaveRecords DEF Archive!Next
<1>2. CASE \E p \in Placements : Install(p) \/ InstallFails(p)
    BY <1>2, InstallDownloads DEF Archive!Next
<1>3. CASE UserStep
    BY <1>3, UserTouches DEF Archive!Next
<1>4. CASE RenameError \/ \E p \in Placements : RenamePut(p) \/ RenameRemove(p)
  <2>1. \/ files' = files
        \/ /\ pc = "renaming"
           /\ \E p \in renames : files[From(p)] # NoFile /\ files' = Copied(p)
        \/ pc = "removing" /\ \E p \in moving : files' = Removed(p)
      BY <1>4 DEF RenameError, RenamePut, RenameRemove
  <2>2. Copies' = Copies
    <3>1. CASE files' = files
        BY <3>1, SameFilesKeepLocal DEF Copies
    <3> QED BY <2>1, <3>1, RenameKeepsContents DEF ArchiveInv
  <2>3. /\ saved' = saved /\ dest' = dest
        /\ pc \in {"renaming", "removing"} /\ pc' \in {"renaming", "removing", "ended"}
      BY <1>4 DEF RenameError, RenamePut, RenameRemove, RenameFails, EndWith, workVars
  <2>4. \/ ArchivePhase' = ArchivePhase /\ Touched' = Touched
        \/ ArchivePhase' = "closed" /\ Touched' = {}
      BY <2>3 DEF ArchivePhase, Touched
  <2> QED BY <2>2, <2>3, <2>4, QuietArchive
<1>5. CASE \/ \E o \in RunOptions : Start(o)
           \/ Confirm \/ RenamesDone \/ DownloadsDone \/ Exit
           \/ \E r \in References : Fetch(r) \/ FetchFails(r)
           \/ Decline \/ Cancel \/ Crash \/ SourceChanges \/ UNCHANGED vars
  <2>1. files' = files /\ saved' = saved
      BY <1>5
      DEF Start, Confirm, RenamesDone, DownloadsDone, Exit, Fetch, FetchFails, DownloadStep,
          Decline, Cancel, Crash, SourceChanges, Change, disk, vars
  <2>2. \/ pc' = pc /\ dest' = dest
        \/ pc' \in {"idle", "planned", "ended"}
        \/ pc = "planned" /\ pc' = "renaming" /\ dest' = dest
        \/ pc = "renaming" /\ pc' = "downloading" /\ dest' = dest
        \/ pc = "downloading" /\ pc' = "saving" /\ dest' = dest
    <3>1. CASE \/ \E o \in RunOptions : Start(o)
               \/ Exit \/ Crash \/ Decline
        BY <3>1 DEF Start, Exit, Crash, Decline, EndWith, Forget
    <3>2. CASE \/ Confirm \/ RenamesDone \/ DownloadsDone \/ Cancel \/ SourceChanges
               \/ UNCHANGED vars
               \/ \E r \in References : Fetch(r) \/ FetchFails(r)
        BY <3>2
        DEF Confirm, RenamesDone, DownloadsDone, Cancel, SourceChanges, Change, Fetch,
            FetchFails, DownloadStep, EndWith, workVars, vars
    <3> QED BY <1>5, <3>1, <3>2
  <2>3. Copies' = Copies
      BY <2>1, SameFilesKeepLocal DEF Copies
  <2>4. pc = "planned" /\ dest' = dest => Touched = {} /\ Touched' = {}
      BY DEF ArchiveInv, PlanInv, Unserved, Touched, ArchivePhase
  <2>5. \/ ArchivePhase' = ArchivePhase /\ Touched' = Touched
        \/ ArchivePhase' \in {"open", "closed"} /\ Touched' = {}
        \/ ArchivePhase = "open" /\ ArchivePhase' = "working" /\ Touched' = Touched
    <3>1. CASE pc' = pc /\ dest' = dest
        BY <3>1 DEF ArchivePhase, Touched
    <3>2. CASE pc' \in {"idle", "planned", "ended"}
        BY <3>2 DEF ArchivePhase, Touched
    <3>3. CASE pc = "planned" /\ pc' = "renaming" /\ dest' = dest
        BY <2>4, <3>3 DEF ArchivePhase
    <3>4. CASE \/ pc = "renaming" /\ pc' = "downloading" /\ dest' = dest
               \/ pc = "downloading" /\ pc' = "saving" /\ dest' = dest
        BY <3>4 DEF ArchivePhase, Touched
    <3> QED BY <2>2, <3>1, <3>2, <3>3, <3>4
  <2> QED BY <2>1, <2>3, <2>5, QuietArchive
<1> QED BY <1>1, <1>2, <1>3, <1>4, <1>5 DEF Next, RunStep, FaultStep

(* On a root where different names never lead to one file, every run keeps *)
(* the promise of ArchiveContract, whatever the source renames, the user   *)
(* damages, and wherever the run fails, is interrupted or killed: renames  *)
(* and kills do not show, contents go only where downloads come, and       *)
(* applyResults records what is stored.                                    *)
THEOREM ArchiveKeepsContract == NamesApart => (Spec => ImplementsArchive)
<1> SUFFICES ASSUME NamesApart
             PROVE  Spec => ImplementsArchive
    OBVIOUS
<1>1. Init => Archive!Init
  <2> SUFFICES ASSUME Init PROVE Archive!Init
      OBVIOUS
  <2>1. Copies = [p \in Placements |-> {}]
      BY DEF Init, Copies, Local
  <2>2. Claims = [p \in Placements |-> NoSum]
      BY DEF Init, Claims, Claim
  <2>3. ArchivePhase = "open" /\ Listed = {} /\ Touched = {}
      BY DEF Init, ArchivePhase, Listed, Touched
  <2> QED BY <2>1, <2>2, <2>3 DEF Archive!Init
<1>2. Init => ArchiveInv
    BY ValidInit, PlanInit, TrustInit, ClaimsInit
    DEF Init, ArchiveInv, CopyInv, TargetsFree, BothCopies
<1>3. IInv /\ ArchiveInv /\ [Next]_vars => ArchiveInv'
    BY CopyKeeps, RecordStep, PlanKeeps, TrustKeeps, ClaimsKeep DEF ArchiveInv
<1>4. IInv /\ ArchiveInv => ClaimsFit
    BY RecordFits DEF IInv, ArchiveInv, TrustInv
<1>5. IInv /\ ArchiveInv /\ ClaimsFit' /\ [Next]_vars
        => [Archive!Next]_<<ArchivePhase, Copies, Claims, Listed, Touched>>
    BY ArchiveStep
<1> QED BY <1>1, <1>2, <1>3, <1>4, <1>5, Invariant, PTL
        DEF Spec, ImplementsArchive, Archive!Spec, Archive!vars

=============================================================================
