------------------------ MODULE ReconcilerFaultProofs -----------------------
(***************************************************************************)
(* What the reconciler's error paths achieve, for every set of keys,       *)
(* clients and payloads, and which failures each promise survives: that a  *)
(* failed request restores what it found, that manifest and status tell of *)
(* the same apply, and that an applied request is what the interface       *)
(* serves.                                                                 *)
(***************************************************************************)
EXTENDS ReconcilerProofs

(* What clients do is not seen by the registers, files and interface.      *)
LEMMA EnvironmentApart ==
    Environment => UNCHANGED rvars
BY DEF Environment, ClientWrites, ClientConnects, ClientCloses, rvars

-----------------------------------------------------------------------------
(* Failures that let a failed request leave its traces: something else     *)
(* writes to the interface, or the restoring itself fails or is skipped.   *)
Tracing == {"interface_restart", "operator", "wg_rollback", "wg_spawn", "disk_restore"}

Files == [manifest |-> manifest, status |-> status]

(* What has been changed, and what put back, at each point of a request.   *)
Restores ==
    /\ phase = "syncing" => live = base
    /\ phase \in {"syncing", "verifying", "undoing", "recording"} => Files = prior
    /\ phase = "reporting" => status = prior.status
    /\ phase \in {"restoring", "restoring_status"} => live = base
    /\ phase = "restoring_status" => manifest = prior.manifest
    /\ phase = "replying" /\ answer = "failed" => live = base /\ Files = prior

LEMMA WorkRestores ==
    ASSUME Faults \cap Tracing = {}
    PROVE  TypeOK /\ Restores /\ Work => Restores'
<1> SUFFICES ASSUME TypeOK, Restores, Work PROVE Restores'
  OBVIOUS
<1> USE DEF Restores, Files
<1>0. /\ "wg_rollback" \notin Faults /\ "wg_spawn" \notin Faults
      /\ "disk_restore" \notin Faults
  BY DEF Tracing
<1>1. CASE Accept
  BY <1>1 DEF Accept
<1>2. CASE Load
  BY <1>2 DEF Load, Fails, Answers
<1>3. CASE SyncConf
  BY <1>0, <1>3 DEF SyncConf
<1>4. CASE Verify
  BY <1>0, <1>4 DEF Verify
<1>5. CASE Undo
  BY <1>0, <1>5 DEF Undo, RollbackLive, Fails, Answers
<1>6. CASE RecordManifest
  <2>1. status' = prior'.status
    BY <1>6 DEF RecordManifest
  <2> QED
    BY <1>6, <2>1 DEF RecordManifest
<1>7. CASE RecordStatus
  BY <1>7 DEF RecordStatus, Answers
<1>8. CASE Unwind
  BY <1>0, <1>8 DEF Unwind, RollbackLive
<1>9. CASE RestoreManifest
  BY <1>0, <1>9 DEF RestoreManifest
<1>10. CASE RestoreStatus
  <2>1. prior \in [manifest : Manifests, status : Statuses]
    BY DEF TypeOK
  <2>2. manifest' = prior'.manifest /\ status' = prior'.status /\ live' = base'
        /\ prior' = prior /\ phase' = "replying"
    BY <1>0, <1>10 DEF RestoreStatus, Fails, Answers
  <2> QED
    BY <2>1, <2>2
<1>11. CASE Reply
  BY <1>11 DEF Reply
<1> QED
  BY <1>1, <1>2, <1>3, <1>4, <1>5, <1>6, <1>7, <1>8, <1>9, <1>10, <1>11 DEF Work

(* A request answered "failed" has left interface and files as it found    *)
(* them, whatever wg or the disk refused, unless the restoring fails too   *)
(* or somebody else writes to the interface.                               *)
THEOREM FailuresRestore ==
    ASSUME Faults \cap Tracing = {}
    PROVE  Spec => []FailureRestores
<1>1. Init => Restores
  BY DEF Init, Restores
<1>2. TypeOK /\ Restores /\ [Next]_vars => Restores'
  <2> SUFFICES ASSUME TypeOK, Restores, [Next]_vars PROVE Restores'
    OBVIOUS
  <2>1. CASE World
    <3>1. Crash \/ Restart
      BY <2>1 DEF World, InterfaceRestarts, OperatorAdds, Tracing
    <3> QED
      BY <3>1 DEF Crash, Restart, Restores, Files
  <2>2. CASE UNCHANGED rvars
    BY <2>2 DEF rvars, Restores, Files
  <2>3. UNCHANGED vars => UNCHANGED rvars
    BY DEF vars, rvars
  <2> QED
    BY <2>1, <2>2, <2>3, WorkRestores, EnvironmentApart DEF Next
<1>3. Restores => FailureRestores
  BY DEF Restores, FailureRestores, Files
<1> QED
  BY <1>1, <1>2, <1>3, TypeCorrect, PTL DEF Spec

-----------------------------------------------------------------------------
(* Failures that separate the two files: death between the two writes, and *)
(* a file that cannot be put back.                                         *)
Separating == {"reconciler_crash", "disk_restore"}

Agree(m, s) == IF s = Absent THEN m = Absent ELSE m = KeysOf(s.digest)

(* The files agree but for the time between their writes, and so do their  *)
(* earlier contents as long as they may be put back.                       *)
Together ==
    /\ phase # "down"
    /\ phase \in {"idle", "loading", "syncing", "verifying", "undoing", "recording",
                  "replying"} => Agree(manifest, status)
    /\ phase \in {"syncing", "verifying", "undoing", "recording", "reporting",
                  "unwinding", "restoring", "restoring_status"} =>
           Agree(prior.manifest, prior.status)
    /\ phase = "reporting" => manifest = KeysOf(req.digest)
    /\ phase = "restoring_status" => manifest = prior.manifest

LEMMA WorkTogether ==
    ASSUME Faults \cap Separating = {}
    PROVE  TypeOK /\ Together /\ Work => Together'
<1> SUFFICES ASSUME TypeOK, Together, Work PROVE Together'
  OBVIOUS
<1> USE DEF Together
<1>0. "disk_restore" \notin Faults
  BY DEF Separating
<1>1. CASE Accept
  BY <1>1 DEF Accept, Agree
<1>2. CASE Load
  BY <1>2 DEF Load, Fails, Answers, Agree
<1>3. CASE SyncConf
  BY <1>3 DEF SyncConf, Fails, Answers, Agree
<1>4. CASE Verify
  BY <1>4 DEF Verify, Fails, Answers, Agree
<1>5. CASE Undo
  BY <1>5 DEF Undo, Fails, Answers, Agree
<1>6. CASE RecordManifest
  BY <1>6 DEF RecordManifest, Agree
<1>7. CASE RecordStatus
  <2> DEFINE new == [digest |-> req.digest, id |-> req.id]
  <2>1. CASE status' = new /\ Answers("applied")
    <3>1. new \in [digest : SUBSET Peer, id : Nat] /\ new.digest = req.digest
      BY DEF TypeOK, Requests
    <3>2. status' # Absent /\ status'.digest = req.digest
      BY <2>1, <3>1, AbsentAssumption
    <3>3. Agree(manifest, status)'
      BY <1>7, <3>2 DEF RecordStatus, Agree
    <3> QED
      BY <2>1, <3>3 DEF Answers
  <2>2. CASE phase' = "unwinding"
    BY <1>7, <2>2 DEF RecordStatus, Agree
  <2> QED
    BY <1>7, <2>1, <2>2 DEF RecordStatus
<1>8. CASE Unwind
  BY <1>8 DEF Unwind, Agree
<1>9. CASE RestoreManifest
  BY <1>0, <1>9 DEF RestoreManifest, Agree
<1>10. CASE RestoreStatus
  BY <1>0, <1>10 DEF RestoreStatus, Fails, Answers, Agree
<1>11. CASE Reply
  BY <1>11 DEF Reply, Agree
<1> QED
  BY <1>1, <1>2, <1>3, <1>4, <1>5, <1>6, <1>7, <1>8, <1>9, <1>10, <1>11 DEF Work

(* Between two requests manifest and status tell of the same apply,        *)
(* whatever else writes to the interface or is refused.                    *)
THEOREM FilesStayTogether ==
    ASSUME Faults \cap Separating = {}
    PROVE  Spec => []FilesAgree
<1>1. Init => Together
  BY DEF Init, Together, Agree
<1>2. TypeOK /\ Together /\ [Next]_vars => Together'
  <2> SUFFICES ASSUME TypeOK, Together, [Next]_vars PROVE Together'
    OBVIOUS
  <2>1. World => UNCHANGED <<manifest, status, phase, req, prior>>
    BY DEF World, Crash, Restart, InterfaceRestarts, OperatorAdds, Separating, Together
  <2>2. CASE UNCHANGED <<manifest, status, phase, req, prior>>
    BY <2>2 DEF Together, Agree
  <2>3. UNCHANGED vars \/ UNCHANGED rvars => UNCHANGED <<manifest, status, phase, req, prior>>
    BY DEF vars, rvars
  <2> QED
    BY <2>1, <2>2, <2>3, WorkTogether, EnvironmentApart DEF Next
<1>3. Together => FilesAgree
  BY DEF Together, FilesAgree, Agree
<1> QED
  BY <1>1, <1>2, <1>3, TypeCorrect, PTL DEF Spec

-----------------------------------------------------------------------------
(* What Verify has seen, with a candidate that owns what it holds, is what *)
(* the request asked for and nothing else.                                 *)
LEMMA VerifiedServes ==
    ASSUME NEW c, NEW d, NEW S \in SUBSET Peer, NEW removed, WellFormed(S),
           Matches(c, d, S, removed), OwnedBy(d, KeysOf(S)), KeysOf(S) \subseteq DOMAIN d
    PROVE  Serves(c, S)
<1>1. DOMAIN c \cap ManagedKeys = KeysOf(S)
  <2>1. KeysOf(S) \subseteq ManagedKeys
    BY KeysType
  <2>2. DOMAIN d \cap ManagedKeys \subseteq KeysOf(S)
    BY OwnedKeys DEF OwnedBy
  <2> QED
    BY <2>1, <2>2 DEF Matches
<1>2. ASSUME NEW k \in KeysOf(S)
      PROVE  c[k] = IpsOf(S, k)
  <2>1. PICK p \in S : p.key = k
    BY DEF KeysOf
  <2>2. \A q \in S : q.key = k => q = p
    BY <2>1 DEF WellFormed
  <2>3. IpsOf(S, k) = {p.ip}
    BY <2>1, <2>2 DEF IpsOf
  <2> QED
    BY <2>1, <2>3 DEF Matches
<1> QED
  BY <1>1, <1>2 DEF Serves, ManagedPart

(* What the candidate, and then the interface, hold for the request.       *)
Applies ==
    /\ phase \in {"syncing", "verifying"} =>
           WellFormed(req.digest) /\ KeysOf(req.digest) \subseteq DOMAIN cand
    /\ phase \in {"recording", "reporting"} => Serves(live, req.digest)
    /\ phase = "replying" /\ answer = "applied" => Serves(live, req.digest)

LEMMA WorkApplies ==
    TypeOK /\ Ownership /\ Applies /\ Work => Applies'
<1> SUFFICES ASSUME TypeOK, Ownership, Applies, Work PROVE Applies'
  OBVIOUS
<1> USE DEF Applies
<1>1. CASE Accept
  BY <1>1 DEF Accept
<1>2. CASE Load
  <2>1. CASE Acceptable /\ cand' = Merge(live, expected, Owned(manifest)) /\ phase' = "syncing"
    <3>1. WellFormed(req.digest) /\ expected = req.digest
      BY <2>1 DEF Acceptable
    <3>2. KeysOf(req.digest) \subseteq DOMAIN cand'
      BY <2>1, <3>1 DEF Merge
    <3>3. req' = req
      BY <1>2 DEF Load
    <3> QED
      BY <2>1, <3>1, <3>2, <3>3
  <2>2. CASE Fails
    BY <2>2 DEF Fails, Answers
  <2> QED
    BY <1>2, <2>1, <2>2 DEF Load
<1>3. CASE SyncConf
  BY <1>3 DEF SyncConf, Fails, Answers
<1>4. CASE Verify
  <2>1. CASE Verified /\ phase' = "recording"
    <3>1. /\ req.digest \in SUBSET Peer /\ WellFormed(req.digest)
          /\ KeysOf(req.digest) \subseteq DOMAIN cand /\ OwnedBy(cand, KeysOf(req.digest))
      BY <1>4 DEF Verify, TypeOK, Requests, Ownership
    <3>2. Serves(live, req.digest)
      BY <2>1, <3>1, VerifiedServes DEF Verified
    <3> QED
      BY <1>4, <2>1, <3>2 DEF Verify
  <2>2. CASE phase' = "undoing"
    BY <2>2
  <2>3. CASE Fails
    BY <2>3 DEF Fails, Answers
  <2> QED
    BY <1>4, <2>1, <2>2, <2>3 DEF Verify
<1>5. CASE Undo \/ RestoreStatus
  BY <1>5 DEF Undo, RestoreStatus, Fails, Answers
<1>6. CASE RecordManifest
  BY <1>6 DEF RecordManifest
<1>7. CASE RecordStatus
  BY <1>7 DEF RecordStatus, Answers
<1>8. CASE Unwind
  BY <1>8 DEF Unwind
<1>9. CASE RestoreManifest
  BY <1>9 DEF RestoreManifest, Fails, Answers
<1>10. CASE Reply
  BY <1>10 DEF Reply
<1> QED
  BY <1>1, <1>2, <1>3, <1>4, <1>5, <1>6, <1>7, <1>8, <1>9, <1>10 DEF Work

(* Without crashes and reloads all that surrounds the process does is to   *)
(* add peers nobody manages.                                               *)
LEMMA WorldUnmanaged ==
    ASSUME Faults \cap (Disowning \cup {"interface_restart"}) = {}, Ownership, World
    PROVE  /\ UNCHANGED <<cvars, manifest, status, phase, req, base, cand, prior, answer>>
           /\ ManagedPart(live') = ManagedPart(live)
<1>0. {"interface_restart", "reconciler_crash"} \cap Faults = {}
  BY DEF Disowning
<1>1. PICK k \in ForeignKeys : OperatorAdds(k)
  BY <1>0 DEF World, Crash, Restart, InterfaceRestarts, Ownership
<1>2. /\ DOMAIN live' = DOMAIN live \cup {k} /\ k \notin ManagedKeys
      /\ \A j \in DOMAIN live : live'[j] = live[j]
  BY <1>1, KeysAssumption DEF OperatorAdds
<1> QED
  BY <1>1, <1>2 DEF OperatorAdds, ManagedPart, cvars

(* From the check on the interface holds what was asked for.               *)
LEMMA AppliesKept ==
    ASSUME Faults \cap (Disowning \cup {"interface_restart"}) = {}
    PROVE  Spec => []Applies
<1>0. Faults \cap Disowning = {}
  OBVIOUS
<1>1. Init => Applies
  BY DEF Init, Applies
<1>2. TypeOK /\ Ownership /\ Applies /\ [Next]_vars => Applies'
  <2> SUFFICES ASSUME TypeOK, Ownership, Applies, [Next]_vars PROVE Applies'
    OBVIOUS
  <2>1. ASSUME World
        PROVE  /\ UNCHANGED <<phase, req, cand, answer>>
               /\ ManagedPart(live') = ManagedPart(live)
    BY <2>1, WorldUnmanaged
  <2>2. CASE /\ UNCHANGED <<phase, req, cand, answer>>
             /\ ManagedPart(live') = ManagedPart(live)
    BY <2>2 DEF Applies, Serves
  <2>3. UNCHANGED vars \/ UNCHANGED rvars =>
            UNCHANGED <<phase, req, cand, answer>> /\ ManagedPart(live') = ManagedPart(live)
    BY DEF vars, rvars
  <2> QED
    BY <2>1, <2>2, <2>3, WorkApplies, EnvironmentApart DEF Next
<1>3. Spec => []Ownership
  BY <1>0, OwnershipKept
<1> QED
  BY <1>1, <1>2, <1>3, TypeCorrect, PTL DEF Spec

(* A request answered "applied" is what the interface serves, also when an *)
(* operator adds peers meanwhile, as long as no failure before it left     *)
(* keys on the interface that nobody owns and wg-quick does not run.       *)
THEOREM AppliedStaysLive ==
    ASSUME Faults \cap (Disowning \cup {"interface_restart"}) = {}
    PROVE  Spec => []AppliedIsLive
<1>1. Applies => AppliedIsLive
  BY DEF Applies, AppliedIsLive
<1>2. Spec => []Applies
  BY AppliesKept
<1> QED
  BY <1>1, <1>2, PTL
=============================================================================
