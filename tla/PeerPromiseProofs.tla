------------------------- MODULE PeerPromiseProofs --------------------------
(***************************************************************************)
(* The managers and the reconciler implement PeerPromise, and table, file  *)
(* and interface agree at rest, for any number of managers, keys and       *)
(* addresses, as long as every failure is one that both sides see.         *)
(***************************************************************************)
EXTENDS LivePeersProofs

(* Failures of the live change that one side does not see, or cannot undo. *)
Unseen == Misleading \cup {"timeout", "manager_crash"}

-----------------------------------------------------------------------------
(* The reconciler has nothing to do.                                       *)
Quiet == phase = "idle" /\ queue = <<>>

(* The interface is at the committed table, at the proposed one.           *)
Committed == Serves(live, Desired(db))
Proposed == Serves(live, Desired(txn))

(* What a request has done to the interface, and can undo.                 *)
Registers ==
    /\ phase \notin {"down", "idle"}
    /\ phase \in {"loading", "syncing", "restoring", "restoring_status"} => Committed
    /\ phase \in {"verifying", "undoing", "recording", "reporting", "unwinding"} =>
           Committed \/ Proposed
    /\ phase \in {"syncing", "verifying", "undoing", "recording", "reporting", "unwinding"} =>
           Serves(base, Desired(db))
    /\ phase = "syncing" => Serves(cand, Desired(txn))
    /\ phase = "replying" /\ answer = "failed" => Committed

(* The one request there is, waiting or being handled.                     *)
Asking == \/ phase = "idle" /\ Len(queue) = 1 /\ queue[1].id = issued /\ Committed
          \/ queue = <<>> /\ req.id = issued /\ Registers

(* The interface at each stage of the one manager at work.                 *)
Follows(m) ==
    /\ pc[m] \in {"reading", "rendering", "writing", "connecting", "checking",
                  "restoring", "failing"} => Quiet /\ Committed
    /\ pc[m] = "committing" => Quiet
    /\ pc[m] = "waiting" => /\ conn[m].state \in {"open", "applied", "failed"}
                            /\ conn[m].state = "open" => Asking
                            /\ conn[m].state = "applied" => Quiet
                            /\ conn[m].state = "failed" => Quiet /\ Committed

Following ==
    /\ owner = Absent => Quiet /\ Committed
    /\ \A m \in Managers : owner = m => pc[m] # "idle"
    /\ \A m \in Managers : pc[m] # "idle" => Follows(m)

-----------------------------------------------------------------------------
(* The expected-peer file is that of S, or has never been written; nothing *)
(* is said of it when writing it may fail.                                 *)
Filed(e, S) == \/ e = S \/ (e = Absent /\ S = {})
               \/ "expected_write" \in Faults

(* So is the file at each stage, and the previous one.                     *)
FilesAt(m) ==
    /\ pc[m] \in {"reading", "rendering", "writing", "failing"} => Filed(expected, Desired(db))
    /\ pc[m] \in {"connecting", "waiting", "checking", "committing"} =>
           Filed(expected, Desired(txn))
    /\ pc[m] \in {"rendering", "writing", "connecting", "waiting", "checking", "restoring"} =>
           Filed(previous[m], Desired(db))

Filing ==
    /\ owner = Absent => Filed(expected, Desired(db))
    /\ \A m \in Managers : pc[m] # "idle" => FilesAt(m)

-----------------------------------------------------------------------------
(* With everything owned that is live, the merge serves the file.          *)
LEMMA MergeServes ==
    ASSUME NEW c, NEW S \in SUBSET Peer, NEW o, DOMAIN c \cap ManagedKeys \subseteq o
    PROVE  Serves(Merge(c, S, o), S)
<1>1. KeysOf(S) \subseteq ManagedKeys
  BY KeysType
<1>2. DOMAIN Merge(c, S, o) \cap ManagedKeys = KeysOf(S)
  BY <1>1 DEF Merge
<1>3. \A k \in KeysOf(S) : Merge(c, S, o)[k] = IpsOf(S, k)
  BY DEF Merge
<1> QED
  BY <1>2, <1>3 DEF Serves, ManagedPart

(* What is served is what PeerPromise sees of the interface.               *)
LEMMA ServedPeers ==
    ASSUME NEW c, NEW S \in SUBSET Peer, Serves(c, S)
    PROVE  PeersOf(c) = S
<1>1. DOMAIN c \cap ManagedKeys = KeysOf(S) /\ \A k \in KeysOf(S) : c[k] = IpsOf(S, k)
  <2> DEFINE f == [k \in KeysOf(S) |-> IpsOf(S, k)]
  <2>1. DOMAIN ManagedPart(c) = DOMAIN f /\ \A k \in DOMAIN f : ManagedPart(c)[k] = f[k]
    BY DEF Serves
  <2> QED
    BY <2>1 DEF ManagedPart
<1>2. ASSUME NEW p \in Peer
      PROVE  (p.key \in DOMAIN c /\ p.ip \in c[p.key]) <=> p \in S
  <2>1. p.key \in ManagedKeys
    BY DEF Peer
  <2>2. ASSUME p \in S PROVE p.key \in DOMAIN c /\ p.ip \in c[p.key]
    BY <1>1, <2>2 DEF KeysOf, IpsOf
  <2>3. ASSUME p.key \in DOMAIN c, p.ip \in c[p.key] PROVE p \in S
    <3>1. p.ip \in IpsOf(S, p.key)
      BY <1>1, <2>1, <2>3
    <3>2. PICK q \in S : q.key = p.key /\ q.ip = p.ip
      BY <3>1 DEF IpsOf
    <3>3. q = p
      BY <3>2 DEF Peer
    <3> QED
      BY <3>3
  <2> QED
    BY <2>2, <2>3
<1> QED
  BY <1>2 DEF PeersOf

LEMMA ManagedPeers ==
    ASSUME NEW c, NEW d, ManagedPart(c) = ManagedPart(d)
    PROVE  PeersOf(c) = PeersOf(d)
<1>1. \A p \in Peer : p.key \in ManagedKeys
  BY DEF Peer
<1>2. \A e : PeersOf(e) = {p \in Peer : p.key \in DOMAIN ManagedPart(e)
                                       /\ p.ip \in ManagedPart(e)[p.key]}
  BY <1>1 DEF PeersOf, ManagedPart
<1> QED
  BY <1>2

LEMMA BootServesNone == Serves(Boot, {})
<1>1. DOMAIN Boot \cap ManagedKeys = {}
  BY KeysAssumption, NetsAssumption DEF Boot
<1> QED
  BY <1>1 DEF Serves, ManagedPart, KeysOf

-----------------------------------------------------------------------------
LEMMA Seen ==
    ASSUME Faults \cap Unseen = {}
    PROVE  /\ NotMisled /\ Faults \cap Misleading = {}
           /\ {"timeout", "manager_crash", "commit", "wg_rollback", "wg_spawn",
               "disk_restore"} \cap Faults = {}
BY DEF Unseen, NotMisled, Misleading, Disowning

(* Only a manager that waits for its answer keeps the reconciler at work.  *)
LEMMA WorkIsAsked ==
    ASSUME Known, Following, Work
    PROVE  \E m \in Managers :
               /\ pc[m] = "waiting" /\ owner = m /\ conn[m].state = "open" /\ Asking
               /\ issued > 0 /\ conn[m].id = issued /\ AsksFor(Desired(txn))
<1>1. ~Quiet
  BY DEF Quiet, Work, Accept, Load, SyncConf, Verify, Undo, RecordManifest, RecordStatus,
         Unwind, RestoreManifest, RestoreStatus, Reply
<1>2. owner # Absent
  BY <1>1 DEF Following
<1>3. owner \in Managers /\ pc \in [Managers -> Stages]
  BY <1>2 DEF Known, RowsInv, LiveTypeOK
<1> DEFINE m == owner
<1>4. Follows(m) /\ pc[m] # "idle" /\ pc[m] \in Stages
  BY <1>3 DEF Following
<1>5. pc[m] = "waiting" /\ conn[m].state = "open" /\ Asking
  BY <1>1, <1>4 DEF Follows, Stages
<1>6. issued > 0 /\ conn[m].id = issued /\ AsksFor(Desired(txn))
  <2>1. Stage(m)
    BY <1>3 DEF Known, AllStages
  <2> QED
    BY <1>5, <2>1 DEF Stage
<1> QED
  BY <1>3, <1>5, <1>6

(* What a step of the request does to the interface.                       *)
LEMMA WorkFollows ==
    ASSUME Faults \cap Unseen = {}, Known, Following, Work, UNCHANGED mvars
    PROVE  \E m \in Managers :
               /\ pc[m] = "waiting" /\ owner = m
               /\ live' = live \/ Committed' \/ Proposed'
               /\ \/ conn'[m] = conn[m] /\ conn[m].state = "open" /\ Asking'
                  \/ conn'[m].state = "applied" /\ Quiet'
                  \/ conn'[m].state = "failed" /\ Quiet' /\ Committed'
<1>0. {"wg_rollback", "wg_spawn", "disk_restore"} \cap Faults = {}
  BY Seen
<1>1. PICK m \in Managers :
          /\ pc[m] = "waiting" /\ owner = m /\ conn[m].state = "open" /\ Asking
          /\ issued > 0 /\ conn[m].id = issued /\ AsksFor(Desired(txn))
  BY WorkIsAsked
<1>2. Desired(db)' = Desired(db) /\ Desired(txn)' = Desired(txn)
  BY DEF mvars, Desired
<1>3. TypeOK /\ Ownership /\ m \in Clients
  BY DEF Known, Managers
<1> DEFINE Stays == conn'[m] = conn[m] /\ Asking'
<1>4. CASE Accept
  <2>1. Len(queue) = 1 /\ queue[1].id = issued /\ Committed
    BY <1>1, <1>4 DEF Accept, Asking, Registers
  <2>2. req' = queue[1] /\ queue' = <<>>
    BY <1>3, <1>4, <2>1, EmptySeq, HeadTailProperties DEF Accept, TypeOK
  <2>3. UNCHANGED <<conn, issued, live>> /\ phase' = "loading"
    BY <1>4 DEF Accept
  <2>4. Committed'
    BY <1>2, <2>1, <2>3 DEF Committed
  <2>5. Stays
    BY <2>1, <2>2, <2>3, <2>4 DEF Asking, Registers
  <2> QED
    BY <1>1, <2>3, <2>5
<1>5. ASSUME ~Accept PROVE phase # "idle" /\ queue = <<>> /\ req.id = issued /\ Registers
  BY <1>1, <1>5 DEF Asking, Work, Load, SyncConf, Verify, Undo, RecordManifest,
                    RecordStatus, Unwind, RestoreManifest, RestoreStatus, Reply
<1>6. CASE Load
  <2>1. /\ queue = <<>> /\ req.id = issued /\ Committed /\ req.digest = Desired(txn)
        /\ phase = "loading"
    BY <1>1, <1>5, <1>6 DEF Load, Accept, Registers, AsksFor
  <2>2. /\ UNCHANGED <<queue, conn, issued, live, req>> /\ base' = live
        /\ phase' \in {"syncing", "replying"}
        /\ phase' = "syncing" => cand' = Merge(live, req.digest, Owned(manifest))
    BY <1>6 DEF Load, Fails, Answers, Acceptable
  <2>3. Committed' /\ Serves(base', Desired(db)')
    BY <1>2, <2>1, <2>2 DEF Committed
  <2>4. phase' = "syncing" => Serves(cand', Desired(txn)')
    <3>1. req.digest \in SUBSET Peer /\ DOMAIN live \cap ManagedKeys \subseteq Owned(manifest)
      BY <1>3, <2>1 DEF TypeOK, Requests, Ownership, OwnedBy
    <3> QED
      BY <1>2, <2>1, <2>2, <3>1, MergeServes
  <2>5. Stays
    BY <2>1, <2>2, <2>3, <2>4 DEF Asking, Registers
  <2> QED
    BY <1>1, <2>2, <2>5
<1>7. CASE SyncConf
  <2>1. /\ queue = <<>> /\ req.id = issued /\ Committed /\ Serves(base, Desired(db))
        /\ Serves(cand, Desired(txn))
    BY <1>5, <1>7 DEF SyncConf, Accept, Registers
  <2>2. /\ UNCHANGED <<queue, conn, issued, req, base, cand>> /\ live' \in {live, cand}
        /\ phase' \in {"verifying", "undoing"}
    BY <1>0, <1>7 DEF SyncConf
  <2>3. Committed' \/ Proposed'
    BY <1>2, <2>1, <2>2 DEF Committed, Proposed
  <2>4. Stays
    BY <1>2, <2>1, <2>2, <2>3 DEF Asking, Registers
  <2> QED
    BY <1>1, <2>3, <2>4
<1>8. CASE Verify \/ RecordManifest \/ RecordStatus
  <2>1. /\ queue = <<>> /\ req.id = issued
        /\ Committed \/ Proposed
        /\ Serves(base, Desired(db))
    BY <1>5, <1>8 DEF Verify, RecordManifest, RecordStatus, Accept, Registers
  <2>2. /\ UNCHANGED <<queue, conn, issued, req, base, live>>
        /\ phase' \in {"undoing", "recording", "reporting", "unwinding", "replying"}
        /\ phase' = "replying" => answer' = "applied"
    BY <1>0, <1>8 DEF Verify, RecordManifest, RecordStatus, Answers
  <2>3. Committed' \/ Proposed'
    BY <1>2, <2>1, <2>2 DEF Committed, Proposed
  <2>4. Stays
    BY <1>2, <2>1, <2>2, <2>3 DEF Asking, Registers
  <2> QED
    BY <1>1, <2>3, <2>4
<1>9. CASE Undo \/ Unwind
  <2>1. queue = <<>> /\ req.id = issued /\ Serves(base, Desired(db))
    BY <1>5, <1>9 DEF Undo, Unwind, Accept, Registers
  <2>2. /\ UNCHANGED <<queue, conn, issued, req, base>> /\ live' = base
        /\ phase' \in {"replying", "restoring"}
    BY <1>0, <1>9 DEF Undo, Unwind, RollbackLive, Fails, Answers
  <2>3. Committed'
    BY <1>2, <2>1, <2>2 DEF Committed
  <2>4. Stays
    BY <2>1, <2>2, <2>3 DEF Asking, Registers
  <2> QED
    BY <1>1, <2>3, <2>4
<1>10. CASE RestoreManifest \/ RestoreStatus
  <2>1. queue = <<>> /\ req.id = issued /\ Committed
    BY <1>5, <1>10 DEF RestoreManifest, RestoreStatus, Accept, Registers
  <2>2. /\ UNCHANGED <<queue, conn, issued, req, live>>
        /\ phase' \in {"restoring_status", "replying"}
    BY <1>0, <1>10 DEF RestoreManifest, RestoreStatus, Fails, Answers
  <2>3. Committed'
    BY <1>2, <2>1, <2>2 DEF Committed
  <2>4. Stays
    BY <2>1, <2>2, <2>3 DEF Asking, Registers
  <2> QED
    BY <1>1, <2>3, <2>4
<1>11. CASE Reply
  <2>1. /\ queue = <<>> /\ req.id = issued
        /\ answer = "failed" => Committed
        /\ answer \in {"applied", "failed"}
    BY <1>3, <1>5, <1>11 DEF Reply, Accept, Registers, TypeOK
  <2>2. UNCHANGED <<queue, live>> /\ phase' = "idle" /\ conn'[m].state = answer
    BY <1>1, <1>3, <1>11, <2>1 DEF Reply, TypeOK
  <2>3. Quiet' /\ (answer = "failed" => Committed')
    BY <1>2, <2>1, <2>2 DEF Quiet, Committed
  <2> QED
    BY <1>1, <2>1, <2>2, <2>3
<1> QED
  BY <1>4, <1>6, <1>7, <1>8, <1>9, <1>10, <1>11 DEF Work

LEMMA WorkFollowing ==
    ASSUME Faults \cap Unseen = {}, Known, Following, Filing, Work, UNCHANGED mvars
    PROVE  Following' /\ Filing'
<1>1. PICK m \in Managers :
          /\ pc[m] = "waiting" /\ owner = m
          /\ \/ conn'[m] = conn[m] /\ conn[m].state = "open" /\ Asking'
             \/ conn'[m].state = "applied" /\ Quiet'
             \/ conn'[m].state = "failed" /\ Quiet' /\ Committed'
  BY WorkFollows
<1>2. UNCHANGED <<db, txn, owner, pc, previous>> /\ owner # Absent
  BY <1>1, AbsentAssumption DEF mvars, Managers
<1>3. \A n \in Managers : pc[n] # "idle" => n = m
  BY <1>1 DEF Known, AllStages, Stage
<1>4. Follows(m)'
  BY <1>1, <1>2 DEF Follows
<1>5. expected' = expected
  BY DEF Work, Accept, Load, SyncConf, Verify, Undo, RecordManifest, RecordStatus,
         Unwind, RestoreManifest, RestoreStatus, Reply
<1>6. Filing'
  BY <1>2, <1>5 DEF Filing, FilesAt, Desired
<1>7. Following'
  BY <1>1, <1>2, <1>3, <1>4 DEF Following
<1> QED
  BY <1>6, <1>7

LEMMA WorldFollowing ==
    ASSUME Faults \cap Unseen = {}, Known, Following, Filing, World, UNCHANGED mvars
    PROVE  Following' /\ Filing'
<1>1. /\ UNCHANGED <<expected, queue, conn, issued, phase, req, base, cand, answer>>
      /\ ManagedPart(live') = ManagedPart(live)
  BY WorldUnmanaged, Seen, Honest DEF cvars, Known
<1>2. UNCHANGED <<db, txn, owner, pc, previous>>
  BY DEF mvars
<1>3. Committed' <=> Committed
  BY <1>1, <1>2 DEF Committed, Serves, Desired
<1>4. Proposed' <=> Proposed
  BY <1>1, <1>2 DEF Proposed, Serves, Desired
<1>5. Registers' <=> Registers
  BY <1>1, <1>2, <1>3, <1>4 DEF Registers, Desired
<1>6. Asking' <=> Asking
  BY <1>1, <1>3, <1>5 DEF Asking
<1>7. Following'
  BY <1>1, <1>2, <1>3, <1>6 DEF Following, Follows, Quiet
<1>8. Filing'
  BY <1>1, <1>2 DEF Filing, FilesAt, Desired
<1> QED
  BY <1>7, <1>8

-----------------------------------------------------------------------------
(* Again a manager's step is about its own stage only.                     *)
LEMMA OwnFollows ==
    ASSUME Known, NEW m \in Managers, NEW stage, Goes(m, stage),
           owner \in {m, Absent}, pc[m] # "idle" \/ owner = Absent
    PROVE  /\ pc'[m] = stage
           /\ \A n \in Managers \ {m} : pc'[n] = "idle" /\ owner # n
BY OneAtWork, AbsentAssumption DEF Goes, Known, RowsInv, LiveTypeOK, Managers

LEMMA AtWork ==
    ASSUME Known, Following, NEW m \in Managers, pc[m] # "idle"
    PROVE  owner = m /\ owner # Absent /\ Follows(m)
BY AbsentAssumption DEF Known, AllStages, Stage, Following, Managers

LEMMA UpdateDesired ==
    ASSUME NEW u \in Users, NEW q \in Quotas, db \in Rows
    PROVE  Desired(Updated(u, u \in db.enabled, q)) = Desired(db)
<1> DEFINE rows == Updated(u, u \in db.enabled, q)
<1>1. rows.devices = db.devices
  BY DEF Updated, Rows
<1>2. rows.enabled = db.enabled
  BY DEF Updated, Rows
<1> QED
  BY <1>1, <1>2 DEF Desired

LEMMA OperationFollowing ==
    ASSUME Known, Following, Filing, NEW m \in Managers, Operation(m)
    PROVE  Following' /\ Filing'
<1>1. ASSUME NEW rows, Begin(m, rows) PROVE Following' /\ Filing'
  <2>1. /\ owner = Absent /\ owner' = m /\ m # Absent /\ Goes(m, "reading")
        /\ UNCHANGED <<expected, queue, live, phase, db, previous>>
    BY <1>1, AbsentAssumption DEF Begin, vars, Managers
  <2>2. pc'[m] = "reading" /\ \A n \in Managers \ {m} : pc'[n] = "idle"
    BY <2>1, OwnFollows
  <2>3. Quiet /\ Committed /\ Filed(expected, Desired(db))
    BY <2>1 DEF Following, Filing
  <2>4. Quiet' /\ Committed' /\ Filed(expected, Desired(db))'
    BY <2>1, <2>3 DEF Quiet, Committed, Filed, Desired
  <2>5. Follows(m)' /\ FilesAt(m)'
    BY <2>2, <2>4 DEF Follows, FilesAt
  <2> QED
    BY <2>1, <2>2, <2>5 DEF Following, Filing
<1>2. CASE UpdateQuota(m)
  <2>1. PICK u \in Users, q \in Quotas : db' = Updated(u, u \in db.enabled, q)
    BY <1>2 DEF UpdateQuota
  <2>2. Desired(db)' = Desired(db)
    BY <2>1, UpdateDesired DEF Known, RowsInv, LiveTypeOK, Desired
  <2>3. owner = Absent /\ UNCHANGED <<expected, queue, live, phase, owner, pc>>
    BY <1>2 DEF UpdateQuota, vars
  <2>4. \A n \in Managers : owner # n /\ pc'[n] = "idle"
    BY <1>2, <2>3, OneAtWork, AbsentAssumption DEF UpdateQuota, Known, Managers
  <2>5. Quiet' /\ Committed' /\ Filed(expected, Desired(db))'
    BY <2>2, <2>3 DEF Following, Filing, Quiet, Committed, Filed
  <2> QED
    BY <2>3, <2>4, <2>5 DEF Following, Filing
<1> QED
  BY <1>1, <1>2 DEF Operation, CreateDevice, ResetDevice, DeleteDevice, UpdateUser,
                    ReconcileAll

(* The manager goes on, or ends.                                           *)
LEMMA GoesOn ==
    ASSUME Known, Following, NEW m \in Managers, NEW stage, Goes(m, stage),
           pc[m] # "idle", stage # "idle", owner' = owner, Follows(m)', FilesAt(m)'
    PROVE  Following' /\ Filing'
<1>1. owner = m /\ owner # Absent
  BY AtWork
<1>2. pc'[m] = stage /\ \A n \in Managers \ {m} : pc'[n] = "idle" /\ owner # n
  BY <1>1, OwnFollows
<1> QED
  BY <1>1, <1>2 DEF Following, Filing

LEMMA Ends ==
    ASSUME Known, Following, NEW m \in Managers, Goes(m, "idle"), pc[m] # "idle",
           owner' = Absent, Quiet', Committed', Filed(expected, Desired(db))'
    PROVE  Following' /\ Filing'
<1>1. owner = m
  BY AtWork
<1>2. \A n \in Managers : pc'[n] = "idle" /\ owner' # n
  BY <1>1, OwnFollows, AbsentAssumption DEF Managers
<1> QED
  BY <1>2 DEF Following, Filing

LEMMA ConnectFollowing ==
    ASSUME Known, Following, Filing, NEW m \in Managers, Connect(m)
    PROVE  Following' /\ Filing'
<1>1. pc[m] = "connecting" /\ Goes(m, "waiting")
  BY DEF Connect
<1>2. owner = m /\ Quiet /\ Committed /\ FilesAt(m)
  BY <1>1, AtWork DEF Follows, Filing
<1> DEFINE r == [client |-> m, id |-> issued + 1, digest |-> payload[m]]
<1>3. /\ UNCHANGED <<expected, live, phase, db, txn, owner, previous>>
      /\ issued' = issued + 1 /\ queue' = Append(queue, r)
      /\ conn'[m].state = "open"
  BY DEF Connect, ClientConnects, Managers, Known, TypeOK
<1>4. queue' = <<r>>
  BY <1>2, <1>3 DEF Quiet
<1>5. Len(queue') = 1 /\ queue'[1].id = issued'
  BY <1>3, <1>4
<1>6. Committed'
  BY <1>2, <1>3 DEF Committed, Desired
<1>7. Asking'
  BY <1>2, <1>3, <1>5, <1>6 DEF Asking, Quiet
<1>8. pc'[m] = "waiting"
  BY <1>1, <1>2, OwnFollows
<1>9. Follows(m)' /\ FilesAt(m)'
  BY <1>1, <1>2, <1>3, <1>7, <1>8 DEF Follows, FilesAt, Filed, Desired
<1> QED
  BY <1>1, <1>3, <1>9, GoesOn

LEMMA ProgressFollowing ==
    ASSUME Faults \cap Unseen = {}, Known, Following, Filing, NEW m \in Managers,
           Progress(m) \/ TimesOut(m) \/ CommitFails(m) \/ ManagerCrashes(m)
    PROVE  Following' /\ Filing'
<1>0. {"timeout", "manager_crash", "commit"} \cap Faults = {}
  BY Seen
<1>1. ASSUME NEW stage \in Stages \ {"idle", "waiting"}, Goes(m, stage), pc[m] # "idle",
             UNCHANGED <<queue, live, phase, db, txn, owner>>,
             Quiet, stage # "committing" => Committed, FilesAt(m)'
      PROVE  Following' /\ Filing'
  <2>1. pc'[m] = stage
    BY <1>1, AtWork, OwnFollows
  <2>2. Quiet' /\ (Committed => Committed')
    BY <1>1 DEF Quiet, Committed, Desired
  <2>3. Follows(m)'
    BY <1>1, <2>1, <2>2 DEF Follows
  <2> QED
    BY <1>1, <2>3, GoesOn
<1>2. ASSUME pc[m] # "idle" PROVE owner = m /\ Follows(m) /\ FilesAt(m) /\ Stage(m)
  BY <1>2, AtWork DEF Filing, Known, AllStages
<1>3. ASSUME NEW stage, Goes(m, stage), pc[m] # "idle" PROVE pc'[m] = stage
  BY <1>3, AtWork, OwnFollows
<1>4. CASE ReadPrevious(m)
  <2>1. /\ pc[m] = "reading" /\ Goes(m, "rendering") /\ previous'[m] = expected
        /\ UNCHANGED <<queue, live, phase, db, txn, owner, expected>>
    BY <1>4 DEF ReadPrevious, vars, Known, RowsInv, LiveTypeOK
  <2>2. FilesAt(m)' /\ Quiet /\ Committed
    BY <1>2, <1>3, <2>1 DEF FilesAt, Filed, Follows, Desired
  <2> QED
    BY <1>1, <2>1, <2>2 DEF Stages
<1>5. CASE Render(m)
  <2>1. /\ pc[m] = "rendering" /\ Goes(m, "writing")
        /\ UNCHANGED <<queue, live, phase, db, txn, owner, expected, previous>>
    BY <1>5 DEF Render, vars
  <2>2. FilesAt(m)' /\ Quiet /\ Committed
    BY <1>2, <1>3, <2>1 DEF FilesAt, Filed, Follows, Desired
  <2> QED
    BY <1>1, <2>1, <2>2 DEF Stages
<1>6. CASE WriteExpected(m)
  <2>1. /\ pc[m] = "writing"
        /\ UNCHANGED <<queue, live, phase, db, txn, owner, previous>>
        /\ \/ Goes(m, "connecting") /\ expected' = payload[m]
           \/ Goes(m, "failing") /\ "expected_write" \in Faults
    BY <1>6 DEF WriteExpected, ClientWrites
  <2>2. payload[m] = Desired(txn)
    BY <1>2, <2>1 DEF Stage
  <2>3. FilesAt(m)' /\ Quiet /\ Committed
    BY <1>2, <1>3, <2>1, <2>2 DEF FilesAt, Filed, Follows, Desired
  <2> QED
    BY <1>1, <2>1, <2>3 DEF Stages
<1>7. CASE Connect(m)
  BY <1>7, ConnectFollowing
<1>8. ~ConnectFails(m)
  <2> SUFFICES ASSUME ConnectFails(m) PROVE FALSE
    OBVIOUS
  <2>1. pc[m] = "connecting" /\ phase = "down"
    BY <1>0 DEF ConnectFails
  <2> QED
    BY <1>2, <2>1 DEF Follows, Quiet
<1>9. CASE ReceiveApplied(m)
  <2>1. /\ pc[m] = "waiting" /\ conn[m].state = "applied"
        /\ UNCHANGED <<queue, live, phase, db, txn, owner, expected, previous>>
    BY <1>9 DEF ReceiveApplied, ClientCloses
  <2>2. Goes(m, "committing")
    BY <1>2, <1>9, <2>1 DEF ReceiveApplied, Succeeds
  <2>3. FilesAt(m)' /\ Quiet
    BY <1>2, <1>3, <2>1, <2>2 DEF FilesAt, Filed, Follows, Desired
  <2> QED
    BY <1>1, <2>1, <2>2, <2>3 DEF Stages
<1>10. CASE ReceiveFailure(m)
  <2>1. /\ pc[m] = "waiting" /\ conn[m].state \in {"failed", "eof"} /\ Goes(m, "checking")
        /\ UNCHANGED <<queue, live, phase, db, txn, owner, expected, previous>>
    BY <1>10 DEF ReceiveFailure, ClientCloses
  <2>2. FilesAt(m)' /\ Quiet /\ Committed
    BY <1>2, <1>3, <2>1 DEF FilesAt, Filed, Follows, Desired
  <2> QED
    BY <1>1, <2>1, <2>2 DEF Stages
<1>11. CASE CheckStatus(m)
  <2>1. /\ pc[m] = "checking"
        /\ UNCHANGED <<queue, live, phase, db, txn, owner, expected, previous>>
    BY <1>11 DEF CheckStatus, vars
  <2>2. Goes(m, "committing") \/ Goes(m, "restoring")
    BY <1>2, <1>11, <2>1 DEF CheckStatus, Succeeds
  <2>3. FilesAt(m)' /\ Quiet /\ Committed
    BY <1>2, <1>3, <2>1, <2>2 DEF FilesAt, Filed, Follows, Desired
  <2> QED
    BY <1>1, <2>1, <2>2, <2>3 DEF Stages
<1>12. CASE Restore(m)
  <2>1. /\ pc[m] = "restoring" /\ Goes(m, "failing")
        /\ expected' = previous[m] \/ "expected_write" \in Faults
        /\ UNCHANGED <<queue, live, phase, db, txn, owner, previous>>
    BY <1>12 DEF Restore, ClientWrites
  <2>2. FilesAt(m)' /\ Quiet /\ Committed
    BY <1>2, <1>3, <2>1 DEF FilesAt, Filed, Follows, Desired
  <2> QED
    BY <1>1, <2>1, <2>2 DEF Stages
<1>13. CASE Fail(m)
  <2>1. /\ pc[m] = "failing" /\ Goes(m, "idle") /\ EndTransaction(m)
        /\ UNCHANGED <<queue, live, phase, db, expected>>
    BY <1>13 DEF Fail, vars
  <2>2. owner' = Absent /\ Quiet /\ Committed /\ Filed(expected, Desired(db))
    BY <1>2, <2>1 DEF EndTransaction, Follows, FilesAt
  <2>3. Quiet' /\ Committed' /\ Filed(expected, Desired(db))'
    BY <2>1, <2>2 DEF Quiet, Committed, Filed, Desired
  <2> QED
    BY <2>1, <2>2, <2>3, Ends
<1>14. CASE Commit(m)
  <2>1. /\ pc[m] = "committing" /\ Goes(m, "idle") /\ EndTransaction(m) /\ db' = txn
        /\ UNCHANGED <<queue, live, phase, expected>>
    BY <1>14 DEF Commit, vars
  <2>2. /\ owner' = Absent /\ Quiet /\ Serves(live, Desired(txn))
        /\ Filed(expected, Desired(txn))
    BY <1>2, <2>1 DEF EndTransaction, Follows, FilesAt, Stage, Known, NewestServed
  <2>3. Desired(db)' = Desired(txn)
    BY <2>1 DEF Desired
  <2>4. Quiet' /\ Committed' /\ Filed(expected, Desired(db))'
    BY <2>1, <2>2, <2>3 DEF Quiet, Committed, Filed
  <2> QED
    BY <2>1, <2>2, <2>4, Ends
<1> QED
  BY <1>0, <1>4, <1>5, <1>6, <1>7, <1>8, <1>9, <1>10, <1>11, <1>12, <1>13, <1>14
     DEF Progress, TimesOut, CommitFails, ManagerCrashes

-----------------------------------------------------------------------------
Agreeing == Known /\ Following /\ Filing

LEMMA AgreeingAlways ==
    ASSUME Faults \cap Unseen = {}
    PROVE  LiveSpec => []Agreeing
<1>1. LiveInit => Following /\ Filing
  <2> SUFFICES ASSUME LiveInit PROVE Following /\ Filing
    OBVIOUS
  <2>1. Desired(db) = {}
    BY DEF LiveInit, Desired
  <2>2. Quiet /\ Committed /\ Filed(expected, Desired(db))
    BY <2>1, BootServesNone DEF LiveInit, Init, Quiet, Committed, Filed
  <2>3. \A m \in Managers : pc[m] = "idle" /\ owner # m
    BY AbsentAssumption DEF LiveInit, Managers
  <2> QED
    BY <2>2, <2>3 DEF Following, Filing
<1>2. Known /\ Following /\ Filing /\ [LiveNext]_allvars => Following' /\ Filing'
  <2> SUFFICES ASSUME Known, Following, Filing, [LiveNext]_allvars
               PROVE  Following' /\ Filing'
    OBVIOUS
  <2>1. ASSUME NEW m \in Managers, \/ Operation(m) \/ Progress(m) \/ TimesOut(m)
                                   \/ CommitFails(m) \/ ManagerCrashes(m)
        PROVE  Following' /\ Filing'
    BY <2>1, OperationFollowing, ProgressFollowing
  <2>2. CASE UNCHANGED allvars
    BY <2>2 DEF allvars, vars, mvars, Following, Follows, Filing, FilesAt, Filed, Quiet,
                Committed, Proposed, Asking, Registers, Desired
  <2> QED
    BY <2>1, <2>2, WorkFollowing, WorldFollowing DEF LiveNext
<1>3. LiveSpec => []Known
  BY Seen, KnownAlways
<1> QED
  BY <1>1, <1>2, <1>3, PTL DEF LiveSpec, Agreeing

LEMMA AgreeAtRest ==
    Agreeing /\ Quiescent => Serves(live, Desired(db)) /\ Filed(expected, Desired(db))
<1> SUFFICES ASSUME Agreeing, Quiescent
             PROVE  Serves(live, Desired(db)) /\ Filed(expected, Desired(db))
  OBVIOUS
<1>1. owner = Absent
  BY DEF Agreeing, Following, Quiescent, Known, RowsInv, LiveTypeOK
<1> QED
  BY <1>1 DEF Agreeing, Following, Filing, Committed

(* When nobody is at work, the interface serves the committed devices:     *)
(* every failed operation has been undone, whatever becomes of the file.   *)
THEOREM RestingServed ==
    ASSUME Faults \cap Unseen = {}
    PROVE  LiveSpec => [](Quiescent => Serves(live, Desired(db)))
BY AgreeAtRest, AgreeingAlways, PTL

(* The expected-peer file agrees with both, if it can be written.          *)
THEOREM RestingAgree ==
    ASSUME Faults \cap (Unseen \cup {"expected_write"}) = {}
    PROVE  LiveSpec => []QuiescentAgreement
<1>1. Faults \cap Unseen = {} /\ "expected_write" \notin Faults
  OBVIOUS
<1>2. Agreeing => QuiescentAgreement
  BY <1>1, AgreeAtRest DEF QuiescentAgreement, Filed
<1> QED
  BY <1>1, <1>2, AgreeingAlways, PTL

-----------------------------------------------------------------------------
Proposal == IF owner = Absent THEN Absent ELSE Desired(txn)

(* In terms of PeerPromise: what the interface holds at each stage.        *)
Mapping ==
    /\ Desired(db) \in SUBSET Peer
    /\ owner # Absent => /\ txn \in Rows /\ Desired(txn) \in SUBSET Peer
                         /\ Proposal = Desired(txn) /\ Proposal # Absent
    /\ Committed => PeersOf(live) = Desired(db)
    /\ Proposed /\ owner # Absent => PeersOf(live) = Desired(txn)

LEMMA Mapped == Agreeing => Mapping
<1> SUFFICES ASSUME Agreeing PROVE Mapping
  OBVIOUS
<1>1. db \in Rows /\ (owner # Absent => txn \in Rows)
  BY DEF Agreeing, Known, RowsInv, LiveTypeOK, Locking
<1>2. Desired(db) \in SUBSET Peer /\ (owner # Absent => Desired(txn) \in SUBSET Peer)
  BY <1>1, DesiredType
<1> QED
  BY <1>1, <1>2, RowsAssumption, ServedPeers DEF Mapping, Proposal, Committed, Proposed

LEMMA PromiseStep ==
    ASSUME Faults \cap Unseen = {}, Agreeing, Agreeing', [LiveNext]_allvars
    PROVE  [Promise!Next]_(Promise!pvars)
<1> USE DEF Promise!pvars, Proposal
<1>0. Mapping /\ Mapping'
  BY Mapped, PTL
<1>1. ASSUME UNCHANGED <<Desired(db), Proposal, PeersOf(live)>>
      PROVE  UNCHANGED Promise!pvars
  BY <1>1
<1>2. CASE Work /\ UNCHANGED mvars
  <2>1. owner # Absent /\ (live' = live \/ Committed' \/ Proposed')
    BY <1>2, WorkFollows, AbsentAssumption DEF Agreeing, Managers
  <2>2. UNCHANGED <<Desired(db), Desired(txn), owner>>
    BY <1>2 DEF mvars, Desired
  <2>3. \/ PeersOf(live)' = PeersOf(live) \/ PeersOf(live)' = Desired(db)
        \/ PeersOf(live)' = Desired(txn)
    <3>1. owner' # Absent
      BY <2>1, <2>2
    <3>2. /\ Committed' => PeersOf(live)' = Desired(db)'
          /\ Proposed' => PeersOf(live)' = Desired(txn)'
      BY <1>0, <3>1 DEF Mapping
    <3>3. live' = live => PeersOf(live)' = PeersOf(live)
      BY DEF PeersOf
    <3> QED
      BY <2>1, <2>2, <3>2, <3>3
  <2>4. Proposal = Desired(txn) /\ Proposal # Absent /\ Proposal' = Proposal
    BY <1>0, <2>1, <2>2 DEF Mapping
  <2> QED
    BY <2>2, <2>3, <2>4 DEF Promise!Next, Promise!Install, Promise!Revert
<1>3. CASE World /\ UNCHANGED mvars
  <2>1. ManagedPart(live') = ManagedPart(live)
    BY <1>3, WorldUnmanaged, Seen, Honest DEF Agreeing, Known
  <2>2. PeersOf(live)' = PeersOf(live)
    BY <2>1, ManagedPeers
  <2>3. UNCHANGED <<Desired(db), Proposal>>
    BY <1>3 DEF mvars, Desired
  <2> QED
    BY <1>1, <2>2, <2>3
<1>4. ASSUME NEW m \in Managers, NEW rows, Begin(m, rows)
      PROVE  [Promise!Next]_(Promise!pvars)
  <2>1. /\ owner = Absent /\ owner' # Absent
        /\ UNCHANGED <<Desired(db), PeersOf(live)>>
    BY <1>4, AbsentAssumption DEF Begin, vars, Managers, Desired, PeersOf
  <2>2. Proposal = Absent /\ Proposal' \in SUBSET Peer /\ Proposal' # Absent
    BY <1>0, <2>1 DEF Mapping
  <2> QED
    BY <2>1, <2>2 DEF Promise!Next, Promise!Propose
<1>5. ASSUME NEW m \in Managers, UpdateQuota(m)
      PROVE  [Promise!Next]_(Promise!pvars)
  <2>1. PICK u \in Users, q \in Quotas : db' = Updated(u, u \in db.enabled, q)
    BY <1>5 DEF UpdateQuota
  <2>2. Desired(db)' = Desired(db)
    BY <2>1, UpdateDesired DEF Agreeing, Known, RowsInv, LiveTypeOK, Desired
  <2>3. UNCHANGED <<Proposal, PeersOf(live)>>
    BY <1>5 DEF UpdateQuota, vars, Desired, PeersOf
  <2> QED
    BY <1>1, <2>2, <2>3
<1>6. ASSUME NEW m \in Managers, Fail(m)
      PROVE  [Promise!Next]_(Promise!pvars)
  <2>1. owner = m /\ owner # Absent /\ Committed
    BY <1>6, AtWork DEF Fail, Agreeing, Follows
  <2>2. /\ owner' = Absent
        /\ UNCHANGED <<Desired(db), PeersOf(live)>>
    BY <1>6, <2>1 DEF Fail, EndTransaction, vars, Desired, PeersOf
  <2>3. PeersOf(live) = Desired(db) /\ Proposal # Absent /\ Proposal' = Absent
    BY <1>0, <2>1, <2>2 DEF Mapping
  <2> QED
    BY <2>2, <2>3 DEF Promise!Next, Promise!Withdraw
<1>7. ASSUME NEW m \in Managers, Commit(m)
      PROVE  [Promise!Next]_(Promise!pvars)
  <2>1. owner = m /\ owner # Absent /\ Proposed
    BY <1>7, AtWork DEF Commit, Agreeing, Known, AllStages, Stage, NewestServed, Proposed
  <2>2. owner' = Absent /\ Desired(db)' = Desired(txn) /\ UNCHANGED PeersOf(live)
    BY <1>7, <2>1 DEF Commit, EndTransaction, vars, Desired, PeersOf
  <2>3. /\ PeersOf(live) = Desired(txn) /\ Proposal = Desired(txn)
        /\ Proposal # Absent /\ Proposal' = Absent
    BY <1>0, <2>1, <2>2 DEF Mapping
  <2> QED
    BY <2>2, <2>3 DEF Promise!Next, Promise!Accept
<1>8. CASE UNCHANGED <<live, db, txn, owner>>
  BY <1>1, <1>8 DEF Desired, PeersOf
<1>9. ASSUME NEW m \in Managers,
             \/ Operation(m) \/ Progress(m) \/ TimesOut(m)
             \/ CommitFails(m) \/ ManagerCrashes(m)
      PROVE  \/ UNCHANGED <<live, db, txn, owner>>
             \/ Fail(m) \/ Commit(m) \/ UpdateQuota(m) \/ \E rows : Begin(m, rows)
  <2>1. ~CommitFails(m) /\ ~ManagerCrashes(m)
    BY Seen DEF CommitFails, ManagerCrashes
  <2>2. CASE Operation(m)
    BY <2>2 DEF Operation, CreateDevice, ResetDevice, DeleteDevice, UpdateUser, ReconcileAll
  <2>3. CASE Progress(m) \/ TimesOut(m)
    BY <2>3 DEF Progress, TimesOut, ReadPrevious, Render, WriteExpected, Connect,
                ConnectFails, ReceiveApplied, ReceiveFailure, CheckStatus, Restore,
                ClientWrites, ClientConnects, ClientCloses, vars
  <2> QED
    BY <1>9, <2>1, <2>2, <2>3
<1>10. UNCHANGED allvars => UNCHANGED <<live, db, txn, owner>>
  BY DEF allvars, vars, mvars
<1> QED
  BY <1>2, <1>3, <1>4, <1>5, <1>6, <1>7, <1>8, <1>9, <1>10 DEF LiveNext

(* The composed system implements the abstract specification: a proposed   *)
(* table is on the interface before it is accepted, and is taken off       *)
(* before it is withdrawn.                                                 *)
THEOREM PeersFollow ==
    ASSUME Faults \cap Unseen = {}
    PROVE  LiveSpec => PeersFollowTable
<1>1. LiveInit => Promise!Init
  <2> SUFFICES ASSUME LiveInit PROVE Promise!Init
    OBVIOUS
  <2>1. Desired(db) = {} /\ live = Boot /\ owner = Absent
    BY DEF LiveInit, Init, Desired
  <2>2. PeersOf(live) = {}
    BY <2>1, BootServesNone, ServedPeers
  <2> QED
    BY <2>1, <2>2 DEF Promise!Init
<1>2. Agreeing /\ Agreeing' /\ [LiveNext]_allvars => [Promise!Next]_(Promise!pvars)
  BY PromiseStep
<1> QED
  BY <1>1, <1>2, AgreeingAlways, PTL DEF LiveSpec, PeersFollowTable, Promise!Spec

=============================================================================
