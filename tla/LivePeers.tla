----------------------------- MODULE LivePeers ------------------------------
(***************************************************************************)
(* Managers (Web workers, CLI calls: wg_manager/services.py with           *)
(* adapter.py's ReconcilerAdapter) changing devices against the one        *)
(* SQLite database and the one reconciler.  A device operation is a write  *)
(* transaction: BEGIN IMMEDIATE, change rows, write the expected-peer      *)
(* file, ask the reconciler, COMMIT.  When the live apply succeeded and    *)
(* the transaction did not, the manager reconciles once more from the      *)
(* committed rows, holding no lock.                                        *)
(*                                                                         *)
(* A device is its tunnel address, its key and its owner.  The other       *)
(* columns (names, policy, pending resets) do not reach the interface.     *)
(***************************************************************************)
EXTENDS Reconciler

CONSTANTS
    Users,
    Admins,        \* the users whose role is admin
    Quotas,        \* device quotas an administrator may set
    Pool,          \* assignable addresses: no network, gateway or broadcast
    Reserved,      \* WG_RESERVED_IPS
    MaxOperations  \* bound on the operations of a behaviour

ASSUME RegistryAssumption == /\ Admins \subseteq Users
                             /\ Quotas \subseteq Nat
                             /\ Pool \subseteq Addresses
                             /\ Addresses \subseteq Nat

(* Managers may render any set of peers.                                   *)
ASSUME RenderedAssumption == Payloads = SUBSET Peer

(* One request of the operation and one of its compensation.               *)
ASSUME EnoughRequests == MaxOperations \in Nat /\ MaxRequests = 2 * MaxOperations

VARIABLES
    db,        \* the committed rows
    txn,       \* the rows as the open write transaction sees them
    owner,     \* the manager holding SQLite's write lock
    begun,     \* number of operations begun
    drawn,     \* keys generated so far
    pc,        \* pc[m]: where manager m is
    previous,  \* previous[m]: the expected file it read before writing its own
    payload    \* payload[m]: the expected file it writes

mvars == <<db, txn, owner, begun, drawn, pc, previous, payload>>
allvars == <<vars, mvars>>

Managers == Clients

Device == [ip : Pool, key : ManagedKeys, user : Users]

Rows == [devices : SUBSET Device, enabled : SUBSET Users, quota : [Users -> Quotas]]

(* No rows and no table of peers stand for the absence of a transaction.   *)
ASSUME RowsAssumption == Absent \notin Rows /\ \A S \in SUBSET Peer : S # Absent

Stages == {"idle", "reading", "rendering", "writing", "connecting", "waiting",
           "checking", "restoring", "failing", "committing"}

LiveTypeOK ==
    /\ db \in Rows
    /\ txn \in Rows \cup {Absent}
    /\ owner \in Managers \cup {Absent}
    /\ begun \in 0 .. MaxOperations
    /\ drawn \subseteq ManagedKeys
    /\ pc \in [Managers -> Stages]
    /\ previous \in [Managers -> Payload]
    /\ payload \in [Managers -> SUBSET Peer]

(* Mutation of Desired: whole rows are rendered instead of peers.          *)
DesiredRows(rows) == {d \in rows.devices : d.user \in rows.enabled}

(* desired_state: the devices of enabled users.                            *)
Desired(rows) == {[key |-> d.key, ip |-> d.ip] :
                     d \in {e \in rows.devices : e.user \in rows.enabled}}

LiveInit ==
    /\ Init
    /\ db \in {[devices |-> {}, enabled |-> Users, quota |-> q] : q \in [Users -> Quotas]}
    /\ txn = Absent
    /\ owner = Absent
    /\ begun = 0
    /\ drawn = {}
    /\ pc = [m \in Managers |-> "idle"]
    /\ previous = [m \in Managers |-> Absent]
    /\ payload = [m \in Managers |-> {}]

-----------------------------------------------------------------------------
(* Mutation of FreeAddresses: only live devices keep their address.        *)
FreeAddressesOfLive(rows) == Pool \ (Reserved \cup {p.ip : p \in Desired(rows)})

(* The first address of the pool that is neither reserved nor used.        *)
FreeAddresses(rows) == Pool \ (Reserved \cup {d.ip : d \in rows.devices})

AllocateIp(rows) == CHOOSE a \in FreeAddresses(rows) :
                        \A b \in FreeAddresses(rows) : a <= b

DevicesOf(rows, u) == {d \in rows.devices : d.user = u}

Goes(m, stage) == pc' = [pc EXCEPT ![m] = stage]

(* BEGIN IMMEDIATE and the row changes, up to the call of _reconcile.      *)
Begin(m, rows) ==
    /\ pc[m] = "idle"
    /\ owner = Absent
    /\ begun < MaxOperations
    /\ begun' = begun + 1
    /\ owner' = m
    /\ txn' = rows
    /\ Goes(m, "reading")
    /\ UNCHANGED <<vars, db, previous, payload>>

(* generate_keypair: never the same key twice.                             *)
DrawsKey(k) == k \in ManagedKeys \ drawn /\ drawn' = drawn \cup {k}

CreateDevice(m) ==
    \E u \in db.enabled, k \in ManagedKeys :
        /\ Cardinality(DevicesOf(db, u)) < db.quota[u]
        /\ FreeAddresses(db) # {}
        /\ DrawsKey(k)
        /\ Begin(m, [db EXCEPT !.devices = @ \cup
                        {[ip |-> AllocateIp(db), key |-> k, user |-> u]}])

(* reset_device and activate_prepared_device_reset: a new key for the      *)
(* address.                                                                *)
ResetDevice(m) ==
    \E d \in db.devices, k \in ManagedKeys :
        /\ DrawsKey(k)
        /\ Begin(m, [db EXCEPT !.devices = (@ \ {d}) \cup {[d EXCEPT !.key = k]}])

DeleteDevice(m) ==
    \E d \in db.devices :
        /\ Begin(m, [db EXCEPT !.devices = @ \ {d}])
        /\ UNCHANGED drawn

(* Disabling an administrator needs a second enabled one.                  *)
MayUpdate(u, enable) ==
    u \in Admins /\ ~enable => Cardinality(Admins \cap db.enabled) > 1

Updated(u, enable, q) ==
    [db EXCEPT !.enabled = IF enable THEN @ \cup {u} ELSE @ \ {u}, !.quota[u] = q]

(* update_user reconciles only when enabled changes ...                    *)
UpdateUser(m) ==
    \E u \in Users, q \in Quotas :
        /\ MayUpdate(u, u \notin db.enabled)
        /\ Begin(m, Updated(u, u \notin db.enabled, q))
        /\ UNCHANGED drawn

(* ... and otherwise commits the quota at once.                            *)
UpdateQuota(m) ==
    \E u \in Users, q \in Quotas :
        /\ pc[m] = "idle"
        /\ owner = Absent
        /\ q # db.quota[u]
        /\ MayUpdate(u, u \in db.enabled)
        /\ db' = Updated(u, u \in db.enabled, q)
        /\ UNCHANGED <<vars, txn, owner, begun, drawn, pc, previous, payload>>

(* reconcile_desired_state: wg-manager reconcile, also ExecStartPre of the *)
(* Web unit.  Its transaction changes no device.                           *)
ReconcileAll(m) == Begin(m, db) /\ UNCHANGED drawn

-----------------------------------------------------------------------------
(* ReconcilerAdapter.reconcile keeps the file it is about to replace.      *)
ReadPrevious(m) ==
    /\ pc[m] = "reading"
    /\ previous' = [previous EXCEPT ![m] = expected]
    /\ Goes(m, "rendering")
    /\ UNCHANGED <<vars, db, txn, owner, begun, drawn, payload>>

(* The lock holder renders its own uncommitted rows, a compensation the    *)
(* committed ones.                                                         *)
Render(m) ==
    /\ pc[m] = "rendering"
    /\ payload' = [payload EXCEPT ![m] = Desired(IF owner = m THEN txn ELSE db)]
    /\ Goes(m, "writing")
    /\ UNCHANGED <<vars, db, txn, owner, begun, drawn, previous>>

(* FileAdapter.reconcile, outside the adapter's try: if it raises, the     *)
(* previous file is not put back.                                          *)
WriteExpected(m) ==
    /\ pc[m] = "writing"
    /\ \/ ClientWrites(payload[m]) /\ Goes(m, "connecting")
       \/ /\ "expected_write" \in Faults
          /\ ClientWrites(payload[m]) \/ ClientWrites(expected)
          /\ Goes(m, "failing")
    /\ UNCHANGED <<db, txn, owner, begun, drawn, previous, payload>>

Connect(m) ==
    /\ pc[m] = "connecting"
    /\ ClientConnects(m, payload[m])
    /\ Goes(m, "waiting")
    /\ UNCHANGED <<db, txn, owner, begun, drawn, previous, payload>>

(* Nobody listens, or the backlog stays full until the timeout.  The       *)
(* request id was never sent, so no status file can carry it.              *)
ConnectFails(m) ==
    /\ pc[m] = "connecting"
    /\ phase = "down" \/ (Len(queue) = Backlog /\ "timeout" \in Faults)
    /\ Goes(m, "restoring")
    /\ UNCHANGED <<vars, db, txn, owner, begun, drawn, previous, payload>>

(* The adapter returns: the lock holder goes on to its audit record and    *)
(* COMMIT, a compensation is done.                                         *)
Succeeds(m) == Goes(m, IF owner = m THEN "committing" ELSE "idle")

(* Mutation of ReceiveApplied: any answer counts as applied.               *)
ReceiveAny(m) ==
    /\ pc[m] = "waiting"
    /\ conn[m].state \in {"applied", "failed"}
    /\ ClientCloses(m)
    /\ Succeeds(m)
    /\ UNCHANGED <<db, txn, owner, begun, drawn, previous, payload>>

ReceiveApplied(m) ==
    /\ pc[m] = "waiting"
    /\ conn[m].state = "applied"
    /\ ClientCloses(m)
    /\ Succeeds(m)
    /\ UNCHANGED <<db, txn, owner, begun, drawn, previous, payload>>

(* Mutation of ReceiveFailure: only an answer ends the wait.               *)
ReceiveRefusal(m) ==
    /\ pc[m] = "waiting"
    /\ conn[m].state = "failed"
    /\ ClientCloses(m)
    /\ Goes(m, "checking")
    /\ UNCHANGED <<db, txn, owner, begun, drawn, previous, payload>>

(* A "failed" answer, or a connection that broke.                          *)
ReceiveFailure(m) ==
    /\ pc[m] = "waiting"
    /\ conn[m].state \in {"failed", "eof"}
    /\ ClientCloses(m)
    /\ Goes(m, "checking")
    /\ UNCHANGED <<db, txn, owner, begun, drawn, previous, payload>>

(* WG_RECONCILE_TIMEOUT_SECONDS without an answer; the request stays where *)
(* it is.                                                                  *)
TimesOut(m) ==
    /\ "timeout" \in Faults
    /\ pc[m] = "waiting"
    /\ conn[m].state = "open"
    /\ ClientCloses(m)
    /\ Goes(m, "checking")
    /\ UNCHANGED <<db, txn, owner, begun, drawn, previous, payload>>

(* Mutation of CheckStatus: the request id is not compared.                *)
CheckDigest(m) ==
    /\ pc[m] = "checking"
    /\ IF status # Absent /\ status.digest = payload[m]
       THEN Succeeds(m) ELSE Goes(m, "restoring")
    /\ UNCHANGED <<vars, db, txn, owner, begun, drawn, previous, payload>>

(* _applied_status_matches: was the request applied although its answer    *)
(* did not arrive?                                                         *)
CheckStatus(m) ==
    /\ pc[m] = "checking"
    /\ IF status = [digest |-> payload[m], id |-> conn[m].id]
       THEN Succeeds(m) ELSE Goes(m, "restoring")
    /\ UNCHANGED <<vars, db, txn, owner, begun, drawn, previous, payload>>

(* Mutation of Restore: the expected file stays as it was written.         *)
RestoreSkipped(m) ==
    /\ pc[m] = "restoring"
    /\ Goes(m, "failing")
    /\ UNCHANGED <<vars, db, txn, owner, begun, drawn, previous, payload>>

Restore(m) ==
    /\ pc[m] = "restoring"
    /\ \/ ClientWrites(previous[m])
       \/ "expected_write" \in Faults /\ ClientWrites(expected)
    /\ Goes(m, "failing")
    /\ UNCHANGED <<db, txn, owner, begun, drawn, previous, payload>>

-----------------------------------------------------------------------------
EndTransaction(m) == IF owner = m THEN owner' = Absent /\ txn' = Absent
                                  ELSE UNCHANGED <<owner, txn>>

(* The DomainError reaches the transaction, which rolls back; nothing was  *)
(* applied as far as the manager knows, so nothing is compensated.         *)
Fail(m) ==
    /\ pc[m] = "failing"
    /\ EndTransaction(m)
    /\ Goes(m, "idle")
    /\ UNCHANGED <<vars, db, begun, drawn, previous, payload>>

Commit(m) ==
    /\ pc[m] = "committing"
    /\ db' = txn
    /\ EndTransaction(m)
    /\ Goes(m, "idle")
    /\ UNCHANGED <<vars, begun, drawn, previous, payload>>

(* The audit insert or COMMIT raises after the live apply: roll back, give *)
(* up the lock, compensate from the committed rows.  Only                  *)
(* reconcile_desired_state, whose rows are the committed ones, does not.   *)
CommitFails(m) ==
    /\ "commit" \in Faults
    /\ pc[m] = "committing"
    /\ EndTransaction(m)
    /\ Goes(m, IF txn = db THEN "idle" ELSE "reading")
    /\ UNCHANGED <<vars, db, begun, drawn, previous, payload>>

(* The process is killed: SQLite rolls back, the kernel closes its socket. *)
ManagerCrashes(m) ==
    /\ "manager_crash" \in Faults
    /\ pc[m] # "idle"
    /\ IF conn[m].state # "closed" THEN ClientCloses(m) ELSE UNCHANGED vars
    /\ EndTransaction(m)
    /\ Goes(m, "idle")
    /\ UNCHANGED <<db, begun, drawn, previous, payload>>

Operation(m) == \/ CreateDevice(m) \/ ResetDevice(m) \/ DeleteDevice(m)
                \/ UpdateUser(m) \/ UpdateQuota(m) \/ ReconcileAll(m)

Progress(m) == \/ ReadPrevious(m) \/ Render(m) \/ WriteExpected(m)
               \/ Connect(m) \/ ConnectFails(m)
               \/ ReceiveApplied(m) \/ ReceiveFailure(m)
               \/ CheckStatus(m) \/ Restore(m) \/ Fail(m) \/ Commit(m)

LiveNext ==
    \/ (Work \/ World) /\ UNCHANGED mvars
    \/ \E m \in Managers : \/ Operation(m) \/ Progress(m) \/ TimesOut(m)
                           \/ CommitFails(m) \/ ManagerCrashes(m)

LiveSpec == LiveInit /\ [][LiveNext]_allvars

(* The reconciler works, and no manager stops in the middle of its code.   *)
LiveFairness == /\ WF_allvars(Work /\ UNCHANGED mvars)
                /\ WF_allvars(Restart /\ UNCHANGED mvars)
                /\ \A m \in Managers : WF_allvars(Progress(m) \/ TimesOut(m))

FairLiveSpec == LiveSpec /\ LiveFairness

-----------------------------------------------------------------------------
(* A manager is about to commit only what the interface serves: the device *)
(* table never runs ahead of the interface, whichever answers were lost,   *)
(* late or refused (services.py 284-294, adapter.py 75-90).                *)
CommitIsLive == \A m \in Managers :
                    pc[m] = "committing" => Serves(live, Desired(txn))

Quiescent == /\ \A m \in Managers : pc[m] = "idle"
             /\ phase = "idle"
             /\ queue = <<>>

(* When nobody is at work the interface serves the committed devices, and  *)
(* so does the expected-peer file, if there has ever been a change: failed *)
(* operations have been undone everywhere, late answers included.          *)
QuiescentAgreement ==
    Quiescent => /\ Serves(live, Desired(db))
                 /\ expected \in {Desired(db)} \cup
                                 (IF Desired(db) = {} THEN {Absent} ELSE {})

Distinct(rows) == \A d, e \in rows.devices : d # e => d.ip # e.ip /\ d.key # e.key

(* No two committed devices share an address or a key, those of disabled   *)
(* users, which no interface shows, included: an address is free again     *)
(* only when its device is deleted (services.py 573-588).                  *)
DistinctDevices == Distinct(db)

(* Every operation ends, committed or not: the socket timeout, the end of  *)
(* the connection or the answer releases the manager and SQLite's lock.    *)
OperationsTerminate == \A m \in Managers : pc[m] # "idle" ~> pc[m] = "idle"

(* Without lost answers and crashes the two processes keep the promise.    *)
PeersOf(c) == {p \in Peer : p.key \in DOMAIN c /\ p.ip \in c[p.key]}

Promise == INSTANCE PeerPromise WITH
               Tables <- SUBSET Peer,
               NoProposal <- Absent,
               table <- Desired(db),
               iface <- PeersOf(live),
               proposal <- IF owner = Absent THEN Absent ELSE Desired(txn)

PeersFollowTable == Promise!Spec
=============================================================================
