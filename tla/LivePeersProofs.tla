-------------------------- MODULE LivePeersProofs ---------------------------
(***************************************************************************)
(* What holds of any number of managers working on one database and one    *)
(* reconciler: to the reconciler they are clients like any other, so that  *)
(* what it promises to arbitrary clients it promises to them; devices keep *)
(* apart; and, where the failures that mislead a manager do not happen,    *)
(* only what the interface serves is committed.                            *)
(***************************************************************************)
EXTENDS LivePeers, ReconcilerFaultProofs, FiniteSetTheorems

(* The write lock and the open transaction.                                *)
Locking ==
    /\ owner = Absent <=> txn = Absent
    /\ \A m \in Managers : pc[m] = "committing" => owner = m

(* Addresses and keys are apart in the committed rows and the open ones,   *)
(* and keys in rows have been drawn.                                       *)
RowsApart(rows) == Distinct(rows) /\ \A d \in rows.devices : d.key \in drawn

RowsInv ==
    /\ LiveTypeOK
    /\ Locking
    /\ RowsApart(db)
    /\ txn # Absent => RowsApart(txn)

-----------------------------------------------------------------------------
(* Every step of a manager is one of a client, or not seen by the          *)
(* reconciler at all.                                                      *)
LEMMA ManagerIsClient ==
    ASSUME TypeOK, LiveTypeOK, NEW m \in Managers,
           \/ Operation(m) \/ Progress(m) \/ TimesOut(m)
           \/ CommitFails(m) \/ ManagerCrashes(m)
    PROVE  Environment \/ UNCHANGED vars
<1>1. \A S \in SUBSET Peer : S \in Payloads
  BY RenderedAssumption
<1>2. payload[m] \in SUBSET Peer /\ previous[m] \in Payload /\ expected \in Payload
  BY DEF LiveTypeOK, TypeOK
<1>3. payload[m] \in Payloads /\ {previous[m], expected} \subseteq Payloads \cup {Absent}
  BY <1>1, <1>2 DEF Payload
<1>4. m \in Clients
  BY DEF Managers
<1>5. CASE Operation(m)
  BY <1>5 DEF Operation, CreateDevice, ResetDevice, DeleteDevice, UpdateUser,
              UpdateQuota, ReconcileAll, Begin
<1>6. CASE ReadPrevious(m) \/ Render(m) \/ ConnectFails(m) \/ CheckStatus(m)
           \/ Fail(m) \/ Commit(m) \/ CommitFails(m)
  BY <1>6 DEF ReadPrevious, Render, ConnectFails, CheckStatus, Fail, Commit, CommitFails
<1>7. CASE WriteExpected(m) \/ Restore(m)
  BY <1>3, <1>7 DEF WriteExpected, Restore, Environment
<1>8. CASE Connect(m)
  BY <1>3, <1>4, <1>8 DEF Connect, Environment
<1>9. CASE ReceiveApplied(m) \/ ReceiveFailure(m) \/ TimesOut(m) \/ ManagerCrashes(m)
  BY <1>4, <1>9 DEF ReceiveApplied, ReceiveFailure, TimesOut, ManagerCrashes, Environment
<1> QED
  BY <1>5, <1>6, <1>7, <1>8, <1>9 DEF Progress

LEMMA StepIsStep ==
    ASSUME TypeOK, LiveTypeOK, [LiveNext]_allvars
    PROVE  [Next]_vars
<1>1. CASE (Work \/ World) /\ UNCHANGED mvars
  BY <1>1 DEF Next
<1>2. CASE UNCHANGED allvars
  BY <1>2 DEF allvars
<1> QED
  BY <1>1, <1>2, ManagerIsClient DEF LiveNext, Next

-----------------------------------------------------------------------------
(* Of the free addresses there is a first one.                             *)
LEMMA FirstAddress ==
    ASSUME NEW rows, FreeAddresses(rows) # {}
    PROVE  AllocateIp(rows) \in FreeAddresses(rows)
<1> DEFINE F == FreeAddresses(rows)
           T == {0 .. a : a \in F}
           R == StrictSubsetOrdering(Nat)
<1>1. F \subseteq Nat
  BY RegistryAssumption DEF FreeAddresses
<1>2. T \subseteq FiniteSubsetsOf(Nat) /\ T # {}
  <2>1. \A a \in F : 0 .. a \in SUBSET Nat /\ IsFiniteSet(0 .. a)
    BY <1>1, FS_Interval
  <2> QED
    BY <2>1 DEF FiniteSubsetsOf
<1>3. IsWellFoundedOn(R, FiniteSubsetsOf(Nat))
  BY FS_StrictSubsetOrderingWellFounded
<1>4. PICK t \in T : \A v \in T : <<v, t>> \notin R
  <2> HIDE DEF T, R
  <2> QED
    BY <1>2, <1>3, WFMin
<1>5. PICK a \in F : t = 0 .. a
  BY <1>4
<1>6. ASSUME NEW b \in F PROVE a <= b
  <2> SUFFICES ASSUME b < a PROVE FALSE
    BY <1>1
  <2>1. 0 .. b \subseteq 0 .. a /\ a \in 0 .. a /\ a \notin 0 .. b
    BY <1>1
  <2>2. 0 .. b \in T /\ 0 .. a \in SUBSET Nat /\ 0 .. b \in SUBSET Nat
    BY <1>1
  <2>3. <<0 .. b, 0 .. a>> \in R
    BY <2>1, <2>2 DEF StrictSubsetOrdering
  <2> QED
    BY <1>4, <1>5, <2>2, <2>3
<1> QED
  BY <1>6 DEF AllocateIp

LEMMA DesiredType ==
    ASSUME NEW rows \in Rows
    PROVE  Desired(rows) \in SUBSET Peer
<1> SUFFICES ASSUME NEW d \in rows.devices
             PROVE  [key |-> d.key, ip |-> d.ip] \in Peer
  BY DEF Desired
<1> QED
  BY RegistryAssumption DEF Rows, Device, Peer

LEMMA UpdatedType ==
    ASSUME db \in Rows, NEW u \in Users, NEW e \in BOOLEAN, NEW q \in Quotas
    PROVE  Updated(u, e, q) \in Rows /\ Updated(u, e, q).devices = db.devices
BY DEF Rows, Updated

(* An operation begins with rows that are apart.                           *)
LEMMA BeginApart ==
    ASSUME RowsInv, NEW m \in Managers, NEW rows \in Rows, Begin(m, rows),
           drawn \subseteq drawn', drawn' \subseteq ManagedKeys,
           Distinct(rows), \A d \in rows.devices : d.key \in drawn'
    PROVE  RowsInv'
<1>1. \A n \in Managers : pc[n] # "committing"
  BY AbsentAssumption DEF RowsInv, Locking, Begin, Managers
<1>2. LiveTypeOK'
  BY EnoughRequests DEF Begin, Goes, RowsInv, LiveTypeOK, Stages
<1>3. Locking'
  <2>1. m # Absent /\ rows # Absent
    BY AbsentAssumption, RowsAssumption DEF Managers
  <2>2. \A n \in Managers : pc'[n] # "committing"
    BY <1>1 DEF Begin, Goes, RowsInv, LiveTypeOK
  <2> QED
    BY <2>1, <2>2 DEF Begin, Locking
<1>4. RowsApart(db)' /\ RowsApart(txn)'
  BY DEF Begin, RowsInv, RowsApart, Distinct
<1> QED
  BY <1>2, <1>3, <1>4 DEF RowsInv

LEMMA OperationApart ==
    ASSUME RowsInv, NEW m \in Managers, Operation(m)
    PROVE  RowsInv'
<1>1. db \in Rows /\ db.devices \in SUBSET Device /\ RowsApart(db) /\ drawn \subseteq ManagedKeys
  BY DEF RowsInv, LiveTypeOK, Rows
<1>2. CASE CreateDevice(m)
  <2>1. PICK u \in db.enabled, k \in ManagedKeys :
            /\ FreeAddresses(db) # {}
            /\ DrawsKey(k)
            /\ Begin(m, [db EXCEPT !.devices = @ \cup
                             {[ip |-> AllocateIp(db), key |-> k, user |-> u]}])
    BY <1>2 DEF CreateDevice
  <2> DEFINE new == [ip |-> AllocateIp(db), key |-> k, user |-> u]
             rows == [db EXCEPT !.devices = @ \cup {new}]
  <2>2. AllocateIp(db) \in Pool /\ \A d \in db.devices : d.ip # AllocateIp(db)
    BY <2>1, FirstAddress DEF FreeAddresses
  <2>3. rows \in Rows /\ rows.devices = db.devices \cup {new}
    <3>1. new \in Device
      BY <1>1, <2>2 DEF Device, Rows
    <3> QED
      BY <1>1, <3>1 DEF Rows
  <2>4. /\ drawn \subseteq drawn' /\ drawn' \subseteq ManagedKeys
        /\ k \in drawn' /\ \A d \in db.devices : d.key # k
    BY <1>1, <2>1 DEF DrawsKey, RowsApart
  <2>5. Distinct(rows) /\ \A d \in rows.devices : d.key \in drawn'
    BY <1>1, <2>2, <2>3, <2>4 DEF RowsApart, Distinct
  <2> HIDE DEF rows
  <2> QED
    BY <2>1, <2>3, <2>4, <2>5, BeginApart DEF rows
<1>3. CASE ResetDevice(m)
  <2>1. PICK d \in db.devices, k \in ManagedKeys :
            /\ DrawsKey(k)
            /\ Begin(m, [db EXCEPT !.devices = (@ \ {d}) \cup {[d EXCEPT !.key = k]}])
    BY <1>3 DEF ResetDevice
  <2> DEFINE new == [d EXCEPT !.key = k]
             rows == [db EXCEPT !.devices = (@ \ {d}) \cup {new}]
  <2>2. new \in Device /\ new.ip = d.ip /\ new.key = k
    BY <1>1, <2>1 DEF Device
  <2>3. rows \in Rows /\ rows.devices = (db.devices \ {d}) \cup {new}
    BY <1>1, <2>2 DEF Rows
  <2>4. /\ drawn \subseteq drawn' /\ drawn' \subseteq ManagedKeys
        /\ k \in drawn' /\ \A e \in db.devices : e.key # k
    BY <1>1, <2>1 DEF DrawsKey, RowsApart
  <2>5. Distinct(rows) /\ \A e \in rows.devices : e.key \in drawn'
    BY <1>1, <2>1, <2>2, <2>3, <2>4 DEF RowsApart, Distinct
  <2> HIDE DEF rows
  <2> QED
    BY <2>1, <2>3, <2>4, <2>5, BeginApart DEF rows
<1>4. CASE DeleteDevice(m)
  <2>1. PICK d \in db.devices : Begin(m, [db EXCEPT !.devices = @ \ {d}])
    BY <1>4 DEF DeleteDevice
  <2> DEFINE rows == [db EXCEPT !.devices = @ \ {d}]
  <2>2. rows \in Rows /\ rows.devices = db.devices \ {d}
    BY <1>1 DEF Rows
  <2>3. Distinct(rows) /\ \A e \in rows.devices : e.key \in drawn
    BY <1>1, <2>2 DEF RowsApart, Distinct
  <2>4. drawn' = drawn
    BY <1>4 DEF DeleteDevice
  <2> HIDE DEF rows
  <2> QED
    BY <1>1, <2>1, <2>2, <2>3, <2>4, BeginApart DEF rows
<1>5. CASE UpdateUser(m)
  <2>1. PICK u \in Users, q \in Quotas : Begin(m, Updated(u, u \notin db.enabled, q))
    BY <1>5 DEF UpdateUser
  <2> DEFINE rows == Updated(u, u \notin db.enabled, q)
  <2>2. rows \in Rows /\ rows.devices = db.devices
    BY <1>1, UpdatedType
  <2>3. Distinct(rows) /\ \A e \in rows.devices : e.key \in drawn
    BY <1>1, <2>2 DEF RowsApart, Distinct
  <2>4. drawn' = drawn
    BY <1>5 DEF UpdateUser
  <2> HIDE DEF rows
  <2> QED
    BY <1>1, <2>1, <2>2, <2>3, <2>4, BeginApart DEF rows
<1>6. CASE UpdateQuota(m)
  <2>1. PICK u \in Users, q \in Quotas : db' = Updated(u, u \in db.enabled, q)
    BY <1>6 DEF UpdateQuota
  <2>2. db' \in Rows /\ db'.devices = db.devices
    <3>1. (u \in db.enabled) \in BOOLEAN
      OBVIOUS
    <3> QED
      BY <1>1, <2>1, <3>1, UpdatedType
  <2>3. UNCHANGED <<txn, owner, begun, drawn, pc, previous, payload>>
    BY <1>6 DEF UpdateQuota
  <2> QED
    BY <2>2, <2>3 DEF RowsInv, LiveTypeOK, Locking, RowsApart, Distinct
<1>7. CASE ReconcileAll(m)
  BY <1>1, <1>7, BeginApart DEF ReconcileAll, RowsApart
<1> QED
  BY <1>2, <1>3, <1>4, <1>5, <1>6, <1>7 DEF Operation

(* An operation goes on, by itself or because it was cut off.              *)
LEMMA ProgressApart ==
    ASSUME RowsInv, TypeOK, NEW m \in Managers,
           Progress(m) \/ TimesOut(m) \/ CommitFails(m) \/ ManagerCrashes(m)
    PROVE  RowsInv'
<1> USE DEF RowsInv, LiveTypeOK, Goes, Stages
<1>0. m # Absent
  BY AbsentAssumption DEF Managers
<1>1. CASE ReadPrevious(m)
  BY <1>1 DEF ReadPrevious, Locking, RowsApart, Distinct, TypeOK
<1>2. CASE Render(m)
  <2>1. Desired(IF owner = m THEN txn ELSE db) \in SUBSET Peer
    <3>1. owner = m => txn \in Rows
      BY <1>0 DEF Locking
    <3> QED
      BY <3>1, DesiredType
  <2> QED
    BY <1>2, <2>1 DEF Render, Locking, RowsApart, Distinct
<1>3. CASE WriteExpected(m)
  <2>1. pc' \in [Managers -> Stages] /\ \A n \in Managers : pc'[n] = "committing" => pc[n] = "committing"
    BY <1>3 DEF WriteExpected
  <2> QED
    BY <1>3, <2>1 DEF WriteExpected, Locking, RowsApart, Distinct
<1>4. CASE Connect(m) \/ ConnectFails(m) \/ ReceiveFailure(m) \/ TimesOut(m) \/ Restore(m)
  <2>1. pc' \in [Managers -> Stages] /\ \A n \in Managers : pc'[n] = "committing" => pc[n] = "committing"
    BY <1>4 DEF Connect, ConnectFails, ReceiveFailure, TimesOut, Restore
  <2>2. UNCHANGED <<db, txn, owner, begun, drawn, previous, payload>>
    BY <1>4 DEF Connect, ConnectFails, ReceiveFailure, TimesOut, Restore
  <2> QED
    BY <2>1, <2>2 DEF Locking, RowsApart, Distinct
<1>5. CASE ReceiveApplied(m) \/ CheckStatus(m)
  <2>1. /\ pc' \in [Managers -> Stages]
        /\ \A n \in Managers : pc'[n] = "committing" => pc[n] = "committing" \/ owner = n
    BY <1>5 DEF ReceiveApplied, CheckStatus, Succeeds
  <2>2. UNCHANGED <<db, txn, owner, begun, drawn, previous, payload>>
    BY <1>5 DEF ReceiveApplied, CheckStatus
  <2> QED
    BY <2>1, <2>2 DEF Locking, RowsApart, Distinct
<1>6. CASE Fail(m) \/ CommitFails(m) \/ ManagerCrashes(m)
  <2>1. /\ pc' \in [Managers -> Stages] /\ pc'[m] # "committing"
        /\ \A n \in Managers \ {m} : pc'[n] = pc[n]
    BY <1>6 DEF Fail, CommitFails, ManagerCrashes
  <2>2. EndTransaction(m) /\ UNCHANGED <<db, begun, drawn, previous, payload>>
    BY <1>6 DEF Fail, CommitFails, ManagerCrashes
  <2> QED
    BY <2>1, <2>2 DEF EndTransaction, Locking, RowsApart, Distinct
<1>7. CASE Commit(m)
  <2>1. owner = m /\ txn \in Rows /\ RowsApart(txn)
    BY <1>0, <1>7 DEF Commit, Locking
  <2>2. /\ db' = txn /\ owner' = Absent /\ txn' = Absent
        /\ UNCHANGED <<begun, drawn, previous, payload>>
        /\ pc' = [pc EXCEPT ![m] = "idle"]
    BY <1>7, <2>1 DEF Commit, EndTransaction
  <2>3. \A n \in Managers : pc'[n] # "committing"
    BY <2>1, <2>2 DEF Locking
  <2> QED
    BY <2>1, <2>2, <2>3 DEF Locking, RowsApart, Distinct
<1> QED
  BY <1>1, <1>2, <1>3, <1>4, <1>5, <1>6, <1>7 DEF Progress

LEMMA RowsInit == LiveInit => TypeOK /\ RowsInv
<1> SUFFICES ASSUME LiveInit PROVE TypeOK /\ RowsInv
  OBVIOUS
<1>1. TypeOK
  BY InitType DEF LiveInit
<1>2. PICK q \in [Users -> Quotas] : db = [devices |-> {}, enabled |-> Users, quota |-> q]
  BY DEF LiveInit
<1>3. db \in Rows /\ db.devices = {}
  BY <1>2 DEF Rows
<1>4. LiveTypeOK
  BY <1>3, EnoughRequests DEF LiveInit, LiveTypeOK, Stages, Payload
<1> QED
  BY <1>1, <1>3, <1>4 DEF LiveInit, RowsInv, Locking, RowsApart, Distinct

LEMMA RowsStep == TypeOK /\ RowsInv /\ [LiveNext]_allvars => TypeOK' /\ RowsInv'
<1> SUFFICES ASSUME TypeOK, RowsInv, [LiveNext]_allvars PROVE TypeOK' /\ RowsInv'
  OBVIOUS
<1>1. TypeOK'
  BY StepIsStep, NextType DEF RowsInv
<1>2. UNCHANGED mvars => RowsInv'
  BY DEF mvars, RowsInv, LiveTypeOK, Locking, RowsApart, Distinct
<1>3. UNCHANGED allvars => UNCHANGED mvars
  BY DEF allvars
<1>4. ASSUME NEW m \in Managers, \/ Operation(m) \/ Progress(m) \/ TimesOut(m)
                                 \/ CommitFails(m) \/ ManagerCrashes(m)
      PROVE  RowsInv'
  BY <1>4, OperationApart, ProgressApart
<1> QED
  BY <1>1, <1>2, <1>3, <1>4 DEF LiveNext

LEMMA RowsAlways == LiveSpec => [](TypeOK /\ RowsInv)
BY RowsInit, RowsStep, PTL DEF LiveSpec

(* The managers' variables keep their types.                               *)
THEOREM LiveTyped == LiveSpec => []LiveTypeOK
<1>1. RowsInv => LiveTypeOK
  BY DEF RowsInv
<1> QED
  BY <1>1, RowsAlways, PTL

(* No two committed devices ever share an address or a key, for any number *)
(* of managers and users and whatever fails.                               *)
THEOREM DevicesStayDistinct == LiveSpec => []DistinctDevices
<1>1. RowsInv => DistinctDevices
  BY DEF RowsInv, RowsApart, DistinctDevices
<1> QED
  BY <1>1, RowsAlways, PTL

(* The managers are among the arbitrary clients of Reconciler: the         *)
(* composed system implements it, and so keeps all it promises.            *)
THEOREM ManagersAreClients == LiveSpec => Spec
<1>1. LiveInit => Init
  BY DEF LiveInit
<1>2. TypeOK /\ RowsInv /\ [LiveNext]_allvars => [Next]_vars
  BY StepIsStep DEF RowsInv
<1> QED
  BY <1>1, <1>2, RowsAlways, PTL DEF LiveSpec, Spec

(* With the managers at work too, no address of a managed peer is routed   *)
(* to a second peer, whatever fails and wherever a process dies.           *)
THEOREM LiveAddressesNotShared == LiveSpec => []NoAddressSharing
BY ManagersAreClients, AddressesNotShared, PTL

-----------------------------------------------------------------------------
(* Failures that let a manager believe in an interface it does not have:   *)
(* those after which keys are orphaned, a reload of wg0.conf, and the      *)
(* compensation that holds no lock.                                        *)
Misleading == Disowning \cup {"interface_restart", "commit"}

(* A status that is in place and then taken back, because the fsync of its *)
(* directory failed, misleads only a manager that looks before the answer. *)
NotMisled == Faults \cap Misleading = {} /\ ~({"timeout", "disk_sync"} \subseteq Faults)

Unwinding == {"unwinding", "restoring", "restoring_status"}

(* The status that stays, whatever happens to the request in hand.         *)
Told == IF phase \in Unwinding THEN prior.status ELSE status

Older(s, n) == s = Absent \/ s.id < n

(* Requests are numbered as they come, and the status that stays is older  *)
(* than every request still to be answered.                                *)
Numbered ==
    /\ \A i \in 1 .. Len(queue) : /\ queue[i].id <= issued
                                  /\ req.id < queue[i].id
                                  /\ Older(Told, queue[i].id)
    /\ \A i, j \in 1 .. Len(queue) : i < j => queue[i].id < queue[j].id
    /\ req.id <= issued
    /\ Older(Told, issued + 1)
    /\ phase \notin {"idle", "replying"} => Older(Told, req.id)
    /\ phase = "replying" /\ answer = "applied" =>
           Told = [digest |-> req.digest, id |-> req.id]
    /\ \A c \in Clients : conn[c].id <= issued

(* What the reconciler would put back, and what it may put back it for.    *)
Remembered ==
    /\ phase \in {"syncing", "verifying", "undoing", "recording", "reporting"} =>
           status = prior.status
    /\ phase \in Unwinding =>
           \/ status = prior.status
           \/ "disk_sync" \in Faults /\ status = [digest |-> req.digest, id |-> req.id]

(* The status of the newest request is what the interface serves.          *)
Newest == Told # Absent /\ Told.id = issued

NewestServed == Newest => /\ phase \in {"idle", "replying"}
                          /\ Serves(live, Told.digest)

(* Whatever is known of the newest request is about content S.             *)
AsksFor(S) ==
    /\ \A i \in 1 .. Len(queue) : queue[i].id = issued => queue[i].digest = S
    /\ req.id = issued => req.digest = S
    /\ Newest => Told.digest = S

(* The newest request is neither in the queue nor in hand.                 *)
Settled == /\ req.id # issued
           /\ \A i \in 1 .. Len(queue) : queue[i].id # issued

(* How far the one manager at work has come.                               *)
Stage(m) ==
    /\ pc[m] # "idle" => owner = m
    /\ pc[m] \in {"writing", "connecting", "waiting", "checking"} =>
           payload[m] = Desired(txn)
    /\ pc[m] \in {"waiting", "checking"} => /\ issued > 0
                                            /\ conn[m].id = issued
                                            /\ AsksFor(payload[m])
    /\ pc[m] = "waiting" => /\ conn[m].state # "eof"
                            /\ conn[m].state = "applied" => Newest
                            /\ conn[m].state = "failed" => Settled
    /\ pc[m] = "checking" => Settled \/ "timeout" \in Faults
    /\ pc[m] = "committing" => Newest /\ Told.digest = Desired(txn)

AllStages == \A m \in Managers : Stage(m)

-----------------------------------------------------------------------------
LEMMA Honest ==
    ASSUME Faults \cap Misleading = {}
    PROVE  /\ Faults \cap (Disowning \cup {"interface_restart"}) = {}
           /\ Faults \cap Disowning = {}
           /\ \A f \in {"reconciler_crash", "wg_rollback", "wg_spawn", "disk_restore",
                         "interface_restart", "commit"} : f \notin Faults
BY DEF Misleading, Disowning

LEMMA QueuedType ==
    ASSUME TypeOK
    PROVE  /\ Len(queue) \in Nat
           /\ \A i \in 1 .. Len(queue) : queue[i] \in Requests /\ queue[i].id \in Nat
           /\ req.id \in Nat /\ issued \in Nat
           /\ Told # Absent => Told.id \in Nat
           /\ \A c \in Clients : conn[c].id \in Nat
<1>1. Len(queue) \in Nat
  BY LenProperties DEF TypeOK
<1>2. \A i \in 1 .. Len(queue) : queue[i] \in Requests
  BY ElementOfSeq DEF TypeOK
<1>3. \A r \in Requests : r.id \in Nat
  BY DEF Requests
<1>4. \A t \in Statuses : t # Absent => t.id \in Nat
  BY DEF Statuses
<1>5. Told \in Statuses /\ req \in Requests /\ issued \in Nat
  BY DEF TypeOK, Told
<1>6. \A c \in Clients : conn[c].id \in Nat
  BY DEF TypeOK
<1> QED
  BY <1>1, <1>2, <1>3, <1>4, <1>5, <1>6

LEMMA AcceptNumbered ==
    ASSUME TypeOK, Numbered, NewestServed, Accept
    PROVE  Numbered' /\ NewestServed'
<1>1. queue # <<>> /\ queue \in Seq(Requests)
  BY DEF Accept, TypeOK
<1>2. /\ Len(queue) >= 1 /\ req' = queue[1]
      /\ Len(queue') = Len(queue) - 1
      /\ \A i \in 1 .. Len(queue') : queue'[i] = queue[i + 1]
  BY <1>1, EmptySeq, HeadTailProperties, QueuedType DEF Accept
<1>3. 1 \in 1 .. Len(queue) /\ \A i \in 1 .. Len(queue') : i + 1 \in 1 .. Len(queue) /\ 1 < i + 1
  BY <1>2, QueuedType
<1>4. UNCHANGED <<issued, Told, live, answer, conn>> /\ phase' = "loading"
  BY DEF Accept, Told, Unwinding
<1>5. ~Newest
  BY <1>3, QueuedType DEF Numbered, Newest, Older
<1>6. \A i, j \in 1 .. Len(queue') : i < j => i + 1 < j + 1
  BY QueuedType, <1>2
<1>7. Numbered'
  BY <1>2, <1>3, <1>4, <1>6 DEF Numbered, Older
<1> QED
  BY <1>4, <1>5, <1>7 DEF NewestServed, Newest

(* While a request is handled, the newest status is not there yet.         *)
LEMMA HandlingIsNotNewest ==
    ASSUME TypeOK, Numbered, phase \notin {"idle", "replying"}
    PROVE  ~Newest
BY QueuedType DEF Numbered, Newest, Older

LEMMA WorkRemembers ==
    ASSUME Faults \cap Misleading = {}, Remembered, Work
    PROVE  Remembered'
<1>1. CASE Accept \/ Reply
  BY <1>1 DEF Accept, Reply, Remembered, Unwinding
<1>2. CASE Load
  <2>1. phase' \in {"syncing", "replying"} /\ status' = prior'.status
    BY <1>2 DEF Load, Fails, Answers
  <2> QED
    BY <2>1 DEF Remembered, Unwinding
<1>3. CASE SyncConf \/ Verify \/ Undo \/ RecordManifest
  <2>1. /\ UNCHANGED <<status, prior>>
        /\ phase \in {"syncing", "verifying", "undoing", "recording"}
    BY <1>3 DEF SyncConf, Verify, Undo, RecordManifest
  <2> QED
    BY <2>1 DEF Remembered, Unwinding
<1>4. CASE RecordStatus
  <2>1. UNCHANGED <<prior, req>> /\ phase = "reporting" /\ phase' \in {"unwinding", "replying"}
    BY <1>4 DEF RecordStatus, Answers
  <2>2. phase' = "unwinding" =>
            \/ status' = status
            \/ "disk_sync" \in Faults /\ status' = [digest |-> req.digest, id |-> req.id]
    BY <1>4 DEF RecordStatus, Answers, WriteFails
  <2> QED
    BY <2>1, <2>2 DEF Remembered, Unwinding
<1>5. CASE Unwind \/ RestoreManifest
  <2>1. /\ UNCHANGED <<status, prior, req>>
        /\ phase \in Unwinding /\ phase' \in Unwinding \cup {"replying"}
    BY <1>5 DEF Unwind, RestoreManifest, Fails, Answers, Unwinding
  <2> QED
    BY <2>1 DEF Remembered, Unwinding
<1>6. CASE RestoreStatus
  <2>1. phase' = "replying"
    BY <1>6 DEF RestoreStatus, Fails, Answers
  <2> QED
    BY <2>1 DEF Remembered, Unwinding
<1> QED
  BY <1>1, <1>2, <1>3, <1>4, <1>5, <1>6 DEF Work

(* Only a request that is then answered "applied" changes what stays.      *)
LEMMA WorkTells ==
    ASSUME Faults \cap Misleading = {}, Remembered, Work
    PROVE  \/ Told' = Told
           \/ /\ RecordStatus /\ phase' = "replying"
              /\ Told' = [digest |-> req.digest, id |-> req.id]
<1>0. "disk_restore" \notin Faults
  BY Honest
<1>1. CASE Accept \/ Reply
  BY <1>1 DEF Accept, Reply, Told, Unwinding
<1>2. CASE Load
  <2>1. phase = "loading" /\ phase' \in {"syncing", "replying"} /\ status' = status
    BY <1>2 DEF Load, Fails, Answers
  <2> QED
    BY <2>1 DEF Told, Unwinding
<1>3. CASE SyncConf \/ Verify \/ Undo \/ RecordManifest
  <2>1. /\ UNCHANGED <<status, prior>>
        /\ phase \in {"syncing", "verifying", "undoing", "recording"}
    BY <1>3 DEF SyncConf, Verify, Undo, RecordManifest
  <2> QED
    BY <2>1 DEF Remembered, Told, Unwinding
<1>4. CASE RecordStatus
  <2>1. prior' = prior /\ phase = "reporting"
    BY <1>4 DEF RecordStatus
  <2>2. CASE phase' = "unwinding"
    BY <2>1, <2>2 DEF Remembered, Told, Unwinding
  <2>3. CASE status' = [digest |-> req.digest, id |-> req.id] /\ phase' = "replying"
    BY <1>4, <2>3 DEF Told, Unwinding
  <2> QED
    BY <1>4, <2>2, <2>3 DEF RecordStatus, Answers
<1>5. CASE Unwind \/ RestoreManifest
  <2>1. prior' = prior /\ phase \in Unwinding /\ phase' \in Unwinding
    BY <1>0, <1>5 DEF Unwind, RestoreManifest, Unwinding
  <2> QED
    BY <2>1 DEF Told
<1>6. CASE RestoreStatus
  <2>1. /\ phase = "restoring_status" /\ phase' = "replying"
        /\ status' = prior.status
    BY <1>0, <1>6 DEF RestoreStatus, Fails, Answers
  <2> QED
    BY <2>1 DEF Told, Unwinding
<1> QED
  BY <1>1, <1>2, <1>3, <1>4, <1>5, <1>6 DEF Work

LEMMA WorkNumbered ==
    ASSUME Faults \cap Misleading = {}, TypeOK, Applies, Remembered, Numbered,
           NewestServed, Work
    PROVE  Numbered' /\ NewestServed'
<1>1. CASE Accept
  BY <1>1, AcceptNumbered
<1>2. CASE Told' = Told /\ ~Accept /\ ~Reply
  <2>1. /\ UNCHANGED <<queue, conn, issued, req>>
        /\ phase \notin {"idle", "replying"} /\ phase' # "idle"
        /\ phase' = "replying" => answer' = "failed" \/ Told' = [digest |-> req.digest, id |-> req.id]
    <3>1. RecordStatus /\ phase' = "replying" => Told' = status'
      BY DEF Told, Unwinding
    <3> QED
      BY <1>2, <3>1 DEF Work, Load, SyncConf, Verify, Undo, RecordManifest, RecordStatus,
                        Unwind, RestoreManifest, RestoreStatus, Fails, Answers
  <2> QED
    BY <1>2, <2>1, HandlingIsNotNewest DEF Numbered, NewestServed, Newest
<1>3. CASE /\ RecordStatus /\ phase' = "replying"
           /\ Told' = [digest |-> req.digest, id |-> req.id]
  <2>1. UNCHANGED <<queue, conn, issued, live, req>> /\ phase = "reporting"
    BY <1>3 DEF RecordStatus
  <2>2. Serves(live, req.digest)
    BY <2>1 DEF Applies
  <2>3. NewestServed'
    BY <1>3, <2>1, <2>2 DEF NewestServed
  <2>4. Told'.id = req.id
    BY <1>3
  <2>5. \A i \in 1 .. Len(queue) : Older(Told', queue[i].id)
    BY <2>4 DEF Numbered, Older
  <2>6. Older(Told', issued + 1)
    BY <2>4, QueuedType DEF Numbered, Older
  <2>7. Numbered'
    BY <1>3, <2>1, <2>5, <2>6 DEF Numbered
  <2> QED
    BY <2>3, <2>7
<1>4. CASE Reply
  <2>1. /\ UNCHANGED <<queue, issued, live>> /\ Told' = Told
        /\ phase = "replying" /\ phase' = "idle" /\ req'.id = 0
    BY <1>4 DEF Reply, NoRequest, Told, Unwinding
  <2>2. \A c \in Clients : conn'[c].id = conn[c].id
    BY <1>4 DEF Reply, TypeOK
  <2> QED
    BY <2>1, <2>2, QueuedType DEF Numbered, NewestServed, Newest
<1> QED
  BY <1>1, <1>2, <1>3, <1>4, WorkTells

(* A client's step, or one of the operator.                                *)
LEMMA ClientNumbered ==
    ASSUME TypeOK, Numbered, NewestServed, Environment
    PROVE  Numbered' /\ NewestServed'
<1>0. Told' = Told
  BY DEF Environment, ClientWrites, ClientConnects, ClientCloses, Told
<1>1. ASSUME NEW e, ClientWrites(e) PROVE Numbered' /\ NewestServed'
  BY <1>0, <1>1 DEF ClientWrites, Numbered, NewestServed, Newest
<1>2. ASSUME NEW c \in Clients, ClientCloses(c) PROVE Numbered' /\ NewestServed'
  <2>1. \A b \in Clients : conn'[b].id = conn[b].id
    BY <1>2 DEF ClientCloses, TypeOK
  <2> QED
    BY <1>0, <1>2, <2>1 DEF ClientCloses, Numbered, NewestServed, Newest
<1>3. ASSUME NEW c \in Clients, NEW d \in Payloads, ClientConnects(c, d)
      PROVE  Numbered' /\ NewestServed'
  <2> DEFINE r == [client |-> c, id |-> issued + 1, digest |-> d]
  <2>1. r \in Requests
    BY PayloadsAssumption, QueuedType DEF Requests
  <2>2. queue' = Append(queue, r) /\ issued' = issued + 1 /\ queue \in Seq(Requests)
    BY <1>3 DEF ClientConnects, TypeOK
  <2>3. /\ Len(queue') = Len(queue) + 1
        /\ \A i \in 1 .. Len(queue) : queue'[i] = queue[i]
        /\ queue'[Len(queue) + 1].id = issued + 1
    BY <2>1, <2>2, AppendProperties
  <2>4. UNCHANGED <<live, Told, phase, req, answer>>
    BY <1>0, <1>3 DEF ClientConnects
  <2>5. \A b \in Clients : conn'[b].id <= issued + 1
    BY <1>3, <2>2, QueuedType DEF ClientConnects, TypeOK, Numbered
  <2>6. ~Newest' /\ \A n \in Nat : Older(Told, n) => Older(Told, n + 1)
    BY <2>2, <2>4, QueuedType DEF Numbered, Newest, Older
  <2>7. ASSUME NEW i \in 1 .. Len(queue')
        PROVE  /\ queue'[i].id <= issued' /\ req'.id < queue'[i].id
               /\ Older(Told', queue'[i].id)
    <3>1. CASE i \in 1 .. Len(queue)
      BY <2>2, <2>3, <2>4, <3>1, QueuedType DEF Numbered
    <3>2. CASE i = Len(queue) + 1
      BY <2>2, <2>3, <2>4, <3>2, QueuedType DEF Numbered
    <3> QED
      BY <2>3, <3>1, <3>2, QueuedType
  <2>8. ASSUME NEW i \in 1 .. Len(queue'), NEW j \in 1 .. Len(queue'), i < j
        PROVE  queue'[i].id < queue'[j].id
    <3>1. i \in 1 .. Len(queue) /\ queue'[i] = queue[i]
      BY <2>3, <2>8, QueuedType
    <3>2. CASE j \in 1 .. Len(queue)
      BY <2>3, <2>8, <3>1, <3>2 DEF Numbered
    <3>3. CASE j = Len(queue) + 1
      BY <2>3, <3>1, <3>3, QueuedType DEF Numbered
    <3> QED
      BY <2>3, <3>2, <3>3, QueuedType
  <2>9. req'.id <= issued' /\ Older(Told', issued' + 1)
    BY <2>2, <2>4, <2>6, QueuedType DEF Numbered
  <2>10. Numbered'
    BY <2>2, <2>4, <2>5, <2>7, <2>8, <2>9 DEF Numbered
  <2> QED
    BY <2>6, <2>10 DEF NewestServed
<1> QED
  BY <1>1, <1>2, <1>3 DEF Environment

LEMMA WorldNumbered ==
    ASSUME Faults \cap Misleading = {}, Ownership, Numbered, NewestServed, World
    PROVE  Numbered' /\ NewestServed'
<1>1. /\ UNCHANGED <<cvars, status, phase, req, prior, answer>>
      /\ ManagedPart(live') = ManagedPart(live)
  BY WorldUnmanaged, Honest
<1>2. Told' = Told
  BY <1>1 DEF Told
<1> QED
  BY <1>1, <1>2 DEF cvars, Numbered, NewestServed, Newest, Serves

(* The newest status tells what the interface serves.                      *)
LEMMA NumberedAlways ==
    ASSUME Faults \cap Misleading = {}
    PROVE  Spec => [](TypeOK /\ Ownership /\ Applies /\ Remembered /\ Numbered /\ NewestServed)
<1> DEFINE Inv == Remembered /\ Numbered /\ NewestServed
<1>1. Init => Inv
  BY DEF Init, Remembered, Numbered, NewestServed, Newest, Older, Told, Unwinding, NoRequest
<1>2. TypeOK /\ Ownership /\ Applies /\ Inv /\ [Next]_vars => Inv'
  <2> SUFFICES ASSUME TypeOK, Ownership, Applies, Inv, [Next]_vars PROVE Inv'
    OBVIOUS
  <2>1. CASE UNCHANGED vars
    BY <2>1 DEF vars, Remembered, Numbered, NewestServed, Newest, Told
  <2>2. World \/ Environment => Remembered'
    <3>1. World \/ Environment => UNCHANGED <<status, phase, req, prior>>
      BY WorldUnmanaged, Honest DEF Environment, ClientWrites, ClientConnects, ClientCloses
    <3> QED
      BY <3>1 DEF Remembered
  <2> QED
    BY <2>1, <2>2, WorkRemembers, WorkNumbered, WorldNumbered, ClientNumbered DEF Next
<1>3. Spec => []TypeOK
  BY TypeCorrect
<1>4. Spec => []Ownership
  BY Honest, OwnershipKept
<1>5. Spec => []Applies
  BY Honest, AppliesKept
<1> QED
  BY <1>1, <1>2, <1>3, <1>4, <1>5, PTL DEF Spec

-----------------------------------------------------------------------------
(* The newest status stays as it is while no newer request comes.          *)
LEMMA NewestStays ==
    ASSUME TypeOK, Numbered, NewestServed, Newest, Work
    PROVE  Reply /\ UNCHANGED Told
<1>1. phase \in {"idle", "replying"}
  BY DEF NewestServed
<1>2. ~Accept
  <2> SUFFICES ASSUME Accept PROVE FALSE
    OBVIOUS
  <2>1. 1 \in 1 .. Len(queue)
    BY EmptySeq, QueuedType DEF Accept, TypeOK
  <2> QED
    BY <2>1, QueuedType DEF Numbered, Newest, Older
<1>3. Reply
  BY <1>1, <1>2 DEF Work, Load, SyncConf, Verify, Undo, RecordManifest, RecordStatus,
                    Unwind, RestoreManifest, RestoreStatus
<1> QED
  BY <1>3 DEF Reply, Told, Unwinding

(* The reconciler's work adds nothing to what is known of the newest       *)
(* request but its own content.                                            *)
LEMMA WorkAsks ==
    ASSUME Faults \cap Misleading = {}, TypeOK, Remembered, Numbered, NewestServed, Work,
           NEW S, AsksFor(S), issued > 0
    PROVE  AsksFor(S)'
<1>1. issued' = issued
  BY DEF Work, Accept, Load, SyncConf, Verify, Undo, RecordManifest, RecordStatus,
         Unwind, RestoreManifest, RestoreStatus, Reply
<1>2. CASE Accept
  <2>1. /\ req' = queue[1] /\ 1 \in 1 .. Len(queue)
        /\ Len(queue') = Len(queue) - 1
        /\ \A i \in 1 .. Len(queue') : queue'[i] = queue[i + 1]
    BY <1>2, EmptySeq, HeadTailProperties, QueuedType DEF Accept, TypeOK
  <2>2. \A i \in 1 .. Len(queue') : i + 1 \in 1 .. Len(queue)
    BY <2>1, QueuedType
  <2>3. Told' = Told
    BY <1>2 DEF Accept, Told, Unwinding
  <2> QED
    BY <1>1, <2>1, <2>2, <2>3 DEF AsksFor, Newest
<1>3. CASE Reply
  <2>1. queue' = queue /\ Told' = Told /\ req'.id = 0
    BY <1>3 DEF Reply, NoRequest, Told, Unwinding
  <2> QED
    BY <1>1, <2>1, QueuedType DEF AsksFor, Newest
<1>4. CASE ~Accept /\ ~Reply
  <2>1. UNCHANGED <<queue, req>>
    BY <1>4 DEF Work, Load, SyncConf, Verify, Undo, RecordManifest, RecordStatus, Unwind,
                RestoreManifest, RestoreStatus
  <2>2. Told' \in {Told, [digest |-> req.digest, id |-> req.id]}
    BY WorkTells
  <2> QED
    BY <1>1, <2>1, <2>2 DEF AsksFor, Newest
<1> QED
  BY <1>2, <1>3, <1>4

(* A request that is settled stays so.                                     *)
LEMMA WorkSettled ==
    ASSUME TypeOK, Numbered, Settled, Work, issued > 0
    PROVE  Settled'
<1>1. issued' = issued
  BY DEF Work, Accept, Load, SyncConf, Verify, Undo, RecordManifest, RecordStatus,
         Unwind, RestoreManifest, RestoreStatus, Reply
<1>2. CASE Accept
  <2>1. /\ req' = queue[1] /\ 1 \in 1 .. Len(queue)
        /\ Len(queue') = Len(queue) - 1
        /\ \A i \in 1 .. Len(queue') : queue'[i] = queue[i + 1]
    BY <1>2, EmptySeq, HeadTailProperties, QueuedType DEF Accept, TypeOK
  <2>2. \A i \in 1 .. Len(queue') : i + 1 \in 1 .. Len(queue)
    BY <2>1, QueuedType
  <2> QED
    BY <1>1, <2>1, <2>2 DEF Settled
<1>3. CASE Reply
  <2>1. queue' = queue /\ req'.id = 0
    BY <1>3 DEF Reply, NoRequest
  <2> QED
    BY <1>1, <2>1, QueuedType DEF Settled
<1>4. CASE ~Accept /\ ~Reply
  <2>1. UNCHANGED <<queue, req>>
    BY <1>4 DEF Work, Load, SyncConf, Verify, Undo, RecordManifest, RecordStatus, Unwind,
                RestoreManifest, RestoreStatus
  <2> QED
    BY <1>1, <2>1 DEF Settled
<1> QED
  BY <1>2, <1>3, <1>4

(* Connections keep their numbers, and an answer that arrives is about the *)
(* newest request if the connection is.                                    *)
LEMMA WorkAnswers ==
    ASSUME TypeOK, Work, NEW c \in Clients
    PROVE  /\ conn'[c].id = conn[c].id
           /\ \/ conn'[c].state = conn[c].state
              \/ /\ Reply /\ conn[c].id = req.id /\ phase = "replying"
                 /\ conn'[c].state = answer /\ answer # "eof"
<1>1. CASE Reply
  BY <1>1 DEF Reply, TypeOK
<1>2. CASE ~Reply
  <2>1. conn' = conn
    BY <1>2 DEF Work, Accept, Load, SyncConf, Verify, Undo, RecordManifest, RecordStatus,
                Unwind, RestoreManifest, RestoreStatus
  <2> QED
    BY <2>1
<1> QED
  BY <1>1, <1>2

LEMMA WorkStages ==
    ASSUME Faults \cap Misleading = {}, TypeOK, Remembered, Numbered, NewestServed,
           AllStages, Work, UNCHANGED mvars
    PROVE  AllStages'
<1> SUFFICES ASSUME NEW m \in Managers PROVE Stage(m)'
  BY DEF AllStages
<1>0. Stage(m) /\ m \in Clients
  BY DEF AllStages, Managers
<1>1. UNCHANGED <<db, txn, owner, pc, payload>>
  BY DEF mvars
<1>2. issued' = issued
  BY DEF Work, Accept, Load, SyncConf, Verify, Undo, RecordManifest, RecordStatus,
         Unwind, RestoreManifest, RestoreStatus, Reply
<1>3. Newest => Newest' /\ Told' = Told
  BY <1>2, NewestStays DEF Newest
<1>4. pc[m] \in {"waiting", "checking"} =>
          issued' > 0 /\ conn'[m].id = issued' /\ AsksFor(payload[m])'
  <2> SUFFICES ASSUME pc[m] \in {"waiting", "checking"}
               PROVE  issued' > 0 /\ conn'[m].id = issued' /\ AsksFor(payload[m])'
    OBVIOUS
  <2>1. PICK S : S = payload[m]
    OBVIOUS
  <2>2. issued > 0 /\ AsksFor(S)
    BY <1>0, <2>1 DEF Stage
  <2>3. AsksFor(S)'
    BY <2>2, WorkAsks
  <2>4. payload'[m] = S
    BY <1>1, <2>1
  <2> QED
    BY <1>0, <1>2, <2>2, <2>3, <2>4, WorkAnswers DEF Stage, AsksFor
<1>5. pc[m] \in {"waiting", "checking"} /\ Settled => Settled'
  BY <1>0, WorkSettled DEF Stage
<1>6. pc[m] = "waiting" => /\ conn'[m].state # "eof"
                           /\ conn'[m].state = "applied" => Newest'
                           /\ conn'[m].state = "failed" => Settled'
  <2>1. CASE conn'[m].state = conn[m].state
    BY <1>0, <1>3, <1>5, <2>1 DEF Stage
  <2>2. CASE /\ pc[m] = "waiting" /\ Reply /\ conn[m].id = req.id /\ phase = "replying"
             /\ conn'[m].state = answer /\ answer # "eof"
    <3>1. req.id = issued /\ issued > 0 /\ queue' = queue /\ req'.id = 0 /\ Told' = Told
      BY <1>0, <2>2 DEF Stage, Reply, NoRequest, Told, Unwinding
    <3>2. Settled'
      BY <1>2, <3>1, QueuedType DEF Numbered, Settled
    <3>3. answer = "applied" => Newest'
      <4> SUFFICES ASSUME answer = "applied" PROVE Newest'
        OBVIOUS
      <4>1. Told = [digest |-> req.digest, id |-> req.id]
        BY <2>2 DEF Numbered
      <4>2. Told # Absent
        BY <4>1, AbsentAssumption DEF TypeOK, Requests
      <4> QED
        BY <1>2, <3>1, <4>1, <4>2 DEF Newest
    <3> QED
      BY <2>2, <3>2, <3>3
  <2> QED
    BY <1>0, <2>1, <2>2, WorkAnswers
<1> QED
  BY <1>0, <1>1, <1>3, <1>4, <1>5, <1>6 DEF Stage, Desired

LEMMA WorldStages ==
    ASSUME Faults \cap Misleading = {}, Ownership, AllStages, World, UNCHANGED mvars
    PROVE  AllStages'
<1>1. UNCHANGED <<queue, conn, issued, Told, req>>
  BY WorldUnmanaged, Honest DEF cvars, Told
<1>2. UNCHANGED <<txn, owner, pc, payload>>
  BY DEF mvars
<1> QED
  BY <1>1, <1>2 DEF AllStages, Stage, AsksFor, Newest, Settled, Desired

(* One manager is at work at a time.                                       *)
LEMMA OneAtWork ==
    ASSUME AllStages, NEW m \in Managers, pc[m] # "idle" \/ owner = Absent
    PROVE  \A n \in Managers \ {m} : pc[n] = "idle"
BY AbsentAssumption DEF AllStages, Stage, Managers

(* So a step of its own is about its own stage only.                       *)
LEMMA OwnStage ==
    ASSUME AllStages, LiveTypeOK, NEW m \in Managers, NEW stage, Goes(m, stage),
           pc[m] # "idle" \/ owner = Absent,
           Stage(m)'
    PROVE  AllStages'
<1> SUFFICES ASSUME NEW n \in Managers \ {m} PROVE Stage(n)'
  BY DEF AllStages
<1>1. pc'[n] = "idle"
  BY OneAtWork DEF Goes, LiveTypeOK
<1> QED
  BY <1>1 DEF Stage

LEMMA OperationStages ==
    ASSUME AllStages, LiveTypeOK, NEW m \in Managers, Operation(m)
    PROVE  AllStages'
<1>1. ASSUME NEW rows, Begin(m, rows) PROVE AllStages'
  <2>1. pc'[m] = "reading" /\ owner' = m
    BY <1>1 DEF Begin, Goes, LiveTypeOK
  <2> QED
    BY <1>1, <2>1, OwnStage DEF Begin, Stage
<1>2. CASE UpdateQuota(m)
  <2>1. \A n \in Managers : pc[n] = "idle" /\ pc'[n] = "idle"
    BY <1>2, OneAtWork DEF UpdateQuota
  <2> QED
    BY <2>1 DEF AllStages, Stage
<1> QED
  BY <1>1, <1>2 DEF Operation, CreateDevice, ResetDevice, DeleteDevice, UpdateUser,
                    ReconcileAll

(* The manager at work connects: its request is now the newest.            *)
LEMMA ConnectStages ==
    ASSUME TypeOK, LiveTypeOK, Numbered, AllStages, NEW m \in Managers, Connect(m)
    PROVE  AllStages'
<1>0. m \in Clients
  BY DEF Managers
<1> DEFINE S == payload[m]
           r == [client |-> m, id |-> issued + 1, digest |-> S]
<1>1. owner = m /\ S = Desired(txn) /\ pc[m] = "connecting"
  BY DEF Connect, AllStages, Stage
<1>2. UNCHANGED <<txn, owner, payload, Told, req>> /\ pc'[m] = "waiting"
  BY DEF Connect, ClientConnects, Goes, LiveTypeOK, Told
<1>3. /\ issued' = issued + 1 /\ issued' > 0 /\ queue' = Append(queue, r)
      /\ conn'[m] = [id |-> issued', state |-> "open"]
  BY <1>0, QueuedType DEF Connect, ClientConnects, TypeOK
<1>4. r \in Requests /\ queue \in Seq(Requests)
  <2>1. S \in SUBSET Peer /\ issued + 1 \in Nat
    BY QueuedType DEF LiveTypeOK
  <2> QED
    BY <1>0, <2>1 DEF TypeOK, Requests
<1>5. /\ Len(queue') = Len(queue) + 1
      /\ \A i \in 1 .. Len(queue) : queue'[i] = queue[i]
      /\ queue'[Len(queue) + 1] = r
  BY <1>3, <1>4, AppendProperties
<1>6. \A i \in 1 .. Len(queue') : queue'[i].id = issued' => queue'[i].digest = S
  <2> SUFFICES ASSUME NEW i \in 1 .. Len(queue'), queue'[i].id = issued'
               PROVE  queue'[i].digest = S
    OBVIOUS
  <2>1. i \notin 1 .. Len(queue)
    BY <1>3, <1>5, QueuedType DEF Numbered
  <2>2. i = Len(queue) + 1
    BY <1>5, <2>1, QueuedType
  <2> QED
    BY <1>5, <2>2
<1>7. req'.id # issued' /\ ~Newest'
  BY <1>2, <1>3, QueuedType DEF Numbered, Newest, Older
<1>8. AsksFor(payload[m])'
  BY <1>2, <1>6, <1>7 DEF AsksFor
<1>9. Stage(m)'
  BY <1>1, <1>2, <1>3, <1>8 DEF Stage, Desired
<1> QED
  BY <1>1, <1>9, OwnStage DEF Connect

LEMMA ProgressStages ==
    ASSUME NotMisled, TypeOK, LiveTypeOK, Remembered, Numbered, AllStages,
           NEW m \in Managers,
           Progress(m) \/ TimesOut(m) \/ CommitFails(m) \/ ManagerCrashes(m)
    PROVE  AllStages'
<1>0. m \in Clients /\ Stage(m)
  BY DEF Managers, AllStages
<1>1. ASSUME NEW stage \in {"idle", "rendering", "connecting", "restoring", "failing"},
             Goes(m, stage), pc[m] # "idle",
             stage = "idle" \/ UNCHANGED <<txn, owner, payload>>,
             stage = "connecting" => pc[m] = "writing"
      PROVE  AllStages'
  <2>1. pc'[m] = stage
    BY <1>1 DEF Goes, LiveTypeOK
  <2>2. Stage(m)'
    BY <1>0, <1>1, <2>1 DEF Stage, Desired
  <2> QED
    BY <1>1, <2>2, OwnStage
<1>2. CASE ReadPrevious(m)
  BY <1>1, <1>2 DEF ReadPrevious
<1>3. CASE Render(m)
  <2>1. owner = m /\ pc[m] # "idle"
    BY <1>0, <1>3 DEF Render, Stage
  <2>2. /\ pc'[m] = "writing" /\ payload'[m] = Desired(txn)
        /\ UNCHANGED <<txn, owner>>
    BY <1>3, <2>1 DEF Render, Goes, LiveTypeOK
  <2>3. Stage(m)'
    BY <2>1, <2>2 DEF Stage, Desired
  <2> QED
    BY <1>3, <2>1, <2>3, OwnStage DEF Render
<1>4. CASE WriteExpected(m)
  BY <1>1, <1>4 DEF WriteExpected
<1>5. CASE Connect(m)
  BY <1>5, ConnectStages
<1>6. CASE ConnectFails(m) \/ Restore(m) \/ Fail(m) \/ Commit(m) \/ ManagerCrashes(m)
  BY <1>1, <1>6 DEF ConnectFails, Restore, Fail, Commit, ManagerCrashes
<1>7. CASE ReceiveApplied(m)
  <2>1. /\ pc[m] = "waiting" /\ conn[m].state = "applied" /\ Goes(m, "committing")
        /\ UNCHANGED <<txn, owner, payload, Told, issued>>
    BY <1>0, <1>7 DEF ReceiveApplied, Succeeds, ClientCloses, Stage, Told
  <2>2. Newest /\ Told.digest = Desired(txn)
    BY <1>0, <2>1 DEF Stage, AsksFor
  <2>3. pc'[m] = "committing"
    BY <2>1 DEF Goes, LiveTypeOK
  <2>4. Stage(m)'
    BY <1>0, <2>1, <2>2, <2>3 DEF Stage, Newest, Desired
  <2> QED
    BY <2>1, <2>4, OwnStage
<1>8. CASE ReceiveFailure(m) \/ TimesOut(m)
  <2>1. /\ pc[m] = "waiting" /\ Goes(m, "checking")
        /\ UNCHANGED <<txn, owner, payload, Told, issued, queue, req>>
        /\ conn'[m].id = conn[m].id
    BY <1>0, <1>8 DEF ReceiveFailure, TimesOut, ClientCloses, TypeOK, Told
  <2>2. pc'[m] = "checking"
    BY <2>1 DEF Goes, LiveTypeOK
  <2>3. Settled \/ "timeout" \in Faults
    BY <1>0, <1>8 DEF ReceiveFailure, TimesOut, Stage
  <2>4. Stage(m)'
    BY <1>0, <2>1, <2>2, <2>3 DEF Stage, AsksFor, Newest, Settled, Desired
  <2> QED
    BY <2>1, <2>4, OwnStage
<1>9. CASE CheckStatus(m)
  <2>1. /\ pc[m] = "checking"
        /\ UNCHANGED <<txn, owner, payload, Told, issued>>
    BY <1>9 DEF CheckStatus, vars, Told
  <2>2. CASE Goes(m, "restoring")
    BY <1>1, <2>1, <2>2
  <2>3. CASE status = [digest |-> payload[m], id |-> conn[m].id] /\ Succeeds(m)
    <3>1. owner = m /\ Goes(m, "committing") /\ conn[m].id = issued
      BY <1>0, <2>1, <2>3 DEF Stage, Succeeds
    <3>2. status # Absent /\ status.id = issued /\ status.digest = Desired(txn)
      BY <1>0, <2>1, <2>3, <3>1, AbsentAssumption, QueuedType DEF LiveTypeOK, Stage
    <3>3. Newest /\ Told.digest = Desired(txn)
      <4>1. CASE status = Told
        BY <3>2, <4>1 DEF Newest
      <4>2. CASE status # Told
        <5>1. "disk_sync" \in Faults /\ status = [digest |-> req.digest, id |-> req.id]
          BY <4>2 DEF Told, Remembered
        <5>2. Settled
          BY <1>0, <2>1, <5>1 DEF Stage, NotMisled
        <5> QED
          BY <3>2, <5>1, <5>2 DEF Settled
      <4> QED
        BY <4>1, <4>2
    <3>4. pc'[m] = "committing"
      BY <3>1 DEF Goes, LiveTypeOK
    <3>5. Stage(m)'
      BY <2>1, <3>1, <3>3, <3>4 DEF Stage, Newest, Desired
    <3> QED
      BY <2>1, <3>1, <3>5, OwnStage
  <2> QED
    BY <1>9, <2>2, <2>3 DEF CheckStatus
<1>10. ~CommitFails(m)
  BY Honest DEF CommitFails, NotMisled
<1> QED
  BY <1>2, <1>3, <1>4, <1>5, <1>6, <1>7, <1>8, <1>9, <1>10 DEF Progress

Known == /\ TypeOK /\ Ownership /\ Applies /\ Remembered /\ Numbered /\ NewestServed
         /\ RowsInv /\ AllStages

(* All of it is inductive.                                                 *)
LEMMA KnownAlways ==
    ASSUME NotMisled
    PROVE  LiveSpec => []Known
<1> DEFINE Reconciling == /\ TypeOK /\ Ownership /\ Applies
                          /\ Remembered /\ Numbered /\ NewestServed
<1>0. Faults \cap Misleading = {}
  BY DEF NotMisled
<1>1. LiveSpec => []Reconciling
  BY <1>0, ManagersAreClients, NumberedAlways, PTL
<1>2. LiveInit => AllStages
  BY DEF LiveInit, AllStages, Stage
<1>3. Reconciling /\ RowsInv /\ AllStages /\ [LiveNext]_allvars => AllStages'
  <2> SUFFICES ASSUME Reconciling, RowsInv, AllStages, [LiveNext]_allvars PROVE AllStages'
    OBVIOUS
  <2>1. CASE (Work \/ World) /\ UNCHANGED mvars
    BY <1>0, <2>1, WorkStages, WorldStages
  <2>2. ASSUME NEW m \in Managers, \/ Operation(m) \/ Progress(m) \/ TimesOut(m)
                                   \/ CommitFails(m) \/ ManagerCrashes(m)
        PROVE  AllStages'
    BY <2>2, OperationStages, ProgressStages DEF RowsInv
  <2>3. CASE UNCHANGED allvars
    BY <2>3 DEF allvars, vars, mvars, AllStages, Stage, AsksFor, Newest, Settled,
                Told, Desired
  <2> QED
    BY <2>1, <2>2, <2>3 DEF LiveNext
<1>4. Reconciling /\ RowsInv /\ AllStages => Known
  BY DEF Known
<1> QED
  BY <1>1, <1>2, <1>3, <1>4, RowsAlways, PTL DEF LiveSpec

(* Without the failures that mislead a manager, what it is about to commit *)
(* is what the interface serves: for any number of managers, whichever     *)
(* answers come late or not at all, whatever wg or a disk refuses, and     *)
(* although managers die at any point.                                     *)
THEOREM CommitsAreLive ==
    ASSUME NotMisled
    PROVE  LiveSpec => []CommitIsLive
<1>1. Known => CommitIsLive
  BY DEF Known, NewestServed, AllStages, Stage, CommitIsLive
<1> QED
  BY <1>1, KnownAlways, PTL

=============================================================================
