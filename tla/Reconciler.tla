----------------------------- MODULE Reconciler -----------------------------
(***************************************************************************)
(* The root reconciler process (wg_manager/reconciler.py serve): it takes  *)
(* one connection at a time from its Unix socket, loads the expected-peer  *)
(* file, merges it into the live configuration, runs `wg syncconf`,        *)
(* verifies the interface, writes the ownership manifest and the status    *)
(* file, and answers.  Each action is one step between two effects another *)
(* process or a crash can observe.  The process restarts with its files    *)
(* and the interface as they were left: it applies nothing when it starts. *)
(*                                                                         *)
(* Its clients are abstract here: they write the expected-peer file,       *)
(* connect with a digest and go away.  LivePeers gives them their code.    *)
(***************************************************************************)
EXTENDS PeerConfig, Sequences

CONSTANTS
    Clients,      \* processes that connect to the reconciler's socket
    Payloads,     \* contents the expected-peer file may be given
    Absent,       \* a file that does not exist; no client
    Backlog,      \* connections the socket queues (listen(32))
    MaxRequests,  \* bound on the requests of a behaviour
    Faults        \* what may go wrong, a subset of FaultKinds

FaultKinds == {
    "wg_reject",         \* a wg command exits with an error
    "wg_spawn",          \* a wg command cannot be started: OSError, no exit code
    "wg_silent",         \* syncconf succeeds and changes nothing
    "wg_rollback",       \* the rollback syncconf fails
    "disk_write",        \* an atomic write fails before the rename
    "disk_sync",         \* it fails after the rename, at the directory fsync
    "disk_restore",      \* putting an old manifest or status file back fails
    "reconciler_crash",  \* the process dies: SIGTERM, SIGKILL, power
    "interface_restart", \* wg-quick reloads wg0.conf
    "operator",          \* an operator adds a peer with `wg set`
    "timeout",           \* a client gives up waiting for its answer
    "commit",            \* COMMIT fails
    "manager_crash",    \* a manager process dies
    "expected_write" }   \* a manager fails to write the expected-peer file

(* The failures that may leave keys on the interface nobody owns: death    *)
(* between syncconf and the manifest, and a rollback that does not happen. *)
Disowning == {"reconciler_crash", "wg_rollback", "wg_spawn", "disk_restore"}

ASSUME FaultsAssumption == Faults \subseteq FaultKinds

(* No content stands for a missing file.                                   *)
ASSUME AbsentAssumption == /\ \A S \in SUBSET ManagedKeys : S # Absent
                           /\ Absent \notin [digest : SUBSET Peer, id : Nat]
                           /\ Absent \notin Clients

ASSUME PayloadsAssumption == Payloads \subseteq SUBSET Peer

ASSUME BoundsAssumption == MaxRequests \in Nat /\ Backlog \in Nat

VARIABLES
    expected,  \* expected-peers.json, shared with the clients
    queue,     \* connections waiting to be accepted, with their request
    conn,      \* conn[c]: the client's end of its last connection
    issued,    \* number of request ids drawn
    live,      \* the configuration of the interface
    manifest,  \* reconciler-owned.json: the owned keys
    status,    \* reconcile-status.json: the last applied digest and request
    phase,     \* where the process is
    req,       \* the request being handled
    base,      \* the showconf output, which is also the rollback file
    cand,      \* the candidate file
    prior,     \* the manifest and status files read before the change
    answer     \* what will be answered

rvars == <<live, manifest, status, phase, req, base, cand, prior, answer>>
cvars == <<expected, queue, conn, issued>>
vars == <<expected, queue, conn, issued, live, manifest, status, phase, req,
          base, cand, prior, answer>>

NoRequest == [client |-> Absent, id |-> 0, digest |-> {}]
NoFiles == [manifest |-> Absent, status |-> Absent]
Requests == [client : Clients \cup {Absent}, id : Nat, digest : SUBSET Peer]
Payload == (SUBSET Peer) \cup {Absent}
Manifests == (SUBSET ManagedKeys) \cup {Absent}
Statuses == [digest : SUBSET Peer, id : Nat] \cup {Absent}

Phases == {"down", "idle", "loading", "syncing", "verifying", "undoing",
           "recording", "reporting", "unwinding", "restoring",
           "restoring_status", "replying"}

(* One type assertion per variable, and nothing else.                      *)
TypeOK ==
    /\ expected \in Payload
    /\ queue \in Seq(Requests)
    /\ conn \in [Clients -> [id : Nat, state : {"closed", "open", "applied", "failed", "eof"}]]
    /\ issued \in Nat
    /\ IsConf(live)
    /\ manifest \in Manifests
    /\ status \in Statuses
    /\ phase \in Phases
    /\ req \in Requests
    /\ IsConf(base)
    /\ IsConf(cand)
    /\ prior \in [manifest : Manifests, status : Statuses]
    /\ answer \in IF phase = "replying" THEN {"applied", "failed"} ELSE {"none"}

Init ==
    /\ expected = Absent
    /\ queue = <<>>
    /\ conn = [c \in Clients |-> [id |-> 0, state |-> "closed"]]
    /\ issued = 0
    /\ live = Boot
    /\ manifest = Absent
    /\ status = Absent
    /\ phase = "idle"
    /\ req = NoRequest
    /\ base = NoConf
    /\ cand = NoConf
    /\ prior = NoFiles
    /\ answer = "none"

-----------------------------------------------------------------------------
(* The keys a manifest owns; none before the first apply.                  *)
Owned(m) == IF m = Absent THEN {} ELSE m

Answers(a) == phase' = "replying" /\ answer' = a

Fails == Answers("failed")

(* server.accept() and the read of the request.                            *)
Accept ==
    /\ phase = "idle"
    /\ queue # <<>>
    /\ req' = Head(queue)
    /\ queue' = Tail(queue)
    /\ phase' = "loading"
    /\ UNCHANGED <<expected, conn, issued, live, manifest, status, base, cand, prior, answer>>

(* The file is there, has the digest the client asked for, is well formed  *)
(* and can be merged into what is live.                                    *)
Acceptable ==
    /\ expected # Absent
    /\ expected = req.digest
    /\ WellFormed(expected)
    /\ Mergeable(live, expected, Owned(manifest), manifest = Absent)

(* Mutation of Load: the process goes back to accept() when it cannot do   *)
(* what it is asked, and does not answer.                                  *)
LoadForgets ==
    /\ phase = "loading"
    /\ \/ /\ Acceptable
          /\ cand' = Merge(live, expected, Owned(manifest))
          /\ base' = live
          /\ prior' = [manifest |-> manifest, status |-> status]
          /\ phase' = "syncing"
          /\ UNCHANGED req
       \/ /\ ~Acceptable
          /\ phase' = "idle"
          /\ req' = NoRequest
          /\ UNCHANGED <<base, cand, prior>>
    /\ UNCHANGED <<expected, queue, conn, issued, live, manifest, status, answer>>

(* Mutation of Load: a request that is not acceptable is dropped without   *)
(* an answer.                                                              *)
LoadDrops ==
    /\ phase = "loading"
    /\ Acceptable
    /\ base' = live
    /\ prior' = [manifest |-> manifest, status |-> status]
    /\ cand' = Merge(live, expected, Owned(manifest))
    /\ phase' = "syncing"
    /\ UNCHANGED <<expected, queue, conn, issued, live, manifest, status, req, answer>>

(* Everything before syncconf: it only reads, and writes temporary files.  *)
Load ==
    /\ phase = "loading"
    /\ base' = live
    /\ prior' = [manifest |-> manifest, status |-> status]
    /\ \/ /\ Acceptable
          /\ cand' = Merge(live, expected, Owned(manifest))
          /\ phase' = "syncing"
          /\ UNCHANGED answer
       \/ /\ ~Acceptable \/ Faults \cap {"wg_reject", "wg_spawn", "disk_write"} # {}
          /\ Fails
          /\ UNCHANGED cand
    /\ UNCHANGED <<expected, queue, conn, issued, live, manifest, status, req>>

(* wg syncconf with the candidate.  A rejected one may have been applied   *)
(* or not; an OSError from the runner is not a ReconcileError and reaches  *)
(* _handle_request without a rollback.                                     *)
SyncConf ==
    /\ phase = "syncing"
    /\ \/ live' = cand /\ phase' = "verifying" /\ UNCHANGED answer
       \/ /\ "wg_silent" \in Faults
          /\ phase' = "verifying"
          /\ UNCHANGED <<live, answer>>
       \/ /\ "wg_reject" \in Faults
          /\ live' \in {live, cand}
          /\ phase' = "undoing"
          /\ UNCHANGED answer
       \/ "wg_spawn" \in Faults /\ Fails /\ UNCHANGED live
    /\ UNCHANGED <<expected, queue, conn, issued, manifest, status, req, base, cand, prior>>

Verified == Matches(live, cand, req.digest, Owned(manifest) \ KeysOf(req.digest))

(* wg show allowed-ips against the candidate.                              *)
Verify ==
    /\ phase = "verifying"
    /\ \/ Verified /\ phase' = "recording" /\ UNCHANGED answer
       \/ /\ ~Verified \/ "wg_reject" \in Faults
          /\ phase' = "undoing"
          /\ UNCHANGED answer
       \/ "wg_spawn" \in Faults /\ Fails
    /\ UNCHANGED <<expected, queue, conn, issued, live, manifest, status, req, base, cand, prior>>

(* Mutation of RollbackLive: the interface is left as it is.               *)
RollbackSkipped == UNCHANGED live

(* _rollback_live: syncconf with the snapshot.                             *)
RollbackLive ==
    \/ live' = base
    \/ Faults \cap {"wg_rollback", "wg_spawn"} # {} /\ UNCHANGED live

Undo ==
    /\ phase = "undoing"
    /\ RollbackLive
    /\ Fails
    /\ UNCHANGED <<expected, queue, conn, issued, manifest, status, req, base, cand, prior>>

-----------------------------------------------------------------------------
(* _atomic_bytes_write of new over old: it fails before the rename with    *)
(* the old content, or after it with the new one.                          *)
WriteFails(old, new, file) ==
    \/ "disk_write" \in Faults /\ file = old
    \/ "disk_sync" \in Faults /\ file = new

(* Mutation of RecordManifest: whole peers are recorded instead of keys.   *)
RecordPeers ==
    /\ phase = "recording"
    /\ manifest' = req.digest
    /\ phase' = "reporting"
    /\ UNCHANGED <<expected, queue, conn, issued, live, status, req, base, cand, prior, answer>>

RecordManifest ==
    /\ phase = "recording"
    /\ LET new == KeysOf(req.digest)
       IN  \/ manifest' = new /\ phase' = "reporting"
           \/ WriteFails(manifest, new, manifest') /\ phase' = "unwinding"
    /\ UNCHANGED <<expected, queue, conn, issued, live, status, req, base, cand, prior, answer>>

RecordStatus ==
    /\ phase = "reporting"
    /\ LET new == [digest |-> req.digest, id |-> req.id]
       IN  \/ status' = new /\ Answers("applied")
           \/ /\ WriteFails(status, new, status')
              /\ phase' = "unwinding"
              /\ UNCHANGED answer
    /\ UNCHANGED <<expected, queue, conn, issued, live, manifest, req, base, cand, prior>>

(* A file could not be persisted: roll the interface back; whether that    *)
(* works or not, the finally clause goes on to put both files back.        *)
Unwind ==
    /\ phase = "unwinding"
    /\ RollbackLive
    /\ phase' = "restoring"
    /\ UNCHANGED <<expected, queue, conn, issued, manifest, status, req, base, cand, prior, answer>>

(* Mutation of RestoreManifest: the new manifest stays.                    *)
RestoreManifestSkipped ==
    /\ phase = "restoring"
    /\ phase' = "restoring_status"
    /\ UNCHANGED <<expected, queue, conn, issued, live, manifest, status, req, base, cand, prior, answer>>

(* _restore_file of the manifest; if it raises, the status file stays.     *)
RestoreManifest ==
    /\ phase = "restoring"
    /\ \/ manifest' = prior.manifest /\ phase' = "restoring_status" /\ UNCHANGED answer
       \/ "disk_restore" \in Faults /\ manifest' \in {manifest, prior.manifest} /\ Fails
    /\ UNCHANGED <<expected, queue, conn, issued, live, status, req, base, cand, prior>>

(* Mutation of RestoreStatus: the new status file stays.                   *)
RestoreStatusSkipped ==
    /\ phase = "restoring_status"
    /\ Fails
    /\ UNCHANGED <<expected, queue, conn, issued, live, manifest, status, req, base, cand, prior>>

RestoreStatus ==
    /\ phase = "restoring_status"
    /\ \/ status' = prior.status
       \/ "disk_restore" \in Faults /\ UNCHANGED status
    /\ Fails
    /\ UNCHANGED <<expected, queue, conn, issued, live, manifest, req, base, cand, prior>>

(* The answer reaches the client if it still holds this connection; an     *)
(* error of sendall is ignored.  Then the next connection is accepted.     *)
Reply ==
    /\ phase = "replying"
    /\ conn' = [c \in Clients |->
                   IF conn[c].state = "open" /\ conn[c].id = req.id
                   THEN [conn[c] EXCEPT !.state = answer] ELSE conn[c]]
    /\ phase' = "idle"
    /\ req' = NoRequest
    /\ base' = NoConf
    /\ cand' = NoConf
    /\ prior' = NoFiles
    /\ answer' = "none"
    /\ UNCHANGED <<expected, queue, issued, live, manifest, status>>

-----------------------------------------------------------------------------
(* The process dies at any point; every connection it holds or has queued  *)
(* is closed by the kernel.                                                *)
Crash ==
    /\ "reconciler_crash" \in Faults
    /\ phase # "down"
    /\ phase' = "down"
    /\ queue' = <<>>
    /\ conn' = [c \in Clients |->
                   IF conn[c].state = "open"
                   THEN [conn[c] EXCEPT !.state = "eof"] ELSE conn[c]]
    /\ req' = NoRequest
    /\ base' = NoConf
    /\ cand' = NoConf
    /\ prior' = NoFiles
    /\ answer' = "none"
    /\ UNCHANGED <<expected, issued, live, manifest, status>>

(* systemd starts it again: it binds the socket and waits.                 *)
Restart ==
    /\ phase = "down"
    /\ phase' = "idle"
    /\ UNCHANGED <<expected, queue, conn, issued, live, manifest, status, req,
                   base, cand, prior, answer>>

Work == \/ Accept \/ Load \/ SyncConf \/ Verify \/ Undo
        \/ RecordManifest \/ RecordStatus
        \/ Unwind \/ RestoreManifest \/ RestoreStatus \/ Reply

-----------------------------------------------------------------------------
(* wg-quick down and up: the peers of wg0.conf are all that is left.       *)
InterfaceRestarts ==
    /\ "interface_restart" \in Faults
    /\ live' = Boot
    /\ UNCHANGED <<expected, queue, conn, issued, manifest, status, phase, req,
                   base, cand, prior, answer>>

(* An operator adds a peer whose networks no managed peer uses.            *)
OperatorAdds(k) ==
    /\ "operator" \in Faults
    /\ k \notin DOMAIN live
    /\ \A j \in DOMAIN live \cap ManagedKeys : live[j] \cap ForeignNets[k] = {}
    /\ live' = [j \in DOMAIN live \cup {k} |->
                   IF j = k THEN ForeignNets[k] ELSE live[j]]
    /\ UNCHANGED <<expected, queue, conn, issued, manifest, status, phase, req,
                   base, cand, prior, answer>>

(* A client renames a new expected-peer file into place, or removes it.    *)
ClientWrites(e) ==
    /\ expected' = e
    /\ UNCHANGED <<queue, conn, issued, live, manifest, status, phase, req,
                   base, cand, prior, answer>>

(* A client connects and sends {apply, digest d, fresh id}.                *)
ClientConnects(c, d) ==
    /\ phase # "down"
    /\ conn[c].state = "closed"
    /\ Len(queue) < Backlog
    /\ issued < MaxRequests
    /\ issued' = issued + 1
    /\ queue' = Append(queue, [client |-> c, id |-> issued', digest |-> d])
    /\ conn' = [conn EXCEPT ![c] = [id |-> issued', state |-> "open"]]
    /\ UNCHANGED <<expected, live, manifest, status, phase, req, base, cand, prior, answer>>

(* A client closes its socket, answered or not.                            *)
ClientCloses(c) ==
    /\ conn[c].state # "closed"
    /\ conn' = [conn EXCEPT ![c].state = "closed"]
    /\ UNCHANGED <<expected, queue, issued, live, manifest, status, phase, req,
                   base, cand, prior, answer>>

World == \/ Crash \/ Restart \/ InterfaceRestarts
         \/ \E k \in ForeignKeys : OperatorAdds(k)

Environment ==
    \/ \E e \in Payloads \cup {Absent} : ClientWrites(e)
    \/ \E c \in Clients, d \in Payloads : ClientConnects(c, d)
    \/ \E c \in Clients : ClientCloses(c)

Next == Work \/ World \/ Environment

Spec == Init /\ [][Next]_vars

(* The process is a loop that is never idle while a connection waits:      *)
(* every wg command and every file operation returns.                      *)
FairSpec == Spec /\ WF_vars(Work) /\ WF_vars(Restart)

-----------------------------------------------------------------------------
(* Whatever fails and wherever the process dies, no address of a managed   *)
(* peer is ever routed to a second peer: overlaps are refused by the merge *)
(* (lines 180-186), duplicates by the load (lines 132-146).                *)
NoAddressSharing == Disjoint(live)

(* Whatever fails and wherever the process dies, the peers of wg0.conf     *)
(* stay on the interface with the networks they had: the manager neither   *)
(* owns nor rewrites them (lines 168-172, 195-205).                        *)
BootPeersKept == KeepsBoot(live)

(* Why they hold: the snapshot and the candidate, which syncconf may put   *)
(* on the interface at any later moment, have both properties too for as   *)
(* long as they may be used.                                               *)
SafeRegisters ==
    /\ Disjoint(live) /\ Disjoint(base) /\ Disjoint(cand)
    /\ KeepsBoot(live)
    /\ phase \in {"syncing", "verifying", "undoing", "recording", "reporting",
                  "unwinding"} => KeepsBoot(base)
    /\ phase = "syncing" => KeepsBoot(cand)

(* Between two requests the manifest owns every managed key on the         *)
(* interface; one it does not own could never be revoked again, for the    *)
(* merge keeps what it does not own (line 199).                            *)
NoOrphans == phase \in {"idle", "loading"} =>
                 DOMAIN live \cap ManagedKeys \subseteq Owned(manifest)

(* Why it holds when the process neither dies nor fails to roll back: each *)
(* configuration that is or may get on the interface is owned by the       *)
(* manifest that is or will be in place with it.                           *)
OwnedBy(c, m) == DOMAIN c \cap ManagedKeys \subseteq Owned(m)

Ownership ==
    /\ phase # "down"
    /\ phase \in {"idle", "loading", "syncing", "reporting", "restoring_status",
                  "replying"} => OwnedBy(live, manifest)
    /\ phase \in {"syncing", "verifying", "undoing", "recording"} =>
           OwnedBy(base, manifest) /\ prior.manifest = manifest
    /\ phase \in {"syncing", "verifying"} => OwnedBy(cand, KeysOf(req.digest))
    /\ phase = "recording" => OwnedBy(live, KeysOf(req.digest))
    /\ phase \in {"reporting", "unwinding"} => OwnedBy(base, prior.manifest)
    /\ phase = "restoring" => OwnedBy(live, prior.manifest)

(* A request answered "applied" is what the interface serves: each desired *)
(* peer, with its address only, and no other managed key (lines 259-300).  *)
AppliedIsLive == phase = "replying" /\ answer = "applied" => Serves(live, req.digest)

(* Between two requests the two files tell of the same apply: the status   *)
(* file's digest is the one whose keys the manifest owns (lines 284-312).  *)
FilesAgree == phase \in {"idle", "loading"} =>
                  IF status = Absent THEN manifest = Absent
                                     ELSE manifest = KeysOf(status.digest)

(* A request answered "failed" has left the interface and both files as it *)
(* found them (lines 276-283 and 301-312).                                 *)
FailureRestores ==
    phase = "replying" /\ answer = "failed" =>
        live = base /\ [manifest |-> manifest, status |-> status] = prior

(* Whatever fails and wherever the process dies, a client that still waits *)
(* has a connection that somebody will answer or close: its request is in  *)
(* hand or queued (lines 343-361).                                         *)
OpenIsHeld ==
    \A c \in Clients : conn[c].state = "open" =>
        \/ phase \notin {"idle", "down"} /\ req.id = conn[c].id
        \/ \E i \in 1 .. Len(queue) : queue[i].id = conn[c].id

(* No client waits for ever: a connection is answered, closed by the       *)
(* client, or broken.                                                      *)
EveryRequestAnswered ==
    \A c \in Clients : conn[c].state = "open" ~> conn[c].state # "open"
=============================================================================
