# wireguard_manager in TLA+

wireguard_manager adds and revokes WireGuard peers on a running interface. A
Flask application and a command line (`src/wg_manager`) keep users and devices
in one SQLite database; every change of a device becomes an expected-peer file,
which a root process, the reconciler, merges into the live interface with
`wg syncconf`. This directory models that system: what the processes do to the
database, the files and the interface, step by step, with the failures and
crashes the code has branches for.

## 1. Inventory

| Component | State | Operations | Interacts with | What is hard | What makes it correct |
|---|---|---|---|---|---|
| Reconciler (`reconciler.py`) | interface; `reconciler-owned.json` (manifest), `reconcile-status.json`; candidate and rollback files | `serve`: accept, load, merge, syncconf, verify, record, or undo; `once` | reads the expected-peer file; socket; `wg` | stops between any two effects; wg, writes, renames and fsyncs fail; `showconf` goes stale | unmanaged peers and address uniqueness survive everything; applied means live; failed means unchanged; every managed key stays owned |
| Live adapter (`adapter.py`) | expected-peer file, its previous content | write, request, wait, check the status file, put back | services above, reconciler below | lost and late answers, timeouts, failing writes | success is reported only for what is live |
| Services and database (`services.py`, `db.py`) | `users`, `devices`, `pending_device_resets`, `installers`, audit | device create/reset/delete, prepare/activate a reset, routes, users, reconcile | adapter, inside the write transaction | COMMIT after the live apply; compensation outside the lock; process death | the table never runs ahead of the interface; at rest both agree; addresses and keys are distinct |
| Device reset (`routes.py`, `devices.js`, `qr.html`) | response, its close hook, the page | prepare, deliver once, activate by hook, script or form | services; WSGI server; browser | hook, script, form, CLI and administrator in any order; broken downloads | no key is revoked before its successor has arrived; a prepared reset is never stale |
| Accounts, sessions, login throttle (`security.py`, `__init__.py`, `routes.py`) | `users`, cookies, `login_throttle` | login, logout, password, create, enable/disable | database | old sessions, rows read before a reset, threads counting one failure, two administrators disabled at once | an accepted session was earned with the current password; an enabled administrator remains; guesses are bounded |
| Installer store (`services.py`) | files, `installers` | upload, verify, download | file system and database | file and row written one after the other; interrupts, crashes, power failures | a listed installer has its file with its digest; nothing unlisted stays behind |
| Route policy and allocation (`policy.py`, `allocate_ip`) | none | normalise, first free address | services | covered and neighbouring routes; boundaries of the pool | a device gets the routes that were asked for, without redundancy; addresses are assignable and free |
| Session secret (`security.py`) | `session-secret` | load or create | processes starting together | the loser reads a file being written; a crash leaves it empty | all processes use one secret |
| Command line (`cli.py`) | output file | the services, one process per call | services | configuration written after COMMIT | the configuration is never overwritten |
| Container entrypoint and units (`docker/`, `deploy/`) | key file, socket | wait, export, reconcile, serve | WireGuard server, reconciler, Web | any start order; what an earlier boot left; a server restart that leaves the others in its old network namespace | Web serves only after a successful reconcile, with the interface's key, and comes up in the end |
| Pages, static files, application factory | none | `create_app`, rendering, headers | routes | two processes migrating one database | all processes find every column |

Hazards, each at its line and with the property that covers it, are in
`PROJECT.json`.

## 2. Modules

`PeerConfig` - the data. A configuration maps public keys to the addresses
their AllowedIPs cover; an expected-peer file is the set of its `[key, ip]`
entries. `WellFormed` is `load_expected_state`, `Mergeable` and `Merge` are the
refusals and the result of `merge_peer_state`, `Matches` is
`_verify_live_state`. A SHA-256 digest is the content itself: digests are equal
exactly when contents are. Foreign peers may cover several addresses
(`ForeignNets`), managed ones have one /32.

`Reconciler` - the process, one action per stretch of `apply_expected_state`
between two effects somebody else can see:

| Action | Code |
|---|---|
| `Accept`, `Reply` | `serve`: accept and read, sendall |
| `Load` | digest, manifest, showconf, merge, previous files, temporary files |
| `SyncConf`, `Verify`, `Undo` | syncconf; `_verify_live_state`; the `except ReconcileError` rollback |
| `RecordManifest`, `RecordStatus` | the two atomic writes |
| `Unwind`, `RestoreManifest`, `RestoreStatus` | the `except OSError` branch and its `finally` |
| `Crash`, `Restart` | death at any point, systemd's restart with whatever was left |
| `InterfaceRestarts`, `OperatorAdds` | wg-quick and an operator, outside the code |
| `ClientWrites`, `ClientConnects`, `ClientCloses` | clients, arbitrary here |

`Faults` selects which of `FaultKinds` may happen, so that each run says under
which failures its properties hold.

`LivePeers` - the managers, with the code of `services.py`, `adapter.py` and
`db.transaction`, composed with the whole of `Reconciler` by EXTENDS: its
`Work` and `World` steps interleave with theirs and its abstract clients are
replaced by them. `owner` is SQLite's write lock, `txn` the rows inside the open
transaction, `db` the committed ones. A manager runs through reading (the
previous file), rendering, writing, connecting, waiting, checking (the status
file), restoring, failing, committing. `CommitFails` is an exception after the
live apply; the manager then goes through the same stages without the lock,
which is `_compensate_live_state`.

`PeerPromise` - the abstract specification: a proposed table is installed
before it is accepted, and taken off before it is withdrawn. `LivePeers`
instantiates it (`Promise`) with the committed rows as `table`, the managed part
of the interface as `iface` and the open transaction as `proposal`.

`DeviceReset` - the rows `devices` and `pending_device_resets` of a device, the
responses that carry prepared configurations (`tab`), and the configurations
that arrived (`held`). Here each service call is one step, as each is one write
transaction; what its live apply may do is `LivePeers`' subject and appears as
one that succeeds or rolls back.

`AllowedIps` - `normalize_client_allowed_ips` over addresses of `Width` bits, an
address being the sequence of its bits: which lists are refused and which routes
remain. `DeviceReset` extends it, so that a device row, a delivered configuration and
the administrator's request (`asked`, what was last accepted) are compared in one
model.

`Accounts` - `users`, `login_throttle`, the signed cookies and the requests of Web
threads and commands. Outside a transaction every statement commits by itself,
so the login page is modelled statement by statement:

| Action | Code |
|---|---|
| `LoginBegin`, `LoginExpire` | `throttle_status`: SELECT, and the DELETE of a row whose window is over |
| `LoginCheck` | the `users` row is read, the password compared with it |
| `LoginCount`, `LoginRecord` | `record_login_failure`: SELECT, upsert |
| `LoginSucceed` | `clear_login_failures`, the cookie with the version of the row read before |
| `LoginFails`, `CountFails` | a statement of the login fails, for the disk or after 15 s of `busy_timeout`: the page ends in an error, and a wrong password stays uncounted if the statement is one of `record_login_failure` |
| `WebBegin`, `Privileged` | `load_authenticated_user`, `admin_required` |
| `ConfirmPassword`, `SetPassword` | the own password is compared, then set; a reset by an administrator |
| `UpdateBegin`, `UpdateCommit`, `UpdateRollback` | `update_user`, which holds the write lock (`writer`) while it applies to the interface |
| `CreateUser` | `create_user` |

`era` counts, beside the code, how often a user's sessions should have been
revoked; `guesses` counts the wrong passwords compared since the second `since`,
and `lost` those of them whose count could not be stored.
At a tick the count goes on while the interval is shorter than the throttle's
window, or starts anew: the runs and the proof see every interval. Logging out changes
nothing on the server: a copy of the cookie is accepted until the version
changes, so there is no action for it.

`InstallerStore` - an upload as the steps between two effects on disk or database:
temporary file, the try that guards it (`UploadTry`), content, rename, COMMIT, and
the handler that removes what is left (`RemoveTemp`, `RemoveFinal`). `Abandon` cuts an
upload off where it is: in its handler, wherever the process dies, or by an interrupt
between mkstemp and the try, where there is no handler yet. `PowerLoss` takes back
renames the host has not written (`unsynced`): the row is durable at COMMIT, the directory entry is not. A download compares the
digest and then opens the file again.

`Startup` - the three container roles: `Rec*` is the reconciler until it
listens, `Start` to `ReconcileJob` a manager process from `_manager` or `_cli` through
`create_app`, twice for the Web manager (once for `wg-manager reconcile`, once for
the server). Key file, socket path, secret and database are what an earlier
boot left. A wait tries its predicate, sleeps, and looks at the clock before it tries
again: `Looks` and `RecLooks` are a try that fails, after which the wait may end by
`Timeout` or `RecTimeout` although what it waits for has come in between.

Reconciler and Web manager run with `--network container:wireguard-server`. When
the server restarts they stay in its old namespace, where the interface may be
there still or not (`orphan`), until they are restarted themselves. `steady` names
those of the two that were started since the server was, the Web manager only if no
reconciler of before was running then, and `SeenIface` is what the reconciler finds in
its namespace. The socket is a file both mount, so an old manager may ask a new
reconciler and the reverse; only a reconcile by a steady reconciler makes the
peers `live` on the server's interface. `RecReboot` and then `WebReboot` are the operator's
restarts in the order of docs/DOCKER_DEPLOYMENT.md:229-235.

`MCReconciler`, `MCLivePeers`, `MCDeviceReset`, `MCAccounts`, `MCInstallerStore`,
`MCStartup` - constants of the runs.

`ReconcilerProofs`, `ReconcilerFaultProofs`, `LivePeersProofs`, `PeerPromiseProofs`,
`DeviceResetProofs`, `AccountsProofs`, `InstallerStoreProofs`, `StartupProofs` - theorems
about the modules they are named after (section 4). `ReconcilerFaultProofs` builds on
`ReconcilerProofs`, `LivePeersProofs` on both, `PeerPromiseProofs` on all three.

Operators named after another with a suffix (`LoadDrops`, `CheckDigest`, ...)
and commented "Mutation of" are deliberately wrong variants. No specification
uses them; `PROJECT.json` pairs each with the property that must notice it.

### Abstractions

- wg syntax, JSON, validation of names, file modes and audit records are left
  out; a malformed file, a symbolic link and so on are one refusal in `Load`.
- A rejected syncconf has had no effect or its whole effect.
- File replacement is atomic; a failing one (`WriteFails`) leaves the old file,
  or the new one when only the fsync of the directory fails. The `.previous`
  copy beside the expected-peer file is never read by the code and is left out.
- The operator's peers do not overlap managed ones: kernel routing would take
  the address away from the managed peer whatever the manager does.
- Generated keys never repeat (`DrawsKey`), and keys of foreign peers are not
  generated.
- A request is read in one step: the adapter sends it in one call right after
  connecting.
- SQLite transactions are serialised by BEGIN IMMEDIATE; `busy_timeout`
  expiring before the change begins is an operation that never began. For the
  statements of a login, which are no transaction, it is a step (`LoginFails`,
  `CountFails`).
- The response's hook becomes due (`ResponseCloses`) when the body has arrived or
  was lost: the server closes the response when it has handed the body to the
  socket, and the grace period covers the way from there. Under the fault
  `slow_body` it does not.
- The parts of a route list are a set: a part given twice counts once towards
  `MaxRoutes`, where the code counts both.
- A username is logged in to from one source address, so that it stands for its
  login key. The clock and the SELECT after it are one step.
- Passwords are right or wrong; a comparison with a row read before a reset is
  one with the old password.
- An installer's metadata are valid; an invalid upload changes nothing.
- Listing the columns and adding the missing ones are one pair of steps for all
  columns: the loser of the race fails at the first one that is there by then,
  and the next start adds what is missing.
- The secret comes from the file; `WG_MANAGER_SECRET_KEY` makes the file unused.
  A reconcile of `Startup` succeeds if the reconciler serves and the interface is
  up; its own failures are the subject of `LivePeers`.

## 3. Runs

| Run | Question | Result |
|---|---|---|
| `rec_faults` | every fault and crash at once: `NoAddressSharing`, `BootPeersKept` and the invariant they rest on, `SafeRegisters`; `OpenIsHeld`, what remains of `EveryRequestAnswered` when the process may die | holds |
| `rec_recovers` | refused or ineffective wg commands, failing writes: `AppliedIsLive`, `FilesAgree`, `FailureRestores`, `NoOrphans` with its inductive form `Ownership`, and `EveryRequestAnswered` | holds |
| `live_lossy` | two managers, refused applies, timeouts, dead managers, failed writes: `CommitIsLive`, `DistinctDevices` | holds |
| `live_undone` | failures both sides see: `PeersFollowTable` (the refinement of `PeerPromise`) and `QuiescentAgreement` | holds |
| `live_ends` | `OperationsTerminate` with lost answers, failing COMMITs, reconciler crashes, full backlog | holds |
| `live_late` | `QuiescentAgreement` after a timeout | violated |
| `live_commit` | `CommitIsLive` with two managers and a failing COMMIT | violated |
| `reset_rows` | `PendingIsCurrent`, `DeliveredRoutesAreCurrent`, `RoutesAreAsked` under every reset fault | holds |
| `reset_delivered` | `OnlyDeliveredKeys` and `DownloadsResolve` for downloads that arrive within the grace period, the worker ending before its hook included | holds |
| `accounts` | two Web threads and a command: `SessionsAreCurrent`, `AdminRemains`, `GuessBound` | holds |
| `installers` | every fault and crash of uploads and the host: `RowsHaveFiles`, `ServedIsVerified`, `NoStrays` | holds |
| `startup` | any start order, kills, late timeouts, a server restart under running or starting containers and the operator's restarts after it: `PreparedAlike`, `KeyIsCurrent`, `ServingIsLive`, `WebComesUp` | holds |

The two violated runs each contradict a sentence of the documentation;
`PROJECT.json` quotes it under "findings":

1. `live_late`: a request that times out is undone in the database but not on
   the interface when the reconciler finishes it later.
2. `live_commit`: a compensation, holding no lock, overwrites another manager's
   live state just before that one commits. With one manager alone the
   compensation does bring the interface back.

The passing runs stay within limits that the same modules show with other
constants:

- `rec_recovers` with `Faults = {"wg_spawn"}` violates `FailureRestores`: an OSError
  raised by starting `wg` for the verification is not a `ReconcileError` and
  skips the rollback. With `{"operator"}` a peer added between showconf and
  syncconf is lost.
- `live_lossy` with `Faults = {"reconciler_crash"}` violates `CommitIsLive`: a crash
  between syncconf and the manifest leaves a key that later reconciles treat
  as an operator's peer. With `{"timeout", "disk_sync"}` a manager that timed
  out believes a status file that is then rolled back.
- `reset_delivered` with `"qr"` among the `Deliveries` violates `OnlyDeliveredKeys`: the
  form below a QR code activates a newer reset than the one shown. With
  `{"lost_body"}` the close hook activates a key whose configuration was lost.
- `RoutesAreAsked` asks for a confirmation of the full tunnel only from the first
  policy change on: `create_device` stores `--allowed-ips 0.0.0.0/0`, or such a default, as it
  is, and has no parameter to confirm it.
- `KeyIsCurrent` is about a key that was read while a steady reconciler serves. On a
  parallel start with a replaced interface key the Web manager may read the key
  file of the last boot, wait for the socket until the new reconciler listens,
  and serve with the old key: the wait for the key is satisfied by any file.
- `WebComesUp` excepts a session-secret left empty by a process that died between
  creating and writing it: nothing in the code removes that file. It rests on the
  operator's restarts: without `RecReboot` and `WebReboot` a manager may stay in the
  old namespace, up and of no use to anybody.
- `GuessBound` is far from `LOGIN_ATTEMPT_LIMIT`. With two threads and a limit of 2
  its bound for one second, `Burst` = 9, is reached: `(Limit + 1) * (Limit + 2) / 2 - 1`
  because a slow thread stores the count it read early over the one the other has
  reached meanwhile, and twice `Limit` because it may delete, or put back, a row
  that is over. The bound for a whole window, 36 there, is not tight: 13 is what
  TLC reaches when it is given more logins. A guess whose count fails to be
  stored comes on top of it (`lost`): such failures are bounded by nothing in the code
  but the 15 s each takes when the reason is the lock.
- `RowsHaveFiles` excepts files a power failure took back before the directory
  was written.

### Bounds

Reconciler runs have two managed keys, one peer of wg0.conf, one peer an
operator may add, addresses 2-4 (4 belongs to wg0.conf, 3 to the operator's
peer) and up to three requests. `MCPayloads` has every relation two files can
have: addition, removal, a new key at the same address, overlap with either
foreign peer, one address twice. Three requests are enough for an apply, a
change and a retry with the state left by the first two. `Backlog` is 1, so
that it fills.

LivePeers runs have two addresses, one to three keys, an administrator and a
user, two managers (one where a single process already shows the point) and
up to three operations: create, change, delete, or a reset between two others.
`EnoughRequests` makes `MaxRequests` twice `MaxOperations`, one request for
the operation and one for its compensation, so the bound on requests stops
nothing. The runs end when the operations are used up, hence
`CHECK_DEADLOCK FALSE`; the reconciler runs check deadlock.

DeviceReset runs have one device (no operation reads two devices' rows), two
tabs, three generated keys, three policy revisions and route lists over
addresses of two bits (a full tunnel with a redundant route, its two halves, a
list with a host bit, one that is too long):
an older and a newer download and a CLI reset or policy change between them.
They too end when keys are used up.

The Accounts run has two administrators, two Web threads, one command, a limit
of 2, a window of two ticks and two ticks, so that an interval may go on over a
tick and a row of its first second may end in the last. `MCBudgets` starts it with ten logins
and no changes, the fewest with which the nine guesses that `GuessBound` allows
in one second are reached and a tenth could be seen, with four logins and two
failing statements, or with two
logins and three changes: a login that races with a reset, or a user disabled
and enabled again while an old cookie is around.

The InstallerStore run has two uploads, one download and three ids, so that an
upload that was cut off lies beside two others. The Startup run has the Web
manager and one command, which is every race of two first starts, two keys of
the interface, two kills and one restart of the server; its initial states are
a first installation and what a boot of an earlier release left. These are 808,070
distinct states.

### Fairness

`FairSpec`: weak fairness of the serve loop and of the restart. The loop has no
wait but accept and calls that return (wg commands, file operations); systemd's
`Restart=on-failure` restarts it. `LiveFairness` adds each manager's own
code: it never waits but for the lock before it begins, and for the socket, which
has a timeout. Starting an operation, COMMIT failing and a crash are never
fair. `FairResetSpec`: the Web server finishes its responses and runs hooks,
the network delivers or breaks; nobody is obliged to press a button.
`FairStartSpec`: every container goes on and is restarted when it ends (`--restart
unless-stopped`), the server brings its interface up, and the operator, who has
restarted the server, restarts the reconciler and then the manager as the
documents ask. How often a wait times out is not limited, but one that begins when its
predicate holds succeeds at the first try.

## 4. Proofs

The theorems hold for all values of the constants that satisfy the named
assumptions of the modules: any number of keys, addresses, networks, clients,
managers, users, devices, uploads, processes, any bounds and, where nothing else is
said, any set of faults. Every inductive invariant was checked by TLC on the
constants of the runs before it was proved. A preservation proof has one lemma
per kind of actor and one step per action in it.

**`ReconcilerProofs`**

- `TypeCorrect`: `Spec => []TypeOK`.
- `RegistersSafe`: `Spec => []SafeRegisters`, from which `AddressesNotShared` and
  `BootPeersStay` follow. `NoAddressSharing` alone is not inductive: syncconf
  puts the candidate or the snapshot on the interface steps after it was
  computed, so both must have the property while they may still be used. The
  data lemmas carry the weight: `MergeDisjoint` (a well-formed file that does not
  overlap an unmanaged peer merges into a configuration where no address is
  shared, given that the old one had none) and `MergeKeepsBoot`.
- `OwnershipKept`, `NoKeyOrphaned`: if `Faults` has none of `Disowning`.
  `Ownership` is the inductive form of `NoOrphans`: at each phase the configuration
  that is or may come on the interface is owned by the manifest that is or will
  be in place with it.
- `NobodyForgotten`: `Spec => []OpenIsHeld`, and `WorkRunsOut`: each step of the process
  takes it nearer to the end of what it has to do (`StepsLeft`, ten for each request in
  the queue and less for the one in hand). Nothing is retried between accept and the
  answer, so of `EveryRequestAnswered` only this is left to TLC: that the process,
  when it has work, does make its next step.

**`ReconcilerFaultProofs`** says which failures each promise of an answer survives.

- `FailuresRestore`: `FailureRestores` unless one of `Tracing` happens (the rollback or
  the restoring of a file fails, wg cannot be started, somebody else writes to the
  interface). `Restores` says what has been changed, and what put back, at each
  phase.
- `FilesStayTogether`: `FilesAgree` without crashes and failing restores; foreign
  changes of the interface are allowed. `Together` adds the two contents
  remembered in `prior`.
- `AppliedStaysLive`: `AppliedIsLive` without `Disowning` failures and reloads. It needs
  `Ownership`: what Verify has compared is the desired peers, and that no other
  managed key is live follows only from the candidate being owned.

**`LivePeersProofs`**

- `ManagersAreClients`: `LiveSpec => Spec`. Every step of a manager is a client's
  step or not seen by the reconciler, so all of the above holds of the composition;
  `LiveAddressesNotShared` is the instance that matters most.
- `DevicesStayDistinct`: `DistinctDevices` under every fault. `RowsInv` adds the rows
  of the open transaction, that keys in rows have been drawn, that the lock and
  the transaction exist together and that only the lock's holder commits. That
  there is a first free address (`FirstAddress`) follows from the library's
  theorem on strict inclusion of finite sets.
- `CommitsAreLive`: `CommitIsLive` if none of `Misleading` happens and timeouts do not
  meet a failing fsync of a directory (`NotMisled`). Either alone, refused commands,
  failing writes, dead managers and operators are allowed. The argument:
  `Told` is the status that will stay, which differs from the file's only while the
  reconciler takes a status back (`Remembered`). Requests are numbered as they come and
  `Told` is older than every request still to be answered (`Numbered`); when it is
  that of the newest request, the interface serves it (`NewestServed`); the one manager
  at work holds the lock, its request is the newest, and whatever is known of that
  request is about the file it rendered (`Stage`). A manager that looks at the
  status file sees `Told`, either because nothing is taken back or because its request
  is `Settled`, answered before it looks. A late request of a manager that gave up
  is older than the next manager's and cannot be mistaken for it. The excluded
  failures are needed: section 3 names runs that violate the property with a
  reconciler crash, a status taken back under a manager that timed out, or a
  failing COMMIT.

**`PeerPromiseProofs`**

- `PeersFollow`: `LiveSpec => PeersFollowTable`, the refinement of `PeerPromise`, and
  `RestingServed`, that the interface serves the committed devices at rest, both if none
  of `Unseen` happens; `RestingAgree`: `QuiescentAgreement`, if moreover the expected-peer
  file can be written. This is more than `live_undone` checks. `Following`
  gives the interface at each stage of the manager and each phase of the
  reconciler (at the committed table, at the proposed one, and with which
  snapshot), `Filing` the expected-peer file and its previous content.

**`DeviceResetProofs`**: `ResetTyped`, `PendingStaysCurrent`, `DeliveredRoutesStayCurrent`
under every fault, by `ResetInv`: keys are drawn in order, so that a configuration
made later cannot carry the key of an earlier one, and configurations of the prepared
and of the current key carry the routes of the row. `OnlyDelivered` assumes
`HandedOver`: no body is slow or lost, no output file fails, no QR code is shown; then a
response whose hook is due has been received (`Responses`). `RoutesStayAsked`:
`RoutesAreAsked` for addresses of any width, by `FollowsRequest` (the routes of a row are
those last accepted, normalized; a full tunnel among them was confirmed, or is the one the
device was created with). That `Normalize` keeps every address needs a largest
network above each one dropped (`NormalizeCovers`): the one with the shortest
prefix, which exists because the library has a theorem on well-founded orders that can
be cited without an operator (`LeastElement`). `NormalizeIsLeast` says that the
normal form is the only one.

**`AccountsProofs`**: `AccountsTyped`, `SessionsStayCurrent`, `AnAdminRemains`, by
`AccountsInv`: the version of a row counts the revocations of its user, and so does
the version of every cookie, also one not yet sent; an update under the lock keeps
what it has checked (`UpdatesAreSafe`).

`GuessesAreBounded`: `GuessBound` for any number of threads, any limit and window, and
any number of failing statements. The
throttle's row has a stage: 1 when its window is over, 2 when there is none, and one more
for each failure it counts, up to `Top`, from which on everybody is refused. The
invariant (`Bounded`) gives each thread a stage that bounds what it may still put
back: a thread that is about to store a row is before the row's stage. To store it is to
go to that stage and to take back everybody who is ahead, `Moved`, and this leads
later in the lexicographic order of how many threads are at most at stage 0, at stage 1,
... (`MovedIsLater`). While no row's window ends, each of the finitely many
distributions is therefore met once, and a wrong password is paid with one, or lost, or
pending, with enough of them left to pay it (`LeftSuffices`, an induction on the
threads that are not at `Top` by a least counterexample). When a window ends the threads
are taken back to stage 0; but a row that began within the interval cannot end
in it, so this happens at most once for each row that was stored or about to be
stored when the interval began, `OldStarts`, of which there are `Cardinality(Web) + 1`.

**`InstallerStoreProofs`**: `StoreTyped`, `RowsKeepFiles`, `ServedStaysVerified`, `NoStrayFiles`,
by `StoreInv`: no two uploads share an id, and at each stage it is known which
of file, temporary file and row are there. The uploads `NoStrayFiles` excepts are those cut
off in their handler or before they had one.

**`StartupProofs`**: `StartTyped`, `AllPreparedAlike`, `KeyStaysCurrent`, `ServingStaysLive`,
by `StartInv`: what each manager process relies on at each stage (`ProcOK`), one writer
of the secret, that a reconciler started since the server was has exported its key
before it listens, and that a steady manager never meets one that was not (`Ordered`).

Only model-checked: liveness (`EveryRequestAnswered`, `OperationsTerminate`,
`DownloadsResolve`, `WebComesUp`), because temporal reasoning under fairness and
ENABLED is beyond the prover's backends. Every safety property of a passing run is
also proved.

## 5. Plan

1. Done: all modules of section 2 and their proofs.
2. Still to model: the `once` command as a second applier beside `serve`. It needs a
   second set of the registers of `Reconciler` and a finer `Load`: the reads of the
   file, the manifest and the interface are one step there because one process
   writes the last two, which two appliers would do between each other's reads.
3. Proofs: what remains is liveness, which is left to TLC.

### Not modelled

- Audit records: no operation reads them. Pages, listings, prompts, headers and
  the parsing of the configuration: no state of their own.
- A `busy_timeout` that expires, but for a login's statements and for a transaction
  that then never began.
- The systemd units: their order and restarts are those `Startup` and
  `Reconciler` assume, without the waits of the containers. Health checks only
  look; directory checks end a start that cannot go on.
- A client that opens the reconciler's socket and sends nothing.
- `FileAdapter` and `DryRunAdapter` on their own: parts of `ReconcilerAdapter`, and
  without an interface.
