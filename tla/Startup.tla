------------------------------- MODULE Startup -------------------------------
(***************************************************************************)
(* How the containers come up, in whatever order Docker starts and         *)
(* restarts them: the WireGuard server with the interface, the reconciler, *)
(* which exports the interface's public key and opens its socket, the Web  *)
(* manager, which waits for both and reconciles before it serves, and      *)
(* commands, which wait in the same way (docker/entrypoint.py).  Every     *)
(* manager process then builds the application: it loads or creates the    *)
(* session secret and brings the database schema up to date                *)
(* (wg_manager/__init__.py, security.py, db.py).                           *)
(*                                                                         *)
(* Reconciler and Web manager run in the network namespace the server had  *)
(* when they were started (--network container:wireguard-server), and keep *)
(* it when the server restarts, until they are restarted themselves.       *)
(***************************************************************************)
EXTENDS Naturals, FiniteSets

CONSTANTS
    WebP,      \* the Web manager's container
    Commands,  \* containers that run one command
    Keys,      \* public keys the interface may have
    None,      \* no interface, no file, no value
    MaxKills,  \* bound on the processes killed
    MaxBoots   \* bound on the restarts of the WireGuard server

Procs == {WebP} \cup Commands

ASSUME StartupAssumption == /\ WebP \notin Commands /\ None \notin Keys \cup Procs
                            /\ Procs \cap {"none", "empty", "reconciler"} = {}
                            /\ MaxKills \in Nat /\ MaxBoots \in Nat

VARIABLES
    iface,   \* the interface's public key
    orphan,  \* the interface in the old namespace of a reconciler left there
    live,    \* the interface has the peers of the committed rows
    keyFile, \* server-public-key, in the reconciler's state directory
    sock,    \* what the path of the reconciler's socket holds
    rec,     \* the reconciler's container
    proc,    \* the managers' containers
    secret,  \* session-secret, in the managers' data directory
    schema,  \* the tables: none, of an earlier release, or up to date
    steady,  \* the reconciler, the Web manager: started since the server was,
             \* the Web manager while no earlier reconciler was running
    kills, boots, runs \* what has been spent of the bounds

stvars == <<iface, orphan, live, keyFile, sock, rec, proc, secret, schema, steady,
            kills, boots, runs>>

(* absent: the interface was not there when the reconciler last looked.    *)
Rec == [at : {"down", "waiting", "absent", "starting", "binding", "listening", "serving"},
        key : Keys \cup {None}]

(* keyless, sockless: what the process waits for was not there when it     *)
(* last looked; job: it is `wg-manager reconcile`, which runs before the   *)
(* Web server; sure: the key was read while a steady reconciler serves.    *)
Proc == [at : {"down", "key", "keyless", "socket", "sockless", "secret", "creating",
               "writing", "schema", "altering", "reconcile", "serving"},
         key : Keys \cup {None}, secret : Procs \cup {None}, job : BOOLEAN, sure : BOOLEAN]

StartTypeOK ==
    /\ {iface, orphan, keyFile} \subseteq Keys \cup {None}
    /\ live \in BOOLEAN
    /\ sock \in {"none", "stale", "open"}
    /\ rec \in Rec
    /\ proc \in [Procs -> Proc]
    /\ secret \in Procs \cup {"none", "empty"}
    /\ schema \in {"none", "old", "new"}
    /\ steady \subseteq {WebP, "reconciler"}
    /\ kills \in 0 .. MaxKills /\ boots \in 0 .. MaxBoots /\ runs \subseteq Commands
    /\ \A p \in Procs : proc[p].at \notin {"down", "key", "keyless"} => proc[p].key # None

Down == [at |-> "down", key |-> None, secret |-> None, job |-> FALSE, sure |-> FALSE]

(* The host is booted: a first installation, an upgrade, or a later boot   *)
(* that finds what the last one left.                                      *)
StartInit ==
    /\ iface = None /\ orphan = None /\ live = FALSE
    /\ rec = [at |-> "down", key |-> None]
    /\ proc = [p \in Procs |-> Down]
    /\ \/ keyFile = None /\ sock = "none" /\ secret = "none" /\ schema = "none"
       \/ keyFile \in Keys /\ sock = "stale" /\ secret \in {WebP, "none"} /\ schema = "old"
    /\ steady = {} /\ kills = 0 /\ boots = 0 /\ runs = {}

-----------------------------------------------------------------------------
(************************** the WireGuard server ***************************)
(* The interface comes up with its boot peers, and another key if its      *)
(* configuration has been replaced.                                        *)
ServerUp ==
    /\ iface = None
    /\ iface' \in Keys
    /\ UNCHANGED <<orphan, live, keyFile, sock, rec, proc, secret, schema, steady,
                   kills, boots, runs>>

(* Its container gets another namespace.  In the old one, which stays as   *)
(* long as the reconciler does, the interface is gone when wg-quick took   *)
(* it down, and still there when the server was killed.                    *)
ServerRestart ==
    /\ iface # None
    /\ boots < MaxBoots /\ boots' = boots + 1
    /\ iface' = None /\ live' = FALSE /\ steady' = {}
    /\ orphan' \in IF "reconciler" \in steady THEN {iface, None} ELSE {orphan}
    /\ proc' = [p \in Procs |-> [proc[p] EXCEPT !.sure = FALSE]]
    /\ UNCHANGED <<keyFile, sock, rec, secret, schema, kills, runs>>

(***************************** the reconciler ******************************)
RecGoto(stage) == rec' = [rec EXCEPT !.at = stage]

(* Its end leaves the socket where it is, and gives up the namespace.      *)
RecEnds ==
    /\ rec' = [at |-> "down", key |-> None]
    /\ sock' = IF sock = "open" THEN "stale" ELSE sock
    /\ steady' = steady \ {"reconciler"} /\ orphan' = None

RecStart ==
    /\ rec.at = "down"
    /\ RecGoto("waiting")
    /\ steady' = steady \cup {"reconciler"}
    /\ UNCHANGED <<iface, orphan, live, keyFile, sock, proc, secret, schema, kills, boots, runs>>

(* What `wg show` finds in the reconciler's namespace.                     *)
SeenIface == IF "reconciler" \in steady THEN iface ELSE orphan

(* _wait_until tries its predicate and sleeps for a second...              *)
RecLooks ==
    /\ rec.at = "waiting" /\ SeenIface = None
    /\ RecGoto("absent")
    /\ UNCHANGED <<iface, orphan, live, keyFile, sock, proc, secret, schema, steady,
                   kills, boots, runs>>

(* ...and then looks at the clock before it tries again: it may give up    *)
(* although what it waits for has come in between.                         *)
RecTimeout ==
    /\ rec.at = "absent"
    /\ RecEnds
    /\ UNCHANGED <<iface, live, keyFile, proc, secret, schema, kills, boots, runs>>

RecReadKey ==
    /\ rec.at \in {"waiting", "absent"} /\ SeenIface # None
    /\ rec' = [at |-> "starting", key |-> SeenIface]
    /\ UNCHANGED <<iface, orphan, live, keyFile, sock, proc, secret, schema, steady,
                   kills, boots, runs>>

(* Mutation of ExportKey: a key file that is there is left alone.          *)
ExportKeyOnce == keyFile' = IF keyFile = None THEN rec.key ELSE keyFile

(* _atomic_public_key.                                                     *)
ExportKey == keyFile' = rec.key

RecExport ==
    /\ rec.at = "starting"
    /\ ExportKey
    /\ rec' = [at |-> "binding", key |-> None]
    /\ UNCHANGED <<iface, orphan, live, sock, proc, secret, schema, steady, kills, boots, runs>>

(* Mutation of RemoveSocket: what an earlier process left stays there.     *)
RemoveSocketNot == UNCHANGED sock

RemoveSocket == sock' = "none"

(* serve removes the socket an earlier process left...                     *)
RecUnlink ==
    /\ rec.at = "binding"
    /\ RemoveSocket
    /\ RecGoto("listening")
    /\ UNCHANGED <<iface, orphan, live, keyFile, proc, secret, schema, steady, kills, boots, runs>>

(* ...binds its own, which is there before it listens, and listens.        *)
RecBind ==
    /\ rec.at = "listening" /\ sock = "none"
    /\ sock' = "open"
    /\ UNCHANGED <<iface, orphan, live, keyFile, rec, proc, secret, schema, steady,
                   kills, boots, runs>>

RecListen ==
    /\ rec.at = "listening" /\ sock = "open"
    /\ RecGoto("serving")
    /\ UNCHANGED <<iface, orphan, live, keyFile, sock, proc, secret, schema, steady,
                   kills, boots, runs>>

RecKill ==
    /\ rec.at # "down" /\ kills < MaxKills
    /\ kills' = kills + 1
    /\ RecEnds
    /\ UNCHANGED <<iface, live, keyFile, proc, secret, schema, boots, runs>>

(* The operator restarts a reconciler of before the server's restart       *)
(* (docs/DOCKER_DEPLOYMENT.md:229).                                        *)
RecReboot ==
    /\ rec.at # "down" /\ "reconciler" \notin steady
    /\ RecEnds
    /\ UNCHANGED <<iface, live, keyFile, proc, secret, schema, kills, boots, runs>>

(* No reconciler of before the server's restart is running.                *)
Renewed == rec.at = "down" \/ "reconciler" \in steady

(************************** the manager processes **************************)
Set(p, r) == proc' = [proc EXCEPT ![p] = r]

Goto(p, stage) == Set(p, [proc[p] EXCEPT !.at = stage])

(* Docker starts the Web manager again whenever it ends; a command is run  *)
(* once.                                                                   *)
Start(p) ==
    /\ proc[p].at = "down" /\ p \notin runs
    /\ Set(p, [Down EXCEPT !.at = "key", !.job = p = WebP])
    /\ runs' = runs \cup (Commands \cap {p})
    /\ steady' = IF p = WebP /\ Renewed THEN steady \cup {WebP} ELSE steady
    /\ UNCHANGED <<iface, orphan, live, keyFile, sock, rec, secret, schema, kills, boots>>

End(p) == Set(p, Down)

(* Mutation of KeyThere: nobody waits for the key.                         *)
KeyThereAssumed == TRUE

KeyThere == keyFile # None

(* _wait_until tries the predicate of either wait.                         *)
Looks(p) ==
    /\ \/ proc[p].at = "key" /\ ~KeyThere /\ Goto(p, "keyless")
       \/ proc[p].at = "socket" /\ sock = "none" /\ Goto(p, "sockless")
    /\ UNCHANGED <<iface, orphan, live, keyFile, sock, rec, secret, schema, steady,
                   kills, boots, runs>>

(* As for the reconciler: the clock comes before the next try.             *)
Timeout(p) ==
    /\ proc[p].at \in {"keyless", "sockless"}
    /\ End(p)
    /\ UNCHANGED <<iface, orphan, live, keyFile, sock, rec, secret, schema, steady,
                   kills, boots, runs>>

(* _server_public_key.                                                     *)
ReadKey(p) ==
    /\ proc[p].at \in {"key", "keyless"} /\ KeyThere
    /\ Set(p, [proc[p] EXCEPT !.at = "socket", !.key = keyFile,
                              !.sure = rec.at = "serving" /\ "reconciler" \in steady])
    /\ UNCHANGED <<iface, orphan, live, keyFile, sock, rec, secret, schema, steady,
                   kills, boots, runs>>

(* _wait_for_socket looks at the path only.                                *)
SeeSocket(p) ==
    /\ proc[p].at \in {"socket", "sockless"} /\ sock # "none"
    /\ Goto(p, "secret")
    /\ UNCHANGED <<iface, orphan, live, keyFile, sock, rec, secret, schema, steady,
                   kills, boots, runs>>

(* load_or_create_secret: path.exists(), and a file shorter than a secret  *)
(* ends the process.                                                       *)
LoadSecret(p) ==
    /\ proc[p].at = "secret"
    /\ CASE secret = "none"  -> Goto(p, "creating")
         [] secret = "empty" -> End(p)
         [] OTHER            -> Set(p, [proc[p] EXCEPT !.at = "schema", !.secret = secret])
    /\ UNCHANGED <<iface, orphan, live, keyFile, sock, rec, secret, schema, steady,
                   kills, boots, runs>>

(* Mutation of Exclusive: the file is opened without O_EXCL.               *)
ExclusiveNot == TRUE

Exclusive == secret = "none"

(* The file is created empty; the loser of the race starts over.           *)
CreateSecret(p) ==
    /\ proc[p].at = "creating"
    /\ \/ /\ Exclusive
          /\ secret' = "empty"
          /\ Goto(p, "writing")
       \/ /\ ~Exclusive
          /\ Goto(p, "secret")
          /\ UNCHANGED secret
    /\ UNCHANGED <<iface, orphan, live, keyFile, sock, rec, schema, steady, kills, boots, runs>>

WriteSecret(p) ==
    /\ proc[p].at = "writing"
    /\ secret' = p
    /\ Set(p, [proc[p] EXCEPT !.at = "schema", !.secret = p])
    /\ UNCHANGED <<iface, orphan, live, keyFile, sock, rec, schema, steady, kills, boots, runs>>

Built(p) == Goto(p, IF proc[p].job THEN "reconcile" ELSE "serving")

(* CREATE TABLE IF NOT EXISTS, then the columns are listed...              *)
CreateTables(p) ==
    /\ proc[p].at = "schema"
    /\ schema' = IF schema = "none" THEN "new" ELSE schema
    /\ IF schema = "old" THEN Goto(p, "altering") ELSE Built(p)
    /\ UNCHANGED <<iface, orphan, live, keyFile, sock, rec, secret, steady, kills, boots, runs>>

(* ...and those that were missing are added, unless another process has    *)
(* added them since: then the statement fails, and the process with it.    *)
AddColumns(p) ==
    /\ proc[p].at = "altering"
    /\ IF schema = "old" THEN Built(p) ELSE End(p)
    /\ schema' = "new"
    /\ UNCHANGED <<iface, orphan, live, keyFile, sock, rec, secret, steady, kills, boots, runs>>

(* The request over the socket, which both share as a file, is applied and *)
(* verified on the interface of the reconciler's namespace, whichever it   *)
(* is.                                                                     *)
Reconciles == rec.at = "serving" /\ SeenIface # None

(* Mutation of Checked: subprocess.run without check=True.                 *)
CheckedNot(p) == Set(p, [proc[p] EXCEPT !.at = "secret", !.secret = None, !.job = FALSE])

(* check=True: the Web server is only started after a reconcile that was   *)
(* answered and verified; it is a new process, and loads the secret anew.  *)
Checked(p) ==
    IF Reconciles THEN Set(p, [proc[p] EXCEPT !.at = "secret", !.secret = None, !.job = FALSE])
                  ELSE End(p)

ReconcileJob(p) ==
    /\ proc[p].at = "reconcile"
    /\ live' = (live \/ (Reconciles /\ "reconciler" \in steady))
    /\ Checked(p)
    /\ UNCHANGED <<iface, orphan, keyFile, sock, rec, secret, schema, steady, kills, boots, runs>>

(* A command has done its work.                                            *)
Finish(p) ==
    /\ p \in Commands /\ proc[p].at = "serving"
    /\ End(p)
    /\ UNCHANGED <<iface, orphan, live, keyFile, sock, rec, secret, schema, steady,
                   kills, boots, runs>>

Kill(p) ==
    /\ proc[p].at # "down" /\ kills < MaxKills
    /\ kills' = kills + 1
    /\ End(p)
    /\ UNCHANGED <<iface, orphan, live, keyFile, sock, rec, secret, schema, steady, boots, runs>>

(* The operator restarts the Web manager after the reconciler.             *)
WebReboot ==
    /\ proc[WebP].at # "down" /\ WebP \notin steady /\ Renewed
    /\ End(WebP)
    /\ UNCHANGED <<iface, orphan, live, keyFile, sock, rec, secret, schema, steady,
                   kills, boots, runs>>

RecNext ==
    \/ RecStart \/ RecLooks \/ RecTimeout \/ RecReadKey
    \/ RecExport \/ RecUnlink \/ RecBind \/ RecListen

ProcNext(p) ==
    \/ Start(p) \/ Looks(p) \/ Timeout(p) \/ ReadKey(p) \/ SeeSocket(p) \/ LoadSecret(p)
    \/ CreateSecret(p) \/ WriteSecret(p) \/ CreateTables(p) \/ AddColumns(p)
    \/ ReconcileJob(p) \/ Finish(p)

StartNext ==
    \/ ServerUp \/ ServerRestart
    \/ RecNext \/ RecKill
    \/ RecReboot \/ WebReboot
    \/ \E p \in Procs : ProcNext(p) \/ Kill(p)

StartSpec == StartInit /\ [][StartNext]_stvars

(* Docker restarts what ends (--restart unless-stopped), a running process *)
(* goes on, and after a restart of the server the operator restarts the    *)
(* reconciler and then the manager, as the documents ask.                  *)
FairStartSpec == /\ StartSpec
                 /\ WF_stvars(ServerUp) /\ WF_stvars(RecNext)
                 /\ WF_stvars(RecReboot) /\ WF_stvars(WebReboot)
                 /\ \A p \in Procs : WF_stvars(ProcNext(p))

-----------------------------------------------------------------------------
(* All processes that have built the application sign their cookies with   *)
(* the secret of the file and find every column, whoever created or        *)
(* altered them, on first starts that race too (security.py:54).           *)
PreparedAlike ==
    \A p \in Procs :
        proc[p].at \in {"reconcile", "serving"} => /\ proc[p].secret = secret
                                                   /\ schema = "new"

(* A manager that reads the key while a reconciler serves that was started *)
(* since the server was writes the interface's key into configurations,    *)
(* whatever key file an earlier boot, or an earlier reconciler in the      *)
(* server's old namespace, left (entrypoint.py:196).                       *)
KeyIsCurrent ==
    \A p \in Procs : proc[p].sure /\ iface # None => proc[p].key = iface

(* Once the Web manager serves, the committed peers are live, if it was    *)
(* started since the server's last restart, and not beside a reconciler of *)
(* before it: neither a stale key file nor a socket nobody listens on, nor *)
(* an answer for an interface nobody uses any more, lets it through        *)
(* (entrypoint.py:178, docs/DOCKER_DEPLOYMENT.md:229).                     *)
ServingIsLive == proc[WebP].at = "serving" /\ WebP \in steady => live

(* Whatever is killed, whichever wait times out and whether the restart of *)
(* the server found reconciler and manager starting or running, once the   *)
(* operator has restarted those the Web manager serves in the end, in the  *)
(* server's namespace; only a process that died between creating the       *)
(* secret's file and writing it keeps all later ones from starting         *)
(* (entrypoint.py:167-180).                                                *)
WebComesUp == <>[]((proc[WebP].at = "serving" /\ WebP \in steady) \/ secret = "empty")

=============================================================================
