----------------------------- MODULE DeviceReset -----------------------------
(***************************************************************************)
(* The life of a device's key: a Web reset prepares a new key, hands the   *)
(* configuration with the private key to the browser exactly once, and     *)
(* activates the key later, from the response's close hook, from the page's*)
(* script or from the form below a QR code; a CLI reset replaces the key   *)
(* at once; an administrator changes the routes the configuration carries  *)
(* (wg_manager/services.py, routes.py, static/devices.js, qr.html).        *)
(*                                                                         *)
(* Each service call is one SQLite write transaction and one step; what    *)
(* its live apply may do is the subject of LivePeers, and appears here as  *)
(* an apply that succeeds or one that rolls the transaction back.          *)
(***************************************************************************)
EXTENDS AllowedIps

CONSTANTS
    Devices,    \* device ids
    Tabs,       \* browser requests for a reset
    Requests,   \* the route lists administrators ask for, sets of parts
    None,       \* no row, no response
    Deliveries, \* the deliveries a browser asks for
    MaxKey,     \* bound on the keys generated
    MaxPolicy,  \* bound on the policy revisions of a device
    Faults      \* what may go wrong, a subset of ResetFaults

ResetFaults == {
    "slow_body",    \* the body is on its way when the grace period ends
    "lost_body",    \* the connection breaks before the body has arrived
    "live_apply",   \* the reconciler refuses: the transaction rolls back
    "output_file",  \* the CLI cannot write the configuration it was given
    "worker_exit" } \* the Web worker ends before the hook has run

ASSUME ResetAssumption == /\ Faults \subseteq ResetFaults
                          /\ Deliveries \subseteq {"download", "qr", "other"}
                          /\ MaxKey \in Nat /\ MaxPolicy \in Nat \ {0}
                          /\ None \notin 0 .. MaxKey
                          /\ Requests \subseteq SUBSET Part

VARIABLES
    device,   \* devices: the row of each id
    pending,  \* pending_device_resets: the prepared reset of each id
    tab,      \* tab[t]: the response to a prepared reset
    drawn,    \* number of keys generated
    held,     \* configurations that arrived complete at their user
    asked     \* the last route list accepted for each id, and whether it was
              \* confirmed that it may be the full tunnel

dvars == <<device, pending, tab, drawn, held, asked>>

Key == 0 .. MaxKey
Rev == 0 .. MaxPolicy

Routes == SUBSET Network

DeviceRow == [key : Key, generation : Nat, routes : Routes, policy : Rev, delivered : Rev]
PendingRow == [key : Key, base : Key, generation : Nat, policy : Rev]
Configuration == [device : Devices, key : Key, routes : Routes]

(* body: how much of the response the browser has; hook: the close hook.   *)
Response == [config : Configuration, delivery : {"download", "qr"},
             body : {"sending", "arrived", "lost"}, hook : {"none", "armed", "due", "done"},
             posted : BOOLEAN]

ResetTypeOK ==
    /\ device \in [Devices -> DeviceRow \cup {None}]
    /\ pending \in [Devices -> PendingRow \cup {None}]
    /\ tab \in [Tabs -> Response \cup {None}]
    /\ drawn \in Key
    /\ held \subseteq Configuration
    /\ asked \in [Devices -> [parts : Requests, confirmed : BOOLEAN]]

(* Devices have been created and their first configuration delivered;      *)
(* create_device asks nobody to confirm a full tunnel.                     *)
ResetInit ==
    \E parts \in {p \in Requests : Acceptable(p)} : LET r == Normalize(parts) IN
        /\ device = [d \in Devices |-> [key |-> 0, generation |-> 1, routes |-> r,
                                        policy |-> 1, delivered |-> 1]]
        /\ held = [device : Devices, key : {0}, routes : {r}]
        /\ pending = [d \in Devices |-> None]
        /\ tab = [t \in Tabs |-> None]
        /\ drawn = 0
        /\ asked = [d \in Devices |-> [parts |-> parts, confirmed |-> FALSE]]

-----------------------------------------------------------------------------
Exists(d) == device[d] # None

DrawsKey == drawn < MaxKey /\ drawn' = drawn + 1

ConfigOf(d, k) == [device |-> d, key |-> k, routes |-> device[d].routes]

(* prepare_device_reset: the new key replaces any reset prepared before.   *)
Prepares(d) ==
    /\ Exists(d)
    /\ DrawsKey
    /\ pending' = [pending EXCEPT ![d] =
           [key |-> drawn', base |-> device[d].key,
            generation |-> device[d].generation, policy |-> device[d].policy]]
    /\ UNCHANGED device

(* The reset route registers the activation on a download, not on a QR page*)
HookOf(delivery) == IF delivery = "download" THEN "armed" ELSE "none"

(* The reset route prepares the key and starts the response.               *)
RequestReset(t, d, delivery) ==
    /\ tab[t] = None
    /\ delivery \in {"download", "qr"}
    /\ Prepares(d)
    /\ tab' = [tab EXCEPT ![t] =
           [config |-> ConfigOf(d, drawn'), delivery |-> delivery, body |-> "sending",
            hook |-> HookOf(delivery), posted |-> FALSE]]
    /\ UNCHANGED <<held, asked>>

(* An unknown delivery is refused after the reset has been prepared.       *)
RequestRefused(d) ==
    /\ "other" \in Deliveries
    /\ Prepares(d)
    /\ UNCHANGED <<tab, held, asked>>

BodyArrives(t) ==
    /\ tab[t] # None
    /\ tab[t].body = "sending"
    /\ tab' = [tab EXCEPT ![t].body = "arrived"]
    /\ held' = held \cup {tab[t].config}
    /\ UNCHANGED <<device, pending, drawn, asked>>

BodyLost(t) ==
    /\ "lost_body" \in Faults
    /\ tab[t] # None
    /\ tab[t].body = "sending"
    /\ tab' = [tab EXCEPT ![t].body = "lost"]
    /\ UNCHANGED <<device, pending, drawn, held, asked>>

(* The server closes the response, handed over or broken off; the hook     *)
(* then sleeps, in general until the body has arrived.                     *)
ResponseCloses(t) ==
    /\ tab[t] # None
    /\ tab[t].hook = "armed"
    /\ tab[t].body # "sending" \/ "slow_body" \in Faults
    /\ tab' = [tab EXCEPT ![t].hook = "due"]
    /\ UNCHANGED <<device, pending, drawn, held, asked>>

WorkerExits(t) ==
    /\ "worker_exit" \in Faults
    /\ tab[t] # None
    /\ tab[t].hook \in {"armed", "due"}
    /\ tab' = [tab EXCEPT ![t].hook = "done"]
    /\ UNCHANGED <<device, pending, drawn, held, asked>>

-----------------------------------------------------------------------------
(* Mutation of Activatable: the caller's expected key is not compared.     *)
ActivatableAny(d, expected) ==
    /\ Exists(d)
    /\ pending[d] # None
    /\ pending[d].base = device[d].key
    /\ pending[d].generation = device[d].generation
    /\ pending[d].policy = device[d].policy

(* The checks of activate_prepared_device_reset.                           *)
Activatable(d, expected) ==
    /\ Exists(d)
    /\ pending[d] # None
    /\ expected \in {None, pending[d].key}
    /\ pending[d].base = device[d].key
    /\ pending[d].generation = device[d].generation
    /\ pending[d].policy = device[d].policy

(* Mutation of NewKey: the delivered revision is counted up, not copied.   *)
NewKeyCounts(d, k) == [device EXCEPT ![d].key = k, ![d].generation = @ + 1,
                                     ![d].delivered = @ + 1]

(* The row after the key is replaced; the configuration that goes with the *)
(* new key carries the policy of this row.                                 *)
NewKey(d, k) == [device EXCEPT ![d].key = k, ![d].generation = @ + 1,
                               ![d].delivered = device[d].policy]

(* Mutation of Activate: the prepared reset is not deleted.                *)
ActivateKeepsPending(d, expected) ==
    \/ /\ Activatable(d, expected)
       /\ device' = NewKey(d, pending[d].key)
       /\ UNCHANGED pending
    \/ /\ ~Activatable(d, expected) \/ "live_apply" \in Faults
       /\ UNCHANGED <<device, pending>>

(* activate_prepared_device_reset: the prepared key replaces the current   *)
(* one, or nothing changes.                                                *)
Activate(d, expected) ==
    \/ /\ Activatable(d, expected)
       /\ device' = NewKey(d, pending[d].key)
       /\ pending' = [pending EXCEPT ![d] = None]
    \/ /\ ~Activatable(d, expected) \/ "live_apply" \in Faults
       /\ UNCHANGED <<device, pending>>

(* _activate_reset_after_download, after the grace period; it runs once    *)
(* and only logs a failure.                                                *)
HookRuns(t) ==
    /\ tab[t] # None
    /\ tab[t].hook = "due"
    /\ Activate(tab[t].config.device, tab[t].config.key)
    /\ tab' = [tab EXCEPT ![t].hook = "done"]
    /\ UNCHANGED <<drawn, held, asked>>

(* devices.js: when the blob is complete it posts the activation with the  *)
(* key of its own response, once.                                          *)
ScriptPosts(t) ==
    /\ tab[t] # None
    /\ tab[t].delivery = "download"
    /\ tab[t].body = "arrived"
    /\ ~tab[t].posted
    /\ Activate(tab[t].config.device, tab[t].config.key)
    /\ tab' = [tab EXCEPT ![t].posted = TRUE]
    /\ UNCHANGED <<drawn, held, asked>>

(* qr.html: the user has the page and presses its button, which posts no   *)
(* expected key.                                                           *)
FormPosts(t) ==
    /\ tab[t] # None
    /\ tab[t].delivery = "qr"
    /\ tab[t].body = "arrived"
    /\ ~tab[t].posted
    /\ Activate(tab[t].config.device, None)
    /\ tab' = [tab EXCEPT ![t].posted = TRUE]
    /\ UNCHANGED <<drawn, held, asked>>

-----------------------------------------------------------------------------
(* Mutation of CliReset: the prepared reset stays.                         *)
CliResetKeepsPending(d) ==
    /\ Exists(d)
    /\ DrawsKey
    /\ device' = NewKey(d, drawn')
    /\ held' = held \cup {ConfigOf(d, drawn')}
    /\ UNCHANGED <<pending, tab, asked>>

(* reset_device, then the configuration is written to the output file.     *)
CliReset(d) ==
    /\ Exists(d)
    /\ DrawsKey
    /\ \/ /\ device' = NewKey(d, drawn')
          /\ pending' = [pending EXCEPT ![d] = None]
          /\ \/ held' = held \cup {ConfigOf(d, drawn')}
             \/ "output_file" \in Faults /\ UNCHANGED held
       \/ "live_apply" \in Faults /\ UNCHANGED <<device, pending, held>>
    /\ UNCHANGED <<tab, asked>>

(* Mutation of Permitted: the list is looked at as it was typed.           *)
PermittedAsTyped(parts, confirmed) ==
    Acceptable(parts) /\ (parts = FullTunnel => confirmed)

(* The request is well-formed, and the full tunnel is confirmed.           *)
Permitted(parts, confirmed) ==
    Acceptable(parts) /\ (Normalize(parts) = FullTunnel => confirmed)

(* Mutation of NewRoutes: the revision stays.                              *)
NewRoutesSameRevision(d, r) == [device EXCEPT ![d].routes = r]

NewRoutes(d, r) == [device EXCEPT ![d].routes = r, ![d].policy = @ + 1]

(* update_device_allowed_ips: an unchanged value changes nothing; a new    *)
(* one withdraws the prepared reset, whose configuration has the old one.  *)
UpdateAllowedIps(d, parts, confirmed) ==
    /\ Exists(d)
    /\ Permitted(parts, confirmed)
    /\ asked' = [asked EXCEPT ![d] = [parts |-> parts, confirmed |-> confirmed]]
    /\ \/ /\ Normalize(parts) = device[d].routes
          /\ UNCHANGED <<device, pending>>
       \/ /\ Normalize(parts) # device[d].routes
          /\ device[d].policy < MaxPolicy
          /\ device' = NewRoutes(d, Normalize(parts))
          /\ pending' = [pending EXCEPT ![d] = None]
    /\ UNCHANGED <<tab, drawn, held>>

(* delete_device; the prepared reset goes with the row (ON DELETE CASCADE).*)
DeleteDevice(d) ==
    /\ Exists(d)
    /\ device' = [device EXCEPT ![d] = None]
    /\ pending' = [pending EXCEPT ![d] = None]
    /\ UNCHANGED <<tab, drawn, held, asked>>

Server(t) == ResponseCloses(t) \/ HookRuns(t)

Browser(t) == BodyArrives(t) \/ BodyLost(t) \/ ScriptPosts(t)

ResetNext ==
    \/ \E t \in Tabs : \/ Server(t) \/ Browser(t) \/ FormPosts(t) \/ WorkerExits(t)
                       \/ \E d \in Devices, y \in Deliveries : RequestReset(t, d, y)
    \/ \E d \in Devices : \/ RequestRefused(d) \/ CliReset(d) \/ DeleteDevice(d)
                          \/ \E parts \in Requests, c \in BOOLEAN : UpdateAllowedIps(d, parts, c)

ResetSpec == ResetInit /\ [][ResetNext]_dvars

(* The Web server finishes its responses and runs their hooks, the network *)
(* delivers or breaks; nobody has to press a button.                       *)
FairResetSpec == /\ ResetSpec
                 /\ \A t \in Tabs : WF_dvars(Server(t)) /\ WF_dvars(Browser(t))

-----------------------------------------------------------------------------
(* The key of a device is one whose configuration has reached its user:    *)
(* activation revokes the old key, so anything else locks the user out of  *)
(* a tunnel he may need to repair it (services.py 445-454, routes.py 629). *)
OnlyDeliveredKeys ==
    \A d \in Devices : Exists(d) =>
        \E c \in held : c.device = d /\ c.key = device[d].key

(* A prepared reset always starts from the device as it is: whatever       *)
(* changes key, generation or policy withdraws it (services.py 347, 649).  *)
PendingIsCurrent ==
    \A d \in Devices : pending[d] # None =>
        /\ Exists(d)
        /\ pending[d].base = device[d].key
        /\ pending[d].generation = device[d].generation
        /\ pending[d].policy = device[d].policy

(* When the page shows no "reset required", the configuration the user has *)
(* for the current key carries the current routes (devices.html 46).       *)
DeliveredRoutesAreCurrent ==
    \A d \in Devices : Exists(d) /\ device[d].delivered = device[d].policy =>
        \A c \in held : c.device = d /\ c.key = device[d].key => c.routes = device[d].routes

(* The routes of a device are the ones last asked for: they lead the same  *)
(* addresses into the tunnel, none is listed below another, and the exact  *)
(* full tunnel, which clients treat specially, never comes of smaller      *)
(* routes (policy.py 27-29) and is there only if somebody confirmed it,    *)
(* unless the device was created with it and never had other routes        *)
(* (services.py 633).                                                      *)
RoutesAreAsked ==
    \A d \in Devices : Exists(d) =>
        /\ Covered(device[d].routes) = Covered(asked[d].parts)
        /\ Irredundant(device[d].routes)
        /\ device[d].routes = FullTunnel =>
               /\ FullTunnel \subseteq asked[d].parts
               /\ asked[d].confirmed \/ device[d].policy = 1

(* The key that tab t downloaded is still prepared.                        *)
Prepared(t) ==
    /\ tab[t] # None
    /\ tab[t].delivery = "download"
    /\ \E d \in Devices : /\ pending[d] # None
                         /\ tab[t].config.device = d
                         /\ tab[t].config.key = pending[d].key

(* A download does not stay prepared for ever: its hook or script          *)
(* activates the key unless something has replaced it (routes.py 314-325). *)
DownloadsResolve == \A t \in Tabs : Prepared(t) ~> ~Prepared(t)
=============================================================================
