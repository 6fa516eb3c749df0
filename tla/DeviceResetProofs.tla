-------------------------- MODULE DeviceResetProofs -------------------------
(***************************************************************************)
(* What holds of device resets for any number of devices, requests, routes *)
(* and keys, whatever fails: a prepared reset is never stale, and the page *)
(* asks for a reset whenever the user's configuration is out of date.      *)
(* Where bodies arrive before the hook runs, nothing is lost and no QR     *)
(* code is shown, only keys that have arrived are ever activated.  The     *)
(* routes of a device are those last asked for, for lists of networks over *)
(* addresses of any width.                                                 *)
(***************************************************************************)
EXTENDS DeviceReset, WellFoundedInduction, TLAPS

(* Every configuration made so far, with its user or on its way.           *)
Made == held \cup {tab[t].config : t \in {s \in Tabs : tab[s] # None}}

(* Keys are drawn in order.                                                *)
KeysAreDrawn ==
    /\ \A c \in Made : c.key <= drawn
    /\ \A d \in Devices : /\ Exists(d) => device[d].key <= drawn
                          /\ pending[d] # None => pending[d].key <= drawn

DeliveredBefore ==
    \A d \in Devices : Exists(d) => device[d].delivered <= device[d].policy

(* Configurations of the prepared key carry the routes of the row...       *)
PendingRoutes ==
    \A d \in Devices : pending[d] # None =>
        \A c \in Made : c.device = d /\ c.key = pending[d].key => c.routes = device[d].routes

(* ...and so do those of the current key, if the row says so.              *)
CurrentRoutes ==
    \A d \in Devices : Exists(d) /\ device[d].delivered = device[d].policy =>
        \A c \in Made : c.device = d /\ c.key = device[d].key => c.routes = device[d].routes

ResetInv ==
    /\ ResetTypeOK
    /\ KeysAreDrawn
    /\ DeliveredBefore
    /\ PendingIsCurrent
    /\ PendingRoutes
    /\ CurrentRoutes

-----------------------------------------------------------------------------
LEMMA NormalizeType ==
    ASSUME NEW parts, Acceptable(parts)
    PROVE  Normalize(parts) \in Routes
BY DEF Acceptable, Normalize, Routes

(* Replacing a key keeps the types.                                        *)
LEMMA NewKeyType ==
    ASSUME ResetTypeOK, NEW d \in Devices, Exists(d), NEW k \in Key
    PROVE  NewKey(d, k) \in [Devices -> DeviceRow \cup {None}]
<1>1. device[d] \in DeviceRow /\ device[d].delivered \in Rev /\ device[d].policy \in Rev
  BY DEF ResetTypeOK, Exists, DeviceRow
<1>2. [device[d] EXCEPT !.key = k, !.generation = @ + 1,
                        !.delivered = device[d].policy] \in DeviceRow
  <2> SUFFICES ASSUME NEW r \in DeviceRow, NEW p \in Rev
               PROVE  [r EXCEPT !.key = k, !.generation = @ + 1, !.delivered = p]
                          \in DeviceRow
    BY <1>1
  <2>1. r.generation + 1 \in Nat
    BY DEF DeviceRow
  <2> QED
    BY <2>1 DEF DeviceRow
<1>3. NewKey(d, k) = [device EXCEPT ![d] =
          [device[d] EXCEPT !.key = k, !.generation = @ + 1,
                            !.delivered = device[d].policy]]
  BY <1>1 DEF NewKey, ResetTypeOK, DeviceRow
<1> QED
  BY <1>2, <1>3 DEF ResetTypeOK

LEMMA ConfigType ==
    ASSUME ResetTypeOK, NEW d \in Devices, Exists(d), NEW k \in Key
    PROVE  ConfigOf(d, k) \in Configuration
BY DEF ResetTypeOK, Exists, ConfigOf, Configuration, DeviceRow

LEMMA DrawsKeyType ==
    ASSUME ResetTypeOK, DrawsKey
    PROVE  drawn' \in Key /\ drawn' = drawn + 1 /\ drawn \in Nat
BY ResetAssumption DEF ResetTypeOK, DrawsKey, Key

LEMMA PreparesType ==
    ASSUME ResetTypeOK, NEW d \in Devices, Prepares(d)
    PROVE  pending' \in [Devices -> PendingRow \cup {None}]
<1>1. device[d] \in DeviceRow
  BY DEF ResetTypeOK, Prepares, Exists
<1>2. [key |-> drawn', base |-> device[d].key, generation |-> device[d].generation,
       policy |-> device[d].policy] \in PendingRow
  BY <1>1, DrawsKeyType DEF Prepares, DeviceRow, PendingRow
<1> QED
  BY <1>2 DEF ResetTypeOK, Prepares

LEMMA ActivateType ==
    ASSUME ResetTypeOK, NEW d \in Devices, NEW e, Activate(d, e)
    PROVE  /\ device' \in [Devices -> DeviceRow \cup {None}]
           /\ pending' \in [Devices -> PendingRow \cup {None}]
<1>1. CASE Activatable(d, e) /\ device' = NewKey(d, pending[d].key)
                             /\ pending' = [pending EXCEPT ![d] = None]
  <2>1. Exists(d) /\ pending[d].key \in Key
    BY <1>1 DEF Activatable, ResetTypeOK, PendingRow
  <2> QED
    BY <1>1, <2>1, NewKeyType DEF ResetTypeOK
<1>2. CASE UNCHANGED <<device, pending>>
  BY <1>2 DEF ResetTypeOK
<1> QED
  BY <1>1, <1>2 DEF Activate

(* Whatever the server, the browser and the user do to a response.         *)
LEMMA TabType ==
    ASSUME ResetTypeOK, NEW t \in Tabs, tab[t] # None,
           \/ tab' = [tab EXCEPT ![t].body = "arrived"]
           \/ tab' = [tab EXCEPT ![t].body = "lost"]
           \/ tab' = [tab EXCEPT ![t].hook = "due"]
           \/ tab' = [tab EXCEPT ![t].hook = "done"]
           \/ tab' = [tab EXCEPT ![t].posted = TRUE]
    PROVE  /\ tab' \in [Tabs -> Response \cup {None}]
           /\ tab'[t].config = tab[t].config /\ tab[t].config \in Configuration
           /\ \A s \in Tabs \ {t} : tab'[s] = tab[s]
<1>1. tab[t] \in Response
  BY DEF ResetTypeOK
<1>2. PICK r \in Response : tab' = [tab EXCEPT ![t] = r] /\ r.config = tab[t].config
  <2>1. CASE tab' = [tab EXCEPT ![t].body = "arrived"]
    <3>1. [tab[t] EXCEPT !.body = "arrived"] \in Response
      BY <1>1 DEF Response
    <3> QED
      BY <1>1, <2>1, <3>1 DEF Response
  <2>2. CASE tab' = [tab EXCEPT ![t].body = "lost"]
    <3>1. [tab[t] EXCEPT !.body = "lost"] \in Response
      BY <1>1 DEF Response
    <3> QED
      BY <1>1, <2>2, <3>1 DEF Response
  <2>3. CASE tab' = [tab EXCEPT ![t].hook = "due"]
    <3>1. [tab[t] EXCEPT !.hook = "due"] \in Response
      BY <1>1 DEF Response
    <3> QED
      BY <1>1, <2>3, <3>1 DEF Response
  <2>4. CASE tab' = [tab EXCEPT ![t].hook = "done"]
    <3>1. [tab[t] EXCEPT !.hook = "done"] \in Response
      BY <1>1 DEF Response
    <3> QED
      BY <1>1, <2>4, <3>1 DEF Response
  <2>5. CASE tab' = [tab EXCEPT ![t].posted = TRUE]
    <3>1. [tab[t] EXCEPT !.posted = TRUE] \in Response
      BY <1>1 DEF Response
    <3> QED
      BY <1>1, <2>5, <3>1 DEF Response
  <2> QED
    BY <2>1, <2>2, <2>3, <2>4, <2>5
<1>3. tab[t].config \in Configuration
  BY <1>1 DEF Response
<1> QED
  BY <1>2, <1>3 DEF ResetTypeOK

-----------------------------------------------------------------------------
LEMMA ResetTypeStep ==
    ASSUME ResetTypeOK, ResetNext
    PROVE  ResetTypeOK'
<1>1. ASSUME NEW t \in Tabs, NEW d \in Devices, NEW y \in Deliveries,
             RequestReset(t, d, y)
      PROVE  ResetTypeOK'
  <2>1. ConfigOf(d, drawn') \in Configuration
    BY <1>1, ConfigType, DrawsKeyType DEF RequestReset, Prepares
  <2>2. [config |-> ConfigOf(d, drawn'), delivery |-> y, body |-> "sending",
         hook |-> HookOf(y), posted |-> FALSE] \in Response
    BY <1>1, <2>1 DEF RequestReset, Response, HookOf
  <2>3. pending' \in [Devices -> PendingRow \cup {None}] /\ drawn' \in Key
    BY <1>1, PreparesType, DrawsKeyType DEF RequestReset, Prepares
  <2> QED
    BY <1>1, <2>2, <2>3 DEF ResetTypeOK, RequestReset, Prepares
<1>2. ASSUME NEW d \in Devices, RequestRefused(d)
      PROVE  ResetTypeOK'
  <2>1. pending' \in [Devices -> PendingRow \cup {None}] /\ drawn' \in Key
    BY <1>2, PreparesType, DrawsKeyType DEF RequestRefused, Prepares
  <2> QED
    BY <1>2, <2>1 DEF ResetTypeOK, RequestRefused, Prepares
<1>3. ASSUME NEW t \in Tabs, BodyArrives(t)
      PROVE  ResetTypeOK'
  BY <1>3, TabType DEF ResetTypeOK, BodyArrives
<1>4. ASSUME NEW t \in Tabs, BodyLost(t) \/ ResponseCloses(t) \/ WorkerExits(t)
      PROVE  ResetTypeOK'
  BY <1>4, TabType DEF ResetTypeOK, BodyLost, ResponseCloses, WorkerExits
<1>5. ASSUME NEW t \in Tabs, HookRuns(t) \/ ScriptPosts(t) \/ FormPosts(t)
      PROVE  ResetTypeOK'
  <2>1. tab' \in [Tabs -> Response \cup {None}] /\ tab[t].config \in Configuration
    BY <1>5, TabType DEF HookRuns, ScriptPosts, FormPosts
  <2>2. tab[t].config.device \in Devices
    BY <2>1 DEF Configuration
  <2>3. PICK e : Activate(tab[t].config.device, e)
    BY <1>5 DEF HookRuns, ScriptPosts, FormPosts
  <2>4. /\ device' \in [Devices -> DeviceRow \cup {None}]
        /\ pending' \in [Devices -> PendingRow \cup {None}]
    BY <2>2, <2>3, ActivateType
  <2>5. UNCHANGED <<drawn, held, asked>>
    BY <1>5 DEF HookRuns, ScriptPosts, FormPosts
  <2> QED
    BY <2>1, <2>4, <2>5 DEF ResetTypeOK
<1>6. ASSUME NEW d \in Devices, CliReset(d)
      PROVE  ResetTypeOK'
  <2>1. drawn' \in Key /\ ConfigOf(d, drawn') \in Configuration
    BY <1>6, ConfigType, DrawsKeyType DEF CliReset
  <2>2. NewKey(d, drawn') \in [Devices -> DeviceRow \cup {None}]
    BY <1>6, <2>1, NewKeyType DEF CliReset
  <2>3. device' \in [Devices -> DeviceRow \cup {None}]
    BY <1>6, <2>2 DEF CliReset, ResetTypeOK
  <2>4. pending' \in [Devices -> PendingRow \cup {None}]
    BY <1>6 DEF CliReset, ResetTypeOK
  <2>5. held' \subseteq Configuration
    BY <1>6, <2>1 DEF CliReset, ResetTypeOK
  <2> QED
    BY <1>6, <2>1, <2>3, <2>4, <2>5 DEF CliReset, ResetTypeOK
<1>7. ASSUME NEW d \in Devices, NEW parts \in Requests, NEW c \in BOOLEAN,
             UpdateAllowedIps(d, parts, c)
      PROVE  ResetTypeOK'
  <2>1. Normalize(parts) \in Routes
    BY <1>7, NormalizeType DEF UpdateAllowedIps, Permitted
  <2>2. device[d] \in DeviceRow
    BY <1>7 DEF UpdateAllowedIps, Exists, ResetTypeOK
  <2>3. device' \in [Devices -> DeviceRow \cup {None}]
    <3>1. CASE device' = device
      BY <3>1 DEF ResetTypeOK
    <3>2. CASE device[d].policy < MaxPolicy /\ device' = NewRoutes(d, Normalize(parts))
      <4>1. device[d].policy + 1 \in Rev
        BY <2>2, <3>2, ResetAssumption DEF DeviceRow, Rev
      <4>2. [device[d] EXCEPT !.routes = Normalize(parts), !.policy = @ + 1] \in DeviceRow
        BY <2>1, <2>2, <4>1 DEF DeviceRow
      <4>3. device' = [device EXCEPT ![d] = [device[d] EXCEPT !.routes = Normalize(parts),
                                                              !.policy = @ + 1]]
        BY <2>2, <3>2 DEF NewRoutes, ResetTypeOK, DeviceRow
      <4> QED
        BY <4>2, <4>3 DEF ResetTypeOK
    <3> QED
      BY <1>7, <3>1, <3>2 DEF UpdateAllowedIps
  <2>4. pending' \in [Devices -> PendingRow \cup {None}]
    BY <1>7 DEF UpdateAllowedIps, ResetTypeOK
  <2> QED
    BY <1>7, <2>3, <2>4 DEF UpdateAllowedIps, ResetTypeOK
<1>8. ASSUME NEW d \in Devices, DeleteDevice(d)
      PROVE  ResetTypeOK'
  BY <1>8 DEF DeleteDevice, ResetTypeOK
<1> QED
  BY <1>1, <1>2, <1>3, <1>4, <1>5, <1>6, <1>7, <1>8 DEF ResetNext, Server, Browser

-----------------------------------------------------------------------------
(* Steps on a response that is there make no configuration.                *)
LEMMA TabMakes ==
    ASSUME ResetTypeOK, NEW t \in Tabs, tab[t] # None,
           tab' \in [Tabs -> Response \cup {None}], tab'[t].config = tab[t].config,
           \A s \in Tabs \ {t} : tab'[s] = tab[s],
           held' \subseteq held \cup {tab[t].config}
    PROVE  Made' \subseteq Made
BY DEF Made

(* What a step does to the rows, as far as the invariants tell it apart.   *)
RowPrepared(d) == /\ Prepares(d)
                /\ Made' \subseteq Made \cup {ConfigOf(d, drawn')}

RowActivated(d) == /\ \E e : Activate(d, e)
                /\ Made' \subseteq Made /\ drawn' = drawn

Replaced(d) == /\ Exists(d) /\ DrawsKey
               /\ \/ /\ device' = NewKey(d, drawn')
                     /\ pending' = [pending EXCEPT ![d] = None]
                  \/ UNCHANGED <<device, pending>>
               /\ Made' \subseteq Made \cup {ConfigOf(d, drawn')}

Rerouted(d) == /\ Exists(d) /\ \E r : device' = NewRoutes(d, r)
               /\ pending' = [pending EXCEPT ![d] = None]
               /\ Made' \subseteq Made /\ drawn' = drawn

Deleted(d) == /\ device' = [device EXCEPT ![d] = None]
              /\ pending' = [pending EXCEPT ![d] = None]
              /\ Made' \subseteq Made /\ drawn' = drawn

LEMMA RowSteps ==
    ASSUME ResetTypeOK, ResetNext
    PROVE  \/ UNCHANGED <<device, pending, drawn>> /\ Made' \subseteq Made
           \/ \E d \in Devices : \/ RowPrepared(d) \/ RowActivated(d) \/ Replaced(d)
                                 \/ Rerouted(d) \/ Deleted(d)
<1> DEFINE Goal == \/ UNCHANGED <<device, pending, drawn>> /\ Made' \subseteq Made
                   \/ \E d \in Devices : \/ RowPrepared(d) \/ RowActivated(d) \/ Replaced(d)
                                         \/ Rerouted(d) \/ Deleted(d)
<1>1. ASSUME NEW t \in Tabs, NEW d \in Devices, NEW y \in Deliveries,
             RequestReset(t, d, y)
      PROVE  Goal
  <2>1. /\ held' = held /\ tab'[t].config = ConfigOf(d, drawn')
        /\ \A s \in Tabs \ {t} : tab'[s] = tab[s]
    BY <1>1 DEF RequestReset, ResetTypeOK
  <2>2. Made' \subseteq Made \cup {ConfigOf(d, drawn')}
    BY <2>1 DEF Made
  <2> QED
    BY <1>1, <2>2 DEF RequestReset, RowPrepared
<1>2. ASSUME NEW d \in Devices, RequestRefused(d)
      PROVE  Goal
  BY <1>2 DEF RequestRefused, RowPrepared, Made
<1>3. ASSUME NEW t \in Tabs,
             BodyArrives(t) \/ BodyLost(t) \/ ResponseCloses(t) \/ WorkerExits(t)
      PROVE  Goal
  <2>1. /\ tab[t] # None /\ held' \subseteq held \cup {tab[t].config}
        /\ UNCHANGED <<device, pending, drawn>>
    BY <1>3 DEF BodyArrives, BodyLost, ResponseCloses, WorkerExits
  <2>2. /\ tab' \in [Tabs -> Response \cup {None}] /\ tab'[t].config = tab[t].config
        /\ \A s \in Tabs \ {t} : tab'[s] = tab[s]
    BY <1>3, TabType DEF BodyArrives, BodyLost, ResponseCloses, WorkerExits
  <2> QED
    BY <2>1, <2>2, TabMakes
<1>4. ASSUME NEW t \in Tabs, HookRuns(t) \/ ScriptPosts(t) \/ FormPosts(t)
      PROVE  Goal
  <2>1. /\ tab[t] # None /\ UNCHANGED <<drawn, held>>
        /\ \E e : Activate(tab[t].config.device, e)
    BY <1>4 DEF HookRuns, ScriptPosts, FormPosts
  <2>2. /\ tab' \in [Tabs -> Response \cup {None}] /\ tab'[t].config = tab[t].config
        /\ tab[t].config \in Configuration
        /\ \A s \in Tabs \ {t} : tab'[s] = tab[s]
    BY <1>4, TabType DEF HookRuns, ScriptPosts, FormPosts
  <2>3. Made' \subseteq Made
    BY <2>1, <2>2, TabMakes
  <2>4. tab[t].config.device \in Devices
    BY <2>2 DEF Configuration
  <2> QED
    BY <2>1, <2>3, <2>4 DEF RowActivated
<1>5. ASSUME NEW d \in Devices, CliReset(d)
      PROVE  Goal
  BY <1>5 DEF CliReset, Replaced, Made
<1>6. ASSUME NEW d \in Devices, NEW parts \in Requests, NEW c \in BOOLEAN,
             UpdateAllowedIps(d, parts, c)
      PROVE  Goal
  <2>1. Made' = Made /\ drawn' = drawn
    BY <1>6 DEF UpdateAllowedIps, Made
  <2> QED
    BY <1>6, <2>1 DEF UpdateAllowedIps, Rerouted
<1>7. ASSUME NEW d \in Devices, DeleteDevice(d)
      PROVE  Goal
  BY <1>7 DEF DeleteDevice, Deleted, Made
<1> QED
  BY <1>1, <1>2, <1>3, <1>4, <1>5, <1>6, <1>7 DEF ResetNext, Server, Browser

-----------------------------------------------------------------------------
(* The rows after a new key and after new routes.                          *)
LEMMA NewKeyRow ==
    ASSUME ResetTypeOK, NEW d \in Devices, Exists(d), NEW k, device' = NewKey(d, k)
    PROVE  /\ device'[d].key = k /\ device'[d].delivered = device[d].policy
           /\ device'[d].policy = device[d].policy /\ device'[d].routes = device[d].routes
           /\ \A e \in Devices \ {d} : device'[e] = device[e]
BY DEF ResetTypeOK, Exists, NewKey, DeviceRow

LEMMA NewRoutesRow ==
    ASSUME ResetTypeOK, NEW d \in Devices, Exists(d), NEW r, device' = NewRoutes(d, r)
    PROVE  /\ device'[d].key = device[d].key /\ device'[d].delivered = device[d].delivered
           /\ device'[d].policy = device[d].policy + 1 /\ device'[d].routes = r
           /\ \A e \in Devices \ {d} : device'[e] = device[e]
BY DEF ResetTypeOK, Exists, NewRoutes, DeviceRow

(* The row prepare_device_reset writes.                                    *)
LEMMA PreparedRow ==
    ASSUME ResetTypeOK, NEW d \in Devices, Prepares(d)
    PROVE  /\ Exists(d) /\ device' = device
           /\ pending'[d].key = drawn' /\ pending'[d].base = device[d].key
           /\ pending'[d].generation = device[d].generation
           /\ pending'[d].policy = device[d].policy
           /\ \A e \in Devices \ {d} : pending'[e] = pending[e]
BY DEF ResetTypeOK, Prepares

LEMMA Numbers ==
    ASSUME ResetTypeOK
    PROVE  /\ drawn \in Nat
           /\ \A c \in Made : c \in Configuration /\ c.key \in Nat
           /\ \A d \in Devices : Exists(d) =>
                  /\ device[d].key \in Nat /\ device[d].policy \in Nat
                  /\ device[d].delivered \in Nat
           /\ \A d \in Devices : pending[d] # None => pending[d].key \in Nat
<1>1. Key \subseteq Nat /\ Rev \subseteq Nat
  BY ResetAssumption DEF Key, Rev
<1>2. Made \subseteq Configuration
  BY DEF ResetTypeOK, Made, Response
<1>3. \A d \in Devices : Exists(d) => device[d] \in DeviceRow
  BY DEF ResetTypeOK, Exists
<1>4. \A d \in Devices : pending[d] # None => pending[d] \in PendingRow
  BY DEF ResetTypeOK
<1>5. drawn \in Nat /\ \A c \in Made : c \in Configuration /\ c.key \in Nat
  BY <1>1, <1>2 DEF ResetTypeOK, Configuration
<1>6. \A d \in Devices : Exists(d) =>
          device[d].key \in Nat /\ device[d].policy \in Nat /\ device[d].delivered \in Nat
  BY <1>1, <1>3 DEF DeviceRow
<1>7. \A d \in Devices : pending[d] # None => pending[d].key \in Nat
  BY <1>1, <1>4 DEF PendingRow
<1> QED
  BY <1>5, <1>6, <1>7

-----------------------------------------------------------------------------
(* The invariant without the types, and its six kinds of step.             *)
RowsInv == KeysAreDrawn /\ DeliveredBefore /\ PendingIsCurrent /\ PendingRoutes /\ CurrentRoutes

LEMMA SameRows ==
    ASSUME RowsInv, UNCHANGED <<device, pending, drawn>>, Made' \subseteq Made
    PROVE  RowsInv'
<1> USE DEF RowsInv, Exists
<1>1. KeysAreDrawn' /\ DeliveredBefore' /\ PendingIsCurrent'
  BY DEF KeysAreDrawn, DeliveredBefore, PendingIsCurrent
<1>2. PendingRoutes' /\ CurrentRoutes'
  BY DEF PendingRoutes, CurrentRoutes
<1> QED
  BY <1>1, <1>2

(* The drawn key is nobody's, and the new configuration is its only one.   *)
LEMMA PrepareStep ==
    ASSUME ResetTypeOK, RowsInv, NEW d \in Devices, RowPrepared(d)
    PROVE  RowsInv'
<1> USE Numbers, DrawsKeyType, PreparedRow DEF RowPrepared, RowsInv
<1>1. drawn' = drawn + 1 /\ device' = device /\ Exists(d)
  BY DEF Prepares
<1> DEFINE new == ConfigOf(d, drawn')
<1>2. new.device = d /\ new.key = drawn' /\ new.routes = device[d].routes
  BY DEF ConfigOf
<1>3. KeysAreDrawn'
  <2>1. \A c \in Made' : c.key <= drawn'
    BY <1>1, <1>2 DEF KeysAreDrawn
  <2>2. \A e \in Devices : device[e] # None => device[e].key <= drawn'
    BY <1>1 DEF KeysAreDrawn, Exists
  <2>3. \A e \in Devices : pending'[e] # None => pending'[e].key <= drawn'
    BY <1>1 DEF KeysAreDrawn
  <2> QED
    BY <1>1, <2>1, <2>2, <2>3 DEF KeysAreDrawn, Exists
<1>4. DeliveredBefore'
  BY <1>1 DEF DeliveredBefore, Exists
<1>5. PendingIsCurrent'
  BY <1>1 DEF PendingIsCurrent, Exists
<1>6. PendingRoutes'
  <2> SUFFICES ASSUME NEW e \in Devices, pending'[e] # None, NEW c \in Made',
                      c.device = e, c.key = pending'[e].key
               PROVE  c.routes = device[e].routes
    BY <1>1 DEF PendingRoutes
  <2>1. CASE e = d
    <3>1. c \notin Made
      BY <1>1, <2>1 DEF KeysAreDrawn
    <3> QED
      BY <1>2, <2>1, <3>1
  <2>2. CASE e # d
    BY <1>2, <2>2 DEF PendingRoutes
  <2> QED
    BY <2>1, <2>2
<1>7. CurrentRoutes'
  <2> SUFFICES ASSUME NEW e \in Devices, Exists(e),
                      device[e].delivered = device[e].policy, NEW c \in Made',
                      c.device = e, c.key = device[e].key
               PROVE  c.routes = device[e].routes
    BY <1>1 DEF CurrentRoutes, Exists
  <2>1. c # new
    BY <1>1, <1>2 DEF KeysAreDrawn
  <2> QED
    BY <2>1 DEF CurrentRoutes
<1> QED
  BY <1>3, <1>4, <1>5, <1>6, <1>7

(* The prepared key becomes the current one, with the routes it came with. *)
LEMMA ActivateStep ==
    ASSUME ResetTypeOK, RowsInv, NEW d \in Devices, RowActivated(d)
    PROVE  RowsInv'
<1>1. CASE UNCHANGED <<device, pending>>
  BY <1>1, SameRows DEF RowActivated
<1>2. CASE /\ \E x : Activatable(d, x)
           /\ device' = NewKey(d, pending[d].key)
           /\ pending' = [pending EXCEPT ![d] = None]
  <2> USE Numbers DEF RowsInv
  <2>1. /\ Exists(d) /\ pending[d] # None /\ drawn' = drawn /\ Made' \subseteq Made
    BY <1>2 DEF Activatable, RowActivated
  <2>2. /\ device'[d].key = pending[d].key /\ device'[d].delivered = device[d].policy
        /\ device'[d].policy = device[d].policy /\ device'[d].routes = device[d].routes
        /\ \A e \in Devices \ {d} : device'[e] = device[e]
    BY <1>2, <2>1, NewKeyRow
  <2>3. /\ pending'[d] = None /\ \A e \in Devices \ {d} : pending'[e] = pending[e]
    BY <1>2 DEF ResetTypeOK
  <2>4. KeysAreDrawn'
    BY <2>1, <2>2, <2>3 DEF KeysAreDrawn, Exists
  <2>5. DeliveredBefore'
    BY <2>1, <2>2 DEF DeliveredBefore, Exists
  <2>6. PendingIsCurrent'
    BY <2>2, <2>3 DEF PendingIsCurrent, Exists
  <2>7. PendingRoutes'
    BY <2>1, <2>2, <2>3 DEF PendingRoutes
  <2>8. CurrentRoutes'
    <3> SUFFICES ASSUME NEW e \in Devices, device'[e] # None,
                        device'[e].delivered = device'[e].policy, NEW c \in Made,
                        c.device = e, c.key = device'[e].key
                 PROVE  c.routes = device'[e].routes
      BY <2>1 DEF CurrentRoutes, Exists
    <3>1. CASE e = d
      BY <2>1, <2>2, <3>1 DEF PendingRoutes
    <3>2. CASE e # d
      BY <2>2, <3>2 DEF CurrentRoutes, Exists
    <3> QED
      BY <3>1, <3>2
  <2> QED
    BY <2>4, <2>5, <2>6, <2>7, <2>8
<1> QED
  BY <1>1, <1>2 DEF RowActivated, Activate

(* A command's key is new, and its configuration has the routes of the row.*)
LEMMA ReplaceStep ==
    ASSUME ResetTypeOK, RowsInv, NEW d \in Devices, Replaced(d)
    PROVE  RowsInv'
<1> USE Numbers DEF RowsInv
<1>1. drawn' = drawn + 1 /\ Exists(d) /\ Made' \subseteq Made \cup {ConfigOf(d, drawn')}
  BY DrawsKeyType DEF Replaced
<1> DEFINE new == ConfigOf(d, drawn')
<1>2. new.device = d /\ new.key = drawn' /\ new.routes = device[d].routes
  BY DEF ConfigOf
<1>3. \A c \in Made' : c.key <= drawn'
  BY <1>1, <1>2 DEF KeysAreDrawn
<1>4. CASE UNCHANGED <<device, pending>>
  <2>1. KeysAreDrawn'
    BY <1>1, <1>3, <1>4 DEF KeysAreDrawn, Exists
  <2>2. DeliveredBefore' /\ PendingIsCurrent'
    BY <1>4 DEF DeliveredBefore, PendingIsCurrent, Exists
  <2>3. PendingRoutes'
    BY <1>1, <1>2, <1>4 DEF PendingRoutes, KeysAreDrawn
  <2>4. CurrentRoutes'
    BY <1>1, <1>2, <1>4 DEF CurrentRoutes, KeysAreDrawn, Exists
  <2> QED
    BY <2>1, <2>2, <2>3, <2>4
<1>5. CASE device' = NewKey(d, drawn') /\ pending' = [pending EXCEPT ![d] = None]
  <2>1. /\ device'[d].key = drawn' /\ device'[d].delivered = device[d].policy
        /\ device'[d].policy = device[d].policy /\ device'[d].routes = device[d].routes
        /\ \A e \in Devices \ {d} : device'[e] = device[e]
    BY <1>1, <1>5, NewKeyRow
  <2>2. /\ pending'[d] = None /\ \A e \in Devices \ {d} : pending'[e] = pending[e]
    BY <1>5 DEF ResetTypeOK
  <2>3. KeysAreDrawn'
    BY <1>1, <1>3, <2>1, <2>2 DEF KeysAreDrawn, Exists
  <2>4. DeliveredBefore'
    BY <1>1, <2>1 DEF DeliveredBefore, Exists
  <2>5. PendingIsCurrent'
    BY <2>1, <2>2 DEF PendingIsCurrent, Exists
  <2>6. PendingRoutes'
    BY <1>1, <1>2, <2>1, <2>2 DEF PendingRoutes
  <2>7. CurrentRoutes'
    <3> SUFFICES ASSUME NEW e \in Devices, device'[e] # None,
                        device'[e].delivered = device'[e].policy, NEW c \in Made',
                        c.device = e, c.key = device'[e].key
                 PROVE  c.routes = device'[e].routes
      BY DEF CurrentRoutes, Exists
    <3>1. CASE e = d
      BY <1>1, <1>2, <2>1, <3>1 DEF KeysAreDrawn
    <3>2. CASE e # d
      BY <1>1, <1>2, <2>1, <3>2 DEF CurrentRoutes, Exists
    <3> QED
      BY <3>1, <3>2
  <2> QED
    BY <2>3, <2>4, <2>5, <2>6, <2>7
<1> QED
  BY <1>4, <1>5 DEF Replaced

(* New routes leave the row asking for a reset.                            *)
LEMMA RerouteStep ==
    ASSUME ResetTypeOK, RowsInv, NEW d \in Devices, Rerouted(d)
    PROVE  RowsInv'
<1> USE Numbers DEF RowsInv
<1>1. Exists(d) /\ drawn' = drawn /\ Made' \subseteq Made
  BY DEF Rerouted
<1>2. /\ device'[d].key = device[d].key /\ device'[d].delivered = device[d].delivered
      /\ device'[d].policy = device[d].policy + 1
      /\ \A e \in Devices \ {d} : device'[e] = device[e]
  BY <1>1, NewRoutesRow DEF Rerouted
<1>3. /\ pending'[d] = None /\ \A e \in Devices \ {d} : pending'[e] = pending[e]
  BY DEF ResetTypeOK, Rerouted
<1>4. KeysAreDrawn'
  BY <1>1, <1>2, <1>3 DEF KeysAreDrawn, Exists
<1>5. DeliveredBefore'
  BY <1>1, <1>2 DEF DeliveredBefore, Exists
<1>6. PendingIsCurrent'
  BY <1>2, <1>3 DEF PendingIsCurrent, Exists
<1>7. PendingRoutes'
  BY <1>1, <1>2, <1>3 DEF PendingRoutes
<1>8. CurrentRoutes'
  <2>1. device'[d].delivered # device'[d].policy
    BY <1>1, <1>2 DEF DeliveredBefore
  <2> QED
    BY <1>1, <1>2, <2>1 DEF CurrentRoutes, Exists
<1> QED
  BY <1>4, <1>5, <1>6, <1>7, <1>8

LEMMA DeleteStep ==
    ASSUME ResetTypeOK, RowsInv, NEW d \in Devices, Deleted(d)
    PROVE  RowsInv'
<1> USE DEF RowsInv
<1>1. /\ drawn' = drawn /\ Made' \subseteq Made
      /\ device'[d] = None /\ pending'[d] = None
      /\ \A e \in Devices \ {d} : device'[e] = device[e] /\ pending'[e] = pending[e]
  BY DEF ResetTypeOK, Deleted
<1>2. KeysAreDrawn' /\ DeliveredBefore' /\ PendingIsCurrent'
  BY <1>1 DEF KeysAreDrawn, DeliveredBefore, PendingIsCurrent, Exists
<1>3. PendingRoutes' /\ CurrentRoutes'
  BY <1>1 DEF PendingRoutes, CurrentRoutes, Exists
<1> QED
  BY <1>2, <1>3

-----------------------------------------------------------------------------
LEMMA ResetInvInit == ResetInit => ResetInv
<1> SUFFICES ASSUME ResetInit PROVE ResetInv
  OBVIOUS
<1>1. PICK parts \in {p \in Requests : Acceptable(p)} :
        LET r == Normalize(parts) IN
        /\ device = [d \in Devices |-> [key |-> 0, generation |-> 1, routes |-> r,
                                        policy |-> 1, delivered |-> 1]]
        /\ held = [device : Devices, key : {0}, routes : {r}]
        /\ pending = [d \in Devices |-> None]
        /\ tab = [t \in Tabs |-> None]
        /\ drawn = 0
        /\ asked = [d \in Devices |-> [parts |-> parts, confirmed |-> FALSE]]
  BY DEF ResetInit
<1>2. 0 \in Key /\ 1 \in Rev /\ Normalize(parts) \in Routes
  BY <1>1, NormalizeType, ResetAssumption DEF Key, Rev
<1>3. ResetTypeOK
  BY <1>1, <1>2 DEF ResetTypeOK, DeviceRow, Configuration
<1>4. Made = held
  BY <1>1 DEF Made
<1>5. KeysAreDrawn /\ DeliveredBefore /\ PendingIsCurrent
  BY <1>1, <1>4 DEF KeysAreDrawn, DeliveredBefore, PendingIsCurrent
<1>6. PendingRoutes /\ CurrentRoutes
  BY <1>1, <1>4 DEF PendingRoutes, CurrentRoutes
<1> QED
  BY <1>3, <1>5, <1>6 DEF ResetInv

LEMMA ResetInvStep == ResetInv /\ [ResetNext]_dvars => ResetInv'
<1> SUFFICES ASSUME ResetInv, [ResetNext]_dvars PROVE ResetInv'
  OBVIOUS
<1>1. ResetTypeOK /\ RowsInv
  BY DEF ResetInv, RowsInv
<1>2. CASE ResetNext
  BY <1>1, <1>2, ResetTypeStep, RowSteps, SameRows, PrepareStep, ActivateStep,
     ReplaceStep, RerouteStep, DeleteStep DEF ResetInv, RowsInv
<1>3. CASE UNCHANGED dvars
  <2>1. ResetTypeOK'
    BY <1>1, <1>3 DEF dvars, ResetTypeOK
  <2>2. RowsInv'
    BY <1>1, <1>3, SameRows DEF dvars, Made
  <2> QED
    BY <2>1, <2>2 DEF ResetInv, RowsInv
<1> QED
  BY <1>2, <1>3

LEMMA ResetInvariance == ResetSpec => []ResetInv
BY ResetInvInit, ResetInvStep, PTL DEF ResetSpec

(* The rows, responses and configurations keep their types; the policy     *)
(* revision stays within its bound.                                        *)
THEOREM ResetTyped == ResetSpec => []ResetTypeOK
<1>1. ResetInv => ResetTypeOK
  BY DEF ResetInv
<1> QED
  BY <1>1, ResetInvariance, PTL

(* A prepared reset always starts from the device as it is.                *)
THEOREM PendingStaysCurrent == ResetSpec => []PendingIsCurrent
<1>1. ResetInv => PendingIsCurrent
  BY DEF ResetInv
<1> QED
  BY <1>1, ResetInvariance, PTL

(* No user has an out-of-date configuration for a device whose page does   *)
(* not ask for a reset.                                                    *)
THEOREM DeliveredRoutesStayCurrent == ResetSpec => []DeliveredRoutesAreCurrent
<1>1. ResetInv => DeliveredRoutesAreCurrent
  BY DEF ResetInv, CurrentRoutes, DeliveredRoutesAreCurrent, Made
<1> QED
  BY <1>1, ResetInvariance, PTL

-----------------------------------------------------------------------------
(* Natural numbers have a least one: the induction the proofs below need,  *)
(* from the library's theorem on minimal elements.                         *)
LEMMA LeastElement ==
    ASSUME NEW S \in SUBSET Nat, S # {}
    PROVE  \E n \in S : \A m \in S : n <= m
<1>1. IsWellFoundedOn(OpToRel(<, Nat), Nat)
  BY NatLessThanWellFounded
<1>2. PICK n \in S : \A m \in S : ~(<<m, n>> \in OpToRel(<, Nat))
  BY <1>1, WFMin
<1>3. ASSUME NEW m \in S, m < n PROVE FALSE
  <2>1. <<m, n>> \in {p \in Nat \X Nat : p[1] < p[2]}
    BY <1>3
  <2> QED
    BY <1>2, <2>1 DEF OpToRel
<1> QED
  BY <1>3

(* Two networks with prefixes of the same length that share an address are *)
(* one.                                                                    *)
LEMMA SameNetwork ==
    ASSUME NEW m \in Network, NEW n \in Network, m.len = n.len,
           AddressesOf(m) \cap AddressesOf(n) # {}
    PROVE  m = n
<1>1. PICK a \in Address : \A i \in 1 .. m.len : a[i] = m.base[i] /\ a[i] = n.base[i]
  BY DEF AddressesOf
<1>2. m \in Part /\ n \in Part
  BY DEF Network
<1>3. \A i \in 1 .. Width : m.base[i] = n.base[i]
  <2> SUFFICES ASSUME NEW i \in 1 .. Width PROVE m.base[i] = n.base[i]
    OBVIOUS
  <2>1. CASE i <= m.len
    BY <1>1, <1>2, <2>1, AllowedIpsAssumption DEF Part
  <2>2. CASE ~(i <= m.len)
    BY <1>2, <2>2, AllowedIpsAssumption DEF Network, Part
  <2> QED
    BY <2>1, <2>2
<1>4. /\ m.base = [i \in 1 .. Width |-> m.base[i]]
      /\ n.base = [i \in 1 .. Width |-> n.base[i]]
  BY <1>2 DEF Part, Address
<1>5. m.base = n.base
  BY <1>3, <1>4
<1> QED
  BY <1>2, <1>5 DEF Part

(* The address that differs in the bit after the shorter prefix.           *)
LEMMA ShorterPrefix ==
    ASSUME NEW m \in Network, NEW n \in Network, SubnetOf(m, n)
    PROVE  n.len <= m.len
<1> SUFFICES ASSUME m.len < n.len PROVE FALSE
  BY AllowedIpsAssumption DEF Network, Part
<1> DEFINE j == m.len + 1
           a == [m.base EXCEPT ![j] = 1 - m.base[j]]
<1>1. j \in 1 .. Width /\ j \in 1 .. n.len /\ m.base \in Address
  BY AllowedIpsAssumption DEF Network, Part
<1>2. a \in Address /\ a[j] # m.base[j] /\ \A i \in 1 .. m.len : a[i] = m.base[i]
  BY <1>1, AllowedIpsAssumption DEF Address, Network, Part
<1>3. m.base \in AddressesOf(n) /\ a \in AddressesOf(n)
  BY <1>1, <1>2 DEF SubnetOf, AddressesOf
<1> QED
  BY <1>1, <1>2, <1>3 DEF AddressesOf

(* Above every network of a list there is one with the shortest prefix,    *)
(* which Normalize keeps.                                                  *)
LEMMA NormalizeCovers ==
    ASSUME NEW N \in SUBSET Network
    PROVE  \A n \in N : \E m \in Normalize(N) : SubnetOf(n, m)
<1> SUFFICES ASSUME NEW n \in N PROVE \E m \in Normalize(N) : SubnetOf(n, m)
  OBVIOUS
<1> DEFINE Above == {m \in N : SubnetOf(n, m)}
           Lens == {m.len : m \in Above}
<1>1. Lens \in SUBSET Nat /\ Lens # {}
  BY AllowedIpsAssumption DEF Network, Part, SubnetOf
<1>2. PICK l \in Lens : \A k \in Lens : l <= k
  BY <1>1, LeastElement
<1>3. PICK m \in Above : m.len = l
  BY <1>2
<1>4. ASSUME NEW other \in N, SubnetOf(m, other)
      PROVE  m = other
  <2>1. other \in Above
    BY <1>3, <1>4 DEF SubnetOf
  <2>2. m.len <= other.len /\ other.len <= m.len
    BY <1>2, <1>3, <1>4, <2>1, ShorterPrefix
  <2>3. m.len = other.len
    BY <2>2, AllowedIpsAssumption DEF Network, Part
  <2>4. m.base \in AddressesOf(m)
    BY <1>3 DEF AddressesOf, Network, Part
  <2> QED
    BY <1>3, <1>4, <2>3, <2>4, SameNetwork DEF SubnetOf
<1> QED
  BY <1>3, <1>4 DEF Normalize

(* What normalize_client_allowed_ips does to a list: no address is lost or *)
(* added, and nothing redundant is left.                                   *)
LEMMA NormalizeKeepsAddresses ==
    ASSUME NEW N \in SUBSET Network
    PROVE  Covered(Normalize(N)) = Covered(N) /\ Irredundant(Normalize(N))
<1>1. Normalize(N) \subseteq N
  BY DEF Normalize
<1>2. Covered(Normalize(N)) \subseteq Covered(N)
  BY <1>1 DEF Covered
<1>3. ASSUME NEW a \in Covered(N) PROVE a \in Covered(Normalize(N))
  <2>1. PICK n \in N : a \in AddressesOf(n)
    BY DEF Covered
  <2>2. PICK m \in Normalize(N) : SubnetOf(n, m)
    BY NormalizeCovers
  <2> QED
    BY <2>1, <2>2 DEF SubnetOf, Covered
<1>4. Irredundant(Normalize(N))
  BY DEF Irredundant, Normalize
<1> QED
  BY <1>2, <1>3, <1>4

(* There is only one way to do that: an irredundant part of the list that  *)
(* still covers every network of it is what normalize_client_allowed_ips   *)
(* returns (policy.py 27-38), so that two requests for the same routes are *)
(* one policy to update_device_allowed_ips, whatever was redundant in them.*)
THEOREM NormalizeIsLeast ==
    ASSUME NEW N \in SUBSET Network, NEW M \in SUBSET N, Irredundant(M),
           \A n \in N : \E m \in M : SubnetOf(n, m)
    PROVE  M = Normalize(N)
<1>1. ASSUME NEW m \in M PROVE m \in Normalize(N)
  <2> SUFFICES ASSUME NEW n \in N, SubnetOf(m, n) PROVE m = n
    BY DEF Normalize
  <2>1. PICK k \in M : SubnetOf(n, k)
    OBVIOUS
  <2>2. k = m
    BY <2>1 DEF Irredundant, SubnetOf
  <2>3. SubnetOf(n, m) /\ m \in Network /\ n \in Network
    BY <2>1, <2>2
  <2>4. m.len = n.len
    BY <2>3, ShorterPrefix, AllowedIpsAssumption DEF Network, Part
  <2>5. m.base \in AddressesOf(m)
    BY <2>3 DEF AddressesOf, Network, Part
  <2> QED
    BY <2>3, <2>4, <2>5, SameNetwork DEF SubnetOf
<1>2. ASSUME NEW n \in Normalize(N) PROVE n \in M
  <2>1. n \in N
    BY DEF Normalize
  <2>2. PICK m \in M : SubnetOf(n, m)
    BY <2>1
  <2> QED
    BY <2>2 DEF Normalize
<1> QED
  BY <1>1, <1>2

-----------------------------------------------------------------------------
(* A row carries what Normalize makes of the last request for its device.  *)
FollowsRequest ==
    \A d \in Devices : Exists(d) =>
        /\ Acceptable(asked[d].parts)
        /\ device[d].routes = Normalize(asked[d].parts)
        /\ device[d].routes = FullTunnel => asked[d].confirmed \/ device[d].policy = 1

(* Only update_device_allowed_ips changes routes.                          *)
LEMMA RoutesKept ==
    ASSUME ResetTypeOK, FollowsRequest, asked' = asked,
           \A d \in Devices : Exists(d)' =>
               /\ Exists(d)
               /\ device'[d].routes = device[d].routes /\ device'[d].policy = device[d].policy
    PROVE  FollowsRequest'
BY DEF FollowsRequest

LEMMA ActivateKeepsRoutes ==
    ASSUME ResetTypeOK, NEW d \in Devices, NEW e, Activate(d, e)
    PROVE  \A c \in Devices : Exists(c)' =>
               /\ Exists(c)
               /\ device'[c].routes = device[c].routes /\ device'[c].policy = device[c].policy
<1>1. CASE device' = device
  BY <1>1 DEF Exists
<1>2. CASE Exists(d) /\ device' = NewKey(d, pending[d].key)
  BY <1>2, NewKeyRow DEF Exists
<1> QED
  BY <1>1, <1>2 DEF Activate, Activatable

LEMMA FollowsStep ==
    ASSUME ResetTypeOK, FollowsRequest, ResetNext
    PROVE  FollowsRequest'
<1>1. ASSUME NEW d \in Devices, Prepares(d), asked' = asked
      PROVE  FollowsRequest'
  BY <1>1, RoutesKept DEF Prepares, Exists
<1>2. ASSUME NEW t \in Tabs,
             BodyArrives(t) \/ BodyLost(t) \/ ResponseCloses(t) \/ WorkerExits(t)
      PROVE  FollowsRequest'
  BY <1>2, RoutesKept DEF BodyArrives, BodyLost, ResponseCloses, WorkerExits, Exists
<1>3. ASSUME NEW t \in Tabs, HookRuns(t) \/ ScriptPosts(t) \/ FormPosts(t)
      PROVE  FollowsRequest'
  <2>1. tab[t].config.device \in Devices
    BY <1>3 DEF HookRuns, ScriptPosts, FormPosts, ResetTypeOK, Response, Configuration
  <2>2. asked' = asked /\ \E e : Activate(tab[t].config.device, e)
    BY <1>3 DEF HookRuns, ScriptPosts, FormPosts
  <2> QED
    BY <2>1, <2>2, ActivateKeepsRoutes, RoutesKept
<1>4. ASSUME NEW d \in Devices, CliReset(d)
      PROVE  FollowsRequest'
  <2>1. CASE device' = NewKey(d, drawn')
    BY <1>4, <2>1, NewKeyRow, RoutesKept DEF CliReset, Exists
  <2>2. CASE device' = device
    BY <1>4, <2>2, RoutesKept DEF CliReset, Exists
  <2> QED
    BY <1>4, <2>1, <2>2 DEF CliReset
<1>5. ASSUME NEW d \in Devices, NEW parts \in Requests, NEW c \in BOOLEAN,
             UpdateAllowedIps(d, parts, c)
      PROVE  FollowsRequest'
  <2>1. /\ Exists(d) /\ Acceptable(parts) /\ (Normalize(parts) = FullTunnel => c)
        /\ asked'[d].parts = parts /\ asked'[d].confirmed = c
        /\ \A e \in Devices \ {d} : asked'[e] = asked[e]
    BY <1>5 DEF UpdateAllowedIps, Permitted, ResetTypeOK
  <2>2. /\ device'[d].routes = Normalize(parts)
        /\ \A e \in Devices \ {d} : device'[e] = device[e]
    BY <1>5, <2>1, NewRoutesRow DEF UpdateAllowedIps
  <2> QED
    BY <2>1, <2>2 DEF FollowsRequest, Exists
<1>6. ASSUME NEW d \in Devices, DeleteDevice(d)
      PROVE  FollowsRequest'
  <2>1. asked' = asked /\ device'[d] = None /\ \A e \in Devices \ {d} : device'[e] = device[e]
    BY <1>6 DEF DeleteDevice, ResetTypeOK
  <2> QED
    BY <2>1 DEF FollowsRequest, Exists
<1> QED
  BY <1>1, <1>2, <1>3, <1>4, <1>5, <1>6
     DEF ResetNext, Server, Browser, RequestReset, RequestRefused

(* A row that follows its request has the routes that were asked for.      *)
LEMMA FollowingIsAsked ==
    ASSUME FollowsRequest
    PROVE  RoutesAreAsked
<1> SUFFICES ASSUME NEW d \in Devices, Exists(d)
             PROVE  /\ Covered(device[d].routes) = Covered(asked[d].parts)
                    /\ Irredundant(device[d].routes)
                    /\ device[d].routes = FullTunnel =>
                           /\ FullTunnel \subseteq asked[d].parts
                           /\ asked[d].confirmed \/ device[d].policy = 1
  BY DEF RoutesAreAsked
<1> DEFINE N == asked[d].parts
<1>1. N \in SUBSET Network /\ device[d].routes = Normalize(N)
  BY DEF FollowsRequest, Acceptable
<1>2. Covered(Normalize(N)) = Covered(N) /\ Irredundant(Normalize(N))
  BY <1>1, NormalizeKeepsAddresses
<1>3. Normalize(N) \subseteq N
  BY DEF Normalize
<1> QED
  BY <1>1, <1>2, <1>3 DEF FollowsRequest

(* A device's routes lead exactly the addresses last asked for into its    *)
(* tunnel, none twice, and the full tunnel only if somebody asked for it   *)
(* in so many words, and confirmed it or created the device with it.       *)
THEOREM RoutesStayAsked == ResetSpec => []RoutesAreAsked
<1> DEFINE Inv == ResetTypeOK /\ FollowsRequest
<1>1. ResetInit => FollowsRequest
  <2> SUFFICES ASSUME ResetInit PROVE FollowsRequest
    OBVIOUS
  <2>1. PICK parts \in {p \in Requests : Acceptable(p)} :
          LET r == Normalize(parts) IN
          /\ device = [d \in Devices |-> [key |-> 0, generation |-> 1, routes |-> r,
                                          policy |-> 1, delivered |-> 1]]
          /\ asked = [d \in Devices |-> [parts |-> parts, confirmed |-> FALSE]]
    BY DEF ResetInit
  <2> QED
    BY <2>1 DEF FollowsRequest
<1>2. ResetTypeOK /\ FollowsRequest /\ [ResetNext]_dvars => FollowsRequest'
  <2> SUFFICES ASSUME ResetTypeOK, FollowsRequest, [ResetNext]_dvars PROVE FollowsRequest'
    OBVIOUS
  <2>1. CASE UNCHANGED dvars
    BY <2>1 DEF dvars, FollowsRequest, Exists
  <2> QED
    BY <2>1, FollowsStep
<1>3. FollowsRequest => RoutesAreAsked
  BY FollowingIsAsked
<1> QED
  BY <1>1, <1>2, <1>3, ResetTyped, PTL DEF ResetSpec

-----------------------------------------------------------------------------
(* Bodies arrive before the grace period is over, commands can write their *)
(* files, and nobody asks for a QR code.                                   *)
HandedOver == /\ Faults \cap {"slow_body", "lost_body", "output_file"} = {}
              /\ "qr" \notin Deliveries

(* Then a response activates its key only when the user has it.            *)
Responses ==
    \A t \in Tabs : tab[t] # None =>
        /\ tab[t].delivery = "download" /\ tab[t].body # "lost"
        /\ tab[t].body = "arrived" => tab[t].config \in held
        /\ tab[t].hook = "due" => tab[t].body = "arrived"

LEMMA ResponsesStep ==
    ASSUME HandedOver, ResetTypeOK, Responses, ResetNext
    PROVE  Responses'
<1> USE DEF Responses
<1>1. ASSUME NEW t \in Tabs, NEW d \in Devices, NEW y \in Deliveries,
             RequestReset(t, d, y)
      PROVE  Responses'
  BY <1>1 DEF RequestReset, ResetTypeOK, HandedOver, HookOf
<1>2. ASSUME NEW t \in Tabs, tab[t] # None, held \subseteq held',
             \A s \in Tabs \ {t} : tab'[s] = tab[s],
             /\ tab'[t].delivery = "download" /\ tab'[t].body # "lost"
             /\ tab'[t].body = "arrived" => tab'[t].config \in held'
             /\ tab'[t].hook = "due" => tab'[t].body = "arrived"
      PROVE  Responses'
  BY <1>2
<1>3. ASSUME NEW t \in Tabs, BodyArrives(t)
      PROVE  Responses'
  <2>1. tab[t] \in Response
    BY <1>3 DEF BodyArrives, ResetTypeOK
  <2>2. tab' = [tab EXCEPT ![t] = [tab[t] EXCEPT !.body = "arrived"]]
    BY <1>3, <2>1 DEF BodyArrives, ResetTypeOK
  <2>3. /\ tab'[t].delivery = tab[t].delivery /\ tab'[t].body = "arrived"
        /\ tab'[t].config = tab[t].config
        /\ \A s \in Tabs \ {t} : tab'[s] = tab[s]
    BY <2>1, <2>2 DEF ResetTypeOK, Response
  <2> QED
    BY <1>3, <2>3 DEF BodyArrives
<1>4. ASSUME NEW t \in Tabs, BodyLost(t)
      PROVE  Responses'
  BY <1>4 DEF BodyLost, HandedOver
<1>5. ASSUME NEW t \in Tabs, NEW h \in {"due", "done"}, tab[t] # None,
             tab' = [tab EXCEPT ![t].hook = h], held' = held,
             h = "due" => tab[t].body = "arrived"
      PROVE  Responses'
  <2>1. tab[t] \in Response
    BY <1>5 DEF ResetTypeOK
  <2>2. tab' = [tab EXCEPT ![t] = [tab[t] EXCEPT !.hook = h]]
    BY <1>5, <2>1 DEF ResetTypeOK
  <2>3. /\ tab'[t].delivery = tab[t].delivery /\ tab'[t].body = tab[t].body
        /\ tab'[t].config = tab[t].config /\ tab'[t].hook = h
        /\ \A s \in Tabs \ {t} : tab'[s] = tab[s]
    BY <2>1, <2>2 DEF ResetTypeOK, Response
  <2> QED
    BY <1>5, <2>3
<1>6. ASSUME NEW t \in Tabs, ResponseCloses(t)
      PROVE  Responses'
  <2>1. tab[t] \in Response /\ tab[t].body # "sending" /\ tab[t].body # "lost"
    BY <1>6 DEF ResponseCloses, HandedOver, ResetTypeOK
  <2>2. tab[t].body = "arrived"
    BY <2>1 DEF Response
  <2> QED
    BY <1>5, <1>6, <2>2 DEF ResponseCloses
<1>7. ASSUME NEW t \in Tabs, WorkerExits(t) \/ HookRuns(t)
      PROVE  Responses'
  BY <1>5, <1>7 DEF WorkerExits, HookRuns
<1>8. ASSUME NEW t \in Tabs, ScriptPosts(t) \/ FormPosts(t)
      PROVE  Responses'
  <2>1. tab[t] \in Response
    BY <1>8 DEF ScriptPosts, FormPosts, ResetTypeOK
  <2>2. tab' = [tab EXCEPT ![t] = [tab[t] EXCEPT !.posted = TRUE]]
    BY <1>8, <2>1 DEF ScriptPosts, FormPosts, ResetTypeOK
  <2>3. /\ tab'[t].delivery = tab[t].delivery /\ tab'[t].body = tab[t].body
        /\ tab'[t].config = tab[t].config /\ tab'[t].hook = tab[t].hook
        /\ \A s \in Tabs \ {t} : tab'[s] = tab[s]
    BY <2>1, <2>2 DEF ResetTypeOK, Response
  <2> QED
    BY <1>8, <2>3 DEF ScriptPosts, FormPosts
<1>9. ASSUME NEW d \in Devices, RequestRefused(d) \/ CliReset(d) \/ DeleteDevice(d)
      PROVE  Responses'
  BY <1>9 DEF RequestRefused, CliReset, DeleteDevice
<1>10. ASSUME NEW d \in Devices, NEW parts \in Requests, NEW c \in BOOLEAN,
              UpdateAllowedIps(d, parts, c)
       PROVE  Responses'
  BY <1>10 DEF UpdateAllowedIps
<1> QED
  BY <1>1, <1>3, <1>4, <1>6, <1>7, <1>8, <1>9, <1>10 DEF ResetNext, Server, Browser

LEMMA DeliveredStep ==
    ASSUME HandedOver, ResetTypeOK, Responses, OnlyDeliveredKeys, ResetNext
    PROVE  OnlyDeliveredKeys'
<1> USE DEF OnlyDeliveredKeys, Exists
<1>1. ASSUME NEW t \in Tabs, NEW d \in Devices, NEW y \in Deliveries,
             RequestReset(t, d, y)
      PROVE  OnlyDeliveredKeys'
  BY <1>1 DEF RequestReset, Prepares
<1>2. ASSUME NEW d \in Devices, RequestRefused(d)
      PROVE  OnlyDeliveredKeys'
  BY <1>2 DEF RequestRefused, Prepares
<1>3. ASSUME NEW t \in Tabs,
             BodyArrives(t) \/ BodyLost(t) \/ ResponseCloses(t) \/ WorkerExits(t)
      PROVE  OnlyDeliveredKeys'
  BY <1>3 DEF BodyArrives, BodyLost, ResponseCloses, WorkerExits
<1>4. ASSUME NEW t \in Tabs, HookRuns(t) \/ ScriptPosts(t) \/ FormPosts(t)
      PROVE  OnlyDeliveredKeys'
  <2> DEFINE f == tab[t].config
             d == f.device
  <2>1. tab[t] \in Response /\ f \in held /\ Activate(d, f.key)
    BY <1>4 DEF HookRuns, ScriptPosts, FormPosts, Responses, ResetTypeOK
  <2>2. d \in Devices /\ held' = held /\ f.key \in Key
    BY <1>4, <2>1 DEF HookRuns, ScriptPosts, FormPosts, Response, Configuration
  <2>3. CASE UNCHANGED <<device, pending>>
    BY <2>2, <2>3
  <2>4. CASE Activatable(d, f.key) /\ device' = NewKey(d, pending[d].key)
    <3>1. device[d] # None /\ pending[d] # None /\ f.key \in {None, pending[d].key}
      BY <2>4 DEF Activatable
    <3>2. device'[d].key = pending[d].key /\ \A e \in Devices \ {d} : device'[e] = device[e]
      BY <2>2, <2>4, <3>1, NewKeyRow
    <3>3. f.key = pending[d].key
      BY <2>2, <3>1, ResetAssumption DEF Key
    <3> QED
      BY <2>1, <2>2, <3>2, <3>3
  <2> QED
    BY <2>1, <2>3, <2>4 DEF Activate
<1>5. ASSUME NEW d \in Devices, CliReset(d)
      PROVE  OnlyDeliveredKeys'
  <2> DEFINE new == ConfigOf(d, drawn')
  <2>1. new.device = d /\ new.key = drawn'
    BY DEF ConfigOf
  <2>2. CASE device' = NewKey(d, drawn')
    <3>1. device'[d].key = drawn' /\ \A e \in Devices \ {d} : device'[e] = device[e]
      BY <1>5, <2>2, NewKeyRow DEF CliReset
    <3>2. CASE held' = held \cup {new}
      BY <2>1, <3>1, <3>2
    <3>3. CASE held' = held /\ device' = device
      BY <3>3
    <3> QED
      BY <1>5, <3>2, <3>3 DEF CliReset, HandedOver
  <2>3. CASE device' = device /\ held \subseteq held'
    BY <2>3
  <2> QED
    BY <1>5, <2>2, <2>3 DEF CliReset
<1>6. ASSUME NEW d \in Devices, NEW parts \in Requests, NEW c \in BOOLEAN,
             UpdateAllowedIps(d, parts, c)
      PROVE  OnlyDeliveredKeys'
  <2>1. CASE device' = device
    BY <1>6, <2>1 DEF UpdateAllowedIps
  <2>2. CASE device' = NewRoutes(d, Normalize(parts))
    <3>1. device'[d].key = device[d].key /\ \A e \in Devices \ {d} : device'[e] = device[e]
      BY <1>6, <2>2, NewRoutesRow DEF UpdateAllowedIps
    <3> QED
      BY <1>6, <3>1 DEF UpdateAllowedIps
  <2> QED
    BY <1>6, <2>1, <2>2 DEF UpdateAllowedIps
<1>7. ASSUME NEW d \in Devices, DeleteDevice(d)
      PROVE  OnlyDeliveredKeys'
  BY <1>7 DEF DeleteDevice, ResetTypeOK
<1> QED
  BY <1>1, <1>2, <1>3, <1>4, <1>5, <1>6, <1>7 DEF ResetNext, Server, Browser

(* Where bodies arrive in time and no QR code is shown, a reset by hook,   *)
(* script or command, in any order and number, only ever activates a key   *)
(* whose configuration has reached its user.                               *)
THEOREM OnlyDelivered ==
    ASSUME HandedOver
    PROVE  ResetSpec => []OnlyDeliveredKeys
<1> DEFINE Inv == ResetInv /\ Responses /\ OnlyDeliveredKeys
<1>1. ResetInit => Inv
  <2> SUFFICES ASSUME ResetInit PROVE Responses /\ OnlyDeliveredKeys
    BY ResetInvInit
  <2>1. Responses
    BY DEF ResetInit, Responses
  <2>2. ASSUME NEW d \in Devices
        PROVE  \E c \in held : c.device = d /\ c.key = device[d].key
    <3>1. PICK parts \in {p \in Requests : Acceptable(p)} :
            LET r == Normalize(parts) IN
            /\ device = [e \in Devices |-> [key |-> 0, generation |-> 1, routes |-> r,
                                            policy |-> 1, delivered |-> 1]]
            /\ held = [device : Devices, key : {0}, routes : {r}]
      BY DEF ResetInit
    <3>2. [device |-> d, key |-> 0, routes |-> Normalize(parts)] \in held
      BY <3>1
    <3>3. device[d].key = 0
      BY <3>1
    <3> QED
      BY <3>2, <3>3
  <2> QED
    BY <2>1, <2>2 DEF OnlyDeliveredKeys
<1>2. Inv /\ [ResetNext]_dvars => Inv'
  <2> SUFFICES ASSUME Inv, [ResetNext]_dvars PROVE Inv'
    OBVIOUS
  <2>1. ResetInv'
    BY ResetInvStep
  <2>2. CASE ResetNext
    BY <2>1, <2>2, ResponsesStep, DeliveredStep DEF ResetInv
  <2>3. CASE UNCHANGED dvars
    BY <2>1, <2>3 DEF dvars, Responses, OnlyDeliveredKeys, Exists
  <2> QED
    BY <2>2, <2>3
<1>3. Inv => OnlyDeliveredKeys
  OBVIOUS
<1> QED
  BY <1>1, <1>2, <1>3, PTL DEF ResetSpec

=============================================================================
