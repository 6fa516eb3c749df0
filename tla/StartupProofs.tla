---------------------------- MODULE StartupProofs ---------------------------
(***************************************************************************)
(* What holds of a start for any number of commands, kills and restarts:   *)
(* every process that has built the application has the one secret and the *)
(* whole schema, keys read from a steady reconciler are current, and the   *)
(* Web manager serves only while the committed peers are live.             *)
(***************************************************************************)
EXTENDS Startup, TLAPS

Prepared == {"schema", "altering", "reconcile", "serving"}

(* What a manager process relies on at each stage.                         *)
ProcOK(p) ==
    /\ proc[p].at = "writing" => secret = "empty"
    /\ proc[p].at \in Prepared => proc[p].secret = secret /\ secret \in Procs
    /\ proc[p].at = "altering" => schema \in {"old", "new"}
    /\ proc[p].at \in {"reconcile", "serving"} => schema = "new"
    /\ proc[p].at = "serving" => ~proc[p].job
    /\ proc[p].sure => iface # None /\ proc[p].key = iface
    /\ p = WebP /\ p \in steady /\ proc[p].at # "down" /\ ~proc[p].job => live

(* The secret's file is created, and written, by one process.              *)
OneWriter ==
    \A p, q \in Procs : proc[p].at = "writing" /\ proc[q].at = "writing" => p = q

(* A steady reconciler exports the interface's key before it listens.      *)
RecOK == "reconciler" \in steady =>
    /\ rec.at = "starting" => iface # None /\ rec.key = iface
    /\ rec.at \in {"binding", "listening", "serving"} => iface # None /\ keyFile = iface

(* No reconciler of before the server's restart answers a Web manager that *)
(* was started in the documented order.                                    *)
Ordered == WebP \in steady => Renewed

StartInv ==
    /\ StartTypeOK
    /\ \A p \in Procs : ProcOK(p)
    /\ OneWriter
    /\ RecOK /\ Ordered

-----------------------------------------------------------------------------
(* A process is set to something of its type, with a key where it needs    *)
(* one, and nothing else changes that types are about.                     *)
LEMMA SetType ==
    ASSUME StartTypeOK, NEW p \in Procs, NEW r \in Proc,
           r.at \notin {"down", "key", "keyless"} => r.key # None, Set(p, r)
    PROVE  /\ proc' \in [Procs -> Proc]
           /\ proc'[p] = r /\ \A q \in Procs \ {p} : proc'[q] = proc[q]
           /\ \A q \in Procs : proc'[q].at \notin {"down", "key", "keyless"} => proc'[q].key # None
BY DEF StartTypeOK, Set

(* The manager process moves on, ends, or starts.                          *)
LEMMA GotoType ==
    ASSUME StartTypeOK, NEW p \in Procs, proc[p].at \notin {"down", "key", "keyless"},
           NEW stage \in {"socket", "sockless", "secret", "creating", "writing", "schema",
                          "altering", "reconcile", "serving"},
           NEW r, r = [proc[p] EXCEPT !.at = stage]
    PROVE  /\ r \in Proc /\ r.key # None
           /\ r.at = stage /\ r.key = proc[p].key /\ r.secret = proc[p].secret
           /\ r.job = proc[p].job /\ r.sure = proc[p].sure
BY DEF StartTypeOK, Proc

LEMMA DownType ==
    /\ Down \in Proc /\ Down.at = "down" /\ ~Down.sure /\ ~Down.job
BY DEF Down, Proc

-----------------------------------------------------------------------------
(* The other processes do not notice a step of process p.                  *)
LEMMA OtherProcs ==
    ASSUME NEW p \in Procs, \A q \in Procs : ProcOK(q),
           \A q \in Procs \ {p} : proc'[q] = proc[q],
           iface' = iface, live => live',
           schema' = schema \/ schema' = "new",
           steady' \subseteq steady \cup {p},
           secret' = secret \/ \A q \in Procs \ {p} :
                                   proc[q].at \notin Prepared \cup {"writing"}
    PROVE  \A q \in Procs \ {p} : ProcOK(q)'
BY DEF ProcOK, Prepared

(* What a step of one manager process does, in general.                    *)
LEMMA ProcStep ==
    ASSUME StartInv, NEW p \in Procs, NEW r \in Proc,
           r.at \notin {"down", "key", "keyless"} => r.key # None, Set(p, r), ProcOK(p)',
           UNCHANGED <<iface, orphan, keyFile, sock, rec>>,
           live' \in BOOLEAN, live => live',
           schema' = schema \/ schema' = "new",
           \/ steady' = steady
           \/ p = WebP /\ Renewed /\ steady' = steady \cup {WebP},
           \/ secret' = secret
           \/ /\ secret' = "empty" \/ secret' = p
              /\ \A q \in Procs \ {p} : proc[q].at \notin Prepared \cup {"writing"},
           r.at = "writing" => \A q \in Procs \ {p} : proc[q].at # "writing",
           kills' \in 0 .. MaxKills, boots' = boots, runs' \subseteq Commands
    PROVE  StartInv'
<1>1. /\ proc' \in [Procs -> Proc]
      /\ proc'[p] = r /\ \A q \in Procs \ {p} : proc'[q] = proc[q]
      /\ \A q \in Procs : proc'[q].at \notin {"down", "key", "keyless"} => proc'[q].key # None
  BY SetType DEF StartInv
<1>2. StartTypeOK'
  BY <1>1 DEF StartInv, StartTypeOK
<1>3. \A q \in Procs : ProcOK(q)'
  BY <1>1, OtherProcs DEF StartInv
<1>4. OneWriter'
  BY <1>1 DEF StartInv, OneWriter
<1>5. RecOK' /\ Ordered'
  BY StartupAssumption DEF StartInv, RecOK, Ordered, Renewed, Procs
<1> QED
  BY <1>2, <1>3, <1>4, <1>5 DEF StartInv

-----------------------------------------------------------------------------
(* A process that ends.                                                    *)
LEMMA EndStep ==
    ASSUME StartInv, NEW p \in Procs, End(p),
           UNCHANGED <<iface, orphan, live, keyFile, sock, rec, secret, steady, boots, runs>>,
           schema' = schema \/ schema' = "new", kills' \in 0 .. MaxKills
    PROVE  StartInv'
<1>1. Set(p, Down)
  BY DEF End
<1>2. proc'[p] = Down
  BY <1>1, SetType, DownType DEF StartInv
<1>3. ProcOK(p)'
  BY <1>2, DownType DEF ProcOK, Prepared
<1> QED
  BY <1>1, <1>3, ProcStep, DownType DEF StartInv, StartTypeOK

(* A process that goes on to another stage, and does nothing else.         *)
LEMMA GotoStep ==
    ASSUME StartInv, NEW p \in Procs, proc[p].at \notin {"down", "key", "keyless"},
           NEW stage \in {"socket", "sockless", "secret", "creating", "schema", "altering",
                          "reconcile", "serving"},
           Goto(p, stage),
           UNCHANGED <<iface, orphan, live, keyFile, sock, rec, secret, steady, kills, boots, runs>>,
           schema' = schema \/ schema' = "new",
           stage \in Prepared => proc[p].at \in Prepared,
           stage = "altering" => schema' \in {"old", "new"},
           stage \in {"reconcile", "serving"} => schema' = "new",
           stage = "serving" => ~proc[p].job
    PROVE  StartInv'
<1> DEFINE r == [proc[p] EXCEPT !.at = stage]
<1>1. /\ r \in Proc /\ r.key # None /\ r.at = stage /\ r.key = proc[p].key
      /\ r.secret = proc[p].secret /\ r.job = proc[p].job /\ r.sure = proc[p].sure
  BY GotoType DEF StartInv
<1>2. Set(p, r)
  BY DEF Goto
<1>3. proc'[p] = r
  BY <1>1, <1>2, SetType DEF StartInv
<1>4. ProcOK(p)'
  BY <1>1, <1>3 DEF StartInv, ProcOK, Prepared
<1> QED
  BY <1>1, <1>2, <1>4, ProcStep DEF StartInv, StartTypeOK

LEMMA BuiltStep ==
    ASSUME StartInv, NEW p \in Procs, proc[p].at \in {"schema", "altering"}, Built(p),
           UNCHANGED <<iface, orphan, live, keyFile, sock, rec, secret, steady, kills, boots, runs>>,
           schema' = "new"
    PROVE  StartInv'
<1>1. CASE proc[p].job
  BY <1>1, GotoStep DEF Built, Prepared
<1>2. CASE ~proc[p].job
  BY <1>2, GotoStep DEF Built, Prepared
<1> QED
  BY <1>1, <1>2

LEMMA ProcessStep ==
    ASSUME StartInv, NEW p \in Procs, ProcNext(p) \/ Kill(p)
    PROVE  StartInv'
<1>0. StartTypeOK /\ ProcOK(p) /\ kills \in 0 .. MaxKills
  BY DEF StartInv, StartTypeOK
<1>1. CASE Start(p)
  <2> DEFINE r == [Down EXCEPT !.at = "key", !.job = p = WebP]
  <2>1. r \in Proc /\ r.at = "key" /\ ~r.sure /\ r.job = (p = WebP)
    BY DEF Down, Proc
  <2>2. Set(p, r) /\ proc'[p] = r
    BY <1>0, <1>1, <2>1, SetType DEF Start
  <2>3. ProcOK(p)'
    BY <2>1, <2>2 DEF ProcOK, Prepared
  <2>4. runs' \subseteq Commands
    BY <1>0, <1>1 DEF Start, StartTypeOK
  <2> QED
    BY <1>0, <1>1, <2>1, <2>2, <2>3, <2>4, ProcStep DEF Start, StartTypeOK
<1>2. CASE ReadKey(p)
  <2> DEFINE r == [proc[p] EXCEPT !.at = "socket", !.key = keyFile,
                       !.sure = rec.at = "serving" /\ "reconciler" \in steady]
  <2>1. /\ r \in Proc /\ r.at = "socket" /\ r.key = keyFile /\ keyFile # None
        /\ r.sure = (rec.at = "serving" /\ "reconciler" \in steady)
        /\ r.job = proc[p].job
    BY <1>0, <1>2 DEF ReadKey, KeyThere, StartTypeOK, Proc
  <2>2. Set(p, r) /\ proc'[p] = r
    BY <1>0, <1>2, <2>1, SetType DEF ReadKey
  <2>3. ProcOK(p)'
    BY <1>0, <1>2, <2>1, <2>2 DEF ReadKey, ProcOK, Prepared, StartInv, RecOK
  <2> QED
    BY <1>0, <1>2, <2>1, <2>2, <2>3, ProcStep DEF ReadKey, StartTypeOK
<1>3. CASE SeeSocket(p)
  BY <1>3, GotoStep DEF SeeSocket, Prepared
<1>13. CASE Looks(p)
  <2>1. CASE proc[p].at = "key" /\ Goto(p, "keyless")
    <3> DEFINE r == [proc[p] EXCEPT !.at = "keyless"]
    <3>1. /\ r \in Proc /\ r.at = "keyless" /\ r.key = proc[p].key
          /\ r.sure = proc[p].sure /\ r.job = proc[p].job
      BY <1>0 DEF StartTypeOK, Proc
    <3>2. Set(p, r) /\ proc'[p] = r
      BY <1>0, <2>1, <3>1, SetType DEF Goto
    <3>3. ProcOK(p)'
      BY <1>0, <1>13, <2>1, <3>1, <3>2 DEF Looks, ProcOK, Prepared
    <3> QED
      BY <1>0, <1>13, <3>1, <3>2, <3>3, ProcStep DEF Looks, StartTypeOK
  <2>2. CASE proc[p].at = "socket" /\ Goto(p, "sockless")
    BY <1>13, <2>2, GotoStep DEF Looks, Prepared
  <2> QED
    BY <1>13, <2>1, <2>2 DEF Looks
<1>4. CASE Timeout(p)
  BY <1>0, <1>4, EndStep DEF Timeout
<1>5. CASE LoadSecret(p)
  <2>1. CASE secret = "none"
    BY <1>5, <2>1, GotoStep DEF LoadSecret, Prepared
  <2>2. CASE secret = "empty"
    BY <1>0, <1>5, <2>2, EndStep DEF LoadSecret
  <2>3. CASE secret \notin {"none", "empty"}
    <3> DEFINE r == [proc[p] EXCEPT !.at = "schema", !.secret = secret]
    <3>1. secret \in Procs
      BY <1>0, <2>3 DEF StartTypeOK
    <3>2. /\ r \in Proc /\ r.at = "schema" /\ r.secret = secret /\ r.key = proc[p].key
          /\ r.sure = proc[p].sure /\ r.job = proc[p].job /\ r.key # None
      BY <1>0, <1>5, <3>1 DEF LoadSecret, StartTypeOK, Proc
    <3>3. Set(p, r)
      BY <1>5, <2>3 DEF LoadSecret
    <3>4. proc'[p] = r
      BY <1>0, <3>2, <3>3, SetType
    <3>5. ProcOK(p)'
      BY <1>0, <1>5, <3>1, <3>2, <3>4 DEF LoadSecret, ProcOK, Prepared
    <3> QED
      BY <1>0, <1>5, <3>2, <3>3, <3>5, ProcStep DEF LoadSecret, StartTypeOK
  <2> QED
    BY <2>1, <2>2, <2>3
<1>6. CASE CreateSecret(p)
  <2>1. CASE Goto(p, "secret") /\ UNCHANGED secret
    BY <1>6, <2>1, GotoStep DEF CreateSecret, Prepared
  <2>2. CASE Exclusive /\ secret' = "empty" /\ Goto(p, "writing")
    <3> DEFINE r == [proc[p] EXCEPT !.at = "writing"]
    <3>1. /\ r \in Proc /\ r.at = "writing" /\ r.key = proc[p].key /\ r.key # None
          /\ r.sure = proc[p].sure /\ r.job = proc[p].job
      BY <1>0, <1>6, GotoType DEF CreateSecret
    <3>2. Set(p, r) /\ proc'[p] = r
      BY <1>0, <2>2, <3>1, SetType DEF Goto
    <3>3. ProcOK(p)'
      BY <1>0, <1>6, <2>2, <3>1, <3>2 DEF CreateSecret, ProcOK, Prepared
    <3>4. \A q \in Procs : proc[q].at \notin Prepared \cup {"writing"}
      BY <2>2, StartupAssumption DEF Exclusive, StartInv, ProcOK
    <3> QED
      BY <1>0, <1>6, <2>2, <3>1, <3>2, <3>3, <3>4, ProcStep DEF CreateSecret, StartTypeOK
  <2> QED
    BY <1>6, <2>1, <2>2 DEF CreateSecret
<1>7. CASE WriteSecret(p)
  <2> DEFINE r == [proc[p] EXCEPT !.at = "schema", !.secret = p]
  <2>1. /\ r \in Proc /\ r.at = "schema" /\ r.secret = p /\ r.key = proc[p].key
        /\ r.sure = proc[p].sure /\ r.job = proc[p].job /\ r.key # None
    BY <1>0, <1>7 DEF WriteSecret, StartTypeOK, Proc
  <2>2. Set(p, r) /\ proc'[p] = r
    BY <1>0, <1>7, <2>1, SetType DEF WriteSecret
  <2>3. ProcOK(p)'
    BY <1>0, <1>7, <2>1, <2>2 DEF WriteSecret, ProcOK, Prepared
  <2>4. \A q \in Procs \ {p} : proc[q].at \notin Prepared \cup {"writing"}
    BY <1>0, <1>7, StartupAssumption DEF WriteSecret, StartInv, ProcOK, OneWriter
  <2> QED
    BY <1>0, <1>7, <2>1, <2>2, <2>3, <2>4, ProcStep DEF WriteSecret, StartTypeOK
<1>8. CASE CreateTables(p)
  <2>1. CASE schema = "old"
    BY <1>8, <2>1, GotoStep DEF CreateTables, Prepared
  <2>2. CASE schema # "old"
    <3>1. schema' = "new" /\ Built(p)
      BY <1>0, <1>8, <2>2 DEF CreateTables, StartTypeOK
    <3> QED
      BY <1>8, <3>1, BuiltStep DEF CreateTables
  <2> QED
    BY <2>1, <2>2
<1>9. CASE AddColumns(p)
  <2>1. CASE schema = "old"
    BY <1>9, <2>1, BuiltStep DEF AddColumns
  <2>2. CASE schema # "old"
    BY <1>0, <1>9, <2>2, EndStep DEF AddColumns
  <2> QED
    BY <2>1, <2>2
<1>10. CASE ReconcileJob(p)
  <2>1. CASE Reconciles
    <3> DEFINE r == [proc[p] EXCEPT !.at = "secret", !.secret = None, !.job = FALSE]
    <3>1. /\ r \in Proc /\ r.at = "secret" /\ r.key = proc[p].key /\ r.key # None
          /\ r.sure = proc[p].sure
      BY <1>0, <1>10 DEF ReconcileJob, StartTypeOK, Proc
    <3>2. Set(p, r) /\ proc'[p] = r
      BY <1>0, <1>10, <2>1, <3>1, SetType DEF ReconcileJob, Checked
    <3>5. p = WebP /\ p \in steady => live'
      BY <1>10, <2>1 DEF ReconcileJob, Reconciles, StartInv, Ordered, Renewed
    <3>3. ProcOK(p)'
      BY <1>0, <1>10, <3>1, <3>2, <3>5 DEF ReconcileJob, ProcOK, Prepared
    <3>4. live' \in BOOLEAN /\ (live => live')
      BY <1>10 DEF ReconcileJob
    <3> QED
      BY <1>0, <1>10, <3>1, <3>2, <3>3, <3>4, ProcStep DEF ReconcileJob, StartTypeOK
  <2>2. CASE ~Reconciles
    <3>1. live' = live
      BY <1>0, <1>10, <2>2 DEF ReconcileJob, StartTypeOK
    <3> QED
      BY <1>0, <1>10, <2>2, <3>1, EndStep DEF ReconcileJob, Checked
  <2> QED
    BY <2>1, <2>2
<1>11. CASE Finish(p)
  BY <1>0, <1>11, EndStep DEF Finish
<1>12. CASE Kill(p)
  <2>1. kills' \in 0 .. MaxKills
    BY <1>0, <1>12, StartupAssumption DEF Kill
  <2> QED
    BY <1>12, <2>1, EndStep DEF Kill
<1> QED
  BY <1>1, <1>2, <1>3, <1>4, <1>5, <1>6, <1>7, <1>8, <1>9, <1>10, <1>11, <1>12,
     <1>13 DEF ProcNext

-----------------------------------------------------------------------------
(* The reconciler and the interface leave the processes alone, except that *)
(* a restart of the server makes their keys unsure.                        *)
LEMMA ReconcilerStep ==
    ASSUME StartInv, RecNext \/ RecKill \/ RecReboot
    PROVE  StartInv'
<1>1. UNCHANGED <<iface, live, proc, secret, schema, boots, runs>>
  BY DEF RecNext, RecStart, RecLooks, RecTimeout, RecReadKey, RecExport, RecUnlink, RecBind,
         RecListen, RecKill, RecReboot
<1>2. steady' \cap {WebP} = steady \cap {WebP}
  BY StartupAssumption DEF RecNext, RecStart, RecLooks, RecTimeout, RecReadKey, RecExport,
         RecUnlink, RecBind, RecListen, RecKill, RecReboot, RecEnds, Procs
<1>3. (\A p \in Procs : ProcOK(p)') /\ OneWriter'
  BY <1>1, <1>2 DEF StartInv, ProcOK, OneWriter, Prepared
<1>4. StartTypeOK' /\ RecOK' /\ Ordered'
  <2> USE DEF StartInv, StartTypeOK, RecOK, Rec, RecGoto, Ordered, Renewed
  <2>1. CASE RecLooks \/ RecUnlink \/ RecListen
    BY <2>1 DEF RecLooks, RecUnlink, RecListen, RemoveSocket
  <2>2. CASE RecStart
    BY <2>2 DEF RecStart
  <2>3. CASE RecReadKey
    BY <2>3 DEF RecReadKey, SeenIface
  <2>4. CASE RecExport
    BY <2>4 DEF RecExport, ExportKey
  <2>5. CASE RecBind
    BY <2>5 DEF RecBind
  <2>6. ASSUME RecEnds, UNCHANGED <<iface, live, keyFile, proc, secret, schema, boots, runs>>,
               kills' \in 0 .. MaxKills
        PROVE  StartTypeOK' /\ RecOK' /\ Ordered'
    BY <2>6 DEF RecEnds
  <2>7. CASE RecTimeout \/ RecReboot
    BY <2>6, <2>7 DEF RecTimeout, RecReboot
  <2>8. CASE RecKill
    <3>1. kills' \in 0 .. MaxKills
      BY <2>8, StartupAssumption DEF RecKill
    <3> QED
      BY <2>6, <2>8, <3>1 DEF RecKill
  <2> QED
    BY <2>1, <2>2, <2>3, <2>4, <2>5, <2>7, <2>8 DEF RecNext
<1> QED
  BY <1>3, <1>4 DEF StartInv

(* A restart by the operator ends the Web manager like any other end.      *)
LEMMA RebootStep ==
    ASSUME StartInv, WebReboot
    PROVE  StartInv'
BY EndStep DEF WebReboot, Procs, StartInv, StartTypeOK

LEMMA ServerStep ==
    ASSUME StartInv, ServerUp \/ ServerRestart
    PROVE  StartInv'
<1>1. CASE ServerUp
  <2>1. StartTypeOK'
    BY <1>1 DEF ServerUp, StartInv, StartTypeOK
  <2>2. \A p \in Procs : ProcOK(p)'
    BY <1>1 DEF ServerUp, StartInv, ProcOK, Prepared
  <2>3. OneWriter' /\ RecOK' /\ Ordered'
    BY <1>1 DEF ServerUp, StartInv, OneWriter, RecOK, Ordered, Renewed
  <2> QED
    BY <2>1, <2>2, <2>3 DEF StartInv
<1>2. CASE ServerRestart
  <2>1. ASSUME NEW p \in Procs
        PROVE  /\ proc'[p] \in Proc /\ proc'[p].at = proc[p].at
               /\ proc'[p].key = proc[p].key /\ proc'[p].secret = proc[p].secret
               /\ proc'[p].job = proc[p].job /\ ~proc'[p].sure
    <3>1. proc'[p] = [proc[p] EXCEPT !.sure = FALSE]
      BY <1>2 DEF ServerRestart
    <3>2. proc[p] \in Proc
      BY DEF StartInv, StartTypeOK
    <3> QED
      BY <3>1, <3>2 DEF Proc
  <2>2. proc' \in [Procs -> Proc]
    BY <1>2, <2>1 DEF ServerRestart
  <2>3. boots' \in 0 .. MaxBoots
    BY <1>2, StartupAssumption DEF ServerRestart, StartInv, StartTypeOK
  <2>8. orphan' \in Keys \cup {None}
    BY <1>2 DEF ServerRestart, StartInv, StartTypeOK
  <2>4. StartTypeOK'
    BY <1>2, <2>1, <2>2, <2>3, <2>8 DEF ServerRestart, StartInv, StartTypeOK
  <2>5. \A p \in Procs : ProcOK(p)'
    BY <1>2, <2>1 DEF ServerRestart, StartInv, ProcOK, Prepared
  <2>6. OneWriter'
    BY <2>1 DEF StartInv, OneWriter
  <2>7. RecOK' /\ Ordered'
    BY <1>2 DEF ServerRestart, RecOK, Ordered
  <2> QED
    BY <2>4, <2>5, <2>6, <2>7 DEF StartInv
<1> QED
  BY <1>1, <1>2

-----------------------------------------------------------------------------
LEMMA StartInvInit == StartInit => StartInv
<1> SUFFICES ASSUME StartInit PROVE StartInv
  OBVIOUS
<1>1. \A p \in Procs : proc[p] = Down
  BY DEF StartInit
<1>2. StartTypeOK
  <2>1. proc \in [Procs -> Proc]
    BY DownType DEF StartInit
  <2>2. \A p \in Procs : proc[p].at = "down"
    BY <1>1, DownType
  <2>3. /\ secret \in Procs \cup {"none", "empty"} /\ keyFile \in Keys \cup {None}
        /\ sock \in {"none", "stale", "open"} /\ schema \in {"none", "old", "new"}
    BY DEF StartInit, Procs
  <2>4. rec \in Rec /\ live \in BOOLEAN
    BY DEF StartInit, Rec
  <2>5. kills \in 0 .. MaxKills /\ boots \in 0 .. MaxBoots
    BY StartupAssumption DEF StartInit
  <2> QED
    BY <2>1, <2>2, <2>3, <2>4, <2>5 DEF StartInit, StartTypeOK
<1>3. \A p \in Procs : ProcOK(p)
  BY <1>1, DownType DEF ProcOK, Prepared
<1>4. OneWriter /\ RecOK /\ Ordered
  BY <1>1, DownType DEF StartInit, OneWriter, RecOK, Ordered
<1> QED
  BY <1>2, <1>3, <1>4 DEF StartInv

LEMMA StartInvStep == StartInv /\ [StartNext]_stvars => StartInv'
<1> SUFFICES ASSUME StartInv, [StartNext]_stvars PROVE StartInv'
  OBVIOUS
<1>1. CASE StartNext
  BY <1>1, ProcessStep, ReconcilerStep, RebootStep, ServerStep DEF StartNext
<1>2. CASE UNCHANGED stvars
  <2>1. StartTypeOK'
    BY <1>2 DEF stvars, StartInv, StartTypeOK
  <2>2. (\A p \in Procs : ProcOK(p)') /\ OneWriter' /\ RecOK' /\ Ordered'
    BY <1>2 DEF stvars, StartInv, ProcOK, Prepared, OneWriter, RecOK, Ordered, Renewed
  <2> QED
    BY <2>1, <2>2 DEF StartInv
<1> QED
  BY <1>1, <1>2

LEMMA StartInvariance == StartSpec => []StartInv
BY StartInvInit, StartInvStep, PTL DEF StartSpec

(* The files and processes keep their types, and no process goes on        *)
(* without the key.                                                        *)
THEOREM StartTyped == StartSpec => []StartTypeOK
<1>1. StartInv => StartTypeOK
  BY DEF StartInv
<1> QED
  BY <1>1, StartInvariance, PTL

(* However many processes start for the first time at once, those that     *)
(* have built the application share the secret and see every column.       *)
THEOREM AllPreparedAlike == StartSpec => []PreparedAlike
<1>1. StartInv => PreparedAlike
  BY DEF StartInv, ProcOK, Prepared, PreparedAlike
<1> QED
  BY <1>1, StartInvariance, PTL

(* A key read while a steady reconciler serves is the interface's.         *)
THEOREM KeyStaysCurrent == StartSpec => []KeyIsCurrent
<1>1. StartInv => KeyIsCurrent
  BY DEF StartInv, ProcOK, KeyIsCurrent
<1> QED
  BY <1>1, StartInvariance, PTL

(* The Web manager does not serve before the committed peers are live.     *)
THEOREM ServingStaysLive == StartSpec => []ServingIsLive
<1>1. StartInv => ServingIsLive
  BY DEF StartInv, ProcOK, ServingIsLive, Procs
<1> QED
  BY <1>1, StartInvariance, PTL

=============================================================================
