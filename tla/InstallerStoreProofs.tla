------------------------ MODULE InstallerStoreProofs ------------------------
(***************************************************************************)
(* What holds of the installer store for any number of packages, uploads   *)
(* and downloads, whatever fails: listed installers have their files, what *)
(* is sent was verified, and no file is left that nobody knows of.         *)
(***************************************************************************)
EXTENDS InstallerStore, TLAPS

(* An upload that is under way, a download that is.                        *)
Job == [at : {"opened", "receiving", "received", "placed", "stored",
              "removing_temp", "removing_final"},
        id : Ids, content : Packages \cup Refused]

Fetch == [at : {"verifying", "sending"}, id : Ids, digest : Packages, late : BOOLEAN]

(* No two uploads share an id.                                             *)
OwnIds == \A u, v \in Uploads :
              up[u] # Idle /\ up[v] # Idle /\ up[u].id = up[v].id => u = v

(* What a job has done for its id so far.                                  *)
Progress(j) ==
    /\ j.at \in {"opened", "receiving"} => row[j.id] = None
    /\ j.at = "received" => row[j.id] = None /\ temp[j.id] = j.content /\ j.content # "huge"
    /\ j.at = "placed" => /\ row[j.id] = None /\ temp[j.id] = None
                          /\ file[j.id] = j.content /\ j.content \in Packages
    /\ j.at = "stored" => /\ row[j.id] = j.content /\ temp[j.id] = None
                          /\ j.content \in Packages
    /\ j.at = "removing_final" => temp[j.id] = None

Stages == \A u \in Uploads : up[u] # Idle => Progress(up[u])

(* The digest a download compares is the one recorded.                     *)
Digests == \A d \in Downloads : down[d] # Idle => row[down[d].id] = down[d].digest

StoreInv ==
    /\ InstallerTypeOK
    /\ OwnIds
    /\ Stages
    /\ Digests
    /\ RowsHaveFiles
    /\ ServedIsVerified
    /\ NoStrays

-----------------------------------------------------------------------------
LEMMA Jobs ==
    ASSUME InstallerTypeOK
    PROVE  /\ \A u \in Uploads : up[u] # Idle => up[u] \in Job
           /\ \A d \in Downloads : down[d] # Idle => down[d] \in Fetch
           /\ \A u \in Uploads : up[u].at # "idle" => up[u] # Idle
BY DEF InstallerTypeOK, Upload, Download, Job, Fetch, Idle

LEMMA BusyIsNotIdle ==
    /\ \A j \in Job : j # Idle
    /\ \A f \in Fetch : f # Idle
BY DEF Job, Fetch, Idle

LEMMA PackagesAreContent ==
    /\ Packages \subseteq Content /\ None \notin Packages
    /\ \A c \in Packages \cup Refused : c # "huge" => c \in Content
    /\ \A c \in Packages \cup Refused : c # "huge" /\ c # "empty" => c \in Packages
BY StoreAssumption DEF Content, Refused

(* An upload moves on to another stage.                                    *)
LEMMA GotoJob ==
    ASSUME InstallerTypeOK, NEW u \in Uploads, up[u] # Idle,
           NEW stage \in {"receiving", "received", "placed", "stored",
                          "removing_temp", "removing_final"},
           Goto(u, stage)
    PROVE  /\ up' \in [Uploads -> Upload] /\ up'[u] \in Job
           /\ up'[u].at = stage /\ up'[u].id = up[u].id /\ up'[u].content = up[u].content
           /\ \A v \in Uploads \ {u} : up'[v] = up[v]
<1>1. up[u] \in Job
  BY Jobs
<1>2. [up[u] EXCEPT !.at = stage] \in Job
  BY <1>1 DEF Job
<1>3. up' = [up EXCEPT ![u] = [up[u] EXCEPT !.at = stage]]
  BY <1>1 DEF Goto, InstallerTypeOK, Job
<1>4. Job \subseteq Upload
  BY DEF Job, Upload
<1> QED
  BY <1>1, <1>2, <1>3, <1>4 DEF InstallerTypeOK, Job

-----------------------------------------------------------------------------
(* The steps of an upload and of the host, as far as types go.             *)
LEMMA StoreTypeStep ==
    ASSUME InstallerTypeOK, Stages, StoreNext
    PROVE  InstallerTypeOK'
<1> USE Jobs, PackagesAreContent
<1>1. ASSUME NEW u \in Uploads, NEW i \in Ids, NEW c \in Packages \cup Refused,
             UploadBegin(u, i, c)
      PROVE  InstallerTypeOK'
  BY <1>1 DEF UploadBegin, InstallerTypeOK, Upload, Content
<1>2. ASSUME NEW u \in Uploads, UploadReceive(u)
      PROVE  InstallerTypeOK'
  <2>1. up[u] # Idle /\ up[u] \in Job
    BY <1>2 DEF UploadReceive, At
  <2>2. up[u].content \in Content /\ up' \in [Uploads -> Upload]
    BY <1>2, <2>1, GotoJob DEF UploadReceive, Job
  <2> QED
    BY <1>2, <2>2 DEF UploadReceive, InstallerTypeOK
<1>3. ASSUME NEW u \in Uploads, UploadPlace(u)
      PROVE  InstallerTypeOK'
  <2>1. up[u] # Idle /\ up[u] \in Job
    BY <1>3 DEF UploadPlace, At
  <2>2. up[u].id \in Ids /\ up' \in [Uploads -> Upload]
    BY <1>3, <2>1, GotoJob DEF UploadPlace, Job
  <2> QED
    BY <1>3, <2>2 DEF UploadPlace, InstallerTypeOK
<1>4. ASSUME NEW u \in Uploads, UploadRecord(u)
      PROVE  InstallerTypeOK'
  <2>1. up[u] # Idle /\ up[u] \in Job
    BY <1>4 DEF UploadRecord, At
  <2>2. up[u].content \in Packages /\ up' \in [Uploads -> Upload]
    BY <1>4, <2>1, GotoJob DEF UploadRecord, Stages, Progress, At
  <2> QED
    BY <1>4, <2>2 DEF UploadRecord, InstallerTypeOK
<1>5. ASSUME NEW u \in Uploads, UploadFail(u) \/ UploadInterrupt(u)
      PROVE  InstallerTypeOK'
  <2>1. up[u] # Idle
    BY <1>5 DEF UploadFail, Raises, UploadInterrupt, At
  <2>2. up' \in [Uploads -> Upload]
    BY <1>5, <2>1, GotoJob DEF UploadFail, UploadInterrupt, Handle
  <2> QED
    BY <1>5, <2>2 DEF UploadFail, UploadInterrupt, InstallerTypeOK
<1>6. ASSUME NEW u \in Uploads, RemoveTemp(u)
      PROVE  InstallerTypeOK'
  <2>1. up[u] # Idle
    BY <1>6 DEF RemoveTemp, At
  <2>2. up' \in [Uploads -> Upload]
    BY <1>6, <2>1, GotoJob DEF RemoveTemp
  <2> QED
    BY <1>6, <2>2 DEF RemoveTemp, InstallerTypeOK
<1>7. ASSUME NEW u \in Uploads, RemoveFinal(u)
      PROVE  InstallerTypeOK'
  BY <1>7 DEF RemoveFinal, InstallerTypeOK, Upload
<1>8. ASSUME NEW u \in Uploads, UploadEnd(u) \/ Abandon(u)
      PROVE  InstallerTypeOK'
  <2>1. up[u] \in Job
    BY <1>8 DEF UploadEnd, Abandon, At
  <2>2. up[u].id \in Ids
    BY <2>1 DEF Job
  <2>3. up' \in [Uploads -> Upload]
    BY <1>8 DEF UploadEnd, Abandon, InstallerTypeOK, Upload
  <2> QED
    BY <1>8, <2>2, <2>3 DEF UploadEnd, Abandon, InstallerTypeOK
<1>9. ASSUME NEW d \in Downloads, NEW i \in Ids, DownloadBegin(d, i)
      PROVE  InstallerTypeOK'
  BY <1>9 DEF DownloadBegin, InstallerTypeOK, Download
<1>10. ASSUME NEW d \in Downloads, DownloadVerify(d) \/ DownloadSend(d)
       PROVE  InstallerTypeOK'
  <2>1. down[d] \in Fetch
    BY <1>10 DEF DownloadVerify, DownloadSend
  <2>2. [down[d] EXCEPT !.at = "sending"] \in Fetch
    BY <2>1 DEF Fetch
  <2>3. down' \in [Downloads -> Download]
    BY <1>10, <2>2 DEF DownloadVerify, DownloadSend, InstallerTypeOK, Download, Fetch
  <2> QED
    BY <1>10, <2>3 DEF DownloadVerify, DownloadSend, InstallerTypeOK
<1>11. ASSUME NEW i \in Ids, Writeback(i)
       PROVE  InstallerTypeOK'
  BY <1>11 DEF Writeback, InstallerTypeOK
<1>12. ASSUME NEW i \in Ids, Damage(i)
       PROVE  InstallerTypeOK'
  <2>1. \A d \in Downloads : down'[d] \in Download
    <3> SUFFICES ASSUME NEW d \in Downloads, down[d] # Idle
                 PROVE  [down[d] EXCEPT !.late = TRUE] \in Download
      BY <1>12 DEF Damage, InstallerTypeOK
    <3>1. down[d] \in Fetch
      OBVIOUS
    <3> QED
      BY <3>1 DEF Fetch, Download
  <2>2. down' \in [Downloads -> Download]
    BY <1>12, <2>1 DEF Damage
  <2> QED
    BY <1>12, <2>2 DEF Damage, InstallerTypeOK, Content
<1>13. ASSUME PowerLoss
       PROVE  InstallerTypeOK'
  BY <1>13 DEF PowerLoss, InstallerTypeOK, Upload, Download
<1>14. ASSUME NEW u \in Uploads, UploadTry(u)
       PROVE  InstallerTypeOK'
  <2>1. up[u] # Idle
    BY <1>14 DEF UploadTry, At
  <2>2. up' \in [Uploads -> Upload]
    BY <1>14, <2>1, GotoJob DEF UploadTry
  <2> QED
    BY <1>14, <2>2 DEF UploadTry, InstallerTypeOK
<1> QED
  BY <1>1, <1>2, <1>3, <1>4, <1>5, <1>6, <1>7, <1>8, <1>9, <1>10, <1>11,
     <1>12, <1>13, <1>14 DEF StoreNext

-----------------------------------------------------------------------------
(* A step that leaves recorded packages alone, and records only what is    *)
(* in place, does no harm to rows and downloads.                           *)
LEMMA RecordedKeep ==
    ASSUME InstallerTypeOK, Digests, RowsHaveFiles, ServedIsVerified,
           down' = down, harmed' = harmed,
           \A j \in Ids : row[j] # None => row'[j] = row[j] /\ file'[j] = file[j],
           \A j \in Ids : row[j] = None /\ row'[j] # None => file'[j] = row'[j]
    PROVE  Digests' /\ RowsHaveFiles' /\ ServedIsVerified'
<1>1. \A d \in Downloads : down[d] # Idle =>
          down[d].id \in Ids /\ row[down[d].id] = down[d].digest /\ row[down[d].id] # None
  BY Jobs, PackagesAreContent DEF Fetch, Digests
<1>2. Digests'
  BY <1>1 DEF Digests
<1>3. RowsHaveFiles'
  BY DEF RowsHaveFiles
<1>4. ServedIsVerified'
  BY <1>1 DEF ServedIsVerified
<1> QED
  BY <1>2, <1>3, <1>4

(* The other uploads do not notice a step of upload u on its id.           *)
LEMMA OthersKeep ==
    ASSUME InstallerTypeOK, OwnIds, Stages, NEW u \in Uploads, up[u] # Idle,
           \A j \in Ids \ {up[u].id} :
               temp'[j] = temp[j] /\ file'[j] = file[j] /\ row'[j] = row[j],
           \A v \in Uploads \ {u} : up'[v] = up[v],
           up'[u] # Idle => up'[u].id = up[u].id /\ Progress(up[u])'
    PROVE  OwnIds' /\ Stages'
<1>1. \A v \in Uploads : up[v] # Idle => up[v].id \in Ids
  BY Jobs DEF Job
<1>2. OwnIds'
  BY DEF OwnIds
<1>3. Stages'
  <2> SUFFICES ASSUME NEW v \in Uploads \ {u}, up[v] # Idle
               PROVE  Progress(up[v])'
    BY DEF Stages
  <2>1. up[v].id \in Ids \ {up[u].id} /\ Progress(up[v]) /\ up'[v] = up[v]
    BY <1>1 DEF OwnIds, Stages
  <2> QED
    BY <2>1 DEF Progress
<1> QED
  BY <1>2, <1>3

(* The ids that are worked on stay so while an upload goes on, and lose    *)
(* one when it ends.                                                       *)
LEMMA StillWorking ==
    ASSUME NEW u \in Uploads, up[u] # Idle,
           \A v \in Uploads \ {u} : up'[v] = up[v],
           up'[u] # Idle /\ up'[u].id = up[u].id
    PROVE  \A i \in Ids : i = up[u].id \/ Working(i) => Working(i)'
BY DEF Working

LEMMA OthersWorking ==
    ASSUME NEW u \in Uploads, up[u] # Idle,
           \A v \in Uploads \ {u} : up'[v] = up[v]
    PROVE  \A i \in Ids \ {up[u].id} : Working(i) => Working(i)'
BY DEF Working

-----------------------------------------------------------------------------
(* The invariant without the types.                                        *)
StoreRest == OwnIds /\ Stages /\ Digests /\ RowsHaveFiles /\ ServedIsVerified /\ NoStrays

LEMMA BeginStep ==
    ASSUME InstallerTypeOK, StoreRest, NEW u \in Uploads, NEW i \in Ids,
           NEW c \in Packages \cup Refused, UploadBegin(u, i, c)
    PROVE  StoreRest'
<1> DEFINE j == [at |-> "opened", id |-> i, content |-> c]
<1>1. /\ up'[u] = j /\ \A v \in Uploads \ {u} : up'[v] = up[v]
      /\ \A v \in Uploads : up[v] # Idle => up[v].id # i
      /\ temp'[i] = "partial" /\ \A k \in Ids \ {i} : temp'[k] = temp[k]
      /\ row[i] = None /\ UNCHANGED <<file, row, down, harmed, abandoned>>
  BY DEF UploadBegin, Fresh, Working, InstallerTypeOK
<1>2. j # Idle /\ up[u] = Idle
  <2>1. j \in Job
    BY DEF Job
  <2> QED
    BY <2>1, BusyIsNotIdle, Jobs DEF UploadBegin, At, Job
<1>3. OwnIds'
  BY <1>1 DEF OwnIds, StoreRest
<1>4. Stages'
  <2>1. Progress(up[u])'
    BY <1>1 DEF Progress
  <2>2. ASSUME NEW v \in Uploads \ {u}, up[v] # Idle
        PROVE  Progress(up[v])'
    <3>1. Progress(up[v]) /\ up[v].id \in Ids \ {i} /\ up'[v] = up[v]
      BY <1>1, <2>2, Jobs DEF StoreRest, Stages, Job
    <3> QED
      BY <1>1, <3>1 DEF Progress
  <2> QED
    BY <1>1, <2>1, <2>2 DEF Stages
<1>5. Digests' /\ RowsHaveFiles' /\ ServedIsVerified'
  BY <1>1, RecordedKeep DEF StoreRest
<1>6. NoStrays'
  <2>1. Working(i)'
    BY <1>1, <1>2 DEF Working
  <2>2. \A k \in Ids : Working(k) => Working(k)'
    BY <1>1, <1>2 DEF Working
  <2> QED
    BY <1>1, <2>1, <2>2 DEF StoreRest, NoStrays
<1> QED
  BY <1>3, <1>4, <1>5, <1>6 DEF StoreRest

(* An upload that goes on: six kinds of step.                              *)
LEMMA GoesOnStep ==
    ASSUME InstallerTypeOK, StoreRest, NEW u \in Uploads,
           \/ UploadTry(u) \/ UploadReceive(u) \/ UploadPlace(u) \/ UploadRecord(u)
           \/ UploadFail(u) \/ UploadInterrupt(u) \/ RemoveTemp(u)
    PROVE  StoreRest'
<1> DEFINE i == up[u].id
<1> USE DEF At
<1>1. up[u] # Idle /\ up[u] \in Job /\ i \in Ids /\ Progress(up[u])
  <2>1. up[u].at # "idle"
    BY DEF UploadTry, UploadReceive, UploadPlace, UploadRecord, UploadFail, Raises,
           UploadInterrupt, RemoveTemp
  <2> QED
    BY <2>1, Jobs DEF Job, StoreRest, Stages
<1>2. PICK stage \in {"receiving", "received", "placed", "stored",
                      "removing_temp", "removing_final"} :
          Goto(u, stage)
  <2>1. CASE UploadTry(u) \/ UploadReceive(u) \/ UploadPlace(u) \/ UploadRecord(u)
    BY <2>1 DEF UploadTry, UploadReceive, UploadPlace, UploadRecord
  <2>2. CASE UploadFail(u) \/ UploadInterrupt(u) \/ RemoveTemp(u)
    BY <2>2 DEF UploadFail, UploadInterrupt, Handle, RemoveTemp
  <2> QED
    BY <2>1, <2>2
<1>3. /\ up'[u] \in Job /\ up'[u].at = stage /\ up'[u].id = i
      /\ up'[u].content = up[u].content
      /\ \A v \in Uploads \ {u} : up'[v] = up[v]
  BY <1>1, <1>2, GotoJob
<1>4. up'[u] # Idle
  BY <1>3, BusyIsNotIdle
<1>5. \A k \in Ids : k = i \/ Working(k) => Working(k)'
  BY <1>1, <1>3, <1>4, StillWorking
<1>6. /\ down' = down /\ harmed' = harmed /\ abandoned' = abandoned
      /\ \A k \in Ids \ {i} : temp'[k] = temp[k] /\ file'[k] = file[k] /\ row'[k] = row[k]
  <2>1. CASE UploadReceive(u) \/ RemoveTemp(u)
    BY <2>1 DEF UploadReceive, RemoveTemp, InstallerTypeOK
  <2>2. CASE UploadPlace(u)
    BY <2>2 DEF UploadPlace, InstallerTypeOK
  <2>3. CASE UploadRecord(u)
    BY <2>3 DEF UploadRecord, InstallerTypeOK
  <2>4. CASE UploadTry(u) \/ UploadFail(u) \/ UploadInterrupt(u)
    BY <2>4 DEF UploadTry, UploadFail, UploadInterrupt
  <2> QED
    BY <2>1, <2>2, <2>3, <2>4
<1>7. NoStrays'
  <2> SUFFICES ASSUME NEW k \in Ids \ {i},
                      temp'[k] # None \/ (file'[k] # None /\ row'[k] = None)
               PROVE  Working(k)' \/ k \in abandoned'
    BY <1>5 DEF NoStrays
  <2>1. Working(k) \/ k \in abandoned
    BY <1>6 DEF StoreRest, NoStrays
  <2> QED
    BY <1>5, <1>6, <2>1
<1>8. /\ Progress(up[u])'
      /\ row[i] # None => row'[i] = row[i] /\ file'[i] = file[i]
      /\ row[i] = None /\ row'[i] # None => file'[i] = row'[i]
  <2>1. CASE UploadReceive(u)
    <3>1. /\ temp'[i] = up[u].content /\ row' = row /\ file' = file
          /\ up'[u].at = "received" /\ up[u].at = "receiving" /\ up[u].content # "huge"
      BY <1>1, <1>3, <2>1, GotoJob DEF UploadReceive, InstallerTypeOK
    <3> QED
      BY <1>1, <1>3, <3>1 DEF Progress
  <2>2. CASE UploadPlace(u)
    <3>1. /\ file'[i] = temp[i] /\ temp'[i] = None /\ row' = row
          /\ up'[u].at = "placed" /\ up[u].at = "received" /\ up[u].content # "empty"
      BY <1>1, <1>3, <2>2, GotoJob DEF UploadPlace, NotEmpty, InstallerTypeOK
    <3>2. up[u].content \in Packages
      BY <1>1, <3>1, PackagesAreContent DEF Progress, Job
    <3> QED
      BY <1>1, <1>3, <3>1, <3>2 DEF Progress
  <2>3. CASE UploadRecord(u)
    <3>1. /\ row'[i] = up[u].content /\ temp' = temp /\ file' = file
          /\ up'[u].at = "stored" /\ up[u].at = "placed"
      BY <1>1, <1>3, <2>3, GotoJob DEF UploadRecord, InstallerTypeOK
    <3> QED
      BY <1>1, <1>3, <3>1 DEF Progress
  <2>4. CASE UploadFail(u) \/ UploadInterrupt(u)
    <3>1. temp' = temp /\ file' = file /\ row' = row /\ up'[u].at = "removing_temp"
      BY <1>1, <1>3, <2>4, GotoJob DEF UploadFail, UploadInterrupt, Handle
    <3> QED
      BY <1>1, <1>3, <3>1 DEF Progress
  <2>5. CASE RemoveTemp(u)
    <3>1. temp'[i] = None /\ file' = file /\ row' = row /\ up'[u].at = "removing_final"
      BY <1>1, <1>3, <2>5, GotoJob DEF RemoveTemp, InstallerTypeOK
    <3> QED
      BY <1>1, <1>3, <3>1 DEF Progress
  <2>6. CASE UploadTry(u)
    <3>1. /\ temp' = temp /\ file' = file /\ row' = row
          /\ up[u].at = "opened" /\ up'[u].at = "receiving"
      BY <1>1, <1>3, <2>6, GotoJob DEF UploadTry
    <3> QED
      BY <1>1, <1>3, <3>1 DEF Progress
  <2> QED
    BY <2>1, <2>2, <2>3, <2>4, <2>5, <2>6
<1>9. OwnIds' /\ Stages'
  BY <1>1, <1>3, <1>6, <1>8, OthersKeep DEF StoreRest
<1>10. Digests' /\ RowsHaveFiles' /\ ServedIsVerified'
  BY <1>6, <1>8, RecordedKeep DEF StoreRest
<1> QED
  BY <1>7, <1>9, <1>10 DEF StoreRest

(* An upload that ends has left nothing, or what its row lists, or is cut  *)
(* off in the middle.                                                      *)
LEMMA EndsStep ==
    ASSUME InstallerTypeOK, StoreRest, NEW u \in Uploads,
           UploadEnd(u) \/ RemoveFinal(u) \/ Abandon(u)
    PROVE  StoreRest'
<1> DEFINE i == up[u].id
<1> USE DEF At
<1>1. up[u] # Idle /\ up[u] \in Job /\ i \in Ids /\ Progress(up[u])
  BY Jobs DEF Job, StoreRest, Stages, UploadEnd, RemoveFinal, Abandon
<1>2. /\ up'[u] = Idle /\ \A v \in Uploads \ {u} : up'[v] = up[v]
      /\ down' = down /\ harmed' = harmed /\ row' = row /\ temp' = temp
      /\ \A k \in Ids \ {i} : file'[k] = file[k]
      /\ row[i] # None => file'[i] = file[i]
  BY DEF UploadEnd, RemoveFinal, Abandon, Unrecorded, InstallerTypeOK
<1>3. OwnIds' /\ Stages'
  BY <1>1, <1>2, OthersKeep DEF StoreRest
<1>4. Digests' /\ RowsHaveFiles' /\ ServedIsVerified'
  BY <1>1, <1>2, RecordedKeep DEF StoreRest
<1>5. \A k \in Ids \ {i} : Working(k) => Working(k)'
  BY <1>1, <1>2, OthersWorking
<1>6. abandoned \subseteq abandoned'
  BY DEF UploadEnd, RemoveFinal, Abandon
<1>7. \/ i \in abandoned'
      \/ temp'[i] = None /\ (row'[i] # None \/ file'[i] = None)
  <2>1. CASE UploadEnd(u)
    BY <1>1, <1>2, <2>1, PackagesAreContent, Jobs DEF UploadEnd, Progress
  <2>2. CASE RemoveFinal(u)
    BY <1>1, <1>2, <2>2 DEF RemoveFinal, Unrecorded, Progress, InstallerTypeOK
  <2>3. CASE Abandon(u)
    BY <2>3 DEF Abandon
  <2> QED
    BY <2>1, <2>2, <2>3
<1>8. NoStrays'
  BY <1>1, <1>2, <1>5, <1>6, <1>7 DEF StoreRest, NoStrays
<1> QED
  BY <1>3, <1>4, <1>8 DEF StoreRest

-----------------------------------------------------------------------------
(* Downloads and the disk touch no file, temporary or final.               *)
LEMMA FetchStep ==
    ASSUME InstallerTypeOK, StoreRest,
           \/ \E d \in Downloads : \/ \E i \in Ids : DownloadBegin(d, i)
                                   \/ DownloadVerify(d) \/ DownloadSend(d)
           \/ \E i \in Ids : Writeback(i)
    PROVE  StoreRest'
<1>1. UNCHANGED <<temp, file, row, up, harmed, abandoned>>
  BY DEF DownloadBegin, DownloadVerify, DownloadSend, Writeback
<1>2. OwnIds' /\ Stages' /\ RowsHaveFiles' /\ NoStrays'
  BY <1>1 DEF StoreRest, OwnIds, Stages, Progress, RowsHaveFiles, NoStrays, Working
<1>3. Digests' /\ ServedIsVerified'
  <2>1. ASSUME NEW d \in Downloads, NEW i \in Ids, DownloadBegin(d, i)
        PROVE  Digests' /\ ServedIsVerified'
    BY <1>1, <2>1 DEF DownloadBegin, StoreRest, Digests, ServedIsVerified, InstallerTypeOK
  <2>2. ASSUME NEW d \in Downloads, DownloadVerify(d)
        PROVE  Digests' /\ ServedIsVerified'
    <3>1. down[d] \in Fetch /\ row[down[d].id] = down[d].digest
      BY <2>2, Jobs DEF DownloadVerify, StoreRest, Digests
    <3>2. \A e \in Downloads \ {d} : down'[e] = down[e]
      BY <2>2 DEF DownloadVerify, InstallerTypeOK
    <3>3. CASE Verified(down[d])
      <4>1. down'[d] = [down[d] EXCEPT !.at = "sending"]
        BY <2>2, <3>3 DEF DownloadVerify, InstallerTypeOK
      <4>2. down'[d].id = down[d].id /\ down'[d].digest = down[d].digest
        BY <3>1, <4>1 DEF Fetch
      <4> QED
        BY <1>1, <3>1, <3>2, <3>3, <4>2
           DEF StoreRest, Digests, ServedIsVerified, Verified
    <3>4. CASE ~Verified(down[d])
      <4>1. down'[d] = Idle
        BY <2>2, <3>4 DEF DownloadVerify, InstallerTypeOK
      <4> QED
        BY <1>1, <3>2, <4>1 DEF StoreRest, Digests, ServedIsVerified
    <3> QED
      BY <3>3, <3>4
  <2>3. ASSUME NEW d \in Downloads, DownloadSend(d)
        PROVE  Digests' /\ ServedIsVerified'
    BY <1>1, <2>3 DEF DownloadSend, StoreRest, Digests, ServedIsVerified, InstallerTypeOK
  <2>4. ASSUME NEW i \in Ids, Writeback(i)
        PROVE  Digests' /\ ServedIsVerified'
    BY <1>1, <2>4 DEF Writeback, StoreRest, Digests, ServedIsVerified
  <2> QED
    BY <2>1, <2>2, <2>3, <2>4
<1> QED
  BY <1>2, <1>3 DEF StoreRest

(* A harmed file is of a recorded package, and downloads of it are late.   *)
LEMMA DamageStep ==
    ASSUME InstallerTypeOK, StoreRest, NEW i \in Ids, Damage(i)
    PROVE  StoreRest'
<1>1. /\ row[i] # None /\ harmed' = harmed \cup {i}
      /\ \A k \in Ids \ {i} : file'[k] = file[k]
      /\ UNCHANGED <<temp, row, up, abandoned>>
  BY DEF Damage, InstallerTypeOK
<1>2. \A u \in Uploads : up[u] # Idle => up[u].id \in Ids
  BY Jobs DEF Job
<1>3. OwnIds' /\ Stages'
  BY <1>1, <1>2 DEF StoreRest, OwnIds, Stages, Progress
<1>4. RowsHaveFiles' /\ NoStrays'
  BY <1>1 DEF StoreRest, RowsHaveFiles, NoStrays, Working
<1>5. \A d \in Downloads :
          /\ down'[d] = down[d] \/ (down[d] # Idle /\ down'[d] = [down[d] EXCEPT !.late = TRUE])
          /\ down[d] # Idle /\ down[d].at = "sending" /\ down[d].id = i =>
                 down'[d] = [down[d] EXCEPT !.late = TRUE]
  BY DEF Damage
<1>6. \A d \in Downloads : down[d] # Idle =>
          LET new == [down[d] EXCEPT !.late = TRUE] IN
          new.at = down[d].at /\ new.id = down[d].id /\ new.digest = down[d].digest /\ new.late
  BY Jobs DEF Fetch
<1>7. Digests'
  <2> SUFFICES ASSUME NEW d \in Downloads, down'[d] # Idle
               PROVE  row[down'[d].id] = down'[d].digest
    BY <1>1 DEF Digests
  <2>1. down[d] # Idle /\ down'[d].id = down[d].id /\ down'[d].digest = down[d].digest
    BY <1>5, <1>6
  <2> QED
    BY <2>1 DEF StoreRest, Digests
<1>8. ServedIsVerified'
  <2> SUFFICES ASSUME NEW d \in Downloads, down'[d] # Idle, down'[d].at = "sending",
                      ~down'[d].late
               PROVE  file'[down'[d].id] = row[down'[d].id]
    BY <1>1 DEF ServedIsVerified
  <2>1. down'[d] = down[d] /\ down[d] # Idle
    BY <1>5, <1>6
  <2>2. down[d].id # i
    BY <1>5, <1>6, <2>1
  <2>3. down[d].id \in Ids
    BY <2>1, Jobs DEF Fetch
  <2> QED
    BY <1>1, <2>1, <2>2, <2>3 DEF StoreRest, ServedIsVerified
<1> QED
  BY <1>3, <1>4, <1>7, <1>8 DEF StoreRest

LEMMA PowerLossStep ==
    ASSUME InstallerTypeOK, StoreRest, PowerLoss
    PROVE  StoreRest'
<1>1. PICK lost \in SUBSET {i \in unsynced : file[i] # None}, back \in SUBSET unsynced :
        /\ file' = [i \in Ids |-> IF i \in lost THEN None ELSE file[i]]
        /\ temp' = [i \in Ids |-> IF i \in lost \cap back THEN file[i] ELSE temp[i]]
        /\ harmed' = harmed \cup lost
        /\ abandoned' = abandoned \cup lost \cup {i \in Ids : Working(i)}
  BY DEF PowerLoss
<1>2. /\ \A u \in Uploads : up'[u] = Idle
      /\ \A d \in Downloads : down'[d] = Idle
      /\ row' = row
  BY DEF PowerLoss
<1>3. OwnIds' /\ Stages' /\ Digests' /\ ServedIsVerified'
  BY <1>2 DEF OwnIds, Stages, Digests, ServedIsVerified
<1>4. RowsHaveFiles'
  BY <1>1, <1>2 DEF StoreRest, RowsHaveFiles
<1>5. NoStrays'
  BY <1>1, <1>2 DEF StoreRest, NoStrays
<1> QED
  BY <1>3, <1>4, <1>5 DEF StoreRest

-----------------------------------------------------------------------------
LEMMA StoreInvInit == StoreInit => StoreInv
BY DEF StoreInit, StoreInv, InstallerTypeOK, Upload, Download, OwnIds, Stages,
       Digests, RowsHaveFiles, ServedIsVerified, NoStrays

LEMMA StoreInvStep == StoreInv /\ [StoreNext]_svars => StoreInv'
<1> SUFFICES ASSUME StoreInv, [StoreNext]_svars PROVE StoreInv'
  OBVIOUS
<1>1. InstallerTypeOK /\ Stages /\ StoreRest
  BY DEF StoreInv, StoreRest
<1>2. CASE StoreNext
  <2>1. InstallerTypeOK'
    BY <1>1, <1>2, StoreTypeStep
  <2>2. StoreRest'
    BY <1>1, <1>2, BeginStep, GoesOnStep, EndsStep, FetchStep, DamageStep,
       PowerLossStep DEF StoreNext
  <2> QED
    BY <2>1, <2>2 DEF StoreInv, StoreRest
<1>3. CASE UNCHANGED svars
  <2>1. InstallerTypeOK' /\ OwnIds' /\ Stages' /\ Digests'
    BY <1>1, <1>3 DEF svars, InstallerTypeOK, StoreRest, OwnIds, Stages, Progress, Digests
  <2>2. RowsHaveFiles' /\ ServedIsVerified' /\ NoStrays'
    BY <1>1, <1>3 DEF svars, StoreRest, RowsHaveFiles, ServedIsVerified, NoStrays, Working
  <2> QED
    BY <2>1, <2>2 DEF StoreInv
<1> QED
  BY <1>2, <1>3

LEMMA StoreInvariance == StoreSpec => []StoreInv
BY StoreInvInit, StoreInvStep, PTL DEF StoreSpec

(* Only packages within the limits are recorded.                           *)
THEOREM StoreTyped == StoreSpec => []InstallerTypeOK
<1>1. StoreInv => InstallerTypeOK
  BY DEF StoreInv
<1> QED
  BY <1>1, StoreInvariance, PTL

(* Every listed installer has its file, however its upload was cut short.  *)
THEOREM RowsKeepFiles == StoreSpec => []RowsHaveFiles
<1>1. StoreInv => RowsHaveFiles
  BY DEF StoreInv
<1> QED
  BY <1>1, StoreInvariance, PTL

(* What a download sends is what was recorded and has just been verified.  *)
THEOREM ServedStaysVerified == StoreSpec => []ServedIsVerified
<1>1. StoreInv => ServedIsVerified
  BY DEF StoreInv
<1> QED
  BY <1>1, StoreInvariance, PTL

(* Only a clean-up that was cut off, or an interrupt before there was one, *)
(* leaves a file without a row.                                            *)
THEOREM NoStrayFiles == StoreSpec => []NoStrays
<1>1. StoreInv => NoStrays
  BY DEF StoreInv
<1> QED
  BY <1>1, StoreInvariance, PTL

=============================================================================
