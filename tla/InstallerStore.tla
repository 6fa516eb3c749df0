--------------------------- MODULE InstallerStore ---------------------------
(***************************************************************************)
(* The installer store: administrators upload packages from the Web page   *)
(* or the command line, users download them.  A package is a file in the   *)
(* installer directory and a row of the table installers, which no single  *)
(* operation writes together (wg_manager/services.py, store_installer and  *)
(* verified_installer_path).                                               *)
(***************************************************************************)
EXTENDS FiniteSets

CONSTANTS
    Ids,       \* installer ids, the generated UUIDs
    Uploads,   \* requests and commands that store a package
    Downloads, \* requests that fetch one
    Packages,  \* contents a package may have
    None,      \* no file, no row
    Faults     \* what may go wrong, a subset of StoreFaults

StoreFaults == {
    "disk_error",    \* a chunk cannot be written, a rename fails
    "db_error",      \* the transaction fails and is rolled back
    "interrupt",     \* the command is interrupted from the keyboard
    "cleanup_error", \* the handler's own unlink or SELECT fails
    "crash",         \* the process dies
    "power_loss",    \* the host dies; what is not synced may be lost
    "damage" }       \* a stored file is changed or removed from outside

(* Uploads the limits refuse, a file written in part, a file changed.      *)
Refused == {"empty", "huge"}
Content == Packages \cup {"empty", "partial", "damaged"}

ASSUME StoreAssumption == /\ Faults \subseteq StoreFaults
                          /\ None \notin Content
                          /\ Packages \cap {"empty", "huge", "partial", "damaged"} = {}

VARIABLES
    temp,      \* the upload's temporary file, named here by its installer id
    file,      \* the file under its final name
    row,       \* installers: the digest recorded for each id
    up,        \* what each upload is doing
    down,      \* what each download is doing
    unsynced,  \* renames the host has not yet made durable
    harmed,    \* files damaged or lost since they were stored
    abandoned  \* uploads cut off before their handler began or had finished

svars == <<temp, file, row, up, down, unsynced, harmed, abandoned>>

Idle == [at |-> "idle"]

Upload == {Idle} \cup [at : {"opened", "receiving", "received", "placed", "stored",
                             "removing_temp", "removing_final"},
                       id : Ids, content : Packages \cup Refused]

(* late: the file was harmed after the digest had been compared.           *)
Download == {Idle} \cup [at : {"verifying", "sending"}, id : Ids,
                         digest : Packages, late : BOOLEAN]

(* A recorded digest is that of a package within the limits.               *)
InstallerTypeOK ==
    /\ temp \in [Ids -> Content \cup {None}]
    /\ file \in [Ids -> Content \cup {None}]
    /\ row \in [Ids -> Packages \cup {None}]
    /\ up \in [Uploads -> Upload]
    /\ down \in [Downloads -> Download]
    /\ unsynced \subseteq Ids /\ harmed \subseteq Ids /\ abandoned \subseteq Ids

StoreInit ==
    /\ temp = [i \in Ids |-> None]
    /\ file = [i \in Ids |-> None]
    /\ row = [i \in Ids |-> None]
    /\ up = [u \in Uploads |-> Idle]
    /\ down = [d \in Downloads |-> Idle]
    /\ unsynced = {} /\ harmed = {} /\ abandoned = {}

-----------------------------------------------------------------------------
At(u, stage) == up[u].at = stage

Goto(u, stage) == up' = [up EXCEPT ![u].at = stage]

Working(i) == \E u \in Uploads : up[u] # Idle /\ up[u].id = i

Fresh(i) == /\ temp[i] = None /\ file[i] = None /\ row[i] = None
            /\ ~Working(i) /\ i \notin abandoned \cup harmed
            /\ \A d \in Downloads : down[d] # Idle => down[d].id # i

(* uuid4 and mkstemp: a new id and an empty temporary file.                *)
UploadBegin(u, i, c) ==
    /\ At(u, "idle") /\ Fresh(i)
    /\ temp' = [temp EXCEPT ![i] = "partial"]
    /\ up' = [up EXCEPT ![u] = [at |-> "opened", id |-> i, content |-> c]]
    /\ UNCHANGED <<file, row, down, unsynced, harmed, abandoned>>

(* The try is entered: from here on a handler cleans up.                   *)
UploadTry(u) ==
    /\ At(u, "opened")
    /\ Goto(u, "receiving")
    /\ UNCHANGED <<temp, file, row, down, unsynced, harmed, abandoned>>

(* The whole stream is written, flushed and synced.                        *)
UploadReceive(u) ==
    /\ At(u, "receiving") /\ up[u].content # "huge"
    /\ temp' = [temp EXCEPT ![up[u].id] = up[u].content]
    /\ Goto(u, "received")
    /\ UNCHANGED <<file, row, down, unsynced, harmed, abandoned>>

(* Mutation of NotEmpty: the size is not looked at.                        *)
NotEmptyUnchecked(c) == TRUE

NotEmpty(c) == c # "empty"

(* os.replace, without a sync of the directory.                            *)
UploadPlace(u) == LET i == up[u].id IN
    /\ At(u, "received") /\ NotEmpty(up[u].content)
    /\ file' = [file EXCEPT ![i] = temp[i]]
    /\ temp' = [temp EXCEPT ![i] = None]
    /\ unsynced' = unsynced \cup {i}
    /\ Goto(u, "placed")
    /\ UNCHANGED <<row, down, harmed, abandoned>>

(* The transaction that inserts the row commits.                           *)
UploadRecord(u) ==
    /\ At(u, "placed")
    /\ row' = [row EXCEPT ![up[u].id] = up[u].content]
    /\ Goto(u, "stored")
    /\ UNCHANGED <<temp, file, down, unsynced, harmed, abandoned>>

UploadEnd(u) ==
    /\ At(u, "stored")
    /\ up' = [up EXCEPT ![u] = Idle]
    /\ UNCHANGED <<temp, file, row, down, unsynced, harmed, abandoned>>

(* What raises an exception inside the try of store_installer; its handler *)
(* catches every BaseException.                                            *)
Raises(u) ==
    \/ At(u, "receiving") /\ (up[u].content = "huge" \/ "disk_error" \in Faults)
    \/ At(u, "received") /\ (~NotEmpty(up[u].content) \/ "disk_error" \in Faults)
    \/ At(u, "placed") /\ "db_error" \in Faults

UploadFail(u) ==
    /\ Raises(u) /\ Goto(u, "removing_temp")
    /\ UNCHANGED <<temp, file, row, down, unsynced, harmed, abandoned>>

(* Mutation of Handle: except Exception, which an interrupt passes by.     *)
HandleNot(u) == up' = [up EXCEPT ![u] = Idle]

(* except BaseException.                                                   *)
Handle(u) == Goto(u, "removing_temp")

(* KeyboardInterrupt may come anywhere in it, after the commit too.        *)
UploadInterrupt(u) ==
    /\ "interrupt" \in Faults
    /\ up[u].at \in {"receiving", "received", "placed", "stored"}
    /\ Handle(u)
    /\ UNCHANGED <<temp, file, row, down, unsynced, harmed, abandoned>>

RemoveTemp(u) ==
    /\ At(u, "removing_temp")
    /\ temp' = [temp EXCEPT ![up[u].id] = None]
    /\ Goto(u, "removing_final")
    /\ UNCHANGED <<file, row, down, unsynced, harmed, abandoned>>

(* Mutation of Unrecorded: the row is not looked for.                      *)
UnrecordedAssumed(i) == TRUE

(* The exception may have come after the commit.                           *)
Unrecorded(i) == row[i] = None

RemoveFinal(u) == LET i == up[u].id IN
    /\ At(u, "removing_final")
    /\ file' = [file EXCEPT ![i] = IF Unrecorded(i) THEN None ELSE @]
    /\ up' = [up EXCEPT ![u] = Idle]
    /\ UNCHANGED <<temp, row, down, unsynced, harmed, abandoned>>

(* The upload ends where it is: its handler fails, the process dies, or an *)
(* interrupt comes before there is a handler.                              *)
Abandon(u) ==
    /\ up[u] # Idle
    /\ \/ "crash" \in Faults
       \/ "cleanup_error" \in Faults /\ up[u].at \in {"removing_temp", "removing_final"}
       \/ "interrupt" \in Faults /\ At(u, "opened")
    /\ up' = [up EXCEPT ![u] = Idle]
    /\ abandoned' = abandoned \cup {up[u].id}
    /\ UNCHANGED <<temp, file, row, down, unsynced, harmed>>

(********************************* downloads *******************************)
DownloadBegin(d, i) ==
    /\ down[d] = Idle /\ row[i] # None
    /\ down' = [down EXCEPT ![d] = [at |-> "verifying", id |-> i,
                                    digest |-> row[i], late |-> FALSE]]
    /\ UNCHANGED <<temp, file, row, up, unsynced, harmed, abandoned>>

(* Mutation of Verified: the file has only to be there.                    *)
VerifiedPresent(r) == file[r.id] # None

(* The file exists and hashes to the recorded digest.                      *)
Verified(r) == file[r.id] = r.digest

DownloadVerify(d) ==
    /\ down[d] # Idle /\ down[d].at = "verifying"
    /\ down' = [down EXCEPT ![d] = IF Verified(@) THEN [@ EXCEPT !.at = "sending"]
                                                  ELSE Idle]
    /\ UNCHANGED <<temp, file, row, up, unsynced, harmed, abandoned>>

(* send_file opens the file again and streams what is there.               *)
DownloadSend(d) ==
    /\ down[d] # Idle /\ down[d].at = "sending"
    /\ down' = [down EXCEPT ![d] = Idle]
    /\ UNCHANGED <<temp, file, row, up, unsynced, harmed, abandoned>>

(******************************** the host *********************************)
(* The rename reaches the disk.                                            *)
Writeback(i) ==
    /\ i \in unsynced
    /\ unsynced' = unsynced \ {i}
    /\ UNCHANGED <<temp, file, row, up, down, harmed, abandoned>>

(* Committed rows survive (synchronous = FULL); of the renames still to be *)
(* written some are lost, and the temporary name may be back.              *)
PowerLoss ==
    /\ "power_loss" \in Faults
    /\ \E lost \in SUBSET {i \in unsynced : file[i] # None}, back \in SUBSET unsynced :
        /\ file' = [i \in Ids |-> IF i \in lost THEN None ELSE file[i]]
        /\ temp' = [i \in Ids |-> IF i \in lost \cap back THEN file[i] ELSE temp[i]]
        /\ harmed' = harmed \cup lost
        /\ abandoned' = abandoned \cup lost \cup {i \in Ids : Working(i)}
    /\ up' = [u \in Uploads |-> Idle]
    /\ down' = [d \in Downloads |-> Idle]
    /\ unsynced' = {}
    /\ UNCHANGED row

Damage(i) ==
    /\ "damage" \in Faults
    /\ file[i] \notin {None, "damaged"} /\ row[i] # None
    /\ \E left \in {None, "damaged"} : file' = [file EXCEPT ![i] = left]
    /\ harmed' = harmed \cup {i}
    /\ down' = [d \in Downloads |->
                  IF down[d] # Idle /\ down[d].at = "sending" /\ down[d].id = i
                  THEN [down[d] EXCEPT !.late = TRUE] ELSE down[d]]
    /\ UNCHANGED <<temp, row, up, unsynced, abandoned>>

StoreNext ==
    \/ \E u \in Uploads :
        \/ \E i \in Ids, c \in Packages \cup Refused : UploadBegin(u, i, c)
        \/ UploadTry(u) \/ UploadReceive(u) \/ UploadPlace(u) \/ UploadRecord(u) \/ UploadEnd(u)
        \/ UploadFail(u) \/ UploadInterrupt(u)
        \/ RemoveTemp(u) \/ RemoveFinal(u) \/ Abandon(u)
    \/ \E d \in Downloads : \/ \E i \in Ids : DownloadBegin(d, i)
                            \/ DownloadVerify(d) \/ DownloadSend(d)
    \/ \E i \in Ids : Writeback(i) \/ Damage(i)
    \/ PowerLoss

StoreSpec == StoreInit /\ [][StoreNext]_svars

-----------------------------------------------------------------------------
(* A listed installer has its file, whatever failure, interrupt or crash   *)
(* cut its upload short at any point, an exception after the commit        *)
(* included; only damage from outside and a rename that a power failure    *)
(* takes back make an exception (services.py:760-770).                     *)
RowsHaveFiles ==
    \A i \in Ids : row[i] # None /\ i \notin harmed => file[i] = row[i]

(* What a download sends is the package whose digest was recorded: no step *)
(* of the program touches a file once the comparison is made, and a harmed *)
(* file is not sent, unless it is harmed after the comparison              *)
(* (services.py:788).                                                      *)
ServedIsVerified ==
    \A d \in Downloads :
        down[d] # Idle /\ down[d].at = "sending" /\ ~down[d].late
            => file[down[d].id] = row[down[d].id]

(* A file without a row belongs to an upload that is still at work on it,  *)
(* or to one whose own clean-up was cut off, or that an interrupt ended    *)
(* between mkstemp and the try: nothing else leaves files that no page     *)
(* lists and no command removes (services.py:760).                         *)
NoStrays ==
    \A i \in Ids :
        temp[i] # None \/ (file[i] # None /\ row[i] = None)
            => Working(i) \/ i \in abandoned

=============================================================================
