--------------------------- MODULE StoredContent ---------------------------
(***************************************************************************)
(* Content that lives in the object store while SQL says what it is:       *)
(* private uploads (user_file_service.py, user_file_cleanup.py), copies    *)
(* saved to a project (project_workspace_service.py) and the bodies of     *)
(* conversation records (conversation_body_session.py, with its offline    *)
(* maintenance, conversation_body_maintenance.py).  A turn commits its     *)
(* record, the reference of its body and the binding of its uploads        *)
(* together, after the body was put.                                       *)
(*                                                                         *)
(* One action is one SQL commit or one operation of the store; both may    *)
(* fail, and a process may die between any two.                            *)
(***************************************************************************)
EXTENDS Naturals, FiniteSets, FiniteSetsExt

CONSTANTS
    Files,       \* private uploads of one owner
    Records,     \* conversation records
    Bodies,      \* contents of a record, by digest
    Writers,     \* database sessions that write records
    Savers,      \* requests that save one file to a project with one key
    Deleters,    \* who runs delete_file: "user" and "cleanup"
    NoFile, NoBody,
    SourceSize,  \* size of an upload
    ParsedSizes, \* sizes a parse may have
    MaxParsed,   \* MAX_PARSED_OBJECT_BYTES
    Quota,       \* user_file_quota_bytes
    MaxWrites,   \* bound: writes of records
    MaxFaults    \* bound: failures of the store and of processes

ASSUME StoredContentAssumption ==
    /\ NoFile \notin Files
    /\ {NoBody, "none", "legacy"} \cap Bodies = {}
    /\ Deleters \subseteq {"user", "cleanup"}
    /\ SourceSize \in Nat /\ MaxParsed \in Nat /\ Quota \in Nat
    /\ ParsedSizes \subseteq 1..MaxParsed
    /\ MaxWrites \in Nat /\ MaxFaults \in Nat

VARIABLES
    objects, \* names in the object store
    file,    \* UserFile: status, expired, parsed (size), run (the record it is bound to)
    upload,  \* the request that uploads a file -> where it stands
    late,    \* files whose upload put an object when its reservation was gone
    deleter, \* delete_file -> [at, file]
    copy,    \* the ProjectFile: status and its source
    saver,   \* save_project_file -> where it stands
    row,     \* record -> the body its committed row refers to, "none" or "legacy"
    writer,  \* session -> [at, record, body, binds]: its open transaction
    writes,  \* writes so far
    sweep,   \* reconcile_receipt of the maintenance run: [at, record, body]
    faults

files == <<file, upload, late, deleter>>
project == <<copy, saver>>
bodies == <<row, writer, writes, sweep>>
vars == <<objects, files, project, bodies, faults>>

Source(f) == <<"source", f>>
Parsed(f) == <<"parsed", f>>
Copy == <<"copy", NoFile>>
Body(r, b) == <<"body", r, b>>
Receipt(r, b) == <<"receipt", r, b>>

Names == {Source(f) : f \in Files} \cup {Parsed(f) : f \in Files} \cup {Copy}
           \cup {Body(r, b) : r \in Records, b \in Bodies}
           \cup {Receipt(r, b) : r \in Records, b \in Bodies}

FileStatus == {"none", "reserved", "uploading", "ready", "failed", "deleting", "deleted"}
NoRecord == "no record"
Idle == [at |-> "idle", record |-> NoRecord, body |-> NoBody, binds |-> NoFile]
NoSweep == [at |-> "off", record |-> NoRecord, body |-> NoBody]

\* Type correctness.
TypeOK ==
    /\ objects \subseteq Names
    /\ file \in [Files -> [status : FileStatus, expired : BOOLEAN, parsed : 0..MaxParsed,
                           run : Records \cup {NoRecord}]]
    /\ upload \in [Files -> {"idle", "parse", "parsed", "publish", "fail",
                             "wipe source", "wipe parsed"}]
    /\ late \subseteq Files
    /\ deleter \in [Deleters -> [at : {"idle", "source", "parsed", "row"},
                                 file : Files \cup {NoFile}]]
    /\ copy \in [status : {"none", "reserved", "ready"}, of : Files \cup {NoFile}]
    /\ saver \in [Savers -> {"idle", "read", "put", "ready"}]
    /\ row \in [Records -> Bodies \cup {"none", "legacy"}]
    /\ writer \in [Writers -> [at : {"idle", "receipt", "put", "commit"},
                               record : Records \cup {NoRecord},
                               body : Bodies \cup {NoBody}, binds : Files \cup {NoFile}]]
    /\ writes \in 0..MaxWrites
    /\ sweep \in [at : {"off", "on", "object", "receipt"},
                  record : Records \cup {NoRecord}, body : Bodies \cup {NoBody}]
    /\ faults \in 0..MaxFaults

\* A record may be a legacy one, whose body is still in SQL.
Init ==
    /\ objects = {}
    /\ file = [f \in Files |-> [status |-> "none", expired |-> FALSE, parsed |-> 0,
                                run |-> NoRecord]]
    /\ upload = [f \in Files |-> "idle"]
    /\ late = {}
    /\ deleter = [d \in Deleters |-> [at |-> "idle", file |-> NoFile]]
    /\ copy = [status |-> "none", of |-> NoFile]
    /\ saver = [s \in Savers |-> "idle"]
    /\ row \in [Records -> {"none", "legacy"}]
    /\ writer = [w \in Writers |-> Idle]
    /\ writes = 0
    /\ sweep = NoSweep
    /\ faults = 0

Fault == faults < MaxFaults /\ faults' = faults + 1

\* An operation of the store happens, or fails and changes nothing.
Put(name) == objects' = objects \cup {name}
Wipe(name) == objects' = objects \ {name}

-----------------------------------------------------------------------------
(* Private uploads: reserve_file, begin_upload, finish_upload *)

\* What a file counts for: its parse, or the largest one until that is known.
Counts(f) == SourceSize + IF file[f].parsed = 0 THEN MaxParsed ELSE file[f].parsed
Held == {f \in Files : file[f].status \notin {"none", "deleted"}}
Used == MapThenSumSet(Counts, Held)

\* Under the lock of the owner's row; an earlier use of the key is replayed.
ReserveFile(f) ==
    /\ file[f].status = "none"
    /\ Used + SourceSize + MaxParsed <= Quota
    /\ file' = [file EXCEPT ![f].status = "reserved"]
    /\ UNCHANGED <<objects, upload, late, deleter, project, bodies, faults>>

\* Two hours after the reservation.
Expire(f) ==
    /\ file[f].status \in {"reserved", "uploading"} /\ ~file[f].expired
    /\ file' = [file EXCEPT ![f].expired = TRUE]
    /\ UNCHANGED <<objects, upload, late, deleter, project, bodies, faults>>

\* begin_upload: one conditional UPDATE lets one request in.
BeginUpload(f) ==
    /\ file[f].status = "reserved" /\ ~file[f].expired
    /\ file' = [file EXCEPT ![f].status = "uploading"]
    /\ upload' = [upload EXCEPT ![f] = "parse"]
    /\ UNCHANGED <<objects, late, deleter, project, bodies, faults>>

\* The steps of finish_upload.
Uploads(f, at, next) == upload[f] = at /\ upload' = [upload EXCEPT ![f] = next]

\* Bytes that do not match or cannot be parsed.
Unparsable(f) ==
    /\ Uploads(f, "parse", "fail")
    /\ UNCHANGED <<objects, file, late, deleter, project, bodies, faults>>

Outlived(f) == IF file[f].status = "uploading" THEN {} ELSE {f}

PutSource(f) ==
    /\ Uploads(f, "parse", "parsed")
    /\ Put(Source(f)) /\ late' = late \cup Outlived(f)
    /\ UNCHANGED <<file, deleter, project, bodies, faults>>

PutParsed(f) ==
    /\ Uploads(f, "parsed", "publish")
    /\ Put(Parsed(f)) /\ late' = late \cup Outlived(f)
    /\ UNCHANGED <<file, deleter, project, bodies, faults>>

\* Mutant: The row becomes ready whatever it has become.
PublishBlind(f) ==
    /\ {Source(f), Parsed(f)} \subseteq objects
    /\ Uploads(f, "publish", "idle")
    /\ \E n \in ParsedSizes :
          file' = [file EXCEPT ![f].status = "ready", ![f].parsed = n]
    /\ UNCHANGED <<objects, late, deleter, project, bodies, faults>>

\* Both are read back and verified, and the row, if it is still uploading, is ready.
Publish(f) ==
    /\ {Source(f), Parsed(f)} \subseteq objects
    /\ file[f].status = "uploading"
    /\ Uploads(f, "publish", "idle")
    /\ \E n \in ParsedSizes :
          file' = [file EXCEPT ![f].status = "ready", ![f].parsed = n]
    /\ UNCHANGED <<objects, late, deleter, project, bodies, faults>>

PublishRefused(f) ==
    /\ ~({Source(f), Parsed(f)} \subseteq objects) \/ file[f].status # "uploading"
    /\ Uploads(f, "publish", "fail")
    /\ UNCHANGED <<objects, file, late, deleter, project, bodies, faults>>

StoreFails(f) ==
    /\ Fault
    /\ Uploads(f, upload[f], CASE upload[f] \in {"parse", "parsed", "publish"} -> "fail"
                               [] OTHER -> "idle")
    /\ upload[f] \in {"parse", "parsed", "publish", "wipe source", "wipe parsed"}
    /\ UNCHANGED <<objects, file, late, deleter, project, bodies>>

\* The handler: only an upload that is still active fails, and wipes its objects.
FailUpload(f) ==
    /\ Uploads(f, "fail", IF file[f].status = "uploading" THEN "wipe source" ELSE "idle")
    /\ file' = [file EXCEPT ![f].status = IF @ = "uploading" THEN "failed" ELSE @]
    /\ UNCHANGED <<objects, late, deleter, project, bodies, faults>>

WipeSource(f) ==
    /\ Uploads(f, "wipe source", "wipe parsed")
    /\ Wipe(Source(f))
    /\ UNCHANGED <<file, late, deleter, project, bodies, faults>>

WipeParsed(f) ==
    /\ Uploads(f, "wipe parsed", "idle")
    /\ Wipe(Parsed(f))
    /\ UNCHANGED <<file, late, deleter, project, bodies, faults>>

\* interrupt_upload: a cancelled or timed out request, whatever it has put.
InterruptUpload(f) ==
    /\ Fault
    /\ upload[f] # "idle"
    /\ upload' = [upload EXCEPT ![f] = "idle"]
    /\ file' = [file EXCEPT ![f].status = IF @ = "uploading" THEN "failed" ELSE @]
    /\ UNCHANGED <<objects, late, deleter, project, bodies>>

\* The process dies: only the expiry of the reservation remains.
UploaderDies(f) ==
    /\ Fault
    /\ upload[f] # "idle"
    /\ upload' = [upload EXCEPT ![f] = "idle"]
    /\ UNCHANGED <<objects, file, late, deleter, project, bodies>>

-----------------------------------------------------------------------------
(* Deletion: delete_file, cleanup_files *)

\* A turn that binds the file holds its row.
Locked(f) == \E w \in Writers : writer[w].binds = f

Deletable(d, f) ==
    LET s == file[f].status IN
    /\ s # "uploading" \/ file[f].expired
    /\ IF d = "user" THEN s \notin {"none", "deleted"}
       ELSE \/ s \in {"failed", "deleting"}
            \/ s \in {"reserved", "uploading"} /\ file[f].expired

\* Mutant: Deleted in SQL before the store.
RevokeAsDeleted(d, f) ==
    /\ deleter[d].at = "idle"
    /\ Deletable(d, f) /\ ~Locked(f)
    /\ file' = [file EXCEPT ![f].status = "deleted"]
    /\ deleter' = [deleter EXCEPT ![d] = [at |-> "source", file |-> f]]
    /\ UNCHANGED <<objects, upload, late, project, bodies, faults>>

\* Access is revoked before anything is deleted.
Revoke(d, f) ==
    /\ deleter[d].at = "idle"
    /\ Deletable(d, f) /\ ~Locked(f)
    /\ file' = [file EXCEPT ![f].status = "deleting"]
    /\ deleter' = [deleter EXCEPT ![d] = [at |-> "source", file |-> f]]
    /\ UNCHANGED <<objects, upload, late, project, bodies, faults>>

Deletes(d, at, next) ==
    /\ deleter[d].at = at
    /\ deleter' = [deleter EXCEPT ![d] = IF next = "idle" THEN [at |-> "idle", file |-> NoFile]
                                         ELSE [@ EXCEPT !.at = next]]

DeleteSource(d) ==
    /\ Deletes(d, "source", "parsed")
    /\ Wipe(Source(deleter[d].file))
    /\ UNCHANGED <<file, upload, late, project, bodies, faults>>

DeleteParsed(d) ==
    /\ Deletes(d, "parsed", "row")
    /\ Wipe(Parsed(deleter[d].file))
    /\ UNCHANGED <<file, upload, late, project, bodies, faults>>

\* The key of the row is needed no more: its objects are gone.
DeleteRow(d) ==
    /\ Deletes(d, "row", "idle")
    /\ file' = [file EXCEPT ![deleter[d].file].status = "deleted"]
    /\ UNCHANGED <<objects, upload, late, project, bodies, faults>>

\* The store fails or the process dies: the row stays in deleting, for the next try.
DeleteFails(d) ==
    /\ Fault
    /\ \E at \in {"source", "parsed", "row"} : Deletes(d, at, "idle")
    /\ UNCHANGED <<objects, file, upload, late, project, bodies>>

-----------------------------------------------------------------------------
(* Project copies: save_project_file *)

Saves(s, at, next) == saver[s] = at /\ saver' = [saver EXCEPT ![s] = next]

\* Under the project's lock: a reservation, or the one an earlier try left.
ReserveCopy(s, f) ==
    /\ Saves(s, "idle", "read")
    /\ file[f].status = "ready"
    /\ \/ copy.status = "none"
       \/ copy.status = "reserved" /\ copy.of = f
    /\ copy' = [status |-> "reserved", of |-> f]
    /\ UNCHANGED <<objects, files, bodies, faults>>

\* The bytes are in memory from here on; a source deleted meanwhile ends the try.
ReadSource(s) ==
    /\ Saves(s, "read", IF Source(copy.of) \in objects THEN "put" ELSE "idle")
    /\ UNCHANGED <<objects, files, copy, bodies, faults>>

PutCopy(s) ==
    /\ Saves(s, "put", "ready")
    /\ Put(Copy)
    /\ UNCHANGED <<files, copy, bodies, faults>>

CopyReady(s) ==
    /\ Saves(s, "ready", "idle")
    /\ copy' = [copy EXCEPT !.status = "ready"]
    /\ UNCHANGED <<objects, files, bodies, faults>>

\* The reserved row stays, for the same key.
SaveFails(s) ==
    /\ Fault
    /\ \E at \in {"read", "put", "ready"} : Saves(s, at, "idle")
    /\ UNCHANGED <<objects, files, copy, bodies>>

-----------------------------------------------------------------------------
(* Bodies: ConversationBodySession._prepare_body, flush, commit *)

Writing(w, r, b, f) ==
    /\ sweep.at = "off"
    /\ writer[w].at = "idle"
    /\ writes < MaxWrites /\ writes' = writes + 1
    /\ writer' = [writer EXCEPT ![w] = [at |-> "receipt", record |-> r, body |-> b, binds |-> f]]
    /\ UNCHANGED <<objects, files, project, row, sweep, faults>>

\* bind_files: the row of the file is read and locked until the turn's commit.
Binds(f) == file[f].status = "ready" /\ file[f].run = NoRecord /\ ~Locked(f)

\* A new turn, with an upload or without one.
WriteTurn(w, r, b, f) ==
    /\ row[r] = "none"
    /\ \A v \in Writers : writer[v].record # r
    /\ f # NoFile => Binds(f)
    /\ Writing(w, r, b, f)

\* A later change, or the backfill of a legacy body; the present body is read first.
WriteAgain(w, r, b) ==
    /\ row[r] \notin {"none", b}
    /\ row[r] \in Bodies => Body(r, row[r]) \in objects
    /\ Writing(w, r, b, NoFile)

Writes(w, at, next) ==
    /\ writer[w].at = at
    /\ writer' = [writer EXCEPT ![w] = IF next = "idle" THEN Idle ELSE [@ EXCEPT !.at = next]]

\* The receipts of one object are kept as one: they come and go with the object.
PutReceipt(w) ==
    /\ Writes(w, "receipt", "put")
    /\ Put(Receipt(writer[w].record, writer[w].body))
    /\ UNCHANGED <<files, project, row, writes, sweep, faults>>

\* Put, and read back.
PutBody(w) ==
    /\ Writes(w, "put", "commit")
    /\ Put(Body(writer[w].record, writer[w].body))
    /\ UNCHANGED <<files, project, row, writes, sweep, faults>>

\* The one SQL commit: the reference and, with a turn, the binding of its file.
Committed(w) ==
    /\ row' = [row EXCEPT ![writer[w].record] = writer[w].body]
    /\ file' = [f \in Files |-> IF f = writer[w].binds
                               THEN [file[f] EXCEPT !.run = writer[w].record] ELSE file[f]]

CommitBody(w) ==
    /\ Writes(w, "commit", "idle")
    /\ Committed(w)
    /\ UNCHANGED <<objects, upload, late, deleter, project, writes, sweep, faults>>

\* The store refuses, or the process dies: the transaction is rolled back.
WriteFails(w) ==
    /\ Fault
    /\ \E at \in {"receipt", "put", "commit"} : Writes(w, at, "idle")
    /\ UNCHANGED <<objects, files, project, row, writes, sweep>>

\* Mutant: The object is deleted when the commit raises.
AnswerLostWipes(w) ==
    /\ Fault
    /\ Writes(w, "commit", "idle")
    /\ Committed(w)
    /\ Wipe(Body(writer[w].record, writer[w].body))
    /\ UNCHANGED <<upload, late, deleter, project, writes, sweep>>

\* The commit reaches the database and its answer is lost: whatever happened there,
\* the session only rolls back; the objects and the receipt stay.
AnswerLost(w) ==
    /\ Fault
    /\ Writes(w, "commit", "idle")
    /\ Committed(w)
    /\ UNCHANGED <<objects, upload, late, deleter, project, writes, sweep>>

-----------------------------------------------------------------------------
(* Offline maintenance: reconcile, restore.  Its operator has stopped the writers. *)

StopWriters ==
    /\ sweep.at = "off"
    /\ \A w \in Writers : writer[w].at = "idle"
    /\ sweep' = [NoSweep EXCEPT !.at = "on"]
    /\ UNCHANGED <<objects, files, project, row, writer, writes, faults>>

\* One receipt older than a day; one whose object is in use is kept.
Reconcile(r, b) ==
    /\ sweep.at = "on"
    /\ Receipt(r, b) \in objects
    /\ row[r] # b
    /\ sweep' = [at |-> "object", record |-> r, body |-> b]
    /\ UNCHANGED <<objects, files, project, row, writer, writes, faults>>

DeleteBody ==
    /\ sweep.at = "object"
    /\ Wipe(Body(sweep.record, sweep.body))
    /\ sweep' = [sweep EXCEPT !.at = "receipt"]
    /\ UNCHANGED <<files, project, row, writer, writes, faults>>

DeleteReceipt ==
    /\ sweep.at = "receipt"
    /\ Wipe(Receipt(sweep.record, sweep.body))
    /\ sweep' = [NoSweep EXCEPT !.at = "on"]
    /\ UNCHANGED <<files, project, row, writer, writes, faults>>

SweepFails ==
    /\ Fault
    /\ sweep.at \in {"object", "receipt"}
    /\ sweep' = [NoSweep EXCEPT !.at = "on"]
    /\ UNCHANGED <<objects, files, project, row, writer, writes>>

\* The body, read and verified, goes back to SQL; the object waits for a reconcile.
Restore(r) ==
    /\ sweep.at = "on"
    /\ row[r] \in Bodies
    /\ Body(r, row[r]) \in objects
    /\ row' = [row EXCEPT ![r] = "legacy"]
    /\ UNCHANGED <<objects, files, project, writer, writes, sweep, faults>>

StartWriters ==
    /\ sweep.at = "on"
    /\ sweep' = NoSweep
    /\ UNCHANGED <<objects, files, project, row, writer, writes, faults>>

-----------------------------------------------------------------------------
Uploading(f) ==
    \/ ReserveFile(f) \/ Expire(f) \/ BeginUpload(f) \/ Unparsable(f)
    \/ PutSource(f) \/ PutParsed(f) \/ Publish(f) \/ PublishRefused(f)
    \/ StoreFails(f) \/ FailUpload(f) \/ WipeSource(f) \/ WipeParsed(f)
    \/ InterruptUpload(f) \/ UploaderDies(f)

Deleting(d) ==
    \/ \E f \in Files : Revoke(d, f)
    \/ DeleteSource(d) \/ DeleteParsed(d) \/ DeleteRow(d) \/ DeleteFails(d)

Saving(s) ==
    \/ \E f \in Files : ReserveCopy(s, f)
    \/ ReadSource(s) \/ PutCopy(s) \/ CopyReady(s) \/ SaveFails(s)

Persisting(w) ==
    \/ \E r \in Records, b \in Bodies, f \in Files \cup {NoFile} : WriteTurn(w, r, b, f)
    \/ \E r \in Records, b \in Bodies : WriteAgain(w, r, b)
    \/ PutReceipt(w) \/ PutBody(w) \/ CommitBody(w) \/ WriteFails(w) \/ AnswerLost(w)

Maintaining ==
    \/ StopWriters \/ StartWriters \/ DeleteBody \/ DeleteReceipt \/ SweepFails
    \/ \E r \in Records, b \in Bodies : Reconcile(r, b)
    \/ \E r \in Records : Restore(r)

Next ==
    \/ \E f \in Files : Uploading(f)
    \/ \E d \in Deleters : Deleting(d)
    \/ \E s \in Savers : Saving(s)
    \/ \E w \in Writers : Persisting(w)
    \/ Maintaining

Spec == Init /\ [][Next]_vars

-----------------------------------------------------------------------------
(* Properties *)

\* A file or a copy that SQL calls ready can be read: its objects are in the store,
\* whichever upload, failed handler, deletion or retry ran meanwhile.
ReadyIsStored ==
    /\ \A f \in Files : file[f].status = "ready" => {Source(f), Parsed(f)} \subseteq objects
    /\ copy.status = "ready" => Copy \in objects

\* A deleted file leaves nothing in the store, as "Failed writes retain durable keys
\* until cleanup succeeds" (user_file_service.py:3) says. Violated: an upload that goes
\* on after its reservation expired puts its objects when the deletion has passed them,
\* and nobody deletes them any more.
DeletedIsGone ==
    \A f \in Files : file[f].status = "deleted" => objects \cap {Source(f), Parsed(f)} = {}

\* That is the only way: whatever else failed, died or was retried, objects of a deleted
\* file were put by an upload whose reservation had been revoked before the put
\* (finish_upload, delete_file).
DeletedInTimeIsGone ==
    \A f \in Files :
       file[f].status = "deleted" /\ f \notin late => objects \cap {Source(f), Parsed(f)} = {}

\* The body a committed row refers to is in the store: an uncertain commit, a
\* rollback or the maintenance never take it away.
BodyReadable ==
    \A r \in Records : row[r] \in Bodies => Body(r, row[r]) \in objects

\* A body in the store, referred to or not, can be found by its receipt.
BodyHasReceipt ==
    \A r \in Records, b \in Bodies : Body(r, b) \in objects => Receipt(r, b) \in objects

=============================================================================
