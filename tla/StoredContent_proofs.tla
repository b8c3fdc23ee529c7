------------------------ MODULE StoredContent_proofs ------------------------
(***************************************************************************)
(* Proofs about StoredContent for any number of files, records, bodies,    *)
(* database sessions and requests, and any number of failures.  IInv adds  *)
(* to the properties what every unfinished activity knows: an upload, a    *)
(* deletion, a saved copy, an open transaction and the maintenance.        *)
(***************************************************************************)
EXTENDS StoredContent, TLAPS

-----------------------------------------------------------------------------
(* The inductive invariant *)

Revoked == {"deleting", "deleted"}

\* An upload in progress once was let in, and its handler wipes only what has failed.
UploadKnows ==
    \A f \in Files :
       /\ upload[f] # "idle" => file[f].status \in {"uploading", "failed"} \cup Revoked
       /\ upload[f] \in {"wipe source", "wipe parsed"} =>
             file[f].status \in {"failed"} \cup Revoked

\* A deletion has revoked the file, and what it has passed is gone.
DeleterKnows ==
    \A d \in Deleters : deleter[d].at # "idle" =>
       /\ deleter[d].file \in Files
       /\ file[deleter[d].file].status \in Revoked
       /\ deleter[d].file \notin late /\ deleter[d].at \in {"parsed", "row"} =>
             Source(deleter[d].file) \notin objects
       /\ deleter[d].file \notin late /\ deleter[d].at = "row" =>
             Parsed(deleter[d].file) \notin objects

SaverKnows == \A s \in Savers : saver[s] = "ready" => Copy \in objects

\* What a transaction has put is there, and no maintenance runs beside it.
WriterKnows ==
    \A w \in Writers : writer[w].at # "idle" =>
       /\ writer[w].record \in Records /\ writer[w].body \in Bodies
       /\ sweep.at = "off"
       /\ writer[w].at \in {"put", "commit"} =>
             Receipt(writer[w].record, writer[w].body) \in objects
       /\ writer[w].at = "commit" => Body(writer[w].record, writer[w].body) \in objects

\* The maintenance deletes a body nothing refers to, and its receipt after it.
SweepKnows ==
    sweep.at \in {"object", "receipt"} =>
       /\ sweep.record \in Records /\ sweep.body \in Bodies
       /\ row[sweep.record] # sweep.body
       /\ sweep.at = "receipt" => Body(sweep.record, sweep.body) \notin objects

FileInv == UploadKnows /\ DeleterKnows /\ SaverKnows /\ ReadyIsStored /\ DeletedInTimeIsGone
BodyInv == WriterKnows /\ SweepKnows /\ BodyReadable /\ BodyHasReceipt
IInv == TypeOK /\ FileInv /\ BodyInv

-----------------------------------------------------------------------------
(* Names in the store *)

LEMMA DistinctNames ==
    /\ \A f, g : Source(f) # Parsed(g) /\ Source(f) # Copy /\ Parsed(f) # Copy
    /\ \A f, g : (Source(f) = Source(g) => f = g) /\ (Parsed(f) = Parsed(g) => f = g)
    /\ \A r, b, q, c : Body(r, b) # Receipt(q, c)
    /\ \A r, b, q, c : Body(r, b) = Body(q, c) => r = q /\ b = c
    /\ \A r, b, q, c : Receipt(r, b) = Receipt(q, c) => r = q /\ b = c
    /\ \A f, r, b : /\ Source(f) # Body(r, b) /\ Source(f) # Receipt(r, b)
                    /\ Parsed(f) # Body(r, b) /\ Parsed(f) # Receipt(r, b)
    /\ \A r, b : Copy # Body(r, b) /\ Copy # Receipt(r, b)
BY DEF Source, Parsed, Copy, Body, Receipt

-----------------------------------------------------------------------------
(* Types *)

FileRows == [Files -> [status : FileStatus, expired : BOOLEAN, parsed : 0..MaxParsed,
                       run : Records \cup {NoRecord}]]
Uploads7 == {"idle", "parse", "parsed", "publish", "fail", "wipe source", "wipe parsed"}

\* What TypeOK says of uploads and of bodies, apart from the names in the store.
LEMMA FileTypes == TypeOK => /\ file \in FileRows
                             /\ upload \in [Files -> Uploads7]
                             /\ late \subseteq Files
BY DEF TypeOK, FileRows, Uploads7

LEMMA DeleterTypes ==
    TypeOK => /\ deleter \in [Deleters -> [at : {"idle", "source", "parsed", "row"},
                                           file : Files \cup {NoFile}]]
              /\ copy \in [status : {"none", "reserved", "ready"}, of : Files \cup {NoFile}]
              /\ saver \in [Savers -> {"idle", "read", "put", "ready"}]
BY DEF TypeOK

LEMMA BodyTypes ==
    TypeOK => /\ row \in [Records -> Bodies \cup {"none", "legacy"}]
              /\ writer \in [Writers -> [at : {"idle", "receipt", "put", "commit"},
                               record : Records \cup {NoRecord},
                               body : Bodies \cup {NoBody}, binds : Files \cup {NoFile}]]
              /\ sweep \in [at : {"off", "on", "object", "receipt"},
                            record : Records \cup {NoRecord}, body : Bodies \cup {NoBody}]
BY DEF TypeOK

\* A row whose status changes keeps its type and leaves the others alone.
LEMMA StatusSet ==
    ASSUME file \in FileRows, NEW f \in Files, NEW s \in FileStatus,
           file' = [file EXCEPT ![f].status = s]
    PROVE /\ file' \in FileRows /\ file'[f].status = s
          /\ \A g \in Files \ {f} : file'[g] = file[g]
<1>1. [file[f] EXCEPT !.status = s] \in
         [status : FileStatus, expired : BOOLEAN, parsed : 0..MaxParsed,
          run : Records \cup {NoRecord}]
  BY DEF FileRows
<1> QED BY <1>1 DEF FileRows

-----------------------------------------------------------------------------
(* What the steps touch *)

FileSteps ==
    \/ \E f \in Files : Uploading(f)
    \/ \E d \in Deleters : Deleting(d)
    \/ \E s \in Savers : Saving(s)

BodySteps == (\E w \in Writers : Persisting(w)) \/ Maintaining

\* Uploads, deletions and copies leave bodies alone.
LEMMA FileStepsKeep ==
    ASSUME FileSteps
    PROVE /\ UNCHANGED bodies
          /\ \A r, b : /\ Body(r, b) \in objects' <=> Body(r, b) \in objects
                       /\ Receipt(r, b) \in objects' <=> Receipt(r, b) \in objects
<1>1. ASSUME NEW f \in Files, Uploading(f)
      PROVE /\ UNCHANGED bodies
            /\ \/ UNCHANGED objects
               \/ \E n \in {Source(f), Parsed(f)} : Put(n) \/ Wipe(n)
  BY <1>1 DEF Uploading, ReserveFile, Expire, BeginUpload, Unparsable, PutSource,
     PutParsed, Publish, PublishRefused, StoreFails, FailUpload, WipeSource, WipeParsed,
     InterruptUpload, UploaderDies
<1>2. ASSUME NEW d \in Deleters, Deleting(d)
      PROVE /\ UNCHANGED bodies
            /\ \/ UNCHANGED objects
               \/ \E f : Wipe(Source(f)) \/ Wipe(Parsed(f))
  BY <1>2 DEF Deleting, Revoke, DeleteSource, DeleteParsed, DeleteRow, DeleteFails
<1>3. ASSUME NEW s \in Savers, Saving(s)
      PROVE UNCHANGED bodies /\ (UNCHANGED objects \/ Put(Copy))
  BY <1>3 DEF Saving, ReserveCopy, ReadSource, PutCopy, CopyReady, SaveFails
<1> QED BY <1>1, <1>2, <1>3, DistinctNames DEF FileSteps, Put, Wipe

\* Transactions and maintenance leave uploads, deletions and copies alone, but for the
\* Run a file is bound to.
LEMMA BodyStepsKeep ==
    ASSUME TypeOK, BodySteps
    PROVE /\ UNCHANGED <<upload, late, deleter, project>>
          /\ \A f \in Files : file'[f].status = file[f].status
          /\ \A f \in Files : /\ Source(f) \in objects' <=> Source(f) \in objects
                              /\ Parsed(f) \in objects' <=> Parsed(f) \in objects
          /\ Copy \in objects' <=> Copy \in objects
<1>1. ASSUME NEW w \in Writers, Persisting(w)
      PROVE /\ UNCHANGED <<upload, late, deleter, project>>
            /\ file' = file \/ Committed(w)
            /\ \/ UNCHANGED objects
               \/ \E r, b : Put(Body(r, b)) \/ Put(Receipt(r, b))
  BY <1>1 DEF Persisting, WriteTurn, WriteAgain, Writing, PutReceipt, PutBody, CommitBody,
     WriteFails, AnswerLost, files
<1>2. ASSUME Maintaining
      PROVE /\ UNCHANGED <<files, project>>
            /\ \/ UNCHANGED objects
               \/ \E r, b : Wipe(Body(r, b)) \/ Wipe(Receipt(r, b))
  BY <1>2 DEF Maintaining, StopWriters, StartWriters, DeleteBody, DeleteReceipt, SweepFails,
     Reconcile, Restore
<1>3. ASSUME NEW w \in Writers, Committed(w), NEW f \in Files
      PROVE file'[f].status = file[f].status
  BY <1>3, FileTypes DEF Committed, FileRows
<1> QED BY <1>1, <1>2, <1>3, DistinctNames DEF BodySteps, Put, Wipe, files

-----------------------------------------------------------------------------
(* Uploads, deletions and copies *)

LEMMA BodyStepsKeepFileInv == ASSUME IInv, BodySteps PROVE FileInv'
<1>1. /\ UNCHANGED <<upload, late, deleter, project>>
      /\ \A f \in Files : file'[f].status = file[f].status
      /\ \A f \in Files : /\ Source(f) \in objects' <=> Source(f) \in objects
                          /\ Parsed(f) \in objects' <=> Parsed(f) \in objects
      /\ Copy \in objects' <=> Copy \in objects
  BY BodyStepsKeep DEF IInv
<1>2. UploadKnows' /\ SaverKnows'
  BY <1>1 DEF IInv, FileInv, UploadKnows, SaverKnows, project
<1>3. DeleterKnows'
  BY <1>1 DEF IInv, FileInv, DeleterKnows
<1>4. ReadyIsStored'
  BY <1>1 DEF IInv, FileInv, ReadyIsStored, project
<1>5. DeletedInTimeIsGone'
  BY <1>1 DEF IInv, FileInv, DeletedInTimeIsGone
<1> QED BY <1>2, <1>3, <1>4, <1>5 DEF FileInv

\* What an upload of f does to f; other files keep everything.
LEMMA UploadKeepsOthers ==
    ASSUME IInv, NEW f \in Files, Uploading(f), NEW g \in Files \ {f}
    PROVE /\ file'[g] = file[g] /\ upload'[g] = upload[g]
          /\ g \in late' <=> g \in late
          /\ Source(g) \in objects' <=> Source(g) \in objects
          /\ Parsed(g) \in objects' <=> Parsed(g) \in objects
<1>1. file'[g] = file[g] /\ upload'[g] = upload[g] /\ (g \in late' <=> g \in late)
  BY FileTypes DEF IInv, FileRows, Uploads7, Uploading, ReserveFile, Expire, BeginUpload,
     Unparsable, PutSource, PutParsed, Publish, PublishRefused, StoreFails, FailUpload, WipeSource, WipeParsed,
     InterruptUpload, UploaderDies, Uploads, Outlived
<1>2. \/ UNCHANGED objects
      \/ \E n \in {Source(f), Parsed(f)} : Put(n) \/ Wipe(n)
  BY DEF Uploading, ReserveFile, Expire, BeginUpload, Unparsable, PutSource,
     PutParsed, Publish, PublishRefused, StoreFails, FailUpload, WipeSource, WipeParsed,
     InterruptUpload, UploaderDies
<1> QED BY <1>1, <1>2, DistinctNames DEF Put, Wipe

LEMMA UploadKeepsProject ==
    ASSUME NEW f \in Files, Uploading(f)
    PROVE UNCHANGED <<deleter, project>> /\ (Copy \in objects' <=> Copy \in objects)
<1>1. /\ UNCHANGED <<deleter, project>>
      /\ \/ UNCHANGED objects
         \/ \E n \in {Source(f), Parsed(f)} : Put(n) \/ Wipe(n)
  BY DEF Uploading, ReserveFile, Expire, BeginUpload, Unparsable, PutSource,
     PutParsed, Publish, PublishRefused, StoreFails, FailUpload, WipeSource, WipeParsed,
     InterruptUpload, UploaderDies
<1> QED BY <1>1, DistinctNames DEF Put, Wipe

\* The status of f, where its upload stands and what of it is stored.
FileKnows(f) ==
    /\ upload[f] # "idle" => file[f].status \in {"uploading", "failed"} \cup Revoked
    /\ upload[f] \in {"wipe source", "wipe parsed"} =>
          file[f].status \in {"failed"} \cup Revoked
    /\ file[f].status = "ready" => Source(f) \in objects /\ Parsed(f) \in objects

\* A step of an upload: revoked stays revoked, ready is stored, and a file that is revoked
\* gains an object only when it is late.
LEMMA UploadStep ==
    ASSUME IInv, NEW f \in Files, Uploading(f)
    PROVE /\ FileKnows(f)'
          /\ file[f].status \in Revoked \/ file'[f].status \in Revoked =>
                /\ file'[f].status = file[f].status
                /\ f \notin late' =>
                      /\ f \notin late
                      /\ Source(f) \notin objects => Source(f) \notin objects'
                      /\ Parsed(f) \notin objects => Parsed(f) \notin objects'
<1> DEFINE Safe == /\ FileKnows(f)'
                   /\ file[f].status \in Revoked \/ file'[f].status \in Revoked =>
                         /\ file'[f].status = file[f].status
                         /\ f \notin late' =>
                               /\ f \notin late
                               /\ Source(f) \notin objects => Source(f) \notin objects'
                               /\ Parsed(f) \notin objects => Parsed(f) \notin objects'
<1> SUFFICES Safe
  OBVIOUS
<1>1. FileKnows(f) /\ file \in FileRows /\ upload \in [Files -> Uploads7]
  BY FileTypes DEF IInv, FileInv, UploadKnows, ReadyIsStored, FileKnows
<1>2. CASE ReserveFile(f) \/ BeginUpload(f)
  <2>1. CASE ReserveFile(f)
    BY <1>1, <2>1, StatusSet DEF ReserveFile, FileKnows, FileStatus, Revoked
  <2>2. CASE BeginUpload(f)
    <3>1. file'[f].status = "uploading" /\ upload'[f] = "parse"
      BY <1>1, <2>2, StatusSet DEF BeginUpload, FileStatus, Uploads7
    <3> QED BY <2>2, <3>1 DEF BeginUpload, FileKnows, Revoked
  <2> QED BY <1>2, <2>1, <2>2
<1>3. CASE Expire(f)
  BY <1>1, <1>3 DEF Expire, FileKnows, FileRows, Uploads7, Revoked
<1>4. CASE Unparsable(f) \/ PublishRefused(f) \/ UploaderDies(f)
  BY <1>1, <1>4 DEF Unparsable, PublishRefused, UploaderDies, Uploads, FileKnows, FileRows, Uploads7,
     Revoked
<1>5. CASE StoreFails(f)
  BY <1>1, <1>5 DEF StoreFails, Uploads, FileKnows, FileRows, Uploads7
<1>6. CASE PutSource(f)
  <2>1. /\ upload[f] = "parse" /\ upload'[f] = "parsed" /\ UNCHANGED file
        /\ objects' = objects \cup {Source(f)}
        /\ late' = late \cup Outlived(f)
    BY <1>1, <1>6 DEF PutSource, Uploads, Put, FileRows, Uploads7
  <2> QED BY <1>1, <2>1, DistinctNames DEF FileKnows, Outlived, Revoked
<1>7. CASE PutParsed(f)
  <2>1. /\ upload[f] = "parsed" /\ upload'[f] = "publish" /\ UNCHANGED file
        /\ objects' = objects \cup {Parsed(f)}
        /\ late' = late \cup Outlived(f)
    BY <1>1, <1>7 DEF PutParsed, Uploads, Put, FileRows, Uploads7
  <2> QED BY <1>1, <2>1, DistinctNames DEF FileKnows, Outlived, Revoked
<1>8. CASE Publish(f)
  BY <1>1, <1>8 DEF Publish, Uploads, FileKnows, FileRows, Uploads7, Revoked
<1>9. CASE FailUpload(f)
  <2>1. /\ UNCHANGED <<objects, late>>
        /\ upload'[f] = IF file[f].status = "uploading" THEN "wipe source" ELSE "idle"
        /\ file'[f].status = IF file[f].status = "uploading" THEN "failed"
                             ELSE file[f].status
    BY <1>1, <1>9 DEF FailUpload, Uploads, FileRows, Uploads7
  <2> QED BY <1>1, <2>1 DEF FileKnows, Revoked
<1>10. CASE WipeSource(f) \/ WipeParsed(f)
  <2>1. /\ upload[f] \in {"wipe source", "wipe parsed"}
        /\ upload'[f] \in {"idle", "wipe parsed"}
        /\ UNCHANGED <<file, late>>
        /\ objects' \subseteq objects
    BY <1>1, <1>10 DEF WipeSource, WipeParsed, Uploads, Wipe, FileRows, Uploads7
  <2> QED BY <1>1, <2>1 DEF FileKnows, Revoked
<1>11. CASE InterruptUpload(f)
  <2>1. /\ UNCHANGED <<objects, late>>
        /\ upload'[f] = "idle"
        /\ file'[f].status = IF file[f].status = "uploading" THEN "failed"
                             ELSE file[f].status
    BY <1>1, <1>11 DEF InterruptUpload, FileRows, Uploads7
  <2> QED BY <1>1, <2>1 DEF FileKnows, Revoked
<1> QED
  BY <1>2, <1>3, <1>4, <1>5, <1>6, <1>7, <1>8, <1>9, <1>10, <1>11 DEF Uploading

LEMMA UploadKeepsFileInv ==
    ASSUME IInv, NEW f \in Files, Uploading(f)
    PROVE FileInv'
<1>1. \A g \in Files \ {f} : /\ file'[g] = file[g] /\ upload'[g] = upload[g]
                             /\ g \in late' <=> g \in late
                             /\ Source(g) \in objects' <=> Source(g) \in objects
                             /\ Parsed(g) \in objects' <=> Parsed(g) \in objects
  BY UploadKeepsOthers
<1>2. /\ FileKnows(f)'
      /\ file[f].status \in Revoked \/ file'[f].status \in Revoked =>
            /\ file'[f].status = file[f].status
            /\ f \notin late' =>
                  /\ f \notin late
                  /\ Source(f) \notin objects => Source(f) \notin objects'
                  /\ Parsed(f) \notin objects => Parsed(f) \notin objects'
  BY UploadStep
<1>3. UNCHANGED <<deleter, project>> /\ (Copy \in objects' <=> Copy \in objects)
  BY UploadKeepsProject
<1>4. UploadKnows'
  BY <1>1, <1>2 DEF IInv, FileInv, UploadKnows, FileKnows
<1>5. DeleterKnows'
  <2> SUFFICES ASSUME NEW d \in Deleters, deleter'[d].at # "idle"
               PROVE /\ deleter'[d].file \in Files
                     /\ file'[deleter'[d].file].status \in Revoked
                     /\ deleter'[d].file \notin late' /\ deleter'[d].at \in {"parsed", "row"} =>
                           Source(deleter'[d].file) \notin objects'
                     /\ deleter'[d].file \notin late' /\ deleter'[d].at = "row" =>
                           Parsed(deleter'[d].file) \notin objects'
    BY DEF DeleterKnows
  <2> DEFINE g == deleter[d].file
  <2>1. deleter' = deleter
    BY <1>3
  <2>2. /\ g \in Files /\ file[g].status \in Revoked
        /\ g \notin late /\ deleter[d].at \in {"parsed", "row"} => Source(g) \notin objects
        /\ g \notin late /\ deleter[d].at = "row" => Parsed(g) \notin objects
    BY <2>1 DEF IInv, FileInv, DeleterKnows
  <2> HIDE DEF g
  <2>3. /\ file'[g].status \in Revoked
        /\ g \notin late' => /\ g \notin late
                             /\ Source(g) \notin objects => Source(g) \notin objects'
                             /\ Parsed(g) \notin objects => Parsed(g) \notin objects'
    BY <1>1, <1>2, <2>2
  <2> QED BY <2>1, <2>2, <2>3 DEF g
<1>6. SaverKnows'
  BY <1>3 DEF IInv, FileInv, SaverKnows, project
<1>7. ReadyIsStored'
  BY <1>1, <1>2, <1>3 DEF IInv, FileInv, ReadyIsStored, FileKnows, project
<1>8. DeletedInTimeIsGone'
  BY <1>1, <1>2 DEF IInv, FileInv, DeletedInTimeIsGone, Revoked
<1> QED BY <1>4, <1>5, <1>6, <1>7, <1>8 DEF FileInv

\* A deletion only revokes, and takes away the objects of a file it has revoked.
LEMMA DeletingStep ==
    ASSUME IInv, NEW d \in Deleters, Deleting(d)
    PROVE /\ UNCHANGED <<upload, late, project>>
          /\ \A f \in Files : file'[f].status = file[f].status \/ file'[f].status \in Revoked
          /\ \A f \in Files : file[f].status \in Revoked => file'[f].status \in Revoked
          /\ objects' \subseteq objects
          /\ \A f \in Files : Source(f) \in objects \ objects' \/ Parsed(f) \in objects \ objects'
                => file[f].status \in Revoked
          /\ Copy \in objects' <=> Copy \in objects
<1>1. file \in FileRows /\ deleter[d].file \in Files \cup {NoFile}
  BY FileTypes, DeleterTypes DEF IInv
<1>2. deleter[d].at # "idle" => /\ deleter[d].file \in Files
                                /\ file[deleter[d].file].status \in Revoked
  BY DEF IInv, FileInv, DeleterKnows
<1>3. ASSUME NEW f \in Files, Revoke(d, f)
      PROVE /\ UNCHANGED <<upload, late, project, objects>>
            /\ file'[f].status \in Revoked
            /\ \A g \in Files \ {f} : file'[g] = file[g]
  BY <1>1, <1>3, StatusSet DEF Revoke, FileStatus, Revoked
<1>4. CASE DeleteSource(d) \/ DeleteParsed(d)
  BY <1>2, <1>4, DistinctNames DEF DeleteSource, DeleteParsed, Deletes, Wipe
<1>5. CASE DeleteRow(d)
  <2>1. deleter[d].file \in Files
    BY <1>2, <1>5 DEF DeleteRow, Deletes
  <2>2. /\ UNCHANGED <<upload, late, project, objects>>
        /\ file'[deleter[d].file].status \in Revoked
        /\ \A g \in Files \ {deleter[d].file} : file'[g] = file[g]
    BY <1>1, <1>5, <2>1, StatusSet DEF DeleteRow, FileStatus, Revoked
  <2> QED BY <2>2
<1>6. CASE DeleteFails(d)
  BY <1>6 DEF DeleteFails
<1>7. ASSUME NEW f \in Files, Revoke(d, f)
      PROVE /\ UNCHANGED <<upload, late, project>>
            /\ \A g \in Files : file'[g].status = file[g].status \/ file'[g].status \in Revoked
            /\ \A g \in Files : file[g].status \in Revoked => file'[g].status \in Revoked
            /\ objects' \subseteq objects
            /\ \A g \in Files : Source(g) \in objects \ objects' \/ Parsed(g) \in objects \ objects'
                  => file[g].status \in Revoked
            /\ Copy \in objects' <=> Copy \in objects
  BY <1>3, <1>7
<1> QED BY <1>4, <1>5, <1>6, <1>7 DEF Deleting

LEMMA DeletingKeepsFileInv ==
    ASSUME IInv, NEW d \in Deleters, Deleting(d)
    PROVE FileInv'
<1>1. /\ UNCHANGED <<upload, late, project>>
      /\ \A f \in Files : file'[f].status = file[f].status \/ file'[f].status \in Revoked
      /\ \A f \in Files : file[f].status \in Revoked => file'[f].status \in Revoked
      /\ objects' \subseteq objects
      /\ \A f \in Files : Source(f) \in objects \ objects' \/ Parsed(f) \in objects \ objects'
            => file[f].status \in Revoked
      /\ Copy \in objects' <=> Copy \in objects
  BY DeletingStep
<1>2. UploadKnows'
  BY <1>1 DEF IInv, FileInv, UploadKnows
<1>3. SaverKnows'
  BY <1>1 DEF IInv, FileInv, SaverKnows, project
<1>4. ReadyIsStored'
  <2>1. \A f \in Files : file'[f].status = "ready" =>
           file[f].status = "ready" /\ file[f].status \notin Revoked
    BY <1>1 DEF Revoked
  <2> QED BY <1>1, <2>1 DEF IInv, FileInv, ReadyIsStored, project
<1>5. file \in FileRows
  BY FileTypes DEF IInv
<1>6. deleter \in [Deleters -> [at : {"idle", "source", "parsed", "row"},
                                file : Files \cup {NoFile}]]
  BY DeleterTypes DEF IInv
<1>7. DeleterKnows'
  <2>1. ASSUME NEW e \in Deleters \ {d} PROVE deleter'[e] = deleter[e]
    BY <1>6, <2>1 DEF Deleting, Revoke, DeleteSource, DeleteParsed, DeleteRow, DeleteFails,
       Deletes
  <2>2. ASSUME NEW e \in Deleters \ {d}, deleter'[e].at # "idle"
        PROVE /\ deleter'[e].file \in Files
              /\ file'[deleter'[e].file].status \in Revoked
              /\ deleter'[e].file \notin late' /\ deleter'[e].at \in {"parsed", "row"} =>
                    Source(deleter'[e].file) \notin objects'
              /\ deleter'[e].file \notin late' /\ deleter'[e].at = "row" =>
                    Parsed(deleter'[e].file) \notin objects'
    BY <1>1, <2>1, <2>2 DEF IInv, FileInv, DeleterKnows
  <2>3. ASSUME deleter'[d].at # "idle"
        PROVE /\ deleter'[d].file \in Files
              /\ file'[deleter'[d].file].status \in Revoked
              /\ deleter'[d].file \notin late' /\ deleter'[d].at \in {"parsed", "row"} =>
                    Source(deleter'[d].file) \notin objects'
              /\ deleter'[d].file \notin late' /\ deleter'[d].at = "row" =>
                    Parsed(deleter'[d].file) \notin objects'
    <3>1. ASSUME NEW f \in Files, Revoke(d, f)
          PROVE /\ deleter'[d].at = "source" /\ deleter'[d].file = f
                /\ file'[f].status \in Revoked
      BY <1>5, <1>6, <3>1, StatusSet DEF Revoke, FileStatus, Revoked
    <3>2. CASE \E f \in Files : Revoke(d, f)
      <4>1. PICK f \in Files : Revoke(d, f)
        BY <3>2
      <4>2. /\ deleter'[d].at = "source" /\ deleter'[d].file = f
            /\ file'[f].status \in Revoked
        BY <3>1, <4>1
      <4> QED BY <4>2
    <3>3. deleter[d].at # "idle" => /\ deleter[d].file \in Files
                                    /\ file[deleter[d].file].status \in Revoked
      BY DEF IInv, FileInv, DeleterKnows
    <3>4. CASE DeleteSource(d)
      <4>1. /\ deleter[d].at = "source" /\ deleter'[d] = [deleter[d] EXCEPT !.at = "parsed"]
            /\ objects' = objects \ {Source(deleter[d].file)}
        BY <1>6, <3>4 DEF DeleteSource, Deletes, Wipe
      <4>2. deleter'[d].at = "parsed" /\ deleter'[d].file = deleter[d].file
        BY <1>6, <4>1
      <4> QED BY <1>1, <3>3, <4>1, <4>2
    <3>5. CASE DeleteParsed(d)
      <4>1. /\ deleter[d].at = "parsed" /\ deleter'[d] = [deleter[d] EXCEPT !.at = "row"]
            /\ objects' = objects \ {Parsed(deleter[d].file)}
        BY <1>6, <3>5 DEF DeleteParsed, Deletes, Wipe
      <4>2. deleter'[d].at = "row" /\ deleter'[d].file = deleter[d].file
        BY <1>6, <4>1
      <4>3. deleter[d].file \notin late => Source(deleter[d].file) \notin objects
        BY <4>1 DEF IInv, FileInv, DeleterKnows
      <4> QED BY <1>1, <3>3, <4>1, <4>2, <4>3
    <3>6. CASE DeleteRow(d) \/ DeleteFails(d)
      <4>1. deleter'[d].at = "idle"
        BY <1>6, <3>6 DEF DeleteRow, DeleteFails, Deletes
      <4> QED BY <2>3, <4>1
    <3> QED BY <3>2, <3>4, <3>5, <3>6 DEF Deleting
  <2> QED BY <2>2, <2>3 DEF DeleterKnows
<1>8. DeletedInTimeIsGone'
  <2>1. ASSUME NEW f \in Files, file'[f].status = "deleted", f \notin late'
        PROVE Source(f) \notin objects' /\ Parsed(f) \notin objects'
    <3>1. CASE file[f].status = "deleted"
      BY <1>1, <2>1, <3>1 DEF IInv, FileInv, DeletedInTimeIsGone
    <3>2. CASE file[f].status # "deleted"
      <4>1. \A g \in Files : ~Revoke(d, g)
        BY <1>5, <2>1, <3>2, StatusSet DEF Revoke, FileStatus
      <4>2. DeleteRow(d) /\ f = deleter[d].file
        BY <1>5, <2>1, <3>2, <4>1
        DEF Deleting, DeleteSource, DeleteParsed, DeleteRow, DeleteFails, FileRows
      <4>3. deleter[d].at = "row" /\ UNCHANGED <<objects, late>>
        BY <4>2 DEF DeleteRow, Deletes
      <4> QED BY <2>1, <4>2, <4>3 DEF IInv, FileInv, DeleterKnows
    <3> QED BY <3>1, <3>2
  <2> QED BY <2>1 DEF DeletedInTimeIsGone
<1> QED BY <1>2, <1>3, <1>4, <1>7, <1>8 DEF FileInv

LEMMA SavingKeepsFileInv ==
    ASSUME IInv, NEW s \in Savers, Saving(s)
    PROVE FileInv'
<1>1. /\ UNCHANGED files
      /\ \A f : /\ Source(f) \in objects' <=> Source(f) \in objects
                /\ Parsed(f) \in objects' <=> Parsed(f) \in objects
      /\ Copy \in objects => Copy \in objects'
  BY DistinctNames DEF Saving, ReserveCopy, ReadSource, PutCopy, CopyReady, SaveFails, Put
<1>2. saver \in [Savers -> {"idle", "read", "put", "ready"}]
      /\ copy \in [status : {"none", "reserved", "ready"}, of : Files \cup {NoFile}]
  BY DeleterTypes DEF IInv
<1>3. UploadKnows' /\ DeletedInTimeIsGone'
  BY <1>1 DEF IInv, FileInv, UploadKnows, DeletedInTimeIsGone, files
<1>4. DeleterKnows'
  BY <1>1 DEF IInv, FileInv, DeleterKnows, files
<1>5. SaverKnows'
  <2>1. \A t \in Savers : saver'[t] = "ready" => saver[t] = "ready" \/ Copy \in objects'
    BY <1>2 DEF Saving, ReserveCopy, ReadSource, PutCopy, CopyReady, SaveFails, Saves, Put
  <2> QED BY <1>1, <2>1 DEF IInv, FileInv, SaverKnows
<1>6. copy'.status = "ready" => copy.status = "ready" \/ saver[s] = "ready"
  BY <1>2 DEF Saving, ReserveCopy, ReadSource, PutCopy, CopyReady, SaveFails, Saves
<1>7. ReadyIsStored'
  BY <1>1, <1>6 DEF IInv, FileInv, ReadyIsStored, SaverKnows, files
<1> QED BY <1>3, <1>4, <1>5, <1>7 DEF FileInv

-----------------------------------------------------------------------------
(* Bodies *)

LEMMA FileStepsKeepBodyInv == ASSUME IInv, FileSteps PROVE BodyInv'
<1>1. /\ UNCHANGED <<row, writer, sweep>>
      /\ \A r, b : /\ Body(r, b) \in objects' <=> Body(r, b) \in objects
                   /\ Receipt(r, b) \in objects' <=> Receipt(r, b) \in objects
  BY FileStepsKeep DEF bodies
<1>2. WriterKnows'
  BY <1>1 DEF IInv, BodyInv, WriterKnows
<1>3. SweepKnows'
  BY <1>1 DEF IInv, BodyInv, SweepKnows
<1>4. BodyReadable' /\ BodyHasReceipt'
  BY <1>1 DEF IInv, BodyInv, BodyReadable, BodyHasReceipt
<1> QED BY <1>2, <1>3, <1>4 DEF BodyInv

\* What a transaction knows, of one session.
Knows(w) ==
    writer[w].at # "idle" =>
       /\ writer[w].record \in Records /\ writer[w].body \in Bodies
       /\ sweep.at = "off"
       /\ writer[w].at \in {"put", "commit"} =>
             Receipt(writer[w].record, writer[w].body) \in objects
       /\ writer[w].at = "commit" => Body(writer[w].record, writer[w].body) \in objects

\* Transactions add to the store; a commit refers to what its session has put.
LEMMA PersistingKeepsBodyInv ==
    ASSUME IInv, NEW w \in Writers, Persisting(w)
    PROVE BodyInv'
<1> DEFINE r == writer[w].record
           b == writer[w].body
<1>1. /\ row \in [Records -> Bodies \cup {"none", "legacy"}]
      /\ writer \in [Writers -> [at : {"idle", "receipt", "put", "commit"},
                         record : Records \cup {NoRecord},
                         body : Bodies \cup {NoBody}, binds : Files \cup {NoFile}]]
  BY BodyTypes DEF IInv
<1>2. /\ objects \subseteq objects'
      /\ \A v \in Writers \ {w} : writer'[v] = writer[v]
      /\ UNCHANGED sweep
  BY <1>1 DEF Persisting, WriteTurn, WriteAgain, Writing, PutReceipt, PutBody, CommitBody,
     WriteFails, AnswerLost, Writes, Put
<1>3. \A v \in Writers : Knows(v)
  BY DEF IInv, BodyInv, WriterKnows, Knows
<1>4. sweep.at = "off"
  <2>1. \A q \in Records, c \in Bodies, f \in Files \cup {NoFile} :
           WriteTurn(w, q, c, f) \/ WriteAgain(w, q, c) => sweep.at = "off"
    BY DEF WriteTurn, WriteAgain, Writing
  <2>2. writer[w].at # "idle" => sweep.at = "off"
    BY <1>3 DEF Knows
  <2>3. PutReceipt(w) \/ PutBody(w) \/ CommitBody(w) \/ WriteFails(w) \/ AnswerLost(w)
           => writer[w].at # "idle"
    BY DEF PutReceipt, PutBody, CommitBody, WriteFails, AnswerLost, Writes
  <2>4. \A q \in Records, c \in Bodies : WriteAgain(w, q, c) => sweep.at = "off"
    BY DEF WriteAgain, Writing
  <2> QED BY <2>1, <2>2, <2>3, <2>4 DEF Persisting
<1>5. ASSUME NEW q \in Records, NEW c \in Bodies, NEW f, Writing(w, q, c, f)
      PROVE /\ UNCHANGED <<row, objects>>
            /\ writer'[w].at = "receipt" /\ writer'[w].record = q /\ writer'[w].body = c
  BY <1>1, <1>5 DEF Writing
<1>6. ASSUME NEW q \in Records, NEW c \in Bodies, NEW f, Writing(w, q, c, f)
      PROVE UNCHANGED <<row, objects>> /\ Knows(w)'
  <2>1. /\ UNCHANGED <<row, objects>>
        /\ writer'[w].at = "receipt" /\ writer'[w].record = q /\ writer'[w].body = c
    BY <1>5, <1>6
  <2> QED BY <1>2, <1>4, <2>1 DEF Knows
<1>7. ASSUME writer[w].at # "idle" PROVE r \in Records /\ b \in Bodies
  BY <1>3, <1>7 DEF Knows
<1>8. ASSUME PutReceipt(w)
      PROVE /\ UNCHANGED row /\ objects' = objects \cup {Receipt(r, b)}
            /\ writer[w].at = "receipt"
            /\ writer'[w].at = "put" /\ writer'[w].record = r /\ writer'[w].body = b
  BY <1>1, <1>8 DEF PutReceipt, Writes, Put
<1>9. ASSUME PutBody(w)
      PROVE /\ UNCHANGED row /\ objects' = objects \cup {Body(r, b)}
            /\ writer[w].at = "put"
            /\ writer'[w].at = "commit" /\ writer'[w].record = r /\ writer'[w].body = b
  BY <1>1, <1>9 DEF PutBody, Writes, Put
<1>10. ASSUME CommitBody(w) \/ AnswerLost(w)
       PROVE /\ row' = [row EXCEPT ![r] = b] /\ UNCHANGED objects
             /\ writer[w].at = "commit" /\ writer'[w].at = "idle"
  BY <1>1, <1>10 DEF CommitBody, AnswerLost, Committed, Writes, Idle
<1>11. ASSUME WriteFails(w)
       PROVE UNCHANGED <<row, objects>> /\ writer'[w].at = "idle"
  BY <1>1, <1>11 DEF WriteFails, Writes, Idle
<1>12. Knows(w)'
  <2>1. PutReceipt(w) => Knows(w)'
    BY <1>2, <1>4, <1>7, <1>8 DEF Knows
  <2>2. PutBody(w) => Knows(w)'
    BY <1>2, <1>3, <1>4, <1>7, <1>9 DEF Knows
  <2>3. CommitBody(w) \/ AnswerLost(w) \/ WriteFails(w) => Knows(w)'
    BY <1>10, <1>11 DEF Knows
  <2> QED BY <1>6, <2>1, <2>2, <2>3 DEF Persisting, WriteTurn, WriteAgain
<1>13. WriterKnows'
  BY <1>2, <1>3, <1>12 DEF Knows, WriterKnows
<1>14. SweepKnows'
  BY <1>2, <1>4 DEF SweepKnows
<1>15. BodyReadable'
  <2>1. CASE UNCHANGED row
    BY <1>2, <2>1 DEF IInv, BodyInv, BodyReadable
  <2>2. CASE CommitBody(w) \/ AnswerLost(w)
    <3>1. Body(r, b) \in objects /\ r \in Records
      BY <1>3, <1>10, <2>2 DEF Knows
    <3>2. \A q \in Records : row'[q] = IF q = r THEN b ELSE row[q]
      BY <1>1, <1>10, <2>2
    <3> QED BY <1>2, <3>1, <3>2 DEF IInv, BodyInv, BodyReadable
  <2> QED BY <1>6, <1>8, <1>9, <1>11, <2>1, <2>2 DEF Persisting, WriteTurn, WriteAgain
<1>16. BodyHasReceipt'
  <2>1. CASE UNCHANGED objects
    BY <2>1 DEF IInv, BodyInv, BodyHasReceipt
  <2>2. CASE PutReceipt(w)
    BY <1>8, <2>2, DistinctNames DEF IInv, BodyInv, BodyHasReceipt
  <2>3. CASE PutBody(w)
    <3>1. Receipt(r, b) \in objects
      BY <1>3, <1>9, <2>3 DEF Knows
    <3> QED BY <1>9, <2>3, <3>1, DistinctNames DEF IInv, BodyInv, BodyHasReceipt
  <2> QED BY <1>6, <1>10, <1>11, <2>1, <2>2, <2>3 DEF Persisting, WriteTurn, WriteAgain
<1> QED BY <1>13, <1>14, <1>15, <1>16 DEF BodyInv

\* The maintenance deletes what nothing refers to, the receipt after the body.
LEMMA MaintainingKeepsBodyInv == ASSUME IInv, Maintaining PROVE BodyInv'
<1>1. /\ row \in [Records -> Bodies \cup {"none", "legacy"}]
      /\ sweep \in [at : {"off", "on", "object", "receipt"},
                    record : Records \cup {NoRecord}, body : Bodies \cup {NoBody}]
  BY BodyTypes DEF IInv
<1>2. UNCHANGED writer /\ \A w \in Writers : writer[w].at = "idle"
  BY DEF IInv, BodyInv, WriterKnows, Maintaining, StopWriters, StartWriters, DeleteBody,
     DeleteReceipt, SweepFails, Reconcile, Restore
<1>3. WriterKnows'
  BY <1>2 DEF WriterKnows
<1>4. CASE StopWriters \/ StartWriters \/ SweepFails
  <2>1. UNCHANGED <<row, objects>> /\ sweep'.at \in {"on", "off"}
    BY <1>4 DEF StopWriters, StartWriters, SweepFails, NoSweep
  <2> QED BY <1>3, <2>1 DEF IInv, BodyInv, SweepKnows, BodyReadable, BodyHasReceipt
<1>5. ASSUME NEW r \in Records, NEW b \in Bodies, Reconcile(r, b) PROVE BodyInv'
  <2>1. /\ UNCHANGED <<row, objects>> /\ row[r] # b
        /\ sweep'.at = "object" /\ sweep'.record = r /\ sweep'.body = b
    BY <1>5 DEF Reconcile
  <2> QED BY <1>3, <2>1 DEF IInv, BodyInv, SweepKnows, BodyReadable, BodyHasReceipt
<1>6. CASE DeleteBody
  <2>1. /\ UNCHANGED row /\ sweep.at = "object" /\ sweep'.at = "receipt"
        /\ sweep'.record = sweep.record /\ sweep'.body = sweep.body
        /\ objects' = objects \ {Body(sweep.record, sweep.body)}
    BY <1>1, <1>6 DEF DeleteBody, Wipe
  <2>2. /\ sweep.record \in Records /\ sweep.body \in Bodies
        /\ row[sweep.record] # sweep.body
    BY <2>1 DEF IInv, BodyInv, SweepKnows
  <2>3. SweepKnows'
    BY <2>1, <2>2 DEF SweepKnows
  <2>4. BodyReadable'
    BY <2>1, <2>2, DistinctNames DEF IInv, BodyInv, BodyReadable
  <2>5. BodyHasReceipt'
    BY <2>1, DistinctNames DEF IInv, BodyInv, BodyHasReceipt
  <2> QED BY <1>3, <2>3, <2>4, <2>5 DEF BodyInv
<1>7. CASE DeleteReceipt
  <2>1. /\ UNCHANGED row /\ sweep.at = "receipt" /\ sweep'.at = "on"
        /\ objects' = objects \ {Receipt(sweep.record, sweep.body)}
    BY <1>7 DEF DeleteReceipt, Wipe, NoSweep
  <2>2. Body(sweep.record, sweep.body) \notin objects
    BY <2>1 DEF IInv, BodyInv, SweepKnows
  <2>3. SweepKnows'
    BY <2>1 DEF SweepKnows
  <2>4. BodyReadable'
    BY <2>1, DistinctNames DEF IInv, BodyInv, BodyReadable
  <2>5. BodyHasReceipt'
    BY <2>1, <2>2, DistinctNames DEF IInv, BodyInv, BodyHasReceipt
  <2> QED BY <1>3, <2>3, <2>4, <2>5 DEF BodyInv
<1>8. ASSUME NEW r \in Records, Restore(r) PROVE BodyInv'
  <2>1. /\ UNCHANGED <<objects, sweep>> /\ sweep.at = "on"
        /\ \A q \in Records : row'[q] = IF q = r THEN "legacy" ELSE row[q]
    BY <1>1, <1>8 DEF Restore
  <2> QED BY <1>3, <2>1, StoredContentAssumption
          DEF IInv, BodyInv, SweepKnows, BodyReadable, BodyHasReceipt
<1> QED BY <1>4, <1>5, <1>6, <1>7, <1>8 DEF Maintaining

-----------------------------------------------------------------------------
(* Type correctness *)

LEMMA NamesInUse ==
    /\ \A f \in Files : Source(f) \in Names /\ Parsed(f) \in Names
    /\ Copy \in Names
    /\ \A r \in Records, b \in Bodies : Body(r, b) \in Names /\ Receipt(r, b) \in Names
BY DEF Names

LEMMA FaultType == ASSUME faults \in 0..MaxFaults, Fault PROVE faults' \in 0..MaxFaults
BY StoredContentAssumption DEF Fault

LEMMA UploadType == ASSUME IInv, NEW f \in Files, Uploading(f) PROVE TypeOK'
<1>1. TypeOK /\ file \in FileRows /\ upload \in [Files -> Uploads7]
  BY FileTypes DEF IInv
<1>2. UNCHANGED <<deleter, project, bodies>>
  BY UploadKeepsProject, FileStepsKeep DEF FileSteps
<1>3. objects' \subseteq Names
  <2>1. \/ UNCHANGED objects
        \/ \E n \in {Source(f), Parsed(f)} : Put(n) \/ Wipe(n)
    BY DEF Uploading, ReserveFile, Expire, BeginUpload, Unparsable, PutSource,
       PutParsed, Publish, PublishRefused, StoreFails, FailUpload, WipeSource, WipeParsed,
       InterruptUpload, UploaderDies
  <2>2. objects \subseteq Names
    BY <1>1 DEF TypeOK
  <2> QED BY <2>1, <2>2, NamesInUse DEF Put, Wipe
<1>4. upload' \in [Files -> Uploads7]
  <2>1. ASSUME NEW at, NEW next \in Uploads7, Uploads(f, at, next)
        PROVE upload' \in [Files -> Uploads7]
    BY <1>1, <2>1 DEF Uploads
  <2>2. CASE ReserveFile(f) \/ Expire(f)
    BY <1>1, <2>2 DEF ReserveFile, Expire
  <2>3. CASE BeginUpload(f) \/ InterruptUpload(f) \/ UploaderDies(f)
    BY <1>1, <2>3 DEF BeginUpload, InterruptUpload, UploaderDies, Uploads7
  <2>4. CASE Unparsable(f) \/ PutSource(f) \/ PutParsed(f) \/ Publish(f)
             \/ PublishRefused(f) \/ WipeSource(f) \/ WipeParsed(f)
    <3>1. \E at, next \in Uploads7 : Uploads(f, at, next)
      BY <2>4 DEF Unparsable, PutSource, PutParsed, Publish, PublishRefused, WipeSource,
         WipeParsed, Uploads7
    <3> QED BY <2>1, <3>1
  <2>5. CASE StoreFails(f)
    BY <1>1, <2>5 DEF StoreFails, Uploads, Uploads7
  <2>6. CASE FailUpload(f)
    BY <1>1, <2>6 DEF FailUpload, Uploads, Uploads7
  <2> QED BY <2>2, <2>3, <2>4, <2>5, <2>6 DEF Uploading
<1>5. file' \in FileRows
  <2>1. CASE UNCHANGED file
    BY <1>1, <2>1
  <2>2. CASE ReserveFile(f) \/ BeginUpload(f)
    BY <1>1, <2>2, StatusSet DEF ReserveFile, BeginUpload, FileStatus
  <2>3. CASE Expire(f)
    BY <1>1, <2>3 DEF Expire, FileRows
  <2>4. CASE Publish(f)
    <3>1. PICK n \in ParsedSizes :
             file' = [file EXCEPT ![f].status = "ready", ![f].parsed = n]
      BY <2>4 DEF Publish
    <3>2. n \in 0..MaxParsed /\ "ready" \in FileStatus
      BY StoredContentAssumption DEF FileStatus
    <3> QED BY <1>1, <3>1, <3>2 DEF FileRows
  <2>5. CASE FailUpload(f) \/ InterruptUpload(f)
    <3> DEFINE s == IF file[f].status = "uploading" THEN "failed" ELSE file[f].status
    <3>1. s \in FileStatus
      BY <1>1 DEF FileRows, FileStatus
    <3>2. file' = [file EXCEPT ![f].status = s]
      BY <2>5 DEF FailUpload, InterruptUpload
    <3> HIDE DEF s
    <3> QED BY <1>1, <3>1, <3>2, StatusSet
  <2> QED BY <2>1, <2>2, <2>3, <2>4, <2>5
          DEF Uploading, Unparsable, PutSource, PutParsed, PublishRefused, StoreFails,
              WipeSource, WipeParsed, UploaderDies
<1>6. late' \subseteq Files
  <2>1. late \subseteq Files /\ Outlived(f) \subseteq Files
    BY <1>1 DEF TypeOK, Outlived
  <2> QED BY <2>1 DEF Uploading, ReserveFile, Expire, BeginUpload, Unparsable, PutSource,
       PutParsed, Publish, PublishRefused, StoreFails, FailUpload, WipeSource, WipeParsed,
       InterruptUpload, UploaderDies
<1>7. faults' \in 0..MaxFaults
  <2>1. faults \in 0..MaxFaults /\ (faults' = faults \/ Fault)
    BY <1>1 DEF TypeOK, Uploading, ReserveFile, Expire, BeginUpload, Unparsable, PutSource,
       PutParsed, Publish, PublishRefused, StoreFails, FailUpload, WipeSource, WipeParsed,
       InterruptUpload, UploaderDies
  <2> QED BY <2>1, FaultType
<1> QED BY <1>1, <1>2, <1>3, <1>4, <1>5, <1>6, <1>7
        DEF TypeOK, FileRows, Uploads7, project, bodies

LEMMA DeletingType == ASSUME IInv, NEW d \in Deleters, Deleting(d) PROVE TypeOK'
<1>1. TypeOK /\ file \in FileRows
  BY FileTypes DEF IInv
<1>2. UNCHANGED <<upload, late, project, bodies>> /\ objects' \subseteq objects
  BY DeletingStep, FileStepsKeep DEF FileSteps
<1>3. deleter \in [Deleters -> [at : {"idle", "source", "parsed", "row"},
                                file : Files \cup {NoFile}]]
  BY <1>1, DeleterTypes
<1>4. deleter' \in [Deleters -> [at : {"idle", "source", "parsed", "row"},
                                 file : Files \cup {NoFile}]]
  <2>1. ASSUME NEW f \in Files, Revoke(d, f)
        PROVE deleter' \in [Deleters -> [at : {"idle", "source", "parsed", "row"},
                                         file : Files \cup {NoFile}]]
    BY <1>3, <2>1 DEF Revoke
  <2>2. ASSUME NEW at, NEW next \in {"idle", "parsed", "row"}, Deletes(d, at, next)
        PROVE deleter' \in [Deleters -> [at : {"idle", "source", "parsed", "row"},
                                         file : Files \cup {NoFile}]]
    <3>1. CASE next = "idle"
      BY <1>3, <2>2, <3>1 DEF Deletes
    <3>2. CASE next # "idle"
      <4>1. deleter' = [deleter EXCEPT ![d] = [deleter[d] EXCEPT !.at = next]]
        BY <2>2, <3>2 DEF Deletes
      <4>2. [deleter[d] EXCEPT !.at = next] \in [at : {"idle", "source", "parsed", "row"},
                                                 file : Files \cup {NoFile}]
        BY <1>3
      <4> QED BY <1>3, <4>1, <4>2
    <3> QED BY <3>1, <3>2
  <2>3. CASE DeleteSource(d) \/ DeleteParsed(d) \/ DeleteRow(d) \/ DeleteFails(d)
    <3>1. \E at, next \in {"idle", "source", "parsed", "row"} :
             next # "source" /\ Deletes(d, at, next)
      BY <2>3 DEF DeleteSource, DeleteParsed, DeleteRow, DeleteFails
    <3> QED BY <2>2, <3>1
  <2> QED BY <2>1, <2>3 DEF Deleting
<1>5. file' \in FileRows
  <2>1. deleter[d].at # "idle" => deleter[d].file \in Files
    BY DEF IInv, FileInv, DeleterKnows
  <2>2. ASSUME NEW f \in Files, Revoke(d, f) PROVE file' \in FileRows
    BY <1>1, <2>2, StatusSet DEF Revoke, FileStatus
  <2>3. CASE DeleteRow(d)
    BY <1>1, <2>1, <2>3, StatusSet DEF DeleteRow, Deletes, FileStatus
  <2>4. CASE DeleteSource(d) \/ DeleteParsed(d) \/ DeleteFails(d)
    BY <1>1, <2>4 DEF DeleteSource, DeleteParsed, DeleteFails
  <2> QED BY <2>2, <2>3, <2>4 DEF Deleting
<1>6. faults' \in 0..MaxFaults
  <2>1. faults \in 0..MaxFaults /\ (faults' = faults \/ Fault)
    BY <1>1 DEF TypeOK, Deleting, Revoke, DeleteSource, DeleteParsed, DeleteRow, DeleteFails
  <2> QED BY <2>1, FaultType
<1> QED BY <1>1, <1>2, <1>4, <1>5, <1>6 DEF TypeOK, FileRows, project, bodies

LEMMA SavingType == ASSUME IInv, NEW s \in Savers, Saving(s) PROVE TypeOK'
<1>1. TypeOK
  BY DEF IInv
<1>2. UNCHANGED <<files, bodies>> /\ objects' \subseteq Names
  <2>1. objects \subseteq Names
    BY <1>1 DEF TypeOK
  <2> QED BY <2>1, NamesInUse
          DEF Saving, ReserveCopy, ReadSource, PutCopy, CopyReady, SaveFails, Put
<1>3. /\ copy \in [status : {"none", "reserved", "ready"}, of : Files \cup {NoFile}]
      /\ saver \in [Savers -> {"idle", "read", "put", "ready"}]
  BY <1>1, DeleterTypes
<1>4. copy' \in [status : {"none", "reserved", "ready"}, of : Files \cup {NoFile}]
  BY <1>3 DEF Saving, ReserveCopy, ReadSource, PutCopy, CopyReady, SaveFails
<1>5. saver' \in [Savers -> {"idle", "read", "put", "ready"}]
  BY <1>3 DEF Saving, ReserveCopy, ReadSource, PutCopy, CopyReady, SaveFails, Saves
<1>6. faults' \in 0..MaxFaults
  <2>1. faults \in 0..MaxFaults /\ (faults' = faults \/ Fault)
    BY <1>1 DEF TypeOK, Saving, ReserveCopy, ReadSource, PutCopy, CopyReady, SaveFails
  <2> QED BY <2>1, FaultType
<1> QED BY <1>1, <1>2, <1>4, <1>5, <1>6 DEF TypeOK, files, bodies

WriterRows == [Writers -> [at : {"idle", "receipt", "put", "commit"},
                           record : Records \cup {NoRecord},
                           body : Bodies \cup {NoBody}, binds : Files \cup {NoFile}]]

LEMMA PersistingType == ASSUME IInv, NEW w \in Writers, Persisting(w) PROVE TypeOK'
<1>1. TypeOK /\ file \in FileRows /\ row \in [Records -> Bodies \cup {"none", "legacy"}]
      /\ writer \in WriterRows
  BY FileTypes, BodyTypes DEF IInv, WriterRows
<1>2. UNCHANGED <<upload, late, deleter, project, sweep>>
  BY <1>1, BodyStepsKeep DEF BodySteps, Persisting, WriteTurn, WriteAgain, Writing,
     PutReceipt, PutBody, CommitBody, WriteFails, AnswerLost
<1>3. writer[w].at # "idle" => writer[w].record \in Records /\ writer[w].body \in Bodies
  BY DEF IInv, BodyInv, WriterKnows
<1>4. ASSUME NEW q \in Records, NEW c \in Bodies, NEW f \in Files \cup {NoFile},
             Writing(w, q, c, f)
      PROVE /\ UNCHANGED <<objects, files, row, faults>>
            /\ writer' \in WriterRows
            /\ writes' \in 0..MaxWrites
  <2>1. writes \in 0..MaxWrites
    BY <1>1 DEF TypeOK
  <2> QED BY <1>1, <1>4, <2>1, StoredContentAssumption DEF Writing, WriterRows
<1>5. ASSUME NEW q \in Records, NEW c \in Bodies, NEW f \in Files \cup {NoFile},
             Writing(w, q, c, f)
      PROVE TypeOK'
  BY <1>1, <1>2, <1>4, <1>5 DEF TypeOK, WriterRows, files, project
<1>6. ASSUME NEW at, NEW next \in {"idle", "put", "commit"}, Writes(w, at, next)
      PROVE writer' \in WriterRows
  <2>1. CASE next = "idle"
    BY <1>1, <1>6, <2>1 DEF Writes, WriterRows, Idle
  <2>2. CASE next # "idle"
    <3>1. writer' = [writer EXCEPT ![w] = [writer[w] EXCEPT !.at = next]]
      BY <1>6, <2>2 DEF Writes
    <3>2. [writer[w] EXCEPT !.at = next] \in
             [at : {"idle", "receipt", "put", "commit"}, record : Records \cup {NoRecord},
              body : Bodies \cup {NoBody}, binds : Files \cup {NoFile}]
      BY <1>1 DEF WriterRows
    <3> QED BY <1>1, <3>1, <3>2 DEF WriterRows
  <2> QED BY <2>1, <2>2
<1>7. CASE PutReceipt(w) \/ PutBody(w) \/ CommitBody(w) \/ WriteFails(w) \/ AnswerLost(w)
  <2>1. writer' \in WriterRows
    <3>1. \E at, next \in {"idle", "receipt", "put", "commit"} :
             next # "receipt" /\ Writes(w, at, next)
      BY <1>7 DEF PutReceipt, PutBody, CommitBody, WriteFails, AnswerLost
    <3> QED BY <1>6, <3>1
  <2>2. writer[w].record \in Records /\ writer[w].body \in Bodies
    BY <1>3, <1>7 DEF PutReceipt, PutBody, CommitBody, WriteFails, AnswerLost, Writes
  <2>3. objects' \subseteq Names
    <3>1. objects \subseteq Names
      BY <1>1 DEF TypeOK
    <3> QED BY <1>7, <2>2, <3>1, NamesInUse
            DEF PutReceipt, PutBody, CommitBody, WriteFails, AnswerLost, Put
  <2>4. ASSUME Committed(w)
        PROVE file' \in FileRows /\ row' \in [Records -> Bodies \cup {"none", "legacy"}]
    <3>1. \A f \in Files : [file[f] EXCEPT !.run = writer[w].record] \in
             [status : FileStatus, expired : BOOLEAN, parsed : 0..MaxParsed,
              run : Records \cup {NoRecord}]
      BY <1>1, <2>2 DEF FileRows
    <3>2. file' \in FileRows
      BY <1>1, <2>4, <3>1 DEF Committed, FileRows
    <3> QED BY <1>1, <2>2, <2>4, <3>2 DEF Committed
  <2>5. file' \in FileRows /\ row' \in [Records -> Bodies \cup {"none", "legacy"}]
    BY <1>1, <1>7, <2>4
    DEF PutReceipt, PutBody, CommitBody, WriteFails, AnswerLost, files
  <2>6. faults' \in 0..MaxFaults
    <3>1. faults \in 0..MaxFaults /\ (faults' = faults \/ Fault)
      BY <1>1, <1>7 DEF TypeOK, PutReceipt, PutBody, CommitBody, WriteFails, AnswerLost
    <3> QED BY <3>1, FaultType
  <2>7. UNCHANGED writes
    BY <1>7 DEF PutReceipt, PutBody, CommitBody, WriteFails, AnswerLost
  <2> QED BY <1>1, <1>2, <2>1, <2>3, <2>5, <2>6, <2>7
          DEF TypeOK, WriterRows, FileRows, project
<1> QED BY <1>5, <1>7 DEF Persisting, WriteTurn, WriteAgain

SweepRow == [at : {"off", "on", "object", "receipt"},
             record : Records \cup {NoRecord}, body : Bodies \cup {NoBody}]

LEMMA MaintainingType == ASSUME IInv, Maintaining PROVE TypeOK'
<1>1. TypeOK /\ row \in [Records -> Bodies \cup {"none", "legacy"}] /\ sweep \in SweepRow
  BY BodyTypes DEF IInv, SweepRow
<1>2. UNCHANGED <<files, project, writer, writes>> /\ objects' \subseteq objects
  BY DEF Maintaining, StopWriters, StartWriters, DeleteBody, DeleteReceipt, SweepFails,
     Reconcile, Restore, Wipe
<1>3. row' \in [Records -> Bodies \cup {"none", "legacy"}]
  BY <1>1 DEF Maintaining, StopWriters, StartWriters, DeleteBody, DeleteReceipt, SweepFails,
     Reconcile, Restore
<1>4. sweep' \in SweepRow
  <2>1. [NoSweep EXCEPT !.at = "on"] \in SweepRow /\ NoSweep \in SweepRow
    BY DEF NoSweep, SweepRow
  <2>2. CASE StopWriters \/ StartWriters \/ DeleteReceipt \/ SweepFails
    BY <2>1, <2>2 DEF StopWriters, StartWriters, DeleteReceipt, SweepFails
  <2>3. ASSUME NEW r \in Records, NEW b \in Bodies, Reconcile(r, b) PROVE sweep' \in SweepRow
    BY <2>3 DEF Reconcile, SweepRow
  <2>4. ASSUME NEW r \in Records, Restore(r) PROVE sweep' \in SweepRow
    BY <1>1, <2>4 DEF Restore
  <2>5. CASE DeleteBody
    BY <1>1, <2>5 DEF DeleteBody, SweepRow
  <2> QED BY <2>2, <2>3, <2>4, <2>5 DEF Maintaining
<1>5. faults' \in 0..MaxFaults
  <2>1. faults \in 0..MaxFaults /\ (faults' = faults \/ Fault)
    BY <1>1 DEF TypeOK, Maintaining, StopWriters, StartWriters, DeleteBody, DeleteReceipt,
       SweepFails, Reconcile, Restore
  <2> QED BY <2>1, FaultType
<1> QED BY <1>1, <1>2, <1>3, <1>4, <1>5 DEF TypeOK, SweepRow, files, project

-----------------------------------------------------------------------------
(* The theorems *)

LEMMA IInvInit == Init => IInv
<1> SUFFICES ASSUME Init PROVE IInv
  OBVIOUS
<1>1. TypeOK
  <2>1. file \in FileRows
    BY StoredContentAssumption DEF Init, FileRows, FileStatus
  <2>2. writer \in WriterRows /\ sweep \in SweepRow
    BY DEF Init, WriterRows, SweepRow, Idle, NoSweep
  <2>3. objects \subseteq Names /\ writes \in 0..MaxWrites /\ faults \in 0..MaxFaults
    BY StoredContentAssumption DEF Init
  <2>4. /\ upload \in [Files -> Uploads7] /\ late \subseteq Files
        /\ row \in [Records -> Bodies \cup {"none", "legacy"}]
    BY DEF Init, Uploads7
  <2>5. /\ deleter \in [Deleters -> [at : {"idle", "source", "parsed", "row"},
                                     file : Files \cup {NoFile}]]
        /\ copy \in [status : {"none", "reserved", "ready"}, of : Files \cup {NoFile}]
        /\ saver \in [Savers -> {"idle", "read", "put", "ready"}]
    BY DEF Init
  <2> QED BY <2>1, <2>2, <2>3, <2>4, <2>5 DEF TypeOK, FileRows, Uploads7, WriterRows, SweepRow
<1>2. FileInv
  BY DEF Init, FileInv, UploadKnows, DeleterKnows, SaverKnows, ReadyIsStored, DeletedInTimeIsGone
<1>3. BodyInv
  BY StoredContentAssumption
  DEF Init, BodyInv, WriterKnows, SweepKnows, BodyReadable, BodyHasReceipt, Idle, NoSweep
<1> QED BY <1>1, <1>2, <1>3 DEF IInv

LEMMA IInvStep == IInv /\ [Next]_vars => IInv'
<1> SUFFICES ASSUME IInv, [Next]_vars PROVE IInv'
  OBVIOUS
<1>1. ASSUME NEW f \in Files, Uploading(f) PROVE IInv'
  <2>1. BodyInv'
    BY <1>1, FileStepsKeepBodyInv DEF FileSteps
  <2> QED BY <1>1, <2>1, UploadType, UploadKeepsFileInv DEF IInv
<1>2. ASSUME NEW d \in Deleters, Deleting(d) PROVE IInv'
  <2>1. BodyInv'
    BY <1>2, FileStepsKeepBodyInv DEF FileSteps
  <2> QED BY <1>2, <2>1, DeletingType, DeletingKeepsFileInv DEF IInv
<1>3. ASSUME NEW s \in Savers, Saving(s) PROVE IInv'
  <2>1. BodyInv'
    BY <1>3, FileStepsKeepBodyInv DEF FileSteps
  <2> QED BY <1>3, <2>1, SavingType, SavingKeepsFileInv DEF IInv
<1>4. ASSUME NEW w \in Writers, Persisting(w) PROVE IInv'
  <2>1. FileInv'
    BY <1>4, BodyStepsKeepFileInv DEF BodySteps
  <2> QED BY <1>4, <2>1, PersistingType, PersistingKeepsBodyInv DEF IInv
<1>5. CASE Maintaining
  <2>1. FileInv'
    BY <1>5, BodyStepsKeepFileInv DEF BodySteps
  <2> QED BY <1>5, <2>1, MaintainingType, MaintainingKeepsBodyInv DEF IInv
<1>6. CASE UNCHANGED vars
  <2>1. TypeOK'
    BY <1>6 DEF IInv, TypeOK, vars, files, project, bodies
  <2>2. FileInv'
    BY <1>6 DEF IInv, FileInv, UploadKnows, DeleterKnows, SaverKnows, ReadyIsStored,
       DeletedInTimeIsGone, vars, files, project
  <2>3. BodyInv'
    BY <1>6 DEF IInv, BodyInv, WriterKnows, SweepKnows, BodyReadable, BodyHasReceipt, vars,
       bodies
  <2> QED BY <2>1, <2>2, <2>3 DEF IInv
<1> QED BY <1>1, <1>2, <1>3, <1>4, <1>5, <1>6 DEF Next

\* The rows of uploads, copies and bodies and the requests in flight stay well formed
\* (models/user_file.py, conversation_body_session.py).
THEOREM TypeCorrect == Spec => []TypeOK
<1>1. IInv => TypeOK
  BY DEF IInv
<1> QED BY <1>1, IInvInit, IInvStep, PTL DEF Spec

\* A file or copy that SQL calls ready has its objects, for any number of uploads,
\* deletions, retries and failures (user_file_service.py, project_workspace_service.py).
THEOREM Ready == Spec => []ReadyIsStored
<1>1. IInv => ReadyIsStored
  BY DEF IInv, FileInv
<1> QED BY <1>1, IInvInit, IInvStep, PTL DEF Spec

\* A deleted file leaves nothing in the store, however often its deletion failed and
\* whoever died (user_file_service.py, user_file_cleanup.py), unless its upload put an
\* object after its reservation had been revoked: then the objects do stay (DeletedIsGone
\* is violated), and that is left out here.
THEOREM Gone == Spec => []DeletedInTimeIsGone
<1>1. IInv => DeletedInTimeIsGone
  BY DEF IInv, FileInv
<1> QED BY <1>1, IInvInit, IInvStep, PTL DEF Spec

\* The body a committed row refers to is in the store, after uncertain commits,
\* roll-backs and maintenance (conversation_body_session.py:175).
THEOREM Readable == Spec => []BodyReadable
<1>1. IInv => BodyReadable
  BY DEF IInv, BodyInv
<1> QED BY <1>1, IInvInit, IInvStep, PTL DEF Spec

\* Every body in the store can be found by its receipt, whatever died between the put
\* and the commit or in the maintenance (conversation_body_maintenance.py).
THEOREM Receipted == Spec => []BodyHasReceipt
<1>1. IInv => BodyHasReceipt
  BY DEF IInv, BodyInv
<1> QED BY <1>1, IInvInit, IInvStep, PTL DEF Spec
=============================================================================
