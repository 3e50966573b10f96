------------------------------ MODULE Chunks ------------------------------
(***************************************************************************)
(* Content-addressed chunks: handler/push.go UploadChunk, service/chunk.go,*)
(* store/postgres/chunk.go (metadata and ref_count) and store/minio/       *)
(* chunk.go (bytes).  An upload writes the bytes first and the row second. *)
(***************************************************************************)
EXTENDS Naturals, Domain

CONSTANTS Oversized,    \* the contents larger than STRATA_MAX_CHUNK_SIZE
          Uploaders,    \* concurrent POST /push/chunk handlers
          NoChunk       \* no object under the key, no upload in progress

ASSUME ChunksAssumption == NoChunk \notin Hashes

VARIABLES chunks,       \* hashes of the rows of table chunks
          refCount,     \* chunks.ref_count
          blobs,        \* MinIO: key (from the hash) -> content
          uploads       \* the upload handlers

chunkVars == <<chunks, refCount, blobs, uploads>>

IdleUpload == [pc |-> "idle", hash |-> NoChunk]

ChunksTypeOK ==
  /\ chunks \in SUBSET Hashes
  /\ refCount \in [Hashes -> Nat]
  /\ blobs \in [Hashes -> Hashes \cup {NoChunk}]
  /\ uploads \in [Uploaders -> [pc : {"idle", "put", "insert"},
                                hash : Hashes \cup {NoChunk}]]

ChunksInit ==
  /\ chunks = {}
  /\ refCount = [h \in Hashes |-> 0]
  /\ blobs = [h \in Hashes |-> NoChunk]
  /\ uploads = [r \in Uploaders |-> IdleUpload]

-----------------------------------------------------------------------------
\* Mutant: the row is inserted although the bytes are not stored yet.
MutBeginUpload(r, expectedHash, data) ==
  /\ uploads[r].pc = "idle"
  /\ data \notin Oversized
  /\ data = expectedHash
  /\ uploads' = [uploads EXCEPT ![r] = [pc |-> "insert", hash |-> data]]
  /\ UNCHANGED <<chunks, refCount, blobs>>

\* Upload verifies the size and that the body hashes to the declared hash;
\* otherwise the request ends with an error and nothing changes.
BeginUpload(r, expectedHash, data) ==
  /\ uploads[r].pc = "idle"
  /\ data \notin Oversized
  /\ data = expectedHash
  /\ uploads' = [uploads EXCEPT ![r] = [pc |-> "put", hash |-> data]]
  /\ UNCHANGED <<chunks, refCount, blobs>>

\* blobs.Put: overwrites the object under the key.
PutBlob(r) ==
  /\ uploads[r].pc = "put"
  /\ blobs' = [blobs EXCEPT ![uploads[r].hash] = uploads[r].hash]
  /\ uploads' = [uploads EXCEPT ![r].pc = "insert"]
  /\ UNCHANGED <<chunks, refCount>>

\* Mutant: an upload of a known chunk resets its ref_count.
MutInsertChunk(r) ==
  LET h == uploads[r].hash
  IN  /\ uploads[r].pc = "insert"
      /\ chunks' = chunks \cup {h}
      /\ refCount' = [refCount EXCEPT ![h] = 0]
      /\ uploads' = [uploads EXCEPT ![r] = IdleUpload]
      /\ UNCHANGED blobs

\* INSERT INTO chunks with ref_count 0, ON CONFLICT (hash) DO NOTHING.
InsertChunk(r) ==
  LET h == uploads[r].hash
  IN  /\ uploads[r].pc = "insert"
      /\ chunks' = chunks \cup {h}
      /\ refCount' = [refCount EXCEPT ![h] = IF h \in chunks THEN @ ELSE 0]
      /\ uploads' = [uploads EXCEPT ![r] = IdleUpload]
      /\ UNCHANGED blobs

\* The request is cut off before its next store call.
AbortUpload(r) ==
  /\ uploads[r].pc # "idle"
  /\ uploads' = [uploads EXCEPT ![r] = IdleUpload]
  /\ UNCHANGED <<chunks, refCount, blobs>>

ChunksNext ==
  \E r \in Uploaders :
    \/ \E h, data \in Hashes : BeginUpload(r, h, data)
    \/ PutBlob(r)
    \/ InsertChunk(r)
    \/ AbortUpload(r)

ChunksSpec == ChunksInit /\ [][ChunksNext]_chunkVars

\* UPDATE chunks SET ref_count = ref_count + 1 WHERE hash = ANY(...): once per
\* hash however often it is listed, and only where a row exists.
IncrementRefCount(hashes) ==
  refCount' = [h \in Hashes |->
                 IF h \in hashes \cap chunks THEN refCount[h] + 1
                                             ELSE refCount[h]]

\* POST /push/check: of the given hashes those that have a row.  The client
\* uploads the others.
CheckExisting(hashes) == hashes \cap chunks

\* GET /pull/chunk/{hash}: the row is looked up, then the object is read.
Downloadable(h) == h \in chunks /\ blobs[h] # NoChunk

-----------------------------------------------------------------------------
\* SAFETY.  A chunk that CheckExisting reports, so that clients skip its upload,
\* has its bytes in the blob store and they are the ones the hash names: the
\* blob is written before the row, also by uploads that are cut off half way
\* or run at the same time.
ChunkRowHasBlob == \A h \in chunks : blobs[h] = h

=============================================================================
