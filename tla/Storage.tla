------------------------------- MODULE Storage -------------------------------
(***************************************************************************)
(* Uploads to 0G Storage (api/src/services/storage.ts): the service sends  *)
(* the root of a blob to the Flow contract itself and then has the SDK     *)
(* upload the segments and wait until the blob is final.  Each await may   *)
(* throw, a transaction that was mined included, and whoever wanted the    *)
(* upload starts it over.                                                  *)
(***************************************************************************)

CONSTANT Blobs     \* what is uploaded, told apart by root

VARIABLES
  upload,    \* how far the last upload of a blob came
  paid,      \* blobs whose root was ever accepted by the Flow contract
  stored     \* blobs ever final in storage

storageVars == <<upload, paid, stored>>

UploadState == {"none", "hashed", "submitted", "returned", "failed"}

StorageTypeOK ==
  /\ upload \in [Blobs -> UploadState]
  /\ stored \subseteq paid /\ paid \subseteq Blobs

StorageInit ==
  /\ upload = [b \in Blobs |-> "none"]
  /\ paid = {}
  /\ stored = {}
-----------------------------------------------------------------------------

Uploading(b) == upload[b] \in {"hashed", "submitted"}

(* The temporary file, its merkle tree and the price of its sectors.       *)
StartUpload(b) ==
  /\ ~Uploading(b)
  /\ upload' = [upload EXCEPT ![b] = "hashed"]
  /\ UNCHANGED <<paid, stored>>

SubmitRoot(b) ==
  /\ upload[b] = "hashed"
  /\ upload' = [upload EXCEPT ![b] = "submitted"]
  /\ paid' = paid \cup {b}
  /\ UNCHANGED stored

(* Fault: the root is returned before its segments are final.              *)
UploadSegmentsLater(b) ==
  /\ upload[b] = "submitted"
  /\ upload' = [upload EXCEPT ![b] = "returned"]
  /\ stored' \in {stored, stored \cup {b}}
  /\ UNCHANGED paid

UploadSegments(b) ==
  /\ upload[b] = "submitted"
  /\ upload' = [upload EXCEPT ![b] = "returned"]
  /\ stored' = stored \cup {b}
  /\ UNCHANGED paid

(* Before or after the root was accepted, or after the segments were.      *)
UploadThrows(b) ==
  /\ Uploading(b)
  /\ upload' = [upload EXCEPT ![b] = "failed"]
  /\ paid' \in {paid, paid \cup {b}}
  /\ stored' \in {stored, IF upload[b] = "submitted" THEN stored \cup {b} ELSE stored}
=============================================================================
