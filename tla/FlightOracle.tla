---------------------------- MODULE FlightOracle -----------------------------
(***************************************************************************)
(* Evidence fetched by the service instead of uploaded by the browser: the *)
(* delay of a flight (api/src/services/oracle-flight.ts), asked for in the *)
(* dialog of an insurance claim (web/src/components/verdict/               *)
(* flight-oracle.tsx).  The service fetches the flight, uploads a snapshot *)
(* and registers it.  A snapshot contains the time it was fetched at, so   *)
(* that fetching again makes another blob with another root: one whose     *)
(* answer was lost is cited by nobody.                                     *)
(***************************************************************************)
EXTENDS Storage, Evidence

(* onFetch.                                                                *)
FetchFlight(p) ==
  /\ client[p].at = "choosing"
  /\ client' = [client EXCEPT ![p].at = "fetching"]
  /\ UNCHANGED <<rows, storageVars>>

(* No key, no such flight, or no answer within fifteen seconds.            *)
OracleRefuses(p) ==
  /\ client[p].at = "fetching" /\ upload[p] \in {"none", "failed"}
  /\ client' = [client EXCEPT ![p].at = "choosing"]
  /\ UNCHANGED <<rows, storageVars>>

(* fetchAndUploadFlightSnapshot, once the flight is known.                 *)
UploadSnapshot(p) ==
  /\ client[p].at = "fetching"
  /\ \/ upload[p] \in {"none", "failed"} /\ StartUpload(p)
     \/ SubmitRoot(p)
     \/ UploadSegments(p)
  /\ UNCHANGED evidenceVars

(* registerEvidence, and 201 with the root.                                *)
RegisterSnapshot(p) ==
  /\ client[p].at = "fetching" /\ upload[p] = "returned"
  /\ rows' = [rows EXCEPT ![p].raw = @ + 1]
  /\ client' = [client EXCEPT ![p].at = "ready"]
  /\ UNCHANGED storageVars

(* The upload or the insertion of the row throws, or the answer is lost:   *)
(* the next snapshot is a new one.                                         *)
SnapshotLost(p) ==
  /\ client[p].at = "fetching" /\ upload[p] # "none"
  /\ client' = [client EXCEPT ![p].at = "choosing"]
  /\ upload' = [upload EXCEPT ![p] = "none"]
  /\ paid' = paid \ {p}
  /\ stored' = stored \ {p}
  /\ UNCHANGED rows
=============================================================================
