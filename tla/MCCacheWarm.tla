---------------------------- MODULE MCCacheWarm ----------------------------
(* Small instances of CacheWarm for TLC. *)
EXTENDS CacheWarm

(* All faults but those under which a property is not promised: valid      *)
(* entries get lost with a partial scan, nobody writes without a writer,   *)
(* and a COMMIT or a cleanup that fails leaves the cache as it was.  The   *)
(* theorems on ValidEntriesKept and the queues hold with these as well.    *)
RunFaults == AllFaults \ {"writer", "scan", "commit", "cleanup"}
=============================================================================
