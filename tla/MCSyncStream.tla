----------------------------- MODULE MCSyncStream -----------------------------
(* SyncStream for TLC: a peer that reconnects while its old streams linger. *)
EXTENDS SyncStream, TLC

CONSTANTS s1, s2, s3, u1

AnyOrder == Permutations({s1, s2, s3})
===============================================================================
