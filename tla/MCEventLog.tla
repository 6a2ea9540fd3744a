----------------------------- MODULE MCEventLog -----------------------------
(* Instances of LockFeed over EventLog for TLC.                             *)
EXTENDS LockFeed

\* One event per millisecond, leases of three milliseconds: no two files span
\* the same window, so no two finalized files share a name.
MCTs(e) == e
MCExpiry(e) == e + 3
=============================================================================
