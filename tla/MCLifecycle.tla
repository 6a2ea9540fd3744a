---------------------------- MODULE MCLifecycle ----------------------------
(* Instances of Lifecycle, with the check that reads its trails, for TLC.  *)
EXTENDS ShutdownCheck
=============================================================================
