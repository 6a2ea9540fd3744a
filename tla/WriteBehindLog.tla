--------------------------- MODULE WriteBehindLog ---------------------------
(***************************************************************************)
(* What the AOF promises (docs/src/telemetry-aof.md): accepted events form  *)
(* one log in the order they were accepted; a failure takes away a suffix,  *)
(* never an event in the middle and never one already durable; and a stop   *)
(* is vouched for only when nothing is left to lose.                        *)
(***************************************************************************)
EXTENDS Naturals, Sequences

CONSTANT Event

VARIABLES log,       \* accepted events still there
          durable,   \* how many of them no failure can take away
          vouched    \* the last process's stop was acknowledged

wbVars == <<log, durable, vouched>>

LogInit == log = <<>> /\ durable = 0 /\ vouched = FALSE

Accept ==
    /\ ~vouched
    /\ \E e \in Event :
           /\ \A i \in 1..Len(log) : log[i] < e
           /\ log' = Append(log, e)
    /\ UNCHANGED <<durable, vouched>>

Persist ==
    /\ durable' \in durable..Len(log)
    /\ vouched' \in {vouched, durable' = Len(log)}
    /\ UNCHANGED log

Lose ==
    /\ \E n \in durable..Len(log) :
           /\ log' = SubSeq(log, 1, n)
           /\ durable' \in durable..n
    /\ vouched' = FALSE

Reopen ==
    /\ vouched' = FALSE
    /\ UNCHANGED <<log, durable>>

LogNext == Accept \/ Persist \/ Lose \/ Reopen

LogSpec == LogInit /\ [][LogNext]_wbVars
=============================================================================
