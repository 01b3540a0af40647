--------------------------- MODULE MCJobManager -----------------------------
(* Small instances of JobManager for TLC. *)
EXTENDS JobManager

AdaptiveOn  == [mode |-> "adaptive", enabled |-> TRUE]
AdaptiveOff == [mode |-> "adaptive", enabled |-> FALSE]
CronOn      == [mode |-> "cron", enabled |-> TRUE]
CronOff     == [mode |-> "cron", enabled |-> FALSE]
OnceOn      == [mode |-> "once", enabled |-> TRUE]

EverySpec == {AdaptiveOn, AdaptiveOff, CronOn, CronOff, OnceOn}
FileKinds == {AdaptiveOn, AdaptiveOff, CronOn}
=============================================================================
