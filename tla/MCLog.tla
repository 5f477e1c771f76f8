------------------------------- MODULE MCLog -------------------------------
(***************************************************************************)
(* MLog for a run of TLC that has two things to look at: several loggers   *)
(* that come and go, all alike, and one logger in every configuration.  A  *)
(* behaviour is about one of the two, its scope.                           *)
(***************************************************************************)
EXTENDS MLog

VARIABLE scope

OneKind ==
    /\ \A h \in DOMAIN logger :
           /\ logger[h].loggertype = "STDOUT" /\ logger[h].logtime = "NONE"
           /\ logger[h].severity = 0 /\ logger[h].callback = NULL
    /\ \A w \in Workers : msg[w].severity = 0

OneLogger == next_handle <= 1 /\ \A w \in Workers : msg[w].handle <= 0

InScope == (scope = "lifecycle" => OneKind) /\ (scope = "configuration" => OneLogger)

MCInit == Init /\ scope \in {"lifecycle", "configuration"}

MCNext == Next /\ UNCHANGED scope /\ InScope'

\* The fairness of FairSpec; what has begun stays in its scope.
MCSpec ==
    /\ MCInit /\ [][MCNext]_<<vars, scope>>
    /\ WF_vars(process = "running" /\ MainStep)
    /\ \A w \in Workers : WF_vars(process = "running" /\ MlogStep(w))
=============================================================================
