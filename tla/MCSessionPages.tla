---------------------------- MODULE MCSessionPages ----------------------------
(* One session's pages on an engine that creates targets, or on a shell that *)
(* only has its windows: kind says which.                                    *)
EXTENDS SessionPages

VARIABLE kind

Shell == INSTANCE SessionPages WITH Creates <- FALSE, MaxTabs <- 2

Browse(A) == kind = "browser" /\ A /\ UNCHANGED kind
Drive(A)  == kind = "shell" /\ A /\ UNCHANGED kind

MCInit == kind \in {"browser", "shell"} /\ Init
MCNext == Browse(Next) \/ Drive(Shell!Next)
MCSpec == MCInit /\ [][MCNext]_<<vars, kind>>

\* the fairness of SessionPages, for the kind a behaviour has
FairMCSpec ==
    /\ MCSpec
    /\ \A c \in Clients : WF_<<vars, kind>>(Browse(CallStep(c)) \/ Drive(Shell!CallStep(c)))
    /\ WF_<<vars, kind>>(Browse(RecoverStep) \/ Drive(Shell!RecoverStep))

\* what tells two states apart: not the histories, which no step depends on and
\* this run's properties do not ask about
View == <<kind, reg, engineVars, feeds, job, rec>>
===============================================================================
