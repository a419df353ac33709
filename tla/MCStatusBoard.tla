---------------------------- MODULE MCStatusBoard ----------------------------
(* The dashboard: pages want a cache half as old as the collector's pause.  *)
(* A behaviour is one of the collector or of one part of the report; these  *)
(* share no state.                                                          *)
EXTENDS StatusBoard, StatusReport

CONSTANTS r1, r2

VARIABLE part

MCMaxAge == [c \in Clients |-> 1]

(* One machine sends and may answer without its interface, one does not. *)
MCMaxBytes == [v \in VMs |-> IF v = 1 THEN 1 ELSE 0]
MCOtherCounts == [v \in VMs |-> IF v = 1 THEN {0} ELSE {}]

(* Two paths share a repository. *)
MCPaths == <<<<r1>>, <<r1, r2>>>>

reportVars == <<backupVars, kernelVars, samples>>

(* The sizer meets repositories with at most one snapshot; the roll-up is of *)
(* any, and takes no steps.                                                 *)
Empty == CHOOSE s \in RepoState : s.snaps = {}
BoardInit ==
    /\ Init /\ KernelInit /\ SamplesInit /\ BackupsInit
    /\ part \in {"collector", "roll-up", "sizer", "kernels", "disks"}
    /\ \A r \in Repos : CASE part = "roll-up" -> TRUE
                           [] part = "sizer" -> repos[r].snaps \subseteq {Max(Ages)}
                           [] OTHER -> repos[r] = Empty

BoardNext ==
    /\ UNCHANGED part
    /\ \/ part = "collector" /\ Next /\ UNCHANGED reportVars
       \/ part = "roll-up" /\ UNCHANGED <<vars, reportVars>>
       \/ part = "sizer" /\ BackupsNext /\ UNCHANGED <<vars, kernelVars, samples>>
       \/ part = "kernels" /\ KernelNext /\ UNCHANGED <<vars, backupVars, samples>>
       \/ part = "disks" /\ SamplesNext /\ UNCHANGED <<vars, backupVars, kernelVars>>

BoardSpec ==
    /\ BoardInit /\ [][BoardNext]_<<vars, reportVars, part>>
    /\ \A p \in Actors : WF_vars(Round(p) /\ part = "collector")
=============================================================================
