------------------------------- MODULE Host --------------------------------
(***************************************************************************)
(* The baker's machine: the commands of HostSetup, run with the binary of  *)
(* HostTool, one command at a time.                                        *)
(***************************************************************************)
EXTENDS HostSetup, HostTool

HostVars == <<vars, toolVars>>

HostInit == Init /\ ToolInit

\* One command at a time, each started from a binary that runs. The bounds on
\* commands and faults are common to both.
Next ==
  /\ \/ /\ cmd = Idle => tool = NoTool /\ (cmd' = Idle \/ Usable)
        /\ HostNext
        /\ UNCHANGED toolVars
     \/ /\ cmd = Idle
        /\ ToolNext
        /\ IF tool = NoTool THEN runs < MaxRuns /\ runs' = runs + 1 ELSE UNCHANGED runs
        /\ UNCHANGED <<config, octez, backend, hidden, etc, kept, live, wallet, baker, keys,
                       plugged, named, cmd, faults>>
  /\ faults' + cuts' <= MaxFaults

Spec == HostInit /\ [][Next]_HostVars
=============================================================================
