----------------------------- MODULE HostTool ------------------------------
(***************************************************************************)
(* The host utility's own binary: `install` (install.rs) and `upgrade`     *)
(* (upgrade.rs, version.rs). The path it is installed at and the backup    *)
(* beside it each hold a version, a part of one, or nothing.               *)
(***************************************************************************)
EXTENDS Naturals

CONSTANT MaxCuts   \* bound: failed or interrupted steps

Paths == {"installed", "old"}
Runnable == {"v1", "v2"}

VARIABLES bin,    \* what each path holds: a version, "torn", "bad" or "none"
          tool,   \* the command: its step, the path it was started from, its download
          cuts

toolVars == <<bin, tool, cuts>>

NoTool == [pc |-> "idle", path |-> "installed", temp |-> "none"]

ToolInit ==
  /\ bin \in [Paths -> {"none", "v1"}]
  /\ bin["installed"] = "v1"
  /\ tool = NoTool
  /\ cuts = 0

Usable == \E p \in Paths : bin[p] \in Runnable
Cut == cuts < MaxCuts /\ cuts' = cuts + 1
ToolAt(pc) == tool.pc = pc
ToolGoto(pc) == tool' = [tool EXCEPT !.pc = pc]

\* The newest release that has the binaries, if it is newer than the running one.
CheckForUpdates(p) == bin[p] = "v1"

\* Three attempts; what arrives is the release or something else.
Downloads == {"v2", "bad"}

Upgrade(p) ==
  /\ tool = NoTool
  /\ bin[p] \in Runnable
  /\ CheckForUpdates(p)
  /\ \E temp \in Downloads :
       /\ IF temp = "bad" THEN Cut ELSE UNCHANGED cuts
       /\ tool' = [pc |-> "verify", path |-> p, temp |-> temp]
  /\ UNCHANGED bin

\* A release without a checksum is refused as well.
VerifyChecksum ==
  /\ ToolAt("verify")
  /\ tool' = IF tool.temp = "v2" THEN [tool EXCEPT !.pc = "aside"] ELSE NoTool
  /\ UNCHANGED <<bin, cuts>>

\* `with_extension("old")`: the backup of the binary at "old" is that path itself.
BackupPath == "old"

\* A mutant: the old binary is removed, not moved.
RemoveOld ==
  /\ ToolAt("aside")
  /\ bin' = [bin EXCEPT ![tool.path] = "none", ![BackupPath] = "none"]
  /\ ToolGoto("place")
  /\ UNCHANGED cuts

MoveAside ==
  /\ ToolAt("aside")
  /\ bin' = [bin EXCEPT ![tool.path] = "none", ![BackupPath] = bin[tool.path]]
  /\ ToolGoto("place")
  /\ UNCHANGED cuts

Replaced(b) == [b EXCEPT ![tool.path] = tool.temp]

\* A rename, or a copy where the temporary file is on another file system; the
\* backup is removed once the new binary is in place.
PlaceNew ==
  /\ ToolAt("place")
  /\ \/ /\ bin' = [Replaced(bin) EXCEPT ![BackupPath] = "none"]
        /\ tool' = NoTool
        /\ UNCHANGED cuts
     \/ /\ bin' = [bin EXCEPT ![tool.path] = "torn"]
        /\ ToolGoto("copy")
        /\ UNCHANGED cuts
     \/ /\ Cut
        /\ ToolGoto("restore")
        /\ UNCHANGED bin

CopyNew ==
  /\ ToolAt("copy")
  /\ \/ /\ bin' = [Replaced(bin) EXCEPT ![BackupPath] = "none"]
        /\ tool' = NoTool
        /\ UNCHANGED cuts
     \/ /\ Cut
        /\ ToolGoto("restore")
        /\ UNCHANGED bin

\* The backup is renamed back, where there is one.
RestoreOld ==
  /\ ToolAt("restore")
  /\ bin' = IF bin[BackupPath] = "none" THEN bin
            ELSE [bin EXCEPT ![BackupPath] = "none", ![tool.path] = bin[BackupPath]]
  /\ tool' = NoTool
  /\ UNCHANGED cuts

\* `install`, from the binary that runs: nobody can write to a binary while it runs.
Install(p) ==
  /\ tool = NoTool
  /\ bin[p] \in Runnable
  /\ p # "installed"
  /\ bin' = [bin EXCEPT !["installed"] = "torn"]
  /\ tool' = [pc |-> "copied", path |-> p, temp |-> bin[p]]
  /\ UNCHANGED cuts

FinishInstall ==
  /\ ToolAt("copied")
  /\ bin' = [bin EXCEPT !["installed"] = tool.temp]
  /\ tool' = NoTool
  /\ UNCHANGED cuts

Interrupt ==
  /\ tool # NoTool
  /\ Cut
  /\ tool' = NoTool
  /\ UNCHANGED bin

ToolStep == VerifyChecksum \/ MoveAside \/ PlaceNew \/ CopyNew \/ RestoreOld \/ FinishInstall
ToolNext == \/ \E p \in Paths : Upgrade(p) \/ Install(p)
            \/ ToolStep \/ Interrupt

(***************************************************************************)
(* However an upgrade or an installation ends, the machine still has a     *)
(* binary that runs, and never one whose checksum was not verified:        *)
(* run_upgrade moves the old binary aside, puts the new one in place, and  *)
(* removes or restores the old one. An upgrade started from the backup     *)
(* itself removes what it has just installed, and is left out here.        *)
(***************************************************************************)
ToolSurvives == [][/\ Usable /\ tool.path = "installed" => Usable'
                   /\ \A p \in Paths : bin'[p] # "bad"]_toolVars

=============================================================================
