---------------------------- MODULE NoCycleOracle ----------------------------
(***************************************************************************)
(* What import-next/no-cycle promises, without a cache: every import or    *)
(* re-export of another file is reported exactly when it closes a cycle of *)
(* run-time imports of the files on disk.  Nothing is promised of two      *)
(* kinds of statement.  A file's import of itself is reported if the       *)
(* file's component was not computed before, and skipped otherwise.  An    *)
(* "export type" is no run-time import, and is yet reported if the two     *)
(* files are on a common cycle through others.                             *)
(***************************************************************************)
EXTENDS ImportGraph, ImportSyntax

CONSTANTS Files, Missing, NoFile, EditedTexts, MaxVersion

VARIABLES disk, linting, text, verdicts

vars == <<disk, linting, text, verdicts>>

Init ==
    /\ \A f \in Files : disk[f].version = 1
    /\ linting = NoFile
    /\ text = <<>>
    /\ verdicts = <<>>

StartFile(f) ==
    /\ linting = NoFile
    /\ linting' = f
    /\ text' = disk[f].text
    /\ verdicts' = <<>>
    /\ UNCHANGED disk

\* The files reached from f on disk.
ReachedFrom(f) == Reachable(RuntimeGraph(disk, Files \ Missing), f)

Expected(s) ==
    /\ s.kind \in {"import", "export"}
    /\ s.target \in Files
    /\ linting \in ReachedFrom(s.target)

Visit ==
    /\ linting # NoFile
    /\ Len(verdicts) < Len(text)
    /\ LET s == text[Len(verdicts) + 1]
       IN  \E reported \in BOOLEAN :
              /\ s.target # linting /\ s.kind # "exportType"
                     => reported = Expected(s)
              /\ verdicts' = Append(verdicts, reported)
    /\ UNCHANGED <<disk, linting, text>>

FinishFile ==
    /\ linting # NoFile
    /\ Len(verdicts) = Len(text)
    /\ linting' = NoFile
    /\ text' = <<>>
    /\ verdicts' = <<>>
    /\ UNCHANGED disk

Edit(f, newText) ==
    /\ linting = NoFile
    /\ disk[f].version < MaxVersion
    /\ disk' = [disk EXCEPT ![f] = [version |-> @.version + 1, text |-> newText]]
    /\ UNCHANGED <<linting, text, verdicts>>

Next ==
    \/ \E f \in Files \ Missing : StartFile(f)
    \/ Visit
    \/ FinishFile
    \/ \E f \in Files, newText \in EditedTexts : Edit(f, newText)

Spec == Init /\ [][Next]_vars
=============================================================================
