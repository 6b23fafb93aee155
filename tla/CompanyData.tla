---------------------------- MODULE CompanyData ----------------------------
(***************************************************************************)
(* What is stored for a company, one part per table: its reporting periods *)
(* (PeriodSave), its goals (GoalSave), its identifiers (Identifiers) and   *)
(* its row itself, which the cleanup of empty companies may delete         *)
(* (ShellCleanup).  The parts share no variable.                           *)
(***************************************************************************)
EXTENDS PeriodSave, GoalSave, Identifiers, ShellCleanup

\* A type invariant for each part: companyService.ts and the scripts write only what the
\* schema has a column for.
DataTypesOK == PeriodTypesOK /\ GoalTypesOK /\ IdTypeOK /\ ShellTypeOK
=============================================================================
