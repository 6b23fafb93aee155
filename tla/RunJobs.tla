------------------------------ MODULE RunJobs ------------------------------
(***************************************************************************)
(* The jobs of a run after its questions: the flows from the questions to  *)
(* the company link (RunFlow), their archive (RunArchive), the merge of    *)
(* the answers (ScopeMerge) and the lookups of LEI and ISINs               *)
(* (GleifLookup).  The parts share no variable.                            *)
(***************************************************************************)
EXTENDS RunFlow, RunArchive, ScopeMerge, GleifLookup

\* A type invariant for each part that has more than one step: the jobs of the two flows with
\* their attempts, and what is archived of them.
JobTypesOK == FlowTypeOK /\ ArchiveTypeOK
=============================================================================
