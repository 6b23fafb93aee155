------------------------------ MODULE Document ------------------------------
(***************************************************************************)
(* A report from its parse to what is read from it: the Docling job        *)
(* (DoclingParse), the routes of its text (ReportText), the names the      *)
(* steps give the document (ReportIdentity), and a follow-up question with *)
(* the pages of its answer (FollowUp).  What the parts have in common      *)
(* passes through job data and rows that each module has itself.           *)
(***************************************************************************)
EXTENDS DoclingParse, ReportText, ReportIdentity, FollowUp

\* A type invariant for each part that has more than one step: the Docling job and the row
\* and index of the text.
DocumentTypesOK == TypeOK /\ TextTypeOK
=============================================================================
