-------------------------- MODULE MCResearchIngest --------------------------
(* Instances of ResearchIngest for TLC. *)
EXTENDS ResearchIngest, TLC

CONSTANTS a, b, f1, f2, f3

\* Company a files a release with two exhibits and a report without any; b files
\* one whose exhibit is a PDF.
OwnerOf == f1 :> a @@ f2 :> b @@ f3 :> a
DocsOf == f1 :> 2 @@ f2 :> 1 @@ f3 :> 0
NotText == {<<f2, 1>>}
TwoOwners == f1 :> a @@ f2 :> b
TwoDocs == f1 :> 1 @@ f2 :> 0
Delays == <<1, 2>>
=============================================================================
