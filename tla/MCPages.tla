------------------------------ MODULE MCPages -------------------------------
(***************************************************************************)
(* A small instance of every page of Pages.                                *)
(***************************************************************************)
EXTENDS Pages, TLC

\* Stations, tabs, admins and their pages are one set of model values; codes,
\* employees, cells, managers and cycles another.
MCSymmetry == Permutations(Station) \cup Permutations(Code)
=============================================================================
