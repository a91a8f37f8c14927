--------------------------- MODULE Reconstruction ---------------------------
(***************************************************************************)
(* Reconstruction of an article of an archive: process of archive.rs.      *)
(*                                                                         *)
(* Fragments are grouped by article and by segmentation type, and a group  *)
(* goes to one of the two algorithms.  Groups share nothing (they are the  *)
(* items of a parallel iterator), so one article stands for all of them.   *)
(***************************************************************************)
EXTENDS Type1, Type2

VARIABLE kind  \* segmentation type of the group

articleVars == <<kind, type1Vars, vars>>

\* The group of an article; the algorithm that does not get it does not run.
ArticleInit == kind \in {1, 2} /\ Type1Init /\ Init

ByType1 == kind = 1 /\ Type1Next /\ UNCHANGED <<kind, vars>>
ByType2 == kind = 2 /\ Next /\ UNCHANGED <<kind, type1Vars>>

ArticleNext == ByType1 \/ ByType2

ArticleSpec == ArticleInit /\ [][ArticleNext]_articleVars

=============================================================================
