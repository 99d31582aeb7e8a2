----------------------------- MODULE MCFatFile -----------------------------
(* An instance of FatFile for TLC: sectors of two bytes, clusters of two   *)
(* sectors, a new file and one that ends inside a sector of its second     *)
(* cluster, and transfers of a part of a sector, of more than a sector and *)
(* of more than a cluster.                                                 *)
EXTENDS FatFile

MCOldSizes == {0, bcs + 1}
MCLengths == {1, 3, bcs + 1}
=============================================================================
