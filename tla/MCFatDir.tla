------------------------------ MODULE MCFatDir ------------------------------
(* An instance of FatDir for TLC: names of two characters and an extension *)
(* of one, two entries in a sector, two sectors in a cluster.  The volumes *)
(* are a FAT16 one with a fixed root table and a sub-directory, a FAT32    *)
(* one with a deleted entry and a directory without a cluster, one whose   *)
(* root and sub-directory are full, the same without a free cluster, and   *)
(* one with a cyclic root chain.                                           *)
(* Clusters that are not in use hold old entries.                          *)
EXTENDS FatDir

N(a, b) == <<a, b, " ">>
File(a, c) == Entry(N(a, " "), {"arc"}, c)
SubDir(c) == Entry(N("D", " "), {"dir"}, c)
Dot == Entry(N(".", " "), {"dir"}, 0)
Deleted == Entry(N("L", "a"), {}, 0)
Label == Entry(N("A", " "), {"vol"}, 0)
ReadOnly == Entry(N("B", " "), {"rdo"}, 0)
Sect(e, f) == [k \in 0 .. 1 |-> IF k = 0 THEN e ELSE f]
Old == [s \in TableSectors |-> Sect(File("A", 0), File("A", 0))]
NoChains == [c \in Clusters |-> 0]

Fat16 ==
    [root |-> 0, fat |-> [NoChains EXCEPT ![2] = EOC],
     tab |-> [Old EXCEPT ![<<0, 0>>] = Sect(Label, SubDir(2)), ![<<0, 1>>] = Sect(ReadOnly, EndMark),
                         ![<<2, 0>>] = Sect(Dot, File("B", 0)), ![<<2, 1>>] = Empty]]
Fat32 ==
    [root |-> 2, fat |-> [NoChains EXCEPT ![2] = EOC, ![3] = EOC],
     tab |-> [Old EXCEPT ![<<2, 0>>] = Sect(Deleted, File("A", 3)),
                         ![<<2, 1>>] = Sect(SubDir(0), EndMark)]]
Full ==
    [root |-> 2, fat |-> [NoChains EXCEPT ![2] = EOC, ![3] = EOC],
     tab |-> [Old EXCEPT ![<<2, 0>>] = Sect(File("G", 0), File("H", 0)),
                         ![<<2, 1>>] = Sect(SubDir(3), Label),
                         ![<<3, 0>>] = Sect(Dot, Dot), ![<<3, 1>>] = Sect(File("B", 0), File("G", 0))]]
Cyclic ==
    [root |-> 2, fat |-> [NoChains EXCEPT ![2] = 3, ![3] = 2],
     tab |-> [Old EXCEPT ![<<2, 0>>] = Sect(File("B", 0), Label), ![<<2, 1>>] = Sect(Label, Label),
                         ![<<3, 0>>] = Sect(Label, Label), ![<<3, 1>>] = Sect(Label, Label)]]
NoCluster == [Full EXCEPT !.fat = [@ EXCEPT ![4] = 5, ![5] = EOC]]
MCVolumes == {Fat16, Fat32, Full, NoCluster, Cyclic}

MCPaths ==
    {<<>>, <<<<"a">>>>, <<<<"A">>>>, <<<<"L", "a">>>>, <<<<"b", ".", "a">>>>, <<<<"d">>, <<"b">>>>,
     <<<<"d">>, <<"A">>>>, <<<<"a", "b", "a">>>>, <<<<"*">>>>}
MCModes ==
    {{"READ"}, {"WRITE"}, {"WRITE", "CREATE_ALWAYS"}, {"WRITE", "OPEN_ALWAYS"},
     {"WRITE", "CREATE_NEW"}}
=============================================================================
