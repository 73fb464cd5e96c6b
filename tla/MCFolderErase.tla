--------------------------- MODULE MCFolderErase ----------------------------
(***************************************************************************)
(* FolderErase on a root with a file, a link and a directory that holds a  *)
(* file, beside a directory of another file system mounted in it or a      *)
(* directory bound below itself.                                           *)
(***************************************************************************)
EXTENDS FolderErase

MCDirs == {"outside", "root", "sub", "disk"}
MCFiles == {"f", "g"}

MCDev == [d \in MCDirs |-> IF d = "disk" THEN 2 ELSE 1]
MCBinds == {<<"root", "disk">>, <<"sub", "root">>, <<"sub", "sub">>}

Tree(in_root, in_sub, in_disk) ==
  [d \in MCDirs |-> CASE d = "outside" -> {"root"}
                      [] d = "root"    -> in_root
                      [] d = "sub"     -> in_sub
                      [] d = "disk"    -> in_disk]

MCTrees == {Tree({"f", "sub"}, {"g"}, {}),
            Tree({"link", "special", "sub"}, {}, {}),
            Tree({"f", "disk"}, {}, {"g"}),
            Tree({"sub"}, {"f", "root"}, {}),
            Tree({"sub"}, {"f", "sub"}, {})}
=============================================================================
