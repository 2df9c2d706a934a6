------------------------------ MODULE MCRamdisk ------------------------------
EXTENDS Ramdisk

(* A directory, an empty file, a file that does not fill its blocks, one   *)
(* that does, and a second file of its name, which the first hides.        *)
MCArchive == <<
    [dot |-> TRUE, base |-> "bin", type |-> "5", size |-> 0],
    [dot |-> TRUE, base |-> "empty", type |-> "0", size |-> 0],
    [dot |-> FALSE, base |-> "wad", type |-> "0", size |-> 5],
    [dot |-> TRUE, base |-> "shell", type |-> "NUL", size |-> 4],
    [dot |-> TRUE, base |-> "shell", type |-> "0", size |-> 3]>>
MCLayout == <<0, 4, 8, 20, 28, 36>>
MCPaths == [pre : {"", "/", "./"}, base : {"bin", "empty", "shell", "wad", "none"}]
MCOffsets == {-2, 0, 1, 7}
MCIovs == {<<0>>, <<1, 2>>, <<2, 0, 2>>, <<3, 3, 3>>}
=============================================================================
