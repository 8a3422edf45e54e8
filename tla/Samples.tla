------------------------------ MODULE Samples -------------------------------
(***************************************************************************)
(* The directory trees, path names and writes of the small instances of     *)
(* Fs.tla and Content.tla.                                                 *)
(***************************************************************************)
EXTENDS Integers, Sequences, TLC

Path(abs, elems) == [abs |-> abs, elems |-> elems]
Node(t, l, up, a, b) == [type |-> t, nlink |-> l, ents |-> ".." :> up @@ "a" :> a @@ "b" :> b]
Root == Node("dir", 2, 1, 2, 0)
Free == Node("free", 0, 0, 0, 0)

(* /a is a directory, /a/b a file, and one inode is free.                  *)
FileTree == <<Root, Node("dir", 1, 1, 0, 3), Node("file", 1, 0, 0, 0), Free>>
FilePaths == {Path(FALSE, <<"a">>), Path(TRUE, <<"a", "b">>)}

(* /a/b is a directory too, and ".." is used.                              *)
DirTree == <<Root, Node("dir", 2, 1, 0, 3), Node("dir", 1, 2, 0, 0), Free>>
DirPaths == FilePaths \cup {Path(FALSE, <<"..">>)}

(* Writes of one or of four bytes to one file, of three to the other.     *)
WriteSizes == [i \in {1, 2} |-> IF i = 1 THEN {1, 4} ELSE {3}]
WriteBytes == [i \in {1, 2} |-> [k \in WriteSizes[i] |-> IF i = 1 THEN k ELSE 2]]
=============================================================================
