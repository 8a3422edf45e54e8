-------------------------------- MODULE MCFs --------------------------------
(***************************************************************************)
(* Fs.tla on a tree of directories.                                        *)
(***************************************************************************)
EXTENDS Fs, Samples

MCTrees == {DirTree}
MCPaths == FilePaths
=============================================================================
