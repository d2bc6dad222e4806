------------------------------ MODULE MCFiles ------------------------------
(***************************************************************************)
(* Files twice.  FilesTree: directories of two entries, so that both get   *)
(* full, and names so few that a directory gets two files with one name,   *)
(* also a second tmp beside the mount point.  FilesData: one file, two     *)
(* descriptors on it, writes and seeks that leave gaps.                    *)
(***************************************************************************)
EXTENDS Files

MCPaths == {<<>>, <<"tmp">>, <<"about">>, <<"tmp", "hello">>, <<"about", "hello">>}
TreeTexts == {<<"x">>}
DataPaths == {<<"tmp">>, <<"tmp", "hello">>}
DataTexts == {<<"x">>, <<"y", "z">>}
=============================================================================
