-------------------------------- MODULE MCVfs --------------------------------
(***************************************************************************)
(* Two threads that look up one name, two names, a name that is too long   *)
(* below a directory, and the empty path.  A name looked up in the root,   *)
(* and a in a directory called a, may take the first child.                *)
(***************************************************************************)
EXTENDS Vfs

MCPaths == {<< "a" >>, << "b", "a" >>, << "a", TooLong >>, << >>}

=============================================================================
