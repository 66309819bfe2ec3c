--------------------------- MODULE MCAsyncTasks ---------------------------
(***************************************************************************)
(* Small instances of AsyncTasks: lists with one name, with several, with  *)
(* a name twice, and an empty one.                                         *)
(***************************************************************************)
EXTENDS AsyncTasks

CONSTANTS a, b

JoinLists == {<<>>, <<a>>, <<a, b>>, <<b, a, b>>}
===========================================================================
