---------------------------- MODULE MCDevServer ----------------------------
(***************************************************************************)
(* Small instances of DevServer: a main file with an import in its         *)
(* directory and one elsewhere.                                            *)
(***************************************************************************)
EXTENDS DevServer

CONSTANTS main, lib, util

P(imports, v) == [imports |-> imports, version |-> v]

MCEnvDir == {main, lib}

MCContents ==
  (main :> {P(<<lib>>, 1), P(<<lib, util>>, 2), Bad})
  @@ (lib :> {P(<<>>, 1), P(<<util>>, 2), P(<<main>>, 3), Missing})
  @@ (util :> {P(<<>>, 1), P(<<lib>>, 2)})

MCStartDisks ==
  {(main :> m) @@ (lib :> P(<<>>, 1)) @@ (util :> P(<<>>, 1)) :
     m \in {P(<<lib>>, 1), P(<<lib, util>>, 2)}}
===========================================================================
