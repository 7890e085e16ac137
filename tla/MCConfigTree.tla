---------------------------- MODULE MCConfigTree ----------------------------
(* An instance of ConfigTree for TLC.                                      *)
EXTENDS ConfigTree

CONSTANTS x, y, first, second, nested, swapped, unsound

MCTemp ==
  <<"app", "a">> :> <<"app", ".a">> @@
  <<"app", "sub", "b">> :> <<"app", "sub", ".b">> @@
  <<"app", "sub">> :> <<"app", ".sub">> @@
  <<".web", "c">> :> <<".web", ".c">>

MCUndotted == ".web" :> "web"

MCPaths == {<<"app">>, <<".web">>} \union DOMAIN MCTemp
             \union {MCTemp[p] : p \in DOMAIN MCTemp}

App(files) == [target |-> <<"app">>, sound |-> TRUE, files |-> files]
Sub(files) == [target |-> <<"app", "sub">>, sound |-> TRUE, files |-> files]
Web(files) == [target |-> <<".web">>, sound |-> TRUE, files |-> files]

(* first and second differ in a file and in a directory; nested declares a *)
(* tree below another; swapped turns first's directory into a file, after  *)
(* a tree that is in order; unsound has such a tree before a bad one.      *)
MCTrees ==
  first :> <<App(<<"app", "a">> :> x @@ <<"app", "sub", "b">> :> x),
             Web(<<".web", "c">> :> x)>> @@
  second :> <<App(<<"app", "a">> :> y), Web(<<".web", "c">> :> x)>> @@
  nested :> <<Sub(<<"app", "sub", "b">> :> x), App(<<"app", "a">> :> y)>> @@
  swapped :> <<Web(<<".web", "c">> :> y), App(<<"app", "sub">> :> x)>> @@
  unsound :> <<Web(<<".web", "c">> :> y),
               [App(<<"app", "a">> :> x) EXCEPT !.sound = FALSE]>>
=============================================================================
