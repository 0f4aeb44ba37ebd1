--------------------------- MODULE MCFileSystems ----------------------------
(* A composed root over an in-memory file system that holds the devices at  *)
(* /a, with a read-only one or a sub-path of another mounted at /b.         *)
EXTENDS FileSystems

MCKind == [root |-> "composed", main |-> "mem", ro |-> "ro", store |-> "mem",
           sub |-> "sub", scratch |-> "mem", dev |-> "dev"]
MCInner == [root |-> "main", ro |-> "store", sub |-> "scratch"]
MCBase == [sub |-> <<"b">>]
Top == <<>> :> Directory
MCInitNodes ==
    [main |-> Top, store |-> Top @@ (<<"a">> :> [EmptyFile EXCEPT !.data = <<1>>]),
     scratch |-> Top @@ (<<"b">> :> Directory) @@ (<<"c">> :> Directory)]
NoMounts == [p \in {} |-> None]
MCInitMounts == [f \in DOMAIN MCKind |-> CASE f = "root" -> <<"b">> :> "ro"
                                           [] f = "main" -> <<"a">> :> "dev"
                                           [] OTHER -> NoMounts]
MCWritten == {<<"a">>, <<"..", "b", ".", "..", "..", "b">>, <<"", "b", "", "a">>, <<"", "a", "null">>}
MCVisited == {<<>>, <<"b">>}
MCPlaces == {<<>>, <<"a">>, <<"b">>, <<"b", "a">>, <<"a", "null">>, <<"a", "zero">>}
MCBuiltinPaths == {<<"b", "a">>}
MCMountPaths == {<<"b">>}
MCMountable == {"ro", "sub"}
Symmetry == Permutations(Handles)
=============================================================================
