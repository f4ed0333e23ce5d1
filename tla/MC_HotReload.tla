---------------------------- MODULE MC_HotReload ----------------------------
(* Model-checking instance of HotReload: stored definitions that collide on  *)
(* a listen path with each other and with the file source, one that is       *)
(* inactive and one that does not build.                                     *)
EXTENDS HotReload

Definition(path, kind) == [path |-> path, kind |-> kind]

FewDefs == { Definition("/x", "active"), Definition("/y", "active"),
             Definition("/z", "inactive") }

AllDefs == FewDefs \cup { Definition("/x", "broken") }

OneFile == [a \in {"file"} |-> Definition("/y", "active")]

\* "file" is the id of the file source's definition too.
ThreeIds == {"users", "orders", "file"}
=============================================================================
