------------------------ MODULE MCStructuralCompile ------------------------
(* Three files of code and a concept file.  "two" and "new" declare the same *)
(* names with other bodies (an edited rename), "one" a part of them (a split *)
(* or a merge), "none" nothing.                                              *)
EXTENDS StructuralCompile

MCPath    == 1..3
MCCode    == 1..2
MCContent == {"two", "new", "one", "none"}
MCDecls   == [c \in MCContent |->
               CASE c = "two" -> {<<"f", 1>>, <<"g", 1>>}
                 [] c = "new" -> {<<"f", 1>>, <<"g", 2>>}
                 [] c = "one" -> {<<"f", 1>>}
                 [] c = "none" -> {}]
MCCalls   == [c \in MCContent |-> IF c = "new" THEN {"f"} ELSE {}]
MCImports == [c \in MCContent |-> IF c = "one" THEN {1} ELSE {}]
MCSample  == [c \in MCContent |-> IF c \in {"one", "none"} THEN {1} ELSE {}]
MCDoc     == {9}
MCGoverned == {{1, 2}}
MCVisible == [n \in {"f", "g"} |-> IF n = "f" THEN "Public" ELSE "Private"]
MCBegin   == {<<"two", None, None>>}
=============================================================================
