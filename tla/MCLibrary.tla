----------------------------- MODULE MCLibrary -----------------------------
(***************************************************************************)
(* Values of the constants of Library for TLC: a pack which a download     *)
(* replaces under its own name, and one in a subfolder.                    *)
(***************************************************************************)
EXTENDS Library

MCFound == <<"new", "sub">>

MCOlder == [p \in Packs |-> IF p = "new" THEN Packs \cap {"old", "new"} ELSE Packs \cap {p}]

Plain ==
  [keep |-> FALSE, ext |-> FALSE, writable |-> TRUE, readonly |-> {}, hidden |-> FALSE]

MCOptions ==
  {Plain, [Plain EXCEPT !.keep = TRUE, !.readonly = {"new"}], [Plain EXCEPT !.ext = TRUE],
   [Plain EXCEPT !.writable = FALSE, !.hidden = TRUE]}

Default == {Plain}

=============================================================================
