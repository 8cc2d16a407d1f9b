----------------------------- MODULE MCIndexing -----------------------------
(***************************************************************************)
(* Values of the constants of Indexing for TLC: two packs, one of them     *)
(* without files, for the interleavings; one pack of two files for a queue *)
(* that is full.                                                           *)
(***************************************************************************)
EXTENDS Indexing

TwoPacks == <<"p1", "p2">>

OneFile == [p \in {"p1", "p2"} |-> IF p = "p1" THEN 1 ELSE 0]

OnePack == <<"p1">>

TwoFiles == [p \in {"p1"} |-> 2]

=============================================================================
