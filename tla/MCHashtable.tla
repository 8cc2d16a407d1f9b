---------------------------- MODULE MCHashtable ----------------------------
EXTENDS Hashtable

\* Two ids with one code, and two codes that share a slot of two
MCCode(h) == CASE h = "a" -> 1 [] h = "b" -> 2 [] h = "c" -> 4 [] h = "d" -> 4
MCSlot(c) == c
=============================================================================
