----------------------------- MODULE HwidIndex -----------------------------
(***************************************************************************)
(* What the matcher expects of the index of a driver pack: the list of     *)
(* the hash codes of its HWIDs, in which find gives the first position of  *)
(* a code and findnext each following one, until there is none.            *)
(***************************************************************************)
EXTENDS Integers, Sequences

CONSTANT Codes

VARIABLES
  codes,   \* the codes added so far
  answer   \* what the last call returned

vars == <<codes, answer>>

None == [isfound |-> FALSE, value |-> 0]

Positions(c) == {v \in 0..(Len(codes) - 1) : codes[v + 1] = c}

\* The answer is the first of the positions P, if there is one
Gives(P) ==
  IF P = {} THEN answer' = None
            ELSE \E v \in P : /\ \A w \in P : v <= w
                              /\ answer' = [isfound |-> TRUE, value |-> v]

\* Until a search has found everything, the list stays as it is
Clear == ~answer.isfound /\ codes' = <<>> /\ UNCHANGED answer

Add ==
  /\ ~answer.isfound
  /\ \E c \in Codes : codes' = Append(codes, c)
  /\ UNCHANGED answer

Find ==
  /\ ~answer.isfound
  /\ \E c \in Codes : Gives(Positions(c))
  /\ UNCHANGED codes

FindNext ==
  /\ answer.isfound
  /\ Gives({v \in Positions(codes[answer.value + 1]) : v > answer.value})
  /\ UNCHANGED codes

Init == codes = <<>> /\ answer = None

Next == Clear \/ Add \/ Find \/ FindNext

Spec == Init /\ [][Next]_vars

=============================================================================
