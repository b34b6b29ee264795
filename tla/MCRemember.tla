----------------------------- MODULE MCRemember -----------------------------
(* A session with two texts, each of them distilled in two ways, a note of the *)
(* owner and an agent's correction.                                            *)
EXTENDS Remember

CONSTANTS s, none

Text(since, upto, score, evidence, title, topic) ==
    [session |-> s, since |-> since, upto |-> upto, score |-> score, evidence |-> evidence,
     title |-> title, topic |-> topic, author |-> "unknown", fix |-> FALSE]
Own(author, fix, topic) ==
    [session |-> none, since |-> 0, upto |-> 0, score |-> 9, evidence |-> TRUE,
     title |-> "own", topic |-> topic, author |-> author, fix |-> fix]

FirstTexts == {Text(0, 1, 1, FALSE, "a", "x"), Text(0, 1, 9, FALSE, "b", "x")}
Tails == {Text(1, 2, 10, FALSE, "d", "y"), Text(1, 2, 10, FALSE, "e", "x")}
Owns == {Own("owner", FALSE, "y"), Own("unknown", TRUE, "z")}
MCNote == FirstTexts \cup Tails \cup Owns
=============================================================================
