--------------------------- MODULE RaleVoterState ---------------------------
(***************************************************************************)
(* What rale.state promises the election (spec 4.4: a transition persists *)
(* term and vote before it is acted on, and a restart loads them): each   *)
(* node's durable term only grows, and within a term its durable vote is  *)
(* cast at most once and never withdrawn.  A move to a higher term may    *)
(* carry a vote of that term (a self vote, a granted request) or none.    *)
(*                                                                         *)
(* RaleElection implements it under the mapping term <- disk[n].term,     *)
(* vote <- disk[n].votedFor (property VoterStateRefined).                 *)
(***************************************************************************)
EXTENDS Naturals

CONSTANTS
    Node,   \* the voters
    Term,   \* the terms a voter can reach
    Nil     \* no vote

VARIABLES
    term,   \* each node's durable current_term
    vote    \* each node's durable voted_for in that term

Init ==
    /\ term = [n \in Node |-> 0]
    /\ vote = [n \in Node |-> Nil]

\* Node n moves to a higher term, with or without a vote in it.
AdvanceTerm(n) ==
    \E t \in Term, v \in Node \cup {Nil} :
        /\ t > term[n]
        /\ term' = [term EXCEPT ![n] = t]
        /\ vote' = [vote EXCEPT ![n] = v]

\* Node n votes in its term, having not voted in it yet.
CastVote(n) ==
    /\ vote[n] = Nil
    /\ \E c \in Node : vote' = [vote EXCEPT ![n] = c]
    /\ UNCHANGED term

Next == \E n \in Node : AdvanceTerm(n) \/ CastVote(n)

Spec == Init /\ [][Next]_<<term, vote>>

=============================================================================
