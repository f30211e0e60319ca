------------------------------ MODULE Positions ------------------------------
(* The elements of sequences by their positions: what loops filter or sort.  *)
EXTENDS Naturals, FiniteSets

\* The elements of DOMAIN upto, each after the others that upto says are before it.
Listing(upto) ==
    [k \in 1..Cardinality(DOMAIN upto) |->
       CHOOSE x \in DOMAIN upto : Cardinality(upto[x]) = k]

\* The positions in order.
InOrder(positions) == Listing([i \in positions |-> {j \in positions : j <= i}])

\* The elements of a sequence at some positions, in order.
Pick(s, positions) ==
    LET at == InOrder(positions)
    IN  [k \in DOMAIN at |-> s[at[k]]]

\* SelectSeq.
Select(s, Test(_)) == Pick(s, {i \in DOMAIN s : Test(s[i])})

=============================================================================
