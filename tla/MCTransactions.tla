---------------------------- MODULE MCTransactions ----------------------------
(* An instance of Transactions for TLC.                                      *)
EXTENDS Transactions, TLC

CONSTANTS c1, c2, c3, r1, r2, o1, o2, s1, s2, app, m1, m2, k1, k2, v1, v2

\* The second and the third call compete for a replica.
SentTo == (c1 :> r1) @@ (c2 :> r2) @@ (c3 :> r2)
OneApplication == (s1 :> app) @@ (s2 :> app)

Appending(m, s, k, v) ==
    [tool |-> "append", mutation_id |-> m, resource |-> s, expected_version |-> 1,
     delta |-> [j \in {k1, k2} |-> IF j = k THEN v ELSE None]]

\* Retries, a mutation id used twice, and calls that meet in a row or in the
\* state that sessions share.
Claiming(m, o) == [tool |-> "claim", mutation_id |-> m, resource |-> o]
SomeRequests ==
    <<Claiming(m1, o1), Claiming(m2, o1), Claiming(m1, o2),
      Appending(m1, s1, k1, v1), Appending(m2, s1, k1, v2), Appending(m2, s2, k2, v2),
      [tool |-> "get", mutation_id |-> None, resource |-> s1]>>

\* Any three of them, the reader on r2; calls of one replica may change places.
SomeCalls ==
    LET n == DOMAIN SomeRequests
    IN  {(c1 :> SomeRequests[i[1]]) @@ (c2 :> SomeRequests[i[2]]) @@ (c3 :> SomeRequests[i[3]]) :
            i \in {j \in (n \ {7}) \X n \X n : j[2] <= j[3]}}
=============================================================================
