-------------------------- MODULE MCDistributedTest --------------------------
(* Instances of DistributedTest for TLC.                                     *)
EXTENDS DistributedTest, TLC

\* One tester spreads its test over two services, another uses one of them.
MCServices == [t \in Testers |-> IF t = "t1" THEN <<"s1", "s2">> ELSE <<"s2">>]

\* The two are one execution, or two, or one of them has an id that is no guid.
MCExecutions ==
    { [t \in Testers |-> "guid1"],
      [t \in Testers |-> IF t = "t1" THEN "guid1" ELSE "guid2"],
      [t \in Testers |-> IF t = "t1" THEN "guid1" ELSE "no guid"] }

\* Versions are only compared.
MCSymmetry == Permutations(Versions)
=============================================================================
