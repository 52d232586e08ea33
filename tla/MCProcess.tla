------------------------------- MODULE MCProcess -------------------------------
(* Process for TLC: a class A that a rehash may enlarge, free of its limit *)
(* or remove, also under the feet of a connect{} block.                    *)
EXTENDS Process, TLC

CONSTANTS a, b, x, hub, p6667, net

OneNet == [u \in Client |-> net]

WithClass(max, perIp) ==
    [has |-> {a}, max |-> [n \in ClassName |-> max], perIp |-> [n \in ClassName |-> perIp],
     auth |-> [i \in Auth |-> a], link |-> [i \in Link |-> a], port |-> {p6667}]

\* linked: the class of the connect{} block.
WithoutClass(linked) ==
    [has |-> {}, max |-> [n \in ClassName |-> 0], perIp |-> [n \in ClassName |-> 1],
     auth |-> [i \in Auth |-> "default"], link |-> [i \in Link |-> linked], port |-> {}]

Symmetry == Permutations(Client) \cup Permutations(Nick)

MCConfigs == {WithClass(1, 1), WithClass(3, 0),
              WithoutClass("default"), WithoutClass(a)}

===============================================================================
