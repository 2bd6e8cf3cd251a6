----------------------------- MODULE MCRpcClient -----------------------------
(* A small instance of RpcClient for TLC. *)
EXTENDS RpcClient

\* The filter asks for one event of one contract, with any second topic.
Hits    == [address |-> "insurance", topics |-> <<{"Filed"}, {"u", "v"}>>]
hit(t)  == [tx |-> t, address |-> "insurance", topics |-> <<"Filed", "u">>]
short   == [tx |-> 1, address |-> "insurance", topics |-> <<"Filed">>]
foreign == [tx |-> 1, address |-> "token", topics |-> <<"Filed", "u">>]

\* No log, one among others, two of two transactions, and as many as the cap.
Contents == {<<>>, <<foreign, hit(1), short>>, <<hit(1), hit(2)>>, <<hit(2), hit(2), hit(2)>>}
SomeChains == {c \in [Blocks -> Contents] : c[4] # <<>> => c[3] # <<>>}

\* With a cap of 3 an answer of two logs is complete, and its order counts.
Reads == {[from |-> 1, to |-> 4, range |-> r, cap |-> 3] : r \in {2, 4, 5}}
         \cup {[from |-> 1, to |-> 4, range |-> 4, cap |-> 2],
               [from |-> 2, to |-> 1, range |-> 4, cap |-> 3],
               [from |-> 1, to |-> 2, range |-> 4, cap |-> 4]}
         \cup {[params |-> n] : n \in {0, 2, 3}}
=============================================================================
