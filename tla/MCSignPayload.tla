--------------------------- MODULE MCSignPayload ---------------------------
(* SignPayload on a small instance: chunks of 3 bytes, and requests of 0,  *)
(* 3 and 7 bytes, which make no chunk, one full chunk, and three chunks    *)
(* with a short last one.                                                  *)
EXTENDS SignPayload

\* The coin type of NEAR in an HD path, 397'.
CoinType == [hardened |-> TRUE, index |-> 397]

MCRequests ==
  { SignTransaction(<<>>, <<>>),
    SignMessageNep413(<<1, 2, 3>>, <<>>),
    SignMessageNep366DelegateAction(<<4, 5, 6>>, <<CoinType>>) }
============================================================================
