---------------------------- MODULE MCBleChannel ----------------------------
(* BleChannel with an mtu_size of 9: commands of one and of three packets,   *)
(* one that is too large, and answers of four bytes, which take one packet.  *)
EXTENDS BleChannel

MCCommands == { <<1, 1>>, <<2, 2, 2, 2, 2, 2, 2, 2, 2, 2, 2>>,
                <<3, 3, 3, 3, 3, 3, 3, 3, 3, 3, 3, 3>> }
MCAnswer(cmd) == <<Head(cmd), Head(cmd), 144, 0>>
MCMtuReplies == { <<8, 0, 0, 0, 1, 9>> }
MCStrays == { <<8, 0, 0, 0>>, <<>> }

\* Apdus is SelectSeq, on all streams of up to four notifications.
ASSUME ApdusSelects ==
  LET raws == { <<>>, <<8>>, <<5, 0, 0, 0, 2>>, <<5, 0, 1>> }
  IN  \A n \in 0 .. 4 : \A stream \in [1 .. n -> raws] :
        Apdus(stream) = SelectSeq(stream, IsApdu)
============================================================================
