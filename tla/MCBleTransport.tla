--------------------------- MODULE MCBleTransport ---------------------------
(* BleTransport on a small instance.  With an mtu of 6 a packet carries one *)
(* byte, then three: the commands of 5 and 6 bytes make three packets each, *)
(* and an answer of 4 bytes two.  The command of 9 bytes is more than       *)
(* U16Max = 8 and is refused.  A device that replies with an mtu of 3 makes *)
(* infer_mtu fall back to 20, and one packet do.                            *)
EXTENDS BleTransport, TLC

Tasks == Permutations(Callers)

MCCommands == { <<1, 1, 1, 1, 1>>, <<2, 2, 2, 2, 2, 2>>, <<3, 3, 3, 3, 3, 3, 3, 3, 3>> }

\* The answer starts with the first byte of its command and ends in the status
\* word 0x9000.
MCAnswer(cmd) == <<Head(cmd), Head(cmd), 144, 0>>

\* One byte more, and a packet more with an mtu of 6: what is taken for a part of
\* the answer leaves another part behind.
MCLongAnswer(cmd) == <<Head(cmd), Head(cmd), Head(cmd), 144, 0>>

MCMtuReplies == { <<8, 0, 0, 0, 1, 6>>, <<8, 0, 0, 0, 1, 3>> }

\* Another tag, long and short; and an empty notification.
MCStrays == { <<8, 0, 0, 0>>, <<8>>, <<>> }

\* A link that does not fail, and callers that drop no future: what is left to
\* go wrong is that a device, or its user, takes longer than the timeout.
SlowDeviceNext ==
  \/ \E c \in Callers, cmd \in Commands : Begin(c, cmd)
  \/ \E c \in Callers :
        \/ WriteInitial(c) \/ WriteSubsequent(c)
        \/ Lock(c) \/ ReceiveFirst(c) \/ ReceiveRest(c) \/ Timeout(c)
  \/ Device
  \/ AllReturned
SlowDeviceSpec == Init /\ [][SlowDeviceNext]_vars
============================================================================
