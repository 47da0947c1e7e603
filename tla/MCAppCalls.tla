----------------------------- MODULE MCAppCalls -----------------------------
(* AppCalls with a request of two chunks and one of three, and one path.     *)
EXTENDS AppCalls

MCChunksOf == [r2 |-> 2, r3 |-> 3]
MCErrorCodes == {RETURN_CODE_DECLINE, 27010}
============================================================================
