--------------------------- MODULE SigningService ---------------------------
(***************************************************************************)
(* What a caller of sign_transaction, sign_message_nep413 and              *)
(* sign_message_nep366_delegate_action relies on, whatever happens to the  *)
(* chunks below: one call makes at most one signature; Ok hands back that  *)
(* signature; a status error or "Unable to process request" means that     *)
(* nothing was signed; only a transport error leaves the question open.    *)
(* The signature is over the whole request and nothing else, unless the    *)
(* session of the call was torn: others used the app in the middle of it.  *)
(* A call that ended without its answer, by a transport error or because   *)
(* it was dropped, can make the next call of its caller late: that one may *)
(* take the answer left over for its own, and its Ok or its status error   *)
(* then says nothing of what it signed.  So may the calls after it, until  *)
(* the transport is made anew.                                             *)
(***************************************************************************)
EXTENDS Sequences

CONSTANTS Callers, Requests, SignatureOver(_)

VARIABLES active, request, outcome, signed, torn, late

vars == <<active, request, outcome, signed, torn, late>>

Outcomes == {"ok", "status", "unable", "transport", "abandoned"}

Init ==
  /\ active = [c \in Callers |-> FALSE]
  /\ signed = [c \in Callers |-> <<>>]
  /\ torn = {}
  /\ late = {}
  /\ outcome \in [Callers -> {[kind |-> "none", data |-> <<>>]}]
  /\ request \in [Callers -> Requests]

\* A call begins; or it fails at once, for want of a device.  Only a call that
\* ended without its answer, or was late itself, makes the next one late.
Ask(c, r) ==
  /\ ~active[c]
  /\ request' = [request EXCEPT ![c] = r]
  /\ signed' = [signed EXCEPT ![c] = <<>>]
  /\ torn' = torn \ {c}
  /\ late' \in {late \ {c}, late \cup {c}}
  /\ c \in late' => c \in late \/ outcome[c].kind \in {"transport", "abandoned"}
  /\ \/ /\ active' = [active EXCEPT ![c] = TRUE]
        /\ outcome' = [outcome EXCEPT ![c] = [kind |-> "none", data |-> <<>>]]
     \/ /\ outcome' = [outcome EXCEPT ![c] = [kind |-> "transport", data |-> <<>>]]
        /\ UNCHANGED active

\* Sessions are torn at any time, and stay so until the next call.
Disturb ==
  /\ torn \subseteq torn'
  /\ torn' \subseteq Callers
  /\ UNCHANGED <<active, request, outcome, signed, late>>

\* The device signs, once in a call.
Sign(c) ==
  /\ active[c]
  /\ signed[c] = <<>>
  /\ torn \subseteq torn' /\ torn' \subseteq Callers
  /\ Len(signed'[c]) = 1
  /\ c \notin torn' \cup late => signed'[c] = <<SignatureOver(request[c])>>
  /\ signed' = [signed EXCEPT ![c] = signed'[c]]
  /\ UNCHANGED <<active, request, outcome, late>>

Return(c) ==
  /\ active[c]
  /\ active' = [active EXCEPT ![c] = FALSE]
  /\ outcome'[c].kind \in Outcomes
  /\ outcome'[c].kind = "ok" \/ outcome'[c].data = <<>>
  /\ outcome'[c].kind = "unable" => signed[c] = <<>>
  /\ c \notin late =>
       /\ outcome'[c].kind = "ok" => outcome'[c].data = signed[c] /\ signed[c] # <<>>
       /\ outcome'[c].kind = "status" => signed[c] = <<>>
  /\ outcome' = [outcome EXCEPT ![c] = outcome'[c]]
  /\ UNCHANGED <<request, signed, torn, late>>

Next ==
  \/ \E c \in Callers, r \in Requests : Ask(c, r)
  \/ \E c \in Callers : Sign(c) \/ Return(c)
  \/ Disturb

Spec == Init /\ [][Next]_vars
============================================================================
