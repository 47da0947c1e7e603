------------------------------ MODULE MCOpenApp ------------------------------
(* OpenApp with a USB HID caller, a BLE caller and one app beside NEAR.      *)
(* Three calls: one to leave an answer, one to meet it, and one of the other *)
(* caller.  The user acts once: opens an app where the caller saw none, or   *)
(* leaves the one that the caller saw.                                       *)
EXTENDS OpenApp

MCOtherApps == {"Ethereum"}
============================================================================
