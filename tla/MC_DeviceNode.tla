--------------------------- MODULE MC_DeviceNode ----------------------------
(***************************************************************************)
(* Three drivers that between them take every branch of launch:           *)
(*   d1  PUBLIC,   Bind, Init, Release: global and local publish;          *)
(*   d2  CAPACITY, no Bind: Launch fails with INVALID_OBJECT;              *)
(*   d3  PRIVATE,  Init only: local publish without the registry;          *)
(*   d4  NONE,     no Init, empty name: Launch fails with INVALID_PARAM.   *)
(***************************************************************************)
EXTENDS DeviceNode, TLC

CONSTANTS d1, d2, d3, d4

MCDevices == {d1, d2, d3, d4}

MCPolicy == (d1 :> "PUBLIC") @@ (d2 :> "CAPACITY") @@ (d3 :> "PRIVATE") @@ (d4 :> "NONE")

MCEntry == (d1 :> {"Bind", "Init", "Release"}) @@ (d2 :> {"Init", "Release"})
           @@ (d3 :> {"Init"}) @@ (d4 :> {"Bind", "Release"})

MCNamed == {d1, d2, d3}

=============================================================================
