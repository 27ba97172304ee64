----------------------------- MODULE MC_DevMgr ------------------------------
(***************************************************************************)
(* Three hosts: h1 runs d1 (preloaded) and d2 (deferred to LoadLeftDriver), *)
(* h2 runs d3 (loaded on demand), h3 has no drivers.  Three hosts are the  *)
(* fewest for which forward and reverse broadcast order differ in the      *)
(* middle as well as at the ends.                                          *)
(***************************************************************************)
EXTENDS DevMgr, TLC

CONSTANTS d1, d2, d3, h1, h2, h3

MCDevices == {d1, d2, d3}

MCHostList == <<h1, h2, h3>>

MCDevicesOf == (h1 :> <<d1, d2>>) @@ (h2 :> <<d3>>) @@ (h3 :> <<>>)

MCInitPreload == (d1 :> "ENABLE") @@ (d2 :> "ENABLE_STEP2") @@ (d3 :> "DISABLE")

\* Every driver publishes a named public service.
MCPolicy == (d1 :> "PUBLIC") @@ (d2 :> "CAPACITY") @@ (d3 :> "PUBLIC")

\* d3 is a private service: it is published into its host only.
MCPolicyPrivate == (d1 :> "PUBLIC") @@ (d2 :> "CAPACITY") @@ (d3 :> "PRIVATE")

MCEntry == [d \in MCDevices |-> {"Bind", "Init", "Release"}]

MCNamed == MCDevices

\* No power events: the device runs leave PowerStateChange out.
MCNoPowerEvents == {}

\* Only an invalid power state: PowerStateChange rejects it and changes
\* nothing, so the system never stops without adding power broadcasts.
MCInvalidPowerEvents == {"BOGUS"}

=============================================================================
