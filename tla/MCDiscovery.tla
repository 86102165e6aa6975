---------------------------- MODULE MCDiscovery -----------------------------
(***************************************************************************)
(* Instances of Discovery for TLC: every purpose that has a service for    *)
(* each range of versions, and DeviceInfo.  Services chooses among them.   *)
(***************************************************************************)
EXTENDS Discovery, TLC

Purposes ==
    "logs738" :> LogService("System", 729, 738)
    @@ "logs" :> LogService("System", 739, Latest)
    @@ "channels757" :> CableChannels757 @@ "channels" :> CableChannels758
    @@ "vpn738" :> VPNUsers738 @@ "ipsec" :> VPNUsersIPSec
    @@ "wireguard" :> VPNUsersWireGuard
    @@ "device" :> DeviceInfo

LookedAt == [s \in Services |-> Purposes[s]]

\* A DSL box, and a cable box that does not say so.
BothBoxes ==
    {[model |-> <<7590, "AX">>, access_type |-> "DSL",
      offers |-> {"device"}],
     [model |-> <<6690, "">>, access_type |-> "Other",
      offers |-> {"device"}]}
=============================================================================
