------------------------------ MODULE MCConfig ------------------------------
(* Instances of ConfigTransaction for TLC: which files two commands change. *)
EXTENDS ConfigTransaction

\* network.set_ipv6 (network, dhcp) and wifi.set_ssid (wireless).
DisjointFiles == [t \in Txs |-> IF t = 1 THEN {"network", "dhcp"} ELSE {"wireless"}]

\* network.set_upnp (upnpd, firewall) and client.set_policy (firewall among
\* others), which the agent does not consider connectivity sensitive.
Overlapping == [t \in Txs |-> IF t = 1 THEN {"upnpd", "firewall"} ELSE {"firewall"}]
============================================================================
