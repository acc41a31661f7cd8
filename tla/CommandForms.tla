---------------------------- MODULE CommandForms ----------------------------
(***************************************************************************)
(* From a form of the web pages to the payload of a command.  The page     *)
(* posts its form for a preview first, shows what it answers, and posts    *)
(* the same form again when the user agrees.  Each request builds a        *)
(* payload from the form (build_command_payload_from_web_form), which      *)
(* checks it, and checks it again (validate_command_request).              *)
(*                                                                         *)
(* Not here: the commands without parameters, the capabilities of the      *)
(* device and the addresses of the network (NetworkPlan).                  *)
(***************************************************************************)
EXTENDS CommandChecks, Naturals, Sequences, FiniteSets

CONSTANTS
  Commands,  \* the commands whose forms are filled in
  MaxEdits   \* fields of a form that differ from its first values (bound)

VARIABLES
  command, form,  \* the form on the page
  edits,
  page,           \* "editing", "refused", "previewed" or "sent"
  held,           \* the fields that the last report has with the value proposed
  preview, sent   \* the changes that the preview told, and the payload of the command

formVars == <<command, form, edits, page, held, preview, sent>>

Nothing == [nothing |-> "nothing"]

-----------------------------------------------------------------------------
(* How a field of a payload is taken from the form. *)

Text(f) == [how |-> "text", from |-> <<f>>]
OrElse(f) == [how |-> "or", from |-> <<f>>]          \* f or a constant
IsTrue(f) == [how |-> "true", from |-> <<f>>]        \* f.lower() == "true"
Either(f, g) == [how |-> "text", from |-> <<f, g>>]  \* f or g
AnyOf(f, g, h) == [how |-> "text", from |-> <<f, g, h>>]  \* f or g or h

\* The first field with a value, or the last one.
Taken(rule, F) ==
  CHOOSE i \in DOMAIN rule.from :
    /\ \A j \in 1..(i - 1) : F[rule.from[j]] \in Missing
    /\ i = Len(rule.from) \/ F[rule.from[i]] \notin Missing
Value(rule, F) ==
  LET v == F[rule.from[Taken(rule, F)]]
  IN CASE rule.how = "true" -> (IF v = "true" THEN "true" ELSE "false")
       [] rule.how = "or" /\ v \in Missing -> "default"
       [] OTHER -> v

WifiForm(c) ==
  CASE c = "wifi.set_ssid" -> [ssid |-> Text("ssid"), iface |-> Text("iface")]
    [] c = "wifi.set_enabled" -> [enabled |-> IsTrue("enabled"), radio |-> Text("radio")]
    [] c = "wifi.set_password" -> [password |-> Text("wifi_password"), iface |-> Text("iface")]
    [] c = "wifi.set_channel" -> [channel |-> Text("channel"), radio |-> Text("radio")]
    [] c = "wifi.set_country" -> [country |-> Text("country"), radio |-> Text("radio")]
    [] c = "wifi.set_radio" ->
         [radio |-> Text("radio"), enabled |-> IsTrue("enabled"), channel |-> Text("channel"),
          country |-> Text("country"), htmode |-> Text("htmode"), txpower |-> Text("txpower")]
    [] c = "wifi.add_ssid" ->
         [radio |-> Text("radio"), ssid |-> Text("ssid"), network |-> OrElse("network"),
          encryption |-> Text("encryption"), key |-> Text("wifi_password"),
          hidden |-> IsTrue("hidden"), isolate |-> IsTrue("isolate")]
    [] c = "wifi.update_ssid" ->
         [iface |-> Text("iface"), ssid |-> Text("ssid"), network |-> OrElse("network"),
          encryption |-> Text("encryption"), key |-> Text("wifi_password"),
          enabled |-> IsTrue("enabled"), hidden |-> IsTrue("hidden"),
          isolate |-> IsTrue("isolate"), ieee80211r |-> IsTrue("ieee80211r"),
          ieee80211k |-> IsTrue("ieee80211k"), bss_transition |-> IsTrue("bss_transition"),
          mobility_domain |-> Text("mobility_domain")]
    [] c = "wifi.delete_ssid" -> [iface |-> Text("iface")]
    [] c = "wifi.set_schedule" ->
         [radio |-> Text("radio"), enabled |-> IsTrue("enabled"),
          weekdays |-> Text("weekdays"), start |-> Text("start"), stop |-> Text("stop")]
    [] c = "wifi.set_mesh" ->
         [radio |-> Text("radio"), enabled |-> IsTrue("enabled"), mesh_id |-> Text("mesh_id"),
          network |-> OrElse("network"), encryption |-> Text("encryption"),
          key |-> Text("wifi_password")]
    [] c = "wifi.set_guest" ->
         [enabled |-> IsTrue("enabled"), ssid |-> Text("ssid"), radio |-> Text("radio"),
          encryption |-> Text("encryption"), key |-> Text("wifi_password")]

NetworkForm(c) ==
  CASE c = "network.interface_restart" -> [interface |-> Text("interface")]
    [] c = "network.set_wan" ->
         [interface |-> OrElse("interface"), protocol |-> Text("protocol"),
          ip_address |-> Text("ip_address"), netmask |-> Text("netmask"),
          gateway |-> Text("gateway"), dns |-> Text("dns"), username |-> Text("username"),
          password |-> Text("password"), mtu |-> Text("mtu")]
    [] c = "network.set_lan" ->
         [interface |-> OrElse("interface"), ip_address |-> Text("ip_address"),
          netmask |-> Text("netmask")]
    [] c = "network.set_ipv6" ->
         [interface |-> OrElse("interface"), enabled |-> IsTrue("enabled"),
          assignment_length |-> Text("limit"), ra |-> OrElse("protocol"),
          dhcpv6 |-> OrElse("gateway"), ndp |-> OrElse("dns")]
    [] c = "network.set_segment" ->
         [name |-> Text("name"), protocol |-> Text("protocol"), device |-> Text("interface"),
          bridge_section |-> Text("uci_section"), ip_address |-> Text("ip_address"),
          netmask |-> Text("netmask"), enabled |-> IsTrue("enabled"),
          bridge |-> IsTrue("bridge"), ports |-> Text("ports"), stp |-> IsTrue("stp"),
          igmp_snooping |-> IsTrue("igmp_snooping"), dhcp_enabled |-> IsTrue("dhcp_enabled"),
          dhcp_start |-> Text("dhcp_start"), dhcp_limit |-> Text("dhcp_limit"),
          dhcp_leasetime |-> Text("dhcp_leasetime"), policy |-> Text("policy")]
    [] c = "network.delete_segment" -> [name |-> Text("name")]
    [] c = "network.set_vlan" ->
         [section |-> Text("uci_section"), device |-> Text("interface"),
          vlan_id |-> Text("vlan_id"), ports |-> Text("ports")]
    [] c = "network.delete_vlan" -> [section |-> Text("uci_section")]
    [] c = "network.set_multiwan" ->
         [enabled |-> IsTrue("enabled"), primary_interface |-> OrElse("interface"),
          secondary_interface |-> Text("name"), primary_metric |-> OrElse("external_port"),
          secondary_metric |-> OrElse("internal_port"), track_ips |-> Text("track_ips"),
          check_interval |-> OrElse("check_interval"),
          failure_interval |-> OrElse("failure_interval"),
          recovery_interval |-> OrElse("recovery_interval")]
    [] c = "network.set_route" ->
         [section |-> Text("uci_section"), name |-> Text("name"),
          interface |-> OrElse("interface"), target |-> Text("ip_address"),
          gateway |-> Text("gateway"), metric |-> OrElse("mtu")]
    [] c = "network.delete_route" -> [section |-> Text("uci_section"), name |-> Text("name")]
    [] c = "network.set_ddns" ->
         [name |-> Text("name"), enabled |-> IsTrue("enabled"), provider |-> Text("protocol"),
          domain |-> Text("hostname"), username |-> Text("username"),
          password |-> Text("password"), interface |-> OrElse("interface")]
    [] c = "network.set_upnp" ->
         [enabled |-> IsTrue("enabled"), secure_mode |-> IsTrue("blocked")]

VpnForm(c) ==
  CASE c = "vpn.wireguard.set_interface" ->
         [name |-> Either("name", "interface"), enabled |-> IsTrue("enabled"),
          mode |-> OrElse("protocol"), addresses |-> Text("ip_address"),
          listen_port |-> OrElse("external_port"), private_key |-> Text("password"),
          mtu |-> OrElse("mtu")]
    [] c = "vpn.wireguard.set_peer" ->
         [interface |-> Text("interface"), name |-> Text("name"),
          public_key |-> Either("public_key", "username"),
          preshared_key |-> Either("preshared_key", "password"),
          allowed_ips |-> Either("allowed_ips", "ip_address"),
          endpoint |-> Either("endpoint", "hostname"),
          persistent_keepalive |-> OrElse("internal_port"),
          route_allowed_ips |-> IsTrue("enabled")]
    [] c \in {"vpn.wireguard.delete_peer", "vpn.wireguard.export_peer"} ->
         [interface |-> Text("interface"), name |-> Text("name")]
    [] c = "vpn.wireguard.delete_interface" -> [name |-> Either("name", "interface")]
    [] c = "vpn.openvpn.set_client" ->
         [name |-> Text("name"), enabled |-> IsTrue("enabled"),
          config |-> Either("config_text", "protocol")]
    [] c \in {"vpn.openvpn.delete_client", "vpn.openvpn.export_client"} ->
         [name |-> Text("name")]
    [] c = "vpn.openvpn.set_enabled" -> [name |-> Text("name"), enabled |-> IsTrue("enabled")]
    [] c = "vpn.policy.set" ->
         [section |-> Text("uci_section"), name |-> Text("name"), enabled |-> IsTrue("enabled"),
          interface |-> Text("interface"), source |-> AnyOf("source", "ip_address", "mac"),
          destination |-> Either("destination", "network"), protocol |-> OrElse("protocol")]
    [] c = "vpn.policy.delete" -> [section |-> Text("uci_section"), name |-> Text("name")]

SystemForm(c) ==
  CASE c \in {"maintenance.package.install", "maintenance.package.remove",
              "maintenance.package.upgrade"} -> [package |-> Text("name")]
    [] c = "maintenance.backup.restore" ->
         [archive_base64 |-> Either("archive_base64", "config_text")]
    [] c = "maintenance.sysupgrade.check" ->
         [url |-> Either("url", "hostname"), sha256 |-> Either("sha256", "password"),
          expected_model |-> Text("name"), preserve_config |-> IsTrue("enabled")]
    [] c = "maintenance.sysupgrade.apply" ->
         [sha256 |-> Either("sha256", "password"), preserve_config |-> IsTrue("enabled")]
    [] c = "maintenance.logs.read" -> [lines |-> OrElse("limit")]
    [] c = "maintenance.process.signal" ->
         [pid |-> Either("pid", "internal_port"), signal |-> Either("signal", "protocol")]
    [] c = "maintenance.cron.set" -> [content |-> Either("content", "config_text")]
    [] c = "maintenance.service.set" ->
         [service |-> Either("service", "name"), action |-> Text("protocol")]
    [] c = "maintenance.module.configure" -> [module |-> Text("name"), action |-> Text("protocol")]
    [] c = "system.set_hostname" -> [hostname |-> Text("hostname")]
    [] c = "system.restart_service" -> [service |-> Text("service")]
    [] c = "system.set_timezone" -> [zonename |-> Text("zonename"), timezone |-> Text("timezone")]
    [] c = "system.set_ntp" -> [enabled |-> IsTrue("enabled"), servers |-> Text("servers")]
    [] c = "agent.set_auto_update" -> [enabled |-> IsTrue("enabled")]
    [] c = "agent.set_interval" -> [interval_seconds |-> Text("interval_seconds")]
    [] c = "diagnostics.run" -> [checks |-> Text("diagnostics_checks")]

FirewallForm(c) ==
  CASE c = "firewall.set_zone" ->
         [section |-> Text("uci_section"), name |-> Text("name"), networks |-> Text("network"),
          input |-> Text("protocol"), output |-> Text("username"), forward |-> Text("password"),
          masquerade |-> IsTrue("enabled")]
    [] c = "firewall.set_forwarding" ->
         [section |-> Text("uci_section"), src |-> Either("interface", "name"),
          dest |-> Text("network"), enabled |-> IsTrue("enabled")]
    [] c = "firewall.delete_forwarding" ->
         [section |-> Text("uci_section"), src |-> Either("interface", "name"),
          dest |-> Text("network")]
    [] c = "firewall.set_rule" ->
         [section |-> Text("uci_section"), name |-> Text("name"), src |-> Text("interface"),
          dest |-> Text("network"), protocol |-> Text("protocol"), src_ip |-> Text("ip_address"),
          dest_ip |-> Text("internal_ip"), src_port |-> Text("external_port"),
          dest_port |-> Text("internal_port"), target |-> Text("hostname")]
    [] c \in {"firewall.delete_zone", "firewall.delete_rule", "firewall.delete_port_forward",
              "firewall.delete_redirect"} ->
         [section |-> Text("uci_section"), name |-> Text("name")]
    [] c = "firewall.set_redirect" ->
         [section |-> Text("uci_section"), name |-> Text("name"), enabled |-> IsTrue("enabled"),
          src |-> OrElse("interface"), dest |-> OrElse("network"),
          protocol |-> OrElse("protocol"), src_ip |-> Text("source"),
          src_port |-> Text("external_port"), dest_ip |-> Either("internal_ip", "destination"),
          dest_port |-> Text("internal_port"), target |-> OrElse("hostname")]
    [] c = "firewall.set_port_forward" ->
         [section |-> Text("uci_section"), name |-> Text("name"), protocol |-> Text("protocol"),
          external_port |-> Text("external_port"), internal_ip |-> Text("internal_ip"),
          internal_port |-> Text("internal_port")]
    [] c = "dhcp.set_lease" -> [mac |-> Text("mac"), ip |-> Text("ip"), hostname |-> Text("hostname")]
    [] c = "dhcp.delete_lease" -> [mac |-> Text("mac")]
    [] c = "dhcp.set_pool" ->
         [interface |-> OrElse("interface"), start |-> Text("start"), limit |-> Text("limit"),
          leasetime |-> Text("leasetime")]
    [] c = "dns.set_servers" -> [servers |-> Text("servers")]
    [] c \in {"dns.set_dot", "dns.set_doh"} ->
         [provider |-> OrElse("name"), enabled |-> IsTrue("enabled")]
    [] c = "client.set_blocked" -> [mac |-> Text("mac"), blocked |-> IsTrue("blocked")]
    [] c = "qos.set_sqm" ->
         [enabled |-> IsTrue("enabled"), interface |-> Text("interface"),
          download_kbps |-> Text("download_kbps"), upload_kbps |-> Text("upload_kbps"),
          profile |-> OrElse("name"), qdisc |-> OrElse("protocol"), script |-> OrElse("source"),
          qdisc_options |-> Text("config_text"), schedule_enabled |-> IsTrue("blocked"),
          weekdays |-> Text("weekdays"), start |-> Text("start"), stop |-> Text("stop")]

WifiCommands ==
  {"wifi.set_ssid", "wifi.set_enabled", "wifi.set_password", "wifi.set_channel",
   "wifi.set_country", "wifi.set_radio", "wifi.add_ssid", "wifi.update_ssid",
   "wifi.delete_ssid", "wifi.set_schedule", "wifi.set_mesh", "wifi.set_guest"}
NetworkCommands ==
  {"network.interface_restart", "network.set_wan", "network.set_lan", "network.set_ipv6",
   "network.set_segment", "network.delete_segment", "network.set_vlan", "network.delete_vlan",
   "network.set_multiwan", "network.set_route", "network.delete_route", "network.set_ddns",
   "network.set_upnp"}
VpnCommands ==
  {"vpn.wireguard.set_interface", "vpn.wireguard.set_peer", "vpn.wireguard.delete_peer",
   "vpn.wireguard.export_peer", "vpn.wireguard.delete_interface", "vpn.openvpn.set_client",
   "vpn.openvpn.delete_client", "vpn.openvpn.export_client", "vpn.openvpn.set_enabled",
   "vpn.policy.set", "vpn.policy.delete"}
SystemCommands ==
  {"maintenance.package.install", "maintenance.package.remove", "maintenance.package.upgrade",
   "maintenance.backup.restore", "maintenance.sysupgrade.check", "maintenance.sysupgrade.apply",
   "maintenance.logs.read", "maintenance.process.signal", "maintenance.cron.set",
   "maintenance.service.set", "maintenance.module.configure", "system.set_hostname",
   "system.restart_service", "system.set_timezone", "system.set_ntp", "agent.set_auto_update",
   "agent.set_interval", "diagnostics.run"}
FirewallCommands ==
  {"firewall.set_zone", "firewall.delete_zone", "firewall.set_forwarding",
   "firewall.delete_forwarding", "firewall.set_rule", "firewall.delete_rule",
   "firewall.set_redirect", "firewall.delete_redirect", "firewall.set_port_forward",
   "firewall.delete_port_forward", "dhcp.set_lease", "dhcp.delete_lease", "dhcp.set_pool",
   "dns.set_servers", "dns.set_dot", "dns.set_doh", "client.set_blocked", "qos.set_sqm"}
FormCommands ==
  WifiCommands \cup NetworkCommands \cup VpnCommands \cup SystemCommands \cup FirewallCommands

\* The forms whose every field the preview reads.
WholeForms == FormCommands \ {"network.set_segment", "network.set_vlan", "network.set_multiwan"}

Template(c) ==
  CASE c \in WifiCommands -> WifiForm(c)
    [] c \in NetworkCommands -> NetworkForm(c)
    [] c \in VpnCommands -> VpnForm(c)
    [] c \in SystemCommands -> SystemForm(c)
    [] c \in FirewallCommands -> FirewallForm(c)
Checked(c, p) ==
  LET result == CASE c \in WifiCommands -> WifiChecked(c, p)
                  [] c \in NetworkCommands -> NetworkChecked(c, p)
                  [] c \in VpnCommands -> VpnChecked(c, p)
                  [] c \in SystemCommands -> SystemChecked(c, p)
                  [] c \in FirewallCommands -> FirewallChecked(c, p)
  IN IF Refuses(result) THEN Refused ELSE result

Fields(c) == UNION {{t.from[i] : i \in DOMAIN t.from} : t \in
                    {Template(c)[f] : f \in DOMAIN Template(c)}}

-----------------------------------------------------------------------------
(* The two requests. *)

BornTrue == {"enabled", "blocked", "igmp_snooping"}
BornFalse == {"hidden", "isolate", "ieee80211r", "ieee80211k", "bss_transition",
              "bridge", "stp", "dhcp_enabled"}
\* A field that is empty or that the request does not read has its default.
Read(F, f, reads) ==
  IF reads /\ F[f] \notin Missing THEN F[f]
  ELSE IF f \in BornTrue THEN "true" ELSE IF f \in BornFalse THEN "false"
  ELSE IF f = "policy" THEN "default" ELSE "empty"

\* Mutant: one more field is not handed on.
NotPreviewedEither ==
  {"ports", "bridge", "stp", "igmp_snooping", "dhcp_enabled", "dhcp_start", "dhcp_limit",
   "dhcp_leasetime", "policy", "vlan_id", "track_ips", "check_interval",
   "failure_interval", "recovery_interval", "mobility_domain"}
\* web_device_command_preview hands these on to no parameter of the builder.
NotPreviewed ==
  {"ports", "bridge", "stp", "igmp_snooping", "dhcp_enabled", "dhcp_start", "dhcp_limit",
   "dhcp_leasetime", "policy", "vlan_id", "track_ips", "check_interval",
   "failure_interval", "recovery_interval"}

Built(c, F) ==
  LET template == Template(c) IN
  Checked(c, [f \in DOMAIN template |-> Value(template[f], F)])
Twice(c, F) == LET built == Built(c, F) IN IF Refuses(built) THEN Refused ELSE Checked(c, built)

SecretFields == {"password", "key", "private_key", "preshared_key", "config"}
\* These are not told, they say where a change is made.
SelectorFields == {"iface", "radio", "interface"}

\* The fields of a payload that the preview compares with the last report of the router.
Compared(c) ==
  CASE c = "wifi.set_enabled" -> {"enabled"}
    [] c = "wifi.set_ssid" -> {"ssid"}
    [] c = "wifi.set_channel" -> {"channel"}
    [] c = "wifi.set_country" -> {"country"}
    [] c \in {"network.set_wan", "network.set_lan"} ->
         {"protocol", "ip_address", "gateway", "dns"}
    [] c = "system.set_hostname" -> {"hostname"}
    [] c \in {"dhcp.set_lease", "dhcp.delete_lease"} -> {"mac", "ip", "hostname"}
    [] OTHER -> {}

\* Mutants: the values are shown as they are; a field that the form has left empty is not told.
ChangesUnmasked(p, same) ==
  [f \in {g \in DOMAIN p : g \notin SelectorFields /\ p[g] # "absent" /\ g \notin same} |-> p[f]]
ChangesFilled(p, same) ==
  [f \in {g \in DOMAIN p : g \notin SelectorFields /\ p[g] \notin Missing
                             /\ (g \in same => g \in SecretFields)} |->
     IF f \in SecretFields THEN "masked" ELSE p[f]]
\* build_command_preview: the fields of the payload that are no selectors and that the
\* router does not have already; of a secret only that there is one.
Changes(p, same) ==
  [f \in {g \in DOMAIN p : g \notin SelectorFields /\ p[g] # "absent"
                             /\ (g \in same => g \in SecretFields)} |->
     IF f \in SecretFields /\ p[f] \notin Missing THEN "masked" ELSE p[f]]

Received(reads) == [f \in Fields(command) |-> Read(form, f, f \in reads)]
Outcome == Twice(command, Received(Fields(command)))
Previewed == Twice(command, Received(Fields(command) \ NotPreviewed))

FormInit ==
  /\ command \in Commands
  /\ form = [f \in Fields(command) |->
               CASE f \in BornTrue \cup BornFalse -> "true"
                 [] f = "protocol" /\ command \in {"network.set_wan", "network.set_segment"}
                      -> "static"
                 [] f = "encryption" -> "psk2"
                 [] f = "hostname" /\ command = "firewall.set_redirect" -> "empty"
                 [] OTHER -> "good"]
  /\ edits = {} /\ page = "editing" /\ held = {} /\ preview = Nothing /\ sent = Nothing

\* The values that the user may give a field.
Entries(f) ==
  CASE f \in BornTrue \cup BornFalse -> {"true", "false"}
    [] f = "encryption" -> {"empty", "none", "padded", "bad"}
    [] f = "protocol" /\ command \in {"network.set_wan", "network.set_segment"} ->
         {"empty", "static", "dhcp", "pppoe", "none"}
    [] f = "hostname" /\ command = "firewall.set_redirect" -> {"snat", "padded", "bad"}
    [] f = "stop" -> {"empty", "same", "padded", "bad"}
    [] f = "name" /\ command = "maintenance.module.configure" -> {"empty", "storage", "bad"}
    [] f = "protocol" /\ command = "maintenance.module.configure" -> {"empty", "enable", "bad"}
    [] OTHER -> {"empty", "padded", "bad"}

Edit(f, v) ==
  /\ page = "editing" /\ f \notin edits /\ Cardinality(edits) < MaxEdits
  /\ form' = [form EXCEPT ![f] = v] /\ edits' = edits \cup {f}
  /\ UNCHANGED <<command, page, held, preview, sent>>

\* web_device_command_preview: the payload is compared with what the router reported last.
AskPreview ==
  /\ page = "editing"
  /\ \E same \in SUBSET (Compared(command) \cap DOMAIN Previewed) :
       held' = same /\ preview' = Changes(Previewed, same)
  /\ page' = IF Refuses(Previewed) THEN "refused" ELSE "previewed"
  /\ UNCHANGED <<command, form, edits, sent>>

\* The dialog is closed, or the message of the refusal is dismissed.
Close ==
  /\ page \in {"previewed", "refused"}
  /\ page' = "editing" /\ held' = {} /\ preview' = Nothing
  /\ UNCHANGED <<command, form, edits, sent>>

\* web_device_command: the form is posted again, and read whole.  The page sends a
\* command without a transaction at once, any other when the user agrees.
Send ==
  /\ page = "previewed"
  /\ page' = "sent" /\ sent' = Outcome
  /\ UNCHANGED <<command, form, edits, held, preview>>

FormNext ==
  \/ \E f \in Fields(command) : \E v \in Entries(f) : Edit(f, v)
  \/ AskPreview
  \/ Close
  \/ Send

FormSpec == FormInit /\ [][FormNext]_formVars

-----------------------------------------------------------------------------
(* Properties. *)

\* The page keeps a preview as long as it shows one, and a payload is made
\* only after a preview.
FormTypeOK ==
  /\ command \in Commands /\ DOMAIN form = Fields(command) /\ edits \subseteq Fields(command)
  /\ Cardinality(edits) <= MaxEdits /\ held \subseteq Compared(command)
  /\ page \in {"editing", "refused", "previewed", "sent"}
  /\ page = "editing" <=> preview = Nothing
  /\ page = "sent" <=> sent # Nothing

\* The preview is a diff of the command that the form will make (docs/safe-configuration.md
\* and docs/api.md): it is refused when the command would be, every field it tells has the
\* value that is sent, and a field it does not tell is a selector or one that the router
\* reported with that value.  Two requests read one form, with a reader each; only
\* their agreement makes the consent of the user worth something.  It holds of the
\* WholeForms alone: the preview reads network.set_segment, network.set_vlan and
\* network.set_multiwan in part, and tells of another command than the one that is sent.
ToldTruly ==
  page # "editing" =>
    /\ Refuses(preview) <=> Refuses(Outcome)
    /\ ~Refuses(Outcome) =>
         /\ \A f \in DOMAIN preview :
              /\ f \in DOMAIN Outcome
              /\ preview[f] # Outcome[f] => f \in SecretFields /\ preview[f] = "masked"
         /\ \A f \in DOMAIN Outcome \ DOMAIN preview :
              f \in SelectorFields \cup held \/ Outcome[f] = "absent"

\* A payload goes through the checks twice on the web path and once on the API:
\* what they made of it the first time they accept as it is the second time.
AcceptedAgain ==
  LET built == Built(command, Received(Fields(command)))
  IN Refuses(built) \/ Checked(command, built) = built

\* A command that is made has every field that its other fields demand: the
\* agent applies it field by field and would stop in the middle.
Present(p, f) == p[f] \notin Missing
Complete(c, p) ==
  /\ c = "network.set_wan" /\ p.protocol = "static" =>
       Present(p, "ip_address") /\ Present(p, "netmask")
  /\ c = "network.set_wan" /\ p.protocol = "pppoe" =>
       Present(p, "username") /\ Present(p, "password")
  /\ c = "network.set_segment" /\ p.dhcp_enabled = "true" =>
       \A f \in {"ip_address", "netmask", "dhcp_start", "dhcp_limit", "dhcp_leasetime"} :
         Present(p, f)
  /\ c = "network.set_segment" /\ p.bridge = "true" => Present(p, "device")
  /\ c = "wifi.add_ssid" => (p.encryption = "none" <=> ~Present(p, "key"))
  /\ c = "wifi.set_schedule" /\ p.enabled = "true" =>
       Present(p, "weekdays") /\ Present(p, "start") /\ Present(p, "stop") /\ p.stop # "same"
  /\ c = "qos.set_sqm" /\ p.schedule_enabled = "true" =>
       Present(p, "weekdays") /\ Present(p, "start") /\ Present(p, "stop")
  /\ c = "firewall.set_redirect" /\ p.target = "default" => Present(p, "dest_ip")
  /\ c = "vpn.policy.set" => Present(p, "source") \/ Present(p, "destination")
  /\ c = "system.set_ntp" /\ p.enabled = "true" => Present(p, "servers")
  /\ c = "maintenance.module.configure" => ~(p.module = "storage" /\ p.action = "enable")
SentIsComplete == page = "sent" /\ ~Refuses(sent) => Complete(command, sent)

\* No preview shows the value of a field that the catalogue of commands calls
\* secret.  The restore of a backup is not one of them: its archive is secret
\* in the catalogue and has no mask in the preview.
CatalogueSecrets(c) ==
  CASE c \in {"wifi.set_password", "wifi.add_ssid", "wifi.update_ssid", "wifi.set_mesh",
              "wifi.set_guest"} -> {"password", "key"}
    [] c \in {"network.set_wan", "network.set_ddns"} -> {"password"}
    [] c = "vpn.wireguard.set_interface" -> {"private_key"}
    [] c = "vpn.wireguard.set_peer" -> {"preshared_key"}
    [] c = "vpn.openvpn.set_client" -> {"config"}
    [] OTHER -> {}
SecretsMasked ==
  \A f \in CatalogueSecrets(command) \cap DOMAIN preview :
    preview[f] \in Missing \cup {"masked", "refused"}
PreviewTells == (command \in WholeForms => ToldTruly) /\ SecretsMasked

\* What is sent is acceptable to the server again and to the agent as a whole.
SentIsAcceptable == AcceptedAgain /\ SentIsComplete

\* Why: the inductive invariant.
FormInv ==
  /\ FormTypeOK /\ IsFiniteSet(edits)
  /\ page # "editing" => preview = Changes(Previewed, held)
  /\ page \in {"previewed", "sent"} => ~Refuses(Previewed)
  /\ page = "sent" => sent = Outcome
=============================================================================
