---------------------------- MODULE CommandChecks ---------------------------
(***************************************************************************)
(* The checks that the server makes of the payload of a command            *)
(* (validate_command_payload and the normalizers it calls): a payload is   *)
(* refused, or its values are put into their normal form.                  *)
(*                                                                         *)
(* A value is what the checks can tell of it: "good", "padded" with blanks *)
(* around it, "bad" (format, range or characters), "same" as the field it  *)
(* must differ from, "empty", "absent"; "default" is what is put in its    *)
(* place.  Choices that other fields depend on have their own names.       *)
(***************************************************************************)

(* The checks of one field. *)

Missing == {"absent", "empty"}
Plain == {"good", "default", "true", "false", "none", "psk2", "static", "dhcp", "pppoe",
          "storage", "enable"}

\* _require_string and _name, _integer, _ipv4, _string_list(required).
Needed(v) == IF v = "padded" THEN "good" ELSE IF v \in Plain THEN v ELSE "refused"
\* _safe_identifier of a field that must be there as it is.
Exact(v) == IF v \in Plain THEN v ELSE "refused"
\* _optional_string: "" when it is missing; or no such field.
Optional(v) == IF v \in Missing THEN "empty" ELSE Needed(v)
Kept(v) == IF v \in Missing THEN "absent" ELSE Needed(v)
\* str(payload.get(...) or default), which does not strip blanks.
Default(v) == IF v \in Missing THEN "default" ELSE Exact(v)
Choice(v, choices, default) ==
  IF v \in Missing THEN default ELSE IF v \in choices THEN v ELSE "refused"
\* _integer(required=False) or default, _optional_string or default.
OrDefault(v) == IF v \in Missing THEN "default" ELSE Needed(v)
\* _boolean.
Flag(v) == IF v \in {"true", "false"} THEN v ELSE "refused"

\* _wifi_encryption, and _wifi_key where it is demanded and where it may be left out.
Encryption(v) == CASE v \in Missing \cup {"padded"} -> "psk2"
                   [] v \in {"none", "psk2"} -> v
                   [] OTHER -> "refused"
\* Mutant: a new network may do without its password.
KeyUndemanded(v, encryption) == IF encryption = "none" THEN "empty" ELSE Optional(v)
Key(v, encryption) == IF encryption = "none" THEN "empty" ELSE Needed(v)
KeyKept(v, encryption) == IF encryption = "none" THEN "empty" ELSE Kept(v)

\* A time of a schedule: looked at only if the schedule is enabled.
Time(enabled, v) ==
  IF enabled = "true" THEN Exact(v) ELSE IF v \in Missing THEN "empty" ELSE v
Weekdays(enabled, v) == IF enabled = "true" THEN Needed(v) ELSE Optional(v)
\* Those of a traffic limit are compared as they are, even if the schedule is not enabled.
ExactDays(enabled, v) ==
  IF v \notin Missing THEN Exact(v) ELSE IF enabled = "true" THEN "refused" ELSE "empty"

Get(p, f) == IF f \in DOMAIN p THEN p[f] ELSE "absent"
When(condition, v) == IF condition THEN v ELSE "absent"
Refuses(p) == \E f \in DOMAIN p : p[f] = "refused"
Refused == [refused |-> "refused"]
Demand(condition, p) == IF condition THEN p ELSE Refused

-----------------------------------------------------------------------------
(* Wi-Fi. *)

WifiEnabled(p) == [enabled |-> Flag(p.enabled), radio |-> Kept(p.radio)]
WifiSsid(p) == [ssid |-> Needed(p.ssid), iface |-> Kept(p.iface)]

\* Mutant: the agent's name of the field is the only one left.
WifiPasswordRenamed(p) == [key |-> Needed(Get(p, "password")), iface |-> Kept(p.iface)]
WifiPassword(p) == [password |-> Needed(Get(p, "password")),
                    key |-> Needed(Get(p, "password")), iface |-> Kept(p.iface)]
WifiChannel(p) == [radio |-> Needed(p.radio), channel |-> Needed(p.channel)]
WifiCountry(p) == [radio |-> Needed(p.radio), country |-> Needed(p.country)]
WifiRadio(p) ==
  [radio |-> Needed(p.radio), enabled |-> Flag(p.enabled), channel |-> Kept(p.channel),
   country |-> Kept(p.country), htmode |-> Kept(p.htmode), txpower |-> Kept(p.txpower)]
WifiAddSsid(p) ==
  LET encryption == Encryption(p.encryption) IN
  [radio |-> Needed(p.radio), ssid |-> Needed(p.ssid), network |-> Default(p.network),
   encryption |-> encryption, key |-> Key(p.key, encryption),
   hidden |-> Flag(p.hidden), isolate |-> Flag(p.isolate)]
WifiUpdateSsid(p) ==
  LET encryption == Encryption(p.encryption) IN
  [iface |-> Needed(p.iface), ssid |-> Needed(p.ssid), network |-> Default(p.network),
   encryption |-> encryption, key |-> KeyKept(p.key, encryption),
   enabled |-> Flag(p.enabled), hidden |-> Flag(p.hidden), isolate |-> Flag(p.isolate),
   ieee80211r |-> Flag(p.ieee80211r), ieee80211k |-> Flag(p.ieee80211k),
   bss_transition |-> Flag(p.bss_transition),
   mobility_domain |-> When(p.ieee80211r = "true", OrDefault(p.mobility_domain))]
WifiSchedule(p) ==
  [radio |-> Needed(p.radio), enabled |-> Flag(p.enabled),
   weekdays |-> Weekdays(p.enabled, p.weekdays),
   start |-> Time(p.enabled, p.start), stop |-> Time(p.enabled, p.stop)]
WifiMesh(p) ==
  LET on == p.enabled = "true"
      encryption == Choice(p.encryption, {"none", "psk2"}, "psk2")
  IN [radio |-> Needed(p.radio), enabled |-> Flag(p.enabled),
      mesh_id |-> When(on, Needed(p.mesh_id)), network |-> When(on, Default(p.network)),
      encryption |-> When(on, encryption),
      key |-> When(on /\ encryption # "none", Kept(p.key))]
WifiGuest(p) ==
  LET on == p.enabled = "true"
      encryption == When(on /\ p.encryption \notin Missing, Encryption(p.encryption))
  IN [enabled |-> Flag(p.enabled), ssid |-> When(on, Kept(p.ssid)),
      encryption |-> encryption,
      key |-> When(encryption # "absent", KeyKept(p.key, encryption)),
      radio |-> Kept(p.radio)]

-----------------------------------------------------------------------------
(* Network, DHCP, DNS and clients. *)

Wan(p) ==
  LET protocol == Choice(p.protocol, {"dhcp", "static", "pppoe"}, "dhcp")
      static == protocol = "static"
      pppoe == protocol = "pppoe"
  IN [interface |-> Default(p.interface), protocol |-> protocol,
      mtu |-> Kept(p.mtu), dns |-> Kept(p.dns),
      ip_address |-> When(static, Needed(p.ip_address)),
      netmask |-> When(static, Needed(p.netmask)),
      gateway |-> When(static, Kept(p.gateway)),
      username |-> When(pppoe, Needed(p.username)),
      password |-> When(pppoe, Needed(p.password))]
Lan(p) == [interface |-> Default(p.interface), ip_address |-> Needed(p.ip_address),
           netmask |-> Needed(p.netmask)]
Ipv6(p) ==
  LET on == p.enabled = "true" IN
  [interface |-> Default(p.interface), enabled |-> Flag(p.enabled),
   assignment_length |-> When(on, Needed(p.assignment_length)),
   ra |-> When(on, Default(p.ra)), dhcpv6 |-> When(on, Default(p.dhcpv6)),
   ndp |-> When(on, Default(p.ndp))]
Segment(p) ==
  LET protocol == Choice(p.protocol, {"static", "dhcp", "none"}, "static")
      dhcp == p.dhcp_enabled = "true"
  IN Demand(dhcp => protocol = "static",
     [name |-> Needed(p.name), protocol |-> protocol,
      device |-> IF p.device \notin Missing THEN Needed(p.device)
                 ELSE IF p.bridge = "true" THEN "default" ELSE "empty",
      bridge_section |-> Optional(p.bridge_section), ports |-> Optional(p.ports),
      enabled |-> Flag(p.enabled), bridge |-> Flag(p.bridge), stp |-> Flag(p.stp),
      igmp_snooping |-> Flag(p.igmp_snooping), policy |-> Default(p.policy),
      ip_address |-> When(protocol = "static", Needed(p.ip_address)),
      netmask |-> When(protocol = "static", Needed(p.netmask)),
      dhcp_enabled |-> Flag(p.dhcp_enabled),
      dhcp_start |-> When(dhcp, Needed(p.dhcp_start)),
      dhcp_limit |-> When(dhcp, Needed(p.dhcp_limit)),
      dhcp_leasetime |-> When(dhcp, Needed(p.dhcp_leasetime))])
Vlan(p) == [section |-> Optional(p.section), device |-> Needed(p.device),
            vlan_id |-> Needed(p.vlan_id), ports |-> Needed(p.ports)]
MultiWan(p) ==
  [enabled |-> Flag(p.enabled), primary_interface |-> Default(p.primary_interface),
   secondary_interface |-> Needed(p.secondary_interface),
   primary_metric |-> Needed(p.primary_metric),
   secondary_metric |-> Needed(p.secondary_metric),
   track_ips |-> OrDefault(p.track_ips), check_interval |-> OrDefault(p.check_interval),
   failure_interval |-> OrDefault(p.failure_interval),
   recovery_interval |-> OrDefault(p.recovery_interval)]
Route(p) ==
  [section |-> Optional(p.section), name |-> Needed(p.name),
   interface |-> Default(p.interface), target |-> Needed(p.target),
   gateway |-> Optional(p.gateway), metric |-> OrDefault(p.metric)]
Ddns(p) ==
  [name |-> Needed(p.name), enabled |-> Flag(p.enabled), provider |-> Needed(p.provider),
   domain |-> Needed(p.domain), username |-> Optional(p.username),
   password |-> Optional(p.password), interface |-> Default(p.interface)]
Upnp(p) == [enabled |-> Flag(p.enabled), secure_mode |-> Flag(p.secure_mode)]

DhcpLease(p) == [mac |-> Needed(p.mac), ip |-> Needed(p.ip), hostname |-> Needed(p.hostname)]
DhcpPool(p) ==
  [interface |-> Default(p.interface), start |-> Needed(p.start),
   limit |-> Needed(p.limit), leasetime |-> Needed(p.leasetime)]
DnsServers(p) == [servers |-> Needed(p.servers)]
DnsProvider(p) == [mode |-> "default", provider |-> OrDefault(p.provider),
                   enabled |-> Flag(p.enabled)]
ClientBlock(p) == [mac |-> Needed(p.mac), blocked |-> Flag(p.blocked)]
Sqm(p) ==
  [enabled |-> Flag(p.enabled), interface |-> Needed(p.interface),
   download_kbps |-> Needed(p.download_kbps), upload_kbps |-> Needed(p.upload_kbps),
   profile |-> Default(p.profile), qdisc |-> Default(p.qdisc), script |-> Default(p.script),
   qdisc_options |-> Optional(p.qdisc_options),
   schedule_enabled |-> Flag(p.schedule_enabled),
   weekdays |-> ExactDays(p.schedule_enabled, p.weekdays),
   start |-> Time(p.schedule_enabled, p.start),
   stop |-> IF p.stop = "same" THEN "same" ELSE Time(p.schedule_enabled, p.stop)]

-----------------------------------------------------------------------------
(* Firewall and VPN. *)

Named(p) == [section |-> Optional(p.section), name |-> Needed(p.name)]
Zone(p) ==
  [section |-> Optional(p.section), name |-> Needed(p.name), networks |-> Needed(p.networks),
   input |-> Default(p.input), output |-> Default(p.output), forward |-> Default(p.forward),
   masquerade |-> Flag(p.masquerade)]
Forwarding(p) == [section |-> Optional(p.section), src |-> Needed(p.src),
                  dest |-> Needed(p.dest), enabled |-> Flag(p.enabled)]
FirewallRule(p) ==
  [section |-> Optional(p.section), name |-> Needed(p.name),
   src |-> OrDefault(p.src), dest |-> OrDefault(p.dest),
   protocol |-> Default(p.protocol), target |-> Default(p.target),
   src_ip |-> Optional(p.src_ip), dest_ip |-> Optional(p.dest_ip),
   src_port |-> Optional(p.src_port), dest_port |-> Optional(p.dest_port)]
\* The target is DNAT, the default, or "snat".
Redirect(p) ==
  LET target == Choice(p.target, {"default", "snat"}, "default") IN
  Demand(target = "default" => p.dest_ip \notin Missing,
  [section |-> Optional(p.section), name |-> Needed(p.name), enabled |-> Flag(p.enabled),
   src |-> OrDefault(p.src), dest |-> OrDefault(p.dest), protocol |-> Default(p.protocol),
   src_ip |-> Optional(p.src_ip), src_port |-> Optional(p.src_port),
   dest_ip |-> Optional(p.dest_ip), dest_port |-> Optional(p.dest_port), target |-> target])
DeleteRedirect(p) == [section |-> Needed(p.section), name |-> Needed(p.name)]
PortForward(p) ==
  [section |-> Optional(p.section), name |-> Needed(p.name), protocol |-> Default(p.protocol),
   external_port |-> Needed(p.external_port), internal_ip |-> Needed(p.internal_ip),
   internal_port |-> Needed(p.internal_port)]

WgInterface(p) ==
  [name |-> Needed(p.name), enabled |-> Flag(p.enabled), mode |-> Default(p.mode),
   addresses |-> Needed(p.addresses), listen_port |-> Needed(p.listen_port),
   private_key |-> Optional(p.private_key), mtu |-> OrDefault(p.mtu)]
WgPeer(p) ==
  [interface |-> Needed(p.interface), name |-> Needed(p.name),
   public_key |-> Needed(p.public_key), preshared_key |-> Optional(p.preshared_key),
   allowed_ips |-> Needed(p.allowed_ips), endpoint |-> Optional(p.endpoint),
   persistent_keepalive |-> OrDefault(p.persistent_keepalive),
   route_allowed_ips |-> Flag(p.route_allowed_ips)]
OpenVpn(p) == [name |-> Needed(p.name), enabled |-> Flag(p.enabled), config |-> Needed(p.config)]
VpnPolicy(p) ==
  Demand(p.source \notin Missing \/ p.destination \notin Missing,
  [section |-> Optional(p.section), name |-> Needed(p.name), enabled |-> Flag(p.enabled),
   interface |-> Needed(p.interface), source |-> Optional(p.source),
   destination |-> Optional(p.destination), protocol |-> Default(p.protocol)])

-----------------------------------------------------------------------------
(* System and maintenance. *)

Hostname(p) == [hostname |-> Needed(p.hostname)]
Service(p) == [service |-> Needed(p.service)]
Timezone(p) == [zonename |-> Needed(p.zonename), timezone |-> OrDefault(p.timezone)]
Ntp(p) == [enabled |-> Flag(p.enabled),
           servers |-> IF p.enabled = "true" THEN Needed(p.servers) ELSE Optional(p.servers)]
Package(p) == [package |-> Needed(p.package)]
\* Mutant: a module and an action are checked apart.
ModuleUncrossed(p) == [module |-> Needed(p.module), action |-> Needed(p.action)]
\* "storage" stands for the modules without a service, "enable" for switching one.
Module(p) == Demand(~(p.module = "storage" /\ p.action = "enable"),
                    [module |-> Needed(p.module), action |-> Needed(p.action)])
BackupRestore(p) == [archive_base64 |-> Needed(p.archive_base64)]
SysupgradeApply(p) == [sha256 |-> Needed(p.sha256), preserve_config |-> Flag(p.preserve_config)]
Sysupgrade(p) ==
  [url |-> Needed(p.url), expected_model |-> Optional(p.expected_model),
   sha256 |-> Needed(p.sha256), preserve_config |-> Flag(p.preserve_config)]
Cron(p) == [content |-> Optional(p.content)]
Diagnostics(p) == [checks |-> OrDefault(p.checks)]
AutoUpdate(p) == [enabled |-> Flag(p.enabled)]
Interval(p) == [interval_seconds |-> Needed(p.interval_seconds)]
Logs(p) == [lines |-> Needed(p.lines)]
ProcessSignal(p) == [pid |-> Needed(p.pid), signal |-> Default(p.signal)]
ServiceSet(p) == [service |-> Exact(p.service), action |-> Exact(p.action)]

-----------------------------------------------------------------------------
(* validate_command_payload: the checks of each command. *)

WifiChecked(c, p) ==
  CASE c = "wifi.set_enabled" -> WifiEnabled(p)
    [] c \in {"wifi.get_qr", "wifi.delete_ssid"} -> [iface |-> Needed(p.iface)]
    [] c = "wifi.set_ssid" -> WifiSsid(p)
    [] c = "wifi.set_password" -> WifiPassword(p)
    [] c = "wifi.set_channel" -> WifiChannel(p)
    [] c = "wifi.set_country" -> WifiCountry(p)
    [] c = "wifi.set_radio" -> WifiRadio(p)
    [] c = "wifi.add_ssid" -> WifiAddSsid(p)
    [] c = "wifi.update_ssid" -> WifiUpdateSsid(p)
    [] c = "wifi.set_schedule" -> WifiSchedule(p)
    [] c = "wifi.set_mesh" -> WifiMesh(p)
    [] c = "wifi.set_guest" -> WifiGuest(p)
NetworkChecked(c, p) ==
  CASE c = "network.interface_restart" -> [interface |-> Needed(p.interface)]
    [] c = "network.set_wan" -> Wan(p)
    [] c = "network.set_lan" -> Lan(p)
    [] c = "network.set_ipv6" -> Ipv6(p)
    [] c = "network.set_segment" -> Segment(p)
    [] c = "network.delete_segment" -> [name |-> Needed(p.name)]
    [] c = "network.set_vlan" -> Vlan(p)
    [] c = "network.delete_vlan" -> [section |-> Needed(p.section)]
    [] c = "network.set_multiwan" -> MultiWan(p)
    [] c = "network.set_route" -> Route(p)
    [] c = "network.delete_route" -> Named(p)
    [] c = "network.set_ddns" -> Ddns(p)
    [] c = "network.set_upnp" -> Upnp(p)
VpnChecked(c, p) ==
  CASE c = "vpn.wireguard.set_interface" -> WgInterface(p)
    [] c = "vpn.wireguard.set_peer" -> WgPeer(p)
    [] c \in {"vpn.wireguard.delete_peer", "vpn.wireguard.export_peer"} ->
         [interface |-> Needed(p.interface), name |-> Needed(p.name)]
    [] c = "vpn.openvpn.set_client" -> OpenVpn(p)
    [] c \in {"vpn.wireguard.delete_interface", "vpn.openvpn.delete_client",
              "vpn.openvpn.export_client"} -> [name |-> Needed(p.name)]
    [] c = "vpn.openvpn.set_enabled" -> [name |-> Needed(p.name), enabled |-> Flag(p.enabled)]
    [] c = "vpn.policy.set" -> VpnPolicy(p)
    [] c = "vpn.policy.delete" -> Named(p)
SystemChecked(c, p) ==
  CASE c \in {"maintenance.package.install", "maintenance.package.upgrade",
              "maintenance.package.remove"} -> Package(p)
    [] c = "maintenance.module.configure" -> Module(p)
    [] c = "maintenance.backup.restore" -> BackupRestore(p)
    [] c = "maintenance.sysupgrade.check" -> Sysupgrade(p)
    [] c = "maintenance.sysupgrade.apply" -> SysupgradeApply(p)
    [] c = "maintenance.logs.read" -> Logs(p)
    [] c = "maintenance.process.signal" -> ProcessSignal(p)
    [] c = "maintenance.cron.set" -> Cron(p)
    [] c = "maintenance.service.set" -> ServiceSet(p)
    [] c = "system.set_hostname" -> Hostname(p)
    [] c = "system.restart_service" -> Service(p)
    [] c = "system.set_timezone" -> Timezone(p)
    [] c = "system.set_ntp" -> Ntp(p)
    [] c = "diagnostics.run" -> Diagnostics(p)
    [] c = "agent.set_auto_update" -> AutoUpdate(p)
    [] c = "agent.set_interval" -> Interval(p)
FirewallChecked(c, p) ==
  CASE c = "firewall.set_zone" -> Zone(p)
    [] c = "firewall.set_forwarding" -> Forwarding(p)
    [] c = "firewall.delete_forwarding" ->
         [section |-> Optional(p.section), src |-> Needed(p.src), dest |-> Needed(p.dest)]
    [] c = "firewall.set_rule" -> FirewallRule(p)
    [] c \in {"firewall.delete_zone", "firewall.delete_rule",
              "firewall.delete_port_forward"} -> Named(p)
    [] c = "firewall.set_redirect" -> Redirect(p)
    [] c = "firewall.delete_redirect" -> DeleteRedirect(p)
    [] c = "firewall.set_port_forward" -> PortForward(p)
    [] c = "dhcp.set_lease" -> DhcpLease(p)
    [] c = "dhcp.delete_lease" -> [mac |-> Needed(p.mac)]
    [] c = "dhcp.set_pool" -> DhcpPool(p)
    [] c = "dns.set_servers" -> DnsServers(p)
    [] c \in {"dns.set_dot", "dns.set_doh"} -> DnsProvider(p)
    [] c = "client.set_blocked" -> ClientBlock(p)
    [] c = "qos.set_sqm" -> Sqm(p)

=============================================================================
