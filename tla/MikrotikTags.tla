---------------------------- MODULE MikrotikTags ----------------------------
(***************************************************************************)
(* TAGS of mikrotik_metrics.py (src/nix/modules/telegraf/mikrotik): which  *)
(* properties of a RouterOS resource are tags, which are parsed by what,   *)
(* and which are left out (skip); what neither names is detected.          *)
(***************************************************************************)
EXTENDS TLC

Empty == <<>>
By(parser, props) == [p \in props |-> parser]
Text(props) == By("to_str", props)
Skip(props) == By("skip", props)

Resource(tags, types) ==
  [tags |-> tags, types |-> types, monitored |-> FALSE, monitor |-> Empty, firewall |-> FALSE,
   defaults |-> {}]
Monitored(tags, types, monitor) ==
  [Resource(tags, types) EXCEPT !.monitored = TRUE, !.monitor = monitor]

SwitchPort == Resource({"id", "name", "switch"}, Empty)

Ethernet == Monitored(
  {"id", "name", "default-name", "mac-address", "orig-mac-address", "switch", "disabled"},
  By("to_bandwidth", {"bandwidth"})
    @@ Text({"loop-protect-status", "poe-out", "sfp-rate-select", "fec-mode"})
    @@ Skip({"advertise", "arp", "arp-timeout", "loop-protect", "loop-protect-send-interval",
             "loop-protect-disable-time", "power-cycle-interval", "tx-flow-control",
             "rx-flow-control"}),
  Skip({"name", "eeprom"})
    @@ Text({"status", "auto-negotiation", "sfp-type", "sfp-connector-type",
             "sfp-vendor-name", "sfp-vendor-part-number", "sfp-vendor-revision",
             "sfp-vendor-serial", "sfp-manufacturing-date"})
    @@ By("is_good", {"eeprom-checksum"})
    @@ By("to_ethernet_rates", {"supported", "sfp-supported", "advertising",
                                "link-partner-advertising"}))

Wireless == Monitored(
  {"default-name", "name", "comment", "security-profile", "mac-address", "radio-name",
   "ssid", "interface-type", "master-interface", "mode", "disabled", "band"},
  Text({"wireless-protocol"}),
  By("to_channel", {"channel"}) @@ Text({"status", "wireless-protocol"})
    @@ By("to_current_tx_powers", {"current-tx-powers"}))

Registrations == Resource(
  {"interface", "mac-address", "last-ip", "authentication-type", "encryption",
   "group-encryption"},
  Text({"tx-rate-set"}) @@ By("to_signal", {"signal-strength"})
    @@ By("to_strength_at_rates", {"strength-at-rates"}))

PptpClient == Monitored(
  {"name", "comment", "disabled", "connect-to", "profile", "dial-on-demand", "mrru",
   "use-peer-dns", "allow", "add-default-route"},
  Skip({"user", "password", ".about"}),
  Text({"status", "encoding", "local-address", "remote-address"}) @@ Skip({".about"}))

Interface == Resource(
  {"name", "default-name", "type", "mac-address", "comment", "disabled", "slave", "mtu"},
  Skip({".about", "last-link-up-time", "last-link-down-time"}))

DhcpLease == Resource(
  {"blocked", "disabled", "dynamic", "mac-address", "client-id", "server", "address",
   "comment", "dhcp-option"},
  Skip({"address-lists"}) @@ By("to_duration", {"last-seen"})
    @@ Text({"status", "active-address", "active-client-id", "active-mac-address",
             "active-server", "class-id", "host-name"}))

IpsecPeers == Resource(
  {"side", "responder", "local-address", "port", "remote-address"},
  Text({"state"}) @@ Skip({"spii", "spir"}))

IpsecPolicy == Resource(
  {"id", "comment", "disabled", "dynamic", "default", "template", "proposal", "peer", "group",
   "src-address", "dst-address", "src-port", "dst-port", "protocol", "ipsec-protocols",
   "action", "level"},
  Text({"ph2-state", "sa-src-address", "sa-dst-address"}))

IpAddress == Resource(
  {"comment", "actual-interface", "interface", "dynamic", "disabled", "id"},
  Text({"address", "network"}))

Ipv6Address == Resource(
  {"comment", "actual-interface", "interface", "dynamic", "disabled", "from-pool",
   "advertise", "eui-64", "no-dad", "link-local"},
  Text({"address"}))

DhcpClient == Resource(
  {"comment", "interface", "request", "dynamic", "disabled", "add-default-route",
   "default-route-distance", "dhcp-options", "use-peer-dns", "use-peer-ntp"},
  Text({"status", "address", "gateway", "dhcp-server", "primary-dns", "secondary-dns"})
    @@ Skip({"script", "default-route-tables", "check-gateway"}))

Dhcpv6Client == Resource(
  {"comment", "interface", "disabled", "request", "dhcp-options", "pool-name", "prefix-hint",
   "add-default-route", "rapid-commit", "pool-prefix-length"},
  By("to_expires_after", {"prefix"}) @@ Text({"status", "duid", "dhcp-server-v6"}))

(* A route that is not active does not say so: the field has a default.    *)
Route == [Resource(
  {"id", "comment", "afi", "belongs-to", "vrf-interface", "routing-table", "dst-address",
   "gateway", "distance", "scope", "target-scope", "disabled", "check-gateway", "bgp",
   "blackhole", "connect", "ecmp", "ospf", "rip", "static", "vpn"},
  Text({"contribution", "nexthop-id", "immediate-gw", "local-address"})
    @@ Skip({"debug.fwp-ptr"}))
  EXCEPT !.defaults = {"active"}]

Pool == Resource({"name", "ranges"}, Empty)

Firewall ==
  [Resource({"id", "comment", "disabled", "dynamic", "chain", "action", "log"},
            By("to_int", {"bytes", "packets"}) @@ By("to_bool", {"invalid"}))
   EXCEPT !.firewall = TRUE]

SystemResource == Resource(
  {"architecture-name", "board-name", "platform", "cpu"},
  Text({"version", "factory-software", "build-time"}))

Bridge == Monitored(
  {"name", "mac-address", "admin-mac", "dynamic", "disabled"},
  Skip({"arp", "arp-timeout", "port-cost-mode", "ether-type", "frame-types",
        "max-learned-entries", "ageing-time", "fast-forward", "forward-reserved-addresses",
        "mvrp", "dhcp-snooping", "igmp-snooping"})
    @@ Text({"protocol-mode"}),
  By("to_bridge_id", {"bridge-id", "root-bridge-id"})
    @@ Text({"current-mac-address", "root-port"}) @@ By("is_enabled", {"state"}))

BridgePort == Monitored(
  {"bridge", "interface", "dynamic", "disabled"},
  By("to_int_baseN", {"priority"}) @@ By("is_in_bridge", {"status"}) @@ Text({"role"})
    @@ Skip({".nextid", "frame-types", "edge", "point-to-point", "learn", "horizon",
             "multicast-router", "mvrp-registrar-state", "mvrp-applicant-state",
             "debug-info", "bpdu-guard", "auto-isolate", "broadcast-flood", "fast-leave",
             "hw", "hw-offload-group", "ingress-filtering", "internal-path-cost",
             "path-cost", "restricted-role", "restricted-tcn", "tag-stacking", "trusted",
             "unknown-multicast-flood", "unknown-unicast-flood"}),
  Text({"role", "hw-offload-group"}) @@ By("is_in_bridge", {"status"}))

(* /ip/ipsec/statistics has one item without an id and no table of its own,*)
(* as has what is asked for with --resource-type.                          *)
Plain == Resource({}, Empty)

(* Switch chips, interfaces, DHCP, addresses, IPsec, routes and pools, the *)
(* six firewall tables, the router itself, bridges.                        *)
TAGS == {SwitchPort, Ethernet, Wireless, Registrations, PptpClient, Interface, DhcpLease,
         IpsecPeers, IpsecPolicy, IpAddress, Ipv6Address, DhcpClient, Dhcpv6Client, Route,
         Pool, Firewall, SystemResource, Bridge, BridgePort, Plain}
=============================================================================
