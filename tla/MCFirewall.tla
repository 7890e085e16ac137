---------------------------- MODULE MCFirewall ----------------------------
(* Two services of a host with two interfaces: `web` is on a bridge, `dns` *)
(* may use the host's network.  The ingress rules and mappings to choose   *)
(* from agree and disagree in service, address, family, port and target.   *)
EXTENDS Firewall, FiniteSetsExt

MCFamily(x) == IF x \in {"a6", "h6"} THEN 6 ELSE 4

Lan == {"h1", "h2"}
Ingress(service, protocol, ports, interface, bind, sources) ==
  [service |-> service, protocol |-> protocol, ports |-> ports,
   interface |-> interface, bind |-> bind, sources |-> sources]
MCIngress ==
  {Ingress("web", "tcp", {80}, "eth0", "a4", {Lan}),
   Ingress("web", "tcp", {80, 81}, "eth0", "a4", {{"h1"}}),
   Ingress("web", "tcp", {81}, "wg0", "b4", {{"h2"}}),
   Ingress("web", "tcp", {80}, "eth0", "a6", {{"h6"}}),
   Ingress("web", "udp", {80}, "eth0", "a4", {{"h6"}}),
   Ingress("dns", "tcp", {81}, "eth0", "a4", {{"h2"}}),
   Ingress("dns", "udp", {53}, "wg0", "b4", {Lan, {"h1"}}),
   Ingress("dns", "tcp", {80}, "eth0", "a4", {{"h2"}}),
   Ingress("api", "tcp", {81}, "eth0", "a4", {Lan})}

Mapping(protocol, address, port, target) ==
  [protocol |-> protocol, address |-> address, port |-> port,
   target |-> target]
WebMappings ==
  {Mapping("tcp", "a4", 80, 8080), Mapping("tcp", "a4", 81, 8080),
   Mapping("tcp", "a4", 81, 80), Mapping("tcp", "b4", 81, 8080),
   Mapping("tcp", "a6", 80, 80), Mapping("tcp", "lo", 80, 8080)}
DnsMappings ==
  {Mapping("tcp", "a4", 81, 8080), Mapping("udp", "b4", 53, 53),
   Mapping("tcp", "a4", 80, 81)}

UpTo(n, S) == UNION {kSubset(k, S) : k \in 0..n}

MCPolicies ==
  [ingress : UpTo(2, MCIngress),
   bridge : {{}, {[service |-> "dns", protocol |-> "tcp", ports |-> {90}]}},
   ssh : {[interface |-> Open, sources |-> {{"h1"}}, port |-> 22],
          [interface |-> "wg0", sources |-> {Lan}, port |-> 80]},
   egress : {FALSE}]
MCComposes ==
  {[web |-> [host |-> FALSE, published |-> w], dns |-> d] :
     w \in UpTo(2, WebMappings),
     d \in [host : BOOLEAN, published : UpTo(1, DnsMappings)]}

(* An earlier declaration: one ingress rule, and ssh on one interface.     *)
Earlier ==
  [policy |->
     [ingress |-> {Ingress("web", "tcp", {80}, "eth0", "a4", {Lan})},
      bridge |-> {},
      ssh |-> [interface |-> "wg0", sources |-> {{"h1"}}, port |-> 22],
      egress |-> FALSE],
   compose |->
     [web |-> [host |-> FALSE,
               published |-> {Mapping("tcp", "a4", 80, 8080)}],
      dns |-> [host |-> FALSE, published |-> {}]]]

(* Of the declarations that are refused, those with a single ingress rule. *)
MCDeclarations ==
  {d \in [policy : MCPolicies, compose : MCComposes] :
     \/ Renderable(d.policy, d.compose)
     \/ Cardinality(d.policy.ingress) = 1 /\ d.policy.bridge = {}}
    \union
  [policy : {[p EXCEPT !.egress = TRUE] : p \in MCPolicies},
   compose : {CHOOSE c \in MCComposes : TRUE}]
    \union {Earlier}

MCInventories ==
  LET all == {[interface |-> "eth0", bind |-> "a4"],
              [interface |-> "eth0", bind |-> "a6"],
              [interface |-> "wg0", bind |-> "b4"]}
  IN  {all, {a \in all : a.interface = "eth0"}}

MCBefore == {Absent, Table(Rendered(Earlier.policy, Earlier.compose))}

MCPackets ==
  [interface : {"eth0", "wg0", "docker0"}, host : {"h1", "h2", "h6"},
   address : {"a4", "b4", "a6"}, protocol : {"tcp", "udp"},
   port : {22, 53, 80, 81, 90}]
=============================================================================
