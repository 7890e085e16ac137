---------------------------- MODULE FirewallPolicy ----------------------------
(***************************************************************************)
(* firewall.py as operators: a host's firewall declaration and its Compose *)
(* file are either refused or rendered as the two chains of the table      *)
(* infralink_filter (render_firewall_policy).  What a table does to a      *)
(* packet is nftables' and Docker's part, defined here as the reference    *)
(* the rules are judged by.                                                *)
(*                                                                         *)
(* Abstracted: a rule is a record of what it matches instead of a line; a  *)
(* network is the set of its hosts; every rule accepts, so their order     *)
(* within a chain is left out.                                             *)
(***************************************************************************)
EXTENDS FiniteSets

CONSTANTS
  Open,          (* a field that a rule leaves open                         *)
  Loopback,      (* 127.0.0.1 or ::1, as a published address                *)
  Family(_)      (* the address family of an address or of a host           *)

Bridges == {"docker0", "br-*"}
Wireguard == [protocol |-> "udp", port |-> 41641]
Resolver == {[protocol |-> p, port |-> 53] : p \in {"udp", "tcp"}}

(* A policy has `ingress`, a set of [service, protocol, ports, interface,  *)
(* bind, sources]; `bridge`, a set of [service, protocol, ports]; `ssh`,   *)
(* an [interface, sources, port]; and `egress`.  A Compose file maps each  *)
(* service to [host, published]: is it host-networked, and the set of      *)
(* [protocol, address, port, target] it publishes.                         *)

-----------------------------------------------------------------------------
(* _published_ports.                                                       *)

HostNetworked(compose) == {s \in DOMAIN compose : compose[s].host}

(* Published to other hosts, each with the service that does it.           *)
External(compose) ==
  UNION {{[service |-> s, mapping |-> m] :
            m \in {n \in compose[s].published : n.address # Loopback}} :
         s \in DOMAIN compose \ HostNetworked(compose)}

ComposeValid(compose) ==
  \A s \in HostNetworked(compose) : compose[s].published = {}

Socket(s, protocol, address, port) ==
  [service |-> s, protocol |-> protocol, address |-> address, port |-> port]
SocketOf(e) ==
  Socket(e.service, e.mapping.protocol, e.mapping.address, e.mapping.port)

Declared(policy) ==
  UNION {{Socket(i.service, i.protocol, i.bind, port) : port \in i.ports} :
         i \in policy.ingress}

-----------------------------------------------------------------------------
(* The refusals of render_firewall_policy.                                 *)

FamiliesMatch(policy) ==
  \A i \in policy.ingress : \A network \in i.sources : \A host \in network :
    Family(host) = Family(i.bind)

OneMappingPerSocket(compose) ==
  \A e, f \in External(compose) : SocketOf(e) = SocketOf(f) => e = f

PublishedAsDeclared(policy, compose) ==
  {SocketOf(e) : e \in External(compose)} =
    {d \in Declared(policy) : d.service \notin HostNetworked(compose)}

Renderable(policy, compose) ==
  /\ ComposeValid(compose)
  /\ ~policy.egress
  /\ OneMappingPerSocket(compose)
  /\ FamiliesMatch(policy)
  /\ \A i \in policy.ingress : i.service \in DOMAIN compose
  /\ PublishedAsDeclared(policy, compose)
  /\ \A b \in policy.bridge : b.service \in HostNetworked(compose)

-----------------------------------------------------------------------------
(* The rules.                                                              *)

(* `to` is the destination of the packet, `original` the one it had before *)
(* Docker translated it; `reply` is for what answers known connections.    *)
Rule(interface, source, to, original, protocol, port) ==
  [interface |-> interface, source |-> source, to |-> to,
   original |-> original, protocol |-> protocol, port |-> port,
   reply |-> FALSE]
Established == [Rule(Open, Open, Open, Open, Open, Open) EXCEPT !.reply = TRUE]
FromBridge(protocol, port) ==
  {Rule(bridge, Open, Open, Open, protocol, port) : bridge \in Bridges}

IngressRules(policy) ==
  UNION {{Rule(i.interface, source, i.bind, Open, i.protocol, port) :
            source \in i.sources, port \in i.ports} : i \in policy.ingress}

(* Variant: the port that was published, which a packet no longer has.     *)
PublishedPort(e) == e.mapping.port
ForwardedPort(e) == e.mapping.target

(* Variant: every mapping of the service, whatever the declaration names.  *)
ServiceOf(i, e) == e.service = i.service
Serves(i, e) ==
  \E port \in i.ports :
    SocketOf(e) = Socket(i.service, i.protocol, i.bind, port)

ForwardRules(policy, compose) ==
  UNION {UNION {{Rule(i.interface, source, Open, i.bind, i.protocol,
                      ForwardedPort(e)) : source \in i.sources} :
                e \in {f \in External(compose) : Serves(i, f)}} :
         i \in policy.ingress}

BridgeRules(policy) ==
  UNION {UNION {FromBridge(b.protocol, port) : port \in b.ports} :
         b \in policy.bridge}

SshRules(policy) ==
  {Rule(policy.ssh.interface, source, Open, Open, "tcp", policy.ssh.port) :
     source \in policy.ssh.sources}

(* For every host: loopback, the tunnel and Docker's resolver.             *)
HostRules ==
  {Rule("lo", Open, Open, Open, Open, Open),
   Rule(Open, Open, Open, Open, Wireguard.protocol, Wireguard.port)}
  \union UNION {FromBridge(r.protocol, r.port) : r \in Resolver}

InputRules(policy) ==
  {Established} \union HostRules \union BridgeRules(policy)
  \union SshRules(policy) \union IngressRules(policy)

Rendered(policy, compose) ==
  [input   |-> InputRules(policy),
   forward |-> {Established} \union FromBridge(Open, Open)
               \union ForwardRules(policy, compose)]

-----------------------------------------------------------------------------
(* Reference: what becomes of a packet [interface, host, address,          *)
(* protocol, port] that opens a connection.                                *)

Matches(rule, packet, to, original, port) ==
  /\ ~rule.reply
  /\ rule.interface \in {Open, packet.interface}
  /\ rule.source = Open \/ packet.host \in rule.source
  /\ rule.to \in {Open, to}
  /\ rule.original \in {Open, original}
  /\ rule.protocol \in {Open, packet.protocol}
  /\ rule.port \in {Open, port}

(* Docker sends a packet for a published socket on to its container.       *)
Mappings(compose, packet) ==
  {e \in External(compose) :
     /\ e.mapping.protocol = packet.protocol
     /\ e.mapping.address = packet.address
     /\ e.mapping.port = packet.port}

Accepts(table, compose, packet) ==
  IF Mappings(compose, packet) = {}
    THEN \E rule \in table.input :
           Matches(rule, packet, packet.address, packet.address, packet.port)
    ELSE \E e \in Mappings(compose, packet), rule \in table.forward :
           Matches(rule, packet, Open, packet.address, e.mapping.target)

(* Two services may not publish the same socket: Docker starts only one.   *)
OneOwner(policy, compose) ==
  \A e \in External(compose), d \in Declared(policy) \union
                                    {SocketOf(f) : f \in External(compose)} :
    SocketOf(e) = [d EXCEPT !.service = e.service] => d.service = e.service
=============================================================================
