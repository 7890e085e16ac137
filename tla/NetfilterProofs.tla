--------------------------- MODULE NetfilterProofs ---------------------------
(***************************************************************************)
(* What the controller keeps in the kernel's packet filter.  The firewall: *)
(* what a loaded table and a verified one let through, for every           *)
(* declaration, Compose file and packet.  The SNAT chain: that it is whole *)
(* and in force, and what is undone and left alone, for every POSTROUTING. *)
(***************************************************************************)
EXTENDS Firewall, EgressSnat, FiniteSetTheorems, SequenceTheorems, TLAPS

USE DEF policy, compose

-----------------------------------------------------------------------------
(* The rules of a declared flow.                                           *)

(* A packet that the host answers itself meets the rule of its ingress     *)
(* declaration.                                                            *)
LEMMA InputServes ==
  ASSUME NEW pol, NEW p, NEW i \in pol.ingress, NEW network \in i.sources,
         p.host \in network, i.interface \in {Open, p.interface},
         i.bind = p.address, i.protocol = p.protocol, p.port \in i.ports
  PROVE  \E rule \in IngressRules(pol) :
           Matches(rule, p, p.address, p.address, p.port)
<1> DEFINE rule == Rule(i.interface, network, i.bind, Open, i.protocol, p.port)
<1>1. rule \in IngressRules(pol)
  BY DEF IngressRules
<1>2. Matches(rule, p, p.address, p.address, p.port)
  BY DEF Rule, Matches
<1> QED
  BY <1>1, <1>2

(* A packet for a published socket meets the rule of its mapping, as no    *)
(* other service owns that socket.                                         *)
LEMMA ForwardServes ==
  ASSUME NEW pol, NEW comp, NEW p, NEW i \in pol.ingress,
         NEW network \in i.sources, NEW e \in Mappings(comp, p),
         OneOwner(pol, comp),
         p.host \in network, i.interface \in {Open, p.interface},
         i.bind = p.address, i.protocol = p.protocol, p.port \in i.ports
  PROVE  \E rule \in ForwardRules(pol, comp) :
           Matches(rule, p, Open, p.address, e.mapping.target)
<1> DEFINE d == Socket(i.service, i.protocol, i.bind, p.port)
           rule == Rule(i.interface, network, Open, i.bind, i.protocol,
                        ForwardedPort(e))
<1>1. e \in External(comp)
  BY DEF Mappings
<1>2. e.mapping.protocol = p.protocol /\ e.mapping.address = p.address
      /\ e.mapping.port = p.port
  BY DEF Mappings
<1>3. d \in Declared(pol)
  BY DEF Declared
<1>4. SocketOf(e) = [d EXCEPT !.service = e.service]
  BY <1>2 DEF SocketOf, Socket
<1>5. d.service = e.service
  BY <1>1, <1>3, <1>4 DEF OneOwner
<1>6. SocketOf(e) = d
  BY <1>4, <1>5 DEF Socket, SocketOf
<1>7. Serves(i, e)
  BY <1>6 DEF Serves
<1>8. rule \in ForwardRules(pol, comp)
  BY <1>1, <1>7 DEF ForwardRules
<1>9. Matches(rule, p, Open, p.address, e.mapping.target)
  BY DEF Rule, Matches, ForwardedPort
<1> QED
  BY <1>8, <1>9

(* ssh is answered by the host.                                            *)
LEMMA SshServes ==
  ASSUME NEW pol, NEW p, NEW network \in pol.ssh.sources,
         p.host \in network, pol.ssh.interface \in {Open, p.interface},
         p.protocol = "tcp", p.port = pol.ssh.port
  PROVE  \E rule \in SshRules(pol) :
           Matches(rule, p, p.address, p.address, p.port)
<1> DEFINE rule == Rule(pol.ssh.interface, network, Open, Open, "tcp",
                        pol.ssh.port)
<1>1. rule \in SshRules(pol)
  BY DEF SshRules
<1>2. Matches(rule, p, p.address, p.address, p.port)
  BY DEF Rule, Matches
<1> QED
  BY <1>1, <1>2

(* The table serves whatever is declared, when the rules of the            *)
(* declaration are in their chains.                                        *)
RulesInPlace ==
  /\ IngressRules(policy) \union SshRules(policy) \subseteq table.input
  /\ ForwardRules(policy, compose) \subseteq table.forward

(* Then every packet that an ingress or the ssh declaration allows is let  *)
(* through.                                                                *)
LEMMA TableServes ==
  ASSUME RulesInPlace, table # Absent
  PROVE  ServesDeclared
<1> SUFFICES ASSUME OneOwner(policy, compose), NEW p \in Packets,
                    DeclaredIngress(p) \/ DeclaredSsh(p)
             PROVE  Accepts(table, compose, p)
  BY DEF ServesDeclared, Passes
<1>1. CASE DeclaredSsh(p)
  <2>1. PICK network \in policy.ssh.sources : p.host \in network
    BY <1>1 DEF DeclaredSsh, From
  <2>2. Mappings(compose, p) = {}
    BY <1>1 DEF DeclaredSsh
  <2>3. \E rule \in SshRules(policy) :
          Matches(rule, p, p.address, p.address, p.port)
    BY <1>1, <2>1, SshServes DEF DeclaredSsh, From
  <2> QED
    BY <2>2, <2>3 DEF Accepts, RulesInPlace
<1>2. CASE DeclaredIngress(p)
  <2>1. PICK i \in policy.ingress : ByIngress(i, p) /\ p.port \in i.ports
    BY <1>2 DEF DeclaredIngress
  <2>2. PICK network \in i.sources : p.host \in network
    BY <2>1 DEF ByIngress, From
  <2>3. i.interface \in {Open, p.interface} /\ i.bind = p.address
        /\ i.protocol = p.protocol
    BY <2>1 DEF ByIngress, From
  <2>4. CASE Mappings(compose, p) = {}
    <3>1. \E rule \in IngressRules(policy) :
            Matches(rule, p, p.address, p.address, p.port)
      BY <2>1, <2>2, <2>3, InputServes
    <3> QED
      BY <2>4, <3>1 DEF Accepts, RulesInPlace
  <2>5. CASE Mappings(compose, p) # {}
    <3>1. PICK e \in Mappings(compose, p) : TRUE
      BY <2>5
    <3>2. \E rule \in ForwardRules(policy, compose) :
            Matches(rule, p, Open, p.address, e.mapping.target)
      BY <2>1, <2>2, <2>3, <3>1, ForwardServes
    <3> QED
      BY <2>5, <3>1, <3>2 DEF Accepts, RulesInPlace
  <2> QED
    BY <2>4, <2>5
<1> QED
  BY <1>1, <1>2

(* So does the table that was rendered from it.                            *)
LEMMA RenderedServes ==
  ASSUME table = Table(Rendered(policy, compose)), table # Absent
  PROVE  ServesDeclared
<1>1. RulesInPlace
  BY DEF Table, Rendered, InputRules, RulesInPlace
<1> QED
  BY <1>1, TableServes

-----------------------------------------------------------------------------
(* The flows of a rule.                                                    *)

(* A packet from outside that meets a rule of the input chain is declared, *)
(* or for the tunnel.                                                      *)
LEMMA InputOnly ==
  ASSUME declaration \in Declarations, NEW p \in FromOutside,
         Mappings(compose, p) = {},
         NEW rule \in Rendered(policy, compose).input,
         Matches(rule, p, p.address, p.address, p.port)
  PROVE  DeclaredIngress(p) \/ DeclaredSsh(p) \/ ToTunnel(p)
<1> USE FirewallAssumption
<1>2. rule \in InputRules(policy) /\ ~rule.reply
  BY DEF Rendered, Matches
<1>3. rule.interface \notin Bridges \union {"lo"}
  BY DEF Matches, FromOutside
<1>4. rule # Established
  BY <1>2 DEF Established, Rule
<1>5. CASE rule \in HostRules
  <2>1. ASSUME NEW r \in Resolver
        PROVE  rule \notin FromBridge(r.protocol, r.port)
    BY <1>3 DEF FromBridge, Rule
  <2>2. rule # Rule("lo", Open, Open, Open, Open, Open)
    BY <1>3 DEF Rule
  <2>3. rule = Rule(Open, Open, Open, Open, Wireguard.protocol, Wireguard.port)
    BY <1>5, <2>1, <2>2 DEF HostRules
  <2>4. rule.protocol = Wireguard.protocol /\ rule.port = Wireguard.port
    BY <2>3 DEF Rule
  <2> QED
    BY <2>4 DEF ToTunnel, Matches
<1>6. CASE rule \in BridgeRules(policy)
  <2>1. PICK b \in policy.bridge :
          \E port \in b.ports : rule \in FromBridge(b.protocol, port)
    BY <1>6 DEF BridgeRules
  <2> QED
    BY <1>3, <2>1 DEF FromBridge, Rule
<1>7. CASE rule \in SshRules(policy)
  <2>1. PICK network \in policy.ssh.sources :
          rule = Rule(policy.ssh.interface, network, Open, Open, "tcp",
                      policy.ssh.port)
    BY <1>7 DEF SshRules
  <2>2. network # Open /\ policy.ssh.port # Open /\ Open # "tcp"
    OBVIOUS
  <2> QED
    BY <2>1, <2>2 DEF DeclaredSsh, From, Matches, Rule
<1>8. CASE rule \in IngressRules(policy)
  <2>0. PICK i \in policy.ingress :
          \E network \in i.sources, port \in i.ports :
            rule = Rule(i.interface, network, i.bind, Open, i.protocol, port)
    BY <1>8 DEF IngressRules
  <2>1. PICK network \in i.sources, port \in i.ports :
          rule = Rule(i.interface, network, i.bind, Open, i.protocol, port)
    BY <2>0
  <2>2. Open \notin {i.bind, i.protocol, network, port}
    OBVIOUS
  <2>3. i.bind = p.address /\ i.protocol = p.protocol /\ port = p.port
        /\ p.host \in network /\ i.interface \in {Open, p.interface}
    BY <2>1, <2>2 DEF Matches, Rule
  <2> QED
    BY <2>1, <2>3 DEF DeclaredIngress, ByIngress, From
<1> QED
  BY <1>2, <1>4, <1>5, <1>6, <1>7, <1>8 DEF InputRules

(* One that Docker translates is declared, up to mappings to one port of   *)
(* a container.                                                            *)
LEMMA ForwardOnly ==
  ASSUME declaration \in Declarations, NEW p \in FromOutside,
         NEW e \in Mappings(compose, p),
         NEW rule \in Rendered(policy, compose).forward,
         Matches(rule, p, Open, p.address, e.mapping.target)
  PROVE  SameTarget(p)
<1> USE FirewallAssumption
<1>1. rule \in {Established} \union FromBridge(Open, Open)
               \union ForwardRules(policy, compose)
  BY DEF Rendered
<1>2. rule \notin FromBridge(Open, Open)
  BY DEF FromBridge, Rule, Matches, FromOutside
<1>3. rule # Established
  BY DEF Established, Rule, Matches
<1>4. rule \in ForwardRules(policy, compose)
  BY <1>1, <1>2, <1>3
<1>0. PICK i \in policy.ingress, f \in External(compose) :
        /\ Serves(i, f)
        /\ \E network \in i.sources :
             rule = Rule(i.interface, network, Open, i.bind, i.protocol,
                         ForwardedPort(f))
  BY <1>4 DEF ForwardRules
<1>5. PICK network \in i.sources :
        /\ Serves(i, f)
        /\ rule = Rule(i.interface, network, Open, i.bind, i.protocol,
                       ForwardedPort(f))
  BY <1>0
<1>6. /\ Open \notin {i.bind, i.protocol, network}
      /\ ForwardedPort(f) # Open
  BY DEF ForwardedPort
<1>7. i.bind = p.address /\ i.protocol = p.protocol /\ p.host \in network
      /\ i.interface \in {Open, p.interface}
      /\ f.mapping.target = e.mapping.target
  BY <1>5, <1>6 DEF Matches, Rule, ForwardedPort
<1>8. ByIngress(i, p)
  BY <1>7 DEF ByIngress, From
<1>9. PICK port \in i.ports :
        SocketOf(f) = Socket(i.service, i.protocol, i.bind, port)
  BY <1>5 DEF Serves
<1>10. <<f.service, f.mapping.protocol, f.mapping.address>> =
         <<i.service, i.protocol, i.bind>> /\ f.mapping.port \in i.ports
  BY <1>9 DEF SocketOf, Socket
<1> QED
  BY <1>7, <1>8, <1>10 DEF SameTarget

(* A table of no other rules whose chains drop the rest admits nothing     *)
(* else.                                                                   *)
LEMMA WornServesOnly ==
  ASSUME declaration \in Declarations, table # Absent,
         WornFrom(table, declaration), Chains \subseteq table.drops
  PROVE  ServesOnly
<1> SUFFICES ASSUME NEW p \in FromOutside, Passes(p)
             PROVE  \/ DeclaredIngress(p) \/ DeclaredSsh(p)
                    \/ SameTarget(p) \/ ToTunnel(p)
  BY DEF ServesOnly
<1>1. /\ table.input \subseteq Rendered(policy, compose).input
      /\ table.forward \subseteq Rendered(policy, compose).forward
  BY DEF WornFrom
<1>2. Accepts(table, compose, p)
  BY DEF Passes, Chain, Chains
<1>3. CASE Mappings(compose, p) = {}
  <2>1. PICK rule \in table.input :
          Matches(rule, p, p.address, p.address, p.port)
    BY <1>2, <1>3 DEF Accepts
  <2> QED
    BY <1>1, <1>3, <2>1, InputOnly
<1>4. CASE Mappings(compose, p) # {}
  <2>1. PICK e \in Mappings(compose, p), rule \in table.forward :
          Matches(rule, p, Open, p.address, e.mapping.target)
    BY <1>2, <1>4 DEF Accepts
  <2> QED
    BY <1>1, <2>1, ForwardOnly
<1> QED
  BY <1>3, <1>4

-----------------------------------------------------------------------------
(* The inductive invariant: while nobody has touched it, the table is the  *)
(* one that was rendered from the declaration.                             *)
LoadedInv ==
  /\ declaration \in Declarations
  /\ loaded => /\ table # Absent
               /\ table = Table(Rendered(policy, compose))

(* The invariant holds of every reachable state.                           *)
THEOREM LoadedInvariance == Spec => []LoadedInv
<1>1. Init => LoadedInv
  BY DEF Init, LoadedInv
<1>2. LoadedInv /\ [Next]_vars => LoadedInv'
  <2> SUFFICES ASSUME LoadedInv, [Next]_vars
               PROVE  LoadedInv'
    OBVIOUS
  <2>0. declaration' = declaration
    BY DEF Next, vars, Render, FindTable, AddTable, LoadTable, Again, Verify,
           Drift
  <2>1. CASE Render \/ FindTable \/ Again \/ Verify \/ UNCHANGED vars
    BY <2>0, <2>1 DEF LoadedInv, Render, FindTable, Again, Verify, vars
  <2>2. CASE AddTable
    BY <2>0, <2>2 DEF LoadedInv, AddTable
  <2>3. CASE LoadTable
    <3>1. CASE table' = Table(Rendered(policy, compose)) /\ loaded' = TRUE
      BY <2>0, <3>1, FirewallAssumption DEF LoadedInv
    <3>2. CASE UNCHANGED <<table, loaded>>
      BY <2>0, <3>2 DEF LoadedInv
    <3> QED
      BY <2>3, <3>1, <3>2 DEF LoadTable
  <2>4. CASE Drift
    BY <2>0, <2>4 DEF LoadedInv, Drift
  <2> QED
    BY <2>1, <2>2, <2>3, <2>4 DEF Next
<1> QED
  BY <1>1, <1>2, PTL DEF Spec

(* Every declared flow is let through by a loaded table.                   *)
THEOREM DeclaredServed == Spec => []AdmitsDeclared
<1>1. LoadedInv => AdmitsDeclared
  BY RenderedServes DEF LoadedInv, AdmitsDeclared
<1> QED
  BY <1>1, LoadedInvariance, PTL

(* Nothing else is let in from outside by a loaded table.                  *)
THEOREM NothingElseServed == Spec => []AdmitsNothingElse
<1>1. LoadedInv => AdmitsNothingElse
  <2> SUFFICES ASSUME LoadedInv, loaded PROVE ServesOnly
    BY DEF AdmitsNothingElse
  <2>1. WornFrom(table, declaration) /\ Chains \subseteq table.drops
    BY DEF LoadedInv, Table, WornFrom
  <2> QED
    BY <2>1, WornServesOnly DEF LoadedInv
<1> QED
  BY <1>1, LoadedInvariance, PTL

-----------------------------------------------------------------------------
(* The inductive invariant of the verification: the table is a worn one of *)
(* some declaration, and a verdict speaks of the table that is there.      *)
VerdictInv ==
  /\ declaration \in Declarations
  /\ table # Absent => \E d \in Declarations : WornFrom(table, d)
  /\ verdict = "verified" => table # Absent /\ Verified

(* No rule of the input chain speaks of a destination before translation;  *)
(* with a source and no destination it is one of ssh.                      *)
LEMMA InputShape ==
  ASSUME NEW d \in Declarations,
         NEW rule \in Rendered(d.policy, d.compose).input
  PROVE  /\ rule.original = Open
         /\ rule.source # Open /\ rule.to = Open => rule \in SshRules(d.policy)
<1>1. rule \in InputRules(d.policy)
  BY DEF Rendered
<1>2. CASE rule = Established
  BY <1>2 DEF Established, Rule
<1>3. CASE rule \in HostRules
  BY <1>3 DEF HostRules, FromBridge, Rule
<1>4. CASE rule \in BridgeRules(d.policy)
  <2>1. PICK b \in d.policy.bridge :
          \E port \in b.ports : rule \in FromBridge(b.protocol, port)
    BY <1>4 DEF BridgeRules
  <2> QED
    BY <2>1 DEF FromBridge, Rule
<1>5. CASE rule \in SshRules(d.policy)
  BY <1>5 DEF SshRules, Rule
<1>6. CASE rule \in IngressRules(d.policy)
  <2>1. PICK i \in d.policy.ingress :
          \E source \in i.sources, port \in i.ports :
            rule = Rule(i.interface, source, i.bind, Open, i.protocol, port)
    BY <1>6 DEF IngressRules
  <2>2. i.bind # Open
    BY FirewallAssumption
  <2> QED
    BY <2>1, <2>2 DEF Rule
<1> QED
  BY <1>1, <1>2, <1>3, <1>4, <1>5, <1>6 DEF InputRules

(* No rule of the forward chain speaks of a destination after translation; *)
(* with a source it speaks of the one before.                              *)
LEMMA ForwardShape ==
  ASSUME NEW d \in Declarations,
         NEW rule \in Rendered(d.policy, d.compose).forward
  PROVE  rule.to = Open /\ (rule.source # Open => rule.original # Open)
<1>1. CASE rule \in {Established} \union FromBridge(Open, Open)
  BY <1>1 DEF Established, FromBridge, Rule
<1>2. CASE rule \in ForwardRules(d.policy, d.compose)
  <2>1. PICK i \in d.policy.ingress, e \in External(d.compose) :
          \E source \in i.sources :
            rule = Rule(i.interface, source, Open, i.bind, i.protocol,
                        ForwardedPort(e))
    BY <1>2 DEF ForwardRules
  <2>2. i.bind # Open
    BY FirewallAssumption
  <2> QED
    BY <2>1, <2>2 DEF Rule
<1> QED
  BY <1>1, <1>2 DEF Rendered

(* A verified table holds each rule of an ingress declaration in its chain *)
(* and, when its text is that of no other line, each rule of ssh.          *)
LEMMA VerifiedInPlace ==
  ASSUME VerdictInv, verdict = "verified",
         policy.ssh.interface # Open \/ NothingLeftOver
  PROVE  RulesInPlace
<1> DEFINE expected == Rendered(policy, compose)
<1>1. PICK d \in Declarations : WornFrom(table, d)
  BY DEF VerdictInv
<1>2. \A rule \in expected.input \union expected.forward :
        \E line \in table.input \union table.forward : Covers(line, rule)
  BY DEF VerdictInv, Verified
<1>3. \A line \in table.forward :
        line.to = Open /\ (line.source # Open => line.original # Open)
  BY <1>1, ForwardShape DEF WornFrom
<1>4. \A line \in table.input : line.original = Open
  BY <1>1, InputShape DEF WornFrom
<1>5. ASSUME NEW rule \in IngressRules(policy) PROVE rule \in table.input
  <2>1. PICK i \in policy.ingress :
          \E source \in i.sources, port \in i.ports :
            rule = Rule(i.interface, source, i.bind, Open, i.protocol, port)
    BY <1>5 DEF IngressRules
  <2>2. i.bind # Open /\ i.interface # Open
    BY FirewallAssumption DEF VerdictInv
  <2>3. rule.to # Open /\ rule.interface # Open
    BY <2>1, <2>2 DEF Rule
  <2>4. rule \in expected.input
    BY <1>5 DEF Rendered, InputRules
  <2>5. rule \in table.input \union table.forward
    BY <1>2, <2>3, <2>4 DEF Covers
  <2> QED
    BY <1>3, <2>3, <2>5
<1>6. ASSUME NEW rule \in ForwardRules(policy, compose)
      PROVE  rule \in table.forward
  <2>1. PICK i \in policy.ingress, e \in External(compose) :
          \E source \in i.sources :
            rule = Rule(i.interface, source, Open, i.bind, i.protocol,
                        ForwardedPort(e))
    BY <1>6 DEF ForwardRules
  <2>2. i.bind # Open /\ i.interface # Open
    BY FirewallAssumption DEF VerdictInv
  <2>3. rule.original # Open /\ rule.interface # Open
    BY <2>1, <2>2 DEF Rule
  <2>4. rule \in expected.forward
    BY <1>6 DEF Rendered
  <2>5. rule \in table.input \union table.forward
    BY <1>2, <2>3, <2>4 DEF Covers
  <2> QED
    BY <1>4, <2>3, <2>5
<1>7. ASSUME NEW rule \in SshRules(policy) PROVE rule \in table.input
  <2>1. PICK network \in policy.ssh.sources :
          rule = Rule(policy.ssh.interface, network, Open, Open, "tcp",
                      policy.ssh.port)
    BY <1>7 DEF SshRules
  <2>2. network # Open
    BY FirewallAssumption DEF VerdictInv
  <2>3. /\ rule.interface = policy.ssh.interface /\ rule.source = network
        /\ rule.to = Open /\ rule.original = Open
    BY <2>1 DEF Rule
  <2>4. rule \in expected.input
    BY <1>7 DEF Rendered, InputRules
  <2>5. PICK line \in table.input \union table.forward : Covers(line, rule)
    BY <1>2, <2>4
  <2>6. line.source = network /\ line.to = Open /\ line.original = Open
    BY <2>2, <2>3, <2>5 DEF Covers
  <2>7. line \in table.input
    BY <1>3, <2>2, <2>5, <2>6
  <2>8. CASE line = rule
    BY <2>7, <2>8
  <2>9. CASE policy.ssh.interface = Open /\ NothingLeftOver
    <3>1. line \in Rendered(declaration.policy, declaration.compose).input
      BY <2>7, <2>9 DEF NothingLeftOver, WornFrom
    <3>2. line \in SshRules(policy)
      BY <2>2, <2>6, <3>1, InputShape DEF VerdictInv
    <3>3. PICK other \in policy.ssh.sources :
            line = Rule(policy.ssh.interface, other, Open, Open, "tcp",
                        policy.ssh.port)
      BY <3>2 DEF SshRules
    <3>4. other = network
      BY <2>6, <3>3 DEF Rule
    <3> QED
      BY <2>1, <2>7, <3>3, <3>4
  <2> QED
    BY <2>3, <2>5, <2>8, <2>9 DEF Covers
<1> QED
  BY <1>5, <1>6, <1>7 DEF RulesInPlace

(* The invariant holds of every reachable state.                           *)
THEOREM VerdictInvariance == Spec => []VerdictInv
<1>1. Init => VerdictInv
  BY FirewallAssumption DEF Init, VerdictInv
<1>2. VerdictInv /\ [Next]_vars => VerdictInv'
  <2> SUFFICES ASSUME VerdictInv, [Next]_vars
               PROVE  VerdictInv'
    OBVIOUS
  <2>0. declaration' = declaration
    BY DEF Next, vars, Render, FindTable, AddTable, LoadTable, Again, Verify,
           Drift
  <2>1. CASE UNCHANGED <<table, verdict>>
    BY <2>0, <2>1 DEF VerdictInv, Verified, WornFrom
  <2>2. CASE AddTable
    <3>1. CASE table = Absent /\ table' = EmptyTable /\ verdict' = "none"
      <4>1. WornFrom(EmptyTable, declaration)
        BY DEF WornFrom, EmptyTable
      <4> QED
        BY <2>0, <3>1, <4>1 DEF VerdictInv, WornFrom
    <3> QED
      BY <2>1, <2>2, <3>1 DEF AddTable
  <2>3. CASE LoadTable
    <3>1. CASE /\ table' = Table(Rendered(policy, compose))
               /\ verdict' = "none"
      <4>1. WornFrom(table', declaration)
        BY <3>1 DEF WornFrom, Table
      <4> QED
        BY <2>0, <3>1, <4>1 DEF VerdictInv, WornFrom
    <3> QED
      BY <2>1, <2>3, <3>1 DEF LoadTable
  <2>4. CASE Verify
    BY <2>0, <2>4 DEF VerdictInv, Verify, Verified, WornFrom
  <2>5. CASE Drift
    <3>1. PICK d \in Declarations : WornFrom(table, d)
      BY <2>5 DEF Drift, VerdictInv
    <3>2. ASSUME DeleteRule PROVE WornFrom(table', d)
      BY <3>1, <3>2 DEF DeleteRule, WornFrom
    <3>3. ASSUME OpenChain PROVE WornFrom(table', d)
      BY <3>1, <3>3 DEF OpenChain, WornFrom
    <3>4. table' = Absent \/ WornFrom(table', d)
      BY <2>5, <3>2, <3>3 DEF Drift
    <3> QED
      BY <2>0, <2>5, <3>4 DEF VerdictInv, Drift, WornFrom
  <2>6. CASE Render \/ FindTable \/ Again \/ UNCHANGED vars
    BY <2>1, <2>6 DEF Render, FindTable, Again, vars
  <2> QED
    BY <2>2, <2>3, <2>4, <2>5, <2>6 DEF Next
<1> QED
  BY <1>1, <1>2, PTL DEF Spec

(* A verification that passes means that declared flows are served and,    *)
(* when no rules of an earlier declaration are left, nothing else.         *)
THEOREM VerifiedEnforced == Spec => []VerifiedMeansEnforced
<1>1. VerdictInv => VerifiedMeansEnforced
  <2> SUFFICES ASSUME VerdictInv, verdict = "verified"
               PROVE  /\ policy.ssh.interface # Open \/ NothingLeftOver =>
                           ServesDeclared
                      /\ NothingLeftOver => ServesOnly
    BY DEF VerifiedMeansEnforced
  <2>1. table # Absent /\ Chains \subseteq table.drops
    BY DEF VerdictInv, Verified, RequiredChains
  <2>2. policy.ssh.interface # Open \/ NothingLeftOver => ServesDeclared
    BY <2>1, VerifiedInPlace, TableServes
  <2>3. NothingLeftOver => ServesOnly
    BY <2>1, WornServesOnly DEF VerdictInv, NothingLeftOver
  <2> QED
    BY <2>2, <2>3
<1> QED
  BY <1>1, VerdictInvariance, PTL

-----------------------------------------------------------------------------
(* Sequences of rules.                                                     *)

(* What is left of a sequence without its element at i.                    *)
LEMMA Removed ==
  ASSUME NEW S, NEW s \in Seq(S), NEW i \in 1..Len(s)
  PROVE  /\ RemoveAt(s, i) \in Seq(S)
         /\ Len(RemoveAt(s, i)) = Len(s) - 1
         /\ \A k \in 1..(Len(s) - 1) :
              RemoveAt(s, i)[k] = IF k < i THEN s[k] ELSE s[k + 1]
<1> DEFINE left == SubSeq(s, 1, i - 1)
           right == SubSeq(s, i + 1, Len(s))
<1>0. Len(s) \in Nat /\ i \in Int /\ \A k \in 1..Len(s) : s[k] \in S
  BY LenProperties, ElementOfSeq
<1>1. /\ left \in Seq(S) /\ Len(left) = i - 1
      /\ \A k \in 1..(i - 1) : left[k] = s[k]
  <2>1. \A k \in 1..(i - 1) : s[k] \in S
    BY <1>0
  <2>2. /\ left \in Seq(S)
        /\ Len(left) = IF 1 <= i - 1 THEN i - 1 - 1 + 1 ELSE 0
        /\ \A k \in 1..(i - 1 - 1 + 1) : left[k] = s[1 + k - 1]
    BY <1>0, <2>1, SubSeqProperties
  <2> QED
    BY <1>0, <2>2
<1>2. /\ right \in Seq(S) /\ Len(right) = Len(s) - i
      /\ \A k \in 1..(Len(s) - i) : right[k] = s[k + i]
  <2>1. \A k \in (i + 1)..Len(s) : s[k] \in S
    BY <1>0
  <2>2. /\ right \in Seq(S)
        /\ Len(right) = IF i + 1 <= Len(s) THEN Len(s) - (i + 1) + 1 ELSE 0
        /\ \A k \in 1..(Len(s) - (i + 1) + 1) : right[k] = s[(i + 1) + k - 1]
    BY <1>0, <2>1, SubSeqProperties
  <2> QED
    BY <1>0, <2>2
<1>3. RemoveAt(s, i) = left \o right
  BY DEF RemoveAt
<1> HIDE DEF left, right
<1>4. /\ left \o right \in Seq(S)
      /\ Len(left \o right) = Len(left) + Len(right)
      /\ \A k \in 1..(Len(left) + Len(right)) :
           (left \o right)[k] =
             IF k <= Len(left) THEN left[k] ELSE right[k - Len(left)]
  BY <1>1, <1>2, ConcatProperties
<1> QED
  BY <1>0, <1>1, <1>2, <1>3, <1>4

(* A sequence with e put in at i.                                          *)
LEMMA Inserted ==
  ASSUME NEW S, NEW s \in Seq(S), NEW i \in 1..(Len(s) + 1), NEW e \in S
  PROVE  /\ InsertAt(s, i, e) \in Seq(S)
         /\ Len(InsertAt(s, i, e)) = Len(s) + 1
         /\ \A k \in 1..(Len(s) + 1) :
              InsertAt(s, i, e)[k] =
                IF k < i THEN s[k] ELSE IF k = i THEN e ELSE s[k - 1]
<1> DEFINE left == SubSeq(s, 1, i - 1)
           right == SubSeq(s, i, Len(s))
<1>0. Len(s) \in Nat /\ i \in Int /\ \A k \in 1..Len(s) : s[k] \in S
  BY LenProperties, ElementOfSeq
<1>1. /\ left \in Seq(S) /\ Len(left) = i - 1
      /\ \A k \in 1..(i - 1) : left[k] = s[k]
  <2>1. \A k \in 1..(i - 1) : s[k] \in S
    BY <1>0
  <2>2. /\ left \in Seq(S)
        /\ Len(left) = IF 1 <= i - 1 THEN i - 1 - 1 + 1 ELSE 0
        /\ \A k \in 1..(i - 1 - 1 + 1) : left[k] = s[1 + k - 1]
    BY <1>0, <2>1, SubSeqProperties
  <2> QED
    BY <1>0, <2>2
<1>2. /\ right \in Seq(S) /\ Len(right) = Len(s) - i + 1
      /\ \A k \in 1..(Len(s) - i + 1) : right[k] = s[k + i - 1]
  <2>1. \A k \in i..Len(s) : s[k] \in S
    BY <1>0
  <2>2. /\ right \in Seq(S)
        /\ Len(right) = IF i <= Len(s) THEN Len(s) - i + 1 ELSE 0
        /\ \A k \in 1..(Len(s) - i + 1) : right[k] = s[i + k - 1]
    BY <1>0, <2>1, SubSeqProperties
  <2> QED
    BY <1>0, <2>2
<1> DEFINE front == left \o <<e>>
<1>3. InsertAt(s, i, e) = front \o right
  BY DEF InsertAt
<1>4. <<e>> \in Seq(S) /\ Len(<<e>>) = 1 /\ <<e>>[1] = e
  OBVIOUS
<1>5. /\ front \in Seq(S) /\ Len(front) = i
      /\ \A k \in 1..i : front[k] = IF k < i THEN s[k] ELSE e
  <2> HIDE DEF left
  <2>1. /\ front \in Seq(S)
        /\ Len(front) = Len(left) + Len(<<e>>)
        /\ \A k \in 1..(Len(left) + Len(<<e>>)) :
             front[k] = IF k <= Len(left) THEN left[k]
                        ELSE <<e>>[k - Len(left)]
    BY <1>1, <1>4, ConcatProperties
  <2> QED
    BY <1>0, <1>1, <1>4, <2>1
<1> HIDE DEF left, right, front
<1>6. /\ front \o right \in Seq(S)
      /\ Len(front \o right) = Len(front) + Len(right)
      /\ \A k \in 1..(Len(front) + Len(right)) :
           (front \o right)[k] =
             IF k <= Len(front) THEN front[k] ELSE right[k - Len(front)]
  BY <1>2, <1>5, ConcatProperties
<1> QED
  BY <1>0, <1>2, <1>3, <1>5, <1>6

-----------------------------------------------------------------------------
(* POSTROUTING.                                                            *)

(* A rule that is inserted pushes the others back, in their order.         *)
LEMMA InsertsJump ==
  ASSUME NEW s \in POSTROUTING, NEW i \in 1..(Len(s) + 1)
  PROVE  /\ InsertAt(s, i, Jump) \in POSTROUTING
         /\ i \in Jumps(InsertAt(s, i, Jump))
         /\ Jumps(s) = {} => Jumps(InsertAt(s, i, Jump)) = {i}
         /\ SameForeign(s, InsertAt(s, i, Jump))
<1> DEFINE t == InsertAt(s, i, Jump)
           place == [k \in Foreigns(s) |-> IF k < i THEN k ELSE k + 1]
<1>1. Len(s) \in Nat /\ DOMAIN s = 1..Len(s)
  BY LenProperties DEF POSTROUTING
<1>2. /\ t \in POSTROUTING
      /\ Len(t) = Len(s) + 1
      /\ \A k \in 1..(Len(s) + 1) :
           t[k] = IF k < i THEN s[k] ELSE IF k = i THEN Jump ELSE s[k - 1]
  <2> DEFINE S == Foreign \union {Jump}
  <2>1. s \in Seq(S) /\ Jump \in S
    BY DEF POSTROUTING
  <2> HIDE DEF S
  <2>2. /\ t \in Seq(S)
        /\ Len(t) = Len(s) + 1
        /\ \A k \in 1..(Len(s) + 1) :
             t[k] = IF k < i THEN s[k] ELSE IF k = i THEN Jump ELSE s[k - 1]
    BY <2>1, Inserted
  <2> QED
    BY <2>2 DEF POSTROUTING, S
<1>3. DOMAIN t = 1..(Len(s) + 1)
  BY <1>2, LenProperties DEF POSTROUTING
<1> HIDE DEF t
<1>4. i \in Jumps(t) /\ (Jumps(s) = {} => Jumps(t) = {i})
  BY <1>1, <1>2, <1>3 DEF Jumps
<1>5. \A k \in Foreigns(s) : place[k] \in Foreigns(t) /\ t[place[k]] = s[k]
  BY <1>1, <1>2, <1>3 DEF Jumps, Foreigns
<1>6. \A k \in Foreigns(t) : \E j \in Foreigns(s) : place[j] = k
  <2> SUFFICES ASSUME NEW k \in Foreigns(t)
               PROVE  \E j \in Foreigns(s) : place[j] = k
    OBVIOUS
  <2>1. CASE k < i
    <3>1. k \in Foreigns(s) /\ place[k] = k
      BY <1>1, <1>2, <1>3, <2>1 DEF Jumps, Foreigns
    <3> QED
      BY <3>1
  <2>2. CASE k >= i
    <3>1. k - 1 \in Foreigns(s) /\ place[k - 1] = k
      BY <1>1, <1>2, <1>3, <2>2 DEF Jumps, Foreigns
    <3> QED
      BY <3>1
  <2> QED
    BY <1>1, <1>3, <2>1, <2>2 DEF Foreigns
<1>7. \A k, j \in Foreigns(s) : k < j => place[k] < place[j]
  BY <1>1 DEF Foreigns
<1>8. place \in [Foreigns(s) -> Foreigns(t)]
  BY <1>5
<1> HIDE DEF place
<1>9. SameForeign(s, t)
  BY <1>5, <1>6, <1>7, <1>8 DEF SameForeign
<1> QED
  BY <1>2, <1>4, <1>9 DEF t

(* One that is removed lets the others move up, in their order; it comes   *)
(* back when it is inserted where it was.                                  *)
LEMMA RemovesJump ==
  ASSUME NEW s \in POSTROUTING, NEW i \in Jumps(s)
  PROVE  /\ RemoveAt(s, i) \in POSTROUTING
         /\ Jumps(s) = {i} => Jumps(RemoveAt(s, i)) = {}
         /\ SameForeign(s, RemoveAt(s, i))
         /\ i \in 1..(Len(RemoveAt(s, i)) + 1)
         /\ InsertAt(RemoveAt(s, i), i, Jump) = s
<1> DEFINE t == RemoveAt(s, i)
           place == [k \in Foreigns(s) |-> IF k < i THEN k ELSE k - 1]
<1>1. Len(s) \in Nat /\ DOMAIN s = 1..Len(s) /\ i \in 1..Len(s)
  BY LenProperties DEF POSTROUTING, Jumps
<1>2. /\ t \in POSTROUTING
      /\ Len(t) = Len(s) - 1
      /\ \A k \in 1..(Len(s) - 1) : t[k] = IF k < i THEN s[k] ELSE s[k + 1]
  BY <1>1, Removed DEF POSTROUTING
<1>3. DOMAIN t = 1..(Len(s) - 1)
  BY <1>2, LenProperties DEF POSTROUTING
<1> HIDE DEF t
<1>4. Jumps(s) = {i} => Jumps(t) = {}
  BY <1>1, <1>2, <1>3 DEF Jumps
<1>5. \A k \in Foreigns(s) : place[k] \in Foreigns(t) /\ t[place[k]] = s[k]
  BY <1>1, <1>2, <1>3 DEF Jumps, Foreigns
<1>6. \A k \in Foreigns(t) : \E j \in Foreigns(s) : place[j] = k
  <2> SUFFICES ASSUME NEW k \in Foreigns(t)
               PROVE  \E j \in Foreigns(s) : place[j] = k
    OBVIOUS
  <2>1. CASE k < i
    <3>1. k \in Foreigns(s) /\ place[k] = k
      BY <1>1, <1>2, <1>3, <2>1 DEF Jumps, Foreigns
    <3> QED
      BY <3>1
  <2>2. CASE k >= i
    <3>1. k + 1 \in Foreigns(s) /\ place[k + 1] = k
      BY <1>1, <1>2, <1>3, <2>2 DEF Jumps, Foreigns
    <3> QED
      BY <3>1
  <2> QED
    BY <1>1, <1>3, <2>1, <2>2 DEF Foreigns
<1>7. \A k, j \in Foreigns(s) : k < j => place[k] < place[j]
  BY <1>1 DEF Foreigns, Jumps
<1>8. place \in [Foreigns(s) -> Foreigns(t)]
  BY <1>5
<1> HIDE DEF place
<1>9. SameForeign(s, t)
  BY <1>5, <1>6, <1>7, <1>8 DEF SameForeign
<1>10. i \in 1..(Len(t) + 1) /\ InsertAt(t, i, Jump) = s
  <2>1. i \in 1..(Len(t) + 1)
    BY <1>1, <1>2
  <2>2. /\ InsertAt(t, i, Jump) \in POSTROUTING
        /\ Len(InsertAt(t, i, Jump)) = Len(t) + 1
        /\ \A k \in 1..(Len(t) + 1) :
             InsertAt(t, i, Jump)[k] =
               IF k < i THEN t[k] ELSE IF k = i THEN Jump ELSE t[k - 1]
    BY <1>2, <2>1, Inserted DEF POSTROUTING
  <2> DEFINE u == InsertAt(t, i, Jump)
             S == Foreign \union {Jump}
  <2> HIDE DEF u, S
  <2>3. ASSUME NEW k \in 1..Len(s) PROVE u[k] = s[k]
    <3>1. u[k] = IF k < i THEN t[k] ELSE IF k = i THEN Jump ELSE t[k - 1]
      BY <1>1, <1>2, <2>2 DEF u
    <3>2. CASE k < i
      BY <1>1, <1>2, <3>1, <3>2
    <3>3. CASE k = i
      BY <3>1, <3>3 DEF Jumps
    <3>4. CASE k > i
      <4>1. k - 1 \in 1..(Len(s) - 1) /\ ~(k - 1 < i) /\ k - 1 + 1 = k
        BY <1>1, <3>4
      <4> QED
        BY <1>1, <1>2, <3>1, <3>4, <4>1
    <3> QED
      BY <1>1, <3>2, <3>3, <3>4
  <2>4. u \in Seq(S) /\ s \in Seq(S) /\ Len(u) = Len(s)
    BY <1>1, <1>2, <2>2 DEF POSTROUTING, u, S
  <2>5. u = s
    BY <2>3, <2>4, SeqEqual
  <2> QED
    BY <2>1, <2>5 DEF u
<1> QED
  BY <1>2, <1>4, <1>9, <1>10 DEF t

(* Docker's edits leave as many jumps as there were: none, one, or some.   *)
LEMMA EditsKeepJumps ==
  ASSUME EgressSnatAssumption, NEW s \in POSTROUTING, NEW t,
         \/ \E f \in Foreign, i \in 1..(Len(s) + 1) : t = InsertAt(s, i, f)
         \/ \E i \in Foreigns(s) : t = RemoveAt(s, i)
  PROVE  /\ t \in POSTROUTING
         /\ Jumps(s) = {} <=> Jumps(t) = {}
         /\ \A k : Jumps(s) = {k} => \E j \in DOMAIN t : Jumps(t) = {j}
<1>1. Len(s) \in Nat /\ DOMAIN s = 1..Len(s)
  BY LenProperties DEF POSTROUTING
<1>2. CASE \E f \in Foreign, i \in 1..(Len(s) + 1) : t = InsertAt(s, i, f)
  <2>1. PICK f \in Foreign, i \in 1..(Len(s) + 1) : t = InsertAt(s, i, f)
    BY <1>2
  <2>2. /\ t \in POSTROUTING
        /\ Len(t) = Len(s) + 1
        /\ \A k \in 1..(Len(s) + 1) :
             t[k] = IF k < i THEN s[k] ELSE IF k = i THEN f ELSE s[k - 1]
    <3> DEFINE S == Foreign \union {Jump}
    <3>1. s \in Seq(S) /\ f \in S
      BY DEF POSTROUTING
    <3> HIDE DEF S
    <3>2. /\ t \in Seq(S)
          /\ Len(t) = Len(s) + 1
          /\ \A k \in 1..(Len(s) + 1) :
               t[k] = IF k < i THEN s[k] ELSE IF k = i THEN f ELSE s[k - 1]
      BY <2>1, <3>1, Inserted
    <3> QED
      BY <3>2 DEF POSTROUTING, S
  <2>3. DOMAIN t = 1..(Len(s) + 1)
    BY <2>2, LenProperties DEF POSTROUTING
  <2>4. f # Jump
    BY DEF EgressSnatAssumption
  <2> DEFINE moved(k) == IF k < i THEN k ELSE k + 1
  <2>5. \A k \in Jumps(s) : moved(k) \in Jumps(t)
    BY <1>1, <2>2, <2>3 DEF Jumps
  <2>6. \A k \in Jumps(t) : \E j \in Jumps(s) : moved(j) = k
    <3> SUFFICES ASSUME NEW k \in Jumps(t)
                 PROVE  \E j \in Jumps(s) : moved(j) = k
      OBVIOUS
    <3>1. CASE k < i
      BY <1>1, <2>2, <2>3, <3>1 DEF Jumps
    <3>2. CASE k > i
      <4>1. k - 1 \in Jumps(s) /\ moved(k - 1) = k
        BY <1>1, <2>2, <2>3, <3>2 DEF Jumps
      <4> QED
        BY <4>1
    <3> QED
      BY <1>1, <2>2, <2>3, <2>4, <3>1, <3>2 DEF Jumps
  <2>7. \A k : Jumps(s) = {k} => Jumps(t) = {moved(k)}
    <3> SUFFICES ASSUME NEW k, Jumps(s) = {k} PROVE Jumps(t) = {moved(k)}
      OBVIOUS
    <3> HIDE DEF moved
    <3> QED
      BY <2>5, <2>6
  <2>8. Jumps(t) \subseteq DOMAIN t
    BY DEF Jumps
  <2> QED
    BY <2>2, <2>5, <2>6, <2>7, <2>8
<1>3. CASE \E i \in Foreigns(s) : t = RemoveAt(s, i)
  <2>1. PICK i \in Foreigns(s) : t = RemoveAt(s, i)
    BY <1>3
  <2>2. i \in 1..Len(s) /\ s[i] # Jump
    BY <1>1 DEF Foreigns, Jumps
  <2>3. /\ t \in POSTROUTING
        /\ Len(t) = Len(s) - 1
        /\ \A k \in 1..(Len(s) - 1) :
             t[k] = IF k < i THEN s[k] ELSE s[k + 1]
    BY <2>1, <2>2, Removed DEF POSTROUTING
  <2>4. DOMAIN t = 1..(Len(s) - 1)
    BY <2>3, LenProperties DEF POSTROUTING
  <2> DEFINE moved(k) == IF k < i THEN k ELSE k - 1
  <2>5. \A k \in Jumps(s) : moved(k) \in Jumps(t)
    BY <1>1, <2>2, <2>3, <2>4 DEF Jumps
  <2>6. \A k \in Jumps(t) : \E j \in Jumps(s) : moved(j) = k
    <3> SUFFICES ASSUME NEW k \in Jumps(t)
                 PROVE  \E j \in Jumps(s) : moved(j) = k
      OBVIOUS
    <3>1. CASE k < i
      BY <1>1, <2>2, <2>3, <2>4, <3>1 DEF Jumps
    <3>2. CASE k >= i
      <4>1. k + 1 \in Jumps(s) /\ moved(k + 1) = k
        BY <1>1, <2>2, <2>3, <2>4, <3>2 DEF Jumps
      <4> QED
        BY <4>1
    <3> QED
      BY <1>1, <2>2, <2>3, <2>4, <3>1, <3>2 DEF Jumps
  <2>7. \A k : Jumps(s) = {k} => Jumps(t) = {moved(k)}
    <3> SUFFICES ASSUME NEW k, Jumps(s) = {k} PROVE Jumps(t) = {moved(k)}
      OBVIOUS
    <3> HIDE DEF moved
    <3> QED
      BY <2>5, <2>6
  <2>8. Jumps(t) \subseteq DOMAIN t
    BY DEF Jumps
  <2> QED
    BY <2>3, <2>5, <2>6, <2>7, <2>8
<1> QED
  BY <1>2, <1>3

(* A finite set of at most one element is empty or has exactly that one.   *)
LEMMA AtMostOne ==
  ASSUME NEW S, IsFiniteSet(S), Cardinality(S) <= 1, NEW e \in S
  PROVE  S = {e}
<1>1. Cardinality({e}) = 1 /\ IsFiniteSet({e})
  BY FS_Singleton
<1>2. Cardinality(S) \in Nat
  BY FS_CardinalityType
<1>3. {e} \subseteq S /\ Cardinality(S) <= Cardinality({e})
  BY <1>1, <1>2
<1> QED
  BY <1>1, <1>2, <1>3, FS_Subset

-----------------------------------------------------------------------------
(* The inductive invariant.                                                *)

(* A jump that is in place leads to what the capture found.                *)
Old == chain = snapshot.chain \/ Jumps(rules) = {}

(* What the chain holds, and which failed command a jump or rules that are *)
(* still there are owed to, command by command.                            *)
ChainInv ==
  /\ Jumps(rules) # {} => chain # NoChain
  /\ phase \in {"create", "fill", "unjump", "jump"} => wanted # Nothing
  /\ phase \in {"drop_jumps", "drop_flush", "drop_delete"} => wanted = Nothing
  /\ phase \in {"create", "fill", "drop_jumps", "drop_flush"} => Old
  /\ phase \in {"unjump", "jump"} => chain = wanted
  /\ phase = "drop_delete" =>
       chain \in {NoChain, Nothing} \/ ("drop_flush" \in failed /\ Old)
  /\ phase \in {"r_fill", "r_jump"} => snapshot.chain # NoChain
  /\ phase = "r_jump" => chain = snapshot.chain
  /\ phase \in {"drop_flush", "drop_delete"} =>
       Jumps(rules) = {} \/ "drop_jumps" \in failed
  /\ phase = "jump" => Jumps(rules) = {} \/ "unjump" \in failed
  /\ SuccessApplies

(* POSTROUTING is what the capture found, but for its jump.                *)
Gone ==
  IF snapshot.positions = {} THEN rules = before
    ELSE \E p \in snapshot.positions :
           snapshot.positions = {p} /\ rules = RemoveAt(before, p)

(* A restoration over at most one jump, command by command.                *)
RestoreInv ==
  undisturbed =>
    /\ snapshot.positions = Jumps(before)
    /\ snapshot.positions # {} => snapshot.chain # NoChain
    /\ Cardinality(snapshot.positions) <= 1 =>
         /\ phase \in Forward \union {"r_unjump"} => rules = before \/ Gone
         /\ phase = "r_unjump" => attempts = 0 \/ Jumps(rules) = {}
         /\ phase \in {"r_flush", "r_delete", "r_create", "r_fill"} => Gone
         /\ phase = "r_delete" => chain \in {NoChain, Nothing}
         /\ phase = "r_create" => chain = NoChain
         /\ phase = "r_jump" =>
              IF toInsert = {} THEN rules = before
                ELSE toInsert = snapshot.positions /\ Gone
         /\ phase = "restored" => Undone
         /\ phase # "broken"

SnatInv == SnatTypeOK /\ ChainInv /\ RestoreInv

-----------------------------------------------------------------------------
(* Types.                                                                  *)

(* What a deletion of the first jump does to POSTROUTING.                  *)
LEMMA Deletes ==
  ASSUME SnatTypeOK, DeleteJump
  PROVE  /\ rules' \in POSTROUTING
         /\ SameForeign(rules, rules')
         /\ \A i : Jumps(rules) = {i} =>
              Jumps(rules') = {} /\ rules' = RemoveAt(rules, i)
<1>1. PICK i \in Jumps(rules) : rules' = RemoveAt(rules, i)
  BY DEF DeleteJump
<1>2. rules \in POSTROUTING
  BY DEF SnatTypeOK
<1>3. /\ RemoveAt(rules, i) \in POSTROUTING
      /\ Jumps(rules) = {i} => Jumps(RemoveAt(rules, i)) = {}
      /\ SameForeign(rules, RemoveAt(rules, i))
  BY <1>2, RemovesJump
<1> QED
  BY <1>1, <1>3

(* What an edit of Docker does to it.                                      *)
LEMMA Edits ==
  ASSUME SnatTypeOK, Edit
  PROVE  /\ rules' \in POSTROUTING
         /\ Jumps(rules) = {} <=> Jumps(rules') = {}
         /\ \A k : Jumps(rules) = {k} =>
              \E j \in DOMAIN rules' : Jumps(rules') = {j}
<1>1. rules \in POSTROUTING
  BY DEF SnatTypeOK
<1>2. \/ \E f \in Foreign, i \in 1..(Len(rules) + 1) :
           rules' = InsertAt(rules, i, f)
      \/ \E i \in Foreigns(rules) : rules' = RemoveAt(rules, i)
  BY DEF Edit
<1> QED
  BY <1>1, <1>2, EditsKeepJumps, EgressSnatAssumption

(* Where the owned jumps are: a finite set of positions.                   *)
LEMMA JumpPositions ==
  ASSUME NEW s \in POSTROUTING
  PROVE  Jumps(s) \subseteq Nat \ {0} /\ IsFiniteSet(Jumps(s))
<1>1. Len(s) \in Nat /\ DOMAIN s = 1..Len(s)
  BY LenProperties DEF POSTROUTING
<1>2. IsFiniteSet(1..Len(s)) /\ Jumps(s) \in SUBSET (1..Len(s))
  BY <1>1, FS_Interval DEF Jumps
<1>3. IsFiniteSet(Jumps(s))
  BY <1>2, FS_Subset
<1> QED
  BY <1>1, <1>2, <1>3

(* Every step keeps the variables in their types.                          *)
LEMMA SnatTypeStep ==
  ASSUME SnatTypeOK, [SnatNext]_snatVars
  PROVE  SnatTypeOK'
<1> USE EgressSnatAssumption DEF EgressSnatAssumption, SnatTypeOK
<1>1. ASSUME NEW contents \in Contents, Capture(contents)
      PROVE  SnatTypeOK'
  <2>1. Jumps(rules) \in SUBSET (Nat \ {0})
    BY JumpPositions
  <2> QED
    BY <1>1, <2>1 DEF Capture, Took, First, nat, Forward, Ended
<1>10. ASSUME NEW contents \in Contents, CaptureFails(contents)
       PROVE  SnatTypeOK'
  <2>1. Jumps(rules) \in SUBSET (Nat \ {0})
    BY JumpPositions
  <2>2. failures' \in 0..MaxFailures
    BY <1>10 DEF CaptureFails, FailOnce
  <2>3. /\ UNCHANGED <<rules, chain, toInsert, edits>>
        /\ phase' \in {"uncaptured", "drop_jumps", "create"}
        /\ wanted' = contents /\ attempts' = 0 /\ before' = rules
        /\ snapshot' = [chain |-> NoChain, positions |-> Jumps(rules)]
        /\ undisturbed' = FALSE /\ failed' = {"idle"}
    BY <1>10 DEF CaptureFails, Took, First, nat
  <2>4. snapshot' \in [chain     : Contents \union {NoChain},
                       positions : SUBSET (Nat \ {0})]
    BY <2>1, <2>3
  <2>5. phase' \in {"idle"} \union Forward \union Restoring \union Ended
    BY <2>3 DEF Forward, Ended
  <2>6. attempts' \in 0..(MaxJumps - 1) /\ (POSTROUTING' = POSTROUTING)
    BY <2>3 DEF POSTROUTING
  <2> QED
    BY <2>2, <2>3, <2>4, <2>5, <2>6
<1>2. ASSUME NEW from, NEW to, NEW beyond, Unjump(from, to, beyond),
             {from, to, beyond} \subseteq Forward \union Restoring \union Ended
      PROVE  SnatTypeOK'
  <2>1. rules' \in POSTROUTING
    BY <1>2, Deletes DEF Unjump
  <2> QED
    BY <1>2, <2>1 DEF Unjump, memory, call
<1>3. CASE Install
  <2>1. rules' \in POSTROUTING
    <3>1. Len(rules) \in Nat /\ 1 \in 1..(Len(rules) + 1)
      BY LenProperties DEF POSTROUTING
    <3> QED
      BY <1>3, <3>1, InsertsJump DEF Install, InsertJump
  <2> QED
    BY <1>3, <2>1 DEF Install, Proceed, memory, call, Ended
<1>4. CASE RestoreJump
  <2>1. PICK position \in toInsert :
          /\ toInsert' = toInsert \ {position}
          /\ IF position <= Len(rules) + 1
             THEN InsertJump(position) /\ UNCHANGED phase
             ELSE UNCHANGED rules /\ phase' = "broken"
    BY <1>4 DEF RestoreJump
  <2>2. rules' \in POSTROUTING
    <3>1. Len(rules) \in Nat /\ position \in Nat \ {0}
      BY LenProperties DEF POSTROUTING
    <3>2. CASE position <= Len(rules) + 1
      BY <2>1, <3>1, <3>2, InsertsJump DEF InsertJump
    <3> QED
      BY <2>1, <3>2
  <2> QED
    BY <1>4, <2>1, <2>2 DEF RestoreJump, memory, call, Ended
<1>5. CASE Create \/ Fill \/ RestoreCreate \/ RestoreFill \/ RestoreEnd
  <2> USE DEF Proceed, memory, call, Forward, Restoring, Ended
  <2>1. CASE Create
    BY <2>1 DEF Create
  <2>2. CASE Fill
    BY <2>2 DEF Fill, BeginRestore
  <2>3. CASE RestoreCreate
    BY <2>3 DEF RestoreCreate
  <2>4. CASE RestoreFill
    BY <2>4 DEF RestoreFill
  <2>5. CASE RestoreEnd
    BY <2>5 DEF RestoreEnd, nat
  <2> QED
    BY <1>5, <2>1, <2>2, <2>3, <2>4, <2>5
<1>6. ASSUME NEW from, NEW to, Flush(from, to) \/ Delete(from, to),
             to \in Forward \union Restoring \union Ended
      PROVE  SnatTypeOK'
  BY <1>6 DEF Flush, Delete, Proceed, memory, call
<1>7. CASE CommandFails
  <2>1. failures' \in 0..MaxFailures
    BY <1>7 DEF CommandFails, FailOnce
  <2>2. phase \in Forward \union Restoring
    BY <1>7 DEF CommandFails, Told, Tolerated, Proceed, Forward, Restoring
  <2>3. phase' \in Forward \union Restoring \union Ended
        /\ attempts' \in 0..(MaxJumps - 1)
    BY <1>7 DEF CommandFails, Told, Tolerated, BeginRestore, Proceed,
      Forward, Restoring, Ended
  <2> QED
    BY <1>7, <2>1, <2>2, <2>3 DEF CommandFails, nat, call
<1>8. CASE Edit
  <2>1. rules' \in POSTROUTING
    BY <1>8, Edits
  <2> QED
    <3>1. edits' \in 0..MaxEdits
      BY <1>8 DEF Edit
    <3> QED
      BY <1>8, <2>1, <3>1 DEF Edit, call
<1>9. CASE Return \/ UNCHANGED snatVars
  BY <1>9 DEF Return, snatVars, nat, call
<1> QED
  BY <1>1, <1>2, <1>3, <1>4, <1>5, <1>6, <1>7, <1>8, <1>9, <1>10
  DEF SnatNext, Command, Forward, Restoring, Ended

-----------------------------------------------------------------------------
(* The chain.                                                              *)

(* Inserting one's own jump leaves one, and the only one if there was none. *)
LEMMA Inserts ==
  ASSUME SnatTypeOK, NEW position \in 1..(Len(rules) + 1),
         InsertJump(position)
  PROVE  /\ rules' \in POSTROUTING
         /\ position \in Jumps(rules')
         /\ position \in DOMAIN rules'
         /\ Jumps(rules) = {} => Jumps(rules') = {position}
         /\ SameForeign(rules, rules')
<1>1. rules \in POSTROUTING
  BY DEF SnatTypeOK
<1>2. /\ InsertAt(rules, position, Jump) \in POSTROUTING
      /\ position \in Jumps(InsertAt(rules, position, Jump))
      /\ Jumps(rules) = {} =>
           Jumps(InsertAt(rules, position, Jump)) = {position}
      /\ SameForeign(rules, InsertAt(rules, position, Jump))
  BY <1>1, InsertsJump
<1>3. rules' = InsertAt(rules, position, Jump)
  BY DEF InsertJump
<1>4. Jumps(rules') \subseteq DOMAIN rules'
  BY DEF Jumps
<1> QED
  BY <1>2, <1>3, <1>4

(* Every step keeps what the chain is known to hold.                       *)
LEMMA ChainStep ==
  ASSUME SnatTypeOK, ChainInv, [SnatNext]_snatVars
  PROVE  ChainInv'
<1> USE DEF ChainInv, SuccessApplies, Old
<1>1. ASSUME NEW contents \in Contents,
             Capture(contents) \/ CaptureFails(contents)
      PROVE  ChainInv'
  BY <1>1 DEF Capture, CaptureFails, Took, First, nat
<1>2. CASE Create
  BY <1>2 DEF Create, Proceed, memory, call
<1>3. CASE Fill
  <2>1. UNCHANGED <<rules, wanted, snapshot, failed>> /\ wanted # Nothing
    BY <1>3 DEF Fill, memory, call
  <2>2. CASE chain = NoChain
    BY <1>3, <2>1, <2>2 DEF Fill, BeginRestore
  <2>3. CASE chain # NoChain
    <3>1. chain' = wanted /\ chain' # NoChain /\ phase' = "unjump"
      BY <1>3, <2>3, EgressSnatAssumption
      DEF Fill, SnatTypeOK, EgressSnatAssumption
    <3> QED
      BY <2>1, <3>1
  <2> QED
    BY <2>2, <2>3
<1>4. CASE Install
  <2>1. Len(rules) \in Nat /\ 1 \in 1..(Len(rules) + 1)
    BY LenProperties DEF SnatTypeOK, POSTROUTING
  <2>2. /\ Jumps(rules') # {} /\ 1 \in DOMAIN rules'
        /\ Jumps(rules) = {} => Jumps(rules') = {1}
    BY <1>4, <2>1, Inserts DEF Install
  <2>3. phase' = "ok" /\ chain' = chain /\ wanted' = wanted
        /\ failed' = failed /\ phase = "jump"
    BY <1>4 DEF Install, Proceed, memory, call
  <2>4. chain' = wanted' /\ wanted' # Nothing /\ chain' # NoChain
    BY <2>3, EgressSnatAssumption DEF SnatTypeOK, EgressSnatAssumption
  <2> QED
    BY <2>2, <2>3, <2>4
<1>5. ASSUME NEW from, NEW to, NEW beyond, Unjump(from, to, beyond),
             \/ from = "unjump" /\ to = "jump" /\ beyond = "r_unjump"
             \/ from = "drop_jumps" /\ to = "drop_flush" /\ beyond = "r_unjump"
             \/ from = "r_unjump" /\ to = "r_flush" /\ beyond = "broken"
      PROVE  ChainInv'
  <2>1. UNCHANGED <<chain, wanted, snapshot, failed>>
    BY <1>5 DEF Unjump, memory, call
  <2>2. CASE Jumps(rules) = {}
    BY <1>5, <2>1, <2>2 DEF Unjump
  <2>3. CASE Jumps(rules) # {}
    BY <1>5, <2>1, <2>3 DEF Unjump
  <2> QED
    BY <2>2, <2>3
<1>6. CASE \/ Flush("drop_flush", "drop_delete") \/ Delete("drop_delete", "ok")
           \/ Flush("r_flush", "r_delete") \/ Delete("r_delete", "r_create")
  <2>1. UNCHANGED <<rules, wanted, snapshot, failed>>
    BY <1>6 DEF Flush, Delete, memory, call
  <2>2. CASE Flush("drop_flush", "drop_delete")
    BY <2>1, <2>2, EgressSnatAssumption
    DEF Flush, Proceed, EgressSnatAssumption
  <2>3. CASE Delete("drop_delete", "ok")
    <3>1. /\ chain' = NoChain \/ chain' = chain
          /\ Jumps(rules) # {} => chain' = chain
          /\ Jumps(rules) = {} /\ chain = Nothing => chain' = NoChain
          /\ phase = "drop_delete" /\ phase' = "ok" /\ wanted = Nothing
      BY <2>3 DEF Delete, Proceed, InUse
    <3> QED
      BY <2>1, <3>1
  <2>4. CASE Flush("r_flush", "r_delete") \/ Delete("r_delete", "r_create")
    BY <2>1, <2>4, EgressSnatAssumption
    DEF Flush, Delete, InUse, Proceed, EgressSnatAssumption
  <2> QED
    BY <1>6, <2>2, <2>3, <2>4
<1>7. CASE RestoreCreate \/ RestoreFill \/ RestoreEnd
  BY <1>7, EgressSnatAssumption
  DEF RestoreCreate, RestoreFill, RestoreEnd, Proceed, memory, call, nat,
      EgressSnatAssumption
<1>8. CASE RestoreJump
  BY <1>8 DEF RestoreJump, memory, call
<1>9. CASE CommandFails
  <2>1. /\ UNCHANGED <<rules, chain, wanted, snapshot>>
        /\ failed' = failed \union {phase}
    BY <1>9 DEF CommandFails, nat, call
  <2>2. CASE Told
    BY <2>1, <2>2 DEF Told, BeginRestore, Proceed
  <2>3. CASE Tolerated
    BY <2>1, <2>3 DEF Tolerated, Proceed
  <2> QED
    BY <1>9, <2>2, <2>3 DEF CommandFails
<1>10. CASE Edit
  BY <1>10, Edits DEF Edit, call
<1>11. CASE Return \/ UNCHANGED snatVars
  BY <1>11 DEF Return, snatVars, nat, call
<1> QED
  BY <1>1, <1>2, <1>3, <1>4, <1>5, <1>6, <1>7, <1>8, <1>9, <1>10, <1>11
  DEF SnatNext, Command

-----------------------------------------------------------------------------
(* The restoration.                                                        *)

(* Without the jump that the capture found there is none.                  *)
LEMMA GoneLeavesNone ==
  ASSUME SnatTypeOK, snapshot.positions = Jumps(before), Gone
  PROVE  Jumps(rules) = {}
<1>1. before \in POSTROUTING
  BY DEF SnatTypeOK
<1>2. CASE snapshot.positions = {}
  BY <1>2 DEF Gone
<1>3. CASE snapshot.positions # {}
  <2>1. PICK p \in snapshot.positions :
          snapshot.positions = {p} /\ rules = RemoveAt(before, p)
    BY <1>3 DEF Gone
  <2> QED
    BY <1>1, <2>1, RemovesJump
<1> QED
  BY <1>2, <1>3

(* A deletion takes the one jump that the capture found.                   *)
LEMMA DeletesTheOne ==
  ASSUME SnatTypeOK, snapshot.positions = Jumps(before),
         Cardinality(snapshot.positions) <= 1,
         rules = before \/ Gone, DeleteJump, UNCHANGED <<snapshot, before>>
  PROVE  Gone' /\ Jumps(rules') = {}
<1>1. PICK i \in Jumps(rules) : rules' = RemoveAt(rules, i)
  BY DEF DeleteJump
<1>2. rules = before
  BY <1>1, GoneLeavesNone
<1>3. before \in POSTROUTING
  BY DEF SnatTypeOK
<1>4. snapshot.positions = {i}
  BY <1>1, <1>2, <1>3, JumpPositions, AtMostOne
<1>5. Jumps(rules') = {}
  BY <1>1, <1>2, <1>3, <1>4, RemovesJump
<1> QED
  BY <1>1, <1>2, <1>4, <1>5 DEF Gone

(* An insertion puts it back where it was.                                 *)
LEMMA InsertsTheOne ==
  ASSUME SnatTypeOK, snapshot.positions = Jumps(before), Gone,
         NEW position \in snapshot.positions
  PROVE  /\ snapshot.positions = {position}
         /\ position <= Len(rules) + 1
         /\ InsertJump(position) => rules' = before
<1>1. before \in POSTROUTING
  BY DEF SnatTypeOK
<1>2. snapshot.positions = {position} /\ rules = RemoveAt(before, position)
  BY DEF Gone
<1>3. /\ position \in 1..(Len(rules) + 1)
      /\ InsertAt(rules, position, Jump) = before
  BY <1>1, <1>2, RemovesJump
<1> QED
  BY <1>2, <1>3 DEF InsertJump

(* Every step keeps what a restoration relies on.                          *)
LEMMA RestoreStep ==
  ASSUME SnatTypeOK, ChainInv, RestoreInv, [SnatNext]_snatVars
  PROVE  RestoreInv'
<1> SUFFICES ASSUME undisturbed' PROVE RestoreInv'
  BY DEF RestoreInv
<1> DEFINE one == Cardinality(snapshot.positions) <= 1
<1>1. ASSUME NEW contents \in Contents, Capture(contents)
      PROVE  RestoreInv'
  BY <1>1 DEF Capture, Took, First, nat, RestoreInv, ChainInv
<1>2. ASSUME undisturbed, UNCHANGED <<snapshot, before>>,
             one => /\ phase' \in Forward \union {"r_unjump"} =>
                         (rules = before \/ Gone)'
                    /\ phase' = "r_unjump" =>
                         attempts' = 0 \/ Jumps(rules') = {}
                    /\ phase' \in {"r_flush", "r_delete", "r_create",
                                   "r_fill"} => Gone'
                    /\ phase' = "r_delete" => chain' \in {NoChain, Nothing}
                    /\ phase' = "r_create" => chain' = NoChain
                    /\ phase' = "r_jump" =>
                         IF toInsert' = {} THEN rules' = before'
                           ELSE toInsert' = snapshot'.positions /\ Gone'
                    /\ phase' = "restored" => Undone'
                    /\ phase' # "broken"
      PROVE  RestoreInv'
  BY <1>2 DEF RestoreInv
<1>3. undisturbed => /\ snapshot.positions = Jumps(before)
                     /\ rules = before => Jumps(rules) = snapshot.positions
  BY DEF RestoreInv
<1>4. CASE Create \/ Fill \/ Install
  <2>1. UNCHANGED <<snapshot, before, undisturbed>>
    BY <1>4 DEF Create, Fill, Install, memory, call
  <2>2. CASE Create \/ Fill
    BY <1>2, <2>1, <2>2
    DEF Create, Fill, BeginRestore, Proceed, RestoreInv, Gone, Forward
  <2>3. CASE Install
    BY <1>2, <2>1, <2>3 DEF Install, Proceed, RestoreInv, Forward
  <2> QED
    BY <1>4, <2>2, <2>3
<1>5. ASSUME NEW from \in {"unjump", "drop_jumps"}, NEW to \in Forward,
             Unjump(from, to, "r_unjump")
      PROVE  RestoreInv'
  <2>1. UNCHANGED <<snapshot, before, undisturbed>>
    BY <1>5 DEF Unjump, memory, call
  <2>2. one => (rules = before \/ Gone)' /\ (Jumps(rules) # {} => Gone')
    <3>1. CASE Jumps(rules) = {}
      BY <1>5, <2>1, <3>1 DEF Unjump, RestoreInv, Gone, Forward
    <3>2. CASE Jumps(rules) # {}
      BY <1>5, <2>1, <3>2, DeletesTheOne DEF Unjump, RestoreInv, Forward
    <3> QED
      BY <3>1, <3>2
  <2> QED
    BY <1>2, <1>5, <2>1, <2>2 DEF Unjump, Forward
<1>6. CASE Unjump("r_unjump", "r_flush", "broken")
  <2>1. UNCHANGED <<snapshot, before, undisturbed>>
    BY <1>6 DEF Unjump, memory, call
  <2>2. CASE Jumps(rules) = {}
    <3>1. one => Gone
      BY <1>6, <2>1, <2>2, <1>3 DEF RestoreInv, Gone, Unjump
    <3> QED
      BY <1>2, <1>6, <2>1, <2>2, <3>1 DEF Unjump, Gone, Forward
  <2>3. CASE Jumps(rules) # {}
    <3>1. one => Gone' /\ Jumps(rules') = {}
      BY <1>6, <2>1, <2>3, DeletesTheOne DEF Unjump, RestoreInv
    <3>2. one => attempts + 1 # MaxJumps
      BY <1>6, <2>1, <2>3, EgressSnatAssumption
      DEF Unjump, RestoreInv, EgressSnatAssumption
    <3> QED
      BY <1>2, <1>6, <2>1, <2>3, <3>1, <3>2 DEF Unjump, Forward
  <2> QED
    BY <2>2, <2>3
<1>7. CASE Flush("drop_flush", "drop_delete") \/ Delete("drop_delete", "ok")
  <2>1. UNCHANGED <<snapshot, before, undisturbed, rules>>
    BY <1>7 DEF Flush, Delete, memory, call
  <2> QED
    BY <1>2, <1>7, <2>1
    DEF Flush, Delete, Proceed, RestoreInv, Gone, Forward
<1>8. CASE Flush("r_flush", "r_delete") \/ Delete("r_delete", "r_create")
  <2>1. UNCHANGED <<snapshot, before, undisturbed, rules>>
    BY <1>8 DEF Flush, Delete, memory, call
  <2>2. one => Gone /\ Gone' /\ Jumps(rules) = {}
    BY <1>8, <2>1, GoneLeavesNone DEF Flush, Delete, Proceed, RestoreInv, Gone
  <2>3. one /\ phase' = "r_create" => chain' = NoChain
    BY <1>8, <2>1, <2>2 DEF Flush, Delete, Proceed, InUse, RestoreInv
  <2>4. phase' = "r_delete" => chain' \in {NoChain, Nothing}
    BY <1>8 DEF Flush, Delete, Proceed
  <2> QED
    BY <1>2, <1>8, <2>1, <2>2, <2>3, <2>4 DEF Flush, Delete, Proceed, Forward
<1>9. CASE RestoreCreate
  <2>1. UNCHANGED <<snapshot, before, undisturbed, rules>>
    BY <1>9 DEF RestoreCreate, memory, call
  <2>2. one => Gone /\ Gone' /\ chain = NoChain
    BY <1>9, <2>1 DEF RestoreCreate, RestoreInv, Gone
  <2>3. one /\ phase' = "restored" => Undone'
    BY <1>9, <2>1, <2>2 DEF RestoreCreate, RestoreInv, Gone, Undone
  <2> QED
    BY <1>2, <1>9, <2>1, <2>2, <2>3 DEF RestoreCreate, Forward
<1>10. CASE RestoreFill
  <2>1. UNCHANGED <<snapshot, before, undisturbed, rules>>
    BY <1>10 DEF RestoreFill, memory, call
  <2>2. one => Gone /\ Gone'
    BY <1>10, <2>1 DEF RestoreFill, Proceed, RestoreInv, Gone
  <2>3. one => IF toInsert' = {} THEN rules' = before'
                 ELSE toInsert' = snapshot'.positions /\ Gone'
    BY <1>10, <2>1, <2>2 DEF RestoreFill, Gone
  <2> QED
    BY <1>2, <1>10, <2>1, <2>3 DEF RestoreFill, Proceed, Forward
<1>11. CASE RestoreJump
  <2>1. UNCHANGED <<snapshot, before, undisturbed>> /\ phase = "r_jump"
    BY <1>11 DEF RestoreJump, memory, call
  <2>2. PICK position \in toInsert :
          /\ toInsert' = toInsert \ {position}
          /\ IF position <= Len(rules) + 1
             THEN InsertJump(position) /\ UNCHANGED phase
             ELSE UNCHANGED rules /\ phase' = "broken"
    BY <1>11 DEF RestoreJump
  <2>3. one => toInsert = snapshot.positions /\ Gone
    BY <2>1, <2>2 DEF RestoreInv
  <2>4. one => /\ snapshot.positions = {position}
               /\ position <= Len(rules) + 1
               /\ InsertJump(position) => rules' = before
    BY <1>3, <2>1, <2>2, <2>3, InsertsTheOne
  <2>5. one => toInsert' = {} /\ rules' = before' /\ phase' = "r_jump"
    BY <2>1, <2>2, <2>3, <2>4
  <2> QED
    BY <1>2, <2>1, <2>5 DEF Forward
<1>12. CASE RestoreEnd
  <2>1. UNCHANGED <<snapshot, before, undisturbed, rules, chain>>
    BY <1>12 DEF RestoreEnd, memory, call, nat
  <2>2. one => Undone'
    BY <1>12, <2>1 DEF RestoreEnd, Proceed, RestoreInv, ChainInv, Undone
  <2> QED
    BY <1>2, <1>12, <2>1, <2>2 DEF RestoreEnd, Proceed, Forward
<1>13. CASE CommandFails
  <2>1. UNCHANGED <<snapshot, before, rules>> /\ undisturbed
        /\ phase \notin Restoring
    BY <1>13 DEF CommandFails, nat, call
  <2>2. /\ phase \in Forward
        /\ phase' \in Forward \union {"r_unjump", "ok"}
        /\ phase' = "r_unjump" => attempts' = 0
    <3>1. \/ /\ phase \in {"create", "fill", "jump", "drop_flush",
                         "drop_delete"}
             /\ phase' = "r_unjump" /\ attempts' = 0
          \/ phase = "unjump" /\ phase' = "jump"
          \/ phase = "drop_jumps" /\ phase' = "drop_flush"
          \/ phase = "create" /\ phase' = "fill"
          \/ phase = "drop_flush" /\ phase' = "drop_delete"
          \/ phase = "drop_delete" /\ phase' = "ok"
          \/ phase \in Restoring
      BY <1>13
      DEF CommandFails, Told, Tolerated, BeginRestore, Proceed, Restoring
    <3> QED
      BY <2>1, <3>1 DEF Forward
  <2>3. one => (rules = before \/ Gone)'
    BY <2>1, <2>2 DEF RestoreInv, Gone
  <2> QED
    BY <1>2, <2>1, <2>2, <2>3 DEF Forward
<1>14. CASE UNCHANGED snatVars
  BY <1>14 DEF snatVars, RestoreInv, Gone, Undone
<1>15. CASE \/ Edit \/ Return
             \/ \E contents \in Contents : CaptureFails(contents)
  BY <1>15 DEF Edit, Return, CaptureFails
<1> QED
  BY <1>1, <1>4, <1>5, <1>6, <1>7, <1>8, <1>9, <1>10, <1>11, <1>12, <1>13,
     <1>14, <1>15 DEF SnatNext, Command, Forward

-----------------------------------------------------------------------------
(* Theorems.                                                               *)

(* The inductive invariant holds of every reachable state.                 *)
THEOREM SnatInvariance == SnatSpec => []SnatInv
<1>1. SnatInit => SnatInv
  <2> SUFFICES ASSUME SnatInit PROVE SnatInv
    OBVIOUS
  <2>1. rules \in POSTROUTING /\ before \in POSTROUTING
    <3>1. <<>> \in Seq(Foreign \union {Jump})
      BY EmptySeq
    <3> QED
      BY <3>1, EgressSnatAssumption
      DEF SnatInit, EgressSnatAssumption, POSTROUTING
  <2>2. SnatTypeOK
    <3>1. /\ 0 \in 0..(MaxJumps - 1)
          /\ 0 \in 0..MaxFailures /\ 0 \in 0..MaxEdits
      BY EgressSnatAssumption DEF EgressSnatAssumption
    <3>2. Nothing \in Contents
      BY EgressSnatAssumption DEF EgressSnatAssumption
    <3> QED
      BY <2>1, <3>1, <3>2 DEF SnatInit, SnatTypeOK
  <2> QED
    BY <2>2 DEF SnatInit, SnatInv, ChainInv, RestoreInv, SuccessApplies
<1>2. SnatInv /\ [SnatNext]_snatVars => SnatInv'
  BY SnatTypeStep, ChainStep, RestoreStep DEF SnatInv
<1> QED
  BY <1>1, <1>2, PTL DEF SnatSpec

(* A jump that is in place leads to the old rules or to the new ones.      *)
THEOREM LiveChain == SnatSpec => []LiveChainIsWhole
<1>1. SnatInv => LiveChainIsWhole
  BY EgressSnatAssumption
  DEF SnatInv, ChainInv, Old, LiveChainIsWhole, Forward,
      EgressSnatAssumption
<1> QED
  BY <1>1, SnatInvariance, PTL

(* A replacement that succeeds has its rules in force, and a removal none, *)
(* but for the two failures that both pass for "there is none".            *)
THEOREM SuccessInForce == SnatSpec => []SuccessApplies
<1>1. SnatInv => SuccessApplies
  BY DEF SnatInv, ChainInv
<1> QED
  BY <1>1, SnatInvariance, PTL

(* A failed call over at most one jump puts back what it found.            *)
THEOREM OneJumpRestored == SnatSpec => []RestoresOneJump
<1>1. SnatInv => RestoresOneJump
  BY DEF SnatInv, RestoreInv, RestoresOneJump
<1> QED
  BY <1>1, SnatInvariance, PTL

(* No step but Docker's deletes, adds or reorders a rule it does not own.  *)
THEOREM ForeignKept == SnatSpec => ForeignRulesKept
<1>1. SnatInv /\ [SnatNext]_snatVars => KeepsForeign
  <2> SUFFICES ASSUME SnatInv, [SnatNext]_snatVars, edits' = edits
               PROVE  SameForeign(rules, rules')
    BY DEF KeepsForeign
  <2>1. SnatTypeOK
    BY DEF SnatInv
  <2>2. ASSUME UNCHANGED rules PROVE SameForeign(rules, rules')
    <3> DEFINE place == [i \in Foreigns(rules) |-> i]
    <3>1. place \in [Foreigns(rules) -> Foreigns(rules')]
      BY <2>2
    <3> QED
      BY <2>2, <3>1 DEF SameForeign
  <2>3. ASSUME NEW from, NEW to, NEW beyond, Unjump(from, to, beyond)
        PROVE  SameForeign(rules, rules')
    BY <2>1, <2>2, <2>3, Deletes DEF Unjump
  <2>4. CASE Install
    <3>1. Len(rules) \in Nat /\ 1 \in 1..(Len(rules) + 1)
      BY <2>1, LenProperties DEF SnatTypeOK, POSTROUTING
    <3> QED
      BY <2>1, <2>4, <3>1, Inserts DEF Install
  <2>5. CASE RestoreJump
    <3>1. PICK position \in toInsert :
            IF position <= Len(rules) + 1 THEN InsertJump(position)
            ELSE UNCHANGED rules
      BY <2>5 DEF RestoreJump
    <3>2. Len(rules) \in Nat /\ position \in Nat \ {0}
      BY <2>1, LenProperties DEF SnatTypeOK, POSTROUTING
    <3> QED
      BY <2>1, <2>2, <3>1, <3>2, Inserts
  <2>6. CASE Edit
    BY <2>1, <2>6, EgressSnatAssumption
    DEF Edit, SnatTypeOK, EgressSnatAssumption
  <2>7. CASE \/ \E contents \in Contents :
                  Capture(contents) \/ CaptureFails(contents)
             \/ Create \/ Fill \/ RestoreCreate \/ RestoreFill \/ RestoreEnd
             \/ \E from, to : Flush(from, to) \/ Delete(from, to)
             \/ CommandFails \/ Return \/ UNCHANGED snatVars
    BY <2>2, <2>7 DEF Capture, CaptureFails, Took, Create, Fill,
      RestoreCreate, RestoreFill, RestoreEnd, Flush, Delete, CommandFails, Return, nat, snatVars
  <2> QED
    BY <2>3, <2>4, <2>5, <2>6, <2>7 DEF SnatNext, Command
<1> QED
  BY <1>1, SnatInvariance, PTL DEF SnatSpec, ForeignRulesKept
=============================================================================
