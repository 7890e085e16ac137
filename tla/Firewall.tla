------------------------------ MODULE Firewall ------------------------------
(***************************************************************************)
(* The host firewall: a reconciliation renders the declaration it was      *)
(* given and loads it with nft (_render_firewall, _apply_firewall_rules);  *)
(* meanwhile others change the table, and the doctor or an operator asks   *)
(* whether it still is what was declared (verify_firewall_policy).         *)
(*                                                                         *)
(* Abstracted: the reconciler's lock and its other stages are the module   *)
(* Reconcile's and Apply's; who changes the table from outside deletes or  *)
(* opens what is there (drift), and adds nothing to it.  The table of an   *)
(* earlier declaration may still be there, worn by the same drift.         *)
(***************************************************************************)
EXTENDS FirewallPolicy, Naturals

CONSTANTS
  Declarations,  (* [policy, compose] pairs a registry may hold             *)
  Inventories,   (* what `ip address` may show: sets of [interface, bind]   *)
  Before,        (* the tables an earlier reconciliation may have left      *)
  Absent,        (* no table                                                *)
  Packets,       (* [interface, host, address, protocol, port]              *)
  MaxDrifts,     (* bound on changes from outside                           *)
  MaxFaults      (* bound on nft commands that fail                         *)

VARIABLES
  declaration,   (* the registry's firewall policy and the Compose file     *)
  table,         (* infralink_filter: Absent, or its chains; `drops` names  *)
                 (* the chains that drop what no rule accepts               *)
  pc,            (* the stage of the reconciliation                         *)
  verdict,       (* the last verification's, while nothing changed since    *)
  loaded,        (* history: the table was loaded and not changed since     *)
  drifts, faults

vars == <<declaration, table, pc, verdict, loaded, drifts, faults>>

policy == declaration.policy
compose == declaration.compose

Chains == {"input", "forward"}
EmptyTable == [input |-> {}, forward |-> {}, drops |-> {}]
Table(rules) ==
  [input |-> rules.input, forward |-> rules.forward, drops |-> Chains]

(* A table that the declaration `d` was rendered to, worn since.           *)
WornFrom(t, d) ==
  LET rules == Rendered(d.policy, d.compose)
  IN  t \in [input   : SUBSET rules.input,
             forward : SUBSET rules.forward,
             drops   : SUBSET Chains]

(* `Open` is no interface, network, address, protocol or port.  An ingress *)
(* rule always names its interface; only the one of ssh may be open.       *)
ASSUME FirewallAssumption ==
  /\ Open \notin Bridges \union {"lo", "tcp", Wireguard.protocol}
  /\ Open # Wireguard.port
  /\ \A d \in Declarations :
       /\ Table(Rendered(d.policy, d.compose)) # Absent
       /\ \A i \in d.policy.ingress :
            /\ Open \notin {i.interface, i.bind, i.protocol}
            /\ Open \notin i.sources /\ Open \notin i.ports
       /\ Open # d.policy.ssh.port /\ Open \notin d.policy.ssh.sources
       /\ \A e \in External(d.compose) : e.mapping.target # Open
  /\ \A t \in Before \ {Absent} : \E d \in Declarations : WornFrom(t, d)
  /\ MaxDrifts \in Nat /\ MaxFaults \in Nat

Init ==
  /\ declaration \in Declarations
  /\ table \in Before
  /\ pc = "render"
  /\ verdict = "none"
  /\ loaded = FALSE
  /\ drifts = 0
  /\ faults = 0

Move(from, to) == pc = from /\ pc' = to
MayFail == faults < MaxFaults
Fault == MayFail /\ faults' = faults + 1

-----------------------------------------------------------------------------
(* The reconciliation.                                                     *)

(* _validate_host_listeners: every declared listener exists on this host.  *)
Listens(inventory) ==
  /\ policy.ssh.interface \in {Open} \union {a.interface : a \in inventory}
  /\ \A i \in policy.ingress :
       [interface |-> i.interface, bind |-> i.bind] \in inventory

Render ==
  /\ \E inventory \in Inventories :
       Move("render", IF Listens(inventory) /\ Renderable(policy, compose)
                        THEN "list" ELSE "failed")
  /\ UNCHANGED <<declaration, table, verdict, loaded, drifts, faults>>

(* Any failure of `nft list` counts as no table.                           *)
FindTable ==
  /\ \/ Move("list", IF table = Absent THEN "add" ELSE "load")
        /\ UNCHANGED faults
     \/ Move("list", "add") /\ Fault
  /\ UNCHANGED <<declaration, table, verdict, loaded, drifts>>

AddTable ==
  /\ \/ /\ Move("add", "load")
        /\ IF table = Absent THEN table' = EmptyTable /\ verdict' = "none"
                             ELSE UNCHANGED <<table, verdict>>
        /\ UNCHANGED faults
     \/ Move("add", "failed") /\ Fault /\ UNCHANGED <<table, verdict>>
  /\ UNCHANGED <<declaration, loaded, drifts>>

(* `nft -f`: one transaction, that deletes the table, so it must be there. *)
LoadTable ==
  /\ \/ /\ table # Absent
        /\ Move("load", "up")
        /\ table' = Table(Rendered(policy, compose))
        /\ loaded' = TRUE
        /\ verdict' = "none"
        /\ UNCHANGED faults
     \/ /\ table = Absent
        /\ Move("load", "failed")
        /\ UNCHANGED <<table, loaded, verdict, faults>>
     \/ Move("load", "failed") /\ Fault /\ UNCHANGED <<table, loaded, verdict>>
  /\ UNCHANGED <<declaration, drifts>>

(* The timer's next run.                                                   *)
Again ==
  /\ \E from \in {"up", "failed"} : Move(from, "render")
  /\ UNCHANGED <<declaration, table, verdict, loaded, drifts, faults>>

-----------------------------------------------------------------------------
(* The verification, at any moment.                                        *)

(* The text of `rule` is part of the text of `line`: an open interface or  *)
(* source at its start is no text at all.                                  *)
Covers(line, rule) ==
  \/ line = rule
  \/ /\ rule.interface = Open
     /\ <<line.reply, line.protocol, line.port>> =
          <<rule.reply, rule.protocol, rule.port>>
     /\ \/ rule.source = Open
        \/ <<line.source, line.to, line.original>> =
             <<rule.source, rule.to, rule.original>>

(* Variant: the chain that is looked at is the input chain only.           *)
RequiredInput == {"input"}
RequiredChains == Chains

Verified ==
  LET expected == Rendered(policy, compose)
  IN  /\ RequiredChains \subseteq table.drops
      /\ \A rule \in expected.input \union expected.forward :
           \E line \in table.input \union table.forward : Covers(line, rule)

Verify ==
  /\ verdict = "none"
  /\ verdict' =
       IF \/ ~Renderable(policy, compose) \/ table = Absent
         THEN "unavailable"
         ELSE IF Verified THEN "verified" ELSE "drift"
  /\ UNCHANGED <<declaration, table, pc, loaded, drifts, faults>>

-----------------------------------------------------------------------------
(* Others.                                                                 *)

DeleteRule ==
  \/ \E rule \in table.input : table' = [table EXCEPT !.input = @ \ {rule}]
  \/ \E rule \in table.forward : table' = [table EXCEPT !.forward = @ \ {rule}]
OpenChain ==
  \E chain \in table.drops : table' = [table EXCEPT !.drops = @ \ {chain}]

Drift ==
  /\ drifts < MaxDrifts
  /\ table # Absent
  /\ table' = Absent \/ DeleteRule \/ OpenChain
  /\ drifts' = drifts + 1
  /\ loaded' = FALSE
  /\ verdict' = "none"
  /\ UNCHANGED <<declaration, pc, faults>>

-----------------------------------------------------------------------------
Next ==
  Render \/ FindTable \/ AddTable \/ LoadTable \/ Again \/ Verify \/ Drift

Spec == Init /\ [][Next]_vars

-----------------------------------------------------------------------------
(* Reference: which packets pass, and which the declaration speaks of.     *)

(* What a table lets through: with no table everything does.               *)
Chain(packet) == IF Mappings(compose, packet) = {} THEN "input" ELSE "forward"
Passes(packet) ==
  IF table = Absent THEN TRUE
    ELSE Chain(packet) \notin table.drops \/ Accepts(table, compose, packet)

From(packet, interface, sources) ==
  /\ interface \in {Open, packet.interface}
  /\ \E network \in sources : packet.host \in network

ByIngress(i, packet) ==
  /\ From(packet, i.interface, i.sources)
  /\ <<i.bind, i.protocol>> = <<packet.address, packet.protocol>>

DeclaredIngress(packet) ==
  \E i \in policy.ingress : ByIngress(i, packet) /\ packet.port \in i.ports

DeclaredSsh(packet) ==
  /\ From(packet, policy.ssh.interface, policy.ssh.sources)
  /\ <<packet.protocol, packet.port>> = <<"tcp", policy.ssh.port>>
  /\ Mappings(compose, packet) = {}

(* A forwarded packet has lost the port it was sent to: the rule of a      *)
(* mapping also fits another one of that address, to the same port of a    *)
(* container.                                                              *)
SameTarget(packet) ==
  \E e \in Mappings(compose, packet), i \in policy.ingress,
     f \in External(compose) :
    /\ ByIngress(i, packet)
    /\ <<f.service, f.mapping.protocol, f.mapping.address>> =
         <<i.service, i.protocol, i.bind>>
    /\ f.mapping.port \in i.ports
    /\ f.mapping.target = e.mapping.target

ToTunnel(packet) ==
  /\ <<packet.protocol, packet.port>> = <<Wireguard.protocol, Wireguard.port>>
  /\ Mappings(compose, packet) = {}

FromOutside == {p \in Packets : p.interface \notin Bridges \union {"lo"}}

ServesDeclared ==
  OneOwner(policy, compose) =>
    \A p \in Packets : DeclaredIngress(p) \/ DeclaredSsh(p) => Passes(p)

ServesOnly ==
  \A p \in FromOutside :
    Passes(p) => \/ DeclaredIngress(p) \/ DeclaredSsh(p)
                 \/ SameTarget(p) \/ ToTunnel(p)

-----------------------------------------------------------------------------
(* Types.                                                                  *)
TypeOK ==
  /\ declaration \in Declarations
  /\ table # Absent => table.drops \subseteq Chains
  /\ pc \in {"render", "list", "add", "load", "up", "failed"}
  /\ verdict \in {"none", "unavailable", "verified", "drift"}
  /\ loaded \in BOOLEAN
  /\ drifts \in 0..MaxDrifts
  /\ faults \in 0..MaxFaults

(* Every flow that the declaration names is let through by the table that  *)
(* was rendered from it, whichever of Docker and the host answers: the     *)
(* rules name what a packet has become when its chain sees it              *)
(* (render_firewall_policy).                                               *)
AdmitsDeclared == loaded => ServesDeclared

(* Nothing else is let in from outside: what the Compose file publishes    *)
(* and the declaration omits stays closed (render_firewall_policy).        *)
AdmitsNothingElse == loaded => ServesOnly

(* The table holds no rule that an earlier declaration, or others, left.    *)
NothingLeftOver == WornFrom(table, declaration)

(* A verification that passes is worth as much as a reload, although it    *)
(* looks for each rule's text anywhere in the table: every declared flow   *)
(* is served and, unless rules of an earlier declaration are still there,  *)
(* nothing else.  With such rules it may also take one of another          *)
(* interface for the rule of an ssh that any interface answers             *)
(* (verify_firewall_policy).                                               *)
VerifiedMeansEnforced ==
  verdict = "verified" =>
    /\ policy.ssh.interface # Open \/ NothingLeftOver => ServesDeclared
    /\ NothingLeftOver => ServesOnly
=============================================================================
