---------------------------- MODULE NetworkPlan -----------------------------
(***************************************************************************)
(* Changes of a router's networks, checked against what its last report    *)
(* says of them (preflight_errors) and applied later, one after another.   *)
(* A segment has an address, a DHCP pool and ports of a bridge of its own; *)
(* a bridge may have VLANs, the LAN leases.                                *)
(*                                                                         *)
(* Addresses are small numbers and a mask is the size of its block.        *)
(* Segments without a static address, the WAN and port forwards, which are *)
(* checked like leases, are left out.                                      *)
(***************************************************************************)
EXTENDS Integers, Sequences

CONSTANTS
  Segments,        \* names of segments other than "lan"
  Addresses, Sizes, Starts, Counts, Ports, VlanIds, \* what may be asked for
  MaxCommands      \* bound

VARIABLES
  plan,      \* the networks of the router
  reported,  \* what its last report says of them
  queue,     \* commands that were accepted, in the order of their execution
  nr,        \* commands accepted so far
  blind      \* history: commands that were checked against an old report or none

planVars == <<plan, reported, queue, nr, blind>>

-----------------------------------------------------------------------------
Names == Segments \cup {"lan"}
NoPool == <<0, 0>>
Pools == {NoPool} \cup (Starts \X Counts)
Base(net) == net.address - (net.address % net.size)
In(address, net) == address \in Base(net)..(Base(net) + net.size - 1)
Overlap(a, b) == Base(a) < Base(b) + b.size /\ Base(b) < Base(a) + a.size
Edge(net) == net.address \in {Base(net), Base(net) + net.size - 1}

\* nr is history: the command that set it last, 0 for none.
Net(address, size, pool, n) == [address |-> address, size |-> size, pool |-> pool, nr |-> n]
Networks(lan, masked) ==
  [nets |-> [lan |-> Net(lan, 4, NoPool, 0)], masked |-> masked,
   bridges |-> [lan |-> {1}], vlans |-> <<>>, leases |-> {}]
Nothing == [nets |-> <<>>, masked |-> FALSE, bridges |-> <<>>, vlans |-> <<>>, leases |-> {}]

\* An address of the LAN that carries its own mask has none in the report.
PlanInit ==
  /\ \E masked \in BOOLEAN : plan = Networks(1, masked)
  /\ reported \in {plan, Nothing} /\ queue = <<>> /\ nr = 0 /\ blind = {}

Commands ==
  [type : {"segment"}, name : Segments, address : Addresses, size : Sizes, pool : Pools,
   own : {FALSE}, ports : {{}}]
  \cup [type : {"segment"}, name : Segments, address : Addresses, size : {4}, pool : {NoPool},
        own : BOOLEAN, ports : SUBSET Ports]
  \cup [type : {"lan"}, address : Addresses, size : Sizes]
  \cup [type : {"delete"}, name : Segments]
  \cup [type : {"vlan"}, section : {"", "edited"}, bridge : Names, id : VlanIds,
        ports : (SUBSET Ports) \ {{}}]
  \cup [type : {"lease"}, address : Addresses]

-----------------------------------------------------------------------------
(* preflight_errors: the errors of a command, given a report. *)

Others(c, t) == {n \in DOMAIN t.nets : n # c.name /\ (n = "lan" => t.masked)}
\* Mutant: the last address of the pool may be that of a broadcast.
PoolErrorsWide(c) ==
  IF c.pool = NoPool THEN {}
  ELSE LET first == c.pool[1]
           last == c.pool[1] + c.pool[2] - 1
       IN IF last > c.size - 1 THEN {"pool"}
          ELSE IF (c.address % c.size) \in first..last THEN {"router in pool"} ELSE {}
PoolErrors(c) ==
  IF c.pool = NoPool THEN {}
  ELSE LET first == c.pool[1]
           last == c.pool[1] + c.pool[2] - 1
       IN IF last >= c.size - 1 THEN {"pool"}
          ELSE IF (c.address % c.size) \in first..last THEN {"router in pool"} ELSE {}
\* The section of a VLAN that the command names, or that of its bridge and id.
Section(c) == IF c.section = "" THEN <<c.bridge, c.id>> ELSE <<c.section, 0>>
SameId(c, t, s) == t.vlans[s].bridge = c.bridge /\ t.vlans[s].id = c.id
\* The bridge of the command is excepted only if it is named.
PortErrors(c, t) ==
  IF \E b \in DOMAIN t.bridges : ~(c.own /\ b = c.name) /\ c.ports \cap t.bridges[b] # {}
  THEN {"ports"} ELSE {}
SegmentErrors(c, t) ==
  (IF Edge(c) THEN {"edge"} ELSE {})
  \cup (IF \E n \in Others(c, t) : Overlap(c, t.nets[n]) THEN {"overlap"} ELSE {})
  \cup PoolErrors(c) \cup PortErrors(c, t)
LanErrors(c) == IF Edge(c) THEN {"edge"} ELSE {}
\* Mutant: the VLAN that has the id is taken for the one that is edited.
VlanErrorsAcross(c, t) ==
  IF DOMAIN t.bridges # {} /\ c.bridge \notin DOMAIN t.bridges THEN {"bridge"}
  ELSE IF \E s \in DOMAIN t.vlans : s = Section(c) /\ SameId(c, t, s) THEN {"id"}
  ELSE IF c.bridge \in DOMAIN t.bridges /\ ~(c.ports \subseteq t.bridges[c.bridge])
  THEN {"ports"} ELSE {}
VlanErrors(c, t) ==
  IF DOMAIN t.bridges # {} /\ c.bridge \notin DOMAIN t.bridges THEN {"bridge"}
  ELSE IF \E s \in DOMAIN t.vlans : s # <<c.section, 0>> /\ SameId(c, t, s) THEN {"id"}
  ELSE IF c.bridge \in DOMAIN t.bridges /\ ~(c.ports \subseteq t.bridges[c.bridge])
  THEN {"ports"} ELSE {}
LeaseErrors(c, t) ==
  IF "lan" \in DOMAIN t.nets /\ ~In(c.address, t.nets["lan"]) THEN {"subnet"} ELSE {}

Errors(c, t) ==
  CASE c.type = "segment" -> SegmentErrors(c, t)
    [] c.type = "lan" -> LanErrors(c)
    [] c.type = "vlan" -> VlanErrors(c, t)
    [] c.type = "lease" -> LeaseErrors(c, t)
    [] OTHER -> {}

-----------------------------------------------------------------------------
\* create_command: an automation or a group command is not given the report.
Create(c, t) ==
  /\ nr < MaxCommands /\ nr' = nr + 1
  /\ Errors(c, t) = {}
  /\ queue' = Append(queue, [nr |-> nr + 1, command |-> c])
  /\ blind' = IF t = plan /\ queue = <<>> THEN blind ELSE blind \cup {nr + 1}
  /\ UNCHANGED <<plan, reported>>

With(f, name, value) == [n \in DOMAIN f \cup {name} |-> IF n = name THEN value ELSE f[n]]
Without(f, name) == [n \in DOMAIN f \ {name} |-> f[n]]

\* The agent: network.set_segment, set_lan, delete_segment, set_vlan, dhcp.set_lease.
Applied(c, n) ==
  CASE c.type = "segment" ->
         [plan EXCEPT !.nets = With(@, c.name, Net(c.address, c.size, c.pool, n)),
                      !.bridges = IF c.ports = {} THEN Without(@, c.name)
                                  ELSE With(@, c.name, c.ports)]
    [] c.type = "lan" -> [plan EXCEPT !.nets["lan"] = Net(c.address, c.size, @.pool, n)]
    [] c.type = "delete" -> [plan EXCEPT !.nets = Without(@, c.name),
                                         !.bridges = Without(@, c.name)]
    [] c.type = "vlan" ->
         [plan EXCEPT !.vlans = With(@, Section(c), [bridge |-> c.bridge, id |-> c.id, nr |-> n])]
    [] c.type = "lease" -> [plan EXCEPT !.leases = @ \cup {[address |-> c.address, nr |-> n]}]

\* The next command is executed, or fails and leaves nothing (ConfigTransaction).
Execute ==
  /\ queue # <<>> /\ queue' = Tail(queue)
  /\ plan' \in {Applied(Head(queue).command, Head(queue).nr), plan}
  /\ UNCHANGED <<reported, nr, blind>>

Report == reported' = plan /\ UNCHANGED <<plan, queue, nr, blind>>

PlanNext ==
  \/ \E c \in Commands : Create(c, reported)
  \/ \E c \in Commands : Create(c, Nothing)
  \/ Execute
  \/ Report

PlanSpec == PlanInit /\ [][PlanNext]_planVars

-----------------------------------------------------------------------------
Checked(n) == n # 0 /\ n \notin blind

NetsApart ==
  \A a \in DOMAIN plan.nets : \A b \in (Segments \cap DOMAIN plan.nets) \ {a} :
    /\ Checked(plan.nets[b].nr) /\ plan.nets[a].nr < plan.nets[b].nr
    /\ a = "lan" => plan.masked
    => ~Overlap(plan.nets[a], plan.nets[b])
PoolFits(net) ==
  net.nr # 0 /\ net.pool # NoPool =>
    \A k \in net.pool[1]..(net.pool[1] + net.pool[2] - 1) :
      LET host == Base(net) + k
      IN In(host, net) /\ host # net.address /\ ~Edge([net EXCEPT !.address = host])
PortsApart ==
  \A a \in DOMAIN plan.bridges : \A b \in (Segments \cap DOMAIN plan.bridges) \ {a} :
    a \in DOMAIN plan.nets /\ b \in DOMAIN plan.nets /\ Checked(plan.nets[b].nr)
    /\ plan.nets[a].nr < plan.nets[b].nr
      => plan.bridges[a] \cap plan.bridges[b] = {}
VlansApart ==
  \A s, r \in DOMAIN plan.vlans :
    LET v == plan.vlans[s]
        w == plan.vlans[r]
    IN v.nr < w.nr /\ Checked(w.nr) => v.bridge # w.bridge \/ v.id # w.id
LeasesInside ==
  \A l \in plan.leases :
    Checked(l.nr) /\ plan.nets["lan"].nr < l.nr => In(l.address, plan.nets["lan"])

\* A command that was checked against what the router had when it came leaves no
\* conflict (config_transactions.py: preflight_errors; CHANGELOG.md:620: the server
\* forbids overlapping subnets, wrong pools, ports and VLANs in use), whatever was
\* set before it.  What network.set_lan does is excepted, which is not compared with
\* the segments, and a LAN whose address carries its mask.
PlanIsSound ==
  /\ NetsApart
  /\ \A a \in Segments \cap DOMAIN plan.nets : PoolFits(plan.nets[a])
  /\ PortsApart /\ VlansApart /\ LeasesInside

-----------------------------------------------------------------------------
(* Why it leaves none: the inductive invariant. *)

Nets == [address : Nat, size : Nat \ {0}, pool : Pools, nr : Nat]
PlanTypeOK ==
  /\ plan = [nets |-> plan.nets, masked |-> plan.masked, bridges |-> plan.bridges,
             vlans |-> plan.vlans, leases |-> plan.leases]
  /\ "lan" \in DOMAIN plan.nets /\ plan.nets \in [DOMAIN plan.nets -> Nets]
  /\ <<"", 0>> \notin DOMAIN plan.vlans
  /\ \A s \in DOMAIN plan.vlans : plan.vlans[s].nr \in Nat
  /\ \A l \in plan.leases : l.nr \in Nat
  /\ queue \in Seq([nr : Nat, command : Commands]) /\ nr \in Nat

\* Commands are executed in the order of their numbers: what the router has is older.
Ordered ==
  /\ \A i \in DOMAIN queue :
       /\ queue[i].nr \in 1..nr
       /\ \A j \in 1..(i - 1) : queue[j].nr < queue[i].nr
       /\ \A n \in DOMAIN plan.nets : plan.nets[n].nr < queue[i].nr
       /\ \A s \in DOMAIN plan.vlans : plan.vlans[s].nr < queue[i].nr
       /\ \A l \in plan.leases : l.nr < queue[i].nr
  /\ \A n \in DOMAIN plan.nets : plan.nets[n].nr <= nr
  /\ \A s \in DOMAIN plan.vlans : plan.vlans[s].nr <= nr
  /\ \A l \in plan.leases : l.nr <= nr

\* Only the next command can have been checked against what the router has, and
\* then it has no errors still.
NextIsChecked ==
  \A i \in DOMAIN queue :
    /\ queue[i].command.type = "segment" => PoolErrors(queue[i].command) = {}
    /\ queue[i].nr \notin blind => i = 1 /\ Errors(queue[i].command, plan) = {}

PlanInv == PlanTypeOK /\ Ordered /\ NextIsChecked /\ PlanIsSound
=============================================================================
