--------------------------- MODULE MCServerProofs ---------------------------
(***************************************************************************)
(* Proofs about the parts of MCServer that show the owner what is and let  *)
(* him change it, for every value of the constants: the presence of a      *)
(* client, the plan of the networks, the forms of the commands and the     *)
(* rates of the chart, each with its inductive invariant.                  *)
(***************************************************************************)
EXTENDS MCServer, ServerProofs, WellFoundedInduction

-----------------------------------------------------------------------------
(* The presence of a client (ClientPresence, as P). *)

LEMMA PresenceConstants ==
  OnlineTtl \in Nat /\ RecentTtl \in Nat /\ Retention \in Nat /\ Retention # 0
BY PageAssumption

LEMMA ClientTypes ==
  /\ \A c \in P!KnownClients :
       /\ c.known /\ c.state \in P!States /\ c.source \in {"none", "stale", "other"}
       /\ {c.observed, c.confirmed, c.until, c.expires} \subseteq Nat \cup {-1}
  /\ ~P!Unknown.known
BY DEF P!KnownClients, P!Times, P!Never, P!Unknown

LEMMA ClientOf ==
  ASSUME NEW state \in P!States, NEW source \in {"none", "stale", "other"},
         NEW observed \in Nat \cup {-1}, NEW confirmed \in Nat \cup {-1},
         NEW ends \in Nat \cup {-1}, NEW expires \in Nat \cup {-1}
  PROVE  /\ P!Client(state, source, observed, confirmed, ends, expires) \in P!KnownClients
         /\ P!Client(state, source, observed, confirmed, ends, expires).observed = observed
         /\ P!Client(state, source, observed, confirmed, ends, expires).confirmed = confirmed
         /\ P!Client(state, source, observed, confirmed, ends, expires).until = ends
         /\ P!Client(state, source, observed, confirmed, ends, expires).expires = expires
BY DEF P!KnownClients, P!Client, P!Times, P!Never

LEMMA KnownOrNot ==
  ASSUME P!PresenceTypeOK
  PROVE  \/ client \in P!KnownClients /\ client.known
         \/ client = P!Unknown /\ ~client.known
BY ClientTypes DEF P!PresenceTypeOK

\* From where the log is kept.
LEMMA KeptFrom ==
  ASSUME NEW n \in Nat, n # 0
  PROVE  LET first == IF n > Retention THEN n - Retention + 1 ELSE 1 IN
         /\ first \in 1..n /\ n - first + 1 <= Retention
BY PresenceConstants

\* The newest entry of the log stays, and not more than are kept.
LEMMA KeptEntries ==
  ASSUME NEW entries \in Seq(P!States), NEW state \in P!States
  PROVE  LET kept2 == P!Kept(Append(entries, state)) IN
         /\ kept2 \in Seq(P!States) /\ kept2 # <<>> /\ P!Last(kept2) = state
         /\ Len(entries) <= Retention => Len(kept2) <= Retention
<1> DEFINE all == Append(entries, state)
           first == IF Len(all) > Retention THEN Len(all) - Retention + 1 ELSE 1
<1>1. all \in Seq(P!States) /\ Len(all) = Len(entries) + 1 /\ all[Len(all)] = state
      /\ Len(entries) \in Nat
  OBVIOUS
<1>2. first \in 1..Len(all) /\ Len(all) - first + 1 <= Retention
  <2>1. Len(all) \in Nat /\ Len(all) # 0
    BY <1>1
  <2> HIDE DEF all
  <2> QED
    BY <2>1, KeptFrom
<1>3. SubSeq(all, first, Len(all)) \in Seq(P!States)
      /\ Len(SubSeq(all, first, Len(all))) = Len(all) - first + 1
      /\ SubSeq(all, first, Len(all))[Len(all) - first + 1] = all[Len(all)]
  BY <1>1, <1>2
<1>4. P!Kept(all) = SubSeq(all, first, Len(all))
  BY DEF P!Kept
<1>5. first \in Nat /\ Len(all) - first + 1 \in Nat \ {0}
      /\ (Len(entries) <= Retention => Len(all) - first + 1 <= Retention)
  BY <1>1, <1>2
<1> DEFINE left == P!Kept(all)
           n == Len(all) - first + 1
<1>6. left \in Seq(P!States) /\ Len(left) = n /\ left[n] = state /\ n \in Nat \ {0}
      /\ (Len(entries) <= Retention => n <= Retention)
  BY <1>1, <1>3, <1>4, <1>5
<1> HIDE DEF left, n
<1>7. left # <<>> /\ P!Last(left) = state /\ (Len(entries) <= Retention => Len(left) <= Retention)
  BY <1>6 DEF P!Last
<1> QED
  BY <1>6, <1>7, Zenon DEF left

\* Evidence that a report brings makes a state that ends with it.
LEMMA ApplyIsEvident ==
  ASSUME NEW c \in P!KnownClients, P!EndsInTime(c), NEW evidence,
         NEW source \in {"stale", "other"}, NEW t \in Nat
  PROVE  /\ P!Apply(c, evidence, source, t) \in P!KnownClients
         /\ P!EndsInTime(P!Apply(c, evidence, source, t))
<1> DEFINE new == P!Apply(c, evidence, source, t)
<1>1. t + OnlineTtl \in Nat /\ t + RecentTtl \in Nat /\ "online" \in P!States
      /\ "recent" \in P!States /\ "offline" \in P!States
      /\ c.observed \in Nat \cup {-1} /\ c.confirmed \in Nat \cup {-1}
      /\ c.until \in Nat \cup {-1} /\ c.expires \in Nat \cup {-1}
      /\ source \in {"none", "stale", "other"} /\ t \in Nat \cup {-1}
  BY PresenceConstants, ClientTypes DEF P!States
<1>2. CASE evidence = "confirmed"
  <2>1. new = P!Client("online", source, t, t, t + OnlineTtl, t + RecentTtl)
    BY <1>2 DEF P!Apply
  <2> HIDE DEF new
  <2>2. new \in P!KnownClients /\ new.observed = t /\ new.confirmed = t
        /\ new.until = t + OnlineTtl /\ new.expires = t + RecentTtl
    BY <1>1, <2>1 DEF P!Client, P!KnownClients, P!Times, P!Never
  <2>3. P!EndsInTime(new)
    BY <2>2, PresenceConstants DEF P!EndsInTime, P!Never
  <2> QED
    BY <2>2, <2>3 DEF new
<1>3. CASE evidence = "recent"
  <2> DEFINE still == c.until # P!Never /\ t <= c.until
             repeated == c.source = "stale"
             state == IF still THEN "online" ELSE "recent"
             observed == IF repeated THEN c.observed ELSE t
             expires == IF repeated THEN c.expires ELSE t + RecentTtl
  <2>1. new = P!Client(state, source, observed, c.confirmed, c.until, expires)
    BY <1>3 DEF P!Apply
  <2>2. /\ state \in P!States /\ {observed, expires} \subseteq Nat \cup {-1}
        /\ (observed = t /\ expires = t + RecentTtl)
           \/ (observed = c.observed /\ expires = c.expires)
    BY <1>1
  <2> HIDE DEF new, state, observed, expires
  <2>3. new \in P!KnownClients /\ new.observed = observed /\ new.confirmed = c.confirmed
        /\ new.until = c.until /\ new.expires = expires
    <3>1. observed \in Nat \cup {-1} /\ expires \in Nat \cup {-1}
      BY <2>2
    <3> QED
      BY <1>1, <2>1, <2>2, <3>1 DEF P!Client, P!KnownClients, P!Times, P!Never
  <2>4. P!EndsInTime(new)
    BY <1>1, <2>2, <2>3 DEF P!EndsInTime, P!Never
  <2> QED
    BY <2>3, <2>4 DEF new
<1>4. CASE evidence = "offline"
  <2>1. new = P!Client("offline", source, t, c.confirmed, -1, t)
    BY <1>4 DEF P!Apply, P!Never
  <2> HIDE DEF new
  <2>2. new \in P!KnownClients /\ new.observed = t /\ new.until = -1 /\ new.expires = t
    BY <1>1, <2>1 DEF P!Client, P!KnownClients, P!Times, P!Never
  <2>3. P!EndsInTime(new)
    BY <2>2, PresenceConstants DEF P!EndsInTime, P!Never
  <2> QED
    BY <2>2, <2>3 DEF new
<1>5. CASE evidence \notin {"confirmed", "recent", "offline"}
  BY <1>5 DEF P!Apply
<1> QED
  BY <1>2, <1>3, <1>4, <1>5

LEMMA PresenceBegins == P!PresenceInit => P!PresenceInv
<1> SUFFICES ASSUME P!PresenceInit PROVE P!PresenceInv
  OBVIOUS
<1>1. client = P!Unknown /\ ~client.known /\ log = <<>> /\ now = 0 /\ sample = 0
  BY ClientTypes DEF P!PresenceInit
<1>2. P!Shown = "none"
  BY <1>1 DEF P!Shown
<1> QED
  BY <1>1, <1>2, PresenceConstants DEF P!PresenceInv, P!PresenceTypeOK, P!LogAgrees

LEMMA ShownTypes ==
  /\ P!States = {"offline", "recent", "online"}
  /\ \A c, t : P!Effective(c, t) \in P!States
BY DEF P!States, P!Effective

\* What is shown follows from what is logged when a state changes.
LEMMA SeenKeeps ==
  ASSUME P!PresenceInv, NEW report \in P!Reports, P!Seen(report)
  PROVE  P!PresenceInv'
<1> DEFINE old == IF client.known THEN client ELSE P!New
           before == IF client.known THEN P!Effective(client, now) ELSE "none"
<1>1. PICK evidence : \E source \in {"stale", "other"} :
        /\ client' = P!Apply(old, evidence, source, now)
        /\ log' = IF P!Effective(client', now) # before
                  THEN P!Kept(Append(log, P!Effective(client', now))) ELSE log
  <2> DEFINE grew == report.bytes > 0 /\ sample > 0 /\ report.bytes > sample
             evidence == IF grew THEN "confirmed" ELSE P!Evidence(report)
             source == IF evidence = "recent" THEN "stale" ELSE "other"
  <2>1. client' = P!Apply(old, evidence, source, now)
    BY DEF P!Seen
  <2>2. log' = IF P!Effective(client', now) # before
               THEN P!Kept(Append(log, P!Effective(client', now))) ELSE log
    BY <2>1 DEF P!Seen
  <2>3. source \in {"stale", "other"}
    OBVIOUS
  <2> HIDE DEF evidence, source
  <2> QED
    BY <2>1, <2>2, <2>3
<1>2. old \in P!KnownClients /\ P!EndsInTime(old) /\ now \in Nat /\ log \in Seq(P!States)
  <2>1. P!PresenceTypeOK /\ (client.known => P!EndsInTime(client))
    BY DEF P!PresenceInv
  <2>2. P!New \in P!KnownClients /\ P!EndsInTime(P!New)
    BY ClientOf DEF P!New, P!EndsInTime, P!States, P!Never
  <2> QED
    BY <2>1, <2>2, KnownOrNot DEF P!PresenceTypeOK
<1>3. client' \in P!KnownClients /\ P!EndsInTime(client')
  BY <1>1, <1>2, ApplyIsEvident
<1>4. client'.known
  BY <1>3 DEF P!KnownClients
<1>5. now' = now /\ sample' \in Nat
  BY DEF P!Seen, P!Reports, P!PresenceInv, P!PresenceTypeOK
<1>6. P!Shown' = P!Effective(client', now)
  BY <1>4, <1>5 DEF P!Shown, P!Effective
<1>7. CASE P!Effective(client', now) # before
  <2>1. log' = P!Kept(Append(log, P!Effective(client', now)))
    BY <1>1, <1>7
  <2>2. /\ log' \in Seq(P!States) /\ log' # <<>> /\ P!Last(log') = P!Effective(client', now)
        /\ Len(log') <= Retention
    BY <1>2, <2>1, ShownTypes, KeptEntries DEF P!PresenceInv, P!LogAgrees
  <2> QED
    BY <1>2, <1>3, <1>4, <1>5, <1>6, <2>2
       DEF P!PresenceInv, P!PresenceTypeOK, P!LogAgrees, P!Last
<1>8. CASE P!Effective(client', now) = before
  <2>1. log' = log /\ P!Shown = before
    BY <1>1, <1>8 DEF P!Shown
  <2>2. P!LogAgrees'
    BY <1>6, <1>8, <2>1 DEF P!PresenceInv, P!LogAgrees, P!Last
  <2> QED
    BY <1>2, <1>3, <1>5, <2>1, <2>2 DEF P!PresenceInv, P!PresenceTypeOK
<1> QED
  BY <1>7, <1>8

LEMMA PresenceGoesOn ==
  ASSUME P!PresenceInv, [P!PresenceNext]_(P!presenceVars)
  PROVE  P!PresenceInv'
<1>1. CASE P!Tick
  <2>1. now' = now + 1 /\ client' = client /\ log' = log /\ sample' = sample
    BY <1>1 DEF P!Tick
  <2>2. \/ client \in P!KnownClients /\ client.known
        \/ client = P!Unknown /\ ~client.known
    BY KnownOrNot DEF P!PresenceInv
  <2>3. /\ P!Shown' = "online" => P!Shown = "online"
        /\ P!Shown' = "recent" => P!Shown \in {"online", "recent"}
    <3>1. CASE client = P!Unknown /\ ~client.known
      BY <2>1, <3>1 DEF P!Shown
    <3>2. CASE client \in P!KnownClients /\ client.known
      <4>1. now \in Nat /\ {client.until, client.expires} \subseteq Int
        BY <3>2, ClientTypes DEF P!PresenceInv, P!PresenceTypeOK
      <4> QED
        BY <2>1, <3>2, <4>1 DEF P!Shown, P!Effective
    <3> QED
      BY <2>2, <3>1, <3>2
  <2> QED
    BY <2>1, <2>3 DEF P!PresenceInv, P!PresenceTypeOK, P!LogAgrees, P!Last
<1>2. ASSUME NEW report \in P!Reports, P!Seen(report) PROVE P!PresenceInv'
  BY <1>2, SeenKeeps
<1>3. CASE P!Missing
  <2>1. client \in P!KnownClients /\ P!EndsInTime(client) /\ now \in Nat /\ log \in Seq(P!States)
    BY <1>3, KnownOrNot DEF P!Missing, P!PresenceInv, P!PresenceTypeOK
  <2>2. client' \in P!KnownClients /\ P!EndsInTime(client') /\ client'.state = "offline"
    <3>1. client' = P!Apply(client, "offline", "other", now)
      BY <1>3 DEF P!Missing
    <3>2. client' = P!Client("offline", "other", now, client.confirmed, -1, now)
      BY <3>1 DEF P!Apply, P!Never
    <3>3. client'.state = "offline"
      BY <3>2 DEF P!Client
    <3> QED
      BY <2>1, <3>1, <3>3, ApplyIsEvident
  <2>3. log' \in Seq(P!States) /\ Len(log') <= Retention
    BY <1>3, <2>1, ShownTypes, KeptEntries DEF P!Missing, P!PresenceInv, P!LogAgrees
  <2>4. P!Shown' \notin {"online", "recent"}
    BY <2>2 DEF P!Shown, P!Effective
  <2> QED
    BY <1>3, <2>1, <2>2, <2>3, <2>4
       DEF P!Missing, P!PresenceInv, P!PresenceTypeOK, P!LogAgrees
<1>4. CASE P!Forget
  <2>1. client' = P!Unknown /\ ~client'.known /\ log' = <<>> /\ now' = now /\ sample' = 0
    BY <1>4, ClientTypes DEF P!Forget
  <2>2. P!Shown' = "none"
    BY <2>1 DEF P!Shown
  <2> QED
    BY <2>1, <2>2, PresenceConstants DEF P!PresenceInv, P!PresenceTypeOK, P!LogAgrees
<1>5. CASE UNCHANGED P!presenceVars
  BY <1>5 DEF P!presenceVars, P!PresenceInv, P!PresenceTypeOK, P!LogAgrees, P!Shown,
     P!Effective, P!Last
<1> QED
  BY <1>1, <1>2, <1>3, <1>4, <1>5 DEF P!PresenceNext

LEMMA PresenceFollows == P!PresenceInv => P!PresenceIsEvident
<1> SUFFICES ASSUME P!PresenceInv PROVE P!PresenceIsEvident
  OBVIOUS
<1>1. CASE client = P!Unknown /\ ~client.known
  <2>1. P!Shown = "none"
    BY <1>1 DEF P!Shown
  <2> QED
    BY <2>1 DEF P!PresenceInv, P!PresenceIsEvident, P!OnlineIsConfirmed, P!PresentIsObserved
<1>2. CASE client \in P!KnownClients /\ client.known
  <2>1. now \in Nat /\ {client.until, client.expires, client.confirmed, client.observed} \subseteq Int
        /\ P!EndsInTime(client)
    BY <1>2, ClientTypes DEF P!PresenceInv, P!PresenceTypeOK
  <2>2. P!OnlineIsConfirmed
    BY <1>2, <2>1, PresenceConstants
       DEF P!OnlineIsConfirmed, P!Shown, P!Effective, P!EndsInTime
  <2>3. P!PresentIsObserved
    BY <1>2, <2>1, PresenceConstants
       DEF P!PresentIsObserved, P!Shown, P!Effective, P!EndsInTime
  <2> QED
    BY <2>2, <2>3 DEF P!PresenceInv, P!PresenceIsEvident
<1> QED
  BY <1>1, <1>2, KnownOrNot DEF P!PresenceInv

-----------------------------------------------------------------------------
(* The plan of the networks (NetworkPlan, as N). *)

LEMMA Quotient ==
  ASSUME NEW x \in Int, NEW s \in Int, s > 0
  PROVE  x % s = x - s * (x \div s) /\ x \div s \in Int
OBVIOUS

LEMMA OffsetOf ==
  ASSUME NEW x \in Int, NEW s \in Int, s > 0, NEW k \in 0..(s - 1)
  PROVE  (s * x + k) % s = k
OBVIOUS

\* An address is as far from the base of its block as it was counted.
LEMMA HostOffset ==
  ASSUME NEW x \in Nat, NEW s \in Nat \ {0}, NEW k \in 0..(s - 1)
  PROVE  (x - (x % s) + k) % s = k
<1> DEFINE q == x \div s
<1>1. x % s \in Int
  OBVIOUS
<1>2. x % s = x - s * q /\ q \in Int
  BY Quotient
<1>3. s * q \in Int
  BY <1>2
<1> HIDE DEF q
<1>4. x - (x % s) + k = s * q + k
  BY <1>1, <1>2, <1>3
<1> QED
  BY <1>2, <1>4, OffsetOf

LEMMA NameTypes ==
  /\ \A name \in Segments : name # "lan" /\ name # ""
  /\ "" \notin N!Names
BY PageAssumption DEF N!Names

LEMMA CommandTypes ==
  ASSUME NEW c \in N!Commands
  PROVE  /\ c.type \in {"segment", "lan", "delete", "vlan", "lease"}
         /\ c.type = "segment" =>
              /\ c.name \in Segments /\ c.address \in Nat /\ c.size \in Nat \ {0}
              /\ c.pool \in N!Pools /\ c.own \in BOOLEAN
         /\ c.type = "lan" => c.address \in Nat /\ c.size \in Nat \ {0}
         /\ c.type = "delete" => c.name \in Segments
         /\ c.type = "vlan" => c.section \in {"", "edited"} /\ c.bridge \in N!Names
<1>1. 4 \in Nat \ {0} /\ N!NoPool \in N!Pools
  BY DEF N!Pools
<1>2. Sizes \subseteq Nat \ {0} /\ Addresses \subseteq Nat /\ Starts \X Counts \subseteq N!Pools
  BY PageAssumption DEF N!Pools
<1> QED
  BY <1>1, <1>2 DEF N!Commands

\* A pool of a command without errors lies inside its block and leaves out the
\* router and the two ends.
LEMMA PoolOfCommand ==
  ASSUME NEW address \in Nat, NEW size \in Nat \ {0}, NEW pool \in N!Pools, NEW n,
         NEW c, c.address = address, c.size = size, c.pool = pool, N!PoolErrors(c) = {}
  PROVE  N!PoolFits(N!Net(address, size, pool, n))
<1> DEFINE net == N!Net(address, size, pool, n)
<1> SUFFICES ASSUME pool # N!NoPool, NEW k \in pool[1]..(pool[1] + pool[2] - 1)
             PROVE  /\ N!In(N!Base(net) + k, net) /\ N!Base(net) + k # net.address
                    /\ ~N!Edge([net EXCEPT !.address = N!Base(net) + k])
  BY DEF N!PoolFits, N!Net
<1>1. pool[1] \in Nat \ {0} /\ pool[2] \in Nat
  BY PageAssumption DEF N!Pools
<1>2. pool[1] + pool[2] - 1 < size - 1
      /\ (address % size) \notin pool[1]..(pool[1] + pool[2] - 1)
  <2>1. ~(pool[1] + pool[2] - 1 >= size - 1)
        /\ ~((address % size) \in pool[1]..(pool[1] + pool[2] - 1))
    BY DEF N!PoolErrors
  <2> QED
    BY <1>1, <2>1
<1>3. k \in 1..(size - 2) /\ k # address % size
  BY <1>1, <1>2
<1>4. N!Base(net) = address - (address % size) /\ net.address = address /\ net.size = size
  BY DEF N!Base, N!Net
<1>5. address % size \in Int
  OBVIOUS
<1> DEFINE origin == N!Base(net)
           host == origin + k
<1>6. origin \in Int /\ host \in Int /\ host % size = k
  <2>1. k \in 0..(size - 1)
    BY <1>3
  <2>2. (address - (address % size) + k) % size = k
    BY <2>1, HostOffset
  <2> QED
    BY <1>3, <1>4, <1>5, <2>2
<1>7. host # address
  BY <1>3, <1>4, <1>5
<1>8. N!In(host, net)
  BY <1>3, <1>4, <1>6 DEF N!In
<1>9. N!Base([net EXCEPT !.address = host]) = host - (host % size)
      /\ [net EXCEPT !.address = host].size = size
      /\ [net EXCEPT !.address = host].address = host
  BY DEF N!Base, N!Net
<1>10. ~N!Edge([net EXCEPT !.address = host])
  <2>1. N!Base([net EXCEPT !.address = host]) = origin
    BY <1>3, <1>6, <1>9
  <2>2. host # origin /\ host # origin + size - 1
    BY <1>3, <1>6
  <2> QED
    BY <1>9, <2>1, <2>2 DEF N!Edge
<1> QED
  BY <1>4, <1>7, <1>8, <1>10

LEMMA PlanBegins == N!PlanInit => N!PlanInv
<1> SUFFICES ASSUME N!PlanInit PROVE N!PlanInv
  OBVIOUS
<1>1. PICK masked \in BOOLEAN : plan = N!Networks(1, masked)
  BY DEF N!PlanInit
<1>2. queue = <<>> /\ accepted = 0 /\ blind = {}
  BY DEF N!PlanInit
<1>3. /\ plan = [nets |-> plan.nets, masked |-> plan.masked, bridges |-> plan.bridges,
                 vlans |-> plan.vlans, leases |-> plan.leases]
      /\ DOMAIN plan.nets = {"lan"} /\ plan.nets["lan"] = N!Net(1, 4, N!NoPool, 0)
      /\ plan.nets = [n \in {"lan"} |-> N!Net(1, 4, N!NoPool, 0)]
      /\ DOMAIN plan.bridges = {"lan"} /\ DOMAIN plan.vlans = {} /\ plan.leases = {}
  BY <1>1 DEF N!Networks
<1>4. N!Net(1, 4, N!NoPool, 0) \in N!Nets /\ N!Net(1, 4, N!NoPool, 0).nr = 0
  BY DEF N!Nets, N!Net, N!Pools
<1>5. N!PlanTypeOK
  BY <1>2, <1>3, <1>4 DEF N!PlanTypeOK
<1>6. N!Ordered /\ N!NextIsChecked
  BY <1>2, <1>3, <1>4 DEF N!Ordered, N!NextIsChecked
<1>7. N!PlanIsSound
  BY <1>3, NameTypes DEF N!PlanIsSound, N!NetsApart, N!PortsApart, N!VlansApart, N!LeasesInside
<1> QED
  BY <1>5, <1>6, <1>7 DEF N!PlanInv

\* A part of the new plan is an old one, or what the command has set.
SetNet(c, a, n, net) ==
  /\ net \in N!Nets /\ net.nr = n
  /\ \/ c.type = "segment" /\ a = c.name /\ net = N!Net(c.address, c.size, c.pool, n)
     \/ c.type = "lan" /\ a = "lan"
NetsFrom(c, n, new) ==
  /\ "lan" \in DOMAIN new.nets
  /\ \A a \in DOMAIN new.nets :
       \/ /\ a \in DOMAIN plan.nets /\ new.nets[a] = plan.nets[a]
          /\ c.type = "segment" => a # c.name
       \/ SetNet(c, a, n, new.nets[a])
  /\ c.type # "lan" => new.nets["lan"] = plan.nets["lan"]
  /\ c.type = "lan" => new.nets["lan"].nr = n
BridgesFrom(c, new) ==
  \A a \in DOMAIN new.bridges :
    \/ /\ a \in DOMAIN plan.bridges /\ new.bridges[a] = plan.bridges[a]
       /\ c.type = "segment" => a # c.name
    \/ c.type = "segment" /\ a = c.name /\ new.bridges[a] = c.ports
VlansFrom(c, n, new) ==
  \A s \in DOMAIN new.vlans :
    \/ s \in DOMAIN plan.vlans /\ new.vlans[s] = plan.vlans[s]
    \/ /\ c.type = "vlan" /\ s = N!Section(c)
       /\ new.vlans[s] = [bridge |-> c.bridge, id |-> c.id, nr |-> n]
LeasesFrom(c, n, new) ==
  \A l \in new.leases :
    \/ l \in plan.leases
    \/ c.type = "lease" /\ l = [address |-> c.address, nr |-> n]
IsPlan(t) ==
  /\ t = [nets |-> t.nets, masked |-> t.masked, bridges |-> t.bridges,
          vlans |-> t.vlans, leases |-> t.leases]
  /\ t.nets = [a \in DOMAIN t.nets |-> t.nets[a]]

LEMMA AppliedFacts ==
  ASSUME N!PlanTypeOK, NEW c \in N!Commands, NEW n \in Nat, NEW new, new = N!Applied(c, n)
  PROVE  /\ IsPlan(new) /\ new.masked = plan.masked
         /\ NetsFrom(c, n, new) /\ BridgesFrom(c, new)
         /\ VlansFrom(c, n, new) /\ LeasesFrom(c, n, new)
<1>1. /\ c.type \in {"segment", "delete"} => c.name # "lan"
      /\ c.type \in {"segment", "lan", "delete", "vlan", "lease"}
  BY CommandTypes, NameTypes
<1>2. /\ plan = [nets |-> plan.nets, masked |-> plan.masked, bridges |-> plan.bridges,
                 vlans |-> plan.vlans, leases |-> plan.leases]
      /\ "lan" \in DOMAIN plan.nets /\ plan.nets \in [DOMAIN plan.nets -> N!Nets]
  BY DEF N!PlanTypeOK
<1>3. CASE c.type = "segment"
  <2> DEFINE net == N!Net(c.address, c.size, c.pool, n)
  <2>1. net \in N!Nets /\ net.nr = n
    BY <1>3, CommandTypes DEF N!Net, N!Nets
  <2>2. /\ IsPlan(new) /\ new.masked = plan.masked
        /\ new.nets = N!With(plan.nets, c.name, net)
        /\ new.bridges \in {N!Without(plan.bridges, c.name),
                              N!With(plan.bridges, c.name, c.ports)}
        /\ new.vlans = plan.vlans /\ new.leases = plan.leases
    <3>1. /\ new = [nets |-> new.nets, masked |-> new.masked, bridges |-> new.bridges,
                    vlans |-> new.vlans, leases |-> new.leases]
          /\ new.masked = plan.masked /\ new.nets = N!With(plan.nets, c.name, net)
          /\ new.bridges \in {N!Without(plan.bridges, c.name),
                              N!With(plan.bridges, c.name, c.ports)}
          /\ new.vlans = plan.vlans /\ new.leases = plan.leases
      BY <1>2, <1>3 DEF N!Applied
    <3>2. N!With(plan.nets, c.name, net) = [a \in DOMAIN N!With(plan.nets, c.name, net) |->
                                            N!With(plan.nets, c.name, net)[a]]
      BY DEF N!With
    <3> HIDE DEF net
    <3> QED
      BY ONLY <3>1, <3>2 DEF IsPlan
  <2> HIDE DEF net
  <2>3. NetsFrom(c, n, new)
    <3>1. \A a \in DOMAIN new.nets :
            \/ a = c.name /\ new.nets[a] = net
            \/ a # c.name /\ a \in DOMAIN plan.nets /\ new.nets[a] = plan.nets[a]
      BY ONLY <2>2 DEF N!With
    <3>2. "lan" \in DOMAIN new.nets /\ new.nets["lan"] = plan.nets["lan"]
      BY ONLY <1>1, <1>2, <1>3, <2>2 DEF N!With
    <3> QED
      BY <1>3, <2>1, <3>1, <3>2 DEF NetsFrom, SetNet, net
  <2>4. BridgesFrom(c, new)
    BY ONLY <1>3, <2>2 DEF BridgesFrom, N!With, N!Without
  <2> QED
    BY <1>3, <2>2, <2>3, <2>4 DEF VlansFrom, LeasesFrom
<1>4. CASE c.type = "lan"
  <2> DEFINE net == N!Net(c.address, c.size, plan.nets["lan"].pool, n)
  <2>1. net \in N!Nets /\ net.nr = n
    <3>1. plan.nets["lan"].pool \in N!Pools
      BY <1>2 DEF N!Nets
    <3> QED
      BY <1>4, <3>1, CommandTypes DEF N!Net, N!Nets
  <2>2. new = [plan EXCEPT !.nets["lan"] = net]
    BY <1>4 DEF N!Applied
  <2> HIDE DEF net
  <2>3. /\ IsPlan(new) /\ new.masked = plan.masked /\ new.nets = [plan.nets EXCEPT !["lan"] = net]
        /\ new.bridges = plan.bridges /\ new.vlans = plan.vlans /\ new.leases = plan.leases
    BY <1>2, <2>2 DEF IsPlan
  <2>4. NetsFrom(c, n, new)
    BY <1>2, <1>4, <2>1, <2>3 DEF NetsFrom, SetNet
  <2> QED
    BY <1>4, <2>3, <2>4 DEF BridgesFrom, VlansFrom, LeasesFrom
<1>5. CASE c.type = "delete"
  <2>1. /\ IsPlan(new) /\ new.masked = plan.masked
        /\ new.nets = N!Without(plan.nets, c.name) /\ new.bridges = N!Without(plan.bridges, c.name)
        /\ new.vlans = plan.vlans /\ new.leases = plan.leases
    <3>1. /\ new = [nets |-> new.nets, masked |-> new.masked, bridges |-> new.bridges,
                    vlans |-> new.vlans, leases |-> new.leases]
          /\ new.masked = plan.masked /\ new.nets = N!Without(plan.nets, c.name)
          /\ new.bridges = N!Without(plan.bridges, c.name)
          /\ new.vlans = plan.vlans /\ new.leases = plan.leases
      BY <1>2, <1>5 DEF N!Applied
    <3>2. N!Without(plan.nets, c.name) = [a \in DOMAIN N!Without(plan.nets, c.name) |->
                                          N!Without(plan.nets, c.name)[a]]
      BY DEF N!Without
    <3> QED
      BY ONLY <3>1, <3>2 DEF IsPlan
  <2>2. NetsFrom(c, n, new) /\ BridgesFrom(c, new)
    BY ONLY <1>1, <1>2, <1>5, <2>1 DEF NetsFrom, BridgesFrom, N!Without
  <2> QED
    BY <1>5, <2>1, <2>2 DEF VlansFrom, LeasesFrom
<1>6. CASE c.type = "vlan"
  <2>1. /\ IsPlan(new) /\ new.masked = plan.masked
        /\ new.nets = plan.nets /\ new.bridges = plan.bridges /\ new.leases = plan.leases
        /\ new.vlans = N!With(plan.vlans, N!Section(c), [bridge |-> c.bridge, id |-> c.id, nr |-> n])
    BY <1>2, <1>6 DEF N!Applied, IsPlan
  <2>2. VlansFrom(c, n, new)
    BY ONLY <1>6, <2>1 DEF VlansFrom, N!With
  <2> QED
    BY <1>2, <1>6, <2>1, <2>2 DEF NetsFrom, BridgesFrom, LeasesFrom
<1>7. CASE c.type = "lease"
  <2>1. /\ IsPlan(new) /\ new.masked = plan.masked
        /\ new.nets = plan.nets /\ new.bridges = plan.bridges /\ new.vlans = plan.vlans
        /\ new.leases = plan.leases \cup {[address |-> c.address, nr |-> n]}
    BY <1>2, <1>7 DEF N!Applied, IsPlan
  <2> QED
    BY <1>2, <1>7, <2>1 DEF NetsFrom, BridgesFrom, VlansFrom, LeasesFrom
<1> QED
  BY <1>1, <1>3, <1>4, <1>5, <1>6, <1>7

\* A command that is executed: younger than all that the router has, and without
\* errors if it is not one that was checked blindly.
Applies(c, n) ==
  /\ c \in N!Commands /\ n \in Nat \ {0}
  /\ \A a \in DOMAIN plan.nets : plan.nets[a].nr < n
  /\ \A s \in DOMAIN plan.vlans : plan.vlans[s].nr < n
  /\ \A l \in plan.leases : l.nr < n
  /\ c.type = "segment" => N!PoolErrors(c) = {}
  /\ n \notin blind => N!Errors(c, plan) = {}
  /\ plan' = N!Applied(c, n) /\ blind' = blind

\* The nets before and after are of one kind, and lie where they lay.
LEMMA AppliedNets ==
  ASSUME N!PlanTypeOK, NEW c, NEW n, Applies(c, n)
  PROVE  /\ plan'.nets \in [DOMAIN plan'.nets -> N!Nets]
         /\ NetsFrom(c, n, plan') /\ plan'.masked = plan.masked
         /\ \A a \in DOMAIN plan'.nets : plan'.nets[a].nr <= n
<1>1. NetsFrom(c, n, plan') /\ plan'.masked = plan.masked /\ IsPlan(plan') /\ n \in Nat
  BY AppliedFacts DEF Applies
<1>2. ASSUME NEW a \in DOMAIN plan'.nets
      PROVE  plan'.nets[a] \in N!Nets /\ plan'.nets[a].nr <= n
  <2>1. CASE a \in DOMAIN plan.nets /\ plan'.nets[a] = plan.nets[a]
    <3>1. plan.nets[a] \in N!Nets /\ plan.nets[a].nr < n
      BY <2>1 DEF N!PlanTypeOK, Applies
    <3>2. plan.nets[a].nr \in Nat
      BY <3>1 DEF N!Nets
    <3> QED
      BY <1>1, <2>1, <3>1, <3>2
  <2>2. CASE plan'.nets[a] \in N!Nets /\ plan'.nets[a].nr = n
    BY <1>1, <2>2
  <2> QED
    BY <1>1, <2>1, <2>2 DEF NetsFrom, SetNet
<1> QED
  BY <1>1, <1>2 DEF IsPlan

LEMMA NetsStayApart ==
  ASSUME N!PlanTypeOK, N!NetsApart, NEW c, NEW n, Applies(c, n)
  PROVE  N!NetsApart'
<1> SUFFICES ASSUME NEW a \in DOMAIN plan'.nets,
                    NEW b \in (Segments \cap DOMAIN plan'.nets) \ {a},
                    N!Checked(plan'.nets[b].nr), plan'.nets[a].nr < plan'.nets[b].nr,
                    a = "lan" => plan.masked
             PROVE  ~N!Overlap(plan'.nets[a], plan'.nets[b])
  <2>1. blind' = blind /\ plan'.masked = plan.masked
    BY AppliedNets DEF Applies
  <2> QED
    BY <2>1 DEF N!NetsApart, N!Checked
<1>1. NetsFrom(c, n, plan') /\ plan'.nets[a] \in N!Nets /\ plan'.nets[b] \in N!Nets
      /\ plan'.nets[b].nr <= n
  BY AppliedNets
<1>2. a \in DOMAIN plan.nets /\ plan'.nets[a] = plan.nets[a] /\ (c.type = "segment" => a # c.name)
  <2>1. plan'.nets[a].nr # n
    BY <1>1 DEF N!Nets, Applies
  <2> QED
    BY <1>1, <2>1 DEF NetsFrom, SetNet
<1>3. CASE b \in DOMAIN plan.nets /\ plan'.nets[b] = plan.nets[b]
  BY <1>2, <1>3 DEF N!NetsApart
<1>4. CASE SetNet(c, b, n, plan'.nets[b])
  <2>1. c.type = "segment" /\ b = c.name /\ plan'.nets[b] = N!Net(c.address, c.size, c.pool, n)
        /\ n \notin blind
    BY <1>4, NameTypes DEF SetNet, N!Checked
  <2>2. N!SegmentErrors(c, plan) = {}
    BY <2>1 DEF Applies, N!Errors
  <2>3. a \in N!Others(c, plan)
    BY <1>2, <2>1 DEF N!Others
  <2>4. ~N!Overlap(c, plan.nets[a])
    BY <2>2, <2>3 DEF N!SegmentErrors
  <2>5. N!Base(c) = N!Base(plan'.nets[b]) /\ c.size = plan'.nets[b].size
    BY <2>1 DEF N!Base, N!Net
  <2> QED
    BY <1>2, <2>4, <2>5 DEF N!Overlap
<1> QED
  BY <1>1, <1>3, <1>4 DEF NetsFrom

LEMMA PoolsStayFit ==
  ASSUME N!PlanTypeOK, NEW c, NEW n, Applies(c, n),
         \A a \in Segments \cap DOMAIN plan.nets : N!PoolFits(plan.nets[a])
  PROVE  (\A a \in Segments \cap DOMAIN plan.nets : N!PoolFits(plan.nets[a]))'
<1> SUFFICES ASSUME NEW a \in Segments \cap DOMAIN plan'.nets
             PROVE  N!PoolFits(plan'.nets[a])
  BY DEF N!PoolFits, N!In, N!Edge, N!Base
<1>1. NetsFrom(c, n, plan')
  BY AppliedNets
<1>2. CASE SetNet(c, a, n, plan'.nets[a])
  <2>1. c.type = "segment" /\ plan'.nets[a] = N!Net(c.address, c.size, c.pool, n)
    BY <1>2, NameTypes DEF SetNet
  <2>2. c.address \in Nat /\ c.size \in Nat \ {0} /\ c.pool \in N!Pools /\ N!PoolErrors(c) = {}
    BY <2>1, CommandTypes DEF Applies
  <2> QED
    BY <2>1, <2>2, PoolOfCommand
<1> QED
  BY <1>1, <1>2 DEF NetsFrom

LEMMA PortsStayApart ==
  ASSUME N!PlanTypeOK, N!PortsApart, NEW c, NEW n, Applies(c, n)
  PROVE  N!PortsApart'
<1> SUFFICES ASSUME NEW a \in DOMAIN plan'.bridges,
                    NEW b \in (Segments \cap DOMAIN plan'.bridges) \ {a},
                    a \in DOMAIN plan'.nets, b \in DOMAIN plan'.nets,
                    N!Checked(plan'.nets[b].nr), plan'.nets[a].nr < plan'.nets[b].nr
             PROVE  plan'.bridges[a] \cap plan'.bridges[b] = {}
  BY DEF N!PortsApart, N!Checked, Applies
<1>1. NetsFrom(c, n, plan') /\ plan'.nets[a] \in N!Nets /\ plan'.nets[b] \in N!Nets
      /\ plan'.nets[b].nr <= n
  BY AppliedNets
<1>2. BridgesFrom(c, plan')
  BY AppliedFacts DEF Applies
<1>3. a \in DOMAIN plan.nets /\ plan'.nets[a] = plan.nets[a] /\ (c.type = "segment" => a # c.name)
  <2>1. plan'.nets[a].nr # n
    BY <1>1 DEF N!Nets, Applies
  <2> QED
    BY <1>1, <2>1 DEF NetsFrom, SetNet
<1>4. a \in DOMAIN plan.bridges /\ plan'.bridges[a] = plan.bridges[a]
  BY <1>2, <1>3 DEF BridgesFrom
<1>5. CASE SetNet(c, b, n, plan'.nets[b])
  <2>1. c.type = "segment" /\ b = c.name /\ n \notin blind
    BY <1>5, NameTypes DEF SetNet, N!Checked
  <2>2. plan'.bridges[b] = c.ports
    BY <1>2, <2>1 DEF BridgesFrom
  <2>3. N!PortErrors(c, plan) = {}
    BY <2>1 DEF Applies, N!Errors, N!SegmentErrors
  <2>4. c.ports \cap plan.bridges[a] = {}
    BY <1>3, <1>4, <2>1, <2>3 DEF N!PortErrors
  <2> QED
    BY <1>4, <2>2, <2>4
<1>6. CASE b \in DOMAIN plan.nets /\ plan'.nets[b] = plan.nets[b] /\ (c.type = "segment" => b # c.name)
  <2>1. b \in DOMAIN plan.bridges /\ plan'.bridges[b] = plan.bridges[b]
    BY <1>2, <1>6 DEF BridgesFrom
  <2> QED
    BY <1>3, <1>4, <1>6, <2>1 DEF N!PortsApart
<1> QED
  BY <1>1, <1>5, <1>6 DEF NetsFrom

LEMMA VlansStayApart ==
  ASSUME N!PlanTypeOK, N!VlansApart, NEW c, NEW n, Applies(c, n)
  PROVE  /\ N!VlansApart' /\ <<"", 0>> \notin DOMAIN plan'.vlans
         /\ \A s \in DOMAIN plan'.vlans : plan'.vlans[s].nr \in Nat /\ plan'.vlans[s].nr <= n
<1>1. VlansFrom(c, n, plan') /\ blind' = blind /\ n \in Nat
  BY AppliedFacts DEF Applies
<1>2. c.type = "vlan" => c.section \in {"", "edited"} /\ c.bridge # ""
  BY CommandTypes, NameTypes DEF Applies
<1>3. <<"", 0>> \notin DOMAIN plan'.vlans
  <2>1. c.type = "vlan" => N!Section(c) # <<"", 0>>
    BY <1>2 DEF N!Section
  <2> QED
    BY <1>1, <2>1 DEF VlansFrom, N!PlanTypeOK
<1>4. ASSUME NEW s \in DOMAIN plan'.vlans
      PROVE  plan'.vlans[s].nr \in Nat /\ plan'.vlans[s].nr <= n
  <2>1. CASE s \in DOMAIN plan.vlans /\ plan'.vlans[s] = plan.vlans[s]
    <3>1. plan.vlans[s].nr \in Nat
      BY <2>1 DEF N!PlanTypeOK
    <3>2. plan.vlans[s].nr < n
      BY <2>1 DEF Applies
    <3> QED
      BY ONLY <1>1, <2>1, <3>1, <3>2
  <2> QED
    BY <1>1, <2>1 DEF VlansFrom
<1>5. ASSUME NEW s \in DOMAIN plan'.vlans, NEW r \in DOMAIN plan'.vlans,
             plan'.vlans[s].nr < plan'.vlans[r].nr, N!Checked(plan'.vlans[r].nr)
      PROVE  plan'.vlans[s].bridge # plan'.vlans[r].bridge \/ plan'.vlans[s].id # plan'.vlans[r].id
  <2>1. plan'.vlans[s].nr # n
    BY <1>1, <1>4, <1>5
  <2>2. s \in DOMAIN plan.vlans /\ plan'.vlans[s] = plan.vlans[s]
    BY <1>1, <2>1 DEF VlansFrom
  <2>3. CASE r \in DOMAIN plan.vlans /\ plan'.vlans[r] = plan.vlans[r]
    BY <1>5, <2>2, <2>3 DEF N!VlansApart
  <2>4. CASE c.type = "vlan" /\ plan'.vlans[r] = [bridge |-> c.bridge, id |-> c.id, nr |-> n]
             /\ r = N!Section(c)
    <3>1. n \notin blind /\ plan'.vlans[r].bridge = c.bridge /\ plan'.vlans[r].id = c.id
      BY <1>5, <2>4 DEF N!Checked
    <3>2. N!VlanErrors(c, plan) = {}
      BY <2>4, <3>1 DEF Applies, N!Errors
    <3>3. \A t \in DOMAIN plan.vlans : t # <<c.section, 0>> => ~N!SameId(c, plan, t)
      BY <3>2 DEF N!VlanErrors
    <3>4. s # r
      BY <1>4, <1>5
    <3>5. s # <<c.section, 0>>
      BY <1>2, <2>2, <2>4, <3>4 DEF N!Section, N!PlanTypeOK
    <3> QED
      BY <2>2, <3>1, <3>3, <3>5 DEF N!SameId
  <2> QED
    BY <1>1, <2>3, <2>4 DEF VlansFrom
<1> QED
  BY <1>1, <1>3, <1>4, <1>5 DEF N!VlansApart, N!Checked

LEMMA LeasesStayInside ==
  ASSUME N!PlanTypeOK, N!LeasesInside, NEW c, NEW n, Applies(c, n)
  PROVE  N!LeasesInside' /\ \A l \in plan'.leases : l.nr \in Nat /\ l.nr <= n
<1>1. /\ LeasesFrom(c, n, plan') /\ NetsFrom(c, n, plan') /\ blind' = blind /\ n \in Nat
      /\ "lan" \in DOMAIN plan.nets
  BY AppliedFacts DEF Applies, N!PlanTypeOK
<1>2. ASSUME NEW l \in plan'.leases PROVE l.nr \in Nat /\ l.nr <= n
  <2>1. CASE l \in plan.leases
    <3>1. l.nr \in Nat
      BY <2>1 DEF N!PlanTypeOK
    <3>2. l.nr < n
      BY <2>1 DEF Applies
    <3> QED
      BY ONLY <1>1, <2>1, <3>1, <3>2
  <2> QED
    BY <1>1, <2>1 DEF LeasesFrom
<1>3. ASSUME NEW l \in plan'.leases, N!Checked(l.nr), plan'.nets["lan"].nr < l.nr
      PROVE  N!In(l.address, plan'.nets["lan"])
  <2>1. plan'.nets["lan"] = plan.nets["lan"]
    BY <1>1, <1>2, <1>3 DEF NetsFrom
  <2>2. CASE l \in plan.leases
    BY <1>3, <2>1, <2>2 DEF N!LeasesInside
  <2>3. CASE c.type = "lease" /\ l = [address |-> c.address, nr |-> n]
    <3>1. N!LeaseErrors(c, plan) = {}
      BY <1>3, <2>3 DEF Applies, N!Errors, N!Checked
    <3> QED
      BY <1>1, <2>1, <2>3, <3>1 DEF N!LeaseErrors
  <2> QED
    BY <1>1, <2>2, <2>3 DEF LeasesFrom
<1> QED
  BY <1>1, <1>2, <1>3 DEF N!LeasesInside, N!Checked, N!In, N!Base

LEMMA HeadAndTail ==
  ASSUME NEW Entry, NEW s \in Seq(Entry), s # <<>>
  PROVE  /\ 1 \in DOMAIN s /\ Head(s) = s[1] /\ s[1] \in Entry /\ Tail(s) \in Seq(Entry)
         /\ \A i \in DOMAIN Tail(s) :
              i \in Nat /\ i # 0 /\ i + 1 \in DOMAIN s /\ Tail(s)[i] = s[i + 1]
<1>1. Len(s) \in Nat /\ Len(s) # 0 /\ DOMAIN s = 1..Len(s)
  OBVIOUS
<1>2. 1 \in DOMAIN s
  BY <1>1
<1> QED
  BY <1>1, <1>2

LEMMA Appended ==
  ASSUME NEW Entry, NEW s \in Seq(Entry), NEW e \in Entry
  PROVE  /\ Append(s, e) \in Seq(Entry) /\ DOMAIN s = 1..Len(s) /\ Len(s) \in Nat
         /\ DOMAIN Append(s, e) = 1..(Len(s) + 1)
         /\ \A i \in DOMAIN Append(s, e) :
              \/ i \in DOMAIN s /\ Append(s, e)[i] = s[i]
              \/ i = Len(s) + 1 /\ Append(s, e)[i] = e
<1>1. /\ Append(s, e) \in Seq(Entry) /\ DOMAIN s = 1..Len(s) /\ Len(s) \in Nat
      /\ DOMAIN Append(s, e) = 1..(Len(s) + 1)
      /\ \A i \in 1..Len(s) : Append(s, e)[i] = s[i]
      /\ Append(s, e)[Len(s) + 1] = e
  OBVIOUS
<1> QED
  BY <1>1

\* The next command, and those behind it.
LEMMA NextInQueue ==
  ASSUME N!PlanInv, queue # <<>>
  PROVE  /\ Head(queue).command \in N!Commands /\ Head(queue).nr \in Nat
         /\ Tail(queue) \in Seq([nr : Nat, command : N!Commands])
         /\ \A i \in DOMAIN Tail(queue) :
              i \in Nat /\ i # 0 /\ i + 1 \in DOMAIN queue /\ Tail(queue)[i] = queue[i + 1]
         /\ Head(queue) = queue[1] /\ 1 \in DOMAIN queue
<1> DEFINE Entry == [nr : Nat, command : N!Commands]
<1>1. queue \in Seq(Entry)
  BY DEF N!PlanInv, N!PlanTypeOK
<1>2. /\ 1 \in DOMAIN queue /\ Head(queue) = queue[1] /\ queue[1] \in Entry /\ Tail(queue) \in Seq(Entry)
      /\ \A i \in DOMAIN Tail(queue) :
           i \in Nat /\ i # 0 /\ i + 1 \in DOMAIN queue /\ Tail(queue)[i] = queue[i + 1]
  <2> HIDE DEF Entry
  <2> QED
    BY <1>1, HeadAndTail
<1> QED
  BY <1>2

\* What is left of the queue was checked blindly, and is younger than what it follows.
LEMMA QueueBehind ==
  ASSUME N!PlanInv, queue # <<>>, queue' = Tail(queue), accepted' = accepted, blind' = blind
  PROVE  /\ N!NextIsChecked'
         /\ \A i \in DOMAIN queue' :
              /\ queue'[i].nr \in 1..accepted /\ Head(queue).nr < queue'[i].nr
              /\ \A j \in 1..(i - 1) : queue'[j].nr < queue'[i].nr
<1>1. \A i \in DOMAIN queue' :
        i \in Nat /\ i # 0 /\ i + 1 \in DOMAIN queue /\ queue'[i] = queue[i + 1]
  BY NextInQueue
<1>2. N!NextIsChecked'
  <2> SUFFICES ASSUME NEW i \in DOMAIN queue'
               PROVE  /\ queue'[i].command.type = "segment" => N!PoolErrors(queue'[i].command) = {}
                      /\ queue'[i].nr \in blind'
    BY DEF N!NextIsChecked, N!PoolErrors, N!NoPool
  <2>1. i + 1 # 1
    BY <1>1
  <2> QED
    BY <1>1, <2>1 DEF N!PlanInv, N!NextIsChecked
<1>3. ASSUME NEW i \in DOMAIN queue'
      PROVE  /\ queue'[i].nr \in 1..accepted /\ Head(queue).nr < queue'[i].nr
             /\ \A j \in 1..(i - 1) : queue'[j].nr < queue'[i].nr
  <2>1. i \in Nat /\ i # 0 /\ i + 1 \in DOMAIN queue /\ queue'[i] = queue[i + 1]
    BY <1>1
  <2>2. queue[i + 1].nr \in 1..accepted /\ \A j \in 1..(i + 1 - 1) : queue[j].nr < queue[i + 1].nr
    BY <2>1 DEF N!PlanInv, N!Ordered
  <2>3. queue[1].nr < queue[i + 1].nr /\ Head(queue) = queue[1]
    BY <2>1, <2>2, NextInQueue
  <2>4. ASSUME NEW j \in 1..(i - 1) PROVE queue'[j].nr < queue'[i].nr
    <3>1. j + 1 \in 1..(i + 1 - 1) /\ j \in DOMAIN queue'
      <4>1. DOMAIN queue' = 1..Len(queue')
        BY NextInQueue
      <4>2. Len(queue') \in Nat
        BY NextInQueue
      <4> QED
        BY <2>1, <4>1, <4>2
    <3> QED
      BY <1>1, <2>1, <2>2, <3>1
  <2> QED
    BY <2>1, <2>2, <2>3, <2>4
<1> QED
  BY <1>2, <1>3

LEMMA ExecuteKeeps ==
  ASSUME N!PlanInv, N!Execute
  PROVE  N!PlanInv'
<1> DEFINE c == Head(queue).command
           n == Head(queue).nr
<1>1. /\ queue # <<>> /\ queue' = Tail(queue) /\ accepted' = accepted /\ blind' = blind
      /\ plan' = N!Applied(c, n) \/ plan' = plan
  BY DEF N!Execute
<1>2. /\ queue' \in Seq([nr : Nat, command : N!Commands]) /\ accepted' \in Nat
      /\ c \in N!Commands /\ n \in Nat \ {0} /\ n <= accepted /\ accepted \in Nat
      /\ 1 \in DOMAIN queue /\ Head(queue) = queue[1]
  <2>1. Head(queue) = queue[1] /\ 1 \in DOMAIN queue /\ accepted \in Nat
    BY <1>1, NextInQueue DEF N!PlanInv, N!PlanTypeOK
  <2>2. queue[1].nr \in 1..accepted
    BY <2>1 DEF N!PlanInv, N!Ordered
  <2> QED
    BY <1>1, <2>1, <2>2, NextInQueue
<1>3. N!NextIsChecked' /\ \A i \in DOMAIN queue' :
        /\ queue'[i].nr \in 1..accepted /\ n < queue'[i].nr
        /\ \A j \in 1..(i - 1) : queue'[j].nr < queue'[i].nr
  BY <1>1, QueueBehind
<1>4. CASE plan' = plan
  <2>1. N!PlanTypeOK'
    BY <1>2, <1>4 DEF N!PlanInv, N!PlanTypeOK
  <2>2. \A i \in DOMAIN queue' : queue'[i] = queue[i + 1] /\ i + 1 \in DOMAIN queue
    BY <1>1, NextInQueue
  <2>3. N!Ordered'
    BY <1>1, <1>3, <1>4, <2>2 DEF N!PlanInv, N!Ordered
  <2>4. N!PlanIsSound'
    BY <1>1, <1>4 DEF N!PlanInv, N!PlanIsSound, N!NetsApart, N!PoolFits, N!PortsApart, N!VlansApart,
                      N!LeasesInside, N!In, N!Edge, N!Base, N!Checked
  <2> QED
    BY <1>3, <2>1, <2>3, <2>4 DEF N!PlanInv
<1>5. CASE plan' = N!Applied(c, n)
  <2> HIDE DEF c, n
  <2>1. N!PlanTypeOK /\ N!NetsApart /\ N!PortsApart /\ N!VlansApart /\ N!LeasesInside
        /\ \A a \in Segments \cap DOMAIN plan.nets : N!PoolFits(plan.nets[a])
    BY DEF N!PlanInv, N!PlanIsSound
  <2>2. Applies(c, n)
    <3>1. /\ c.type = "segment" => N!PoolErrors(c) = {}
          /\ n \notin blind => N!Errors(c, plan) = {}
      BY <1>2 DEF N!PlanInv, N!NextIsChecked, c, n
    <3>2. /\ \A a \in DOMAIN plan.nets : plan.nets[a].nr < n
          /\ \A s \in DOMAIN plan.vlans : plan.vlans[s].nr < n
          /\ \A l \in plan.leases : l.nr < n
      BY <1>2 DEF N!PlanInv, N!Ordered, n
    <3> QED
      BY <1>1, <1>2, <1>5, <3>1, <3>2 DEF Applies
  <2>3. N!PlanIsSound'
    BY <2>1, <2>2, NetsStayApart, PoolsStayFit, PortsStayApart, VlansStayApart,
       LeasesStayInside DEF N!PlanIsSound
  <2>4. /\ IsPlan(plan') /\ NetsFrom(c, n, plan')
    BY <1>2, <1>5, <2>1, AppliedFacts
  <2>5. /\ \A a \in DOMAIN plan'.nets : plan'.nets[a].nr <= n
        /\ \A s \in DOMAIN plan'.vlans : plan'.vlans[s].nr \in Nat /\ plan'.vlans[s].nr <= n
        /\ \A l \in plan'.leases : l.nr \in Nat /\ l.nr <= n
    BY <2>1, <2>2, AppliedNets, VlansStayApart, LeasesStayInside
  <2>6. N!PlanTypeOK' /\ \A a \in DOMAIN plan'.nets : plan'.nets[a].nr \in Nat
    <3>1. <<"", 0>> \notin DOMAIN plan'.vlans /\ plan'.nets \in [DOMAIN plan'.nets -> N!Nets]
      BY <2>1, <2>2, AppliedNets, VlansStayApart
    <3> QED
      BY <1>2, <2>4, <2>5, <3>1 DEF N!PlanTypeOK, IsPlan, NetsFrom, N!Nets
  <2>7. N!Ordered'
    <3>1. n \in Nat /\ accepted \in Nat /\ n <= accepted
      BY <1>2
    <3>2. /\ \A i \in DOMAIN queue' :
               /\ \A a \in DOMAIN plan'.nets : plan'.nets[a].nr < queue'[i].nr
               /\ \A s \in DOMAIN plan'.vlans : plan'.vlans[s].nr < queue'[i].nr
               /\ \A l \in plan'.leases : l.nr < queue'[i].nr
      <4>1. ASSUME NEW i \in DOMAIN queue', NEW m \in Nat, m <= n PROVE m < queue'[i].nr
        BY ONLY <1>3, <3>1, <4>1
      <4> QED
        BY ONLY <2>5, <2>6, <4>1
    <3>3. /\ \A a \in DOMAIN plan'.nets : plan'.nets[a].nr <= accepted
          /\ \A s \in DOMAIN plan'.vlans : plan'.vlans[s].nr <= accepted
          /\ \A l \in plan'.leases : l.nr <= accepted
      <4>1. ASSUME NEW m \in Nat, m <= n PROVE m <= accepted
        BY ONLY <3>1, <4>1
      <4> QED
        BY ONLY <2>5, <2>6, <4>1
    <3> QED
      BY <1>1, <1>3, <3>2, <3>3 DEF N!Ordered
  <2> QED
    BY <1>3, <2>3, <2>6, <2>7 DEF N!PlanInv
<1> QED
  BY <1>1, <1>4, <1>5

LEMMA CreateKeeps ==
  ASSUME N!PlanInv, NEW c \in N!Commands, NEW t, N!Create(c, t)
  PROVE  N!PlanInv'
<1> DEFINE entry == [nr |-> accepted + 1, command |-> c]
<1>1. /\ plan' = plan /\ accepted' = accepted + 1 /\ queue' = Append(queue, entry) /\ N!Errors(c, t) = {}
      /\ blind' = IF t = plan /\ queue = <<>> THEN blind ELSE blind \cup {accepted + 1}
  BY DEF N!Create
<1>2. queue \in Seq([nr : Nat, command : N!Commands]) /\ accepted \in Nat
  BY DEF N!PlanInv, N!PlanTypeOK
<1>3. entry \in [nr : Nat, command : N!Commands] /\ entry.nr = accepted + 1 /\ entry.command = c
  BY <1>2
<1> HIDE DEF entry
<1>4. /\ queue' \in Seq([nr : Nat, command : N!Commands]) /\ Len(queue) \in Nat
      /\ DOMAIN queue' = 1..(Len(queue) + 1) /\ DOMAIN queue = 1..Len(queue)
      /\ \A i \in DOMAIN queue' :
           \/ i \in DOMAIN queue /\ queue'[i] = queue[i]
           \/ i = Len(queue) + 1 /\ queue'[i] = entry
  <2> DEFINE Entry == [nr : Nat, command : N!Commands]
  <2> HIDE DEF Entry
  <2>1. queue \in Seq(Entry) /\ entry \in Entry
    BY <1>2, <1>3 DEF Entry
  <2> QED
    BY <1>1, <2>1, Appended DEF Entry
<1>5. \A m \in Nat : m <= accepted => (m \in blind' <=> m \in blind)
  BY <1>1, <1>2
<1>6. N!PlanTypeOK'
  <2>1. accepted' \in Nat
    BY <1>1, <1>2
  <2> QED
    BY <1>1, <1>4, <2>1 DEF N!PlanInv, N!PlanTypeOK
<1>7. N!Ordered'
  <2>1. ASSUME NEW i \in DOMAIN queue, queue'[i] = queue[i]
        PROVE  /\ queue'[i].nr \in 1..(accepted + 1)
               /\ \A j \in 1..(i - 1) : queue'[j].nr < queue'[i].nr
               /\ \A a \in DOMAIN plan.nets : plan.nets[a].nr < queue'[i].nr
               /\ \A s \in DOMAIN plan.vlans : plan.vlans[s].nr < queue'[i].nr
               /\ \A l \in plan.leases : l.nr < queue'[i].nr
    <3>1. /\ queue[i].nr \in 1..accepted
          /\ \A j \in 1..(i - 1) : queue[j].nr < queue[i].nr
          /\ \A a \in DOMAIN plan.nets : plan.nets[a].nr < queue[i].nr
          /\ \A s \in DOMAIN plan.vlans : plan.vlans[s].nr < queue[i].nr
          /\ \A l \in plan.leases : l.nr < queue[i].nr
      BY DEF N!PlanInv, N!Ordered
    <3>2. \A j \in 1..(i - 1) : j \in DOMAIN queue' /\ j # Len(queue) + 1
      BY <1>4
    <3> QED
      <4>1. queue[i].nr \in 1..(accepted + 1)
        BY <1>2, <3>1
      <4>2. ASSUME NEW j \in 1..(i - 1) PROVE queue'[j].nr < queue'[i].nr
        <5>1. queue'[j] = queue[j]
          BY <1>4, <3>2
        <5> QED
          BY <2>1, <3>1, <5>1
      <4> QED
        BY ONLY <2>1, <3>1, <4>1, <4>2
  <2>2. /\ \A a \in DOMAIN plan.nets : plan.nets[a].nr < accepted + 1
        /\ \A s \in DOMAIN plan.vlans : plan.vlans[s].nr < accepted + 1
        /\ \A l \in plan.leases : l.nr < accepted + 1
    <3>1. /\ \A a \in DOMAIN plan.nets : plan.nets[a].nr \in Nat /\ plan.nets[a].nr <= accepted
          /\ \A s \in DOMAIN plan.vlans : plan.vlans[s].nr \in Nat /\ plan.vlans[s].nr <= accepted
          /\ \A l \in plan.leases : l.nr \in Nat /\ l.nr <= accepted
      BY DEF N!PlanInv, N!PlanTypeOK, N!Ordered, N!Nets
    <3> QED
      BY <1>2, <3>1
  <2>3. ASSUME NEW i, i = Len(queue) + 1, queue'[i] = entry
        PROVE  \A j \in 1..(i - 1) : queue'[j].nr < queue'[i].nr
    <3>1. ASSUME NEW j \in 1..(i - 1) PROVE queue'[j].nr < queue'[i].nr
      <4>1. j \in DOMAIN queue /\ queue'[j] = queue[j]
        BY <1>4, <2>3
      <4>2. queue[j].nr \in 1..accepted
        BY <4>1 DEF N!PlanInv, N!Ordered
      <4> QED
        BY <1>2, <1>3, <2>3, <4>1, <4>2
    <3> QED
      BY <3>1
  <2>4. ASSUME NEW i \in DOMAIN queue'
        PROVE  /\ queue'[i].nr \in 1..(accepted + 1)
               /\ \A j \in 1..(i - 1) : queue'[j].nr < queue'[i].nr
               /\ \A a \in DOMAIN plan.nets : plan.nets[a].nr < queue'[i].nr
               /\ \A s \in DOMAIN plan.vlans : plan.vlans[s].nr < queue'[i].nr
               /\ \A l \in plan.leases : l.nr < queue'[i].nr
    <3>1. CASE i \in DOMAIN queue /\ queue'[i] = queue[i]
      BY <3>1, <2>1
    <3>2. CASE i = Len(queue) + 1 /\ queue'[i] = entry
      <4>1. accepted + 1 \in 1..(accepted + 1)
        BY <1>2
      <4> QED
        BY ONLY <1>3, <2>2, <2>3, <3>2, <4>1
    <3> QED
      BY <1>4, <3>1, <3>2
  <2>5. /\ \A a \in DOMAIN plan.nets : plan.nets[a].nr <= accepted + 1
        /\ \A s \in DOMAIN plan.vlans : plan.vlans[s].nr <= accepted + 1
        /\ \A l \in plan.leases : l.nr <= accepted + 1
    <3>1. /\ \A a \in DOMAIN plan.nets : plan.nets[a].nr \in Nat
          /\ \A s \in DOMAIN plan.vlans : plan.vlans[s].nr \in Nat
          /\ \A l \in plan.leases : l.nr \in Nat
      BY DEF N!PlanInv, N!PlanTypeOK, N!Nets
    <3>2. \A m \in Nat : m < accepted + 1 => m <= accepted + 1
      BY <1>2
    <3> QED
      BY ONLY <2>2, <3>1, <3>2
  <2> QED
    BY <1>1, <2>4, <2>5 DEF N!Ordered
<1>8. N!NextIsChecked'
  <2> SUFFICES ASSUME NEW i \in DOMAIN queue'
               PROVE  /\ queue'[i].command.type = "segment" => N!PoolErrors(queue'[i].command) = {}
                      /\ queue'[i].nr \notin blind' =>
                           i = 1 /\ N!Errors(queue'[i].command, plan) = {}
    BY <1>1 DEF N!NextIsChecked
  <2>1. CASE i \in DOMAIN queue /\ queue'[i] = queue[i]
    <3>1. queue[i].nr \in 1..accepted
      BY <2>1 DEF N!PlanInv, N!Ordered
    <3>2. queue[i].nr \notin blind' => queue[i].nr \notin blind
      BY <1>2, <1>5, <3>1
    <3> QED
      BY <2>1, <3>2 DEF N!PlanInv, N!NextIsChecked
  <2>2. CASE i = Len(queue) + 1 /\ queue'[i] = entry
    <3>1. c.type = "segment" => N!PoolErrors(c) = {}
      BY <1>1 DEF N!Errors, N!SegmentErrors
    <3>2. accepted + 1 \notin blind' => t = plan /\ queue = <<>>
      BY <1>1
    <3>3. queue = <<>> => i = 1
      BY <2>2
    <3> QED
      BY <1>1, <1>3, <2>2, <3>1, <3>2, <3>3
  <2> QED
    BY <1>4, <2>1, <2>2
<1>9. N!PlanIsSound'
  <2>1. \A m : N!Checked(m)' => N!Checked(m)
    BY <1>1 DEF N!Checked
  <2> QED
    BY <1>1, <2>1 DEF N!PlanInv, N!PlanIsSound, N!NetsApart, N!PoolFits, N!PortsApart, N!VlansApart,
                      N!LeasesInside, N!In, N!Edge, N!Base
<1> QED
  BY <1>6, <1>7, <1>8, <1>9 DEF N!PlanInv

LEMMA PlanGoesOn ==
  ASSUME N!PlanInv, [N!PlanNext]_(N!planVars)
  PROVE  N!PlanInv'
<1>1. ASSUME NEW c \in N!Commands, NEW t, N!Create(c, t) PROVE N!PlanInv'
  BY <1>1, CreateKeeps
<1>2. CASE UNCHANGED <<plan, queue, accepted, blind>>
  <2>1. N!PlanTypeOK'
    BY <1>2 DEF N!PlanInv, N!PlanTypeOK
  <2>2. N!Ordered'
    BY <1>2 DEF N!PlanInv, N!Ordered
  <2>3. N!NextIsChecked'
    BY <1>2 DEF N!PlanInv, N!NextIsChecked
  <2>4. N!PlanIsSound'
    BY <1>2 DEF N!PlanInv, N!PlanIsSound, N!NetsApart, N!PoolFits, N!PortsApart, N!VlansApart,
                N!LeasesInside, N!In, N!Edge, N!Base, N!Checked
  <2> QED
    BY <2>1, <2>2, <2>3, <2>4 DEF N!PlanInv
<1> QED
  BY <1>1, <1>2, ExecuteKeeps DEF N!PlanNext, N!Report, N!planVars

-----------------------------------------------------------------------------
(* The forms of the commands (CommandForms, as F). *)

LEMMA FormConstants == Written!FormCommands \subseteq F!FormCommands /\ MaxEdits \in Nat
<1>1. Written!WifiCommands = F!WifiCommands
  BY Zenon DEF Written!WifiCommands, F!WifiCommands
<1>2. Written!NetworkCommands = F!NetworkCommands
  BY Zenon DEF Written!NetworkCommands, F!NetworkCommands
<1>3. Written!VpnCommands = F!VpnCommands
  BY Zenon DEF Written!VpnCommands, F!VpnCommands
<1>4. Written!SystemCommands = F!SystemCommands
  BY Zenon DEF Written!SystemCommands, F!SystemCommands
<1>5. Written!FirewallCommands = F!FirewallCommands
  BY Zenon DEF Written!FirewallCommands, F!FirewallCommands
<1> QED
  <2>1. Written!FormCommands = F!FormCommands
    BY <1>1, <1>2, <1>3, <1>4, <1>5, Zenon DEF Written!FormCommands, F!FormCommands
  <2>2. MaxEdits \in Nat
    BY PageAssumption, Zenon
  <2> QED
    BY <2>1, <2>2

\* A check that did not refuse a value leaves the value it made of it.
LEMMA ChecksSettle ==
  \A v :
    /\ F!Needed(v) # "refused" => F!Needed(F!Needed(v)) = F!Needed(v)
                                  /\ F!Needed(v) \notin F!Missing
    /\ F!Exact(v) # "refused" => F!Exact(F!Exact(v)) = F!Exact(v)
                                 /\ F!Exact(v) \notin F!Missing /\ F!Exact(v) # "same"
    /\ F!Optional(v) # "refused" => F!Optional(F!Optional(v)) = F!Optional(v)
    /\ F!Kept(v) # "refused" => F!Kept(F!Kept(v)) = F!Kept(v)
    /\ F!Default(v) # "refused" => F!Default(F!Default(v)) = F!Default(v)
    /\ F!OrDefault(v) # "refused" => F!OrDefault(F!OrDefault(v)) = F!OrDefault(v)
    /\ F!Flag(v) # "refused" => F!Flag(v) = v
    /\ F!Encryption(v) # "refused" => F!Encryption(F!Encryption(v)) = F!Encryption(v)
                                    /\ F!Encryption(v) \notin F!Missing
    /\ v \notin F!Missing => F!Optional(v) = F!Needed(v)
BY
   DEF F!Needed, F!Exact, F!Optional, F!Kept, F!Default, F!OrDefault, F!Flag, F!Encryption,
       F!Missing, F!Plain

LEMMA PairsSettle ==
  \A v, e :
    /\ F!Key(v, e) # "refused" => F!Key(F!Key(v, e), e) = F!Key(v, e)
    /\ F!Key(v, e) # "refused" => (e = "none" <=> F!Key(v, e) \in F!Missing)
    /\ F!KeyKept(v, e) # "refused" => F!KeyKept(F!KeyKept(v, e), e) = F!KeyKept(v, e)
    /\ F!Time(e, v) # "refused" => F!Time(e, F!Time(e, v)) = F!Time(e, v)
    /\ e = "true" /\ F!Time(e, v) # "refused" =>
         F!Time(e, v) \notin F!Missing /\ F!Time(e, v) # "same"
    /\ F!Weekdays(e, v) # "refused" => F!Weekdays(e, F!Weekdays(e, v)) = F!Weekdays(e, v)
    /\ e = "true" /\ F!Weekdays(e, v) # "refused" => F!Weekdays(e, v) \notin F!Missing
    /\ F!ExactDays(e, v) # "refused" => F!ExactDays(e, F!ExactDays(e, v)) = F!ExactDays(e, v)
BY
   DEF F!Key, F!KeyKept, F!Time, F!Weekdays, F!ExactDays, F!Needed, F!Exact, F!Optional,
       F!Kept, F!Missing, F!Plain

LEMMA WifiSettles ==
  ASSUME NEW c \in F!WifiCommands, NEW p, NEW r,
         r = F!WifiChecked(c, p), ~F!Refuses(r)
  PROVE  F!WifiChecked(c, r) = r /\ "nothing" \notin DOMAIN r
<1>1. CASE c = "wifi.set_enabled"
  BY <1>1, ChecksSettle DEF F!WifiChecked, F!WifiEnabled, F!Refuses
<1>2. CASE c \in {"wifi.get_qr", "wifi.delete_ssid"}
  BY <1>2, ChecksSettle DEF F!WifiChecked, F!Refuses
<1>3. CASE c = "wifi.set_ssid"
  BY <1>3, ChecksSettle DEF F!WifiChecked, F!WifiSsid, F!Refuses
<1>4. CASE c = "wifi.set_password"
  BY <1>4, ChecksSettle DEF F!WifiChecked, F!WifiPassword, F!Refuses, F!Get
<1>5. CASE c = "wifi.set_channel"
  BY <1>5, ChecksSettle DEF F!WifiChecked, F!WifiChannel, F!Refuses
<1>6. CASE c = "wifi.set_country"
  BY <1>6, ChecksSettle DEF F!WifiChecked, F!WifiCountry, F!Refuses
<1>7. CASE c = "wifi.set_radio"
  BY <1>7, ChecksSettle DEF F!WifiChecked, F!WifiRadio, F!Refuses
<1>8. CASE c = "wifi.add_ssid"
  BY <1>8, ChecksSettle, PairsSettle DEF F!WifiChecked, F!WifiAddSsid, F!Refuses
<1>9. CASE c = "wifi.update_ssid"
  BY <1>9, ChecksSettle, PairsSettle
     DEF F!WifiChecked, F!WifiUpdateSsid, F!Refuses, F!When, F!Missing
<1>10. CASE c = "wifi.set_schedule"
  BY <1>10, ChecksSettle, PairsSettle DEF F!WifiChecked, F!WifiSchedule, F!Refuses
<1>11. CASE c = "wifi.set_mesh"
  BY <1>11, ChecksSettle DEF F!WifiChecked, F!WifiMesh, F!Refuses, F!When, F!Choice, F!Missing
<1>12. CASE c = "wifi.set_guest"
  BY <1>12, ChecksSettle, PairsSettle DEF F!WifiChecked, F!WifiGuest, F!Refuses, F!When, F!Missing
<1> QED
  BY <1>1, <1>2, <1>3, <1>4, <1>5, <1>6, <1>7, <1>8, <1>9, <1>10, <1>11, <1>12
     DEF F!WifiCommands

LEMMA NetworkSettles ==
  ASSUME NEW c \in F!NetworkCommands, NEW p, NEW r,
         r = F!NetworkChecked(c, p), ~F!Refuses(r)
  PROVE  F!NetworkChecked(c, r) = r /\ "nothing" \notin DOMAIN r
<1>1. CASE c = "network.interface_restart"
  BY <1>1, ChecksSettle DEF F!NetworkChecked, F!Refuses
<1>2. CASE c = "network.set_wan"
  BY <1>2, ChecksSettle DEF F!NetworkChecked, F!Wan, F!Refuses, F!When, F!Choice, F!Missing
<1>3. CASE c = "network.set_lan"
  BY <1>3, ChecksSettle DEF F!NetworkChecked, F!Lan, F!Refuses
<1>4. CASE c = "network.set_ipv6"
  BY <1>4, ChecksSettle DEF F!NetworkChecked, F!Ipv6, F!Refuses, F!When, F!Missing
<1>5. CASE c = "network.delete_segment"
  BY <1>5, ChecksSettle DEF F!NetworkChecked, F!Refuses
<1>6. CASE c = "network.delete_vlan"
  BY <1>6, ChecksSettle DEF F!NetworkChecked, F!Refuses
<1>7. CASE c = "network.set_route"
  BY <1>7, ChecksSettle DEF F!NetworkChecked, F!Route, F!Refuses
<1>8. CASE c = "network.delete_route"
  BY <1>8, ChecksSettle DEF F!NetworkChecked, F!Named, F!Refuses
<1>9. CASE c = "network.set_ddns"
  BY <1>9, ChecksSettle DEF F!NetworkChecked, F!Ddns, F!Refuses
<1>10. CASE c = "network.set_upnp"
  BY <1>10, ChecksSettle DEF F!NetworkChecked, F!Upnp, F!Refuses
<1>11. CASE c = "network.set_segment"
  <2>1. r = F!Segment(p) /\ F!NetworkChecked(c, r) = F!Segment(r)
    BY <1>11 DEF F!NetworkChecked
  <2> DEFINE Protocol(q) == F!Choice(q.protocol, {"static", "dhcp", "none"}, "static")
             Device(q) == IF q.device \notin F!Missing THEN F!Needed(q.device)
                          ELSE IF q.bridge = "true" THEN "default" ELSE "empty"
             Row(q) ==
               [name |-> F!Needed(q.name), protocol |-> Protocol(q), device |-> Device(q),
                bridge_section |-> F!Optional(q.bridge_section), ports |-> F!Optional(q.ports),
                enabled |-> F!Flag(q.enabled), bridge |-> F!Flag(q.bridge), stp |-> F!Flag(q.stp),
                igmp_snooping |-> F!Flag(q.igmp_snooping), policy |-> F!Default(q.policy),
                ip_address |-> F!When(Protocol(q) = "static", F!Needed(q.ip_address)),
                netmask |-> F!When(Protocol(q) = "static", F!Needed(q.netmask)),
                dhcp_enabled |-> F!Flag(q.dhcp_enabled),
                dhcp_start |-> F!When(q.dhcp_enabled = "true", F!Needed(q.dhcp_start)),
                dhcp_limit |-> F!When(q.dhcp_enabled = "true", F!Needed(q.dhcp_limit)),
                dhcp_leasetime |-> F!When(q.dhcp_enabled = "true", F!Needed(q.dhcp_leasetime))]
             Whole(q) == q.dhcp_enabled = "true" => Protocol(q) = "static"
  <2>2. \A q : F!Segment(q) = IF Whole(q) THEN Row(q) ELSE F!Refused
    BY DEF F!Segment, F!Demand
  <2>3. Whole(p) /\ r = Row(p)
    BY <2>1, <2>2 DEF F!Refuses, F!Refused
  <2>4. Protocol(p) # "refused" /\ Protocol(r) = Protocol(p)
    <3>1. r.protocol = Protocol(p) /\ r.protocol # "refused"
      BY <2>3 DEF F!Refuses
    <3> QED
      BY <3>1 DEF F!Choice, F!Missing
  <2>5. r.dhcp_enabled = p.dhcp_enabled /\ r.bridge = p.bridge
    BY <2>3, ChecksSettle DEF F!Refuses
  <2>6. Device(r) = Device(p)
    <3>1. r.device = Device(p) /\ r.device # "refused"
      BY <2>3 DEF F!Refuses
    <3> QED
      BY <2>5, <3>1 DEF F!Needed, F!Plain, F!Missing
  <2>7. /\ F!Needed(r.name) = F!Needed(p.name) /\ F!Default(r.policy) = F!Default(p.policy)
        /\ F!Optional(r.bridge_section) = F!Optional(p.bridge_section)
        /\ F!Optional(r.ports) = F!Optional(p.ports)
    <3>1. /\ r.name = F!Needed(p.name) /\ r.policy = F!Default(p.policy)
          /\ r.bridge_section = F!Optional(p.bridge_section) /\ r.ports = F!Optional(p.ports)
          /\ "refused" \notin {r.name, r.policy, r.bridge_section, r.ports}
      BY <2>3 DEF F!Refuses
    <3> QED
      BY <3>1, ChecksSettle
  <2>8. /\ F!Flag(r.enabled) = F!Flag(p.enabled) /\ F!Flag(r.stp) = F!Flag(p.stp)
        /\ F!Flag(r.igmp_snooping) = F!Flag(p.igmp_snooping)
    <3>1. /\ r.enabled = F!Flag(p.enabled) /\ r.stp = F!Flag(p.stp)
          /\ r.igmp_snooping = F!Flag(p.igmp_snooping)
          /\ "refused" \notin {r.enabled, r.stp, r.igmp_snooping}
      BY <2>3 DEF F!Refuses
    <3> QED
      BY <3>1, ChecksSettle
  <2>9. /\ F!When(Protocol(p) = "static", F!Needed(r.ip_address)) =
             F!When(Protocol(p) = "static", F!Needed(p.ip_address))
        /\ F!When(Protocol(p) = "static", F!Needed(r.netmask)) =
             F!When(Protocol(p) = "static", F!Needed(p.netmask))
    <3>1. /\ r.ip_address = F!When(Protocol(p) = "static", F!Needed(p.ip_address))
          /\ r.netmask = F!When(Protocol(p) = "static", F!Needed(p.netmask))
          /\ "refused" \notin {r.ip_address, r.netmask}
      BY <2>3 DEF F!Refuses
    <3> QED
      BY <3>1, ChecksSettle DEF F!When
  <2>10. /\ F!When(p.dhcp_enabled = "true", F!Needed(r.dhcp_start)) =
              F!When(p.dhcp_enabled = "true", F!Needed(p.dhcp_start))
         /\ F!When(p.dhcp_enabled = "true", F!Needed(r.dhcp_limit)) =
              F!When(p.dhcp_enabled = "true", F!Needed(p.dhcp_limit))
         /\ F!When(p.dhcp_enabled = "true", F!Needed(r.dhcp_leasetime)) =
              F!When(p.dhcp_enabled = "true", F!Needed(p.dhcp_leasetime))
    <3>1. /\ r.dhcp_start = F!When(p.dhcp_enabled = "true", F!Needed(p.dhcp_start))
          /\ r.dhcp_limit = F!When(p.dhcp_enabled = "true", F!Needed(p.dhcp_limit))
          /\ r.dhcp_leasetime = F!When(p.dhcp_enabled = "true", F!Needed(p.dhcp_leasetime))
          /\ "refused" \notin {r.dhcp_start, r.dhcp_limit, r.dhcp_leasetime}
      BY <2>3 DEF F!Refuses
    <3> QED
      BY <3>1, ChecksSettle DEF F!When
  <2> HIDE DEF Protocol, Device
  <2>11. Row(r) = Row(p)
    BY <2>4, <2>5, <2>6, <2>7, <2>8, <2>9, <2>10
  <2> QED
    BY <2>1, <2>2, <2>3, <2>4, <2>5, <2>11
<1>12. CASE c = "network.set_vlan"
  BY <1>12, ChecksSettle DEF F!NetworkChecked, F!Vlan, F!Refuses
<1>13. CASE c = "network.set_multiwan"
  BY <1>13, ChecksSettle DEF F!NetworkChecked, F!MultiWan, F!Refuses
<1> QED
  BY <1>1, <1>2, <1>3, <1>4, <1>5, <1>6, <1>7, <1>8, <1>9, <1>10, <1>11, <1>12, <1>13
     DEF F!NetworkCommands

LEMMA VpnSettles ==
  ASSUME NEW c \in F!VpnCommands, NEW p, NEW r,
         r = F!VpnChecked(c, p), ~F!Refuses(r)
  PROVE  F!VpnChecked(c, r) = r /\ "nothing" \notin DOMAIN r
<1>1. CASE c = "vpn.wireguard.set_interface"
  BY <1>1, ChecksSettle DEF F!VpnChecked, F!WgInterface, F!Refuses
<1>2. CASE c = "vpn.wireguard.set_peer"
  BY <1>2, ChecksSettle DEF F!VpnChecked, F!WgPeer, F!Refuses
<1>3. CASE c \in {"vpn.wireguard.delete_peer", "vpn.wireguard.export_peer"}
  BY <1>3, ChecksSettle DEF F!VpnChecked, F!Refuses
<1>4. CASE c = "vpn.openvpn.set_client"
  BY <1>4, ChecksSettle DEF F!VpnChecked, F!OpenVpn, F!Refuses
<1>5. CASE c \in {"vpn.wireguard.delete_interface",
               "vpn.openvpn.delete_client",
               "vpn.openvpn.export_client"}
  BY <1>5, ChecksSettle DEF F!VpnChecked, F!Refuses
<1>6. CASE c = "vpn.openvpn.set_enabled"
  BY <1>6, ChecksSettle DEF F!VpnChecked, F!Refuses
<1>7. CASE c = "vpn.policy.set"
  BY <1>7, ChecksSettle DEF F!VpnChecked, F!VpnPolicy, F!Refuses, F!Demand, F!Refused
<1>8. CASE c = "vpn.policy.delete"
  BY <1>8, ChecksSettle DEF F!VpnChecked, F!Named, F!Refuses
<1> QED
  BY <1>1, <1>2, <1>3, <1>4, <1>5, <1>6, <1>7, <1>8 DEF F!VpnCommands

LEMMA SystemSettles ==
  ASSUME NEW c \in F!SystemCommands, NEW p, NEW r,
         r = F!SystemChecked(c, p), ~F!Refuses(r)
  PROVE  F!SystemChecked(c, r) = r /\ "nothing" \notin DOMAIN r
<1>1. CASE c \in {"maintenance.package.install",
               "maintenance.package.upgrade",
               "maintenance.package.remove"}
  BY <1>1, ChecksSettle DEF F!SystemChecked, F!Package, F!Refuses
<1>2. CASE c = "maintenance.module.configure"
  <2>1. r = F!Module(p) /\ F!SystemChecked(c, r) = F!Module(r)
    BY <1>2 DEF F!SystemChecked
  <2>2. r = [module |-> F!Needed(p.module), action |-> F!Needed(p.action)]
    BY <2>1 DEF F!Module, F!Demand, F!Refuses, F!Refused
  <2>3. ~(r.module = "storage" /\ r.action = "enable")
    <3>1. ~(p.module = "storage" /\ p.action = "enable")
      BY <2>1 DEF F!Module, F!Demand, F!Refuses, F!Refused
    <3> QED
      BY <2>2, <3>1 DEF F!Needed
  <2>4. F!Needed(r.module) = r.module /\ F!Needed(r.action) = r.action
    BY <2>2, ChecksSettle DEF F!Refuses
  <2> QED
    BY <2>1, <2>2, <2>3, <2>4 DEF F!Module, F!Demand
<1>3. CASE c = "maintenance.backup.restore"
  BY <1>3, ChecksSettle DEF F!SystemChecked, F!BackupRestore, F!Refuses
<1>4. CASE c = "maintenance.sysupgrade.check"
  BY <1>4, ChecksSettle DEF F!SystemChecked, F!Sysupgrade, F!Refuses
<1>5. CASE c = "maintenance.sysupgrade.apply"
  BY <1>5, ChecksSettle DEF F!SystemChecked, F!SysupgradeApply, F!Refuses
<1>6. CASE c = "maintenance.logs.read"
  BY <1>6, ChecksSettle DEF F!SystemChecked, F!Logs, F!Refuses
<1>7. CASE c = "maintenance.process.signal"
  BY <1>7, ChecksSettle DEF F!SystemChecked, F!ProcessSignal, F!Refuses
<1>8. CASE c = "maintenance.cron.set"
  BY <1>8, ChecksSettle DEF F!SystemChecked, F!Cron, F!Refuses
<1>9. CASE c = "maintenance.service.set"
  BY <1>9, ChecksSettle DEF F!SystemChecked, F!ServiceSet, F!Refuses
<1>10. CASE c = "system.set_hostname"
  BY <1>10, ChecksSettle DEF F!SystemChecked, F!Hostname, F!Refuses
<1>11. CASE c = "system.restart_service"
  BY <1>11, ChecksSettle DEF F!SystemChecked, F!Service, F!Refuses
<1>12. CASE c = "system.set_timezone"
  BY <1>12, ChecksSettle DEF F!SystemChecked, F!Timezone, F!Refuses
<1>13. CASE c = "system.set_ntp"
  BY <1>13, ChecksSettle DEF F!SystemChecked, F!Ntp, F!Refuses
<1>14. CASE c = "diagnostics.run"
  BY <1>14, ChecksSettle DEF F!SystemChecked, F!Diagnostics, F!Refuses
<1>15. CASE c = "agent.set_auto_update"
  BY <1>15, ChecksSettle DEF F!SystemChecked, F!AutoUpdate, F!Refuses
<1>16. CASE c = "agent.set_interval"
  BY <1>16, ChecksSettle DEF F!SystemChecked, F!Interval, F!Refuses
<1> QED
  BY <1>1, <1>2, <1>3, <1>4, <1>5, <1>6, <1>7, <1>8, <1>9, <1>10, <1>11, <1>12, <1>13, <1>14,
     <1>15, <1>16
     DEF F!SystemCommands

LEMMA FirewallSettles ==
  ASSUME NEW c \in F!FirewallCommands, NEW p, NEW r,
         r = F!FirewallChecked(c, p), ~F!Refuses(r)
  PROVE  F!FirewallChecked(c, r) = r /\ "nothing" \notin DOMAIN r
<1>1. CASE c = "firewall.set_zone"
  BY <1>1, ChecksSettle DEF F!FirewallChecked, F!Zone, F!Refuses
<1>2. CASE c = "firewall.set_forwarding"
  BY <1>2, ChecksSettle DEF F!FirewallChecked, F!Forwarding, F!Refuses
<1>3. CASE c = "firewall.delete_forwarding"
  BY <1>3, ChecksSettle DEF F!FirewallChecked, F!Refuses
<1>4. CASE c = "firewall.set_rule"
  BY <1>4, ChecksSettle DEF F!FirewallChecked, F!FirewallRule, F!Refuses
<1>5. CASE c \in {"firewall.delete_zone",
               "firewall.delete_rule",
               "firewall.delete_port_forward"}
  BY <1>5, ChecksSettle DEF F!FirewallChecked, F!Named, F!Refuses
<1>6. CASE c = "firewall.set_redirect"
  BY <1>6, ChecksSettle
     DEF F!FirewallChecked, F!Redirect, F!Refuses, F!Demand, F!Choice, F!Refused, F!Missing
<1>7. CASE c = "firewall.delete_redirect"
  BY <1>7, ChecksSettle DEF F!FirewallChecked, F!DeleteRedirect, F!Refuses
<1>8. CASE c = "firewall.set_port_forward"
  BY <1>8, ChecksSettle DEF F!FirewallChecked, F!PortForward, F!Refuses
<1>9. CASE c = "dhcp.set_lease"
  BY <1>9, ChecksSettle DEF F!FirewallChecked, F!DhcpLease, F!Refuses
<1>10. CASE c = "dhcp.delete_lease"
  BY <1>10, ChecksSettle DEF F!FirewallChecked, F!Refuses
<1>11. CASE c = "dhcp.set_pool"
  BY <1>11, ChecksSettle DEF F!FirewallChecked, F!DhcpPool, F!Refuses
<1>12. CASE c = "dns.set_servers"
  BY <1>12, ChecksSettle DEF F!FirewallChecked, F!DnsServers, F!Refuses
<1>13. CASE c \in {"dns.set_dot", "dns.set_doh"}
  BY <1>13, ChecksSettle DEF F!FirewallChecked, F!DnsProvider, F!Refuses
<1>14. CASE c = "client.set_blocked"
  BY <1>14, ChecksSettle DEF F!FirewallChecked, F!ClientBlock, F!Refuses
<1>15. CASE c = "qos.set_sqm"
  BY <1>15, ChecksSettle, PairsSettle DEF F!FirewallChecked, F!Sqm, F!Refuses
<1> QED
  BY <1>1, <1>2, <1>3, <1>4, <1>5, <1>6, <1>7, <1>8, <1>9, <1>10, <1>11, <1>12, <1>13, <1>14,
     <1>15
     DEF F!FirewallCommands

HandedOn(entry) == \A i \in DOMAIN entry.from : entry.from[i] \notin F!NotPreviewed

LEMMA RulesHandOn ==
  /\ \A x : x \notin F!NotPreviewed => HandedOn(F!Text(x))
  /\ \A x : x \notin F!NotPreviewed => HandedOn(F!OrElse(x))
  /\ \A x : x \notin F!NotPreviewed => HandedOn(F!IsTrue(x))
  /\ \A x, y : x \notin F!NotPreviewed /\ y \notin F!NotPreviewed => HandedOn(F!Either(x, y))
  /\ \A x, y, z : {x, y, z} \cap F!NotPreviewed = {} => HandedOn(F!AnyOf(x, y, z))
BY DEF HandedOn, F!Text, F!OrElse, F!IsTrue, F!Either, F!AnyOf

LEMMA WifiHandsOn ==
  ASSUME NEW c \in F!WifiCommands \cap F!WholeForms
  PROVE  \A f \in DOMAIN F!WifiForm(c) : HandedOn(F!WifiForm(c)[f])
<1>1. CASE c = "wifi.set_ssid"
  BY <1>1, RulesHandOn DEF F!WifiForm, F!NotPreviewed
<1>2. CASE c = "wifi.set_enabled"
  BY <1>2, RulesHandOn DEF F!WifiForm, F!NotPreviewed
<1>3. CASE c = "wifi.set_password"
  BY <1>3, RulesHandOn DEF F!WifiForm, F!NotPreviewed
<1>4. CASE c = "wifi.set_channel"
  BY <1>4, RulesHandOn DEF F!WifiForm, F!NotPreviewed
<1>5. CASE c = "wifi.set_country"
  BY <1>5, RulesHandOn DEF F!WifiForm, F!NotPreviewed
<1>6. CASE c = "wifi.set_radio"
  BY <1>6, RulesHandOn DEF F!WifiForm, F!NotPreviewed
<1>7. CASE c = "wifi.add_ssid"
  BY <1>7, RulesHandOn DEF F!WifiForm, F!NotPreviewed
<1>8. CASE c = "wifi.update_ssid"
  BY <1>8, RulesHandOn DEF F!WifiForm, F!NotPreviewed
<1>9. CASE c = "wifi.delete_ssid"
  BY <1>9, RulesHandOn DEF F!WifiForm, F!NotPreviewed
<1>10. CASE c = "wifi.set_schedule"
  BY <1>10, RulesHandOn DEF F!WifiForm, F!NotPreviewed
<1>11. CASE c = "wifi.set_mesh"
  BY <1>11, RulesHandOn DEF F!WifiForm, F!NotPreviewed
<1>12. CASE c = "wifi.set_guest"
  BY <1>12, RulesHandOn DEF F!WifiForm, F!NotPreviewed
<1> QED
  BY <1>1, <1>2, <1>3, <1>4, <1>5, <1>6, <1>7, <1>8, <1>9, <1>10, <1>11, <1>12
     DEF F!WifiCommands, F!WholeForms

LEMMA NetworkHandsOn ==
  ASSUME NEW c \in F!NetworkCommands \cap F!WholeForms
  PROVE  \A f \in DOMAIN F!NetworkForm(c) : HandedOn(F!NetworkForm(c)[f])
<1>1. CASE c = "network.interface_restart"
  BY <1>1, RulesHandOn DEF F!NetworkForm, F!NotPreviewed
<1>2. CASE c = "network.set_wan"
  BY <1>2, RulesHandOn DEF F!NetworkForm, F!NotPreviewed
<1>3. CASE c = "network.set_lan"
  BY <1>3, RulesHandOn DEF F!NetworkForm, F!NotPreviewed
<1>4. CASE c = "network.set_ipv6"
  BY <1>4, RulesHandOn DEF F!NetworkForm, F!NotPreviewed
<1>5. CASE c = "network.delete_segment"
  BY <1>5, RulesHandOn DEF F!NetworkForm, F!NotPreviewed
<1>6. CASE c = "network.delete_vlan"
  BY <1>6, RulesHandOn DEF F!NetworkForm, F!NotPreviewed
<1>7. CASE c = "network.set_route"
  BY <1>7, RulesHandOn DEF F!NetworkForm, F!NotPreviewed
<1>8. CASE c = "network.delete_route"
  BY <1>8, RulesHandOn DEF F!NetworkForm, F!NotPreviewed
<1>9. CASE c = "network.set_ddns"
  BY <1>9, RulesHandOn DEF F!NetworkForm, F!NotPreviewed
<1>10. CASE c = "network.set_upnp"
  BY <1>10, RulesHandOn DEF F!NetworkForm, F!NotPreviewed
<1> QED
  BY <1>1, <1>2, <1>3, <1>4, <1>5, <1>6, <1>7, <1>8, <1>9, <1>10
     DEF F!NetworkCommands, F!WholeForms

LEMMA VpnHandsOn ==
  ASSUME NEW c \in F!VpnCommands \cap F!WholeForms
  PROVE  \A f \in DOMAIN F!VpnForm(c) : HandedOn(F!VpnForm(c)[f])
<1>1. CASE c = "vpn.wireguard.set_interface"
  BY <1>1, RulesHandOn DEF F!VpnForm, F!NotPreviewed
<1>2. CASE c = "vpn.wireguard.set_peer"
  BY <1>2, RulesHandOn DEF F!VpnForm, F!NotPreviewed
<1>3. CASE c \in {"vpn.wireguard.delete_peer", "vpn.wireguard.export_peer"}
  BY <1>3, RulesHandOn DEF F!VpnForm, F!NotPreviewed
<1>4. CASE c = "vpn.wireguard.delete_interface"
  BY <1>4, RulesHandOn DEF F!VpnForm, F!NotPreviewed
<1>5. CASE c = "vpn.openvpn.set_client"
  BY <1>5, RulesHandOn DEF F!VpnForm, F!NotPreviewed
<1>6. CASE c \in {"vpn.openvpn.delete_client", "vpn.openvpn.export_client"}
  BY <1>6, RulesHandOn DEF F!VpnForm, F!NotPreviewed
<1>7. CASE c = "vpn.openvpn.set_enabled"
  BY <1>7, RulesHandOn DEF F!VpnForm, F!NotPreviewed
<1>8. CASE c = "vpn.policy.set"
  BY <1>8, RulesHandOn DEF F!VpnForm, F!NotPreviewed
<1>9. CASE c = "vpn.policy.delete"
  BY <1>9, RulesHandOn DEF F!VpnForm, F!NotPreviewed
<1> QED
  BY <1>1, <1>2, <1>3, <1>4, <1>5, <1>6, <1>7, <1>8, <1>9 DEF F!VpnCommands, F!WholeForms

LEMMA SystemHandsOn ==
  ASSUME NEW c \in F!SystemCommands \cap F!WholeForms
  PROVE  \A f \in DOMAIN F!SystemForm(c) : HandedOn(F!SystemForm(c)[f])
<1>1. CASE c \in {"maintenance.package.install",
               "maintenance.package.remove",
               "maintenance.package.upgrade"}
  BY <1>1, RulesHandOn DEF F!SystemForm, F!NotPreviewed
<1>2. CASE c = "maintenance.backup.restore"
  BY <1>2, RulesHandOn DEF F!SystemForm, F!NotPreviewed
<1>3. CASE c = "maintenance.sysupgrade.check"
  BY <1>3, RulesHandOn DEF F!SystemForm, F!NotPreviewed
<1>4. CASE c = "maintenance.sysupgrade.apply"
  BY <1>4, RulesHandOn DEF F!SystemForm, F!NotPreviewed
<1>5. CASE c = "maintenance.logs.read"
  BY <1>5, RulesHandOn DEF F!SystemForm, F!NotPreviewed
<1>6. CASE c = "maintenance.process.signal"
  BY <1>6, RulesHandOn DEF F!SystemForm, F!NotPreviewed
<1>7. CASE c = "maintenance.cron.set"
  BY <1>7, RulesHandOn DEF F!SystemForm, F!NotPreviewed
<1>8. CASE c = "maintenance.service.set"
  BY <1>8, RulesHandOn DEF F!SystemForm, F!NotPreviewed
<1>9. CASE c = "maintenance.module.configure"
  BY <1>9, RulesHandOn DEF F!SystemForm, F!NotPreviewed
<1>10. CASE c = "system.set_hostname"
  BY <1>10, RulesHandOn DEF F!SystemForm, F!NotPreviewed
<1>11. CASE c = "system.restart_service"
  BY <1>11, RulesHandOn DEF F!SystemForm, F!NotPreviewed
<1>12. CASE c = "system.set_timezone"
  BY <1>12, RulesHandOn DEF F!SystemForm, F!NotPreviewed
<1>13. CASE c = "system.set_ntp"
  BY <1>13, RulesHandOn DEF F!SystemForm, F!NotPreviewed
<1>14. CASE c = "agent.set_auto_update"
  BY <1>14, RulesHandOn DEF F!SystemForm, F!NotPreviewed
<1>15. CASE c = "agent.set_interval"
  BY <1>15, RulesHandOn DEF F!SystemForm, F!NotPreviewed
<1>16. CASE c = "diagnostics.run"
  BY <1>16, RulesHandOn DEF F!SystemForm, F!NotPreviewed
<1> QED
  BY <1>1, <1>2, <1>3, <1>4, <1>5, <1>6, <1>7, <1>8, <1>9, <1>10, <1>11, <1>12, <1>13, <1>14,
     <1>15, <1>16
     DEF F!SystemCommands, F!WholeForms

LEMMA FirewallHandsOn ==
  ASSUME NEW c \in F!FirewallCommands \cap F!WholeForms
  PROVE  \A f \in DOMAIN F!FirewallForm(c) : HandedOn(F!FirewallForm(c)[f])
<1>1. CASE c = "firewall.set_zone"
  BY <1>1, RulesHandOn DEF F!FirewallForm, F!NotPreviewed
<1>2. CASE c = "firewall.set_forwarding"
  BY <1>2, RulesHandOn DEF F!FirewallForm, F!NotPreviewed
<1>3. CASE c = "firewall.delete_forwarding"
  BY <1>3, RulesHandOn DEF F!FirewallForm, F!NotPreviewed
<1>4. CASE c = "firewall.set_rule"
  BY <1>4, RulesHandOn DEF F!FirewallForm, F!NotPreviewed
<1>5. CASE c \in {"firewall.delete_zone",
               "firewall.delete_rule",
               "firewall.delete_port_forward",
               "firewall.delete_redirect"}
  BY <1>5, RulesHandOn DEF F!FirewallForm, F!NotPreviewed
<1>6. CASE c = "firewall.set_redirect"
  BY <1>6, RulesHandOn DEF F!FirewallForm, F!NotPreviewed
<1>7. CASE c = "firewall.set_port_forward"
  BY <1>7, RulesHandOn DEF F!FirewallForm, F!NotPreviewed
<1>8. CASE c = "dhcp.set_lease"
  BY <1>8, RulesHandOn DEF F!FirewallForm, F!NotPreviewed
<1>9. CASE c = "dhcp.delete_lease"
  BY <1>9, RulesHandOn DEF F!FirewallForm, F!NotPreviewed
<1>10. CASE c = "dhcp.set_pool"
  BY <1>10, RulesHandOn DEF F!FirewallForm, F!NotPreviewed
<1>11. CASE c = "dns.set_servers"
  BY <1>11, RulesHandOn DEF F!FirewallForm, F!NotPreviewed
<1>12. CASE c \in {"dns.set_dot", "dns.set_doh"}
  BY <1>12, RulesHandOn DEF F!FirewallForm, F!NotPreviewed
<1>13. CASE c = "client.set_blocked"
  BY <1>13, RulesHandOn DEF F!FirewallForm, F!NotPreviewed
<1>14. CASE c = "qos.set_sqm"
  BY <1>14, RulesHandOn DEF F!FirewallForm, F!NotPreviewed
<1> QED
  BY <1>1, <1>2, <1>3, <1>4, <1>5, <1>6, <1>7, <1>8, <1>9, <1>10, <1>11, <1>12, <1>13, <1>14
     DEF F!FirewallCommands, F!WholeForms

\* The groups of the commands have none in common.
LEMMA CommandGroups ==
  \A c \in F!FormCommands :
    /\ c \in F!WifiCommands \cup F!NetworkCommands \cup F!VpnCommands \cup F!SystemCommands
            \cup F!FirewallCommands
    /\ c \in F!NetworkCommands => c \notin F!WifiCommands
    /\ c \in F!VpnCommands => c \notin F!WifiCommands \cup F!NetworkCommands
    /\ c \in F!SystemCommands => c \notin F!WifiCommands \cup F!NetworkCommands \cup F!VpnCommands
    /\ c \in F!FirewallCommands =>
         c \notin F!WifiCommands \cup F!NetworkCommands \cup F!VpnCommands \cup F!SystemCommands
<1>1. \A c \in F!FormCommands :
        c \in F!WifiCommands \cup F!NetworkCommands \cup F!VpnCommands \cup F!SystemCommands
             \cup F!FirewallCommands
  BY DEF F!FormCommands
<1>2. \A c \in F!NetworkCommands : c \notin F!WifiCommands
  BY DEF F!WifiCommands, F!NetworkCommands
<1>3. \A c \in F!VpnCommands : c \notin F!WifiCommands \cup F!NetworkCommands
  BY DEF F!WifiCommands, F!NetworkCommands, F!VpnCommands
<1>4. \A c \in F!SystemCommands : c \notin F!WifiCommands \cup F!NetworkCommands \cup F!VpnCommands
  BY DEF F!WifiCommands, F!NetworkCommands, F!VpnCommands, F!SystemCommands
<1>5. \A c \in F!FirewallCommands : c \notin F!WifiCommands \cup F!NetworkCommands \cup F!VpnCommands
                                           \cup F!SystemCommands
  BY DEF F!WifiCommands, F!NetworkCommands, F!VpnCommands, F!SystemCommands, F!FirewallCommands
<1> QED
  BY <1>1, <1>2, <1>3, <1>4, <1>5

\* The form and the checks of a command are those of its group.
LEMMA OfGroup ==
  ASSUME NEW c \in F!FormCommands, NEW p
  PROVE  LET Result(q) == IF F!Refuses(q) THEN F!Refused ELSE q IN
         /\ c \in F!WifiCommands =>
              F!Template(c) = F!WifiForm(c) /\ F!Checked(c, p) = Result(F!WifiChecked(c, p))
         /\ c \in F!NetworkCommands =>
              F!Template(c) = F!NetworkForm(c) /\ F!Checked(c, p) = Result(F!NetworkChecked(c, p))
         /\ c \in F!VpnCommands =>
              F!Template(c) = F!VpnForm(c) /\ F!Checked(c, p) = Result(F!VpnChecked(c, p))
         /\ c \in F!SystemCommands =>
              F!Template(c) = F!SystemForm(c) /\ F!Checked(c, p) = Result(F!SystemChecked(c, p))
         /\ c \in F!FirewallCommands =>
              F!Template(c) = F!FirewallForm(c) /\ F!Checked(c, p) = Result(F!FirewallChecked(c, p))
BY CommandGroups DEF F!Template, F!Checked

\* Every field of these forms reaches the preview.
LEMMA FieldsAreHanded ==
  ASSUME NEW c \in F!WholeForms
  PROVE  F!Fields(c) \ F!NotPreviewed = F!Fields(c)
<1>1. \A f \in DOMAIN F!Template(c) : HandedOn(F!Template(c)[f])
  <2>1. c \in F!FormCommands
    BY DEF F!WholeForms
  <2> QED
    BY <2>1, CommandGroups, OfGroup, WifiHandsOn, NetworkHandsOn, VpnHandsOn, SystemHandsOn,
       FirewallHandsOn
<1> QED
  BY <1>1 DEF F!Fields, HandedOn

\* What the checks let through they accept as it is.
LEMMA CheckedSettles ==
  ASSUME NEW c \in F!FormCommands, NEW p, NEW r, r = F!Checked(c, p)
  PROVE  /\ "nothing" \notin DOMAIN r
         /\ ~F!Refuses(r) => F!Checked(c, r) = r
<1>1. CASE F!Refuses(r)
  <2>1. r = F!Refused
    BY <1>1 DEF F!Checked
  <2> QED
    BY <1>1, <2>1 DEF F!Refused
<1>2. CASE ~F!Refuses(r)
  <2>1. F!Refuses(F!Refused)
    BY DEF F!Refused, F!Refuses
  <2>2. CASE c \in F!WifiCommands
    BY <1>2, <2>1, <2>2, OfGroup, WifiSettles
  <2>3. CASE c \in F!NetworkCommands
    BY <1>2, <2>1, <2>3, OfGroup, NetworkSettles
  <2>4. CASE c \in F!VpnCommands
    BY <1>2, <2>1, <2>4, OfGroup, VpnSettles
  <2>5. CASE c \in F!SystemCommands
    BY <1>2, <2>1, <2>5, OfGroup, SystemSettles
  <2>6. CASE c \in F!FirewallCommands
    BY <1>2, <2>1, <2>6, OfGroup, FirewallSettles
  <2> QED
    BY <2>2, <2>3, <2>4, <2>5, <2>6, CommandGroups
<1> QED
  BY <1>1, <1>2

LEMMA TwiceSettles ==
  ASSUME NEW c \in F!FormCommands, NEW G
  PROVE  /\ F!Refuses(F!Built(c, G)) \/ F!Checked(c, F!Built(c, G)) = F!Built(c, G)
         /\ "nothing" \notin DOMAIN F!Twice(c, G)
         /\ ~F!Refuses(F!Twice(c, G)) => F!Twice(c, G) = F!Checked(c, F!Built(c, G))
<1> DEFINE built == F!Built(c, G)
<1>1. PICK p : built = F!Checked(c, p)
  BY DEF F!Built
<1>2. F!Refuses(built) \/ F!Checked(c, built) = built
  BY <1>1, CheckedSettles
<1>3. F!Twice(c, G) = IF F!Refuses(built) THEN F!Refused ELSE F!Checked(c, built)
  BY DEF F!Twice
<1>4. F!Refuses(F!Refused) /\ "nothing" \notin DOMAIN F!Refused
  BY DEF F!Refuses, F!Refused
<1> HIDE DEF built
<1>5. "nothing" \notin DOMAIN F!Checked(c, built)
  BY CheckedSettles
<1> QED
  BY <1>2, <1>3, <1>4, <1>5 DEF built

\* What the checks let through has every field that its other fields demand.
LEMMA CheckedIsComplete ==
  ASSUME NEW c \in F!FormCommands, NEW p, NEW r, r = F!Checked(c, p), ~F!Refuses(r)
  PROVE  F!Complete(c, r)
<1>1. F!Refuses(F!Refused)
  BY DEF F!Refused, F!Refuses
<1>2. ASSUME c = "network.set_wan" PROVE F!Complete(c, r)
  <2>1. r = F!Wan(p)
    <3>1. c \in F!NetworkCommands
      BY <1>2 DEF F!NetworkCommands
    <3>2. F!NetworkChecked(c, p) = F!Wan(p)
      BY <1>2 DEF F!NetworkChecked
    <3> QED
      BY <1>1, <3>1, <3>2, OfGroup
  <2> QED
    BY <1>2, <2>1, ChecksSettle DEF F!Wan, F!Refuses, F!When, F!Choice, F!Complete, F!Present
<1>3. ASSUME c = "wifi.add_ssid" PROVE F!Complete(c, r)
  <2>1. r = F!WifiAddSsid(p)
    <3>1. c \in F!WifiCommands
      BY <1>3 DEF F!WifiCommands
    <3>2. F!WifiChecked(c, p) = F!WifiAddSsid(p)
      BY <1>3 DEF F!WifiChecked
    <3> QED
      BY <1>1, <3>1, <3>2, OfGroup
  <2> QED
    BY <1>3, <2>1, ChecksSettle, PairsSettle DEF F!WifiAddSsid, F!Refuses, F!Complete, F!Present
<1>4. ASSUME c = "wifi.set_schedule" PROVE F!Complete(c, r)
  <2>1. r = F!WifiSchedule(p)
    <3>1. c \in F!WifiCommands
      BY <1>4 DEF F!WifiCommands
    <3>2. F!WifiChecked(c, p) = F!WifiSchedule(p)
      BY <1>4 DEF F!WifiChecked
    <3> QED
      BY <1>1, <3>1, <3>2, OfGroup
  <2>2. /\ r.enabled = F!Flag(p.enabled) /\ r.weekdays = F!Weekdays(p.enabled, p.weekdays)
        /\ r.start = F!Time(p.enabled, p.start) /\ r.stop = F!Time(p.enabled, p.stop)
        /\ "refused" \notin {r.enabled, r.weekdays, r.start, r.stop}
    BY <2>1 DEF F!WifiSchedule, F!Refuses
  <2>3. r.enabled = p.enabled
    BY <2>2, ChecksSettle
  <2>4. ASSUME r.enabled = "true"
        PROVE  {r.weekdays, r.start, r.stop} \cap F!Missing = {} /\ r.stop # "same"
    <3>1. r.weekdays \notin F!Missing
      BY <2>2, <2>3, <2>4 DEF F!Weekdays, F!Needed, F!Plain, F!Missing
    <3>2. r.start \notin F!Missing /\ r.stop \notin F!Missing /\ r.stop # "same"
      BY <2>2, <2>3, <2>4 DEF F!Time, F!Exact, F!Plain, F!Missing
    <3> QED
      BY <3>1, <3>2
  <2> QED
    BY <1>4, <2>4 DEF F!Complete, F!Present
<1>5. ASSUME c = "qos.set_sqm" PROVE F!Complete(c, r)
  <2>1. r = F!Sqm(p)
    <3>1. c \in F!FirewallCommands
      BY <1>5 DEF F!FirewallCommands
    <3>2. F!FirewallChecked(c, p) = F!Sqm(p)
      BY <1>5 DEF F!FirewallChecked
    <3> QED
      BY <1>1, <3>1, <3>2, OfGroup
  <2>2. /\ r.schedule_enabled = F!Flag(p.schedule_enabled)
        /\ r.weekdays = F!ExactDays(p.schedule_enabled, p.weekdays)
        /\ r.start = F!Time(p.schedule_enabled, p.start)
        /\ r.stop = IF p.stop = "same" THEN "same" ELSE F!Time(p.schedule_enabled, p.stop)
        /\ "refused" \notin {r.schedule_enabled, r.weekdays, r.start, r.stop}
    BY <2>1 DEF F!Sqm, F!Refuses
  <2>3. r.schedule_enabled = p.schedule_enabled
    BY <2>2, ChecksSettle
  <2>4. ASSUME r.schedule_enabled = "true"
        PROVE  {r.weekdays, r.start, r.stop} \cap F!Missing = {}
    <3>1. r.weekdays \notin F!Missing
      BY <2>2, <2>3, <2>4 DEF F!ExactDays, F!Exact, F!Plain, F!Missing
    <3>2. {r.start, r.stop} \cap F!Missing = {}
      BY <2>2, <2>3, <2>4 DEF F!Time, F!Exact, F!Plain, F!Missing
    <3> QED
      BY <3>1, <3>2
  <2> QED
    BY <1>5, <2>4 DEF F!Complete, F!Present
<1>6. ASSUME c = "firewall.set_redirect" PROVE F!Complete(c, r)
  <2>1. r = F!Redirect(p)
    <3>1. c \in F!FirewallCommands
      BY <1>6 DEF F!FirewallCommands
    <3>2. F!FirewallChecked(c, p) = F!Redirect(p)
      BY <1>6 DEF F!FirewallChecked
    <3> QED
      BY <1>1, <3>1, <3>2, OfGroup
  <2> QED
    BY <1>6, <2>1, ChecksSettle
       DEF F!Redirect, F!Refuses, F!Refused, F!Demand, F!Choice, F!Complete, F!Present
<1>7. ASSUME c = "vpn.policy.set" PROVE F!Complete(c, r)
  <2>1. r = F!VpnPolicy(p)
    <3>1. c \in F!VpnCommands
      BY <1>7 DEF F!VpnCommands
    <3>2. F!VpnChecked(c, p) = F!VpnPolicy(p)
      BY <1>7 DEF F!VpnChecked
    <3> QED
      BY <1>1, <3>1, <3>2, OfGroup
  <2> QED
    BY <1>7, <2>1, ChecksSettle
       DEF F!VpnPolicy, F!Refuses, F!Refused, F!Demand, F!Complete, F!Present
<1>8. ASSUME c = "system.set_ntp" PROVE F!Complete(c, r)
  <2>1. r = F!Ntp(p)
    <3>1. c \in F!SystemCommands
      BY <1>8 DEF F!SystemCommands
    <3>2. F!SystemChecked(c, p) = F!Ntp(p)
      BY <1>8 DEF F!SystemChecked
    <3> QED
      BY <1>1, <3>1, <3>2, OfGroup
  <2> QED
    BY <1>8, <2>1, ChecksSettle DEF F!Ntp, F!Refuses, F!Complete, F!Present
<1>9. ASSUME c = "network.set_segment" PROVE F!Complete(c, r)
  <2>1. r = F!Segment(p)
    <3>1. c \in F!NetworkCommands
      BY <1>9 DEF F!NetworkCommands
    <3>2. F!NetworkChecked(c, p) = F!Segment(p)
      BY <1>9 DEF F!NetworkChecked
    <3> QED
      BY <1>1, <3>1, <3>2, OfGroup
  <2> QED
    BY <1>9, <2>1, ChecksSettle
       DEF F!Segment, F!Refuses, F!Refused, F!Demand, F!When, F!Choice, F!Missing, F!Complete,
           F!Present
<1>10. ASSUME c = "maintenance.module.configure" PROVE F!Complete(c, r)
  <2>1. r = F!Module(p)
    <3>1. c \in F!SystemCommands
      BY <1>10 DEF F!SystemCommands
    <3>2. F!SystemChecked(c, p) = F!Module(p)
      BY <1>10 DEF F!SystemChecked
    <3> QED
      BY <1>1, <3>1, <3>2, OfGroup
  <2> QED
    BY <1>10, <2>1
       DEF F!Module, F!Refuses, F!Refused, F!Demand, F!Needed, F!Plain, F!Complete
<1> QED
  BY <1>2, <1>3, <1>4, <1>5, <1>6, <1>7, <1>8, <1>9, <1>10 DEF F!Complete

LEMMA EditsCounted ==
  \A X : F!Cardinality(X) = Cardinality(X) /\ (F!IsFiniteSet(X) <=> IsFiniteSet(X))
BY DEF F!Cardinality, Cardinality, F!IsFiniteSet, IsFiniteSet

LEMMA FormBegins == F!FormInit => F!FormInv
<1> SUFFICES ASSUME F!FormInit PROVE F!FormInv
  OBVIOUS
<1>1. /\ command \in Written!FormCommands /\ DOMAIN form = F!Fields(command) /\ edits = {}
      /\ held = {} /\ page = "editing" /\ preview = F!Nothing /\ sent = F!Nothing
  BY DEF F!FormInit
<1>2. F!IsFiniteSet(edits) /\ F!Cardinality(edits) = 0
  BY <1>1, FS_EmptySet, EditsCounted
<1> QED
  BY <1>1, <1>2, FormConstants DEF F!FormInv, F!FormTypeOK

\* What is made of a form tells nothing apart from its own fields.
LEMMA NotNothing ==
  ASSUME NEW p, "nothing" \notin DOMAIN p, NEW same
  PROVE  p # F!Nothing /\ F!Changes(p, same) # F!Nothing
<1>1. "nothing" \in DOMAIN F!Nothing
  BY DEF F!Nothing
<1>2. DOMAIN F!Changes(p, same) \subseteq DOMAIN p
  BY DEF F!Changes
<1> QED
  BY <1>1, <1>2

LEMMA PreviewKeeps ==
  ASSUME F!FormInv, F!AskPreview
  PROVE  F!FormInv'
<1>1. /\ page = "editing" /\ preview' = F!Changes(F!Previewed, held')
      /\ page' = (IF F!Refuses(F!Previewed) THEN "refused" ELSE "previewed")
      /\ sent' = sent /\ edits' = edits /\ command' = command /\ form' = form
      /\ held' \subseteq F!Compared(command)
  BY DEF F!AskPreview
<1>2. command \in F!FormCommands
  BY FormConstants DEF F!FormInv, F!FormTypeOK
<1>3. F!Previewed' = F!Previewed
  BY <1>1 DEF F!Previewed, F!Received
<1>4. preview' # F!Nothing
  BY <1>1, <1>2, TwiceSettles, NotNothing DEF F!Previewed
<1> QED
  BY <1>1, <1>3, <1>4 DEF F!FormInv, F!FormTypeOK

LEMMA FormGoesOn ==
  ASSUME F!FormInv, [F!FormNext]_(F!formVars)
  PROVE  F!FormInv'
<1>1. ASSUME NEW f \in F!Fields(command), NEW v, F!Edit(f, v) PROVE F!FormInv'
  <2>1. /\ page = "editing" /\ f \notin edits /\ F!Cardinality(edits) < MaxEdits
        /\ form' = [form EXCEPT ![f] = v] /\ edits' = edits \cup {f}
        /\ command' = command /\ page' = page /\ held' = held /\ preview' = preview
        /\ sent' = sent
    BY <1>1 DEF F!Edit
  <2>2. F!IsFiniteSet(edits') /\ F!Cardinality(edits') = F!Cardinality(edits) + 1
        /\ F!Cardinality(edits) \in Nat
    BY <2>1, FS_AddElement, FS_CardinalityType, EditsCounted DEF F!FormInv
  <2>3. DOMAIN form' = DOMAIN form
    BY <2>1
  <2>4. F!Cardinality(edits') <= MaxEdits
    BY <2>1, <2>2, FormConstants
  <2> QED
    BY <2>1, <2>2, <2>3, <2>4 DEF F!FormInv, F!FormTypeOK
<1>2. CASE F!Close
  BY <1>2 DEF F!Close, F!FormInv, F!FormTypeOK
<1>3. CASE F!Send
  <2>1. /\ page = "previewed" /\ page' = "sent" /\ sent' = F!Outcome /\ preview' = preview
        /\ edits' = edits /\ command' = command /\ form' = form /\ held' = held
    BY <1>3 DEF F!Send
  <2>2. F!Outcome' = F!Outcome /\ F!Previewed' = F!Previewed
    BY <2>1 DEF F!Outcome, F!Previewed, F!Received
  <2>3. command \in F!FormCommands
    BY FormConstants DEF F!FormInv, F!FormTypeOK
  <2>4. F!Outcome # F!Nothing
    BY <2>3, TwiceSettles, NotNothing DEF F!Outcome
  <2> QED
    BY <2>1, <2>2, <2>4 DEF F!FormInv, F!FormTypeOK
<1>4. CASE UNCHANGED F!formVars
  <2>1. F!Outcome' = F!Outcome /\ F!Previewed' = F!Previewed
    BY <1>4 DEF F!formVars, F!Outcome, F!Previewed, F!Received
  <2> QED
    BY <1>4, <2>1 DEF F!formVars, F!FormInv, F!FormTypeOK
<1> QED
  BY <1>1, <1>2, <1>3, <1>4, PreviewKeeps DEF F!FormNext

\* The preview of a form that it reads whole tells of the command that is sent.
LEMMA WholeIsTold == F!FormInv /\ command \in F!WholeForms => F!ToldTruly
<1> SUFFICES ASSUME F!FormInv, command \in F!WholeForms, page # "editing" PROVE F!ToldTruly
  BY DEF F!ToldTruly
<1>1. F!Previewed = F!Outcome
  BY FieldsAreHanded DEF F!Previewed, F!Outcome
<1>2. preview = F!Changes(F!Outcome, held)
  BY <1>1 DEF F!FormInv
<1>3. CASE F!Refuses(F!Outcome)
  <2>1. F!Outcome = F!Refused
    BY <1>3 DEF F!Outcome, F!Twice, F!Checked
  <2>2. "refused" \notin held
    BY DEF F!FormInv, F!FormTypeOK, F!Compared
  <2>3. preview["refused"] = "refused" /\ "refused" \in DOMAIN preview
    BY <1>2, <2>1, <2>2 DEF F!Changes, F!Refused, F!SelectorFields, F!SecretFields
  <2> QED
    BY <1>3, <2>3 DEF F!ToldTruly, F!Refuses
<1>4. CASE ~F!Refuses(F!Outcome)
  <2>1. ~F!Refuses(preview)
    BY <1>2, <1>4 DEF F!Refuses, F!Changes
  <2> QED
    BY <1>2, <1>4, <2>1 DEF F!ToldTruly, F!Changes
<1> QED
  BY <1>3, <1>4

LEMMA FormFollows == F!FormInv => F!SentIsAcceptable /\ F!PreviewTells
<1> SUFFICES ASSUME F!FormInv PROVE F!SentIsAcceptable /\ F!PreviewTells
  OBVIOUS
<1>1. command \in F!FormCommands
  BY FormConstants DEF F!FormInv, F!FormTypeOK
<1>2. F!AcceptedAgain
  BY <1>1, TwiceSettles DEF F!AcceptedAgain
<1>3. F!SentIsComplete
  <2> SUFFICES ASSUME page = "sent", ~F!Refuses(sent) PROVE F!Complete(command, sent)
    BY DEF F!SentIsComplete
  <2>1. sent = F!Outcome
    BY DEF F!FormInv
  <2>2. sent = F!Checked(command, F!Built(command, F!Received(F!Fields(command))))
    BY <1>1, <2>1, TwiceSettles DEF F!Outcome
  <2> QED
    BY <1>1, <2>2, CheckedIsComplete
<1>4. F!SecretsMasked
  <2> SUFFICES ASSUME NEW f \in F!CatalogueSecrets(command) \cap DOMAIN preview
               PROVE  preview[f] \in F!Missing \cup {"masked", "refused"}
    BY DEF F!SecretsMasked
  <2>1. f \in F!SecretFields
    BY DEF F!CatalogueSecrets, F!SecretFields
  <2>2. page # "editing"
    BY <2>1 DEF F!SecretFields, F!FormInv, F!FormTypeOK, F!Nothing
  <2>3. preview = F!Changes(F!Previewed, held)
    BY <2>2 DEF F!FormInv
  <2> QED
    BY <2>1, <2>3 DEF F!Changes
<1> QED
  BY <1>2, <1>3, <1>4, WholeIsTold DEF F!SentIsAcceptable, F!PreviewTells

-----------------------------------------------------------------------------
(* Induction over the natural numbers, of a set in place of a predicate.  *)

LEMMA LeastOf ==
  ASSUME NEW good, good \subseteq Nat, good # {}
  PROVE  \E n \in good : \A k \in good : n <= k
<1> DEFINE less == {ss \in Nat \X Nat : ss[1] < ss[2]}
<1>1. IsWellFoundedOn(less, Nat)
  <2>1. less = OpToRel(<, Nat)
    BY DEF OpToRel
  <2> QED
    BY <2>1, NatLessThanWellFounded
<1>2. ASSUME NEW a \in Nat, NEW b \in Nat, a < b PROVE <<a, b>> \in less
  BY <1>2, Zenon
<1> HIDE DEF less
<1>3. PICK x \in good : \A y \in good : ~ (<<y, x>> \in less)
  BY <1>1, WFMin
<1>4. ASSUME NEW y \in good PROVE x <= y
  <2>1. x \in Nat /\ y \in Nat
    BY <1>4
  <2>2. ~ (y < x)
    BY <1>2, <1>3, <2>1, Zenon
  <2> QED
    BY <2>1, <2>2
<1> QED
  BY <1>4

LEMMA Induction ==
  ASSUME NEW good, 0 \in good, \A n \in Nat : n \in good => n + 1 \in good
  PROVE  Nat \subseteq good
<1>1. SUFFICES ASSUME Nat \ good # {} PROVE FALSE
  OBVIOUS
<1>2. PICK n \in Nat \ good : \A k \in Nat \ good : n <= k
  BY <1>1, LeastOf
<1>3. n # 0 /\ n - 1 \in Nat /\ n - 1 \in good
  BY <1>2
<1> QED
  BY <1>2, <1>3

-----------------------------------------------------------------------------
(* The rates of the chart (TelemetryHistory, as T). *)

LEMMA HistoryConstants ==
  /\ Traffic \subseteq Nat /\ {BufferLimit, Keep, KeepFor, Window} \subseteq Nat
  /\ Target \in Nat /\ Target # 0
BY PageAssumption

LEMMA RanksCounted == \A X : T!Cardinality(X) = Cardinality(X)
BY DEF T!Cardinality, Cardinality

\* Ranks that differ are all the numbers up to that of the entries.
LEMMA ArrangedIs ==
  ASSUME NEW s, NEW places, IsFiniteSet(places), NEW rank \in [places -> 1..Cardinality(places)],
         \A j, k \in places : rank[j] = rank[k] => j = k
  PROVE  /\ DOMAIN T!Arranged(s, rank) = 1..Cardinality(places)
         /\ \A i \in 1..Cardinality(places) :
              \E k \in places : rank[k] = i /\ T!Arranged(s, rank)[i] = s[k]
         /\ \A k \in places : rank[k] \in 1..Cardinality(places) /\ T!Arranged(s, rank)[rank[k]] = s[k]
<1> DEFINE n == Cardinality(places)
<1>1. n \in Nat /\ IsFiniteSet(1..n) /\ Cardinality(1..n) = n
  BY FS_CardinalityType, FS_Interval
<1>2. rank \in Injection(places, 1..n)
  BY DEF Injection, IsInjective
<1>3. rank \in Surjection(places, 1..n)
  BY <1>1, <1>2, FS_Injection
<1>4. \A i \in 1..n : \E k \in places : rank[k] = i
  BY <1>3 DEF Surjection
<1>5. DOMAIN rank = places
  OBVIOUS
<1>6. T!Arranged(s, rank) = [i \in 1..n |-> s[CHOOSE k \in places : rank[k] = i]]
  BY <1>5, RanksCounted DEF T!Arranged
<1>7. ASSUME NEW i \in 1..n
      PROVE  \E k \in places : rank[k] = i /\ T!Arranged(s, rank)[i] = s[k]
  BY <1>4, <1>6
<1>8. ASSUME NEW k \in places
      PROVE  rank[k] \in 1..n /\ T!Arranged(s, rank)[rank[k]] = s[k]
  BY <1>6
<1> QED
  BY <1>6, <1>7, <1>8

LEMMA UpTo ==
  ASSUME NEW s, NEW X, s \in Seq(X)
  PROVE  Len(s) \in Nat /\ DOMAIN s = 1..Len(s) /\ IsFiniteSet(DOMAIN s)
         /\ Cardinality(DOMAIN s) = Len(s) /\ \A k \in DOMAIN s : s[k] \in X
<1>1. Len(s) \in Nat /\ DOMAIN s = 1..Len(s) /\ \A k \in DOMAIN s : s[k] \in X
  OBVIOUS
<1> QED
  BY <1>1, FS_Interval

\* Entries are ranked by how many come before them.
LEMMA Ranked ==
  ASSUME NEW places, IsFiniteSet(places), NEW before \in [places -> SUBSET places],
         \A k \in places : k \in before[k],
         \A j, k \in places : j = k \/ (before[j] \subseteq before[k] /\ k \notin before[j])
                               \/ (before[k] \subseteq before[j] /\ j \notin before[k]),
         NEW rank, rank = [k \in places |-> Cardinality(before[k])]
  PROVE  /\ rank \in [places -> 1..Cardinality(places)]
         /\ \A j, k \in places : rank[j] = rank[k] => j = k
         /\ \A j, k \in places : rank[j] <= rank[k] => j = k \/ k \notin before[j]
<1>1. Cardinality(places) \in Nat
  BY FS_CardinalityType
<1>2. \A k \in places : /\ IsFiniteSet(before[k]) /\ Cardinality(before[k]) \in Nat
                   /\ Cardinality(before[k]) <= Cardinality(places) /\ Cardinality(before[k]) # 0
  <2> SUFFICES ASSUME NEW k \in places
               PROVE  /\ IsFiniteSet(before[k]) /\ Cardinality(before[k]) \in Nat
                      /\ Cardinality(before[k]) <= Cardinality(places) /\ Cardinality(before[k]) # 0
    OBVIOUS
  <2>1. before[k] \in SUBSET places /\ before[k] # {}
    OBVIOUS
  <2> QED
    BY <2>1, FS_Subset, FS_CardinalityType, FS_EmptySet
<1>3. \A k \in places : rank[k] = Cardinality(before[k])
  OBVIOUS
<1>4. rank \in [places -> 1..Cardinality(places)]
  BY <1>1, <1>2
<1>5. ASSUME NEW j \in places, NEW k \in places, before[j] \subseteq before[k], k \notin before[j]
      PROVE  rank[j] < rank[k]
  <2>1. before[j] \in SUBSET before[k] /\ before[j] # before[k]
    BY <1>5
  <2>2. Cardinality(before[j]) <= Cardinality(before[k])
        /\ Cardinality(before[j]) # Cardinality(before[k])
    BY <1>2, <2>1, FS_Subset
  <2> QED
    BY <1>2, <1>3, <2>2
<1>6. ASSUME NEW j \in places, NEW k \in places, j # k
      PROVE  /\ rank[j] # rank[k]
             /\ rank[j] <= rank[k] => k \notin before[j]
  <2>1. rank[j] \in Nat /\ rank[k] \in Nat
    BY <1>2, <1>3
  <2>2. CASE before[j] \subseteq before[k] /\ k \notin before[j]
    BY <1>5, <2>1, <2>2
  <2>3. CASE before[k] \subseteq before[j] /\ j \notin before[k]
    BY <1>5, <2>1, <2>3
  <2> QED
    BY <1>6, <2>2, <2>3
<1> QED
  BY <1>4, <1>6

LEMMA PickedIs ==
  ASSUME NEW X, NEW s \in Seq(X), NEW places \in SUBSET DOMAIN s
  PROVE  /\ T!Picked(s, places) \in Seq(X) /\ Len(T!Picked(s, places)) = Cardinality(places)
         /\ T!ToSet(T!Picked(s, places)) = {s[k] : k \in places}
<1> DEFINE before == [k \in places |-> {j \in places : j <= k}]
           rank == [k \in places |-> Cardinality(before[k])]
<1>1. IsFiniteSet(places) /\ Cardinality(places) \in Nat /\ places \subseteq Nat
  BY UpTo, FS_Subset, FS_CardinalityType
<1>2. before \in [places -> SUBSET places] /\ \A k \in places : k \in before[k]
  BY <1>1
<1>3. \A j, k \in places : j = k \/ (before[j] \subseteq before[k] /\ k \notin before[j])
                            \/ (before[k] \subseteq before[j] /\ j \notin before[k])
  BY <1>1
<1>4. T!Picked(s, places) = T!Arranged(s, rank)
  BY RanksCounted DEF T!Picked
<1> HIDE DEF before
<1>5. /\ rank \in [places -> 1..Cardinality(places)]
      /\ \A j, k \in places : rank[j] = rank[k] => j = k
  BY <1>1, <1>2, <1>3, Ranked
<1> HIDE DEF rank
<1>8. /\ DOMAIN T!Picked(s, places) = 1..Cardinality(places)
      /\ \A i \in 1..Cardinality(places) : \E k \in places : T!Picked(s, places)[i] = s[k]
      /\ \A k \in places : \E i \in 1..Cardinality(places) : T!Picked(s, places)[i] = s[k]
  BY <1>1, <1>4, <1>5, ArrangedIs
<1>9. T!Picked(s, places) = [i \in 1..Cardinality(places) |-> T!Picked(s, places)[i]]
  BY <1>8 DEF T!Picked, T!Arranged
<1>10. \A i \in 1..Cardinality(places) : T!Picked(s, places)[i] \in X
  BY <1>8
<1>11. T!Picked(s, places) \in [1..Cardinality(places) -> X]
  BY <1>9, <1>10
<1>12. T!Picked(s, places) \in Seq(X) /\ Len(T!Picked(s, places)) = Cardinality(places)
  BY <1>1, <1>11
<1>13. DOMAIN T!Picked(s, places) = 1..Cardinality(places)
  BY <1>8
<1>14. T!ToSet(T!Picked(s, places)) = {T!Picked(s, places)[i] : i \in 1..Cardinality(places)}
  BY <1>13 DEF T!ToSet
<1>15. {T!Picked(s, places)[i] : i \in 1..Cardinality(places)} = {s[k] : k \in places}
  BY <1>8
<1> QED
  BY <1>12, <1>14, <1>15

LEMMA ByTimeIs ==
  ASSUME NEW X, NEW s \in Seq(X), \A k \in DOMAIN s : s[k].at \in Nat
  PROVE  /\ T!ByTime(s) \in Seq(X) /\ Len(T!ByTime(s)) = Len(s)
         /\ T!ToSet(T!ByTime(s)) = T!ToSet(s)
         /\ \A i, j \in 1..Len(s) : i <= j => T!ByTime(s)[i].at <= T!ByTime(s)[j].at
<1> DEFINE places == DOMAIN s
           before == [k \in places |-> {j \in places : s[j].at < s[k].at \/ (s[j].at = s[k].at /\ j <= k)}]
           rank == [k \in places |-> Cardinality(before[k])]
<1>1. IsFiniteSet(places) /\ Cardinality(places) = Len(s) /\ Len(s) \in Nat /\ places = 1..Len(s)
      /\ \A k \in places : s[k] \in X /\ s[k].at \in Nat
  BY UpTo
<1>2. before \in [places -> SUBSET places] /\ \A k \in places : k \in before[k]
  BY <1>1
<1>3. ASSUME NEW j \in places, NEW k \in places
      PROVE  /\ \/ j = k \/ (before[j] \subseteq before[k] /\ k \notin before[j])
                \/ (before[k] \subseteq before[j] /\ j \notin before[k])
             /\ k \notin before[j] => s[j].at <= s[k].at
  <2>1. j \in Nat /\ k \in Nat /\ s[j].at \in Nat /\ s[k].at \in Nat
        /\ \A i \in places : i \in Nat /\ s[i].at \in Nat
    BY <1>1
  <2> QED
    BY <2>1
<1>4. T!ByTime(s) = T!Arranged(s, rank)
  BY RanksCounted DEF T!ByTime
<1>0. T!ToSet(s) = {s[k] : k \in places}
  BY DEF T!ToSet
<1>f. IsFiniteSet(places)
  BY <1>1
<1>r. rank = [k \in places |-> Cardinality(before[k])]
  OBVIOUS
<1> HIDE DEF before, places, rank
<1>5. /\ rank \in [places -> 1..Cardinality(places)]
      /\ \A j, k \in places : rank[j] = rank[k] => j = k
      /\ \A j, k \in places : rank[j] <= rank[k] => j = k \/ k \notin before[j]
  <2>1. \A j, k \in places : j = k \/ (before[j] \subseteq before[k] /\ k \notin before[j])
                              \/ (before[k] \subseteq before[j] /\ j \notin before[k])
    BY <1>3
  <2> QED
    BY ONLY <1>f, <1>2, <1>r, <2>1, Ranked
<1>6. \A j, k \in places : rank[j] <= rank[k] => s[j].at <= s[k].at
  <2>1. \A k \in places : s[k].at <= s[k].at
    BY <1>1
  <2> QED
    BY <1>3, <1>5, <2>1
<1>7. /\ DOMAIN T!Arranged(s, rank) = 1..Cardinality(places)
      /\ \A i \in 1..Cardinality(places) :
           \E k \in places : rank[k] = i /\ T!Arranged(s, rank)[i] = s[k]
      /\ \A k \in places : rank[k] \in 1..Cardinality(places) /\ T!Arranged(s, rank)[rank[k]] = s[k]
  BY ONLY <1>f, <1>5, ArrangedIs
<1>8. /\ DOMAIN T!ByTime(s) = 1..Len(s)
      /\ \A i \in 1..Len(s) : \E k \in places : rank[k] = i /\ T!ByTime(s)[i] = s[k]
      /\ \A k \in places : \E i \in 1..Len(s) : T!ByTime(s)[i] = s[k]
  BY <1>1, <1>4, <1>7
<1>9. T!ByTime(s) = [i \in 1..Len(s) |-> T!ByTime(s)[i]]
  BY <1>8 DEF T!ByTime, T!Arranged
<1>10. \A i \in 1..Len(s) : T!ByTime(s)[i] \in X
  BY <1>1, <1>8
<1>11. T!ByTime(s) \in [1..Len(s) -> X]
  BY <1>9, <1>10
<1>12. T!ByTime(s) \in Seq(X) /\ Len(T!ByTime(s)) = Len(s)
  BY <1>1, <1>11
<1>13. ASSUME NEW i \in 1..Len(s), NEW j \in 1..Len(s), i <= j
       PROVE  T!ByTime(s)[i].at <= T!ByTime(s)[j].at
  <2>1. PICK k \in places : rank[k] = i /\ T!ByTime(s)[i] = s[k]
    BY <1>8
  <2>2. PICK l \in places : rank[l] = j /\ T!ByTime(s)[j] = s[l]
    BY <1>8
  <2> QED
    BY <1>6, <1>13, <2>1, <2>2
<1>14. T!ToSet(T!ByTime(s)) = T!ToSet(s)
  <2>1. DOMAIN T!ByTime(s) = 1..Len(s)
    BY <1>8
  <2>2. T!ToSet(T!ByTime(s)) = {T!ByTime(s)[i] : i \in 1..Len(s)}
    BY <2>1 DEF T!ToSet
  <2>3. {T!ByTime(s)[i] : i \in 1..Len(s)} = {s[k] : k \in places}
    BY <1>8
  <2> QED
    BY <1>0, <2>2, <2>3
<1> QED
  BY <1>12, <1>13, <1>14

\* The sum of rates up to a position, as it is added up.
LEMMA SumOf ==
  ASSUME NEW s, Len(s) \in Nat, \A k \in 1..Len(s) : s[k].rate \in Int
  PROVE  \E g : /\ T!Sum1(s) = g[Len(s)] /\ g[0] = 0
                /\ \A k \in 1..Len(s) : g[k] = g[k - 1] + s[k].rate
<1> DEFINE Adds(g, n) == g = [k \in 0..n |-> IF k = 0 THEN 0 ELSE g[k - 1] + s[k].rate]
           Q == {n \in Nat : \E g : Adds(g, n)}
<1>1. 0 \in Q
  <2> DEFINE g == [k \in 0..0 |-> 0]
  <2>1. \A k \in 0..0 : k = 0
    OBVIOUS
  <2>2. Adds(g, 0)
    BY <2>1
  <2> QED
    BY <2>2
<1>2. ASSUME NEW n \in Nat, n \in Q PROVE n + 1 \in Q
  <2>1. PICK g : Adds(g, n)
    BY <1>2
  <2> DEFINE h == [k \in 0..(n + 1) |-> IF k = n + 1 THEN g[n] + s[n + 1].rate ELSE g[k]]
  <2>2. \A k \in 0..n : h[k] = g[k]
    OBVIOUS
  <2>3. \A k \in 0..n : g[k] = IF k = 0 THEN 0 ELSE g[k - 1] + s[k].rate
    BY <2>1, Zenon
  <2>4. ASSUME NEW k \in 0..(n + 1)
        PROVE  h[k] = IF k = 0 THEN 0 ELSE h[k - 1] + s[k].rate
    <3>1. CASE k = n + 1
      BY <2>2, <3>1
    <3>2. CASE k # n + 1
      <4>1. k \in 0..n /\ h[k] = g[k] /\ (k # 0 => k - 1 \in 0..n)
        BY <2>2, <3>2
      <4> HIDE DEF h
      <4> QED
        BY <2>2, <2>3, <4>1
    <3> QED
      BY <3>1, <3>2
  <2>5. Adds(h, n + 1)
    <3>1. h = [k \in 0..(n + 1) |-> h[k]]
      OBVIOUS
    <3> HIDE DEF h
    <3> QED
      BY <2>4, <3>1
  <2>6. n + 1 \in Nat
    OBVIOUS
  <2> HIDE DEF h
  <2> QED
    BY <2>5, <2>6, Zenon
<1> HIDE DEF Q
<1>3. Len(s) \in Q
  BY <1>1, <1>2, Induction
<1> DEFINE G == CHOOSE g : Adds(g, Len(s))
<1>4. Adds(G, Len(s))
  BY <1>3 DEF Q
<1>5. T!Sum1(s) = G[Len(s)]
  BY DEF T!Sum1
<1> HIDE DEF G
<1>6. G[0] = 0 /\ \A k \in 1..Len(s) : G[k] = G[k - 1] + s[k].rate
  BY <1>4
<1> QED
  BY <1>5, <1>6

LEMMA Distributive == \A m \in Int : \A n \in Nat : m * (n + 1) = m * n + m /\ m * n \in Int
OBVIOUS

\* A sum is between those of so many smallest and largest values.
LEMMA SumBetween ==
  ASSUME NEW s, Len(s) \in Nat, NEW m \in Int,
         \A k \in 1..Len(s) : s[k].rate \in Int
  PROVE  /\ T!Sum1(s) \in Int
         /\ (\A k \in 1..Len(s) : s[k].rate <= m) => T!Sum1(s) <= m * Len(s)
         /\ (\A k \in 1..Len(s) : s[k].rate >= m) => T!Sum1(s) >= m * Len(s)
<1>1. PICK g : /\ T!Sum1(s) = g[Len(s)] /\ g[0] = 0
               /\ \A k \in 1..Len(s) : g[k] = g[k - 1] + s[k].rate
  BY SumOf
<1> DEFINE Low == \A k \in 1..Len(s) : s[k].rate >= m
           High == \A k \in 1..Len(s) : s[k].rate <= m
           Q == {n \in Nat : n <= Len(s) =>
                   g[n] \in Int /\ (High => g[n] <= m * n) /\ (Low => g[n] >= m * n)}
<1>2. 0 \in Q
  BY <1>1
<1>3. ASSUME NEW n \in Nat, n \in Q PROVE n + 1 \in Q
  <2> SUFFICES ASSUME n + 1 <= Len(s)
               PROVE  /\ g[n + 1] \in Int
                      /\ High => g[n + 1] <= m * (n + 1)
                      /\ Low => g[n + 1] >= m * (n + 1)
    OBVIOUS
  <2>1. n + 1 \in 1..Len(s) /\ n <= Len(s) /\ (n + 1) - 1 = n
    OBVIOUS
  <2>2. g[n + 1] = g[n] + s[n + 1].rate /\ s[n + 1].rate \in Int
    BY <1>1, <2>1
  <2>3. g[n] \in Int /\ (High => g[n] <= m * n) /\ (Low => g[n] >= m * n)
    BY <1>3, <2>1
  <2>4. m * (n + 1) = m * n + m /\ m * n \in Int
    BY Distributive, Zenon
  <2>5. (High => s[n + 1].rate <= m) /\ (Low => s[n + 1].rate >= m)
    BY <2>1
  <2> HIDE DEF High, Low
  <2> QED
    BY <2>2, <2>3, <2>4, <2>5
<1> HIDE DEF Q
<1>4. Len(s) \in Q
  BY <1>2, <1>3, Induction
<1> QED
  BY <1>1, <1>4 DEF Q

LEMMA DivIs ==
  ASSUME NEW a \in Int, NEW b \in Int, b > 0
  PROVE  /\ a \div b \in Int
         /\ b * (a \div b) <= a /\ a < b * (a \div b) + b
<1>1. a % b = a - b * (a \div b)
  OBVIOUS
<1>2. a % b \in 0..(b - 1) /\ a \div b \in Int /\ b * (a \div b) \in Int
  OBVIOUS
<1> QED
  BY <1>1, <1>2

LEMMA RoundIs ==
  ASSUME NEW n \in Int, NEW d \in Int, d > 0
  PROVE  /\ T!Round(n, d) \in Int
         /\ 2 * T!Round(n, d) * d <= 2 * n + d
         /\ 2 * n + d < 2 * T!Round(n, d) * d + 2 * d
<1> DEFINE r == T!Round(n, d)
<1>1. r \in Int /\ (2 * d) * r <= 2 * n + d /\ 2 * n + d < (2 * d) * r + (2 * d)
  BY DivIs DEF T!Round
<1>2. (2 * d) * r = 2 * r * d
  BY <1>1
<1> QED
  BY <1>1, <1>2, Zenon

LEMMA RateIs ==
  ASSUME NEW p, NEW h, {p.at, p.bytes, h.at, h.bytes} \subseteq Nat
  PROVE  LET r == T!Rate(p, h) IN
         \/ r = T!Unknown
         \/ /\ p.at < h.at /\ p.bytes <= h.bytes /\ r \in Nat
            /\ 2 * r * (h.at - p.at) <= 2 * (8 * (h.bytes - p.bytes)) + (h.at - p.at)
            /\ 2 * (8 * (h.bytes - p.bytes)) <= 2 * r * (h.at - p.at) + (h.at - p.at)
<1> SUFFICES ASSUME p.at < h.at, p.bytes <= h.bytes
             PROVE  LET r == T!Rate(p, h) IN
                    /\ r \in Nat
                    /\ 2 * r * (h.at - p.at) <= 2 * (8 * (h.bytes - p.bytes)) + (h.at - p.at)
                    /\ 2 * (8 * (h.bytes - p.bytes)) <= 2 * r * (h.at - p.at) + (h.at - p.at)
  BY DEF T!Rate
<1> DEFINE d == h.at - p.at
           n == 8 * (h.bytes - p.bytes)
           r == T!Rate(p, h)
<1>1. d \in Nat /\ d > 0 /\ n \in Nat
  OBVIOUS
<1>2. r = T!Round(n, d)
  BY DEF T!Rate
<1> HIDE DEF r, n, d
<1>3. r \in Int /\ 2 * r * d <= 2 * n + d /\ 2 * n + d < 2 * r * d + 2 * d
  BY <1>1, <1>2, RoundIs
<1>4. r >= 0
  <2> SUFFICES ASSUME r <= -1 PROVE FALSE
    BY <1>3
  <2>1. r + 1 <= 0 /\ r + 1 \in Int
    BY <1>3
  <2>2. (r + 1) * d <= 0
    BY <1>1, <2>1
  <2>3. (r + 1) * d = r * d + d /\ r * d \in Int /\ 2 * r * d = 2 * (r * d)
    BY <1>1, <1>3
  <2> QED
    BY <1>1, <1>3, <2>2, <2>3
<1>5. 2 * r * d \in Int
  BY <1>1, <1>3
<1>6. r \in Nat /\ 2 * r * d <= 2 * n + d /\ 2 * n <= 2 * r * d + d
  BY <1>1, <1>3, <1>4, <1>5
<1> QED
  BY <1>6 DEF r, n, d

LEMMA Products ==
  ASSUME NEW a \in Int, NEW b \in Int
  PROVE  /\ a * b \in Int /\ 2 * a * b = 2 * (a * b)
         /\ (a - 1) * b = a * b - b /\ (a + 1) * b = a * b + b
OBVIOUS

\* The average of some rates is not above all nor below all of them.
LEMMA AverageIs ==
  ASSUME NEW X, NEW s \in Seq(X), \A k \in DOMAIN s : s[k].rate \in Int
  PROVE  LET known == {r \in T!ToSet(s) : r.rate # T!Unknown}
         IN IF known = {} THEN T!Average(s) = T!Unknown
            ELSE /\ T!Average(s) \in Int
                 /\ \E r \in known : T!Average(s) <= r.rate
                 /\ \E r \in known : T!Average(s) >= r.rate
<1> DEFINE which == {k \in DOMAIN s : s[k].rate # T!Unknown}
           all == T!Known(s)
           n == Cardinality(which)
           known == {r \in T!ToSet(s) : r.rate # T!Unknown}
           v == T!Average(s)
<1>1. IsFiniteSet(which) /\ n \in Nat /\ (n = 0 <=> which = {})
  BY UpTo, FS_Subset, FS_CardinalityType, FS_EmptySet
<1>2. all = T!Picked(s, which)
  BY DEF T!Known
<1>3. all \in Seq(X) /\ Len(all) = n /\ T!ToSet(all) = {s[k] : k \in which}
  BY <1>2, PickedIs
<1>4. known = {s[k] : k \in which}
  BY DEF T!ToSet
<1>5. v = IF all = <<>> THEN T!Unknown ELSE T!Round(T!Sum1(all), Len(all))
  BY DEF T!Average
<1>6. \A r \in known : r.rate \in Int
  BY <1>4
<1>7. \A i \in 1..n : all[i] \in known
  <2>1. DOMAIN all = 1..n
    BY <1>3
  <2>2. \A i \in 1..n : all[i] \in T!ToSet(all)
    BY <2>1 DEF T!ToSet
  <2> HIDE DEF all, known, n
  <2> QED
    BY <1>3, <1>4, <2>2
<1> HIDE DEF which, all, n, known, v
<1>8. CASE known = {}
  <2>1. n = 0
    BY <1>1, <1>4, <1>8
  <2>2. all = <<>>
    BY <1>3, <2>1
  <2> QED
    BY <1>5, <1>8, <2>2 DEF known, v
<1>9. CASE known # {}
  <2>1. n > 0 /\ all # <<>>
    BY <1>1, <1>3, <1>4, <1>9
  <2>2. Len(all) = n /\ Len(all) \in Nat /\ \A i \in 1..Len(all) : all[i].rate \in Int
    BY <1>1, <1>3, <1>6, <1>7
  <2>3. T!Sum1(all) \in Int
    BY <2>2, SumBetween
  <2>4. v = T!Round(T!Sum1(all), n)
    BY <1>5, <2>1, <2>2
  <2> DEFINE total == T!Sum1(all)
  <2>9. total \in Int /\ v = T!Round(total, n)
    BY <2>3, <2>4
  <2> HIDE DEF total
  <2>5. v \in Int /\ 2 * v * n <= 2 * total + n /\ 2 * total + n < 2 * v * n + 2 * n
    BY <1>1, <2>1, <2>9, RoundIs
  <2> DEFINE p == v * n
  <2>6. p \in Int /\ 2 * v * n = 2 * p /\ (v - 1) * n = p - n /\ (v + 1) * n = p + n
    BY <1>1, <2>5, Products
  <2> HIDE DEF p
  <2>10. 2 * p <= 2 * total + n /\ 2 * total + n < 2 * p + 2 * n
    BY <2>5, <2>6
  <2>7. \E r \in known : v <= r.rate
    <3> SUFFICES ASSUME \A r \in known : ~ (v <= r.rate) PROVE FALSE
      OBVIOUS
    <3>1. \A i \in 1..Len(all) : all[i].rate <= v - 1
      BY <1>6, <1>7, <2>2, <2>5
    <3>2. v - 1 \in Int
      BY <2>5
    <3>3. total <= (v - 1) * Len(all)
      BY <2>2, <3>1, <3>2, SumBetween DEF total
    <3>4. total <= p - n
      BY <2>2, <2>6, <3>3
    <3> QED
      BY <1>1, <2>1, <2>6, <2>9, <2>10, <3>4
  <2>8. \E r \in known : v >= r.rate
    <3> SUFFICES ASSUME \A r \in known : ~ (v >= r.rate) PROVE FALSE
      OBVIOUS
    <3>1. \A i \in 1..Len(all) : all[i].rate >= v + 1
      BY <1>6, <1>7, <2>2, <2>5
    <3>2. v + 1 \in Int
      BY <2>5
    <3>3. total >= (v + 1) * Len(all)
      BY <2>2, <3>1, <3>2, SumBetween DEF total
    <3>4. total >= p + n
      BY <2>2, <2>6, <3>3
    <3> QED
      BY <1>1, <2>1, <2>6, <2>9, <2>10, <3>4
  <2> QED
    BY <1>9, <2>5, <2>7, <2>8 DEF known, v
<1> QED
  BY <1>8, <1>9

LEMMA ReportFields ==
  /\ \A h \in T!Arrived : {h.at, h.sum, h.bytes, h.boot} \subseteq Nat /\ h.again \in BOOLEAN
  /\ \A h \in T!Metric : /\ {h.at, h.sum, h.bytes, h.boot} \subseteq Nat /\ h.again \in BOOLEAN
                         /\ h.rate \in Int /\ h.after \in Seq(T!Arrived)
BY DEF T!Arrived, T!Metric

\* Of two reports that were sent at once, the rate tells what was carried between them.
LEMMA RateIsTrue ==
  ASSUME NEW p, NEW h, NEW entry,
         {p.at, p.sum, p.bytes, p.boot, h.at, h.sum, h.bytes, h.boot} \subseteq Nat,
         T!InTime(p, h), ~p.again, ~h.again,
         entry.at = h.at, entry.sum = h.sum, entry.after[1] = p,
         T!Rate(p, h) # T!Unknown
  PROVE  /\ T!Rate(p, h) \in Nat /\ p.at < h.at
         /\ T!AtMost(T!Rate(p, h), entry)
         /\ h.boot = p.boot => T!AtLeast(T!Rate(p, h), entry)
<1> DEFINE r == T!Rate(p, h)
           d == h.at - p.at
           n == 8 * (h.bytes - p.bytes)
           c == 8 * (h.sum - p.sum)
           x == 2 * r * d
<1>1. /\ p.at < h.at /\ p.bytes <= h.bytes /\ r \in Nat
      /\ x <= 2 * n + d /\ 2 * n <= x + d
  BY RateIs
<1>2. d \in Nat /\ n \in Nat /\ c \in Int
  BY <1>1
<1>3. x \in Int
  BY <1>1, <1>2
<1>4. n <= c /\ (h.boot = p.boot => n = c)
  <2>1. p.boot <= h.boot
    BY <1>1 DEF T!InTime
  <2>2. CASE p.boot = h.boot
    BY <2>2 DEF T!InTime
  <2>3. CASE p.boot < h.boot
    BY <2>3 DEF T!InTime
  <2> QED
    BY <2>1, <2>2, <2>3
<1>5. T!AtMost(r, entry) <=> x <= 2 * c + d
  BY DEF T!AtMost, T!Carried
<1>6. T!AtLeast(r, entry) <=> x + d >= 2 * c
  BY DEF T!AtLeast, T!Carried
<1> HIDE DEF n, c, d, x
<1> QED
  BY <1>1, <1>2, <1>3, <1>4, <1>5, <1>6

\* A point that a chart shows is true, if that holds of the row it stands for.
LEMMA LessCarried ==
  ASSUME NEW entry, NEW v \in Int, NEW r \in Int, v <= r,
         {entry.at, entry.sum, entry.after[1].at, entry.after[1].sum} \subseteq Nat,
         entry.after[1].at <= entry.at, T!AtMost(r, entry)
  PROVE  T!AtMost(v, entry)
<1> DEFINE d == entry.at - entry.after[1].at
           c == T!Carried(entry)
           x == 2 * r * d
           y == 2 * v * d
<1>1. d \in Nat /\ c \in Int
  BY DEF T!Carried
<1>2. x \in Int /\ y \in Int /\ y <= x
  <2>1. r - v \in Nat
    OBVIOUS
  <2>2. (r - v) * d \in Nat
    BY <1>1, <2>1
  <2>3. x = 2 * (r * d) /\ y = 2 * (v * d) /\ r * d \in Int /\ v * d \in Int
        /\ (r - v) * d = r * d - v * d
    BY <1>1
  <2> QED
    BY <2>2, <2>3
<1>3. x <= 2 * c + d
  BY DEF T!AtMost
<1>4. T!AtMost(v, entry) <=> y <= 2 * c + d
  BY DEF T!AtMost
<1> HIDE DEF c, d, x, y
<1> QED
  BY <1>1, <1>2, <1>3, <1>4

HistoryRow(entry) ==
  /\ entry.rate \in Int
  /\ entry.rate # T!Unknown /\ T!Plain(entry) =>
       \/ entry.after = <<>>
       \/ /\ {entry.at, entry.sum, entry.after[1].at, entry.after[1].sum} \subseteq Nat
          /\ entry.after[1].at <= entry.at /\ T!AtMost(entry.rate, entry)

HistoryPoint(point) ==
  LET known == {r \in T!ToSet(point.rows) : r.rate # T!Unknown}
  IN IF known = {} THEN point.rate = T!Unknown
     ELSE /\ \E r \in known : point.rate <= r.rate
          /\ \E r \in known : point.rate >= r.rate
          /\ (\A r \in known : T!Plain(r)) =>
               \E r \in known : r.after = <<>> \/ T!AtMost(point.rate, r)

LEMMA PointIsTrue ==
  ASSUME NEW X, NEW entries \in Seq(X), \A k \in DOMAIN entries : HistoryRow(entries[k]),
         NEW point, point.rows = entries, point.rate = T!Average(entries)
  PROVE  HistoryPoint(point)
<1> DEFINE known == {r \in T!ToSet(entries) : r.rate # T!Unknown}
           v == T!Average(entries)
<1>1. IF known = {} THEN v = T!Unknown
      ELSE v \in Int /\ (\E r \in known : v <= r.rate) /\ \E r \in known : v >= r.rate
  BY AverageIs DEF HistoryRow
<1>2. \A r \in known : HistoryRow(r) /\ r.rate # T!Unknown
  BY DEF T!ToSet
<1> HIDE DEF v
<1>3. ASSUME known # {}, \A r \in known : T!Plain(r)
      PROVE  \E r \in known : r.after = <<>> \/ T!AtMost(v, r)
  <2>1. PICK r \in known : v <= r.rate
    BY <1>1, <1>3
  <2>2. v \in Int /\ HistoryRow(r) /\ r.rate # T!Unknown /\ T!Plain(r)
    BY <1>1, <1>2, <1>3
  <2> HIDE DEF known
  <2> QED
    BY <2>1, <2>2, LessCarried DEF HistoryRow
<1> HIDE DEF known
<1> QED
  BY <1>1, <1>3 DEF HistoryPoint, known, v

LEMMA MetricsTrue ==
  ASSUME T!HistoryInv, NEW k \in DOMAIN metrics
  PROVE  /\ HistoryRow(metrics[k])
         /\ metrics[k].rate # T!Unknown /\ T!Plain(metrics[k]) =>
              /\ metrics[k].rate >= 0 /\ T!AtMost(metrics[k].rate, metrics[k])
              /\ metrics[k].boot = metrics[k].after[1].boot
                   => T!AtLeast(metrics[k].rate, metrics[k])
<1> DEFINE m == metrics[k]
           p == m.after[1]
<1>1. m \in T!Metric
  BY DEF T!HistoryInv, T!HistoryTypeOK
<1>2. \/ m.after = <<>> /\ m.rate = T!Unknown
      \/ Len(m.after) = 1 /\ T!InTime(p, m) /\ m.rate = T!Rate(p, m)
  BY DEF T!HistoryInv, T!RatesComputed
<1> HIDE DEF m
<1>3. {m.at, m.sum, m.bytes, m.boot} \subseteq Nat /\ m.rate \in Int /\ m.after \in Seq(T!Arrived)
  BY <1>1, ReportFields
<1>4. CASE m.rate = T!Unknown \/ ~T!Plain(m)
  BY <1>3, <1>4 DEF HistoryRow, m
<1>5. CASE m.rate # T!Unknown /\ T!Plain(m)
  <2>1. m.after # <<>> /\ Len(m.after) = 1 /\ T!InTime(p, m) /\ m.rate = T!Rate(p, m)
    BY <1>2, <1>5
  <2>2. p \in T!Arrived
    BY <1>3, <2>1
  <2>3. {p.at, p.sum, p.bytes, p.boot} \subseteq Nat
    BY <2>2, ReportFields
  <2>4. ~p.again /\ ~m.again
    BY <1>5, <2>1 DEF T!Plain
  <2>5. /\ m.rate \in Nat /\ p.at < m.at /\ T!AtMost(m.rate, m)
        /\ m.boot = p.boot => T!AtLeast(m.rate, m)
    BY <1>3, <1>5, <2>1, <2>3, <2>4, RateIsTrue
  <2> QED
    BY <1>3, <2>1, <2>3, <2>5 DEF HistoryRow, m
<1> QED
  BY <1>4, <1>5

\* A row whose rate is the one that is shown.
LEMMA OnePoint ==
  ASSUME NEW entry, NEW point, HistoryRow(entry), point.rows = <<entry>>, point.rate = entry.rate
  PROVE  HistoryPoint(point)
<1>1. T!ToSet(<<entry>>) = {entry}
  <2>1. DOMAIN <<entry>> = {1} /\ <<entry>>[1] = entry
    OBVIOUS
  <2> QED
    BY <2>1 DEF T!ToSet
<1> QED
  BY <1>1 DEF HistoryPoint, HistoryRow

LEMMA RawTrue ==
  ASSUME T!HistoryInv, NEW k \in DOMAIN T!FromRaw
  PROVE  HistoryPoint(T!FromRaw[k])
<1> DEFINE rate == IF k = 1 THEN 0 ELSE T!Max({0, T!Rate(raw[k - 1], raw[k])})
           after == IF k = 1 THEN <<>> ELSE <<raw[k - 1]>>
           entry == T!Row(raw[k], rate, after)
<1>1. /\ k \in DOMAIN raw
      /\ T!FromRaw[k].rate = rate /\ T!FromRaw[k].rows = <<entry>>
  BY DEF T!FromRaw
<1>2. /\ entry.rate = rate /\ entry.after = after /\ entry.at = raw[k].at /\ entry.sum = raw[k].sum
      /\ entry.again = raw[k].again
  BY DEF T!Row
<1>3. raw \in Seq(T!Arrived) /\ k \in 1..Len(raw)
  BY <1>1 DEF T!HistoryInv, T!HistoryTypeOK
<1> HIDE DEF entry
<1>4. CASE k = 1
  BY <1>1, <1>2, <1>4, OnePoint DEF HistoryRow
<1>5. CASE k # 1
  <2> DEFINE p == raw[k - 1]
             h == raw[k]
             v == T!Rate(p, h)
  <2>1. k - 1 \in DOMAIN raw /\ p \in T!Arrived /\ h \in T!Arrived
    BY <1>3, <1>5
  <2>2. {p.at, p.sum, p.bytes, p.boot, h.at, h.sum, h.bytes, h.boot} \subseteq Nat
    BY <2>1, ReportFields
  <2>3. p.at <= h.at
    BY <1>1, <1>3, <2>1 DEF T!HistoryInv, T!RawInOrder
  <2>4. p \in T!Stored /\ h \in T!Stored
    BY <1>1, <2>1 DEF T!Stored, T!ToSet
  <2>5. T!InTime(p, h)
    BY <2>4 DEF T!HistoryInv, T!ReportsAgree
  <2>6. v = T!Unknown \/ v \in Nat
    BY <2>2, RateIs
  <2>7. rate = IF v = T!Unknown THEN 0 ELSE v
    BY <1>5, <2>6 DEF T!Max, T!Unknown
  <2>8. entry.after = <<p>> /\ entry.after[1] = p /\ entry.after # <<>>
    BY <1>2, <1>5
  <2> HIDE DEF rate, p, h, v
  <2>9. CASE v = T!Unknown
    <3>1. p.sum <= h.sum /\ entry.at = h.at /\ entry.sum = h.sum
      BY <1>2, <2>3, <2>5 DEF T!InTime, h
    <3>3. 2 * 0 * (h.at - p.at) = 0 /\ 0 <= 2 * (8 * (h.sum - p.sum)) + (h.at - p.at)
      BY <2>2, <2>3, <3>1
    <3>4. T!AtMost(0, entry)
      BY <2>8, <3>1, <3>3 DEF T!AtMost, T!Carried
    <3> QED
      BY <1>1, <1>2, <2>2, <2>3, <2>7, <2>8, <2>9, <3>4, OnePoint DEF HistoryRow, h
  <2>10. CASE v # T!Unknown
    <3>1. T!Plain(entry) => ~p.again /\ ~h.again
      <4>1. entry.again = h.again
        BY <1>2 DEF h
      <4> QED
        BY <2>8, <4>1, Zenon DEF T!Plain
    <3>2. T!Plain(entry) => T!AtMost(v, entry)
      BY <1>2, <2>2, <2>5, <2>8, <2>10, <3>1, RateIsTrue DEF h, v
    <3> QED
      BY <1>1, <1>2, <2>2, <2>3, <2>6, <2>7, <2>8, <2>10, <3>2, OnePoint DEF HistoryRow, h
  <2> QED
    BY <2>9, <2>10
<1> QED
  BY <1>4, <1>5

LEMMA MaxIs ==
  /\ \A a, b \in Int : T!Max({a, b}) = IF a >= b THEN a ELSE b
  /\ \A a, b \in Int : T!Min({a, b}) = IF a >= b THEN b ELSE a
<1>1. ASSUME NEW a \in Int, NEW b \in Int PROVE T!Max({a, b}) = IF a >= b THEN a ELSE b
  BY DEF T!Max
<1>2. ASSUME NEW a \in Int, NEW b \in Int PROVE T!Min({a, b}) = IF a >= b THEN b ELSE a
  BY DEF T!Min
<1> QED
  BY <1>1, <1>2

LEMMA MaxOfThree ==
  ASSUME NEW a \in Int, NEW b \in Int, NEW c \in Int, NEW m, m = T!Max({a, b, c})
  PROVE  m \in Int /\ m >= a /\ m >= b /\ m >= c
<1>1. \E x \in {a, b, c} : \A y \in {a, b, c} : x >= y
  OBVIOUS
<1> QED
  BY <1>1 DEF T!Max

\* The rows are divided among no more points than are wanted, and none is empty.
LEMMA BucketsAre ==
  ASSUME NEW X, NEW s \in Seq(X), s # <<>>
  PROVE  \E c \in Nat :
           /\ c <= Target /\ DOMAIN T!Buckets(s) = 1..c
           /\ \A k \in 1..c : /\ T!Buckets(s)[k] \in Seq(X)
                              /\ \A i \in DOMAIN T!Buckets(s)[k] :
                                   \E j \in DOMAIN s : T!Buckets(s)[k][i] = s[j]
<1> DEFINE n == Len(s)
           q == (n + Target - 1) \div Target
           size == T!Max({1, q})
           c == (n + size - 1) \div size
<1>1. n \in Nat /\ n > 0 /\ DOMAIN s = 1..n /\ Target \in Nat /\ Target > 0
  BY HistoryConstants
<1> HIDE DEF n
<1>2. q \in Int /\ Target * q <= n + Target - 1 /\ n + Target - 1 < Target * q + Target
  BY <1>1, DivIs
<1> HIDE DEF q
<1>3. size \in Int /\ size >= 1 /\ size >= q /\ (size = 1 \/ size = q)
  BY <1>2, MaxIs
<1>4. n <= Target * size
  <2>1. n <= Target * q /\ Target * q \in Int
    BY <1>1, <1>2
  <2>2. (size - q) * Target >= 0
    BY <1>1, <1>2, <1>3
  <2>3. (size - q) * Target = Target * size - Target * q /\ Target * size \in Int
    BY <1>1, <1>2, <1>3
  <2> QED
    BY <1>1, <2>1, <2>2, <2>3
<1> HIDE DEF size
<1>5. c \in Int /\ size * c <= n + size - 1 /\ n + size - 1 < size * c + size
  BY <1>1, <1>3, DivIs
<1>6. T!Buckets(s) = [k \in 1..c |-> SubSeq(s, (k - 1) * size + 1, T!Min({k * size, n}))]
  BY DEF T!Buckets, n, q, size
<1> HIDE DEF c
<1>7. c <= Target
  <2> SUFFICES ASSUME c >= Target + 1 PROVE FALSE
    BY <1>1, <1>5
  <2>1. (c - (Target + 1)) * size >= 0
    BY <1>1, <1>3, <1>5
  <2>2. /\ (c - (Target + 1)) * size = size * c - (Target * size + size)
        /\ size * c \in Int /\ Target * size \in Int
    BY <1>1, <1>3, <1>5
  <2> QED
    BY <1>1, <1>3, <1>4, <1>5, <2>1, <2>2
<1>8. c >= 0
  <2> SUFFICES ASSUME c <= -1 PROVE FALSE
    BY <1>5
  <2>1. (c + 1) * size <= 0
    BY <1>3, <1>5
  <2>2. (c + 1) * size = size * c + size /\ size * c \in Int
    BY <1>3, <1>5
  <2> QED
    BY <1>1, <1>3, <1>5, <2>1, <2>2
<1>9. ASSUME NEW k \in 1..c
      PROVE  /\ T!Buckets(s)[k] \in Seq(X)
             /\ \A i \in DOMAIN T!Buckets(s)[k] : \E j \in DOMAIN s : T!Buckets(s)[k][i] = s[j]
  <2> DEFINE a == (k - 1) * size + 1
             b == T!Min({k * size, n})
  <2>1. k - 1 >= 0 /\ (k - 1) * size >= 0 /\ a \in Int /\ a >= 1
    BY <1>3, <1>5
  <2>2. k * size \in Int /\ b \in Int /\ b <= n
    BY <1>1, <1>3, <1>5, MaxIs
  <2>3. T!Buckets(s)[k] = SubSeq(s, a, b)
    BY <1>6
  <2> HIDE DEF a, b
  <2>4. \A i \in a..b : i \in 1..n /\ s[i] \in X
    BY <1>1, <2>1, <2>2
  <2>5. /\ SubSeq(s, a, b) \in Seq(X)
        /\ DOMAIN SubSeq(s, a, b) = 1..(b - a + 1)
        /\ \A i \in 1..(b - a + 1) : SubSeq(s, a, b)[i] = s[a + i - 1]
    BY <2>1, <2>2, <2>4
  <2>6. ASSUME NEW i \in 1..(b - a + 1) PROVE \E j \in DOMAIN s : SubSeq(s, a, b)[i] = s[j]
    BY <1>1, <2>1, <2>2, <2>4, <2>5
  <2> QED
    BY <2>3, <2>5, <2>6
<1>10. c \in Nat /\ DOMAIN T!Buckets(s) = 1..c
  BY <1>5, <1>6, <1>8
<1> QED
  BY <1>7, <1>9, <1>10, Zenon

LEMMA PickedFrom ==
  ASSUME NEW X, NEW s \in Seq(X), NEW places \in SUBSET DOMAIN s
  PROVE  \A k \in DOMAIN T!Picked(s, places) : \E j \in places : T!Picked(s, places)[k] = s[j]
<1>1. \A k \in DOMAIN T!Picked(s, places) : T!Picked(s, places)[k] \in T!ToSet(T!Picked(s, places))
  BY DEF T!ToSet
<1> QED
  BY <1>1, PickedIs

LEMMA ByTimeFrom ==
  ASSUME NEW X, NEW s \in Seq(X), \A k \in DOMAIN s : s[k].at \in Nat
  PROVE  \A k \in DOMAIN T!ByTime(s) : \E j \in DOMAIN s : T!ByTime(s)[k] = s[j]
<1>1. \A k \in DOMAIN T!ByTime(s) : T!ByTime(s)[k] \in T!ToSet(T!ByTime(s))
  BY DEF T!ToSet
<1>2. T!ToSet(T!ByTime(s)) = T!ToSet(s)
  BY ByTimeIs
<1> QED
  BY <1>1, <1>2 DEF T!ToSet

\* How long a list is that is given entry by entry.
LEMMA LengthOf ==
  ASSUME NEW n \in Nat, NEW f, f = [k \in 1..n |-> f[k]]
  PROVE  Len(f) = n
<1>1. f \in [1..n -> {f[k] : k \in 1..n}]
  BY Zenon
<1>2. f \in Seq({f[k] : k \in 1..n})
  BY <1>1
<1> QED
  BY <1>1, <1>2

LEMMA ChartTrue ==
  ASSUME T!HistoryInv
  PROVE  /\ Len(T!Chart) <= T!Max({Target, Len(raw), Len(metrics)})
         /\ \A k \in DOMAIN T!Chart : HistoryPoint(T!Chart[k])
<1> DEFINE sorted == T!ByTime(metrics)
           young == {k \in DOMAIN sorted : sorted[k].at >= minute - Window}
           recent == T!Picked(sorted, young)
           m == T!Max({Target, Len(raw), Len(metrics)})
<1>1. metrics \in Seq(T!Metric) /\ raw \in Seq(T!Arrived)
  BY DEF T!HistoryInv, T!HistoryTypeOK
<1>2. Target \in Int /\ Len(raw) \in Nat /\ Len(metrics) \in Nat
  BY <1>1, HistoryConstants
<1>3. m \in Int /\ m >= Target /\ m >= Len(raw) /\ m >= Len(metrics)
  <2> DEFINE l == Len(raw)
             n == Len(metrics)
  <2>1. m = T!Max({Target, l, n}) /\ Target \in Int /\ l \in Int /\ n \in Int
    BY <1>2
  <2> HIDE DEF m, l, n
  <2>2. m \in Int /\ m >= Target /\ m >= l /\ m >= n
    BY ONLY <2>1, MaxOfThree
  <2> QED
    BY <2>2 DEF l, n
<1>4. \A k \in DOMAIN metrics : metrics[k].at \in Nat /\ HistoryRow(metrics[k])
  BY <1>1, MetricsTrue, ReportFields
<1>5. sorted \in Seq(T!Metric) /\ Len(sorted) = Len(metrics)
  BY <1>1, <1>4, ByTimeIs
<1>6. \A k \in DOMAIN sorted : HistoryRow(sorted[k])
  BY <1>1, <1>4, ByTimeFrom
<1>7. recent = T!Since(T!ByTime(metrics), minute - Window)
  BY DEF T!Since
<1>8. young \in SUBSET DOMAIN sorted
  OBVIOUS
<1> HIDE DEF sorted, young
<1>9. recent \in Seq(T!Metric)
  BY <1>5, <1>8, PickedIs
<1>10. \A k \in DOMAIN recent : HistoryRow(recent[k])
  BY <1>5, <1>6, <1>8, PickedFrom
<1> HIDE DEF recent, m
<1>11. CASE recent # <<>>
  <2>1. T!Chart = T!Points(recent)
    BY <1>7, <1>11 DEF T!Chart
  <2>2. PICK c \in Nat :
          /\ c <= Target /\ DOMAIN T!Buckets(recent) = 1..c
          /\ \A k \in 1..c : /\ T!Buckets(recent)[k] \in Seq(T!Metric)
                             /\ \A i \in DOMAIN T!Buckets(recent)[k] :
                                  \E j \in DOMAIN recent : T!Buckets(recent)[k][i] = recent[j]
    BY <1>9, <1>11, BucketsAre
  <2>3. T!Chart = [k \in 1..c |-> [rate |-> T!Average(T!Buckets(recent)[k]),
                                   rows |-> T!Buckets(recent)[k]]]
    BY <2>1, <2>2 DEF T!Points
  <2>4. DOMAIN T!Chart = 1..c /\ \A k \in 1..c :
          T!Chart[k].rate = T!Average(T!Buckets(recent)[k]) /\ T!Chart[k].rows = T!Buckets(recent)[k]
    BY <2>3
  <2>5. T!Chart = [k \in 1..c |-> T!Chart[k]]
    BY <2>3
  <2>6. Len(T!Chart) = c
    BY <2>5, LengthOf
  <2>7. ASSUME NEW k \in 1..c PROVE HistoryPoint(T!Chart[k])
    <3>1. /\ T!Buckets(recent)[k] \in Seq(T!Metric)
          /\ \A i \in DOMAIN T!Buckets(recent)[k] : HistoryRow(T!Buckets(recent)[k][i])
      BY <1>10, <2>2
    <3> QED
      BY <2>4, <3>1, PointIsTrue
  <2> QED
    BY <1>2, <1>3, <2>2, <2>4, <2>6, <2>7 DEF m
<1>12. CASE recent = <<>> /\ metrics # <<>>
  <2>1. T!Chart = [k \in DOMAIN metrics |-> [rate |-> sorted[k].rate, rows |-> <<sorted[k]>>]]
    BY <1>7, <1>12 DEF T!Chart, sorted
  <2>2. DOMAIN metrics = 1..Len(metrics) /\ DOMAIN sorted = 1..Len(metrics)
    BY <1>1, <1>5
  <2>3. DOMAIN T!Chart = 1..Len(metrics) /\ \A k \in 1..Len(metrics) :
          T!Chart[k].rate = sorted[k].rate /\ T!Chart[k].rows = <<sorted[k]>>
    BY <2>1, <2>2
  <2>4. T!Chart = [k \in 1..Len(metrics) |-> T!Chart[k]]
    BY <2>1, <2>2
  <2>5. Len(T!Chart) = Len(metrics)
    BY <1>2, <2>4, LengthOf
  <2>6. ASSUME NEW k \in 1..Len(metrics) PROVE HistoryPoint(T!Chart[k])
    BY <1>6, <2>2, <2>3, OnePoint
  <2> QED
    BY <1>3, <2>3, <2>5, <2>6 DEF m
<1>13. CASE recent = <<>> /\ metrics = <<>>
  <2>1. T!Chart = T!FromRaw
    BY <1>7, <1>13 DEF T!Chart
  <2>2. DOMAIN T!FromRaw = 1..Len(raw) /\ T!FromRaw = [k \in 1..Len(raw) |-> T!FromRaw[k]]
    BY <1>1 DEF T!FromRaw
  <2>3. Len(T!FromRaw) = Len(raw)
    BY <1>2, <2>2, LengthOf
  <2> QED
    BY <1>3, <2>1, <2>3, RawTrue DEF m
<1> QED
  BY <1>11, <1>12, <1>13

LEMMA HistoryFollows == T!HistoryInv => T!RatesAreTrue
<1> SUFFICES ASSUME T!HistoryInv PROVE T!RatesAreTrue
  OBVIOUS
<1> QED
  BY MetricsTrue, ChartTrue, Zenon DEF T!RatesAreTrue, HistoryPoint

-----------------------------------------------------------------------------

\* What a report tells, wherever it is kept.
SameReport(x, y) ==
  /\ x.at = y.at /\ x.sum = y.sum /\ x.bytes = y.bytes
  /\ x.boot = y.boot /\ x.again = y.again

LEMMA StampIs ==
  /\ \A body \in T!Body : \A at, sum \in Nat :
       LET h == T!Stamped(body, at, sum) IN
       /\ h \in T!Arrived /\ h.at = at /\ h.sum = sum
       /\ h.bytes = body.bytes /\ h.boot = body.boot /\ h.again = body.again
  /\ \A m \in T!Metric : /\ T!Stamped(m, m.at, m.sum) \in T!Arrived
                         /\ SameReport(T!Stamped(m, m.at, m.sum), m)
BY DEF T!Body, T!Arrived, T!Metric, T!Stamped, SameReport

LEMMA RowIs ==
  ASSUME NEW h \in T!Arrived, NEW rate \in Int, NEW after \in Seq(T!Arrived)
  PROVE  /\ T!Row(h, rate, after) \in T!Metric
         /\ T!Row(h, rate, after).rate = rate /\ T!Row(h, rate, after).after = after
         /\ SameReport(T!Row(h, rate, after), h)
BY DEF T!Arrived, T!Metric, T!Row, SameReport

LEMMA TailIs ==
  ASSUME NEW X, NEW s \in Seq(X), NEW a \in Nat, NEW new, new = SubSeq(s, a + 1, Len(s))
  PROVE  /\ new \in Seq(X)
         /\ \A i \in DOMAIN new : i \in Nat /\ i + a \in DOMAIN s
         /\ \A i \in DOMAIN new : new[i] = s[i + a]
<1>1. Len(s) \in Nat /\ DOMAIN s = 1..Len(s)
  OBVIOUS
<1>2. \A i \in (a + 1)..Len(s) : i \in DOMAIN s /\ s[i] \in X
  BY <1>1
<1>3. /\ new \in Seq(X) /\ DOMAIN new = 1..(Len(s) - a)
      /\ \A i \in 1..(Len(s) - a) : new[i] = s[a + i]
  BY <1>1, <1>2
<1>4. \A i \in DOMAIN new : i \in Nat /\ i + a \in DOMAIN s /\ i + a = a + i
  BY <1>1, <1>3
<1> QED
  BY <1>3, <1>4, Zenon

LEMMA NewestIs ==
  ASSUME NEW X, NEW s \in Seq(X), NEW n \in Nat
  PROVE  \E a \in Nat :
           /\ T!Newest(s, n) \in Seq(X)
           /\ \A i \in DOMAIN T!Newest(s, n) : i \in Nat /\ i + a \in DOMAIN s
           /\ \A i \in DOMAIN T!Newest(s, n) : T!Newest(s, n)[i] = s[i + a]
<1> DEFINE first == T!Max({1, Len(s) - n + 1})
<1>1. first \in Int /\ first >= 1
  BY MaxIs
<1>2. T!Newest(s, n) = SubSeq(s, first, Len(s))
  BY DEF T!Newest
<1> HIDE DEF first
<1>3. PICK a \in Nat : first = a + 1
  <2>1. first - 1 \in Nat /\ first = (first - 1) + 1
    BY <1>1
  <2> QED
    BY <2>1, Zenon
<1>4. T!Newest(s, n) = SubSeq(s, a + 1, Len(s))
  BY <1>2, <1>3, Zenon
<1>5. /\ T!Newest(s, n) \in Seq(X)
      /\ \A i \in DOMAIN T!Newest(s, n) : i \in Nat /\ i + a \in DOMAIN s
      /\ \A i \in DOMAIN T!Newest(s, n) : T!Newest(s, n)[i] = s[i + a]
  BY <1>4, TailIs
<1> QED
  BY <1>5

LEMMA NewestFrom ==
  ASSUME NEW X, NEW s \in Seq(X), NEW n \in Nat
  PROVE  /\ T!Newest(s, n) \in Seq(X)
         /\ \A i \in DOMAIN T!Newest(s, n) : \E k \in DOMAIN s : T!Newest(s, n)[i] = s[k]
<1>1. PICK a \in Nat :
        /\ T!Newest(s, n) \in Seq(X)
        /\ \A i \in DOMAIN T!Newest(s, n) : i \in Nat /\ i + a \in DOMAIN s
        /\ \A i \in DOMAIN T!Newest(s, n) : T!Newest(s, n)[i] = s[i + a]
  BY NewestIs, Zenon
<1> QED
  BY <1>1, Zenon

\* Rows that are in order stay in order.
LEMMA NewestRows ==
  ASSUME NEW s \in Seq(T!Arrived), NEW n \in Nat,
         \A i, j \in DOMAIN s : i <= j => s[i].at <= s[j].at
  PROVE  /\ T!Newest(s, n) \in Seq(T!Arrived)
         /\ \A i \in DOMAIN T!Newest(s, n) : \E k \in DOMAIN s : T!Newest(s, n)[i] = s[k]
         /\ \A i, j \in DOMAIN T!Newest(s, n) :
              i <= j => T!Newest(s, n)[i].at <= T!Newest(s, n)[j].at
<1>1. PICK a \in Nat :
        /\ T!Newest(s, n) \in Seq(T!Arrived)
        /\ \A i \in DOMAIN T!Newest(s, n) : i \in Nat /\ i + a \in DOMAIN s
        /\ \A i \in DOMAIN T!Newest(s, n) : T!Newest(s, n)[i] = s[i + a]
  BY NewestIs
<1> DEFINE new == T!Newest(s, n)
<1>2. \A i \in DOMAIN new : i \in Nat /\ i + a \in DOMAIN s /\ new[i] = s[i + a]
  BY <1>1
<1> HIDE DEF new
<1>3. ASSUME NEW i \in DOMAIN new, NEW j \in DOMAIN new, i <= j PROVE new[i].at <= new[j].at
  <2>1. i + a <= j + a
    BY <1>2, <1>3
  <2> QED
    BY <1>2, <2>1
<1>4. \A i \in DOMAIN new : \E k \in DOMAIN s : new[i] = s[k]
  BY <1>2, Zenon
<1> QED
  BY <1>1, <1>3, <1>4 DEF new

LEMMA HistoryBegins == T!HistoryInit => T!HistoryInv
<1> SUFFICES ASSUME T!HistoryInit PROVE T!HistoryInv
  OBVIOUS
<1>1. T!HistoryTypeOK
  BY DEF T!HistoryInit, T!HistoryTypeOK, T!Nothing
<1>2. T!Stored = {}
  <2>1. T!ToSet(<<>>) = {}
    BY DEF T!ToSet
  <2> QED
    BY <2>1 DEF T!HistoryInit, T!Stored
<1>3. DOMAIN metrics = {} /\ DOMAIN raw = {}
  BY DEF T!HistoryInit
<1> QED
  BY <1>1, <1>2, <1>3 DEF T!HistoryInv, T!ReportsAgree, T!RatesComputed, T!RawInOrder

\* Reports agree on what they tell.
LEMMA SameTells ==
  ASSUME NEW x, NEW y, SameReport(x, y)
  PROVE  /\ T!Past(x) <=> T!Past(y)
         /\ \A z : (T!InTime(x, z) <=> T!InTime(y, z)) /\ (T!InTime(z, x) <=> T!InTime(z, y))
         /\ \A z : T!Rate(x, z) = T!Rate(y, z) /\ T!Rate(z, x) = T!Rate(z, y)
BY DEF SameReport, T!Past, T!InTime, T!Rate

\* What is kept, in any order and with or without a rate, was received and agrees.
LEMMA StillAgree ==
  ASSUME T!ReportsAgree, UNCHANGED <<minute, carried, boot, base>>,
         \A x \in T!Stored' : \E y \in T!Stored : SameReport(x, y)
  PROVE  T!ReportsAgree'
<1>1. ASSUME NEW x PROVE T!Past(x)' <=> T!Past(x)
  BY DEF T!Past, T!InTime, T!Present
<1>2. ASSUME NEW x \in T!Stored', NEW y \in T!Stored' PROVE T!Past(x) /\ T!InTime(x, y)
  <2>1. PICK u \in T!Stored : SameReport(x, u)
    OBVIOUS
  <2>2. PICK v \in T!Stored : SameReport(y, v)
    OBVIOUS
  <2>3. T!Past(u) /\ T!InTime(u, v)
    BY DEF T!ReportsAgree
  <2> QED
    BY <2>1, <2>2, <2>3, SameTells
<1> QED
  BY <1>1, <1>2 DEF T!ReportsAgree

\* A report that is received now agrees with what was received.
LEMMA ReceivedAgrees ==
  ASSUME T!HistoryTypeOK, T!ReportsAgree, NEW y \in T!Arrived,
         y.at = minute, y.sum = carried, y.again \/ SameReport(y, T!Present),
         handling' = handling \cup {y}, UNCHANGED <<minute, carried, boot, base, metrics, raw>>
  PROVE  T!ReportsAgree'
<1>1. T!Stored' = T!Stored \cup {y}
  BY DEF T!Stored, T!ToSet
<1>2. {minute, carried, boot, base} \subseteq Nat /\ base <= carried
  BY DEF T!HistoryTypeOK
<1>3. \A x : T!Past(x)' <=> T!Past(x)
  BY DEF T!Past, T!InTime, T!Present
<1>4. \A x \in T!Stored : {x.at, x.sum, x.bytes, x.boot} \subseteq Nat
  <2>1. \A x \in T!Stored : x \in T!Arrived \/ x \in T!Metric
    BY DEF T!HistoryTypeOK, T!Stored, T!ToSet
  <2> QED
    BY <2>1, ReportFields
<1>5. /\ T!Present.at = minute /\ T!Present.sum = carried /\ T!Present.boot = boot
      /\ T!Present.bytes = carried - base /\ ~T!Present.again
  BY DEF T!Present, T!Stamped
<1>6. {y.at, y.sum, y.bytes, y.boot} \subseteq Nat
  BY ReportFields
<1>7. ~y.again => y.boot = boot /\ y.bytes = carried - base
  BY <1>5 DEF SameReport
<1>8. T!Past(y) /\ T!InTime(y, y)
  BY <1>2, <1>5, <1>6, <1>7 DEF T!Past, T!InTime
<1>9. ASSUME NEW x \in T!Stored PROVE T!Past(x) /\ T!InTime(x, y) /\ T!InTime(y, x)
  <2>1. /\ x.at <= minute /\ (x.at = minute => x.sum = carried)
        /\ ~x.again => x.boot <= boot
        /\ T!InTime(x, T!Present)
    BY DEF T!ReportsAgree, T!Past
  <2>2. {x.at, x.sum, x.bytes, x.boot} \subseteq Nat
    BY <1>4
  <2>3. /\ x.sum <= carried
        /\ ~x.again => /\ x.boot = boot => (carried - base) - x.bytes = carried - x.sum
                       /\ x.boot < boot => carried - base <= carried - x.sum
    BY <1>5, <2>1 DEF T!InTime
  <2>4. T!InTime(x, y)
    BY <1>2, <1>6, <1>7, <2>1, <2>2, <2>3 DEF T!InTime
  <2>5. T!InTime(y, x)
    BY <1>2, <1>6, <1>7, <2>1, <2>2, <2>3 DEF T!InTime
  <2> QED
    BY <2>4, <2>5 DEF T!ReportsAgree
<1> QED
  BY <1>1, <1>3, <1>8, <1>9 DEF T!ReportsAgree

\* Time, traffic and restarts go on from what was received.
LEMMA LaterAgrees ==
  ASSUME T!HistoryTypeOK, T!ReportsAgree, UNCHANGED <<handling, metrics, raw>>,
         \/ /\ minute' = minute + 1 /\ UNCHANGED <<boot, base>>
            /\ \E bytes \in Nat : carried' = carried + bytes
         \/ boot' = boot + 1 /\ base' = carried /\ UNCHANGED <<minute, carried>>
  PROVE  T!ReportsAgree'
<1>1. T!Stored' = T!Stored
  BY DEF T!Stored, T!ToSet
<1>2. {minute, carried, boot, base} \subseteq Nat /\ base <= carried
  BY DEF T!HistoryTypeOK
<1>3. ASSUME NEW x \in T!Stored PROVE T!Past(x)'
  <2>1. x \in T!Arrived \/ x \in T!Metric
    BY DEF T!HistoryTypeOK, T!Stored, T!ToSet
  <2>2. {x.at, x.sum, x.bytes, x.boot} \subseteq Nat
    BY <2>1, ReportFields
  <2>3. T!Past(x)
    BY DEF T!ReportsAgree
  <2>4. CASE minute' = minute + 1 /\ UNCHANGED <<boot, base>>
             /\ \E bytes \in Nat : carried' = carried + bytes
    <3>1. PICK bytes \in Nat : carried' = carried + bytes
      BY <2>4
    <3>2. minute' > minute /\ carried' - base' = (carried - base) + bytes
          /\ carried' >= carried /\ boot' = boot
      BY <1>2, <2>4, <3>1
    <3>3. /\ x.at < minute' /\ x.sum <= carried'
          /\ ~x.again => /\ x.boot <= boot'
                         /\ x.boot = boot' => (carried' - base') - x.bytes = carried' - x.sum
                         /\ x.boot < boot' => carried' - base' <= carried' - x.sum
      BY <1>2, <2>2, <2>3, <3>1, <3>2 DEF T!Past, T!InTime, T!Present, T!Stamped
    <3> QED
      BY <1>2, <2>2, <3>1, <3>2, <3>3 DEF T!Past, T!InTime, T!Present, T!Stamped
  <2>5. CASE boot' = boot + 1 /\ base' = carried /\ UNCHANGED <<minute, carried>>
    BY <1>2, <2>2, <2>3, <2>5 DEF T!Past, T!InTime, T!Present, T!Stamped
  <2> QED
    BY <2>4, <2>5
<1> QED
  BY <1>1, <1>3 DEF T!ReportsAgree, T!InTime

LEMMA BodyIs == \A b \in T!Body : b # T!Nothing /\ b.again \in BOOLEAN
BY DEF T!Body, T!Nothing, T!Unknown

\* Rates and the order of what is stored change only where it does.
LEMMA StoredStays ==
  ASSUME T!HistoryInv, UNCHANGED <<metrics, raw>>
  PROVE  T!RatesComputed' /\ T!RawInOrder'
BY DEF T!HistoryInv, T!RatesComputed, T!RawInOrder

\* The buffer of the agent.
LEMMA KeptAgain ==
  ASSUME T!HistoryTypeOK, NEW body \in T!Body, body.again
  PROVE  LET new == T!Newest(Append(kept, body), BufferLimit)
         IN new \in Seq(T!Body) /\ \A k \in DOMAIN new : new[k].again
<1>1. /\ Append(kept, body) \in Seq(T!Body)
      /\ \A k \in DOMAIN Append(kept, body) : Append(kept, body)[k].again
  BY DEF T!HistoryTypeOK
<1>2. BufferLimit \in Nat
  BY HistoryConstants
<1>3. /\ T!Newest(Append(kept, body), BufferLimit) \in Seq(T!Body)
      /\ \A i \in DOMAIN T!Newest(Append(kept, body), BufferLimit) :
           \E k \in DOMAIN Append(kept, body) :
             T!Newest(Append(kept, body), BufferLimit)[i] = Append(kept, body)[k]
  BY <1>1, <1>2, NewestFrom
<1>4. \A i \in DOMAIN T!Newest(Append(kept, body), BufferLimit) :
        T!Newest(Append(kept, body), BufferLimit)[i].again
  BY <1>1, <1>3, Zenon
<1> QED
  BY <1>3, <1>4

LEMMA MinuteKeeps ==
  ASSUME T!HistoryInv, T!Tick
  PROVE  T!HistoryInv'
<1>1. T!HistoryTypeOK'
  BY HistoryConstants DEF T!HistoryInv, T!HistoryTypeOK, T!Tick
<1>2. T!ReportsAgree'
  BY LaterAgrees, HistoryConstants DEF T!HistoryInv, T!Tick
<1>3. T!RatesComputed' /\ T!RawInOrder'
  BY StoredStays DEF T!Tick
<1> QED
  BY <1>1, <1>2, <1>3 DEF T!HistoryInv

LEMMA RestartKeeps ==
  ASSUME T!HistoryInv, T!Restart
  PROVE  T!HistoryInv'
<1>1. T!HistoryTypeOK'
  BY DEF T!HistoryInv, T!HistoryTypeOK, T!Restart, T!Nothing
<1>2. T!ReportsAgree'
  BY LaterAgrees DEF T!HistoryInv, T!Restart
<1> QED
  BY <1>1, <1>2, StoredStays DEF T!HistoryInv, T!Restart

LEMMA TakenKeeps ==
  ASSUME T!HistoryInv, T!Report
  PROVE  T!HistoryInv'
<1> DEFINE body == [bytes |-> carried - base, boot |-> boot, again |-> FALSE]
           resent == [body EXCEPT !.again = TRUE]
           y == T!Stamped(body, minute, carried)
<1>1. /\ UNCHANGED <<minute, carried, boot, base, sending, metrics, raw>>
      /\ \/ handling' = handling \cup {y} /\ waiting' = body /\ UNCHANGED kept
         \/ kept' = T!Newest(Append(kept, resent), BufferLimit) /\ UNCHANGED <<waiting, handling>>
  BY DEF T!Report, T!Received
<1>2. body \in T!Body /\ ~body.again /\ resent \in T!Body /\ resent.again
  <2>1. carried - base \in Nat /\ boot \in Nat
    BY DEF T!HistoryInv, T!HistoryTypeOK
  <2> QED
    BY <2>1 DEF T!Body
<1>3. y \in T!Arrived /\ y.at = minute /\ y.sum = carried /\ SameReport(y, T!Present)
  BY <1>2, StampIs DEF T!HistoryInv, T!HistoryTypeOK, T!Present, SameReport
<1> HIDE DEF body, resent, y
<1>4. T!HistoryTypeOK'
  <2>1. CASE handling' = handling \cup {y} /\ waiting' = body /\ UNCHANGED kept
    BY <1>1, <1>2, <1>3, <2>1 DEF T!HistoryInv, T!HistoryTypeOK
  <2>2. CASE kept' = T!Newest(Append(kept, resent), BufferLimit) /\ UNCHANGED <<waiting, handling>>
    BY <1>1, <1>2, <2>2, KeptAgain DEF T!HistoryInv, T!HistoryTypeOK
  <2> QED
    BY <1>1, <2>1, <2>2
<1>5. T!ReportsAgree'
  <2>1. CASE handling' = handling \cup {y}
    BY <1>1, <1>3, <2>1, ReceivedAgrees DEF T!HistoryInv
  <2>2. CASE UNCHANGED handling
    <3>1. \A x \in T!Stored' : x \in T!Stored /\ SameReport(x, x)
      BY <1>1, <2>2 DEF T!Stored, T!ToSet, SameReport
    <3> QED
      BY <1>1, <3>1, StillAgree DEF T!HistoryInv
  <2> QED
    BY <1>1, <2>1, <2>2
<1>6. T!RatesComputed' /\ T!RawInOrder'
  BY <1>1, StoredStays
<1> QED
  BY <1>4, <1>5, <1>6 DEF T!HistoryInv

LEMMA SendKeptKeeps ==
  ASSUME T!HistoryInv, T!SendKept
  PROVE  T!HistoryInv'
<1> DEFINE body == Head(sending)
           y == T!Stamped(body, minute, carried)
<1>1. /\ UNCHANGED <<minute, carried, boot, base, metrics, raw>> /\ sending # <<>>
      /\ waiting = T!Nothing
      /\ \/ handling' = handling \cup {y} /\ waiting' = body /\ UNCHANGED <<kept, sending>>
         \/ kept' = sending /\ sending' = <<>> /\ UNCHANGED <<waiting, handling>>
  BY DEF T!SendKept, T!Received
<1>2. body \in T!Body /\ body.again
  BY <1>1 DEF T!HistoryInv, T!HistoryTypeOK
<1>3. y \in T!Arrived /\ y.at = minute /\ y.sum = carried /\ y.again
  BY <1>2, StampIs DEF T!HistoryInv, T!HistoryTypeOK
<1> HIDE DEF body, y
<1>4. T!HistoryTypeOK'
  <2>1. CASE handling' = handling \cup {y} /\ waiting' = body /\ UNCHANGED <<kept, sending>>
    BY <1>1, <1>2, <1>3, <2>1 DEF T!HistoryInv, T!HistoryTypeOK
  <2>2. CASE kept' = sending /\ sending' = <<>> /\ UNCHANGED <<waiting, handling>>
    BY <1>1, <2>2 DEF T!HistoryInv, T!HistoryTypeOK, T!Nothing
  <2> QED
    BY <1>1, <2>1, <2>2
<1>5. T!ReportsAgree'
  <2>1. CASE handling' = handling \cup {y}
    BY <1>1, <1>3, <2>1, ReceivedAgrees DEF T!HistoryInv
  <2>2. CASE UNCHANGED handling
    <3>1. \A x \in T!Stored' : x \in T!Stored /\ SameReport(x, x)
      BY <1>1, <2>2 DEF T!Stored, T!ToSet, SameReport
    <3> QED
      BY <1>1, <3>1, StillAgree DEF T!HistoryInv
  <2> QED
    BY <1>1, <2>1, <2>2
<1> QED
  BY <1>1, <1>4, <1>5, StoredStays DEF T!HistoryInv

LEMMA GiveUpKeeps ==
  ASSUME T!HistoryInv, T!GiveUp
  PROVE  T!HistoryInv'
<1> DEFINE resent == [waiting EXCEPT !.again = TRUE]
<1>1. /\ waiting # T!Nothing /\ waiting' = T!Nothing
      /\ UNCHANGED <<minute, carried, boot, base, handling, metrics, raw>>
      /\ IF waiting.again THEN kept' = sending /\ sending' = <<>>
         ELSE kept' = T!Newest(Append(kept, resent), BufferLimit) /\ UNCHANGED sending
  BY DEF T!GiveUp
<1>2. waiting \in T!Body /\ waiting.again \in BOOLEAN /\ resent \in T!Body /\ resent.again
  BY <1>1 DEF T!HistoryInv, T!HistoryTypeOK, T!Body
<1> HIDE DEF resent
<1>3. T!HistoryTypeOK'
  <2>1. CASE waiting.again
    BY <1>1, <2>1 DEF T!HistoryInv, T!HistoryTypeOK, T!Nothing
  <2>2. CASE ~waiting.again
    BY <1>1, <1>2, <2>2, KeptAgain DEF T!HistoryInv, T!HistoryTypeOK, T!Nothing
  <2> QED
    BY <2>1, <2>2
<1>4. \A x \in T!Stored' : x \in T!Stored /\ SameReport(x, x)
  BY <1>1 DEF T!Stored, T!ToSet, SameReport
<1> QED
  BY <1>1, <1>3, <1>4, StillAgree, StoredStays DEF T!HistoryInv

\* What cleanup_device_telemetry_metrics leaves.
LEMMA YoungIs ==
  ASSUME NEW s \in Seq(T!Metric)
  PROVE  /\ T!Young(s) \in Seq(T!Metric)
         /\ \A k \in DOMAIN T!Young(s) : \E j \in DOMAIN s : T!Young(s)[k] = s[j]
<1> DEFINE places == {k \in DOMAIN s : s[k].at >= minute - KeepFor}
<1>1. T!Young(s) = T!Picked(s, places)
  BY DEF T!Young, T!Since
<1>2. places \in SUBSET DOMAIN s
  OBVIOUS
<1> HIDE DEF places
<1>3. T!Picked(s, places) \in Seq(T!Metric)
  BY <1>2, PickedIs
<1>4. \A k \in DOMAIN T!Picked(s, places) : \E j \in places : T!Picked(s, places)[k] = s[j]
  BY <1>2, PickedFrom
<1> QED
  BY <1>1, <1>2, <1>3, <1>4

LEMMA CleanKeeps ==
  ASSUME T!HistoryInv, T!Clean
  PROVE  T!HistoryInv'
<1>1. /\ metrics' = T!Young(metrics)
      /\ UNCHANGED <<minute, carried, boot, base, taken, kept, sending, waiting, handling, raw>>
  BY DEF T!Clean
<1>2. metrics \in Seq(T!Metric)
  BY DEF T!HistoryInv, T!HistoryTypeOK
<1>3. metrics' \in Seq(T!Metric) /\ \A k \in DOMAIN metrics' : \E j \in DOMAIN metrics :
        metrics'[k] = metrics[j]
  BY <1>1, <1>2, YoungIs
<1>4. T!HistoryTypeOK'
  BY <1>1, <1>3 DEF T!HistoryInv, T!HistoryTypeOK
<1>5. \A x \in T!Stored' : x \in T!Stored /\ SameReport(x, x)
  BY <1>1, <1>3 DEF T!Stored, T!ToSet, SameReport
<1>6. T!ReportsAgree'
  BY <1>1, <1>5, StillAgree DEF T!HistoryInv
<1>7. T!RatesComputed'
  BY <1>3 DEF T!HistoryInv, T!RatesComputed
<1>8. T!RawInOrder'
  BY <1>1 DEF T!HistoryInv, T!RawInOrder
<1> QED
  BY <1>4, <1>6, <1>7, <1>8 DEF T!HistoryInv

\* The row of a report: its rate is that of the report and of the newest row before it.
LEMMA MeasuredIs ==
  ASSUME T!HistoryInv, NEW h \in handling
  PROVE  /\ T!Measured(h) \in T!Metric /\ SameReport(T!Measured(h), h)
         /\ \/ T!Measured(h).after = <<>> /\ T!Measured(h).rate = T!Unknown
            \/ /\ Len(T!Measured(h).after) = 1 /\ T!InTime(T!Measured(h).after[1], T!Measured(h))
               /\ T!Measured(h).rate = T!Rate(T!Measured(h).after[1], T!Measured(h))
<1>1. h \in T!Arrived /\ metrics \in Seq(T!Metric)
  BY DEF T!HistoryInv, T!HistoryTypeOK
<1>2. CASE metrics = <<>>
  <2>1. T!Measured(h) = T!Row(h, T!Unknown, <<>>)
    BY <1>2 DEF T!Measured
  <2>2. T!Unknown \in Int /\ <<>> \in Seq(T!Arrived)
    BY DEF T!Unknown
  <2>3. /\ T!Row(h, T!Unknown, <<>>) \in T!Metric
        /\ T!Row(h, T!Unknown, <<>>).rate = T!Unknown /\ T!Row(h, T!Unknown, <<>>).after = <<>>
        /\ SameReport(T!Row(h, T!Unknown, <<>>), h)
    BY <1>1, <2>2, RowIs, Zenon
  <2> QED
    BY <2>1, <2>3, Zenon
<1>3. CASE metrics # <<>>
  <2> DEFINE newest == T!Last(T!ByTime(metrics))
             stamp == T!Stamped(newest, newest.at, newest.sum)
             rate == T!Rate(newest, h)
  <2>1. T!Measured(h) = T!Row(h, rate, <<stamp>>)
    BY <1>3 DEF T!Measured
  <2>2. \A k \in DOMAIN metrics : metrics[k].at \in Nat
    BY <1>1, ReportFields
  <2>3. T!ByTime(metrics) \in Seq(T!Metric) /\ Len(T!ByTime(metrics)) = Len(metrics)
    BY <1>1, <2>2, ByTimeIs
  <2>4. \A k \in DOMAIN T!ByTime(metrics) :
          \E j \in DOMAIN metrics : T!ByTime(metrics)[k] = metrics[j]
    BY <1>1, <2>2, ByTimeFrom
  <2>5. Len(metrics) \in 1..Len(metrics)
    BY <1>1, <1>3
  <2>6. newest = T!ByTime(metrics)[Len(metrics)] /\ Len(metrics) \in DOMAIN T!ByTime(metrics)
    BY <2>3, <2>5 DEF T!Last
  <2>7. \E j \in DOMAIN metrics : newest = metrics[j]
    BY <2>4, <2>6
  <2>8. newest \in T!Metric /\ newest \in T!Stored
    BY <1>1, <2>7 DEF T!Stored, T!ToSet
  <2> HIDE DEF newest
  <2>9. stamp \in T!Arrived /\ SameReport(stamp, newest)
    BY <2>8, StampIs
  <2>10. rate \in Int
    <3>1. {newest.at, newest.bytes, h.at, h.bytes} \subseteq Nat
      BY <1>1, <2>8, ReportFields
    <3> QED
      BY <3>1, RateIs DEF T!Unknown
  <2> HIDE DEF stamp, rate
  <2>11. <<stamp>> \in Seq(T!Arrived) /\ Len(<<stamp>>) = 1 /\ <<stamp>>[1] = stamp
    BY <2>9
  <2>12. /\ T!Measured(h) \in T!Metric /\ SameReport(T!Measured(h), h)
         /\ T!Measured(h).rate = rate /\ T!Measured(h).after = <<stamp>>
    <3>1. /\ T!Row(h, rate, <<stamp>>) \in T!Metric
          /\ T!Row(h, rate, <<stamp>>).rate = rate /\ T!Row(h, rate, <<stamp>>).after = <<stamp>>
          /\ SameReport(T!Row(h, rate, <<stamp>>), h)
      BY <1>1, <2>10, <2>11, RowIs, Zenon
    <3> QED
      BY <2>1, <3>1, Zenon
  <2>13. h \in T!Stored /\ T!InTime(newest, h)
    BY <2>8 DEF T!HistoryInv, T!ReportsAgree, T!Stored
  <2>14. T!InTime(stamp, T!Measured(h))
    BY <2>9, <2>12, <2>13, SameTells
  <2>15. T!Rate(stamp, T!Measured(h)) = T!Rate(newest, h)
    BY <2>9, <2>12, SameTells
  <2> QED
    BY <2>11, <2>12, <2>14, <2>15 DEF rate
<1> QED
  BY <1>2, <1>3

LEMMA StoreKeeps ==
  ASSUME T!HistoryInv, NEW h \in handling, T!Store(h)
  PROVE  T!HistoryInv'
<1> DEFINE entry == T!Measured(h)
           entries == Append(metrics, entry)
           all == Append(raw, h)
           sorted == T!ByTime(all)
<1>1. /\ handling' = handling \ {h} /\ metrics' = T!Young(entries)
      /\ raw' = T!Newest(sorted, Keep) /\ UNCHANGED <<minute, carried, boot, base>>
  BY DEF T!Store, T!Last100
<1>2. h \in T!Arrived /\ metrics \in Seq(T!Metric) /\ raw \in Seq(T!Arrived) /\ Keep \in Nat
  BY HistoryConstants DEF T!HistoryInv, T!HistoryTypeOK
<1>3. entry \in T!Metric /\ SameReport(entry, h)
  BY MeasuredIs
<1>4. \/ entry.after = <<>> /\ entry.rate = T!Unknown
      \/ /\ Len(entry.after) = 1 /\ T!InTime(entry.after[1], entry)
         /\ entry.rate = T!Rate(entry.after[1], entry)
  BY MeasuredIs
<1> HIDE DEF entry
<1>5. /\ entries \in Seq(T!Metric)
      /\ \A k \in DOMAIN entries : entries[k] = entry \/ \E j \in DOMAIN metrics : entries[k] = metrics[j]
  BY <1>2, <1>3
<1>6. /\ all \in Seq(T!Arrived)
      /\ \A k \in DOMAIN all : all[k] = h \/ \E j \in DOMAIN raw : all[k] = raw[j]
  BY <1>2
<1> HIDE DEF entries, all
<1>7. /\ metrics' \in Seq(T!Metric)
      /\ \A k \in DOMAIN metrics' : \E j \in DOMAIN entries : metrics'[k] = entries[j]
  BY <1>1, <1>5, YoungIs
<1>8. \A k \in DOMAIN metrics' : metrics'[k] = entry \/ \E j \in DOMAIN metrics : metrics'[k] = metrics[j]
  BY <1>5, <1>7
<1>9. \A k \in DOMAIN all : all[k].at \in Nat
  BY <1>6, ReportFields
<1>10. /\ sorted \in Seq(T!Arrived)
       /\ \A i, j \in DOMAIN sorted : i <= j => sorted[i].at <= sorted[j].at
  BY <1>6, <1>9, ByTimeIs
<1>11. \A k \in DOMAIN sorted : \E j \in DOMAIN all : sorted[k] = all[j]
  BY <1>6, <1>9, ByTimeFrom
<1> HIDE DEF sorted
<1>12. raw' \in Seq(T!Arrived)
  <2>1. T!Newest(sorted, Keep) \in Seq(T!Arrived)
    BY <1>2, <1>10, NewestRows, Zenon
  <2> QED
    BY <1>1, <2>1, Zenon
<1>13. \A i, j \in DOMAIN raw' : i <= j => raw'[i].at <= raw'[j].at
  <2>1. \A i, j \in DOMAIN T!Newest(sorted, Keep) : i <= j =>
          T!Newest(sorted, Keep)[i].at <= T!Newest(sorted, Keep)[j].at
    BY <1>2, <1>10, NewestRows, Zenon
  <2> QED
    BY <1>1, <2>1, Zenon
<1>14. \A k \in DOMAIN raw' : \E j \in DOMAIN sorted : raw'[k] = sorted[j]
  <2>1. \A k \in DOMAIN T!Newest(sorted, Keep) :
          \E j \in DOMAIN sorted : T!Newest(sorted, Keep)[k] = sorted[j]
    BY <1>2, <1>10, NewestRows, Zenon
  <2> QED
    BY <1>1, <2>1, Zenon
<1>15. \A k \in DOMAIN raw' : raw'[k] = h \/ \E j \in DOMAIN raw : raw'[k] = raw[j]
  BY <1>6, <1>11, <1>14
<1>16. T!HistoryTypeOK'
  <2>1. \/ T!Answered
        \/ UNCHANGED <<kept, sending, waiting>>
    BY DEF T!Store
  <2>2. /\ kept' \in Seq(T!Body) /\ sending' \in Seq(T!Body)
        /\ waiting' \in T!Body \cup {T!Nothing} /\ (waiting'.again => sending' # <<>>)
        /\ \A k \in DOMAIN kept' : kept'[k].again
        /\ \A k \in DOMAIN sending' : sending'[k].again
    <3>1. CASE UNCHANGED <<kept, sending, waiting>>
      BY <3>1 DEF T!HistoryInv, T!HistoryTypeOK
    <3>2. CASE T!Answered /\ waiting.again
      <4>1. sending \in Seq(T!Body) /\ sending # <<>> /\ \A k \in DOMAIN sending : sending[k].again
        BY <3>2 DEF T!HistoryInv, T!HistoryTypeOK
      <4>2. Tail(sending) \in Seq(T!Body) /\ \A k \in DOMAIN Tail(sending) : Tail(sending)[k].again
        BY <4>1
      <4> QED
        BY <3>2, <4>2 DEF T!HistoryInv, T!HistoryTypeOK, T!Answered, T!Nothing
    <3>3. CASE T!Answered /\ ~waiting.again
      BY <3>3 DEF T!HistoryInv, T!HistoryTypeOK, T!Answered, T!Nothing
    <3> QED
      BY <2>1, <3>1, <3>2, <3>3
  <2> QED
    BY <1>1, <1>7, <1>12, <2>2 DEF T!HistoryInv, T!HistoryTypeOK
<1>17. \A x \in T!Stored' : \E y \in T!Stored : SameReport(x, y)
  <2>1. ASSUME NEW x \in T!Stored' PROVE x = entry \/ x \in T!Stored
    <3>1. CASE x \in handling'
      BY <1>1, <3>1 DEF T!Stored
    <3>2. CASE \E k \in DOMAIN metrics' : x = metrics'[k]
      BY <1>8, <3>2 DEF T!Stored, T!ToSet
    <3>3. CASE \E k \in DOMAIN raw' : x = raw'[k]
      BY <1>15, <3>3 DEF T!Stored, T!ToSet
    <3> QED
      BY <3>1, <3>2, <3>3 DEF T!Stored, T!ToSet
  <2>2. \A x : SameReport(x, x)
    BY DEF SameReport
  <2>3. h \in T!Stored
    BY DEF T!Stored
  <2> QED
    BY <1>3, <2>1, <2>2, <2>3
<1>18. T!ReportsAgree'
  BY <1>1, <1>17, StillAgree DEF T!HistoryInv
<1>19. T!RatesComputed'
  BY <1>4, <1>8 DEF T!HistoryInv, T!RatesComputed
<1>20. T!RawInOrder'
  BY <1>13 DEF T!RawInOrder
<1> QED
  BY <1>16, <1>18, <1>19, <1>20 DEF T!HistoryInv

LEMMA HistoryGoesOn == T!HistoryInv /\ [T!HistoryNext]_(T!historyVars) => T!HistoryInv'
<1> SUFFICES ASSUME T!HistoryInv, [T!HistoryNext]_(T!historyVars) PROVE T!HistoryInv'
  OBVIOUS
<1>1. CASE T!Tick
  BY <1>1, MinuteKeeps
<1>2. CASE T!Report
  BY <1>2, TakenKeeps
<1>3. CASE T!SendKept
  BY <1>3, SendKeptKeeps
<1>4. CASE T!GiveUp
  BY <1>4, GiveUpKeeps
<1>5. CASE T!Restart
  BY <1>5, RestartKeeps
<1>6. CASE \E h \in handling : T!Store(h)
  BY <1>6, StoreKeeps
<1>7. CASE T!Clean
  BY <1>7, CleanKeeps
<1>8. CASE UNCHANGED T!historyVars
  <2>1. UNCHANGED <<minute, carried, boot, base, kept, sending, waiting, handling, metrics, raw>>
    BY <1>8 DEF T!historyVars
  <2>2. T!HistoryTypeOK'
    BY <2>1 DEF T!HistoryInv, T!HistoryTypeOK
  <2>3. \A x \in T!Stored' : x \in T!Stored /\ SameReport(x, x)
    BY <2>1 DEF T!Stored, T!ToSet, SameReport
  <2>4. T!ReportsAgree'
    BY <2>1, <2>3, StillAgree DEF T!HistoryInv
  <2>5. T!RatesComputed' /\ T!RawInOrder'
    BY <2>1, StoredStays
  <2> QED
    BY <2>2, <2>4, <2>5 DEF T!HistoryInv
<1> QED
  BY <1>1, <1>2, <1>3, <1>4, <1>5, <1>6, <1>7, <1>8 DEF T!HistoryNext

-----------------------------------------------------------------------------
(* What holds of the composition: one part at a time has the steps. *)

LEMMA PartStays == [MCNext]_<<part, records, others>> => part' = part
BY DEF MCNext, RecordNext, records, others

\* The run of all parts is one of the records, and one of the rotation of a token:
\* what ServerProofs says of these holds of it.
THEOREM RecordsRun == MCSpec => RecordSpec /\ Spec
<1>1. MCInit => RecordInit /\ Init
  BY DEF MCInit, RecordInit
<1>2. [MCNext]_<<part, records, others>> => [RecordNext]_<<part, earlier, later>>
  BY DEF MCNext, records
<1>3. [RecordNext]_<<part, earlier, later>> => [Next]_vars
  BY DEF RecordNext, earlier
<1> QED
  BY <1>1, <1>2, <1>3, PTL DEF MCSpec, RecordSpec, Spec

\* The device row, the agent and the requests under way are well typed, and so are the
\* pages of a command, what is known of a client, the plan and queue of the networks,
\* and the buffers and rows of the reports (the tables of models.py they stand for).
THEOREM TypesStay == MCSpec => []Typed
<1> DEFINE Inv == /\ part = "forms" => F!FormInv
                  /\ part = "presence" => P!PresenceInv
                  /\ part = "networks" => N!PlanInv
                  /\ part = "history" => T!HistoryInv
<1>1. MCInit => Inv
  BY FormBegins, PresenceBegins, PlanBegins, HistoryBegins DEF MCInit
<1>2. Inv /\ [MCNext]_<<part, records, others>> => Inv'
  <2> SUFFICES ASSUME Inv, [MCNext]_<<part, records, others>> PROVE Inv'
    OBVIOUS
  <2>1. part' = part
    BY PartStays
  <2>2. part = "forms" => F!FormInv'
    <3>1. part = "forms" => [F!FormNext]_(F!formVars)
      BY DEF MCNext, others, forms, F!formVars
    <3> QED
      BY <3>1, FormGoesOn
  <2>3. part = "presence" => P!PresenceInv'
    <3>1. part = "presence" => [P!PresenceNext]_(P!presenceVars)
      BY DEF MCNext, others, presence, P!presenceVars
    <3> QED
      BY <3>1, PresenceGoesOn
  <2>4. part = "networks" => N!PlanInv'
    <3>1. part = "networks" => [N!PlanNext]_(N!planVars)
      BY DEF MCNext, others, networks, N!planVars
    <3> QED
      BY <3>1, PlanGoesOn
  <2>5. part = "history" => T!HistoryInv'
    <3>1. part = "history" => [T!HistoryNext]_(T!historyVars)
      BY DEF MCNext, others, history, T!historyVars
    <3> QED
      BY <3>1, HistoryGoesOn
  <2> QED
    BY <2>1, <2>2, <2>3, <2>4, <2>5
<1>3. Inv /\ TypeOK => Typed
  BY DEF Typed, F!FormInv, P!PresenceInv, N!PlanInv, T!HistoryInv
<1> QED
  BY <1>1, <1>2, <1>3, RecordsRun, TypeCorrect, PTL DEF MCSpec

\* Of a form that the preview reads whole (all but network.set_segment, network.set_vlan
\* and network.set_multiwan, for which it is false: CommandForms, ToldTruly) what the
\* owner has agreed to in a preview is what is sent; of every form no preview shows a
\* secret, and what is sent is whole and accepted again as it is; and a change of the networks that was checked against what the router had
\* leaves no conflict, whatever waited in the queue or failed in between
\* (command_builder.py, command_validation.py, config_transactions.py: preflight_errors).
THEOREM SentStaysSound == MCSpec => []SentIsSound
<1> DEFINE Inv == /\ part = "forms" => F!FormInv
                  /\ part = "networks" => N!PlanInv
<1>1. MCInit => Inv
  BY FormBegins, PlanBegins DEF MCInit
<1>2. Inv /\ [MCNext]_<<part, records, others>> => Inv'
  <2> SUFFICES ASSUME Inv, [MCNext]_<<part, records, others>> PROVE Inv'
    OBVIOUS
  <2>1. part' = part
    BY PartStays
  <2>2. part = "forms" => [F!FormNext]_(F!formVars)
    BY DEF MCNext, others, forms, F!formVars
  <2>3. part = "networks" => [N!PlanNext]_(N!planVars)
    BY DEF MCNext, others, networks, N!planVars
  <2> QED
    BY <2>1, <2>2, <2>3, FormGoesOn, PlanGoesOn
<1>3. Inv => SentIsSound
  BY FormFollows DEF SentIsSound, N!PlanInv
<1> QED
  BY <1>1, <1>2, <1>3, PTL DEF MCSpec

\* A client is shown as online only within the time to live of a confirmation, as
\* present only of an observation, and the newest entry of the log is not behind
\* what is shown (clients.py: update_client, effective_state).
THEOREM ShownStays == MCSpec => []ShownIsTrue
<1> DEFINE Inv == part = "presence" => P!PresenceInv
<1>1. MCInit => Inv
  BY PresenceBegins DEF MCInit
<1>2. Inv /\ [MCNext]_<<part, records, others>> => Inv'
  <2> SUFFICES ASSUME Inv, [MCNext]_<<part, records, others>>, part' = "presence"
               PROVE  P!PresenceInv'
    OBVIOUS
  <2>1. part = "presence"
    BY PartStays
  <2>2. [P!PresenceNext]_(P!presenceVars)
    BY <2>1 DEF MCNext, others, presence, P!presenceVars
  <2> QED
    BY <2>1, <2>2, PresenceGoesOn
<1>3. Inv => ShownIsTrue
  BY PresenceFollows DEF ShownIsTrue
<1> QED
  BY <1>1, <1>2, <1>3, PTL DEF MCSpec

\* A rate is what the router carried between two reports, never more and never a
\* negative one, whatever restarts, lost answers and overlapping requests there were;
\* no less unless the router was restarted; and a point of the chart lies between the
\* rates it stands for (telemetry_history.py: record_device_telemetry_metric,
\* device_telemetry_history).
THEOREM RatesStay == MCSpec => []RatesAreTrue
<1> DEFINE Inv == part = "history" => T!HistoryInv
<1>1. MCInit => Inv
  BY HistoryBegins DEF MCInit
<1>2. Inv /\ [MCNext]_<<part, records, others>> => Inv'
  <2> SUFFICES ASSUME Inv, [MCNext]_<<part, records, others>>, part' = "history"
               PROVE  T!HistoryInv'
    OBVIOUS
  <2>1. part = "history"
    BY PartStays
  <2>2. [T!HistoryNext]_(T!historyVars)
    BY <2>1 DEF MCNext, others, history, T!historyVars
  <2> QED
    BY <2>1, <2>2, HistoryGoesOn
<1>3. Inv => RatesAreTrue
  BY HistoryFollows DEF RatesAreTrue
<1> QED
  BY <1>1, <1>2, <1>3, PTL DEF MCSpec
=============================================================================
