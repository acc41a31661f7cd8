---------------------------- MODULE ServerProofs ----------------------------
(***************************************************************************)
(* Proofs about the parts of the server of ServerRecords, for any number   *)
(* of clients, routers, codes, runs and requests: for each part an         *)
(* inductive invariant, the steps that keep it, and the property that      *)
(* follows.                                                                *)
(***************************************************************************)
EXTENDS ServerRecords, Sequences, FiniteSetTheorems, TLAPS

-----------------------------------------------------------------------------
(* Commands with an idempotency key (CommandRequests). *)

LEMMA SameCardinality == \A X : K!Cardinality(X) = Cardinality(X)
BY DEF K!Cardinality, Cardinality

\* The routers of a group, in some order, are a sequence of routers.
LEMMA OrdersAreSeqs == \A todo \in K!SetToSeqs(Routers) : todo \in Seq(Routers)
<1>1. Cardinality(Routers) \in Nat
  BY ServerAssumption, FS_CardinalityType
<1> QED
  BY <1>1, SameCardinality DEF K!SetToSeqs

LEMMA RequestBase == K!RequestInit => K!RequestInv
BY DEF K!RequestInit, K!RequestInv, K!RequestTypeOK, K!NumbersOK, K!FoundOK,
   K!WrittenOnce, K!Written, K!Idle, K!Asked, K!None

\* Handing rows over changes their owner and nothing else, and brings no row back.
LEMMA HandedKeeps ==
  ASSUME K!RequestTypeOK, NEW nrs \in SUBSET (Nat \ {0}), NEW to \in {0, -1},
         rows' = K!Handed(nrs, to), removed' = removed
  PROVE  /\ rows' \in Seq(K!Rows) /\ K!Written' = K!Written
         /\ K!Live' \subseteq K!Live
         /\ \A id \in K!Written :
              /\ rows'[id].router = rows[id].router /\ rows'[id].group = rows[id].group
              /\ rows'[id].key = rows[id].key /\ rows'[id].type = rows[id].type
              /\ rows'[id].owner = IF rows[id].owner \in nrs THEN to ELSE rows[id].owner
<1> USE DEF K!RequestTypeOK, K!Written
<1>1. DOMAIN rows = 1..Len(rows) /\ Len(rows) \in Nat
  OBVIOUS
<1>2. rows' = [id \in 1..Len(rows) |-> IF rows[id].owner \in nrs THEN [rows[id] EXCEPT !.owner = to]
                                       ELSE rows[id]]
  BY <1>1, Zenon DEF K!Handed
<1>3. \A id \in 1..Len(rows) : rows[id] \in K!Rows
  BY <1>1
<1>4. \A x \in K!Rows :
        /\ [x EXCEPT !.owner = to] \in K!Rows
        /\ [x EXCEPT !.owner = to].router = x.router /\ [x EXCEPT !.owner = to].group = x.group
        /\ [x EXCEPT !.owner = to].key = x.key /\ [x EXCEPT !.owner = to].type = x.type
        /\ [x EXCEPT !.owner = to].owner = to
  BY DEF K!Rows, K!Undone
<1>5. rows' \in [1..Len(rows) -> K!Rows]
  BY <1>2, <1>3, <1>4
<1>6. rows' \in Seq(K!Rows) /\ K!Written' = K!Written
  BY <1>1, <1>5
<1>7. \A id \in K!Written :
        /\ rows'[id].router = rows[id].router /\ rows'[id].group = rows[id].group
        /\ rows'[id].key = rows[id].key /\ rows'[id].type = rows[id].type
        /\ rows'[id].owner = IF rows[id].owner \in nrs THEN to ELSE rows[id].owner
  BY <1>1, <1>2, <1>3, <1>4
<1> QED
  BY <1>6, <1>7 DEF K!Live, K!Undone

\* Rows that no request holds and that only lose life stay unique.
LEMMA OnceKept ==
  ASSUME K!WrittenOnce, K!Written' = K!Written, K!Live' \subseteq K!Live,
         \A id \in K!Written :
           /\ rows'[id].router = rows[id].router /\ rows'[id].group = rows[id].group
           /\ rows'[id].key = rows[id].key
  PROVE  K!WrittenOnce'
BY DEF K!WrittenOnce

\* Client c's request becomes q, which found what it may, and nothing else changes.
RequestBecomes(c, q) ==
  /\ q \in K!Asked /\ requests' = [requests EXCEPT ![c] = q]
  /\ rows' = rows /\ answers' = answers /\ removed' = removed
  /\ asked' \in Nat /\ asked <= asked' /\ q.nr <= asked'
  /\ (q.step = "ready") <=> (q.nr = 0)
  /\ q.step # "ready" => q.key \in Keys /\ q.type \in Types
  /\ q.step = "writing" => q.todo # <<>>
  /\ q.nr # 0 => q.nr = requests[c].nr \/ asked < q.nr
  /\ \A id \in q.found : K!Fits(id, q) /\ rows[id].owner \in {0, q.nr}

LEMMA RequestMoves ==
  ASSUME K!RequestInv, NEW c \in Clients, NEW q, RequestBecomes(c, q)
  PROVE  K!RequestInv'
<1> USE DEF RequestBecomes
<1> USE DEF K!RequestInv, K!None
<1>1. \A d \in Clients : requests'[d] = IF d = c THEN q ELSE requests[d]
  BY DEF K!RequestTypeOK
<1>2. K!RequestTypeOK'
  BY DEF K!RequestTypeOK
<1>3. K!NumbersOK'
  <2>1. \A d \in Clients : requests[d].nr \in Nat /\ requests[d].nr <= asked
    BY DEF K!RequestTypeOK, K!NumbersOK, K!Asked
  <2>2. q.nr \in Nat /\ asked \in Nat
    BY DEF K!RequestTypeOK, K!Asked
  <2> QED
    BY <1>1, <2>1, <2>2 DEF K!NumbersOK
<1>4. K!FoundOK'
  BY <1>1 DEF K!FoundOK, K!Fits, K!Written
<1>5. K!WrittenOnce'
  BY DEF K!WrittenOnce, K!Written, K!Live
<1> QED
  BY <1>2, <1>3, <1>4, <1>5

\* The requests of some clients end, and their rows are committed or rolled back; what
\* is answered, one of those committed has found.
Numbers(cs) == {requests[c].nr : c \in cs} \ {0}
RequestsOver(cs, to) ==
  /\ requests' = [c \in Clients |-> IF c \in cs THEN K!Idle ELSE requests[c]]
  /\ asked' = asked /\ answers' \subseteq K!Told
  /\ \A a \in answers' :
       \/ a \in answers
       \/ to = 0 /\ \E c \in cs : /\ requests[c].nr # 0 /\ a.id \in requests[c].found
                               /\ a.group = requests[c].group /\ a.key = requests[c].key
                               /\ a.type = requests[c].type

LEMMA RequestsEnd ==
  ASSUME K!RequestInv, NEW cs \in SUBSET Clients, NEW to \in {0, -1},
         rows' = K!Handed(Numbers(cs), to), removed' = removed, RequestsOver(cs, to)
  PROVE  K!RequestInv'
<1> PICK nrs : nrs = Numbers(cs)
  OBVIOUS
<1> USE DEF K!RequestInv, K!None
<1>1. \A c \in Clients : requests[c] \in K!Asked /\ requests[c].nr \in Nat
  BY DEF K!RequestTypeOK, K!Asked
<1>2. nrs \in SUBSET (Nat \ {0})
  BY <1>1 DEF Numbers
<1>3. /\ rows' \in Seq(K!Rows) /\ K!Written' = K!Written /\ K!Live' \subseteq K!Live
      /\ \A id \in K!Written :
           /\ rows'[id].router = rows[id].router /\ rows'[id].group = rows[id].group
           /\ rows'[id].key = rows[id].key /\ rows'[id].type = rows[id].type
           /\ rows'[id].owner = IF rows[id].owner \in nrs THEN to ELSE rows[id].owner
  <2>1. rows' = K!Handed(nrs, to) /\ removed' = removed /\ K!RequestTypeOK
    OBVIOUS
  <2> HIDE DEF K!RequestInv
  <2> QED
    BY <1>2, <2>1, HandedKeeps
<1>4. K!Idle \in K!Asked
  BY DEF K!Idle, K!Asked, K!None
<1>5. K!RequestTypeOK'
  BY <1>1, <1>3, <1>4 DEF K!RequestTypeOK, RequestsOver
<1>6. K!NumbersOK'
  BY <1>1 DEF K!NumbersOK, K!Idle, K!RequestTypeOK, RequestsOver
<1>7. K!FoundOK'
  <2>1. ASSUME NEW d \in Clients, NEW id \in requests'[d].found
        PROVE  K!Fits(id, requests[d])' /\ rows'[id].owner \in {0, requests'[d].nr}
    <3>1. d \notin cs /\ requests'[d] = requests[d]
      BY <2>1 DEF K!Idle, RequestsOver
    <3>2. K!Fits(id, requests[d]) /\ rows[id].owner \in {0, requests[d].nr}
      BY <2>1, <3>1 DEF K!FoundOK
    <3>3. requests[d].nr \notin nrs
      BY <3>1 DEF K!NumbersOK, Numbers
    <3> QED
      BY <1>2, <1>3, <3>1, <3>2, <3>3 DEF K!Fits
  <2>2. ASSUME NEW a \in answers' PROVE K!Fits(a.id, a)' /\ rows'[a.id].owner = 0
    <3>1. CASE a \in answers
      <4>1. K!Fits(a.id, a) /\ rows[a.id].owner = 0
        BY <3>1 DEF K!FoundOK
      <4> QED
        BY <1>2, <1>3, <4>1 DEF K!Fits
    <3>2. ASSUME to = 0, NEW c \in cs, requests[c].nr # 0, a.id \in requests[c].found,
                 a.group = requests[c].group, a.key = requests[c].key,
                 a.type = requests[c].type
          PROVE  K!Fits(a.id, a)' /\ rows'[a.id].owner = 0
      <4>1. K!Fits(a.id, requests[c]) /\ rows[a.id].owner \in {0, requests[c].nr}
        BY <3>2 DEF K!FoundOK
      <4>2. requests[c].nr \in nrs
        BY <3>2 DEF Numbers
      <4> QED
        BY <1>3, <3>2, <4>1, <4>2 DEF K!Fits
    <3> QED
      BY <3>1, <3>2 DEF RequestsOver
  <2> QED
    BY <2>1, <2>2 DEF K!FoundOK, K!Fits, RequestsOver
<1>8. K!WrittenOnce'
  BY <1>3, OnceKept
<1> QED
  BY <1>5, <1>6, <1>7, <1>8

LEMMA AskStep ==
  ASSUME K!RequestInv, NEW c \in Clients, K!Ask(c)
  PROVE  K!RequestInv'
<1>1. PICK k \in Keys, t \in Types, g \in BOOLEAN :
        \E todo \in IF g THEN K!SetToSeqs(Routers) ELSE {<<r>> : r \in Routers} :
          requests' = [requests EXCEPT ![c] =
            [step |-> "looking", nr |-> asked + 1, group |-> g, key |-> k, type |-> t,
             todo |-> todo, found |-> {}]]
  BY DEF K!Ask
<1>2. PICK todo \in IF g THEN K!SetToSeqs(Routers) ELSE {<<r>> : r \in Routers} :
          requests' = [requests EXCEPT ![c] =
            [step |-> "looking", nr |-> asked + 1, group |-> g, key |-> k, type |-> t,
             todo |-> todo, found |-> {}]]
  BY <1>1
<1>3. todo \in Seq(Routers)
  <2>1. CASE g
    BY <2>1, OrdersAreSeqs
  <2>2. CASE ~g
    <3>1. PICK r \in Routers : todo = <<r>>
      BY <2>2
    <3> QED
      BY <3>1
  <2> QED
    BY <2>1, <2>2
<1> PICK q : q = [step |-> "looking", nr |-> asked + 1, group |-> g, key |-> k, type |-> t,
                  todo |-> todo, found |-> {}]
  OBVIOUS
<1>4. asked \in Nat
  BY DEF K!RequestInv, K!RequestTypeOK
<1>5. q \in K!Asked
  BY <1>3, <1>4 DEF K!Asked
<1>6. asked' = asked + 1 /\ UNCHANGED <<rows, answers, removed>>
  BY DEF K!Ask
<1>7. RequestBecomes(c, q)
  BY <1>2, <1>4, <1>5, <1>6 DEF RequestBecomes
<1> QED
  BY <1>7, RequestMoves

LEMMA FindStep ==
  ASSUME K!RequestInv, NEW c \in Clients, K!Find(c)
  PROVE  K!RequestInv'
<1>1. PICK id \in K!Existing(c, Head(requests[c].todo)) :
        /\ rows[id].type = requests[c].type
        /\ requests' = [requests EXCEPT ![c].todo = Tail(@), ![c].found = @ \cup {id}]
  BY DEF K!Find
<1> PICK q : q = [requests[c] EXCEPT !.todo = Tail(@), !.found = @ \cup {id}]
  OBVIOUS
<1>2. requests[c] \in K!Asked /\ asked \in Nat /\ requests \in [Clients -> K!Asked]
  BY DEF K!RequestInv, K!RequestTypeOK
<1>3. id \in K!Written /\ K!Fits(id, requests[c]) /\ rows[id].owner \in {0, requests[c].nr}
  BY <1>1 DEF K!Existing, K!Live, K!Named, K!Fits, K!None
<1>4. id \in Nat
  BY <1>3 DEF K!Written, K!RequestInv, K!RequestTypeOK
<1>5. requests[c].step = "looking" /\ Tail(requests[c].todo) \in Seq(Routers)
  BY <1>2 DEF K!Find, K!Asked
<1>6. q \in K!Asked /\ q.found = requests[c].found \cup {id} /\ q.step = "looking"
      /\ q.nr = requests[c].nr /\ q.group = requests[c].group /\ q.key = requests[c].key
      /\ q.type = requests[c].type
  BY <1>2, <1>4, <1>5 DEF K!Asked
<1>7. requests' = [requests EXCEPT ![c] = q]
  BY <1>1, <1>2
<1>8. \A i \in q.found : K!Fits(i, q) /\ rows[i].owner \in {0, q.nr}
  BY <1>3, <1>6 DEF K!RequestInv, K!FoundOK, K!Fits, K!None
<1>9. /\ q.nr <= asked /\ ((q.step = "ready") <=> (q.nr = 0))
      /\ q.key \in Keys /\ q.type \in Types
  BY <1>5, <1>6 DEF K!RequestInv, K!NumbersOK, K!None
<1>10. rows' = rows /\ answers' = answers /\ removed' = removed /\ asked' = asked
  BY DEF K!Find
<1>11. RequestBecomes(c, q)
  <2>1. /\ rows' = rows /\ answers' = answers /\ removed' = removed
        /\ asked' \in Nat /\ asked <= asked' /\ q.nr <= asked'
    BY <1>2, <1>9, <1>10
  <2>2. /\ q.step # "ready" => q.key \in Keys /\ q.type \in Types
        /\ q.step = "writing" => q.todo # <<>>
        /\ q.nr # 0 => q.nr = requests[c].nr \/ asked < q.nr
    BY <1>6, <1>9
  <2> QED
    BY <1>6, <1>7, <1>8, <1>9, <2>1, <2>2 DEF RequestBecomes
<1> QED
  BY <1>11, RequestMoves

LEMMA NotFoundStep ==
  ASSUME K!RequestInv, NEW c \in Clients, K!NotFound(c)
  PROVE  K!RequestInv'
<1> PICK q : q = [requests[c] EXCEPT !.step = "writing"]
  OBVIOUS
<1>1. requests[c] \in K!Asked /\ asked \in Nat /\ requests \in [Clients -> K!Asked]
  BY DEF K!RequestInv, K!RequestTypeOK
<1>2. q \in K!Asked /\ q.found = requests[c].found /\ q.step = "writing"
      /\ q.nr = requests[c].nr /\ q.group = requests[c].group /\ q.key = requests[c].key
      /\ q.type = requests[c].type /\ q.todo = requests[c].todo
  BY <1>1 DEF K!Asked
<1>3. requests' = [requests EXCEPT ![c] = q] /\ requests[c].step = "looking"
      /\ requests[c].todo # <<>>
      /\ rows' = rows /\ answers' = answers /\ removed' = removed /\ asked' = asked
  BY <1>1 DEF K!NotFound
<1>4. \A i \in q.found : K!Fits(i, q) /\ rows[i].owner \in {0, q.nr}
  BY <1>2 DEF K!RequestInv, K!FoundOK, K!Fits, K!None
<1>5. /\ q.nr <= asked /\ ((q.step = "ready") <=> (q.nr = 0))
      /\ q.key \in Keys /\ q.type \in Types
  BY <1>2, <1>3 DEF K!RequestInv, K!NumbersOK, K!None
<1>6. RequestBecomes(c, q)
  <2>1. /\ rows' = rows /\ answers' = answers /\ removed' = removed
        /\ asked' \in Nat /\ asked <= asked' /\ q.nr <= asked'
    BY <1>1, <1>3, <1>5
  <2>2. /\ q.step # "ready" => q.key \in Keys /\ q.type \in Types
        /\ q.step = "writing" => q.todo # <<>>
        /\ q.nr # 0 => q.nr = requests[c].nr \/ asked < q.nr
    BY <1>2, <1>3, <1>5
  <2> QED
    BY <1>2, <1>3, <1>4, <1>5, <2>1, <2>2 DEF RequestBecomes
<1> QED
  BY <1>6, RequestMoves

\* The index: what the new row would repeat is gone.
LEMMA WriteStep ==
  ASSUME K!RequestInv, NEW c \in Clients, K!Write(c)
  PROVE  K!RequestInv'
<1> PICK n : n = Len(rows) + 1
  OBVIOUS
<1> PICK row1 : row1 = [router |-> Head(requests[c].todo), group |-> requests[c].group,
                        key |-> requests[c].key, type |-> requests[c].type,
                        owner |-> requests[c].nr, ended |-> FALSE]
  OBVIOUS
<1> PICK q : q = [requests[c] EXCEPT !.step = "looking", !.todo = Tail(@),
                                     !.found = @ \cup {n}]
  OBVIOUS
<1>1. /\ requests \in [Clients -> K!Asked] /\ asked \in Nat /\ rows \in Seq(K!Rows)
      /\ answers \subseteq K!Told
  BY DEF K!RequestInv, K!RequestTypeOK
<1>2. /\ requests[c].step = "writing" /\ requests[c].todo # <<>> /\ requests[c].nr # 0
      /\ requests[c].key \in Keys /\ requests[c].type \in Types
      /\ requests[c].nr <= asked
  BY DEF K!Write, K!RequestInv, K!NumbersOK, K!None
<1>3. requests[c] \in K!Asked /\ requests[c].nr \in Nat /\ Head(requests[c].todo) \in Routers
      /\ Tail(requests[c].todo) \in Seq(Routers)
  BY <1>1, <1>2 DEF K!Asked
<1>4. row1 \in K!Rows
  BY <1>2, <1>3 DEF K!Rows, K!Asked
<1>5. /\ rows' = Append(rows, row1) /\ requests' = [requests EXCEPT ![c] = q]
      /\ UNCHANGED <<asked, answers, removed>> /\ K!Holding(c) = {}
  BY <1>1 DEF K!Write
<1>6. q \in K!Asked /\ q.found = requests[c].found \cup {n} /\ q.step = "looking"
      /\ q.nr = requests[c].nr /\ q.group = requests[c].group /\ q.key = requests[c].key
      /\ q.type = requests[c].type
  <2>1. n \in Nat
    BY <1>1
  <2> QED
    BY <1>3, <2>1 DEF K!Asked
<1>7. /\ rows' \in Seq(K!Rows) /\ n \in Nat /\ K!Written' = K!Written \cup {n}
      /\ n \notin K!Written /\ \A i \in K!Written : i < n /\ rows'[i] = rows[i]
      /\ rows'[n] = row1
  BY <1>1, <1>4, <1>5 DEF K!Written
<1>8. \A d \in Clients : requests'[d] = IF d = c THEN q ELSE requests[d]
  BY <1>1, <1>5
<1>9. K!RequestTypeOK'
  BY <1>1, <1>5, <1>6, <1>7 DEF K!RequestTypeOK
<1>10. K!NumbersOK'
  BY <1>1, <1>2, <1>5, <1>6, <1>8 DEF K!RequestInv, K!NumbersOK, K!None
<1>11. K!FoundOK'
  <2>1. \A i, x : K!Fits(i, x) => K!Fits(i, x)'
    BY <1>7 DEF K!Fits
  <2>2. K!Fits(n, q)'
    BY <1>6, <1>7 DEF K!Fits
  <2>3. \A i : K!Fits(i, requests[c]) => K!Fits(i, q)'
    BY <1>6, <1>7 DEF K!Fits
  <2>4. \A i \in q.found : K!Fits(i, q)' /\ rows'[i].owner \in {0, q.nr}
    <3>1. ASSUME NEW i \in requests[c].found
          PROVE  K!Fits(i, q)' /\ rows'[i].owner \in {0, requests[c].nr}
      <4>1. K!Fits(i, requests[c]) /\ rows[i].owner \in {0, requests[c].nr}
        BY DEF K!RequestInv, K!FoundOK, K!None
      <4>2. i \in K!Written
        BY <4>1 DEF K!Fits
      <4> QED
        BY <1>7, <2>3, <4>1, <4>2
    <3>2. rows'[n].owner = requests[c].nr
      BY <1>7
    <3> QED
      BY <1>6, <2>2, <3>1, <3>2
  <2>5. \A d \in Clients \ {c} : \A i \in requests[d].found :
          K!Fits(i, requests[d])' /\ rows'[i].owner \in {0, requests'[d].nr}
    BY <1>7, <1>8 DEF K!RequestInv, K!FoundOK, K!Fits, K!None
  <2>6. \A a \in answers : K!Fits(a.id, a)' /\ rows'[a.id].owner = 0
    BY <1>7 DEF K!RequestInv, K!FoundOK, K!Fits, K!None
  <2> QED
    <3>1. ASSUME NEW d \in Clients, NEW i \in requests'[d].found
          PROVE  K!Fits(i, requests[d])' /\ rows'[i].owner \in {0, requests'[d].nr}
      <4>1. CASE d = c
        <5>1. requests'[d] = q
          BY <1>8, <4>1
        <5> QED
          BY <2>4, <5>1 DEF K!Fits
      <4>2. CASE d # c
        BY <1>8, <2>5, <4>2
      <4> QED
        BY <4>1, <4>2
    <3>2. \A a \in answers' : K!Fits(a.id, a)' /\ rows'[a.id].owner = 0
      BY <1>5, <2>6 DEF K!Fits
    <3> QED
      BY <3>1, <3>2 DEF K!FoundOK, K!None
<1>12. K!WrittenOnce'
  <2> SUFFICES ASSUME NEW i \in K!Written', NEW j \in K!Written', i < j,
                      rows'[i].router = rows'[j].router, rows'[i].group = rows'[j].group,
                      rows'[i].key = rows'[j].key
               PROVE  i \notin K!Live'
    BY DEF K!WrittenOnce
  <2>1. i \in K!Written /\ rows'[i] = rows[i]
    BY <1>1, <1>7 DEF K!Written
  <2>2. i \in K!Live' => i \in K!Live
    BY <1>5, <2>1 DEF K!Live
  <2>3. CASE j = n
    <3>1. rows'[j] = row1
      BY <1>7, <2>3
    <3>2. K!Named(i, requests[c], Head(requests[c].todo))
      BY <2>1, <3>1 DEF K!Named
    <3> QED
      BY <1>5, <2>2, <3>2 DEF K!Holding
  <2>4. CASE j \in K!Written
    BY <1>7, <2>1, <2>2, <2>4 DEF K!RequestInv, K!WrittenOnce
  <2> QED
    BY <1>7, <2>3, <2>4
<1> QED
  BY <1>9, <1>10, <1>11, <1>12 DEF K!RequestInv

\* A transaction that is rolled back.
LEMMA RolledBackStep ==
  ASSUME K!RequestInv, NEW c \in Clients, requests[c].step # "ready", K!RolledBack(c),
         asked' = asked, answers' = answers, removed' = removed
  PROVE  K!RequestInv'
<1>1. requests \in [Clients -> K!Asked] /\ answers \subseteq K!Told /\ requests[c].nr # 0
  BY DEF K!RequestInv, K!RequestTypeOK, K!NumbersOK, K!None
<1>2. Numbers({c}) = {requests[c].nr}
  BY <1>1 DEF Numbers
<1>3. rows' = K!Handed(Numbers({c}), -1)
  BY <1>2 DEF K!RolledBack, K!Undone
<1>4. RequestsOver({c}, -1)
  BY <1>1 DEF RequestsOver, K!RolledBack
<1> QED
  BY <1>3, <1>4, RequestsEnd

LEMMA CommitStep ==
  ASSUME K!RequestInv, NEW c \in Clients, K!Commit(c)
  PROVE  K!RequestInv'
<1>1. /\ requests \in [Clients -> K!Asked] /\ requests[c] \in K!Asked
      /\ answers \subseteq K!Told /\ requests[c].nr # 0 /\ requests[c].key \in Keys
      /\ requests[c].type \in Types
  BY DEF K!RequestInv, K!RequestTypeOK, K!NumbersOK, K!None, K!Commit
<1>2. Numbers({c}) = {requests[c].nr}
  BY <1>1 DEF Numbers
<1>3. rows' = K!Handed(Numbers({c}), 0)
  BY <1>2 DEF K!Commit, K!None
<1> DEFINE told(id) == [nr |-> requests[c].nr, group |-> requests[c].group,
                        key |-> requests[c].key, type |-> requests[c].type, id |-> id]
<1>4. answers' = answers \cup {told(id) : id \in requests[c].found}
  BY DEF K!Commit
<1>5. \A id \in requests[c].found : told(id) \in K!Told
  BY <1>1 DEF K!Asked, K!Told
<1>6. \A a \in answers' : a \in answers \/ \E id \in requests[c].found : a = told(id)
  BY <1>4
<1>7. answers' \subseteq K!Told
  BY <1>1, <1>5, <1>6
<1>8. requests' = [d \in Clients |-> IF d \in {c} THEN K!Idle ELSE requests[d]]
  BY <1>1 DEF K!Commit
<1>9. asked' = asked /\ removed' = removed
  BY DEF K!Commit
<1>10. RequestsOver({c}, 0)
  BY <1>1, <1>6, <1>7, <1>8, <1>9 DEF RequestsOver
<1> QED
  BY <1>3, <1>9, <1>10, RequestsEnd

LEMMA RestartStep == K!RequestInv /\ K!Restart => K!RequestInv'
<1> SUFFICES ASSUME K!RequestInv, K!Restart PROVE K!RequestInv'
  OBVIOUS
<1>1. rows' = K!Handed(Numbers(Clients), -1) /\ removed' = removed
  BY DEF K!Restart, Numbers, K!Undone, K!None
<1>2. RequestsOver(Clients, -1)
  BY DEF K!Restart, RequestsOver, K!RequestInv, K!RequestTypeOK
<1> QED
  BY <1>1, <1>2, RequestsEnd

\* What a router or the clean-up does to a row.
LEMMA RowsAge ==
  ASSUME K!RequestInv, NEW id \in K!Written, K!End(id) \/ K!CleanUp(id)
  PROVE  K!RequestInv'
<1> USE DEF K!RequestInv
<1>1. rows \in Seq(K!Rows) /\ UNCHANGED <<requests, asked, answers>>
  BY DEF K!End, K!CleanUp, K!RequestTypeOK
<1>2. rows' \in Seq(K!Rows) /\ K!Written' = K!Written
      /\ \A i \in K!Written :
           /\ rows'[i].router = rows[i].router /\ rows'[i].group = rows[i].group
           /\ rows'[i].key = rows[i].key /\ rows'[i].type = rows[i].type
           /\ rows'[i].owner = rows[i].owner
  <2>1. CASE K!CleanUp(id)
    BY <1>1, <2>1 DEF K!CleanUp, K!Written
  <2>2. CASE K!End(id)
    <3>1. rows' = [rows EXCEPT ![id].ended = TRUE] /\ rows[id] \in K!Rows
      BY <1>1, <2>2 DEF K!End, K!Written
    <3>2. [rows[id] EXCEPT !.ended = TRUE] \in K!Rows
      BY <3>1 DEF K!Rows
    <3> QED
      BY <1>1, <3>1, <3>2 DEF K!Written, K!Rows
  <2> QED
    BY <2>1, <2>2
<1>3. K!Live' \subseteq K!Live
  BY <1>2 DEF K!Live, K!End, K!CleanUp
<1>4. K!RequestTypeOK' /\ K!NumbersOK'
  BY <1>1, <1>2 DEF K!RequestTypeOK, K!NumbersOK
<1>5. K!FoundOK'
  BY <1>1, <1>2 DEF K!FoundOK, K!Fits
<1>6. K!WrittenOnce'
  BY <1>2, <1>3, OnceKept
<1> QED
  BY <1>4, <1>5, <1>6

LEMMA RequestStep == K!RequestInv /\ [K!RequestNext]_creation => K!RequestInv'
<1> SUFFICES ASSUME K!RequestInv, [K!RequestNext]_creation PROVE K!RequestInv'
  OBVIOUS
<1>1. ASSUME NEW c \in Clients, K!Conflict(c) \/ K!WriteFails(c) \/ K!Deadlocked(c)
      PROVE  K!RequestInv'
  <2>1. /\ requests[c].step # "ready" /\ K!RolledBack(c)
        /\ asked' = asked /\ answers' = answers /\ removed' = removed
    BY <1>1 DEF K!Conflict, K!WriteFails, K!Deadlocked
  <2> QED
    BY <2>1, RolledBackStep
<1>2. CASE UNCHANGED creation
  BY <1>2 DEF creation, K!RequestInv, K!RequestTypeOK, K!NumbersOK, K!FoundOK, K!Fits,
     K!WrittenOnce, K!Written, K!Live
<1> QED
  BY <1>1, <1>2, AskStep, FindStep, NotFoundStep, WriteStep, CommitStep, RestartStep,
     RowsAge DEF K!RequestNext

LEMMA RequestProperty == K!RequestInv => K!KeyIsOneCommand
<1> SUFFICES ASSUME K!RequestInv PROVE K!KeyIsOneCommand
  OBVIOUS
<1>1. K!Written \subseteq Nat
  BY DEF K!Written, K!RequestInv, K!RequestTypeOK
<1>2. \A i, j \in K!Live : i # j => i < j \/ j < i
  BY <1>1 DEF K!Live
<1>3. \A i, j \in K!Live : K!Committed(i) /\ K!Committed(j) /\ i # j =>
        <<rows[i].router, rows[i].group, rows[i].key>> # <<rows[j].router, rows[j].group, rows[j].key>>
  BY <1>2 DEF K!RequestInv, K!WrittenOnce, K!Live
<1>4. \A a \in answers : K!Fits(a.id, a) /\ rows[a.id].owner = 0
  BY DEF K!RequestInv, K!FoundOK, K!None
<1>5. \A a \in answers : a.id \in K!Live \/ a.id \in removed
  BY <1>4 DEF K!Fits, K!Live, K!Undone
<1>6. \A a, b \in answers :
        /\ a.id < b.id /\ a.key = b.key /\ a.group = b.group
        /\ rows[a.id].router = rows[b.id].router
        => a.id \in removed
  BY <1>4, <1>5 DEF K!RequestInv, K!WrittenOnce, K!Fits
<1> QED
  BY <1>3, <1>4, <1>6 DEF K!KeyIsOneCommand, K!Fits

-----------------------------------------------------------------------------
(* The backup utility (DatabaseBackups). *)

LEMMA BackupConstants ==
  /\ 0 \in B!Rows /\ B!Half \in B!Rows /\ B!Half = -1 /\ B!NoFile \in B!Contents
  /\ B!Idle \in B!Runs
  /\ \A n \in B!Rows : n # B!Half => n \in 0..MaxRows
  /\ \A n \in B!Rows : B!Content(n) \in B!Contents
  /\ ~B!NoFile.whole
BY ServerAssumption DEF B!Rows, B!Half, B!NoFile, B!Contents, B!Idle, B!Runs, B!Content

LEMMA BackupBase == B!BackupInit => B!BackupInv
BY BackupConstants
   DEF B!BackupInit, B!BackupInv, B!BackupTypeOK, B!FilesOK, B!RunsOK, B!DatabaseOK,
       B!Sound, B!NoFile, B!Idle, B!Is

\* What is asked of the run of r for its next state to be sound.
RunMayBe(r, u) ==
  /\ u \in B!Runs /\ utility' = [utility EXCEPT ![r] = u]
  /\ u.step # "none" => u.path \in Paths
  /\ B!Sound(u.file)
  /\ u.job = "create" /\ u.step = "written" => u.file.exists /\ u.file.rows # B!Half
  /\ u.job = "create" /\ u.step = "replace" => u.file.whole
  /\ u.step = "open" => files'[u.path].exists
  /\ u.job = "restore" /\ u.step = "fill" => u.file.whole \/ copies' > 0

\* Files are never removed, and copies are only counted up.
FilesStay ==
  /\ \A p \in Paths : files[p].exists => files'[p].exists
  /\ copies' \in Nat /\ copies <= copies'

LEMMA RunKept ==
  ASSUME B!BackupInv, NEW r \in BackupRuns, NEW u, RunMayBe(r, u), FilesStay
  PROVE  utility' \in [BackupRuns -> B!Runs] /\ B!RunsOK'
<1>1. \A s \in BackupRuns : utility[s] \in B!Runs /\ utility'[s] = IF s = r THEN u ELSE utility[s]
  BY DEF RunMayBe, B!BackupInv, B!BackupTypeOK
<1>2. utility' \in [BackupRuns -> B!Runs]
  BY DEF RunMayBe, B!BackupInv, B!BackupTypeOK
<1>3. copies \in Nat
  BY DEF B!BackupInv, B!BackupTypeOK
<1>4. ASSUME NEW s \in BackupRuns
      PROVE  /\ utility'[s].step # "none" => utility'[s].path \in Paths
             /\ B!Sound(utility'[s].file)
             /\ B!Is(s, "create", "written")' => utility'[s].file.exists /\ utility'[s].file.rows # B!Half
             /\ B!Is(s, "create", "replace")' => utility'[s].file.whole
             /\ utility'[s].step = "open" => files'[utility'[s].path].exists
             /\ B!Is(s, "restore", "fill")' => utility'[s].file.whole \/ copies' > 0
  <2>1. CASE s = r
    BY <1>1, <2>1 DEF RunMayBe, B!Is
  <2>2. CASE s # r
    BY <1>1, <1>3, <2>2 DEF B!BackupInv, B!RunsOK, B!Is, FilesStay
  <2> QED
    BY <2>1, <2>2
<1> QED
  BY <1>2, <1>4 DEF B!RunsOK, B!Sound

\* A run ends.
LEMMA EndedRun ==
  ASSUME B!BackupInv, NEW r \in BackupRuns, B!Ends(r), FilesStay
  PROVE  utility' \in [BackupRuns -> B!Runs] /\ B!RunsOK'
<1> PICK u : u = B!Idle
  OBVIOUS
<1>1. u.job = "none" /\ u.step = "none" /\ u.file = B!NoFile
  BY DEF B!Idle
<1>2. RunMayBe(r, u)
  BY <1>1, BackupConstants DEF RunMayBe, B!Ends, B!Sound
<1> QED
  BY <1>2, RunKept

\* A run goes to its next step.
MayGo(r, step, file) ==
  /\ file \in B!Contents /\ B!Sound(file) /\ utility[r].step # "none"
  /\ step \in {"written", "replace", "open", "filled", "fill"}
  /\ utility[r].job = "create" /\ step = "written" => file.exists /\ file.rows # B!Half
  /\ utility[r].job = "create" /\ step = "replace" => file.whole
  /\ step = "open" => files'[utility[r].path].exists
  /\ utility[r].job = "restore" /\ step = "fill" => file.whole \/ copies' > 0

LEMMA GoneRun ==
  ASSUME B!BackupInv, NEW r \in BackupRuns, NEW file, NEW step, MayGo(r, step, file),
         B!Goes(r, step, file), FilesStay
  PROVE  utility' \in [BackupRuns -> B!Runs] /\ B!RunsOK'
<1>1. utility \in [BackupRuns -> B!Runs] /\ utility[r] \in B!Runs /\ utility[r].path \in Paths
  BY DEF B!BackupInv, B!BackupTypeOK, B!RunsOK, MayGo
<1>2. \E u \in B!Runs : /\ utility' = [utility EXCEPT ![r] = u]
                       /\ u.step = step /\ u.file = file
                       /\ u.job = utility[r].job /\ u.path = utility[r].path
  <2> DEFINE u == [utility[r] EXCEPT !.step = step, !.file = file]
  <2>1. u \in B!Runs /\ u.step = step /\ u.file = file /\ u.job = utility[r].job
        /\ u.path = utility[r].path
    BY <1>1 DEF B!Runs, MayGo
  <2>2. utility' = [utility EXCEPT ![r] = u]
    BY <1>1 DEF B!Goes
  <2> HIDE DEF u
  <2> QED
    BY <2>1, <2>2
<1>3. PICK u \in B!Runs : /\ utility' = [utility EXCEPT ![r] = u]
                         /\ u.step = step /\ u.file = file
                         /\ u.job = utility[r].job /\ u.path = utility[r].path
  BY <1>2
<1>4. RunMayBe(r, u)
  BY <1>1, <1>3 DEF RunMayBe, MayGo
<1> QED
  BY <1>4, RunKept

LEMMA RunStep ==
  ASSUME B!BackupInv, NEW r \in BackupRuns, NEW p \in Paths,
         NEW job \in {"create", "verify", "drill", "restore"}, B!Run(r, job, p)
  PROVE  utility' \in [BackupRuns -> B!Runs] /\ B!RunsOK'
<1> PICK step : step = IF job = "create" THEN "dump" ELSE "verify"
  OBVIOUS
<1>1. \E u \in B!Runs : /\ utility' = [utility EXCEPT ![r] = u]
                       /\ u.job = job /\ u.step = step /\ u.path = p /\ u.file = B!NoFile
  <2> PICK u : u = [B!Idle EXCEPT !.job = job, !.path = p, !.step = step]
    OBVIOUS
  <2>1. u \in B!Runs /\ u.job = job /\ u.step = step /\ u.path = p /\ u.file = B!NoFile
    <3>1. B!Idle.file = B!NoFile
      BY DEF B!Idle
    <3> QED
      BY <3>1, BackupConstants DEF B!Runs
  <2>2. utility' = [utility EXCEPT ![r] = u]
    BY DEF B!Run
  <2> QED
    BY <2>1, <2>2
<1>2. PICK u \in B!Runs : /\ utility' = [utility EXCEPT ![r] = u]
                         /\ u.job = job /\ u.step = step /\ u.path = p /\ u.file = B!NoFile
  BY <1>1
<1>3. RunMayBe(r, u)
  BY <1>2, BackupConstants DEF RunMayBe, B!Sound
<1>4. FilesStay
  BY DEF FilesStay, B!Run, B!BackupInv, B!BackupTypeOK
<1> QED
  BY <1>3, <1>4, RunKept

\* The content of files stays sound when a sound one is put in a place.
FilePut(q, file) ==
  /\ file \in B!Contents /\ B!Sound(file) /\ file.exists
  /\ files' = [files EXCEPT ![q] = file]
  /\ copies' \in Nat /\ copies <= copies' /\ (copies' = 0 => file.whole)

LEMMA FilesKept ==
  ASSUME B!BackupInv, NEW q \in Paths, NEW file, FilePut(q, file)
  PROVE  files' \in [Paths -> B!Contents] /\ B!FilesOK' /\ FilesStay
<1>1. files \in [Paths -> B!Contents] /\ copies \in Nat
  BY DEF B!BackupInv, B!BackupTypeOK
<1> USE DEF FilePut
<1>2. \A p \in Paths : files'[p] = IF p = q THEN file ELSE files[p]
  BY <1>1
<1>3. \A p \in Paths : B!Sound(files'[p])
  BY <1>2 DEF B!BackupInv, B!FilesOK
<1> QED
  BY <1>1, <1>2, <1>3 DEF B!BackupInv, B!FilesOK, B!Sound, FilesStay

LEMMA BackupStep == B!BackupInv /\ [B!BackupNext]_backups => B!BackupInv'
<1> SUFFICES ASSUME B!BackupInv, [B!BackupNext]_backups PROVE B!BackupInv'
  OBVIOUS
<1> USE BackupConstants
<1>1. /\ lines \in B!Rows /\ restored \in B!Rows /\ files \in [Paths -> B!Contents]
      /\ utility \in [BackupRuns -> B!Runs] /\ litter \in Nat /\ kills \in Nat /\ copies \in Nat
  BY DEF B!BackupInv, B!BackupTypeOK
<1>2. files' = files /\ copies' = copies => FilesStay
  BY <1>1 DEF FilesStay
<1>3. ASSUME NEW r \in BackupRuns, utility' \in [BackupRuns -> B!Runs] /\ B!RunsOK',
             B!Ends(r) \/ \E step, file : B!Goes(r, step, file), ~B!Is(r, "restore", "fill"),
             lines' = lines, files' = files, litter' = litter, kills' = kills, copies' = copies,
             restored' = restored
      PROVE  B!BackupInv'
  <2>1. \A s \in BackupRuns : B!Is(s, "restore", "fill") => B!Is(s, "restore", "fill")'
    BY <1>1, <1>3 DEF B!Ends, B!Goes, B!Is
  <2> QED
    BY <1>1, <1>3, <2>1 DEF B!BackupInv, B!BackupTypeOK, B!FilesOK, B!DatabaseOK
<1>4. ASSUME NEW r \in BackupRuns, B!Dump(r) PROVE B!BackupInv'
  <2>1. /\ lines' = lines /\ files' = files /\ litter' = litter /\ kills' = kills
        /\ copies' = copies /\ restored' = restored
        /\ utility[r].job = "create" /\ utility[r].step = "dump"
    BY <1>4 DEF B!Dump, B!Is
  <2>2. CASE B!Ends(r)
    BY <1>2, <1>3, <2>1, <2>2, EndedRun DEF B!Is
  <2>3. CASE lines # B!Half /\ B!Goes(r, "written", [B!Content(lines) EXCEPT !.whole = FALSE])
    <3>1. PICK file : file = [B!Content(lines) EXCEPT !.whole = FALSE]
      OBVIOUS
    <3>2. file \in B!Contents /\ ~file.whole /\ file.exists /\ file.rows = lines
      BY <1>1, <3>1 DEF B!Content, B!Contents
    <3>3. MayGo(r, "written", file)
      BY <2>1, <2>3, <3>2 DEF B!Sound, MayGo
    <3>4. B!Goes(r, "written", file)
      BY <2>3, <3>1
    <3>5. utility' \in [BackupRuns -> B!Runs] /\ B!RunsOK'
      BY <1>2, <2>1, <3>3, <3>4, GoneRun
    <3> QED
      BY <1>3, <2>1, <3>4, <3>5 DEF B!Is
  <2> QED
    BY <1>4, <2>2, <2>3 DEF B!Dump
<1>5. ASSUME NEW r \in BackupRuns, B!Dumped(r) PROVE B!BackupInv'
  <2>1. /\ lines' = lines /\ files' = files /\ litter' = litter /\ kills' = kills
        /\ copies' = copies /\ restored' = restored
        /\ utility[r].job = "create" /\ utility[r].step = "written"
    BY <1>5 DEF B!Dumped, B!Is
  <2>2. CASE B!Ends(r)
    BY <1>2, <1>3, <2>1, <2>2, EndedRun DEF B!Is
  <2>3. CASE B!Goes(r, "replace", [utility[r].file EXCEPT !.whole = TRUE])
    <3>1. PICK file : file = [utility[r].file EXCEPT !.whole = TRUE]
      OBVIOUS
    <3>2. utility[r].file \in B!Contents /\ utility[r].file.exists
          /\ utility[r].file.rows # B!Half
      BY <1>1, <2>1 DEF B!BackupInv, B!RunsOK, B!Is, B!Runs
    <3>3. file \in B!Contents /\ file.whole /\ file.exists /\ file.rows # B!Half
      BY <3>1, <3>2 DEF B!Contents
    <3>4. MayGo(r, "replace", file)
      BY <2>1, <3>3 DEF B!Sound, MayGo
    <3>5. B!Goes(r, "replace", file)
      BY <2>3, <3>1
    <3>6. utility' \in [BackupRuns -> B!Runs] /\ B!RunsOK'
      BY <1>2, <2>1, <3>4, <3>5, GoneRun
    <3> QED
      BY <1>3, <2>1, <3>5, <3>6 DEF B!Is
  <2> QED
    BY <1>5, <2>2, <2>3 DEF B!Dumped
<1>6. ASSUME NEW r \in BackupRuns, B!Replace(r) PROVE B!BackupInv'
  <2>1. /\ lines' = lines /\ litter' = litter /\ kills' = kills /\ copies' = copies
        /\ restored' = restored /\ B!Ends(r) /\ B!Is(r, "create", "replace")
        /\ files' = [files EXCEPT ![utility[r].path] = utility[r].file]
    BY <1>6 DEF B!Replace
  <2>2. /\ utility[r].path \in Paths /\ utility[r].file \in B!Contents
        /\ utility[r].file.whole /\ B!Sound(utility[r].file) /\ utility[r].file.exists
    BY <1>1, <2>1 DEF B!BackupInv, B!RunsOK, B!Is, B!Runs, B!Sound
  <2>3. files' \in [Paths -> B!Contents] /\ B!FilesOK' /\ FilesStay
    <3>1. FilePut(utility[r].path, utility[r].file)
      BY <1>1, <2>1, <2>2 DEF FilePut
    <3> QED
      BY <2>2, <3>1, FilesKept
  <2>4. utility' \in [BackupRuns -> B!Runs] /\ B!RunsOK'
    BY <2>1, <2>3, EndedRun
  <2>5. \A s \in BackupRuns : B!Is(s, "restore", "fill") => B!Is(s, "restore", "fill")'
    BY <1>1, <2>1 DEF B!Ends, B!Is
  <2> QED
    BY <1>1, <2>1, <2>3, <2>4, <2>5 DEF B!BackupInv, B!BackupTypeOK, B!DatabaseOK
<1>7. ASSUME NEW r \in BackupRuns, B!Verify(r) PROVE B!BackupInv'
  <2>1. /\ lines' = lines /\ files' = files /\ litter' = litter /\ kills' = kills
        /\ copies' = copies /\ restored' = restored /\ utility[r].step = "verify"
    BY <1>7 DEF B!Verify
  <2>2. CASE B!Ends(r)
    BY <1>2, <1>3, <2>1, <2>2, EndedRun DEF B!Is
  <2>3. CASE files[utility[r].path].exists /\ B!Goes(r, "open", B!NoFile)
    <3>1. MayGo(r, "open", B!NoFile)
      BY <2>1, <2>3 DEF B!Sound, MayGo
    <3>2. utility' \in [BackupRuns -> B!Runs] /\ B!RunsOK'
      BY <1>2, <2>1, <2>3, <3>1, GoneRun
    <3> QED
      BY <1>3, <2>1, <2>3, <3>2 DEF B!Is
  <2> QED
    BY <1>7, <2>2, <2>3 DEF B!Verify
<1>8. ASSUME NEW r \in BackupRuns, B!DrillStarts(r) \/ B!DrillEnds(r) PROVE B!BackupInv'
  <2>1. /\ lines' = lines /\ files' = files /\ litter' = litter /\ kills' = kills
        /\ copies' = copies /\ restored' = restored /\ utility[r].job = "drill"
    BY <1>8 DEF B!DrillStarts, B!DrillEnds, B!Is
  <2>2. CASE B!Ends(r)
    BY <1>2, <1>3, <2>1, <2>2, EndedRun DEF B!Is
  <2>3. CASE B!DrillStarts(r)
    <3>1. PICK file : file = files[utility[r].path]
      OBVIOUS
    <3>2. utility[r].path \in Paths /\ utility[r].step = "open"
      BY <2>3 DEF B!DrillStarts, B!Is, B!BackupInv, B!RunsOK
    <3>3. MayGo(r, "filled", file)
      BY <1>1, <2>1, <3>1, <3>2 DEF MayGo, B!BackupInv, B!FilesOK
    <3>4. B!Goes(r, "filled", file)
      BY <2>3, <3>1 DEF B!DrillStarts
    <3>5. utility' \in [BackupRuns -> B!Runs] /\ B!RunsOK'
      BY <1>2, <2>1, <3>3, <3>4, GoneRun
    <3> QED
      BY <1>3, <2>1, <3>4, <3>5 DEF B!Is
  <2> QED
    BY <1>8, <2>2, <2>3 DEF B!DrillEnds
<1>9. ASSUME NEW r \in BackupRuns, B!Clean(r) PROVE B!BackupInv'
  <2>1. /\ lines' = B!Half /\ files' = files /\ litter' = litter /\ kills' = kills
        /\ copies' = copies /\ restored' = B!Half
        /\ utility[r].job = "restore" /\ utility[r].step = "open"
    BY <1>9 DEF B!Clean, B!Is
  <2>2. PICK file : file = files[utility[r].path]
    OBVIOUS
  <2>3. utility[r].path \in Paths /\ file.exists
    BY <2>1, <2>2 DEF B!BackupInv, B!RunsOK
  <2>4. MayGo(r, "fill", file)
    BY <1>1, <2>1, <2>2, <2>3 DEF MayGo, B!BackupInv, B!FilesOK
  <2>5. B!Goes(r, "fill", file)
    BY <1>9, <2>2 DEF B!Clean
  <2>6. utility' \in [BackupRuns -> B!Runs] /\ B!RunsOK'
    BY <1>2, <2>1, <2>4, <2>5, GoneRun
  <2>7. B!Is(r, "restore", "fill")'
    BY <1>1, <2>1, <2>5 DEF B!Goes, B!Is
  <2> QED
    BY <1>1, <2>1, <2>6, <2>7 DEF B!BackupInv, B!BackupTypeOK, B!FilesOK, B!DatabaseOK
<1>10. ASSUME NEW r \in BackupRuns, B!Fill(r) PROVE B!BackupInv'
  <2>1. /\ files' = files /\ litter' = litter /\ kills' = kills /\ copies' = copies
        /\ B!Ends(r) /\ B!Is(r, "restore", "fill")
    BY <1>10 DEF B!Fill
  <2>2. utility' \in [BackupRuns -> B!Runs] /\ B!RunsOK'
    BY <1>2, <2>1, EndedRun
  <2>3. utility[r].file \in B!Contents /\ B!Sound(utility[r].file)
    BY <1>1 DEF B!BackupInv, B!RunsOK, B!Runs
  <2>4. CASE utility[r].file.whole
    <3>1. lines' = utility[r].file.rows /\ restored' = lines' /\ lines' # B!Half /\ lines' \in B!Rows
      BY <1>10, <2>3, <2>4 DEF B!Fill, B!Sound, B!Contents
    <3> QED
      BY <1>1, <2>1, <2>2, <3>1 DEF B!BackupInv, B!BackupTypeOK, B!FilesOK, B!DatabaseOK
  <2>5. CASE ~utility[r].file.whole
    <3>1. lines' = lines /\ restored' = restored
      BY <1>10, <2>5 DEF B!Fill
    <3>2. copies > 0
      BY <2>1, <2>5 DEF B!BackupInv, B!RunsOK
    <3> QED
      BY <1>1, <2>1, <2>2, <3>1, <3>2 DEF B!BackupInv, B!BackupTypeOK, B!FilesOK, B!DatabaseOK
  <2> QED
    BY <2>4, <2>5
<1>11. ASSUME NEW r \in BackupRuns, B!Kill(r) PROVE B!BackupInv'
  <2>1. /\ files' = files /\ copies' = copies /\ kills' = kills + 1 /\ B!Ends(r)
        /\ lines' = lines /\ restored' = restored /\ litter' \in {litter, litter + 1}
    BY <1>11 DEF B!Kill
  <2>2. utility' \in [BackupRuns -> B!Runs] /\ B!RunsOK'
    BY <1>2, <2>1, EndedRun
  <2> QED
    BY <1>1, <2>1, <2>2 DEF B!BackupInv, B!BackupTypeOK, B!FilesOK, B!DatabaseOK
<1>12. ASSUME NEW p \in Paths, NEW q \in Paths, B!Damage(p, q) PROVE B!BackupInv'
  <2>1. /\ copies' = copies + 1 /\ kills' = kills /\ litter' = litter /\ lines' = lines
        /\ restored' = restored /\ utility' = utility /\ files[p].exists
        /\ files' = [files EXCEPT ![q] = [files[p] EXCEPT !.whole = FALSE]]
    BY <1>12 DEF B!Damage
  <2>2. PICK file : file = [files[p] EXCEPT !.whole = FALSE]
    OBVIOUS
  <2>3. file \in B!Contents /\ ~file.whole /\ file.exists /\ B!Sound(file)
    BY <1>1, <2>1, <2>2 DEF B!Contents, B!Sound
  <2>4. files' = [files EXCEPT ![q] = file] /\ copies' \in Nat /\ copies <= copies' /\ copies' > 0
    BY <1>1, <2>1, <2>2
  <2>5. files' \in [Paths -> B!Contents] /\ B!FilesOK' /\ FilesStay
    <3>1. FilePut(q, file)
      BY <2>3, <2>4 DEF FilePut
    <3> QED
      BY <3>1, FilesKept
  <2>6. B!RunsOK'
    BY <2>1, <2>4, <2>5 DEF B!BackupInv, B!RunsOK, B!Is, FilesStay
  <2> QED
    BY <1>1, <2>1, <2>4, <2>5, <2>6 DEF B!BackupInv, B!BackupTypeOK, B!DatabaseOK, B!Is
<1>13. ASSUME NEW r \in BackupRuns, NEW p \in Paths,
              NEW job \in {"create", "verify", "drill", "restore"}, B!Run(r, job, p)
       PROVE  B!BackupInv'
  <2>1. /\ lines' = lines /\ files' = files /\ litter' = litter /\ kills' = kills
        /\ copies' = copies /\ restored' = restored /\ utility[r] = B!Idle
    BY <1>13 DEF B!Run
  <2>2. \A s \in BackupRuns : B!Is(s, "restore", "fill") => B!Is(s, "restore", "fill")'
    BY <1>1, <1>13, <2>1 DEF B!Run, B!Is, B!Idle
  <2> QED
    BY <1>1, <1>13, <2>1, <2>2, RunStep
       DEF B!BackupInv, B!BackupTypeOK, B!FilesOK, B!DatabaseOK
<1>14. CASE B!Write \/ (\E on \in BOOLEAN : B!Serve(on)) \/ UNCHANGED backups
  <2>1. /\ files' = files /\ utility' = utility /\ litter' = litter /\ kills' = kills
        /\ copies' = copies
    BY <1>14 DEF B!Write, B!Serve, backups
  <2>2. \/ lines \in 0..(MaxRows - 1) /\ lines' = lines + 1 /\ restored' = B!Half
        \/ lines' = lines /\ restored' = restored
    BY <1>14 DEF B!Write, B!Serve, backups
  <2>3. lines' \in B!Rows /\ restored' \in B!Rows
    BY <1>1, <2>2, ServerAssumption DEF B!Rows
  <2> QED
    BY <1>1, <2>1, <2>2, <2>3
       DEF B!BackupInv, B!BackupTypeOK, B!FilesOK, B!RunsOK, B!DatabaseOK, B!Is
<1> QED
  BY <1>4, <1>5, <1>6, <1>7, <1>8, <1>9, <1>10, <1>11, <1>12, <1>13, <1>14 DEF B!BackupNext

LEMMA BackupProperty == B!BackupInv => B!BackupIsWhole
BY BackupConstants
   DEF B!BackupInv, B!BackupTypeOK, B!FilesOK, B!DatabaseOK, B!Sound, B!Contents, B!BackupIsWhole

-----------------------------------------------------------------------------
(* Pairing codes (Sessions, as S). *)

LEMMA NoCodeFacts ==
  /\ S!NoCode \in S!CodeRows /\ ~S!NoCode.made /\ ~S!NoCode.used /\ ~S!NoCode.replaced
  /\ S!NoCode.checked = 0 /\ S!NoCode.opened = {}
BY DEF S!NoCode, S!CodeRows

LEMMA CodesBase == S!SessionInit => S!CodesOK
BY NoCodeFacts DEF S!SessionInit, S!CodesOK, S!Active

\* What is asked of the next state of code p alone.
CodeMayBe(p, x) ==
  /\ x \in S!CodeRows
  /\ ~x.made => x = S!NoCode
  /\ x.replaced => x.revoked /\ x.opened = {}
  /\ x.checked = 1 => ~x.used /\ ~x.replaced
  /\ ~x.used => x.opened = {}
  /\ \A s, t \in x.opened : s = t

\* A code becomes x, and not active if it was not.
CodeBecomes(p, x) ==
  /\ CodeMayBe(p, x)
  /\ codes' = [codes EXCEPT ![p] = x]
  /\ x.made /\ ~x.used /\ ~x.revoked /\ ~x.expired => S!Active(p)

LEMMA CodeChanges ==
  ASSUME S!CodesOK, NEW p \in SomeCodes, NEW x, CodeBecomes(p, x)
  PROVE  S!CodesOK'
<1>1. \A q \in SomeCodes : codes'[q] = IF q = p THEN x ELSE codes[q]
  BY DEF CodeBecomes, S!CodesOK
<1>2. codes' \in [SomeCodes -> S!CodeRows]
  BY DEF CodeBecomes, CodeMayBe, S!CodesOK
<1>3. \A q \in SomeCodes : S!Active(q)' => S!Active(q)
  BY <1>1 DEF CodeBecomes, S!Active
<1>4. \A q \in SomeCodes : CodeMayBe(q, codes[q])
  BY DEF CodeMayBe, S!CodesOK
<1>5. \A q \in SomeCodes : CodeMayBe(q, codes'[q])
  BY <1>1, <1>4 DEF CodeBecomes, CodeMayBe
<1> QED
  BY <1>2, <1>3, <1>5 DEF S!CodesOK, CodeMayBe

LEMMA CreateCodeStep ==
  ASSUME S!CodesOK, NEW p \in SomeCodes, S!CreateCode(p)
  PROVE  S!CodesOK'
<1> DEFINE made == [S!NoCode EXCEPT !.made = TRUE]
           gone(q) == [codes[q] EXCEPT !.revoked = TRUE, !.replaced = TRUE]
<1>1. codes \in [SomeCodes -> S!CodeRows] /\ \A q \in SomeCodes : codes[q] \in S!CodeRows
  BY DEF S!CodesOK
<1>2. /\ codes' \in [SomeCodes -> {codes'[q] : q \in SomeCodes}]
      /\ \A q \in SomeCodes : codes'[q] = IF q = p THEN made
                                       ELSE IF S!Active(q) THEN gone(q) ELSE codes[q]
  BY DEF S!CreateCode
<1>3. made \in S!CodeRows /\ made.made /\ ~made.used /\ ~made.replaced /\ made.checked = 0
      /\ made.opened = {}
  BY NoCodeFacts DEF S!CodeRows
<1>4. \A q \in SomeCodes :
        /\ gone(q) \in S!CodeRows /\ gone(q).revoked /\ gone(q).replaced
        /\ gone(q).made = codes[q].made /\ gone(q).used = codes[q].used
        /\ gone(q).checked = codes[q].checked /\ gone(q).opened = codes[q].opened
  BY <1>1 DEF S!CodeRows
<1> HIDE DEF made, gone
<1>5. ASSUME NEW q \in SomeCodes PROVE CodeMayBe(q, codes'[q]) /\ (q # p => ~S!Active(q)')
  <2>1. CASE q = p
    BY <1>2, <1>3, <2>1 DEF CodeMayBe
  <2>2. CASE q # p /\ S!Active(q)
    <3>1. codes[q].checked = 0 /\ codes[q].opened = {} /\ codes[q].made
      BY <2>2 DEF S!CreateCode, S!Active, S!CodesOK
    <3> QED
      BY <1>2, <1>4, <2>2, <3>1 DEF CodeMayBe, S!Active
  <2>3. CASE q # p /\ ~S!Active(q)
    BY <1>2, <2>3 DEF CodeMayBe, S!Active, S!CodesOK
  <2> QED
    BY <2>1, <2>2, <2>3
<1>6. codes' \in [SomeCodes -> S!CodeRows]
  BY <1>2, <1>5 DEF CodeMayBe
<1> QED
  BY <1>5, <1>6 DEF S!CodesOK, CodeMayBe

LEMMA CodesStep == S!CodesOK /\ [S!SessionNext]_phone => S!CodesOK'
<1> SUFFICES ASSUME S!CodesOK, [S!SessionNext]_phone PROVE S!CodesOK'
  OBVIOUS
<1>1. codes \in [SomeCodes -> S!CodeRows] /\ \A p \in SomeCodes : codes[p] \in S!CodeRows
  BY DEF S!CodesOK
<1>2. \A p \in SomeCodes : CodeMayBe(p, codes[p])
  BY DEF CodeMayBe, S!CodesOK
<1>3. ASSUME NEW p \in SomeCodes,
             S!ExpireCode(p) \/ S!BeginRevokeCode(p) \/ S!EndRevokeCode(p) \/ S!BeginExchange(p)
      PROVE  S!CodesOK'
  <2>1. CASE S!ExpireCode(p)
    <3>1. PICK x : x = [codes[p] EXCEPT !.expired = TRUE]
      OBVIOUS
    <3>2. /\ x \in S!CodeRows /\ x.expired /\ x.made = codes[p].made /\ x.used = codes[p].used
          /\ x.revoked = codes[p].revoked /\ x.replaced = codes[p].replaced
          /\ x.checked = codes[p].checked /\ x.opened = codes[p].opened
      BY <1>1, <3>1 DEF S!CodeRows
    <3>3. codes[p].made /\ codes' = [codes EXCEPT ![p] = x]
      BY <1>1, <2>1, <3>1 DEF S!ExpireCode
    <3>4. CodeBecomes(p, x)
      BY <1>2, <3>2, <3>3 DEF CodeBecomes, CodeMayBe
    <3> QED
      BY <3>4, CodeChanges
  <2>2. CASE S!BeginRevokeCode(p)
    <3>1. PICK x : x = [codes[p] EXCEPT !.read = TRUE]
      OBVIOUS
    <3>2. CodeBecomes(p, x)
      BY <1>1, <1>2, <2>2, <3>1
         DEF S!BeginRevokeCode, S!Active, CodeBecomes, CodeMayBe, S!CodeRows
    <3> QED
      BY <3>2, CodeChanges
  <2>3. CASE S!EndRevokeCode(p)
    <3>1. PICK x : x = [codes[p] EXCEPT !.read = FALSE, !.revoked = TRUE]
      OBVIOUS
    <3>2. codes[p].made
      BY <1>2, <2>3 DEF S!EndRevokeCode, CodeMayBe, S!NoCode
    <3>3. /\ x \in S!CodeRows /\ x.expired = codes[p].expired /\ x.made = codes[p].made
          /\ x.used = codes[p].used /\ x.revoked /\ x.replaced = codes[p].replaced
          /\ x.checked = codes[p].checked /\ x.opened = codes[p].opened
      BY <1>1, <3>1 DEF S!CodeRows
    <3>4. codes' = [codes EXCEPT ![p] = x]
      BY <1>1, <2>3, <3>1 DEF S!EndRevokeCode
    <3>5. CodeBecomes(p, x)
      BY <1>2, <3>2, <3>3, <3>4 DEF CodeBecomes, CodeMayBe
    <3> QED
      BY <3>5, CodeChanges
  <2>4. CASE S!BeginExchange(p)
    <3>1. PICK x : x = [codes[p] EXCEPT !.checked = @ + 1]
      OBVIOUS
    <3>2. CodeBecomes(p, x)
      BY <1>1, <1>2, <2>4, <3>1
         DEF S!BeginExchange, S!Active, CodeBecomes, CodeMayBe, S!CodeRows
    <3> QED
      BY <3>2, CodeChanges
  <2> QED
    BY <1>3, <2>1, <2>2, <2>3, <2>4
<1>4. ASSUME NEW p \in SomeCodes, NEW s \in SessionIds, NEW answered \in BOOLEAN,
             S!EndExchange(p, s, answered)
      PROVE  S!CodesOK'
  <2>1. PICK x : x = [codes[p] EXCEPT !.checked = @ - 1, !.used = TRUE, !.opened = @ \cup {s}]
    OBVIOUS
  <2>2. /\ codes[p].checked = 1 /\ codes[p].made /\ ~codes[p].used /\ codes[p].opened = {}
        /\ ~codes[p].replaced
    BY <1>1, <1>2, <1>4 DEF S!EndExchange, CodeMayBe, S!NoCode, S!CodeRows
  <2>3. /\ x \in S!CodeRows /\ x.checked = 0 /\ x.used /\ x.opened = {s} /\ x.made
        /\ ~x.replaced
    <3>1. codes[p].checked - 1 = 0 /\ codes[p].opened \cup {s} = {s}
      BY <2>2
    <3>2. x = [codes[p] EXCEPT !.checked = 0, !.used = TRUE, !.opened = {s}]
      BY <2>1, <3>1
    <3> QED
      BY <1>1, <2>2, <3>2 DEF S!CodeRows
  <2>4. codes' = [codes EXCEPT ![p] = x]
    BY <1>1, <1>4, <2>1 DEF S!EndExchange
  <2>5. CodeBecomes(p, x)
    BY <2>3, <2>4 DEF CodeBecomes, CodeMayBe
  <2> QED
    BY <2>5, CodeChanges
<1>5. CASE codes' = codes
  BY <1>5 DEF S!CodesOK, S!Active
<1>6. (\E s \in SessionIds, answered \in BOOLEAN : S!Login(s, answered)) => codes' = codes
  BY DEF S!Login
<1>7. (\E c \in CodeCalls : \/ S!Ask(c) \/ S!Answered(c) \/ S!Unauthorized(c) \/ S!Enter(c)
                           \/ S!Refresh(c) \/ S!Persist(c) \/ S!RefreshRefused(c)
                           \/ S!RefreshFails(c)) => codes' = codes
  BY DEF S!Ask, S!Answered, S!Unauthorized, S!Enter, S!Refresh, S!Persist,
     S!RefreshRefused, S!RefreshFails
<1>8. S!Expire \/ S!BeginLogout \/ (\E reached \in BOOLEAN : S!EndLogout(reached)) \/ S!Killed
      \/ (\E s \in SessionIds : S!RevokeSession(s)) \/ S!ChangePassword => codes' = codes
  BY DEF S!Expire, S!BeginLogout, S!EndLogout, S!Killed, S!RevokeSession, S!ChangePassword
<1>9. CASE UNCHANGED phone
  BY <1>5, <1>9 DEF phone
<1>10. CASE \E p \in SomeCodes : S!CreateCode(p)
  BY <1>10, CreateCodeStep
<1> QED
  BY <1>3, <1>4, <1>5, <1>6, <1>7, <1>8, <1>9, <1>10 DEF S!SessionNext

\* A set whose members are all the same has at most one.
LEMMA AtMostOne ==
  ASSUME NEW X, \A x, y \in X : x = y PROVE Cardinality(X) <= 1 /\ Cardinality(X) \in Nat
<1>1. CASE X = {}
  BY <1>1, FS_EmptySet
<1>2. CASE X # {}
  <2>1. PICK x \in X : X = {x}
    BY <1>2
  <2> QED
    BY <2>1, FS_Singleton
<1> QED
  BY <1>1, <1>2

LEMMA CodesProperty == S!CodesOK => S!CodesAreOneTime
<1> SUFFICES ASSUME S!CodesOK PROVE S!CodesAreOneTime
  OBVIOUS
<1>1. \A X : S!Cardinality(X) = Cardinality(X)
  BY DEF S!Cardinality, Cardinality
<1>2. Cardinality({p \in SomeCodes : S!Active(p)}) <= 1
  BY AtMostOne DEF S!CodesOK
<1>3. ASSUME NEW p \in SomeCodes
      PROVE  Cardinality(codes[p].opened) <= (IF codes[p].replaced THEN 0 ELSE 1)
  <2>1. CASE codes[p].replaced
    BY <2>1, FS_EmptySet DEF S!CodesOK
  <2>2. CASE ~codes[p].replaced
    <3>1. \A s, t \in codes[p].opened : s = t
      BY DEF S!CodesOK
    <3> QED
      BY <2>2, <3>1, AtMostOne
  <2> QED
    BY <2>1, <2>2
<1> QED
  BY <1>1, <1>2, <1>3 DEF S!CodesAreOneTime

-----------------------------------------------------------------------------
(* Renewals of a session (Sessions, as R). *)

LEMMA StepFacts ==
  /\ \A x \in R!Steps :
       /\ x.step \in {"ready", "asking", "waiting", "renewing", "renewed"}
       /\ x.step = "asking" => x.access \in Nat
       /\ x.step \in {"waiting", "renewing", "renewed"} =>
            /\ x \in R!Holding
            /\ x.session \in SessionIds /\ x.refresh \in Nat /\ x.access \in Nat
  /\ R!Holding \subseteq R!Steps
  /\ R!Ready \in R!Steps /\ R!Ready.step = "ready"
BY DEF R!Steps, R!Holding, R!Ready

LEMMA StoreFacts ==
  /\ R!Out.session = 0 /\ R!Out.refresh = 0 /\ R!Out.access = 0 /\ R!Out \notin R!Tokens
  /\ \A x \in R!Tokens : x.session \in SessionIds /\ x.refresh \in Nat /\ x.access \in Nat
  /\ \A x \in R!Tokens \cup {R!Out} : x = R!Out <=> x.session = 0
  /\ 0 \notin SessionIds
BY ServerAssumption DEF R!Out, R!Tokens

LEMMA RenewalBase == R!SessionInit => R!RenewalInv
BY StepFacts, StoreFacts
   DEF R!SessionInit, R!RenewalInv, R!SessionTypeOK, R!TokensOK, R!RenewalsOK, R!StaysIn,
       R!Holds, R!Renews, R!Ready

\* A call goes to another step, which is not the end of a renewal, with the token it
\* had or the one of the store.
SameToken(x, y) == x.session = y.session /\ x.refresh = y.refresh /\ x.access = y.access
CallBecomes(c, x) ==
  /\ calls' = [calls EXCEPT ![c] = x] /\ x \in R!Steps
  /\ sessions' = sessions /\ access' = access /\ store' = store /\ leaving' = leaving
  /\ ousted' = ousted /\ astray' = astray /\ expired' = expired
  /\ calls[c].step # "renewed" /\ x.step # "renewed"
  /\ x.step \in {"waiting", "renewing"} =>
       (R!Holds(c) /\ SameToken(x, calls[c])) \/ (store # R!Out /\ SameToken(x, store))
  /\ x.step = "renewing" =>
       /\ \A d \in SomeCalls : ~R!Renews(d)
       /\ store.session = x.session => store.refresh = x.refresh

LEMMA CallMoves ==
  ASSUME R!RenewalInv, NEW c \in SomeCalls, NEW x, CallBecomes(c, x)
  PROVE  R!RenewalInv'
<1> USE DEF R!RenewalInv, CallBecomes
<1>1. calls \in [SomeCalls -> R!Steps] /\ \A d \in SomeCalls : calls[d] \in R!Steps
  BY DEF R!SessionTypeOK
<1>2. \A d \in SomeCalls : calls'[d] = IF d = c THEN x ELSE calls[d]
  BY <1>1
<1>3. R!SessionTypeOK'
  BY <1>1 DEF R!SessionTypeOK
<1>4. x.step \in {"ready", "asking", "waiting", "renewing"}
  BY StepFacts
<1>5. R!TokensOK'
  <2>1. store # R!Out => R!Known(store)'
    BY DEF R!TokensOK, R!Known
  <2>2. \A d \in SomeCalls : R!Holds(d)' =>
          \/ R!Holds(d) /\ SameToken(calls'[d], calls[d])
          \/ store # R!Out /\ SameToken(calls'[d], store)
    <3>1. R!Holds(c)' => x.step \in {"waiting", "renewing"}
      BY <1>2, <1>4 DEF R!Holds
    <3> QED
      BY <1>2, <3>1 DEF R!Holds, SameToken
  <2>3. ASSUME NEW d \in SomeCalls, R!Holds(d)'
        PROVE  R!Known(calls[d])' /\ (store # R!Out => R!Agree(calls[d], store)')
    BY <2>2, <2>3 DEF R!TokensOK, R!Known, R!Agree, SameToken
  <2>4. ASSUME NEW d \in SomeCalls, R!Holds(d)', NEW e \in SomeCalls, R!Holds(e)'
        PROVE  R!Agree(calls[d], calls[e])'
    <3>1. ASSUME NEW y, NEW z,
                 \/ y = store /\ store # R!Out
                 \/ \E f \in SomeCalls : R!Holds(f) /\ y = calls[f],
                 \/ z = store /\ store # R!Out
                 \/ \E f \in SomeCalls : R!Holds(f) /\ z = calls[f]
          PROVE  R!Agree(y, z)
      BY <3>1 DEF R!TokensOK, R!Agree
    <3>2. \E y : /\ \/ y = store /\ store # R!Out
                    \/ \E f \in SomeCalls : R!Holds(f) /\ y = calls[f]
                 /\ SameToken(calls'[d], y)
      BY <2>2, <2>4
    <3>3. \E y : /\ \/ y = store /\ store # R!Out
                    \/ \E f \in SomeCalls : R!Holds(f) /\ y = calls[f]
                 /\ SameToken(calls'[e], y)
      BY <2>2, <2>4
    <3>4. \A y, z : R!Agree(y, z) /\ SameToken(calls'[d], y) /\ SameToken(calls'[e], z)
                    => R!Agree(calls[d], calls[e])'
      BY DEF R!Agree, SameToken
    <3> QED
      BY <3>1, <3>2, <3>3, <3>4
  <2> QED
    BY <2>1, <2>3, <2>4 DEF R!TokensOK
<1>6. R!RenewalsOK'
  BY <1>2, <1>4 DEF R!RenewalsOK, R!Renews
<1>7. R!StaysIn'
  BY <1>2 DEF R!StaysIn, R!Revoked
<1> QED
  BY <1>3, <1>5, <1>6, <1>7

\* Calls are given up, the store is emptied or stays, sessions are revoked or stay; what is
\* lost on the way is astray.
Dropped ==
  /\ sessions' \in [SessionIds -> [count : Nat, revoked : BOOLEAN]]
  /\ \A s \in SessionIds :
       sessions'[s].count = sessions[s].count /\ (sessions[s].revoked => sessions'[s].revoked)
  /\ access' = access /\ store' \in {store, R!Out}
  /\ expired' \in Nat /\ leaving' \in SessionIds \cup {0}
  /\ calls' \in [SomeCalls -> R!Steps]
  /\ \A c \in SomeCalls : calls'[c] \in {calls[c], R!Ready}
  /\ \A c \in SomeCalls : calls[c].step = "renewed" /\ calls'[c] = R!Ready =>
       store' = R!Out \/ calls[c].session \in astray'
  /\ astray \subseteq astray' /\ ousted' \ astray' \subseteq R!Revoked'

LEMMA DroppedKeeps == R!RenewalInv /\ Dropped => R!RenewalInv'
<1> SUFFICES ASSUME R!RenewalInv, Dropped PROVE R!RenewalInv'
  OBVIOUS
<1>1. /\ sessions \in [SessionIds -> [count : Nat, revoked : BOOLEAN]]
      /\ store \in R!Tokens \cup {R!Out} /\ store' \in R!Tokens \cup {R!Out}
      /\ store' \in {store, R!Out} /\ access' = access
  BY DEF R!RenewalInv, R!SessionTypeOK, Dropped
<1>2. \A s \in SessionIds :
        sessions'[s].count = sessions[s].count /\ (sessions[s].revoked => sessions'[s].revoked)
  BY DEF Dropped
<1>3. R!SessionTypeOK'
  BY <1>1 DEF R!RenewalInv, R!SessionTypeOK, Dropped
<1>4. \A c \in SomeCalls : calls'[c] = calls[c] \/ (calls'[c].step = "ready" /\ calls'[c] = R!Ready)
  BY StepFacts DEF Dropped
<1>5. \A c \in SomeCalls : R!Holds(c) => calls[c].session \in SessionIds
  BY StepFacts DEF R!RenewalInv, R!SessionTypeOK, R!Holds
<1>6. R!TokensOK'
  <2>1. ASSUME NEW x, x.session \in SessionIds, R!Known(x)
        PROVE  sessions'[x.session].count > 0 /\ x.access \in 1..access'
    <3>1. sessions'[x.session].count = sessions[x.session].count
      BY <1>2, <2>1
    <3> QED
      BY <1>1, <2>1, <3>1 DEF R!Known
  <2>2. store' # R!Out => R!Known(store)'
    <3>1. ASSUME store' # R!Out PROVE store' = store /\ store.session \in SessionIds /\ R!Known(store)
      BY <1>1, <3>1, StoreFacts DEF R!RenewalInv, R!TokensOK
    <3> QED
      BY <2>1, <3>1 DEF R!Known
  <2>3. ASSUME NEW c \in SomeCalls, R!Holds(c)'
        PROVE  /\ R!Known(calls[c])'
               /\ store' # R!Out => R!Agree(calls[c], store)'
               /\ \A d \in SomeCalls : R!Holds(d)' => R!Agree(calls[c], calls[d])'
    <3>1. R!Holds(c) /\ calls'[c] = calls[c] /\ R!Known(calls[c])
      BY <1>4, <2>3 DEF R!RenewalInv, R!TokensOK, R!Holds
    <3>2. R!Known(calls[c])'
      BY <1>5, <2>1, <3>1 DEF R!Known
    <3>3. store' # R!Out => R!Agree(calls[c], store)'
      BY <1>1, <3>1 DEF R!RenewalInv, R!TokensOK, R!Agree
    <3>4. \A d \in SomeCalls : R!Holds(d)' => R!Agree(calls[c], calls[d])'
      BY <1>4, <3>1 DEF R!RenewalInv, R!TokensOK, R!Agree, R!Holds
    <3> QED
      BY <3>2, <3>3, <3>4
  <2> QED
    BY <2>2, <2>3 DEF R!TokensOK
<1>7. R!RenewalsOK'
  <2>1. \A c \in SomeCalls : R!Renews(c)' => R!Renews(c) /\ calls'[c] = calls[c] /\ R!Holds(c)
    BY <1>4 DEF R!Renews, R!Holds
  <2>2. \A c, d \in SomeCalls : R!Renews(c)' /\ R!Renews(d)' => c = d
    BY <2>1 DEF R!RenewalInv, R!RenewalsOK
  <2>3. ASSUME NEW c \in SomeCalls, R!Renews(c)'
        PROVE  /\ calls'[c].step = "renewed" => sessions'[calls'[c].session].count = calls'[c].refresh
               /\ calls'[c].step = "renewing" /\ store'.session = calls'[c].session =>
                    store'.refresh = calls'[c].refresh
    <3>1. calls'[c] = calls[c] /\ calls[c].session \in SessionIds
      BY <1>5, <2>1, <2>3
    <3>2. sessions'[calls[c].session].count = sessions[calls[c].session].count
      BY <1>2, <3>1
    <3>3. store' = store \/ store'.session # calls[c].session
      BY <1>1, <3>1, StoreFacts
    <3> QED
      BY <3>1, <3>2, <3>3 DEF R!RenewalInv, R!RenewalsOK
  <2> QED
    BY <2>2, <2>3 DEF R!RenewalsOK, R!Renews
<1>8. R!StaysIn'
  <2>1. ousted' \ astray' \subseteq R!Revoked' /\ astray \subseteq astray'
    BY DEF Dropped
  <2>2. ASSUME store'.session \notin astray' \cup R!Revoked' \cup {0}
        PROVE  \/ sessions'[store'.session].count = store'.refresh
               \/ \E c \in SomeCalls : calls'[c].step = "renewed" /\ calls'[c].session = store'.session
    <3>1. store' = store /\ store # R!Out /\ store.session \in SessionIds
      BY <1>1, <2>2, StoreFacts
    <3>2. store.session \notin R!Revoked
      BY <1>2, <2>2, <3>1 DEF R!Revoked
    <3>3. \/ sessions[store.session].count = store.refresh
          \/ \E c \in SomeCalls : calls[c].step = "renewed" /\ calls[c].session = store.session
      BY <2>1, <2>2, <3>1, <3>2 DEF R!RenewalInv, R!StaysIn
    <3>4. sessions'[store.session].count = sessions[store.session].count
      BY <1>2, <3>1
    <3>5. ASSUME NEW c \in SomeCalls, calls[c].step = "renewed", calls[c].session = store.session
          PROVE  calls'[c] = calls[c]
      BY <1>4, <2>2, <3>1, <3>5 DEF Dropped
    <3> QED
      BY <3>1, <3>3, <3>4, <3>5
  <2> QED
    BY <2>1, <2>2 DEF R!StaysIn
<1> QED
  BY <1>3, <1>6, <1>7, <1>8 DEF R!RenewalInv

LEMMA QuietStep ==
  ASSUME R!RenewalInv,
         \/ R!Expire \/ R!BeginLogout \/ UNCHANGED phone
         \/ \E p \in RenewalCodes : \/ R!CreateCode(p) \/ R!ExpireCode(p)
                                   \/ R!BeginRevokeCode(p) \/ R!EndRevokeCode(p)
                                   \/ R!BeginExchange(p)
  PROVE  R!RenewalInv'
<1>1. /\ sessions' = sessions /\ access' = access /\ store' = store /\ calls' = calls
      /\ ousted' = ousted /\ astray' = astray
      /\ leaving' \in {leaving, store.session} /\ expired' \in {expired, expired + 1}
  BY DEF R!Expire, R!BeginLogout, phone, R!CreateCode, R!ExpireCode, R!BeginRevokeCode,
     R!EndRevokeCode, R!BeginExchange
<1>2. /\ sessions \in [SessionIds -> [count : Nat, revoked : BOOLEAN]]
      /\ calls \in [SomeCalls -> R!Steps] /\ expired \in Nat
      /\ leaving \in SessionIds \cup {0} /\ store.session \in SessionIds \cup {0}
  BY StoreFacts DEF R!RenewalInv, R!SessionTypeOK
<1>3. ousted \ astray \subseteq R!Revoked
  BY DEF R!RenewalInv, R!StaysIn
<1>4. Dropped
  <2>1. \A c \in SomeCalls : calls[c].step = "renewed" => calls[c] # R!Ready
    BY StepFacts
  <2>2. R!Revoked' = R!Revoked
    BY <1>1 DEF R!Revoked
  <2> QED
    BY <1>1, <1>2, <1>3, <2>1, <2>2 DEF Dropped
<1> QED
  BY <1>4, DroppedKeeps

LEMMA CallFacts ==
  ASSUME R!RenewalInv
  PROVE  /\ calls \in [SomeCalls -> R!Steps] /\ \A c \in SomeCalls : calls[c] \in R!Steps
         /\ store \in R!Tokens \cup {R!Out}
         /\ sessions \in [SessionIds -> [count : Nat, revoked : BOOLEAN]]
         /\ access \in Nat /\ expired \in Nat /\ leaving \in SessionIds \cup {0}
         /\ ousted \ astray \subseteq R!Revoked
BY DEF R!RenewalInv, R!SessionTypeOK, R!StaysIn

LEMMA AskingStep ==
  ASSUME R!RenewalInv, NEW c \in SomeCalls,
         R!Ask(c) \/ R!Answered(c) \/ R!Unauthorized(c) \/ R!Enter(c)
  PROVE  R!RenewalInv'
<1> USE StepFacts, StoreFacts
<1>1. /\ sessions' = sessions /\ access' = access /\ store' = store /\ leaving' = leaving
      /\ ousted' = ousted /\ astray' = astray /\ expired' = expired
  BY DEF R!Ask, R!Answered, R!Unauthorized, R!Enter
<1>2. calls[c].step # "renewed"
  BY DEF R!Ask, R!Answered, R!Unauthorized, R!Enter
<1>3. CASE R!Ask(c)
  <2>1. PICK x : x = [step |-> "asking", access |-> store.access]
    OBVIOUS
  <2>2. x \in R!Steps
    BY <2>1, CallFacts DEF R!Steps
  <2>3. CallBecomes(c, x)
    BY <1>1, <1>2, <1>3, <2>1, <2>2 DEF CallBecomes, R!Ask
  <2> QED
    BY <2>3, CallMoves
<1>4. CASE calls' = [calls EXCEPT ![c] = R!Ready]
  <2>1. CallBecomes(c, R!Ready)
    BY <1>1, <1>2, <1>4 DEF CallBecomes
  <2> QED
    BY <2>1, CallMoves
<1>5. CASE R!Unauthorized(c) /\ store # R!Out
  <2>1. PICK x : x = [step |-> "waiting", session |-> store.session, refresh |-> store.refresh,
                      access |-> store.access]
    OBVIOUS
  <2>2. store \in R!Tokens
    BY <1>5, CallFacts
  <2>3. x \in R!Steps /\ SameToken(x, store) /\ x.step = "waiting"
    BY <2>1, <2>2 DEF R!Steps, R!Holding, SameToken
  <2>4. calls' = [calls EXCEPT ![c] = x]
    BY <1>5, <2>1 DEF R!Unauthorized
  <2>5. CallBecomes(c, x)
    BY <1>1, <1>2, <1>5, <2>3, <2>4 DEF CallBecomes
  <2> QED
    BY <2>5, CallMoves
<1>6. CASE R!Enter(c) /\ store.access \in {0, calls[c].access}
  <2>1. PICK x : x = [calls[c] EXCEPT !.step = "renewing"]
    OBVIOUS
  <2>2. calls[c] \in R!Holding /\ R!Holds(c)
    BY <1>6, CallFacts DEF R!Enter, R!Holds
  <2>3. x \in R!Holding /\ SameToken(x, calls[c]) /\ x.step = "renewing"
    BY <2>1, <2>2 DEF R!Holding, SameToken
  <2>4. calls' = [calls EXCEPT ![c] = x]
    BY <1>6, <2>1, CallFacts DEF R!Enter
  <2>5. \A d \in SomeCalls : ~R!Renews(d)
    BY <1>6 DEF R!Enter, R!Locked, R!Renews
  <2>6. store # R!Out => R!Agree(calls[c], store) /\ store.access # 0
    BY <2>2 DEF R!RenewalInv, R!TokensOK, R!Known
  <2>7. store.session = calls[c].session => store.refresh = calls[c].refresh
    <3>1. CASE store = R!Out
      BY <2>2, <3>1 DEF R!Holding
    <3>2. CASE store # R!Out
      BY <1>6, <2>6, <3>2 DEF R!Agree
    <3> QED
      BY <3>1, <3>2
  <2>8. CallBecomes(c, x)
    BY <1>1, <1>2, <2>2, <2>3, <2>4, <2>5, <2>7 DEF CallBecomes, SameToken
  <2> QED
    BY <2>8, CallMoves
<1>7. R!Answered(c) => calls' = [calls EXCEPT ![c] = R!Ready]
  BY DEF R!Answered
<1>8. R!Unauthorized(c) /\ store = R!Out => calls' = [calls EXCEPT ![c] = R!Ready]
  BY DEF R!Unauthorized
<1>9. R!Enter(c) /\ store.access \notin {0, calls[c].access} => calls' = [calls EXCEPT ![c] = R!Ready]
  BY DEF R!Enter
<1> QED
  BY <1>3, <1>4, <1>5, <1>6, <1>7, <1>8, <1>9

\* Sessions that end, calls that are given up.
LEMMA EndingStep ==
  ASSUME R!RenewalInv,
         \/ \E c \in SomeCalls : R!RefreshRefused(c) \/ R!RefreshFails(c)
         \/ \E reached \in BOOLEAN : R!EndLogout(reached)
         \/ R!Killed \/ R!ChangePassword \/ \E s \in SessionIds : R!RevokeSession(s)
  PROVE  R!RenewalInv'
<1> USE StepFacts, StoreFacts, CallFacts
<1>1. \A c \in SomeCalls : calls[c].step = "renewed" => calls[c] # R!Ready
  OBVIOUS
<1>2. ASSUME NEW c \in SomeCalls, R!RefreshRefused(c) PROVE Dropped
  <2>1. /\ sessions' = sessions /\ access' = access /\ store' = R!Out /\ leaving' = leaving
        /\ expired' = expired /\ calls' = [calls EXCEPT ![c] = R!Ready]
        /\ ousted' = ousted \cup ({store.session} \ {0})
        /\ astray' = astray \cup {} \cup (IF store.session # calls[c].session
                                          THEN {store.session} \ {0} ELSE {})
    BY <1>2 DEF R!RefreshRefused, R!GivenUp
  <2>2. R!Revoked' = R!Revoked
    BY <2>1 DEF R!Revoked
  <2>3. store.session = calls[c].session => store.session \in astray \cup R!Revoked
    <3>1. SUFFICES ASSUME store.session = calls[c].session, store.session \notin astray \cup R!Revoked
                   PROVE  FALSE
      OBVIOUS
    <3>2. calls[c].step = "renewing" /\ ~R!InForce(c)
      BY <1>2 DEF R!RefreshRefused
    <3>3. store.session \in SessionIds /\ store.refresh = calls[c].refresh
      BY <3>1, <3>2 DEF R!RenewalInv, R!RenewalsOK
    <3>4. sessions[store.session].count = store.refresh
      BY <3>1, <3>2, <3>3 DEF R!RenewalInv, R!RenewalsOK, R!Renews, R!StaysIn
    <3> QED
      BY <3>1, <3>2, <3>3, <3>4 DEF R!InForce, R!Revoked
  <2>4. ousted' \ astray' \subseteq R!Revoked'
    BY <2>1, <2>2, <2>3
  <2> QED
    BY <2>1, <2>4 DEF Dropped
<1>3. ASSUME NEW c \in SomeCalls, R!RefreshFails(c) PROVE Dropped
  <2>1. /\ sessions' = sessions /\ access' = access /\ store' = R!Out /\ leaving' = leaving
        /\ expired' = expired /\ calls' = [calls EXCEPT ![c] = R!Ready]
        /\ ousted' = ousted \cup ({store.session} \ {0})
        /\ astray' = astray \cup {calls[c].session} \cup (IF store.session # calls[c].session
                                                         THEN {store.session} \ {0} ELSE {})
    BY <1>3 DEF R!RefreshFails, R!GivenUp
  <2>2. R!Revoked' = R!Revoked
    BY <2>1 DEF R!Revoked
  <2>3. ousted' \ astray' \subseteq R!Revoked'
    BY <2>1, <2>2
  <2> QED
    BY <2>1, <2>3 DEF Dropped
<1>4. ASSUME NEW reached \in BOOLEAN, R!EndLogout(reached) PROVE Dropped
  <2>1. /\ access' = access /\ store' = R!Out /\ leaving' = 0 /\ expired' = expired
        /\ calls' = calls /\ ousted' = ousted /\ astray' = astray /\ leaving \in SessionIds
        /\ sessions' = IF reached THEN [sessions EXCEPT ![leaving].revoked = TRUE] ELSE sessions
    BY <1>4 DEF R!EndLogout
  <2>2. /\ sessions' \in [SessionIds -> [count : Nat, revoked : BOOLEAN]]
        /\ \A s \in SessionIds :
             sessions'[s].count = sessions[s].count /\ (sessions[s].revoked => sessions'[s].revoked)
    BY <2>1
  <2>3. R!Revoked \subseteq R!Revoked'
    BY <2>2 DEF R!Revoked
  <2> QED
    BY <1>1, <2>1, <2>2, <2>3 DEF Dropped
<1>5. ASSUME R!Killed PROVE Dropped
  <2>1. /\ sessions' = sessions /\ access' = access /\ store' = store /\ leaving' = 0
        /\ expired' = expired /\ calls' = [c \in SomeCalls |-> R!Ready] /\ ousted' = ousted
        /\ astray' = astray \cup {calls[c].session : c \in {d \in SomeCalls : calls[d].step = "renewed"}}
    BY <1>5 DEF R!Killed
  <2>2. R!Revoked' = R!Revoked
    BY <2>1 DEF R!Revoked
  <2> QED
    BY <2>1, <2>2 DEF Dropped
<1>6. ASSUME R!ChangePassword \/ \E s \in SessionIds : R!RevokeSession(s) PROVE Dropped
  <2>1. /\ access' = access /\ store' = store /\ leaving' = leaving /\ expired' = expired
        /\ calls' = calls /\ ousted' = ousted /\ astray' = astray
    BY <1>6 DEF R!ChangePassword, R!RevokeSession
  <2>2. \A x \in [count : Nat, revoked : BOOLEAN] :
          /\ [x EXCEPT !.revoked = TRUE] \in [count : Nat, revoked : BOOLEAN]
          /\ [x EXCEPT !.revoked = TRUE].count = x.count /\ [x EXCEPT !.revoked = TRUE].revoked
    OBVIOUS
  <2>3. /\ sessions' \in [SessionIds -> [count : Nat, revoked : BOOLEAN]]
        /\ \A s \in SessionIds :
             sessions'[s].count = sessions[s].count /\ (sessions[s].revoked => sessions'[s].revoked)
    <3>1. CASE R!ChangePassword
      BY <2>2, <3>1 DEF R!ChangePassword
    <3>2. CASE \E s \in SessionIds : R!RevokeSession(s)
      BY <2>2, <3>2 DEF R!RevokeSession
    <3> QED
      BY <1>6, <3>1, <3>2
  <2>4. R!Revoked \subseteq R!Revoked'
    BY <2>3 DEF R!Revoked
  <2> QED
    BY <1>1, <2>1, <2>3, <2>4 DEF Dropped
<1> QED
  BY <1>2, <1>3, <1>4, <1>5, <1>6, DroppedKeeps

\* A new session, whose token is the newest.
LEMMA OpenedStep ==
  ASSUME R!RenewalInv, NEW s \in SessionIds, NEW answered \in BOOLEAN, R!Opened(s, answered)
  PROVE  R!RenewalInv'
<1> USE StepFacts, StoreFacts
<1>1. /\ sessions[s].count = 0 /\ sessions' = [sessions EXCEPT ![s].count = 1]
      /\ access' = access + 1 /\ expired' = expired /\ calls' = calls /\ leaving' = leaving
      /\ ousted' = ousted /\ astray' = astray
      /\ answered => store = R!Out
      /\ store' = IF answered THEN [session |-> s, refresh |-> 1, access |-> access + 1] ELSE store
  BY DEF R!Opened, R!Unused
<1>2. /\ sessions' \in [SessionIds -> [count : Nat, revoked : BOOLEAN]]
      /\ \A t \in SessionIds : sessions'[t].revoked = sessions[t].revoked
      /\ \A t \in SessionIds \ {s} : sessions'[t] = sessions[t]
      /\ sessions'[s].count = 1
  BY <1>1, CallFacts
<1>3. \/ /\ store' = store /\ ~answered
      \/ /\ store = R!Out /\ store' \in R!Tokens /\ store'.session = s /\ store'.refresh = 1
         /\ store'.access = access + 1
  BY <1>1, CallFacts DEF R!Tokens
<1>4. R!SessionTypeOK'
  BY <1>1, <1>2, <1>3 DEF R!RenewalInv, R!SessionTypeOK
<1>5. \A x : R!Known(x) /\ x.session \in SessionIds =>
        /\ x.session # s /\ sessions'[x.session] = sessions[x.session]
        /\ x.access \in 1..access' /\ x.access # access + 1
  BY <1>1, <1>2, CallFacts DEF R!Known
<1>6. \A c \in SomeCalls : R!Holds(c) => R!Known(calls[c]) /\ calls[c].session \in SessionIds
  BY CallFacts DEF R!RenewalInv, R!TokensOK, R!Holds
<1>7. R!TokensOK'
  <2>1. store' # R!Out => R!Known(store)'
    <3>1. CASE store' = store /\ store # R!Out
      <4>1. R!Known(store) /\ store.session \in SessionIds
        BY <3>1, CallFacts DEF R!RenewalInv, R!TokensOK
      <4> QED
        BY <1>5, <3>1, <4>1 DEF R!Known
    <3>2. CASE store' \in R!Tokens /\ store'.session = s /\ store'.access = access + 1
      BY <1>1, <1>2, <3>2, CallFacts DEF R!Known
    <3> QED
      BY <1>3, <3>1, <3>2
  <2>2. ASSUME NEW c \in SomeCalls, R!Holds(c)'
        PROVE  /\ R!Known(calls[c])'
               /\ store' # R!Out => R!Agree(calls[c], store)'
               /\ \A d \in SomeCalls : R!Holds(d)' => R!Agree(calls[c], calls[d])'
    <3>1. calls' = calls /\ R!Holds(c)
      BY <1>1, <2>2 DEF R!Holds
    <3>2. R!Known(calls[c])'
      BY <1>5, <1>6, <3>1 DEF R!Known
    <3>3. store' # R!Out => R!Agree(calls[c], store)'
      BY <1>3, <1>5, <1>6, <3>1 DEF R!RenewalInv, R!TokensOK, R!Agree
    <3>4. \A d \in SomeCalls : R!Holds(d)' => R!Agree(calls[c], calls[d])'
      BY <3>1 DEF R!RenewalInv, R!TokensOK, R!Agree, R!Holds
    <3> QED
      BY <3>2, <3>3, <3>4
  <2> QED
    BY <2>1, <2>2 DEF R!TokensOK
<1>8. R!RenewalsOK'
  <2>1. \A c, d \in SomeCalls : R!Renews(c)' /\ R!Renews(d)' => c = d
    BY <1>1 DEF R!RenewalInv, R!RenewalsOK, R!Renews
  <2>2. ASSUME NEW c \in SomeCalls, R!Holds(c)
        PROVE  /\ calls'[c].step = "renewed" => sessions'[calls'[c].session].count = calls'[c].refresh
               /\ calls'[c].step = "renewing" /\ store'.session = calls'[c].session =>
                    store'.refresh = calls'[c].refresh
    <3>1. calls' = calls /\ calls[c].session # s /\ sessions'[calls[c].session] = sessions[calls[c].session]
      BY <1>1, <1>5, <1>6, <2>2
    <3> QED
      BY <1>3, <3>1 DEF R!RenewalInv, R!RenewalsOK
  <2>3. \A c \in SomeCalls : calls'[c].step \in {"renewing", "renewed"} => R!Holds(c)
    BY <1>1 DEF R!Holds
  <2> QED
    BY <2>1, <2>2, <2>3 DEF R!RenewalsOK, R!Renews
<1>9. R!StaysIn'
  <2>1. R!Revoked' = R!Revoked
    BY <1>2 DEF R!Revoked
  <2>2. CASE store' = store /\ store # R!Out
    <3>1. R!Known(store) /\ store.session \in SessionIds
      BY <2>2, CallFacts DEF R!RenewalInv, R!TokensOK
    <3>2. sessions'[store.session] = sessions[store.session]
      BY <1>5, <3>1
    <3> QED
      BY <1>1, <2>1, <2>2, <3>2 DEF R!RenewalInv, R!StaysIn
  <2>3. CASE store' = R!Out
    BY <1>1, <2>1, <2>3, CallFacts DEF R!StaysIn
  <2>4. CASE store'.session = s /\ store'.refresh = 1
    BY <1>1, <1>2, <2>1, <2>4, CallFacts DEF R!StaysIn
  <2> QED
    BY <1>3, <2>2, <2>3, <2>4
<1> QED
  BY <1>4, <1>7, <1>8, <1>9 DEF R!RenewalInv

\* Only one call renews, so the token that is replaced is the one in force.
LEMMA RefreshStep ==
  ASSUME R!RenewalInv, NEW c \in SomeCalls, R!Refresh(c)
  PROVE  R!RenewalInv'
<1> USE StepFacts, StoreFacts
<1> PICK s : s = calls[c].session
  OBVIOUS
<1>1. /\ calls[c].step = "renewing" /\ calls[c] \in R!Holding /\ s \in SessionIds
      /\ sessions[s].count = calls[c].refresh /\ R!Holds(c) /\ R!Renews(c)
      /\ access' = access + 1 /\ expired' = expired /\ store' = store /\ leaving' = leaving
      /\ ousted' = ousted /\ astray' = astray
      /\ sessions' = [sessions EXCEPT ![s].count = @ + 1]
  BY CallFacts DEF R!Refresh, R!InForce, R!Holds, R!Renews
<1>2. \E x \in R!Holding :
        /\ x.step = "renewed" /\ x.session = s /\ x.refresh = calls[c].refresh + 1
        /\ x.access = access + 1 /\ calls' = [calls EXCEPT ![c] = x]
  <2> DEFINE new == [step |-> "renewed", session |-> s, refresh |-> calls[c].refresh + 1,
                     access |-> access + 1]
  <2>1. calls[c].refresh \in Nat /\ access \in Nat
    BY <1>1, CallFacts DEF R!Holding
  <2>2. new \in R!Holding
    BY <1>1, <2>1 DEF R!Holding
  <2>5. calls' = [calls EXCEPT ![c] = new]
    BY CallFacts DEF R!Refresh
  <2> HIDE DEF new
  <2>6. new.step = "renewed" /\ new.session = s /\ new.refresh = calls[c].refresh + 1
        /\ new.access = access + 1
    BY DEF new
  <2> QED
    BY <2>2, <2>5, <2>6
<1> PICK x \in R!Holding :
      /\ x.step = "renewed" /\ x.session = s /\ x.refresh = calls[c].refresh + 1
      /\ x.access = access + 1 /\ calls' = [calls EXCEPT ![c] = x]
  BY <1>2
<1>3. /\ sessions' \in [SessionIds -> [count : Nat, revoked : BOOLEAN]]
      /\ \A t \in SessionIds : sessions'[t].revoked = sessions[t].revoked
      /\ \A t \in SessionIds \ {s} : sessions'[t] = sessions[t]
      /\ sessions'[s].count = sessions[s].count + 1
  BY <1>1, CallFacts
<1>4. \A d \in SomeCalls : calls'[d] = IF d = c THEN x ELSE calls[d]
  BY <1>2, CallFacts
<1>5. R!SessionTypeOK'
  BY <1>1, <1>2, <1>3, CallFacts DEF R!RenewalInv, R!SessionTypeOK
<1>6. ASSUME NEW y, R!Known(y), y.session \in SessionIds
      PROVE  sessions'[y.session].count > 0 /\ y.access \in 1..access' /\ y.access # access + 1
  <2>1. sessions'[y.session].count = sessions[y.session].count
        \/ sessions'[y.session].count = sessions[y.session].count + 1
    BY <1>3, <1>6
  <2>2. sessions[y.session].count \in Nat
    BY <1>6, CallFacts
  <2> QED
    BY <1>1, <1>6, <2>1, <2>2, CallFacts DEF R!Known
<1>7. \A d \in SomeCalls : R!Holds(d) => R!Known(calls[d]) /\ calls[d].session \in SessionIds
  BY CallFacts DEF R!RenewalInv, R!TokensOK, R!Holds
<1>8. R!TokensOK'
  <2>1. ASSUME store # R!Out PROVE R!Known(store)' /\ store.access # access + 1
    <3>1. R!Known(store) /\ store.session \in SessionIds
      BY <2>1, CallFacts DEF R!RenewalInv, R!TokensOK
    <3> QED
      BY <1>1, <1>6, <3>1 DEF R!Known
  <2>2. ASSUME NEW d \in SomeCalls, R!Holds(d)'
        PROVE  /\ R!Known(calls[d])'
               /\ store' # R!Out => R!Agree(calls[d], store)'
               /\ \A e \in SomeCalls : R!Holds(e)' => R!Agree(calls[d], calls[e])'
    <3>1. CASE d = c
      <4>1. calls'[d] = x
        BY <1>4, <3>1
      <4>2. R!Known(calls[d])'
        BY <1>1, <1>2, <1>3, <4>1, CallFacts DEF R!Known
      <4>3. store # R!Out => R!Agree(calls[d], store)'
        BY <1>1, <1>2, <2>1, <4>1 DEF R!Agree
      <4>4. \A e \in SomeCalls : R!Holds(e)' => R!Agree(calls[d], calls[e])'
        BY <1>2, <1>4, <1>6, <1>7, <4>1 DEF R!Agree, R!Holds
      <4> QED
        BY <1>1, <4>2, <4>3, <4>4
    <3>2. CASE d # c
      <4>1. calls'[d] = calls[d] /\ R!Holds(d)
        BY <1>4, <2>2, <3>2 DEF R!Holds
      <4>2. R!Known(calls[d])' /\ calls[d].access # access + 1
        BY <1>6, <1>7, <4>1 DEF R!Known
      <4>3. store # R!Out => R!Agree(calls[d], store)'
        BY <1>1, <4>1 DEF R!RenewalInv, R!TokensOK, R!Agree
      <4>4. \A e \in SomeCalls : R!Holds(e)' => R!Agree(calls[d], calls[e])'
        BY <1>2, <1>4, <4>1, <4>2 DEF R!RenewalInv, R!TokensOK, R!Agree, R!Holds
      <4> QED
        BY <1>1, <4>2, <4>3, <4>4
    <3> QED
      BY <3>1, <3>2
  <2> QED
    BY <1>1, <2>1, <2>2 DEF R!TokensOK
<1>9. R!RenewalsOK'
  <2>1. \A d \in SomeCalls : R!Renews(d)' => d = c
    BY <1>1, <1>4 DEF R!RenewalInv, R!RenewalsOK, R!Renews
  <2>2. calls'[c].step = "renewed" /\ sessions'[calls'[c].session].count = calls'[c].refresh
    BY <1>1, <1>2, <1>3, <1>4
  <2> QED
    BY <2>1, <2>2 DEF R!RenewalsOK, R!Renews
<1>10. R!StaysIn'
  <2>1. R!Revoked' = R!Revoked
    BY <1>3 DEF R!Revoked
  <2>2. CASE store.session = s
    BY <1>1, <1>2, <1>4, <2>1, <2>2, CallFacts DEF R!StaysIn
  <2>3. CASE store.session # s
    <3>1. \A d \in SomeCalls : calls[d].step = "renewed" => calls'[d] = calls[d]
      BY <1>1, <1>4
    <3>2. store.session # 0 => sessions'[store.session] = sessions[store.session]
      BY <1>3, <2>3, CallFacts
    <3> QED
      BY <1>1, <2>1, <3>1, <3>2 DEF R!RenewalInv, R!StaysIn
  <2> QED
    BY <2>2, <2>3
<1> QED
  BY <1>5, <1>8, <1>9, <1>10 DEF R!RenewalInv

LEMMA PersistStep ==
  ASSUME R!RenewalInv, NEW c \in SomeCalls, R!Persist(c)
  PROVE  R!RenewalInv'
<1> USE StepFacts, StoreFacts
<1>1. /\ calls[c].step = "renewed" /\ calls[c] \in R!Holding /\ R!Holds(c) /\ R!Renews(c)
      /\ sessions' = sessions /\ access' = access /\ expired' = expired /\ leaving' = leaving
      /\ ousted' = ousted /\ astray \subseteq astray'
      /\ calls' = [calls EXCEPT ![c] = R!Ready]
  BY CallFacts DEF R!Persist, R!Holds, R!Renews
<1>2. SameToken(store', calls[c]) /\ store' \in R!Tokens
  BY <1>1 DEF R!Persist, SameToken, R!Tokens, R!Holding
<1>3. \A d \in SomeCalls : calls'[d] = IF d = c THEN R!Ready ELSE calls[d]
  BY <1>1, CallFacts
<1>4. R!SessionTypeOK'
  BY <1>1, <1>2, CallFacts DEF R!RenewalInv, R!SessionTypeOK
<1>5. R!TokensOK'
  <2>1. R!Known(store)'
    BY <1>1, <1>2 DEF R!RenewalInv, R!TokensOK, R!Known, SameToken
  <2>2. ASSUME NEW d \in SomeCalls, R!Holds(d)'
        PROVE  /\ R!Known(calls[d])' /\ R!Agree(calls[d], store)'
               /\ \A e \in SomeCalls : R!Holds(e)' => R!Agree(calls[d], calls[e])'
    <3>1. calls'[d] = calls[d] /\ R!Holds(d)
      BY <1>3, <2>2 DEF R!Holds
    <3>2. R!Known(calls[d])'
      BY <1>1, <3>1 DEF R!RenewalInv, R!TokensOK, R!Known
    <3>3. R!Agree(calls[d], store)'
      BY <1>1, <1>2, <3>1 DEF R!RenewalInv, R!TokensOK, R!Agree, SameToken
    <3>4. \A e \in SomeCalls : R!Holds(e)' => R!Agree(calls[d], calls[e])'
      BY <1>3, <3>1 DEF R!RenewalInv, R!TokensOK, R!Agree, R!Holds
    <3> QED
      BY <3>2, <3>3, <3>4
  <2> QED
    BY <2>1, <2>2 DEF R!TokensOK
<1>6. R!RenewalsOK'
  BY <1>1, <1>3 DEF R!RenewalInv, R!RenewalsOK, R!Renews
<1>7. R!StaysIn'
  <2>1. sessions[calls[c].session].count = calls[c].refresh
    BY <1>1 DEF R!RenewalInv, R!RenewalsOK
  <2>2. R!Revoked' = R!Revoked
    BY <1>1 DEF R!Revoked
  <2> QED
    BY <1>1, <1>2, <2>1, <2>2, CallFacts DEF R!StaysIn, SameToken
<1> QED
  BY <1>4, <1>5, <1>6, <1>7 DEF R!RenewalInv

LEMMA RenewalStep == R!RenewalInv /\ [R!SessionNext]_phone => R!RenewalInv'
<1> SUFFICES ASSUME R!RenewalInv, [R!SessionNext]_phone PROVE R!RenewalInv'
  OBVIOUS
<1>1. ASSUME NEW s \in SessionIds, NEW answered \in BOOLEAN,
             R!Login(s, answered) \/ \E p \in RenewalCodes : R!EndExchange(p, s, answered)
      PROVE  R!RenewalInv'
  <2>1. R!Opened(s, answered)
    BY <1>1 DEF R!Login, R!EndExchange
  <2> QED
    BY <2>1, OpenedStep
<1> QED
  BY <1>1, QuietStep, AskingStep, EndingStep, RefreshStep, PersistStep DEF R!SessionNext

-----------------------------------------------------------------------------
(* Incidents. *)

\* An emitted event leaves an incident unresolved, and no copy of it.
LEMMA EmitKeeps ==
  ASSUME NEW records \in [Records -> I!Incident], NEW new \in I!Emit(records)
  PROVE  /\ new \in [Records -> I!Incident]
         /\ I!Unresolved(new) # {}
         /\ I!OneRepeated(records) => I!OneRepeated(new)
<1>1. \A x \in I!Incident : /\ I!Opened(x) \in I!Incident /\ I!Opened(x).status = "open"
                            /\ I!Opened(x).age = 0
  BY DEF I!Opened, I!Incident
<1>2. I!NoRecord \in I!Incident
  BY DEF I!NoRecord, I!Incident
<1>3. ASSUME NEW x \in I!Incident, x.status = "open", NEW i \in Records,
             new = [records EXCEPT ![i] = x]
      PROVE  /\ new \in [Records -> I!Incident] /\ new[i] = x
             /\ \A j \in Records : j # i => new[j] = records[j]
             /\ i \in I!Unresolved(new)
  BY <1>3 DEF I!Unresolved
<1>4. CASE I!Repeated(records) # {}
  <2> PICK y : y = I!Youngest(I!Repeated(records), records)
    OBVIOUS
  <2>1. new = [records EXCEPT ![y] = I!Opened(@)]
    BY <1>4 DEF I!Emit
  <2>2. CASE y \in Records
    <3>1. new = [records EXCEPT ![y] = I!Opened(records[y])]
      BY <2>1
    <3>2. /\ new \in [Records -> I!Incident] /\ new[y] = I!Opened(records[y])
          /\ \A j \in Records : j # y => new[j] = records[j]
          /\ y \in I!Unresolved(new)
      BY <1>1, <1>3, <2>2, <3>1
    <3>3. ASSUME I!OneRepeated(records) PROVE I!OneRepeated(new)
      <4>1. PICK x \in I!Repeated(records) : TRUE
        BY <1>4
      <4>2. \A j \in I!Repeated(records) : j = x
        BY <3>3, <4>1 DEF I!OneRepeated
      <4>3. records[x].age \in Nat
        BY <4>1 DEF I!Repeated, I!Unresolved, I!Incident
      <4>4. x \in I!Repeated(records) /\ \A j \in I!Repeated(records) : records[x].age <= records[j].age
        BY <4>1, <4>2, <4>3
      <4>5. y = x
        BY <4>2, <4>4 DEF I!Youngest
      <4>6. \A j \in I!Repeated(new) : j = y \/ j \in I!Repeated(records)
        BY <3>2 DEF I!Repeated, I!Unresolved
      <4> QED
        BY <4>2, <4>5, <4>6 DEF I!OneRepeated
    <3> QED
      BY <3>2, <3>3
  <2>3. CASE y \notin Records
    <3>1. new = records
      BY <2>1, <2>3
    <3> QED
      BY <1>4, <3>1 DEF I!Repeated
  <2> QED
    BY <2>2, <2>3
<1>5. CASE I!Repeated(records) = {}
  <2> PICK f : f = CHOOSE i \in I!Free(records) : TRUE
    OBVIOUS
  <2>1. I!Free(records) # {} /\ new = [records EXCEPT ![f] = I!Opened(I!NoRecord)]
    BY <1>5 DEF I!Emit
  <2>2. f \in Records
    BY <2>1 DEF I!Free
  <2>3. /\ new \in [Records -> I!Incident]
        /\ \A j \in Records : j # f => new[j] = records[j]
        /\ f \in I!Unresolved(new)
    BY <1>1, <1>2, <1>3, <2>1, <2>2
  <2>4. \A j \in I!Repeated(new) : j = f
    BY <1>5, <2>3 DEF I!Repeated, I!Unresolved
  <2> QED
    BY <2>3, <2>4 DEF I!OneRepeated
<1> QED
  BY <1>4, <1>5

LEMMA ResolveKeeps ==
  ASSUME NEW records \in [Records -> I!Incident]
  PROVE  /\ I!Resolve(records) \in [Records -> I!Incident]
         /\ I!Unresolved(I!Resolve(records)) = {}
         /\ I!OneRepeated(I!Resolve(records))
<1>1. \A x \in I!Incident : [x EXCEPT !.status = "resolved"] \in I!Incident
                            /\ [x EXCEPT !.status = "resolved"].status = "resolved"
  BY DEF I!Incident
<1>2. I!NoRecord \in I!Incident /\ I!NoRecord.status = "resolved"
  BY DEF I!NoRecord, I!Incident
<1>3. I!Resolve(records) \in [Records -> I!Incident]
      /\ \A i \in Records : I!Resolve(records)[i].status = "resolved"
  BY <1>1, <1>2 DEF I!Resolve
<1>4. I!Unresolved(I!Resolve(records)) = {}
  BY <1>3 DEF I!Unresolved
<1> QED
  BY <1>3, <1>4 DEF I!OneRepeated, I!Repeated

LEMMA IncidentBase == I!IncidentInit => I!IncidentInv
<1> SUFFICES ASSUME I!IncidentInit PROVE I!IncidentInv
  OBVIOUS
<1>1. I!NoRecord \in I!Incident /\ I!NoRecord.status = "resolved"
  BY DEF I!NoRecord, I!Incident
<1>2. I!IncidentTypeOK
  <2>1. silence \in Nat
    BY ServerAssumption DEF I!IncidentInit
  <2>2. incidents \in [Records -> I!Incident]
    BY <1>1 DEF I!IncidentInit
  <2> QED
    BY <2>1, <2>2 DEF I!IncidentInit, I!IncidentTypeOK, I!Statuses
<1>3. I!Unresolved(incidents) = {}
  BY <1>1 DEF I!IncidentInit, I!Unresolved
<1> QED
  BY <1>2, <1>3 DEF I!IncidentInit, I!IncidentInv, I!OfflineTold, I!IncidentEnds, I!AlertOpen,
     I!OneRepeated, I!Repeated, I!Idle

\* Records whose status stays and that do not get younger.
LEMMA AgeingKeeps ==
  ASSUME I!IncidentTypeOK, incidents' \in [Records -> I!Incident], kind' = kind,
         \A i \in Records : /\ incidents'[i].status = incidents[i].status
                            /\ incidents'[i].age >= incidents[i].age
  PROVE  /\ I!Unresolved(incidents)' = I!Unresolved(incidents)
         /\ I!OneRepeated(incidents) => I!OneRepeated(incidents')
<1>1. \A i : i \in I!Unresolved(incidents)' <=> i \in I!Unresolved(incidents)
  BY DEF I!Unresolved
<1>2. I!Dedupe \in Nat /\ I!Dedupe' = I!Dedupe
  BY ServerAssumption DEF I!Dedupe
<1>3. \A i \in Records : incidents'[i].age \in Nat /\ incidents[i].age \in Nat
  BY DEF I!IncidentTypeOK, I!Incident
<1>4. \A i : i \in I!Repeated(incidents') => i \in I!Repeated(incidents)
  BY <1>1, <1>2, <1>3 DEF I!Repeated, I!Unresolved
<1> QED
  BY <1>1, <1>4 DEF I!OneRepeated

\* A transaction that is under way has read something.
Reading == [busy : {TRUE}, prior : I!Statuses, age : Nat, alert : BOOLEAN]
LEMMA Busy ==
  ASSUME I!IncidentTypeOK
  PROVE  /\ \A r \in Reporting : reports[r].busy => reports[r] \in Reading
         /\ keeper.busy => keeper \in [busy : {TRUE}, status : I!Statuses,
                                       desired : {"online", "offline"}]
         /\ owner.busy => owner \in [busy : {TRUE}, record : Records,
                                     status : {"open", "acknowledged"}]
<1>1. I!Idle.busy = FALSE
  BY DEF I!Idle
<1>2. ASSUME NEW r \in Reporting, reports[r].busy PROVE reports[r] \in Reading
  <2>1. reports[r] # I!Idle
    BY <1>1, <1>2
  <2> QED
    BY <2>1 DEF I!IncidentTypeOK, Reading
<1>3. ASSUME keeper.busy PROVE keeper # I!Idle
  BY <1>1, <1>3
<1>4. ASSUME owner.busy PROVE owner # I!Idle
  BY <1>1, <1>4
<1> QED
  BY <1>2, <1>3, <1>4 DEF I!IncidentTypeOK

LEMMA TickKeeps ==
  ASSUME I!IncidentInv, I!Tick
  PROVE  I!IncidentInv'
<1> USE DEF I!IncidentInv
<1>1. \A x, l \in Nat : I!Older(x, l) \in Nat /\ I!Older(x, l) >= x /\ I!Less(x) \in Nat
  BY DEF I!Older, I!Less
<1>2. StaleAfter \in Nat /\ I!Dedupe \in Nat
  BY ServerAssumption DEF I!Dedupe
<1>3. \A x \in I!Incident :
        LET y == [x EXCEPT !.age = I!Older(@, I!Dedupe), !.snoozed = I!Less(@), !.promised = I!Less(@)]
        IN y \in I!Incident /\ y.status = x.status /\ y.age >= x.age
  <2> SUFFICES ASSUME NEW x \in I!Incident
               PROVE  LET y == [x EXCEPT !.age = I!Older(@, I!Dedupe), !.snoozed = I!Less(@),
                                         !.promised = I!Less(@)]
                      IN y \in I!Incident /\ y.status = x.status /\ y.age >= x.age
    OBVIOUS
  <2>1. x.age \in Nat /\ x.snoozed \in Nat /\ x.promised \in Nat
    BY DEF I!Incident
  <2>2. /\ I!Older(x.age, I!Dedupe) \in Nat /\ I!Older(x.age, I!Dedupe) >= x.age
        /\ I!Less(x.snoozed) \in Nat /\ I!Less(x.promised) \in Nat
    BY <1>1, <1>2, <2>1
  <2> QED
    BY <2>2 DEF I!Incident
<1>4. /\ incidents' \in [Records -> I!Incident]
      /\ \A i \in Records : /\ incidents'[i].status = incidents[i].status
                            /\ incidents'[i].age >= incidents[i].age
  <2>1. incidents' = [i \in Records |->
                        IF incidents[i] = I!NoRecord THEN I!NoRecord
                        ELSE [incidents[i] EXCEPT !.age = I!Older(@, I!Dedupe),
                                                  !.snoozed = I!Less(@), !.promised = I!Less(@)]]
    BY DEF I!Tick
  <2>2. \A i \in Records : incidents[i] \in I!Incident
    BY DEF I!IncidentTypeOK
  <2>3. I!NoRecord \in I!Incident /\ I!NoRecord.age \in Nat
    BY DEF I!NoRecord, I!Incident
  <2>4. ASSUME NEW i \in Records
        PROVE  /\ incidents'[i] \in I!Incident /\ incidents'[i].status = incidents[i].status
               /\ incidents'[i].age >= incidents[i].age
    <3>1. CASE incidents[i] = I!NoRecord
      <4>1. incidents'[i] = I!NoRecord
        BY <2>1, <3>1
      <4> QED
        BY <2>3, <3>1, <4>1
    <3>2. CASE incidents[i] # I!NoRecord
      BY <1>3, <2>1, <2>2, <3>2
    <3> QED
      BY <3>1, <3>2
  <2> QED
    BY <2>1, <2>4
<1>5. UNCHANGED <<kind, status, keeper, owner, alarming, revived>>
  BY DEF I!Tick
<1>6. /\ I!Unresolved(incidents)' = I!Unresolved(incidents)
      /\ I!OneRepeated(incidents) => I!OneRepeated(incidents')
  BY <1>4, <1>5, AgeingKeeps
<1>7. silence' \in Nat
  BY <1>1, <1>2 DEF I!Tick, I!IncidentTypeOK
<1>8. reports' \in [Reporting -> {I!Idle} \cup
                     [busy : {TRUE}, prior : I!Statuses, age : Nat, alert : BOOLEAN]]
  <2>1. ASSUME NEW r \in Reporting, reports[r].busy
        PROVE  [reports[r] EXCEPT !.age = I!Older(@, StaleAfter)]
                 \in [busy : {TRUE}, prior : I!Statuses, age : Nat, alert : BOOLEAN]
    <3>1. reports[r] \in [busy : {TRUE}, prior : I!Statuses, age : Nat, alert : BOOLEAN]
      BY <2>1, Busy DEF Reading
    <3>2. I!Older(reports[r].age, StaleAfter) \in Nat
      BY <1>1, <1>2, <3>1
    <3> QED
      BY <3>1, <3>2
  <2>2. reports' = [r \in Reporting |->
                      IF reports[r].busy THEN [reports[r] EXCEPT !.age = I!Older(@, StaleAfter)]
                      ELSE I!Idle]
    BY DEF I!Tick
  <2> QED
    BY <2>1, <2>2
<1>9. I!IncidentTypeOK'
  BY <1>4, <1>5, <1>7, <1>8 DEF I!IncidentTypeOK
<1>10. I!OfflineTold' /\ I!IncidentEnds' /\ I!AlertOpen'
  BY <1>5, <1>6 DEF I!OfflineTold, I!IncidentEnds, I!AlertOpen
<1>11. I!OneRepeated(incidents)' <=> I!OneRepeated(incidents')
  BY <1>5 DEF I!OneRepeated, I!Repeated, I!Unresolved, I!Dedupe
<1> QED
  BY <1>5, <1>6, <1>9, <1>10, <1>11

LEMMA BeginKeeps ==
  ASSUME I!IncidentInv,
         \/ \E r \in Reporting, alert \in BOOLEAN : I!BeginReport(r, alert)
         \/ I!BeginKeeping
         \/ I!OtherStatus
         \/ \E i \in I!Unresolved(incidents) : I!BeginAcknowledge(i)
  PROVE  I!IncidentInv'
<1> USE DEF I!IncidentInv
<1>1. ASSUME NEW r \in Reporting, NEW alert \in BOOLEAN, I!BeginReport(r, alert)
      PROVE  I!IncidentInv'
  <2>1. reports' \in [Reporting -> {I!Idle} \cup
                       [busy : {TRUE}, prior : I!Statuses, age : Nat, alert : BOOLEAN]]
    BY <1>1 DEF I!BeginReport, I!IncidentTypeOK
  <2>2. UNCHANGED <<kind, status, silence, keeper, owner, incidents, alarming, revived>>
    BY <1>1 DEF I!BeginReport
  <2> QED
    BY <2>1, <2>2
    DEF I!IncidentTypeOK, I!OfflineTold, I!IncidentEnds, I!AlertOpen, I!Unresolved,
        I!OneRepeated, I!Repeated, I!Dedupe
<1>2. CASE I!BeginKeeping
  <2>1. /\ keeper' \in [busy : {TRUE}, status : I!Statuses, desired : {"online", "offline"}]
        /\ kind = "offline"
    BY <1>2 DEF I!BeginKeeping, I!IncidentTypeOK
  <2>2. UNCHANGED <<kind, status, silence, reports, owner, incidents, alarming, revived>>
    BY <1>2 DEF I!BeginKeeping
  <2> QED
    BY <2>1, <2>2
    DEF I!IncidentTypeOK, I!OfflineTold, I!IncidentEnds, I!AlertOpen, I!Unresolved,
        I!OneRepeated, I!Repeated, I!Dedupe
<1>3. CASE I!OtherStatus
  <2>1. /\ kind = "offline" /\ status' = "other"
        /\ UNCHANGED <<kind, silence, keeper, reports, owner, incidents, alarming, revived>>
    BY <1>3 DEF I!OtherStatus
  <2> QED
    BY <2>1
    DEF I!IncidentTypeOK, I!Statuses, I!OfflineTold, I!IncidentEnds, I!AlertOpen, I!Unresolved,
        I!OneRepeated, I!Repeated, I!Dedupe
<1>4. ASSUME NEW i \in I!Unresolved(incidents), I!BeginAcknowledge(i) PROVE I!IncidentInv'
  <2>1. owner' \in [busy : {TRUE}, record : Records, status : {"open", "acknowledged"}]
    BY <1>4 DEF I!BeginAcknowledge, I!IncidentTypeOK, I!Incident, I!Unresolved
  <2>2. UNCHANGED <<kind, status, silence, keeper, reports, incidents, alarming, revived>>
    BY <1>4 DEF I!BeginAcknowledge
  <2> QED
    BY <2>1, <2>2
    DEF I!IncidentTypeOK, I!OfflineTold, I!IncidentEnds, I!AlertOpen, I!Unresolved,
        I!OneRepeated, I!Repeated, I!Dedupe
<1> QED
  BY <1>1, <1>2, <1>3, <1>4

LEMMA ReportKeeps ==
  ASSUME I!IncidentInv, NEW r \in Reporting, I!EndReport(r)
  PROVE  I!IncidentInv'
<1> USE DEF I!IncidentInv
<1>1. /\ reports[r].age \in Nat /\ reports[r].alert \in BOOLEAN
      /\ reports[r].prior \in I!Statuses
  BY Busy DEF I!EndReport, Reading
<1>2. /\ silence' = reports[r].age /\ alarming' = reports[r].alert
      /\ status' = IF reports[r].prior # "online" THEN "online" ELSE status
      /\ incidents' \in I!Reported(r, reports[r].prior # "online")
      /\ revived' = (revived /\ I!Unresolved(incidents') # {})
      /\ reports' = [reports EXCEPT ![r] = I!Idle]
      /\ UNCHANGED <<kind, keeper, owner>>
  BY DEF I!EndReport
<1>3. ASSUME incidents' = I!Resolve(incidents)
      PROVE  /\ incidents' \in [Records -> I!Incident] /\ I!Unresolved(incidents') = {}
             /\ I!OneRepeated(incidents')
  BY <1>3, ResolveKeeps DEF I!IncidentTypeOK
<1>4. ASSUME incidents' \in I!Emit(incidents)
      PROVE  /\ incidents' \in [Records -> I!Incident] /\ I!Unresolved(incidents') # {}
             /\ ~revived => I!OneRepeated(incidents')
  BY <1>4, EmitKeeps DEF I!IncidentTypeOK
<1>5. /\ incidents' \in [Records -> I!Incident]
      /\ ~revived \/ I!Unresolved(incidents') = {} => I!OneRepeated(incidents')
      /\ kind = "alert" => (reports[r].alert <=> I!Unresolved(incidents') # {})
      /\ kind = "offline" /\ reports[r].prior # "online" => I!Unresolved(incidents') = {}
      /\ kind = "offline" /\ reports[r].prior = "online" => incidents' = incidents
  <2>1. CASE kind = "alert" /\ reports[r].alert
    BY <1>2, <1>4, <2>1 DEF I!Reported
  <2>2. CASE kind = "alert" /\ ~reports[r].alert
    BY <1>2, <1>3, <2>2 DEF I!Reported
  <2>3. CASE kind = "offline" /\ reports[r].prior # "online"
    BY <1>2, <1>3, <2>3 DEF I!Reported
  <2>4. CASE kind = "offline" /\ reports[r].prior = "online"
    <3>1. incidents' = incidents
      BY <1>2, <2>4 DEF I!Reported
    <3> QED
      BY <2>4, <3>1 DEF I!IncidentTypeOK, I!OneRepeated, I!Repeated
  <2> QED
    BY <2>1, <2>2, <2>3, <2>4 DEF I!IncidentTypeOK
<1>6. I!IncidentTypeOK'
  <2>1. status' \in I!Statuses /\ revived' \in BOOLEAN
    BY <1>2 DEF I!IncidentTypeOK, I!Statuses
  <2>2. reports' \in [Reporting -> {I!Idle} \cup
                       [busy : {TRUE}, prior : I!Statuses, age : Nat, alert : BOOLEAN]]
    BY <1>2 DEF I!IncidentTypeOK
  <2> QED
    BY <1>1, <1>2, <1>5, <2>1, <2>2 DEF I!IncidentTypeOK
<1>7. ASSUME ~revived' PROVE ~revived \/ I!Unresolved(incidents') = {}
  BY <1>2, <1>7
<1>8. I!OfflineTold'
  BY <1>2, <1>5 DEF I!OfflineTold, I!Unresolved
<1>9. I!IncidentEnds'
  <2> SUFFICES ASSUME kind' = "offline", status' = "online", ~revived'
               PROVE  I!Unresolved(incidents') = {}
    BY DEF I!IncidentEnds, I!Unresolved
  <2>1. CASE reports[r].prior # "online"
    BY <1>2, <1>5, <2>1
  <2>2. CASE reports[r].prior = "online"
    <3>1. incidents' = incidents /\ status = "online" /\ kind = "offline"
      BY <1>2, <1>5, <2>2
    <3> QED
      BY <1>7, <3>1 DEF I!IncidentEnds
  <2> QED
    BY <2>1, <2>2
<1>10. I!AlertOpen'
  <2>1. I!Unresolved(incidents)' = I!Unresolved(incidents')
    BY DEF I!Unresolved
  <2> QED
    BY <1>2, <1>5, <2>1 DEF I!AlertOpen
<1>11. ~revived' => I!OneRepeated(incidents)'
  <2>1. I!OneRepeated(incidents)' <=> I!OneRepeated(incidents')
    BY <1>2 DEF I!OneRepeated, I!Repeated, I!Unresolved, I!Dedupe
  <2> QED
    BY <1>5, <1>7, <2>1
<1> QED
  BY <1>2, <1>6, <1>8, <1>9, <1>10, <1>11

LEMMA KeepingKeeps ==
  ASSUME I!IncidentInv, I!EndKeeping
  PROVE  I!IncidentInv'
<1> USE DEF I!IncidentInv
<1> PICK changed \in BOOLEAN : changed <=> keeper.status # keeper.desired
  OBVIOUS
<1>1. /\ kind = "offline" /\ keeper.status \in I!Statuses /\ keeper.desired \in {"online", "offline"}
  BY Busy DEF I!EndKeeping
<1>2. /\ status' = IF changed THEN keeper.desired ELSE status
      /\ incidents' \in IF changed /\ keeper.desired = "offline" THEN I!Emit(incidents)
                        ELSE {incidents}
      /\ revived' = (revived \/ (changed /\ keeper.desired = "online"
                                 /\ I!Unresolved(incidents) # {}))
      /\ keeper' = I!Idle
      /\ UNCHANGED <<kind, silence, reports, owner, alarming>>
  BY DEF I!EndKeeping
<1>3. CASE changed /\ keeper.desired = "offline"
  <2>1. /\ incidents' \in [Records -> I!Incident] /\ I!Unresolved(incidents') # {}
        /\ ~revived => I!OneRepeated(incidents')
    BY <1>2, <1>3, EmitKeeps DEF I!IncidentTypeOK
  <2>2. status' = "offline" /\ revived' = revived
    BY <1>2, <1>3 DEF I!IncidentTypeOK
  <2>3. I!IncidentTypeOK'
    BY <1>2, <2>1, <2>2 DEF I!IncidentTypeOK, I!Statuses
  <2>4. I!OneRepeated(incidents)' <=> I!OneRepeated(incidents')
    BY <1>2 DEF I!OneRepeated, I!Repeated, I!Unresolved, I!Dedupe
  <2>5. I!Unresolved(incidents)' = I!Unresolved(incidents')
    BY DEF I!Unresolved
  <2> QED
    BY <1>1, <1>2, <2>1, <2>2, <2>3, <2>4, <2>5
    DEF I!OfflineTold, I!IncidentEnds, I!AlertOpen
<1>4. CASE ~(changed /\ keeper.desired = "offline")
  <2>1. incidents' = incidents
    BY <1>2, <1>4
  <2>2. I!IncidentTypeOK'
    BY <1>1, <1>2, <2>1 DEF I!IncidentTypeOK, I!Statuses
  <2>3. /\ I!OneRepeated(incidents)' <=> I!OneRepeated(incidents)
        /\ I!Unresolved(incidents)' = I!Unresolved(incidents)
    BY <1>2, <2>1 DEF I!OneRepeated, I!Repeated, I!Unresolved, I!Dedupe
  <2>4. I!OfflineTold'
    BY <1>1, <1>2, <1>4, <2>3 DEF I!OfflineTold
  <2>5. I!IncidentEnds'
    BY <1>1, <1>2, <1>4, <2>3 DEF I!IncidentEnds
  <2>6. I!AlertOpen'
    BY <1>1, <1>2 DEF I!AlertOpen
  <2> QED
    BY <1>2, <2>2, <2>3, <2>4, <2>5, <2>6 DEF I!Idle
<1> QED
  BY <1>3, <1>4

LEMMA OwnerKeeps ==
  ASSUME I!IncidentInv, I!EndAcknowledge \/ \E i \in Records : I!Snooze(i)
  PROVE  I!IncidentInv'
<1> USE DEF I!IncidentInv
<1>1. CASE I!EndAcknowledge
  <2> PICK i : i = owner.record
    OBVIOUS
  <2>1. i \in Records /\ owner.status \in {"open", "acknowledged"}
    BY <1>1, Busy DEF I!EndAcknowledge
  <2>2. /\ incidents' = IF owner.status = "open"
                        THEN [incidents EXCEPT ![i].status = "acknowledged"] ELSE incidents
        /\ revived' = (revived \/ (owner.status = "open" /\ incidents[i].status = "resolved"))
        /\ owner' = I!Idle
        /\ UNCHANGED <<kind, status, silence, keeper, reports, alarming>>
    BY <1>1 DEF I!EndAcknowledge
  <2>3. /\ incidents' \in [Records -> I!Incident]
        /\ \A j \in Records :
             /\ incidents'[j].age = incidents[j].age
             /\ incidents[j].status # "resolved" => incidents'[j].status # "resolved"
             /\ ~revived' => (incidents'[j].status = "resolved" <=> incidents[j].status = "resolved")
    <3>1. CASE owner.status = "open"
      <4> PICK x : x = [incidents[i] EXCEPT !.status = "acknowledged"]
        OBVIOUS
      <4>1. incidents' = [incidents EXCEPT ![i] = x]
        BY <2>2, <3>1
      <4>2. incidents \in [Records -> I!Incident]
        BY DEF I!IncidentTypeOK
      <4>3. x \in I!Incident /\ x.status = "acknowledged" /\ x.age = incidents[i].age
        BY <2>1, <4>2 DEF I!Incident
      <4>4. incidents' \in [Records -> I!Incident] /\ incidents'[i] = x
            /\ \A j \in Records : j # i => incidents'[j] = incidents[j]
        BY <2>1, <4>1, <4>2, <4>3
      <4>5. ~revived' => incidents[i].status # "resolved"
        BY <2>2, <3>1
      <4>6. ASSUME NEW j \in Records
            PROVE  /\ incidents'[j].age = incidents[j].age
                   /\ incidents[j].status # "resolved" => incidents'[j].status # "resolved"
                   /\ ~revived' => (incidents'[j].status = "resolved" <=> incidents[j].status = "resolved")
        <5>1. CASE j = i
          <6>1. incidents'[i].status = "acknowledged" /\ incidents'[i].age = incidents[i].age
            BY <4>3, <4>4
          <6>2. incidents'[i].status # "resolved"
            BY <6>1
          <6> QED
            BY <4>5, <5>1, <6>1, <6>2
        <5>2. CASE j # i
          <6>1. incidents'[j] = incidents[j]
            BY <4>4, <5>2
          <6> QED
            BY <6>1
        <5> QED
          BY <5>1, <5>2
      <4> QED
        BY <4>4, <4>6
    <3>2. CASE owner.status # "open"
      BY <2>2, <3>2 DEF I!IncidentTypeOK
    <3> QED
      BY <3>1, <3>2
  <2>4. I!Unresolved(incidents) \subseteq I!Unresolved(incidents)'
    BY <2>3 DEF I!Unresolved
  <2>5. ~revived' => /\ I!Unresolved(incidents)' = I!Unresolved(incidents)
                     /\ I!Repeated(incidents)' = I!Repeated(incidents)
    BY <2>2, <2>3 DEF I!Unresolved, I!Repeated, I!Dedupe
  <2>6. ~revived' => ~revived /\ revived' \in BOOLEAN
    BY <2>2
  <2>7. I!IncidentTypeOK'
    BY <2>2, <2>3 DEF I!IncidentTypeOK
  <2>8. I!OfflineTold' /\ I!IncidentEnds' /\ I!AlertOpen'
    BY <2>2, <2>4, <2>5, <2>6 DEF I!OfflineTold, I!IncidentEnds, I!AlertOpen
  <2> QED
    BY <2>2, <2>5, <2>6, <2>7, <2>8 DEF I!OneRepeated
<1>2. ASSUME NEW i \in Records, I!Snooze(i) PROVE I!IncidentInv'
  <2>1. UNCHANGED <<kind, status, silence, keeper, reports, owner, alarming, revived>>
    BY <1>2 DEF I!Snooze
  <2>2. /\ incidents' \in [Records -> I!Incident]
        /\ \A j \in Records : /\ incidents'[j].status = incidents[j].status
                              /\ incidents'[j].age = incidents[j].age
    <3>1. incidents' = [incidents EXCEPT ![i] = [[incidents[i] EXCEPT !.snoozed = SnoozeFor]
                                                   EXCEPT !.promised = SnoozeFor]]
      BY <1>2 DEF I!Snooze, I!IncidentTypeOK
    <3>2. incidents \in [Records -> I!Incident] /\ SnoozeFor \in Nat
      BY ServerAssumption DEF I!IncidentTypeOK
    <3> PICK x : x = [[incidents[i] EXCEPT !.snoozed = SnoozeFor] EXCEPT !.promised = SnoozeFor]
      OBVIOUS
    <3>3. x \in I!Incident /\ x.status = incidents[i].status /\ x.age = incidents[i].age
      BY <3>2 DEF I!Incident
    <3> QED
      BY <3>1, <3>2, <3>3
  <2>3. /\ I!Unresolved(incidents)' = I!Unresolved(incidents)
        /\ I!Repeated(incidents)' = I!Repeated(incidents)
    BY <2>1, <2>2 DEF I!Unresolved, I!Repeated, I!Dedupe
  <2>4. I!IncidentTypeOK'
    BY <2>1, <2>2 DEF I!IncidentTypeOK
  <2> QED
    BY <2>1, <2>3, <2>4 DEF I!OfflineTold, I!IncidentEnds, I!AlertOpen, I!OneRepeated
<1> QED
  BY <1>1, <1>2

LEMMA IncidentStep == I!IncidentInv /\ [I!IncidentNext]_(I!incidentVars) => I!IncidentInv'
<1> SUFFICES ASSUME I!IncidentInv, [I!IncidentNext]_(I!incidentVars) PROVE I!IncidentInv'
  OBVIOUS
<1>1. CASE UNCHANGED I!incidentVars
  BY <1>1
  DEF I!incidentVars, I!IncidentInv, I!IncidentTypeOK, I!OfflineTold, I!IncidentEnds,
      I!AlertOpen, I!Unresolved, I!OneRepeated, I!Repeated, I!Dedupe
<1> QED
  BY <1>1, TickKeeps, BeginKeeps, ReportKeeps, KeepingKeeps, OwnerKeeps
  DEF I!IncidentNext, I!Disconnect, I!Disconnected, I!Provision

LEMMA OneRepetition == ASSUME I!OneRepeated(incidents)
                       PROVE  I!Cardinality(I!Repeated(incidents)) <= 1
<1>1. I!Cardinality(I!Repeated(incidents)) = Cardinality(I!Repeated(incidents))
  BY DEF I!Cardinality, Cardinality
<1>2. CASE I!Repeated(incidents) = {}
  BY <1>1, <1>2, FS_EmptySet
<1>3. ASSUME NEW i \in I!Repeated(incidents) PROVE Cardinality(I!Repeated(incidents)) = 1
  <2>1. I!Repeated(incidents) = {i}
    BY DEF I!OneRepeated
  <2> QED
    BY <2>1, FS_Singleton
<1> QED
  BY <1>1, <1>2, <1>3

-----------------------------------------------------------------------------
(* Health of a router (RouterHealth). *)

\* The states of the items.
LEMMA ItemStates ==
  ASSUME NEW p \in H!Payloads, NEW a
  PROVE  /\ H!Wan(p) \in {"ok", "critical", "unsupported"}
         /\ H!Dns(p) \in {"ok", "critical", "unknown"}
         /\ H!Wifi(p) \in {"ok", "warning", "unsupported", "unknown"}
         /\ H!Memory(p) \in {"ok", "warning", "critical", "unknown"}
         /\ H!Storage(p) \in {"ok", "warning", "critical", "unknown"}
         /\ H!Temperature(p) \in {"ok", "warning", "critical", "unsupported"}
         /\ H!Link(p, a) = IF p.status = "degraded" THEN "warning"
                           ELSE IF H!Stale(a) THEN "critical" ELSE "ok"
<1>1. /\ p.wan \in {"up", "down", "absent"} /\ p.radios \in {"absent", "none", "off", "on"}
      /\ p.status \in {"running", "ok", "degraded"}
  BY DEF H!Payloads, H!Values
<1>2. H!Wan(p) \in {"ok", "critical", "unsupported"}
  BY <1>1 DEF H!Wan
<1>3. H!Wifi(p) \in {"ok", "warning", "unsupported", "unknown"}
  BY <1>1 DEF H!Wifi
<1>4. H!Dns(p) \in {"ok", "critical", "unknown"}
  BY DEF H!Dns
<1>5. H!Memory(p) \in {"ok", "warning", "critical", "unknown"}
      /\ H!Storage(p) \in {"ok", "warning", "critical", "unknown"}
  BY DEF H!Memory, H!Storage, H!Level
<1>6. H!Temperature(p) \in {"ok", "warning", "critical", "unsupported"}
  BY DEF H!Temperature
<1> QED
  BY <1>1, <1>2, <1>3, <1>4, <1>5, <1>6 DEF H!Link

LEMMA Something == \A p \in H!Payloads : p # H!None
<1> SUFFICES ASSUME NEW p \in H!Payloads, p = H!None PROVE FALSE
  OBVIOUS
<1>1. "wan" \in DOMAIN p
  BY DEF H!Payloads
<1>2. DOMAIN p = {"none"}
  BY DEF H!None
<1> QED
  BY <1>1, <1>2

LEMMA SumOfItems ==
  ASSUME NEW p \in H!Payloads, NEW a, NEW state
  PROVE  H!Is(state, p, a) <=>
           state \in {H!Link(p, a), H!Wan(p), H!Dns(p), H!Wifi(p), H!Temperature(p),
                      H!Memory(p), H!Storage(p)}
<1>1. H!Items(p, a) = [agent |-> H!Link(p, a), wan |-> H!Wan(p), dns |-> H!Dns(p),
                       wifi |-> H!Wifi(p), temperature |-> H!Temperature(p),
                       memory |-> H!Memory(p), storage |-> H!Storage(p)]
  BY Something DEF H!Items
<1>2. DOMAIN H!Items(p, a) = {"agent", "wan", "dns", "wifi", "temperature", "memory", "storage"}
  BY <1>1
<1>3. H!Is(state, p, a) <=>
        \E item \in {"agent", "wan", "dns", "wifi", "temperature", "memory", "storage"} :
          H!Items(p, a)[item] = state
  BY <1>2 DEF H!Is
<1> QED
  BY <1>1, <1>3

LEMMA WhatAlerts ==
  ASSUME NEW p \in H!Payloads, NEW a, NEW alert
  PROVE  alert \in H!Alerts(p, a) <=>
           \/ H!Stale(a) /\ alert = H!Alert("critical", "stale")
           \/ H!Wan(p) = "critical" /\ alert = H!Alert("critical", "wan")
           \/ H!Dns(p) = "critical" /\ alert = H!Alert("critical", "dns")
           \/ H!Memory(p) \in {"warning", "critical"} /\ alert = H!Alert(H!Memory(p), "memory")
           \/ H!Storage(p) \in {"warning", "critical"} /\ alert = H!Alert(H!Storage(p), "storage")
           \/ H!Temperature(p) = "critical" /\ alert = H!Alert("critical", "temperature.critical")
           \/ H!Temperature(p) = "warning" /\ alert = H!Alert("warning", "temperature.warning")
           \/ H!Loaded(p) /\ alert = H!Alert("warning", "load.high")
<1>1. alert \in H!Alerts(p, a) <=>
        \/ alert \in IF H!Stale(a) THEN {H!Alert("critical", "stale")} ELSE {}
        \/ alert \in H!Levels(H!Wan(p), "wan") \/ alert \in H!Levels(H!Dns(p), "dns")
        \/ alert \in H!Levels(H!Memory(p), "memory") \/ alert \in H!Levels(H!Storage(p), "storage")
        \/ alert \in H!Heat(p)
        \/ alert \in IF H!Loaded(p) THEN {H!Alert("warning", "load.high")} ELSE {}
  BY Something DEF H!Alerts
<1>2. \A level, code : alert \in H!Levels(level, code) <=>
        level \in {"warning", "critical"} /\ alert = H!Alert(level, code)
  BY DEF H!Levels
<1>3. alert \in H!Heat(p) <=>
        \/ H!Temperature(p) = "critical" /\ alert = H!Alert("critical", "temperature.critical")
        \/ H!Temperature(p) = "warning" /\ alert = H!Alert("warning", "temperature.warning")
  <2>1. CASE H!Temperature(p) = "critical"
    BY <2>1 DEF H!Heat
  <2>2. CASE H!Temperature(p) = "warning"
    BY <2>2 DEF H!Heat
  <2>3. CASE H!Temperature(p) \notin {"warning", "critical"}
    BY <2>3 DEF H!Heat
  <2> QED
    BY <2>1, <2>2, <2>3
<1> QED
  BY <1>1, <1>2, <1>3, ItemStates

\* Every code is one of those that a report can end.
LEMMA WhatCodes ==
  ASSUME NEW p \in H!Payloads, NEW a, NEW code
  PROVE  code \in H!Codes(H!Alerts(p, a)) <=>
           \/ H!Stale(a) /\ code = "stale"
           \/ H!Wan(p) = "critical" /\ code = "wan"
           \/ H!Dns(p) = "critical" /\ code = "dns"
           \/ H!Memory(p) \in {"warning", "critical"} /\ code = "memory"
           \/ H!Storage(p) \in {"warning", "critical"} /\ code = "storage"
           \/ H!Temperature(p) = "critical" /\ code = "temperature.critical"
           \/ H!Temperature(p) = "warning" /\ code = "temperature.warning"
           \/ H!Loaded(p) /\ code = "load.high"
<1>1. code \in H!Codes(H!Alerts(p, a)) <=> \E alert \in H!Alerts(p, a) : alert.code = code
  BY DEF H!Codes
<1>2. \A level, c : H!Alert(level, c).code = c
  BY DEF H!Alert
<1> QED
  BY <1>1, <1>2, WhatAlerts

LEMMA HealthBase == H!HealthInit => H!HealthInv
BY DEF H!HealthInit, H!HealthInv

LEMMA QuietFields == H!Quiet \in H!Payloads
BY DEF H!Quiet, H!Payloads, H!Values

LEMMA FieldChanges ==
  ASSUME NEW p \in H!Payloads, NEW field \in DOMAIN H!Values, NEW value \in H!Values[field]
  PROVE  [p EXCEPT ![field] = value] \in H!Payloads
<1>1. field \in {"wan", "dns", "dnsmasq", "radios", "memory", "storage", "heat", "warm", "hot",
                 "load", "cpus", "errors", "status"}
  BY DEF H!Values
<1>2. CASE field = "wan"
  BY <1>2 DEF H!Payloads
<1>3. CASE field = "dns"
  BY <1>3 DEF H!Payloads
<1>4. CASE field = "dnsmasq"
  BY <1>4 DEF H!Payloads
<1>5. CASE field = "radios"
  BY <1>5 DEF H!Payloads
<1>6. CASE field = "memory"
  BY <1>6 DEF H!Payloads
<1>7. CASE field = "storage"
  BY <1>7 DEF H!Payloads
<1>8. CASE field = "heat"
  BY <1>8 DEF H!Payloads
<1>9. CASE field = "warm"
  BY <1>9 DEF H!Payloads
<1>10. CASE field = "hot"
  BY <1>10 DEF H!Payloads
<1>11. CASE field = "load"
  BY <1>11 DEF H!Payloads
<1>12. CASE field = "cpus"
  <2>1. value \in Cpus \cup {1}
    BY <1>12 DEF H!Values
  <2> QED
    BY <1>12, <2>1 DEF H!Payloads
<1>13. CASE field = "errors"
  BY <1>13 DEF H!Payloads
<1>14. CASE field = "status"
  BY <1>14 DEF H!Payloads
<1> QED
  BY <1>1, <1>2, <1>3, <1>4, <1>5, <1>6, <1>7, <1>8, <1>9, <1>10, <1>11, <1>12, <1>13, <1>14

\* Whatever is open before, it is what the report says afterwards.
LEMMA ReportSets ==
  ASSUME H!HealthInv, NEW new \in H!Payloads, H!Report(new)
  PROVE  H!HealthInv'
<1>1. \A p \in H!Payloads : H!Codes(H!Alerts(p, 0)) \subseteq H!Ended
  BY WhatCodes DEF H!Ended
<1>2. open \subseteq H!Ended
  BY <1>1 DEF H!HealthInv
<1>3. open' = (open \cup H!Codes(H!Alerts(new, 0))) \ (H!Ended \ H!Codes(H!Alerts(new, 0)))
  BY DEF H!Report
<1>4. open' = H!Codes(H!Alerts(new, 0))
  BY <1>1, <1>2, <1>3
<1>5. payload' = new /\ age' = 0
  BY DEF H!Report
<1>6. open' = H!Codes(H!Alerts(payload, 0))'
  BY <1>4, <1>5
<1> QED
  BY <1>5, <1>6 DEF H!HealthInv

LEMMA HealthStep == H!HealthInv /\ [H!HealthNext]_(H!healthVars) => H!HealthInv'
<1> SUFFICES ASSUME H!HealthInv, [H!HealthNext]_(H!healthVars) PROVE H!HealthInv'
  OBVIOUS
<1>1. CASE payload = H!None /\ H!Report(H!Quiet)
  BY <1>1, QuietFields, ReportSets
<1>2. ASSUME payload # H!None, NEW field \in DOMAIN H!Values, NEW value \in H!Values[field],
             H!Report([payload EXCEPT ![field] = value])
      PROVE  H!HealthInv'
  <2>1. [payload EXCEPT ![field] = value] \in H!Payloads
    BY <1>2, FieldChanges DEF H!HealthInv
  <2> QED
    BY <1>2, <2>1, ReportSets
<1>3. CASE H!Tick
  <2>1. payload # H!None /\ age' = age + 1 /\ UNCHANGED <<payload, open>>
    BY <1>3 DEF H!Tick
  <2>2. payload \in H!Payloads /\ age \in Nat /\ open = H!Codes(H!Alerts(payload, 0))
    BY <2>1 DEF H!HealthInv
  <2>3. payload' \in H!Payloads /\ age' \in Nat /\ open' = H!Codes(H!Alerts(payload, 0))'
    BY <2>1, <2>2
  <2> QED
    BY <2>3 DEF H!HealthInv
<1>4. CASE UNCHANGED H!healthVars
  <2>1. payload' = payload /\ age' = age /\ open' = open
    BY <1>4 DEF H!healthVars
  <2> QED
    BY <2>1 DEF H!HealthInv
<1> QED
  BY <1>1, <1>2, <1>3, <1>4 DEF H!HealthNext

LEMMA HealthFollows == H!HealthInv => H!HealthIsTold
<1> SUFFICES ASSUME H!HealthInv PROVE H!HealthIsTold
  OBVIOUS
<1>1. CASE payload = H!None
  <2>1. /\ \A p \in H!Payloads : p # payload
        /\ age = StaleAfter + 1 /\ open = {}
    BY <1>1, Something DEF H!HealthInv
  <2>2. H!Alerts(payload, age) = {H!Alert("warning", "no_data")} /\ H!Overall(payload, age) = "warning"
        /\ H!DataState(payload, age) = "stale" /\ H!WifiState(payload, age) = "stale"
    BY <1>1 DEF H!Alerts, H!Overall, H!DataState, H!WifiState
  <2>3. H!Codes(H!Alerts(payload, age)) = {"no_data"}
        /\ \A alert \in H!Alerts(payload, age) : alert.level # "critical"
    BY <2>2 DEF H!Codes, H!Alert
  <2> QED
    BY <1>1, <2>1, <2>2, <2>3 DEF H!HealthIsTold
<1>2. CASE payload # H!None
  <2> PICK p \in H!Payloads : p = payload /\ open = H!Codes(H!Alerts(p, 0))
    BY <1>2 DEF H!HealthInv
  <2>0. p # H!None
    BY <1>2
  <2>1. H!Overall(p, age) =
          IF H!Is("critical", p, age) THEN "critical"
          ELSE IF H!Is("warning", p, age) THEN "warning" ELSE "ok"
    BY <2>0 DEF H!Overall
  <2>2. H!Is("critical", p, age) <=>
          \E alert \in H!Alerts(p, age) :
            alert.level = "critical" /\ ~(p.status = "degraded" /\ alert.code = "stale")
    <3>1. \A level, code : H!Alert(level, code).level = level /\ H!Alert(level, code).code = code
      BY DEF H!Alert
    <3>2. H!Is("critical", p, age) <=>
            \/ p.status # "degraded" /\ H!Stale(age)
            \/ "critical" \in {H!Wan(p), H!Dns(p), H!Temperature(p), H!Memory(p), H!Storage(p)}
      BY ItemStates, SumOfItems
    <3>3. (\E alert \in H!Alerts(p, age) :
             alert.level = "critical" /\ ~(p.status = "degraded" /\ alert.code = "stale")) <=>
            \/ p.status # "degraded" /\ H!Stale(age)
            \/ "critical" \in {H!Wan(p), H!Dns(p), H!Temperature(p), H!Memory(p), H!Storage(p)}
      BY <3>1, WhatAlerts
    <3> QED
      BY <3>2, <3>3
  <2>3. H!Overall(p, age) = "ok" => H!Codes(H!Alerts(p, age)) \subseteq {"load.high"}
    <3> SUFFICES ASSUME H!Overall(p, age) = "ok", NEW code \in H!Codes(H!Alerts(p, age))
                 PROVE  code = "load.high"
      OBVIOUS
    <3>1. ~H!Is("critical", p, age) /\ ~H!Is("warning", p, age)
      BY <2>1
    <3>2. /\ ~H!Stale(age)
          /\ \A state \in {"warning", "critical"} :
               state \notin {H!Wan(p), H!Dns(p), H!Temperature(p), H!Memory(p), H!Storage(p)}
      BY <3>1, ItemStates, SumOfItems
    <3> QED
      BY <3>2, WhatCodes
  <2>4. H!DataState(p, age) = "stale" <=> H!Stale(age)
    BY <2>0 DEF H!DataState
  <2>5. H!Codes(H!Alerts(p, age)) \cap {"stale", "no_data"} # {} <=> H!Stale(age)
    BY WhatCodes
  <2>6. H!DataState(p, age) = "stale" => H!WifiState(p, age) = "stale"
    BY DEF H!WifiState
  <2> QED
    BY <1>2, <2>1, <2>2, <2>3, <2>4, <2>5, <2>6 DEF H!HealthIsTold
<1> QED
  BY <1>1, <1>2

-----------------------------------------------------------------------------
(* Automatic updates (UpdateOffers). *)

LEMMA Fields ==
  ASSUME NEW a \in U!Agents
  PROVE  /\ a.version \in Nat /\ a.auto \in BOOLEAN /\ a.available \in Nat
         /\ a.status \in {"", "failed", "skipped", "rollback", "success"}
         /\ a.error \in {"", "failed", "downgrade blocked", "install failed", "rollback requested"}
BY DEF U!Agents

LEMMA NoReport == U!None \notin U!Agents
<1> SUFFICES ASSUME U!None \in U!Agents PROVE FALSE
  OBVIOUS
<1>1. "version" \in DOMAIN U!None
  BY DEF U!Agents
<1> QED
  BY <1>1 DEF U!None

LEMMA OfferBase == U!OfferInit => U!OfferInv
<1> SUFFICES ASSUME U!OfferInit PROVE U!OfferInv
  OBVIOUS
<1>1. daemon \in U!Agents /\ daemon.status = "" /\ app \in Nat
  <2>1. \A v \in U!Versions : v \in Nat
    BY ServerAssumption DEF U!Versions
  <2>2. app \in U!Versions /\ daemon \in U!Unchecked
    BY DEF U!OfferInit
  <2>3. ASSUME NEW a \in U!Unchecked PROVE a \in U!Agents /\ a.status = ""
    <3>1. a \in [version : Nat, auto : BOOLEAN, status : {""}, error : {""}, available : {0}]
      BY <2>1 DEF U!Unchecked
    <3>2. a.status \in {"", "failed", "skipped", "rollback", "success"} /\ a.status = ""
      BY <3>1
    <3>3. a.error \in {"", "failed", "downgrade blocked", "install failed", "rollback requested"}
      BY <3>1
    <3>4. a.available \in Nat /\ a.version \in Nat /\ a.auto \in BOOLEAN
      <4>1. a.available \in {0}
        BY <3>1
      <4>2. a.available \in Nat
        BY <4>1
      <4>3. a.version \in Nat
        BY <3>1
      <4>4. a.auto \in BOOLEAN
        BY <3>1
      <4> QED
        BY <4>2, <4>3, <4>4
    <3> QED
      BY <3>1, <3>2, <3>3, <3>4 DEF U!Agents
  <2> QED
    BY <2>1, <2>2, <2>3
<1>0. /\ hour = 0 /\ older = 0 /\ postponed = U!None /\ heard = U!None /\ offers = <<>>
      /\ (been <=> daemon.version = Legacy) /\ been \in BOOLEAN /\ lowered = FALSE
  BY DEF U!OfferInit
<1>2. U!OfferTypeOK
  <2>1. postponed \in U!Agents \cup {U!None}
    BY <1>0
  <2>2. heard \in [report : U!Agents, at : Nat, server : Nat] \cup {U!None}
    BY <1>0
  <2>3. offers \in Seq(U!Offer)
    BY <1>0
  <2> QED
    BY <1>0, <1>1, <2>1, <2>2, <2>3 DEF U!OfferTypeOK
<1>3. U!ResultsOK
  BY <1>1 DEF U!OfferInit, U!ResultsOK, U!ResultOK
<1>4. U!LegacyOK
  BY <1>0 DEF U!LegacyOK
<1>5. U!OffersAreDue
  BY DEF U!OfferInit, U!OffersAreDue
<1> QED
  BY <1>2, <1>3, <1>4, <1>5 DEF U!OfferInv

\* A result that is remembered tells apart what it was.
LEMMA Remembering ==
  ASSUME U!OfferInv, NEW status1 \in {"", "failed", "skipped", "rollback", "success"},
         NEW error \in {"", "failed", "downgrade blocked", "install failed", "rollback requested"},
         NEW available \in Nat,
         status1 = "rollback" => error # "",
         status1 = "skipped" => error \in {"", "downgrade blocked"}
  PROVE  LET a == U!Result(status1, error, available)
         IN a \in U!Agents /\ a.version = daemon.version /\ U!ResultOK(a)
<1> PICK a : a = U!Result(status1, error, available)
  OBVIOUS
<1>1. daemon \in U!Agents
  BY DEF U!OfferInv, U!OfferTypeOK
<1>2. a = [[[daemon EXCEPT !.status = status1] EXCEPT !.error = error] EXCEPT !.available = available]
  BY <1>1 DEF U!Result, U!Agents
<1>3. a \in U!Agents /\ a.version = daemon.version /\ a.status = status1 /\ a.error = error
  BY <1>1, <1>2 DEF U!Agents
<1>4. U!ResultOK(a)
  BY <1>3 DEF U!ResultOK
<1> QED
  BY <1>3, <1>4

LEMMA Reversion ==
  ASSUME NEW a \in U!Agents, NEW v \in Nat, U!ResultOK(a)
  PROVE  /\ [a EXCEPT !.version = v] \in U!Agents
         /\ [a EXCEPT !.version = v].version = v
         /\ U!ResultOK([a EXCEPT !.version = v])
<1> PICK b : b = [a EXCEPT !.version = v]
  OBVIOUS
<1>1. b \in U!Agents /\ b.version = v /\ b.status = a.status /\ b.error = a.error
  BY DEF U!Agents
<1>2. U!ResultOK(b)
  BY <1>1 DEF U!ResultOK
<1> QED
  BY <1>1, <1>2

\* What a check or a person does to the agent, the history with it.
Moves ==
  /\ daemon' \in U!Agents /\ U!ResultOK(daemon') /\ older' \in Nat
  /\ been' \in BOOLEAN /\ (been => been')
  /\ daemon'.version = Legacy => been'
  /\ lowered' = FALSE

LEMMA CheckMoves ==
  ASSUME U!OfferInv, NEW allow \in BOOLEAN, allow => been, U!Check(allow)
  PROVE  Moves
<1>1. /\ daemon \in U!Agents /\ U!ResultOK(daemon) /\ older \in Nat /\ app \in Nat
      /\ been \in BOOLEAN /\ lowered = FALSE /\ (daemon.version = Legacy => been)
      /\ daemon.version \in Nat
  BY Fields
  DEF U!OfferInv, U!OfferTypeOK, U!ResultsOK, U!LegacyOK, U!OffersAreDue
<1>2. CASE daemon' \in U!Remembered(allow) /\ UNCHANGED <<older, been, lowered>>
  <2>1. \/ daemon' = U!Result("failed", "failed", 0)
        \/ daemon' = U!Result("skipped", "", app)
        \/ daemon' = U!Result("skipped", "downgrade blocked", app)
    BY <1>2 DEF U!Remembered
  <2>2. ASSUME daemon' = U!Result("failed", "failed", 0)
        PROVE daemon' \in U!Agents /\ daemon'.version = daemon.version /\ U!ResultOK(daemon')
    BY <2>2, Remembering
  <2>3. ASSUME daemon' = U!Result("skipped", "", app)
        PROVE daemon' \in U!Agents /\ daemon'.version = daemon.version /\ U!ResultOK(daemon')
    BY <1>1, <2>3, Remembering
  <2>4. ASSUME daemon' = U!Result("skipped", "downgrade blocked", app)
        PROVE daemon' \in U!Agents /\ daemon'.version = daemon.version /\ U!ResultOK(daemon')
    BY <1>1, <2>4, Remembering
  <2>5. daemon' \in U!Agents /\ daemon'.version = daemon.version /\ U!ResultOK(daemon')
    BY <2>1, <2>2, <2>3, <2>4
  <2> QED
    BY <1>1, <1>2, <2>5 DEF Moves
<1>3. CASE /\ app # daemon.version /\ (app > daemon.version \/ allow)
           /\ older' = daemon.version
           /\ daemon' = U!Result("rollback", "install failed", daemon.version)
           /\ UNCHANGED <<been, lowered>>
  <2>1. daemon' \in U!Agents /\ daemon'.version = daemon.version /\ U!ResultOK(daemon')
    BY <1>1, <1>3, Remembering
  <2> QED
    BY <1>1, <1>3, <2>1 DEF Moves
<1>4. CASE /\ app # daemon.version /\ (app > daemon.version \/ allow)
           /\ older' = daemon.version
           /\ daemon' = [U!Result("success", "", app) EXCEPT !.version = app]
           /\ been' = (been \/ app = Legacy)
           /\ lowered' = (lowered \/ (app < daemon.version /\ ~been))
  <2>1. U!Result("success", "", app) \in U!Agents /\ U!ResultOK(U!Result("success", "", app))
    BY <1>1, Remembering
  <2>2. daemon' \in U!Agents /\ daemon'.version = app /\ U!ResultOK(daemon')
    BY <1>1, <1>4, <2>1, Reversion
  <2>3. ~(app < daemon.version /\ ~been)
    <3>1. CASE allow
      BY <3>1
    <3>2. CASE app > daemon.version
      BY <1>1, <3>2
    <3> QED
      BY <1>4, <3>1, <3>2
  <2>4. lowered' = FALSE /\ been' \in BOOLEAN /\ (been => been') /\ (app = Legacy => been')
    BY <1>1, <1>4, <2>3
  <2> QED
    BY <1>1, <1>4, <2>2, <2>4 DEF Moves
<1> QED
  BY <1>2, <1>3, <1>4 DEF U!Check

\* Offers that are asked for for the same reason as before, some of them ended.
Standing ==
  /\ offers' \in Seq(U!Offer) /\ DOMAIN offers' = DOMAIN offers
  /\ \A i \in DOMAIN offers : /\ offers'[i].app = offers[i].app /\ offers'[i].hour = offers[i].hour
                              /\ offers'[i].allow = offers[i].allow /\ offers'[i].due = offers[i].due

LEMMA MovesKeep ==
  ASSUME U!OfferInv, Moves \/ UNCHANGED <<daemon, older, been, lowered>>, Standing,
         hour' \in Nat, app' \in Nat, UNCHANGED <<postponed, heard>>
  PROVE  U!OfferInv'
<1> USE DEF U!OfferInv
<1>1. /\ daemon' \in U!Agents /\ U!ResultOK(daemon') /\ older' \in Nat
      /\ been' \in BOOLEAN /\ (been => been') /\ (daemon'.version = Legacy => been')
      /\ lowered' = FALSE
  <2>1. CASE Moves
    BY <2>1 DEF Moves
  <2>2. CASE UNCHANGED <<daemon, older, been, lowered>>
    BY <2>2 DEF U!OfferTypeOK, U!ResultsOK, U!LegacyOK, U!OffersAreDue
  <2> QED
    BY <2>1, <2>2
<1>2. U!OfferTypeOK'
  BY <1>1 DEF U!OfferTypeOK, Standing
<1>3. U!ResultsOK'
  BY <1>1 DEF U!ResultsOK, U!ResultOK
<1>4. U!LegacyOK'
  BY <1>1 DEF U!LegacyOK, Standing
<1>5. U!OffersAreDue'
  <2>1. /\ \A i, j \in DOMAIN offers' :
             i < j => offers'[i].app # offers'[j].app \/ offers'[i].hour # offers'[j].hour
        /\ \A i \in DOMAIN offers' : offers'[i].due
    BY DEF U!OffersAreDue, Standing
  <2>2. (heard' # U!None /\ heard'.report.auto /\ heard'.report.version < heard'.server) =>
          \E i \in DOMAIN offers' : offers'[i].app = heard'.server /\ offers'[i].hour = heard'.at
    BY DEF U!OffersAreDue, Standing
  <2>3. heard' = heard /\ lowered' = FALSE
    BY <1>1
  <2>4. heard' # U!None =>
          LET a == heard'.report
          IN /\ a.status \in {"failed", "rollback"} => U!State(a) = "error"
             /\ U!State(a) = "available" => a.version < a.available
             /\ (a.status = "skipped" /\ a.available < a.version) => U!State(a) # "error"
    BY <2>3 DEF U!OffersAreDue
  <2> QED
    BY <2>1, <2>2, <2>3, <2>4 DEF U!OffersAreDue, U!State, U!Harmless
<1> QED
  BY <1>2, <1>3, <1>4, <1>5

\* Offers are asked for once, and for a reason.
LEMMA ReceiveKeeps ==
  ASSUME U!OfferInv, NEW body \in U!Agents, U!Receive(body), U!ResultOK(body),
         body.version = Legacy => been, body = daemon \/ body = postponed,
         postponed' \in {postponed, U!None},
         UNCHANGED <<hour, app, daemon, older, been, lowered>>
  PROVE  U!OfferInv'
<1> USE DEF U!OfferInv
<1>1. /\ hour \in Nat /\ app \in Nat /\ offers \in Seq(U!Offer) /\ been \in BOOLEAN
      /\ body.version \in Nat /\ body.auto \in BOOLEAN
  BY Fields DEF U!OfferTypeOK
<1> DEFINE o == [hour |-> hour, app |-> app, status |-> "queued",
                 allow |-> body.version = Legacy, due |-> daemon.version < app \/ body = postponed]
           asks == body.auto /\ U!Required(body.version)
                   /\ \A i \in DOMAIN offers : ~U!Offered(offers[i])
<1>2. /\ heard' = [report |-> body, at |-> hour, server |-> app]
      /\ offers' = IF asks THEN Append(offers, o) ELSE offers
  BY DEF U!Receive
<1>3. o \in U!Offer /\ o.hour = hour /\ o.app = app /\ (o.allow => been)
      /\ (asks => o.due)
  <2>1. asks /\ body = daemon => daemon.version < app
    BY DEF U!Required
  <2> QED
    BY <1>1, <2>1 DEF U!Offer
<1> HIDE DEF o
<1>4. /\ heard' # U!None /\ heard'.report = body /\ heard'.at = hour /\ heard'.server = app
      /\ heard' \in [report : U!Agents, at : Nat, server : Nat]
  <2>1. "report" \in DOMAIN heard'
    BY <1>2
  <2>2. heard' # U!None
    BY <2>1 DEF U!None
  <2> QED
    BY <1>1, <1>2, <2>2
<1>5. /\ offers' \in Seq(U!Offer)
      /\ \A i \in DOMAIN offers : i \in DOMAIN offers' /\ offers'[i] = offers[i]
      /\ ~asks => offers' = offers
      /\ asks => /\ DOMAIN offers' = 1..(Len(offers) + 1) /\ offers'[Len(offers) + 1] = o
                 /\ DOMAIN offers = 1..Len(offers) /\ Len(offers) \in Nat
  BY <1>1, <1>2, <1>3
<1>6. \A i \in DOMAIN offers' : i \in DOMAIN offers \/ (asks /\ i = Len(offers) + 1 /\ offers'[i] = o)
  BY <1>5
<1>7. U!OfferTypeOK'
  BY <1>4, <1>5 DEF U!OfferTypeOK
<1>8. U!ResultsOK'
  BY <1>4 DEF U!ResultsOK, U!ResultOK
<1>9. U!LegacyOK'
  <2>1. \A i \in DOMAIN offers' : offers'[i].allow => been
    BY <1>3, <1>5, <1>6 DEF U!LegacyOK
  <2> QED
    BY <2>1 DEF U!LegacyOK
<1>10. \A i, j \in DOMAIN offers' :
         i < j => offers'[i].app # offers'[j].app \/ offers'[i].hour # offers'[j].hour
  <2>1. CASE asks
    <3>1. \A i \in DOMAIN offers : offers[i].app # app \/ offers[i].hour # hour
      BY <2>1 DEF U!Offered
    <3> SUFFICES ASSUME NEW i \in DOMAIN offers', NEW j \in DOMAIN offers', i < j
                 PROVE  offers'[i].app # offers'[j].app \/ offers'[i].hour # offers'[j].hour
      OBVIOUS
    <3>2. i \in DOMAIN offers
      BY <1>5, <2>1
    <3>3. CASE j \in DOMAIN offers
      BY <1>5, <3>2, <3>3 DEF U!OffersAreDue
    <3>4. CASE offers'[j] = o
      BY <1>3, <1>5, <3>1, <3>2, <3>4
    <3> QED
      BY <1>6, <3>3, <3>4
  <2>2. CASE ~asks
    BY <1>5, <2>2 DEF U!OffersAreDue
  <2> QED
    BY <2>1, <2>2
<1>11. \A i \in DOMAIN offers' : offers'[i].due
  BY <1>3, <1>5, <1>6 DEF U!OffersAreDue
<1>12. body.auto /\ body.version < app =>
         \E i \in DOMAIN offers' : offers'[i].app = app /\ offers'[i].hour = hour
  <2>1. CASE asks
    <3>1. Len(offers) + 1 \in DOMAIN offers'
      BY <1>5, <2>1
    <3> QED
      BY <1>3, <1>5, <2>1, <3>1
  <2>2. CASE ~asks
    BY <1>5, <2>2 DEF U!Required, U!Offered
  <2> QED
    BY <2>1, <2>2
<1>13. /\ body.status \in {"failed", "rollback"} => U!State(body) = "error"
       /\ U!State(body) = "available" => body.version < body.available
       /\ (body.status = "skipped" /\ body.available < body.version) => U!State(body) # "error"
  <2>1. body.available \in Nat
    BY Fields
  <2> QED
    BY <1>1, <2>1 DEF U!State, U!Harmless, U!ResultOK
<1>14. lowered' = FALSE
  BY DEF U!OffersAreDue
<1>15. U!OffersAreDue'
  <2> SUFFICES
        /\ heard'.report.auto /\ heard'.report.version < heard'.server =>
             \E i \in DOMAIN offers' : offers'[i].app = heard'.server /\ offers'[i].hour = heard'.at
        /\ LET a == heard'.report
           IN /\ a.status \in {"failed", "rollback"} => U!State(a) = "error"
              /\ U!State(a) = "available" => a.version < a.available
              /\ (a.status = "skipped" /\ a.available < a.version) => U!State(a) # "error"
    BY <1>10, <1>11, <1>14 DEF U!OffersAreDue, U!State, U!Harmless
  <2> QED
    BY <1>4, <1>12, <1>13
<1> QED
  BY <1>7, <1>8, <1>9, <1>15

LEMMA OfferStep == U!OfferInv /\ [U!OfferNext]_(U!offerVars) => U!OfferInv'
<1> SUFFICES ASSUME U!OfferInv, [U!OfferNext]_(U!offerVars) PROVE U!OfferInv'
  OBVIOUS
<1>1. /\ hour \in Nat /\ app \in Nat /\ older \in Nat /\ daemon \in U!Agents
      /\ offers \in Seq(U!Offer) /\ been \in BOOLEAN /\ lowered = FALSE
      /\ U!ResultOK(daemon) /\ (daemon.version = Legacy => been)
      /\ \A v \in U!Versions : v \in Nat
  BY ServerAssumption
  DEF U!OfferInv, U!OfferTypeOK, U!ResultsOK, U!LegacyOK, U!OffersAreDue, U!Versions
<1>2. UNCHANGED offers => Standing
  BY <1>1 DEF Standing
<1>3. CASE U!Tick \/ U!Deploy
  <2>1. hour' \in Nat /\ app' \in Nat /\ UNCHANGED <<daemon, older, been, lowered, postponed, heard, offers>>
    BY <1>1, <1>3 DEF U!Tick, U!Deploy
  <2> QED
    BY <1>2, <2>1, MovesKeep
<1>4. CASE U!Scheduled
  <2>1. U!Check(FALSE) /\ UNCHANGED <<hour, app, postponed, heard, offers>>
    BY <1>4 DEF U!Scheduled
  <2>2. Moves
    BY <2>1, CheckMoves
  <2> QED
    BY <1>1, <1>2, <2>1, <2>2, MovesKeep
<1>5. ASSUME NEW i \in DOMAIN offers, U!Run(i) PROVE U!OfferInv'
  <2>1. /\ offers' = [offers EXCEPT ![i].status = "ended"] /\ U!Check(offers[i].allow)
        /\ UNCHANGED <<hour, app, postponed, heard>>
    BY <1>5 DEF U!Run
  <2>2. offers[i] \in U!Offer
    BY <1>1
  <2>3. offers[i].allow \in BOOLEAN /\ (offers[i].allow => been)
    BY <2>2 DEF U!Offer, U!OfferInv, U!LegacyOK
  <2>4. Moves
    BY <2>1, <2>3, CheckMoves
  <2>5. Standing
    <3> PICK o : o = [offers[i] EXCEPT !.status = "ended"]
      OBVIOUS
    <3>1. o \in U!Offer /\ o.app = offers[i].app /\ o.hour = offers[i].hour
          /\ o.allow = offers[i].allow /\ o.due = offers[i].due
      BY <2>2 DEF U!Offer
    <3>2. offers' = [offers EXCEPT ![i] = o]
      BY <2>1
    <3>3. /\ offers' \in Seq(U!Offer) /\ DOMAIN offers' = DOMAIN offers
          /\ offers'[i] = o /\ \A j \in DOMAIN offers : j # i => offers'[j] = offers[j]
      BY <1>1, <3>1, <3>2
    <3> QED
      BY <3>1, <3>3 DEF Standing
  <2> QED
    BY <1>1, <2>1, <2>4, <2>5, MovesKeep
<1>6. CASE U!Report /\ U!Receive(daemon) /\ UNCHANGED postponed
  <2>1. UNCHANGED <<hour, app, daemon, older, been, lowered>>
    BY <1>6 DEF U!Report
  <2> QED
    BY <1>1, <1>6, <2>1, ReceiveKeeps
<1>7. CASE U!Report /\ postponed' = daemon /\ UNCHANGED <<heard, offers>>
  <2>1. UNCHANGED <<hour, app, daemon, older, been, lowered>>
    BY <1>7 DEF U!Report
  <2>2. U!OfferTypeOK'
    BY <1>1, <1>7, <2>1 DEF U!OfferInv, U!OfferTypeOK
  <2>3. U!ResultsOK' /\ U!LegacyOK' /\ U!OffersAreDue'
    BY <1>1, <1>7, <2>1 DEF U!OfferInv, U!ResultsOK, U!ResultOK, U!LegacyOK, U!OffersAreDue,
       U!State, U!Harmless
  <2> QED
    BY <2>2, <2>3 DEF U!OfferInv
<1>8. CASE U!ReportAgain
  <2>1. /\ postponed # U!None /\ U!Receive(postponed) /\ postponed' = U!None
        /\ UNCHANGED <<hour, app, daemon, older, been, lowered>>
    BY <1>8 DEF U!ReportAgain
  <2>2. /\ postponed \in U!Agents /\ U!ResultOK(postponed)
        /\ (postponed.version = Legacy => been)
    BY <2>1 DEF U!OfferInv, U!OfferTypeOK, U!ResultsOK, U!LegacyOK
  <2> QED
    BY <2>1, <2>2, ReceiveKeeps
<1>9. CASE U!Rollback
  <2>1. /\ daemon' = [U!Result("rollback", "rollback requested", daemon.version) EXCEPT !.version = older]
        /\ been' = (been \/ older = Legacy)
        /\ UNCHANGED <<hour, app, older, postponed, heard, offers, lowered>>
    BY <1>9 DEF U!Rollback
  <2>2. daemon.version \in Nat
    BY <1>1, Fields
  <2>3. /\ U!Result("rollback", "rollback requested", daemon.version) \in U!Agents
        /\ U!ResultOK(U!Result("rollback", "rollback requested", daemon.version))
    BY <2>2, Remembering
  <2>4. daemon' \in U!Agents /\ daemon'.version = older /\ U!ResultOK(daemon')
    BY <1>1, <2>1, <2>3, Reversion
  <2>5. been' \in BOOLEAN /\ (been => been') /\ (older = Legacy => been')
    BY <1>1, <2>1
  <2>6. Moves
    BY <1>1, <2>1, <2>4, <2>5 DEF Moves
  <2> QED
    BY <1>1, <1>2, <2>1, <2>6, MovesKeep
<1>10. CASE U!Install
  <2>1. PICK v \in U!Versions : daemon' = [daemon EXCEPT !.version = v] /\ been' = (been \/ v = Legacy)
    BY <1>10 DEF U!Install
  <2>2. UNCHANGED <<hour, app, older, postponed, heard, offers, lowered>>
    BY <1>10 DEF U!Install
  <2>3. daemon' \in U!Agents /\ daemon'.version = v /\ U!ResultOK(daemon')
    BY <1>1, <2>1, Reversion
  <2>4. been' \in BOOLEAN /\ (been => been') /\ (v = Legacy => been')
    BY <1>1, <2>1
  <2>5. Moves
    BY <1>1, <2>2, <2>3, <2>4 DEF Moves
  <2> QED
    BY <1>1, <1>2, <2>2, <2>5, MovesKeep
<1>11. CASE U!SetAuto
  <2>1. /\ daemon' = [daemon EXCEPT !.auto = ~@]
        /\ UNCHANGED <<hour, app, older, postponed, heard, offers, been, lowered>>
    BY <1>11 DEF U!SetAuto
  <2>2. /\ daemon' \in U!Agents /\ daemon'.version = daemon.version
        /\ daemon'.status = daemon.status /\ daemon'.error = daemon.error
    BY <1>1, <2>1 DEF U!Agents
  <2>3. U!ResultOK(daemon')
    BY <1>1, <2>2 DEF U!ResultOK
  <2>4. Moves
    BY <1>1, <2>1, <2>2, <2>3 DEF Moves
  <2> QED
    BY <1>1, <1>2, <2>1, <2>4, MovesKeep
<1>12. CASE UNCHANGED U!offerVars
  <2>1. UNCHANGED <<hour, app, daemon, older, been, lowered, postponed, heard, offers>>
    BY <1>12 DEF U!offerVars
  <2> QED
    BY <1>1, <1>2, <2>1, MovesKeep
<1>13. U!Report => \/ U!Receive(daemon) /\ UNCHANGED postponed
                   \/ postponed' = daemon /\ UNCHANGED <<heard, offers>>
  BY DEF U!Report
<1> QED
  BY <1>3, <1>4, <1>5, <1>6, <1>7, <1>8, <1>9, <1>10, <1>11, <1>12, <1>13 DEF U!OfferNext

-----------------------------------------------------------------------------
(* Automation rules (Automations). *)

\* The limits with the reports that were not alone as a parameter.
Kept(runs, some) ==
  \A j \in DOMAIN runs :
    /\ \A i \in 1..(j - 1) :
         runs[i].report \notin some => runs[j].at >= runs[i].at + runs[j].cooldown
    /\ runs[j].report \notin some => A!Cardinality(A!Hourly(runs, j)) <= runs[j].limit
Knows(runs, last, some) ==
  \A i \in DOMAIN runs : runs[i].report \notin some => last >= runs[i].at

LEMMA KeptMeans ==
  /\ \A runs : A!KeptIn(runs) <=> Kept(runs, mingled)
  /\ \A runs, last : A!Known(runs, last) <=> Knows(runs, last, mingled)
BY DEF A!KeptIn, A!Alone, A!Known, Kept, Knows

LEMMA RunFields ==
  ASSUME NEW runs \in Seq(A!Runs), NEW i \in DOMAIN runs
  PROVE  /\ runs[i].at \in Nat /\ runs[i].cooldown \in Nat /\ runs[i].limit \in Nat
         /\ i \in Nat /\ runs[i] \in A!Runs /\ DOMAIN runs = 1..Len(runs) /\ Len(runs) \in Nat
<1>1. runs[i] \in A!Runs /\ i \in Nat
  OBVIOUS
<1>2. runs[i].at \in Nat /\ runs[i].cooldown \in Cooldowns /\ runs[i].limit \in Limits
  BY <1>1 DEF A!Runs
<1>3. Cooldowns \subseteq Nat /\ Limits \subseteq Nat
  BY ServerAssumption
<1>4. DOMAIN runs = 1..Len(runs) /\ Len(runs) \in Nat
  OBVIOUS
<1> QED
  BY <1>1, <1>2, <1>3, <1>4

LEMMA SomeCard ==
  ASSUME NEW n \in Nat, NEW big \in SUBSET (1..n), NEW small \in SUBSET big
  PROVE  /\ A!Cardinality(big) \in Nat /\ A!Cardinality(small) \in Nat
         /\ A!Cardinality(small) <= A!Cardinality(big)
         /\ A!Cardinality(big \cup {n + 1}) = A!Cardinality(big) + 1
<1>1. \A X : A!Cardinality(X) = Cardinality(X)
  BY DEF A!Cardinality, Cardinality
<1>2. IsFiniteSet(1..n)
  BY FS_Interval
<1>3. IsFiniteSet(big) /\ IsFiniteSet(small)
  BY <1>2, FS_Subset
<1>4. Cardinality(big) \in Nat /\ Cardinality(small) \in Nat /\ Cardinality(small) <= Cardinality(big)
  BY <1>3, FS_CardinalityType, FS_Subset
<1>5. n + 1 \notin big
  OBVIOUS
<1>6. Cardinality(big \cup {n + 1}) = Cardinality(big) + 1
  BY <1>3, <1>5, FS_AddElement
<1> QED
  BY <1>1, <1>4, <1>6

LEMMA MoreTogether ==
  ASSUME NEW runs, NEW some, NEW more, some \subseteq more
  PROVE  /\ Kept(runs, some) => Kept(runs, more)
         /\ \A last : Knows(runs, last, some) => Knows(runs, last, more)
BY DEF Kept, Knows

LEMMA JoinFacts ==
  ASSUME NEW s \in Seq(A!Runs), NEW t \in Seq(A!Runs)
  PROVE  /\ s \o t \in Seq(A!Runs) /\ Len(s) \in Nat /\ Len(t) \in Nat
         /\ DOMAIN s = 1..Len(s) /\ DOMAIN t = 1..Len(t)
         /\ DOMAIN (s \o t) = 1..(Len(s) + Len(t)) /\ Len(s \o t) = Len(s) + Len(t)
         /\ \A i \in 1..Len(s) : (s \o t)[i] = s[i]
         /\ \A k \in 1..Len(t) : (s \o t)[Len(s) + k] = t[k]
OBVIOUS

LEMMA Beyond ==
  ASSUME NEW n \in Nat, NEW l \in Nat, NEW i \in 1..(n + l), i \notin 1..n
  PROVE  i - n \in 1..l /\ i = n + (i - n) /\ i > n
OBVIOUS

\* What was counted when a run started is not counted differently later.
LEMMA HourlyOfPrefix ==
  ASSUME NEW s, NEW t, NEW j \in Nat, \A i \in 1..j : t[i] = s[i], j > 0
  PROVE  A!Hourly(t, j) = A!Hourly(s, j)
<1>1. j \in 1..j
  OBVIOUS
<1> QED
  BY <1>1 DEF A!Hourly

LEMMA KeptAppend ==
  ASSUME NEW v \in Seq(A!Runs), NEW x \in A!Runs, NEW some, Kept(v, some),
         \A i \in DOMAIN v : v[i].report \notin some => x.at >= v[i].at + x.cooldown,
         A!Cardinality(A!Since(v, x.at)) < x.limit
  PROVE  Kept(Append(v, x), some)
<1> PICK w : w = Append(v, x)
  OBVIOUS
<1> PICK n : n = Len(v)
  OBVIOUS
<1>1. /\ n \in Nat /\ DOMAIN v = 1..n /\ DOMAIN w = 1..(n + 1) /\ w[n + 1] = x
      /\ \A i \in 1..n : w[i] = v[i]
  OBVIOUS
<1>2. x.limit \in Nat /\ x.at \in Nat
  BY ServerAssumption DEF A!Runs
<1>3. A!Cardinality(A!Hourly(w, n + 1)) <= x.limit
  <2> PICK since : since = A!Since(v, x.at)
    OBVIOUS
  <2>1. since \in SUBSET (1..n)
    BY <1>1 DEF A!Since
  <2>2. A!Hourly(w, n + 1) \subseteq since \cup {n + 1}
    <3> SUFFICES ASSUME NEW i \in A!Hourly(w, n + 1), i # n + 1 PROVE i \in since
      OBVIOUS
    <3>1. i \in 1..(n + 1) /\ w[i].status = "queued" /\ w[i].at >= x.at - Hour
      BY <1>1 DEF A!Hourly
    <3>2. i \in 1..n /\ w[i] = v[i]
      BY <1>1, <3>1
    <3> QED
      BY <1>1, <3>1, <3>2 DEF A!Since
  <2>3. since \cup {n + 1} \in SUBSET (1..(n + 1))
    BY <1>1, <2>1
  <2>4. A!Cardinality(since \cup {n + 1}) = A!Cardinality(since) + 1 /\ A!Cardinality(since) \in Nat
    BY <1>1, <2>1, SomeCard
  <2>5. A!Cardinality(A!Hourly(w, n + 1)) <= A!Cardinality(since \cup {n + 1})
        /\ A!Cardinality(A!Hourly(w, n + 1)) \in Nat
    <3>1. n + 1 \in Nat /\ A!Hourly(w, n + 1) \in SUBSET (since \cup {n + 1})
      BY <1>1, <2>2
    <3> PICK m : m = n + 1
      OBVIOUS
    <3> QED
      BY <3>1, <2>3, SomeCard
  <2>6. A!Cardinality(since) < x.limit
    OBVIOUS
  <2> QED
    BY <1>2, <2>4, <2>5, <2>6
<1>4. ASSUME NEW j \in DOMAIN w
      PROVE  /\ \A i \in 1..(j - 1) :
                  w[i].report \notin some => w[j].at >= w[i].at + w[j].cooldown
             /\ w[j].report \notin some => A!Cardinality(A!Hourly(w, j)) <= w[j].limit
  <2>1. CASE j = n + 1
    <3>1. \A i \in 1..(j - 1) : i \in DOMAIN v /\ w[i] = v[i]
      BY <1>1, <2>1
    <3> QED
      BY <1>1, <1>3, <2>1, <3>1
  <2>2. CASE j # n + 1
    <3>1. /\ j \in 1..n /\ w[j] = v[j] /\ \A i \in 1..j : w[i] = v[i]
          /\ j \in Nat /\ j > 0
      BY <1>1, <2>2
    <3>2. A!Hourly(w, j) = A!Hourly(v, j)
      BY <3>1, HourlyOfPrefix
    <3>3. \A i \in 1..(j - 1) : w[i] = v[i]
      BY <3>1
    <3> QED
      BY <1>1, <3>1, <3>2, <3>3 DEF Kept
  <2> QED
    BY <2>1, <2>2
<1> QED
  BY <1>4 DEF Kept

\* Runs of reports that were not alone may come between.
LEMMA KeptInsert ==
  ASSUME NEW s \in Seq(A!Runs), NEW t \in Seq(A!Runs), NEW u \in Seq(A!Runs), NEW some,
         Kept(s \o t, some), Kept(s \o u, some),
         \A k \in DOMAIN t : t[k].report \in some,
         \A k \in DOMAIN u : u[k].report \in some
  PROVE  Kept((s \o t) \o u, some)
<1> DEFINE st == s \o t
           su == s \o u
           w == st \o u
           m == Len(s)
           n == Len(s) + Len(t)
<1>1. /\ st \in Seq(A!Runs) /\ m \in Nat /\ n \in Nat /\ Len(t) \in Nat /\ Len(u) \in Nat
      /\ DOMAIN st = 1..n /\ Len(st) = n /\ DOMAIN t = 1..Len(t) /\ DOMAIN u = 1..Len(u)
      /\ n = m + Len(t)
      /\ \A i \in 1..m : st[i] = s[i]
      /\ \A k \in 1..Len(t) : st[m + k] = t[k]
  BY JoinFacts
<1>2. /\ DOMAIN su = 1..(m + Len(u))
      /\ \A i \in 1..m : su[i] = s[i]
      /\ \A k \in 1..Len(u) : su[m + k] = u[k]
  BY JoinFacts
<1>3. /\ DOMAIN w = 1..(n + Len(u))
      /\ \A i \in 1..n : w[i] = st[i]
      /\ \A k \in 1..Len(u) : w[n + k] = u[k]
  BY <1>1, JoinFacts
<1>4. Kept(st, some) /\ Kept(su, some)
  OBVIOUS
<1> HIDE DEF st, su, w, m, n
<1>5. ASSUME NEW j \in DOMAIN w
      PROVE  /\ \A i \in 1..(j - 1) :
                  w[i].report \notin some => w[j].at >= w[i].at + w[j].cooldown
             /\ w[j].report \notin some => A!Cardinality(A!Hourly(w, j)) <= w[j].limit
  <2>1. CASE j \in 1..n
    <3>1. j \in Nat /\ j > 0 /\ \A i \in 1..j : w[i] = st[i]
      BY <1>1, <1>3, <2>1
    <3>2. A!Hourly(w, j) = A!Hourly(st, j)
      BY <3>1, HourlyOfPrefix
    <3>3. w[j] = st[j] /\ \A i \in 1..(j - 1) : w[i] = st[i]
      BY <3>1
    <3> QED
      BY <1>1, <1>4, <2>1, <3>2, <3>3 DEF Kept
  <2>2. CASE j \notin 1..n
    <3>1. PICK k \in 1..Len(u) : j = n + k
      <4>0. n \in Nat /\ Len(u) \in Nat /\ j \in 1..(n + Len(u))
        BY <1>1, <1>3
      <4>1. j - n \in 1..Len(u) /\ j = n + (j - n)
        BY ONLY <2>2, <4>0, Beyond
      <4> QED
        BY <4>1
    <3>2. w[j] = u[k] /\ w[j] = su[m + k] /\ m + k \in DOMAIN su
      BY <1>1, <1>2, <1>3, <3>1
    <3>3. w[j].report \in some
      BY <1>1, <3>2
    <3>4. ASSUME NEW i \in 1..(j - 1), w[i].report \notin some
          PROVE  w[j].at >= w[i].at + w[j].cooldown
      <4>1. i \in 1..m
        <5>1. CASE i > n
          <6>1. i - n \in 1..Len(u) /\ i = n + (i - n)
            BY <1>1, <1>3, <3>1, <5>1
          <6>2. w[i] = u[i - n]
            BY <1>3, <6>1
          <6> QED
            BY <1>1, <3>4, <6>1, <6>2
        <5>2. CASE i > m /\ i <= n
          <6>1. i - m \in 1..Len(t) /\ i = m + (i - m) /\ i \in 1..n
            BY <1>1, <5>2
          <6>2. w[i] = t[i - m]
            BY <1>1, <1>3, <6>1
          <6> QED
            BY <1>1, <3>4, <6>1, <6>2
        <5> QED
          BY <1>1, <3>1, <5>1, <5>2
      <4>2. w[i] = su[i] /\ i \in 1..((m + k) - 1) /\ i \in 1..n
        BY <1>1, <1>2, <1>3, <4>1
      <4> QED
        BY <1>4, <3>2, <3>4, <4>2 DEF Kept
    <3> QED
      BY <3>3, <3>4
  <2> QED
    BY <2>1, <2>2
<1>6. Kept(w, some)
  BY <1>5 DEF Kept
<1> QED
  BY <1>6 DEF w, st

\* A run that has been answered is counted no more.
LEMMA KeptEnded ==
  ASSUME NEW v \in Seq(A!Runs), NEW w \in Seq(A!Runs), Len(w) = Len(v), NEW some, Kept(v, some),
         \A i \in DOMAIN v :
           /\ w[i].at = v[i].at /\ w[i].report = v[i].report /\ w[i].cooldown = v[i].cooldown
           /\ w[i].limit = v[i].limit /\ (w[i].status = "queued" => v[i].status = "queued")
  PROVE  Kept(w, some) /\ \A last : Knows(v, last, some) => Knows(w, last, some)
<1>1. DOMAIN v = 1..Len(v) /\ DOMAIN w = DOMAIN v /\ Len(v) \in Nat
  OBVIOUS
<1>2. ASSUME NEW j \in DOMAIN w
      PROVE  /\ \A i \in 1..(j - 1) :
                  w[i].report \notin some => w[j].at >= w[i].at + w[j].cooldown
             /\ w[j].report \notin some => A!Cardinality(A!Hourly(w, j)) <= w[j].limit
  <2>1. j \in Nat /\ j > 0 /\ \A i \in 1..j : i \in DOMAIN v
    BY <1>1
  <2>2. \A i \in 1..(j - 1) : i \in DOMAIN v
    BY <1>1
  <2>3. A!Hourly(w, j) \subseteq A!Hourly(v, j) /\ A!Hourly(v, j) \in SUBSET (1..j)
    BY <1>1, <2>1 DEF A!Hourly
  <2>4. /\ A!Cardinality(A!Hourly(w, j)) <= A!Cardinality(A!Hourly(v, j))
        /\ A!Cardinality(A!Hourly(w, j)) \in Nat /\ A!Cardinality(A!Hourly(v, j)) \in Nat
    BY <2>1, <2>3, SomeCard
  <2>5. v[j].limit \in Nat
    BY <1>1, RunFields
  <2>6. w[j].report \notin some => A!Cardinality(A!Hourly(v, j)) <= v[j].limit
    BY <1>1 DEF Kept
  <2>7. \A i \in 1..(j - 1) :
          v[i].report \notin some => v[j].at >= v[i].at + v[j].cooldown
    BY <1>1 DEF Kept
  <2>8. w[j].report \notin some => A!Cardinality(A!Hourly(w, j)) <= w[j].limit
    BY <1>1, <2>4, <2>5, <2>6
  <2>9. \A i \in 1..(j - 1) :
          w[i].report \notin some => w[j].at >= w[i].at + w[j].cooldown
    BY <1>1, <2>2, <2>7
  <2> QED
    BY <2>8, <2>9
<1>3. \A last : Knows(v, last, some) => Knows(w, last, some)
  BY <1>1 DEF Knows
<1> QED
  BY <1>2, <1>3 DEF Kept

\* Only runs that were not alone are unknown to whoever looks.
LEMMA KnowsInsert ==
  ASSUME NEW s \in Seq(A!Runs), NEW t \in Seq(A!Runs), NEW u \in Seq(A!Runs), NEW some, NEW last,
         Knows(s \o u, last, some), \A k \in DOMAIN t : t[k].report \in some
  PROVE  Knows((s \o t) \o u, last, some)
<1> DEFINE st == s \o t
           su == s \o u
           w == st \o u
           m == Len(s)
           n == Len(s) + Len(t)
<1>1. /\ st \in Seq(A!Runs) /\ m \in Nat /\ n \in Nat /\ Len(t) \in Nat /\ Len(u) \in Nat
      /\ DOMAIN st = 1..n /\ Len(st) = n /\ DOMAIN t = 1..Len(t) /\ DOMAIN u = 1..Len(u)
      /\ n = m + Len(t)
      /\ \A i \in 1..m : st[i] = s[i]
      /\ \A k \in 1..Len(t) : st[m + k] = t[k]
  BY JoinFacts
<1>2. /\ DOMAIN su = 1..(m + Len(u))
      /\ \A i \in 1..m : su[i] = s[i]
      /\ \A k \in 1..Len(u) : su[m + k] = u[k]
  BY JoinFacts
<1>3. /\ DOMAIN w = 1..(n + Len(u))
      /\ \A i \in 1..n : w[i] = st[i]
      /\ \A k \in 1..Len(u) : w[n + k] = u[k]
  BY <1>1, JoinFacts
<1>4. Knows(su, last, some)
  OBVIOUS
<1> HIDE DEF st, su, w, m, n
<1>5. ASSUME NEW i \in DOMAIN w, w[i].report \notin some
      PROVE  last >= w[i].at
  <2>0. i \in Nat /\ i > 0 /\ i <= n + Len(u)
    BY <1>1, <1>3
  <2>1. CASE i > n
    <3>0. n \in Nat /\ Len(u) \in Nat /\ i \in 1..(n + Len(u)) /\ i \notin 1..n
      BY <1>1, <2>0, <2>1
    <3>1. i - n \in 1..Len(u) /\ i = n + (i - n)
      BY ONLY <3>0, Beyond
    <3>2. PICK k \in 1..Len(u) : i = n + k
      BY ONLY <3>1
    <3>3. w[i] = su[m + k] /\ m + k \in DOMAIN su
      BY <1>1, <1>2, <1>3, <3>2
    <3> QED
      BY <1>4, <1>5, <3>3 DEF Knows
  <2>2. CASE i > m /\ i <= n
    <3>1. i - m \in 1..Len(t) /\ i = m + (i - m) /\ i \in 1..n
      BY <1>1, <1>3, <2>2
    <3>2. w[i] = t[i - m]
      BY <1>1, <1>3, <3>1
    <3> QED
      BY <1>1, <1>5, <3>1, <3>2
  <2>3. CASE i <= m
    <3>1. i \in 1..m /\ i \in 1..n /\ i \in DOMAIN su
      BY <1>1, <1>2, <1>3, <2>3
    <3>2. w[i] = su[i]
      BY <1>1, <1>2, <1>3, <3>1
    <3> QED
      BY <1>4, <1>5, <3>1, <3>2 DEF Knows
  <2> QED
    BY <1>1, <1>3, <2>1, <2>2, <2>3
<1>6. Knows(w, last, some)
  BY <1>5 DEF Knows
<1> QED
  BY <1>6 DEF w, st

\* What was visible to a report, and one run more.
LEMMA OneRunMore ==
  ASSUME NEW s \in Seq(A!Runs), NEW u \in Seq(A!Runs), NEW x \in A!Runs
  PROVE  /\ s \o Append(u, x) = Append(s \o u, x) /\ s \o <<>> = s
         /\ s \o u \in Seq(A!Runs) /\ Append(u, x) \in Seq(A!Runs)
         /\ DOMAIN Append(u, x) = DOMAIN u \cup {Len(u) + 1}
         /\ Append(u, x)[Len(u) + 1] = x
         /\ \A k \in DOMAIN u : Append(u, x)[k] = u[k]
OBVIOUS

\* A run that has just started is known.
LEMMA KnowsAppend ==
  ASSUME NEW v \in Seq(A!Runs), NEW x \in A!Runs, NEW some,
         \A i \in DOMAIN v : v[i].report \notin some => x.at >= v[i].at
  PROVE  Knows(Append(v, x), x.at, some)
<1> PICK w : w = Append(v, x)
  OBVIOUS
<1>1. /\ DOMAIN w = 1..(Len(v) + 1) /\ w[Len(v) + 1] = x /\ DOMAIN v = 1..Len(v)
      /\ \A i \in 1..Len(v) : w[i] = v[i]
  OBVIOUS
<1>2. x.at \in Nat /\ Len(v) \in Nat
  BY DEF A!Runs
<1>3. ASSUME NEW i \in DOMAIN w, w[i].report \notin some PROVE x.at >= w[i].at
  <2>1. i = Len(v) + 1 \/ i \in 1..Len(v)
    BY <1>1, <1>2
  <2>2. CASE i = Len(v) + 1
    BY <1>1, <1>2, <2>2
  <2>3. CASE i \in 1..Len(v)
    BY <1>1, <1>3, <2>3
  <2> QED
    BY <2>1, <2>2, <2>3
<1> QED
  BY <1>3 DEF Knows

\* The invariant in parts: the record with its runs, a report, and the reports together.
Holding == [nr : Nat, at : Nat \cup {-1}, seen : A!Loaded \cup {A!Unread}, own : Seq(A!Runs)]
Looks(x) == x.seen # A!Unread
RowFine(record, runs, some) ==
  /\ record \in A!Loaded \cup {A!Gone} /\ runs \in Seq(A!Runs)
  /\ record = A!Gone => runs = <<>>
  /\ Kept(runs, some)
  /\ record # A!Gone => Knows(runs, record.last, some)
OwnFine(x) ==
  /\ x \in Holding
  /\ Looks(x) => x.seen.enabled
  /\ Looks(x) \/ x.at # -1 => x.nr # 0
  /\ ~Looks(x) => x.own = <<>>
  /\ \A k \in DOMAIN x.own : x.own[k].report = x.nr
Fits(x, record, runs, some) ==
  record # A!Gone => /\ Looks(x) => Knows(runs \o x.own, x.seen.last, some)
                  /\ Kept(runs \o x.own, some)
Apart(these, some) ==
  \A r, q \in Reporters : Looks(these[r]) /\ Looks(these[q]) /\ r # q => these[r].nr \in some
AllFine(record, runs, these, some) ==
  /\ RowFine(record, runs, some)
  /\ these \in [Reporters -> Holding]
  /\ \A r \in Reporters : OwnFine(these[r]) /\ Fits(these[r], record, runs, some)
  /\ Apart(these, some)
RuleInv == time \in Nat /\ nr \in Nat /\ AllFine(rule, ran, running, mingled)

LEMMA RuleMeans == A!AutomationInv <=> RuleInv
<1>1. A!LimitsKept <=> Kept(ran, mingled)
  BY KeptMeans DEF A!LimitsKept
<1>2. \A r \in Reporters :
        A!KeptIn(A!Visible(r)) <=> Kept(ran \o running[r].own, mingled)
  BY KeptMeans DEF A!Visible
<1>3. \A r \in Reporters : r \in A!Looking <=> Looks(running[r])
  BY DEF A!Looking, Looks
<1>4. A!ReportsOK /\ running \in [Reporters -> Holding]
        <=> running \in [Reporters -> Holding] /\ \A r \in Reporters : OwnFine(running[r])
  BY <1>3 DEF A!ReportsOK, OwnFine
<1>5. A!LastIsKnown <=>
        (rule # A!Gone => /\ Knows(ran, rule.last, mingled)
                          /\ \A r \in Reporters :
                               Looks(running[r])
                                 => Knows(ran \o running[r].own, running[r].seen.last, mingled))
  BY <1>3, KeptMeans DEF A!LastIsKnown, A!Visible, A!Looking
<1>6. A!MingledOK <=> Apart(running, mingled)
  BY <1>3 DEF A!MingledOK, Apart, A!Looking
<1>7. A!AutomationTypeOK <=> /\ time \in Nat /\ nr \in Nat /\ rule \in A!Loaded \cup {A!Gone}
                             /\ ran \in Seq(A!Runs) /\ running \in [Reporters -> Holding]
  BY DEF A!AutomationTypeOK, Holding
<1> QED
  BY <1>1, <1>2, <1>4, <1>5, <1>6, <1>7
  DEF A!AutomationInv, RuleInv, AllFine, RowFine, Fits

LEMMA RowFacts ==
  ASSUME NEW record \in A!Loaded \cup {A!Gone}
  PROVE  /\ A!Unread = A!Gone
         /\ record.enabled => record # A!Gone
         /\ record # A!Gone => record \in A!Loaded
         /\ record \in A!Loaded => record # A!Gone
         /\ \A t \in Nat \cup {-1} :
              record \in A!Loaded => /\ [record EXCEPT !.last = t] \in A!Loaded
                                  /\ [record EXCEPT !.last = t].last = t
                                  /\ [record EXCEPT !.last = t].enabled = record.enabled
         /\ record \in A!Loaded => /\ record.last \in Nat \cup {-1} /\ record.cooldown \in Cooldowns
                                /\ record.limit \in Limits
<1>1. A!Gone.limit = 0 /\ A!Gone.enabled = FALSE
  BY DEF A!Gone
<1>2. record \in A!Loaded => record.limit \in Limits
  BY DEF A!Loaded
<1>3. record \in A!Loaded => record.limit # 0
  BY <1>2, ServerAssumption
<1>4. \A t \in Nat \cup {-1} :
        record \in A!Loaded => /\ [record EXCEPT !.last = t] \in A!Loaded
                            /\ [record EXCEPT !.last = t].last = t
                            /\ [record EXCEPT !.last = t].enabled = record.enabled
  BY DEF A!Loaded
<1>5. record \in A!Loaded => record.last \in Nat \cup {-1} /\ record.cooldown \in Cooldowns
  BY DEF A!Loaded
<1> QED
  BY <1>1, <1>2, <1>3, <1>4, <1>5 DEF A!Unread

LEMMA FitsMore ==
  ASSUME NEW x, NEW record, NEW runs, NEW some, NEW more, some \subseteq more
  PROVE  /\ Fits(x, record, runs, some) => Fits(x, record, runs, more)
         /\ RowFine(record, runs, some) => RowFine(record, runs, more)
BY MoreTogether DEF Fits, RowFine

OthersFine(record, runs, these, some, r, x) ==
  /\ \A q \in Reporters \ {r} : OwnFine(these[q]) /\ Fits(these[q], record, runs, some)
  /\ \A p, q \in Reporters \ {r} :
       Looks(these[p]) /\ Looks(these[q]) /\ p # q => these[p].nr \in some
  /\ \A q \in Reporters \ {r} :
       Looks(x) /\ Looks(these[q]) => x.nr \in some /\ these[q].nr \in some

LEMMA Replaced ==
  ASSUME NEW record, NEW runs, NEW these, NEW some, NEW r \in Reporters, NEW x, NEW after,
         after = [these EXCEPT ![r] = x], these \in [Reporters -> Holding],
         RowFine(record, runs, some), OwnFine(x), Fits(x, record, runs, some),
         OthersFine(record, runs, these, some, r, x)
  PROVE  AllFine(record, runs, after, some)
<1>1. x \in Holding
  BY DEF OwnFine
<1>2. after \in [Reporters -> Holding] /\ after[r] = x
  BY <1>1
<1>3. \A q \in Reporters \ {r} : after[q] = these[q]
  OBVIOUS
<1>4. ASSUME NEW q \in Reporters PROVE OwnFine(after[q]) /\ Fits(after[q], record, runs, some)
  <2>1. CASE q = r
    BY <1>2, <2>1
  <2>2. CASE q # r
    BY <1>3, <2>2 DEF OthersFine
  <2> QED
    BY <2>1, <2>2
<1>5. ASSUME NEW p \in Reporters, NEW q \in Reporters, Looks(after[p]), Looks(after[q]), p # q
      PROVE  after[p].nr \in some
  <2>1. CASE p = r
    BY <1>2, <1>3, <1>5, <2>1 DEF OthersFine
  <2>2. CASE q = r
    BY <1>2, <1>3, <1>5, <2>2 DEF OthersFine
  <2>3. CASE p # r /\ q # r
    BY <1>3, <1>5, <2>3 DEF OthersFine
  <2> QED
    BY <2>1, <2>2, <2>3
<1> QED
  BY <1>2, <1>4, <1>5 DEF AllFine, Apart

\* What a report is, by its fields.
LEMMA HoldingFields ==
  ASSUME NEW x \in Holding
  PROVE  /\ x.nr \in Nat /\ x.at \in Nat \cup {-1} /\ x.seen \in A!Loaded \cup {A!Unread}
         /\ x.own \in Seq(A!Runs) /\ Len(x.own) \in Nat /\ DOMAIN x.own = 1..Len(x.own)
<1>1. x.own \in Seq(A!Runs)
  BY DEF Holding
<1>2. x.nr \in Nat /\ x.at \in Nat \cup {-1} /\ x.seen \in A!Loaded \cup {A!Unread}
  BY DEF Holding
<1> QED
  BY <1>1, <1>2

LEMMA EmitFine ==
  ASSUME RuleInv, NEW r \in Reporters, A!Emit(r)
  PROVE  RuleInv'
<1>0. /\ time \in Nat /\ nr \in Nat /\ RowFine(rule, ran, mingled)
      /\ running \in [Reporters -> Holding] /\ Apart(running, mingled)
      /\ \A q \in Reporters : OwnFine(running[q]) /\ Fits(running[q], rule, ran, mingled)
  BY DEF RuleInv, AllFine
<1> PICK old : old = running[r]
  OBVIOUS
<1> PICK x : x = [old EXCEPT !.nr = IF @ = 0 THEN nr + 1 ELSE @, !.at = time]
  OBVIOUS
<1>1. old \in Holding /\ OwnFine(old)
  BY <1>0
<1>2. /\ x.at = time /\ x.seen = old.seen /\ x.own = old.own
      /\ x.nr = IF old.nr = 0 THEN nr + 1 ELSE old.nr
  BY <1>1 DEF Holding
<1>3. x.nr \in Nat /\ x.nr # 0 /\ (old.nr # 0 => x.nr = old.nr)
  BY <1>0, <1>1, <1>2, HoldingFields
<1>4. x \in Holding
  BY <1>0, <1>1, <1>2, <1>3 DEF Holding
<1>5. Looks(x) <=> Looks(old)
  BY <1>2 DEF Looks
<1>6. Looks(old) => x.nr = old.nr
  BY <1>1, <1>3 DEF OwnFine
<1>7. OwnFine(x)
  <2>1. Looks(old) => \A k \in DOMAIN x.own : x.own[k].report = x.nr
    BY <1>1, <1>2, <1>6 DEF OwnFine
  <2>2. ~Looks(old) => x.own = <<>>
    BY <1>1, <1>2 DEF OwnFine
  <2>3. x.own = <<>> => \A k \in DOMAIN x.own : x.own[k].report = x.nr
    OBVIOUS
  <2>4. \A k \in DOMAIN x.own : x.own[k].report = x.nr
    BY <2>1, <2>2, <2>3
  <2>5. Looks(x) => x.seen.enabled
    BY <1>1, <1>2, <1>5 DEF OwnFine
  <2> QED
    BY <1>3, <1>4, <1>5, <2>2, <2>4, <2>5 DEF OwnFine
<1>8. Fits(x, rule, ran, mingled)
  BY <1>0, <1>2, <1>5 DEF Fits
<1>9. running' = [running EXCEPT ![r] = x] /\ rule' = rule /\ ran' = ran /\ mingled' = mingled
      /\ time' = time /\ nr' = nr + 1
  BY DEF A!Emit
<1>10. AllFine(rule, ran, running', mingled)
  <2>1. \A p, q \in Reporters \ {r} :
           Looks(running[p]) /\ Looks(running[q]) /\ p # q => running[p].nr \in mingled
    BY <1>0 DEF Apart
  <2>2. \A q \in Reporters \ {r} :
           Looks(x) /\ Looks(running[q]) => x.nr \in mingled /\ running[q].nr \in mingled
    BY <1>0, <1>5, <1>6 DEF Apart
  <2> PICK after : after = running'
    OBVIOUS
  <2>3. after = [running EXCEPT ![r] = x] /\ running \in [Reporters -> Holding]
        /\ RowFine(rule, ran, mingled)
    BY <1>0, <1>9
  <2>4. OthersFine(rule, ran, running, mingled, r, x)
    BY <1>0, <2>1, <2>2 DEF OthersFine
  <2>5. AllFine(rule, ran, after, mingled)
    BY <1>7, <1>8, <2>3, <2>4, Replaced
  <2> QED
    BY <2>5
<1> QED
  BY <1>0, <1>9, <1>10 DEF RuleInv

LEMMA SeenFine ==
  ASSUME RuleInv, NEW r \in Reporters, rule.enabled
  PROVE  LET seen == A!Seen(r)
             v == A!Visible(r)
         IN  /\ seen \in A!Loaded /\ seen # A!Unread /\ seen.enabled /\ rule # A!Gone
             /\ v \in Seq(A!Runs)
             /\ Knows(v, seen.last, mingled) /\ Kept(v, mingled)
<1>0. /\ RowFine(rule, ran, mingled) /\ running[r] \in Holding
      /\ OwnFine(running[r]) /\ Fits(running[r], rule, ran, mingled)
  BY DEF RuleInv, AllFine
<1>1. rule # A!Gone /\ rule \in A!Loaded /\ A!Unread = A!Gone
  BY <1>0, RowFacts DEF RowFine
<1>2. ran \in Seq(A!Runs) /\ running[r].own \in Seq(A!Runs)
  BY <1>0, HoldingFields DEF RowFine
<1>3. A!Visible(r) \in Seq(A!Runs) /\ Kept(A!Visible(r), mingled)
  BY <1>0, <1>1, <1>2, JoinFacts DEF A!Visible, Fits
<1>4. CASE Looks(running[r])
  <2>1. A!Seen(r) = running[r].seen
    BY <1>4 DEF A!Seen, Looks
  <2>2. running[r].seen \in A!Loaded /\ running[r].seen # A!Unread
    BY <1>0, <1>4, HoldingFields DEF Looks
  <2> QED
    BY <1>0, <1>1, <1>3, <1>4, <2>1, <2>2 DEF Fits, OwnFine, A!Visible
<1>5. CASE ~Looks(running[r])
  <2>1. A!Seen(r) = rule
    BY <1>5 DEF A!Seen, Looks
  <2>2. A!Visible(r) = ran
    BY <1>0, <1>2, <1>5, OneRunMore DEF OwnFine, A!Visible
  <2> QED
    BY <1>0, <1>1, <1>3, <2>1, <2>2 DEF RowFine
<1> QED
  BY <1>4, <1>5

\* Reports that look at the same time are noted.
LEMMA MingleNotes ==
  ASSUME RuleInv, NEW r \in Reporters, A!Mingle(r)
  PROVE  /\ mingled \subseteq mingled'
         /\ \A p, q \in Reporters \ {r} :
              Looks(running[p]) /\ Looks(running[q]) /\ p # q => running[p].nr \in mingled'
         /\ \A q \in Reporters \ {r} :
              Looks(running[q]) => running[r].nr \in mingled' /\ running[q].nr \in mingled'
<1>1. Apart(running, mingled)
  BY DEF RuleInv, AllFine
<1>2. mingled \subseteq mingled'
  BY DEF A!Mingle
<1>3. ASSUME NEW q \in Reporters \ {r}, Looks(running[q])
      PROVE  running[r].nr \in mingled' /\ running[q].nr \in mingled'
  <2>1. q \in A!Looking \ {r}
    BY <1>3 DEF A!Looking, Looks
  <2>2. mingled' = mingled \cup {running[x].nr : x \in A!Looking \cup {r}}
    BY <2>1 DEF A!Mingle
  <2> QED
    BY <2>1, <2>2
<1>4. ASSUME NEW p \in Reporters \ {r}, NEW q \in Reporters \ {r},
             Looks(running[p]), Looks(running[q]), p # q
      PROVE  running[p].nr \in mingled'
  BY <1>1, <1>2, <1>4 DEF Apart
<1> QED
  BY <1>2, <1>3, <1>4

LEMMA StartFine ==
  ASSUME RuleInv, NEW r \in Reporters, A!Start(r)
  PROVE  RuleInv'
<1>0. /\ time \in Nat /\ nr \in Nat /\ RowFine(rule, ran, mingled)
      /\ running \in [Reporters -> Holding]
      /\ \A q \in Reporters : OwnFine(running[q]) /\ Fits(running[q], rule, ran, mingled)
  BY DEF RuleInv, AllFine
<1>1. /\ running[r].at # -1 /\ rule.enabled /\ A!Cool(r) /\ A!Mingle(r)
      /\ A!Cardinality(A!Since(A!Visible(r), running[r].at)) < A!Seen(r).limit
      /\ time' = time /\ rule' = rule /\ ran' = ran /\ nr' = nr
  BY DEF A!Start, A!Allowed
<1> PICK old : old = running[r]
  OBVIOUS
<1> PICK seen : seen = A!Seen(r)
  OBVIOUS
<1> PICK v : v = A!Visible(r)
  OBVIOUS
<1> PICK some : some = mingled'
  OBVIOUS
<1> PICK answer \in {"queued", "ended"} :
      running' = [running EXCEPT ![r].at = -1,
                                 ![r].seen = [A!Seen(r) EXCEPT !.last = running[r].at],
                                 ![r].own = Append(@, A!Run(r, answer))]
  BY DEF A!Start
<1> PICK run : run = A!Run(r, answer)
  OBVIOUS
<1> PICK x : x = [old EXCEPT !.at = -1, !.seen = [seen EXCEPT !.last = old.at],
                             !.own = Append(@, run)]
  OBVIOUS
<1> PICK after : after = running'
  OBVIOUS
<1>a. after = [running EXCEPT ![r] = x]
  OBVIOUS
<1>2. /\ seen \in A!Loaded /\ seen.enabled /\ rule # A!Gone /\ v \in Seq(A!Runs)
      /\ Knows(v, seen.last, mingled) /\ Kept(v, mingled)
  BY <1>1, SeenFine
<1>3. /\ old \in Holding /\ OwnFine(old) /\ old.at \in Nat /\ old.nr \in Nat /\ old.nr # 0
      /\ old.own \in Seq(A!Runs) /\ ran \in Seq(A!Runs) /\ v = ran \o old.own
  <2>1. old \in Holding /\ OwnFine(old) /\ ran \in Seq(A!Runs) /\ v = ran \o old.own
    BY <1>0 DEF A!Visible, RowFine
  <2>2. old.at \in Nat /\ old.nr \in Nat /\ old.own \in Seq(A!Runs)
    BY <1>1, <2>1, HoldingFields
  <2> QED
    BY <1>1, <2>1, <2>2 DEF OwnFine
<1>4. /\ run.at = old.at /\ run.report = old.nr /\ run.cooldown = seen.cooldown
      /\ run.limit = seen.limit /\ run \in A!Runs /\ run.cooldown \in Nat
  <2>1. seen.cooldown \in Cooldowns /\ seen.limit \in Limits
    BY <1>2, RowFacts
  <2>2. run = [at |-> old.at, report |-> old.nr, status |-> answer,
               cooldown |-> seen.cooldown, limit |-> seen.limit]
    BY DEF A!Run
  <2>3. run \in A!Runs
    BY <1>3, <2>1, <2>2 DEF A!Runs
  <2> QED
    BY <2>1, <2>2, <2>3, ServerAssumption
<1>5. mingled \subseteq some
  BY <1>0, <1>1, MingleNotes
<1>6. Knows(v, seen.last, some) /\ Kept(v, some)
  BY <1>2, <1>5, MoreTogether
<1>7. seen.last = -1 \/ seen.last <= old.at - seen.cooldown
  BY <1>1 DEF A!Cool
<1>8. seen.last \in Nat \cup {-1}
  BY <1>2, RowFacts
<1>9. ASSUME NEW i \in DOMAIN v, v[i].report \notin some
      PROVE  run.at >= v[i].at + run.cooldown /\ run.at >= v[i].at
  <2>1. v[i].at \in Nat
    BY <1>2, RunFields
  <2>2. seen.last >= v[i].at
    BY <1>6, <1>9 DEF Knows
  <2>3. seen.last \in Nat /\ seen.last <= old.at - seen.cooldown
    BY <1>7, <1>8, <2>1, <2>2
  <2>4. run.at = old.at /\ run.cooldown = seen.cooldown /\ seen.cooldown \in Nat /\ old.at \in Nat
    BY <1>3, <1>4
  <2>5. old.at >= v[i].at + seen.cooldown /\ old.at >= v[i].at
    BY <2>1, <2>2, <2>3, <2>4
  <2> QED
    BY <2>4, <2>5
<1>10. Kept(Append(v, run), some)
  <2>1. A!Cardinality(A!Since(v, run.at)) < run.limit
    BY <1>1, <1>4
  <2>2. \A i \in DOMAIN v : v[i].report \notin some => run.at >= v[i].at + run.cooldown
    BY <1>9
  <2> QED
    BY <1>2, <1>4, <1>6, <2>1, <2>2, KeptAppend
<1>11. Knows(Append(v, run), old.at, some)
  BY <1>2, <1>4, <1>9, KnowsAppend
<1>12. /\ x.nr = old.nr /\ x.at = -1 /\ x.seen = [seen EXCEPT !.last = old.at]
       /\ x.own = Append(old.own, run)
  BY <1>3 DEF Holding
<1>13. /\ x.seen \in A!Loaded /\ x.seen.last = old.at /\ x.seen.enabled /\ Looks(x)
  <2>0. old.at \in Nat \cup {-1} /\ seen \in A!Loaded \cup {A!Gone} /\ seen \in A!Loaded
    BY <1>2, <1>3
  <2>a. \A t \in Nat \cup {-1} : /\ [seen EXCEPT !.last = t] \in A!Loaded
                                 /\ [seen EXCEPT !.last = t].last = t
                                 /\ [seen EXCEPT !.last = t].enabled = seen.enabled
    BY <2>0 DEF A!Loaded
  <2>1. x.seen \in A!Loaded /\ x.seen.last = old.at /\ x.seen.enabled
    BY <1>2, <1>12, <2>0, <2>a
  <2>2. x.seen # A!Gone /\ A!Unread = A!Gone
    BY <2>1, RowFacts
  <2> QED
    BY <2>1, <2>2 DEF Looks
<1>14. /\ x.own \in Seq(A!Runs) /\ ran \o x.own = Append(v, run)
       /\ DOMAIN x.own = DOMAIN old.own \cup {Len(old.own) + 1}
       /\ x.own[Len(old.own) + 1] = run
       /\ \A k \in DOMAIN old.own : x.own[k] = old.own[k]
  <2> PICK own, runs : own = old.own /\ runs = ran
    OBVIOUS
  <2>1. own \in Seq(A!Runs) /\ runs \in Seq(A!Runs) /\ run \in A!Runs
    BY <1>3, <1>4
  <2>2. /\ runs \o Append(own, run) = Append(runs \o own, run)
        /\ Append(own, run) \in Seq(A!Runs)
        /\ DOMAIN Append(own, run) = DOMAIN own \cup {Len(own) + 1}
        /\ Append(own, run)[Len(own) + 1] = run
        /\ \A k \in DOMAIN own : Append(own, run)[k] = own[k]
    BY ONLY <2>1, OneRunMore
  <2> QED
    BY <1>3, <1>12, <2>2
<1>15. OwnFine(x)
  <2>1. x \in Holding
    BY <1>3, <1>12, <1>13, <1>14 DEF Holding
  <2>2. \A k \in DOMAIN old.own : old.own[k].report = old.nr
    BY <1>3 DEF OwnFine
  <2>3. \A k \in DOMAIN x.own : x.own[k].report = x.nr
    BY <1>4, <1>12, <1>14, <2>2
  <2> QED
    BY <1>3, <1>12, <1>13, <2>1, <2>3 DEF OwnFine
<1>16. Fits(x, rule, ran, some)
  BY <1>10, <1>11, <1>13, <1>14 DEF Fits
<1>17. AllFine(rule, ran, after, some)
  <2>1. RowFine(rule, ran, some)
    BY <1>0, <1>5, FitsMore
  <2>2. \A q \in Reporters \ {r} : OwnFine(running[q]) /\ Fits(running[q], rule, ran, some)
    BY <1>0, <1>5, FitsMore
  <2>3. /\ \A p, q \in Reporters \ {r} :
             Looks(running[p]) /\ Looks(running[q]) /\ p # q => running[p].nr \in some
        /\ \A q \in Reporters \ {r} :
             Looks(running[q]) => x.nr \in some /\ running[q].nr \in some
    BY <1>1, <1>12, MingleNotes
  <2>4. OthersFine(rule, ran, running, some, r, x)
    BY <2>2, <2>3 DEF OthersFine
  <2> QED
    BY <1>0, <1>a, <1>15, <1>16, <2>1, <2>4, Replaced
<1> QED
  BY <1>0, <1>1, <1>17 DEF RuleInv

LEMMA SkipFine ==
  ASSUME RuleInv, NEW r \in Reporters, A!Skip(r)
  PROVE  RuleInv'
<1>0. /\ time \in Nat /\ nr \in Nat /\ RowFine(rule, ran, mingled)
      /\ running \in [Reporters -> Holding] /\ Apart(running, mingled)
      /\ \A q \in Reporters : OwnFine(running[q]) /\ Fits(running[q], rule, ran, mingled)
  BY DEF RuleInv, AllFine
<1>1. /\ running[r].at # -1 /\ time' = time /\ rule' = rule /\ ran' = ran /\ nr' = nr
      /\ rule.enabled => A!Mingle(r)
      /\ ~rule.enabled => mingled' = mingled
  BY DEF A!Skip
<1> PICK old : old = running[r]
  OBVIOUS
<1> PICK some : some = mingled'
  OBVIOUS
<1> PICK x, after :
      /\ x = [old EXCEPT !.at = -1, !.seen = IF rule.enabled THEN A!Seen(r) ELSE @]
      /\ after = running' /\ after = [running EXCEPT ![r] = x]
  BY DEF A!Skip
<1>2. old \in Holding /\ OwnFine(old) /\ Fits(old, rule, ran, mingled)
  BY <1>0
<1>3. /\ x.nr = old.nr /\ x.at = -1 /\ x.own = old.own
      /\ rule.enabled => x.seen = A!Seen(r)
      /\ ~rule.enabled => x.seen = old.seen
  BY <1>2 DEF Holding
<1>4. old.nr \in Nat /\ old.nr # 0 /\ old.own \in Seq(A!Runs)
  BY <1>1, <1>2, HoldingFields DEF OwnFine
<1>5. CASE rule.enabled
  <2>1. /\ x.seen \in A!Loaded /\ Looks(x) /\ x.seen.enabled
        /\ Knows(ran \o x.own, x.seen.last, mingled) /\ Kept(ran \o x.own, mingled)
    BY <1>3, <1>5, SeenFine DEF A!Visible, Looks
  <2>2. mingled \subseteq some
    BY <1>1, <1>5, MingleNotes
  <2>3. OwnFine(x)
    <3>1. x \in Holding
      BY <1>2, <1>3, <1>4, <2>1 DEF Holding
    <3>2. \A k \in DOMAIN x.own : x.own[k].report = x.nr
      BY <1>2, <1>3 DEF OwnFine
    <3> QED
      BY <1>3, <1>4, <2>1, <3>1, <3>2 DEF OwnFine
  <2>4. Fits(x, rule, ran, some)
    <3>1. Fits(x, rule, ran, mingled)
      BY <2>1 DEF Fits
    <3> QED
      BY <2>2, <3>1, FitsMore
  <2>5. RowFine(rule, ran, some)
    BY <1>0, <2>2, FitsMore
  <2>6. \A q \in Reporters \ {r} : OwnFine(running[q]) /\ Fits(running[q], rule, ran, some)
    BY <1>0, <2>2, FitsMore
  <2>7. /\ \A p, q \in Reporters \ {r} :
             Looks(running[p]) /\ Looks(running[q]) /\ p # q => running[p].nr \in some
        /\ \A q \in Reporters \ {r} :
             Looks(running[q]) => x.nr \in some /\ running[q].nr \in some
    BY <1>1, <1>3, <1>5, MingleNotes
  <2>8. OthersFine(rule, ran, running, some, r, x)
    BY <2>6, <2>7 DEF OthersFine
  <2>9. AllFine(rule, ran, after, some)
    BY <1>0, <2>3, <2>4, <2>5, <2>8, Replaced
  <2> QED
    BY <1>0, <1>1, <2>9 DEF RuleInv
<1>6. CASE ~rule.enabled
  <2>1. (Looks(x) <=> Looks(old)) /\ x.seen = old.seen /\ some = mingled
    BY <1>1, <1>3, <1>6 DEF Looks
  <2>2. OwnFine(x)
    <3>1. x \in Holding
      BY <1>2, <1>3, <1>4, <2>1 DEF Holding
    <3> QED
      BY <1>2, <1>3, <1>4, <2>1, <3>1 DEF OwnFine
  <2>3. Fits(x, rule, ran, some)
    BY <1>2, <1>3, <2>1 DEF Fits
  <2>4. \A q \in Reporters \ {r} : OwnFine(running[q]) /\ Fits(running[q], rule, ran, some)
    BY <1>0, <2>1
  <2>5. \A p, q \in Reporters \ {r} :
          Looks(running[p]) /\ Looks(running[q]) /\ p # q => running[p].nr \in some
    BY <1>0, <2>1 DEF Apart
  <2>6. \A q \in Reporters \ {r} :
          Looks(x) /\ Looks(running[q]) => x.nr \in some /\ running[q].nr \in some
    BY <1>0, <1>3, <2>1 DEF Apart
  <2>7. RowFine(rule, ran, some)
    BY <1>0, <2>1
  <2>8. OthersFine(rule, ran, running, some, r, x)
    BY <2>4, <2>5, <2>6 DEF OthersFine
  <2>9. AllFine(rule, ran, after, some)
    BY <1>0, <2>2, <2>3, <2>7, <2>8, Replaced
  <2> QED
    BY <1>0, <1>1, <2>9 DEF RuleInv
<1> QED
  BY <1>5, <1>6

LEMMA CommitFine ==
  ASSUME RuleInv, NEW r \in Reporters, A!Commit(r)
  PROVE  RuleInv'
<1>0. /\ time \in Nat /\ nr \in Nat /\ RowFine(rule, ran, mingled)
      /\ running \in [Reporters -> Holding] /\ Apart(running, mingled)
      /\ \A q \in Reporters : OwnFine(running[q]) /\ Fits(running[q], rule, ran, mingled)
      /\ rule \in A!Loaded \cup {A!Gone} /\ ran \in Seq(A!Runs)
  BY DEF RuleInv, AllFine, RowFine
<1>1. time' = time /\ nr' = nr /\ mingled' = mingled
  BY DEF A!Commit
<1> PICK old : old = running[r]
  OBVIOUS
<1> PICK x : x = A!Idle
  OBVIOUS
<1> PICK after : after = running'
  OBVIOUS
<1> PICK record, runs : record = rule' /\ runs = ran'
  OBVIOUS
<1>2. after = [running EXCEPT ![r] = x]
  BY DEF A!Commit
<1>3. /\ x \in Holding /\ ~Looks(x) /\ x.own = <<>> /\ x.at = -1 /\ OwnFine(x)
  <2>1. <<>> \in Seq(A!Runs) /\ DOMAIN <<>> = {}
    OBVIOUS
  <2>2. x \in Holding /\ ~Looks(x) /\ x.own = <<>> /\ x.at = -1
    BY <2>1 DEF A!Idle, Holding, Looks
  <2> QED
    BY <2>1, <2>2 DEF OwnFine
<1>4. old \in Holding /\ OwnFine(old) /\ Fits(old, rule, ran, mingled) /\ old.own \in Seq(A!Runs)
  BY <1>0, HoldingFields
<1>5. RowFine(record, runs, mingled)
      /\ \A q \in Reporters \ {r} : Fits(running[q], record, runs, mingled)
  <2>1. CASE rule = A!Gone
    <3>1. record = rule /\ runs = ran
      BY <2>1 DEF A!Commit
    <3> QED
      BY <1>0, <3>1
  <2>2. CASE rule # A!Gone /\ old.own = <<>>
    <3>1. record = rule /\ runs = ran
      BY <1>0, <2>2, OneRunMore DEF A!Commit
    <3> QED
      BY <1>0, <3>1
  <2>3. CASE rule # A!Gone /\ old.own # <<>>
    <3>1. runs = ran \o old.own /\ record = [rule EXCEPT !.last = old.seen.last]
      BY <2>3 DEF A!Commit
    <3>2. Looks(old)
      BY <1>4, <2>3 DEF OwnFine
    <3>3. old.seen.last \in Nat \cup {-1}
      <4>1. old.seen \in A!Loaded
        BY <1>4, <3>2, HoldingFields DEF Looks
      <4> QED
        BY <4>1 DEF A!Loaded
    <3>4. rule \in A!Loaded
      BY <1>0, <2>3
    <3>5. record \in A!Loaded /\ record.last = old.seen.last
      BY <3>1, <3>3, <3>4 DEF A!Loaded
    <3>6. record # A!Gone
      BY <3>5, RowFacts
    <3>7. Kept(runs, mingled) /\ Knows(runs, record.last, mingled) /\ runs \in Seq(A!Runs)
      BY <1>0, <1>4, <2>3, <3>1, <3>2, <3>5, JoinFacts DEF Fits
    <3>8. ASSUME NEW q \in Reporters \ {r} PROVE Fits(running[q], record, runs, mingled)
      <4> PICK u, t, s : u = running[q].own /\ t = old.own /\ s = ran
        OBVIOUS
      <4>1. u \in Seq(A!Runs) /\ t \in Seq(A!Runs) /\ s \in Seq(A!Runs) /\ runs = s \o t
        BY <1>0, <1>4, <3>1, HoldingFields
      <4>2. CASE Looks(running[q])
        <5>1. \A k \in DOMAIN t : t[k].report \in mingled
          BY <1>0, <1>4, <3>2, <4>2 DEF Apart, OwnFine
        <5>2. \A k \in DOMAIN u : u[k].report \in mingled
          BY <1>0, <3>2, <4>2 DEF Apart, OwnFine
        <5>3. Kept(s \o u, mingled) /\ Knows(s \o u, running[q].seen.last, mingled)
          BY <1>0, <2>3, <4>2 DEF Fits
        <5>4. Kept(s \o t, mingled)
          BY <3>7, <4>1
        <5>5. Kept((s \o t) \o u, mingled)
          BY <4>1, <5>1, <5>2, <5>3, <5>4, KeptInsert
        <5>6. Knows((s \o t) \o u, running[q].seen.last, mingled)
          BY <4>1, <5>1, <5>3, KnowsInsert
        <5> QED
          BY <4>1, <5>5, <5>6 DEF Fits
      <4>3. CASE ~Looks(running[q])
        <5>1. u = <<>>
          BY <1>0, <4>3 DEF OwnFine
        <5>2. runs \o u = runs
          BY <3>7, <5>1
        <5> QED
          BY <3>7, <4>3, <5>2 DEF Fits
      <4> QED
        BY <4>2, <4>3
    <3> QED
      BY <3>5, <3>6, <3>7, <3>8 DEF RowFine
  <2> QED
    BY <2>1, <2>2, <2>3
<1>6. Fits(x, record, runs, mingled)
  <2>1. runs \in Seq(A!Runs) /\ Kept(runs, mingled)
    BY <1>5 DEF RowFine
  <2>2. runs \o x.own = runs
    BY <1>3, <2>1
  <2> QED
    BY <1>3, <2>1, <2>2 DEF Fits
<1>7. OthersFine(record, runs, running, mingled, r, x)
  <2>1. \A p, q \in Reporters \ {r} :
          Looks(running[p]) /\ Looks(running[q]) /\ p # q => running[p].nr \in mingled
    BY <1>0 DEF Apart
  <2>2. \A q \in Reporters \ {r} : OwnFine(running[q]) /\ Fits(running[q], record, runs, mingled)
    BY <1>0, <1>5
  <2> QED
    BY <1>3, <2>1, <2>2 DEF OthersFine
<1>8. AllFine(record, runs, after, mingled)
  BY <1>0, <1>2, <1>3, <1>5, <1>6, <1>7, Replaced
<1> QED
  BY <1>0, <1>1, <1>8 DEF RuleInv

LEMMA CompleteFine ==
  ASSUME RuleInv, NEW i \in DOMAIN ran, A!Complete(i)
  PROVE  RuleInv'
<1>0. /\ time \in Nat /\ nr \in Nat /\ RowFine(rule, ran, mingled)
      /\ running \in [Reporters -> Holding] /\ Apart(running, mingled)
      /\ \A q \in Reporters : OwnFine(running[q]) /\ Fits(running[q], rule, ran, mingled)
      /\ rule \in A!Loaded \cup {A!Gone} /\ ran \in Seq(A!Runs)
  BY DEF RuleInv, AllFine, RowFine
<1>1. /\ time' = time /\ nr' = nr /\ mingled' = mingled /\ rule' = rule /\ running' = running
      /\ ran' = [ran EXCEPT ![i].status = "ended"]
  BY DEF A!Complete
<1> PICK v, w : v = ran /\ w = ran'
  OBVIOUS
<1> PICK e : e = [v[i] EXCEPT !.status = "ended"]
  OBVIOUS
<1>2. v \in Seq(A!Runs) /\ DOMAIN v = 1..Len(v) /\ Len(v) \in Nat /\ i \in DOMAIN v /\ v[i] \in A!Runs
  BY <1>0
<1>3. e \in A!Runs /\ e.at = v[i].at /\ e.report = v[i].report /\ e.cooldown = v[i].cooldown
      /\ e.limit = v[i].limit /\ e.status = "ended"
  BY <1>2 DEF A!Runs
<1>4. w = [v EXCEPT ![i] = e]
  BY <1>1
<1>5. /\ w \in Seq(A!Runs) /\ Len(w) = Len(v) /\ DOMAIN w = DOMAIN v /\ w[i] = e
      /\ \A j \in DOMAIN v : j # i => w[j] = v[j]
  BY ONLY <1>2, <1>3, <1>4
<1>6. \A j \in DOMAIN v :
        /\ w[j].at = v[j].at /\ w[j].report = v[j].report /\ w[j].cooldown = v[j].cooldown
        /\ w[j].limit = v[j].limit /\ (w[j].status = "queued" => v[j].status = "queued")
  <2> SUFFICES ASSUME NEW j \in DOMAIN v
               PROVE  /\ w[j].at = v[j].at /\ w[j].report = v[j].report
                      /\ w[j].cooldown = v[j].cooldown /\ w[j].limit = v[j].limit
                      /\ (w[j].status = "queued" => v[j].status = "queued")
    OBVIOUS
  <2>1. CASE j = i
    BY <1>3, <1>5, <2>1
  <2>2. CASE j # i
    BY <1>5, <2>2
  <2> QED
    BY <2>1, <2>2
<1>7. RowFine(rule, w, mingled)
  <2>1. Kept(v, mingled) /\ (rule # A!Gone => Knows(v, rule.last, mingled))
    BY <1>0 DEF RowFine
  <2>2. Kept(w, mingled) /\ (rule # A!Gone => Knows(w, rule.last, mingled))
    <3>1. Kept(v, mingled)
      BY <2>1
    <3>2. /\ Kept(w, mingled)
          /\ \A last : Knows(v, last, mingled) => Knows(w, last, mingled)
      BY ONLY <1>2, <1>5, <1>6, <3>1, KeptEnded
    <3> QED
      BY <2>1, <3>2
  <2>3. rule # A!Gone
    BY <1>0, <1>2 DEF RowFine
  <2> QED
    BY <1>0, <1>5, <2>2, <2>3 DEF RowFine
<1>8. ASSUME NEW q \in Reporters PROVE Fits(running[q], rule, w, mingled)
  <2> PICK u : u = running[q].own
    OBVIOUS
  <2> PICK vu, wu : vu = v \o u /\ wu = w \o u
    OBVIOUS
  <2>1. u \in Seq(A!Runs)
    BY <1>0, HoldingFields
  <2>2. /\ vu \in Seq(A!Runs) /\ wu \in Seq(A!Runs) /\ Len(wu) = Len(vu)
        /\ DOMAIN vu = 1..(Len(v) + Len(u)) /\ Len(u) \in Nat
        /\ \A j \in 1..Len(v) : vu[j] = v[j] /\ wu[j] = w[j]
        /\ \A k \in 1..Len(u) : vu[Len(v) + k] = u[k] /\ wu[Len(v) + k] = u[k]
    <3>1. /\ v \o u \in Seq(A!Runs) /\ Len(v \o u) = Len(v) + Len(u) /\ Len(u) \in Nat
          /\ DOMAIN (v \o u) = 1..(Len(v) + Len(u))
          /\ \A j \in 1..Len(v) : (v \o u)[j] = v[j]
          /\ \A k \in 1..Len(u) : (v \o u)[Len(v) + k] = u[k]
      BY ONLY <1>2, <2>1, JoinFacts
    <3>2. /\ w \o u \in Seq(A!Runs) /\ Len(w \o u) = Len(w) + Len(u)
          /\ \A j \in 1..Len(w) : (w \o u)[j] = w[j]
          /\ \A k \in 1..Len(u) : (w \o u)[Len(w) + k] = u[k]
      BY ONLY <1>5, <2>1, JoinFacts
    <3>3. Len(w) = Len(v) /\ vu = v \o u /\ wu = w \o u
      BY <1>5
    <3>4. /\ wu \in Seq(A!Runs) /\ Len(wu) = Len(v) + Len(u)
          /\ \A j \in 1..Len(v) : wu[j] = w[j]
          /\ \A k \in 1..Len(u) : wu[Len(v) + k] = u[k]
      BY ONLY <3>2, <3>3
    <3>5. /\ vu \in Seq(A!Runs) /\ Len(vu) = Len(v) + Len(u) /\ Len(u) \in Nat
          /\ DOMAIN vu = 1..(Len(v) + Len(u))
          /\ \A j \in 1..Len(v) : vu[j] = v[j]
          /\ \A k \in 1..Len(u) : vu[Len(v) + k] = u[k]
      BY ONLY <3>1, <3>3
    <3> QED
      BY ONLY <3>4, <3>5
  <2>3. ASSUME NEW j \in DOMAIN vu
        PROVE  /\ wu[j].at = vu[j].at /\ wu[j].report = vu[j].report
               /\ wu[j].cooldown = vu[j].cooldown /\ wu[j].limit = vu[j].limit
               /\ (wu[j].status = "queued" => vu[j].status = "queued")
    <3>1. CASE j \in DOMAIN v
      <4>1. vu[j] = v[j] /\ wu[j] = w[j]
        BY <1>2, <2>2, <3>1
      <4> QED
        BY ONLY <1>6, <3>1, <4>1
    <3>2. CASE j \notin DOMAIN v
      <4>0. /\ Len(v) \in Nat /\ Len(u) \in Nat /\ j \in 1..(Len(v) + Len(u))
            /\ j \notin 1..Len(v)
        BY <1>2, <2>2, <3>2
      <4>1. j - Len(v) \in 1..Len(u) /\ j = Len(v) + (j - Len(v))
        BY ONLY <4>0, Beyond
      <4>2. wu[j] = vu[j]
        BY <2>2, <4>1
      <4> QED
        BY <4>2
    <3> QED
      BY <3>1, <3>2
  <2>4. /\ Kept(vu, mingled) => Kept(wu, mingled)
        /\ \A last : Knows(vu, last, mingled) => Knows(wu, last, mingled)
    <3>1. ASSUME Kept(vu, mingled)
          PROVE  Kept(wu, mingled)
                 /\ \A last : Knows(vu, last, mingled) => Knows(wu, last, mingled)
      BY <2>2, <2>3, <3>1, KeptEnded
    <3>2. rule # A!Gone
      BY <1>0, <1>2 DEF RowFine
    <3>3. Kept(vu, mingled)
      BY <1>0, <3>2 DEF Fits
    <3> QED
      BY <3>1, <3>3
  <2> QED
    BY <1>0, <2>4 DEF Fits
<1>9. AllFine(rule, w, running, mingled)
  BY <1>0, <1>7, <1>8 DEF AllFine
<1> QED
  BY <1>0, <1>1, <1>9 DEF RuleInv

LEMMA EditFine ==
  ASSUME RuleInv, A!Update \/ A!Delete \/ A!Tick
  PROVE  RuleInv'
<1>0. /\ time \in Nat /\ nr \in Nat /\ RowFine(rule, ran, mingled)
      /\ running \in [Reporters -> Holding] /\ Apart(running, mingled)
      /\ \A q \in Reporters : OwnFine(running[q]) /\ Fits(running[q], rule, ran, mingled)
      /\ rule \in A!Loaded \cup {A!Gone} /\ ran \in Seq(A!Runs)
  BY DEF RuleInv, AllFine, RowFine
<1> PICK record, runs : record = rule' /\ runs = ran'
  OBVIOUS
<1>1. CASE A!Update
  <2>1. /\ rule # A!Gone /\ runs = ran /\ running' = running /\ mingled' = mingled
        /\ time' = time /\ nr' = nr
    BY <1>1 DEF A!Update
  <2>2. PICK new \in A!Rules : record = [new EXCEPT !.last = rule.last]
    BY <1>1 DEF A!Update
  <2>3. rule.last \in Nat \cup {-1}
    BY <1>0, <2>1 DEF A!Loaded
  <2>4. new \in A!Loaded
    BY DEF A!Rules, A!Loaded
  <2>5. record \in A!Loaded /\ record.last = rule.last
    BY <2>2, <2>3, <2>4 DEF A!Loaded
  <2>6. record # A!Gone
    BY <2>5, RowFacts
  <2>7. RowFine(record, ran, mingled)
    BY <1>0, <2>1, <2>5, <2>6 DEF RowFine
  <2>8. \A q \in Reporters : Fits(running[q], record, ran, mingled)
    BY <1>0, <2>1 DEF Fits
  <2>9. AllFine(record, runs, running, mingled)
    BY <1>0, <2>1, <2>7, <2>8 DEF AllFine
  <2> QED
    BY <1>0, <2>1, <2>9 DEF RuleInv
<1>2. CASE A!Delete
  <2>1. /\ record = A!Gone /\ runs = <<>> /\ running' = running /\ mingled' = mingled
        /\ time' = time /\ nr' = nr
    BY <1>2 DEF A!Delete
  <2>2. <<>> \in Seq(A!Runs) /\ Kept(<<>>, mingled)
    BY DEF Kept
  <2>3. RowFine(record, runs, mingled)
    BY <2>1, <2>2 DEF RowFine
  <2>4. \A q \in Reporters : Fits(running[q], record, runs, mingled)
    BY <2>1 DEF Fits
  <2>5. AllFine(record, runs, running, mingled)
    BY <1>0, <2>3, <2>4 DEF AllFine
  <2> QED
    BY <1>0, <2>1, <2>5 DEF RuleInv
<1>3. CASE A!Tick
  <2>1. /\ record = rule /\ runs = ran /\ running' = running /\ mingled' = mingled
        /\ time' = time + 1 /\ nr' = nr
    BY <1>3 DEF A!Tick
  <2>2. AllFine(record, runs, running, mingled)
    BY <2>1 DEF RuleInv
  <2> QED
    BY <1>0, <2>1, <2>2 DEF RuleInv
<1> QED
  BY <1>1, <1>2, <1>3

LEMMA RuleBase == A!AutomationInit => RuleInv
<1> SUFFICES ASSUME A!AutomationInit PROVE RuleInv
  OBVIOUS
<1>1. /\ time = 0 /\ nr = 0 /\ ran = <<>> /\ mingled = {} /\ rule \in A!Rules
      /\ running = [r \in Reporters |-> A!Idle]
  BY DEF A!AutomationInit
<1>2. rule \in A!Loaded
  BY <1>1 DEF A!Rules, A!Loaded
<1>3. <<>> \in Seq(A!Runs) /\ DOMAIN <<>> = {} /\ <<>> \o <<>> = <<>>
  OBVIOUS
<1>4. Kept(<<>>, {}) /\ \A last : Knows(<<>>, last, {})
  BY <1>3 DEF Kept, Knows
<1>5. A!Idle \in Holding /\ ~Looks(A!Idle) /\ A!Idle.own = <<>> /\ A!Idle.at = -1
  BY <1>3 DEF A!Idle, Holding, Looks
<1>6. OwnFine(A!Idle) /\ Fits(A!Idle, rule, ran, {})
  BY <1>1, <1>3, <1>4, <1>5 DEF OwnFine, Fits
<1>7. RowFine(rule, ran, {})
  BY <1>1, <1>2, <1>3, <1>4 DEF RowFine
<1>8. running \in [Reporters -> Holding] /\ \A r \in Reporters : running[r] = A!Idle
  BY <1>1, <1>5
<1>9. AllFine(rule, ran, running, {})
  BY <1>5, <1>6, <1>7, <1>8 DEF AllFine, Apart
<1> QED
  BY <1>1, <1>9 DEF RuleInv

LEMMA RuleStep == RuleInv /\ [A!AutomationNext]_(A!automationVars) => RuleInv'
<1> SUFFICES ASSUME RuleInv, [A!AutomationNext]_(A!automationVars) PROVE RuleInv'
  OBVIOUS
<1>1. CASE UNCHANGED A!automationVars
  BY <1>1 DEF A!automationVars, RuleInv
<1>2. CASE A!AutomationNext
  BY <1>2, EmitFine, StartFine, SkipFine, CommitFine, CompleteFine, EditFine
  DEF A!AutomationNext
<1> QED
  BY <1>1, <1>2

LEMMA AutomationBase == A!AutomationInit => A!AutomationInv
BY RuleBase, RuleMeans

LEMMA AutomationStep == A!AutomationInv /\ [A!AutomationNext]_(A!automationVars) => A!AutomationInv'
<1>1. A!AutomationInv' <=> RuleInv'
  BY RuleMeans, PTL
<1> QED
  BY <1>1, RuleMeans, RuleStep

-----------------------------------------------------------------------------
(* The parts together: what is at work does not change, and the rest rests. *)

\* A key is one command, however requests, clean-up and restarts overtake each other,
\* and a file in its place is a whole dump, whatever is killed (command_store.py,
\* database_backups.py).
THEOREM RecordsAreOne == RecordSpec => []RecordIsOne
<1> DEFINE Inv == (part = "creation" => K!RequestInv) /\ (part = "backups" => B!BackupInv)
<1>1. RecordInit => Inv
  BY RequestBase, BackupBase DEF RecordInit
<1>2. Inv /\ [RecordNext]_<<part, earlier, later>> => Inv'
  <2> SUFFICES ASSUME Inv, [RecordNext]_<<part, earlier, later>> PROVE Inv'
    OBVIOUS
  <2>1. part' = part
    BY DEF RecordNext
  <2>2. part = "creation" => [K!RequestNext]_creation
    BY DEF RecordNext, earlier
  <2>3. part = "backups" => [B!BackupNext]_backups
    BY DEF RecordNext, later
  <2> QED
    BY <2>1, <2>2, <2>3, RequestStep, BackupStep
<1>3. Inv => RecordIsOne
  BY RequestProperty, BackupProperty DEF RecordIsOne
<1> QED
  BY <1>1, <1>2, <1>3, PTL DEF RecordSpec

\* A code opens one session, and only the newest code one, however creation, exchange
\* and revocation overtake each other (api/mobile_pairing.py, services/mobile_pairing.py).
THEOREM CodesOpenOnce == RecordSpec => []CodesAreOneTime
<1> DEFINE Inv == part = "codes" => S!CodesOK
<1>1. RecordInit => Inv
  BY CodesBase DEF RecordInit
<1>2. Inv /\ [RecordNext]_<<part, earlier, later>> => Inv'
  <2> SUFFICES ASSUME Inv, [RecordNext]_<<part, earlier, later>> PROVE Inv'
    OBVIOUS
  <2>1. part' = part
    BY DEF RecordNext
  <2>2. part = "codes" => [S!SessionNext]_phone
    BY DEF RecordNext, earlier
  <2> QED
    BY <2>1, <2>2, CodesStep
<1>3. Inv => CodesAreOneTime
  BY CodesProperty DEF CodesAreOneTime
<1> QED
  BY <1>1, <1>2, <1>3, PTL DEF RecordSpec

\* Renewals under way at the same time do not end a session: the app keeps the token in
\* force, or one request is about to store it (SessionRefreshCoordinator.kt).
THEOREM RenewalsAgree == RecordSpec => []StaysIn
<1> DEFINE Inv == part = "renewals" => R!RenewalInv
<1>1. RecordInit => Inv
  BY RenewalBase DEF RecordInit
<1>2. Inv /\ [RecordNext]_<<part, earlier, later>> => Inv'
  <2> SUFFICES ASSUME Inv, [RecordNext]_<<part, earlier, later>> PROVE Inv'
    OBVIOUS
  <2>1. part' = part
    BY DEF RecordNext
  <2>2. part = "renewals" => [R!SessionNext]_phone
    BY DEF RecordNext, earlier
  <2> QED
    BY <2>1, <2>2, RenewalStep
<1>3. Inv => StaysIn
  BY DEF StaysIn, R!RenewalInv
<1> QED
  BY <1>1, <1>2, <1>3, PTL DEF RecordSpec

\* A router that is shown as offline has an incident that says so, and one that is
\* online has none left unless it was brought back past the incident, however reports,
\* housekeeping and acknowledgements overtake each other (operations.py, events.py).
THEOREM OutagesAreTold == RecordSpec => []OutageTold
<1> DEFINE Inv == part = "events" => I!IncidentInv
<1>1. RecordInit => Inv
  BY IncidentBase DEF RecordInit
<1>2. Inv /\ [RecordNext]_<<part, earlier, later>> => Inv'
  <2> SUFFICES ASSUME Inv, [RecordNext]_<<part, earlier, later>>, part' = "events"
               PROVE  I!IncidentInv'
    OBVIOUS
  <2>1. part = "events" /\ [I!IncidentNext]_(I!incidentVars)
    BY DEF RecordNext, earlier, events, I!incidentVars
  <2> QED
    BY <2>1, IncidentStep
<1>3. Inv => OutageTold
  BY DEF OutageTold, I!OutageTold, I!IncidentInv
<1> QED
  BY <1>1, <1>2, <1>3, PTL DEF RecordSpec

\* There is an unresolved alert exactly when the last report had one, and no copy of
\* it; alerts, items, incidents and states of a router agree (events.py, telemetry.py,
\* health_monitoring.py).
THEOREM AlertsAreTold == RecordSpec => []AlertTold
<1> DEFINE Inv == /\ part = "events" => I!IncidentInv
                  /\ part = "health" => H!HealthInv
<1>1. RecordInit => Inv
  BY IncidentBase, HealthBase DEF RecordInit
<1>2. Inv /\ [RecordNext]_<<part, earlier, later>> => Inv'
  <2> SUFFICES ASSUME Inv, [RecordNext]_<<part, earlier, later>> PROVE Inv'
    OBVIOUS
  <2>1. part' = part
    BY DEF RecordNext
  <2>2. part = "events" => [I!IncidentNext]_(I!incidentVars)
    BY DEF RecordNext, earlier, events, I!incidentVars
  <2>3. part = "health" => [H!HealthNext]_(H!healthVars)
    BY DEF RecordNext, later, health, H!healthVars
  <2> QED
    BY <2>1, <2>2, <2>3, IncidentStep, HealthStep
<1>3. Inv => AlertTold
  <2>1. H!HealthInv => H!HealthIsTold
    BY HealthFollows
  <2>2. I!IncidentInv => I!AlertTold
    BY OneRepetition DEF I!IncidentInv, I!AlertTold, I!NoCopies
  <2> QED
    BY <2>1, <2>2 DEF AlertTold
<1> QED
  BY <1>1, <1>2, <1>3, PTL DEF RecordSpec

\* What the server starts by itself keeps to its limits: only reports under way at the
\* same time break the cooldown or the hourly limit of an automation rule, and an update
\* is asked for once an hour, of an older agent, and makes none older except the legacy
\* version (events.py, agent_updates.py, agent_versions.py).
THEOREM LimitsAreKept == RecordSpec => []LimitsKept
<1> DEFINE Inv == /\ part = "automation" => A!AutomationInv
                  /\ part = "updates" => U!OfferInv
<1>1. RecordInit => Inv
  BY AutomationBase, OfferBase DEF RecordInit
<1>2. Inv /\ [RecordNext]_<<part, earlier, later>> => Inv'
  <2> SUFFICES ASSUME Inv, [RecordNext]_<<part, earlier, later>> PROVE Inv'
    OBVIOUS
  <2>1. part' = part
    BY DEF RecordNext
  <2>2. part = "automation" => [A!AutomationNext]_(A!automationVars)
    BY DEF RecordNext, earlier, automation, A!automationVars
  <2>3. part = "updates" => [U!OfferNext]_(U!offerVars)
    BY DEF RecordNext, later, updates, U!offerVars
  <2> QED
    BY <2>1, <2>2, <2>3, AutomationStep, OfferStep
<1>3. Inv => LimitsKept
  BY DEF LimitsKept, A!AutomationInv, U!OfferInv
<1> QED
  BY <1>1, <1>2, <1>3, PTL DEF RecordSpec

-----------------------------------------------------------------------------
(* The device token (TokenRotation): a replaced token stays replaced, and an *)
(* agent that missed one answer is still accepted during the grace period.   *)

USE RotationAssumption DEF Tokens

LEMMA InitInv == Init => RotationInv
BY DEF Init, RotationInv, TypeOK, RowOK, RequestsOK, LossOK, Tokens, Requests,
   NoRequest

-----------------------------------------------------------------------------
(* What the server does with one request. *)

\* A granted request replaces the token by a new one and keeps it, ends the
\* grace period of the current token, or goes back to the one it kept.
LEMMA GrantedFacts ==
  ASSUME TypeOK, RowOK, NEW r \in Requests, Granted(r)
  PROVE  /\ issued' \in Tokens
         /\ token' \in 1..issued' /\ previous' \in 0..issued' /\ nonce' \in 0..issued'
         /\ until' \in Nat
         /\ RowOK'
         /\ \/ /\ r.op = "rotate"
               /\ issued' = issued + 1 /\ token' = issued' /\ previous' = token
            \/ /\ r.op = "confirm"
               /\ issued' = issued /\ token' = token /\ r.auth = token
            \/ /\ r.op = "rollback"
               /\ issued' = issued /\ token' = previous /\ previous = r.auth
               /\ r.nonce = nonce
         /\ \A t \in 1..issued : t = token' \/ t = previous' => Accepted(t)
<1>1. CASE r.op = "rotate" /\ RotateToken(r.auth)
  BY <1>1 DEF RotateToken, TypeOK, RowOK, Tokens, Accepted
<1>2. CASE r.op = "confirm" /\ ConfirmToken(r.auth)
  BY <1>2 DEF ConfirmToken, Clear, TypeOK, RowOK, Accepted
<1>3. CASE r.op = "rollback" /\ RollbackToken(r.auth, r.nonce)
  BY <1>3 DEF RollbackToken, Clear, TypeOK, RowOK, Accepted
<1> QED
  BY <1>1, <1>2, <1>3 DEF Granted

LEMMA AskedTyped == TypeOK /\ Asking => Asked \in Requests
BY DEF TypeOK, Asking, Asked, Requests, Tokens

-----------------------------------------------------------------------------
(* The inductive invariant. *)

LEMMA StepInv == RotationInv /\ [Next]_vars => RotationInv'
<1> SUFFICES ASSUME RotationInv, [Next]_vars PROVE RotationInv'
  OBVIOUS
<1> USE DEF RotationInv
<1>1. CASE RotateCommand
  BY <1>1 DEF RotateCommand, row, TypeOK, RowOK, RequestsOK, LossOK
<1>2. CASE Answered
  <2>1. Asked \in Requests /\ Granted(Asked) /\ Asked.op = pc
    BY <1>2, AskedTyped DEF Answered, Asked
  <2>2. late' = late /\ stored' = stored /\ clock' = clock
    BY <1>2 DEF Answered
  <2>3. CASE pc = "rotate"
    <3>1. /\ issued' = issued + 1 /\ token' = issued' /\ previous' = token
          /\ fresh' = issued' /\ pc' = "save"
      BY <1>2, <2>1, <2>3, GrantedFacts DEF Answered
    <3>2. lost' = lost + 1
      BY <1>2, <2>2, <3>1 DEF Answered, Counted, TypeOK
    <3>3. TypeOK' /\ RowOK'
      BY <2>1, <2>2, <3>1, <3>2, GrantedFacts DEF TypeOK
    <3>4. RequestsOK'
      BY <2>2, <3>1 DEF RequestsOK, TypeOK, Requests
    <3>5. LossOK'
      BY <2>2, <3>1, <3>2 DEF LossOK, TypeOK
    <3> QED
      BY <3>3, <3>4, <3>5
  <2>4. CASE pc = "confirm"
    <3>1. issued' = issued /\ token' = stored /\ fresh' = 0 /\ pc' = "idle"
      BY <1>2, <2>1, <2>4, GrantedFacts DEF Answered, Asked
    <3>2. lost' = 0
      BY <1>2, <2>2, <3>1 DEF Answered, Counted
    <3>3. TypeOK' /\ RowOK'
      BY <2>1, <2>2, <3>1, <3>2, GrantedFacts DEF TypeOK
    <3>4. RequestsOK' /\ LossOK'
      BY <2>2, <3>1, <3>2 DEF RequestsOK, LossOK
    <3> QED
      BY <3>3, <3>4
  <2>5. CASE pc = "rollback"
    <3>1. issued' = issued /\ token' = stored /\ fresh' = 0 /\ pc' = "restored"
      BY <1>2, <2>1, <2>5, GrantedFacts DEF Answered, Asked
    <3>2. lost' = 0
      BY <1>2, <2>2, <3>1 DEF Answered, Counted
    <3>3. TypeOK' /\ RowOK'
      BY <2>1, <2>2, <3>1, <3>2, GrantedFacts DEF TypeOK
    <3>4. RequestsOK' /\ LossOK'
      BY <2>2, <3>1, <3>2 DEF RequestsOK, LossOK
    <3> QED
      BY <3>3, <3>4
  <2> QED
    BY <1>2, <2>3, <2>4, <2>5 DEF Answered, Asking
<1>3. CASE NotGranted
  <2>1. row' = row /\ late' = late /\ UNCHANGED <<clock, stored, lost>>
    BY <1>3 DEF NotGranted, Refused
  <2>2. fresh' = 0 /\ pc' \in {"idle", "restored"}
    BY <1>3 DEF NotGranted, Refused
  <2> QED
    BY <2>1, <2>2 DEF row, TypeOK, RowOK, RequestsOK, LossOK
<1>4. CASE Abandon
  <2>1. UNCHANGED <<token, previous, until, nonce, issued, clock, stored, lost>>
    BY <1>4 DEF Abandon, row
  <2>2. fresh' = 0 /\ pc' = "idle" /\ Asking
    BY <1>4 DEF Abandon
  <2>3. PICK l \in Lates : late' = [late EXCEPT ![l] = Asked]
    BY <1>4 DEF Abandon
  <2>4. TypeOK' /\ RowOK' /\ LossOK'
    BY <2>1, <2>2, <2>3, AskedTyped DEF TypeOK, RowOK, LossOK
  <2>5. /\ Asked.op = "confirm" => Asked.auth = stored
        /\ Asked.op = "rollback" => Asked.nonce = fresh /\ fresh > stored
        /\ Asked.nonce <= issued
    BY <2>2 DEF Asked, Asking, RequestsOK, TypeOK
  <2>6. RequestsOK'
    BY <2>1, <2>2, <2>3, <2>5 DEF RequestsOK, TypeOK
  <2> QED
    BY <2>4, <2>6
<1>5. ASSUME NEW l \in Lates, ServedLate(l) PROVE RotationInv'
  <2>1. UNCHANGED <<clock, stored, fresh, pc>> /\ late[l] \in Requests
    BY <1>5 DEF ServedLate, agent, TypeOK
  <2>2. late' = [late EXCEPT ![l] = NoRequest] /\ NoRequest \in Requests
    BY <1>5 DEF ServedLate, Requests, NoRequest
  <2>3. Counted
    BY <1>5 DEF ServedLate
  <2>4. CASE Refused(late[l])
    <3>1. UNCHANGED row /\ lost' = lost
      BY <2>1, <2>3, <2>4 DEF Refused, row, Counted, TypeOK, LossOK
    <3> QED
      BY <2>1, <2>2, <3>1
      DEF row, TypeOK, RowOK, RequestsOK, LossOK, NoRequest
  <2>5. CASE Granted(late[l])
    <3>1. TypeOK' /\ RowOK'
      <4>1. lost' \in Nat
        BY <2>3 DEF Counted, TypeOK
      <4>2. issued' >= issued
        BY <2>1, <2>5, GrantedFacts DEF TypeOK
      <4> QED
        BY <2>1, <2>2, <2>5, <4>1, <4>2, GrantedFacts DEF TypeOK
    <3>2. RequestsOK'
      <4>1. issued' >= issued
        BY <2>1, <2>5, GrantedFacts DEF TypeOK
      <4>2. issued' \in Nat
        BY <3>1 DEF TypeOK
      <4>3. ASSUME NEW m \in Lates
            PROVE  late'[m] = IF m = l THEN NoRequest ELSE late[m]
        BY <2>2 DEF TypeOK
      <4>4. \A m \in Lates : late[m].nonce \in Nat
        BY DEF TypeOK, Requests
      <4> QED
        BY <2>1, <4>1, <4>2, <4>3, <4>4 DEF RequestsOK, NoRequest, TypeOK
    <3>3. LossOK'
      <4>1. CASE late[l].op = "rotate"
        <5>1. issued' = issued + 1 /\ token' = issued' /\ previous' = token
          BY <2>1, <2>5, <4>1, GrantedFacts
        <5>2. lost' = lost + 1
          BY <2>1, <2>3, <5>1 DEF Counted, TypeOK
        <5> QED
          BY <2>1, <5>1, <5>2 DEF LossOK, TypeOK
      <4>2. CASE late[l].op = "confirm"
        <5>1. issued' = issued /\ token' = token /\ token <= stored
          BY <2>1, <2>5, <4>2, GrantedFacts DEF RequestsOK
        <5>2. lost' = lost
          BY <2>1, <2>3, <5>1 DEF Counted, LossOK, TypeOK
        <5>3. lost # 1
          BY <5>1 DEF LossOK, RowOK, TypeOK
        <5> QED
          BY <2>1, <5>1, <5>2, <5>3 DEF LossOK
      <4>3. CASE late[l].op = "rollback"
        <5>1. issued' = issued /\ token' = previous /\ late[l].nonce = nonce
          BY <2>1, <2>5, <4>3, GrantedFacts
        <5>2. nonce # 0 /\ nonce = token /\ nonce = issued /\ nonce # stored
          BY <4>3, <5>1 DEF RequestsOK, RowOK
        <5>3. pc \notin {"save", "rollback"}
          BY <4>3, <5>1, <5>2 DEF RequestsOK, TypeOK
        <5>4. lost # 0
          BY <5>2 DEF LossOK
        <5>5. lost' = IF stored = previous THEN 0 ELSE lost
          BY <2>1, <2>3, <5>1 DEF Counted, TypeOK
        <5> QED
          BY <2>1, <5>1, <5>3, <5>4, <5>5 DEF LossOK
      <4> QED
        BY <2>5, <4>1, <4>2, <4>3 DEF Granted
    <3> QED
      BY <3>1, <3>2, <3>3
  <2> QED
    BY <1>5, <2>4, <2>5 DEF ServedLate
<1>6. CASE Save
  <2>1. UNCHANGED <<token, previous, until, nonce, issued, clock, late>>
    BY <1>6 DEF Save, row
  <2>2. /\ pc = "save" /\ stored' = fresh /\ fresh' = 0 /\ pc' = "confirm"
        /\ fresh > stored
    BY <1>6 DEF Save, RequestsOK
  <2>3. lost' = IF fresh = token THEN 0 ELSE lost
    BY <1>6, <2>1, <2>2 DEF Save, Counted, TypeOK
  <2>4. TypeOK' /\ RowOK'
    BY <2>1, <2>2, <2>3 DEF TypeOK, RowOK
  <2>5. RequestsOK'
    BY <2>1, <2>2 DEF RequestsOK, TypeOK, Requests
  <2>6. LossOK'
    BY <2>1, <2>2, <2>3 DEF LossOK, TypeOK
  <2> QED
    BY <2>4, <2>5, <2>6
<1>7. CASE SaveFails
  BY <1>7 DEF SaveFails, row, TypeOK, RowOK, RequestsOK, LossOK
<1>8. CASE Reported
  BY <1>8 DEF Reported, row, TypeOK, RowOK, RequestsOK, LossOK
<1>9. CASE Crash
  BY <1>9 DEF Crash, row, TypeOK, RowOK, RequestsOK, LossOK
<1>10. CASE Tick
  BY <1>10 DEF Tick, row, agent, TypeOK, RowOK, RequestsOK, LossOK
<1>11. CASE UNCHANGED vars
  BY <1>11 DEF vars, row, agent, TypeOK, RowOK, RequestsOK, LossOK
<1> QED
  BY <1>1, <1>2, <1>3, <1>4, <1>5, <1>6, <1>7, <1>8, <1>9, <1>10, <1>11 DEF Next

-----------------------------------------------------------------------------
(* Theorems. *)

\* The inductive invariant, and with it type correctness, in every state.
THEOREM InductiveInvariant == Spec => []RotationInv
BY InitInv, StepInv, PTL DEF Spec

\* The device row, the agent and the requests under way are well typed.
THEOREM TypeCorrect == Spec => []TypeOK
<1>1. RotationInv => TypeOK
  BY DEF RotationInv
<1> QED
  BY InductiveInvariant, <1>1, PTL

\* An agent that missed the answer of one rotation is accepted with the token
\* it has stored, as long as the grace period lasts.
THEOREM OneLoss == Spec => []OneLossSurvived
<1>1. RotationInv => OneLossSurvived
  BY DEF RotationInv, LossOK, OneLossSurvived, Accepted, TypeOK
<1> QED
  BY InductiveInvariant, <1>1, PTL

\* No request, however late, makes the server accept a token again that it had
\* stopped accepting.
THEOREM Revoked == Spec => RevokedForGood
<1>1. RotationInv /\ [Next]_vars =>
        [\A t \in 1..issued : ~Accepted(t) => ~Accepted(t)']_vars
  <2> SUFFICES ASSUME RotationInv, [Next]_vars, NEW t \in 1..issued,
                      ~Accepted(t), Accepted(t)'
               PROVE  FALSE
    OBVIOUS
  <2>1. TypeOK /\ RowOK
    BY DEF RotationInv
  <2>2. ASSUME NEW r \in Requests, Granted(r) PROVE FALSE
    BY <2>1, <2>2, GrantedFacts DEF Accepted
  <2>3. ~ UNCHANGED row
    <3>1. clock' >= clock
      BY <2>1, <2>2, AskedTyped
      DEF Next, RotateCommand, Answered, NotGranted, Abandon, ServedLate, Save,
          SaveFails, Reported, Crash, Tick, vars, TypeOK
    <3>2. ASSUME UNCHANGED row PROVE Accepted(t)
      <4>1. clock' \in Nat
        BY StepInv DEF RotationInv, TypeOK
      <4> QED
        BY <2>1, <3>1, <3>2, <4>1 DEF row, Accepted, TypeOK
    <3> QED
      BY <3>2
  <2>4. \E r \in Requests : Granted(r)
    BY <2>1, <2>3, AskedTyped
    DEF Next, RotateCommand, Answered, NotGranted, Abandon, ServedLate, Refused,
        Save, SaveFails, Reported, Crash, Tick, vars, TypeOK
  <2> QED
    BY <2>2, <2>4
<1> QED
  BY InductiveInvariant, <1>1, PTL DEF Spec, RevokedForGood

=============================================================================
