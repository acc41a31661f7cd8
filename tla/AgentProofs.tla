----------------------------- MODULE AgentProofs ----------------------------
(***************************************************************************)
(* Why the properties of MCAgent hold, for every value of its constants:   *)
(* the policies of clients and the certification of a router, by their own *)
(* inductive invariants; batches and interrupted upgrades, by those of     *)
(* CommandLifecycleProofs and AgentUpdateProofs.                           *)
(***************************************************************************)
EXTENDS MCAgent, AgentUpdateProofs, Sequences, FiniteSetTheorems
-----------------------------------------------------------------------------
(* The policies of clients (ClientPolicies, as C). *)

LEMMA JobTypes ==
  \A x \in C!Jobs :
    /\ x.policy \in C!Wishes /\ x.tries \in Nat /\ x.late \in BOOLEAN
    /\ x.ran \in {"no", "done", "failed"}
    /\ x.status \in {"unborn", "queued", "sent", "running", "success", "failed"}
BY DEF C!Jobs

LEMMA JobIndices ==
  ASSUME C!PolicyTypeOK
  PROVE  /\ DOMAIN jobs = 1..Len(jobs) /\ Len(jobs) \in Nat
         /\ DOMAIN inbox = 1..Len(inbox) /\ Len(inbox) \in Nat
         /\ \A i \in DOMAIN jobs : i \in Nat /\ jobs[i] \in C!Jobs
         /\ \A k \in DOMAIN inbox : k \in Nat /\ inbox[k] \in Nat
BY DEF C!PolicyTypeOK

\* What an open request looks like, field by field.
OpenDrafts ==
  [open : {TRUE}, member : {"kept", "joins", "leaves"}, own : Owned \cup {"kept", "none"},
   profile : Policies \cup {"kept", "same", "gone"}, row : BOOLEAN,
   asks : C!Wishes \cup {"nothing"}, at : Nat, fresh : BOOLEAN]
SameRequest(d, e) ==
  /\ d.open /\ e.open /\ d.member = e.member /\ d.own = e.own /\ d.profile = e.profile
  /\ d.row = e.row /\ d.asks = e.asks

LEMMA DraftTypes ==
  /\ C!NoDraft \in C!Drafts /\ ~C!NoDraft.open
  /\ \A d \in C!Drafts : d.open => d \in OpenDrafts
  /\ OpenDrafts \subseteq C!Drafts
  /\ \A d \in OpenDrafts :
       /\ d.open /\ d.member \in {"kept", "joins", "leaves"} /\ d.own \in Owned \cup {"kept", "none"}
       /\ d.profile \in Policies \cup {"kept", "same", "gone"}
       /\ d.asks \in C!Wishes \cup {"nothing"} /\ d.at \in Nat
<1>1. C!Drafts = {C!NoDraft} \cup OpenDrafts
  BY DEF C!Drafts, OpenDrafts
<1>2. ~C!NoDraft.open
  BY DEF C!NoDraft
<1>3. \A d \in OpenDrafts :
       /\ d.open /\ d.member \in {"kept", "joins", "leaves"} /\ d.own \in Owned \cup {"kept", "none"}
       /\ d.profile \in Policies \cup {"kept", "same", "gone"}
       /\ d.asks \in C!Wishes \cup {"nothing"} /\ d.at \in Nat
  BY DEF OpenDrafts
<1> QED
  BY <1>1, <1>2, <1>3

LEMMA DraftStamped ==
  ASSUME NEW d \in OpenDrafts, NEW n \in Nat
  PROVE  /\ [d EXCEPT !.at = n] \in OpenDrafts /\ SameRequest([d EXCEPT !.at = n], d)
         /\ [d EXCEPT !.at = n].at = n /\ [d EXCEPT !.at = n].fresh = d.fresh
BY DEF OpenDrafts, SameRequest

LEMMA DraftOvertaken ==
  ASSUME NEW d \in OpenDrafts
  PROVE  /\ [d EXCEPT !.fresh = FALSE] \in OpenDrafts /\ SameRequest([d EXCEPT !.fresh = FALSE], d)
         /\ [d EXCEPT !.fresh = FALSE].at = d.at /\ ~[d EXCEPT !.fresh = FALSE].fresh
BY DEF OpenDrafts, SameRequest

LEMMA OvertakenFacts ==
  ASSUME NEW open \in [Requesters -> C!Drafts]
  PROVE  /\ C!Overtaken(open) \in [Requesters -> C!Drafts]
         /\ \A r \in Requesters :
              LET d == C!Overtaken(open)[r] IN
              d.open => /\ open[r].open /\ d.at = open[r].at /\ d.asks = open[r].asks
                        /\ ~d.fresh
<1> SUFFICES ASSUME NEW r \in Requesters
             PROVE  LET d == C!Overtaken(open)[r] IN
                    /\ d \in C!Drafts
                    /\ d.open => /\ open[r].open /\ d.at = open[r].at /\ d.asks = open[r].asks
                                 /\ ~d.fresh
  BY DEF C!Overtaken
<1>1. CASE open[r].open
  <2>1. open[r] \in OpenDrafts /\ C!Overtaken(open)[r] = [open[r] EXCEPT !.fresh = FALSE]
    BY <1>1, DraftTypes DEF C!Overtaken
  <2> QED
    BY <2>1, DraftTypes, DraftOvertaken DEF SameRequest
<1>2. CASE ~open[r].open
  BY <1>2 DEF C!Overtaken
<1> QED
  BY <1>1, <1>2

LEMMA EffectiveType ==
  ASSUME NEW m, NEW o \in Owned \cup {"none"}, NEW p \in Policies \cup {"gone"}
  PROVE  C!Effective(m, o, p) \in C!Wishes /\ C!Effective(m, o, p) # "nothing"
BY AgentAssumption DEF C!Effective, C!Wishes

\* What a commit leaves has the types of what it found.
LEMMA AfterTypes ==
  ASSUME C!PolicyTypeOK, NEW d \in OpenDrafts
  PROVE  /\ C!ProfileAfter(d) \in Policies \cup {"gone"} /\ C!MemberAfter(d) \in BOOLEAN
         /\ C!OwnAfter(d) \in Owned \cup {"none"}
BY DraftTypes DEF C!PolicyTypeOK, C!ProfileAfter, C!MemberAfter, C!OwnAfter

\* C!Speaks, of values: the target, the member, its policy and the profile's.
Shared(d, p) == IF d.profile \in {"kept", "same"} THEN p ELSE d.profile
After(d, m, o, p) ==
  C!Effective(IF d.member = "kept" THEN m /\ Shared(d, p) # "gone" ELSE d.member = "joins",
              IF d.own = "kept" THEN o ELSE d.own, Shared(d, p))
Says(d, w, m, o, p) ==
  IF d.asks = "nothing"
    THEN w = "client" /\ d.member = "kept" /\ d.own = "kept" =>
           After(d, m, o, p) = C!Effective(m, o, p)
    ELSE /\ w = "client" => d.asks = After(d, m, o, p)
         /\ w = "wifi" => d.asks \in {"off", Shared(d, p)}

LEMMA FreshIs ==
  /\ C!FreshOK <=>
       /\ \A r \in Requesters : drafts[r].open /\ drafts[r].fresh =>
            /\ Says(drafts[r], watched, member, own, profile)
            /\ drafts[r].at # 0 => \A j \in C!Known : j < drafts[r].at
       /\ C!Known = {} \/ \E i \in C!Known : C!Last(i)
  /\ C!FreshOK' <=>
       /\ \A r \in Requesters : drafts'[r].open /\ drafts'[r].fresh =>
            /\ Says(drafts'[r], watched', member', own', profile')
            /\ drafts'[r].at # 0 => \A j \in C!Known' : j < drafts'[r].at
       /\ C!Known' = {} \/ \E i \in C!Known' : C!Last(i)'
BY DEF C!FreshOK, C!Speaks, Says, After, Shared, C!Effective, C!ProfileAfter, C!MemberAfter, C!OwnAfter

LEMMA SaysAlike ==
  ASSUME NEW d, NEW e, SameRequest(d, e), NEW w, NEW m, NEW o, NEW p
  PROVE  Says(d, w, m, o, p) <=> Says(e, w, m, o, p)
BY DEF SameRequest, Says, After, Shared

LEMMA PolicyBase == C!PolicyInit => C!PolicyInv
<1> SUFFICES ASSUME C!PolicyInit PROVE C!PolicyInv
  OBVIOUS
<1>1. jobs = <<>> /\ inbox = <<>> /\ DOMAIN jobs = {} /\ DOMAIN inbox = {} /\ C!Known = {}
  BY DEF C!PolicyInit, C!Known
<1>2. C!PolicyTypeOK
  <2>1. profile \in Policies
    BY AgentAssumption DEF C!PolicyInit
  <2>2. jobs \in Seq(C!Jobs) /\ inbox \in Seq(Nat)
    BY <1>1
  <2>3. router \in C!Wishes
    BY DEF C!PolicyInit, C!Wishes
  <2>4. watched \in C!Targets /\ member = FALSE /\ own = "none" /\ told = FALSE /\ loose = FALSE
        /\ drafts \in [Requesters -> C!Drafts]
    BY DraftTypes DEF C!PolicyInit
  <2> QED
    BY <2>1, <2>2, <2>3, <2>4 DEF C!PolicyTypeOK
<1>3. C!StampsOK /\ C!FreshOK
  BY <1>1, DraftTypes DEF C!PolicyInit, C!StampsOK, C!FreshOK
<1>4. C!Asked
  BY <1>1 DEF C!PolicyInit, C!Asked, C!Effective
<1> QED
  BY <1>1, <1>2, <1>3, <1>4 DEF C!PolicyInv, C!DeliveredInOrder, C!InboxOK, C!InForce

-----------------------------------------------------------------------------
(* Requests that leave the commands alone. *)

Rests == jobs' = jobs /\ inbox' = inbox /\ router' = router /\ watched' = watched

\* Nothing is said of the requests but what was said of them before.
Retains ==
  /\ drafts' \in [Requesters -> C!Drafts]
  /\ \A r \in Requesters : drafts'[r].open /\ drafts'[r].at # 0 =>
       drafts[r].open /\ drafts'[r].at = drafts[r].at /\ drafts'[r].asks = drafts[r].asks

LEMMA RestsKeeps ==
  ASSUME C!PolicyInv, Rests, Retains
  PROVE  /\ C!Known' = C!Known /\ \A i : C!Last(i)' <=> C!Last(i)
         /\ C!StampsOK' /\ C!DeliveredInOrder' /\ C!InboxOK' /\ C!InForce'
<1>1. C!Known' = C!Known
  BY DEF Rests, C!Known
<1>2. \A i : C!Last(i)' <=> C!Last(i)
  BY <1>1 DEF C!Last
<1>3. C!StampsOK'
  BY DEF Rests, Retains, C!PolicyInv, C!StampsOK
<1>4. C!DeliveredInOrder' /\ C!InboxOK'
  BY DEF Rests, C!PolicyInv, C!DeliveredInOrder, C!InboxOK, C!Prompt
<1>5. C!InForce'
  BY <1>1, <1>2 DEF Rests, C!PolicyInv, C!InForce
<1> QED
  BY <1>1, <1>2, <1>3, <1>4, <1>5

Wish == <<profile, member, own, told, loose>>

\* Neither the wish nor what the newest command says of it changes.
LEMMA SameWish ==
  ASSUME C!PolicyInv, C!Known' = C!Known, UNCHANGED <<watched, profile, member, own, loose>>,
         \A i \in C!Known : jobs'[i].policy = jobs[i].policy
  PROVE  /\ \A i : C!Last(i)' <=> C!Last(i)
         /\ C!Asked'
<1>1. \A i : C!Last(i)' <=> C!Last(i)
  BY DEF C!Last
<1>2. C!Asked'
  BY <1>1 DEF C!PolicyInv, C!Asked, C!Effective
<1> QED
  BY <1>1, <1>2

LEMMA BeginKeeps ==
  ASSUME C!PolicyInv, NEW r \in Requesters, NEW d \in OpenDrafts, d.at = 0,
         Says(d, watched, member, own, profile), C!Begin(r, d)
  PROVE  C!PolicyInv'
<1>1. Rests /\ UNCHANGED Wish /\ drafts' = [drafts EXCEPT ![r] = d]
      /\ drafts \in [Requesters -> C!Drafts]
  BY DEF C!Begin, Rests, Wish, C!PolicyInv, C!PolicyTypeOK
<1>2. /\ drafts' \in [Requesters -> C!Drafts] /\ drafts'[r] = d
      /\ \A q \in Requesters : q # r => drafts'[q] = drafts[q]
  BY <1>1, DraftTypes
<1>3. Retains
  BY <1>2 DEF Retains
<1>4. /\ C!Known' = C!Known /\ C!StampsOK' /\ C!DeliveredInOrder' /\ C!InboxOK' /\ C!InForce'
      /\ \A i : C!Last(i)' <=> C!Last(i)
  BY <1>1, <1>3, RestsKeeps
<1>5. C!Asked'
  BY <1>1, <1>4, SameWish DEF Rests, Wish
<1>6. C!FreshOK'
  <2>1. ASSUME NEW q \in Requesters, drafts'[q].open, drafts'[q].fresh
        PROVE  /\ Says(drafts'[q], watched, member, own, profile)
               /\ drafts'[q].at # 0 => \A j \in C!Known : j < drafts'[q].at
    <3>1. CASE q = r
      BY <1>2, <3>1
    <3>2. CASE q # r
      BY <1>2, <2>1, <3>2, FreshIs DEF C!PolicyInv
    <3> QED
      BY <3>1, <3>2
  <2> QED
    BY <1>1, <1>4, <2>1, FreshIs DEF C!PolicyInv, Rests, Wish
<1>7. C!PolicyTypeOK'
  BY <1>1, <1>2 DEF Rests, Wish, C!PolicyInv, C!PolicyTypeOK
<1> QED
  BY <1>4, <1>5, <1>6, <1>7 DEF C!PolicyInv

-----------------------------------------------------------------------------
(* What requests ask for is what they leave. *)

LEMMA ChangedSays ==
  ASSUME C!PolicyTypeOK, NEW s \in C!Settings, NEW queues \in BOOLEAN, watched = "client"
  PROVE  /\ C!Changed(s, queues) \in OpenDrafts /\ C!Changed(s, queues).at = 0
         /\ Says(C!Changed(s, queues), watched, member, own, profile)
<1>1. s[1] \in {"kept", "joins", "leaves"} /\ s[2] \in Owned \cup {"kept", "none"}
      /\ member \in BOOLEAN /\ own \in Owned \cup {"none"} /\ profile \in Policies \cup {"gone"}
  BY DEF C!Settings, C!PolicyTypeOK
<1> PICK m : m = IF s[1] = "kept" THEN member ELSE s[1] = "joins"
  OBVIOUS
<1> PICK o : o = IF s[2] = "kept" THEN own ELSE s[2]
  OBVIOUS
<1>2. m \in BOOLEAN /\ o \in Owned \cup {"none"}
  BY <1>1
<1> PICK w : w = C!Effective(m, o, profile)
  OBVIOUS
<1>3. w \in C!Wishes /\ w # "nothing"
  BY <1>1, <1>2, EffectiveType
<1> PICK d : d = C!Changed(s, queues)
  OBVIOUS
<1>4. d = [open |-> TRUE, member |-> IF m = member THEN "kept" ELSE s[1],
           own |-> IF o = own THEN "kept" ELSE o, profile |-> "kept", row |-> TRUE,
           asks |-> IF queues THEN w ELSE "nothing", at |-> 0, fresh |-> TRUE]
  BY DEF C!Changed, C!Draft
<1>5. d \in OpenDrafts /\ d.at = 0
  BY <1>1, <1>2, <1>3, <1>4 DEF OpenDrafts
<1>6. /\ d.member = (IF m = member THEN "kept" ELSE s[1]) /\ d.own = (IF o = own THEN "kept" ELSE o)
      /\ d.profile = "kept" /\ d.asks = (IF queues THEN w ELSE "nothing")
  BY <1>4
<1>7. (IF d.member = "kept" THEN member /\ profile # "gone" ELSE d.member = "joins")
        = (m /\ (m = member => profile # "gone"))
  BY <1>1, <1>6
<1>8. (IF d.own = "kept" THEN own ELSE d.own) = o
  BY <1>1, <1>6
<1>9. Says(d, watched, member, own, profile)
  BY <1>1, <1>2, <1>3, <1>6, <1>7, <1>8 DEF Says, After, Shared, C!Effective
<1> QED
  BY <1>5, <1>9

LEMMA ConfigureKeeps ==
  ASSUME C!PolicyInv, NEW r \in Requesters, NEW s \in C!Settings,
         C!BeginConfigure(r, s) \/ C!BeginPatch(r, s)
  PROVE  C!PolicyInv'
<1> PICK queues \in BOOLEAN : C!Allowed(s) /\ C!Begin(r, C!Changed(s, queues))
  BY DEF C!BeginConfigure, C!BeginPatch
<1>1. C!PolicyTypeOK /\ watched = "client"
  BY DEF C!PolicyInv, C!Allowed
<1> QED
  BY <1>1, ChangedSays, BeginKeeps

\* A request that writes no column of the client but by the profile that is deleted:
\* it leaves the profile at p and the client a member or not (m).
Leaves(joins, shared, asks, p, m) ==
  /\ p = IF shared \in {"kept", "same"} THEN profile ELSE shared
  /\ m \in BOOLEAN
  /\ joins = "kept" => (m <=> member /\ p # "gone")
  /\ joins = "leaves" => ~m
  /\ IF asks = "nothing"
       THEN watched = "client" => C!Effective(m, own, p) = C!Effective(member, own, profile)
       ELSE /\ watched = "client" => asks = C!Effective(m, own, p)
            /\ watched = "wifi" => asks \in {"off", p}

LEMMA DraftSays ==
  ASSUME C!PolicyTypeOK, NEW joins \in {"kept", "leaves"},
         NEW shared \in Policies \cup {"kept", "same", "gone"}, NEW row \in BOOLEAN,
         NEW asks \in C!Wishes \cup {"nothing"}, NEW p, NEW m, Leaves(joins, shared, asks, p, m)
  PROVE  /\ C!Draft(joins, "kept", shared, row, asks) \in OpenDrafts
         /\ C!Draft(joins, "kept", shared, row, asks).at = 0
         /\ Says(C!Draft(joins, "kept", shared, row, asks), watched, member, own, profile)
<1> PICK d : d = C!Draft(joins, "kept", shared, row, asks)
  OBVIOUS
<1>1. d = [open |-> TRUE, member |-> joins, own |-> "kept", profile |-> shared, row |-> row,
           asks |-> asks, at |-> 0, fresh |-> TRUE]
  BY DEF C!Draft
<1>2. d \in OpenDrafts /\ d.at = 0
  <2>1. /\ joins \in {"kept", "joins", "leaves"} /\ shared \in Policies \cup {"kept", "same", "gone"}
        /\ row \in BOOLEAN /\ asks \in C!Wishes \cup {"nothing"}
    OBVIOUS
  <2>2. \A a \in {"kept", "joins", "leaves"}, b \in Owned \cup {"kept", "none"},
           c \in Policies \cup {"kept", "same", "gone"}, e \in BOOLEAN,
           w \in C!Wishes \cup {"nothing"}, n \in Nat :
          [open |-> TRUE, member |-> a, own |-> b, profile |-> c, row |-> e, asks |-> w,
           at |-> n, fresh |-> TRUE] \in OpenDrafts
    BY SMTT(40) DEF OpenDrafts
  <2>3. d \in OpenDrafts
    BY <1>1, <2>1, <2>2, SMTT(40)
  <2> QED
    BY <1>1, <2>3
<1>3. d.member = joins /\ d.own = "kept" /\ d.profile = shared /\ d.asks = asks
  BY <1>1
<1>4. m <=> (IF d.member = "kept" THEN member /\ p # "gone" ELSE d.member = "joins")
  BY <1>3 DEF Leaves
<1>5. Shared(d, profile) = p
  BY <1>3 DEF Leaves, Shared
<1>6. After(d, member, own, profile) = C!Effective(m, own, p)
  BY <1>3, <1>4, <1>5 DEF After, C!Effective
<1>7. Says(d, watched, member, own, profile)
  BY <1>3, <1>5, <1>6 DEF Says, Leaves
<1> QED
  BY <1>2, <1>7

LEMMA AskKeeps ==
  ASSUME C!PolicyInv, NEW r \in Requesters,
         C!BeginApply(r) \/ \E given \in BOOLEAN : C!BeginSetWifi(r, given)
  PROVE  C!PolicyInv'
<1>1. C!PolicyTypeOK /\ own \in Owned \cup {"none"} /\ profile \in Policies \cup {"gone"}
      /\ member \in BOOLEAN
  BY DEF C!PolicyInv, C!PolicyTypeOK
<1> PICK m \in BOOLEAN : m = (member /\ profile # "gone")
  BY <1>1
<1>2. C!Effective(m, own, profile) = C!Effective(member, own, profile)
  BY <1>1 DEF C!Effective
<1>3. CASE C!BeginApply(r)
  <2> PICK w : w = C!Effective(member, own, profile)
    OBVIOUS
  <2>1. w \in C!Wishes /\ w # "nothing"
    BY <1>1, EffectiveType
  <2>2. watched = "client" /\ C!Begin(r, C!Draft("kept", "kept", "kept", FALSE, w))
    BY <1>3 DEF C!BeginApply
  <2> PICK d : d = C!Draft("kept", "kept", "kept", FALSE, w)
    OBVIOUS
  <2>3. Leaves("kept", "kept", w, profile, m)
    BY <1>2, <2>1, <2>2 DEF Leaves
  <2>4. d \in OpenDrafts /\ d.at = 0 /\ Says(d, watched, member, own, profile)
    BY <1>1, <2>1, <2>3, DraftSays
  <2> QED
    BY <2>2, <2>4, BeginKeeps
<1>4. ASSUME NEW given \in BOOLEAN, C!BeginSetWifi(r, given) PROVE C!PolicyInv'
  <2> PICK w : w = IF given THEN profile ELSE "off"
    OBVIOUS
  <2>1. w \in C!Wishes /\ w # "nothing" /\ w \in {"off", profile}
    BY <1>1, AgentAssumption DEF C!Wishes
  <2>2. watched = "wifi" /\ C!Begin(r, C!Draft("kept", "kept", "kept", FALSE, w))
    BY <1>4 DEF C!BeginSetWifi
  <2> PICK d : d = C!Draft("kept", "kept", "kept", FALSE, w)
    OBVIOUS
  <2>3. Leaves("kept", "kept", w, profile, m)
    BY <2>1, <2>2 DEF Leaves
  <2>4. d \in OpenDrafts /\ d.at = 0 /\ Says(d, watched, member, own, profile)
    BY <1>1, <2>1, <2>3, DraftSays
  <2> QED
    BY <2>2, <2>4, BeginKeeps
<1> QED
  BY <1>3, <1>4

LEMMA ProfileJobFacts ==
  ASSUME C!PolicyTypeOK, NEW p \in Policies \cup {"gone"}
  PROVE  /\ C!ProfileJob(p) \in C!Wishes \cup {"nothing"}
         /\ watched = "client" =>
              C!ProfileJob(p) = IF member THEN C!Effective(TRUE, own, p) ELSE "nothing"
         /\ watched = "wifi" =>
              C!ProfileJob(p) = IF ~told THEN "nothing" ELSE IF p = "gone" THEN "off" ELSE p
         /\ C!Effective(TRUE, own, p) # "nothing" /\ p # "nothing"
<1>1. own \in Owned \cup {"none"}
  BY DEF C!PolicyTypeOK
<1>2. C!Effective(TRUE, own, p) \in C!Wishes /\ C!Effective(TRUE, own, p) # "nothing"
  BY <1>1, EffectiveType
<1> QED
  BY <1>2, AgentAssumption DEF C!ProfileJob, C!Wishes

LEMMA ProfileKeeps ==
  ASSUME C!PolicyInv, NEW r \in Requesters,
         C!BeginDeleteProfile(r) \/ \E p \in Policies : C!BeginUpdateProfile(r, p)
  PROVE  C!PolicyInv'
<1>1. C!PolicyTypeOK /\ own \in Owned \cup {"none"} /\ profile \in Policies \cup {"gone"}
      /\ member \in BOOLEAN
  BY DEF C!PolicyInv, C!PolicyTypeOK
<1>2. CASE C!BeginDeleteProfile(r)
  <2> PICK p \in Policies \cup {"gone"} : p = "gone"
    OBVIOUS
  <2> PICK w : w = C!ProfileJob(p)
    OBVIOUS
  <2> PICK joins : joins = IF member THEN "leaves" ELSE "kept"
    OBVIOUS
  <2> PICK m \in BOOLEAN : m = FALSE
    OBVIOUS
  <2> PICK row \in BOOLEAN : row = member
    BY <1>1
  <2>1. C!Begin(r, C!Draft(joins, "kept", p, row, w))
    BY <1>2 DEF C!BeginDeleteProfile
  <2>2. /\ m = FALSE /\ C!Effective(FALSE, own, p) = C!Effective(TRUE, own, p)
        /\ C!Effective(FALSE, own, p) = C!Effective(FALSE, own, profile)
    BY DEF C!Effective
  <2> PICK d : d = C!Draft(joins, "kept", p, row, w)
    OBVIOUS
  <2>3. d \in OpenDrafts /\ d.at = 0 /\ Says(d, watched, member, own, profile)
    <3>1. /\ w \in C!Wishes \cup {"nothing"} /\ joins \in {"kept", "leaves"}
          /\ watched = "client" => w = IF member THEN C!Effective(TRUE, own, p) ELSE "nothing"
          /\ watched = "wifi" => w \in {"nothing", "off"}
          /\ C!Effective(TRUE, own, p) # "nothing"
      BY <1>1, ProfileJobFacts
    <3>2. Leaves(joins, p, w, p, m)
      BY <1>1, <2>2, <3>1 DEF Leaves
    <3>3. p \in Policies \cup {"kept", "same", "gone"}
      OBVIOUS
    <3> QED
      BY <1>1, <3>1, <3>2, <3>3, DraftSays
  <2> QED
    BY <2>1, <2>3, BeginKeeps
<1>3. ASSUME NEW p \in Policies, C!BeginUpdateProfile(r, p) PROVE C!PolicyInv'
  <2> PICK w : w = C!ProfileJob(p)
    OBVIOUS
  <2> PICK shared : shared = IF p = profile THEN "same" ELSE p
    OBVIOUS
  <2>1. C!Begin(r, C!Draft("kept", "kept", shared, FALSE, w)) /\ profile # "gone"
    BY <1>3 DEF C!BeginUpdateProfile
  <2>2. p = (IF shared \in {"kept", "same"} THEN profile ELSE shared) /\ p # "gone"
        /\ shared \in Policies \cup {"kept", "same", "gone"}
    BY AgentAssumption
  <2>3. member <=> member /\ p # "gone"
    BY <1>1, <2>2
  <2>4. C!Effective(FALSE, own, p) = C!Effective(FALSE, own, profile)
    BY DEF C!Effective
  <2> PICK d : d = C!Draft("kept", "kept", shared, FALSE, w)
    OBVIOUS
  <2>5. d \in OpenDrafts /\ d.at = 0 /\ Says(d, watched, member, own, profile)
    <3>1. /\ w \in C!Wishes \cup {"nothing"}
          /\ watched = "client" => w = IF member THEN C!Effective(TRUE, own, p) ELSE "nothing"
          /\ watched = "wifi" => w \in {"nothing", p}
          /\ C!Effective(TRUE, own, p) # "nothing"
      BY <1>1, <2>2, ProfileJobFacts
    <3>2. Leaves("kept", shared, w, p, member)
      BY <1>1, <2>2, <2>3, <2>4, <3>1 DEF Leaves
    <3> QED
      BY <1>1, <2>2, <3>1, <3>2, DraftSays
  <2> QED
    BY <2>1, <2>5, BeginKeeps
<1> QED
  BY <1>2, <1>3

\* Rests of the requests: one refused, a client forgotten, the telemetry.
LEMMA RefuseKeeps ==
  ASSUME C!PolicyInv, NEW r \in Requesters, C!Refuse(r)
  PROVE  C!PolicyInv'
<1>1. Rests /\ UNCHANGED Wish /\ drafts' = [drafts EXCEPT ![r] = C!NoDraft]
      /\ drafts \in [Requesters -> C!Drafts]
  BY DEF C!Refuse, Rests, Wish, C!PolicyInv, C!PolicyTypeOK
<1>2. /\ drafts' \in [Requesters -> C!Drafts] /\ ~drafts'[r].open
      /\ \A q \in Requesters : q # r => drafts'[q] = drafts[q]
  BY <1>1, DraftTypes
<1>3. Retains
  BY <1>2 DEF Retains
<1>4. /\ C!Known' = C!Known /\ C!StampsOK' /\ C!DeliveredInOrder' /\ C!InboxOK' /\ C!InForce'
      /\ \A i : C!Last(i)' <=> C!Last(i)
  BY <1>1, <1>3, RestsKeeps
<1>5. C!Asked'
  BY <1>1, <1>4, SameWish DEF Rests, Wish
<1>6. C!FreshOK'
  BY <1>1, <1>2, <1>4, FreshIs DEF C!PolicyInv, Rests, Wish
<1>7. C!PolicyTypeOK'
  BY <1>1, <1>2 DEF Rests, Wish, C!PolicyInv, C!PolicyTypeOK
<1> QED
  BY <1>4, <1>5, <1>6, <1>7 DEF C!PolicyInv

LEMMA ForgetKeeps ==
  ASSUME C!PolicyInv, C!Forget
  PROVE  C!PolicyInv'
<1> PICK open : open = [r \in Requesters |->
                  IF drafts[r].open THEN IF drafts[r].row THEN C!NoDraft ELSE drafts[r]
                  ELSE drafts[r]]
  OBVIOUS
<1>1. /\ Rests /\ drafts' = C!Overtaken(open) /\ loose' = TRUE /\ profile' = profile
      /\ member' = FALSE /\ own' = "none" /\ told' = told
  BY DEF C!Forget, Rests
<1>2. /\ open \in [Requesters -> C!Drafts]
      /\ \A r \in Requesters : open[r].open => drafts[r].open /\ open[r] = drafts[r]
  BY DraftTypes DEF C!PolicyInv, C!PolicyTypeOK
<1>3. /\ drafts' \in [Requesters -> C!Drafts]
      /\ \A r \in Requesters : drafts'[r].open => ~drafts'[r].fresh
  BY <1>1, <1>2, OvertakenFacts
<1>4. Retains
  BY <1>1, <1>2, OvertakenFacts DEF Retains
<1>5. /\ C!Known' = C!Known /\ C!StampsOK' /\ C!DeliveredInOrder' /\ C!InboxOK' /\ C!InForce'
      /\ \A i : C!Last(i)' <=> C!Last(i)
  BY <1>1, <1>4, RestsKeeps
<1>6. C!Asked' /\ C!FreshOK'
  BY <1>1, <1>3, <1>5, FreshIs DEF C!Asked, C!PolicyInv
<1>7. C!PolicyTypeOK'
  BY <1>1, <1>3 DEF Rests, C!PolicyInv, C!PolicyTypeOK
<1> QED
  BY <1>5, <1>6, <1>7 DEF C!PolicyInv

LEMMA TelemetryKeeps ==
  ASSUME C!PolicyInv, C!Telemetry \/ UNCHANGED policies
  PROVE  C!PolicyInv'
<1>1. Rests /\ UNCHANGED <<profile, member, own, drafts, loose>> /\ told' \in BOOLEAN
  BY DEF C!Telemetry, policies, Rests, C!PolicyInv, C!PolicyTypeOK
<1>2. Retains
  BY <1>1 DEF Retains, C!PolicyInv, C!PolicyTypeOK
<1>3. /\ C!Known' = C!Known /\ C!StampsOK' /\ C!DeliveredInOrder' /\ C!InboxOK' /\ C!InForce'
      /\ \A i : C!Last(i)' <=> C!Last(i)
  BY <1>1, <1>2, RestsKeeps
<1>4. C!Asked'
  BY <1>1, <1>3, SameWish DEF Rests
<1>5. C!FreshOK'
  BY <1>1, <1>3, FreshIs DEF C!PolicyInv, Rests
<1>6. C!PolicyTypeOK'
  BY <1>1 DEF Rests, C!PolicyInv, C!PolicyTypeOK
<1> QED
  BY <1>3, <1>4, <1>5, <1>6 DEF C!PolicyInv

-----------------------------------------------------------------------------
(* Commands are created, and come to be seen. *)

LEMMA UnbornFacts ==
  ASSUME NEW policy \in C!Wishes
  PROVE  LET job == C!Unborn(policy) IN
         /\ job \in C!Jobs /\ job.policy = policy /\ job.status = "unborn" /\ job.tries = 0
         /\ job.ran = "no" /\ ~job.late
BY DEF C!Unborn, C!Jobs

LEMMA StampKeeps ==
  ASSUME C!PolicyInv, NEW r \in Requesters, C!Stamp(r)
  PROVE  C!PolicyInv'
<1> USE JobIndices, JobTypes DEF C!PolicyInv
<1> PICK n : n = Len(jobs) + 1
  OBVIOUS
<1> PICK d : d = drafts[r]
  OBVIOUS
<1> PICK e : e = [d EXCEPT !.at = n]
  OBVIOUS
<1> PICK job : job = C!Unborn(d.asks)
  OBVIOUS
<1>1. /\ d \in OpenDrafts /\ d.asks \in C!Wishes /\ d.asks # "nothing" /\ d.at = 0
      /\ n \in Nat \ {0} /\ drafts \in [Requesters -> C!Drafts]
      /\ UNCHANGED Wish /\ watched' = watched /\ inbox' = inbox /\ router' = router
      /\ jobs' = Append(jobs, job) /\ drafts' = [drafts EXCEPT ![r] = e]
  BY DraftTypes DEF C!Stamp, Wish, C!PolicyTypeOK
<1>2. /\ e \in OpenDrafts /\ SameRequest(e, d) /\ e.at = n /\ e.fresh = d.fresh /\ e.asks = d.asks
      /\ e.open /\ d.open
  BY <1>1, DraftStamped DEF SameRequest
<1>3. /\ drafts' \in [Requesters -> C!Drafts] /\ drafts'[r] = e
      /\ \A q \in Requesters : q # r => drafts'[q] = drafts[q]
  BY <1>1, <1>2, DraftTypes
<1>4. /\ job \in C!Jobs /\ job.policy = d.asks /\ job.status = "unborn" /\ job.tries = 0
      /\ job.ran = "no" /\ ~job.late
  BY <1>1, UnbornFacts
<1>5. /\ jobs' \in Seq(C!Jobs) /\ DOMAIN jobs' = 1..n /\ jobs'[n] = job
      /\ \A i \in DOMAIN jobs : jobs'[i] = jobs[i] /\ i \in DOMAIN jobs' /\ i < n
      /\ \A i \in DOMAIN jobs' : i \in DOMAIN jobs \/ i = n
  BY <1>1, <1>4 DEF C!PolicyTypeOK
<1>6. C!Known' = C!Known /\ \A i \in C!Known : jobs'[i] = jobs[i] /\ i < n
  BY <1>4, <1>5 DEF C!Known
<1>7. C!Asked' /\ \A i : C!Last(i)' <=> C!Last(i)
  BY <1>1, <1>6, SameWish DEF Wish
<1>8. C!StampsOK'
  <2>1. \A q \in Requesters : drafts[q].open /\ drafts[q].at # 0 =>
          /\ drafts[q].at \in DOMAIN jobs /\ drafts[q].asks # "nothing"
          /\ jobs[drafts[q].at].status = "unborn" /\ jobs[drafts[q].at].policy = drafts[q].asks
    BY DEF C!StampsOK
  <2>2. ASSUME NEW q \in Requesters, drafts'[q].open, drafts'[q].at # 0
        PROVE  /\ drafts'[q].at \in DOMAIN jobs' /\ drafts'[q].asks # "nothing"
               /\ jobs'[drafts'[q].at].status = "unborn"
               /\ jobs'[drafts'[q].at].policy = drafts'[q].asks
               /\ q # r => drafts'[q].at # n
    <3>1. CASE q = r
      BY <1>1, <1>2, <1>3, <1>4, <1>5, <3>1
    <3>2. CASE q # r
      BY <1>3, <1>5, <2>1, <2>2, <3>2
    <3> QED
      BY <3>1, <3>2
  <2>3. ASSUME NEW p \in Requesters, NEW q \in Requesters, drafts'[p].open, drafts'[q].open,
               drafts'[p].at = drafts'[q].at, drafts'[p].at # 0
        PROVE  p = q
    <3>1. CASE p = r \/ q = r
      <4>1. drafts'[r].at = n
        BY <1>2, <1>3
      <4>2. (p # r => drafts'[p].at # n) /\ (q # r => drafts'[q].at # n)
        BY <2>2, <2>3
      <4> QED
        BY <2>3, <3>1, <4>1, <4>2
    <3>2. CASE p # r /\ q # r
      BY <1>3, <2>3, <3>2 DEF C!StampsOK
    <3> QED
      BY <3>1, <3>2
  <2> QED
    BY <2>2, <2>3 DEF C!StampsOK
<1>9. C!FreshOK'
  <2>1. ASSUME NEW q \in Requesters, drafts'[q].open, drafts'[q].fresh
        PROVE  /\ Says(drafts'[q], watched, member, own, profile)
               /\ drafts'[q].at # 0 => \A j \in C!Known : j < drafts'[q].at
    <3>1. CASE q = r
      <4>1. Says(d, watched, member, own, profile)
        BY <1>2, <1>3, <2>1, <3>1, FreshIs
      <4>2. Says(e, watched, member, own, profile)
        BY <1>2, <4>1, SaysAlike
      <4>3. \A j \in C!Known : j < e.at
        BY <1>2, <1>6
      <4> QED
        BY <1>3, <3>1, <4>2, <4>3
    <3>2. CASE q # r
      BY <1>3, <2>1, <3>2, FreshIs
    <3> QED
      BY <3>1, <3>2
  <2> QED
    BY <1>1, <1>6, <1>7, <2>1, FreshIs DEF Wish
<1>10. C!DeliveredInOrder'
  BY <1>4, <1>5 DEF C!DeliveredInOrder
<1>11. C!InboxOK'
  <2>1. \A k \in DOMAIN inbox : inbox[k] \in DOMAIN jobs /\ jobs'[inbox[k]] = jobs[inbox[k]]
                                /\ inbox[k] \in DOMAIN jobs'
    BY <1>5 DEF C!InboxOK
  <2>2. \A j \in DOMAIN jobs' : jobs'[j].ran = "no" \/ (j \in DOMAIN jobs /\ jobs'[j] = jobs[j])
    BY <1>4, <1>5
  <2> QED
    BY <1>1, <2>1, <2>2 DEF C!InboxOK, C!Prompt
<1>12. C!InForce'
  <2> SUFFICES ASSUME NEW i \in C!Known', C!Last(i)', jobs'[i].ran = "done"
               PROVE  \/ router' = jobs'[i].policy
                      \/ \E j \in C!Known' : j < i /\ jobs'[j].ran = "done"
                                             /\ (jobs'[j].tries > 1 \/ jobs'[j].late)
    BY DEF C!InForce
  <2>1. i \in C!Known /\ C!Last(i) /\ jobs[i].ran = "done" /\ jobs'[i] = jobs[i]
    BY <1>6, <1>7
  <2>2. \/ router = jobs[i].policy
        \/ \E j \in C!Known : j < i /\ jobs[j].ran = "done" /\ (jobs[j].tries > 1 \/ jobs[j].late)
    BY <2>1 DEF C!InForce
  <2> QED
    BY <1>1, <1>6, <2>1, <2>2
<1>13. C!PolicyTypeOK'
  BY <1>1, <1>3, <1>5 DEF C!PolicyTypeOK, Wish
<1> QED
  BY <1>7, <1>8, <1>9, <1>10, <1>11, <1>12, <1>13

LEMMA SeenFacts ==
  ASSUME NEW x \in C!Jobs, NEW late1 \in BOOLEAN
  PROVE  LET job == C!Seen(x, late1) IN
         /\ job \in C!Jobs /\ job.policy = x.policy /\ job.tries = x.tries /\ job.ran = x.ran
         /\ job.status = "queued" /\ job.late = late1
BY DEF C!Seen, C!Jobs

LEMMA BornFacts ==
  ASSUME C!PolicyTypeOK, NEW n \in DOMAIN jobs
  PROVE  /\ C!Born(n) \in Seq(C!Jobs) /\ DOMAIN C!Born(n) = DOMAIN jobs
         /\ \A i \in DOMAIN jobs : i # n => C!Born(n)[i] = jobs[i]
         /\ C!Born(n)[n].policy = jobs[n].policy /\ C!Born(n)[n].tries = jobs[n].tries
         /\ C!Born(n)[n].ran = jobs[n].ran /\ C!Born(n)[n].status = "queued"
         /\ C!Born(n)[n].late = \E j \in DOMAIN jobs : n < j /\ jobs[j].tries > 0
<1> PICK job : job = C!Seen(jobs[n], C!Passed(n))
  OBVIOUS
<1>1. C!Passed(n) \in BOOLEAN
  BY DEF C!Passed
<1>2. jobs[n] \in C!Jobs
  BY JobIndices
<1>3. job \in C!Jobs /\ job.policy = jobs[n].policy /\ job.tries = jobs[n].tries
      /\ job.ran = jobs[n].ran /\ job.status = "queued" /\ job.late = C!Passed(n)
  BY <1>1, <1>2, SeenFacts
<1>4. C!Born(n) = [jobs EXCEPT ![n] = job]
  BY DEF C!Born
<1>5. jobs \in [1..Len(jobs) -> C!Jobs] /\ Len(jobs) \in Nat /\ DOMAIN jobs = 1..Len(jobs)
  BY DEF C!PolicyTypeOK
<1>6. [jobs EXCEPT ![n] = job] \in [1..Len(jobs) -> C!Jobs]
  BY <1>3, <1>5
<1>7. [jobs EXCEPT ![n] = job] \in Seq(C!Jobs)
  BY <1>5, <1>6
<1>8. /\ DOMAIN [jobs EXCEPT ![n] = job] = DOMAIN jobs /\ [jobs EXCEPT ![n] = job][n] = job
      /\ \A i \in DOMAIN jobs : i # n => [jobs EXCEPT ![n] = job][i] = jobs[i]
  BY <1>5
<1> QED
  BY <1>3, <1>4, <1>7, <1>8 DEF C!Passed

LEMMA CommitKeeps ==
  ASSUME C!PolicyInv, NEW r \in Requesters, C!Commit(r)
  PROVE  C!PolicyInv'
<1> USE JobIndices, JobTypes DEF C!PolicyInv
<1> PICK d : d = drafts[r]
  OBVIOUS
<1> PICK open : open = [drafts EXCEPT ![r] = C!NoDraft]
  OBVIOUS
<1>1. /\ d \in OpenDrafts /\ drafts \in [Requesters -> C!Drafts]
      /\ d.asks # "nothing" <=> d.at # 0
      /\ d.asks # "nothing" =>
           d.at \in DOMAIN jobs /\ jobs[d.at].status = "unborn" /\ jobs[d.at].policy = d.asks
      /\ profile' = C!ProfileAfter(d) /\ member' = C!MemberAfter(d) /\ own' = C!OwnAfter(d)
      /\ jobs' = (IF d.at = 0 THEN jobs ELSE C!Born(d.at))
      /\ drafts' = C!Overtaken(open) /\ loose' = C!Loosened(d)
      /\ watched' = watched /\ inbox' = inbox /\ router' = router /\ told' = told
  BY DraftTypes DEF C!Commit, C!PolicyTypeOK, C!StampsOK
<1>2. /\ profile' \in Policies \cup {"gone"} /\ member' \in BOOLEAN /\ own' \in Owned \cup {"none"}
      /\ loose' \in BOOLEAN
  BY <1>1, AfterTypes DEF C!Loosened, C!PolicyTypeOK
<1>3. /\ open \in [Requesters -> C!Drafts] /\ ~open[r].open
      /\ \A q \in Requesters : q # r => open[q] = drafts[q]
  BY <1>1, DraftTypes
<1>4. /\ drafts' \in [Requesters -> C!Drafts]
      /\ \A q \in Requesters : drafts'[q].open =>
           /\ q # r /\ drafts[q].open /\ ~drafts'[q].fresh
           /\ drafts'[q].at = drafts[q].at /\ drafts'[q].asks = drafts[q].asks
  <2>1. /\ drafts' \in [Requesters -> C!Drafts]
        /\ \A q \in Requesters : drafts'[q].open =>
             /\ open[q].open /\ drafts'[q].at = open[q].at /\ drafts'[q].asks = open[q].asks
             /\ ~drafts'[q].fresh
    <3> PICK over : over = C!Overtaken(open)
      OBVIOUS
    <3>1. /\ over \in [Requesters -> C!Drafts]
          /\ \A q \in Requesters : over[q].open =>
               /\ open[q].open /\ over[q].at = open[q].at /\ over[q].asks = open[q].asks
               /\ ~over[q].fresh
      <4>1. open \in [Requesters -> C!Drafts]
        BY <1>3
      <4>2. /\ C!Overtaken(open) \in [Requesters -> C!Drafts]
            /\ \A q \in Requesters : C!Overtaken(open)[q].open =>
                 /\ open[q].open /\ C!Overtaken(open)[q].at = open[q].at
                 /\ C!Overtaken(open)[q].asks = open[q].asks
                 /\ ~C!Overtaken(open)[q].fresh
        BY <4>1, OvertakenFacts
      <4> QED
        BY <4>2
    <3>2. drafts' = over
      BY <1>1
    <3> QED
      BY <3>1, <3>2
  <2>2. ASSUME NEW q \in Requesters, drafts'[q].open
        PROVE  q # r /\ open[q] = drafts[q]
    <3>1. open[q].open
      BY <2>1, <2>2
    <3>2. q # r
      BY <1>3, <3>1
    <3> QED
      BY <1>3, <3>2
  <2> QED
    BY <2>1, <2>2
<1>5. d.fresh => Says(d, watched, member, own, profile)
                 /\ (d.at # 0 => \A j \in C!Known : j < d.at)
  BY <1>1, FreshIs, DraftTypes
<1>6. ~loose' => IF d.asks # "nothing" THEN d.fresh
                 ELSE /\ ~loose /\ d.member = "kept" /\ d.own = "kept"
                      /\ d.profile \in {"kept", "same"} \/ (watched # "wifi" /\ d.fresh)
  BY <1>1 DEF C!Loosened
\* Without a command: the wish is what it was, or nothing is promised.
<1>7. CASE d.asks = "nothing"
  <2>1. Rests
    BY <1>1, <1>7 DEF Rests
  <2>2. Retains
    BY <1>4 DEF Retains
  <2>3. /\ C!Known' = C!Known /\ C!StampsOK' /\ C!DeliveredInOrder' /\ C!InboxOK' /\ C!InForce'
        /\ \A i : C!Last(i)' <=> C!Last(i)
    BY <2>1, <2>2, RestsKeeps
  <2>4. C!FreshOK'
    BY <1>4, <2>3, FreshIs
  <2>5. C!Asked'
    <3> SUFFICES ASSUME ~loose' PROVE C!Asked'
      BY DEF C!Asked
    <3>1. /\ ~loose /\ d.member = "kept" /\ d.own = "kept"
          /\ d.profile \in {"kept", "same"} \/ (watched # "wifi" /\ d.fresh)
      BY <1>6, <1>7
    <3>2. own' = own /\ member' = (member /\ profile' # "gone")
          /\ (d.profile \in {"kept", "same"} => profile' = profile)
      BY <1>1, <3>1 DEF C!OwnAfter, C!MemberAfter, C!ProfileAfter
    <3>3. watched = "wifi" => profile' = profile
      BY <3>1, <3>2
    <3>4. ASSUME watched = "client"
          PROVE  C!Effective(member', own', profile') = C!Effective(member, own, profile)
      <4>1. CASE d.profile \in {"kept", "same"}
        BY <3>2, <4>1 DEF C!Effective
      <4>2. CASE d.profile \notin {"kept", "same"}
        <5>1. Says(d, watched, member, own, profile)
          BY <1>5, <3>1, <4>2
        <5>2. profile' = d.profile
          BY <1>1, <4>2 DEF C!ProfileAfter
        <5> QED
          BY <1>7, <3>1, <3>2, <3>4, <4>2, <5>1, <5>2 DEF Says, After, Shared
      <4> QED
        BY <4>1, <4>2
    <3>5. \A i \in C!Known : jobs'[i] = jobs[i]
      BY <2>1 DEF Rests
    <3> PICK now : now = C!Effective(member', own', profile')
      OBVIOUS
    <3>6. C!Asked' <=>
            /\ watched = "client" => /\ C!Known' = {} => now = "open"
                                     /\ \A i \in C!Known' : C!Last(i)' => jobs'[i].policy = now
            /\ watched = "wifi" => \A i \in C!Known' : C!Last(i)' => jobs'[i].policy \in {"off", profile'}
      BY <1>1 DEF C!Asked, C!Effective
    <3>7. /\ watched = "client" => /\ C!Known = {} => now = "open"
                                   /\ \A i \in C!Known : C!Last(i) => jobs[i].policy = now
          /\ watched = "wifi" => \A i \in C!Known : C!Last(i) => jobs[i].policy \in {"off", profile'}
      BY <3>1, <3>3, <3>4 DEF C!Asked
    <3> QED
      BY <2>3, <3>5, <3>6, <3>7
  <2>6. C!PolicyTypeOK'
    BY <1>1, <1>2, <1>4, <2>1 DEF Rests, C!PolicyTypeOK
  <2> QED
    BY <2>3, <2>4, <2>5, <2>6
\* With one: if nobody has overtaken the request, it is the newest and asks for the wish.
<1>8. CASE d.asks # "nothing"
  <2> PICK n : n = d.at
    OBVIOUS
  <2>1. /\ n \in DOMAIN jobs /\ n \in Nat /\ n \notin C!Known
        /\ jobs[n].status = "unborn" /\ jobs[n].policy = d.asks /\ jobs[n].tries = 0
        /\ jobs[n].ran = "no"
    BY <1>1, <1>8 DEF C!Known, C!DeliveredInOrder
  <2>2. /\ jobs' \in Seq(C!Jobs) /\ DOMAIN jobs' = DOMAIN jobs
        /\ \A i \in DOMAIN jobs : i # n => jobs'[i] = jobs[i]
        /\ jobs'[n].policy = d.asks /\ jobs'[n].tries = 0 /\ jobs'[n].ran = "no"
        /\ jobs'[n].status = "queued"
        /\ jobs'[n].late = \E j \in DOMAIN jobs : n < j /\ jobs[j].tries > 0
        /\ \A i \in DOMAIN jobs : jobs'[i].tries = jobs[i].tries /\ jobs'[i].ran = jobs[i].ran
    <3>1. jobs' = C!Born(n) /\ n \in DOMAIN jobs
      BY <1>1, <1>8, <2>1
    <3>2. /\ jobs' \in Seq(C!Jobs) /\ DOMAIN jobs' = DOMAIN jobs
          /\ \A i \in DOMAIN jobs : i # n => jobs'[i] = jobs[i]
          /\ jobs'[n].policy = jobs[n].policy /\ jobs'[n].tries = jobs[n].tries
          /\ jobs'[n].ran = jobs[n].ran /\ jobs'[n].status = "queued"
          /\ jobs'[n].late = \E j \in DOMAIN jobs : n < j /\ jobs[j].tries > 0
      BY <3>1, BornFacts
    <3> QED
      BY <2>1, <3>2
  <2>3. C!Known' = C!Known \cup {n}
    BY <2>1, <2>2 DEF C!Known
  <2>4. \A i \in C!Known : i \in Nat /\ i \in DOMAIN jobs /\ jobs'[i] = jobs[i] /\ i # n
    BY <2>1, <2>2 DEF C!Known
  <2>5. \A i : C!Last(i)' <=> i \in C!Known \cup {n} /\ \A j \in C!Known \cup {n} : j <= i
    BY <2>3 DEF C!Last
  <2>6. \A i \in C!Known : C!Last(i)' => C!Last(i)
    BY <2>5 DEF C!Last
  <2>7. C!StampsOK'
    <3>1. \A q \in Requesters : drafts'[q].open /\ drafts'[q].at # 0 =>
            /\ q # r /\ drafts'[q].at # n /\ drafts'[q].at = drafts[q].at
            /\ drafts[q].at \in DOMAIN jobs /\ drafts'[q].asks # "nothing"
            /\ jobs[drafts[q].at].status = "unborn"
            /\ jobs[drafts[q].at].policy = drafts'[q].asks
      <4>1. d.open /\ d = drafts[r] /\ n # 0
        BY <1>1, <1>8, DraftTypes
      <4>2. \A q \in Requesters : drafts[q].open /\ drafts[q].at # 0 =>
              /\ drafts[q].at \in DOMAIN jobs /\ drafts[q].asks # "nothing"
              /\ jobs[drafts[q].at].status = "unborn"
              /\ jobs[drafts[q].at].policy = drafts[q].asks
        BY DEF C!StampsOK
      <4>3. \A q \in Requesters : drafts[q].open /\ drafts[q].at = n => q = r
        BY <4>1 DEF C!StampsOK
      <4> QED
        BY <1>4, <4>2, <4>3
    <3>2. \A p, q \in Requesters : drafts'[p].open /\ drafts'[q].open
             /\ drafts'[p].at = drafts'[q].at /\ drafts'[p].at # 0 => p = q
      BY <1>4 DEF C!StampsOK
    <3> QED
      BY <2>2, <3>1, <3>2 DEF C!StampsOK
  <2>8. C!FreshOK'
    <3>1. \E i \in C!Known \cup {n} : \A j \in C!Known \cup {n} : j <= i
      <4>1. CASE C!Known = {}
        BY <2>1, <4>1
      <4>2. ASSUME NEW i \in C!Known, C!Last(i)
            PROVE  \E k \in C!Known \cup {n} : \A j \in C!Known \cup {n} : j <= k
        <5>1. CASE n <= i
          BY <4>2, <5>1 DEF C!Last
        <5>2. CASE i < n
          <6>1. \A j \in C!Known : j <= n
            BY <2>1, <2>4, <4>2, <5>2 DEF C!Last
          <6> QED
            BY <2>1, <6>1
        <5> QED
          BY <2>1, <2>4, <5>1, <5>2
      <4> QED
        BY <4>1, <4>2, FreshIs
    <3>2. \E i \in C!Known' : C!Last(i)'
      BY <2>3, <2>5, <3>1
    <3> QED
      BY <1>4, <3>2, FreshIs
  <2>9. C!Asked'
    <3> SUFFICES ASSUME ~loose' PROVE C!Asked'
      BY DEF C!Asked
    <3>1. Says(d, watched, member, own, profile) /\ \A j \in C!Known : j < n
      BY <1>1, <1>5, <1>6, <1>8
    <3>2. C!Known' # {} /\ \A i \in C!Known' : C!Last(i)' => jobs'[i].policy = d.asks
      <4>1. \A i \in C!Known' : C!Last(i)' => i = n
        BY <2>1, <2>3, <2>4, <2>5, <3>1
      <4> QED
        BY <2>2, <2>3, <4>1
    <3>3. /\ watched = "client" => d.asks = C!Effective(member', own', profile')
          /\ watched = "wifi" => d.asks \in {"off", profile'}
      BY <1>1, <1>8, <3>1 DEF Says, After, Shared, C!ProfileAfter, C!MemberAfter, C!OwnAfter, C!Effective
    <3> PICK now : now = C!Effective(member', own', profile')
      OBVIOUS
    <3>4. C!Asked' <=>
            /\ watched = "client" => /\ C!Known' = {} => now = "open"
                                     /\ \A i \in C!Known' : C!Last(i)' => jobs'[i].policy = now
            /\ watched = "wifi" => \A i \in C!Known' : C!Last(i)' => jobs'[i].policy \in {"off", profile'}
      BY <1>1 DEF C!Asked, C!Effective
    <3> QED
      BY <3>2, <3>3, <3>4
  <2>10. C!DeliveredInOrder'
    <3>1. \A j \in DOMAIN jobs : n < j /\ ~jobs'[n].late => jobs[j].tries = 0
      BY <2>2
    <3>2. \A i \in DOMAIN jobs : i # n =>
            /\ jobs'[i].status = "success" => jobs'[i].ran = "done"
            /\ jobs'[i].status = "unborn" => jobs'[i].tries = 0 /\ ~jobs'[i].late
            /\ jobs'[i].tries = 0 => jobs'[i].status \in {"unborn", "queued"} /\ jobs'[i].ran = "no"
            /\ jobs'[i].tries = 0 /\ jobs'[i].status = "queued" /\ ~jobs'[i].late =>
                 \A j \in DOMAIN jobs : i < j => jobs'[j].tries = 0
      BY <2>2 DEF C!DeliveredInOrder
    <3>3. /\ jobs'[n].status # "success" /\ jobs'[n].status # "unborn"
          /\ jobs'[n].tries = 0 => jobs'[n].status \in {"unborn", "queued"} /\ jobs'[n].ran = "no"
          /\ jobs'[n].tries = 0 /\ jobs'[n].status = "queued" /\ ~jobs'[n].late =>
               \A j \in DOMAIN jobs : n < j => jobs'[j].tries = 0
      BY <2>2, <3>1
    <3> SUFFICES ASSUME NEW i \in DOMAIN jobs
                 PROVE  /\ jobs'[i].status = "success" => jobs'[i].ran = "done"
                        /\ jobs'[i].status = "unborn" => jobs'[i].tries = 0 /\ ~jobs'[i].late
                        /\ jobs'[i].tries = 0 =>
                             jobs'[i].status \in {"unborn", "queued"} /\ jobs'[i].ran = "no"
                        /\ jobs'[i].tries = 0 /\ jobs'[i].status = "queued" /\ ~jobs'[i].late =>
                             \A j \in DOMAIN jobs : i < j => jobs'[j].tries = 0
      BY <2>2 DEF C!DeliveredInOrder
    <3>4. CASE i = n
      BY <3>3, <3>4
    <3>5. CASE i # n
      BY <3>2, <3>5
    <3> QED
      BY <3>4, <3>5
  <2>11. C!InboxOK'
    <3>1. \A k \in DOMAIN inbox : inbox[k] \in DOMAIN jobs /\ inbox[k] # n
                                  /\ jobs'[inbox[k]] = jobs[inbox[k]]
      BY <2>1, <2>2 DEF C!InboxOK
    <3> QED
      BY <1>1, <2>2, <3>1 DEF C!InboxOK, C!Prompt
  <2>12. C!InForce'
    <3> SUFFICES ASSUME NEW i \in C!Known', C!Last(i)', jobs'[i].ran = "done"
                 PROVE  \/ router' = jobs'[i].policy
                        \/ \E j \in C!Known' : j < i /\ jobs'[j].ran = "done"
                                               /\ (jobs'[j].tries > 1 \/ jobs'[j].late)
      BY DEF C!InForce
    <3>1. i \in C!Known /\ C!Last(i) /\ jobs[i].ran = "done" /\ jobs'[i] = jobs[i]
      BY <2>2, <2>3, <2>4, <2>6
    <3> QED
      BY <1>1, <2>3, <2>4, <3>1 DEF C!InForce
  <2>13. C!PolicyTypeOK'
    BY <1>1, <1>2, <1>4, <2>2 DEF C!PolicyTypeOK
  <2> QED
    BY <2>7, <2>8, <2>9, <2>10, <2>11, <2>12, <2>13
<1> QED
  BY <1>7, <1>8

-----------------------------------------------------------------------------
\* Delivery changes neither what commands ask for nor what is wanted.
Delivers ==
  /\ UNCHANGED <<watched, profile, member, own, drafts, told, loose>>
  /\ jobs' \in [DOMAIN jobs -> C!Jobs]
  /\ \A i \in DOMAIN jobs :
       /\ jobs'[i].policy = jobs[i].policy /\ jobs'[i].late = jobs[i].late
       /\ jobs'[i].status = "unborn" <=> jobs[i].status = "unborn"

LEMMA DeliversKeep ==
  ASSUME C!PolicyInv, Delivers
  PROVE  /\ jobs' \in Seq(C!Jobs) /\ DOMAIN jobs' = DOMAIN jobs
         /\ C!Known' = C!Known /\ \A i : C!Last(i)' <=> C!Last(i)
         /\ C!StampsOK' /\ C!FreshOK' /\ C!Asked'
         /\ inbox' \in Seq(Nat) /\ router' \in C!Wishes => C!PolicyTypeOK'
<1> USE JobIndices DEF C!PolicyInv
<1>1. jobs' \in Seq(C!Jobs) /\ DOMAIN jobs' = DOMAIN jobs
  BY DEF Delivers
<1>2. C!Known' = C!Known
  BY <1>1 DEF Delivers, C!Known
<1>3. C!Asked' /\ \A i : C!Last(i)' <=> C!Last(i)
  BY <1>2, SameWish DEF Delivers, C!Known
<1>4. C!StampsOK'
  BY <1>1 DEF Delivers, C!StampsOK
<1>5. C!FreshOK'
  BY <1>2, <1>3, FreshIs DEF Delivers
<1>6. inbox' \in Seq(Nat) /\ router' \in C!Wishes => C!PolicyTypeOK'
  BY <1>1 DEF Delivers, C!PolicyTypeOK
<1> QED
  BY <1>1, <1>2, <1>3, <1>4, <1>5, <1>6

LEMMA ListedFacts ==
  ASSUME C!PolicyTypeOK, NEW list \in C!Listed
  PROVE  /\ list \in Seq(Nat) /\ DOMAIN list = 1..Len(list) /\ Len(list) \in Nat
         /\ \A k \in DOMAIN list : list[k] \in C!Queued
         /\ \A k, l \in DOMAIN list : k < l => list[k] < list[l]
<1>1. IsFiniteSet(C!Queued)
  <2>1. C!Queued \subseteq 1..Len(jobs) /\ IsFiniteSet(1..Len(jobs))
    BY JobIndices, FS_Interval DEF C!Queued
  <2> QED
    BY <2>1, FS_Subset
<1>2. Cardinality(C!Queued) \in Nat /\ C!Cardinality(C!Queued) = Cardinality(C!Queued)
  BY <1>1, FS_CardinalityType DEF C!Cardinality, Cardinality
<1>3. list \in [1..Cardinality(C!Queued) -> C!Queued]
      /\ \A k, l \in DOMAIN list : k < l => list[k] < list[l]
  BY <1>2 DEF C!Listed
<1>4. \A i \in C!Queued : i \in Nat
  BY JobIndices DEF C!Queued
<1> QED
  BY <1>2, <1>3, <1>4

LEMMA SentFacts ==
  ASSUME NEW x \in C!Jobs
  PROVE  /\ C!Sent(x) \in C!Jobs /\ C!Sent(x).late = x.late /\ C!Sent(x).policy = x.policy
         /\ C!Sent(x).ran = x.ran /\ C!Sent(x).tries = x.tries + 1 /\ C!Sent(x).status = "sent"
<1> PICK t : t = x.tries + 1
  OBVIOUS
<1>1. t \in Nat
  BY DEF C!Jobs
<1>2. C!Sent(x) = [x EXCEPT !.status = "sent", !.tries = t]
  BY DEF C!Sent
<1>3. C!Sent(x) = [policy |-> x.policy, tries |-> t, ran |-> x.ran, late |-> x.late,
                   status |-> "sent"]
  BY <1>2 DEF C!Jobs
<1>4. C!Sent(x) \in C!Jobs
  BY <1>1, <1>3 DEF C!Jobs
<1> QED
  BY <1>3, <1>4

LEMMA DeliverKeeps ==
  ASSUME C!PolicyInv, NEW lost \in BOOLEAN, C!Deliver(lost)
  PROVE  C!PolicyInv'
<1> USE JobIndices, JobTypes DEF C!PolicyInv
<1>1. \A i \in DOMAIN jobs :
        /\ jobs'[i] \in C!Jobs
        /\ jobs'[i].late = jobs[i].late /\ jobs'[i].policy = jobs[i].policy
        /\ jobs'[i].ran = jobs[i].ran
        /\ i \in C!Queued => jobs'[i].tries = jobs[i].tries + 1 /\ jobs'[i].status = "sent"
        /\ i \notin C!Queued => jobs'[i] = jobs[i]
  BY SentFacts DEF C!Deliver
<1>2. Delivers /\ router' = router
  BY <1>1 DEF C!Deliver, Delivers, C!Queued
<1>3. DOMAIN jobs' = DOMAIN jobs /\ C!Known' = C!Known /\ \A i : C!Last(i)' <=> C!Last(i)
  BY <1>2, DeliversKeep
<1>4. \A i \in DOMAIN jobs : jobs[i].tries \in Nat /\ jobs'[i].tries \in Nat
                             /\ jobs[i].tries <= jobs'[i].tries
                             /\ (jobs'[i].tries = 0 <=> jobs[i].status = "unborn")
                             /\ (jobs'[i].status = "unborn" <=> jobs[i].status = "unborn")
                             /\ jobs'[i].status # "queued"
  BY <1>1 DEF C!DeliveredInOrder, C!Queued
<1>5. C!DeliveredInOrder'
  BY <1>1, <1>3, <1>4 DEF C!DeliveredInOrder
<1>6. C!InForce'
  <2> SUFFICES ASSUME NEW i \in C!Known', C!Last(i)', jobs'[i].ran = "done"
               PROVE  \/ router' = jobs'[i].policy
                      \/ \E j \in C!Known' : j < i /\ jobs'[j].ran = "done"
                                             /\ (jobs'[j].tries > 1 \/ jobs'[j].late)
    BY DEF C!InForce
  <2>1. \A j \in C!Known : j \in DOMAIN jobs
    BY DEF C!Known
  <2>2. /\ i \in C!Known /\ C!Last(i) /\ jobs[i].ran = "done" /\ jobs'[i].policy = jobs[i].policy
        /\ \A j \in C!Known : /\ jobs'[j].ran = jobs[j].ran /\ jobs'[j].late = jobs[j].late
                              /\ jobs[j].tries > 1 => jobs'[j].tries > 1
    BY <1>1, <1>3, <1>4, <2>1
  <2> QED
    BY <1>2, <1>3, <2>2 DEF C!InForce
<1> DEFINE Now(i) == jobs'[i].tries = 1 /\ ~jobs'[i].late
<1>7. /\ \A k \in DOMAIN inbox : Now(inbox[k]) => C!Prompt(inbox[k])
      /\ \A i \in C!Queued : Now(i) => jobs[i].tries = 0 /\ ~jobs[i].late
  BY <1>1, <1>4 DEF C!InboxOK, C!Queued, C!Prompt
<1>8. CASE inbox' = inbox
  <2>0. /\ \A k \in DOMAIN inbox : inbox[k] \in DOMAIN jobs /\ jobs'[inbox[k]].tries > 0
        /\ \A k, l \in DOMAIN inbox :
             k < l /\ Now(inbox[l]) => inbox[k] < inbox[l]
    BY <1>1, <1>7, <1>4 DEF C!InboxOK
  <2>3. \A k \in DOMAIN inbox : Now(inbox[k]) =>
          \A j \in DOMAIN jobs : inbox[k] <= j => jobs'[j].ran = "no"
    BY <1>1, <1>7 DEF C!InboxOK
  <2>1. C!InboxOK'
    BY <1>3, <1>8, <2>0, <2>3 DEF C!InboxOK, C!Prompt
  <2>2. C!PolicyTypeOK'
    BY <1>2, <1>8, DeliversKeep DEF C!PolicyTypeOK
  <2> QED
    BY <1>2, <1>5, <1>6, <2>1, <2>2, DeliversKeep
<1>9. ASSUME NEW list \in C!Listed, inbox' = inbox \o list PROVE C!PolicyInv'
  <2>1. /\ list \in Seq(Nat) /\ DOMAIN list = 1..Len(list) /\ Len(list) \in Nat
        /\ \A k \in DOMAIN list : list[k] \in C!Queued
        /\ \A k, l \in DOMAIN list : k < l => list[k] < list[l]
    BY ListedFacts
  <2> PICK m : m = Len(inbox)
    OBVIOUS
  <2>2. /\ inbox' \in Seq(Nat) /\ DOMAIN inbox' = 1..(m + Len(list)) /\ m \in Nat
        /\ \A k \in DOMAIN inbox : inbox'[k] = inbox[k]
        /\ \A k \in DOMAIN inbox' : k <= m => k \in DOMAIN inbox
        /\ \A k \in DOMAIN inbox' :
             k > m => k - m \in DOMAIN list /\ inbox'[k] = list[k - m]
    BY <1>9, <2>1 DEF C!PolicyTypeOK
  <2>3. \A k \in DOMAIN inbox' : inbox'[k] \in DOMAIN jobs /\ k \in Nat
    <3>1. \A k \in DOMAIN inbox : inbox[k] \in DOMAIN jobs
      BY DEF C!InboxOK
    <3>2. \A k \in DOMAIN list : list[k] \in DOMAIN jobs
      BY <2>1 DEF C!Queued
    <3> SUFFICES ASSUME NEW k \in DOMAIN inbox' PROVE inbox'[k] \in DOMAIN jobs /\ k \in Nat
      OBVIOUS
    <3>3. k \in Nat
      BY <2>2
    <3>4. CASE k <= m
      BY <2>2, <3>1, <3>3, <3>4
    <3>5. CASE k > m
      BY <2>2, <3>2, <3>3, <3>5
    <3> QED
      BY <2>2, <3>3, <3>4, <3>5
  <2>4. ASSUME NEW k \in DOMAIN inbox', NEW l \in DOMAIN inbox', k < l, Now(inbox'[l])
        PROVE  inbox'[k] < inbox'[l]
    <3>1. CASE l <= m
      <4>1. k \in DOMAIN inbox /\ l \in DOMAIN inbox
        BY <2>2, <2>3, <2>4, <3>1
      <4>2. C!Prompt(inbox[l]) /\ inbox'[l] = inbox[l] /\ inbox'[k] = inbox[k]
        BY <1>7, <2>2, <2>4, <4>1
      <4> QED
        BY <2>4, <4>1, <4>2 DEF C!InboxOK
    <3>2. CASE l > m /\ k > m
      BY <2>1, <2>2, <2>3, <2>4, <3>2
    <3>3. CASE l > m /\ k <= m
      <4>1. inbox'[l] \in C!Queued /\ jobs[inbox'[l]].tries = 0 /\ ~jobs[inbox'[l]].late
        BY <1>7, <2>1, <2>2, <2>4, <3>3
      <4>2. inbox'[k] \in DOMAIN jobs /\ jobs[inbox'[k]].tries > 0
        BY <2>2, <3>3 DEF C!InboxOK
      <4>3. ~(inbox'[l] < inbox'[k]) /\ inbox'[l] # inbox'[k]
        BY <2>3, <4>1, <4>2 DEF C!DeliveredInOrder, C!Queued
      <4> QED
        BY <2>3, <4>3
    <3> QED
      BY <2>2, <2>3, <3>1, <3>2, <3>3
  <2>5. ASSUME NEW k \in DOMAIN inbox', Now(inbox'[k]),
               NEW j \in DOMAIN jobs, inbox'[k] <= j
        PROVE  jobs'[j].ran = "no"
    <3>1. CASE k <= m
      <4>1. k \in DOMAIN inbox /\ inbox'[k] = inbox[k]
        BY <2>2, <3>1
      <4>2. C!Prompt(inbox[k])
        BY <1>7, <2>5, <4>1
      <4>3. jobs[j].ran = "no"
        BY <2>5, <4>1, <4>2 DEF C!InboxOK
      <4> QED
        BY <1>1, <4>3
    <3>2. CASE k > m
      <4>1. inbox'[k] \in C!Queued /\ jobs[inbox'[k]].tries = 0 /\ ~jobs[inbox'[k]].late
        BY <1>7, <2>1, <2>2, <2>5, <3>2
      <4>2. jobs[j].tries = 0
        BY <2>3, <2>5, <4>1 DEF C!DeliveredInOrder, C!Queued
      <4> QED
        BY <1>1, <4>2 DEF C!DeliveredInOrder
    <3> QED
      BY <2>2, <2>3, <3>1, <3>2
  <2>6. C!InboxOK'
    <3>1. \A k \in DOMAIN inbox' : jobs'[inbox'[k]].tries > 0
      <4>1. \A k \in DOMAIN inbox' : jobs[inbox'[k]].status # "unborn"
        <5>1. \A k \in DOMAIN inbox : inbox[k] \in DOMAIN jobs /\ jobs[inbox[k]].status # "unborn"
          BY DEF C!InboxOK, C!DeliveredInOrder
        <5>2. \A k \in DOMAIN list : jobs[list[k]].status # "unborn"
          BY <2>1 DEF C!Queued
        <5> SUFFICES ASSUME NEW k \in DOMAIN inbox' PROVE jobs[inbox'[k]].status # "unborn"
          OBVIOUS
        <5>3. CASE k <= m
          BY <2>2, <5>1, <5>3
        <5>4. CASE k > m
          BY <2>2, <5>2, <5>4
        <5> QED
          BY <2>2, <2>3, <5>3, <5>4
      <4> QED
        BY <1>4, <2>3, <4>1
    <3> QED
      BY <1>3, <2>3, <2>4, <2>5, <3>1 DEF C!InboxOK, C!Prompt
  <2>7. C!PolicyTypeOK'
    BY <1>2, <2>2, DeliversKeep DEF C!PolicyTypeOK
  <2> QED
    BY <1>2, <1>5, <1>6, <2>6, <2>7, DeliversKeep
<1> QED
  BY <1>8, <1>9 DEF C!Deliver

\* Another status of a command that was delivered.
LEMMA StatusKeeps ==
  ASSUME C!PolicyInv, NEW i \in DOMAIN jobs,
         NEW status1 \in {"queued", "running", "success", "failed"},
         jobs[i].tries > 0, status1 = "success" => jobs[i].ran = "done",
         jobs' = [jobs EXCEPT ![i].status = status1],
         UNCHANGED <<watched, profile, member, own, drafts, inbox, router, told, loose>>
  PROVE  C!PolicyInv'
<1> USE JobIndices, JobTypes DEF C!PolicyInv
<1>1. \A j \in DOMAIN jobs :
        /\ jobs'[j] \in C!Jobs /\ jobs'[j].late = jobs[j].late
        /\ jobs'[j].policy = jobs[j].policy /\ jobs'[j].ran = jobs[j].ran
        /\ jobs'[j].tries = jobs[j].tries
        /\ jobs'[j].status = IF j = i THEN status1 ELSE jobs[j].status
  BY DEF C!Jobs
<1>2. Delivers
  <2>1. jobs[i].status # "unborn" /\ status1 # "unborn"
    BY DEF C!DeliveredInOrder
  <2> QED
    BY <1>1, <2>1 DEF Delivers
<1>3. DOMAIN jobs' = DOMAIN jobs /\ C!Known' = C!Known /\ \A j : C!Last(j)' <=> C!Last(j)
  BY <1>2, DeliversKeep
<1>4. C!DeliveredInOrder'
  BY <1>1, <1>3 DEF C!DeliveredInOrder
<1>5. C!InboxOK'
  BY <1>1, <1>3 DEF C!InboxOK, C!Prompt
<1>6. C!InForce'
  BY <1>1, <1>3 DEF C!InForce, C!Known
<1>7. C!PolicyTypeOK'
  BY <1>2, DeliversKeep DEF C!PolicyTypeOK
<1> QED
  BY <1>2, <1>4, <1>5, <1>6, <1>7, DeliversKeep

LEMMA LeaseAndAnswer ==
  ASSUME C!PolicyInv, NEW i \in DOMAIN jobs, C!LeaseOver(i) \/ C!Answer(i)
  PROVE  C!PolicyInv'
<1>1. jobs[i].tries > 0
  BY JobIndices, JobTypes DEF C!PolicyInv, C!DeliveredInOrder, C!LeaseOver, C!Answer
<1>2. CASE C!LeaseOver(i)
  BY <1>1, <1>2, StatusKeeps DEF C!LeaseOver
<1>3. CASE C!Answer(i)
  BY <1>1, <1>3, StatusKeeps DEF C!Answer
<1> QED
  BY <1>2, <1>3

LEMMA RanFacts ==
  ASSUME NEW x \in C!Jobs, NEW works \in BOOLEAN
  PROVE  /\ C!Ran(x, works) \in C!Jobs
         /\ C!Ran(x, works).late = x.late /\ C!Ran(x, works).policy = x.policy
         /\ C!Ran(x, works).tries = x.tries
         /\ C!Ran(x, works).ran = IF works THEN "done" ELSE "failed"
         /\ C!Ran(x, works).status = IF x.status = "sent" THEN "running" ELSE x.status
<1> PICK t : t = IF works THEN "done" ELSE "failed"
  OBVIOUS
<1> PICK u : u = IF x.status = "sent" THEN "running" ELSE x.status
  OBVIOUS
<1>1. C!Ran(x, works) = [x EXCEPT !.ran = t, !.status = u]
  BY DEF C!Ran
<1>2. C!Ran(x, works) = [policy |-> x.policy, tries |-> x.tries, ran |-> t, late |-> x.late,
                         status |-> u]
  BY <1>1 DEF C!Jobs
<1>3. C!Ran(x, works) \in C!Jobs
  BY <1>2 DEF C!Jobs
<1> QED
  BY <1>2, <1>3

LEMMA RunKeeps ==
  ASSUME C!PolicyInv, NEW works \in BOOLEAN, C!Run(works)
  PROVE  C!PolicyInv'
<1> USE JobIndices, JobTypes DEF C!PolicyInv
<1> PICK i : i = Head(inbox)
  OBVIOUS
<1>1. /\ i = inbox[1] /\ 1 \in DOMAIN inbox /\ i \in DOMAIN jobs
      /\ inbox' \in Seq(Nat)
      /\ \A k \in DOMAIN inbox' : k \in Nat /\ k + 1 \in DOMAIN inbox /\ inbox'[k] = inbox[k + 1]
  <2>1. inbox \in Seq(Nat) /\ inbox # <<>> /\ inbox' = Tail(inbox)
    BY DEF C!Run, C!PolicyTypeOK
  <2>2. i = inbox[1] /\ 1 \in DOMAIN inbox
    BY <2>1
  <2>3. inbox' \in Seq(Nat) /\ Len(inbox') = Len(inbox) - 1 /\ DOMAIN inbox' = 1..(Len(inbox) - 1)
    BY <2>1
  <2>4. \A k \in 1..(Len(inbox) - 1) : inbox'[k] = inbox[k + 1] /\ k + 1 \in DOMAIN inbox
    BY <2>1
  <2>5. i \in DOMAIN jobs
    BY <2>2 DEF C!InboxOK
  <2> QED
    BY <2>2, <2>3, <2>4, <2>5
<1>2. /\ \A k \in DOMAIN inbox' : inbox'[k] \in DOMAIN jobs /\ jobs[inbox'[k]].tries > 0
      /\ \A k, l \in DOMAIN inbox' :
           k < l /\ C!Prompt(inbox'[l]) => inbox'[k] < inbox'[l]
      /\ \A k \in DOMAIN inbox' : C!Prompt(inbox'[k]) =>
           /\ i < inbox'[k]
           /\ \A j \in DOMAIN jobs : inbox'[k] <= j => jobs[j].ran = "no"
  <2>1. \A k \in DOMAIN inbox' : inbox'[k] \in DOMAIN jobs /\ jobs[inbox'[k]].tries > 0
    BY <1>1 DEF C!InboxOK
  <2>2. ASSUME NEW k \in DOMAIN inbox', NEW l \in DOMAIN inbox', k < l, C!Prompt(inbox'[l])
        PROVE  inbox'[k] < inbox'[l]
    <3>1. k + 1 < l + 1
      BY <1>1, <2>2
    <3> QED
      <4>1. \A a, b \in DOMAIN inbox :
              a < b /\ C!Prompt(inbox[b]) => inbox[a] < inbox[b]
        BY DEF C!InboxOK
      <4>2. /\ k + 1 \in DOMAIN inbox /\ inbox'[k] = inbox[k + 1]
            /\ l + 1 \in DOMAIN inbox /\ inbox'[l] = inbox[l + 1]
        BY <1>1
      <4> QED
        BY <2>2, <3>1, <4>1, <4>2
  <2>3. ASSUME NEW k \in DOMAIN inbox', C!Prompt(inbox'[k])
        PROVE  /\ i < inbox'[k]
               /\ \A j \in DOMAIN jobs : inbox'[k] <= j => jobs[j].ran = "no"
    <3>1. 1 < k + 1 /\ C!Prompt(inbox[k + 1])
      BY <1>1, <2>3
    <3> QED
      BY <1>1, <2>3, <3>1 DEF C!InboxOK
  <2> QED
    BY <2>1, <2>2, <2>3
<1>3. CASE jobs' = jobs /\ router' = router
  <2>1. Delivers
    BY <1>3 DEF C!Run, Delivers, C!PolicyTypeOK
  <2>2. C!Known' = C!Known /\ \A j : C!Last(j)' <=> C!Last(j)
    BY <2>1, DeliversKeep
  <2>3. C!DeliveredInOrder' /\ C!InForce'
    BY <1>3, <2>2 DEF C!DeliveredInOrder, C!InForce
  <2>4. C!InboxOK'
    BY <1>2, <1>3 DEF C!InboxOK, C!Prompt
  <2>5. C!PolicyTypeOK'
    BY <1>1, <1>3, <2>1, DeliversKeep DEF C!PolicyTypeOK
  <2> QED
    BY <2>1, <2>3, <2>4, <2>5, DeliversKeep
<1>4. CASE /\ jobs[i].ran = "no" /\ jobs[i].status # "queued"
           /\ jobs' = [jobs EXCEPT ![i] = C!Ran(@, works)]
           /\ router' = IF works THEN jobs[i].policy ELSE router
  <2>1. /\ jobs'[i] \in C!Jobs
        /\ jobs'[i].late = jobs[i].late /\ jobs'[i].policy = jobs[i].policy
        /\ jobs'[i].tries = jobs[i].tries
        /\ jobs'[i].status = "unborn" <=> jobs[i].status = "unborn"
        /\ jobs'[i].status = "queued" <=> jobs[i].status = "queued"
        /\ jobs'[i].ran = IF works THEN "done" ELSE "failed"
        /\ jobs'[i].status = "success" <=> jobs[i].status = "success"
        /\ \A j \in DOMAIN jobs : j # i => jobs'[j] = jobs[j]
    BY <1>1, <1>4, RanFacts
  <2>2. Delivers
    BY <1>1, <1>4, <2>1 DEF C!Run, Delivers
  <2>3. /\ DOMAIN jobs' = DOMAIN jobs /\ C!Known' = C!Known
        /\ \A j : C!Last(j)' <=> C!Last(j)
    BY <2>2, DeliversKeep
  <2>4. jobs[i].tries > 0 /\ jobs[i].status \notin {"success", "unborn"}
    BY <1>1, <1>4 DEF C!DeliveredInOrder, C!InboxOK
  <2>5. C!DeliveredInOrder'
    <3> SUFFICES ASSUME NEW j \in DOMAIN jobs
                 PROVE  /\ jobs'[j].status = "success" => jobs'[j].ran = "done"
                        /\ jobs'[j].status = "unborn" => jobs'[j].tries = 0 /\ ~jobs'[j].late
                        /\ jobs'[j].tries = 0 =>
                             jobs'[j].status \in {"unborn", "queued"} /\ jobs'[j].ran = "no"
                        /\ jobs'[j].tries = 0 /\ jobs'[j].status = "queued" /\ ~jobs'[j].late =>
                             \A l \in DOMAIN jobs : j < l => jobs'[l].tries = 0
      BY <2>3 DEF C!DeliveredInOrder
    <3>1. \A l \in DOMAIN jobs : jobs'[l].tries = jobs[l].tries
      BY <2>1
    <3>2. CASE j = i
      BY <2>1, <2>4, <3>2
    <3>3. CASE j # i
      BY <2>1, <3>1, <3>3 DEF C!DeliveredInOrder
    <3> QED
      BY <3>2, <3>3
  <2>6. C!InboxOK'
    <3>1. \A j \in DOMAIN jobs : jobs'[j].tries = jobs[j].tries /\ jobs'[j].late = jobs[j].late
      BY <2>1
    <3>2. \A k \in DOMAIN inbox' : inbox'[k] \in DOMAIN jobs
      BY <1>2
    <3>3. \A k \in DOMAIN inbox' : jobs'[inbox'[k]].tries = 1 /\ ~jobs'[inbox'[k]].late =>
            \A j \in DOMAIN jobs : inbox'[k] <= j => jobs'[j].ran = "no"
      <4> SUFFICES ASSUME NEW k \in DOMAIN inbox', jobs'[inbox'[k]].tries = 1,
                          ~jobs'[inbox'[k]].late,
                          NEW j \in DOMAIN jobs, inbox'[k] <= j
                   PROVE  jobs'[j].ran = "no"
        OBVIOUS
      <4>1. i < inbox'[k] /\ jobs[j].ran = "no"
        BY <1>2, <3>1, <3>2 DEF C!Prompt
      <4>2. j # i
        BY <1>1, <3>2, <4>1
      <4> QED
        BY <2>1, <4>1, <4>2
    <3> QED
      BY <1>2, <2>3, <3>1, <3>2, <3>3 DEF C!InboxOK, C!Prompt
  <2>7. /\ router' \in C!Wishes
        /\ works => router' = jobs[i].policy
        /\ ~works => router' = router
    BY <1>1, <1>4 DEF C!PolicyTypeOK
  <2>8. C!InForce'
    <3> SUFFICES ASSUME NEW n \in C!Known, C!Last(n), jobs'[n].ran = "done"
                 PROVE  \/ router' = jobs'[n].policy
                        \/ \E j \in C!Known : j < n /\ jobs'[j].ran = "done"
                                              /\ (jobs'[j].tries > 1 \/ jobs'[j].late)
      BY <2>3 DEF C!InForce
    <3>1. \A j \in C!Known : j \in DOMAIN jobs /\ j <= n /\ j \in Nat /\ n \in Nat
      BY DEF C!Known, C!Last
    <3>2. CASE n = i
      BY <2>1, <2>7, <3>1, <3>2
    <3>3. CASE n # i
      <4>1. jobs[n].ran = "done" /\ jobs'[n].policy = jobs[n].policy
        BY <2>1, <3>1, <3>3
      <4>2. CASE works
        <5>1. i \in C!Known /\ i < n
          BY <1>1, <2>4, <3>1, <3>3 DEF C!Known
        <5>2. ~C!Prompt(i)
          <6>1. C!Prompt(inbox[1]) => \A j \in DOMAIN jobs : inbox[1] <= j => jobs[j].ran = "no"
            BY <1>1 DEF C!InboxOK
          <6>2. i = inbox[1] /\ i <= n /\ n \in DOMAIN jobs
            BY <1>1, <3>1, <5>1
          <6> QED
            BY <4>1, <6>1, <6>2
        <5> QED
          BY <1>1, <2>1, <2>4, <4>2, <5>1, <5>2 DEF C!Prompt
      <4>3. CASE ~works
        <5>1. router' = router
          BY <2>7, <4>3
        <5>2. \A j \in C!Known : jobs[j].ran = "done" => jobs'[j] = jobs[j]
          BY <1>4, <2>1, <3>1
        <5> QED
          BY <4>1, <5>1, <5>2 DEF C!InForce
      <4> QED
        BY <4>2, <4>3
    <3> QED
      BY <3>2, <3>3
  <2>9. C!PolicyTypeOK'
    BY <1>1, <2>2, <2>7, DeliversKeep DEF C!PolicyTypeOK
  <2> QED
    BY <2>2, <2>5, <2>6, <2>8, <2>9, DeliversKeep
<1> QED
  BY <1>3, <1>4 DEF C!Run

LEMMA PolicyStep == C!PolicyInv /\ [C!PolicyNext]_policies => C!PolicyInv'
<1> SUFFICES ASSUME C!PolicyInv, [C!PolicyNext]_policies PROVE C!PolicyInv'
  OBVIOUS
<1>1. ASSUME NEW r \in Requesters, NEW s \in C!Settings, C!BeginConfigure(r, s) \/ C!BeginPatch(r, s)
      PROVE  C!PolicyInv'
  BY <1>1, ConfigureKeeps
<1>2. ASSUME NEW r \in Requesters, C!BeginApply(r) \/ \E given \in BOOLEAN : C!BeginSetWifi(r, given)
      PROVE  C!PolicyInv'
  BY <1>2, AskKeeps
<1>3. ASSUME NEW r \in Requesters,
             C!BeginDeleteProfile(r) \/ \E p \in Policies : C!BeginUpdateProfile(r, p)
      PROVE  C!PolicyInv'
  BY <1>3, ProfileKeeps
<1>4. ASSUME NEW r \in Requesters, C!Stamp(r) \/ C!Commit(r) \/ C!Refuse(r) PROVE C!PolicyInv'
  BY <1>4, StampKeeps, CommitKeeps, RefuseKeeps
<1>5. CASE C!Forget \/ C!Telemetry \/ UNCHANGED policies
  BY <1>5, ForgetKeeps, TelemetryKeeps
<1> QED
  BY <1>1, <1>2, <1>3, <1>4, <1>5, DeliverKeeps, LeaseAndAnswer, RunKeeps DEF C!PolicyNext

\* The newest command is the one that the invariant calls the last.
LEMMA NewestIsLast ==
  ASSUME C!PolicyInv, C!Known # {}
  PROVE  C!Newest \in C!Known /\ C!Last(C!Newest)
<1> PICK i \in C!Known : \A j \in C!Known : j <= i
  BY DEF C!PolicyInv, C!FreshOK, C!Last
<1> QED
  BY DEF C!Newest, C!Last

LEMMA AppliedFollows == C!PolicyInv => C!AppliedIsInForce
<1> SUFFICES ASSUME C!PolicyInv, C!Application = "applied",
                    ~(\E i \in C!Known : C!Overtakes(i))
             PROVE  router = C!Effective(member, own, profile)
  BY DEF C!AppliedIsInForce
<1> PICK n : n = C!Newest
  OBVIOUS
<1>1. /\ C!Known # {} /\ jobs[n].status = "success"
      /\ jobs[n].policy = C!Effective(member, own, profile)
  BY DEF C!Application
<1>2. n \in C!Known /\ C!Last(n)
  BY <1>1, NewestIsLast
<1>3. n \in DOMAIN jobs /\ jobs[n].ran = "done"
  BY <1>1, <1>2 DEF C!Known, C!PolicyInv, C!DeliveredInOrder
<1>4. ~(\E j \in C!Known : j < n /\ jobs[j].ran = "done" /\ (jobs[j].tries > 1 \/ jobs[j].late))
  BY DEF C!Overtakes
<1> QED
  BY <1>1, <1>2, <1>3, <1>4 DEF C!PolicyInv, C!InForce

LEMMA WantedFollows == C!PolicyInv => C!WantedIsAsked
<1> SUFFICES ASSUME C!PolicyInv PROVE C!WantedIsAsked
  OBVIOUS
<1>1. C!Known # {} => C!Newest \in C!Known /\ C!Last(C!Newest)
  BY NewestIsLast
<1>2. watched = "client" \/ watched = "wifi"
  BY DEF C!PolicyInv, C!PolicyTypeOK, C!Targets
<1> QED
  BY <1>1, <1>2 DEF C!WantedIsAsked, C!PolicyInv, C!Asked

\* The part of the policies is at work, or rests for good.
LEMMA PoliciesAtWork == MCSpec => [](part = "policies" => C!PolicyInv)
<1> DEFINE Inv == part = "policies" => C!PolicyInv
<1>1. MCInit => Inv
  BY PolicyBase DEF MCInit
<1>2. Inv /\ [MCNext]_<<part, vars, two, certification, commands, policies>> => Inv'
  <2> SUFFICES ASSUME Inv, [MCNext]_<<part, vars, two, certification, commands, policies>>,
                      part' = "policies"
               PROVE  C!PolicyInv'
    OBVIOUS
  <2>1. part = "policies" /\ [C!PolicyNext]_policies
    BY DEF MCNext
  <2> QED
    BY <2>1, PolicyStep
<1> QED
  BY <1>1, <1>2, PTL DEF MCSpec

\* What the page shows as applied is in force on the router, however many requests
\* are served at once, unless an older command has run after the newest: one whose
\* delivery was lost and repeated, or that was created first and committed last
\* (client_policy_application, create_device_command, poll_commands).
THEOREM PolicyAppliedIsInForce == MCSpec => []AppliedIsInForce
<1>1. (part = "policies" => C!PolicyInv) => AppliedIsInForce
  BY AppliedFollows DEF AppliedIsInForce
<1> QED
  BY <1>1, PoliciesAtWork, PTL

\* The newest command asks for what is wanted now, however many requests are served
\* at once, as long as no other request commits between the reading and the commit
\* of the one that queued it, and no later change goes without a command
\* (configure_client, apply_policy, queue_profile_commands; _update_client_record
\* writes only the columns that changed, so requests that do race leave a mix).
THEOREM PolicyWantedIsAsked == MCSpec => []WantedIsAsked
<1>1. (part = "policies" => C!PolicyInv) => WantedIsAsked
  BY WantedFollows DEF WantedIsAsked
<1> QED
  BY <1>1, PoliciesAtWork, PTL
-----------------------------------------------------------------------------
(* The certification of a router (Certification, as H). *)

\* The commands of the contract, in their order.
LEMMA ContractFacts ==
  /\ H!Contract = {"agent.update", "agent.rotate_token", "system.set_ntp", "agent.disconnect"}
  /\ Len(H!Order) = 4
  /\ \A n \in 1..4 : H!Order[n] \in H!Contract
BY DEF H!Contract, H!Order, H!ToSet

LEMMA ConfigurationFields ==
  ASSUME NEW k \in H!Configurations
  PROVE  /\ k.settings \in {"found", "changed"} /\ k.token \in Nat /\ k.enabled \in BOOLEAN
         /\ k.source \in {"release", "candidate"}
BY DEF H!Configurations

LEMMA RouterFields ==
  ASSUME NEW r \in H!Routers
  PROVE  r.kept \in H!Configurations /\ r.agent \in 1..MaxBuild
BY DEF H!Routers

\* One field of the configuration is written.
ConfigurationIs(k, settings, number, enabled, source) ==
  /\ k \in H!Configurations
  /\ k.settings = settings /\ k.token = number /\ k.enabled = enabled /\ k.source = source

LEMMA ConfigurationWritten ==
  ASSUME NEW k \in H!Configurations
  PROVE  /\ \A v \in Nat :
              ConfigurationIs([k EXCEPT !.token = v], k.settings, v, k.enabled, k.source)
         /\ \A v \in {"found", "changed"} :
              ConfigurationIs([k EXCEPT !.settings = v], v, k.token, k.enabled, k.source)
         /\ \A v \in BOOLEAN :
              ConfigurationIs([k EXCEPT !.enabled = v], k.settings, k.token, v, k.source)
         /\ \A v \in {"release", "candidate"} :
              ConfigurationIs([k EXCEPT !.source = v], k.settings, k.token, k.enabled, v)
BY DEF H!Configurations, ConfigurationIs

LEMMA RouterWritten ==
  ASSUME NEW r \in H!Routers
  PROVE  /\ \A v \in 1..MaxBuild :
              /\ [r EXCEPT !.agent = v] \in H!Routers
              /\ [r EXCEPT !.agent = v].kept = r.kept /\ [r EXCEPT !.agent = v].agent = v
         /\ \A k \in H!Configurations :
              /\ [r EXCEPT !.kept = k] \in H!Routers
              /\ [r EXCEPT !.kept = k].kept = k /\ [r EXCEPT !.kept = k].agent = r.agent
BY DEF H!Routers

LEMMA RouterNested ==
  ASSUME NEW r \in H!Routers
  PROVE  /\ \A v : [r EXCEPT !.kept.token = v] = [r EXCEPT !.kept = [r.kept EXCEPT !.token = v]]
         /\ \A v : [r EXCEPT !.kept.settings = v] = [r EXCEPT !.kept = [r.kept EXCEPT !.settings = v]]
         /\ \A v : [r EXCEPT !.kept.enabled = v] = [r EXCEPT !.kept = [r.kept EXCEPT !.enabled = v]]
         /\ \A v : [r EXCEPT !.kept.source = v] = [r EXCEPT !.kept = [r.kept EXCEPT !.source = v]]
         /\ \A v : [r EXCEPT !.kept.token = v, !.kept.enabled = TRUE] = 
             [r EXCEPT !.kept = [[r.kept EXCEPT !.token = v] EXCEPT !.enabled = TRUE]]
BY DEF H!Routers

LEMMA RunFields ==
  ASSUME NEW r \in H!Certifications
  PROVE  /\ r.step \in H!Steps /\ r.next \in 1..5 /\ r.next \in Nat
         /\ r.selected \in Selections \cup {{}} /\ r.resume \in BOOLEAN
         /\ r.start \in H!Configurations /\ r.baseline \in H!Configurations
         /\ r.source \in {"release", "candidate"} /\ r.identity \in Nat
BY ContractFacts DEF H!Certifications

\* One field of what the router keeps is written.
LEMMA WriteToken ==
  ASSUME NEW r \in H!Routers, NEW v \in Nat
  PROVE  /\ [r EXCEPT !.kept.token = v] \in H!Routers
         /\ [r EXCEPT !.kept.token = v].agent = r.agent
         /\ [r EXCEPT !.kept.token = v].kept.token = v
<1> PICK k : k = [r.kept EXCEPT !.token = v]
  OBVIOUS
<1>0. r.kept \in H!Configurations
  BY RouterFields
<1>1. k \in H!Configurations /\ k.token = v
  BY <1>0 DEF H!Configurations
<1>2. [r EXCEPT !.kept.token = v] = [r EXCEPT !.kept = k]
  BY RouterNested
<1> QED
  BY <1>1, <1>2, RouterWritten

LEMMA WriteSettings ==
  ASSUME NEW r \in H!Routers, NEW v \in {"found", "changed"}
  PROVE  /\ [r EXCEPT !.kept.settings = v] \in H!Routers
         /\ [r EXCEPT !.kept.settings = v].agent = r.agent
         /\ [r EXCEPT !.kept.settings = v].kept.token = r.kept.token
<1> PICK k : k = [r.kept EXCEPT !.settings = v]
  OBVIOUS
<1>0. r.kept \in H!Configurations
  BY RouterFields
<1>1. k \in H!Configurations /\ k.token = r.kept.token
  BY <1>0 DEF H!Configurations
<1>2. [r EXCEPT !.kept.settings = v] = [r EXCEPT !.kept = k]
  BY RouterNested
<1> QED
  BY <1>1, <1>2, RouterWritten

LEMMA WriteEnabled ==
  ASSUME NEW r \in H!Routers, NEW v \in BOOLEAN
  PROVE  /\ [r EXCEPT !.kept.enabled = v] \in H!Routers
         /\ [r EXCEPT !.kept.enabled = v].agent = r.agent
         /\ [r EXCEPT !.kept.enabled = v].kept.token = r.kept.token
<1> PICK k : k = [r.kept EXCEPT !.enabled = v]
  OBVIOUS
<1>0. r.kept \in H!Configurations
  BY RouterFields
<1>1. k \in H!Configurations /\ k.token = r.kept.token
  BY <1>0 DEF H!Configurations
<1>2. [r EXCEPT !.kept.enabled = v] = [r EXCEPT !.kept = k]
  BY RouterNested
<1> QED
  BY <1>1, <1>2, RouterWritten

LEMMA WriteSource ==
  ASSUME NEW r \in H!Routers, NEW v \in {"release", "candidate"}
  PROVE  /\ [r EXCEPT !.kept.source = v] \in H!Routers
         /\ [r EXCEPT !.kept.source = v].agent = r.agent
         /\ [r EXCEPT !.kept.source = v].kept.token = r.kept.token
<1> PICK k : k = [r.kept EXCEPT !.source = v]
  OBVIOUS
<1>0. r.kept \in H!Configurations
  BY RouterFields
<1>1. k \in H!Configurations /\ k.token = r.kept.token
  BY <1>0 DEF H!Configurations
<1>2. [r EXCEPT !.kept.source = v] = [r EXCEPT !.kept = k]
  BY RouterNested
<1> QED
  BY <1>1, <1>2, RouterWritten

\* The fields of a run that the steps write.
LEMMA RunStep ==
  ASSUME NEW r \in H!Certifications, NEW s
  PROVE  [r EXCEPT !.step = s] =
              [step |-> s, next |-> r.next, selected |-> r.selected, resume |-> r.resume,
               start |-> r.start, baseline |-> r.baseline, source |-> r.source, identity |-> r.identity]
BY DEF H!Certifications

LEMMA RunAdvance ==
  ASSUME NEW r \in H!Certifications, NEW s, NEW v
  PROVE  [r EXCEPT !.step = s, !.next = v] =
              [step |-> s, next |-> v, selected |-> r.selected, resume |-> r.resume,
               start |-> r.start, baseline |-> r.baseline, source |-> r.source, identity |-> r.identity]
<1> PICK x1 : x1 = [r EXCEPT !.step = s]
  OBVIOUS
<1>1. x1 = [step |-> s, next |-> r.next, selected |-> r.selected, resume |-> r.resume,
               start |-> r.start, baseline |-> r.baseline, source |-> r.source, identity |-> r.identity]
  BY DEF H!Certifications
<1> PICK x2 : x2 = [x1 EXCEPT !.next = v]
  OBVIOUS
<1>2. x2 = [step |-> s, next |-> v, selected |-> r.selected, resume |-> r.resume,
               start |-> r.start, baseline |-> r.baseline, source |-> r.source, identity |-> r.identity]
  BY <1>1
<1>3. [r EXCEPT !.step = s, !.next = v] = x2
  OBVIOUS
<1> QED
  BY <1>2, <1>3

LEMMA RunNext ==
  ASSUME NEW r \in H!Certifications, NEW v
  PROVE  [r EXCEPT !.next = v] =
              [step |-> r.step, next |-> v, selected |-> r.selected, resume |-> r.resume,
               start |-> r.start, baseline |-> r.baseline, source |-> r.source, identity |-> r.identity]
BY DEF H!Certifications

LEMMA RunBaseline ==
  ASSUME NEW r \in H!Certifications, NEW s, NEW v
  PROVE  [r EXCEPT !.step = s, !.baseline = v] =
              [step |-> s, next |-> r.next, selected |-> r.selected, resume |-> r.resume,
               start |-> r.start, baseline |-> v, source |-> r.source, identity |-> r.identity]
<1> PICK x1 : x1 = [r EXCEPT !.step = s]
  OBVIOUS
<1>1. x1 = [step |-> s, next |-> r.next, selected |-> r.selected, resume |-> r.resume,
               start |-> r.start, baseline |-> r.baseline, source |-> r.source, identity |-> r.identity]
  BY DEF H!Certifications
<1> PICK x2 : x2 = [x1 EXCEPT !.baseline = v]
  OBVIOUS
<1>2. x2 = [step |-> s, next |-> r.next, selected |-> r.selected, resume |-> r.resume,
               start |-> r.start, baseline |-> v, source |-> r.source, identity |-> r.identity]
  BY <1>1
<1>3. [r EXCEPT !.step = s, !.baseline = v] = x2
  OBVIOUS
<1> QED
  BY <1>2, <1>3

LEMMA RunSource ==
  ASSUME NEW r \in H!Certifications, NEW s, NEW v
  PROVE  [r EXCEPT !.step = s, !.source = v] =
              [step |-> s, next |-> r.next, selected |-> r.selected, resume |-> r.resume,
               start |-> r.start, baseline |-> r.baseline, source |-> v, identity |-> r.identity]
<1> PICK x1 : x1 = [r EXCEPT !.step = s]
  OBVIOUS
<1>1. x1 = [step |-> s, next |-> r.next, selected |-> r.selected, resume |-> r.resume,
               start |-> r.start, baseline |-> r.baseline, source |-> r.source, identity |-> r.identity]
  BY DEF H!Certifications
<1> PICK x2 : x2 = [x1 EXCEPT !.source = v]
  OBVIOUS
<1>2. x2 = [step |-> s, next |-> r.next, selected |-> r.selected, resume |-> r.resume,
               start |-> r.start, baseline |-> r.baseline, source |-> v, identity |-> r.identity]
  BY <1>1
<1>3. [r EXCEPT !.step = s, !.source = v] = x2
  OBVIOUS
<1> QED
  BY <1>2, <1>3

LEMMA RunIdentity ==
  ASSUME NEW r \in H!Certifications, NEW s, NEW v
  PROVE  [r EXCEPT !.step = s, !.identity = v] =
              [step |-> s, next |-> r.next, selected |-> r.selected, resume |-> r.resume,
               start |-> r.start, baseline |-> r.baseline, source |-> r.source, identity |-> v]
<1> PICK x1 : x1 = [r EXCEPT !.step = s]
  OBVIOUS
<1>1. x1 = [step |-> s, next |-> r.next, selected |-> r.selected, resume |-> r.resume,
               start |-> r.start, baseline |-> r.baseline, source |-> r.source, identity |-> r.identity]
  BY DEF H!Certifications
<1> PICK x2 : x2 = [x1 EXCEPT !.identity = v]
  OBVIOUS
<1>2. x2 = [step |-> s, next |-> r.next, selected |-> r.selected, resume |-> r.resume,
               start |-> r.start, baseline |-> r.baseline, source |-> r.source, identity |-> v]
  BY <1>1
<1>3. [r EXCEPT !.step = s, !.identity = v] = x2
  OBVIOUS
<1> QED
  BY <1>2, <1>3

LEMMA StartRun ==
  ASSUME run \in H!Certifications, NEW selected, NEW resume \in BOOLEAN, NEW deploy,
         H!Start(selected, resume, deploy)
  PROVE  run' = [step |-> "facts", next |-> 1, selected |-> selected, resume |-> resume,
                 start |-> tested.kept, baseline |-> run.baseline, source |-> run.source,
                 identity |-> run.identity]
<1> PICK x1 : x1 = [run EXCEPT !.step = "facts"]
  OBVIOUS
<1>1. x1 = [step |-> "facts", next |-> run.next, selected |-> run.selected, resume |-> run.resume,
               start |-> run.start, baseline |-> run.baseline, source |-> run.source, identity |-> run.identity]
  BY DEF H!Certifications
<1> PICK x2 : x2 = [x1 EXCEPT !.selected = selected]
  OBVIOUS
<1>2. x2 = [step |-> "facts", next |-> run.next, selected |-> selected, resume |-> run.resume,
               start |-> run.start, baseline |-> run.baseline, source |-> run.source, identity |-> run.identity]
  BY <1>1
<1> PICK x3 : x3 = [x2 EXCEPT !.resume = resume]
  OBVIOUS
<1>3. x3 = [step |-> "facts", next |-> run.next, selected |-> selected, resume |-> resume,
               start |-> run.start, baseline |-> run.baseline, source |-> run.source, identity |-> run.identity]
  BY <1>2
<1> PICK x4 : x4 = [x3 EXCEPT !.next = 1]
  OBVIOUS
<1>4. x4 = [step |-> "facts", next |-> 1, selected |-> selected, resume |-> resume,
               start |-> run.start, baseline |-> run.baseline, source |-> run.source, identity |-> run.identity]
  BY <1>3
<1> PICK x5 : x5 = [x4 EXCEPT !.start = tested.kept]
  OBVIOUS
<1>5. x5 = [step |-> "facts", next |-> 1, selected |-> selected, resume |-> resume,
               start |-> tested.kept, baseline |-> run.baseline, source |-> run.source, identity |-> run.identity]
  BY <1>4
<1>6. run' = x5
  BY DEF H!Start
<1> QED
  BY <1>5, <1>6

LEMMA ReportFields ==
  ASSUME NEW r \in H!Reports
  PROVE  /\ r.version \in 1..MaxBuild /\ r.fingerprint \in 0..MaxBuild /\ r.merged \in BOOLEAN
         /\ r.commands \in [H!Contract -> H!Statuses]
BY DEF H!Reports

LEMMA ReportWritten ==
  ASSUME NEW r \in H!Reports
  PROVE  /\ \A c, s : [r EXCEPT !.commands[c] = s] =
                [version |-> r.version, fingerprint |-> r.fingerprint, merged |-> r.merged,
                 commands |-> [r.commands EXCEPT ![c] = s]]
         /\ \A f, m : [r EXCEPT !.fingerprint = f, !.merged = m] =
                [version |-> r.version, fingerprint |-> f, merged |-> m, commands |-> r.commands]
<1>1. \A c, s : [r EXCEPT !.commands[c] = s] =
                [version |-> r.version, fingerprint |-> r.fingerprint, merged |-> r.merged,
                 commands |-> [r.commands EXCEPT ![c] = s]]
  BY DEF H!Reports
<1>2. \A f, m : [r EXCEPT !.fingerprint = f, !.merged = m] =
                [version |-> r.version, fingerprint |-> f, merged |-> m, commands |-> r.commands]
  <2> TAKE f, m
  <2> PICK x : x = [r EXCEPT !.fingerprint = f, !.merged = m]
    OBVIOUS
  <2>1. x = [version |-> r.version, fingerprint |-> f, merged |-> m, commands |-> r.commands]
    BY DEF H!Reports
  <2> QED
    BY <2>1
<1> QED
  BY <1>1, <1>2
LEMMA CertFields ==
  ASSUME H!CertInv
  PROVE  /\ run \in H!Certifications /\ tested \in H!Routers
         /\ tested.kept \in H!Configurations /\ tested.agent \in 1..MaxBuild
         /\ run.start \in H!Configurations /\ run.baseline \in H!Configurations
         /\ tested.kept.token \in Nat /\ run.start.token \in Nat /\ run.baseline.token \in Nat
         /\ run.identity \in Nat /\ token \in Nat /\ run.next \in 1..5 /\ run.step \in H!Steps
         /\ run.source \in {"release", "candidate"}
         /\ report \in H!Reports /\ saved \in H!Reports
         /\ worktree.version \in 1..MaxBuild /\ worktree.fingerprint \in 1..MaxBuild
         /\ MaxBuild \in Nat
<1>1. run \in H!Certifications /\ tested \in H!Routers /\ token \in Nat
      /\ report \in H!Reports /\ saved \in H!Reports
      /\ worktree \in [version : 1..MaxBuild, fingerprint : 1..MaxBuild]
  BY DEF H!CertInv, H!RecordsOK
<1>2. run.start \in H!Configurations /\ run.baseline \in H!Configurations
      /\ run.identity \in Nat /\ run.next \in 1..5 /\ run.step \in H!Steps
      /\ run.source \in {"release", "candidate"}
  BY <1>1, RunFields
<1>3. tested.kept \in H!Configurations /\ tested.agent \in 1..MaxBuild
  BY <1>1, RouterFields
<1>4. tested.kept.token \in Nat /\ run.start.token \in Nat /\ run.baseline.token \in Nat
  BY <1>2, <1>3, ConfigurationFields
<1>5. worktree.version \in 1..MaxBuild /\ worktree.fingerprint \in 1..MaxBuild
  BY <1>1
<1> QED
  BY <1>1, <1>2, <1>3, <1>4, <1>5, AgentAssumption

\* What a step does to the agent and to the reports leaves what was tested alone.
LEMMA TestedRests ==
  ASSUME H!CertInv, worktree' = worktree, tested'.agent = tested.agent, ranOn' = ranOn,
         report' \in {report, saved}, saved' = saved
  PROVE  H!AgentTested(report)' /\ H!AgentTested(saved)'
BY DEF H!CertInv, H!AgentTested

LEMMA NoRunFacts ==
  /\ H!Found \in H!Configurations /\ H!Found.token = 0
  /\ H!NoRun \in H!Certifications
  /\ H!NoRun.step = "none" /\ ~H!NoRun.resume /\ H!NoRun.selected = {} /\ H!NoRun.next = 1
  /\ H!NoRun.baseline = H!Found /\ H!NoRun.start = H!Found /\ H!NoRun.identity = 0
<1>1. H!Found \in H!Configurations /\ H!Found.token = 0
  BY DEF H!Found, H!Configurations
<1> HIDE DEF H!Found
<1>2. 1 \in 1..(H!Len(H!Order) + 1)
  BY ContractFacts
<1>3. H!NoRun \in H!Certifications
  BY <1>1, <1>2 DEF H!NoRun, H!Certifications, H!Steps
<1> QED
  BY <1>1, <1>3 DEF H!NoRun

LEMMA FreshFacts ==
  ASSUME H!RecordsOK
  PROVE  /\ H!FreshReport \in H!Reports /\ H!FreshReport.fingerprint = 0
         /\ ~H!FreshReport.merged
         /\ \A c \in H!Contract : H!FreshReport.commands[c] = "not_run"
<1>1. worktree.version \in 1..MaxBuild /\ 0 \in 0..MaxBuild
  BY AgentAssumption DEF H!RecordsOK
<1>2. [c \in H!Contract |-> "not_run"] \in [H!Contract -> H!Statuses]
  BY DEF H!Statuses
<1> QED
  BY <1>1, <1>2 DEF H!FreshReport, H!Reports

LEMMA CertBase == H!CertInit => H!CertInv
<1> SUFFICES ASSUME H!CertInit PROVE H!CertInv
  OBVIOUS
<1>1. /\ worktree = [version |-> 1, fingerprint |-> 1]
      /\ tested = [kept |-> H!Found, agent |-> 1]
      /\ token = 0 /\ late = {} /\ run = H!NoRun
      /\ report = H!FreshReport /\ saved = H!FreshReport
      /\ ranOn = [c \in H!Contract |-> 0] /\ runs = 0 /\ gaps = {}
  BY DEF H!CertInit
<1>2. 1 \in 1..MaxBuild /\ 0 \in 0..MaxBuild /\ 0 \in 0..MaxRuns
  BY AgentAssumption
<1>3. worktree \in [version : 1..MaxBuild, fingerprint : 1..MaxBuild]
  BY <1>1, <1>2
<1>4. worktree.version \in 1..MaxBuild /\ worktree.fingerprint = 1
  BY <1>1, <1>2
<1>5. H!FreshReport \in H!Reports /\ H!FreshReport.fingerprint = 0
  <2>1. [c \in H!Contract |-> "not_run"] \in [H!Contract -> H!Statuses]
    BY DEF H!Statuses
  <2> QED
    BY <1>2, <1>4, <2>1 DEF H!FreshReport, H!Reports
<1>6. tested \in H!Routers /\ tested.kept = H!Found
  BY <1>1, <1>2, NoRunFacts DEF H!Routers
<1>7. H!RecordsOK
  BY <1>1, <1>2, <1>3, <1>5, <1>6, NoRunFacts DEF H!RecordsOK
<1>8. H!AgentTested(report) /\ H!AgentTested(saved)
  BY <1>1, <1>4, <1>5 DEF H!AgentTested
<1> QED
  BY <1>1, <1>6, <1>7, <1>8, NoRunFacts
     DEF H!CertInv, H!TokensOK, H!ResultsOK, H!IdentityKept, H!BaselineKept

\* The run ends: what it wrote stays, what it found is remembered.
Ends(step1) ==
  /\ H!RunEnds(step1) /\ step1 \in {"none", "done"}
  /\ UNCHANGED <<worktree, token, late, saved, ranOn, runs>>
  /\ tested' \in H!Routers /\ tested'.agent = tested.agent /\ tested'.kept.token <= token
  /\ gaps \subseteq gaps' /\ gaps' \subseteq Gaps
  /\ gaps' = {} => tested'.kept.token = token
  /\ step1 = "done" /\ "late" \notin gaps' =>
       /\ tested'.kept.settings = run.start.settings /\ tested'.kept.source = run.start.source
       /\ tested'.kept.enabled

LEMMA EndsKeep ==
  ASSUME H!CertInv, NEW step1, Ends(step1)
  PROVE  H!CertInv'
<1> USE CertFields, NoRunFacts
<1>1. /\ run' \in H!Certifications /\ run'.step = step1 /\ run'.start = run.start /\ ~run'.resume
      /\ run'.baseline = H!Found /\ run'.identity = 0
  <2> PICK r : r = [H!NoRun EXCEPT !.step = step1]
    OBVIOUS
  <2>1. r \in H!Certifications /\ r.step = step1 /\ ~r.resume /\ r.baseline = H!Found /\ r.identity = 0
    BY DEF Ends, H!Certifications, H!Steps
  <2>2. run' = [r EXCEPT !.start = run.start]
    BY DEF Ends, H!RunEnds
  <2> QED
    BY <2>1, <2>2 DEF H!Certifications
<1>2. report' = saved
  BY DEF Ends, H!RunEnds
<1>3. H!RecordsOK'
  BY <1>1, <1>2 DEF Ends, H!RecordsOK, H!CertInv
<1>4. H!TokensOK'
  BY <1>1 DEF Ends, H!TokensOK, H!CertInv
<1>5. H!ResultsOK'
  BY <1>1 DEF Ends, H!ResultsOK
<1>6. H!IdentityKept'
  BY <1>1 DEF Ends, H!IdentityKept
<1>7. H!BaselineKept'
  BY <1>1 DEF Ends, H!BaselineKept, H!CertInv
<1>8. H!AgentTested(report)' /\ H!AgentTested(saved)'
  BY <1>2, TestedRests DEF Ends
<1> QED
  BY <1>3, <1>4, <1>5, <1>6, <1>7, <1>8 DEF H!CertInv

LEMMA EndingKeeps ==
  ASSUME H!CertInv, H!GiveUp \/ H!WriteIdentity \/ H!CutOff \/ H!Killed
  PROVE  H!CertInv'
<1> USE CertFields
<1>1. CASE H!GiveUp
  <2>1. Ends("none")
    BY <1>1 DEF H!GiveUp, Ends, H!CertInv, H!RecordsOK, H!TokensOK, H!IdentityKept
  <2> QED
    BY <2>1, EndsKeep
<1>2. CASE H!WriteIdentity
  <2> PICK k : k = [tested.kept EXCEPT !.token = run.identity]
    OBVIOUS
  <2> PICK l : l = [k EXCEPT !.enabled = TRUE]
    OBVIOUS
  <2>1. ConfigurationIs(k, tested.kept.settings, run.identity, tested.kept.enabled,
                        tested.kept.source)
    BY ConfigurationWritten
  <2>2. ConfigurationIs(l, tested.kept.settings, run.identity, TRUE, tested.kept.source)
    BY <2>1, ConfigurationWritten DEF ConfigurationIs
  <2>3. tested' = [tested EXCEPT !.kept = l]
    BY <1>2, RouterNested DEF H!WriteIdentity
  <2>4. tested' \in H!Routers /\ tested'.kept = l /\ tested'.agent = tested.agent
    BY <2>2, <2>3, RouterWritten DEF ConfigurationIs
  <2>5. Ends("done")
    BY <1>2, <2>2, <2>4 DEF H!WriteIdentity, Ends, H!CertInv, H!RecordsOK, H!TokensOK,
       H!IdentityKept, H!BaselineKept, ConfigurationIs
  <2> QED
    BY <2>5, EndsKeep
<1>3. CASE H!CutOff \/ H!Killed
  <2>1. gaps' # {} /\ gaps \subseteq gaps' /\ gaps' \subseteq Gaps
    BY <1>3 DEF H!CutOff, H!Killed, H!Gap, H!CertInv, H!RecordsOK
  <2>2. Ends("none")
    BY <1>3, <2>1 DEF H!CutOff, H!Killed, Ends, H!CertInv, H!RecordsOK, H!TokensOK
  <2> QED
    BY <2>2, EndsKeep
<1> QED
  BY <1>1, <1>2, <1>3

\* Steps between commands: the router's agent and the reports stay.
LEMMA EditKeeps == ASSUME H!CertInv, H!Edit PROVE H!CertInv'
<1> USE CertFields
<1> PICK v : v = worktree.version + 1
  OBVIOUS
<1> PICK f : f = worktree.fingerprint + 1
  OBVIOUS
<1>1. worktree \in [version : 1..MaxBuild, fingerprint : 1..MaxBuild]
      /\ worktree.version + worktree.fingerprint <= MaxBuild
  BY DEF H!Edit, H!CertInv, H!RecordsOK
<1>2. v \in 1..MaxBuild /\ f \in 1..MaxBuild
  BY <1>1
<1>3. \/ worktree' = [worktree EXCEPT !.version = v]
      \/ worktree' = [worktree EXCEPT !.fingerprint = f]
  BY DEF H!Edit
<1>4. /\ worktree' \in [version : 1..MaxBuild, fingerprint : 1..MaxBuild]
      /\ worktree'.fingerprint \in {worktree.fingerprint, worktree.fingerprint + 1}
  BY <1>1, <1>2, <1>3
<1>5. report.fingerprint \in Nat /\ saved.fingerprint \in Nat
  BY ReportFields
<1>6. H!AgentTested(report)' /\ H!AgentTested(saved)'
  BY <1>4, <1>5 DEF H!Edit, H!CertInv, H!AgentTested
<1> QED
  BY <1>4, <1>6 DEF H!Edit, H!CertInv, H!RecordsOK, H!TokensOK, H!ResultsOK, H!IdentityKept,
     H!BaselineKept, H!Command

LEMMA StartKeeps ==
  ASSUME H!CertInv, NEW selected \in Selections, NEW resume \in BOOLEAN, NEW deploy \in BOOLEAN,
         H!Start(selected, resume, deploy)
  PROVE  H!CertInv'
<1> USE CertFields
<1> PICK n : n = runs + 1
  OBVIOUS
<1>1. run' = [step |-> "facts", next |-> 1, selected |-> selected, resume |-> resume,
              start |-> tested.kept, baseline |-> run.baseline, source |-> run.source,
              identity |-> run.identity]
  BY StartRun
<1>2. run' \in H!Certifications
  <2>1. 1 \in 1..(H!Len(H!Order) + 1) /\ "facts" \in H!Steps
    BY ContractFacts DEF H!Steps
  <2> QED
    BY <1>1, <2>1 DEF H!Certifications
<1>3. tested' \in H!Routers /\ tested'.kept = tested.kept
      /\ tested'.agent = IF deploy THEN worktree.fingerprint ELSE tested.agent
  BY RouterWritten DEF H!Start, H!Deployed
<1> PICK r : r = H!Loaded(resume)
  OBVIOUS
<1>4. /\ r \in H!Reports /\ r.fingerprint <= worktree.fingerprint
      /\ resume => r = saved
      /\ ~resume => r.fingerprint = 0 /\ ~r.merged
                    /\ \A c \in H!Contract : r.commands[c] = "not_run"
  BY FreshFacts DEF H!Loaded, H!CertInv, H!AgentTested
<1>5. /\ report' = IF deploy
             THEN [version |-> r.version, fingerprint |-> worktree.fingerprint,
                   merged |-> r.merged \/ resume, commands |-> r.commands]
             ELSE r
  <2> PICK m : m = (r.merged \/ resume)
    OBVIOUS
  <2>1. deploy => report' = [r EXCEPT !.fingerprint = worktree.fingerprint, !.merged = m]
    BY DEF H!Start
  <2> PICK x : x = [r EXCEPT !.fingerprint = worktree.fingerprint, !.merged = m]
    OBVIOUS
  <2>2. x = [version |-> r.version, fingerprint |-> worktree.fingerprint, merged |-> m,
             commands |-> r.commands]
    BY <1>4 DEF H!Reports
  <2>3. ~deploy => report' = r
    BY DEF H!Start
  <2> QED
    BY <2>1, <2>2, <2>3
<1>6. report' \in H!Reports /\ report'.commands = r.commands
  BY <1>4, <1>5 DEF H!Reports
<1>7. n \in 0..MaxRuns /\ runs' = n
  BY AgentAssumption DEF H!Start, H!CertInv, H!RecordsOK
<1>8. H!AgentTested(saved)'
  BY <1>3 DEF H!Start, H!CertInv, H!AgentTested
<1>9. H!AgentTested(report)'
  <2>1. CASE deploy
    <3>1. /\ report'.fingerprint = worktree.fingerprint /\ report'.merged = (r.merged \/ resume)
      BY <1>5, <2>1
    <3>2. tested'.agent = worktree.fingerprint /\ worktree' = worktree
      BY <1>3, <2>1 DEF H!Start
    <3> QED
      BY <1>4, <1>6, <3>1, <3>2 DEF H!AgentTested
  <2>2. CASE ~deploy
    <3>1. report' = r /\ tested'.agent = tested.agent /\ worktree' = worktree /\ ranOn' = ranOn
      BY <1>3, <1>5, <2>2 DEF H!Start
    <3>2. CASE resume
      BY <1>4, <3>1, <3>2 DEF H!AgentTested, H!CertInv
    <3>3. CASE ~resume
      BY <1>4, <3>1, <3>3 DEF H!AgentTested, H!CertInv
    <3> QED
      BY <3>2, <3>3
  <2> QED
    BY <2>1, <2>2
<1>10. H!RecordsOK'
  BY <1>2, <1>3, <1>6, <1>7 DEF H!Start, H!CertInv, H!RecordsOK
<1>11. H!TokensOK' /\ H!ResultsOK' /\ H!IdentityKept' /\ H!BaselineKept'
  BY <1>1, <1>3, <1>4, <1>6 DEF H!Start, H!Idle, H!CertInv, H!TokensOK, H!ResultsOK, H!IdentityKept,
     H!BaselineKept
<1> QED
  BY <1>8, <1>9, <1>10, <1>11 DEF H!CertInv

\* The steps of a run that write no report: which fields of the run they write.
Proceeds(step1, next1, baseline1, identity1) ==
  /\ run' \in H!Certifications /\ run'.step = step1 /\ run'.next = next1
  /\ run'.baseline = baseline1 /\ run'.identity = identity1
  /\ run'.start = run.start /\ run'.selected = run.selected /\ run'.resume = run.resume

LEMMA ProceedFacts ==
  ASSUME H!CertInv, NEW s \in H!Steps, NEW n \in 1..5, NEW k \in H!Configurations,
         NEW v \in {"release", "candidate"}, NEW i \in Nat,
         run' = [step |-> s, next |-> n, selected |-> run.selected, resume |-> run.resume,
                 start |-> run.start, baseline |-> k, source |-> v, identity |-> i]
  PROVE  Proceeds(s, n, k, i)
<1>1. run' \in H!Certifications
  BY CertFields, ContractFacts, RunFields DEF H!Certifications
<1> QED
  BY <1>1 DEF Proceeds

LEMMA ProceedStep ==
  ASSUME H!CertInv, NEW s \in H!Steps,
         run' = [run EXCEPT !.step = s]
  PROVE  Proceeds(s, run.next, run.baseline, run.identity)
BY CertFields, RunStep, ProceedFacts

LEMMA ProceedBaseline ==
  ASSUME H!CertInv, NEW s \in H!Steps, NEW k \in H!Configurations,
         run' = [run EXCEPT !.step = s, !.baseline = k]
  PROVE  Proceeds(s, run.next, k, run.identity)
BY CertFields, RunBaseline, ProceedFacts

LEMMA ProceedIdentity ==
  ASSUME H!CertInv, NEW s \in H!Steps, NEW i \in Nat,
         run' = [run EXCEPT !.step = s, !.identity = i]
  PROVE  Proceeds(s, run.next, run.baseline, i)
BY CertFields, RunIdentity, ProceedFacts

LEMMA ProceedSource ==
  ASSUME H!CertInv, NEW s \in H!Steps, NEW v \in {"release", "candidate"},
         run' = [run EXCEPT !.step = s, !.source = v]
  PROVE  Proceeds(s, run.next, run.baseline, run.identity)
BY CertFields, RunSource, ProceedFacts

LEMMA ProceedAdvance ==
  ASSUME H!CertInv, NEW s \in H!Steps, NEW n \in 1..5,
         run' = [run EXCEPT !.step = s, !.next = n]
  PROVE  Proceeds(s, n, run.baseline, run.identity)
BY CertFields, RunAdvance, ProceedFacts

LEMMA ProceedNext ==
  ASSUME H!CertInv, NEW n \in 1..5,
         run' = [run EXCEPT !.next = n]
  PROVE  Proceeds(run.step, n, run.baseline, run.identity)
BY CertFields, RunNext, ProceedFacts


\* A run takes its baseline, prepares a command, or is about to restore.
LEMMA CommandFacts ==
  run.next \in 1..4 => H!Command \in H!Contract
BY ContractFacts DEF H!Command

LEMMA MovesKeep ==
  ASSUME H!CertInv, H!TakeBaseline \/ H!Prepare \/ H!ReadIdentity \/ H!Unpack \/ H!Disconnect
  PROVE  H!CertInv'
<1> USE CertFields
<1> DEFINE Goal == H!TokensOK' /\ H!ResultsOK' /\ H!IdentityKept' /\ H!BaselineKept'
<1>1. ASSUME tested' \in H!Routers, tested'.agent = tested.agent, run' \in H!Certifications, Goal,
             UNCHANGED <<worktree, token, late, report, saved, ranOn, runs, gaps>>
      PROVE  H!CertInv'
  <2>1. H!AgentTested(report)' /\ H!AgentTested(saved)'
    BY <1>1, TestedRests
  <2>2. H!RecordsOK'
    BY <1>1 DEF H!CertInv, H!RecordsOK
  <2> QED
    BY <1>1, <2>1, <2>2 DEF H!CertInv
<1> USE DEF H!CertInv
<1>2. CASE H!TakeBaseline
  <2>1. Proceeds("loop", run.next, tested.kept, run.identity)
    BY <1>2, ProceedBaseline DEF H!TakeBaseline, H!Steps
  <2>2. tested' = tested /\ run.step = "facts"
        /\ UNCHANGED <<worktree, token, late, report, saved, ranOn, runs, gaps>>
    BY <1>2 DEF H!TakeBaseline
  <2>3. Goal
    BY <2>1, <2>2 DEF Proceeds, H!TokensOK, H!ResultsOK, H!IdentityKept, H!BaselineKept
  <2> QED
    BY <1>1, <2>1, <2>2, <2>3 DEF Proceeds
<1>3. CASE H!Prepare
  <2>1. tested.kept.source \in {"release", "candidate"}
    BY ConfigurationFields
  <2>2. Proceeds("execute", run.next, run.baseline, run.identity)
    BY <1>3, <2>1, ProceedSource DEF H!Prepare, H!Steps
  <2>3. run.step = "loop" /\ run.next <= 4 /\ H!Command \in run.selected
        /\ UNCHANGED <<worktree, token, late, report, saved, ranOn, runs, gaps>>
    BY <1>3, ContractFacts DEF H!Prepare
  <2>4. tested' \in H!Routers /\ tested'.agent = tested.agent
        /\ tested'.kept.token = tested.kept.token
    <3>1. tested' = tested \/ tested' = [tested EXCEPT !.kept.source = "candidate"]
      BY <1>3 DEF H!Prepare
    <3> QED
      BY <3>1, WriteSource
  <2>5. H!ResultsOK'
    BY <2>2, <2>3, ContractFacts DEF Proceeds, H!ResultsOK, H!Command
  <2>6. Goal
    BY <2>2, <2>3, <2>4, <2>5 DEF Proceeds, H!TokensOK, H!IdentityKept, H!BaselineKept
  <2> QED
    BY <1>1, <2>2, <2>3, <2>4, <2>6 DEF Proceeds
<1>4. CASE H!ReadIdentity
  <2>1. Proceeds("restore", run.next, run.baseline, tested.kept.token)
    BY <1>4, ProceedIdentity DEF H!ReadIdentity, H!Steps
  <2>2. tested' = tested /\ run.step \in {"loop", "execute", "reconnect"}
        /\ UNCHANGED <<worktree, token, late, report, saved, ranOn, runs, gaps>>
    BY <1>4 DEF H!ReadIdentity
  <2>3. Goal
    BY <2>1, <2>2 DEF Proceeds, H!TokensOK, H!ResultsOK, H!IdentityKept, H!BaselineKept
  <2> QED
    BY <1>1, <2>1, <2>2, <2>3 DEF Proceeds
<1>5. CASE H!Unpack
  <2>1. Proceeds("unpacked", run.next, run.baseline, run.identity)
    BY <1>5, ProceedStep DEF H!Unpack, H!Goes, H!Steps
  <2>2. tested' = [tested EXCEPT !.kept = run.baseline] /\ run.step = "restore"
        /\ UNCHANGED <<worktree, token, late, report, saved, ranOn, runs, gaps>>
    BY <1>5 DEF H!Unpack
  <2>3. tested' \in H!Routers /\ tested'.agent = tested.agent /\ tested'.kept = run.baseline
    BY <2>2, RouterWritten
  <2>4. Goal
    BY <2>1, <2>2, <2>3 DEF Proceeds, H!TokensOK, H!ResultsOK, H!IdentityKept, H!BaselineKept
  <2> QED
    BY <1>1, <2>1, <2>2, <2>3, <2>4 DEF Proceeds
<1>6. CASE H!Disconnect
  <2>1. Proceeds("reconnect", run.next, run.baseline, run.identity)
    BY <1>6, ProceedStep DEF H!Disconnect, H!Goes, H!Steps
  <2>2. tested' = [tested EXCEPT !.kept.enabled = FALSE] /\ run.step = "execute"
        /\ UNCHANGED <<worktree, token, late, report, saved, ranOn, runs, gaps>>
    BY <1>6 DEF H!Disconnect, H!Executed
  <2>5. tested' \in H!Routers /\ tested'.agent = tested.agent
        /\ tested'.kept.token = tested.kept.token
    BY <2>2, WriteEnabled
  <2>6. H!ResultsOK'
    BY <2>1, <2>2 DEF Proceeds, H!ResultsOK, H!Command
  <2>7. Goal
    BY <2>1, <2>2, <2>5, <2>6 DEF Proceeds, H!TokensOK, H!IdentityKept, H!BaselineKept
  <2> QED
    BY <1>1, <2>1, <2>2, <2>5, <2>7 DEF Proceeds
<1> QED
  BY <1>2, <1>3, <1>4, <1>5, <1>6

\* The result of a command is noted.
LEMMA NoteFacts ==
  ASSUME NEW r \in H!Reports, NEW c \in H!Contract, NEW s \in H!Statuses
  PROVE  LET q == [r EXCEPT !.commands[c] = s] IN
         /\ q \in H!Reports /\ q.fingerprint = r.fingerprint /\ q.merged = r.merged
         /\ q.commands = [r.commands EXCEPT ![c] = s]
<1> PICK q : q = [r EXCEPT !.commands[c] = s]
  OBVIOUS
<1>1. q = [version |-> r.version, fingerprint |-> r.fingerprint, merged |-> r.merged,
           commands |-> [r.commands EXCEPT ![c] = s]]
  BY DEF H!Reports
<1>2. [r.commands EXCEPT ![c] = s] \in [H!Contract -> H!Statuses]
  BY ReportFields
<1>3. q \in H!Reports
  BY <1>1, <1>2, ReportFields DEF H!Reports
<1> QED
  BY <1>1, <1>3

LEMMA PassKeeps == ASSUME H!CertInv, H!Pass PROVE H!CertInv'
<1> USE CertFields DEF H!CertInv
<1>1. /\ run.step = "loop" /\ run.next <= 4
      /\ UNCHANGED <<worktree, tested, token, late, saved, ranOn, runs, gaps>>
  BY ContractFacts DEF H!Pass
<1> PICK n : n = run.next + 1
  OBVIOUS
<1>2. Proceeds(run.step, n, run.baseline, run.identity)
  <2>1. run' = [run EXCEPT !.next = n] /\ n \in 1..5
    BY <1>1 DEF H!Pass
  <2> QED
    BY <2>1, ProceedNext
<1>3. H!Command \in H!Contract
  BY <1>1, CommandFacts
<1>4. \/ report' = report
      \/ /\ H!Command \in run.selected
         /\ report' = [report EXCEPT !.commands[H!Command] = "not_applicable"]
  BY DEF H!Pass
<1>5. /\ report' \in H!Reports /\ report'.fingerprint = report.fingerprint
      /\ report'.merged = report.merged
      /\ \A c \in H!Contract :
           report'.commands[c] # report.commands[c] =>
             c \in run.selected /\ report'.commands[c] = "not_applicable"
  <2>1. "not_applicable" \in H!Statuses
    BY DEF H!Statuses
  <2>2. CASE report' = report
    BY <2>2
  <2>3. CASE /\ H!Command \in run.selected
             /\ report' = [report EXCEPT !.commands[H!Command] = "not_applicable"]
    <3>1. /\ report' \in H!Reports /\ report'.fingerprint = report.fingerprint
          /\ report'.merged = report.merged
          /\ report'.commands = [report.commands EXCEPT ![H!Command] = "not_applicable"]
      BY <1>3, <2>1, <2>3, NoteFacts
    <3> QED
      BY <1>3, <2>3, <3>1, ReportFields
  <2> QED
    BY <1>4, <2>2, <2>3
<1>6. H!AgentTested(report)' /\ H!AgentTested(saved)'
  BY <1>1, <1>5 DEF H!AgentTested
<1>7. H!RecordsOK'
  BY <1>1, <1>2, <1>5 DEF Proceeds, H!RecordsOK
<1>8. H!TokensOK' /\ H!ResultsOK' /\ H!IdentityKept' /\ H!BaselineKept'
  BY <1>1, <1>2, <1>5 DEF Proceeds, H!TokensOK, H!ResultsOK, H!IdentityKept, H!BaselineKept
<1> QED
  BY <1>6, <1>7, <1>8

\* A command is recorded, with what it made of the router.
Records(status1, after) ==
  /\ H!Recorded(status1, after) /\ status1 \in H!Statuses
  /\ run.step \in {"execute", "reconnect"}
  /\ after \in H!Routers /\ after.kept.token <= token'
  /\ token' \in Nat /\ token <= token'
  /\ late' \subseteq H!Contract /\ gaps \subseteq gaps' /\ gaps' \subseteq Gaps
  /\ late' # {} => "late" \in gaps'
  /\ gaps' = {} => after.kept.token = token'
  /\ tested.agent = worktree.fingerprint => after.agent = worktree.fingerprint
  /\ UNCHANGED <<worktree, runs>>

LEMMA RecordsKeep ==
  ASSUME H!CertInv, NEW status1, NEW after, Records(status1, after)
  PROVE  H!CertInv'
<1> USE CertFields DEF H!CertInv
<1>1. run.next \in 1..4 /\ H!Command \in H!Contract /\ H!Command \in run.selected
  BY CommandFacts, ContractFacts DEF Records, H!ResultsOK
<1> PICK n : n = run.next + 1
  OBVIOUS
<1>2. Proceeds("loop", n, run.baseline, run.identity)
  <2>1. run' = [run EXCEPT !.step = "loop", !.next = n] /\ n \in 1..5
    BY <1>1 DEF Records, H!Recorded
  <2>2. "loop" \in H!Steps
    BY DEF H!Steps
  <2> QED
    BY <2>1, <2>2, ProceedAdvance
<1>3. /\ report' \in H!Reports /\ report'.fingerprint = report.fingerprint
      /\ report'.merged = report.merged
      /\ report'.commands = [report.commands EXCEPT ![H!Command] = status1]
      /\ saved' = report'
  BY <1>1, NoteFacts DEF Records, H!Recorded
<1>4. tested' \in H!Routers /\ tested'.agent = after.agent /\ tested'.kept.token = after.kept.token
  <2>1. after \in H!Routers /\ (tested' = after \/ tested' = [after EXCEPT !.kept.source = run.source])
    BY DEF Records, H!Recorded
  <2> QED
    <3>1. after \in H!Routers
      BY <2>1
    <3>2. CASE tested' = after
      BY <3>1, <3>2
    <3>3. CASE tested' = [after EXCEPT !.kept.source = run.source]
      <4>1. run.source \in {"release", "candidate"}
        BY DEF H!CertTypeOK
      <4> QED
        BY <3>1, <3>3, <4>1, WriteSource
    <3> QED
      BY <2>1, <3>2, <3>3
<1>5. after.agent \in 0..MaxBuild
  BY RouterFields DEF Records
<1>6. ranOn' = [ranOn EXCEPT ![H!Command] = after.agent] /\ ranOn' \in [H!Contract -> 0..MaxBuild]
  BY <1>1, <1>5 DEF Records, H!Recorded, H!RecordsOK
<1>7. H!RecordsOK'
  BY <1>2, <1>3, <1>4, <1>6 DEF Proceeds, Records, H!RecordsOK
<1>8. H!TokensOK'
  BY <1>2, <1>4 DEF Proceeds, Records, H!TokensOK
<1>9. H!ResultsOK'
  BY <1>2, <1>3 DEF Proceeds, H!ResultsOK
<1>10. H!IdentityKept' /\ H!BaselineKept'
  <2>1. "late" \notin gaps' => "late" \notin gaps /\ late' = {}
    BY DEF Records
  <2> QED
    BY <1>2, <1>4, <2>1 DEF Proceeds, Records, H!IdentityKept, H!BaselineKept
<1>11. H!AgentTested(report)' /\ H!AgentTested(saved)'
  <2>1. worktree' = worktree
    BY DEF Records
  <2>2. \A c \in H!Contract : c # H!Command => report'.commands[c] = report.commands[c]
                                            /\ ranOn'[c] = ranOn[c]
    BY <1>1, <1>3, <1>6, ReportFields DEF H!RecordsOK
  <2>3. ranOn'[H!Command] = after.agent
    BY <1>1, <1>6 DEF H!RecordsOK
  <2>4. report.fingerprint = worktree.fingerprint => after.agent = worktree.fingerprint
    BY DEF Records, H!AgentTested
  <2>5. H!AgentTested(report)'
    BY <1>3, <1>4, <2>1, <2>2, <2>3, <2>4 DEF H!AgentTested
  <2> QED
    BY <1>3, <2>5 DEF H!AgentTested
<1> QED
  BY <1>7, <1>8, <1>9, <1>10, <1>11

\* What a command makes of the router and of the token.
LEMMA ExecutedFacts ==
  ASSUME H!CertInv, NEW c \in H!Contract
  PROVE  /\ H!Executed(c) \in H!Routers
         /\ H!TokenAfter(c) \in Nat /\ token <= H!TokenAfter(c)
         /\ H!Executed(c).kept.token <= H!TokenAfter(c)
         /\ tested.kept.token = token => H!Executed(c).kept.token = H!TokenAfter(c)
         /\ H!Executed(c).agent \in {tested.agent, worktree.fingerprint}
<1> USE CertFields DEF H!CertInv
<1> PICK n : n = token + 1
  OBVIOUS
<1>0. n \in Nat /\ tested.kept.token <= token
  BY DEF H!TokensOK
<1>1. CASE c = "agent.update"
  <2>1. H!Executed(c) = [tested EXCEPT !.agent = worktree.fingerprint] /\ H!TokenAfter(c) = token
    BY <1>1 DEF H!Executed, H!TokenAfter
  <2> QED
    BY <1>0, <2>1, RouterWritten
<1>2. CASE c = "agent.rotate_token"
  <2>1. H!Executed(c) = [tested EXCEPT !.kept.token = n] /\ H!TokenAfter(c) = n
    BY <1>2 DEF H!Executed, H!TokenAfter
  <2> PICK r : r = [tested EXCEPT !.kept.token = n]
    OBVIOUS
  <2>2. r \in H!Routers /\ r.agent = tested.agent /\ r.kept.token = n
    BY <1>0, WriteToken
  <2> QED
    BY <1>0, <2>1, <2>2
<1>3. CASE c = "system.set_ntp"
  <2>1. H!Executed(c) = [tested EXCEPT !.kept.settings = "changed"] /\ H!TokenAfter(c) = token
    BY <1>3 DEF H!Executed, H!TokenAfter
  <2> PICK r : r = [tested EXCEPT !.kept.settings = "changed"]
    OBVIOUS
  <2>2. r \in H!Routers /\ r.agent = tested.agent /\ r.kept.token = tested.kept.token
    BY <1>0, WriteSettings
  <2> QED
    BY <1>0, <2>1, <2>2
<1>4. CASE c = "agent.disconnect"
  <2>1. H!Executed(c) = [tested EXCEPT !.kept.enabled = FALSE] /\ H!TokenAfter(c) = token
    BY <1>4 DEF H!Executed, H!TokenAfter
  <2> PICK r : r = [tested EXCEPT !.kept.enabled = FALSE]
    OBVIOUS
  <2>2. r \in H!Routers /\ r.agent = tested.agent /\ r.kept.token = tested.kept.token
    BY <1>0, WriteEnabled
  <2> QED
    BY <1>0, <2>1, <2>2
<1> QED
  BY <1>1, <1>2, <1>3, <1>4, ContractFacts

LEMMA CommandKeeps ==
  ASSUME H!CertInv, H!Execute \/ H!Fail \/ H!Reconnect
  PROVE  H!CertInv'
<1> USE CertFields DEF H!CertInv
<1>1. run.step \in {"execute", "reconnect"} => H!Command \in H!Contract
  BY CommandFacts, ContractFacts DEF H!ResultsOK
<1>2. {"pass", "fail"} \subseteq H!Statuses
  BY DEF H!Statuses
<1>3. late # {} => "late" \in gaps
  BY DEF H!BaselineKept
<1>4. late \subseteq H!Contract /\ gaps \subseteq Gaps
  BY DEF H!RecordsOK
<1>5. CASE H!Execute
  <2> PICK status1 \in {"pass", "fail"} : H!Recorded(status1, H!Executed(H!Command))
    BY <1>5 DEF H!Execute
  <2>1. /\ run.step = "execute" /\ H!Command \in H!Contract
        /\ token' = H!TokenAfter(H!Command)
        /\ UNCHANGED <<worktree, late, runs, gaps>>
    BY <1>1, <1>5 DEF H!Execute
  <2>2. gaps = {} => tested.kept.token = token
    BY <2>1 DEF H!IdentityKept
  <2>3. Records(status1, H!Executed(H!Command))
    BY <1>2, <1>3, <1>4, <2>1, <2>2, ExecutedFacts DEF Records
  <2> QED
    BY <2>3, RecordsKeep
<1>6. CASE H!Fail
  <2>1. /\ run.step = "execute" /\ H!Command \in H!Contract /\ H!Recorded("fail", tested)
        /\ UNCHANGED <<worktree, token, runs>>
    BY <1>1, <1>6 DEF H!Fail
  <2>2. /\ late' \subseteq H!Contract /\ gaps \subseteq gaps' /\ gaps' \subseteq Gaps
        /\ late' # {} => "late" \in gaps'
    BY <1>3, <1>4, <1>6, <2>1 DEF H!Fail, H!Gap
  <2>3. Records("fail", tested)
    BY <1>2, <2>1, <2>2 DEF Records, H!TokensOK, H!IdentityKept
  <2> QED
    BY <2>3, RecordsKeep
<1>7. CASE H!Reconnect
  <2> PICK r : r = [tested EXCEPT !.kept.enabled = TRUE]
    OBVIOUS
  <2>2. r \in H!Routers /\ r.agent = tested.agent /\ r.kept.token = tested.kept.token
    BY WriteEnabled
  <2>3. /\ run.step = "reconnect" /\ UNCHANGED <<worktree, token, late, runs, gaps>>
        /\ (H!Recorded("pass", r) \/ H!Recorded("fail", tested))
    BY <1>7, <2>2 DEF H!Reconnect
  <2>4. Records("pass", r) \/ Records("fail", tested)
    BY <1>2, <1>3, <1>4, <2>2, <2>3 DEF Records, H!TokensOK, H!IdentityKept
  <2> QED
    BY <2>4, RecordsKeep
<1> QED
  BY <1>5, <1>6, <1>7

LEMMA LateKeeps ==
  ASSUME H!CertInv, NEW c \in late, H!ExecuteLate(c)
  PROVE  H!CertInv'
<1> USE CertFields DEF H!CertInv
<1>1. c \in H!Contract /\ "late" \in gaps
  BY DEF H!RecordsOK, H!BaselineKept
<1>2. /\ tested' = H!Executed(c) /\ token' = H!TokenAfter(c) /\ late' \subseteq late
      /\ UNCHANGED <<worktree, run, report, saved, ranOn, runs, gaps>>
  BY DEF H!ExecuteLate
<1>3. /\ tested' \in H!Routers /\ token' \in Nat /\ token <= token'
      /\ tested'.kept.token <= token'
      /\ tested'.agent \in {tested.agent, worktree.fingerprint}
  BY <1>1, <1>2, ExecutedFacts
<1>4. H!AgentTested(report)' /\ H!AgentTested(saved)'
  BY <1>2, <1>3 DEF H!AgentTested
<1>5. H!RecordsOK'
  BY <1>2, <1>3 DEF H!RecordsOK
<1>6. H!TokensOK'
  BY <1>2, <1>3 DEF H!TokensOK
<1>7. H!ResultsOK'
  BY <1>2 DEF H!ResultsOK, H!Command
<1>8. H!IdentityKept' /\ H!BaselineKept'
  BY <1>1, <1>2 DEF H!IdentityKept, H!BaselineKept
<1> QED
  BY <1>4, <1>5, <1>6, <1>7, <1>8

LEMMA CertStep == ASSUME H!CertInv, [H!CertNext]_certification PROVE H!CertInv'
<1>1. CASE UNCHANGED certification
  BY <1>1 DEF certification, H!CertInv, H!RecordsOK, H!TokensOK, H!ResultsOK, H!IdentityKept,
     H!BaselineKept, H!AgentTested, H!Command
<1> QED
  BY <1>1, EditKeeps, StartKeeps, EndingKeeps, MovesKeep, PassKeeps, CommandKeeps, LateKeeps
     DEF H!CertNext

-----------------------------------------------------------------------------
(* Why the certification does: its properties from its invariant. *)

LEMMA CertFollows ==
  ASSUME H!CertInv
  PROVE  H!RouterIsGivenBack /\ H!CertifiedUnlessMerged /\ H!CertTypeOK
<1> USE CertFields DEF H!CertInv
<1>1. H!RouterIsGivenBack
  BY DEF H!RouterIsGivenBack, H!IdentitySurvives, H!RestoresWhatItFound, H!Idle,
     H!IdentityKept, H!BaselineKept
<1>2. H!CertifiedUnlessMerged
  BY DEF H!CertifiedUnlessMerged, H!CertifiedOnThisAgent, H!StableGate, H!Covers, H!AgentTested
<1>3. H!CertTypeOK
  <2>1. /\ tested.kept.settings \in {"found", "changed"} /\ tested.kept.enabled \in BOOLEAN
        /\ tested.kept.source \in {"release", "candidate"}
    BY ConfigurationFields
  <2>2. tested.kept.token \in 0..token
    BY DEF H!TokensOK
  <2>3. tested.kept \in [settings : {"found", "changed"}, token : 0..token,
                         enabled : BOOLEAN, source : {"release", "candidate"}]
    BY <2>1, <2>2 DEF H!Configurations
  <2>4. run.next \in 1..(H!Len(H!Order) + 1) /\ (run.step # "execute" \/ run.next <= H!Len(H!Order))
    BY ContractFacts DEF H!ResultsOK
  <2>5. report \in H!Reports /\ saved \in H!Reports
    OBVIOUS
  <2> QED
    BY <2>3, <2>4, <2>5 DEF H!CertTypeOK, H!RecordsOK, H!Reports
<1> QED
  BY <1>1, <1>2, <1>3

LEMMA RecordedKeepsOthers ==
  ASSUME H!CertInv, run.step \in {"execute", "reconnect"},
         NEW status1 \in {"pass", "fail"}, NEW after, H!Recorded(status1, after)
  PROVE  H!KeepsOthers
<1> USE CertFields DEF H!CertInv
<1>1. H!Command \in H!Contract /\ H!Command \in run.selected /\ run.next \in 1..4
  BY CommandFacts, ContractFacts DEF H!ResultsOK
<1>2. saved' = report' /\ report' = [report EXCEPT !.commands[H!Command] = status1]
  BY DEF H!Recorded
<1>3. status1 \in H!Statuses
  BY DEF H!Statuses
<1>4. saved'.commands = [report.commands EXCEPT ![H!Command] = status1]
  BY <1>1, <1>2, <1>3, NoteFacts
<1> PICK n : n = run.next + 1
  OBVIOUS
<1>5. Proceeds("loop", n, run.baseline, run.identity)
  <2>1. run' = [run EXCEPT !.step = "loop", !.next = n] /\ n \in 1..5
    BY <1>1 DEF H!Recorded
  <2>2. "loop" \in H!Steps
    BY DEF H!Steps
  <2> QED
    BY <2>1, <2>2, ProceedAdvance
<1>6. run'.resume = run.resume
  BY <1>5 DEF Proceeds
<1> QED
  BY <1>1, <1>4, <1>6, ReportFields DEF H!KeepsOthers, H!ResultsOK

LEMMA CertKeepsOthers == ASSUME H!CertInv, H!CertNext PROVE H!KeepsOthers
<1>1. CASE saved' = saved
  BY <1>1 DEF H!KeepsOthers
<1>2. CASE H!Execute \/ H!Fail \/ H!Reconnect
  BY <1>2, RecordedKeepsOthers DEF H!Execute, H!Fail, H!Reconnect
<1> QED
  BY <1>1, <1>2 DEF H!CertNext, H!Edit, H!TakeBaseline, H!GiveUp, H!Pass, H!Prepare, H!Start,
     H!ExecuteLate, H!Disconnect, H!ReadIdentity, H!Unpack, H!WriteIdentity, H!CutOff, H!Killed

LEMMA CertificationAtWork == MCSpec => [](part = "certification" => H!CertInv)
<1> DEFINE Inv == part = "certification" => H!CertInv
<1>1. MCInit => Inv
  BY CertBase DEF MCInit
<1>2. Inv /\ [MCNext]_<<part, vars, two, certification, commands, policies>> => Inv'
  <2> SUFFICES ASSUME Inv, [MCNext]_<<part, vars, two, certification, commands, policies>>,
                      part' = "certification"
               PROVE  H!CertInv'
    OBVIOUS
  <2>1. part = "certification" /\ [H!CertNext]_certification
    BY DEF MCNext
  <2> QED
    BY <2>1, CertStep
<1> QED
  BY <1>1, <1>2, PTL DEF MCSpec

\* A certification leaves the router with the token that the server accepts and with
\* the configuration it found, unless it is cut off or killed or a command comes late,
\* and the gate of a release accepts no result of another agent, unless reports were
\* merged (hardware_certify.py, verify_release_readiness.py).
THEOREM CertificationGivesBack == MCSpec => []RouterIsGivenBack
<1>1. (part = "certification" => H!CertInv) => RouterIsGivenBack
  BY CertFollows DEF RouterIsGivenBack
<1> QED
  BY <1>1, CertificationAtWork, PTL

\* A resumed certification writes no result but those of the commands it was asked for
\* (hardware_certify.py: --resume).
THEOREM CertificationKeepsOthers == MCSpec => ResumeKeepsOthers
<1> DEFINE Inv == part = "certification" => H!CertInv
<1>1. Inv /\ [MCNext]_<<part, vars, two, certification, commands, policies>>
        => [part = "certification" => H!KeepsOthers]_certification
  <2> SUFFICES ASSUME Inv, [MCNext]_<<part, vars, two, certification, commands, policies>>,
                      part = "certification", ~(UNCHANGED certification)
               PROVE  H!KeepsOthers
    OBVIOUS
  <2>1. H!CertNext
    BY DEF MCNext
  <2> QED
    BY <2>1, CertKeepsOthers
<1> QED
  BY <1>1, CertificationAtWork, PTL DEF MCSpec, ResumeKeepsOthers

-----------------------------------------------------------------------------
(* Batches of commands: CommandLifecycleProofs, of the variables named here. *)

BP == INSTANCE CommandLifecycleProofs WITH pc <- step

LEMMA LifecycleConstants == BP!LifecycleAssumption
BY AgentAssumption DEF BP!LifecycleAssumption, BP!Commands

\* The two instances have the same actions.
LEMMA BatchNext == B!Next => BP!Next
BY DEF B!Next, BP!Next, B!Tick, BP!Tick, B!ServerStep, BP!ServerStep, B!AgentStep,
  BP!AgentStep, B!Commands, BP!Commands, B!diskVars, BP!diskVars, B!serverVars, BP!serverVars,
  B!Create, BP!Create, B!AfterExpire, BP!AfterExpire, B!Stale, BP!Stale, B!AfterRequeue,
  BP!AfterRequeue, B!Claimable, BP!Claimable, B!Expire, BP!Expire, B!RequeueByOtherDevice,
  BP!RequeueByOtherDevice, B!ClaimRows, BP!ClaimRows, B!ClaimAndDeliver, BP!ClaimAndDeliver,
  B!ClaimForNobody, BP!ClaimForNobody, B!Send, BP!Send, B!DaemonGoesOn, BP!DaemonGoesOn,
  B!ResultConfirmed, BP!ResultConfirmed, B!Answer, BP!Answer, B!Reads, BP!Reads,
  B!LoadFinished, BP!LoadFinished, B!LoadRefused, BP!LoadRefused, B!LoadAccepted,
  BP!LoadAccepted, B!Written, BP!Written, B!Commit, BP!Commit, B!Forsake, BP!Forsake, B!Poll,
  BP!Poll, B!PollEmpty, BP!PollEmpty, B!PollFails, BP!PollFails, B!Next1, BP!Next1,
  B!ResendResult, BP!ResendResult, B!Report, BP!Report, B!RejectContract, BP!RejectContract,
  B!Acknowledge, BP!Acknowledge, B!PostFails, BP!PostFails, B!Refuse, BP!Refuse, B!Execute,
  BP!Execute, B!Finish, BP!Finish, B!DeferToVerifier, BP!DeferToVerifier, B!BatchDone,
  BP!BatchDone, B!VerifierReports, BP!VerifierReports, B!VerifierPostFails,
  BP!VerifierPostFails, B!DaemonExits, BP!DaemonExits, B!Crash, BP!Crash, B!Unfinished,
  BP!Unfinished, B!Restart, BP!Restart, B!Terminal, BP!Terminal, B!Active, BP!Active,
  B!Outcomes, BP!Outcomes, B!Waiting, BP!Waiting, B!Free, BP!Free, B!Cardinality,
  BP!Cardinality

LEMMA BatchAtWork == MCSpec => []BP!Inductive
<1>1. MCInit => BP!Inductive
  <2>1. B!Init => BP!Init
    BY DEF B!Init, BP!Init, B!Commands, BP!Commands, B!Free, BP!Free
  <2> QED
    BY <2>1, LifecycleConstants, BP!InitInductive DEF MCInit
<1>2. BP!Inductive /\ [MCNext]_<<part, vars, two, certification, commands, policies>>
        => BP!Inductive'
  <2> SUFFICES ASSUME BP!Inductive,
                      [MCNext]_<<part, vars, two, certification, commands, policies>>
               PROVE  BP!Inductive'
    OBVIOUS
  <2>1. B!Next \/ commands' = commands
    BY DEF MCNext
  <2>2. commands' = commands => BP!vars' = BP!vars
    BY DEF BP!vars, BP!diskVars, BP!serverVars, commands
  <2>3. [BP!Next]_(BP!vars)
    BY <2>1, <2>2, BatchNext
  <2> QED
    BY <2>3, LifecycleConstants, BP!NextInductive
<1> QED
  BY <1>1, <1>2, PTL DEF MCSpec

\* A command is overtaken by a later one only if its first delivery was lost or if it
\* appeared after that one had been handed out (_claim_commands, poll_commands).
THEOREM BatchesKeepOrder == MCSpec => []BatchKeepsOrder
<1>1. MCInit => BP!OrderOK
  <2>1. B!Init => BP!Init
    BY DEF B!Init, BP!Init, B!Commands, BP!Commands, B!Free, BP!Free
  <2> QED
    BY <2>1, LifecycleConstants, BP!OrderInit DEF MCInit
<1>2. BP!Inductive /\ BP!OrderOK
      /\ [MCNext]_<<part, vars, two, certification, commands, policies>> => BP!OrderOK'
  <2> SUFFICES ASSUME BP!Inductive, BP!OrderOK,
                      [MCNext]_<<part, vars, two, certification, commands, policies>>
               PROVE  BP!OrderOK'
    OBVIOUS
  <2>1. B!Next \/ commands' = commands
    BY DEF MCNext
  <2>2. commands' = commands => BP!vars' = BP!vars
    BY DEF BP!vars, BP!diskVars, BP!serverVars, commands
  <2>3. [BP!Next]_(BP!vars)
    BY <2>1, <2>2, BatchNext
  <2> QED
    BY <2>3, LifecycleConstants, BP!NextKeepsOrder
<1>3. BP!OrderOK => BatchKeepsOrder
  BY DEF BP!OrderOK, BP!KeepsOrder, BP!Ahead, BP!Commands, BatchKeepsOrder, B!KeepsOrder,
     B!Ahead, B!Commands
<1> QED
  BY <1>1, <1>2, <1>3, BatchAtWork, PTL DEF MCSpec

-----------------------------------------------------------------------------
(* Upgrades that the power interrupts: AgentUpdateProofs, of the second router. *)

UP == INSTANCE AgentUpdateProofs
        WITH MaxRestores <- 1, MaxCuts <- 2, Mishaps <- {"cut", "install", "backup"},
             Downgrades <- FALSE,
             entry <- entry2, gen <- gen2, current <- current2, alias <- alias2,
             legacy <- legacy2, backup <- backup2, running <- running2, pc <- pc2,
             target <- target2, undoing <- undoing2, restores <- restores2, cuts <- cuts2

LEMMA SecondConstants == UP!UpdateAssumption
BY UpdateAssumption DEF UP!UpdateAssumption

\* The two instances have the same actions.
LEMMA SecondNext == U!Next => UP!Next
BY DEF U!Next, UP!Next, U!Generations, UP!Generations, U!Versions, UP!Versions, U!Directories,
  UP!Directories, U!NoVersion, UP!NoVersion, U!Parts, UP!Parts, U!UpdateSteps, UP!UpdateSteps,
  U!RestoreSteps, UP!RestoreSteps, U!disk, UP!disk, U!control, UP!control, U!vars, UP!vars,
  U!Restored, UP!Restored, U!Absent, UP!Absent, U!Release, UP!Release, U!Libraries,
  UP!Libraries, U!Starts, UP!Starts, U!Goes, UP!Goes, U!BeginUpdate, UP!BeginUpdate,
  U!ClearBackup, UP!ClearBackup, U!Active, UP!Active, U!KeepEntry, UP!KeepEntry,
  U!CopyLibraries, UP!CopyLibraries, U!LabelBackup, UP!LabelBackup, U!BackupFails,
  UP!BackupFails, U!PublishGeneration, UP!PublishGeneration, U!SetAlias, UP!SetAlias,
  U!SwitchCurrent, UP!SwitchCurrent, U!SwitchEntry, UP!SwitchEntry, U!Verifies, UP!Verifies,
  U!Verify, UP!Verify, U!Kept, UP!Kept, U!Prune, UP!Prune, U!Pruned, UP!Pruned,
  U!BackupAvailable, UP!BackupAvailable, U!BeginRestore, UP!BeginRestore, U!InstallFails,
  UP!InstallFails, U!RollbackRequested, UP!RollbackRequested, U!MakeGeneration,
  UP!MakeGeneration, U!FillGeneration, UP!FillGeneration, U!RestoreAlias, UP!RestoreAlias,
  U!EmptyLegacy, UP!EmptyLegacy, U!RefillLegacy, UP!RefillLegacy, U!ReturnEntry,
  UP!ReturnEntry, U!Repoint, UP!Repoint, U!Handoff, UP!Handoff, U!Cut, UP!Cut, U!Boot, UP!Boot,
  U!BacksUp, UP!BacksUp, U!Installs, UP!Installs, U!Restores, UP!Restores

LEMMA SecondAtWork == MCSpec => [](part = "cuts" => UP!NoLaterSafe)
<1> DEFINE Inv == part = "cuts" => UP!NoLaterSafe
<1>1. MCInit => Inv
  <2>1. U!Init => UP!Init
    BY DEF U!Init, UP!Init, U!Generations, UP!Generations, U!Versions, UP!Versions,
       U!Release, UP!Release, U!Absent, UP!Absent
  <2> QED
    BY <2>1, SecondConstants, UP!NoLaterBase DEF MCInit
<1>2. Inv /\ [MCNext]_<<part, vars, two, certification, commands, policies>> => Inv'
  <2> SUFFICES ASSUME Inv, [MCNext]_<<part, vars, two, certification, commands, policies>>,
                      part' = "cuts"
               PROVE  UP!NoLaterSafe'
    OBVIOUS
  <2>1. part = "cuts" /\ (U!Next \/ two' = two)
    BY DEF MCNext
  <2>2. two' = two => UP!vars' = UP!vars
    BY DEF UP!vars, UP!disk, UP!control, two
  <2>3. [UP!Next]_(UP!vars)
    BY <2>1, <2>2, SecondNext
  <2> QED
    BY <2>1, <2>3, SecondConstants, UP!NoLaterInductive
<1> QED
  BY <1>1, <1>2, PTL DEF MCSpec

\* Wherever the power interrupts an upgrade or its rollback, no agent runs with the
\* libraries of a later version (update_storage.sh, wrtmonitor-agent).
THEOREM NoLaterAfterCut == MCSpec => []NeverLaterLibraries
<1>1. UP!NoLaterSafe => UP!NoLaterLibraries
  BY SecondConstants, UP!NoLaterFollows DEF UP!NoLaterSafe
<1>2. UP!NoLaterLibraries => U!NoLaterLibraries
  BY DEF UP!NoLaterLibraries, U!NoLaterLibraries, UP!Starts, U!Starts, UP!Libraries, U!Libraries
<1>3. (part = "cuts" => UP!NoLaterSafe) => NeverLaterLibraries
  BY <1>1, <1>2 DEF NeverLaterLibraries
<1> QED
  BY <1>3, SecondAtWork, PTL

-----------------------------------------------------------------------------
(* Types. *)

LEMMA FirstAtWork == MCSpec => [](TypeOK /\ RestoreBegan)
<1> DEFINE Inv == TypeOK /\ RestoreBegan
<1>1. MCInit => Inv
  BY TypeInit DEF MCInit, Init, RestoreBegan, RestoreSteps
<1>2. Inv /\ [MCNext]_<<part, vars, two, certification, commands, policies>> => Inv'
  <2>1. [MCNext]_<<part, vars, two, certification, commands, policies>> => [Next]_vars
    BY DEF MCNext
  <2> QED
    BY <2>1, TypeStep
<1> QED
  BY <1>1, <1>2, PTL DEF MCSpec

\* Every part is well typed in every state (update.sh, hardware_certify.py).
THEOREM AgentTyped == MCSpec => []Typed
<1>1. UP!TypeOK => U!TypeOK
  BY DEF U!TypeOK, UP!TypeOK, U!Generations, UP!Generations, U!Versions, UP!Versions,
     U!Directories, UP!Directories, U!NoVersion, UP!NoVersion, U!Parts, UP!Parts,
     U!UpdateSteps, UP!UpdateSteps, U!RestoreSteps, UP!RestoreSteps
<1>2. /\ TypeOK /\ RestoreBegan
      /\ part = "cuts" => UP!NoLaterSafe
      /\ part = "certification" => H!CertInv
      => Typed
  BY <1>1, CertFollows DEF Typed, UP!NoLaterSafe
<1> QED
  BY <1>2, FirstAtWork, SecondAtWork, CertificationAtWork, PTL
=============================================================================
