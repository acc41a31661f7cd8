--------------------------- MODULE ClientPolicies ---------------------------
(***************************************************************************)
(* The policy of a client: its own, or that of the profile it belongs to.  *)
(* The server keeps what is wanted and queues a client.set_policy command  *)
(* for it; the page says "applied" when the newest command succeeded with  *)
(* what is wanted now (client_policy_application).  A profile may also be  *)
(* given to a Wi-Fi interface, which the server knows of from telemetry    *)
(* only.  Commands for the two do not touch each other: one is looked at.  *)
(*                                                                         *)
(* Requests run side by side.  Each reads client and profile, works out    *)
(* what it changes, takes the time of its command, and commits the columns *)
(* whose value it changed; another may commit between any two of these     *)
(* steps.  Commands are numbered in the order of created_at, and delivered *)
(* as in CommandLifecycle: a lost delivery is repeated when its lease is   *)
(* over, after commands that were queued later.                            *)
(***************************************************************************)
EXTENDS Naturals, Sequences, FiniteSets

CONSTANTS
  Policies, Owned,   \* policies of profiles and of clients, beside "open"
  Requesters,        \* requests that are served at the same time (bound)
  MaxJobs, MaxTries  \* commands, and deliveries of one (bounds)

VARIABLES
  watched,  \* the target looked at
  profile,  \* the policy of the profile, or "gone"
  member,   \* client.profile_id is the profile
  own,      \* client.policy, "none" when it is {}
  drafts,   \* requests that have read and not yet committed
  jobs,     \* commands for the target, in the order of created_at
  inbox,    \* commands that the agent has received and not run
  router,   \* the policy in force for the target
  told,     \* the newest telemetry: the interface has the profile
  loose     \* history: the wish changed behind the newest command (see Loosened)

policyVars == <<watched, profile, member, own, drafts, jobs, inbox, router, told, loose>>

Targets == {"client", "wifi"}
NoDraft == [open |-> FALSE]
Unborn(policy) ==
  [policy |-> policy, status |-> "unborn", tries |-> 0, ran |-> "no", late |-> FALSE]

PolicyInit ==
  /\ watched \in Targets
  /\ profile = (CHOOSE p \in Policies : TRUE) /\ member = FALSE /\ own = "none"
  /\ drafts = [r \in Requesters |-> NoDraft]
  /\ jobs = <<>> /\ inbox = <<>>
  /\ router = IF watched = "client" THEN "open" ELSE "off"
  /\ told = FALSE
  /\ loose = FALSE

\* effective_policy: a policy of its own, which is always complete, hides the
\* whole of the profile's.
Effective(m, o, p) == IF o # "none" THEN o ELSE IF m /\ p # "gone" THEN p ELSE "open"

-----------------------------------------------------------------------------
(* The requests: what they read, ... *)

\* A request: the columns it changes ("kept" otherwise; "same" is a profile that
\* only gets a new updated_at), whether it writes the row of the client at all, what
\* it asks of the router, its command, and whether no other commit came in between.
Draft(joins, policy, shared, row, asks) ==
  [open |-> TRUE, member |-> joins, own |-> policy, profile |-> shared, row |-> row,
   asks |-> asks, at |-> 0, fresh |-> TRUE]

\* Commands, and requests that have yet to create theirs.
Places == Len(jobs) + Cardinality({r \in Requesters :
            drafts[r].open /\ drafts[r].asks # "nothing" /\ drafts[r].at = 0})

Begin(r, draft) ==
  /\ drafts[r] = NoDraft
  /\ Places < MaxJobs
  /\ drafts' = [drafts EXCEPT ![r] = draft]
  /\ UNCHANGED <<watched, profile, member, own, jobs, inbox, router, told, loose>>

\* What a request may say of the profile and of the policy; either may be left out.
Settings == {"kept", "joins", "leaves"} \X (Owned \cup {"kept", "none"})

\* _update_client_record and the form of the page: with no profile an empty policy
\* is made complete; a value that is what it was is not written.
Changed(s, queues) ==
  LET m == IF s[1] = "kept" THEN member ELSE s[1] = "joins"
      o == IF s[2] = "kept" THEN own ELSE s[2]
  IN  Draft(IF m = member THEN "kept" ELSE s[1], IF o = own THEN "kept" ELSE o, "kept", TRUE,
            IF queues THEN Effective(m, o, profile) ELSE "nothing")
Allowed(s) ==
  /\ watched = "client"
  /\ s[1] = "joins" => profile # "gone"
  /\ s[2] = "none" => s[1] = "joins" \/ (s[1] = "kept" /\ member)

\* configure_client and web_client_policy change the client and queue a command, ...
BeginConfigure(r, s) == Allowed(s) /\ Begin(r, Changed(s, TRUE))
\* ... update_client queues nothing, ...
BeginPatch(r, s) == Allowed(s) /\ Begin(r, Changed(s, FALSE))
\* ... apply_policy changes nothing, nor does set_wifi_access_profile.
BeginApply(r) ==
  watched = "client" /\ Begin(r, Draft("kept", "kept", "kept", FALSE, Effective(member, own, profile)))
BeginSetWifi(r, given) ==
  /\ watched = "wifi" /\ (given => profile # "gone")
  /\ Begin(r, Draft("kept", "kept", "kept", FALSE, IF given THEN profile ELSE "off"))

\* Mutant: the members are asked for the policy they have left.
ProfileJobKept(p) ==
  IF watched = "client" THEN IF member THEN Effective(TRUE, own, profile) ELSE "nothing"
  ELSE IF ~told THEN "nothing" ELSE IF p = "gone" THEN "off" ELSE p
\* queue_profile_commands: the interfaces of the last telemetry, and the members.
ProfileJob(p) ==
  IF watched = "client" THEN IF member THEN Effective(TRUE, own, p) ELSE "nothing"
  ELSE IF ~told THEN "nothing" ELSE IF p = "gone" THEN "off" ELSE p
BeginUpdateProfile(r, p) ==
  /\ profile # "gone"
  /\ Begin(r, Draft("kept", "kept", IF p = profile THEN "same" ELSE p, FALSE, ProfileJob(p)))
BeginDeleteProfile(r) ==
  /\ profile # "gone"
  /\ Begin(r, Draft(IF member THEN "leaves" ELSE "kept", "kept", "gone", member, ProfileJob("gone")))

\* ... the time they give their command (create_device_command), ...
Stamp(r) ==
  /\ drafts[r].open /\ drafts[r].asks # "nothing" /\ drafts[r].at = 0
  /\ jobs' = Append(jobs, Unborn(drafts[r].asks))
  /\ drafts' = [drafts EXCEPT ![r].at = Len(jobs) + 1]
  /\ UNCHANGED <<watched, profile, member, own, inbox, router, told, loose>>

\* ... and what they leave behind: a profile that is deleted takes its members'
\* profile_id with it (ON DELETE SET NULL), those who joined meanwhile included.
ProfileAfter(draft) == IF draft.profile \in {"kept", "same"} THEN profile ELSE draft.profile
MemberAfter(draft) ==
  IF draft.member = "kept" THEN member /\ ProfileAfter(draft) # "gone" ELSE draft.member = "joins"
OwnAfter(draft) == IF draft.own = "kept" THEN own ELSE draft.own

\* A profile that has gone can neither be joined (the foreign key) nor updated.
Sound(draft) ==
  draft.member = "joins" \/ draft.profile \in Policies \cup {"same"} => profile # "gone"

\* The newest command no longer speaks for the wish: it was queued by a request that
\* another had overtaken, or a change came without a command for the target.
Loosened(draft) ==
  IF draft.asks # "nothing" THEN ~draft.fresh
  ELSE \/ loose \/ draft.member # "kept" \/ draft.own # "kept"
       \/ draft.profile \notin {"kept", "same"} /\ (watched = "wifi" \/ ~draft.fresh)

\* Every other request has now read what may be out of date.
Overtaken(open) ==
  [r \in Requesters |-> IF open[r].open THEN [open[r] EXCEPT !.fresh = FALSE] ELSE open[r]]

\* A command is late when a later one has been handed out before it could be seen.
Seen(job, late) == [job EXCEPT !.status = "queued", !.late = late]
Passed(i) == \E j \in DOMAIN jobs : i < j /\ jobs[j].tries > 0
Born(i) == [jobs EXCEPT ![i] = Seen(@, Passed(i))]

Commit(r) ==
  LET draft == drafts[r] IN
  /\ draft.open /\ Sound(draft)
  /\ draft.asks # "nothing" => draft.at # 0
  /\ profile' = ProfileAfter(draft) /\ member' = MemberAfter(draft) /\ own' = OwnAfter(draft)
  /\ jobs' = IF draft.at = 0 THEN jobs ELSE Born(draft.at)
  /\ drafts' = Overtaken([drafts EXCEPT ![r] = NoDraft])
  /\ loose' = Loosened(draft)
  /\ UNCHANGED <<watched, inbox, router, told>>

\* The commit fails and leaves nothing but a time that no command has.
Refuse(r) ==
  /\ drafts[r].open /\ ~Sound(drafts[r])
  /\ drafts' = [drafts EXCEPT ![r] = NoDraft]
  /\ UNCHANGED <<watched, profile, member, own, jobs, inbox, router, told, loose>>

\* delete_client: the router keeps its rules; the client that is seen again starts
\* without a profile and without a policy.  A request that writes its row fails.
Forget ==
  /\ watched = "client"
  /\ member' = FALSE /\ own' = "none" /\ loose' = TRUE
  /\ drafts' = Overtaken([r \in Requesters |->
                  IF drafts[r].open THEN IF drafts[r].row THEN NoDraft ELSE drafts[r]
                  ELSE drafts[r]])
  /\ UNCHANGED <<watched, profile, jobs, inbox, router, told>>

Telemetry ==
  /\ watched = "wifi"
  /\ told' = (router # "off")
  /\ UNCHANGED <<watched, profile, member, own, drafts, jobs, inbox, router, loose>>

-----------------------------------------------------------------------------
(* Delivery. *)

Queued == {i \in DOMAIN jobs : jobs[i].status = "queued"}
\* What is queued, oldest first.
Listed == {list \in [1..Cardinality(Queued) -> Queued] :
             \A k, l \in DOMAIN list : k < l => list[k] < list[l]}

Sent(job) == [job EXCEPT !.status = "sent", !.tries = @ + 1]
\* A poll takes what is queued; its answer may be lost.
Deliver(lost) ==
  /\ Queued # {}
  /\ jobs' = [i \in DOMAIN jobs |->
                IF i \in Queued THEN Sent(jobs[i]) ELSE jobs[i]]
  /\ IF lost THEN UNCHANGED inbox ELSE \E list \in Listed : inbox' = inbox \o list
  /\ UNCHANGED <<watched, profile, member, own, drafts, router, told, loose>>

LeaseOver(i) ==
  /\ jobs[i].status = "sent"
  /\ jobs' = [jobs EXCEPT ![i].status = IF jobs[i].tries < MaxTries THEN "queued" ELSE "failed"]
  /\ UNCHANGED <<watched, profile, member, own, drafts, inbox, router, told, loose>>

Ran(job, works) == [job EXCEPT !.ran = IF works THEN "done" ELSE "failed",
                               !.status = IF @ = "sent" THEN "running" ELSE @]
\* The agent has a command acknowledged and runs it once: one that is queued
\* again is refused (409), one that is already given up is not.  What fails
\* leaves the router as it was.
Run(works) ==
  /\ inbox # <<>>
  /\ LET i == Head(inbox) IN
     /\ inbox' = Tail(inbox)
     /\ IF jobs[i].ran # "no" \/ jobs[i].status = "queued" THEN UNCHANGED <<jobs, router>>
        ELSE /\ jobs' = [jobs EXCEPT ![i] = Ran(@, works)]
             /\ router' = IF works THEN jobs[i].policy ELSE router
  /\ UNCHANGED <<watched, profile, member, own, drafts, told, loose>>

Answer(i) ==
  /\ jobs[i].ran # "no" /\ jobs[i].status = "running"
  /\ jobs' = [jobs EXCEPT ![i].status = IF jobs[i].ran = "done" THEN "success" ELSE "failed"]
  /\ UNCHANGED <<watched, profile, member, own, drafts, inbox, router, told, loose>>

PolicyNext ==
  \/ \E r \in Requesters, s \in Settings : BeginConfigure(r, s) \/ BeginPatch(r, s)
  \/ \E r \in Requesters : BeginApply(r) \/ BeginDeleteProfile(r)
  \/ \E r \in Requesters, p \in Policies : BeginUpdateProfile(r, p)
  \/ \E r \in Requesters, given \in BOOLEAN : BeginSetWifi(r, given)
  \/ \E r \in Requesters : Stamp(r) \/ Commit(r) \/ Refuse(r)
  \/ Forget \/ Telemetry
  \/ \E lost \in BOOLEAN : Deliver(lost)
  \/ \E works \in BOOLEAN : Run(works)
  \/ \E i \in DOMAIN jobs : LeaseOver(i) \/ Answer(i)

PolicySpec == PolicyInit /\ [][PolicyNext]_policyVars

-----------------------------------------------------------------------------
(* What is shown, and the properties. *)

Known == {i \in DOMAIN jobs : jobs[i].status # "unborn"}
Last(i) == i \in Known /\ \A j \in Known : j <= i
Newest == CHOOSE i \in Known : \A j \in Known : j <= i

\* Mutant: a command that succeeded is enough.
ApplicationOfStatus ==
  IF Known = {} THEN "unconfigured"
  ELSE LET job == jobs[Newest] IN
       IF job.status \in {"queued", "sent", "running"} THEN "applying"
       ELSE IF job.status = "success" THEN "applied" ELSE "error"
\* client_policy_application.
Application ==
  IF Known = {} THEN "unconfigured"
  ELSE LET job == jobs[Newest] IN
       IF job.status \in {"queued", "sent", "running"} THEN "applying"
       ELSE IF job.status = "success" /\ job.policy = Effective(member, own, profile)
            THEN "applied" ELSE "error"

\* An older command that ran after the newest: it was delivered again, or its request
\* committed when a later one had been handed out.
Overtakes(i) ==
  i \in Known /\ i < Newest /\ jobs[i].ran = "done" /\ (jobs[i].tries > 1 \/ jobs[i].late)

\* "Applied" is the truth: what is in force is what is wanted, though requests
\* race with each other, members are changed behind the command's back and
\* results come late.  The exceptions are the delivery that was lost and repeated
\* and the command that was created first and committed last: these may run after
\* the newest command, and nobody looks again.
AppliedIsInForce ==
  watched = "client" /\ Application = "applied" /\ ~(\E i \in Known : Overtakes(i)) =>
    router = Effective(member, own, profile)

\* What the newest command asks for is what is wanted now: a change of the client
\* or of the profile reaches the client, its members and the interfaces that
\* telemetry tells of, and the deletion of the profile asks for their release.
\* Nothing is promised when requests race: from a commit before which another
\* request had committed since it read (each writes only the columns it changed, so
\* that both leave a mix neither asked for), and from a change that queues nothing
\* (update_client, delete_client, an interface telemetry does not tell of), until a
\* request that nobody overtakes queues a command for the target.
WantedIsAsked ==
  ~loose =>
    IF watched = "client"
      THEN Effective(member, own, profile) = IF Known = {} THEN "open" ELSE jobs[Newest].policy
      ELSE Known # {} => jobs[Newest].policy \in {"off", profile}

-----------------------------------------------------------------------------
(* Why they do: the inductive invariant. *)

Wishes == Policies \cup Owned \cup {"open", "off", "gone"}
Jobs == [policy : Wishes, tries : Nat, ran : {"no", "done", "failed"}, late : BOOLEAN,
         status : {"unborn", "queued", "sent", "running", "success", "failed"}]
Drafts == {NoDraft} \cup
          [open : {TRUE}, member : {"kept", "joins", "leaves"}, own : Owned \cup {"kept", "none"},
           profile : Policies \cup {"kept", "same", "gone"}, row : BOOLEAN,
           asks : Wishes \cup {"nothing"}, at : Nat, fresh : BOOLEAN]

PolicyTypeOK ==
  /\ watched \in Targets /\ profile \in Policies \cup {"gone"}
  /\ member \in BOOLEAN /\ own \in Owned \cup {"none"}
  /\ drafts \in [Requesters -> Drafts]
  /\ jobs \in Seq(Jobs) /\ inbox \in Seq(Nat)
  /\ router \in Wishes /\ told \in BOOLEAN /\ loose \in BOOLEAN

\* A command waits for the commit of one request, which asks for its policy.
StampsOK ==
  /\ \A r \in Requesters : drafts[r].open /\ drafts[r].at # 0 =>
       /\ drafts[r].at \in DOMAIN jobs /\ drafts[r].asks # "nothing"
       /\ jobs[drafts[r].at].status = "unborn"
       /\ jobs[drafts[r].at].policy = drafts[r].asks
  /\ \A q, r \in Requesters :
       drafts[q].open /\ drafts[r].open /\ drafts[q].at = drafts[r].at /\ drafts[q].at # 0 => q = r

\* A request leaves what it asks for; without a command it changes nothing behind the
\* back of those there are.
Speaks(draft) ==
  LET after == Effective(MemberAfter(draft), OwnAfter(draft), ProfileAfter(draft)) IN
  IF draft.asks = "nothing"
    THEN watched = "client" /\ draft.member = "kept" /\ draft.own = "kept" =>
           after = Effective(member, own, profile)
    ELSE /\ watched = "client" => draft.asks = after
         /\ watched = "wifi" => draft.asks \in {"off", ProfileAfter(draft)}

\* One that nobody has overtaken does, and its command is later than those that can
\* be seen, of which one is the newest.
FreshOK ==
  /\ \A r \in Requesters : drafts[r].open /\ drafts[r].fresh =>
       Speaks(drafts[r]) /\ (drafts[r].at # 0 => \A j \in Known : j < drafts[r].at)
  /\ Known = {} \/ \E i \in Known : Last(i)

\* Commands come to be delivered in their order, except those that are late.
DeliveredInOrder ==
  \A i \in DOMAIN jobs :
    /\ jobs[i].status = "success" => jobs[i].ran = "done"
    /\ jobs[i].status = "unborn" => jobs[i].tries = 0 /\ ~jobs[i].late
    /\ jobs[i].tries = 0 => jobs[i].status \in {"unborn", "queued"} /\ jobs[i].ran = "no"
    /\ jobs[i].tries = 0 /\ jobs[i].status = "queued" /\ ~jobs[i].late =>
         \A j \in DOMAIN jobs : i < j => jobs[j].tries = 0

\* A command that was delivered once, and is not late, waits behind older ones, and
\* none that is newer has run before it.
Prompt(i) == jobs[i].tries = 1 /\ ~jobs[i].late
InboxOK ==
  /\ \A k \in DOMAIN inbox : inbox[k] \in DOMAIN jobs /\ jobs[inbox[k]].tries > 0
  /\ \A k, l \in DOMAIN inbox : k < l /\ Prompt(inbox[l]) => inbox[k] < inbox[l]
  /\ \A k \in DOMAIN inbox : Prompt(inbox[k]) =>
       \A j \in DOMAIN jobs : inbox[k] <= j => jobs[j].ran = "no"

\* When the newest command has run, it or one that overtook it is in force.
InForce ==
  \A i \in Known : Last(i) /\ jobs[i].ran = "done" =>
    \/ router = jobs[i].policy
    \/ \E j \in Known : j < i /\ jobs[j].ran = "done" /\ (jobs[j].tries > 1 \/ jobs[j].late)

\* WantedIsAsked, of whichever command is the newest.
Asked ==
  ~loose =>
    /\ watched = "client" =>
         /\ Known = {} => Effective(member, own, profile) = "open"
         /\ \A i \in Known : Last(i) => jobs[i].policy = Effective(member, own, profile)
    /\ watched = "wifi" =>
         \A i \in Known : Last(i) => jobs[i].policy \in {"off", profile}

PolicyInv ==
  /\ PolicyTypeOK /\ StampsOK /\ FreshOK
  /\ DeliveredInOrder /\ InboxOK /\ InForce /\ Asked
=============================================================================
