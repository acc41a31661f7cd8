--------------------------- MODULE TokenRotation ---------------------------
(***************************************************************************)
(* Replacing the token an agent authenticates with.  The server issues a   *)
(* new token and keeps the one it replaces for a grace period; the agent   *)
(* writes the new token to UCI and confirms it, or, when it cannot write,  *)
(* asks the server with a one-time nonce to roll back.  Any answer can be  *)
(* lost, an abandoned request can still be served later, and the agent can *)
(* crash.                                                                  *)
(*                                                                         *)
(* Tokens are numbered in the order the server issues them, 0 is no token; *)
(* the nonce issued with a token has the number of the token.  The server  *)
(* serves the requests of a device one at a time (SELECT ... FOR UPDATE).  *)
(***************************************************************************)
EXTENDS Integers

CONSTANTS
  MaxTokens,   \* tokens issued (bound)
  Grace,       \* ticks a replaced token is still accepted: ten minutes
  MaxClock,    \* last value of the clock (bound)
  Lates        \* abandoned requests that may still be served (bound)

ASSUME RotationAssumption ==
  /\ MaxTokens \in Nat \ {0}
  /\ Grace \in Nat \ {0}
  /\ MaxClock \in Nat

VARIABLES
  token, previous, until, nonce,   \* the device row of the server
  issued,   \* tokens issued so far
  clock,
  stored,   \* device_token in UCI
  fresh,    \* the token and nonce the command has received and not stored
  pc,       \* what the agent is doing
  late,     \* requests the agent no longer waits for
  lost      \* history: rotations since the stored token was the current one

row == <<token, previous, until, nonce, issued>>
agent == <<stored, fresh, pc>>
vars == <<row, clock, agent, late, lost>>

-----------------------------------------------------------------------------
Tokens == 1..MaxTokens
NoRequest == [op |-> "none", auth |-> 0, nonce |-> 0]
Requests == [op : {"none", "rotate", "confirm", "rollback"},
             auth : 0..MaxTokens, nonce : 0..MaxTokens]

\* device_from_token.
Accepted(t) == t = token \/ (t = previous /\ t # 0 /\ clock < until)

\* Type invariant: the row, the agent, and the requests under way.
TypeOK ==
  /\ token \in 1..issued
  /\ previous \in 0..issued
  /\ nonce \in 0..issued
  /\ until \in Nat
  /\ issued \in Tokens
  /\ clock \in 0..MaxClock
  /\ stored \in 1..issued
  /\ fresh \in 0..issued
  /\ pc \in {"idle", "rotate", "save", "confirm", "rollback", "restored"}
  /\ late \in [Lates -> Requests]
  /\ lost \in Nat

Init ==
  /\ token = 1 /\ previous = 0 /\ until = 0 /\ nonce = 0 /\ issued = 1
  /\ clock = 0
  /\ stored = 1 /\ fresh = 0 /\ pc = "idle"
  /\ late = [l \in Lates |-> NoRequest]
  /\ lost = 0

-----------------------------------------------------------------------------
(* The handlers of the server. *)

Clear == previous' = 0 /\ until' = 0 /\ nonce' = 0

\* Mutant: the replaced token is not kept.
RotateAtOnce(auth) ==
  /\ Accepted(auth)
  /\ issued < MaxTokens
  /\ issued' = issued + 1
  /\ token' = issued'
  /\ nonce' = issued'
  /\ previous' = 0
  /\ until' = clock + Grace

\* rotate_device_token; the bound on tokens stands for the end of the history.
RotateToken(auth) ==
  /\ Accepted(auth)
  /\ issued < MaxTokens
  /\ issued' = issued + 1
  /\ token' = issued'
  /\ nonce' = issued'
  /\ previous' = token
  /\ until' = clock + Grace

\* confirm_device_token: the current token only.
ConfirmToken(auth) ==
  /\ Accepted(auth)
  /\ token = auth
  /\ Clear
  /\ UNCHANGED <<token, issued>>

\* Mutant: the expiry of the grace period is not looked at.
RollbackAnytime(auth, n) ==
  /\ previous = auth /\ auth # 0
  /\ nonce = n
  /\ token' = auth
  /\ Clear
  /\ UNCHANGED issued

\* Mutant: the row is cleared before the kept token is copied.
RollbackCleared(auth, n) ==
  /\ previous = auth /\ auth # 0
  /\ nonce = n
  /\ clock < until
  /\ Clear
  /\ token' = previous'
  /\ UNCHANGED issued

\* rollback_device_token: the replaced token, its nonce, within the grace period.
RollbackToken(auth, n) ==
  /\ previous = auth /\ auth # 0
  /\ nonce = n
  /\ clock < until
  /\ token' = auth
  /\ Clear
  /\ UNCHANGED issued

\* 401 or 409: the row is left alone.
Refused(r) ==
  /\ \/ r.op # "rollback" /\ ~Accepted(r.auth)
     \/ r.op = "confirm" /\ token # r.auth
     \/ r.op = "rollback" /\ ~(previous = r.auth /\ nonce = r.nonce /\ clock < until)
  /\ UNCHANGED row

Granted(r) ==
  \/ r.op = "rotate" /\ RotateToken(r.auth)
  \/ r.op = "confirm" /\ ConfirmToken(r.auth)
  \/ r.op = "rollback" /\ RollbackToken(r.auth, r.nonce)

Counted ==
  lost' = IF stored' = token' THEN 0
          ELSE IF issued' > issued THEN lost + 1 ELSE lost

-----------------------------------------------------------------------------
(* The agent: the handler of agent.rotate_token. *)

Asking == pc \in {"rotate", "confirm", "rollback"}
Asked == [op |-> pc, auth |-> stored, nonce |-> IF pc = "rollback" THEN fresh ELSE 0]

\* The command came with a poll, so the stored token was accepted.
RotateCommand ==
  /\ pc = "idle"
  /\ Accepted(stored)
  /\ pc' = "rotate"
  /\ UNCHANGED <<row, clock, stored, fresh, late, lost>>

\* The server answers: the agent goes on with the tokens it got.
Answered ==
  /\ Asking
  /\ Granted(Asked)
  /\ IF pc = "rotate" THEN fresh' = issued' ELSE fresh' = 0
  /\ pc' = CASE pc = "rotate" -> "save" [] pc = "confirm" -> "idle"
             [] pc = "rollback" -> "restored"
  /\ UNCHANGED <<clock, stored, late>>
  /\ Counted

\* It refuses, or was not reached: every failure is swallowed.
NotGranted ==
  /\ Asking
  /\ \/ Refused(Asked) /\ pc' = IF pc = "rollback" THEN "restored" ELSE "idle"
     \/ UNCHANGED row /\ pc' = "idle"
  /\ fresh' = 0
  /\ UNCHANGED <<clock, stored, late, lost>>

\* The request times out or the agent crashes, but the request is on its way.
Abandon ==
  /\ Asking
  /\ \E l \in Lates : late[l] = NoRequest /\ late' = [late EXCEPT ![l] = Asked]
  /\ pc' = "idle"
  /\ fresh' = 0
  /\ UNCHANGED <<row, clock, stored, lost>>

ServedLate(l) ==
  /\ Granted(late[l]) \/ Refused(late[l])
  /\ late' = [late EXCEPT ![l] = NoRequest]
  /\ UNCHANGED <<clock, agent>>
  /\ Counted

\* uci set and uci commit, then the confirmation.
Save ==
  /\ pc = "save"
  /\ stored' = fresh
  /\ fresh' = 0
  /\ pc' = "confirm"
  /\ UNCHANGED <<row, clock, late>>
  /\ Counted

SaveFails ==
  /\ pc = "save"
  /\ pc' = "rollback"
  /\ UNCHANGED <<row, clock, stored, fresh, late, lost>>

Reported ==
  /\ pc = "restored"
  /\ pc' = "idle"
  /\ UNCHANGED <<row, clock, stored, fresh, late, lost>>

\* The shell variables are gone, UCI stays.
Crash ==
  /\ pc # "idle"
  /\ pc' = "idle"
  /\ fresh' = 0
  /\ UNCHANGED <<row, clock, stored, late, lost>>

Tick ==
  /\ clock < MaxClock
  /\ clock' = clock + 1
  /\ UNCHANGED <<row, agent, late, lost>>

Next ==
  \/ RotateCommand \/ Answered \/ NotGranted \/ Abandon
  \/ \E l \in Lates : ServedLate(l)
  \/ Save \/ SaveFails \/ Reported \/ Crash \/ Tick

Spec == Init /\ [][Next]_vars

-----------------------------------------------------------------------------
(* Properties. *)

\* A token that is no longer accepted is never accepted again: neither a late
\* rollback nor a late confirmation revives a replaced token.
RevokedForGood ==
  [][\A t \in 1..issued : ~Accepted(t) => ~Accepted(t)']_vars

\* An agent that misses the answer of one rotation can go on with the token it
\* has stored during the grace period, whatever else is late or lost.
OneLossSurvived ==
  /\ lost = 0 => Accepted(stored)
  /\ lost = 1 /\ clock < until => Accepted(stored)

\* Why: the row keeps the token before the last one issued, its nonce is good
\* for that one only, and the requests under way are older than what the agent
\* has received since.
RowOK ==
  /\ previous < token
  /\ nonce # 0 => nonce = token /\ nonce = issued

RequestsOK ==
  /\ pc \in {"save", "rollback"} => fresh > stored
  /\ \A l \in Lates :
       /\ late[l].op = "confirm" => late[l].auth <= stored
       /\ late[l].op = "rollback" =>
            /\ late[l].nonce # 0
            /\ late[l].nonce # stored
            /\ pc \in {"save", "rollback"} => late[l].nonce < fresh
       /\ late[l].nonce <= issued

LossOK ==
  /\ lost = 0 <=> stored = token
  /\ lost = 1 => previous = stored
  /\ pc \in {"save", "rollback"} => lost > 0 /\ (lost = 1 => token = fresh)

RotationInv == TypeOK /\ RowOK /\ RequestsOK /\ LossOK
=============================================================================
