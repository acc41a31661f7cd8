------------------------------ MODULE Sessions ------------------------------
(***************************************************************************)
(* The sessions of the owner's phone: the server keeps the hash of one     *)
(* refresh token per session and replaces it at every refresh; the app     *)
(* keeps an access token for 15 minutes and the refresh token, and renews  *)
(* both when a request is answered 401, one renewal at a time              *)
(* (SessionRefreshCoordinator).  A session begins with a login or with a   *)
(* QR code shown by the web page.                                          *)
(*                                                                         *)
(* A refresh locks its row and is one step.  Left out: the 30 days of a    *)
(* refresh token, the limits on attempts, the change of the server's       *)
(* address, the sessions of browsers (a cookie without a row).             *)
(***************************************************************************)
EXTENDS Naturals, FiniteSets

CONSTANTS
  SessionIds, Codes,  \* rows of user_sessions and of mobile_pairing_tokens (bounds)
  Calls,              \* requests the app has under way at the same time
  MaxAccess           \* access tokens issued (bound)

VARIABLES
  sessions,  \* number of the refresh token in force (0: no row), revoked_at is set
  codes,     \* the columns of a pairing token, whether a revocation has read it as
             \* active, the exchanges that have, and the sessions opened with it
  issued, expired,  \* access tokens issued, and how many of them are over
  store,     \* SessionStore: the session and numbers of the tokens, or Out
  calls,     \* what a request waits for, and what expireSession has captured
  leaving,   \* the session that is being logged out, 0 for none
  ousted,    \* history: sessions the app has given up as expired
  astray     \* history: sessions whose newest refresh token was lost on the way to
             \* the store, or that met the answer to the refresh of an earlier one

sessionVars == <<sessions, codes, issued, expired, store, calls, leaving, ousted, astray>>

-----------------------------------------------------------------------------
Out == [session |-> 0, refresh |-> 0, access |-> 0]
Ready == [step |-> "ready"]
NoCode == [made |-> FALSE, used |-> FALSE, revoked |-> FALSE, replaced |-> FALSE,
           expired |-> FALSE, read |-> FALSE, checked |-> 0, opened |-> {}]
Unused == {s \in SessionIds : sessions[s].count = 0}
Revoked == {s \in SessionIds : sessions[s].revoked}
Active(p) == codes[p].made /\ ~codes[p].used /\ ~codes[p].revoked /\ ~codes[p].expired

SessionInit ==
  /\ sessions = [s \in SessionIds |-> [count |-> 0, revoked |-> FALSE]]
  /\ codes = [p \in Codes |-> NoCode]
  /\ issued = 0 /\ expired = 0 /\ store = Out
  /\ calls = [c \in Calls |-> Ready] /\ leaving = 0
  /\ ousted = {} /\ astray = {}

\* create_access_token lives for 15 minutes.
Expire ==
  /\ expired < issued /\ expired' = expired + 1
  /\ UNCHANGED <<sessions, codes, issued, store, calls, leaving, ousted, astray>>

\* create_user_session; the answer reaches this phone, which has no session, or it
\* is lost, or another phone asked.
Opened(s, answered) ==
  /\ answered => store = Out
  /\ s \in Unused /\ issued < MaxAccess
  /\ sessions' = [sessions EXCEPT ![s].count = 1]
  /\ issued' = issued + 1
  /\ store' = IF answered THEN [session |-> s, refresh |-> 1, access |-> issued + 1] ELSE store
  /\ UNCHANGED <<expired, calls, leaving, ousted, astray>>

Login(s, answered) == Opened(s, answered) /\ UNCHANGED codes

-----------------------------------------------------------------------------
(* Pairing codes. *)

\* create_pairing_token, one at a time per user, waits for the exchange of an active
\* code and revokes those that are active still.
CreateCode(p) ==
  /\ ~codes[p].made
  /\ \A q \in Codes : Active(q) => codes[q].checked = 0
  /\ codes' = [q \in Codes |->
                 IF q = p THEN [NoCode EXCEPT !.made = TRUE]
                 ELSE IF Active(q) THEN [codes[q] EXCEPT !.revoked = TRUE, !.replaced = TRUE]
                 ELSE codes[q]]
  /\ UNCHANGED <<sessions, issued, expired, store, calls, leaving, ousted, astray>>
ExpireCode(p) ==
  /\ codes[p].made /\ ~codes[p].expired
  /\ codes' = [codes EXCEPT ![p].expired = TRUE]
  /\ UNCHANGED <<sessions, issued, expired, store, calls, leaving, ousted, astray>>
\* revoke_mobile_pairing_token reads without a lock ...
BeginRevokeCode(p) ==
  /\ Active(p) /\ ~codes[p].read
  /\ codes' = [codes EXCEPT ![p].read = TRUE]
  /\ UNCHANGED <<sessions, issued, expired, store, calls, leaving, ousted, astray>>
\* ... and writes revoked_at, whatever was committed since.
EndRevokeCode(p) ==
  /\ codes[p].read /\ codes[p].checked = 0
  /\ codes' = [codes EXCEPT ![p].read = FALSE, ![p].revoked = TRUE]
  /\ UNCHANGED <<sessions, issued, expired, store, calls, leaving, ousted, astray>>

\* Mutant: the row is read without a lock.
BeginExchangeUnlocked(p) ==
  /\ Active(p)
  /\ codes' = [codes EXCEPT ![p].checked = @ + 1]
  /\ UNCHANGED <<sessions, issued, expired, store, calls, leaving, ousted, astray>>
\* locked_pairing_token, pairing_status.
BeginExchange(p) ==
  /\ Active(p) /\ codes[p].checked = 0
  /\ codes' = [codes EXCEPT ![p].checked = @ + 1]
  /\ UNCHANGED <<sessions, issued, expired, store, calls, leaving, ousted, astray>>
\* The rest of exchange_mobile_pairing_token, by this phone or another one.
EndExchange(p, s, answered) ==
  /\ codes[p].checked > 0
  /\ Opened(s, answered)
  /\ codes' = [codes EXCEPT ![p].checked = @ - 1, ![p].used = TRUE, ![p].opened = @ \cup {s}]

-----------------------------------------------------------------------------
(* The app. *)

\* clearExpiredSession, for a call that renewed session s.
GivenUp(s, cause) ==
  /\ store' = Out
  /\ ousted' = ousted \cup ({store.session} \ {0})
  /\ astray' = astray \cup cause \cup (IF store.session # s THEN {store.session} \ {0} ELSE {})

Ask(c) ==
  /\ calls[c] = Ready /\ store.access # 0
  /\ calls' = [calls EXCEPT ![c] = [step |-> "asking", access |-> store.access]]
  /\ UNCHANGED <<sessions, codes, issued, expired, store, leaving, ousted, astray>>
\* The answer is not 401, or there is none.
Answered(c) ==
  /\ calls[c].step = "asking"
  /\ calls' = [calls EXCEPT ![c] = Ready]
  /\ UNCHANGED <<sessions, codes, issued, expired, store, leaving, ousted, astray>>
\* 401: expireSession captures both tokens of the store, which are not always
\* those of the request.
Unauthorized(c) ==
  /\ calls[c].step = "asking" /\ calls[c].access <= expired
  /\ calls' = [calls EXCEPT ![c] =
                 IF store = Out THEN Ready
                 ELSE [step |-> "waiting", session |-> store.session,
                       refresh |-> store.refresh, access |-> store.access]]
  /\ UNCHANGED <<sessions, codes, issued, expired, store, leaving, ousted, astray>>

Locked == \E c \in Calls : calls[c].step \in {"renewing", "renewed"}
\* Mutant: each renews.
EnterAlways(c) ==
  /\ calls[c].step = "waiting" /\ ~Locked
  /\ calls' = [calls EXCEPT ![c].step = "renewing"]
  /\ UNCHANGED <<sessions, codes, issued, expired, store, leaving, ousted, astray>>
\* SessionRefreshCoordinator: nothing to do when the access token is a new one.
Enter(c) ==
  /\ calls[c].step = "waiting" /\ ~Locked
  /\ calls' = [calls EXCEPT ![c] =
                 IF store.access \notin {0, calls[c].access} THEN Ready
                 ELSE [@ EXCEPT !.step = "renewing"]]
  /\ UNCHANGED <<sessions, codes, issued, expired, store, leaving, ousted, astray>>

InForce(c) ==
  /\ sessions[calls[c].session].count = calls[c].refresh
  /\ ~sessions[calls[c].session].revoked
\* refresh_access_token, with the row locked.
Refresh(c) ==
  /\ calls[c].step = "renewing" /\ InForce(c) /\ issued < MaxAccess
  /\ sessions' = [sessions EXCEPT ![calls[c].session].count = @ + 1]
  /\ issued' = issued + 1
  /\ calls' = [calls EXCEPT ![c] =
                 [step |-> "renewed", session |-> @.session, refresh |-> @.refresh + 1,
                  access |-> issued + 1]]
  /\ UNCHANGED <<codes, expired, store, leaving, ousted, astray>>
\* persistTokens.
Persist(c) ==
  /\ calls[c].step = "renewed"
  /\ store' = [session |-> calls[c].session, refresh |-> calls[c].refresh,
               access |-> calls[c].access]
  /\ astray' = IF store.session \in {0, calls[c].session} THEN astray
               ELSE astray \cup {store.session}
  /\ calls' = [calls EXCEPT ![c] = Ready]
  /\ UNCHANGED <<sessions, codes, issued, expired, leaving, ousted>>
RefreshRefused(c) ==
  /\ calls[c].step = "renewing" /\ ~InForce(c)
  /\ GivenUp(calls[c].session, {})
  /\ calls' = [calls EXCEPT ![c] = Ready]
  /\ UNCHANGED <<sessions, codes, issued, expired, leaving>>
\* No connection, or the answer is lost: refreshRequest gives null either way.
RefreshFails(c) ==
  /\ calls[c].step \in {"renewing", "renewed"}
  /\ GivenUp(calls[c].session, {calls[c].session})
  /\ calls' = [calls EXCEPT ![c] = Ready]
  /\ UNCHANGED <<sessions, codes, issued, expired, leaving>>

BeginLogout ==
  /\ store # Out /\ leaving = 0
  /\ leaving' = store.session
  /\ UNCHANGED <<sessions, codes, issued, expired, store, calls, ousted, astray>>
\* logout revokes by the id in the token, also by one that was replaced.
EndLogout(reached) ==
  /\ leaving # 0
  /\ sessions' = IF reached THEN [sessions EXCEPT ![leaving].revoked = TRUE] ELSE sessions
  /\ store' = Out /\ leaving' = 0
  /\ UNCHANGED <<codes, issued, expired, calls, ousted, astray>>

\* The system ends the app: what was under way is forgotten.
Killed ==
  /\ calls' = [c \in Calls |-> Ready] /\ leaving' = 0
  /\ astray' = astray \cup {calls[c].session : c \in {d \in Calls : calls[d].step = "renewed"}}
  /\ UNCHANGED <<sessions, codes, issued, expired, store, ousted>>

-----------------------------------------------------------------------------
(* The owner at the account page. *)

RevokeSession(s) ==
  /\ sessions[s].count > 0
  /\ sessions' = [sessions EXCEPT ![s].revoked = TRUE]
  /\ UNCHANGED <<codes, issued, expired, store, calls, leaving, ousted, astray>>
\* change_password: revoke_all_user_sessions.
ChangePassword ==
  /\ sessions' = [s \in SessionIds |-> IF sessions[s].count = 0 THEN sessions[s]
                                       ELSE [sessions[s] EXCEPT !.revoked = TRUE]]
  /\ UNCHANGED <<codes, issued, expired, store, calls, leaving, ousted, astray>>

SessionNext ==
  \/ Expire
  \/ \E s \in SessionIds, answered \in BOOLEAN : Login(s, answered)
  \/ \E p \in Codes : CreateCode(p)
  \/ \E p \in Codes : ExpireCode(p)
  \/ \E p \in Codes : BeginRevokeCode(p)
  \/ \E p \in Codes : EndRevokeCode(p)
  \/ \E p \in Codes : BeginExchange(p)
  \/ \E p \in Codes, s \in SessionIds, answered \in BOOLEAN : EndExchange(p, s, answered)
  \/ \E c \in Calls : Ask(c)
  \/ \E c \in Calls : Answered(c)
  \/ \E c \in Calls : Unauthorized(c)
  \/ \E c \in Calls : Enter(c)
  \/ \E c \in Calls : Refresh(c)
  \/ \E c \in Calls : Persist(c)
  \/ \E c \in Calls : RefreshRefused(c)
  \/ \E c \in Calls : RefreshFails(c)
  \/ BeginLogout
  \/ \E reached \in BOOLEAN : EndLogout(reached)
  \/ Killed
  \/ \E s \in SessionIds : RevokeSession(s)
  \/ ChangePassword

SessionSpec == SessionInit /\ [][SessionNext]_sessionVars

-----------------------------------------------------------------------------
(* Why they do: the inductive invariants. *)

CodeRows ==
  [made : BOOLEAN, used : BOOLEAN, revoked : BOOLEAN, replaced : BOOLEAN,
   expired : BOOLEAN, read : BOOLEAN, checked : {0, 1}, opened : SUBSET SessionIds]
Tokens == [session : SessionIds, refresh : Nat, access : Nat]
Holding == [step : {"waiting", "renewing", "renewed"},
            session : SessionIds, refresh : Nat, access : Nat]
Steps == {Ready} \cup [step : {"asking"}, access : Nat] \cup Holding

SessionTypeOK ==
  /\ sessions \in [SessionIds -> [count : Nat, revoked : BOOLEAN]]
  /\ issued \in Nat /\ expired \in Nat
  /\ store \in Tokens \cup {Out} /\ leaving \in SessionIds \cup {0}
  /\ calls \in [Calls -> Steps]

\* One code is active, and one that is being exchanged was nothing but made.
CodesOK ==
  /\ codes \in [Codes -> CodeRows]
  /\ \A p, q \in Codes : Active(p) /\ Active(q) => p = q
  /\ \A p \in Codes :
       /\ ~codes[p].made => codes[p] = NoCode
       /\ codes[p].replaced => codes[p].revoked /\ codes[p].opened = {}
       /\ codes[p].checked = 1 => ~codes[p].used /\ ~codes[p].replaced
       /\ ~codes[p].used => codes[p].opened = {}
       /\ \A s, t \in codes[p].opened : s = t

Holds(c) == calls[c].step \in {"waiting", "renewing", "renewed"}
Renews(c) == calls[c].step \in {"renewing", "renewed"}
Known(x) == sessions[x.session].count > 0 /\ x.access \in 1..issued
\* An access token belongs to one session and one refresh token.
Agree(x, y) == x.access = y.access => x.session = y.session /\ x.refresh = y.refresh
TokensOK ==
  /\ store # Out => Known(store)
  /\ \A c \in Calls : Holds(c) =>
       /\ Known(calls[c])
       /\ store # Out => Agree(calls[c], store)
       /\ \A d \in Calls : Holds(d) => Agree(calls[c], calls[d])

\* One call renews at a time, with the token that the app still has or has lost.
RenewalsOK ==
  /\ \A c, d \in Calls : Renews(c) /\ Renews(d) => c = d
  /\ \A c \in Calls :
       /\ calls[c].step = "renewed" => sessions[calls[c].session].count = calls[c].refresh
       /\ calls[c].step = "renewing" /\ store.session = calls[c].session =>
            store.refresh = calls[c].refresh

-----------------------------------------------------------------------------
\* A code is good for one session, and only the newest is good: a code that a
\* newer one has replaced has opened no session, however exchange, creation and
\* revocation overtake each other (docs/server-operations.md).
CodesAreOneTime ==
  /\ Cardinality({p \in Codes : Active(p)}) <= 1
  /\ \A p \in Codes : Cardinality(codes[p].opened) <= (IF codes[p].replaced THEN 0 ELSE 1)

\* Requests that fail together do not renew against each other: as long as no
\* answer to a renewal is lost, the app holds the refresh token in force, and it
\* gives up a session only when that was revoked.
StaysIn ==
  /\ ousted \ astray \subseteq Revoked
  /\ store.session \notin astray \cup Revoked \cup {0} =>
       \/ sessions[store.session].count = store.refresh
       \/ \E c \in Calls : calls[c].step = "renewed" /\ calls[c].session = store.session

\* The inductive invariant of StaysIn.
RenewalInv == SessionTypeOK /\ TokensOK /\ RenewalsOK /\ StaysIn

\* The app returns to the login only when its session was revoked
\* (docs/android.md), whatever becomes of single requests.
OnlyRevokedEnds == ousted \subseteq Revoked
=============================================================================
