-------------------------- MODULE CommandRequests --------------------------
(***************************************************************************)
(* The creation of commands with an idempotency key: a client may repeat   *)
(* a request whose answer it did not get, while the first is still being   *)
(* served.  A request is for one router (api/commands.py) or for all of a  *)
(* group in one transaction (api/fleet.py), in the order the query gives.  *)
(*                                                                         *)
(* Rows are written when create_device_command flushes them and belong to  *)
(* the request until its commit; the unique index of the router and the    *)
(* key makes a second writer wait for the first.  What a command asks for  *)
(* is its type.                                                            *)
(***************************************************************************)
EXTENDS Integers, Sequences, SequencesExt

CONSTANTS
  Clients, Keys, Types, Routers,
  MaxCommands, MaxAsked   \* rows ever written, and requests (bounds)

VARIABLES
  rows,      \* id -> router, group, key, type, the request it still belongs to, ended
  requests,  \* a transaction of each client
  asked,     \* number of requests so far
  answers,   \* history: what an answered request was told about one router
  errors,    \* history: 500 instead of an answer
  removed    \* history: commands removed from the history of commands

requestVars == <<rows, requests, asked, answers, errors, removed>>

-----------------------------------------------------------------------------
Ids == 1..MaxCommands
None == 0  \* the owner of a committed row
Undone == -1  \* ... and of one rolled back
Idle == [step |-> "ready", nr |-> None, group |-> FALSE, key |-> 0, type |-> 0,
         todo |-> <<>>, found |-> {}]
Written == DOMAIN rows
Live == {id \in Written \ removed : rows[id].owner # Undone}

\* The group's key is the key of the request and the router's id.
Named(id, q, r) ==
  rows[id].router = r /\ rows[id].group = q.group /\ rows[id].key = q.key
Committed(id) == id \in Live /\ rows[id].owner = None

RequestInit ==
  /\ rows = <<>> /\ asked = 0
  /\ requests = [c \in Clients |-> Idle]
  /\ answers = {} /\ errors = {} /\ removed = {}

Ask(c) ==
  /\ requests[c].step = "ready" /\ asked < MaxAsked
  /\ \E k \in Keys, t \in Types, group \in BOOLEAN :
       \E todo \in IF group THEN SetToSeqs(Routers) ELSE {<<r>> : r \in Routers} :
         requests' = [requests EXCEPT ![c] =
           [step |-> "looking", nr |-> asked + 1, group |-> group, key |-> k, type |-> t,
            todo |-> todo, found |-> {}]]
  /\ asked' = asked + 1
  /\ UNCHANGED <<rows, answers, errors, removed>>

\* What a request has written gets another owner.
Handed(nrs, to) ==
  [id \in Written |-> IF rows[id].owner \in nrs THEN [rows[id] EXCEPT !.owner = to]
                      ELSE rows[id]]
\* The transaction of c is rolled back.
RolledBack(c) ==
  /\ rows' = Handed({requests[c].nr}, Undone)
  /\ requests' = [requests EXCEPT ![c] = Idle]

\* The commands that the select finds: its own rows and those committed.
Existing(c, r) ==
  {id \in Live : Named(id, requests[c], r) /\ rows[id].owner \in {None, requests[c].nr}}

\* Mutant: the type is not compared.
FindAnyType(c) ==
  /\ requests[c].step = "looking" /\ requests[c].todo # <<>>
  /\ \E id \in Existing(c, Head(requests[c].todo)) :
       requests' = [requests EXCEPT ![c].todo = Tail(@), ![c].found = @ \cup {id}]
  /\ UNCHANGED <<rows, asked, answers, errors, removed>>
Find(c) ==
  /\ requests[c].step = "looking" /\ requests[c].todo # <<>>
  /\ \E id \in Existing(c, Head(requests[c].todo)) :
       /\ rows[id].type = requests[c].type
       /\ requests' = [requests EXCEPT ![c].todo = Tail(@), ![c].found = @ \cup {id}]
  /\ UNCHANGED <<rows, asked, answers, errors, removed>>
\* 409: the key is another command's.
Conflict(c) ==
  /\ requests[c].step = "looking" /\ requests[c].todo # <<>>
  /\ \E id \in Existing(c, Head(requests[c].todo)) : rows[id].type # requests[c].type
  /\ RolledBack(c)
  /\ UNCHANGED <<asked, answers, errors, removed>>
NotFound(c) ==
  /\ requests[c].step = "looking" /\ requests[c].todo # <<>>
  /\ Existing(c, Head(requests[c].todo)) = {}
  /\ requests' = [requests EXCEPT ![c].step = "writing"]
  /\ UNCHANGED <<rows, asked, answers, errors, removed>>

\* Rows that the index does not let be written a second time.
Holding(c) == {id \in Live : Named(id, requests[c], Head(requests[c].todo))}
\* Mutant: no unique index.
WriteAgain(c) ==
  /\ requests[c].step = "writing" /\ Len(rows) < MaxCommands
  /\ rows' = Append(rows, [router |-> Head(requests[c].todo), group |-> requests[c].group,
                           key |-> requests[c].key, type |-> requests[c].type,
                           owner |-> requests[c].nr, ended |-> FALSE])
  /\ requests' = [requests EXCEPT ![c].step = "looking", ![c].todo = Tail(@),
                                  ![c].found = @ \cup {Len(rows) + 1}]
  /\ UNCHANGED <<asked, answers, errors, removed>>
\* create_device_command, to the flush in emit_event.
Write(c) ==
  /\ requests[c].step = "writing" /\ Len(rows) < MaxCommands
  /\ Holding(c) = {}
  /\ rows' = Append(rows, [router |-> Head(requests[c].todo), group |-> requests[c].group,
                           key |-> requests[c].key, type |-> requests[c].type,
                           owner |-> requests[c].nr, ended |-> FALSE])
  /\ requests' = [requests EXCEPT ![c].step = "looking", ![c].todo = Tail(@),
                                  ![c].found = @ \cup {Len(rows) + 1}]
  /\ UNCHANGED <<asked, answers, errors, removed>>
\* The flush raises IntegrityError; the handler of create_command is for the commit.
WriteFails(c) ==
  /\ requests[c].step = "writing" /\ \E id \in Holding(c) : Committed(id)
  /\ RolledBack(c)
  /\ errors' = errors \cup {[nr |-> requests[c].nr, cause |-> "exists"]}
  /\ UNCHANGED <<asked, answers, removed>>
\* Two groups in different order: PostgreSQL ends one of the transactions.
WaitsFor(c, d) == \E id \in Holding(c) : rows[id].owner = requests[d].nr
Deadlocked(c) ==
  /\ requests[c].step = "writing"
  /\ \E d \in Clients \ {c} : requests[d].step = "writing" /\ WaitsFor(c, d) /\ WaitsFor(d, c)
  /\ RolledBack(c)
  /\ errors' = errors \cup {[nr |-> requests[c].nr, cause |-> "deadlock"]}
  /\ UNCHANGED <<asked, answers, removed>>

Commit(c) ==
  /\ requests[c].step = "looking" /\ requests[c].todo = <<>>
  /\ rows' = Handed({requests[c].nr}, None)
  /\ answers' = answers \cup {[nr |-> requests[c].nr, group |-> requests[c].group,
                               key |-> requests[c].key, type |-> requests[c].type, id |-> id] :
                                id \in requests[c].found}
  /\ requests' = [requests EXCEPT ![c] = Idle]
  /\ UNCHANGED <<asked, errors, removed>>

\* The server stops: what is not committed is rolled back.
Restart ==
  /\ \E c \in Clients : requests[c] # Idle
  /\ rows' = Handed({requests[c].nr : c \in Clients} \ {None}, Undone)
  /\ requests' = [c \in Clients |-> Idle]
  /\ UNCHANGED <<asked, answers, errors, removed>>

\* The router answers, or the command expires ...
End(id) ==
  /\ Committed(id) /\ ~rows[id].ended
  /\ rows' = [rows EXCEPT ![id].ended = TRUE]
  /\ UNCHANGED <<requests, asked, answers, errors, removed>>
\* ... and cleanup_device_command_history removes it.
CleanUp(id) ==
  /\ Committed(id) /\ rows[id].ended
  /\ removed' = removed \cup {id}
  /\ UNCHANGED <<rows, requests, asked, answers, errors>>

RequestNext ==
  \/ \E c \in Clients : Ask(c)
  \/ \E c \in Clients : Find(c)
  \/ \E c \in Clients : Conflict(c)
  \/ \E c \in Clients : NotFound(c)
  \/ \E c \in Clients : Write(c)
  \/ \E c \in Clients : WriteFails(c)
  \/ \E c \in Clients : Deadlocked(c)
  \/ \E c \in Clients : Commit(c)
  \/ Restart
  \/ \E id \in Written : End(id)
  \/ \E id \in Written : CleanUp(id)

RequestSpec == RequestInit /\ [][RequestNext]_requestVars

-----------------------------------------------------------------------------
(* Why it does: the inductive invariant. *)

Rows == [router : Routers, group : BOOLEAN, key : Keys, type : Types,
         owner : Nat \cup {Undone}, ended : BOOLEAN]
Asked == [step : {"ready", "looking", "writing"}, nr : Nat, group : BOOLEAN,
          key : Keys \cup {0}, type : Types \cup {0}, todo : Seq(Routers), found : SUBSET Nat]
Told == [nr : Nat, group : BOOLEAN, key : Keys, type : Types, id : Nat]

\* The shapes of rows, requests and answers.
RequestTypeOK ==
  /\ rows \in Seq(Rows) /\ asked \in Nat
  /\ requests \in [Clients -> Asked]
  /\ answers \subseteq Told

\* A request under way has a number of its own, and something left to do while it
\* is about to write.
NumbersOK ==
  \A c \in Clients :
    /\ requests[c].nr <= asked
    /\ (requests[c].step = "ready") <=> (requests[c].nr = None)
    /\ requests[c].step # "ready" => requests[c].key \in Keys /\ requests[c].type \in Types
    /\ requests[c].step = "writing" => requests[c].todo # <<>>
    /\ \A d \in Clients \ {c} : requests[c].nr # None => requests[c].nr # requests[d].nr

\* Row id answers the question for this key and type.
Fits(id, q) ==
  id \in Written /\ rows[id].group = q.group /\ rows[id].key = q.key /\ rows[id].type = q.type

\* What a request has found fits and is its own or committed; what an answer tells is committed.
FoundOK ==
  /\ \A c \in Clients : \A id \in requests[c].found :
       Fits(id, requests[c]) /\ rows[id].owner \in {None, requests[c].nr}
  /\ \A a \in answers : Fits(a.id, a) /\ rows[a.id].owner = None

\* A row is written only when no other of its router and key is there any more.
WrittenOnce ==
  \A i, j \in Written :
    /\ i < j
    /\ <<rows[i].router, rows[i].group, rows[i].key>> = <<rows[j].router, rows[j].group, rows[j].key>>
    => i \notin Live

\* The inductive invariant: a key is one command because requests under way have
\* different numbers, find only what is theirs or committed, and the index lets a
\* row be written only in the place of one that was removed or rolled back.
RequestInv == RequestTypeOK /\ NumbersOK /\ FoundOK /\ WrittenOnce

-----------------------------------------------------------------------------
\* One key is one command of a router, however requests, clean-up and a restart
\* overtake each other: every answered request got a command of the
\* type it asked for, the same as the others with its key unless the first was
\* removed from the history (command_store.py: create_device_command).
KeyIsOneCommand ==
  /\ \A i, j \in Live : Committed(i) /\ Committed(j) /\ i # j =>
       <<rows[i].router, rows[i].group, rows[i].key>> # <<rows[j].router, rows[j].group, rows[j].key>>
  /\ \A a \in answers : rows[a.id].type = a.type
  /\ \A a, b \in answers :
       /\ a.id < b.id /\ a.key = b.key /\ a.group = b.group
       /\ rows[a.id].router = rows[b.id].router
       => a.id \in removed

\* A repeated request with the key and the type of a command is answered with the
\* command (docs/api.md).
RepeatIsAnswered == \A e \in errors : e.cause # "exists"
=============================================================================
