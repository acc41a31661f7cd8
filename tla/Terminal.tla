------------------------------ MODULE Terminal ------------------------------
(***************************************************************************)
(* The web terminal: the browser's socket and the agent's requests meet in *)
(* a session row and a log of frames in the database.                      *)
(*                                                                         *)
(* The browser's handler stores keys as "down" frames and shows the "up"   *)
(* frames after its cursor; the agent fetches the down frames after its    *)
(* own cursor and puts the output of the shell up, one chunk at a time,    *)
(* until a request succeeds.  Nobody locks the row: each handler reads the *)
(* status, decides, and writes it when it commits.                         *)
(***************************************************************************)
EXTENDS Integers, Sequences, FiniteSets, FiniteSetsExt

CONSTANTS
  MaxKeys,    \* keys the browser types (bound)
  MaxOutput,  \* chunks of output of the shell (bound)
  MaxFrames,  \* frames kept of a session (20000)
  MaxLosses   \* answers the agent does not get (bound)

VARIABLES
  session,     \* status of the session
  writing,     \* what each handler has decided to write
  log, kept,   \* frames ever stored; those before number `kept` are deleted
  idle,        \* half an hour has passed since the last of them (expires_at)
  socket,      \* of the browser
  seen, shown, \* cursor of the browser's handler; chunks it has shown
  supervisor,  \* step of the supervisor on the router
  active, cursor, received, downReady,  \* its download loop
  request,     \* of its upload loop ("put"), and one it has given up ("late")
  upReady, produced,
  silent,      \* the shell prints nothing more
  launch, outcome,  \* what the supervisor reports, result of the command
  losses

row == <<session, writing>>
frames == <<log, kept, idle>>
browser == <<socket, seen, shown>>
down == <<cursor, received, downReady>>
up == <<request, upReady, produced, silent>>
start == <<supervisor, launch, outcome>>
terminalVars == <<row, frames, browser, down, up, start, active, losses>>

-----------------------------------------------------------------------------
Active == {"queued", "connecting", "connected"}
Final == {"closed", "failed", "expired"}
Handlers == {"supervisor", "put", "late", "browser", "cleanup"}

Key(k) == [direction |-> "down", type |-> "data", number |-> k]
Close == [direction |-> "down", type |-> "close", number |-> 0]
Output(n) == [direction |-> "up", type |-> "data", number |-> n]
IsDown(f) == f.direction = "down"
IsKey(f) == f.type = "data" /\ IsDown(f)

Frames == {Key(k) : k \in 1..MaxKeys} \cup {Close} \cup {Output(n) : n \in 1..MaxOutput}

\* The stored frames of one direction after a cursor.
After(direction, n) ==
  {i \in kept..Len(log) : i > n /\ log[i].direction = direction}

\* What the frames in S carry, in their order.
Rank(S, i) == Cardinality({j \in S : j <= i})
Nth(S, n) == CHOOSE i \in S : Rank(S, i) = n
Contents(S) == [n \in 1..Cardinality(S) |-> log[Nth(S, n)].number]

Keys == {i \in DOMAIN log : IsKey(log[i])}
TypedKeys == Cardinality(Keys)

NoRequest == [step |-> "none", chunk |-> 0]
Request(chunk) == [step |-> "check", chunk |-> chunk]
Steps == {"none", "check", "connect", "append", "answer", "refused"}
Chunks == 0..MaxOutput  \* chunk 0 is the empty request that tries the route

\* Type invariant.
TerminalTypeOK ==
  /\ session \in Active \cup Final
  /\ writing \in [Handlers -> Active \cup Final \cup {"none", "same"}]
  /\ log \in Seq(Frames)
  /\ kept \in 1..(Len(log) + 1) /\ seen \in 0..Len(log) /\ cursor \in 0..Len(log)
  /\ socket \in {"open", "closing", "closed"}
  /\ shown \in Seq(1..MaxOutput) /\ received \in Seq(1..MaxKeys)
  /\ supervisor \in {"none", "announcing", "starting", "ready", "failing", "stopping", "ended"}
  /\ {active, downReady, upReady, idle, silent} \subseteq BOOLEAN
  /\ request \in [{"put", "late"} -> [step : Steps, chunk : Chunks]]
  /\ produced \in Chunks /\ losses \in 0..MaxLosses
  /\ launch \in {"none", "starting", "ready", "failed"}
  /\ outcome \in {"running", "success", "failed"}

\* What the limits of a history are.
Bounds == {MaxKeys, MaxOutput, MaxFrames, MaxLosses} \subseteq Nat

\* A session whose row has a status and of which nothing else is known yet.
New(status) ==
  /\ session = status
  /\ writing = [h \in Handlers |-> "none"]
  /\ log = <<>> /\ kept = 1 /\ idle = FALSE
  /\ socket = "open" /\ seen = 0 /\ shown = <<>>
  /\ supervisor = "none" /\ active = FALSE
  /\ cursor = 0 /\ received = <<>> /\ downReady = FALSE
  /\ request = [h \in {"put", "late"} |-> NoRequest] /\ upReady = FALSE
  /\ produced = 0 /\ silent = FALSE
  /\ launch = "none" /\ outcome = "running"
  /\ losses = 0

TerminalInit == New("queued")

-----------------------------------------------------------------------------
(* The session row and the log. *)

\* set_terminal_status up to its flush: a final status refuses every change,
\* and a column is written only if its value differs from the one read.
ReadStatus(h, new) ==
  /\ session \notin Final
  /\ writing[h] = "none"
  /\ writing' = [writing EXCEPT ![h] = IF new = session THEN "same" ELSE new]

WriteStatus(h) ==
  /\ writing[h] # "none"
  /\ session' = IF writing[h] = "same" THEN session ELSE writing[h]
  /\ writing' = [writing EXCEPT ![h] = "none"]

\* append_terminal_frame: every frame, of either direction, puts the expiry off.
Store(f) == log' = Append(log, f) /\ idle' = FALSE

\* trim_terminal_frames, after the frame that log' holds.
Trim == kept' = IF Len(log') - MaxFrames >= kept THEN Len(log') - MaxFrames + 1
                ELSE kept

\* Half an hour passes without a frame of an active session (SESSION_TTL).
HalfHour ==
  /\ session \notin Final
  /\ ~idle /\ idle' = TRUE
  /\ UNCHANGED <<row, log, kept, browser, down, up, start, active, losses>>

\* cleanup_terminal_sessions
CleanupRead ==
  /\ idle /\ ReadStatus("cleanup", "expired")
  /\ UNCHANGED <<session, frames, browser, down, up, start, active, losses>>

CleanupWrite ==
  /\ WriteStatus("cleanup")
  /\ UNCHANGED <<frames, browser, down, up, start, active, losses>>

-----------------------------------------------------------------------------
(* The browser's socket. *)

\* A key is typed: it is stored, or the handler ends because the session has.
TypeKey ==
  /\ socket = "open"
  /\ TypedKeys < MaxKeys
  /\ IF session \in Final
       THEN socket' = "closing" /\ UNCHANGED <<log, idle>>
       ELSE Store(Key(TypedKeys + 1)) /\ UNCHANGED socket
  /\ UNCHANGED <<session, writing, kept, seen, shown, down, up, start, active, losses>>

\* One round of _browser_terminal_output; the last one ends the handler.
ShowOutput ==
  /\ socket = "open"
  /\ LET new == After("up", seen) IN
     /\ new # {} \/ session \in Final
     /\ IF new = {} THEN socket' = "closing" /\ UNCHANGED <<seen, shown>>
        ELSE seen' = Max(new) /\ shown' = shown \o Contents(new) /\ UNCHANGED socket
  /\ UNCHANGED <<row, frames, down, up, start, active, losses>>

\* The user closes the terminal, or the connection is lost.
LeaveTerminal ==
  /\ socket = "open"
  /\ socket' = "closing"
  /\ UNCHANGED <<row, frames, seen, shown, down, up, start, active, losses>>

\* The server stops: nobody closes the session.
ServerStops ==
  /\ socket \in {"open", "closing"}
  /\ losses < MaxLosses
  /\ losses' = losses + 1
  /\ socket' = "closed"
  /\ writing' = [h \in Handlers |-> "none"]
  /\ request' = [put |-> IF request["put"] = NoRequest THEN NoRequest
                          ELSE [request["put"] EXCEPT !.step = "refused"],
                 late |-> NoRequest]
  /\ UNCHANGED <<session, frames, seen, shown, down, upReady, produced, silent, start, active>>

\* close_terminal_session: the close frame and the status are one transaction.
CloseRead ==
  /\ socket = "closing" /\ writing["browser"] = "none"
  /\ IF session \in Final
       THEN socket' = "closed" /\ UNCHANGED writing
       ELSE ReadStatus("browser", "closed") /\ UNCHANGED socket
  /\ UNCHANGED <<session, frames, seen, shown, down, up, start, active, losses>>

CloseWrite ==
  /\ socket = "closing" /\ WriteStatus("browser")
  /\ Store(Close)
  /\ socket' = "closed"
  /\ UNCHANGED <<kept, seen, shown, down, up, start, active, losses>>

-----------------------------------------------------------------------------
(* The command agent.ssh_session and its supervisor on the router. *)

\* Mutant: the loops start before the session is announced.
HandleCommandAtOnce ==
  /\ supervisor = "none" /\ outcome = "running"
  /\ supervisor' = "starting" /\ launch' = "starting" /\ active' = TRUE
  /\ writing' = [writing EXCEPT !["supervisor"] = "connecting"]
  /\ UNCHANGED <<session, frames, browser, down, up, outcome, losses>>

HandleCommand ==
  /\ supervisor = "none" /\ outcome = "running"
  /\ supervisor' = "announcing" /\ launch' = "starting" /\ active' = TRUE
  /\ UNCHANGED <<row, frames, browser, down, up, outcome, losses>>

\* The supervisor posts "connecting", or the end of the shell.
PostStatus ==
  /\ writing["supervisor"] = "none"
  /\ \/ supervisor = "announcing" /\ ReadStatus("supervisor", "connecting")
     \/ supervisor = "failing" /\ ReadStatus("supervisor", "failed")
     \/ supervisor = "stopping" /\ \E s \in {"closed", "failed"} : ReadStatus("supervisor", s)
  /\ UNCHANGED <<session, frames, browser, down, up, start, active, losses>>

\* A killed supervisor does not stop the request it has made.
PostIsWritten ==
  /\ WriteStatus("supervisor")
  /\ supervisor' = CASE supervisor = "announcing" -> "starting"
                     [] supervisor \in {"failing", "stopping"} -> "ended"
                     [] OTHER -> supervisor
  /\ active' = (active /\ supervisor # "failing")
  /\ UNCHANGED <<frames, browser, down, up, launch, outcome, losses>>

\* The answer is lost: a session that could not be announced is given up.
PostLost ==
  /\ supervisor \in {"announcing", "failing", "stopping"}
  /\ losses < MaxLosses /\ losses' = losses + 1
  /\ supervisor' = "ended" /\ active' = FALSE
  /\ UNCHANGED <<row, frames, browser, down, up, launch, outcome>>

PostRefused ==
  /\ supervisor \in {"announcing", "failing", "stopping"}
  /\ session \in Final /\ writing["supervisor"] = "none"
  /\ supervisor' = "ended" /\ active' = FALSE
  /\ UNCHANGED <<row, frames, browser, down, up, launch, outcome, losses>>

TransportReady ==
  /\ supervisor = "starting" /\ upReady /\ downReady
  /\ supervisor' = "ready" /\ launch' = "ready"
  /\ UNCHANGED <<row, frames, browser, down, up, active, outcome, losses>>

\* Twelve seconds without both routes, or the shell has exited.
StartFails ==
  /\ supervisor = "starting"
  /\ supervisor' = "failing" /\ launch' = "failed"
  /\ UNCHANGED <<row, frames, browser, down, up, active, outcome, losses>>

\* The shell exits; the loops are killed with what they have not sent.
ShellExits ==
  /\ supervisor = "ready"
  /\ supervisor' = "stopping" /\ active' = FALSE
  /\ UNCHANGED <<row, frames, browser, down, up, launch, outcome, losses>>

\* The handler of the command sees what the supervisor has reported, or that
\* it is gone.
CommandEnds ==
  /\ outcome = "running"
  /\ \/ launch = "ready" /\ outcome' = "success"
     \/ launch = "failed" /\ outcome' = "failed"
     \/ launch = "starting" /\ supervisor = "ended" /\ outcome' = "failed"
  /\ UNCHANGED <<row, frames, browser, down, up, supervisor, launch, active, losses>>

\* Mutant: the handler leaves the supervisor alone.
CommandForgets ==
  /\ outcome = "running" /\ launch = "starting"
  /\ outcome' = "failed"
  /\ UNCHANGED <<row, frames, browser, down, up, supervisor, launch, active, losses>>

\* After 15 seconds it kills the supervisor; the session is left to its expiry.
CommandTimesOut ==
  /\ outcome = "running" /\ launch = "starting"
  /\ outcome' = "failed" /\ active' = FALSE /\ supervisor' = "ended"
  /\ UNCHANGED <<row, frames, browser, down, up, launch, losses>>

-----------------------------------------------------------------------------
(* The download loop. *)

LoopsRun == active /\ supervisor \in {"starting", "ready", "failing"}

\* Mutant: the cursor stays behind the first frame it got.
DownAgain ==
  /\ LoopsRun
  /\ LET new == After("down", cursor) IN
     /\ cursor' = IF new = {} THEN cursor ELSE Min(new)
     /\ received' = received \o [i \in 1..Cardinality({j \in new : IsKey(log[j])}) |-> i]
     /\ active' = ~(\E i \in new : log[i] = Close)
  /\ downReady' = TRUE
  /\ UNCHANGED <<row, frames, browser, up, start, losses>>

\* The frames a request for the down frames is answered with, up to a close
\* frame; of a session that has ended the server makes one up.
Served ==
  LET new == After("down", cursor) IN
  {i \in new : \A c \in new : log[c] = Close => i <= c}

\* Mutant: the server does not make up a close frame.
EndsByFrame == \E i \in Served : log[i] = Close

EndsTerminal == \/ \E i \in Served : log[i] = Close
                \/ Served = {} /\ session \in Final

\* The agent moves its cursor and gives the keys to the shell.
AgentTerminalDown ==
  /\ LoopsRun
  /\ received' = received \o Contents(Served \cap Keys)
  /\ cursor' = IF Served = {} THEN cursor ELSE Max(Served)
  /\ active' = ~EndsTerminal
  /\ downReady' = TRUE
  /\ UNCHANGED <<row, frames, browser, up, start, losses>>

-----------------------------------------------------------------------------
(* The upload loop, and its requests on the server. *)

\* First an empty request, then the next chunk of output.
SendUp ==
  /\ LoopsRun /\ request["put"] = NoRequest
  /\ IF upReady
       THEN ~silent /\ produced < MaxOutput /\ produced' = produced + 1
       ELSE UNCHANGED produced
  /\ request' = [request EXCEPT !["put"] = Request(produced')]
  /\ UNCHANGED <<row, frames, browser, down, upReady, silent, start, active, losses>>

Moved(h, step) == request' = [request EXCEPT ![h].step = step]

UpCheck(h) ==
  /\ request[h].step = "check"
  /\ IF session \in Final
       THEN Moved(h, "refused") /\ UNCHANGED writing
       ELSE Moved(h, "connect") /\ ReadStatus(h, "connected")
  /\ UNCHANGED <<session, frames, browser, down, upReady, produced, silent, start, active, losses>>

\* Mutant: the empty request that tries the route is stored as output.
ConnectAndStore(h) ==
  /\ request[h].step = "connect" /\ WriteStatus(h)
  /\ Moved(h, "append")
  /\ UNCHANGED <<frames, browser, down, upReady, produced, silent, start, active, losses>>

UpConnect(h) ==
  /\ request[h].step = "connect" /\ WriteStatus(h)
  /\ Moved(h, IF request[h].chunk = 0 THEN "answer" ELSE "append")
  /\ UNCHANGED <<frames, browser, down, upReady, produced, silent, start, active, losses>>

UpStore(h) ==
  /\ request[h].step = "append"
  /\ IF session \in Final
       THEN Moved(h, "refused") /\ UNCHANGED frames
       ELSE Moved(h, "answer") /\ Store(Output(request[h].chunk)) /\ Trim
  /\ UNCHANGED <<row, browser, down, upReady, produced, silent, start, active, losses>>

UpAnswered ==
  /\ request["put"].step = "answer"
  /\ request' = [request EXCEPT !["put"] = NoRequest]
  /\ upReady' = TRUE
  /\ UNCHANGED <<row, frames, browser, down, produced, silent, start, active, losses>>

\* Mutant: a chunk that failed is not sent again.
Onward == NoRequest

Again == IF active THEN Request(request["put"].chunk) ELSE NoRequest

\* The request is refused, or its answer is lost: the same chunk is sent again.
UpFails ==
  /\ \/ request["put"].step = "refused" /\ UNCHANGED losses
     \/ request["put"].step = "answer" /\ losses < MaxLosses /\ losses' = losses + 1
  /\ request' = [request EXCEPT !["put"] = Again]
  /\ UNCHANGED <<row, frames, browser, down, upReady, produced, silent, start, active>>

\* The agent gives up after 20 seconds; the server goes on with the request.
UpTimesOut ==
  /\ request["put"].step \in {"check", "connect", "append"}
  /\ request["late"] = NoRequest
  /\ losses < MaxLosses /\ losses' = losses + 1
  /\ request' = [put |-> Again, late |-> request["put"]]
  /\ writing' = [writing EXCEPT !["put"] = "none", !["late"] = writing["put"]]
  /\ UNCHANGED <<session, frames, browser, down, upReady, produced, silent, start, active>>

LateEnds ==
  /\ request["late"].step \in {"answer", "refused"}
  /\ request' = [request EXCEPT !["late"] = NoRequest]
  /\ UNCHANGED <<row, frames, browser, down, upReady, produced, silent, start, active, losses>>

\* The shell prints more than the chunks that are followed. Of these frames only
\* the one effect is looked at: each puts the expiry off.
PrintsOn ==
  /\ LoopsRun /\ upReady /\ request["put"] = NoRequest /\ ~silent
  /\ session \notin Final
  /\ idle /\ idle' = FALSE
  /\ UNCHANGED <<row, log, kept, browser, down, up, start, active, losses>>

FallSilent ==
  /\ ~silent /\ silent' = TRUE
  /\ UNCHANGED <<row, frames, browser, down, request, upReady, produced, start, active, losses>>

\* A shell that may print at any time.
Prints == active /\ ~silent

-----------------------------------------------------------------------------
Upload(h) == UpCheck(h) \/ UpConnect(h) \/ UpStore(h)
UpEnds == UpAnswered \/ UpFails
Cleanup == HalfHour \/ CleanupRead \/ CleanupWrite
BrowserEnds == CloseRead \/ CloseWrite
Post == PostStatus \/ PostIsWritten \/ PostRefused

TerminalNext ==
  \/ Cleanup
  \/ TypeKey \/ ShowOutput \/ LeaveTerminal \/ ServerStops \/ BrowserEnds
  \/ HandleCommand \/ Post \/ PostLost \/ TransportReady \/ StartFails \/ ShellExits
  \/ CommandEnds \/ CommandTimesOut
  \/ AgentTerminalDown \/ SendUp \/ PrintsOn \/ FallSilent \/ UpEnds \/ UpTimesOut \/ LateEnds
  \/ \E h \in {"put", "late"} : Upload(h)

\* The server's handlers and the agent's loops go on; the housekeeping loop
\* comes back, and half an hour without a frame passes when no shell prints.
\* No user, shell or time-out is needed, and no shell need ever fall silent.
TerminalFairness ==
  /\ WF_terminalVars(CleanupRead \/ CleanupWrite) /\ WF_terminalVars(~Prints /\ HalfHour)
  /\ WF_terminalVars(BrowserEnds)
  /\ WF_terminalVars(Post) /\ WF_terminalVars(CommandEnds)
  /\ WF_terminalVars(AgentTerminalDown) /\ WF_terminalVars(UpEnds)
  /\ \A h \in {"put", "late"} : WF_terminalVars(Upload(h))

TerminalSpec == TerminalInit /\ [][TerminalNext]_terminalVars /\ TerminalFairness

-----------------------------------------------------------------------------
(* Keys reach the shell in the order they were typed and at most once; only *)
(* keys that trimming deletes before the agent reads them are lost          *)
(* (terminal_frames_after, trim_terminal_frames, terminal_down_loop).       *)
DroppedKeys == Cardinality({i \in Keys : i < kept \/ i <= cursor})
Channel == INSTANCE TerminalChannel
             WITH typed <- TypedKeys, dropped <- DroppedKeys, arrived <- received
KeysInOrder == Channel!Spec

\* Output appears in the order the shell wrote it: when a chunk is shown, the
\* earlier ones have been, unless they were trimmed away. A chunk whose answer
\* was lost may come twice (terminal_up_loop).
OutputInOrder ==
  \A i \in DOMAIN shown : \A n \in 1..(shown[i] - 1) :
     \/ \E j \in 1..(i - 1) : shown[j] = n
     \/ \E j \in 1..(kept - 1) : log[j] = Output(n)

\* A command that reports a running terminal leaves a session that is
\* connected, or has ended since: no late "connecting" overwrites it.
SuccessIsConnected == outcome = "success" => session \in {"connected"} \cup Final

\* Once the browser is gone, and unless a shell goes on printing, the session ends
\* and stays ended, and the loops on the router stop, in spite of handlers that
\* overwrite each other's status.  A shell that prints puts its expiry off with
\* every frame (append_terminal_frame), so nothing ends the session of a server
\* that stopped, or one connected again after its close, as long as it does.
ShellEnds == socket = "closed" ~> [](session \in Final /\ ~active) \/ Prints

\* A command that failed leaves no loops behind on the router, except while its
\* supervisor is reporting the failure and about to stop them.
FailedLeavesNothing == outcome = "failed" /\ active => supervisor = "failing"

\* The result of the command is true of the session and of the router.
OutcomeIsTrue == SuccessIsConnected /\ FailedLeavesNothing

-----------------------------------------------------------------------------
(* Why the result is true: the inductive invariant. *)

Settled == session \in {"connected"} \cup Final

\* The loops have not asked for anything.
Quiet ==
  /\ request["put"] = NoRequest /\ request["late"] = NoRequest
  /\ writing["put"] = "none" /\ writing["late"] = "none"
  /\ ~upReady

\* What each handler may be about to write.
Decisions ==
  /\ writing["supervisor"] \in {"none", "same", "connecting", "closed", "failed"}
  /\ {writing["put"], writing["late"]} \subseteq {"none", "same", "connected"}
  /\ writing["browser"] \in {"none", "same", "closed"}
  /\ writing["cleanup"] \in {"none", "same", "expired"}

\* The session is announced before the loops ask for anything, so what their
\* requests have found or made of it stays.
AnnouncedFirst ==
  /\ supervisor \in {"none", "announcing"} => Quiet
  /\ writing["supervisor"] = "connecting" => supervisor \in {"announcing", "ended"} /\ Quiet
  /\ \A h \in {"put", "late"} :
       writing[h] = "same" \/ request[h].step \in {"append", "answer"} => Settled
  /\ upReady => Settled

\* The loops run under a supervisor, which knows what it has reported.
Supervised ==
  /\ active => supervisor \in {"announcing", "starting", "ready", "failing"}
  /\ launch = "ready" => upReady /\ supervisor \in {"ready", "stopping", "ended"}
  /\ launch = "failed" => supervisor \in {"failing", "ended"}
  /\ outcome = "success" => launch = "ready"
  /\ outcome = "failed" => supervisor \in {"failing", "ended"}

OutcomeInv == TerminalTypeOK /\ Decisions /\ AnnouncedFirst /\ Supervised

-----------------------------------------------------------------------------
(* Why output and keys keep their order: the inductive invariants. *)

Stored(n) == \E i \in DOMAIN log : log[i] = Output(n)

\* A chunk is stored after the earlier ones...
LogInOrder ==
  \A i \in DOMAIN log : \A n \in 1..(log[i].number - 1) :
    log[i].direction = "up" => \E j \in 1..(i - 1) : log[j] = Output(n)

\* ... since the next one is asked for when the last one has been answered.
RequestsInOrder ==
  /\ \A h \in {"put", "late"} :
       /\ request[h].chunk <= produced
       /\ \A n \in 1..(request[h].chunk - 1) : Stored(n)
       /\ request[h].step = "append" => request[h].chunk # 0
  /\ request["put"].step = "answer" =>
       \A n \in 1..request["put"].chunk : Stored(n)
  /\ request["put"] # NoRequest => request["put"].chunk = produced
  /\ active /\ request["put"] = NoRequest => \A n \in 1..produced : Stored(n)
  /\ supervisor = "none" => ~upReady /\ request["put"] = NoRequest
  /\ ~upReady => produced = 0

\* What is behind the cursor of the browser was shown, or trimmed away.
SeenIsShown ==
  \A i \in DOMAIN log :
    i <= seen /\ log[i].direction = "up" =>
      i < kept \/ \E k \in DOMAIN shown : shown[k] = log[i].number

OutputInv == TerminalTypeOK /\ LogInOrder /\ RequestsInOrder /\ SeenIsShown /\ OutputInOrder

\* Keys are numbered as they are stored.
KeysNumbered == \A i \in Keys : log[i].number = Rank(Keys, i)

KeyInv == TerminalTypeOK /\ KeysNumbered
=============================================================================
