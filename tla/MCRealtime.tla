----------------------------- MODULE MCRealtime -----------------------------
(***************************************************************************)
(* What the server keeps open: the event stream of its pages and the polls *)
(* of the agent (LongPoll), and the terminal of a page (Terminal).  They   *)
(* share nothing, so TLC looks at one at a time: pages without polls,      *)
(* polls of one command without pages, and the terminal three times (keys  *)
(* without losses, one chunk of output with a loss, and two chunks with a  *)
(* loss in a session that nobody ends).  What rests has nothing fair to do.*)
(***************************************************************************)
EXTENDS LongPoll, Terminal

CONSTANTS Reported, Open, Telemetry, Reconnections  \* LongPoll with pages and without polls

\* Commands are finitely many and none of them is "none"; the bounds are numbers.
ASSUME RealtimeAssumption ==
  /\ "none" \notin Reported /\ IsFiniteSet(Reported)
  /\ {Telemetry, Reconnections, MaxKeys, MaxOutput, MaxFrames, MaxLosses} \subseteq Nat

VARIABLE part  \* which of them is at work

G == INSTANCE LongPoll WITH
       Commands <- Reported, Pages <- Open, MaxTelemetry <- Telemetry,
       MaxStreams <- Reconnections

MCInit ==
  \/ part = "polls" /\ Init /\ New("expired")
  \/ part = "pages" /\ G!Init /\ New("expired")
  \/ part \in {"keys", "losses", "output"} /\ Init /\ TerminalInit

MCNext ==
  /\ UNCHANGED part
  /\ \/ part = "polls" /\ Next /\ UNCHANGED terminalVars
     \/ part = "pages" /\ G!Next /\ UNCHANGED <<poll, requeues, terminalVars>>
     \/ part = "keys" /\ TerminalNext /\ UNCHANGED vars
        /\ ~silent' /\ produced' <= 1 /\ losses' = 0
     \/ part = "losses" /\ TerminalNext /\ UNCHANGED vars
        /\ TypedKeys' = 0 /\ produced' <= 1 /\ (silent' => socket' = "closed")
     \/ part = "output" /\ TerminalNext /\ UNCHANGED vars
        /\ TypedKeys' = 0 /\ ~silent' /\ socket' = "open" /\ outcome' # "failed"
        /\ supervisor' \notin {"failing", "stopping"}

MCSpec ==
  /\ MCInit /\ [][MCNext]_<<part, vars, terminalVars>>
  /\ Fairness /\ TerminalFairness

\* Type invariant of both.
Typed == (IF part = "pages" THEN G!TypeOK ELSE TypeOK) /\ TerminalTypeOK

\* A page whose telemetry is out of date is going to load it.
PagesAreTold == part = "pages" => G!TelemetryTold
=============================================================================
