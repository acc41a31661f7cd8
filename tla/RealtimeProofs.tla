--------------------------- MODULE RealtimeProofs ---------------------------
(***************************************************************************)
(* Proofs about MCRealtime, for any sets of commands, polls and pages, any *)
(* size of the queues, any number of keys, chunks, kept frames and losses: *)
(* what BrokerProofs proves of the two machines holds  *)
(* of each part that looks at one of them.                                 *)
(***************************************************************************)
EXTENDS MCRealtime, BrokerProofs

GP == INSTANCE BrokerProofs WITH
        Commands <- Reported, Pages <- Open, MaxTelemetry <- Telemetry,
        MaxStreams <- Reconnections

LEMMA Constants == GP!LongPollAssumption /\ Bounds
<1>1. GP!IsFiniteSet(Reported) <=> IsFiniteSet(Reported)
  BY DEF GP!IsFiniteSet, IsFiniteSet
<1> QED
  BY <1>1, LongPollAssumption, RealtimeAssumption DEF GP!LongPollAssumption, Bounds

-----------------------------------------------------------------------------
(* The instances are the machines that the proofs are about. *)

LEMMA PagesNext == G!Next => GP!Next
BY DEF G!Events, GP!Events, G!Types, GP!Types, G!Panes, GP!Panes, G!Outdates, GP!Outdates,
       G!Resync, GP!Resync, G!StatusChanged, GP!StatusChanged, G!Loads, GP!Loads, G!Commit,
       GP!Commit, G!CreateDeviceCommand, GP!CreateDeviceCommand, G!CommandResult,
       GP!CommandResult, G!DeviceTelemetry, GP!DeviceTelemetry, G!RequeueByOtherDevice,
       GP!RequeueByOtherDevice, G!Receive, GP!Receive, G!ListenerFails, GP!ListenerFails,
       G!ListenAgain, GP!ListenAgain, G!Put, GP!Put, G!Publish, GP!Publish, G!Queued,
       GP!Queued, G!Moves, GP!Moves, G!BeginPoll, GP!BeginPoll, G!Claim, GP!Claim,
       G!ClaimNothing, GP!ClaimNothing, G!FirstClaim, GP!FirstClaim, G!ReadGeneration,
       GP!ReadGeneration, G!SecondClaim, GP!SecondClaim, G!Wake, GP!Wake, G!TimeOut,
       GP!TimeOut, G!LastClaim, GP!LastClaim, G!Connect, GP!Connect, G!Disconnect,
       GP!Disconnect, G!Deliver, GP!Deliver, G!Load, GP!Load, G!PollStep, GP!PollStep,
       G!PageStep, GP!PageStep, G!Next, GP!Next, G!ToSet, GP!ToSet, G!Cardinality,
       GP!Cardinality, G!server, GP!server, G!pages, GP!pages, G!counters, GP!counters

-----------------------------------------------------------------------------
(* The invariants of both machines, whichever of them is at work. *)

LEMMA PollsAtWork == MCSpec => [](part # "pages" => TypeOK)
<1> DEFINE Inv == part # "pages" => TypeOK
<1>1. MCInit => Inv
  BY TypeInit DEF MCInit
<1>2. Inv /\ [MCNext]_<<part, vars, terminalVars>> => Inv'
  <2> SUFFICES ASSUME Inv, [MCNext]_<<part, vars, terminalVars>>, part' # "pages"
               PROVE  TypeOK'
    OBVIOUS
  <2>1. part # "pages" /\ [Next]_vars
    BY DEF MCNext
  <2> QED
    BY <2>1, TypeStep
<1> QED
  BY <1>1, <1>2, PTL DEF MCSpec

LEMMA PagesAtWork == MCSpec => [](part = "pages" => GP!PageInv)
<1> DEFINE Inv == part = "pages" => GP!PageInv
<1>1. MCInit => Inv
  <2>1. G!Init => GP!Init
    BY DEF G!Init, GP!Init
  <2> QED
    BY <2>1, Constants, GP!PageBase DEF MCInit
<1>2. Inv /\ [MCNext]_<<part, vars, terminalVars>> => Inv'
  <2> SUFFICES ASSUME Inv, [MCNext]_<<part, vars, terminalVars>>, part' = "pages"
               PROVE  GP!PageInv'
    OBVIOUS
  <2>1. part = "pages" /\ (G!Next \/ UNCHANGED vars)
    BY DEF MCNext
  <2>2. UNCHANGED vars => UNCHANGED GP!vars
    BY DEF GP!vars, GP!server, GP!pages, GP!counters, vars, server, pages, counters
  <2>3. [GP!Next]_(GP!vars)
    BY <2>1, <2>2, PagesNext
  <2> QED
    BY <2>1, <2>3, Constants, GP!PageInductive
<1> QED
  BY <1>1, <1>2, PTL DEF MCSpec

LEMMA TerminalStarts == MCInit => TerminalInv /\ Channel!Init
BY Constants, InvInit DEF MCInit, TerminalInit, Active, Final

LEMMA TerminalGoesOn ==
  ASSUME TerminalInv, [MCNext]_<<part, vars, terminalVars>>
  PROVE  TerminalInv' /\ [Channel!Next]_(Channel!channel)
<1>1. [TerminalNext]_terminalVars
  BY DEF MCNext
<1> QED
  BY <1>1, Constants, InvStep

LEMMA TerminalAtWork == MCSpec => []TerminalInv
<1>1. TerminalInv /\ [MCNext]_<<part, vars, terminalVars>> => TerminalInv'
  BY TerminalGoesOn
<1> QED
  BY <1>1, TerminalStarts, PTL DEF MCSpec

-----------------------------------------------------------------------------
(* The theorems. *)

\* A page whose telemetry is out of date is going to load it, whatever it has
\* missed, unless the announcement was lost with the listener's connection
\* (realtime.py: resync_required).
THEOREM PagesLoad == MCSpec => []PagesAreTold
<1>1. GP!TelemetryTold => G!TelemetryTold
  BY DEF GP!TelemetryTold, G!TelemetryTold, GP!Told, G!Told, GP!OnItsWay, G!OnItsWay,
     GP!Loads, G!Loads, GP!ToSet, G!ToSet
<1>2. (part = "pages" => GP!PageInv) => PagesAreTold
  BY <1>1 DEF PagesAreTold, GP!PageInv
<1> QED
  BY <1>2, PagesAtWork, PTL

\* The result of the terminal command is true of the session and of the router,
\* however the handlers of its status interleave (set_terminal_status).
THEOREM OutcomesAreTrue == MCSpec => []OutcomeIsTrue
BY InvFollows, TerminalAtWork, PTL

\* Output is shown in the order in which the shell wrote it, in spite of
\* repeated and late requests (terminal_up_loop).
THEOREM OutputKeepsOrder == MCSpec => []OutputInOrder
BY InvFollows, TerminalAtWork, PTL

\* The terminal implements the channel of its keys: they reach the shell in
\* order and at most once, whatever trimming deletes (trim_terminal_frames).
THEOREM KeysKeepOrder == MCSpec => KeysInOrder
BY TerminalStarts, TerminalGoesOn, TerminalAtWork, PTL DEF MCSpec, KeysInOrder, Channel!Spec

\* Polls, pages and the terminal are well typed in every state: no queue
\* grows over its limit, no cursor points behind the log (RealtimeBroker,
\* TerminalSession).
THEOREM RealtimeTyped == MCSpec => []Typed
<1>1. GP!TypeOK => G!TypeOK
  BY DEF GP!TypeOK, G!TypeOK, GP!Events, G!Events, GP!Types, G!Types, GP!Panes, G!Panes
<1>2. /\ part # "pages" => TypeOK
      /\ part = "pages" => GP!PageInv
      /\ TerminalInv
      => Typed
  BY <1>1, InvFollows DEF Typed, GP!PageInv
<1> QED
  BY <1>2, PollsAtWork, PagesAtWork, TerminalAtWork, PTL

=============================================================================
