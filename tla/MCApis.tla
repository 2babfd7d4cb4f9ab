-------------------------------- MODULE MCApis --------------------------------
(***************************************************************************)
(* The two public APIs.  Of the leaderboard API: its WebSocket hub, and    *)
(* the road the metrics take to it and to the submission API's table.  Of  *)
(* the submission API: the handlers of uploads and of webhooks.  They      *)
(* share no state but the message handed to Broadcast, so a behaviour      *)
(* moves the one `part` names and leaves the others as they began.         *)
(***************************************************************************)
EXTENDS Hub, Leaderboard, SubmissionApi, Webhooks

VARIABLE part

mcVars == <<vars, boardVars, apiVars, hookVars, part>>

MCInit ==
  part \in {"hub", "board", "upload", "webhook"} /\ Init /\ BoardInit /\ ApiInit /\ HookInit

HubStep   == part = "hub" /\ Next /\ UNCHANGED <<boardVars, apiVars, hookVars, part>>
BoardStep == part = "board" /\ BoardNext /\ UNCHANGED <<vars, apiVars, hookVars, part>>
ApiStep   == part = "upload" /\ ApiNext /\ UNCHANGED <<vars, boardVars, hookVars, part>>
HookStep  == part = "webhook" /\ HookNext /\ UNCHANGED <<vars, boardVars, apiVars, part>>
MCNext    == HubStep \/ BoardStep \/ ApiStep \/ HookStep

OfHub(A)   == part = "hub" /\ A
OfBoard(A) == part = "board" /\ A

\* The fairness of Hub and of Leaderboard, each for its part.
MCSpec ==
  /\ MCInit /\ [][MCNext]_mcVars
  /\ WF_vars(OfHub(Register)) /\ WF_vars(OfHub(Unregister)) /\ WF_vars(OfHub(Deliver))
  /\ \A c \in Client : WF_vars(OfHub(EndRead(c))) /\ WF_vars(OfHub(Write(c))) /\ WF_vars(OfHub(EndWrite(c)))
  /\ \A c \in Contestant : WF_boardVars(OfBoard(Ingest(c))) /\ WF_boardVars(OfBoard(Orchestrate(c)))
  /\ \A p \in Pod : WF_boardVars(OfBoard(Cycle(p)))
  /\ WF_boardVars(OfBoard(Expire)) /\ WF_boardVars(OfBoard(Respond))

\* The limits of submission-api hold however its handlers interleave: that of
\* a contestant's uploads (auth.go:46-57) and that of its webhooks
\* (webhook.go:51-66), each but for the handlers its definition names.
LimitsHold == LimitHolds /\ HookLimitHolds
=============================================================================
