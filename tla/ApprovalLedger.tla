--------------------------- MODULE ApprovalLedger ---------------------------
(***************************************************************************)
(* What the permission relay promises to Claude Code, with no queue, no    *)
(* webhook and no output pipe: a request id is opened for one endpoint, it *)
(* is closed by a reply of that endpoint and of no other, and each opening *)
(* yields at most one verdict.  Opening an id that is open moves it.  An   *)
(* opening is given up without a verdict only by a relay that dies of it;  *)
(* a relay that has stopped opens and closes nothing.                      *)
(***************************************************************************)
EXTENDS Naturals

CONSTANTS
  Ids,        \* request ids
  Endpoints,  \* the chats that may be asked
  Nobody      \* the id is not open

VARIABLES
  running,    \* the relay is alive
  open,       \* id -> the endpoint asked, or Nobody
  asks,       \* id -> number of times the id was opened
  verdicts,   \* id -> number of verdicts reported
  answeredBy  \* id -> the endpoint its last reported verdict came from

ledgerVars == <<running, open, asks, verdicts, answeredBy>>

Init ==
  /\ running = TRUE
  /\ open = [i \in Ids |-> Nobody]
  /\ verdicts = [i \in Ids |-> 0]
  /\ asks = [i \in Ids |-> 0]
  /\ answeredBy = [i \in Ids |-> Nobody]

Ask(i, e) ==
  /\ running
  /\ open' = [open EXCEPT ![i] = e]
  /\ asks' = [asks EXCEPT ![i] = @ + 1]
  /\ UNCHANGED <<running, verdicts, answeredBy>>

\* Only the endpoint that was asked can answer.
Answer(i) ==
  /\ running
  /\ open[i] \in Endpoints
  /\ open' = [open EXCEPT ![i] = Nobody]
  /\ verdicts' = [verdicts EXCEPT ![i] = @ + 1]
  /\ answeredBy' = [answeredBy EXCEPT ![i] = open[i]]
  /\ UNCHANGED <<running, asks>>

\* A reply closes the id and the relay dies before it has reported it: the only
\* way to lose an opening.
Lose(i) ==
  /\ running
  /\ running' = FALSE
  /\ open[i] \in Endpoints
  /\ open' = [open EXCEPT ![i] = Nobody]
  /\ UNCHANGED <<asks, verdicts, answeredBy>>

\* The relay dies with everything still open.
Stop ==
  /\ running
  /\ running' = FALSE
  /\ UNCHANGED <<open, asks, verdicts, answeredBy>>

Next ==
  \/ Stop
  \/ \E i \in Ids :
       \/ \E e \in Endpoints : Ask(i, e)
       \/ Answer(i)
       \/ Lose(i)

Spec == Init /\ [][Next]_ledgerVars

\* An opening is used up by one verdict: the number of verdicts, plus the
\* opening still outstanding, never exceeds the number of openings.
AtMostOneVerdictPerAsk ==
  \A i \in Ids :
    verdicts[i] + (IF open[i] = Nobody THEN 0 ELSE 1) <= asks[i]
=============================================================================
