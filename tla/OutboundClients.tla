---------------------------- MODULE OutboundClients ----------------------------
(* Requests that share one client of an outside service, and so its         *)
(* breaker: the clients of MDU, VANA, InsightBridge, the local LLM and      *)
(* Pravah.  The lock of the breaker is released while a call is on its way, *)
(* so answers come back in any order, and late.                             *)
EXTENDS Naturals, FiniteSets

CONSTANTS Callers, Threshold, Timeout

ASSUME BreakerAssumption == Threshold \in Nat \ {0} /\ Timeout \in Nat

(* The breaker of middleware/circuit_breaker.py as a value.  Its age is the *)
(* time since the last failure; beyond Timeout it makes no difference, and  *)
(* neither does a failure count beyond Threshold, so both stop there.  A    *)
(* breaker that never failed is as old as one can be: no failure time       *)
(* counts as time zero.                                                     *)
NewBreaker == [state |-> "CLOSED", failures |-> 0, age |-> Timeout + 1]

(* What _check_state makes of a breaker before a call. *)
Checked(b) ==
  IF b.state = "OPEN" /\ b.age > Timeout THEN [b EXCEPT !.state = "HALF_OPEN"] ELSE b

AdmitsUnchecked(b) == b.state # "OPEN" \* a defect: the check comes too late

Admits(b) == Checked(b).state # "OPEN"

Succeeded(b) == [b EXCEPT !.state = "CLOSED", !.failures = 0]

CountedTo(n) == IF n >= Threshold THEN Threshold ELSE n

FailedOnce(b) == \* a defect: a breaker opens on the failure that reaches the threshold
  LET count == CountedTo(b.failures + 1)
  IN  [state |-> IF b.failures < Threshold /\ count = Threshold THEN "OPEN" ELSE b.state,
       failures |-> count, age |-> 0]

Failed(b) ==
  LET count == CountedTo(b.failures + 1)
  IN  [state |-> IF count >= Threshold THEN "OPEN" ELSE b.state,
       failures |-> count, age |-> 0]

Aged(b) == IF b.age > Timeout THEN b ELSE [b EXCEPT !.age = @ + 1]
------------------------------------------------------------------------------

Transported == {"mdu", "vana", "insightbridge"}  \* the breaker sees the transport only
Whole == {"llm", "pravah"}                       \* the breaker sees the whole exchange

VARIABLES client,    \* which client this behaviour is about
          breaker,
          upstream,  \* how the service is
          exchange   \* caller -> its call, and what the last one came to

clientVars == <<client, breaker, upstream, exchange>>

Conditions == {"up", "unreachable", "erroring", "garbled"}

(* What may come back from a service in a condition.  "error" is an HTTP    *)
(* error, "misshapen" JSON that is not what the client reads.               *)
AnswersIn(condition) ==
  CASE condition = "up" -> {"good"}
    [] condition = "unreachable" -> {"no_connection"}
    [] condition = "erroring" -> {"error"}
    [] condition = "garbled" -> {"not_json", "misshapen"}

(* What the breaker hears of an answer.  raise_for_status and json are      *)
(* called on the result of the breaker's call by the clients in Transported *)
(* and inside it by the others, whose breakers expect RequestException,     *)
(* which a body that is no JSON raises, and one of another shape does not:  *)
(* that is not counted at all.                                              *)
Heard(answer) ==
  CASE answer = "good" -> "success"
    [] answer = "no_connection" -> "failure"
    [] client \in Transported -> "success"
    [] answer = "misshapen" -> "nothing"
    [] OTHER -> "failure"

Settle(answer) ==
  breaker' = CASE Heard(answer) = "success" -> Succeeded(breaker)
               [] Heard(answer) = "failure" -> Failed(breaker)
               [] OTHER -> breaker

(* What the caller is told.  A Pravah event that the breaker keeps back is  *)
(* reported as simulated, every other refusal as an error.  VANA's answer   *)
(* may be a decision, of which only ALLOWED is returned.  A misshapen       *)
(* answer is handed on, for a denial if it was to be a decision and has     *)
(* none; what a client cannot read of it raises.                            *)
ToldWhenRefused == IF client = "pravah" THEN "simulated" ELSE "unavailable"
ToldOf(answer) ==
  CASE answer \notin {"good", "misshapen"} -> {"unavailable"}
    [] client = "vana" /\ answer = "good" -> {"answered", "denied"}
    [] client = "vana" /\ answer = "misshapen" -> {"answered", "denied", "raised"}
    [] answer = "misshapen" /\ client \in Whole -> {"raised"}
    [] OTHER -> {"answered"}

ClientsInit ==
  /\ client \in Transported \cup Whole
  /\ breaker = NewBreaker
  /\ upstream \in Conditions
  /\ exchange = [c \in Callers |-> [phase |-> "idle", seen |-> {}, told |-> "nothing"]]

(* call, up to the release of the lock. *)
Send(c) ==
  /\ exchange[c].phase = "idle"
  /\ Admits(breaker)
  /\ breaker' = Checked(breaker)
  /\ exchange' = [exchange EXCEPT ![c] = [@ EXCEPT !.phase = "sent", !.seen = {upstream}]]
  /\ UNCHANGED <<client, upstream>>

TurnAway(c) ==
  /\ exchange[c].phase = "idle"
  /\ ~Admits(breaker)
  /\ exchange' = [exchange EXCEPT ![c] = [@ EXCEPT !.told = ToldWhenRefused]]
  /\ UNCHANGED <<client, breaker, upstream>>

(* The service may have answered at any time since the call was sent. *)
Return(c) ==
  /\ exchange[c].phase = "sent"
  /\ \E answer \in UNION {AnswersIn(condition) : condition \in exchange[c].seen} :
       /\ Settle(answer)
       /\ \E told \in ToldOf(answer) :
            exchange' = [exchange EXCEPT ![c] =
                           [phase |-> "idle", seen |-> {}, told |-> told]]
  /\ UNCHANGED <<client, upstream>>

UpstreamChanges ==
  /\ \E condition \in Conditions \ {upstream} :
       /\ upstream' = condition
       /\ exchange' = [c \in Callers |->
            IF exchange[c].phase = "idle" THEN exchange[c]
            ELSE [exchange[c] EXCEPT !.seen = @ \cup {condition}]]
  /\ UNCHANGED <<client, breaker>>

ClientTick ==
  /\ breaker' = Aged(breaker)
  /\ UNCHANGED <<client, upstream, exchange>>

ClientsNext ==
  \/ \E c \in Callers : Send(c) \/ TurnAway(c) \/ Return(c)
  \/ UpstreamChanges
  \/ ClientTick

------------------------------------------------------------------------------

(* A service that is well again, and stays so, is used again: whatever      *)
(* calls of the outage still come back, the breaker closes for good.        *)
BreakerRecovers == <>[](upstream = "up") => <>[](breaker.state = "CLOSED")

(* An outage that the client's breaker can see keeps being cut off: calls   *)
(* that began in better times come back late and close the breaker, but it  *)
(* opens again.                                                             *)
SeenOutages == {"unreachable"} \cup IF client \in Whole THEN {"erroring"} ELSE {}
OutageOpensBreaker == <>[](upstream \in SeenOutages) => []<>(breaker.state = "OPEN")
=============================================================================
