---------------------------- MODULE SendContract ----------------------------
(* What the send path promises, without drafts, versions, retries, workers   *)
(* or faults: a request delivers only on the authority of a token that no    *)
(* other request holds, only while its outcome is open, and an outcome once  *)
(* settled never changes. Outbox implements it when one worker retries.      *)

CONSTANTS Tokens, Reqs

VARIABLES
  token,      \* [Tokens -> where the approval is in its life]
  holder,     \* [Reqs -> the tokens the request consumed]
  outcome,    \* [Reqs -> what the caller is told about the send]
  delivered   \* requests whose message a server accepted

vars == <<token, holder, outcome, delivered>>

Settled == {"sent", "failed", "uncertain"}

Init ==
  /\ token = [t \in Tokens |-> "none"]
  /\ holder = [r \in Reqs |-> {}]
  /\ outcome = [r \in Reqs |-> "none"]
  /\ delivered = {}

Issue(t) ==
  /\ token[t] = "none"
  /\ token' = [token EXCEPT ![t] = "pending"]
  /\ UNCHANGED <<holder, outcome, delivered>>

Expire(t) ==
  /\ token[t] = "pending"
  /\ token' = [token EXCEPT ![t] = "expired"]
  /\ UNCHANGED <<holder, outcome, delivered>>

(* The token is used up and the request now holds it.                        *)
Authorise(r, t) ==
  /\ token[t] = "pending" /\ holder[r] = {}
  /\ token' = [token EXCEPT ![t] = "used"]
  /\ holder' = [holder EXCEPT ![r] = {t}]
  /\ UNCHANGED <<outcome, delivered>>

Open(r) ==
  /\ holder[r] # {} /\ outcome[r] = "none"
  /\ outcome' = [outcome EXCEPT ![r] = "open"]
  /\ UNCHANGED <<token, holder, delivered>>

(* A server accepts the message; it may do so again while nobody knows.      *)
Deliver(r) ==
  /\ outcome[r] = "open"
  /\ delivered' = delivered \cup {r}
  /\ UNCHANGED <<token, holder, outcome>>

Settle(r, res) ==
  /\ outcome[r] = "open"
  /\ res = "sent" => r \in delivered
  /\ outcome' = [outcome EXCEPT ![r] = res]
  /\ UNCHANGED <<token, holder, delivered>>

Next ==
  \/ \E t \in Tokens : Issue(t) \/ Expire(t)
  \/ \E r \in Reqs : \/ \E t \in Tokens : Authorise(r, t)
                     \/ Open(r)
                     \/ Deliver(r)
                     \/ \E res \in Settled : Settle(r, res)

Spec == Init /\ [][Next]_vars
=============================================================================
