----------------------------- MODULE Attachment -----------------------------
(***************************************************************************)
(* What attaching and detaching promise the container orchestrator, with   *)
(* the handlers, their mutexes, the addresses and the API requests left    *)
(* out.  VolumeAttach implements it.                                       *)
(*                                                                         *)
(* A volume is attached to one server at most.  An answer is true when it  *)
(* is given, and it stays true: the volume is not taken from a server it   *)
(* was reported attached to, nor put on one it was reported detached from, *)
(* before the orchestrator asks for that.  The promise is void for a       *)
(* server once a request to it was abandoned on the wire.                  *)
(***************************************************************************)

CONSTANTS Volumes, Servers

VARIABLES
    servers,    \* the servers that exist
    on,         \* the volumes attached to each server
    answer,     \* what the orchestrator was last told, and may rely on
    disturbed   \* servers for which some request was abandoned

avars == <<servers, on, answer, disturbed>>

Opposite(a) == IF a = "published" THEN "unpublished" ELSE "published"

Init ==
    /\ servers = Servers
    /\ on = [s \in Servers |-> {}]
    /\ answer = [v \in Volumes |-> [s \in Servers |-> "unknown"]]
    /\ disturbed = {}

\* The orchestrator asks for v to be published on, or unpublished from, the
\* servers in S: an opposite answer no longer binds.
Ask(v, S, a) ==
    /\ answer' = [answer EXCEPT ![v] = [s \in Servers |->
                    IF s \in S /\ @[s] = Opposite(a) THEN "unknown" ELSE @[s]]]
    /\ UNCHANGED <<servers, on, disturbed>>

\* It is told that v is published on, or unpublished from, all of S.
Answer(v, S, a) ==
    /\ \A s \in S \ disturbed :
          IF a = "published" THEN s \in servers => v \in on[s] ELSE v \notin on[s]
    /\ answer' = [answer EXCEPT ![v] = [s \in Servers |-> IF s \in S THEN a ELSE @[s]]]
    /\ UNCHANGED <<servers, on, disturbed>>

Attach(v, s) ==
    /\ s \in servers
    /\ \A t \in Servers : v \notin on[t]
    /\ s \in disturbed \/ answer[v][s] # "unpublished"
    /\ on' = [on EXCEPT ![s] = @ \union {v}]
    /\ UNCHANGED <<servers, answer, disturbed>>

Detach(v, s) ==
    /\ s \in servers
    /\ v \in on[s]
    /\ s \in disturbed \/ answer[v][s] # "published"
    /\ on' = [on EXCEPT ![s] = @ \ {v}]
    /\ UNCHANGED <<servers, answer, disturbed>>

Disturb(s) ==
    /\ disturbed' = disturbed \union {s}
    /\ UNCHANGED <<servers, on, answer>>

ServerLost(s) ==
    /\ servers' = servers \ {s}
    /\ on' = [on EXCEPT ![s] = {}]
    /\ UNCHANGED <<answer, disturbed>>

Next ==
    \/ \E v \in Volumes, S \in SUBSET Servers, a \in {"published", "unpublished"} :
          Ask(v, S, a) \/ Answer(v, S, a)
    \/ \E v \in Volumes, s \in Servers : Attach(v, s) \/ Detach(v, s)
    \/ \E s \in Servers : Disturb(s) \/ ServerLost(s)

Spec == Init /\ [][Next]_avars

=============================================================================
