-------------------------------- MODULE RPC --------------------------------
(***************************************************************************)
(* What Transport promises its users (spec.md, "call" and "oneway"): each  *)
(* call a caller issues is answered exactly once, with the response to its *)
(* own request, and returns; a oneway returns once sent; the serving side  *)
(* keeps serving until every caller is done.  Each step is atomic here.    *)
(***************************************************************************)
EXTENDS Naturals

CONSTANTS Callers, CallsPerCaller, NoCaller

VARIABLES
    st,       \* "idle", "calling" (call issued) or "sending" (oneway issued)
    result,   \* the response a caller's pending call received, or NoCaller
    issued,   \* RPCs each caller has issued
    serving   \* whether serve() is still running

avars == <<st, result, issued, serving>>

Init ==
    /\ st = [c \in Callers |-> "idle"]
    /\ result = [c \in Callers |-> NoCaller]
    /\ issued = [c \in Callers |-> 0]
    /\ serving = TRUE

\* A caller issues a call or a oneway while the server serves.
Issue(c) ==
    /\ serving
    /\ st[c] = "idle"
    /\ issued[c] < CallsPerCaller
    /\ \E k \in {"calling", "sending"} : st' = [st EXCEPT ![c] = k]
    /\ issued' = [issued EXCEPT ![c] = @ + 1]
    /\ UNCHANGED <<result, serving>>

\* The server answers the call with the response to the caller's request.
Answer(c) ==
    /\ st[c] = "calling"
    /\ result[c] = NoCaller
    /\ result' = [result EXCEPT ![c] = c]
    /\ UNCHANGED <<st, issued, serving>>

\* The call returns its response.
Return(c) ==
    /\ st[c] = "calling"
    /\ result[c] # NoCaller
    /\ st' = [st EXCEPT ![c] = "idle"]
    /\ result' = [result EXCEPT ![c] = NoCaller]
    /\ UNCHANGED <<issued, serving>>

\* The oneway has been sent and returns.
Deliver(c) ==
    /\ st[c] = "sending"
    /\ st' = [st EXCEPT ![c] = "idle"]
    /\ UNCHANGED <<result, issued, serving>>

\* serve() returns once every caller has issued all its RPCs and is idle.
EndServe ==
    /\ serving
    /\ \A c \in Callers : st[c] = "idle" /\ issued[c] = CallsPerCaller
    /\ serving' = FALSE
    /\ UNCHANGED <<st, result, issued>>

Next ==
    \/ \E c \in Callers : Issue(c) \/ Answer(c) \/ Return(c) \/ Deliver(c)
    \/ EndServe

Spec ==
    /\ Init /\ [][Next]_avars
    /\ \A c \in Callers : /\ WF_avars(Issue(c)) /\ WF_avars(Answer(c))
                          /\ WF_avars(Return(c)) /\ WF_avars(Deliver(c))
    /\ WF_avars(EndServe)

====
