----------------------------- MODULE SpawnExchange -----------------------------
(***************************************************************************)
(* What the socket between the host and its fork server is used as: calls  *)
(* take turns; each asks once, is granted a child or refused one, and is   *)
(* answered accordingly.  ForkServer and Supervisor rely on exactly this.  *)
(* Where a request does not fit the socket the server may break down, and  *)
(* the calls that are not answered by then fail.                           *)
(***************************************************************************)
CONSTANT Jobs

VARIABLES
    fits,      \* every request can pass the socket in one piece
    up,        \* the server serves
    request,   \* what became of each request: "ready", "asked" or "granted"
    answer     \* of each call: "none", "child", "refused" or "broken"

exchangeVars == <<fits, up, request, answer>>

Init ==
    /\ fits \in BOOLEAN
    /\ up = TRUE
    /\ request = [j \in Jobs |-> "ready"]
    /\ answer  = [j \in Jobs |-> "none"]

Waiting(j) == request[j] # "ready" /\ answer[j] = "none"

Ask(j) ==
    /\ request[j] = "ready" /\ answer[j] = "none"
    /\ \A k \in Jobs : ~Waiting(k)
    /\ request' = [request EXCEPT ![j] = "asked"]
    /\ UNCHANGED <<fits, up, answer>>

Grant(j) ==
    /\ up
    /\ request[j] = "asked" /\ answer[j] = "none"
    /\ request' = [request EXCEPT ![j] = "granted"]
    /\ UNCHANGED <<fits, up, answer>>

Answer(j) ==
    /\ Waiting(j)
    /\ answer' = [answer EXCEPT ![j] =
                      IF request[j] = "granted" THEN "child" ELSE "refused"]
    /\ UNCHANGED <<fits, up, request>>

BreakDown ==
    /\ ~fits
    /\ up' = FALSE
    /\ UNCHANGED <<fits, request, answer>>

Fail(j) ==
    /\ ~up
    /\ answer[j] = "none"
    /\ request' = [request EXCEPT ![j] = IF @ = "granted" THEN "granted" ELSE "asked"]
    /\ answer' = [answer EXCEPT ![j] = "broken"]
    /\ UNCHANGED <<fits, up>>

Next == BreakDown \/ \E j \in Jobs : Ask(j) \/ Grant(j) \/ Answer(j) \/ Fail(j)

Spec == Init /\ [][Next]_exchangeVars
================================================================================
