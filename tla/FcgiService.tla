----------------------------- MODULE FcgiService -----------------------------
(***************************************************************************)
(* What a FastCGI connection of balde promises an orderly web server:      *)
(* every transaction it submits is answered at most once and only after it *)
(* was submitted; an answer reaches the web server whole; the connection   *)
(* closes only when the web server has left or when a transaction begun    *)
(* without FCGI_KEEP_CONN has been answered.  While the connection is open *)
(* every submitted transaction is eventually answered, and a connection    *)
(* that has a reason to close does.  Fcgi is shown to implement this.      *)
(***************************************************************************)
CONSTANTS Req

VARIABLES
    status,     \* how far each transaction is
    keep,       \* FCGI_KEEP_CONN of each transaction that was begun
    gone,       \* the web server closed its end
    open        \* the connection is open

vars == <<status, keep, gone, open>>

Init ==
    /\ status = [r \in Req |-> "none"]
    /\ keep = [r \in Req |-> FALSE]
    /\ gone = FALSE
    /\ open = TRUE

Begin(r) ==
    /\ open
    /\ status[r] = "none"
    /\ status' = [status EXCEPT ![r] = "begun"]
    /\ \E k \in BOOLEAN : keep' = [keep EXCEPT ![r] = k]
    /\ UNCHANGED <<gone, open>>

Submit(r) ==
    /\ open
    /\ status[r] = "begun"
    /\ status' = [status EXCEPT ![r] = "submitted"]
    /\ UNCHANGED <<keep, gone, open>>

Answer(r) ==
    /\ open
    /\ status[r] = "submitted"
    /\ status' = [status EXCEPT ![r] = "answered"]
    /\ UNCHANGED <<keep, gone, open>>

Leave ==
    /\ ~gone
    /\ gone' = TRUE
    /\ UNCHANGED <<status, keep, open>>

Close ==
    /\ open
    /\ gone \/ \E r \in Req : status[r] = "answered" /\ ~keep[r]
    /\ open' = FALSE
    /\ UNCHANGED <<status, keep, gone>>

Next ==
    \/ \E r \in Req : Begin(r) \/ Submit(r) \/ Answer(r)
    \/ Leave
    \/ Close

Safe == Init /\ [][Next]_vars

Spec == Safe /\ WF_vars(Close) /\ \A r \in Req : WF_vars(Answer(r))
=============================================================================
