---------------------------- MODULE SessionStore ----------------------------
(***************************************************************************)
(* What the session functions of balde promise the views that serve one    *)
(* browser, as if the session were kept on the server.  A request sees the *)
(* session as it was when the browser sent it; the view works on a copy of *)
(* its own; saving offers the whole copy, and the last answer to reach the *)
(* browser decides.  What was saved is kept for Lifetime seconds and not   *)
(* longer; it may be lost earlier only with the server's secret or, if it  *)
(* is not Persistent, when the browser is closed.  Session is shown to     *)
(* implement this with a cookie.                                           *)
(***************************************************************************)
EXTENDS Integers

CONSTANTS
    Request, Key, Value,
    Lifetime,       \* seconds a saved session is kept
    Persistent,     \* FALSE if the browser may forget it when it is closed
    Null

VARIABLES
    now,
    store,      \* the session of the browser
    phase,      \* per request: how far it is
    sees,       \* per request: the session it was sent with
    copy,       \* per request: what its view works on
    saved       \* per request: what its view saved

vars == <<now, store, phase, sees, copy, saved>>

Content == UNION {[K -> Value] : K \in SUBSET Key}
Empty   == [k \in {} |-> Null]

\* A session that is remembered until a time; an empty one is no session.
Nothing == [content |-> Empty, until |-> 0]
Remember(content, until) ==
    IF content = Empty THEN Nothing ELSE [content |-> content, until |-> until]
Visible(s) == IF now <= s.until THEN s.content ELSE Empty

Put(content, k, v) ==
    [x \in DOMAIN content \cup {k} |-> IF x = k THEN v ELSE content[x]]
Remove(content, k) == [x \in DOMAIN content \ {k} |-> content[x]]

Init ==
    /\ now = 0
    /\ store = Nothing
    /\ phase = [r \in Request |-> "new"]
    /\ sees = [r \in Request |-> Nothing]
    /\ copy = [r \in Request |-> Empty]
    /\ saved = [r \in Request |-> Nothing]

Arrive(r) ==
    /\ phase[r] = "new"
    /\ phase' = [phase EXCEPT ![r] = "arrived"]
    /\ sees' = [sees EXCEPT ![r] = store]
    /\ UNCHANGED <<now, store, copy, saved>>

Open(r) ==
    /\ phase[r] = "arrived"
    /\ phase' = [phase EXCEPT ![r] = "open"]
    /\ copy' = [copy EXCEPT ![r] = Visible(sees[r])]
    /\ UNCHANGED <<now, store, sees, saved>>

Change(r) ==
    /\ phase[r] = "open"
    /\ \E k \in Key :
        \/ \E v \in Value : copy' = [copy EXCEPT ![r] = Put(copy[r], k, v)]
        \/ copy' = [copy EXCEPT ![r] = Remove(copy[r], k)]
    /\ UNCHANGED <<now, store, phase, sees, saved>>

Save(r) ==
    /\ phase[r] = "open"
    /\ phase' = [phase EXCEPT ![r] = "saved"]
    /\ saved' = [saved EXCEPT ![r] = Remember(copy[r], now + Lifetime)]
    /\ copy' = [copy EXCEPT ![r] = Empty]
    /\ UNCHANGED <<now, store, sees>>

\* The answer reaches the browser; the copy of a view that did not save, or
\* that saved and then failed, is given up.
Answer(r) ==
    /\ phase[r] \in {"arrived", "open", "saved"}
    /\ \/ phase[r] = "saved" /\ store' = saved[r]
       \/ UNCHANGED store
    /\ phase' = [phase EXCEPT ![r] = "over"]
    /\ sees' = [sees EXCEPT ![r] = Nothing]
    /\ copy' = [copy EXCEPT ![r] = Empty]
    /\ saved' = [saved EXCEPT ![r] = Nothing]
    /\ UNCHANGED now

Forget ==
    /\ now > store.until \/ ~Persistent
    /\ store' = Nothing
    /\ UNCHANGED <<now, phase, sees, copy, saved>>

\* The server starts again.  The session survives, unless the server has another
\* secret; the requests it handled do not.
Restart ==
    /\ store' \in {store, Nothing}
    /\ phase' = [r \in Request |-> IF phase[r] = "new" THEN "new" ELSE "over"]
    /\ sees' = [r \in Request |-> Nothing]
    /\ copy' = [r \in Request |-> Empty]
    /\ saved' = [r \in Request |-> Nothing]
    /\ UNCHANGED now

Tick == now' = now + 1 /\ UNCHANGED <<store, phase, sees, copy, saved>>

Next ==
    \/ \E r \in Request :
        Arrive(r) \/ Open(r) \/ Change(r) \/ Save(r) \/ Answer(r)
    \/ Forget \/ Restart \/ Tick

Spec == Init /\ [][Next]_vars
=============================================================================
