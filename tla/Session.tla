------------------------------ MODULE Session ------------------------------
(***************************************************************************)
(* Sessions (src/src/sessions.c), their time stamps (src/src/utils.c) and  *)
(* the cookie that carries them (src/src/responses.c), for one browser     *)
(* whose requests may be served at the same time, in any order.            *)
(*                                                                         *)
(* A text is the sequence of its strings, each one ended by a NUL in the   *)
(* code; base64 and the quotes of the cookie, which give back what they    *)
(* were given, are left out.  A signature is the secret it was made with.  *)
(* SECRET_KEY is a number: a server that starts again has the same one or  *)
(* a new one, never an old one.  The browser and the view are external.  A view  *)
(* makes no call on a session after saving it, because                     *)
(* balde_session_save leaves the request with a pointer to freed memory.   *)
(***************************************************************************)
EXTENDS Integers, Sequences, FiniteSets, Functions

CONSTANTS
    Request, Key, Value,
    Lifetime,       \* PERMANENT_SESSION_LIFETIME
    Wrap,           \* how many values a C int has
    MaxTime, MaxRestarts,   \* bounds on the clock and on SECRET_KEY
    Junk,           \* a cookie this server did not sign
    Null

ASSUME SessionAssumption ==
    /\ Lifetime \in Int
    /\ Wrap \in Nat \ {0}
    /\ Lifetime % Wrap # 0
    /\ IsFiniteSet(Key)
    /\ MaxTime \in Nat /\ MaxRestarts \in Nat

VARIABLES
    now,
    secret,     \* SECRET_KEY, or Null
    jar,        \* the browser's cookie, or Null
    phase,      \* per request: new, running or over
    cookie,     \* per request: the cookie it was sent with, or Null
    session,    \* per request: priv->session is null, open or freed
    storage,    \* per request: session->storage, or Null
    error,      \* per request: app->error is set
    answer      \* per request: the Set-Cookie of its response, or Null

vars == <<now, secret, jar, phase, cookie, session, storage, error, answer>>

\* The strings of a session; a cookie this server signed; any cookie; what the
\* browser keeps; a Set-Cookie, with an empty value (Null) to delete the cookie.
Table      == UNION {[K -> Value] : K \in SUBSET Key}
SignedText == [text : Seq(Key \cup Value), stamp : 0..MaxTime, key : 0..MaxRestarts]
Cookie     == SignedText \cup {Junk}
Kept       == [cookie : Cookie, expires : Nat \cup {Null}]
SetCookies == [value : SignedText \cup {Null}, maxAge : Int]

ASSUME NullAssumption ==
    /\ Null \notin Nat /\ Null \notin Table /\ Null \notin Kept
    /\ Null \notin SetCookies /\ Null \notin Cookie
    /\ Junk \notin SignedText

-----------------------------------------------------------------------------
(* Conversions *)

\* guint and gint from gint64: the life time the server checks, and the one
\* it tells the browser.
Unsigned(x) == x % Wrap
Signed(x) == IF 2 * Unsigned(x) < Wrap THEN Unsigned(x) ELSE Unsigned(x) - Wrap

\* The items of a table in the order in which GHashTable lists its keys.
Listing(table) ==
    Bijection(1..Cardinality(DOMAIN table), DOMAIN table)
Serialize(table, keys) ==
    [i \in 1..(2 * Cardinality(DOMAIN table)) |->
        IF i % 2 = 1 THEN keys[(i + 1) \div 2] ELSE table[keys[i \div 2]]]

\* A string by itself at the end is dropped; the last of two equal keys wins.
Unserialize(text) ==
    LET Item(k) == {i \in 1..(Len(text) \div 2) : text[2 * i - 1] = k}
        Newest(k) == CHOOSE i \in Item(k) : \A j \in Item(k) : j <= i
    IN  [k \in {text[2 * i - 1] : i \in 1..(Len(text) \div 2)} |->
            text[2 * Newest(k)]]

Sign(text) == [text |-> text, stamp |-> now, key |-> secret]

\* Mutant: balde_session_unsign without balde_validate_timestamp.
UnsignNoTime(c) ==
    CASE c = Junk -> "BAD_FORMAT"
      [] c # Junk /\ c.key # secret -> "BAD_SIGN"
      [] OTHER -> "OK"

Unsign(c) ==
    CASE c = Junk -> "BAD_FORMAT"
      [] c # Junk /\ c.key # secret -> "BAD_SIGN"
      [] c # Junk /\ c.key = secret /\ now > c.stamp + Unsigned(Lifetime) ->
            "BAD_TIMESTAMP"
      [] OTHER -> "OK"

-----------------------------------------------------------------------------
Init ==
    /\ now = 0
    /\ secret \in {Null, 0}
    /\ jar \in {Null, [cookie |-> Junk, expires |-> Null]}
    /\ phase = [r \in Request |-> "new"]
    /\ cookie = [r \in Request |-> Null]
    /\ session = [r \in Request |-> "null"]
    /\ storage = [r \in Request |-> Null]
    /\ error = [r \in Request |-> FALSE]
    /\ answer = [r \in Request |-> Null]

\* The browser sends a request, with its cookie unless that has expired.
Arrive(r) ==
    /\ phase[r] = "new"
    /\ (jar # Null /\ jar.expires # Null) => now <= jar.expires
    /\ phase' = [phase EXCEPT ![r] = "running"]
    /\ cookie' = [cookie EXCEPT ![r] = IF jar = Null THEN Null ELSE jar.cookie]
    /\ UNCHANGED <<now, secret, jar, session, storage, error, answer>>

\* Mutant: balde_session_open without the test of SECRET_KEY.
OpenNoSecret(r) ==
    /\ phase[r] = "running"
    /\ ~error[r]
    /\ session[r] = "null"
    /\ session' = [session EXCEPT ![r] = "open"]
    /\ storage' = [storage EXCEPT ![r] =
            IF cookie[r] # Null /\ Unsign(cookie[r]) = "OK"
            THEN Unserialize(cookie[r].text) ELSE Null]
    /\ UNCHANGED <<now, secret, jar, phase, cookie, error, answer>>

Open(r) ==
    /\ phase[r] = "running"
    /\ ~error[r]
    /\ session[r] = "null"
    /\ \/ /\ secret = Null
          /\ error' = [error EXCEPT ![r] = TRUE]
          /\ UNCHANGED <<session, storage>>
       \/ /\ secret # Null
          /\ session' = [session EXCEPT ![r] = "open"]
          /\ storage' = [storage EXCEPT ![r] =
                IF cookie[r] # Null /\ Unsign(cookie[r]) = "OK"
                THEN Unserialize(cookie[r].text) ELSE Null]
          /\ UNCHANGED error
    /\ UNCHANGED <<now, secret, jar, phase, cookie, answer>>

\* What balde_session_get answers.
Get(r, k) ==
    IF session[r] = "null" \/ storage[r] = Null THEN Null
    ELSE IF k \in DOMAIN storage[r] THEN storage[r][k] ELSE Null

Set(r, k, v) ==
    /\ phase[r] = "running"
    /\ session[r] = "open"
    /\ storage' = [storage EXCEPT ![r] =
            IF storage[r] = Null THEN [x \in {k} |-> v]
            ELSE [x \in DOMAIN storage[r] \cup {k} |->
                    IF x = k THEN v ELSE storage[r][x]]]
    /\ UNCHANGED <<now, secret, jar, phase, cookie, session, error, answer>>

Delete(r, k) ==
    /\ phase[r] = "running"
    /\ session[r] = "open"
    /\ storage[r] # Null
    /\ storage' = [storage EXCEPT ![r] =
            [x \in DOMAIN storage[r] \ {k} |-> storage[r][x]]]
    /\ UNCHANGED <<now, secret, jar, phase, cookie, session, error, answer>>

\* balde_response_set_cookie, as far as the life of the cookie goes.
SetCookie(value, maxAge) == [value |-> value, maxAge |-> maxAge]
DeleteCookie == SetCookie(Null, 0)

\* Mutant: balde_session_save with no balde_response_delete_cookie.
SaveNoDelete(r) ==
    /\ phase[r] = "running"
    /\ session[r] = "open"
    /\ \/ storage[r] = Null /\ UNCHANGED answer
       \/ /\ storage[r] # Null
          /\ \E keys \in Listing(storage[r]) :
                answer' = [answer EXCEPT ![r] =
                    SetCookie(Sign(Serialize(storage[r], keys)),
                              Signed(Lifetime))]
    /\ session' = [session EXCEPT ![r] = "freed"]
    /\ storage' = [storage EXCEPT ![r] = Null]
    /\ UNCHANGED <<now, secret, jar, phase, cookie, error>>

\* Mutant: balde_session_save with the life time in another unit.
SaveShort(r) ==
    /\ phase[r] = "running"
    /\ session[r] = "open"
    /\ \E keys \in IF storage[r] = Null THEN {<<>>} ELSE Listing(storage[r]) :
          answer' = [answer EXCEPT ![r] =
            IF storage[r] = Null THEN DeleteCookie
            ELSE SetCookie(Sign(Serialize(storage[r], keys)),
                           Signed(Lifetime) \div 2)]
    /\ session' = [session EXCEPT ![r] = "freed"]
    /\ storage' = [storage EXCEPT ![r] = Null]
    /\ UNCHANGED <<now, secret, jar, phase, cookie, error>>

Save(r) ==
    /\ phase[r] = "running"
    /\ session[r] = "open"
    /\ \/ /\ storage[r] = Null
          /\ answer' = [answer EXCEPT ![r] = DeleteCookie]
       \/ /\ storage[r] # Null
          /\ \E keys \in Listing(storage[r]) :
                answer' = [answer EXCEPT ![r] =
                    SetCookie(Sign(Serialize(storage[r], keys)),
                              Signed(Lifetime))]
    /\ session' = [session EXCEPT ![r] = "freed"]
    /\ storage' = [storage EXCEPT ![r] = Null]
    /\ UNCHANGED <<now, secret, jar, phase, cookie, error>>

\* The view, or a hook, raises an error of its own.
Raise(r) ==
    /\ phase[r] = "running"
    /\ error' = [error EXCEPT ![r] = TRUE]
    /\ UNCHANGED <<now, secret, jar, phase, cookie, session, storage, answer>>

\* What the browser makes of a Set-Cookie: a Max-Age that is not positive
\* removes the cookie, none keeps it until the browser is closed.
Stored(a) ==
    IF a.maxAge = 0 THEN Null
    ELSE [cookie |-> a.value,
          expires |-> IF a.maxAge < 0 THEN Null ELSE now + a.maxAge]

\* The response reaches the browser; that of a request with an error was made
\* from the error and has no cookie.
Reply(r) ==
    /\ phase[r] = "running"
    /\ phase' = [phase EXCEPT ![r] = "over"]
    /\ jar' = IF error[r] \/ answer[r] = Null THEN jar ELSE Stored(answer[r])
    /\ cookie' = [cookie EXCEPT ![r] = Null]
    /\ session' = [session EXCEPT ![r] = "null"]
    /\ storage' = [storage EXCEPT ![r] = Null]
    /\ answer' = [answer EXCEPT ![r] = Null]
    /\ UNCHANGED <<now, secret, error>>

\* The browser drops an expired cookie; closing it drops one with no date.
Evict ==
    /\ jar # Null
    /\ jar.expires # Null => now > jar.expires
    /\ jar' = Null
    /\ UNCHANGED <<now, secret, phase, cookie, session, storage, error, answer>>

\* The server stops with the requests it handles, and starts again, with the
\* same SECRET_KEY or with another one.
Restart ==
    /\ \/ UNCHANGED secret
       \/ secret # Null /\ secret # MaxRestarts /\ secret' = secret + 1
    /\ phase' = [r \in Request |-> IF phase[r] = "new" THEN "new" ELSE "over"]
    /\ cookie' = [r \in Request |-> Null]
    /\ session' = [r \in Request |-> "null"]
    /\ storage' = [r \in Request |-> Null]
    /\ answer' = [r \in Request |-> Null]
    /\ UNCHANGED <<now, jar, error>>

Tick ==
    /\ now < MaxTime
    /\ now' = now + 1
    /\ UNCHANGED <<secret, jar, phase, cookie, session, storage, error, answer>>

Handle(r) ==
    \/ Arrive(r)
    \/ Open(r)
    \/ \E k \in Key, v \in Value : Set(r, k, v)
    \/ \E k \in Key : Delete(r, k)
    \/ Save(r)
    \/ Raise(r)
    \/ Reply(r)

Next ==
    \/ \E r \in Request : Handle(r)
    \/ Evict
    \/ Restart
    \/ Tick

Spec == Init /\ [][Next]_vars

-----------------------------------------------------------------------------
(* Properties *)

\* The types of the variables.
TypeOK ==
    /\ now \in 0..MaxTime
    /\ secret \in 0..MaxRestarts \cup {Null}
    /\ jar \in Kept \cup {Null}
    /\ phase \in [Request -> {"new", "running", "over"}]
    /\ cookie \in [Request -> Cookie \cup {Null}]
    /\ session \in [Request -> {"null", "open", "freed"}]
    /\ storage \in [Request -> Table \cup {Null}]
    /\ error \in [Request -> BOOLEAN]
    /\ answer \in [Request -> SetCookies \cup {Null}]

\* The browser keeps a cookie of this server at least for as long as the server
\* accepts it: the Max-Age counts from a later second than the time stamp, and
\* the two ways the life time is converted agree (balde_session_save).
KeptLongEnough ==
    (jar # Null /\ Signed(Lifetime) > 0) =>
        \/ jar.cookie = Junk
        \/ jar.expires # Null /\ jar.expires >= jar.cookie.stamp + Unsigned(Lifetime)

\* The invariant the proofs rest on.  A signed cookie holds a table and was made
\* in the past with a secret the server has or had; a request has a cookie, a
\* session and an answer only while it runs, an answer only of the saved session.
Sound(c) ==
    c # Junk =>
        /\ Unserialize(c.text) \in Table
        /\ c.stamp <= now
        /\ secret # Null /\ c.key <= secret
JarSound == jar # Null => Sound(jar.cookie)
CookiesSound == \A r \in Request : cookie[r] # Null => Sound(cookie[r])
RequestsSound ==
    \A r \in Request :
        /\ phase[r] # "running" => cookie[r] = Null /\ session[r] = "null"
        /\ session[r] # "open" => storage[r] = Null
        /\ session[r] # "null" => secret # Null
        /\ session[r] = "freed" <=> answer[r] # Null
AnswersSound ==
    \A r \in Request : answer[r] # Null =>
        \/ answer[r].value = Null /\ answer[r].maxAge = 0
        \/ /\ answer[r].value \in SignedText /\ Sound(answer[r].value)
           /\ answer[r].value.key = secret
           /\ answer[r].maxAge = Signed(Lifetime)
SessionInv ==
    /\ TypeOK /\ JarSound /\ CookiesSound /\ RequestsSound /\ AnswersSound
    /\ KeptLongEnough

\* The session the server finds in a cookie, for as long as it accepts it.
Empty == [k \in {} |-> Null]
Nothing == [content |-> Empty, until |-> 0]
Meaning(c) ==
    IF c \in {Null, Junk} THEN Nothing
    ELSE IF c.key # secret \/ Unserialize(c.text) = Empty THEN Nothing
    ELSE [content |-> Unserialize(c.text),
          until |-> c.stamp + Unsigned(Lifetime)]

\* The state of the store the cookies stand for.
StoreBar == IF jar = Null THEN Nothing ELSE Meaning(jar.cookie)
PhaseBar == [r \in Request |->
    IF phase[r] # "running" THEN phase[r]
    ELSE IF session[r] = "null" THEN "arrived"
    ELSE IF session[r] = "open" THEN "open" ELSE "saved"]
SeesBar  == [r \in Request |-> Meaning(cookie[r])]
CopyBar  == [r \in Request |-> IF storage[r] = Null THEN Empty ELSE storage[r]]
SavedBar == [r \in Request |->
    IF answer[r] = Null THEN Nothing ELSE Meaning(answer[r].value)]

\* The cookie implements a session kept on the server (SessionStore): what a
\* view finds is the whole of what the last answered view saved before the
\* request was sent, it is kept for the life time and no longer, whatever the
\* requests served at the same time, errors, restarts and unreadable cookies.
\* balde_session_open, balde_session_save, balde_session_unsign.
Store == INSTANCE SessionStore WITH
    Lifetime <- Unsigned(Lifetime), Persistent <- Signed(Lifetime) > 0,
    store <- StoreBar, phase <- PhaseBar, sees <- SeesBar, copy <- CopyBar,
    saved <- SavedBar
KeptAsStored == Store!Spec

\* Saving replaces a cookie the server does not accept (BAD_FORMAT, BAD_SIGN,
\* BAD_TIMESTAMP), or takes it from the browser, so that it comes back no more.
BadCookieReplaced ==
    [][\A r \in Request :
        (Reply(r) /\ session[r] = "freed" /\ ~error[r]) =>
            \/ jar' = Null
            \/ jar'.cookie # Junk /\ jar'.cookie.key = secret]_vars
=============================================================================
