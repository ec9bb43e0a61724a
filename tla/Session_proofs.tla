--------------------------- MODULE Session_proofs ---------------------------
(***************************************************************************)
(* Session implements SessionStore, for any number of requests, keys and   *)
(* values, any life time and any width of an int.                          *)
(***************************************************************************)
EXTENDS Session, FiniteSetTheorems, TLAPS

\* The life time told to the browser is never 0, and is the one the server
\* checks unless the browser is told to keep the cookie until it is closed.
LEMMA LifetimeFacts ==
    /\ Unsigned(Lifetime) \in Nat
    /\ Signed(Lifetime) \in Int
    /\ Signed(Lifetime) # 0
    /\ Signed(Lifetime) > 0 => Signed(Lifetime) = Unsigned(Lifetime)
<1>1. Lifetime % Wrap \in 0..(Wrap - 1) /\ Lifetime % Wrap # 0
  BY SessionAssumption
<1> QED
  BY <1>1, SessionAssumption DEF Unsigned, Signed

\* A table has a listing of finitely many keys.
LEMMA TableFacts ==
    ASSUME NEW t \in Table
    PROVE  /\ Cardinality(DOMAIN t) \in Nat
           /\ t \in [DOMAIN t -> Value] /\ DOMAIN t \subseteq Key
<1>1. PICK K \in SUBSET Key : t \in [K -> Value]
  BY DEF Table
<1>2. IsFiniteSet(K)
  BY FS_Subset, SessionAssumption
<1> QED
  BY <1>1, <1>2, FS_CardinalityType

\* balde_session_serialize makes a text, in whatever order it lists the keys.
LEMMA SerializeType ==
    ASSUME NEW t \in Table, NEW keys \in Listing(t)
    PROVE  Serialize(t, keys) \in Seq(Key \cup Value)
<1> DEFINE n == Cardinality(DOMAIN t)
           s == Serialize(t, keys)
<1>1. n \in Nat /\ t \in [DOMAIN t -> Value] /\ DOMAIN t \subseteq Key
  BY TableFacts
<1>2. keys \in [1..n -> DOMAIN t]
  BY DEF Listing, Bijection, Injection, Surjection, IsInjective
<1>3. ASSUME NEW i \in 1..(2 * n)
      PROVE  s[i] \in Key \cup Value
  <2>1. s[i] = IF i % 2 = 1 THEN keys[(i + 1) \div 2] ELSE t[keys[i \div 2]]
    BY DEF Serialize
  <2>2. CASE i % 2 = 1
    <3>1. (i + 1) \div 2 \in 1..n
      BY <1>1, <2>2
    <3> QED
      BY <1>1, <1>2, <2>1, <2>2, <3>1
  <2>3. CASE i % 2 # 1
    <3>1. i \div 2 \in 1..n
      BY <1>1, <2>3
    <3> QED
      BY <1>1, <1>2, <2>1, <2>3, <3>1
  <2> QED
    BY <2>2, <2>3
<1>4. s \in [1..(2 * n) -> Key \cup Value]
  BY <1>3 DEF Serialize
<1> QED
  BY <1>1, <1>4

\* balde_session_unserialize gives back the table that was serialized.
LEMMA RoundTrip ==
    ASSUME NEW t \in Table, NEW keys \in Listing(t)
    PROVE  Unserialize(Serialize(t, keys)) = t
<1> DEFINE n == Cardinality(DOMAIN t)
           s == Serialize(t, keys)
           Item(k) == {i \in 1..(Len(s) \div 2) : s[2 * i - 1] = k}
           Newest(k) == CHOOSE i \in Item(k) : \A j \in Item(k) : j <= i
<1>1. n \in Nat /\ t \in [DOMAIN t -> Value] /\ DOMAIN t \subseteq Key
  BY TableFacts
<1>2. /\ keys \in [1..n -> DOMAIN t]
      /\ \A a, b \in 1..n : keys[a] = keys[b] => a = b
      /\ \A k \in DOMAIN t : \E a \in 1..n : keys[a] = k
  BY DEF Listing, Bijection, Injection, Surjection, IsInjective
<1>3. Len(s) \div 2 = n
  <2>1. s \in Seq(Key \cup Value) /\ DOMAIN s = 1..(2 * n)
    BY SerializeType DEF Serialize
  <2>2. Len(s) = 2 * n
    BY <1>1, <2>1
  <2> QED
    BY <1>1, <2>2
<1>4. ASSUME NEW i \in 1..n
      PROVE  s[2 * i - 1] = keys[i] /\ s[2 * i] = t[keys[i]]
  <2>1. /\ 2 * i - 1 \in 1..(2 * n) /\ 2 * i \in 1..(2 * n)
        /\ (2 * i - 1) % 2 = 1 /\ (2 * i) % 2 # 1
        /\ ((2 * i - 1) + 1) \div 2 = i /\ (2 * i) \div 2 = i
    BY <1>1
  <2> QED
    BY <2>1 DEF Serialize
<1>5. {s[2 * i - 1] : i \in 1..(Len(s) \div 2)} = DOMAIN t
  <2>1. ASSUME NEW k \in DOMAIN t
        PROVE  \E i \in 1..(Len(s) \div 2) : k = s[2 * i - 1]
    BY <1>2, <1>3, <1>4
  <2>2. \A i \in 1..(Len(s) \div 2) : s[2 * i - 1] \in DOMAIN t
    BY <1>2, <1>3, <1>4
  <2> QED
    BY <2>1, <2>2
<1>6. ASSUME NEW k \in DOMAIN t
      PROVE  s[2 * Newest(k)] = t[k]
  <2>1. PICK a \in 1..n : keys[a] = k
    BY <1>2
  <2>2. Item(k) = {a}
    BY <1>2, <1>3, <1>4, <2>1
  <2>3. Newest(k) = a
    <3>1. a \in Item(k) /\ \A j \in Item(k) : j <= a
      BY <2>2
    <3> QED
      BY <2>2, <3>1
  <2> QED
    BY <1>4, <2>1, <2>3
<1>7. [k \in DOMAIN t |-> s[2 * Newest(k)]] = t
  BY <1>1, <1>6
<1> QED
  BY <1>5, <1>7 DEF Unserialize

-----------------------------------------------------------------------------
(* The invariant *)

THEOREM InitSound == Init => SessionInv
BY SessionAssumption, NullAssumption
   DEF Init, SessionInv, TypeOK, Kept, Cookie, JarSound, CookiesSound,
       RequestsSound, AnswersSound, KeptLongEnough, Sound

\* What a session may be opened with.
LEMMA OpenTable ==
    ASSUME SessionInv, NEW r \in Request, cookie[r] # Null,
           Unsign(cookie[r]) = "OK"
    PROVE  /\ cookie[r] \in SignedText /\ cookie[r].key = secret
           /\ now <= cookie[r].stamp + Unsigned(Lifetime)
           /\ Unserialize(cookie[r].text) \in Table
<1>1. cookie[r] # Junk
  BY DEF Unsign
<1>2. cookie[r] \in SignedText /\ Unserialize(cookie[r].text) \in Table
  BY <1>1 DEF SessionInv, TypeOK, CookiesSound, Sound, Cookie
<1>3. cookie[r].key = secret
  BY <1>1 DEF Unsign
<1>4. ~(now > cookie[r].stamp + Unsigned(Lifetime))
  BY <1>1, <1>3 DEF Unsign
<1> QED
  BY <1>2, <1>3, <1>4, LifetimeFacts DEF SessionInv, TypeOK, SignedText

\* What saving a session puts in the answer.
LEMMA SavedText ==
    ASSUME SessionInv, NEW r \in Request, secret # Null, storage[r] # Null,
           NEW keys \in Listing(storage[r])
    PROVE  LET c == Sign(Serialize(storage[r], keys)) IN
           /\ c \in SignedText /\ Sound(c) /\ c.key = secret /\ c.stamp = now
           /\ Unserialize(c.text) = storage[r]
<1>1. storage[r] \in Table
  BY DEF SessionInv, TypeOK
<1>2. Unserialize(Serialize(storage[r], keys)) = storage[r]
  BY <1>1, RoundTrip
<1>3. Serialize(storage[r], keys) \in Seq(Key \cup Value)
  BY <1>1, SerializeType
<1> QED
  BY <1>1, <1>2, <1>3 DEF Sign, SignedText, Sound, SessionInv, TypeOK

\* Changing a table gives a table.
LEMMA TableIntro ==
    ASSUME NEW K \in SUBSET Key, NEW t \in [K -> Value]
    PROVE  t \in Table
<1> DEFINE S == {[L -> Value] : L \in SUBSET Key}
<1>1. [K -> Value] \in S
  OBVIOUS
<1>2. t \in UNION S
  BY <1>1
<1> QED
  BY <1>2 DEF Table

LEMMA TableChange ==
    ASSUME NEW t \in Table, NEW k \in Key, NEW v \in Value
    PROVE  /\ [x \in {k} |-> v] \in Table
           /\ [x \in DOMAIN t \cup {k} |-> IF x = k THEN v ELSE t[x]] \in Table
<1>1. t \in [DOMAIN t -> Value] /\ DOMAIN t \subseteq Key
  BY TableFacts
<1>2. [x \in {k} |-> v] \in [{k} -> Value]
  OBVIOUS
<1>3. [x \in DOMAIN t \cup {k} |-> IF x = k THEN v ELSE t[x]]
        \in [DOMAIN t \cup {k} -> Value]
  BY <1>1
<1>4. {k} \in SUBSET Key /\ DOMAIN t \cup {k} \in SUBSET Key
  BY <1>1
<1> QED
  BY <1>2, <1>3, <1>4, TableIntro

LEMMA TableRemove ==
    ASSUME NEW t \in Table, NEW k \in Key
    PROVE  [x \in DOMAIN t \ {k} |-> t[x]] \in Table
<1>1. t \in [DOMAIN t -> Value] /\ DOMAIN t \subseteq Key
  BY TableFacts
<1>2. [x \in DOMAIN t \ {k} |-> t[x]] \in [DOMAIN t \ {k} -> Value]
  BY <1>1
<1>3. DOMAIN t \ {k} \in SUBSET Key
  BY <1>1
<1> QED
  BY <1>2, <1>3, TableIntro

THEOREM StepSound == SessionInv /\ [Next]_vars => SessionInv'
<1> SUFFICES ASSUME SessionInv, [Next]_vars
             PROVE  SessionInv'
  OBVIOUS
<1> USE DEF SessionInv
<1>a. ASSUME NEW r \in Request, Arrive(r)
      PROVE  SessionInv'
  BY <1>a DEF Arrive, TypeOK, Kept, JarSound, CookiesSound, RequestsSound,
     AnswersSound, KeptLongEnough, Sound
<1>b. ASSUME NEW r \in Request, Open(r)
      PROVE  SessionInv'
  <2>1. CASE secret = Null
    BY <1>b, <2>1 DEF Open, TypeOK, JarSound, CookiesSound, RequestsSound,
       AnswersSound, KeptLongEnough, Sound
  <2>2. CASE secret # Null
    <3>1. storage'[r] \in Table \cup {Null}
      BY <1>b, <2>2, OpenTable DEF Open, TypeOK
    <3> QED
      BY <1>b, <2>2, <3>1 DEF Open, TypeOK, JarSound, CookiesSound,
         RequestsSound, AnswersSound, KeptLongEnough, Sound
  <2> QED
    BY <2>1, <2>2
<1>c. ASSUME NEW r \in Request, NEW k \in Key, NEW v \in Value, Set(r, k, v)
      PROVE  SessionInv'
  <2>1. storage'[r] \in Table
    <3>1. CASE storage[r] = Null
      <4>1. storage'[r] = [x \in {k} |-> v]
        BY <1>c, <3>1 DEF Set, TypeOK
      <4>2. [x \in {k} |-> v] \in [{k} -> Value] /\ {k} \in SUBSET Key
        OBVIOUS
      <4> QED
        BY <4>1, <4>2, TableIntro
    <3>2. CASE storage[r] # Null
      <4>1. storage[r] \in Table
        BY <3>2 DEF TypeOK
      <4> QED
        BY <1>c, <3>2, <4>1, TableChange DEF Set, TypeOK
    <3> QED
      BY <3>1, <3>2
  <2> QED
    BY <1>c, <2>1 DEF Set, TypeOK, JarSound, CookiesSound, RequestsSound,
       AnswersSound, KeptLongEnough, Sound
<1>d. ASSUME NEW r \in Request, NEW k \in Key, Delete(r, k)
      PROVE  SessionInv'
  <2>1. storage'[r] \in Table
    BY <1>d, TableRemove DEF Delete, TypeOK
  <2> QED
    BY <1>d, <2>1 DEF Delete, TypeOK, JarSound, CookiesSound, RequestsSound,
       AnswersSound, KeptLongEnough, Sound
<1>e. ASSUME NEW r \in Request, Save(r)
      PROVE  SessionInv'
  <2>1. /\ answer'[r] \in SetCookies
        /\ \/ answer'[r].value = Null /\ answer'[r].maxAge = 0
           \/ /\ answer'[r].value \in SignedText /\ Sound(answer'[r].value)
              /\ answer'[r].value.key = secret
              /\ answer'[r].maxAge = Signed(Lifetime)
    <3>1. CASE storage[r] = Null
      BY <1>e, <3>1 DEF Save, TypeOK, DeleteCookie, SetCookie, SetCookies
    <3>2. CASE storage[r] # Null
      <4>1. PICK keys \in Listing(storage[r]) :
                answer' = [answer EXCEPT ![r] =
                    SetCookie(Sign(Serialize(storage[r], keys)),
                              Signed(Lifetime))]
        BY <1>e, <3>2 DEF Save
      <4>2. secret # Null
        BY <1>e DEF Save, RequestsSound
      <4> QED
        BY <3>2, <4>1, <4>2, SavedText, LifetimeFacts
           DEF SetCookie, SetCookies, TypeOK
    <3> QED
      BY <3>1, <3>2
  <2>2. /\ \A q \in Request \ {r} : answer'[q] = answer[q]
        /\ answer' \in [Request -> SetCookies \cup {Null}]
    BY <1>e, <2>1 DEF Save, TypeOK
  <2>3. AnswersSound'
    BY <1>e, <2>1, <2>2 DEF Save, AnswersSound, Sound
  <2>4. RequestsSound'
    BY <1>e, <2>1, <2>2, NullAssumption DEF Save, RequestsSound, TypeOK
  <2> QED
    BY <1>e, <2>2, <2>3, <2>4 DEF Save, TypeOK, JarSound, CookiesSound,
       KeptLongEnough, Sound
<1>f. ASSUME NEW r \in Request, Raise(r)
      PROVE  SessionInv'
  BY <1>f DEF Raise, TypeOK, JarSound, CookiesSound, RequestsSound,
     AnswersSound, KeptLongEnough, Sound
<1>g. ASSUME NEW r \in Request, Reply(r)
      PROVE  SessionInv'
  <2>1. CASE jar' = jar
    BY <1>g, <2>1 DEF Reply, TypeOK, JarSound, CookiesSound, RequestsSound,
       AnswersSound, KeptLongEnough, Sound
  <2>2. CASE jar' = Stored(answer[r]) /\ answer[r] # Null
    <3>1. CASE answer[r].maxAge = 0
      BY <1>g, <2>2, <3>1 DEF Reply, Stored, TypeOK, JarSound, CookiesSound,
         RequestsSound, AnswersSound, KeptLongEnough, Sound
    <3>2. CASE answer[r].maxAge # 0
      <4>1. /\ answer[r].value \in SignedText /\ Sound(answer[r].value)
            /\ answer[r].maxAge = Signed(Lifetime)
        BY <2>2, <3>2 DEF AnswersSound
      <4>2. /\ jar'.cookie = answer[r].value
            /\ jar'.expires = IF Signed(Lifetime) < 0 THEN Null
                              ELSE now + Signed(Lifetime)
            /\ jar' \in Kept
        BY <2>2, <3>2, <4>1, LifetimeFacts
           DEF Stored, Kept, Cookie, TypeOK
      <4>3. now <= MaxTime /\ now \in Nat /\ jar'.cookie.stamp \in Nat
            /\ (jar'.cookie # Junk => jar'.cookie.stamp <= now)
        BY <4>1, <4>2, SessionAssumption DEF TypeOK, Sound, SignedText
      <4>4. KeptLongEnough'
        BY <4>2, <4>3, LifetimeFacts, NullAssumption DEF KeptLongEnough
      <4> QED
        BY <1>g, <4>1, <4>2, <4>4 DEF Reply, TypeOK, JarSound, CookiesSound,
           RequestsSound, AnswersSound, Sound
    <3> QED
      BY <3>1, <3>2
  <2> QED
    BY <1>g, <2>1, <2>2 DEF Reply
<1>h. CASE Evict
  BY <1>h DEF Evict, TypeOK, JarSound, CookiesSound, RequestsSound,
     AnswersSound, KeptLongEnough, Sound
<1>i. CASE Restart
  <2>1. /\ secret' \in 0..MaxRestarts \cup {Null}
        /\ secret # Null => secret' # Null /\ secret' >= secret
    BY <1>i, NullAssumption, SessionAssumption DEF Restart, TypeOK
  <2>2. JarSound'
    BY <1>i, <2>1, SessionAssumption
       DEF Restart, TypeOK, JarSound, Sound, Kept, Cookie, SignedText
  <2> QED
    BY <1>i, <2>1, <2>2 DEF Restart, TypeOK, CookiesSound, RequestsSound,
       AnswersSound, KeptLongEnough
<1>j. CASE Tick
  <2>1. now' \in 0..MaxTime /\ now' = now + 1 /\ now \in 0..MaxTime
    BY <1>j, SessionAssumption DEF Tick, TypeOK
  <2>2. ASSUME NEW c \in Cookie, Sound(c)
        PROVE  Sound(c)'
    BY <1>j, <2>1, <2>2 DEF Tick, Sound, Cookie, SignedText
  <2>3. JarSound'
    BY <1>j, <2>2 DEF Tick, JarSound, TypeOK, Kept
  <2>4. CookiesSound'
    BY <1>j, <2>2 DEF Tick, CookiesSound, TypeOK
  <2>5. AnswersSound'
    BY <1>j, <2>2 DEF Tick, AnswersSound, TypeOK, Cookie
  <2> QED
    BY <1>j, <2>1, <2>3, <2>4, <2>5 DEF Tick, TypeOK, RequestsSound,
       KeptLongEnough
<1>k. CASE UNCHANGED vars
  BY <1>k DEF vars, TypeOK, JarSound, CookiesSound, RequestsSound,
     AnswersSound, KeptLongEnough, Sound
<1> QED
  BY <1>a, <1>b, <1>c, <1>d, <1>e, <1>f, <1>g, <1>h, <1>i, <1>j, <1>k
     DEF Next, Handle

-----------------------------------------------------------------------------
(* The invariant, and what follows from it *)

\* The variables keep their types: a cookie that is kept or sent back is one
\* this server signed or junk, a session holds a table or nothing.
THEOREM TypeCorrect == Spec => []TypeOK
<1>1. SessionInv => TypeOK
  BY DEF SessionInv
<1> QED
  BY InitSound, StepSound, <1>1, PTL DEF Spec

\* The browser keeps a cookie at least for as long as the server accepts it.
THEOREM CookiesLastLongEnough == Spec => []KeptLongEnough
<1>1. SessionInv => KeptLongEnough
  BY DEF SessionInv
<1> QED
  BY InitSound, StepSound, <1>1, PTL DEF Spec

\* A cookie the server would not accept does not outlive the next save.
THEOREM BadCookiesGo == Spec => BadCookieReplaced
<1>1. SessionInv /\ [Next]_vars =>
        [\A r \in Request :
            (Reply(r) /\ session[r] = "freed" /\ ~error[r]) =>
                \/ jar' = Null
                \/ jar'.cookie # Junk /\ jar'.cookie.key = secret]_vars
  <2> SUFFICES ASSUME SessionInv, NEW r \in Request, Reply(r),
                      session[r] = "freed", ~error[r], jar' # Null
               PROVE  jar'.cookie # Junk /\ jar'.cookie.key = secret
    OBVIOUS
  <2>1. answer[r] # Null
    BY DEF SessionInv, RequestsSound
  <2>2. jar' = Stored(answer[r])
    BY <2>1 DEF Reply
  <2>3. answer[r].maxAge # 0 /\ jar'.cookie = answer[r].value
    BY <2>2 DEF Stored
  <2> QED
    BY <2>1, <2>3, NullAssumption DEF SessionInv, AnswersSound
<1> QED
  BY InitSound, StepSound, <1>1, PTL DEF Spec, BadCookieReplaced

-----------------------------------------------------------------------------
(* The refinement *)

LEMMA InitStore == Init => Store!Init
BY DEF Init, Store!Init, StoreBar, PhaseBar, SeesBar, CopyBar, SavedBar,
   Meaning, Nothing, Empty, Store!Nothing, Store!Empty

LEMMA StepStore ==
    SessionInv /\ SessionInv' /\ [Next]_vars => [Store!Next]_(Store!vars)
<1> SUFFICES ASSUME SessionInv, SessionInv', [Next]_vars
             PROVE  Store!Next \/ UNCHANGED Store!vars
  OBVIOUS
<1> USE DEF Store!vars
<1>a. ASSUME NEW r \in Request, Arrive(r)
      PROVE  Store!Arrive(r)
  <2>1. PhaseBar[r] = "new" /\ PhaseBar' = [PhaseBar EXCEPT ![r] = "arrived"]
    BY <1>a DEF Arrive, PhaseBar, SessionInv, RequestsSound, TypeOK
  <2>2. SeesBar' = [SeesBar EXCEPT ![r] = StoreBar]
    BY <1>a DEF Arrive, SeesBar, StoreBar, Meaning, SessionInv, TypeOK
  <2>3. UNCHANGED <<now, StoreBar, CopyBar, SavedBar>>
    BY <1>a DEF Arrive, StoreBar, CopyBar, SavedBar, Meaning
  <2> QED
    BY <2>1, <2>2, <2>3 DEF Store!Arrive
<1>b. ASSUME NEW r \in Request, Open(r), secret # Null
      PROVE  Store!Open(r)
  <2>1. PhaseBar[r] = "arrived" /\ PhaseBar' = [PhaseBar EXCEPT ![r] = "open"]
    BY <1>b DEF Open, PhaseBar, SessionInv, TypeOK
  <2>2. CopyBar' = [CopyBar EXCEPT ![r] = Store!Visible(SeesBar[r])]
    <3>1. CopyBar'[r] = Store!Visible(SeesBar[r])
      <4>1. CASE cookie[r] # Null /\ Unsign(cookie[r]) = "OK"
        <5>1. /\ cookie[r] \in SignedText /\ cookie[r].key = secret
              /\ now <= cookie[r].stamp + Unsigned(Lifetime)
              /\ Unserialize(cookie[r].text) \in Table
          BY <4>1, OpenTable
        <5>2. CopyBar'[r] = Unserialize(cookie[r].text)
          BY <1>b, <4>1, <5>1, NullAssumption
             DEF Open, CopyBar, SessionInv, TypeOK
        <5>3. cookie[r] \notin {Null, Junk}
          BY <5>1, NullAssumption DEF Cookie
        <5>4. CASE Unserialize(cookie[r].text) = Empty
          BY <5>2, <5>3, <5>4
             DEF SeesBar, Meaning, Nothing, Store!Visible, Store!Empty, Empty
        <5>5. CASE Unserialize(cookie[r].text) # Empty
          BY <5>1, <5>2, <5>3, <5>5
             DEF SeesBar, Meaning, Store!Visible
        <5> QED
          BY <5>4, <5>5
      <4>2. CASE ~(cookie[r] # Null /\ Unsign(cookie[r]) = "OK")
        <5>1. CopyBar'[r] = Empty
          BY <1>b, <4>2 DEF Open, CopyBar, SessionInv, TypeOK
        <5>2. CASE cookie[r] \in {Null, Junk} \/ cookie[r].key # secret
          BY <5>1, <5>2
             DEF SeesBar, Meaning, Nothing, Store!Visible, Store!Empty, Empty
        <5>3. CASE cookie[r] \notin {Null, Junk} /\ cookie[r].key = secret
          <6>1. now > cookie[r].stamp + Unsigned(Lifetime)
            BY <4>2, <5>3 DEF Unsign
          <6>2. cookie[r] \in SignedText
            BY <5>3 DEF SessionInv, TypeOK, Cookie
          <6>3. ~(now <= cookie[r].stamp + Unsigned(Lifetime))
            BY <6>1, <6>2, LifetimeFacts, SessionAssumption
               DEF SessionInv, TypeOK, SignedText
          <6>4. CASE Unserialize(cookie[r].text) = Empty
            BY <5>1, <5>3, <6>4
               DEF SeesBar, Meaning, Nothing, Store!Visible, Store!Empty, Empty
          <6>5. CASE Unserialize(cookie[r].text) # Empty
            BY <5>1, <5>3, <6>3, <6>5
               DEF SeesBar, Meaning, Store!Visible, Store!Empty, Empty
          <6> QED
            BY <6>4, <6>5
        <5> QED
          BY <5>2, <5>3
      <4> QED
        BY <4>1, <4>2
    <3>2. \A q \in Request \ {r} : CopyBar'[q] = CopyBar[q]
      BY <1>b DEF Open, CopyBar, SessionInv, TypeOK
    <3> QED
      BY <3>1, <3>2 DEF CopyBar
  <2>3. UNCHANGED <<now, StoreBar, SeesBar, SavedBar>>
    BY <1>b DEF Open, StoreBar, SeesBar, SavedBar, Meaning
  <2> QED
    BY <2>1, <2>2, <2>3 DEF Store!Open
<1>c. ASSUME NEW r \in Request, NEW k \in Key, NEW v \in Value, Set(r, k, v)
      PROVE  Store!Change(r)
  <2>1. PhaseBar[r] = "open" /\ PhaseBar' = PhaseBar
    BY <1>c DEF Set, PhaseBar
  <2>2. CopyBar' = [CopyBar EXCEPT ![r] = Store!Put(CopyBar[r], k, v)]
    <3>1. CASE storage[r] = Null
      <4>1. storage'[r] = [x \in {k} |-> v] /\ storage'[r] # Null
        <5>1. storage'[r] = [x \in {k} |-> v]
          BY <1>c, <3>1 DEF Set, SessionInv, TypeOK
        <5>2. [x \in {k} |-> v] \in [{k} -> Value] /\ {k} \in SUBSET Key
          OBVIOUS
        <5>3. storage'[r] \in Table
          BY <5>1, <5>2, TableIntro
        <5> QED
          BY <5>1, <5>3, NullAssumption
      <4>2. CopyBar[r] = Empty /\ DOMAIN Empty = {}
        BY <3>1 DEF CopyBar, Empty
      <4>3. Store!Put(CopyBar[r], k, v) = [x \in {k} |-> v]
        BY <4>2 DEF Store!Put
      <4>4. \A q \in Request \ {r} : CopyBar'[q] = CopyBar[q]
        BY <1>c DEF Set, CopyBar, SessionInv, TypeOK
      <4>5. CopyBar'[r] = [x \in {k} |-> v]
        BY <4>1 DEF CopyBar
      <4> QED
        BY <4>3, <4>4, <4>5 DEF CopyBar
    <3>2. CASE storage[r] # Null
      <4>1. storage[r] \in Table
        BY <3>2 DEF SessionInv, TypeOK
      <4>2. storage'[r] = Store!Put(storage[r], k, v) /\ storage'[r] # Null
        <5>1. storage'[r] = [x \in DOMAIN storage[r] \cup {k} |->
                                IF x = k THEN v ELSE storage[r][x]]
          BY <1>c, <3>2 DEF Set, SessionInv, TypeOK
        <5>2. storage'[r] \in Table
          BY <4>1, <5>1, TableChange
        <5> QED
          BY <5>1, <5>2, NullAssumption DEF Store!Put
      <4>3. \A q \in Request \ {r} : CopyBar'[q] = CopyBar[q]
        BY <1>c DEF Set, CopyBar, SessionInv, TypeOK
      <4>4. CopyBar'[r] = Store!Put(CopyBar[r], k, v)
        BY <3>2, <4>2 DEF CopyBar
      <4> QED
        BY <4>3, <4>4 DEF CopyBar
    <3> QED
      BY <3>1, <3>2
  <2>3. UNCHANGED <<now, StoreBar, SeesBar, SavedBar>>
    BY <1>c DEF Set, StoreBar, SeesBar, SavedBar, Meaning
  <2> QED
    BY <2>1, <2>2, <2>3 DEF Store!Change
<1>d. ASSUME NEW r \in Request, NEW k \in Key, Delete(r, k)
      PROVE  Store!Change(r)
  <2>1. PhaseBar[r] = "open" /\ PhaseBar' = PhaseBar
    BY <1>d DEF Delete, PhaseBar
  <2>2. storage[r] # Null /\ storage[r] \in Table
    BY <1>d DEF Delete, SessionInv, TypeOK
  <2>3. storage'[r] = Store!Remove(storage[r], k) /\ storage'[r] # Null
    <3>1. storage'[r] = [x \in DOMAIN storage[r] \ {k} |-> storage[r][x]]
      BY <1>d DEF Delete, SessionInv, TypeOK
    <3>2. storage'[r] \in Table
      BY <2>2, <3>1, TableRemove
    <3> QED
      BY <3>1, <3>2, NullAssumption DEF Store!Remove
  <2>4. CopyBar'[r] = Store!Remove(CopyBar[r], k)
    BY <2>2, <2>3 DEF CopyBar
  <2>5. \A q \in Request \ {r} : CopyBar'[q] = CopyBar[q]
    BY <1>d DEF Delete, CopyBar, SessionInv, TypeOK
  <2>6. CopyBar' = [CopyBar EXCEPT ![r] = Store!Remove(CopyBar[r], k)]
    BY <2>4, <2>5 DEF CopyBar
  <2>7. UNCHANGED <<now, StoreBar, SeesBar, SavedBar>>
    BY <1>d DEF Delete, StoreBar, SeesBar, SavedBar, Meaning
  <2> QED
    BY <2>1, <2>6, <2>7 DEF Store!Change
<1>e. ASSUME NEW r \in Request, Save(r)
      PROVE  Store!Save(r)
  <2>1. PhaseBar[r] = "open" /\ PhaseBar' = [PhaseBar EXCEPT ![r] = "saved"]
    BY <1>e DEF Save, PhaseBar, SessionInv, TypeOK
  <2>2. CopyBar' = [CopyBar EXCEPT ![r] = Store!Empty]
    BY <1>e DEF Save, CopyBar, SessionInv, TypeOK, Store!Empty, Empty
  <2>3. SavedBar'[r] = Store!Remember(CopyBar[r], now + Unsigned(Lifetime))
    <3>1. CASE storage[r] = Null
      <4>1. answer'[r] = DeleteCookie
        BY <1>e, <3>1 DEF Save, SessionInv, TypeOK
      <4>2. SavedBar'[r] = Nothing
        BY <4>1 DEF SavedBar, DeleteCookie, SetCookie, Meaning
      <4> QED
        BY <3>1, <4>2 DEF CopyBar, Store!Remember, Store!Nothing, Store!Empty,
           Nothing, Empty
    <3>2. CASE storage[r] # Null
      <4>1. PICK keys \in Listing(storage[r]) :
                answer' = [answer EXCEPT ![r] =
                    SetCookie(Sign(Serialize(storage[r], keys)),
                              Signed(Lifetime))]
        BY <1>e, <3>2 DEF Save
      <4> DEFINE c == Sign(Serialize(storage[r], keys))
      <4>2. secret # Null
        BY <1>e DEF Save, SessionInv, RequestsSound
      <4>3. /\ c \in SignedText /\ c.key = secret /\ c.stamp = now
            /\ Unserialize(c.text) = storage[r]
        BY <3>2, <4>2, SavedText
      <4>4. answer'[r].value = c /\ answer'[r] # Null
        BY <1>e, <4>1, LifetimeFacts, NullAssumption
           DEF SetCookie, SessionInv, TypeOK, Save, RequestsSound
      <4>5. c \notin {Null, Junk} /\ secret' = secret
        BY <1>e, <4>3, NullAssumption DEF Cookie, Save
      <4> HIDE DEF c
      <4>6. CopyBar[r] = storage[r]
        BY <3>2 DEF CopyBar
      <4>7. CASE storage[r] = Empty
        BY <4>3, <4>4, <4>5, <4>6, <4>7
           DEF SavedBar, Meaning, Store!Remember, Store!Nothing, Store!Empty,
               Nothing, Empty
      <4>8. CASE storage[r] # Empty
        BY <4>3, <4>4, <4>5, <4>6, <4>8
           DEF SavedBar, Meaning, Store!Remember, Store!Empty, Empty
      <4> QED
        BY <4>7, <4>8
    <3> QED
      BY <3>1, <3>2
  <2>4. \A q \in Request \ {r} : SavedBar'[q] = SavedBar[q]
    BY <1>e DEF Save, SavedBar, Meaning, SessionInv, TypeOK
  <2>5. SavedBar' = [SavedBar EXCEPT ![r] =
            Store!Remember(CopyBar[r], now + Unsigned(Lifetime))]
    BY <2>3, <2>4 DEF SavedBar
  <2>6. UNCHANGED <<now, StoreBar, SeesBar>>
    BY <1>e DEF Save, StoreBar, SeesBar, Meaning
  <2> QED
    BY <2>1, <2>2, <2>5, <2>6 DEF Store!Save
<1>f. ASSUME NEW r \in Request, Reply(r)
      PROVE  Store!Answer(r)
  <2>1. /\ PhaseBar[r] \in {"arrived", "open", "saved"}
        /\ PhaseBar' = [PhaseBar EXCEPT ![r] = "over"]
    BY <1>f DEF Reply, PhaseBar, SessionInv, TypeOK
  <2>2. SeesBar' = [SeesBar EXCEPT ![r] = Store!Nothing]
    BY <1>f DEF Reply, SeesBar, Meaning, SessionInv, TypeOK, Nothing, Empty,
       Store!Nothing, Store!Empty
  <2>3. CopyBar' = [CopyBar EXCEPT ![r] = Store!Empty]
    BY <1>f DEF Reply, CopyBar, SessionInv, TypeOK, Empty, Store!Empty
  <2>4. SavedBar' = [SavedBar EXCEPT ![r] = Store!Nothing]
    BY <1>f DEF Reply, SavedBar, Meaning, SessionInv, TypeOK, Nothing, Empty,
       Store!Nothing, Store!Empty
  <2>5. \/ PhaseBar[r] = "saved" /\ StoreBar' = SavedBar[r]
        \/ UNCHANGED StoreBar
    <3>1. CASE error[r] \/ answer[r] = Null
      BY <1>f, <3>1 DEF Reply, StoreBar, Meaning
    <3>2. CASE ~error[r] /\ answer[r] # Null
      <4>1. PhaseBar[r] = "saved"
        BY <1>f, <3>2 DEF Reply, PhaseBar, SessionInv, RequestsSound
      <4>2. SavedBar[r] = Meaning(answer[r].value)
        BY <3>2 DEF SavedBar
      <4>3. CASE answer[r].maxAge = 0
        <5>1. answer[r].value = Null /\ jar' = Null
          BY <1>f, <3>2, <4>3, LifetimeFacts
             DEF Reply, Stored, SessionInv, AnswersSound
        <5> QED
          BY <4>1, <4>2, <5>1 DEF StoreBar, Meaning
      <4>4. CASE answer[r].maxAge # 0
        <5>1. jar' = Stored(answer[r])
          BY <1>f, <3>2 DEF Reply
        <5>2. answer[r].value \in SignedText /\ answer[r].maxAge = Signed(Lifetime)
          BY <3>2, <4>4 DEF SessionInv, AnswersSound
        <5>3. jar' \in Kept /\ jar'.cookie = answer[r].value
          BY <4>4, <5>1, <5>2, LifetimeFacts, SessionAssumption
             DEF Stored, Kept, Cookie, SessionInv, TypeOK
        <5>4. jar' # Null /\ secret' = secret
          BY <1>f, <5>3, NullAssumption DEF Reply
        <5> QED
          BY <4>1, <4>2, <5>3, <5>4 DEF StoreBar, Meaning
      <4> QED
        BY <4>3, <4>4
    <3> QED
      BY <3>1, <3>2
  <2> QED
    BY <1>f, <2>1, <2>2, <2>3, <2>4, <2>5 DEF Reply, Store!Answer
<1>g. ASSUME Evict
      PROVE  Store!Forget \/ UNCHANGED Store!vars
  <2>1. StoreBar' = Nothing /\ Nothing = Store!Nothing
    BY <1>g DEF Evict, StoreBar, Nothing, Empty, Store!Nothing, Store!Empty
  <2>2. UNCHANGED <<now, PhaseBar, SeesBar, CopyBar, SavedBar>>
    BY <1>g DEF Evict, PhaseBar, SeesBar, CopyBar, SavedBar, Meaning
  <2>3. CASE StoreBar = Nothing
    BY <2>1, <2>2, <2>3
  <2>4. CASE StoreBar # Nothing
    <3>1. /\ jar # Null /\ jar.cookie \in SignedText
          /\ StoreBar.until = jar.cookie.stamp + Unsigned(Lifetime)
      BY <2>4 DEF StoreBar, Meaning, SessionInv, TypeOK, Kept, Cookie
    <3>2. CASE Signed(Lifetime) > 0
      <4>1. /\ jar.expires # Null
            /\ jar.expires >= jar.cookie.stamp + Unsigned(Lifetime)
        BY <3>1, <3>2, NullAssumption DEF SessionInv, KeptLongEnough
      <4>2. now > jar.expires /\ jar.expires \in Nat
        BY <1>g, <3>1, <4>1 DEF Evict, SessionInv, TypeOK, Kept
      <4>3. now > StoreBar.until
        BY <3>1, <4>1, <4>2, LifetimeFacts, SessionAssumption
           DEF SessionInv, TypeOK, SignedText
      <4> QED
        BY <2>1, <2>2, <4>3 DEF Store!Forget
    <3>3. CASE ~(Signed(Lifetime) > 0)
      BY <2>1, <2>2, <3>3 DEF Store!Forget
    <3> QED
      BY <3>2, <3>3
  <2> QED
    BY <2>3, <2>4
<1>h. ASSUME Restart
      PROVE  Store!Restart
  <2>1. StoreBar' \in {StoreBar, Nothing}
    <3>1. CASE secret' = secret
      BY <1>h, <3>1 DEF Restart, StoreBar, Meaning
    <3>2. CASE jar = Null \/ jar.cookie = Junk
      BY <1>h, <3>2 DEF Restart, StoreBar, Meaning
    <3>3. CASE secret' # secret /\ jar # Null /\ jar.cookie # Junk
      <4>1. jar.cookie.key <= secret /\ jar.cookie \in SignedText
        BY <3>3 DEF SessionInv, JarSound, Sound, TypeOK, Kept, Cookie
      <4>2. secret # Null /\ secret \in Nat /\ secret' = secret + 1
        BY <1>h, <3>3 DEF Restart, SessionInv, TypeOK
      <4>3. jar.cookie.key # secret'
        BY <4>1, <4>2, SessionAssumption DEF SignedText
      <4> QED
        BY <1>h, <4>3 DEF Restart, StoreBar, Meaning
    <3> QED
      BY <3>1, <3>2, <3>3
  <2>2. PhaseBar' = [r \in Request |->
            IF PhaseBar[r] = "new" THEN "new" ELSE "over"]
    BY <1>h DEF Restart, PhaseBar, SessionInv, TypeOK
  <2>3. /\ SeesBar' = [r \in Request |-> Nothing]
        /\ CopyBar' = [r \in Request |-> Empty]
        /\ SavedBar' = [r \in Request |-> Nothing]
    BY <1>h DEF Restart, SeesBar, CopyBar, SavedBar, Meaning
  <2> QED
    BY <1>h, <2>1, <2>2, <2>3 DEF Restart, Store!Restart, Nothing, Empty,
       Store!Nothing, Store!Empty
<1>i. ASSUME Tick
      PROVE  Store!Tick
  BY <1>i DEF Tick, Store!Tick, StoreBar, PhaseBar, SeesBar, CopyBar, SavedBar,
     Meaning
<1>j. ASSUME NEW r \in Request, Raise(r) \/ (Open(r) /\ secret = Null)
      PROVE  UNCHANGED Store!vars
  BY <1>j DEF Raise, Open, StoreBar, PhaseBar, SeesBar, CopyBar, SavedBar,
     Meaning
<1>k. ASSUME UNCHANGED vars
      PROVE  UNCHANGED Store!vars
  BY <1>k DEF vars, StoreBar, PhaseBar, SeesBar, CopyBar, SavedBar, Meaning
<1>l. ASSUME NEW r \in Request, Handle(r)
      PROVE  Store!Next \/ UNCHANGED Store!vars
  BY <1>a, <1>b, <1>c, <1>d, <1>e, <1>f, <1>j, <1>l DEF Handle, Store!Next
<1> QED
  BY <1>g, <1>h, <1>i, <1>k, <1>l DEF Next, Store!Next

\* The cookie implements a session kept on the server.
THEOREM SessionIsAStore == Spec => KeptAsStored
<1>1. SessionInv /\ SessionInv' /\ [Next]_vars => [Store!Next]_(Store!vars)
  BY StepStore
<1> QED
  BY InitSound, StepSound, InitStore, <1>1, PTL
     DEF Spec, KeptAsStored, Store!Spec
=============================================================================
