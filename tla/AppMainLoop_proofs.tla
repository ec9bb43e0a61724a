------------------------ MODULE AppMainLoop_proofs ------------------------
(***************************************************************************)
(* Proofs about AppMainLoop, for any number of threads, requests and hooks.*)
(* QuietInv is inductive as long as no hook and no SAPI has raised an      *)
(* error: until then app->error is only read, and the errors of routing    *)
(* and views stay on the copies.                                           *)
(***************************************************************************)
EXTENDS AppMainLoop, TLAPS

LocalTypes ==
    /\ pc \in [Thread -> PC]
    /\ cur \in [Thread -> Request \cup {Null}]
    /\ copyError \in [Thread -> Error \cup {Null}]
    /\ response \in [Thread -> Error \cup {Null, Response}]
    /\ held \in [Request -> SUBSET Resource]
    /\ answer \in [Request -> Error \cup {Null, Response}]
    /\ verdict \in [Request -> Error \cup {Null}]
    /\ hook \in [Thread -> Nat]

IInv == LocalTypes /\ QuietInv /\ EachItsOwn /\ StartupErrorGuards

\* What holds whatever the hooks raise; the invariant of the main loop is both.
StartInv ==
    /\ pc \in [Thread -> PC]
    /\ answer \in [Request -> Error \cup {Null, Response}]
    /\ cur \in [Thread -> Request \cup {Null}]
    /\ copyError \in [Thread -> Error \cup {Null}]
    /\ response \in [Thread -> Error \cup {Null, Response}]
    /\ rendered \in [Thread -> Error \cup {Null}]
    /\ appError \in Error \cup {Null}
    /\ hook \in [Thread -> Nat]
    /\ \A t \in Thread :
        /\ pc[t] # "idle" => cur[t] \in Request
        /\ pc[t] \in {"raise", "propagate"} => hook[t] \in 0..NHooks
        /\ pc[t] \in {"hook", "check"} => hook[t] \in 1..NHooks
        /\ appError = Startup /\ pc[t] = "raise" => hook[t] = 0
    /\ StartupErrorGuards

Verdicts == verdict \in [Request -> Error \cup {Null}]

Inv == StartInv /\ Verdicts /\ (Calm => IInv)

LEMMA ErrorIsNot == \A e \in Error : e # Null /\ e # Response
    BY ConstantsAssumption

LEMMA ErrorMade ==
    \A q \in Request \cup {App}, n \in Site : [by |-> q, at |-> n] \in Error
    BY DEF Error

LEMMA SitesOfViews ==
    /\ Routing \in Site /\ InView(1) \in Site
    /\ 0 \in Site /\ Startup \in Error
    BY ConstantsAssumption DEF Routing, InView, Site, Startup, Error

LEMMA QuietInit == Init => IInv
<1> SUFFICES ASSUME Init PROVE IInv
    OBVIOUS
<1>1. LocalTypes
    BY ConstantsAssumption DEF Init, LocalTypes, PC, Resource
<1>2. QuietInv
    BY DEF Init, QuietInv, BeforeHooks
<1>3. EachItsOwn /\ StartupErrorGuards
    BY DEF Init, EachItsOwn, StartupErrorGuards
<1> QED
    BY <1>1, <1>2, <1>3 DEF IInv

\* A request is handled by one thread at a time.
LEMMA OneThread ==
    ASSUME QuietInv, NEW t \in Thread, pc[t] # "idle"
    PROVE  /\ cur[t] \in Request
           /\ \A s \in Thread \ {t} : cur[s] # cur[t]
    BY ConstantsAssumption DEF QuietInv, Handles

\* What a step of t has to establish: the other threads and requests are as
\* they were, and what it says of its own request is what QuietInv says.
LEMMA LocalStep ==
    ASSUME IInv, LocalTypes', NEW t \in Thread, pc[t] # "idle",
           UNCHANGED <<appError, freed, fault, cur>>,
           \A s \in Thread \ {t} : /\ pc'[s] = pc[s]
                                   /\ copyError'[s] = copyError[s]
                                   /\ response'[s] = response[s],
           \A q \in Request \ {cur[t]} : /\ held'[q] = held[q]
                                         /\ answer'[q] = answer[q]
                                         /\ verdict'[q] = verdict[q],
           pc'[t] \in {"idle", "hook", "check", "dispatch", "view", "finish"}
                        \cup BeforeHooks,
           pc'[t] # "idle" => Handles(t)',
           pc'[t] = "idle" => answer'[cur[t]] # Null,
           pc'[t] = "render_startup" => appError = Startup,
           appError = Startup =>
               /\ pc'[t] \in {"idle", "startup", "render_startup"}
               /\ viewed' = {},
           answer'[cur[t]] # Null => /\ held'[cur[t]] = {}
                                     /\ answer'[cur[t]] = Expected(cur[t])'
    PROVE  IInv'
<1>1. cur[t] \in Request /\ \A s \in Thread \ {t} : cur[s] # cur[t]
    BY OneThread DEF IInv
<1>2. \A s \in Thread \ {t} : pc[s] # "idle" => Handles(s)'
    <2> SUFFICES ASSUME NEW s \in Thread \ {t}, pc[s] # "idle"
                 PROVE  Handles(s)'
        OBVIOUS
    <2>1. Handles(s)
        BY DEF IInv, QuietInv
    <2>2. cur[s] \in Request \ {cur[t]}
        BY <1>1, <2>1 DEF Handles
    <2> QED
        BY <2>1, <2>2 DEF Handles, BeforeHooks
<1>3. QuietInv'
    <2>1. \A s \in Thread :
            /\ pc'[s] \in {"idle", "hook", "check", "dispatch", "view",
                            "finish"} \cup BeforeHooks
            /\ pc'[s] # "idle" => Handles(s)'
            /\ pc'[s] = "idle" /\ cur'[s] # Null => answer'[cur'[s]] # Null
            /\ pc'[s] = "render_startup" => appError = Startup
            /\ appError = Startup =>
                   pc'[s] \in {"idle", "startup", "render_startup"}
        BY <1>1, <1>2 DEF IInv, QuietInv, LocalTypes
    <2>2. \A q \in Waiting' : answer'[q] = Null => verdict'[q] = Null
        BY <1>1 DEF IInv, QuietInv, Waiting
    <2>3. \A q \in Request : answer'[q] # Null => held'[q] = {}
        BY <1>1 DEF IInv, QuietInv
    <2>4. \A r, s \in Thread : r # s /\ cur[r] = cur[s] => cur[s] = Null
        BY DEF IInv, QuietInv
    <2>5. appError \in {Null, Startup} /\ fault = {} /\ freed = {}
        BY DEF IInv, QuietInv
    <2> QED
        BY <2>1, <2>2, <2>3, <2>4, <2>5 DEF QuietInv, BeforeHooks
<1>4. EachItsOwn'
    <2>1. \A q \in Request \ {cur[t]} : Expected(q)' = Expected(q)
        BY DEF Expected
    <2> QED
        BY <1>1, <2>1 DEF IInv, EachItsOwn
<1>5. StartupErrorGuards'
    <2> SUFFICES ASSUME appError = Startup PROVE StartupErrorGuards'
        BY DEF StartupErrorGuards
    <2>1. \A s \in Thread :
              pc'[s] \in {"idle", "raise", "startup", "render_startup"}
        BY DEF IInv, StartupErrorGuards
    <2>2. \A q \in Request : answer'[q] \in {Null, Startup}
        BY <1>4 DEF EachItsOwn, Expected
    <2> QED
        BY <2>1, <2>2 DEF StartupErrorGuards
<1> QED
    BY <1>3, <1>4, <1>5 DEF IInv

\* A thread takes a request no other thread has.
LEMMA QuietReceive ==
    ASSUME Calm', StartInv, IInv,
           NEW t \in Thread, NEW q \in Request, NEW input \in Input,
           Receive(t, q, input)
    PROVE  IInv'
<1>1. /\ pc[t] = "idle" /\ q \in Waiting /\ answer[q] = Null
      /\ cur' = [cur EXCEPT ![t] = q]
      /\ held' = [held EXCEPT ![q] = {"env"}]
      /\ hook' = [hook EXCEPT ![t] = 0]
      /\ pc' = [pc EXCEPT ![t] = "startup"]
      /\ UNCHANGED <<appError, freed, copyError, response, rendered, answer,
                     viewed, verdict, fault>>
    <2>1. verdict[q] = Null /\ verdict \in [Request -> Error \cup {Null}]
        BY DEF Receive, IInv, QuietInv, LocalTypes
    <2>2. input = "env"
        <3> SUFFICES ASSUME input = "nothing" PROVE FALSE
            BY DEF Input
        <3>1. verdict' = [verdict EXCEPT ![q] = [by |-> q, at |-> 0]]
            BY <2>1 DEF Receive, Raises
        <3>2. verdict'[q] = [by |-> q, at |-> 0] /\ verdict'[q] # Null
            BY <2>1, <3>1, ErrorMade, ErrorIsNot, SitesOfViews
        <3> QED
            BY <3>2, ConstantsAssumption DEF Calm
    <2> QED
        BY <2>2 DEF Receive, Go
<1>2. LocalTypes'
    BY <1>1 DEF IInv, LocalTypes, PC, Resource
<1>3. verdict[q] = Null /\ \A s \in Thread : cur[s] # q
    BY <1>1 DEF IInv, QuietInv, Waiting
<1>4. \A s \in Thread \ {t} : pc[s] # "idle" => Handles(s)'
    <2> SUFFICES ASSUME NEW s \in Thread \ {t}, pc[s] # "idle"
                 PROVE  Handles(s)'
        OBVIOUS
    <2>1. Handles(s) /\ cur[s] # q
        BY <1>3 DEF IInv, QuietInv
    <2> QED
        BY <1>1, <2>1 DEF Handles, BeforeHooks, IInv, LocalTypes
<1>5. Handles(t)'
    BY <1>1, <1>3 DEF Handles, BeforeHooks, IInv, LocalTypes
<1>6. QuietInv'
    <2>1. \A s \in Thread :
            /\ pc'[s] \in {"idle", "hook", "check", "dispatch", "view",
                            "finish"} \cup BeforeHooks
            /\ pc'[s] # "idle" => Handles(s)'
            /\ pc'[s] = "idle" /\ cur'[s] # Null => answer'[cur'[s]] # Null
            /\ pc'[s] = "render_startup" => appError = Startup
            /\ appError = Startup =>
                   pc'[s] \in {"idle", "startup", "render_startup"}
        BY <1>1, <1>4, <1>5 DEF IInv, QuietInv, LocalTypes, BeforeHooks
    <2>2. \A r \in Waiting' : answer'[r] = Null => verdict'[r] = Null
        <3> SUFFICES ASSUME NEW r \in Waiting', answer[r] = Null
                     PROVE  verdict[r] = Null
            BY <1>1
        <3>1. CASE r \in Waiting
            BY <3>1 DEF IInv, QuietInv
        <3>2. CASE r \notin Waiting
            <4>1. PICK s \in Thread : cur[s] = r
                BY <3>2 DEF Waiting
            <4>2. s = t
                BY <1>1, <4>1 DEF Waiting, IInv, LocalTypes
            <4> QED
                BY <1>1, <4>1, <4>2, ConstantsAssumption
                   DEF IInv, QuietInv, Waiting
        <3> QED
            BY <3>1, <3>2
    <2>3. \A r \in Request : answer'[r] # Null => held'[r] = {}
        BY <1>1 DEF IInv, QuietInv, LocalTypes
    <2>4. \A r, s \in Thread : r # s /\ cur'[r] = cur'[s] => cur'[s] = Null
        BY <1>1, <1>3 DEF IInv, QuietInv, LocalTypes
    <2> QED
        BY <1>1, <2>1, <2>2, <2>3, <2>4 DEF IInv, QuietInv, BeforeHooks
<1>7. EachItsOwn' /\ StartupErrorGuards'
    BY <1>1 DEF IInv, EachItsOwn, StartupErrorGuards, Expected, LocalTypes
<1> QED
    BY <1>2, <1>6, <1>7 DEF IInv

\* The steps of the main loop, one by one.
LEMMA QuietStep ==
    ASSUME Calm', StartInv, IInv, NEW t \in Thread, Step(t)
    PROVE  IInv'
<1> DEFINE q == cur[t]
<1>1. /\ pc[t] # "idle" => Handles(t)
      /\ pc[t] \in {"idle", "hook", "check", "dispatch", "view", "finish",
                    "startup", "render_startup", "make"}
      /\ appError = Startup => pc[t] \in {"idle", "startup", "render_startup"}
      /\ appError # Startup => appError = Null
      /\ pc[t] = "render_startup" => appError = Startup
    BY DEF IInv, QuietInv, BeforeHooks
<1>2. appError = Startup => viewed = {}
    BY DEF IInv, StartupErrorGuards
<1>3. Startup \in Error /\ Startup # Null
    BY SitesOfViews, ErrorIsNot
<1>4. CASE CheckStartup(t)
    <2>1. /\ pc[t] = "startup"
          /\ pc' = [pc EXCEPT ![t] =
                       IF appError # Null THEN "render_startup" ELSE "make"]
          /\ UNCHANGED <<appError, freed, cur, hook, copyError, response,
                         rendered, held, answer, verdict, viewed, fault>>
        BY <1>4 DEF CheckStartup, Go
    <2>2. LocalTypes'
        BY <2>1 DEF IInv, LocalTypes, PC
    <2>3. pc'[t] = IF appError # Null THEN "render_startup" ELSE "make"
        BY <2>1 DEF IInv, LocalTypes
    <2>4. Handles(t)'
        BY <1>1, <2>1, <2>3 DEF Handles, BeforeHooks
    <2>5. \A s \in Thread \ {t} : pc'[s] = pc[s]
        BY <2>1 DEF IInv, LocalTypes
    <2> QED
        BY <1>1, <1>2, <1>3, <2>1, <2>2, <2>3, <2>4, <2>5, LocalStep
           DEF Handles, BeforeHooks
<1>5. CASE RenderStartup(t)
    <2>1. Handles(t) /\ pc[t] = "render_startup" /\ appError = Startup
        BY <1>1, <1>5 DEF RenderStartup
    <2>2. held[q] = {"env"} /\ appError \notin freed /\ fault = {}
        BY <2>1 DEF Handles, BeforeHooks, IInv, QuietInv
    <2>3. Misuse = {}
        BY <1>3, <2>1, <2>2 DEF Misuse
    <2>4. /\ fault' = fault
          /\ held' = [held EXCEPT ![q] = @ \ {"env"}]
          /\ answer' = [answer EXCEPT ![q] = appError]
          /\ pc' = [pc EXCEPT ![t] = "idle"]
          /\ UNCHANGED <<appError, freed, cur, hook, copyError, response,
                         rendered, verdict, viewed>>
        BY <1>5, <2>2, <2>3 DEF RenderStartup, Go
    <2>5. q \in Request
        BY <2>1 DEF Handles
    <2>6. LocalTypes'
        BY <1>3, <2>1, <2>4, <2>5 DEF IInv, LocalTypes, PC
    <2>7. answer'[q] = Startup /\ held'[q] = {} /\ pc'[t] = "idle"
        BY <2>1, <2>2, <2>4, <2>5 DEF IInv, LocalTypes
    <2>8. \A s \in Thread \ {t} : pc'[s] = pc[s]
        BY <2>4 DEF IInv, LocalTypes
    <2>9. \A r \in Request \ {q} : held'[r] = held[r] /\ answer'[r] = answer[r]
        BY <2>4 DEF IInv, LocalTypes
    <2>10. Expected(q)' = Startup
        BY <2>1, <2>4 DEF Expected
    <2> QED
        BY <1>2, <1>3, <2>1, <2>4, <2>6, <2>7, <2>8, <2>9, <2>10, LocalStep
<1>6. CASE MakeRequest(t)
    <2>1. Handles(t) /\ pc[t] = "make" /\ appError = Null
        BY <1>1, <1>6 DEF MakeRequest
    <2>2. held[q] = {"env"} /\ q \in Request /\ answer[q] = Null
        BY <2>1 DEF Handles, BeforeHooks
    <2>3. /\ held' = [held EXCEPT ![q] = (@ \ {"env"}) \cup {"request"}]
          /\ hook' = [hook EXCEPT ![t] = 1]
          /\ pc' = [pc EXCEPT ![t] = IF NHooks = 0 THEN "dispatch" ELSE "hook"]
          /\ UNCHANGED <<appError, freed, cur, copyError, response, rendered,
                         answer, verdict, viewed, fault>>
        BY <1>6, <2>2 DEF MakeRequest, Go
    <2>4. LocalTypes'
        BY <2>3 DEF IInv, LocalTypes, PC, Resource
    <2>5. pc'[t] \in {"hook", "dispatch"} /\ held'[q] = {"request"}
        BY <2>2, <2>3 DEF IInv, LocalTypes
    <2>6. Handles(t)'
        BY <2>1, <2>3, <2>5 DEF Handles, BeforeHooks
    <2>7. \A s \in Thread \ {t} : pc'[s] = pc[s]
        BY <2>3 DEF IInv, LocalTypes
    <2>8. \A r \in Request \ {q} : held'[r] = held[r]
        BY <2>3 DEF IInv, LocalTypes
    <2> QED
        BY <1>3, <2>1, <2>2, <2>3, <2>4, <2>5, <2>6, <2>7, <2>8, LocalStep
<1>7. CASE RunHook(t)
    <2>1. /\ pc[t] = "hook"
          /\ pc' = [pc EXCEPT ![t] = "check"]
          /\ UNCHANGED <<appError, freed, cur, hook, copyError, response,
                         rendered, held, answer, verdict, viewed, fault>>
        <3>1. pc[t] = "hook" /\ Handles(t) /\ hook[t] \in 1..NHooks
            BY <1>1, <1>7 DEF RunHook, StartInv
        <3>2. q \in Request /\ verdict[q] = Null
            BY <3>1 DEF Handles
        <3>3. [by |-> q, at |-> hook[t]] \in Error
            BY <3>1, <3>2, ErrorMade, ConstantsAssumption DEF Site
        <3>4. ~Raises(q, [by |-> q, at |-> hook[t]])
            <4> SUFFICES ASSUME Raises(q, [by |-> q, at |-> hook[t]])
                         PROVE  FALSE
                OBVIOUS
            <4>1. verdict'[q] = [by |-> q, at |-> hook[t]]
                BY <3>2 DEF Raises, IInv, LocalTypes
            <4>2. verdict'[q] # Null /\ verdict'[q].at = hook[t]
                BY <3>3, <4>1, ErrorIsNot
            <4> QED
                BY <3>1, <3>2, <4>2, ConstantsAssumption DEF Calm
        <3> QED
            BY <1>7, <3>4 DEF RunHook, Go
    <2>2. Handles(t) /\ appError = Null
        BY <1>1, <2>1
    <2>3. LocalTypes'
        BY <2>1 DEF IInv, LocalTypes, PC
    <2>4. pc'[t] = "check" /\ \A s \in Thread \ {t} : pc'[s] = pc[s]
        BY <2>1 DEF IInv, LocalTypes
    <2>5. Handles(t)'
        BY <2>1, <2>2, <2>4 DEF Handles, BeforeHooks
    <2>6. answer[q] = Null
        BY <2>2 DEF Handles
    <2> QED
        BY <1>3, <2>1, <2>2, <2>3, <2>4, <2>5, <2>6, LocalStep
<1>8. CASE CheckHook(t)
    <2>1. pc[t] = "check" /\ Handles(t) /\ appError = Null
        BY <1>1, <1>8 DEF CheckHook
    <2>2. /\ pc' = [pc EXCEPT ![t] =
                       IF hook[t] < NHooks THEN "hook" ELSE "dispatch"]
          /\ hook' = [hook EXCEPT ![t] = @ + 1]
          /\ UNCHANGED <<appError, freed, cur, copyError, response, rendered,
                         held, answer, verdict, viewed, fault>>
        BY <1>8, <2>1 DEF CheckHook, Go
    <2>3. LocalTypes'
        BY <2>2 DEF IInv, LocalTypes, PC
    <2>4. /\ pc'[t] \in {"hook", "dispatch"}
          /\ \A s \in Thread \ {t} : pc'[s] = pc[s]
        BY <2>2 DEF IInv, LocalTypes
    <2>5. Handles(t)'
        BY <2>1, <2>2, <2>4 DEF Handles, BeforeHooks
    <2>6. answer[q] = Null
        BY <2>1 DEF Handles
    <2> QED
        BY <1>3, <2>1, <2>2, <2>3, <2>4, <2>5, <2>6, LocalStep
<1>9. CASE Dispatch(t)
    <2> DEFINE e == [by |-> q, at |-> Routing]
    <2>1. pc[t] = "dispatch" /\ Handles(t) /\ appError = Null
        BY <1>1, <1>9 DEF Dispatch
    <2>2. /\ q \in Request /\ answer[q] = Null /\ verdict[q] = Null
          /\ held[q] = {"request"}
        BY <2>1 DEF Handles
    <2>3. e \in Error /\ e # Null
        BY <2>2, SitesOfViews, ErrorMade, ErrorIsNot
    <2> HIDE DEF e
    <2>4. UNCHANGED <<appError, freed, cur, hook, rendered, answer, viewed,
                      fault>>
        BY <1>9 DEF Dispatch
    <2>5. /\ LocalTypes'
          /\ pc'[t] \in {"finish", "view"}
          /\ pc'[t] = "view" => held'[q] = {"request", "copy"}
                                /\ verdict'[q] = Null
          /\ pc'[t] = "finish" =>
                 /\ "env" \notin held'[q]
                 /\ (IF copyError'[t] # Null THEN copyError'[t]
                                             ELSE response'[t])
                        = (IF verdict'[q] # Null THEN verdict'[q] ELSE Response)
          /\ \A s \in Thread \ {t} : /\ pc'[s] = pc[s]
                                     /\ copyError'[s] = copyError[s]
                                     /\ response'[s] = response[s]
          /\ \A r \in Request \ {q} : /\ held'[r] = held[r]
                                      /\ verdict'[r] = verdict[r]
        <3>1. CASE /\ copyError' = [copyError EXCEPT ![t] = e]
                   /\ held' = [held EXCEPT ![q] = @ \cup {"copy", "error"}]
                   /\ verdict' = [verdict EXCEPT ![q] = e]
                   /\ pc' = [pc EXCEPT ![t] = "finish"]
                   /\ UNCHANGED response
            BY <2>2, <2>3, <2>4, <3>1 DEF IInv, LocalTypes, PC, Resource
        <3>2. CASE /\ copyError' = [copyError EXCEPT ![t] = Null]
                   /\ response' = [response EXCEPT ![t] = Response]
                   /\ held' = [held EXCEPT ![q] = @ \cup {"copy", "response"}]
                   /\ pc' = [pc EXCEPT ![t] = "finish"]
                   /\ UNCHANGED verdict
            BY <2>2, <2>4, <3>2 DEF IInv, LocalTypes, PC, Resource
        <3>3. CASE /\ copyError' = [copyError EXCEPT ![t] = Null]
                   /\ held' = [held EXCEPT ![q] = @ \cup {"copy"}]
                   /\ pc' = [pc EXCEPT ![t] = "view"]
                   /\ UNCHANGED <<response, verdict>>
            BY <2>2, <2>4, <3>3 DEF IInv, LocalTypes, PC, Resource
        <3> QED
            BY <1>9, <2>2, <3>1, <3>2, <3>3 DEF Dispatch, Raises, Go, e
    <2>6. Handles(t)'
        BY <2>2, <2>4, <2>5 DEF Handles, BeforeHooks
    <2> QED
        BY <1>3, <2>1, <2>2, <2>4, <2>5, <2>6, LocalStep
<1>10. CASE View(t)
    <2> DEFINE first == [by |-> q, at |-> InView(1)]
    <2>1. pc[t] = "view" /\ Handles(t) /\ appError = Null
        BY <1>1, <1>10 DEF View
    <2>2. /\ q \in Request /\ answer[q] = Null /\ verdict[q] = Null
          /\ held[q] = {"request", "copy"}
        BY <2>1 DEF Handles
    <2>3. first \in Error /\ first # Null
        BY <2>2, SitesOfViews, ErrorMade, ErrorIsNot
    <2>4. PICK n \in 0..2, returns \in {"own", "abort", "null"} :
            /\ returns = "null" => n > 0
            /\ copyError' = [copyError EXCEPT ![t] =
                    IF n > 0 /\ returns # "abort" THEN first ELSE Null]
            /\ response' = [response EXCEPT ![t] =
                    CASE returns = "own" -> Response
                      [] returns = "abort" -> first
                      [] returns = "null" -> Null]
            /\ held' = [held EXCEPT ![q] = @
                    \cup (IF n > 0 /\ returns # "abort" THEN {"error"} ELSE {})
                    \cup (IF returns = "null" THEN {} ELSE {"response"})]
            /\ verdict' = IF n > 0 \/ returns = "abort"
                          THEN [verdict EXCEPT ![q] = first] ELSE verdict
        BY <1>10, <2>2 DEF View, Raises
    <2>5. /\ pc' = [pc EXCEPT ![t] = "finish"]
          /\ UNCHANGED <<appError, freed, cur, hook, rendered, answer, fault>>
        BY <1>10 DEF View, Go
    <2> HIDE DEF first
    <2>6. LocalTypes'
        <3>1. copyError' \in [Thread -> Error \cup {Null}]
            BY <2>3, <2>4 DEF IInv, LocalTypes
        <3>2. response' \in [Thread -> Error \cup {Null, Response}]
            BY <2>3, <2>4 DEF IInv, LocalTypes
        <3>3. held' \in [Request -> SUBSET Resource]
            BY <2>4 DEF IInv, LocalTypes, Resource
        <3>4. verdict' \in [Request -> Error \cup {Null}]
            BY <2>3, <2>4 DEF IInv, LocalTypes
        <3>5. pc' \in [Thread -> PC]
            BY <2>5 DEF IInv, LocalTypes, PC
        <3> QED
            BY <2>5, <3>1, <3>2, <3>3, <3>4, <3>5 DEF IInv, LocalTypes
    <2>7. "env" \notin held'[q]
        BY <2>2, <2>4 DEF IInv, LocalTypes
    <2>8. (IF copyError'[t] # Null THEN copyError'[t] ELSE response'[t])
             = (IF verdict'[q] # Null THEN verdict'[q] ELSE Response)
        BY <2>2, <2>3, <2>4 DEF IInv, LocalTypes
    <2>9. pc'[t] = "finish"
        BY <2>5 DEF IInv, LocalTypes
    <2>10. Handles(t)'
        BY <2>2, <2>5, <2>7, <2>8, <2>9 DEF Handles, BeforeHooks
    <2>11. \A s \in Thread \ {t} : /\ pc'[s] = pc[s]
                                   /\ copyError'[s] = copyError[s]
                                   /\ response'[s] = response[s]
        BY <2>4, <2>5 DEF IInv, LocalTypes
    <2>12. \A r \in Request \ {q} : /\ held'[r] = held[r]
                                    /\ verdict'[r] = verdict[r]
        BY <2>4 DEF IInv, LocalTypes
    <2> QED
        BY <1>3, <2>1, <2>2, <2>5, <2>6, <2>9, <2>10, <2>11, <2>12, LocalStep
<1>11. CASE Finish(t)
    <2>1. pc[t] = "finish" /\ Handles(t) /\ appError = Null
        BY <1>1, <1>11 DEF Finish
    <2>2. q \in Request /\ "env" \notin held[q]
        BY <2>1 DEF Handles
    <2> DEFINE outcome == IF copyError[t] # Null THEN copyError[t]
                                                 ELSE response[t]
    <2>3. outcome = IF verdict[q] # Null THEN verdict[q] ELSE Response
        BY <2>1 DEF Handles
    <2>4. /\ answer' = [answer EXCEPT ![q] = outcome]
          /\ held' = [held EXCEPT ![q] =
                         @ \ {"request", "response", "copy", "error"}]
          /\ copyError' = [copyError EXCEPT ![t] = Null]
          /\ response' = [response EXCEPT ![t] = Null]
          /\ pc' = [pc EXCEPT ![t] = "idle"]
          /\ UNCHANGED <<appError, freed, cur, hook, rendered, verdict, viewed,
                         fault>>
        BY <1>11 DEF Finish, Go
    <2> HIDE DEF outcome
    <2>5. outcome \in Error \cup {Response}
        BY <2>2, <2>3 DEF IInv, LocalTypes
    <2>6. LocalTypes'
        BY <2>2, <2>4, <2>5 DEF IInv, LocalTypes, PC, Resource
    <2>7. held'[q] = {}
        BY <2>2, <2>4 DEF IInv, LocalTypes, Resource
    <2>8. answer'[q] = outcome /\ pc'[t] = "idle"
        BY <2>2, <2>4 DEF IInv, LocalTypes
    <2>9. Expected(q)' = outcome
        BY <1>3, <2>1, <2>3, <2>4 DEF Expected
    <2>10. outcome # Null
        BY <2>5, ErrorIsNot, ConstantsAssumption
    <2>11. \A s \in Thread \ {t} : /\ pc'[s] = pc[s]
                                   /\ copyError'[s] = copyError[s]
                                   /\ response'[s] = response[s]
        BY <2>4 DEF IInv, LocalTypes
    <2>12. \A r \in Request \ {q} : held'[r] = held[r] /\ answer'[r] = answer[r]
        BY <2>4 DEF IInv, LocalTypes
    <2> QED
        BY <1>3, <2>1, <2>4, <2>6, <2>7, <2>8, <2>9, <2>10, <2>11, <2>12,
           LocalStep
<1> QED
    BY <1>1, <1>4, <1>5, <1>6, <1>7, <1>8, <1>9, <1>10, <1>11
       DEF Step, TestError, PropagateError, RenderHook, FreeError, ForgetError,
           ReturnHookError

-----------------------------------------------------------------------------
(* A startup error is for ever, whatever the hooks and the inputs are.     *)

LEMMA StartReceive ==
    ASSUME StartInv, NEW t \in Thread, NEW q \in Request, NEW input \in Input,
           Receive(t, q, input)
    PROVE  StartInv'
<1>1. /\ pc' \in [Thread -> PC] /\ cur' \in [Thread -> Request \cup {Null}]
      /\ hook' \in [Thread -> Nat]
      /\ pc'[t] \in {"startup", "raise"} /\ cur'[t] = q /\ hook'[t] = 0
      /\ \A s \in Thread \ {t} :
             pc'[s] = pc[s] /\ cur'[s] = cur[s] /\ hook'[s] = hook[s]
      /\ UNCHANGED <<appError, copyError, response, rendered, answer, viewed>>
    BY DEF Receive, Go, StartInv, PC
<1> QED
    BY <1>1, ConstantsAssumption DEF StartInv, StartupErrorGuards

LEMMA StartStep ==
    ASSUME StartInv, NEW t \in Thread, Step(t)
    PROVE  StartInv'
<1> USE DEF StartInv, StartupErrorGuards, Go, PC
<1>1. CASE TestError(t)
    <2>1. /\ pc' \in [Thread -> PC]
          /\ pc'[t] \in {"startup", "check", "propagate"}
          /\ pc'[t] = "check" => hook[t] # 0
          /\ pc[t] = "raise" /\ \A s \in Thread \ {t} : pc'[s] = pc[s]
          /\ appError = Startup => pc'[t] = "startup"
          /\ UNCHANGED <<appError, cur, hook, copyError, response, rendered,
                         answer, viewed>>
        BY <1>1, ErrorIsNot, SitesOfViews DEF TestError, AfterRaise
    <2> QED
        BY <2>1, ConstantsAssumption
<1>2. CASE PropagateError(t)
    <2>1. [by |-> cur[t], at |-> hook[t]] \in Error \ {Startup}
        BY <1>2, ConstantsAssumption DEF PropagateError, Error, Startup, Site
    <2> QED
        BY <1>2, <2>1, ErrorIsNot DEF PropagateError, AfterRaise
<1>3. CASE CheckStartup(t)
    BY <1>3, ErrorIsNot, SitesOfViews DEF CheckStartup
<1>4. CASE RenderStartup(t)
    <2>1. answer' \in [Request -> Error \cup {Null, Response}]
        BY <1>4 DEF RenderStartup
    <2>2. \A q \in Request : answer'[q] \in {answer[q], appError}
        BY <1>4 DEF RenderStartup
    <2> QED
        BY <1>4, <2>1, <2>2 DEF RenderStartup
<1>5. CASE MakeRequest(t)
    BY <1>5, ConstantsAssumption DEF MakeRequest
<1>6. CASE RunHook(t)
    BY <1>6 DEF RunHook
<1>7. CASE CheckHook(t)
    BY <1>7, ConstantsAssumption DEF CheckHook
<1>8. CASE RenderHook(t)
    BY <1>8 DEF RenderHook
<1>9. CASE FreeError(t)
    <2>1. /\ pc' \in [Thread -> PC] /\ pc'[t] \in {"return", "forget"}
          /\ pc[t] = "clear" /\ \A s \in Thread \ {t} : pc'[s] = pc[s]
          /\ UNCHANGED <<appError, cur, hook, copyError, response, rendered,
                         answer, viewed>>
        BY <1>9 DEF FreeError
    <2> QED
        BY <2>1
<1>10. CASE ForgetError(t)
    BY <1>10, ErrorIsNot, SitesOfViews DEF ForgetError
<1>11. CASE ReturnHookError(t)
    BY <1>11 DEF ReturnHookError
<1>12. CASE Dispatch(t)
    <2>1. [by |-> cur[t], at |-> Routing] \in Error
        BY <1>12, SitesOfViews, ErrorMade DEF Dispatch
    <2> QED
        BY <1>12, <2>1 DEF Dispatch
<1>13. CASE View(t)
    <2>1. [by |-> cur[t], at |-> InView(1)] \in Error
        BY <1>13, SitesOfViews, ErrorMade DEF View
    <2>2. /\ copyError' \in [Thread -> Error \cup {Null}]
          /\ response' \in [Thread -> Error \cup {Null, Response}]
        BY <1>13, <2>1 DEF View
    <2>3. pc[t] = "view" /\ pc' = [pc EXCEPT ![t] = "finish"]
          /\ UNCHANGED <<appError, cur, hook, rendered, answer>>
        BY <1>13 DEF View
    <2> QED
        BY <2>2, <2>3
<1>14. CASE Finish(t)
    BY <1>14 DEF Finish
<1> QED
    BY <1>1, <1>2, <1>3, <1>4, <1>5, <1>6, <1>7, <1>8, <1>9, <1>10, <1>11,
       <1>12, <1>13, <1>14 DEF Step

LEMMA StartNext ==
    ASSUME StartInv, [Next]_vars
    PROVE  StartInv'
<1>1. CASE UNCHANGED vars
    BY <1>1 DEF vars, local, StartInv, StartupErrorGuards
<1> QED
    BY <1>1, StartReceive, StartStep DEF Next, Terminated

\* Nobody who is answered with the startup error is answered so by mistake: it is in no
\* place but the shared context, where it stays.
ToldInv ==
    /\ \A t \in Thread : Startup \notin {copyError[t], response[t], rendered[t]}
    /\ \A q \in Request : answer[q] = Startup => appError = Startup

LEMMA OthersAreNotStartup ==
    /\ Startup # Null /\ Startup # Response
    /\ \A q \in Request : \A n : [by |-> q, at |-> n] # Startup
    BY ConstantsAssumption, ErrorIsNot, SitesOfViews DEF Startup

LEMMA ToldStep ==
    ASSUME StartInv, ToldInv, NEW t \in Thread, Step(t)
    PROVE  ToldInv'
<1> USE OthersAreNotStartup DEF StartInv, ToldInv, StartupErrorGuards, Go
<1>1. CASE TestError(t)
    BY <1>1 DEF TestError
<1>2. CASE PropagateError(t)
    BY <1>2 DEF PropagateError
<1>3. CASE CheckStartup(t)
    BY <1>3 DEF CheckStartup
<1>4. CASE RenderStartup(t)
    <2>1. \A q \in Request : answer'[q] \in {answer[q], appError}
        BY <1>4 DEF RenderStartup
    <2> QED
        BY <1>4, <2>1 DEF RenderStartup
<1>5. CASE MakeRequest(t)
    BY <1>5 DEF MakeRequest
<1>6. CASE RunHook(t)
    BY <1>6 DEF RunHook
<1>7. CASE CheckHook(t)
    BY <1>7 DEF CheckHook
<1>8. CASE RenderHook(t)
    BY <1>8 DEF RenderHook
<1>9. CASE FreeError(t)
    BY <1>9 DEF FreeError
<1>10. CASE ForgetError(t)
    BY <1>10 DEF ForgetError
<1>11. CASE ReturnHookError(t)
    <2>1. \A q \in Request : answer'[q] \in {answer[q], rendered[t]}
        BY <1>11 DEF ReturnHookError
    <2> QED
        BY <1>11, <2>1 DEF ReturnHookError
<1>12. CASE Dispatch(t)
    <2>1. /\ UNCHANGED <<appError, answer, rendered>>
          /\ \A s \in Thread : /\ copyError'[s] \in {copyError[s], Null, [by |-> cur[t], at |-> Routing]}
                              /\ response'[s] \in {response[s], Response}
          /\ cur[t] \in Request
        BY <1>12 DEF Dispatch
    <2> QED
        BY <2>1
<1>13. CASE View(t)
    <2>1. /\ UNCHANGED <<appError, answer, rendered>>
          /\ \A s \in Thread :
                /\ copyError'[s] \in {copyError[s], Null, [by |-> cur[t], at |-> InView(1)]}
                /\ response'[s] \in {response[s], Response, Null, [by |-> cur[t], at |-> InView(1)]}
          /\ cur[t] \in Request
        BY <1>13 DEF View
    <2> QED
        BY <2>1
<1>14. CASE Finish(t)
    <2>1. /\ UNCHANGED <<appError, rendered>>
          /\ \A q \in Request : answer'[q] \in {answer[q], copyError[t], response[t]}
          /\ \A s \in Thread : /\ copyError'[s] \in {copyError[s], Null}
                              /\ response'[s] \in {response[s], Null}
        BY <1>14 DEF Finish
    <2> QED
        BY <2>1
<1> QED
    BY <1>1, <1>2, <1>3, <1>4, <1>5, <1>6, <1>7, <1>8, <1>9, <1>10, <1>11,
       <1>12, <1>13, <1>14 DEF Step

\* An application that could not be set up runs no hook and no view, however
\* many threads serve it and whatever they are sent, and once one of its requests was
\* answered with the startup error, the error is never taken away.
THEOREM StartupErrorIsForEver == Spec => []StartupErrorStays
<1>1. Init => StartInv /\ ToldInv
    BY ConstantsAssumption, SitesOfViews, OthersAreNotStartup
       DEF Init, StartInv, StartupErrorGuards, PC, ToldInv
<1>2. StartInv /\ [Next]_vars => StartInv'
    BY StartNext
<1>3. StartInv /\ ToldInv /\ [Next]_vars => ToldInv'
    <2> SUFFICES ASSUME StartInv, ToldInv, [Next]_vars PROVE ToldInv'
        OBVIOUS
    <2>1. CASE UNCHANGED vars
        BY <2>1 DEF vars, local, ToldInv
    <2>2. ASSUME NEW t \in Thread, NEW q \in Request, NEW input \in Input,
                 Receive(t, q, input)
          PROVE  ToldInv'
        BY <2>2 DEF Receive, ToldInv
    <2>3. CASE Terminated
        BY <2>3 DEF Terminated, vars, local, ToldInv
    <2> QED
        BY <2>1, <2>2, <2>3, ToldStep DEF Next
<1>4. StartInv /\ ToldInv => StartupErrorStays
    BY DEF StartInv, ToldInv, StartupErrorStays
<1> QED
    BY <1>1, <1>2, <1>3, <1>4, PTL DEF Spec

-----------------------------------------------------------------------------
(* What holds until a hook or a SAPI raises an error.                      *)

\* Only the code of q raises an error of q, and the first one stays.
LEMMA VerdictStep ==
    ASSUME StartInv, Verdicts, [Next]_vars
    PROVE  /\ Verdicts'
           /\ \A q \in Request : verdict[q] # Null => verdict'[q] = verdict[q]
<1>1. ASSUME NEW q \in Request, NEW e \in Error, Raises(q, e)
      PROVE  /\ Verdicts'
             /\ \A r \in Request : verdict[r] # Null => verdict'[r] = verdict[r]
    BY <1>1 DEF Raises, Verdicts
<1>2. CASE UNCHANGED verdict
    BY <1>2 DEF Verdicts
<1>3. ASSUME NEW t \in Thread, NEW q \in Request, NEW input \in Input,
             Receive(t, q, input)
      PROVE  UNCHANGED verdict \/ Raises(q, [by |-> q, at |-> 0])
    BY <1>3 DEF Receive
<1>4. ASSUME NEW t \in Thread, RunHook(t)
      PROVE  /\ cur[t] \in Request
             /\ [by |-> cur[t], at |-> hook[t]] \in Error
             /\ \/ UNCHANGED verdict
                \/ Raises(cur[t], [by |-> cur[t], at |-> hook[t]])
    <2>1. cur[t] \in Request /\ hook[t] \in 1..NHooks
        BY <1>4 DEF RunHook, StartInv
    <2>2. hook[t] \in Site
        BY <2>1, ConstantsAssumption DEF Site
    <2> QED
        BY <1>4, <2>1, <2>2, ErrorMade DEF RunHook
<1>5. ASSUME NEW t \in Thread, Dispatch(t) \/ View(t)
      PROVE  \/ UNCHANGED verdict
             \/ /\ cur[t] \in Request
                /\ \E e \in Error : Raises(cur[t], e)
    <2>1. cur[t] \in Request
        BY <1>5 DEF Dispatch, View, StartInv
    <2>2. /\ [by |-> cur[t], at |-> Routing] \in Error
          /\ [by |-> cur[t], at |-> InView(1)] \in Error
        BY <2>1, ErrorMade, SitesOfViews
    <2> QED
        BY <1>5, <2>1, <2>2 DEF Dispatch, View
<1>6. ASSUME NEW t \in Thread, Step(t), ~RunHook(t), ~Dispatch(t), ~View(t)
      PROVE  UNCHANGED verdict
    BY <1>6 DEF Step, TestError, PropagateError, CheckStartup, RenderStartup,
        MakeRequest, CheckHook, RenderHook, FreeError, ForgetError,
        ReturnHookError, Finish
<1>7. ASSUME NEW q \in Request PROVE [by |-> q, at |-> 0] \in Error
    BY ErrorMade, SitesOfViews
<1>8. ASSUME NEW t \in Thread, Step(t)
      PROVE  UNCHANGED verdict
             \/ \E q \in Request, e \in Error : Raises(q, e)
    BY <1>4, <1>5, <1>6, <1>8
<1>9. CASE UNCHANGED vars
    BY <1>2, <1>9 DEF vars
<1> QED
    BY <1>1, <1>2, <1>3, <1>7, <1>8, <1>9 DEF Next, Terminated

\* A calm state comes after a calm state.
LEMMA CalmBefore ==
    ASSUME StartInv, Verdicts, [Next]_vars, Calm'
    PROVE  Calm
    BY VerdictStep DEF Calm

\* The invariant, for any number of threads, requests and hooks.
THEOREM Invariant == Spec => []Inv
<1>1. Init => Inv
    <2>1. Init => StartInv
        BY ConstantsAssumption, SitesOfViews
           DEF Init, StartInv, StartupErrorGuards, PC
    <2> QED
        BY <2>1, QuietInit DEF Inv, Verdicts, Init
<1>2. Inv /\ [Next]_vars => Inv'
    <2> SUFFICES ASSUME Inv, [Next]_vars PROVE Inv'
        OBVIOUS
    <2>1. StartInv /\ StartInv' /\ Verdicts /\ Verdicts'
        BY StartNext, VerdictStep DEF Inv
    <2> SUFFICES ASSUME Calm' PROVE IInv'
        BY <2>1 DEF Inv
    <2>2. IInv
        BY <2>1, CalmBefore DEF Inv
    <2>3. CASE UNCHANGED vars
        BY <2>2, <2>3 DEF vars, local, IInv, LocalTypes, QuietInv, Handles,
            BeforeHooks, Waiting, EachItsOwn, Expected, StartupErrorGuards
    <2>4. ASSUME NEW t \in Thread, NEW q \in Request, NEW input \in Input,
                 Receive(t, q, input)
          PROVE  IInv'
        BY <2>1, <2>2, <2>4, QuietReceive
    <2>5. ASSUME NEW t \in Thread, Step(t) PROVE IInv'
        BY <2>1, <2>2, <2>5, QuietStep
    <2> QED
        BY <2>3, <2>4, <2>5 DEF Next, Terminated
<1> QED
    BY <1>1, <1>2, PTL DEF Spec

-----------------------------------------------------------------------------
(***************************************************************************)
(* What holds when hooks and SAPIs raise errors on the context all threads *)
(* share. SharedInv holds for any number of threads: who raised the error  *)
(* that is set has not yet looked at it, or is about to clear it. AloneInv *)
(* holds as long as one thread serves: the error is then that of the       *)
(* request it serves. With QuietInv they give every invariant that is      *)
(* checked of the main loop.                                               *)
(***************************************************************************)

\* t is on its way to clear the error, or to end the process for want of an
\* environment.
Clears(t) ==
    \/ pc[t] \in {"check", "render_hook", "clear", "forget"}
    \/ pc[t] \in {"startup", "render_startup"} /\ "env" \notin held[cur[t]]

SharedInv ==
    /\ TypeOK
    /\ \A s, t \in Thread : s # t /\ cur[s] = cur[t] => cur[t] = Null
    /\ \A t \in Thread :
          pc[t] \in {"raise", "propagate"} /\ hook[t] = 0 => "env" \notin held[cur[t]]
    /\ Alive /\ appError \notin {Null, Startup} => \E t \in Thread : Clears(t)

\* No hook and no SAPI has turned q down.
Fine(q) == verdict[q] = Null \/ verdict[q].at > NHooks

\* Nothing has happened to q yet.
Untouched(q) == verdict[q] = Null /\ q \notin viewed /\ \A e \in freed : e.by # q

\* The request t serves, when no other thread does.
Serves(t) ==
    LET q == cur[t] IN
    /\ answer[q] = Null
    /\ pc[t] \in {"raise", "propagate"} =>
          /\ verdict[q] = [by |-> q, at |-> hook[t]]
          /\ held[q] = IF hook[t] = 0 THEN {} ELSE {"request"}
          /\ appError \in {Null, Startup}
    /\ pc[t] = "propagate" => appError = Null
    /\ pc[t] \in {"startup", "render_startup"} =>
          \/ verdict[q] = Null /\ held[q] = {"env"} /\ appError \in {Null, Startup}
          \/ /\ verdict[q] = [by |-> q, at |-> 0] /\ held[q] = {}
             /\ appError \in {Startup, verdict[q]}
    /\ pc[t] = "render_startup" => appError # Null
    /\ pc[t] = "make" => held[q] = {"env"}
    /\ pc[t] \in {"make", "hook", "dispatch", "view"} =>
          verdict[q] = Null /\ appError = Null
    /\ pc[t] \in {"hook", "check", "dispatch"} => held[q] = {"request"}
    /\ pc[t] = "check" =>
          /\ appError = verdict[q]
          /\ verdict[q] # Null => verdict[q].at = hook[t]
    /\ pc[t] \in {"render_hook", "clear", "forget", "return"} =>
          verdict[q] # Null /\ verdict[q].at <= NHooks
    /\ pc[t] \in {"render_hook", "clear", "forget"} => appError = verdict[q]
    /\ pc[t] \in {"clear", "forget", "return"} => rendered[t] = verdict[q]
    /\ pc[t] \in {"return", "finish"} => appError = Null
    /\ pc[t] = "view" => held[q] = {"request", "copy"}
    /\ pc[t] = "finish" =>
          /\ Fine(q) /\ "env" \notin held[q]
          /\ (IF copyError[t] # Null THEN copyError[t] ELSE response[t]) =
                 (IF verdict[q] # Null THEN verdict[q] ELSE Response)
    /\ pc[t] # "finish" => q \notin viewed
    /\ pc[t] \notin {"forget", "return"} => \A e \in freed : e.by # q

AloneInv ==
    /\ fault \subseteq {"null_env"}
    /\ EachItsOwn /\ AllFreed /\ HooksGuardViews
    /\ \A q \in Request : verdict[q] # Null => verdict[q].by = q
    /\ \A e \in freed : e.by \in Request
    /\ Alive =>
          /\ \A t \in Thread : pc[t] # "idle" => Serves(t)
          /\ \A t \in Thread : pc[t] = "idle" /\ cur[t] # Null => answer[cur[t]] # Null
          /\ \A q \in Waiting : answer[q] = Null => Untouched(q)

-----------------------------------------------------------------------------
(* Any number of threads.                                                  *)

LEMMA SharedInit == Init => SharedInv
<1> SUFFICES ASSUME Init PROVE SharedInv
    OBVIOUS
<1>1. TypeOK
    BY ConstantsAssumption, SitesOfViews DEF Init, TypeOK, PC
<1>2. appError \in {Null, Startup}
    BY DEF Init
<1> QED
    BY <1>1, <1>2 DEF Init, SharedInv

\* A step of t leaves the other threads and requests alone.
LEMMA Locality ==
    ASSUME TypeOK, StartInv, NEW t \in Thread, Step(t)
    PROVE  /\ pc[t] # "idle" /\ cur[t] \in Request /\ UNCHANGED cur
           /\ fault \subseteq fault'
           /\ \A s \in Thread \ {t} : pc'[s] = pc[s] /\ hook'[s] = hook[s]
           /\ \A q \in Request \ {cur[t]} :
                  held'[q] = held[q] /\ answer'[q] = answer[q] /\ verdict'[q] = verdict[q]
<1> USE DEF TypeOK, Go
<1>1. pc[t] # "idle"
    BY DEF Step, TestError, PropagateError, CheckStartup, RenderStartup, MakeRequest,
       RunHook, CheckHook, RenderHook, FreeError, ForgetError, ReturnHookError,
       Dispatch, View, Finish
<1>2. cur[t] \in Request
    BY <1>1 DEF StartInv
<1>3. CASE TestError(t) \/ PropagateError(t) \/ CheckStartup(t) \/ CheckHook(t)
    <2>1. CASE TestError(t)
        BY <1>1, <1>2, <2>1 DEF TestError
    <2>2. CASE PropagateError(t)
        BY <1>1, <1>2, <2>2 DEF PropagateError
    <2>3. CASE CheckStartup(t)
        BY <1>1, <1>2, <2>3 DEF CheckStartup
    <2>4. CASE CheckHook(t)
        BY <1>1, <1>2, <2>4 DEF CheckHook
    <2> QED
        BY <1>3, <2>1, <2>2, <2>3, <2>4
<1>4. CASE RenderStartup(t) \/ MakeRequest(t)
    <2>1. UNCHANGED <<cur, verdict>> /\ fault \subseteq fault'
        BY <1>4 DEF RenderStartup, MakeRequest
    <2>2. \A s \in Thread \ {t} : pc'[s] = pc[s] /\ hook'[s] = hook[s]
        BY <1>4 DEF RenderStartup, MakeRequest
    <2>3. \A q \in Request \ {cur[t]} : held'[q] = held[q] /\ answer'[q] = answer[q]
        BY <1>4 DEF RenderStartup, MakeRequest
    <2> QED
        BY <1>1, <1>2, <2>1, <2>2, <2>3
<1>5. CASE RunHook(t)
    <2>1. UNCHANGED <<cur, hook, held, answer, fault>>
        BY <1>5 DEF RunHook
    <2>2. \A s \in Thread \ {t} : pc'[s] = pc[s]
        BY <1>5 DEF RunHook
    <2>3. verdict' = verdict \/ Raises(cur[t], [by |-> cur[t], at |-> hook[t]])
        BY <1>5 DEF RunHook
    <2>4. \A q \in Request \ {cur[t]} : verdict'[q] = verdict[q]
        BY <2>3 DEF Raises
    <2> QED
        BY <1>1, <1>2, <2>1, <2>2, <2>4
<1>6. CASE RenderHook(t) \/ FreeError(t) \/ ForgetError(t) \/ ReturnHookError(t)
    BY <1>1, <1>2, <1>6 DEF RenderHook, FreeError, ForgetError, ReturnHookError
<1>7. CASE Dispatch(t)
    BY <1>1, <1>2, <1>7 DEF Dispatch, Raises
<1>8. CASE View(t)
    BY <1>1, <1>2, <1>8 DEF View, Raises
<1>9. CASE Finish(t)
    BY <1>1, <1>2, <1>9 DEF Finish
<1> QED
    BY <1>3, <1>4, <1>5, <1>6, <1>7, <1>8, <1>9 DEF Step

LEMMA TypeReceive ==
    ASSUME TypeOK, StartInv', Verdicts', NEW t \in Thread, NEW q \in Request,
           NEW input \in Input, Receive(t, q, input)
    PROVE  TypeOK'
<1>1. /\ hook' \in [Thread -> 0..(NHooks + 1)] /\ held' \in [Request -> SUBSET Resource]
      /\ UNCHANGED <<freed, viewed, fault>>
    BY ConstantsAssumption DEF TypeOK, Receive, Resource
<1> QED
    BY <1>1 DEF TypeOK, StartInv, Verdicts

LEMMA TypeStep ==
    ASSUME TypeOK, StartInv, StartInv', Verdicts', NEW t \in Thread, Step(t)
    PROVE  TypeOK'
<1> SUFFICES /\ freed' \subseteq Error /\ viewed' \subseteq Request
             /\ hook' \in [Thread -> 0..(NHooks + 1)]
             /\ held' \in [Request -> SUBSET Resource]
             /\ fault' \subseteq {"null_env", "null_error", "freed_error", "double_free"}
    BY DEF TypeOK, StartInv, Verdicts
<1>1. cur[t] \in Request
    BY Locality
<1> USE <1>1 DEF TypeOK
<1>2. CASE TestError(t) \/ PropagateError(t) \/ CheckStartup(t) \/ RunHook(t)
    <2>1. CASE TestError(t)
        BY <2>1 DEF TestError
    <2>2. CASE PropagateError(t)
        BY <2>2 DEF PropagateError
    <2>3. CASE CheckStartup(t)
        BY <2>3 DEF CheckStartup
    <2>4. CASE RunHook(t)
        BY <2>4 DEF RunHook
    <2> QED
        BY <1>2, <2>1, <2>2, <2>3, <2>4
<1>3. CASE RenderStartup(t) \/ RenderHook(t)
    <2>1. Misuse \subseteq {"null_error", "freed_error"}
        BY DEF Misuse
    <2>2. fault' \subseteq {"null_env", "null_error", "freed_error", "double_free"}
        BY <1>3, <2>1 DEF RenderStartup, RenderHook
    <2>3. held' \in [Request -> SUBSET Resource]
        BY <1>3 DEF RenderStartup, RenderHook
    <2>4. UNCHANGED <<freed, viewed, hook>>
        BY <1>3 DEF RenderStartup, RenderHook
    <2> QED
        BY <2>2, <2>3, <2>4
<1>4. CASE MakeRequest(t)
    <2>1. hook' \in [Thread -> 0..(NHooks + 1)]
        BY <1>4, ConstantsAssumption DEF MakeRequest
    <2>2. held' \in [Request -> SUBSET Resource]
        BY <1>4 DEF MakeRequest, Resource
    <2> QED
        BY <1>4, <2>1, <2>2 DEF MakeRequest
<1>5. CASE CheckHook(t)
    <2>1. hook[t] \in 1..NHooks
        BY <1>5 DEF CheckHook, StartInv
    <2> QED
        BY <1>5, <2>1, ConstantsAssumption DEF CheckHook
<1>6. CASE FreeError(t) \/ ForgetError(t) \/ ReturnHookError(t)
    BY <1>6 DEF FreeError, ForgetError, ReturnHookError
<1>7. CASE Dispatch(t)
    BY <1>7 DEF Dispatch, Resource
<1>8. CASE View(t)
    BY <1>8 DEF View, Resource
<1>9. CASE Finish(t)
    BY <1>9 DEF Finish
<1> QED
    BY <1>2, <1>3, <1>4, <1>5, <1>6, <1>7, <1>8, <1>9 DEF Step

LEMMA SharedReceive ==
    ASSUME SharedInv, StartInv, StartInv', Verdicts', NEW t \in Thread,
           NEW q \in Request, NEW input \in Input, Receive(t, q, input)
    PROVE  SharedInv'
<1>1. TypeOK'
    BY TypeReceive DEF SharedInv
<1>2. /\ q \in Waiting /\ pc[t] = "idle" /\ UNCHANGED <<appError, fault>>
      /\ cur' = [cur EXCEPT ![t] = q] /\ hook' = [hook EXCEPT ![t] = 0]
      /\ held' = [held EXCEPT ![q] = IF input = "nothing" THEN {} ELSE {"env"}]
      /\ pc' = [pc EXCEPT ![t] = IF input = "env" THEN "startup" ELSE "raise"]
    BY DEF Receive, Go
<1>3. \A r, s \in Thread : r # s /\ cur'[r] = cur'[s] => cur'[s] = Null
    BY <1>2 DEF SharedInv, TypeOK, Waiting
<1>4. ASSUME NEW s \in Thread, s # t, pc[s] # "idle"
      PROVE  /\ pc'[s] = pc[s] /\ cur'[s] = cur[s] /\ hook'[s] = hook[s]
             /\ held'[cur[s]] = held[cur[s]]
    BY <1>2, <1>4 DEF SharedInv, TypeOK, StartInv, Waiting
<1>5. \A s \in Thread :
         pc'[s] \in {"raise", "propagate"} /\ hook'[s] = 0 => "env" \notin held'[cur'[s]]
    <2>1. pc'[t] = "raise" => "env" \notin held'[cur'[t]]
        BY <1>2 DEF SharedInv, TypeOK, Input
    <2>2. pc'[t] # "propagate"
        BY <1>2 DEF SharedInv, TypeOK
    <2>3. \A s \in Thread \ {t} : pc'[s] = pc[s]
        BY <1>2 DEF SharedInv, TypeOK
    <2> QED
        BY <1>4, <2>1, <2>2, <2>3 DEF SharedInv
<1>6. Alive' /\ appError' \notin {Null, Startup} => \E s \in Thread : Clears(s)'
    <2> SUFFICES ASSUME Alive', appError' \notin {Null, Startup}
                 PROVE  \E s \in Thread : Clears(s)'
        OBVIOUS
    <2>1. PICK s \in Thread : Clears(s)
        BY <1>2 DEF SharedInv, Alive
    <2> QED
        BY <1>2, <1>4, <2>1 DEF Clears
<1> QED
    BY <1>1, <1>3, <1>5, <1>6 DEF SharedInv

LEMMA SharedStep ==
    ASSUME SharedInv, StartInv, StartInv', Verdicts', NEW t \in Thread, Step(t)
    PROVE  SharedInv'
<1>1. TypeOK'
    BY TypeStep DEF SharedInv
<1>2. /\ pc[t] # "idle" /\ cur[t] \in Request /\ UNCHANGED cur
      /\ fault \subseteq fault'
      /\ \A s \in Thread \ {t} : pc'[s] = pc[s] /\ hook'[s] = hook[s]
      /\ \A q \in Request \ {cur[t]} : held'[q] = held[q]
    BY Locality DEF SharedInv
<1>3. \A s \in Thread \ {t} : pc[s] # "idle" => held'[cur[s]] = held[cur[s]]
    BY <1>2, ConstantsAssumption DEF SharedInv, StartInv
<1>4. Alive' => Alive
    BY <1>2 DEF Alive
<1>5. pc'[t] \in {"raise", "propagate"} /\ hook'[t] = 0 => "env" \notin held'[cur[t]]
    <2>1. CASE TestError(t)
        BY <2>1 DEF TestError, SharedInv, TypeOK, Go
    <2>2. CASE RunHook(t)
        BY <2>2, ConstantsAssumption DEF RunHook, StartInv
    <2>3. CASE ~TestError(t) /\ ~RunHook(t)
        BY <2>3 DEF SharedInv, TypeOK, Step, PropagateError, CheckStartup,
            RenderStartup, MakeRequest, CheckHook, RenderHook, FreeError, ForgetError,
            ReturnHookError, Dispatch, View, Finish, AfterRaise, Go
    <2> QED
        BY <2>1, <2>2, <2>3
<1>6. Alive' /\ appError' \notin {Null, Startup} => \E s \in Thread : Clears(s)'
    <2> SUFFICES ASSUME Alive', appError' \notin {Null, Startup}
                 PROVE  \E s \in Thread : Clears(s)'
        OBVIOUS
    <2> USE DEF Clears, Go
    \* Who raises the error clears it.
    <2>1. CASE PropagateError(t) /\ appError = Null
        <3>1. pc'[t] \in {"startup", "check"} /\ (pc'[t] = "startup" => hook[t] = 0)
              /\ held' = held /\ pc[t] = "propagate"
            BY <2>1 DEF PropagateError, AfterRaise, SharedInv, TypeOK
        <3>2. Clears(t)'
            BY <1>2, <3>1 DEF SharedInv
        <3> QED
            BY <3>2
    <2>2. CASE ~(PropagateError(t) /\ appError = Null)
        <3>1. appError' = appError /\ ~ForgetError(t)
            BY <2>2 DEF Step, TestError, PropagateError, CheckStartup, RenderStartup,
                MakeRequest, RunHook, CheckHook, RenderHook, FreeError, ForgetError,
                ReturnHookError, Dispatch, View, Finish
        <3>2. PICK s \in Thread : Clears(s)
            BY <1>4, <3>1 DEF SharedInv
        <3>3. CASE s # t
            BY <1>2, <1>3, <3>2, <3>3
        <3>4. CASE s = t
            <4>1. CASE CheckStartup(t) \/ CheckHook(t) \/ RenderHook(t) \/ FreeError(t)
                BY <1>2, <3>1, <3>2, <3>4, <4>1
                   DEF CheckStartup, CheckHook, RenderHook, FreeError, SharedInv, TypeOK
            <4>2. ~RenderStartup(t)
                BY <3>2, <3>4 DEF RenderStartup, Alive
            <4> QED
                BY <3>1, <3>2, <3>4, <4>1, <4>2
                   DEF Step, TestError, PropagateError, MakeRequest, RunHook,
                       ReturnHookError, Dispatch, View, Finish
        <3> QED
            BY <3>3, <3>4
    <2> QED
        BY <2>1, <2>2
<1>7. \A s \in Thread :
         pc'[s] \in {"raise", "propagate"} /\ hook'[s] = 0 => "env" \notin held'[cur'[s]]
    BY <1>2, <1>3, <1>5 DEF SharedInv
<1> QED
    BY <1>1, <1>2, <1>6, <1>7 DEF SharedInv

-----------------------------------------------------------------------------
(* One thread.                                                             *)

\* It was one thread from the start: who has served keeps its last request.
LEMMA AloneBefore ==
    ASSUME TypeOK, StartInv, [Next]_vars, Alone'
    PROVE  Alone
<1>1. ASSUME NEW t \in Thread, cur[t] # Null PROVE cur'[t] # Null
    <2>1. ASSUME NEW s \in Thread, NEW q \in Request, NEW input \in Input,
                 Receive(s, q, input)
          PROVE  cur'[t] # Null
        BY <1>1, <2>1, ConstantsAssumption DEF Receive, TypeOK
    <2>2. ASSUME NEW s \in Thread, Step(s) PROVE cur'[t] # Null
        BY <1>1, <2>2, Locality
    <2>3. CASE UNCHANGED vars
        BY <1>1, <2>3 DEF vars, local
    <2> QED
        BY <2>1, <2>2, <2>3 DEF Next, Terminated
<1> QED
    BY <1>1 DEF Alone

\* All the other threads are idle.
LEMMA OthersIdle ==
    ASSUME Alone, StartInv, NEW t \in Thread, cur[t] # Null, NEW s \in Thread, s # t
    PROVE  cur[s] = Null /\ pc[s] = "idle"
    BY ConstantsAssumption DEF Alone, StartInv

\* What a step of t has to establish.
LEMMA AloneLocal ==
    ASSUME AloneInv, Alone, Alive, SharedInv, StartInv, StartInv', SharedInv',
           NEW t \in Thread, Step(t),
           fault' \subseteq {"null_env"},
           appError' = Startup <=> appError = Startup,
           Alive' => IF pc'[t] = "idle" THEN answer'[cur[t]] # Null ELSE Serves(t)',
           answer'[cur[t]] # Null =>
               /\ answer'[cur[t]] = Expected(cur[t])'
               /\ Fine(cur[t])' => held'[cur[t]] = {},
           cur[t] \in viewed' => Fine(cur[t])',
           verdict'[cur[t]] # Null => verdict'[cur[t]].by = cur[t],
           viewed' \subseteq viewed \cup {cur[t]},
           \A e \in freed' : e \in freed \/ e.by = cur[t]
    PROVE  AloneInv'
<1>1. /\ pc[t] # "idle" /\ cur[t] \in Request /\ UNCHANGED cur
      /\ \A s \in Thread \ {t} : pc'[s] = pc[s]
      /\ \A q \in Request \ {cur[t]} :
             held'[q] = held[q] /\ answer'[q] = answer[q] /\ verdict'[q] = verdict[q]
    BY Locality DEF SharedInv
<1>2. \A s \in Thread \ {t} : cur[s] = Null /\ pc[s] = "idle"
    BY <1>1, OthersIdle, ConstantsAssumption
<1>3. EachItsOwn'
    BY <1>1 DEF AloneInv, EachItsOwn, Expected
<1>4. AllFreed'
    BY <1>1 DEF AloneInv, AllFreed, Fine
<1>5. HooksGuardViews'
    BY <1>1 DEF AloneInv, HooksGuardViews, Fine, SharedInv, TypeOK
<1>6. \A e \in freed' : e.by \in Request
    BY <1>1 DEF AloneInv
<1>7. Waiting' = Waiting /\ cur[t] \notin Waiting /\ Waiting \subseteq Request
    BY <1>1 DEF Waiting
<1>8. \A q \in Waiting' : answer'[q] = Null => Untouched(q)'
    BY <1>1, <1>7 DEF AloneInv, Untouched
<1> QED
    BY <1>1, <1>2, <1>3, <1>4, <1>5, <1>6, <1>8 DEF AloneInv

LEMMA AloneInit == Init => AloneInv
<1> SUFFICES ASSUME Init PROVE AloneInv
    OBVIOUS
<1>1. EachItsOwn /\ AllFreed /\ HooksGuardViews
    BY DEF Init, EachItsOwn, AllFreed, HooksGuardViews
<1> QED
    BY <1>1 DEF Init, AloneInv, Waiting, Untouched

\* A thread that has answered its last request takes a new one.
LEMMA AloneReceive ==
    ASSUME AloneInv, Alone', Alive, SharedInv, StartInv, Verdicts',
           NEW t \in Thread, NEW q \in Request, NEW input \in Input,
           Receive(t, q, input)
    PROVE  AloneInv'
<1> DEFINE e == [by |-> q, at |-> 0]
<1>1. /\ pc[t] = "idle" /\ q \in Waiting /\ answer[q] = Null
      /\ cur' = [cur EXCEPT ![t] = q] /\ hook' = [hook EXCEPT ![t] = 0]
      /\ UNCHANGED <<appError, freed, rendered, answer, viewed, fault>>
    BY DEF Receive
<1>2. \A s \in Thread \ {t} : cur[s] = Null /\ pc[s] = "idle"
    <2>1. cur'[t] = q /\ \A s \in Thread \ {t} : cur'[s] = cur[s]
        BY <1>1 DEF StartInv
    <2> QED
        BY <2>1, ConstantsAssumption DEF Alone, StartInv
<1>3. appError \in {Null, Startup}
    BY <1>1, <1>2 DEF SharedInv, Clears
<1>4. verdict[q] = Null /\ q \notin viewed /\ \A f \in freed : f.by # q
    BY <1>1 DEF AloneInv, Untouched
<1>5. e \in Error /\ e # Null /\ e.by = q /\ e.at = 0
    BY ErrorMade, ErrorIsNot, SitesOfViews
<1>6. \A r \in Request \ {q} : held'[r] = held[r] /\ verdict'[r] = verdict[r]
    BY DEF Receive, Raises, SharedInv, TypeOK
<1> DEFINE Parsed  == /\ pc' = [pc EXCEPT ![t] = "startup"]
                      /\ held'[q] = {"env"} /\ verdict'[q] = Null
           Nothing == /\ pc' = [pc EXCEPT ![t] = "raise"]
                      /\ held'[q] = {} /\ verdict'[q] = e
<1>7. Parsed \/ Nothing
    BY <1>4 DEF Receive, Raises, Go, SharedInv, TypeOK, Input
<1> HIDE DEF e
<1>8. /\ pc'[t] \in {"startup", "raise"} /\ cur'[t] = q /\ hook'[t] = 0
      /\ \A s \in Thread \ {t} : pc'[s] = "idle" /\ cur'[s] = Null
    BY <1>1, <1>2, <1>7 DEF SharedInv, TypeOK
<1>9. Serves(t)'
    BY <1>1, <1>3, <1>4, <1>5, <1>7, <1>8 DEF Serves, SharedInv, TypeOK, e
<1>10. \A r \in Waiting' : answer'[r] = Null => Untouched(r)'
    <2> SUFFICES ASSUME NEW r \in Waiting', answer[r] = Null PROVE Untouched(r)'
        BY <1>1
    <2>1. r \in Request /\ r # q
        BY <1>8 DEF Waiting
    <2>2. r \in Waiting
        BY <1>1, <1>2, <2>1, ConstantsAssumption DEF AloneInv, Waiting
    <2> QED
        BY <1>1, <1>6, <2>1, <2>2 DEF AloneInv, Untouched
<1>11. EachItsOwn' /\ AllFreed' /\ HooksGuardViews'
    <2>1. EachItsOwn'
        BY <1>1, <1>4, <1>6 DEF AloneInv, EachItsOwn, Expected, SharedInv, TypeOK
    <2>2. AllFreed'
        BY <1>1, <1>4, <1>6 DEF AloneInv, AllFreed, SharedInv, TypeOK
    <2>3. HooksGuardViews'
        BY <1>1, <1>4, <1>6 DEF AloneInv, HooksGuardViews, SharedInv, TypeOK
    <2> QED
        BY <2>1, <2>2, <2>3
<1>12. \A r \in Request : verdict'[r] # Null => verdict'[r].by = r
    BY <1>5, <1>6, <1>7 DEF AloneInv
<1>13. \A s \in Thread : pc'[s] # "idle" => Serves(s)'
    BY <1>8, <1>9
<1>14. \A s \in Thread : pc'[s] = "idle" /\ cur'[s] # Null => answer'[cur'[s]] # Null
    BY <1>8
<1>15. fault' \subseteq {"null_env"} /\ \A f \in freed' : f.by \in Request
    BY <1>1 DEF AloneInv
<1> QED
    BY <1>10, <1>11, <1>12, <1>13, <1>14, <1>15 DEF AloneInv

\* The steps of the main loop, one by one.
LEMMA AloneStep ==
    ASSUME AloneInv, Alone, Alive, SharedInv, SharedInv', StartInv, StartInv',
           NEW t \in Thread, Step(t)
    PROVE  AloneInv'
<1> DEFINE q == cur[t]
<1>1. /\ pc[t] # "idle" /\ q \in Request /\ UNCHANGED cur
      /\ Serves(t) /\ answer[q] = Null
    <2>1. pc[t] # "idle" /\ q \in Request /\ UNCHANGED cur
        BY Locality DEF SharedInv
    <2>2. Serves(t)
        BY <2>1 DEF AloneInv
    <2> QED
        BY <2>1, <2>2 DEF Serves
<1>2. /\ fault \subseteq {"null_env"}
      /\ verdict[q] # Null => verdict[q].by = q
      /\ \A e \in freed : e.by \in Request
      /\ q \in viewed => Fine(q)
    BY <1>1 DEF AloneInv, HooksGuardViews, Fine
<1>3. /\ Startup \in Error /\ Startup # Null /\ Startup.by = App
      /\ Null \notin Error /\ Response # Null /\ App # q
    BY <1>1, SitesOfViews, ErrorIsNot, ConstantsAssumption DEF Startup
<1>4. TypeOK /\ q \in Request
    BY <1>1 DEF SharedInv
<1>5. appError \in {Startup, verdict[q]} /\ appError # Null
      /\ pc[t] \notin {"forget", "return"} => Misuse = {} /\ appError \notin freed
    <2> SUFFICES ASSUME appError \in {Startup, verdict[q]}, appError # Null,
                        pc[t] \notin {"forget", "return"}
                 PROVE  Misuse = {} /\ appError \notin freed
        OBVIOUS
    <2>1. \A e \in freed : e.by \notin {q, App}
        BY <1>1, <1>2, ConstantsAssumption DEF Serves
    <2>2. appError.by \in {q, App}
        BY <1>2, <1>3
    <2> QED
        BY <2>1, <2>2 DEF Misuse
<1>6. \A n \in Site : /\ [by |-> q, at |-> n] \in Error
                      /\ [by |-> q, at |-> n] # Null /\ [by |-> q, at |-> n] # Startup
    BY <1>1, <1>3, ErrorMade, ErrorIsNot DEF Startup
<1>7. verdict[q] # Startup
    BY <1>2, <1>3
<1>8. CASE TestError(t)
    <2>1. /\ pc[t] = "raise" /\ pc'[t] = IF appError # Null THEN AfterRaise(t) ELSE "propagate"
          /\ UNCHANGED <<appError, freed, cur, hook, copyError, response, rendered, held,
                         answer, verdict, viewed, fault>>
        BY <1>4, <1>8 DEF TestError, Go, TypeOK
    <2>2. appError # Null => hook[t] = 0 /\ pc'[t] = "startup"
        BY <1>1, <2>1 DEF Serves, StartInv, AfterRaise
    <2>3. Serves(t)'
        BY <1>1, <2>1, <2>2 DEF Serves
    <2> QED
        BY <1>1, <1>2, <2>1, <2>2, <2>3, AloneLocal DEF Fine
<1>9. CASE PropagateError(t)
    <2>1. /\ pc[t] = "propagate" /\ pc'[t] = AfterRaise(t)
          /\ appError = Null /\ appError' = [by |-> q, at |-> hook[t]]
          /\ UNCHANGED <<freed, cur, hook, copyError, response, rendered, held,
                         answer, verdict, viewed, fault>>
        BY <1>1, <1>4, <1>9 DEF PropagateError, Go, TypeOK, Serves
    <2>2. hook[t] \in Site
        BY <2>1, ConstantsAssumption DEF StartInv, Site
    <2>3. appError' # Startup /\ appError' = verdict[q] /\ appError' # Null
        BY <1>1, <1>6, <2>1, <2>2 DEF Serves
    <2>4. Serves(t)'
        BY <1>1, <2>1, <2>3 DEF Serves, AfterRaise
    <2> QED
        BY <1>1, <1>2, <1>3, <2>1, <2>3, <2>4, AloneLocal DEF Fine, AfterRaise
<1>10. CASE CheckStartup(t)
    <2>1. /\ pc[t] = "startup"
          /\ pc'[t] = IF appError # Null THEN "render_startup" ELSE "make"
          /\ UNCHANGED <<appError, freed, cur, hook, copyError, response, rendered, held,
                         answer, verdict, viewed, fault>>
        BY <1>4, <1>10 DEF CheckStartup, Go, TypeOK
    <2>2. Serves(t)'
        BY <1>1, <1>3, <1>6, <2>1, ConstantsAssumption DEF Serves, Site
    <2> QED
        BY <1>1, <1>2, <2>1, <2>2, AloneLocal DEF Fine
<1>11. CASE RenderStartup(t)
    <2>1. /\ pc[t] = "render_startup" /\ pc'[t] = "idle"
          /\ UNCHANGED <<appError, freed, cur, hook, copyError, response, rendered,
                         verdict, viewed>>
        BY <1>4, <1>11 DEF RenderStartup, Go, TypeOK
    <2>2. q \notin viewed /\ appError # Null /\ appError \in {Startup, verdict[q]}
        BY <1>1, <2>1 DEF Serves
    <2>3. Misuse = {}
        BY <1>5, <2>1, <2>2
    <2>4. CASE held[q] = {"env"}
        <3>1. fault' = fault /\ answer'[q] = appError /\ held'[q] = {}
            BY <1>4, <1>11, <2>3, <2>4 DEF RenderStartup, TypeOK
        <3>2. appError = Startup
            <4>1. "env" \in held[q]
                BY <2>4
            <4> QED
                BY <1>1, <2>1, <2>2, <4>1 DEF Serves
        <3> QED
            BY <1>1, <1>2, <1>3, <2>1, <2>2, <3>1, <3>2, AloneLocal DEF Expected
    <2>5. CASE held[q] = {}
        <3>1. fault' = fault \cup {"null_env"} /\ answer' = answer
            BY <1>4, <1>11, <2>3, <2>5 DEF RenderStartup, TypeOK
        <3>2. ~Alive'
            BY <3>1 DEF Alive
        <3> QED
            BY <1>1, <1>2, <1>3, <2>1, <2>2, <3>1, <3>2, AloneLocal
    <2> QED
        BY <1>1, <2>1, <2>4, <2>5 DEF Serves
<1>12. CASE MakeRequest(t)
    <2>1. pc[t] = "make" /\ held[q] = {"env"}
        BY <1>1, <1>12 DEF MakeRequest, Serves
    <2>2. held'[q] = {"request"}
        BY <1>4, <1>12, <2>1 DEF MakeRequest, TypeOK
    <2>3. /\ pc'[t] \in {"hook", "dispatch"}
          /\ UNCHANGED <<appError, freed, cur, copyError, response, rendered,
                         answer, verdict, viewed, fault>>
        BY <1>4, <1>12, <2>1 DEF MakeRequest, Go, TypeOK
    <2>4. Serves(t)'
        BY <1>1, <2>1, <2>2, <2>3 DEF Serves
    <2> QED
        BY <1>1, <1>2, <2>1, <2>3, <2>4, AloneLocal DEF Fine
<1>13. CASE RunHook(t)
    <2>1. /\ pc[t] = "hook" /\ hook[t] \in 1..NHooks
          /\ verdict[q] = Null /\ appError = Null /\ held[q] = {"request"}
          /\ UNCHANGED <<appError, freed, cur, hook, copyError, response, rendered, held,
                         answer, viewed, fault>>
        BY <1>1, <1>13 DEF RunHook, StartInv, Serves
    <2>2. \/ pc'[t] = "check" /\ verdict'[q] = Null
          \/ pc'[t] = "raise" /\ verdict'[q] = [by |-> q, at |-> hook[t]]
        BY <1>4, <1>13, <2>1 DEF RunHook, Raises, Go, TypeOK
    <2>3. Serves(t)'
        <3>1. hook[t] # 0
            BY <2>1, ConstantsAssumption
        <3>2. CASE pc'[t] = "check" /\ verdict'[q] = Null
            BY <1>1, <2>1, <3>2 DEF Serves
        <3>3. CASE pc'[t] = "raise" /\ verdict'[q] = [by |-> q, at |-> hook[t]]
            BY <1>1, <2>1, <3>1, <3>3 DEF Serves
        <3> QED
            BY <2>2, <3>2, <3>3
    <2>4. verdict'[q] # Null => verdict'[q].by = q
        BY <2>2
    <2>5. q \notin viewed /\ pc'[t] # "idle" /\ answer'[q] = Null
        BY <1>1, <2>1, <2>2 DEF Serves
    <2> QED
        BY <1>1, <1>2, <2>1, <2>3, <2>4, <2>5, AloneLocal
<1>14. CASE CheckHook(t)
    <2>1. /\ pc[t] = "check" /\ appError = verdict[q] /\ held[q] = {"request"}
          /\ verdict[q] # Null => verdict[q].at = hook[t]
          /\ hook[t] \in 1..NHooks
          /\ UNCHANGED <<appError, freed, cur, copyError, response, rendered, held,
                         answer, verdict, viewed, fault>>
        BY <1>1, <1>14 DEF CheckHook, StartInv, Serves
    <2>2. /\ appError # Null => pc'[t] = "render_hook"
          /\ appError = Null => pc'[t] \in {"hook", "dispatch"}
        BY <1>4, <1>14 DEF CheckHook, Go, TypeOK
    <2>3. verdict[q] # Null => verdict[q].at <= NHooks
        BY <2>1, ConstantsAssumption
    <2>4. Serves(t)'
        BY <1>1, <2>1, <2>2, <2>3 DEF Serves
    <2>5. q \notin viewed /\ pc'[t] # "idle" /\ answer'[q] = Null
        BY <1>1, <2>1, <2>2 DEF Serves
    <2> QED
        BY <1>1, <1>2, <2>1, <2>4, <2>5, AloneLocal
<1>15. CASE RenderHook(t)
    <2>1. /\ pc[t] = "render_hook" /\ appError = verdict[q] /\ verdict[q] # Null
          /\ verdict[q].at <= NHooks
        BY <1>1, <1>15 DEF RenderHook, Serves
    <2>2. Misuse = {}
        BY <1>5, <2>1
    <2>3. /\ pc'[t] = "clear" /\ rendered'[t] = appError
          /\ UNCHANGED <<appError, freed, cur, hook, copyError, response, held,
                         answer, verdict, viewed, fault>>
        BY <1>4, <1>15, <2>2 DEF RenderHook, Go, TypeOK
    <2>4. Serves(t)'
        BY <1>1, <2>1, <2>3 DEF Serves
    <2>5. q \notin viewed
        BY <1>1, <2>1 DEF Serves
    <2> QED
        BY <1>1, <1>2, <2>3, <2>4, <2>5, AloneLocal
<1>16. CASE FreeError(t)
    <2>1. /\ pc[t] = "clear" /\ appError = verdict[q] /\ verdict[q] # Null
          /\ verdict[q].at <= NHooks /\ rendered[t] = verdict[q] /\ q \notin viewed
        BY <1>1, <1>16 DEF FreeError, Serves
    <2>2. appError \notin freed
        BY <1>5, <2>1
    <2>3. /\ pc'[t] = "forget" /\ freed' = freed \cup {verdict[q]} /\ fault' = fault
          /\ UNCHANGED <<appError, cur, hook, copyError, response, rendered, held,
                         answer, verdict, viewed>>
        BY <1>4, <1>16, <2>1, <2>2 DEF FreeError, Go, TypeOK
    <2>4. Serves(t)'
        BY <1>1, <2>1, <2>3 DEF Serves
    <2> QED
        BY <1>1, <1>2, <2>1, <2>3, <2>4, AloneLocal
<1>17. CASE ForgetError(t)
    <2>1. /\ pc[t] = "forget" /\ appError = verdict[q] /\ verdict[q] # Null
          /\ verdict[q].at <= NHooks /\ rendered[t] = verdict[q] /\ q \notin viewed
        BY <1>1, <1>17 DEF ForgetError, Serves
    <2>2. /\ pc'[t] = "return" /\ appError' = Null
          /\ UNCHANGED <<freed, cur, hook, copyError, response, rendered, held,
                         answer, verdict, viewed, fault>>
        BY <1>4, <1>17 DEF ForgetError, Go, TypeOK
    <2>3. Serves(t)'
        BY <1>1, <2>1, <2>2 DEF Serves
    <2> QED
        BY <1>1, <1>2, <1>3, <1>7, <2>1, <2>2, <2>3, AloneLocal
<1>18. CASE ReturnHookError(t)
    <2>1. /\ pc[t] = "return" /\ appError = Null /\ verdict[q] # Null
          /\ verdict[q].at <= NHooks /\ rendered[t] = verdict[q] /\ q \notin viewed
        BY <1>1, <1>18 DEF ReturnHookError, Serves
    <2>2. /\ pc'[t] = "idle" /\ answer'[q] = verdict[q]
          /\ UNCHANGED <<appError, freed, cur, hook, copyError, response, held,
                         verdict, viewed, fault>>
        BY <1>4, <1>18, <2>1 DEF ReturnHookError, Go, TypeOK
    <2>3. verdict[q].at \in Nat
        BY <1>4, <2>1, ConstantsAssumption DEF TypeOK, Error, Site
    <2>4. ~Fine(q)'
        BY <2>1, <2>2, <2>3, ConstantsAssumption DEF Fine
    <2>5. Expected(q)' = verdict[q]
        BY <1>3, <2>1, <2>2 DEF Expected
    <2> QED
        BY <1>1, <1>2, <2>1, <2>2, <2>4, <2>5, AloneLocal
<1>19. CASE Dispatch(t)
    <2> DEFINE e == [by |-> q, at |-> Routing]
    <2>1. /\ pc[t] = "dispatch" /\ held[q] = {"request"}
          /\ verdict[q] = Null /\ appError = Null /\ q \notin viewed
          /\ \A f \in freed : f.by # q
          /\ UNCHANGED <<appError, freed, cur, hook, rendered, answer, viewed, fault>>
        BY <1>1, <1>19 DEF Dispatch, Serves
    <2>2. e # Null /\ e.by = q /\ e.at > NHooks
        BY <1>6, SitesOfViews, ConstantsAssumption DEF Routing
    <2> HIDE DEF e
    <2>3. \/ /\ pc'[t] = "finish" /\ copyError'[t] = e /\ verdict'[q] = e
             /\ held'[q] = {"request", "copy", "error"}
          \/ /\ pc'[t] = "finish" /\ copyError'[t] = Null /\ response'[t] = Response
             /\ held'[q] = {"request", "copy", "response"} /\ verdict'[q] = Null
          \/ /\ pc'[t] = "view" /\ held'[q] = {"request", "copy"} /\ verdict'[q] = Null
        BY <1>4, <1>19, <2>1 DEF Dispatch, Raises, Go, TypeOK, e
    <2>4. "env" \notin held'[q]
        BY <2>3
    <2>5. Serves(t)'
        BY <1>1, <2>1, <2>2, <2>3, <2>4 DEF Serves, Fine
    <2> QED
        BY <1>1, <1>2, <2>1, <2>2, <2>3, <2>5, AloneLocal
<1>20. CASE View(t)
    <2> DEFINE first == [by |-> q, at |-> InView(1)]
    <2>1. /\ pc[t] = "view" /\ held[q] = {"request", "copy"}
          /\ verdict[q] = Null /\ appError = Null
          /\ \A f \in freed : f.by # q
          /\ viewed' = viewed \cup {q}
          /\ UNCHANGED <<appError, freed, cur, hook, rendered, answer, fault>>
        BY <1>1, <1>20 DEF View, Serves
    <2>2. first # Null /\ first.by = q /\ first.at > NHooks
        BY <1>6, SitesOfViews, ConstantsAssumption DEF InView
    <2>3. PICK n \in 0..2, returns \in {"own", "abort", "null"} :
            /\ returns = "null" => n > 0
            /\ copyError' = [copyError EXCEPT ![t] =
                    IF n > 0 /\ returns # "abort" THEN first ELSE Null]
            /\ response' = [response EXCEPT ![t] =
                    CASE returns = "own" -> Response
                      [] returns = "abort" -> first
                      [] returns = "null" -> Null]
            /\ held' = [held EXCEPT ![q] = @
                    \cup (IF n > 0 /\ returns # "abort" THEN {"error"} ELSE {})
                    \cup (IF returns = "null" THEN {} ELSE {"response"})]
            /\ verdict' = IF n > 0 \/ returns = "abort"
                          THEN [verdict EXCEPT ![q] = first] ELSE verdict
        BY <1>20, <2>1 DEF View, Raises
    <2> HIDE DEF first
    <2>4. pc'[t] = "finish"
        BY <1>4, <1>20 DEF View, Go, TypeOK
    <2>5. verdict'[q] \in {Null, first}
        BY <1>4, <2>1, <2>3 DEF TypeOK
    <2>6. "env" \notin held'[q]
        BY <1>4, <2>1, <2>3 DEF TypeOK
    <2>7. (IF copyError'[t] # Null THEN copyError'[t] ELSE response'[t])
             = (IF verdict'[q] # Null THEN verdict'[q] ELSE Response)
        BY <1>4, <2>1, <2>2, <2>3 DEF TypeOK
    <2>8. Serves(t)'
        BY <1>1, <2>1, <2>2, <2>4, <2>5, <2>6, <2>7 DEF Serves, Fine
    <2> QED
        BY <1>1, <1>2, <2>1, <2>2, <2>4, <2>5, <2>8, AloneLocal DEF Fine
<1>21. CASE Finish(t)
    <2> DEFINE outcome == IF copyError[t] # Null THEN copyError[t] ELSE response[t]
    <2>1. /\ pc[t] = "finish" /\ Fine(q) /\ "env" \notin held[q] /\ appError = Null
          /\ outcome = IF verdict[q] # Null THEN verdict[q] ELSE Response
          /\ \A f \in freed : f.by # q
        BY <1>1, <1>21 DEF Finish, Serves
    <2> HIDE DEF outcome
    <2>2. /\ pc'[t] = "idle" /\ answer'[q] = outcome
          /\ held'[q] = held[q] \ {"request", "response", "copy", "error"}
          /\ UNCHANGED <<appError, freed, cur, hook, rendered, verdict, viewed, fault>>
        BY <1>4, <1>21 DEF Finish, Go, TypeOK, outcome
    <2>3. held'[q] = {}
        BY <1>4, <2>1, <2>2 DEF TypeOK, Resource
    <2>4. Expected(q)' = outcome /\ outcome # Null
        BY <1>3, <2>1, <2>2 DEF Expected
    <2>5. Fine(q)'
        BY <2>1, <2>2 DEF Fine
    <2> QED
        BY <1>1, <1>2, <2>1, <2>2, <2>3, <2>4, <2>5, AloneLocal
<1> QED
    BY <1>8, <1>9, <1>10, <1>11, <1>12, <1>13, <1>14, <1>15, <1>16, <1>17, <1>18,
       <1>19, <1>20, <1>21 DEF Step

-----------------------------------------------------------------------------
(* The invariant, and what is checked of the main loop.                    *)

LoopInv == SharedInv /\ (Alone => AloneInv)

LEMMA LoopNext ==
    ASSUME Inv, Inv', LoopInv, [Next]_vars
    PROVE  LoopInv'
<1>1. StartInv /\ StartInv' /\ Verdicts' /\ SharedInv
    BY DEF Inv, LoopInv
<1>2. Alone' => Alone /\ AloneInv
    BY <1>1, AloneBefore DEF LoopInv, SharedInv
<1>3. CASE UNCHANGED vars
    <2>1. SharedInv'
        BY <1>1, <1>3 DEF vars, local, SharedInv, TypeOK, Alive, Clears
    <2>2. AloneInv => AloneInv'
        <3>1. UNCHANGED <<appError, freed, pc, cur, hook, copyError, response, rendered,
                          held, answer, verdict, viewed, fault>>
            BY <1>3 DEF vars, local
        <3>2. (EachItsOwn /\ AllFreed /\ HooksGuardViews)' =
                  (EachItsOwn /\ AllFreed /\ HooksGuardViews)
            BY <3>1 DEF EachItsOwn, Expected, AllFreed, HooksGuardViews
        <3>3. \A t \in Thread : Serves(t)' = Serves(t)
            BY <3>1 DEF Serves, Fine
        <3>4. Waiting' = Waiting /\ \A q \in Request : Untouched(q)' = Untouched(q)
            BY <3>1 DEF Waiting, Untouched
        <3>5. Waiting \subseteq Request /\ Alive' = Alive
            BY <3>1 DEF Waiting, Alive
        <3> QED
            BY <3>1, <3>2, <3>3, <3>4, <3>5 DEF AloneInv
    <2> QED
        BY <1>2, <2>1, <2>2 DEF LoopInv
<1>4. ASSUME Alive, NEW t \in Thread, NEW q \in Request, NEW input \in Input,
             Receive(t, q, input)
      PROVE  LoopInv'
    <2>1. SharedInv'
        BY <1>1, <1>4, SharedReceive
    <2>2. Alone' => AloneInv'
        BY <1>1, <1>2, <1>4, AloneReceive
    <2> QED
        BY <2>1, <2>2 DEF LoopInv
<1>5. ASSUME Alive, NEW t \in Thread, Step(t) PROVE LoopInv'
    <2>1. SharedInv'
        BY <1>1, <1>5, SharedStep
    <2>2. Alone' => AloneInv'
        BY <1>1, <1>2, <1>5, <2>1, AloneStep
    <2> QED
        BY <2>1, <2>2 DEF LoopInv
<1> QED
    BY <1>3, <1>4, <1>5 DEF Next, Terminated

THEOREM LoopInvariant == Spec => [](Inv /\ LoopInv)
<1>1. Init => LoopInv
    BY SharedInit, AloneInit DEF LoopInv
<1>2. Inv /\ Inv' /\ LoopInv /\ [Next]_vars => LoopInv'
    BY LoopNext
<1> QED
    BY <1>1, <1>2, Invariant, PTL DEF Spec

\* Every variable of the main loop keeps its type.
THEOREM TypeCorrect == Spec => []TypeOK
<1>1. LoopInv => TypeOK
    BY DEF LoopInv, SharedInv
<1> QED
    BY <1>1, LoopInvariant, PTL

\* A request is answered with its own outcome and never with the error of
\* another one: by one thread whatever the hooks and the SAPI raise, by any
\* number of threads as long as none of them writes app->error.
THEOREM AnswersAreOwn == Spec => []OwnAnswer
<1>1. Inv /\ LoopInv => OwnAnswer
    BY DEF Inv, IInv, LoopInv, AloneInv, OwnAnswer
<1> QED
    BY <1>1, LoopInvariant, PTL

\* Under the same conditions all that was allocated for a request is freed
\* when it is answered, unless a hook turned it down.
THEOREM NothingLeaks == Spec => []Released
<1>1. Inv /\ LoopInv => Released
    BY DEF Inv, IInv, QuietInv, LoopInv, AloneInv, Released, AllFreed
<1> QED
    BY <1>1, LoopInvariant, PTL

\* A thread that serves alone shows no view a request that a hook, or the
\* parsing of the input, has turned down.
THEOREM ViewsAreGuarded == Spec => []OneThreadGuardsViews
<1>1. LoopInv => OneThreadGuardsViews
    BY DEF LoopInv, AloneInv, OneThreadGuardsViews
<1> QED
    BY <1>1, LoopInvariant, PTL

\* However many threads serve, the error of a request is gone when they have
\* all come to rest; and a thread alone uses no error that is freed or gone.
THEOREM ErrorsAreUsedWell == Spec => []ErrorsUsedWell
<1>1. ASSUME SharedInv, Alive, \A t \in Thread : pc[t] = "idle"
      PROVE  appError \in {Null, Startup}
    BY <1>1 DEF SharedInv, Clears
<1>2. Inv /\ LoopInv => (Calm \/ Alone => fault \subseteq {"null_env"})
    BY DEF Inv, IInv, QuietInv, LoopInv, AloneInv
<1>3. Inv /\ LoopInv => ErrorsUsedWell
    BY <1>1, <1>2 DEF LoopInv, ErrorsUsedWell
<1> QED
    BY <1>3, LoopInvariant, PTL

=============================================================================
