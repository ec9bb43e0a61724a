----------------------------- MODULE AppMainLoop -----------------------------
(***************************************************************************)
(* balde_app_main_loop (src/src/app.c) run by several threads at once, as  *)
(* the FastCGI pool, the SCGI and the HTTP services do, over one           *)
(* application context.  app->error is shared by the threads; it is        *)
(* written by balde_abort_set_error (src/src/exceptions.c) called from a   *)
(* SAPI or from a "before request" hook, and cleared by the main loop.     *)
(* The view runs on a copy of the context whose error is private.          *)
(*                                                                         *)
(* A GError is named by who raised it and where; the status of an answer   *)
(* is the error it was made from, or Response for the view's own response. *)
(* What a thread does to private memory between two accesses to app->error *)
(* is one step.  Hooks, views and the parsing in the SAPI are external:    *)
(* they are what they may do to the error.  Undefined behaviour is noted   *)
(* in fault; a NULL dereference ends the process.                          *)
(***************************************************************************)
EXTENDS Naturals, Sequences, FiniteSets

CONSTANTS
    Thread,         \* threads that run the main loop
    Request,        \* requests that arrive, each one once
    NHooks,         \* number of "before request" hooks
    HooksAbort,     \* TRUE if a hook may call balde_abort_set_error
    Inputs,         \* what a SAPI may make of its input, a subset of Input
    StartupError,   \* TRUE if the application may be set up with an error
    App,            \* who raises a startup error
    Null, Response  \* no error or no answer; the response of the view

\* A parsed environment, or nothing (SCGI, FastCGI): then the error 400 is set
\* on the application.
Input == {"env", "nothing"}

\* Where an error is raised: in the SAPI or at startup, in a hook (1..NHooks),
\* by the dispatching code, by the first or the second call in the view.
Site   == 0..(NHooks + 3)
Routing == NHooks + 1
InView(n) == NHooks + 1 + n
Error  == [by : Request \cup {App}, at : Site]
Startup == [by |-> App, at |-> 0]

ASSUME ConstantsAssumption ==
    /\ NHooks \in Nat
    /\ HooksAbort \in BOOLEAN
    /\ StartupError \in BOOLEAN
    /\ Inputs \subseteq Input
    /\ App \notin Request
    /\ Null \notin Request
    /\ Null # Response
    /\ {Null, Response} \cap Error = {}

VARIABLES
    appError,   \* app->error
    freed,      \* errors of the application that were freed
    pc, cur,    \* per thread: where it is, and the request it handles
    hook,       \* per thread: the hook it is at, 0 before the hooks
    copyError,  \* per thread: app_copy->error
    response,   \* per thread: what the response of the view was made from
    rendered,   \* per thread: the error whose rendering is to be returned
    held,       \* per request: what was allocated for it and not yet freed
    answer,     \* per request: what it was answered with
    verdict,    \* history: the first error the request's own code raised
    viewed,     \* history: the requests whose view ran
    fault

local == <<pc, cur, hook, copyError, response, rendered>>
vars  == <<appError, freed, local, held, answer, verdict, viewed, fault>>

-----------------------------------------------------------------------------
Init ==
    /\ appError \in {Null} \cup (IF StartupError THEN {Startup} ELSE {})
    /\ freed = {}
    /\ pc = [t \in Thread |-> "idle"]
    /\ cur = [t \in Thread |-> Null]
    /\ hook = [t \in Thread |-> 0]
    /\ copyError = [t \in Thread |-> Null]
    /\ response = [t \in Thread |-> Null]
    /\ rendered = [t \in Thread |-> Null]
    /\ held = [q \in Request |-> {}]
    /\ answer = [q \in Request |-> Null]
    /\ verdict = [q \in Request |-> Null]
    /\ viewed = {}
    /\ fault = {}

Alive == fault \cap {"null_env", "null_error"} = {}

Go(t, there) == pc' = [pc EXCEPT ![t] = there]

\* The first error that the code run for q raises is its verdict.
Raises(q, e) ==
    verdict' = IF verdict[q] = Null THEN [verdict EXCEPT ![q] = e] ELSE verdict

Waiting == Request \ {cur[t] : t \in Thread}

-----------------------------------------------------------------------------
(* The SAPI.                                                               *)

\* A thread gets a request and parses it.
Receive(t, q, input) ==
    /\ pc[t] = "idle"
    /\ q \in Waiting /\ answer[q] = Null
    /\ input \in Inputs
    /\ cur' = [cur EXCEPT ![t] = q]
    /\ hook' = [hook EXCEPT ![t] = 0]
    /\ held' = [held EXCEPT ![q] = IF input = "nothing" THEN {} ELSE {"env"}]
    /\ IF input = "env"
       THEN Go(t, "startup") /\ UNCHANGED verdict
       ELSE Go(t, "raise") /\ Raises(q, [by |-> q, at |-> 0])
    /\ UNCHANGED <<appError, freed, copyError, response, rendered, answer,
                   viewed, fault>>

-----------------------------------------------------------------------------
(* balde_abort_set_error on the shared context, from the SAPI (hook 0) or  *)
(* from a hook: the test, then g_propagate_error, which keeps an error     *)
(* that another thread has set in between.                                 *)

AfterRaise(t) == IF hook[t] = 0 THEN "startup" ELSE "check"

TestError(t) ==
    /\ pc[t] = "raise"
    /\ Go(t, IF appError # Null THEN AfterRaise(t) ELSE "propagate")
    /\ UNCHANGED <<appError, freed, cur, hook, copyError, response, rendered,
                   held, answer, verdict, viewed, fault>>

PropagateError(t) ==
    /\ pc[t] = "propagate"
    /\ appError' = IF appError = Null THEN [by |-> cur[t], at |-> hook[t]]
                                      ELSE appError
    /\ Go(t, AfterRaise(t))
    /\ UNCHANGED <<freed, cur, hook, copyError, response, rendered, held,
                   answer, verdict, viewed, fault>>

-----------------------------------------------------------------------------
(* balde_app_main_loop.                                                    *)

\* Mutant: the startup error is not looked at.
CheckNoStartup(t) ==
    /\ pc[t] = "startup"
    /\ Go(t, "make")
    /\ UNCHANGED <<appError, freed, cur, hook, copyError, response, rendered,
                   held, answer, verdict, viewed, fault>>

\* Is there a startup error?
CheckStartup(t) ==
    /\ pc[t] = "startup"
    /\ Go(t, IF appError # Null THEN "render_startup" ELSE "make")
    /\ UNCHANGED <<appError, freed, cur, hook, copyError, response, rendered,
                   held, answer, verdict, viewed, fault>>

Misuse ==
    IF appError = Null THEN {"null_error"}
    ELSE IF appError \in freed THEN {"freed_error"} ELSE {}

\* Render it, and free the environment, which must not be NULL.
RenderStartup(t) ==
    /\ pc[t] = "render_startup"
    /\ LET q == cur[t]
           bad == Misuse \cup IF "env" \in held[q] THEN {} ELSE {"null_env"} IN
        /\ fault' = fault \cup bad
        /\ held' = [held EXCEPT ![q] = @ \ {"env"}]
        /\ answer' = IF bad \subseteq {"freed_error"}
                     THEN [answer EXCEPT ![q] = appError] ELSE answer
    /\ Go(t, "idle")
    /\ UNCHANGED <<appError, freed, cur, hook, copyError, response, rendered,
                   verdict, viewed>>

\* balde_make_request takes over what the environment holds and frees it.
MakeRequest(t) ==
    /\ pc[t] = "make"
    /\ IF "env" \in held[cur[t]]
       THEN /\ held' = [held EXCEPT ![cur[t]] = (@ \ {"env"}) \cup {"request"}]
            /\ UNCHANGED fault
       ELSE /\ fault' = fault \cup {"null_env"}
            /\ UNCHANGED held
    /\ hook' = [hook EXCEPT ![t] = 1]
    /\ Go(t, IF NHooks = 0 THEN "dispatch" ELSE "hook")
    /\ UNCHANGED <<appError, freed, cur, copyError, response, rendered, answer,
                   verdict, viewed>>

\* The hook runs on the shared context, and may raise an error.
RunHook(t) ==
    /\ pc[t] = "hook"
    /\ \/ Go(t, "check") /\ UNCHANGED verdict
       \/ /\ HooksAbort
          /\ Go(t, "raise")
          /\ Raises(cur[t], [by |-> cur[t], at |-> hook[t]])
    /\ UNCHANGED <<appError, freed, cur, hook, copyError, response, rendered,
                   held, answer, viewed, fault>>

\* Mutant: one turn too many in the loop over the hooks.
CheckHookTwice(t) ==
    /\ pc[t] = "check"
    /\ IF appError # Null
       THEN Go(t, "render_hook") /\ UNCHANGED hook
       ELSE /\ Go(t, IF hook[t] <= NHooks THEN "hook" ELSE "dispatch")
            /\ hook' = [hook EXCEPT ![t] = @ + 1]
    /\ UNCHANGED <<appError, freed, cur, copyError, response, rendered, held,
                   answer, verdict, viewed, fault>>

\* Mutant: the error a hook raised is not looked at.
CheckNoHook(t) ==
    /\ pc[t] = "check"
    /\ IF FALSE
       THEN Go(t, "render_hook") /\ UNCHANGED hook
       ELSE /\ Go(t, IF hook[t] < NHooks THEN "hook" ELSE "dispatch")
            /\ hook' = [hook EXCEPT ![t] = @ + 1]
    /\ UNCHANGED <<appError, freed, cur, copyError, response, rendered, held,
                   answer, verdict, viewed, fault>>

\* Is there an error after the hook?
CheckHook(t) ==
    /\ pc[t] = "check"
    /\ IF appError # Null
       THEN Go(t, "render_hook") /\ UNCHANGED hook
       ELSE /\ Go(t, IF hook[t] < NHooks THEN "hook" ELSE "dispatch")
            /\ hook' = [hook EXCEPT ![t] = @ + 1]
    /\ UNCHANGED <<appError, freed, cur, copyError, response, rendered, held,
                   answer, verdict, viewed, fault>>

RenderHook(t) ==
    /\ pc[t] = "render_hook"
    /\ fault' = fault \cup Misuse
    /\ rendered' = [rendered EXCEPT ![t] = appError]
    /\ Go(t, "clear")
    /\ UNCHANGED <<appError, freed, cur, hook, copyError, response, held,
                   answer, verdict, viewed>>

\* g_clear_error frees the error, then sets the pointer to NULL.  The request
\* is not freed on this way out.
FreeError(t) ==
    /\ pc[t] = "clear"
    /\ freed' = freed \cup ({appError} \ {Null})
    /\ fault' = fault \cup (IF appError \in freed THEN {"double_free"} ELSE {})
    /\ Go(t, IF appError = Null THEN "return" ELSE "forget")
    /\ UNCHANGED <<appError, cur, hook, copyError, response, rendered, held,
                   answer, verdict, viewed>>

\* Mutant: the error is freed and not reset.
KeepError(t) ==
    /\ pc[t] = "forget"
    /\ UNCHANGED appError
    /\ Go(t, "return")
    /\ UNCHANGED <<freed, cur, hook, copyError, response, rendered, held,
                   answer, verdict, viewed, fault>>

ForgetError(t) ==
    /\ pc[t] = "forget"
    /\ appError' = Null
    /\ Go(t, "return")
    /\ UNCHANGED <<freed, cur, hook, copyError, response, rendered, held,
                   answer, verdict, viewed, fault>>

ReturnHookError(t) ==
    /\ pc[t] = "return"
    /\ answer' = [answer EXCEPT ![cur[t]] = rendered[t]]
    /\ rendered' = [rendered EXCEPT ![t] = Null]
    /\ Go(t, "idle")
    /\ UNCHANGED <<appError, freed, cur, hook, copyError, response, held,
                   verdict, viewed, fault>>

\* Mutant: the 404 is set on the application, not on its copy.
DispatchOnApp(t) ==
    /\ pc[t] = "dispatch"
    /\ LET q == cur[t]
           e == [by |-> q, at |-> Routing] IN
        \/ /\ appError' = e /\ UNCHANGED copyError
           /\ held' = [held EXCEPT ![q] = @ \cup {"copy", "error"}]
           /\ Raises(q, e)
           /\ Go(t, "finish")
           /\ UNCHANGED response
        \/ /\ copyError' = [copyError EXCEPT ![t] = Null] /\ UNCHANGED appError
           /\ response' = [response EXCEPT ![t] = Response]
           /\ held' = [held EXCEPT ![q] = @ \cup {"copy", "response"}]
           /\ Go(t, "finish")
           /\ UNCHANGED verdict
        \/ /\ copyError' = [copyError EXCEPT ![t] = Null] /\ UNCHANGED appError
           /\ held' = [held EXCEPT ![q] = @ \cup {"copy"}]
           /\ Go(t, "view")
           /\ UNCHANGED <<response, verdict>>
    /\ UNCHANGED <<freed, cur, hook, rendered, answer, viewed, fault>>

\* The context is copied and the request dispatched: no view (404), a method
\* the view does not take (405), the automatic answer to OPTIONS, or the view.
Dispatch(t) ==
    /\ pc[t] = "dispatch"
    /\ LET q == cur[t]
           e == [by |-> q, at |-> Routing] IN
        \/ /\ copyError' = [copyError EXCEPT ![t] = e]
           /\ held' = [held EXCEPT ![q] = @ \cup {"copy", "error"}]
           /\ Raises(q, e)
           /\ Go(t, "finish")
           /\ UNCHANGED response
        \/ /\ copyError' = [copyError EXCEPT ![t] = Null]
           /\ response' = [response EXCEPT ![t] = Response]
           /\ held' = [held EXCEPT ![q] = @ \cup {"copy", "response"}]
           /\ Go(t, "finish")
           /\ UNCHANGED verdict
        \/ /\ copyError' = [copyError EXCEPT ![t] = Null]
           /\ held' = [held EXCEPT ![q] = @ \cup {"copy"}]
           /\ Go(t, "view")
           /\ UNCHANGED <<response, verdict>>
    /\ UNCHANGED <<appError, freed, cur, hook, rendered, answer, viewed, fault>>

\* The view, on the copy: it calls balde_abort_set_error n times, of which the
\* first counts, and returns a response of its own, one made by balde_abort,
\* which takes the error away from the copy, or NULL if it raised an error.
View(t) ==
    /\ pc[t] = "view"
    /\ LET q == cur[t]
           first == [by |-> q, at |-> InView(1)] IN
       \E n \in 0..2, returns \in {"own", "abort", "null"} :
        /\ returns = "null" => n > 0
        /\ LET raises == n > 0 \/ returns = "abort"
               keeps  == n > 0 /\ returns # "abort" IN
            /\ copyError' = [copyError EXCEPT ![t] =
                                IF keeps THEN first ELSE Null]
            /\ response' = [response EXCEPT ![t] =
                                CASE returns = "own" -> Response
                                  [] returns = "abort" -> first
                                  [] returns = "null" -> Null]
            /\ held' = [held EXCEPT ![q] = @
                    \cup (IF keeps THEN {"error"} ELSE {})
                    \cup (IF returns = "null" THEN {} ELSE {"response"})]
            /\ IF raises THEN Raises(q, first) ELSE UNCHANGED verdict
        /\ viewed' = viewed \cup {q}
    /\ Go(t, "finish")
    /\ UNCHANGED <<appError, freed, cur, hook, rendered, answer, fault>>

\* Mutant: the response is not freed when an error is rendered.
FinishLeaks(t) ==
    /\ pc[t] = "finish"
    /\ answer' = [answer EXCEPT ![cur[t]] =
                     IF copyError[t] # Null THEN copyError[t] ELSE response[t]]
    /\ held' = [held EXCEPT ![cur[t]] =
                     @ \ ({"request", "copy", "error"} \cup
                          IF copyError[t] = Null THEN {"response"} ELSE {})]
    /\ copyError' = [copyError EXCEPT ![t] = Null]
    /\ response' = [response EXCEPT ![t] = Null]
    /\ Go(t, "idle")
    /\ UNCHANGED <<appError, freed, cur, hook, rendered, verdict, viewed,
                   fault>>

\* Free the request, render the error of the copy if there is one and the
\* response otherwise, free the response and the copy with its error.
Finish(t) ==
    /\ pc[t] = "finish"
    /\ answer' = [answer EXCEPT ![cur[t]] =
                     IF copyError[t] # Null THEN copyError[t] ELSE response[t]]
    /\ held' = [held EXCEPT ![cur[t]] =
                     @ \ {"request", "response", "copy", "error"}]
    /\ copyError' = [copyError EXCEPT ![t] = Null]
    /\ response' = [response EXCEPT ![t] = Null]
    /\ Go(t, "idle")
    /\ UNCHANGED <<appError, freed, cur, hook, rendered, verdict, viewed,
                   fault>>

-----------------------------------------------------------------------------
Step(t) ==
    \/ TestError(t) \/ PropagateError(t)
    \/ CheckStartup(t) \/ RenderStartup(t) \/ MakeRequest(t)
    \/ RunHook(t) \/ CheckHook(t)
    \/ RenderHook(t) \/ FreeError(t) \/ ForgetError(t) \/ ReturnHookError(t)
    \/ Dispatch(t) \/ View(t) \/ Finish(t)

Terminated ==
    /\ Alive => /\ \A t \in Thread : pc[t] = "idle"
                /\ \A q \in Request : answer[q] # Null
    /\ UNCHANGED vars

Next ==
    \/ /\ Alive
       /\ \E t \in Thread :
            \/ \E q \in Request, input \in Input : Receive(t, q, input)
            \/ Step(t)
    \/ Terminated

Spec == Init /\ [][Next]_vars

-----------------------------------------------------------------------------
(* Properties.                                                             *)

Resource == {"env", "request", "copy", "response", "error"}
PC == {"idle", "raise", "propagate", "startup", "render_startup", "make",
       "hook", "check", "render_hook", "clear", "forget", "return",
       "dispatch", "view", "finish"}

\* The type of every variable.
TypeOK ==
    /\ appError \in Error \cup {Null}
    /\ freed \subseteq Error
    /\ pc \in [Thread -> PC]
    /\ cur \in [Thread -> Request \cup {Null}]
    /\ hook \in [Thread -> 0..(NHooks + 1)]
    /\ copyError \in [Thread -> Error \cup {Null}]
    /\ response \in [Thread -> Error \cup {Null, Response}]
    /\ rendered \in [Thread -> Error \cup {Null}]
    /\ held \in [Request -> SUBSET Resource]
    /\ answer \in [Request -> Error \cup {Null, Response}]
    /\ verdict \in [Request -> Error \cup {Null}]
    /\ viewed \subseteq Request
    /\ fault \subseteq {"null_env", "null_error", "freed_error", "double_free"}

\* What a request must be answered with: the startup error if the application
\* has one, else the first error its own code raised, else the response.
Expected(q) ==
    IF appError = Startup THEN Startup
    ELSE IF verdict[q] # Null THEN verdict[q] ELSE Response

\* Nothing has written app->error since the start; only one thread serves.
Calm == \A q \in Request : verdict[q] = Null \/ verdict[q].at > NHooks
Alone == \A s, t \in Thread : cur[s] # Null /\ cur[t] # Null => s = t

\* A request is answered with its own outcome, never with the error another
\* request raised, now or before: by one thread always, by several as long as
\* no hook and no SAPI writes the error they share.
EachItsOwn == \A q \in Request : answer[q] # Null => answer[q] = Expected(q)
OwnAnswer == Calm \/ Alone => EachItsOwn

\* The first error a request raises is final: a request that a hook turned
\* down is not shown to a view.  balde.h says of balde_abort_set_error that
\* it works like an exception.
HooksGuardViews ==
    \A q \in viewed : verdict[q] = Null \/ verdict[q].at > NHooks

\* The same, of one thread that serves one request after the other.
OneThreadGuardsViews == Alone => HooksGuardViews

\* While the startup error is set no hook and no view runs, and no request is
\* answered with anything else.
StartupErrorGuards ==
    appError = Startup =>
        /\ viewed = {}
        /\ \A t \in Thread :
               pc[t] \in {"idle", "raise", "startup", "render_startup"}
        /\ \A q \in Request : answer[q] \in {Null, Startup}

\* An application that could not be set up runs no hook and no view, and
\* answers nothing but its startup error; and once a request was answered with
\* it no later one takes it away.
StartupErrorStays ==
    /\ StartupErrorGuards
    /\ \A q \in Request : answer[q] = Startup => appError = Startup

\* Everything the main loop allocates for a request has been freed when the
\* request is answered, unless a hook turned it down.
AllFreed ==
    \A q \in Request :
        answer[q] # Null /\ (verdict[q] = Null \/ verdict[q].at > NHooks) =>
            held[q] = {}
Released == Calm \/ Alone => AllFreed

\* Why they hold as long as the application is calm, an inductive
\* invariant: app->error is never written, a request is handled by
\* one thread, and what the thread holds for it depends on where it is.
BeforeHooks == {"startup", "render_startup", "make"}
Handles(t) ==
    LET q == cur[t] IN
    /\ q \in Request
    /\ answer[q] = Null
    /\ pc[t] # "finish" => verdict[q] = Null
    /\ pc[t] \in BeforeHooks => held[q] = {"env"}
    /\ pc[t] \in {"hook", "check", "dispatch"} => held[q] = {"request"}
    /\ pc[t] = "view" => held[q] = {"request", "copy"}
    /\ pc[t] = "finish" =>
        /\ "env" \notin held[q]
        /\ (IF copyError[t] # Null THEN copyError[t] ELSE response[t]) =
               (IF verdict[q] # Null THEN verdict[q] ELSE Response)
QuietInv ==
    /\ appError \in {Null, Startup}
    /\ fault = {} /\ freed = {}
    /\ \A t \in Thread :
        /\ pc[t] \in {"idle", "hook", "check", "dispatch", "view", "finish"}
                        \cup BeforeHooks
        /\ pc[t] # "idle" => Handles(t)
        /\ pc[t] = "idle" /\ cur[t] # Null => answer[cur[t]] # Null
        /\ pc[t] = "render_startup" => appError = Startup
        /\ appError = Startup => pc[t] \in {"idle", "startup", "render_startup"}
    /\ \A s, t \in Thread : s # t /\ cur[s] = cur[t] => cur[t] = Null
    /\ \A q \in Waiting : answer[q] = Null => verdict[q] = Null
    /\ \A q \in Request : answer[q] # Null => held[q] = {}

\* Between two requests the application has no error but its startup error: what
\* one request raised is gone before the thread takes the next one.  And one thread
\* uses no error that is freed or gone; what can end the process is an input that
\* could not be parsed: app.c:387 frees an environment that is NULL.
ErrorsUsedWell ==
    /\ Alive /\ (\A t \in Thread : pc[t] = "idle") => appError \in {Null, Startup}
    /\ Calm \/ Alone => fault \subseteq {"null_env"}

=============================================================================
