----------------------------- MODULE AppContext -----------------------------
(***************************************************************************)
(* The application context of balde (src/src/app.c): user data with its    *)
(* destroy function, configuration, registration of rules and hooks, and   *)
(* the release of the context.  The application sets it up in one thread,  *)
(* then several threads serve.  The hooks run on the context itself, a     *)
(* view runs on a copy, which shares everything but the error; what a view *)
(* may not call ends the process with g_error (BALDE_APP_READ_ONLY).       *)
(*                                                                         *)
(* The code of the application (external) is what it may call: it hands    *)
(* over each datum once, sets the destroy function before any datum, and   *)
(* does not keep pointers it was given in the setup.                       *)
(* A value of the configuration is named by the memory that holds it.      *)
(* Writers take a lock, readers take none: a pointer that was read may be  *)
(* freed before it is used, which fault records, as it does the other      *)
(* undefined behaviour.                                                    *)
(***************************************************************************)
EXTENDS Naturals, FiniteSets

CONSTANTS
    Thread,     \* threads that run code of the application
    Datum,      \* what the application hands over as user data
    Name,       \* names of configuration parameters
    Cell,       \* memory for values of parameters
    MaxRules,   \* bound: rules and hooks registered, the static rule included
    Null

ASSUME ConstantsAssumption ==
    /\ MaxRules \in Nat
    /\ Null \notin Thread \cup Datum \cup Name \cup Cell

VARIABLES
    phase,          \* "setup", "serving", "freed", or "aborted" by g_error
    role,           \* per thread: what it runs, "none", "hook" or "view"
    pc,             \* per thread: where it is in a call, "ready" outside
    userData,       \* app->priv->user_data
    destroyFunc,    \* TRUE if app->priv->user_data_destroy_func is set
    dataLock,       \* owner of the lock user_data
    arg,            \* per thread: the datum it is about to set, or Null
    config,         \* app->priv->config: per name the cell, or Null
    configLock,     \* owner of the lock config
    pending,        \* per thread: the name and the cell it is about to store
    rules, hooks,   \* how many rules and hooks are registered
    error,          \* TRUE if app->error is set
    datum, cell,    \* per thread: the pointers it was given by the getters
    given,          \* history: the data handed over
    destroyed,      \* history: the data destroyed
    freedCells,     \* history: the cells freed
    setters,        \* history: who set or freed user data while serving
    reconfigured,   \* history: TRUE if a hook changed the configuration
    fault

userDataVars == <<userData, destroyFunc, dataLock, arg, given, destroyed, setters>>
configVars   == <<config, configLock, pending, freedCells, reconfigured>>
registered   == <<rules, hooks, error>>
pointers     == <<datum, cell>>
vars == <<phase, role, pc, userDataVars, configVars, registered, pointers, fault>>

-----------------------------------------------------------------------------
\* balde_app_init, which registers the static rule.
Init ==
    /\ phase = "setup"
    /\ role = [t \in Thread |-> "none"]
    /\ pc = [t \in Thread |-> "ready"]
    /\ userData = Null /\ destroyFunc = FALSE /\ dataLock = Null
    /\ arg = [t \in Thread |-> Null]
    /\ config = [n \in Name |-> Null] /\ configLock = Null
    /\ pending = [t \in Thread |-> <<Null, Null>>]
    /\ rules = 1 /\ hooks = 0 /\ error = FALSE
    /\ datum = [t \in Thread |-> Null]
    /\ cell = [t \in Thread |-> Null]
    /\ given = {} /\ destroyed = {} /\ freedCells = {}
    /\ setters = {} /\ reconfigured = FALSE
    /\ fault = {}

\* A thread that may make a call: the first one to do so in the setup is the
\* main thread, afterwards a thread must be in a hook or in a view.
MayCall(t) ==
    /\ pc[t] = "ready"
    /\ \/ phase = "setup" /\ \A s \in Thread \ {t} : pc[s] = "ready"
       \/ phase = "serving" /\ role[t] # "none"

\* app->copy
Copy(t) == role[t] = "view"

\* BALDE_APP_READ_ONLY: on a copy the process ends.
ReadOnly(t) ==
    /\ Copy(t)
    /\ phase' = "aborted"
    /\ UNCHANGED <<role, pc, userDataVars, configVars, registered, pointers, fault>>

Go(t, there) == pc' = [pc EXCEPT ![t] = there]

-----------------------------------------------------------------------------
(* User data.                                                              *)

\* balde_app_set_user_data_destroy_func
SetDestroyFunc(t) ==
    /\ MayCall(t) /\ given = {} /\ ~destroyFunc
    /\ \/ ReadOnly(t)
       \/ /\ ~Copy(t)
          /\ destroyFunc' = TRUE
          /\ UNCHANGED <<phase, role, pc, userData, dataLock, arg, given,
                         destroyed, setters, configVars, registered, pointers,
                         fault>>

\* balde_app_set_user_data with d, or balde_app_free_user_data with Null: both
\* are allowed on a copy, and begin with the test of free_user_data.
SetUserData(t, d) ==
    /\ MayCall(t)
    /\ d \in (Datum \ given) \cup {Null}
    /\ arg' = [arg EXCEPT ![t] = d]
    /\ given' = given \cup ({d} \ {Null})
    /\ setters' = IF phase = "serving" THEN setters \cup {t} ELSE setters
    /\ Go(t, "test")
    /\ UNCHANGED <<phase, role, userData, destroyFunc, dataLock, destroyed,
                   configVars, registered, pointers, fault>>

\* After the old datum is dealt with, the new one is set if there is one.
AfterFree(t) == IF arg[t] # Null THEN "set" ELSE "ready"

\* The test of balde_app_free_user_data, with no lock held.
TestUserData(t) ==
    /\ pc[t] = "test"
    /\ Go(t, IF destroyFunc /\ userData # Null THEN "destroy" ELSE AfterFree(t))
    /\ UNCHANGED <<phase, role, userDataVars, configVars, registered, pointers,
                   fault>>

Destruction(d) ==
    IF d = Null THEN {"destroy_null"}
    ELSE IF d \in destroyed THEN {"double_destroy"} ELSE {}

\* Mutant: the datum that was tested is destroyed with no lock taken.
DestroyUnlocked(t) ==
    /\ pc[t] = "destroy"
    /\ fault' = fault \cup Destruction(userData)
    /\ destroyed' = destroyed \cup ({userData} \ {Null})
    /\ Go(t, "forget")
    /\ UNCHANGED <<phase, role, userData, destroyFunc, dataLock, arg, given,
                   setters, configVars, registered, pointers>>

\* The lock is taken, and what user_data holds by now is destroyed: another
\* thread may have taken it away since the test, or replaced it.
DestroyUserData(t) ==
    /\ pc[t] = "destroy" /\ dataLock = Null
    /\ dataLock' = t
    /\ fault' = fault \cup Destruction(userData)
    /\ destroyed' = destroyed \cup ({userData} \ {Null})
    /\ Go(t, "forget")
    /\ UNCHANGED <<phase, role, userData, destroyFunc, arg, given, setters,
                   configVars, registered, pointers>>

\* Mutant: the lock is not released.
ForgetKeepingLock(t) ==
    /\ pc[t] = "forget"
    /\ userData' = Null
    /\ Go(t, AfterFree(t))
    /\ UNCHANGED <<phase, role, destroyFunc, dataLock, arg, given, destroyed,
                   setters, configVars, registered, pointers, fault>>

ForgetUserData(t) ==
    /\ pc[t] = "forget"
    /\ userData' = Null /\ dataLock' = Null
    /\ Go(t, AfterFree(t))
    /\ UNCHANGED <<phase, role, destroyFunc, arg, given, destroyed, setters,
                   configVars, registered, pointers, fault>>

\* The second critical section of balde_app_set_user_data.
StoreUserData(t) ==
    /\ pc[t] = "set" /\ dataLock = Null
    /\ userData' = arg[t]
    /\ arg' = [arg EXCEPT ![t] = Null]
    /\ Go(t, "ready")
    /\ UNCHANGED <<phase, role, destroyFunc, dataLock, given, destroyed,
                   setters, configVars, registered, pointers, fault>>

\* balde_app_get_user_data: no lock.
GetUserData(t) ==
    /\ MayCall(t)
    /\ datum' = [datum EXCEPT ![t] = userData]
    /\ UNCHANGED <<phase, role, pc, userDataVars, configVars, registered, cell,
                   fault>>

-----------------------------------------------------------------------------
(* Configuration.                                                          *)

\* balde_app_set_config, and balde_app_set_config_from_envvar, which may find
\* no value (Null).
SetConfig(t, n, c) ==
    /\ MayCall(t)
    /\ c \in (Cell \ ({config[m] : m \in Name} \cup freedCells)) \cup {Null}
    /\ \/ ReadOnly(t)
       \/ /\ ~Copy(t) /\ configLock = Null
          /\ configLock' = t
          /\ pending' = [pending EXCEPT ![t] = <<n, c>>]
          /\ reconfigured' = (reconfigured \/ role[t] = "hook")
          /\ Go(t, "replace")
          /\ UNCHANGED <<phase, role, userDataVars, config, freedCells,
                         registered, pointers, fault>>

\* g_hash_table_replace frees the old value; the lock is released.
ReplaceConfig(t) ==
    /\ pc[t] = "replace"
    /\ LET n == pending[t][1]  c == pending[t][2] IN
        /\ config' = [config EXCEPT ![n] = c]
        /\ freedCells' = freedCells \cup ({config[n]} \ {Null})
    /\ configLock' = Null
    /\ pending' = [pending EXCEPT ![t] = <<Null, Null>>]
    /\ Go(t, "ready")
    /\ UNCHANGED <<phase, role, userDataVars, reconfigured, registered,
                   pointers, fault>>

\* balde_app_set_config_from_envvar, not silent, and the variable is not set.
EnvVarMissing(t) ==
    /\ MayCall(t)
    /\ \/ ReadOnly(t)
       \/ /\ ~Copy(t)
          /\ error' = TRUE
          /\ UNCHANGED <<phase, role, pc, userDataVars, configVars, rules,
                         hooks, pointers, fault>>

\* balde_app_get_config: no lock, and the pointer is into the table.
GetConfig(t, n) ==
    /\ MayCall(t)
    /\ cell' = [cell EXCEPT ![t] = config[n]]
    /\ fault' = fault \cup (IF configLock # Null THEN {"torn_table"} ELSE {})
    /\ UNCHANGED <<phase, role, pc, userDataVars, configVars, registered, datum>>

\* The code of the application reads through the pointers it was given.
Use(t) ==
    /\ MayCall(t) /\ phase = "serving"
    /\ fault' = fault
          \cup (IF datum[t] \in destroyed THEN {"datum_use"} ELSE {})
          \cup (IF cell[t] \in freedCells THEN {"cell_use"} ELSE {})
    /\ UNCHANGED <<phase, role, pc, userDataVars, configVars, registered,
                   pointers>>

-----------------------------------------------------------------------------
(* Registration.                                                           *)

\* balde_app_add_url_rule: a rule that cannot be parsed is an error of the
\* application and is not registered.
AddUrlRule(t) ==
    /\ MayCall(t) /\ rules + hooks < MaxRules
    /\ \/ ReadOnly(t)
       \/ /\ ~Copy(t)
          /\ \/ rules' = rules + 1 /\ UNCHANGED error
             \/ error' = TRUE /\ UNCHANGED rules
          /\ UNCHANGED <<phase, role, pc, userDataVars, configVars, hooks,
                         pointers, fault>>

\* balde_app_add_before_request
AddBeforeRequest(t) ==
    /\ MayCall(t) /\ rules + hooks < MaxRules
    /\ \/ ReadOnly(t)
       \/ /\ ~Copy(t)
          /\ hooks' = hooks + 1
          /\ UNCHANGED <<phase, role, pc, userDataVars, configVars, rules,
                         error, pointers, fault>>

-----------------------------------------------------------------------------
(* Serving (balde_app_main_loop, as AppMainLoop has it) and the end.       *)

Serve ==
    /\ phase = "setup" /\ \A t \in Thread : pc[t] = "ready"
    /\ phase' = "serving"
    /\ datum' = [t \in Thread |-> Null]
    /\ cell' = [t \in Thread |-> Null]
    /\ UNCHANGED <<role, pc, userDataVars, configVars, registered, fault>>

\* A request: the hooks on the context, if there are any, the view on a copy,
\* and the copy is freed.
RunHooks(t) ==
    /\ phase = "serving" /\ role[t] = "none" /\ hooks > 0 /\ ~error
    /\ role' = [role EXCEPT ![t] = "hook"]
    /\ UNCHANGED <<phase, pc, userDataVars, configVars, registered, pointers,
                   fault>>

RunView(t) ==
    /\ phase = "serving" /\ pc[t] = "ready" /\ ~error
    /\ role[t] = IF hooks > 0 THEN "hook" ELSE "none"
    /\ role' = [role EXCEPT ![t] = "view"]
    /\ datum' = [datum EXCEPT ![t] = Null]
    /\ cell' = [cell EXCEPT ![t] = Null]
    /\ UNCHANGED <<phase, pc, userDataVars, configVars, registered, fault>>

\* Mutant: balde_app_free does not look at app->copy.
FreeCopyAndConfig(t) ==
    /\ phase = "serving" /\ role[t] = "view" /\ pc[t] = "ready"
    /\ role' = [role EXCEPT ![t] = "none"]
    /\ freedCells' = freedCells \cup ({config[n] : n \in Name} \ {Null})
    /\ datum' = [datum EXCEPT ![t] = Null]
    /\ cell' = [cell EXCEPT ![t] = Null]
    /\ UNCHANGED <<phase, pc, userDataVars, config, configLock, pending,
                   reconfigured, registered, fault>>

\* balde_app_free of the copy: what it shares is left alone.
FreeCopy(t) ==
    /\ phase = "serving" /\ role[t] = "view" /\ pc[t] = "ready"
    /\ role' = [role EXCEPT ![t] = "none"]
    /\ datum' = [datum EXCEPT ![t] = Null]
    /\ cell' = [cell EXCEPT ![t] = Null]
    /\ UNCHANGED <<phase, pc, userDataVars, configVars, registered, fault>>

\* An error, a hook's or of the start: the main loop returns without a view.
AfterHookError(t) ==
    /\ phase = "serving" /\ role[t] = "hook" /\ pc[t] = "ready" /\ error
    /\ role' = [role EXCEPT ![t] = "none"]
    /\ error' = FALSE
    /\ datum' = [datum EXCEPT ![t] = Null]
    /\ cell' = [cell EXCEPT ![t] = Null]
    /\ UNCHANGED <<phase, pc, userDataVars, configVars, rules, hooks, fault>>

Idle == \A t \in Thread : role[t] = "none" /\ pc[t] = "ready"

\* Mutant: the user data is left to the application.
FreeConfigOnly ==
    /\ phase = "serving" /\ Idle
    /\ phase' = "freed"
    /\ freedCells' = freedCells \cup ({config[n] : n \in Name} \ {Null})
    /\ config' = [n \in Name |-> Null]
    /\ rules' = 0 /\ hooks' = 0 /\ error' = FALSE
    /\ UNCHANGED <<role, pc, configLock, pending, reconfigured, userDataVars,
                   pointers, fault>>

\* balde_app_free of the context, when balde_app_run has returned: the lists,
\* the configuration, the user data if there is a destroy function, the error.
AppFree ==
    /\ phase = "serving" /\ Idle
    /\ phase' = "freed"
    /\ freedCells' = freedCells \cup ({config[n] : n \in Name} \ {Null})
    /\ config' = [n \in Name |-> Null]
    /\ rules' = 0 /\ hooks' = 0 /\ error' = FALSE
    /\ IF destroyFunc /\ userData # Null
       THEN /\ fault' = fault \cup Destruction(userData)
            /\ destroyed' = destroyed \cup {userData}
            /\ userData' = Null
       ELSE UNCHANGED <<fault, destroyed, userData>>
    /\ UNCHANGED <<role, pc, configLock, pending, reconfigured, destroyFunc,
                   dataLock, arg, given, setters, pointers>>

-----------------------------------------------------------------------------
Step(t) ==
    \/ SetDestroyFunc(t)
    \/ \E d \in Datum \cup {Null} : SetUserData(t, d)
    \/ TestUserData(t) \/ DestroyUserData(t) \/ ForgetUserData(t)
    \/ StoreUserData(t) \/ GetUserData(t)
    \/ \E n \in Name, c \in Cell \cup {Null} : SetConfig(t, n, c)
    \/ ReplaceConfig(t) \/ EnvVarMissing(t) \/ Use(t)
    \/ \E n \in Name : GetConfig(t, n)
    \/ AddUrlRule(t) \/ AddBeforeRequest(t)
    \/ RunHooks(t) \/ RunView(t) \/ FreeCopy(t) \/ AfterHookError(t)

Over == phase \in {"freed", "aborted"} /\ UNCHANGED vars

Next ==
    \/ /\ phase \in {"setup", "serving"}
       /\ \E t \in Thread : Step(t)
    \/ Serve \/ AppFree \/ Over

Spec == Init /\ [][Next]_vars

-----------------------------------------------------------------------------
(* Properties.                                                             *)

(* The state of the context and of the threads is well formed, and a lock  *)
(* is held by the thread that is in its critical section, and by no other. *)
TypeOK ==
    /\ phase \in {"setup", "serving", "freed", "aborted"}
    /\ role \in [Thread -> {"none", "hook", "view"}]
    /\ pc \in [Thread -> {"ready", "test", "destroy", "forget", "set", "replace"}]
    /\ userData \in Datum \cup {Null} /\ destroyFunc \in BOOLEAN
    /\ dataLock \in Thread \cup {Null} /\ configLock \in Thread \cup {Null}
    /\ arg \in [Thread -> Datum \cup {Null}]
    /\ config \in [Name -> Cell \cup {Null}]
    /\ pending \in [Thread -> (Name \cup {Null}) \X (Cell \cup {Null})]
    /\ rules \in Nat /\ hooks \in Nat /\ error \in BOOLEAN
    /\ datum \in [Thread -> Datum \cup {Null}]
    /\ cell \in [Thread -> Cell \cup {Null}]
    /\ given \subseteq Datum /\ destroyed \subseteq Datum
    /\ freedCells \subseteq Cell /\ setters \subseteq Thread
    /\ reconfigured \in BOOLEAN
    /\ fault \subseteq {"destroy_null", "double_destroy", "torn_table",
                        "datum_use", "cell_use"}
    /\ \A t \in Thread : /\ dataLock = t <=> pc[t] = "forget"
                         /\ configLock = t <=> pc[t] = "replace"

(* However many threads set and free the user data at once, no datum is    *)
(* destroyed twice, although balde_app_free_user_data tests the pointer    *)
(* before it takes the lock: what it destroys is read again under it.  And *)
(* with at most one thread that does while the application serves, the     *)
(* destroy function is never called with NULL.  (Of two, one may find that *)
(* the other has just destroyed what it tested.)                           *)
DestroyedOnce ==
    /\ "double_destroy" \notin fault
    /\ Cardinality(setters) <= 1 => "destroy_null" \notin fault

(* With a destroy function, and when at most one thread sets the user data *)
(* while the application serves, no datum is lost: it is the user data,    *)
(* about to be, or destroyed, and after balde_app_free it is destroyed, as *)
(* every value of the configuration is.  (Two threads that set it at once  *)
(* may both find it empty, and one of the two data is overwritten.)        *)
NothingLost ==
    /\ destroyFunc /\ Cardinality(setters) <= 1 =>
          given \subseteq destroyed \cup
              (IF phase = "freed" THEN {} ELSE {userData} \cup {arg[t] : t \in Thread})
    /\ phase = "freed" => \A n \in Name : config[n] = Null

(* What the getters return can be used until the end of the request: a     *)
(* datum unless somebody sets or frees the user data while the application *)
(* serves, a value of the configuration unless a hook changes it.          *)
PointersValid ==
    /\ "datum_use" \in fault => setters # {}
    /\ fault \cap {"cell_use", "torn_table"} # {} => reconfigured
=============================================================================
