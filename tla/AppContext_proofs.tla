------------------------- MODULE AppContext_proofs -------------------------
(***************************************************************************)
(* Proofs about AppContext, for any number of threads, data, parameters    *)
(* and values: what the getters return and what is destroyed is right      *)
(* although the tests and the getters take no lock.                        *)
(***************************************************************************)
EXTENDS AppContext, FiniteSetTheorems, TLAPS

\* Where a thread is that sets or frees the user data.
Touching == {"test", "destroy", "forget", "set"}

\* A datum is in one place: given and about to be set by one thread, the user
\* data, or destroyed.  The user data is a destroyed datum only under the lock.
DataInv ==
    /\ userData \in given \cup {Null}
    /\ destroyed \subseteq given
    /\ \A t \in Thread : arg[t] # Null =>
          arg[t] \in given /\ arg[t] \notin destroyed /\ arg[t] # userData
    /\ \A s, t \in Thread : s # t /\ arg[s] = arg[t] => arg[s] = Null
    /\ userData \in destroyed => dataLock # Null
    /\ "double_destroy" \notin fault

\* The values of the parameters are not freed, and each has its own memory.
ConfigInv ==
    /\ \A n \in Name : config[n] \notin freedCells
    /\ \A m, n \in Name : m # n /\ config[m] = config[n] => config[m] = Null
    /\ \A t \in Thread : pc[t] = "replace" =>
          /\ pending[t][1] \in Name
          /\ pending[t][2] \notin freedCells
          /\ \A n \in Name : config[n] = pending[t][2] => config[n] = Null

\* Until a thread sets the user data, or a hook the configuration, while the
\* application serves, no thread is about to, and no pointer is stale.
DatumValid ==
    /\ phase = "serving" /\ setters = {} =>
          \A t \in Thread : pc[t] \notin Touching /\ datum[t] \notin destroyed
    /\ "datum_use" \in fault => setters # {}
CellValid ==
    /\ phase = "serving" /\ ~reconfigured =>
          \A t \in Thread : pc[t] # "replace" /\ cell[t] \notin freedCells
    /\ fault \cap {"cell_use", "torn_table"} # {} => reconfigured

IInv == TypeOK /\ DataInv /\ ConfigInv /\ DatumValid /\ CellValid

\* What DataInv speaks of, but for the fault.
Data == <<userData, dataLock, arg, given, destroyed>>

-----------------------------------------------------------------------------
LEMMA NullIsNothing ==
    /\ Null \notin Thread /\ Null \notin Datum /\ Null \notin Name /\ Null \notin Cell
    BY ConstantsAssumption

LEMMA InitIInv == Init => IInv
<1> SUFFICES ASSUME Init PROVE IInv
    OBVIOUS
<1> USE NullIsNothing
<1>1. TypeOK
    BY DEF Init, TypeOK
<1>2. DataInv
    BY DEF Init, DataInv
<1>3. ConfigInv
    BY DEF Init, ConfigInv
<1>4. DatumValid /\ CellValid
    BY DEF Init, DatumValid, CellValid
<1> QED
    BY <1>1, <1>2, <1>3, <1>4 DEF IInv

\* The Boolean variables, apart from the rest as another prover decides on them.
LEMMA FlagsStep ==
    ASSUME TypeOK, [Next]_vars
    PROVE  destroyFunc' \in BOOLEAN /\ error' \in BOOLEAN /\ reconfigured' \in BOOLEAN
<1> USE DEF TypeOK, userDataVars, configVars, registered
<1>1. ASSUME NEW t \in Thread, Step(t)
      PROVE  destroyFunc' \in BOOLEAN /\ error' \in BOOLEAN /\ reconfigured' \in BOOLEAN
    BY <1>1, Zenon
    DEF Step, SetDestroyFunc, SetUserData, TestUserData, DestroyUserData,
        ForgetUserData, StoreUserData, GetUserData, SetConfig, ReplaceConfig,
        EnvVarMissing, GetConfig, Use, AddUrlRule, AddBeforeRequest, RunHooks,
        RunView, FreeCopy, AfterHookError, ReadOnly
<1>2. CASE Serve \/ AppFree \/ UNCHANGED vars
    BY <1>2, Zenon DEF Serve, AppFree, vars
<1> QED
    BY <1>1, <1>2 DEF Next, Over

\* The types, and who holds a lock.
LEMMA TypeStep == IInv /\ [Next]_vars => TypeOK'
<1> SUFFICES ASSUME IInv, [Next]_vars PROVE TypeOK'
    OBVIOUS
<1> USE NullIsNothing DEF IInv
<1>0. destroyFunc' \in BOOLEAN /\ error' \in BOOLEAN /\ reconfigured' \in BOOLEAN
    BY FlagsStep
<1> USE DEF TypeOK, userDataVars, configVars, registered, pointers, Go
<1> DEFINE Others == <<userData, dataLock, configLock, arg, config, pending, given,
                       destroyed, freedCells, setters, fault>>
           Local == <<role, pc, datum, cell>>
<1>a. ASSUME UNCHANGED Local, UNCHANGED Others, phase' \in {phase, "aborted"},
             rules' \in Nat, hooks' \in Nat
      PROVE  TypeOK'
    BY <1>0, <1>a
<1>b. ASSUME NEW t \in Thread, ReadOnly(t) PROVE TypeOK'
    <2>1. UNCHANGED Local /\ UNCHANGED Others /\ rules' = rules /\ hooks' = hooks
          /\ phase' = "aborted"
        BY <1>b DEF ReadOnly
    <2> QED
        BY <1>a, <2>1
<1>1. ASSUME NEW t \in Thread, SetDestroyFunc(t) PROVE TypeOK'
    <2>1. CASE ReadOnly(t)
        BY <1>b, <2>1
    <2>2. CASE ~ReadOnly(t)
        <3>1. UNCHANGED Local /\ UNCHANGED Others /\ rules' = rules /\ hooks' = hooks
              /\ phase' = phase
            BY <1>1, <2>2, Zenon DEF SetDestroyFunc
        <3> QED
            BY <1>a, <3>1
    <2> QED
        BY <2>1, <2>2
<1>2. ASSUME NEW t \in Thread, NEW d \in Datum \cup {Null}, SetUserData(t, d)
      PROVE  TypeOK'
    BY <1>2 DEF SetUserData, MayCall
<1>3. ASSUME NEW t \in Thread, TestUserData(t) PROVE TypeOK'
    BY <1>3 DEF TestUserData, AfterFree
<1>4. ASSUME NEW t \in Thread, DestroyUserData(t) PROVE TypeOK'
    BY <1>4 DEF DestroyUserData, Destruction
<1>5. ASSUME NEW t \in Thread, ForgetUserData(t) PROVE TypeOK'
    BY <1>5 DEF ForgetUserData, AfterFree
<1>6. ASSUME NEW t \in Thread, StoreUserData(t) PROVE TypeOK'
    BY <1>6 DEF StoreUserData
<1>7. ASSUME NEW t \in Thread, GetUserData(t) PROVE TypeOK'
    BY <1>7 DEF GetUserData
<1>8. ASSUME NEW t \in Thread, NEW n \in Name, NEW c \in Cell \cup {Null},
             SetConfig(t, n, c)
      PROVE  TypeOK'
    <2>1. CASE ReadOnly(t)
        BY <1>b, <2>1
    <2>2. CASE ~ReadOnly(t)
        <3>1. /\ configLock' = t /\ pending' = [pending EXCEPT ![t] = <<n, c>>]
              /\ pc' = [pc EXCEPT ![t] = "replace"] /\ pc[t] = "ready"
              /\ configLock = Null
              /\ UNCHANGED <<phase, role, userData, dataLock, arg, config, given,
                    destroyed, freedCells, setters, rules, hooks, datum, cell, fault>>
            BY <1>8, <2>2, Zenon DEF SetConfig, MayCall
        <3> QED
            BY <1>0, <3>1
    <2> QED
        BY <2>1, <2>2
<1>9. ASSUME NEW t \in Thread, ReplaceConfig(t) PROVE TypeOK'
    <2>1. pending[t][1] \in Name /\ pending[t][2] \in Cell \cup {Null}
        BY <1>9 DEF ReplaceConfig, ConfigInv
    <2> QED
        BY <1>9, <2>1 DEF ReplaceConfig
<1>10. ASSUME NEW t \in Thread, EnvVarMissing(t) PROVE TypeOK'
    <2>1. CASE ReadOnly(t)
        BY <1>b, <2>1
    <2>2. CASE ~ReadOnly(t)
        <3>1. /\ UNCHANGED Local /\ UNCHANGED Others /\ phase' = phase
              /\ rules' = rules /\ hooks' = hooks
            BY <1>10, <2>2, Zenon DEF EnvVarMissing
        <3> QED
            BY <1>a, <3>1
    <2> QED
        BY <2>1, <2>2
<1>11. ASSUME NEW t \in Thread, Use(t) PROVE TypeOK'
    BY <1>11 DEF Use
<1>12. ASSUME NEW t \in Thread, NEW n \in Name, GetConfig(t, n) PROVE TypeOK'
    BY <1>12 DEF GetConfig
<1>13. ASSUME NEW t \in Thread, AddUrlRule(t) PROVE TypeOK'
    <2>1. CASE ReadOnly(t)
        BY <1>b, <2>1
    <2>2. CASE ~ReadOnly(t)
        <3>1. /\ UNCHANGED Local /\ UNCHANGED Others /\ phase' = phase
              /\ rules' \in {rules, rules + 1} /\ hooks' = hooks
            BY <1>13, <2>2, Zenon DEF AddUrlRule
        <3> QED
            BY <1>a, <3>1
    <2> QED
        BY <2>1, <2>2
<1>14. ASSUME NEW t \in Thread, AddBeforeRequest(t) PROVE TypeOK'
    <2>1. CASE ReadOnly(t)
        BY <1>b, <2>1
    <2>2. CASE ~ReadOnly(t)
        <3>1. /\ UNCHANGED Local /\ UNCHANGED Others /\ phase' = phase
              /\ rules' = rules /\ hooks' = hooks + 1
            BY <1>14, <2>2, Zenon DEF AddBeforeRequest
        <3> QED
            BY <1>a, <3>1
    <2> QED
        BY <2>1, <2>2
<1>15. ASSUME NEW t \in Thread, RunHooks(t) PROVE TypeOK'
    BY <1>15 DEF RunHooks
<1>16. ASSUME NEW t \in Thread, RunView(t) PROVE TypeOK'
    BY <1>16 DEF RunView
<1>17. ASSUME NEW t \in Thread, FreeCopy(t) PROVE TypeOK'
    BY <1>17 DEF FreeCopy
<1>18. ASSUME NEW t \in Thread, AfterHookError(t) PROVE TypeOK'
    <2>1. /\ UNCHANGED Others /\ pc' = pc /\ phase' = phase
          /\ rules' = rules /\ hooks' = hooks
          /\ role' = [role EXCEPT ![t] = "none"]
          /\ datum' = [datum EXCEPT ![t] = Null] /\ cell' = [cell EXCEPT ![t] = Null]
        BY <1>18, Zenon DEF AfterHookError
    <2> QED
        BY <1>0, <2>1
<1>19. CASE Serve
    BY <1>19 DEF Serve
<1>20. CASE AppFree
    <2>1. /\ phase' = "freed" /\ rules' = 0 /\ hooks' = 0
          /\ UNCHANGED Local
          /\ UNCHANGED <<dataLock, configLock, arg, pending, given, setters>>
          /\ config' = [n \in Name |-> Null]
          /\ freedCells' = freedCells \cup ({config[n] : n \in Name} \ {Null})
        BY <1>20, Zenon DEF AppFree
    <2>2. /\ userData' \in {userData, Null}
          /\ destroyed' \subseteq destroyed \cup {userData}
          /\ destroyed' # destroyed => userData # Null
          /\ fault' \subseteq fault \cup {"destroy_null", "double_destroy"}
        BY <1>20 DEF AppFree, Destruction
    <2> QED
        BY <1>0, <2>1, <2>2
<1>21. CASE UNCHANGED vars
    BY <1>21 DEF vars
<1> QED
    BY <1>1, <1>2, <1>3, <1>4, <1>5, <1>6, <1>7, <1>8, <1>9, <1>10, <1>11, <1>12,
       <1>13, <1>14, <1>15, <1>16, <1>17, <1>18, <1>19, <1>20, <1>21
    DEF Next, Step, Over

\* The user data: the steps that touch it, then all the others.
LEMMA DataStep == IInv /\ [Next]_vars => DataInv'
<1> SUFFICES ASSUME IInv, [Next]_vars PROVE DataInv'
    OBVIOUS
<1> USE NullIsNothing
<1> USE DEF IInv, DataInv
<1>1. ASSUME NEW t \in Thread, NEW d \in Datum \cup {Null}, SetUserData(t, d)
      PROVE  DataInv'
    BY <1>1 DEF SetUserData, TypeOK
<1>2. ASSUME NEW t \in Thread, DestroyUserData(t) PROVE DataInv'
    <2>1. userData \notin destroyed
        BY <1>2 DEF DestroyUserData
    <2>2. "double_destroy" \notin Destruction(userData)
        BY <2>1 DEF Destruction
    <2> QED
        BY <1>2, <2>1, <2>2 DEF DestroyUserData, TypeOK
<1>3. ASSUME NEW t \in Thread, ForgetUserData(t) PROVE DataInv'
    BY <1>3 DEF ForgetUserData, TypeOK
<1>4. ASSUME NEW t \in Thread, StoreUserData(t) PROVE DataInv'
    BY <1>4 DEF StoreUserData, TypeOK
<1>5. CASE AppFree
    <2>1. dataLock = Null
        BY <1>5 DEF AppFree, Idle, TypeOK
    <2>2. "double_destroy" \notin Destruction(userData)
        BY <2>1 DEF Destruction
    <2> QED
        BY <1>5, <2>1, <2>2 DEF AppFree, TypeOK
<1>6. ASSUME UNCHANGED Data, fault' \subseteq fault \cup {"torn_table", "datum_use", "cell_use"}
      PROVE  DataInv'
    BY <1>6 DEF Data
<1> USE DEF userDataVars, Data
<1>7. ASSUME NEW t \in Thread, TestUserData(t) PROVE DataInv'
    BY <1>6, <1>7 DEF TestUserData
<1>8. ASSUME NEW t \in Thread, SetDestroyFunc(t) PROVE DataInv'
    BY <1>6, <1>8 DEF SetDestroyFunc, ReadOnly
<1>9. ASSUME NEW t \in Thread, GetUserData(t) PROVE DataInv'
    BY <1>6, <1>9 DEF GetUserData
<1>10. ASSUME NEW t \in Thread, NEW n \in Name, NEW c \in Cell \cup {Null},
              SetConfig(t, n, c)
       PROVE  DataInv'
    BY <1>6, <1>10 DEF SetConfig, ReadOnly
<1>11. ASSUME NEW t \in Thread, ReplaceConfig(t) PROVE DataInv'
    BY <1>6, <1>11 DEF ReplaceConfig
<1>12. ASSUME NEW t \in Thread, EnvVarMissing(t) PROVE DataInv'
    BY <1>6, <1>12 DEF EnvVarMissing, ReadOnly
<1>13. ASSUME NEW t \in Thread, Use(t) PROVE DataInv'
    BY <1>6, <1>13 DEF Use
<1>14. ASSUME NEW t \in Thread, NEW n \in Name, GetConfig(t, n) PROVE DataInv'
    BY <1>6, <1>14 DEF GetConfig
<1>15. ASSUME NEW t \in Thread, AddUrlRule(t) \/ AddBeforeRequest(t) PROVE DataInv'
    BY <1>6, <1>15 DEF AddUrlRule, AddBeforeRequest, ReadOnly
<1>16. ASSUME NEW t \in Thread,
              RunHooks(t) \/ RunView(t) \/ FreeCopy(t) \/ AfterHookError(t)
       PROVE  DataInv'
    BY <1>6, <1>16 DEF RunHooks, RunView, FreeCopy, AfterHookError
<1>17. CASE Serve \/ UNCHANGED vars
    BY <1>6, <1>17 DEF Serve, vars
<1> QED
    BY <1>1, <1>2, <1>3, <1>4, <1>5, <1>7, <1>8, <1>9, <1>10, <1>11, <1>12, <1>13,
       <1>14, <1>15, <1>16, <1>17
    DEF Next, Step, Over

\* The values of the parameters: the two steps of set_config, and the end.
LEMMA ConfigStep == IInv /\ [Next]_vars => ConfigInv'
<1> SUFFICES ASSUME IInv, [Next]_vars PROVE ConfigInv'
    OBVIOUS
<1> USE NullIsNothing
<1> USE DEF IInv, ConfigInv
<1>1. ASSUME UNCHANGED <<config, freedCells, pending>>,
             \A s \in Thread : pc'[s] = "replace" => pc[s] = "replace"
      PROVE  ConfigInv'
    BY <1>1
<1>2. ASSUME NEW t \in Thread, ReadOnly(t) PROVE ConfigInv'
    BY <1>1, <1>2 DEF ReadOnly, configVars
<1>3. ASSUME NEW t \in Thread, NEW n \in Name, NEW c \in Cell \cup {Null},
             SetConfig(t, n, c)
      PROVE  ConfigInv'
    <2>1. CASE ReadOnly(t)
        BY <1>2, <2>1
    <2>2. CASE ~ReadOnly(t)
        <3>1. /\ c \in (Cell \ ({config[m] : m \in Name} \cup freedCells)) \cup {Null}
              /\ pending' = [pending EXCEPT ![t] = <<n, c>>]
              /\ pc' = [pc EXCEPT ![t] = "replace"]
              /\ UNCHANGED <<config, freedCells>>
            BY <1>3, <2>2, Zenon DEF SetConfig, Go
        <3>2. c \notin freedCells /\ \A m \in Name : config[m] = c => config[m] = Null
            BY <3>1 DEF TypeOK
        <3> QED
            BY <3>1, <3>2 DEF TypeOK
    <2> QED
        BY <2>1, <2>2
<1>4. ASSUME NEW t \in Thread, ReplaceConfig(t) PROVE ConfigInv'
    <2> DEFINE n == pending[t][1]
               c == pending[t][2]
    <2>1. /\ pc[t] = "replace"
          /\ config' = [config EXCEPT ![n] = c]
          /\ freedCells' = freedCells \cup ({config[n]} \ {Null})
          /\ pc' = [pc EXCEPT ![t] = "ready"]
          /\ pending' = [pending EXCEPT ![t] = <<Null, Null>>]
        BY <1>4 DEF ReplaceConfig, Go
    <2>2. n \in Name /\ c \notin freedCells /\ \A m \in Name : config[m] = c => config[m] = Null
        BY <2>1
    <2>3. \A s \in Thread : pc'[s] # "replace"
        BY <2>1 DEF TypeOK
    <2>4. config' \in [Name -> Cell \cup {Null}] /\ \A m \in Name : m # n => config'[m] = config[m]
        BY <2>1, <2>2 DEF TypeOK
    <2>5. config'[n] = c
        BY <2>1, <2>2 DEF TypeOK
    <2>6. c \notin freedCells'
        BY <2>1, <2>2
    <2>7. \A m \in Name : config'[m] \notin freedCells'
        BY <2>1, <2>2, <2>4, <2>5, <2>6 DEF TypeOK
    <2>8. \A m, k \in Name : m # k /\ config'[m] = config'[k] => config'[m] = Null
        BY <2>2, <2>4, <2>5
    <2> QED
        BY <2>3, <2>7, <2>8
<1>5. CASE AppFree
    <2>1. /\ config' = [n \in Name |-> Null]
          /\ freedCells' = freedCells \cup ({config[n] : n \in Name} \ {Null})
          /\ UNCHANGED <<pc, pending>>
          /\ \A t \in Thread : pc[t] = "ready"
        BY <1>5, Zenon DEF AppFree, Idle
    <2> QED
        BY <2>1 DEF TypeOK
<1> USE DEF configVars, Go
<1>6. ASSUME NEW t \in Thread, NEW d \in Datum \cup {Null}, SetUserData(t, d)
      PROVE  ConfigInv'
    BY <1>1, <1>6 DEF SetUserData, TypeOK
<1>7. ASSUME NEW t \in Thread, TestUserData(t) PROVE ConfigInv'
    BY <1>1, <1>7 DEF TestUserData, AfterFree, TypeOK
<1>8. ASSUME NEW t \in Thread, DestroyUserData(t) PROVE ConfigInv'
    BY <1>1, <1>8 DEF DestroyUserData, TypeOK
<1>9. ASSUME NEW t \in Thread, ForgetUserData(t) PROVE ConfigInv'
    BY <1>1, <1>9 DEF ForgetUserData, AfterFree, TypeOK
<1>10. ASSUME NEW t \in Thread, StoreUserData(t) PROVE ConfigInv'
    BY <1>1, <1>10 DEF StoreUserData, TypeOK
<1>11. ASSUME NEW t \in Thread, NEW n \in Name, GetConfig(t, n)
       PROVE  ConfigInv'
    BY <1>1, <1>11 DEF GetConfig
<1>12. ASSUME NEW t \in Thread,
              SetDestroyFunc(t) \/ EnvVarMissing(t) \/ AddUrlRule(t) \/ AddBeforeRequest(t)
       PROVE  ConfigInv'
    <2>1. UNCHANGED <<pc, config, freedCells, pending>>
        BY <1>12, Zenon
        DEF SetDestroyFunc, EnvVarMissing, AddUrlRule, AddBeforeRequest, ReadOnly
    <2> QED
        BY <1>1, <2>1
<1>13. ASSUME NEW t \in Thread,
              RunHooks(t) \/ RunView(t) \/ FreeCopy(t) \/ AfterHookError(t)
       PROVE  ConfigInv'
    <2>1. UNCHANGED <<pc, config, freedCells, pending>>
        BY <1>13, Zenon DEF RunHooks, RunView, FreeCopy, AfterHookError
    <2> QED
        BY <1>1, <2>1
<1>14. CASE Serve \/ UNCHANGED vars
    <2>1. UNCHANGED <<pc, config, freedCells, pending>>
        BY <1>14 DEF Serve, vars
    <2> QED
        BY <1>1, <2>1
<1>15. ASSUME NEW t \in Thread, GetUserData(t) \/ Use(t) PROVE ConfigInv'
    BY <1>1, <1>15 DEF GetUserData, Use
<1> QED
    BY <1>3, <1>4, <1>5, <1>6, <1>7, <1>8, <1>9, <1>10, <1>11, <1>12, <1>13, <1>14, <1>15
    DEF Next, Step, Over

\* The user data the getter gave: as long as nobody sets it, no thread is past the
\* beginning of a call that does.
LEMMA DatumStep == IInv /\ [Next]_vars => DatumValid'
<1> SUFFICES ASSUME IInv, [Next]_vars PROVE DatumValid'
    OBVIOUS
<1> USE NullIsNothing
<1> USE DEF IInv, DatumValid, Touching
<1>1. ASSUME UNCHANGED <<destroyed, setters>>, phase' = phase \/ phase' # "serving",
             \A s \in Thread : pc'[s] \in Touching => pc[s] \in Touching,
             \A s \in Thread : datum'[s] \in {datum[s], Null},
             "datum_use" \in fault' => "datum_use" \in fault
      PROVE  DatumValid'
    BY <1>1 DEF TypeOK
<1>2. ASSUME NEW t \in Thread, pc[t] \in Touching, phase' = phase, setters' = setters,
             "datum_use" \in fault' => "datum_use" \in fault
      PROVE  DatumValid'
    BY <1>2
<1> USE DEF userDataVars, configVars, registered, pointers, Go
<1>3. ASSUME NEW t \in Thread, NEW d \in Datum \cup {Null}, SetUserData(t, d)
      PROVE  DatumValid'
    BY <1>3 DEF SetUserData
<1>4. ASSUME NEW t \in Thread,
             TestUserData(t) \/ DestroyUserData(t) \/ ForgetUserData(t) \/ StoreUserData(t)
      PROVE  DatumValid'
    BY <1>2, <1>4
    DEF TestUserData, DestroyUserData, ForgetUserData, StoreUserData, Destruction
<1>5. ASSUME NEW t \in Thread, GetUserData(t) PROVE DatumValid'
    <2>1. CASE phase = "serving" /\ setters = {}
        <3>1. dataLock = Null
            BY <2>1 DEF TypeOK
        <3>2. userData \notin destroyed
            BY <3>1 DEF DataInv
        <3> QED
            BY <1>5, <2>1, <3>2 DEF GetUserData, TypeOK
    <2>2. CASE ~(phase = "serving" /\ setters = {})
        BY <1>5, <2>2 DEF GetUserData
    <2> QED
        BY <2>1, <2>2
<1>6. ASSUME NEW t \in Thread, Use(t) PROVE DatumValid'
    BY <1>6 DEF Use
<1>7. CASE Serve
    BY <1>7 DEF Serve, TypeOK
<1>8. CASE AppFree
    BY <1>8 DEF AppFree, Destruction
<1>9. ASSUME NEW t \in Thread, ReadOnly(t) PROVE DatumValid'
    BY <1>1, <1>9 DEF ReadOnly
<1>10. ASSUME NEW t \in Thread, NEW n \in Name, NEW c \in Cell \cup {Null},
              SetConfig(t, n, c)
       PROVE  DatumValid'
    <2>1. ReadOnly(t) \/ ( /\ UNCHANGED <<destroyed, setters, phase, datum, fault>>
                          /\ pc' = [pc EXCEPT ![t] = "replace"])
        BY <1>10, Zenon DEF SetConfig
    <2> QED
        BY <1>1, <1>9, <2>1 DEF TypeOK
<1>11. ASSUME NEW t \in Thread, ReplaceConfig(t) PROVE DatumValid'
    BY <1>1, <1>11 DEF ReplaceConfig, TypeOK
<1>12. ASSUME NEW t \in Thread, NEW n \in Name, GetConfig(t, n) PROVE DatumValid'
    BY <1>1, <1>12 DEF GetConfig
<1>13. ASSUME NEW t \in Thread,
              SetDestroyFunc(t) \/ EnvVarMissing(t) \/ AddUrlRule(t) \/ AddBeforeRequest(t)
       PROVE  DatumValid'
    <2>1. ReadOnly(t) \/ UNCHANGED <<destroyed, setters, phase, pc, datum, fault>>
        BY <1>13, Zenon DEF SetDestroyFunc, EnvVarMissing, AddUrlRule, AddBeforeRequest
    <2> QED
        BY <1>1, <1>9, <2>1
<1>14. ASSUME NEW t \in Thread,
              RunHooks(t) \/ RunView(t) \/ FreeCopy(t) \/ AfterHookError(t)
       PROVE  DatumValid'
    <2>1. /\ UNCHANGED <<destroyed, setters, phase, pc, fault>>
          /\ datum' = datum \/ datum' = [datum EXCEPT ![t] = Null]
        BY <1>14, Zenon DEF RunHooks, RunView, FreeCopy, AfterHookError
    <2> QED
        BY <1>1, <2>1 DEF TypeOK
<1>15. CASE UNCHANGED vars
    BY <1>1, <1>15 DEF vars
<1> QED
    BY <1>3, <1>4, <1>5, <1>6, <1>7, <1>8, <1>10, <1>11, <1>12, <1>13, <1>14, <1>15
    DEF Next, Step, Over

\* The value of a parameter: as long as no hook changes one, no thread is in
\* set_config.
LEMMA CellStep == IInv /\ [Next]_vars => CellValid'
<1> SUFFICES ASSUME IInv, [Next]_vars PROVE CellValid'
    OBVIOUS
<1> USE NullIsNothing
<1> USE DEF IInv, CellValid
<1>1. ASSUME freedCells' = freedCells, reconfigured => reconfigured',
             phase' = phase \/ phase' # "serving",
             \A s \in Thread : pc'[s] = "replace" => pc[s] = "replace",
             \A s \in Thread : cell'[s] \in {cell[s], Null},
             fault' \subseteq fault \cup {"destroy_null", "double_destroy"}
      PROVE  CellValid'
    BY <1>1 DEF TypeOK
<1> USE DEF userDataVars, configVars, registered, pointers, Go
<1>2. ASSUME NEW t \in Thread, ReadOnly(t) PROVE CellValid'
    BY <1>1, <1>2 DEF ReadOnly
<1>3. ASSUME NEW t \in Thread, NEW n \in Name, NEW c \in Cell \cup {Null},
             SetConfig(t, n, c)
      PROVE  CellValid'
    <2>1. CASE ReadOnly(t)
        BY <1>2, <2>1
    <2>2. CASE ~ReadOnly(t)
        <3>1. /\ phase' = phase /\ fault' = fault
              /\ reconfigured => reconfigured'
              /\ role[t] = "hook" => reconfigured'
              /\ role[t] # "view"
              /\ phase = "serving" => role[t] # "none"
            BY <1>3, <2>2, Zenon DEF SetConfig, MayCall, Copy
        <3>2. phase = "serving" => reconfigured'
            BY <3>1 DEF TypeOK
        <3> QED
            BY <3>1, <3>2
    <2> QED
        BY <2>1, <2>2
<1>4. ASSUME NEW t \in Thread, ReplaceConfig(t) PROVE CellValid'
    BY <1>4 DEF ReplaceConfig
<1>5. ASSUME NEW t \in Thread, NEW n \in Name, GetConfig(t, n) PROVE CellValid'
    <2>1. configLock # Null => reconfigured
        BY <1>5 DEF GetConfig, MayCall, TypeOK
    <2>2. config[n] \notin freedCells
        BY DEF ConfigInv
    <2> QED
        BY <1>5, <2>1, <2>2 DEF GetConfig, TypeOK
<1>6. ASSUME NEW t \in Thread, Use(t) PROVE CellValid'
    BY <1>6 DEF Use
<1>7. CASE Serve
    BY <1>7 DEF Serve, TypeOK
<1>8. CASE AppFree
    <2>1. /\ phase' = "freed" /\ (reconfigured => reconfigured')
          /\ fault' \subseteq fault \cup {"destroy_null", "double_destroy"}
        BY <1>8 DEF AppFree, Destruction
    <2> QED
        BY <2>1
<1>9. ASSUME NEW t \in Thread, NEW d \in Datum \cup {Null}, SetUserData(t, d)
      PROVE  CellValid'
    BY <1>1, <1>9 DEF SetUserData, TypeOK
<1>10. ASSUME NEW t \in Thread, TestUserData(t) PROVE CellValid'
    BY <1>1, <1>10 DEF TestUserData, AfterFree, TypeOK
<1>11. ASSUME NEW t \in Thread, DestroyUserData(t) PROVE CellValid'
    BY <1>1, <1>11 DEF DestroyUserData, Destruction, TypeOK
<1>12. ASSUME NEW t \in Thread, ForgetUserData(t) PROVE CellValid'
    BY <1>1, <1>12 DEF ForgetUserData, AfterFree, TypeOK
<1>13. ASSUME NEW t \in Thread, StoreUserData(t) PROVE CellValid'
    BY <1>1, <1>13 DEF StoreUserData, TypeOK
<1>14. ASSUME NEW t \in Thread, GetUserData(t) PROVE CellValid'
    BY <1>1, <1>14 DEF GetUserData
<1>15. ASSUME NEW t \in Thread,
              SetDestroyFunc(t) \/ EnvVarMissing(t) \/ AddUrlRule(t) \/ AddBeforeRequest(t)
       PROVE  CellValid'
    <2>1. ReadOnly(t) \/ UNCHANGED <<freedCells, reconfigured, phase, pc, cell, fault>>
        BY <1>15, Zenon DEF SetDestroyFunc, EnvVarMissing, AddUrlRule, AddBeforeRequest
    <2> QED
        BY <1>1, <1>2, <2>1
<1>16. ASSUME NEW t \in Thread,
              RunHooks(t) \/ RunView(t) \/ FreeCopy(t) \/ AfterHookError(t)
       PROVE  CellValid'
    <2>1. /\ UNCHANGED <<freedCells, reconfigured, phase, pc, fault>>
          /\ cell' = cell \/ cell' = [cell EXCEPT ![t] = Null]
        BY <1>16, Zenon DEF RunHooks, RunView, FreeCopy, AfterHookError
    <2> QED
        BY <1>1, <2>1 DEF TypeOK
<1>17. CASE UNCHANGED vars
    BY <1>1, <1>17 DEF vars
<1> QED
    BY <1>3, <1>4, <1>5, <1>6, <1>7, <1>8, <1>9, <1>10, <1>11, <1>12, <1>13, <1>14,
       <1>15, <1>16, <1>17
    DEF Next, Step, Over

-----------------------------------------------------------------------------
\* Nothing is lost: what the first conjunct of NothingLost needs.  A thread has
\* something to set only in a call; what is about to be forgotten was destroyed;
\* and when one thread sets the user data, what it replaces is nothing.
Watched == destroyFunc /\ Cardinality(setters) <= 1
Covered ==
    given \subseteq destroyed \cup
        (IF phase = "freed" THEN {} ELSE {userData} \cup {arg[t] : t \in Thread})
CallInv ==
    /\ IsFiniteSet(setters)
    /\ \A t \in Thread : pc[t] \notin Touching => arg[t] = Null
    /\ \A t \in Thread : pc[t] = "forget" => userData \in destroyed \cup {Null}
    /\ phase = "serving" => \A t \in Thread : pc[t] \in Touching => t \in setters
    /\ phase = "setup" =>
          \A s, t \in Thread : pc[s] \in Touching /\ pc[t] \in Touching => s = t
LossInv ==
    /\ Watched => Covered
    /\ Watched => \A t \in Thread : pc[t] = "set" => userData = Null
    /\ phase = "freed" => \A n \in Name : config[n] = Null

\* What the destroy function is called with: a thread that is about to call it
\* found the user data, and nobody else has taken it away since.
NullInv ==
    /\ Cardinality(setters) <= 1 =>
          \A t \in Thread : pc[t] = "destroy" => userData # Null
    /\ Cardinality(setters) <= 1 => "destroy_null" \notin fault

FullInv == IInv /\ CallInv /\ LossInv /\ NullInv

LEMMA OneSetter ==
    ASSUME NEW S, IsFiniteSet(S), Cardinality(S) <= 1, NEW a \in S, NEW b \in S
    PROVE  a = b
<1> SUFFICES ASSUME a # b PROVE FALSE
    OBVIOUS
<1>1. IsFiniteSet({a}) /\ Cardinality({a}) = 1
    BY FS_Singleton
<1>2. IsFiniteSet({a} \cup {b}) /\ Cardinality({a} \cup {b}) = 2
    <2>1. /\ IsFiniteSet({a} \cup {b})
          /\ Cardinality({a} \cup {b}) = IF b \in {a} THEN Cardinality({a}) ELSE Cardinality({a}) + 1
        BY <1>1, FS_AddElement, Zenon
    <2> QED
        BY <1>1, <2>1
<1>3. Cardinality({a} \cup {b}) <= Cardinality(S)
    BY FS_Subset
<1>4. Cardinality(S) \in Nat
    BY FS_CardinalityType
<1> QED
    BY <1>2, <1>3, <1>4

LEMMA FewerSetters ==
    ASSUME NEW S, NEW a, IsFiniteSet(S), Cardinality(S \cup {a}) <= 1
    PROVE  Cardinality(S) <= 1
<1>1. IsFiniteSet(S \cup {a}) /\ Cardinality(S) <= Cardinality(S \cup {a})
    BY FS_AddElement, FS_Subset
<1>2. Cardinality(S) \in Nat /\ Cardinality(S \cup {a}) \in Nat
    BY <1>1, FS_CardinalityType
<1> QED
    BY <1>1, <1>2

\* One thread at a time is in a call that sets the user data.
LEMMA OneCall ==
    ASSUME CallInv, Cardinality(setters) <= 1, phase \in {"setup", "serving"},
           NEW s \in Thread, NEW t \in Thread, pc[s] \in Touching, pc[t] \in Touching
    PROVE  s = t
<1>1. CASE phase = "setup"
    BY <1>1 DEF CallInv
<1>2. CASE phase = "serving"
    <2>1. s \in setters /\ t \in setters /\ IsFiniteSet(setters) /\ Cardinality(setters) <= 1
        BY <1>2 DEF CallInv
    <2> QED
        BY <2>1, OneSetter
<1> QED
    BY <1>1, <1>2

LEMMA InitFullInv == Init => FullInv
<1> SUFFICES ASSUME Init PROVE FullInv
    OBVIOUS
<1>1. IInv
    BY InitIInv
<1>2. CallInv
    BY FS_EmptySet DEF Init, CallInv, Touching
<1>3. LossInv
    BY DEF Init, LossInv, Covered
<1>4. NullInv
    BY DEF Init, NullInv
<1> QED
    BY <1>1, <1>2, <1>3, <1>4 DEF FullInv

LEMMA LossStep == FullInv /\ [Next]_vars => CallInv' /\ LossInv'
<1> SUFFICES ASSUME FullInv, [Next]_vars PROVE CallInv' /\ LossInv'
    OBVIOUS
<1> USE NullIsNothing
<1> USE DEF FullInv, IInv
<1>0. /\ TypeOK /\ Null \notin given /\ userData \in given \cup {Null}
    BY DEF TypeOK, DataInv
\* The steps that leave the user data alone.
<1>1. ASSUME UNCHANGED <<userData, arg, given, destroyed, setters>>,
             destroyFunc' <=> destroyFunc,
             \A s \in Thread : pc'[s] \in Touching <=> pc[s] \in Touching,
             \A s \in Thread : pc'[s] \in {"set", "forget"} => pc'[s] = pc[s],
             phase # "freed",
             phase' = phase \/ phase' = "aborted"
                \/ (phase' = "serving" /\ \A s \in Thread : pc[s] \notin Touching)
      PROVE  CallInv' /\ LossInv'
    <2>1. Watched' <=> Watched
        BY <1>1 DEF Watched
    <2>2. CallInv'
        BY <1>1 DEF CallInv
    <2>3. Covered => Covered'
        BY <1>1 DEF Covered
    <2>4. phase' # "freed"
        BY <1>1
    <2> QED
        BY <1>1, <2>1, <2>2, <2>3, <2>4 DEF LossInv
<1> USE DEF userDataVars, configVars, registered, pointers, Go
<1>2. ASSUME NEW t \in Thread, phase \in {"setup", "serving"}, ReadOnly(t)
      PROVE  CallInv' /\ LossInv'
    <2>1. /\ UNCHANGED <<userData, arg, given, destroyed, setters, pc, destroyFunc>>
          /\ phase' = "aborted"
        BY <1>2, Zenon DEF ReadOnly
    <2> QED
        BY <1>1, <1>2, <2>1
<1>3. ASSUME NEW t \in Thread, phase \in {"setup", "serving"}, SetDestroyFunc(t)
      PROVE  CallInv' /\ LossInv'
    <2>1. CASE ReadOnly(t)
        BY <1>2, <1>3, <2>1
    <2>2. CASE ~ReadOnly(t)
        <3>1. UNCHANGED <<userData, arg, given, destroyed, setters, pc, phase>> /\ given = {}
            BY <1>3, <2>2, Zenon DEF SetDestroyFunc
        <3>2. CallInv'
            BY <3>1 DEF CallInv
        <3>3. Covered' /\ userData' = Null
            BY <1>0, <3>1 DEF Covered
        <3> QED
            BY <1>3, <3>1, <3>2, <3>3 DEF LossInv
    <2> QED
        BY <2>1, <2>2
<1>4. ASSUME NEW t \in Thread, phase \in {"setup", "serving"},
             NEW d \in Datum \cup {Null}, SetUserData(t, d)
      PROVE  CallInv' /\ LossInv'
    <2>1. /\ pc[t] = "ready" /\ arg[t] = Null
          /\ phase = "setup" => \A s \in Thread \ {t} : pc[s] = "ready"
        BY <1>4 DEF SetUserData, MayCall, CallInv, Touching
    <2>2. /\ arg' = [arg EXCEPT ![t] = d] /\ given' = given \cup ({d} \ {Null})
          /\ pc' = [pc EXCEPT ![t] = "test"]
          /\ setters' = IF phase = "serving" THEN setters \cup {t} ELSE setters
          /\ UNCHANGED <<phase, userData, destroyed>>
        BY <1>4 DEF SetUserData
    <2>3. destroyFunc' = destroyFunc
        BY <1>4, Zenon DEF SetUserData
    <2>4. IsFiniteSet(setters')
        BY <2>2, FS_AddElement DEF CallInv
    <2>5. Watched' => Watched
        BY <2>2, <2>3, FewerSetters DEF Watched, CallInv
    <2>6. CallInv'
        BY <1>0, <2>1, <2>2, <2>4 DEF CallInv, Touching, TypeOK
    <2>7. Covered => Covered'
        BY <1>0, <1>4, <2>1, <2>2 DEF Covered, TypeOK
    <2>8. \A s \in Thread : pc'[s] = "set" => pc[s] = "set"
        BY <1>0, <2>2 DEF TypeOK
    <2> QED
        BY <1>4, <2>2, <2>5, <2>6, <2>7, <2>8 DEF LossInv
<1>5. ASSUME NEW t \in Thread, phase \in {"setup", "serving"}, TestUserData(t)
      PROVE  CallInv' /\ LossInv'
    <2>1. /\ pc[t] = "test"
          /\ UNCHANGED <<phase, userData, arg, given, destroyed, setters>>
        BY <1>5 DEF TestUserData
    <2>2. destroyFunc' = destroyFunc
        BY <1>5, Zenon DEF TestUserData
    <2>3. (Watched' <=> Watched) /\ (Covered => Covered')
        BY <2>1, <2>2 DEF Watched, Covered
    <2>4. CASE destroyFunc /\ userData # Null
        <3>1. pc' = [pc EXCEPT ![t] = "destroy"]
            BY <1>5, <2>4 DEF TestUserData
        <3>2. CallInv'
            BY <1>0, <2>1, <3>1 DEF CallInv, Touching, TypeOK
        <3>3. \A s \in Thread : pc'[s] = "set" => pc[s] = "set"
            BY <1>0, <3>1 DEF TypeOK
        <3> QED
            BY <1>5, <2>1, <2>3, <3>2, <3>3 DEF LossInv
    <2>5. CASE ~(destroyFunc /\ userData # Null)
        <3>1. pc' = [pc EXCEPT ![t] = IF arg[t] # Null THEN "set" ELSE "ready"]
            BY <1>5, <2>5 DEF TestUserData, AfterFree
        <3>2. CallInv'
            BY <1>0, <2>1, <3>1 DEF CallInv, Touching, TypeOK
        <3>3. Watched => userData = Null
            BY <2>5 DEF Watched
        <3> QED
            BY <1>5, <2>1, <2>3, <3>2, <3>3 DEF LossInv
    <2> QED
        BY <2>4, <2>5
<1>6. ASSUME NEW t \in Thread, phase \in {"setup", "serving"}, DestroyUserData(t)
      PROVE  CallInv' /\ LossInv'
    <2>1. /\ pc[t] = "destroy" /\ pc' = [pc EXCEPT ![t] = "forget"]
          /\ destroyed' = destroyed \cup ({userData} \ {Null})
          /\ UNCHANGED <<phase, userData, arg, given, setters>>
        BY <1>6 DEF DestroyUserData
    <2>2. destroyFunc' = destroyFunc
        BY <1>6, Zenon DEF DestroyUserData
    <2>3. (Watched' <=> Watched) /\ (Covered => Covered')
        BY <2>1, <2>2 DEF Watched, Covered
    <2>4. CallInv'
        BY <1>0, <2>1 DEF CallInv, Touching, TypeOK
    <2>5. \A s \in Thread : pc'[s] = "set" => pc[s] = "set"
        BY <1>0, <2>1 DEF TypeOK
    <2> QED
        BY <1>6, <2>1, <2>3, <2>4, <2>5 DEF LossInv
<1>7. ASSUME NEW t \in Thread, phase \in {"setup", "serving"}, ForgetUserData(t)
      PROVE  CallInv' /\ LossInv'
    <2>1. /\ pc[t] = "forget"
          /\ pc' = [pc EXCEPT ![t] = IF arg[t] # Null THEN "set" ELSE "ready"]
          /\ userData' = Null
          /\ UNCHANGED <<phase, destroyed, arg, given, setters>>
        BY <1>7 DEF ForgetUserData, AfterFree
    <2>2. destroyFunc' = destroyFunc
        BY <1>7, Zenon DEF ForgetUserData
    <2>3. userData \in destroyed \cup {Null}
        BY <2>1 DEF CallInv
    <2>4. (Watched' <=> Watched) /\ (Covered => Covered')
        BY <1>0, <2>1, <2>2, <2>3 DEF Watched, Covered
    <2>5. CallInv'
        BY <1>0, <2>1 DEF CallInv, Touching, TypeOK
    <2> QED
        BY <1>7, <2>1, <2>4, <2>5 DEF LossInv
<1>8. ASSUME NEW t \in Thread, phase \in {"setup", "serving"}, StoreUserData(t)
      PROVE  CallInv' /\ LossInv'
    <2>1. /\ pc[t] = "set" /\ dataLock = Null
          /\ pc' = [pc EXCEPT ![t] = "ready"]
          /\ userData' = arg[t] /\ arg' = [arg EXCEPT ![t] = Null]
          /\ UNCHANGED <<phase, destroyed, given, setters>>
        BY <1>8 DEF StoreUserData
    <2>2. destroyFunc' = destroyFunc
        BY <1>8, Zenon DEF StoreUserData
    <2>3. Watched' <=> Watched
        BY <2>1, <2>2 DEF Watched
    <2>4. \A s \in Thread : pc[s] # "forget"
        BY <1>0, <2>1 DEF TypeOK
    <2>5. CallInv'
        BY <1>0, <2>1, <2>4 DEF CallInv, Touching, TypeOK
    <2>6. Watched => userData = Null
        BY <2>1 DEF LossInv
    <2>7. Watched => Covered'
        BY <1>0, <1>8, <2>1, <2>6 DEF LossInv, Covered, TypeOK
    <2>8. Watched => \A s \in Thread : pc'[s] # "set"
        BY <1>0, <1>8, <2>1, OneCall DEF Touching, TypeOK, Watched
    <2> QED
        BY <1>8, <2>1, <2>3, <2>5, <2>7, <2>8 DEF LossInv
<1>9. CASE AppFree
    <2>1. /\ \A s \in Thread : pc[s] = "ready"
          /\ phase = "serving" /\ phase' = "freed" /\ config' = [n \in Name |-> Null]
          /\ UNCHANGED <<pc, arg, given, setters>>
        BY <1>9, Zenon DEF AppFree, Idle
    <2>2. destroyFunc' = destroyFunc
        BY <1>9, Zenon DEF AppFree
    <2>3. \A s \in Thread : arg[s] = Null
        BY <2>1 DEF CallInv, Touching
    <2>4. CallInv'
        BY <2>1, <2>3 DEF CallInv, Touching
    <2>5. Watched' <=> Watched
        BY <2>1, <2>2 DEF Watched
    <2>6. Watched => Covered'
        <3> SUFFICES ASSUME Watched PROVE given \subseteq destroyed'
            BY <2>1 DEF Covered
        <3>1. given \subseteq destroyed \cup {userData, Null}
            BY <2>1, <2>3 DEF LossInv, Covered
        <3>2. CASE userData = Null
            <4>1. destroyed' = destroyed
                BY <1>9, <3>2 DEF AppFree
            <4> QED
                BY <1>0, <3>1, <3>2, <4>1
        <3>3. CASE userData # Null
            <4>1. destroyed' = destroyed \cup {userData}
                BY <1>9, <3>3 DEF AppFree, Watched
            <4> QED
                BY <1>0, <3>1, <4>1
        <3> QED
            BY <3>2, <3>3
    <2> QED
        BY <2>1, <2>4, <2>5, <2>6 DEF LossInv
<1>10. CASE Serve
    <2>1. /\ UNCHANGED <<userData, arg, given, destroyed, setters, pc, destroyFunc>>
          /\ \A s \in Thread : pc[s] = "ready"
          /\ phase = "setup" /\ phase' = "serving"
        BY <1>10, Zenon DEF Serve
    <2> QED
        BY <1>1, <2>1 DEF Touching
<1>11. ASSUME NEW t \in Thread, phase \in {"setup", "serving"},
              NEW n \in Name, NEW c \in Cell \cup {Null}, SetConfig(t, n, c)
       PROVE  CallInv' /\ LossInv'
    <2>1. ReadOnly(t) \/
          ( /\ UNCHANGED <<userData, arg, given, destroyed, setters, phase, destroyFunc>>
            /\ pc[t] = "ready" /\ pc' = [pc EXCEPT ![t] = "replace"])
        BY <1>11, Zenon DEF SetConfig, MayCall
    <2> QED
        BY <1>0, <1>1, <1>2, <1>11, <2>1 DEF TypeOK, Touching
<1>12. ASSUME NEW t \in Thread, phase \in {"setup", "serving"}, ReplaceConfig(t)
       PROVE  CallInv' /\ LossInv'
    <2>1. /\ UNCHANGED <<userData, arg, given, destroyed, setters, phase, destroyFunc>>
          /\ pc[t] = "replace" /\ pc' = [pc EXCEPT ![t] = "ready"]
        BY <1>12, Zenon DEF ReplaceConfig
    <2> QED
        BY <1>0, <1>1, <1>12, <2>1 DEF TypeOK, Touching
<1>13. ASSUME NEW t \in Thread, phase \in {"setup", "serving"}, NEW n \in Name, GetConfig(t, n)
       PROVE  CallInv' /\ LossInv'
    <2>1. UNCHANGED <<userData, arg, given, destroyed, setters, phase, destroyFunc, pc>>
        BY <1>13, Zenon DEF GetConfig
    <2> QED
        BY <1>1, <1>13, <2>1
<1>14. ASSUME NEW t \in Thread, phase \in {"setup", "serving"},
              EnvVarMissing(t) \/ AddUrlRule(t) \/ AddBeforeRequest(t)
       PROVE  CallInv' /\ LossInv'
    <2>1. ReadOnly(t) \/
          UNCHANGED <<userData, arg, given, destroyed, setters, phase, destroyFunc, pc>>
        BY <1>14, Zenon DEF EnvVarMissing, AddUrlRule, AddBeforeRequest
    <2> QED
        BY <1>1, <1>2, <1>14, <2>1
<1>15. ASSUME NEW t \in Thread, phase \in {"setup", "serving"},
              GetUserData(t) \/ Use(t) \/ RunHooks(t) \/ RunView(t)
                \/ FreeCopy(t) \/ AfterHookError(t)
       PROVE  CallInv' /\ LossInv'
    <2>1. UNCHANGED <<userData, arg, given, destroyed, setters, phase, destroyFunc, pc>>
        BY <1>15, Zenon
        DEF GetUserData, Use, RunHooks, RunView, FreeCopy, AfterHookError
    <2> QED
        BY <1>1, <1>15, <2>1
<1>16. CASE UNCHANGED vars
    <2>1. UNCHANGED <<userData, arg, given, destroyed, setters, phase, destroyFunc, pc, config>>
        BY <1>16, Zenon DEF vars
    <2>2. (Watched' <=> Watched) /\ (Covered' <=> Covered)
        BY <2>1 DEF Watched, Covered
    <2> QED
        BY <2>1, <2>2 DEF CallInv, LossInv
<1> QED
    BY <1>3, <1>4, <1>5, <1>6, <1>7, <1>8, <1>9, <1>10, <1>11, <1>12, <1>13, <1>14, <1>15,
       <1>16
    DEF Next, Step, Over

LEMMA NullStep == FullInv /\ [Next]_vars => NullInv'
<1> SUFFICES ASSUME FullInv, [Next]_vars PROVE NullInv'
    OBVIOUS
<1> USE NullIsNothing
<1>0. /\ TypeOK /\ CallInv /\ NullInv
      /\ userData \in given \cup {Null}
    BY DEF FullInv, IInv, DataInv
\* The steps that leave the user data alone.
<1>1. ASSUME UNCHANGED <<userData, setters>>,
             \A s \in Thread : pc'[s] = "destroy" => pc[s] = "destroy",
             fault' \subseteq fault \cup {"torn_table", "datum_use", "cell_use"}
      PROVE  NullInv'
    BY <1>0, <1>1 DEF NullInv
<1> USE DEF userDataVars, configVars, registered, pointers, Go
<1>2. ASSUME NEW t \in Thread, NEW d \in Datum \cup {Null}, SetUserData(t, d)
      PROVE  NullInv'
    <2>1. /\ pc' = [pc EXCEPT ![t] = "test"] /\ UNCHANGED <<userData, fault>>
          /\ setters' = setters \/ setters' = setters \cup {t}
        BY <1>2 DEF SetUserData
    <2>2. Cardinality(setters') <= 1 => Cardinality(setters) <= 1
        BY <1>0, <2>1, FewerSetters DEF CallInv
    <2> QED
        BY <1>0, <2>1, <2>2 DEF NullInv, TypeOK
<1>3. ASSUME NEW t \in Thread, TestUserData(t) PROVE NullInv'
    <2>1. CASE userData # Null
        BY <1>0, <1>3, <2>1 DEF TestUserData, NullInv
    <2>2. CASE userData = Null
        <3>1. /\ pc' = [pc EXCEPT ![t] = IF arg[t] # Null THEN "set" ELSE "ready"]
              /\ UNCHANGED <<userData, setters, fault>>
            BY <1>3, <2>2 DEF TestUserData, AfterFree
        <3> QED
            BY <1>0, <1>1, <3>1 DEF TypeOK
    <2> QED
        BY <2>1, <2>2
<1>4. ASSUME NEW t \in Thread, DestroyUserData(t) PROVE NullInv'
    <2>1. /\ pc[t] = "destroy" /\ pc' = [pc EXCEPT ![t] = "forget"]
          /\ fault' = fault \cup Destruction(userData)
          /\ UNCHANGED <<userData, setters>>
        BY <1>4 DEF DestroyUserData
    <2>2. userData # Null => "destroy_null" \notin Destruction(userData)
        BY DEF Destruction
    <2> QED
        BY <1>0, <2>1, <2>2 DEF NullInv, TypeOK
<1>5. ASSUME NEW t \in Thread, phase \in {"setup", "serving"},
             ForgetUserData(t) \/ StoreUserData(t)
      PROVE  NullInv'
    <2>1. /\ pc[t] \in Touching /\ pc[t] # "destroy"
          /\ pc' = [pc EXCEPT ![t] = IF pc[t] = "forget" /\ arg[t] # Null
                                     THEN "set" ELSE "ready"]
          /\ UNCHANGED <<setters, fault>>
        BY <1>5 DEF ForgetUserData, StoreUserData, AfterFree, Touching
    <2>2. Cardinality(setters) <= 1 => \A s \in Thread : pc[s] # "destroy"
        BY <1>0, <1>5, <2>1, OneCall DEF Touching
    <2> QED
        BY <1>0, <2>1, <2>2 DEF NullInv, TypeOK
<1>6. CASE AppFree
    <2>1. /\ \A s \in Thread : pc[s] = "ready"
          /\ UNCHANGED <<pc, setters>>
        BY <1>6 DEF AppFree, Idle
    <2>2. fault' = fault \/ (userData # Null /\ fault' = fault \cup Destruction(userData))
        BY <1>6, Zenon DEF AppFree
    <2>3. "destroy_null" \in fault' => "destroy_null" \in fault
        BY <2>2 DEF Destruction
    <2> QED
        BY <1>0, <2>1, <2>3 DEF NullInv
<1>7. ASSUME NEW t \in Thread, NEW n \in Name, NEW c \in Cell \cup {Null},
             SetConfig(t, n, c)
      PROVE  NullInv'
    <2>1. /\ UNCHANGED <<userData, setters, fault>>
          /\ pc' = pc \/ pc' = [pc EXCEPT ![t] = "replace"]
        BY <1>7, Zenon DEF SetConfig, ReadOnly
    <2> QED
        BY <1>0, <1>1, <2>1 DEF TypeOK
<1>8. ASSUME NEW t \in Thread, ReplaceConfig(t) PROVE NullInv'
    <2>1. /\ UNCHANGED <<userData, setters, fault>>
          /\ pc' = [pc EXCEPT ![t] = "ready"]
        BY <1>8, Zenon DEF ReplaceConfig
    <2> QED
        BY <1>0, <1>1, <2>1 DEF TypeOK
<1>9. ASSUME NEW t \in Thread,
             \/ GetUserData(t) \/ EnvVarMissing(t) \/ Use(t)
             \/ \E n \in Name : GetConfig(t, n)
      PROVE  NullInv'
    <2>1. /\ UNCHANGED <<userData, setters, pc>>
          /\ fault' \subseteq fault \cup {"torn_table", "datum_use", "cell_use"}
        BY <1>9 DEF GetUserData, EnvVarMissing, Use, GetConfig, ReadOnly
    <2> QED
        BY <1>1, <2>1
<1>10. ASSUME NEW t \in Thread,
              \/ SetDestroyFunc(t) \/ AddUrlRule(t) \/ AddBeforeRequest(t)
              \/ RunHooks(t) \/ RunView(t) \/ FreeCopy(t) \/ AfterHookError(t)
       PROVE  NullInv'
    <2>1. UNCHANGED <<userData, setters, pc, fault>>
        BY <1>10, Zenon
        DEF SetDestroyFunc, AddUrlRule, AddBeforeRequest, ReadOnly, RunHooks, RunView,
            FreeCopy, AfterHookError
    <2> QED
        BY <1>1, <2>1
<1>11. CASE Serve \/ UNCHANGED vars
    <2>1. UNCHANGED <<userData, setters, pc, fault>>
        BY <1>11, Zenon DEF Serve, vars
    <2> QED
        BY <1>1, <2>1
<1> QED
    BY <1>2, <1>3, <1>4, <1>5, <1>6, <1>7, <1>8, <1>9, <1>10, <1>11 DEF Next, Step, Over

-----------------------------------------------------------------------------
LEMMA Invariant == Spec => []FullInv
<1>1. FullInv /\ [Next]_vars => FullInv'
    BY TypeStep, DataStep, ConfigStep, DatumStep, CellStep, LossStep, NullStep
    DEF FullInv, IInv
<1> QED
    BY InitFullInv, <1>1, PTL DEF Spec

(* The types of the context and of the threads, and that a lock is held by *)
(* the thread in its critical section (app.c:116-193).                     *)
THEOREM TypeCorrect == Spec => []TypeOK
<1>1. FullInv => TypeOK
    BY DEF FullInv, IInv
<1> QED
    BY Invariant, <1>1, PTL

(* However many threads set and free the user data, no datum is destroyed  *)
(* twice, and if one does, NULL is never destroyed (app.c:184-193).        *)
THEOREM DataDestroyedOnce == Spec => []DestroyedOnce
<1>1. FullInv => DestroyedOnce
    BY DEF FullInv, IInv, DataInv, NullInv, DestroyedOnce
<1> QED
    BY Invariant, <1>1, PTL

(* A datum is stale only if a thread set the user data while the           *)
(* application served, a value of a parameter only if a hook did           *)
(* (app.c:145-173).                                                        *)
THEOREM PointersStayValid == Spec => []PointersValid
<1>1. FullInv => PointersValid
    BY DEF FullInv, IInv, DatumValid, CellValid, PointersValid
<1> QED
    BY Invariant, <1>1, PTL

(* With a destroy function and one thread that sets the user data while    *)
(* the application serves, every datum is destroyed in the end             *)
(* (app.c:157-220).                                                        *)
THEOREM NoDatumLost == Spec => []NothingLost
<1>1. FullInv => NothingLost
    BY DEF FullInv, LossInv, Watched, Covered, NothingLost
<1> QED
    BY Invariant, <1>1, PTL
=============================================================================
