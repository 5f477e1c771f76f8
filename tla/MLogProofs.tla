----------------------------- MODULE MLogProofs -----------------------------
(***************************************************************************)
(* Proofs about the loggers, for any number of worker threads, loggers and *)
(* calls, whether or not the main thread configures loggers quietly.       *)
(***************************************************************************)
EXTENDS MLog, FiniteSetTheorems, TLAPS

\* The places of mlogf at which the mutex is held.
Inside == {"find", "severity", "callback", "call", "time", "type", "assert", "write", "unlock"}

\* The types the proof needs.
LogTypes ==
    /\ next_handle \in Nat
    /\ mloggers \subseteq 0 .. next_handle - 1
    /\ IsFiniteSet(mloggers)
    /\ freed \subseteq 0 .. next_handle - 1
    /\ nloggers \in Int
    /\ g_handle \in Int
    /\ pc \in [Workers -> Inside \cup {"idle", "lock"}]
    /\ msg \in [Workers -> [handle : Int, severity : Int]]
    /\ logging_mutex \in Workers \cup {NULL}

\* A worker inside mlogf holds the mutex, and the logger it found is in the
\* list; a listed logger is not freed; and the logger shutdown_mlogger is about
\* to free is in the list no more.  NoUseAfterFree follows.
LogInv ==
    /\ \A w \in Workers : pc[w] \in Inside <=> logging_mutex = w
    /\ \A w \in Workers : HoldsLogger(w) => msg[w].handle \in mloggers
    /\ mloggers \cap freed = {}
    /\ main.op = "shutdown" => main.h \in (0 .. next_handle - 1) \ mloggers

LInv == LogTypes /\ LogInv /\ CountInv

\* The program starts without loggers.
LEMMA InitLInv == Init => LInv
<1> SUFFICES ASSUME Init PROVE LInv
  OBVIOUS
<1>1. IsFiniteSet(mloggers) /\ Cardinality(mloggers) = 0
  BY FS_EmptySet DEF Init
<1>2. LogTypes
  BY <1>1 DEF Init, LogTypes, NoMessage
<1>3. LogInv
  BY LogConstants DEF Init, LogInv, Inside, HoldsLogger, Idle
<1>4. CountInv
  BY <1>1 DEF Init, CountInv, Idle
<1> QED
  BY <1>2, <1>3, <1>4 DEF LInv

\* The setters touch nothing the invariant is about.
LEMMA SetterLInv ==
    ASSUME LInv, UNCHANGED <<mloggers, freed, next_handle, nloggers, g_handle, logging_mutex, pc, msg>>,
           main.op # "shutdown", main'.op # "shutdown"
    PROVE  LInv'
<1>1. LogTypes' /\ LogInv' /\ CountInv'
  BY DEF LInv, LogTypes, LogInv, HoldsLogger, CountInv
<1> QED
  BY <1>1 DEF LInv

\* A step of a worker inside mlogf that leaves list and counters alone.
LEMMA WorkerLInv ==
    ASSUME LInv, NEW w \in Workers, MlogStep(w)
    PROVE  LInv'
<1> USE DEF To
<1>0. LogTypes /\ LogInv /\ CountInv
  BY DEF LInv
<1>1. UNCHANGED <<mloggers, freed, next_handle, nloggers, g_handle, main>>
  BY DEF MlogStep, MlogLock, MlogFind, CheckSeverity, CheckCallback, CallCallback,
         FormatTime, CheckType, AssertLogfile, Write, MlogUnlock, state
<1>2. CountInv'
  BY <1>0, <1>1 DEF CountInv
<1>3. CASE MlogLock(w)
  <2>1. LogTypes'
    BY <1>0, <1>1, <1>3 DEF MlogLock, LogTypes, Inside
  <2>2. LogInv'
    BY <1>0, <1>1, <1>3, LogConstants DEF MlogLock, LogTypes, LogInv, Inside, HoldsLogger
  <2> QED
    BY <1>2, <2>1, <2>2 DEF LInv
<1>4. CASE MlogFind(w)
  <2>1. LogTypes'
    BY <1>0, <1>1, <1>4 DEF MlogFind, LogTypes, Inside
  <2>2. LogInv'
    BY <1>0, <1>1, <1>4 DEF MlogFind, LogTypes, LogInv, Inside, HoldsLogger
  <2> QED
    BY <1>2, <2>1, <2>2 DEF LInv
<1>5. CASE MlogUnlock(w)
  <2>1. LogTypes'
    BY <1>0, <1>1, <1>5 DEF MlogUnlock, LogTypes, NoMessage
  <2>2. LogInv'
    BY <1>0, <1>1, <1>5, LogConstants DEF MlogUnlock, LogTypes, LogInv, Inside, HoldsLogger
  <2> QED
    BY <1>2, <2>1, <2>2 DEF LInv
<1>6. CASE \/ CheckSeverity(w) \/ CheckCallback(w) \/ CallCallback(w) \/ FormatTime(w)
           \/ CheckType(w) \/ AssertLogfile(w) \/ Write(w)
  <2>1. /\ HoldsLogger(w) /\ UNCHANGED <<logging_mutex, msg>>
        /\ \E l \in Inside : pc' = [pc EXCEPT ![w] = l]
    <3>1. pc' = pc => pc' = [pc EXCEPT ![w] = pc[w]]
      BY <1>0 DEF LogTypes
    <3>2. HoldsLogger(w) /\ pc[w] \in Inside /\ UNCHANGED <<logging_mutex, msg>>
      BY <1>6 DEF CheckSeverity, CheckCallback, CallCallback, FormatTime,
                  CheckType, AssertLogfile, Write, Inside, HoldsLogger
    <3>3. pc' = pc \/ \E l \in Inside : pc' = [pc EXCEPT ![w] = l]
      BY <1>6 DEF CheckSeverity, CheckCallback, CallCallback, FormatTime,
                  CheckType, AssertLogfile, Write, Inside
    <3> QED
      BY <3>1, <3>2, <3>3
  <2>2. LogTypes'
    BY <1>0, <1>1, <2>1 DEF LogTypes
  <2>3. LogInv'
    BY <1>0, <1>1, <2>1 DEF LogTypes, LogInv, Inside, HoldsLogger
  <2> QED
    BY <1>2, <2>2, <2>3 DEF LInv
<1> QED
  BY <1>3, <1>4, <1>5, <1>6 DEF MlogStep

\* The invariant is inductive.
LEMMA NextLInv == LInv /\ [Next]_vars => LInv'
<1> SUFFICES ASSUME LInv, [Next]_vars PROVE LInv'
  OBVIOUS
<1>0. LogTypes /\ LogInv /\ CountInv
  BY DEF LInv
<1>1. CASE Create
  <2>1. PICK type, severity, time : get_mlogger(type, severity, time)
    BY <1>1 DEF Create
  <2>2. /\ main = Idle /\ logging_mutex = NULL /\ next_handle' = next_handle + 1
        /\ mloggers' = mloggers \cup {next_handle} /\ nloggers' = nloggers + 1
        /\ g_handle' = IF g_handle < 0 THEN 0 ELSE g_handle
        /\ UNCHANGED <<freed, logging_mutex, pc, msg, main>>
    BY <2>1 DEF get_mlogger, DefaultHandle, worker
  <2>3. IsFiniteSet(mloggers') /\ Cardinality(mloggers') = Cardinality(mloggers) + 1
        /\ Cardinality(mloggers) \in Nat
    <3>1. next_handle \notin mloggers
      BY <1>0 DEF LogTypes
    <3> QED
      BY <1>0, <2>2, <3>1, FS_AddElement, FS_CardinalityType DEF LogTypes
  <2>4. LogTypes'
    BY <1>0, <2>2, <2>3 DEF LogTypes
  <2>5. LogInv'
    <3>1. mloggers' \cap freed' = {}
      <4>1. next_handle \notin freed
        BY <1>0 DEF LogTypes
      <4> QED
        BY <1>0, <2>2, <4>1 DEF LogInv
    <3>2. \A w \in Workers : /\ (pc[w] \in Inside <=> logging_mutex = w)'
                             /\ (HoldsLogger(w) => msg[w].handle \in mloggers)'
      BY <1>0, <2>2 DEF LogInv, HoldsLogger
    <3>3. main'.op # "shutdown"
      BY <2>2 DEF Idle
    <3> QED
      BY <3>1, <3>2, <3>3 DEF LogInv
  <2>6. CountInv'
    BY <1>0, <2>2, <2>3 DEF LogTypes, CountInv, Idle
  <2> QED
    BY <2>4, <2>5, <2>6 DEF LInv
<1>2. CASE Configure
  BY <1>2, SetterLInv DEF Configure, SetTypeBegin, setloggertime, setloggersev,
                          RegisterCallback, MayConfigure, Idle, worker
<1>3. CASE SetTypeFile \/ SetTypeFail \/ RegisterData
  <2>1. CASE SetTypeFile
    <3>1. /\ main.op # "shutdown" /\ main'.op # "shutdown"
          /\ UNCHANGED <<mloggers, freed, next_handle, nloggers, g_handle, logging_mutex, pc, msg>>
      BY <2>1 DEF SetTypeFile, Idle, worker
    <3> QED
      BY <3>1, SetterLInv
  <2>2. CASE SetTypeFail
    BY <2>2, SetterLInv DEF SetTypeFail, Idle, worker
  <2>3. CASE RegisterData
    BY <2>3, SetterLInv DEF RegisterData, Idle, worker
  <2> QED
    BY <1>3, <2>1, <2>2, <2>3
<1>4. CASE ShutdownFree
  <2>1. /\ main.op = "shutdown" /\ main' = Idle /\ nloggers' = nloggers - 1
        /\ freed' = freed \cup {main.h}
        /\ g_handle' = IF nloggers - 1 = 0 THEN -1 ELSE g_handle
        /\ UNCHANGED <<mloggers, next_handle, logging_mutex, pc, msg>>
    BY <1>4 DEF ShutdownFree, worker
  <2>2. Cardinality(mloggers) \in Nat
    BY <1>0, FS_CardinalityType DEF LogTypes
  <2>3. LogTypes'
    <3>1. freed' \subseteq 0 .. next_handle' - 1
      BY <1>0, <2>1 DEF LogTypes, LogInv
    <3>2. nloggers' \in Int /\ g_handle' \in Int
      BY <1>0, <2>1 DEF LogTypes
    <3> QED
      BY <1>0, <2>1, <3>1, <3>2 DEF LogTypes
  <2>4. LogInv'
    BY <1>0, <2>1 DEF LogTypes, LogInv, HoldsLogger, Idle
  <2>5. CountInv'
    BY <1>0, <2>1, <2>2 DEF LogTypes, CountInv, Idle
  <2> QED
    BY <2>3, <2>4, <2>5 DEF LInv
<1>5. ASSUME NEW h \in Handles, ShutdownRemove(h)
      PROVE  LInv'
  <2>1. /\ main = Idle /\ logging_mutex = NULL /\ h \in mloggers /\ mloggers' = mloggers \ {h}
        /\ main'.op = "shutdown" /\ main'.h = h
        /\ UNCHANGED <<freed, next_handle, nloggers, g_handle, logging_mutex, pc, msg>>
    BY <1>5 DEF ShutdownRemove, worker
  <2>2. IsFiniteSet(mloggers') /\ Cardinality(mloggers') = Cardinality(mloggers) - 1
        /\ Cardinality(mloggers) \in Nat
    BY <1>0, <2>1, FS_RemoveElement, FS_CardinalityType DEF LogTypes
  <2>3. LogTypes'
    BY <1>0, <2>1, <2>2 DEF LogTypes
  <2>4. LogInv'
    <3>1. \A w \in Workers : ~HoldsLogger(w)
      BY <1>0, <2>1, LogConstants DEF LogInv, HoldsLogger, Inside
    <3> QED
      BY <1>0, <2>1, <3>1 DEF LogTypes, LogInv, HoldsLogger
  <2>5. CountInv'
    BY <1>0, <2>1, <2>2 DEF LogTypes, CountInv, Idle
  <2> QED
    BY <2>3, <2>4, <2>5 DEF LInv
<1>6. CASE shutdown_all_mloggers
  <2>1. /\ main = Idle /\ logging_mutex = NULL /\ mloggers' = {} /\ g_handle' = -1
        /\ freed' = freed \cup mloggers /\ nloggers' = nloggers - Cardinality(mloggers)
        /\ UNCHANGED <<next_handle, logging_mutex, pc, msg, main>>
    BY <1>6 DEF shutdown_all_mloggers, worker
  <2>2. IsFiniteSet(mloggers') /\ Cardinality(mloggers') = 0 /\ Cardinality(mloggers) \in Nat
    BY <1>0, <2>1, FS_EmptySet, FS_CardinalityType DEF LogTypes
  <2>3. LogTypes'
    BY <1>0, <2>1, <2>2 DEF LogTypes
  <2>4. LogInv'
    <3>1. \A w \in Workers : ~HoldsLogger(w)
      BY <1>0, <2>1, LogConstants DEF LogInv, HoldsLogger, Inside
    <3> QED
      BY <1>0, <2>1, <3>1 DEF LogTypes, LogInv, HoldsLogger, Idle
  <2>5. CountInv'
    BY <1>0, <2>1, <2>2 DEF LogTypes, CountInv, Idle
  <2> QED
    BY <2>3, <2>4, <2>5 DEF LInv
<1>7. CASE Message
  <2>1. PICK w \in Workers, severity \in Severities, handle \in {g_handle} \cup Handles :
             mlogf(w, handle, severity)
    BY <1>7 DEF Message
  <2>2. /\ msg' = [msg EXCEPT ![w] = [handle |-> handle, severity |-> severity]]
        /\ pc[w] = "idle" /\ pc' = [pc EXCEPT ![w] = "lock"]
        /\ UNCHANGED <<mloggers, freed, next_handle, nloggers, g_handle, logging_mutex, main>>
    BY <2>1 DEF mlogf, state, To
  <2>3. handle \in Int /\ severity \in Int
    BY <1>0, <2>1, LogConstants DEF LogTypes, Handles
  <2>4. LogTypes'
    BY <1>0, <2>2, <2>3 DEF LogTypes
  <2>5. LogInv'
    BY <1>0, <2>2 DEF LogTypes, LogInv, HoldsLogger, Inside
  <2>6. CountInv'
    BY <1>0, <2>2 DEF CountInv
  <2> QED
    BY <2>4, <2>5, <2>6 DEF LInv
<1>8. ASSUME NEW w \in Workers, MlogStep(w)
      PROVE  LInv'
  BY <1>8, WorkerLInv
<1>9. CASE UNCHANGED vars
  <2>1. LogTypes' /\ LogInv' /\ CountInv'
    BY <1>0, <1>9 DEF vars, LogTypes, LogInv, HoldsLogger, CountInv
  <2> QED
    BY <2>1 DEF LInv
<1> QED
  BY <1>1, <1>2, <1>3, <1>4, <1>5, <1>6, <1>7, <1>8, <1>9 DEF Next, MainStep, Shutdown, Ended

\* No worker reads a freed logger, in any instance and with any use of the
\* setters.
THEOREM LoggersNotUsedAfterFree == Spec => []NoUseAfterFree
<1>1. LInv => NoUseAfterFree
  BY DEF LInv, LogInv, NoUseAfterFree
<1> QED
  BY <1>1, InitLInv, NextLInv, PTL DEF Spec

\* The count of loggers is right, and the default handle is unset exactly when
\* there are none: the assertion of shutdown_all_mloggers cannot fail.
THEOREM LoggersCounted == Spec => []CountInv
<1>1. LInv => CountInv
  BY DEF LInv
<1> QED
  BY <1>1, InitLInv, NextLInv, PTL DEF Spec

-----------------------------------------------------------------------------
(***************************************************************************)
(* The shape of the state, whatever the setters are used for.              *)
(***************************************************************************)
\* The setter the main thread is inside of has a logger that was given out, and
\* a type or a callback it may write.
SetterTypes ==
    /\ main.op \in {"settype", "settype_fail", "register"} => main.h \in 0 .. next_handle - 1
    /\ main.op = "settype" => main.type \in Types
    /\ main.op = "register" => main.c \in Clients \cup {NULL}

\* What TypeOK adds to LInv.
TypePart ==
    /\ next_handle <= MaxHandles
    /\ logger \in [0 .. next_handle - 1 -> Record]
    /\ g_handle \in {-1} \cup Handles
    /\ process \in {"running", "aborted"}
    /\ SetterTypes

\* Loggers are listed once each, so that there are no more of them than handles.
LEMMA NoMoreThanHandles ==
    ASSUME LInv, next_handle <= MaxHandles
    PROVE  nloggers \in 0 .. MaxHandles
<1> DEFINE given == 0 .. next_handle - 1
<1> DEFINE counted == IF main.op = "shutdown" THEN mloggers \cup {main.h} ELSE mloggers
<1>1. /\ next_handle \in Nat /\ mloggers \subseteq given /\ IsFiniteSet(mloggers)
      /\ main.op = "shutdown" => main.h \in given \ mloggers
      /\ nloggers = Cardinality(mloggers) + (IF main.op = "shutdown" THEN 1 ELSE 0)
  BY DEF LInv, LogTypes, LogInv, CountInv
<1>2. IsFiniteSet(given) /\ Cardinality(given) = next_handle
  <2>1. 0 \in Int /\ next_handle - 1 \in Int
    BY <1>1
  <2>2. /\ IsFiniteSet(given)
        /\ Cardinality(given) = IF 0 > next_handle - 1 THEN 0 ELSE (next_handle - 1) - 0 + 1
    BY <2>1, FS_Interval, Zenon
  <2> QED
    BY <1>1, <2>2
<1>3. nloggers = Cardinality(counted)
  <2>1. Cardinality(mloggers) \in Nat
    BY <1>1, FS_CardinalityType, Zenon
  <2>2. CASE main.op = "shutdown"
    <3>1. main.h \notin mloggers
      BY <1>1, <2>2
    <3>2. Cardinality(mloggers \cup {main.h})
              = IF main.h \in mloggers THEN Cardinality(mloggers) ELSE Cardinality(mloggers) + 1
      BY <1>1, FS_AddElement, Zenon
    <3> QED
      BY <1>1, <2>2, <3>1, <3>2
  <2>3. CASE main.op # "shutdown"
    BY <1>1, <2>1, <2>3
  <2> QED
    BY <2>2, <2>3
<1>4. counted \subseteq given
  BY <1>1
<1>5. Cardinality(counted) \in Nat /\ Cardinality(counted) <= next_handle
  BY <1>2, <1>4, FS_Subset, FS_CardinalityType
<1> QED
  BY <1>1, <1>3, <1>5, LogConstants

\* Without a path a new logger of type MLOG_FILE gets no file, any other a stream.
LEMMA NewLoggerIsRecord ==
    ASSUME NEW type \in Types, NEW severity \in Severities, NEW time \in Times
    PROVE  NewLogger(type, severity, time) \in Record
<1>1. PICK f \in {"stdout", "stderr", NULL} : LogfileAfter(NULL, type, NULL) = {f}
  BY DEF LogfileAfter
<1>2. (CHOOSE x \in LogfileAfter(NULL, type, NULL) : TRUE) = f
  BY <1>1
<1> QED
  BY <1>2 DEF NewLogger, Record

\* There are no loggers to have a type.
LEMMA TypesInitial == Init => TypePart
<1> SUFFICES ASSUME Init PROVE TypePart
  OBVIOUS
<1>1. logger \in [0 .. next_handle - 1 -> Record]
  BY DEF Init
<1> QED
  BY <1>1, LogConstants DEF Init, TypePart, SetterTypes, Idle

\* A setter writes a value of its field to a logger in the list.
LEMMA ConfigureTypes ==
    ASSUME LInv, TypePart, Configure
    PROVE  TypePart'
<1>0. /\ mloggers \subseteq 0 .. next_handle - 1
      /\ UNCHANGED <<next_handle, g_handle, process>>
  BY DEF LInv, LogTypes, Configure, SetTypeBegin, setloggertime, setloggersev, RegisterCallback
<1> PICK h \in Handles :
        \/ \E type \in Types : \E path \in Paths(type) : SetTypeBegin(h, type, path)
        \/ \E time \in Times : setloggertime(h, time)
        \/ \E severity \in Severities : setloggersev(h, severity)
        \/ \E c \in Clients \cup {NULL} : RegisterCallback(h, c)
  BY DEF Configure
<1>1. CASE \E type \in Types : \E path \in Paths(type) : SetTypeBegin(h, type, path)
  BY <1>0, <1>1 DEF SetTypeBegin, TypePart, SetterTypes, Record
<1>2. CASE \E time \in Times : setloggertime(h, time)
  BY <1>0, <1>2 DEF setloggertime, TypePart, SetterTypes, Record
<1>3. CASE \E severity \in Severities : setloggersev(h, severity)
  BY <1>0, <1>3 DEF setloggersev, TypePart, SetterTypes, Record
<1>4. CASE \E c \in Clients \cup {NULL} : RegisterCallback(h, c)
  BY <1>0, <1>4 DEF RegisterCallback, TypePart, SetterTypes, Record
<1> QED
  BY <1>1, <1>2, <1>3, <1>4

\* The second assignment of a setter, or the third.
LEMMA SetterStepTypes ==
    ASSUME TypePart, SetTypeFile \/ SetTypeFail \/ RegisterData
    PROVE  TypePart'
<1>1. /\ UNCHANGED <<next_handle, g_handle, process>>
      /\ main.h \in 0 .. next_handle - 1
  BY DEF SetTypeFile, SetTypeFail, RegisterData, TypePart, SetterTypes
<1>2. CASE SetTypeFile
  <2>1. PICK f \in LogfileAfter(logger[main.h].logfile, main.type, main.path) :
          /\ logger' = [logger EXCEPT ![main.h].logfile = f]
          /\ main' \in {Idle, [op |-> "settype_fail", h |-> main.h]}
    BY <1>2 DEF SetTypeFile
  <2>2. logger[main.h].logfile \in {"stdout", "stderr", "file", NULL}
    BY <1>1 DEF TypePart, Record
  <2>3. f \in {"stdout", "stderr", "file", NULL}
    BY <2>1, <2>2 DEF LogfileAfter
  <2> QED
    BY <1>1, <2>1, <2>3 DEF TypePart, SetterTypes, Record, Idle
<1>3. CASE SetTypeFail
  BY <1>1, <1>3 DEF SetTypeFail, TypePart, SetterTypes, Record, Idle
<1>4. CASE RegisterData
  BY <1>1, <1>4 DEF RegisterData, TypePart, SetterTypes, Record, Idle
<1> QED
  BY <1>2, <1>3, <1>4

\* The new logger takes the next handle.
LEMMA CreateTypes ==
    ASSUME LInv, TypePart, Create
    PROVE  TypePart'
<1>1. PICK type \in Types, severity \in Severities, time \in Times : get_mlogger(type, severity, time)
  BY DEF Create
<1>2. /\ next_handle \in Nat /\ next_handle < MaxHandles /\ MaxHandles \in Nat /\ main = Idle
      /\ logger' = [h \in 0 .. next_handle |->
            IF h = next_handle THEN NewLogger(type, severity, time) ELSE logger[h]]
      /\ next_handle' = next_handle + 1 /\ g_handle' = DefaultHandle(g_handle)
      /\ UNCHANGED <<main, process>>
  BY <1>1, LogConstants DEF get_mlogger, LInv, LogTypes
<1>3. logger' \in [0 .. next_handle' - 1 -> Record]
  BY <1>2, NewLoggerIsRecord DEF TypePart
<1>4. g_handle' \in {-1} \cup Handles
  BY <1>2 DEF TypePart, Handles, DefaultHandle
<1> QED
  BY <1>2, <1>3, <1>4 DEF TypePart, SetterTypes, Idle

\* Every step keeps the types.
LEMMA TypesInductive == LInv /\ TypePart /\ [Next]_vars => TypePart'
<1> SUFFICES ASSUME LInv, TypePart, [Next]_vars PROVE TypePart'
  OBVIOUS
<1>1. CASE Shutdown \/ ShutdownFree
  BY <1>1 DEF Shutdown, ShutdownRemove, shutdown_all_mloggers, ShutdownFree, TypePart,
              SetterTypes, Idle
<1>2. CASE Message
  <2>1. UNCHANGED <<logger, next_handle, g_handle, main, process>>
    BY <1>2 DEF Message, mlogf, state
  <2> QED
    BY <2>1 DEF TypePart, SetterTypes
<1>3. CASE \E w \in Workers : MlogStep(w)
  <2>1. /\ UNCHANGED <<logger, next_handle, g_handle, main>>
        /\ process' \in {process, "aborted"}
    BY <1>3 DEF MlogStep, MlogLock, MlogFind, CheckSeverity, CheckCallback, CallCallback,
                FormatTime, CheckType, AssertLogfile, Write, MlogUnlock, state
  <2> QED
    BY <2>1 DEF TypePart, SetterTypes
<1>4. CASE UNCHANGED vars
  BY <1>4 DEF vars, TypePart, SetterTypes
<1> QED
  BY <1>1, <1>2, <1>3, <1>4, CreateTypes, ConfigureTypes, SetterStepTypes
  DEF Next, MainStep, Ended

\* Every logger keeps the fields of an mlog_t, the default handle is one that may have
\* been given out, and the count of loggers never leaves its range, although the
\* setters of mlog.c write one field after another and take no mutex.
THEOREM LoggersKeepTheirTypes == Spec => []TypeOK
<1>1. Init => LInv /\ TypePart
  BY InitLInv, TypesInitial
<1>2. LInv /\ TypePart /\ [Next]_vars => (LInv /\ TypePart)'
  BY NextLInv, TypesInductive
<1>3. LInv /\ TypePart => TypeOK
  BY NoMoreThanHandles DEF LInv, LogTypes, TypePart, TypeOK, Inside
<1> QED
  BY <1>1, <1>2, <1>3, PTL DEF Spec

-----------------------------------------------------------------------------
(***************************************************************************)
(* What becomes of a message, if the client changes loggers only while     *)
(* nobody is inside mlogf, with any paths and without.  The setters take   *)
(* no mutex, so that all of the following would be lost otherwise.         *)
(***************************************************************************)
Setters == {"settype", "settype_fail", "register"}

\* The types of what LogTypes leaves out.
QuietTypes ==
    /\ logger \in [0 .. next_handle - 1 -> Record]
    /\ failed \subseteq (0 .. next_handle - 1) \X {"path", NULL}
    /\ DOMAIN out = Workers

\* The setter the main thread is inside of.
SetterInv ==
    main.op \in Setters =>
        /\ main.h \in mloggers
        /\ \A w \in Workers : pc[w] = "idle"
        /\ main.op = "register" => /\ main.c \in Clients \cup {NULL}
                                   /\ logger[main.h].callback = main.c

\* Between two setters a logger that is on has a file, unless the last call of
\* setloggertype for it had no path, and one with a callback has the data that belongs
\* to it.
LoggerOK(h) ==
    /\ logger[h].loggertype # "NONE" /\ logger[h].logfile = NULL =>
           <<h, NULL>> \in failed \/ (main.op \in {"settype", "settype_fail"} /\ main.h = h)
    /\ logger[h].callback # NULL =>
           logger[h].cb_data = logger[h].callback \/ (main.op = "register" /\ main.h = h)

\* What a call that is about to unlock has done with its message.
Delivered(w) ==
    /\ out[w] # Nothing <=> Enabled(msg[w])
    /\ out[w].kind = "callback" => /\ out[w].fn = Log(w).callback
                                   /\ out[w].fn # NULL /\ out[w].data = out[w].fn
    /\ out[w].kind = "file" => out[w].file = Log(w).logfile /\ Log(w).callback = NULL

\* What mlogf knows of its logger from the tests it has made.
CallOK(w) ==
    /\ pc[w] # "unlock" => out[w] = Nothing
    /\ pc[w] \in {"callback", "call", "time", "type", "assert", "write"} =>
           msg[w].severity >= Log(w).severity
    /\ pc[w] = "call" => Log(w).callback # NULL
    /\ pc[w] \in {"time", "type", "assert", "write"} => Log(w).callback = NULL
    /\ pc[w] \in {"assert", "write"} => Log(w).loggertype # "NONE"
    /\ pc[w] = "unlock" => Delivered(w)

QuietPart ==
    /\ QuietTypes /\ SetterInv
    /\ \A h \in mloggers : LoggerOK(h)
    /\ \A w \in Workers : CallOK(w)

QuietInv == LInv /\ QuietPart /\ AssertFailsOnlyWithoutPath

\* Nothing is known, and nothing has to be, of a call that has not looked at the logger.
LEMMA NotBegun ==
    ASSUME NEW w \in Workers, pc'[w] \in {"idle", "lock", "find", "severity"}, out'[w] = Nothing
    PROVE  CallOK(w)'
  BY DEF CallOK

\* While nobody is inside mlogf, a step that leaves the calls alone is no concern of theirs.
LEMMA CallsNotBegun ==
    ASSUME QuietPart, UNCHANGED <<pc, out>>, \A w \in Workers : pc[w] \in {"idle", "lock"}
    PROVE  \A w \in Workers : CallOK(w)'
<1> SUFFICES ASSUME NEW w \in Workers PROVE CallOK(w)'
  OBVIOUS
<1>1. out[w] = Nothing
  BY DEF QuietPart, CallOK
<1> QED
  BY <1>1, NotBegun

LEMMA QuietInitial == Init => QuietPart
<1> SUFFICES ASSUME Init PROVE QuietPart
  OBVIOUS
<1>1. QuietTypes
  BY DEF Init, QuietTypes
<1>2. SetterInv
  BY DEF Init, SetterInv, Setters, Idle
<1>3. \A w \in Workers : CallOK(w)
  BY DEF Init, CallOK
<1> QED
  BY <1>1, <1>2, <1>3 DEF Init, QuietPart

\* The steps of the main thread inside a setter.
LEMMA ConfigureKeeps ==
    ASSUME ConfigureQuietly, LInv, QuietPart, Configure
    PROVE  QuietPart'
<1> PICK h \in Handles :
        \/ \E type \in Types : \E path \in Paths(type) : SetTypeBegin(h, type, path)
        \/ \E time \in Times : setloggertime(h, time)
        \/ \E severity \in Severities : setloggersev(h, severity)
        \/ \E c \in Clients \cup {NULL} : RegisterCallback(h, c)
  BY DEF Configure
<1>1. /\ main = Idle /\ h \in mloggers /\ h \in 0 .. next_handle - 1
      /\ \A w \in Workers : pc[w] = "idle"
      /\ UNCHANGED <<mloggers, next_handle, pc, out, process>>
  BY DEF SetTypeBegin, setloggertime, setloggersev, RegisterCallback, MayConfigure, worker,
         LInv, LogTypes
<1>2. \A w \in Workers : CallOK(w)'
  BY <1>1, CallsNotBegun
<1>3. \A n \in mloggers : n \in 0 .. next_handle - 1 /\ LoggerOK(n)
  BY DEF QuietPart, LInv, LogTypes
<1>4. QuietTypes /\ main.op = "idle"
  BY <1>1 DEF QuietPart, Idle
<1>5. ASSUME NEW type \in Types, NEW path \in Paths(type), SetTypeBegin(h, type, path)
      PROVE  QuietTypes' /\ SetterInv' /\ \A n \in mloggers' : LoggerOK(n)'
  <2>1. /\ logger' = [logger EXCEPT ![h].loggertype = type] /\ failed' = {f \in failed : f[1] # h}
        /\ main' = [op |-> "settype", h |-> h, type |-> type, path |-> path]
    BY <1>5 DEF SetTypeBegin
  <2>2. QuietTypes'
    BY <1>1, <1>4, <2>1 DEF QuietTypes, Record
  <2>3. SetterInv'
    BY <1>1, <2>1 DEF SetterInv, Setters
  <2>4. ASSUME NEW n \in mloggers' PROVE LoggerOK(n)'
    <3>1. n # h => (<<n, NULL>> \in failed => <<n, NULL>> \in failed')
      BY <2>1
    <3> QED
      BY <1>1, <1>3, <1>4, <2>1, <3>1 DEF LoggerOK, QuietTypes, Record
  <2> QED
    BY <2>2, <2>3, <2>4
<1>6. ASSUME NEW time \in Times, setloggertime(h, time)
      PROVE  QuietTypes' /\ SetterInv' /\ \A n \in mloggers' : LoggerOK(n)'
  <2>1. logger' = [logger EXCEPT ![h].logtime = time] /\ UNCHANGED <<failed, main>>
    BY <1>6 DEF setloggertime
  <2>2. QuietTypes'
    BY <1>1, <1>4, <2>1 DEF QuietTypes, Record
  <2>3. SetterInv'
    BY <1>4, <2>1 DEF SetterInv, Setters
  <2>4. ASSUME NEW n \in mloggers' PROVE LoggerOK(n)'
    BY <1>1, <1>3, <1>4, <2>1 DEF LoggerOK, QuietTypes, Record
  <2> QED
    BY <2>2, <2>3, <2>4
<1>7. ASSUME NEW severity \in Severities, setloggersev(h, severity)
      PROVE  QuietTypes' /\ SetterInv' /\ \A n \in mloggers' : LoggerOK(n)'
  <2>1. logger' = [logger EXCEPT ![h].severity = severity] /\ UNCHANGED <<failed, main>>
    BY <1>7 DEF setloggersev
  <2>2. QuietTypes'
    BY <1>1, <1>4, <2>1 DEF QuietTypes, Record
  <2>3. SetterInv'
    BY <1>4, <2>1 DEF SetterInv, Setters
  <2>4. ASSUME NEW n \in mloggers' PROVE LoggerOK(n)'
    BY <1>1, <1>3, <1>4, <2>1 DEF LoggerOK, QuietTypes, Record
  <2> QED
    BY <2>2, <2>3, <2>4
<1>8. ASSUME NEW c \in Clients \cup {NULL}, RegisterCallback(h, c)
      PROVE  QuietTypes' /\ SetterInv' /\ \A n \in mloggers' : LoggerOK(n)'
  <2>1. /\ logger' = [logger EXCEPT ![h].callback = c] /\ failed' = failed
        /\ main' = [op |-> "register", h |-> h, c |-> c]
    BY <1>8 DEF RegisterCallback
  <2>2. QuietTypes'
    BY <1>1, <1>4, <2>1 DEF QuietTypes, Record
  <2>3. SetterInv'
    BY <1>1, <1>4, <2>1 DEF SetterInv, Setters, QuietTypes, Record
  <2>4. ASSUME NEW n \in mloggers' PROVE LoggerOK(n)'
    BY <1>1, <1>3, <1>4, <2>1 DEF LoggerOK, QuietTypes, Record
  <2> QED
    BY <2>2, <2>3, <2>4
<1> QED
  BY <1>2, <1>5, <1>6, <1>7, <1>8 DEF QuietPart

LEMMA SetterKeeps ==
    ASSUME LInv, QuietPart, SetTypeFile \/ SetTypeFail \/ RegisterData
    PROVE  QuietPart'
<1>1. /\ main.op \in Setters /\ main.h \in mloggers /\ main.h \in 0 .. next_handle - 1
      /\ \A w \in Workers : pc[w] = "idle"
      /\ UNCHANGED <<mloggers, next_handle, pc, out, process>>
  BY DEF SetTypeFile, SetTypeFail, RegisterData, worker, state, QuietPart, SetterInv, Setters,
         LInv, LogTypes
<1>2. \A w \in Workers : CallOK(w)'
  BY <1>1, CallsNotBegun
<1>3. \A n \in mloggers : n \in 0 .. next_handle - 1 /\ LoggerOK(n)
  BY DEF QuietPart, LInv, LogTypes
<1>4. QuietTypes /\ SetterInv
  BY DEF QuietPart
<1>5. CASE SetTypeFile
  <2>1. PICK f \in LogfileAfter(logger[main.h].logfile, main.type, main.path) :
          /\ logger' = [logger EXCEPT ![main.h].logfile = f]
          /\ IF main.type = "FILE" /\ main.path # NULL /\ f = NULL
             THEN main' = [op |-> "settype_fail", h |-> main.h]
             ELSE main' = Idle
    BY <1>5 DEF SetTypeFile
  <2>2. /\ main.op = "settype"
        /\ failed' = IF main.type = "FILE" /\ main.path = NULL
                     THEN failed \cup {<<main.h, NULL>>} ELSE failed
    BY <1>5 DEF SetTypeFile
  <2>3. logger[main.h] \in Record /\ logger[main.h].logfile \in {"stdout", "stderr", "file", NULL}
    BY <1>1, <1>4 DEF QuietTypes, Record
  <2>4. /\ f \in {"stdout", "stderr", "file", NULL}
        /\ f = NULL => \/ <<main.h, NULL>> \in failed'
                       \/ main' = [op |-> "settype_fail", h |-> main.h]
    BY <2>1, <2>2, <2>3, LogConstants DEF LogfileAfter
  <2>5. main' = Idle \/ main' = [op |-> "settype_fail", h |-> main.h]
    BY <2>1
  <2>6. QuietTypes'
    BY <1>1, <1>4, <2>1, <2>2, <2>4 DEF QuietTypes, Record
  <2>7. SetterInv'
    BY <1>1, <2>5 DEF SetterInv, Setters, Idle
  <2>8. ASSUME NEW n \in mloggers' PROVE LoggerOK(n)'
    <3>1. n \in 0 .. next_handle - 1 /\ LoggerOK(n)
      BY <1>1, <1>3
    <3>2. CASE n = main.h
      BY <1>4, <2>1, <2>2, <2>4, <3>1, <3>2 DEF LoggerOK, QuietTypes, Record, Idle
    <3>3. CASE n # main.h
      BY <1>4, <2>1, <2>2, <2>5, <3>1, <3>3 DEF LoggerOK, QuietTypes, Idle
    <3> QED
      BY <3>2, <3>3
  <2> QED
    BY <1>2, <2>6, <2>7, <2>8 DEF QuietPart
<1>6. CASE SetTypeFail
  <2>1. /\ logger' = [logger EXCEPT ![main.h].loggertype = "NONE"]
        /\ main.op = "settype_fail" /\ failed' = failed \cup {<<main.h, "path">>}
        /\ main' = Idle
    BY <1>6 DEF SetTypeFail
  <2>2. QuietTypes'
    BY <1>1, <1>4, <2>1 DEF QuietTypes, Record
  <2>3. SetterInv'
    BY <2>1 DEF SetterInv, Setters, Idle
  <2>4. ASSUME NEW n \in mloggers' PROVE LoggerOK(n)'
    BY <1>1, <1>3, <1>4, <2>1 DEF LoggerOK, QuietTypes, Record, Idle
  <2> QED
    BY <1>2, <2>2, <2>3, <2>4 DEF QuietPart
<1>7. CASE RegisterData
  <2>1. /\ logger' = [logger EXCEPT ![main.h].cb_data = main.c]
        /\ main.op = "register" /\ failed' = failed /\ main' = Idle
    BY <1>7 DEF RegisterData
  <2>2. main.c \in Clients \cup {NULL} /\ logger[main.h].callback = main.c
    BY <1>4, <2>1 DEF SetterInv, Setters
  <2>3. QuietTypes'
    BY <1>1, <1>4, <2>1, <2>2 DEF QuietTypes, Record
  <2>4. SetterInv'
    BY <2>1 DEF SetterInv, Setters, Idle
  <2>5. ASSUME NEW n \in mloggers' PROVE LoggerOK(n)'
    BY <1>1, <1>3, <1>4, <2>1, <2>2 DEF LoggerOK, QuietTypes, Record, Idle
  <2> QED
    BY <1>2, <2>3, <2>4, <2>5 DEF QuietPart
<1> QED
  BY <1>5, <1>6, <1>7

\* Creation and shutdown have the mutex, so that nobody is past lock.
LEMMA NobodyInside ==
    ASSUME LInv, logging_mutex = NULL
    PROVE  \A w \in Workers : pc[w] \in {"idle", "lock"}
  BY LogConstants DEF LInv, LogTypes, LogInv, Inside

LEMMA LifecycleKeeps ==
    ASSUME LInv, QuietPart, Create \/ Shutdown \/ ShutdownFree
    PROVE  QuietPart'
<1>1. QuietTypes /\ \A n \in mloggers : n \in 0 .. next_handle - 1 /\ LoggerOK(n)
  BY DEF QuietPart, LInv, LogTypes
<1>2. CASE Create
  <2>1. PICK type \in Types, severity \in Severities, time \in Times :
             get_mlogger(type, severity, time)
    BY <1>2 DEF Create
  <2>2. /\ main = Idle /\ logging_mutex = NULL /\ next_handle' = next_handle + 1
        /\ logger' = [h \in 0 .. next_handle |->
              IF h = next_handle THEN NewLogger(type, severity, time) ELSE logger[h]]
        /\ mloggers' = mloggers \cup {next_handle} 
        /\ failed' = IF type = "FILE" THEN failed \cup {<<next_handle, NULL>>} ELSE failed
        /\ UNCHANGED <<main, pc, out, process>> /\ next_handle \in Nat
    BY <2>1 DEF get_mlogger, worker, LInv, LogTypes
  <2>3. PICK f \in {"stdout", "stderr", NULL} :
             /\ NewLogger(type, severity, time) =
                   [loggertype |-> type, severity |-> severity, logtime |-> time,
                    logfile |-> f, callback |-> NULL, cb_data |-> NULL]
             /\ f = NULL => type = "FILE"
    <3>1. PICK f \in {"stdout", "stderr", NULL} :
               LogfileAfter(NULL, type, NULL) = {f} /\ (f = NULL => type = "FILE")
      BY LogConstants DEF LogfileAfter
    <3>2. (CHOOSE x \in LogfileAfter(NULL, type, NULL) : TRUE) = f
      BY <3>1
    <3> QED
      BY <3>1, <3>2 DEF NewLogger
  <2>4. QuietTypes'
    <3>1. NewLogger(type, severity, time) \in Record
      BY <2>1, <2>3 DEF Record
    <3> QED
      BY <1>1, <2>2, <3>1 DEF QuietTypes
  <2>5. SetterInv'
    BY <2>2 DEF SetterInv, Setters, Idle
  <2>6. ASSUME NEW n \in mloggers' PROVE LoggerOK(n)'
    <3>1. CASE n = next_handle
      <4>1. /\ logger'[n].logfile = NULL => <<n, NULL>> \in failed'
            /\ logger'[n].callback = NULL
        BY <1>1, <2>2, <2>3, <3>1, LogConstants DEF QuietTypes
      <4> QED
        BY <2>2, <4>1 DEF LoggerOK
    <3>2. CASE n # next_handle
      <4>1. n \in mloggers /\ logger'[n] = logger[n] /\ LoggerOK(n)
        BY <1>1, <2>2, <3>2
      <4> QED
        BY <2>2, <4>1 DEF LoggerOK
    <3> QED
      BY <3>1, <3>2
  <2>7. \A w \in Workers : CallOK(w)'
    BY <2>2, NobodyInside, CallsNotBegun
  <2> QED
    BY <2>4, <2>5, <2>6, <2>7 DEF QuietPart
<1>3. CASE Shutdown
  <2>1. /\ main = Idle /\ logging_mutex = NULL /\ mloggers' \subseteq mloggers
        /\ main'.op \notin Setters
        /\ UNCHANGED <<logger, failed, next_handle, pc, out>>
    BY <1>3 DEF Shutdown, ShutdownRemove, shutdown_all_mloggers, worker, Setters, Idle
  <2>2. QuietTypes' /\ SetterInv'
    BY <1>1, <2>1 DEF QuietTypes, SetterInv
  <2>3. \A n \in mloggers' : LoggerOK(n)'
    BY <1>1, <2>1 DEF LoggerOK, Idle
  <2>4. \A w \in Workers : CallOK(w)'
    BY <2>1, NobodyInside, CallsNotBegun
  <2> QED
    BY <2>2, <2>3, <2>4 DEF QuietPart
<1>4. CASE ShutdownFree
  <2>1. /\ main.op = "shutdown" /\ main' = Idle
        /\ UNCHANGED <<mloggers, logger, failed, next_handle, pc, msg, out, process>>
    BY <1>4 DEF ShutdownFree, worker
  <2>2. QuietTypes' /\ SetterInv'
    BY <1>1, <2>1 DEF QuietTypes, SetterInv, Setters, Idle
  <2>3. \A n \in mloggers' : LoggerOK(n)'
    BY <1>1, <2>1 DEF LoggerOK, Idle
  <2>4. \A w \in Workers : CallOK(w)'
    BY <2>1 DEF QuietPart, CallOK, Delivered, Enabled, Log
  <2> QED
    BY <2>2, <2>3, <2>4 DEF QuietPart
<1> QED
  BY <1>2, <1>3, <1>4

LEMMA MessageKeeps ==
    ASSUME ConfigureQuietly, LInv, QuietPart, Message
    PROVE  QuietPart'
<1>1. PICK w \in Workers, severity \in Severities, handle \in {g_handle} \cup Handles :
           mlogf(w, handle, severity)
  BY DEF Message
<1>2. /\ pc[w] = "idle" /\ pc' = [pc EXCEPT ![w] = "lock"] /\ main.op \notin Setters
      /\ msg' = [msg EXCEPT ![w] = [handle |-> handle, severity |-> severity]]
      /\ UNCHANGED <<mloggers, logger, failed, next_handle, main, out, process>>
  BY <1>1 DEF mlogf, To, state, Setters
<1>3. QuietTypes' /\ SetterInv' /\ \A n \in mloggers' : LoggerOK(n)'
  BY <1>2 DEF QuietPart, QuietTypes, SetterInv, LoggerOK
<1>4. pc \in [Workers -> Inside \cup {"idle", "lock"}] /\ DOMAIN msg = Workers
  BY DEF LInv, LogTypes
<1>5. ASSUME NEW v \in Workers PROVE CallOK(v)'
  <2>1. CASE v = w
    BY <1>2, <1>4, <2>1, NotBegun DEF QuietPart, CallOK
  <2>2. CASE v # w
    BY <1>2, <1>4, <2>2 DEF QuietPart, CallOK, Delivered, Enabled, Log
  <2> QED
    BY <2>1, <2>2
<1> QED
  BY <1>3, <1>5 DEF QuietPart

\* A step of a call inside mlogf: the others are outside, and the logger, in the list
\* all the while, stays as it is.
LEMMA WorkerKeeps ==
    ASSUME LInv, QuietPart, NEW w \in Workers, MlogStep(w)
    PROVE  QuietPart'
<1>1. /\ UNCHANGED <<mloggers, logger, next_handle, main, failed>>
      /\ pc[w] # "idle"
  BY DEF MlogStep, MlogLock, MlogFind, CheckSeverity, CheckCallback, CallCallback,
         FormatTime, CheckType, AssertLogfile, Write, MlogUnlock, state
<1>2. QuietTypes /\ SetterInv /\ CallOK(w) /\ main.op \notin Setters
  BY <1>1 DEF QuietPart, SetterInv
<1>3. /\ pc \in [Workers -> Inside \cup {"idle", "lock"}]
      /\ DOMAIN msg = Workers /\ DOMAIN out = Workers
      /\ msg[w].severity \in Int
      /\ HoldsLogger(w) => /\ msg[w].handle \in mloggers
                           /\ msg[w].handle \in 0 .. next_handle - 1
  BY <1>2 DEF LInv, LogTypes, LogInv, QuietTypes
<1>4. HoldsLogger(w) => LoggerOK(msg[w].handle) /\ Log(w).severity \in Int
  <2>1. HoldsLogger(w) => Log(w) \in Record
    BY <1>2, <1>3 DEF QuietTypes, Log
  <2>2. ASSUME NEW r \in Record PROVE r.severity \in Severities
    BY DEF Record
  <2>3. \A s \in Severities : s \in Int
    BY LogConstants
  <2> QED
    BY <1>3, <2>1, <2>2, <2>3 DEF QuietPart
<1>5. SetterInv'
  BY <1>1, <1>2 DEF SetterInv
<1>6. \A n \in mloggers' : LoggerOK(n)'
  BY <1>1 DEF QuietPart, LoggerOK
<1>7. ASSUME NEW v \in Workers, v # w
      PROVE  pc'[v] = pc[v] /\ out'[v] = out[v] /\ msg'[v] = msg[v]
  BY <1>2, <1>3, <1>7 DEF QuietTypes, MlogStep, MlogLock, MlogFind, CheckSeverity, CheckCallback,
         CallCallback, FormatTime, CheckType, AssertLogfile, Write, MlogUnlock, state, To
<1>8. ASSUME NEW v \in Workers, v # w PROVE CallOK(v)'
  BY <1>1, <1>7, <1>8 DEF QuietPart, CallOK, Delivered, Enabled, Log
<1> SUFFICES QuietTypes' /\ CallOK(w)'
  BY <1>5, <1>6, <1>8 DEF QuietPart
<1> USE <1>1, <1>2, <1>3 DEF QuietTypes, To
<1>9. CASE MlogLock(w)
  <2>1. pc'[w] = "find" /\ out'[w] = Nothing
    BY <1>9 DEF MlogLock, CallOK
  <2> QED
    BY <1>9, <2>1, NotBegun DEF MlogLock
<1>10. CASE MlogFind(w)
  BY <1>10 DEF MlogFind, CallOK, Delivered, Enabled, Nothing
<1>11. CASE CheckSeverity(w)
  <2>1. HoldsLogger(w)
    BY <1>11 DEF CheckSeverity, HoldsLogger
  <2>2. Log(w).severity \in Int
    BY <1>4, <2>1
  <2> QED
    BY <1>11, <2>2 DEF CheckSeverity, CallOK, Delivered, Enabled, Nothing, Log
<1>12. CASE CheckCallback(w)
  BY <1>12 DEF CheckCallback, CallOK, Log
<1>13. CASE CallCallback(w)
  <2>1. HoldsLogger(w) /\ Log(w).callback # NULL /\ Log(w).cb_data = Log(w).callback
    BY <1>4, <1>13 DEF CallCallback, HoldsLogger, CallOK, LoggerOK, Log, Setters
  <2>2. /\ out'[w] = [kind |-> "callback", fn |-> Log(w).callback, data |-> Log(w).cb_data]
        /\ pc'[w] = "unlock" /\ UNCHANGED msg /\ DOMAIN out' = Workers
    BY <1>13 DEF CallCallback
  <2>3. Enabled(msg[w])' /\ Log(w)' = Log(w)
    BY <1>13, <2>1, <2>2 DEF CallCallback, Enabled, CallOK, Log
  <2> QED
    BY <2>1, <2>2, <2>3 DEF CallOK, Delivered, Nothing
<1>14. CASE FormatTime(w)
  BY <1>14 DEF FormatTime, CallOK, Log
<1>15. CASE CheckType(w)
  BY <1>15 DEF CheckType, CallOK, Delivered, Enabled, Nothing, Log
<1>16. CASE AssertLogfile(w)
  BY <1>16 DEF AssertLogfile, CallOK, Log
<1>17. CASE Write(w)
  <2>1. /\ out'[w] = [kind |-> "file", file |-> Log(w).logfile, timebuf |-> Log(w).logtime # "NONE"]
        /\ pc'[w] = "unlock" /\ UNCHANGED msg /\ DOMAIN out' = Workers
    BY <1>17 DEF Write
  <2>2. Enabled(msg[w])' /\ Log(w)' = Log(w)
    BY <1>17, <2>1 DEF Write, HoldsLogger, Enabled, CallOK, Log
  <2>3. Log(w).callback = NULL
    BY <1>17 DEF Write, CallOK
  <2> QED
    BY <2>1, <2>2, <2>3 DEF CallOK, Delivered, Nothing
<1>18. CASE MlogUnlock(w)
  <2>1. pc'[w] = "idle" /\ out'[w] = Nothing
    BY <1>18 DEF MlogUnlock
  <2> QED
    BY <1>18, <2>1, NotBegun DEF MlogUnlock
<1> QED
  BY <1>9, <1>10, <1>11, <1>12, <1>13, <1>14, <1>15, <1>16, <1>17, <1>18 DEF MlogStep

\* While it runs, the count of shutdown_all_mloggers comes out right, and a logger that
\* is on without a file has asked for one without a path.
LEMMA NoOtherAssertion ==
    ASSUME LInv, QuietPart, process = "running", Next
    PROVE  AssertFailsOnlyWithoutPath'
<1>1. CASE shutdown_all_mloggers
  <2>1. nloggers = Cardinality(mloggers) /\ nloggers \in Int
    BY <1>1, FS_CardinalityType DEF shutdown_all_mloggers, LInv, LogTypes, CountInv, Idle
  <2>2. process' = process
    BY <1>1, <2>1 DEF shutdown_all_mloggers
  <2> QED
    BY <2>2 DEF AssertFailsOnlyWithoutPath
<1>2. ASSUME NEW w \in Workers, AssertLogfile(w)
      PROVE  AssertFailsOnlyWithoutPath'
  <2>1. CASE Log(w).logfile # NULL
    BY <1>2, <2>1 DEF AssertLogfile, AssertFailsOnlyWithoutPath
  <2>2. CASE Log(w).logfile = NULL
    <3>1. pc[w] = "assert" /\ UNCHANGED <<pc, msg, failed>>
      BY <1>2, <2>2 DEF AssertLogfile
    <3>2. LoggerOK(msg[w].handle) /\ main.op \notin Setters /\ Log(w).loggertype # "NONE"
      BY <3>1 DEF LInv, LogInv, HoldsLogger, QuietPart, SetterInv, CallOK
    <3>3. <<msg[w].handle, NULL>> \in failed
      BY <2>2, <3>2 DEF LoggerOK, Log, Setters
    <3> QED
      BY <3>1, <3>3 DEF AssertFailsOnlyWithoutPath
  <2> QED
    BY <2>1, <2>2
<1>3. CASE process' = process
  BY <1>3 DEF AssertFailsOnlyWithoutPath
<1>4. \/ shutdown_all_mloggers \/ (\E w \in Workers : AssertLogfile(w)) \/ process' = process
  BY DEF Next, Create, get_mlogger, Configure, SetTypeBegin, setloggertime, setloggersev,
         RegisterCallback, Shutdown, ShutdownRemove, MainStep, SetTypeFile, SetTypeFail,
         RegisterData, ShutdownFree, Message, mlogf, MlogStep, MlogLock, MlogFind, CheckSeverity,
         CheckCallback, CallCallback, FormatTime, CheckType, Write, MlogUnlock, Ended, vars
<1> QED
  BY <1>1, <1>2, <1>3, <1>4

LEMMA QuietInductive ==
    ASSUME ConfigureQuietly
    PROVE  QuietInv /\ [Next]_vars => QuietInv'
<1> SUFFICES ASSUME LInv, QuietPart, AssertFailsOnlyWithoutPath, [Next]_vars
             PROVE  QuietPart' /\ AssertFailsOnlyWithoutPath'
  BY NextLInv DEF QuietInv
<1>1. CASE UNCHANGED vars
  <2>1. QuietPart'
    BY <1>1 DEF vars, QuietPart, QuietTypes, SetterInv, LoggerOK, CallOK, Delivered, Enabled, Log
  <2>2. AssertFailsOnlyWithoutPath'
    BY <1>1 DEF vars, AssertFailsOnlyWithoutPath
  <2> QED
    BY <2>1, <2>2
<1>2. CASE /\ process = "running"
           /\ Create \/ Configure \/ Shutdown \/ MainStep \/ Message
                 \/ \E w \in Workers : MlogStep(w)
  <2>1. Next
    BY <1>2 DEF Next
  <2>2. ASSUME NEW w \in Workers, MlogStep(w)
        PROVE  QuietPart'
    BY <2>2, WorkerKeeps
  <2>3. QuietPart'
    BY <1>2, <2>2, ConfigureKeeps, SetterKeeps, LifecycleKeeps, MessageKeeps DEF MainStep
  <2> QED
    BY <1>2, <2>1, <2>3, NoOtherAssertion
<1> QED
  BY <1>1, <1>2 DEF Next, Ended

LEMMA QuietCorrect ==
    ASSUME ConfigureQuietly
    PROVE  Spec => []QuietInv
<1>1. Init => QuietInv
  BY InitLInv, QuietInitial DEF QuietInv, Init, AssertFailsOnlyWithoutPath
<1> QED
  BY <1>1, QuietInductive, PTL DEF Spec

\* Every message that is not filtered out reaches its callback or its file, and no
\* other does (mlog.h: "Only continue if the severity of this message >= the logger
\* severity"), for any number of workers and loggers.
THEOREM MessagesDelivered ==
    ASSUME ConfigureQuietly
    PROVE  Spec => []DeliveredIfEnabled
<1>1. QuietInv => DeliveredIfEnabled
  BY DEF QuietInv, QuietPart, CallOK, Delivered, DeliveredIfEnabled
<1> QED
  BY <1>1, QuietCorrect, PTL

\* A callback is never called with the data of another (vmlogf reads the two one
\* after the other).
THEOREM CallbacksMatch ==
    ASSUME ConfigureQuietly
    PROVE  Spec => []CallbackGetsItsData
<1>1. QuietInv => CallbackGetsItsData
  BY DEF QuietInv, QuietPart, CallOK, Delivered, CallbackGetsItsData, Nothing
<1> QED
  BY <1>1, QuietCorrect, PTL

\* The assertions of vmlogf and shutdown_all_mloggers hold: a logger whose file could
\* not be opened is off before anybody logs to it.  They hold with every use of paths
\* but one: asking for a log file without a path, as get_mlogger(MLOG_FILE) always
\* does, is the only way to make one fail.
THEOREM AssertionsHold ==
    ASSUME ConfigureQuietly
    PROVE  Spec => []AssertFailsOnlyWithoutPath
<1>1. QuietInv => AssertFailsOnlyWithoutPath
  BY DEF QuietInv, QuietPart
<1> QED
  BY <1>1, QuietCorrect, PTL
=============================================================================
